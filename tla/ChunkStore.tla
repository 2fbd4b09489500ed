------------------------------- MODULE ChunkStore -------------------------------
(***************************************************************************)
(* The life of a chunk in ConstelFS: the central server hands out nodes    *)
(* (PrepareWrite), a writer puts the bytes on storage nodes, the server    *)
(* records the outcome (ConfirmWrite) and starts one background goroutine  *)
(* that asks the first node to push the chunk to the others                *)
(* (ReplicateChunk / HandleReplicate), and DeleteChunk forgets the chunk   *)
(* and then tells the nodes.  Nothing but sm.mu orders these activities,   *)
(* so every step between two lock regions or two HTTP calls is an action.  *)
(*                                                                         *)
(* Three programs write chunks and differ in what they do after            *)
(* PrepareWrite:                                                           *)
(*   "cli"     internal/client/uploader.go  PUTs to every node address     *)
(*   "web"     web/index.html               PUTs to the first address      *)
(*   "server"  FileManager.uploadFile       PUTs to the first address and, *)
(*             once the version exists, saves the chunk record again       *)
(*                                                                         *)
(* The bytes, the hash and the size of a chunk are abstracted: a node      *)
(* either has the complete chunk or it does not.  A chunk id is unique     *)
(* (file id and a nanosecond clock), so an id is prepared at most once.    *)
(***************************************************************************)
EXTENDS Naturals, FiniteSets

CONSTANTS
    Nodes,      \* storage nodes
    Chunks,     \* chunk ids
    Writers,    \* the kinds of writers at work, a subset of WriterKinds
    Replicas,   \* WriteRequest.Replicas: 3 unless the caller asks otherwise
    MaxTries,   \* attempts of ReplicateChunk: 3 in the code
    Lossy,      \* whether calls between live processes can fail or time out
    NodeCrashes,    \* whether storage nodes stop and restart
    ServerCrashes,  \* whether the central server stops and restarts
    NodeDeletes,    \* whether the operator deletes nodes
    NoNode      \* the source of a record that names no node

WriterKinds == {"cli", "web", "server"}

ASSUME ReplicasAssumption == Replicas \in Nat \ {0}
ASSUME MaxTriesAssumption == MaxTries \in Nat \ {0}
ASSUME WritersAssumption  == Writers \subseteq WriterKinds
ASSUME NoNodeAssumption   == NoNode \notin Nodes
ASSUME FaultsAssumption   ==
    /\ Lossy \in BOOLEAN
    /\ NodeCrashes \in BOOLEAN
    /\ ServerCrashes \in BOOLEAN
    /\ NodeDeletes \in BOOLEAN

VARIABLES
    nodes,      \* server: what the node map says of each node
    chunks,     \* server: StorageManager.chunks
    db,         \* server: the Chunks bucket, which survives a restart
    job,        \* server: the replication goroutine of each chunk
    deleting,   \* server: the nodes a DeleteChunk call has still to contact
    writer,     \* the program that writes each chunk
    up,         \* nodes whose HTTP server answers
    disk,       \* the chunks/ directory of each node
    wire        \* pushes <<chunk, target, try>> from node to node, where try
                \* is the attempt of ReplicateChunk they belong to

vars == <<nodes, chunks, db, job, deleting, writer, up, disk, wire>>

-----------------------------------------------------------------------------
(* Records of the server.                                                  *)

ChunkStatus == {"absent", "pending", "success", "degraded", "blank"}
ChunkInfo   == [status  : ChunkStatus,
                source  : Nodes \cup {NoNode},
                targets : SUBSET Nodes]

Absent == [status |-> "absent", source |-> NoNode, targets |-> {}]

\* What uploadFile saves after the version: no status, no hash, and replicas
\* that are addresses, which no lookup by node id resolves.
Blank  == [status |-> "blank", source |-> NoNode, targets |-> {}]

\* ChunkInfo.Replicas is the list source, targets; of their order only the
\* place of the source matters.
ReplicaSet(c) == ({c.source} \ {NoNode}) \cup c.targets

Confirmed(c) == c.status \in {"success", "degraded"}

JobPhase == {"none", "start", "post", "wait", "failing",
             "ok", "failed", "lost"}
Job      == [phase : JobPhase, tries : 0..MaxTries,
             source : Nodes \cup {NoNode},
             to : SUBSET Nodes, acked : SUBSET Nodes]
NoJob    == [phase |-> "none", tries |-> 0, source |-> NoNode,
             to |-> {}, acked |-> {}]
Running  == {"start", "post", "wait", "failing"}

WriterPhase == {"idle", "put", "confirm", "publish", "resave",
                "done", "failed"}
Writer      == [phase : WriterPhase, kind : Writers \cup {"none"},
                first : Nodes \cup {NoNode}, addrs : SUBSET Nodes,
                todo : SUBSET Nodes]
NoWriter    == [phase |-> "idle", kind |-> "none", first |-> NoNode,
                addrs |-> {}, todo |-> {}]

TypeOK ==
    /\ nodes    \in [Nodes -> {"absent", "offline", "online"}]
    /\ chunks   \in [Chunks -> ChunkInfo]
    /\ db       \in [Chunks -> ChunkInfo]
    /\ job      \in [Chunks -> Job]
    /\ deleting \in [Chunks -> SUBSET Nodes]
    /\ writer   \in [Chunks -> Writer]
    /\ up       \in SUBSET Nodes
    /\ disk     \in [Nodes -> SUBSET Chunks]
    /\ wire     \in SUBSET (Chunks \X Nodes \X (0..MaxTries))

Init ==
    /\ nodes    = [n \in Nodes |-> "absent"]
    /\ chunks   = [c \in Chunks |-> Absent]
    /\ db       = [c \in Chunks |-> Absent]
    /\ job      = [c \in Chunks |-> NoJob]
    /\ deleting = [c \in Chunks |-> {}]
    /\ writer   = [c \in Chunks |-> NoWriter]
    /\ up       = {}
    /\ disk     = [n \in Nodes |-> {}]
    /\ wire     = {}

-----------------------------------------------------------------------------
(* The node map, as far as chunks depend on it.  "online" stands for a     *)
(* configured node that sends heartbeats, "offline" for every other entry. *)

Registered == {n \in Nodes : nodes[n] # "absent"}
Online     == {n \in Nodes : nodes[n] = "online"}

\* Agent.Start registers the node before it serves chunks.
StartNode(n) ==
    /\ n \notin up
    /\ up' = up \cup {n}
    /\ nodes' = [nodes EXCEPT ![n] = IF @ = "absent" THEN "offline" ELSE @]
    /\ UNCHANGED <<chunks, db, job, deleting, writer, disk, wire>>

\* A heartbeat of a configured node; it may arrive after the node stopped.
HeartbeatNode(n) ==
    /\ nodes[n] = "offline"
    /\ nodes' = [nodes EXCEPT ![n] = "online"]
    /\ UNCHANGED <<chunks, db, job, deleting, writer, up, disk, wire>>

\* No heartbeat for HeartbeatTimeout, or a configureNode that puts the node back
\* to "configured": the node may be up all the time.
CheckNodeStatus(n) ==
    /\ nodes[n] = "online"
    /\ nodes' = [nodes EXCEPT ![n] = "offline"]
    /\ UNCHANGED <<chunks, db, job, deleting, writer, up, disk, wire>>

\* The operator removes a node that is not online; chunk records keep its id.
DeleteNode(n) ==
    /\ NodeDeletes
    /\ nodes[n] = "offline"
    /\ nodes' = [nodes EXCEPT ![n] = "absent"]
    /\ UNCHANGED <<chunks, db, job, deleting, writer, up, disk, wire>>

-----------------------------------------------------------------------------
(* Writing.                                                                *)

\* All candidates when they are too few, else any Replicas of them: the
\* scores decide which, and the scores are data.
SelectNodes ==
    IF Cardinality(Online) < Replicas
    THEN {Online}
    ELSE {S \in SUBSET Online : Cardinality(S) = Replicas}

PrepareWrite(c, kind) ==
    /\ writer[c].phase = "idle"
    /\ \E chosen \in SelectNodes : \E s \in chosen :
         /\ chunks' = [chunks EXCEPT ![c] =
                [status |-> "pending", source |-> s, targets |-> chosen \ {s}]]
         /\ db' = [db EXCEPT ![c] = chunks'[c]]
         /\ writer' = [writer EXCEPT ![c] =
                [phase |-> "put", kind |-> kind, first |-> s, addrs |-> chosen,
                 todo |-> IF kind = "cli" THEN chosen ELSE {s}]]
    /\ UNCHANGED <<nodes, job, deleting, up, disk, wire>>

\* The addresses are served in order: the first node, then the others.
NextPut(w) == IF w.first \in w.todo THEN {w.first} ELSE w.todo

\* Mutant: the first PUT ends the loop over the addresses.
PutFirstOnly(c, n) ==
    /\ writer[c].phase = "put"
    /\ n \in NextPut(writer[c])
    /\ n \in up
    /\ disk' = [disk EXCEPT ![n] = @ \cup {c}]
    /\ writer' = [writer EXCEPT ![c].phase = "confirm"]
    /\ UNCHANGED <<nodes, chunks, db, job, deleting, up, wire>>

PutChunk(c, n) ==
    /\ writer[c].phase = "put"
    /\ n \in NextPut(writer[c])
    /\ n \in up
    /\ disk' = [disk EXCEPT ![n] = @ \cup {c}]
    /\ writer' = [writer EXCEPT ![c] =
          [@ EXCEPT !.todo = writer[c].todo \ {n},
                    !.phase = IF writer[c].todo = {n} THEN "confirm" ELSE "put"]]
    /\ UNCHANGED <<nodes, chunks, db, job, deleting, up, wire>>

\* One failed PUT ends the write; the node may have stored the chunk although
\* the answer was lost.  Neither the record nor the copies are removed.
PutFails(c, n) ==
    /\ writer[c].phase = "put"
    /\ n \in NextPut(writer[c])
    /\ \/ n \notin up /\ UNCHANGED disk
       \/ Lossy /\ UNCHANGED disk
       \/ Lossy /\ n \in up /\ disk' = [disk EXCEPT ![n] = @ \cup {c}]
    /\ writer' = [writer EXCEPT ![c].phase = "failed"]
    /\ UNCHANGED <<nodes, chunks, db, job, deleting, up, wire>>

\* The answer may be lost, or a later chunk of the same file fail: the confirmed
\* chunk then never becomes part of a version.
\* The goroutine gets its own copy of the node ids.  The error branch for an
\* unknown chunk needs a DeleteChunk before the version exists, which no writer
\* and no handler issues.
ConfirmWrite(c) ==
    /\ writer[c].phase = "confirm"
    /\ chunks[c].status # "absent"
    /\ chunks' = [chunks EXCEPT ![c].status = "success"]
    /\ db' = [db EXCEPT ![c] = chunks'[c]]
    /\ job' = [job EXCEPT ![c] =
          IF chunks[c].targets = {} THEN NoJob
          ELSE [phase |-> "start", tries |-> 0, source |-> chunks[c].source,
                to |-> chunks[c].targets, acked |-> {}]]
    /\ \E answered \in IF Lossy THEN BOOLEAN ELSE {TRUE} :
         writer' = [writer EXCEPT ![c].phase =
                      IF answered THEN "publish" ELSE "failed"]
    /\ UNCHANGED <<nodes, deleting, up, disk, wire>>

\* The writer makes the chunk part of a file version.
PublishVersion(c) ==
    /\ writer[c].phase = "publish"
    /\ writer' = [writer EXCEPT ![c].phase =
                    IF writer[c].kind = "server" THEN "resave" ELSE "done"]
    /\ UNCHANGED <<nodes, chunks, db, job, deleting, up, disk, wire>>

\* uploadFile overwrites the saved record, whatever happened to the chunk.
ResaveChunk(c) ==
    /\ writer[c].phase = "resave"
    /\ db' = [db EXCEPT ![c] = Blank]
    /\ writer' = [writer EXCEPT ![c].phase = "done"]
    /\ UNCHANGED <<nodes, chunks, job, deleting, up, disk, wire>>

\* The program that writes dies or is stopped.
WriterStops(c) ==
    /\ writer[c].phase \in {"put", "confirm", "publish"}
    /\ writer[c].kind # "server"
    /\ writer' = [writer EXCEPT ![c].phase = "failed"]
    /\ UNCHANGED <<nodes, chunks, db, job, deleting, up, disk, wire>>

-----------------------------------------------------------------------------
(* Background replication.                                                 *)

\* Mutant: one attempt too many.
NextTryOffByOne(j) ==
    [j EXCEPT !.tries = @ + 1, !.acked = {},
              !.phase = IF j.tries + 1 <= MaxTries THEN "post" ELSE "failing"]

\* The next POST of the retry loop, or its end.
NextTry(j) ==
    [j EXCEPT !.tries = @ + 1, !.acked = {},
              !.phase = IF j.tries + 1 < MaxTries THEN "post" ELSE "failing"]

\* Node ids become addresses when the goroutine runs, long after ConfirmWrite
\* read them: targets that were removed meanwhile are skipped without a trace.
ReplicateChunk(c) ==
    LET known == job[c].to \cap Registered IN
    /\ job[c].phase = "start"
    /\ job' = [job EXCEPT ![c] =
          [@ EXCEPT !.to = known,
                    !.phase = IF job[c].source \in Registered /\ known # {}
                              THEN "post" ELSE "failing"]]
    /\ UNCHANGED <<nodes, chunks, db, deleting, writer, up, disk, wire>>

\* Mutant: the chunk is pushed to every known node.
ReplicateToAll(c) ==
    /\ job[c].phase = "post"
    /\ job[c].source \in up
    /\ c \in disk[job[c].source]
    /\ wire' = wire \cup ({c} \X (Registered \ {job[c].source}) \X {job[c].tries})
    /\ job' = [job EXCEPT ![c].phase = "wait"]
    /\ UNCHANGED <<nodes, chunks, db, deleting, writer, up, disk>>

\* POST /api/v1/replicate reaches the source, which reads the chunk and starts
\* one push per target.
HandleReplicate(c) ==
    /\ job[c].phase = "post"
    /\ job[c].source \in up
    /\ c \in disk[job[c].source]
    /\ wire' = wire \cup ({c} \X job[c].to \X {job[c].tries})
    /\ job' = [job EXCEPT ![c].phase = "wait"]
    /\ UNCHANGED <<nodes, chunks, db, deleting, writer, up, disk>>

\* The source is down, the POST is lost, or the source no longer has the chunk.
PostFails(c) ==
    /\ job[c].phase = "post"
    /\ \/ Lossy
       \/ job[c].source \notin up
       \/ c \notin disk[job[c].source]
    /\ job' = [job EXCEPT ![c] = NextTry(@)]
    /\ UNCHANGED <<nodes, chunks, db, deleting, writer, up, disk, wire>>

\* A push arrives: the target writes the chunk and answers.  When the answer is
\* lost the push stays on the wire, for sendChunkToNode repeats it.  Only the
\* handler of the current attempt still has a server waiting for its count.
ReceivePush(c, t, k) ==
    /\ <<c, t, k>> \in wire
    /\ t \in up
    /\ disk' = [disk EXCEPT ![t] = @ \cup {c}]
    /\ \/ /\ wire' = wire \ {<<c, t, k>>}
          /\ job' = [job EXCEPT ![c].acked =
                       IF job[c].phase = "wait" /\ job[c].tries = k
                       THEN @ \cup {t} ELSE @]
       \/ Lossy /\ UNCHANGED <<wire, job>>
    /\ UNCHANGED <<nodes, chunks, db, deleting, writer, up>>

\* sendChunkToNode gives up after its tries, or dies with the source.
PushFails(c, t, k) ==
    /\ <<c, t, k>> \in wire
    /\ Lossy \/ t \notin up \/ job[c].source \notin up
    /\ wire' = wire \ {<<c, t, k>>}
    /\ UNCHANGED <<nodes, chunks, db, job, deleting, writer, up, disk>>

\* Mutant: an answer is a success whatever became of the pushes.
AnswerAlwaysOk(c) ==
    /\ job[c].phase = "wait"
    /\ \A t \in job[c].to : <<c, t, job[c].tries>> \notin wire
    /\ job' = [job EXCEPT ![c].phase = "ok"]
    /\ UNCHANGED <<nodes, chunks, db, deleting, writer, up, disk, wire>>

\* All pushes have ended; one that succeeded makes the answer a success.
ReplicateAnswer(c) ==
    /\ job[c].phase = "wait"
    /\ \A t \in job[c].to : <<c, t, job[c].tries>> \notin wire
    /\ job' = [job EXCEPT ![c] =
                 IF @.acked # {} THEN [@ EXCEPT !.phase = "ok"] ELSE NextTry(@)]
    /\ UNCHANGED <<nodes, chunks, db, deleting, writer, up, disk, wire>>

\* The server's client gives up after 120 s; the pushes go on.
ReplicateTimeout(c) ==
    /\ Lossy
    /\ job[c].phase = "wait"
    /\ job' = [job EXCEPT ![c] = NextTry(@)]
    /\ UNCHANGED <<nodes, chunks, db, deleting, writer, up, disk, wire>>

\* Mutant: a record deleted meanwhile is written again.
MarkUnchecked(c) ==
    /\ job[c].phase = "failing"
    /\ chunks' = [chunks EXCEPT ![c].status = "degraded"]
    /\ db' = [db EXCEPT ![c] = chunks'[c]]
    /\ job' = [job EXCEPT ![c].phase = "failed"]
    /\ UNCHANGED <<nodes, deleting, writer, up, disk, wire>>

\* Mutant: the error is only logged.
MarkNothing(c) ==
    /\ job[c].phase = "failing"
    /\ job' = [job EXCEPT ![c].phase = "failed"]
    /\ UNCHANGED <<nodes, chunks, db, deleting, writer, up, disk, wire>>

\* ReplicateChunk returned an error: the record is marked, if it still exists.
MarkDegraded(c) ==
    /\ job[c].phase = "failing"
    /\ chunks' = [chunks EXCEPT ![c].status =
                    IF @ = "absent" THEN "absent" ELSE "degraded"]
    /\ db' = IF chunks[c].status = "absent" THEN db
             ELSE [db EXCEPT ![c] = chunks'[c]]
    /\ job' = [job EXCEPT ![c].phase = "failed"]
    /\ UNCHANGED <<nodes, deleting, writer, up, disk, wire>>

-----------------------------------------------------------------------------
(* Deleting.  The file manager deletes chunks of versions it knows.        *)

\* Mutant: the saved record stays.
DeleteUnsaved(c) ==
    /\ writer[c].phase \in {"resave", "done"}
    /\ chunks[c].status # "absent"
    /\ deleting' = [deleting EXCEPT ![c] = ReplicaSet(chunks[c])]
    /\ chunks' = [chunks EXCEPT ![c] = Absent]
    /\ UNCHANGED <<nodes, db, job, writer, up, disk, wire>>

\* Mutant: the nodes are told first, and the record is left for later.
DeleteNodesFirst(c) ==
    /\ writer[c].phase \in {"resave", "done"}
    /\ chunks[c].status # "absent"
    /\ deleting' = [deleting EXCEPT ![c] = ReplicaSet(chunks[c])]
    /\ UNCHANGED <<nodes, chunks, db, job, writer, up, disk, wire>>

DeleteChunk(c) ==
    /\ writer[c].phase \in {"resave", "done"}
    /\ chunks[c].status # "absent"
    /\ deleting' = [deleting EXCEPT ![c] = ReplicaSet(chunks[c])]
    /\ chunks' = [chunks EXCEPT ![c] = Absent]
    /\ db' = [db EXCEPT ![c] = Absent]
    /\ UNCHANGED <<nodes, job, writer, up, disk, wire>>

DeleteAtNode(c, n) ==
    /\ n \in deleting[c]
    /\ nodes[n] # "absent"
    /\ n \in up
    /\ disk' = [disk EXCEPT ![n] = @ \ {c}]
    /\ deleting' = [deleting EXCEPT ![c] = @ \ {n}]
    /\ UNCHANGED <<nodes, chunks, db, job, writer, up, wire>>

\* Mutant: a call that fails is repeated until it gets through.
DeleteInsists(c, n) ==
    /\ n \in deleting[c]
    /\ nodes[n] = "absent"
    /\ deleting' = [deleting EXCEPT ![c] = @ \ {n}]
    /\ UNCHANGED <<nodes, chunks, db, job, writer, up, disk, wire>>

\* A node the server no longer knows is passed over, a failed call is logged.
DeleteAtNodeFails(c, n) ==
    /\ n \in deleting[c]
    /\ Lossy \/ nodes[n] = "absent" \/ n \notin up
    /\ deleting' = [deleting EXCEPT ![c] = @ \ {n}]
    /\ UNCHANGED <<nodes, chunks, db, job, writer, up, disk, wire>>

-----------------------------------------------------------------------------
(* Reading: DownloadFromNode tries the replicas in turn.                   *)

CanServe(c, n)  == n \in Registered /\ n \in up /\ c \in disk[n]
Downloadable(c) == \E n \in ReplicaSet(chunks[c]) : CanServe(c, n)

-----------------------------------------------------------------------------
(* Stops and restarts.                                                     *)

\* The disk survives; a POST the node was answering ends in an error.
NodeCrash(n) ==
    /\ NodeCrashes
    /\ n \in up
    /\ up' = up \ {n}
    /\ job' = [c \in Chunks |->
                 IF job[c].phase = "wait" /\ job[c].source = n
                 THEN NextTry(job[c]) ELSE job[c]]
    /\ UNCHANGED <<nodes, chunks, db, deleting, writer, disk, wire>>

\* loadData reads what was saved; goroutines and handlers are gone, and nothing
\* restarts a replication or a deletion that was under way.
ServerRestart ==
    /\ ServerCrashes
    /\ chunks' = db
    /\ nodes' = [n \in Nodes |->
                   IF nodes[n] = "online" THEN "offline" ELSE nodes[n]]
    /\ job' = [c \in Chunks |->
                 IF job[c].phase \in Running
                 THEN [job[c] EXCEPT !.phase = "lost"] ELSE job[c]]
    /\ deleting' = [c \in Chunks |-> {}]
    /\ writer' = [c \in Chunks |->
                    IF /\ writer[c].kind = "server"
                       /\ writer[c].phase \notin {"done", "failed"}
                    THEN [writer[c] EXCEPT !.phase = "failed"] ELSE writer[c]]
    /\ UNCHANGED <<db, up, disk, wire>>

-----------------------------------------------------------------------------

NodeNext(n) ==
    \/ StartNode(n)
    \/ HeartbeatNode(n)
    \/ CheckNodeStatus(n)
    \/ DeleteNode(n)
    \/ NodeCrash(n)

WriteNext(c) ==
    \/ \E kind \in Writers : PrepareWrite(c, kind)
    \/ \E n \in Nodes : PutChunk(c, n) \/ PutFails(c, n)
    \/ ConfirmWrite(c)
    \/ PublishVersion(c)
    \/ ResaveChunk(c)
    \/ WriterStops(c)

JobNext(c) ==
    \/ ReplicateChunk(c)
    \/ HandleReplicate(c)
    \/ PostFails(c)
    \/ ReplicateAnswer(c)
    \/ ReplicateTimeout(c)
    \/ MarkDegraded(c)

PushNext(c, t) ==
    \E k \in 0..MaxTries : ReceivePush(c, t, k) \/ PushFails(c, t, k)

DeleteNext(c, n) == DeleteAtNode(c, n) \/ DeleteAtNodeFails(c, n)

Next ==
    \/ \E n \in Nodes : NodeNext(n)
    \/ \E c \in Chunks :
         \/ WriteNext(c)
         \/ JobNext(c)
         \/ \E t \in Nodes : PushNext(c, t)
         \/ DeleteChunk(c)
         \/ \E n \in Nodes : DeleteNext(c, n)
    \/ ServerRestart

\* Every HTTP call has a timeout (60 s for a push, 120 s for a POST and for a
\* DELETE) and every loop a bound, so the goroutine, the pushes and the deleting
\* handler never stop for good while the server lives.
Fairness ==
    \A c \in Chunks :
      /\ WF_vars(JobNext(c))
      /\ \A n \in Nodes : WF_vars(PushNext(c, n)) /\ WF_vars(DeleteNext(c, n))

Spec     == Init /\ [][Next]_vars
FairSpec == Spec /\ Fairness
-----------------------------------------------------------------------------
(* Properties.                                                             *)

\* A chunk the server calls success or degraded is on its first node, whatever
\* crashed, was lost or timed out since: ConfirmWrite only follows a completed
\* PUT, and the nodes are told to delete only after the record is gone.
Durable ==
    \A c \in Chunks : Confirmed(chunks[c]) => c \in disk[chunks[c].source]

\* A replication that ended without error, possibly in a retry that overlaps an
\* abandoned attempt, leaves the chunk on a second node of the record for as long
\* as the record exists.
SecondCopy ==
    \A c \in Chunks :
      job[c].phase = "ok" /\ Confirmed(chunks[c]) =>
        \E t \in chunks[c].targets : c \in disk[t]

\* The command line client reports a chunk as written only when every replica of
\* the record holds it, and no later failure takes a copy away.
ClientWritesAllCopies ==
    \A c \in Chunks :
      /\ writer[c].kind = "cli"
      /\ writer[c].phase \in {"confirm", "publish", "done"}
      => \A n \in ReplicaSet(chunks[c]) : c \in disk[n]

\* Copies, also those that outlive their record, are only on nodes that
\* PrepareWrite chose, and so is every push still under way.
CopiesWhereAssigned ==
    \A c \in Chunks :
      /\ \A n \in Nodes : c \in disk[n] => n \in writer[c].addrs
      /\ \A m \in wire : m[1] = c => m[2] \in writer[c].addrs

\* A deleted chunk never becomes confirmed again, not by a late ConfirmWrite, a
\* late MarkDegraded or a restart.  (uploadFile can bring back a blank record.)
DeletedStaysDeleted ==
    [][\A c \in Chunks :
         writer[c].phase \in {"resave", "done"} /\ ~Confirmed(chunks[c])
           => ~Confirmed(chunks'[c])]_vars

\* A restart loads what the server had in memory, unless it is a record that uploadFile
\* overwrote: each change of a record, the goroutine's late ones too, reaches both
\* copies or neither.
RestartKeepsRecords ==
    \A c \in Chunks :
      db[c] # chunks[c] => db[c] = Blank /\ writer[c].kind = "server"

\* What ChunkPromise says of a chunk.  A promise is over when the record is gone, or
\* has no content left, although nodes were chosen once.
Promised(c) ==
    IF Confirmed(chunks[c]) THEN "made"
    ELSE IF chunks[c].status = "pending" \/ writer[c].addrs = {} THEN "none"
    ELSE "over"

Promise == INSTANCE ChunkPromise WITH
    promise <- [c \in Chunks |-> Promised(c)],
    home    <- [c \in Chunks |-> IF Confirmed(chunks[c]) THEN chunks[c].source ELSE NoNode],
    place   <- [c \in Chunks |-> writer[c].addrs],
    copies  <- [c \in Chunks |-> {n \in Nodes : c \in disk[n]}]

\* Whatever is lost, late, repeated, stopped or restarted, a chunk is treated as
\* ChunkPromise says: in particular no copy goes before its record, and no record that
\* went comes back as a promise.
ImplementsChunkPromise == Promise!Spec

\* The server's loss of a copy is noticed: once confirmed with several replicas, a
\* chunk reaches a second node, or is marked degraded, deleted or blank, or the
\* server restarted and forgot the replication.
ReplicationSettles ==
    \A c \in Chunks :
      job[c].phase = "start" ~>
        \/ \E t \in job[c].to : c \in disk[t]
        \/ chunks[c].status # "success"
        \/ job[c].phase = "lost"

\* A DeleteChunk call returns: it contacts each node once and never waits for a
\* node that is gone.
DeletionEnds ==
    \A c \in Chunks : deleting[c] # {} ~> deleting[c] = {}

-----------------------------------------------------------------------------
(* What the documentation promises and the code does not keep.             *)

\* docs/FEATURE_CHECKLIST.md:43 "keeps N replicas": a replication that ended
\* without error has put the chunk on all of its replicas.
ReplicationIsComplete ==
    \A c \in Chunks :
      job[c].phase = "ok" /\ chunks[c].status = "success" =>
        \A n \in ReplicaSet(chunks[c]) : c \in disk[n]

\* docs/design.md:65 "deleting a version removes the chunk data at once": when
\* DeleteChunk has returned, no node has the chunk, and none gets it afterwards.
DeletionIsComplete ==
    \A c \in Chunks :
      writer[c].phase = "done" /\ chunks[c].status = "absent" /\ deleting[c] = {}
        => \A n \in Nodes : c \notin disk[n]

\* docs/FEATURE_CHECKLIST.md:65 "download from the storage nodes": a chunk of a
\* finished upload can be downloaded while all its nodes are up and registered.
UploadedIsDownloadable ==
    \A c \in Chunks :
      /\ writer[c].phase = "done" /\ chunks[c].status # "absent"
      /\ \A n \in writer[c].addrs : n \in up /\ n \in Registered
      => Downloadable(c)
=============================================================================
