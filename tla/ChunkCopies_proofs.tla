--------------------------- MODULE ChunkCopies_proofs ---------------------------
(***************************************************************************)
(* Where the copies of a chunk are, while it is written, pushed to other   *)
(* nodes and deleted: the properties of ChunkStore that relate several     *)
(* nodes, proved on top of its types and of DurableInv; its records in     *)
(* memory and in the database; and that it implements ChunkPromise.        *)
(***************************************************************************)
EXTENDS ChunkStore_proofs

\* Every place a node can be taken from to store the chunk there was filled by
\* PrepareWrite; before it, there is nothing to take.
Assigned(c) ==
    /\ \A n \in Nodes : c \in disk[n] => n \in writer[c].addrs
    /\ writer[c].todo \subseteq writer[c].addrs
    /\ chunks[c].targets \subseteq writer[c].addrs
    /\ db[c].targets \subseteq writer[c].addrs
    /\ job[c].to \subseteq writer[c].addrs
    /\ writer[c].phase = "idle" => writer[c].addrs = {}

\* Pushes, also those of abandoned attempts, go to targets of the goroutine, which
\* drops the targets it cannot resolve before the first of them.
Pushed(c) ==
    \A m \in wire : m[1] = c =>
      m[2] \in job[c].to /\ job[c].phase \notin {"none", "start"}

\* What has been counted is a copy on a node of each record that is confirmed.
Counted(c) ==
    /\ job[c].phase \in {"none", "start"} => job[c].acked = {}
    /\ job[c].phase = "ok" => job[c].acked # {}
    /\ job[c].acked \subseteq job[c].to
    /\ \A r \in {chunks[c], db[c]} : Confirmed(r) =>
         job[c].to \subseteq r.targets /\ \A t \in job[c].acked : c \in disk[t]

\* A restart confirms nothing.
SavedIsKnown(c) == Confirmed(db[c]) => Confirmed(chunks[c])

\* What the client has put is on the nodes of either record.
ClientPuts(c) ==
    /\ writer[c].phase \in {"confirm", "publish", "resave", "done"} => writer[c].todo = {}
    /\ /\ writer[c].kind = "cli"
       /\ writer[c].phase \in {"put", "confirm", "publish", "resave", "done"}
       => \A r \in {chunks[c], db[c]} :
            \A n \in ReplicaSet(r) \ writer[c].todo : c \in disk[n]

\* Nodes are told to delete only what no record names a node for.
DeletedUnnamed(c) ==
    deleting[c] # {} => chunks[c] = Absent /\ db[c] \in {Absent, Blank}

CopiesAt(c) ==
    /\ Assigned(c)
    /\ Pushed(c)
    /\ Counted(c)
    /\ SavedIsKnown(c)
    /\ ClientPuts(c)
    /\ DeletedUnnamed(c)

CopiesInv == \A c \in Chunks : CopiesAt(c)

LEMMA InitCopies == Init => CopiesInv
  BY DEF Init, CopiesInv, CopiesAt, Assigned, Pushed, Counted, SavedIsKnown, ClientPuts,
      DeletedUnnamed, Confirmed, Absent, NoWriter, NoJob

\* A chunk nobody touched, but for pushes of it that ended.
LEMMA CopiesFrame ==
    ASSUME NEW c \in Chunks, CopiesAt(c),
           chunks'[c] = chunks[c], db'[c] = db[c], writer'[c] = writer[c],
           job'[c] = job[c], deleting'[c] = deleting[c],
           \A n \in Nodes : c \in disk'[n] <=> c \in disk[n],
           \A m \in wire' : m[1] = c => m \in wire,
           chunks[c] \in ChunkInfo, db[c] \in ChunkInfo, job[c] \in Job
    PROVE  CopiesAt(c)'
<1>1. /\ \A r \in {chunks[c], db[c]} : ReplicaSet(r) \subseteq Nodes
      /\ job[c].acked \subseteq Nodes
  BY DEF ReplicaSet, ChunkInfo, Job
<1>2. Assigned(c)' /\ Pushed(c)'
  BY DEF CopiesAt, Assigned, Pushed
<1>3. Counted(c)'
  BY <1>1 DEF CopiesAt, Counted, Confirmed
<1>4. SavedIsKnown(c)' /\ DeletedUnnamed(c)'
  BY DEF CopiesAt, SavedIsKnown, DeletedUnnamed, Confirmed
<1>5. ClientPuts(c)'
  BY <1>1 DEF CopiesAt, ClientPuts, ReplicaSet
<1> QED
  BY <1>2, <1>3, <1>4, <1>5 DEF CopiesAt

\* Only the job of a chunk moved, and its targets and the count did not grow.
LEMMA CopiesJobStep ==
    ASSUME NEW c \in Chunks, CopiesAt(c),
           chunks'[c] = chunks[c], db'[c] = db[c], writer'[c] = writer[c],
           deleting'[c] = deleting[c], disk' = disk,
           \A m \in wire' : m[1] = c =>
             m \in wire \/ m[2] \in job'[c].to,
           \A m \in wire' : m[1] = c => job'[c].phase \notin {"none", "start"},
           job'[c].to \subseteq job[c].to,
           (\E m \in wire' : m[1] = c) => job'[c].to = job[c].to,
           job'[c].acked \subseteq job[c].acked,
           job'[c].acked \subseteq job'[c].to,
           job'[c].phase = "ok" => job'[c].acked # {},
           job'[c].phase \in {"none", "start"} => job'[c].acked = {}
    PROVE  CopiesAt(c)'
<1>1. Assigned(c)'
  BY DEF CopiesAt, Assigned
<1>2. Pushed(c)'
  BY DEF CopiesAt, Pushed
<1>3. Counted(c)'
  BY DEF CopiesAt, Counted, Confirmed
<1>4. SavedIsKnown(c)' /\ DeletedUnnamed(c)'
  BY DEF CopiesAt, SavedIsKnown, DeletedUnnamed, Confirmed
<1>5. ClientPuts(c)'
  BY DEF CopiesAt, ClientPuts, ReplicaSet
<1> QED
  BY <1>1, <1>2, <1>3, <1>4, <1>5 DEF CopiesAt

\* What the next attempt starts with.
LEMMA NextTryFields ==
    ASSUME NEW j \in Job
    PROVE  /\ NextTry(j).to = j.to /\ NextTry(j).acked = {}
           /\ NextTry(j).phase \in {"post", "failing"}
  BY DEF NextTry, Job

LEMMA NodeCopies ==
    ASSUME TypeInv, CopiesInv, NEW n \in Nodes, NodeNext(n)
    PROVE  CopiesInv'
<1> SUFFICES ASSUME NEW c \in Chunks
             PROVE  CopiesAt(c)'
  BY DEF CopiesInv
<1>0. /\ CopiesAt(c) /\ job[c] \in Job /\ chunks[c] \in ChunkInfo /\ db[c] \in ChunkInfo
  BY DEF TypeInv, TypeOK, CopiesInv
<1>1. CASE NodeCrash(n)
  <2>1. UNCHANGED <<chunks, db, writer, deleting, disk, wire>>
    BY <1>1 DEF NodeCrash
  <2>2. CASE job'[c] = job[c]
    BY <1>0, <2>1, <2>2, CopiesFrame
  <2>3. CASE job[c].phase = "wait" /\ job'[c] = NextTry(job[c])
    BY <1>0, <2>1, <2>3, NextTryFields, CopiesJobStep DEF CopiesAt, Pushed
  <2> QED
    BY <1>1, <2>2, <2>3 DEF NodeCrash
<1>2. CASE ~NodeCrash(n)
  <2>1. UNCHANGED <<chunks, db, writer, job, deleting, disk, wire>>
    BY <1>2 DEF NodeNext, StartNode, HeartbeatNode, CheckNodeStatus, DeleteNode
  <2> QED
    BY <1>0, <2>1, CopiesFrame
<1> QED
  BY <1>1, <1>2
LEMMA WriteCopies ==
    ASSUME TypeInv, DurableInv, CopiesInv, NEW c \in Chunks, WriteNext(c)
    PROVE  CopiesInv'
<1>0. /\ TypeOK /\ NoJobYet /\ DurableAt(c) /\ CopiesAt(c)
      /\ writer[c] \in Writer /\ chunks[c] \in ChunkInfo /\ db[c] \in ChunkInfo
  BY DEF TypeInv, TypeOK, DurableInv, CopiesInv
<1>f. \A d \in Chunks \ {c} :
        /\ chunks'[d] = chunks[d] /\ db'[d] = db[d] /\ writer'[d] = writer[d]
        /\ job'[d] = job[d] /\ deleting'[d] = deleting[d] /\ wire' = wire
        /\ \A n \in Nodes : d \in disk'[n] <=> d \in disk[n]
  <2>1. \A kind \in Writers : PrepareWrite(c, kind) =>
          /\ \A d \in Chunks \ {c} :
               chunks'[d] = chunks[d] /\ db'[d] = db[d] /\ writer'[d] = writer[d]
          /\ UNCHANGED <<job, deleting, disk, wire>>
    BY <1>0 DEF TypeOK, PrepareWrite
  <2>2. \A n \in Nodes : PutChunk(c, n) \/ PutFails(c, n) =>
          /\ \A d \in Chunks \ {c} : writer'[d] = writer[d]
          /\ \A d \in Chunks \ {c}, m \in Nodes : d \in disk'[m] <=> d \in disk[m]
          /\ UNCHANGED <<job, deleting, chunks, db, wire>>
    BY <1>0 DEF TypeOK, PutChunk, PutFails
  <2>3. ConfirmWrite(c) =>
          /\ \A d \in Chunks \ {c} :
               /\ chunks'[d] = chunks[d] /\ db'[d] = db[d] /\ writer'[d] = writer[d]
               /\ job'[d] = job[d]
          /\ UNCHANGED <<deleting, disk, wire>>
    BY <1>0 DEF TypeOK, ConfirmWrite
  <2>4. PublishVersion(c) \/ ResaveChunk(c) \/ WriterStops(c) =>
          /\ \A d \in Chunks \ {c} : writer'[d] = writer[d] /\ db'[d] = db[d]
          /\ UNCHANGED <<chunks, job, deleting, disk, wire>>
    BY <1>0 DEF TypeOK, PublishVersion, ResaveChunk, WriterStops
  <2> QED
    BY <2>1, <2>2, <2>3, <2>4 DEF WriteNext
<1>g. \A d \in Chunks \ {c} : CopiesAt(d)'
  <2> SUFFICES ASSUME NEW d \in Chunks \ {c}
               PROVE  CopiesAt(d)'
    OBVIOUS
  <2>1. CopiesAt(d) /\ chunks[d] \in ChunkInfo /\ db[d] \in ChunkInfo /\ job[d] \in Job
    BY <1>0 DEF CopiesInv, TypeOK
  <2> QED
    BY <1>f, <2>1, CopiesFrame
<1> SUFFICES CopiesAt(c)'
  BY <1>g DEF CopiesInv
<1> USE DEF CopiesAt, Assigned, Pushed, Counted, SavedIsKnown, ClientPuts, DeletedUnnamed
<1>1. ASSUME NEW kind \in Writers, PrepareWrite(c, kind)
      PROVE  CopiesAt(c)'
  <2> DEFINE Chosen(S, s) ==
         /\ chunks' = [chunks EXCEPT ![c] =
                [status |-> "pending", source |-> s, targets |-> S \ {s}]]
         /\ db' = [db EXCEPT ![c] = chunks'[c]]
         /\ writer' = [writer EXCEPT ![c] =
                [phase |-> "put", kind |-> kind, first |-> s, addrs |-> S,
                 todo |-> IF kind = "cli" THEN S ELSE {s}]]
  <2>0. PICK chosen \in SelectNodes : \E s \in chosen : Chosen(chosen, s)
    BY <1>1 DEF PrepareWrite
  <2>1. PICK s \in chosen : Chosen(chosen, s)
    BY <2>0
  <2>2. s \in Nodes
    BY <2>1 DEF SelectNodes, Online
  <2>3. /\ chunks'[c].status = "pending" /\ chunks'[c].source = s
        /\ chunks'[c].targets = chosen \ {s} /\ db'[c] = chunks'[c]
        /\ writer'[c].phase = "put" /\ writer'[c].kind = kind /\ writer'[c].addrs = chosen
        /\ writer'[c].todo = IF kind = "cli" THEN chosen ELSE {s}
    BY <1>0, <2>1 DEF TypeOK
  <2>4. job'[c] = NoJob /\ deleting'[c] = {} /\ disk' = disk /\ wire' = wire
    BY <1>0, <1>1 DEF PrepareWrite, NoJobYet, DurableAt, WriterOwns
  <2>5. NoJob.to = {} /\ NoJob.acked = {} /\ NoJob.phase = "none"
    BY DEF NoJob
  <2>6. (\A n \in Nodes : c \notin disk[n]) /\ (\A m \in wire : m[1] # c)
    <3>1. job[c] = NoJob /\ writer[c].phase = "idle"
      BY <1>0, <1>1 DEF PrepareWrite, NoJobYet
    <3> QED
      BY <1>0, <2>5, <3>1
  <2>7. Assigned(c)'
    BY <2>1, <2>3, <2>4, <2>5, <2>6
  <2>8. Pushed(c)' /\ SavedIsKnown(c)' /\ DeletedUnnamed(c)'
    BY <2>3, <2>4, <2>6
  <2>9. Counted(c)'
    BY <2>3, <2>4, <2>5 DEF Confirmed
  <2>10. ClientPuts(c)'
    <3>1. ReplicaSet(chunks'[c]) \subseteq chosen /\ ReplicaSet(db'[c]) \subseteq chosen
      BY <2>1, <2>3 DEF ReplicaSet
    <3> QED
      BY <2>3, <3>1
  <2> QED
    BY <2>7, <2>8, <2>9, <2>10
<1>2. ASSUME NEW n \in Nodes, PutChunk(c, n)
      PROVE  CopiesAt(c)'
  <2> DEFINE p == IF writer[c].todo = {n} THEN "confirm" ELSE "put"
             t == writer[c].todo \ {n}
  <2>1. /\ writer' = [writer EXCEPT ![c] = [@ EXCEPT !.todo = t, !.phase = p]]
        /\ writer[c].phase = "put" /\ n \in NextPut(writer[c])
        /\ disk' = [disk EXCEPT ![n] = @ \cup {c}]
        /\ UNCHANGED <<nodes, chunks, db, job, deleting, up, wire>>
    BY <1>2 DEF PutChunk
  <2>2. /\ p \in {"put", "confirm"} /\ (p = "confirm" => t = {})
        /\ t \in SUBSET Nodes /\ t \subseteq writer[c].todo
        /\ \A m \in Nodes : m \in writer[c].todo => m \in t \/ m = n
    BY <1>0 DEF Writer
  <2>3. n \in writer[c].todo
    BY <2>1 DEF NextPut
  <2> HIDE DEF p, t
  <2>4. /\ writer'[c].phase = p /\ writer'[c].kind = writer[c].kind
        /\ writer'[c].addrs = writer[c].addrs /\ writer'[c].todo = t
    <3>1. /\ t \in SUBSET Nodes /\ p \in WriterPhase /\ writer \in [Chunks -> Writer]
          /\ writer' = [writer EXCEPT ![c] = [@ EXCEPT !.todo = t, !.phase = p]]
      BY <1>0, <2>1, <2>2 DEF TypeOK, WriterPhase
    <3> QED
      BY <3>1 DEF Writer
  <2>5. \A m \in Nodes : c \in disk'[m] <=> (c \in disk[m] \/ m = n)
    BY <1>0, <2>1 DEF TypeOK
  <2>6. n \in writer[c].addrs
    BY <1>0, <2>3
  <2>7. Assigned(c)'
    BY <1>0, <2>1, <2>2, <2>4, <2>5, <2>6
  <2>8. Pushed(c)' /\ SavedIsKnown(c)' /\ DeletedUnnamed(c)'
    BY <1>0, <2>1
  <2>9. Counted(c)'
    <3>1. job[c].acked \subseteq Nodes
      BY <1>0 DEF TypeOK, Job
    <3> QED
      BY <1>0, <2>1, <2>5, <3>1
  <2>10. ClientPuts(c)'
    <3>1. \A r \in {chunks[c], db[c]} : ReplicaSet(r) \subseteq Nodes
      BY <1>0 DEF ReplicaSet, ChunkInfo
    <3>2. \A r \in {chunks[c], db[c]} : \A m \in ReplicaSet(r) \ t :
             m = n \/ m \in ReplicaSet(r) \ writer[c].todo
      BY <2>2, <3>1
    <3> QED
      BY <1>0, <2>1, <2>2, <2>4, <2>5, <3>1, <3>2
  <2> QED
    BY <2>7, <2>8, <2>9, <2>10
<1>3. ASSUME NEW n \in Nodes, PutFails(c, n)
      PROVE  CopiesAt(c)'
  <2>1. /\ writer'[c].phase = "failed" /\ writer'[c].addrs = writer[c].addrs
        /\ writer'[c].todo = writer[c].todo
    BY <1>0, <1>3, WriterPhaseSet DEF PutFails, TypeOK, WriterPhase
  <2>2. \A m \in Nodes : c \in disk'[m] <=> (c \in disk[m] \/ (m = n /\ c \in disk'[n]))
    BY <1>0, <1>3 DEF PutFails, TypeOK
  <2>3. n \in writer[c].addrs
    BY <1>0, <1>3 DEF PutFails, NextPut
  <2>4. UNCHANGED <<chunks, db, job, deleting, wire>>
    BY <1>3 DEF PutFails
  <2>5. Assigned(c)'
    BY <1>0, <2>1, <2>2, <2>3, <2>4
  <2>6. Counted(c)'
    <3>1. job[c].acked \subseteq Nodes
      BY <1>0 DEF TypeOK, Job
    <3> QED
      BY <1>0, <2>2, <2>4, <3>1
  <2> QED
    BY <1>0, <2>1, <2>4, <2>5, <2>6
<1>4. CASE ConfirmWrite(c)
  <2>1. /\ writer'[c].phase \in {"publish", "failed"} /\ writer'[c].kind = writer[c].kind
        /\ writer'[c].addrs = writer[c].addrs /\ writer'[c].todo = writer[c].todo
    <3>1. PICK p \in {"publish", "failed"} : writer' = [writer EXCEPT ![c].phase = p]
      BY <1>4 DEF ConfirmWrite
    <3> QED
      BY <1>0, <3>1, WriterPhaseSet DEF TypeOK, WriterPhase
  <2>2. /\ chunks'[c].status = "success" /\ chunks'[c].source = chunks[c].source
        /\ chunks'[c].targets = chunks[c].targets
    BY <1>0, <1>4, StatusSet DEF ConfirmWrite, TypeOK, ChunkStatus
  <2>3. db'[c] = chunks'[c] /\ disk' = disk /\ deleting'[c] = {} /\ wire' = wire
    BY <1>0, <1>4 DEF ConfirmWrite, TypeOK, DurableAt, WriterOwns
  <2>4. /\ job'[c].to = chunks[c].targets /\ job'[c].acked = {}
        /\ job'[c].phase \in {"none", "start"}
    BY <1>0, <1>4 DEF ConfirmWrite, NoJob, TypeOK
  <2>5. \A m \in wire : m[1] # c
    <3>1. job[c] = NoJob
      BY <1>0, <1>4 DEF ConfirmWrite, NoJobYet
    <3> QED
      BY <1>0, <3>1 DEF NoJob
  <2>6. writer[c].phase = "confirm"
    BY <1>4 DEF ConfirmWrite
  <2>7. Assigned(c)'
    BY <1>0, <2>1, <2>2, <2>3, <2>4, <2>6
  <2>8. Pushed(c)' /\ SavedIsKnown(c)' /\ DeletedUnnamed(c)'
    BY <2>3, <2>5
  <2>9. Counted(c)'
    BY <2>2, <2>3, <2>4
  <2>10. ClientPuts(c)'
    <3>1. ReplicaSet(chunks'[c]) = ReplicaSet(chunks[c])
      BY <2>2 DEF ReplicaSet
    <3> QED
      BY <1>0, <2>1, <2>3, <2>6, <3>1
  <2> QED
    BY <2>7, <2>8, <2>9, <2>10
<1>5. CASE PublishVersion(c)
  <2>1. /\ writer'[c].phase \in {"resave", "done"} /\ writer'[c].kind = writer[c].kind
        /\ writer'[c].addrs = writer[c].addrs /\ writer'[c].todo = writer[c].todo
    <3>1. PICK p \in {"resave", "done"} : writer' = [writer EXCEPT ![c].phase = p]
      BY <1>5 DEF PublishVersion
    <3> QED
      BY <1>0, <3>1, WriterPhaseSet DEF TypeOK, WriterPhase
  <2>2. writer[c].phase = "publish" /\ UNCHANGED <<chunks, db, job, deleting, disk, wire>>
    BY <1>5 DEF PublishVersion
  <2>3. ClientPuts(c)'
    BY <1>0, <2>1, <2>2
  <2> QED
    BY <1>0, <2>1, <2>2, <2>3
<1>6. CASE ResaveChunk(c)
  <2>1. /\ writer'[c].phase = "done" /\ writer'[c].kind = writer[c].kind
        /\ writer'[c].addrs = writer[c].addrs /\ writer'[c].todo = writer[c].todo
    BY <1>0, <1>6, WriterPhaseSet DEF ResaveChunk, TypeOK, WriterPhase
  <2>2. /\ db'[c] = Blank /\ writer[c].phase = "resave"
        /\ UNCHANGED <<chunks, job, deleting, disk, wire>>
    BY <1>0, <1>6 DEF ResaveChunk, TypeOK
  <2> QED
    BY <1>0, <2>1, <2>2 DEF Blank, Confirmed, ReplicaSet
<1>7. CASE WriterStops(c)
  <2>1. /\ writer'[c].phase = "failed"
        /\ writer'[c].addrs = writer[c].addrs /\ writer'[c].todo = writer[c].todo
    BY <1>0, <1>7, WriterPhaseSet DEF WriterStops, TypeOK, WriterPhase
  <2>2. UNCHANGED <<chunks, db, job, deleting, disk, wire>>
    BY <1>7 DEF WriterStops
  <2> QED
    BY <1>0, <2>1, <2>2
<1> QED
  BY <1>1, <1>2, <1>3, <1>4, <1>5, <1>6, <1>7 DEF WriteNext
LEMMA JobCopies ==
    ASSUME TypeInv, DurableInv, CopiesInv, NEW c \in Chunks, JobNext(c)
    PROVE  CopiesInv'
<1>0. /\ TypeOK /\ DurableAt(c) /\ CopiesAt(c) /\ job[c] \in Job
      /\ job[c].phase \in {"start", "post", "wait", "failing"}
  BY DEF TypeInv, TypeOK, DurableInv, CopiesInv, JobNext, ReplicateChunk, HandleReplicate,
      PostFails, ReplicateAnswer, ReplicateTimeout, MarkDegraded
<1>f. \A d \in Chunks \ {c} :
        /\ chunks'[d] = chunks[d] /\ db'[d] = db[d] /\ writer'[d] = writer[d]
        /\ job'[d] = job[d] /\ deleting'[d] = deleting[d] /\ disk' = disk
        /\ \A m \in wire' : m[1] = d => m \in wire
  <2>1. \A d \in Chunks \ {c} :
          chunks'[d] = chunks[d] /\ db'[d] = db[d] /\ job'[d] = job[d]
    <3>1. CASE MarkDegraded(c)
      BY <1>0, <3>1 DEF TypeOK, MarkDegraded
    <3>2. CASE ~MarkDegraded(c)
      BY <1>0, <3>2 DEF TypeOK, JobNext, ReplicateChunk, HandleReplicate, PostFails,
          ReplicateAnswer, ReplicateTimeout
    <3> QED
      BY <3>1, <3>2
  <2>2. UNCHANGED <<deleting, writer, disk>>
    BY DEF JobNext, ReplicateChunk, HandleReplicate, PostFails, ReplicateAnswer,
        ReplicateTimeout, MarkDegraded
  <2>3. \A m \in wire' : m \in wire \/ m[1] = c
    BY DEF JobNext, ReplicateChunk, HandleReplicate, PostFails, ReplicateAnswer,
        ReplicateTimeout, MarkDegraded
  <2> QED
    BY <2>1, <2>2, <2>3
<1>g. \A d \in Chunks \ {c} : CopiesAt(d)'
  <2> SUFFICES ASSUME NEW d \in Chunks \ {c}
               PROVE  CopiesAt(d)'
    OBVIOUS
  <2>1. CopiesAt(d) /\ chunks[d] \in ChunkInfo /\ db[d] \in ChunkInfo /\ job[d] \in Job
    BY <1>0 DEF CopiesInv, TypeOK
  <2> QED
    BY <1>f, <2>1, CopiesFrame
<1> SUFFICES CopiesAt(c)'
  BY <1>g DEF CopiesInv
<1>1. CASE ReplicateChunk(c)
  <2> DEFINE known == job[c].to \cap Registered
             p == IF job[c].source \in Registered /\ known # {}
                  THEN "post" ELSE "failing"
  <2>1. known \in SUBSET Nodes /\ p \in {"post", "failing"} /\ known \subseteq job[c].to
    BY <1>0 DEF Job
  <2>2. /\ job' = [job EXCEPT ![c] = [@ EXCEPT !.to = known, !.phase = p]]
        /\ job[c].phase = "start"
        /\ UNCHANGED <<nodes, chunks, db, deleting, writer, up, disk, wire>>
    BY <1>1 DEF ReplicateChunk
  <2>3. job[c].acked = {} /\ \A m \in wire : m[1] # c
    BY <1>0, <2>2 DEF CopiesAt, Pushed, Counted
  <2> HIDE DEF known, p
  <2>4. job'[c].to = known /\ job'[c].phase = p /\ job'[c].acked = job[c].acked
    BY <1>0, <2>2 DEF TypeOK, Job
  <2> QED
    BY <1>0, <2>1, <2>2, <2>3, <2>4, CopiesJobStep
<1>2. CASE HandleReplicate(c)
  <2>1. /\ job'[c].to = job[c].to /\ job'[c].phase = "wait" /\ job'[c].acked = job[c].acked
        /\ \A m \in wire' : m \in wire \/ m[2] \in job[c].to
        /\ UNCHANGED <<chunks, db, deleting, writer, disk>>
    BY <1>0, <1>2 DEF HandleReplicate, TypeOK, Job
  <2> QED
    BY <1>0, <2>1, CopiesJobStep DEF CopiesAt, Counted
<1>3. ASSUME job'[c] = NextTry(job[c]), UNCHANGED <<chunks, db, deleting, writer, disk, wire>>
      PROVE  CopiesAt(c)'
  BY <1>0, <1>3, NextTryFields, CopiesJobStep DEF CopiesAt, Pushed
<1>4. CASE PostFails(c)
  BY <1>0, <1>3, <1>4 DEF PostFails, TypeOK
<1>5. CASE ReplicateAnswer(c)
  <2>1. CASE job[c].acked # {}
    <3>1. /\ job'[c].to = job[c].to /\ job'[c].phase = "ok" /\ job'[c].acked = job[c].acked
          /\ UNCHANGED <<chunks, db, deleting, writer, disk, wire>>
      BY <1>0, <1>5, <2>1 DEF ReplicateAnswer, TypeOK, Job
    <3> QED
      BY <1>0, <2>1, <3>1, CopiesJobStep DEF CopiesAt, Counted, Pushed
  <2>2. CASE job[c].acked = {}
    BY <1>0, <1>3, <1>5, <2>2 DEF ReplicateAnswer, TypeOK
  <2> QED
    BY <2>1, <2>2
<1>6. CASE ReplicateTimeout(c)
  BY <1>0, <1>3, <1>6 DEF ReplicateTimeout, TypeOK
<1>7. CASE MarkDegraded(c)
  <2>1. /\ job[c].phase = "failing" /\ UNCHANGED <<deleting, writer, disk, wire>>
        /\ job'[c].to = job[c].to /\ job'[c].acked = job[c].acked
        /\ job'[c].phase = "failed"
    BY <1>0, <1>7 DEF MarkDegraded, TypeOK, Job
  <2>2. CASE chunks[c].status = "absent"
    <3>1. chunks'[c] = chunks[c] /\ db' = db
      <4>1. chunks'[c] = [chunks[c] EXCEPT !.status = "absent"]
        BY <1>0, <1>7, <2>2 DEF MarkDegraded, TypeOK
      <4> QED
        BY <1>0, <1>7, <2>2, <4>1 DEF MarkDegraded, TypeOK, ChunkInfo
    <3> QED
      BY <1>0, <2>1, <3>1, CopiesJobStep DEF CopiesAt, Counted, Pushed
  <2>3. CASE chunks[c].status # "absent"
    <3>1. Confirmed(chunks[c])
      BY <1>0, <2>1, <2>3 DEF DurableAt, JobOfConfirmed, Running
    <3>2. /\ chunks'[c].status = "degraded" /\ chunks'[c].source = chunks[c].source
          /\ chunks'[c].targets = chunks[c].targets /\ db'[c] = chunks'[c]
      BY <1>0, <1>7, <2>3, StatusSet DEF MarkDegraded, TypeOK, ChunkStatus
    <3>3. Assigned(c)'
      BY <1>0, <2>1, <3>2 DEF CopiesAt, Assigned
    <3>4. Pushed(c)' /\ SavedIsKnown(c)'
      BY <1>0, <2>1, <3>2 DEF CopiesAt, Pushed, SavedIsKnown
    <3>5. Counted(c)'
      BY <1>0, <2>1, <3>1, <3>2 DEF CopiesAt, Counted
    <3>6. ClientPuts(c)'
      <4>1. ReplicaSet(chunks'[c]) = ReplicaSet(chunks[c])
        BY <3>2 DEF ReplicaSet
      <4> QED
        BY <1>0, <2>1, <3>2, <4>1 DEF CopiesAt, ClientPuts
    <3>7. DeletedUnnamed(c)'
      BY <1>0, <2>1, <3>1 DEF CopiesAt, DeletedUnnamed, Absent, Confirmed
    <3> QED
      BY <3>3, <3>4, <3>5, <3>6, <3>7 DEF CopiesAt
  <2> QED
    BY <2>2, <2>3
<1> QED
  BY <1>1, <1>2, <1>4, <1>5, <1>6, <1>7 DEF JobNext

LEMMA PushCopies ==
    ASSUME TypeInv, CopiesInv, NEW c \in Chunks, NEW t \in Nodes, PushNext(c, t)
    PROVE  CopiesInv'
<1>0. TypeOK /\ CopiesAt(c) /\ job[c] \in Job /\ chunks[c] \in ChunkInfo /\ db[c] \in ChunkInfo
  BY DEF TypeInv, TypeOK, CopiesInv
<1>1. /\ UNCHANGED <<chunks, db, deleting, writer>> /\ wire' \subseteq wire
      /\ \E k \in 0..MaxTries : <<c, t, k>> \in wire
  BY DEF PushNext, ReceivePush, PushFails
<1>2. \A d \in Chunks \ {c} :
        /\ job'[d] = job[d]
        /\ \A n \in Nodes : d \in disk'[n] <=> d \in disk[n]
  BY <1>0 DEF PushNext, ReceivePush, PushFails, TypeOK
<1>3. \A n \in Nodes : c \in disk'[n] <=> (c \in disk[n] \/ (n = t /\ c \in disk'[t]))
  BY <1>0 DEF PushNext, ReceivePush, PushFails, TypeOK
<1>4. /\ job'[c].phase = job[c].phase /\ job'[c].to = job[c].to
      /\ \/ job'[c].acked = job[c].acked
         \/ job'[c].acked = job[c].acked \cup {t} /\ c \in disk'[t]
  BY <1>0 DEF PushNext, ReceivePush, PushFails, TypeOK, Job
<1>5. /\ t \in job[c].to /\ t \in writer[c].addrs
      /\ job[c].phase \notin {"none", "start"}
  BY <1>0, <1>1 DEF CopiesAt, Pushed, Assigned
<1>6. \A d \in Chunks \ {c} : CopiesAt(d)'
  <2> SUFFICES ASSUME NEW d \in Chunks \ {c}
               PROVE  CopiesAt(d)'
    OBVIOUS
  <2>1. CopiesAt(d) /\ chunks[d] \in ChunkInfo /\ db[d] \in ChunkInfo /\ job[d] \in Job
    BY <1>0 DEF CopiesInv, TypeOK
  <2> QED
    BY <1>1, <1>2, <2>1, CopiesFrame
<1>7. CopiesAt(c)'
  <2>1. Assigned(c)'
    BY <1>0, <1>1, <1>3, <1>4, <1>5 DEF CopiesAt, Assigned
  <2>2. Pushed(c)'
    BY <1>0, <1>1, <1>4 DEF CopiesAt, Pushed
  <2>3. Counted(c)'
    <3>1. job[c].acked \subseteq Nodes
      BY <1>0 DEF Job
    <3> QED
      BY <1>0, <1>1, <1>3, <1>4, <1>5, <3>1 DEF CopiesAt, Counted, Confirmed
  <2>4. SavedIsKnown(c)' /\ DeletedUnnamed(c)'
    BY <1>0, <1>1 DEF CopiesAt, SavedIsKnown, DeletedUnnamed, Confirmed
  <2>5. ClientPuts(c)'
    <3>1. \A r \in {chunks[c], db[c]} : ReplicaSet(r) \subseteq Nodes
      BY <1>0 DEF ReplicaSet, ChunkInfo
    <3> QED
      BY <1>0, <1>1, <1>3, <3>1 DEF CopiesAt, ClientPuts, ReplicaSet
  <2> QED
    BY <2>1, <2>2, <2>3, <2>4, <2>5 DEF CopiesAt
<1> QED
  BY <1>6, <1>7 DEF CopiesInv

LEMMA DeleteCopies ==
    ASSUME TypeInv, CopiesInv, NEW c \in Chunks,
           DeleteChunk(c) \/ \E n \in Nodes : DeleteNext(c, n)
    PROVE  CopiesInv'
<1>0. TypeOK /\ CopiesAt(c)
  BY DEF TypeInv, CopiesInv
<1>1. UNCHANGED <<job, writer, wire>>
  BY DEF DeleteChunk, DeleteNext, DeleteAtNode, DeleteAtNodeFails
<1>2. \A d \in Chunks \ {c} :
        /\ chunks'[d] = chunks[d] /\ db'[d] = db[d] /\ deleting'[d] = deleting[d]
        /\ \A n \in Nodes : d \in disk'[n] <=> d \in disk[n]
  BY <1>0 DEF DeleteChunk, DeleteNext, DeleteAtNode, DeleteAtNodeFails, TypeOK
<1>3. \A n \in Nodes : c \in disk'[n] => c \in disk[n]
  BY <1>0 DEF DeleteChunk, DeleteNext, DeleteAtNode, DeleteAtNodeFails, TypeOK
<1>4. \A d \in Chunks \ {c} : CopiesAt(d)'
  <2> SUFFICES ASSUME NEW d \in Chunks \ {c}
               PROVE  CopiesAt(d)'
    OBVIOUS
  <2>1. CopiesAt(d) /\ chunks[d] \in ChunkInfo /\ db[d] \in ChunkInfo /\ job[d] \in Job
    BY <1>0 DEF CopiesInv, TypeOK
  <2> QED
    BY <1>1, <1>2, <2>1, CopiesFrame
<1>5. ASSUME chunks'[c] = Absent, db'[c] \in {Absent, Blank}
      PROVE  CopiesAt(c)'
  <2>1. \A r \in {Absent, Blank} : r.targets = {} /\ ReplicaSet(r) = {} /\ ~Confirmed(r)
    BY DEF Absent, Blank, ReplicaSet, Confirmed
  <2>2. Assigned(c)'
    BY <1>0, <1>1, <1>3, <1>5, <2>1 DEF CopiesAt, Assigned
  <2>3. Pushed(c)' /\ Counted(c)' /\ SavedIsKnown(c)' /\ DeletedUnnamed(c)'
    BY <1>0, <1>1, <1>5, <2>1 DEF CopiesAt, Pushed, Counted, SavedIsKnown, DeletedUnnamed
  <2>4. ClientPuts(c)'
    BY <1>0, <1>1, <1>5, <2>1 DEF CopiesAt, ClientPuts
  <2> QED
    BY <2>2, <2>3, <2>4 DEF CopiesAt
<1>6. CopiesAt(c)'
  <2>1. CASE DeleteChunk(c)
    BY <1>0, <1>5, <2>1 DEF DeleteChunk, TypeOK
  <2>2. ASSUME NEW n \in Nodes, DeleteNext(c, n)
        PROVE  CopiesAt(c)'
    <3>1. chunks'[c] = Absent /\ db'[c] \in {Absent, Blank}
      BY <1>0, <2>2 DEF DeleteNext, DeleteAtNode, DeleteAtNodeFails, CopiesAt,
          DeletedUnnamed
    <3> QED
      BY <1>5, <3>1
  <2> QED
    BY <2>1, <2>2
<1> QED
  BY <1>4, <1>6 DEF CopiesInv

LEMMA RestartCopies ==
    ASSUME TypeInv, DurableInv, CopiesInv, ServerRestart
    PROVE  CopiesInv'
<1> SUFFICES ASSUME NEW c \in Chunks
             PROVE  CopiesAt(c)'
  BY DEF CopiesInv
<1>0. TypeOK /\ DurableAt(c) /\ CopiesAt(c) /\ job[c] \in Job /\ writer[c] \in Writer
  BY DEF TypeInv, TypeOK, DurableInv, CopiesInv
<1>1. chunks'[c] = db[c] /\ deleting'[c] = {} /\ UNCHANGED <<db, disk, wire>>
  BY DEF ServerRestart
<1>2. /\ job'[c].to = job[c].to /\ job'[c].acked = job[c].acked
      /\ job'[c] = job[c] \/ (job'[c].phase = "lost" /\ job[c].phase \in Running)
  BY <1>0 DEF ServerRestart, Job
<1>3. /\ writer'[c].addrs = writer[c].addrs /\ writer'[c].todo = writer[c].todo
      /\ writer'[c].kind = writer[c].kind
      /\ writer'[c] = writer[c] \/ writer'[c].phase = "failed"
  BY <1>0 DEF ServerRestart, Writer
<1>4. Assigned(c)' /\ Pushed(c)'
  BY <1>0, <1>1, <1>2, <1>3 DEF CopiesAt, Assigned, Pushed
<1>5. Counted(c)' /\ SavedIsKnown(c)' /\ DeletedUnnamed(c)'
  BY <1>0, <1>1, <1>2 DEF CopiesAt, Counted, SavedIsKnown, DeletedUnnamed
<1>6. ClientPuts(c)'
  BY <1>0, <1>1, <1>3 DEF CopiesAt, ClientPuts
<1> QED
  BY <1>4, <1>5, <1>6 DEF CopiesAt

LEMMA NextCopies == TypeInv /\ DurableInv /\ CopiesInv /\ [Next]_vars => CopiesInv'
<1> SUFFICES ASSUME TypeInv, DurableInv, CopiesInv, [Next]_vars
             PROVE  CopiesInv'
  OBVIOUS
<1>1. CASE UNCHANGED vars
  <2> SUFFICES ASSUME NEW c \in Chunks
               PROVE  CopiesAt(c)'
    BY DEF CopiesInv
  <2>1. CopiesAt(c) /\ chunks[c] \in ChunkInfo /\ db[c] \in ChunkInfo /\ job[c] \in Job
    BY DEF CopiesInv, TypeInv, TypeOK
  <2> QED
    BY <1>1, <2>1, CopiesFrame DEF vars
<1>2. ASSUME NEW n \in Nodes, NodeNext(n)
      PROVE  CopiesInv'
  BY <1>2, NodeCopies
<1>3. ASSUME NEW c \in Chunks, WriteNext(c)
      PROVE  CopiesInv'
  BY <1>3, WriteCopies
<1>4. ASSUME NEW c \in Chunks, JobNext(c)
      PROVE  CopiesInv'
  BY <1>4, JobCopies
<1>5. ASSUME NEW c \in Chunks, NEW t \in Nodes, PushNext(c, t)
      PROVE  CopiesInv'
  BY <1>5, PushCopies
<1>6. ASSUME NEW c \in Chunks, DeleteChunk(c) \/ \E n \in Nodes : DeleteNext(c, n)
      PROVE  CopiesInv'
  BY <1>6, DeleteCopies
<1>7. CASE ServerRestart
  BY <1>7, RestartCopies
<1> QED
  BY <1>1, <1>2, <1>3, <1>4, <1>5, <1>6, <1>7 DEF Next
\* A replication that ended without error left a copy on a second node of the record,
\* also when attempts overlapped, and also for the record a restart will load.
THEOREM SecondCopyHolds == Spec => []SecondCopy
<1>1. TypeInv /\ CopiesInv => SecondCopy
  <2> SUFFICES ASSUME TypeInv, CopiesInv, NEW c \in Chunks,
                      job[c].phase = "ok", Confirmed(chunks[c])
               PROVE  \E t \in chunks[c].targets : c \in disk[t]
    BY DEF SecondCopy
  <2>1. Counted(c)
    BY DEF CopiesInv, CopiesAt
  <2>2. PICK t : t \in job[c].acked
    BY <2>1 DEF Counted
  <2> QED
    BY <2>1, <2>2 DEF Counted
<1> QED
  BY InitTypeInv, NextTypeInv, InitDurable, NextDurable, InitCopies, NextCopies, <1>1,
     PTL DEF Spec

\* Copies and pushes under way, also those that outlive the record of their chunk, are
\* on nodes that PrepareWrite chose for it.
THEOREM AssignedHolds == Spec => []CopiesWhereAssigned
<1>1. CopiesInv => CopiesWhereAssigned
  BY DEF CopiesInv, CopiesAt, Assigned, Pushed, CopiesWhereAssigned
<1> QED
  BY InitTypeInv, NextTypeInv, InitDurable, NextDurable, InitCopies, NextCopies, <1>1,
     PTL DEF Spec

\* What the client has put on every node of the record stays on all of them as long as
\* the record exists.
THEOREM ClientWritesHold == Spec => []ClientWritesAllCopies
<1>1. CopiesInv => ClientWritesAllCopies
  BY DEF CopiesInv, CopiesAt, ClientPuts, ClientWritesAllCopies
<1> QED
  BY InitTypeInv, NextTypeInv, InitDurable, NextDurable, InitCopies, NextCopies, <1>1,
     PTL DEF Spec

LEMMA StepStaysDeleted ==
    ASSUME TypeInv, DurableInv, CopiesInv, [Next]_vars, NEW c \in Chunks,
           writer[c].phase \in {"resave", "done"}, ~Confirmed(chunks[c])
    PROVE  ~Confirmed(chunks'[c])
<1>0. TypeOK /\ DurableAt(c) /\ CopiesAt(c)
  BY DEF TypeInv, DurableInv, CopiesInv
<1>1. CASE UNCHANGED vars
  BY <1>1 DEF vars
<1>2. ASSUME NEW n \in Nodes, NodeNext(n)
      PROVE  ~Confirmed(chunks'[c])
  BY <1>2 DEF NodeNext, StartNode, HeartbeatNode, CheckNodeStatus, DeleteNode, NodeCrash
<1>3. ASSUME NEW d \in Chunks, WriteNext(d)
      PROVE  ~Confirmed(chunks'[c])
  <2>1. CASE chunks' = chunks
    BY <2>1
  <2>2. CASE chunks' # chunks
    <3>1. writer[d].phase \in {"idle", "confirm"}
      BY <1>3, <2>2 DEF WriteNext, PrepareWrite, PutChunk, PutFails, ConfirmWrite,
          PublishVersion, ResaveChunk, WriterStops
    <3>2. c # d
      BY <3>1
    <3>3. chunks'[c] = chunks[c]
      BY <1>0, <1>3, <3>2 DEF TypeOK, WriteNext, PrepareWrite, PutChunk, PutFails,
          ConfirmWrite, PublishVersion, ResaveChunk, WriterStops
    <3> QED
      BY <3>3
  <2> QED
    BY <2>1, <2>2
<1>4. ASSUME NEW d \in Chunks, JobNext(d)
      PROVE  ~Confirmed(chunks'[c])
  <2>1. CASE MarkDegraded(d)
    <3>1. CASE c = d
      <4>1. chunks[c].status = "absent"
        BY <1>0, <2>1, <3>1 DEF MarkDegraded, DurableAt, JobOfConfirmed, Running
      <4>2. chunks'[c].status = "absent"
        BY <1>0, <2>1, <3>1, <4>1, StatusSet DEF MarkDegraded, TypeOK, ChunkStatus
      <4> QED
        BY <4>2 DEF Confirmed
    <3>2. CASE c # d
      BY <1>0, <2>1, <3>2 DEF MarkDegraded, TypeOK
    <3> QED
      BY <3>1, <3>2
  <2>2. CASE ~MarkDegraded(d)
    BY <1>4, <2>2 DEF JobNext, ReplicateChunk, HandleReplicate, PostFails,
        ReplicateAnswer, ReplicateTimeout
  <2> QED
    BY <2>1, <2>2
<1>5. ASSUME NEW d \in Chunks, NEW t \in Nodes, PushNext(d, t)
      PROVE  ~Confirmed(chunks'[c])
  BY <1>5 DEF PushNext, ReceivePush, PushFails
<1>6. ASSUME NEW d \in Chunks, DeleteChunk(d) \/ \E n \in Nodes : DeleteNext(d, n)
      PROVE  ~Confirmed(chunks'[c])
  <2>1. chunks'[c] = chunks[c] \/ chunks'[c] = Absent
    BY <1>0, <1>6 DEF DeleteChunk, DeleteNext, DeleteAtNode, DeleteAtNodeFails, TypeOK
  <2> QED
    BY <2>1 DEF Absent, Confirmed
<1>7. CASE ServerRestart
  BY <1>0, <1>7 DEF ServerRestart, CopiesAt, SavedIsKnown
<1> QED
  BY <1>1, <1>2, <1>3, <1>4, <1>5, <1>6, <1>7 DEF Next

\* A chunk deleted from a version never becomes confirmed again, by no late answer, no
\* late end of its replication and no restart.
THEOREM DeletedHolds == Spec => DeletedStaysDeleted
<1>1. TypeInv /\ DurableInv /\ CopiesInv /\ [Next]_vars =>
        [\A c \in Chunks :
           writer[c].phase \in {"resave", "done"} /\ ~Confirmed(chunks[c])
             => ~Confirmed(chunks'[c])]_vars
  BY StepStaysDeleted
<1> QED
  BY InitTypeInv, NextTypeInv, InitDurable, NextDurable, InitCopies, NextCopies, <1>1,
     PTL DEF Spec, DeletedStaysDeleted
-----------------------------------------------------------------------------
(* The records in memory and in the database, and the refinement of        *)
(* ChunkPromise.  What a step does to the record, the writer and the       *)
(* copies of a chunk is one of five things.                                *)

\* How far the writer of a chunk is, and what the records then are.
RecordAt(c) ==
    /\ db[c] # chunks[c] =>
         db[c] = Blank /\ writer[c].kind = "server" /\ writer[c].phase = "done"
    /\ writer[c].phase = "idle" => writer[c] = NoWriter /\ chunks[c] = Absent
    /\ writer[c].phase # "idle" => writer[c].addrs # {}
    /\ writer[c].phase \in {"put", "confirm"} => chunks[c].status = "pending"
    /\ chunks[c].status = "pending" => writer[c].phase \in {"put", "confirm", "failed"}
    /\ writer[c].phase = "resave" => writer[c].kind = "server"

RecordsInv == \A c \in Chunks : RecordAt(c)

CopiesOf(c) == {n \in Nodes : c \in disk[n]}

WriterSame(c) ==
    writer'[c].addrs = writer[c].addrs /\ writer'[c].kind = writer[c].kind

Untouched(c) ==
    /\ chunks'[c] = chunks[c] /\ db'[c] = db[c] /\ writer'[c] = writer[c]
    /\ CopiesOf(c)' = CopiesOf(c)

OnlyTouched(c) == \A d \in Chunks \ {c} : Untouched(d)

Prepared(c) ==
    /\ writer[c].phase = "idle" /\ writer'[c].phase = "put"
    /\ writer'[c].addrs # {} /\ writer'[c].addrs \subseteq Nodes
    /\ chunks'[c].status = "pending" /\ db'[c] = chunks'[c]
    /\ CopiesOf(c)' = CopiesOf(c)

\* The writer goes on or gives up, or a push arrives; a copy may be made.
Moved(c) ==
    /\ chunks'[c] = chunks[c] /\ db'[c] = db[c] /\ WriterSame(c)
    /\ \/ writer'[c] = writer[c]
       \/ writer[c].phase = "put" /\ writer'[c].phase \in {"put", "confirm", "failed"}
       \/ writer[c].phase \in {"confirm", "publish"} /\ writer'[c].phase = "failed"
       \/ writer[c].phase = "publish" /\ writer'[c].phase = "done"
       \/ /\ writer[c].phase = "publish" /\ writer'[c].phase = "resave"
          /\ writer[c].kind = "server"
    /\ \/ CopiesOf(c)' = CopiesOf(c)
       \/ \E n \in writer[c].addrs \cap Nodes : CopiesOf(c)' = CopiesOf(c) \cup {n}

\* ConfirmWrite and MarkDegraded.
Recorded(c) ==
    /\ WriterSame(c)
    /\ \/ writer[c].phase = "confirm" /\ writer'[c].phase \in {"publish", "failed"}
       \/ writer'[c] = writer[c] /\ Confirmed(chunks[c])
    /\ chunks'[c].status \in {"success", "degraded"}
    /\ chunks'[c].source = chunks[c].source
    /\ db'[c] = chunks'[c]
    /\ CopiesOf(c)' = CopiesOf(c)

\* DeleteChunk and DELETEs at nodes.
Removed(c) ==
    /\ writer'[c] = writer[c] /\ writer[c].phase # "idle"
    /\ \/ /\ writer[c].phase \in {"resave", "done"}
          /\ chunks'[c] = Absent /\ db'[c] = Absent
          /\ CopiesOf(c)' = CopiesOf(c)
       \/ /\ chunks'[c] = chunks[c] /\ db'[c] = db[c]
          /\ CopiesOf(c)' = CopiesOf(c)
       \/ /\ chunks[c] = Absent /\ chunks'[c] = Absent /\ db'[c] = db[c]
          /\ \E n \in Nodes : CopiesOf(c)' = CopiesOf(c) \ {n}

\* uploadFile's last record.
Resaved(c) ==
    /\ writer[c].phase = "resave" /\ writer'[c].phase = "done" /\ WriterSame(c)
    /\ chunks'[c] = chunks[c] /\ db'[c] = Blank
    /\ CopiesOf(c)' = CopiesOf(c)

StepOf(c) ==
    /\ OnlyTouched(c)
    /\ Prepared(c) \/ Moved(c) \/ Recorded(c) \/ Removed(c) \/ Resaved(c)

Restarted(c) ==
    /\ chunks'[c] = db[c] /\ db'[c] = db[c] /\ WriterSame(c)
    /\ \/ writer'[c] = writer[c]
       \/ /\ writer[c].kind = "server" /\ writer[c].phase \notin {"done", "failed"}
          /\ writer'[c].phase = "failed"
    /\ CopiesOf(c)' = CopiesOf(c)

\* The writers: PrepareWrite, the PUTs, ConfirmWrite, the version and the last save.
LEMMA WriteSteps ==
    ASSUME TypeInv, CopiesInv, NEW c \in Chunks, WriteNext(c)
    PROVE  StepOf(c)
<1>0. /\ TypeOK /\ CopiesAt(c) /\ writer \in [Chunks -> Writer] /\ writer[c] \in Writer
      /\ chunks \in [Chunks -> ChunkInfo]
  BY DEF TypeInv, TypeOK, CopiesInv
<1> USE DEF OnlyTouched, Untouched, CopiesOf
<1>1. ASSUME NEW kind \in Writers, PrepareWrite(c, kind)
      PROVE  StepOf(c)
  <2> DEFINE Chosen(S, s) ==
         /\ chunks' = [chunks EXCEPT ![c] =
                [status |-> "pending", source |-> s, targets |-> S \ {s}]]
         /\ db' = [db EXCEPT ![c] = chunks'[c]]
         /\ writer' = [writer EXCEPT ![c] =
                [phase |-> "put", kind |-> kind, first |-> s, addrs |-> S,
                 todo |-> IF kind = "cli" THEN S ELSE {s}]]
  <2>0. PICK chosen \in SelectNodes : \E s \in chosen : Chosen(chosen, s)
    BY <1>1 DEF PrepareWrite
  <2>1. PICK s \in chosen : Chosen(chosen, s)
    BY <2>0
  <2>2. chosen \subseteq Nodes /\ disk' = disk
    BY <1>1 DEF SelectNodes, Online, PrepareWrite
  <2>3. Prepared(c)
    BY <1>0, <1>1, <2>1, <2>2 DEF Prepared, PrepareWrite, TypeOK
  <2>4. OnlyTouched(c)
    BY <1>0, <2>1, <2>2 DEF TypeOK
  <2> QED
    BY <2>3, <2>4 DEF StepOf
<1>2. ASSUME NEW n \in Nodes, PutChunk(c, n) \/ PutFails(c, n)
      PROVE  StepOf(c)
  <2>1. /\ UNCHANGED <<chunks, db>> /\ writer[c].phase = "put"
        /\ n \in writer[c].addrs
    BY <1>0, <1>2 DEF PutChunk, PutFails, NextPut, CopiesAt, Assigned
  <2>2. /\ WriterSame(c) /\ writer'[c].phase \in {"put", "confirm", "failed"}
        /\ \A d \in Chunks \ {c} : writer'[d] = writer[d]
    <3>1. CASE PutChunk(c, n)
      <4> DEFINE p == IF writer[c].todo = {n} THEN "confirm" ELSE "put"
                 t == writer[c].todo \ {n}
      <4>1. p \in {"put", "confirm"} /\ p \in WriterPhase /\ t \in SUBSET Nodes
        BY <1>0 DEF Writer, WriterPhase
      <4>2. writer' = [writer EXCEPT ![c] = [@ EXCEPT !.todo = t, !.phase = p]]
        BY <3>1 DEF PutChunk
      <4> HIDE DEF p, t
      <4> QED
        BY <1>0, <4>1, <4>2, WriterTodoSet DEF WriterSame
    <3>2. CASE PutFails(c, n)
      BY <1>0, <3>2, WriterPhaseSet DEF PutFails, WriterSame, WriterPhase
    <3> QED
      BY <1>2, <3>1, <3>2
  <2>3. /\ CopiesOf(c)' = CopiesOf(c) \/ CopiesOf(c)' = CopiesOf(c) \cup {n}
        /\ \A d \in Chunks \ {c} : CopiesOf(d)' = CopiesOf(d)
    BY <1>0, <1>2 DEF PutChunk, PutFails, TypeOK
  <2>4. Moved(c)
    BY <2>1, <2>2, <2>3 DEF Moved
  <2> QED
    BY <2>1, <2>2, <2>3, <2>4 DEF StepOf
<1>3. ASSUME ConfirmWrite(c)
      PROVE  StepOf(c)
  <2>1. PICK p \in {"publish", "failed"} : writer' = [writer EXCEPT ![c].phase = p]
    BY <1>3 DEF ConfirmWrite
  <2>2. /\ WriterSame(c) /\ writer'[c].phase = p
        /\ \A d \in Chunks \ {c} : writer'[d] = writer[d]
    BY <1>0, <2>1, WriterPhaseSet DEF WriterSame, WriterPhase
  <2>3. /\ chunks'[c].status = "success" /\ chunks'[c].source = chunks[c].source
        /\ \A d \in Chunks \ {c} : chunks'[d] = chunks[d]
    BY <1>0, <1>3, StatusSet DEF ConfirmWrite, ChunkStatus
  <2>4. /\ db'[c] = chunks'[c] /\ disk' = disk /\ writer[c].phase = "confirm"
        /\ \A d \in Chunks \ {c} : db'[d] = db[d]
    BY <1>0, <1>3 DEF ConfirmWrite, TypeOK
  <2>5. Recorded(c)
    BY <2>1, <2>2, <2>3, <2>4 DEF Recorded
  <2> QED
    BY <2>2, <2>3, <2>4, <2>5 DEF StepOf
<1>4. ASSUME PublishVersion(c) \/ WriterStops(c)
      PROVE  StepOf(c)
  <2>1. UNCHANGED <<chunks, db, disk>>
    BY <1>4 DEF PublishVersion, WriterStops
  <2>2. PICK p \in {"resave", "done", "failed"} :
          /\ writer' = [writer EXCEPT ![c].phase = p]
          /\ p = "resave" => writer[c].kind = "server" /\ writer[c].phase = "publish"
          /\ p = "done" => writer[c].phase = "publish"
          /\ p = "failed" => writer[c].phase \in {"put", "confirm", "publish"}
    <3>1. CASE PublishVersion(c)
      BY <3>1 DEF PublishVersion
    <3>2. CASE WriterStops(c)
      BY <3>2 DEF WriterStops
    <3> QED
      BY <1>4, <3>1, <3>2
  <2>3. /\ WriterSame(c) /\ writer'[c].phase = p
        /\ \A d \in Chunks \ {c} : writer'[d] = writer[d]
    BY <1>0, <2>2, WriterPhaseSet DEF WriterSame, WriterPhase
  <2>4. Moved(c)
    BY <2>1, <2>2, <2>3 DEF Moved
  <2> QED
    BY <2>1, <2>3, <2>4 DEF StepOf
<1>5. ASSUME ResaveChunk(c)
      PROVE  StepOf(c)
  <2>1. /\ writer' = [writer EXCEPT ![c].phase = "done"]
        /\ writer[c].phase = "resave" /\ UNCHANGED <<chunks, disk>>
        /\ db'[c] = Blank /\ \A d \in Chunks \ {c} : db'[d] = db[d]
    BY <1>0, <1>5 DEF ResaveChunk, TypeOK
  <2>2. /\ WriterSame(c) /\ writer'[c].phase = "done"
        /\ \A d \in Chunks \ {c} : writer'[d] = writer[d]
    BY <1>0, <2>1, WriterPhaseSet DEF WriterSame, WriterPhase
  <2> QED
    BY <2>1, <2>2 DEF StepOf, Resaved
<1> QED
  BY <1>1, <1>2, <1>3, <1>4, <1>5 DEF WriteNext

\* ReplicateChunk changes a record only to mark it degraded.
LEMMA JobSteps ==
    ASSUME TypeInv, DurableInv, NEW c \in Chunks, JobNext(c)
    PROVE  StepOf(c) \/ \A d \in Chunks : Untouched(d)
<1>0. TypeOK /\ DurableAt(c) /\ chunks \in [Chunks -> ChunkInfo]
  BY DEF TypeInv, TypeOK, DurableInv
<1> USE DEF OnlyTouched, Untouched, CopiesOf
<1>1. CASE MarkDegraded(c) /\ chunks[c].status # "absent"
  <2>1. /\ chunks' = [chunks EXCEPT ![c].status = "degraded"]
        /\ db' = [db EXCEPT ![c] = chunks'[c]]
        /\ UNCHANGED <<writer, disk>>
    BY <1>0, <1>1 DEF MarkDegraded, TypeOK
  <2>2. /\ chunks'[c].status = "degraded" /\ chunks'[c].source = chunks[c].source
        /\ \A d \in Chunks \ {c} : chunks'[d] = chunks[d]
    BY <1>0, <2>1, StatusSet DEF ChunkStatus
  <2>3. Confirmed(chunks[c])
    BY <1>0, <1>1 DEF MarkDegraded, DurableAt, JobOfConfirmed, Running
  <2>4. db'[c] = chunks'[c] /\ \A d \in Chunks \ {c} : db'[d] = db[d]
    BY <1>0, <2>1 DEF TypeOK
  <2>5. Recorded(c)
    BY <2>1, <2>2, <2>3, <2>4 DEF Recorded, WriterSame
  <2> QED
    BY <2>1, <2>2, <2>4, <2>5 DEF StepOf
<1>2. CASE MarkDegraded(c) /\ chunks[c].status = "absent"
  <2>1. chunks' = [chunks EXCEPT ![c].status = "absent"] /\ UNCHANGED <<db, writer, disk>>
    BY <1>0, <1>2 DEF MarkDegraded, TypeOK
  <2>2. chunks' = chunks
    BY <1>0, <1>2, <2>1 DEF ChunkInfo
  <2> QED
    BY <2>1, <2>2
<1>3. CASE ~MarkDegraded(c)
  BY <1>3 DEF JobNext, ReplicateChunk, HandleReplicate, PostFails, ReplicateAnswer,
      ReplicateTimeout
<1> QED
  BY <1>1, <1>2, <1>3

\* A push adds a copy at a node the chunk was given.
LEMMA PushSteps ==
    ASSUME TypeInv, CopiesInv, NEW c \in Chunks, NEW t \in Nodes, PushNext(c, t)
    PROVE  StepOf(c)
<1>0. TypeOK /\ CopiesAt(c) /\ UNCHANGED <<chunks, db, writer>>
  BY DEF TypeInv, CopiesInv, PushNext, ReceivePush, PushFails
<1>1. t \in writer[c].addrs
  <2>1. PICK k \in 0..MaxTries : <<c, t, k>> \in wire
    BY DEF PushNext, ReceivePush, PushFails
  <2> QED
    BY <1>0, <2>1 DEF CopiesAt, Pushed, Assigned
<1>2. /\ CopiesOf(c)' = CopiesOf(c) \/ CopiesOf(c)' = CopiesOf(c) \cup {t}
      /\ \A d \in Chunks \ {c} : CopiesOf(d)' = CopiesOf(d)
  BY <1>0 DEF CopiesOf, PushNext, ReceivePush, PushFails, TypeOK
<1>3. Moved(c)
  BY <1>0, <1>1, <1>2 DEF Moved, WriterSame
<1> QED
  BY <1>0, <1>2, <1>3 DEF StepOf, OnlyTouched, Untouched

\* DeleteChunk removes the record, and the DELETEs come after it.
LEMMA DeleteSteps ==
    ASSUME TypeInv, DurableInv, CopiesInv, NEW c \in Chunks,
           DeleteChunk(c) \/ \E n \in Nodes : DeleteNext(c, n)
    PROVE  StepOf(c)
<1>0. TypeOK /\ CopiesAt(c) /\ DurableAt(c) /\ writer' = writer
  BY DEF TypeInv, DurableInv, CopiesInv, DeleteChunk, DeleteNext, DeleteAtNode,
      DeleteAtNodeFails
<1> USE DEF OnlyTouched, Untouched, CopiesOf
<1>1. CASE DeleteChunk(c)
  <2>1. /\ chunks'[c] = Absent /\ db'[c] = Absent /\ disk' = disk
        /\ writer[c].phase \in {"resave", "done"}
        /\ \A d \in Chunks \ {c} : chunks'[d] = chunks[d] /\ db'[d] = db[d]
    BY <1>0, <1>1 DEF DeleteChunk, TypeOK
  <2> QED
    BY <1>0, <2>1 DEF StepOf, Removed
<1>2. ASSUME NEW n \in Nodes, DeleteNext(c, n)
      PROVE  StepOf(c)
  <2>1. UNCHANGED <<chunks, db>> /\ deleting[c] # {}
    BY <1>2 DEF DeleteNext, DeleteAtNode, DeleteAtNodeFails
  <2>2. chunks[c] = Absent /\ writer[c].phase # "idle"
    BY <1>0, <2>1 DEF CopiesAt, DeletedUnnamed, DurableAt, WriterOwns
  <2>3. /\ CopiesOf(c)' = CopiesOf(c) \/ CopiesOf(c)' = CopiesOf(c) \ {n}
        /\ \A d \in Chunks \ {c} : CopiesOf(d)' = CopiesOf(d)
    BY <1>0, <1>2 DEF DeleteNext, DeleteAtNode, DeleteAtNodeFails, TypeOK
  <2> QED
    BY <1>0, <2>1, <2>2, <2>3 DEF StepOf, Removed
<1> QED
  BY <1>1, <1>2

\* What a step of the system does to its chunks.
LEMMA ChunkSteps ==
    ASSUME TypeInv, DurableInv, CopiesInv, [Next]_vars
    PROVE  \/ \A d \in Chunks : Untouched(d)
           \/ \A d \in Chunks : Restarted(d)
           \/ \E c \in Chunks : StepOf(c)
<1>1. CASE UNCHANGED vars
  BY <1>1 DEF vars, Untouched, CopiesOf
<1>2. ASSUME NEW n \in Nodes, NodeNext(n)
      PROVE  \A d \in Chunks : Untouched(d)
  BY <1>2 DEF Untouched, CopiesOf, NodeNext, StartNode, HeartbeatNode, CheckNodeStatus,
      DeleteNode, NodeCrash
<1>3. ASSUME ServerRestart
      PROVE  \A d \in Chunks : Restarted(d)
  <2>1. writer \in [Chunks -> Writer] /\ UNCHANGED <<db, disk>> /\ chunks' = db
    BY <1>3 DEF TypeInv, TypeOK, ServerRestart
  <2>2. \A d \in Chunks :
          \/ writer'[d] = writer[d]
          \/ /\ writer[d].kind = "server" /\ writer[d].phase \notin {"done", "failed"}
             /\ writer'[d] = [writer[d] EXCEPT !.phase = "failed"]
    BY <1>3 DEF ServerRestart
  <2> QED
    BY <2>1, <2>2 DEF Restarted, WriterSame, CopiesOf, Writer
<1> QED
  BY <1>1, <1>2, <1>3, WriteSteps, JobSteps, PushSteps, DeleteSteps DEF Next

\* Nothing was written before the start.
LEMMA InitRecords == Init => RecordsInv
  BY DEF Init, RecordsInv, RecordAt, Absent, NoWriter

\* Each of the five effects, and a restart, leaves the records as RecordAt says.
LEMMA NextRecords == TypeInv /\ DurableInv /\ CopiesInv /\ RecordsInv /\ [Next]_vars => RecordsInv'
<1> SUFFICES ASSUME TypeInv, DurableInv, CopiesInv, RecordsInv, [Next]_vars
             PROVE  RecordsInv'
  OBVIOUS
<1>0. \A c \in Chunks : RecordAt(c)
  BY DEF RecordsInv
<1>1. ASSUME NEW c \in Chunks, Untouched(c)
      PROVE  RecordAt(c)'
  BY <1>0, <1>1 DEF Untouched, RecordAt
<1>2. ASSUME NEW c \in Chunks, StepOf(c)
      PROVE  RecordAt(c)'
  <2>1. RecordAt(c)
    BY <1>0
  <2>2. CASE Prepared(c)
    BY <2>2 DEF Prepared, RecordAt
  <2>3. CASE Moved(c)
    BY <2>1, <2>3 DEF Moved, WriterSame, RecordAt
  <2>4. CASE Recorded(c)
    <3>1. /\ db'[c] = chunks'[c] /\ chunks'[c].status \in {"success", "degraded"}
          /\ writer'[c].kind = writer[c].kind /\ writer'[c].addrs = writer[c].addrs
      BY <2>4 DEF Recorded, WriterSame
    <3>2. CASE writer'[c] = writer[c] /\ Confirmed(chunks[c])
      BY <2>1, <3>1, <3>2 DEF RecordAt, Confirmed, Absent
    <3>3. CASE writer[c].phase = "confirm" /\ writer'[c].phase \in {"publish", "failed"}
      BY <2>1, <3>1, <3>3 DEF RecordAt
    <3> QED
      BY <2>4, <3>2, <3>3 DEF Recorded
  <2>5. CASE Removed(c)
    BY <2>1, <2>5 DEF Removed, RecordAt, Absent
  <2>6. CASE Resaved(c)
    BY <2>1, <2>6 DEF Resaved, WriterSame, RecordAt
  <2> QED
    BY <1>2, <2>2, <2>3, <2>4, <2>5, <2>6 DEF StepOf
<1>3. ASSUME NEW c \in Chunks, Restarted(c)
      PROVE  RecordAt(c)'
  BY <1>0, <1>3 DEF Restarted, WriterSame, RecordAt, Blank, NoWriter
<1> QED
  BY <1>1, <1>2, <1>3, ChunkSteps DEF RecordsInv, StepOf, OnlyTouched

-----------------------------------------------------------------------------

(* The refinement of ChunkPromise, step by step.                           *)

HomeOf(c) == IF Confirmed(chunks[c]) THEN chunks[c].source ELSE NoNode

\* The initial states map to the initial state of ChunkPromise.
LEMMA PromiseInit == Init => Promise!Init
  BY DEF Init, Promise!Init, Promised, Confirmed, Absent, NoWriter

\* Every step maps to a step of ChunkPromise or leaves its variables alone.
LEMMA PromiseNext ==
    TypeInv /\ DurableInv /\ CopiesInv /\ RecordsInv /\ [Next]_vars
      => [Promise!Next]_(Promise!pvars)
<1> SUFFICES ASSUME TypeInv, DurableInv, CopiesInv, RecordsInv, [Next]_vars
             PROVE  [Promise!Next]_(Promise!pvars)
  OBVIOUS
<1> DEFINE promise == [c \in Chunks |-> Promised(c)]
           home == [c \in Chunks |-> HomeOf(c)]
           place == [c \in Chunks |-> writer[c].addrs]
           copies == [c \in Chunks |-> CopiesOf(c)]
           Same(c) == /\ Promised(c)' = Promised(c) /\ HomeOf(c)' = HomeOf(c)
                      /\ writer'[c].addrs = writer[c].addrs
                      /\ CopiesOf(c)' = CopiesOf(c)
<1>1. ASSUME \A c \in Chunks : Same(c)
      PROVE  UNCHANGED Promise!pvars
  BY <1>1 DEF Promise!pvars, HomeOf, CopiesOf
<1>2. ASSUME NEW c \in Chunks, Untouched(c)
      PROVE  Same(c)
  BY <1>2 DEF Untouched, Promised, HomeOf
<1>3. ASSUME NEW c \in Chunks, StepOf(c)
      PROVE  Promise!Next \/ UNCHANGED Promise!pvars
  <2>1. \A d \in Chunks \ {c} : Same(d)
    BY <1>2, <1>3 DEF StepOf, OnlyTouched
  <2>2. RecordAt(c) /\ TypeOK /\ DurableAt(c)
    BY DEF RecordsInv, TypeInv, DurableInv
  <2>3. CASE Same(c)
    BY <1>1, <2>1, <2>3
  <2>4. CASE Prepared(c)
    <3>1. /\ Promised(c) = "none" /\ Promised(c)' = "none"
          /\ HomeOf(c) = NoNode /\ HomeOf(c)' = NoNode
          /\ writer[c].addrs = {} /\ CopiesOf(c)' = CopiesOf(c)
      BY <2>2, <2>4 DEF Prepared, RecordAt, Promised, HomeOf, Confirmed, Absent, NoWriter
    <3>2. place' = [place EXCEPT ![c] = writer'[c].addrs] /\ place[c] = {}
      BY <2>1, <3>1
    <3>3. promise' = promise /\ home' = home /\ copies' = copies
      BY <2>1, <3>1
    <3>4. writer'[c].addrs # {} /\ writer'[c].addrs \in SUBSET Nodes
      BY <2>4 DEF Prepared
    <3> QED
      BY <3>2, <3>3, <3>4 DEF Promise!Next, Promise!Place, HomeOf, CopiesOf
  <2>5. ASSUME NEW n \in writer[c].addrs \cap Nodes, Moved(c),
               CopiesOf(c)' = CopiesOf(c) \cup {n}
        PROVE  Promise!Copy(c, n)
    <3>1. /\ Promised(c)' = Promised(c) /\ HomeOf(c)' = HomeOf(c)
          /\ writer'[c].addrs = writer[c].addrs
      BY <2>5 DEF Moved, WriterSame, Promised, HomeOf
    <3>2. copies' = [copies EXCEPT ![c] = @ \cup {n}] /\ n \in place[c]
      BY <2>1, <2>5
    <3>3. promise' = promise /\ home' = home /\ place' = place
      BY <2>1, <3>1
    <3> QED
      BY <3>2, <3>3 DEF Promise!Copy, HomeOf, CopiesOf
  <2>6. CASE Moved(c)
    <3>1. CopiesOf(c)' = CopiesOf(c) => Same(c)
      BY <2>6 DEF Moved, WriterSame, Promised, HomeOf
    <3> QED
      BY <2>3, <2>5, <2>6, <3>1 DEF Moved, Promise!Next
  <2>7. CASE Recorded(c)
    <3>1. CASE Confirmed(chunks[c])
      <4>1. Same(c)
        BY <2>7, <3>1 DEF Recorded, WriterSame, Promised, HomeOf, Confirmed
      <4> QED
        BY <2>3, <4>1
    <3>2. CASE ~Confirmed(chunks[c])
      <4>1. /\ writer[c].phase = "confirm" /\ writer'[c].addrs = writer[c].addrs
            /\ CopiesOf(c)' = CopiesOf(c)
        BY <2>7, <3>2 DEF Recorded, WriterSame
      <4>2. Promised(c) = "none" /\ Promised(c)' = "made" /\ HomeOf(c)' = chunks[c].source
        BY <2>2, <2>7, <3>2, <4>1 DEF Recorded, RecordAt, Promised, HomeOf, Confirmed
      <4>3. chunks[c].source \in Nodes /\ chunks[c].source \in CopiesOf(c)
        BY <2>2, <4>1 DEF DurableAt, WriterOwns, FirstPutDone, CopiesOf
      <4>4. /\ promise' = [promise EXCEPT ![c] = "made"] /\ promise[c] = "none"
            /\ home' = [home EXCEPT ![c] = chunks[c].source]
            /\ place' = place /\ copies' = copies /\ chunks[c].source \in copies[c]
        BY <2>1, <4>1, <4>2, <4>3
      <4> QED
        BY <4>3, <4>4 DEF Promise!Next, Promise!Make, HomeOf, CopiesOf
    <3> QED
      BY <3>1, <3>2
  <2>8. CASE Removed(c)
    <3>0. writer'[c].addrs = writer[c].addrs /\ writer[c].addrs # {}
      BY <2>2, <2>8 DEF Removed, RecordAt
    <3>1. CASE chunks'[c] = Absent /\ CopiesOf(c)' = CopiesOf(c) /\ Confirmed(chunks[c])
      <4>1. Promised(c) = "made" /\ Promised(c)' = "over" /\ HomeOf(c)' = NoNode
        BY <3>0, <3>1 DEF Promised, HomeOf, Confirmed, Absent
      <4>2. /\ promise' = [d \in Chunks |-> IF d \in {c} THEN "over" ELSE promise[d]]
            /\ home' = [d \in Chunks |-> IF d \in {c} THEN NoNode ELSE home[d]]
            /\ place' = place /\ copies' = copies /\ promise[c] = "made"
        BY <2>1, <3>0, <3>1, <4>1
      <4>3. {c} \in SUBSET Chunks
        OBVIOUS
      <4>4. Promise!Withdraw({c})
        BY <4>2 DEF Promise!Withdraw, HomeOf, CopiesOf
      <4> QED
        BY <4>3, <4>4 DEF Promise!Next
    <3>2. ASSUME NEW n \in Nodes, chunks[c] = Absent, chunks'[c] = Absent,
                 CopiesOf(c)' = CopiesOf(c) \ {n}
          PROVE  Promise!Erase(c, n)
      <4>1. /\ Promised(c) = "over" /\ Promised(c)' = "over"
            /\ HomeOf(c)' = HomeOf(c)
        BY <3>0, <3>2 DEF Promised, HomeOf, Confirmed, Absent
      <4>2. /\ copies' = [copies EXCEPT ![c] = @ \ {n}] /\ promise[c] = "over"
            /\ promise' = promise /\ home' = home /\ place' = place
        BY <2>1, <3>0, <3>2, <4>1
      <4> QED
        BY <4>2 DEF Promise!Erase, HomeOf, CopiesOf
    <3>3. CASE chunks'[c] = chunks[c] /\ CopiesOf(c)' = CopiesOf(c)
      BY <2>3, <3>0, <3>3 DEF Promised, HomeOf
    <3>4. CASE /\ chunks'[c] = Absent /\ CopiesOf(c)' = CopiesOf(c)
               /\ ~Confirmed(chunks[c]) /\ writer[c].phase \in {"resave", "done"}
      <4>1. chunks[c].status # "pending"
        BY <2>2, <3>4 DEF RecordAt
      <4>2. Same(c)
        BY <3>0, <3>4, <4>1 DEF Promised, HomeOf, Confirmed, Absent
      <4> QED
        BY <2>3, <4>2
    <3> QED
      BY <2>8, <3>1, <3>2, <3>3, <3>4 DEF Removed, Promise!Next
  <2>9. CASE Resaved(c)
    <3>1. Same(c)
      BY <2>9 DEF Resaved, WriterSame, Promised, HomeOf
    <3> QED
      BY <2>3, <3>1
  <2> QED
    BY <1>3, <2>4, <2>6, <2>7, <2>8, <2>9 DEF StepOf
<1>4. ASSUME \A c \in Chunks : Restarted(c)
      PROVE  Promise!Next
  <2>0. PICK S \in SUBSET Chunks : S = {c \in Chunks : Confirmed(chunks[c]) /\ ~Confirmed(db[c])}
    OBVIOUS
  <2>1. ASSUME NEW c \in Chunks
        PROVE  /\ RecordAt(c) /\ chunks'[c] = db[c] /\ writer'[c].addrs = writer[c].addrs
               /\ CopiesOf(c)' = CopiesOf(c)
    BY <1>4 DEF Restarted, WriterSame, RecordsInv
  <2>2. ASSUME NEW c \in S
        PROVE  Promised(c) = "made" /\ Promised(c)' = "over" /\ HomeOf(c)' = NoNode
    <3>1. db[c] # chunks[c] /\ Confirmed(chunks[c])
      BY <2>0, <2>2
    <3> QED
      BY <2>1, <2>2, <3>1 DEF RecordAt, Promised, HomeOf, Confirmed, Blank
  <2>3. ASSUME NEW c \in Chunks \ S
        PROVE  Promised(c)' = Promised(c) /\ HomeOf(c)' = HomeOf(c)
    <3>1. CASE db[c] = chunks[c]
      BY <2>1, <3>1 DEF Promised, HomeOf
    <3>2. CASE db[c] # chunks[c]
      <4>1. db[c] = Blank /\ writer[c].addrs # {} /\ chunks[c].status # "pending"
        BY <2>1, <3>2 DEF RecordAt
      <4>2. ~Confirmed(db[c]) /\ ~Confirmed(chunks[c])
        BY <2>0, <2>3, <4>1 DEF Blank, Confirmed
      <4> QED
        BY <2>1, <4>1, <4>2 DEF Promised, HomeOf, Blank
    <3> QED
      BY <3>1, <3>2
  <2>4. /\ promise' = [c \in Chunks |-> IF c \in S THEN "over" ELSE promise[c]]
        /\ home' = [c \in Chunks |-> IF c \in S THEN NoNode ELSE home[c]]
        /\ place' = place /\ copies' = copies /\ \A c \in S : promise[c] = "made"
    BY <2>1, <2>2, <2>3
  <2>5. Promise!Withdraw(S)
    BY <2>4 DEF Promise!Withdraw, HomeOf, CopiesOf
  <2> QED
    BY <2>5 DEF Promise!Next
<1> QED
  BY <1>1, <1>2, <1>3, <1>4, ChunkSteps

\* The saved record of a chunk is the one in memory, or the empty one of uploadFile: no
\* step changes one of them without the other.
THEOREM RecordsHold == Spec => []RestartKeepsRecords
<1>1. RecordsInv => RestartKeepsRecords
  BY DEF RecordsInv, RecordAt, RestartKeepsRecords
<1> QED
  BY InitTypeInv, NextTypeInv, InitDurable, NextDurable, InitCopies, NextCopies,
     InitRecords, NextRecords, <1>1, PTL DEF Spec

\* The whole write protocol, with its writers, its goroutine, its pushes and all faults,
\* keeps the promise of ChunkPromise for every chunk.
THEOREM StoreImplementsPromise == Spec => ImplementsChunkPromise
  BY InitTypeInv, NextTypeInv, InitDurable, NextDurable, InitCopies, NextCopies,
     InitRecords, NextRecords, PromiseInit, PromiseNext, PTL
     DEF Spec, ImplementsChunkPromise, Promise!Spec

\* What ChunkPromise is worth: its steps alone keep a promised chunk on its home.
LEMMA PromiseKeeps == ImplementsChunkPromise => []Promise!Kept
<1> DEFINE promise == [c \in Chunks |-> Promised(c)]
           home == [c \in Chunks |-> IF Confirmed(chunks[c]) THEN chunks[c].source ELSE NoNode]
           place == [c \in Chunks |-> writer[c].addrs]
           copies == [c \in Chunks |-> {n \in Nodes : c \in disk[n]}]
           Inv == \A c \in Chunks : /\ promise[c] = "made" => home[c] \in copies[c]
                                    /\ copies[c] \subseteq place[c]
<1> HIDE DEF Inv
<1>1. Promise!Init => Inv
  BY DEF Promise!Init, Inv
<1>2. Inv /\ UNCHANGED Promise!pvars => Inv'
  BY DEF Promise!pvars, Inv
<1>3. Inv /\ Promise!Next => Inv'
  <2> SUFFICES ASSUME Inv, Promise!Next PROVE Inv'
    OBVIOUS
  <2>1. ASSUME NEW c \in Chunks, NEW chosen \in SUBSET Nodes, Promise!Place(c, chosen)
        PROVE  Inv'
    BY <2>1 DEF Promise!Place, Inv
  <2>2. ASSUME NEW c \in Chunks, NEW n \in Nodes, Promise!Copy(c, n)
        PROVE  Inv'
    <3>1. /\ n \in place[c] /\ copies' = [copies EXCEPT ![c] = @ \cup {n}]
          /\ promise' = promise /\ home' = home /\ place' = place
      BY <2>2 DEF Promise!Copy
    <3>2. c \in DOMAIN copies
      OBVIOUS
    <3> HIDE DEF promise, home, place, copies
    <3> QED
      BY <3>1, <3>2 DEF Inv
  <2>3. ASSUME NEW c \in Chunks, NEW n \in Nodes, Promise!Make(c, n)
        PROVE  Inv'
    BY <2>3 DEF Promise!Make, Inv
  <2>4. ASSUME NEW c \in Chunks, NEW n \in Nodes, Promise!Erase(c, n)
        PROVE  Inv'
    <3>1. /\ promise[c] = "over" /\ copies' = [copies EXCEPT ![c] = @ \ {n}]
          /\ promise' = promise /\ home' = home /\ place' = place
      BY <2>4 DEF Promise!Erase
    <3>2. c \in DOMAIN copies
      OBVIOUS
    <3> HIDE DEF promise, home, place, copies
    <3> QED
      BY <3>1, <3>2 DEF Inv
  <2>5. ASSUME NEW S \in SUBSET Chunks, Promise!Withdraw(S)
        PROVE  Inv'
    BY <2>5 DEF Promise!Withdraw, Inv
  <2> QED
    BY <2>1, <2>2, <2>3, <2>4, <2>5 DEF Promise!Next
<1>4. Inv => Promise!Kept
  BY DEF Promise!Kept, Inv
<1> QED
  BY <1>1, <1>2, <1>3, <1>4, PTL DEF ImplementsChunkPromise, Promise!Spec

\* A chunk the server promises is on its first node, and all copies of it are on nodes
\* it was given: nothing else about the store is needed to know that.
THEOREM PromiseKept == Spec => []Promise!Kept
  BY StoreImplementsPromise, PromiseKeeps, PTL
=============================================================================
