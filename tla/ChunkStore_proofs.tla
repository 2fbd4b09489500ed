---------------------------- MODULE ChunkStore_proofs ----------------------------
(***************************************************************************)
(* Proofs about ChunkStore for every set of nodes and chunks, every number *)
(* of replicas and tries, and every combination of faults.                 *)
(***************************************************************************)
EXTENDS ChunkStore, TLAPS

\* The retry counter stays below the bound of the loop while the loop runs, and
\* nothing has counted before the goroutine starts.
TriesBounded ==
    \A c \in Chunks :
      /\ job[c].phase \in {"none", "start"} => job[c].tries = 0
      /\ job[c].phase \in {"post", "wait"} => job[c].tries < MaxTries

\* A goroutine exists only after ConfirmWrite, so ConfirmWrite finds none.
NoJobYet ==
    \A c \in Chunks :
      writer[c].phase \in {"idle", "put", "confirm"} => job[c] = NoJob

TypeInv == TypeOK /\ TriesBounded /\ NoJobYet

LEMMA NextTryType ==
    ASSUME NEW j \in Job, j.tries < MaxTries
    PROVE  /\ NextTry(j) \in Job
           /\ NextTry(j).phase \in {"post", "failing"}
           /\ NextTry(j).phase = "post" => NextTry(j).tries < MaxTries
<1> DEFINE p == IF j.tries + 1 < MaxTries THEN "post" ELSE "failing"
<1>1. j.tries + 1 \in 0..MaxTries /\ p \in JobPhase
  BY MaxTriesAssumption DEF Job, JobPhase
<1> HIDE DEF p
<1>2. [j EXCEPT !.tries = @ + 1, !.acked = {}, !.phase = p] \in Job
  BY <1>1 DEF Job
<1>3. /\ [j EXCEPT !.tries = @ + 1, !.acked = {}, !.phase = p].tries = j.tries + 1
      /\ [j EXCEPT !.tries = @ + 1, !.acked = {}, !.phase = p].phase = p
  BY <1>1 DEF Job
<1> QED
  BY <1>1, <1>2, <1>3 DEF NextTry, p

\* What an assignment to a writer's phase changes and keeps.
LEMMA WriterPhaseSet ==
    ASSUME writer \in [Chunks -> Writer], NEW c \in Chunks, NEW p \in WriterPhase,
           writer' = [writer EXCEPT ![c].phase = p]
    PROVE  /\ writer' \in [Chunks -> Writer]
           /\ writer'[c].phase = p
           /\ writer'[c].kind = writer[c].kind
           /\ writer'[c].first = writer[c].first
           /\ writer'[c].addrs = writer[c].addrs
           /\ writer'[c].todo = writer[c].todo
           /\ \A d \in Chunks \ {c} : writer'[d] = writer[d]
  BY DEF Writer

\* The same for a PUT that also removes a node from the list.
LEMMA WriterTodoSet ==
    ASSUME writer \in [Chunks -> Writer], NEW c \in Chunks, NEW p \in WriterPhase,
           NEW t \in SUBSET Nodes,
           writer' = [writer EXCEPT ![c] = [@ EXCEPT !.todo = t, !.phase = p]]
    PROVE  /\ writer' \in [Chunks -> Writer]
           /\ writer'[c].phase = p
           /\ writer'[c].kind = writer[c].kind
           /\ writer'[c].first = writer[c].first
           /\ writer'[c].addrs = writer[c].addrs
           /\ writer'[c].todo = t
           /\ \A d \in Chunks \ {c} : writer'[d] = writer[d]
  BY DEF Writer

\* A job that ConfirmWrite starts.
LEMMA JobStart ==
    ASSUME NEW s \in Nodes \cup {NoNode}, NEW t \in SUBSET Nodes
    PROVE  [phase |-> "start", tries |-> 0, source |-> s, to |-> t, acked |-> {}] \in Job
  BY MaxTriesAssumption DEF NoJob, Job, JobPhase

\* What an assignment to a job changes.
LEMMA JobSet ==
    ASSUME job \in [Chunks -> Job], NEW c \in Chunks, NEW j \in Job,
           job' = [job EXCEPT ![c] = j]
    PROVE  /\ job' \in [Chunks -> Job]
           /\ job'[c] = j
           /\ \A d \in Chunks \ {c} : job'[d] = job[d]
  OBVIOUS

LEMMA JobFields ==
    ASSUME NEW j \in Job, NEW p \in JobPhase, NEW t \in SUBSET Nodes
    PROVE  /\ [j EXCEPT !.phase = p] \in Job
           /\ [j EXCEPT !.phase = p].phase = p
           /\ [j EXCEPT !.phase = p].tries = j.tries
           /\ [j EXCEPT !.acked = t] \in Job
           /\ [j EXCEPT !.acked = t].phase = j.phase
           /\ [j EXCEPT !.acked = t].tries = j.tries
  BY DEF Job

\* What an assignment to the status of a chunk record changes and keeps.
LEMMA StatusSet ==
    ASSUME chunks \in [Chunks -> ChunkInfo], NEW c \in Chunks, NEW st \in ChunkStatus,
           chunks' = [chunks EXCEPT ![c].status = st]
    PROVE  /\ chunks' \in [Chunks -> ChunkInfo]
           /\ chunks'[c].status = st
           /\ chunks'[c].source = chunks[c].source
           /\ chunks'[c].targets = chunks[c].targets
           /\ \A d \in Chunks \ {c} : chunks'[d] = chunks[d]
  BY DEF ChunkInfo

LEMMA InitTypeInv == Init => TypeInv
<1>1. Absent \in ChunkInfo /\ NoWriter \in Writer
  BY DEF Absent, ChunkInfo, ChunkStatus, NoWriter, Writer, WriterPhase
<1>2. NoJob \in Job /\ NoJob.tries = 0 /\ NoJob.phase = "none"
  BY MaxTriesAssumption DEF NoJob, Job, JobPhase
<1> QED
  BY <1>1, <1>2 DEF Init, TypeInv, TypeOK, TriesBounded, NoJobYet

LEMMA NodeTypeInv ==
    ASSUME TypeInv, NEW n \in Nodes, NodeNext(n)
    PROVE  TypeInv'
<1>1. CASE StartNode(n)
  BY <1>1 DEF TypeInv, TypeOK, TriesBounded, NoJobYet, StartNode
<1>2. CASE HeartbeatNode(n)
  BY <1>2 DEF TypeInv, TypeOK, TriesBounded, NoJobYet, HeartbeatNode
<1>3. CASE CheckNodeStatus(n)
  BY <1>3 DEF TypeInv, TypeOK, TriesBounded, NoJobYet, CheckNodeStatus
<1>4. CASE DeleteNode(n)
  BY <1>4 DEF TypeInv, TypeOK, TriesBounded, NoJobYet, DeleteNode
<1>5. CASE NodeCrash(n)
  <2>1. \A c \in Chunks : job'[c] = job[c] \/ 
           (job[c].phase = "wait" /\ job'[c] = NextTry(job[c]))
    BY <1>5 DEF NodeCrash
  <2>2. \A c \in Chunks : job[c].phase = "wait" => job[c].tries < MaxTries /\ job[c] \in Job
    BY DEF TypeInv, TypeOK, TriesBounded
  <2>3. job' \in [Chunks -> Job]
    BY <1>5, <2>1, <2>2, NextTryType DEF NodeCrash, TypeInv, TypeOK
  <2>4. TriesBounded'
    BY <2>1, <2>2, NextTryType DEF TypeInv, TriesBounded
  <2>5. NoJobYet'
    <3>1. NoJob.phase # "wait" /\ writer' = writer
      BY <1>5 DEF NoJob, NodeCrash
    <3> QED
      BY <2>1, <3>1 DEF TypeInv, NoJobYet
  <2>6. up' \in SUBSET Nodes /\ UNCHANGED <<nodes, chunks, db, deleting, writer, disk, wire>>
    BY <1>5 DEF TypeInv, TypeOK, NodeCrash
  <2> QED
    BY <2>3, <2>4, <2>5, <2>6 DEF TypeInv, TypeOK
<1> QED
  BY <1>1, <1>2, <1>3, <1>4, <1>5 DEF NodeNext

LEMMA WriteTypeInv ==
    ASSUME TypeInv, NEW c \in Chunks, WriteNext(c)
    PROVE  TypeInv'
<1> USE DEF TypeInv
<1>1. ASSUME NEW kind \in Writers, PrepareWrite(c, kind)
      PROVE  TypeInv'
  <2> DEFINE Chosen(S, s) ==
         /\ chunks' = [chunks EXCEPT ![c] =
                [status |-> "pending", source |-> s, targets |-> S \ {s}]]
         /\ db' = [db EXCEPT ![c] = chunks'[c]]
         /\ writer' = [writer EXCEPT ![c] =
                [phase |-> "put", kind |-> kind, first |-> s, addrs |-> S,
                 todo |-> IF kind = "cli" THEN S ELSE {s}]]
  <2>0. PICK chosen \in SelectNodes : \E s \in chosen : Chosen(chosen, s)
    BY <1>1 DEF PrepareWrite
  <2>1. PICK s \in chosen : Chosen(chosen, s)
    BY <2>0
  <2>2. chosen \subseteq Nodes
    BY <2>1 DEF SelectNodes, Online
  <2>3. [status |-> "pending", source |-> s, targets |-> chosen \ {s}] \in ChunkInfo
    BY <2>2 DEF ChunkInfo, ChunkStatus
  <2>4. [phase |-> "put", kind |-> kind, first |-> s, addrs |-> chosen,
                 todo |-> IF kind = "cli" THEN chosen ELSE {s}] \in Writer
    BY <2>2 DEF Writer, WriterPhase
  <2> QED
    BY <1>1, <2>1, <2>3, <2>4 DEF PrepareWrite, TypeOK, TriesBounded, NoJobYet
<1>2. ASSUME NEW n \in Nodes, PutChunk(c, n)
      PROVE  TypeInv'
  <2> DEFINE p == IF writer[c].todo = {n} THEN "confirm" ELSE "put"
  <2>1. p \in WriterPhase /\ writer[c].todo \ {n} \in SUBSET Nodes
    BY DEF WriterPhase, TypeOK, Writer
  <2>2. writer' = [writer EXCEPT ![c] = [@ EXCEPT !.todo = writer[c].todo \ {n}, !.phase = p]]
    BY <1>2 DEF PutChunk
  <2> HIDE DEF p
  <2>3. writer' \in [Chunks -> Writer] /\ \A d \in Chunks \ {c} : writer'[d] = writer[d]
    BY <2>1, <2>2, WriterTodoSet DEF TypeOK
  <2>4. NoJobYet'
    BY <1>2, <2>3 DEF PutChunk, NoJobYet
  <2> QED
    BY <1>2, <2>3, <2>4 DEF PutChunk, TypeOK, TriesBounded
<1>3. ASSUME NEW n \in Nodes, PutFails(c, n)
      PROVE  TypeInv'
  <2>1. /\ writer' \in [Chunks -> Writer] /\ writer'[c].phase = "failed"
        /\ \A d \in Chunks \ {c} : writer'[d] = writer[d]
    BY <1>3, WriterPhaseSet DEF PutFails, TypeOK, WriterPhase
  <2>2. NoJobYet'
    BY <1>3, <2>1 DEF PutFails, NoJobYet
  <2>3. disk' \in [Nodes -> SUBSET Chunks]
    BY <1>3 DEF PutFails, TypeOK
  <2> QED
    BY <1>3, <2>1, <2>2, <2>3 DEF PutFails, TypeOK, TriesBounded
<1>4. CASE ConfirmWrite(c)
  <2>1. PICK p \in {"publish", "failed"} : writer' = [writer EXCEPT ![c].phase = p]
    BY <1>4 DEF ConfirmWrite
  <2>2. /\ writer' \in [Chunks -> Writer] /\ writer'[c].phase = p
        /\ \A d \in Chunks \ {c} : writer'[d] = writer[d]
    BY <2>1, WriterPhaseSet DEF TypeOK, WriterPhase
  <2>3. chunks' \in [Chunks -> ChunkInfo]
    BY <1>4 DEF ConfirmWrite, TypeOK, ChunkInfo, ChunkStatus
  <2>4. db' \in [Chunks -> ChunkInfo]
    BY <1>4, <2>3 DEF ConfirmWrite, TypeOK
  <2>5. PICK j \in Job : /\ job' = [job EXCEPT ![c] = j]
                         /\ j.phase \in {"none", "start"} /\ j.tries = 0
    <3>1. chunks[c].source \in Nodes \cup {NoNode} /\ chunks[c].targets \in SUBSET Nodes
      BY DEF TypeOK, ChunkInfo
    <3>2. NoJob \in Job /\ NoJob.phase = "none" /\ NoJob.tries = 0
      BY MaxTriesAssumption DEF NoJob, Job, JobPhase
    <3> QED
      BY <1>4, <3>1, <3>2, JobStart DEF ConfirmWrite
  <2>6. /\ job' \in [Chunks -> Job]
        /\ job'[c].phase \in {"none", "start"} /\ job'[c].tries = 0
        /\ \A d \in Chunks \ {c} : job'[d] = job[d]
    BY <2>5 DEF TypeOK
  <2>7. NoJobYet' /\ TriesBounded'
    BY <2>2, <2>6 DEF NoJobYet, TriesBounded
  <2> QED
    BY <1>4, <2>2, <2>3, <2>4, <2>6, <2>7 DEF ConfirmWrite, TypeOK
<1>5. CASE PublishVersion(c)
  <2>1. PICK p \in {"resave", "done"} : writer' = [writer EXCEPT ![c].phase = p]
    BY <1>5 DEF PublishVersion
  <2>2. /\ writer' \in [Chunks -> Writer] /\ writer'[c].phase = p
        /\ \A d \in Chunks \ {c} : writer'[d] = writer[d]
    BY <2>1, WriterPhaseSet DEF TypeOK, WriterPhase
  <2>3. NoJobYet'
    BY <1>5, <2>2 DEF PublishVersion, NoJobYet
  <2> QED
    BY <1>5, <2>2, <2>3 DEF PublishVersion, TypeOK, TriesBounded
<1>6. CASE ResaveChunk(c)
  BY <1>6, ZenonT(60) DEF ResaveChunk, TypeOK, TriesBounded, NoJobYet, Writer, WriterPhase,
      Blank, ChunkInfo, ChunkStatus
<1>7. CASE WriterStops(c)
  BY <1>7, ZenonT(60) DEF WriterStops, TypeOK, TriesBounded, NoJobYet, Writer, WriterPhase
<1> QED
  BY <1>1, <1>2, <1>3, <1>4, <1>5, <1>6, <1>7 DEF WriteNext

\* An action that only moves the job of one chunk, from a phase that shows the
\* goroutine exists.
LEMMA JobStepTypeInv ==
    ASSUME TypeInv, NEW c \in Chunks, NEW j \in Job,
           job' = [job EXCEPT ![c] = j],
           job[c].phase # "none",
           j.phase \notin {"none", "start"},
           j.phase \in {"post", "wait"} => j.tries < MaxTries,
           wire' \in SUBSET (Chunks \X Nodes \X (0..MaxTries)),
           chunks' \in [Chunks -> ChunkInfo],
           db' \in [Chunks -> ChunkInfo],
           disk' \in [Nodes -> SUBSET Chunks],
           UNCHANGED <<nodes, deleting, writer, up>>
    PROVE  TypeInv'
<1>1. /\ job' \in [Chunks -> Job] /\ job'[c] = j
      /\ \A d \in Chunks \ {c} : job'[d] = job[d]
  BY JobSet DEF TypeInv, TypeOK
<1>2. TriesBounded'
  BY <1>1 DEF TypeInv, TriesBounded
<1>3. NoJobYet'
  <2>1. job[c] # NoJob
    BY DEF NoJob
  <2> QED
    BY <1>1, <2>1 DEF TypeInv, NoJobYet
<1> QED
  BY <1>1, <1>2, <1>3 DEF TypeInv, TypeOK

LEMMA JobTypeInv ==
    ASSUME TypeInv, NEW c \in Chunks, JobNext(c)
    PROVE  TypeInv'
<1>0. job[c] \in Job /\ TypeOK
  BY DEF TypeInv, TypeOK
<1>t. job[c].phase \in {"post", "wait"} =>
        /\ NextTry(job[c]) \in Job
        /\ NextTry(job[c]).phase \notin {"none", "start", "wait"}
        /\ NextTry(job[c]).phase = "post" => NextTry(job[c]).tries < MaxTries
  BY <1>0, NextTryType DEF TypeInv, TriesBounded
<1>1. CASE ReplicateChunk(c)
  <2> DEFINE known == job[c].to \cap Registered
             p == IF job[c].source \in Registered /\ known # {}
                  THEN "post" ELSE "failing"
  <2>1. known \in SUBSET Nodes /\ p \in JobPhase /\ p \notin {"none", "start"}
    BY <1>0 DEF Job, JobPhase
  <2>2. /\ job' = [job EXCEPT ![c] = [@ EXCEPT !.to = known, !.phase = p]]
        /\ job[c].phase = "start"
        /\ UNCHANGED <<nodes, chunks, db, deleting, writer, up, disk, wire>>
    BY <1>1 DEF ReplicateChunk
  <2>3. job[c].tries < MaxTries
    BY <2>2, MaxTriesAssumption DEF TypeInv, TriesBounded
  <2> HIDE DEF known, p
  <2> DEFINE j == [job[c] EXCEPT !.to = known, !.phase = p]
  <2>4. j \in Job /\ j.phase = p /\ j.tries = job[c].tries
    <3>1. /\ job[c] \in Job
          /\ p \in JobPhase
          /\ known \in SUBSET Nodes
      BY <1>0, <2>1
    <3> QED
      BY <3>1 DEF Job
  <2>5. job' = [job EXCEPT ![c] = j]
    BY <2>2
  <2> HIDE DEF j
  <2> QED
    BY <1>0, <2>1, <2>2, <2>3, <2>4, <2>5, JobStepTypeInv DEF TypeOK
<1>2. CASE HandleReplicate(c)
  <2> DEFINE j == [job[c] EXCEPT !.phase = "wait"]
  <2>1. j \in Job /\ j.phase = "wait" /\ j.tries = job[c].tries
    BY <1>0, JobFields DEF JobPhase
  <2>2. /\ job' = [job EXCEPT ![c] = j]
        /\ job[c].phase = "post"
        /\ wire' = wire \cup ({c} \X job[c].to \X {job[c].tries})
        /\ UNCHANGED <<nodes, chunks, db, deleting, writer, up, disk>>
    BY <1>2 DEF HandleReplicate
  <2>3. job[c].tries < MaxTries
    BY <2>2 DEF TypeInv, TriesBounded
  <2>4. wire' \in SUBSET (Chunks \X Nodes \X (0..MaxTries))
    BY <1>0, <2>2 DEF TypeOK, Job
  <2> HIDE DEF j
  <2> QED
    BY <1>0, <2>1, <2>2, <2>3, <2>4, JobStepTypeInv DEF TypeOK
<1>3. CASE PostFails(c)
  BY <1>0, <1>t, <1>3, JobStepTypeInv DEF PostFails, TypeOK
<1>4. CASE ReplicateAnswer(c)
  <2>1. CASE job[c].acked # {}
    <3> DEFINE j == [job[c] EXCEPT !.phase = "ok"]
    <3>1. j \in Job /\ j.phase = "ok"
      BY <1>0, JobFields DEF JobPhase
    <3>2. job' = [job EXCEPT ![c] = j] /\ job[c].phase = "wait"
      BY <1>4, <2>1 DEF ReplicateAnswer
    <3> HIDE DEF j
    <3> QED
      BY <1>0, <1>4, <3>1, <3>2, JobStepTypeInv DEF ReplicateAnswer, TypeOK
  <2>2. CASE job[c].acked = {}
    BY <1>0, <1>t, <1>4, <2>2, JobStepTypeInv DEF ReplicateAnswer, TypeOK
  <2> QED
    BY <2>1, <2>2
<1>5. CASE ReplicateTimeout(c)
  BY <1>0, <1>t, <1>5, JobStepTypeInv DEF ReplicateTimeout, TypeOK
<1>6. CASE MarkDegraded(c)
  <2> DEFINE j == [job[c] EXCEPT !.phase = "failed"]
  <2>1. j \in Job /\ j.phase = "failed"
    BY <1>0, JobFields DEF JobPhase
  <2>2. job' = [job EXCEPT ![c] = j] /\ job[c].phase = "failing"
    BY <1>6 DEF MarkDegraded
  <2>3. chunks' \in [Chunks -> ChunkInfo]
    BY <1>0, <1>6, StatusSet DEF MarkDegraded, TypeOK, ChunkStatus
  <2>4. db' \in [Chunks -> ChunkInfo]
    BY <1>0, <1>6, <2>3 DEF MarkDegraded, TypeOK
  <2> HIDE DEF j
  <2> QED
    BY <1>0, <1>6, <2>1, <2>2, <2>3, <2>4, JobStepTypeInv DEF MarkDegraded, TypeOK
<1> QED
  BY <1>1, <1>2, <1>3, <1>4, <1>5, <1>6 DEF JobNext

LEMMA PushTypeInv ==
    ASSUME TypeInv, NEW c \in Chunks, NEW t \in Nodes, PushNext(c, t)
    PROVE  TypeInv'
<1>0. job[c] \in Job /\ TypeOK
  BY DEF TypeInv, TypeOK
<1>1. ASSUME NEW k \in 0..MaxTries, ReceivePush(c, t, k)
      PROVE  TypeInv'
  <2>1. /\ disk' \in [Nodes -> SUBSET Chunks]
        /\ wire' \in SUBSET (Chunks \X Nodes \X (0..MaxTries))
        /\ UNCHANGED <<nodes, chunks, db, deleting, writer, up>>
    BY <1>0, <1>1 DEF ReceivePush, TypeOK
  <2>2. CASE job[c].phase = "wait" /\ job[c].tries = k /\ job' # job
    <3> DEFINE j == [job[c] EXCEPT !.acked = job[c].acked \cup {t}]
    <3>1. j \in Job /\ j.phase = "wait" /\ j.tries = job[c].tries
      BY <1>0, <2>2, JobFields DEF Job
    <3>2. job' = [job EXCEPT ![c] = j]
      BY <1>1, <2>2 DEF ReceivePush
    <3>3. j.tries < MaxTries
      BY <2>2, <3>1 DEF TypeInv, TriesBounded
    <3> HIDE DEF j
    <3> QED
      BY <1>0, <2>1, <2>2, <3>1, <3>2, <3>3, JobStepTypeInv DEF TypeOK
  <2>3. CASE ~(job[c].phase = "wait" /\ job[c].tries = k) \/ job' = job
    <3>1. job' = job
      BY <1>0, <1>1, <2>3 DEF ReceivePush, TypeOK, Job
    <3> QED
      BY <2>1, <3>1 DEF TypeInv, TypeOK, TriesBounded, NoJobYet
  <2> QED
    BY <2>2, <2>3
<1>2. ASSUME NEW k \in 0..MaxTries, PushFails(c, t, k)
      PROVE  TypeInv'
  BY <1>2 DEF PushFails, TypeInv, TypeOK, TriesBounded, NoJobYet
<1> QED
  BY <1>1, <1>2 DEF PushNext

LEMMA DeleteTypeInv ==
    ASSUME TypeInv, NEW c \in Chunks,
           DeleteChunk(c) \/ \E n \in Nodes : DeleteNext(c, n)
    PROVE  TypeInv'
<1>1. CASE DeleteChunk(c)
  BY <1>1 DEF DeleteChunk, TypeInv, TypeOK, TriesBounded, NoJobYet, ReplicaSet,
      ChunkInfo, ChunkStatus, Absent
<1>2. ASSUME NEW n \in Nodes, DeleteAtNode(c, n)
      PROVE  TypeInv'
  BY <1>2 DEF DeleteAtNode, TypeInv, TypeOK, TriesBounded, NoJobYet
<1>3. ASSUME NEW n \in Nodes, DeleteAtNodeFails(c, n)
      PROVE  TypeInv'
  BY <1>3 DEF DeleteAtNodeFails, TypeInv, TypeOK, TriesBounded, NoJobYet
<1> QED
  BY <1>1, <1>2, <1>3 DEF DeleteNext

LEMMA RestartTypeInv ==
    ASSUME TypeInv, ServerRestart
    PROVE  TypeInv'
<1>1. \A c \in Chunks : job[c] \in Job /\ writer[c] \in Writer
  BY DEF TypeInv, TypeOK
<1>2. ASSUME NEW c \in Chunks
      PROVE  /\ job'[c] \in Job
             /\ job'[c] = job[c] \/ (job'[c].phase = "lost" /\ job[c].phase \in Running)
  BY <1>1, JobFields DEF ServerRestart, JobPhase
<1>3. job' \in [Chunks -> Job]
  BY <1>2 DEF ServerRestart
<1>4. ASSUME NEW c \in Chunks
      PROVE  /\ writer'[c] \in Writer
             /\ writer'[c] = writer[c] \/ writer'[c].phase = "failed"
  <2>1. "failed" \in WriterPhase
    BY DEF WriterPhase
  <2>2. /\ [writer[c] EXCEPT !.phase = "failed"] \in Writer
        /\ [writer[c] EXCEPT !.phase = "failed"].phase = "failed"
    BY <1>1, <2>1 DEF Writer
  <2> QED
    BY <1>1, <2>2 DEF ServerRestart
<1>5. writer' \in [Chunks -> Writer]
  BY <1>4 DEF ServerRestart
<1>6. TriesBounded'
  BY <1>2 DEF TypeInv, TriesBounded
<1>7. NoJobYet'
  <2>1. ASSUME NEW c \in Chunks, writer'[c].phase \in {"idle", "put", "confirm"}
        PROVE  job'[c] = NoJob
    <3>1. job[c] = NoJob
      BY <1>4, <2>1 DEF TypeInv, NoJobYet
    <3> QED
      BY <1>2, <3>1 DEF NoJob, Running
  <2> QED
    BY <2>1 DEF NoJobYet
<1> QED
  BY <1>3, <1>5, <1>6, <1>7 DEF ServerRestart, TypeInv, TypeOK

LEMMA NextTypeInv == TypeInv /\ [Next]_vars => TypeInv'
<1> SUFFICES ASSUME TypeInv, [Next]_vars
             PROVE  TypeInv'
  OBVIOUS
<1>1. CASE UNCHANGED vars
  BY <1>1 DEF vars, TypeInv, TypeOK, TriesBounded, NoJobYet
<1>2. ASSUME NEW n \in Nodes, NodeNext(n)
      PROVE  TypeInv'
  BY <1>2, NodeTypeInv
<1>3. ASSUME NEW c \in Chunks, WriteNext(c)
      PROVE  TypeInv'
  BY <1>3, WriteTypeInv
<1>4. ASSUME NEW c \in Chunks, JobNext(c)
      PROVE  TypeInv'
  BY <1>4, JobTypeInv
<1>5. ASSUME NEW c \in Chunks, NEW t \in Nodes, PushNext(c, t)
      PROVE  TypeInv'
  BY <1>5, PushTypeInv
<1>6. ASSUME NEW c \in Chunks, DeleteChunk(c) \/ \E n \in Nodes : DeleteNext(c, n)
      PROVE  TypeInv'
  BY <1>6, DeleteTypeInv
<1>7. CASE ServerRestart
  BY <1>7, RestartTypeInv
<1> QED
  BY <1>1, <1>2, <1>3, <1>4, <1>5, <1>6, <1>7 DEF Next

\* Every reachable state is well typed, and the retry loop of ReplicateChunk
\* never runs past its bound.
THEOREM TypeCorrect == Spec => []TypeOK
<1>1. TypeInv => TypeOK
  BY DEF TypeInv
<1> QED
  BY InitTypeInv, NextTypeInv, <1>1, PTL DEF Spec

-----------------------------------------------------------------------------
(* Durable.  The strengthening follows a copy from the PUT of the writer   *)
(* to the records in memory and in the database, and says that a node is   *)
(* only told to delete a chunk whose records are both gone.                *)

\* The copy that a record promises is where the record says.
Backed(r, c) == Confirmed(r) => r.source \in Nodes /\ c \in disk[r.source]

RecordsBacked(c) == Backed(chunks[c], c) /\ Backed(db[c], c)

\* While a writer is at work both records name the node it writes to first, and
\* nobody deletes the chunk.
WriterOwns(c) ==
    /\ writer[c].phase \in {"put", "confirm"} =>
         /\ writer[c].first \in Nodes
         /\ chunks[c].source = writer[c].first
         /\ db[c].source = writer[c].first
    /\ writer[c].phase \in {"idle", "put", "confirm"} => deleting[c] = {}

\* The first PUT has reached its node before any other, and before confirm.
FirstPutDone(c) ==
    \/ writer[c].phase = "confirm"
    \/ writer[c].phase = "put" /\ writer[c].first \notin writer[c].todo
    => c \in disk[writer[c].first]

\* MarkDegraded never turns an unconfirmed record into a confirmed one.
JobOfConfirmed(c) ==
    job[c].phase \in Running =>
      Confirmed(chunks[c]) \/ chunks[c].status = "absent"

\* Nodes are told to delete only what no record confirms any more.
DeletedUnconfirmed(c) ==
    deleting[c] # {} => ~Confirmed(chunks[c]) /\ ~Confirmed(db[c])

DurableAt(c) ==
    /\ RecordsBacked(c)
    /\ WriterOwns(c)
    /\ FirstPutDone(c)
    /\ JobOfConfirmed(c)
    /\ DeletedUnconfirmed(c)

DurableInv == \A c \in Chunks : DurableAt(c)

LEMMA InitDurable == Init => DurableInv
  BY DEF Init, DurableInv, DurableAt, RecordsBacked, Backed, WriterOwns, FirstPutDone,
      JobOfConfirmed, DeletedUnconfirmed, Confirmed, Absent, NoWriter, NoJob, Running

\* A chunk nobody touched, none of whose copies disappeared.
LEMMA DurableFrame ==
    ASSUME NEW c \in Chunks, DurableAt(c),
           chunks'[c] = chunks[c], db'[c] = db[c], writer'[c] = writer[c],
           job'[c] = job[c], deleting'[c] = deleting[c],
           \A n \in Nodes : c \in disk[n] => c \in disk'[n]
    PROVE  DurableAt(c)'
  BY DEF DurableAt, RecordsBacked, Backed, WriterOwns, FirstPutDone, JobOfConfirmed,
      DeletedUnconfirmed, Confirmed, Running

\* Only the phase of a job changed, and it did not come to life.
LEMMA DurableJobStep ==
    ASSUME NEW c \in Chunks, DurableAt(c),
           chunks'[c] = chunks[c], db'[c] = db[c], writer'[c] = writer[c],
           job'[c].phase \in Running => job[c].phase \in Running,
           deleting'[c] = deleting[c],
           \A n \in Nodes : c \in disk[n] => c \in disk'[n]
    PROVE  DurableAt(c)'
  BY DEF DurableAt, RecordsBacked, Backed, WriterOwns, FirstPutDone, JobOfConfirmed,
      DeletedUnconfirmed, Confirmed, Running

LEMMA NodeDurable ==
    ASSUME TypeInv, DurableInv, NEW n \in Nodes, NodeNext(n)
    PROVE  DurableInv'
<1>1. ASSUME NEW c \in Chunks
      PROVE  /\ chunks'[c] = chunks[c] /\ db'[c] = db[c] /\ writer'[c] = writer[c]
             /\ deleting'[c] = deleting[c] /\ disk' = disk
             /\ job'[c].phase \in Running => job[c].phase \in Running
  <2>1. CASE NodeCrash(n)
    BY <2>1 DEF NodeCrash, Running
  <2>2. CASE ~NodeCrash(n)
    BY <2>2 DEF NodeNext, StartNode, HeartbeatNode, CheckNodeStatus, DeleteNode
  <2> QED
    BY <2>1, <2>2
<1> QED
  BY <1>1, DurableJobStep DEF DurableInv

LEMMA WriteDurable ==
    ASSUME TypeInv, DurableInv, NEW c \in Chunks, WriteNext(c)
    PROVE  DurableInv'
<1>0. /\ TypeOK /\ NoJobYet /\ DurableAt(c)
      /\ writer[c] \in Writer /\ chunks[c] \in ChunkInfo
  BY DEF TypeInv, TypeOK, DurableInv
<1>f. \A d \in Chunks \ {c} :
        /\ chunks'[d] = chunks[d] /\ db'[d] = db[d] /\ writer'[d] = writer[d]
        /\ job'[d] = job[d] /\ deleting'[d] = deleting[d]
        /\ \A n \in Nodes : d \in disk[n] => d \in disk'[n]
  <2>1. \A kind \in Writers : PrepareWrite(c, kind) =>
          /\ \A d \in Chunks \ {c} :
               chunks'[d] = chunks[d] /\ db'[d] = db[d] /\ writer'[d] = writer[d]
          /\ UNCHANGED <<job, deleting, disk>>
    BY <1>0 DEF TypeOK, PrepareWrite
  <2>2. \A n \in Nodes : PutChunk(c, n) \/ PutFails(c, n) =>
          /\ \A d \in Chunks \ {c} : writer'[d] = writer[d]
          /\ \A d \in Chunks, m \in Nodes : d \in disk[m] => d \in disk'[m]
          /\ UNCHANGED <<job, deleting, chunks, db>>
    BY <1>0 DEF TypeOK, PutChunk, PutFails
  <2>3. ConfirmWrite(c) =>
          /\ \A d \in Chunks \ {c} :
               /\ chunks'[d] = chunks[d] /\ db'[d] = db[d] /\ writer'[d] = writer[d]
               /\ job'[d] = job[d]
          /\ UNCHANGED <<deleting, disk>>
    BY <1>0 DEF TypeOK, ConfirmWrite
  <2>4. PublishVersion(c) \/ ResaveChunk(c) \/ WriterStops(c) =>
          /\ \A d \in Chunks \ {c} : writer'[d] = writer[d] /\ db'[d] = db[d]
          /\ UNCHANGED <<chunks, job, deleting, disk>>
    BY <1>0 DEF TypeOK, PublishVersion, ResaveChunk, WriterStops
  <2> QED
    BY <2>1, <2>2, <2>3, <2>4 DEF WriteNext
<1> SUFFICES DurableAt(c)'
  BY <1>f, DurableFrame DEF DurableInv
<1> USE DEF DurableAt, RecordsBacked, Backed, WriterOwns, FirstPutDone, JobOfConfirmed,
      DeletedUnconfirmed, Confirmed
<1>1. ASSUME NEW kind \in Writers, PrepareWrite(c, kind)
      PROVE  DurableAt(c)'
  <2> DEFINE Chosen(S, s) ==
         /\ chunks' = [chunks EXCEPT ![c] =
                [status |-> "pending", source |-> s, targets |-> S \ {s}]]
         /\ db' = [db EXCEPT ![c] = chunks'[c]]
         /\ writer' = [writer EXCEPT ![c] =
                [phase |-> "put", kind |-> kind, first |-> s, addrs |-> S,
                 todo |-> IF kind = "cli" THEN S ELSE {s}]]
  <2>0. PICK chosen \in SelectNodes : \E s \in chosen : Chosen(chosen, s)
    BY <1>1 DEF PrepareWrite
  <2>1. PICK s \in chosen : Chosen(chosen, s)
    BY <2>0
  <2>2. s \in Nodes
    BY <2>1 DEF SelectNodes, Online
  <2>3. /\ chunks'[c] = [status |-> "pending", source |-> s, targets |-> chosen \ {s}]
        /\ db'[c] = chunks'[c]
        /\ writer'[c].phase = "put" /\ writer'[c].first = s /\ s \in writer'[c].todo
    BY <1>0, <2>1 DEF TypeOK
  <2>4. job'[c] = NoJob /\ deleting'[c] = {}
    BY <1>0, <1>1 DEF PrepareWrite, NoJobYet
  <2> QED
    BY <2>2, <2>3, <2>4 DEF NoJob, Running
<1>2. ASSUME NEW n \in Nodes, PutChunk(c, n)
      PROVE  DurableAt(c)'
  <2> DEFINE p == IF writer[c].todo = {n} THEN "confirm" ELSE "put"
  <2>1. p \in WriterPhase /\ writer[c].todo \ {n} \in SUBSET Nodes
    BY <1>0 DEF WriterPhase, Writer
  <2>2. /\ writer' = [writer EXCEPT ![c] = [@ EXCEPT !.todo = writer[c].todo \ {n}, !.phase = p]]
        /\ writer[c].phase = "put" /\ n \in NextPut(writer[c])
        /\ disk' = [disk EXCEPT ![n] = @ \cup {c}]
        /\ UNCHANGED <<nodes, chunks, db, job, deleting, up, wire>>
    BY <1>2 DEF PutChunk
  <2>3. p \in {"put", "confirm"} /\ (p = "confirm" => writer[c].todo = {n})
    OBVIOUS
  <2> HIDE DEF p
  <2>4. /\ writer'[c].phase = p /\ writer'[c].first = writer[c].first
        /\ writer'[c].todo = writer[c].todo \ {n}
    <3> DEFINE t == writer[c].todo \ {n}
    <3>1. /\ t \in SUBSET Nodes /\ p \in WriterPhase /\ writer \in [Chunks -> Writer]
          /\ writer' = [writer EXCEPT ![c] = [@ EXCEPT !.todo = t, !.phase = p]]
      BY <1>0, <2>1, <2>2 DEF TypeOK
    <3> HIDE DEF t
    <3>2. writer'[c].phase = p /\ writer'[c].first = writer[c].first /\ writer'[c].todo = t
      BY <3>1 DEF Writer
    <3> QED
      BY <3>2 DEF t
  <2>5. writer[c].first \in Nodes /\ deleting[c] = {}
    BY <1>0, <2>2
  <2>6. /\ \A m \in Nodes : c \in disk[m] => c \in disk'[m]
        /\ c \in disk'[n]
    BY <1>0, <2>2 DEF TypeOK
  <2>7. FirstPutDone(c)'
    <3>1. CASE n = writer[c].first
      BY <2>4, <2>6, <3>1
    <3>2. CASE n # writer[c].first
      <4>1. writer[c].first \notin writer[c].todo
        BY <2>2, <3>2 DEF NextPut
      <4> QED
        BY <1>0, <2>2, <2>4, <2>5, <2>6, <4>1
    <3> QED
      BY <3>1, <3>2
  <2>8. RecordsBacked(c)'
    BY <1>0, <2>2, <2>6
  <2>9. (WriterOwns(c) /\ JobOfConfirmed(c) /\ DeletedUnconfirmed(c))'
    BY <1>0, <2>2, <2>3, <2>4
  <2> QED
    BY <2>7, <2>8, <2>9
<1>3. ASSUME NEW n \in Nodes, PutFails(c, n)
      PROVE  DurableAt(c)'
  <2>1. writer'[c].phase = "failed"
    BY <1>0, <1>3, WriterPhaseSet DEF PutFails, TypeOK, WriterPhase
  <2>2. \A m \in Nodes : c \in disk[m] => c \in disk'[m]
    BY <1>0, <1>3 DEF PutFails, TypeOK
  <2> QED
    BY <1>0, <1>3, <2>1, <2>2 DEF PutFails
<1>4. CASE ConfirmWrite(c)
  <2>1. writer'[c].phase \in {"publish", "failed"}
    <3>1. PICK p \in {"publish", "failed"} : writer' = [writer EXCEPT ![c].phase = p]
      BY <1>4 DEF ConfirmWrite
    <3> QED
      BY <1>0, <3>1, WriterPhaseSet DEF TypeOK, WriterPhase
  <2>2. chunks'[c].status = "success" /\ chunks'[c].source = chunks[c].source
    BY <1>0, <1>4, StatusSet DEF ConfirmWrite, TypeOK, ChunkStatus
  <2>3. db'[c] = chunks'[c] /\ disk' = disk /\ deleting'[c] = deleting[c]
    BY <1>0, <1>4 DEF ConfirmWrite, TypeOK
  <2>4. /\ writer[c].first \in Nodes /\ chunks[c].source = writer[c].first
        /\ c \in disk[writer[c].first] /\ deleting[c] = {}
    BY <1>0, <1>4 DEF ConfirmWrite
  <2> QED
    BY <2>1, <2>2, <2>3, <2>4
<1>5. CASE PublishVersion(c)
  <2>1. writer'[c].phase \in {"resave", "done"}
    <3>1. PICK p \in {"resave", "done"} : writer' = [writer EXCEPT ![c].phase = p]
      BY <1>5 DEF PublishVersion
    <3> QED
      BY <1>0, <3>1, WriterPhaseSet DEF TypeOK, WriterPhase
  <2> QED
    BY <1>0, <1>5, <2>1 DEF PublishVersion
<1>6. CASE ResaveChunk(c)
  <2>1. writer'[c].phase = "done"
    BY <1>0, <1>6, WriterPhaseSet DEF ResaveChunk, TypeOK, WriterPhase
  <2>2. db'[c] = Blank
    BY <1>0, <1>6 DEF ResaveChunk, TypeOK
  <2> QED
    BY <1>0, <1>6, <2>1, <2>2 DEF ResaveChunk, Blank
<1>7. CASE WriterStops(c)
  <2>1. writer'[c].phase = "failed"
    BY <1>0, <1>7, WriterPhaseSet DEF WriterStops, TypeOK, WriterPhase
  <2> QED
    BY <1>0, <1>7, <2>1 DEF WriterStops
<1> QED
  BY <1>1, <1>2, <1>3, <1>4, <1>5, <1>6, <1>7 DEF WriteNext

LEMMA JobDurable ==
    ASSUME TypeInv, DurableInv, NEW c \in Chunks, JobNext(c)
    PROVE  DurableInv'
<1>0. TypeOK /\ DurableAt(c)
  BY DEF TypeInv, DurableInv
<1>1. CASE MarkDegraded(c)
  <2>1. /\ job[c].phase = "failing" /\ UNCHANGED <<deleting, writer, disk>>
        /\ job' = [job EXCEPT ![c].phase = "failed"]
    BY <1>1 DEF MarkDegraded
  <2>2. \A d \in Chunks \ {c} :
          chunks'[d] = chunks[d] /\ db'[d] = db[d] /\ job'[d] = job[d]
    BY <1>0, <1>1 DEF MarkDegraded, TypeOK
  <2>3. job'[c].phase \notin Running
    BY <1>0, <2>1 DEF TypeOK, Job, Running
  <2>4. CASE chunks[c].status = "absent"
    <3>1. chunks'[c].status = "absent" /\ db' = db
      BY <1>0, <1>1, <2>4, StatusSet DEF MarkDegraded, TypeOK, ChunkStatus
    <3>2. DurableAt(c)'
      <4>1. chunks'[c].source = chunks[c].source
        BY <1>0, <1>1, <2>4, StatusSet DEF MarkDegraded, TypeOK, ChunkStatus
      <4> QED
        BY <1>0, <2>1, <2>3, <2>4, <3>1, <4>1
        DEF DurableAt, RecordsBacked, Backed, WriterOwns, FirstPutDone, JobOfConfirmed,
            DeletedUnconfirmed, Confirmed
    <3> QED
      BY <2>1, <2>2, <3>2, DurableFrame DEF DurableInv
  <2>5. CASE chunks[c].status # "absent"
    <3>1. Confirmed(chunks[c])
      BY <1>0, <2>1, <2>5 DEF DurableAt, JobOfConfirmed, Running
    <3>2. /\ chunks'[c].status = "degraded" /\ chunks'[c].source = chunks[c].source
          /\ db'[c] = chunks'[c]
      BY <1>0, <1>1, <2>5, StatusSet DEF MarkDegraded, TypeOK, ChunkStatus
    <3>3. DurableAt(c)'
      BY <1>0, <2>1, <2>3, <3>1, <3>2
      DEF DurableAt, RecordsBacked, Backed, WriterOwns, FirstPutDone, JobOfConfirmed,
          DeletedUnconfirmed, Confirmed
    <3> QED
      BY <2>1, <2>2, <3>3, DurableFrame DEF DurableInv
  <2> QED
    BY <2>4, <2>5
<1>2. CASE ~MarkDegraded(c)
  <2>1. /\ job[c].phase \in Running /\ UNCHANGED <<chunks, db, deleting, writer, disk>>
        /\ \A d \in Chunks \ {c} : job'[d] = job[d]
    BY <1>0, <1>2 DEF TypeOK, JobNext, ReplicateChunk, HandleReplicate, PostFails,
        ReplicateAnswer, ReplicateTimeout, Running
  <2> QED
    BY <2>1, DurableJobStep DEF DurableInv
<1> QED
  BY <1>1, <1>2

LEMMA PushDurable ==
    ASSUME TypeInv, DurableInv, NEW c \in Chunks, NEW t \in Nodes, PushNext(c, t)
    PROVE  DurableInv'
<1>1. /\ UNCHANGED <<chunks, db, deleting, writer>>
      /\ \A d \in Chunks, n \in Nodes : d \in disk[n] => d \in disk'[n]
  BY DEF PushNext, ReceivePush, PushFails, TypeInv, TypeOK
<1>2. \A d \in Chunks : job'[d].phase = job[d].phase
  BY SMTT(30) DEF PushNext, ReceivePush, PushFails, TypeInv, TypeOK, Job
<1> QED
  BY <1>1, <1>2, DurableJobStep DEF DurableInv

LEMMA DeleteDurable ==
    ASSUME TypeInv, DurableInv, NEW c \in Chunks,
           DeleteChunk(c) \/ \E n \in Nodes : DeleteNext(c, n)
    PROVE  DurableInv'
<1>0. TypeOK /\ DurableAt(c)
  BY DEF TypeInv, DurableInv
<1>1. CASE DeleteChunk(c)
  <2>1. /\ writer[c].phase \in {"resave", "done"}
        /\ UNCHANGED <<job, writer, disk>>
        /\ chunks'[c] = Absent /\ db'[c] = Absent
        /\ \A d \in Chunks \ {c} :
             chunks'[d] = chunks[d] /\ db'[d] = db[d] /\ deleting'[d] = deleting[d]
    BY <1>0, <1>1 DEF DeleteChunk, TypeOK
  <2>2. DurableAt(c)'
    BY <2>1 DEF DurableAt, RecordsBacked, Backed, WriterOwns, FirstPutDone,
        JobOfConfirmed, DeletedUnconfirmed, Confirmed, Absent
  <2> QED
    BY <2>1, <2>2, DurableFrame DEF DurableInv
<1>2. ASSUME NEW n \in Nodes, DeleteNext(c, n)
      PROVE  DurableInv'
  <2>1. /\ n \in deleting[c] /\ UNCHANGED <<chunks, db, job, writer>>
        /\ deleting' = [deleting EXCEPT ![c] = @ \ {n}]
        /\ disk' = disk \/ disk' = [disk EXCEPT ![n] = @ \ {c}]
    BY <1>2 DEF DeleteNext, DeleteAtNode, DeleteAtNodeFails
  <2>2. \A d \in Chunks \ {c} :
          /\ deleting'[d] = deleting[d]
          /\ \A m \in Nodes : d \in disk[m] => d \in disk'[m]
    BY <1>0, <2>1 DEF TypeOK
  <2>3. /\ ~Confirmed(chunks[c]) /\ ~Confirmed(db[c])
        /\ writer[c].phase \notin {"idle", "put", "confirm"}
    BY <1>0, <2>1 DEF DurableAt, WriterOwns, DeletedUnconfirmed
  <2>4. DurableAt(c)'
    BY <1>0, <2>1, <2>3 DEF DurableAt, RecordsBacked, Backed, WriterOwns, FirstPutDone,
        JobOfConfirmed, DeletedUnconfirmed, Confirmed
  <2> QED
    BY <2>1, <2>2, <2>4, DurableFrame DEF DurableInv
<1> QED
  BY <1>1, <1>2

LEMMA RestartDurable ==
    ASSUME TypeInv, DurableInv, ServerRestart
    PROVE  DurableInv'
<1> SUFFICES ASSUME NEW c \in Chunks
             PROVE  DurableAt(c)'
  BY DEF DurableInv
<1>0. TypeOK /\ DurableAt(c) /\ job[c] \in Job /\ writer[c] \in Writer
  BY DEF TypeInv, TypeOK, DurableInv
<1>1. /\ chunks'[c] = db[c] /\ db' = db /\ disk' = disk /\ deleting'[c] = {}
  BY DEF ServerRestart
<1>2. job'[c].phase \notin Running
  BY <1>0 DEF ServerRestart, Job, Running
<1>3. writer'[c] = writer[c] \/ writer'[c].phase = "failed"
  BY <1>0 DEF ServerRestart, Writer
<1> QED
  BY <1>0, <1>1, <1>2, <1>3 DEF DurableAt, RecordsBacked, Backed, WriterOwns,
      FirstPutDone, JobOfConfirmed, DeletedUnconfirmed, Confirmed

LEMMA NextDurable == TypeInv /\ DurableInv /\ [Next]_vars => DurableInv'
<1> SUFFICES ASSUME TypeInv, DurableInv, [Next]_vars
             PROVE  DurableInv'
  OBVIOUS
<1>1. CASE UNCHANGED vars
  BY <1>1, DurableFrame DEF vars, DurableInv
<1>2. ASSUME NEW n \in Nodes, NodeNext(n)
      PROVE  DurableInv'
  BY <1>2, NodeDurable
<1>3. ASSUME NEW c \in Chunks, WriteNext(c)
      PROVE  DurableInv'
  BY <1>3, WriteDurable
<1>4. ASSUME NEW c \in Chunks, JobNext(c)
      PROVE  DurableInv'
  BY <1>4, JobDurable
<1>5. ASSUME NEW c \in Chunks, NEW t \in Nodes, PushNext(c, t)
      PROVE  DurableInv'
  BY <1>5, PushDurable
<1>6. ASSUME NEW c \in Chunks, DeleteChunk(c) \/ \E n \in Nodes : DeleteNext(c, n)
      PROVE  DurableInv'
  BY <1>6, DeleteDurable
<1>7. CASE ServerRestart
  BY <1>7, RestartDurable
<1> QED
  BY <1>1, <1>2, <1>3, <1>4, <1>5, <1>6, <1>7 DEF Next

\* A chunk the server calls success or degraded is on its first node, for every
\* cluster and every combination of crashes, losses, retries and restarts.
THEOREM DurableHolds == Spec => []Durable
<1>1. DurableInv => Durable
  BY DEF DurableInv, DurableAt, RecordsBacked, Backed, Durable
<1> QED
  BY InitTypeInv, NextTypeInv, InitDurable, NextDurable, <1>1, PTL DEF Spec
=============================================================================
