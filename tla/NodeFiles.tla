------------------------------- MODULE NodeFiles -------------------------------
(***************************************************************************)
(* The files a storage node keeps of one chunk (internal/node/             *)
(* chunk_handler.go): handleUpload writes temp/<chunk>.tmp and renames it  *)
(* to chunks/<chunk>, handleDownload and HandleReplicate read the latter,  *)
(* handleDelete removes it.  Handlers share the two names and no lock, and *)
(* run concurrently: the PUT of a writer, the pushes of a replication      *)
(* attempt and those of the attempt before it may all be at work.          *)
(*                                                                         *)
(* The operating system is modelled as far as the handlers see it: a name  *)
(* leads to an inode, an open file keeps its inode whatever happens to the *)
(* name, opening for writing empties the inode the name leads to.  All     *)
(* PUTs of a chunk carry the same bytes, written in Pieces portions, so an *)
(* inode is the set of portions it holds; a missing one reads as zeros or  *)
(* as a short file.                                                        *)
(***************************************************************************)
EXTENDS Integers, FiniteSets

CONSTANTS
    Puts,       \* PUT requests, each made once
    Gets,       \* GET and replicate requests, each made once
    Pieces      \* portions in which a chunk is written and read

ASSUME PiecesAssumption == Pieces \in Nat \ {0}
ASSUME PutsAssumption   == IsFiniteSet(Puts)

VARIABLES
    temp,       \* the inode temp/<chunk>.tmp leads to, 0 if there is none
    final,      \* the inode chunks/<chunk> leads to, 0 if there is none
    inodes,     \* number of inodes made so far
    content,    \* the portions in each inode
    put, get,   \* progress of the requests
    shared      \* history: the PUTs that overlapped with another

vars == <<temp, final, inodes, content, put, get, shared>>

Inode == 1..Cardinality(Puts)
Parts == 1..Pieces

PutPhase == {"idle", "writing", "ok", "unmoved", "broken", "lost"}
GetPhase == {"idle", "reading", "ok", "missing", "lost"}

TypeOK ==
    /\ temp \in 0..inodes /\ final \in 0..inodes
    /\ inodes  \in Nat
    /\ content \in [Inode -> SUBSET Parts]
    /\ put     \in [Puts -> [phase : PutPhase, fd : 0..inodes, next : 1..(Pieces + 1)]]
    /\ get     \in [Gets -> [phase : GetPhase, fd : 0..inodes, next : 1..(Pieces + 1),
                             seen : SUBSET Parts]]
    /\ shared  \in SUBSET Puts

Init ==
    /\ temp    = 0
    /\ final   = 0
    /\ inodes  = 0
    /\ content = [i \in Inode |-> {}]
    /\ put     = [p \in Puts |-> [phase |-> "idle", fd |-> 0, next |-> 1]]
    /\ get     = [g \in Gets |-> [phase |-> "idle", fd |-> 0, next |-> 1, seen |-> {}]]
    /\ shared  = {}

Busy == {p \in Puts : put[p].phase = "writing"}

-----------------------------------------------------------------------------
(* handleUpload, once it has the whole body.                               *)

Overlap(p) == shared' = IF Busy = {} THEN shared ELSE shared \cup Busy \cup {p}

\* Mutant: the chunk is written in place, without a temporary name.
OpenInPlace(p) ==
    LET fd == IF final = 0 THEN inodes + 1 ELSE final
    IN  /\ put[p].phase = "idle"
        /\ inodes' = IF final = 0 THEN inodes + 1 ELSE inodes
        /\ temp' = fd
        /\ final' = fd
        /\ content' = [content EXCEPT ![fd] = {}]
        /\ put' = [put EXCEPT ![p] = [phase |-> "writing", fd |-> fd, next |-> 1]]
        /\ Overlap(p)
        /\ UNCHANGED get

\* os.WriteFile opens the temporary name, makes it if needed and empties it.
Open(p) ==
    LET fd == IF temp = 0 THEN inodes + 1 ELSE temp
    IN  /\ put[p].phase = "idle"
        /\ inodes' = IF temp = 0 THEN inodes + 1 ELSE inodes
        /\ temp' = fd
        /\ content' = [content EXCEPT ![fd] = {}]
        /\ put' = [put EXCEPT ![p] = [phase |-> "writing", fd |-> fd, next |-> 1]]
        /\ Overlap(p)
        /\ UNCHANGED <<final, get>>

\* Mutant: the loop goes once too often.
WriteTooFar(p) ==
    /\ put[p].phase = "writing"
    /\ put[p].next <= Pieces + 1
    /\ content' = [content EXCEPT ![put[p].fd] = @ \cup {put[p].next}]
    /\ put' = [put EXCEPT ![p].next = @ + 1]
    /\ UNCHANGED <<temp, final, inodes, get, shared>>

\* os.File.Write goes on until all portions are written.
Write(p) ==
    /\ put[p].phase = "writing"
    /\ put[p].next <= Pieces
    /\ content' = [content EXCEPT ![put[p].fd] = @ \cup {put[p].next}]
    /\ put' = [put EXCEPT ![p].next = @ + 1]
    /\ UNCHANGED <<temp, final, inodes, get, shared>>

\* Mutant: an error of os.WriteFile is not looked at.
WriteErrorIgnored(p) ==
    /\ put[p].phase = "writing"
    /\ put[p].next <= Pieces
    /\ put' = [put EXCEPT ![p].next = Pieces + 1]
    /\ UNCHANGED <<temp, final, inodes, content, get, shared>>

\* The disk is full or fails: 500, and the temporary file stays.
WriteFails(p) ==
    /\ put[p].phase = "writing"
    /\ put[p].next <= Pieces
    /\ put' = [put EXCEPT ![p].phase = "broken"]
    /\ UNCHANGED <<temp, final, inodes, content, get, shared>>

\* Mutant: the chunk is moved before its last portion is written.
RenameEarly(p) ==
    /\ put[p].phase = "writing"
    /\ put[p].next >= Pieces
    /\ IF temp = 0 THEN UNCHANGED <<temp, final>>
       ELSE temp' = 0 /\ final' = temp
    /\ put' = [put EXCEPT ![p].phase = IF temp = 0 THEN "unmoved" ELSE "ok"]
    /\ UNCHANGED <<inodes, content, get, shared>>

\* Whatever the temporary name leads to by now becomes the chunk: 200.  Another PUT
\* may have moved it already: 500.
Rename(p) ==
    /\ put[p].phase = "writing"
    /\ put[p].next = Pieces + 1
    /\ IF temp = 0 THEN UNCHANGED <<temp, final>>
       ELSE temp' = 0 /\ final' = temp
    /\ put' = [put EXCEPT ![p].phase = IF temp = 0 THEN "unmoved" ELSE "ok"]
    /\ UNCHANGED <<inodes, content, get, shared>>

-----------------------------------------------------------------------------
(* The other handlers.                                                     *)

\* handleDelete: 404 if there is nothing, and a temporary file is left alone.
Remove ==
    /\ final # 0
    /\ final' = 0
    /\ UNCHANGED <<temp, inodes, content, put, get, shared>>

\* handleDownload and HandleReplicate: os.ReadFile.
OpenRead(g) ==
    /\ get[g].phase = "idle"
    /\ get' = [get EXCEPT ![g] =
          [@ EXCEPT !.phase = IF final = 0 THEN "missing" ELSE "reading", !.fd = final]]
    /\ UNCHANGED <<temp, final, inodes, content, put, shared>>

ReadPiece(g) ==
    /\ get[g].phase = "reading"
    /\ get[g].next <= Pieces
    /\ get' = [get EXCEPT ![g].next = @ + 1,
                          ![g].seen = @ \cup ({get[g].next} \cap content[get[g].fd])]
    /\ UNCHANGED <<temp, final, inodes, content, put, shared>>

\* The bytes read, whatever they are, are hashed and answered for: 200.
ReadEnd(g) ==
    /\ get[g].phase = "reading"
    /\ get[g].next = Pieces + 1
    /\ get' = [get EXCEPT ![g].phase = "ok"]
    /\ UNCHANGED <<temp, final, inodes, content, put, shared>>

\* The process stops and starts again: Init makes the directories and removes nothing.
Crash ==
    /\ put' = [p \in Puts |-> IF p \in Busy THEN [put[p] EXCEPT !.phase = "lost"]
                              ELSE put[p]]
    /\ get' = [g \in Gets |-> IF get[g].phase = "reading"
                              THEN [get[g] EXCEPT !.phase = "lost"] ELSE get[g]]
    /\ UNCHANGED <<temp, final, inodes, content, shared>>

Next ==
    \/ \E p \in Puts : Open(p) \/ Write(p) \/ WriteFails(p) \/ Rename(p)
    \/ \E g \in Gets : OpenRead(g) \/ ReadPiece(g) \/ ReadEnd(g)
    \/ Remove
    \/ Crash

\* A handler that was started runs to its end as long as the process lives.
Fairness == \A p \in Puts : WF_vars(Write(p)) /\ WF_vars(Rename(p))

Spec     == Init /\ [][Next]_vars
FairSpec == Spec /\ Fairness

-----------------------------------------------------------------------------
(* Properties.                                                             *)

Whole(i) == content[i] = Parts

Chunk == IF final = 0 THEN "absent" ELSE IF Whole(final) THEN "whole" ELSE "torn"

\* A PUT that has the node to itself replaces the chunk in one step; PUTs that overlap
\* are the only ones that can tear it.
File == INSTANCE ChunkFile WITH chunk <- Chunk, busy <- Busy, shared <- shared

ImplementsChunkFile == File!Spec

\* As long as no PUTs have overlapped, a GET is never given part of a chunk, although
\* the chunk is replaced, deleted and half written next to it while it reads, and
\* earlier PUTs that failed or crashed left their temporary file behind.
ReadsAreWhole ==
    shared = {} =>
      \A g \in Gets : get[g].phase = "ok" => get[g].seen = Parts

\* PUTs of the same chunk may overlap in any way: once all have ended, none of them
\* by a failed write or a crash, the chunk is whole or deleted.
QuietIsWhole ==
    (\A p \in Puts : put[p].phase \in {"idle", "ok", "unmoved"}) => Chunk # "torn"

\* A torn chunk is whole or gone some time later, unless a PUT that was to mend it
\* failed or crashed.
TornIsMended ==
    Chunk = "torn" ~>
      Chunk # "torn" \/ \E p \in Puts : put[p].phase \in {"broken", "lost"}

=============================================================================
