---------------------------- MODULE NodeFiles_proofs ----------------------------
(***************************************************************************)
(* Theorems about NodeFiles, for any PUTs and GETs and any number of       *)
(* portions: its type, that GETs read whole chunks as long as PUTs do not  *)
(* overlap, that overlapping PUTs leave the chunk whole when all have      *)
(* ended well, and that it implements ChunkFile.                           *)
(*                                                                         *)
(* The invariant says who may be writing into which inode.  A PUT alone    *)
(* writes into the inode of the temporary name, which is never the one a   *)
(* reader has open; and into every inode some PUT has written all portions *)
(* it says it has written, because the last to open it emptied it.         *)
(***************************************************************************)
EXTENDS NodeFiles, FiniteSetTheorems, TLAPS

Opened == {p \in Puts : put[p].phase # "idle"}

\* An inode is made by a PUT that opens the temporary name.
InodesAreOpened == inodes <= Cardinality(Opened)

\* The names never lead to the same inode.
NamesDiffer == temp # 0 => final # temp

\* A PUT that has the node to itself writes into the temporary file, in order.
AloneInTemp ==
    \A p \in Puts :
      put[p].phase = "writing" /\ p \notin shared =>
        /\ Busy = {p}
        /\ temp # 0 /\ put[p].fd = temp
        /\ \A i \in Parts : i < put[p].next => i \in content[temp]

\* Readers have an inode open that the temporary name does not lead to.
ReadersApart ==
    \A g \in Gets : get[g].phase = "reading" => get[g].fd # 0 /\ get[g].fd # temp

\* Without overlap the chunk and what readers have open is whole.
WholeRead(g) ==
    /\ get[g].phase = "reading" => Whole(get[g].fd)
    /\ \A i \in Parts : i < get[g].next => i \in get[g].seen
    /\ get[g].phase = "ok" => get[g].next = Pieces + 1

WholeAlone ==
    shared = {} =>
      /\ final # 0 => Whole(final)
      /\ \A g \in Gets : WholeRead(g)

\* Every inode has a PUT all of whose portions so far it holds.
InodesHaveWriters ==
    /\ \A i \in Inode : i <= inodes =>
         \E p \in Puts :
           /\ put[p].phase # "idle" /\ put[p].fd = i
           /\ \A j \in Parts : j < put[p].next => j \in content[i]
    /\ \A p \in Puts : put[p].phase \in {"ok", "unmoved"} => put[p].next = Pieces + 1

FilesInv ==
    /\ TypeOK
    /\ InodesAreOpened
    /\ NamesDiffer
    /\ AloneInTemp
    /\ ReadersApart
    /\ WholeAlone
    /\ InodesHaveWriters

-----------------------------------------------------------------------------

LEMMA OpenedFinite == IsFiniteSet(Opened) /\ Cardinality(Opened) \in Nat
                      /\ Cardinality(Opened) <= Cardinality(Puts)
                      /\ Cardinality(Puts) \in Nat
<1>1. Opened \in SUBSET Puts
  BY DEF Opened
<1> QED BY <1>1, PutsAssumption, FS_Subset, FS_CardinalityType

\* As long as a PUT has not begun, there is room for the inode it may make.
LEMMA RoomForInode ==
    ASSUME TypeOK, InodesAreOpened, NEW p \in Puts, put[p].phase = "idle"
    PROVE  /\ inodes + 1 <= Cardinality(Puts)
           /\ Cardinality(Opened \cup {p}) = Cardinality(Opened) + 1
<1>1. p \notin Opened
  BY DEF Opened
<1>2. Cardinality(Opened \cup {p}) = Cardinality(Opened) + 1
  BY <1>1, OpenedFinite, FS_AddElement
<1>3. Opened \cup {p} \in SUBSET Puts
  BY DEF Opened
<1>4. Cardinality(Opened \cup {p}) <= Cardinality(Puts)
  BY <1>3, PutsAssumption, FS_Subset
<1> QED BY <1>2, <1>4, OpenedFinite DEF InodesAreOpened, TypeOK

LEMMA InodesInRange == TypeOK /\ InodesAreOpened => 1..inodes \subseteq Inode
BY OpenedFinite DEF TypeOK, InodesAreOpened, Inode

LEMMA FilesInit == Init => FilesInv
<1> SUFFICES ASSUME Init PROVE FilesInv
  OBVIOUS
<1>1. TypeOK
  BY PiecesAssumption DEF Init, TypeOK, PutPhase, GetPhase
<1>2. InodesAreOpened
  BY OpenedFinite DEF Init, InodesAreOpened
<1>3. NamesDiffer /\ AloneInTemp /\ ReadersApart
  BY DEF Init, NamesDiffer, AloneInTemp, ReadersApart
<1>4. WholeAlone
  BY DEF Init, WholeAlone, WholeRead, Parts
<1>5. InodesHaveWriters
  BY OpenedFinite DEF Init, InodesHaveWriters, Inode
<1> QED BY <1>1, <1>2, <1>3, <1>4, <1>5 DEF FilesInv

LEMMA TypeNext == TypeOK /\ InodesAreOpened /\ [Next]_vars => TypeOK' /\ InodesAreOpened'
<1> SUFFICES ASSUME TypeOK, InodesAreOpened, [Next]_vars
             PROVE  TypeOK' /\ InodesAreOpened'
  OBVIOUS
<1> USE PiecesAssumption DEF TypeOK, PutPhase, GetPhase
<1>0. ASSUME Opened' = Opened, inodes' = inodes
      PROVE  InodesAreOpened'
  BY <1>0 DEF InodesAreOpened
<1>1. ASSUME NEW p \in Puts, Open(p)
      PROVE  TypeOK' /\ InodesAreOpened'
  <2>1. put[p].phase = "idle"
    BY <1>1 DEF Open
  <2>2. inodes + 1 <= Cardinality(Puts) /\ Cardinality(Opened \cup {p}) = Cardinality(Opened) + 1
    BY <2>1, RoomForInode
  <2>3. inodes' \in Nat /\ inodes <= inodes' /\ inodes' <= inodes + 1 /\ temp' \in 1..inodes'
    BY <1>1 DEF Open
  <2>4. content' \in [Inode -> SUBSET Parts]
    BY <1>1 DEF Open
  <2>5. put' = [put EXCEPT ![p] = [phase |-> "writing", fd |-> temp', next |-> 1]]
    BY <1>1 DEF Open
  <2>6. put' \in [Puts -> [phase : PutPhase, fd : 0..inodes', next : 1..(Pieces + 1)]]
    BY <2>3, <2>5
  <2>7. get' \in [Gets -> [phase : GetPhase, fd : 0..inodes', next : 1..(Pieces + 1),
                           seen : SUBSET Parts]]
    BY <1>1, <2>3 DEF Open
  <2>8. shared' \in SUBSET Puts
    BY <1>1 DEF Open, Overlap, Busy
  <2>9. Opened' = Opened \cup {p}
    BY <2>5 DEF Opened
  <2>10. TypeOK'
    BY <1>1, <2>3, <2>4, <2>6, <2>7, <2>8 DEF Open
  <2> QED BY <2>2, <2>3, <2>9, <2>10, OpenedFinite DEF InodesAreOpened
<1>2. ASSUME NEW p \in Puts, Write(p)
      PROVE  TypeOK' /\ InodesAreOpened'
  <2>1. put[p].next \in Parts /\ put[p].next + 1 \in 1..(Pieces + 1)
    BY <1>2 DEF Write, Parts
  <2>2. content' \in [Inode -> SUBSET Parts]
    BY <1>2, <2>1 DEF Write
  <2>3. put' \in [Puts -> [phase : PutPhase, fd : 0..inodes, next : 1..(Pieces + 1)]]
    BY <1>2, <2>1 DEF Write
  <2>4. Opened' = Opened
    BY <1>2 DEF Write, Opened
  <2> QED BY <1>0, <1>2, <2>2, <2>3, <2>4 DEF Write
<1>3. ASSUME NEW p \in Puts, WriteFails(p) \/ Rename(p)
      PROVE  TypeOK' /\ InodesAreOpened'
  <2>1. put' \in [Puts -> [phase : PutPhase, fd : 0..inodes, next : 1..(Pieces + 1)]]
    BY <1>3 DEF WriteFails, Rename
  <2>2. Opened' = Opened
    BY <1>3 DEF WriteFails, Rename, Opened
  <2> QED BY <1>0, <1>3, <2>1, <2>2 DEF WriteFails, Rename
<1>4. ASSUME NEW g \in Gets, OpenRead(g) \/ ReadPiece(g) \/ ReadEnd(g)
      PROVE  TypeOK' /\ InodesAreOpened'
  <2>1. CASE OpenRead(g)
    <3>1. get' \in [Gets -> [phase : GetPhase, fd : 0..inodes, next : 1..(Pieces + 1),
                             seen : SUBSET Parts]]
      BY <2>1 DEF OpenRead
    <3> QED BY <1>0, <2>1, <3>1 DEF OpenRead, Opened
  <2>2. CASE ReadPiece(g)
    <3>1. get[g].next \in Parts /\ get[g].next + 1 \in 1..(Pieces + 1)
      BY <2>2 DEF ReadPiece, Parts
    <3>2. get[g].seen \cup ({get[g].next} \cap content[get[g].fd]) \in SUBSET Parts
      BY <3>1
    <3>3. get' \in [Gets -> [phase : GetPhase, fd : 0..inodes, next : 1..(Pieces + 1),
                             seen : SUBSET Parts]]
      BY <2>2, <3>1, <3>2 DEF ReadPiece
    <3> QED BY <1>0, <2>2, <3>3 DEF ReadPiece, Opened
  <2>3. CASE ReadEnd(g)
    <3>1. get' \in [Gets -> [phase : GetPhase, fd : 0..inodes, next : 1..(Pieces + 1),
                             seen : SUBSET Parts]]
      BY <2>3 DEF ReadEnd
    <3> QED BY <1>0, <2>3, <3>1 DEF ReadEnd, Opened
  <2> QED BY <1>4, <2>1, <2>2, <2>3
<1>5. CASE Remove
  BY <1>0, <1>5 DEF Remove, Opened
<1>6. CASE Crash
  <2>1. Opened' = Opened
    BY <1>6 DEF Crash, Opened, Busy
  <2> QED BY <1>0, <1>6, <2>1 DEF Crash
<1>7. CASE UNCHANGED vars
  BY <1>0, <1>7 DEF vars, Opened
<1> QED BY <1>1, <1>2, <1>3, <1>4, <1>5, <1>6, <1>7 DEF Next

-----------------------------------------------------------------------------

LEMMA AloneNext ==
    TypeOK /\ InodesAreOpened /\ NamesDiffer /\ AloneInTemp /\ [Next]_vars =>
      NamesDiffer' /\ AloneInTemp'
<1> SUFFICES ASSUME TypeOK, InodesAreOpened, NamesDiffer, AloneInTemp, [Next]_vars
             PROVE  NamesDiffer' /\ AloneInTemp'
  OBVIOUS
<1> USE PiecesAssumption DEF NamesDiffer, AloneInTemp
<1>1. ASSUME NEW p \in Puts, Open(p)
      PROVE  NamesDiffer' /\ AloneInTemp'
  <2>1. temp' # 0 /\ (temp # 0 => temp' = temp) /\ (temp = 0 => temp' = inodes + 1)
        /\ content' = [content EXCEPT ![temp'] = {}]
        /\ final' = final
    BY <1>1 DEF Open, TypeOK
  <2>2. NamesDiffer'
    BY <2>1 DEF TypeOK
  <2>3. put' = [put EXCEPT ![p] = [phase |-> "writing", fd |-> temp', next |-> 1]]
    BY <1>1 DEF Open
  <2>4. Busy' = Busy \cup {p} /\ Busy \subseteq Puts
    BY <2>3 DEF Busy, TypeOK
  <2>5. shared' = IF Busy = {} THEN shared ELSE shared \cup Busy \cup {p}
    BY <1>1 DEF Open, Overlap
  <2>6. ASSUME NEW q \in Puts, (put[q].phase = "writing" /\ q \notin shared)'
        PROVE  q = p /\ Busy = {}
    BY <2>4, <2>5, <2>6 DEF Busy
  <2>7. AloneInTemp'
    <3> SUFFICES ASSUME NEW q \in Puts, (put[q].phase = "writing" /\ q \notin shared)'
                 PROVE  /\ Busy' = {q}
                        /\ temp' # 0 /\ put'[q].fd = temp'
                        /\ \A i \in Parts : i < put'[q].next => i \in content'[temp']
      OBVIOUS
    <3>1. q = p /\ Busy' = {q}
      BY <2>4, <2>6
    <3>2. put'[q].fd = temp' /\ put'[q].next = 1
      BY <2>3, <3>1 DEF TypeOK
    <3> QED BY <2>1, <3>1, <3>2 DEF Parts
  <2> QED BY <2>2, <2>7
<1>2. ASSUME NEW p \in Puts, Write(p)
      PROVE  NamesDiffer' /\ AloneInTemp'
  <2>1. Busy' = Busy
    BY <1>2 DEF Write, Busy, TypeOK
  <2>2. AloneInTemp'
    <3> SUFFICES ASSUME NEW q \in Puts, (put[q].phase = "writing" /\ q \notin shared)'
                 PROVE  /\ Busy' = {q}
                        /\ temp' # 0 /\ put'[q].fd = temp'
                        /\ \A i \in Parts : i < put'[q].next => i \in content'[temp']
      OBVIOUS
    <3>1. put[q].phase = "writing" /\ q \notin shared /\ p \in Busy
      BY <1>2 DEF Write, Busy, TypeOK
    <3>2. q = p /\ Busy = {q} /\ temp # 0 /\ put[p].fd = temp
          /\ \A i \in Parts : i < put[p].next => i \in content[temp]
      BY <3>1
    <3>3. content'[temp] = content[temp] \cup {put[p].next}
      BY <1>2, <3>2, InodesInRange DEF Write, TypeOK
    <3>4. put'[p].next = put[p].next + 1 /\ put'[p].fd = temp /\ temp' = temp
      BY <1>2, <3>2 DEF Write, TypeOK
    <3>5. put[p].next \in Nat
      BY DEF TypeOK
    <3>6. \A i \in Parts : i < put[p].next + 1 => i \in content'[temp]
      BY <3>2, <3>3, <3>5 DEF Parts
    <3> QED BY <2>1, <3>2, <3>4, <3>6
  <2> QED BY <1>2, <2>2 DEF Write
<1>3. ASSUME NEW p \in Puts, WriteFails(p) \/ Rename(p)
      PROVE  NamesDiffer' /\ AloneInTemp'
  <2>1. NamesDiffer'
    BY <1>3 DEF WriteFails, Rename
  <2>2. \A q \in Puts : put'[q].phase = "writing" => q # p /\ put[q].phase = "writing"
    BY <1>3 DEF WriteFails, Rename, TypeOK
  <2>3. p \in Busy /\ shared' = shared
    BY <1>3 DEF WriteFails, Rename, Busy
  <2>4. \A q \in Puts : put'[q].phase = "writing" => q \in shared
    BY <2>2, <2>3
  <2> QED BY <2>1, <2>3, <2>4
<1>4. ASSUME NEW g \in Gets, OpenRead(g) \/ ReadPiece(g) \/ ReadEnd(g)
      PROVE  NamesDiffer' /\ AloneInTemp'
  BY <1>4 DEF OpenRead, ReadPiece, ReadEnd, Busy
<1>5. CASE Remove
  BY <1>5 DEF Remove, Busy
<1>6. CASE Crash
  <2>1. \A q \in Puts : put'[q].phase # "writing"
    BY <1>6 DEF Crash, Busy, TypeOK
  <2> QED BY <1>6, <2>1 DEF Crash
<1>7. CASE UNCHANGED vars
  BY <1>7 DEF vars, Busy
<1> QED BY <1>1, <1>2, <1>3, <1>4, <1>5, <1>6, <1>7 DEF Next

-----------------------------------------------------------------------------

\* A step leaves the inode of every reader and of the chunk alone, as long as no PUTs
\* have overlapped.
LEMMA ContentAlone ==
    ASSUME TypeOK, InodesAreOpened, AloneInTemp, [Next]_vars, shared = {},
           NEW i \in 1..inodes, i # temp
    PROVE  content'[i] = content[i]
<1> USE DEF TypeOK
<1>1. i \in Inode
  BY InodesInRange
<1>2. ASSUME NEW p \in Puts, Open(p)
      PROVE  content'[i] = content[i]
  <2>1. content' = [content EXCEPT ![temp'] = {}] /\ temp' # i
    BY <1>2 DEF Open
  <2> QED BY <1>1, <2>1
<1>3. ASSUME NEW p \in Puts, Write(p)
      PROVE  content'[i] = content[i]
  <2>1. put[p].phase = "writing" /\ p \notin shared
    BY <1>3 DEF Write
  <2>2. put[p].fd = temp
    BY <2>1 DEF AloneInTemp
  <2> QED BY <1>1, <1>3, <2>2 DEF Write
<1>4. ASSUME UNCHANGED content
      PROVE  content'[i] = content[i]
  BY <1>4
<1> QED BY <1>2, <1>3, <1>4 DEF Next, WriteFails, Rename, OpenRead, ReadPiece, ReadEnd,
                               Remove, Crash, vars

LEMMA SharedGrows == TypeOK /\ [Next]_vars => shared \subseteq shared'
BY DEF TypeOK, Next, Open, Overlap, Write, WriteFails, Rename, OpenRead, ReadPiece,
       ReadEnd, Remove, Crash, vars

LEMMA ReadersNext ==
    ASSUME TypeOK, NamesDiffer, ReadersApart, [Next]_vars
    PROVE  ReadersApart'
<1> USE DEF TypeOK, ReadersApart
<1>1. ASSUME NEW p \in Puts, Open(p)
      PROVE  ReadersApart'
  <2>1. get' = get /\ (temp' = temp \/ temp' = inodes + 1)
    BY <1>1 DEF Open
  <2> QED BY <2>1
<1>2. ASSUME NEW p \in Puts, Write(p) \/ WriteFails(p) \/ Rename(p)
      PROVE  ReadersApart'
  BY <1>2 DEF Write, WriteFails, Rename
<1>3. ASSUME NEW g \in Gets, OpenRead(g)
      PROVE  ReadersApart'
  BY <1>3 DEF OpenRead, NamesDiffer
<1>4. ASSUME NEW g \in Gets, ReadPiece(g) \/ ReadEnd(g)
      PROVE  ReadersApart'
  BY <1>4 DEF ReadPiece, ReadEnd
<1>5. CASE Remove
  BY <1>5 DEF Remove
<1>6. CASE Crash
  BY <1>6 DEF Crash
<1>7. CASE UNCHANGED vars
  BY <1>7 DEF vars
<1> QED BY <1>1, <1>2, <1>3, <1>4, <1>5, <1>6, <1>7 DEF Next

LEMMA WholeNext ==
    ASSUME TypeOK, InodesAreOpened, NamesDiffer, AloneInTemp, ReadersApart, WholeAlone,
           [Next]_vars
    PROVE  WholeAlone'
<1> SUFFICES ASSUME shared' = {}
             PROVE  (final' # 0 => Whole(final)') /\ \A g \in Gets : WholeRead(g)'
  BY DEF WholeAlone
<1>0. shared = {}
  BY SharedGrows
<1>1. \A i \in 1..inodes : i # temp => content'[i] = content[i]
  BY <1>0, ContentAlone
<1>2. final # 0 => /\ Whole(final) /\ content'[final] = content[final]
  BY <1>0, <1>1 DEF WholeAlone, NamesDiffer, TypeOK
<1>3. \A g \in Gets : WholeRead(g)
  BY <1>0 DEF WholeAlone
<1>4. \A g \in Gets : get[g].phase = "reading" =>
                         Whole(get[g].fd) /\ content'[get[g].fd] = content[get[g].fd]
  BY <1>1, <1>3 DEF WholeRead, ReadersApart, TypeOK
<1>5. \A g \in Gets : get'[g] = get[g] => WholeRead(g)'
  BY <1>3, <1>4 DEF WholeRead, Whole
<1>6. final' = final => (final' # 0 => Whole(final)')
  BY <1>2 DEF Whole
<1>7. ASSUME NEW p \in Puts, Open(p) \/ Write(p) \/ WriteFails(p)
      PROVE  (final' # 0 => Whole(final)') /\ \A g \in Gets : WholeRead(g)'
  <2>1. final' = final /\ get' = get
    BY <1>7 DEF Open, Write, WriteFails
  <2> QED BY <1>5, <1>6, <2>1
<1>8. ASSUME NEW p \in Puts, Rename(p)
      PROVE  (final' # 0 => Whole(final)') /\ \A g \in Gets : WholeRead(g)'
  <2>1. put[p].phase = "writing" /\ put[p].next = Pieces + 1 /\ p \notin shared
    BY <1>0, <1>8 DEF Rename
  <2>2. temp # 0 /\ \A i \in Parts : i < Pieces + 1 => i \in content[temp]
    BY <2>1 DEF AloneInTemp
  <2>3. temp \in Inode
    BY <2>2, InodesInRange DEF TypeOK
  <2>4. content[temp] = Parts
    <3>1. content[temp] \in SUBSET Parts
      BY <2>3 DEF TypeOK
    <3>2. \A i \in Parts : i < Pieces + 1
      BY PiecesAssumption DEF Parts
    <3> QED BY <2>2, <3>1, <3>2
  <2>5. final' = temp /\ content' = content /\ get' = get
    BY <1>8, <2>2 DEF Rename
  <2> QED BY <1>5, <2>4, <2>5 DEF Whole
<1>9. ASSUME NEW g \in Gets, OpenRead(g)
      PROVE  (final' # 0 => Whole(final)') /\ \A h \in Gets : WholeRead(h)'
  <2>1. /\ get'[g].phase = (IF final = 0 THEN "missing" ELSE "reading")
        /\ get'[g].fd = final /\ get'[g].next = get[g].next
        /\ get'[g].seen = get[g].seen
        /\ \A h \in Gets : h # g => get'[h] = get[h]
    BY <1>9 DEF OpenRead, TypeOK
  <2>2. final' = final /\ content' = content
    BY <1>9 DEF OpenRead
  <2>3. WholeRead(g)'
    BY <1>2, <1>3, <2>1, <2>2 DEF WholeRead, Whole
  <2> QED BY <1>5, <1>6, <2>1, <2>2, <2>3
<1>10. ASSUME NEW g \in Gets, ReadPiece(g)
       PROVE  (final' # 0 => Whole(final)') /\ \A h \in Gets : WholeRead(h)'
  <2>1. /\ get'[g].phase = "reading" /\ get[g].phase = "reading"
        /\ get'[g].fd = get[g].fd /\ get'[g].next = get[g].next + 1
        /\ get'[g].seen = get[g].seen \cup ({get[g].next} \cap content[get[g].fd])
        /\ \A h \in Gets : h # g => get'[h] = get[h]
    BY <1>10 DEF ReadPiece, TypeOK
  <2>2. final' = final /\ content' = content
    BY <1>10 DEF ReadPiece
  <2>3. content[get[g].fd] = Parts /\ get[g].next \in Nat
    BY <1>4, <2>1 DEF Whole, TypeOK
  <2>4. \A i \in Parts : i < get[g].next + 1 => i \in get'[g].seen
    BY <1>3, <2>1, <2>3 DEF WholeRead, Parts
  <2>5. WholeRead(g)'
    BY <2>1, <2>2, <2>3, <2>4 DEF WholeRead, Whole
  <2> QED BY <1>5, <1>6, <2>1, <2>2, <2>5
<1>11. ASSUME NEW g \in Gets, ReadEnd(g)
       PROVE  (final' # 0 => Whole(final)') /\ \A h \in Gets : WholeRead(h)'
  <2>1. /\ get'[g].phase = "ok" /\ get[g].next = Pieces + 1
        /\ get'[g].next = get[g].next /\ get'[g].seen = get[g].seen
        /\ \A h \in Gets : h # g => get'[h] = get[h]
    BY <1>11 DEF ReadEnd, TypeOK
  <2>2. final' = final
    BY <1>11 DEF ReadEnd
  <2>3. WholeRead(g)'
    BY <1>3, <2>1 DEF WholeRead
  <2> QED BY <1>5, <1>6, <2>1, <2>2, <2>3
<1>12. CASE Remove
  <2>1. final' = 0 /\ get' = get
    BY <1>12 DEF Remove
  <2> QED BY <1>5, <2>1
<1>13. CASE Crash
  <2>1. final' = final
    BY <1>13 DEF Crash
  <2>2. \A g \in Gets : get'[g] = get[g] \/ get'[g] = [get[g] EXCEPT !.phase = "lost"]
    BY <1>13 DEF Crash
  <2>3. ASSUME NEW g \in Gets, get'[g] = [get[g] EXCEPT !.phase = "lost"]
        PROVE  WholeRead(g)'
    <3>1. get'[g].phase = "lost" /\ get'[g].next = get[g].next /\ get'[g].seen = get[g].seen
      BY <2>3 DEF TypeOK
    <3> QED BY <1>3, <3>1 DEF WholeRead
  <2> QED BY <1>5, <1>6, <2>1, <2>2, <2>3
<1>14. CASE UNCHANGED vars
  BY <1>5, <1>6, <1>14 DEF vars
<1> QED BY <1>7, <1>8, <1>9, <1>10, <1>11, <1>12, <1>13, <1>14 DEF Next

-----------------------------------------------------------------------------

\* A PUT that holds the portions it has written of inode i.
Holds(p, i) ==
    /\ put[p].phase # "idle" /\ put[p].fd = i
    /\ \A j \in Parts : j < put[p].next => j \in content[i]

LEMMA NextOrBelow == \A j \in Parts, n \in Nat : j < n + 1 => j < n \/ j = n
BY DEF Parts

LEMMA WritersNext ==
    ASSUME TypeOK, InodesAreOpened, InodesHaveWriters, [Next]_vars
    PROVE  InodesHaveWriters'
<1> USE DEF TypeOK
<1>1. \A i \in Inode : i <= inodes => \E p \in Puts : Holds(p, i)
  BY DEF InodesHaveWriters, Holds
<1>2. SUFFICES /\ \A i \in Inode : i <= inodes' => \E p \in Puts : Holds(p, i)'
               /\ \A p \in Puts : put'[p].phase \in {"ok", "unmoved"}
                                   => put'[p].next = Pieces + 1
  BY DEF InodesHaveWriters, Holds
<1>3. \A p \in Puts : put[p].phase \in {"ok", "unmoved"} => put[p].next = Pieces + 1
  BY DEF InodesHaveWriters
<1>4. ASSUME inodes' = inodes, content' = content,
             \A p \in Puts : /\ put'[p].fd = put[p].fd /\ put'[p].next = put[p].next
                             /\ put[p].phase # "idle" => put'[p].phase # "idle"
      PROVE  \A i \in Inode : i <= inodes' => \E p \in Puts : Holds(p, i)'
  BY <1>1, <1>4 DEF Holds
<1>5. ASSUME NEW p \in Puts, Open(p)
      PROVE  /\ \A i \in Inode : i <= inodes' => \E q \in Puts : Holds(q, i)'
             /\ \A q \in Puts : put'[q].phase \in {"ok", "unmoved"}
                                 => put'[q].next = Pieces + 1
  <2>1. /\ put' = [put EXCEPT ![p] = [phase |-> "writing", fd |-> temp', next |-> 1]]
        /\ content' = [content EXCEPT ![temp'] = {}]
        /\ put[p].phase = "idle"
        /\ \/ temp # 0 /\ temp' = temp /\ inodes' = inodes
           \/ temp' = inodes + 1 /\ inodes' = inodes + 1
    BY <1>5 DEF Open
  <2>2. Holds(p, temp)'
    <3>1. temp' \in Inode
      <4>1. CASE temp' = temp /\ temp # 0
        BY <4>1, InodesInRange
      <4>2. CASE temp' = inodes + 1
        <5>1. inodes + 1 <= Cardinality(Puts)
          BY <2>1, RoomForInode
        <5> QED BY <4>2, <5>1, OpenedFinite DEF Inode
      <4> QED BY <2>1, <4>1, <4>2
    <3>2. put'[p] = [phase |-> "writing", fd |-> temp', next |-> 1] /\ content'[temp'] = {}
      BY <2>1, <3>1
    <3> QED BY <3>2 DEF Holds, Parts
  <2>3. ASSUME NEW i \in Inode, i <= inodes', i # temp'
        PROVE  \E q \in Puts : Holds(q, i)'
    <3>1. i <= inodes
      BY <2>1, <2>3 DEF Inode
    <3>2. PICK q \in Puts : Holds(q, i)
      BY <1>1, <3>1
    <3>3. q # p /\ put'[q] = put[q] /\ content'[i] = content[i]
      BY <2>1, <2>3, <3>2 DEF Holds
    <3> QED BY <3>2, <3>3 DEF Holds
  <2>4. \A q \in Puts : put'[q].phase \in {"ok", "unmoved"} => put'[q].next = Pieces + 1
    BY <1>3, <2>1
  <2>5. ASSUME NEW i \in Inode, i <= inodes', i = temp'
        PROVE  \E q \in Puts : Holds(q, i)'
    BY <2>2, <2>5 DEF Holds
  <2> QED BY <2>3, <2>4, <2>5
<1>6. ASSUME NEW p \in Puts, Write(p)
      PROVE  /\ \A i \in Inode : i <= inodes' => \E q \in Puts : Holds(q, i)'
             /\ \A q \in Puts : put'[q].phase \in {"ok", "unmoved"}
                                 => put'[q].next = Pieces + 1
  <2>1. /\ put[p].phase = "writing" /\ put'[p].phase = "writing"
        /\ put'[p].fd = put[p].fd /\ put'[p].next = put[p].next + 1
        /\ \A q \in Puts : q # p => put'[q] = put[q]
        /\ inodes' = inodes
    BY <1>6 DEF Write
  <2>2. \A i \in Inode : /\ content[i] \subseteq content'[i]
                         /\ put[p].fd = i => put[p].next \in content'[i]
    <3>1. content' = [content EXCEPT ![put[p].fd] = content[put[p].fd] \cup {put[p].next}]
      BY <1>6 DEF Write
    <3> QED BY <3>1
  <2>3. put[p].next \in Nat
    OBVIOUS
  <2>4. ASSUME NEW i \in Inode, i <= inodes
        PROVE  \E q \in Puts : Holds(q, i)'
    <3>1. PICK q \in Puts : Holds(q, i)
      BY <1>1, <2>4
    <3>2. CASE q # p
      BY <2>1, <2>2, <3>1, <3>2 DEF Holds
    <3>3. CASE q = p
      <4>1. \A j \in Parts : j < put[p].next + 1 => j < put[p].next \/ j = put[p].next
        BY <2>3, NextOrBelow
      <4>2. \A j \in Parts : j < put[p].next + 1 => j \in content'[i]
        BY <2>2, <3>1, <3>3, <4>1 DEF Holds
      <4> QED BY <2>1, <3>1, <3>3, <4>2 DEF Holds
    <3> QED BY <3>2, <3>3
  <2> QED BY <1>3, <2>1, <2>4
<1>7. ASSUME NEW p \in Puts, WriteFails(p) \/ Rename(p)
      PROVE  /\ \A i \in Inode : i <= inodes' => \E q \in Puts : Holds(q, i)'
             /\ \A q \in Puts : put'[q].phase \in {"ok", "unmoved"}
                                 => put'[q].next = Pieces + 1
  <2>1. /\ put'[p].fd = put[p].fd /\ put'[p].next = put[p].next
        /\ put'[p].phase \in {"broken", "unmoved", "ok"}
        /\ put'[p].phase # "broken" => put[p].next = Pieces + 1
        /\ \A q \in Puts : q # p => put'[q] = put[q]
        /\ inodes' = inodes /\ content' = content
    BY <1>7 DEF WriteFails, Rename
  <2> QED BY <1>3, <1>4, <2>1
<1>8. CASE Crash
  <2>1. \A q \in Puts : \/ put'[q] = put[q]
                        \/ q \in Busy /\ put'[q] = [put[q] EXCEPT !.phase = "lost"]
    BY <1>8 DEF Crash
  <2>2. \A q \in Puts : /\ put'[q].fd = put[q].fd /\ put'[q].next = put[q].next
                        /\ put'[q].phase \in {put[q].phase, "lost"}
    BY <2>1
  <2> QED BY <1>3, <1>4, <1>8, <2>2 DEF Crash
<1>9. ASSUME UNCHANGED <<inodes, content, put>>
      PROVE  /\ \A i \in Inode : i <= inodes' => \E q \in Puts : Holds(q, i)'
             /\ \A q \in Puts : put'[q].phase \in {"ok", "unmoved"}
                                 => put'[q].next = Pieces + 1
  BY <1>3, <1>4, <1>9
<1> QED BY <1>5, <1>6, <1>7, <1>8, <1>9 DEF Next, OpenRead, ReadPiece, ReadEnd, Remove, vars

-----------------------------------------------------------------------------

LEMMA FilesNext == FilesInv /\ [Next]_vars => FilesInv'
BY TypeNext, AloneNext, ReadersNext, WholeNext, WritersNext DEF FilesInv

\* Every variable keeps its type: no more inodes than PUTs, no portion beyond the last.
THEOREM FilesTypeCorrect == Spec => []TypeOK
<1>1. FilesInv => TypeOK
  BY DEF FilesInv
<1> QED BY <1>1, FilesInit, FilesNext, PTL DEF Spec

\* As long as no PUTs have overlapped, a GET that was answered was given the whole
\* chunk, whatever was written, moved, removed or left behind by a crash next to it.
THEOREM ReadsHold == Spec => []ReadsAreWhole
<1>1. FilesInv => ReadsAreWhole
  <2> SUFFICES ASSUME FilesInv, shared = {}, NEW g \in Gets, get[g].phase = "ok"
               PROVE  get[g].seen = Parts
    BY DEF ReadsAreWhole
  <2>1. /\ \A i \in Parts : i < get[g].next => i \in get[g].seen
        /\ get[g].next = Pieces + 1
    BY DEF FilesInv, WholeAlone, WholeRead
  <2>2. \A i \in Parts : i < Pieces + 1
    BY PiecesAssumption DEF Parts
  <2>3. get[g].seen \in SUBSET Parts
    BY DEF FilesInv, TypeOK
  <2> QED BY <2>1, <2>2, <2>3
<1> QED BY <1>1, FilesInit, FilesNext, PTL DEF Spec

\* Overlapping PUTs that all end well leave the chunk whole or deleted: the last of
\* them to open an inode has written all of it.
THEOREM QuietHolds == Spec => []QuietIsWhole
<1>1. FilesInv => QuietIsWhole
  <2> SUFFICES ASSUME FilesInv, final # 0,
                      \A p \in Puts : put[p].phase \in {"idle", "ok", "unmoved"}
               PROVE  Whole(final)
    BY DEF QuietIsWhole, Chunk
  <2>1. final \in Inode /\ final <= inodes
    BY InodesInRange DEF FilesInv, TypeOK
  <2>2. PICK p \in Puts : /\ put[p].phase # "idle"
                          /\ \A j \in Parts : j < put[p].next => j \in content[final]
    BY <2>1 DEF FilesInv, InodesHaveWriters
  <2>3. put[p].next = Pieces + 1
    BY <2>2 DEF FilesInv, InodesHaveWriters
  <2>4. \A j \in Parts : j < Pieces + 1
    BY PiecesAssumption DEF Parts
  <2>5. content[final] \in SUBSET Parts
    BY <2>1 DEF FilesInv, TypeOK
  <2> QED BY <2>2, <2>3, <2>4, <2>5 DEF Whole
<1> QED BY <1>1, FilesInit, FilesNext, PTL DEF Spec

-----------------------------------------------------------------------------
(* The refinement of ChunkFile.                                            *)

LEMMA ChunkFileInit == Init => File!Init
BY DEF Init, File!Init, Chunk, Busy

LEMMA ChunkFileNext == FilesInv /\ [Next]_vars => [File!Next]_(File!cvars)
<1> SUFFICES ASSUME FilesInv, [Next]_vars PROVE [File!Next]_(File!cvars)
  OBVIOUS
<1>0. TypeOK /\ InodesAreOpened /\ NamesDiffer /\ AloneInTemp
  BY DEF FilesInv
<1>1. ASSUME NEW p \in Puts, Open(p)
      PROVE  File!Begin(p)
  <2>1. p \notin Busy /\ Busy' = Busy \cup {p}
    BY <1>0, <1>1 DEF Open, Busy, TypeOK
  <2>2. shared' = IF Busy = {} THEN shared ELSE shared \cup Busy'
    BY <1>1, <2>1 DEF Open, Overlap
  <2>3. final' = final /\ (final # 0 => content'[final] = content[final])
    <3>1. content' = [content EXCEPT ![temp'] = {}] /\ final' = final
          /\ (temp' = temp \/ temp' = inodes + 1) /\ temp' # 0
      BY <1>0, <1>1 DEF Open, TypeOK
    <3>2. final # 0 => final # temp'
      BY <1>0, <3>1 DEF NamesDiffer, TypeOK
    <3>3. final # 0 => final \in Inode
      BY <1>0, InodesInRange DEF TypeOK
    <3> QED BY <1>0, <3>1, <3>2, <3>3 DEF TypeOK
  <2>4. Chunk' = Chunk
    BY <2>3 DEF Chunk, Whole
  <2> QED BY <2>1, <2>2, <2>4 DEF File!Begin
<1>2. ASSUME NEW p \in Puts, Write(p)
      PROVE  File!Mend \/ UNCHANGED File!cvars
  <2>1. p \in Busy /\ Busy' = Busy /\ shared' = shared /\ final' = final
    BY <1>0, <1>2 DEF Write, Busy, TypeOK
  <2>2. CASE p \in shared
    <3>1. final # 0 => content[final] \subseteq content'[final] /\ content[final] \subseteq Parts
                       /\ content'[final] \subseteq Parts
      <4>1. final # 0 => final \in Inode
        BY <1>0, InodesInRange DEF TypeOK
      <4>2. content' = [content EXCEPT ![put[p].fd] = content[put[p].fd] \cup {put[p].next}]
            /\ put[p].next \in Parts
        BY <1>0, <1>2 DEF Write, TypeOK, Parts
      <4> QED BY <1>0, <4>1, <4>2 DEF TypeOK
    <3>2. Chunk' = Chunk \/ (Chunk = "torn" /\ Chunk' = "whole")
      <4>1. final # 0 /\ content[final] = Parts => content'[final] = Parts
        BY <3>1
      <4> QED BY <2>1, <4>1 DEF Chunk, Whole
    <3>3. Busy \cap shared # {}
      BY <2>1, <2>2
    <3>4. CASE Chunk' = Chunk
      BY <2>1, <3>4 DEF File!cvars
    <3>5. CASE Chunk = "torn" /\ Chunk' = "whole"
      BY <2>1, <3>3, <3>5 DEF File!Mend
    <3> QED BY <3>2, <3>4, <3>5
  <2>3. CASE p \notin shared
    <3>1. put[p].fd = temp /\ temp # 0
      BY <1>0, <2>1, <2>3 DEF AloneInTemp, Busy
    <3>2. final # 0 => final \in Inode /\ final # temp
      BY <1>0, <3>1, InodesInRange DEF TypeOK, NamesDiffer
    <3>3. final # 0 => content'[final] = content[final]
      BY <1>0, <1>2, <3>1, <3>2 DEF Write, TypeOK
    <3>4. Chunk' = Chunk
      BY <2>1, <3>3 DEF Chunk, Whole
    <3> QED BY <2>1, <3>4 DEF File!cvars
  <2> QED BY <2>2, <2>3
<1>3. ASSUME NEW failed \in SUBSET Busy, Busy' = Busy \ failed,
             UNCHANGED <<final, content, shared>>
      PROVE  File!GiveUp
  BY <1>3 DEF File!GiveUp, Chunk, Whole
<1>4. ASSUME NEW p \in Puts, WriteFails(p)
      PROVE  File!GiveUp
  <2>1. Busy' = Busy \ {p} /\ {p} \in SUBSET Busy
    BY <1>0, <1>4 DEF WriteFails, Busy, TypeOK
  <2> QED BY <1>3, <1>4, <2>1 DEF WriteFails
<1>5. ASSUME NEW p \in Puts, Rename(p)
      PROVE  File!GiveUp \/ File!Publish(p)
  <2>1. p \in Busy /\ Busy' = Busy \ {p} /\ shared' = shared /\ content' = content
    BY <1>0, <1>5 DEF Rename, Busy, TypeOK
  <2>2. CASE temp = 0
    <3>1. final' = final /\ {p} \in SUBSET Busy
      BY <1>5, <2>1, <2>2 DEF Rename
    <3> QED BY <1>3, <2>1, <3>1
  <2>3. CASE temp # 0
    <3>1. final' = temp
      BY <1>5, <2>3 DEF Rename
    <3>2. Chunk' \in {"whole", "torn"}
      BY <2>3, <3>1 DEF Chunk
    <3>3. p \notin shared => Chunk' = "whole"
      <4> SUFFICES ASSUME p \notin shared PROVE content[temp] = Parts
        BY <2>1, <2>3, <3>1 DEF Chunk, Whole
      <4>1. \A i \in Parts : i < Pieces + 1 => i \in content[temp]
        BY <1>0, <1>5, <2>1 DEF Rename, AloneInTemp, Busy
      <4>2. \A i \in Parts : i < Pieces + 1
        BY PiecesAssumption DEF Parts
      <4>3. content[temp] \in SUBSET Parts
        BY <1>0, <2>3, InodesInRange DEF TypeOK
      <4> QED BY <4>1, <4>2, <4>3
    <3> QED BY <2>1, <3>2, <3>3 DEF File!Publish
  <2> QED BY <2>2, <2>3
<1>6. CASE Remove
  <2>1. Chunk' = "absent" /\ Busy' = Busy /\ shared' = shared
    BY <1>6 DEF Remove, Chunk, Busy
  <2> QED BY <2>1 DEF File!Next, File!Remove
<1>7. CASE Crash
  <2>1. Busy' = {}
    BY <1>0, <1>7 DEF Crash, Busy, TypeOK
  <2>2. Busy \in SUBSET Busy /\ Busy' = Busy \ Busy
    BY <2>1
  <2> QED BY <1>3, <1>7, <2>2 DEF Crash, File!Next
<1>8. ASSUME UNCHANGED <<final, content, put, shared>>
      PROVE  UNCHANGED File!cvars
  BY <1>8 DEF File!cvars, Chunk, Whole, Busy
<1> QED BY <1>1, <1>2, <1>4, <1>5, <1>6, <1>7, <1>8
        DEF Next, File!Next, OpenRead, ReadPiece, ReadEnd, vars

\* A PUT that has the node to itself replaces the chunk in one step; a torn chunk takes
\* PUTs that overlapped, and only those can mend it.
THEOREM NodeImplementsChunkFile == Spec => ImplementsChunkFile
BY FilesInit, FilesNext, ChunkFileInit, ChunkFileNext, PTL
   DEF Spec, ImplementsChunkFile, File!Spec

\* A torn chunk takes PUTs that overlapped: with one PUT at a time, neither a failed
\* write nor a crash nor a deletion makes readers find part of a chunk.
THEOREM AloneIsAtomic == Spec => []File!AtomicWhenAlone
<1>1. File!Init => File!AtomicWhenAlone
  BY DEF File!Init, File!AtomicWhenAlone
<1>2. ASSUME File!AtomicWhenAlone, [File!Next]_(File!cvars)
      PROVE  File!AtomicWhenAlone'
  <2>1. ASSUME NEW p \in Puts, File!Begin(p)
        PROVE  shared' = {} => shared = {} /\ Chunk' = Chunk
    BY <2>1 DEF File!Begin
  <2>2. ASSUME NEW p \in Puts, File!Publish(p)
        PROVE  shared' = {} => Chunk' = "whole"
    BY <2>2 DEF File!Publish
  <2>3. ASSUME File!Mend \/ File!Remove
        PROVE  Chunk' \in {"whole", "absent"}
    BY <2>3 DEF File!Mend, File!Remove
  <2>4. ASSUME File!GiveUp \/ UNCHANGED File!cvars
        PROVE  shared' = shared /\ Chunk' = Chunk
    BY <2>4 DEF File!GiveUp, File!cvars
  <2> QED
    BY <1>2, <2>1, <2>2, <2>3, <2>4 DEF File!Next, File!AtomicWhenAlone
<1> QED
  BY <1>1, <1>2, NodeImplementsChunkFile, PTL DEF ImplementsChunkFile, File!Spec
=============================================================================
