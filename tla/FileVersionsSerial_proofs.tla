----------------------- MODULE FileVersionsSerial_proofs -----------------------
(***************************************************************************)
(* Proofs about FileVersions when the handlers of a file run one at a time *)
(* (overlapping ones break NumbersIncrease), for any number of requests,   *)
(* any limit of versions, and a server that stops at any point; and that   *)
(* the limit of versions outlives overlapping handlers.                    *)
(***************************************************************************)
EXTENDS FileVersions_proofs

-----------------------------------------------------------------------------
(* What more holds when handlers run one at a time.                        *)

Single ==
    \A p, q \in Requests :
      req[p].phase \in InHandler /\ req[q].phase \in InHandler => p = q

Dropping == {r \in Requests : req[r].phase \in {"drop", "finish"}}

FileInv ==
    /\ ~file.known => file = NoFile
    /\ ~dbFile.known => dbFile = NoFile
    /\ (\A q \in Requests : req[q].kind = "none") => file = NoFile /\ dbFile = NoFile
    /\ \A r \in Requests :
         req[r].phase \in {"numbered", "drop", "finish", "saveFile", "saveVersion"}
           => file.known

Increasing(s) == \A i, j \in DOMAIN s : i < j => s[i].num < s[j].num

UpToLatest(s) == \A v \in ToSet(s) : v.num <= file.latest

\* The list, and the one that is to replace it.
NumbersInv ==
    ~(restarted /\ Used("deleteFile")) =>
      /\ Increasing(versions) /\ UpToLatest(versions)
      /\ versions # <<>> => file.known
      /\ \A r \in Requests :
           /\ req[r].phase = "numbered" => req[r].ver.num = file.latest + 1
           /\ req[r].phase \in {"drop", "finish", "saveFile", "saveVersion"}
                /\ req[r].kind \in Makers => req[r].ver.num = file.latest
           /\ r \in Dropping => Increasing(req[r].keep) /\ UpToLatest(req[r].keep)

\* What a restart will load.
SavedNumbersInv ==
    ~Used("deleteFile") =>
      /\ \A v, w \in dbVersions : v.id < w.id => v.num < w.num
      /\ \A v \in dbVersions : v.num <= dbFile.latest
      /\ dbVersions # {} => dbFile.known
      /\ dbFile.latest <= file.latest
      /\ \A r \in Requests : req[r].phase \in InHandler /\ req[r].kind \in Makers =>
           \A v \in dbVersions \ {req[r].ver} :
             v.num < req[r].ver.num /\ v.id < req[r].ver.id
      /\ \A r \in Requests :
           req[r].phase = "saveVersion" => req[r].ver.num <= dbFile.latest /\ dbFile.known

RetentionInv ==
    /\ ~restarted /\ Dropping = {} => Len(versions) <= MaxVersions
    /\ \A r \in Dropping :
         req[r].kind \in {"create", "rollback"} \/ ~restarted
           => Len(req[r].keep) <= MaxVersions
    /\ \A r \in Requests :
         req[r].kind \in {"create", "rollback"} /\ req[r].phase \in {"saveFile", "saveVersion"}
           => Len(versions) <= MaxVersions
    /\ \A r \in Requests : req[r].kind = "meta" =>
         /\ r \notin Dropping
         /\ req[r].phase = "numbered" => versions = <<>>

CountInv ==
    ~restarted =>
      /\ Dropping = {} => file.count = Len(versions)
      /\ \A r \in Dropping : req[r].kind # "deleteFile" =>
           file.count = Len(req[r].todo) + Len(req[r].keep)

\* A version is in the part to drop or in the part to keep.
SplitInv ==
    \A r \in Dropping :
      /\ Distinct(req[r].todo)
      /\ ToSet(req[r].todo) \cap ToSet(req[r].keep) = {}

Uploaders == {"create", "meta"}

\* Whose chunks a version lists.
DataInv ==
    /\ \A r \in Requests :
         /\ r \in stored => req[r].phase # "idle" /\ req[r].kind \in Uploaders \cup {"none"}
         /\ req[r].phase = "uploaded" => r \in stored
    /\ \A q \in Made :
         /\ req[q].kind \in Uploaders => req[q].ver.data = q
         /\ req[req[q].ver.data].kind \in Uploaders

Shared(d) == \E q \in Requests : req[q].kind = "rollback" /\ req[q].ver.data = d

\* The versions that will be left: the list, or its two parts.
Current(v) ==
    \/ Dropping = {} /\ v \in ToSet(versions)
    \/ \E r \in Dropping : v \in ToSet(req[r].todo) \cup ToSet(req[r].keep)

ChunksInv ==
    ~restarted =>
      /\ \A r \in stored : req[r].kind \in Uploaders /\ req[r].phase # "numbered" =>
           \E v \in MadeVersions : Current(v) /\ v.data = r
      /\ \A v \in MadeVersions : Current(v) => v.data \in stored \/ Shared(v.data)
      /\ \A r \in Requests : req[r].phase = "numbered" =>
           req[r].ver.data \in stored \/ Shared(req[r].ver.data)

-----------------------------------------------------------------------------
(* What a step does to the request it serves and to the file.              *)

\* r moves and no other handler is at work.
Alone(r) ==
    \A q \in Requests : q # r => req'[q] = req[q] /\ req[q].phase \notin InHandler

\* How the progress of r changes.
Moves(r, kind, phase, ver, todo, keep) ==
    /\ req'[r].kind = kind /\ req'[r].phase = phase /\ req'[r].ver = ver
    /\ req'[r].todo = todo /\ req'[r].keep = keep
    /\ \A q \in Requests : q # r => req'[q] = req[q]

\* A step inside a handler, or one that waited for quiet, is alone.
LEMMA AloneIf ==
    ASSUME NEW r \in Requests, Single, ~Overlap,
           \A q \in Requests : q # r => req'[q] = req[q],
           req[r].phase \in InHandler \/ Overlap \/ Quiet
    PROVE  Alone(r)
  BY DEF Single, Quiet, Alone

\* The start of a handler that makes a version.
LEMMA CreateFacts ==
    ASSUME BaseInv, Single, ~Overlap, NEW r \in Requests, CreateVersion(r)
    PROVE  /\ Alone(r) /\ req[r].phase = "uploaded" /\ req[r].kind = "none"
           /\ req[r].ver = NoVersion
           /\ Moves(r, "create", "numbered", NextVersion(file', r), <<>>, <<>>)
           /\ file' = (IF file.known THEN file ELSE NewFile)
           /\ UNCHANGED <<versions, dbFile, dbVersions, stored, restarted>>
<1>1. TypeOK /\ PhaseAt(req[r])
  BY DEF BaseInv, PhaseInv
<1>2. /\ req[r].phase = "uploaded" /\ (Overlap \/ Quiet)
      /\ file' = (IF file.known THEN file ELSE NewFile)
      /\ UNCHANGED <<versions, dbFile, dbVersions, stored, restarted>>
  BY DEF CreateVersion, Admit
<1>3. Moves(r, "create", "numbered", NextVersion(file', r), req[r].todo, req[r].keep)
  BY <1>1, CreateEffect DEF Becomes, Moves
<1>4. /\ req[r].todo = <<>> /\ req[r].keep = <<>> /\ req[r].kind = "none"
      /\ req[r].ver = NoVersion
  BY <1>1, <1>2 DEF PhaseAt, Makers
<1> QED
  BY <1>2, <1>3, <1>4, AloneIf DEF Moves

\* CreateFileMeta is the first request of its file: nothing is listed or saved.
LEMMA MetaFacts ==
    ASSUME BaseInv, Single, ~Overlap, NEW r \in Requests, CreateFileMeta(r)
    PROVE  /\ Alone(r) /\ req[r].phase = "uploaded" /\ req[r].kind = "none"
           /\ req[r].ver = NoVersion
           /\ Moves(r, "meta", "numbered", NextVersion(NewFile, r), <<>>, <<>>)
           /\ \A q \in Requests : req[q].kind = "none"
           /\ file' = NewFile
           /\ UNCHANGED <<versions, dbFile, dbVersions, stored, restarted>>
           /\ versions = <<>> /\ dbVersions = {}
<1>1. TypeOK /\ PhaseAt(req[r])
  BY DEF BaseInv, PhaseInv
<1>2. /\ req[r].phase = "uploaded" /\ (Overlap \/ Quiet) /\ file' = NewFile
      /\ \A q \in Requests : req[q].kind = "none"
      /\ UNCHANGED <<versions, dbFile, dbVersions, stored, restarted>>
  BY DEF CreateFileMeta, Admit
<1>3. Moves(r, "meta", "numbered", NextVersion(NewFile, r), req[r].todo, req[r].keep)
  BY <1>1, MetaEffect DEF Becomes, Moves
<1>4. /\ req[r].todo = <<>> /\ req[r].keep = <<>> /\ req[r].kind = "none"
      /\ req[r].ver = NoVersion
  BY <1>1, <1>2 DEF PhaseAt, Makers
<1>5. MadeVersions = {}
  BY <1>2 DEF BaseInv, PhaseInv, PhaseAt, Makers, MadeVersions, Made
<1>6. ToSet(versions) = {} /\ dbVersions = {} /\ versions \in Seq(Version)
  BY <1>1, <1>5 DEF BaseInv, ListsInv, TypeOK
<1>7. versions = <<>>
  BY <1>6, EmptySeq, ElementOfSeq, LenProperties DEF ToSet
<1> QED
  BY <1>2, <1>3, <1>4, <1>6, <1>7, AloneIf DEF Moves

\* RollbackFile lists the chunks of a version that is listed.
LEMMA RollbackFacts ==
    ASSUME BaseInv, Single, ~Overlap, NEW r \in Requests,
           NEW num \in 1..Cardinality(Requests), RollbackFile(r, num)
    PROVE  /\ Alone(r) /\ req[r].phase = "idle" /\ req[r].kind = "none"
           /\ req[r].ver = NoVersion /\ file.known
           /\ \E v \in ToSet(versions) :
                Moves(r, "rollback", "numbered", NextVersion(file, v.data), <<>>, <<>>)
           /\ UNCHANGED <<file, versions, dbFile, dbVersions, stored, restarted>>
<1>1. TypeOK /\ PhaseAt(req[r])
  BY DEF BaseInv, PhaseInv
<1>2. /\ req[r].phase = "idle" /\ (Overlap \/ Quiet) /\ file.known /\ Find(num) # 0
      /\ UNCHANGED <<file, versions, dbFile, dbVersions, stored, restarted>>
  BY DEF RollbackFile, Admit
<1>3. PICK k \in 1..Len(versions) : k = Find(num)
  BY <1>1, <1>2, FindFinds DEF TypeOK
<1>4. Moves(r, "rollback", "numbered", NextVersion(file, versions[k].data), req[r].todo,
            req[r].keep)
  BY <1>1, <1>3, RollbackEffect DEF Becomes, Moves
<1>5. /\ req[r].todo = <<>> /\ req[r].keep = <<>> /\ req[r].kind = "none"
      /\ req[r].ver = NoVersion
  BY <1>1, <1>2 DEF PhaseAt, Makers
<1>6. versions[k] \in ToSet(versions)
  BY <1>1, <1>3, LenProperties DEF ToSet, TypeOK
<1>7. Moves(r, "rollback", "numbered", NextVersion(file, versions[k].data), <<>>, <<>>)
  BY <1>4, <1>5
<1> QED
  BY <1>2, <1>5, <1>6, <1>7, AloneIf DEF Moves

\* The start of a handler that deletes.
LEMMA DeleteVersionFacts ==
    ASSUME BaseInv, Single, ~Overlap, NEW r \in Requests,
           NEW num \in 1..Cardinality(Requests), DeleteVersion(r, num)
    PROVE  /\ Alone(r) /\ req[r].phase = "idle" /\ req[r].kind = "none"
           /\ req[r].ver = NoVersion /\ file.known
           /\ \E k \in 1..Len(versions) :
                Moves(r, "deleteVersion", "drop", NoVersion,
                      <<versions[k]>>, RemoveAt(versions, k))
           /\ UNCHANGED <<file, versions, dbFile, dbVersions, stored, restarted>>
<1>1. TypeOK /\ PhaseAt(req[r])
  BY DEF BaseInv, PhaseInv
<1>2. /\ req[r].phase = "idle" /\ (Overlap \/ Quiet) /\ file.known /\ Find(num) # 0
      /\ UNCHANGED <<file, versions, dbFile, dbVersions, stored, restarted>>
  BY DEF DeleteVersion, Admit
<1>3. PICK k \in 1..Len(versions) : k = Find(num)
  BY <1>1, <1>2, FindFinds DEF TypeOK
<1>4. req[r].kind = "none" /\ req[r].ver = NoVersion
  BY <1>1, <1>2 DEF PhaseAt, Makers
<1>5. Moves(r, "deleteVersion", "drop", NoVersion, <<versions[k]>>, RemoveAt(versions, k))
  BY <1>1, <1>3, <1>4, DeleteVersionEffect DEF Becomes, Moves
<1> QED
  BY <1>2, <1>4, <1>5, AloneIf DEF Moves

\* DeleteFile drops the whole list.
LEMMA DeleteFileFacts ==
    ASSUME BaseInv, Single, ~Overlap, NEW r \in Requests, DeleteFile(r)
    PROVE  /\ Alone(r) /\ req[r].phase = "idle" /\ req[r].kind = "none"
           /\ req[r].ver = NoVersion /\ file.known
           /\ Moves(r, "deleteFile", IF versions = <<>> THEN "finish" ELSE "drop",
                    NoVersion, versions, <<>>)
           /\ UNCHANGED <<file, versions, dbFile, dbVersions, stored, restarted>>
<1>1. TypeOK /\ PhaseAt(req[r])
  BY DEF BaseInv, PhaseInv
<1>2. /\ req[r].phase = "idle" /\ (Overlap \/ Quiet) /\ file.known
      /\ UNCHANGED <<file, versions, dbFile, dbVersions, stored, restarted>>
  BY DEF DeleteFile, Admit
<1>3. req[r].kind = "none" /\ req[r].ver = NoVersion /\ req[r].keep = <<>>
  BY <1>1, <1>2 DEF PhaseAt, Makers
<1>4. Moves(r, "deleteFile", IF versions = <<>> THEN "finish" ELSE "drop",
            NoVersion, versions, <<>>)
  BY <1>1, <1>3, DeleteFileEffect DEF Becomes, Moves
<1> QED
  BY <1>2, <1>3, <1>4, AloneIf DEF Moves

\* A version enters the list, which is cut after drop versions.
Appends(r, drop, todo, keep) ==
    /\ drop = Excess(req[r].kind, Len(versions) + 1)
    /\ Alone(r) /\ req[r].phase = "numbered" /\ req[r].kind \in Makers
    /\ req[r].ver \in Version /\ req[r].ver \in MadeVersions
    /\ req[r].ver \notin ToSet(versions)
    /\ Moves(r, req[r].kind, IF drop > 0 THEN "drop" ELSE "saveFile", req[r].ver,
             todo, keep)
    /\ drop \in 0..Len(versions) /\ Len(versions') = Len(versions) + 1
    /\ todo \in Seq(Version) /\ keep \in Seq(Version)
    /\ Len(todo) = drop /\ Len(keep) = Len(versions) + 1 - drop
    /\ \A i \in 1..Len(keep) : keep[i] = versions'[drop + i]
    /\ ToSet(todo) \cup ToSet(keep) = ToSet(versions')
    /\ ToSet(todo) \cap ToSet(keep) = {} /\ Distinct(todo)
    /\ ToSet(versions') = ToSet(versions) \cup {req[r].ver}
    /\ versions' \in Seq(Version) /\ Distinct(versions')
    /\ drop = 0 => versions' = Append(versions, req[r].ver)
    /\ drop > 0 => \A i, j \in DOMAIN versions' : i < j =>
         \/ versions'[i].num < versions'[j].num
         \/ versions'[i].num = versions'[j].num /\ versions'[i].id < versions'[j].id
    /\ file'.known = file.known /\ file'.latest = req[r].ver.num
    /\ file'.count = file.count + 1
    /\ UNCHANGED <<dbFile, dbVersions, stored, restarted>>

\* AppendVersion cuts the list so.
LEMMA AppendCut ==
    ASSUME BaseInv, Single, ~Overlap, NEW r \in Requests, AppendVersion(r),
           NEW drop, drop = Excess(req[r].kind, Len(versions) + 1),
           NEW todo, todo = SubSeq(versions', 1, drop),
           NEW keep, keep = SubSeq(versions', drop + 1, Len(versions'))
    PROVE  Appends(r, drop, todo, keep)
<1>1. TypeOK /\ PhaseAt(req[r]) /\ Len(versions) \in Nat
  BY LenProperties DEF BaseInv, PhaseInv, TypeOK
<1>2. /\ Becomes(r, req[r].kind, IF drop > 0 THEN "drop" ELSE "saveFile", req[r].ver,
                 todo, keep)
      /\ req[r].phase = "numbered" /\ req[r].ver \in Version
      /\ drop \in 0..Len(versions)
      /\ versions' \in Seq(Version) /\ Len(versions') = Len(versions) + 1
      /\ ToSet(versions') = ToSet(versions) \cup {req[r].ver} /\ Distinct(versions')
      /\ drop = 0 => versions' = Append(versions, req[r].ver)
      /\ drop > 0 => \A i, j \in DOMAIN versions' : i < j =>
           \/ versions'[i].num < versions'[j].num
           \/ versions'[i].num = versions'[j].num /\ versions'[i].id < versions'[j].id
  BY AppendEffect
<1>3. drop \in 0..Len(versions') /\ Len(versions') - drop = Len(versions) + 1 - drop
  BY <1>1, <1>2
<1>4. /\ todo \in Seq(Version) /\ keep \in Seq(Version) /\ Len(todo) = drop
      /\ Len(keep) = Len(versions) + 1 - drop
      /\ \A i \in 1..Len(keep) : keep[i] = versions'[drop + i]
      /\ ToSet(todo) \cup ToSet(keep) = ToSet(versions')
      /\ ToSet(todo) \cap ToSet(keep) = {} /\ Distinct(todo)
  <2>1. PICK s \in Seq(Version) : s = versions'
    BY <1>2
  <2>2. /\ drop \in 0..Len(s) /\ Distinct(s)
        /\ todo = SubSeq(s, 1, drop) /\ keep = SubSeq(s, drop + 1, Len(s))
    BY <1>2, <1>3, <2>1
  <2>3. /\ todo \in Seq(Version) /\ keep \in Seq(Version) /\ Len(todo) = drop
        /\ Len(keep) = Len(s) - drop
        /\ \A i \in 1..(Len(s) - drop) : keep[i] = s[drop + i]
        /\ ToSet(todo) \cup ToSet(keep) = ToSet(s)
        /\ ToSet(todo) \cap ToSet(keep) = {} /\ Distinct(todo)
    <3> DEFINE a == SubSeq(s, 1, drop)
               b == SubSeq(s, drop + 1, Len(s))
    <3>1. /\ a \in Seq(Version) /\ b \in Seq(Version) /\ Len(a) = drop
          /\ Len(b) = Len(s) - drop
          /\ \A i \in 1..(Len(s) - drop) : b[i] = s[drop + i]
          /\ ToSet(a) \cup ToSet(b) = ToSet(s)
          /\ Distinct(a) /\ ToSet(a) \cap ToSet(b) = {}
      BY <2>1, <2>2, CutList
    <3> QED
      BY <2>2, <3>1
  <2> QED
    BY <1>3, <2>1, <2>3
<1>5. /\ req[r].kind \in Makers /\ req[r].ver \in MadeVersions
      /\ req[r].ver \notin ToSet(versions)
  BY <1>1, <1>2, ShownInv DEF PhaseAt, MadeVersions, Made
<1>6. /\ file' = [file EXCEPT !.latest = req[r].ver.num, !.count = @ + 1]
      /\ UNCHANGED <<dbFile, dbVersions, stored, restarted>>
  BY DEF AppendVersion
<1>7. /\ file'.known = file.known /\ file'.latest = req[r].ver.num
      /\ file'.count = file.count + 1
  BY <1>1, <1>6 DEF TypeOK, FileInfo
<1>8. Alone(r)
  BY <1>2, AloneIf DEF Becomes, InHandler
<1>9. Moves(r, req[r].kind, IF drop > 0 THEN "drop" ELSE "saveFile", req[r].ver, todo, keep)
  BY <1>2 DEF Becomes, Moves
<1> QED
  BY <1>2, <1>4, <1>5, <1>6, <1>7, <1>8, <1>9 DEF Appends

\* The same, of a list cut somewhere.
LEMMA AppendFacts ==
    ASSUME BaseInv, Single, ~Overlap, NEW r \in Requests, AppendVersion(r)
    PROVE  \E drop, todo, keep : Appends(r, drop, todo, keep)
  BY AppendCut

\* The rest of the handlers.
LEMMA DropFacts ==
    ASSUME BaseInv, Single, ~Overlap, NEW r \in Requests, DropChunks(r),
           NEW todo, todo = Tail(req[r].todo)
    PROVE  /\ Alone(r) /\ req[r].phase = "drop" /\ req[r].todo # <<>>
           /\ Moves(r, req[r].kind, IF todo = <<>> THEN "finish" ELSE "drop", req[r].ver,
                    todo, req[r].keep)
           /\ todo \in Seq(Version) /\ Len(req[r].todo) = Len(todo) + 1
           /\ ToSet(req[r].todo) = ToSet(todo) \cup {Head(req[r].todo)}
           /\ Distinct(req[r].todo) => Distinct(todo) /\ Head(req[r].todo) \notin ToSet(todo)
           /\ stored' = stored \ {Head(req[r].todo).data}
           /\ file'.known = file.known /\ file'.latest = file.latest
           /\ file'.count = (IF req[r].kind = "deleteFile" THEN file.count ELSE file.count - 1)
           /\ file = NoFile /\ req[r].kind = "deleteFile" => file' = NoFile
           /\ UNCHANGED <<versions, dbFile, dbVersions, restarted>>
<1>1. TypeOK /\ PhaseAt(req[r])
  BY DEF BaseInv, PhaseInv
<1>2. /\ req[r].phase = "drop" /\ stored' = stored \ {Head(req[r].todo).data}
      /\ file' = (IF req[r].kind = "deleteFile" THEN file ELSE [file EXCEPT !.count = @ - 1])
      /\ UNCHANGED <<versions, dbFile, dbVersions, restarted>>
  BY DEF DropChunks
<1>3. Moves(r, req[r].kind, IF todo = <<>> THEN "finish" ELSE "drop", req[r].ver,
            todo, req[r].keep)
  BY <1>1, DropEffect DEF Becomes, Moves
<1>4. req[r].todo # <<>>
  BY <1>1, <1>2 DEF PhaseAt
<1>5. /\ todo \in Seq(Version) /\ Len(req[r].todo) = Len(todo) + 1
      /\ ToSet(req[r].todo) = ToSet(todo) \cup {Head(req[r].todo)}
      /\ Distinct(req[r].todo) => Distinct(todo) /\ Head(req[r].todo) \notin ToSet(todo)
  BY <1>1, <1>4, RequestShape, HeadTailList
<1>6. /\ file'.known = file.known /\ file'.latest = file.latest
      /\ file'.count = (IF req[r].kind = "deleteFile" THEN file.count ELSE file.count - 1)
  BY <1>1, <1>2 DEF TypeOK, FileInfo
<1>7. Alone(r)
  BY <1>2, <1>3, AloneIf DEF Moves, InHandler
<1> QED
  BY <1>2, <1>3, <1>4, <1>5, <1>6, <1>7

\* InstallList ends the dropping.
LEMMA InstallFacts ==
    ASSUME BaseInv, Single, ~Overlap, NEW r \in Requests, InstallList(r)
    PROVE  /\ Alone(r) /\ req[r].phase = "finish" /\ req[r].todo = <<>>
           /\ req[r].kind \in {"create", "meta", "rollback", "deleteVersion", "deleteFile"}
           /\ Moves(r, req[r].kind,
                    IF req[r].kind = "deleteFile" THEN "unsave" ELSE "saveFile",
                    req[r].ver, <<>>, <<>>)
           /\ versions' = req[r].keep
           /\ file' = (IF req[r].kind = "deleteFile" THEN NoFile ELSE file)
           /\ UNCHANGED <<dbFile, dbVersions, stored, restarted>>
<1>1. TypeOK /\ PhaseAt(req[r])
  BY DEF BaseInv, PhaseInv
<1>2. /\ req[r].phase = "finish" /\ versions' = req[r].keep
      /\ file' = (IF req[r].kind = "deleteFile" THEN NoFile ELSE file)
      /\ UNCHANGED <<dbFile, dbVersions, stored, restarted>>
  BY DEF InstallList
<1>3. req[r].todo = <<>> /\ req[r].kind # "none"
  BY <1>1, <1>2 DEF PhaseAt
<1>4. req[r].kind \in {"create", "meta", "rollback", "deleteVersion", "deleteFile"}
  BY <1>1, <1>3, RequestShape, KindsAssumption DEF AllKinds
<1>5. Moves(r, req[r].kind, IF req[r].kind = "deleteFile" THEN "unsave" ELSE "saveFile",
            req[r].ver, <<>>, <<>>)
  BY <1>1, <1>3, InstallEffect DEF Becomes, Moves
<1>6. Alone(r)
  BY <1>2, <1>5, AloneIf DEF Moves, InHandler
<1> QED
  BY <1>2, <1>3, <1>4, <1>5, <1>6

\* SaveFile writes the file as it is.
LEMMA SaveFileFacts ==
    ASSUME BaseInv, Single, ~Overlap, NEW r \in Requests, SaveFile(r)
    PROVE  /\ Alone(r) /\ req[r].phase = "saveFile" /\ req[r].todo = <<>>
           /\ req[r].kind \in Makers \/ req[r].kind = "deleteVersion"
           /\ Moves(r, req[r].kind,
                    IF req[r].kind = "deleteVersion" THEN "done" ELSE "saveVersion",
                    req[r].ver, <<>>, <<>>)
           /\ dbFile' = file
           /\ UNCHANGED <<file, versions, dbVersions, stored, restarted>>
<1>1. TypeOK /\ PhaseAt(req[r])
  BY DEF BaseInv, PhaseInv
<1>2. /\ req[r].phase = "saveFile" /\ dbFile' = file
      /\ UNCHANGED <<file, versions, dbVersions, stored, restarted>>
  BY DEF SaveFile
<1>3. req[r].todo = <<>> /\ req[r].kind # "none" /\ req[r].kind # "deleteFile"
  BY <1>1, <1>2 DEF PhaseAt
<1>4. req[r].kind \in Makers \/ req[r].kind = "deleteVersion"
  BY <1>1, <1>3, RequestShape, KindsAssumption DEF AllKinds, Makers
<1>5. Moves(r, req[r].kind, IF req[r].kind = "deleteVersion" THEN "done" ELSE "saveVersion",
            req[r].ver, <<>>, <<>>)
  BY <1>1, <1>3, SaveFileEffect DEF Becomes, Moves
<1>6. Alone(r)
  BY <1>2, <1>5, AloneIf DEF Moves, InHandler
<1> QED
  BY <1>2, <1>3, <1>4, <1>5, <1>6

\* SaveVersion writes a version that was made.
LEMMA SaveVersionFacts ==
    ASSUME BaseInv, Single, ~Overlap, NEW r \in Requests, SaveVersion(r)
    PROVE  /\ Alone(r) /\ req[r].phase = "saveVersion" /\ req[r].kind \in Makers
           /\ req[r].ver \in Version /\ req[r].ver \in MadeVersions
           /\ Moves(r, req[r].kind, "done", req[r].ver, <<>>, <<>>)
           /\ dbVersions' = dbVersions \cup {req[r].ver}
           /\ UNCHANGED <<file, versions, dbFile, stored, restarted>>
<1>1. TypeOK /\ PhaseAt(req[r])
  BY DEF BaseInv, PhaseInv
<1>2. /\ req[r].phase = "saveVersion" /\ dbVersions' = dbVersions \cup {req[r].ver}
      /\ UNCHANGED <<file, versions, dbFile, stored, restarted>>
  BY DEF SaveVersion
<1>3. /\ req[r].todo = <<>> /\ req[r].keep = <<>> /\ req[r].kind \in Makers
      /\ req[r].ver # NoVersion
  BY <1>1, <1>2 DEF PhaseAt
<1>4. req[r].ver \in Version /\ req[r].ver \in MadeVersions
  BY <1>1, <1>3, RequestShape DEF MadeVersions, Made
<1>5. Moves(r, req[r].kind, "done", req[r].ver, <<>>, <<>>)
  BY <1>1, <1>3, SaveVersionEffect DEF Becomes, Moves
<1>6. Alone(r)
  BY <1>2, <1>5, AloneIf DEF Moves, InHandler
<1> QED
  BY <1>2, <1>3, <1>4, <1>5, <1>6

\* UnsaveFile ends deleteFile.
LEMMA UnsaveFacts ==
    ASSUME BaseInv, Single, ~Overlap, NEW r \in Requests, UnsaveFile(r)
    PROVE  /\ Alone(r) /\ req[r].phase = "unsave" /\ req[r].kind = "deleteFile"
           /\ Moves(r, req[r].kind, "done", req[r].ver, <<>>, <<>>)
           /\ dbFile' = NoFile
           /\ UNCHANGED <<file, versions, dbVersions, stored, restarted>>
<1>1. TypeOK /\ PhaseAt(req[r])
  BY DEF BaseInv, PhaseInv
<1>2. /\ req[r].phase = "unsave" /\ dbFile' = NoFile
      /\ UNCHANGED <<file, versions, dbVersions, stored, restarted>>
  BY DEF UnsaveFile
<1>3. req[r].todo = <<>> /\ req[r].keep = <<>> /\ req[r].kind = "deleteFile"
  BY <1>1, <1>2 DEF PhaseAt
<1>4. Moves(r, req[r].kind, "done", req[r].ver, <<>>, <<>>)
  BY <1>1, <1>3, UnsaveEffect DEF Becomes, Moves
<1>5. Alone(r)
  BY <1>2, <1>4, AloneIf DEF Moves, InHandler
<1> QED
  BY <1>2, <1>3, <1>4, <1>5

\* Upload stores chunks and touches nothing else.
LEMMA UploadFacts ==
    ASSUME BaseInv, NEW r \in Requests, Upload(r)
    PROVE  /\ req[r].phase = "idle" /\ req[r].kind = "none"
           /\ Moves(r, "none", "uploaded", req[r].ver, <<>>, <<>>)
           /\ stored' = stored \cup {r}
           /\ UNCHANGED <<file, versions, dbFile, dbVersions, restarted>>
<1>1. TypeOK /\ PhaseAt(req[r])
  BY DEF BaseInv, PhaseInv
<1>2. /\ req[r].phase = "idle" /\ stored' = stored \cup {r}
      /\ UNCHANGED <<file, versions, dbFile, dbVersions, restarted>>
  BY DEF Upload
<1>3. req[r].todo = <<>> /\ req[r].keep = <<>> /\ req[r].kind = "none"
  BY <1>1, <1>2 DEF PhaseAt
<1>4. Moves(r, "none", "uploaded", req[r].ver, <<>>, <<>>)
  BY <1>1, <1>3, UploadEffect DEF Becomes, Moves
<1> QED
  BY <1>2, <1>3, <1>4

\* After a restart no handler is at work.
LEMMA RestartFacts ==
    ASSUME BaseInv, Restart
    PROVE  /\ \A q \in Requests : req'[q].kind = req[q].kind /\ req'[q].ver = req[q].ver
           /\ \A q \in Requests : req'[q].phase =
                IF req[q].phase \in InHandler THEN "aborted" ELSE req[q].phase
           /\ \A q \in Requests : req'[q].phase \notin InHandler
           /\ versions' = InOrder(dbVersions, ById(dbVersions))
           /\ file' = dbFile /\ restarted'
           /\ UNCHANGED <<dbFile, dbVersions, stored>>
<1>1. ASSUME NEW q \in Requests
      PROVE  /\ req'[q].kind = req[q].kind /\ req'[q].ver = req[q].ver
             /\ req'[q].phase = IF req[q].phase \in InHandler THEN "aborted" ELSE req[q].phase
  BY RequestShape DEF Restart, BaseInv, Request
<1>2. \A q \in Requests : req'[q].phase \notin InHandler
  BY <1>1 DEF InHandler
<1> QED
  BY <1>1, <1>2 DEF Restart

-----------------------------------------------------------------------------
(* One handler at a time, and a file that is known while one is at work.   *)

\* The steps of the handler of r.
HandlerStep(r) ==
    \/ CreateVersion(r) \/ CreateFileMeta(r)
    \/ \E num \in 1..Cardinality(Requests) : RollbackFile(r, num) \/ DeleteVersion(r, num)
    \/ AppendVersion(r) \/ DeleteFile(r) \/ DropChunks(r) \/ InstallList(r)
    \/ SaveFile(r) \/ SaveVersion(r) \/ UnsaveFile(r)

\* Every step is one of these.
LEMMA StepCases ==
    ASSUME [Next]_vars
    PROVE  \/ \E r \in Requests : Upload(r) \/ HandlerStep(r)
           \/ Restart
           \/ UNCHANGED vars
  BY DEF Next, HandlerStep

\* A step of a handler is the only one under way.
LEMMA HandlerAlone ==
    ASSUME BaseInv, Single, ~Overlap, NEW r \in Requests, HandlerStep(r)
    PROVE  Alone(r)
<1>1. CASE AppendVersion(r)
  BY <1>1, AppendFacts DEF Appends
<1>2. CASE DropChunks(r)
  <2>1. PICK todo : todo = Tail(req[r].todo)
    OBVIOUS
  <2> QED
    BY <1>2, <2>1, DropFacts
<1>3. CASE CreateVersion(r) \/ CreateFileMeta(r) \/ DeleteFile(r)
  BY <1>3, CreateFacts, MetaFacts, DeleteFileFacts
<1>4. CASE \E num \in 1..Cardinality(Requests) : RollbackFile(r, num) \/ DeleteVersion(r, num)
  BY <1>4, RollbackFacts, DeleteVersionFacts
<1>5. CASE InstallList(r) \/ SaveFile(r) \/ SaveVersion(r) \/ UnsaveFile(r)
  BY <1>5, InstallFacts, SaveFileFacts, SaveVersionFacts, UnsaveFacts
<1> QED
  BY <1>1, <1>2, <1>3, <1>4, <1>5 DEF HandlerStep

\* Every step leaves at most one handler at work.
LEMMA SingleNext ==
    ASSUME BaseInv, Single, ~Overlap, [Next]_vars
    PROVE  Single'
<1>1. ASSUME NEW r \in Requests, HandlerStep(r)
      PROVE  Single'
  BY <1>1, HandlerAlone DEF Alone, Single
<1>2. ASSUME NEW r \in Requests, Upload(r)
      PROVE  Single'
  <2>1. /\ req'[r].phase = "uploaded" /\ \A q \in Requests : q # r => req'[q] = req[q]
    BY <1>2, UploadFacts DEF Moves
  <2> QED
    BY <2>1 DEF Single, InHandler
<1>3. CASE Restart
  BY <1>3, RestartFacts DEF Single
<1>4. CASE UNCHANGED vars
  BY <1>4 DEF vars, Single
<1> QED
  BY <1>1, <1>2, <1>3, <1>4, StepCases

\* Every step preserves FileInv.
LEMMA FileNext ==
    ASSUME BaseInv, Single, FileInv, ~Overlap, [Next]_vars
    PROVE  FileInv'
<1>1. /\ ~NewFile.known => FALSE
      /\ NewFile.known
  BY DEF NewFile
<1>2. /\ file \in FileInfo /\ dbFile \in FileInfo
      /\ \A q \in Requests : PhaseAt(req[q])
  BY DEF BaseInv, TypeOK, PhaseInv
<1>3. ASSUME NEW r \in Requests, Upload(r)
      PROVE  FileInv'
  BY <1>3, UploadFacts DEF FileInv, Moves
<1>4. ASSUME NEW r \in Requests, CreateVersion(r)
      PROVE  FileInv'
  BY <1>1, <1>4, CreateFacts DEF FileInv, Alone, Moves, InHandler
<1>5. ASSUME NEW r \in Requests, CreateFileMeta(r)
      PROVE  FileInv'
  BY <1>1, <1>5, MetaFacts DEF FileInv, Alone, Moves, InHandler
<1>6. ASSUME NEW r \in Requests, NEW num \in 1..Cardinality(Requests),
             RollbackFile(r, num) \/ DeleteVersion(r, num)
      PROVE  FileInv'
  <2>1. /\ Alone(r) /\ file.known /\ req'[r].kind # "none"
        /\ UNCHANGED <<file, versions, dbFile, dbVersions, stored, restarted>>
    BY <1>6, RollbackFacts, DeleteVersionFacts DEF Moves
  <2> QED
    BY <2>1 DEF FileInv, Alone, InHandler
<1>7. ASSUME NEW r \in Requests, DeleteFile(r)
      PROVE  FileInv'
  BY <1>7, DeleteFileFacts DEF FileInv, Alone, Moves, InHandler
<1>8. ASSUME NEW r \in Requests, AppendVersion(r)
      PROVE  FileInv'
  <2>1. /\ Alone(r) /\ req[r].phase = "numbered" /\ req[r].kind \in Makers
        /\ file'.known = file.known /\ dbFile' = dbFile
        /\ \E phase, todo, keep : Moves(r, req[r].kind, phase, req[r].ver, todo, keep)
    BY <1>8, AppendFacts DEF Appends
  <2> QED
    BY <2>1 DEF FileInv, Alone, Moves, InHandler, Makers
<1>9. ASSUME NEW r \in Requests, DropChunks(r)
      PROVE  FileInv'
  <2>1. PICK todo : todo = Tail(req[r].todo)
    OBVIOUS
  <2>2. /\ Alone(r) /\ req[r].phase = "drop" /\ req'[r].kind = req[r].kind
        /\ file'.known = file.known /\ dbFile' = dbFile
    BY <1>9, <2>1, DropFacts DEF Moves
  <2>3. file.known /\ req[r].kind # "none"
    BY <1>2, <2>2 DEF FileInv, PhaseAt
  <2> QED
    BY <2>2, <2>3 DEF FileInv, Alone, InHandler
<1>10. ASSUME NEW r \in Requests, InstallList(r)
       PROVE  FileInv'
  BY <1>10, InstallFacts DEF FileInv, Alone, Moves, InHandler
<1>11. ASSUME NEW r \in Requests, SaveFile(r)
       PROVE  FileInv'
  BY <1>11, SaveFileFacts DEF FileInv, Alone, Moves, InHandler, Makers
<1>12. ASSUME NEW r \in Requests, SaveVersion(r)
       PROVE  FileInv'
  BY <1>12, SaveVersionFacts DEF FileInv, Alone, Moves, InHandler, Makers
<1>13. ASSUME NEW r \in Requests, UnsaveFile(r)
       PROVE  FileInv'
  BY <1>13, UnsaveFacts DEF FileInv, Alone, Moves, InHandler
<1>14. CASE Restart
  BY <1>14, RestartFacts DEF FileInv, InHandler
<1>15. CASE UNCHANGED vars
  BY <1>15 DEF FileInv, vars
<1> QED
  BY <1>3, <1>4, <1>5, <1>6, <1>7, <1>8, <1>9, <1>10, <1>11, <1>12, <1>13, <1>14, <1>15,
     StepCases DEF HandlerStep

-----------------------------------------------------------------------------
(* Numbers.                                                                *)

\* The list with the new version, and what is kept of it, increase up to its number.
LEMMA AppendIncreases ==
    ASSUME BaseInv, NEW r \in Requests, NEW drop, NEW todo, NEW keep,
           Appends(r, drop, todo, keep),
           Increasing(versions), UpToLatest(versions), req[r].ver.num = file.latest + 1
    PROVE  /\ Increasing(versions') /\ \A v \in ToSet(versions') : v.num <= req[r].ver.num
           /\ Increasing(keep) /\ \A v \in ToSet(keep) : v.num <= req[r].ver.num
<1> DEFINE ver == req[r].ver
<1>1. /\ versions \in Seq(Version) /\ Len(versions) \in Nat
      /\ DOMAIN versions = 1..Len(versions) /\ \A i \in DOMAIN versions : versions[i] \in Version
      /\ file.latest \in Nat
  BY LenProperties, ElementOfSeq DEF BaseInv, TypeOK, FileInfo
<1>2. /\ versions' \in Seq(Version) /\ Len(versions') = Len(versions) + 1
      /\ ToSet(versions') = ToSet(versions) \cup {ver} /\ Distinct(versions')
      /\ drop \in 0..Len(versions) /\ ver \in Version /\ ver.num \in Nat
      /\ drop = 0 => versions' = Append(versions, ver)
      /\ drop > 0 => \A i, j \in DOMAIN versions' : i < j =>
           \/ versions'[i].num < versions'[j].num
           \/ versions'[i].num = versions'[j].num /\ versions'[i].id < versions'[j].id
      /\ keep \in Seq(Version) /\ Len(keep) = Len(versions) + 1 - drop
      /\ \A i \in 1..Len(keep) : keep[i] = versions'[drop + i]
  BY DEF Appends, Version
<1>3. /\ \A v \in ToSet(versions) : v \in Version /\ v.num \in Nat /\ v.num < ver.num
  <2>1. ASSUME NEW v \in ToSet(versions)
        PROVE  v \in Version /\ v.num \in Nat /\ v.num < ver.num
    <3>1. v \in Version /\ v.num <= file.latest
      BY <1>1 DEF ToSet, UpToLatest
    <3>2. v.num \in Nat
      BY <3>1 DEF Version
    <3> QED
      BY <1>1, <3>1, <3>2
  <2> QED
    BY <2>1
<1>4. \A v \in ToSet(versions') : v.num <= ver.num
  BY <1>2, <1>3
<1>5. \A v, w \in ToSet(versions) : v.num = w.num => v = w
  <2>1. ASSUME NEW i \in DOMAIN versions, NEW j \in DOMAIN versions,
               versions[i].num = versions[j].num
        PROVE  i = j
    <3>1. ~(i < j) /\ ~(j < i)
      BY <1>1, <2>1 DEF Increasing, Version
    <3> QED
      BY <1>1, <3>1
  <2> QED
    BY <2>1 DEF ToSet
<1>6. \A v, w \in ToSet(versions') : v.num = w.num => v = w
  BY <1>2, <1>3, <1>5
<1>7. DOMAIN versions' = 1..(Len(versions) + 1)
  BY <1>2, LenProperties
<1>8. Increasing(versions')
  <2>1. CASE drop = 0
    <3>1. /\ \A i \in 1..Len(versions) : versions'[i] = versions[i]
          /\ versions'[Len(versions) + 1] = ver
      BY <1>1, <1>2, <2>1, AppendList
    <3>2. ASSUME NEW i \in 1..(Len(versions) + 1), NEW j \in 1..(Len(versions) + 1), i < j
          PROVE  versions'[i].num < versions'[j].num
      <4>1. i \in 1..Len(versions) /\ versions'[i] = versions[i]
        BY <1>1, <3>1, <3>2
      <4>2. CASE j = Len(versions) + 1
        BY <1>1, <1>3, <3>1, <4>1, <4>2 DEF ToSet
      <4>3. CASE j # Len(versions) + 1
        <5>1. j \in 1..Len(versions) /\ versions'[j] = versions[j]
          BY <1>1, <3>1, <4>3
        <5> QED
          BY <1>1, <3>2, <4>1, <5>1 DEF Increasing
      <4> QED
        BY <4>2, <4>3
    <3> QED
      BY <1>7, <3>2 DEF Increasing
  <2>2. CASE drop > 0
    <3>1. ASSUME NEW i \in DOMAIN versions', NEW j \in DOMAIN versions', i < j
          PROVE  versions'[i].num < versions'[j].num
      <4>1. i \in Int /\ j \in Int
        BY <1>1, <1>7
      <4>2. versions'[i] # versions'[j]
        BY <1>2, <3>1, <4>1 DEF Distinct
      <4>3. versions'[i] \in ToSet(versions') /\ versions'[j] \in ToSet(versions')
        BY DEF ToSet
      <4>4. versions'[i].num # versions'[j].num
        BY <1>6, <4>2, <4>3
      <4> QED
        BY <1>2, <2>2, <3>1, <4>4
    <3> QED
      BY <3>1 DEF Increasing
  <2> QED
    BY <1>1, <1>2, <2>1, <2>2
<1>9. ASSUME NEW i \in DOMAIN keep
      PROVE  i \in 1..Len(keep) /\ drop + i \in DOMAIN versions' /\ keep[i] = versions'[drop + i]
  <2>1. i \in 1..Len(keep)
    BY <1>2, LenProperties
  <2> QED
    BY <1>1, <1>2, <1>7, <2>1
<1>10. Increasing(keep)
  <2>1. ASSUME NEW i \in DOMAIN keep, NEW j \in DOMAIN keep, i < j
        PROVE  keep[i].num < keep[j].num
    <3>1. i \in Int /\ j \in Int
      BY <1>9
    <3>2. drop + i < drop + j
      BY <1>1, <1>2, <2>1, <3>1
    <3> QED
      BY <1>8, <1>9, <3>2 DEF Increasing
  <2> QED
    BY <2>1 DEF Increasing
<1>11. \A v \in ToSet(keep) : v.num <= ver.num
  <2>1. \A v \in ToSet(keep) : v \in ToSet(versions')
    BY <1>9 DEF ToSet
  <2> QED
    BY <1>4, <2>1
<1> QED
  BY <1>4, <1>8, <1>10, <1>11

\* A list without one of its elements is in order as the list was.
LEMMA RemoveIncreases ==
    ASSUME versions \in Seq(Version), NEW k \in 1..Len(versions),
           Increasing(versions), UpToLatest(versions),
           NEW keep, keep = RemoveAt(versions, k)
    PROVE  Increasing(keep) /\ UpToLatest(keep)
<1>1. Len(versions) \in Nat /\ DOMAIN versions = 1..Len(versions)
  BY LenProperties
<1>2. /\ keep \in Seq(Version) /\ Len(keep) = Len(versions) - 1
      /\ \A i \in 1..Len(keep) : keep[i] = versions[IF i < k THEN i ELSE i + 1]
      /\ ToSet(keep) \subseteq ToSet(versions)
  BY RemoveFromList
<1>3. DOMAIN keep = 1..(Len(versions) - 1)
  BY <1>2, LenProperties
<1>4. ASSUME NEW i \in DOMAIN keep, NEW j \in DOMAIN keep, i < j
      PROVE  keep[i].num < keep[j].num
  <2> DEFINE at(n) == IF n < k THEN n ELSE n + 1
  <2>1. at(i) \in DOMAIN versions /\ at(j) \in DOMAIN versions /\ at(i) < at(j)
    BY <1>1, <1>3, <1>4
  <2>2. keep[i] = versions[at(i)] /\ keep[j] = versions[at(j)]
    BY <1>2, <1>3
  <2> HIDE DEF at
  <2> QED
    BY <2>1, <2>2 DEF Increasing
<1> QED
  BY <1>2, <1>4 DEF Increasing, UpToLatest

\* No request forgets what it was for.
LEMMA UsedStays ==
    ASSUME NEW r \in Requests, NEW kind, NEW phase, NEW ver, NEW todo, NEW keep,
           Moves(r, kind, phase, ver, todo, keep), req[r].kind \in {"none", kind}
    PROVE  /\ Used("deleteFile") => Used("deleteFile")'
           /\ kind # "deleteFile" /\ Used("deleteFile")' => Used("deleteFile")
<1>1. /\ \A q \in Requests : q # r => req'[q].kind = req[q].kind
      /\ req'[r].kind = kind
  BY DEF Moves
<1>2. Used("deleteFile") => Used("deleteFile")'
  BY <1>1 DEF Used
<1>3. kind # "deleteFile" /\ Used("deleteFile")' => Used("deleteFile")
  BY <1>1 DEF Used
<1> QED
  BY <1>2, <1>3

\* Whether numbers may be relied on.
Orderly == ~(restarted /\ Used("deleteFile"))

\* What NumbersInv says of a request.
NumbersAt(r) ==
    /\ req[r].phase = "numbered" => req[r].ver.num = file.latest + 1
    /\ req[r].phase \in {"drop", "finish", "saveFile", "saveVersion"}
         /\ req[r].kind \in Makers => req[r].ver.num = file.latest
    /\ req[r].phase \in {"drop", "finish"} => Increasing(req[r].keep) /\ UpToLatest(req[r].keep)

\* When r moves alone, r is the only request to look at.
LEMMA NumbersAfter ==
    ASSUME NEW r \in Requests, Alone(r), Increasing(versions'), UpToLatest(versions)',
           versions' # <<>> => file'.known, NumbersAt(r)'
    PROVE  NumbersInv'
<1>1. ASSUME NEW q \in Requests, q # r
      PROVE  NumbersAt(q)'
  BY <1>1 DEF Alone, InHandler, NumbersAt
<1>2. \A q \in Requests : NumbersAt(q)'
  BY <1>1
<1> QED
  BY <1>2 DEF NumbersInv, NumbersAt, Dropping

\* What NumbersInv says of one request.
LEMMA NumbersBefore ==
    ASSUME NumbersInv, Orderly, NEW r \in Requests
    PROVE  /\ Increasing(versions) /\ UpToLatest(versions) /\ NumbersAt(r)
           /\ versions # <<>> => file.known
  BY DEF NumbersInv, Orderly, NumbersAt, Dropping

\* Every step preserves NumbersInv.
LEMMA NumbersNext ==
    ASSUME BaseInv, Single, FileInv, NumbersInv, SavedNumbersInv, ~Overlap, [Next]_vars
    PROVE  NumbersInv'
<1> SUFFICES ASSUME Orderly'
             PROVE  NumbersInv'
  BY DEF NumbersInv, Orderly
<1>1. /\ file \in FileInfo /\ dbFile \in FileInfo /\ versions \in Seq(Version)
      /\ restarted \in BOOLEAN
      /\ NewFile.latest = 0 /\ NewFile.known /\ NoFile.latest = 0 /\ ~NoFile.known
  BY DEF BaseInv, TypeOK, NewFile, NoFile
<1>2. /\ Increasing(<<>>)
      /\ \A f, s : s = <<>> => \A v \in ToSet(s) : v.num <= f.latest
  BY EmptySeq DEF Increasing, ToSet
<1>3. ASSUME NEW r \in Requests, Upload(r)
      PROVE  NumbersInv'
  <2>1. /\ Moves(r, "none", "uploaded", req[r].ver, <<>>, <<>>) /\ req[r].kind = "none"
        /\ UNCHANGED <<file, versions, dbFile, dbVersions, restarted>>
    BY <1>3, UploadFacts
  <2>2. Orderly
    BY <2>1, UsedStays DEF Orderly
  <2>3. Increasing(versions') /\ UpToLatest(versions)' /\ (versions' # <<>> => file'.known)
    BY <2>1, <2>2, NumbersBefore DEF UpToLatest
  <2>4. ASSUME NEW q \in Requests
        PROVE  NumbersAt(q)'
    <3>1. CASE q = r
      BY <2>1, <3>1 DEF Moves, NumbersAt
    <3>2. CASE q # r
      BY <2>1, <2>2, <3>2, NumbersBefore DEF Moves, NumbersAt, UpToLatest
    <3> QED
      BY <3>1, <3>2
  <2> QED
    BY <2>3, <2>4 DEF NumbersInv, NumbersAt, Dropping
<1>4. ASSUME NEW r \in Requests, CreateVersion(r)
      PROVE  NumbersInv'
  <2>1. /\ Alone(r) /\ req[r].kind = "none" /\ file' = (IF file.known THEN file ELSE NewFile)
        /\ Moves(r, "create", "numbered", NextVersion(file', r), <<>>, <<>>)
        /\ UNCHANGED <<versions, dbFile, dbVersions, stored, restarted>>
    BY <1>4, CreateFacts
  <2>2. Orderly
    BY <2>1, UsedStays DEF Orderly
  <2>3. file'.latest = file.latest /\ file'.known
    BY <1>1, <2>1 DEF FileInv
  <2>4. Increasing(versions') /\ UpToLatest(versions)' /\ (versions' # <<>> => file'.known)
    BY <2>1, <2>2, <2>3, NumbersBefore DEF UpToLatest
  <2>5. NumbersAt(r)'
    BY <2>1 DEF Moves, NumbersAt, NextVersion
  <2> QED
    BY <2>1, <2>4, <2>5, NumbersAfter
<1>5. ASSUME NEW r \in Requests, CreateFileMeta(r)
      PROVE  NumbersInv'
  <2>1. /\ Alone(r) /\ versions' = <<>> /\ file' = NewFile
        /\ Moves(r, "meta", "numbered", NextVersion(NewFile, r), <<>>, <<>>)
    BY <1>5, MetaFacts
  <2>2. Increasing(versions') /\ UpToLatest(versions)'
    BY <1>2, <2>1 DEF UpToLatest
  <2>3. NumbersAt(r)'
    BY <2>1 DEF Moves, NumbersAt, NextVersion
  <2> QED
    BY <2>1, <2>2, <2>3, NumbersAfter
<1>6. ASSUME NEW r \in Requests, NEW num \in 1..Cardinality(Requests), RollbackFile(r, num)
      PROVE  NumbersInv'
  <2>1. PICK data :
          /\ Alone(r) /\ req[r].kind = "none"
          /\ Moves(r, "rollback", "numbered", NextVersion(file, data), <<>>, <<>>)
          /\ UNCHANGED <<file, versions, dbFile, dbVersions, stored, restarted>>
    BY <1>6, RollbackFacts
  <2>2. Orderly
    BY <2>1, UsedStays DEF Orderly
  <2>3. Increasing(versions') /\ UpToLatest(versions)' /\ (versions' # <<>> => file'.known)
    BY <2>1, <2>2, NumbersBefore DEF UpToLatest
  <2>4. NumbersAt(r)'
    BY <2>1 DEF Moves, NumbersAt, NextVersion
  <2> QED
    BY <2>1, <2>3, <2>4, NumbersAfter
<1>7. ASSUME NEW r \in Requests, NEW num \in 1..Cardinality(Requests), DeleteVersion(r, num)
      PROVE  NumbersInv'
  <2>1. PICK k \in 1..Len(versions) :
          /\ Alone(r) /\ req[r].kind = "none"
          /\ Moves(r, "deleteVersion", "drop", NoVersion, <<versions[k]>>, RemoveAt(versions, k))
          /\ UNCHANGED <<file, versions, dbFile, dbVersions, stored, restarted>>
    BY <1>7, DeleteVersionFacts
  <2>2. Orderly
    BY <2>1, UsedStays DEF Orderly
  <2>3. Increasing(versions') /\ UpToLatest(versions)' /\ (versions' # <<>> => file'.known)
    BY <2>1, <2>2, NumbersBefore DEF UpToLatest
  <2>4. PICK keep : keep = RemoveAt(versions, k)
    OBVIOUS
  <2>5. Increasing(keep) /\ UpToLatest(keep)
    BY <1>1, <2>2, <2>4, NumbersBefore, RemoveIncreases
  <2>6. req'[r].keep = keep /\ req'[r].phase = "drop" /\ req'[r].kind \notin Makers /\ file' = file
    BY <2>1, <2>4 DEF Moves, Makers
  <2>7. NumbersAt(r)'
    BY <2>5, <2>6 DEF NumbersAt, UpToLatest
  <2> QED
    BY <2>1, <2>3, <2>7, NumbersAfter
<1>8. ASSUME NEW r \in Requests, DeleteFile(r)
      PROVE  NumbersInv'
  <2>1. PICK phase, todo :
          /\ Alone(r) /\ req[r].kind = "none"
          /\ phase \in {"drop", "finish"}
          /\ Moves(r, "deleteFile", phase, NoVersion, todo, <<>>)
          /\ UNCHANGED <<file, versions, dbFile, dbVersions, stored, restarted>>
    BY <1>8, DeleteFileFacts
  <2>2. Orderly
    BY <2>1, UsedStays DEF Orderly
  <2>3. Increasing(versions') /\ UpToLatest(versions)' /\ (versions' # <<>> => file'.known)
    BY <2>1, <2>2, NumbersBefore DEF UpToLatest
  <2>4. NumbersAt(r)'
    BY <1>2, <2>1 DEF Moves, NumbersAt, Makers, UpToLatest
  <2> QED
    BY <2>1, <2>3, <2>4, NumbersAfter
<1>9. ASSUME NEW r \in Requests, AppendVersion(r)
      PROVE  NumbersInv'
  <2>1. PICK drop, todo, keep : Appends(r, drop, todo, keep)
    BY <1>9, AppendFacts
  <2>2. PICK phase :
          /\ Alone(r) /\ req[r].phase = "numbered" /\ req[r].kind \in Makers
          /\ phase \in {"drop", "saveFile"}
          /\ Moves(r, req[r].kind, phase, req[r].ver, todo, keep)
          /\ file'.known = file.known /\ file'.latest = req[r].ver.num
          /\ UNCHANGED <<dbFile, dbVersions, stored, restarted>>
    BY <2>1 DEF Appends
  <2>3. Orderly
    BY <2>2, UsedStays DEF Orderly
  <2>4. req[r].ver.num = file.latest + 1 /\ Increasing(versions) /\ UpToLatest(versions)
    BY <2>2, <2>3, NumbersBefore DEF NumbersAt
  <2>5. /\ Increasing(versions') /\ \A v \in ToSet(versions') : v.num <= req[r].ver.num
        /\ Increasing(keep) /\ \A v \in ToSet(keep) : v.num <= req[r].ver.num
    BY <2>1, <2>4, AppendIncreases
  <2>6. file'.known
    BY <2>2 DEF FileInv
  <2>7. NumbersAt(r)'
    BY <2>2, <2>5 DEF Moves, NumbersAt, UpToLatest
  <2>8. UpToLatest(versions)'
    BY <2>2, <2>5 DEF UpToLatest
  <2> QED
    BY <2>2, <2>5, <2>6, <2>7, <2>8, NumbersAfter
<1>10. ASSUME NEW r \in Requests, DropChunks(r)
       PROVE  NumbersInv'
  <2>1. PICK todo : todo = Tail(req[r].todo)
    OBVIOUS
  <2>2. PICK phase :
          /\ Alone(r) /\ req[r].phase = "drop" /\ phase \in {"drop", "finish"}
          /\ Moves(r, req[r].kind, phase, req[r].ver, todo, req[r].keep)
          /\ file'.known = file.known /\ file'.latest = file.latest
          /\ UNCHANGED <<versions, dbFile, dbVersions, restarted>>
    BY <1>10, <2>1, DropFacts
  <2>3. Orderly
    BY <2>2, UsedStays DEF Orderly
  <2>4. Increasing(versions') /\ UpToLatest(versions)' /\ (versions' # <<>> => file'.known)
    BY <2>2, <2>3, NumbersBefore DEF UpToLatest
  <2>5. NumbersAt(r)'
    BY <2>2, <2>3, NumbersBefore DEF Moves, NumbersAt, UpToLatest
  <2> QED
    BY <2>2, <2>4, <2>5, NumbersAfter
<1>11. ASSUME NEW r \in Requests, InstallList(r)
       PROVE  NumbersInv'
  <2>1. PICK phase :
          /\ Alone(r) /\ req[r].phase = "finish" /\ versions' = req[r].keep
          /\ phase = IF req[r].kind = "deleteFile" THEN "unsave" ELSE "saveFile"
          /\ Moves(r, req[r].kind, phase, req[r].ver, <<>>, <<>>)
          /\ file' = (IF req[r].kind = "deleteFile" THEN NoFile ELSE file)
          /\ UNCHANGED <<dbFile, dbVersions, stored, restarted>>
    BY <1>11, InstallFacts
  <2>2. Orderly
    BY <2>1, UsedStays DEF Orderly
  <2>3. CASE req[r].kind = "deleteFile"
    <3>1. versions' = <<>>
      BY <2>1, <2>3 DEF BaseInv, PhaseInv, PhaseAt
    <3>2. Increasing(versions') /\ UpToLatest(versions)'
      BY <1>2, <3>1 DEF UpToLatest
    <3>3. NumbersAt(r)'
      BY <2>1, <2>3 DEF Moves, NumbersAt
    <3> QED
      BY <2>1, <3>1, <3>2, <3>3, NumbersAfter
  <2>4. CASE req[r].kind # "deleteFile"
    <3>1. file' = file /\ phase = "saveFile" /\ file.known
      BY <2>1, <2>4 DEF FileInv
    <3>2. Increasing(versions') /\ UpToLatest(versions)'
      BY <2>1, <2>2, <3>1, NumbersBefore DEF UpToLatest, NumbersAt
    <3>3. NumbersAt(r)'
      BY <2>1, <2>2, <3>1, NumbersBefore DEF Moves, NumbersAt
    <3> QED
      BY <2>1, <3>1, <3>2, <3>3, NumbersAfter
  <2> QED
    BY <2>3, <2>4
<1>12. ASSUME NEW r \in Requests, SaveFile(r) \/ SaveVersion(r) \/ UnsaveFile(r)
       PROVE  NumbersInv'
  <2>1. PICK phase :
          /\ Alone(r) /\ phase \in {"saveVersion", "done"}
          /\ phase = "saveVersion" => req[r].phase = "saveFile"
          /\ Moves(r, req[r].kind, phase, req[r].ver, <<>>, <<>>)
          /\ UNCHANGED <<file, versions, restarted>>
    BY <1>12, SaveFileFacts, SaveVersionFacts, UnsaveFacts
  <2>2. Orderly
    BY <2>1, UsedStays DEF Orderly
  <2>3. Increasing(versions') /\ UpToLatest(versions)' /\ (versions' # <<>> => file'.known)
    BY <2>1, <2>2, NumbersBefore DEF UpToLatest
  <2>4. NumbersAt(r)'
    BY <2>1, <2>2, NumbersBefore DEF Moves, NumbersAt
  <2> QED
    BY <2>1, <2>3, <2>4, NumbersAfter
<1>13. CASE Restart
  <2>1. /\ ~Used("deleteFile")
        /\ \A q \in Requests : req'[q].phase \notin InHandler
        /\ versions' = InOrder(dbVersions, ById(dbVersions)) /\ file' = dbFile
    BY <1>13, RestartFacts DEF Orderly, Used
  <2>2. /\ dbVersions \in SUBSET Version /\ versions' \in Seq(dbVersions)
        /\ ToSet(versions') = dbVersions
        /\ \A i, j \in DOMAIN versions' : i < j => versions'[i].id < versions'[j].id
    BY <2>1, RestartedList DEF BaseInv, TypeOK
  <2>3. Increasing(versions') /\ UpToLatest(versions)'
    <3>1. ASSUME NEW i \in DOMAIN versions', NEW j \in DOMAIN versions', i < j
          PROVE  versions'[i].num < versions'[j].num
      <4>1. versions'[i] \in dbVersions /\ versions'[j] \in dbVersions
        BY <2>2 DEF ToSet
      <4>2. versions'[i].id < versions'[j].id
        BY <2>2, <3>1
      <4> QED
        BY <2>1, <4>1, <4>2 DEF SavedNumbersInv
    <3> QED
      BY <2>1, <2>2, <3>1 DEF Increasing, UpToLatest, SavedNumbersInv
  <2>4. versions' # <<>> => file'.known
    <3>1. versions' # <<>> => dbVersions # {}
      BY <2>2, EmptySeq
    <3> QED
      BY <2>1, <3>1 DEF SavedNumbersInv
  <2>5. \A q \in Requests : NumbersAt(q)'
    BY <2>1 DEF NumbersAt, InHandler
  <2> QED
    BY <2>3, <2>4, <2>5 DEF NumbersInv, NumbersAt, Dropping
<1>14. CASE UNCHANGED vars
  BY <1>14 DEF NumbersInv, vars, Used, UpToLatest, Dropping
<1> QED
  BY <1>3, <1>4, <1>5, <1>6, <1>7, <1>8, <1>9, <1>10, <1>11, <1>12, <1>13, <1>14,
     StepCases DEF HandlerStep

\* What SavedNumbersInv says of the buckets, and of a request.
SavedOrder ==
    /\ \A v, w \in dbVersions : v.id < w.id => v.num < w.num
    /\ \A v \in dbVersions : v.num <= dbFile.latest
    /\ dbVersions # {} => dbFile.known
    /\ dbFile.latest <= file.latest

SavedAt(r) ==
    /\ req[r].phase \in InHandler /\ req[r].kind \in Makers =>
         \A v \in dbVersions \ {req[r].ver} : v.num < req[r].ver.num /\ v.id < req[r].ver.id
    /\ req[r].phase = "saveVersion" => req[r].ver.num <= dbFile.latest /\ dbFile.known

\* When r moves alone, r is the only request to look at.
LEMMA SavedAfter ==
    ASSUME NEW r \in Requests, Alone(r), SavedOrder', SavedAt(r)'
    PROVE  SavedNumbersInv'
<1>1. ASSUME NEW q \in Requests, q # r
      PROVE  SavedAt(q)'
  BY <1>1 DEF Alone, InHandler, SavedAt
<1>2. \A q \in Requests : SavedAt(q)'
  BY <1>1
<1> QED
  BY <1>2 DEF SavedNumbersInv, SavedOrder, SavedAt

\* What SavedNumbersInv says of one request.
LEMMA SavedBefore ==
    ASSUME SavedNumbersInv, ~Used("deleteFile"), NEW r \in Requests
    PROVE  SavedOrder /\ SavedAt(r)
  BY DEF SavedNumbersInv, SavedOrder, SavedAt

\* A version that is numbered now comes after all that are saved.
LEMMA NewestOfSaved ==
    ASSUME BaseInv, SavedOrder, NEW f \in FileInfo, f.latest >= dbFile.latest, NEW data,
           NEW v \in dbVersions
    PROVE  v.num < NextVersion(f, data).num /\ v.id < NextVersion(f, data).id
<1>1. TypeOK /\ dbVersions \subseteq MadeVersions
  BY DEF BaseInv, ListsInv
<1>2. v.num \in Nat /\ v.id \in Nat /\ dbFile.latest \in Nat /\ f.latest \in Nat
  BY <1>1 DEF TypeOK, Version, FileInfo
<1>3. Cardinality(Made) \in Nat
  BY <1>1, MadeIsFinite
<1>4. v.id <= Cardinality(Made)
  BY <1>1 DEF BaseInv, IdsInv, MadeVersions
<1>5. NextVersion(f, data).id = 1 + Cardinality(Made)
  BY DEF NextVersion, Made
<1>6. NextVersion(f, data).num = f.latest + 1
  BY DEF NextVersion
<1>7. v.num <= dbFile.latest
  BY DEF SavedOrder
<1> QED
  BY <1>2, <1>3, <1>4, <1>5, <1>6, <1>7

\* Every step preserves SavedNumbersInv.
LEMMA SavedNext ==
    ASSUME BaseInv, Single, FileInv, NumbersInv, SavedNumbersInv, ~Overlap, [Next]_vars
    PROVE  SavedNumbersInv'
<1> SUFFICES ASSUME ~Used("deleteFile")'
             PROVE  SavedNumbersInv'
  BY DEF SavedNumbersInv
<1>1. /\ file \in FileInfo /\ dbFile \in FileInfo /\ dbVersions \in SUBSET Version
      /\ file.latest \in Nat /\ dbFile.latest \in Nat
      /\ NewFile \in FileInfo /\ NewFile.latest = 0 /\ NewFile.known
      /\ NoFile.latest = 0 /\ ~NoFile.known
  BY DEF BaseInv, TypeOK, NewFile, NoFile, FileInfo
<1>2. ASSUME NEW r \in Requests, Upload(r)
      PROVE  SavedNumbersInv'
  <2>1. /\ Moves(r, "none", "uploaded", req[r].ver, <<>>, <<>>) /\ req[r].kind = "none"
        /\ UNCHANGED <<file, versions, dbFile, dbVersions, restarted>>
    BY <1>2, UploadFacts
  <2>2. ~Used("deleteFile")
    BY <2>1, UsedStays
  <2>3. SavedOrder'
    BY <2>1, <2>2, SavedBefore DEF SavedOrder
  <2>4. ASSUME NEW q \in Requests
        PROVE  SavedAt(q)'
    <3>1. CASE q = r
      BY <2>1, <3>1 DEF Moves, SavedAt, InHandler
    <3>2. CASE q # r
      BY <2>1, <2>2, <3>2, SavedBefore DEF Moves, SavedAt
    <3> QED
      BY <3>1, <3>2
  <2> QED
    BY <2>3, <2>4 DEF SavedNumbersInv, SavedOrder, SavedAt
<1>3. ASSUME NEW r \in Requests, CreateVersion(r)
      PROVE  SavedNumbersInv'
  <2>1. /\ Alone(r) /\ req[r].kind = "none" /\ file' = (IF file.known THEN file ELSE NewFile)
        /\ Moves(r, "create", "numbered", NextVersion(file', r), <<>>, <<>>)
        /\ UNCHANGED <<versions, dbFile, dbVersions, stored, restarted>>
    BY <1>3, CreateFacts
  <2>2. ~Used("deleteFile")
    BY <2>1, UsedStays
  <2>3. file'.latest = file.latest /\ file' \in FileInfo
    BY <1>1, <2>1 DEF FileInv
  <2>4. SavedOrder /\ SavedOrder'
    BY <2>1, <2>2, <2>3, SavedBefore DEF SavedOrder
  <2>5. \A v \in dbVersions : v.num < req'[r].ver.num /\ v.id < req'[r].ver.id
    <3>1. file'.latest >= dbFile.latest
      BY <1>1, <2>3, <2>4 DEF SavedOrder
    <3>2. req'[r].ver = NextVersion(file', r)
      BY <2>1 DEF Moves
    <3> QED
      BY <2>3, <2>4, <3>1, <3>2, NewestOfSaved
  <2>6. SavedAt(r)'
    BY <2>1, <2>5 DEF Moves, SavedAt
  <2> QED
    BY <2>1, <2>4, <2>6, SavedAfter
<1>4. ASSUME NEW r \in Requests, CreateFileMeta(r)
      PROVE  SavedNumbersInv'
  <2>1. /\ Alone(r) /\ file' = NewFile /\ dbVersions' = {} /\ dbFile' = dbFile
        /\ \A q \in Requests : req[q].kind = "none"
        /\ Moves(r, "meta", "numbered", NextVersion(NewFile, r), <<>>, <<>>)
    BY <1>4, MetaFacts
  <2>2. dbFile = NoFile
    BY <2>1 DEF FileInv
  <2>3. SavedOrder'
    BY <1>1, <2>1, <2>2 DEF SavedOrder
  <2>4. SavedAt(r)'
    BY <2>1 DEF Moves, SavedAt
  <2> QED
    BY <2>1, <2>3, <2>4, SavedAfter
<1>5. ASSUME NEW r \in Requests, NEW num \in 1..Cardinality(Requests), RollbackFile(r, num)
      PROVE  SavedNumbersInv'
  <2>1. PICK data :
          /\ Alone(r) /\ req[r].kind = "none"
          /\ Moves(r, "rollback", "numbered", NextVersion(file, data), <<>>, <<>>)
          /\ UNCHANGED <<file, versions, dbFile, dbVersions, stored, restarted>>
    BY <1>5, RollbackFacts
  <2>2. ~Used("deleteFile")
    BY <2>1, UsedStays
  <2>3. SavedOrder /\ SavedOrder'
    BY <2>1, <2>2, SavedBefore DEF SavedOrder
  <2>4. \A v \in dbVersions : v.num < req'[r].ver.num /\ v.id < req'[r].ver.id
    <3>1. file.latest >= dbFile.latest
      BY <1>1, <2>3 DEF SavedOrder
    <3>2. req'[r].ver = NextVersion(file, data)
      BY <2>1 DEF Moves
    <3> QED
      BY <1>1, <2>3, <3>1, <3>2, NewestOfSaved
  <2>5. SavedAt(r)'
    BY <2>1, <2>4 DEF Moves, SavedAt
  <2> QED
    BY <2>1, <2>3, <2>5, SavedAfter
<1>6. ASSUME NEW r \in Requests, NEW num \in 1..Cardinality(Requests), DeleteVersion(r, num)
      PROVE  SavedNumbersInv'
  <2>1. PICK todo, keep :
          /\ Alone(r) /\ req[r].kind = "none"
          /\ Moves(r, "deleteVersion", "drop", NoVersion, todo, keep)
          /\ UNCHANGED <<file, versions, dbFile, dbVersions, stored, restarted>>
    BY <1>6, DeleteVersionFacts
  <2>2. ~Used("deleteFile")
    BY <2>1, UsedStays
  <2>3. SavedOrder'
    BY <2>1, <2>2, SavedBefore DEF SavedOrder
  <2>4. SavedAt(r)'
    BY <2>1 DEF Moves, SavedAt, Makers
  <2> QED
    BY <2>1, <2>3, <2>4, SavedAfter
<1>7. ASSUME NEW r \in Requests, DeleteFile(r)
      PROVE  SavedNumbersInv'
  BY <1>7, DeleteFileFacts DEF Used, Moves
<1>8. ASSUME NEW r \in Requests, AppendVersion(r)
      PROVE  SavedNumbersInv'
  <2>1. PICK drop, todo, keep : Appends(r, drop, todo, keep)
    BY <1>8, AppendFacts
  <2>2. PICK phase :
          /\ Alone(r) /\ req[r].phase = "numbered" /\ req[r].kind \in Makers
          /\ phase \in {"drop", "saveFile"}
          /\ Moves(r, req[r].kind, phase, req[r].ver, todo, keep)
          /\ file'.known = file.known /\ file'.latest = req[r].ver.num
          /\ UNCHANGED <<dbFile, dbVersions, stored, restarted>>
    BY <2>1 DEF Appends
  <2>3. ~Used("deleteFile")
    BY <2>2, UsedStays
  <2>4. req[r].ver.num = file.latest + 1
    BY <2>2, <2>3, NumbersBefore DEF NumbersAt, Orderly
  <2>5. SavedOrder'
    BY <1>1, <2>2, <2>3, <2>4, SavedBefore DEF SavedOrder
  <2>6. SavedAt(r)'
    BY <2>2, <2>3, SavedBefore DEF Moves, SavedAt, InHandler
  <2> QED
    BY <2>2, <2>5, <2>6, SavedAfter
<1>9. ASSUME NEW r \in Requests, DropChunks(r)
      PROVE  SavedNumbersInv'
  <2>1. PICK todo : todo = Tail(req[r].todo)
    OBVIOUS
  <2>2. PICK phase :
          /\ Alone(r) /\ req[r].phase = "drop" /\ phase \in {"drop", "finish"}
          /\ Moves(r, req[r].kind, phase, req[r].ver, todo, req[r].keep)
          /\ file'.latest = file.latest
          /\ UNCHANGED <<dbFile, dbVersions>>
    BY <1>9, <2>1, DropFacts
  <2>3. ~Used("deleteFile")
    BY <2>2, UsedStays
  <2>4. SavedOrder'
    BY <2>2, <2>3, SavedBefore DEF SavedOrder
  <2>5. SavedAt(r)'
    BY <2>2, <2>3, SavedBefore DEF Moves, SavedAt, InHandler
  <2> QED
    BY <2>2, <2>4, <2>5, SavedAfter
<1>10. ASSUME NEW r \in Requests, InstallList(r)
       PROVE  SavedNumbersInv'
  <2>1. PICK phase :
          /\ Alone(r) /\ req[r].phase = "finish"
          /\ phase = IF req[r].kind = "deleteFile" THEN "unsave" ELSE "saveFile"
          /\ Moves(r, req[r].kind, phase, req[r].ver, <<>>, <<>>)
          /\ file' = (IF req[r].kind = "deleteFile" THEN NoFile ELSE file)
          /\ UNCHANGED <<dbFile, dbVersions, stored, restarted>>
    BY <1>10, InstallFacts
  <2>2. ~Used("deleteFile")
    BY <2>1, UsedStays
  <2>3. req[r].kind # "deleteFile"
    BY <2>2 DEF Used
  <2>4. SavedOrder'
    BY <2>1, <2>2, <2>3, SavedBefore DEF SavedOrder
  <2>5. SavedAt(r)'
    BY <2>1, <2>2, <2>3, SavedBefore DEF Moves, SavedAt, InHandler
  <2> QED
    BY <2>1, <2>4, <2>5, SavedAfter
<1>11. ASSUME NEW r \in Requests, SaveFile(r)
       PROVE  SavedNumbersInv'
  <2>1. PICK phase :
          /\ Alone(r) /\ req[r].phase = "saveFile"
          /\ phase \in {"done", "saveVersion"}
          /\ phase = "saveVersion" => req[r].kind \in Makers
          /\ Moves(r, req[r].kind, phase, req[r].ver, <<>>, <<>>)
          /\ dbFile' = file
          /\ UNCHANGED <<file, versions, dbVersions, stored, restarted>>
    BY <1>11, SaveFileFacts
  <2>2. ~Used("deleteFile")
    BY <2>1, UsedStays
  <2>3. file.known
    BY <2>1 DEF FileInv
  <2>4. SavedOrder'
    <3>1. ASSUME NEW v \in dbVersions
          PROVE  v.num <= file.latest
      <4>1. v.num <= dbFile.latest /\ dbFile.latest <= file.latest
        BY <2>1, <2>2, SavedBefore DEF SavedOrder
      <4>2. v.num \in Nat
        BY <1>1 DEF Version
      <4> QED
        BY <1>1, <4>1, <4>2
    <3> QED
      BY <1>1, <2>1, <2>2, <2>3, <3>1, SavedBefore DEF SavedOrder
  <2>5. phase = "saveVersion" => req[r].ver.num = file.latest
    BY <2>1, <2>2, NumbersBefore DEF NumbersAt, Orderly
  <2>6. SavedAt(r)'
    BY <1>1, <2>1, <2>2, <2>3, <2>5, SavedBefore DEF Moves, SavedAt, InHandler
  <2> QED
    BY <2>1, <2>4, <2>6, SavedAfter
<1>12. ASSUME NEW r \in Requests, SaveVersion(r)
       PROVE  SavedNumbersInv'
  <2>1. /\ Alone(r) /\ req[r].phase = "saveVersion" /\ req[r].kind \in Makers
        /\ req[r].ver \in Version
        /\ Moves(r, req[r].kind, "done", req[r].ver, <<>>, <<>>)
        /\ dbVersions' = dbVersions \cup {req[r].ver}
        /\ UNCHANGED <<file, versions, dbFile, stored, restarted>>
    BY <1>12, SaveVersionFacts
  <2>2. ~Used("deleteFile")
    BY <2>1, UsedStays
  <2>3. SavedOrder /\ SavedAt(r)
    BY <2>2, SavedBefore
  <2>4. /\ \A v \in dbVersions \ {req[r].ver} : v.num < req[r].ver.num /\ v.id < req[r].ver.id
        /\ req[r].ver.num <= dbFile.latest /\ dbFile.known
    BY <2>1, <2>3 DEF SavedAt, InHandler
  <2>5. \A v \in dbVersions' : v.id \in Nat
    BY <1>1, <2>1 DEF Version
  <2>6. \A v, w \in dbVersions' : v.id < w.id => v.num < w.num
    BY <2>1, <2>3, <2>4, <2>5 DEF SavedOrder
  <2>7. SavedOrder'
    BY <2>1, <2>3, <2>4, <2>6 DEF SavedOrder
  <2>8. SavedAt(r)'
    BY <2>1 DEF Moves, SavedAt, InHandler
  <2> QED
    BY <2>1, <2>7, <2>8, SavedAfter
<1>13. ASSUME NEW r \in Requests, UnsaveFile(r)
       PROVE  SavedNumbersInv'
  BY <1>13, UnsaveFacts DEF Used, Moves
<1>14. CASE Restart
  <2>1. /\ ~Used("deleteFile")
        /\ \A q \in Requests : req'[q].phase \notin InHandler
        /\ file' = dbFile /\ UNCHANGED <<dbFile, dbVersions>>
    BY <1>14, RestartFacts DEF Used
  <2>2. SavedOrder'
    BY <1>1, <2>1 DEF SavedOrder, SavedNumbersInv
  <2>3. \A q \in Requests : SavedAt(q)'
    BY <2>1 DEF SavedAt, InHandler
  <2> QED
    BY <2>2, <2>3 DEF SavedNumbersInv, SavedOrder, SavedAt
<1>15. CASE UNCHANGED vars
  BY <1>15 DEF SavedNumbersInv, vars, Used
<1> QED
  BY <1>2, <1>3, <1>4, <1>5, <1>6, <1>7, <1>8, <1>9, <1>10, <1>11, <1>12, <1>13, <1>14,
     <1>15, StepCases DEF HandlerStep

-----------------------------------------------------------------------------
(* How long the list is, and its two parts while it is cut.                *)

CutInv == RetentionInv /\ CountInv /\ SplitInv

\* What CutInv says of the list when nothing is being dropped, and of a request.
Whole ==
    ~restarted => Len(versions) <= MaxVersions /\ file.count = Len(versions)

CutAt(r) ==
    /\ req[r].phase \in {"drop", "finish"} =>
         /\ req[r].kind \in {"create", "rollback"} \/ ~restarted
              => Len(req[r].keep) <= MaxVersions
         /\ ~restarted /\ req[r].kind # "deleteFile"
              => file.count = Len(req[r].todo) + Len(req[r].keep)
         /\ Distinct(req[r].todo) /\ ToSet(req[r].todo) \cap ToSet(req[r].keep) = {}
    /\ req[r].kind \in {"create", "rollback"} /\ req[r].phase \in {"saveFile", "saveVersion"}
         => Len(versions) <= MaxVersions
    /\ req[r].kind = "meta" =>
         /\ req[r].phase \notin {"drop", "finish"}
         /\ req[r].phase = "numbered" => versions = <<>>

\* When r moves alone, r is the only request to look at.
LEMMA CutAfter ==
    ASSUME BaseInv, NEW r \in Requests, Alone(r), CutAt(r)',
           req'[r].phase \notin {"drop", "finish"} => Whole'
    PROVE  CutInv'
<1>1. ASSUME NEW q \in Requests, q # r
      PROVE  CutAt(q)' /\ q \notin Dropping'
  BY <1>1 DEF Alone, InHandler, CutAt, Dropping
<1>2. \A q \in Requests : CutAt(q)'
  BY <1>1
<1>3. Dropping' = {} => Whole'
  BY <1>1 DEF Dropping
<1>4. RetentionInv'
  BY <1>2, <1>3 DEF RetentionInv, CutAt, Whole, Dropping
<1>5. CountInv'
  BY <1>2, <1>3 DEF CountInv, CutAt, Whole, Dropping
<1>6. SplitInv'
  BY <1>2 DEF SplitInv, CutAt, Dropping
<1> QED
  BY <1>4, <1>5, <1>6 DEF CutInv

\* What CutInv says of one request, and of the list when r starts.
LEMMA CutBefore ==
    ASSUME CutInv, NEW r \in Requests
    PROVE  /\ CutAt(r)
           /\ Alone(r) /\ req[r].phase \notin {"drop", "finish"} => Whole
<1>1. CutAt(r)
  BY DEF CutInv, RetentionInv, CountInv, SplitInv, Dropping, CutAt
<1>2. ASSUME Alone(r), req[r].phase \notin {"drop", "finish"}
      PROVE  Whole
  <2>1. Dropping = {}
    BY <1>2 DEF Alone, InHandler, Dropping
  <2> QED
    BY <2>1 DEF CutInv, RetentionInv, CountInv, Whole
<1> QED
  BY <1>1, <1>2

\* Every step preserves CutInv.
LEMMA CutNext ==
    ASSUME BaseInv, Single, FileInv, NumbersInv, CutInv, ~Overlap, [Next]_vars
    PROVE  CutInv'
<1>1. /\ file \in FileInfo /\ file.count \in Int /\ versions \in Seq(Version)
      /\ Len(versions) \in Nat /\ MaxVersions \in Nat \ {0} /\ Distinct(versions)
      /\ restarted \in BOOLEAN
      /\ NewFile.count = 0 /\ NewFile.known /\ NoFile.count = 0 /\ ~NoFile.known
      /\ Len(<<>>) = 0 /\ ToSet(<<>>) = {}
  BY MaxVersionsAssumption, LenProperties
     DEF BaseInv, TypeOK, ListsInv, NewFile, NoFile, FileInfo, ToSet
<1>2. ASSUME NEW r \in Requests, Upload(r)
      PROVE  CutInv'
  <2>1. /\ Moves(r, "none", "uploaded", req[r].ver, <<>>, <<>>)
        /\ req[r].kind = "none" /\ req[r].phase = "idle"
        /\ UNCHANGED <<file, versions, dbFile, dbVersions, restarted>>
    BY <1>2, UploadFacts
  <2>2. ASSUME NEW q \in Requests
        PROVE  CutAt(q)' /\ (q \in Dropping' <=> q \in Dropping)
    <3>1. CASE q = r
      BY <2>1, <3>1 DEF Moves, CutAt, Dropping
    <3>2. CASE q # r
      BY <2>1, <3>2, CutBefore DEF Moves, CutAt, Dropping
    <3> QED
      BY <3>1, <3>2
  <2>3. Dropping' = Dropping
    BY <2>2 DEF Dropping
  <2>4. Dropping' = {} => Whole'
    BY <2>1, <2>3 DEF CutInv, RetentionInv, CountInv, Whole
  <2>5. RetentionInv'
    BY <2>2, <2>4 DEF RetentionInv, CutAt, Whole, Dropping
  <2>6. CountInv'
    BY <2>2, <2>4 DEF CountInv, CutAt, Whole, Dropping
  <2>7. SplitInv'
    BY <2>2 DEF SplitInv, CutAt, Dropping
  <2> QED
    BY <2>5, <2>6, <2>7 DEF CutInv
<1>3. ASSUME NEW r \in Requests, CreateVersion(r)
      PROVE  CutInv'
  <2>1. /\ Alone(r) /\ req[r].phase = "uploaded"
        /\ file' = (IF file.known THEN file ELSE NewFile)
        /\ Moves(r, "create", "numbered", NextVersion(file', r), <<>>, <<>>)
        /\ UNCHANGED <<versions, dbFile, dbVersions, stored, restarted>>
    BY <1>3, CreateFacts
  <2>2. Whole
    BY <2>1, CutBefore
  <2>3. file'.count = file.count
    BY <1>1, <2>1 DEF FileInv
  <2>4. Whole'
    BY <2>1, <2>2, <2>3 DEF Whole
  <2>5. CutAt(r)'
    BY <2>1 DEF Moves, CutAt
  <2> QED
    BY <2>1, <2>4, <2>5, CutAfter
<1>4. ASSUME NEW r \in Requests, CreateFileMeta(r)
      PROVE  CutInv'
  <2>1. /\ Alone(r) /\ versions' = <<>> /\ file' = NewFile
        /\ Moves(r, "meta", "numbered", NextVersion(NewFile, r), <<>>, <<>>)
    BY <1>4, MetaFacts
  <2>2. Whole'
    BY <1>1, <2>1 DEF Whole
  <2>3. CutAt(r)'
    BY <2>1 DEF Moves, CutAt
  <2> QED
    BY <2>1, <2>2, <2>3, CutAfter
<1>5. ASSUME NEW r \in Requests, NEW num \in 1..Cardinality(Requests), RollbackFile(r, num)
      PROVE  CutInv'
  <2>1. PICK data :
          /\ Alone(r) /\ req[r].phase = "idle"
          /\ Moves(r, "rollback", "numbered", NextVersion(file, data), <<>>, <<>>)
          /\ UNCHANGED <<file, versions, dbFile, dbVersions, stored, restarted>>
    BY <1>5, RollbackFacts
  <2>2. Whole'
    BY <2>1, CutBefore DEF Whole
  <2>3. CutAt(r)'
    BY <2>1 DEF Moves, CutAt
  <2> QED
    BY <2>1, <2>2, <2>3, CutAfter
<1>6. ASSUME NEW r \in Requests, NEW num \in 1..Cardinality(Requests), DeleteVersion(r, num)
      PROVE  CutInv'
  <2>1. PICK k \in 1..Len(versions) :
          /\ Alone(r) /\ req[r].phase = "idle"
          /\ Moves(r, "deleteVersion", "drop", NoVersion, <<versions[k]>>, RemoveAt(versions, k))
          /\ UNCHANGED <<file, versions, dbFile, dbVersions, stored, restarted>>
    BY <1>6, DeleteVersionFacts
  <2>2. Whole
    BY <2>1, CutBefore
  <2>3. PICK keep, todo : keep = RemoveAt(versions, k) /\ todo = <<versions[k]>>
    OBVIOUS
  <2>4. /\ Len(keep) = Len(versions) - 1 /\ versions[k] \notin ToSet(keep)
    BY <1>1, <2>3, RemoveFromList
  <2>5. Len(todo) = 1 /\ ToSet(todo) = {versions[k]} /\ Distinct(todo)
    BY <2>3 DEF ToSet, Distinct
  <2>6. /\ req'[r].phase = "drop" /\ req'[r].kind = "deleteVersion"
        /\ req'[r].todo = todo /\ req'[r].keep = keep
    BY <2>1, <2>3 DEF Moves
  <2>7. ~restarted => file.count = Len(todo) + Len(keep) /\ Len(keep) <= MaxVersions
    BY <1>1, <2>2, <2>4, <2>5 DEF Whole
  <2>8. CutAt(r)'
    BY <2>1, <2>4, <2>5, <2>6, <2>7 DEF CutAt
  <2> QED
    BY <2>1, <2>6, <2>8, CutAfter
<1>7. ASSUME NEW r \in Requests, DeleteFile(r)
      PROVE  CutInv'
  <2>1. PICK phase :
          /\ Alone(r) /\ req[r].phase = "idle" /\ phase \in {"drop", "finish"}
          /\ Moves(r, "deleteFile", phase, NoVersion, versions, <<>>)
          /\ UNCHANGED <<file, versions, dbFile, dbVersions, stored, restarted>>
    BY <1>7, DeleteFileFacts
  <2>2. CutAt(r)'
    BY <1>1, <2>1 DEF Moves, CutAt
  <2> QED
    BY <2>1, <2>2, CutAfter DEF Moves
<1>8. ASSUME NEW r \in Requests, AppendVersion(r)
      PROVE  CutInv'
  <2>1. PICK drop, todo, keep : Appends(r, drop, todo, keep)
    BY <1>8, AppendFacts
  <2>2. /\ Alone(r) /\ req[r].phase = "numbered" /\ req[r].kind \in Makers
        /\ Moves(r, req[r].kind, IF drop > 0 THEN "drop" ELSE "saveFile", req[r].ver,
                 todo, keep)
        /\ drop = Excess(req[r].kind, Len(versions) + 1)
        /\ drop \in 0..Len(versions) /\ Len(versions') = Len(versions) + 1
        /\ Len(todo) = drop /\ Len(keep) = Len(versions) + 1 - drop
        /\ ToSet(todo) \cap ToSet(keep) = {} /\ Distinct(todo)
        /\ file'.count = file.count + 1 /\ restarted' = restarted
    BY <2>1 DEF Appends
  <2>3. Whole /\ CutAt(r)
    BY <2>2, CutBefore
  <2>4. req[r].kind = "meta" => drop = 0 /\ Len(versions) = 0
    BY <1>1, <2>2, <2>3 DEF CutAt, Excess
  <2>5. req[r].kind # "meta" => Len(versions) + 1 - drop <= MaxVersions
    BY <1>1, <2>2 DEF Excess
  <2>6. CASE drop = 0
    <3>1. /\ req'[r].kind = req[r].kind /\ req'[r].phase = "saveFile"
      BY <2>2, <2>6 DEF Moves
    <3>2. Len(versions') <= MaxVersions
      BY <1>1, <2>2, <2>4, <2>5, <2>6
    <3>3. Whole'
      BY <2>2, <2>3, <3>2 DEF Whole
    <3>4. CutAt(r)'
      BY <3>1, <3>2 DEF CutAt
    <3> QED
      BY <2>2, <3>3, <3>4, CutAfter
  <2>7. CASE drop # 0
    <3>1. /\ req'[r].kind = req[r].kind /\ req'[r].phase = "drop"
          /\ req'[r].todo = todo /\ req'[r].keep = keep
      BY <1>1, <2>2, <2>7 DEF Moves
    <3>2. req[r].kind # "meta" /\ Len(keep) <= MaxVersions
      BY <2>2, <2>4, <2>5, <2>7
    <3>3. ~restarted => file'.count = Len(todo) + Len(keep)
      BY <1>1, <2>2, <2>3 DEF Whole
    <3>4. CutAt(r)'
      BY <2>2, <3>1, <3>2, <3>3 DEF CutAt
    <3> QED
      BY <2>2, <3>1, <3>4, CutAfter
  <2> QED
    BY <2>6, <2>7
<1>9. ASSUME NEW r \in Requests, DropChunks(r)
      PROVE  CutInv'
  <2>1. PICK todo : todo = Tail(req[r].todo)
    OBVIOUS
  <2>2. PICK phase :
          /\ Alone(r) /\ req[r].phase = "drop" /\ phase \in {"drop", "finish"}
          /\ Moves(r, req[r].kind, phase, req[r].ver, todo, req[r].keep)
          /\ todo \in Seq(Version) /\ Len(req[r].todo) = Len(todo) + 1
          /\ ToSet(req[r].todo) = ToSet(todo) \cup {Head(req[r].todo)}
          /\ Distinct(req[r].todo) => Distinct(todo)
          /\ file'.count = (IF req[r].kind = "deleteFile" THEN file.count ELSE file.count - 1)
          /\ UNCHANGED <<versions, dbFile, dbVersions, restarted>>
    BY <1>9, <2>1, DropFacts
  <2>3. CutAt(r)
    BY CutBefore
  <2>4. Len(todo) \in Nat /\ Len(req[r].keep) \in Nat
    BY <2>2, LenProperties, ShownInv
  <2>5. ~restarted /\ req[r].kind # "deleteFile"
          => file'.count = Len(todo) + Len(req[r].keep)
    <3> SUFFICES ASSUME ~restarted, req[r].kind # "deleteFile"
                 PROVE  file'.count = Len(todo) + Len(req[r].keep)
      OBVIOUS
    <3>1. file.count = Len(req[r].todo) + Len(req[r].keep)
      BY <2>2, <2>3 DEF CutAt
    <3>2. file'.count = file.count - 1 /\ Len(req[r].todo) = Len(todo) + 1
      BY <2>2
    <3>3. PICK a \in Nat, b \in Nat : a = Len(todo) /\ b = Len(req[r].keep)
      BY <2>4
    <3>4. file.count = (a + 1) + b /\ file'.count = file.count - 1
      BY <3>1, <3>2, <3>3
    <3>5. file'.count = ((a + 1) + b) - 1
      BY <3>4
    <3>6. ((a + 1) + b) - 1 = a + b
      OBVIOUS
    <3>7. file'.count = a + b
      BY <3>5, <3>6, Zenon
    <3> QED
      BY <3>3, <3>7, Zenon
  <2>6. /\ req'[r].kind = req[r].kind /\ req'[r].phase = phase
        /\ req'[r].todo = todo /\ req'[r].keep = req[r].keep
    BY <2>2 DEF Moves
  <2>7. CutAt(r)'
    BY <2>2, <2>3, <2>5, <2>6 DEF CutAt
  <2> QED
    BY <2>2, <2>6, <2>7, CutAfter
<1>10. ASSUME NEW r \in Requests, InstallList(r)
       PROVE  CutInv'
  <2>1. /\ Alone(r) /\ req[r].phase = "finish" /\ req[r].todo = <<>> /\ versions' = req[r].keep
        /\ Moves(r, req[r].kind, IF req[r].kind = "deleteFile" THEN "unsave" ELSE "saveFile",
                 req[r].ver, <<>>, <<>>)
        /\ file' = (IF req[r].kind = "deleteFile" THEN NoFile ELSE file)
        /\ UNCHANGED <<dbFile, dbVersions, stored, restarted>>
    BY <1>10, InstallFacts
  <2>2. CutAt(r) /\ Len(req[r].keep) \in Nat
    BY CutBefore, ShownInv, LenProperties
  <2>3. CASE req[r].kind = "deleteFile"
    <3>1. versions' = <<>> /\ file' = NoFile
      BY <2>1, <2>3 DEF BaseInv, PhaseInv, PhaseAt
    <3>2. Whole'
      BY <1>1, <3>1 DEF Whole
    <3>3. CutAt(r)'
      BY <2>1, <2>3 DEF Moves, CutAt
    <3> QED
      BY <2>1, <3>2, <3>3, CutAfter
  <2>4. CASE req[r].kind # "deleteFile"
    <3>1. /\ req'[r].kind = req[r].kind /\ req'[r].phase = "saveFile" /\ file' = file
      BY <2>1, <2>4 DEF Moves
    <3>2. Whole'
      BY <1>1, <2>1, <2>2, <2>4, <3>1 DEF Whole, CutAt
    <3>3. CutAt(r)'
      BY <2>1, <2>2, <3>1 DEF CutAt
    <3> QED
      BY <2>1, <3>2, <3>3, CutAfter
  <2> QED
    BY <2>3, <2>4
<1>11. ASSUME NEW r \in Requests, SaveFile(r) \/ SaveVersion(r) \/ UnsaveFile(r)
       PROVE  CutInv'
  <2>1. PICK phase :
          /\ Alone(r) /\ phase \in {"saveVersion", "done"}
          /\ phase = "saveVersion" => req[r].phase = "saveFile"
          /\ req[r].phase \notin {"drop", "finish"}
          /\ Moves(r, req[r].kind, phase, req[r].ver, <<>>, <<>>)
          /\ UNCHANGED <<file, versions, restarted>>
    BY <1>11, SaveFileFacts, SaveVersionFacts, UnsaveFacts
  <2>2. Whole'
    BY <2>1, CutBefore DEF Whole
  <2>3. CutAt(r)'
    BY <2>1, CutBefore DEF Moves, CutAt
  <2> QED
    BY <2>1, <2>2, <2>3, CutAfter
<1>12. CASE Restart
  <2>1. restarted' /\ \A q \in Requests : req'[q].phase \notin InHandler
    BY <1>12, RestartFacts
  <2>2. Dropping' = {} /\ \A q \in Requests : CutAt(q)'
    BY <2>1 DEF Dropping, InHandler, CutAt
  <2>3. RetentionInv'
    BY <2>1, <2>2 DEF RetentionInv, CutAt
  <2>4. CountInv' /\ SplitInv'
    BY <2>1, <2>2 DEF CountInv, SplitInv
  <2> QED
    BY <2>3, <2>4 DEF CutInv
<1>13. CASE UNCHANGED vars
  BY <1>13 DEF CutInv, RetentionInv, CountInv, SplitInv, vars, Dropping
<1> QED
  BY <1>2, <1>3, <1>4, <1>5, <1>6, <1>7, <1>8, <1>9, <1>10, <1>11, <1>12, <1>13,
     StepCases DEF HandlerStep

-----------------------------------------------------------------------------
(* Whose chunks a version lists, and which chunks are stored.              *)

\* Every step preserves DataInv.
LEMMA DataNext ==
    ASSUME BaseInv, Single, DataInv, ~Overlap, [Next]_vars
    PROVE  DataInv'
<1>1. /\ \A q \in Requests : PhaseAt(req[q]) /\ (q \in Made => req[q].ver.data \in Requests)
      /\ ToSet(versions) \subseteq MadeVersions
  BY RequestShape DEF BaseInv, PhaseInv, ListsInv, Made, Version
<1>2. \A q \in Requests : q \in Made => req[q].kind # "none"
  BY <1>1 DEF PhaseAt, Made, Makers
<1>3. ASSUME NEW r \in Requests, Upload(r)
      PROVE  DataInv'
  <2>1. /\ Moves(r, "none", "uploaded", req[r].ver, <<>>, <<>>) /\ req[r].kind = "none"
        /\ stored' = stored \cup {r}
    BY <1>3, UploadFacts
  <2>2. Made' = Made
    BY <2>1 DEF Made, Moves
  <2>3. \A q \in Requests : req'[q].kind = req[q].kind /\ req'[q].ver = req[q].ver
    BY <2>1 DEF Moves
  <2> QED
    BY <1>1, <2>1, <2>2, <2>3 DEF DataInv, Moves, Made
<1>4. ASSUME NEW r \in Requests, CreateVersion(r) \/ CreateFileMeta(r)
      PROVE  DataInv'
  <2>1. PICK kind, f :
          /\ kind \in Uploaders /\ req[r].kind = "none" /\ req[r].phase = "uploaded"
          /\ Moves(r, kind, "numbered", NextVersion(f, r), <<>>, <<>>)
          /\ stored' = stored
    BY <1>4, CreateFacts, MetaFacts DEF Uploaders
  <2>2. req'[r].ver.data = r /\ req'[r].kind \in Uploaders
    BY <2>1 DEF Moves, NextVersion
  <2>3. \A q \in Requests : q # r => req'[q] = req[q] /\ (q \in Made' <=> q \in Made)
    BY <2>1 DEF Moves, Made
  <2>4. \A q \in Requests : q \in stored' =>
          req'[q].phase # "idle" /\ req'[q].kind \in Uploaders \cup {"none"}
    BY <2>1, <2>2, <2>3 DEF DataInv, Moves
  <2>5. \A q \in Requests : req'[q].phase = "uploaded" => q \in stored'
    BY <2>1, <2>3 DEF DataInv, Moves
  <2>6. \A q \in Made' : req'[q].kind \in Uploaders => req'[q].ver.data = q
    BY <2>2, <2>3 DEF DataInv, Made
  <2>7. \A q \in Made' : req'[req'[q].ver.data].kind \in Uploaders
    BY <1>1, <2>1, <2>2, <2>3 DEF DataInv, Made
  <2> QED
    BY <2>4, <2>5, <2>6, <2>7 DEF DataInv
<1>5. ASSUME NEW r \in Requests, NEW num \in 1..Cardinality(Requests), RollbackFile(r, num)
      PROVE  DataInv'
  <2>1. PICK v \in ToSet(versions) :
          /\ req[r].kind = "none" /\ req[r].phase = "idle"
          /\ Moves(r, "rollback", "numbered", NextVersion(file, v.data), <<>>, <<>>)
          /\ stored' = stored
    BY <1>5, RollbackFacts
  <2>2. PICK p \in Made : v = req[p].ver
    BY <1>1, <2>1 DEF MadeVersions
  <2>3. req[v.data].kind \in Uploaders /\ v.data \in Requests /\ v.data # r
    BY <1>1, <2>1, <2>2 DEF DataInv, Made, Uploaders
  <2>4. req'[r].ver.data = v.data /\ req'[r].kind = "rollback" /\ req'[r].phase = "numbered"
    BY <2>1 DEF Moves, NextVersion
  <2>5. \A q \in Requests : q # r => req'[q] = req[q] /\ (q \in Made' <=> q \in Made)
    BY <2>1 DEF Moves, Made
  <2>6. \A q \in Requests : q \in stored' =>
          req'[q].phase # "idle" /\ req'[q].kind \in Uploaders \cup {"none"}
    BY <2>1, <2>5 DEF DataInv
  <2>7. \A q \in Requests : req'[q].phase = "uploaded" => q \in stored'
    BY <2>1, <2>4, <2>5 DEF DataInv
  <2>8. \A q \in Made' : req'[q].kind \in Uploaders => req'[q].ver.data = q
    BY <2>4, <2>5 DEF DataInv, Made, Uploaders
  <2>9. \A q \in Made' : req'[req'[q].ver.data].kind \in Uploaders
    BY <1>1, <2>1, <2>3, <2>4, <2>5 DEF DataInv, Made, Uploaders
  <2> QED
    BY <2>6, <2>7, <2>8, <2>9 DEF DataInv
<1>6. ASSUME NEW r \in Requests,
             DeleteFile(r) \/ \E num \in 1..Cardinality(Requests) : DeleteVersion(r, num)
      PROVE  DataInv'
  <2>1. PICK kind, phase, todo, keep :
          /\ req[r].kind = "none" /\ req[r].phase = "idle" /\ req[r].ver = NoVersion
          /\ kind \notin Uploaders /\ phase \in {"drop", "finish"}
          /\ Moves(r, kind, phase, NoVersion, todo, keep)
          /\ stored' = stored
    <3>1. CASE DeleteFile(r)
      <4>1. PICK phase : phase = IF versions = <<>> THEN "finish" ELSE "drop"
        OBVIOUS
      <4>2. /\ req[r].kind = "none" /\ req[r].phase = "idle" /\ req[r].ver = NoVersion
            /\ phase \in {"drop", "finish"}
            /\ Moves(r, "deleteFile", phase, NoVersion, versions, <<>>)
            /\ stored' = stored
        BY <3>1, <4>1, DeleteFileFacts
      <4>3. "deleteFile" \notin Uploaders
        BY DEF Uploaders
      <4> QED
        BY <4>2, <4>3
    <3>2. ASSUME NEW num \in 1..Cardinality(Requests), DeleteVersion(r, num)
          PROVE  \E k \in 1..Len(versions) :
                   /\ req[r].kind = "none" /\ req[r].phase = "idle" /\ req[r].ver = NoVersion
                   /\ Moves(r, "deleteVersion", "drop", NoVersion, <<versions[k]>>,
                            RemoveAt(versions, k))
                   /\ stored' = stored
      BY <3>2, DeleteVersionFacts
    <3>3. "deleteVersion" \notin Uploaders
      BY DEF Uploaders
    <3> QED
      BY <1>6, <3>1, <3>2, <3>3
  <2>2. \A q \in Requests : q # r => req'[q] = req[q]
    BY <2>1 DEF Moves
  <2>3. req'[r].ver = NoVersion /\ req'[r].phase \notin {"idle", "uploaded"} /\ Made' = Made
    BY <2>1 DEF Moves, Made
  <2>4. \A q \in Made : q # r /\ req[q].ver.data # r
    BY <2>1 DEF Made, DataInv, Uploaders
  <2> QED
    BY <1>1, <2>1, <2>2, <2>3, <2>4 DEF DataInv, Made
<1>7. ASSUME NEW r \in Requests, DropChunks(r)
      PROVE  DataInv'
  <2>1. PICK todo : todo = Tail(req[r].todo)
    OBVIOUS
  <2>2. PICK phase :
          /\ req[r].phase = "drop" /\ phase \in {"drop", "finish"}
          /\ Moves(r, req[r].kind, phase, req[r].ver, todo, req[r].keep)
          /\ stored' = stored \ {Head(req[r].todo).data}
          /\ Head(req[r].todo) \in ToSet(req[r].todo)
    BY <1>7, <2>1, DropFacts
  <2>3. /\ \A q \in Requests : req'[q].kind = req[q].kind /\ req'[q].ver = req[q].ver
        /\ \A q \in Requests : q # r => req'[q] = req[q]
        /\ req'[r].phase \notin {"idle", "uploaded"}
    BY <2>2 DEF Moves
  <2>4. Made' = Made
    BY <2>3 DEF Made
  <2>5. PICK p \in Made : Head(req[r].todo) = req[p].ver
    BY <2>2, ShownInv DEF MadeVersions
  <2>6. req[Head(req[r].todo).data].phase # "uploaded"
    BY <1>1, <2>5 DEF DataInv, PhaseAt, Uploaders, Made
  <2> QED
    BY <1>1, <2>2, <2>3, <2>4, <2>6 DEF DataInv, Made
<1>8. ASSUME NEW r \in Requests,
             \/ AppendVersion(r) \/ InstallList(r)
             \/ SaveFile(r) \/ SaveVersion(r) \/ UnsaveFile(r)
      PROVE  DataInv'
  <2>1. PICK phase, todo, keep :
          /\ phase \notin {"idle", "uploaded"}
          /\ Moves(r, req[r].kind, phase, req[r].ver, todo, keep)
          /\ stored' = stored
    <3>1. CASE AppendVersion(r)
      <4>1. PICK drop, todo, keep : Appends(r, drop, todo, keep)
        BY <3>1, AppendFacts
      <4>2. /\ Moves(r, req[r].kind, IF drop > 0 THEN "drop" ELSE "saveFile", req[r].ver,
                     todo, keep)
            /\ stored' = stored
        BY <4>1 DEF Appends
      <4>3. (IF drop > 0 THEN "drop" ELSE "saveFile") \notin {"idle", "uploaded"}
        OBVIOUS
      <4> QED
        BY <4>2, <4>3
    <3> QED
      BY <1>8, <3>1, InstallFacts, SaveFileFacts, SaveVersionFacts, UnsaveFacts
  <2>2. /\ \A q \in Requests : req'[q].kind = req[q].kind /\ req'[q].ver = req[q].ver
        /\ \A q \in Requests : q # r => req'[q] = req[q]
        /\ req'[r].phase \notin {"idle", "uploaded"}
    BY <2>1 DEF Moves
  <2>3. Made' = Made
    BY <2>2 DEF Made
  <2> QED
    BY <1>1, <2>1, <2>2, <2>3 DEF DataInv, Made
<1>9. CASE Restart
  <2>1. /\ \A q \in Requests : req'[q].kind = req[q].kind /\ req'[q].ver = req[q].ver
        /\ \A q \in Requests :
             req'[q].phase = IF req[q].phase \in InHandler THEN "aborted" ELSE req[q].phase
        /\ stored' = stored
    BY <1>9, RestartFacts
  <2>2. Made' = Made
    BY <2>1 DEF Made
  <2>3. \A q \in Requests : req'[q].phase \in {"idle", "uploaded"} => req'[q].phase = req[q].phase
    BY <2>1
  <2> QED
    BY <1>1, <2>1, <2>2, <2>3 DEF DataInv, Made
<1>10. CASE UNCHANGED vars
  BY <1>10 DEF DataInv, vars, Made
<1> QED
  BY <1>3, <1>4, <1>5, <1>6, <1>7, <1>8, <1>9, <1>10, StepCases DEF HandlerStep

\* The versions that will be left, when r is the only handler that may be at work.
Cur(r) ==
    IF req[r].phase \in {"drop", "finish"} THEN ToSet(req[r].todo) \cup ToSet(req[r].keep)
                                           ELSE ToSet(versions)

\* Cur is what Current says.
LEMMA CurrentIs ==
    ASSUME BaseInv, NEW r \in Requests,
           \A q \in Requests : q # r => req[q].phase \notin InHandler
    PROVE  /\ \A v : Current(v) <=> v \in Cur(r)
           /\ Cur(r) \subseteq MadeVersions
<1>1. \A q \in Dropping : q = r
  BY DEF Dropping, InHandler
<1>2. \A v : Current(v) <=> v \in Cur(r)
  <2>1. CASE req[r].phase \in {"drop", "finish"}
    BY <1>1, <2>1 DEF Current, Cur, Dropping
  <2>2. CASE req[r].phase \notin {"drop", "finish"}
    <3>1. Dropping = {}
      BY <1>1, <2>2 DEF Dropping
    <3> QED
      BY <2>2, <3>1 DEF Current, Cur
  <2> QED
    BY <2>1, <2>2
<1>3. Cur(r) \subseteq MadeVersions
  BY ShownInv DEF Cur
<1> QED
  BY <1>2, <1>3

\* ChunksInv in terms of Cur.
ChunksAt(cur) ==
    /\ \A q \in stored : req[q].kind \in Uploaders /\ req[q].phase # "numbered" =>
         \E v \in cur : v.data = q
    /\ \A v \in cur : v.data \in stored \/ Shared(v.data)
    /\ \A q \in Requests : req[q].phase = "numbered" =>
         req[q].ver.data \in stored \/ Shared(req[q].ver.data)

\* What ChunksInv says in terms of Cur.
LEMMA ChunksBefore ==
    ASSUME BaseInv, ChunksInv, ~restarted, NEW r \in Requests,
           \A q \in Requests : q # r => req[q].phase \notin InHandler
    PROVE  ChunksAt(Cur(r))
<1>1. (\A v : Current(v) <=> v \in Cur(r)) /\ Cur(r) \subseteq MadeVersions
  BY CurrentIs
<1>2. stored \subseteq Requests
  BY DEF BaseInv, TypeOK
<1> QED
  BY <1>1, <1>2 DEF ChunksInv, ChunksAt

\* Some request has the file to itself, and the chunks are right for it.
ChunksWitness ==
    \E r \in Requests :
      /\ \A q \in Requests : q # r => req[q].phase \notin InHandler
      /\ ChunksAt(Cur(r))

\* ChunksInv from Cur.
LEMMA ChunksIf == BaseInv /\ ChunksWitness => ChunksInv
<1> SUFFICES ASSUME BaseInv, NEW r \in Requests,
                    \A q \in Requests : q # r => req[q].phase \notin InHandler,
                    ChunksAt(Cur(r))
             PROVE  ChunksInv
  BY DEF ChunksWitness
<1>1. (\A v : Current(v) <=> v \in Cur(r)) /\ Cur(r) \subseteq MadeVersions
  BY CurrentIs
<1> QED
  BY <1>1 DEF ChunksInv, ChunksAt

\* The same of the next state.
LEMMA ChunksIfNext == (BaseInv /\ ChunksWitness => ChunksInv)'
  BY ChunksIf, PTL

\* The same of the next state, when r moves alone.
LEMMA ChunksAfter ==
    ASSUME BaseInv', NEW r \in Requests, Alone(r), ChunksAt(Cur(r))'
    PROVE  ChunksInv'
<1>1. \A q \in Requests : q # r => req'[q].phase \notin InHandler
  BY DEF Alone
<1> QED
  BY <1>1, ChunksIfNext DEF ChunksWitness

\* Shared chunks stay shared.
LEMMA SharedStays ==
    ASSUME NEW r \in Requests, NEW kind, NEW phase, NEW ver, NEW todo, NEW keep,
           Moves(r, kind, phase, ver, todo, keep),
           req[r].kind = "none" \/ (kind = req[r].kind /\ ver = req[r].ver)
    PROVE  \A d : Shared(d) => Shared(d)'
<1>1. ASSUME NEW q \in Requests, req[q].kind = "rollback"
      PROVE  req'[q].kind = "rollback" /\ req'[q].ver = req[q].ver
  BY <1>1 DEF Moves
<1> QED
  BY <1>1 DEF Shared

\* Two versions that list the same chunks share them with a rollback.
LEMMA SameChunksShared ==
    ASSUME BaseInv, DataInv, NEW v \in MadeVersions, NEW w \in MadeVersions,
           v # w, v.data = w.data
    PROVE  Shared(v.data)
<1>1. PICK p \in Made : v = req[p].ver
  BY DEF MadeVersions
<1>2. PICK q \in Made : w = req[q].ver
  BY DEF MadeVersions
<1>3. p \in Requests /\ q \in Requests /\ p # q
  BY <1>1, <1>2 DEF Made
<1>4. req[p].kind \in Makers /\ req[q].kind \in Makers
  BY <1>1, <1>2 DEF BaseInv, PhaseInv, PhaseAt, Made
<1>5. ~(req[p].kind \in Uploaders /\ req[q].kind \in Uploaders)
  BY <1>1, <1>2, <1>3 DEF DataInv
<1> QED
  BY <1>1, <1>2, <1>3, <1>4, <1>5 DEF Shared, Makers, Uploaders

\* A step that leaves the versions, the chunks and what is numbered as they are.
LEMMA ChunksStay ==
    ASSUME BaseInv, BaseInv', ChunksInv, ~restarted, NEW r \in Requests, Alone(r),
           NEW kind, NEW phase, NEW ver, NEW todo, NEW keep,
           Moves(r, kind, phase, ver, todo, keep),
           \/ req[r].kind = "none" /\ kind \notin Uploaders
           \/ kind = req[r].kind /\ ver = req[r].ver /\ req[r].phase # "numbered",
           phase # "numbered", stored' = stored, Cur(r)' = Cur(r)
    PROVE  ChunksInv'
<1>1. ChunksAt(Cur(r))
  BY ChunksBefore DEF Alone
<1>2. \A d : Shared(d) => Shared(d)'
  BY SharedStays
<1>3. /\ req'[r].kind = kind /\ req'[r].phase # "numbered"
      /\ \A q \in Requests : q # r => req'[q] = req[q]
  BY DEF Moves
<1>4. stored \subseteq Requests
  BY DEF BaseInv, TypeOK
<1>5. ASSUME NEW q \in stored', req'[q].kind \in Uploaders, req'[q].phase # "numbered"
      PROVE  \E v \in Cur(r)' : v.data = q
  BY <1>1, <1>3, <1>4, <1>5 DEF ChunksAt
<1>6. \A v \in Cur(r)' : v.data \in stored' \/ Shared(v.data)'
  BY <1>1, <1>2 DEF ChunksAt
<1>7. ASSUME NEW q \in Requests, req'[q].phase = "numbered"
      PROVE  req'[q].ver.data \in stored' \/ Shared(req[q].ver.data)'
  BY <1>1, <1>2, <1>3, <1>7 DEF ChunksAt
<1>8. \A q \in Requests : req'[q].phase = "numbered" => req'[q] = req[q]
  BY <1>3
<1>9. ChunksAt(Cur(r))'
  BY <1>5, <1>6, <1>7, <1>8 DEF ChunksAt, Shared
<1> QED
  BY <1>9, ChunksAfter

\* Every step preserves ChunksInv.
LEMMA ChunksNext ==
    ASSUME BaseInv, BaseInv', Single, DataInv, SplitInv, ChunksInv, ~Overlap, [Next]_vars
    PROVE  ChunksInv'
<1> SUFFICES ASSUME ~restarted'
             PROVE  ChunksInv'
  BY DEF ChunksInv
<1>1. /\ stored \subseteq Requests /\ ToSet(<<>>) = {}
      /\ \A q \in Requests : PhaseAt(req[q])
  BY DEF BaseInv, TypeOK, PhaseInv, ToSet
<1>2. ASSUME NEW r \in Requests, Upload(r)
      PROVE  ChunksInv'
  <2>1. /\ Moves(r, "none", "uploaded", req[r].ver, <<>>, <<>>)
        /\ req[r].kind = "none" /\ req[r].phase = "idle" /\ stored' = stored \cup {r}
        /\ UNCHANGED <<file, versions, dbFile, dbVersions, restarted>>
    BY <1>2, UploadFacts
  <2>2. /\ \A q \in Requests : q # r => req'[q] = req[q]
        /\ \A q \in Requests : req'[q].kind = req[q].kind /\ req'[q].ver = req[q].ver
        /\ req'[r].phase = "uploaded" /\ req'[r].kind = "none"
    BY <2>1 DEF Moves
  <2>3. Dropping' = Dropping /\ MadeVersions' = MadeVersions
    BY <2>1, <2>2 DEF Dropping, MadeVersions, Made
  <2>4. \A v : Current(v) => Current(v)'
    BY <2>1, <2>2, <2>3 DEF Current, Dropping
  <2>5. \A v : Current(v)' => Current(v)
    BY <2>1, <2>2, <2>3 DEF Current, Dropping
  <2>6. \A d : Shared(d) <=> Shared(d)'
    BY <2>2 DEF Shared
  <2>7. /\ \A q \in stored : req[q].kind \in Uploaders /\ req[q].phase # "numbered" =>
             \E v \in MadeVersions : Current(v) /\ v.data = q
        /\ \A v \in MadeVersions : Current(v) => v.data \in stored \/ Shared(v.data)
        /\ \A q \in Requests : req[q].phase = "numbered" =>
             req[q].ver.data \in stored \/ Shared(req[q].ver.data)
    BY <2>1 DEF ChunksInv
  <2>8. \A q \in stored' : req'[q].kind \in Uploaders /\ req'[q].phase # "numbered" =>
          \E v \in MadeVersions' : Current(v)' /\ v.data = q
    BY <1>1, <2>1, <2>2, <2>3, <2>4, <2>7 DEF Uploaders
  <2>9. \A v \in MadeVersions' : Current(v)' => v.data \in stored' \/ Shared(v.data)'
    BY <2>1, <2>3, <2>5, <2>6, <2>7
  <2>10. \A q \in Requests : req'[q].phase = "numbered" =>
           req'[q].ver.data \in stored' \/ Shared(req[q].ver.data)'
    BY <2>1, <2>2, <2>6, <2>7
  <2> QED
    BY <2>2, <2>8, <2>9, <2>10 DEF ChunksInv, Shared
<1>3. ASSUME NEW r \in Requests,
             \/ CreateVersion(r) \/ CreateFileMeta(r)
             \/ \E num \in 1..Cardinality(Requests) : RollbackFile(r, num)
      PROVE  ChunksInv'
  <2>1. PICK kind, ver :
          /\ Alone(r) /\ req[r].kind = "none" /\ req[r].phase \notin InHandler
          /\ Moves(r, kind, "numbered", ver, <<>>, <<>>)
          /\ UNCHANGED <<versions, stored, restarted>>
          /\ \/ kind \in Uploaders /\ ver.data = r /\ req[r].phase = "uploaded"
             \/ kind = "rollback"
    <3>1. CASE CreateVersion(r)
      <4>1. NextVersion(file', r).data = r /\ "create" \in Uploaders /\ "uploaded" \notin InHandler
        BY DEF NextVersion, Uploaders, InHandler
      <4> QED
        BY <3>1, <4>1, CreateFacts
    <3>2. CASE CreateFileMeta(r)
      <4>1. NextVersion(NewFile, r).data = r /\ "meta" \in Uploaders /\ "uploaded" \notin InHandler
        BY DEF NextVersion, Uploaders, InHandler
      <4> QED
        BY <3>2, <4>1, MetaFacts
    <3>3. ASSUME NEW num \in 1..Cardinality(Requests), RollbackFile(r, num)
          PROVE  \E ver : /\ Alone(r) /\ req[r].kind = "none" /\ req[r].phase \notin InHandler
                          /\ Moves(r, "rollback", "numbered", ver, <<>>, <<>>)
                          /\ UNCHANGED <<versions, stored, restarted>>
      BY <3>3, RollbackFacts DEF InHandler
    <3> QED
      BY <1>3, <3>1, <3>2, <3>3
  <2>2. /\ req'[r].kind = kind /\ req'[r].phase = "numbered" /\ req'[r].ver = ver
        /\ \A q \in Requests : q # r => req'[q] = req[q] /\ req[q].phase \notin InHandler
    BY <2>1 DEF Moves, Alone
  <2>3. Cur(r) = ToSet(versions) /\ Cur(r)' = Cur(r)
    BY <2>1, <2>2 DEF Cur, InHandler
  <2>4. ChunksAt(Cur(r))
    BY <2>1, <2>2, ChunksBefore
  <2>5. \A d : Shared(d) => Shared(d)'
    BY <2>1, SharedStays
  <2>6. ver.data \in stored' \/ Shared(ver.data)'
    <3>1. CASE kind \in Uploaders
      BY <2>1, <3>1 DEF DataInv, Uploaders
    <3>2. CASE kind = "rollback"
      BY <2>2, <3>2 DEF Shared
    <3> QED
      BY <2>1, <3>1, <3>2
  <2>7. \A q \in Requests : req'[q].phase = "numbered" => q = r
    BY <2>2 DEF InHandler
  <2>8. ASSUME NEW q \in stored', req'[q].kind \in Uploaders, req'[q].phase # "numbered"
        PROVE  \E v \in Cur(r)' : v.data = q
    <3>1. q # r /\ q \in Requests /\ req'[q] = req[q] /\ q \in stored
      BY <1>1, <2>1, <2>2, <2>8
    <3> QED
      BY <2>3, <2>4, <2>8, <3>1 DEF ChunksAt
  <2>9. \A v \in Cur(r)' : v.data \in stored' \/ Shared(v.data)'
    BY <2>1, <2>3, <2>4, <2>5 DEF ChunksAt
  <2>10. \A q \in Requests : req'[q].phase = "numbered" => req'[q].ver = ver
    BY <2>2, <2>7
  <2>11. ChunksAt(Cur(r))'
    BY <2>6, <2>8, <2>9, <2>10 DEF ChunksAt, Shared
  <2> QED
    BY <2>1, <2>11, ChunksAfter
<1>4. ASSUME NEW r \in Requests, NEW num \in 1..Cardinality(Requests), DeleteVersion(r, num)
      PROVE  ChunksInv'
  <2>1. PICK k \in 1..Len(versions) :
          /\ Alone(r) /\ req[r].phase = "idle" /\ req[r].kind = "none"
          /\ Moves(r, "deleteVersion", "drop", NoVersion, <<versions[k]>>, RemoveAt(versions, k))
          /\ UNCHANGED <<file, versions, dbFile, dbVersions, stored, restarted>>
    BY <1>4, DeleteVersionFacts
  <2>2. PICK keep, todo : keep = RemoveAt(versions, k) /\ todo = <<versions[k]>>
    OBVIOUS
  <2>3. ToSet(versions) = ToSet(keep) \cup {versions[k]}
    BY <2>2, RemoveFromList DEF BaseInv, TypeOK
  <2>4. ToSet(todo) = {versions[k]}
    BY <2>2 DEF ToSet
  <2>5. Moves(r, "deleteVersion", "drop", NoVersion, todo, keep)
    BY <2>1, <2>2
  <2>6. Cur(r)' = Cur(r)
    BY <2>1, <2>3, <2>4, <2>5 DEF Cur, Moves
  <2>7. PICK kind, phase, ver : kind = "deleteVersion" /\ phase = "drop" /\ ver = NoVersion
    OBVIOUS
  <2>8. /\ kind \notin Uploaders /\ phase # "numbered" /\ req[r].kind = "none"
        /\ ~restarted /\ Alone(r) /\ stored' = stored
        /\ Moves(r, kind, phase, ver, todo, keep)
    BY <2>1, <2>5, <2>7 DEF Uploaders
  <2> QED
    BY <2>6, <2>8, ChunksStay, Zenon
<1>5. ASSUME NEW r \in Requests, DeleteFile(r)
      PROVE  ChunksInv'
  <2>1. PICK phase :
          /\ Alone(r) /\ req[r].phase = "idle" /\ req[r].kind = "none"
          /\ phase \in {"drop", "finish"}
          /\ Moves(r, "deleteFile", phase, NoVersion, versions, <<>>)
          /\ UNCHANGED <<file, versions, dbFile, dbVersions, stored, restarted>>
    BY <1>5, DeleteFileFacts
  <2>2. Cur(r)' = Cur(r)
    BY <1>1, <2>1 DEF Cur, Moves
  <2>3. PICK kind, ver : kind = "deleteFile" /\ ver = NoVersion
    OBVIOUS
  <2>4. /\ kind \notin Uploaders /\ phase # "numbered" /\ req[r].kind = "none"
        /\ ~restarted /\ Alone(r) /\ stored' = stored
        /\ Moves(r, kind, phase, ver, versions, <<>>)
    BY <2>1, <2>3 DEF Uploaders
  <2> QED
    BY <2>2, <2>4, ChunksStay, Zenon
<1>6. ASSUME NEW r \in Requests, AppendVersion(r)
      PROVE  ChunksInv'
  <2>1. PICK drop, todo, keep : Appends(r, drop, todo, keep)
    BY <1>6, AppendFacts
  <2>2. PICK phase :
          /\ phase = IF drop > 0 THEN "drop" ELSE "saveFile"
          /\ Alone(r) /\ req[r].phase = "numbered" /\ req[r].kind \in Makers
          /\ Moves(r, req[r].kind, phase, req[r].ver, todo, keep)
          /\ ToSet(todo) \cup ToSet(keep) = ToSet(versions')
          /\ ToSet(versions') = ToSet(versions) \cup {req[r].ver}
          /\ UNCHANGED <<stored, restarted>>
    BY <2>1 DEF Appends
  <2>3. /\ req'[r].kind = req[r].kind /\ req'[r].phase = phase /\ req'[r].ver = req[r].ver
        /\ req'[r].todo = todo /\ req'[r].keep = keep /\ phase # "numbered"
        /\ \A q \in Requests : q # r => req'[q] = req[q] /\ req[q].phase \notin InHandler
    BY <2>2 DEF Moves, Alone
  <2>4. Cur(r) = ToSet(versions) /\ Cur(r)' = ToSet(versions) \cup {req[r].ver}
    BY <2>2, <2>3 DEF Cur
  <2>5. ChunksAt(Cur(r))
    BY <2>2, <2>3, ChunksBefore
  <2>6. \A d : Shared(d) => Shared(d)'
    BY <2>2, SharedStays
  <2>7. req[r].kind \in Uploaders => req[r].ver.data = r
    <3>1. r \in Made
      BY <1>1, <2>2 DEF PhaseAt, Made
    <3> QED
      BY <3>1 DEF DataInv
  <2>8. ASSUME NEW q \in stored', req'[q].kind \in Uploaders, req'[q].phase # "numbered"
        PROVE  \E v \in Cur(r)' : v.data = q
    <3>1. CASE q = r
      BY <2>3, <2>4, <2>7, <2>8, <3>1
    <3>2. CASE q # r
      <4>1. q \in Requests /\ req'[q] = req[q] /\ q \in stored
        BY <1>1, <2>2, <2>3, <3>2
      <4> QED
        BY <2>4, <2>5, <2>8, <4>1 DEF ChunksAt
    <3> QED
      BY <3>1, <3>2
  <2>9. \A v \in Cur(r)' : v.data \in stored' \/ Shared(v.data)'
    BY <2>2, <2>4, <2>5, <2>6 DEF ChunksAt
  <2>10. \A q \in Requests : req'[q].phase # "numbered"
    BY <2>3 DEF InHandler
  <2>11. ChunksAt(Cur(r))'
    BY <2>8, <2>9, <2>10 DEF ChunksAt
  <2> QED
    BY <2>2, <2>11, ChunksAfter
<1>7. ASSUME NEW r \in Requests, DropChunks(r)
      PROVE  ChunksInv'
  <2>1. PICK todo, old : todo = Tail(req[r].todo) /\ old = Head(req[r].todo)
    OBVIOUS
  <2>2. PICK phase :
          /\ Alone(r) /\ req[r].phase = "drop" /\ phase \in {"drop", "finish"}
          /\ Moves(r, req[r].kind, phase, req[r].ver, todo, req[r].keep)
          /\ ToSet(req[r].todo) = ToSet(todo) \cup {old}
          /\ Distinct(req[r].todo) => old \notin ToSet(todo)
          /\ stored' = stored \ {old.data}
          /\ UNCHANGED <<versions, restarted>>
    BY <1>7, <2>1, DropFacts
  <2>3. /\ req'[r].kind = req[r].kind /\ req'[r].phase = phase /\ req'[r].ver = req[r].ver
        /\ req'[r].todo = todo /\ req'[r].keep = req[r].keep
        /\ \A q \in Requests : q # r => req'[q] = req[q] /\ req[q].phase \notin InHandler
    BY <2>2 DEF Moves, Alone
  <2>4. Cur(r) = ToSet(req[r].todo) \cup ToSet(req[r].keep)
        /\ Cur(r)' = ToSet(todo) \cup ToSet(req[r].keep)
    BY <2>2, <2>3 DEF Cur
  <2>5. old \notin ToSet(todo) /\ old \notin ToSet(req[r].keep)
    <3>1. r \in Dropping
      BY <2>2 DEF Dropping
    <3> QED
      BY <2>2, <3>1 DEF SplitInv
  <2>6. Cur(r)' = Cur(r) \ {old} /\ old \in Cur(r) /\ Cur(r) \subseteq MadeVersions
    <3>1. Cur(r) \subseteq MadeVersions
      BY <2>3, CurrentIs
    <3> QED
      BY <2>2, <2>4, <2>5, <3>1
  <2>7. ChunksAt(Cur(r))
    BY <2>2, <2>3, ChunksBefore
  <2>8. \A d : Shared(d) => Shared(d)'
    BY <2>2, SharedStays
  <2>9. ASSUME NEW q \in stored', req'[q].kind \in Uploaders, req'[q].phase # "numbered"
        PROVE  \E v \in Cur(r)' : v.data = q
    <3>1. q \in stored /\ q # old.data /\ req[q].kind \in Uploaders /\ req[q].phase # "numbered"
      BY <1>1, <2>2, <2>3, <2>9
    <3>2. PICK v \in Cur(r) : v.data = q
      BY <2>7, <3>1 DEF ChunksAt
    <3> QED
      BY <2>6, <3>1, <3>2
  <2>10. ASSUME NEW v \in Cur(r)'
         PROVE  v.data \in stored' \/ Shared(v.data)'
    <3>1. v \in Cur(r) /\ v # old /\ v \in MadeVersions /\ old \in MadeVersions
      BY <2>6
    <3>2. CASE v.data = old.data
      BY <2>8, <3>1, <3>2, SameChunksShared
    <3>3. CASE v.data # old.data
      BY <2>2, <2>7, <2>8, <3>1, <3>3 DEF ChunksAt
    <3> QED
      BY <3>2, <3>3
  <2>11. \A q \in Requests : req'[q].phase # "numbered"
    BY <2>2, <2>3 DEF InHandler
  <2>12. ChunksAt(Cur(r))'
    BY <2>9, <2>10, <2>11 DEF ChunksAt
  <2> QED
    BY <2>2, <2>12, ChunksAfter
<1>8. ASSUME NEW r \in Requests, InstallList(r)
      PROVE  ChunksInv'
  <2>1. PICK phase :
          /\ Alone(r) /\ req[r].phase = "finish" /\ req[r].todo = <<>> /\ versions' = req[r].keep
          /\ phase \in {"unsave", "saveFile"}
          /\ Moves(r, req[r].kind, phase, req[r].ver, <<>>, <<>>)
          /\ UNCHANGED <<dbFile, dbVersions, stored, restarted>>
    BY <1>8, InstallFacts
  <2>2. Cur(r)' = Cur(r)
    BY <1>1, <2>1 DEF Cur, Moves
  <2>3. phase # "numbered" /\ ~restarted
    BY <2>1
  <2>4. PICK kind, ver : kind = req[r].kind /\ ver = req[r].ver
    OBVIOUS
  <2>5. Moves(r, kind, phase, ver, <<>>, <<>>) /\ Alone(r) /\ stored' = stored
        /\ req[r].phase # "numbered"
    BY <2>1, <2>4
  <2> QED
    BY <2>2, <2>3, <2>4, <2>5, ChunksStay, Zenon
<1>9. ASSUME NEW r \in Requests, SaveFile(r) \/ SaveVersion(r) \/ UnsaveFile(r)
      PROVE  ChunksInv'
  <2>1. PICK phase :
          /\ Alone(r) /\ phase \in {"saveVersion", "done"}
          /\ req[r].phase \in {"saveFile", "saveVersion", "unsave"}
          /\ Moves(r, req[r].kind, phase, req[r].ver, <<>>, <<>>)
          /\ UNCHANGED <<versions, stored, restarted>>
    BY <1>9, SaveFileFacts, SaveVersionFacts, UnsaveFacts
  <2>2. Cur(r)' = Cur(r)
    BY <2>1 DEF Cur, Moves
  <2>3. phase # "numbered" /\ ~restarted /\ req[r].phase # "numbered"
    BY <2>1
  <2>4. PICK kind, ver : kind = req[r].kind /\ ver = req[r].ver
    OBVIOUS
  <2>5. Moves(r, kind, phase, ver, <<>>, <<>>) /\ Alone(r) /\ stored' = stored
        /\ req[r].phase # "numbered"
    BY <2>1, <2>4
  <2> QED
    BY <2>2, <2>3, <2>4, <2>5, ChunksStay, Zenon
<1>10. CASE Restart
  BY <1>10, RestartFacts
<1>11. CASE UNCHANGED vars
  BY <1>11 DEF ChunksInv, vars, Dropping, Current, Shared, MadeVersions, Made
<1> QED
  BY <1>2, <1>3, <1>4, <1>5, <1>6, <1>7, <1>8, <1>9, <1>10, <1>11, StepCases DEF HandlerStep

-----------------------------------------------------------------------------
(* The properties.                                                         *)

\* What holds when handlers run one at a time.
SerialInv ==
    Single /\ FileInv /\ NumbersInv /\ SavedNumbersInv /\ CutInv /\ DataInv /\ ChunksInv

\* SerialInv holds at the start.
LEMMA SerialInit == Init => SerialInv
<1> SUFFICES ASSUME Init
             PROVE  SerialInv
  OBVIOUS
<1>1. /\ file = NoFile /\ versions = <<>> /\ dbFile = NoFile /\ dbVersions = {}
      /\ restarted = FALSE
      /\ \A q \in Requests : req[q].kind = "none" /\ req[q].phase = "idle"
  BY DEF Init, NoRequest
<1>2. /\ ~NoFile.known /\ NoFile.latest = 0 /\ NoFile.count = 0 /\ Len(<<>>) = 0
      /\ ToSet(<<>>) = {} /\ Increasing(<<>>)
  BY DEF NoFile, ToSet, Increasing
<1>3. Single /\ FileInv /\ Dropping = {}
  BY <1>1 DEF Single, FileInv, InHandler, Dropping
<1>4. NumbersInv
  BY <1>1, <1>2, <1>3 DEF NumbersInv, UpToLatest
<1>5. SavedNumbersInv
  BY <1>1, <1>2 DEF SavedNumbersInv, InHandler
<1>6. CutInv
  BY <1>1, <1>2, <1>3, MaxVersionsAssumption DEF CutInv, RetentionInv, CountInv, SplitInv
<1>7. DataInv
  <2>1. Made = {} /\ stored = {} /\ \A q \in Requests : req[q].phase # "uploaded"
    BY <1>1 DEF Init, NoRequest, Made
  <2> QED
    BY <2>1 DEF DataInv
<1>8. ChunksInv
  <2>1. stored = {} /\ MadeVersions = {}
    BY DEF Init, NoRequest, Made, MadeVersions
  <2> QED
    BY <1>1, <2>1 DEF ChunksInv
<1> QED
  BY <1>3, <1>4, <1>5, <1>6, <1>7, <1>8 DEF SerialInv

\* The invariant of handlers that run one at a time: BaseInv, and the numbers and
\* lengths of the list, of the list that is to replace it, and of what is saved.
THEOREM SerialInvariant ==
    ASSUME ~Overlap
    PROVE  Spec => [](BaseInv /\ SerialInv)
<1>1. Init => BaseInv /\ SerialInv
  BY BaseInit, SerialInit
<1>2. BaseInv /\ SerialInv /\ [Next]_vars => BaseInv' /\ SerialInv'
  BY BaseNext, SingleNext, FileNext, NumbersNext, SavedNext, CutNext, DataNext,
     ChunksNext DEF SerialInv, CutInv
<1> QED
  BY <1>1, <1>2, PTL DEF Spec

\* Version numbers are unique and increase along the list, up to LatestVersion, through
\* cleanup, deletion and rollback, and over a stop between any two database writes,
\* until a restart brings back what was deleted with the file.
THEOREM NumbersHold ==
    ASSUME ~Overlap
    PROVE  Spec => []NumbersIncrease
<1>1. SerialInv => NumbersIncrease
  <2>1. Listed = ToSet(versions)
    BY DEF Listed, ToSet
  <2> QED
    BY <2>1 DEF SerialInv, NumbersInv, NumbersIncrease, Increasing, UpToLatest
<1> QED
  BY <1>1, SerialInvariant, PTL

\* A download by the number of a listed version answers with that version.
THEOREM DownloadsHold ==
    ASSUME ~Overlap
    PROVE  Spec => []ListedDownloadsExactly
<1>1. ASSUME BaseInv, SerialInv
      PROVE  ListedDownloadsExactly
  <2> SUFFICES ASSUME Orderly, NEW v \in Listed
               PROVE  Downloads(v.num) /\ Download(v.num) = v
    BY DEF ListedDownloadsExactly, Orderly
  <2>1. /\ versions \in Seq(Version) /\ Len(versions) \in Nat
        /\ DOMAIN versions = 1..Len(versions) /\ file.latest \in Nat
        /\ Increasing(versions) /\ UpToLatest(versions) /\ (versions # <<>> => file.known)
    BY <1>1, LenProperties DEF BaseInv, TypeOK, FileInfo, SerialInv, NumbersInv, Orderly
  <2>11. ASSUME NEW j \in 1..Len(versions)
         PROVE  versions[j] \in Version /\ versions[j].num \in Nat
    <3>1. versions[j] \in Version
      BY <2>1, ElementOfSeq
    <3> QED
      BY <3>1 DEF Version
  <2>2. PICK i \in 1..Len(versions) : v = versions[i]
    BY <2>1 DEF Listed
  <2>3. versions # <<>> /\ file.known
    BY <2>1, <2>2
  <2>4. /\ Find(v.num) \in 1..Len(versions) /\ versions[Find(v.num)].num = v.num
        /\ Find(v.num) # 0
    BY <2>1, <2>2, FindFinds
  <2>5. v \in Version /\ v.num \in Nat /\ v \in MadeVersions
    <3>1. v \in Version
      BY <2>1, <2>2, ElementOfSeq
    <3>2. v \in ToSet(versions)
      BY <2>1, <2>2 DEF ToSet
    <3> QED
      BY <1>1, <3>1, <3>2 DEF Version, BaseInv, ListsInv
  <2>6. v.num # 0
    BY <1>1, <2>5 DEF BaseInv, IdsInv, MadeVersions
  <2>7. \A j, k \in 1..Len(versions) : versions[j].num = versions[k].num => j = k
    <3>1. ASSUME NEW j \in 1..Len(versions), NEW k \in 1..Len(versions),
                 versions[j].num = versions[k].num
          PROVE  j = k
      <4>1. versions[j].num \in Nat /\ versions[k].num \in Nat
        BY <2>11
      <4>2. ~(j < k) /\ ~(k < j)
        BY <2>1, <3>1, <4>1 DEF Increasing
      <4> QED
        BY <4>2
    <3> QED
      BY <3>1
  <2>8. versions[Find(v.num)] = v
    BY <2>2, <2>4, <2>7
  <2>9. CASE v.num = file.latest
    <3>1. Last(versions) = versions[Len(versions)] /\ Len(versions) \in 1..Len(versions)
      BY <2>1, <2>2 DEF Last
    <3>2. i = Len(versions)
      <4>1. versions[Len(versions)].num <= file.latest /\ versions[Len(versions)].num \in Nat
        <5>1. Len(versions) \in 1..Len(versions)
          BY <3>1
        <5>2. versions[Len(versions)] \in ToSet(versions)
          BY <2>1, <5>1 DEF ToSet
        <5> QED
          BY <2>1, <2>11, <5>1, <5>2 DEF UpToLatest
      <4>2. ~(i < Len(versions))
        <5>1. i < Len(versions) => v.num < versions[Len(versions)].num
          BY <2>1, <2>2, <3>1 DEF Increasing
        <5> QED
          BY <2>1, <2>5, <2>9, <4>1, <5>1
      <4>3. i \in Int /\ i <= Len(versions)
        BY <2>1, <2>2
      <4>4. Len(versions) \in Int
        BY <2>1
      <4> QED
        BY <4>2, <4>3, <4>4
    <3> QED
      BY <2>2, <2>3, <2>6, <2>9, <3>1, <3>2 DEF Download, Downloads
  <2>10. CASE v.num # file.latest
    BY <2>3, <2>4, <2>6, <2>8, <2>10 DEF Download, Downloads
  <2> QED
    BY <2>9, <2>10
<1> QED
  BY <1>1, SerialInvariant, PTL

\* No more than MaxVersions are listed until the server restarts, and after a restart
\* from the next version on that is made with a cleanup.
THEOREM RetentionIsKept ==
    ASSUME ~Overlap
    PROVE  Spec => []RetentionHolds
<1>1. SerialInv => RetentionHolds
  <2>1. Quiet => Dropping = {}
    BY DEF Quiet, Dropping, InHandler
  <2> QED
    BY <2>1 DEF SerialInv, CutInv, RetentionInv, RetentionHolds
<1> QED
  BY <1>1, SerialInvariant, PTL

\* What RetentionInv says without looking at kinds.
LimitInv ==
    ~restarted =>
      /\ Dropping = {} => Len(versions) <= MaxVersions
      /\ \A r \in Dropping : Len(req[r].keep) <= MaxVersions

\* Handlers may overlap: whoever installs a list last installs one that was cut.
LEMMA LimitNext ==
    ASSUME BaseInv, LimitInv, Overlap, [Next]_vars
    PROVE  LimitInv'
<1>1. /\ TypeOK /\ MaxVersions \in Nat \ {0} /\ Len(versions) \in Nat
      /\ Kinds \subseteq {"create", "rollback"}
      /\ \A r \in Requests : PhaseAt(req[r])
  BY MaxVersionsAssumption, OverlapAssumption, LenProperties DEF BaseInv, TypeOK, PhaseInv
<1>2. ASSUME NEW r \in Requests, r \in Dropping' <=> r \in Dropping,
             req'[r].keep = req[r].keep,
             \A q \in Requests : q # r => req'[q] = req[q],
             versions' = versions, restarted' = restarted
      PROVE  LimitInv'
  <2>1. Dropping' = Dropping /\ \A q \in Requests : req'[q].keep = req[q].keep
    BY <1>2 DEF Dropping
  <2> QED
    BY <1>2, <2>1 DEF LimitInv, Dropping
<1>3. ASSUME NEW r \in Requests, Upload(r)
      PROVE  LimitInv'
  <2>1. /\ Becomes(r, req[r].kind, "uploaded", req[r].ver, req[r].todo, req[r].keep)
        /\ req[r].phase = "idle" /\ UNCHANGED <<versions, restarted>>
    BY <1>1, <1>3, UploadEffect DEF Upload
  <2>2. /\ r \in Dropping' <=> r \in Dropping
        /\ req'[r].keep = req[r].keep
        /\ \A q \in Requests : q # r => req'[q] = req[q]
        /\ versions' = versions /\ restarted' = restarted
    BY <2>1 DEF Becomes, Dropping
  <2> QED
    BY <1>2, <2>2
<1>4. ASSUME NEW r \in Requests, CreateVersion(r)
      PROVE  LimitInv'
  <2>1. Becomes(r, "create", "numbered", NextVersion(file', r), req[r].todo, req[r].keep)
    BY <1>1, <1>4, CreateEffect
  <2>2. req[r].phase = "uploaded" /\ UNCHANGED <<versions, restarted>>
    BY <1>4 DEF CreateVersion, Admit
  <2>3. /\ r \in Dropping' <=> r \in Dropping
        /\ req'[r].keep = req[r].keep
        /\ \A q \in Requests : q # r => req'[q] = req[q]
        /\ versions' = versions /\ restarted' = restarted
    BY <2>1, <2>2 DEF Becomes, Dropping
  <2> QED
    BY <1>2, <2>3
<1>5. ASSUME NEW r \in Requests, NEW num, RollbackFile(r, num)
      PROVE  LimitInv'
  <2>1. Becomes(r, "rollback", "numbered",
                NextVersion(file, versions[Find(num)].data), req[r].todo, req[r].keep)
    BY <1>1, <1>5, RollbackEffect
  <2>2. req[r].phase = "idle" /\ UNCHANGED <<versions, restarted>>
    BY <1>5 DEF RollbackFile, Admit
  <2>3. /\ r \in Dropping' <=> r \in Dropping
        /\ req'[r].keep = req[r].keep
        /\ \A q \in Requests : q # r => req'[q] = req[q]
        /\ versions' = versions /\ restarted' = restarted
    BY <2>1, <2>2 DEF Becomes, Dropping
  <2> QED
    BY <1>2, <2>3
<1>6. ASSUME NEW r \in Requests, AppendVersion(r)
      PROVE  LimitInv'
  <2> DEFINE drop == Excess(req[r].kind, Len(versions) + 1)
             keep == SubSeq(versions', drop + 1, Len(versions'))
  <2>1. /\ Becomes(r, req[r].kind, IF drop > 0 THEN "drop" ELSE "saveFile", req[r].ver,
                   SubSeq(versions', 1, drop), keep)
        /\ req[r].phase = "numbered" /\ drop \in 0..Len(versions)
        /\ versions' \in Seq(Version) /\ Len(versions') = Len(versions) + 1
    BY <1>6, AppendEffect
  <2>2. restarted' = restarted
    BY <1>6 DEF AppendVersion
  <2>3. req[r].kind \in {"create", "rollback"}
    BY <1>1, <2>1, RequestShape DEF PhaseAt
  <2>4. drop = (IF Len(versions) + 1 > MaxVersions THEN Len(versions) + 1 - MaxVersions ELSE 0)
    <3>1. req[r].kind # "meta"
      BY <2>3
    <3> QED
      BY <1>1, <3>1 DEF Excess
  <2>5. Len(keep) = Len(versions) + 1 - drop
    <3>1. ASSUME NEW s \in Seq(Version), NEW d \in 0..Len(s)
          PROVE  Len(SubSeq(s, d + 1, Len(s))) = Len(s) - d
      BY <3>1, LenProperties
    <3>2. drop \in 0..Len(versions')
      BY <1>1, <2>1
    <3> QED
      BY <1>1, <2>1, <3>1, <3>2
  <2> HIDE DEF drop, keep
  <2>6. CASE drop > 0
    <3>1. r \in Dropping' /\ req'[r].keep = keep /\ Len(keep) <= MaxVersions
      BY <1>1, <2>1, <2>4, <2>5, <2>6 DEF Becomes, Dropping
    <3>2. \A q \in Requests : q # r =>
            req'[q].keep = req[q].keep /\ (q \in Dropping' <=> q \in Dropping)
      BY <2>1 DEF Becomes, Dropping
    <3> QED
      BY <2>2, <3>1, <3>2 DEF LimitInv, Dropping
  <2>7. CASE ~(drop > 0)
    <3>1. Len(versions') <= MaxVersions
      BY <1>1, <2>1, <2>4, <2>7
    <3>2. \A q \in Requests : q \in Dropping' => q \in Dropping /\ req'[q].keep = req[q].keep
      BY <2>1, <2>7 DEF Becomes, Dropping
    <3> QED
      BY <2>2, <3>1, <3>2 DEF LimitInv, Dropping
  <2> QED
    BY <2>6, <2>7
<1>7. ASSUME NEW r \in Requests, DropChunks(r)
      PROVE  LimitInv'
  <2>1. Becomes(r, req[r].kind, IF Tail(req[r].todo) = <<>> THEN "finish" ELSE "drop",
                req[r].ver, Tail(req[r].todo), req[r].keep)
    BY <1>1, <1>7, DropEffect
  <2>2. req[r].phase = "drop" /\ UNCHANGED <<versions, restarted>>
    BY <1>7 DEF DropChunks
  <2>3. /\ r \in Dropping' <=> r \in Dropping
        /\ req'[r].keep = req[r].keep
        /\ \A q \in Requests : q # r => req'[q] = req[q]
        /\ versions' = versions /\ restarted' = restarted
    BY <2>1, <2>2 DEF Becomes, Dropping
  <2> QED
    BY <1>2, <2>3
<1>8. ASSUME NEW r \in Requests, InstallList(r)
      PROVE  LimitInv'
  <2>1. Becomes(r, req[r].kind, IF req[r].kind = "deleteFile" THEN "unsave" ELSE "saveFile",
                req[r].ver, req[r].todo, <<>>)
    BY <1>1, <1>8, InstallEffect
  <2>2. req[r].phase = "finish" /\ versions' = req[r].keep /\ restarted' = restarted
    BY <1>8 DEF InstallList
  <2>3. r \in Dropping /\ \A q \in Dropping' : q \in Dropping /\ req'[q].keep = req[q].keep
    BY <2>1, <2>2 DEF Becomes, Dropping
  <2> QED
    BY <2>1, <2>2, <2>3 DEF LimitInv
<1>9. ASSUME NEW r \in Requests, SaveFile(r)
      PROVE  LimitInv'
  <2>1. Becomes(r, req[r].kind,
                IF req[r].kind = "deleteVersion" THEN "done" ELSE "saveVersion",
                req[r].ver, req[r].todo, <<>>)
    BY <1>1, <1>9, SaveFileEffect
  <2>2. req[r].phase = "saveFile" /\ UNCHANGED <<versions, restarted>>
    BY <1>9 DEF SaveFile
  <2>3. Dropping' = Dropping /\ \A q \in Dropping : req'[q].keep = req[q].keep
    BY <2>1, <2>2 DEF Becomes, Dropping
  <2> QED
    BY <2>1, <2>2, <2>3 DEF LimitInv
<1>10. ASSUME NEW r \in Requests, SaveVersion(r)
       PROVE  LimitInv'
  <2>1. /\ Becomes(r, req[r].kind, "done", req[r].ver, req[r].todo, req[r].keep)
        /\ req[r].phase = "saveVersion" /\ UNCHANGED <<versions, restarted>>
    BY <1>1, <1>10, SaveVersionEffect DEF SaveVersion
  <2>2. /\ r \in Dropping' <=> r \in Dropping
        /\ req'[r].keep = req[r].keep
        /\ \A q \in Requests : q # r => req'[q] = req[q]
        /\ versions' = versions /\ restarted' = restarted
    BY <2>1 DEF Becomes, Dropping
  <2> QED
    BY <1>2, <2>2
<1>11. ASSUME NEW r \in Requests, UnsaveFile(r)
       PROVE  LimitInv'
  <2>1. /\ Becomes(r, req[r].kind, "done", req[r].ver, req[r].todo, req[r].keep)
        /\ req[r].phase = "unsave" /\ UNCHANGED <<versions, restarted>>
    BY <1>1, <1>11, UnsaveEffect DEF UnsaveFile
  <2>2. /\ r \in Dropping' <=> r \in Dropping
        /\ req'[r].keep = req[r].keep
        /\ \A q \in Requests : q # r => req'[q] = req[q]
        /\ versions' = versions /\ restarted' = restarted
    BY <2>1 DEF Becomes, Dropping
  <2> QED
    BY <1>2, <2>2
<1>12. ASSUME Restart
       PROVE  LimitInv'
  <2>1. restarted' = TRUE
    BY <1>12, Zenon DEF Restart
  <2> QED
    BY <2>1 DEF LimitInv
<1>13. ASSUME UNCHANGED vars
       PROVE  LimitInv'
  <2>1. Dropping' = Dropping /\ req' = req /\ versions' = versions /\ restarted' = restarted
    BY <1>13 DEF vars, Dropping
  <2> QED
    BY <2>1 DEF LimitInv
<1>14. \A r \in Requests :
         ~CreateFileMeta(r) /\ ~DeleteFile(r) /\ \A num : ~DeleteVersion(r, num)
  <2>1. "meta" \notin Kinds /\ "deleteFile" \notin Kinds /\ "deleteVersion" \notin Kinds
    BY <1>1
  <2> QED
    BY <2>1, Zenon DEF CreateFileMeta, DeleteVersion, DeleteFile, Admit
<1> QED
  BY <1>3, <1>4, <1>5, <1>6, <1>7, <1>8, <1>9, <1>10, <1>11, <1>12, <1>13, <1>14,
     StepCases DEF HandlerStep

\* Whether handlers overlap or not, a list that no request is changing is within the
\* limit until the server restarts.
THEOREM RetentionUntilRestart == Spec => [](restarted \/ OldestIsDeleted)
<1>1. CASE ~Overlap
  <2>1. RetentionHolds => restarted \/ OldestIsDeleted
    BY DEF RetentionHolds, OldestIsDeleted
  <2> QED
    BY <1>1, <2>1, RetentionIsKept, PTL
<1>2. CASE Overlap
  <2>1. Init => LimitInv
    <3>1. ASSUME Init PROVE Dropping = {} /\ Len(versions) = 0 /\ 0 <= MaxVersions
      BY <3>1, MaxVersionsAssumption DEF Init, NoRequest, Dropping
    <3> QED
      BY <3>1 DEF LimitInv
  <2>2. BaseInv /\ LimitInv /\ [Next]_vars => LimitInv'
    BY <1>2, LimitNext
  <2>3. LimitInv => restarted \/ OldestIsDeleted
    <3>1. Quiet => Dropping = {}
      BY DEF Quiet, Dropping, InHandler
    <3> QED
      BY <3>1 DEF LimitInv, OldestIsDeleted
  <2> QED
    BY <2>1, <2>2, <2>3, BaseInvariant, PTL DEF Spec
<1> QED
  BY <1>1, <1>2

\* Between requests VersionCount is the length of the list, until a restart.
THEOREM CountHolds ==
    ASSUME ~Overlap
    PROVE  Spec => []CountIsLength
<1>1. SerialInv => CountIsLength
  <2>1. Quiet => Dropping = {}
    BY DEF Quiet, Dropping, InHandler
  <2> QED
    BY <2>1 DEF SerialInv, CutInv, CountInv, CountIsLength
<1> QED
  BY <1>1, SerialInvariant, PTL

\* The chunks of a finished upload are kept only while a version lists them.
THEOREM NoStaleChunksHold ==
    ASSUME ~Overlap
    PROVE  Spec => []NoStaleChunks
<1>1. ASSUME BaseInv, SerialInv
      PROVE  NoStaleChunks
  <2> SUFFICES ASSUME Quiet, ~restarted, NEW r \in stored, req[r].phase = "done"
               PROVE  \E v \in Listed : v.data = r
    BY DEF NoStaleChunks
  <2>1. r \in Requests /\ PhaseAt(req[r])
    BY <1>1 DEF BaseInv, TypeOK, PhaseInv
  <2>2. req[r].kind \in Uploaders
    BY <1>1, <2>1 DEF SerialInv, DataInv, PhaseAt
  <2>3. Dropping = {}
    BY DEF Quiet, Dropping, InHandler
  <2>4. PICK v : Current(v) /\ v.data = r
    BY <1>1, <2>2 DEF SerialInv, ChunksInv
  <2>5. v \in ToSet(versions)
    BY <2>3, <2>4 DEF Current
  <2> QED
    BY <2>4, <2>5 DEF Listed, ToSet
<1> QED
  BY <1>1, SerialInvariant, PTL

\* A listed version has its chunks unless a rollback shared them.
THEOREM ListedStored ==
    ASSUME ~Overlap
    PROVE  Spec => []ListedIsStored
<1>1. ASSUME BaseInv, SerialInv
      PROVE  ListedIsStored
  <2> SUFFICES ASSUME Quiet, ~restarted, NEW v \in Listed
               PROVE  v.data \in stored \/ Shared(v.data)
    BY DEF ListedIsStored, Shared
  <2>1. Dropping = {}
    BY DEF Quiet, Dropping, InHandler
  <2>2. v \in ToSet(versions)
    BY DEF Listed, ToSet
  <2>3. Current(v) /\ v \in MadeVersions
    BY <1>1, <2>1, <2>2 DEF Current, BaseInv, ListsInv
  <2> QED
    BY <1>1, <2>3 DEF SerialInv, ChunksInv
<1> QED
  BY <1>1, SerialInvariant, PTL

=============================================================================
