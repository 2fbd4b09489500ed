------------------------------ MODULE FileVersions ------------------------------
(***************************************************************************)
(* The versions of one file on the central server (internal/server/        *)
(* file_manager.go, version.go, and the Files and Replicas buckets of      *)
(* persistence.go).  Files share nothing, so one file id is modelled.      *)
(*                                                                         *)
(* Handlers hold no lock.  A handler is split where time passes inside it: *)
(* between reading the file and publishing the version, at each chunk      *)
(* deletion (an HTTP call per replica) and at each database write.  The    *)
(* server can stop at each of these points, and with Overlap another       *)
(* request can get in between.                                             *)
(*                                                                         *)
(* A version's ChunkIDs are abstracted to the upload that made them: the   *)
(* chunks of one upload are registered together and deleted together.      *)
(* What happens to their bytes is the subject of ChunkStore.               *)
(***************************************************************************)
EXTENDS Integers, SequencesExt

CONSTANTS
    Requests,       \* requests for the file, each sent once
    Kinds,          \* what they ask for, a subset of AllKinds
    MaxVersions,    \* FileInfo.MaxVersions: 3 in the code
    Overlap,        \* whether handlers of the file overlap
    Restarts        \* whether the server stops and restarts

AllKinds == {"create", "meta", "rollback", "deleteVersion", "deleteFile"}

ASSUME RequestsAssumption    == IsFiniteSet(Requests)
ASSUME MaxVersionsAssumption == MaxVersions \in Nat \ {0}
ASSUME KindsAssumption       == Kinds \subseteq AllKinds
ASSUME RestartsAssumption    == Restarts \in BOOLEAN

\* deleteVersion shifts the version list in place, under readers that hold the same
\* array; lists here are values, so overlap is modelled for appending requests only.
ASSUME OverlapAssumption ==
    /\ Overlap \in BOOLEAN
    /\ Overlap => Kinds \subseteq {"create", "rollback"}

VARIABLES
    file,       \* FileManager.files[fileID]
    versions,   \* FileManager.versions[fileID]
    dbFile,     \* the file's record in the Files bucket
    dbVersions, \* the file's records in the Replicas bucket
    stored,     \* the uploads whose chunks StorageManager knows
    req,        \* progress of each request
    restarted   \* whether the server has restarted

vars == <<file, versions, dbFile, dbVersions, stored, req, restarted>>

-----------------------------------------------------------------------------
(* Records.                                                                *)

\* id is the VersionID, a nanosecond clock: versions count up in the order in which
\* they are made.  data is the upload whose chunks the version lists.
Version   == [id : 1..Cardinality(Requests), num : Nat, data : Requests]
NoVersion == [id |-> 0]

FileInfo == [known : BOOLEAN, latest : Nat, count : Int]
NoFile   == [known |-> FALSE, latest |-> 0, count |-> 0]
NewFile  == [known |-> TRUE, latest |-> 0, count |-> 0]

Phase == {"idle", "uploaded", "numbered", "drop", "finish",
          "saveFile", "saveVersion", "unsave", "done", "aborted"}
InHandler == {"numbered", "drop", "finish", "saveFile", "saveVersion", "unsave"}

Request == [kind  : Kinds \cup {"none"},
            phase : Phase,
            ver   : Version \cup {NoVersion},   \* the version it makes
            todo  : Seq(Version),               \* versions to drop the chunks of
            keep  : Seq(Version)]               \* the list to install afterwards
NoRequest == [kind |-> "none", phase |-> "idle", ver |-> NoVersion,
              todo |-> <<>>, keep |-> <<>>]

TypeOK ==
    /\ file       \in FileInfo
    /\ versions   \in Seq(Version)
    /\ dbFile     \in FileInfo
    /\ dbVersions \in SUBSET Version
    /\ stored     \in SUBSET Requests
    /\ req        \in [Requests -> Request]
    /\ restarted  \in BOOLEAN

Init ==
    /\ file       = NoFile
    /\ versions   = <<>>
    /\ dbFile     = NoFile
    /\ dbVersions = {}
    /\ stored     = {}
    /\ req        = [r \in Requests |-> NoRequest]
    /\ restarted  = FALSE

Quiet == \A r \in Requests : req[r].phase \notin InHandler

\* The handler of r may start.
Admit(r, kind, phase) ==
    /\ kind \in Kinds
    /\ req[r].phase = phase
    /\ Overlap \/ Quiet

\* Mutant: numbered by the count of versions.
NextByCount(f, data) ==
    [id   |-> 1 + Cardinality({q \in Requests : req[q].ver # NoVersion}),
     num  |-> f.count + 1,
     data |-> data]

\* The version a handler makes when it finds f in the file map.
NextVersion(f, data) ==
    [id   |-> 1 + Cardinality({q \in Requests : req[q].ver # NoVersion}),
     num  |-> f.latest + 1,
     data |-> data]

\* The place of the first version with this number, 0 if there is none.
Find(num) == SelectInSeq(versions, LAMBDA v : v.num = num)

\* The order of a set of versions by number, as CleanupOldVersions sorts, and by id, in
\* which the Replicas bucket is read.
ByNumber(S) ==
    {p \in S \X S : \/ p[1].num < p[2].num
                    \/ p[1].num = p[2].num /\ p[1].id < p[2].id}
ById(S) == {p \in S \X S : p[1].id < p[2].id}

\* The elements of a set, each at the place that the number of those before it gives.
InOrder(S, before) ==
    AntiFunction([v \in S |-> 1 + Cardinality({w \in S : <<w, v>> \in before})])

-----------------------------------------------------------------------------
(* Requests that make a version.                                           *)

\* The client has written and confirmed the chunks of what it is about to publish.
Upload(r) ==
    /\ req[r].phase = "idle"
    /\ Kinds \cap {"create", "meta"} # {}
    /\ stored' = stored \cup {r}
    /\ req' = [req EXCEPT ![r].phase = "uploaded"]
    /\ UNCHANGED <<file, versions, dbFile, dbVersions, restarted>>

\* POST /version/create, and the end of uploadFile, whose file id is always new.
CreateVersion(r) ==
    /\ Admit(r, "create", "uploaded")
    /\ file' = IF file.known THEN file ELSE NewFile
    /\ req' = [req EXCEPT ![r] =
          [@ EXCEPT !.kind = "create", !.phase = "numbered",
                    !.ver = NextVersion(file', r)]]
    /\ UNCHANGED <<versions, dbFile, dbVersions, stored, restarted>>

\* POST /files.  Only the web page sends it, with a file id it has just made up.
CreateFileMeta(r) ==
    /\ Admit(r, "meta", "uploaded")
    /\ \A q \in Requests : req[q].kind = "none"
    /\ file' = NewFile
    /\ req' = [req EXCEPT ![r] =
          [@ EXCEPT !.kind = "meta", !.phase = "numbered",
                    !.ver = NextVersion(file', r)]]
    /\ UNCHANGED <<versions, dbFile, dbVersions, stored, restarted>>

\* POST /files/{id}/rollback: the new version lists the target's chunks.
RollbackFile(r, num) ==
    /\ Admit(r, "rollback", "idle")
    /\ file.known
    /\ Find(num) # 0
    /\ req' = [req EXCEPT ![r] =
          [@ EXCEPT !.kind = "rollback", !.phase = "numbered",
                    !.ver = NextVersion(file, versions[Find(num)].data)]]
    /\ UNCHANGED <<file, versions, dbFile, dbVersions, stored, restarted>>

\* Mutant: one version more than allowed is kept.
ExcessOffByOne(kind, n) ==
    IF kind # "meta" /\ n > MaxVersions + 1 THEN n - MaxVersions - 1 ELSE 0

\* How many of the n versions of a list CleanupOldVersions drops; createFileMeta does
\* not call it.
Excess(kind, n) == IF kind # "meta" /\ n > MaxVersions THEN n - MaxVersions ELSE 0

\* Mutant: the list keeps the newest version that was dropped.
AppendKeepsOne(r) ==
    LET ver  == req[r].ver
        all  == Append(versions, ver)
        drop == Excess(req[r].kind, Len(all))
        list == IF drop > 0 THEN InOrder(ToSet(all), ByNumber(ToSet(all))) ELSE all
    IN  /\ req[r].phase = "numbered"
        /\ file' = [file EXCEPT !.latest = ver.num, !.count = @ + 1]
        /\ versions' = list
        /\ req' = [req EXCEPT ![r] =
              [@ EXCEPT !.phase = IF drop > 0 THEN "drop" ELSE "saveFile",
                        !.todo = SubSeq(list, 1, drop),
                        !.keep = SubSeq(list, IF drop > 0 THEN drop ELSE 1, Len(list))]]
        /\ UNCHANGED <<dbFile, dbVersions, stored, restarted>>

\* Mutant: the newest versions are dropped instead of the oldest.
AppendKeepsOldest(r) ==
    LET ver  == req[r].ver
        all  == Append(versions, ver)
        drop == Excess(req[r].kind, Len(all))
        list == IF drop > 0 THEN InOrder(ToSet(all), ByNumber(ToSet(all))) ELSE all
        left == Len(list) - drop
    IN  /\ req[r].phase = "numbered"
        /\ file' = [file EXCEPT !.latest = ver.num, !.count = @ + 1]
        /\ versions' = list
        /\ req' = [req EXCEPT ![r] =
              [@ EXCEPT !.phase = IF drop > 0 THEN "drop" ELSE "saveFile",
                        !.todo = SubSeq(list, left + 1, Len(list)),
                        !.keep = SubSeq(list, 1, left)]]
        /\ UNCHANGED <<dbFile, dbVersions, stored, restarted>>

\* The version enters the file and the list; CleanupOldVersions sorts a list that is
\* too long and splits it.
AppendVersion(r) ==
    LET ver  == req[r].ver
        all  == Append(versions, ver)
        drop == Excess(req[r].kind, Len(all))
        list == IF drop > 0 THEN InOrder(ToSet(all), ByNumber(ToSet(all))) ELSE all
    IN  /\ req[r].phase = "numbered"
        /\ file' = [file EXCEPT !.latest = ver.num, !.count = @ + 1]
        /\ versions' = list
        /\ req' = [req EXCEPT ![r] =
              [@ EXCEPT !.phase = IF drop > 0 THEN "drop" ELSE "saveFile",
                        !.todo = SubSeq(list, 1, drop),
                        !.keep = SubSeq(list, drop + 1, Len(list))]]
        /\ UNCHANGED <<dbFile, dbVersions, stored, restarted>>

-----------------------------------------------------------------------------
(* Requests that delete.                                                   *)

\* DELETE /files/{id}/versions/{num}
DeleteVersion(r, num) ==
    /\ Admit(r, "deleteVersion", "idle")
    /\ file.known
    /\ Find(num) # 0
    /\ req' = [req EXCEPT ![r] =
          [@ EXCEPT !.kind = "deleteVersion", !.phase = "drop",
                    !.todo = <<versions[Find(num)]>>,
                    !.keep = RemoveAt(versions, Find(num))]]
    /\ UNCHANGED <<file, versions, dbFile, dbVersions, stored, restarted>>

\* DELETE /files/{id}
DeleteFile(r) ==
    /\ Admit(r, "deleteFile", "idle")
    /\ file.known
    /\ req' = [req EXCEPT ![r] =
          [@ EXCEPT !.kind = "deleteFile",
                    !.phase = IF versions = <<>> THEN "finish" ELSE "drop",
                    !.todo = versions]]
    /\ UNCHANGED <<file, versions, dbFile, dbVersions, stored, restarted>>

-----------------------------------------------------------------------------
(* The rest of the handlers.                                               *)

\* Mutant: deleteVersion does not count down.
DropUncounted(r) ==
    LET old == Head(req[r].todo)
        rest == Tail(req[r].todo)
    IN  /\ req[r].phase = "drop"
        /\ stored' = stored \ {old.data}
        /\ file' = IF req[r].kind \in {"deleteFile", "deleteVersion"} THEN file
                   ELSE [file EXCEPT !.count = @ - 1]
        /\ req' = [req EXCEPT ![r] =
              [@ EXCEPT !.phase = IF rest = <<>> THEN "finish" ELSE "drop",
                        !.todo = rest]]
        /\ UNCHANGED <<versions, dbFile, dbVersions, restarted>>

\* Mutant: versions go, their chunks stay.
DropNothing(r) ==
    LET rest == Tail(req[r].todo)
    IN  /\ req[r].phase = "drop"
        /\ file' = IF req[r].kind = "deleteFile" THEN file
                   ELSE [file EXCEPT !.count = @ - 1]
        /\ req' = [req EXCEPT ![r] =
              [@ EXCEPT !.phase = IF rest = <<>> THEN "finish" ELSE "drop",
                        !.todo = rest]]
        /\ UNCHANGED <<versions, dbFile, dbVersions, stored, restarted>>

\* The chunks of the next version to drop are forgotten and deleted at their nodes;
\* that they may be gone already is only logged.
DropChunks(r) ==
    LET old == Head(req[r].todo)
        rest == Tail(req[r].todo)
    IN  /\ req[r].phase = "drop"
        /\ stored' = stored \ {old.data}
        /\ file' = IF req[r].kind = "deleteFile" THEN file
                   ELSE [file EXCEPT !.count = @ - 1]
        /\ req' = [req EXCEPT ![r] =
              [@ EXCEPT !.phase = IF rest = <<>> THEN "finish" ELSE "drop",
                        !.todo = rest]]
        /\ UNCHANGED <<versions, dbFile, dbVersions, restarted>>

\* Whatever happened to the list since it was read is overwritten.
InstallList(r) ==
    /\ req[r].phase = "finish"
    /\ versions' = req[r].keep
    /\ file' = IF req[r].kind = "deleteFile" THEN NoFile ELSE file
    /\ req' = [req EXCEPT ![r] =
          [@ EXCEPT !.phase = IF req[r].kind = "deleteFile" THEN "unsave"
                              ELSE "saveFile",
                    !.keep = <<>>]]
    /\ UNCHANGED <<dbFile, dbVersions, stored, restarted>>

\* Mutant: deleteVersion saves the version it never made.
SaveFileAndVersion(r) ==
    /\ req[r].phase = "saveFile"
    /\ dbFile' = file
    /\ req' = [req EXCEPT ![r] = [@ EXCEPT !.phase = "saveVersion", !.keep = <<>>]]
    /\ UNCHANGED <<file, versions, dbVersions, stored, restarted>>

\* Mutant: rollback saves only the file.
SaveFileOnly(r) ==
    /\ req[r].phase = "saveFile"
    /\ dbFile' = file
    /\ req' = [req EXCEPT ![r] =
          [@ EXCEPT !.phase = IF req[r].kind \in {"deleteVersion", "rollback"}
                              THEN "done" ELSE "saveVersion",
                    !.keep = <<>>]]
    /\ UNCHANGED <<file, versions, dbVersions, stored, restarted>>

SaveFile(r) ==
    /\ req[r].phase = "saveFile"
    /\ dbFile' = file
    /\ req' = [req EXCEPT ![r] =
          [@ EXCEPT !.phase = IF req[r].kind = "deleteVersion" THEN "done"
                              ELSE "saveVersion",
                    !.keep = <<>>]]
    /\ UNCHANGED <<file, versions, dbVersions, stored, restarted>>

SaveVersion(r) ==
    /\ req[r].phase = "saveVersion"
    /\ dbVersions' = dbVersions \cup {req[r].ver}
    /\ req' = [req EXCEPT ![r].phase = "done"]
    /\ UNCHANGED <<file, versions, dbFile, stored, restarted>>

\* deleteFile removes the saved file.  No operation removes a saved version.
UnsaveFile(r) ==
    /\ req[r].phase = "unsave"
    /\ dbFile' = NoFile
    /\ req' = [req EXCEPT ![r].phase = "done"]
    /\ UNCHANGED <<file, versions, dbVersions, stored, restarted>>

\* The server stops, with whatever its handlers were doing, and loadData reads the
\* buckets back; LoadVersions yields versions in the order of their ids.
Restart ==
    /\ Restarts
    /\ file' = dbFile
    /\ versions' = InOrder(dbVersions, ById(dbVersions))
    /\ req' = [r \in Requests |->
                 IF req[r].phase \in InHandler
                 THEN [req[r] EXCEPT !.phase = "aborted", !.todo = <<>>, !.keep = <<>>]
                 ELSE req[r]]
    /\ restarted' = TRUE
    /\ UNCHANGED <<dbFile, dbVersions, stored>>

-----------------------------------------------------------------------------
(* downloadFile: 0 asks for the newest version.                            *)

\* Mutant: the count of versions is taken for the number of the newest.
DownloadByCount(num) ==
    IF num = 0 \/ num = file.count THEN Last(versions) ELSE versions[Find(num)]

Download(num) ==
    IF num = 0 \/ num = file.latest THEN Last(versions) ELSE versions[Find(num)]

Downloads(num) ==
    /\ file.known
    /\ versions # <<>>
    /\ num = 0 \/ num = file.latest \/ Find(num) # 0

-----------------------------------------------------------------------------

Next ==
    \/ \E r \in Requests :
         \/ Upload(r)
         \/ CreateVersion(r)
         \/ CreateFileMeta(r)
         \/ \E num \in 1..Cardinality(Requests) :
              RollbackFile(r, num) \/ DeleteVersion(r, num)
         \/ AppendVersion(r)
         \/ DeleteFile(r)
         \/ DropChunks(r)
         \/ InstallList(r)
         \/ SaveFile(r)
         \/ SaveVersion(r)
         \/ UnsaveFile(r)
    \/ Restart

Spec == Init /\ [][Next]_vars

-----------------------------------------------------------------------------
(* Properties.                                                             *)

Listed == {versions[i] : i \in DOMAIN versions}

Used(kind) == \E r \in Requests : req[r].kind = kind

\* A version the server lists is in the Replicas bucket, unless the handler that made
\* it is still at work: an answered request is not lost by a stop at any point.
ListedIsSaved ==
    \A v \in Listed :
      v \in dbVersions \/ \E r \in Requests : req[r].ver = v /\ req[r].phase \in InHandler

\* Version numbers are unique and increase along the list, and LatestVersion is not
\* behind, through crashes between any two database writes: SaveFile comes before
\* SaveVersion.  A file that was deleted and made again starts over at 1, which is
\* right only until a restart brings the old versions back.
NumbersIncrease ==
    ~(restarted /\ Used("deleteFile")) =>
      /\ \A i, j \in DOMAIN versions : i < j => versions[i].num < versions[j].num
      /\ \A v \in Listed : v.num <= file.latest

\* A download by the number of a listed version answers with that version, however the
\* list was cut, sorted, deleted from and loaded back: the short cut for the number
\* LatestVersion never leads to another.  (The number of a newest version that was
\* deleted does lead to another.)
ListedDownloadsExactly ==
    ~(restarted /\ Used("deleteFile")) =>
      \A v \in Listed : Downloads(v.num) /\ Download(v.num) = v

Answered(r) == req[r].phase = "done" /\ req[r].ver # NoVersion

\* A number that a client was told names one version for ever: it is not given again
\* after its version was deleted or dropped, nor after a stop between the two writes
\* that save it.  (Deleting the file starts the numbers over.)
AnsweredNumbersUnique ==
    ~Used("deleteFile") =>
      \A p, q \in Requests :
        Answered(p) /\ Answered(q) /\ req[p].ver.num = req[q].ver.num => p = q

\* Nothing but a deletion takes an answered version off the list except the limit, and
\* that only for newer ones that fill it: no cleanup, rollback, failed request or restart
\* loses one.
AnsweredIsListed ==
    Quiet /\ ~Used("deleteVersion") /\ ~Used("deleteFile") =>
      \A r \in Requests :
        Answered(r) /\ req[r].ver \notin Listed =>
          /\ Len(versions) = MaxVersions
          /\ \A v \in Listed : v.num > req[r].ver.num

\* No more than MaxVersions are listed: always until the server restarts, and after a
\* restart as soon as the next version is made.
RetentionHolds ==
    \/ ~restarted /\ Quiet
    \/ \E r \in Requests :
         /\ req[r].kind \in {"create", "rollback"}
         /\ req[r].phase \in {"saveFile", "saveVersion"}
    => Len(versions) <= MaxVersions

\* Between requests VersionCount is the length of the list.  (It drifts, even below
\* zero, once a restart has brought dropped versions back.)
CountIsLength ==
    Quiet /\ ~restarted => file.count = Len(versions)

\* The chunks of a finished upload are kept only while a version lists them.
NoStaleChunks ==
    Quiet /\ ~restarted =>
      \A r \in stored :
        req[r].phase = "done" => \E v \in Listed : v.data = r

\* A listed version has its chunks unless a rollback shared them, whichever versions
\* were dropped or deleted around it.
ListedIsStored ==
    Quiet /\ ~restarted =>
      \A v \in Listed :
        \/ v.data \in stored
        \/ \E r \in Requests : req[r].kind = "rollback" /\ req[r].ver.data = v.data

\* The list as it is once the request that is changing it is done, and the chunks as
\* they are then.
SettledList ==
    IF \E r \in Requests : req[r].phase \in {"drop", "finish"}
    THEN req[CHOOSE r \in Requests : req[r].phase \in {"drop", "finish"}].keep
    ELSE versions

Doomed == UNION {{v.data : v \in ToSet(req[r].todo)} : r \in Requests}

Settled == INSTANCE VersionList WITH
    Limit  <- MaxVersions,
    list   <- [i \in DOMAIN SettledList |-> {SettledList[i].data}],
    stored <- stored \ Doomed

\* Requests that do not overlap take effect at once, as VersionList says: a reader never
\* has to know that sorting, cutting, deleting chunk by chunk and installing the list
\* are steps.  A restart changes the list by itself, to one that goes on like this, as
\* long as it brings back no version of a deleted file.
ImplementsVersionList ==
    /\ Settled!Init
    /\ [][Settled!Next \/ Restart \/ (restarted /\ Used("deleteFile"))]_(Settled!lvars)

-----------------------------------------------------------------------------
(* What the documentation promises and the code does not keep.             *)

\* docs/design.md:63 "rollback makes a new version with the content of the target":
\* the version a finished rollback made still has its chunks.
RollbackKeepsContent ==
    \A r \in Requests :
      req[r].kind = "rollback" /\ req[r].phase = "done" /\ req[r].ver \in Listed /\ Quiet
        => req[r].ver.data \in stored

\* docs/design.md:61 "3 versions by default, the oldest is deleted beyond": whenever
\* no request is at work, at most MaxVersions are listed.
OldestIsDeleted ==
    Quiet => Len(versions) <= MaxVersions
=============================================================================
