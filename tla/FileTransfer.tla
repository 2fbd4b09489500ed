------------------------------ MODULE FileTransfer ------------------------------
(***************************************************************************)
(* Files on their way into the store and out of it again: the upload of    *)
(* the command line client (internal/client/uploader.go), of the web page  *)
(* (web/index.html) and of the server (uploadFile), each with its loop     *)
(* over the chunks and its way to publish a version; the client's          *)
(* encryption key (internal/server/encryption_api.go); downloads through   *)
(* the server (downloadFile) and by the client (downloader.go).            *)
(*                                                                         *)
(* Writing one chunk, which ChunkStore takes apart, is one step here.  So  *)
(* are the requests that change a file's version list, rollbacks and       *)
(* deletions among them: FileVersions takes them apart, with the stops of  *)
(* the server inside them, and shows what overlapping requests of one file *)
(* break.  Here requests of one file are taken one at a time, and the      *)
(* server stops between them.  What is left is what happens between these  *)
(* steps.  Any call may fail, before or after it was carried out, and any  *)
(* client may stop.                                                        *)
(*                                                                         *)
(* A chunk is stored as long as StorageManager has a record of it, which   *)
(* the Chunks bucket keeps through restarts.  Its copies are the subject   *)
(* of ChunkStore: they may be out of reach, and they may stay when the     *)
(* record goes, because a DELETE that fails at a node is only logged.      *)
(*                                                                         *)
(* A chunk is the part of the upload's file it holds.  Chunks of an        *)
(* encrypted upload can be read with the key of that upload only.          *)
(***************************************************************************)
EXTENDS ChunkSizes, SequencesExt

CONSTANTS
    Sessions,           \* uploads, each made once
    Downloads,          \* downloads, each made once
    Sizes,              \* file sizes
    ClientChunkSize,    \* DefaultChunkSize: 64 MB in the code
    MaxVersions,        \* FileInfo.MaxVersions: 3 in the code
    MaxSaved,           \* rollbacks are made up to this many versions of a file
    ClientFile,         \* the file id of the client's uploads
    NoKey

ASSUME SizesAssumption       == Sizes \subseteq Nat
ASSUME ChunkSizeAssumption   == ClientChunkSize \in Nat \ {0}
ASSUME MaxVersionsAssumption == MaxVersions \in Nat \ {0}
ASSUME NamesAssumption       == ClientFile \notin Sessions /\ NoKey \notin Sessions

VARIABLES
    sess,       \* progress of each upload
    stored,     \* the chunks StorageManager and the Chunks bucket have a record of
    versions,   \* FileManager.versions
    saved,      \* the Replicas bucket: every version made, in the order of the ids
    known,      \* FileManager.files and the Files bucket
    deleted,    \* the files that were deleted, perhaps to be made again
    relisted,   \* uploads whose versions had left a list and were loaded back
    keys,       \* the EncryptionKeys bucket: whose key is kept for each file id
    down        \* progress of each download

fileVars == <<versions, saved, known, deleted, relisted>>
vars == <<sess, stored, fileVars, keys, down>>

-----------------------------------------------------------------------------

\* A file id is made from the name and a time: of modification in the client, so that
\* an unchanged file keeps its id, of the upload in the web page and the server.
Files == {ClientFile} \cup Sessions

Kinds == {"cli", "web", "server"}

UploadPhase == {"idle", "chunks", "answer", "key", "done", "warned", "failed"}

Chunk   == [sess : Sessions, from : Nat, to : Nat]
Version == [sess : Sessions, ids : Seq(Chunk)]
Session == [kind : Kinds, enc : BOOLEAN, size : Nat, phase : UploadPhase,
            ids : Seq(Chunk)]           \* the chunks written so far, in order

NoVersion == [ids |-> <<>>]

Download == [by : {"server", "client"}, file : Files,
             phase : {"idle", "keyed", "chunks", "done", "failed"},
             key : Sessions \cup {NoKey}, ver : Version \cup {NoVersion},
             got : Seq(Chunk)]

TypeOK ==
    /\ sess     \in [Sessions -> Session]
    /\ stored   \subseteq Chunk
    /\ versions \in [Files -> Seq(Version)]
    /\ saved    \in [Files -> Seq(Version)]
    /\ known    \subseteq Files
    /\ deleted  \subseteq Files
    /\ relisted \subseteq Sessions
    /\ keys     \in [Files -> Sessions \cup {NoKey}]
    /\ down     \in [Downloads -> Download]

Init ==
    /\ sess = [s \in Sessions |-> [kind |-> "cli", enc |-> FALSE, size |-> 0,
                                   phase |-> "idle", ids |-> <<>>]]
    /\ stored   = {}
    /\ versions = [f \in Files |-> <<>>]
    /\ saved    = [f \in Files |-> <<>>]
    /\ known    = {}
    /\ deleted  = {}
    /\ relisted = {}
    /\ keys     = [f \in Files |-> NoKey]
    /\ down = [d \in Downloads |-> [by |-> "server", file |-> ClientFile,
                                    phase |-> "idle", key |-> NoKey,
                                    ver |-> NoVersion, got |-> <<>>]]

FileOf(s) == IF sess[s].kind = "cli" THEN ClientFile ELSE s

ChunkSize(s) == IF sess[s].kind = "cli" THEN ClientChunkSize
                ELSE DynamicChunkSize(sess[s].size)

\* For an empty file the web page divides 0 by 0 and then makes no round of its loop.
Count(s) == IF sess[s].size = 0 THEN 0 ELSE ChunkCount(sess[s].size, ChunkSize(s))

\* The server reads on from where it stands in its temporary file, the others read at
\* the offset of the chunk's number.
Position(s) == IF sess[s].kind # "server" THEN Len(sess[s].ids) * ChunkSize(s)
               ELSE IF sess[s].ids = <<>> THEN 0 ELSE Last(sess[s].ids).to

NextChunk(s) == [sess |-> s, from |-> Position(s),
                 to |-> ChunkEnd(sess[s].size, ChunkSize(s), Position(s))]

\* A download that ended with an error: what it had got so far is thrown away.
Broken(d) == [down[d] EXCEPT !.phase = "failed", !.key = NoKey, !.ver = NoVersion,
                             !.got = <<>>]

-----------------------------------------------------------------------------
(* Uploads.                                                                *)

\* uploadFile computes the number of chunks by dividing by the chunk size, which is
\* 0 for an empty file: the handler panics.
StartUpload(s, kind, enc, size) ==
    /\ sess[s].phase = "idle"
    /\ enc => kind = "cli"
    /\ sess' = [sess EXCEPT ![s] =
          [kind |-> kind, enc |-> enc, size |-> size, ids |-> <<>>,
           phase |-> IF kind = "server" /\ size = 0 THEN "failed" ELSE "chunks"]]
    /\ UNCHANGED <<stored, fileVars, keys, down>>

\* Mutant: the loop goes on with the next chunk.
SkipChunk(s) ==
    /\ sess[s].phase = "chunks"
    /\ Len(sess[s].ids) < Count(s)
    /\ sess' = [sess EXCEPT ![s].ids = Append(@, NextChunk(s))]
    /\ UNCHANGED <<stored, fileVars, keys, down>>

\* Prepare, PUT and confirm of the next chunk.
UploadChunk(s) ==
    /\ sess[s].phase = "chunks"
    /\ Len(sess[s].ids) < Count(s)
    /\ stored' = stored \cup {NextChunk(s)}
    /\ sess' = [sess EXCEPT ![s].ids = Append(@, NextChunk(s))]
    /\ UNCHANGED <<fileVars, keys, down>>

\* One of its calls fails, or what carries out the upload stops: nothing is undone.
ChunkFails(s) ==
    /\ sess[s].phase = "chunks"
    /\ Len(sess[s].ids) < Count(s)
    /\ stored' \in {stored, stored \cup {NextChunk(s)}}
    /\ sess' = [sess EXCEPT ![s].phase = "failed"]
    /\ UNCHANGED <<fileVars, keys, down>>

ChunksOf(list) == UNION {ToSet(list[i].ids) : i \in DOMAIN list}

Listed(f) == ToSet(versions[f])

\* Mutant: one version more than allowed is kept.
ExcessOffByOne(list) ==
    IF Len(list) > MaxVersions + 1 THEN Len(list) - MaxVersions - 1 ELSE 0

\* How many versions of a list CleanupOldVersions drops.
Excess(list) == IF Len(list) > MaxVersions THEN Len(list) - MaxVersions ELSE 0

\* A file that was deleted and made again numbers its versions from 1, so that after a
\* restart, which loads the old ones too, numbers no longer tell the order.  What
\* requests do to such a list is left to FileVersions.
Mixed(f) == f \in deleted /\ \E v \in Listed(f) : v.sess \in relisted

\* Mutant: only the first chunk of a dropped version is deleted.
EnterDropsOne(f, v) ==
    LET list == Append(versions[f], v)
        drop == {list[i].ids[1] : i \in {j \in 1..Excess(list) : list[j].ids # <<>>}}
    IN  /\ ~Mixed(f)
        /\ versions' = [versions EXCEPT ![f] = SubSeq(list, Excess(list) + 1, Len(list))]
        /\ stored' = stored \ drop
        /\ saved' = [saved EXCEPT ![f] = Append(@, v)]
        /\ known' = known \cup {f}
        /\ UNCHANGED <<deleted, relisted>>

\* A version enters the file's list and is saved; versions beyond the limit, the ones
\* with the lowest numbers, leave the list with the records of their chunks.
Enter(f, v) ==
    LET list == Append(versions[f], v)
        drop == ChunksOf(SubSeq(list, 1, Excess(list)))
    IN  /\ ~Mixed(f)
        /\ versions' = [versions EXCEPT ![f] = SubSeq(list, Excess(list) + 1, Len(list))]
        /\ stored' = stored \ drop
        /\ saved' = [saved EXCEPT ![f] = Append(@, v)]
        /\ known' = known \cup {f}
        /\ UNCHANGED <<deleted, relisted>>

\* POST /version/create, POST /files or the end of uploadFile.
Publish(s) ==
    /\ sess[s].phase = "chunks"
    /\ Len(sess[s].ids) = Count(s)
    /\ Enter(FileOf(s), [sess |-> s, ids |-> sess[s].ids])
    /\ sess' = [sess EXCEPT ![s].phase =
                  IF sess[s].kind = "server" THEN "done" ELSE "answer"]
    /\ UNCHANGED <<keys, down>>

\* The call to publish does not arrive, or its answer does not.
PublishFails(s) ==
    /\ \/ sess[s].phase = "chunks" /\ Len(sess[s].ids) = Count(s)
       \/ sess[s].phase = "answer"
    /\ sess' = [sess EXCEPT ![s].phase = "failed"]
    /\ UNCHANGED <<stored, fileVars, keys, down>>

PublishAnswered(s) ==
    /\ sess[s].phase = "answer"
    /\ sess' = [sess EXCEPT ![s].phase = IF sess[s].enc THEN "key" ELSE "done"]
    /\ UNCHANGED <<stored, fileVars, keys, down>>

\* Mutant: the key is answered for and not kept.
SaveKeyNowhere(s) ==
    /\ sess[s].phase = "key"
    /\ sess' = [sess EXCEPT ![s].phase = "done"]
    /\ UNCHANGED <<stored, fileVars, keys, down>>

\* POST /encryption/key keeps one key per file id.  That its answer is lost is a
\* warning; the client may stop before it prints anything.
SaveEncryptionKey(s) ==
    /\ sess[s].phase = "key"
    /\ keys' = [keys EXCEPT ![FileOf(s)] = s]
    /\ \E phase \in {"done", "warned", "failed"} : sess' = [sess EXCEPT ![s].phase = phase]
    /\ UNCHANGED <<stored, fileVars, down>>

\* The key does not arrive: the upload still succeeds, with a warning.
SaveKeyFails(s) ==
    /\ sess[s].phase = "key"
    /\ \E phase \in {"warned", "failed"} : sess' = [sess EXCEPT ![s].phase = phase]
    /\ UNCHANGED <<stored, fileVars, keys, down>>

-----------------------------------------------------------------------------
(* Requests about the versions of a file, and restarts.                    *)

\* POST /files/{id}/rollback: a new version lists the chunks of an older one, which
\* may be the one that leaves the list for it.
RollbackFile(f, i) ==
    /\ f \in known
    /\ Len(saved[f]) < MaxSaved
    /\ Enter(f, versions[f][i])
    /\ UNCHANGED <<sess, keys, down>>

\* DELETE /files/{id}/versions/{num}: the saved version stays.
DeleteVersion(f, i) ==
    /\ f \in known
    /\ ~Mixed(f)
    /\ versions' = [versions EXCEPT ![f] = RemoveAt(@, i)]
    /\ stored' = stored \ ToSet(versions[f][i].ids)
    /\ UNCHANGED <<sess, saved, known, deleted, relisted, keys, down>>

\* DELETE /files/{id}, from the client or the web page: the file goes, with the records
\* of its chunks; the saved versions and the key stay.  Nodes that do not answer their
\* DELETE, or are not in the node map, do not hold it up.
DeleteFile(f) ==
    /\ f \in known
    /\ ~Mixed(f)
    /\ versions' = [versions EXCEPT ![f] = <<>>]
    /\ stored' = stored \ ChunksOf(versions[f])
    /\ known' = known \ {f}
    /\ deleted' = deleted \cup {f}
    /\ UNCHANGED <<sess, saved, relisted, keys, down>>

\* The server stops between two requests that change a list, and loadData lists every
\* version that was ever saved.  Uploads and downloads it was carrying out are lost.
Restart ==
    /\ versions' = saved
    /\ relisted' = relisted \cup
          {s \in Sessions : \E f \in Files :
             \E v \in ToSet(saved[f]) \ Listed(f) : v.sess = s}
    /\ sess' = [s \in Sessions |->
          IF sess[s].kind = "server" /\ sess[s].phase = "chunks"
          THEN [sess[s] EXCEPT !.phase = "failed"] ELSE sess[s]]
    /\ down' = [d \in Downloads |->
          IF down[d].by = "server" /\ down[d].phase = "chunks"
          THEN Broken(d) ELSE down[d]]
    /\ UNCHANGED <<stored, saved, known, deleted, keys>>

-----------------------------------------------------------------------------
(* Downloads.                                                              *)

\* downloadFile picks the newest version once.
StartDownload(d, f) ==
    /\ down[d].phase = "idle"
    /\ f \in known
    /\ versions[f] # <<>>
    /\ down' = [down EXCEPT ![d] =
          [down[d] EXCEPT !.file = f, !.phase = "chunks", !.ver = Last(versions[f])]]
    /\ UNCHANGED <<sess, stored, fileVars, keys>>

\* The client asks for the key first and takes any failure for "not encrypted".
GetEncryptionKey(d, f) ==
    /\ down[d].phase = "idle"
    /\ f \in known
    /\ \E key \in {keys[f], NoKey} :
         down' = [down EXCEPT ![d] =
            [down[d] EXCEPT !.by = "client", !.file = f, !.phase = "keyed", !.key = key]]
    /\ UNCHANGED <<sess, stored, fileVars, keys>>

\* Then it asks for the versions and takes the last one.
GetVersions(d) ==
    /\ down[d].phase = "keyed"
    /\ down' = [down EXCEPT ![d] =
          IF down[d].file \notin known \/ versions[down[d].file] = <<>>
          THEN Broken(d)
          ELSE [down[d] EXCEPT !.phase = "chunks", !.ver = Last(versions[down[d].file])]]
    /\ UNCHANGED <<sess, stored, fileVars, keys>>

Wanted(d) == down[d].ver.ids[Len(down[d].got) + 1]

\* Mutant: a chunk that cannot be had is left out.
FetchOrSkip(d) ==
    /\ down[d].phase = "chunks" /\ down[d].by = "server"
    /\ Len(down[d].got) < Len(down[d].ver.ids)
    /\ down' = IF Wanted(d) \in stored
               THEN [down EXCEPT ![d].got = Append(@, Wanted(d))]
               ELSE [down EXCEPT ![d].ver.ids = SelectSeq(@, LAMBDA c : c # Wanted(d))]
    /\ UNCHANGED <<sess, stored, fileVars, keys>>

\* DownloadFromNode: a chunk without a record ends the download with an error; one that
\* no node of its record answers for does, too, which is DownloadFails.
FetchChunk(d) ==
    /\ down[d].phase = "chunks" /\ down[d].by = "server"
    /\ Len(down[d].got) < Len(down[d].ver.ids)
    /\ down' = IF Wanted(d) \in stored
               THEN [down EXCEPT ![d].got = Append(@, Wanted(d))]
               ELSE [down EXCEPT ![d] = Broken(d)]
    /\ UNCHANGED <<sess, stored, fileVars, keys>>

\* The client asks the server for /chunks/{id}/status, which Router does not serve:
\* the answer is the file server's 404.
AskChunkStatus(d) ==
    /\ down[d].phase = "chunks" /\ down[d].by = "client"
    /\ Len(down[d].got) < Len(down[d].ver.ids)
    /\ down' = [down EXCEPT ![d] = Broken(d)]
    /\ UNCHANGED <<sess, stored, fileVars, keys>>

\* A call fails, or no node of a chunk's record has it to give.
DownloadFails(d) ==
    /\ down[d].phase \in {"keyed", "chunks"}
    /\ down' = [down EXCEPT ![d] = Broken(d)]
    /\ UNCHANGED <<sess, stored, fileVars, keys>>

DownloadEnds(d) ==
    /\ down[d].phase = "chunks"
    /\ Len(down[d].got) = Len(down[d].ver.ids)
    /\ down' = [down EXCEPT ![d].phase = "done"]
    /\ UNCHANGED <<sess, stored, fileVars, keys>>

-----------------------------------------------------------------------------

Next ==
    \/ \E s \in Sessions :
         \/ \E kind \in Kinds, enc \in BOOLEAN, size \in Sizes :
              StartUpload(s, kind, enc, size)
         \/ UploadChunk(s) \/ ChunkFails(s)
         \/ Publish(s) \/ PublishFails(s) \/ PublishAnswered(s)
         \/ SaveEncryptionKey(s) \/ SaveKeyFails(s)
    \/ \E f \in Files :
         \/ \E i \in DOMAIN versions[f] : RollbackFile(f, i) \/ DeleteVersion(f, i)
         \/ DeleteFile(f)
    \/ Restart
    \/ \E d \in Downloads :
         \/ \E f \in Files : StartDownload(d, f) \/ GetEncryptionKey(d, f)
         \/ GetVersions(d)
         \/ FetchChunk(d) \/ AskChunkStatus(d)
         \/ DownloadFails(d) \/ DownloadEnds(d)

Spec == Init /\ [][Next]_vars

-----------------------------------------------------------------------------
(* Properties.                                                             *)

\* The parts are the whole file, each once and in order.
Tiles(ids, size) ==
    /\ ids = <<>> <=> size = 0
    /\ ids # <<>> => ids[1].from = 0 /\ ids[Len(ids)].to = size
    /\ \A i \in DOMAIN ids : ids[i].from < ids[i].to
    /\ \A i \in 1..(Len(ids) - 1) : ids[i].to = ids[i + 1].from

\* Two versions of the file were made of one upload: there was a rollback to it.
Shared(f, s) ==
    \E i, j \in DOMAIN saved[f] : i # j /\ saved[f][i].sess = s /\ saved[f][j].sess = s

\* Whoever uploads and however the file is cut, a version that is listed is the whole
\* file of one upload, and it has the records of all its chunks unless a rollback gave
\* them to two versions or a restart listed it again: no other request, no failure and
\* no upload of the same or another file takes one away, before or after a restart.
\* (Requests of one file are taken one at a time, and stops fall between them.)
ListedIsWhole ==
    \A f \in Files : \A v \in Listed(f) :
      /\ FileOf(v.sess) = f
      /\ Tiles(v.ids, sess[v.sess].size)
      /\ \A c \in ToSet(v.ids) :
           /\ c.sess = v.sess
           /\ c \in stored \/ Shared(f, v.sess) \/ v.sess \in relisted

\* A record of a chunk that no version lists belongs to an upload under way or failed:
\* however a version of a successful one left, by the limit, by a deletion, after a
\* rollback or a restart, the records went with it.  (The copies may outlive the
\* records, see DeletionIsComplete; requests and stops are as in ListedIsWhole.)
NothingLeftBehind ==
    \A c \in stored :
      \/ sess[c.sess].phase \in {"chunks", "failed"}
      \/ \E v \in Listed(FileOf(c.sess)) : c \in ToSet(v.ids)

\* What a download through the server answers with is one version from end to end,
\* although versions are dropped, deleted and made while it goes from chunk to chunk.
DownloadIsWhole ==
    \A d \in Downloads :
      down[d].phase = "done" =>
        Tiles(down[d].got, sess[down[d].ver.sess].size)

\* A client that reports success without a warning leaves the file with a key, the key
\* of an encrypted upload of this file: lost answers and deletions do not take it away.
\* (One key is kept per file id, so that versions made before the last upload of the
\* same id cannot be decrypted any more.)
SuccessKeepsKey ==
    /\ \A f \in Files :
         keys[f] # NoKey => sess[keys[f]].enc /\ FileOf(keys[f]) = f
    /\ \A s \in Sessions :
         sess[s].enc /\ sess[s].phase = "done" => keys[FileOf(s)] # NoKey

List(f) == INSTANCE VersionList WITH
    Limit  <- MaxVersions,
    list   <- [i \in DOMAIN versions[f] |-> ToSet(versions[f][i].ids)],
    stored <- {c \in stored : FileOf(c.sess) = f}

\* The version lists and the chunk records of the files are what VersionList says, for
\* each file by itself: an upload, its failure, a rollback or a deletion touches no other
\* file.  A restart changes the lists by itself, to ones that go on like this.
ImplementsVersionLists ==
    /\ \A f \in Files : List(f)!Init
    /\ [][Restart \/ \A f \in Files : [List(f)!Next]_(List(f)!lvars)]_vars
=============================================================================
