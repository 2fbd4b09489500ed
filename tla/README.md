# ConstelFS: specifications, model checks and proofs

ConstelFS stores files as chunks on storage nodes under a central server. This
directory models the parts of it whose correctness depends on the order of
steps of several processes, checks the models with TLC on small instances, and
proves their safety properties with TLAPS for every instance. File paths below
are relative to `src/`.

## 1. The system

| Component | State | Operations | Talks to |
|---|---|---|---|
| Chunk storage (`internal/server/storage.go`) | `chunks` (record per chunk: status, replicas), Chunks bucket | `PrepareWrite`, `ConfirmWrite`, `DeleteChunk`, `DownloadFromNode` | scheduler (call), nodes (HTTP), replication (goroutine) |
| Replication (`internal/server/replication.go`, `internal/node/chunk_handler.go`) | one goroutine per confirmed chunk; pushes under way | `ReplicateChunk`, `HandleReplicate`, `sendChunkToNode` | source node, target nodes |
| Storage node engine (`internal/node/chunk_handler.go`) | the `chunks/` and `temp/` directories: names, and the files they lead to | `handleUpload` (write a temporary file, rename it), `handleDownload`, `handleDelete`, `HandleReplicate` | other nodes |
| Node registry (`internal/server/node.go`) | `Server.nodes`, Nodes bucket | register, configure, heartbeat, delete, the 30 s checker | hands its map to scheduler, storage, replication, download |
| Node agent (`internal/node/agent.go`) | a process with a ticker | register once, heartbeat for ever, stop | registry |
| Files and versions (`internal/server/file_manager.go`, `version.go`) | `files`, `versions`, Files and Replicas buckets | create version, create metadata, upload, download, rollback, delete version, delete file, cleanup | chunk storage |
| Persistence (`internal/server/persistence.go`) | bbolt buckets | save, load, delete per record | called by all of the above |
| Scheduler (`internal/server/scheduler.go`) | none | `SelectNodes`, `ScoreNode` | registry's map |
| Writers (`internal/client/uploader.go`, `web/index.html`, `uploadFile`) | position in the file | cut the file; prepare, PUT, confirm per chunk; publish the version; save the key | server, nodes |
| Chunk sizes (`calculateChunkSize`, `internal/client/chunker.go`) | none | size, number and ends of chunks | writers |
| Downloader (`internal/client/downloader.go`) | position in the version | asks for key, versions, then the status of each chunk | server, a path of which is not routed |
| Encryption keys (`internal/server/encryption_api.go`) | one key per file id, EncryptionKeys bucket | save, get | client |
| Not reached by the commands: `fault_tolerance.go`, `encryption.go`, `encryption_integration.go`, `upload_manager.go`, `file.go`, `version_api.go`, WebDAV, SMB | | | |

What is hard:

- **Concurrency.** `StorageManager` holds `sm.mu` for single steps only: the
  replication goroutine and the deleting handler run outside it, and meet each
  other and late HTTP calls at the nodes. `FileManager` holds no lock at all, and
  neither do a node's handlers, which share one temporary name per chunk.
- **Failure.** Calls are lost or time out and are retried (3 POSTs, 3 PUTs per
  push); nodes and the server stop between any two steps; what was under way is
  not resumed.
- **Order.** Two database writes per version; memory is changed before the
  database; chunks are deleted before the list that names them is changed.
- **Time.** Heartbeats every 30 s, a checker every 30 s, a timeout of 90 s.

What makes each component correct: a chunk the server calls written is on its
first node and, once replicated, on a second one; copies are only where they
were assigned; a deleted chunk stays deleted; replication and deletion end; a
node is usable only when configured and fresh, and never disappears from under
its users; a node's reader is given whole chunks; versions are numbered
upwards, kept up to the limit, saved before they are answered for, and own the
chunks they list; a listed version is a whole file, a download answers with one
version, and an encrypted file has a key. `PROJECT.json` lists the
hazards line by line with the properties aimed at each.

## 2. Modules

| Module | Models |
|---|---|
| `ChunkPromise` | abstract: what the server promises of a chunk (its nodes, its home, its copies) |
| `ChunkStore` | one chunk's life: the three kinds of writers, the record in memory and in the database, the goroutine, pushes, deletion, crashes and restarts; implements `ChunkPromise` |
| `NodeMap` | abstract: what the server may assume of its node map (absent, offline, online) |
| `NodeRegistry` | registry, agents, heartbeats, checker, restarts; implements `NodeMap` |
| `ChunkFile` | abstract: what a node promises about the file of one chunk (absent, whole, torn) |
| `NodeFiles` | the node's two names for a chunk and the files they lead to, under concurrent handlers; implements `ChunkFile` |
| `VersionList` | abstract: what the handlers of a file promise those who upload to it (a list of versions and the chunks it owns, changed at once) |
| `FileVersions` | the versions of one file, with every chunk deletion and database write a step; implements `VersionList` |
| `ChunkSizes` | chunk size, number of chunks and where they end, as operators |
| `FileTransfer` | files on their way in and out: the loops over the chunks, publishing, keys, downloads; extends `ChunkSizes` and implements `VersionList` for every file |
| `MCChunkStore`, `MCFileVersions`, `MCFileTransfer`, `MCNodeRegistry` | the modules with the model values and symmetry sets TLC uses |
| `*_proofs` | theorems about the module named |
| `ChunkCopies_proofs` | more theorems about `ChunkStore`, on top of `ChunkStore_proofs` |
| `FileVersionsSerial_proofs`, `FileVersionsAtomic_proofs` | theorems about `FileVersions` without overlap, on top of `FileVersions_proofs`; the latter holds the refinement and what an answered client may rely on |
| `FileTransfer_proofs` | also the theorems about `ChunkSizes` |

The modules describe one system at three scales. `FileTransfer` takes the
writing of a chunk and a change of a version list as single steps; `ChunkStore`
is the former taken apart and `FileVersions` the latter. `VersionList` joins the
two: it says that a change of the list happens at once, `FileTransfer` shows that
its single steps are of that kind for every file, and `FileVersions` that the
many steps of a handler amount to one of them. `ChunkPromise` says what is left of
`ChunkStore` for those who only know chunks and their nodes. `ChunkStore` in turn
takes a node's PUT, GET and DELETE of a chunk as single steps and the node map
as a relation between levels; `NodeFiles` and `NodeRegistry` are those taken
apart, and are shown to keep the promise (`ChunkFile`, `NodeMap`).

Definitions introduced by a comment `Mutant:` are defects a programmer could
have made in the operator below them. They are used by no specification: each
takes the place of that operator to see that a property would notice.

### ChunkStore

`chunks` and `db` are `StorageManager.chunks` and the Chunks bucket. A lock
region of `sm.mu` is one action (`PrepareWrite`, `ConfirmWrite`, `MarkDegraded`,
the first half of `DeleteChunk`), because both copies change inside it. `job` is
the goroutine that `ConfirmWrite` starts: `ReplicateChunk` turns ids into
addresses, `HandleReplicate` puts one push per target on `wire`, `ReceivePush`
writes the chunk at a target, `ReplicateAnswer` counts, `PostFails` and
`ReplicateTimeout` are the error branches of the retry loop. A push carries the
attempt it belongs to: after `ReplicateTimeout` an old attempt still delivers
its pushes but nobody counts them. The three tries of `sendChunkToNode` are a
push that may stay on the wire after it was delivered.

`writer` is whoever writes the chunk, with `kind` telling what differs: the
command line client PUTs to all addresses, the web page and `uploadFile` to the
first, and `uploadFile` saves the record once more at the end (`ResaveChunk`).
`deleting` is the set of nodes a `DeleteChunk` has still to contact.

Abstracted: hashes, sizes, the order of the targets, and the bytes: a node has
the chunk or not, and a PUT puts it there in one step. `SecondCopy` and
`ClientWritesAllCopies` are therefore about copies by name; that pushes which
overlap at a node can leave a torn file is the subject of `NodeFiles`. Nodes are
deleted by the operator when `NodeDeletes` says so. A chunk id contains a nanosecond clock, so it is prepared
once. The node map is `NodeMap` with steps of single nodes, plus the processes
themselves (`up`).

`ChunkPromise` forgets writers, goroutine, wire and database. A chunk is given its
nodes once (`Place`), a copy may appear at any of them at any time (`Copy`), the
promise is made when a copy exists (`Make`, in `ConfirmWrite`), withdrawn by
`DeleteChunk` or by a restart that loads a record without content (`Withdraw`),
and only then may a copy go (`Erase`). Nothing makes it again: a late answer or
the late end of a replication is not a step of `ChunkPromise`.

### NodeRegistry

Every handler holds `s.mu` and is one action. Time is counted in checker periods: `Tick`
ages all nodes, `CheckNodeStatus` runs once per period, somewhere in it. The
server may be down for any number of periods. Records are reduced to status,
"has a storage path" and "was configured". Handlers save what they change, so
one `age` stands for the `LastHeartbeat` of both copies. A heartbeat is in
`hb` between its sending and its arrival, and outlives its agent.

### NodeFiles and ChunkFile

`temp` and `final` are the names `temp/<chunk>.tmp` and `chunks/<chunk>`, each
leading to an inode or nowhere; `content` says which of the `Pieces` portions of
the chunk an inode holds. `Open`, `Write` and `Rename` are the system calls of
`handleUpload`, `WriteFails` the error of `os.WriteFile` after some of them.
Opening empties the inode the temporary name leads to, although another PUT may
be writing it, and a `Rename` moves whatever the name leads to by then.
`OpenRead`, `ReadPiece` and `ReadEnd` are `os.ReadFile` in `handleDownload` and
`HandleReplicate`: a reader keeps its inode when the name goes elsewhere.
`Crash` ends all handlers and leaves all files.

All PUTs of one chunk carry the same bytes (a chunk id belongs to one upload, and
pushes send what was read). `shared` records which PUTs overlapped. `ChunkFile`
is what the rest of the system relies on: a PUT that had the node to itself puts
the whole chunk in place in one step. Overlapping PUTs can publish a file
another is still writing; `ChunkFile` allows that, and nothing else.

### FileVersions

A request goes through `numbered` (the file was read and the version built),
`drop` (one step per version whose chunks are deleted), `finish` (the list is
installed), `saveFile`, `saveVersion` or `unsave`. `Overlap = FALSE` runs one
handler at a time, which is how the tests call it and how one user works;
`Overlap = TRUE` lets handlers interleave as `net/http` does. A stop of the
server at any of these points aborts the handler; `Restart` loads the buckets.
The chunks of one upload are one unit, named by its request.

The mapping to `VersionList` looks ahead: as soon as a handler has decided which
versions go, the list is the one it will install (`SettledList`), and the chunks
it has still to delete are gone (`Doomed`). So `AppendVersion` is `Publish` or
`Rollback`, `DeleteVersion` is `Remove`, `DeleteFile` is `Clear`, and `DropChunks`,
`InstallList` and the saves change nothing. A restart is excepted in
`ImplementsVersionList`: it changes the list by itself, when the handler was
stopped half way or dropped versions come back.

### ChunkSizes and FileTransfer

`sess` is the position of an upload: the chunks written so far, and whether it
is writing chunks, waiting for the answer to its version call, or saving its
key. The chunks are cut as each writer cuts them: the client and the web page
at a multiple of the chunk size, `uploadFile` where it stands in its temporary
file; the sizes come from `ChunkSizes`. Every call may fail before or after the
server carried it out. `SaveEncryptionKey` keeps one key per file id. `down` is a
download, through the server (`StartDownload`, `FetchChunk`) or by the client
(`GetEncryptionKey`, `GetVersions`, `AskChunkStatus`), going from chunk to chunk
while the other actions change the store.

`versions` are the lists of the running server, `saved` the Replicas bucket, which
keeps every version ever made. `Enter` is what `Publish` and `RollbackFile` have in
common: the new version is listed and saved, versions beyond the limit leave the
list. `DeleteVersion` and `DeleteFile` take versions out, and `Restart` lists
everything saved, dropped versions too. `stored` are the chunks the Chunks bucket
has a record of; the record goes when its version is dropped, whatever the nodes
answer. Their copies are `ChunkStore`'s subject: a DELETE that fails at a node is
only logged, so copies may outlive the record.

Each of these requests is one step, that is, requests of one file are taken one at
a time and the server stops between them. `FileVersions` takes them apart, with
stops inside them; it shows in `versions_overlap` what two at once break. Requests
of different files, the chunks of uploads and the downloads interleave freely. Two
ghosts name what no longer belongs to a list in the ordinary way: `deleted` (the
file was deleted, perhaps made again) and `relisted` (a restart brought the version
back). Where both meet in one list (`Mixed`) numbers no longer tell the age of
versions, and `FileTransfer` stops asking anything of that list; `FileVersions`
goes on.

The client's files have one id (`ClientFile`: the same file uploaded again
keeps it), files of the web page and the server an id per upload.

## 3. Runs

| Run | Instance | Shows |
|---|---|---|
| `chunks` | 3 nodes, 1 chunk, `uploadFile`, 2 tries, all faults; 2 million states | types, `Durable`, `SecondCopy`, `CopiesWhereAssigned`, `RestartKeepsRecords`, `DeletedStaysDeleted` |
| `chunks_live` | 2 nodes, all three writers, all faults | `ClientWritesAllCopies`, `ReplicationSettles`, `DeletionEnds`, the refinement `ImplementsChunkPromise` |
| `nodes` | 2 nodes, a timeout of 2 periods | types, `PastRegisteredIsConfigured`, `OnlineIsFresh`, `SavedIsCurrent`, the refinement `ImplementsNodeMap`, `RunningNodeComesOnline`, `StoppedNodeGoesOffline` |
| `node_files` | 3 PUTs, 1 reader, 2 portions; 87 thousand states | types, `ReadsAreWhole`, `QuietIsWhole`, the refinement `ImplementsChunkFile`, `TornIsMended` |
| `versions` | 5 requests of all kinds, 2 versions kept, stops anywhere; 90 thousand states | types, `ListedIsSaved`, `NumbersIncrease`, `ListedDownloadsExactly`, `AnsweredNumbersUnique`, `AnsweredIsListed`, `RetentionHolds`, `CountIsLength`, `NoStaleChunks`, `ListedIsStored`, the refinement `ImplementsVersionList` |
| `transfer` | 2 uploads of 0 or 11 units, 1 download, 2 versions kept, up to 3 made of a file by rollbacks, deletions, restarts; 3 million states | types, `ListedIsWhole`, `NothingLeftBehind`, `DownloadIsWhole`, `SuccessKeepsKey`, the refinement `ImplementsVersionLists` |

Why these instances are enough to meet the cases:

- Three nodes give a chunk two push targets of which one can fail; one chunk
  suffices since chunks share only the node map and the processes, whose changes
  are allowed at any time; two tries of `ReplicateChunk` (the code has three)
  already overlap.
- A timeout of two periods (the code's three, less one) leaves a heartbeat time
  to be lost, late, or in between; nodes do not affect each other, so two of
  them are there for the actions that treat all at once.
- Three PUTs are a file being written, one that empties it and one that moves
  it; two portions make a file that is begun and not finished.
- Two kept versions (the code keeps three) and five requests let lists overflow
  with requests left to delete, roll back and restart.
- A megabyte of one unit keeps sizes small: 11 units are, as in the code, above
  the first limit of `DynamicChunkSize`, with three chunks of 4, 4 and 3 for the
  web page and the server and two of 6 and 5 for the client (`ClientChunkSize`
  is 64 MB in the code); 0 is the empty file. Two uploads of the client's file and a
  rollback, or one upload and two rollbacks, overflow its two kept versions, and a
  restart lists what was dropped; `MaxSaved` bounds the rollbacks. The theorems hold
  for the code's values and any number of uploads and rollbacks.

`versions`, its companions and `transfer` switch the deadlock check off:
requests and uploads are finite, and a file with nothing left to ask is not
stuck. So do `chunks_partial` and `chunks_orphan`, which have no crashes. With every
node deleted by the operator the former has nothing left to do; the latter, where
no node is deleted (`NodeDeletes = FALSE`), once its chunk is deleted and all calls
have ended.

Six runs show where the code does not do what the repository says of it
(details, with the lines quoted, under `findings` in `PROJECT.json`):

| Run | Violated | In short |
|---|---|---|
| `chunks_partial` | `ReplicationIsComplete` | one push of two is enough for "success" |
| `chunks_orphan` | `DeletionIsComplete` | a push that arrives after the DELETE restores a copy, with no call lost, no crash and no node deleted |
| `chunks_resave` | `UploadedIsDownloadable` | `uploadFile` saves addresses where ids belong; after a restart nothing is found |
| `versions_rollback` | `RollbackKeepsContent` | a rollback shares chunks that cleanup deletes |
| `versions_restart` | `OldestIsDeleted` | saved versions are never removed and come back |
| `versions_overlap` | `NumbersIncrease` | two requests at once make one number twice |

The properties of the passing runs state these limits in their own
antecedents (`~restarted`, `Shared`, `relisted`), so that what remains true around
the defects is still checked.

More limits of the code that the models have, and that no property excludes:

- The number of a deleted newest version is answered with the version before it
  (`Download` in `FileVersions`), because `LatestVersion` still names it.
- The client's download of any file that is not empty ends with the 404 of
  `/chunks/{id}/status` (`AskChunkStatus`); `DownloadIsWhole` therefore says
  something about downloads through the server, and about empty files.
- One key is kept per file id: after an unchanged file was uploaded again its
  older versions cannot be decrypted (`SuccessKeepsKey` asks for no more).
- The number of a file made again after its deletion starts at 1; after a restart
  the old versions are listed beside the new ones (`Mixed` in `FileTransfer`).
- A chunk's copies stay at nodes that did not answer a DELETE or have left the node
  map, with no record that would lead to them (`NothingLeftBehind` is about records).
- A failed upload leaves its chunks for good (`NothingLeftBehind` excepts it), a
  failed or crashed PUT its temporary file, until the next PUT of that chunk.
- A file renamed into place is not synchronised to disk.

## 4. Fairness

`ChunkStore`: weak fairness of the goroutine, of the pushes and of the deleting
handler. Each of their HTTP calls has a timeout (120 s for the server's clients,
60 s for a push) and each loop a bound, so a live process always goes on. No
fairness for writers, agents, restarts or operators. `NodeRegistry`: weak
fairness of the clock, the checker (a ticker, as long as the server lives) and
of the agent's ticker; strong fairness of the arrival of heartbeats, which says
that of infinitely many heartbeats sent, one gets through. `NodeFiles`: weak
fairness of `Write` and `Rename`, because a handler that was started runs to
its end as long as the process lives; nothing is assumed of requests that did
not arrive, of failures or of crashes. `FileVersions` and `FileTransfer` have no
liveness property: nothing in the code retries what stopped half way.

## 5. Proofs

The theorems hold for all values of the constants that satisfy the named
assumptions of the modules. These say that numbers are natural (and positive
where the code divides or counts by them), that the sets of requests are finite,
and that model values are distinct from what they stand beside. TLC evaluates
them for every instance.

`ChunkStore` (`ChunkStore_proofs`, `ChunkCopies_proofs`):

- `TypeCorrect`. Not inductive alone: the tries stay in `0..MaxTries` only
  because a running loop is below the bound (`TriesBounded`) and `ConfirmWrite`
  finds no goroutine (`NoJobYet`).
- `DurableHolds`: `Durable`. The strengthening `DurableInv` follows
  the copy: the first PUT is done before the others and before confirm
  (`FirstPutDone`), both records name the node of that PUT and nobody deletes
  while the writer is at work (`WriterOwns`), every confirmed record, also the
  saved one that a restart will load, is backed by a copy (`RecordsBacked`),
  nodes are told to delete only what no record confirms (`DeletedUnconfirmed`),
  and the goroutine's error path only touches confirmed records
  (`JobOfConfirmed`).
- `SecondCopyHolds`, `AssignedHolds`, `ClientWritesHold`, `DeletedHolds`: the
  other safety properties. `CopiesInv` adds to `DurableInv` that every name a
  step can still use was assigned by `PrepareWrite` (`Assigned`), that a push
  which was counted left its copy on a node other than the first (`Pushed`,
  `Counted`), that the saved record is a former state of the one in memory
  (`SavedIsKnown`), how far the client's PUTs have come (`ClientPuts`), and that
  of a deleted chunk no writer or goroutine can confirm a record any more
  (`DeletedUnnamed`).
- `RecordsHold`: `RestartKeepsRecords`. Every change of a record reaches memory and
  database in one lock region; only `ResaveChunk` writes the database alone, with
  the record that `chunks_resave` shows to be useless.
- `StoreImplementsPromise`: every step maps to a step of `ChunkPromise` or to none.
  The invariants above say what each step of `ChunkPromise` needs: the copy before
  the promise (`FirstPutDone`), nodes assigned before copies (`CopiesWhereAssigned`),
  deletion only of what no record confirms (`DeletedUnconfirmed`). `PromiseKept`
  then follows from `ChunkPromise` alone: a promised chunk is on its home node.

`NodeRegistry` (`NodeRegistry_proofs`):

- `RegistryTypeCorrect`, `ConfiguredHolds`, `SavedHolds`, `FreshHolds`: its
  safety invariants, whose conjunction is inductive.
- `RegistryImplementsMap`: it implements `NodeMap` under the mapping `Levels`.
  Each handler moves one node to a neighbouring level; a restart or the checker
  moves any set of nodes from online to offline.

`NodeFiles` (`NodeFiles_proofs`):

- `FilesTypeCorrect`, with the count of inodes bounded by the PUTs that began.
- `ReadsHold`, `QuietHolds`: an inode's portions are related to the PUT that
  writes it. Without overlap the only file with a portion missing is the one
  under the temporary name, and a reader's inode is whole; with overlap, a file
  without its portions has a PUT at work that will write them, so that a chunk is
  not torn when none is.
- `NodeImplementsChunkFile`: every step is a step of `ChunkFile` or a stutter:
  `Open` is `Begin`, the `Rename` of a PUT that had the node to itself is
  `Publish` with a whole chunk, a `Write` is `Mend` or nothing. `AloneIsAtomic`
  carries back what `ChunkFile` is good for: without overlapping PUTs no chunk is
  ever torn.

`ChunkSizes` (`FileTransfer_proofs`): `DynamicChunkSizePositive`, and `ChunksTile`,
which says for every size of file and of chunk that the chunks, as many as
`ChunkCount` says, are the file: each begins where the one before it ends, none
is empty, the last ends with the file.

`FileTransfer` (`FileTransfer_proofs`): `TransferTypeCorrect`, `ListedHolds`,
`LeftBehindHolds`, `DownloadHolds`, `KeysHold`. The invariant `IInv` joins: the
chunks an upload has written are the beginning of its file (`UploadInv`, from
`ChunksTile`) and stay stored until a version of it was made (`StoredInv`); lists
hold versions that are saved, each a whole file (`ListInv`); two of them are of one
upload only where a rollback made the second (`Shared`), and a listed version's
chunks are stored unless it is shared or was listed again by a restart. What is
stored has an owner (`NothingLeftBehind`), a download has a beginning of its version
(`DownInv`), and keys belong to encrypted uploads of their file (`KeyInv`). Versions
leave a list in three ways, by the limit, by `DeleteVersion` and by `DeleteFile`, and
one lemma serves all of them (`DropPreserves`): the chunks that go are those of
dropped versions, and a version that stays is of another upload or shares them by a
rollback.

From it `TransferImplementsLists`: every step but a restart is, for each file by
itself, a step of `VersionList` or none. A published version is over chunks that are
stored and that no version of the file has (its upload has no version yet), a
rollback lists chunks of a version still listed, and what a cleanup or a deletion
removes are the chunks of the versions that go and of no other file.

`FileVersions` (`FileVersions_proofs`, `FileVersionsSerial_proofs`,
`FileVersionsAtomic_proofs`):

- `VersionsTypeCorrect`, `ListedSaved`: hold with and without overlap. Their
  invariant `BaseInv` says which phases go with which kinds of requests
  (`PhaseInv`), that ids taken from the clock are not taken twice (`IdsInv`),
  that lists hold made versions, each once (`ListsInv`), and that what a handler
  is about to install is saved or its own new version (`SavedInv`).
- `NumbersHold`, `DownloadsHold`, `RetentionIsKept`, `CountHolds`,
  `NoStaleChunksHold`, `ListedStored`: the other invariants, assuming `~Overlap`;
  `versions_overlap` shows that the first needs it. `SerialInv` adds to `BaseInv`: one handler is
  at work (`Single`); numbers increase along the list and along the list to be
  installed (`NumbersInv`), and saved numbers follow the order of their ids and
  do not pass the saved `LatestVersion` (`SavedNumbersInv`), which is what makes
  the list that a restart loads increase; a list being cut is the part to be
  dropped and the part to be kept, with the count in step (`CutInv`); and which
  uploads' chunks are stored and listed (`DataInv`, `ChunksInv`), where only a
  rollback makes two versions share theirs.
- `RetentionUntilRestart`: the part of retention that survives overlap. Handlers may
  overwrite each other's lists, but whoever installs a list last installs one that
  was cut to the limit (`LimitInv`); so before a restart the limit is exceeded only
  while a request is at work. Of the other invariants of this group nothing is
  claimed with overlap.
- `VersionsImplementList`: the refinement of `VersionList`, again with `~Overlap`.
  Two arguments carry it. `CleanupOldVersions` sorts a list that is in order
  already: in a list whose numbers increase the place of a version is the number
  of those below it (`PlaceInList`), so sorting after the append changes nothing
  (`AppendInOrder`) and the versions cut are the oldest. And the chunks a version
  is about to bring in are those of its own upload, stored and in no other version,
  or, for a rollback, those of a version still listed (`SourceInv`).
- `AnsweredNumbersHold`, `AnsweredListed`: `AnsweredInv` says that a version is
  saved once its request is answered and on its way into the list before
  (`AnsweredAt`), and, as long as nothing was deleted, that a saved version missing
  from the list that will be left is older than all of that list, which is full
  (`Newest`). The first theorem adds that saved numbers follow the order of their
  ids (`SavedNumbersInv`).

Every invariant, action property and refinement of the passing runs is proved.
Only model-checked are the five liveness properties: `ReplicationSettles`,
`DeletionEnds`, `RunningNodeComesOnline`, `StoppedNodeGoesOffline` and
`TornIsMended`. They need ENABLED, which the prover does not handle. The six
violations are TLC's counterexamples.

## 6. Assumptions and what is not modelled

A bbolt transaction is atomic, durable and succeeds. A node's disk keeps its
files over a crash, in the order of the system calls. Go map races (the server's
node map is shared without a lock in `PrepareWrite`, the maps of `FileManager`)
end the process if they are noticed, which is the modelled stop. `createFileMeta`
is called with a new file id, as the web page does. The contents of a file do
not change while it is uploaded.

Not modelled:

- `ScoreNode` computes in floating point and only orders candidates:
  `SelectNodes` may return any set of the right size instead. Speed tests and
  `GetStorageInfo` only feed it.
- Stops and other requests of the same file between the steps of a version request
  while chunks are up- and downloaded: `FileTransfer` has such requests whole.
- Overlapping requests that delete versions: `deleteVersion` shifts the version
  list in place under readers and a cleanup that hold the same array. Lists are
  values in `FileVersions`, so overlap is limited to the appending requests.
- `DownloadVersion` of the client: it differs from `Download` in the version it
  looks for and ends at the same unserved path. What would follow (GET from a
  node, decryption, writing the file) is never reached.
- Encryption primitives (`encryption.go`, `encryption_integration.go`): calls of
  the cryptographic library without state of their own.
- `fault_tolerance.go`, `upload_manager.go`, `file.go`, `version_api.go`: no
  command or route reaches them. WebDAV and SMB: adapters that no command starts.
- Commands, flags, configuration files, display, logging.

## 7. What could be added

- Overlapping deletions in `FileVersions`, with version lists as shared arrays.
  Appending requests that overlap are modelled; what their lost updates leave true
  beyond the limit of versions is not stated.
- A composition of several chunks of one upload in `ChunkStore` with the version
  that lists them, to state the download of a version over crashes of nodes.
