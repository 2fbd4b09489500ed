--------------------------- MODULE FileTransfer_proofs ---------------------------
(***************************************************************************)
(* What cutting a file amounts to, and the types, listed versions, chunks, *)
(* downloads and keys of FileTransfer, for any number of uploads,          *)
(* downloads and versions and any sizes; and that each file's list is what *)
(* VersionList says.                                                       *)
(*                                                                         *)
(* IInv says of each upload that its parts are cut at the multiples of its *)
(* chunk size, all of them once it is published; of the store, that it     *)
(* holds what uploads under way have written; of a list, that it holds     *)
(* saved versions of its file, published, two of one upload only where a   *)
(* rollback made the second, and with their parts but for those that were  *)
(* shared or loaded back; of a download, that it has the first parts of a  *)
(* published version.                                                      *)
(***************************************************************************)
EXTENDS FileTransfer, SequenceTheorems, TLAPS

-----------------------------------------------------------------------------
(* Cutting a file into chunks.                                             *)

LEMMA DivBounds ==
    ASSUME NEW a \in Nat, NEW b \in Nat \ {0}
    PROVE  /\ a \div b \in Nat
           /\ (a \div b) * b <= a
           /\ a < (a \div b) * b + b
OBVIOUS

LEMMA MulMono ==
    ASSUME NEW i \in Nat, NEW j \in Nat, NEW b \in Nat, i <= j
    PROVE  i * b \in Nat /\ i * b <= j * b
OBVIOUS

LEMMA MulStep ==
    ASSUME NEW i \in Nat, NEW b \in Nat
    PROVE  (i + 1) * b = i * b + b
OBVIOUS

-----------------------------------------------------------------------------

\* A file that is not empty has a chunk size to divide by, of at most 128 MB.
THEOREM DynamicChunkSizePositive ==
    ASSUME NEW size \in Nat \ {0}
    PROVE  /\ DynamicChunkSize(size) \in Nat \ {0}
           /\ DynamicChunkSize(size) <= 128 * MB
<1> USE MBAssumption
<1>1. CASE size < 10 * MB
  BY <1>1 DEF DynamicChunkSize
<1>2. CASE size >= 10 * MB /\ size < 100 * MB
  BY <1>2 DEF DynamicChunkSize
<1>3. CASE size >= 100 * MB /\ size < 1024 * MB
  BY <1>3 DEF DynamicChunkSize
<1>4. CASE size >= 1024 * MB /\ size < 10 * 1024 * MB
  BY <1>4 DEF DynamicChunkSize
<1>5. CASE size >= 10 * 1024 * MB
  BY <1>5 DEF DynamicChunkSize
<1> QED BY <1>1, <1>2, <1>3, <1>4, <1>5

\* The chunks whose numbers the upload loops count, each cut at the offset of its
\* number, are the file: each begins where the one before ends, none is empty, none is
\* longer than the chunk size, and the last ends where the file ends.
THEOREM ChunksTile ==
    ASSUME NEW size \in Nat, NEW chunkSize \in Nat \ {0}
    PROVE  /\ ChunkCount(size, chunkSize) \in Nat
           /\ ChunkCount(size, chunkSize) = 0 <=> size = 0
           /\ \A i \in Nat : i < ChunkCount(size, chunkSize) =>
                LET end == ChunkEnd(size, chunkSize, i * chunkSize)
                IN  /\ i * chunkSize \in Nat /\ end \in Nat
                    /\ i * chunkSize < end
                    /\ end <= i * chunkSize + chunkSize
                    /\ i + 1 < ChunkCount(size, chunkSize) => end = (i + 1) * chunkSize
                    /\ i + 1 = ChunkCount(size, chunkSize) => end = size
<1> DEFINE n == ChunkCount(size, chunkSize)
<1>1. size + chunkSize - 1 \in Nat
  OBVIOUS
<1>2. /\ n \in Nat
      /\ n * chunkSize <= size + chunkSize - 1
      /\ size + chunkSize - 1 < n * chunkSize + chunkSize
  BY <1>1, DivBounds DEF ChunkCount
<1> HIDE DEF n
<1>3. n * chunkSize \in Nat /\ size <= n * chunkSize /\ n * chunkSize < size + chunkSize
  BY <1>2, MulMono
<1>4. n = 0 <=> size = 0
  <2>1. n = 0 => size = 0
    BY <1>3
  <2>2. n # 0 => chunkSize <= n * chunkSize
    <3>1. n # 0 => 1 * chunkSize <= n * chunkSize
      BY <1>2, MulMono
    <3> QED BY <3>1
  <2> QED BY <1>3, <2>1, <2>2
<1>5. ASSUME NEW i \in Nat, i < n
      PROVE  LET end == ChunkEnd(size, chunkSize, i * chunkSize)
             IN  /\ i * chunkSize \in Nat /\ end \in Nat
                 /\ i * chunkSize < end
                 /\ end <= i * chunkSize + chunkSize
                 /\ i + 1 < n => end = (i + 1) * chunkSize
                 /\ i + 1 = n => end = size
  <2>1. (i + 1) * chunkSize = i * chunkSize + chunkSize /\ i * chunkSize \in Nat
    BY MulStep, MulMono
  <2>2. (i + 1) * chunkSize <= n * chunkSize
    BY <1>2, <1>5, MulMono
  <2>3. i * chunkSize < size
    BY <1>3, <2>1, <2>2
  <2>4. i + 1 < n => (i + 1) * chunkSize < size
    <3>1. i + 1 < n => (i + 1 + 1) * chunkSize <= n * chunkSize
      BY <1>2, MulMono
    <3>2. (i + 1 + 1) * chunkSize = (i + 1) * chunkSize + chunkSize
      BY MulStep
    <3> QED BY <1>3, <2>1, <3>1, <3>2
  <2>5. i + 1 = n => size <= (i + 1) * chunkSize
    BY <1>3
  <2> QED BY <2>1, <2>3, <2>4, <2>5 DEF ChunkEnd
<1> QED BY <1>2, <1>4, <1>5 DEF n

-----------------------------------------------------------------------------
(* Types of chunks and lists.                                              *)

LEMMA CountType ==
    ASSUME TypeOK, NEW s \in Sessions
    PROVE  /\ ChunkSize(s) \in Nat
           /\ sess[s].size # 0 => ChunkSize(s) \in Nat \ {0}
           /\ Count(s) \in Nat
           /\ Count(s) = 0 <=> sess[s].size = 0
<1>1. sess[s].size \in Nat
  BY DEF TypeOK, Session
<1>2. sess[s].size # 0 => ChunkSize(s) \in Nat \ {0}
  BY <1>1, ChunkSizeAssumption, DynamicChunkSizePositive DEF ChunkSize
<1>3. sess[s].size = 0 => ChunkSize(s) \in Nat
  BY MBAssumption, ChunkSizeAssumption DEF ChunkSize, DynamicChunkSize
<1>4. sess[s].size # 0 => Count(s) \in Nat /\ Count(s) # 0
  BY <1>1, <1>2, ChunksTile DEF Count
<1> QED BY <1>1, <1>2, <1>3, <1>4 DEF Count

LEMMA EndType ==
    ASSUME NEW size \in Nat, NEW chunkSize \in Nat, NEW from \in Nat
    PROVE  ChunkEnd(size, chunkSize, from) \in Nat
BY DEF ChunkEnd

LEMMA NextChunkType ==
    ASSUME TypeOK, NEW s \in Sessions
    PROVE  NextChunk(s) \in Chunk
<1>1. sess[s].size \in Nat /\ sess[s].ids \in Seq(Chunk)
  BY DEF TypeOK, Session
<1>2. ChunkSize(s) \in Nat
  BY CountType
<1>3. Len(sess[s].ids) * ChunkSize(s) \in Nat
  BY <1>1, <1>2, MulMono
<1>4. sess[s].ids # <<>> => Last(sess[s].ids).to \in Nat
  <2>1. sess[s].ids # <<>> => sess[s].ids[Len(sess[s].ids)] \in Chunk
    BY <1>1, EmptySeq, ElementOfSeq
  <2> QED BY <2>1 DEF Last, Chunk
<1>5. Position(s) \in Nat
  BY <1>3, <1>4 DEF Position
<1> QED BY <1>1, <1>2, <1>5, EndType DEF NextChunk, Chunk

LEMMA TypeInit == Init => TypeOK
BY DEF Init, TypeOK, Session, Kinds, UploadPhase, Files, Download, NoVersion

\* What dropping the first k versions of a list keeps, and which chunks it deletes.
LEMMA DropFirst ==
    ASSUME NEW list \in Seq(Version), NEW k \in 0..Len(list)
    PROVE  /\ SubSeq(list, k + 1, Len(list)) \in Seq(Version)
           /\ Len(SubSeq(list, k + 1, Len(list))) = Len(list) - k
           /\ \A i \in 1..(Len(list) - k) : SubSeq(list, k + 1, Len(list))[i] = list[k + i]
           /\ ChunksOf(SubSeq(list, 1, k)) = UNION {ToSet(list[i].ids) : i \in 1..k}
<1>1. \A i \in 1..Len(list) : list[i] \in Version
  BY ElementOfSeq
<1>2. /\ SubSeq(list, k + 1, Len(list)) \in Seq(Version)
      /\ Len(SubSeq(list, k + 1, Len(list))) = Len(list) - k
      /\ \A i \in 1..(Len(list) - k) : SubSeq(list, k + 1, Len(list))[i] = list[k + i]
  <2>1. \A i \in (k + 1)..Len(list) : list[i] \in Version
    BY <1>1
  <2>2. Len(list) \in Nat
    OBVIOUS
  <2>3. /\ SubSeq(list, k + 1, Len(list)) \in Seq(Version)
        /\ Len(SubSeq(list, k + 1, Len(list))) =
             IF k + 1 <= Len(list) THEN Len(list) - (k + 1) + 1 ELSE 0
        /\ \A i \in 1..(Len(list) - (k + 1) + 1) :
             SubSeq(list, k + 1, Len(list))[i] = list[k + 1 + i - 1]
    BY <2>1, <2>2, SubSeqProperties
  <2> QED BY <2>2, <2>3
<1>3. /\ Len(SubSeq(list, 1, k)) = k
      /\ DOMAIN SubSeq(list, 1, k) = 1..k
      /\ \A i \in 1..k : SubSeq(list, 1, k)[i] = list[i]
  OBVIOUS
<1> QED BY <1>2, <1>3 DEF ChunksOf

LEMMA ExcessBound ==
    ASSUME NEW list \in Seq(Version)
    PROVE  Excess(list) \in 0..Len(list) /\ (list # <<>> => Excess(list) < Len(list))
BY MaxVersionsAssumption DEF Excess

-----------------------------------------------------------------------------
(* Types.                                                                  *)

LEMMA FileOfType == TypeOK => \A s \in Sessions : FileOf(s) \in Files
BY DEF FileOf, Files

LEMMA LastVersion ==
    ASSUME TypeOK, NEW f \in Files, versions[f] # <<>>
    PROVE  Last(versions[f]) \in Version /\ Last(versions[f]) \in ToSet(versions[f])
<1>1. versions[f] \in Seq(Version)
  BY DEF TypeOK
<1>2. Len(versions[f]) \in 1..Len(versions[f])
  BY <1>1, EmptySeq
<1> QED BY <1>1, <1>2, ElementOfSeq DEF Last, ToSet

\* A download that is not complete wants a chunk of its version.
LEMMA WantedType ==
    ASSUME TypeOK, NEW d \in Downloads, Len(down[d].got) < Len(down[d].ver.ids)
    PROVE  /\ down[d].ver.ids \in Seq(Chunk)
           /\ Len(down[d].got) + 1 \in 1..Len(down[d].ver.ids)
           /\ Wanted(d) \in Chunk
<1>1. down[d].ver \in Version \cup {NoVersion} /\ down[d].got \in Seq(Chunk)
  BY DEF TypeOK, Download
<1>2. down[d].ver.ids \in Seq(Chunk)
  BY <1>1 DEF Version, NoVersion
<1>3. Len(down[d].got) + 1 \in 1..Len(down[d].ver.ids)
  BY <1>1, <1>2
<1> QED BY <1>2, <1>3, ElementOfSeq DEF Wanted

\* A version that enters a list leaves the variables of the files as they should be.
LEMMA EnterType ==
    ASSUME TypeOK, NEW f \in Files, NEW v \in Version, Enter(f, v)
    PROVE  /\ stored' \subseteq Chunk
           /\ versions' \in [Files -> Seq(Version)] /\ saved' \in [Files -> Seq(Version)]
           /\ known' \subseteq Files /\ deleted' \subseteq Files
           /\ relisted' \subseteq Sessions
<1> DEFINE list == Append(versions[f], v)
           kept == SubSeq(list, Excess(list) + 1, Len(list))
<1>1. list \in Seq(Version) /\ Append(saved[f], v) \in Seq(Version)
  BY AppendProperties DEF TypeOK
<1>2. kept \in Seq(Version)
  BY <1>1, ExcessBound, DropFirst
<1>3. /\ versions' = [versions EXCEPT ![f] = kept]
      /\ saved' = [saved EXCEPT ![f] = Append(saved[f], v)]
      /\ stored' \subseteq stored /\ known' = known \cup {f}
      /\ UNCHANGED <<deleted, relisted>>
  BY DEF Enter
<1> HIDE DEF kept
<1> QED BY <1>1, <1>2, <1>3 DEF TypeOK

\* What is left of a list without its i-th version.
LEMMA Without ==
    ASSUME NEW l \in Seq(Version), NEW i \in 1..Len(l)
    PROVE  /\ RemoveAt(l, i) \in Seq(Version)
           /\ Len(RemoveAt(l, i)) = Len(l) - 1
           /\ \A j \in 1..(Len(l) - 1) :
                RemoveAt(l, i)[j] = IF j < i THEN l[j] ELSE l[j + 1]
<1> DEFINE a == SubSeq(l, 1, i - 1)
           b == SubSeq(l, i + 1, Len(l))
<1>1. \A j \in 1..Len(l) : l[j] \in Version
  BY ElementOfSeq
<1>2. /\ a \in Seq(Version) /\ Len(a) = i - 1
      /\ \A j \in 1..(i - 1) : a[j] = l[j]
  BY <1>1
<1>3. /\ b \in Seq(Version) /\ Len(b) = Len(l) - i
      /\ \A j \in 1..(Len(l) - i) : b[j] = l[i + j]
  BY DropFirst
<1>4. RemoveAt(l, i) = a \o b
  BY DEF RemoveAt
<1> HIDE DEF a, b
<1>5. /\ a \o b \in Seq(Version) /\ Len(a \o b) = Len(a) + Len(b)
      /\ \A j \in 1..(Len(a) + Len(b)) :
           (a \o b)[j] = IF j <= Len(a) THEN a[j] ELSE b[j - Len(a)]
  BY <1>2, <1>3, ConcatProperties
<1>6. ASSUME NEW j \in 1..(Len(l) - 1)
      PROVE  (a \o b)[j] = IF j < i THEN l[j] ELSE l[j + 1]
  <2>1. CASE j < i
    BY <1>2, <1>3, <1>5, <2>1
  <2>2. CASE j >= i
    <3>1. j - (i - 1) \in 1..(Len(l) - i) /\ i + (j - (i - 1)) = j + 1
      BY <2>2
    <3>2. (a \o b)[j] = b[j - (i - 1)]
      BY <1>2, <1>3, <1>5, <2>2
    <3> QED BY <1>3, <2>2, <3>1, <3>2
  <2>3. j < i \/ j >= i
    OBVIOUS
  <2> QED BY <2>1, <2>2, <2>3
<1>7. RemoveAt(l, i) \in Seq(Version) /\ Len(RemoveAt(l, i)) = Len(l) - 1
  <2>1. (i - 1) + (Len(l) - i) = Len(l) - 1
    OBVIOUS
  <2> QED BY <1>2, <1>3, <1>4, <1>5, <2>1
<1>8. \A j \in 1..(Len(l) - 1) :
        RemoveAt(l, i)[j] = IF j < i THEN l[j] ELSE l[j + 1]
  BY <1>4, <1>6
<1> QED BY <1>7, <1>8

LEMMA BrokenType == TypeOK => \A d \in Downloads : Broken(d) \in Download
<1> SUFFICES ASSUME TypeOK, NEW d \in Downloads PROVE Broken(d) \in Download
  OBVIOUS
<1>1. down[d] \in Download /\ <<>> \in Seq(Chunk)
  BY EmptySeq DEF TypeOK
<1> QED BY <1>1 DEF Broken, Download

LEMMA TypeNext == TypeOK /\ [Next]_vars => TypeOK'
<1> SUFFICES ASSUME TypeOK, [Next]_vars PROVE TypeOK'
  OBVIOUS
<1> USE DEF TypeOK
<1>1. ASSUME NEW s \in Sessions, NEW kind \in Kinds, NEW enc \in BOOLEAN,
             NEW size \in Sizes, StartUpload(s, kind, enc, size)
      PROVE  TypeOK'
  <2>1. size \in Nat
    BY SizesAssumption
  <2>2. sess' \in [Sessions -> Session]
    BY <1>1, <2>1 DEF StartUpload, Session, UploadPhase
  <2> QED BY <1>1, <2>2 DEF StartUpload, fileVars
<1>2. ASSUME NEW s \in Sessions, UploadChunk(s)
      PROVE  TypeOK'
  <2>1. NextChunk(s) \in Chunk
    BY NextChunkType
  <2>2. Append(sess[s].ids, NextChunk(s)) \in Seq(Chunk)
    BY <2>1, AppendProperties DEF Session
  <2>3. sess' \in [Sessions -> Session]
    BY <1>2, <2>2 DEF UploadChunk, Session
  <2> QED BY <1>2, <2>1, <2>3 DEF UploadChunk, fileVars
<1>3. ASSUME NEW s \in Sessions, ChunkFails(s)
      PROVE  TypeOK'
  <2>1. sess' \in [Sessions -> Session]
    BY <1>3 DEF ChunkFails, Session, UploadPhase
  <2> QED BY <1>3, <2>1, NextChunkType DEF ChunkFails, fileVars
<1>4. ASSUME NEW s \in Sessions, Publish(s)
      PROVE  TypeOK'
  <2> DEFINE v == [sess |-> s, ids |-> sess[s].ids]
  <2>1. FileOf(s) \in Files /\ v \in Version
    BY FileOfType DEF Session, Version
  <2>2. /\ Enter(FileOf(s), v)
        /\ \E p \in {"done", "answer"} : sess' = [sess EXCEPT ![s].phase = p]
        /\ UNCHANGED <<keys, down>>
    BY <1>4 DEF Publish
  <2> HIDE DEF v
  <2>3. sess' \in [Sessions -> Session]
    BY <2>2 DEF Session, UploadPhase
  <2> QED BY <2>1, <2>2, <2>3, EnterType
<1>5. ASSUME NEW s \in Sessions,
             PublishFails(s) \/ PublishAnswered(s) \/ SaveEncryptionKey(s) \/ SaveKeyFails(s)
      PROVE  TypeOK'
  <2>1. /\ \E p \in UploadPhase : sess' = [sess EXCEPT ![s].phase = p]
        /\ keys' = keys \/ keys' = [keys EXCEPT ![FileOf(s)] = s]
        /\ UNCHANGED <<stored, fileVars, down>>
    BY <1>5 DEF PublishFails, PublishAnswered, SaveEncryptionKey, SaveKeyFails, UploadPhase
  <2>2. sess' \in [Sessions -> Session]
    BY <2>1 DEF Session
  <2> QED BY <2>1, <2>2, FileOfType DEF fileVars
<1>6. ASSUME NEW f \in Files, DeleteFile(f)
      PROVE  TypeOK'
  <2>1. <<>> \in Seq(Version)
    BY EmptySeq
  <2> QED BY <1>6, <2>1 DEF DeleteFile
<1>7. ASSUME NEW d \in Downloads, NEW f \in Files, StartDownload(d, f)
      PROVE  TypeOK'
  <2>1. Last(versions[f]) \in Version
    BY <1>7, LastVersion DEF StartDownload
  <2> DEFINE r == [down[d] EXCEPT !.file = f, !.phase = "chunks", !.ver = Last(versions[f])]
  <2>2. r \in Download
    BY <2>1 DEF Download
  <2>3. down' = [down EXCEPT ![d] = r]
    BY <1>7 DEF StartDownload
  <2> HIDE DEF r
  <2>4. down' \in [Downloads -> Download]
    BY <2>2, <2>3
  <2> QED BY <1>7, <2>4 DEF StartDownload, fileVars
<1>8. ASSUME NEW d \in Downloads, NEW f \in Files, GetEncryptionKey(d, f)
      PROVE  TypeOK'
  <2> DEFINE r(key) == [down[d] EXCEPT !.by = "client", !.file = f, !.phase = "keyed",
                                       !.key = key]
  <2>1. PICK key \in Sessions \cup {NoKey} : down' = [down EXCEPT ![d] = r(key)]
    BY <1>8 DEF GetEncryptionKey
  <2>2. r(key) \in Download
    BY DEF Download
  <2> HIDE DEF r
  <2>3. down' \in [Downloads -> Download]
    BY <2>1, <2>2
  <2> QED BY <1>8, <2>3 DEF GetEncryptionKey, fileVars
<1>9. ASSUME NEW d \in Downloads, GetVersions(d)
      PROVE  TypeOK'
  <2>1. down[d].file \in Files
    BY DEF Download
  <2> DEFINE r == [down[d] EXCEPT !.phase = "chunks", !.ver = Last(versions[down[d].file])]
  <2>2. versions[down[d].file] # <<>> => r \in Download
    BY <2>1, LastVersion DEF Download
  <2>3. \/ down' = [down EXCEPT ![d] = Broken(d)]
        \/ versions[down[d].file] # <<>> /\ down' = [down EXCEPT ![d] = r]
    BY <1>9 DEF GetVersions
  <2> HIDE DEF r
  <2>4. down' \in [Downloads -> Download]
    BY <2>2, <2>3, BrokenType
  <2> QED BY <1>9, <2>4 DEF GetVersions, fileVars
<1>10. ASSUME NEW d \in Downloads, FetchChunk(d)
       PROVE  TypeOK'
  <2>1. Wanted(d) \in Chunk
    BY <1>10, WantedType DEF FetchChunk
  <2>2. Append(down[d].got, Wanted(d)) \in Seq(Chunk)
    BY <2>1, AppendProperties DEF Download
  <2>3. [down[d] EXCEPT !.got = Append(down[d].got, Wanted(d))] \in Download
    BY <2>2 DEF Download
  <2>4. \/ down' = [down EXCEPT ![d] = [down[d] EXCEPT !.got = Append(down[d].got, Wanted(d))]]
        \/ down' = [down EXCEPT ![d] = Broken(d)]
    BY <1>10 DEF FetchChunk
  <2>5. \E r \in Download : down' = [down EXCEPT ![d] = r]
    BY <2>3, <2>4, BrokenType
  <2>6. down' \in [Downloads -> Download]
    BY <2>5
  <2> QED BY <1>10, <2>6 DEF FetchChunk, fileVars
<1>11. ASSUME NEW d \in Downloads, AskChunkStatus(d) \/ DownloadFails(d) \/ DownloadEnds(d)
       PROVE  TypeOK'
  <2>1. [down[d] EXCEPT !.phase = "done"] \in Download
    BY DEF Download
  <2>2. \/ down' = [down EXCEPT ![d] = Broken(d)]
        \/ down' = [down EXCEPT ![d] = [down[d] EXCEPT !.phase = "done"]]
    BY <1>11 DEF AskChunkStatus, DownloadFails, DownloadEnds
  <2>3. \E r \in Download : down' = [down EXCEPT ![d] = r]
    BY <2>1, <2>2, BrokenType
  <2>4. down' \in [Downloads -> Download]
    BY <2>3
  <2> QED BY <1>11, <2>4 DEF AskChunkStatus, DownloadFails, DownloadEnds, fileVars
<1>12. ASSUME NEW f \in Files, NEW i \in DOMAIN versions[f], RollbackFile(f, i)
       PROVE  TypeOK'
  <2>1. versions[f][i] \in Version
    BY ElementOfSeq
  <2> QED BY <1>12, <2>1, EnterType DEF RollbackFile
<1>13. ASSUME NEW f \in Files, NEW i \in DOMAIN versions[f], DeleteVersion(f, i)
       PROVE  TypeOK'
  <2>1. RemoveAt(versions[f], i) \in Seq(Version)
    BY Without
  <2> QED BY <1>13, <2>1 DEF DeleteVersion
<1>14. CASE Restart
  <2>1. relisted' \subseteq Sessions
    BY <1>14 DEF Restart
  <2>2. \A s \in Sessions : [sess[s] EXCEPT !.phase = "failed"] \in Session
    BY DEF Session, UploadPhase
  <2>3. sess' \in [Sessions -> Session]
    BY <1>14, <2>2 DEF Restart
  <2>4. down' \in [Downloads -> Download]
    BY <1>14, BrokenType DEF Restart
  <2> QED BY <1>14, <2>1, <2>3, <2>4 DEF Restart
<1>15. CASE UNCHANGED vars
  BY <1>15 DEF vars, fileVars
<1> QED BY <1>1, <1>2, <1>3, <1>4, <1>5, <1>6, <1>7, <1>8, <1>9, <1>10, <1>11, <1>12,
           <1>13, <1>14, <1>15 DEF Next

\* Types are correct in every reachable state, for any sizes, numbers and file.
THEOREM TransferTypeCorrect == Spec => []TypeOK
BY TypeInit, TypeNext, PTL DEF Spec

-----------------------------------------------------------------------------
(* The inductive invariant.                                                *)

\* What an upload's phase says of the parts it has written: they are cut at the
\* multiples of the chunk size, and all of them are there once it has been published.
Settled(s) == sess[s].phase \notin {"idle", "chunks"}

Piece(s, i) == [sess |-> s, from |-> (i - 1) * ChunkSize(s),
                to |-> ChunkEnd(sess[s].size, ChunkSize(s), (i - 1) * ChunkSize(s))]

UploadInv(s) ==
    /\ sess[s].enc => sess[s].kind = "cli"
    /\ sess[s].phase = "key" => sess[s].enc
    /\ Len(sess[s].ids) <= Count(s)
    /\ \A i \in 1..Len(sess[s].ids) : sess[s].ids[i] = Piece(s, i)

\* What nobody has deleted of an upload under way is what it has written so far.
StoredInv ==
    /\ \A c \in stored :
         /\ sess[c.sess].phase # "idle"
         /\ sess[c.sess].phase = "chunks" => c \in ToSet(sess[c.sess].ids)
    /\ \A s \in Sessions : sess[s].phase = "chunks" => ToSet(sess[s].ids) \subseteq stored

\* A version as its upload made it, once that has written the last chunk.
Published(v) ==
    /\ v \in Version
    /\ Settled(v.sess)
    /\ v.ids = sess[v.sess].ids
    /\ Len(v.ids) = Count(v.sess)

\* Why a version may be listed without its chunks.
Excused(f, s) == Shared(f, s) \/ s \in relisted

ListInv ==
    \A f \in Files :
      /\ Listed(f) \subseteq ToSet(saved[f])
      /\ \A v \in ToSet(saved[f]) : Published(v) /\ FileOf(v.sess) = f
      /\ \A v \in Listed(f) : \A c \in ToSet(v.ids) : c \in stored \/ Excused(f, v.sess)
      /\ \A i, j \in 1..Len(versions[f]) :
           i # j /\ versions[f][i].sess = versions[f][j].sess => Shared(f, versions[f][i].sess)

DownInv(d) ==
    /\ down[d].phase \in {"chunks", "done"} =>
         /\ Published(down[d].ver)
         /\ Len(down[d].got) <= Len(down[d].ver.ids)
         /\ \A i \in 1..Len(down[d].got) : down[d].got[i] = down[d].ver.ids[i]
    /\ down[d].phase = "done" => Len(down[d].got) = Len(down[d].ver.ids)
    /\ down[d].phase \in {"idle", "keyed"} => down[d].got = <<>>

KeyInv ==
    /\ SuccessKeepsKey
    /\ \A f \in Files : keys[f] # NoKey => sess[keys[f]].phase # "idle"

IInv ==
    /\ TypeOK
    /\ \A s \in Sessions : UploadInv(s)
    /\ StoredInv
    /\ ListInv
    /\ NothingLeftBehind
    /\ \A d \in Downloads : DownInv(d)
    /\ KeyInv

-----------------------------------------------------------------------------
(* What the parts of an upload are.                                        *)

\* The i-th of the parts that ChunksTile numbers from 0.
LEMMA NthPiece ==
    ASSUME NEW size \in Nat, NEW b \in Nat \ {0},
           NEW i \in Nat \ {0}, i <= ChunkCount(size, b)
    PROVE  /\ (i - 1) * b \in Nat
           /\ (i - 1) * b < ChunkEnd(size, b, (i - 1) * b)
           /\ i < ChunkCount(size, b) => ChunkEnd(size, b, (i - 1) * b) = i * b
           /\ i = ChunkCount(size, b) => ChunkEnd(size, b, (i - 1) * b) = size
<1>1. PICK j \in Nat : i - 1 = j /\ i = j + 1
  <2>1. i - 1 \in Nat /\ i = (i - 1) + 1
    OBVIOUS
  <2> QED BY <2>1
<1>2. ChunkCount(size, b) \in Nat
  BY ChunksTile
<1>3. j < ChunkCount(size, b)
  BY <1>1, <1>2
<1> QED BY <1>1, <1>2, <1>3, ChunksTile

\* The next part an upload writes is cut at the offset of its number, for the server,
\* which reads on, as for the others.
LEMMA NextPiece ==
    ASSUME TypeOK, NEW s \in Sessions, UploadInv(s), Len(sess[s].ids) < Count(s)
    PROVE  NextChunk(s) = Piece(s, Len(sess[s].ids) + 1)
<1> DEFINE ids  == sess[s].ids
           n    == Len(ids)
           size == sess[s].size
           b    == ChunkSize(s)
<1>1. ids \in Seq(Chunk) /\ n \in Nat /\ size \in Nat
  BY DEF TypeOK, Session
<1>2. size # 0 /\ b \in Nat \ {0} /\ Count(s) = ChunkCount(size, b)
  BY <1>1, CountType DEF Count
<1>3. CASE ids = <<>>
  <2>1. n = 0
    BY <1>3
  <2>2. Position(s) = n * b
    BY <1>2, <1>3, <2>1 DEF Position
  <2> QED BY <1>1, <2>2 DEF NextChunk, Piece
<1>4. CASE ids # <<>>
  <2>1. n \in 1..n
    BY <1>1, <1>4, EmptySeq
  <2>2. ids[n] = Piece(s, n)
    BY <2>1 DEF UploadInv
  <2>3. n \in Nat \ {0} /\ n <= Count(s) /\ n < Count(s)
    BY <1>1, <2>1, CountType
  <2> HIDE DEF n, size, b
  <2>4. ChunkEnd(size, b, (n - 1) * b) = n * b
    BY <1>1, <1>2, <2>3, NthPiece
  <2> USE DEF n, size, b
  <2>5. Last(ids).to = n * b
    BY <2>2, <2>4 DEF Last, Piece
  <2>6. Position(s) = n * b
    BY <1>4, <2>5 DEF Position
  <2> QED BY <1>1, <2>6 DEF NextChunk, Piece
<1> QED BY <1>3, <1>4

\* An upload that has written its last part has written the file.
LEMMA WholeTiles ==
    ASSUME TypeOK, NEW s \in Sessions, UploadInv(s), Len(sess[s].ids) = Count(s)
    PROVE  Tiles(sess[s].ids, sess[s].size)
<1> DEFINE ids  == sess[s].ids
           n    == Len(ids)
           size == sess[s].size
           b    == ChunkSize(s)
<1>1. ids \in Seq(Chunk) /\ n \in Nat /\ size \in Nat
  BY DEF TypeOK, Session
<1>2. ids = <<>> <=> size = 0
  BY <1>1, CountType, EmptySeq
<1>3. CASE size = 0
  BY <1>1, <1>2, <1>3 DEF Tiles
<1>4. CASE size # 0
  <2>1. b \in Nat \ {0} /\ n = ChunkCount(size, b)
    BY <1>4, CountType DEF Count
  <2>2. ASSUME NEW i \in 1..n
        PROVE  /\ ids[i].from = (i - 1) * b
               /\ ids[i].from < ids[i].to
               /\ i < n => ids[i].to = i * b
               /\ i = n => ids[i].to = size
    <3>1. ids[i] = Piece(s, i)
      BY DEF UploadInv
    <3>2. ids[i].from = (i - 1) * b /\ ids[i].to = ChunkEnd(size, b, (i - 1) * b)
      BY <3>1 DEF Piece
    <3>3. i \in Nat \ {0} /\ i <= n
      BY <1>1
    <3> HIDE DEF n, size, b, ids
    <3>4. /\ (i - 1) * b < ChunkEnd(size, b, (i - 1) * b)
          /\ i < n => ChunkEnd(size, b, (i - 1) * b) = i * b
          /\ i = n => ChunkEnd(size, b, (i - 1) * b) = size
      BY <1>1, <2>1, <3>3, NthPiece
    <3> QED BY <3>2, <3>4
  <2>3. 1 \in 1..n /\ n \in 1..n
    BY <1>1, <1>2, <1>4, EmptySeq
  <2>4. ids[1].from = 0 /\ ids[n].to = size
    <3>1. (1 - 1) * b = 0
      BY <2>1
    <3> QED BY <2>2, <2>3, <3>1
  <2>5. ASSUME NEW i \in 1..(n - 1) PROVE ids[i].to = ids[i + 1].from
    <3>1. i \in 1..n /\ i < n /\ i + 1 \in 1..n /\ i + 1 - 1 = i
      BY <1>1
    <3> HIDE DEF n, b, ids
    <3> QED BY <2>2, <3>1
  <2>6. DOMAIN ids = 1..n
    BY <1>1
  <2> QED BY <1>2, <1>4, <2>2, <2>4, <2>5, <2>6 DEF Tiles
<1> QED BY <1>3, <1>4

\* What has been published is whole, and its parts are its own.
LEMMA PublishedWhole ==
    ASSUME TypeOK, NEW v, Published(v), \A s \in Sessions : UploadInv(s)
    PROVE  /\ v.sess \in Sessions /\ v.ids \in Seq(Chunk)
           /\ Tiles(v.ids, sess[v.sess].size)
           /\ \A c \in ToSet(v.ids) : c.sess = v.sess
<1>1. v.sess \in Sessions /\ v.ids \in Seq(Chunk) /\ v.ids = sess[v.sess].ids
  BY DEF Published, Version
<1>2. Tiles(v.ids, sess[v.sess].size)
  BY <1>1, WholeTiles DEF Published
<1>3. ASSUME NEW c \in ToSet(v.ids) PROVE c.sess = v.sess
  <2>1. PICK i \in 1..Len(v.ids) : c = v.ids[i]
    BY <1>1 DEF ToSet
  <2>2. v.ids[i] = Piece(v.sess, i)
    BY <1>1 DEF UploadInv
  <2> QED BY <2>1, <2>2 DEF Piece
<1> QED BY <1>1, <1>2, <1>3

-----------------------------------------------------------------------------
(* How a step changes uploads.                                             *)

\* An upload stays as it is, or changes in one of three ways.
Starts(s) ==
    /\ sess[s].phase = "idle"
    /\ \E new \in Session :
         /\ new.phase \in {"chunks", "failed"} /\ new.ids = <<>>
         /\ new.enc => new.kind = "cli"
         /\ sess'[s] = new

Writes(s) ==
    /\ sess[s].phase = "chunks"
    /\ Len(sess[s].ids) < Count(s)
    /\ sess'[s] = [sess[s] EXCEPT !.ids = Append(sess[s].ids, NextChunk(s))]

Moves(s, phase) ==
    /\ sess[s].phase # "idle" /\ phase \notin {"idle", "chunks"}
    /\ phase = "key" => sess[s].enc
    /\ sess'[s] = [sess[s] EXCEPT !.phase = phase]

LEMMA SessionStep ==
    ASSUME TypeOK, [Next]_vars, NEW s \in Sessions
    PROVE  \/ sess'[s] = sess[s]
           \/ Starts(s) \/ Writes(s) \/ \E phase \in UploadPhase : Moves(s, phase)
<1>0. sess \in [Sessions -> Session]
  BY DEF TypeOK
<1>1. ASSUME NEW t \in Sessions, NEW kind \in Kinds, NEW enc \in BOOLEAN,
             NEW size \in Sizes, StartUpload(t, kind, enc, size)
      PROVE  IF s = t THEN Starts(s) ELSE sess'[s] = sess[s]
  <2> DEFINE new == [kind |-> kind, enc |-> enc, size |-> size, ids |-> <<>>,
                     phase |-> IF kind = "server" /\ size = 0 THEN "failed" ELSE "chunks"]
  <2>1. size \in Nat /\ <<>> \in Seq(Chunk)
    BY SizesAssumption, EmptySeq
  <2>2. new \in Session
    BY <2>1 DEF Session, UploadPhase
  <2>3. /\ new.phase \in {"chunks", "failed"} /\ new.ids = <<>>
        /\ new.enc => new.kind = "cli"
    BY <1>1 DEF StartUpload
  <2>4. sess' = [sess EXCEPT ![t] = new] /\ sess[t].phase = "idle"
    BY <1>1 DEF StartUpload
  <2> HIDE DEF new
  <2> QED BY <1>0, <2>2, <2>3, <2>4 DEF Starts
<1>2. ASSUME NEW t \in Sessions, UploadChunk(t)
      PROVE  IF s = t THEN Writes(s) ELSE sess'[s] = sess[s]
  BY <1>0, <1>2 DEF UploadChunk, Writes
<1>3. ASSUME NEW t \in Sessions,
             \/ ChunkFails(t) \/ Publish(t) \/ PublishFails(t) \/ PublishAnswered(t)
             \/ SaveEncryptionKey(t) \/ SaveKeyFails(t)
      PROVE  IF s = t THEN \E phase \in UploadPhase : Moves(s, phase) ELSE sess'[s] = sess[s]
  <2>1. CASE ChunkFails(t)
    BY <1>0, <2>1 DEF ChunkFails, Moves, UploadPhase
  <2>2. CASE Publish(t)
    BY <1>0, <2>2 DEF Publish, Moves, UploadPhase
  <2>3. CASE PublishFails(t)
    BY <1>0, <2>3 DEF PublishFails, Moves, UploadPhase
  <2>4. CASE PublishAnswered(t)
    BY <1>0, <2>4 DEF PublishAnswered, Moves, UploadPhase
  <2>5. CASE SaveEncryptionKey(t) \/ SaveKeyFails(t)
    BY <1>0, <2>5 DEF SaveEncryptionKey, SaveKeyFails, Moves, UploadPhase
  <2> QED BY <1>3, <2>1, <2>2, <2>3, <2>4, <2>5
<1>4. ASSUME NEW f \in Files,
             \/ DeleteFile(f)
             \/ \E i \in DOMAIN versions[f] : RollbackFile(f, i) \/ DeleteVersion(f, i)
      PROVE  UNCHANGED sess
  BY <1>4 DEF DeleteFile, RollbackFile, DeleteVersion
<1>5. ASSUME NEW d \in Downloads,
             \/ \E f \in Files : StartDownload(d, f) \/ GetEncryptionKey(d, f)
             \/ GetVersions(d) \/ FetchChunk(d) \/ AskChunkStatus(d)
             \/ DownloadFails(d) \/ DownloadEnds(d)
      PROVE  UNCHANGED sess
  BY <1>5 DEF StartDownload, GetEncryptionKey, GetVersions, FetchChunk, AskChunkStatus,
              DownloadFails, DownloadEnds
<1>6. CASE Restart
  BY <1>6 DEF Restart, Moves, UploadPhase
<1>7. CASE UNCHANGED vars
  BY <1>7 DEF vars
<1> QED BY <1>1, <1>2, <1>3, <1>4, <1>5, <1>6, <1>7 DEF Next

\* What is settled of an upload stays: its file, its size and, once it has written
\* its last part, its parts.
LEMMA SettledStays ==
    ASSUME TypeOK, [Next]_vars, NEW s \in Sessions
    PROVE  /\ sess[s].phase # "idle" =>
                /\ sess'[s].phase # "idle"
                /\ sess'[s].kind = sess[s].kind /\ sess'[s].enc = sess[s].enc
                /\ sess'[s].size = sess[s].size
           /\ Settled(s) => Settled(s)' /\ sess'[s].ids = sess[s].ids
           /\ sess[s].phase = "idle" => sess'[s].phase = "idle" \/ Starts(s)
<1>0. sess[s] \in Session
  BY DEF TypeOK
<1>1. CASE sess'[s] = sess[s]
  BY <1>1 DEF Settled
<1>2. CASE Starts(s)
  BY <1>2 DEF Starts, Settled
<1>3. CASE Writes(s)
  <2>1. sess[s].phase = "chunks" /\ sess'[s] = [sess[s] EXCEPT !.ids = sess'[s].ids]
    BY <1>0, <1>3 DEF Writes, Session
  <2> QED BY <1>0, <2>1 DEF Settled, Session
<1>4. ASSUME NEW phase \in UploadPhase, Moves(s, phase)
      PROVE  /\ sess'[s].ids = sess[s].ids /\ sess'[s].kind = sess[s].kind
             /\ sess'[s].enc = sess[s].enc /\ sess'[s].size = sess[s].size
             /\ sess[s].phase # "idle" /\ sess'[s].phase \notin {"idle", "chunks"}
  BY <1>0, <1>4 DEF Moves, Session
<1> QED BY SessionStep, <1>1, <1>2, <1>3, <1>4 DEF Settled

LEMMA SizesStay ==
    ASSUME TypeOK, [Next]_vars, NEW s \in Sessions, sess[s].phase # "idle"
    PROVE  /\ FileOf(s)' = FileOf(s) /\ ChunkSize(s)' = ChunkSize(s)
           /\ Count(s)' = Count(s) /\ \A i : Piece(s, i)' = Piece(s, i)
<1>1. sess'[s].kind = sess[s].kind /\ sess'[s].size = sess[s].size
  BY SettledStays
<1>2. ChunkSize(s)' = ChunkSize(s)
  BY <1>1 DEF ChunkSize
<1> QED BY <1>1, <1>2 DEF FileOf, Count, Piece

LEMMA PublishedStays ==
    ASSUME TypeOK, [Next]_vars, NEW v, Published(v)
    PROVE  Published(v)' /\ FileOf(v.sess)' = FileOf(v.sess)
<1>1. v.sess \in Sessions /\ sess[v.sess].phase # "idle"
  BY DEF Published, Version, Settled
<1>2. Settled(v.sess)' /\ sess'[v.sess].ids = sess[v.sess].ids
  BY <1>1, SettledStays DEF Published
<1> QED BY <1>1, <1>2, SizesStay DEF Published

LEMMA UploadsPreserved ==
    ASSUME TypeOK, [Next]_vars, NEW s \in Sessions, UploadInv(s)
    PROVE  UploadInv(s)'
<1>0. sess \in [Sessions -> Session] /\ sess[s] \in Session /\ TypeOK'
  BY TypeNext DEF TypeOK
<1>1. CASE sess'[s] = sess[s]
  <2>1. ChunkSize(s)' = ChunkSize(s)
    BY <1>1 DEF ChunkSize
  <2>2. Count(s)' = Count(s) /\ \A i : Piece(s, i)' = Piece(s, i)
    BY <1>1, <2>1 DEF Count, Piece
  <2> QED BY <1>1, <2>2 DEF UploadInv
<1>2. CASE Starts(s)
  <2>1. PICK new \in Session : /\ new.phase \in {"chunks", "failed"} /\ new.ids = <<>>
                               /\ new.enc => new.kind = "cli"
                               /\ sess'[s] = new
    BY <1>2 DEF Starts
  <2>2. sess'[s] = new
    BY <2>1
  <2>3. Len(sess'[s].ids) = 0
    BY <2>1, <2>2
  <2>4. Count(s)' \in Nat
    <3>1. ChunkSize(s)' \in Nat /\ (new.size # 0 => ChunkSize(s)' # 0)
      BY <2>2, MBAssumption, ChunkSizeAssumption, DynamicChunkSizePositive
         DEF ChunkSize, DynamicChunkSize, Session
    <3>2. new.size \in Nat
      BY DEF Session
    <3> QED BY <2>2, <3>1, <3>2, ChunksTile DEF Count
  <2> QED BY <2>1, <2>2, <2>3, <2>4 DEF UploadInv
<1>3. CASE Writes(s)
  <2> DEFINE n == Len(sess[s].ids)
  <2>1. /\ sess'[s].ids = Append(sess[s].ids, NextChunk(s))
        /\ sess'[s].phase = "chunks" /\ sess'[s].enc = sess[s].enc
        /\ sess'[s].kind = sess[s].kind
    BY <1>0, <1>3 DEF Writes, Session
  <2>2. NextChunk(s) = Piece(s, n + 1) /\ NextChunk(s) \in Chunk /\ n < Count(s)
    BY <1>3, NextPiece, NextChunkType DEF Writes
  <2>3. sess[s].ids \in Seq(Chunk) /\ n \in Nat
    BY <1>0 DEF Session
  <2>4. /\ Len(sess'[s].ids) = n + 1
        /\ \A i \in 1..n : sess'[s].ids[i] = sess[s].ids[i]
        /\ sess'[s].ids[n + 1] = Piece(s, n + 1)
    BY <2>1, <2>2, <2>3, AppendProperties
  <2>5. Count(s)' = Count(s) /\ \A i : Piece(s, i)' = Piece(s, i)
    BY <1>3, SizesStay DEF Writes
  <2>6. Count(s) \in Nat
    BY CountType
  <2>7. \A i \in 1..(n + 1) : sess'[s].ids[i] = Piece(s, i)
    <3>1. \A i \in 1..n : sess[s].ids[i] = Piece(s, i)
      BY DEF UploadInv
    <3> HIDE DEF n
    <3>2. \A i \in 1..(n + 1) : i \in 1..n \/ i = n + 1
      BY <2>3 DEF n
    <3> QED BY <2>4, <3>1, <3>2
  <2> HIDE DEF n
  <2>8. Len(sess'[s].ids) <= Count(s)'
    BY <2>2, <2>3, <2>4, <2>5, <2>6 DEF n
  <2> QED BY <2>1, <2>4, <2>5, <2>7, <2>8 DEF UploadInv
<1>4. ASSUME NEW phase \in UploadPhase, Moves(s, phase)
      PROVE  UploadInv(s)'
  <2>1. sess'[s] = [sess[s] EXCEPT !.phase = phase] /\ sess[s].phase # "idle"
    BY <1>0, <1>4 DEF Moves
  <2>2. /\ sess'[s].ids = sess[s].ids /\ sess'[s].enc = sess[s].enc
        /\ sess'[s].kind = sess[s].kind /\ sess'[s].phase = phase
    BY <1>0, <2>1 DEF Session
  <2>3. Count(s)' = Count(s) /\ \A i : Piece(s, i)' = Piece(s, i)
    BY <2>1, SizesStay
  <2> QED BY <1>4, <2>2, <2>3 DEF UploadInv, Moves
<1> QED BY SessionStep, <1>1, <1>2, <1>3, <1>4

-----------------------------------------------------------------------------
(* Keys.                                                                   *)

LEMMA KeyStep == [Next]_vars => keys' = keys \/ \E s \in Sessions : SaveEncryptionKey(s)
<1> SUFFICES ASSUME [Next]_vars PROVE keys' = keys \/ \E s \in Sessions : SaveEncryptionKey(s)
  OBVIOUS
<1>1. ASSUME NEW s \in Sessions, NEW kind \in Kinds, NEW enc \in BOOLEAN,
             NEW size \in Sizes, StartUpload(s, kind, enc, size)
      PROVE  keys' = keys
  BY <1>1 DEF StartUpload
<1>2. ASSUME NEW s \in Sessions,
             \/ UploadChunk(s) \/ ChunkFails(s) \/ PublishFails(s)
             \/ PublishAnswered(s) \/ SaveKeyFails(s)
      PROVE  keys' = keys
  BY <1>2 DEF UploadChunk, ChunkFails, PublishFails, PublishAnswered, SaveKeyFails
<1>3. ASSUME NEW s \in Sessions, Publish(s) PROVE keys' = keys
  BY <1>3 DEF Publish
<1>4. ASSUME NEW f \in Files,
             \/ DeleteFile(f)
             \/ \E i \in DOMAIN versions[f] : RollbackFile(f, i) \/ DeleteVersion(f, i)
      PROVE  keys' = keys
  BY <1>4 DEF DeleteFile, RollbackFile, DeleteVersion
<1>5. ASSUME NEW d \in Downloads,
             \/ \E f \in Files : StartDownload(d, f) \/ GetEncryptionKey(d, f)
             \/ GetVersions(d) \/ FetchChunk(d) \/ AskChunkStatus(d)
             \/ DownloadFails(d) \/ DownloadEnds(d)
      PROVE  keys' = keys
  BY <1>5 DEF StartDownload, GetEncryptionKey, GetVersions, FetchChunk, AskChunkStatus,
              DownloadFails, DownloadEnds
<1>6. CASE Restart
  BY <1>6 DEF Restart
<1>7. CASE UNCHANGED vars
  BY <1>7 DEF vars
<1> QED BY <1>1, <1>2, <1>3, <1>4, <1>5, <1>6, <1>7 DEF Next

\* An encrypted upload reports success only with the answer for its key.
LEMMA DoneStep ==
    ASSUME TypeOK, [Next]_vars, NEW s \in Sessions, UploadInv(s),
           sess[s].enc, sess[s].phase \notin {"idle", "done"}, sess'[s].phase = "done"
    PROVE  SaveEncryptionKey(s)
<1>0. sess \in [Sessions -> Session] /\ sess[s] \in Session
  BY DEF TypeOK
<1>1. ASSUME NEW t \in Sessions, NEW kind \in Kinds, NEW enc \in BOOLEAN,
             NEW size \in Sizes, StartUpload(t, kind, enc, size)
      PROVE  sess'[s] = sess[s]
  BY <1>0, <1>1 DEF StartUpload
<1>2. ASSUME NEW t \in Sessions, UploadChunk(t)
      PROVE  sess'[s].phase = sess[s].phase
  BY <1>0, <1>2 DEF UploadChunk, Session
<1>3. ASSUME NEW t \in Sessions, Publish(t) \/ PublishAnswered(t)
      PROVE  t = s => FALSE
  <2>1. CASE Publish(t)
    BY <1>0, <2>1 DEF Publish, Session, UploadInv
  <2>2. CASE PublishAnswered(t)
    BY <1>0, <2>2 DEF PublishAnswered, Session
  <2> QED BY <1>3, <2>1, <2>2
<1>4. ASSUME NEW t \in Sessions,
             \/ ChunkFails(t) \/ PublishFails(t) \/ SaveKeyFails(t)
             \/ t # s /\ (Publish(t) \/ PublishAnswered(t) \/ SaveEncryptionKey(t))
      PROVE  sess'[s].phase \in {sess[s].phase, "failed", "warned"}
  <2>1. CASE ChunkFails(t)
    BY <1>0, <2>1 DEF ChunkFails, Session
  <2>2. CASE PublishFails(t) \/ SaveKeyFails(t)
    BY <1>0, <2>2 DEF PublishFails, SaveKeyFails, Session
  <2>3. CASE t # s /\ Publish(t)
    BY <1>0, <2>3 DEF Publish
  <2>4. CASE t # s /\ (PublishAnswered(t) \/ SaveEncryptionKey(t))
    BY <1>0, <2>4 DEF PublishAnswered, SaveEncryptionKey
  <2> QED BY <1>4, <2>1, <2>2, <2>3, <2>4
<1>5. ASSUME NEW f \in Files,
             \/ DeleteFile(f)
             \/ \E i \in DOMAIN versions[f] : RollbackFile(f, i) \/ DeleteVersion(f, i)
      PROVE  sess' = sess
  BY <1>5 DEF DeleteFile, RollbackFile, DeleteVersion
<1>6. ASSUME NEW d \in Downloads,
             \/ \E f \in Files : StartDownload(d, f) \/ GetEncryptionKey(d, f)
             \/ GetVersions(d) \/ FetchChunk(d) \/ AskChunkStatus(d)
             \/ DownloadFails(d) \/ DownloadEnds(d)
      PROVE  sess' = sess
  BY <1>6 DEF StartDownload, GetEncryptionKey, GetVersions, FetchChunk, AskChunkStatus,
              DownloadFails, DownloadEnds
<1>7. CASE Restart
  BY <1>0, <1>7 DEF Restart, Session
<1>8. CASE UNCHANGED vars
  BY <1>8 DEF vars
<1> QED BY <1>1, <1>2, <1>3, <1>4, <1>5, <1>6, <1>7, <1>8 DEF Next

LEMMA KeysPreserved ==
    ASSUME TypeOK, \A s \in Sessions : UploadInv(s), KeyInv, [Next]_vars
    PROVE  KeyInv'
<1> DEFINE KeyOf(f, s) == sess[s].enc /\ FileOf(s) = f /\ sess[s].phase # "idle"
<1>0. /\ \A f \in Files : keys[f] # NoKey => keys[f] \in Sessions
      /\ keys \in [Files -> Sessions \cup {NoKey}] /\ sess \in [Sessions -> Session]
  BY DEF TypeOK
<1>1. ASSUME NEW f \in Files, NEW s \in Sessions, KeyOf(f, s)
      PROVE  KeyOf(f, s)'
  BY <1>1, SettledStays, SizesStay
<1>2. ASSUME NEW f \in Files, keys'[f] # NoKey
      PROVE  \E s \in Sessions : s = keys'[f] /\ KeyOf(f, s)
  <2>1. CASE keys'[f] = keys[f]
    BY <1>0, <1>2, <2>1 DEF KeyInv, SuccessKeepsKey
  <2>2. CASE keys'[f] # keys[f]
    <3>1. PICK s \in Sessions : SaveEncryptionKey(s)
      BY <2>2, KeyStep
    <3>2. keys' = [keys EXCEPT ![FileOf(s)] = s] /\ sess[s].phase = "key"
      BY <3>1 DEF SaveEncryptionKey
    <3>3. FileOf(s) = f /\ keys'[f] = s
      BY <1>0, <2>2, <3>2
    <3> QED BY <3>2, <3>3 DEF UploadInv
  <2> QED BY <2>1, <2>2
<1>3. ASSUME NEW f \in Files, keys[f] # NoKey
      PROVE  keys'[f] # NoKey
  <2>1. CASE keys'[f] = keys[f]
    BY <1>3, <2>1
  <2>2. ASSUME NEW s \in Sessions, SaveEncryptionKey(s)
        PROVE  keys'[f] # NoKey
    <3>1. keys' = [keys EXCEPT ![FileOf(s)] = s]
      BY <2>2 DEF SaveEncryptionKey
    <3> QED BY <1>0, <1>3, <3>1, NamesAssumption
  <2> QED BY <2>1, <2>2, KeyStep
<1>4. ASSUME NEW s \in Sessions, sess'[s].enc, sess'[s].phase = "done"
      PROVE  keys'[FileOf(s)'] # NoKey
  <2>1. sess[s].phase # "idle"
    <3>1. Starts(s) => sess'[s].phase \in {"chunks", "failed"}
      BY <1>0 DEF Starts
    <3> QED BY <1>4, <3>1, SettledStays
  <2>2. FileOf(s)' = FileOf(s) /\ sess[s].enc /\ FileOf(s) \in Files
    BY <1>4, <2>1, SettledStays, SizesStay, FileOfType
  <2>3. CASE sess[s].phase = "done"
    BY <1>3, <2>2, <2>3 DEF KeyInv, SuccessKeepsKey
  <2>4. CASE sess[s].phase # "done"
    <3>1. SaveEncryptionKey(s)
      BY <1>4, <2>1, <2>2, <2>4, DoneStep
    <3>2. keys' = [keys EXCEPT ![FileOf(s)] = s]
      BY <3>1 DEF SaveEncryptionKey
    <3> QED BY <1>0, <2>2, <3>2, NamesAssumption
  <2> QED BY <2>3, <2>4
<1>5. ASSUME NEW f \in Files, keys'[f] # NoKey
      PROVE  (sess[keys[f]].enc /\ FileOf(keys[f]) = f /\ sess[keys[f]].phase # "idle")'
  <2>1. PICK s \in Sessions : s = keys'[f] /\ KeyOf(f, s)
    BY <1>2, <1>5
  <2>2. sess'[s].enc /\ FileOf(s)' = f /\ sess'[s].phase # "idle"
    BY <1>1, <2>1
  <2> QED BY <2>1, <2>2 DEF FileOf
<1> QED BY <1>4, <1>5 DEF KeyInv, SuccessKeepsKey

-----------------------------------------------------------------------------
(* Downloads.                                                              *)

LEMMA SameVersion ==
    ASSUME NEW d, NEW v, v = down'[d].ver, Published(v)'
    PROVE  Published(down[d].ver)'
BY DEF Published, Settled, Count, ChunkSize

LEMMA DownsPreserved ==
    ASSUME TypeOK, ListInv, [Next]_vars, NEW d \in Downloads, DownInv(d)
    PROVE  DownInv(d)'
<1>0. down \in [Downloads -> Download] /\ down[d] \in Download
  BY DEF TypeOK
<1>1. ASSUME NEW f \in Files, versions[f] # <<>>, down'[d].ver = Last(versions[f]),
             down'[d].phase = "chunks", down'[d].got = <<>>
      PROVE  DownInv(d)'
  <2>1. PICK v : v = Last(versions[f])
    OBVIOUS
  <2>2. Published(v)
    <3>1. v \in Listed(f)
      BY <1>1, <2>1, LastVersion DEF Listed
    <3> QED BY <3>1 DEF ListInv
  <2>3. Published(v)'
    BY <2>2, PublishedStays
  <2>4. Published(down[d].ver)'
    BY <1>1, <2>1, <2>3, SameVersion
  <2>5. v.ids \in Seq(Chunk)
    BY <2>2 DEF Published, Version
  <2> QED BY <1>1, <2>1, <2>4, <2>5 DEF DownInv
<1>2. ASSUME down'[d].phase \in {"chunks", "done"} => down[d].phase \in {"chunks", "done"},
             down'[d].phase \in {"chunks", "done"} =>
               /\ down'[d].ver = down[d].ver
               /\ Len(down'[d].got) <= Len(down[d].ver.ids)
               /\ \A i \in 1..Len(down'[d].got) : down'[d].got[i] = down[d].ver.ids[i],
             down'[d].phase = "done" => Len(down'[d].got) = Len(down[d].ver.ids),
             down'[d].phase \in {"idle", "keyed"} => down'[d].got = <<>>
      PROVE  DownInv(d)'
  <2>1. CASE down'[d].phase \in {"chunks", "done"}
    <3>1. PICK v : v = down[d].ver
      OBVIOUS
    <3>2. Published(v)
      BY <1>2, <2>1, <3>1 DEF DownInv
    <3>3. Published(v)'
      BY <3>2, PublishedStays
    <3>4. Published(down[d].ver)'
      BY <1>2, <2>1, <3>1, <3>3, SameVersion
    <3> QED BY <1>2, <2>1, <3>1, <3>4 DEF DownInv
  <2>2. CASE down'[d].phase \notin {"chunks", "done"}
    BY <1>2, <2>2 DEF DownInv
  <2> QED BY <2>1, <2>2
<1>3. CASE down'[d] = down[d]
  BY <1>2, <1>3 DEF DownInv
\* A download that ends with an error has nothing any more.
<1>3a. down' = [down EXCEPT ![d] = Broken(d)] => DownInv(d)'
  <2>1. down' = [down EXCEPT ![d] = Broken(d)] => down'[d].phase = "failed"
    BY <1>0 DEF Broken, Download
  <2> QED BY <1>2, <2>1
<1>4. ASSUME NEW f \in Files, StartDownload(d, f)
      PROVE  DownInv(d)'
  <2>1. /\ down'[d].ver = Last(versions[f]) /\ down'[d].phase = "chunks"
        /\ down'[d].got = down[d].got /\ down[d].phase = "idle" /\ versions[f] # <<>>
    BY <1>0, <1>4 DEF StartDownload, Download
  <2> QED BY <1>1, <2>1 DEF DownInv
<1>5. ASSUME NEW f \in Files, GetEncryptionKey(d, f)
      PROVE  DownInv(d)'
  <2>1. /\ down'[d].phase = "keyed" /\ down[d].phase = "idle"
        /\ down'[d].got = down[d].got
    BY <1>0, <1>5 DEF GetEncryptionKey, Download
  <2> QED BY <1>2, <2>1 DEF DownInv
<1>6. CASE GetVersions(d)
  <2> DEFINE f == down[d].file
  <2>1. f \in Files /\ down[d].phase = "keyed"
    BY <1>0, <1>6 DEF Download, GetVersions
  <2>2. CASE f \notin known \/ versions[f] = <<>>
    BY <1>3a, <1>6, <2>2 DEF GetVersions
  <2>3. CASE f \in known /\ versions[f] # <<>>
    <3>1. PICK g \in Files : g = f
      BY <2>1
    <3>2. /\ down'[d].ver = Last(versions[g]) /\ down'[d].phase = "chunks"
          /\ down'[d].got = down[d].got
      BY <1>0, <1>6, <2>3, <3>1 DEF GetVersions, Download
    <3> QED BY <1>1, <2>1, <2>3, <3>1, <3>2 DEF DownInv
  <2> QED BY <2>2, <2>3
<1>7. CASE FetchChunk(d)
  <2> DEFINE n == Len(down[d].got)
  <2>1. /\ down[d].phase = "chunks" /\ n < Len(down[d].ver.ids) /\ n \in Nat
        /\ down[d].got \in Seq(Chunk) /\ down[d].ver.ids \in Seq(Chunk)
        /\ Wanted(d) \in Chunk
    BY <1>0, <1>7, WantedType DEF FetchChunk, Download
  <2>2. CASE down' = [down EXCEPT ![d].got = Append(down[d].got, Wanted(d))]
    <3>1. /\ down'[d].got = Append(down[d].got, Wanted(d))
          /\ down'[d].ver = down[d].ver /\ down'[d].phase = "chunks"
      BY <1>0, <2>1, <2>2 DEF Download
    <3>2. /\ Len(down'[d].got) = n + 1
          /\ \A i \in 1..n : down'[d].got[i] = down[d].ver.ids[i]
          /\ down'[d].got[n + 1] = down[d].ver.ids[n + 1]
      BY <2>1, <3>1, AppendProperties DEF Wanted, DownInv
    <3> HIDE DEF n
    <3>3. \A i \in 1..(n + 1) : i \in 1..n \/ i = n + 1
      BY <2>1
    <3>4. n + 1 <= Len(down[d].ver.ids)
      BY <2>1
    <3> QED BY <1>2, <2>1, <3>1, <3>2, <3>3, <3>4
  <2> QED BY <1>3a, <1>7, <2>2 DEF FetchChunk
<1>8. CASE AskChunkStatus(d) \/ DownloadFails(d)
  BY <1>3a, <1>8 DEF AskChunkStatus, DownloadFails
<1>9. CASE DownloadEnds(d)
  <2>1. /\ down'[d].phase = "done" /\ down[d].phase = "chunks"
        /\ down'[d].ver = down[d].ver /\ down'[d].got = down[d].got
        /\ Len(down[d].got) = Len(down[d].ver.ids)
    BY <1>0, <1>9 DEF DownloadEnds, Download
  <2> QED BY <1>2, <2>1 DEF DownInv
<1>10. ASSUME NEW e \in Downloads, e # d,
              \/ \E f \in Files : StartDownload(e, f) \/ GetEncryptionKey(e, f)
              \/ GetVersions(e) \/ FetchChunk(e) \/ AskChunkStatus(e)
              \/ DownloadFails(e) \/ DownloadEnds(e)
       PROVE  down'[d] = down[d]
  BY <1>0, <1>10 DEF StartDownload, GetEncryptionKey, GetVersions, FetchChunk,
                     AskChunkStatus, DownloadFails, DownloadEnds
<1>11. ASSUME NEW s \in Sessions,
              \/ \E kind \in Kinds, enc \in BOOLEAN, size \in Sizes :
                   StartUpload(s, kind, enc, size)
              \/ UploadChunk(s) \/ ChunkFails(s) \/ Publish(s) \/ PublishFails(s)
              \/ PublishAnswered(s) \/ SaveEncryptionKey(s) \/ SaveKeyFails(s)
       PROVE  down'[d] = down[d]
  BY <1>11 DEF StartUpload, UploadChunk, ChunkFails, Publish, PublishFails,
               PublishAnswered, SaveEncryptionKey, SaveKeyFails
<1>12. ASSUME NEW f \in Files,
              \/ DeleteFile(f)
              \/ \E i \in DOMAIN versions[f] : RollbackFile(f, i) \/ DeleteVersion(f, i)
       PROVE  down'[d] = down[d]
  BY <1>12 DEF DeleteFile, RollbackFile, DeleteVersion
<1>13. CASE Restart
  <2>1. down'[d] = down[d] \/ (down'[d].phase = "failed" /\ down'[d].got = <<>>)
    BY <1>0, <1>13 DEF Restart, Broken, Download
  <2> QED BY <1>2, <1>3, <2>1
<1>14. CASE UNCHANGED vars
  BY <1>3, <1>14 DEF vars
<1> QED BY <1>3, <1>4, <1>5, <1>6, <1>7, <1>8, <1>9, <1>10, <1>11, <1>12, <1>13, <1>14
        DEF Next

-----------------------------------------------------------------------------
(* Versions and their chunks.                                              *)

LEMMA ToSetAppend ==
    ASSUME NEW S, NEW l \in Seq(S), NEW e \in S
    PROVE  ToSet(Append(l, e)) = ToSet(l) \cup {e}
<1> DEFINE n == Len(l)
           a == Append(l, e)
<1>1. /\ n \in Nat /\ Len(a) = n + 1 /\ a \in Seq(S)
      /\ \A i \in 1..n : a[i] = l[i]
      /\ a[n + 1] = e
  BY AppendProperties
<1>2. ToSet(l) = {l[i] : i \in 1..n}
  BY DEF ToSet
<1>3. ToSet(a) = {a[i] : i \in 1..(n + 1)}
  BY <1>1 DEF ToSet
<1> HIDE DEF n, a
<1>4. n + 1 \in 1..(n + 1) /\ \A i \in 1..(n + 1) : i \in 1..n \/ i = n + 1
  BY <1>1
<1>5. \A i \in 1..n : i \in 1..(n + 1)
  BY <1>1
<1>6. ToSet(a) = ToSet(l) \cup {e}
  BY <1>1, <1>2, <1>3, <1>4, <1>5
<1> QED BY <1>6 DEF a

LEMMA OwnParts ==
    ASSUME TypeOK, NEW s \in Sessions, UploadInv(s)
    PROVE  \A c \in ToSet(sess[s].ids) : c.sess = s /\ c \in Chunk
<1>1. sess[s].ids \in Seq(Chunk)
  BY DEF TypeOK, Session
<1>2. ASSUME NEW c \in ToSet(sess[s].ids) PROVE c.sess = s /\ c \in Chunk
  <2>1. PICK i \in 1..Len(sess[s].ids) : c = sess[s].ids[i]
    BY <1>1 DEF ToSet
  <2>2. c = Piece(s, i)
    BY <2>1 DEF UploadInv
  <2>3. c \in Chunk
    BY <1>1, <2>1, ElementOfSeq
  <2> QED BY <2>2, <2>3 DEF Piece
<1> QED BY <1>2

\* The saved versions of a file, and what holds of those listed besides.
LEMMA SavedFacts ==
    ASSUME TypeOK, \A s \in Sessions : UploadInv(s), ListInv,
           NEW f \in Files, NEW v \in ToSet(saved[f])
    PROVE  /\ Published(v) /\ v \in Version /\ v.sess \in Sessions /\ v.ids \in Seq(Chunk)
           /\ FileOf(v.sess) = f /\ Settled(v.sess)
           /\ \A c \in ToSet(v.ids) : c.sess = v.sess
BY PublishedWhole DEF ListInv, Published

LEMMA ListedFacts ==
    ASSUME TypeOK, \A s \in Sessions : UploadInv(s), ListInv,
           NEW f \in Files, NEW v \in Listed(f)
    PROVE  /\ Published(v) /\ v \in Version /\ v.sess \in Sessions /\ v.ids \in Seq(Chunk)
           /\ FileOf(v.sess) = f /\ Settled(v.sess)
           /\ \A c \in ToSet(v.ids) :
                c.sess = v.sess /\ (c \in stored \/ Excused(f, v.sess))
<1>1. v \in ToSet(saved[f])
  BY DEF ListInv
<1> QED BY <1>1, SavedFacts DEF ListInv

LEMMA ListedIn ==
    ASSUME TypeOK, NEW f \in Files
    PROVE  /\ versions[f] \in Seq(Version)
           /\ Listed(f) = {versions[f][i] : i \in 1..Len(versions[f])}
           /\ ChunksOf(versions[f]) = UNION {ToSet(v.ids) : v \in Listed(f)}
<1>1. versions[f] \in Seq(Version) /\ DOMAIN versions[f] = 1..Len(versions[f])
  BY DEF TypeOK
<1>2. Listed(f) = {versions[f][i] : i \in 1..Len(versions[f])}
  BY <1>1 DEF Listed, ToSet
<1> QED BY <1>1, <1>2 DEF ChunksOf

\* The Replicas bucket only grows.
LEMMA SavedStep ==
    ASSUME TypeOK, [Next]_vars
    PROVE  /\ relisted \subseteq relisted'
           /\ \/ saved' = saved
              \/ \E g \in Files, v \in Version :
                   saved' = [saved EXCEPT ![g] = Append(saved[g], v)]
<1>1. ASSUME NEW s \in Sessions, Publish(s)
      PROVE  /\ relisted' = relisted
             /\ \E g \in Files, v \in Version :
                  saved' = [saved EXCEPT ![g] = Append(saved[g], v)]
  <2>1. FileOf(s) \in Files /\ [sess |-> s, ids |-> sess[s].ids] \in Version
    BY FileOfType DEF TypeOK, Session, Version
  <2> QED BY <1>1, <2>1 DEF Publish, Enter
<1>2. ASSUME NEW f \in Files, NEW i \in DOMAIN versions[f], RollbackFile(f, i)
      PROVE  /\ relisted' = relisted
             /\ \E g \in Files, v \in Version :
                  saved' = [saved EXCEPT ![g] = Append(saved[g], v)]
  <2>1. versions[f][i] \in Version
    BY ElementOfSeq DEF TypeOK
  <2> QED BY <1>2, <2>1 DEF RollbackFile, Enter
<1>3. ASSUME NEW f \in Files,
             DeleteFile(f) \/ \E i \in DOMAIN versions[f] : DeleteVersion(f, i)
      PROVE  UNCHANGED <<saved, relisted>>
  BY <1>3 DEF DeleteFile, DeleteVersion
<1>4. CASE Restart
  BY <1>4 DEF Restart
<1>5. ASSUME NEW s \in Sessions,
             \/ \E kind \in Kinds, enc \in BOOLEAN, size \in Sizes :
                  StartUpload(s, kind, enc, size)
             \/ UploadChunk(s) \/ ChunkFails(s) \/ PublishFails(s)
             \/ PublishAnswered(s) \/ SaveEncryptionKey(s) \/ SaveKeyFails(s)
      PROVE  UNCHANGED <<saved, relisted>>
  BY <1>5 DEF StartUpload, UploadChunk, ChunkFails, PublishFails, PublishAnswered,
              SaveEncryptionKey, SaveKeyFails, fileVars
<1>6. ASSUME NEW d \in Downloads,
             \/ \E f \in Files : StartDownload(d, f) \/ GetEncryptionKey(d, f)
             \/ GetVersions(d) \/ FetchChunk(d) \/ AskChunkStatus(d)
             \/ DownloadFails(d) \/ DownloadEnds(d)
      PROVE  UNCHANGED <<saved, relisted>>
  BY <1>6 DEF StartDownload, GetEncryptionKey, GetVersions, FetchChunk, AskChunkStatus,
              DownloadFails, DownloadEnds, fileVars
<1>7. CASE UNCHANGED vars
  BY <1>7 DEF vars, fileVars
<1> QED BY <1>1, <1>2, <1>3, <1>4, <1>5, <1>6, <1>7 DEF Next

\* So what is shared or loaded back once stays so.
LEMMA SavedGrows ==
    ASSUME TypeOK, [Next]_vars, NEW f \in Files
    PROVE  /\ ToSet(saved[f]) \subseteq ToSet(saved'[f])
           /\ \A s : Shared(f, s) => Shared(f, s)'
           /\ \A s : Excused(f, s) => Excused(f, s)'
<1>0. saved \in [Files -> Seq(Version)] /\ TypeOK'
  BY TypeNext DEF TypeOK
<1>1. /\ saved[f] \in Seq(Version) /\ saved'[f] \in Seq(Version)
      /\ Len(saved[f]) <= Len(saved'[f])
      /\ \A i \in 1..Len(saved[f]) : saved'[f][i] = saved[f][i]
  <2>1. CASE saved' = saved
    BY <1>0, <2>1
  <2>2. ASSUME NEW g \in Files, NEW v \in Version,
               saved' = [saved EXCEPT ![g] = Append(saved[g], v)]
        PROVE  /\ saved[f] \in Seq(Version) /\ saved'[f] \in Seq(Version)
               /\ Len(saved[f]) <= Len(saved'[f])
               /\ \A i \in 1..Len(saved[f]) : saved'[f][i] = saved[f][i]
    <3>1. saved'[f] = IF f = g THEN Append(saved[f], v) ELSE saved[f]
      BY <1>0, <2>2
    <3> QED BY <1>0, <3>1, AppendProperties DEF TypeOK
  <2> QED BY <2>1, <2>2, SavedStep
<1>2. /\ DOMAIN saved[f] = 1..Len(saved[f]) /\ DOMAIN saved'[f] = 1..Len(saved'[f])
      /\ \A i \in 1..Len(saved[f]) : i \in 1..Len(saved'[f])
  BY <1>1
<1>3. ToSet(saved[f]) \subseteq ToSet(saved'[f])
  BY <1>1, <1>2 DEF ToSet
<1>4. ASSUME NEW s, Shared(f, s) PROVE Shared(f, s)'
  BY <1>1, <1>2, <1>4 DEF Shared
<1> QED BY <1>3, <1>4, SavedStep DEF Excused

StoreInv == StoredInv /\ ListInv /\ NothingLeftBehind

\* Steps that change neither the versions nor the chunks.
Quiet ==
    /\ UNCHANGED <<stored, fileVars>>
    /\ \A s \in Sessions :
         /\ sess[s].phase # "idle" =>
              /\ sess'[s].ids = sess[s].ids
              /\ sess[s].phase \in {"chunks", "failed"} =>
                   sess'[s].phase \in {"chunks", "failed"}
         /\ sess[s].phase = "idle" /\ sess'[s].phase = "chunks" => sess'[s].ids = <<>>

LEMMA QuietStep ==
    ASSUME TypeOK, [Next]_vars
    PROVE  \/ Quiet
           \/ \E s \in Sessions : UploadChunk(s) \/ ChunkFails(s) \/ Publish(s)
           \/ \E f \in Files :
                \/ DeleteFile(f)
                \/ \E i \in DOMAIN versions[f] : RollbackFile(f, i) \/ DeleteVersion(f, i)
           \/ Restart
<1>0. sess \in [Sessions -> Session]
  BY DEF TypeOK
<1>1. ASSUME NEW s \in Sessions, NEW kind \in Kinds, NEW enc \in BOOLEAN,
             NEW size \in Sizes, StartUpload(s, kind, enc, size)
      PROVE  Quiet
  <2>1. /\ sess[s].phase = "idle" /\ sess'[s].ids = <<>>
        /\ \A t \in Sessions : t # s => sess'[t] = sess[t]
        /\ UNCHANGED <<stored, fileVars>>
    BY <1>0, <1>1 DEF StartUpload
  <2> QED BY <2>1 DEF Quiet
<1>2. ASSUME NEW s \in Sessions, PublishFails(s)
      PROVE  Quiet
  <2>1. /\ \A t \in Sessions : /\ sess'[t].ids = sess[t].ids
                               /\ sess'[t].phase \in {sess[t].phase, "failed"}
                               /\ sess[t].phase = "idle" => sess'[t].phase = "idle"
        /\ UNCHANGED <<stored, fileVars>>
    BY <1>0, <1>2 DEF PublishFails, Session
  <2> QED BY <2>1 DEF Quiet
<1>3. ASSUME NEW s \in Sessions,
             PublishAnswered(s) \/ SaveEncryptionKey(s) \/ SaveKeyFails(s)
      PROVE  Quiet
  <2>1. /\ \A t \in Sessions :
             /\ sess'[t].ids = sess[t].ids
             /\ sess[t].phase \in {"chunks", "failed", "idle"} =>
                  sess'[t].phase = sess[t].phase
        /\ UNCHANGED <<stored, fileVars>>
    <3>1. CASE PublishAnswered(s)
      BY <1>0, <3>1 DEF PublishAnswered, Session
    <3>2. CASE SaveEncryptionKey(s)
      BY <1>0, <3>2 DEF SaveEncryptionKey, Session
    <3>3. CASE SaveKeyFails(s)
      BY <1>0, <3>3 DEF SaveKeyFails, Session
    <3> QED BY <1>3, <3>1, <3>2, <3>3
  <2> QED BY <2>1 DEF Quiet
<1>4. ASSUME NEW d \in Downloads,
             \/ \E f \in Files : StartDownload(d, f) \/ GetEncryptionKey(d, f)
             \/ GetVersions(d) \/ FetchChunk(d) \/ AskChunkStatus(d)
             \/ DownloadFails(d) \/ DownloadEnds(d)
      PROVE  UNCHANGED <<sess, stored, fileVars>>
  BY <1>4 DEF StartDownload, GetEncryptionKey, GetVersions, FetchChunk, AskChunkStatus,
              DownloadFails, DownloadEnds
<1>5. CASE UNCHANGED <<sess, stored, fileVars>>
  BY <1>5 DEF Quiet
<1> QED BY <1>1, <1>2, <1>3, <1>4, <1>5 DEF Next, vars

\* Lists stay in order as long as they stay and no chunk goes.
LEMMA KeptLists ==
    ASSUME TypeOK, ListInv, [Next]_vars,
           versions' = versions, saved' = saved, stored \subseteq stored'
    PROVE  ListInv'
<1>1. ASSUME NEW f \in Files, NEW v \in ToSet(saved[f])
      PROVE  Published(v)' /\ FileOf(v.sess)' = f
  BY PublishedStays DEF ListInv
<1>2. ASSUME NEW f \in Files, NEW v \in Listed(f), NEW c \in ToSet(v.ids)
      PROVE  c \in stored' \/ Excused(f, v.sess)'
  BY SavedGrows DEF ListInv
<1>3. ASSUME NEW f \in Files, NEW i \in 1..Len(versions[f]), NEW j \in 1..Len(versions[f]),
             i # j, versions[f][i].sess = versions[f][j].sess
      PROVE  Shared(f, versions[f][i].sess)'
  BY <1>3, SavedGrows DEF ListInv
<1>4. \A f \in Files : Listed(f)' = Listed(f) /\ Listed(f) \subseteq ToSet(saved[f])
  BY DEF Listed, ListInv
<1> QED BY <1>1, <1>2, <1>3, <1>4 DEF ListInv

LEMMA QuietPreserves ==
    ASSUME TypeOK, StoreInv, [Next]_vars, Quiet
    PROVE  StoreInv'
<1> USE DEF StoreInv
<1>0. /\ stored \subseteq Chunk /\ \A c \in Chunk : c.sess \in Sessions
      /\ stored' = stored /\ versions' = versions /\ saved' = saved
  BY DEF TypeOK, Chunk, Quiet, fileVars
<1>1. StoredInv'
  <2>1. ASSUME NEW c \in stored
        PROVE  /\ sess'[c.sess].phase # "idle"
               /\ sess'[c.sess].phase = "chunks" => c \in ToSet(sess'[c.sess].ids)
    <3>1. c.sess \in Sessions /\ sess[c.sess].phase # "idle"
      BY <1>0 DEF StoredInv
    <3>2. sess'[c.sess].phase = "chunks" => sess[c.sess].phase = "chunks"
      BY <3>1, SettledStays DEF Settled
    <3> QED BY <3>1, <3>2, SettledStays DEF StoredInv, Quiet
  <2>2. ASSUME NEW s \in Sessions, sess'[s].phase = "chunks"
        PROVE  ToSet(sess'[s].ids) \subseteq stored
    <3>1. CASE sess[s].phase = "idle"
      BY <2>2, <3>1 DEF Quiet, ToSet
    <3>2. CASE sess[s].phase # "idle"
      <4>1. sess[s].phase = "chunks" /\ sess'[s].ids = sess[s].ids
        BY <2>2, <3>2, SettledStays DEF Settled, Quiet
      <4> QED BY <4>1 DEF StoredInv
    <3> QED BY <3>1, <3>2
  <2> QED BY <1>0, <2>1, <2>2 DEF StoredInv
<1>2. ListInv'
  BY <1>0, KeptLists
<1>3. NothingLeftBehind'
  <2>1. ASSUME NEW c \in stored
        PROVE  \/ sess'[c.sess].phase \in {"chunks", "failed"}
               \/ \E v \in ToSet(versions[FileOf(c.sess)']) : c \in ToSet(v.ids)
    <3>1. c.sess \in Sessions /\ sess[c.sess].phase # "idle"
      BY <1>0 DEF StoredInv
    <3>2. FileOf(c.sess)' = FileOf(c.sess)
      BY <3>1, SizesStay
    <3> QED BY <3>1, <3>2 DEF NothingLeftBehind, Quiet, Listed
  <2> QED BY <1>0, <2>1 DEF NothingLeftBehind, Listed
<1> QED BY <1>1, <1>2, <1>3

\* Steps of an upload that write, or may write, its next part.
LEMMA WritePreserves ==
    ASSUME TypeOK, \A s \in Sessions : UploadInv(s), StoreInv, [Next]_vars,
           NEW s \in Sessions, UploadChunk(s) \/ ChunkFails(s)
    PROVE  StoreInv'
<1> USE DEF StoreInv
<1>1. PICK c \in Chunk : c = NextChunk(s) /\ c.sess = s
  BY NextChunkType DEF NextChunk
<1>2. /\ \A e \in stored : e.sess \in Sessions
      /\ sess \in [Sessions -> Session] /\ sess[s] \in Session
      /\ versions' = versions /\ saved' = saved /\ sess[s].phase = "chunks"
      /\ stored' = stored \/ stored' = stored \cup {c}
      /\ \A t \in Sessions : t # s => sess'[t] = sess[t]
  BY <1>1 DEF TypeOK, Chunk, UploadChunk, ChunkFails, fileVars
<1>3. \/ /\ sess'[s].phase = "chunks" /\ sess'[s].ids = Append(sess[s].ids, c)
         /\ stored' = stored \cup {c}
      \/ sess'[s].phase = "failed"
  BY <1>1, <1>2 DEF UploadChunk, ChunkFails, Session
<1>4. sess'[s].phase = "chunks" => ToSet(sess'[s].ids) = ToSet(sess[s].ids) \cup {c}
  <2>1. sess[s].ids \in Seq(Chunk)
    BY <1>2 DEF Session
  <2>2. ToSet(Append(sess[s].ids, c)) = ToSet(sess[s].ids) \cup {c}
    BY <2>1, ToSetAppend
  <2> QED BY <1>3, <2>2
<1>5. StoredInv'
  <2>1. ASSUME NEW e \in stored'
        PROVE  /\ sess'[e.sess].phase # "idle"
               /\ sess'[e.sess].phase = "chunks" => e \in ToSet(sess'[e.sess].ids)
    <3>1. CASE e.sess = s
      BY <1>2, <1>3, <1>4, <2>1, <3>1 DEF StoredInv
    <3>2. CASE e.sess # s
      <4>1. e \in stored
        BY <1>1, <1>2, <2>1, <3>2
      <4> QED BY <1>2, <3>2, <4>1 DEF StoredInv
    <3> QED BY <3>1, <3>2
  <2>2. ASSUME NEW t \in Sessions, sess'[t].phase = "chunks"
        PROVE  ToSet(sess'[t].ids) \subseteq stored'
    BY <1>2, <1>3, <1>4, <2>2 DEF StoredInv
  <2> QED BY <2>1, <2>2 DEF StoredInv
<1>6. ListInv'
  BY <1>2, KeptLists
<1>7. NothingLeftBehind'
  <2>1. ASSUME NEW e \in stored'
        PROVE  \/ sess'[e.sess].phase \in {"chunks", "failed"}
               \/ \E v \in ToSet(versions[FileOf(e.sess)']) : e \in ToSet(v.ids)
    <3>1. CASE e.sess = s
      BY <1>3, <3>1
    <3>2. CASE e.sess # s
      <4>1. e \in stored /\ e.sess \in Sessions
        BY <1>1, <1>2, <2>1, <3>2
      <4>2. FileOf(e.sess)' = FileOf(e.sess)
        BY <4>1, SizesStay DEF StoredInv
      <4> QED BY <1>2, <3>2, <4>1, <4>2 DEF NothingLeftBehind, Listed
    <3> QED BY <3>1, <3>2
  <2> QED BY <1>2, <2>1 DEF NothingLeftBehind, Listed
<1> QED BY <1>5, <1>6, <1>7

\* Versions of one file's list go.  list is what the list would be if none went, place
\* says where in it stand the versions that are kept.
Stand(list, kept, place) ==
    /\ place \in [1..Len(kept) -> 1..Len(list)]
    /\ \A i, j \in 1..Len(kept) : place[i] = place[j] => i = j
    /\ \A i \in 1..Len(kept) : kept[i] = list[place[i]]

Gone(kept, place, i) == \A j \in 1..Len(kept) : place[j] # i

\* All of list is saved, in order but for versions that are gone.
Sound(f, list) ==
    /\ \A v \in ToSet(saved'[f]) : Published(v)' /\ FileOf(v.sess)' = f
    /\ \A i \in 1..Len(list) :
         /\ list[i] \in ToSet(saved'[f]) /\ FileOf(list[i].sess) = f
         /\ \A c \in ToSet(list[i].ids) :
              c.sess = list[i].sess /\ (c \in stored \/ Excused(f, list[i].sess)')
    /\ \A i, j \in 1..Len(list) :
         i # j /\ list[i].sess = list[j].sess => Shared(f, list[i].sess)'

\* With them go chunks that no version kept has, or only one that shares its upload.
LEMMA CutList ==
    ASSUME TypeOK, \A s \in Sessions : UploadInv(s), ListInv, [Next]_vars,
           NEW f \in Files, NEW list \in Seq(Version), NEW kept \in Seq(Version),
           NEW place, Stand(list, kept, place), Sound(f, list),
           NEW drop,
           \A c \in drop : \E i \in 1..Len(list) :
             c \in ToSet(list[i].ids) /\ Gone(kept, place, i),
           versions' = [versions EXCEPT ![f] = kept], stored' = stored \ drop,
           \A g \in Files : g # f => saved'[g] = saved[g]
    PROVE  ListInv'
<1>1. versions'[f] = kept /\ \A g \in Files : g # f => versions'[g] = versions[g]
  BY DEF TypeOK
<1>2. ASSUME NEW v \in ToSet(kept)
      PROVE  \E i \in 1..Len(kept) : place[i] \in 1..Len(list) /\ v = list[place[i]]
  <2>1. PICK i \in 1..Len(kept) : v = kept[i]
    BY DEF ToSet
  <2> QED BY <2>1 DEF Stand
<1>3. ASSUME NEW g \in Files, NEW v \in ToSet(saved'[g])
      PROVE  Published(v)' /\ FileOf(v.sess)' = g
  <2>1. CASE g # f
    BY <1>3, <2>1, PublishedStays DEF ListInv
  <2>2. CASE g = f
    BY <1>3, <2>2 DEF Sound
  <2> QED BY <2>1, <2>2
<1>4. ASSUME NEW g \in Files, NEW v \in ToSet(versions'[g])
      PROVE  v \in ToSet(saved'[g])
  <2>1. CASE g = f
    BY <1>1, <1>2, <1>4, <2>1 DEF Sound
  <2>2. CASE g # f
    BY <1>1, <1>4, <2>2 DEF Listed, ListInv
  <2> QED BY <2>1, <2>2
<1>5. ASSUME NEW g \in Files, NEW v \in ToSet(versions'[g]), NEW c \in ToSet(v.ids)
      PROVE  c \in stored' \/ Excused(g, v.sess)'
  <2>1. CASE g = f
    <3>1. PICK i \in 1..Len(kept) : place[i] \in 1..Len(list) /\ v = list[place[i]]
      BY <1>1, <1>2, <1>5, <2>1
    <3>2. CASE c \in drop
      <4>1. PICK j \in 1..Len(list) : c \in ToSet(list[j].ids) /\ place[i] # j
        BY <3>2 DEF Gone
      <4>2. c.sess = list[j].sess /\ c.sess = v.sess
        BY <1>5, <3>1, <4>1 DEF Sound
      <4>3. Shared(f, v.sess)'
        BY <3>1, <4>1, <4>2 DEF Sound
      <4> QED BY <2>1, <4>3 DEF Excused
    <3>3. CASE c \notin drop
      BY <1>5, <2>1, <3>1, <3>3 DEF Sound
    <3> QED BY <3>2, <3>3
  <2>2. CASE g # f
    <3>1. v \in Listed(g)
      BY <1>1, <1>5, <2>2 DEF Listed
    <3>2. c.sess = v.sess /\ FileOf(v.sess) = g /\ (c \in stored \/ Excused(g, v.sess))
      BY <1>5, <3>1, ListedFacts
    <3>3. c \notin drop
      BY <2>2, <3>2 DEF Sound
    <3> QED BY <3>2, <3>3, SavedGrows
  <2> QED BY <2>1, <2>2
<1>6. ASSUME NEW g \in Files, NEW s,
             NEW i \in 1..Len(versions'[g]), NEW j \in 1..Len(versions'[g]),
             i # j, versions'[g][i].sess = s, versions'[g][j].sess = s
      PROVE  Shared(g, s)'
  <2>1. CASE g = f
    <3>1. i \in 1..Len(kept) /\ j \in 1..Len(kept) /\ kept[i].sess = s /\ kept[j].sess = s
      BY <1>1, <1>6, <2>1
    <3>2. /\ place[i] \in 1..Len(list) /\ place[j] \in 1..Len(list)
          /\ place[i] # place[j] /\ kept[i] = list[place[i]] /\ kept[j] = list[place[j]]
      BY <1>6, <3>1 DEF Stand
    <3> QED BY <2>1, <3>1, <3>2 DEF Sound
  <2>2. CASE g # f
    <3>1. versions'[g] = versions[g]
      BY <1>1, <2>2
    <3>2. Shared(g, s)
      BY <1>6, <3>1 DEF ListInv
    <3> QED BY <3>2, SavedGrows
  <2> QED BY <2>1, <2>2
<1>7. \A g \in Files : Listed(g)' = ToSet(versions'[g])
  BY DEF Listed
<1> QED BY <1>3, <1>4, <1>5, <1>6, <1>7 DEF ListInv

\* All the chunks of the versions that go go, and none of an upload under way.
TakesAll(list, kept, place, drop) ==
    \A i \in 1..Len(list) : Gone(kept, place, i) => ToSet(list[i].ids) \subseteq drop

SparesUploads(drop) ==
    /\ \A s \in Sessions : sess'[s].phase = "chunks" => sess'[s] = sess[s]
    /\ \A c \in drop : sess'[c.sess].phase # "chunks"

\* Every chunk belongs to an upload under way or failed, or to a version.
Accounted(f, list) ==
    \A c \in stored :
      \/ sess'[c.sess].phase \in {"chunks", "failed"}
      \/ FileOf(c.sess) = f /\ \E i \in 1..Len(list) : c \in ToSet(list[i].ids)
      \/ FileOf(c.sess) # f /\ \E v \in Listed(FileOf(c.sess)) : c \in ToSet(v.ids)

\* Then nothing is left behind.
LEMMA CutStore ==
    ASSUME TypeOK, \A s \in Sessions : UploadInv(s), StoredInv, [Next]_vars,
           NEW f \in Files, NEW list \in Seq(Version), NEW kept \in Seq(Version),
           NEW place, Stand(list, kept, place),
           NEW drop, TakesAll(list, kept, place, drop),
           versions' = [versions EXCEPT ![f] = kept], stored' = stored \ drop,
           SparesUploads(drop), Accounted(f, list)
    PROVE  StoredInv' /\ NothingLeftBehind'
<1>1. /\ versions'[f] = kept /\ \A g \in Files : g # f => versions'[g] = versions[g]
      /\ \A c \in stored : c.sess \in Sessions
  BY DEF TypeOK, Chunk
<1>2. StoredInv'
  <2>1. ASSUME NEW c \in stored'
        PROVE  /\ sess'[c.sess].phase # "idle"
               /\ sess'[c.sess].phase = "chunks" => c \in ToSet(sess'[c.sess].ids)
    <3>1. c \in stored /\ c.sess \in Sessions /\ sess[c.sess].phase # "idle"
      BY <1>1 DEF StoredInv
    <3> QED BY <3>1, SettledStays DEF StoredInv, SparesUploads
  <2>2. ASSUME NEW s \in Sessions, sess'[s].phase = "chunks"
        PROVE  ToSet(sess'[s].ids) \subseteq stored'
    <3>1. sess'[s] = sess[s] /\ ToSet(sess[s].ids) \subseteq stored
      BY <2>2 DEF StoredInv, SparesUploads
    <3>2. \A c \in ToSet(sess[s].ids) : c.sess = s
      BY OwnParts
    <3> QED BY <2>2, <3>1, <3>2 DEF SparesUploads
  <2> QED BY <2>1, <2>2 DEF StoredInv
<1>3. NothingLeftBehind'
  <2>1. ASSUME NEW c \in stored', sess'[c.sess].phase \notin {"chunks", "failed"}
        PROVE  \E v \in ToSet(versions'[FileOf(c.sess)']) : c \in ToSet(v.ids)
    <3>1. c \in stored /\ c \notin drop /\ c.sess \in Sessions
      BY <1>1
    <3>2. FileOf(c.sess)' = FileOf(c.sess) /\ FileOf(c.sess) \in Files
      BY <3>1, SizesStay, FileOfType DEF StoredInv
    <3>3. CASE FileOf(c.sess) = f
      <4>1. PICK i \in 1..Len(list) : c \in ToSet(list[i].ids)
        BY <2>1, <3>1, <3>3 DEF Accounted
      <4>2. PICK j \in 1..Len(kept) : place[j] = i
        BY <3>1, <4>1 DEF Gone, TakesAll
      <4>3. kept[j] = list[i] /\ kept[j] \in ToSet(kept)
        BY <4>2 DEF Stand, ToSet
      <4> QED BY <1>1, <3>2, <3>3, <4>1, <4>3
    <3>4. CASE FileOf(c.sess) # f
      BY <1>1, <2>1, <3>1, <3>2, <3>4 DEF Accounted, Listed
    <3> QED BY <3>3, <3>4
  <2> QED BY <2>1 DEF NothingLeftBehind, Listed
<1> QED BY <1>2, <1>3

\* A deletion takes exactly the chunks of the versions that go.
LEMMA DropPreserves ==
    ASSUME TypeOK, \A s \in Sessions : UploadInv(s), StoreInv, [Next]_vars,
           NEW f \in Files, NEW list \in Seq(Version), NEW kept \in Seq(Version),
           NEW place, Stand(list, kept, place), NEW drop,
           drop = UNION {ToSet(list[i].ids) : i \in {j \in 1..Len(list) : Gone(kept, place, j)}},
           list = versions[f], versions' = [versions EXCEPT ![f] = kept],
           stored' = stored \ drop, UNCHANGED <<sess, saved>>
    PROVE  StoreInv'
<1> USE DEF StoreInv
<1>1. ASSUME NEW i \in 1..Len(list)
      PROVE  /\ list[i] \in Listed(f) /\ list[i] \in ToSet(saved[f])
             /\ FileOf(list[i].sess) = f /\ Settled(list[i].sess)
             /\ \A c \in ToSet(list[i].ids) :
                  c.sess = list[i].sess /\ (c \in stored \/ Excused(f, list[i].sess))
  <2>1. list[i] \in Listed(f)
    BY ListedIn
  <2> QED BY <2>1, ListedFacts DEF ListInv
<1>2. Sound(f, list)
  <2>1. ASSUME NEW v \in ToSet(saved'[f])
        PROVE  Published(v)' /\ FileOf(v.sess)' = f
    BY <2>1, PublishedStays DEF ListInv
  <2>2. ASSUME NEW i \in 1..Len(list), NEW c \in ToSet(list[i].ids)
        PROVE  c.sess = list[i].sess /\ (c \in stored \/ Excused(f, list[i].sess)')
    BY <1>1, SavedGrows
  <2>3. ASSUME NEW i \in 1..Len(list), NEW j \in 1..Len(list), i # j,
               list[i].sess = list[j].sess
        PROVE  Shared(f, list[i].sess)'
    <3>1. Shared(f, list[i].sess)
      BY <2>3 DEF ListInv
    <3> QED BY <3>1, SavedGrows
  <2> QED BY <1>1, <2>1, <2>2, <2>3 DEF Sound
<1>3. ListInv'
  <2>1. ASSUME NEW c \in drop
        PROVE  \E i \in 1..Len(list) : c \in ToSet(list[i].ids) /\ Gone(kept, place, i)
    BY <2>1
  <2>2. \A g \in Files : g # f => saved'[g] = saved[g]
    OBVIOUS
  <2> QED BY <1>2, <2>1, <2>2, CutList, ZenonT(60)
<1>4. SparesUploads(drop)
  BY <1>1 DEF Settled, SparesUploads
<1>5. Accounted(f, list)
  <2>1. Listed(f) = {list[i] : i \in 1..Len(list)}
    BY ListedIn
  <2> QED BY <2>1 DEF NothingLeftBehind, Accounted
<1>6. TakesAll(list, kept, place, drop)
  BY DEF TakesAll
<1>7. StoredInv' /\ NothingLeftBehind'
  BY <1>4, <1>5, <1>6, CutStore
<1> QED BY <1>3, <1>7

LEMMA DeletePreserves ==
    ASSUME TypeOK, \A s \in Sessions : UploadInv(s), StoreInv, [Next]_vars,
           NEW f \in Files, DeleteFile(f)
    PROVE  StoreInv'
<1>1. PICK list \in Seq(Version) : list = versions[f]
  BY ListedIn
<1>2. PICK kept \in Seq(Version) : kept = <<>> /\ Len(kept) = 0
  BY EmptySeq
<1>3. PICK place : place = [i \in 1..Len(kept) |-> 1]
  OBVIOUS
<1>4. Stand(list, kept, place) /\ \A i \in 1..Len(list) : Gone(kept, place, i)
  BY <1>2, <1>3 DEF Stand, Gone
<1>5. DOMAIN list = 1..Len(list)
  OBVIOUS
<1>6. /\ versions' = [versions EXCEPT ![f] = kept] /\ UNCHANGED <<sess, saved>>
      /\ stored' = stored \ UNION {ToSet(list[i].ids) :
                                     i \in {j \in 1..Len(list) : Gone(kept, place, j)}}
  BY <1>1, <1>2, <1>4, <1>5 DEF DeleteFile, ChunksOf
<1> QED BY <1>1, <1>4, <1>6, DropPreserves

LEMMA DeleteVersionPreserves ==
    ASSUME TypeOK, \A s \in Sessions : UploadInv(s), StoreInv, [Next]_vars,
           NEW f \in Files, NEW n \in DOMAIN versions[f], DeleteVersion(f, n)
    PROVE  StoreInv'
<1>1. PICK list \in Seq(Version) : list = versions[f]
  BY ListedIn
<1>2. Len(list) \in Nat /\ n \in 1..Len(list)
  BY <1>1
<1>3. PICK kept \in Seq(Version) :
        /\ kept = RemoveAt(list, n) /\ Len(kept) = Len(list) - 1
        /\ \A i \in 1..(Len(list) - 1) : kept[i] = IF i < n THEN list[i] ELSE list[i + 1]
  BY <1>2, Without
<1>4. PICK place : place = [i \in 1..Len(kept) |-> IF i < n THEN i ELSE i + 1]
  OBVIOUS
<1>5. Stand(list, kept, place)
  <2>1. ASSUME NEW i \in 1..Len(kept)
        PROVE  /\ place[i] = (IF i < n THEN i ELSE i + 1)
               /\ place[i] \in 1..Len(list) /\ kept[i] = list[place[i]]
    <3>1. i \in 1..(Len(list) - 1) /\ place[i] = IF i < n THEN i ELSE i + 1
      BY <1>3, <1>4
    <3>2. place[i] \in 1..Len(list)
      BY <1>2, <3>1
    <3>3. kept[i] = list[place[i]]
      BY <1>3, <3>1
    <3> QED BY <3>1, <3>2, <3>3
  <2>2. ASSUME NEW i \in 1..Len(kept), NEW j \in 1..Len(kept), place[i] = place[j]
        PROVE  i = j
    BY <1>2, <2>1, <2>2
  <2>3. place \in [1..Len(kept) -> 1..Len(list)]
    BY <1>4, <2>1
  <2> QED BY <2>1, <2>2, <2>3 DEF Stand
<1>6. {j \in 1..Len(list) : Gone(kept, place, j)} = {n}
  <2>1. Gone(kept, place, n)
    BY <1>2, <1>3, <1>4 DEF Gone
  <2>2. ASSUME NEW j \in 1..Len(list), j # n PROVE ~Gone(kept, place, j)
    <3>1. CASE j < n
      <4>1. j \in 1..Len(kept) /\ place[j] = j
        BY <1>2, <1>3, <1>4, <3>1
      <4> QED BY <4>1 DEF Gone
    <3>2. CASE j > n
      <4>1. j - 1 \in 1..Len(kept) /\ place[j - 1] = j
        BY <1>2, <1>3, <1>4, <3>2
      <4> QED BY <4>1 DEF Gone
    <3> QED BY <1>2, <2>2, <3>1, <3>2
  <2> QED BY <1>2, <2>1, <2>2
<1>7. /\ versions' = [versions EXCEPT ![f] = kept] /\ UNCHANGED <<sess, saved>>
      /\ stored' = stored \ UNION {ToSet(list[i].ids) :
                                     i \in {j \in 1..Len(list) : Gone(kept, place, j)}}
  BY <1>1, <1>3, <1>6 DEF DeleteVersion
<1> QED BY <1>1, <1>5, <1>7, DropPreserves

\* Chunks of uploads that are neither under way nor failed are listed, or new ones.
Covered(new) ==
    \A c \in stored :
      \/ sess'[c.sess].phase \in {"chunks", "failed"}
      \/ \E v \in Listed(FileOf(c.sess)) : c \in ToSet(v.ids)
      \/ c \in ToSet(new.ids)

\* When a version enters a list, those dropped are at its front.
LEMMA EnterPreserves ==
    ASSUME TypeOK, \A s \in Sessions : UploadInv(s), StoreInv, [Next]_vars,
           NEW f \in Files, NEW new \in Version, Enter(f, new),
           Published(new)', FileOf(new.sess) = f, FileOf(new.sess)' = f,
           \A c \in ToSet(new.ids) :
             c.sess = new.sess /\ (c \in stored \/ Excused(f, new.sess)'),
           \A i \in 1..Len(versions[f]) :
             versions[f][i].sess = new.sess => Shared(f, new.sess)',
           \A s \in Sessions : sess'[s].phase = "chunks" => sess'[s] = sess[s],
           Covered(new)
    PROVE  StoreInv'
<1>0. StoredInv /\ ListInv /\ NothingLeftBehind
  BY DEF StoreInv
<1>1. PICK n \in Nat : n = Len(versions[f])
  BY ListedIn
<1>2. PICK list \in Seq(Version) : list = Append(versions[f], new)
  BY ListedIn, AppendProperties
<1>3. /\ Len(list) = n + 1 /\ list[n + 1] = new
      /\ \A i \in 1..n : list[i] = versions[f][i]
  BY <1>1, <1>2, ListedIn, AppendProperties
<1>4. PICK k \in 0..n : k = Excess(list)
  <2>1. Excess(list) \in 0..Len(list) /\ Excess(list) < Len(list)
    BY <1>3, ExcessBound
  <2> QED BY <1>3, <2>1
<1>5. PICK kept \in Seq(Version) :
        /\ kept = SubSeq(list, k + 1, Len(list))
        /\ Len(kept) = n + 1 - k
        /\ \A i \in 1..(n + 1 - k) : kept[i] = list[k + i]
  <2>1. k \in 0..Len(list) /\ Len(list) - k = n + 1 - k
    BY <1>3
  <2>2. /\ SubSeq(list, k + 1, Len(list)) \in Seq(Version)
        /\ Len(SubSeq(list, k + 1, Len(list))) = Len(list) - k
        /\ \A i \in 1..(Len(list) - k) : SubSeq(list, k + 1, Len(list))[i] = list[k + i]
    BY <2>1, DropFirst
  <2> QED BY <2>1, <2>2
<1>6. PICK drop : /\ drop = ChunksOf(SubSeq(list, 1, k))
                  /\ drop = UNION {ToSet(list[i].ids) : i \in 1..k}
  <2>1. k \in 0..Len(list)
    BY <1>3
  <2>2. ChunksOf(SubSeq(list, 1, k)) = UNION {ToSet(list[i].ids) : i \in 1..k}
    BY <2>1, DropFirst
  <2> QED BY <2>2
<1>7. /\ versions' = [versions EXCEPT ![f] = kept] /\ stored' = stored \ drop
      /\ saved' = [saved EXCEPT ![f] = Append(saved[f], new)]
  BY <1>2, <1>4, <1>5, <1>6 DEF Enter
<1>8. /\ \A g \in Files : g # f => saved'[g] = saved[g]
      /\ ToSet(saved'[f]) = ToSet(saved[f]) \cup {new}
  <2>1. saved[f] \in Seq(Version) /\ saved'[f] = Append(saved[f], new)
    BY <1>7 DEF TypeOK
  <2> QED BY <1>7, <2>1, ToSetAppend DEF TypeOK
<1>9. PICK place : place = [i \in 1..Len(kept) |-> k + i]
  OBVIOUS
<1>10. Stand(list, kept, place)
  <2>1. ASSUME NEW i \in 1..Len(kept)
        PROVE  place[i] = k + i /\ place[i] \in 1..Len(list) /\ kept[i] = list[place[i]]
    BY <1>3, <1>5, <1>9
  <2>2. ASSUME NEW i \in 1..Len(kept), NEW j \in 1..Len(kept), place[i] = place[j]
        PROVE  i = j
    BY <2>1, <2>2
  <2>3. place \in [1..Len(kept) -> 1..Len(list)]
    BY <1>9, <2>1
  <2> QED BY <2>1, <2>2, <2>3 DEF Stand
<1>11. ASSUME NEW i \in 1..Len(list)
       PROVE  Gone(kept, place, i) <=> i \in 1..k
  <2>1. ASSUME i \in 1..k, NEW j \in 1..Len(kept) PROVE place[j] # i
    BY <1>9, <2>1
  <2>2. ASSUME i \notin 1..k PROVE i - k \in 1..Len(kept) /\ place[i - k] = i
    BY <1>3, <1>5, <1>9, <2>2
  <2> QED BY <2>1, <2>2 DEF Gone
<1>12. ASSUME NEW i \in 1..Len(list)
       PROVE  \/ i \in 1..n /\ list[i] = versions[f][i] /\ list[i] \in Listed(f)
              \/ i = n + 1 /\ list[i] = new
  <2>1. \A j \in 1..n : versions[f][j] \in Listed(f)
    BY <1>1, ListedIn
  <2>2. i \in 1..n \/ i = n + 1
    BY <1>3
  <2> QED BY <1>3, <2>1, <2>2
<1>13. ASSUME NEW i \in 1..Len(list)
       PROVE  /\ list[i] \in ToSet(saved'[f]) /\ Published(list[i])'
              /\ FileOf(list[i].sess) = f /\ list[i].sess \in Sessions
              /\ \A c \in ToSet(list[i].ids) :
                   c.sess = list[i].sess /\ (c \in stored \/ Excused(f, list[i].sess)')
  <2>1. CASE list[i] = new
    <3>1. new.sess \in Sessions
      BY DEF Version
    <3> QED BY <1>8, <2>1, <3>1
  <2>2. CASE list[i] \in Listed(f)
    <3>1. /\ Published(list[i]) /\ FileOf(list[i].sess) = f /\ list[i].sess \in Sessions
          /\ \A c \in ToSet(list[i].ids) :
               c.sess = list[i].sess /\ (c \in stored \/ Excused(f, list[i].sess))
      BY <1>0, <2>2, ListedFacts
    <3>2. list[i] \in ToSet(saved[f])
      BY <1>0, <2>2 DEF ListInv
    <3> QED BY <1>8, <3>1, <3>2, PublishedStays, SavedGrows
  <2> QED BY <1>12, <2>1, <2>2
<1>14. Sound(f, list)
  <2>1. ASSUME NEW v \in ToSet(saved'[f])
        PROVE  Published(v)' /\ FileOf(v.sess)' = f
    BY <1>0, <1>8, <2>1, PublishedStays DEF ListInv
  <2>2. ASSUME NEW i \in 1..Len(list), NEW j \in 1..Len(list), i # j,
               list[i].sess = list[j].sess
        PROVE  Shared(f, list[i].sess)'
    <3>1. CASE list[i] = new \/ list[j] = new
      <4>1. i \in 1..n \/ j \in 1..n
        BY <1>12, <2>2
      <4> QED BY <1>1, <1>3, <1>12, <2>2, <3>1, <4>1
    <3>2. CASE list[i] # new /\ list[j] # new
      <4>1. /\ i \in 1..Len(versions[f]) /\ list[i] = versions[f][i]
            /\ j \in 1..Len(versions[f]) /\ list[j] = versions[f][j]
        BY <1>1, <1>12, <3>2
      <4>2. Shared(f, list[i].sess)
        BY <1>0, <2>2, <4>1 DEF ListInv
      <4> QED BY <4>2, SavedGrows
    <3> QED BY <3>1, <3>2
  <2> QED BY <1>13, <2>1, <2>2 DEF Sound
<1>15. ListInv'
  <2>1. \A c \in drop : \E i \in 1..Len(list) :
          c \in ToSet(list[i].ids) /\ Gone(kept, place, i)
    <3>1. \A i \in 1..k : i \in 1..Len(list)
      BY <1>3
    <3> QED BY <1>6, <1>11, <3>1
  <2> QED BY <1>0, <1>7, <1>8, <1>10, <1>14, <2>1, CutList
<1>16. TakesAll(list, kept, place, drop)
  BY <1>6, <1>11 DEF TakesAll
<1>17. SparesUploads(drop)
  <2>1. ASSUME NEW c \in drop PROVE sess'[c.sess].phase # "chunks"
    <3>1. PICK i \in 1..k : c \in ToSet(list[i].ids)
      BY <1>6
    <3>2. i \in 1..Len(list)
      BY <1>3
    <3>3. PICK s : s = list[i].sess
      OBVIOUS
    <3>4. c.sess = s /\ Published(list[i])'
      BY <1>13, <3>1, <3>2, <3>3
    <3> QED BY <3>3, <3>4 DEF Published, Settled
  <2> QED BY <2>1 DEF SparesUploads
<1>18. Accounted(f, list)
  <2>1. ASSUME NEW c \in stored, NEW v \in Listed(f), c \in ToSet(v.ids)
        PROVE  \E i \in 1..Len(list) : c \in ToSet(list[i].ids)
    <3>1. PICK i \in 1..Len(versions[f]) : v = versions[f][i]
      BY <2>1, ListedIn
    <3>2. i \in 1..Len(list) /\ v = list[i]
      BY <1>1, <1>3, <3>1
    <3> QED BY <2>1, <3>2
  <2>2. ASSUME NEW c \in ToSet(new.ids)
        PROVE  FileOf(c.sess) = f /\ \E i \in 1..Len(list) : c \in ToSet(list[i].ids)
    <3>1. n + 1 \in 1..Len(list)
      BY <1>3
    <3> QED BY <1>3, <2>2, <3>1
  <2> QED BY <2>1, <2>2 DEF Accounted, Covered
<1>19. StoredInv' /\ NothingLeftBehind'
  BY <1>0, <1>7, <1>10, <1>16, <1>17, <1>18, CutStore
<1> QED BY <1>15, <1>19 DEF StoreInv

\* Publishing adds a version over chunks that no listed version has.
LEMMA PublishPreserves ==
    ASSUME TypeOK, \A s \in Sessions : UploadInv(s), StoreInv, [Next]_vars,
           NEW s \in Sessions, Publish(s)
    PROVE  StoreInv'
<1>0. StoredInv /\ ListInv /\ NothingLeftBehind
  BY DEF StoreInv
<1>1. PICK f \in Files : f = FileOf(s)
  BY FileOfType
<1>2. PICK new \in Version : new = [sess |-> s, ids |-> sess[s].ids]
  BY DEF TypeOK, Session, Version
<1>3. /\ sess[s].phase = "chunks" /\ Len(sess[s].ids) = Count(s) /\ Enter(f, new)
      /\ sess'[s].phase \in {"done", "answer"} /\ sess'[s].ids = sess[s].ids
      /\ \A t \in Sessions : t # s => sess'[t] = sess[t]
  BY <1>1, <1>2 DEF Publish, TypeOK, Session
<1>4. Published(new)' /\ FileOf(new.sess) = f /\ FileOf(new.sess)' = f
  <2>1. Count(s)' = Count(s) /\ FileOf(s)' = FileOf(s)
    BY <1>3, SizesStay
  <2> QED BY <1>1, <1>2, <1>3, <2>1 DEF Published, Settled
<1>5. \A c \in ToSet(new.ids) : c.sess = new.sess /\ c \in stored
  BY <1>0, <1>2, <1>3, OwnParts DEF StoredInv
<1>6. \A i \in 1..Len(versions[f]) : versions[f][i].sess # new.sess
  <2>1. \A v \in Listed(f) : Settled(v.sess)
    BY <1>0, ListedFacts
  <2> QED BY <1>2, <1>3, <2>1, ListedIn DEF Settled
<1>7. Covered(new)
  <2>1. ASSUME NEW c \in stored, c.sess = s PROVE c \in ToSet(new.ids)
    BY <1>0, <1>2, <1>3, <2>1 DEF StoredInv
  <2>2. ASSUME NEW c \in stored, c.sess # s PROVE sess'[c.sess] = sess[c.sess]
    BY <1>3, <2>2 DEF TypeOK, Chunk
  <2> QED BY <1>0, <2>1, <2>2 DEF Covered, NothingLeftBehind
<1>8. \A t \in Sessions : sess'[t].phase = "chunks" => sess'[t] = sess[t]
  BY <1>3
<1> QED BY <1>3, <1>4, <1>5, <1>6, <1>7, <1>8, EnterPreserves

\* A rollback makes two saved versions of one upload, so that their chunks are shared.
LEMMA RollbackPreserves ==
    ASSUME TypeOK, \A s \in Sessions : UploadInv(s), StoreInv, [Next]_vars,
           NEW f \in Files, NEW n \in DOMAIN versions[f], RollbackFile(f, n)
    PROVE  StoreInv'
<1>0. StoredInv /\ ListInv /\ NothingLeftBehind
  BY DEF StoreInv
<1>1. PICK new \in Version : new = versions[f][n]
  BY ElementOfSeq DEF TypeOK
<1>2. new \in Listed(f) /\ new \in ToSet(saved[f]) /\ Enter(f, new) /\ sess' = sess
  BY <1>0, <1>1 DEF RollbackFile, Listed, ToSet, ListInv
<1>3. Published(new)' /\ FileOf(new.sess) = f /\ FileOf(new.sess)' = f
  BY <1>0, <1>2, ListedFacts, PublishedStays
<1>4. \A c \in ToSet(new.ids) :
        c.sess = new.sess /\ (c \in stored \/ Excused(f, new.sess)')
  BY <1>0, <1>2, ListedFacts, SavedGrows
<1>5. Shared(f, new.sess)'
  <2>1. /\ saved[f] \in Seq(Version) /\ saved'[f] = Append(saved[f], new)
        /\ DOMAIN saved[f] = 1..Len(saved[f])
    BY <1>2 DEF Enter, TypeOK
  <2>2. PICK i \in 1..Len(saved[f]) : saved[f][i] = new
    BY <1>2, <2>1 DEF ToSet
  <2>3. PICK m \in Nat : m = Len(saved[f]) + 1
    BY <2>1
  <2>4. /\ DOMAIN saved'[f] = 1..m /\ i \in 1..m /\ i # m
        /\ saved'[f][i] = new /\ saved'[f][m] = new
    BY <2>1, <2>2, <2>3, AppendProperties
  <2> QED BY <2>4 DEF Shared
<1>6. Covered(new)
  BY <1>0, <1>2 DEF Covered, NothingLeftBehind
<1>7. \A s \in Sessions : sess'[s].phase = "chunks" => sess'[s] = sess[s]
  BY <1>2
<1> QED BY <1>2, <1>3, <1>4, <1>5, <1>6, <1>7, EnterPreserves

\* A restart lists what is saved.  What was not listed before may be without chunks.
LEMMA RestartPreserves ==
    ASSUME TypeOK, \A s \in Sessions : UploadInv(s), StoreInv, [Next]_vars, Restart
    PROVE  StoreInv'
<1>0. StoredInv /\ ListInv /\ NothingLeftBehind
  BY DEF StoreInv
<1>1. versions' = saved /\ saved' = saved /\ stored' = stored
  BY DEF Restart
<1>2. \A s \in Sessions : \/ sess'[s] = sess[s]
                          \/ sess[s].phase = "chunks" /\ sess'[s].phase = "failed"
  BY DEF Restart, TypeOK, Session
<1>3. \A f \in Files : Listed(f)' = ToSet(saved[f])
  BY <1>1 DEF Listed
<1>4. StoredInv'
  <2>1. \A c \in stored : c.sess \in Sessions
    BY DEF TypeOK, Chunk
  <2> QED BY <1>0, <1>1, <1>2, <2>1 DEF StoredInv
<1>5. ListInv'
  <2>1. ASSUME NEW f \in Files, NEW v \in ToSet(saved[f])
        PROVE  Published(v)' /\ FileOf(v.sess)' = f
    BY <1>0, PublishedStays DEF ListInv
  <2>2. ASSUME NEW f \in Files, NEW v \in ToSet(saved[f]), NEW c \in ToSet(v.ids)
        PROVE  c \in stored' \/ Excused(f, v.sess)'
    <3>1. CASE v \in Listed(f)
      BY <1>0, <1>1, <3>1, SavedGrows DEF ListInv
    <3>2. CASE v \notin Listed(f)
      <4>1. v.sess \in Sessions
        BY <1>0, SavedFacts
      <4>2. v.sess \in relisted'
        BY <3>2, <4>1 DEF Restart
      <4> QED BY <4>2 DEF Excused
    <3> QED BY <3>1, <3>2
  <2>3. ASSUME NEW f \in Files, NEW s,
               NEW i \in 1..Len(versions'[f]), NEW j \in 1..Len(versions'[f]), i # j,
               versions'[f][i].sess = s, versions'[f][j].sess = s
        PROVE  Shared(f, s)'
    <3>1. DOMAIN saved[f] = 1..Len(saved[f])
      BY DEF TypeOK
    <3> QED BY <1>1, <2>3, <3>1 DEF Shared
  <2>4. \A f \in Files : \A v \in ToSet(saved'[f]) : Published(v)' /\ FileOf(v.sess)' = f
    BY <1>1, <2>1
  <2>5. \A f \in Files : Listed(f)' = ToSet(saved'[f])
    BY <1>1, <1>3
  <2> QED BY <1>3, <2>2, <2>3, <2>4, <2>5 DEF ListInv
<1>6. NothingLeftBehind'
  <2>1. ASSUME NEW c \in stored, sess'[c.sess].phase \notin {"chunks", "failed"}
        PROVE  \E v \in Listed(FileOf(c.sess))' : c \in ToSet(v.ids)
    <3>1. c.sess \in Sessions /\ sess[c.sess].phase # "idle"
      BY <1>0 DEF TypeOK, Chunk, StoredInv
    <3>2. FileOf(c.sess)' = FileOf(c.sess) /\ FileOf(c.sess) \in Files
      BY <3>1, SizesStay, FileOfType
    <3>3. PICK f \in Files : f = FileOf(c.sess) /\ f = FileOf(c.sess)'
      BY <3>2
    <3>4. PICK v \in Listed(f) : c \in ToSet(v.ids)
      BY <1>0, <1>2, <2>1, <3>1, <3>3 DEF NothingLeftBehind
    <3>5. v \in ToSet(saved[f])
      BY <1>0, <3>4 DEF ListInv
    <3> QED BY <1>1, <3>3, <3>4, <3>5 DEF Listed
  <2> QED BY <1>1, <2>1 DEF NothingLeftBehind
<1> QED BY <1>4, <1>5, <1>6 DEF StoreInv

-----------------------------------------------------------------------------
(* The invariant is inductive, and what follows from it.                   *)

LEMMA InvInit == Init => IInv
<1> SUFFICES ASSUME Init PROVE IInv
  OBVIOUS
<1>1. TypeOK
  BY TypeInit
<1>2. \A s \in Sessions : UploadInv(s)
  <2>1. ASSUME NEW s \in Sessions PROVE UploadInv(s)
    <3>1. sess[s].enc = FALSE /\ sess[s].phase = "idle" /\ sess[s].ids = <<>>
      BY DEF Init
    <3>2. Count(s) \in Nat /\ Len(sess[s].ids) = 0
      BY <1>1, <3>1, CountType
    <3> QED BY <3>1, <3>2 DEF UploadInv
  <2> QED BY <2>1
<1>3. StoredInv /\ NothingLeftBehind
  BY DEF Init, StoredInv, NothingLeftBehind
<1>4. ListInv
  BY DEF Init, ListInv, Listed, ToSet
<1>5. \A d \in Downloads : DownInv(d)
  BY DEF Init, DownInv
<1>6. KeyInv
  BY DEF Init, KeyInv, SuccessKeepsKey
<1> QED BY <1>1, <1>2, <1>3, <1>4, <1>5, <1>6 DEF IInv

LEMMA InvNext == IInv /\ [Next]_vars => IInv'
<1> SUFFICES ASSUME IInv, [Next]_vars PROVE IInv'
  OBVIOUS
<1>1. TypeOK /\ \A s \in Sessions : UploadInv(s)
  BY DEF IInv
<1>2. TypeOK'
  BY <1>1, TypeNext
<1>3. (\A s \in Sessions : UploadInv(s))'
  BY <1>1, UploadsPreserved
<1>4. StoreInv'
  <2>1. StoreInv
    BY DEF IInv, StoreInv
  <2> QED BY <1>1, <2>1, QuietStep, QuietPreserves, WritePreserves, PublishPreserves,
             RollbackPreserves, DeletePreserves, DeleteVersionPreserves, RestartPreserves
<1>5. (\A d \in Downloads : DownInv(d))'
  BY <1>1, DownsPreserved DEF IInv
<1>6. KeyInv'
  BY <1>1, KeysPreserved DEF IInv
<1> QED BY <1>2, <1>3, <1>4, <1>5, <1>6 DEF IInv, StoreInv

LEMMA Inductive == Spec => []IInv
BY InvInit, InvNext, PTL DEF Spec

\* Every version a list shows is the whole file of one upload, and has the records of all
\* its chunks but for versions that a rollback made share them and versions that a restart
\* listed again: whatever uploads, rollbacks, deletions, failures and restarts there are,
\* for any numbers of them and any sizes.  Requests that change one file's list are taken
\* one at a time, and restarts fall between them.
THEOREM ListedHolds == Spec => []ListedIsWhole
<1>1. IInv => ListedIsWhole
  <2> SUFFICES ASSUME IInv, NEW f \in Files, NEW v \in Listed(f)
               PROVE  /\ FileOf(v.sess) = f
                      /\ Tiles(v.ids, sess[v.sess].size)
                      /\ \A c \in ToSet(v.ids) :
                           /\ c.sess = v.sess
                           /\ c \in stored \/ Shared(f, v.sess) \/ v.sess \in relisted
    BY DEF ListedIsWhole
  <2>1. TypeOK /\ ListInv /\ \A s \in Sessions : UploadInv(s)
    BY DEF IInv
  <2>2. /\ Published(v) /\ FileOf(v.sess) = f
        /\ \A c \in ToSet(v.ids) : c.sess = v.sess /\ (c \in stored \/ Excused(f, v.sess))
    BY <2>1, ListedFacts
  <2>3. Tiles(v.ids, sess[v.sess].size)
    BY <2>1, <2>2, PublishedWhole
  <2> QED BY <2>2, <2>3 DEF Excused
<1> QED BY <1>1, Inductive, PTL

\* A record of a chunk that no version lists belongs to an upload under way or failed,
\* after any number of deletions, rollbacks and restarts.  What becomes of the copies is
\* the subject of ChunkStore; requests and restarts are as in ListedHolds.
THEOREM LeftBehindHolds == Spec => []NothingLeftBehind
<1>1. IInv => NothingLeftBehind
  BY DEF IInv
<1> QED BY <1>1, Inductive, PTL

\* What a download answers with is one version, whole, whatever happens meanwhile.
THEOREM DownloadHolds == Spec => []DownloadIsWhole
<1>1. IInv => DownloadIsWhole
  <2> SUFFICES ASSUME IInv, NEW d \in Downloads, down[d].phase = "done"
               PROVE  Tiles(down[d].got, sess[down[d].ver.sess].size)
    BY DEF DownloadIsWhole
  <2>1. TypeOK /\ DownInv(d) /\ \A s \in Sessions : UploadInv(s)
    BY DEF IInv
  <2>2. PICK v : v = down[d].ver /\ Published(v)
    BY <2>1 DEF DownInv
  <2>3. Tiles(v.ids, sess[v.sess].size) /\ v.ids \in Seq(Chunk)
    BY <2>1, <2>2, PublishedWhole
  <2>4. down[d].got \in Seq(Chunk)
    BY <2>1 DEF TypeOK, Download
  <2>5. down[d].got = v.ids
    <3>1. Len(down[d].got) = Len(v.ids)
          /\ \A i \in 1..Len(down[d].got) : down[d].got[i] = v.ids[i]
      BY <2>1, <2>2 DEF DownInv
    <3> QED BY <2>3, <2>4, <3>1, SeqEqual
  <2> QED BY <2>2, <2>3, <2>5
<1> QED BY <1>1, Inductive, PTL

\* A client that reports success leaves its file with the key of an encrypted upload
\* of that file, whatever answers are lost and whoever deletes or uploads meanwhile.
THEOREM KeysHold == Spec => []SuccessKeepsKey
<1>1. IInv => SuccessKeepsKey
  BY DEF IInv, KeyInv
<1> QED BY <1>1, Inductive, PTL
-----------------------------------------------------------------------------
(* Each file's list and chunks are what VersionList says.                  *)

\* The versions of a list as VersionList sees them: the sets of their chunks.
Sets(l) == [i \in DOMAIN l |-> ToSet(l[i].ids)]

Own(f) == {c \in stored : FileOf(c.sess) = f}

\* They make a list of the same length.
LEMMA SetsOf ==
    ASSUME NEW l \in Seq(Version)
    PROVE  /\ Sets(l) \in Seq(SUBSET Chunk) /\ Len(Sets(l)) = Len(l)
           /\ \A i \in 1..Len(l) : Sets(l)[i] = ToSet(l[i].ids)
<1>1. DOMAIN l = 1..Len(l) /\ Len(l) \in Nat /\ \A i \in 1..Len(l) : l[i] \in Version
  BY ElementOfSeq
<1>2. ASSUME NEW i \in 1..Len(l) PROVE ToSet(l[i].ids) \in SUBSET Chunk
  <2>1. l[i].ids \in Seq(Chunk)
    BY <1>1 DEF Version
  <2> QED BY <2>1, ElementOfSeq DEF ToSet
<1>3. Sets(l) \in [1..Len(l) -> SUBSET Chunk]
  BY <1>1, <1>2 DEF Sets
<1> QED BY <1>1, <1>3 DEF Sets

\* Appending to a list and taking the sets of its chunks can be done in any order.
LEMMA SetsAppend ==
    ASSUME NEW l \in Seq(Version), NEW v \in Version
    PROVE  Append(Sets(l), ToSet(v.ids)) = Sets(Append(l, v))
<1> DEFINE a == Append(Sets(l), ToSet(v.ids))
           b == Sets(Append(l, v))
<1>1. ToSet(v.ids) \in SUBSET Chunk
  <2>1. v.ids \in Seq(Chunk)
    BY DEF Version
  <2> QED BY <2>1, ElementOfSeq DEF ToSet
<1>2. /\ Sets(l) \in Seq(SUBSET Chunk) /\ Len(Sets(l)) = Len(l)
      /\ \A i \in 1..Len(l) : Sets(l)[i] = ToSet(l[i].ids)
  BY SetsOf
<1>3. /\ a \in Seq(SUBSET Chunk) /\ Len(a) = Len(l) + 1
      /\ \A i \in 1..Len(l) : a[i] = Sets(l)[i]
      /\ a[Len(l) + 1] = ToSet(v.ids)
  BY <1>1, <1>2, AppendProperties
<1>4. /\ Append(l, v) \in Seq(Version) /\ Len(Append(l, v)) = Len(l) + 1
      /\ \A i \in 1..Len(l) : Append(l, v)[i] = l[i]
      /\ Append(l, v)[Len(l) + 1] = v
  BY AppendProperties
<1>5. /\ b \in Seq(SUBSET Chunk) /\ Len(b) = Len(l) + 1
      /\ \A i \in 1..(Len(l) + 1) : b[i] = ToSet(Append(l, v)[i].ids)
  BY <1>4, SetsOf
<1>6. \A i \in 1..(Len(l) + 1) : (i \in 1..Len(l) \/ i = Len(l) + 1) /\ Len(l) \in Nat
  OBVIOUS
<1> HIDE DEF a, b
<1>7. \A i \in 1..Len(a) : a[i] = b[i]
  BY <1>2, <1>3, <1>4, <1>5, <1>6
<1>8. a = b
  BY <1>3, <1>5, <1>7, SeqEqual
<1> QED BY <1>8 DEF a, b

\* So can dropping the first versions and taking the sets.
LEMMA SetsDrop ==
    ASSUME NEW l \in Seq(Version), NEW k \in 0..Len(l)
    PROVE  SubSeq(Sets(l), k + 1, Len(l)) = Sets(SubSeq(l, k + 1, Len(l)))
<1> DEFINE a == SubSeq(Sets(l), k + 1, Len(l))
           b == Sets(SubSeq(l, k + 1, Len(l)))
           n == Len(l) - k
<1>1. /\ Sets(l) \in Seq(SUBSET Chunk) /\ Len(Sets(l)) = Len(l)
      /\ \A i \in 1..Len(l) : Sets(l)[i] = ToSet(l[i].ids)
  BY SetsOf
<1>2. /\ SubSeq(l, k + 1, Len(l)) \in Seq(Version) /\ Len(SubSeq(l, k + 1, Len(l))) = n
      /\ \A i \in 1..n : SubSeq(l, k + 1, Len(l))[i] = l[k + i]
  BY DropFirst
<1>3. /\ b \in Seq(SUBSET Chunk) /\ Len(b) = n
      /\ \A i \in 1..n : b[i] = ToSet(l[k + i].ids)
  BY <1>2, SetsOf
<1>4. /\ a \in Seq(SUBSET Chunk) /\ Len(a) = n
      /\ \A i \in 1..n : a[i] = Sets(l)[k + i]
  <2>1. Len(l) \in Nat /\ \A i \in (k + 1)..Len(l) : Sets(l)[i] \in SUBSET Chunk
    BY <1>1, ElementOfSeq
  <2>2. /\ a \in Seq(SUBSET Chunk)
        /\ Len(a) = IF k + 1 <= Len(l) THEN Len(l) - (k + 1) + 1 ELSE 0
        /\ \A i \in 1..(Len(l) - (k + 1) + 1) : a[i] = Sets(l)[k + 1 + i - 1]
    BY <1>1, <2>1, SubSeqProperties
  <2> QED BY <2>1, <2>2
<1>5. \A i \in 1..n : k + i \in 1..Len(l)
  OBVIOUS
<1> HIDE DEF a, b, n
<1>6. \A i \in 1..Len(a) : a[i] = b[i]
  BY <1>1, <1>3, <1>4, <1>5
<1>7. a = b
  BY <1>3, <1>4, <1>6, SeqEqual
<1> QED BY <1>7 DEF a, b

\* A step that keeps a file's list and deletes none of its chunks.
LEMMA KeptFile ==
    ASSUME NEW f \in Files, versions'[f] = versions[f],
           \A c \in Own(f) : c \in stored' /\ FileOf(c.sess)' = f
    PROVE  List(f)!Next
BY DEF List!Next, List!Store, Own

\* The chunks of a file that has been written keep it.
LEMMA OwnStays ==
    ASSUME TypeOK, StoredInv, [Next]_vars
    PROVE  \A c \in stored : c.sess \in Sessions /\ FileOf(c.sess)' = FileOf(c.sess)
<1>1. \A c \in stored : c.sess \in Sessions
  BY DEF TypeOK, Chunk
<1> QED BY <1>1, SizesStay DEF StoredInv

\* Steps that change no list at most store chunks.
LEMMA ListQuiet ==
    ASSUME TypeOK, StoredInv, [Next]_vars, NEW f \in Files,
           Quiet \/ \E s \in Sessions : UploadChunk(s) \/ ChunkFails(s)
    PROVE  List(f)!Next
<1>1. versions' = versions /\ stored \subseteq stored'
  BY DEF Quiet, UploadChunk, ChunkFails, fileVars
<1> QED BY <1>1, OwnStays, KeptFile DEF Own

\* Deleting a file clears its list and leaves those of the others alone.
LEMMA ListDelete ==
    ASSUME IInv, [Next]_vars, NEW f \in Files, NEW g \in Files, DeleteFile(g)
    PROVE  List(f)!Next
<1>0. TypeOK /\ (\A s \in Sessions : UploadInv(s)) /\ StoredInv /\ ListInv
  BY DEF IInv
<1>1. /\ versions' = [versions EXCEPT ![g] = <<>>]
      /\ stored' = stored \ ChunksOf(versions[g]) /\ sess' = sess
      /\ versions \in [Files -> Seq(Version)]
  BY <1>0 DEF DeleteFile, TypeOK
<1>2. \A c \in ChunksOf(versions[g]) : FileOf(c.sess) = g
  <2>1. \A v \in Listed(g) : \A c \in ToSet(v.ids) : FileOf(c.sess) = g
    BY <1>0, ListedFacts
  <2> QED BY <1>0, <2>1, ListedIn
<1>3. \A c \in stored : FileOf(c.sess)' = FileOf(c.sess)
  BY <1>0, OwnStays
<1>4. CASE f # g
  BY <1>1, <1>2, <1>3, <1>4, KeptFile DEF Own
<1>5. CASE f = g
  <2>1. versions'[f] = <<>> /\ Sets(<<>>) = <<>>
    BY <1>1, <1>5 DEF Sets
  <2>2. Own(f)' = Own(f) \ ChunksOf(versions[f])
    BY <1>1, <1>3, <1>5 DEF Own
  <2>3. ChunksOf(versions[f]) = UNION {Sets(versions[f])[i] : i \in DOMAIN Sets(versions[f])}
    BY DEF ChunksOf, Sets
  <2>4. List(f)!Clear
    BY <2>1, <2>2, <2>3 DEF List!Clear, Own, Sets
  <2> QED BY <2>4 DEF List!Next
<1> QED BY <1>4, <1>5

\* A version enters one list, and what is dropped for it is of that list.
LEMMA ListEnter ==
    ASSUME IInv, [Next]_vars, NEW f \in Files, NEW g \in Files, NEW new \in Version,
           Enter(g, new), \A c \in ToSet(new.ids) : FileOf(c.sess) = g
    PROVE  IF f = g
           THEN /\ List(f)!Enter(ToSet(new.ids))
                /\ ToSet(new.ids) \in {Sets(versions'[f])[i] : i \in DOMAIN Sets(versions'[f])}
           ELSE List(f)!Next
<1>0. TypeOK /\ (\A t \in Sessions : UploadInv(t)) /\ StoredInv /\ ListInv
  BY DEF IInv
<1>1. PICK list \in Seq(Version) : list = Append(versions[g], new)
  BY <1>0, ListedIn, AppendProperties
<1>2. PICK k \in 0..Len(list) : k = Excess(list) /\ k < Len(list)
  <2>1. Len(list) # 0
    BY <1>0, <1>1, ListedIn, AppendProperties
  <2> QED BY <2>1, ExcessBound
<1>3. /\ versions' = [versions EXCEPT ![g] = SubSeq(list, k + 1, Len(list))]
      /\ stored' = stored \ ChunksOf(SubSeq(list, 1, k))
      /\ versions \in [Files -> Seq(Version)]
  BY <1>0, <1>1, <1>2 DEF Enter, TypeOK
<1>4. \A v \in Listed(g) : \A c \in ToSet(v.ids) : FileOf(c.sess) = g
  BY <1>0, ListedFacts
<1>5. ChunksOf(SubSeq(list, 1, k)) = UNION {Sets(list)[i] : i \in 1..k}
  BY DropFirst, SetsOf
<1>6. \A c \in ChunksOf(SubSeq(list, 1, k)) : FileOf(c.sess) = g
  <2>1. /\ Len(list) = Len(versions[g]) + 1 /\ Len(versions[g]) \in Nat
        /\ list[Len(versions[g]) + 1] = new
        /\ \A i \in 1..Len(versions[g]) : list[i] = versions[g][i]
    BY <1>0, <1>1, ListedIn, AppendProperties
  <2>2. \A i \in 1..k : i \in 1..Len(versions[g]) \/ i = Len(versions[g]) + 1
    BY <2>1
  <2>3. \A i \in 1..k : \A c \in ToSet(list[i].ids) : FileOf(c.sess) = g
    BY <1>0, <1>4, <2>1, <2>2, ListedIn
  <2>4. \A i \in 1..k : i \in 1..Len(list)
    OBVIOUS
  <2> QED BY <1>5, <2>3, <2>4, SetsOf
<1>7. \A c \in stored : FileOf(c.sess)' = FileOf(c.sess)
  BY <1>0, OwnStays
<1>8. CASE f # g
  BY <1>3, <1>6, <1>7, <1>8, KeptFile DEF Own
<1>9. CASE f = g
  <2> DEFINE shown == Sets(versions[f])
             v == ToSet(new.ids)
             all == Append(shown, v)
  <2>1. versions[f] \in Seq(Version)
    BY <1>0, ListedIn
  <2>2. all = Sets(list) /\ Len(all) = Len(list) /\ List(f)!Over(Len(all)) = k
    BY <1>1, <1>2, <1>9, <2>1, SetsAppend, SetsOf DEF List!Over, Excess
  <2>3. Sets(versions'[f]) = SubSeq(all, k + 1, Len(all))
    BY <1>3, <1>9, <2>2, SetsDrop
  <2>4. Own(f)' = Own(f) \ UNION {all[i] : i \in 1..k}
    BY <1>3, <1>5, <1>7, <2>2 DEF Own
  <2>5. v \in {Sets(versions'[f])[i] : i \in DOMAIN Sets(versions'[f])}
    <3>1. /\ versions'[f] \in Seq(Version) /\ Len(versions'[f]) = Len(list) - k
          /\ versions'[f][Len(list) - k] = list[Len(list)]
      <4>1. Len(list) - k \in 1..(Len(list) - k) /\ k + (Len(list) - k) = Len(list)
        BY <1>2
      <4> QED BY <1>3, <1>9, <4>1, DropFirst
    <3>2. list[Len(list)] = new
      BY <1>1, <1>9, <2>1, AppendProperties
    <3>3. Len(list) - k \in 1..Len(versions'[f])
      BY <1>2, <3>1
    <3>4. DOMAIN versions'[f] = 1..Len(versions'[f])
      BY <3>1
    <3> QED BY <3>1, <3>2, <3>3, <3>4 DEF Sets
  <2> HIDE DEF v
  <2>6. List(f)!Enter(v)
    BY <2>2, <2>3, <2>4 DEF List!Enter, Sets, Own
  <2> QED BY <1>9, <2>5, <2>6 DEF v
<1> QED BY <1>8, <1>9

\* Publishing adds a version over new chunks to one list.
LEMMA ListPublish ==
    ASSUME IInv, [Next]_vars, NEW f \in Files, NEW s \in Sessions, Publish(s)
    PROVE  List(f)!Next
<1>0. TypeOK /\ (\A t \in Sessions : UploadInv(t)) /\ StoredInv /\ ListInv
  BY DEF IInv
<1>1. PICK g \in Files : g = FileOf(s)
  BY <1>0, FileOfType
<1>2. PICK new \in Version : new = [sess |-> s, ids |-> sess[s].ids]
  BY <1>0 DEF TypeOK, Session, Version
<1>3. sess[s].phase = "chunks" /\ Enter(g, new)
  BY <1>1, <1>2 DEF Publish
<1>4. ToSet(new.ids) \subseteq Own(g) /\ \A c \in ToSet(new.ids) : c.sess = s
  BY <1>0, <1>1, <1>2, <1>3, OwnParts DEF StoredInv, Own
<1>5. \A v \in Listed(g) : \A c \in ToSet(v.ids) : c.sess # s
  BY <1>0, <1>3, ListedFacts DEF Settled
<1>6. \A c \in ToSet(new.ids) : FileOf(c.sess) = g
  BY <1>1, <1>4
<1>7. CASE f # g
  BY <1>3, <1>6, <1>7, ListEnter
<1>8. CASE f = g
  <2> DEFINE v == ToSet(new.ids)
  <2>1. /\ List(f)!Enter(v)
        /\ v \in {Sets(versions'[f])[i] : i \in DOMAIN Sets(versions'[f])}
    BY <1>3, <1>6, <1>8, ListEnter
  <2>2. \A i \in DOMAIN Sets(versions[f]) : Sets(versions[f])[i] \cap v = {}
    <3>1. versions[f] \in Seq(Version)
      BY <1>0, ListedIn
    <3>2. DOMAIN Sets(versions[f]) = 1..Len(versions[f])
      BY <3>1 DEF Sets
    <3>3. \A i \in 1..Len(versions[f]) : Sets(versions[f])[i] = ToSet(versions[f][i].ids)
      BY <3>1, SetsOf
    <3>4. \A i \in 1..Len(versions[f]) : versions[f][i] \in Listed(f)
      BY <1>0, ListedIn
    <3> QED BY <1>4, <1>5, <1>8, <3>2, <3>3, <3>4
  <2>3. v \subseteq Own(f)
    BY <1>4, <1>8
  <2> HIDE DEF v
  <2>4. List(f)!Publish
    BY <2>1, <2>2, <2>3 DEF List!Publish, Sets, Own
  <2> QED BY <2>4 DEF List!Next
<1> QED BY <1>7, <1>8

\* A rollback lists the chunks of a listed version once more.
LEMMA ListRollback ==
    ASSUME IInv, [Next]_vars, NEW f \in Files, NEW g \in Files,
           NEW n \in DOMAIN versions[g], RollbackFile(g, n)
    PROVE  List(f)!Next
<1>0. TypeOK /\ (\A t \in Sessions : UploadInv(t)) /\ ListInv
  BY DEF IInv
<1>1. PICK new \in Version : new = versions[g][n]
  BY <1>0, ElementOfSeq DEF TypeOK
<1>2. new \in Listed(g) /\ Enter(g, new)
  BY <1>1 DEF RollbackFile, Listed, ToSet
<1>3. \A c \in ToSet(new.ids) : FileOf(c.sess) = g
  BY <1>0, <1>2, ListedFacts
<1>4. CASE f # g
  BY <1>2, <1>3, <1>4, ListEnter
<1>5. CASE f = g
  <2>1. List(f)!Enter(ToSet(new.ids))
    BY <1>2, <1>3, <1>5, ListEnter
  <2>2. n \in DOMAIN Sets(versions[f]) /\ Sets(versions[f])[n] = ToSet(new.ids)
    BY <1>1, <1>5 DEF Sets
  <2>3. List(f)!Enter(Sets(versions[f])[n])
    BY <2>1, <2>2
  <2>4. List(f)!Rollback
    BY <2>2, <2>3 DEF List!Rollback, Sets
  <2> QED BY <2>4 DEF List!Next
<1> QED BY <1>4, <1>5

\* Leaving out a version and taking the sets can be done in any order.
LEMMA SetsRemove ==
    ASSUME NEW l \in Seq(Version), NEW n \in 1..Len(l)
    PROVE  Sets(RemoveAt(l, n)) = SubSeq(Sets(l), 1, n - 1) \o SubSeq(Sets(l), n + 1, Len(Sets(l)))
<1> DEFINE x == SubSeq(Sets(l), 1, n - 1)
           y == SubSeq(Sets(l), n + 1, Len(l))
           z == Sets(RemoveAt(l, n))
<1>1. /\ Sets(l) \in Seq(SUBSET Chunk) /\ Len(Sets(l)) = Len(l)
      /\ \A i \in 1..Len(l) : Sets(l)[i] = ToSet(l[i].ids) /\ Sets(l)[i] \in SUBSET Chunk
  BY SetsOf, ElementOfSeq
<1>2. /\ x \in Seq(SUBSET Chunk) /\ Len(x) = n - 1
      /\ \A i \in 1..(n - 1) : x[i] = Sets(l)[i]
  BY <1>1
<1>3. /\ y \in Seq(SUBSET Chunk) /\ Len(y) = Len(l) - n
      /\ \A i \in 1..(Len(l) - n) : y[i] = Sets(l)[n + i]
  <2>1. Len(l) \in Nat /\ \A i \in (n + 1)..Len(l) : Sets(l)[i] \in SUBSET Chunk
    BY <1>1
  <2>2. /\ y \in Seq(SUBSET Chunk)
        /\ Len(y) = IF n + 1 <= Len(l) THEN Len(l) - (n + 1) + 1 ELSE 0
        /\ \A i \in 1..(Len(l) - (n + 1) + 1) : y[i] = Sets(l)[n + 1 + i - 1]
    BY <1>1, <2>1, SubSeqProperties
  <2> QED BY <2>1, <2>2
<1>4. /\ RemoveAt(l, n) \in Seq(Version) /\ Len(RemoveAt(l, n)) = Len(l) - 1
      /\ \A i \in 1..(Len(l) - 1) : RemoveAt(l, n)[i] = IF i < n THEN l[i] ELSE l[i + 1]
  BY Without
<1>5. /\ z \in Seq(SUBSET Chunk) /\ Len(z) = Len(l) - 1
      /\ \A i \in 1..(Len(l) - 1) : z[i] = ToSet(RemoveAt(l, n)[i].ids)
  BY <1>4, SetsOf
<1> HIDE DEF x, y, z
<1>6. /\ x \o y \in Seq(SUBSET Chunk) /\ Len(x \o y) = Len(l) - 1
      /\ \A i \in 1..(Len(l) - 1) : (x \o y)[i] = IF i <= n - 1 THEN x[i] ELSE y[i - (n - 1)]
  BY <1>2, <1>3, ConcatProperties
<1>7. ASSUME NEW i \in 1..(Len(l) - 1) PROVE (x \o y)[i] = z[i]
  <2>1. CASE i < n
    <3>1. i \in 1..(n - 1) /\ i \in 1..Len(l) /\ i <= n - 1
      BY <2>1
    <3>2. (x \o y)[i] = Sets(l)[i]
      BY <1>2, <1>6, <3>1
    <3>3. z[i] = ToSet(l[i].ids)
      BY <1>4, <1>5, <2>1
    <3> QED BY <1>1, <3>1, <3>2, <3>3
  <2>2. CASE i >= n
    <3>1. i - (n - 1) \in 1..(Len(l) - n) /\ n + (i - (n - 1)) = i + 1 /\ i + 1 \in 1..Len(l)
      BY <2>2
    <3>2. (x \o y)[i] = y[i - (n - 1)]
      BY <1>6, <2>2
    <3>3. y[i - (n - 1)] = Sets(l)[n + (i - (n - 1))]
      BY <1>3, <3>1
    <3>4. z[i] = ToSet(l[i + 1].ids)
      BY <1>4, <1>5, <2>2
    <3> QED BY <1>1, <3>1, <3>2, <3>3, <3>4
  <2>3. Len(l) \in Nat /\ (i < n \/ i >= n)
    OBVIOUS
  <2> QED BY <2>1, <2>2, <2>3
<1>8. x \o y = z
  BY <1>5, <1>6, <1>7, SeqEqual
<1> QED BY <1>1, <1>8 DEF x, y, z

\* Deleting a version takes it out of one list, with its chunks.
LEMMA ListRemove ==
    ASSUME IInv, [Next]_vars, NEW f \in Files, NEW g \in Files,
           NEW n \in DOMAIN versions[g], DeleteVersion(g, n)
    PROVE  List(f)!Next
<1>0. TypeOK /\ (\A s \in Sessions : UploadInv(s)) /\ StoredInv /\ ListInv
  BY DEF IInv
<1>1. PICK list \in Seq(Version) : list = versions[g] /\ n \in 1..Len(list)
  BY <1>0, ListedIn
<1>2. /\ versions' = [versions EXCEPT ![g] = RemoveAt(list, n)]
      /\ stored' = stored \ ToSet(list[n].ids)
      /\ versions \in [Files -> Seq(Version)]
  BY <1>0, <1>1 DEF DeleteVersion, TypeOK
<1>3. \A c \in ToSet(list[n].ids) : FileOf(c.sess) = g
  <2>1. list[n] \in Listed(g)
    BY <1>0, <1>1, ListedIn
  <2> QED BY <1>0, <2>1, ListedFacts
<1>4. \A c \in stored : FileOf(c.sess)' = FileOf(c.sess)
  BY <1>0, OwnStays
<1>5. CASE f # g
  BY <1>2, <1>3, <1>4, <1>5, KeptFile DEF Own
<1>6. CASE f = g
  <2> DEFINE shown == Sets(versions[f])
  <2>1. n \in DOMAIN shown /\ shown[n] = ToSet(list[n].ids)
    BY <1>1, <1>6 DEF Sets
  <2>2. Sets(versions'[f]) = SubSeq(shown, 1, n - 1) \o SubSeq(shown, n + 1, Len(shown))
    BY <1>1, <1>2, <1>6, SetsRemove
  <2>3. Own(f)' = Own(f) \ shown[n]
    BY <1>2, <1>4, <2>1 DEF Own
  <2>4. List(f)!Remove
    BY <2>1, <2>2, <2>3 DEF List!Remove, Sets, Own
  <2> QED BY <2>4 DEF List!Next
<1> QED BY <1>5, <1>6

\* Every list is empty at first.
LEMMA ListInit == Init => \A f \in Files : List(f)!Init
<1> SUFFICES ASSUME Init, NEW f \in Files PROVE List(f)!Init
  OBVIOUS
<1>1. versions[f] = <<>> /\ stored = {}
  BY DEF Init
<1> QED BY <1>1 DEF List!Init

\* For every file the list and the records of its chunks go on as VersionList says, whatever
\* other files, failed uploads and downloads do: for any numbers, sizes and limits, and
\* after a restart, which changes lists by itself, from what it has loaded.
THEOREM TransferImplementsLists == Spec => ImplementsVersionLists
<1>1. IInv /\ [Next]_vars
        => [Restart \/ \A f \in Files : [List(f)!Next]_(List(f)!lvars)]_vars
  <2> SUFFICES ASSUME IInv, [Next]_vars, ~Restart, NEW f \in Files
               PROVE  List(f)!Next
    OBVIOUS
  <2>1. TypeOK /\ StoredInv
    BY DEF IInv
  <2> QED BY <2>1, QuietStep, ListQuiet, ListDelete, ListPublish, ListRollback, ListRemove
<1> QED BY <1>1, ListInit, Inductive, PTL DEF Spec, ImplementsVersionLists
=============================================================================
