------------------------------- MODULE ChunkSizes -------------------------------
(***************************************************************************)
(* How files are cut into chunks.  calculateChunkSize of internal/server/  *)
(* file_manager.go, its copy in web/index.html and GetChunkSize of         *)
(* internal/client/chunker.go are one function of the file's size; the     *)
(* command line client uses a fixed size instead.                          *)
(***************************************************************************)
EXTENDS Integers

CONSTANT MB     \* bytes in a megabyte: 1024 * 1024 in the code

ASSUME MBAssumption == MB \in Nat \ {0}

DynamicChunkSize(size) ==
    CASE size < 10 * MB          -> size
      [] size < 100 * MB         -> 4 * MB
      [] size < 1024 * MB        -> 16 * MB
      [] size < 10 * 1024 * MB   -> 64 * MB
      [] OTHER                   -> 128 * MB

\* For a chunk size that is not 0.
ChunkCount(size, chunkSize) == (size + chunkSize - 1) \div chunkSize

\* Mutant: what the last chunk falls short by is taken for its end.
ChunkEndShort(size, chunkSize, from) ==
    IF from + chunkSize > size THEN size - (from + chunkSize) ELSE from + chunkSize

\* Where the chunk that begins at an offset ends.
ChunkEnd(size, chunkSize, from) ==
    IF from + chunkSize > size THEN size ELSE from + chunkSize
=============================================================================
