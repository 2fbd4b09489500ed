------------------------------- MODULE VersionList -------------------------------
(***************************************************************************)
(* What the handlers of one file promise those who upload to it: requests  *)
(* take effect one by one and at once; a version enters the list whole,    *)
(* over its own chunks; the oldest versions leave it beyond the limit; and *)
(* a version leaves with its chunks.  FileVersions implements this between *)
(* restarts while requests do not overlap, and FileTransfer relies on it   *)
(* for every file.                                                         *)
(***************************************************************************)
EXTENDS Integers, Sequences

CONSTANTS
    Limit       \* how many versions are kept

VARIABLES
    list,       \* the versions of the file, oldest first, each a set of chunks
    stored      \* the chunks of the file that are stored

lvars == <<list, stored>>

Init == list = <<>> /\ stored = {}

\* The client writes the chunks of its next version.
Store ==
    /\ stored \subseteq stored'
    /\ UNCHANGED list

\* How many of n versions are too many.
Over(n) == IF n > Limit THEN n - Limit ELSE 0

\* A version over the chunks v comes last, and the oldest leave.
Enter(v) ==
    LET all  == Append(list, v)
        over == Over(Len(all))
    IN  /\ list' = SubSeq(all, over + 1, Len(all))
        /\ stored' = stored \ UNION {all[i] : i \in 1..over}

\* An upload is published: its chunks are there, and no version has any of them yet.
Publish ==
    \E v \in {list'[i] : i \in DOMAIN list'} :
      /\ v \subseteq stored
      /\ \A i \in DOMAIN list : list[i] \cap v = {}
      /\ Enter(v)

\* A rollback lists the chunks of an older version once more.
Rollback == \E i \in DOMAIN list : Enter(list[i])

\* A version is deleted.
Remove ==
    \E i \in DOMAIN list :
      /\ list' = SubSeq(list, 1, i - 1) \o SubSeq(list, i + 1, Len(list))
      /\ stored' = stored \ list[i]

\* The file is deleted.
Clear ==
    /\ list' = <<>>
    /\ stored' = stored \ UNION {list[i] : i \in DOMAIN list}

Next == Store \/ Publish \/ Rollback \/ Remove \/ Clear

Spec == Init /\ [][Next]_lvars
=============================================================================
