------------------------------- MODULE ChunkFile -------------------------------
(***************************************************************************)
(* What a storage node promises about the file of one chunk, as the PUT,   *)
(* GET and DELETE of internal/node/chunk_handler.go are relied on by the   *)
(* server and the writers: a PUT puts the whole chunk into place in one    *)
(* step.  The promise is kept for PUTs that have the node to themselves;   *)
(* PUTs that overlapped with another may leave the chunk torn, and only    *)
(* those still at work can make it whole again.                            *)
(***************************************************************************)
EXTENDS FiniteSets

CONSTANT Puts   \* PUT requests for the chunk

VARIABLES
    chunk,      \* what a reader finds: "absent", "whole" or "torn"
    busy,       \* the PUTs at work
    shared      \* the PUTs that overlapped with another

cvars == <<chunk, busy, shared>>

Init ==
    /\ chunk  = "absent"
    /\ busy   = {}
    /\ shared = {}

Begin(p) ==
    /\ p \notin busy
    /\ busy' = busy \cup {p}
    /\ shared' = IF busy = {} THEN shared ELSE shared \cup busy'
    /\ UNCHANGED chunk

Publish(p) ==
    /\ p \in busy
    /\ busy' = busy \ {p}
    /\ chunk' \in IF p \in shared THEN {"whole", "torn"} ELSE {"whole"}
    /\ UNCHANGED shared

Mend ==
    /\ chunk = "torn"
    /\ busy \cap shared # {}
    /\ chunk' = "whole"
    /\ UNCHANGED <<busy, shared>>

\* PUTs that fail, one by one or all at once with the process.
GiveUp ==
    /\ \E failed \in SUBSET busy : busy' = busy \ failed
    /\ UNCHANGED <<chunk, shared>>

Remove ==
    /\ chunk' = "absent"
    /\ UNCHANGED <<busy, shared>>

Next == (\E p \in Puts : Begin(p) \/ Publish(p)) \/ Mend \/ GiveUp \/ Remove

Spec == Init /\ [][Next]_cvars

\* A chunk that no overlapping PUTs ever touched is whole or not there.
AtomicWhenAlone == shared = {} => chunk # "torn"
=============================================================================
