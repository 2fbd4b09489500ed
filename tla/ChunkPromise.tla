------------------------------ MODULE ChunkPromise ------------------------------
(***************************************************************************)
(* What the file manager, the readers and the operator may rely on of a    *)
(* chunk, whoever writes it: it is given its nodes once; from the moment   *)
(* the server promises it (ConfirmWrite has recorded it) it stays on its   *)
(* first node; other copies come late, and only to nodes it was given;     *)
(* copies go only after the promise was withdrawn, and a promise that was  *)
(* withdrawn is not made again.  ChunkStore implements this.               *)
(***************************************************************************)
EXTENDS FiniteSets

CONSTANTS
    Nodes,
    Chunks,
    NoNode

VARIABLES
    promise,    \* for each chunk: "none" yet, "made" or "over"
    home,       \* the node that a promised chunk is sure to be on
    place,      \* the nodes the chunk was given
    copies      \* the nodes that have it

pvars == <<promise, home, place, copies>>

Init ==
    /\ promise = [c \in Chunks |-> "none"]
    /\ home    = [c \in Chunks |-> NoNode]
    /\ place   = [c \in Chunks |-> {}]
    /\ copies  = [c \in Chunks |-> {}]

\* PrepareWrite.
Place(c, chosen) ==
    /\ place[c] = {}
    /\ chosen # {}
    /\ place' = [place EXCEPT ![c] = chosen]
    /\ UNCHANGED <<promise, home, copies>>

\* A PUT of a writer or a push of another node, at any time.
Copy(c, n) ==
    /\ n \in place[c]
    /\ copies' = [copies EXCEPT ![c] = @ \cup {n}]
    /\ UNCHANGED <<promise, home, place>>

\* ConfirmWrite.
Make(c, n) ==
    /\ promise[c] = "none"
    /\ n \in copies[c]
    /\ promise' = [promise EXCEPT ![c] = "made"]
    /\ home' = [home EXCEPT ![c] = n]
    /\ UNCHANGED <<place, copies>>

\* DeleteChunk, or a restart that loads records without content.
Withdraw(S) ==
    /\ \A c \in S : promise[c] = "made"
    /\ promise' = [c \in Chunks |-> IF c \in S THEN "over" ELSE promise[c]]
    /\ home' = [c \in Chunks |-> IF c \in S THEN NoNode ELSE home[c]]
    /\ UNCHANGED <<place, copies>>

\* The DELETE at one node.
Erase(c, n) ==
    /\ promise[c] = "over"
    /\ copies' = [copies EXCEPT ![c] = @ \ {n}]
    /\ UNCHANGED <<promise, home, place>>

Next ==
    \/ \E c \in Chunks :
         \/ \E chosen \in SUBSET Nodes : Place(c, chosen)
         \/ \E n \in Nodes : Copy(c, n) \/ Make(c, n) \/ Erase(c, n)
    \/ \E S \in SUBSET Chunks : Withdraw(S)

Spec == Init /\ [][Next]_pvars

\* What the promise is worth: a promised chunk is on its home, which is one of the
\* nodes it was given.
Kept ==
    \A c \in Chunks :
      promise[c] = "made" => home[c] \in copies[c] /\ copies[c] \subseteq place[c]
=============================================================================
