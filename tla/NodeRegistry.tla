------------------------------ MODULE NodeRegistry ------------------------------
(***************************************************************************)
(* The node registry of the central server (internal/server/node.go with   *)
(* the Nodes bucket of persistence.go) and the agents that feed it         *)
(* (internal/node/agent.go).  Every handler holds s.mu, so a handler is    *)
(* one action; agents, the network, the clock, the status checker and the  *)
(* stops of both kinds of process interleave with it.                      *)
(*                                                                         *)
(* Time passes in periods of 30 s, the period of the checker.  The age of  *)
(* a node is the number of checker instants since its LastHeartbeat, which *)
(* every handler saves with the record: one age stands for both copies.    *)
(* Loads, speeds, addresses and sizes do not influence the life of a       *)
(* record and are left out.                                                *)
(***************************************************************************)
EXTENDS Naturals

CONSTANTS
    Nodes,              \* node ids
    HeartbeatTimeout    \* in periods: 3 of 30 s in the code

ASSUME TimeoutAssumption == HeartbeatTimeout \in Nat \ {0}

VARIABLES
    nodes,      \* Server.nodes
    db,         \* the Nodes bucket
    age,        \* checker instants since LastHeartbeat, capped
    checked,    \* the checker has run in this period
    alive,      \* the server process runs
    agent,      \* the agent process of each node
    hb          \* nodes with a heartbeat request under way

vars == <<nodes, db, age, checked, alive, agent, hb>>

Status == {"absent", "registered", "configured", "online", "offline"}
Node   == [status : Status,
           path   : BOOLEAN,            \* StoragePath is not empty
           conf   : BOOLEAN]            \* ConfiguredAt is set
NoNode == [status |-> "absent", path |-> FALSE, conf |-> FALSE]

\* One more than an age the checker can still find on an online node.
MaxAge == HeartbeatTimeout + 2

TypeOK ==
    /\ nodes   \in [Nodes -> Node]
    /\ db      \in [Nodes -> Node]
    /\ age     \in [Nodes -> 0..MaxAge]
    /\ checked \in BOOLEAN
    /\ alive   \in BOOLEAN
    /\ agent   \in [Nodes -> {"down", "starting", "up"}]
    /\ hb      \in SUBSET Nodes

Init ==
    /\ nodes   = [n \in Nodes |-> NoNode]
    /\ db      = [n \in Nodes |-> NoNode]
    /\ age     = [n \in Nodes |-> 0]
    /\ checked = TRUE
    /\ alive   = TRUE
    /\ agent   = [n \in Nodes |-> "down"]
    /\ hb      = {}

Known(n) == nodes[n].status # "absent"

\* Every handler ends with SaveNode of the record it changed.
Save(n, r) ==
    /\ nodes' = [nodes EXCEPT ![n] = r]
    /\ db'    = [db EXCEPT ![n] = r]

-----------------------------------------------------------------------------
(* The agent.                                                              *)

StartAgent(n) ==
    /\ agent[n] = "down"
    /\ agent' = [agent EXCEPT ![n] = "starting"]
    /\ UNCHANGED <<nodes, db, age, checked, alive, hb>>

StopAgent(n) ==
    /\ agent[n] # "down"
    /\ agent' = [agent EXCEPT ![n] = "down"]
    /\ UNCHANGED <<nodes, db, age, checked, alive, hb>>

\* The loop ignores the answer, so it goes on after a 404.
SendHeartbeat(n) ==
    /\ agent[n] = "up"
    /\ n \notin hb
    /\ hb' = hb \cup {n}
    /\ UNCHANGED <<nodes, db, age, checked, alive, agent>>

LoseHeartbeat(n) ==
    /\ n \in hb
    /\ hb' = hb \ {n}
    /\ UNCHANGED <<nodes, db, age, checked, alive, agent>>

-----------------------------------------------------------------------------
(* Handlers of the server.                                                 *)

\* POST /nodes, sent once by Agent.Start.  A known node keeps its status and its
\* configuration.  When the answer is lost the agent gives up and exits.
RegisterNode(n) ==
    /\ alive
    /\ agent[n] = "starting"
    /\ Save(n, IF Known(n) THEN nodes[n]
               ELSE [status |-> "registered", path |-> FALSE, conf |-> FALSE])
    /\ age' = [age EXCEPT ![n] = 0]
    /\ \E answered \in BOOLEAN :
         agent' = [agent EXCEPT ![n] = IF answered THEN "up" ELSE "down"]
    /\ UNCHANGED <<checked, alive, hb>>

\* Mutant: a heartbeat brings any known node online.
HeartbeatAny(n) ==
    /\ alive
    /\ n \in hb
    /\ hb' = hb \ {n}
    /\ \/ ~Known(n) /\ UNCHANGED <<nodes, db, age>>
       \/ /\ Known(n)
          /\ Save(n, [nodes[n] EXCEPT !.status = "online"])
          /\ age' = [age EXCEPT ![n] = 0]
    /\ UNCHANGED <<checked, alive, agent>>

\* Mutant: a node that timed out does not come back.
HeartbeatConfigured(n) ==
    /\ alive
    /\ n \in hb
    /\ hb' = hb \ {n}
    /\ \/ ~Known(n) /\ UNCHANGED <<nodes, db, age>>
       \/ /\ Known(n)
          /\ Save(n, IF nodes[n].status = "configured"
                     THEN [nodes[n] EXCEPT !.status = "online"] ELSE nodes[n])
          /\ age' = [age EXCEPT ![n] = 0]
    /\ UNCHANGED <<checked, alive, agent>>

\* POST /nodes/{id}/heartbeat
HeartbeatNode(n) ==
    /\ alive
    /\ n \in hb
    /\ hb' = hb \ {n}
    /\ \/ ~Known(n) /\ UNCHANGED <<nodes, db, age>>
       \/ /\ Known(n)
          /\ Save(n, IF nodes[n].status \in {"configured", "offline"}
                     THEN [nodes[n] EXCEPT !.status = "online"] ELSE nodes[n])
          /\ age' = [age EXCEPT ![n] = 0]
    /\ UNCHANGED <<checked, alive, agent>>

\* POST /nodes/{id}/configure, from any status, online included.  A request for
\* more space than the disk has is refused and changes nothing.
ConfigureNode(n, path) ==
    /\ alive
    /\ Known(n)
    /\ Save(n, [status |-> "configured", path |-> path, conf |-> TRUE])
    /\ UNCHANGED <<age, checked, alive, agent, hb>>

\* Mutant: the saved record stays.
DeleteUnsaved(n) ==
    /\ alive
    /\ nodes[n].status \notin {"absent", "online"}
    /\ nodes' = [nodes EXCEPT ![n] = NoNode]
    /\ UNCHANGED <<db, age, checked, alive, agent, hb>>

\* Mutant: online nodes are removed as well.
DeleteAny(n) ==
    /\ alive
    /\ Known(n)
    /\ Save(n, NoNode)
    /\ UNCHANGED <<age, checked, alive, agent, hb>>

\* DELETE /nodes/{id}
DeleteNode(n) ==
    /\ alive
    /\ nodes[n].status \notin {"absent", "online"}
    /\ Save(n, NoNode)
    /\ UNCHANGED <<age, checked, alive, agent, hb>>

-----------------------------------------------------------------------------
(* The clock and the checker.                                              *)

Tick ==
    /\ alive => checked
    /\ age' = [n \in Nodes |-> IF age[n] < MaxAge THEN age[n] + 1 ELSE MaxAge]
    /\ checked' = FALSE
    /\ UNCHANGED <<nodes, db, alive, agent, hb>>

\* Mutant: the checker passes over online nodes.
ExpiredConfigured(n) ==
    /\ nodes[n].status = "configured"
    /\ age[n] > HeartbeatTimeout

Expired(n) ==
    /\ nodes[n].status \in {"configured", "online"}
    /\ age[n] > HeartbeatTimeout

\* Mutant: a status that node.go declares and nothing sets.
MarkMaintenance(n) == [nodes[n] EXCEPT !.status = "maintenance"]

MarkOffline(n) == [nodes[n] EXCEPT !.status = "offline"]

CheckNodeStatus ==
    /\ alive
    /\ ~checked
    /\ nodes' = [n \in Nodes |-> IF Expired(n) THEN MarkOffline(n) ELSE nodes[n]]
    /\ db' = [n \in Nodes |-> IF Expired(n) THEN MarkOffline(n) ELSE db[n]]
    /\ checked' = TRUE
    /\ UNCHANGED <<age, alive, agent, hb>>

-----------------------------------------------------------------------------
(* Stop and restart of the server.                                         *)

ServerStop ==
    /\ alive
    /\ alive' = FALSE
    /\ UNCHANGED <<nodes, db, age, checked, agent, hb>>

\* Mutant: nodes come back as they were saved.
StartOnline ==
    /\ ~alive
    /\ alive' = TRUE
    /\ checked' = TRUE
    /\ nodes' = db
    /\ UNCHANGED <<db, age, agent, hb>>

\* loadData: only nodes saved as online are taken for offline, and the change is
\* not saved.  The checker's first instant is a period away.
ServerStart ==
    /\ ~alive
    /\ alive' = TRUE
    /\ checked' = TRUE
    /\ nodes' = [n \in Nodes |->
                   IF db[n].status = "online"
                   THEN [db[n] EXCEPT !.status = "offline"] ELSE db[n]]
    /\ UNCHANGED <<db, age, agent, hb>>

-----------------------------------------------------------------------------

Next ==
    \/ \E n \in Nodes :
         \/ StartAgent(n) \/ StopAgent(n)
         \/ SendHeartbeat(n) \/ LoseHeartbeat(n)
         \/ RegisterNode(n)
         \/ HeartbeatNode(n)
         \/ \E path \in BOOLEAN : ConfigureNode(n, path)
         \/ DeleteNode(n)
    \/ Tick
    \/ CheckNodeStatus
    \/ ServerStop
    \/ ServerStart

\* Both tickers run as long as their process does; a heartbeat that is sent again
\* and again gets through some day.
Fairness ==
    /\ WF_vars(Tick) /\ WF_vars(CheckNodeStatus)
    /\ \A n \in Nodes : WF_vars(SendHeartbeat(n)) /\ SF_vars(HeartbeatNode(n))

Spec     == Init /\ [][Next]_vars
FairSpec == Spec /\ Fairness

-----------------------------------------------------------------------------
(* Properties.                                                             *)

\* A node that is past "registered" was configured, through restarts, timeouts and
\* re-registrations: a heartbeat alone never makes a node usable.
PastRegisteredIsConfigured ==
    \A n \in Nodes :
      nodes[n].status \in {"configured", "online", "offline"} <=> nodes[n].conf

\* An online node sent a heartbeat or registered within the timeout plus the one
\* period that may pass before the checker looks, also when the server was down.
OnlineIsFresh ==
    \A n \in Nodes :
      alive /\ nodes[n].status = "online" =>
        age[n] <= HeartbeatTimeout + (IF checked THEN 0 ELSE 1)

\* A restart changes nothing but online into offline: at any time the saved record
\* of a node is its record in memory, up to that.
SavedIsCurrent ==
    \A n \in Nodes :
      \/ db[n] = nodes[n]
      \/ /\ db[n].status = "online"
         /\ nodes[n] = [db[n] EXCEPT !.status = "offline"]

\* What chunk placement sees of a node: Scheduler.SelectNodes takes online nodes
\* with a storage path.
Selectable(n) == nodes[n].status = "online" /\ nodes[n].path

Level(n) == IF ~Known(n) THEN "absent"
            ELSE IF Selectable(n) THEN "online" ELSE "offline"

Levels == [n \in Nodes |-> Level(n)]

\* The registry is the node map the chunk store relies on: also over a restart and a
\* checker that takes many nodes out at once, a node leaves the map only by way of
\* "offline" and enters use only by way of it.
Map == INSTANCE NodeMap WITH nodes <- Levels

ImplementsNodeMap == Map!Spec

\* A configured node whose agent runs becomes online, unless the agent or the
\* server stops or the operator deletes the node first.
RunningNodeComesOnline ==
    \A n \in Nodes :
      (agent[n] = "up" /\ nodes[n].conf) ~>
        \/ nodes[n].status = "online"
        \/ agent[n] # "up" \/ ~Known(n) \/ ~alive

\* A node whose agent is gone does not stay online, whatever heartbeats are still
\* under way.
StoppedNodeGoesOffline ==
    \A n \in Nodes :
      (agent[n] = "down" /\ nodes[n].status = "online") ~>
        \/ nodes[n].status # "online"
        \/ agent[n] # "down" \/ ~alive

=============================================================================
