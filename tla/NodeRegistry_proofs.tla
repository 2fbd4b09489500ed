--------------------------- MODULE NodeRegistry_proofs ---------------------------
(***************************************************************************)
(* Theorems about NodeRegistry, for any set of nodes and any timeout: its  *)
(* type, its safety invariants, and that it implements NodeMap.  The       *)
(* conjunction of the checked invariants is inductive: configuration and   *)
(* freshness survive a restart only because the saved records are current. *)
(***************************************************************************)
EXTENDS NodeRegistry, TLAPS

RegistryInv ==
    /\ TypeOK
    /\ PastRegisteredIsConfigured
    /\ SavedIsCurrent
    /\ OnlineIsFresh

LEMMA NoNodeIsNode == NoNode \in Node
BY DEF NoNode, Node, Status

\* Writing one good record in both places keeps types, configuration and copies.
LEMMA SaveKeeps ==
    ASSUME RegistryInv, NEW n \in Nodes, NEW r \in Node, Save(n, r),
           r.status \in {"configured", "online", "offline"} <=> r.conf
    PROVE  /\ nodes' \in [Nodes -> Node]
           /\ db' \in [Nodes -> Node]
           /\ PastRegisteredIsConfigured'
           /\ SavedIsCurrent'
BY DEF RegistryInv, TypeOK, Save, PastRegisteredIsConfigured, SavedIsCurrent

LEMMA InvInit == Init => RegistryInv
<1> SUFFICES ASSUME Init PROVE RegistryInv
  OBVIOUS
<1>1. TypeOK
  BY NoNodeIsNode, TimeoutAssumption DEF Init, TypeOK, MaxAge
<1>2. PastRegisteredIsConfigured /\ SavedIsCurrent /\ OnlineIsFresh
  BY DEF Init, PastRegisteredIsConfigured, SavedIsCurrent, OnlineIsFresh, NoNode
<1> QED BY <1>1, <1>2 DEF RegistryInv

LEMMA InvNext == RegistryInv /\ [Next]_vars => RegistryInv'
<1> SUFFICES ASSUME RegistryInv, [Next]_vars PROVE RegistryInv'
  OBVIOUS
<1> USE TimeoutAssumption DEF MaxAge
<1>a. /\ TypeOK /\ PastRegisteredIsConfigured /\ SavedIsCurrent /\ OnlineIsFresh
  BY DEF RegistryInv
<1>1. ASSUME UNCHANGED <<nodes, db, age, checked, alive>>,
             agent' \in [Nodes -> {"down", "starting", "up"}], hb' \in SUBSET Nodes
      PROVE  RegistryInv'
  BY <1>a, <1>1 DEF RegistryInv, TypeOK, PastRegisteredIsConfigured,
                    SavedIsCurrent, OnlineIsFresh
<1>2. ASSUME NEW n \in Nodes,
             StartAgent(n) \/ StopAgent(n) \/ SendHeartbeat(n) \/ LoseHeartbeat(n)
      PROVE  RegistryInv'
  <2>1. /\ UNCHANGED <<nodes, db, age, checked, alive>>
        /\ agent' \in [Nodes -> {"down", "starting", "up"}] /\ hb' \in SUBSET Nodes
    BY <1>a, <1>2 DEF TypeOK, StartAgent, StopAgent, SendHeartbeat, LoseHeartbeat
  <2> QED BY <2>1, <1>1
<1>3. ASSUME NEW n \in Nodes, RegisterNode(n)
      PROVE  RegistryInv'
  <2> DEFINE r == IF Known(n) THEN nodes[n]
                  ELSE [status |-> "registered", path |-> FALSE, conf |-> FALSE]
  <2>1. r \in Node /\ (r.status \in {"configured", "online", "offline"} <=> r.conf)
    BY <1>a DEF TypeOK, Node, Status, PastRegisteredIsConfigured
  <2>2. Save(n, r)
    BY <1>3 DEF RegisterNode
  <2>3. /\ nodes' \in [Nodes -> Node] /\ db' \in [Nodes -> Node]
        /\ PastRegisteredIsConfigured' /\ SavedIsCurrent'
    BY <2>1, <2>2, SaveKeeps
  <2>4. TypeOK'
    <3>1. age' \in [Nodes -> 0..MaxAge]
      BY <1>a, <1>3 DEF TypeOK, RegisterNode
    <3>2. agent' \in [Nodes -> {"down", "starting", "up"}]
      BY <1>a, <1>3 DEF TypeOK, RegisterNode
    <3> QED BY <1>a, <1>3, <2>3, <3>1, <3>2 DEF TypeOK, RegisterNode
  <2>5. OnlineIsFresh'
    <3>1. r.status = "online" => nodes[n].status = "online"
      BY DEF Known
    <3> HIDE DEF r
    <3> QED BY <1>a, <1>3, <2>2, <3>1 DEF TypeOK, RegisterNode, Save, OnlineIsFresh
  <2> QED BY <2>3, <2>4, <2>5 DEF RegistryInv
<1>4. ASSUME NEW n \in Nodes, HeartbeatNode(n)
      PROVE  RegistryInv'
  <2>1. CASE ~Known(n)
    BY <1>1, <1>4, <2>1, <1>a DEF HeartbeatNode, TypeOK
  <2>2. CASE Known(n)
    <3> DEFINE r == IF nodes[n].status \in {"configured", "offline"}
                    THEN [nodes[n] EXCEPT !.status = "online"] ELSE nodes[n]
    <3>1. r \in Node /\ (r.status \in {"configured", "online", "offline"} <=> r.conf)
      BY <1>a, <2>2 DEF TypeOK, Node, Status, PastRegisteredIsConfigured, Known
    <3>2. Save(n, r) /\ age' = [age EXCEPT ![n] = 0] /\ hb' = hb \ {n}
          /\ UNCHANGED <<checked, alive, agent>>
      BY <1>4, <2>2 DEF HeartbeatNode
    <3>3. /\ nodes' \in [Nodes -> Node] /\ db' \in [Nodes -> Node]
          /\ PastRegisteredIsConfigured' /\ SavedIsCurrent'
      BY <3>1, <3>2, SaveKeeps
    <3>4. TypeOK'
      <4>1. age' \in [Nodes -> 0..MaxAge]
        BY <1>a, <3>2 DEF TypeOK
      <4>2. hb' \in SUBSET Nodes
        BY <1>a, <3>2 DEF TypeOK
      <4> QED BY <1>a, <3>2, <3>3, <4>1, <4>2 DEF TypeOK
    <3> HIDE DEF r
    <3>5. OnlineIsFresh'
      BY <1>a, <3>2 DEF TypeOK, Save, OnlineIsFresh
    <3> QED BY <3>3, <3>4, <3>5 DEF RegistryInv
  <2> QED BY <2>1, <2>2
<1>5. ASSUME NEW n \in Nodes, NEW path \in BOOLEAN, ConfigureNode(n, path)
      PROVE  RegistryInv'
  <2> DEFINE r == [status |-> "configured", path |-> path, conf |-> TRUE]
  <2>1. r \in Node /\ (r.status \in {"configured", "online", "offline"} <=> r.conf)
    BY DEF Node, Status
  <2>2. Save(n, r) /\ UNCHANGED <<age, checked, alive, agent, hb>>
    BY <1>5 DEF ConfigureNode
  <2>3. /\ nodes' \in [Nodes -> Node] /\ db' \in [Nodes -> Node]
        /\ PastRegisteredIsConfigured' /\ SavedIsCurrent'
    BY <2>1, <2>2, SaveKeeps
  <2>4. TypeOK' /\ OnlineIsFresh'
    BY <1>a, <2>2, <2>3 DEF TypeOK, Save, OnlineIsFresh
  <2> QED BY <2>3, <2>4 DEF RegistryInv
<1>6. ASSUME NEW n \in Nodes, DeleteNode(n)
      PROVE  RegistryInv'
  <2>1. NoNode.status \in {"configured", "online", "offline"} <=> NoNode.conf
    BY DEF NoNode
  <2>2. Save(n, NoNode) /\ UNCHANGED <<age, checked, alive, agent, hb>>
    BY <1>6 DEF DeleteNode
  <2>3. /\ nodes' \in [Nodes -> Node] /\ db' \in [Nodes -> Node]
        /\ PastRegisteredIsConfigured' /\ SavedIsCurrent'
    BY <2>1, <2>2, NoNodeIsNode, SaveKeeps
  <2>4. TypeOK' /\ OnlineIsFresh'
    BY <1>a, <2>2, <2>3 DEF TypeOK, Save, OnlineIsFresh, NoNode
  <2> QED BY <2>3, <2>4 DEF RegistryInv
<1>7. CASE Tick
  <2>1. /\ alive => checked
        /\ checked' = FALSE
        /\ UNCHANGED <<nodes, db, alive, agent, hb>>
    BY <1>7 DEF Tick
  <2>2. \A n \in Nodes : age'[n] \in 0..(HeartbeatTimeout + 2) /\ age'[n] <= age[n] + 1
    BY <1>7, <1>a DEF Tick, TypeOK
  <2>3. TypeOK'
    BY <1>a, <1>7, <2>1, <2>2 DEF TypeOK, Tick
  <2>4. OnlineIsFresh'
    BY <1>a, <2>1, <2>2 DEF TypeOK, OnlineIsFresh
  <2>5. PastRegisteredIsConfigured' /\ SavedIsCurrent'
    BY <1>a, <2>1 DEF PastRegisteredIsConfigured, SavedIsCurrent
  <2> QED BY <2>3, <2>4, <2>5 DEF RegistryInv
<1>8. CASE CheckNodeStatus
  <2>1. TypeOK'
    BY <1>a, <1>8 DEF TypeOK, CheckNodeStatus, MarkOffline, Node, Status
  <2>2. PastRegisteredIsConfigured'
    BY <1>a, <1>8 DEF TypeOK, CheckNodeStatus, MarkOffline, Expired, Node,
                      PastRegisteredIsConfigured
  <2>3. SavedIsCurrent'
    BY <1>a, <1>8 DEF TypeOK, CheckNodeStatus, MarkOffline, Node, SavedIsCurrent
  <2>4. OnlineIsFresh'
    BY <1>a, <1>8 DEF TypeOK, CheckNodeStatus, MarkOffline, Expired, Node, OnlineIsFresh
  <2> QED BY <2>1, <2>2, <2>3, <2>4 DEF RegistryInv
<1>9. CASE ServerStop
  BY <1>a, <1>9 DEF ServerStop, RegistryInv, TypeOK, PastRegisteredIsConfigured,
                    SavedIsCurrent, OnlineIsFresh
<1>10. CASE ServerStart
  <2>1. TypeOK'
    BY <1>a, <1>10 DEF TypeOK, ServerStart, Node, Status
  <2>2. PastRegisteredIsConfigured'
    BY <1>a, <1>10 DEF TypeOK, ServerStart, Node, PastRegisteredIsConfigured, SavedIsCurrent
  <2>3. SavedIsCurrent'
    BY <1>a, <1>10 DEF TypeOK, ServerStart, Node, SavedIsCurrent
  <2>4. OnlineIsFresh'
    BY <1>a, <1>10 DEF TypeOK, ServerStart, Node, OnlineIsFresh
  <2> QED BY <2>1, <2>2, <2>3, <2>4 DEF RegistryInv
<1>11. CASE UNCHANGED vars
  BY <1>1, <1>11, <1>a DEF vars, TypeOK
<1> QED BY <1>2, <1>3, <1>4, <1>5, <1>6, <1>7, <1>8, <1>9, <1>10, <1>11 DEF Next

\* The registry's type holds whatever the nodes, the timeout and the interleaving.
THEOREM RegistryTypeCorrect == Spec => []TypeOK
<1>1. RegistryInv => TypeOK
  BY DEF RegistryInv
<1> QED BY <1>1, InvInit, InvNext, PTL DEF Spec

\* A heartbeat never makes an unconfigured node usable (heartbeatNode).
THEOREM ConfiguredHolds == Spec => []PastRegisteredIsConfigured
<1>1. RegistryInv => PastRegisteredIsConfigured
  BY DEF RegistryInv
<1> QED BY <1>1, InvInit, InvNext, PTL DEF Spec

\* The Nodes bucket is the node map, up to online nodes a restart took offline.
THEOREM SavedHolds == Spec => []SavedIsCurrent
<1>1. RegistryInv => SavedIsCurrent
  BY DEF RegistryInv
<1> QED BY <1>1, InvInit, InvNext, PTL DEF Spec

\* checkNodeStatus keeps every online node fresh, for any timeout.
THEOREM FreshHolds == Spec => []OnlineIsFresh
<1>1. RegistryInv => OnlineIsFresh
  BY DEF RegistryInv
<1> QED BY <1>1, InvInit, InvNext, PTL DEF Spec

-----------------------------------------------------------------------------
(* Refinement: every step of the registry is a step of NodeMap or leaves   *)
(* all levels alone.                                                       *)

LEMMA MapInit == Init => Map!Init
BY DEF Init, Map!Init, Levels, Level, Known, NoNode

\* The level of every node but n is that of its unchanged record.
LEMMA SaveLevel ==
    ASSUME RegistryInv, NEW n \in Nodes, NEW r \in Node, Save(n, r)
    PROVE  /\ \A m \in Nodes \ {n} : Level(m)' = Level(m)
           /\ Level(n)' = IF r.status = "absent" THEN "absent"
                          ELSE IF r.status = "online" /\ r.path THEN "online"
                          ELSE "offline"
BY DEF RegistryInv, TypeOK, Save, Level, Known, Selectable

\* Whole maps of levels, from the levels of single nodes.
LEMMA LevelMap ==
    ASSUME NEW n \in Nodes, \A m \in Nodes \ {n} : Level(m)' = Level(m)
    PROVE  /\ Level(n) = "absent" /\ Level(n)' = "offline" => Map!Appear(n)
           /\ Level(n) = "offline" /\ Level(n)' = "online" => Map!Enable(n)
           /\ Level(n) = "offline" /\ Level(n)' = "absent" => Map!Vanish(n)
           /\ Level(n) = "online" /\ Level(n)' = "offline" => Map!Disable({n})
           /\ Level(n)' = Level(n) => UNCHANGED Levels
<1>1. Levels' = [m \in Nodes |-> Level(m)']
  BY DEF Levels
<1>2. \A m \in Nodes \ {n} : Levels'[m] = Levels[m]
  BY <1>1 DEF Levels
<1>3. Levels'[n] = Level(n)' /\ Levels[n] = Level(n)
  BY <1>1 DEF Levels
<1> QED
  BY <1>1, <1>2, <1>3 DEF Levels, Map!Appear, Map!Enable, Map!Vanish, Map!Disable

\* A step of one node that moves it to a neighbouring level.
LEMMA OneNodeStep ==
    ASSUME NEW n \in Nodes, \A m \in Nodes \ {n} : Level(m)' = Level(m),
           \/ Level(n)' = Level(n)
           \/ Level(n) \in {"absent", "online"} /\ Level(n)' = "offline"
           \/ Level(n) = "offline" /\ Level(n)' \in {"absent", "online"}
    PROVE  [Map!Next]_Levels
<1>1. \/ UNCHANGED Levels
      \/ Map!Appear(n) \/ Map!Enable(n) \/ Map!Vanish(n) \/ Map!Disable({n})
  BY LevelMap
<1>2. {n} \in SUBSET Nodes
  OBVIOUS
<1> QED BY <1>1, <1>2 DEF Map!Next

\* The checker and a restart: levels only go from online to offline.
LEMMA OnlyDisables ==
    ASSUME \A m \in Nodes :
             \/ Level(m)' = Level(m)
             \/ Level(m) = "online" /\ Level(m)' = "offline"
    PROVE  [Map!Next]_Levels
<1> DEFINE S == {m \in Nodes : Level(m)' # Level(m)}
<1>1. \A m \in Nodes : Level(m)' = IF m \in S THEN "offline" ELSE Level(m)
  OBVIOUS
<1>2. \A m \in S : Levels[m] = "online"
  BY DEF Levels
<1>3. Levels' = [m \in Nodes |-> IF m \in S THEN "offline" ELSE Levels[m]]
  BY <1>1 DEF Levels
<1>4. CASE S = {}
  BY <1>1, <1>4 DEF Levels
<1>5. CASE S # {}
  <2>1. Map!Disable(S)
    BY <1>2, <1>3, <1>5 DEF Map!Disable
  <2>2. S \in SUBSET Nodes
    OBVIOUS
  <2> HIDE DEF S
  <2> QED BY <2>1, <2>2 DEF Map!Next
<1> QED BY <1>4, <1>5

\* A node that was in use, or past "registered", and is now offline.
LEMMA OfflineLevel ==
    ASSUME NEW m \in Nodes, nodes[m].status # "absent", nodes'[m].status = "offline"
    PROVE  \/ Level(m)' = Level(m)
           \/ Level(m) = "online" /\ Level(m)' = "offline"
BY DEF Level, Known, Selectable

\* A node whose record is the same.
LEMMA SameLevel ==
    ASSUME NEW m \in Nodes, nodes'[m] = nodes[m]
    PROVE  Level(m)' = Level(m)
BY DEF Level, Known, Selectable

LEMMA MapNext == RegistryInv /\ [Next]_vars => [Map!Next]_Levels
<1> SUFFICES ASSUME RegistryInv, [Next]_vars PROVE [Map!Next]_Levels
  OBVIOUS
<1>a. /\ TypeOK /\ PastRegisteredIsConfigured /\ SavedIsCurrent
  BY DEF RegistryInv
<1>1. ASSUME UNCHANGED nodes PROVE [Map!Next]_Levels
  BY <1>1 DEF Levels, Level, Known, Selectable
<1>2. ASSUME NEW n \in Nodes,
             StartAgent(n) \/ StopAgent(n) \/ SendHeartbeat(n) \/ LoseHeartbeat(n)
      PROVE  [Map!Next]_Levels
  BY <1>1, <1>2 DEF StartAgent, StopAgent, SendHeartbeat, LoseHeartbeat
<1>3. ASSUME NEW n \in Nodes, RegisterNode(n)
      PROVE  [Map!Next]_Levels
  <2> DEFINE r == IF Known(n) THEN nodes[n]
                  ELSE [status |-> "registered", path |-> FALSE, conf |-> FALSE]
  <2>1. r \in Node /\ Save(n, r)
    BY <1>a, <1>3 DEF TypeOK, Node, Status, RegisterNode
  <2>2. /\ \A m \in Nodes \ {n} : Level(m)' = Level(m)
        /\ Level(n)' = IF r.status = "absent" THEN "absent"
                       ELSE IF r.status = "online" /\ r.path THEN "online"
                       ELSE "offline"
    BY <2>1, SaveLevel
  <2>3. \/ Level(n)' = Level(n)
        \/ Level(n) = "absent" /\ Level(n)' = "offline"
    BY <2>2 DEF Level, Known, Selectable
  <2> QED BY <2>2, <2>3, OneNodeStep
<1>4. ASSUME NEW n \in Nodes, HeartbeatNode(n)
      PROVE  [Map!Next]_Levels
  <2>1. CASE ~Known(n)
    BY <1>1, <1>4, <2>1 DEF HeartbeatNode
  <2>2. CASE Known(n)
    <3> DEFINE r == IF nodes[n].status \in {"configured", "offline"}
                    THEN [nodes[n] EXCEPT !.status = "online"] ELSE nodes[n]
    <3>1. r \in Node /\ Save(n, r)
      BY <1>a, <1>4, <2>2 DEF TypeOK, Node, Status, HeartbeatNode
    <3>2. /\ \A m \in Nodes \ {n} : Level(m)' = Level(m)
          /\ Level(n)' = IF r.status = "absent" THEN "absent"
                         ELSE IF r.status = "online" /\ r.path THEN "online"
                         ELSE "offline"
      BY <3>1, SaveLevel
    <3>3. \/ Level(n)' = Level(n)
          \/ Level(n) = "offline" /\ Level(n)' = "online"
      BY <1>a, <2>2, <3>2 DEF TypeOK, Node, Level, Known, Selectable
    <3> QED BY <3>2, <3>3, OneNodeStep
  <2> QED BY <2>1, <2>2
<1>5. ASSUME NEW n \in Nodes, NEW path \in BOOLEAN, ConfigureNode(n, path)
      PROVE  [Map!Next]_Levels
  <2> DEFINE r == [status |-> "configured", path |-> path, conf |-> TRUE]
  <2>1. r \in Node /\ Save(n, r) /\ Known(n)
    BY <1>5 DEF Node, Status, ConfigureNode
  <2>2. (\A m \in Nodes \ {n} : Level(m)' = Level(m)) /\ Level(n)' = "offline"
    BY <2>1, SaveLevel
  <2>3. Level(n) \in {"online", "offline"}
    BY <2>1 DEF Level
  <2> QED BY <2>2, <2>3, OneNodeStep
<1>6. ASSUME NEW n \in Nodes, DeleteNode(n)
      PROVE  [Map!Next]_Levels
  <2>1. Save(n, NoNode) /\ Level(n) = "offline"
    BY <1>6 DEF DeleteNode, Level, Known, Selectable
  <2>2. (\A m \in Nodes \ {n} : Level(m)' = Level(m)) /\ Level(n)' = "absent"
    BY <2>1, NoNodeIsNode, SaveLevel DEF NoNode
  <2> QED BY <2>1, <2>2, OneNodeStep
<1>7. CASE Tick
  BY <1>1, <1>7 DEF Tick
<1>8. CASE CheckNodeStatus
  <2>1. \A m \in Nodes : nodes'[m] = IF Expired(m) THEN MarkOffline(m) ELSE nodes[m]
    BY <1>8 DEF CheckNodeStatus
  <2>2. \A m \in Nodes : Expired(m) => /\ nodes[m].status \in {"configured", "online"}
                                       /\ MarkOffline(m).status = "offline"
    BY <1>a DEF Expired, MarkOffline, TypeOK, Node
  <2>3. \A m \in Nodes : \/ Level(m)' = Level(m)
                         \/ Level(m) = "online" /\ Level(m)' = "offline"
    BY <2>1, <2>2, OfflineLevel, SameLevel
  <2> QED BY <2>3, OnlyDisables
<1>9. CASE ServerStop
  BY <1>1, <1>9 DEF ServerStop
<1>10. CASE ServerStart
  <2>1. \A m \in Nodes : nodes'[m] = IF db[m].status = "online"
                                     THEN [db[m] EXCEPT !.status = "offline"] ELSE db[m]
    BY <1>10 DEF ServerStart
  <2>2. \A m \in Nodes : \/ nodes'[m] = nodes[m]
                         \/ nodes[m].status = "online" /\ nodes'[m].status = "offline"
    BY <1>a, <2>1, ZenonT(60) DEF SavedIsCurrent, TypeOK, Node
  <2>3. \A m \in Nodes : \/ Level(m)' = Level(m)
                         \/ Level(m) = "online" /\ Level(m)' = "offline"
    BY <2>2, OfflineLevel, SameLevel
  <2> QED BY <2>3, OnlyDisables
<1>11. CASE UNCHANGED vars
  BY <1>1, <1>11 DEF vars
<1> QED BY <1>2, <1>3, <1>4, <1>5, <1>6, <1>7, <1>8, <1>9, <1>10, <1>11 DEF Next

\* The registry implements NodeMap: whatever agents, timeouts and restarts do, a
\* node is selectable only after it was known, and never vanishes while selectable.
THEOREM RegistryImplementsMap == Spec => ImplementsNodeMap
BY InvInit, InvNext, MapInit, MapNext, PTL DEF Spec, ImplementsNodeMap, Map!Spec
=============================================================================
