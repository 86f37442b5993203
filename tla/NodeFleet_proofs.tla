--------------------------- MODULE NodeFleet_proofs ---------------------------
(***************************************************************************)
(* Proofs about NodeFleet, for any nodes, platform requests and labs.      *)
(***************************************************************************)
EXTENDS NodeFleet, FiniteSetTheorems, TLAPS

-----------------------------------------------------------------------------
(* Type correctness *)

NodeRow == [state: {"new", "present", "gone"}, local: BOOLEAN, enabled: BOOLEAN, default: BOOLEAN, ver: Nat]
AdminState == [pc: {"idle", "invalidate", "delete"} \cup Writing, n: Nodes \cup {NoNode}, body: Bodies \cup {NoBody}]
PollState == [pc: {"idle", "pinging"}, ver: Nat]
OpState == [pc: {"idle", "chosen", "created", "building", "call", "started"},
            kind: {"provision", "cleanup", "destroy"}, n: Nodes \cup {NoNode}, ver: Nat, client: Nat \cup {NoClient}]
LabRow == [status: {"none"} \cup Live, node: Nodes \cup {NoNode}]

\* TypeOK but for the keys.
Types ==
  /\ row \in [Nodes -> NodeRow] /\ good \in [Nodes -> Nat] /\ pinged \subseteq Nodes
  /\ cache \in [Nodes -> Nat \cup {NoClient}]
  /\ admin \in [Admins -> AdminState] /\ poll \in [Nodes -> PollState]
  /\ op \in [Users -> OpState] /\ lab \in [Users -> LabRow]
  /\ box \in [Users -> Nodes \cup {NoNode}] /\ restarts \in Nat
  /\ overlapped \subseteq Nodes /\ excused \subseteq Users
KeyTypes == stale \subseteq read /\ NoKey \notin read

LEMMA TypeFacts ==
  ASSUME Types
  PROVE  /\ row \in [Nodes -> NodeRow] /\ good \in [Nodes -> Nat] /\ pinged \subseteq Nodes
         /\ cache \in [Nodes -> Nat \cup {NoClient}]
         /\ admin \in [Admins -> AdminState] /\ poll \in [Nodes -> PollState]
         /\ op \in [Users -> OpState] /\ lab \in [Users -> LabRow]
         /\ box \in [Users -> Nodes \cup {NoNode}] /\ restarts \in Nat
         /\ overlapped \subseteq Nodes /\ excused \subseteq Users
BY DEF Types

\* A request under way names a node.
Named == \A a \in Admins : admin[a].pc # "idle" => admin[a].n \in Nodes

\* The type invariant after a step, from its parts.
LEMMA TypeNext ==
  ASSUME row' \in [Nodes -> NodeRow], good' \in [Nodes -> Nat], pinged' \subseteq Nodes,
         cache' \in [Nodes -> Nat \cup {NoClient}],
         admin' \in [Admins -> AdminState], poll' \in [Nodes -> PollState],
         op' \in [Users -> OpState], lab' \in [Users -> LabRow],
         box' \in [Users -> Nodes \cup {NoNode}], restarts' \in Nat,
         overlapped' \subseteq Nodes, excused' \subseteq Users
  PROVE  Types'
BY DEF Types

LEMMA Constants ==
  /\ NoNode \notin Nodes /\ FirstNode \in Nodes /\ Watched \subseteq Nodes
  /\ IdleAdmin \in AdminState /\ IdleOp \in OpState /\ IdlePoll \in PollState /\ NoLab \in LabRow
  /\ NoRow \in NodeRow
<1>1. NoNode \notin Nodes /\ FirstNode \in Nodes /\ Watched \subseteq Nodes
  BY NodesAssumption
<1>2. IdleAdmin \in AdminState
  BY DEF IdleAdmin, AdminState
<1>3. IdleOp \in OpState /\ IdlePoll \in PollState /\ NoLab \in LabRow /\ NoRow \in NodeRow
  BY DEF IdleOp, OpState, NoClient, IdlePoll, PollState, NoLab, LabRow, NoRow, NodeRow
<1> QED BY <1>1, <1>2, <1>3

LEMMA RowTypes ==
  \A local, enabled, default \in BOOLEAN, v \in Nat : NewRow(local, enabled, default, v) \in NodeRow
BY DEF NewRow, NodeRow

\* What a request writes into a flag is a flag.
LEMMA FlagTypes ==
  /\ \A a : SetsDefault(a) \in BOOLEAN
  /\ \A f : (TRUE \in f) \in BOOLEAN
  /\ \A f : \A old \in BOOLEAN : Written(f, old) \in BOOLEAN
<1>1. \A f : (TRUE \in f) \in BOOLEAN
  OBVIOUS
<1>2. ASSUME NEW f, NEW old \in BOOLEAN PROVE Written(f, old) \in BOOLEAN
  <2> DEFINE flag == TRUE \in f
  <2>1. flag \in BOOLEAN
    OBVIOUS
  <2>2. Written(f, old) = IF f = {} THEN old ELSE flag
    BY DEF Written
  <2> HIDE DEF flag
  <2> QED BY <2>1, <2>2
<1>3. \A a : SetsDefault(a) \in BOOLEAN
  BY DEF SetsDefault
<1> QED BY <1>1, <1>2, <1>3

LEMMA TypeInit == Init => Types
<1> SUFFICES ASSUME Init PROVE Types OBVIOUS
<1>1. row \in [Nodes -> NodeRow]
  BY Constants DEF Init, NewRow, NodeRow, NoRow
<1>2. /\ admin \in [Admins -> AdminState] /\ poll \in [Nodes -> PollState]
      /\ op \in [Users -> OpState] /\ lab \in [Users -> LabRow]
  BY Constants DEF Init
<1> QED BY <1>1, <1>2 DEF Init, Types, NodeRow, AdminState, PollState, OpState, LabRow

\* A request goes on to its next step.
LEMMA GoesTo ==
  ASSUME admin \in [Admins -> AdminState], NEW a \in Admins,
         NEW pc \in {"idle", "invalidate", "delete"} \cup Writing, admin' = [admin EXCEPT ![a].pc = pc]
  PROVE  admin' \in [Admins -> AdminState]
<1>1. admin[a] \in AdminState
  OBVIOUS
<1>2. [admin[a] EXCEPT !.pc = pc] \in AdminState
  BY <1>1 DEF AdminState
<1> QED BY <1>2

LEMMA TypeAdmin ==
  ASSUME Types, Named, NEW a \in Admins, AdminStep(a)
  PROVE  Types'
<1>t. /\ row \in [Nodes -> NodeRow] /\ good \in [Nodes -> Nat] /\ pinged \subseteq Nodes
      /\ cache \in [Nodes -> Nat \cup {NoClient}]
      /\ admin \in [Admins -> AdminState] /\ poll \in [Nodes -> PollState]
      /\ op \in [Users -> OpState] /\ lab \in [Users -> LabRow]
      /\ box \in [Users -> Nodes \cup {NoNode}] /\ restarts \in Nat
      /\ overlapped \subseteq Nodes /\ excused \subseteq Users
  BY TypeFacts
<1> USE DEF control, labs
<1>1. ASSUME NEW n \in Nodes, NEW body \in Bodies, NEW clear \in Writing, NEW write \in Writing,
             Arrive(a, n, body, clear, write)
      PROVE admin' \in [Admins -> AdminState]
  BY <1>t, <1>1 DEF Arrive, AdminState
<1>2. ASSUME NEW n \in Nodes, NEW body \in Bodies, PostNode(a, n, body) \/ PatchNode(a, n, body) PROVE Types'
  <2>1. admin' \in [Admins -> AdminState]
    BY <1>1, <1>2 DEF PostNode, PatchNode, Writing
  <2> QED BY <1>t, <1>2, <2>1, TypeNext DEF PostNode, PatchNode
<1>3. ASSUME NEW n \in Nodes, PingNode(a, n) PROVE Types'
  <2>1. cache' \in [Nodes -> Nat \cup {NoClient}]
    BY <1>t, <1>3 DEF PingNode
  <2> QED BY <1>t, <1>3, <2>1, TypeNext DEF PingNode
<1>4. ASSUME NEW n \in Nodes, DeleteNode(a, n) PROVE Types'
  <2>1. CASE On(n) # {}
    BY <1>t, <1>4, <2>1, TypeNext DEF DeleteNode
  <2>2. CASE On(n) = {}
    <3>1. [IdleAdmin EXCEPT !.pc = "delete", !.n = n] \in AdminState
      BY DEF IdleAdmin, AdminState
    <3>2. admin' = [admin EXCEPT ![a] = [IdleAdmin EXCEPT !.pc = "delete", !.n = n]]
      BY <1>4, <2>2 DEF DeleteNode
    <3>3. admin' \in [Admins -> AdminState]
      BY <1>t, <3>1, <3>2
    <3> QED BY <1>t, <1>4, <3>3, TypeNext DEF DeleteNode
  <2> QED BY <2>1, <2>2
<1>5. CASE ClearDefaults(a)
  <2>1. row' \in [Nodes -> NodeRow]
    <3>1. ASSUME NEW n \in Nodes PROVE [row[n] EXCEPT !.default = FALSE] \in NodeRow
      <4>1. row[n] \in NodeRow
        BY <1>t
      <4> QED BY <4>1 DEF NodeRow
    <3>2. ASSUME NEW n \in Nodes PROVE row'[n] = row[n] \/ row'[n] = [row[n] EXCEPT !.default = FALSE]
      BY <1>5 DEF ClearDefaults
    <3>3. ASSUME NEW n \in Nodes PROVE row'[n] \in NodeRow
      BY <1>t, <3>1, <3>2
    <3>4. DOMAIN row' = Nodes /\ row' = [n \in Nodes |-> row'[n]]
      BY <1>5 DEF ClearDefaults
    <3> QED BY <3>3, <3>4
  <2>2. admin' \in [Admins -> AdminState]
    <3>1. PICK pc \in Writing : admin' = [admin EXCEPT ![a].pc = pc]
      BY <1>5 DEF ClearDefaults, Goto, Writing
    <3> QED BY <1>t, <3>1, GoesTo
  <2> QED BY <1>t, <1>5, <2>1, <2>2, TypeNext DEF ClearDefaults
<1>6. ASSUME Done(a) PROVE admin' \in [Admins -> AdminState]
  BY <1>t, <1>6, Constants DEF Done
<1>7. CASE InsertNode(a)
  <2>1. PICK e \in BOOLEAN, d \in BOOLEAN : /\ e = (TRUE \in admin[a].body.enabled) /\ d = SetsDefault(a)
    BY FlagTypes
  <2>2. admin[a].n \in Nodes
    BY <1>7 DEF InsertNode, NewIds
  <2>3. row' = [row EXCEPT ![admin[a].n] = NewRow(FALSE, e, d, good[admin[a].n])]
    BY <1>7, <2>1 DEF InsertNode
  <2>4. row' \in [Nodes -> NodeRow]
    BY <1>t, <2>2, <2>3, RowTypes
  <2> QED BY <1>t, <1>6, <1>7, <2>4, TypeNext DEF InsertNode
<1>8. CASE InsertFails(a)
  BY <1>t, <1>6, <1>8, TypeNext DEF InsertFails
<1>9. CASE UpdateNode(a)
  <2>1. CASE admin[a].n \notin Present
    BY <1>t, <1>6, <1>9, <2>1, TypeNext DEF UpdateNode
  <2>2. CASE admin[a].n \in Present
    <3>1. PICK n \in Nodes : n = admin[a].n
      BY <2>2 DEF Present
    <3>2. PICK e \in BOOLEAN, d \in BOOLEAN, v \in Nat :
             /\ d = Written(admin[a].body.default, row[n].default)
             /\ e = Written(admin[a].body.enabled, row[n].enabled)
             /\ v = IF admin[a].body.connection THEN good[n] ELSE row[n].ver
      <4>1. row[n] \in NodeRow /\ good[n] \in Nat
        BY <1>t
      <4>2. Written(admin[a].body.default, row[n].default) \in BOOLEAN
        BY <4>1, FlagTypes DEF NodeRow
      <4>3. Written(admin[a].body.enabled, row[n].enabled) \in BOOLEAN
        BY <4>1, FlagTypes DEF NodeRow
      <4>4. (IF admin[a].body.connection THEN good[n] ELSE row[n].ver) \in Nat
        BY <4>1 DEF NodeRow
      <4> QED BY <4>2, <4>3, <4>4
    <3>3. row' = [row EXCEPT ![n].default = d, ![n].enabled = e, ![n].ver = v]
      BY <1>9, <2>2, <3>1, <3>2 DEF UpdateNode
    <3>4. row' \in [Nodes -> NodeRow]
      <4>1. row[n] \in NodeRow
        BY <1>t
      <4>2. [row[n] EXCEPT !.default = d, !.enabled = e, !.ver = v] \in NodeRow
        BY <4>1 DEF NodeRow
      <4>3. row' = [row EXCEPT ![n] = [row[n] EXCEPT !.default = d, !.enabled = e, !.ver = v]]
        BY <1>t, <3>3
      <4> QED BY <1>t, <4>2, <4>3
    <3>5. admin' \in [Admins -> AdminState]
      BY <1>t, <1>9, <2>2 DEF UpdateNode, Goto, AdminState
    <3> QED BY <1>t, <1>9, <3>4, <3>5, TypeNext DEF UpdateNode
  <2> QED BY <2>1, <2>2
<1>10. CASE InvalidateNode(a)
  <2>1. cache' \in [Nodes -> Nat \cup {NoClient}]
    BY <1>t, <1>10 DEF InvalidateNode
  <2>2. overlapped' \subseteq Nodes
    <3>1. admin[a].n \in Nodes
      BY <1>10 DEF InvalidateNode, AdminIs, Named
    <3> QED BY <1>t, <1>10, <3>1 DEF InvalidateNode
  <2> QED BY <1>t, <1>6, <1>10, <2>1, <2>2, TypeNext DEF InvalidateNode
<1>11. CASE RemoveNode(a)
  <2>1. row' \in [Nodes -> NodeRow]
    BY <1>t, <1>11, Constants DEF RemoveNode
  <2>2. lab' \in [Users -> LabRow]
    BY <1>t, <1>11 DEF RemoveNode, LabRow
  <2>3. admin' \in [Admins -> AdminState]
    <3>1. CASE Goto(a, "invalidate")
      BY <1>t, <3>1, GoesTo DEF Goto
    <3>2. CASE Done(a)
      BY <1>6, <3>2
    <3> QED BY <1>11, <3>1, <3>2 DEF RemoveNode
  <2>4. excused' \subseteq Users
    BY <1>t, <1>11 DEF RemoveNode, On
  <2> QED BY <1>t, <1>11, <2>1, <2>2, <2>3, <2>4, TypeNext DEF RemoveNode
<1> QED BY <1>2, <1>3, <1>4, <1>5, <1>7, <1>8, <1>9, <1>10, <1>11 DEF AdminStep

LEMMA NamedStep ==
  ASSUME Types, Named, [Next]_vars
  PROVE  Named'
<1>t. admin \in [Admins -> AdminState]
  BY TypeFacts
<1>1. ASSUME NEW a \in Admins, AdminStep(a) PROVE Named'
  <2>1. ASSUME NEW n \in Nodes, NEW body \in Bodies, PostNode(a, n, body) \/ PatchNode(a, n, body) PROVE Named'
    <3>1. ASSUME NEW clear, NEW write, Arrive(a, n, body, clear, write) PROVE Named'
      <4>1. PICK pc : pc = IF TRUE \in body.default THEN clear ELSE write
        OBVIOUS
      <4>2. admin' = [admin EXCEPT ![a] = [pc |-> pc, n |-> n, body |-> body]]
        BY <3>1, <4>1 DEF Arrive
      <4> QED BY <1>t, <4>2 DEF Named
    <3> QED BY <2>1, <3>1 DEF PostNode, PatchNode
  <2>2. ASSUME NEW pc, Goto(a, pc), admin[a].pc # "idle" PROVE Named'
    BY <1>t, <2>2 DEF Goto, Named, AdminState
  <2>3. Done(a) => Named'
    BY <1>t DEF Done, IdleAdmin, Named
  <2>5. (ClearDefaults(a) \/ InsertNode(a) \/ InsertFails(a) \/ UpdateNode(a) \/ InvalidateNode(a) \/ RemoveNode(a))
          => Done(a) \/ \E pc : Goto(a, pc) /\ admin[a].pc # "idle"
    BY DEF ClearDefaults, InsertNode, InsertFails, UpdateNode, InvalidateNode, RemoveNode, AdminIs
  <2>4. ASSUME NEW n \in Nodes, PingNode(a, n) \/ DeleteNode(a, n) PROVE Named'
    <3>1. UNCHANGED admin \/ \E x : admin' = [admin EXCEPT ![a] = x] /\ x.n = n
      <4>1. [IdleAdmin EXCEPT !.pc = "delete", !.n = n].n = n
        BY DEF IdleAdmin
      <4> QED BY <2>4, <4>1 DEF PingNode, DeleteNode, control
    <3> QED BY <1>t, <2>4, <3>1 DEF Named
  <2> QED BY <1>1, <2>1, <2>2, <2>3, <2>4, <2>5 DEF AdminStep
<1>2. CASE Restart
  BY <1>2 DEF Restart, Named, IdleAdmin
<1>3. CASE UNCHANGED admin
  BY <1>3 DEF Named
<1>4. (\E u \in Users : LabStep(u)) \/ (\E n \in Watched : HealthStep(n) \/ Age(n) \/ Move(n)) \/ (\E path \in read : Rotate(path)) \/ UNCHANGED vars
        => UNCHANGED admin
  BY DEF LabStep, Choose, CreateRow, DestroyReads, GetRuntime, BuildClient, BuildFails, StartContainer, MarksReady,
         ProvisionFails, CleanupEnds, Terminate, Sweep, CleansUp, MarksFailed,
         HealthStep, PollLists, PollAnswers, Age, Move, Rotate, control, vars
<1> QED BY <1>1, <1>2, <1>3, <1>4 DEF Next

LEMMA TypeLab ==
  ASSUME Types, NEW u \in Users, LabStep(u)
  PROVE  Types'
<1>t. /\ row \in [Nodes -> NodeRow] /\ good \in [Nodes -> Nat] /\ pinged \subseteq Nodes
      /\ cache \in [Nodes -> Nat \cup {NoClient}]
      /\ admin \in [Admins -> AdminState] /\ poll \in [Nodes -> PollState]
      /\ op \in [Users -> OpState] /\ lab \in [Users -> LabRow]
      /\ box \in [Users -> Nodes \cup {NoNode}] /\ restarts \in Nat
      /\ overlapped \subseteq Nodes /\ excused \subseteq Users
  BY TypeFacts
<1> USE DEF control, labs
<1>1. CASE Choose(u)
  <2>1. ASSUME NEW n \in Present, op' = [op EXCEPT ![u] = [IdleOp EXCEPT !.pc = "chosen", !.n = n, !.ver = row[n].ver]]
        PROVE op' \in [Users -> OpState]
    <3>1. n \in Nodes /\ row[n].ver \in Nat
      BY <1>t DEF Present, NodeRow
    <3>2. [IdleOp EXCEPT !.pc = "chosen", !.n = n, !.ver = row[n].ver] \in OpState
      BY <3>1 DEF IdleOp, OpState, NoClient
    <3> QED BY <1>t, <2>1, <3>2
  <2>2. ASSUME op' = [op EXCEPT ![u] = [IdleOp EXCEPT !.pc = "chosen"]] PROVE op' \in [Users -> OpState]
    <3>1. [IdleOp EXCEPT !.pc = "chosen"] \in OpState
      BY DEF IdleOp, OpState, NoClient
    <3> QED BY <1>t, <2>2, <3>1
  <2> QED BY <1>t, <1>1, <2>1, <2>2, TypeNext DEF Choose
<1>2. CASE CreateRow(u)
  <2>1. op' \in [Users -> OpState]
    <3>1. op' = [op EXCEPT ![u].pc = "created"] \/ op' = [op EXCEPT ![u] = IdleOp]
      BY <1>2 DEF CreateRow
    <3>2. [op EXCEPT ![u].pc = "created"] \in [Users -> OpState]
      BY <1>t DEF OpState
    <3> QED BY <1>t, <3>1, <3>2, Constants
  <2>2. lab' \in [Users -> LabRow]
    <3>1. op[u].n \in Nodes \cup {NoNode}
      BY <1>t DEF OpState
    <3>2. [status |-> "provisioning", node |-> op[u].n] \in LabRow
      BY <3>1 DEF LabRow, Live
    <3> QED BY <1>t, <1>2, <3>2 DEF CreateRow
  <2> QED BY <1>t, <1>2, <2>1, <2>2, TypeNext DEF CreateRow
<1>3. CASE DestroyReads(u)
  <2>1. lab[u].node \in Nodes \cup {NoNode}
    BY <1>t DEF LabRow
  <2>2. VersionRead(lab[u].node) \in Nat
    BY <1>t, <2>1 DEF VersionRead, NodeRow
  <2>3. [pc |-> "created", kind |-> "destroy", n |-> lab[u].node,
         ver |-> VersionRead(lab[u].node), client |-> NoClient] \in OpState
    BY <2>1, <2>2 DEF OpState
  <2>4. op' \in [Users -> OpState]
    BY <1>t, <1>3, <2>3 DEF DestroyReads
  <2> QED BY <1>t, <1>3, <2>4, TypeNext DEF DestroyReads
<1>4. CASE GetRuntime(u)
  <2>1. op[u] \in OpState /\ (op[u].n # NoNode => cache[op[u].n] \in Nat \cup {NoClient})
    BY <1>t DEF OpState
  <2>2. \/ op' = [op EXCEPT ![u].pc = "call"]
        \/ op[u].n # NoNode /\ op' = [op EXCEPT ![u].pc = "call", ![u].client = cache[op[u].n]]
        \/ op' = [op EXCEPT ![u].pc = "building"]
    BY <1>t, <1>4 DEF GetRuntime
  <2>3. op' \in [Users -> OpState]
    BY <1>t, <2>1, <2>2 DEF OpState
  <2> QED BY <1>t, <1>4, <2>3, TypeNext DEF GetRuntime
<1>5. CASE BuildClient(u)
  <2>1. op[u].ver \in Nat
    BY <1>t DEF OpState
  <2>2. cache' \in [Nodes -> Nat \cup {NoClient}]
    BY <1>t, <1>5, <2>1 DEF BuildClient
  <2>3. op' \in [Users -> OpState]
    <3>1. [op[u] EXCEPT !.pc = "call", !.client = op[u].ver] \in OpState
      <4>1. op[u] \in OpState
        BY <1>t
      <4> QED BY <2>1, <4>1 DEF OpState
    <3>2. op' = [op EXCEPT ![u] = [op[u] EXCEPT !.pc = "call", !.client = op[u].ver]]
      BY <1>t, <1>5 DEF BuildClient
    <3> QED BY <1>t, <3>1, <3>2
  <2> QED BY <1>t, <1>5, <2>2, <2>3, TypeNext DEF BuildClient
<1>o. op[u] \in OpState /\ op[u].n \in Nodes \cup {NoNode}
  BY <1>t DEF OpState
<1>f. ASSUME CleansUp(u) \/ MarksFailed(u) \/ op' = [op EXCEPT ![u] = IdleOp]
      PROVE  op' \in [Users -> OpState]
  <2>1. [op[u] EXCEPT !.pc = "created", !.kind = "cleanup"] \in OpState
    BY <1>o DEF OpState
  <2>2. CleansUp(u) => op' = [op EXCEPT ![u] = [op[u] EXCEPT !.pc = "created", !.kind = "cleanup"]]
    BY <1>t DEF CleansUp
  <2> QED BY <1>t, <1>f, <2>1, <2>2, Constants DEF MarksFailed
<1>m. MarksFailed(u) => lab' \in [Users -> LabRow]
  BY <1>t, Constants DEF MarksFailed
<1>6. CASE BuildFails(u) \/ ProvisionFails(u) \/ CleanupEnds(u)
  <2>1. /\ CleansUp(u) \/ MarksFailed(u) \/ op' = [op EXCEPT ![u] = IdleOp]
        /\ MarksFailed(u) \/ UNCHANGED lab
        /\ UNCHANGED <<row, good, pinged, cache, admin, poll, box, excused, restarts, overlapped>>
    BY <1>6 DEF BuildFails, ProvisionFails, CleanupEnds
  <2>2. op' \in [Users -> OpState] /\ lab' \in [Users -> LabRow]
    BY <1>t, <1>f, <1>m, <2>1
  <2> QED BY <1>t, <2>1, <2>2, TypeNext
<1>9. CASE StartContainer(u)
  <2>1. op' \in [Users -> OpState]
    <3>1. [op[u] EXCEPT !.pc = "started"] \in OpState
      BY <1>o DEF OpState
    <3> QED BY <1>t, <1>9, <3>1 DEF StartContainer
  <2>2. box' \in [Users -> Nodes \cup {NoNode}] /\ excused' \subseteq Users
    BY <1>t, <1>o, <1>9 DEF StartContainer
  <2> QED BY <1>t, <1>9, <2>1, <2>2, TypeNext DEF StartContainer
<1>10. CASE MarksReady(u)
  <2>1. lab' \in [Users -> LabRow]
    <3>1. [status |-> "ready", node |-> op[u].n] \in LabRow
      BY <1>o DEF LabRow, Live
    <3> QED BY <1>t, <1>10, <3>1 DEF MarksReady
  <2>2. op' \in [Users -> OpState] /\ excused' \subseteq Users
    BY <1>t, <1>10, Constants DEF MarksReady
  <2> QED BY <1>t, <1>10, <2>1, <2>2, TypeNext DEF MarksReady
<1>7. CASE Terminate(u)
  <2>1. op' \in [Users -> OpState] /\ lab' \in [Users -> LabRow]
    BY <1>t, <1>7, Constants DEF Terminate
  <2>2. box' \in [Users -> Nodes \cup {NoNode}] /\ excused' \subseteq Users
    BY <1>t, <1>7 DEF Terminate
  <2> QED BY <1>t, <1>7, <2>1, <2>2, TypeNext DEF Terminate
<1>8. CASE Sweep(u)
  <2>1. box' \in [Users -> Nodes \cup {NoNode}] /\ excused' \subseteq Users
    BY <1>t, <1>8 DEF Sweep
  <2> QED BY <1>t, <1>8, <2>1, TypeNext DEF Sweep
<1> QED BY <1>1, <1>2, <1>3, <1>4, <1>5, <1>6, <1>7, <1>8, <1>9, <1>10 DEF LabStep

LEMMA TypeWorld ==
  ASSUME Types, NEW n \in Nodes, HealthStep(n) \/ Age(n) \/ Move(n)
  PROVE  Types'
<1>t. /\ row \in [Nodes -> NodeRow] /\ good \in [Nodes -> Nat] /\ pinged \subseteq Nodes
      /\ cache \in [Nodes -> Nat \cup {NoClient}]
      /\ admin \in [Admins -> AdminState] /\ poll \in [Nodes -> PollState]
      /\ op \in [Users -> OpState] /\ lab \in [Users -> LabRow]
      /\ box \in [Users -> Nodes \cup {NoNode}] /\ restarts \in Nat
      /\ overlapped \subseteq Nodes /\ excused \subseteq Users
  BY TypeFacts
<1> USE DEF control, labs
<1>1. CASE PollLists(n)
  <2>1. poll' \in [Nodes -> PollState]
    BY <1>t, <1>1 DEF PollLists, PollState, NodeRow
  <2> QED BY <1>t, <1>1, <2>1, TypeNext DEF PollLists
<1>2. CASE PollAnswers(n)
  <2>1. poll' \in [Nodes -> PollState] /\ pinged' \subseteq Nodes
    BY <1>t, <1>2, Constants DEF PollAnswers
  <2>2. cache' \in [Nodes -> Nat \cup {NoClient}]
    BY <1>t, <1>2 DEF PollAnswers
  <2> QED BY <1>t, <1>2, <2>1, <2>2, TypeNext DEF PollAnswers
<1>3. CASE Age(n)
  <2>1. pinged' \subseteq Nodes
    BY <1>t, <1>3 DEF Age
  <2> QED BY <1>t, <1>3, <2>1, TypeNext DEF Age
<1>4. CASE Move(n)
  <2>1. good' \in [Nodes -> Nat]
    BY <1>t, <1>4 DEF Move
  <2> QED BY <1>t, <1>4, <2>1, TypeNext DEF Move
<1> QED BY <1>1, <1>2, <1>3, <1>4 DEF HealthStep

LEMMA TypeRestart == Types /\ Restart => Types'
<1> SUFFICES ASSUME Types, Restart PROVE Types' OBVIOUS
<1>t. /\ row \in [Nodes -> NodeRow] /\ good \in [Nodes -> Nat] /\ pinged \subseteq Nodes
      /\ box \in [Users -> Nodes \cup {NoNode}] /\ restarts \in Nat
      /\ lab \in [Users -> LabRow] /\ excused \subseteq Users
  BY TypeFacts
<1>1. PICK local \in IF LocalNodes # {} THEN LocalNodes ELSE NewIds :
         /\ row' = IF LocalNodes # {} THEN row
                   ELSE [row EXCEPT ![local] = NewRow(TRUE, TRUE, TRUE, good[local])]
         /\ lab' = [u \in Users |-> IF lab[u].status \in Live /\ lab[u].node = NoNode
                                    THEN [lab[u] EXCEPT !.node = local] ELSE lab[u]]
  BY DEF Restart
<1>2. local \in Nodes
  BY <1>1 DEF LocalNodes, Present, NewIds
<1>3. row' \in [Nodes -> NodeRow]
  BY <1>t, <1>1, <1>2, RowTypes
<1>4. lab' \in [Users -> LabRow]
  BY <1>t, <1>1, <1>2 DEF LabRow
<1>5. /\ cache' \in [Nodes -> Nat \cup {NoClient}]
      /\ admin' \in [Admins -> AdminState] /\ poll' \in [Nodes -> PollState]
      /\ op' \in [Users -> OpState] /\ restarts' \in Nat /\ overlapped' \subseteq Nodes
  BY <1>t, Constants DEF Restart
<1> QED BY <1>t, <1>3, <1>4, <1>5, TypeNext DEF Restart

LEMMA TypeRotate ==
  ASSUME Types, NEW path, Rotate(path)
  PROVE  Types'
BY DEF Types, Rotate, control, labs

LEMMA TypeStep == Types /\ Named /\ [Next]_vars => Types' /\ Named'
<1>1. Types /\ UNCHANGED vars => Types'
  BY DEF Types, vars, control, labs
<1>2. \A n \in Watched : n \in Nodes
  BY Constants
<1> QED BY <1>1, <1>2, NamedStep, TypeAdmin, TypeLab, TypeWorld, TypeRotate, TypeRestart DEF Next

LEMMA TypesHold == Spec => [](Types /\ Named)
<1>1. Init => Named
  BY DEF Init, Named, IdleAdmin
<1> QED BY <1>1, TypeInit, TypeStep, PTL DEF Spec

\* Keys are read one by one, and forgotten by a restart.
LEMMA KeyStep == KeyTypes /\ [Next]_vars => KeyTypes'
<1> SUFFICES ASSUME KeyTypes, [Next]_vars PROVE KeyTypes' OBVIOUS
<1>1. CASE UNCHANGED keys
  BY <1>1 DEF KeyTypes, keys
<1>2. ASSUME NEW n, NEW ver, ReadKey(n, ver) PROVE KeyTypes'
  BY <1>2 DEF KeyTypes, ReadKey
<1>3. ASSUME NEW path \in read, Rotate(path) PROVE KeyTypes'
  BY <1>3 DEF KeyTypes, Rotate
<1>4. CASE Restart
  BY <1>4 DEF KeyTypes, Restart
<1>5. ASSUME NEW a \in Admins, AdminStep(a) PROVE KeyTypes'
  <2>1. CASE \E n \in Nodes : PingNode(a, n)
    BY <1>2, <2>1 DEF PingNode
  <2>2. CASE ~\E n \in Nodes : PingNode(a, n)
    BY <1>1, <1>5, <2>2
       DEF AdminStep, PostNode, PatchNode, DeleteNode, ClearDefaults, InsertNode, InsertFails, UpdateNode,
           InvalidateNode, RemoveNode
  <2> QED BY <2>1, <2>2
<1>6. ASSUME NEW u \in Users, LabStep(u) PROVE KeyTypes'
  <2>1. CASE BuildClient(u)
    BY <1>2, <2>1 DEF BuildClient
  <2>2. CASE ~BuildClient(u)
    BY <1>1, <1>6, <2>2
       DEF LabStep, Choose, CreateRow, DestroyReads, GetRuntime, BuildFails, StartContainer, MarksReady,
           ProvisionFails, CleanupEnds, Terminate, Sweep
  <2> QED BY <2>1, <2>2
<1>7. ASSUME NEW n \in Watched, HealthStep(n) \/ Age(n) \/ Move(n) PROVE KeyTypes'
  BY <1>1, <1>2, <1>7 DEF HealthStep, PollLists, PollAnswers, Age, Move
<1>8. CASE UNCHANGED vars
  BY <1>1, <1>8 DEF vars
<1> QED BY <1>3, <1>4, <1>5, <1>6, <1>7, <1>8 DEF Next

\* The variables always have their types.
THEOREM TypeCorrect == Spec => []TypeOK
<1>1. Types /\ KeyTypes => TypeOK
  BY DEF TypeOK, Types, KeyTypes, NodeRow, AdminState, PollState, OpState, LabRow
<1>2. Init => KeyTypes
  BY DEF Init, KeyTypes
<1> QED BY <1>1, <1>2, KeyStep, TypesHold, PTL DEF Spec

-----------------------------------------------------------------------------
(* Edits of a node                                                         *)

\* An id that was never given is not in use.
Fresh ==
  \A n \in NewIds : /\ cache[n] = NoClient
                    /\ \A u \in Users : lab[u].node # n /\ (op[u].pc # "idle" => op[u].n # n)

\* Unless its edit is still to be invalidated, or was while an operation held
\* the old row, whoever holds the row of a node or its client holds the latest.
Busy(n) == \E a \in Admins : AdminIs(a, "invalidate") /\ admin[a].n = n
UpToDate ==
  \A n \in Present \ overlapped :
    Busy(n) \/ (cache[n] \in {NoClient, row[n].ver} /\ Holding(n) = {})

Edits == Fresh /\ UpToDate

LEMMA EditsAdmin ==
  ASSUME Types, Named, Edits, NEW a \in Admins, AdminStep(a)
  PROVE  Edits'
<1>t. /\ row \in [Nodes -> NodeRow] /\ cache \in [Nodes -> Nat \cup {NoClient}]
      /\ admin \in [Admins -> AdminState] /\ op \in [Users -> OpState] /\ lab \in [Users -> LabRow]
      /\ \A n \in Present : n \in Nodes
  BY TypeFacts DEF Present
<1> USE DEF control, labs
\* Rows as they were, and no invalidation ends.
<1>1. ASSUME \A n \in Nodes : row'[n].state = row[n].state /\ row'[n].ver = row[n].ver,
             \A n \in Nodes : cache'[n] \in {cache[n], NoClient},
             op' = op, lab' = lab, overlapped' = overlapped,
             admin[a].pc # "invalidate",
             \A b \in Admins \ {a} : admin'[b] = admin[b]
      PROVE Edits'
  <2>1. Present' = Present /\ NewIds' = NewIds
    BY <1>1 DEF Present, NewIds
  <2>2. Fresh'
    BY <1>1, <2>1 DEF Edits, Fresh, NewIds
  <2>3. \A n \in Nodes : Busy(n) => Busy(n)'
    BY <1>1 DEF Busy, AdminIs
  <2>4. \A n \in Nodes : Holding(n)' = Holding(n)
    BY <1>1 DEF Holding
  <2> QED BY <1>t, <1>1, <2>1, <2>2, <2>3, <2>4 DEF Edits, UpToDate
<1>2. \A b \in Admins \ {a} : admin'[b] = admin[b]
  BY <1>t DEF AdminStep, PostNode, PatchNode, Arrive, PingNode, DeleteNode, ClearDefaults, InsertNode, InsertFails,
              UpdateNode, InvalidateNode, RemoveNode, Goto, Done
<1>3. ASSUME NEW n \in Nodes, NEW body \in Bodies,
             PostNode(a, n, body) \/ PatchNode(a, n, body) \/ PingNode(a, n) \/ DeleteNode(a, n)
      PROVE Edits'
  BY <1>t, <1>1, <1>2, <1>3 DEF PostNode, PatchNode, PingNode, DeleteNode, AdminIs
<1>4. ASSUME NEW n \in Nodes, PingNode(a, n) \/ DeleteNode(a, n) PROVE Edits'
  BY <1>t, <1>1, <1>2, <1>4 DEF PingNode, DeleteNode, AdminIs
<1>5. CASE ClearDefaults(a)
  <2>1. \A n \in Nodes : row'[n].state = row[n].state /\ row'[n].ver = row[n].ver
    BY <1>t, <1>5 DEF ClearDefaults, NodeRow
  <2> QED BY <1>1, <1>2, <1>5, <2>1 DEF ClearDefaults
<1>6. CASE InsertFails(a)
  BY <1>1, <1>2, <1>6 DEF InsertFails, AdminIs
<1>7. CASE InsertNode(a)
  <2>1. PICK k \in NewIds : k = admin[a].n
    BY <1>7 DEF InsertNode
  <2>2. /\ k \in Nodes /\ \A n \in Nodes \ {k} : row'[n] = row[n]
        /\ row'[k].state = "present" /\ UNCHANGED <<cache, op, lab, overlapped>>
        /\ admin[a].pc # "invalidate"
    BY <1>t, <1>7, <2>1 DEF InsertNode, NewRow, NewIds, AdminIs
  <2>3. NewIds' \subseteq NewIds /\ Present' \subseteq Present \cup {k}
    BY <2>2 DEF NewIds, Present
  <2>4. cache[k] = NoClient /\ Holding(k)' = {}
    BY <2>1, <2>2 DEF Edits, Fresh, Holding, Builds
  <2>5. Fresh'
    BY <2>2, <2>3 DEF Edits, Fresh
  <2>6. \A n \in Nodes : Busy(n) => Busy(n)'
    BY <1>2, <2>2 DEF Busy, AdminIs
  <2>7. \A n \in Nodes \ {k} : Holding(n)' = Holding(n)
    BY <2>2 DEF Holding
  <2> QED BY <1>t, <2>2, <2>3, <2>4, <2>5, <2>6, <2>7 DEF Edits, UpToDate
<1>8. CASE UpdateNode(a)
  <2>1. CASE admin[a].n \notin Present
    BY <1>1, <1>2, <1>8, <2>1 DEF UpdateNode, AdminIs
  <2>2. CASE admin[a].n \in Present
    <3>1. PICK k \in Nodes : k = admin[a].n
      BY <2>2 DEF Present
    <3>2. /\ \A n \in Nodes \ {k} : row'[n] = row[n]
          /\ row'[k].state = row[k].state /\ row[k].state = "present"
          /\ UNCHANGED <<cache, op, lab, overlapped>>
          /\ admin'[a].pc = "invalidate" /\ admin'[a].n = k /\ admin[a].pc # "invalidate"
      BY <1>t, <1>8, <2>2, <3>1 DEF UpdateNode, Goto, AdminIs, AdminState, NodeRow, Present
    <3>3. NewIds' = NewIds /\ Present' = Present
      BY <3>2 DEF NewIds, Present
    <3>4. Busy(k)' /\ \A n \in Nodes : Busy(n) => Busy(n)'
      BY <1>2, <3>2 DEF Busy, AdminIs
    <3>5. \A n \in Nodes \ {k} : Holding(n)' = Holding(n)
      BY <3>2 DEF Holding
    <3>6. Fresh'
      BY <3>2, <3>3 DEF Edits, Fresh
    <3> QED BY <1>t, <3>2, <3>3, <3>4, <3>5, <3>6 DEF Edits, UpToDate
  <2> QED BY <2>1, <2>2
<1>9. CASE InvalidateNode(a)
  <2>1. PICK k \in Nodes : k = admin[a].n
    BY <1>9 DEF InvalidateNode, AdminIs, Named
  <2>2. /\ cache' = [cache EXCEPT ![k] = NoClient] /\ UNCHANGED <<row, op, lab>>
        /\ overlapped' = IF Holding(k) # {} THEN overlapped \cup {k} ELSE overlapped \ {k}
    BY <1>9, <2>1 DEF InvalidateNode
  <2>3. /\ NewIds' = NewIds /\ Present' = Present
        /\ \A n : Holding(n)' = Holding(n)
    BY <2>2 DEF NewIds, Present, Holding
  <2>4. Fresh'
    BY <1>t, <2>2, <2>3 DEF Edits, Fresh, NewIds
  <2>5. \A n \in Nodes \ {k} : Busy(n) => Busy(n)'
    BY <1>2, <2>1 DEF Busy, AdminIs
  <2>6. k \notin overlapped' => cache'[k] = NoClient /\ Holding(k)' = {}
    BY <1>t, <2>2, <2>3
  <2>7. \A n \in Nodes \ {k} : cache'[n] = cache[n] /\ (n \in overlapped' <=> n \in overlapped)
    BY <1>t, <2>2
  <2> QED BY <1>t, <2>2, <2>3, <2>4, <2>5, <2>6, <2>7 DEF Edits, UpToDate
<1>10. CASE RemoveNode(a)
  <2>1. CASE admin[a].n \notin Present
    BY <1>1, <1>2, <1>10, <2>1 DEF RemoveNode, AdminIs
  <2>2. CASE admin[a].n \in Present
    <3>1. PICK k \in Nodes : k = admin[a].n
      BY <2>2 DEF Present
    <3>2. /\ \A n \in Nodes \ {k} : row'[n] = row[n]
          /\ row'[k].state = "gone" /\ row[k].state = "present"
          /\ lab' = [u \in Users |-> IF lab[u].node = k THEN [lab[u] EXCEPT !.node = NoNode] ELSE lab[u]]
          /\ UNCHANGED <<cache, op, overlapped>>
          /\ admin[a].pc # "invalidate"
      BY <1>t, <1>10, <2>2, <3>1 DEF RemoveNode, AdminIs, NoRow, Present
    <3>3. /\ NewIds' = NewIds /\ Present' \subseteq Present /\ k \notin Present'
          /\ \A n \in Nodes : Busy(n) => Busy(n)'
      BY <1>2, <3>2 DEF NewIds, Present, Busy, AdminIs
    <3>4. \A n \in Nodes \ {k} : Holding(n)' = Holding(n)
      BY <3>2 DEF Holding
    <3>5. \A u \in Users : lab'[u].node = lab[u].node \/ lab'[u].node = NoNode
      BY <1>t, <3>2 DEF LabRow
    <3>6. Fresh'
      BY <3>2, <3>3, <3>5, Constants DEF Edits, Fresh, NewIds
    <3> QED BY <1>t, <3>2, <3>3, <3>4, <3>6 DEF Edits, UpToDate
  <2> QED BY <2>1, <2>2
<1> QED BY <1>3, <1>4, <1>5, <1>6, <1>7, <1>8, <1>9, <1>10 DEF AdminStep

LEMMA EditsLab ==
  ASSUME Types, Edits, NEW u \in Users, LabStep(u)
  PROVE  Edits'
<1>t. /\ row \in [Nodes -> NodeRow] /\ cache \in [Nodes -> Nat \cup {NoClient}]
      /\ op \in [Users -> OpState] /\ lab \in [Users -> LabRow]
      /\ \A n \in Present : n \in Nodes
  BY TypeFacts DEF Present
<1> USE DEF control, labs
<1>0. /\ UNCHANGED <<row, admin, overlapped>> /\ Present' = Present /\ NewIds' = NewIds
      /\ \A n : Busy(n)' = Busy(n)
  BY DEF LabStep, Choose, CreateRow, DestroyReads, GetRuntime, BuildClient, BuildFails, StartContainer, MarksReady,
         ProvisionFails, CleanupEnds, Terminate, Sweep, CleansUp, MarksFailed,
         Present, NewIds, Busy, AdminIs
\* The lab's operation holds the row it held before, the latest, or none.
<1>1. ASSUME cache' = cache,
             \A v \in Users \ {u} : op'[v] = op[v] /\ lab'[v] = lab[v],
             lab'[u].node \in {lab[u].node, op[u].n, NoNode},
             lab'[u].node = op[u].n => op[u].pc # "idle" \/ lab'[u].node = lab[u].node \/ op[u].n = NoNode,
             \/ op'[u].pc = "idle"
             \/ /\ op'[u].n = op[u].n /\ op'[u].ver = op[u].ver /\ op[u].pc # "idle"
                /\ Builds(op'[u]) => Builds(op[u])
             \/ op'[u].n \in Present /\ op'[u].ver = row[op'[u].n].ver
             \/ op'[u].n = NoNode
      PROVE Edits'
  <2>1. op'[u] \in OpState
    BY <1>t, TypeLab, TypeFacts DEF Types, OpState
  <2>2. Fresh'
    BY <1>0, <1>1, <2>1, Constants DEF Edits, Fresh, OpState, Present, NewIds
  <2>3. \A n \in Nodes : Holding(n) = {} => Holding(n)' = {}
    <3>1. op'[u].pc = "idle" => ~Builds(op'[u])
      BY DEF Builds
    <3> QED BY <1>0, <1>1, <3>1, Constants DEF Holding
  <2> QED BY <1>t, <1>0, <1>1, <2>2, <2>3 DEF Edits, UpToDate
<1>2. CASE Choose(u)
  <2>1. \/ op'[u].n \in Present /\ op'[u].ver = row[op'[u].n].ver
        \/ op'[u].n = NoNode
    <3>1. ASSUME NEW n \in Present,
                 op' = [op EXCEPT ![u] = [IdleOp EXCEPT !.pc = "chosen", !.n = n, !.ver = row[n].ver]]
          PROVE op'[u].n = n /\ op'[u].ver = row[n].ver
      <4>1. op'[u] = [IdleOp EXCEPT !.pc = "chosen", !.n = n, !.ver = row[n].ver]
        BY <1>t, <3>1
      <4> QED BY <4>1 DEF IdleOp
    <3>2. ASSUME op' = [op EXCEPT ![u] = [IdleOp EXCEPT !.pc = "chosen"]] PROVE op'[u].n = NoNode
      BY <1>t, <3>2 DEF IdleOp
    <3> QED BY <1>2, <3>1, <3>2 DEF Choose
  <2>2. lab' = lab /\ cache' = cache /\ \A v \in Users \ {u} : op'[v] = op[v]
    BY <1>t, <1>2 DEF Choose
  <2> QED BY <1>1, <2>1, <2>2
<1>3. CASE CreateRow(u)
  <2>1. /\ op[u].pc = "chosen" /\ cache' = cache
        /\ \/ lab'[u].node = op[u].n /\ op'[u].n = op[u].n /\ op'[u].ver = op[u].ver
           \/ lab' = lab /\ op'[u].pc = "idle"
        /\ \A v \in Users \ {u} : op'[v] = op[v] /\ lab'[v] = lab[v]
    BY <1>t, <1>3 DEF CreateRow, IdleOp, OpState
  <2> QED BY <1>1, <2>1 DEF Builds
<1>4. CASE DestroyReads(u)
  <2>1. /\ op'[u].n = lab[u].node /\ op'[u].ver = VersionRead(lab[u].node)
        /\ lab' = lab /\ cache' = cache /\ \A v \in Users \ {u} : op'[v] = op[v]
    BY <1>t, <1>4 DEF DestroyReads
  <2>2. Fresh'
    BY <1>0, <2>1 DEF Edits, Fresh
  <2>3. \A n \in Nodes : Holding(n) = {} => Holding(n)' = {}
    BY <1>0, <2>1, Constants DEF Holding, VersionRead
  <2> QED BY <1>t, <1>0, <2>1, <2>2, <2>3 DEF Edits, UpToDate
<1>5. CASE GetRuntime(u)
  <2>1. /\ op[u].pc = "created" /\ op'[u].n = op[u].n /\ op'[u].ver = op[u].ver
        /\ lab' = lab /\ cache' = cache /\ \A v \in Users \ {u} : op'[v] = op[v]
    BY <1>t, <1>5 DEF GetRuntime, OpState
  <2> QED BY <1>1, <2>1 DEF Builds
<1>6. CASE BuildClient(u)
  <2>1. PICK k : k = op[u].n
    OBVIOUS
  <2>2. /\ op[u].pc = "building" /\ op'[u].n = op[u].n /\ op'[u].ver = op[u].ver /\ op'[u].pc = "call"
        /\ op'[u].kind = op[u].kind
        /\ lab' = lab /\ cache' = [cache EXCEPT ![k] = op[u].ver] /\ \A v \in Users \ {u} : op'[v] = op[v]
    BY <1>t, <1>6, <2>1 DEF BuildClient, OpState
  <2>3. Fresh'
    BY <1>t, <1>0, <2>1, <2>2 DEF Edits, Fresh, NewIds
  <2>4. \A n \in Nodes : Holding(n) = {} => Holding(n)' = {}
    BY <1>0, <2>2 DEF Holding, Builds
  <2>5. k \in Nodes /\ Holding(k) = {} => cache'[k] = row[k].ver
    BY <1>t, <2>1, <2>2 DEF Holding, Builds
  <2>6. \A n \in Nodes : n # k => cache'[n] = cache[n]
    BY <1>t, <2>2
  <2> QED BY <1>t, <1>0, <2>2, <2>3, <2>4, <2>5, <2>6 DEF Edits, UpToDate
<1>7. ASSUME \/ CleansUp(u) /\ op[u].kind = "provision" /\ lab' = lab
             \/ MarksFailed(u)
             \/ op' = [op EXCEPT ![u] = IdleOp] /\ lab' = lab,
             cache' = cache, op[u].pc # "idle"
      PROVE Edits'
  <2>1. CASE CleansUp(u) /\ op[u].kind = "provision" /\ lab' = lab
    <3>1. op'[u].n = op[u].n /\ op'[u].ver = op[u].ver /\ \A v \in Users \ {u} : op'[v] = op[v]
      BY <1>t, <2>1 DEF CleansUp, OpState
    <3> QED BY <1>1, <1>7, <2>1, <3>1 DEF Builds
  <2>2. CASE op' = [op EXCEPT ![u] = IdleOp] /\ (lab' = lab \/ lab' = [lab EXCEPT ![u] = NoLab])
    <3>1. /\ op'[u].pc = "idle" /\ \A v \in Users \ {u} : op'[v] = op[v]
          /\ lab' = lab \/ (lab'[u].node = NoNode /\ \A v \in Users \ {u} : lab'[v] = lab[v])
      BY <1>t, <2>2 DEF NoLab, IdleOp
    <3> QED BY <1>1, <1>7, <3>1
  <2> QED BY <1>7, <2>1, <2>2 DEF MarksFailed
<1>9. CASE BuildFails(u) \/ ProvisionFails(u) \/ CleanupEnds(u)
  <2>1. CASE BuildFails(u)
    BY <1>7, <2>1 DEF BuildFails
  <2>2. CASE ProvisionFails(u)
    <3>1. lab' = lab /\ cache' = cache /\ CleansUp(u) /\ op[u].kind = "provision" /\ op[u].pc # "idle"
      BY <2>2 DEF ProvisionFails
    <3> QED BY <1>7, <3>1
  <2>3. CASE CleanupEnds(u)
    BY <1>7, <2>3 DEF CleanupEnds
  <2> QED BY <1>9, <2>1, <2>2, <2>3
<1>10. CASE StartContainer(u)
  <2>1. /\ op'[u].n = op[u].n /\ op'[u].ver = op[u].ver /\ op[u].kind = "provision" /\ op[u].pc = "call"
        /\ lab' = lab /\ cache' = cache /\ \A v \in Users \ {u} : op'[v] = op[v]
    BY <1>t, <1>10 DEF StartContainer, OpState
  <2> QED BY <1>1, <2>1 DEF Builds
<1>11. CASE MarksReady(u)
  <2>1. /\ op'[u].pc = "idle" /\ cache' = cache /\ op[u].pc = "started" /\ lab'[u].node = op[u].n
        /\ \A v \in Users \ {u} : op'[v] = op[v] /\ lab'[v] = lab[v]
    BY <1>t, <1>11 DEF MarksReady, IdleOp
  <2> QED BY <1>1, <2>1
<1>8. CASE Terminate(u) \/ Sweep(u)
  <2>1. CASE Terminate(u)
    <3>1. op'[u] = IdleOp /\ cache' = cache /\ lab'[u].node = NoNode /\ op[u].pc # "idle"
          /\ \A v \in Users \ {u} : op'[v] = op[v] /\ lab'[v] = lab[v]
      BY <1>t, <2>1 DEF Terminate, NoLab
    <3> QED BY <1>1, <3>1 DEF IdleOp
  <2>2. CASE Sweep(u)
    <3>1. op' = op /\ cache' = cache /\ lab' = lab
      BY <2>2 DEF Sweep
    <3> QED BY <1>t, <1>0, <3>1 DEF Edits, Fresh, UpToDate, Holding
  <2> QED BY <1>8, <2>1, <2>2
<1> QED BY <1>2, <1>3, <1>4, <1>5, <1>6, <1>8, <1>9, <1>10, <1>11 DEF LabStep

LEMMA EditsWorld ==
  ASSUME Types, Edits, NEW n \in Nodes, HealthStep(n) \/ Age(n) \/ Move(n)
  PROVE  Edits'
<1>t. cache \in [Nodes -> Nat \cup {NoClient}]
  BY TypeFacts
<1>1. UNCHANGED <<row, admin, overlapped, op, lab>> /\ \A k \in Nodes : cache'[k] \in {cache[k], NoClient}
  BY <1>t DEF HealthStep, PollLists, PollAnswers, Age, Move, control, labs
<1>2. Present' = Present /\ NewIds' = NewIds /\ \A k : Holding(k)' = Holding(k) /\ Busy(k)' = Busy(k)
  BY <1>1 DEF Present, NewIds, Holding, Busy, AdminIs
<1>3. Fresh'
  BY <1>1, <1>2 DEF Edits, Fresh, NewIds
<1> QED BY <1>1, <1>2, <1>3 DEF Edits, UpToDate, Present

LEMMA EditsRestart ==
  ASSUME Types, Edits, Restart
  PROVE  Edits'
<1>t. row \in [Nodes -> NodeRow] /\ lab \in [Users -> LabRow]
  BY TypeFacts
<1>1. PICK local \in IF LocalNodes # {} THEN LocalNodes ELSE NewIds :
         /\ row' = IF LocalNodes # {} THEN row
                   ELSE [row EXCEPT ![local] = NewRow(TRUE, TRUE, TRUE, good[local])]
         /\ lab' = [u \in Users |-> IF lab[u].status \in Live /\ lab[u].node = NoNode
                                    THEN [lab[u] EXCEPT !.node = local] ELSE lab[u]]
  BY DEF Restart
<1>2. /\ \A n \in Nodes : cache'[n] = NoClient
      /\ \A u \in Users : op'[u].pc = "idle"
  BY DEF Restart, IdleOp
<1>3. \A u \in Users : lab'[u].node \in {lab[u].node, local}
  BY <1>t, <1>1 DEF LabRow
<1>4. local \in Nodes /\ row'[local].state # "new" /\ \A n \in Nodes \ {local} : row'[n] = row[n]
  BY <1>t, <1>1 DEF LocalNodes, Present, NewIds, NewRow
<1>5. Fresh'
  BY <1>2, <1>3, <1>4 DEF Edits, Fresh, NewIds
<1>6. \A n : Holding(n)' = {}
  BY <1>2 DEF Holding, Builds
<1>7. UpToDate'
  BY <1>2, <1>6 DEF UpToDate, Present
<1> QED BY <1>5, <1>7 DEF Edits

\* After an edit of a node the next operation gets a client with the new
\* settings, unless one was under way with the old row: such an operation may
\* still put a client made from the old row into the cache (getNodeRuntime),
\* and so may a provision that fails, when it cleans up.
THEOREM PickUp == Spec => []EditIsPickedUp
<1>1. Init => Edits
  <2> SUFFICES ASSUME Init PROVE Edits OBVIOUS
  <2>1. /\ \A n \in Nodes : cache[n] = NoClient
        /\ \A u \in Users : lab[u].node = NoNode /\ op[u].pc = "idle"
    BY DEF Init, NoLab, IdleOp
  <2> QED BY <2>1, Constants DEF Edits, Fresh, UpToDate, Holding, Builds, NewIds, Present
<1>2. Types /\ Edits /\ UNCHANGED vars => Edits'
  BY DEF vars, control, labs, Edits, Fresh, UpToDate, Holding, NewIds, Present, Busy, AdminIs
<1>3. Types /\ Named /\ Edits /\ [Next]_vars => Edits'
  <2>1. \A n \in Watched : n \in Nodes
    BY Constants
  <2>2. ASSUME Edits, NEW path, Rotate(path) PROVE Edits'
    BY <2>2 DEF Rotate, control, labs, Edits, Fresh, UpToDate, Holding, NewIds, Present, Busy, AdminIs
  <2> QED BY <1>2, <2>1, <2>2, EditsAdmin, EditsLab, EditsWorld, EditsRestart DEF Next
<1>4. Edits => EditIsPickedUp
  BY DEF Edits, UpToDate, Busy, EditIsPickedUp
<1> QED BY <1>1, <1>3, <1>4, TypesHold, PTL DEF Spec

-----------------------------------------------------------------------------
(* Orphaned containers                                                     *)

\* A container belongs to the lab that is up on its node, and to its operation.
Owned(u) ==
  /\ box[u] # NoNode /\ u \notin excused => lab[u].status = "ready" /\ lab[u].node = box[u]
  /\ op[u].pc \notin {"idle", "started"} /\ op[u].kind = "provision" => box[u] = NoNode
  /\ op[u].pc = "started" => u \in excused /\ box[u] = op[u].n /\ op[u].kind = "provision"
  /\ op[u].pc # "idle" /\ op[u].kind = "cleanup" /\ box[u] # NoNode => u \in excused
  /\ op[u].pc # "idle" /\ op[u].kind = "destroy" /\ box[u] # NoNode /\ u \notin excused => op[u].n = box[u]
  /\ op[u].pc = "chosen" => op[u].kind = "provision"
AllOwned == \A u \in Users : Owned(u)

LEMMA OwnedStep ==
  ASSUME Types, AllOwned, [Next]_vars
  PROVE  AllOwned'
<1>t. /\ op \in [Users -> OpState] /\ lab \in [Users -> LabRow]
      /\ box \in [Users -> Nodes \cup {NoNode}] /\ excused \subseteq Users
  BY TypeFacts
<1> SUFFICES ASSUME NEW v \in Users PROVE Owned(v)'
  BY DEF AllOwned
<1>o. Owned(v)
  BY DEF AllOwned
<1> USE DEF control, labs
<1>1. CASE UNCHANGED <<op, lab, box, excused>>
  BY <1>o, <1>1 DEF Owned
<1>2. ASSUME NEW a \in Admins, RemoveNode(a) PROVE Owned(v)'
  <2>1. op' = op /\ box' = box /\ excused \subseteq excused'
    BY <1>2 DEF RemoveNode
  <2>2. lab'[v] = lab[v] \/ (lab[v].status = "ready" => v \in excused')
    BY <1>t, <1>2 DEF RemoveNode, On, Live
  <2> QED BY <1>o, <2>1, <2>2 DEF Owned
<1>3. CASE Restart
  <2>1. /\ op'[v].pc = "idle" /\ box' = box /\ excused' = excused
    BY <1>3 DEF Restart, IdleOp
  <2>2. lab[v].node # NoNode => lab'[v] = lab[v]
    BY <1>t, <1>3 DEF Restart
  <2> QED BY <1>o, <2>1, <2>2 DEF Owned
<1>4. ASSUME NEW u \in Users, LabStep(u) PROVE Owned(v)'
  <2>1. CASE v # u
    <3>1. UNCHANGED <<op[v], lab[v], box[v]>> /\ (v \in excused' <=> v \in excused)
      BY <1>t, <1>4, <2>1 DEF LabStep, Choose, CreateRow, DestroyReads, GetRuntime, BuildClient, BuildFails, StartContainer, MarksReady,
                             ProvisionFails, CleanupEnds, Terminate, Sweep, CleansUp, MarksFailed
    <3> QED BY <1>o, <3>1 DEF Owned
  <2>2. CASE v = u
    <3>1. CASE Choose(u)
      <4>0. ASSUME NEW n \in Present,
                   op' = [op EXCEPT ![u] = [IdleOp EXCEPT !.pc = "chosen", !.n = n, !.ver = row[n].ver]]
            PROVE op'[u].kind = "provision" /\ op'[u].pc = "chosen"
        <5>1. op'[u] = [IdleOp EXCEPT !.pc = "chosen", !.n = n, !.ver = row[n].ver]
          BY <1>t, <4>0
        <5> QED BY <5>1 DEF IdleOp
      <4>2. op' = [op EXCEPT ![u] = [IdleOp EXCEPT !.pc = "chosen"]]
              => op'[u].kind = "provision" /\ op'[u].pc = "chosen"
        BY <1>t DEF IdleOp
      <4>1. box'[u] = NoNode /\ op'[u].kind = "provision" /\ op'[u].pc = "chosen"
        BY <3>1, <4>0, <4>2 DEF Choose
      <4> QED BY <2>2, <4>1 DEF Owned
    <3>2. CASE CreateRow(u)
      <4>1. UNCHANGED <<box, excused>> /\ op[u].pc = "chosen"
            /\ op'[u].pc \in {"idle", "created"} /\ (op'[u].pc = "created" => op'[u].kind = op[u].kind)
        BY <1>t, <3>2 DEF CreateRow, IdleOp, OpState
      <4>2. op[u].kind = "provision" /\ box[u] = NoNode
        BY <1>o, <2>2, <4>1 DEF Owned
      <4> QED BY <2>2, <4>1, <4>2 DEF Owned
    <3>3. CASE DestroyReads(u)
      <4>1. /\ UNCHANGED <<lab, box, excused>>
            /\ op'[u].kind = "destroy" /\ op'[u].n = lab[u].node /\ op'[u].pc = "created"
        BY <1>t, <3>3 DEF DestroyReads
      <4> QED BY <1>o, <2>2, <4>1 DEF Owned
    <3>4. CASE GetRuntime(u) \/ BuildClient(u)
      <4>1. lab' = lab /\ box' = box /\ excused' = excused /\ op[u].pc \in {"created", "building"}
        BY <3>4 DEF GetRuntime, BuildClient
      <4>2. op'[u].kind = op[u].kind /\ op'[u].n = op[u].n /\ op'[u].pc \in {"building", "call"}
        <5>1. CASE GetRuntime(u)
          BY <1>t, <5>1 DEF GetRuntime, OpState
        <5>2. CASE BuildClient(u)
          BY <1>t, <5>2 DEF BuildClient, OpState
        <5> QED BY <3>4, <5>1, <5>2
      <4> QED BY <1>o, <2>2, <4>1, <4>2 DEF Owned
    <3>5. CASE BuildFails(u) \/ ProvisionFails(u) \/ CleanupEnds(u)
      <4>1. /\ box' = box /\ excused' = excused /\ op[u].pc # "idle"
            /\ \/ op'[u].pc = "idle" /\ op[u].kind = "cleanup"
               \/ op'[u].pc = "idle" /\ lab' = lab
               \/ op'[u].pc = "created" /\ op'[u].kind = "cleanup" /\ lab' = lab /\ op[u].kind = "provision"
        BY <1>t, <3>5 DEF BuildFails, ProvisionFails, CleanupEnds, CleansUp, MarksFailed, IdleOp, OpState
      <4> QED BY <1>o, <2>2, <4>1 DEF Owned
    <3>8. CASE StartContainer(u)
      <4>1. /\ box'[u] = op[u].n /\ u \in excused' /\ op[u].kind = "provision"
            /\ op'[u].pc = "started" /\ op'[u].kind = op[u].kind /\ op'[u].n = op[u].n
        BY <1>t, <3>8 DEF StartContainer, OpState
      <4> QED BY <2>2, <4>1 DEF Owned
    <3>9. CASE MarksReady(u)
      <4>1. /\ box' = box /\ op[u].pc = "started" /\ op'[u].pc = "idle"
            /\ lab'[u].status = "ready" /\ lab'[u].node = op[u].n
        BY <1>t, <3>9 DEF MarksReady, IdleOp
      <4> QED BY <1>o, <2>2, <4>1 DEF Owned
    <3>6. CASE Terminate(u)
      <4>1. op'[u].pc = "idle" /\ op[u].kind = "destroy" /\ op[u].pc = "call" /\ excused \subseteq excused'
        BY <1>t, <3>6 DEF Terminate, IdleOp
      <4>2. \/ box'[u] = (IF box[u] = op[u].n THEN NoNode ELSE box[u])
            \/ u \in excused'
            \/ box'[u] = box[u] /\ (lab[u].status # "ready" \/ op[u].n = NoNode)
        BY <1>t, <3>6 DEF Terminate
      <4> QED BY <1>o, <2>2, <4>1, <4>2 DEF Owned
    <3>7. CASE Sweep(u)
      <4>1. op' = op /\ op[u].pc = "idle" /\ box'[u] = NoNode
        BY <1>t, <3>7 DEF Sweep
      <4> QED BY <2>2, <4>1 DEF Owned
    <3> QED BY <1>4, <3>1, <3>2, <3>3, <3>4, <3>5, <3>6, <3>7, <3>8, <3>9 DEF LabStep
  <2> QED BY <2>1, <2>2
<1>5. ASSUME NEW a \in Admins, AdminStep(a), ~RemoveNode(a) PROVE UNCHANGED <<op, lab, box, excused>>
  BY <1>5 DEF AdminStep, PostNode, PatchNode, PingNode, DeleteNode, ClearDefaults, InsertNode, InsertFails,
              UpdateNode, InvalidateNode
<1>6. (\E n \in Watched : HealthStep(n) \/ Age(n) \/ Move(n)) \/ (\E path \in read : Rotate(path))
        \/ UNCHANGED vars => UNCHANGED <<op, lab, box, excused>>
  BY DEF HealthStep, PollLists, PollAnswers, Age, Move, Rotate, vars
<1> QED BY <1>1, <1>2, <1>3, <1>4, <1>5, <1>6 DEF Next

\* A lab that has ended left no container behind, unless its provision did not
\* get as far as the update that names the container, the destroy of it failed
\* on the host, or its node was deleted between the count and the row's
\* creation: otherwise the row names the host of its container, and the
\* destroy that read the row goes there.
THEOREM NothingLeft == Spec => []NoOrphan
<1>1. Init => AllOwned
  BY DEF Init, AllOwned, Owned, IdleOp
<1>2. AllOwned => NoOrphan
  BY DEF AllOwned, Owned, NoOrphan
<1> QED BY <1>1, <1>2, OwnedStep, TypesHold, PTL DEF Spec

-----------------------------------------------------------------------------
(* Default nodes                                                           *)

\* A request that is about to clear the other defaults sets its own.
Clears == \A a \in Admins : admin[a].pc \in {"clear_create", "clear_patch"} => SetsDefault(a)

LEMMA PendingIsSmall ==
  ASSUME NEW f \in [Admins -> Nodes \cup {NoNode}], NEW A \in SUBSET Admins
  PROVE  IsFiniteSet({f[a] : a \in A}) /\ Cardinality({f[a] : a \in A}) <= Cardinality(Admins)
<1> DEFINE g == [a \in A |-> f[a]]
           T == {f[a] : a \in A}
<1>1. g \in Surjection(A, T)
  BY DEF Surjection
<1>2. IsFiniteSet(A) /\ Cardinality(A) <= Cardinality(Admins)
  BY AdminsAssumption, FS_Subset
<1>3. IsFiniteSet(T) /\ Cardinality(T) <= Cardinality(A)
  BY <1>1, <1>2, FS_Surjection
<1>4. Cardinality(T) \in Nat /\ Cardinality(A) \in Nat /\ Cardinality(Admins) \in Nat
  BY <1>2, <1>3, AdminsAssumption, FS_CardinalityType
<1> QED BY <1>2, <1>3, <1>4

Sized == Cardinality(Defaults \cup Pending) <= Cardinality(Admins) + restarts

\* The defaults and those to come, after a step that makes no new default.
LEMMA NoMore ==
  ASSUME Types, Sized, (Defaults \cup Pending)' \subseteq Defaults \cup Pending, restarts' = restarts
  PROVE  Sized'
<1>1. IsFiniteSet(Defaults \cup Pending)
  <2>1. Defaults \cup Pending \subseteq Nodes \cup {NoNode}
    BY TypeFacts DEF Defaults, Pending, AdminState
  <2>2. IsFiniteSet(Nodes \cup {NoNode})
    BY NodesAssumption, FS_AddElement
  <2> QED BY <2>1, <2>2, FS_Subset
<1>2. /\ Cardinality((Defaults \cup Pending)') <= Cardinality(Defaults \cup Pending)
      /\ IsFiniteSet((Defaults \cup Pending)')
  BY <1>1, FS_Subset
<1>3. /\ Cardinality((Defaults \cup Pending)') \in Nat /\ Cardinality(Defaults \cup Pending) \in Nat
      /\ Cardinality(Admins) \in Nat /\ restarts \in Nat
  BY <1>1, <1>2, AdminsAssumption, FS_CardinalityType, TypeFacts
<1> QED BY <1>2, <1>3 DEF Sized

LEMMA SizedAdmin ==
  ASSUME Types, Named, Clears, Sized, NEW a \in Admins, AdminStep(a)
  PROVE  Clears' /\ Sized'
<1>t. /\ row \in [Nodes -> NodeRow] /\ admin \in [Admins -> AdminState] /\ restarts' = restarts
  BY TypeFacts DEF AdminStep, PostNode, PatchNode, PingNode, DeleteNode, ClearDefaults, InsertNode, InsertFails,
              UpdateNode, InvalidateNode, RemoveNode
<1> USE DEF control, labs
<1> DEFINE Due(b) == SetsDefault(b) /\ admin[b].pc \in {"create", "patch"}
<1>p. Pending = {admin[b].n : b \in {c \in Admins : Due(c)}}
  BY DEF Pending
\* A request arrives, or ends, or goes on to a write of another kind.
<1>1. ASSUME Defaults' \subseteq Defaults \cup Pending, \A b \in Admins \ {a} : admin'[b] = admin[b],
             Due(a)' => Due(a) /\ admin'[a].n = admin[a].n,
             admin'[a].pc \in {"clear_create", "clear_patch"} => SetsDefault(a)'
      PROVE Clears' /\ Sized'
  <2>1. Clears'
    BY <1>1 DEF Clears, SetsDefault
  <2>2. \A b \in Admins : Due(b)' => Due(b) /\ admin'[b].n = admin[b].n
    BY <1>1 DEF SetsDefault
  <2>3. Pending' \subseteq Pending
    BY <2>2 DEF Pending
  <2> QED BY <1>1, <1>t, <2>1, <2>3, NoMore
<1>2. \A b \in Admins \ {a} : admin'[b] = admin[b]
  BY <1>t DEF AdminStep, PostNode, PatchNode, Arrive, PingNode, DeleteNode, ClearDefaults, InsertNode, InsertFails,
              UpdateNode, InvalidateNode, RemoveNode, Goto, Done
<1>3. ASSUME NEW n \in Nodes, NEW body \in Bodies, PostNode(a, n, body) \/ PatchNode(a, n, body)
      PROVE Clears' /\ Sized'
  <2>1. PICK clear \in {"clear_create", "clear_patch"}, write \in {"create", "patch"} :
           Arrive(a, n, body, clear, write) /\ row' = row
    BY <1>3 DEF PostNode, PatchNode
  <2>2. /\ admin'[a].body = body
        /\ admin'[a].pc = IF TRUE \in body.default THEN clear ELSE write
    BY <1>t, <2>1 DEF Arrive
  <2>3. SetsDefault(a)' <=> TRUE \in body.default
    BY <2>2 DEF SetsDefault
  <2>4. Defaults' = Defaults
    BY <2>1 DEF Defaults
  <2>5. CASE TRUE \in body.default
    BY <1>1, <1>2, <2>2, <2>3, <2>4, <2>5
  <2>6. CASE TRUE \notin body.default
    BY <1>1, <1>2, <2>2, <2>3, <2>4, <2>6
  <2> QED BY <2>5, <2>6
<1>4. ASSUME Done(a) PROVE ~Due(a)' /\ admin'[a].pc = "idle"
  BY <1>t, <1>4 DEF Done, IdleAdmin
<1>5. ASSUME NEW n \in Nodes, PingNode(a, n) \/ DeleteNode(a, n) PROVE Clears' /\ Sized'
  <2>1. CASE UNCHANGED admin
    <3>1. row' = row
      BY <1>5 DEF PingNode, DeleteNode
    <3> QED BY <1>1, <1>t, <2>1, <3>1 DEF Defaults, SetsDefault, Clears
  <2>2. CASE admin' = [admin EXCEPT ![a] = [IdleAdmin EXCEPT !.pc = "delete", !.n = n]]
    <3>1. admin'[a].pc = "delete"
      BY <1>t, <2>2 DEF IdleAdmin
    <3>2. row' = row
      BY <1>5 DEF PingNode, DeleteNode
    <3> QED BY <1>1, <1>2, <3>1, <3>2 DEF Defaults
  <2> QED BY <1>5, <2>1, <2>2 DEF PingNode, DeleteNode
\* Only the defaults to come are left, and the row that is to be patched.
<1>6. CASE ClearDefaults(a)
  <2>1. /\ admin[a].pc \in {"clear_create", "clear_patch"} /\ SetsDefault(a)
        /\ admin'[a].pc \in {"create", "patch"} /\ admin'[a].n = admin[a].n /\ admin'[a].body = admin[a].body
    BY <1>t, <1>6 DEF ClearDefaults, Clears, Goto, AdminState
  <2>2. Due(a)'
    BY <2>1 DEF SetsDefault
  <2>3. Defaults' \subseteq {admin[a].n}
    BY <1>t, <1>6 DEF ClearDefaults, Defaults, NodeRow
  <2>4. Defaults' \subseteq Pending'
    BY <2>1, <2>2, <2>3 DEF Pending
  <2>5. PICK f \in [Admins -> Nodes \cup {NoNode}] : \A b \in Admins : f[b] = admin'[b].n
    <3>1. \A b \in Admins : admin'[b].n \in Nodes \cup {NoNode}
      BY <1>t, <1>2, <2>1 DEF AdminState
    <3>2. [b \in Admins |-> admin'[b].n] \in [Admins -> Nodes \cup {NoNode}]
      BY <3>1
    <3> QED BY <3>2
  <2>6. Pending' = {f[b] : b \in {c \in Admins : Due(c)'}}
    BY <2>5 DEF Pending
  <2>7. Cardinality(Pending') <= Cardinality(Admins) /\ IsFiniteSet(Pending')
    BY <2>6, PendingIsSmall
  <2>8. (Defaults \cup Pending)' = Pending'
    BY <2>4
  <2>9. Cardinality(Pending') \in Nat /\ Cardinality(Admins) \in Nat /\ restarts \in Nat
    BY <2>7, AdminsAssumption, FS_CardinalityType, TypeFacts
  <2>10. Sized'
    <3>1. Cardinality((Defaults \cup Pending)') = Cardinality(Pending')
      BY <2>8
    <3> QED BY <1>t, <2>7, <2>9, <3>1 DEF Sized
  <2>11. Clears'
    BY <1>2, <2>1 DEF Clears, SetsDefault
  <2> QED BY <2>10, <2>11
<1>7. CASE InsertNode(a)
  <2>1. /\ admin[a].pc = "create" /\ admin[a].n \in Nodes
        /\ row' = [row EXCEPT ![admin[a].n] =
             NewRow(FALSE, TRUE \in admin[a].body.enabled, SetsDefault(a), good[admin[a].n])]
    BY <1>7 DEF InsertNode, AdminIs, NewIds
  <2>2. PICK k \in Nodes : k = admin[a].n
    BY <2>1
  <2>3. row'[k].default = SetsDefault(a) /\ \A n \in Nodes \ {k} : row'[n] = row[n]
    BY <1>t, <2>1, <2>2 DEF NewRow
  <2>4. SetsDefault(a) => k \in Pending
    BY <2>1, <2>2 DEF Pending
  <2>5. Defaults' \subseteq Defaults \cup Pending
    BY <2>3, <2>4 DEF Defaults
  <2> QED BY <1>1, <1>2, <1>4, <1>7, <2>5 DEF InsertNode
<1>8. CASE InsertFails(a)
  <2>1. Defaults' = Defaults
    BY <1>8 DEF InsertFails, Defaults
  <2> QED BY <1>1, <1>2, <1>4, <1>8, <2>1 DEF InsertFails
<1>9. CASE UpdateNode(a)
  <2>1. CASE admin[a].n \notin Present
    <3>1. Defaults' = Defaults /\ Done(a)
      BY <1>9, <2>1 DEF UpdateNode, Defaults
    <3> QED BY <1>1, <1>2, <1>4, <3>1
  <2>2. CASE admin[a].n \in Present
    <3>1. PICK k \in Nodes : k = admin[a].n
      BY <2>2 DEF Present
    <3>2. /\ row'[k].default = Written(admin[a].body.default, row[k].default)
          /\ \A n \in Nodes \ {k} : row'[n] = row[n]
          /\ admin[a].pc = "patch" /\ admin'[a].pc = "invalidate"
      BY <1>t, <1>9, <2>2, <3>1 DEF UpdateNode, Goto, AdminIs, AdminState, NodeRow
    <3>3. SetsDefault(a) => k \in Pending
      BY <3>1, <3>2 DEF Pending
    <3>4. ~SetsDefault(a) /\ row'[k].default = TRUE => row[k].default = TRUE
      <4>1. CASE admin[a].body.default = {}
        BY <3>2, <4>1 DEF Written
      <4>2. CASE admin[a].body.default # {}
        <5>1. Written(admin[a].body.default, row[k].default) <=> TRUE \in admin[a].body.default
          BY <4>2 DEF Written
        <5> QED BY <3>2, <5>1 DEF SetsDefault
      <4> QED BY <4>1, <4>2
    <3>5. row[k].default \in BOOLEAN /\ row'[k].default \in BOOLEAN
      BY <1>t, <3>2, FlagTypes DEF NodeRow
    <3>6. Defaults' \subseteq Defaults \cup Pending
      BY <3>2, <3>3, <3>4, <3>5 DEF Defaults
    <3> QED BY <1>1, <1>2, <3>2, <3>6
  <2> QED BY <2>1, <2>2
<1>10. CASE InvalidateNode(a)
  <2>1. Defaults' = Defaults
    BY <1>10 DEF InvalidateNode, Defaults
  <2> QED BY <1>1, <1>2, <1>4, <1>10, <2>1 DEF InvalidateNode
<1>11. CASE RemoveNode(a)
  <2>1. Defaults' \subseteq Defaults
    BY <1>t, <1>11 DEF RemoveNode, Defaults, NoRow
  <2>2. admin'[a].pc \in {"idle", "invalidate"}
    BY <1>t, <1>11 DEF RemoveNode, Goto, Done, IdleAdmin, AdminState
  <2> QED BY <1>1, <1>2, <2>1, <2>2
<1> QED BY <1>3, <1>5, <1>6, <1>7, <1>8, <1>9, <1>10, <1>11 DEF AdminStep

LEMMA SizedRestart ==
  ASSUME Types, Sized, Restart
  PROVE  Clears' /\ Sized'
<1>t. row \in [Nodes -> NodeRow] /\ restarts \in Nat
  BY TypeFacts
<1>1. Clears' /\ Pending' = {}
  BY DEF Restart, Clears, Pending, IdleAdmin
<1>2. PICK local \in Nodes : \A n \in Nodes \ {local} : row'[n] = row[n]
  <2>1. PICK local \in IF LocalNodes # {} THEN LocalNodes ELSE NewIds :
           row' = IF LocalNodes # {} THEN row
                  ELSE [row EXCEPT ![local] = NewRow(TRUE, TRUE, TRUE, good[local])]
    BY DEF Restart
  <2>2. local \in Nodes
    BY <2>1 DEF LocalNodes, Present, NewIds
  <2> QED BY <1>t, <2>1, <2>2
<1>3. (Defaults \cup Pending)' \subseteq Defaults \cup {local}
  BY <1>1, <1>2 DEF Defaults
<1>4. IsFiniteSet(Defaults \cup Pending)
  <2>1. Defaults \cup Pending \subseteq Nodes \cup {NoNode}
    BY TypeFacts DEF Defaults, Pending, AdminState
  <2> QED BY <2>1, NodesAssumption, FS_AddElement, FS_Subset
<1>5. IsFiniteSet(Defaults) /\ Cardinality(Defaults) <= Cardinality(Defaults \cup Pending)
  BY <1>4, FS_Subset
<1>6. IsFiniteSet(Defaults \cup {local}) /\ Cardinality(Defaults \cup {local}) <= Cardinality(Defaults) + 1
  <2>1. Cardinality(Defaults) \in Nat
    BY <1>5, FS_CardinalityType
  <2>2. /\ IsFiniteSet(Defaults \cup {local})
        /\ Cardinality(Defaults \cup {local}) = IF local \in Defaults THEN Cardinality(Defaults)
                                               ELSE Cardinality(Defaults) + 1
    BY <1>5, FS_AddElement
  <2> QED BY <2>1, <2>2
<1>7. IsFiniteSet((Defaults \cup Pending)')
      /\ Cardinality((Defaults \cup Pending)') <= Cardinality(Defaults \cup {local})
  BY <1>3, <1>6, FS_Subset
<1>8. /\ Cardinality((Defaults \cup Pending)') \in Nat /\ Cardinality(Defaults \cup {local}) \in Nat
      /\ Cardinality(Defaults) \in Nat /\ Cardinality(Defaults \cup Pending) \in Nat /\ Cardinality(Admins) \in Nat
  BY <1>4, <1>5, <1>6, <1>7, AdminsAssumption, FS_CardinalityType
<1>9. restarts' = restarts + 1
  BY DEF Restart
<1> QED BY <1>t, <1>1, <1>5, <1>6, <1>7, <1>8, <1>9 DEF Sized

\* Rows flagged default never outnumber the requests that write the flag and
\* the seeds that bring 'local' back: a request clears the other flags before
\* it sets its own, so what is left is what requests are still to write.
THEOREM Bounded == Spec => []DefaultsAreBounded
<1>1. Init => Clears /\ Sized
  <2> SUFFICES ASSUME Init PROVE Clears /\ Sized OBVIOUS
  <2>1. Clears /\ Pending = {}
    BY DEF Init, Clears, Pending, IdleAdmin
  <2>2. Defaults = {FirstNode}
    BY Constants DEF Init, Defaults, NewRow, NoRow
  <2>3. Defaults \cup Pending = {FirstNode}
    BY <2>1, <2>2
  <2>4. Cardinality({FirstNode}) = 1
    BY FS_Singleton
  <2>5. Cardinality(Admins) \in Nat /\ Cardinality(Admins) # 0
    BY AdminsAssumption, FS_CardinalityType, FS_EmptySet
  <2>6. restarts = 0
    BY DEF Init
  <2> QED BY <2>1, <2>3, <2>4, <2>5, <2>6 DEF Sized
<1>2. Types /\ Named /\ Clears /\ Sized /\ [Next]_vars => Clears' /\ Sized'
  <2>1. ASSUME NEW u \in Users, LabStep(u) PROVE UNCHANGED <<row, admin, restarts>>
    BY <2>1 DEF LabStep, Choose, CreateRow, DestroyReads, GetRuntime, BuildClient, BuildFails, StartContainer, MarksReady,
                ProvisionFails, CleanupEnds, Terminate, Sweep, CleansUp, MarksFailed, control
  <2>2. (\E n \in Watched : HealthStep(n) \/ Age(n) \/ Move(n)) \/ (\E path \in read : Rotate(path))
          \/ UNCHANGED vars => UNCHANGED <<row, admin, restarts>>
    BY DEF HealthStep, PollLists, PollAnswers, Age, Move, Rotate, vars, control
  <2>3. Clears /\ Sized /\ UNCHANGED <<row, admin, restarts>> => Clears' /\ Sized'
    BY DEF Clears, Sized, Defaults, Pending, SetsDefault
  <2> QED BY <2>1, <2>2, <2>3, SizedAdmin, SizedRestart DEF Next
<1>3. Sized => DefaultsAreBounded
  BY DEF Sized, DefaultsAreBounded
<1> QED BY <1>1, <1>2, <1>3, TypesHold, PTL DEF Spec
=============================================================================
