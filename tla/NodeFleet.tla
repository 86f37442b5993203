------------------------------ MODULE NodeFleet ------------------------------
(***************************************************************************)
(* The Node rows and what depends on them: the platform routes that        *)
(* create, edit, test and delete nodes (routes/platform.ts), the cache of  *)
(* Docker clients (runtime/nodes.ts), the health loop (nodeHealth.ts), the *)
(* seed that runs at every start (prisma/seed.ts), and the operations on   *)
(* labs that read a Node row first and use its client later.  The awaits   *)
(* between a read and its use, and between a write and the invalidation    *)
(* that follows it, are steps of their own.                                *)
(*                                                                         *)
(* The connection settings of a node are a version number; `good` is the   *)
(* version that reaches the host at present.  Settings may name an SSH key *)
(* file, which the process reads once and keeps by its path; when the file *)
(* and the hosts get another key, what it keeps opens no host any more.    *)
(***************************************************************************)
EXTENDS Integers, FiniteSets

CONSTANTS
  Nodes,        \* bound: ids of all Node rows ever created
  FirstNode,    \* the id the seed of a fresh install gave the node 'local'
  Bodies,       \* bodies of POST and PATCH requests
  Admins,       \* platform requests in flight at once
  Watched,      \* bound: the nodes whose hosts move and whose pings are followed
  PathOf(_, _), \* the key file that a version of a node's settings names, or NoKey
  Users,        \* labs, each with at most one operation in flight
  MaxMoves,     \* bound: changes of a host's address or credentials
  MaxRestarts,  \* bound: restarts of the control plane
  NoNode        \* null nodeId

ASSUME NodesAssumption == IsFiniteSet(Nodes) /\ FirstNode \in Nodes /\ NoNode \notin Nodes
                             /\ Watched \subseteq Nodes
ASSUME AdminsAssumption == IsFiniteSet(Admins) /\ Admins # {}
ASSUME BoundsAssumption == MaxMoves \in Nat /\ MaxRestarts \in Nat

VARIABLES
  row,        \* Node rows
  good,       \* per node, the version of the settings that works
  pinged,     \* nodes pinged within the cutoff (Node.lastSeenAt)
  cache,      \* runtimeCache: settings version of the cached client
  read,       \* sshKeyCache: the key files read by this process
  stale,      \* ... those of them that hold another key by now
  admin,      \* platform requests
  poll,       \* the ping of each node by the health loop
  op,         \* the operation on each lab
  lab,        \* LabInstance rows
  box,        \* the host that runs the lab's container
  restarts,
  overlapped, \* history: nodes edited while an operation held the old row
  excused     \* history: labs whose container no row may find, see NoOrphan

control == <<admin, poll, op>>
labs == <<lab, box, excused>>
keys == <<read, stale>>
vars == <<row, good, pinged, cache, keys, admin, poll, op, lab, box, restarts, overlapped, excused>>

NoClient == -1
NoKey == "none"   \* a local node, or a password
NoRow == [state |-> "gone", local |-> FALSE, enabled |-> FALSE, default |-> FALSE, ver |-> 0]
NoLab == [status |-> "none", node |-> NoNode]
\* A field of a request's body: {} when it is absent.
Field == {{}, {TRUE}, {FALSE}}
Written(f, old) == IF f = {} THEN old ELSE TRUE \in f

\* The form sends every field, the buttons Drain, Re-enable and Make default one.
Form == [default: {{TRUE}, {FALSE}}, enabled: {{TRUE}, {FALSE}}, connection: {TRUE}]
Button == [default: {{}}, enabled: {{TRUE}, {FALSE}}, connection: {FALSE}]
          \cup [default: {{TRUE}}, enabled: {{}}, connection: {FALSE}]
ASSUME BodiesAssumption == Bodies \subseteq Form \cup Button

NoBody == [default |-> {}, enabled |-> {}, connection |-> FALSE]
IdleAdmin == [pc |-> "idle", n |-> NoNode, body |-> NoBody]
IdleOp == [pc |-> "idle", kind |-> "provision", n |-> NoNode, ver |-> 0, client |-> NoClient]
IdlePoll == [pc |-> "idle", ver |-> 0]

Present == {n \in Nodes : row[n].state = "present"}
NewIds == {n \in Nodes : row[n].state = "new"}      \* ids are never given twice
LocalNodes == {n \in Present : row[n].local}          \* name = 'local', unique
Live == {"provisioning", "ready"}

NewRow(local, enabled, default, ver) ==
  [state |-> "present", local |-> local, enabled |-> enabled, default |-> default, ver |-> ver]

\* The state after the seed of a fresh install.
Init ==
  /\ row = [n \in Nodes |-> IF n = FirstNode THEN NewRow(TRUE, TRUE, TRUE, 0)
                            ELSE [NoRow EXCEPT !.state = "new"]]
  /\ good = [n \in Nodes |-> 0]
  /\ pinged = {}
  /\ cache = [n \in Nodes |-> NoClient] /\ read = {} /\ stale = {}
  /\ admin = [a \in Admins |-> IdleAdmin]
  /\ poll = [n \in Nodes |-> IdlePoll]
  /\ op = [u \in Users |-> IdleOp]
  /\ lab = [u \in Users |-> NoLab]
  /\ box = [u \in Users |-> NoNode]
  /\ restarts = 0
  /\ overlapped = {}
  /\ excused = {}
-----------------------------------------------------------------------------
(* POST, PATCH and DELETE /platform/nodes, POST /platform/nodes/:id/ping.  *)

AdminIs(a, pc) == admin[a].pc = pc
Done(a) == admin' = [admin EXCEPT ![a] = IdleAdmin]
Goto(a, pc) == admin' = [admin EXCEPT ![a].pc = pc]
Writing == {"clear_create", "create", "clear_patch", "patch"}

SetsDefault(a) == TRUE \in admin[a].body.default

\* A request arrives; its first write depends on isDefault.
Arrive(a, n, body, clear, write) ==
  admin' = [admin EXCEPT ![a] = [pc |-> IF TRUE \in body.default THEN clear ELSE write,
                                 n |-> n, body |-> body]]
PostNode(a, n, body) ==
  /\ AdminIs(a, "idle") /\ n \in NewIds
  /\ \A b \in Admins : admin[b].pc \in {"clear_create", "create"} => admin[b].n # n
  /\ Arrive(a, n, body, "clear_create", "create")
  /\ UNCHANGED <<row, good, pinged, cache, keys, poll, op, labs, restarts, overlapped>>
PatchNode(a, n, body) ==
  /\ AdminIs(a, "idle") /\ n \in Present
  /\ Arrive(a, n, body, "clear_patch", "patch")
  /\ UNCHANGED <<row, good, pinged, cache, keys, poll, op, labs, restarts, overlapped>>

\* updateMany: every other default is cleared, before the row is written.
ClearDefaults(a) ==
  /\ admin[a].pc \in {"clear_create", "clear_patch"}
  /\ row' = [n \in Nodes |-> IF AdminIs(a, "clear_patch") /\ n = admin[a].n THEN row[n]
                             ELSE [row[n] EXCEPT !.default = FALSE]]
  /\ Goto(a, IF AdminIs(a, "clear_patch") THEN "patch" ELSE "create")
  /\ UNCHANGED <<good, pinged, cache, keys, poll, op, labs, restarts, overlapped>>

\* The row is inserted, unless its name is taken.
InsertNode(a) ==
  /\ AdminIs(a, "create") /\ admin[a].n \in NewIds
  /\ row' = [row EXCEPT ![admin[a].n] =
       NewRow(FALSE, TRUE \in admin[a].body.enabled, SetsDefault(a), good[admin[a].n])]
  /\ Done(a)
  /\ UNCHANGED <<good, pinged, cache, keys, poll, op, labs, restarts, overlapped>>
InsertFails(a) ==
  /\ AdminIs(a, "create") /\ Done(a)
  /\ UNCHANGED <<row, good, pinged, cache, keys, poll, op, labs, restarts, overlapped>>

\* The form enters the settings that work now; a deleted row answers 404.
UpdateNode(a) ==
  LET n == admin[a].n
      body == admin[a].body IN
  /\ AdminIs(a, "patch")
  /\ IF n \in Present
     THEN /\ row' = [row EXCEPT ![n].default = Written(body.default, @),
                               ![n].enabled = Written(body.enabled, @),
                               ![n].ver = IF body.connection THEN good[n] ELSE @]
          /\ Goto(a, "invalidate")
     ELSE UNCHANGED row /\ Done(a)
  /\ UNCHANGED <<good, pinged, cache, keys, poll, op, labs, restarts, overlapped>>

\* Operations that may build a client of a row older than the one in the
\* table: a provision may do so again when it fails.
Builds(o) == o.pc \in {"chosen", "created", "building"} \/ (o.kind = "provision" /\ o.pc # "idle")
Holding(n) == {u \in Users : Builds(op[u]) /\ op[u].n = n /\ op[u].ver # row[n].ver}

\* Slip: the cached client survives the edit.
InvalidateNothing(a) ==
  /\ AdminIs(a, "invalidate")
  /\ Done(a)
  /\ UNCHANGED <<row, good, pinged, cache, keys, poll, op, labs, restarts, overlapped>>

\* The cached client is dropped; the keys that were read are kept.
InvalidateNode(a) ==
  /\ AdminIs(a, "invalidate")
  /\ cache' = [cache EXCEPT ![admin[a].n] = NoClient]
  /\ overlapped' = IF Holding(admin[a].n) # {} THEN overlapped \cup {admin[a].n}
                                               ELSE overlapped \ {admin[a].n}
  /\ Done(a)
  /\ UNCHANGED <<row, good, pinged, keys, poll, op, labs, restarts>>

\* buildDockerClient: a key file is read the first time it is needed.
ReadKey(n, ver) == read' = read \cup ({PathOf(n, ver)} \ {NoKey}) /\ UNCHANGED stale
\* Settings reach the host of a node when they are those that work, with the
\* key that is in the file.
Opens(n, ver) == ver = good[n] /\ PathOf(n, ver) \notin stale

\* "Test connection": pings on a client of its own.
PingNode(a, n) ==
  /\ AdminIs(a, "idle") /\ n \in Present
  /\ cache' = [cache EXCEPT ![n] = NoClient]
  /\ ReadKey(n, row[n].ver)
  /\ UNCHANGED <<row, good, pinged, control, labs, restarts, overlapped>>

\* Slip: only labs in creation count as users of a node.
OnCreating(n) == {u \in Users : lab[u].status = "provisioning" /\ lab[u].node = n}

\* The labs that keep a node from being deleted.
On(n) == {u \in Users : lab[u].status \in Live /\ lab[u].node = n}
DeleteNode(a, n) ==
  /\ AdminIs(a, "idle") /\ n \in Present
  /\ IF On(n) # {} THEN UNCHANGED admin
     ELSE admin' = [admin EXCEPT ![a] = [IdleAdmin EXCEPT !.pc = "delete", !.n = n]]
  /\ UNCHANGED <<row, good, pinged, cache, keys, poll, op, labs, restarts, overlapped>>

\* The row goes; the foreign keys of labs created since the count are nulled.
RemoveNode(a) ==
  LET n == admin[a].n IN
  /\ AdminIs(a, "delete")
  /\ IF n \in Present
     THEN /\ row' = [row EXCEPT ![n] = NoRow]
          /\ lab' = [u \in Users |-> IF lab[u].node = n THEN [lab[u] EXCEPT !.node = NoNode]
                                     ELSE lab[u]]
          /\ excused' = excused \cup On(n)
          /\ Goto(a, "invalidate")
     ELSE UNCHANGED <<row, lab, excused>> /\ Done(a)
  /\ pinged' = pinged \ {n}
  /\ UNCHANGED <<good, cache, keys, poll, op, box, restarts, overlapped>>
-----------------------------------------------------------------------------
(* The health loop.                                                        *)

\* Slip: nodes that are not seen any more are left out.
PollListsSeen(n) ==
  /\ poll[n].pc = "idle" /\ n \in pinged /\ row[n].enabled
  /\ poll' = [poll EXCEPT ![n] = [pc |-> "pinging", ver |-> row[n].ver]]
  /\ UNCHANGED <<row, good, pinged, cache, keys, admin, op, labs, restarts, overlapped>>

\* A tick reads the rows of the enabled nodes.
PollLists(n) ==
  /\ poll[n].pc = "idle" /\ n \in Present /\ row[n].enabled
  /\ poll' = [poll EXCEPT ![n] = [pc |-> "pinging", ver |-> row[n].ver]]
  /\ UNCHANGED <<row, good, pinged, cache, keys, admin, op, labs, restarts, overlapped>>

\* The ping opens a client of its own from the listed row, with the key that
\* was read for whatever client.  A failure drops the cached client; a row
\* deleted meanwhile makes both updates throw.
PollAnswers(n) ==
  /\ poll[n].pc = "pinging"
  /\ poll' = [poll EXCEPT ![n] = IdlePoll]
  /\ ReadKey(n, poll[n].ver)
  /\ \/ n \in Present /\ Opens(n, poll[n].ver)
        /\ pinged' = pinged \cup {n} /\ UNCHANGED cache
     \/ n \in Present /\ ~Opens(n, poll[n].ver)
        /\ cache' = [cache EXCEPT ![n] = NoClient] /\ UNCHANGED pinged
     \/ n \notin Present /\ UNCHANGED <<pinged, cache>>
  /\ UNCHANGED <<row, good, admin, op, labs, restarts, overlapped>>

\* The last successful ping gets older than NODE_HEALTH_STALE_SECONDS.
Age(n) ==
  /\ n \in pinged /\ pinged' = pinged \ {n}
  /\ UNCHANGED <<row, good, cache, keys, control, labs, restarts, overlapped>>
-----------------------------------------------------------------------------
(* Operations on labs.                                                     *)

\* A provision has read the row of an enabled node, or found none at all.
Choose(u) ==
  /\ op[u].pc = "idle" /\ lab[u].status = "none" /\ box[u] = NoNode
  /\ \/ \E n \in Present : row[n].enabled /\ op' = [op EXCEPT ![u] =
          [IdleOp EXCEPT !.pc = "chosen", !.n = n, !.ver = row[n].ver]]
     \/ /\ \A n \in Present : ~row[n].enabled
        /\ op' = [op EXCEPT ![u] = [IdleOp EXCEPT !.pc = "chosen"]]
  /\ UNCHANGED <<row, good, pinged, cache, keys, admin, poll, labs, restarts, overlapped>>

\* The foreign key rejects a node deleted since.
CreateRow(u) ==
  /\ op[u].pc = "chosen"
  /\ IF op[u].n \in Present \cup {NoNode}
     THEN /\ lab' = [lab EXCEPT ![u] = [status |-> "provisioning", node |-> op[u].n]]
          /\ op' = [op EXCEPT ![u].pc = "created"]
     ELSE op' = [op EXCEPT ![u] = IdleOp] /\ UNCHANGED lab
  /\ UNCHANGED <<row, good, pinged, cache, keys, admin, poll, box, excused, restarts, overlapped>>

\* The settings an operation reads with the node's row.
VersionRead(n) == IF n = NoNode THEN 0 ELSE row[n].ver

\* A destroy reads the lab and, if it has one, its node; ready or stuck.
DestroyReads(u) ==
  /\ op[u].pc = "idle" /\ lab[u].status \in Live
  /\ op' = [op EXCEPT ![u] = [pc |-> "created", kind |-> "destroy", n |-> lab[u].node,
                              ver |-> VersionRead(lab[u].node), client |-> NoClient]]
  /\ UNCHANGED <<row, good, pinged, cache, keys, admin, poll, labs, restarts, overlapped>>

\* getNodeRuntime: the cached client whatever the row says, else a new one.
GetRuntime(u) ==
  /\ op[u].pc = "created"
  /\ op' = [op EXCEPT ![u] =
       IF @.n = NoNode THEN [@ EXCEPT !.pc = "call"]
       ELSE IF cache[@.n] # NoClient THEN [@ EXCEPT !.pc = "call", !.client = cache[op[u].n]]
       ELSE [@ EXCEPT !.pc = "building"]]
  /\ UNCHANGED <<row, good, pinged, cache, keys, admin, poll, labs, restarts, overlapped>>
BuildClient(u) ==
  /\ op[u].pc = "building"
  /\ cache' = [cache EXCEPT ![op[u].n] = op[u].ver]
  /\ ReadKey(op[u].n, op[u].ver)
  /\ op' = [op EXCEPT ![u].pc = "call", ![u].client = op[u].ver]
  /\ UNCHANGED <<row, good, pinged, admin, poll, labs, restarts, overlapped>>

Reaches(u) == op[u].n # NoNode /\ Opens(op[u].n, op[u].client)

\* A provision that fails asks for the node's client once more, to clean up.
CleansUp(u) == op' = [op EXCEPT ![u].pc = "created", ![u].kind = "cleanup"]
\* The row is 'failed'.  No row has a runtimeId before the provision's end:
\* there is nothing for the clean-up to destroy.
MarksFailed(u) == op' = [op EXCEPT ![u] = IdleOp] /\ lab' = [lab EXCEPT ![u] = NoLab]

\* Settings that do not work may be such that no client can be built: no
\* host, no credentials, no key file.  A destroy ends there.
BuildFails(u) ==
  /\ op[u].pc = "building" /\ op[u].ver # good[op[u].n]
  /\ \/ op[u].kind = "provision" /\ CleansUp(u) /\ UNCHANGED lab
     \/ op[u].kind = "cleanup" /\ MarksFailed(u)
     \/ op[u].kind = "destroy" /\ op' = [op EXCEPT ![u] = IdleOp] /\ UNCHANGED lab
  /\ UNCHANGED <<row, good, pinged, cache, keys, admin, poll, box, excused, restarts, overlapped>>

\* The container runs, and no row says so yet.
StartContainer(u) ==
  /\ op[u].pc = "call" /\ op[u].kind = "provision" /\ Reaches(u)
  /\ op' = [op EXCEPT ![u].pc = "started"]
  /\ box' = [box EXCEPT ![u] = op[u].n] /\ excused' = excused \cup {u}
  /\ UNCHANGED <<row, good, pinged, cache, keys, admin, poll, lab, restarts, overlapped>>

\* The update to 'ready' names the node once more, and fails when it is gone.
MarksReady(u) ==
  /\ op[u].pc = "started" /\ op[u].n \in Present
  /\ op' = [op EXCEPT ![u] = IdleOp]
  /\ lab' = [lab EXCEPT ![u] = [status |-> "ready", node |-> op[u].n]]
  /\ excused' = excused \ {u}
  /\ UNCHANGED <<row, good, pinged, cache, keys, admin, poll, box, restarts, overlapped>>

\* The host does not answer, the image cannot be had, the container has no
\* port, Windows does not come up in time, the update fails.
ProvisionFails(u) ==
  /\ op[u].pc \in {"call", "started"} /\ op[u].kind = "provision" /\ CleansUp(u)
  /\ UNCHANGED <<row, good, pinged, cache, keys, admin, poll, labs, restarts, overlapped>>
CleanupEnds(u) ==
  /\ op[u].pc = "call" /\ op[u].kind = "cleanup" /\ MarksFailed(u)
  /\ UNCHANGED <<row, good, pinged, cache, keys, admin, poll, box, excused, restarts, overlapped>>

\* runtime.destroy, of a row with a runtimeId, is best effort: the row is
\* terminated all the same.
Terminate(u) ==
  /\ op[u].pc = "call" /\ op[u].kind = "destroy"
  /\ op' = [op EXCEPT ![u] = IdleOp]
  /\ lab' = [lab EXCEPT ![u] = NoLab]
  /\ \/ lab[u].status = "ready" /\ Reaches(u)
        /\ box' = [box EXCEPT ![u] = IF @ = op[u].n THEN NoNode ELSE @] /\ UNCHANGED excused
     \/ lab[u].status = "ready" /\ op[u].n # NoNode
        /\ excused' = excused \cup {u} /\ UNCHANGED box
     \/ (lab[u].status # "ready" \/ op[u].n = NoNode) /\ UNCHANGED <<box, excused>>
  /\ UNCHANGED <<row, good, pinged, cache, keys, admin, poll, restarts, overlapped>>
-----------------------------------------------------------------------------
(* The world.                                                              *)

\* A host moves or its credentials change.
Move(n) ==
  /\ good[n] < MaxMoves
  /\ good' = [good EXCEPT ![n] = @ + 1]
  /\ UNCHANGED <<row, pinged, cache, keys, control, labs, restarts, overlapped>>

\* Another key is put in a file that was read, and on the hosts.
Rotate(path) ==
  /\ path \in read \ stale /\ stale' = stale \cup {path}
  /\ UNCHANGED <<row, good, pinged, cache, read, control, labs, restarts, overlapped>>

\* An operator removes an orphaned container by hand.
Sweep(u) ==
  /\ op[u].pc = "idle" /\ lab[u].status = "none" /\ box[u] # NoNode
  /\ box' = [box EXCEPT ![u] = NoNode] /\ excused' = excused \ {u}
  /\ UNCHANGED <<row, good, pinged, cache, keys, control, lab, restarts, overlapped>>

\* A restart: requests, polls, clients and keys are gone; the seed brings the local
\* node back as a default and gives it the labs without a node.
Restart ==
  /\ restarts < MaxRestarts /\ restarts' = restarts + 1
  /\ \E local \in IF LocalNodes # {} THEN LocalNodes ELSE NewIds :
       /\ row' = IF LocalNodes # {} THEN row
                 ELSE [row EXCEPT ![local] = NewRow(TRUE, TRUE, TRUE, good[local])]
       /\ lab' = [u \in Users |-> IF lab[u].status \in Live /\ lab[u].node = NoNode
                                  THEN [lab[u] EXCEPT !.node = local] ELSE lab[u]]
  /\ cache' = [n \in Nodes |-> NoClient] /\ read' = {} /\ stale' = {}
  /\ admin' = [a \in Admins |-> IdleAdmin]
  /\ poll' = [n \in Nodes |-> IdlePoll]
  /\ op' = [u \in Users |-> IdleOp]
  /\ overlapped' = {}
  /\ UNCHANGED <<good, pinged, box, excused>>

HealthStep(n) == PollLists(n) \/ PollAnswers(n)
AdminStep(a) ==
  \/ \E n \in Nodes, body \in Bodies \cap Form : PostNode(a, n, body)
  \/ \E n \in Nodes, body \in Bodies : PatchNode(a, n, body)
  \/ \E n \in Nodes : PingNode(a, n) \/ DeleteNode(a, n)
  \/ ClearDefaults(a) \/ InsertNode(a) \/ InsertFails(a) \/ UpdateNode(a) \/ InvalidateNode(a) \/ RemoveNode(a)
LabStep(u) ==
  \/ Choose(u) \/ CreateRow(u) \/ DestroyReads(u) \/ GetRuntime(u) \/ BuildClient(u)
  \/ BuildFails(u) \/ StartContainer(u) \/ MarksReady(u) \/ ProvisionFails(u) \/ CleanupEnds(u)
  \/ Terminate(u) \/ Sweep(u)

Next ==
  \/ \E a \in Admins : AdminStep(a)
  \/ \E u \in Users : LabStep(u)
  \/ \E n \in Watched : HealthStep(n) \/ Age(n) \/ Move(n)
  \/ \E path \in read : Rotate(path)
  \/ Restart

Spec == Init /\ [][Next]_vars

\* The timer of the health loop keeps firing and every ping returns.
FairSpec == Spec /\ \A n \in Watched : WF_vars(HealthStep(n))
-----------------------------------------------------------------------------
\* The variables have their types.
TypeOK ==
  /\ row \in [Nodes -> [state: {"new", "present", "gone"}, local: BOOLEAN, enabled: BOOLEAN, default: BOOLEAN, ver: Nat]]
  /\ good \in [Nodes -> Nat]
  /\ pinged \subseteq Nodes
  /\ cache \in [Nodes -> Nat \cup {NoClient}]
  /\ admin \in [Admins -> [pc: {"idle", "invalidate", "delete"} \cup Writing,
                           n: Nodes \cup {NoNode}, body: Bodies \cup {NoBody}]]
  /\ poll \in [Nodes -> [pc: {"idle", "pinging"}, ver: Nat]]
  /\ stale \subseteq read /\ NoKey \notin read
  /\ op \in [Users -> [pc: {"idle", "chosen", "created", "building", "call", "started"},
                       kind: {"provision", "cleanup", "destroy"}, n: Nodes \cup {NoNode},
                       ver: Nat, client: Nat \cup {NoClient}]]
  /\ lab \in [Users -> [status: {"none"} \cup Live, node: Nodes \cup {NoNode}]]
  /\ box \in [Users -> Nodes \cup {NoNode}]
  /\ restarts \in Nat
  /\ overlapped \subseteq Nodes
  /\ excused \subseteq Users

Defaults == {n \in Nodes : row[n].default}
Pending == {admin[a].n : a \in {b \in Admins : SetsDefault(b) /\ admin[b].pc \in {"create", "patch"}}}

\* Rows flagged default never outnumber the requests that write the flag and
\* the seeds that bring 'local' back: one operator alone never makes two.
DefaultsAreBounded == Cardinality(Defaults \cup Pending) <= Cardinality(Admins) + restarts

\* After an edit was invalidated the next operation gets a client with the new
\* settings, unless an operation was under way with the old row (platform.ts:
\* 252-254).  The settings name a key file; that the client has the key that
\* is in the file is not said: sshKeyCache keeps the one it read (nodes.ts:104).
EditIsPickedUp ==
  \A n \in Present \ overlapped :
    cache[n] \in {NoClient, row[n].ver} \/ \E a \in Admins : AdminIs(a, "invalidate") /\ admin[a].n = n

\* A lab that has ended left no container behind, unless its provision did not
\* get from the container's start to the update that names it (orchestrator.
\* ts:599 finds no runtimeId), the destroy of it failed on the host, or its
\* node was deleted between the count and the row's creation.
NoOrphan == \A u \in Users : lab[u].status = "none" /\ box[u] # NoNode => u \in excused

\* An enabled node whose settings are good for good keeps being seen, however
\* pings of its earlier rows, deletions and restarts come in between; but not
\* while the process keeps a key of it that was replaced (nodes.ts:104-112).
RecoveredNodeIsSeen ==
  \A n \in Watched :
    <>[](n \in Present /\ row[n].enabled /\ Opens(n, row[n].ver)) => []<>(n \in pinged)

=============================================================================
