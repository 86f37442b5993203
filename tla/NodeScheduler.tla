---------------------------- MODULE NodeScheduler ----------------------------
(***************************************************************************)
(* Where a new lab lands: the sticky-volume probe of provisionNew          *)
(* (orchestrator.ts) and resolveNodeForProvision / pickLeastLoadedNode     *)
(* (runtime/nodes.ts).  Every query of Postgres and every probe of a       *)
(* Docker daemon is an action of its own, so requests interleave with each *)
(* other, with nodes that go down or are drained, and with the health loop *)
(* that moves Node.lastSeenAt.                                             *)
(*                                                                         *)
(* Nodes are numbered in the order of their names.  One tenant and one     *)
(* template; a slot is one student of it (or one lab without a volume:     *)
(* prewarm or linked clone) and has at most one lab at a time -- what two  *)
(* requests of one student do to each other is LabLifecycle's subject.     *)
(***************************************************************************)
EXTENDS Integers, FiniteSets

CONSTANTS
  Nodes,        \* Node rows, numbered by name
  Capacity,     \* capacityMax of each node, 0 for unlimited
  Slots,        \* students and stateless labs that may hold a lab
  Stateless,    \* the slots whose labs mount no volume
  Policies,     \* placement settings of the tenant, template and request
  MaxInFlight,  \* bound: provisions in flight at once
  MaxEvents     \* bound: outages, drains and restarts

NoNode == 0      \* null nodeId: the local Docker socket
Local == 0       \* ... which is a host of its own
NoHost == -1     \* the student has no files yet

ASSUME NodesAssumption == Nodes \subseteq Nat \ {0} /\ IsFiniteSet(Nodes)
ASSUME CapacityAssumption == Capacity \in [Nodes -> Nat]
ASSUME SlotsAssumption == IsFiniteSet(Slots) /\ Stateless \subseteq Slots
ASSUME InFlightAssumption == MaxInFlight \in Nat \ {0}

\* override: Launch.nodeIds; pin: Tenant.defaultNodeId ?? LabTemplate.defaultNodeId;
\* allowed: LabTemplate.allowedNodeIds; default: the Node with isDefault;
\* spread: config.LAB_SCHEDULER = 'spread'.
Policy == [override: SUBSET Nodes, pin: Nodes \cup {NoNode}, allowed: SUBSET Nodes,
           default: Nodes \cup {NoNode}, spread: BOOLEAN]
ASSUME PoliciesAssumption == Policies \subseteq Policy

VARIABLES
  policy,   \* the settings in force
  enabled,  \* nodes whose row is enabled
  reach,    \* nodes whose Docker daemon answers
  stale,    \* nodes whose lastSeenAt is older than the cutoff; null is not
  cursor,   \* rrCursor (pool {}) and rrCursorsByPool
  lab,      \* the latest LabInstance row of each slot
  prior,    \* nodeId of the slot's latest row that has one
  volumes,  \* hosts that hold the slot's Docker volume
  req,      \* the provision of each slot
  events,   \* outages, drains and restarts so far
  work,     \* history: the host the student's files are on
  blind,    \* history: slots whose files a probe could not see
  last      \* history: the latest ring pick of each pool

fleet == <<policy, enabled, reach, stale, events>>
ghosts == <<work, blind, last>>
vars == <<policy, enabled, reach, stale, cursor, lab, prior, volumes, req, events, work, blind, last>>

Hosts == Nodes \cup {Local}
Live == {"provisioning", "ready"}
NoLab == [status |-> "none", node |-> NoNode, pooled |-> FALSE]
Idle == [pc |-> "idle", left |-> {}, held |-> {}, pool |-> {}, cands |-> {},
         node |-> NoNode, pooled |-> FALSE, wide |-> FALSE, drained |-> {}]
InFlight == {s \in Slots : req[s].pc # "idle"}

Init ==
  /\ policy \in Policies
  /\ enabled = Nodes
  /\ reach = Nodes
  /\ stale = {}
  /\ cursor = [P \in SUBSET Nodes |-> 0]
  /\ lab = [s \in Slots |-> NoLab]
  /\ prior = [s \in Slots |-> NoNode]
  /\ volumes = [s \in Slots |-> {}]
  /\ req = [s \in Slots |-> Idle]
  /\ events = 0
  /\ work = [s \in Slots |-> NoHost]
  /\ blind = {}
  /\ last = [P \in SUBSET Nodes |-> [node |-> NoNode, cands |-> {}]]
-----------------------------------------------------------------------------
(* The sticky probe.                                                       *)

\* orderBy: [isDefault desc, name asc].
First(S) == IF policy.default \in S THEN policy.default
            ELSE CHOOSE n \in S : \A m \in S : n <= m

\* A provision begins: list the enabled nodes, unless the lab has no volume.
Start(s) ==
  /\ req[s].pc = "idle" /\ lab[s].status \notin Live
  /\ Cardinality(InFlight) < MaxInFlight
  /\ req' = [req EXCEPT ![s] =
       IF s \in Stateless THEN [Idle EXCEPT !.pc = "resolve"]
                          ELSE [Idle EXCEPT !.pc = "probe", !.left = enabled]]
  /\ blind' = IF work[s] # NoHost /\ work[s] \notin enabled
              THEN blind \cup {s} ELSE blind
  /\ UNCHANGED <<fleet, cursor, lab, prior, volumes, work, last>>

\* volumeExists on one node; a daemon that does not answer counts as "no".
Probe(s) ==
  /\ req[s].pc = "probe" /\ req[s].left # {}
  /\ LET n == First(req[s].left) IN
       /\ req' = [req EXCEPT ![s].left = @ \ {n},
                             ![s].held = IF n \in volumes[s] \cap reach THEN @ \cup {n} ELSE @]
       /\ blind' = IF n = work[s] /\ n \notin reach THEN blind \cup {s} ELSE blind
  /\ UNCHANGED <<fleet, cursor, lab, prior, volumes, work, last>>

\* Slip: the latest row is not asked, any holder will do.
HolderFirst(s) == First(req[s].held)

\* One holder wins; among several the node of the latest row, else the first.
Holder(s) == IF prior[s] \in req[s].held THEN prior[s] ELSE First(req[s].held)
ChooseHolder(s) ==
  /\ req[s].pc = "probe" /\ req[s].left = {}
  /\ req' = [req EXCEPT ![s] = IF @.held = {} THEN [@ EXCEPT !.pc = "resolve"]
                               ELSE [@ EXCEPT !.pc = "create", !.node = Holder(s)]]
  /\ UNCHANGED <<fleet, cursor, lab, prior, volumes, ghosts>>
-----------------------------------------------------------------------------
(* resolveNodeForProvision.                                                *)

Fail(s) == req' = [req EXCEPT ![s] = Idle]
Place(s, n) == req' = [req EXCEPT ![s].pc = "create", ![s].node = n]
Ask(s, pool) == req' = [req EXCEPT ![s].pc = "list", ![s].pool = pool]

\* The request's own nodes, then the pin, then the pool, then the default.
Resolve(s) ==
  /\ req[s].pc = "resolve"
  /\ \/ policy.override # {} /\ Ask(s, policy.override)
     \/ policy.override = {} /\ policy.pin # NoNode /\ policy.pin \notin enabled /\ Fail(s)
     \/ policy.override = {} /\ policy.pin # NoNode /\ policy.pin \in enabled /\ Place(s, policy.pin)
     \/ policy.override = {} /\ policy.pin = NoNode /\ policy.spread /\ Ask(s, policy.allowed)
     \/ /\ policy.override = {} /\ policy.pin = NoNode /\ ~policy.spread
        /\ req' = [req EXCEPT ![s].pc = "default"]
  /\ UNCHANGED <<fleet, cursor, lab, prior, volumes, ghosts>>

\* pickLeastLoadedNode returned null.
NoPick(s) ==
  IF policy.override = {} /\ policy.allowed # {} THEN Fail(s)
  ELSE req' = [req EXCEPT ![s].pc = IF req[s].wide THEN "only" ELSE "default"]

\* Slip: the query forgets that a node can be disabled.
EligibleDrained(pool) == {n \in Nodes \ stale : (pool = {} \/ n \in pool)}

\* Enabled nodes pinged within the cutoff, or never; {} as pool: no whitelist.
Eligible(pool) == {n \in enabled \ stale : (pool = {} \/ n \in pool)}
ListCandidates(s) ==
  /\ req[s].pc = "list"
  /\ IF Eligible(req[s].pool) = {} THEN NoPick(s)
     ELSE req' = [req EXCEPT ![s].pc = "count", ![s].cands = Eligible(req[s].pool)]
  /\ UNCHANGED <<fleet, cursor, lab, prior, volumes, ghosts>>

Load(n) == Cardinality({s \in Slots : lab[s].status \in Live /\ lab[s].node = n})
\* Slip: a full node passes for one with room.
WithRoomOffByOne(C) == {n \in C : Capacity[n] = 0 \/ Load(n) <= Capacity[n]}

WithRoom(C) == {n \in C : Capacity[n] = 0 \/ Load(n) < Capacity[n]}

\* Place of n in the ring of candidates C, and how far it is from the cursor.
Index(n, C) == Cardinality({m \in C : m < n})
Distance(n, C, at) == (Index(n, C) - at) % Cardinality(C)
NextInRing(C, at) ==
  CHOOSE n \in WithRoom(C) : \A m \in WithRoom(C) : Distance(n, C, at) <= Distance(m, C, at)

\* Slip: the cursor stays on the pick.
AdvanceNot(n, C) == Index(n, C)

\* Where the next walk starts.
Advance(n, C) == (Index(n, C) + 1) % Cardinality(C)

\* The loads arrive; the walk and the cursor move in one go.  A single
\* candidate is returned without touching the cursor.
Pick(s) ==
  /\ req[s].pc = "count"
  /\ LET C == req[s].cands
         pool == req[s].pool
         n == NextInRing(C, cursor[pool]) IN
     IF WithRoom(C) = {}
     THEN NoPick(s) /\ UNCHANGED <<cursor, last>>
     ELSE /\ req' = [req EXCEPT ![s].pc = "create", ![s].node = n, ![s].pooled = TRUE]
          /\ cursor' = IF Cardinality(C) = 1 THEN cursor
                       ELSE [cursor EXCEPT ![pool] = Advance(n, C)]
          /\ last' = [last EXCEPT ![pool] = [node |-> n, cands |-> C]]
  /\ UNCHANGED <<fleet, lab, prior, volumes, work, blind>>

\* The enabled default node; with an override, the whole fleet before giving up.
FindDefault(s) ==
  /\ req[s].pc = "default"
  /\ IF policy.default \in enabled THEN Place(s, policy.default)
     ELSE IF policy.override # {}
     THEN req' = [req EXCEPT ![s].pc = "list", ![s].pool = {}, ![s].wide = TRUE]
     ELSE req' = [req EXCEPT ![s].pc = "only"]
  /\ UNCHANGED <<fleet, cursor, lab, prior, volumes, ghosts>>

\* The only enabled node, or none: the local Docker socket.
FindOnly(s) ==
  /\ req[s].pc = "only"
  /\ IF Cardinality(enabled) = 1 THEN Place(s, CHOOSE n \in enabled : TRUE) ELSE Place(s, NoNode)
  /\ UNCHANGED <<fleet, cursor, lab, prior, volumes, ghosts>>
-----------------------------------------------------------------------------
(* The row and the container.                                              *)

CreateRow(s) ==
  /\ req[s].pc = "create"
  /\ lab' = [lab EXCEPT ![s] = [status |-> "provisioning", node |-> req[s].node,
                                pooled |-> req[s].pooled]]
  /\ prior' = IF req[s].node = NoNode THEN prior ELSE [prior EXCEPT ![s] = req[s].node]
  /\ req' = [req EXCEPT ![s] = [Idle EXCEPT !.pc = "provision"]]
  /\ UNCHANGED <<fleet, cursor, volumes, ghosts>>

Answers(h) == h = Local \/ h \in reach
HostOf(s) == lab[s].node

\* The student's volume is created on the row's host unless it is there.
EnsureVolume(s) ==
  volumes' = IF s \in Stateless THEN volumes ELSE [volumes EXCEPT ![s] = @ \cup {HostOf(s)}]

\* Volume and container succeed on the row's host.
Provision(s) ==
  /\ req[s].pc = "provision" /\ Answers(HostOf(s))
  /\ lab' = [lab EXCEPT ![s].status = "ready"]
  /\ req' = [req EXCEPT ![s] = Idle]
  /\ EnsureVolume(s)
  /\ work' = IF s \in Stateless \/ work[s] # NoHost THEN work ELSE [work EXCEPT ![s] = HostOf(s)]
  /\ UNCHANGED <<fleet, cursor, prior, blind, last>>

\* They fail, at once or after the volume: the row is marked failed.
ProvisionFails(s) ==
  /\ req[s].pc = "provision"
  /\ lab' = [lab EXCEPT ![s] = NoLab]
  /\ req' = [req EXCEPT ![s] = Idle]
  /\ UNCHANGED volumes \/ (Answers(HostOf(s)) /\ EnsureVolume(s))
  /\ UNCHANGED <<fleet, cursor, prior, ghosts>>

\* The lab ends: destroyed when ready, or reaped while stuck.
Terminate(s) ==
  /\ lab[s].status \in Live /\ req[s].pc = "idle"
  /\ lab' = [lab EXCEPT ![s] = NoLab]
  /\ UNCHANGED <<fleet, cursor, prior, volumes, req, ghosts>>
-----------------------------------------------------------------------------
(* Operators, outages, the health loop and restarts.                       *)

Event == events < MaxEvents /\ events' = events + 1

\* An operator drains a node (PATCH enabled = false) or takes it back.
Drain(n) ==
  /\ Event /\ n \in enabled
  /\ enabled' = enabled \ {n}
  /\ req' = [s \in Slots |-> IF req[s].pc = "idle" THEN req[s]
                             ELSE [req[s] EXCEPT !.drained = @ \cup {n}]]
  /\ UNCHANGED <<policy, reach, stale, cursor, lab, prior, volumes, ghosts>>
Undrain(n) ==
  /\ n \in Nodes \ enabled
  /\ enabled' = enabled \cup {n}
  /\ UNCHANGED <<policy, events, reach, stale, cursor, lab, prior, volumes, req, ghosts>>

GoesDown(n) ==
  /\ Event /\ n \in reach
  /\ reach' = reach \ {n}
  /\ UNCHANGED <<policy, enabled, stale, cursor, lab, prior, volumes, req, ghosts>>
ComesBack(n) ==
  /\ n \in Nodes \ reach
  /\ reach' = reach \cup {n}
  /\ UNCHANGED <<policy, enabled, events, stale, cursor, lab, prior, volumes, req, ghosts>>

\* A successful ping; lastSeenAt passes the cutoff when pings fail or stop.
Poll(n) ==
  /\ n \in enabled \cap reach \cap stale
  /\ stale' = stale \ {n}
  /\ UNCHANGED <<policy, enabled, reach, events, cursor, lab, prior, volumes, req, ghosts>>
Age(n) ==
  /\ n \notin (enabled \cap reach) \cup stale
  /\ stale' = stale \cup {n}
  /\ UNCHANGED <<policy, enabled, reach, events, cursor, lab, prior, volumes, req, ghosts>>

\* A restart of the control plane: cursors and requests are gone, rows stay.
Restart ==
  /\ Event
  /\ cursor' = [P \in SUBSET Nodes |-> 0]
  /\ last' = [P \in SUBSET Nodes |-> [node |-> NoNode, cands |-> {}]]
  /\ req' = [s \in Slots |-> Idle]
  /\ UNCHANGED <<policy, enabled, reach, stale, lab, prior, volumes, work, blind>>

Next ==
  \/ \E s \in Slots : \/ Start(s) \/ Probe(s) \/ ChooseHolder(s) \/ Resolve(s)
                      \/ ListCandidates(s) \/ Pick(s) \/ FindDefault(s) \/ FindOnly(s)
                      \/ CreateRow(s) \/ Provision(s) \/ ProvisionFails(s) \/ Terminate(s)
  \/ \E n \in Nodes : \/ Drain(n) \/ Undrain(n) \/ GoesDown(n) \/ ComesBack(n)
                      \/ Poll(n) \/ Age(n)
  \/ Restart

Spec == Init /\ [][Next]_vars
-----------------------------------------------------------------------------
Request == [pc: {"idle", "probe", "resolve", "list", "count", "default", "only", "create", "provision"},
            left: SUBSET Nodes, held: SUBSET Nodes, pool: SUBSET Nodes, cands: SUBSET Nodes,
            node: Hosts, pooled: BOOLEAN, wide: BOOLEAN, drained: SUBSET Nodes]

\* The variables have their types.
TypeOK ==
  /\ policy \in Policies
  /\ enabled \subseteq Nodes /\ reach \subseteq Nodes /\ stale \subseteq Nodes
  /\ cursor \in [SUBSET Nodes -> Nat]
  /\ lab \in [Slots -> [status: {"none"} \cup Live, node: Hosts, pooled: BOOLEAN]]
  /\ prior \in [Slots -> Hosts]
  /\ volumes \in [Slots -> SUBSET Hosts]
  /\ req \in [Slots -> Request]
  /\ events \in Nat
  /\ work \in [Slots -> Hosts \cup {NoHost}]
  /\ blind \subseteq Slots
  /\ last \in [SUBSET Nodes -> [node: Hosts, cands: SUBSET Nodes]]

\* The ring never puts more labs on a node than its capacity plus the other
\* provisions in flight: each of them may have counted before the rows of the
\* others existed (nodes.ts counts, orchestrator.ts creates the row later).
Pooled(n) == {s \in Slots : lab[s].status \in Live /\ lab[s].node = n /\ lab[s].pooled}
Chosen(n) == {s \in Slots : req[s].pc = "create" /\ req[s].node = n /\ req[s].pooled}
OvershootIsBounded ==
  \A n \in Nodes : Capacity[n] > 0 =>
    Cardinality(Pooled(n)) + Cardinality(Chosen(n)) <= Capacity[n] + MaxInFlight - 1

\* A student whose files every probe could see gets a lab on the node that
\* holds them, whatever the pins, pools and loads are (orchestrator.ts:375).
WorkIsSticky ==
  \A s \in Slots \ Stateless :
    s \notin blind /\ work[s] # NoHost /\ lab[s].status \in Live => lab[s].node = work[s]

\* Concurrent picks from one list of candidates never hand out the same node
\* twice in a row while another one had room: the cursor is "immune to DB
\* races" (nodes.ts:281).
RingAdvances ==
  [][\A s \in Slots :
       LET pool == req[s].pool IN
       req[s].pc = "count" /\ req'[s].pc = "create" /\ req[s].cands = last[pool].cands
       /\ WithRoom(req[s].cands) # {last[pool].node}
         => req'[s].node # last[pool].node]_vars

\* A lab goes to a node that is enabled, or was when its provision began:
\* drained nodes accept no new provisions (schema.prisma:266).
DrainedGetsNothingNew ==
  [][\A s \in Slots :
       lab'[s].status = "provisioning" /\ lab[s].status # "provisioning"
         => lab'[s].node \in enabled \cup req[s].drained \cup {Local}]_vars

=============================================================================
