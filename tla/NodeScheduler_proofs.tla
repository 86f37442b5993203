------------------------- MODULE NodeScheduler_proofs -------------------------
(***************************************************************************)
(* Proofs about NodeScheduler, for any nodes, capacities, students and     *)
(* placement settings.                                                     *)
(***************************************************************************)
EXTENDS NodeScheduler, FiniteSetTheorems, WellFoundedInduction, TLAPS

-----------------------------------------------------------------------------
(* Choices *)

LEMMA Least ==
  ASSUME NEW S \in SUBSET Nat, S # {}
  PROVE  \E x \in S : \A y \in S : x <= y
<1>1. \E x \in S : \A y \in S : ~ (<<y, x>> \in OpToRel(<, Nat))
  BY NatLessThanWellFounded, WFMin
<1>2. \A x, y \in Nat : y < x => <<y, x>> \in OpToRel(<, Nat)
  BY DEF OpToRel
<1>3. PICK x \in S : \A y \in S : ~ (<<y, x>> \in OpToRel(<, Nat))
  BY <1>1
<1>4. ASSUME NEW y \in S PROVE x <= y
  <2>1. x \in Nat /\ y \in Nat /\ ~(y < x)
    BY <1>2, <1>3
  <2> QED BY <2>1
<1> QED BY <1>4

LEMMA FirstIsOne ==
  ASSUME NEW S \in SUBSET Nodes, S # {}
  PROVE  First(S) \in S
<1>1. S \in SUBSET Nat
  BY NodesAssumption
<1>2. \E n \in S : \A m \in S : n <= m
  BY <1>1, Least
<1> QED BY <1>2 DEF First

LEMMA OneMember == ASSUME NEW S, Cardinality(S) = 1 PROVE S # {}
<1>1. Cardinality({}) = 0
  BY FS_EmptySet
<1>2. ASSUME S = {} PROVE FALSE
  <2>1. Cardinality(S) = Cardinality({})
    BY <1>2, Zenon
  <2> QED BY <1>1, <2>1
<1> QED BY <1>2

\* A remainder is less than what is divided by.
LEMMA Remainder ==
  ASSUME NEW k \in Nat, k > 0
  PROVE  /\ \A a \in Int : a % k \in 0 .. (k - 1)
         /\ \A a \in 0 .. (k - 1) : a % k = a
         /\ \A a \in (-k) .. (-1) : a % k = a + k
         /\ k % k = 0
OBVIOUS

\* The place of a node in a ring is its own.
LEMMA IndexTypes ==
  ASSUME NEW C \in SUBSET Nodes, NEW n \in C
  PROVE  /\ IsFiniteSet(C) /\ Cardinality(C) \in Nat /\ Cardinality(C) > 0
         /\ Index(n, C) \in 0 .. (Cardinality(C) - 1)
         /\ \A m \in C : m # n => Index(m, C) # Index(n, C)
<1>1. IsFiniteSet(C) /\ Cardinality(C) \in Nat /\ C \subseteq Nat
  BY NodesAssumption, FS_Subset, FS_CardinalityType
<1> DEFINE Before(x) == {m \in C : m < x}
<1>2. ASSUME NEW x \in C PROVE /\ IsFiniteSet(Before(x)) /\ Cardinality(Before(x)) \in Nat
                               /\ Cardinality(Before(x)) < Cardinality(C)
  <2>1. Before(x) \in SUBSET C /\ x \notin Before(x)
    BY <1>1
  <2>2. IsFiniteSet(Before(x)) /\ Cardinality(Before(x)) <= Cardinality(C) /\ Before(x) # C
        /\ (Cardinality(C) = Cardinality(Before(x)) => C = Before(x))
    BY <1>1, <2>1, FS_Subset
  <2>3. Cardinality(Before(x)) \in Nat
    BY <2>2, FS_CardinalityType
  <2> HIDE DEF Before
  <2> QED BY <1>1, <2>2, <2>3
<1>3. ASSUME NEW x \in C, NEW y \in C, x < y PROVE Cardinality(Before(x)) < Cardinality(Before(y))
  <2>1. Before(x) \in SUBSET Before(y) /\ x \in Before(y) /\ x \notin Before(x)
    <3>1. x \in Nat /\ y \in Nat
      BY <1>1
    <3>2. \A m \in C : m \in Nat
      BY <1>1
    <3>3. \A m \in C : m < x => m < y
      <4> SUFFICES ASSUME NEW m \in C, m < x PROVE m < y OBVIOUS
      <4>1. m \in Nat
        BY <1>1
      <4> QED BY <1>3, <3>1, <4>1
    <3>4. ~(x < x)
      BY <3>1
    <3>5. Before(x) \in SUBSET Before(y)
      BY <3>3
    <3>6. x \in Before(y) /\ x \notin Before(x)
      BY <1>3, <3>4
    <3> QED BY <3>5, <3>6
  <2>2. IsFiniteSet(Before(y)) /\ Cardinality(Before(y)) \in Nat /\ Cardinality(Before(x)) \in Nat
    BY <1>2
  <2>3. /\ Cardinality(Before(x)) <= Cardinality(Before(y))
        /\ Cardinality(Before(y)) = Cardinality(Before(x)) => Before(y) = Before(x)
    BY <2>1, <2>2, FS_Subset
  <2> HIDE DEF Before
  <2> QED BY <2>1, <2>2, <2>3
<1>4. \A x \in C : Index(x, C) = Cardinality(Before(x))
  BY DEF Index
<1> HIDE DEF Before
<1>5. \A m \in C : m # n => Index(m, C) # Index(n, C)
  <2> SUFFICES ASSUME NEW m \in C, m # n PROVE Index(m, C) # Index(n, C) OBVIOUS
  <2>1. m \in Nat /\ n \in Nat
    BY <1>1
  <2>2. m < n \/ n < m
    BY <2>1
  <2>3. Cardinality(Before(m)) \in Nat /\ Cardinality(Before(n)) \in Nat
    BY <1>2
  <2> QED BY <1>3, <1>4, <2>2, <2>3
<1> QED BY <1>1, <1>2, <1>4, <1>5

LEMMA DistanceTypes ==
  ASSUME NEW C \in SUBSET Nodes, NEW n \in C, NEW at \in Nat
  PROVE  Distance(n, C, at) \in Nat
<1>1. Cardinality(C) \in Nat /\ Cardinality(C) > 0 /\ Index(n, C) \in Nat
  BY IndexTypes
<1>2. Index(n, C) - at \in Int
  BY <1>1
<1>3. (Index(n, C) - at) % Cardinality(C) \in 0 .. (Cardinality(C) - 1)
  BY <1>1, <1>2, Remainder
<1> QED BY <1>1, <1>3 DEF Distance

\* The walk finds the node with room that is next from the cursor.
LEMMA NextIsNearest ==
  ASSUME NEW C \in SUBSET Nodes, NEW at \in Nat, WithRoom(C) # {}
  PROVE  /\ NextInRing(C, at) \in WithRoom(C)
         /\ \A m \in WithRoom(C) : Distance(NextInRing(C, at), C, at) <= Distance(m, C, at)
<1> DEFINE D == {Distance(n, C, at) : n \in WithRoom(C)}
<1>1. WithRoom(C) \subseteq C
  BY DEF WithRoom
<1>2. D \in SUBSET Nat /\ D # {}
  BY <1>1, DistanceTypes
<1>3. PICK d \in D : \A e \in D : d <= e
  BY <1>2, Least
<1>4. \E n \in WithRoom(C) : \A m \in WithRoom(C) : Distance(n, C, at) <= Distance(m, C, at)
  BY <1>3
<1> QED BY <1>4 DEF NextInRing

-----------------------------------------------------------------------------
(* Type correctness *)

LabRow == [status: {"none"} \cup Live, node: Hosts, pooled: BOOLEAN]
Ring == [node: Hosts, cands: SUBSET Nodes]

LEMMA TypeFacts ==
  ASSUME TypeOK
  PROVE  /\ policy \in Policy /\ policy \in Policies
         /\ enabled \subseteq Nodes /\ reach \subseteq Nodes /\ stale \subseteq Nodes
         /\ cursor \in [SUBSET Nodes -> Nat] /\ lab \in [Slots -> LabRow]
         /\ prior \in [Slots -> Hosts] /\ volumes \in [Slots -> SUBSET Hosts]
         /\ req \in [Slots -> Request] /\ events \in Nat
         /\ work \in [Slots -> Hosts \cup {NoHost}] /\ blind \subseteq Slots
         /\ last \in [SUBSET Nodes -> Ring]
BY PoliciesAssumption DEF TypeOK, LabRow, Ring

LEMMA TypeNext ==
  ASSUME policy' \in Policies, enabled' \subseteq Nodes, reach' \subseteq Nodes, stale' \subseteq Nodes,
         cursor' \in [SUBSET Nodes -> Nat], lab' \in [Slots -> LabRow],
         prior' \in [Slots -> Hosts], volumes' \in [Slots -> SUBSET Hosts],
         req' \in [Slots -> Request], events' \in Nat,
         work' \in [Slots -> Hosts \cup {NoHost}], blind' \subseteq Slots,
         last' \in [SUBSET Nodes -> Ring]
  PROVE  TypeOK'
BY DEF TypeOK, LabRow, Ring

LEMMA Constants ==
  /\ NoNode \in Hosts /\ Local \in Hosts /\ Nodes \subseteq Hosts /\ NoNode \notin Nodes /\ Local \notin Nodes
  /\ NoHost \notin Hosts /\ NoLab \in LabRow /\ Idle \in Request
<1>1. Nodes \subseteq Nat \ {0}
  BY NodesAssumption
<1>2. /\ NoNode \in Hosts /\ Local \in Hosts /\ Nodes \subseteq Hosts /\ NoNode \notin Nodes /\ Local \notin Nodes
      /\ NoHost \notin Hosts
  BY <1>1 DEF NoNode, Local, Hosts, NoHost
<1>3. NoLab \in LabRow /\ Idle \in Request
  BY <1>2 DEF NoLab, LabRow, Idle, Request
<1> QED BY <1>2, <1>3

LEMMA TypeInit == Init => TypeOK
<1> SUFFICES ASSUME Init PROVE TypeOK OBVIOUS
<1>1. lab \in [Slots -> LabRow] /\ req \in [Slots -> Request]
  BY Constants DEF Init
<1>2. cursor \in [SUBSET Nodes -> Nat] /\ last \in [SUBSET Nodes -> Ring]
  BY Constants DEF Init, Ring
<1> QED BY <1>1, <1>2, Constants DEF Init, TypeOK, LabRow, Ring

Pcs == {"idle", "probe", "resolve", "list", "count", "default", "only", "create", "provision"}

\* A request on its way, field by field.
LEMMA Fields ==
  ASSUME NEW q \in Request
  PROVE  /\ \A pc \in Pcs :
              /\ [q EXCEPT !.pc = pc] \in Request
              /\ \A n \in Hosts : [q EXCEPT !.pc = pc, !.node = n] \in Request
              /\ \A n \in Hosts : [q EXCEPT !.pc = pc, !.node = n, !.pooled = TRUE] \in Request
              /\ \A S \in SUBSET Nodes : /\ [q EXCEPT !.pc = pc, !.pool = S] \in Request
                                         /\ [q EXCEPT !.pc = pc, !.cands = S] \in Request
                                         /\ [q EXCEPT !.pc = pc, !.left = S] \in Request
                                         /\ [q EXCEPT !.pc = pc, !.pool = S, !.wide = TRUE] \in Request
         /\ \A S, T \in SUBSET Nodes : [q EXCEPT !.left = S, !.held = T] \in Request
         /\ \A S \in SUBSET Nodes : [q EXCEPT !.drained = S] \in Request
<1> DEFINE Sets == SUBSET Nodes
<1>0. Request = [pc : Pcs, left : Sets, held : Sets, pool : Sets, cands : Sets,
                 node : Hosts, pooled : BOOLEAN, wide : BOOLEAN, drained : Sets]
  BY Zenon DEF Request, Pcs
<1> HIDE DEF Sets
<1>1. ASSUME NEW pc \in Pcs PROVE [q EXCEPT !.pc = pc] \in Request
  BY <1>0
<1>2. ASSUME NEW pc \in Pcs, NEW n \in Hosts
      PROVE  /\ [q EXCEPT !.pc = pc, !.node = n] \in Request
             /\ [q EXCEPT !.pc = pc, !.node = n, !.pooled = TRUE] \in Request
  BY <1>0
<1>3. ASSUME NEW pc \in Pcs, NEW S \in Sets
      PROVE  /\ [q EXCEPT !.pc = pc, !.pool = S] \in Request
             /\ [q EXCEPT !.pc = pc, !.cands = S] \in Request
             /\ [q EXCEPT !.pc = pc, !.left = S] \in Request
             /\ [q EXCEPT !.pc = pc, !.pool = S, !.wide = TRUE] \in Request
  BY <1>0
<1>4. ASSUME NEW S \in Sets, NEW T \in Sets
      PROVE [q EXCEPT !.left = S, !.held = T] \in Request /\ [q EXCEPT !.drained = S] \in Request
  BY <1>0
<1>5. \A pc \in Pcs :
             /\ [q EXCEPT !.pc = pc] \in Request
             /\ \A n \in Hosts : [q EXCEPT !.pc = pc, !.node = n] \in Request
             /\ \A n \in Hosts : [q EXCEPT !.pc = pc, !.node = n, !.pooled = TRUE] \in Request
             /\ \A S \in Sets : /\ [q EXCEPT !.pc = pc, !.pool = S] \in Request
                               /\ [q EXCEPT !.pc = pc, !.cands = S] \in Request
                               /\ [q EXCEPT !.pc = pc, !.left = S] \in Request
                               /\ [q EXCEPT !.pc = pc, !.pool = S, !.wide = TRUE] \in Request
  BY <1>1, <1>2, <1>3, Zenon
<1>6. \A S, T \in Sets : [q EXCEPT !.left = S, !.held = T] \in Request
  BY <1>4, Zenon
<1>7. \A S \in Sets : [q EXCEPT !.drained = S] \in Request
  BY <1>4, Zenon
<1> QED BY <1>5, <1>6, <1>7, Zenon DEF Sets

\* The request of a slot after a step.
LEMMA Asks ==
  ASSUME TypeOK, NEW s \in Slots
  PROVE  /\ req[s] \in Request
         /\ \A x \in Request : [req EXCEPT ![s] = x] \in [Slots -> Request]
         /\ Fail(s) => req' \in [Slots -> Request]
         /\ \A n \in Hosts : Place(s, n) => req' \in [Slots -> Request]
         /\ \A S \in SUBSET Nodes : Ask(s, S) => req' \in [Slots -> Request]
         /\ NoPick(s) => req' \in [Slots -> Request]
<1>1. req \in [Slots -> Request] /\ req[s] \in Request
  BY TypeFacts
<1>2. \A x \in Request : [req EXCEPT ![s] = x] \in [Slots -> Request]
  BY <1>1
<1>3. Fail(s) => req' \in [Slots -> Request]
  BY <1>2, Constants DEF Fail
<1>4. ASSUME NEW n \in Hosts, Place(s, n) PROVE req' \in [Slots -> Request]
  <2>1. [req[s] EXCEPT !.pc = "create", !.node = n] \in Request
    BY <1>1, Fields DEF Pcs
  <2>2. req' = [req EXCEPT ![s] = [req[s] EXCEPT !.pc = "create", !.node = n]]
    BY <1>1, <1>4 DEF Place
  <2> QED BY <1>2, <2>1, <2>2
<1>5. ASSUME NEW S \in SUBSET Nodes, Ask(s, S) PROVE req' \in [Slots -> Request]
  <2>1. [req[s] EXCEPT !.pc = "list", !.pool = S] \in Request
    BY <1>1, Fields DEF Pcs
  <2>2. req' = [req EXCEPT ![s] = [req[s] EXCEPT !.pc = "list", !.pool = S]]
    BY <1>1, <1>5 DEF Ask
  <2> QED BY <1>2, <2>1, <2>2
<1>6. ASSUME NEW pc \in {"only", "default"}, req' = [req EXCEPT ![s].pc = pc] PROVE req' \in [Slots -> Request]
  <2>1. [req[s] EXCEPT !.pc = pc] \in Request
    BY <1>1, Fields DEF Pcs
  <2> QED BY <1>1, <1>6, <2>1
<1>7. NoPick(s) => Fail(s) \/ \E pc \in {"only", "default"} : req' = [req EXCEPT ![s].pc = pc]
  BY DEF NoPick
<1> QED BY <1>1, <1>2, <1>3, <1>4, <1>5, <1>6, <1>7

LEMMA TypeQuery ==
  ASSUME TypeOK, NEW s \in Slots,
         Start(s) \/ Probe(s) \/ ChooseHolder(s) \/ Resolve(s) \/ ListCandidates(s) \/ FindDefault(s) \/ FindOnly(s)
  PROVE  req' \in [Slots -> Request] /\ blind' \subseteq Slots
<1> USE TypeFacts, Constants
<1>0. req[s] \in Request /\ req \in [Slots -> Request]
  BY Asks
<1>1. CASE Start(s)
  <2>1. [Idle EXCEPT !.pc = "resolve"] \in Request /\ [Idle EXCEPT !.pc = "probe", !.left = enabled] \in Request
    BY Fields DEF Pcs
  <2>2. PICK x \in Request : req' = [req EXCEPT ![s] = x]
    BY <1>1, <2>1 DEF Start
  <2> QED BY <1>1, <2>2, Asks DEF Start
<1>2. CASE Probe(s)
  <2>1. PICK S, T \in SUBSET Nodes : req' = [req EXCEPT ![s] = [req[s] EXCEPT !.left = S, !.held = T]]
    <3>1. req[s].left \in SUBSET Nodes /\ req[s].held \in SUBSET Nodes
      BY <1>0 DEF Request
    <3>2. First(req[s].left) \in Nodes
      BY <1>2, <3>1, FirstIsOne DEF Probe
    <3>3. PICK n \in Nodes : n = First(req[s].left)
      BY <3>2
    <3>4. req' = [req EXCEPT ![s].left = @ \ {n},
                             ![s].held = IF n \in volumes[s] \cap reach THEN @ \cup {n} ELSE @]
      BY <1>2, <3>3 DEF Probe
    <3>5. PICK T : T = IF n \in volumes[s] \cap reach THEN req[s].held \cup {n} ELSE req[s].held
      OBVIOUS
    <3>6. T \in SUBSET Nodes
      BY <3>1, <3>5
    <3>7. req' = [req EXCEPT ![s] = [req[s] EXCEPT !.left = req[s].left \ {n}, !.held = T]]
      BY <1>0, <3>4, <3>5
    <3>8. req[s].left \ {n} \in SUBSET Nodes
      BY <3>1
    <3> QED BY <3>6, <3>7, <3>8
  <2>2. [req[s] EXCEPT !.left = S, !.held = T] \in Request
    BY <1>0, Fields DEF Pcs
  <2>3. blind' \subseteq Slots
    <3>1. blind' \in {blind \cup {s}, blind}
      BY <1>2 DEF Probe
    <3> QED BY <3>1
  <2>4. req' \in [Slots -> Request]
    BY <2>1, <2>2, Asks
  <2> QED BY <2>3, <2>4
<1>3. CASE ChooseHolder(s)
  <2>1. req[s].held \in SUBSET Nodes /\ blind' = blind
    BY <1>0, <1>3 DEF Request, ChooseHolder, ghosts
  <2>2. req[s].held # {} => Holder(s) \in Hosts
    BY <2>1, FirstIsOne DEF Holder
  <2>3. req' = [req EXCEPT ![s] = IF req[s].held = {} THEN [req[s] EXCEPT !.pc = "resolve"]
                               ELSE [req[s] EXCEPT !.pc = "create", !.node = Holder(s)]]
    BY <1>0, <1>3 DEF ChooseHolder
  <2>4. PICK x \in Request : req' = [req EXCEPT ![s] = x]
    BY <1>0, <2>2, <2>3, Fields DEF Pcs
  <2> QED BY <2>1, <2>4, Asks
<1>4. CASE Resolve(s)
  <2>1. policy.pin \in Hosts /\ policy.override \in SUBSET Nodes /\ policy.allowed \in SUBSET Nodes
    BY DEF Policy
  <2>2. \/ Ask(s, policy.override) \/ Ask(s, policy.allowed) \/ Fail(s) \/ Place(s, policy.pin)
        \/ req' = [req EXCEPT ![s].pc = "default"]
    BY <1>4 DEF Resolve
  <2>3. CASE req' = [req EXCEPT ![s].pc = "default"]
    <3>1. [req[s] EXCEPT !.pc = "default"] \in Request
      BY <1>0, Fields DEF Pcs
    <3>2. req' = [req EXCEPT ![s] = [req[s] EXCEPT !.pc = "default"]]
      BY <1>0, <2>3
    <3>3. req' \in [Slots -> Request]
      BY <3>1, <3>2, Asks
    <3> QED BY <1>4, <3>3 DEF Resolve, ghosts
  <2>4. req' \in [Slots -> Request]
    BY <1>4, <2>1, <2>2, <2>3, Asks
  <2> QED BY <1>4, <2>4 DEF Resolve, ghosts
<1>5. CASE ListCandidates(s)
  <2>1. Eligible(req[s].pool) \in SUBSET Nodes /\ blind' = blind
    BY <1>5 DEF Eligible, ListCandidates, ghosts
  <2>2. [req[s] EXCEPT !.pc = "count", !.cands = Eligible(req[s].pool)] \in Request
    BY <1>0, <2>1, Fields DEF Pcs
  <2>3. \/ NoPick(s)
        \/ req' = [req EXCEPT ![s].pc = "count", ![s].cands = Eligible(req[s].pool)]
    BY <1>5 DEF ListCandidates
  <2>4. CASE req' = [req EXCEPT ![s].pc = "count", ![s].cands = Eligible(req[s].pool)]
    <3>1. req' = [req EXCEPT ![s] = [req[s] EXCEPT !.pc = "count", !.cands = Eligible(req[s].pool)]]
      BY <1>0, <2>4
    <3> QED BY <2>1, <2>2, <3>1, Asks
  <2> QED BY <2>1, <2>3, <2>4, Asks
<1>6. CASE FindDefault(s)
  <2>1. \/ policy.default \in enabled /\ Place(s, policy.default)
        \/ req' = [req EXCEPT ![s].pc = "list", ![s].pool = {}, ![s].wide = TRUE]
        \/ req' = [req EXCEPT ![s].pc = "only"]
    BY <1>6 DEF FindDefault
  <2>2. blind' = blind
    BY <1>6 DEF FindDefault, ghosts
  <2>3. [req[s] EXCEPT !.pc = "list", !.pool = {}, !.wide = TRUE] \in Request /\ [req[s] EXCEPT !.pc = "only"] \in Request
    BY <1>0, Fields DEF Pcs
  <2>4. CASE req' = [req EXCEPT ![s].pc = "list", ![s].pool = {}, ![s].wide = TRUE]
    <3>1. req' = [req EXCEPT ![s] = [req[s] EXCEPT !.pc = "list", !.pool = {}, !.wide = TRUE]]
      BY <1>0, <2>4
    <3> QED BY <2>2, <2>3, <3>1, Asks
  <2>5. CASE req' = [req EXCEPT ![s].pc = "only"]
    <3>1. req' = [req EXCEPT ![s] = [req[s] EXCEPT !.pc = "only"]]
      BY <1>0, <2>5
    <3> QED BY <2>2, <2>3, <3>1, Asks
  <2>6. policy.default \in enabled => policy.default \in Hosts
    OBVIOUS
  <2> QED BY <2>1, <2>2, <2>4, <2>5, <2>6, Asks
<1>7. CASE FindOnly(s)
  <2>1. Cardinality(enabled) = 1 => (CHOOSE n \in enabled : TRUE) \in Hosts
    <3> SUFFICES ASSUME Cardinality(enabled) = 1 PROVE (CHOOSE n \in enabled : TRUE) \in Hosts OBVIOUS
    <3>1. enabled # {}
      BY OneMember
    <3> QED BY <3>1
  <2>2. PICK n \in Hosts : Place(s, n)
    BY <1>7, <2>1 DEF FindOnly
  <2> QED BY <1>7, <2>2, Asks DEF FindOnly, ghosts
<1> QED BY <1>1, <1>2, <1>3, <1>4, <1>5, <1>6, <1>7

LEMMA TypePick ==
  ASSUME TypeOK, NEW s \in Slots, Pick(s)
  PROVE  TypeOK'
<1> USE TypeFacts, Constants
<1>0. req[s] \in Request /\ req \in [Slots -> Request] /\ req[s].cands \in SUBSET Nodes /\ req[s].pool \in SUBSET Nodes
  BY Asks DEF Request
<1>1. CASE WithRoom(req[s].cands) = {}
  <2>1. req' \in [Slots -> Request] /\ UNCHANGED <<cursor, last>>
    BY <1>1, Asks DEF Pick
  <2> QED BY <2>1, TypeNext DEF Pick, fleet
<1>2. CASE WithRoom(req[s].cands) # {}
  <2>1. PICK n : n = NextInRing(req[s].cands, cursor[req[s].pool])
    OBVIOUS
  <2>2. cursor[req[s].pool] \in Nat
    BY <1>0
  <2>3. n \in req[s].cands
    BY <1>0, <1>2, <2>1, <2>2, NextIsNearest DEF WithRoom
  <2>4. Advance(n, req[s].cands) \in Nat
    <3>0. /\ Cardinality(req[s].cands) \in Nat /\ Cardinality(req[s].cands) > 0
          /\ Index(n, req[s].cands) \in 0 .. (Cardinality(req[s].cands) - 1)
      BY <1>0, <2>3, IndexTypes, Zenon
    <3>1. Cardinality(req[s].cands) \in Nat /\ Cardinality(req[s].cands) > 0 /\ Index(n, req[s].cands) \in Nat
      BY <3>0
    <3>2. Index(n, req[s].cands) + 1 \in Int
      BY <3>1
    <3>3. (Index(n, req[s].cands) + 1) % Cardinality(req[s].cands) \in 0 .. (Cardinality(req[s].cands) - 1)
      BY <3>1, <3>2, Remainder
    <3> QED BY <3>1, <3>3 DEF Advance
  <2>5. cursor' \in [SUBSET Nodes -> Nat]
    <3>1. cursor' = cursor \/ cursor' = [cursor EXCEPT ![req[s].pool] = Advance(n, req[s].cands)]
      BY <1>2, <2>1 DEF Pick
    <3> QED BY <2>4, <3>1
  <2>6. last' \in [SUBSET Nodes -> Ring]
    <3>1. [node |-> n, cands |-> req[s].cands] \in Ring
      BY <1>0, <2>3 DEF Ring
    <3>2. last' = [last EXCEPT ![req[s].pool] = [node |-> n, cands |-> req[s].cands]]
      BY <1>2, <2>1 DEF Pick
    <3> QED BY <3>1, <3>2
  <2>7. req' \in [Slots -> Request]
    <3>1. [req[s] EXCEPT !.pc = "create", !.node = n, !.pooled = TRUE] \in Request
      BY <1>0, <2>3, Fields DEF Pcs
    <3>2. req' = [req EXCEPT ![s].pc = "create", ![s].node = n, ![s].pooled = TRUE]
      BY <1>2, <2>1 DEF Pick
    <3>3. req' = [req EXCEPT ![s] = [req[s] EXCEPT !.pc = "create", !.node = n, !.pooled = TRUE]]
      BY <1>0, <3>2
    <3> QED BY <3>1, <3>3, Asks
  <2> QED BY <2>5, <2>6, <2>7, TypeNext DEF Pick, fleet
<1> QED BY <1>1, <1>2

LEMMA TypeLab ==
  ASSUME TypeOK, NEW s \in Slots, CreateRow(s) \/ Provision(s) \/ ProvisionFails(s) \/ Terminate(s)
  PROVE  TypeOK'
<1> USE TypeFacts, Constants
<1>0. req[s] \in Request /\ req \in [Slots -> Request] /\ lab[s] \in LabRow /\ req[s].node \in Hosts /\ req[s].pooled \in BOOLEAN
  BY Asks DEF Request
<1>1. \A x \in LabRow : [lab EXCEPT ![s] = x] \in [Slots -> LabRow]
  OBVIOUS
<1>2. EnsureVolume(s) => volumes' \in [Slots -> SUBSET Hosts]
  <2>1. HostOf(s) \in Hosts
    BY <1>0 DEF HostOf, LabRow
  <2> QED BY <2>1 DEF EnsureVolume
<1>3. CASE CreateRow(s)
  <2>1. [status |-> "provisioning", node |-> req[s].node, pooled |-> req[s].pooled] \in LabRow
    BY <1>0 DEF LabRow, Live
  <2>2. lab' \in [Slots -> LabRow]
    BY <1>1, <1>3, <2>1 DEF CreateRow
  <2>3. [Idle EXCEPT !.pc = "provision"] \in Request
    BY Fields DEF Pcs
  <2>4. req' \in [Slots -> Request]
    BY <1>3, <2>3, Asks DEF CreateRow
  <2>5. prior' \in [Slots -> Hosts]
    <3>1. prior' = prior \/ prior' = [prior EXCEPT ![s] = req[s].node]
      BY <1>3 DEF CreateRow
    <3> QED BY <1>0, <3>1
  <2> QED BY <1>3, <2>2, <2>4, <2>5, TypeNext DEF CreateRow, fleet, ghosts
<1>4. CASE Provision(s)
  <2>1. [lab[s] EXCEPT !.status = "ready"] \in LabRow
    BY <1>0 DEF LabRow, Live
  <2>2. lab' \in [Slots -> LabRow]
    <3>1. lab' = [lab EXCEPT ![s] = [lab[s] EXCEPT !.status = "ready"]]
      BY <1>4 DEF Provision
    <3> QED BY <1>1, <2>1, <3>1
  <2>3. req' \in [Slots -> Request]
    BY <1>4, Asks DEF Provision
  <2>4. work' \in [Slots -> Hosts \cup {NoHost}]
    <3>1. HostOf(s) \in Hosts
      BY <1>0 DEF HostOf, LabRow
    <3>2. work' = work \/ work' = [work EXCEPT ![s] = HostOf(s)]
      BY <1>4 DEF Provision
    <3> QED BY <3>1, <3>2
  <2>5. volumes' \in [Slots -> SUBSET Hosts]
    BY <1>2, <1>4 DEF Provision
  <2> QED BY <1>4, <2>2, <2>3, <2>4, <2>5, TypeNext DEF Provision, fleet
<1>5. CASE ProvisionFails(s)
  <2>1. lab' \in [Slots -> LabRow] /\ req' \in [Slots -> Request]
    BY <1>1, <1>5, Asks DEF ProvisionFails
  <2>2. volumes' \in [Slots -> SUBSET Hosts]
    BY <1>2, <1>5 DEF ProvisionFails
  <2> QED BY <1>5, <2>1, <2>2, TypeNext DEF ProvisionFails, fleet, ghosts
<1>6. CASE Terminate(s)
  <2>1. lab' \in [Slots -> LabRow]
    BY <1>1, <1>6 DEF Terminate
  <2> QED BY <1>6, <2>1, TypeNext DEF Terminate, fleet, ghosts
<1> QED BY <1>3, <1>4, <1>5, <1>6

Query(s) == Start(s) \/ Probe(s) \/ ChooseHolder(s) \/ Resolve(s) \/ ListCandidates(s) \/ FindDefault(s) \/ FindOnly(s)
Fleet(n) == Undrain(n) \/ GoesDown(n) \/ ComesBack(n) \/ Poll(n) \/ Age(n)

\* A query leaves everything but its request and what was missed alone.
LEMMA QueryFrame ==
  ASSUME NEW s \in Slots, Query(s)
  PROVE  UNCHANGED <<policy, enabled, reach, stale, events, cursor, lab, prior, volumes, work, last>>
BY DEF Query, Start, Probe, ChooseHolder, Resolve, ListCandidates, FindDefault, FindOnly, fleet, ghosts

LEMMA TypeFleet ==
  ASSUME TypeOK, NEW n \in Nodes, Drain(n) \/ Fleet(n)
  PROVE  TypeOK'
<1> USE TypeFacts
<1>1. events' \in Nat
  BY DEF Drain, Fleet, Undrain, GoesDown, ComesBack, Poll, Age, Event
<1>2. CASE Drain(n)
  <2>1. req' \in [Slots -> Request]
    <3> SUFFICES ASSUME NEW s \in Slots PROVE req'[s] \in Request
      BY <1>2 DEF Drain
    <3>1. req[s] \in Request /\ req[s].drained \cup {n} \in SUBSET Nodes
      BY Asks DEF Request
    <3>2. [req[s] EXCEPT !.drained = req[s].drained \cup {n}] \in Request
      BY <3>1, Fields DEF Pcs
    <3>3. req'[s] = IF req[s].pc = "idle" THEN req[s]
                    ELSE [req[s] EXCEPT !.drained = req[s].drained \cup {n}]
      BY <1>2 DEF Drain
    <3> QED BY <3>1, <3>2, <3>3
  <2> QED BY <1>1, <1>2, <2>1, TypeNext DEF Drain, ghosts
<1>3. CASE Fleet(n)
  <2>1. enabled' \subseteq Nodes /\ reach' \subseteq Nodes /\ stale' \subseteq Nodes
    BY <1>3 DEF Fleet, Undrain, GoesDown, ComesBack, Poll, Age
  <2>2. UNCHANGED <<policy, cursor, lab, prior, volumes, req, work, blind, last>>
    BY <1>3 DEF Fleet, Undrain, GoesDown, ComesBack, Poll, Age, ghosts
  <2> QED BY <1>1, <2>1, <2>2, TypeNext
<1> QED BY <1>2, <1>3

LEMMA TypeRestart == ASSUME TypeOK, Restart PROVE TypeOK'
<1> USE TypeFacts, Constants
<1>1. cursor' \in [SUBSET Nodes -> Nat] /\ last' \in [SUBSET Nodes -> Ring] /\ req' \in [Slots -> Request]
  BY DEF Restart, Ring
<1>2. events' \in Nat
  BY DEF Restart, Event
<1> QED BY <1>1, <1>2, TypeNext DEF Restart

LEMMA TypeStep == TypeOK /\ [Next]_vars => TypeOK'
<1> SUFFICES ASSUME TypeOK, [Next]_vars PROVE TypeOK' OBVIOUS
<1>1. ASSUME NEW s \in Slots, Query(s) PROVE TypeOK'
  <2>1. UNCHANGED <<policy, enabled, reach, stale, events, cursor, lab, prior, volumes, work, last>>
    BY <1>1, QueryFrame
  <2>2. req' \in [Slots -> Request] /\ blind' \subseteq Slots
    BY <1>1, TypeQuery DEF Query
  <2> QED BY <2>1, <2>2, TypeFacts, TypeNext
<1>2. CASE UNCHANGED vars
  BY <1>2, TypeFacts, TypeNext DEF vars
<1> QED BY <1>1, <1>2, TypePick, TypeLab, TypeFleet, TypeRestart DEF Next, Query, Fleet

\* The placement state has its types, whatever the fleet and the requests do:
\* a ring position stays a position, a pick is one of the nodes listed.
THEOREM TypeCorrect == Spec => []TypeOK
<1> QED BY TypeInit, TypeStep, PTL DEF Spec

-----------------------------------------------------------------------------
(* The inductive invariant                                                 *)

Asking == {"resolve", "list", "count", "default", "only"}
Known(s) == enabled \cup req[s].drained

\* A request that places its lab holds what its next step relies on.
Marked(s) ==
  /\ req[s].pooled = TRUE => req[s].pc = "create"
  /\ req[s].pc = "provision" => lab[s].status = "provisioning"
  /\ lab[s].status \in Live /\ lab[s].node # NoNode => prior[s] = lab[s].node

\* Every node a request still considers was enabled after its start.
Admitted(s) ==
  /\ req[s].pc = "probe" => req[s].left \subseteq Known(s) /\ req[s].held \subseteq Known(s)
  /\ req[s].pc = "count" => req[s].cands \subseteq Known(s)
  /\ req[s].pc = "create" => req[s].node \in Known(s) \cup {Local}

\* Files no probe has missed: the way back to them is open at every step.
Seen(s) == s \notin Stateless /\ s \notin blind /\ work[s] # NoHost
Files(s) ==
  Seen(s) =>
    /\ work[s] \in volumes[s]
    /\ work[s] # Local => prior[s] = work[s]
    /\ lab[s].status \in Live => lab[s].node = work[s]
    /\ req[s].pc = "probe" => work[s] # Local /\ work[s] \in req[s].left \cup req[s].held
    /\ req[s].pc = "create" => req[s].node = work[s]
    /\ req[s].pc \notin Asking

Own(s) == Marked(s) /\ Admitted(s) /\ Files(s)

Step(s) == Query(s) \/ Pick(s) \/ CreateRow(s) \/ Provision(s) \/ ProvisionFails(s) \/ Terminate(s)

\* A step of one slot leaves the others alone.
LEMMA Frame ==
  ASSUME TypeOK, NEW s \in Slots, Step(s)
  PROVE  /\ UNCHANGED <<policy, enabled, reach, stale, events>>
         /\ \A x \in Slots \ {s} :
              /\ req'[x] = req[x] /\ lab'[x] = lab[x] /\ prior'[x] = prior[x]
              /\ volumes'[x] = volumes[x] /\ work'[x] = work[x] /\ (x \in blind' <=> x \in blind)
<1> USE TypeFacts
<1>1. CASE Query(s)
  <2>1. UNCHANGED <<policy, enabled, reach, stale, events, cursor, lab, prior, volumes, work, last>>
    BY <1>1, QueryFrame
  <2>2. \A x \in Slots \ {s} : req'[x] = req[x]
    <3>1. CASE Start(s)
      BY <3>1 DEF Start
    <3>5. CASE Probe(s)
      BY <3>5 DEF Probe
    <3>6. CASE ChooseHolder(s)
      BY <3>6 DEF ChooseHolder
    <3>2. CASE Resolve(s)
      BY <3>2 DEF Resolve, Fail, Place, Ask
    <3>3. CASE ListCandidates(s)
      BY <3>3 DEF ListCandidates, NoPick, Fail
    <3>4. CASE FindDefault(s) \/ FindOnly(s)
      BY <3>4 DEF FindDefault, FindOnly, Fail, Place
    <3> QED BY <1>1, <3>1, <3>2, <3>3, <3>4, <3>5, <3>6 DEF Query
  <2>3. \A x \in Slots \ {s} : x \in blind' <=> x \in blind
    <3>1. blind' = blind \/ blind' = blind \cup {s}
      BY <1>1 DEF Query, Start, Probe, ChooseHolder, Resolve, ListCandidates, FindDefault, FindOnly, ghosts
    <3> QED BY <3>1
  <2> QED BY <2>1, <2>2, <2>3
<1>2. CASE Pick(s)
  <2>1. \A x \in Slots \ {s} : req'[x] = req[x]
    <3>1. CASE WithRoom(req[s].cands) = {}
      BY <1>2, <3>1 DEF Pick, NoPick, Fail
    <3>2. CASE WithRoom(req[s].cands) # {}
      <4>1. PICK n : req' = [req EXCEPT ![s].pc = "create", ![s].node = n, ![s].pooled = TRUE]
        BY <1>2, <3>2 DEF Pick
      <4> QED BY <4>1
    <3> QED BY <3>1, <3>2
  <2> QED BY <1>2, <2>1 DEF Pick, fleet
<1>3. CASE CreateRow(s)
  BY <1>3 DEF CreateRow, fleet, ghosts
<1>4. CASE Provision(s)
  BY <1>4 DEF Provision, fleet, EnsureVolume
<1>5. CASE ProvisionFails(s)
  BY <1>5 DEF ProvisionFails, fleet, ghosts, EnsureVolume
<1>6. CASE Terminate(s)
  BY <1>6 DEF Terminate, fleet, ghosts
<1> QED BY <1>1, <1>2, <1>3, <1>4, <1>5, <1>6 DEF Step

\* What a request learns from the database, without a pick.
LEMMA Answered ==
  ASSUME TypeOK, NEW s \in Slots,
         Resolve(s) \/ ListCandidates(s) \/ FindDefault(s) \/ FindOnly(s) \/ (Pick(s) /\ WithRoom(req[s].cands) = {})
  PROVE  /\ req[s].pc \in Asking
         /\ UNCHANGED <<policy, enabled, reach, stale, events, cursor, lab, prior, volumes, work, blind, last>>
         /\ \/ req'[s] = Idle
            \/ /\ req'[s].pooled = req[s].pooled /\ req'[s].drained = req[s].drained
               /\ \/ req'[s].pc \in Asking \ {"count"}
                  \/ req'[s].pc = "count" /\ req'[s].cands \subseteq enabled
                  \/ req'[s].pc = "create" /\ req'[s].node \in enabled \cup {Local}
<1> USE TypeFacts
<1>1. req[s] \in Request /\ req \in [Slots -> Request] /\ DOMAIN req = Slots
  BY Asks
<1>2. UNCHANGED <<policy, enabled, reach, stale, events, cursor, lab, prior, volumes, work, blind, last>>
  BY DEF Resolve, ListCandidates, FindDefault, FindOnly, Pick, fleet, ghosts
<1>3. req[s].pc \in Asking
  BY DEF Resolve, ListCandidates, FindDefault, FindOnly, Pick, Asking
<1> DEFINE Goal == \/ req'[s] = Idle
                   \/ /\ req'[s].pooled = req[s].pooled /\ req'[s].drained = req[s].drained
                      /\ \/ req'[s].pc \in Asking \ {"count"}
                         \/ req'[s].pc = "count" /\ req'[s].cands \subseteq enabled
                         \/ req'[s].pc = "create" /\ req'[s].node \in enabled \cup {Local}
<1>4. ASSUME Fail(s) PROVE Goal
  BY <1>1, <1>4 DEF Fail
<1>5. ASSUME NEW n \in enabled \cup {Local}, Place(s, n) PROVE Goal
  BY <1>1, <1>5 DEF Place, Request
<1>6. ASSUME NEW S, Ask(s, S) PROVE Goal
  BY <1>1, <1>6 DEF Ask, Request, Asking
<1>7. ASSUME NEW pc \in {"only", "default"}, req' = [req EXCEPT ![s].pc = pc] PROVE Goal
  BY <1>1, <1>7 DEF Request, Asking
<1>8. ASSUME NoPick(s) PROVE Goal
  <2>1. Fail(s) \/ \E pc \in {"only", "default"} : req' = [req EXCEPT ![s].pc = pc]
    BY <1>8 DEF NoPick
  <2> QED BY <1>4, <1>7, <2>1
<1>9. ASSUME req' = [req EXCEPT ![s].pc = "list", ![s].pool = {}, ![s].wide = TRUE] PROVE Goal
  BY <1>1, <1>9 DEF Request, Asking
<1>10. ASSUME req' = [req EXCEPT ![s].pc = "count", ![s].cands = Eligible(req[s].pool)] PROVE Goal
  <2>1. Eligible(req[s].pool) \subseteq enabled
    BY DEF Eligible
  <2> HIDE DEF Goal
  <2>2. req'[s] = [req[s] EXCEPT !.pc = "count", !.cands = Eligible(req[s].pool)]
    BY <1>1, <1>10
  <2> USE DEF Goal
  <2> QED BY <1>1, <2>1, <2>2 DEF Request
<1> SUFFICES Goal
  BY <1>2, <1>3
<1> HIDE DEF Goal
<1>11. CASE Resolve(s)
  <2>1. \/ Fail(s) \/ \E S \in SUBSET Nodes : Ask(s, S)
        \/ policy.pin \in enabled /\ Place(s, policy.pin)
        \/ req' = [req EXCEPT ![s].pc = "default"]
    BY <1>11 DEF Resolve, Policy
  <2> QED BY <1>4, <1>5, <1>6, <1>7, <2>1
<1>12. CASE ListCandidates(s)
  BY <1>8, <1>10, <1>12 DEF ListCandidates
<1>13. CASE FindDefault(s)
  <2>1. \/ policy.default \in enabled /\ Place(s, policy.default)
        \/ req' = [req EXCEPT ![s].pc = "list", ![s].pool = {}, ![s].wide = TRUE]
        \/ req' = [req EXCEPT ![s].pc = "only"]
    BY <1>13 DEF FindDefault
  <2> QED BY <1>5, <1>7, <1>9, <2>1
<1>14. CASE FindOnly(s)
  <2>1. Cardinality(enabled) = 1 => (CHOOSE n \in enabled : TRUE) \in enabled
    <3> SUFFICES ASSUME Cardinality(enabled) = 1 PROVE (CHOOSE n \in enabled : TRUE) \in enabled OBVIOUS
    <3>1. enabled # {}
      BY OneMember
    <3> QED BY <3>1
  <2>2. PICK n \in enabled \cup {Local} : Place(s, n)
    BY <1>14, <2>1 DEF FindOnly, NoNode, Local
  <2> QED BY <1>5, <2>2
<1>15. CASE Pick(s) /\ WithRoom(req[s].cands) = {}
  BY <1>8, <1>15 DEF Pick
<1> QED BY <1>11, <1>12, <1>13, <1>14, <1>15

\* The invariant survives for a slot whose own rows stand and no node is drained.
LEMMA Untouched ==
  ASSUME TypeOK, NEW x \in Slots, Own(x), enabled \subseteq enabled',
         req'[x] = req[x], lab'[x] = lab[x], prior'[x] = prior[x],
         volumes'[x] = volumes[x], work'[x] = work[x], (x \in blind' <=> x \in blind)
  PROVE  Own(x)'
<1>1. Marked(x)'
  BY DEF Own, Marked
<1>2. Admitted(x)'
  BY DEF Own, Admitted, Known
<1>3. Files(x)'
  BY DEF Own, Files, Seen
<1> QED BY <1>1, <1>2, <1>3 DEF Own

LEMMA OwnQuery ==
  ASSUME TypeOK, NEW s \in Slots, Own(s),
         Query(s) \/ (Pick(s) /\ WithRoom(req[s].cands) = {})
  PROVE  Own(s)'
<1> USE TypeFacts, Constants
<1>0. req[s] \in Request /\ req \in [Slots -> Request]
  BY Asks
<1>1. CASE Start(s)
  <2>1. /\ req[s].pc = "idle" /\ lab[s].status \notin Live
        /\ req'[s] = IF s \in Stateless THEN [Idle EXCEPT !.pc = "resolve"]
                                        ELSE [Idle EXCEPT !.pc = "probe", !.left = enabled]
        /\ UNCHANGED <<enabled, lab, prior, volumes, work>>
    BY <1>0, <1>1 DEF Start, fleet
  <2>2. Marked(s)'
    BY <2>1 DEF Own, Marked, Idle
  <2>3. Admitted(s)'
    BY <2>1 DEF Admitted, Known, Idle
  <2>4. Files(s)'
    <3> SUFFICES ASSUME Seen(s)' PROVE Files(s)' BY DEF Files
    <3>1. s \notin Stateless /\ s \notin blind' /\ work[s] # NoHost
      BY <2>1 DEF Seen
    <3>2. s \notin blind /\ work[s] \in enabled
      BY <1>1, <3>1 DEF Start
    <3>3. req'[s].pc = "probe" /\ req'[s].left = enabled
      BY <2>1, <3>1 DEF Idle
    <3>4. work[s] \in volumes[s] /\ (work[s] # Local => prior[s] = work[s])
      BY <3>1, <3>2 DEF Own, Files, Seen
    <3> QED BY <2>1, <3>2, <3>3, <3>4 DEF Files, Asking
  <2> QED BY <2>2, <2>3, <2>4 DEF Own
<1>2. CASE Probe(s)
  <2>1. req[s].left \in SUBSET Nodes /\ req[s].held \in SUBSET Nodes
    BY <1>0 DEF Request
  <2>2. First(req[s].left) \in req[s].left
    BY <1>2, <2>1, FirstIsOne DEF Probe
  <2>3. PICK n \in req[s].left : n = First(req[s].left)
    BY <2>2
  <2>4. PICK T : T = IF n \in volumes[s] \cap reach THEN req[s].held \cup {n} ELSE req[s].held
    OBVIOUS
  <2>5. /\ req[s].pc = "probe"
        /\ req' = [req EXCEPT ![s] = [req[s] EXCEPT !.left = req[s].left \ {n}, !.held = T]]
        /\ blind' = IF n = work[s] /\ n \notin reach THEN blind \cup {s} ELSE blind
        /\ UNCHANGED <<enabled, lab, prior, volumes, work>>
    BY <1>0, <1>2, <2>3, <2>4 DEF Probe, fleet
  <2>6. /\ req'[s].pc = req[s].pc /\ req'[s].pooled = req[s].pooled /\ req'[s].drained = req[s].drained
        /\ req'[s].left = req[s].left \ {n} /\ req'[s].held = T
    BY <1>0, <2>5 DEF Request
  <2>7. Marked(s)'
    BY <2>5, <2>6 DEF Own, Marked
  <2>8. Admitted(s)'
    <3>1. T \subseteq Known(s)
      BY <2>3, <2>4, <2>5 DEF Own, Admitted
    <3> QED BY <2>5, <2>6, <3>1 DEF Own, Admitted, Known
  <2>9. Files(s)'
    <3> SUFFICES ASSUME Seen(s)' PROVE Files(s)' BY DEF Files
    <3>1. Seen(s) /\ (n = work[s] => n \in reach)
      BY <2>5 DEF Seen
    <3>2. work[s] \in req'[s].left \cup req'[s].held
      BY <2>4, <2>5, <2>6, <3>1 DEF Own, Files
    <3> QED BY <2>5, <2>6, <3>1, <3>2 DEF Own, Files, Asking
  <2> QED BY <2>7, <2>8, <2>9 DEF Own
<1>3. CASE ChooseHolder(s)
  <2>1. /\ req[s].pc = "probe" /\ req[s].left = {} /\ req[s].held \in SUBSET Nodes
        /\ UNCHANGED <<enabled, lab, prior, volumes, work, blind>>
    BY <1>0, <1>3 DEF ChooseHolder, fleet, ghosts, Request
  <2>2. CASE req[s].held = {}
    <3>1. req'[s] = [req[s] EXCEPT !.pc = "resolve"]
      BY <1>0, <1>3, <2>2 DEF ChooseHolder
    <3>2. req'[s].pc = "resolve" /\ req'[s].pooled = req[s].pooled
      BY <1>0, <3>1 DEF Request
    <3>3. ~Seen(s)
      BY <2>1, <2>2 DEF Own, Files
    <3>4. Marked(s)'
      BY <2>1, <3>2 DEF Own, Marked
    <3>5. Admitted(s)' /\ Files(s)'
      BY <2>1, <3>2, <3>3 DEF Admitted, Files, Seen
    <3> QED BY <3>4, <3>5 DEF Own
  <2>3. CASE req[s].held # {}
    <3>0. PICK h : h = Holder(s)
      OBVIOUS
    <3>1. h \in req[s].held
      BY <2>1, <2>3, <3>0, FirstIsOne DEF Holder
    <3>2. req'[s] = [req[s] EXCEPT !.pc = "create", !.node = h]
      BY <1>0, <1>3, <2>3, <3>0 DEF ChooseHolder
    <3>3. /\ req'[s].pc = "create" /\ req'[s].node = h /\ req'[s].pooled = req[s].pooled
          /\ req'[s].drained = req[s].drained
      BY <1>0, <3>2 DEF Request
    <3>4. Marked(s)'
      BY <2>1, <3>3 DEF Own, Marked
    <3>5. Admitted(s)'
      BY <2>1, <3>1, <3>3 DEF Own, Admitted, Known
    <3>6. Seen(s) => h = work[s]
      BY <2>1, <3>0 DEF Own, Files, Holder
    <3>7. Files(s)'
      BY <2>1, <3>3, <3>6 DEF Own, Files, Seen, Asking
    <3> QED BY <3>4, <3>5, <3>7 DEF Own
  <2> QED BY <2>2, <2>3
<1>4. CASE Resolve(s) \/ ListCandidates(s) \/ FindDefault(s) \/ FindOnly(s) \/ (Pick(s) /\ WithRoom(req[s].cands) = {})
  <2>1. /\ req[s].pc \in Asking
        /\ UNCHANGED <<enabled, lab, prior, volumes, work, blind>>
        /\ \/ req'[s] = Idle
           \/ /\ req'[s].pooled = req[s].pooled /\ req'[s].drained = req[s].drained
              /\ \/ req'[s].pc \in Asking \ {"count"}
                 \/ req'[s].pc = "count" /\ req'[s].cands \subseteq enabled
                 \/ req'[s].pc = "create" /\ req'[s].node \in enabled \cup {Local}
    BY <1>4, Answered
  <2>2. ~Seen(s) /\ req[s].pooled # TRUE
    BY <2>1 DEF Own, Files, Marked, Asking
  <2>3. Files(s)'
    BY <2>1, <2>2 DEF Files, Seen
  <2>4. Marked(s)'
    BY <2>1, <2>2 DEF Own, Marked, Asking, Idle
  <2>5. Admitted(s)'
    BY <2>1 DEF Admitted, Known, Asking, Idle
  <2> QED BY <2>3, <2>4, <2>5 DEF Own
<1> QED BY <1>1, <1>2, <1>3, <1>4 DEF Query

\* A pick that found a node with room.
LEMMA Picked ==
  ASSUME TypeOK, NEW s \in Slots, Pick(s), WithRoom(req[s].cands) # {}
  PROVE  \E n \in WithRoom(req[s].cands) :
           /\ n = NextInRing(req[s].cands, cursor[req[s].pool])
           /\ req[s].pc = "count" /\ n \in req[s].cands /\ n \in Nodes
           /\ req' = [req EXCEPT ![s] = [req[s] EXCEPT !.pc = "create", !.node = n, !.pooled = TRUE]]
           /\ req'[s].pc = "create" /\ req'[s].node = n /\ req'[s].pooled = TRUE /\ req'[s].drained = req[s].drained
           /\ cursor' = IF Cardinality(req[s].cands) = 1 THEN cursor
                        ELSE [cursor EXCEPT ![req[s].pool] = Advance(n, req[s].cands)]
           /\ last' = [last EXCEPT ![req[s].pool] = [node |-> n, cands |-> req[s].cands]]
           /\ UNCHANGED <<policy, enabled, reach, stale, events, lab, prior, volumes, work, blind>>
<1>0. /\ req[s] \in Request /\ req \in [Slots -> Request]
      /\ req[s].cands \in SUBSET Nodes /\ cursor[req[s].pool] \in Nat
  BY Asks, TypeFacts DEF Request
<1>1. PICK n : n = NextInRing(req[s].cands, cursor[req[s].pool])
  OBVIOUS
<1>2. n \in WithRoom(req[s].cands)
  BY <1>0, <1>1, NextIsNearest
<1>3. n \in req[s].cands /\ n \in Nodes
  BY <1>0, <1>2 DEF WithRoom
<1>4. /\ req[s].pc = "count"
      /\ req' = [req EXCEPT ![s].pc = "create", ![s].node = n, ![s].pooled = TRUE]
      /\ cursor' = IF Cardinality(req[s].cands) = 1 THEN cursor
                   ELSE [cursor EXCEPT ![req[s].pool] = Advance(n, req[s].cands)]
      /\ last' = [last EXCEPT ![req[s].pool] = [node |-> n, cands |-> req[s].cands]]
      /\ UNCHANGED <<policy, enabled, reach, stale, events, lab, prior, volumes, work, blind>>
  BY <1>1 DEF Pick, fleet
<1>5. req' = [req EXCEPT ![s] = [req[s] EXCEPT !.pc = "create", !.node = n, !.pooled = TRUE]]
  BY <1>0, <1>4
<1>6. req'[s].pc = "create" /\ req'[s].node = n /\ req'[s].pooled = TRUE /\ req'[s].drained = req[s].drained
  BY <1>0, <1>5 DEF Request
<1> QED BY <1>1, <1>2, <1>3, <1>4, <1>5, <1>6

LEMMA OwnStep ==
  ASSUME TypeOK, NEW s \in Slots, Own(s), Step(s)
  PROVE  Own(s)'
<1> USE TypeFacts, Constants
<1>0. req[s] \in Request /\ lab[s] \in LabRow
  BY Asks
<1>1. CASE Pick(s) /\ WithRoom(req[s].cands) # {}
  <2>1. PICK n : /\ req[s].pc = "count" /\ n \in req[s].cands /\ n \in Nodes
                 /\ req'[s].pc = "create" /\ req'[s].node = n /\ req'[s].drained = req[s].drained
                 /\ UNCHANGED <<enabled, lab, prior, volumes, work, blind>>
    BY <1>1, Picked
  <2>2. Marked(s)'
    BY <2>1 DEF Own, Marked
  <2>3. Admitted(s)'
    BY <2>1 DEF Own, Admitted, Known
  <2>4. Files(s)'
    BY <2>1 DEF Own, Files, Seen, Asking
  <2> QED BY <2>2, <2>3, <2>4 DEF Own
<1>2. CASE CreateRow(s)
  <2>1. /\ req[s].pc = "create" /\ req'[s].pc = "provision" /\ req'[s].pooled = FALSE
        /\ lab'[s].status = "provisioning" /\ lab'[s].node = req[s].node
        /\ prior'[s] = IF req[s].node = NoNode THEN prior[s] ELSE req[s].node
        /\ UNCHANGED <<enabled, volumes, work, blind>>
    BY <1>2 DEF CreateRow, fleet, ghosts, Idle
  <2>2. Marked(s)'
    BY <2>1 DEF Marked
  <2>3. Admitted(s)'
    BY <2>1 DEF Admitted
  <2>4. Files(s)'
    BY <2>1 DEF Own, Files, Seen, Asking, Local, NoNode
  <2> QED BY <2>2, <2>3, <2>4 DEF Own
<1>3. CASE Provision(s)
  <2>1. /\ req[s].pc = "provision" /\ req'[s] = Idle
        /\ lab'[s].status = "ready" /\ lab'[s].node = lab[s].node
        /\ EnsureVolume(s)
        /\ work' = IF s \in Stateless \/ work[s] # NoHost THEN work ELSE [work EXCEPT ![s] = HostOf(s)]
        /\ UNCHANGED <<enabled, prior, blind>>
    BY <1>0, <1>3 DEF Provision, fleet, LabRow
  <2>2. lab[s].status \in Live /\ (lab[s].node # NoNode => prior[s] = lab[s].node)
    BY <2>1 DEF Own, Marked, Live
  <2>3. Marked(s)' /\ Admitted(s)'
    BY <2>1, <2>2 DEF Marked, Admitted, Idle
  <2>4. Files(s)'
    <3> SUFFICES ASSUME Seen(s)' PROVE Files(s)' BY DEF Files
    <3>1. s \notin Stateless /\ s \notin blind
      BY <2>1 DEF Seen
    <3>2. volumes'[s] = volumes[s] \cup {lab[s].node}
      BY <2>1, <3>1 DEF EnsureVolume, HostOf
    <3>3. CASE work[s] # NoHost
      <4>1. work'[s] = work[s]
        BY <2>1, <3>3
      <4>2. /\ work[s] \in volumes[s] /\ (work[s] # Local => prior[s] = work[s])
            /\ lab[s].node = work[s]
        BY <2>2, <3>1, <3>3 DEF Own, Files, Seen
      <4> QED BY <2>1, <3>2, <4>1, <4>2 DEF Files, Idle, Asking
    <3>4. CASE work[s] = NoHost
      <4>1. work'[s] = lab[s].node
        BY <2>1, <3>1, <3>4 DEF HostOf
      <4> QED BY <2>1, <2>2, <3>2, <4>1 DEF Files, Idle, Asking, Local, NoNode
    <3> QED BY <3>3, <3>4
  <2> QED BY <2>3, <2>4 DEF Own
<1>4. CASE ProvisionFails(s) \/ Terminate(s)
  <2>1. /\ lab'[s].status = "none" /\ UNCHANGED <<enabled, prior, work, blind>>
        /\ req'[s].pc = "idle" /\ req'[s].pooled # TRUE
    <3>1. req[s].pc = "idle" => req[s].pooled # TRUE
      BY DEF Own, Marked
    <3>2. lab' = [lab EXCEPT ![s] = NoLab] /\ UNCHANGED <<enabled, prior, work, blind>>
      BY <1>4 DEF ProvisionFails, Terminate, fleet, ghosts
    <3>3. lab'[s].status = "none"
      BY <3>2 DEF NoLab
    <3>4. req'[s] = Idle \/ (req[s].pc = "idle" /\ req'[s] = req[s])
      BY <1>4 DEF ProvisionFails, Terminate
    <3>5. Idle.pc = "idle" /\ Idle.pooled # TRUE
      BY DEF Idle
    <3>6. req'[s].pc = "idle" /\ req'[s].pooled # TRUE
      <4>1. CASE req'[s] = Idle
        BY <3>5, <4>1, Zenon
      <4>2. CASE req[s].pc = "idle" /\ req'[s] = req[s]
        BY <3>1, <4>2, Zenon
      <4> QED BY <3>4, <4>1, <4>2
    <3> QED BY <3>2, <3>3, <3>6
  <2>2. volumes[s] \subseteq volumes'[s]
    BY <1>4 DEF ProvisionFails, Terminate, EnsureVolume
  <2>3. Marked(s)' /\ Admitted(s)'
    BY <2>1 DEF Marked, Admitted, Live
  <2>4. Files(s)'
    BY <2>1, <2>2 DEF Own, Files, Seen, Live, Asking
  <2> QED BY <2>3, <2>4 DEF Own
<1> QED BY <1>1, <1>2, <1>3, <1>4, OwnQuery DEF Step

LEMMA OwnFleet ==
  ASSUME TypeOK, NEW x \in Slots, Own(x), (\E n \in Nodes : Drain(n) \/ Fleet(n)) \/ Restart
  PROVE  Own(x)'
<1> USE TypeFacts
<1>1. ASSUME NEW n \in Nodes, Drain(n) PROVE Own(x)'
  <2>1. /\ req'[x] = IF req[x].pc = "idle" THEN req[x]
                     ELSE [req[x] EXCEPT !.drained = req[x].drained \cup {n}]
        /\ enabled' = enabled \ {n} /\ UNCHANGED <<lab, prior, volumes, work, blind>>
    BY <1>1 DEF Drain, ghosts
  <2>2. /\ req'[x].pc = req[x].pc /\ req'[x].node = req[x].node /\ req'[x].pooled = req[x].pooled
        /\ req'[x].left = req[x].left /\ req'[x].held = req[x].held /\ req'[x].cands = req[x].cands
        /\ req[x].pc # "idle" => req'[x].drained = req[x].drained \cup {n}
    BY <2>1, Asks DEF Request
  <2>3. req[x].pc # "idle" => Known(x) \subseteq Known(x)'
    BY <2>1, <2>2 DEF Known
  <2>4. Marked(x)'
    BY <2>1, <2>2 DEF Own, Marked
  <2>5. Admitted(x)'
    BY <2>2, <2>3 DEF Own, Admitted
  <2>6. Files(x)'
    BY <2>1, <2>2 DEF Own, Files, Seen
  <2> QED BY <2>4, <2>5, <2>6 DEF Own
<1>2. ASSUME NEW n \in Nodes, Fleet(n) PROVE Own(x)'
  BY <1>2, Untouched DEF Fleet, Undrain, GoesDown, ComesBack, Poll, Age, ghosts
<1>3. CASE Restart
  <2>1. req'[x] = Idle /\ UNCHANGED <<enabled, lab, prior, volumes, work, blind>>
    BY <1>3 DEF Restart
  <2>2. Marked(x)' /\ Admitted(x)'
    BY <2>1 DEF Own, Marked, Admitted, Idle
  <2>3. Files(x)'
    BY <2>1 DEF Own, Files, Seen, Idle, Asking
  <2> QED BY <2>2, <2>3 DEF Own
<1> QED BY <1>1, <1>2, <1>3

Owns == \A s \in Slots : Own(s)

LEMMA OwnsInit == Init => Owns
<1> SUFFICES ASSUME Init, NEW s \in Slots PROVE Own(s) BY DEF Owns
<1> QED BY DEF Init, Own, Marked, Admitted, Files, Seen, Idle, NoLab, Live

LEMMA OwnsStep == TypeOK /\ Owns /\ [Next]_vars => Owns'
<1> SUFFICES ASSUME TypeOK, Owns, [Next]_vars, NEW x \in Slots PROVE Own(x)'
  BY DEF Owns
<1>1. Own(x)
  BY DEF Owns
<1>2. ASSUME NEW s \in Slots, Step(s) PROVE Own(x)'
  <2>1. CASE x = s
    BY <1>1, <1>2, <2>1, OwnStep
  <2>2. CASE x # s
    BY <1>1, <1>2, <2>2, Frame, Untouched
  <2> QED BY <2>1, <2>2
<1>3. CASE UNCHANGED vars
  BY <1>1, <1>3, Untouched DEF vars
<1> QED BY <1>1, <1>2, <1>3, OwnFleet DEF Next, Step, Query, Fleet

\* Files every probe could see are found again, whatever pins, pools, loads and
\* other requests say (orchestrator.ts, provisionNew: the sticky volume).
THEOREM Sticky == Spec => []WorkIsSticky
<1>1. Owns => WorkIsSticky
  BY DEF Owns, Own, Files, Seen, WorkIsSticky
<1> QED BY <1>1, TypeInit, TypeStep, OwnsInit, OwnsStep, PTL DEF Spec

\* No lab is placed on a node drained before its provision began
\* (nodes.ts, resolveNodeForProvision: every list asks for enabled nodes).
THEOREM NothingNew == Spec => DrainedGetsNothingNew
<1> DEFINE Holds == \A s \in Slots :
       lab'[s].status = "provisioning" /\ lab[s].status # "provisioning"
         => lab'[s].node \in enabled \cup req[s].drained \cup {Local}
<1>1. TypeOK /\ Owns /\ [Next]_vars => Holds \/ UNCHANGED vars
  <2> SUFFICES ASSUME TypeOK, Owns, Next, NEW x \in Slots,
                      lab'[x].status = "provisioning", lab[x].status # "provisioning"
               PROVE  lab'[x].node \in enabled \cup req[x].drained \cup {Local}
    OBVIOUS
  <2> USE TypeFacts
  <2>1. PICK s \in Slots : Step(s)
    <3>1. lab' # lab
      OBVIOUS
    <3> QED BY <3>1 DEF Next, Step, Query, Drain, Undrain, GoesDown, ComesBack, Poll, Age, Restart
  <2>2. x = s
    BY <2>1, Frame
  <2>3. CreateRow(s)
    <3>1. Query(s) => lab' = lab
      BY QueryFrame
    <3>2. Pick(s) => lab' = lab
      BY DEF Pick
    <3>3. ~(Provision(s) \/ ProvisionFails(s) \/ Terminate(s))
      BY <2>2, TypeFacts DEF Provision, ProvisionFails, Terminate, NoLab, LabRow
    <3> QED BY <2>1, <3>1, <3>2, <3>3 DEF Step
  <2>4. req[s].pc = "create" /\ lab'[s].node = req[s].node
    BY <2>3 DEF CreateRow
  <2>5. Own(s)
    BY DEF Owns
  <2> QED BY <2>2, <2>4, <2>5 DEF Own, Admitted, Known
<1> QED BY <1>1, TypeInit, TypeStep, OwnsInit, OwnsStep, PTL DEF Spec, DrainedGetsNothingNew

-----------------------------------------------------------------------------
(* Overshoot                                                               *)

Flight == Cardinality(InFlight) <= MaxInFlight

LEMMA Finite ==
  ASSUME NEW S \in SUBSET Slots
  PROVE  /\ IsFiniteSet(S) /\ Cardinality(S) \in Nat
         /\ \A T \in SUBSET S : Cardinality(T) \in Nat /\ Cardinality(T) <= Cardinality(S)
         /\ \A x : x \notin S => Cardinality(S \cup {x}) = Cardinality(S) + 1
         /\ \A x \in S : Cardinality(S \ {x}) = Cardinality(S) - 1
<1>1. IsFiniteSet(S)
  BY SlotsAssumption, FS_Subset
<1>2. Cardinality(S) \in Nat
  BY <1>1, FS_CardinalityType
<1>3. \A T \in SUBSET S : Cardinality(T) \in Nat /\ Cardinality(T) <= Cardinality(S)
  <2> SUFFICES ASSUME NEW T \in SUBSET S PROVE Cardinality(T) \in Nat /\ Cardinality(T) <= Cardinality(S)
    OBVIOUS
  <2>1. IsFiniteSet(T) /\ Cardinality(T) <= Cardinality(S)
    BY <1>1, FS_Subset
  <2> QED BY <2>1, FS_CardinalityType
<1>4. \A x : x \notin S => Cardinality(S \cup {x}) = Cardinality(S) + 1
  BY <1>1, FS_AddElement
<1>5. \A x \in S : Cardinality(S \ {x}) = Cardinality(S) - 1
  BY <1>1, FS_RemoveElement
<1> QED BY <1>1, <1>2, <1>3, <1>4, <1>5

LEMMA FlightStep ==
  ASSUME TypeOK, Flight, [Next]_vars
  PROVE  Flight'
<1> USE TypeFacts, InFlightAssumption
<1>0. InFlight \in SUBSET Slots /\ InFlight' \in SUBSET Slots
  BY DEF InFlight
<1>1. ASSUME InFlight' \subseteq InFlight PROVE Flight'
  <2>1. Cardinality(InFlight') <= Cardinality(InFlight) /\ Cardinality(InFlight') \in Nat /\ Cardinality(InFlight) \in Nat
    BY <1>0, <1>1, Finite
  <2>2. Cardinality(InFlight') <= MaxInFlight
    BY <2>1 DEF Flight
  <2> QED BY <2>2 DEF Flight
<1>2. ASSUME NEW s \in Slots, Start(s) PROVE Flight'
  <2>1. Cardinality(InFlight) < MaxInFlight /\ s \notin InFlight
    BY <1>2 DEF Start, InFlight
  <2>2. InFlight' \subseteq InFlight \cup {s}
    BY <1>2 DEF Start, InFlight
  <2>3. Cardinality(InFlight \cup {s}) = Cardinality(InFlight) + 1 /\ Cardinality(InFlight) \in Nat
    BY <1>0, <2>1, Finite
  <2>4. Cardinality(InFlight') <= Cardinality(InFlight \cup {s}) /\ Cardinality(InFlight') \in Nat
    <3>1. InFlight \cup {s} \in SUBSET Slots
      BY <1>0
    <3> QED BY <2>2, <3>1, Finite
  <2>5. Cardinality(InFlight') <= MaxInFlight
    BY <2>1, <2>3, <2>4
  <2> QED BY <2>5 DEF Flight
<1>3. ASSUME NEW s \in Slots, Step(s), ~Start(s) PROVE InFlight' \subseteq InFlight
  <2>1. \A x \in Slots \ {s} : req'[x] = req[x]
    BY <1>3, Frame
  <2>2. req[s].pc # "idle" \/ req' = req
    BY <1>3 DEF Step, Query, Probe, ChooseHolder, Resolve, ListCandidates, FindDefault, FindOnly, Pick, CreateRow,
       Provision, ProvisionFails, Terminate
  <2> QED BY <2>1, <2>2 DEF InFlight
<1>4. ASSUME NEW n \in Nodes, Drain(n) \/ Fleet(n) PROVE InFlight' \subseteq InFlight
  <2>1. CASE Drain(n)
    <3>1. \A x \in Slots : req'[x] = IF req[x].pc = "idle" THEN req[x]
                                     ELSE [req[x] EXCEPT !.drained = req[x].drained \cup {n}]
      BY <2>1 DEF Drain
    <3>2. \A x \in Slots : req[x].pc = "idle" => req'[x].pc = "idle"
      BY <3>1
    <3> QED BY <3>2 DEF InFlight
  <2>2. CASE Fleet(n)
    BY <2>2 DEF Fleet, Undrain, GoesDown, ComesBack, Poll, Age, ghosts, InFlight
  <2> QED BY <1>4, <2>1, <2>2
<1>5. CASE Restart
  <2>1. InFlight' \subseteq InFlight
    BY <1>5 DEF Restart, InFlight, Idle
  <2> QED BY <1>1, <2>1
<1>6. CASE UNCHANGED vars
  BY <1>1, <1>6 DEF vars, InFlight
<1> QED BY <1>1, <1>2, <1>3, <1>4, <1>5, <1>6 DEF Next, Step, Query, Fleet

Over(n) == Capacity[n] > 0 =>
             Cardinality(Pooled(n)) + Cardinality(Chosen(n)) <= Capacity[n] + MaxInFlight - 1
Overs == \A n \in Nodes : Over(n)

LEMMA PooledTypes ==
  ASSUME NEW n \in Nodes
  PROVE  /\ Pooled(n) \in SUBSET Slots /\ Chosen(n) \in SUBSET Slots
         /\ Pooled(n)' \in SUBSET Slots /\ Chosen(n)' \in SUBSET Slots
         /\ Chosen(n)' \subseteq InFlight' /\ InFlight' \in SUBSET Slots
         /\ Cardinality(Pooled(n)) \in Nat /\ Cardinality(Chosen(n)) \in Nat
         /\ Cardinality(Pooled(n)') \in Nat /\ Cardinality(Chosen(n)') \in Nat
         /\ Capacity[n] \in Nat
<1>1. /\ Pooled(n) \in SUBSET Slots /\ Chosen(n) \in SUBSET Slots
      /\ Pooled(n)' \in SUBSET Slots /\ Chosen(n)' \in SUBSET Slots
      /\ Chosen(n)' \subseteq InFlight' /\ InFlight' \in SUBSET Slots
  BY DEF Pooled, Chosen, InFlight
<1>2. /\ Cardinality(Pooled(n)) \in Nat /\ Cardinality(Chosen(n)) \in Nat
      /\ Cardinality(Pooled(n)') \in Nat /\ Cardinality(Chosen(n)') \in Nat
  BY <1>1, Finite
<1> QED BY <1>1, <1>2, CapacityAssumption

\* Nothing placed and nothing chosen: the sum does not grow.
LEMMA OverShrinks ==
  ASSUME NEW n \in Nodes, Over(n), Pooled(n)' \subseteq Pooled(n), Chosen(n)' \subseteq Chosen(n)
  PROVE  Over(n)'
<1>1. Cardinality(Pooled(n)') <= Cardinality(Pooled(n)) /\ Cardinality(Chosen(n)') <= Cardinality(Chosen(n))
  BY PooledTypes, Finite
<1> QED BY <1>1, PooledTypes, InFlightAssumption DEF Over

LEMMA OverStep ==
  ASSUME TypeOK, Owns, Flight, Flight', NEW n \in Nodes, Over(n), [Next]_vars
  PROVE  Over(n)'
<1> USE TypeFacts
<1>1. ASSUME NEW s \in Slots, Pick(s), WithRoom(req[s].cands) # {} PROVE Over(n)'
  <2>1. PICK m \in WithRoom(req[s].cands) :
           /\ req'[s].node = m /\ req'[s].pc = "create" /\ lab' = lab
    BY <1>1, Picked
  <2>2. \A x \in Slots \ {s} : req'[x] = req[x]
    BY <1>1, Frame DEF Step
  <2>3. Pooled(n)' = Pooled(n)
    BY <2>1 DEF Pooled
  <2>4. CASE m # n
    <3>1. Chosen(n)' \subseteq Chosen(n)
      BY <2>1, <2>2, <2>4 DEF Chosen
    <3> QED BY <2>3, <3>1, OverShrinks
  <2>5. CASE m = n /\ Capacity[n] > 0
    <3>1. Load(n) < Capacity[n]
      BY <2>1, <2>5, PooledTypes DEF WithRoom
    <3>2. PICK L \in SUBSET Slots : L = {x \in Slots : lab[x].status \in Live /\ lab[x].node = n}
      OBVIOUS
    <3>3. Pooled(n)' \subseteq L
      BY <2>3, <3>2 DEF Pooled
    <3>4. Cardinality(L) < Capacity[n]
      BY <3>1, <3>2 DEF Load
    <3>5. Cardinality(Pooled(n)') <= Cardinality(L) /\ Cardinality(L) \in Nat
      BY <3>3, Finite
    <3>6. Cardinality(Chosen(n)') <= Cardinality(InFlight') /\ Cardinality(InFlight') \in Nat
      BY PooledTypes, Finite
    <3>7. Cardinality(InFlight') <= MaxInFlight
      BY DEF Flight
    <3>8. Cardinality(Pooled(n)') + Cardinality(Chosen(n)') <= Capacity[n] + MaxInFlight - 1
      BY <3>4, <3>5, <3>6, <3>7, PooledTypes, InFlightAssumption
    <3> QED BY <3>8 DEF Over
  <2>6. CASE ~(Capacity[n] > 0)
    BY <2>6 DEF Over
  <2> QED BY <2>4, <2>5, <2>6
<1>2. ASSUME NEW s \in Slots, Query(s) \/ (Pick(s) /\ WithRoom(req[s].cands) = {}) PROVE Over(n)'
  <2>1. lab' = lab
    BY <1>2, QueryFrame DEF Pick
  <2>2. \A x \in Slots \ {s} : req'[x] = req[x]
    BY <1>2, Frame DEF Step
  <2>3. Own(s)' /\ Own(s)
    BY <1>2, OwnQuery DEF Owns
  <2>4. req'[s].pooled # TRUE
    <3>1. req[s] \in Request /\ req \in [Slots -> Request]
      BY Asks
    <3>2. CASE Start(s) \/ Probe(s) \/ ChooseHolder(s)
      <4>1. req[s].pc \in {"idle", "probe"} /\ (req'[s].pooled = req[s].pooled \/ req'[s].pooled = FALSE)
        <5>1. CASE Start(s)
          BY <3>1, <5>1 DEF Start, Idle
        <5>2. CASE Probe(s)
          BY <3>1, <5>2 DEF Probe, Request
        <5>3. CASE ChooseHolder(s)
          BY <3>1, <5>3 DEF ChooseHolder, Request
        <5> QED BY <3>2, <5>1, <5>2, <5>3
      <4> QED BY <2>3, <4>1 DEF Own, Marked
    <3>3. CASE Resolve(s) \/ ListCandidates(s) \/ FindDefault(s) \/ FindOnly(s) \/ (Pick(s) /\ WithRoom(req[s].cands) = {})
      <4>1. req[s].pc \in Asking /\ (req'[s] = Idle \/ req'[s].pooled = req[s].pooled)
        BY <3>3, Answered
      <4>2. Idle.pooled # TRUE
        BY DEF Idle
      <4>3. req[s].pooled # TRUE
        BY <2>3, <4>1 DEF Own, Marked, Asking
      <4> QED BY <4>1, <4>2, <4>3, Zenon
    <3> QED BY <1>2, <3>2, <3>3 DEF Query
  <2>5. Pooled(n)' \subseteq Pooled(n)
    BY <2>1 DEF Pooled
  <2>6. Chosen(n)' \subseteq Chosen(n)
    BY <2>2, <2>4 DEF Chosen
  <2> QED BY <2>5, <2>6, OverShrinks
<1>3. ASSUME NEW s \in Slots, CreateRow(s) PROVE Over(n)'
  <2>1. /\ req[s].pc = "create" /\ req'[s].pc = "provision"
        /\ lab'[s].node = req[s].node /\ lab'[s].pooled = req[s].pooled
    BY <1>3 DEF CreateRow, Idle
  <2>2. \A x \in Slots \ {s} : req'[x] = req[x] /\ lab'[x] = lab[x]
    BY <1>3, Frame DEF Step
  <2>3. CASE s \in Chosen(n)
    <3>1. Pooled(n)' \subseteq Pooled(n) \cup {s}
      BY <2>2 DEF Pooled
    <3>2. Chosen(n)' \subseteq Chosen(n) \ {s}
      BY <2>1, <2>2 DEF Chosen
    <3>3. Cardinality(Pooled(n)') <= Cardinality(Pooled(n)) + 1
      <4>1. CASE s \in Pooled(n)
        <5>1. Pooled(n)' \in SUBSET Pooled(n)
          BY <3>1, <4>1
        <5>2. Cardinality(Pooled(n)') <= Cardinality(Pooled(n))
          BY <5>1, PooledTypes, Finite
        <5> QED BY <5>2, PooledTypes
      <4>2. CASE s \notin Pooled(n)
        <5>1. Cardinality(Pooled(n) \cup {s}) = Cardinality(Pooled(n)) + 1
          BY <4>2, PooledTypes, Finite
        <5>2. Pooled(n) \cup {s} \in SUBSET Slots
          BY PooledTypes
        <5>3. Cardinality(Pooled(n)') <= Cardinality(Pooled(n) \cup {s})
          BY <3>1, <5>2, Finite
        <5> QED BY <5>1, <5>3
      <4> QED BY <4>1, <4>2
    <3>4. Cardinality(Chosen(n)') <= Cardinality(Chosen(n)) - 1
      <4>1. Cardinality(Chosen(n) \ {s}) = Cardinality(Chosen(n)) - 1
        BY <2>3, PooledTypes, Finite
      <4>2. Chosen(n) \ {s} \in SUBSET Slots
        BY PooledTypes
      <4>3. Cardinality(Chosen(n)') <= Cardinality(Chosen(n) \ {s})
        BY <3>2, <4>2, Finite
      <4> QED BY <4>1, <4>3
    <3>5. Capacity[n] > 0 => Cardinality(Pooled(n)') + Cardinality(Chosen(n)') <= Capacity[n] + MaxInFlight - 1
      BY <3>3, <3>4, PooledTypes, InFlightAssumption DEF Over
    <3> QED BY <3>5 DEF Over
  <2>4. CASE s \notin Chosen(n)
    <3>1. Pooled(n)' \subseteq Pooled(n)
      BY <2>1, <2>2, <2>4 DEF Pooled, Chosen
    <3>2. Chosen(n)' \subseteq Chosen(n)
      BY <2>1, <2>2 DEF Chosen
    <3> QED BY <3>1, <3>2, OverShrinks
  <2> QED BY <2>3, <2>4
<1>4. ASSUME NEW s \in Slots, Provision(s) \/ ProvisionFails(s) \/ Terminate(s) PROVE Over(n)'
  <2>1. \A x \in Slots \ {s} : req'[x] = req[x] /\ lab'[x] = lab[x]
    BY <1>4, Frame DEF Step
  <2>2. req'[s].pc = "idle"
    BY <1>4 DEF Provision, ProvisionFails, Terminate, Idle
  <2>3. Pooled(n)' \subseteq Pooled(n)
    <3>1. CASE Provision(s)
      <4>1. lab[s] \in LabRow /\ req[s].pc = "provision"
        BY <3>1 DEF Provision
      <4>2. lab'[s].node = lab[s].node /\ lab'[s].pooled = lab[s].pooled
        BY <3>1, <4>1 DEF Provision, LabRow
      <4>3. lab[s].status \in Live
        BY <4>1 DEF Owns, Own, Marked, Live
      <4> QED BY <2>1, <4>2, <4>3 DEF Pooled
    <3>2. CASE ProvisionFails(s) \/ Terminate(s)
      <4>1. lab'[s].status \notin Live
        BY <3>2 DEF ProvisionFails, Terminate, NoLab, Live
      <4> QED BY <2>1, <4>1 DEF Pooled
    <3> QED BY <1>4, <3>1, <3>2
  <2>4. Chosen(n)' \subseteq Chosen(n)
    BY <2>1, <2>2 DEF Chosen
  <2> QED BY <2>3, <2>4, OverShrinks
<1>5. ASSUME NEW m \in Nodes, Drain(m) \/ Fleet(m) PROVE Over(n)'
  <2>1. lab' = lab
    BY <1>5 DEF Drain, Fleet, Undrain, GoesDown, ComesBack, Poll, Age
  <2>2. \A x \in Slots : req'[x].pc = req[x].pc /\ req'[x].node = req[x].node /\ req'[x].pooled = req[x].pooled
    <3>1. CASE Drain(m)
      <4> SUFFICES ASSUME NEW x \in Slots
                   PROVE  req'[x].pc = req[x].pc /\ req'[x].node = req[x].node /\ req'[x].pooled = req[x].pooled
        OBVIOUS
      <4>1. req'[x] = req[x] \/ req'[x] = [req[x] EXCEPT !.drained = req[x].drained \cup {m}]
        BY <3>1 DEF Drain
      <4> QED BY <4>1, Asks DEF Request
    <3>2. CASE Fleet(m)
      BY <3>2 DEF Fleet, Undrain, GoesDown, ComesBack, Poll, Age
    <3> QED BY <1>5, <3>1, <3>2
  <2>3. Pooled(n)' \subseteq Pooled(n)
    BY <2>1 DEF Pooled
  <2>4. Chosen(n)' \subseteq Chosen(n)
    BY <2>2 DEF Chosen
  <2> QED BY <2>3, <2>4, OverShrinks
<1>6. CASE Restart
  <2>1. Pooled(n)' \subseteq Pooled(n)
    BY <1>6 DEF Restart, Pooled
  <2>2. Chosen(n)' \subseteq Chosen(n)
    BY <1>6 DEF Restart, Chosen, Idle
  <2> QED BY <2>1, <2>2, OverShrinks
<1>7. CASE UNCHANGED vars
  <2>1. Pooled(n)' \subseteq Pooled(n) /\ Chosen(n)' \subseteq Chosen(n)
    BY <1>7 DEF vars, Pooled, Chosen
  <2> QED BY <2>1, OverShrinks
<1> QED BY <1>1, <1>2, <1>3, <1>4, <1>5, <1>6, <1>7 DEF Next, Query, Fleet

LEMMA OverInit == Init => Flight /\ Overs
<1> SUFFICES ASSUME Init PROVE Flight /\ Overs OBVIOUS
<1>1. Cardinality({}) = 0
  BY FS_EmptySet
<1>2. InFlight = {} /\ \A n \in Nodes : Pooled(n) = {} /\ Chosen(n) = {}
  BY DEF Init, InFlight, Pooled, Chosen, Idle, NoLab, Live
<1>3. Cardinality(InFlight) = 0
  BY <1>1, <1>2, Zenon
<1>4. ASSUME NEW n \in Nodes PROVE Cardinality(Pooled(n)) = 0 /\ Cardinality(Chosen(n)) = 0
  BY <1>1, <1>2, Zenon
<1> QED BY <1>3, <1>4, InFlightAssumption, CapacityAssumption DEF Flight, Overs, Over

LEMMA OversStep == TypeOK /\ Owns /\ Flight /\ Overs /\ [Next]_vars => Flight' /\ Overs'
<1> SUFFICES ASSUME TypeOK, Owns, Flight, Overs, [Next]_vars PROVE Flight' /\ Overs' OBVIOUS
<1>1. Flight'
  BY FlightStep
<1>2. ASSUME NEW n \in Nodes PROVE Over(n)'
  BY <1>1, OverStep DEF Overs
<1> QED BY <1>1, <1>2 DEF Overs

\* Counting loads before the rows of the others exist overshoots a capacity by
\* at most the other provisions in flight (nodes.ts, pickLeastLoadedNode).
THEOREM Overshoot == Spec => []OvershootIsBounded
<1>1. Overs => OvershootIsBounded
  BY DEF Overs, Over, OvershootIsBounded
<1> QED BY <1>1, TypeInit, TypeStep, OwnsInit, OwnsStep, OverInit, OversStep, PTL DEF Spec

-----------------------------------------------------------------------------
(* The ring                                                                *)

\* The node of the last pick is the farthest from the cursor it left.
LEMMA Farthest ==
  ASSUME NEW C \in SUBSET Nodes, NEW l \in C, NEW m \in C, m # l, Cardinality(C) # 1
  PROVE  Distance(m, C, Advance(l, C)) < Distance(l, C, Advance(l, C))
<1>1. PICK k \in Nat : k = Cardinality(C)
  BY IndexTypes, Zenon
<1>2. PICK i \in 0 .. (k - 1) : i = Index(l, C)
  BY <1>1, IndexTypes, Zenon
<1>3. PICK j \in 0 .. (k - 1) : j = Index(m, C)
  BY <1>1, IndexTypes, Zenon
<1>4. i # j /\ k > 0
  BY <1>1, <1>2, <1>3, IndexTypes, Zenon
<1>5. k > 1
  BY <1>1, <1>4
<1>6. PICK at : at = (i + 1) % k
  OBVIOUS
<1>7. at = IF i + 1 < k THEN i + 1 ELSE 0
  <2>1. CASE i + 1 < k
    <3>1. i + 1 \in 0 .. (k - 1)
      BY <1>2, <2>1
    <3> QED BY <1>4, <1>6, <2>1, <3>1, Remainder
  <2>2. CASE ~(i + 1 < k)
    <3>1. i + 1 = k
      BY <1>2, <2>2
    <3>2. k % k = 0
      BY <1>4, Remainder
    <3> QED BY <1>6, <2>2, <3>1, <3>2
  <2> QED BY <2>1, <2>2
<1>8. (i - at) % k = k - 1
  <2>1. CASE i + 1 < k
    <3>1. i - at = -1 /\ -1 \in (-k) .. (-1)
      BY <1>2, <1>7, <2>1
    <3>2. (-1) % k = (-1) + k
      BY <1>4, <3>1, Remainder
    <3> QED BY <3>1, <3>2
  <2>2. CASE ~(i + 1 < k)
    <3>1. i - at = k - 1 /\ k - 1 \in 0 .. (k - 1)
      BY <1>2, <1>5, <1>7, <2>2
    <3>2. (k - 1) % k = k - 1
      BY <1>4, <3>1, Remainder
    <3> QED BY <3>1, <3>2
  <2> QED BY <2>1, <2>2
<1>9. (j - at) % k < k - 1
  <2>1. CASE j - at >= 0
    <3>1. j - at \in 0 .. (k - 1) /\ j - at < k - 1
      BY <1>2, <1>3, <1>4, <1>7, <2>1
    <3>2. (j - at) % k = j - at
      BY <1>4, <3>1, Remainder
    <3> QED BY <3>1, <3>2
  <2>2. CASE j - at < 0
    <3>1. j - at \in (-k) .. (-1) /\ j - at + k < k - 1
      BY <1>2, <1>3, <1>4, <1>7, <2>2
    <3>2. (j - at) % k = j - at + k
      BY <1>4, <3>1, Remainder
    <3> QED BY <3>1, <3>2
  <2>3. j - at \in Int
    BY <1>2, <1>3, <1>7
  <2> QED BY <2>1, <2>2, <2>3
<1> QED BY <1>1, <1>2, <1>3, <1>6, <1>8, <1>9 DEF Distance, Advance

\* The cursor of a pool stands behind its last pick.
Behind(P) ==
  \/ last[P].cands = {}
  \/ /\ last[P].node \in last[P].cands
     /\ \/ Cardinality(last[P].cands) = 1
        \/ cursor[P] = Advance(last[P].node, last[P].cands)
Rings == \A P \in SUBSET Nodes : Behind(P)

LEMMA RingsInit == Init => Rings
BY DEF Init, Rings, Behind

LEMMA RingsStep == TypeOK /\ Rings /\ [Next]_vars => Rings'
<1> SUFFICES ASSUME TypeOK, Rings, [Next]_vars, NEW P \in SUBSET Nodes PROVE Behind(P)'
  BY DEF Rings
<1> USE TypeFacts
<1>1. ASSUME UNCHANGED <<cursor, last>> PROVE Behind(P)'
  BY <1>1 DEF Rings, Behind
<1>2. ASSUME NEW s \in Slots, Pick(s) PROVE Behind(P)'
  <2>1. CASE WithRoom(req[s].cands) = {}
    BY <1>1, <1>2, <2>1 DEF Pick
  <2>2. CASE WithRoom(req[s].cands) # {}
    <3>1. PICK n : /\ n \in req[s].cands
                   /\ cursor' = IF Cardinality(req[s].cands) = 1 THEN cursor
                                ELSE [cursor EXCEPT ![req[s].pool] = Advance(n, req[s].cands)]
                   /\ last' = [last EXCEPT ![req[s].pool] = [node |-> n, cands |-> req[s].cands]]
      BY <1>2, <2>2, Picked
    <3>2. CASE P = req[s].pool
      <4>1. last'[P].node = n /\ last'[P].cands = req[s].cands
        BY <3>1, <3>2
      <4>2. Cardinality(req[s].cands) = 1 \/ cursor'[P] = Advance(n, req[s].cands)
        BY <3>1, <3>2
      <4> QED BY <3>1, <4>1, <4>2 DEF Behind
    <3>3. CASE P # req[s].pool
      <4>1. last'[P] = last[P] /\ cursor'[P] = cursor[P]
        BY <3>1, <3>3
      <4> QED BY <4>1 DEF Rings, Behind
    <3> QED BY <3>2, <3>3
  <2> QED BY <2>1, <2>2
<1>3. CASE Restart
  <2>1. last'[P].cands = {}
    BY <1>3 DEF Restart
  <2> QED BY <2>1 DEF Behind
<1>4. ASSUME NEW s \in Slots, Query(s) \/ CreateRow(s) \/ Provision(s) \/ ProvisionFails(s) \/ Terminate(s)
      PROVE  UNCHANGED <<cursor, last>>
  BY <1>4, QueryFrame DEF CreateRow, Provision, ProvisionFails, Terminate, ghosts
<1>5. ASSUME NEW n \in Nodes, Drain(n) \/ Fleet(n) PROVE UNCHANGED <<cursor, last>>
  BY <1>5 DEF Drain, Fleet, Undrain, GoesDown, ComesBack, Poll, Age, ghosts
<1>6. CASE UNCHANGED vars
  BY <1>1, <1>6 DEF vars
<1> QED BY <1>1, <1>2, <1>3, <1>4, <1>5, <1>6 DEF Next, Query, Fleet

\* Two picks in a row from one list take two nodes, if two have room, however
\* the requests interleave between their queries (nodes.ts, rrCursorsByPool).
THEOREM RingMoves == Spec => RingAdvances
<1> DEFINE Holds == \A s \in Slots :
       LET pool == req[s].pool IN
       req[s].pc = "count" /\ req'[s].pc = "create" /\ req[s].cands = last[pool].cands
       /\ WithRoom(req[s].cands) # {last[pool].node}
         => req'[s].node # last[pool].node
<1>1. TypeOK /\ Rings /\ [Next]_vars => Holds \/ UNCHANGED vars
  <2> SUFFICES ASSUME TypeOK, Rings, Next, NEW s \in Slots,
                      req[s].pc = "count", req'[s].pc = "create", req[s].cands = last[req[s].pool].cands,
                      WithRoom(req[s].cands) # {last[req[s].pool].node}
               PROVE  req'[s].node # last[req[s].pool].node
    OBVIOUS
  <2> USE TypeFacts
  <2>0. req[s] \in Request /\ req[s].pool \in SUBSET Nodes /\ req[s].cands \in SUBSET Nodes
    BY Asks DEF Request
  <2>1. Pick(s)
    <3>1. ASSUME NEW x \in Slots, Step(x) PROVE x = s
      BY <3>1, Frame
    <3>2. Step(s) => Pick(s)
      <4>1. ~(Resolve(s) \/ ListCandidates(s) \/ FindDefault(s) \/ FindOnly(s) \/ Start(s) \/ Probe(s) \/ ChooseHolder(s))
        BY DEF Resolve, ListCandidates, FindDefault, FindOnly, Start, Probe, ChooseHolder
      <4>2. ~(CreateRow(s) \/ Provision(s) \/ ProvisionFails(s) \/ Terminate(s))
        BY DEF CreateRow, Provision, ProvisionFails, Terminate
      <4> QED BY <4>1, <4>2 DEF Step, Query
    <3>3. ASSUME NEW n \in Nodes, Drain(n) PROVE FALSE
      <4>1. req'[s] = [req[s] EXCEPT !.drained = req[s].drained \cup {n}]
        BY <3>3 DEF Drain
      <4> QED BY <2>0, <4>1 DEF Request
    <3>4. ASSUME NEW n \in Nodes, Fleet(n) PROVE FALSE
      BY <3>4 DEF Fleet, Undrain, GoesDown, ComesBack, Poll, Age
    <3>5. ~Restart
      BY DEF Restart, Idle
    <3> QED BY <3>1, <3>2, <3>3, <3>4, <3>5 DEF Next, Step, Query, Fleet
  <2>2. WithRoom(req[s].cands) # {}
    <3> SUFFICES ASSUME WithRoom(req[s].cands) = {} PROVE FALSE OBVIOUS
    <3>1. Fail(s) \/ \E pc \in {"only", "default"} : req' = [req EXCEPT ![s].pc = pc]
      BY <2>1 DEF Pick, NoPick
    <3> QED BY <2>0, <3>1 DEF Fail, Idle, Request
  <2>3. PICK n \in WithRoom(req[s].cands) :
          /\ n = NextInRing(req[s].cands, cursor[req[s].pool]) /\ req'[s].node = n
    BY <2>1, <2>2, Picked
  <2>4. PICK l : l = last[req[s].pool].node
    OBVIOUS
  <2>5. WithRoom(req[s].cands) \subseteq req[s].cands
    BY DEF WithRoom
  <2>6. Behind(req[s].pool)
    BY <2>0 DEF Rings
  <2>7. l \in req[s].cands
    BY <2>2, <2>4, <2>5, <2>6 DEF Behind
  <2>8. CASE Cardinality(req[s].cands) = 1
    <3>1. req[s].cands = {l}
      <4>1. IsFiniteSet(req[s].cands) /\ IsFiniteSet({l}) /\ Cardinality({l}) = 1
        BY <2>0, <2>7, IndexTypes, FS_Singleton
      <4>2. {l} \in SUBSET req[s].cands
        BY <2>7
      <4>3. Cardinality(req[s].cands) = Cardinality({l}) => {l} = req[s].cands
        BY <4>1, <4>2, FS_Subset
      <4> QED BY <2>8, <4>1, <4>3
    <3>2. WithRoom(req[s].cands) = {l}
      BY <2>2, <2>5, <3>1
    <3> QED BY <2>4, <3>2
  <2>9. CASE Cardinality(req[s].cands) # 1
    <3>1. cursor[req[s].pool] = Advance(l, req[s].cands)
      BY <2>4, <2>6, <2>7, <2>9 DEF Behind
    <3>2. PICK m \in WithRoom(req[s].cands) : m # l
      BY <2>2, <2>4
    <3>3. cursor[req[s].pool] \in Nat
      BY <2>0
    <3>4. PICK at \in Nat : at = cursor[req[s].pool]
      BY <3>3
    <3>5. Distance(n, req[s].cands, at) <= Distance(m, req[s].cands, at)
      BY <2>0, <2>2, <2>3, <3>2, <3>4, NextIsNearest
    <3>6. Distance(m, req[s].cands, at) < Distance(l, req[s].cands, at)
      BY <2>0, <2>5, <2>7, <2>9, <3>1, <3>2, <3>4, Farthest
    <3>7. /\ Distance(n, req[s].cands, at) \in Nat /\ Distance(m, req[s].cands, at) \in Nat
          /\ Distance(l, req[s].cands, at) \in Nat
      BY <2>0, <2>3, <2>5, <2>7, <3>2, DistanceTypes
    <3>8. n # l
      BY <3>5, <3>6, <3>7
    <3> QED BY <2>3, <2>4, <3>8
  <2> QED BY <2>8, <2>9
<1> QED BY <1>1, TypeInit, TypeStep, RingsInit, RingsStep, PTL DEF Spec, RingAdvances
=============================================================================
