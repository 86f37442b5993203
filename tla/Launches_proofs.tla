---------------------------- MODULE Launches_proofs ----------------------------
(***************************************************************************)
(* Proofs about Launches, for any number of requests, launches, labs and   *)
(* seats.                                                                  *)
(***************************************************************************)
EXTENDS Launches, FiniteSetTheorems, WellFoundedInduction, TLAPS

-----------------------------------------------------------------------------
(* Least and greatest numbers *)

LEMMA Least ==
  ASSUME NEW S \in SUBSET Nat, S # {}
  PROVE  \E x \in S : \A y \in S : x <= y
<1>1. \E x \in S : \A y \in S : ~ (<<y, x>> \in OpToRel(<, Nat))
  BY NatLessThanWellFounded, WFMin
<1>2. \A x, y \in Nat : y < x => <<y, x>> \in OpToRel(<, Nat)
  BY DEF OpToRel
<1>3. PICK x \in S : \A y \in S : ~ (<<y, x>> \in OpToRel(<, Nat))
  BY <1>1
<1>4. ASSUME NEW y \in S PROVE x <= y
  <2>1. x \in Nat /\ y \in Nat /\ ~(y < x)
    BY <1>2, <1>3
  <2> QED BY <2>1
<1> QED BY <1>4

LEMMA Greatest ==
  ASSUME NEW N \in Nat, NEW S \in SUBSET (1 .. N), S # {}
  PROVE  \E x \in S : \A y \in S : y <= x
<1> DEFINE D == {N - x : x \in S}
<1>1. \A x \in S : x \in Int /\ N - x \in Nat
  OBVIOUS
<1>2. D \in SUBSET Nat /\ D # {}
  BY <1>1
<1>3. PICK d \in D : \A e \in D : d <= e
  BY <1>2, Least
<1>4. PICK x \in S : d = N - x
  BY <1>3
<1>5. ASSUME NEW y \in S PROVE y <= x
  <2>1. N - y \in D /\ N - x <= N - y
    BY <1>3, <1>4
  <2>2. x \in Int /\ y \in Int
    OBVIOUS
  <2> QED BY <2>1, <2>2
<1> QED BY <1>5

\* The first seat of a batch, and the newest of some labs.
LEMMA FirstIsSeat == Batch # {} => First \in Batch
<1> SUFFICES ASSUME Batch # {} PROVE First \in Batch OBVIOUS
<1>1. Batch \in SUBSET Nat
  BY BoundsAssumption DEF Batch, Present, Ids
<1>2. \E l \in Batch : \A k \in Batch : l <= k
  BY <1>1, Least
<1> QED BY <1>2 DEF First

LEMMA NewestIsLab ==
  ASSUME NEW S \in SUBSET Labs, S # {}
  PROVE  Newest(S) \in S
<1>1. \E b \in S : \A c \in S : c <= b
  BY BoundsAssumption, Greatest DEF Labs
<1> QED BY <1>1 DEF Newest

-----------------------------------------------------------------------------
(* Type correctness *)

LaunchRow == [state: {"new", "present", "deleted"}, user: Users, born: Nat, exp: Nat,
              jti: Nat, redeemed: BOOLEAN, lab: Labs \cup {NoLab}]
LabRow == [status: {"unborn", "booting", "ready", "paused", "dead", "left"}, user: Users, exp: Nat]
Task == [op: Ops, pc: Pcs, row: Snapshot, todo: SUBSET Snapshot,
         lab: Labs \cup {NoLab}, seats: SUBSET (1..MaxSeats), ttl: Nat,
         made: SUBSET Url, ok: BOOLEAN]

Acting == {"stamp", "lookup", "create", "boot", "link"}

\* A request that works on a launch names it, and so does all it is still to
\* do; it boots and destroys labs that exist; its step is one of its operation.
Sound(x) ==
  /\ x.pc \in Acting => x.row.launch \in Ids
  /\ \A s \in x.todo : s.launch \in Ids /\ (s.live => s.lab \in Labs)
  /\ x.pc \in {"stamp", "boot", "link", "power"} => x.lab \in Labs
  /\ x.pc = "destroy" => \A s \in x.todo : s.lab \in Labs
  /\ x.pc = "idle" => x.op = "none" /\ x.todo = {}
  /\ x.pc \in Acting => x.op \in {"redeem", "prepare", "prepare_batch"}
  /\ x.pc = "stamp" => x.op = "redeem"
  /\ x.pc = "work" => x.op = "prepare_batch"
  /\ x.pc = "power" => x.op \in {"redeem", "prepare", "prepare_batch", "suspend", "start"}
  /\ x.pc = "destroy" => x.op \in {"terminate", "purge"}
  /\ x.pc = "extend" => x.op = "extend"
  /\ x.pc = "insert" => x.op = "seats"

Typed == TypeOK /\ \A r \in Requests : Sound(req[r])

LEMMA TypedFacts ==
  ASSUME Typed
  PROVE  /\ launch \in [Ids -> LaunchRow] /\ lab \in [Labs -> LabRow]
         /\ req \in [Requests -> Task] /\ \A r \in Requests : Sound(req[r])
         /\ now \in Nat /\ issued \in Nat /\ events \in Nat
         /\ urls \subseteq Url
BY DEF Typed, TypeOK, LaunchRow, LabRow, Task

\* What attaching a lab to a launch makes of its row.
LEMMA LinkedRow ==
  ASSUME launch \in [Ids -> LaunchRow], NEW r, NEW k \in Ids,
         launch' = [launch EXCEPT ![k].lab = req[r].lab,
                                  ![k].redeemed = @ \/ req[r].op = "redeem"]
  PROVE  /\ \A l \in Ids \ {k} : launch'[l] = launch[l]
         /\ launch'[k].lab = req[r].lab
         /\ launch'[k].state = launch[k].state /\ launch'[k].user = launch[k].user
         /\ launch'[k].jti = launch[k].jti /\ launch'[k].exp = launch[k].exp
<1>1. launch[k] \in LaunchRow /\ DOMAIN launch = Ids
  OBVIOUS
<1>2. \A l \in Ids \ {k} : launch'[l] = launch[l]
  BY <1>1
<1>3. launch'[k] = [launch[k] EXCEPT !.lab = req[r].lab,
                                     !.redeemed = @ \/ req[r].op = "redeem"]
  BY <1>1
<1>4. /\ launch'[k].lab = req[r].lab
      /\ launch'[k].state = launch[k].state /\ launch'[k].user = launch[k].user
      /\ launch'[k].jti = launch[k].jti /\ launch'[k].exp = launch[k].exp
  BY <1>1, <1>3 DEF LaunchRow
<1> QED BY <1>2, <1>4

\* A redeem and a link leave alone who a launch is for and what its URLs open.
LEMMA RowsStay ==
  ASSUME launch \in [Ids -> LaunchRow], NEW r, Stamp(r) \/ Link(r), NEW l \in Ids
  PROVE  /\ launch'[l].state = launch[l].state /\ launch'[l].user = launch[l].user
         /\ launch'[l].jti = launch[l].jti /\ launch'[l].exp = launch[l].exp
<1> DEFINE k == req[r].row.launch
<1>0. k \in Present => k \in Ids
  BY DEF Present
<1>1. CASE UNCHANGED launch
  BY <1>1
<1>2. CASE k \in Present /\ launch' = [launch EXCEPT ![k].redeemed = TRUE]
  <2>1. /\ \A j \in Ids \ {k} : launch'[j] = launch[j]
        /\ launch'[k] = [launch[k] EXCEPT !.redeemed = TRUE] /\ launch[k] \in LaunchRow
    BY <1>0, <1>2
  <2>2. /\ launch'[k].state = launch[k].state /\ launch'[k].user = launch[k].user
        /\ launch'[k].jti = launch[k].jti /\ launch'[k].exp = launch[k].exp
    BY <2>1 DEF LaunchRow
  <2> HIDE DEF k
  <2> QED BY <2>1, <2>2
<1>3. CASE k \in Present /\ Link(r)
  <2>1. k \in Ids /\ launch' = [launch EXCEPT ![k].lab = req[r].lab,
                                             ![k].redeemed = @ \/ req[r].op = "redeem"]
    BY <1>0, <1>3 DEF Link
  <2> HIDE DEF k
  <2>2. /\ \A j \in Ids \ {k} : launch'[j] = launch[j]
        /\ launch'[k].state = launch[k].state /\ launch'[k].user = launch[k].user
        /\ launch'[k].jti = launch[k].jti /\ launch'[k].exp = launch[k].exp
    BY <2>1, LinkedRow
  <2> QED BY <2>2
<1> QED BY <1>1, <1>2, <1>3 DEF Stamp, Link, Attachable

LEMMA Constants ==
  /\ 0 \in Users /\ 1 .. MaxSeats \subseteq Users
  /\ NoLab \notin Labs /\ 0 \notin Ids
  /\ Nothing \in Snapshot /\ Idle \in Task /\ Sound(Idle)
<1>1. 0 \in Users /\ 1 .. MaxSeats \subseteq Users /\ NoLab \notin Labs /\ 0 \notin Ids
  BY BoundsAssumption DEF Users, NoLab, Labs, Ids
<1>2. Nothing \in Snapshot
  BY DEF Nothing, Snapshot, NoLab
<1>3. Idle \in Task /\ Sound(Idle)
  BY <1>2 DEF Idle, Task, Sound, Ops, Pcs, Acting
<1> QED BY <1>1, <1>2, <1>3

\* A row as it is read.
LEMMA SnapTypes ==
  ASSUME Typed, NEW l \in Ids
  PROVE  /\ Snap(l) \in Snapshot /\ Snap(l).launch = l
         /\ Snap(l).live => Snap(l).lab \in LiveLabs /\ Snap(l).lab \in Labs
         /\ Snap(l).redeemed = launch[l].redeemed /\ Snap(l).lab = launch[l].lab
         /\ UserOf(Snap(l)) = launch[l].user
<1>1. launch[l] \in LaunchRow
  BY TypedFacts
<1> DEFINE live == launch[l].lab \in LiveLabs
<1>2. live \in BOOLEAN
  OBVIOUS
<1>3. Snap(l) = [launch |-> l, exp |-> launch[l].exp, lab |-> launch[l].lab,
                 live |-> live, paused |-> Paused(launch[l].lab), redeemed |-> launch[l].redeemed]
  BY DEF Snap
<1>4. live => launch[l].lab \in Labs
  BY DEF LiveLabs
<1>p. Paused(launch[l].lab) \in BOOLEAN
  BY DEF Paused
<1> HIDE DEF live
<1>5. Snap(l) \in Snapshot
  BY <1>1, <1>2, <1>3, <1>p DEF LaunchRow, Snapshot
<1>6. /\ Snap(l).launch = l /\ Snap(l).live = live
      /\ Snap(l).redeemed = launch[l].redeemed /\ Snap(l).lab = launch[l].lab
  BY <1>3
<1> USE DEF live
<1> QED BY <1>4, <1>5, <1>6 DEF UserOf

LEMMA UserTypes ==
  ASSUME Typed
  PROVE  /\ \A s \in Snapshot : s.launch \in Ids => UserOf(s) \in Users
         /\ \A r \in Requests : UsersOf(r) \subseteq Users
<1>1. \A s \in Snapshot : s.launch \in Ids => UserOf(s) \in Users
  BY TypedFacts DEF UserOf, LaunchRow
<1>2. ASSUME NEW r \in Requests PROVE UsersOf(r) \subseteq Users
  <2>1. req[r].row \in Snapshot /\ req[r].todo \subseteq Snapshot
    BY TypedFacts DEF Task
  <2>2. \A t \in Snapshot : t.launch # 0 => t.launch \in Ids
    BY DEF Snapshot
  <2> QED BY <1>1, <2>1, <2>2 DEF UsersOf
<1> QED BY <1>1, <1>2

\* One request changes.
LEMMA ReqTypes ==
  ASSUME Typed, NEW r \in Requests, NEW x \in Task, Sound(x), req' = [req EXCEPT ![r] = x]
  PROVE  /\ req' \in [Requests -> Task] /\ \A q \in Requests : Sound(req'[q])
         /\ req'[r] = x /\ \A q \in Requests \ {r} : req'[q] = req[q]
BY TypedFacts

\* What the worker of a batch prepare keeps when a seat is done.
Rest(x) == IF x.op = "prepare_batch" THEN [x EXCEPT !.pc = "work", !.row = Nothing, !.lab = NoLab] ELSE Idle
LEMMA FinishTypes ==
  ASSUME Typed, NEW r \in Requests, Finish(r)
  PROVE  /\ req' = [req EXCEPT ![r] = Rest(req[r])]
         /\ req' \in [Requests -> Task] /\ \A q \in Requests : Sound(req'[q])
         /\ req'[r] = Rest(req[r]) /\ \A q \in Requests \ {r} : req'[q] = req[q]
         /\ req'[r].pc \in {"idle", "work"} /\ req'[r].op \in {"none", "prepare_batch"}
         /\ req'[r].row = Nothing
         /\ req'[r].todo \subseteq req[r].todo
         /\ req'[r].pc = "work" => req[r].op = "prepare_batch"
<1>1. req[r] \in Task /\ Sound(req[r])
  BY TypedFacts
<1>2. req' = [req EXCEPT ![r] = Rest(req[r])]
  BY TypedFacts DEF Finish, Rest
<1>3. Rest(req[r]) \in Task /\ Sound(Rest(req[r]))
  <2>1. CASE req[r].op = "prepare_batch"
    <3>1. Rest(req[r]) = [req[r] EXCEPT !.pc = "work", !.row = Nothing, !.lab = NoLab]
      BY <2>1 DEF Rest
    <3>2. Rest(req[r]) \in Task
      BY <1>1, <3>1, Constants DEF Task, Pcs, NoLab
    <3>3. Rest(req[r]).pc = "work" /\ Rest(req[r]).op = "prepare_batch" /\ Rest(req[r]).todo = req[r].todo
      BY <1>1, <2>1, <3>1 DEF Task
    <3> QED BY <1>1, <3>2, <3>3 DEF Sound, Acting
  <2>2. CASE req[r].op # "prepare_batch"
    BY <2>2, Constants DEF Rest
  <2> QED BY <2>1, <2>2
<1>4. /\ Rest(req[r]).pc \in {"idle", "work"} /\ Rest(req[r]).op \in {"none", "prepare_batch"}
      /\ Rest(req[r]).row = Nothing
      /\ Rest(req[r]).todo \subseteq req[r].todo
      /\ Rest(req[r]).pc = "work" => req[r].op = "prepare_batch"
  BY <1>1 DEF Rest, Task, Idle
<1> QED BY <1>2, <1>3, <1>4, ReqTypes

\* A request that stamped or linked its launch goes on to the lab's resume or
\* is done.
LEMMA EnterTypes ==
  ASSUME Typed, NEW r \in Requests, req[r].pc \in {"stamp", "link"}, Enter(r) \/ Finish(r)
  PROVE  /\ req' \in [Requests -> Task] /\ \A q \in Requests : Sound(req'[q])
         /\ \A q \in Requests \ {r} : req'[q] = req[q]
         /\ req'[r].pc \in {"idle", "work", "power"}
         /\ req'[r].todo \subseteq req[r].todo /\ req'[r].made \subseteq req[r].made
         /\ req'[r].pc = "work" => req[r].op = "prepare_batch"
         /\ req'[r].op \in {"none", req[r].op}
         /\ req'[r].pc = "power" => req'[r].row = req[r].row
<1>t. req[r] \in Task /\ Sound(req[r]) /\ req \in [Requests -> Task]
  BY TypedFacts
<1>1. CASE Finish(r)
  <2>1. Rest(req[r]).made \subseteq req[r].made /\ Rest(req[r]).op \in {"none", req[r].op}
    BY <1>t DEF Rest, Task, Idle
  <2> QED BY <1>1, <2>1, FinishTypes
<1>2. CASE Goto(r, "power")
  <2> DEFINE x == [req[r] EXCEPT !.pc = "power"]
  <2>1. req' = [req EXCEPT ![r] = x]
    BY <1>t, <1>2 DEF Goto
  <2>2. x \in Task /\ x.pc = "power" /\ x.todo = req[r].todo /\ x.made = req[r].made
        /\ x.op = req[r].op /\ x.lab = req[r].lab /\ x.row = req[r].row
    BY <1>t DEF Task, Pcs
  <2>3. req[r].op \in {"redeem", "prepare", "prepare_batch"} /\ req[r].lab \in Labs
    BY <1>t DEF Sound, Acting
  <2> HIDE DEF x
  <2>4. Sound(x)
    BY <1>t, <2>2, <2>3 DEF Sound, Acting
  <2> QED BY <2>1, <2>2, <2>4, ReqTypes
<1> QED BY <1>1, <1>2 DEF Enter

\* A request begins.
LEMMA BeginTypes ==
  ASSUME Typed, NEW r \in Requests, NEW x \in Task, Sound(x), Begin(r, x)
  PROVE  /\ req[r].pc = "idle"
         /\ req' \in [Requests -> Task] /\ \A q \in Requests : Sound(req'[q])
         /\ req'[r] = x /\ \A q \in Requests \ {r} : req'[q] = req[q]
BY ReqTypes DEF Begin

\* A row is inserted.
LEMMA InsertTypes ==
  ASSUME Typed, NEW l \in Ids, NEW u \in Users, NEW ttl \in Nat, Insert(l, u, ttl)
  PROVE  /\ launch' \in [Ids -> LaunchRow] /\ issued' \in Nat /\ down' \subseteq Users
         /\ launch' = [launch EXCEPT ![l] = NewRow(u, ttl)]
         /\ NewUrl(l, ttl) \in Url
<1>1. NewRow(u, ttl) \in LaunchRow
  BY TypedFacts DEF NewRow, LaunchRow, NoLab
<1>2. NewUrl(l, ttl) \in Url
  BY TypedFacts DEF NewUrl, Url
<1> QED BY <1>1, <1>2, TypedFacts DEF Insert, Typed, TypeOK

\* Changes of a field.
LEMMA FieldTypes ==
  /\ \A x \in LaunchRow : /\ [x EXCEPT !.redeemed = TRUE] \in LaunchRow
                          /\ [x EXCEPT !.state = "deleted"] \in LaunchRow
  /\ \A x \in LaunchRow, n \in Nat : [x EXCEPT !.exp = n] \in LaunchRow
  /\ \A x \in LabRow : /\ \A n \in Nat : [x EXCEPT !.exp = n] \in LabRow
                       /\ \A status \in {"ready", "paused", "dead", "left"} : [x EXCEPT !.status = status] \in LabRow
<1>1. \A x \in LaunchRow : /\ [x EXCEPT !.redeemed = TRUE] \in LaunchRow
                           /\ [x EXCEPT !.state = "deleted"] \in LaunchRow
  BY DEF LaunchRow
<1>2. \A x \in LaunchRow, n \in Nat : [x EXCEPT !.exp = n] \in LaunchRow
  BY DEF LaunchRow
<1>3. \A x \in LabRow : /\ \A n \in Nat : [x EXCEPT !.exp = n] \in LabRow
                        /\ \A status \in {"ready", "paused", "dead", "left"} : [x EXCEPT !.status = status] \in LabRow
  BY DEF LabRow
<1> QED BY <1>1, <1>2, <1>3

LEMMA RevokedTypes ==
  ASSUME Typed, NEW x \in LaunchRow
  PROVE  Revoked(x) \in LaunchRow
BY TypedFacts DEF Revoked, LaunchRow, NoJti

LEMMA EndTypes ==
  ASSUME Typed, NEW b \in Labs, NEW others \in SUBSET Requests, NEW status \in {"dead", "left"},
         Ends(b, status, others)
  PROVE  lab' \in [Labs -> LabRow] /\ raced' \subseteq Users
<1>1. lab' \in [Labs -> LabRow]
  BY TypedFacts, FieldTypes DEF Ends
<1>2. lab[b].user \in Users
  BY TypedFacts DEF LabRow
<1> QED BY <1>1, <1>2 DEF Ends, Typed, TypeOK

\* How a lab ends.
LEMMA EndKinds ==
  ASSUME Typed, NEW b \in Labs, End(b)
  PROVE  /\ \E status \in {"dead", "left"} : Ends(b, status, Requests)
         /\ lab' \in [Labs -> LabRow] /\ raced' \subseteq Users /\ events' \in Nat
<1>1. \E status \in {"dead", "left"} : Ends(b, status, Requests)
  BY DEF End
<1>2. events' \in Nat
  BY TypedFacts DEF End, Event
<1> QED BY <1>1, <1>2, EndTypes

LEMMA TypedInit == Init => Typed
<1> SUFFICES ASSUME Init PROVE Typed OBVIOUS
<1>1. NoRow \in LaunchRow /\ Unborn \in LabRow
  BY Constants DEF NoRow, Unborn, LaunchRow, LabRow, NoJti, NoLab
<1>2. launch \in [Ids -> LaunchRow] /\ lab \in [Labs -> LabRow]
  BY <1>1 DEF Init
<1>3. req \in [Requests -> Task] /\ \A r \in Requests : Sound(req[r])
  BY Constants DEF Init
<1>4. billed \in [Ids -> Bill] /\ urls \subseteq Url
  BY DEF Init, Bill, NoBill
<1> QED BY <1>2, <1>3, <1>4 DEF Init, Typed, TypeOK, LaunchRow, LabRow, Task

\* Every step is one of these.
ReqStep(r) ==
  \/ CreateBatch(r) \/ AddSeats(r) \/ AnswerSeats(r)
  \/ \E s \in 1..MaxSeats : InsertFails(r, s) \/ \E l \in Ids : InsertSeat(r, s, l)
  \/ \E u \in urls : Redeem(r, u)
  \/ \E l \in Ids : Prepare(r, l)
  \/ Stamp(r) \/ PrepareBatch(r) \/ TakeSeat(r) \/ FindOwn(r) \/ FindNone(r)
  \/ \E b \in Labs : Claim(r, b) \/ CreateLab(r, b)
  \/ Boot(r) \/ BootFails(r) \/ Link(r) \/ LinkFails(r)
  \/ \E b \in Labs, op \in {"suspend", "start"} : Power(r, b, op)
  \/ PowerWrites(r) \/ PowerFails(r)
  \/ Terminate(r) \/ Purge(r) \/ Destroy(r) \/ DestroyFails(r) \/ RevokeAll(r) \/ DeleteAll(r)
  \/ ExtendReads(r) \/ Extend(r)
OtherStep ==
  \/ \E l \in Ids : CreateLaunch(l) \/ Revoke(l) \/ Preview(l) \/ \E ttl \in {1, 2} : Regenerate(l, ttl)
  \/ \E l \in Ids : Emitted(l) \/ EmitFails(l)
  \/ RevokeBatch \/ Tick \/ Crash
  \/ \E b \in Labs : LabEnds(b)
LEMMA StepKinds == Next => (\E r \in Requests : ReqStep(r)) \/ OtherStep
BY Zenon DEF Next, ReqStep, OtherStep

\* The type invariant after a step, from its parts.
LEMMA TypedNext ==
  ASSUME launch' \in [Ids -> LaunchRow], lab' \in [Labs -> LabRow], req' \in [Requests -> Task],
         \A r \in Requests : Sound(req'[r]),
         now' \in Nat, issued' \in Nat, events' \in Nat, urls' \subseteq Url,
         billed' \in [Ids -> Bill], crossed' \subseteq Ids,
         raced' \subseteq Users, stranded' \subseteq Users, late' \subseteq Users, down' \subseteq Users,
         muddled' \in BOOLEAN
  PROVE  Typed'
BY DEF Typed, TypeOK, LaunchRow, LabRow, Task

LEMMA Untyped ==
  ASSUME Typed
  PROVE  /\ now \in Nat /\ issued \in Nat /\ events \in Nat /\ urls \subseteq Url
         /\ billed \in [Ids -> Bill] /\ crossed \subseteq Ids
         /\ raced \subseteq Users /\ stranded \subseteq Users /\ late \subseteq Users
         /\ down \subseteq Users /\ muddled \in BOOLEAN
BY DEF Typed, TypeOK

\* What a request reads to begin with.
LEMMA ReadTypes ==
  ASSUME Typed, NEW S \in SUBSET Ids
  PROVE  /\ Snaps(S) \subseteq Snapshot /\ \A s \in Snaps(S) : s.launch \in S
         /\ \A s \in Snaps(S) : s.live => s.lab \in Labs
         /\ \A s \in Snaps(S) : UserOf(s) \in Users
BY SnapTypes, UserTypes DEF Snaps

\* What of a snapshot is kept for the link.
LEMMA LinkingTypes ==
  ASSUME NEW s \in Snapshot, s.launch \in Ids, NEW paused \in BOOLEAN
  PROVE  /\ Linking(s, paused) \in Snapshot
         /\ Linking(s, paused).launch = s.launch /\ Linking(s, paused).redeemed = s.redeemed
BY Constants DEF Linking, Snapshot, Nothing

\* An event becomes due, and is written or lost.
Total(x) == x.due + x.written + x.lost
LEMMA BillSteps ==
  ASSUME NEW x \in Bill
  PROVE  /\ Total(x) \in Nat
         /\ [x EXCEPT !.due = @ + 1] \in Bill /\ Total([x EXCEPT !.due = @ + 1]) = Total(x) + 1
         /\ \A v, m \in Nat : v + m <= x.due => Settled(x, v, m) \in Bill /\ Total(Settled(x, v, m)) = Total(x)
<1>1. PICK d, w, n \in Nat : x = [due |-> d, written |-> w, lost |-> n]
  BY DEF Bill
<1>2. [x EXCEPT !.due = @ + 1] = [due |-> d + 1, written |-> w, lost |-> n]
  BY <1>1
<1>3. /\ Total(x) = d + w + n
      /\ [x EXCEPT !.due = @ + 1] \in Bill /\ Total([x EXCEPT !.due = @ + 1]) = d + 1 + w + n
  BY <1>1, <1>2 DEF Bill, Total
<1>4. ASSUME NEW v \in Nat, NEW m \in Nat, v + m <= x.due
      PROVE  Settled(x, v, m) \in Bill /\ Total(Settled(x, v, m)) = Total(x)
  <2>1. d - (v + m) \in Nat /\ Settled(x, v, m) = [due |-> d - (v + m), written |-> w + v, lost |-> n + m]
    BY <1>1, <1>4 DEF Settled
  <2>2. Settled(x, v, m) \in Bill /\ Total(Settled(x, v, m)) = d - (v + m) + (w + v) + (n + m)
    BY <2>1 DEF Bill, Total
  <2> QED BY <1>3, <2>2
<1>5. Total(x) \in Nat /\ d + 1 + w + n = Total(x) + 1
  BY <1>3
<1> QED BY <1>3, <1>4, <1>5

LEMMA DueTypes ==
  ASSUME billed \in [Ids -> Bill], NEW l \in Ids, billed' = [billed EXCEPT ![l].due = @ + 1]
  PROVE  /\ billed' \in [Ids -> Bill]
         /\ Total(billed'[l]) = Total(billed[l]) + 1
         /\ \A k \in Ids \ {l} : billed'[k] = billed[k]
<1>1. billed[l] \in Bill
  OBVIOUS
<1>2. billed' = [billed EXCEPT ![l] = [billed[l] EXCEPT !.due = @ + 1]]
  OBVIOUS
<1> QED BY <1>1, <1>2, BillSteps

\* Events that are written or lost stay counted.
LEMMA SettleTypes ==
  ASSUME billed \in [Ids -> Bill], Crash \/ \E l \in Ids : Emitted(l) \/ EmitFails(l)
  PROVE  billed' \in [Ids -> Bill] /\ \A k \in Ids : Total(billed'[k]) = Total(billed[k])
<1>t. \A l \in Ids : billed[l] \in Bill /\ billed[l].due \in Nat
  BY DEF Bill
<1>1. CASE Crash
  <2>1. billed' = [l \in Ids |-> Settled(billed[l], 0, billed[l].due)]
    BY <1>1 DEF Crash
  <2>2. ASSUME NEW l \in Ids
        PROVE  /\ Settled(billed[l], 0, billed[l].due) \in Bill
               /\ Total(Settled(billed[l], 0, billed[l].due)) = Total(billed[l])
    <3>1. 0 + billed[l].due <= billed[l].due /\ billed[l].due \in Nat /\ 0 \in Nat
      BY <1>t
    <3> QED BY <1>t, <3>1, BillSteps
  <2> QED BY <2>1, <2>2
<1>2. ASSUME NEW l \in Ids, Emitted(l) \/ EmitFails(l)
      PROVE  billed' \in [Ids -> Bill] /\ \A k \in Ids : Total(billed'[k]) = Total(billed[k])
  <2>1. PICK v, m \in Nat : /\ v + m <= billed[l].due
                            /\ billed' = [billed EXCEPT ![l] = Settled(billed[l], v, m)]
    <3>1. CASE Emitted(l)
      <4>1. billed' = [billed EXCEPT ![l] = Settled(billed[l], 1, 0)] /\ 1 + 0 <= billed[l].due
        BY <1>t, <3>1 DEF Emitted
      <4> QED BY <4>1
    <3>2. CASE EmitFails(l)
      <4>1. billed' = [billed EXCEPT ![l] = Settled(billed[l], 0, 1)] /\ 0 + 1 <= billed[l].due
        BY <1>t, <3>2 DEF EmitFails
      <4> QED BY <4>1
    <3> QED BY <1>2, <3>1, <3>2
  <2>2. Settled(billed[l], v, m) \in Bill /\ Total(Settled(billed[l], v, m)) = Total(billed[l])
    BY <1>t, <2>1, BillSteps
  <2> QED BY <2>1, <2>2
<1> QED BY <1>1, <1>2

LEMMA TypedReqStep ==
  ASSUME Typed, NEW r \in Requests, ReqStep(r)
  PROVE  Typed'
<1>t. /\ launch \in [Ids -> LaunchRow] /\ lab \in [Labs -> LabRow]
      /\ req \in [Requests -> Task] /\ req[r] \in Task /\ Sound(req[r])
      /\ \A q \in Requests : Sound(req[q])
  BY TypedFacts
<1>u. /\ now \in Nat /\ issued \in Nat /\ events \in Nat /\ urls \subseteq Url
      /\ billed \in [Ids -> Bill] /\ crossed \subseteq Ids
      /\ raced \subseteq Users /\ stranded \subseteq Users /\ late \subseteq Users
      /\ down \subseteq Users /\ muddled \in BOOLEAN
  BY Untyped
<1>e. Event => events' \in Nat
  BY <1>u DEF Event
<1>b. Batch \subseteq Ids
  BY DEF Batch, Present
\* A request takes its next state, and little else happens.
<1>q. ASSUME NEW x \in Task, Sound(x), req' = [req EXCEPT ![r] = x],
             UNCHANGED <<now, launch, lab, issued, urls, billed, down>>,
             events' \in Nat, crossed' \subseteq Ids, raced' \subseteq Users, stranded' \subseteq Users,
             late' \subseteq Users, muddled' \in BOOLEAN
      PROVE  Typed'
  <2>1. req' \in [Requests -> Task] /\ \A q \in Requests : Sound(req'[q])
    BY <1>q, ReqTypes
  <2> QED BY <1>q, <1>t, <1>u, <2>1, TypedNext
<1>m. (muddled' = (muddled \/ Adding)) => muddled' \in BOOLEAN
  OBVIOUS
<1>1. CASE CreateBatch(r)
  <2>1. PICK k \in {1, 2} \cap 1..MaxSeats :
          Begin(r, [Idle EXCEPT !.op = "seats", !.pc = "insert", !.seats = 1..k, !.ttl = 2])
    BY <1>1 DEF CreateBatch
  <2> DEFINE x == [Idle EXCEPT !.op = "seats", !.pc = "insert", !.seats = 1..k, !.ttl = 2]
  <2>2. 1..k \subseteq 1..MaxSeats
    BY BoundsAssumption
  <2>3. x \in Task /\ Sound(x)
    BY <2>2, Constants DEF Task, Sound, Ops, Pcs, Acting, Idle
  <2>4. req' = [req EXCEPT ![r] = x]
    BY <2>1 DEF Begin
  <2> HIDE DEF x
  <2> QED BY <1>1, <1>q, <1>e, <1>u, <1>m, <2>3, <2>4 DEF CreateBatch, history
<1>2. CASE AddSeats(r)
  <2> DEFINE n == Cardinality(Batch)
  <2>1. PICK k \in {1, 2} : /\ n + k <= MaxSeats
          /\ Begin(r, [Idle EXCEPT !.op = "seats", !.pc = "insert", !.seats = n + 1 .. n + k, !.ttl = Lifetime])
    BY <1>2 DEF AddSeats
  <2>0. n \in Nat
    <3>1. IsFiniteSet(Ids)
      BY BoundsAssumption, FS_Interval DEF Ids
    <3> QED BY <1>b, <3>1, FS_Subset, FS_CardinalityType
  <2>2. n + 1 .. n + k \subseteq 1..MaxSeats
    BY <2>0, <2>1, BoundsAssumption
  <2>3. Lifetime \in Nat
    <3>1. launch[First] \in LaunchRow
      BY <1>2, <1>t, <1>b, FirstIsSeat DEF AddSeats
    <3>2. launch[First].exp \in Nat /\ launch[First].born \in Nat
      BY <3>1 DEF LaunchRow
    <3> QED BY <3>2 DEF Lifetime
  <2> HIDE DEF n
  <2> DEFINE S == n + 1 .. n + k
             x == [Idle EXCEPT !.op = "seats", !.pc = "insert", !.seats = S, !.ttl = Lifetime]
  <2>4. req' = [req EXCEPT ![r] = x]
    BY <2>1 DEF Begin
  <2> HIDE DEF S
  <2>5. x \in Task /\ Sound(x)
    BY <2>2, <2>3, Constants DEF S, Task, Sound, Ops, Pcs, Acting, Idle
  <2> HIDE DEF x
  <2> QED BY <1>2, <1>q, <1>e, <1>u, <1>m, <2>4, <2>5 DEF AddSeats, history
<1>3. CASE AnswerSeats(r)
  <2>1. urls' \subseteq Url
    BY <1>3, <1>t, <1>u DEF AnswerSeats, Task
  <2>2. req' \in [Requests -> Task] /\ \A q \in Requests : Sound(req'[q])
    BY <1>3, FinishTypes DEF AnswerSeats
  <2> QED BY <1>3, <1>t, <1>u, <2>1, <2>2, TypedNext DEF AnswerSeats, ghosts, history
<1>4. ASSUME NEW s \in 1..MaxSeats, InsertFails(r, s) PROVE Typed'
  <2> DEFINE x == [req[r] EXCEPT !.seats = @ \ {s}, !.ok = FALSE]
  <2>1. req' = [req EXCEPT ![r] = x]
    BY <1>4, <1>t DEF InsertFails
  <2>2. x \in Task /\ Sound(x)
    BY <1>4, <1>t DEF InsertFails, Task, Sound, Acting
  <2> HIDE DEF x
  <2> QED BY <1>4, <1>q, <1>e, <1>u, <2>1, <2>2 DEF InsertFails, history
<1>5. ASSUME NEW s \in 1..MaxSeats, NEW l \in Ids, InsertSeat(r, s, l) PROVE Typed'
  <2> DEFINE x == [req[r] EXCEPT !.seats = @ \ {s}, !.made = @ \cup {NewUrl(l, req[r].ttl)}]
  <2>0. req[r].ttl \in Nat /\ s \in Users
    BY <1>t, Constants DEF Task
  <2>1. /\ launch' \in [Ids -> LaunchRow] /\ issued' \in Nat /\ down' \subseteq Users
        /\ NewUrl(l, req[r].ttl) \in Url
    BY <1>5, <2>0, InsertTypes DEF InsertSeat
  <2>2. req' = [req EXCEPT ![r] = x]
    BY <1>5, <1>t DEF InsertSeat
  <2>3. x \in Task /\ Sound(x)
    BY <1>5, <1>t, <2>1 DEF InsertSeat, Task, Sound, Acting
  <2> HIDE DEF x
  <2>4. req' \in [Requests -> Task] /\ \A q \in Requests : Sound(req'[q])
    BY <2>2, <2>3, ReqTypes
  <2> QED BY <1>5, <1>t, <1>u, <2>1, <2>4, TypedNext DEF InsertSeat
<1>6. ASSUME NEW u \in urls, Redeem(r, u) PROVE Typed'
  <2> DEFINE s == Snap(u.launch)
             x == [Idle EXCEPT !.op = "redeem", !.row = s, !.lab = s.lab,
                               !.pc = IF ~s.live THEN "lookup" ELSE IF s.redeemed THEN "power" ELSE "stamp"]
  <2>1. u.launch \in Ids
    BY <1>u DEF Url
  <2>2. s \in Snapshot /\ s.launch \in Ids /\ UserOf(s) \in Users /\ (s.live => s.lab \in Labs)
    BY <2>1, SnapTypes, UserTypes
  <2>3. req' = [req EXCEPT ![r] = x] /\ Arrives({UserOf(s)})
    BY <1>6 DEF Redeem, Begin
  <2>4. crossed' \subseteq Ids
    BY <1>6, <1>u, <2>1 DEF Redeem
  <2> HIDE DEF s
  <2>5. x \in Task /\ Sound(x)
    <3>1. Idle \in Task
      BY Constants
    <3>2. x \in Task
      <4>1. s.lab \in Labs \cup {NoLab}
        BY <2>2 DEF Snapshot
      <4>2. {"stamp", "lookup", "power"} \subseteq Pcs /\ "redeem" \in Ops
        BY DEF Pcs, Ops
      <4> QED BY <2>2, <3>1, <4>1, <4>2 DEF Task
    <3>3. /\ x.op = "redeem" /\ x.row = s /\ x.pc \in {"stamp", "lookup", "power"}
          /\ x.todo = {} /\ x.lab = s.lab /\ (x.pc \in {"stamp", "power"} => s.live)
      BY DEF Idle
    <3> QED BY <2>2, <3>2, <3>3 DEF Sound, Acting
  <2> HIDE DEF x
  <2>6. late' \subseteq Users
    BY <1>u, <2>2, <2>3 DEF Arrives
  <2> QED BY <1>6, <1>q, <1>e, <1>u, <2>3, <2>4, <2>5, <2>6 DEF Redeem
<1>7. ASSUME NEW l \in Ids, Prepare(r, l) PROVE Typed'
  <2> DEFINE s == Snap(l)
             x == [Idle EXCEPT !.op = "prepare", !.pc = Fits(s), !.row = s, !.lab = s.lab]
  <2>1. /\ s \in Snapshot /\ s.launch \in Ids /\ launch[l].user \in Users
        /\ s.live => s.lab \in Labs
    BY <1>t, SnapTypes DEF LaunchRow
  <2>p. Fits(s) \in {"lookup", "power"} /\ (Fits(s) = "power" => s.live) /\ s.lab \in Labs \cup {NoLab}
    BY <2>1 DEF Fits, Snapshot
  <2>2. req' = [req EXCEPT ![r] = x] /\ Arrives({launch[l].user})
    BY <1>7 DEF Prepare, Begin
  <2> HIDE DEF s
  <2>3. x \in Task /\ Sound(x)
    BY <2>1, <2>p, Constants DEF Task, Sound, Ops, Pcs, Acting, Idle
  <2> HIDE DEF x
  <2>4. late' \subseteq Users
    BY <1>u, <2>1, <2>2 DEF Arrives
  <2> QED BY <1>7, <1>q, <1>e, <1>u, <2>2, <2>3, <2>4 DEF Prepare
<1>8. CASE Stamp(r)
  <2>1. launch' \in [Ids -> LaunchRow] /\ billed' \in [Ids -> Bill]
    <3> DEFINE l == req[r].row.launch
    <3>1. CASE l \in Present
      <4>1. /\ launch' = [launch EXCEPT ![l] = [launch[l] EXCEPT !.redeemed = TRUE]]
            /\ billed' = [billed EXCEPT ![l].due = @ + 1] /\ l \in Ids
        BY <1>8, <1>t, <1>u, <3>1 DEF Stamp, Present
      <4> HIDE DEF l
      <4>2. [launch[l] EXCEPT !.redeemed = TRUE] \in LaunchRow
        BY <1>t, <4>1, FieldTypes
      <4>3. billed' \in [Ids -> Bill]
        BY <1>u, <4>1, DueTypes
      <4> QED BY <1>t, <4>1, <4>2, <4>3
    <3>2. CASE l \notin Present
      BY <1>8, <1>t, <1>u, <3>2 DEF Stamp
    <3> QED BY <3>1, <3>2
  <2>2. req' \in [Requests -> Task] /\ \A q \in Requests : Sound(req'[q])
    BY <1>8, EnterTypes DEF Stamp
  <2> QED BY <1>8, <1>t, <1>u, <2>1, <2>2, TypedNext DEF Stamp
<1>9. CASE PrepareBatch(r)
  <2> DEFINE L == {l \in Batch : launch[l].exp > now}
             open == {s \in Snaps(L) : s.live => s.paused}
             x == [Idle EXCEPT !.op = "prepare_batch", !.pc = "work", !.todo = open]
  <2>1. /\ open \subseteq Snapshot /\ \A s \in open : s.launch \in Ids /\ (s.live => s.lab \in Labs)
        /\ {UserOf(s) : s \in open} \subseteq Users
    <3>1. L \in SUBSET Ids
      BY <1>b
    <3> HIDE DEF L
    <3> QED BY <3>1, ReadTypes
  <2>2. req' = [req EXCEPT ![r] = x] /\ Arrives({UserOf(s) : s \in open})
    BY <1>9 DEF PrepareBatch, Begin
  <2> HIDE DEF open
  <2>3. x \in Task /\ Sound(x)
    BY <2>1, Constants DEF Task, Sound, Ops, Pcs, Acting, Idle
  <2> HIDE DEF x
  <2>4. late' \subseteq Users
    BY <1>u, <2>1, <2>2 DEF Arrives
  <2> QED BY <1>9, <1>q, <1>e, <1>u, <2>2, <2>3, <2>4 DEF PrepareBatch
<1>10. CASE TakeSeat(r)
  <2>1. PICK x \in Task : Sound(x) /\ req' = [req EXCEPT ![r] = x]
    <3>1. CASE req[r].todo = {}
      BY <1>10, <3>1, Constants DEF TakeSeat
    <3>2. CASE req[r].todo # {}
      <4>1. PICK s \in req[r].todo :
              req' = [req EXCEPT ![r].todo = @ \ {s}, ![r].row = s, ![r].lab = s.lab, ![r].pc = Fits(s)]
        BY <1>10, <3>2 DEF TakeSeat
      <4> DEFINE x == [req[r] EXCEPT !.todo = @ \ {s}, !.row = s, !.lab = s.lab, !.pc = Fits(s)]
      <4>2. req' = [req EXCEPT ![r] = x]
        BY <1>t, <4>1
      <4>3. /\ s \in Snapshot /\ s.launch \in Ids /\ (s.live => s.lab \in Labs)
            /\ Fits(s) \in {"lookup", "power"} /\ (Fits(s) = "power" => s.live) /\ s.lab \in Labs \cup {NoLab}
        BY <1>t DEF Task, Sound, Snapshot, Fits
      <4>4. x \in Task
        BY <1>t, <4>3 DEF Task, Pcs
      <4>5. Sound(x)
        BY <1>10, <1>t, <4>3 DEF TakeSeat, Task, Sound, Acting
      <4> QED BY <4>2, <4>4, <4>5
    <3> QED BY <3>1, <3>2
  <2> QED BY <1>10, <1>q, <1>u, <2>1 DEF TakeSeat, ghosts, history
<1>11. CASE FindOwn(r)
  <2> DEFINE own == LabsOf(UserOf(req[r].row))
             b == Newest(own)
             p == Paused(b)
             x == [req[r] EXCEPT !.pc = "link", !.lab = b, !.row = Linking(@, p)]
  <2>1. b \in Labs
    <3>1. own \in SUBSET Labs /\ own # {}
      BY <1>11 DEF FindOwn, LabsOf, LiveLabs
    <3> HIDE DEF own
    <3>2. Newest(own) \in own
      BY <3>1, NewestIsLab
    <3> QED BY <3>1, <3>2
  <2>2. req' = [req EXCEPT ![r] = x]
    BY <1>11, <1>t DEF FindOwn
  <2>3. lab' \in {lab, [lab EXCEPT ![b].exp = req[r].row.exp]}
    BY <1>11 DEF FindOwn
  <2>p. p \in BOOLEAN
    BY DEF Paused
  <2> HIDE DEF b, p
  <2>4. req[r].row \in Snapshot /\ req[r].row.launch \in Ids
    BY <1>11, <1>t DEF FindOwn, Task, Sound, Acting
  <2>5. Linking(req[r].row, p) \in Snapshot /\ Linking(req[r].row, p).launch = req[r].row.launch
    BY <2>4, <2>p, LinkingTypes
  <2>6. x \in Task /\ Sound(x)
    BY <1>11, <1>t, <2>1, <2>4, <2>5 DEF FindOwn, Task, Pcs, Sound, Acting
  <2> HIDE DEF x
  <2>7. lab' \in [Labs -> LabRow]
    <3>1. req[r].row.exp \in Nat
      BY <2>4 DEF Snapshot
    <3>2. [lab[b] EXCEPT !.exp = req[r].row.exp] \in LabRow
      BY <1>t, <2>1, <3>1, FieldTypes
    <3>3. [lab EXCEPT ![b] = [lab[b] EXCEPT !.exp = req[r].row.exp]] \in [Labs -> LabRow]
      BY <1>t, <3>2
    <3> QED BY <1>t, <2>1, <2>3, <3>3
  <2>8. req' \in [Requests -> Task] /\ \A q \in Requests : Sound(req'[q])
    BY <2>2, <2>6, ReqTypes
  <2> QED BY <1>11, <1>t, <1>u, <2>7, <2>8, TypedNext DEF FindOwn, ghosts, history
<1>12. CASE FindNone(r)
  <2> DEFINE x == [req[r] EXCEPT !.pc = "create"]
  <2>1. req' = [req EXCEPT ![r] = x]
    BY <1>12, <1>t DEF FindNone, Goto
  <2>2. x \in Task /\ Sound(x)
    BY <1>12, <1>t DEF FindNone, Task, Pcs, Sound, Acting
  <2>3. raced' \subseteq Users
    <3>1. UserOf(req[r].row) \in Users
      BY <1>12, <1>t, UserTypes DEF FindNone, Task, Sound, Acting
    <3> QED BY <1>12, <1>u, <3>1 DEF FindNone
  <2> HIDE DEF x
  <2> QED BY <1>12, <1>q, <1>u, <2>1, <2>2, <2>3 DEF FindNone
<1>13. ASSUME NEW b \in Labs, Claim(r, b) \/ CreateLab(r, b) PROVE Typed'
  <2>1. PICK status \in {"ready", "booting"} : Acquire(r, b, status)
    BY <1>13 DEF Claim, CreateLab
  <2> DEFINE y == [status |-> status, user |-> UserOf(req[r].row), exp |-> req[r].row.exp]
             pc == IF status = "ready" THEN "link" ELSE "boot"
             x == [req[r] EXCEPT !.lab = b, !.row = Linking(@, FALSE), !.pc = pc]
  <2>2. lab' = [lab EXCEPT ![b] = y] /\ req' = [req EXCEPT ![r] = x]
    BY <1>t, <2>1 DEF Acquire
  <2>3. req[r].row \in Snapshot /\ req[r].row.launch \in Ids
    BY <1>t, <2>1 DEF Acquire, Task, Sound, Acting
  <2>4. y \in LabRow
    <3>1. UserOf(req[r].row) \in Users /\ req[r].row.exp \in Nat
      BY <2>3, UserTypes DEF Snapshot
    <3> QED BY <3>1 DEF LabRow
  <2>5. Linking(req[r].row, FALSE) \in Snapshot /\ Linking(req[r].row, FALSE).launch = req[r].row.launch
    BY <2>3, LinkingTypes
  <2>6. pc \in {"link", "boot"}
    OBVIOUS
  <2> HIDE DEF pc, y
  <2>7. x \in Task /\ Sound(x)
    <3>1. req[r].pc = "create"
      BY <2>1 DEF Acquire
    <3> QED BY <1>t, <2>3, <2>5, <2>6, <3>1 DEF Task, Pcs, Sound, Acting
  <2> HIDE DEF x
  <2>8. lab' \in [Labs -> LabRow]
    BY <1>t, <2>2, <2>4
  <2>9. req' \in [Requests -> Task] /\ \A q \in Requests : Sound(req'[q])
    BY <2>2, <2>7, ReqTypes
  <2> QED BY <1>t, <1>u, <2>1, <2>8, <2>9, TypedNext DEF Acquire, ghosts, history
<1>14. CASE Boot(r)
  <2> DEFINE x == [req[r] EXCEPT !.pc = "link"]
  <2>1. req' = [req EXCEPT ![r] = x]
    BY <1>14, <1>t DEF Boot, Goto
  <2>2. x \in Task /\ Sound(x)
    BY <1>14, <1>t DEF Boot, Task, Pcs, Sound, Acting
  <2>3. lab' \in [Labs -> LabRow]
    BY <1>14, <1>t, FieldTypes DEF Boot
  <2> HIDE DEF x
  <2>4. req' \in [Requests -> Task] /\ \A q \in Requests : Sound(req'[q])
    BY <2>1, <2>2, ReqTypes
  <2> QED BY <1>14, <1>t, <1>u, <2>3, <2>4, TypedNext DEF Boot, ghosts, history
<1>15. CASE BootFails(r)
  <2>1. req[r].lab \in Labs
    BY <1>15, <1>t DEF BootFails, Sound
  <2>2. lab' \in [Labs -> LabRow] /\ raced' \subseteq Users
    BY <1>15, <2>1, EndTypes DEF BootFails
  <2>3. req' \in [Requests -> Task] /\ \A q \in Requests : Sound(req'[q])
    BY <1>15, FinishTypes DEF BootFails
  <2> QED BY <1>15, <1>e, <1>t, <1>u, <2>2, <2>3, TypedNext DEF BootFails
<1>16. CASE Link(r)
  <2>0. req[r].row.launch \in Ids /\ req[r].lab \in Labs \cup {NoLab}
    BY <1>16, <1>t DEF Link, Task, Sound, Acting
  <2> DEFINE l == req[r].row.launch
             done == launch[l].redeemed \/ req[r].op = "redeem"
             linked == req[r].lab
  <2>1. launch' \in [Ids -> LaunchRow]
    <3>1. launch' = [launch EXCEPT ![l] = [launch[l] EXCEPT !.lab = req[r].lab, !.redeemed = done]]
      BY <1>16, <1>t, <2>0 DEF Link
    <3>2. launch[l] \in LaunchRow /\ done \in BOOLEAN
      BY <1>t, <2>0
    <3>3. l \in Ids /\ linked \in Labs \cup {NoLab}
      BY <2>0
    <3> HIDE DEF done, linked, l
    <3>4. [launch[l] EXCEPT !.lab = linked, !.redeemed = done] \in LaunchRow
      BY <3>2, <3>3 DEF LaunchRow
    <3>5. launch' = [launch EXCEPT ![l] = [launch[l] EXCEPT !.lab = linked, !.redeemed = done]]
      BY <3>1 DEF linked
    <3> QED BY <1>t, <3>3, <3>4, <3>5
  <2>2. billed' \in [Ids -> Bill]
    <3>1. billed' = billed \/ billed' = [billed EXCEPT ![l].due = @ + 1]
      BY <1>16 DEF Link
    <3>2. billed \in [Ids -> Bill] /\ l \in Ids
      BY <1>u, <2>0
    <3> HIDE DEF l
    <3> QED BY <3>1, <3>2, DueTypes
  <2>3. req' \in [Requests -> Task] /\ \A q \in Requests : Sound(req'[q])
    BY <1>16, EnterTypes DEF Link
  <2> QED BY <1>16, <1>t, <1>u, <2>1, <2>2, <2>3, TypedNext DEF Link
<1>17. CASE LinkFails(r)
  <2>1. req' \in [Requests -> Task] /\ \A q \in Requests : Sound(req'[q])
    BY <1>17, FinishTypes DEF LinkFails
  <2> QED BY <1>17, <1>t, <1>u, <2>1, TypedNext DEF LinkFails, ghosts, history
<1>18. ASSUME NEW op \in {"terminate", "purge"}, Close(r, op) PROVE Typed'
  <2> DEFINE todo == {s \in Snaps(Batch) : s.live}
             x == [Idle EXCEPT !.op = op, !.pc = "destroy", !.todo = todo]
  <2>1. /\ todo \subseteq Snapshot /\ \A s \in todo : s.launch \in Ids /\ s.lab \in Labs
    BY <1>b, ReadTypes
  <2>2. req' = [req EXCEPT ![r] = x]
    BY <1>18 DEF Close, Begin
  <2> HIDE DEF todo
  <2>3. x \in Task /\ Sound(x)
    BY <2>1, Constants DEF Task, Sound, Ops, Pcs, Acting, Idle
  <2> HIDE DEF x
  <2>4. late' \subseteq Users
    <3>1. UNION {UsersOf(q) : q \in InFlight} \subseteq Users
      BY UserTypes DEF InFlight
    <3> QED BY <1>18, <1>u, <3>1 DEF Close
  <2> QED BY <1>18, <1>q, <1>e, <1>u, <2>2, <2>3, <2>4 DEF Close
<1>19. CASE Destroy(r) \/ DestroyFails(r)
  <2>1. PICK s \in req[r].todo : req' = [req EXCEPT ![r].todo = @ \ {s}] /\ req[r].pc = "destroy"
                                 /\ \/ Destroy(r) /\ End(s.lab)
                                    \/ DestroyFails(r) /\ stranded' = stranded \cup {UserOf(s)}
    BY <1>19 DEF Destroy, DestroyFails
  <2> DEFINE x == [req[r] EXCEPT !.todo = @ \ {s}]
  <2>2. req' = [req EXCEPT ![r] = x]
    BY <1>t, <2>1
  <2>3. x \in Task /\ Sound(x)
    BY <1>t DEF Task, Sound
  <2>4. s.lab \in Labs /\ UserOf(s) \in Users
    BY <1>t, <2>1, UserTypes DEF Sound, Task
  <2> HIDE DEF x
  <2>5. req' \in [Requests -> Task] /\ \A q \in Requests : Sound(req'[q])
    BY <2>2, <2>3, ReqTypes
  <2>6. CASE Destroy(r) /\ End(s.lab)
    <3>1. lab' \in [Labs -> LabRow] /\ raced' \subseteq Users /\ events' \in Nat
      BY <2>4, <2>6, EndKinds
    <3> QED BY <1>t, <1>u, <2>5, <2>6, <3>1, TypedNext DEF Destroy
  <2>7. CASE DestroyFails(r) /\ stranded' = stranded \cup {UserOf(s)}
    BY <1>q, <1>e, <1>u, <2>2, <2>3, <2>4, <2>7 DEF DestroyFails
  <2> QED BY <2>1, <2>6, <2>7
<1>20. CASE RevokeAll(r)
  <2>1. launch' \in [Ids -> LaunchRow]
    BY <1>20, <1>t, RevokedTypes DEF RevokeAll
  <2>2. down' \subseteq Users
    BY <1>20, <1>t, <1>u, <1>b DEF RevokeAll, LaunchRow
  <2>3. req' \in [Requests -> Task] /\ \A q \in Requests : Sound(req'[q])
    BY <1>20, FinishTypes DEF RevokeAll
  <2> QED BY <1>20, <1>t, <1>u, <2>1, <2>2, <2>3, TypedNext DEF RevokeAll
<1>21. CASE DeleteAll(r)
  <2>1. launch' \in [Ids -> LaunchRow]
    BY <1>21, <1>t, FieldTypes DEF DeleteAll
  <2>2. stranded' \subseteq Users
    <3>1. UNION {UsersOf(q) : q \in InFlight} \subseteq Users
      BY UserTypes DEF InFlight
    <3>2. \A l \in Batch : launch[l].user \in Users
      BY <1>t, <1>b DEF LaunchRow
    <3> DEFINE busy == UNION {UsersOf(q) : q \in InFlight}
               lost == {launch[l].user : l \in {k \in Batch : launch[k].lab \in LiveLabs}}
    <3>3. lost \subseteq Users
      BY <3>2
    <3>4. stranded' = stranded \cup busy \cup lost
      BY <1>21 DEF DeleteAll
    <3> HIDE DEF busy, lost
    <3>5. busy \subseteq Users
      BY <3>1 DEF busy
    <3> QED BY <1>u, <3>3, <3>4, <3>5
  <2>3. req' \in [Requests -> Task] /\ \A q \in Requests : Sound(req'[q])
    BY <1>21, FinishTypes DEF DeleteAll
  <2> QED BY <1>21, <1>t, <1>u, <1>m, <2>1, <2>2, <2>3, TypedNext DEF DeleteAll
<1>22. CASE ExtendReads(r)
  <2> DEFINE todo == Snaps(Batch)
             x == [Idle EXCEPT !.op = "extend", !.pc = "extend", !.todo = todo]
  <2>1. /\ todo \subseteq Snapshot /\ \A s \in todo : s.launch \in Ids /\ (s.live => s.lab \in Labs)
    BY <1>b, ReadTypes
  <2>2. req' = [req EXCEPT ![r] = x]
    BY <1>22 DEF ExtendReads, Begin
  <2> HIDE DEF todo
  <2>3. x \in Task /\ Sound(x)
    BY <2>1, Constants DEF Task, Sound, Ops, Pcs, Acting, Idle
  <2> HIDE DEF x
  <2> QED BY <1>22, <1>q, <1>e, <1>u, <2>2, <2>3 DEF ExtendReads, ghosts, history
<1>23. CASE Extend(r)
  <2> DEFINE Bumped(S) == (CHOOSE s \in S : TRUE).exp + 1
             read == req[r].todo
  <2>1. \A S \in SUBSET read : S # {} => Bumped(S) \in Nat
    <3>1. \A s \in read : s.exp \in Nat
      BY <1>t DEF Task, Snapshot
    <3> QED BY <3>1
  <2>2. launch' \in [Ids -> LaunchRow]
    <3>1. CASE {s.launch : s \in read} \subseteq Present
      <4>1. launch' = [l \in Ids |-> IF l \in {s.launch : s \in read}
                 THEN [launch[l] EXCEPT !.exp = Bumped({s \in read : s.launch = l})] ELSE launch[l]]
        BY <1>23, <3>1 DEF Extend
      <4>2. ASSUME NEW l \in {s.launch : s \in read} PROVE Bumped({s \in read : s.launch = l}) \in Nat
        BY <2>1
      <4> HIDE DEF Bumped
      <4> QED BY <1>t, <4>1, <4>2, FieldTypes
    <3>2. CASE ~({s.launch : s \in read} \subseteq Present)
      BY <1>23, <1>t, <3>2 DEF Extend
    <3> QED BY <3>1, <3>2
  <2>3. lab' \in [Labs -> LabRow]
    <3>1. CASE {s.launch : s \in read} \subseteq Present
      <4>1. lab' = [b \in Labs |-> IF \E s \in read : s.lab = b
                 THEN [lab[b] EXCEPT !.exp = Bumped({s \in read : s.lab = b})] ELSE lab[b]]
        BY <1>23, <3>1 DEF Extend
      <4>2. ASSUME NEW b, \E s \in read : s.lab = b PROVE Bumped({s \in read : s.lab = b}) \in Nat
        <5>1. {s \in read : s.lab = b} # {} /\ {s \in read : s.lab = b} \in SUBSET read
          BY <4>2
        <5> QED BY <2>1, <5>1
      <4> HIDE DEF Bumped
      <4> QED BY <1>t, <4>1, <4>2, FieldTypes
    <3>2. CASE ~({s.launch : s \in read} \subseteq Present)
      BY <1>23, <1>t, <3>2 DEF Extend
    <3> QED BY <3>1, <3>2
  <2>4. down' \subseteq Users
    BY <1>23, <1>u DEF Extend
  <2>5. req' \in [Requests -> Task] /\ \A q \in Requests : Sound(req'[q])
    BY <1>23, FinishTypes DEF Extend
  <2> QED BY <1>23, <1>t, <1>u, <2>2, <2>3, <2>4, <2>5, TypedNext DEF Extend
<1>24. ASSUME NEW b \in Labs, NEW op \in {"suspend", "start"}, Power(r, b, op) PROVE Typed'
  <2> DEFINE x == [Idle EXCEPT !.op = op, !.pc = "power", !.lab = b]
  <2>1. req' = [req EXCEPT ![r] = x]
    BY <1>24 DEF Power, Begin
  <2>2. x \in Task /\ Sound(x)
    BY Constants DEF Task, Sound, Ops, Pcs, Acting, Idle
  <2> HIDE DEF x
  <2> QED BY <1>24, <1>q, <1>e, <1>u, <2>1, <2>2 DEF Power, ghosts, history
<1>25. CASE PowerWrites(r)
  <2>1. req[r].lab \in Labs
    BY <1>25, <1>t DEF PowerWrites, Sound
  <2>2. lab' \in [Labs -> LabRow]
    <3>1. PICK status \in {"ready", "paused"} : lab' = [lab EXCEPT ![req[r].lab].status = status]
      BY <1>25 DEF PowerWrites
    <3> QED BY <1>t, <2>1, <3>1, FieldTypes
  <2>3. raced' \subseteq Users
    <3>1. lab[req[r].lab].user \in Users
      BY <1>t, <2>1 DEF LabRow
    <3> QED BY <1>25, <1>u, <3>1 DEF PowerWrites
  <2>4. req' \in [Requests -> Task] /\ \A q \in Requests : Sound(req'[q])
    BY <1>25, FinishTypes DEF PowerWrites
  <2> QED BY <1>25, <1>t, <1>u, <2>2, <2>3, <2>4, TypedNext DEF PowerWrites
<1>26. CASE PowerFails(r)
  <2>1. req' \in [Requests -> Task] /\ \A q \in Requests : Sound(req'[q])
    BY <1>26, FinishTypes DEF PowerFails
  <2> QED BY <1>26, <1>t, <1>u, <2>1, TypedNext DEF PowerFails, ghosts, history
<1> QED BY <1>1, <1>2, <1>3, <1>4, <1>5, <1>6, <1>7, <1>8, <1>9, <1>10, <1>11, <1>12, <1>13,
           <1>14, <1>15, <1>16, <1>17, <1>18, <1>19, <1>20, <1>21, <1>22, <1>23, <1>24, <1>25, <1>26
        DEF ReqStep, Terminate, Purge

LEMMA TypedOtherStep ==
  ASSUME Typed, OtherStep
  PROVE  Typed'
<1>t. /\ launch \in [Ids -> LaunchRow] /\ lab \in [Labs -> LabRow]
      /\ req \in [Requests -> Task] /\ \A q \in Requests : Sound(req[q])
  BY TypedFacts
<1>u. /\ now \in Nat /\ issued \in Nat /\ events \in Nat /\ urls \subseteq Url
      /\ billed \in [Ids -> Bill] /\ crossed \subseteq Ids
      /\ raced \subseteq Users /\ stranded \subseteq Users /\ late \subseteq Users
      /\ down \subseteq Users /\ muddled \in BOOLEAN
  BY Untyped
<1>e. Event => events' \in Nat
  BY <1>u DEF Event
<1>b. Batch \subseteq Ids
  BY DEF Batch, Present
<1>1. ASSUME NEW l \in Ids, CreateLaunch(l) PROVE Typed'
  <2>1. launch' \in [Ids -> LaunchRow] /\ issued' \in Nat /\ down' \subseteq Users /\ NewUrl(l, 1) \in Url
    BY <1>1, Constants, InsertTypes DEF CreateLaunch
  <2> QED BY <1>1, <1>e, <1>t, <1>u, <2>1, TypedNext DEF CreateLaunch
<1>2. ASSUME NEW l \in Ids, Revoke(l) PROVE Typed'
  <2>1. launch' \in [Ids -> LaunchRow]
    BY <1>2, <1>t, RevokedTypes DEF Revoke
  <2> QED BY <1>2, <1>e, <1>t, <1>u, <2>1, TypedNext DEF Revoke, ghosts, history
<1>3. ASSUME NEW l \in Ids, Preview(l) PROVE Typed'
  <2>1. urls' \subseteq Url
    BY <1>3, <1>t, <1>u DEF Preview, Url, LaunchRow
  <2> QED BY <1>3, <1>e, <1>t, <1>u, <2>1, TypedNext DEF Preview, ghosts, history
<1>4. ASSUME NEW l \in Ids, NEW ttl \in {1, 2}, Regenerate(l, ttl) PROVE Typed'
  <2>1. launch' \in [Ids -> LaunchRow]
    <3>1. launch' = [launch EXCEPT ![l] =
                       [launch[l] EXCEPT !.jti = issued + 1, !.exp = now + ttl, !.redeemed = FALSE]]
      BY <1>4, <1>t DEF Regenerate
    <3>2. [launch[l] EXCEPT !.jti = issued + 1, !.exp = now + ttl, !.redeemed = FALSE] \in LaunchRow
      <4>1. issued + 1 \in Nat /\ now + ttl \in Nat
        BY <1>u
      <4>2. ASSUME NEW j \in Nat, NEW e \in Nat
            PROVE  [launch[l] EXCEPT !.jti = j, !.exp = e, !.redeemed = FALSE] \in LaunchRow
        <5>1. launch[l] \in LaunchRow
          BY <1>t, <1>4
        <5> QED BY <5>1 DEF LaunchRow
      <4> QED BY <4>1, <4>2
    <3> QED BY <1>t, <3>1, <3>2
  <2>2. NewUrl(l, ttl) \in Url
    BY <1>u DEF NewUrl, Url
  <2>3. billed' \in [Ids -> Bill]
    BY <1>4, <1>u DEF Regenerate, NoBill, Bill
  <2> QED BY <1>4, <1>e, <1>t, <1>u, <2>1, <2>2, <2>3, TypedNext DEF Regenerate
<1>5. CASE RevokeBatch
  <2>1. launch' \in [Ids -> LaunchRow]
    BY <1>5, <1>t, RevokedTypes DEF RevokeBatch
  <2> QED BY <1>5, <1>e, <1>t, <1>u, <2>1, TypedNext DEF RevokeBatch, ghosts, history
<1>6. CASE Tick
  BY <1>6, <1>t, <1>u, TypedNext DEF Tick, ghosts, history
<1>7. CASE Crash
  <2>1. stranded' \subseteq Users
    <3>1. UNION {UsersOf(q) : q \in InFlight} \subseteq Users
      BY UserTypes DEF InFlight
    <3> QED BY <1>7, <1>u, <3>1 DEF Crash
  <2>2. muddled' \in BOOLEAN
    BY <1>7 DEF Crash
  <2>3. req' \in [Requests -> Task] /\ \A q \in Requests : Sound(req'[q])
    BY <1>7, Constants DEF Crash
  <2>4. billed' \in [Ids -> Bill]
    BY <1>7, <1>u, SettleTypes
  <2> QED BY <1>7, <1>e, <1>t, <1>u, <2>1, <2>2, <2>3, <2>4, TypedNext DEF Crash
<1>8. ASSUME NEW b \in Labs, LabEnds(b) PROVE Typed'
  <2>1. lab' \in [Labs -> LabRow] /\ raced' \subseteq Users /\ events' \in Nat
    BY <1>8, EndKinds DEF LabEnds
  <2> QED BY <1>8, <1>t, <1>u, <2>1, TypedNext DEF LabEnds
<1>9. ASSUME NEW l \in Ids, Emitted(l) \/ EmitFails(l) PROVE Typed'
  <2>1. billed' \in [Ids -> Bill]
    BY <1>9, <1>u, SettleTypes
  <2> QED BY <1>9, <1>e, <1>t, <1>u, <2>1, TypedNext DEF Emitted, EmitFails
<1> QED BY <1>1, <1>2, <1>3, <1>4, <1>5, <1>6, <1>7, <1>8, <1>9 DEF OtherStep

LEMMA TypedStep == Typed /\ [Next]_vars => Typed'
<1>1. Typed /\ UNCHANGED vars => Typed'
  BY DEF vars, Typed, TypeOK
<1> QED BY <1>1, StepKinds, TypedReqStep, TypedOtherStep

LEMMA TypedHolds == Spec => []Typed
BY TypedInit, TypedStep, PTL DEF Spec

\* The variables have their types.
THEOREM TypeCorrect == Spec => []TypeOK
BY TypedHolds, PTL DEF Typed

-----------------------------------------------------------------------------
(* Dead URLs                                                               *)

\* What a step does to the jtis: a row gets none, or the next one; a URL that
\* is new carries the next one, or one of a row or of an unanswered request.
JtiStep ==
  /\ issued' \in {issued, issued + 1}
  /\ \A l \in Ids : \/ launch'[l].jti \in {launch[l].jti, NoJti}
                    \/ launch'[l].jti = issued + 1 /\ issued' = issued + 1
  /\ \A u \in urls' : \/ u \in urls
                      \/ u.jti = issued + 1 /\ issued' = issued + 1
                      \/ \E r \in Requests : u \in req[r].made
                      \/ u.jti = launch[u.launch].jti /\ u.jti # NoJti
  /\ \A r \in Requests : \A u \in req'[r].made :
       \/ u \in req[r].made
       \/ u.jti = issued + 1 /\ issued' = issued + 1

\* A request that is done, or goes on to resume its lab.
Answers(r) == \/ AnswerSeats(r) \/ Stamp(r) \/ BootFails(r) \/ Link(r) \/ LinkFails(r)
              \/ RevokeAll(r) \/ DeleteAll(r) \/ Extend(r) \/ PowerWrites(r) \/ PowerFails(r)
LEMMA Answered ==
  ASSUME Typed, NEW r \in Requests, Answers(r)
  PROVE  /\ req'[r].pc \in {"idle", "work", "power"}
         /\ req'[r].todo \subseteq req[r].todo /\ req'[r].made \subseteq req[r].made
         /\ req'[r].pc = "work" => req[r].op = "prepare_batch"
         /\ req'[r].op \in {"none", req[r].op}
         /\ req'[r].op = "redeem" => req'[r].pc = "power" /\ req'[r].row = req[r].row
         /\ req'[r].pc = "power" => Stamp(r) \/ Link(r)
<1>t. req[r] \in Task /\ Sound(req[r]) /\ req \in [Requests -> Task]
  BY TypedFacts
<1>1. CASE Stamp(r) \/ Link(r)
  <2>1. req[r].pc \in {"stamp", "link"} /\ (Enter(r) \/ Finish(r))
    BY <1>1 DEF Stamp, Link
  <2>2. \A q \in Requests : Sound(req'[q])
    BY <2>1, EnterTypes
  <2> QED BY <1>1, <2>1, <2>2, EnterTypes DEF Sound
<1>2. CASE Finish(r)
  <2>1. Rest(req[r]).made \subseteq req[r].made /\ Rest(req[r]).op \in {"none", req[r].op}
    BY <1>t DEF Rest, Task, Idle
  <2>2. req'[r].op # "redeem"
    BY <1>2, FinishTypes
  <2> QED BY <1>2, <2>1, <2>2, FinishTypes
<1> QED BY <1>1, <1>2 DEF Answers, AnswerSeats, BootFails, LinkFails, RevokeAll, DeleteAll, Extend, PowerWrites, PowerFails

\* The inserted rows are the only ones that are made.
LEMMA OthersWait ==
  ASSUME Typed, NEW r \in Requests, ReqStep(r)
  PROVE  \A q \in Requests \ {r} : req'[q] = req[q]
<1>t. req \in [Requests -> Task] /\ req[r] \in Task
  BY TypedFacts
<1> QED
  BY <1>t DEF ReqStep, CreateBatch, AddSeats, AnswerSeats, InsertFails, InsertSeat, Redeem, Prepare, Stamp,
              PrepareBatch, TakeSeat, FindOwn, FindNone, Claim, CreateLab, Acquire, Boot, BootFails, Link,
              LinkFails, Power, PowerWrites, PowerFails, Terminate, Purge, Close, Destroy, DestroyFails,
              RevokeAll, DeleteAll, ExtendReads, Extend, Begin, Goto, Finish, Enter

LEMMA MadeBySeats ==
  ASSUME Typed, NEW r \in Requests, ReqStep(r),
         ~ \E s \in 1..MaxSeats, l \in Ids : InsertSeat(r, s, l)
  PROVE  \A q \in Requests : req'[q].made \subseteq req[q].made
<1>t. req \in [Requests -> Task] /\ req[r] \in Task
  BY TypedFacts
<1>i. Idle.made = {}
  BY DEF Idle
<1>r. req'[r].made \subseteq req[r].made
  <2>1. CASE \/ CreateBatch(r) \/ AddSeats(r) \/ PrepareBatch(r) \/ Terminate(r) \/ Purge(r) \/ ExtendReads(r)
             \/ (\E u \in urls : Redeem(r, u)) \/ (\E l \in Ids : Prepare(r, l))
             \/ \E b \in Labs, op \in {"suspend", "start"} : Power(r, b, op)
    <3>1. ASSUME NEW x, x.made = {}, Begin(r, x) PROVE req'[r].made \subseteq req[r].made
      BY <1>t, <3>1 DEF Begin
    <3>2. CASE CreateBatch(r) \/ AddSeats(r)
      BY <3>1, <3>2 DEF CreateBatch, AddSeats, Idle
    <3>3. CASE PrepareBatch(r)
      BY <3>1, <3>3 DEF PrepareBatch, Idle
    <3>4. CASE Terminate(r) \/ Purge(r) \/ ExtendReads(r)
      BY <3>1, <3>4 DEF Terminate, Purge, Close, ExtendReads, Idle
    <3>5. CASE (\E u \in urls : Redeem(r, u)) \/ (\E l \in Ids : Prepare(r, l))
      BY <3>1, <3>5 DEF Redeem, Prepare, Idle
    <3>6. CASE \E b \in Labs, op \in {"suspend", "start"} : Power(r, b, op)
      BY <3>1, <3>6 DEF Power, Idle
    <3> QED BY <2>1, <3>2, <3>3, <3>4, <3>5, <3>6
  <2>2. CASE Answers(r)
    BY <2>2, Answered
  <2>3. CASE \/ (\E s \in 1..MaxSeats : InsertFails(r, s)) \/ FindNone(r) \/ Boot(r)
             \/ Destroy(r) \/ DestroyFails(r)
    <3>1. CASE FindNone(r) \/ Boot(r)
      BY <1>t, <3>1 DEF FindNone, Boot, Goto, Task
    <3>2. ASSUME NEW s \in 1..MaxSeats, InsertFails(r, s) PROVE req'[r].made \subseteq req[r].made
      BY <1>t, <3>2 DEF InsertFails, Task
    <3>3. CASE Destroy(r) \/ DestroyFails(r)
      BY <1>t, <3>3 DEF Destroy, DestroyFails, Task
    <3> QED BY <2>3, <3>1, <3>2, <3>3
  <2>4. CASE FindOwn(r) \/ (\E b \in Labs : Claim(r, b) \/ CreateLab(r, b))
    <3>1. CASE FindOwn(r)
      BY <1>t, <3>1 DEF FindOwn, Task
    <3>2. ASSUME NEW b \in Labs, Claim(r, b) \/ CreateLab(r, b) PROVE req'[r].made \subseteq req[r].made
      <4>1. PICK status \in {"ready", "booting"} : Acquire(r, b, status)
        BY <3>2 DEF Claim, CreateLab
      <4> DEFINE x == Linking(req[r].row, FALSE)
                 y == IF status = "ready" THEN "link" ELSE "boot"
      <4>2. req' = [req EXCEPT ![r] = [req[r] EXCEPT !.lab = b, !.row = x, !.pc = y]]
        BY <1>t, <4>1 DEF Acquire
      <4> HIDE DEF x, y
      <4>3. req'[r].made = req[r].made
        BY <1>t, <4>2 DEF Task
      <4> QED BY <4>3
    <3> QED BY <2>4, <3>1, <3>2
  <2>5. CASE TakeSeat(r)
    <3>1. CASE req[r].todo = {}
      BY <1>t, <1>i, <2>5, <3>1 DEF TakeSeat
    <3>2. CASE req[r].todo # {}
      <4>1. PICK s \in req[r].todo :
              req' = [req EXCEPT ![r] = [req[r] EXCEPT !.todo = @ \ {s}, !.row = s, !.lab = s.lab, !.pc = Fits(s)]]
        BY <1>t, <2>5, <3>2 DEF TakeSeat
      <4> QED BY <1>t, <4>1 DEF Task
    <3> QED BY <3>1, <3>2
  <2> QED BY <2>1, <2>2, <2>3, <2>4, <2>5 DEF ReqStep, Answers
<1> QED BY <1>r, OthersWait

LEMMA JtiStepHolds ==
  ASSUME Typed, [Next]_vars
  PROVE  JtiStep
<1>t. /\ launch \in [Ids -> LaunchRow] /\ issued \in Nat /\ req \in [Requests -> Task]
  BY TypedFacts
<1>b. Batch \subseteq Ids
  BY DEF Batch, Present
<1>1. ASSUME NEW r \in Requests, NEW s \in 1..MaxSeats, NEW l \in Ids, InsertSeat(r, s, l) PROVE JtiStep
  <2> DEFINE u == NewUrl(l, req[r].ttl)
  <2>1. launch' = [launch EXCEPT ![l] = NewRow(s, req[r].ttl)] /\ issued' = issued + 1 /\ urls' = urls
    BY <1>1 DEF InsertSeat, Insert
  <2>2. NewRow(s, req[r].ttl).jti = issued + 1 /\ u.jti = issued + 1
    BY DEF NewRow, NewUrl
  <2>3. req' = [req EXCEPT ![r] = [req[r] EXCEPT !.seats = @ \ {s}, !.made = @ \cup {u}]]
    BY <1>1, <1>t DEF InsertSeat
  <2> HIDE DEF u
  <2>4. \A q \in Requests : req'[q].made \subseteq req[q].made \cup {u}
    BY <1>t, <2>3 DEF Task
  <2> QED BY <1>t, <2>1, <2>2, <2>4 DEF JtiStep
<1>2. ASSUME NEW r \in Requests, ReqStep(r), ~ \E s \in 1..MaxSeats, l \in Ids : InsertSeat(r, s, l)
      PROVE JtiStep
  <2>1. \A q \in Requests : req'[q].made \subseteq req[q].made
    BY <1>2, MadeBySeats
  <2>2. issued' = issued /\ urls' \subseteq urls \cup req[r].made
    BY <1>2 DEF ReqStep, CreateBatch, AddSeats, AnswerSeats, InsertFails, Redeem, Prepare, Stamp, PrepareBatch,
              TakeSeat, FindOwn, FindNone, Claim, CreateLab, Acquire, Boot, BootFails, Link, LinkFails,
              Power, PowerWrites, PowerFails,
              Terminate, Purge, Close, Destroy, DestroyFails, RevokeAll, DeleteAll, ExtendReads, Extend,
              ghosts, history
  <2>3. \A l \in Ids : launch'[l].jti \in {launch[l].jti, NoJti}
    <3>1. CASE UNCHANGED launch
      BY <3>1
    <3>2. CASE Stamp(r)
      BY <1>t, <3>2 DEF Stamp, LaunchRow
    <3>3. CASE Link(r)
      <4> DEFINE k == req[r].row.launch
      <4>1. launch' = [launch EXCEPT ![k].lab = req[r].lab, ![k].redeemed = @ \/ req[r].op = "redeem"]
        BY <3>3 DEF Link
      <4>2. CASE k \in Ids
        BY <1>t, <4>1, <4>2, LinkedRow
      <4>3. CASE k \notin Ids
        <5> HIDE DEF k
        <5>1. launch' = launch
          BY <1>t, <4>1, <4>3
        <5> QED BY <5>1
      <4> QED BY <4>2, <4>3
    <3>4. CASE RevokeAll(r)
      BY <1>t, <3>4 DEF RevokeAll, Revoked, LaunchRow
    <3>5. CASE DeleteAll(r)
      BY <1>t, <3>5 DEF DeleteAll, LaunchRow
    <3>6. CASE Extend(r)
      BY <1>t, <3>6 DEF Extend, LaunchRow
    <3> QED BY <1>2, <3>1, <3>2, <3>3, <3>4, <3>5, <3>6
            DEF ReqStep, CreateBatch, AddSeats, AnswerSeats, InsertFails, Redeem, Prepare, PrepareBatch,
                TakeSeat, FindOwn, FindNone, Claim, CreateLab, Acquire, Boot, BootFails, LinkFails,
                Power, PowerWrites, PowerFails, Terminate, Purge, Close, Destroy, DestroyFails, ExtendReads
  <2> QED BY <1>2, <1>t, <2>1, <2>2, <2>3 DEF JtiStep
<1>3. ASSUME NEW l \in Ids, CreateLaunch(l) PROVE JtiStep
  <2>1. NewRow(0, 1).jti = issued + 1 /\ NewUrl(l, 1).jti = issued + 1
    BY DEF NewRow, NewUrl
  <2> QED BY <1>3, <1>t, <2>1 DEF CreateLaunch, Insert, JtiStep
<1>4. ASSUME NEW l \in Ids, NEW ttl \in {1, 2}, Regenerate(l, ttl) PROVE JtiStep
  <2>1. NewUrl(l, ttl).jti = issued + 1
    BY DEF NewUrl
  <2> QED BY <1>4, <1>t, <2>1 DEF Regenerate, JtiStep, LaunchRow
<1>5. ASSUME NEW l \in Ids, Preview(l) PROVE JtiStep
  BY <1>5, <1>t DEF Preview, JtiStep, ghosts, history
<1>6. ASSUME NEW l \in Ids, Revoke(l) PROVE JtiStep
  BY <1>6, <1>t DEF Revoke, Revoked, JtiStep, LaunchRow, ghosts, history
<1>7. CASE RevokeBatch
  BY <1>7, <1>t DEF RevokeBatch, Revoked, JtiStep, LaunchRow, ghosts, history
<1>8. CASE Tick \/ Crash \/ (\E b \in Labs : LabEnds(b)) \/ (\E l \in Ids : Emitted(l) \/ EmitFails(l)) \/ UNCHANGED vars
  <2>1. Idle.made = {}
    BY DEF Idle
  <2>2. UNCHANGED <<launch, issued, urls>> /\ \A q \in Requests : req'[q].made \subseteq req[q].made
    BY <1>8, <1>t, <2>1 DEF Tick, Crash, LabEnds, Emitted, EmitFails, vars
  <2> QED BY <2>2, <1>t DEF JtiStep
<1> QED BY <1>1, <1>2, <1>3, <1>4, <1>5, <1>6, <1>7, <1>8, StepKinds DEF OtherStep

\* Jtis are numbered from 1, and none is in use that was not issued.
JtisIssued ==
  /\ \A l \in Ids : launch[l].jti \in 0 .. issued
  /\ \A u \in urls : u.jti \in 1 .. issued
  /\ \A r \in Requests : \A u \in req[r].made : u.jti \in 1 .. issued

LEMMA JtisIssuedHolds == Spec => []JtisIssued
<1>1. Init => JtisIssued
  BY DEF Init, JtisIssued, NoRow, Idle, NoJti
<1>2. Typed /\ JtisIssued /\ [Next]_vars => JtisIssued'
  <2> SUFFICES ASSUME Typed, JtisIssued, [Next]_vars PROVE JtisIssued' OBVIOUS
  <2>1. JtiStep /\ Typed' /\ issued \in Nat
    BY JtiStepHolds, TypedStep, TypedFacts
  <2>2. \A u \in urls' : u.launch \in Ids /\ u.jti \in Nat
    BY <2>1 DEF Typed, TypeOK, Url
  <2>3. \A u \in urls : u.launch \in Ids
    BY TypedFacts DEF Url
  <2> QED BY <2>1, <2>2, <2>3 DEF JtisIssued, JtiStep, NoJti
<1> QED BY <1>1, <1>2, TypedHolds, PTL DEF Spec

\* A URL that was revoked or replaced never works again (launches.ts:
\* "Permanently disables the launch URL"): a row's jti is cleared or new,
\* and the jtis of URLs are old and never cleared.
THEOREM DeadUrlsStayDead == Spec => DeadUrlStaysDead
<1>1. Typed /\ JtisIssued /\ [Next]_vars => [\A u \in urls : Dead(u) => Dead(u)']_vars
  <2> SUFFICES ASSUME Typed, JtisIssued, [Next]_vars, NEW u \in urls, launch[u.launch].jti # u.jti
               PROVE launch'[u.launch].jti # u.jti
    BY DEF Dead
  <2>1. JtiStep /\ u.launch \in Ids
    BY JtiStepHolds, TypedFacts DEF Url
  <2>2. u.jti \in 1 .. issued /\ issued \in Nat
    BY TypedFacts DEF JtisIssued
  <2> QED BY <2>1, <2>2 DEF JtiStep, NoJti
<1> QED BY <1>1, TypedHolds, JtisIssuedHolds, PTL DEF Spec, DeadUrlStaysDead

-----------------------------------------------------------------------------
(* One lab per student                                                     *)

\* Where a step takes its request.
LEMMA Target ==
  ASSUME Typed, NEW r \in Requests
  PROVE  /\ CreateBatch(r) \/ AddSeats(r) => req[r].pc = "idle" /\ req'[r].pc = "insert"
         /\ (\E s \in 1..MaxSeats : InsertFails(r, s) \/ \E l \in Ids : InsertSeat(r, s, l))
              => req[r].pc = "insert" /\ req'[r].pc = "insert"
         /\ Finish(r) => req'[r].pc \in {"idle", "work"}
         /\ \A u \in urls : Redeem(r, u) => req[r].pc = "idle" /\ req'[r].pc \in {"stamp", "lookup", "power"}
         /\ \A l \in Ids : Prepare(r, l) => req[r].pc = "idle" /\ req'[r].pc \in {"lookup", "power"}
         /\ PrepareBatch(r) => req[r].pc = "idle" /\ req'[r].pc = "work"
         /\ TakeSeat(r) => req[r].pc = "work" /\ req'[r].pc \in {"idle", "lookup", "power"}
         /\ \A b \in Labs, op \in {"suspend", "start"} :
              Power(r, b, op) => req[r].pc = "idle" /\ req'[r].pc = "power"
         /\ FindOwn(r) => req[r].pc = "lookup" /\ req'[r].pc = "link"
         /\ FindNone(r) => req[r].pc = "lookup" /\ req'[r].pc = "create"
         /\ \A b \in Labs : Claim(r, b) => req[r].pc = "create" /\ req'[r].pc = "link"
         /\ \A b \in Labs : CreateLab(r, b) => req[r].pc = "create" /\ req'[r].pc = "boot"
         /\ Boot(r) => req[r].pc = "boot" /\ req'[r].pc = "link"
         /\ Terminate(r) \/ Purge(r) => req[r].pc = "idle" /\ req'[r].pc = "destroy"
         /\ Destroy(r) \/ DestroyFails(r) => req[r].pc = "destroy" /\ req'[r].pc = "destroy"
         /\ ExtendReads(r) => req[r].pc = "idle" /\ req'[r].pc = "extend"
<1>t. req \in [Requests -> Task] /\ req[r] \in Task
  BY TypedFacts
<1>1. CreateBatch(r) \/ AddSeats(r) => req[r].pc = "idle" /\ req'[r].pc = "insert"
  BY <1>t DEF CreateBatch, AddSeats, Begin, Idle
<1>2. ASSUME NEW s \in 1..MaxSeats, InsertFails(r, s) \/ \E l \in Ids : InsertSeat(r, s, l)
      PROVE req[r].pc = "insert" /\ req'[r].pc = "insert"
  BY <1>t, <1>2 DEF InsertFails, InsertSeat, Task
<1>3. Finish(r) => req'[r].pc \in {"idle", "work"}
  BY FinishTypes
<1>4. \A u \in urls : Redeem(r, u) => req[r].pc = "idle" /\ req'[r].pc \in {"stamp", "lookup", "power"}
  BY <1>t DEF Redeem, Begin, Idle
<1>5. \A l \in Ids : Prepare(r, l) => req[r].pc = "idle" /\ req'[r].pc \in {"lookup", "power"}
  BY <1>t DEF Prepare, Begin, Idle, Fits
<1>6. PrepareBatch(r) => req[r].pc = "idle" /\ req'[r].pc = "work"
  BY <1>t DEF PrepareBatch, Begin, Idle
<1>7. TakeSeat(r) => req[r].pc = "work" /\ req'[r].pc \in {"idle", "lookup", "power"}
  <2>1. CASE req[r].todo = {}
    BY <1>t, <2>1 DEF TakeSeat, Idle
  <2>2. ASSUME req[r].todo # {}, TakeSeat(r)
        PROVE  req[r].pc = "work" /\ req'[r].pc \in {"lookup", "power"}
    <3>1. PICK s \in req[r].todo :
            req' = [req EXCEPT ![r].todo = @ \ {s}, ![r].row = s, ![r].lab = s.lab, ![r].pc = Fits(s)]
      BY <2>2 DEF TakeSeat
    <3>2. req'[r] = [req[r] EXCEPT !.todo = @ \ {s}, !.row = s, !.lab = s.lab, !.pc = Fits(s)]
      BY <1>t, <3>1
    <3>3. req'[r].pc \in {"lookup", "power"}
      BY <1>t, <3>2 DEF Task, Fits
    <3> QED BY <2>2, <3>3 DEF TakeSeat
  <2> QED BY <2>1, <2>2
<1>8. FindOwn(r) => req[r].pc = "lookup" /\ req'[r].pc = "link"
  BY <1>t DEF FindOwn, Task
<1>9. FindNone(r) => req[r].pc = "lookup" /\ req'[r].pc = "create"
  BY <1>t DEF FindNone, Goto, Task
<1>10. \A b \in Labs : Claim(r, b) => req[r].pc = "create" /\ req'[r].pc = "link"
  BY <1>t DEF Claim, Acquire, Task
<1>11. \A b \in Labs : CreateLab(r, b) => req[r].pc = "create" /\ req'[r].pc = "boot"
  BY <1>t DEF CreateLab, Acquire, Task
<1>12. Boot(r) => req[r].pc = "boot" /\ req'[r].pc = "link"
  BY <1>t DEF Boot, Goto, Task
<1>13. Terminate(r) \/ Purge(r) => req[r].pc = "idle" /\ req'[r].pc = "destroy"
  BY <1>t DEF Terminate, Purge, Close, Begin, Idle
<1>14. Destroy(r) \/ DestroyFails(r) => req[r].pc = "destroy" /\ req'[r].pc = "destroy"
  BY <1>t DEF Destroy, DestroyFails, Task
<1>15. ExtendReads(r) => req[r].pc = "idle" /\ req'[r].pc = "extend"
  BY <1>t DEF ExtendReads, Begin, Idle
<1>16. \A b \in Labs, op \in {"suspend", "start"} :
         Power(r, b, op) => req[r].pc = "idle" /\ req'[r].pc = "power"
  BY <1>t DEF Power, Begin, Idle
<1> QED BY <1>1, <1>2, <1>3, <1>4, <1>5, <1>6, <1>7, <1>8, <1>9, <1>10, <1>11, <1>12, <1>13, <1>14, <1>15, <1>16

\* A row that was inserted keeps its user, and a deleted one stays deleted.
LEMMA RowsKept ==
  ASSUME Typed, [Next]_vars, NEW l \in Ids, launch[l].state # "new"
  PROVE  /\ launch'[l].user = launch[l].user /\ launch'[l].state # "new"
         /\ launch'[l].state = "present" => launch[l].state = "present"
<1>t. launch \in [Ids -> LaunchRow]
  BY TypedFacts
<1> DEFINE Kept == /\ launch'[l].user = launch[l].user /\ launch'[l].state # "new"
                   /\ launch'[l].state = "present" => launch[l].state = "present"
<1> SUFFICES Kept OBVIOUS
<1>1. CASE UNCHANGED launch
  BY <1>1
<1>2. ASSUME NEW k \in Ids, NEW u, NEW ttl, Insert(k, u, ttl) PROVE Kept
  BY <1>t, <1>2 DEF Insert, NextId
<1>3. ASSUME NEW r \in Requests, Stamp(r) \/ Link(r) PROVE Kept
  BY <1>t, <1>3, RowsStay
<1>4. ASSUME NEW r \in Requests, RevokeAll(r) PROVE Kept
  BY <1>t, <1>4 DEF RevokeAll, Revoked, LaunchRow
<1>5. ASSUME NEW r \in Requests, DeleteAll(r) PROVE Kept
  BY <1>t, <1>5 DEF DeleteAll, LaunchRow
<1>6. ASSUME NEW r \in Requests, Extend(r) PROVE Kept
  BY <1>t, <1>6 DEF Extend, LaunchRow
<1>7. ASSUME NEW k \in Ids, Revoke(k) PROVE Kept
  BY <1>t, <1>7 DEF Revoke, Revoked, LaunchRow
<1>8. ASSUME NEW k \in Ids, NEW ttl \in {1, 2}, Regenerate(k, ttl) PROVE Kept
  BY <1>t, <1>8 DEF Regenerate, LaunchRow
<1>9. CASE RevokeBatch
  BY <1>t, <1>9 DEF RevokeBatch, Revoked, LaunchRow
<1> HIDE DEF Kept
<1>10. ASSUME NEW r \in Requests, ReqStep(r) PROVE Kept
  <2>1. ASSUME NEW s \in 1..MaxSeats, NEW k \in Ids, InsertSeat(r, s, k) PROVE Kept
    <3>1. Insert(k, s, req[r].ttl)
      BY <2>1 DEF InsertSeat
    <3> QED BY <1>2, <3>1
  <2>2. \/ \E s \in 1..MaxSeats, k \in Ids : InsertSeat(r, s, k)
        \/ Stamp(r) \/ Link(r) \/ RevokeAll(r) \/ DeleteAll(r) \/ Extend(r) \/ UNCHANGED launch
    BY <1>10
    DEF ReqStep, CreateBatch, AddSeats, AnswerSeats, InsertFails, Redeem, Prepare, PrepareBatch,
        TakeSeat, FindOwn, FindNone, Claim, CreateLab, Acquire, Boot, BootFails, LinkFails,
        Power, PowerWrites, PowerFails, Terminate, Purge, Close, Destroy, DestroyFails, ExtendReads
  <2>3. CASE Stamp(r) \/ Link(r) \/ RevokeAll(r) \/ DeleteAll(r) \/ Extend(r)
    BY <1>3, <1>4, <1>5, <1>6, <2>3
  <2> QED BY <1>1, <2>1, <2>2, <2>3
<1>11. CASE OtherStep
  <2>1. ASSUME NEW k \in Ids, CreateLaunch(k) PROVE Kept
    <3>1. Insert(k, 0, 1)
      BY <2>1 DEF CreateLaunch
    <3> QED BY <1>2, <3>1
  <2>2. \/ \E k \in Ids : CreateLaunch(k) \/ Revoke(k) \/ \E ttl \in {1, 2} : Regenerate(k, ttl)
        \/ RevokeBatch \/ UNCHANGED launch
    BY <1>11 DEF OtherStep, Preview, Tick, Crash, LabEnds, Emitted, EmitFails
  <2> QED BY <1>1, <1>7, <1>8, <1>9, <2>1, <2>2
<1>12. CASE UNCHANGED vars
  BY <1>1, <1>12 DEF vars
<1> QED BY <1>10, <1>11, <1>12, StepKinds

\* A request goes on with the row it works on, takes one of its list, or has
\* just read a row that is there; its list holds rows it has just read.
LEMMA Advance ==
  ASSUME Typed, NEW r \in Requests, ReqStep(r)
  PROVE  /\ req'[r].pc \in Acting =>
              \/ /\ req[r].pc \in Acting /\ req'[r].op = req[r].op
                 /\ req'[r].row.launch = req[r].row.launch /\ req'[r].row.redeemed = req[r].row.redeemed
                 /\ req'[r].todo = req[r].todo
              \/ /\ req[r].pc = "work" /\ req'[r].op = req[r].op /\ req'[r].row \in req[r].todo
                 /\ req'[r].todo \subseteq req[r].todo
              \/ req[r].pc = "idle" /\ req'[r].row.launch \in Present /\ req'[r].todo = {}
         /\ \A s \in req'[r].todo : s \in req[r].todo \/ s.launch \in Present
<1>t. /\ launch \in [Ids -> LaunchRow] /\ req \in [Requests -> Task] /\ req[r] \in Task
      /\ urls \subseteq Url
  BY TypedFacts
<1>s. \A l \in Ids : Snap(l).launch = l
  BY SnapTypes
<1>p. Batch \subseteq Present /\ Present \subseteq Ids
  BY DEF Batch, Present
<1>r. \A S \in SUBSET Ids : \A s \in Snaps(S) : s.launch \in S
  BY <1>s DEF Snaps
<1> DEFINE Moved == req'[r].pc \in Acting =>
              \/ /\ req[r].pc \in Acting /\ req'[r].op = req[r].op
                 /\ req'[r].row.launch = req[r].row.launch /\ req'[r].row.redeemed = req[r].row.redeemed
                 /\ req'[r].todo = req[r].todo
              \/ /\ req[r].pc = "work" /\ req'[r].op = req[r].op /\ req'[r].row \in req[r].todo
                 /\ req'[r].todo \subseteq req[r].todo
              \/ req[r].pc = "idle" /\ req'[r].row.launch \in Present /\ req'[r].todo = {}
           Listed == \A s \in req'[r].todo : s \in req[r].todo \/ s.launch \in Present
<1> SUFFICES Moved /\ Listed OBVIOUS
<1>1. CASE Answers(r)
  BY <1>1, Answered DEF Acting
<1>2. CASE CreateBatch(r) \/ AddSeats(r)
  <2>1. PICK x, y : req' = [req EXCEPT ![r] =
                       [Idle EXCEPT !.op = "seats", !.pc = "insert", !.seats = x, !.ttl = y]]
    <3>1. CASE CreateBatch(r)
      BY <3>1 DEF CreateBatch, Begin
    <3>2. CASE AddSeats(r)
      BY <3>2 DEF AddSeats, Begin
    <3> QED BY <1>2, <3>1, <3>2
  <2>2. req'[r] = [Idle EXCEPT !.op = "seats", !.pc = "insert", !.seats = x, !.ttl = y]
    BY <1>t, <2>1
  <2>3. req'[r].todo = {} /\ req'[r].pc = "insert"
    BY <2>2 DEF Idle
  <2> QED BY <2>3 DEF Acting
<1>3. ASSUME NEW s \in 1..MaxSeats, InsertFails(r, s) \/ \E l \in Ids : InsertSeat(r, s, l) PROVE Moved /\ Listed
  BY <1>t, <1>3 DEF InsertFails, InsertSeat, Task, Acting
<1>4. ASSUME NEW u \in urls, Redeem(r, u) PROVE Moved /\ Listed
  <2>1. u.launch \in Present
    BY <1>4 DEF Redeem, Admits
  <2> QED BY <1>t, <1>s, <1>p, <1>4, <2>1 DEF Redeem, Begin, Idle, Acting
<1>5. ASSUME NEW l \in Ids, Prepare(r, l) PROVE Moved /\ Listed
  BY <1>t, <1>s, <1>5 DEF Prepare, Begin, Idle, Acting
<1>6. CASE PrepareBatch(r)
  <2> DEFINE L == {l \in Batch : launch[l].exp > now}
             open == {s \in Snaps(L) : s.live => s.paused}
  <2>1. req'[r].todo = open /\ req'[r].pc = "work"
    BY <1>t, <1>6 DEF PrepareBatch, Begin, Idle
  <2>2. \A s \in open : s.launch \in Present
    <3>1. L \in SUBSET Ids /\ L \subseteq Present
      BY <1>p
    <3> HIDE DEF L
    <3> QED BY <1>r, <3>1
  <2> QED BY <2>1, <2>2 DEF Acting
<1>7. CASE TakeSeat(r)
  <2>1. CASE req[r].todo = {}
    BY <1>t, <1>7, <2>1 DEF TakeSeat, Idle, Acting
  <2>2. CASE req[r].todo # {}
    <3>1. PICK s \in req[r].todo :
            req' = [req EXCEPT ![r] = [req[r] EXCEPT !.todo = @ \ {s}, !.row = s, !.lab = s.lab, !.pc = Fits(s)]]
      BY <1>t, <1>7, <2>2 DEF TakeSeat
    <3> QED BY <1>t, <1>7, <3>1 DEF TakeSeat, Task
  <2> QED BY <2>1, <2>2
<1>8. CASE FindNone(r) \/ Boot(r)
  BY <1>t, <1>8 DEF FindNone, Boot, Goto, Task, Acting
<1>9. CASE FindOwn(r)
  <2> DEFINE p == Paused(Newest(LabsOf(UserOf(req[r].row))))
  <2>1. /\ Linking(req[r].row, p).launch = req[r].row.launch
        /\ Linking(req[r].row, p).redeemed = req[r].row.redeemed
    BY DEF Linking, Nothing
  <2>2. req'[r].row = Linking(req[r].row, p) /\ req'[r].todo = req[r].todo /\ req'[r].op = req[r].op
    BY <1>t, <1>9 DEF FindOwn, Task
  <2> QED BY <1>9, <2>1, <2>2 DEF FindOwn, Acting
<1>10. ASSUME NEW b \in Labs, NEW status, Acquire(r, b, status) PROVE Moved /\ Listed
  <2>1. /\ Linking(req[r].row, FALSE).launch = req[r].row.launch
        /\ Linking(req[r].row, FALSE).redeemed = req[r].row.redeemed
    BY DEF Linking, Nothing
  <2>2. req'[r].row = Linking(req[r].row, FALSE) /\ req'[r].todo = req[r].todo /\ req'[r].op = req[r].op
    BY <1>t, <1>10 DEF Acquire, Task
  <2> QED BY <1>10, <2>1, <2>2 DEF Acquire, Acting
<1>11. CASE Terminate(r) \/ Purge(r) \/ ExtendReads(r)
  <2>1. req'[r].todo \subseteq Snaps(Batch) /\ req'[r].pc \notin Acting
    <3>1. CASE ExtendReads(r)
      BY <1>t, <3>1 DEF ExtendReads, Begin, Idle, Acting
    <3>2. ASSUME NEW op, Close(r, op) PROVE req'[r].todo = {s \in Snaps(Batch) : s.live} /\ req'[r].pc = "destroy"
      BY <1>t, <3>2 DEF Close, Begin, Idle
    <3> QED BY <1>11, <3>1, <3>2 DEF Terminate, Purge, Acting
  <2> QED BY <1>p, <1>r, <2>1
<1>12. CASE Destroy(r) \/ DestroyFails(r)
  BY <1>t, <1>12 DEF Destroy, DestroyFails, Task, Acting
<1>13. ASSUME NEW b \in Labs, NEW op \in {"suspend", "start"}, Power(r, b, op) PROVE Moved /\ Listed
  BY <1>t, <1>13 DEF Power, Begin, Idle, Acting
<1> HIDE DEF Moved, Listed
<1> QED
  <2>1. ASSUME NEW b \in Labs, Claim(r, b) \/ CreateLab(r, b) PROVE Moved /\ Listed
    BY <1>10, <2>1 DEF Claim, CreateLab
  <2> QED BY <1>1, <1>2, <1>3, <1>4, <1>5, <1>6, <1>7, <1>8, <1>9, <1>11, <1>12, <1>13, <2>1 DEF ReqStep, Answers

\* Rows that requests name were inserted once.
Rooted ==
  \A r \in Requests : /\ req[r].pc \in Acting => launch[req[r].row.launch].state # "new"
                      /\ \A s \in req[r].todo : launch[s.launch].state # "new"

LEMMA RootedStep ==
  ASSUME Typed, Rooted, [Next]_vars
  PROVE  Rooted'
<1>t. /\ req \in [Requests -> Task] /\ \A r \in Requests : Sound(req[r])
  BY TypedFacts
<1>p. \A l \in Present : l \in Ids /\ launch[l].state # "new"
  BY DEF Present
<1>k. \A l \in Ids : launch[l].state # "new" => launch'[l].state # "new"
  BY RowsKept
<1>1. ASSUME NEW q \in Requests, UNCHANGED req[q]
      PROVE  /\ req'[q].pc \in Acting => launch'[req'[q].row.launch].state # "new"
             /\ \A s \in req'[q].todo : launch'[s.launch].state # "new"
  BY <1>t, <1>k, <1>1 DEF Rooted, Sound
<1>2. ASSUME NEW r \in Requests, ReqStep(r) PROVE Rooted'
  <2>1. /\ req'[r].pc \in Acting => launch'[req'[r].row.launch].state # "new"
        /\ \A s \in req'[r].todo : launch'[s.launch].state # "new"
    BY <1>t, <1>k, <1>p, <1>2, Advance DEF Rooted, Sound
  <2> QED BY <1>1, <1>2, <2>1, OthersWait DEF Rooted
<1>3. CASE OtherStep \/ UNCHANGED vars
  <2>1. CASE Crash
    BY <1>t, <2>1 DEF Crash, Idle, Rooted, Acting
  <2>2. CASE UNCHANGED req
    BY <1>1, <2>2 DEF Rooted
  <2> QED BY <1>3, <2>1, <2>2 DEF OtherStep, CreateLaunch, Revoke, Preview, Regenerate, RevokeBatch, Tick,
                                  LabEnds, Emitted, EmitFails, ghosts, history, vars
<1> QED BY <1>2, <1>3, StepKinds

\* All a step can do to labs when none is looked for, acquired, booted or
\* powered: one may end, and a request that goes on holding it is noted.
Still == \A q \in Requests : req'[q].pc \in {"create", "boot"} => req'[q] = req[q]
Quiet ==
  /\ Still
  /\ raced \subseteq raced'
  /\ \A b \in Labs : lab'[b].user = lab[b].user
  /\ \/ \A b \in Labs : lab'[b].status = lab[b].status
     \/ \E b \in Labs :
          /\ lab'[b].status \in {"dead", "left"}
          /\ \A c \in Labs \ {b} : lab'[c].status = lab[c].status
          /\ \A q \in Requests : req'[q].pc # "idle" /\ req'[q] = req[q] /\ Holds(q, b) => lab[b].user \in raced'
\* A power operation writes a lab live; if it was not, that is noted.
Powers(b) ==
  /\ Still
  /\ raced \subseteq raced'
  /\ \A c \in Labs : lab'[c].user = lab[c].user
  /\ lab'[b].status \in {"ready", "paused"}
  /\ \A c \in Labs \ {b} : lab'[c].status = lab[c].status
  /\ b \in LiveLabs \/ lab[b].user \in raced'

LEMMA LabSteps ==
  ASSUME Typed, [Next]_vars
  PROVE  \/ \E r \in Requests : \/ FindNone(r) \/ Boot(r)
                              \/ \E b \in Labs, status \in {"ready", "booting"} : Acquire(r, b, status)
         \/ Quiet
         \/ \E b \in Labs : Powers(b)
<1>t. /\ lab \in [Labs -> LabRow] /\ req \in [Requests -> Task] /\ \A r \in Requests : Sound(req[r])
  BY TypedFacts
<1>1. ASSUME NEW b \in Labs, NEW others \in SUBSET Requests, NEW status \in {"dead", "left"},
             Ends(b, status, others),
             \A q \in Requests \ others : req'[q] # req[q] \/ req'[q].pc = "idle", Still
      PROVE Quiet
  BY <1>t, <1>1 DEF Ends, Quiet, LabRow
<1>2. ASSUME \A b \in Labs : lab'[b].status = lab[b].status /\ lab'[b].user = lab[b].user, raced' = raced, Still
      PROVE Quiet
  BY <1>2 DEF Quiet
<1> DEFINE Same == /\ \A b \in Labs : lab'[b].status = lab[b].status /\ lab'[b].user = lab[b].user
                   /\ raced' = raced
<1>3. ASSUME NEW r \in Requests, ReqStep(r),
             ~FindNone(r), ~Boot(r), ~ \E b \in Labs : Claim(r, b) \/ CreateLab(r, b)
      PROVE Quiet \/ \E b \in Labs : Powers(b)
  <2>1. Still
    <3>1. \A q \in Requests \ {r} : req'[q] = req[q]
      BY <1>3, OthersWait
    <3>2. req'[r].pc \notin {"create", "boot"}
      <4>1. Answers(r) => req'[r].pc \notin {"create", "boot"}
        BY Answered
      <4> QED BY <1>3, <4>1, Target DEF ReqStep, Answers
    <3> QED BY <3>1, <3>2 DEF Still
  <2>2. CASE BootFails(r)
    <3>1. /\ req[r].lab \in Labs /\ Ends(req[r].lab, "dead", Requests \ {r})
          /\ req[r].pc = "boot" /\ req'[r].pc \in {"idle", "work"}
      BY <1>t, <2>2, FinishTypes DEF BootFails, Sound
    <3> QED BY <1>1, <2>1, <3>1
  <2>3. CASE Destroy(r)
    <3>1. PICK s \in req[r].todo : End(s.lab) /\ req[r].pc = "destroy"
      BY <2>3 DEF Destroy
    <3>2. s.lab \in Labs
      BY <1>t, <3>1 DEF Sound
    <3> QED BY <1>1, <2>1, <3>1, <3>2, EndKinds
  <2>4. CASE FindOwn(r)
    <3>1. lab' \in {lab, [lab EXCEPT ![Newest(LabsOf(UserOf(req[r].row)))].exp = req[r].row.exp]} /\ raced' = raced
      BY <2>4 DEF FindOwn, ghosts, history
    <3>2. Same
      BY <1>t, <3>1 DEF LabRow
    <3> QED BY <1>2, <2>1, <3>2
  <2>5. CASE Extend(r)
    <3>1. Same
      BY <1>t, <2>5 DEF Extend, LabRow
    <3> QED BY <1>2, <2>1, <3>1
  <2>6. CASE UNCHANGED <<lab, raced>>
    BY <1>2, <2>1, <2>6
  <2>7. CASE PowerWrites(r)
    <3> DEFINE b == req[r].lab
    <3>1. b \in Labs
      BY <1>t, <2>7 DEF PowerWrites, Sound
    <3>2. PICK status \in {"ready", "paused"} : lab' = [lab EXCEPT ![b].status = status]
      BY <2>7 DEF PowerWrites
    <3>3. raced \subseteq raced' /\ (b \in LiveLabs \/ lab[b].user \in raced')
      BY <2>7 DEF PowerWrites
    <3> HIDE DEF b
    <3> QED BY <1>t, <2>1, <3>1, <3>2, <3>3 DEF Powers, LabRow
  <2> QED BY <1>3, <2>2, <2>3, <2>4, <2>5, <2>6, <2>7
      DEF ReqStep, CreateBatch, AddSeats, AnswerSeats, InsertFails, InsertSeat, Redeem, Prepare, Stamp, PrepareBatch,
          TakeSeat, Link, LinkFails, Power, PowerFails, Terminate, Purge, Close, DestroyFails, RevokeAll, DeleteAll,
          ExtendReads, ghosts, history
<1>4. ASSUME NEW b \in Labs, LabEnds(b) PROVE Quiet
  <2>1. End(b) /\ Still
    BY <1>4 DEF LabEnds, Still
  <2> QED BY <1>1, <2>1, EndKinds
<1>5. CASE Crash
  BY <1>2, <1>5 DEF Crash, Idle, Still
<1>6. CASE UNCHANGED <<lab, raced, req>>
  BY <1>2, <1>6 DEF Still
<1>7. OtherStep \/ UNCHANGED vars =>
        Crash \/ (\E b \in Labs : LabEnds(b)) \/ UNCHANGED <<lab, raced, req>>
  BY DEF OtherStep, CreateLaunch, Revoke, Preview, Regenerate, RevokeBatch, Emitted, EmitFails, Tick, ghosts, history, vars
<1> QED BY <1>3, <1>4, <1>5, <1>6, <1>7, StepKinds DEF Claim, CreateLab

\* A user that was never raced has one lab at most; a request that found none
\* is the only one, and there is still none; a lab that boots is live.
Alone(u) ==
  /\ \A b, c \in LabsOf(u) : b = c
  /\ \A r \in Requests : req[r].pc = "create" /\ UserOf(req[r].row) = u =>
       /\ LabsOf(u) = {}
       /\ \A q \in Requests : req[q].pc = "create" /\ UserOf(req[q].row) = u => q = r
Unraced ==
  /\ \A u \in Users \ raced : Alone(u)
  /\ \A r \in Requests : req[r].pc = "boot" => req[r].lab \in LiveLabs \/ lab[req[r].lab].user \in raced

LEMMA UnracedStep ==
  ASSUME Typed, Rooted, Unraced, [Next]_vars
  PROVE  Unraced'
<1>t. /\ lab \in [Labs -> LabRow] /\ req \in [Requests -> Task] /\ \A r \in Requests : Sound(req[r])
      /\ \A r \in Requests : Sound(req'[r]) /\ lab' \in [Labs -> LabRow]
  BY TypedFacts, TypedStep DEF Typed, TypeOK, LabRow
<1>k. \A r \in Requests : req[r].pc \in Acting => launch'[req[r].row.launch].user = launch[req[r].row.launch].user
  BY <1>t, RowsKept DEF Rooted, Sound
<1>1. ASSUME NEW r \in Requests, FindNone(r) PROVE Unraced'
  <2> DEFINE v == UserOf(req[r].row)
  <2>1. /\ req'[r].pc = "create" /\ req'[r].row = req[r].row /\ req[r].pc \in Acting
        /\ \A q \in Requests \ {r} : req'[q] = req[q]
        /\ UNCHANGED <<lab, launch>>
    BY <1>t, <1>1 DEF FindNone, Goto, Task, Acting
  <2>2. /\ LabsOf(v) = {} /\ raced \subseteq raced'
        /\ \A q \in Requests : req[q].pc = "create" /\ UserOf(req[q].row) = v => v \in raced'
    BY <1>1 DEF FindNone
  <2>3. LiveLabs' = LiveLabs /\ (\A u : LabsOf(u)' = LabsOf(u)) /\ \A s : UserOf(s)' = UserOf(s)
    BY <2>1 DEF LiveLabs, LabsOf, UserOf
  <2> HIDE DEF v
  <2>4. ASSUME NEW u \in Users \ raced' PROVE Alone(u)'
    <3>1. u \in Users \ raced /\ Alone(u)
      BY <2>2 DEF Unraced
    <3> QED BY <2>1, <2>2, <2>3, <3>1 DEF Alone, v
  <2>5. ASSUME NEW q \in Requests, req'[q].pc = "boot"
        PROVE req'[q].lab \in LiveLabs' \/ lab'[req'[q].lab].user \in raced'
    BY <2>1, <2>2, <2>3, <2>5 DEF Unraced
  <2> QED BY <2>4, <2>5 DEF Unraced
<1>2. ASSUME NEW r \in Requests, NEW b \in Labs, NEW status \in {"ready", "booting"}, Acquire(r, b, status)
      PROVE Unraced'
  <2>0. PICK v : v = UserOf(req[r].row)
    OBVIOUS
  <2>1. /\ req'[r].pc \in {"link", "boot"} /\ req'[r].lab = b /\ req[r].pc = "create"
        /\ \A q \in Requests \ {r} : req'[q] = req[q]
        /\ UNCHANGED <<launch, raced>>
    BY <1>t, <1>2 DEF Acquire, Task, ghosts, history
  <2>2. /\ lab[b].status = "unborn" /\ lab'[b].user = v /\ lab'[b].status = status
        /\ \A c \in Labs \ {b} : lab'[c] = lab[c]
    BY <1>t, <1>2, <2>0 DEF Acquire
  <2>3. /\ b \in LiveLabs' /\ \A c \in LiveLabs : c \in LiveLabs' /\ lab'[c] = lab[c] /\ c # b
        /\ \A u : u # v => LabsOf(u)' = LabsOf(u)
        /\ LabsOf(v)' = LabsOf(v) \cup {b}
      <3>1. /\ b \in LiveLabs' /\ LiveLabs' = LiveLabs \cup {b}
          /\ \A c \in LiveLabs : c \in LiveLabs' /\ lab'[c] = lab[c] /\ c # b
      BY <2>2 DEF LiveLabs
    <3>2. /\ \A u : u # v => LabsOf(u)' = LabsOf(u)
          /\ LabsOf(v)' = LabsOf(v) \cup {b}
      <4>1. \A u : LabsOf(u)' = {c \in LiveLabs' : lab'[c].user = u}
        BY DEF LabsOf
      <4>2. \A u : LabsOf(u) = {c \in LiveLabs : lab[c].user = u}
        BY DEF LabsOf
      <4> QED BY <2>2, <3>1, <4>1, <4>2
    <3> QED BY <3>1, <3>2
  <2>4. \A s : UserOf(s)' = UserOf(s)
    BY <2>1 DEF UserOf
  <2>5. ASSUME NEW u \in Users \ raced' PROVE Alone(u)'
    <3>1. Alone(u)
      BY <2>1 DEF Unraced
    <3>2. \A q \in Requests : req'[q].pc = "create" => q # r /\ req'[q] = req[q]
      BY <2>1
    <3>3. CASE u # v
      <4>1. LabsOf(u)' = LabsOf(u)
        BY <2>3, <3>3
      <4> QED BY <2>4, <3>1, <3>2, <4>1 DEF Alone
    <3>4. CASE u = v
      <4>1. LabsOf(v) = {} /\ \A q \in Requests : req[q].pc = "create" /\ UserOf(req[q].row) = v => q = r
        BY <2>0, <2>1, <3>1, <3>4 DEF Alone
      <4>2. LabsOf(v)' = {b}
        BY <2>3, <4>1
      <4>3. \A q \in Requests : ~(req[q].pc = "create" /\ UserOf(req[q].row) = v)'
        BY <2>4, <3>2, <4>1
      <4> QED BY <3>4, <4>2, <4>3 DEF Alone
    <3> QED BY <3>3, <3>4
  <2>6. ASSUME NEW q \in Requests, req'[q].pc = "boot"
        PROVE req'[q].lab \in LiveLabs' \/ lab'[req'[q].lab].user \in raced'
    <3>1. CASE q = r
      BY <2>1, <2>3, <3>1
    <3>2. CASE q # r
      <4>1. req'[q] = req[q] /\ req[q].lab \in Labs
        BY <1>t, <2>1, <2>6, <3>2 DEF Sound
      <4>2. CASE req[q].lab = b
        BY <2>3, <4>1, <4>2
      <4>3. CASE req[q].lab # b
        BY <2>1, <2>2, <2>3, <2>6, <4>1, <4>3 DEF Unraced
      <4> QED BY <4>2, <4>3
    <3> QED BY <3>1, <3>2
  <2> QED BY <2>5, <2>6 DEF Unraced
<1>3. ASSUME NEW r \in Requests, Boot(r) PROVE Unraced'
  <2> DEFINE b == req[r].lab
  <2>1. /\ b \in Labs /\ req[r].pc = "boot" /\ req'[r].pc = "link"
        /\ \A q \in Requests \ {r} : req'[q] = req[q]
        /\ UNCHANGED <<launch, raced>>
        /\ lab' = [lab EXCEPT ![b].status = "ready"]
    BY <1>t, <1>3 DEF Boot, Goto, Sound, Task, ghosts, history
  <2> HIDE DEF b
  <2>2. /\ \A c \in Labs : lab'[c].user = lab[c].user
        /\ \A c \in Labs \ {b} : lab'[c] = lab[c]
        /\ lab'[b].status = "ready"
    BY <1>t, <2>1 DEF LabRow
  <2>3. /\ LiveLabs' = LiveLabs \cup {b} /\ \A s : UserOf(s)' = UserOf(s)
        /\ b \in LiveLabs \/ lab[b].user \in raced
    BY <2>1, <2>2 DEF LiveLabs, UserOf, Unraced, b
  <2>4. ASSUME NEW u \in Users \ raced' PROVE Alone(u)'
    <3>1. Alone(u) /\ u \notin raced
      BY <2>1 DEF Unraced
    <3>2. LabsOf(u)' = LabsOf(u)
      BY <2>2, <2>3, <3>1 DEF LabsOf, LiveLabs
    <3> QED BY <2>1, <2>3, <3>1, <3>2 DEF Alone
  <2>5. ASSUME NEW q \in Requests, req'[q].pc = "boot"
        PROVE req'[q].lab \in LiveLabs' \/ lab'[req'[q].lab].user \in raced'
    <3>1. req'[q] = req[q] /\ req[q].lab \in Labs
      BY <1>t, <2>1, <2>5 DEF Sound
    <3> QED BY <2>1, <2>2, <2>3, <2>5, <3>1 DEF Unraced
  <2> QED BY <2>4, <2>5 DEF Unraced
<1>4. CASE Quiet
  <2>1. \A u \in Users : LabsOf(u)' \subseteq LabsOf(u)
    BY <1>t, <1>4 DEF Quiet, LabsOf, LiveLabs
  <2>2. ASSUME NEW u \in Users \ raced' PROVE Alone(u)'
    BY <1>4, <1>k, <2>1, <2>2 DEF Quiet, Still, Unraced, Alone, UserOf, Acting
  <2>3. ASSUME NEW r \in Requests, req'[r].pc = "boot"
        PROVE req'[r].lab \in LiveLabs' \/ lab'[req'[r].lab].user \in raced'
    <3>1. req'[r] = req[r] /\ req[r].lab \in Labs /\ req[r].pc = "boot"
      BY <1>t, <1>4, <2>3 DEF Quiet, Still, Sound
    <3> QED BY <1>4, <3>1 DEF Quiet, Unraced, LiveLabs, Holds
  <2> QED BY <2>2, <2>3 DEF Unraced
<1>5. ASSUME NEW b \in Labs, Powers(b) PROVE Unraced'
  <2>1. LiveLabs' = LiveLabs \cup {b}
    BY <1>5 DEF Powers, LiveLabs
  <2>2. \A u \in Users \ raced' : LabsOf(u)' \subseteq LabsOf(u)
    BY <1>5, <2>1 DEF Powers, LabsOf, LiveLabs
  <2>3. ASSUME NEW u \in Users \ raced' PROVE Alone(u)'
    BY <1>5, <1>k, <2>2, <2>3 DEF Powers, Still, Unraced, Alone, UserOf, Acting
  <2>4. ASSUME NEW r \in Requests, req'[r].pc = "boot"
        PROVE req'[r].lab \in LiveLabs' \/ lab'[req'[r].lab].user \in raced'
    <3>1. req'[r] = req[r] /\ req[r].lab \in Labs /\ req[r].pc = "boot"
      BY <1>t, <1>5, <2>4 DEF Powers, Still, Sound
    <3> QED BY <1>5, <2>1, <3>1 DEF Powers, Unraced
  <2> QED BY <2>3, <2>4 DEF Unraced
<1> QED BY <1>1, <1>2, <1>3, <1>4, <1>5, LabSteps

LEMMA UnracedHolds == Spec => [](Rooted /\ Unraced)
<1>1. Init => Rooted /\ Unraced
  BY DEF Init, Rooted, Unraced, Alone, LabsOf, LiveLabs, Unborn, Idle, Acting
<1>2. Typed /\ Rooted /\ Unraced /\ [Next]_vars => (Rooted /\ Unraced)'
  BY RootedStep, UnracedStep
<1> QED BY <1>1, <1>2, TypedHolds, PTL DEF Spec

\* A student has one live lab at most, unless two requests looked for one
\* before either had created it, or the lab was destroyed in its boot, or was
\* written live again by a power operation after its end (acquireInstance): from looking for a lab to creating it nobody else of
\* the student does, so that there is still none.
THEOREM OneLab == Spec => []OneLabPerStudent
<1>1. Typed /\ Unraced => OneLabPerStudent
  <2> SUFFICES ASSUME Typed, Unraced, NEW u \in Users \ raced PROVE Cardinality(LabsOf(u)) <= 1
    BY DEF OneLabPerStudent
  <2>1. \A b, c \in LabsOf(u) : b = c
    BY DEF Unraced, Alone
  <2>2. CASE LabsOf(u) = {}
    BY <2>2, FS_EmptySet
  <2>3. CASE LabsOf(u) # {}
    <3>1. PICK b \in LabsOf(u) : LabsOf(u) = {b}
      BY <2>1, <2>3
    <3>2. Cardinality({b}) = 1
      BY FS_Singleton
    <3> QED BY <3>1, <3>2
  <2> QED BY <2>2, <2>3
<1> QED BY <1>1, TypedHolds, UnracedHolds, PTL

-----------------------------------------------------------------------------
(* Billing                                                                 *)

\* A redemption that is under way is the launch's only one, goes by what the
\* row still says, and has not been counted, unless only the resume is left.
Counted(l) ==
  /\ Total(billed[l]) = IF launch[l].redeemed = TRUE THEN 1 ELSE 0
  /\ \A r, q \in Requests : /\ req[r].op = "redeem" /\ req[r].row.launch = l
                             /\ req[q].op = "redeem" /\ req[q].row.launch = l => r = q
  /\ \A r \in Requests : req[r].op = "redeem" /\ req[r].row.launch = l /\ req[r].pc # "power" =>
       IF req[r].pc = "stamp" THEN launch[l].redeemed = FALSE ELSE req[r].row.redeemed = launch[l].redeemed
Bills ==
  /\ \A l \in Ids : launch[l].state = "new" => launch[l].redeemed = FALSE
  /\ \A l \in Ids \ crossed : Counted(l)

\* A redeem only starts in Redeem.
LEMMA RedeemsKept ==
  ASSUME Typed, [Next]_vars, ~ \E r \in Requests, u \in urls : Redeem(r, u), 
         NEW q \in Requests, req'[q].op = "redeem", ~Stamp(q), ~Link(q)
  PROVE  /\ req[q].op = "redeem" /\ req'[q].row.launch = req[q].row.launch
         /\ req'[q].row.redeemed = req[q].row.redeemed /\ (req'[q].pc = "stamp" <=> req[q].pc = "stamp")
         /\ req'[q].pc = "power" <=> req[q].pc = "power"
<1>t. /\ req \in [Requests -> Task] /\ \A r \in Requests : Sound(req[r])
      /\ req' \in [Requests -> Task] /\ \A r \in Requests : Sound(req'[r])
  BY TypedFacts, TypedStep DEF Typed, TypeOK, Task
<1>a. req'[q].pc \in Acting \cup {"power"}
  BY <1>t DEF Task, Sound, Pcs, Acting
<1>1. CASE UNCHANGED req[q]
  BY <1>1
<1>2. CASE ReqStep(q)
  <2>p. req'[q].pc \in Acting /\ ~Answers(q)
    <3>1. ~Answers(q)
      BY Answered
    <3>2. CASE req'[q].pc = "power"
      <4>1. \/ TakeSeat(q) \/ \E l \in Ids : Prepare(q, l)
            \/ \E b \in Labs, op \in {"suspend", "start"} : Power(q, b, op)
        BY <1>2, <3>1, <3>2, Target DEF ReqStep, Answers
      <4>2. ASSUME NEW l \in Ids, Prepare(q, l) PROVE req'[q].op # "redeem"
        BY <1>t, <4>2 DEF Prepare, Begin, Idle
      <4>3. ASSUME NEW b \in Labs, NEW op \in {"suspend", "start"}, Power(q, b, op) PROVE req'[q].op # "redeem"
        BY <1>t, <4>3 DEF Power, Begin, Idle
      <4>4. CASE TakeSeat(q)
        <5>1. req[q].op = "prepare_batch"
          BY <1>t, <4>4 DEF TakeSeat, Sound
        <5>2. CASE req[q].todo = {}
          BY <1>t, <4>4, <5>2 DEF TakeSeat, Idle
        <5>3. CASE req[q].todo # {}
          <6>1. PICK s \in req[q].todo :
                  req' = [req EXCEPT ![q] = [req[q] EXCEPT !.todo = @ \ {s}, !.row = s, !.lab = s.lab, !.pc = Fits(s)]]
            BY <1>t, <4>4, <5>3 DEF TakeSeat
          <6>2. req'[q].op = req[q].op
            BY <1>t, <6>1 DEF Task
          <6> QED BY <5>1, <6>2
        <5> QED BY <5>2, <5>3
      <4> QED BY <4>1, <4>2, <4>3, <4>4
    <3> QED BY <1>a, <3>1, <3>2
  <2>1. CASE req[q].pc \in Acting /\ req'[q].op = req[q].op /\ req'[q].row.launch = req[q].row.launch
             /\ req'[q].row.redeemed = req[q].row.redeemed
    <3>1. req'[q].pc # "stamp" /\ req[q].pc # "stamp"
      BY <1>2, <2>p, <2>1, Target DEF ReqStep, Answers, Acting
    <3> QED BY <1>a, <2>p, <2>1, <3>1 DEF Acting
  <2>2. CASE req[q].pc = "work" /\ req'[q].op = req[q].op
    BY <1>t, <2>2 DEF Sound
  <2>3. CASE req[q].pc = "idle"
    <3>1. PICK l \in Ids : Prepare(q, l)
      BY <1>2, <2>p, <2>3, Target DEF ReqStep, Answers, Acting
    <3>2. req'[q].op = "prepare"
      BY <1>t, <3>1 DEF Prepare, Begin, Idle
    <3> QED BY <3>2
  <2> QED BY <1>2, <2>p, <2>1, <2>2, <2>3, Advance
<1>3. CASE Crash
  BY <1>3 DEF Crash, Idle
<1>4. OtherStep \/ UNCHANGED vars => Crash \/ UNCHANGED req
  BY DEF OtherStep, CreateLaunch, Revoke, Preview, Regenerate, RevokeBatch, Emitted, EmitFails, Tick, LabEnds,
         ghosts, history, vars
<1> QED BY <1>1, <1>2, <1>3, <1>4, OthersWait, StepKinds

LEMMA RedeemedKept ==
  ASSUME Typed, [Next]_vars, ~ \E r \in Requests : Stamp(r) \/ Link(r),
         ~ \E l \in Ids, ttl \in {1, 2} : Regenerate(l, ttl)
  PROVE  /\ \A l \in Ids : launch'[l].redeemed = launch[l].redeemed \/ (launch[l].state = "new" /\ launch'[l].redeemed = FALSE)
         /\ \A l \in Ids : launch'[l].state = "new" => launch[l].state = "new" /\ launch'[l].redeemed = launch[l].redeemed
         /\ \A l \in Ids : Total(billed'[l]) = Total(billed[l])
<1>t. launch \in [Ids -> LaunchRow]
  BY TypedFacts
<1> DEFINE Kept == /\ \A l \in Ids : launch'[l].redeemed = launch[l].redeemed \/ (launch[l].state = "new" /\ launch'[l].redeemed = FALSE)
                   /\ \A l \in Ids : launch'[l].state = "new" => launch[l].state = "new" /\ launch'[l].redeemed = launch[l].redeemed
<1>b. \A l \in Ids : Total(billed'[l]) = Total(billed[l])
  <2>1. ASSUME NEW r \in Requests, ReqStep(r) PROVE billed' = billed
    BY <2>1
    DEF ReqStep, CreateBatch, AddSeats, AnswerSeats, InsertFails, InsertSeat, Redeem, Prepare, PrepareBatch,
      TakeSeat, FindOwn, FindNone, Claim, CreateLab, Acquire, Boot, BootFails, LinkFails,
      Power, PowerWrites, PowerFails, Terminate, Purge, Close, Destroy, DestroyFails,
      RevokeAll, DeleteAll, ExtendReads, Extend, ghosts, history
  <2>2. CASE OtherStep \/ UNCHANGED vars
    <3>1. billed' = billed \/ Crash \/ \E l \in Ids : Emitted(l) \/ EmitFails(l)
      BY <2>2
      DEF OtherStep, CreateLaunch, Revoke, Preview, RevokeBatch, Tick, LabEnds, ghosts, history, vars
    <3> QED BY <3>1, Untyped, SettleTypes
  <2> QED BY <2>1, <2>2, StepKinds
<1> SUFFICES Kept
  BY <1>b
<1>1. ASSUME NEW k \in Ids, NEW u, NEW ttl, Insert(k, u, ttl) PROVE Kept
  <2>1. /\ NewRow(u, ttl).redeemed = FALSE /\ NewRow(u, ttl).state = "present"
    BY DEF NewRow
  <2> QED BY <1>t, <1>1, <2>1 DEF Insert, NextId
<1>2. CASE UNCHANGED launch
  BY <1>2
<1>3. ASSUME NEW r \in Requests, RevokeAll(r) PROVE Kept
  BY <1>t, <1>3 DEF RevokeAll, Revoked, LaunchRow
<1>4. ASSUME NEW r \in Requests, DeleteAll(r) PROVE Kept
  BY <1>t, <1>4 DEF DeleteAll, LaunchRow
<1>5. ASSUME NEW r \in Requests, Extend(r) PROVE Kept
  BY <1>t, <1>5 DEF Extend, LaunchRow
<1>6. ASSUME NEW k \in Ids, Revoke(k) PROVE Kept
  BY <1>t, <1>6 DEF Revoke, Revoked, LaunchRow
<1>7. CASE RevokeBatch
  BY <1>t, <1>7 DEF RevokeBatch, Revoked, LaunchRow
<1>8. ASSUME NEW r \in Requests, ReqStep(r) PROVE Kept
  <2>1. ASSUME NEW s \in 1..MaxSeats, NEW k \in Ids, InsertSeat(r, s, k) PROVE Kept
    <3>1. Insert(k, s, req[r].ttl)
      BY <2>1 DEF InsertSeat
    <3> HIDE DEF Kept
    <3> QED BY <1>1, <3>1
  <2>2. \/ \E s \in 1..MaxSeats, k \in Ids : InsertSeat(r, s, k)
        \/ RevokeAll(r) \/ DeleteAll(r) \/ Extend(r) \/ UNCHANGED launch
    BY <1>8
    DEF ReqStep, CreateBatch, AddSeats, AnswerSeats, InsertFails, Redeem, Prepare, PrepareBatch,
        TakeSeat, FindOwn, FindNone, Claim, CreateLab, Acquire, Boot, BootFails, LinkFails,
        Power, PowerWrites, PowerFails, Terminate, Purge, Close, Destroy, DestroyFails, ExtendReads
  <2>3. CASE UNCHANGED launch
    BY <2>3
  <2> HIDE DEF Kept
  <2> QED BY <1>3, <1>4, <1>5, <2>1, <2>2, <2>3
<1>9. CASE OtherStep \/ UNCHANGED vars
  <2>1. ASSUME NEW k \in Ids, CreateLaunch(k) PROVE Kept
    <3>1. Insert(k, 0, 1)
      BY <2>1 DEF CreateLaunch
    <3> HIDE DEF Kept
    <3> QED BY <1>1, <3>1
  <2>2. \/ \E k \in Ids : CreateLaunch(k) \/ Revoke(k)
        \/ RevokeBatch \/ UNCHANGED launch
    BY <1>9 DEF OtherStep, Preview, Tick, Crash, LabEnds, Emitted, EmitFails, vars
  <2>3. CASE UNCHANGED launch
    BY <2>3
  <2> QED BY <1>6, <1>7, <2>1, <2>2, <2>3
<1> QED BY <1>8, <1>9, StepKinds

LEMMA BillsStep ==
  ASSUME Typed, Rooted, Bills, [Next]_vars
  PROVE  Bills'
<1>t. /\ launch \in [Ids -> LaunchRow] /\ req \in [Requests -> Task] /\ \A r \in Requests : Sound(req[r])
      /\ billed \in [Ids -> Bill] /\ urls \subseteq Url
      /\ req' \in [Requests -> Task] /\ \A r \in Requests : Sound(req'[r])
  BY TypedFacts, TypedStep DEF Typed, TypeOK, Task
<1>n. \A l \in Present : launch[l].state # "new" /\ l \in Ids
  BY DEF Present
<1>1. ASSUME NEW r \in Requests, NEW u \in urls, Redeem(r, u) PROVE Bills'
  <2>0. PICK k : k = u.launch /\ k \in Ids
    BY <1>1, <1>n DEF Redeem, Admits
  <2>1. /\ UNCHANGED <<launch, billed>>
        /\ crossed' = IF Redeems(k) # {} THEN crossed \cup {k} ELSE crossed
        /\ req[r].pc = "idle" /\ \A q \in Requests \ {r} : req'[q] = req[q]
        /\ req'[r].op = "redeem" /\ req'[r].row = Snap(k)
        /\ req'[r].pc = IF ~Snap(k).live THEN "lookup" ELSE IF Snap(k).redeemed THEN "power" ELSE "stamp"
    BY <1>t, <1>1, <2>0 DEF Redeem, Begin, Idle
  <2>2. Snap(k).launch = k /\ Snap(k).redeemed = launch[k].redeemed
    BY <2>0, SnapTypes
  <2>3. ASSUME NEW l \in Ids \ crossed' PROVE Counted(l)'
    <3>1. Counted(l)
      BY <2>1 DEF Bills
    <3>2. CASE l # k
      BY <2>1, <2>2, <3>1, <3>2 DEF Counted
    <3>3. CASE l = k
      <4>1. \A q \in Requests : ~(req[q].op = "redeem" /\ req[q].row.launch = k)
        BY <2>1, <3>3 DEF Redeems
      <4>2. req'[r].pc # "power" =>
              IF req'[r].pc = "stamp" THEN launch[k].redeemed = FALSE ELSE req'[r].row.redeemed = launch[k].redeemed
        <5>1. launch[k].redeemed \in BOOLEAN
          BY <1>t, <2>0 DEF LaunchRow
        <5> QED BY <2>1, <2>2, <5>1
      <4> QED BY <2>1, <2>2, <3>1, <3>3, <4>1, <4>2 DEF Counted
    <3> QED BY <3>2, <3>3
  <2> QED BY <2>1, <2>3 DEF Bills
<1>f. ASSUME NEW r \in Requests, Stamp(r) \/ Link(r)
      PROVE  /\ req'[r].op = "redeem" => req'[r].pc = "power" /\ req'[r].row = req[r].row
             /\ \A q \in Requests \ {r} : req'[q] = req[q]
  BY <1>f, Answered, OthersWait DEF Answers, ReqStep
<1>2. ASSUME NEW r \in Requests, Stamp(r) PROVE Bills'
  <2>0. PICK k : k = req[r].row.launch /\ k \in Ids /\ req[r].op = "redeem" /\ req[r].pc = "stamp"
    BY <1>t, <1>2 DEF Stamp, Sound, Acting
  <2>1. /\ crossed' = crossed /\ \A q \in Requests \ {r} : req'[q] = req[q]
        /\ req'[r].op = "redeem" => req'[r].pc = "power" /\ req'[r].row.launch = k
        /\ \/ /\ k \in Present /\ billed' = [billed EXCEPT ![k].due = @ + 1]
              /\ launch' = [launch EXCEPT ![k].redeemed = TRUE]
           \/ UNCHANGED <<launch, billed>>
    BY <1>2, <1>f, <2>0 DEF Stamp
  <2>2. /\ \A l \in Ids \ {k} : launch'[l] = launch[l] /\ billed'[l] = billed[l]
        /\ \/ k \in Present /\ Total(billed'[k]) = Total(billed[k]) + 1 /\ launch'[k].redeemed = TRUE
           \/ launch'[k] = launch[k] /\ billed'[k] = billed[k]
        /\ launch'[k].state = launch[k].state
    BY <1>t, <2>0, <2>1, DueTypes DEF LaunchRow
  <2>3. ASSUME NEW l \in Ids \ crossed' PROVE Counted(l)'
    <3>1. Counted(l)
      BY <2>1 DEF Bills
    <3>2. CASE l # k
      BY <2>1, <2>2, <3>1, <3>2 DEF Counted
    <3>3. CASE l = k
      <4>1. /\ \A q \in Requests : req[q].op = "redeem" /\ req[q].row.launch = k => q = r
            /\ launch[k].redeemed = FALSE /\ Total(billed[k]) = 0
        BY <2>0, <3>1, <3>3 DEF Counted
      <4>2. \A q \in Requests : req'[q].op = "redeem" /\ req'[q].row.launch = k => q = r /\ req'[q].pc = "power"
        BY <2>1, <4>1
      <4>3. Total(billed'[k]) = IF launch'[k].redeemed = TRUE THEN 1 ELSE 0
        BY <2>2, <4>1
      <4> QED BY <3>3, <4>2, <4>3 DEF Counted
    <3> QED BY <3>2, <3>3
  <2>4. \A l \in Ids : launch'[l].state = "new" => launch'[l].redeemed = FALSE
    BY <1>n, <2>2 DEF Bills
  <2> QED BY <2>3, <2>4 DEF Bills
<1>3. ASSUME NEW r \in Requests, Link(r) PROVE Bills'
  <2>0. PICK k : k = req[r].row.launch /\ k \in Ids /\ k \in Present
    BY <1>n, <1>3 DEF Link, Attachable
  <2> DEFINE first == req[r].op = "redeem" /\ ~req[r].row.redeemed
  <2>1. /\ crossed' = crossed /\ \A q \in Requests \ {r} : req'[q] = req[q]
        /\ req'[r].op = "redeem" => req'[r].pc = "power" /\ req'[r].row.launch = k
        /\ req'[r].op = "redeem" => req[r].op = "redeem"
        /\ launch' = [launch EXCEPT ![k].lab = req[r].lab, ![k].redeemed = @ \/ req[r].op = "redeem"]
        /\ billed' = IF first THEN [billed EXCEPT ![k].due = @ + 1] ELSE billed
        /\ req[r].pc = "link" /\ launch[k].redeemed \in BOOLEAN /\ req[r].row.redeemed \in BOOLEAN
    <3>1. launch[k].redeemed \in BOOLEAN /\ req[r].row.redeemed \in BOOLEAN
      BY <1>t, <2>0 DEF LaunchRow, Task, Snapshot
    <3>2. req'[r].op = "redeem" => req[r].op = "redeem"
      BY <1>3, Answered DEF Answers
    <3> QED BY <1>3, <1>f, <2>0, <3>1, <3>2 DEF Link
  <2>2. /\ \A l \in Ids \ {k} : launch'[l] = launch[l] /\ billed'[l] = billed[l]
        /\ launch'[k].redeemed = (launch[k].redeemed \/ req[r].op = "redeem")
        /\ Total(billed'[k]) = IF first THEN Total(billed[k]) + 1 ELSE Total(billed[k])
        /\ launch'[k].state = launch[k].state
    <3>1. /\ \A l \in Ids \ {k} : launch'[l] = launch[l]
          /\ launch'[k].redeemed = (launch[k].redeemed \/ req[r].op = "redeem")
          /\ launch'[k].state = launch[k].state
      <4>1. launch \in [Ids -> LaunchRow] /\ k \in Ids
        BY <1>t, <2>0
      <4>2. launch' = [launch EXCEPT ![k].lab = req[r].lab, ![k].redeemed = @ \/ req[r].op = "redeem"]
        BY <2>1
      <4>3. /\ \A l \in Ids \ {k} : launch'[l] = launch[l]
            /\ launch'[k].state = launch[k].state
        BY <4>1, <4>2, LinkedRow
      <4>4. launch[k] \in LaunchRow
        BY <4>1
      <4>5. launch'[k] = [launch[k] EXCEPT !.lab = req[r].lab, !.redeemed = @ \/ req[r].op = "redeem"]
        BY <4>1, <4>2
      <4>6. launch'[k].redeemed = (launch[k].redeemed \/ req[r].op = "redeem")
        BY <4>4, <4>5 DEF LaunchRow
      <4> QED BY <4>3, <4>6
    <3>2. /\ \A l \in Ids \ {k} : billed'[l] = billed[l]
          /\ Total(billed'[k]) = IF first THEN Total(billed[k]) + 1 ELSE Total(billed[k])
      <4> HIDE DEF first
      <4> QED BY <1>t, <2>0, <2>1, DueTypes
    <3> QED BY <3>1, <3>2
  <2>3. ASSUME NEW l \in Ids \ crossed' PROVE Counted(l)'
    <3>1. Counted(l)
      BY <2>1 DEF Bills
    <3>2. CASE l # k
      <4>1. launch'[l] = launch[l] /\ billed'[l] = billed[l]
        BY <2>2, <3>2
      <4>2. \A q \in Requests : req'[q].op = "redeem" /\ req'[q].row.launch = l => req'[q] = req[q]
        BY <2>1, <3>2
      <4> QED BY <3>1, <4>1, <4>2 DEF Counted
    <3>3. CASE l = k /\ req[r].op = "redeem"
      <4>1. /\ \A q \in Requests : req[q].op = "redeem" /\ req[q].row.launch = k => q = r
            /\ req[r].row.redeemed = launch[k].redeemed
        BY <2>0, <2>1, <3>1, <3>3 DEF Counted
      <4>2. \A q \in Requests : req'[q].op = "redeem" /\ req'[q].row.launch = k => q = r /\ req'[q].pc = "power"
        BY <2>1, <4>1
      <4>3. Total(billed'[k]) = 1 /\ launch'[k].redeemed = TRUE
        <5>1. Total(billed[k]) = IF launch[k].redeemed = TRUE THEN 1 ELSE 0
          BY <3>1, <3>3 DEF Counted
        <5>2. CASE launch[k].redeemed = TRUE
          BY <2>2, <3>3, <4>1, <5>1, <5>2
        <5>3. CASE launch[k].redeemed = FALSE
          <6>1. first
            BY <3>3, <4>1, <5>3
          <6>2. launch'[k].redeemed = TRUE
            BY <2>2, <3>3
          <6>3. Total(billed[k]) = 0
            BY <5>1, <5>3
          <6>4. Total(billed'[k]) = Total(billed[k]) + 1
            <7> HIDE DEF first
            <7> QED BY <2>2, <6>1
          <6> QED BY <6>2, <6>3, <6>4
        <5> QED BY <2>1, <5>2, <5>3
      <4> QED BY <3>3, <4>2, <4>3 DEF Counted
    <3>4. CASE l = k /\ req[r].op # "redeem"
      <4>1. launch'[k].redeemed = launch[k].redeemed /\ Total(billed'[k]) = Total(billed[k])
        BY <2>1, <2>2, <3>4
      <4>2. \A q \in Requests : req'[q].op = "redeem" => req'[q] = req[q]
        BY <2>1, <3>4
      <4> HIDE DEF first
      <4> QED BY <3>1, <3>4, <4>1, <4>2 DEF Counted
    <3> QED BY <3>2, <3>3, <3>4
  <2>4. \A l \in Ids : launch'[l].state = "new" => launch'[l].redeemed = FALSE
    BY <1>n, <2>0, <2>2 DEF Bills
  <2> QED BY <2>3, <2>4 DEF Bills
<1>4. ASSUME NEW k \in Ids, NEW ttl \in {1, 2}, Regenerate(k, ttl) PROVE Bills'
  <2>1. /\ launch' = [launch EXCEPT ![k] = [launch[k] EXCEPT !.jti = issued + 1, !.exp = now + ttl, !.redeemed = FALSE]]
        /\ billed' = [billed EXCEPT ![k] = NoBill] /\ req' = req
        /\ crossed' = IF Redeems(k) # {} THEN crossed \cup {k} ELSE crossed
    BY <1>t, <1>4 DEF Regenerate
  <2>2. /\ \A l \in Ids \ {k} : launch'[l] = launch[l] /\ billed'[l] = billed[l]
        /\ launch'[k].redeemed = FALSE /\ Total(billed'[k]) = 0
    BY <1>t, <2>1 DEF LaunchRow, NoBill, Total
  <2>3. ASSUME NEW l \in Ids \ crossed' PROVE Counted(l)'
    <3>1. Counted(l)
      BY <2>1 DEF Bills
    <3>2. CASE l # k
      BY <2>1, <2>2, <3>1, <3>2 DEF Counted
    <3>3. CASE l = k
      <4>1. \A q \in Requests : ~(req[q].op = "redeem" /\ req[q].row.launch = k)
        BY <2>1, <3>3 DEF Redeems
      <4>2. Total(billed'[l]) = IF launch'[l].redeemed = TRUE THEN 1 ELSE 0
        BY <2>2, <3>3
      <4>3. \A q \in Requests : ~(req'[q].op = "redeem" /\ req'[q].row.launch = l)
        BY <2>1, <3>3, <4>1
      <4> QED BY <4>2, <4>3 DEF Counted
    <3> QED BY <3>2, <3>3
  <2>4. \A l \in Ids : launch'[l].state = "new" => launch'[l].redeemed = FALSE
    BY <2>2 DEF Bills
  <2> QED BY <2>3, <2>4 DEF Bills
<1>5. CASE /\ ~ \E r \in Requests, u \in urls : Redeem(r, u)
           /\ ~ \E r \in Requests : Stamp(r) \/ Link(r)
           /\ ~ \E l \in Ids, ttl \in {1, 2} : Regenerate(l, ttl)
  <2>1. crossed' = crossed
    <3>1. ASSUME NEW r \in Requests, ReqStep(r) PROVE crossed' = crossed
      BY <1>5, <3>1
      DEF ReqStep, CreateBatch, AddSeats, AnswerSeats, InsertFails, InsertSeat, Redeem, Prepare, PrepareBatch,
        TakeSeat, FindOwn, FindNone, Claim, CreateLab, Acquire, Boot, BootFails, LinkFails,
        Power, PowerWrites, PowerFails, Terminate, Purge, Close, Destroy, DestroyFails,
        RevokeAll, DeleteAll, ExtendReads, Extend, ghosts, history
    <3>2. CASE OtherStep \/ UNCHANGED vars
      BY <1>5, <3>2
      DEF OtherStep, CreateLaunch, Revoke, Preview, RevokeBatch, Emitted, EmitFails, Tick, Crash, LabEnds,
          ghosts, history, vars
    <3> QED BY <3>1, <3>2, StepKinds
  <2>2. ASSUME NEW l \in Ids \ crossed PROVE Counted(l)'
    <3>1. Counted(l)
      BY DEF Bills
    <3>2. launch'[l].redeemed = launch[l].redeemed /\ Total(billed'[l]) = Total(billed[l])
      BY <1>5, RedeemedKept DEF Bills
    <3>3. \A q \in Requests : req'[q].op = "redeem" =>
            /\ req[q].op = "redeem" /\ req'[q].row.launch = req[q].row.launch
            /\ req'[q].row.redeemed = req[q].row.redeemed /\ (req'[q].pc = "stamp" <=> req[q].pc = "stamp")
            /\ req'[q].pc = "power" <=> req[q].pc = "power"
      BY <1>5, RedeemsKept
    <3>4. \A q \in Requests : req'[q].op = "redeem" /\ req'[q].row.launch = l /\ req'[q].pc # "power" =>
            IF req'[q].pc = "stamp" THEN launch'[l].redeemed = FALSE ELSE req'[q].row.redeemed = launch'[l].redeemed
      BY <1>t, <3>1, <3>2, <3>3 DEF Counted
    <3> QED BY <3>1, <3>2, <3>3, <3>4 DEF Counted
  <2>3. ASSUME NEW l \in Ids, launch'[l].state = "new" PROVE launch'[l].redeemed = FALSE
    BY <1>5, <2>3, RedeemedKept DEF Bills
  <2> QED BY <2>1, <2>2, <2>3 DEF Bills
<1> HIDE DEF Bills
<1> QED BY <1>1, <1>2, <1>3, <1>4, <1>5

LEMMA BillsHold == Spec => []Bills
<1>1. Init => Bills
  BY DEF Init, Bills, Counted, NoRow, Idle, NoBill, Total
<1>2. Typed /\ Rooted /\ Bills /\ [Next]_vars => Bills'
  BY BillsStep
<1> QED BY <1>1, <1>2, TypedHolds, UnracedHolds, PTL DEF Spec

\* A redemption is billed at most once, and once unless its event is still on
\* its way or was lost, unless redeems of the launch overlapped each
\* other or a regenerate: what the request read of redeemedAt still holds
\* when it writes (redeem.ts, recordLaunchRedeemed).
THEOREM BillOnce == Spec => []BilledOnce
<1>1. Typed /\ Bills => BilledOnce
  <2> SUFFICES ASSUME Typed, Bills, NEW l \in Present \ crossed
               PROVE /\ billed[l].written <= IF launch[l].redeemed THEN 1 ELSE 0
                     /\ launch[l].redeemed /\ billed[l].written = 0 => billed[l].due + billed[l].lost = 1
    BY DEF BilledOnce
  <2>1. l \in Ids \ crossed /\ launch[l].redeemed \in BOOLEAN /\ billed[l] \in Bill
    BY TypedFacts, Untyped DEF Present, LaunchRow
  <2>2. billed[l].due \in Nat /\ billed[l].written \in Nat /\ billed[l].lost \in Nat
    BY <2>1 DEF Bill
  <2>3. billed[l].due + billed[l].written + billed[l].lost = IF launch[l].redeemed = TRUE THEN 1 ELSE 0
    BY <2>1 DEF Bills, Counted, Total
  <2> QED BY <2>1, <2>2, <2>3
<1> QED BY <1>1, TypedHolds, BillsHold, PTL

-----------------------------------------------------------------------------
(* Seats                                                                   *)

\* Seats and those about to be inserted are the numbers from 1 on, each once,
\* so that their count is the greatest.
Waiting(r) == req[r].pc = "insert"
Numbered(i) == \/ \E l \in Batch : launch[l].user = i
               \/ \E r \in Requests : Waiting(r) /\ i \in req[r].seats
InOrder ==
  /\ \A k, l \in Batch : launch[k].user = launch[l].user => k = l
  /\ \A r, q \in Requests : Waiting(r) /\ Waiting(q) => r = q
  /\ \A r \in Requests, l \in Batch : Waiting(r) => launch[l].user \notin req[r].seats
  /\ \E m \in Nat : \A i : Numbered(i) <=> i \in 1 .. m

LEMMA WaitingIsAdding ==
  ASSUME Typed
  PROVE  /\ Adding <=> \E r \in Requests : Waiting(r)
         /\ muddled \in BOOLEAN
<1>1. req \in [Requests -> Task] /\ \A r \in Requests : Sound(req[r])
  BY TypedFacts
<1>2. \A r \in Requests : req[r].op = "seats" <=> req[r].pc = "insert"
  BY <1>1 DEF Task, Sound, Pcs, Acting
<1> QED BY <1>2, Untyped DEF Adding, Waiting

\* With nobody adding, the count of seats is the greatest number.
LEMMA CountIsLast ==
  ASSUME Typed, InOrder, ~Adding
  PROVE  \A i : (\E l \in Batch : launch[l].user = i) <=> i \in 1 .. Cardinality(Batch)
<1>1. PICK m \in Nat : \A i : Numbered(i) <=> i \in 1 .. m
  BY DEF InOrder
<1>2. \A i : (\E l \in Batch : launch[l].user = i) <=> i \in 1 .. m
  BY <1>1, WaitingIsAdding DEF Numbered
<1> DEFINE f == [l \in Batch |-> launch[l].user]
<1>3. IsFiniteSet(1 .. m) /\ Cardinality(1 .. m) = m
  BY FS_Interval
<1>4. f \in Bijection(Batch, 1 .. m)
  <2>1. f \in [Batch -> 1 .. m]
    BY <1>2
  <2>2. \A k, l \in Batch : f[k] = f[l] => k = l
    BY DEF InOrder
  <2>3. \A i \in 1 .. m : \E l \in Batch : f[l] = i
    BY <1>2
  <2> HIDE DEF f
  <2> QED BY <2>1, <2>2, <2>3 DEF Bijection, Injection, Surjection, IsInjective
<1>5. IsFiniteSet(Batch)
  <2>1. IsFiniteSet(Ids)
    BY BoundsAssumption, FS_Interval DEF Ids
  <2> QED BY <2>1, FS_Subset DEF Batch, Present
<1>6. Cardinality(Batch) = m
  BY <1>3, <1>4, <1>5, FS_Bijection DEF ExistsBijection
<1> QED BY <1>2, <1>6

\* Rows of the batch come and go in InsertSeat and DeleteAll only.
LEMMA BatchKept ==
  ASSUME Typed, [Next]_vars,
         ~ \E r \in Requests, s \in 1..MaxSeats, l \in Ids : InsertSeat(r, s, l),
         ~ \E r \in Requests : DeleteAll(r)
  PROVE  Batch' = Batch /\ \A l \in Batch : launch'[l].user = launch[l].user
<1>t. launch \in [Ids -> LaunchRow]
  BY TypedFacts
<1> DEFINE Kept == \A l \in Ids : /\ launch'[l].user = launch[l].user
                                /\ (launch'[l].state = "present") = (launch[l].state = "present")
<1>0. ASSUME Kept PROVE Batch' = Batch /\ \A l \in Batch : launch'[l].user = launch[l].user
  BY <1>0 DEF Batch, Present
<1>1. CASE UNCHANGED launch
  BY <1>1 DEF Batch, Present
<1>2. ASSUME NEW k \in Ids, CreateLaunch(k) PROVE Batch' = Batch /\ \A l \in Batch : launch'[l].user = launch[l].user
  <2>1. launch[k].state = "new" /\ launch' = [launch EXCEPT ![k] = NewRow(0, 1)] /\ NewRow(0, 1).user = 0
    BY <1>2 DEF CreateLaunch, Insert, NextId, NewRow
  <2> QED BY <1>t, <2>1 DEF Batch, Present
<1>3. ASSUME NEW r \in Requests, Stamp(r) \/ Link(r) PROVE Kept
  BY <1>t, <1>3, RowsStay
<1>4. ASSUME NEW r \in Requests, RevokeAll(r) PROVE Kept
  BY <1>t, <1>4 DEF RevokeAll, Revoked, LaunchRow
<1>6. ASSUME NEW r \in Requests, Extend(r) PROVE Kept
  BY <1>t, <1>6 DEF Extend, LaunchRow
<1>7. ASSUME NEW k \in Ids, Revoke(k) PROVE Kept
  BY <1>t, <1>7 DEF Revoke, Revoked, LaunchRow
<1>8. ASSUME NEW k \in Ids, NEW ttl \in {1, 2}, Regenerate(k, ttl) PROVE Kept
  BY <1>t, <1>8 DEF Regenerate, LaunchRow
<1>9. CASE RevokeBatch
  <2>1. Kept
    BY <1>t, <1>9 DEF RevokeBatch, Revoked, LaunchRow
  <2> QED BY <1>0, <2>1
<1> HIDE DEF Kept
<1>10. ASSUME NEW r \in Requests, ReqStep(r) PROVE Kept \/ UNCHANGED launch
  BY <1>10, <1>3, <1>4, <1>6
  DEF ReqStep, CreateBatch, AddSeats, AnswerSeats, InsertFails, Redeem, Prepare, PrepareBatch,
      TakeSeat, FindOwn, FindNone, Claim, CreateLab, Acquire, Boot, BootFails, LinkFails,
      Power, PowerWrites, PowerFails, Terminate, Purge, Close, Destroy, DestroyFails, ExtendReads
<1>11. CASE OtherStep \/ UNCHANGED vars
  <2>1. (\E k \in Ids : CreateLaunch(k) \/ Revoke(k) \/ \E ttl \in {1, 2} : Regenerate(k, ttl)) \/ RevokeBatch
          \/ UNCHANGED launch
    BY <1>11 DEF OtherStep, Preview, Tick, Crash, LabEnds, Emitted, EmitFails, vars
  <2> QED BY <1>0, <1>1, <1>2, <1>7, <1>8, <1>9, <2>1
<1> QED BY <1>0, <1>1, <1>10, <1>11, StepKinds

\* Requests begin and go on inserting in CreateBatch, AddSeats, InsertSeat and
\* InsertFails only; they stop when they have no seats left, or in a crash.
LEMMA WaitingKept ==
  ASSUME Typed, [Next]_vars, ~Crash,
         ~ \E r \in Requests : CreateBatch(r) \/ AddSeats(r)
             \/ \E s \in 1..MaxSeats : InsertFails(r, s) \/ \E l \in Ids : InsertSeat(r, s, l),
         NEW q \in Requests
  PROVE  /\ req'[q].pc = "insert" => req'[q] = req[q]
         /\ Waiting(q) /\ req[q].seats # {} => req'[q] = req[q]
<1>1. CASE UNCHANGED req[q]
  BY <1>1
<1>2. CASE ReqStep(q)
  <2>1. req'[q].pc # "insert"
    <3>1. Answers(q) => req'[q].pc # "insert"
      BY Answered
    <3> QED BY <1>2, <3>1, Target DEF ReqStep, Answers
  <2>2. AnswerSeats(q) => req[q].seats = {}
    BY DEF AnswerSeats
  <2>3. Stamp(q) \/ BootFails(q) \/ Link(q) \/ LinkFails(q) \/ RevokeAll(q) \/ DeleteAll(q)
              \/ Extend(q) \/ PowerWrites(q) \/ PowerFails(q) => req[q].pc # "insert"
    BY DEF Stamp, BootFails, Link, LinkFails, RevokeAll, DeleteAll, Extend, PowerWrites, PowerFails
  <2> QED BY <1>2, <2>1, <2>2, <2>3, Target DEF ReqStep, Waiting
<1>3. OtherStep \/ UNCHANGED vars => Crash \/ UNCHANGED req
  BY DEF OtherStep, CreateLaunch, Revoke, Preview, Regenerate, RevokeBatch, Emitted, EmitFails, Tick, LabEnds,
         ghosts, history, vars
<1> QED BY <1>1, <1>2, <1>3, OthersWait, StepKinds

LEMMA InOrderStep ==
  ASSUME Typed, muddled \/ InOrder, [Next]_vars
  PROVE  (muddled \/ InOrder)'
<1>t. /\ launch \in [Ids -> LaunchRow] /\ req \in [Requests -> Task] /\ \A r \in Requests : Sound(req[r])
  BY TypedFacts
<1>m. muddled => muddled'
  <2>1. ASSUME NEW r \in Requests, ReqStep(r) PROVE muddled => muddled'
    BY <2>1
    DEF ReqStep, CreateBatch, AddSeats, AnswerSeats, InsertFails, InsertSeat, Redeem, Prepare, Stamp, PrepareBatch,
      TakeSeat, FindOwn, FindNone, Claim, CreateLab, Acquire, Boot, BootFails, Link, LinkFails,
      Power, PowerWrites, PowerFails, Terminate, Purge, Close, Destroy, DestroyFails,
      RevokeAll, DeleteAll, ExtendReads, Extend, ghosts, history
  <2>2. CASE OtherStep \/ UNCHANGED vars
    BY <2>2
    DEF OtherStep, CreateLaunch, Revoke, Preview, Regenerate, RevokeBatch, Emitted, EmitFails, Tick, Crash, LabEnds,
        ghosts, history, vars
  <2> QED BY <2>1, <2>2, StepKinds
<1> SUFFICES ASSUME ~muddled, InOrder, ~muddled' PROVE InOrder'
  BY <1>m
\* A request begins to insert the next numbers.
<1>1. ASSUME NEW r \in Requests, CreateBatch(r) \/ AddSeats(r) PROVE InOrder'
  <2> DEFINE n == Cardinality(Batch)
  <2>1. ~Adding /\ launch' = launch /\ \A q \in Requests \ {r} : req'[q] = req[q]
    BY <1>1, <1>t, OthersWait DEF CreateBatch, AddSeats, ReqStep
  <2>2. \A i : (\E l \in Batch : launch[l].user = i) <=> i \in 1 .. n
    BY <2>1, CountIsLast
  <2>3. \A q \in Requests : ~Waiting(q)
    BY <2>1, WaitingIsAdding
  <2>4. n \in Nat
    <3>1. IsFiniteSet(Ids)
      BY BoundsAssumption, FS_Interval DEF Ids
    <3> QED BY <3>1, FS_Subset, FS_CardinalityType DEF Batch, Present
  <2>5. PICK k \in {1, 2} : req'[r].seats = n + 1 .. n + k /\ req'[r].pc = "insert"
    <3>1. CASE CreateBatch(r)
      <4>1. Batch = {}
        BY <3>1 DEF CreateBatch, Batch, Present
      <4>2. n = 0
        BY <4>1, FS_EmptySet
      <4> HIDE DEF n
      <4>3. PICK k \in {1, 2} : req' = [req EXCEPT ![r] =
              [Idle EXCEPT !.op = "seats", !.pc = "insert", !.seats = 1 .. k, !.ttl = 2]]
        BY <3>1 DEF CreateBatch, Begin
      <4>4. req'[r] = [Idle EXCEPT !.op = "seats", !.pc = "insert", !.seats = 1 .. k, !.ttl = 2]
        BY <1>t, <4>3
      <4>5. req'[r].seats = 1 .. k /\ req'[r].pc = "insert" /\ 1 = n + 1 /\ k = n + k
        BY <4>2, <4>4 DEF Idle
      <4> QED BY <4>5
    <3>2. CASE AddSeats(r)
      <4>1. PICK k \in {1, 2} : req' = [req EXCEPT ![r] =
              [Idle EXCEPT !.op = "seats", !.pc = "insert", !.seats = n + 1 .. n + k, !.ttl = Lifetime]]
        BY <3>2 DEF AddSeats, Begin
      <4> HIDE DEF n
      <4>2. req'[r] = [Idle EXCEPT !.op = "seats", !.pc = "insert", !.seats = n + 1 .. n + k, !.ttl = Lifetime]
        BY <1>t, <4>1
      <4>3. req'[r].seats = n + 1 .. n + k /\ req'[r].pc = "insert"
        BY <4>2 DEF Idle
      <4> QED BY <4>3
    <3> QED BY <1>1, <3>1, <3>2
  <2>6. PICK c \in Nat : c = n
    BY <2>4
  <2> HIDE DEF n
  <2>7. \A q \in Requests : Waiting(q)' <=> q = r
    BY <2>1, <2>3, <2>5 DEF Waiting
  <2>8. Batch' = Batch
    BY <2>1 DEF Batch, Present
  <2>9. \A i : Numbered(i)' <=> i \in 1 .. c + k
    <3>1. ASSUME NEW i PROVE Numbered(i)' <=> (\E l \in Batch : launch[l].user = i) \/ i \in c + 1 .. c + k
      BY <2>1, <2>5, <2>6, <2>7, <2>8 DEF Numbered
    <3>2. \A i : i \in 1 .. c + k <=> i \in 1 .. c \/ i \in c + 1 .. c + k
      OBVIOUS
    <3> QED BY <2>2, <2>6, <3>1, <3>2
  <2>10. ASSUME NEW l \in Batch PROVE launch[l].user \notin req'[r].seats
    <3>1. launch[l].user \in 1 .. c
      BY <2>2, <2>6
    <3> QED BY <2>5, <2>6, <3>1
  <2>11. \A q \in Requests, l \in Batch' : Waiting(q)' => launch'[l].user \notin req'[q].seats
    BY <2>1, <2>7, <2>8, <2>10
  <2>12. c + k \in Nat
    OBVIOUS
  <2> QED BY <2>1, <2>7, <2>8, <2>9, <2>11, <2>12 DEF InOrder
<1>2. ASSUME NEW r \in Requests, NEW s \in 1..MaxSeats, NEW l \in Ids, InsertSeat(r, s, l) PROVE InOrder'
  <2>1. /\ Waiting(r) /\ s \in req[r].seats /\ launch[l].state = "new"
        /\ launch'[l].state = "present" /\ launch'[l].user = s
        /\ \A k \in Ids \ {l} : launch'[k] = launch[k]
        /\ \A q \in Requests \ {r} : req'[q] = req[q]
        /\ req'[r].seats = req[r].seats \ {s} /\ req'[r].pc = "insert"
    BY <1>2, <1>t DEF InsertSeat, Insert, NextId, NewRow, Waiting, Task
  <2>2. Batch' = Batch \cup {l} /\ l \notin Batch /\ \A k \in Batch : launch'[k].user = launch[k].user
    BY <2>1 DEF Batch, Present
  <2>3. \A q \in Requests : Waiting(q)' <=> Waiting(q)
    BY <2>1 DEF Waiting
  <2>4. \A q \in Requests : Waiting(q) => q = r
    BY <2>1 DEF InOrder
  <2>5. \A i : Numbered(i)' <=> Numbered(i)
    BY <2>1, <2>2, <2>3, <2>4 DEF Numbered
  <2>6. \A k, j \in Batch' : launch'[k].user = launch'[j].user => k = j
    BY <2>1, <2>2 DEF InOrder
  <2>7. \A q \in Requests, k \in Batch' : Waiting(q)' => launch'[k].user \notin req'[q].seats
    BY <2>1, <2>2, <2>3, <2>4 DEF InOrder
  <2>8. \E m \in Nat : \A i : Numbered(i)' <=> i \in 1 .. m
    BY <2>5 DEF InOrder
  <2> QED BY <2>3, <2>4, <2>6, <2>7, <2>8 DEF InOrder
<1>3. ASSUME NEW r \in Requests, NEW s \in 1..MaxSeats, InsertFails(r, s) PROVE InOrder'
  BY <1>3 DEF InsertFails
<1>4. CASE Crash \/ \E r \in Requests : DeleteAll(r)
  <2>1. ~Adding
    BY <1>4 DEF Crash, DeleteAll
  <2>2. \A q \in Requests : ~Waiting(q)
    BY <2>1, WaitingIsAdding
  <2>3. \A q \in Requests : ~Waiting(q)'
    <3>1. CASE Crash
      BY <3>1 DEF Crash, Waiting, Idle
    <3>2. ASSUME NEW r \in Requests, DeleteAll(r) PROVE \A q \in Requests : ~Waiting(q)'
      BY <2>2, <3>2, FinishTypes DEF DeleteAll, Waiting
    <3> QED BY <1>4, <3>1, <3>2
  <2>4. CASE Crash
    <3>1. launch' = launch /\ Batch' = Batch
      BY <2>4 DEF Crash, Batch, Present
    <3>2. \A i : Numbered(i)' <=> Numbered(i)
      BY <2>2, <2>3, <3>1 DEF Numbered
    <3>3. \E m \in Nat : \A i : Numbered(i)' <=> i \in 1 .. m
      BY <3>2 DEF InOrder
    <3> QED BY <2>3, <3>1, <3>3 DEF InOrder
  <2>5. CASE \E r \in Requests : DeleteAll(r)
    <3>1. Batch' = {}
      BY <1>t, <2>5 DEF DeleteAll, Batch, Present, LaunchRow
    <3>2. \A i : ~Numbered(i)'
      BY <2>3, <3>1 DEF Numbered
    <3>3. \E m \in Nat : \A i : Numbered(i)' <=> i \in 1 .. m
      <4>1. \A i : i \notin 1 .. 0
        OBVIOUS
      <4> QED BY <3>2, <4>1
    <3> QED BY <2>3, <3>1, <3>3 DEF InOrder
  <2> QED BY <1>4, <2>4, <2>5
<1>5. CASE /\ ~Crash /\ ~ \E r \in Requests : DeleteAll(r)
           /\ ~ \E r \in Requests : CreateBatch(r) \/ AddSeats(r)
                 \/ \E s \in 1..MaxSeats : InsertFails(r, s) \/ \E l \in Ids : InsertSeat(r, s, l)
  <2>1. Batch' = Batch /\ \A l \in Batch : launch'[l].user = launch[l].user
    BY <1>5, BatchKept
  <2>2. \A q \in Requests : /\ req'[q].pc = "insert" => req'[q] = req[q]
                            /\ Waiting(q) /\ req[q].seats # {} => req'[q] = req[q]
    BY <1>5, WaitingKept
  <2>3. \A q \in Requests : Waiting(q)' => Waiting(q) /\ req'[q].seats = req[q].seats
    BY <2>2 DEF Waiting
  <2>4. \A i : Numbered(i)' <=> Numbered(i)
    BY <2>1, <2>2, <2>3 DEF Numbered, Waiting
  <2>5. \E m \in Nat : \A i : Numbered(i)' <=> i \in 1 .. m
    BY <2>4 DEF InOrder
  <2> QED BY <2>1, <2>3, <2>5 DEF InOrder
<1> QED BY <1>1, <1>2, <1>3, <1>4, <1>5

\* No two URLs of the batch are for one seat, unless seats were added while
\* others were, or an insert failed: the numbers follow the count of rows, so
\* that the count has to be the greatest number (batches.ts, add-seats).
THEOREM SeatsDistinct == Spec => []SeatsAreDistinct
<1>1. Init => muddled \/ InOrder
  <2> SUFFICES ASSUME Init PROVE InOrder OBVIOUS
  <2>1. Batch = {} /\ \A r \in Requests : ~Waiting(r)
    BY DEF Init, Batch, Present, NoRow, Waiting, Idle
  <2>2. \E m \in Nat : \A i : Numbered(i) <=> i \in 1 .. m
    <3>1. \A i : i \notin 1 .. 0
      OBVIOUS
    <3> QED BY <2>1, <3>1 DEF Numbered
  <2> QED BY <2>1, <2>2 DEF InOrder
<1>2. Typed /\ (muddled \/ InOrder) /\ [Next]_vars => (muddled \/ InOrder)'
  BY InOrderStep
<1>3. muddled \/ InOrder => SeatsAreDistinct
  BY DEF InOrder, SeatsAreDistinct
<1> QED BY <1>1, <1>2, <1>3, TypedHolds, PTL DEF Spec

-----------------------------------------------------------------------------
(* Stray labs                                                              *)

\* A launch loses its lab in Link only, and is there until DeleteAll.
LEMMA PointersKept ==
  ASSUME Typed, [Next]_vars, NEW l \in Ids
  PROVE  /\ ~ (\E r \in Requests : Link(r)) =>
              launch'[l].lab = IF launch[l].state = "new" /\ launch'[l] # launch[l] THEN NoLab ELSE launch[l].lab
         /\ ~ (\E r \in Requests : DeleteAll(r)) =>
              (launch[l].state = "present" => launch'[l].state = "present")
              /\ (launch'[l].state = "deleted" => launch[l].state = "deleted")
<1>t. launch \in [Ids -> LaunchRow]
  BY TypedFacts
<1> DEFINE Lab == launch'[l].lab = IF launch[l].state = "new" /\ launch'[l] # launch[l] THEN NoLab ELSE launch[l].lab
           There == (launch[l].state = "present" => launch'[l].state = "present")
                    /\ (launch'[l].state = "deleted" => launch[l].state = "deleted")
<1>1. CASE UNCHANGED launch
  <2>1. Lab /\ There
    BY <1>1
  <2> QED BY <2>1
<1>2. ASSUME NEW k \in Ids, NEW u, NEW ttl, Insert(k, u, ttl) PROVE Lab /\ There
  <2>1. NewRow(u, ttl).lab = NoLab /\ NewRow(u, ttl).state = "present"
    BY DEF NewRow
  <2> QED BY <1>t, <1>2, <2>1 DEF Insert, NextId
<1>p. \A k \in Present : launch[k].state # "new"
  BY DEF Present
<1>3. ASSUME NEW r \in Requests, Stamp(r) PROVE Lab /\ There
  BY <1>t, <1>p, <1>3 DEF Stamp, LaunchRow
<1>4. ASSUME NEW r \in Requests, RevokeAll(r) PROVE Lab /\ There
  <2>1. l \in Batch => launch[l].state # "new"
    BY DEF Batch, Present
  <2> QED BY <1>t, <1>4, <2>1 DEF RevokeAll, Revoked, LaunchRow
<1>5. ASSUME NEW r \in Requests, DeleteAll(r) PROVE Lab
  <2>1. l \in Batch => launch[l].state # "new"
    BY DEF Batch, Present
  <2> QED BY <1>t, <1>5, <2>1 DEF DeleteAll, LaunchRow
<1>6. ASSUME NEW r \in Requests, Extend(r) PROVE There /\ launch'[l].lab = launch[l].lab
  BY <1>t, <1>6 DEF Extend, LaunchRow
<1>6a. ASSUME NEW r \in Requests, Extend(r) PROVE launch'[l] # launch[l] => launch[l].state # "new"
  BY <1>t, <1>6a DEF Extend, Present
<1>7. ASSUME NEW k \in Ids, Revoke(k) PROVE Lab /\ There
  <2>1. k \in Present /\ launch[k].state # "new"
    BY <1>7 DEF Revoke, Present
  <2> QED BY <1>t, <1>7, <2>1 DEF Revoke, Revoked, LaunchRow
<1>8. ASSUME NEW k \in Ids, NEW ttl \in {1, 2}, Regenerate(k, ttl) PROVE Lab /\ There
  <2>1. launch[k].state # "new"
    BY <1>8 DEF Regenerate, Present
  <2> QED BY <1>t, <1>8, <2>1 DEF Regenerate, LaunchRow
<1>10. ASSUME NEW r \in Requests, Link(r) PROVE There
  BY <1>t, <1>10 DEF Link, LaunchRow
<1>11. ASSUME NEW r \in Requests, Extend(r) PROVE Lab
  BY <1>6, <1>6a, <1>11
<1>12. ASSUME NEW r \in Requests, ReqStep(r)
       PROVE (Link(r) \/ Lab) /\ (DeleteAll(r) \/ There)
  <2>1. ASSUME NEW s \in 1..MaxSeats, NEW k \in Ids, InsertSeat(r, s, k) PROVE Lab /\ There
    <3>1. Insert(k, s, req[r].ttl)
      BY <2>1 DEF InsertSeat
    <3> HIDE DEF Lab, There
    <3> QED BY <1>2, <3>1
  <2>2. \/ \E s \in 1..MaxSeats, k \in Ids : InsertSeat(r, s, k)
        \/ Stamp(r) \/ Link(r) \/ RevokeAll(r) \/ DeleteAll(r) \/ Extend(r) \/ UNCHANGED launch
    BY <1>12
    DEF ReqStep, CreateBatch, AddSeats, AnswerSeats, InsertFails, Redeem, Prepare, PrepareBatch,
        TakeSeat, FindOwn, FindNone, Claim, CreateLab, Acquire, Boot, BootFails, LinkFails,
        Power, PowerWrites, PowerFails, Terminate, Purge, Close, Destroy, DestroyFails, ExtendReads
  <2>3. UNCHANGED launch => Lab /\ There
    OBVIOUS
  <2> HIDE DEF Lab, There
  <2> QED BY <1>3, <1>4, <1>5, <1>6, <1>10, <1>11, <2>1, <2>2, <2>3
<1>13. ASSUME OtherStep \/ UNCHANGED vars PROVE Lab /\ There
  <2>1. ASSUME NEW k \in Ids, CreateLaunch(k) PROVE Lab /\ There
    <3>1. Insert(k, 0, 1)
      BY <2>1 DEF CreateLaunch
    <3> HIDE DEF Lab, There
    <3> QED BY <1>2, <3>1
  <2>2. (\E k \in Ids : CreateLaunch(k) \/ Revoke(k) \/ \E ttl \in {1, 2} : Regenerate(k, ttl)) \/ RevokeBatch
          \/ UNCHANGED launch
    BY <1>13 DEF OtherStep, Preview, Tick, Crash, LabEnds, Emitted, EmitFails, vars
  <2>3. UNCHANGED launch => Lab /\ There
    OBVIOUS
  <2>4. RevokeBatch => Lab /\ There
    <3>1. l \in Batch => launch[l].state # "new"
      BY DEF Batch, Present
    <3> QED BY <1>t, <3>1 DEF RevokeBatch, Revoked, LaunchRow
  <2> HIDE DEF Lab, There
  <2> QED BY <1>7, <1>8, <2>1, <2>2, <2>3, <2>4
<1> HIDE DEF Lab, There
<1>14. (~ (\E r \in Requests : Link(r)) => Lab) /\ (~ (\E r \in Requests : DeleteAll(r)) => There)
  BY <1>12, <1>13, StepKinds
<1> QED BY <1>14 DEF Lab, There

\* A request lets go of a lab in Link, LinkFails, BootFails and Crash only.
LEMMA HoldersKept ==
  ASSUME Typed, [Next]_vars, ~Crash, NEW q \in Requests,
         ~Link(q), ~LinkFails(q), ~BootFails(q), req[q].pc \in {"boot", "link"}
  PROVE  req'[q].pc \in {"boot", "link"} /\ req'[q].lab = req[q].lab /\ req'[q].row = req[q].row
<1>t. req \in [Requests -> Task]
  BY TypedFacts
<1>1. CASE UNCHANGED req[q]
  BY <1>1
<1>2. CASE ReqStep(q)
  <2>1. Boot(q)
    <3>1. Stamp(q) \/ AnswerSeats(q) \/ RevokeAll(q) \/ DeleteAll(q) \/ Extend(q) \/ PowerWrites(q) \/ PowerFails(q)
            => req[q].pc \notin {"boot", "link"}
      BY DEF Stamp, AnswerSeats, RevokeAll, DeleteAll, Extend, PowerWrites, PowerFails
    <3> QED BY <1>2, <3>1, Target DEF ReqStep
  <2> QED BY <1>t, <2>1 DEF Boot, Goto, Task
<1>3. OtherStep \/ UNCHANGED vars => UNCHANGED req
  BY DEF OtherStep, CreateLaunch, Revoke, Preview, Regenerate, RevokeBatch, Emitted, EmitFails, Tick, LabEnds, ghosts, history, vars
<1> QED BY <1>1, <1>2, <1>3, OthersWait, StepKinds

\* A lab keeps its user once it is born, and what was noted stays noted.
LEMMA LabUsers ==
  ASSUME Typed, [Next]_vars
  PROVE  /\ \A b \in Labs : lab[b].status # "unborn" => lab'[b].user = lab[b].user /\ lab'[b].status # "unborn"
         /\ raced \subseteq raced' /\ stranded \subseteq stranded'
<1>t. lab \in [Labs -> LabRow] /\ \A r \in Requests : Sound(req[r])
  BY TypedFacts
<1>s. stranded \subseteq stranded'
  <2>1. ASSUME NEW r \in Requests, ReqStep(r) PROVE stranded \subseteq stranded'
    BY <2>1
    DEF ReqStep, CreateBatch, AddSeats, AnswerSeats, InsertFails, InsertSeat, Redeem, Prepare, Stamp, PrepareBatch,
      TakeSeat, FindOwn, FindNone, Claim, CreateLab, Acquire, Boot, BootFails, Link, LinkFails,
      Power, PowerWrites, PowerFails, Terminate, Purge, Close, Destroy, DestroyFails, RevokeAll, DeleteAll, ExtendReads, Extend,
      ghosts, history
  <2>2. CASE OtherStep \/ UNCHANGED vars
    BY <2>2
    DEF OtherStep, CreateLaunch, Revoke, Preview, Regenerate, RevokeBatch, Emitted, EmitFails, Tick, Crash, LabEnds, ghosts, history, vars
  <2> QED BY <2>1, <2>2, StepKinds
<1>1. ASSUME NEW r \in Requests, FindNone(r) \/ Boot(r)
      PROVE /\ \A b \in Labs : lab[b].status # "unborn" => lab'[b].user = lab[b].user /\ lab'[b].status # "unborn"
            /\ raced \subseteq raced'
  BY <1>t, <1>1 DEF FindNone, Boot, ghosts, history, LabRow
<1>2. ASSUME NEW r \in Requests, NEW b \in Labs, NEW status \in {"ready", "booting"}, Acquire(r, b, status)
      PROVE /\ \A c \in Labs : lab[c].status # "unborn" => lab'[c].user = lab[c].user /\ lab'[c].status # "unborn"
            /\ raced \subseteq raced'
  BY <1>t, <1>2 DEF Acquire, ghosts, history
<1>3. CASE Quiet
  BY <1>s, <1>3 DEF Quiet
<1>4. ASSUME NEW b \in Labs, Powers(b)
      PROVE /\ \A c \in Labs : lab[c].status # "unborn" => lab'[c].user = lab[c].user /\ lab'[c].status # "unborn"
            /\ raced \subseteq raced'
  BY <1>4 DEF Powers
<1> QED BY <1>s, <1>1, <1>2, <1>3, <1>4, LabSteps

\* A lab that a launch points at, or that a request holds, is one of the
\* launch's user; a held lab that is gone was noted, and so is the user of a
\* request whose row was deleted.
Pointers ==
  \A l \in Ids : launch[l].lab # NoLab =>
    /\ launch[l].state # "new"
    /\ lab[launch[l].lab].status # "unborn" /\ lab[launch[l].lab].user = launch[l].user
Holder(q) ==
  /\ req[q].lab \in Labs
  /\ lab[req[q].lab].status # "unborn" /\ lab[req[q].lab].user = UserOf(req[q].row)
  /\ req[q].lab \in LiveLabs \/ UserOf(req[q].row) \in raced
Holders == \A q \in Requests : req[q].pc \in {"boot", "link"} => Holder(q)
Deleted ==
  \A q \in Requests :
    /\ req[q].pc \in Acting /\ launch[req[q].row.launch].state = "deleted" => UserOf(req[q].row) \in stranded
    /\ \A s \in req[q].todo : launch[s.launch].state = "deleted" => UserOf(s) \in stranded
Traced == Pointers /\ Holders /\ Deleted

LEMMA PointersStep ==
  ASSUME Typed, Rooted, Traced, [Next]_vars
  PROVE  Pointers'
<1>t. /\ launch \in [Ids -> LaunchRow] /\ launch' \in [Ids -> LaunchRow]
      /\ req \in [Requests -> Task] /\ \A r \in Requests : Sound(req[r])
  BY TypedFacts, TypedStep DEF Typed, TypeOK, LaunchRow
<1>k. \A l \in Ids : launch[l].state # "new" => launch'[l].user = launch[l].user /\ launch'[l].state # "new"
  BY RowsKept
<1>b. /\ \A b \in Labs : lab[b].status # "unborn" => lab'[b].user = lab[b].user /\ lab'[b].status # "unborn"
      /\ \A l \in Ids : launch[l].lab # NoLab => launch[l].lab \in Labs
  BY <1>t, LabUsers DEF LaunchRow
<1>o. \A l \in Ids : launch'[l].lab = launch[l].lab /\ launch[l].lab # NoLab =>
        /\ launch'[l].state # "new"
        /\ lab'[launch'[l].lab].status # "unborn" /\ lab'[launch'[l].lab].user = launch'[l].user
  BY <1>k, <1>b DEF Traced, Pointers
<1>1. CASE ~ \E r \in Requests : Link(r)
  <2>1. \A l \in Ids : launch'[l].lab # NoLab => launch'[l].lab = launch[l].lab
    BY <1>1, PointersKept
  <2> QED BY <1>o, <2>1 DEF Pointers
<1>2. ASSUME NEW r \in Requests, Link(r) PROVE Pointers'
  <2>0. PICK k : k = req[r].row.launch /\ k \in Present /\ k \in Ids
    BY <1>2 DEF Link, Attachable, Present
  <2>1. /\ launch' = [launch EXCEPT ![k].lab = req[r].lab, ![k].redeemed = @ \/ req[r].op = "redeem"]
        /\ lab' = lab /\ req[r].pc = "link" /\ Holder(r)
    BY <1>2, <2>0 DEF Link, Traced, Holders
  <2>2. /\ launch'[k].lab = req[r].lab /\ launch'[k].user = launch[k].user /\ launch'[k].state = launch[k].state
        /\ \A l \in Ids \ {k} : launch'[l] = launch[l]
    BY <1>t, <2>0, <2>1 DEF LaunchRow
  <2>3. ASSUME NEW l \in Ids, launch'[l].lab # NoLab
        PROVE /\ launch'[l].state # "new"
              /\ lab'[launch'[l].lab].status # "unborn" /\ lab'[launch'[l].lab].user = launch'[l].user
    <3>1. CASE l = k
      BY <2>0, <2>1, <2>2, <3>1 DEF Holder, UserOf, Present
    <3>2. CASE l # k
      BY <1>o, <2>2, <2>3, <3>2
    <3> QED BY <3>1, <3>2
  <2> QED BY <2>3 DEF Pointers
<1> QED BY <1>1, <1>2

LEMMA HoldersStep ==
  ASSUME Typed, Rooted, Traced, [Next]_vars
  PROVE  Holders'
<1>t. /\ launch \in [Ids -> LaunchRow] /\ lab \in [Labs -> LabRow]
      /\ req \in [Requests -> Task] /\ \A r \in Requests : Sound(req[r])
  BY TypedFacts
<1>k. \A q \in Requests : req[q].pc \in Acting => launch'[req[q].row.launch].user = launch[req[q].row.launch].user
  BY <1>t, RowsKept DEF Rooted, Sound
<1>b. /\ \A b \in Labs : lab[b].status # "unborn" => lab'[b].user = lab[b].user /\ lab'[b].status # "unborn"
      /\ raced \subseteq raced'
  BY LabUsers
<1>n. \A s, p : Linking(s, p).launch = s.launch
  BY DEF Linking, Nothing
<1>1. ASSUME NEW q \in Requests, FindOwn(q) PROVE Holder(q)'
  <2>0. PICK u : u = UserOf(req[q].row)
    OBVIOUS
  <2>1. PICK b \in LabsOf(u) : b = Newest(LabsOf(u))
    <3>1. LabsOf(u) \in SUBSET Labs /\ LabsOf(u) # {}
      BY <1>1, <2>0 DEF FindOwn, LabsOf, LiveLabs
    <3> QED BY <3>1, NewestIsLab
  <2>2. /\ req'[q].lab = b /\ req'[q].row = Linking(req[q].row, Paused(b)) /\ launch' = launch
        /\ lab' \in {lab, [lab EXCEPT ![b].exp = req[q].row.exp]}
    BY <1>t, <1>1, <2>0, <2>1 DEF FindOwn, Task
  <2>3. b \in LiveLabs /\ lab[b].user = u
    BY <2>1 DEF LabsOf
  <2>4. b \in Labs /\ lab'[b].status = lab[b].status /\ lab'[b].user = u
    BY <1>t, <2>2, <2>3 DEF LabRow, LiveLabs
  <2>5. UserOf(req[q].row)' = u
    BY <1>n, <2>0, <2>2 DEF UserOf
  <2> QED BY <2>2, <2>3, <2>4, <2>5 DEF Holder, LiveLabs
<1>2. ASSUME NEW q \in Requests, NEW b \in Labs, NEW status \in {"ready", "booting"}, Acquire(q, b, status)
      PROVE Holder(q)'
  <2>1. /\ req'[q].lab = b /\ req'[q].row = Linking(req[q].row, FALSE) /\ launch' = launch
        /\ lab'[b].status = status /\ lab'[b].user = UserOf(req[q].row)
    BY <1>t, <1>2 DEF Acquire, Task
  <2>2. UserOf(req[q].row)' = UserOf(req[q].row)
    <3>1. Linking(req[q].row, FALSE).launch = req[q].row.launch
      BY <1>n
    <3> QED BY <2>1, <3>1 DEF UserOf
  <2> QED BY <2>1, <2>2 DEF Holder, LiveLabs
<1>3. ASSUME NEW q \in Requests, Boot(q) PROVE Holder(q)'
  <2>1. /\ req'[q].lab = req[q].lab /\ req'[q].row = req[q].row /\ launch' = launch
        /\ Holder(q) /\ lab' = [lab EXCEPT ![req[q].lab].status = "ready"]
    BY <1>t, <1>3 DEF Boot, Goto, Task, Traced, Holders, ghosts, history
  <2>2. /\ lab'[req[q].lab].status = "ready" /\ lab'[req[q].lab].user = lab[req[q].lab].user
    BY <1>t, <2>1 DEF Holder, LabRow
  <2> QED BY <2>1, <2>2 DEF Holder, LiveLabs, UserOf
<1>4. ASSUME NEW q \in Requests, req'[q] = req[q], req[q].pc \in {"boot", "link"} PROVE Holder(q)'
  <2>0. PICK b \in Labs : b = req[q].lab
    BY <1>4 DEF Traced, Holders, Holder
  <2>1. /\ Holder(q) /\ lab[b].status # "unborn" /\ lab[b].user = UserOf(req[q].row)
        /\ b \in LiveLabs \/ UserOf(req[q].row) \in raced
    BY <1>4, <2>0 DEF Traced, Holders, Holder
  <2>2. UserOf(req[q].row)' = UserOf(req[q].row)
    BY <1>k, <1>4 DEF UserOf, Acting
  <2>3. b \in LiveLabs' \/ UserOf(req[q].row) \in raced'
    <3>1. ASSUME NEW r \in Requests, FindNone(r) \/ Boot(r) PROVE b \in LiveLabs => b \in LiveLabs'
      BY <1>t, <3>1 DEF FindNone, Boot, LiveLabs, LabRow
    <3>2. ASSUME NEW r \in Requests, NEW c \in Labs, NEW status \in {"ready", "booting"}, Acquire(r, c, status)
          PROVE b \in LiveLabs => b \in LiveLabs'
      BY <1>t, <3>2 DEF Acquire, LiveLabs
    <3>3. CASE Quiet
      BY <1>4, <2>0, <2>1, <3>3 DEF Quiet, LiveLabs, Holds
    <3>4. ASSUME NEW c \in Labs, Powers(c) PROVE b \in LiveLabs => b \in LiveLabs'
      BY <3>4 DEF Powers, LiveLabs
    <3> QED BY <1>b, <2>1, <3>1, <3>2, <3>3, <3>4, LabSteps
  <2> QED BY <1>b, <1>4, <2>0, <2>1, <2>2, <2>3 DEF Holder
<1>5. ASSUME NEW q \in Requests, req'[q].pc \in {"boot", "link"}
      PROVE \/ FindOwn(q) \/ (\E b \in Labs, status \in {"ready", "booting"} : Acquire(q, b, status)) \/ Boot(q)
            \/ req'[q] = req[q]
  <2>1. CASE ReqStep(q)
    <3>1. Answers(q) => req'[q].pc \notin {"boot", "link"}
      BY Answered
    <3>2. FindOwn(q) \/ (\E b \in Labs : Claim(q, b) \/ CreateLab(q, b)) \/ Boot(q)
      BY <1>5, <2>1, <3>1, Target DEF ReqStep, Answers
    <3> QED BY <3>2 DEF Claim, CreateLab
  <2>2. CASE Crash
    BY <1>5, <2>2 DEF Crash, Idle
  <2>3. OtherStep \/ UNCHANGED vars => Crash \/ UNCHANGED req
    BY DEF OtherStep, CreateLaunch, Revoke, Preview, Regenerate, RevokeBatch, Emitted, EmitFails, Tick, LabEnds, ghosts, history, vars
  <2> QED BY <2>1, <2>2, <2>3, OthersWait, StepKinds
<1> QED BY <1>1, <1>2, <1>3, <1>4, <1>5 DEF Holders

LEMMA DeletedStep ==
  ASSUME Typed, Rooted, Traced, [Next]_vars
  PROVE  Deleted'
<1>t. /\ launch \in [Ids -> LaunchRow] /\ req \in [Requests -> Task] /\ \A r \in Requests : Sound(req[r])
      /\ \A r \in Requests : Sound(req'[r])
  BY TypedFacts, TypedStep DEF Typed
<1>k. \A l \in Ids : launch[l].state # "new" => launch'[l].user = launch[l].user
  BY RowsKept
<1>s. stranded \subseteq stranded'
  BY LabUsers
<1>p. \A l \in Present : launch[l].state = "present" /\ l \in Ids
  BY DEF Present
<1> DEFINE Good(q) ==
      /\ req'[q].pc \in Acting /\ launch'[req'[q].row.launch].state = "deleted" => launch'[req'[q].row.launch].user \in stranded'
      /\ \A s \in req'[q].todo : launch'[s.launch].state = "deleted" => launch'[s.launch].user \in stranded'
<1>1. ASSUME NEW r \in Requests, DeleteAll(r), NEW q \in Requests PROVE Good(q)
  <2>1. CASE q = r
    <3>1. req'[q].todo = {} /\ req'[q].pc \notin Acting
      BY <1>1, <2>1, FinishTypes DEF DeleteAll, Acting
    <3> QED BY <3>1
  <2>2. CASE q # r
    <3>1. req'[q] = req[q]
      BY <1>1, <2>2, OthersWait DEF ReqStep
    <3>2. q \in InFlight => UsersOf(q) \subseteq stranded'
      BY <1>1 DEF DeleteAll
    <3>3. \A l \in Ids : launch'[l].user = launch[l].user
      BY <1>t, <1>1 DEF DeleteAll, LaunchRow
    <3>4. ASSUME req[q].pc \in Acting PROVE launch[req[q].row.launch].user \in UsersOf(q) /\ q \in InFlight
      <4>1. req[q].row.launch # 0 /\ q \in InFlight
        BY <1>t, <3>4, Constants DEF Sound, InFlight, Acting
      <4> QED BY <4>1 DEF UsersOf, UserOf
    <3>5. ASSUME NEW s \in req[q].todo PROVE launch[s.launch].user \in UsersOf(q) /\ q \in InFlight
      <4>1. s.launch # 0 /\ q \in InFlight
        BY <1>t, <3>5, Constants DEF Sound, InFlight
      <4> QED BY <4>1 DEF UsersOf, UserOf
    <3> QED BY <1>t, <3>1, <3>2, <3>3, <3>4, <3>5 DEF Sound
  <2> QED BY <2>1, <2>2
<1>2. CASE ~ \E r \in Requests : DeleteAll(r)
  <2>1. \A l \in Ids : launch'[l].state = "deleted" => launch[l].state = "deleted"
    BY <1>2, PointersKept
  <2>2. \A l \in Ids : launch'[l].state = "deleted" => launch'[l].user = launch[l].user
    BY <1>k, <2>1
  <2>3. ASSUME NEW q \in Requests, req'[q] = req[q] PROVE Good(q)
    BY <1>s, <1>t, <2>1, <2>2, <2>3 DEF Traced, Deleted, UserOf, Sound
  <2>4. ASSUME NEW q \in Requests, ReqStep(q) PROVE Good(q)
    BY <1>s, <1>t, <1>p, <2>1, <2>2, <2>4, Advance DEF Traced, Deleted, UserOf, Sound
  <2>5. ASSUME Crash, NEW q \in Requests PROVE Good(q)
    BY <2>5 DEF Crash, Idle, Acting
  <2>6. OtherStep \/ UNCHANGED vars => Crash \/ UNCHANGED req
    BY DEF OtherStep, CreateLaunch, Revoke, Preview, Regenerate, RevokeBatch, Emitted, EmitFails, Tick, LabEnds, ghosts, history, vars
  <2> HIDE DEF Good
  <2>7. \A q \in Requests : Good(q)
    BY <2>3, <2>4, <2>5, <2>6, OthersWait, StepKinds
  <2> QED BY <2>7 DEF Good, Deleted, UserOf
<1>3. ASSUME NEW r \in Requests, DeleteAll(r) PROVE Deleted'
  BY <1>1, <1>3 DEF Deleted, UserOf
<1> QED BY <1>2, <1>3

LEMMA TracedHolds == Spec => []Traced
<1>1. Init => Traced
  BY Constants DEF Init, Traced, Pointers, Holders, Deleted, NoRow, Idle, Acting
<1>2. Typed /\ Rooted /\ Traced /\ [Next]_vars => Traced'
  BY PointersStep, HoldersStep, DeletedStep DEF Traced
<1> QED BY <1>1, <1>2, TypedHolds, UnracedHolds, PTL DEF Spec

\* Who reaches a lab.
Reached(b) ==
  \/ \E l \in Present : launch[l].lab = b
  \/ \E r \in Requests : req[r].pc \in {"boot", "link"} /\ req[r].lab = b
  \/ lab[b].user \in raced \cup stranded

LEMMA NoStrayStep ==
  ASSUME Typed, Rooted, Unraced, Traced, \A b \in LiveLabs : Reached(b), [Next]_vars,
         NEW b \in Labs, b \in LiveLabs'
  PROVE  Reached(b)'
<1>t. /\ launch \in [Ids -> LaunchRow] /\ lab \in [Labs -> LabRow]
      /\ req \in [Requests -> Task] /\ \A r \in Requests : Sound(req[r])
  BY TypedFacts
<1>m. /\ raced \subseteq raced' /\ stranded \subseteq stranded'
      /\ lab[b].status # "unborn" => lab'[b].user = lab[b].user
  BY LabUsers
<1>d. /\ \A l \in Ids : launch[l].lab = b => launch[l].user = lab[b].user
      /\ \A q \in Requests : req[q].pc \in {"boot", "link"} /\ req[q].lab = b => UserOf(req[q].row) = lab[b].user
  BY <1>t DEF Traced, Pointers, Holders, Holder, NoLab, Labs
<1>p. \A l \in Present : l \in Ids /\ launch[l].state = "present"
  BY DEF Present
\* A lab comes to life in the hands of a request, or of a power operation that
\* is noted.
<1>1. ASSUME b \notin LiveLabs
      PROVE \/ \E r \in Requests : req'[r].pc \in {"boot", "link"} /\ req'[r].lab = b
            \/ lab'[b].user \in raced'
  <2>1. ASSUME NEW r \in Requests, FindNone(r) PROVE FALSE
    BY <1>1, <2>1 DEF FindNone, LiveLabs
  <2>2. ASSUME NEW r \in Requests, Boot(r) PROVE req'[r].pc \in {"boot", "link"} /\ req'[r].lab = b
    <3>1. b = req[r].lab
      BY <1>t, <1>1, <2>2 DEF Boot, LiveLabs
    <3> QED BY <1>t, <2>2, <3>1 DEF Boot, Goto, Task
  <2>3. ASSUME NEW r \in Requests, NEW c \in Labs, NEW status \in {"ready", "booting"}, Acquire(r, c, status)
        PROVE req'[r].pc \in {"boot", "link"} /\ req'[r].lab = b
    <3>1. b = c
      BY <1>t, <1>1, <2>3 DEF Acquire, LiveLabs
    <3> QED BY <1>t, <2>3, <3>1 DEF Acquire, Task
  <2>4. CASE Quiet
    BY <1>1, <2>4 DEF Quiet, LiveLabs
  <2>5. ASSUME NEW c \in Labs, Powers(c) PROVE lab'[b].user \in raced'
    BY <1>1, <2>5 DEF Powers, LiveLabs
  <2> QED BY <2>1, <2>2, <2>3, <2>4, <2>5, LabSteps
<1>2. ASSUME b \in LiveLabs, lab[b].user \in raced \cup stranded PROVE Reached(b)'
  <2>1. lab[b].status # "unborn"
    BY <1>2 DEF LiveLabs
  <2> QED BY <1>m, <1>2, <2>1 DEF Reached
\* The row that points at it is given another lab, or is deleted.
<1>3. ASSUME b \in LiveLabs, NEW l \in Present, launch[l].lab = b, lab[b].user \notin raced \cup stranded
      PROVE Reached(b)'
  <2>1. ASSUME NEW r \in Requests, Link(r) PROVE Reached(b)'
    <3>0. PICK k : k = req[r].row.launch /\ k \in Present /\ k \in Ids
      BY <1>p, <2>1 DEF Link, Attachable
    <3>1. /\ launch' = [launch EXCEPT ![k].lab = req[r].lab, ![k].redeemed = @ \/ req[r].op = "redeem"]
          /\ req[r].pc = "link" /\ Holder(r) /\ req[r].op = req[r].op
      BY <2>1, <3>0 DEF Link, Traced, Holders
    <3>2. /\ launch'[k].lab = req[r].lab /\ launch'[k].state = "present"
          /\ \A j \in Ids \ {k} : launch'[j] = launch[j]
      <4>1. launch \in [Ids -> LaunchRow] /\ k \in Ids
        BY <1>t, <3>0
      <4>2. launch' = [launch EXCEPT ![k].lab = req[r].lab, ![k].redeemed = @ \/ req[r].op = "redeem"]
        BY <3>1
      <4>3. launch[k].state = "present"
        BY <3>0 DEF Present
      <4> QED BY <4>1, <4>2, <4>3, LinkedRow
    <3>3. CASE l # k
      BY <1>3, <1>p, <3>2, <3>3 DEF Reached, Present
    <3>4. CASE l = k
      <4> DEFINE u == launch[k].user
      <4>1. UserOf(req[r].row) = u /\ lab[b].user = u /\ u \in Users \ raced
        <5>1. u \in Users
          BY <1>t, <3>0 DEF LaunchRow
        <5> QED BY <1>3, <1>d, <1>p, <3>0, <3>4, <5>1 DEF UserOf
      <4>2. req[r].lab \in LabsOf(u) /\ b \in LabsOf(u)
        BY <1>3, <3>1, <4>1 DEF Holder, LabsOf
      <4>3. req[r].lab = b
        BY <4>1, <4>2 DEF Unraced, Alone
      <4> QED BY <3>0, <3>2, <4>3 DEF Reached, Present
    <3> QED BY <3>3, <3>4
  <2>2. ASSUME NEW r \in Requests, DeleteAll(r) PROVE Reached(b)'
    <3>1. CASE l \in Batch
      <4>1. launch[l].user \in stranded'
        BY <1>3, <2>2, <3>1 DEF DeleteAll
      <4>2. lab[b].status # "unborn"
        BY <1>3 DEF LiveLabs
      <4> QED BY <1>3, <1>d, <1>m, <1>p, <4>1, <4>2 DEF Reached
    <3>2. CASE l \notin Batch
      BY <1>t, <1>3, <1>p, <2>2, <3>2 DEF DeleteAll, Reached, Present
    <3> QED BY <3>1, <3>2
  <2>3. CASE ~ \E r \in Requests : Link(r) \/ DeleteAll(r)
    <3>1. launch'[l].lab = b /\ launch'[l].state = "present"
      BY <1>3, <1>p, <2>3, PointersKept
    <3> QED BY <1>p, <3>1 DEF Reached, Present
  <2> QED BY <2>1, <2>2, <2>3
\* The request that holds it links it, finds it linked or its own row deleted,
\* or is cut off.
<1>4. ASSUME b \in LiveLabs, NEW q \in Requests, req[q].pc \in {"boot", "link"}, req[q].lab = b
      PROVE Reached(b)'
  <2>1. CASE Link(q)
    <3>0. PICK k : k = req[q].row.launch /\ k \in Present /\ k \in Ids
      BY <1>p, <2>1 DEF Link, Attachable
    <3>1. launch' = [launch EXCEPT ![k].lab = req[q].lab, ![k].redeemed = @ \/ req[q].op = "redeem"]
      BY <2>1, <3>0 DEF Link
    <3>2. launch'[k].lab = b /\ launch'[k].state = "present"
      BY <1>t, <1>p, <1>4, <3>0, <3>1 DEF LaunchRow
    <3> QED BY <3>0, <3>2 DEF Reached, Present
  <2>2. CASE LinkFails(q)
    <3>1. launch' = launch /\ ~Attachable(q)
      BY <2>2 DEF LinkFails
    <3>2. CASE Taken(b, req[q].row.launch)
      BY <3>1, <3>2 DEF Taken, Reached, Present
    <3>3. CASE ~Taken(b, req[q].row.launch)
      <4>1. req[q].row.launch \in Ids /\ req[q].row.launch \notin Present /\ req[q].pc \in Acting
        BY <1>t, <1>4, <3>1, <3>3 DEF Attachable, Sound, Acting
      <4>2. launch[req[q].row.launch].state = "deleted"
        BY <1>t, <4>1 DEF Present, Rooted, LaunchRow
      <4>3. UserOf(req[q].row) \in stranded
        BY <4>1, <4>2 DEF Traced, Deleted
      <4> QED BY <1>2, <1>4, <1>d, <4>3
    <3> QED BY <3>2, <3>3
  <2>3. CASE BootFails(q)
    <3>1. lab' = [lab EXCEPT ![b].status = "dead"]
      BY <1>4, <2>3 DEF BootFails, Ends
    <3> QED BY <1>t, <3>1 DEF LiveLabs, LabRow
  <2>4. CASE Crash
    <3>1. UserOf(req[q].row) \in UsersOf(q) /\ q \in InFlight
      <4>1. req[q].row.launch # 0 /\ q \in InFlight
        BY <1>t, <1>4, Constants DEF Sound, InFlight, Acting
      <4> QED BY <4>1 DEF UsersOf
    <3>2. UsersOf(q) \subseteq stranded' /\ lab' = lab
      BY <2>4, <3>1 DEF Crash
    <3> QED BY <1>4, <1>d, <3>1, <3>2 DEF Reached
  <2>5. CASE ~Link(q) /\ ~LinkFails(q) /\ ~BootFails(q) /\ ~Crash
    BY <1>4, <2>5, HoldersKept DEF Reached
  <2> QED BY <2>1, <2>2, <2>3, <2>4, <2>5
<1> QED BY <1>1, <1>2, <1>3, <1>4 DEF Reached

\* A live lab is reached by a launch or by a request that will link it, unless
\* its user was raced for (by requests, or by a power operation that wrote it
\* live again), or cut off from it by a purge or a restart: a launch only ever
\* swaps its lab for the user's one (redeem.ts, attach).
THEOREM NoneStray == Spec => []NoStrayLab
<1> DEFINE R == \A b \in LiveLabs : Reached(b)
<1>1. Init => R
  BY DEF Init, LiveLabs, Unborn
<1>2. Typed /\ Rooted /\ Unraced /\ Traced /\ R /\ [Next]_vars => R'
  <2> SUFFICES ASSUME Typed, Rooted, Unraced, Traced, R, [Next]_vars, NEW b \in LiveLabs' PROVE Reached(b)'
    OBVIOUS
  <2>1. b \in Labs
    BY DEF LiveLabs
  <2> QED BY <2>1, NoStrayStep
<1>3. R => NoStrayLab
  BY DEF Reached, NoStrayLab
<1> HIDE DEF R
<1> QED BY <1>1, <1>2, <1>3, TypedHolds, UnracedHolds, TracedHolds, PTL DEF Spec

-----------------------------------------------------------------------------
(* Batch terminate                                                         *)

\* A request is under way, or listed, for a user (the worker of a batch prepare
\* may be resuming a lab in between).
Busy(q, u) ==
  \/ req[q].pc \in Acting /\ UserOf(req[q].row) = u
  \/ req[q].pc \in Acting \cup {"work", "power"} /\ \E s \in req[q].todo : UserOf(s) = u

\* A request gets busy for a user in front of a row that is open, and that is
\* noted during a terminate.
LEMMA BusyFrom ==
  ASSUME Typed, Rooted, [Next]_vars, NEW q \in Requests, NEW u \in Users, Busy(q, u)', ~Busy(q, u)
  PROVE  /\ \E l \in Present : launch[l].user = u /\ launch[l].exp > now
         /\ Terminating => u \in late'
<1>t. /\ launch \in [Ids -> LaunchRow] /\ req \in [Requests -> Task] /\ \A r \in Requests : Sound(req[r])
      /\ urls \subseteq Url
  BY TypedFacts
<1>p. \A l \in Present : l \in Ids
  BY DEF Present
<1>k. \A l \in Ids : launch[l].state # "new" => launch'[l].user = launch[l].user
  BY RowsKept
<1>r. /\ req[q].pc \in Acting => launch[req[q].row.launch].state # "new" /\ req[q].row.launch \in Ids
      /\ \A s \in req[q].todo : launch[s.launch].state # "new" /\ s.launch \in Ids
  BY <1>t DEF Rooted, Sound
<1>1. CASE req'[q] = req[q]
  BY <1>k, <1>r, <1>1 DEF Busy, UserOf
<1>2. CASE ReqStep(q)
  <2>1. ASSUME NEW l \in Present, req'[q].row = Snap(l), req'[q].todo = {},
               launch' = launch, launch[l].exp > now, Arrives({launch[l].user})
        PROVE /\ \E k \in Present : launch[k].user = u /\ launch[k].exp > now
              /\ Terminating => u \in late'
    <3>1. Snap(l).launch = l
      BY <1>p, SnapTypes
    <3>2. launch[l].user = u
      BY <2>1, <3>1 DEF Busy, UserOf
    <3> QED BY <2>1, <3>2 DEF Arrives
  <2>2. ASSUME NEW x \in urls, Redeem(q, x)
        PROVE /\ \E k \in Present : launch[k].user = u /\ launch[k].exp > now
              /\ Terminating => u \in late'
    <3>1. x.launch \in Present /\ launch[x.launch].exp > now /\ UserOf(Snap(x.launch)) = launch[x.launch].user
      BY <1>p, <2>2, SnapTypes DEF Redeem, Admits
    <3>2. /\ req'[q].row = Snap(x.launch) /\ req'[q].todo = {}
          /\ launch' = launch /\ Arrives({launch[x.launch].user})
      BY <1>t, <2>2, <3>1 DEF Redeem, Begin, Idle
    <3> QED BY <2>1, <3>1, <3>2
  <2>3. ASSUME NEW l \in Ids, Prepare(q, l)
        PROVE /\ \E k \in Present : launch[k].user = u /\ launch[k].exp > now
              /\ Terminating => u \in late'
    <3>1. /\ req'[q].row = Snap(l) /\ req'[q].todo = {} /\ l \in Present
          /\ launch[l].exp > now /\ launch' = launch /\ Arrives({launch[l].user})
      BY <1>t, <2>3 DEF Prepare, Begin, Idle
    <3> QED BY <2>1, <3>1
  <2>4. CASE PrepareBatch(q)
    <3> DEFINE L == {l \in Batch : launch[l].exp > now}
               open == {s \in Snaps(L) : s.live => s.paused}
    <3>1. /\ req'[q].todo = open /\ req'[q].pc = "work" /\ launch' = launch
          /\ Arrives({UserOf(s) : s \in open})
      BY <1>t, <2>4 DEF PrepareBatch, Begin, Idle
    <3>2. PICK s \in open : UserOf(s)' = u
      BY <3>1 DEF Busy, Acting
    <3>3. UserOf(s) = u
      BY <3>1, <3>2 DEF UserOf
    <3>4. s.launch \in L
      BY <1>p, SnapTypes DEF Snaps, Batch
    <3>5. s.launch \in Present /\ launch[s.launch].user = u /\ launch[s.launch].exp > now
      BY <3>3, <3>4 DEF UserOf, Batch
    <3> HIDE DEF open
    <3> QED BY <3>1, <3>3, <3>5 DEF Arrives
  <2>5. CASE Answers(q)
    <3>1. /\ req'[q].pc \notin Acting /\ req'[q].todo \subseteq req[q].todo
          /\ req'[q].pc = "work" => req[q].op = "prepare_batch"
          /\ req'[q].pc = "power" => Stamp(q) \/ Link(q)
      BY <2>5, Answered DEF Acting
    <3>2. req[q].op = "prepare_batch" => req[q].pc \in Acting \cup {"work", "power"}
      BY <1>t DEF Task, Sound, Pcs, Acting
    <3>3. Stamp(q) \/ Link(q) => req[q].pc \in Acting
      BY DEF Stamp, Link, Acting
    <3> QED BY <1>k, <1>r, <3>1, <3>2, <3>3 DEF Busy, UserOf
  <2>6. CASE req'[q].pc \in Acting /\ req[q].pc # "idle"
    BY <1>k, <1>r, <1>2, <2>6, Advance DEF Busy, UserOf
  <2>7. CASE req[q].pc = "idle" \/ req'[q].pc \notin Acting
    <3>1. req'[q].pc \in Acting \cup {"work", "power"} /\ (req'[q].pc = "power" => req'[q].todo # {})
      BY DEF Busy, Acting
    <3>2. CASE TakeSeat(q)
      <4>1. req[q].pc = "work" /\ req'[q].pc \notin Acting /\ req'[q].todo \subseteq req[q].todo
        <5>1. CASE req[q].todo = {}
          BY <1>t, <3>2, <5>1 DEF TakeSeat, Idle, Acting
        <5>2. CASE req[q].todo # {}
          <6>1. PICK s \in req[q].todo :
                  req' = [req EXCEPT ![q] = [req[q] EXCEPT !.todo = @ \ {s}, !.row = s, !.lab = s.lab, !.pc = Fits(s)]]
            BY <1>t, <3>2, <5>2 DEF TakeSeat
          <6>2. req'[q].todo \subseteq req[q].todo
            BY <1>t, <6>1 DEF Task
          <6> QED BY <2>7, <3>2, <6>2 DEF TakeSeat
        <5> QED BY <5>1, <5>2
      <4> QED BY <1>k, <1>r, <4>1 DEF Busy, UserOf
    <3>3. \A b \in Labs, op \in {"suspend", "start"} : ~Power(q, b, op)
      BY <1>t, <3>1 DEF Power, Begin, Idle
    <3> QED BY <1>2, <2>2, <2>3, <2>4, <2>5, <2>7, <3>1, <3>2, <3>3, Target DEF ReqStep, Answers, Acting
  <2> QED BY <2>6, <2>7
<1>3. CASE Crash
  BY <1>3 DEF Crash, Idle, Busy, Acting
<1>4. OtherStep \/ UNCHANGED vars => Crash \/ UNCHANGED req
  BY DEF OtherStep, CreateLaunch, Revoke, Preview, Regenerate, RevokeBatch, Emitted, EmitFails, Tick, LabEnds, ghosts, history, vars
<1> QED BY <1>1, <1>2, <1>3, <1>4, OthersWait, StepKinds

\* Without a request for a user no lab of the user comes to life, unless a
\* power operation is noted.
LEMMA NoGrowth ==
  ASSUME Typed, Traced, [Next]_vars, NEW u \in Users \ raced', \A q \in Requests : ~Busy(q, u)
  PROVE  LabsOf(u)' \subseteq LabsOf(u)
<1>t. /\ lab \in [Labs -> LabRow] /\ req \in [Requests -> Task] /\ \A r \in Requests : Sound(req[r])
  BY TypedFacts
<1>1. ASSUME NEW r \in Requests, FindNone(r) PROVE LabsOf(u)' \subseteq LabsOf(u)
  BY <1>1 DEF FindNone, LabsOf, LiveLabs
<1>2. ASSUME NEW r \in Requests, Boot(r) PROVE LabsOf(u)' \subseteq LabsOf(u)
  <2>1. Holder(r) /\ lab[req[r].lab].user # u /\ lab' = [lab EXCEPT ![req[r].lab].status = "ready"]
    BY <1>2 DEF Boot, Traced, Holders, Holder, Busy, Acting
  <2> QED BY <1>t, <2>1 DEF LabsOf, LiveLabs, LabRow
<1>3. ASSUME NEW r \in Requests, NEW b \in Labs, NEW status \in {"ready", "booting"}, Acquire(r, b, status)
      PROVE LabsOf(u)' \subseteq LabsOf(u)
  <2>1. UserOf(req[r].row) # u
    BY <1>3 DEF Acquire, Busy, Acting
  <2>2. lab'[b].user # u /\ \A c \in Labs \ {b} : lab'[c] = lab[c]
    BY <1>t, <1>3, <2>1 DEF Acquire
  <2> QED BY <2>2 DEF LabsOf, LiveLabs
<1>4. CASE Quiet
  BY <1>t, <1>4 DEF Quiet, LabsOf, LiveLabs
<1>5. ASSUME NEW b \in Labs, Powers(b) PROVE LabsOf(u)' \subseteq LabsOf(u)
  BY <1>5 DEF Powers, LabsOf, LiveLabs
<1> QED BY <1>1, <1>2, <1>3, <1>4, <1>5, LabSteps

\* The rows of a user that is down stay closed.
Closed(u) == \A l \in Present : launch[l].user = u => launch[l].exp <= now /\ launch[l].jti = NoJti

LEMMA ClosedKept ==
  ASSUME Typed, Rooted, [Next]_vars, NEW u \in down, Closed(u), u \in down'
  PROVE  Closed(u)'
<1>t. launch \in [Ids -> LaunchRow] /\ now \in Nat
  BY TypedFacts
<1> DEFINE Shut(l) == launch'[l].state = "present" /\ launch'[l].user = u => launch'[l].exp <= now' /\ launch'[l].jti = NoJti
<1> SUFFICES ASSUME NEW l \in Ids PROVE Shut(l)
  BY DEF Closed, Present
<1>o. launch[l].state = "present" /\ launch[l].user = u => launch[l].exp <= now /\ launch[l].jti = NoJti
  BY DEF Closed, Present
<1>m. \A r : Stamp(r) \/ Link(r) => now' = now
  BY DEF Stamp, Link
<1>1. CASE UNCHANGED <<launch, now>>
  BY <1>1, <1>o
<1>2. ASSUME NEW k \in Ids, NEW v, NEW ttl, Insert(k, v, ttl), now' = now PROVE Shut(l)
  <2>1. NewRow(v, ttl).user = v /\ v # u
    BY <1>2 DEF NewRow, Insert
  <2> QED BY <1>t, <1>o, <1>2, <2>1 DEF Insert, NextId
<1>3. ASSUME NEW r \in Requests, Stamp(r) PROVE Shut(l)
  BY <1>t, <1>o, <1>3, <1>m, RowsStay
<1>4. ASSUME NEW r \in Requests, Link(r) PROVE Shut(l)
  BY <1>t, <1>o, <1>4, <1>m, RowsStay
<1>r. ASSUME now' = now, launch'[l] = launch[l] \/ launch'[l] = Revoked(launch[l]) PROVE Shut(l)
  <2>1. CASE launch'[l] = launch[l]
    BY <1>o, <1>r, <2>1
  <2>2. CASE launch'[l] = Revoked(launch[l])
    <3>1. launch'[l].exp = now /\ launch'[l].jti = NoJti
      BY <1>t, <2>2 DEF Revoked, LaunchRow
    <3> QED BY <1>t, <1>r, <3>1
  <2> QED BY <1>r, <2>1, <2>2
<1>5. ASSUME NEW r \in Requests, RevokeAll(r) PROVE Shut(l)
  <2>1. now' = now /\ (launch'[l] = launch[l] \/ launch'[l] = Revoked(launch[l]))
    BY <1>5 DEF RevokeAll
  <2> HIDE DEF Shut
  <2> QED BY <1>r, <2>1
<1>6. ASSUME NEW r \in Requests, DeleteAll(r) PROVE Shut(l)
  BY <1>t, <1>o, <1>6 DEF DeleteAll, LaunchRow
<1>7. ASSUME NEW r \in Requests, Extend(r) PROVE Shut(l)
  <2>1. launch' = launch /\ now' = now
    BY <1>7 DEF Extend
  <2> QED BY <1>o, <2>1
<1>8. ASSUME NEW k \in Ids, Revoke(k) PROVE Shut(l)
  BY <1>t, <1>o, <1>8 DEF Revoke, Revoked, LaunchRow
<1>9. ASSUME NEW k \in Ids, NEW ttl \in {1, 2}, Regenerate(k, ttl) PROVE Shut(l)
  <2>1. launch[k].user # u /\ now' = now
    BY <1>9 DEF Regenerate
  <2> QED BY <1>t, <1>o, <1>9, <2>1 DEF Regenerate, LaunchRow
<1>10. ASSUME RevokeBatch PROVE Shut(l)
  <2>1. now' = now /\ (launch'[l] = launch[l] \/ launch'[l] = Revoked(launch[l]))
    BY <1>10 DEF RevokeBatch
  <2> HIDE DEF Shut
  <2> QED BY <1>r, <2>1
<1>11. ASSUME Tick PROVE Shut(l)
  <2>1. launch' = launch /\ now' = now + 1 /\ launch[l].exp \in Nat
    BY <1>t, <1>11 DEF Tick, LaunchRow
  <2> QED BY <1>t, <1>o, <2>1
<1>12. ASSUME NEW r \in Requests, ReqStep(r) PROVE Shut(l)
  <2>1. ASSUME NEW s \in 1..MaxSeats, NEW k \in Ids, InsertSeat(r, s, k) PROVE Shut(l)
    <3>1. Insert(k, s, req[r].ttl) /\ now' = now
      BY <2>1 DEF InsertSeat
    <3> HIDE DEF Shut
    <3> QED BY <1>2, <3>1
  <2>2. \/ \E s \in 1..MaxSeats, k \in Ids : InsertSeat(r, s, k)
        \/ Stamp(r) \/ Link(r) \/ RevokeAll(r) \/ DeleteAll(r) \/ Extend(r) \/ UNCHANGED <<launch, now>>
    BY <1>12
    DEF ReqStep, CreateBatch, AddSeats, AnswerSeats, InsertFails, Redeem, Prepare, PrepareBatch,
        TakeSeat, FindOwn, FindNone, Claim, CreateLab, Acquire, Boot, BootFails, LinkFails,
        Power, PowerWrites, PowerFails, Terminate, Purge, Close, Destroy, DestroyFails, ExtendReads
  <2>3. UNCHANGED <<launch, now>> => Shut(l)
    BY <1>o
  <2> HIDE DEF Shut
  <2> QED BY <1>3, <1>4, <1>5, <1>6, <1>7, <2>1, <2>2, <2>3
<1>13. ASSUME OtherStep \/ UNCHANGED vars PROVE Shut(l)
  <2>1. ASSUME NEW k \in Ids, CreateLaunch(k) PROVE Shut(l)
    <3>1. Insert(k, 0, 1) /\ now' = now
      BY <2>1 DEF CreateLaunch
    <3> HIDE DEF Shut
    <3> QED BY <1>2, <3>1
  <2>2. (\E k \in Ids : CreateLaunch(k) \/ Revoke(k) \/ \E ttl \in {1, 2} : Regenerate(k, ttl)) \/ RevokeBatch
          \/ Tick \/ UNCHANGED <<launch, now>>
    BY <1>13 DEF OtherStep, Preview, Emitted, EmitFails, Crash, LabEnds, vars
  <2>3. UNCHANGED <<launch, now>> => Shut(l)
    BY <1>o
  <2> HIDE DEF Shut
  <2> QED BY <1>8, <1>9, <1>10, <1>11, <2>1, <2>2, <2>3
<1> HIDE DEF Shut
<1> QED BY <1>12, <1>13, StepKinds

\* A request that destroys labs has just listed them, or goes on with its list.
LEMMA DestroyFrom ==
  ASSUME Typed, [Next]_vars, NEW r \in Requests, req'[r].pc = "destroy"
  PROVE  \/ Terminate(r) \/ Purge(r)
         \/ Destroy(r) \/ DestroyFails(r)
         \/ req'[r] = req[r]
<1>1. CASE ReqStep(r)
  <2>1. Answers(r) => req'[r].pc # "destroy"
    BY Answered
  <2> QED BY <1>1, <2>1, Target DEF ReqStep, Answers
<1>2. CASE Crash
  BY <1>2 DEF Crash, Idle
<1>3. OtherStep \/ UNCHANGED vars => Crash \/ UNCHANGED req
  BY DEF OtherStep, CreateLaunch, Revoke, Preview, Regenerate, RevokeBatch, Emitted, EmitFails, Tick, LabEnds, ghosts, history, vars
<1> QED BY <1>1, <1>2, <1>3, OthersWait, StepKinds

\* During a terminate who was late stays late.
LEMMA LateKept ==
  ASSUME Typed, [Next]_vars, NEW r \in Requests,
         req[r].pc = "destroy", req[r].op = "terminate", req'[r].pc = "destroy"
  PROVE  late \subseteq late'
<1>1. ASSUME NEW q \in Requests, RevokeAll(q) PROVE late \subseteq late'
  <2>1. q # r
    <3>1. RevokeAll(r) => req'[r].pc # "destroy"
      BY Answered DEF Answers
    <3> QED BY <1>1, <3>1
  <2>2. ~LastTerminate(q)
    BY <2>1 DEF LastTerminate
  <2> QED BY <1>1, <2>2 DEF RevokeAll
<1>2. ASSUME NEW q \in Requests, ReqStep(q), ~RevokeAll(q) PROVE late \subseteq late'
  BY <1>2
  DEF ReqStep, CreateBatch, AddSeats, AnswerSeats, InsertFails, InsertSeat, Redeem, Prepare, Stamp, PrepareBatch,
      TakeSeat, FindOwn, FindNone, Claim, CreateLab, Acquire, Boot, BootFails, Link, LinkFails, Arrives,
      Power, PowerWrites, PowerFails, Terminate, Purge, Close, Destroy, DestroyFails, DeleteAll, ExtendReads, Extend, ghosts, history
<1>3. CASE OtherStep \/ UNCHANGED vars
  BY <1>3
  DEF OtherStep, CreateLaunch, Revoke, Preview, Regenerate, RevokeBatch, Emitted, EmitFails, Tick, Crash, LabEnds, ghosts, history, vars
<1> QED BY <1>1, <1>2, <1>3, StepKinds

\* A terminate lists every live lab of the seats it has not given up on, each
\* as its user's.
Listed ==
  \A r \in Requests : req[r].pc = "destroy" =>
    /\ \A s \in req[r].todo : lab[s.lab].status # "unborn" /\ lab[s.lab].user = UserOf(s)
    /\ req[r].op = "terminate" =>
         \A u \in Users \ {0} : u \notin late \cup raced \cup stranded =>
           /\ \A b \in LabsOf(u) : \E s \in req[r].todo : s.lab = b
           /\ \A q \in Requests : ~Busy(q, u)

LEMMA ListedStep ==
  ASSUME Typed, Rooted, Traced, \A b \in LiveLabs : Reached(b), Listed, [Next]_vars
  PROVE  Listed'
<1>t. /\ launch \in [Ids -> LaunchRow] /\ lab \in [Labs -> LabRow] /\ req \in [Requests -> Task]
      /\ \A r \in Requests : Sound(req[r])
  BY TypedFacts
<1>m. /\ raced \subseteq raced' /\ stranded \subseteq stranded'
      /\ \A b \in Labs : lab[b].status # "unborn" => lab'[b].user = lab[b].user /\ lab'[b].status # "unborn"
  BY LabUsers
<1>k. \A r \in Requests : \A s \in req[r].todo : launch'[s.launch].user = launch[s.launch].user
  BY <1>t, RowsKept DEF Rooted, Sound
<1> SUFFICES ASSUME NEW r \in Requests, req'[r].pc = "destroy"
             PROVE  /\ \A s \in req'[r].todo : lab'[s.lab].status # "unborn" /\ lab'[s.lab].user = launch'[s.launch].user
                    /\ req'[r].op = "terminate" =>
                         \A u \in Users \ {0} : u \notin late' \cup raced' \cup stranded' =>
                           /\ \A b \in LabsOf(u)' : \E s \in req'[r].todo : s.lab = b
                           /\ \A q \in Requests : ~Busy(q, u)'
  BY DEF Listed, UserOf
<1>1. ASSUME NEW op \in {"terminate", "purge"}, Close(r, op)
      PROVE  /\ \A s \in req'[r].todo : lab'[s.lab].status # "unborn" /\ lab'[s.lab].user = launch'[s.launch].user
             /\ req'[r].op = "terminate" =>
                  \A u \in Users \ {0} : u \notin late' \cup raced' \cup stranded' =>
                    /\ \A b \in LabsOf(u)' : \E s \in req'[r].todo : s.lab = b
                    /\ \A q \in Requests : ~Busy(q, u)'
  <2>1. /\ req'[r].todo = {s \in Snaps(Batch) : s.live} /\ req'[r].op = op /\ req'[r].pc = "destroy"
        /\ \A q \in Requests \ {r} : req'[q] = req[q]
        /\ UNCHANGED <<launch, lab>>
    BY <1>t, <1>1 DEF Close, Begin, Idle
  <2>2. ASSUME NEW s \in req'[r].todo
        PROVE lab'[s.lab].status # "unborn" /\ lab'[s.lab].user = launch'[s.launch].user
    <3>1. PICK l \in Batch : s = Snap(l)
      BY <2>1 DEF Snaps
    <3>2. l \in Ids /\ s.launch = l /\ s.lab = launch[l].lab /\ s.lab \in LiveLabs /\ s.lab \in Labs
      BY <2>1, <3>1, SnapTypes DEF Batch, Present
    <3>3. launch[l].lab # NoLab
      BY <3>2, Constants
    <3> QED BY <2>1, <3>2, <3>3 DEF Traced, Pointers
  <2>3. ASSUME op = "terminate", NEW u \in Users \ {0}, u \notin late' \cup raced' \cup stranded'
        PROVE \A q \in Requests : ~Busy(q, u) /\ ~Busy(q, u)'
    <3>1. UNION {UsersOf(q) : q \in InFlight} \subseteq late'
      BY <1>1, <2>3 DEF Close
    <3>2. ASSUME NEW q \in Requests, Busy(q, u) PROVE FALSE
      <4>1. q \in InFlight
        BY <3>2 DEF Busy, InFlight, Acting
      <4>2. u \in UsersOf(q)
        <5>1. CASE req[q].pc \in Acting /\ UserOf(req[q].row) = u
          BY <1>t, <5>1, Constants DEF UsersOf, Sound
        <5>2. ASSUME NEW s \in req[q].todo, UserOf(s) = u PROVE u \in UsersOf(q)
          <6>1. s.launch # 0
            BY <1>t, Constants DEF Sound
          <6> QED BY <5>2, <6>1 DEF UsersOf
        <5> QED BY <3>2, <5>1, <5>2 DEF Busy
      <4> QED BY <2>3, <3>1, <4>1, <4>2
    <3>3. ASSUME NEW q \in Requests, Busy(q, u)' PROVE Busy(q, u)
      BY <2>1, <3>3 DEF Busy, UserOf, Acting
    <3> QED BY <3>2, <3>3
  <2>4. ASSUME op = "terminate", NEW u \in Users \ {0}, u \notin late' \cup raced' \cup stranded', NEW b \in LabsOf(u)'
        PROVE \E s \in req'[r].todo : s.lab = b
    <3>1. b \in LiveLabs /\ b \in Labs /\ lab[b].user = u
      BY <2>1, <2>4 DEF LabsOf, LiveLabs
    <3>2. ASSUME NEW q \in Requests, req[q].pc \in {"boot", "link"}, req[q].lab = b PROVE FALSE
      <4>1. UserOf(req[q].row) = u
        BY <3>1, <3>2 DEF Traced, Holders, Holder
      <4> QED BY <2>3, <2>4, <3>2, <4>1 DEF Busy, Acting
    <3>3. PICK l \in Present : launch[l].lab = b
      BY <1>m, <2>4, <3>1, <3>2 DEF Reached
    <3>4. l \in Ids /\ launch[l].user = u
      BY <3>1, <3>3, Constants DEF Present, Traced, Pointers
    <3>5. l \in Batch
      <4>1. u \in Nat /\ u # 0
        BY <2>4, BoundsAssumption DEF Users
      <4> QED BY <3>3, <3>4, <4>1 DEF Batch
    <3>6. Snap(l).lab = b /\ Snap(l).live = TRUE
      <4>1. Snap(l).live = (launch[l].lab \in LiveLabs) /\ Snap(l).lab = launch[l].lab
        BY DEF Snap
      <4> QED BY <3>1, <3>3, <4>1
    <3>7. Snap(l) \in req'[r].todo
      BY <2>1, <3>5, <3>6 DEF Snaps
    <3> QED BY <3>6, <3>7
  <2> QED BY <2>1, <2>2, <2>3, <2>4
<1>2. ASSUME req[r].pc = "destroy", req'[r].op = req[r].op, req'[r].todo \subseteq req[r].todo,
             \A u \in Users \ {0} : u \notin stranded' =>
               \A x \in req[r].todo \ req'[r].todo : x.lab \notin LabsOf(u) \/ x.lab \notin LabsOf(u)'
      PROVE  /\ \A s \in req'[r].todo : lab'[s.lab].status # "unborn" /\ lab'[s.lab].user = launch'[s.launch].user
             /\ req'[r].op = "terminate" =>
                  \A u \in Users \ {0} : u \notin late' \cup raced' \cup stranded' =>
                    /\ \A b \in LabsOf(u)' : \E s \in req'[r].todo : s.lab = b
                    /\ \A q \in Requests : ~Busy(q, u)'
  <2>1. \A s \in req'[r].todo : lab'[s.lab].status # "unborn" /\ lab'[s.lab].user = launch'[s.launch].user
    BY <1>t, <1>k, <1>m, <1>2 DEF Listed, Sound, UserOf
  <2>2. ASSUME req'[r].op = "terminate", NEW u \in Users \ {0}, u \notin late' \cup raced' \cup stranded'
        PROVE /\ \A b \in LabsOf(u)' : \E s \in req'[r].todo : s.lab = b
              /\ \A q \in Requests : ~Busy(q, u)'
    <3>1. late \subseteq late' /\ Terminating
      BY <1>2, <2>2, LateKept DEF Terminating
    <3>2. /\ \A b \in LabsOf(u) : \E s \in req[r].todo : s.lab = b
          /\ \A q \in Requests : ~Busy(q, u)
      BY <1>m, <1>2, <2>2, <3>1 DEF Listed
    <3>3. \A q \in Requests : ~Busy(q, u)'
      BY <2>2, <3>1, <3>2, BusyFrom
    <3>4. LabsOf(u)' \subseteq LabsOf(u)
      <4>1. u \in Users \ raced'
        BY <2>2
      <4> QED BY <3>2, <4>1, NoGrowth
    <3> QED BY <1>2, <2>2, <3>2, <3>3, <3>4
  <2> QED BY <2>1, <2>2
<1>3. CASE Destroy(r)
  <2>1. PICK s \in req[r].todo : /\ End(s.lab) /\ req' = [req EXCEPT ![r].todo = @ \ {s}]
                                 /\ req[r].pc = "destroy"
    BY <1>3 DEF Destroy
  <2>2. /\ req'[r].op = req[r].op /\ req'[r].todo = req[r].todo \ {s}
        /\ s.lab \in Labs
    BY <1>t, <2>1 DEF Task, Sound
  <2>3. \A u \in Users : s.lab \notin LabsOf(u)'
    BY <1>t, <2>1, <2>2 DEF End, Ends, LabsOf, LiveLabs, LabRow
  <2> QED BY <1>2, <2>1, <2>2, <2>3
<1>4. CASE DestroyFails(r)
  <2>1. PICK s \in req[r].todo : /\ req' = [req EXCEPT ![r].todo = @ \ {s}]
                                 /\ stranded' = stranded \cup {UserOf(s)} /\ req[r].pc = "destroy"
    BY <1>4 DEF DestroyFails
  <2>2. /\ req'[r].op = req[r].op /\ req'[r].todo = req[r].todo \ {s}
        /\ lab[s.lab].user = UserOf(s)
    BY <1>t, <2>1 DEF Task, Listed
  <2>3. \A u \in Users : u \notin stranded' => s.lab \notin LabsOf(u)
    BY <2>1, <2>2 DEF LabsOf
  <2> QED BY <1>2, <2>1, <2>2, <2>3
<1>5. CASE req'[r] = req[r]
  BY <1>2, <1>5
<1>6. Terminate(r) \/ Purge(r) => Close(r, "terminate") \/ Close(r, "purge")
  BY DEF Terminate, Purge
<1> QED BY <1>1, <1>3, <1>4, <1>5, <1>6, DestroyFrom

\* A seat that a terminate took down has no request and no row that is open,
\* and no live lab unless a power operation wrote it so.
IsDown(u) == (u \in raced \/ LabsOf(u) = {}) /\ (\A q \in Requests : ~Busy(q, u)) /\ Closed(u)
AreDown == \A u \in down : u # 0 /\ IsDown(u)

LEMMA NotOpen ==
  ASSUME Typed, NEW u \in Users, Closed(u)
  PROVE  ~ \E l \in Present : launch[l].user = u /\ launch[l].exp > now
<1>1. ASSUME NEW l \in Present, launch[l].user = u, launch[l].exp > now PROVE FALSE
  <2>1. launch[l].exp \in Nat /\ now \in Nat /\ launch[l].exp <= now
    BY <1>1, TypedFacts DEF Closed, Present, LaunchRow
  <2> QED BY <1>1, <2>1
<1> QED BY <1>1

LEMMA AreDownStep ==
  ASSUME Typed, Rooted, Traced, Listed, AreDown, [Next]_vars
  PROVE  AreDown'
<1>t. /\ launch \in [Ids -> LaunchRow] /\ lab \in [Labs -> LabRow] /\ req \in [Requests -> Task]
      /\ down \subseteq Users /\ \A r \in Requests : Sound(req[r])
  BY TypedFacts DEF Typed, TypeOK
<1>1. ASSUME NEW u \in down, u \in down' PROVE u # 0 /\ IsDown(u)'
  <2>0. u \in Users /\ (u \in raced \/ LabsOf(u) = {}) /\ \A q \in Requests : ~Busy(q, u)
    <3>1. u \in Users
      BY <1>t
    <3>2. IsDown(u)
      BY DEF AreDown
    <3> QED BY <3>1, <3>2 DEF IsDown
  <2>1. u \in raced' \/ LabsOf(u)' = {}
    <3>1. u \notin raced' => u \in Users \ raced'
      BY <2>0
    <3>2. u \notin raced' => LabsOf(u)' \subseteq LabsOf(u)
      BY <2>0, <3>1, NoGrowth
    <3>3. raced \subseteq raced'
      BY LabUsers
    <3> QED BY <2>0, <3>2, <3>3
  <2>2. \A q \in Requests : ~Busy(q, u)'
    BY <1>t, <1>1, NotOpen, BusyFrom DEF AreDown, IsDown
  <2>3. Closed(u)'
    BY <1>1, ClosedKept DEF AreDown, IsDown
  <2> QED BY <2>1, <2>2, <2>3 DEF AreDown, IsDown
<1>2. ASSUME NEW r \in Requests, RevokeAll(r), NEW u \in down', u \notin down PROVE u # 0 /\ IsDown(u)'
  <2>1. /\ u \in {launch[l].user : l \in Batch} /\ u \notin late \cup raced \cup stranded
        /\ req[r].pc = "destroy" /\ req[r].op = "terminate" /\ req[r].todo = {} /\ lab' = lab
        /\ launch' = [l \in Ids |-> IF l \in Batch THEN Revoked(launch[l]) ELSE launch[l]]
        /\ now' = now
    BY <1>2 DEF RevokeAll
  <2>2. u \in Users /\ u > 0 /\ u # 0
    <3>1. PICK l \in Batch : u = launch[l].user
      BY <2>1
    <3>2. u \in Users /\ u > 0
      BY <1>t, <3>1 DEF Batch, Present, LaunchRow
    <3> QED BY <3>2 DEF Users
  <2>3. LabsOf(u) = {} /\ \A q \in Requests : ~Busy(q, u)
    BY <2>1, <2>2 DEF Listed
  <2>4. LabsOf(u)' = {}
    BY <2>1, <2>3 DEF LabsOf, LiveLabs
  <2>5. \A l \in Ids : launch'[l].user = launch[l].user /\ launch'[l].state = launch[l].state
    BY <1>t, <2>1 DEF Revoked, LaunchRow
  <2>6. \A q \in Requests : ~Busy(q, u)'
    <3>1. req'[r].pc \notin Acting \cup {"work", "power"}
      BY <1>t, <1>2, <2>1 DEF RevokeAll, Finish, Idle, Acting
    <3>2. \A q \in Requests \ {r} : req'[q] = req[q]
      BY <1>2, OthersWait DEF ReqStep
    <3> QED BY <1>t, <2>3, <2>5, <3>1, <3>2 DEF Busy, UserOf, Sound
  <2>7. Closed(u)'
    <3>1. ASSUME NEW l \in Ids, launch'[l].state = "present", launch'[l].user = u
          PROVE launch'[l].exp <= now' /\ launch'[l].jti = NoJti
      <4>1. l \in Batch
        BY <2>2, <2>5, <3>1 DEF Batch, Present
      <4>2. launch'[l].exp = now /\ launch'[l].jti = NoJti
        BY <1>t, <2>1, <4>1 DEF Revoked, LaunchRow
      <4>3. now \in Nat
        BY TypedFacts
      <4> QED BY <2>1, <4>2, <4>3
    <3> QED BY <3>1 DEF Closed, Present
  <2> QED BY <2>2, <2>4, <2>6, <2>7 DEF IsDown
<1>3. (\E r \in Requests : RevokeAll(r)) \/ down' \subseteq down
  <2>1. ASSUME NEW r \in Requests, ReqStep(r), ~RevokeAll(r) PROVE down' \subseteq down
    BY <2>1
    DEF ReqStep, CreateBatch, AddSeats, AnswerSeats, InsertFails, InsertSeat, Insert, Redeem, Prepare, Stamp,
      PrepareBatch, TakeSeat, FindOwn, FindNone, Claim, CreateLab, Acquire, Boot, BootFails, Link, LinkFails,
      Power, PowerWrites, PowerFails, Terminate, Purge, Close, Destroy, DestroyFails, DeleteAll, ExtendReads, Extend, ghosts, history
  <2>2. CASE OtherStep \/ UNCHANGED vars
    BY <2>2
    DEF OtherStep, CreateLaunch, Insert, Revoke, Preview, Regenerate, RevokeBatch, Emitted, EmitFails, Tick, Crash, LabEnds,
      ghosts, history, vars
  <2> QED BY <2>1, <2>2, StepKinds
<1> QED BY <1>1, <1>2, <1>3 DEF AreDown

\* After a batch terminate no seat has a live lab or a URL that works, unless
\* a request for the seat overlapped it, a destroy failed, or a power operation
\* under way then wrote a lab of the seat live again: every live lab of
\* a seat is reached by one of its rows (NoneStray), so the terminate has it on
\* its list, and from a closed row no new request starts.
THEOREM TerminateHolds == Spec => []TerminatedIsDown
<1> DEFINE R == \A b \in LiveLabs : Reached(b)
<1>1. Init => R /\ Listed /\ AreDown
  BY DEF Init, LiveLabs, Unborn, Listed, AreDown, Idle
<1>2. Typed /\ Rooted /\ Unraced /\ Traced /\ R /\ [Next]_vars => R'
  <2> SUFFICES ASSUME Typed, Rooted, Unraced, Traced, R, [Next]_vars, NEW b \in LiveLabs' PROVE Reached(b)'
    OBVIOUS
  <2>1. b \in Labs
    BY DEF LiveLabs
  <2> QED BY <2>1, NoStrayStep
<1>3. Typed /\ Rooted /\ Traced /\ R /\ Listed /\ AreDown /\ [Next]_vars => Listed' /\ AreDown'
  BY ListedStep, AreDownStep
<1>4. Typed /\ AreDown => TerminatedIsDown
  <2> SUFFICES ASSUME Typed, AreDown, NEW u \in down \ raced, NEW x \in urls, Admits(x), launch[x.launch].user = u PROVE FALSE
    BY DEF TerminatedIsDown, AreDown, IsDown
  <2>1. /\ launch[x.launch].exp \in Nat /\ now \in Nat /\ launch[x.launch].exp > now
        /\ launch[x.launch].exp <= now
    BY TypedFacts DEF Admits, AreDown, IsDown, Closed, Present, LaunchRow
  <2> QED BY <2>1
<1> HIDE DEF R
<1> QED BY <1>1, <1>2, <1>3, <1>4, TypedHolds, UnracedHolds, TracedHolds, PTL DEF Spec
=============================================================================
