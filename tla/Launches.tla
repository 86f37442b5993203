------------------------------- MODULE Launches -------------------------------
(***************************************************************************)
(* Launch rows and the URLs that redeem them: routes/launches.ts,          *)
(* routes/batches.ts, routes/redeem.ts, auth/jwt.ts and acquireInstance    *)
(* of orchestrator.ts.  A request reads a snapshot of rows and writes      *)
(* later; requests, the end of labs and a restart interleave in between.   *)
(*                                                                         *)
(* One tenant, one template, one batch.  User 0 is a student of the LMS,   *)
(* who gets a launch per click; user s > 0 is seat s of the batch.  A lab  *)
(* is booting (pending, provisioning), ready (ready, idle), paused, dead,  *)
(* or left: dead, but destroy could not remove its container, which starts *)
(* again.  What happens inside an operation is LabLifecycle's subject.     *)
(***************************************************************************)
EXTENDS Integers, FiniteSets

CONSTANTS
  Requests,     \* bound: requests in flight at once
  MaxLaunches,  \* bound: launch rows ever created
  MaxLabs,      \* bound: labs ever created
  MaxEvents,     \* bound: calls of the API, failures, ends of labs, restarts
  MaxSeats,     \* bound: seats of the batch, of which one request adds at most two
  Horizon       \* bound: time

ASSUME RequestsAssumption == IsFiniteSet(Requests)
ASSUME BoundsAssumption == /\ MaxLaunches \in Nat /\ MaxLabs \in Nat /\ MaxEvents \in Nat
                           /\ MaxSeats \in Nat /\ Horizon \in Nat

VARIABLES
  now,
  launch,    \* Launch rows
  lab,       \* LabInstance rows
  issued,    \* jtis issued so far
  urls,      \* launch URLs that somebody was given
  req,       \* requests in flight
  events,
  billed,    \* per launch, launch_redeemed events due, written and lost since its URL was (re)issued
  crossed,   \* history: launches that two redeems, or a redeem and a regenerate, held at once
  raced,     \* history: users two requests found without a lab, or whose lab ended in its
             \* boot or before it was linked, or was written live again once it had ended
  stranded,  \* history: users a purge or a restart cut off from their lab
  late,      \* history: users with a request in flight during a batch terminate
  down,      \* history: users a batch terminate has taken down
  muddled    \* history: seats were added while others were, or were not all inserted

history == <<billed, crossed, raced, stranded, late, down>>
ghosts == <<history, muddled>>
vars == <<now, launch, lab, issued, urls, req, events, billed, crossed, raced, stranded, late, down, muddled>>

Ids == 1..MaxLaunches
Labs == 1..MaxLabs
Users == 0..MaxSeats
NoLab == 0      \* null instanceId
NoJti == 0      \* null tokenJti

NoRow == [state |-> "new", user |-> 0, born |-> 0, exp |-> 0, jti |-> NoJti, redeemed |-> FALSE, lab |-> NoLab]
Present == {l \in Ids : launch[l].state = "present"}
Batch == {l \in Present : launch[l].user > 0}
Unborn == [status |-> "unborn", user |-> 0, exp |-> 0]
LiveLabs == {b \in Labs : lab[b].status \in {"booting", "ready", "paused"}}
Paused(b) == b \in LiveLabs /\ lab[b].status = "paused"

\* A row as a request read it, with the status of its lab.
Snapshot == [launch: Ids \cup {0}, exp: Nat, lab: Labs \cup {NoLab}, live: BOOLEAN, paused: BOOLEAN,
             redeemed: BOOLEAN]
Nothing == [launch |-> 0, exp |-> 0, lab |-> NoLab, live |-> FALSE, paused |-> FALSE, redeemed |-> FALSE]
Snap(l) == [launch |-> l, exp |-> launch[l].exp, lab |-> launch[l].lab, live |-> launch[l].lab \in LiveLabs,
            paused |-> Paused(launch[l].lab), redeemed |-> launch[l].redeemed]
Snaps(S) == {Snap(l) : l \in S}

Idle == [op |-> "none", pc |-> "idle", row |-> Nothing, todo |-> {}, lab |-> NoLab,
         seats |-> {}, ttl |-> 0, made |-> {}, ok |-> TRUE]
Url == [launch: Ids, jti: Nat, exp: Nat]
Bill == [due: Nat, written: Nat, lost: Nat]
NoBill == [due |-> 0, written |-> 0, lost |-> 0]

Init ==
  /\ now = 0
  /\ launch = [l \in Ids |-> NoRow]
  /\ lab = [b \in Labs |-> Unborn]
  /\ issued = 0
  /\ urls = {}
  /\ req = [r \in Requests |-> Idle]
  /\ events = 0
  /\ billed = [l \in Ids |-> NoBill]
  /\ crossed = {} /\ raced = {} /\ stranded = {} /\ late = {} /\ down = {} /\ muddled = FALSE
-----------------------------------------------------------------------------
InFlight == {r \in Requests : req[r].pc # "idle"}
UserOf(s) == launch[s.launch].user
UsersOf(r) == {UserOf(s) : s \in {t \in req[r].todo \cup {req[r].row} : t.launch # 0}}
Adding == \E r \in Requests : req[r].op = "seats"
Terminating == \E r \in Requests : req[r].op = "terminate"
LastTerminate(r) == \A q \in Requests \ {r} : req[q].op # "terminate"

\* A call of the API or a failure, and the request a call starts.
Event == events < MaxEvents /\ events' = events + 1
Begin(r, state) == req[r].pc = "idle" /\ req' = [req EXCEPT ![r] = state]
Goto(r, pc) == req' = [req EXCEPT ![r].pc = pc]
\* A request answers; the worker of a batch prepare takes the next seat.
Finish(r) == req' = [req EXCEPT ![r] = IF @.op = "prepare_batch"
                                       THEN [@ EXCEPT !.pc = "work", !.row = Nothing, !.lab = NoLab]
                                       ELSE Idle]
Arrives(U) == late' = IF Terminating THEN late \cup U ELSE late

\* A new row is signed for ttl and inserted (signLaunchToken, launch.create).
NewRow(u, ttl) == [state |-> "present", user |-> u, born |-> now, exp |-> now + ttl,
                   jti |-> issued + 1, redeemed |-> FALSE, lab |-> NoLab]
NewUrl(l, ttl) == [launch |-> l, jti |-> issued + 1, exp |-> now + ttl]
NextId(l) == l \in Ids /\ launch[l].state = "new" /\ \A k \in Ids : k < l => launch[k].state # "new"
Insert(l, u, ttl) ==
  /\ NextId(l)
  /\ launch' = [launch EXCEPT ![l] = NewRow(u, ttl)]
  /\ issued' = issued + 1
  /\ down' = down \ {u}

\* POST /launches: the LMS hands the student a URL of their own per click.
CreateLaunch(l) ==
  /\ Event
  /\ Insert(l, 0, 1)
  /\ urls' = urls \cup {NewUrl(l, 1)}
  /\ UNCHANGED <<now, lab, req, billed, crossed, raced, stranded, late, muddled>>

\* POST /batches and POST /batches/:id/add-seats: numbers follow the count of
\* rows; the lifetime is the first seat's.
First == CHOOSE l \in Batch : \A k \in Batch : l <= k
Lifetime == IF launch[First].exp > launch[First].born THEN launch[First].exp - launch[First].born ELSE 1
CreateBatch(r) ==
  /\ Event
  /\ \A l \in Ids : launch[l].user = 0
  /\ ~Adding
  /\ \E k \in {1, 2} \cap 1..MaxSeats : Begin(r, [Idle EXCEPT !.op = "seats", !.pc = "insert", !.seats = 1..k, !.ttl = 2])
  /\ muddled' = (muddled \/ Adding)
  /\ UNCHANGED <<now, launch, lab, issued, urls, history>>
\* Slip: the new seats are numbered from the count on, not from the next number.
AddSeatsFromCount(r) ==
  /\ Event
  /\ Batch # {}
  /\ LET n == Cardinality(Batch) IN
       \E k \in {1, 2} : n + k <= MaxSeats
         /\ Begin(r, [Idle EXCEPT !.op = "seats", !.pc = "insert", !.seats = n .. n + k - 1, !.ttl = Lifetime])
  /\ muddled' = (muddled \/ Adding)
  /\ UNCHANGED <<now, launch, lab, issued, urls, history>>
AddSeats(r) ==
  /\ Event
  /\ Batch # {}
  /\ LET n == Cardinality(Batch) IN
       \E k \in {1, 2} : n + k <= MaxSeats
         /\ Begin(r, [Idle EXCEPT !.op = "seats", !.pc = "insert", !.seats = n + 1 .. n + k, !.ttl = Lifetime])
  /\ muddled' = (muddled \/ Adding)
  /\ UNCHANGED <<now, launch, lab, issued, urls, history>>

\* The inserts run in parallel; when one fails the others still happen, and
\* the URLs are lost with the answer.
InsertSeat(r, s, l) ==
  /\ req[r].pc = "insert" /\ s \in req[r].seats
  /\ Insert(l, s, req[r].ttl)
  /\ req' = [req EXCEPT ![r].seats = @ \ {s}, ![r].made = @ \cup {NewUrl(l, req[r].ttl)}]
  /\ UNCHANGED <<now, lab, urls, events, billed, crossed, raced, stranded, late, muddled>>
InsertFails(r, s) ==
  /\ Event
  /\ req[r].pc = "insert" /\ s \in req[r].seats
  /\ req' = [req EXCEPT ![r].seats = @ \ {s}, ![r].ok = FALSE]
  /\ muddled' = TRUE
  /\ UNCHANGED <<now, launch, lab, issued, urls, history>>
AnswerSeats(r) ==
  /\ req[r].pc = "insert" /\ req[r].seats = {}
  /\ urls' = IF req[r].ok THEN urls \cup req[r].made ELSE urls
  /\ Finish(r)
  /\ UNCHANGED <<now, launch, lab, issued, events, ghosts>>
-----------------------------------------------------------------------------
(* Redeem and prepare.                                                     *)

\* verifyLaunchToken, then the row: it is there, its jti is the URL's, and it
\* has not expired.
Admits(u) == /\ u.exp > now
             /\ u.launch \in Present
             /\ launch[u.launch].jti = u.jti
             /\ launch[u.launch].exp > now

Redeems(l) == {r \in Requests : req[r].op = "redeem" /\ req[r].row.launch = l}

\* A live lab is entered: stamped at the first time, and resumed when it was
\* paused; otherwise one is acquired.
\* Slip: the check of redeemedAt is missing.
RedeemAgain(r, u) ==
  /\ Event
  /\ Admits(u)
  /\ LET s == Snap(u.launch) IN
       /\ Begin(r, [Idle EXCEPT !.op = "redeem", !.row = s, !.lab = s.lab,
                                !.pc = IF s.live THEN "stamp" ELSE "lookup"])
       /\ crossed' = IF Redeems(u.launch) # {} THEN crossed \cup {u.launch} ELSE crossed
       /\ Arrives({UserOf(s)})
  /\ UNCHANGED <<now, launch, lab, issued, urls, billed, raced, stranded, down, muddled>>
Redeem(r, u) ==
  /\ Event
  /\ Admits(u)
  /\ LET s == Snap(u.launch) IN
       /\ s.live /\ s.redeemed => s.paused
       /\ Begin(r, [Idle EXCEPT !.op = "redeem", !.row = s, !.lab = s.lab,
                                !.pc = IF ~s.live THEN "lookup" ELSE IF s.redeemed THEN "power" ELSE "stamp"])
       /\ crossed' = IF Redeems(u.launch) # {} THEN crossed \cup {u.launch} ELSE crossed
       /\ Arrives({UserOf(s)})
  /\ UNCHANGED <<now, launch, lab, issued, urls, billed, raced, stranded, down, muddled>>

\* The row is there and stamped, and the event is on its way (emitUsage waits
\* for nobody); the lab is resumed if it was read as paused.
Enter(r) == IF req[r].row.paused THEN Goto(r, "power") ELSE Finish(r)
Stamp(r) ==
  /\ req[r].pc = "stamp"
  /\ LET l == req[r].row.launch IN
       IF l \in Present
       THEN /\ launch' = [launch EXCEPT ![l].redeemed = TRUE]
            /\ billed' = [billed EXCEPT ![l].due = @ + 1]
            /\ Enter(r)
       ELSE UNCHANGED <<launch, billed>> /\ Finish(r)
  /\ UNCHANGED <<now, lab, issued, urls, events, crossed, raced, stranded, late, down, muddled>>

\* The event is written, or the write fails and nobody hears of it.
Settled(x, written, lost) ==
  [due |-> x.due - (written + lost), written |-> x.written + written, lost |-> x.lost + lost]
Emitted(l) ==
  /\ billed[l].due > 0
  /\ billed' = [billed EXCEPT ![l] = Settled(@, 1, 0)]
  /\ UNCHANGED <<now, launch, lab, issued, urls, req, events, crossed, raced, stranded, late, down, muddled>>
EmitFails(l) ==
  /\ Event
  /\ billed[l].due > 0
  /\ billed' = [billed EXCEPT ![l] = Settled(@, 0, 1)]
  /\ UNCHANGED <<now, launch, lab, issued, urls, req, crossed, raced, stranded, late, down, muddled>>

\* POST /launches/:id/prepare; nothing to do when the lab is up.
Fits(s) == IF s.live THEN "power" ELSE "lookup"
Prepare(r, l) ==
  /\ Event
  /\ l \in Present /\ launch[l].exp > now
  /\ LET s == Snap(l) IN
       /\ s.live => s.paused
       /\ Begin(r, [Idle EXCEPT !.op = "prepare", !.pc = Fits(s), !.row = s, !.lab = s.lab])
  /\ Arrives({launch[l].user})
  /\ UNCHANGED <<now, launch, lab, issued, urls, billed, crossed, raced, stranded, down, muddled>>

\* POST /batches/:id/prepare: a list of seats, and workers that take them one
\* at a time (one worker here: concurrency = 1).
PrepareBatch(r) ==
  /\ Event
  /\ LET open == {s \in Snaps({l \in Batch : launch[l].exp > now}) : s.live => s.paused} IN
       /\ open # {}
       /\ Begin(r, [Idle EXCEPT !.op = "prepare_batch", !.pc = "work", !.todo = open])
       /\ Arrives({UserOf(s) : s \in open})
  /\ UNCHANGED <<now, launch, lab, issued, urls, billed, crossed, raced, stranded, down, muddled>>
TakeSeat(r) ==
  /\ req[r].pc = "work"
  /\ IF req[r].todo = {} THEN req' = [req EXCEPT ![r] = Idle]
     ELSE \E s \in req[r].todo :
            req' = [req EXCEPT ![r].todo = @ \ {s}, ![r].row = s, ![r].lab = s.lab, ![r].pc = Fits(s)]
  /\ UNCHANGED <<now, launch, lab, issued, urls, events, ghosts>>
-----------------------------------------------------------------------------
(* acquireInstance.                                                        *)

\* Slip: only ready labs are looked for.
LabsOfReady(u) == {b \in LiveLabs : lab[b].user = u /\ lab[b].status = "ready"}
LabsOf(u) == {b \in LiveLabs : lab[b].user = u}
Newest(S) == CHOOSE b \in S : \A c \in S : c <= b

\* What of its snapshot a request still uses once it has a lab.
Linking(s, paused) == [Nothing EXCEPT !.launch = s.launch, !.redeemed = s.redeemed, !.paused = paused]

\* A live lab of the user is returned, its expiry moved up if need be.
FindOwn(r) ==
  /\ req[r].pc = "lookup"
  /\ LET own == LabsOf(UserOf(req[r].row))
         b == Newest(own) IN
       /\ own # {}
       /\ lab' = IF lab[b].exp < req[r].row.exp THEN [lab EXCEPT ![b].exp = req[r].row.exp] ELSE lab
       /\ req' = [req EXCEPT ![r].pc = "link", ![r].lab = b, ![r].row = Linking(@, Paused(b))]
  /\ UNCHANGED <<now, launch, issued, urls, events, ghosts>>
FindNone(r) ==
  /\ req[r].pc = "lookup"
  /\ LabsOf(UserOf(req[r].row)) = {}
  /\ Goto(r, "create")
  /\ raced' = IF \E q \in Requests : req[q].pc = "create" /\ UserOf(req[q].row) = UserOf(req[r].row)
              THEN raced \cup {UserOf(req[r].row)} ELSE raced
  /\ UNCHANGED <<now, launch, lab, issued, urls, events, billed, crossed, stranded, late, down, muddled>>

\* A prewarm is claimed, or a row is created whose container boots.
Acquire(r, b, status) ==
  /\ req[r].pc = "create"
  /\ lab[b].status = "unborn" /\ \A c \in Labs : c < b => lab[c].status # "unborn"
  /\ lab' = [lab EXCEPT ![b] = [status |-> status, user |-> UserOf(req[r].row), exp |-> req[r].row.exp]]
  /\ req' = [req EXCEPT ![r].lab = b, ![r].row = Linking(@, FALSE), ![r].pc = IF status = "ready" THEN "link" ELSE "boot"]
  /\ UNCHANGED <<now, launch, issued, urls, events, ghosts>>
Claim(r, b) == Acquire(r, b, "ready")
CreateLab(r, b) == Acquire(r, b, "booting")

\* A lab ends, its container as a rule too (an error of Docker is swallowed);
\* other requests may hold it without knowing.
Holds(r, b) == req[r].pc \in {"boot", "link"} /\ req[r].lab = b
Ends(b, status, others) ==
  /\ lab' = [lab EXCEPT ![b].status = status]
  /\ raced' = IF \E q \in others : Holds(q, b) THEN raced \cup {lab[b].user} ELSE raced
End(b) ==
  \/ Ends(b, "dead", Requests) /\ UNCHANGED events
  \/ lab[b].status \in {"ready", "paused"} /\ Ends(b, "left", Requests) /\ Event

\* provisionNew writes 'ready' whatever the row says by then.
Boot(r) ==
  /\ req[r].pc = "boot"
  /\ lab' = [lab EXCEPT ![req[r].lab].status = "ready"]
  /\ Goto(r, "link")
  /\ UNCHANGED <<now, launch, issued, urls, events, ghosts>>
BootFails(r) ==
  /\ Event
  /\ req[r].pc = "boot"
  /\ Ends(req[r].lab, "dead", Requests \ {r})
  /\ Finish(r)
  /\ UNCHANGED <<now, launch, issued, urls, billed, crossed, stranded, late, down, muddled>>

\* The launch points at the lab: fails when the row is gone, or when another
\* launch holds the lab (instanceId is unique).
Taken(b, l) == \E k \in Present : k # l /\ launch[k].lab = b
Attachable(r) == req[r].row.launch \in Present /\ ~Taken(req[r].lab, req[r].row.launch)
\* Slip: a prepare does not store the lab it made.
LinkRedeemed(r) ==
  /\ req[r].pc = "link" /\ Attachable(r)
  /\ LET l == req[r].row.launch
         first == req[r].op = "redeem" /\ ~req[r].row.redeemed IN
       /\ launch' = IF req[r].op = "redeem"
                    THEN [launch EXCEPT ![l].lab = req[r].lab, ![l].redeemed = TRUE] ELSE launch
       /\ billed' = IF first THEN [billed EXCEPT ![l].due = @ + 1] ELSE billed
  /\ IF req[r].op = "redeem" THEN Enter(r) ELSE Finish(r)
  /\ UNCHANGED <<now, lab, issued, urls, events, crossed, raced, stranded, late, down, muddled>>
Link(r) ==
  /\ req[r].pc = "link" /\ Attachable(r)
  /\ LET l == req[r].row.launch
         first == req[r].op = "redeem" /\ ~req[r].row.redeemed IN
       /\ launch' = [launch EXCEPT ![l].lab = req[r].lab, ![l].redeemed = @ \/ req[r].op = "redeem"]
       /\ billed' = IF first THEN [billed EXCEPT ![l].due = @ + 1] ELSE billed
  /\ IF req[r].op = "redeem" THEN Enter(r) ELSE Finish(r)
  /\ UNCHANGED <<now, lab, issued, urls, events, crossed, raced, stranded, late, down, muddled>>
LinkFails(r) ==
  /\ req[r].pc = "link" /\ ~Attachable(r)
  /\ Finish(r)
  /\ UNCHANGED <<now, launch, lab, issued, urls, events, ghosts>>
-----------------------------------------------------------------------------
(* Power operations: the resume of a redeem or a prepare, and those of     *)
(* admins, of the reaper and of the proxy.                                 *)

\* suspendInstance looks at the status once; resumeInstance and
\* restartInstance do not look at it.
Power(r, b, op) ==
  /\ Event
  /\ lab[b].status \in IF op = "suspend" THEN {"ready"} ELSE {"ready", "paused", "left"}
  /\ Begin(r, [Idle EXCEPT !.op = op, !.pc = "power", !.lab = b])
  /\ UNCHANGED <<now, launch, lab, issued, urls, ghosts>>
\* The container stopped or started; the status is written by id, whatever the
\* row says by then.
PowerWrites(r) ==
  /\ req[r].pc = "power"
  /\ LET b == req[r].lab IN
       /\ lab' = [lab EXCEPT ![b].status = IF req[r].op = "suspend" THEN "paused" ELSE "ready"]
       /\ raced' = IF b \in LiveLabs THEN raced ELSE raced \cup {lab[b].user}
  /\ Finish(r)
  /\ UNCHANGED <<now, launch, issued, urls, events, billed, crossed, stranded, late, down, muddled>>
PowerFails(r) ==
  /\ req[r].pc = "power"
  /\ Finish(r)
  /\ UNCHANGED <<now, launch, lab, issued, urls, events, ghosts>>
-----------------------------------------------------------------------------
(* Revoke, regenerate, preview.                                            *)

Revoked(row) == [row EXCEPT !.jti = NoJti, !.exp = now]

Revoke(l) ==
  /\ Event
  /\ l \in Present
  /\ launch' = [launch EXCEPT ![l] = Revoked(@)]
  /\ UNCHANGED <<now, lab, issued, urls, req, ghosts>>

\* Only URLs nobody has redeemed yet.
RevokeBatch ==
  /\ Event
  /\ Batch # {}
  /\ launch' = [l \in Ids |-> IF l \in Batch /\ ~launch[l].redeemed THEN Revoked(launch[l]) ELSE launch[l]]
  /\ UNCHANGED <<now, lab, issued, urls, req, ghosts>>

\* A new jti and a new window; a revoked launch is open again.
\* Slip: a launch keeps one jti for life.
RegenerateSameJti(l, ttl) ==
  /\ Event
  /\ l \in Present
  /\ LET old == {u.jti : u \in {v \in urls : v.launch = l}}
         jti == IF old = {} THEN issued ELSE CHOOSE j \in old : TRUE IN
       /\ launch' = [launch EXCEPT ![l].jti = jti, ![l].exp = now + ttl, ![l].redeemed = FALSE]
       /\ urls' = urls \cup {[launch |-> l, jti |-> jti, exp |-> now + ttl]}
  /\ billed' = [billed EXCEPT ![l] = NoBill]
  /\ crossed' = IF Redeems(l) # {} THEN crossed \cup {l} ELSE crossed
  /\ down' = down \ {launch[l].user}
  /\ UNCHANGED <<now, lab, issued, req, raced, stranded, late, muddled>>
Regenerate(l, ttl) ==
  /\ Event
  /\ l \in Present
  /\ launch' = [launch EXCEPT ![l].jti = issued + 1, ![l].exp = now + ttl, ![l].redeemed = FALSE]
  /\ urls' = urls \cup {NewUrl(l, ttl)}
  /\ issued' = issued + 1
  /\ billed' = [billed EXCEPT ![l] = NoBill]
  /\ crossed' = IF Redeems(l) # {} THEN crossed \cup {l} ELSE crossed
  /\ down' = down \ {launch[l].user}
  /\ UNCHANGED <<now, lab, req, raced, stranded, late, muddled>>

\* The current jti, signed again; 409 when revoked.
Preview(l) ==
  /\ Event
  /\ l \in Present /\ launch[l].jti # NoJti
  /\ urls' = urls \cup {[launch |-> l, jti |-> launch[l].jti, exp |-> now + 1]}
  /\ UNCHANGED <<now, launch, lab, issued, req, ghosts>>
-----------------------------------------------------------------------------
(* Batch terminate, purge and extend.                                      *)

\* The live labs of the list go one by one, then the rows are revoked, or
\* deleted by a purge.
Close(r, op) ==
  /\ Event
  /\ Batch # {}
  /\ Begin(r, [Idle EXCEPT !.op = op, !.pc = "destroy", !.todo = {s \in Snaps(Batch) : s.live}])
  /\ late' = IF op = "terminate" THEN late \cup UNION {UsersOf(q) : q \in InFlight} ELSE late
  /\ UNCHANGED <<now, launch, lab, issued, urls, billed, crossed, raced, stranded, down, muddled>>
Terminate(r) == Close(r, "terminate")
Purge(r) == Close(r, "purge")

Destroy(r) ==
  /\ req[r].pc = "destroy"
  /\ \E s \in req[r].todo : End(s.lab) /\ req' = [req EXCEPT ![r].todo = @ \ {s}]
  /\ UNCHANGED <<now, launch, issued, urls, billed, crossed, stranded, late, down, muddled>>
\* An error of destroyInstance is logged or swallowed.
DestroyFails(r) ==
  /\ Event
  /\ req[r].pc = "destroy"
  /\ \E s \in req[r].todo : /\ req' = [req EXCEPT ![r].todo = @ \ {s}]
                            /\ stranded' = stranded \cup {UserOf(s)}
  /\ UNCHANGED <<now, launch, lab, issued, urls, billed, crossed, raced, late, down, muddled>>

\* Slip: as in RevokeBatch, redeemed URLs are left alone.
RevokeUnredeemed(r) ==
  /\ req[r].pc = "destroy" /\ req[r].todo = {} /\ req[r].op = "terminate"
  /\ launch' = [l \in Ids |-> IF l \in Batch /\ ~launch[l].redeemed THEN Revoked(launch[l]) ELSE launch[l]]
  /\ down' = down \cup ({launch[l].user : l \in Batch} \ (late \cup raced \cup stranded))
  /\ Finish(r)
  /\ late' = IF LastTerminate(r) THEN {} ELSE late
  /\ UNCHANGED <<now, lab, issued, urls, events, billed, crossed, raced, stranded, muddled>>
RevokeAll(r) ==
  /\ req[r].pc = "destroy" /\ req[r].todo = {} /\ req[r].op = "terminate"
  /\ launch' = [l \in Ids |-> IF l \in Batch THEN Revoked(launch[l]) ELSE launch[l]]
  /\ down' = down \cup ({launch[l].user : l \in Batch} \ (late \cup raced \cup stranded))
  /\ Finish(r)
  /\ late' = IF LastTerminate(r) THEN {} ELSE late
  /\ UNCHANGED <<now, lab, issued, urls, events, billed, crossed, raced, stranded, muddled>>
DeleteAll(r) ==
  /\ req[r].pc = "destroy" /\ req[r].todo = {} /\ req[r].op = "purge"
  /\ launch' = [l \in Ids |-> IF l \in Batch THEN [launch[l] EXCEPT !.state = "deleted"] ELSE launch[l]]
  /\ stranded' = stranded \cup (UNION {UsersOf(q) : q \in InFlight})
       \cup {launch[l].user : l \in {k \in Batch : launch[k].lab \in LiveLabs}}
  /\ Finish(r)
  /\ muddled' = (muddled \/ Adding)
  /\ UNCHANGED <<now, lab, issued, urls, events, billed, crossed, raced, late, down>>

\* POST /batches/:id/extend: what was read, bumped, for the rows and their
\* labs in one transaction; the URLs are not signed again.
ExtendReads(r) ==
  /\ Event
  /\ Batch # {}
  /\ Begin(r, [Idle EXCEPT !.op = "extend", !.pc = "extend", !.todo = Snaps(Batch)])
  /\ UNCHANGED <<now, launch, lab, issued, urls, ghosts>>
Extend(r) ==
  /\ req[r].pc = "extend"
  /\ LET read == req[r].todo
         rows == {s.launch : s \in read}
         Bumped(S) == (CHOOSE s \in S : TRUE).exp + 1 IN
       IF rows \subseteq Present
       THEN /\ launch' = [l \in Ids |-> IF l \in rows
                 THEN [launch[l] EXCEPT !.exp = Bumped({s \in read : s.launch = l})] ELSE launch[l]]
            /\ lab' = [b \in Labs |-> IF \E s \in read : s.lab = b
                 THEN [lab[b] EXCEPT !.exp = Bumped({s \in read : s.lab = b})] ELSE lab[b]]
            /\ down' = {}
       ELSE UNCHANGED <<launch, lab, down>>
  /\ Finish(r)
  /\ UNCHANGED <<now, issued, urls, events, billed, crossed, raced, stranded, late, muddled>>
-----------------------------------------------------------------------------
\* A lab ends: terminated by an admin, reaped, failed.
LabEnds(b) ==
  /\ b \in LiveLabs
  /\ End(b)
  /\ UNCHANGED <<now, launch, issued, urls, req, billed, crossed, stranded, late, down, muddled>>

Tick == now < Horizon /\ now' = now + 1
        /\ UNCHANGED <<launch, lab, issued, urls, req, events, ghosts>>

\* The control plane restarts: requests and events on their way are gone, rows stay.
Crash ==
  /\ Event
  /\ req' = [r \in Requests |-> Idle]
  /\ billed' = [l \in Ids |-> Settled(billed[l], 0, billed[l].due)]
  /\ stranded' = stranded \cup UNION {UsersOf(r) : r \in InFlight}
  /\ muddled' = (muddled \/ Adding)
  /\ UNCHANGED <<now, launch, lab, issued, urls, crossed, raced, late, down>>

Next ==
  \/ \E r \in Requests :
       \/ CreateBatch(r) \/ AddSeats(r) \/ AnswerSeats(r)
       \/ \E s \in 1..MaxSeats : InsertFails(r, s) \/ \E l \in Ids : InsertSeat(r, s, l)
       \/ \E u \in urls : Redeem(r, u)
       \/ \E l \in Ids : Prepare(r, l)
       \/ Stamp(r) \/ PrepareBatch(r) \/ TakeSeat(r) \/ FindOwn(r) \/ FindNone(r)
       \/ \E b \in Labs : Claim(r, b) \/ CreateLab(r, b)
       \/ Boot(r) \/ BootFails(r) \/ Link(r) \/ LinkFails(r)
       \/ \E b \in Labs, op \in {"suspend", "start"} : Power(r, b, op)
       \/ PowerWrites(r) \/ PowerFails(r)
       \/ Terminate(r) \/ Purge(r) \/ Destroy(r) \/ DestroyFails(r) \/ RevokeAll(r) \/ DeleteAll(r)
       \/ ExtendReads(r) \/ Extend(r)
  \/ \E l \in Ids : CreateLaunch(l) \/ Revoke(l) \/ Preview(l) \/ \E ttl \in {1, 2} : Regenerate(l, ttl)
  \/ \E l \in Ids : Emitted(l) \/ EmitFails(l)
  \/ RevokeBatch \/ Tick \/ Crash
  \/ \E b \in Labs : LabEnds(b)

Spec == Init /\ [][Next]_vars
-----------------------------------------------------------------------------
(* Properties.                                                             *)

Ops == {"none", "redeem", "prepare", "prepare_batch", "terminate", "purge", "extend", "seats", "suspend", "start"}
Pcs == {"idle", "stamp", "lookup", "create", "boot", "link", "power", "work", "destroy", "extend", "insert"}

\* The variables have their types.
TypeOK ==
  /\ now \in Nat /\ issued \in Nat /\ events \in Nat
  /\ launch \in [Ids -> [state: {"new", "present", "deleted"}, user: Users, born: Nat, exp: Nat,
                         jti: Nat, redeemed: BOOLEAN, lab: Labs \cup {NoLab}]]
  /\ lab \in [Labs -> [status: {"unborn", "booting", "ready", "paused", "dead", "left"}, user: Users, exp: Nat]]
  /\ urls \subseteq Url
  /\ req \in [Requests -> [op: Ops, pc: Pcs, row: Snapshot, todo: SUBSET Snapshot,
                           lab: Labs \cup {NoLab}, seats: SUBSET (1..MaxSeats), ttl: Nat,
                           made: SUBSET Url, ok: BOOLEAN]]
  /\ billed \in [Ids -> Bill]
  /\ crossed \subseteq Ids
  /\ raced \subseteq Users /\ stranded \subseteq Users /\ late \subseteq Users /\ down \subseteq Users
  /\ muddled \in BOOLEAN

\* A URL that was revoked or replaced never works again: no later revoke,
\* regenerate, preview or extend brings back the jti it was signed with
\* (launches.ts: "Permanently disables the launch URL").
Dead(u) == launch[u.launch].jti # u.jti
DeadUrlStaysDead == [][\A u \in urls : Dead(u) => Dead(u)']_vars

\* A student has at most one live lab, unless two requests looked for one
\* before either had created it (orchestrator.ts:197), or a lab ended while a
\* request booted or linked it, or a suspend, resume or restart wrote it live
\* again after its end (orchestrator.ts:726, 770, 852).
OneLabPerStudent == \A u \in Users \ raced : Cardinality(LabsOf(u)) <= 1

\* A live lab is reached by a launch, or by a request that will link it;
\* otherwise nobody but the reaper ends it, and its expiry may be weeks away.
\* The exceptions are the races of OneLabPerStudent, and the users a purge, a
\* restart or a failed destroy cut off from their lab.
NoStrayLab ==
  \A b \in LiveLabs :
    \/ \E l \in Present : launch[l].lab = b
    \/ \E r \in Requests : req[r].pc \in {"boot", "link"} /\ req[r].lab = b
    \/ lab[b].user \in raced \cup stranded

\* A redemption of a URL is billed at most once (metering counts the events),
\* and a redeemed launch has been billed unless its event is still on its way
\* or was lost to a failed insert or a restart (metering.ts swallows errors);
\* redeems that overlapped each other or a regenerate are excepted.
BilledOnce ==
  \A l \in Present \ crossed :
    /\ billed[l].written <= IF launch[l].redeemed THEN 1 ELSE 0
    /\ launch[l].redeemed /\ billed[l].written = 0 => billed[l].due + billed[l].lost = 1

\* No two URLs of the batch are for one seat (they would share its user and
\* its lab), unless seats were added while others were, or an insert failed:
\* the numbers follow the count of rows.
SeatsAreDistinct ==
  muddled \/ \A k, l \in Batch : launch[k].user = launch[l].user => k = l

\* After a batch terminate no seat has a live lab or a URL that works, unless
\* a request for the seat overlapped the terminate, a destroy failed, or a
\* suspend, resume or restart then wrote a lab of the seat live again.
TerminatedIsDown ==
  \A u \in down \ raced : LabsOf(u) = {} /\ \A x \in urls : Admits(x) => launch[x.launch].user # u
-----------------------------------------------------------------------------
(* What comments promise without exception.                                *)

\* "Detach any stale instance pointer before attaching the new one"
\* (redeem.ts:113): a redeem that got a lab can attach it to its launch.
AttachNeverFails ==
  \A r \in Requests :
    req[r].pc = "link" /\ req[r].row.launch \in Present => Attachable(r)

=============================================================================
