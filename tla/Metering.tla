------------------------------- MODULE Metering -------------------------------
(***************************************************************************)
(* The usage events of labs and the reports on labs: metering.ts, the      *)
(* places of orchestrator.ts that emit, the queries on labs of             *)
(* routes/reports.ts and the node list of routes/platform.ts.  The reports *)
(* answer one question from two tables, UsageEvent and LabInstance, so the *)
(* properties relate reports to each other, to the same report at another  *)
(* time, and to what the labs really did.                                  *)
(*                                                                         *)
(* Time is counted in ticks; several events may happen in one tick, in the *)
(* order of their stamps.  An operation on a lab reads the row and calls   *)
(* Docker in one step and writes the row in a later one.  A stop is        *)
(* emitted with that write, a start only after the Guacamole work that     *)
(* follows it, or never.  An event gets its stamp when it is emitted, and  *)
(* its row is written later or never.                                      *)
(***************************************************************************)
EXTENDS Integers, SequencesExt

CONSTANTS
  Labs,        \* bound: LabInstance rows ever created
  Templates,   \* LabTemplate rows
  NodeOf,      \* the node each lab lands on
  Horizon,     \* bound: ticks
  MaxLog,      \* bound: events emitted
  MaxOps,      \* bound: operations in flight
  MaxWriting   \* bound: events emitted and not yet inserted

ASSUME LabsAssumption == IsFiniteSet(Labs)
ASSUME TemplatesAssumption == IsFiniteSet(Templates) /\ Templates # {}
ASSUME NodeOfAssumption == DOMAIN NodeOf = Labs
ASSUME BoundsAssumption == {Horizon, MaxLog, MaxOps, MaxWriting} \subseteq Nat

VARIABLES
  now,
  templates,   \* templates that exist
  lab,         \* LabInstance rows
  op,          \* operations in flight on each lab, and starts not yet emitted
  log,         \* usage events in the order of occurredAt
  shown,       \* history: the ticks at which a lab's row said 'ready'
  unstopped    \* history: labs that stopped with no stop on record, or with a
               \* start stamped after it

vars == <<now, templates, lab, op, log, shown, unstopped>>

Null == -1     \* a timestamp that is not set
Power == {"suspend", "resume", "restart", "terminate"}
Ready == {"instance_ready", "instance_resumed"}
Stopped == {"instance_paused", "instance_terminated"}

NewLab == [status |-> "none", pooled |-> FALSE, template |-> CHOOSE t \in Templates : TRUE,
           created |-> Null, ended |-> Null, box |-> "none"]

Init ==
  /\ now = 0
  /\ templates = Templates
  /\ lab = [l \in Labs |-> NewLab]
  /\ op = [l \in Labs |-> {}]
  /\ log = <<>>
  /\ shown = [l \in Labs |-> {}]
  /\ unstopped = {}
-----------------------------------------------------------------------------
(* Events.                                                                 *)

\* emitUsage stamps the event and returns.
Event(kind, l) == [kind |-> kind, lab |-> l, at |-> now, row |-> "writing"]
Writing == {i \in DOMAIN log : log[i].row = "writing"}
Emit(kind, l) ==
  /\ Len(log) < MaxLog /\ Cardinality(Writing) < MaxWriting
  /\ log' = Append(log, Event(kind, l))

Written(i) ==
  /\ log[i].row = "writing"
  /\ log' = [log EXCEPT ![i].row = "written"]
  /\ UNCHANGED <<now, templates, lab, op, shown, unstopped>>

\* recordUsage swallows a failed insert: the event is gone.
InsertFails(i) ==
  /\ log[i].row = "writing"
  /\ log' = RemoveAt(log, i)
  /\ unstopped' = IF log[i].kind \in Stopped THEN unstopped \cup {log[i].lab} ELSE unstopped
  /\ UNCHANGED <<now, templates, lab, op, shown>>
-----------------------------------------------------------------------------
(* Labs.                                                                   *)

InFlight == MapThenSumSet(LAMBDA l : Cardinality(op[l]), Labs)
Starts(l, k) == InFlight < MaxOps /\ k \notin op[l] /\ op' = [op EXCEPT ![l] = @ \cup {k}]
Ends(l, k) == k \in op[l] /\ op' = [op EXCEPT ![l] = @ \ {k}]
\* The row of operation k is written, its event still to come.
Follows(l, k, kind) ==
  k \in op[l] /\ kind \notin op[l] /\ op' = [op EXCEPT ![l] = (@ \ {k}) \cup {kind}]
Exists(l) == lab[l].status \notin {"none", "deleted"}

\* The row of a lab, or of a pool lab.
CreateRow(l, t, pooled) ==
  /\ lab[l].status = "none" /\ t \in templates
  /\ Starts(l, "provision")
  /\ lab' = [lab EXCEPT ![l] = [NewLab EXCEPT !.status = "provisioning", !.pooled = pooled,
                                              !.template = t, !.created = now]]
  /\ UNCHANGED <<now, templates, log, shown, unstopped>>

\* The container runs: 'ready' whatever the row says by now.  Nothing is to
\* be emitted for a pool lab, nor when the row is gone.
MarkReady(l) ==
  /\ IF Exists(l) /\ ~lab[l].pooled THEN Follows(l, "provision", "instance_ready")
     ELSE Ends(l, "provision")
  /\ lab' = IF Exists(l) THEN [lab EXCEPT ![l].status = "ready", ![l].box = "up"] ELSE lab
  /\ UNCHANGED <<now, templates, log, shown, unstopped>>
\* After the Guacamole work, whatever became of the lab meanwhile.
EmitsStart(l, kind) ==
  /\ Ends(l, kind)
  /\ Emit(kind, l)
  /\ unstopped' = IF lab[l].status = "ready" THEN unstopped ELSE unstopped \cup {l}
  /\ UNCHANGED <<now, templates, lab, shown>>
MarkFailed(l) ==
  /\ Ends(l, "provision")
  /\ lab' = IF Exists(l) THEN [lab EXCEPT ![l].status = "failed"] ELSE lab
  /\ UNCHANGED <<now, templates, log, shown, unstopped>>

Claim(l) ==
  /\ lab[l].pooled /\ lab[l].status = "ready"
  /\ lab' = [lab EXCEPT ![l].pooled = FALSE]
  /\ Emit("instance_ready", l)
  /\ UNCHANGED <<now, templates, op, shown, unstopped>>

\* The row is read and Docker does its part: stopping what is gone succeeds,
\* starting it does not.  Suspending ends early on a lab that is not up; a
\* destroy goes on whatever the status, and when Docker fails.
Begin(l, k) ==
  /\ Exists(l) /\ Starts(l, k)
  /\ k = "suspend" => lab[l].status \notin {"paused", "terminated", "failed"}
  /\ k # "terminate" => lab[l].box # "none"
  /\ k = "resume" => lab[l].box = "up"
  /\ \E box \in {lab[l].box} \cup (IF k = "terminate" /\ lab[l].box = "up" THEN {"gone"} ELSE {}) :
       lab' = [lab EXCEPT ![l].box = box]
  /\ UNCHANGED <<now, templates, log, shown, unstopped>>

\* The update fails when the row is gone; restartInstance emits nothing.
CommitFails(l, k) ==
  /\ Ends(l, k) /\ ~Exists(l)
  /\ UNCHANGED <<now, templates, lab, log, shown, unstopped>>
\* Slip: suspending emits nothing.
CommitSuspendSilently(l) ==
  /\ Ends(l, "suspend") /\ Exists(l)
  /\ lab' = [lab EXCEPT ![l].status = "paused"]
  /\ UNCHANGED <<now, templates, log, shown, unstopped>>
CommitSuspend(l) ==
  /\ Ends(l, "suspend") /\ Exists(l)
  /\ lab' = [lab EXCEPT ![l].status = "paused"]
  /\ Emit("instance_paused", l)
  /\ UNCHANGED <<now, templates, shown, unstopped>>
CommitResume(l) ==
  /\ Follows(l, "resume", "instance_resumed") /\ Exists(l)
  /\ lab' = [lab EXCEPT ![l].status = "ready"]
  /\ UNCHANGED <<now, templates, log, shown, unstopped>>
CommitRestart(l) ==
  /\ Ends(l, "restart") /\ Exists(l)
  /\ lab' = [lab EXCEPT ![l].status = "ready"]
  /\ UNCHANGED <<now, templates, log, shown, unstopped>>
CommitTerminate(l) ==
  /\ Ends(l, "terminate") /\ Exists(l)
  /\ lab' = [lab EXCEPT ![l].status = "terminated", ![l].ended = now]
  /\ Emit("instance_terminated", l)
  /\ UNCHANGED <<now, templates, shown, unstopped>>
-----------------------------------------------------------------------------
(* What deletes rows, and time.                                            *)

\* A template takes its labs with it, not their events, and destroys nothing.
DeleteTemplate(t) ==
  /\ t \in templates
  /\ templates' = templates \ {t}
  /\ lab' = [l \in Labs |-> IF Exists(l) /\ lab[l].template = t
                            THEN [NewLab EXCEPT !.status = "deleted"] ELSE lab[l]]
  /\ unstopped' = unstopped \cup {l \in Labs : Exists(l) /\ lab[l].template = t}
  /\ UNCHANGED <<now, op, log, shown>>

Tick ==
  /\ now < Horizon /\ now' = now + 1
  /\ shown' = [l \in Labs |-> IF lab[l].status = "ready" THEN shown[l] \cup {now} ELSE shown[l]]
  /\ UNCHANGED <<templates, lab, op, log, unstopped>>

LabStep(l) ==
  \/ \E t \in Templates, pooled \in BOOLEAN : CreateRow(l, t, pooled)
  \/ MarkReady(l) \/ MarkFailed(l) \/ Claim(l)
  \/ \E kind \in Ready : EmitsStart(l, kind)
  \/ \E k \in Power : Begin(l, k) \/ CommitFails(l, k)
  \/ CommitSuspend(l) \/ CommitResume(l) \/ CommitRestart(l) \/ CommitTerminate(l)

Next ==
  \/ \E l \in Labs : LabStep(l)
  \/ \E t \in Templates : DeleteTemplate(t)
  \/ \E i \in DOMAIN log : Written(i) \/ InsertFails(i)
  \/ Tick

Spec == Init /\ [][Next]_vars
-----------------------------------------------------------------------------
(* The reports over a window a .. b-1.  A duration is the set of its ticks. *)

Between(at, a, b) == a <= at /\ at < b
Ticks(a, b) == a .. (b - 1)
Recorded(kinds, a, b) ==
  {i \in DOMAIN log : log[i].row = "written" /\ log[i].kind \in kinds /\ Between(log[i].at, a, b)}

\* Compute hours: a start counts to the next event of its lab when that is a
\* stop, for nothing when it is another start, and to the end of the window
\* when there is none.
Lifecycle(l, a, b) == {i \in Recorded(Ready \cup Stopped, a, b) : log[i].lab = l}
Later(l, i, a, b) == {j \in Lifecycle(l, a, b) : j > i}
\* Slip: an interval that is open counts to now.
IntervalToNow(l, i, a, b) ==
  LET later == Later(l, i, a, b)
  IN IF later = {} THEN Ticks(log[i].at, now)
     ELSE IF log[Min(later)].kind \in Stopped THEN Ticks(log[i].at, log[Min(later)].at)
     ELSE {}
Interval(l, i, a, b) ==
  LET later == Later(l, i, a, b)
  IN IF later = {} THEN Ticks(log[i].at, b)
     ELSE IF log[Min(later)].kind \in Stopped THEN Ticks(log[i].at, log[Min(later)].at)
     ELSE {}
Billed(l, a, b) ==
  UNION {Interval(l, i, a, b) : i \in {j \in Lifecycle(l, a, b) : log[j].kind \in Ready}}

\* Cost: the labs whose life touches the window, from creation to
\* termination, or to now, clipped to the window.
Rows == {l \in Labs : Exists(l)}
Assigned == {l \in Rows : ~lab[l].pooled}
Ended(l) == IF lab[l].ended = Null THEN now ELSE lab[l].ended
\* Slip: a lab that ended after the window is left out.
SpanningOpen(l, a, b) == lab[l].created < a /\ lab[l].ended = Null
Spanning(l, a, b) == lab[l].created < a /\ (lab[l].ended = Null \/ lab[l].ended >= b)
Touching(l, a, b) ==
  \/ Between(lab[l].created, a, b)
  \/ Between(lab[l].ended, a, b)
  \/ Spanning(l, a, b)
CostTicks(l, a, b) ==
  IF l \in Assigned /\ lab[l].template \in templates /\ Touching(l, a, b)
  THEN Ticks(Max({lab[l].created, a}), Min({Ended(l), b}))
  ELSE {}

\* Counts of labs: of the tenant, of each template, and of each node in two
\* reports.
Active == {"provisioning", "ready"}
Live == Active \cup {"paused"}
With(set, statuses) == Cardinality({l \in set : lab[l].status \in statuses})
Capacity == [active |-> With(Assigned, Active), paused |-> With(Assigned, {"paused"})]
ActiveNow(t) == With({l \in Assigned : lab[l].template = t}, Live)
ByNode(n) ==
  LET here == {l \in Assigned : NodeOf[l] = n}
  IN [active |-> With(here, Active), paused |-> With(here, {"paused"}),
      starting |-> With(here, {"provisioning"})]
\* Slip: spares count as claimed.
NodeStatsWithSpares(n) ==
  LET here == {l \in Rows : NodeOf[l] = n /\ lab[l].status \notin {"terminated", "failed"}}
  IN [live |-> Cardinality(here), prewarm |-> 0, claimed |-> Cardinality(here)]
NodeStats(n) ==
  LET here == {l \in Rows : NodeOf[l] = n /\ lab[l].status \notin {"terminated", "failed"}}
      spare == {l \in here : lab[l].pooled}
  IN [live |-> Cardinality(here), prewarm |-> Cardinality(spare),
      claimed |-> Cardinality(here) - Cardinality(spare)]
-----------------------------------------------------------------------------
(* Properties.                                                             *)

Kinds == Ready \cup Stopped
Statuses == {"none", "provisioning", "ready", "paused", "failed", "terminated", "deleted"}
Stamps == (0 .. Horizon) \cup {Null}
LabRows == [status : Statuses, pooled : BOOLEAN, template : Templates,
            created : Stamps, ended : Stamps, box : {"none", "up", "gone"}]
Events == [kind : Kinds, lab : Labs, at : 0 .. Horizon, row : {"writing", "written"}]

\* Types: a lab that was created has a stamp, and events are in the order of
\* their stamps, none of them later than now (reports.ts:678 orders by occurredAt).
TypeOK ==
  /\ now \in 0 .. Horizon
  /\ templates \subseteq Templates
  /\ lab \in [Labs -> LabRows]
  /\ op \in [Labs -> SUBSET (Power \cup Ready \cup {"provision"})]
  /\ log \in Seq(Events)
  /\ \A i \in DOMAIN log : log[i].at <= now /\ \A j \in 1 .. i : log[j].at <= log[i].at
  /\ \A l \in Labs : (lab[l].status \notin {"none", "deleted"}) = (lab[l].created # Null)
  /\ shown \in [Labs -> SUBSET (0 .. Horizon)]
  /\ unstopped \subseteq Labs

\* Compute hours are billed only for time in which the lab's row said 'ready',
\* whatever overlaps -- a destroy with a resume, a provision that ends after
\* the destroy -- unless its last stop does not count: still being written,
\* dropped, prevented by the deletion of its template, or followed by a start
\* that waited for Guacamole while the lab stopped (orchestrator.ts:550-579,
\* 770-793).  (reports.ts:630-634 against the emitting places of orchestrator.ts.)
StopOnRecord(l) ==
  l \notin unstopped
  /\ \A i \in DOMAIN log : log[i].lab = l /\ log[i].kind \in Stopped => log[i].row = "written"
HoursNeverOvercharge ==
  \A l \in Labs : StopOnRecord(l) =>
    \A b \in 0 .. now, a \in 0 .. (now - 1) : Billed(l, a, b) \subseteq shown[l]

\* An invoice does not change: over a window that is past, once the events in
\* it are written, the hours of a later query are the same, whatever is
\* resumed, terminated or deleted since (metering.ts:4-12, "resolve
\* disputes without scraping live tables").
AllWrittenBefore(b) == \A i \in DOMAIN log : log[i].at < b => log[i].row # "writing"
ClosedWindowIsFinal ==
  [][\A b \in 0 .. now : AllWrittenBefore(b) =>
       \A l \in Labs, a \in 0 .. (b - 1) : Billed(l, a, b)' = Billed(l, a, b)]_vars

\* Adjacent windows of the cost report add up: a lab that is created in one
\* and ends in a later one is charged in all of them, each tick once.
CostTiles ==
  \A l \in Labs, c \in 0 .. (now + 1) : \A b \in 0 .. (c - 1) : \A a \in 0 .. (b - 1) :
    /\ CostTicks(l, a, b) \cup CostTicks(l, b, c) = CostTicks(l, a, c)
    /\ CostTicks(l, a, b) \cap CostTicks(l, b, c) = {}

\* Reports that count the same labs with different queries agree: capacity,
\* by-template, by-node and the node list of the platform page, also after a
\* template and its rows are gone.
Nodes == {NodeOf[l] : l \in Labs}
ReportsAgree ==
  /\ Capacity.active = MapThenSumSet(LAMBDA n : ByNode(n).active, Nodes)
  /\ Capacity.paused = MapThenSumSet(LAMBDA n : ByNode(n).paused, Nodes)
  /\ Capacity.active + Capacity.paused
       = MapThenSumSet(LAMBDA t : ActiveNow(t), templates)
  /\ \A n \in Nodes : NodeStats(n).claimed = ByNode(n).active + ByNode(n).paused
=============================================================================
