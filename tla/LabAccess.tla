------------------------------ MODULE LabAccess ------------------------------
(***************************************************************************)
(* How students reach their labs: the wildcard proxy (wildcardProxy.ts),   *)
(* the operations that stop and start containers and record their ports    *)
(* (suspendInstance, resumeInstance, restartInstance, syncInstanceUpstream *)
(* of orchestrator.ts, the Docker calls of runtime/docker.ts), the idle    *)
(* rule of the reaper (reaper.ts) and the port drift reconciler            *)
(* (portDriftReconciler.ts).  Docker gives a container a new host port at  *)
(* every start, so a port that a row still names may serve another lab.    *)
(*                                                                         *)
(* The labs are on one host and none of them ends: what ending does to an  *)
(* operation in flight is LabLifecycle's subject.  Each lab has one        *)
(* browser, which refreshes the warming page until it gets in.             *)
(***************************************************************************)
EXTENDS Integers, FiniteSets

CONSTANTS
  Labs,       \* bound: labs on the host
  Ports,      \* bound: host ports
  Ops,        \* bound: suspends, resumes and restarts in flight at once
  MaxEvents   \* bound: restarts and deaths of containers, calls of admins, failures

NoPort == 0

ASSUME LabsAssumption == IsFiniteSet(Labs) /\ IsFiniteSet(Ops)
ASSUME PortsAssumption == Ports \subseteq Nat \ {NoPort}
ASSUME MaxEventsAssumption == MaxEvents \in Nat

VARIABLES
  row,       \* LabInstance: status, port (hostPort, upstream) and whether
             \* lastActivityAt is newer than the idle cutoff
  box,       \* port of each running container, NoPort of a stopped one
  others,    \* ports of the containers of further labs, which come and go
  tab,       \* the request of each lab's browser in the proxy
  resuming,  \* resumingNow
  op,        \* operations on labs
  idle,      \* what the reaper listed and has not suspended yet
  rec,       \* the reconciler's pass: the rows as listed, and the lab it is at
  events,
  waiting,   \* labs whose browser shows the warming page
  since,     \* history: what came after each lab's last operation or request
  moved      \* history: labs whose recorded port may be old until repaired

history == <<since, moved>>
vars == <<row, box, others, tab, resuming, op, idle, rec, events, waiting, since, moved>>

Nothing == [visited |-> FALSE, passes |-> 0]
NoTab == [pc |-> "idle", port |-> NoPort]
NoOp == [kind |-> "none", pc |-> "idle", lab |-> 0, read |-> NoPort, found |-> NoPort]
NoPass == [pc |-> "idle", todo |-> {}, read |-> [l \in Labs |-> NoPort], lab |-> 0, found |-> NoPort]

Init ==
  /\ box \in [Labs -> Ports] /\ \A k, l \in Labs : box[k] = box[l] => k = l
  /\ others = {}
  /\ row = [l \in Labs |-> [status |-> "ready", port |-> box[l], active |-> TRUE]]
  /\ tab = [l \in Labs |-> NoTab]
  /\ resuming = {} /\ idle = {} /\ waiting = {} /\ since = [l \in Labs |-> Nothing] /\ moved = {}
  /\ op = [o \in Ops |-> NoOp]
  /\ rec = NoPass
  /\ events = 0

Event == events < MaxEvents /\ events' = events + 1
Running(l) == box[l] # NoPort
Free == Ports \ ({box[l] : l \in Labs} \cup others)
On(l) == {o \in Ops : op[o].lab = l /\ op[o].pc # "idle"}
-----------------------------------------------------------------------------
(* Operations on labs.                                                     *)

\* An operation reads the row.  Two on one lab may leave an old port behind,
\* and so may one that begins between the reconciler's look and its write.
Begin(o, kind, l, pc) ==
  /\ op[o].pc = "idle"
  /\ op' = [op EXCEPT ![o] = [kind |-> kind, pc |-> pc, lab |-> l, found |-> NoPort,
                               read |-> IF pc = "stop" THEN NoPort ELSE row[l].port]]
  /\ moved' = IF On(l) # {} \/ (rec.lab = l /\ rec.pc = "sync") THEN moved \cup {l} ELSE moved
Goto(o, pc) == op' = [op EXCEPT ![o].pc = pc]
\* Slip: the .finally() that leaves resumingNow is missing.
EndsForgetful(o) == /\ op' = [op EXCEPT ![o] = NoOp]
                    /\ since' = [since EXCEPT ![op[o].lab] = Nothing]
                    /\ UNCHANGED resuming
Ends(o) == /\ op' = [op EXCEPT ![o] = NoOp]
           /\ resuming' = IF op[o].kind = "proxy" THEN resuming \ {op[o].lab} ELSE resuming
           /\ since' = [since EXCEPT ![op[o].lab] = Nothing]

\* A redeem or an admin resumes; an admin suspends or restarts; the reaper
\* suspends the labs of its list in turn.
Reaping == \E o \in Ops : op[o].kind = "reaper"
Resume(o, l) ==
  /\ Event /\ row[l].status = "paused" /\ Begin(o, "resume", l, "start")
  /\ UNCHANGED <<row, box, others, tab, resuming, idle, rec, waiting, since>>
Suspend(o, l) ==
  /\ Event /\ row[l].status = "ready" /\ Begin(o, "suspend", l, "stop")
  /\ UNCHANGED <<row, box, others, tab, resuming, idle, rec, waiting, since>>
Restart(o, l) ==
  /\ Event /\ Begin(o, "restart", l, "restart")
  /\ UNCHANGED <<row, box, others, tab, resuming, idle, rec, waiting, since>>
SuspendIdle(o, l) ==
  /\ l \in idle /\ row[l].status = "ready" /\ ~Reaping /\ Begin(o, "reaper", l, "stop")
  /\ idle' = idle \ {l}
  /\ UNCHANGED <<row, box, others, tab, resuming, rec, events, waiting, since>>

\* docker stop; docker start, which leaves a running container alone; docker
\* restart.  Each started container gets a port that is free.
Stop(o) ==
  /\ op[o].pc = "stop"
  /\ box' = [box EXCEPT ![op[o].lab] = NoPort]
  /\ Goto(o, "park")
  /\ UNCHANGED <<row, others, tab, resuming, idle, rec, events, waiting, history>>
Start(o) ==
  /\ op[o].pc \in {"start", "restart"}
  /\ IF Running(op[o].lab) /\ op[o].pc = "start" THEN UNCHANGED box
     ELSE \E p \in Free \cup ({box[op[o].lab]} \ {NoPort}) : box' = [box EXCEPT ![op[o].lab] = p]
  /\ Goto(o, "inspect")
  /\ UNCHANGED <<row, others, tab, resuming, idle, rec, events, waiting, history>>
CallFails(o) ==
  /\ Event /\ op[o].pc \in {"stop", "start", "restart"} /\ Ends(o)
  /\ UNCHANGED <<row, box, others, tab, idle, rec, waiting, moved>>

\* suspendInstance ends.
Park(o) ==
  /\ op[o].pc = "park"
  /\ row' = [row EXCEPT ![op[o].lab].status = "paused"]
  /\ Ends(o)
  /\ UNCHANGED <<box, others, tab, idle, rec, events, waiting, moved>>

\* syncInstanceUpstream: the port that inspect reports, else the one read; a
\* port unlike the one read is written.
\* Slip: the port of a row is never changed.
InspectTrusting(o) ==
  /\ op[o].pc = "inspect"
  /\ op' = [op EXCEPT ![o].pc = "sync", ![o].found = op[o].read]
  /\ UNCHANGED <<row, box, others, tab, resuming, idle, rec, events, waiting, history>>
Inspect(o) ==
  /\ op[o].pc = "inspect"
  /\ op' = [op EXCEPT ![o].pc = "sync", ![o].found = IF Running(op[o].lab) THEN box[op[o].lab] ELSE op[o].read]
  /\ UNCHANGED <<row, box, others, tab, resuming, idle, rec, events, waiting, history>>
InspectFails(o) ==
  /\ Event /\ op[o].pc = "inspect"
  /\ op' = [op EXCEPT ![o].pc = "commit", ![o].found = op[o].read, ![o].read = NoPort]
  /\ moved' = moved \cup {op[o].lab}
  /\ UNCHANGED <<row, box, others, tab, resuming, idle, rec, waiting, since>>
Sync(o) ==
  /\ op[o].pc = "sync"
  /\ row' = IF op[o].found = op[o].read THEN row ELSE [row EXCEPT ![op[o].lab].port = op[o].found]
  /\ op' = [op EXCEPT ![o].pc = "commit", ![o].read = NoPort]
  /\ UNCHANGED <<box, others, tab, resuming, idle, rec, events, waiting, history>>

\* resumeInstance and restartInstance end.
Commit(o) ==
  /\ op[o].pc = "commit"
  /\ row' = [row EXCEPT ![op[o].lab] = [status |-> "ready", port |-> op[o].found, active |-> TRUE]]
  /\ Ends(o)
  /\ UNCHANGED <<box, others, tab, idle, rec, events, waiting, moved>>
-----------------------------------------------------------------------------
(* The proxy.                                                              *)

\* The row is read.  A paused lab is resumed in the background unless that
\* has been begun; the browser is told to come back.
\* Slip: the in-flight resume guard is missing.
VisitPausedUnguarded(l) ==
  /\ tab[l].pc = "idle" /\ row[l].status = "paused"
  /\ \E o \in Ops : Begin(o, "proxy", l, "start")
  /\ resuming' = resuming \cup {l}
  /\ waiting' = waiting \cup {l} /\ since' = [since EXCEPT ![l].visited = TRUE]
  /\ UNCHANGED <<row, box, others, tab, idle, rec, events>>
VisitPaused(l) ==
  /\ tab[l].pc = "idle" /\ row[l].status = "paused"
  /\ IF l \in resuming THEN UNCHANGED <<op, resuming, moved>>
     ELSE /\ \E o \in Ops : Begin(o, "proxy", l, "start")
          /\ resuming' = resuming \cup {l}
  /\ waiting' = waiting \cup {l} /\ since' = [since EXCEPT ![l].visited = TRUE]
  /\ UNCHANGED <<row, box, others, tab, idle, rec, events>>
VisitReady(l) ==
  /\ tab[l].pc = "idle" /\ row[l].status = "ready"
  /\ tab' = [tab EXCEPT ![l] = [pc |-> "probe", port |-> row[l].port]]
  /\ since' = [since EXCEPT ![l].visited = TRUE]
  /\ UNCHANGED <<row, box, others, resuming, op, idle, rec, events, waiting, moved>>

\* isReady: the lab's container runs, and something answers at the port.
Taken(p) == p \in others \/ \E l \in Labs : box[l] = p
Ready(l) == Running(l) /\ Taken(tab[l].port)
Probe(l) ==
  /\ tab[l].pc = "probe"
  /\ IF Ready(l) THEN tab' = [tab EXCEPT ![l].pc = "forward"] /\ UNCHANGED waiting
     ELSE tab' = [tab EXCEPT ![l] = NoTab] /\ waiting' = waiting \cup {l}
  /\ UNCHANGED <<row, box, others, resuming, op, idle, rec, events, history>>

\* The heartbeat, and the request goes to the port; 502 when nobody is there.
Heartbeat(l) == row' = [row EXCEPT ![l].active = TRUE]
Forward(l) ==
  /\ tab[l].pc = "forward"
  /\ Heartbeat(l)
  /\ since' = [since EXCEPT ![l] = Nothing]
  /\ waiting' = waiting \ {l}
  /\ tab' = [tab EXCEPT ![l] = NoTab]
  /\ UNCHANGED <<box, others, resuming, op, idle, rec, events, moved>>
-----------------------------------------------------------------------------
(* The reaper's second rule and the reconciler.                            *)

\* The idle period passes: longer than an operation, than two ticks of the
\* reconciler, and than a browser that waits takes to refresh.
Age(l) ==
  /\ row[l].active /\ tab[l].pc = "idle" /\ On(l) = {}
  /\ since[l].passes = 2 /\ (l \in waiting => since[l].visited)
  /\ row' = [row EXCEPT ![l].active = FALSE]
  /\ UNCHANGED <<box, others, tab, resuming, op, idle, rec, events, waiting, history>>
\* (A tick waits for the one before it here; LabLifecycle lets them overlap.)
ReaperLists ==
  /\ idle = {} /\ ~Reaping
  /\ idle' = {l \in Labs : row[l].status = "ready" /\ ~row[l].active}
  /\ idle' # {}
  /\ UNCHANGED <<row, box, others, tab, resuming, op, rec, events, waiting, history>>
\* suspendInstance finds the lab paused already.
NothingToSuspend(l) ==
  /\ l \in idle /\ row[l].status = "paused"
  /\ idle' = idle \ {l}
  /\ UNCHANGED <<row, box, others, tab, resuming, op, rec, events, waiting, history>>

\* One pass at a time (running): the rows are listed, and the labs taken in
\* turn: what inspect reports, and the write of syncInstanceUpstream.
PassEnds == /\ rec' = NoPass
            /\ since' = [l \in Labs |-> [since[l] EXCEPT !.passes = IF @ = 2 THEN 2 ELSE @ + 1]]
PassGoesOn(todo) ==
  IF todo = {} THEN PassEnds
  ELSE rec' = [rec EXCEPT !.pc = "next", !.todo = todo, !.lab = 0, !.found = NoPort] /\ UNCHANGED since
ReconcilerLists ==
  /\ rec.pc = "idle"
  /\ rec' = [NoPass EXCEPT !.pc = "next", !.todo = Labs, !.read = [l \in Labs |-> row[l].port]]
  /\ UNCHANGED <<row, box, others, tab, resuming, op, idle, events, waiting, history>>
ReconcilerInspects(l) ==
  /\ rec.pc = "next" /\ l \in rec.todo
  /\ rec' = [rec EXCEPT !.pc = "sync", !.lab = l, !.found = IF Running(l) THEN box[l] ELSE rec.read[l]]
  /\ moved' = IF On(l) # {} THEN moved \cup {l} ELSE moved
  /\ UNCHANGED <<row, box, others, tab, resuming, op, idle, events, waiting, since>>
\* A lab whose inspect or update fails is passed over; one whose node has no
\* client ends the pass.
ReconcilerMisses(l) ==
  /\ rec.pc = "next" /\ l \in rec.todo /\ PassGoesOn(rec.todo \ {l})
  /\ UNCHANGED <<row, box, others, tab, resuming, op, idle, events, waiting, moved>>
ReconcilerFails ==
  /\ rec.pc = "next" /\ PassEnds
  /\ UNCHANGED <<row, box, others, tab, resuming, op, idle, events, waiting, moved>>
\* Slip: a pass finds the drift and does not write it.
ReconcilerSyncsNothing ==
  /\ rec.pc = "sync" /\ PassGoesOn(rec.todo \ {rec.lab})
  /\ UNCHANGED <<row, box, others, tab, resuming, op, idle, events, waiting, moved>>
ReconcilerSyncs ==
  /\ rec.pc = "sync" /\ PassGoesOn(rec.todo \ {rec.lab})
  /\ row' = IF rec.found = rec.read[rec.lab] THEN row ELSE [row EXCEPT ![rec.lab].port = rec.found]
  /\ UNCHANGED <<box, others, tab, resuming, op, idle, events, waiting, moved>>
-----------------------------------------------------------------------------
\* Behind the control plane's back a container is restarted, or stops.
Moves(l) ==
  /\ Event /\ Running(l)
  /\ \E p \in Free : box' = [box EXCEPT ![l] = p]
  /\ moved' = moved \cup {l}
  /\ UNCHANGED <<row, others, tab, resuming, op, idle, rec, waiting, since>>
Dies(l) ==
  /\ Event /\ Running(l)
  /\ box' = [box EXCEPT ![l] = NoPort]
  /\ UNCHANGED <<row, others, tab, resuming, op, idle, rec, waiting, history>>

\* A further lab takes a free port, or leaves one; ports do not run out.
OthersMove ==
  /\ Event
  /\ \/ \E p \in Free : others' = others \cup {p}
     \/ \E p \in others : others' = others \ {p}
  /\ Cardinality(Ports \ others') >= Cardinality(Labs)
  /\ UNCHANGED <<row, box, tab, resuming, op, idle, rec, waiting, history>>

Next ==
  \/ \E o \in Ops :
       \/ \E l \in Labs : Resume(o, l) \/ Suspend(o, l) \/ Restart(o, l) \/ SuspendIdle(o, l)
       \/ Stop(o) \/ Start(o) \/ CallFails(o) \/ Park(o)
       \/ Inspect(o) \/ InspectFails(o) \/ Sync(o) \/ Commit(o)
  \/ \E l \in Labs : \/ VisitPaused(l) \/ VisitReady(l) \/ Probe(l) \/ Forward(l)
                         \/ Age(l) \/ NothingToSuspend(l)
  \/ \E l \in Labs : ReconcilerInspects(l) \/ ReconcilerMisses(l) \/ Moves(l) \/ Dies(l)
  \/ OthersMove
  \/ ReaperLists \/ ReconcilerLists \/ ReconcilerSyncs \/ ReconcilerFails

Spec == Init /\ [][Next]_vars

\* A step of an operation that has begun, other than a failure.
Proceeds(o) == Stop(o) \/ Start(o) \/ Park(o) \/ Inspect(o) \/ Sync(o) \/ Commit(o)
\* A pass goes on or ends; that it gets through to a lab is nowhere assumed.
Passes == ReconcilerLists \/ ReconcilerFails \/ ReconcilerSyncs
          \/ \E l \in Labs : ReconcilerInspects(l) \/ ReconcilerMisses(l)

\* Timers fire (reaper, reconciler), awaited calls return, time passes, and a
\* browser that shows the warming page reloads it (its meta refresh).  Fairness
\* is strong where the model takes a request or a free operation (Ops is a
\* bound, not the code's) for granted.
FairSpec ==
  /\ Spec
  /\ \A o \in Ops : WF_vars(Proceeds(o))
  /\ WF_vars(ReaperLists) /\ WF_vars(Passes)
  /\ \A l \in Labs :
       /\ WF_vars(Probe(l)) /\ WF_vars(Forward(l)) /\ SF_vars(l \in waiting /\ Age(l))
       /\ SF_vars(l \in waiting /\ (VisitPaused(l) \/ VisitReady(l)))
       /\ WF_vars(NothingToSuspend(l)) /\ SF_vars(\E o \in Ops : SuspendIdle(o, l))
-----------------------------------------------------------------------------
(* Properties.                                                             *)

\* The variables have their types.
TypeOK ==
  /\ row \in [Labs -> [status: {"ready", "paused"}, port: Ports, active: BOOLEAN]]
  /\ box \in [Labs -> Ports \cup {NoPort}]
  /\ others \subseteq Ports
  /\ tab \in [Labs -> [pc: {"idle", "probe", "forward"}, port: Ports \cup {NoPort}]]
  /\ resuming \subseteq Labs /\ idle \subseteq Labs /\ waiting \subseteq Labs
  /\ since \in [Labs -> [visited: BOOLEAN, passes: 0 .. 2]] /\ moved \subseteq Labs
  /\ op \in [Ops -> [kind: {"none", "proxy", "resume", "suspend", "restart", "reaper"},
                     pc: {"idle", "start", "restart", "stop", "park", "inspect", "sync", "commit"},
                     lab: Labs \cup {0}, read: Ports \cup {NoPort}, found: Ports \cup {NoPort}]]
  /\ rec \in [pc: {"idle", "next", "sync"}, todo: SUBSET Labs, read: [Labs -> Ports \cup {NoPort}],
              lab: Labs \cup {0}, found: Ports \cup {NoPort}]
  /\ events \in Nat

\* Once no operation is at work on a lab that runs, its row names the port of
\* its own container, through suspends, resumes, restarts, deaths, failures
\* and the reconciler's writes of what it saw before (orchestrator.ts:40-43,
\* 123) -- unless the container moved behind the control plane's back, a port
\* could not be read, or two of them overlapped.
PortIsRight == \A l \in Labs \ moved : On(l) = {} /\ Running(l) => row[l].port = box[l]

\* No request of a lab that runs is forwarded to another lab, with the same
\* exceptions ("to the matching lab container", wildcardProxy.ts:17-18).  It
\* does not hold: between the read of the row and the forward, or between the
\* start of a container and the write of its port, the port of the row may
\* be given to another lab, and the probe asks only whether the own container
\* runs and whether somebody answers (docker.ts:236-257).
ReachesItsLab ==
  [][\A l \in Labs \ moved :
       Forward(l) /\ Running(l) /\ Taken(tab[l].port) => box[l] = tab[l].port]_vars

\* The in-flight resume guard of wildcardProxy.ts is exact: however often a
\* browser refreshes, a lab in resumingNow has one resume in flight, and one that
\* is not in it, whose next visit starts a resume, has none.
ResumeGuardIsExact ==
  \A l \in Labs : Cardinality({o \in On(l) : op[o].kind = "proxy"})
                  = IF l \in resuming THEN 1 ELSE 0

\* A student who is shown the warming page gets in: whatever was stopped,
\* moved or half done before, refreshing is enough, with a reconciler whose
\* passes get through from some time on, and with one whose passes never do.
ReconcilerSettles ==
  \/ <>[][~ReconcilerFails /\ \A l \in Labs : ~ReconcilerMisses(l)]_vars
  \/ <>[][\A l \in Labs : ~ReconcilerInspects(l)]_vars
StudentGetsIn == ReconcilerSettles => \A l \in Labs : l \in waiting ~> l \notin waiting

\* A recorded port that is not the container's does not stay, whatever
\* operations and passes overlapped (orchestrator.ts:882), provided that passes
\* get through: of those that come to a lab again and again, some can build its
\* client and inspect it (916-922).
PassesGetThrough == \A l \in Labs : SF_vars(ReconcilerInspects(l))
Drifted(l) == Running(l) /\ row[l].port # box[l]
DriftIsRepaired == PassesGetThrough => \A l \in Labs : Drifted(l) ~> ~Drifted(l)

=============================================================================
