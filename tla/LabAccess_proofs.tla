--------------------------- MODULE LabAccess_proofs ---------------------------
(***************************************************************************)
(* Proofs about LabAccess, for any number of labs, ports and operations    *)
(* (the run has one lab): types, the guard of the proxy's resumes, and     *)
(* that rows at rest name their own ports.                                 *)
(***************************************************************************)
EXTENDS LabAccess, FiniteSetTheorems, TLAPS

-----------------------------------------------------------------------------
(* Type correctness *)

Kinds == {"none", "proxy", "resume", "suspend", "restart", "reaper"}
Operation ==
  [kind: Kinds, pc: {"idle", "start", "restart", "stop", "park", "inspect", "sync", "commit"},
   lab: Labs \cup {0}, read: Ports \cup {NoPort}, found: Ports \cup {NoPort}]
Tab == [pc: {"idle", "probe", "forward"}, port: Ports \cup {NoPort}]
Pass == [pc: {"idle", "next", "sync"}, todo: SUBSET Labs, read: [Labs -> Ports \cup {NoPort}],
         lab: Labs \cup {0}, found: Ports \cup {NoPort}]
Since == [visited: BOOLEAN, passes: 0 .. 2]
Row == [status: {"ready", "paused"}, port: Ports, active: BOOLEAN]

\* Changes of a field keep a record typed.
LEMMA FieldTypes ==
  /\ NoTab \in Tab /\ Nothing \in Since
  /\ \A t \in Tab : [t EXCEPT !.pc = "forward"] \in Tab
  /\ \A s \in Since : /\ [s EXCEPT !.visited = TRUE] \in Since
                      /\ [s EXCEPT !.passes = IF @ = 2 THEN 2 ELSE @ + 1] \in Since
  /\ \A r \in Row : /\ [r EXCEPT !.status = "paused"] \in Row
                    /\ [r EXCEPT !.active = TRUE] \in Row /\ [r EXCEPT !.active = FALSE] \in Row
  /\ \A r \in Row, p \in Ports : [r EXCEPT !.port = p] \in Row
<1>1. NoTab \in Tab /\ Nothing \in Since
  BY DEF NoTab, Nothing, Tab, Since
<1>2. \A t \in Tab : [t EXCEPT !.pc = "forward"] \in Tab
  BY DEF Tab
<1>3. \A s \in Since : [s EXCEPT !.visited = TRUE] \in Since
  BY DEF Since
<1>4. \A s \in Since : [s EXCEPT !.passes = IF @ = 2 THEN 2 ELSE @ + 1] \in Since
  BY DEF Since
<1>5. \A r \in Row : /\ [r EXCEPT !.status = "paused"] \in Row
                    /\ [r EXCEPT !.active = TRUE] \in Row /\ [r EXCEPT !.active = FALSE] \in Row
  BY DEF Row
<1>6. \A r \in Row, p \in Ports : [r EXCEPT !.port = p] \in Row
  BY DEF Row
<1> QED BY <1>1, <1>2, <1>3, <1>4, <1>5, <1>6

\* An operation at work has a lab, and knows a port where it will need one.
Sound(x) ==
  x.pc # "idle" =>
    /\ x.lab \in Labs
    /\ x.pc \in {"start", "restart", "inspect"} => x.read \in Ports
    /\ x.pc \in {"sync", "commit"} => x.found \in Ports

Typed ==
  /\ TypeOK
  /\ \A o \in Ops : Sound(op[o])
  /\ rec.pc # "idle" => rec.read \in [Labs -> Ports]
  /\ rec.pc = "sync" => rec.lab \in Labs /\ rec.found \in Ports

LEMMA OpTypes ==
  ASSUME Typed, NEW o \in Ops, NEW x \in Operation, Sound(x), op' = [op EXCEPT ![o] = x]
  PROVE  /\ op' \in [Ops -> Operation]
         /\ \A q \in Ops : Sound(op'[q])
         /\ op'[o] = x /\ \A q \in Ops \ {o} : op'[q] = op[q]
BY DEF Typed, TypeOK, Operation, Kinds

\* The same for changes of a field.
LEMMA GotoTypes ==
  ASSUME Typed, NEW o \in Ops, NEW pc \in {"park", "inspect"}, Goto(o, pc),
         op[o].pc \in {"stop", "start", "restart"}, pc = "inspect" => op[o].pc # "stop"
  PROVE  /\ op' \in [Ops -> Operation]
         /\ \A q \in Ops : Sound(op'[q])
         /\ op'[o].pc = pc /\ op'[o].kind = op[o].kind /\ op'[o].lab = op[o].lab
         /\ \A q \in Ops \ {o} : op'[q] = op[q]
<1>1. op \in [Ops -> Operation] /\ Sound(op[o])
  BY DEF Typed, TypeOK, Operation, Kinds
<1>2. [op[o] EXCEPT !.pc = pc] \in Operation /\ Sound([op[o] EXCEPT !.pc = pc])
  BY <1>1 DEF Operation, Sound
<1>3. op' = [op EXCEPT ![o] = [op[o] EXCEPT !.pc = pc]]
  BY <1>1 DEF Goto
<1> QED BY <1>1, <1>2, <1>3, OpTypes DEF Operation

LEMMA BeginTypes ==
  ASSUME Typed, NEW o \in Ops, NEW kind \in Kinds, NEW l \in Labs,
         NEW pc \in {"start", "restart", "stop"}, Begin(o, kind, l, pc)
  PROVE  /\ op' \in [Ops -> Operation]
         /\ \A q \in Ops : Sound(op'[q])
         /\ op[o].pc = "idle" /\ op'[o].pc = pc /\ op'[o].kind = kind /\ op'[o].lab = l
         /\ \A q \in Ops \ {o} : op'[q] = op[q]
         /\ moved \subseteq moved' /\ moved' \subseteq Labs
         /\ (On(l) # {} \/ (rec.lab = l /\ rec.pc = "sync")) => l \in moved'
<1> DEFINE x == [kind |-> kind, pc |-> pc, lab |-> l, found |-> NoPort,
                 read |-> IF pc = "stop" THEN NoPort ELSE row[l].port]
<1>1. x \in Operation /\ Sound(x)
  BY DEF Typed, TypeOK, Operation, Sound
<1>2. op' = [op EXCEPT ![o] = x]
  BY DEF Begin
<1>3. x.pc = pc /\ x.kind = kind /\ x.lab = l
  OBVIOUS
<1>5. moved' \subseteq Labs /\ moved \subseteq moved'
      /\ ((On(l) # {} \/ (rec.lab = l /\ rec.pc = "sync")) => l \in moved')
  BY DEF Begin, Typed, TypeOK
<1> HIDE DEF x
<1> QED BY <1>1, <1>2, <1>3, <1>5, OpTypes DEF Begin

LEMMA EndsTypes ==
  ASSUME Typed, NEW o \in Ops, Ends(o)
  PROVE  /\ op' \in [Ops -> Operation]
         /\ \A q \in Ops : Sound(op'[q])
         /\ op'[o] = NoOp /\ \A q \in Ops \ {o} : op'[q] = op[q]
         /\ resuming' \subseteq Labs /\ since' \in [Labs -> Since]
<1>1. NoOp \in Operation /\ Sound(NoOp)
  BY DEF NoOp, Operation, Kinds, Sound
<1>2. resuming' \subseteq Labs
  BY DEF Ends, Typed, TypeOK
<1>3. since \in [Labs -> Since]
  BY DEF Typed, TypeOK, Since
<1>4. since' \in [Labs -> Since]
  BY <1>3, FieldTypes DEF Ends
<1> QED BY <1>1, <1>2, <1>4, OpTypes DEF Ends

LEMMA TypedInit == Init => Typed
<1> SUFFICES ASSUME Init PROVE Typed OBVIOUS
<1>1. op \in [Ops -> Operation] /\ \A o \in Ops : Sound(op[o])
  BY DEF Init, NoOp, Operation, Kinds, Sound
<1>2. tab \in [Labs -> Tab] /\ since \in [Labs -> Since]
  BY DEF Init, NoTab, Nothing, Tab, Since
<1> QED BY <1>1, <1>2 DEF Init, Typed, TypeOK, NoPass, Operation, Kinds, Tab, Since

\* A pass that goes on keeps the rows it listed; a pass that ends keeps nothing.
LEMMA PassTypes ==
  ASSUME Typed, rec.pc # "idle"
  PROVE  /\ PassEnds => rec' \in Pass /\ rec'.pc = "idle" /\ since' \in [Labs -> Since]
         /\ \A todo \in SUBSET Labs : PassGoesOn(todo) =>
              /\ rec' \in Pass /\ since' \in [Labs -> Since]
              /\ rec'.pc \in {"idle", "next"} /\ (rec'.pc # "idle" => rec'.read = rec.read)
<1>1. since \in [Labs -> Since] /\ rec \in Pass
  BY DEF Typed, TypeOK, Since, Pass
<1>2. NoPass \in Pass /\ NoPass.pc = "idle"
  BY DEF NoPass, Pass
<1>3. PassEnds => rec' \in Pass /\ rec'.pc = "idle" /\ since' \in [Labs -> Since]
  <2>1. \A l \in Labs : [since[l] EXCEPT !.passes = IF @ = 2 THEN 2 ELSE @ + 1] \in Since
    BY <1>1, FieldTypes
  <2> QED BY <1>2, <2>1 DEF PassEnds
<1>4. ASSUME NEW todo \in SUBSET Labs, PassGoesOn(todo)
      PROVE  /\ rec' \in Pass /\ since' \in [Labs -> Since]
             /\ rec'.pc \in {"idle", "next"} /\ (rec'.pc # "idle" => rec'.read = rec.read)
  <2>1. CASE todo = {}
    BY <1>3, <1>4, <2>1 DEF PassGoesOn
  <2>2. CASE todo # {}
    <3>1. rec' = [rec EXCEPT !.pc = "next", !.todo = todo, !.lab = 0, !.found = NoPort] /\ since' = since
      BY <1>4, <2>2 DEF PassGoesOn
    <3> QED BY <1>1, <3>1 DEF Pass
  <2> QED BY <2>1, <2>2
<1> QED BY <1>3, <1>4

\* Every step is one of these.
Starts(o) == \E l \in Labs : Resume(o, l) \/ Suspend(o, l) \/ Restart(o, l) \/ SuspendIdle(o, l)
Steps ==
  \/ \E o \in Ops : \/ Starts(o)
                    \/ Stop(o) \/ Start(o) \/ CallFails(o) \/ Park(o)
                    \/ Inspect(o) \/ InspectFails(o) \/ Sync(o) \/ Commit(o)
  \/ \E l \in Labs : \/ VisitPaused(l) \/ VisitReady(l) \/ Probe(l) \/ Forward(l)
                     \/ Age(l) \/ NothingToSuspend(l)
                     \/ ReconcilerInspects(l) \/ ReconcilerMisses(l) \/ Moves(l) \/ Dies(l)
  \/ OthersMove \/ ReaperLists \/ ReconcilerLists \/ ReconcilerSyncs \/ ReconcilerFails
LEMMA StepKinds == Next => Steps
BY Zenon DEF Next, Steps, Starts

\* An operation begins, whoever asks for it.
Begins(o, l) ==
  /\ \E kind \in Kinds \ {"proxy"}, pc \in {"start", "restart", "stop"} : Begin(o, kind, l, pc)
  /\ UNCHANGED <<row, box, others, tab, resuming, rec, waiting, since>>
  /\ idle' \subseteq idle /\ (events' = events \/ events' = events + 1)
LEMMA StartsBegins ==
  ASSUME NEW o \in Ops, Starts(o)
  PROVE  \E l \in Labs : Begins(o, l)
BY DEF Starts, Begins, Resume, Suspend, Restart, SuspendIdle, Event, Kinds

LEMMA TypedStep == Typed /\ [Next]_vars => Typed'
<1> SUFFICES ASSUME Typed, [Next]_vars PROVE Typed' OBVIOUS
<1>t. /\ TypeOK /\ op \in [Ops -> Operation] /\ tab \in [Labs -> Tab] /\ since \in [Labs -> Since]
      /\ \A o \in Ops : Sound(op[o])
      /\ row \in [Labs -> Row]
  BY DEF Typed, TypeOK, Tab, Since, Row, Operation, Kinds, Tab, Since, Row
<1>e. events \in Nat /\ (Event => events' \in Nat)
  BY DEF Event, Typed, TypeOK, Tab, Since, Row
<1> USE DEF Operation, Kinds
<1>1. ASSUME NEW o \in Ops, Starts(o) PROVE Typed'
  <2>1. PICK l \in Labs : Begins(o, l)
    BY <1>1, StartsBegins
  <2>2. PICK kind \in Kinds, pc \in {"start", "restart", "stop"} : Begin(o, kind, l, pc)
    BY <2>1 DEF Begins
  <2>3. /\ op' \in [Ops -> Operation] /\ \A q \in Ops : Sound(op'[q])
        /\ moved' \subseteq Labs
    BY <2>2, BeginTypes
  <2> QED BY <1>e, <2>1, <2>3 DEF Begins, Typed, TypeOK, Tab, Since, Row
<1>2. ASSUME NEW o \in Ops, Stop(o) PROVE Typed'
  <2>1. op' \in [Ops -> Operation] /\ \A q \in Ops : Sound(op'[q])
    BY <1>2, GotoTypes DEF Stop
  <2> QED BY <1>2, <2>1 DEF Stop, Typed, TypeOK, Tab, Since, Row, history
<1>3. ASSUME NEW o \in Ops, Start(o) PROVE Typed'
  <2>1. op' \in [Ops -> Operation] /\ \A q \in Ops : Sound(op'[q])
    BY <1>3, GotoTypes DEF Start
  <2>2. box' \in [Labs -> Ports \cup {NoPort}]
    BY <1>3, <1>t DEF Start, TypeOK, Free, Sound
  <2> QED BY <1>3, <2>1, <2>2 DEF Start, Typed, TypeOK, Tab, Since, Row, history
<1>4. ASSUME NEW o \in Ops, CallFails(o) PROVE Typed'
  BY <1>4, <1>e, EndsTypes DEF CallFails, Typed, TypeOK, Tab, Since, Row
<1>5. ASSUME NEW o \in Ops, Park(o) PROVE Typed'
  <2>1. row' \in [Labs -> Row]
    BY <1>5, <1>t, FieldTypes DEF Park
  <2> QED BY <1>5, <2>1, EndsTypes DEF Park, Typed, TypeOK, Tab, Since, Row
<1>6. ASSUME NEW o \in Ops, Inspect(o) PROVE Typed'
  <2> DEFINE f == IF Running(op[o].lab) THEN box[op[o].lab] ELSE op[o].read
             x == [op[o] EXCEPT !.pc = "sync", !.found = f]
  <2>1. f \in Ports
    BY <1>6, <1>t DEF Inspect, Running, TypeOK, Sound
  <2>2. op' = [op EXCEPT ![o] = x]
    BY <1>6, <1>t DEF Inspect
  <2> HIDE DEF f
  <2>3. x \in Operation /\ Sound(x)
    BY <1>6, <1>t, <2>1 DEF Inspect, Sound
  <2> HIDE DEF x
  <2>4. op' \in [Ops -> Operation] /\ \A q \in Ops : Sound(op'[q])
    BY <2>2, <2>3, OpTypes
  <2> QED BY <1>6, <2>4 DEF Inspect, Typed, TypeOK, Tab, Since, Row, history
<1>7. ASSUME NEW o \in Ops, InspectFails(o) PROVE Typed'
  <2> DEFINE x == [op[o] EXCEPT !.pc = "commit", !.found = op[o].read, !.read = NoPort]
  <2>1. op' = [op EXCEPT ![o] = x]
    BY <1>7, <1>t DEF InspectFails
  <2>2. x \in Operation /\ Sound(x)
    BY <1>7, <1>t DEF InspectFails, Sound
  <2>3. op[o].lab \in Labs
    BY <1>7, <1>t DEF InspectFails, Sound
  <2> HIDE DEF x
  <2>4. op' \in [Ops -> Operation] /\ \A q \in Ops : Sound(op'[q])
    BY <2>1, <2>2, OpTypes
  <2> QED BY <1>7, <1>e, <2>3, <2>4 DEF InspectFails, Typed, TypeOK, Tab, Since, Row
<1>8. ASSUME NEW o \in Ops, Sync(o) PROVE Typed'
  <2> DEFINE x == [op[o] EXCEPT !.pc = "commit", !.read = NoPort]
  <2>1. op' = [op EXCEPT ![o] = x]
    BY <1>8, <1>t DEF Sync
  <2>2. x \in Operation /\ Sound(x) /\ op[o].found \in Ports
    BY <1>8, <1>t DEF Sync, Sound
  <2>3. row' \in [Labs -> Row]
    BY <1>8, <1>t, <2>2, FieldTypes DEF Sync
  <2> HIDE DEF x
  <2>4. op' \in [Ops -> Operation] /\ \A q \in Ops : Sound(op'[q])
    BY <2>1, <2>2, OpTypes
  <2> QED BY <1>8, <2>3, <2>4 DEF Sync, Typed, TypeOK, Tab, Since, Row, history
<1>9. ASSUME NEW o \in Ops, Commit(o) PROVE Typed'
  <2>1. op[o].found \in Ports
    BY <1>9, <1>t DEF Commit, Sound
  <2>2. row' \in [Labs -> Row]
    BY <1>9, <1>t, <2>1 DEF Commit, Row
  <2> QED BY <1>9, <2>2, EndsTypes DEF Commit, Typed, TypeOK, Tab, Since, Row
<1>10. ASSUME NEW l \in Labs, VisitPaused(l) PROVE Typed'
  <2>1. waiting' \subseteq Labs /\ since' \in [Labs -> Since]
    BY <1>10, <1>t, FieldTypes DEF VisitPaused, TypeOK
  <2>2. /\ op' \in [Ops -> Operation] /\ \A q \in Ops : Sound(op'[q])
        /\ moved' \subseteq Labs /\ resuming' \subseteq Labs
    <3>1. CASE l \in resuming
      BY <1>10, <1>t, <3>1 DEF VisitPaused, TypeOK
    <3>2. CASE l \notin resuming
      <4>1. PICK o \in Ops : Begin(o, "proxy", l, "start")
        BY <1>10, <3>2 DEF VisitPaused
      <4>2. /\ op' \in [Ops -> Operation] /\ \A q \in Ops : Sound(op'[q])
            /\ moved' \subseteq Labs
        BY <1>t, <4>1, BeginTypes DEF Kinds
      <4>3. resuming' \subseteq Labs
        BY <1>10, <1>t, <3>2 DEF VisitPaused, TypeOK
      <4> QED BY <4>2, <4>3
    <3> QED BY <3>1, <3>2
  <2> QED BY <1>10, <2>1, <2>2 DEF VisitPaused, Typed, TypeOK, Tab, Since, Row
<1>11. ASSUME NEW l \in Labs, VisitReady(l) PROVE Typed'
  <2> DEFINE t == [pc |-> "probe", port |-> row[l].port]
  <2>1. since' \in [Labs -> Since]
    BY <1>11, <1>t, FieldTypes DEF VisitReady
  <2>3. tab' = [tab EXCEPT ![l] = t]
    BY <1>11 DEF VisitReady
  <2>4. t \in Tab
    BY <1>t DEF Tab, Row
  <2> HIDE DEF t
  <2>5. tab' \in [Labs -> Tab]
    BY <1>t, <2>3, <2>4
  <2> QED BY <1>11, <2>1, <2>5 DEF VisitReady, Typed, TypeOK, Tab, Since, Row
<1>12. ASSUME NEW l \in Labs, Probe(l) PROVE Typed'
  <2>1. tab' \in [Labs -> Tab]
    <3>1. tab' = [tab EXCEPT ![l] = [tab[l] EXCEPT !.pc = "forward"]] \/ tab' = [tab EXCEPT ![l] = NoTab]
      BY <1>12, <1>t DEF Probe
    <3>2. [tab[l] EXCEPT !.pc = "forward"] \in Tab /\ NoTab \in Tab
      BY <1>t, FieldTypes
    <3> QED BY <1>t, <3>1, <3>2
  <2> QED BY <1>12, <2>1 DEF Probe, Typed, TypeOK, Tab, Since, Row, history
<1>13. ASSUME NEW l \in Labs, Forward(l) PROVE Typed'
  <2>1. row' \in [Labs -> Row]
    BY <1>13, <1>t, FieldTypes DEF Forward, Heartbeat
  <2>2. tab' \in [Labs -> Tab] /\ since' \in [Labs -> Since]
    BY <1>13, <1>t, FieldTypes DEF Forward
  <2> QED BY <1>13, <2>1, <2>2 DEF Forward, Typed, TypeOK, Tab, Since, Row
<1>14. ASSUME NEW l \in Labs, Age(l) PROVE Typed'
  <2>1. row' \in [Labs -> Row]
    BY <1>14, <1>t, FieldTypes DEF Age
  <2> QED BY <1>14, <2>1 DEF Age, Typed, TypeOK, Tab, Since, Row, history
<1>15. ASSUME NEW l \in Labs, NothingToSuspend(l) PROVE Typed'
  BY <1>15 DEF NothingToSuspend, Typed, TypeOK, Tab, Since, Row, history
<1>p. rec \in Pass
  BY DEF Typed, TypeOK, Pass
<1>16. CASE ReconcilerLists
  <2>1. rec' \in Pass /\ rec'.pc = "next" /\ rec'.read \in [Labs -> Ports]
    BY <1>16, <1>t DEF ReconcilerLists, NoPass, Pass, Row
  <2> QED BY <1>16, <2>1 DEF ReconcilerLists, Typed, TypeOK, Tab, Since, Row, Pass, history
<1>17. ASSUME NEW l \in Labs, Moves(l) PROVE Typed'
  <2>1. box' \in [Labs -> Ports \cup {NoPort}]
    BY <1>17 DEF Moves, Free, Typed, TypeOK, Tab, Since, Row
  <2> QED BY <1>17, <1>e, <2>1 DEF Moves, Typed, TypeOK, Tab, Since, Row
<1>18. ASSUME NEW l \in Labs, Dies(l) PROVE Typed'
  <2>1. box' \in [Labs -> Ports \cup {NoPort}]
    BY <1>18, <1>t DEF Dies, TypeOK
  <2> QED BY <1>18, <1>e, <2>1 DEF Dies, Typed, TypeOK, Tab, Since, Row, history
<1>19. CASE OthersMove
  BY <1>19, <1>e DEF OthersMove, Free, Typed, TypeOK, Tab, Since, Row, history
<1>20. CASE ReaperLists
  BY <1>20 DEF ReaperLists, Typed, TypeOK, Tab, Since, Row, history
<1>21. ASSUME NEW l \in Labs, ReconcilerInspects(l) PROVE Typed'
  <2> DEFINE f == IF Running(l) THEN box[l] ELSE rec.read[l]
  <2>1. f \in Ports /\ rec.read \in [Labs -> Ports]
    BY <1>21 DEF ReconcilerInspects, Running, Typed, TypeOK, Tab, Since, Row
  <2>2. rec' = [rec EXCEPT !.pc = "sync", !.lab = l, !.found = f]
    BY <1>21 DEF ReconcilerInspects
  <2> HIDE DEF f
  <2>3. rec' \in Pass /\ rec'.lab \in Labs /\ rec'.read \in [Labs -> Ports] /\ rec'.found \in Ports
    BY <1>p, <2>1, <2>2 DEF Pass
  <2>4. moved' \subseteq Labs
    BY <1>21, <2>1 DEF ReconcilerInspects, Typed, TypeOK, Tab, Since, Row
  <2> QED BY <1>21, <2>3, <2>4 DEF ReconcilerInspects, Typed, TypeOK, Tab, Since, Row, Pass
<1>24. ASSUME NEW l \in Labs, ReconcilerMisses(l) PROVE Typed'
  <2>1. rec.pc # "idle" /\ rec.todo \ {l} \in SUBSET Labs /\ rec.read \in [Labs -> Ports]
    BY <1>p, <1>24 DEF ReconcilerMisses, Pass, Typed
  <2>2. /\ rec' \in Pass /\ since' \in [Labs -> Since]
        /\ rec'.pc \in {"idle", "next"} /\ (rec'.pc # "idle" => rec'.read = rec.read)
    BY <1>24, <2>1, PassTypes DEF ReconcilerMisses
  <2> QED BY <1>24, <2>1, <2>2 DEF ReconcilerMisses, Typed, TypeOK, Tab, Since, Row, Pass
<1>25. CASE ReconcilerFails
  <2>1. rec' \in Pass /\ rec'.pc = "idle" /\ since' \in [Labs -> Since]
    BY <1>25, PassTypes DEF ReconcilerFails
  <2> QED BY <1>25, <2>1 DEF ReconcilerFails, Typed, TypeOK, Tab, Since, Row, Pass
<1>22. CASE ReconcilerSyncs
  <2>1. row' \in [Labs -> Row]
    BY <1>22, <1>t, FieldTypes DEF ReconcilerSyncs, Typed
  <2>2. rec.pc # "idle" /\ rec.todo \ {rec.lab} \in SUBSET Labs /\ rec.read \in [Labs -> Ports]
    BY <1>p, <1>22 DEF ReconcilerSyncs, Pass, Typed
  <2>3. /\ rec' \in Pass /\ since' \in [Labs -> Since]
        /\ rec'.pc \in {"idle", "next"} /\ (rec'.pc # "idle" => rec'.read = rec.read)
    BY <1>22, <2>2, PassTypes DEF ReconcilerSyncs
  <2> QED BY <1>22, <2>1, <2>2, <2>3 DEF ReconcilerSyncs, Typed, TypeOK, Tab, Since, Row, Pass
<1>23. CASE UNCHANGED vars
  BY <1>23 DEF vars, Typed, TypeOK, Tab, Since, Row
<1> QED BY <1>1, <1>2, <1>3, <1>4, <1>5, <1>6, <1>7, <1>8, <1>9, <1>10, <1>11, <1>12, <1>13, <1>14,
           <1>15, <1>16, <1>17, <1>18, <1>19, <1>20, <1>21, <1>22, <1>23, <1>24, <1>25, StepKinds DEF Steps

LEMMA TypedHolds == Spec => []Typed
BY TypedInit, TypedStep, PTL DEF Spec

\* The variables have their types.
THEOREM TypeCorrect == Spec => []TypeOK
BY TypedHolds, PTL DEF Typed

-----------------------------------------------------------------------------
(* One resume per lab *)

\* The resumes that the proxy began are the ones it remembers, one per lab.
ResumesAreKnown ==
  \A o \in Ops : op[o].pc # "idle" /\ op[o].kind = "proxy" =>
    /\ op[o].lab \in resuming
    /\ \A q \in Ops : op[q].pc # "idle" /\ op[q].kind = "proxy" /\ op[q].lab = op[o].lab => q = o

LEMMA ResumesInit == Init => ResumesAreKnown
BY DEF Init, ResumesAreKnown, NoOp

\* The steps, as far as operations and the guard are concerned.
LEMMA OpSteps ==
  ASSUME [Next]_vars
  PROVE  \/ \E o \in Ops : \/ Starts(o) \/ Stop(o) \/ Start(o) \/ CallFails(o) \/ Park(o) \/ Commit(o)
                           \/ Inspect(o) \/ InspectFails(o) \/ Sync(o)
         \/ \E l \in Labs : VisitPaused(l)
         \/ UNCHANGED <<op, resuming>>
BY StepKinds, Zenon DEF Steps, vars, VisitReady, Probe, Forward, Age, NothingToSuspend, ReconcilerLists,
                        Moves, Dies, OthersMove, ReaperLists, ReconcilerInspects, ReconcilerMisses,
                        ReconcilerSyncs, ReconcilerFails

LEMMA ResumesStep == Typed /\ ResumesAreKnown /\ [Next]_vars => ResumesAreKnown'
<1> SUFFICES ASSUME Typed, ResumesAreKnown, [Next]_vars PROVE ResumesAreKnown' OBVIOUS
<1>t. op \in [Ops -> Operation] /\ \A o \in Ops : Sound(op[o])
  BY DEF Typed, TypeOK, Operation, Kinds
\* Operations that go on keep their kind and lab.
<1>k. ASSUME NEW o \in Ops, \A q \in Ops \ {o} : op'[q] = op[q],
             op'[o].kind = op[o].kind, op'[o].lab = op[o].lab, op[o].pc # "idle",
             UNCHANGED resuming
      PROVE  ResumesAreKnown'
  BY <1>k DEF ResumesAreKnown
\* One that ends is forgotten.
<1>e. ASSUME NEW o \in Ops, op[o].pc # "idle", Ends(o) PROVE ResumesAreKnown'
  <2>1. op'[o] = NoOp /\ \A q \in Ops \ {o} : op'[q] = op[q]
    BY <1>e, EndsTypes
  <2> QED BY <1>e, <2>1 DEF ResumesAreKnown, Ends, NoOp
<1>1. ASSUME NEW o \in Ops, Starts(o) PROVE ResumesAreKnown'
  <2>1. PICK l \in Labs : Begins(o, l)
    BY <1>1, StartsBegins
  <2>2. PICK kind \in Kinds \ {"proxy"}, pc \in {"start", "restart", "stop"} : Begin(o, kind, l, pc)
    BY <2>1 DEF Begins
  <2>3. op'[o].kind = kind /\ \A q \in Ops \ {o} : op'[q] = op[q]
    BY <2>2, BeginTypes
  <2> QED BY <2>1, <2>3 DEF Begins, ResumesAreKnown
<1>2. ASSUME NEW o \in Ops, Stop(o) \/ Start(o) PROVE ResumesAreKnown'
  <2>1. op'[o].kind = op[o].kind /\ op'[o].lab = op[o].lab /\ \A q \in Ops \ {o} : op'[q] = op[q]
    BY <1>2, GotoTypes DEF Stop, Start
  <2> QED BY <1>2, <1>k, <2>1 DEF Stop, Start
<1>3. ASSUME NEW o \in Ops, CallFails(o) \/ Park(o) \/ Commit(o) PROVE ResumesAreKnown'
  BY <1>3, <1>e DEF CallFails, Park, Commit
<1>4. ASSUME NEW o \in Ops, Inspect(o) \/ InspectFails(o) \/ Sync(o) PROVE ResumesAreKnown'
  <2>1. op'[o].kind = op[o].kind /\ op'[o].lab = op[o].lab /\ \A q \in Ops \ {o} : op'[q] = op[q]
    BY <1>4, <1>t DEF Inspect, InspectFails, Sync, Operation
  <2> QED BY <1>4, <1>k, <2>1 DEF Inspect, InspectFails, Sync
<1>5. ASSUME NEW l \in Labs, VisitPaused(l) PROVE ResumesAreKnown'
  <2>1. CASE l \in resuming
    BY <1>5, <2>1 DEF VisitPaused, ResumesAreKnown
  <2>2. CASE l \notin resuming
    <3>1. PICK o \in Ops : Begin(o, "proxy", l, "start")
      BY <1>5, <2>2 DEF VisitPaused
    <3>2. op'[o].kind = "proxy" /\ op'[o].lab = l /\ \A q \in Ops \ {o} : op'[q] = op[q]
      BY <3>1, BeginTypes DEF Kinds
    <3>3. resuming' = resuming \cup {l}
      BY <1>5, <2>2 DEF VisitPaused
    <3> QED BY <2>2, <3>2, <3>3 DEF ResumesAreKnown
  <2> QED BY <2>1, <2>2
<1>6. CASE UNCHANGED <<op, resuming>>
  BY <1>6 DEF ResumesAreKnown
<1> QED BY <1>1, <1>2, <1>3, <1>4, <1>5, <1>6, OpSteps

\* The guard does not outlive its resume: while a lab is in it, and its visits
\* start nothing, one that they began is under way (the .finally() that takes the
\* lab out runs when the resume ends, however it ends).
GuardHasResume == \A l \in resuming : \E o \in On(l) : op[o].kind = "proxy"

\* Every step keeps the guard's promise: an operation that ends a resume of the
\* proxy takes the lab out of resumingNow in the same step.
LEMMA GuardStep == Typed /\ GuardHasResume /\ [Next]_vars => GuardHasResume'
<1> SUFFICES ASSUME Typed, GuardHasResume, [Next]_vars PROVE GuardHasResume' OBVIOUS
<1> USE DEF GuardHasResume, On
<1>t. /\ op \in [Ops -> Operation] /\ \A o \in Ops : Sound(op[o])
      /\ resuming \subseteq Labs
  BY DEF Typed, TypeOK, Operation, Kinds
\* An operation that was idle, or that goes on with its kind and lab.
<1>k. ASSUME NEW o \in Ops, \A q \in Ops \ {o} : op'[q] = op[q], UNCHANGED resuming,
             \/ op[o].pc = "idle"
             \/ op'[o].kind = op[o].kind /\ op'[o].lab = op[o].lab /\ op'[o].pc # "idle"
      PROVE  GuardHasResume'
  BY <1>k
<1>1. ASSUME NEW o \in Ops, Starts(o) PROVE GuardHasResume'
  <2>1. PICK l \in Labs : Begins(o, l)
    BY <1>1, StartsBegins
  <2>2. PICK kind \in Kinds \ {"proxy"}, pc \in {"start", "restart", "stop"} : Begin(o, kind, l, pc)
    BY <2>1 DEF Begins
  <2>3. op[o].pc = "idle" /\ \A q \in Ops \ {o} : op'[q] = op[q]
    BY <2>2, BeginTypes
  <2>4. UNCHANGED resuming
    BY <2>1 DEF Begins
  <2> QED BY <1>k, <2>3, <2>4
<1>2. ASSUME NEW o \in Ops, Stop(o) \/ Start(o) PROVE GuardHasResume'
  <2>1. /\ op'[o].kind = op[o].kind /\ op'[o].lab = op[o].lab /\ op'[o].pc # "idle"
        /\ \A q \in Ops \ {o} : op'[q] = op[q]
    BY <1>2, GotoTypes DEF Stop, Start
  <2>2. UNCHANGED resuming
    BY <1>2 DEF Stop, Start
  <2> QED BY <1>k, <2>1, <2>2
<1>3. ASSUME NEW o \in Ops, CallFails(o) \/ Park(o) \/ Commit(o) PROVE GuardHasResume'
  <2>1. Ends(o) /\ op[o].pc # "idle"
    BY <1>3 DEF CallFails, Park, Commit
  <2>2. \A q \in Ops \ {o} : op'[q] = op[q]
    BY <2>1, EndsTypes
  <2>3. resuming' = IF op[o].kind = "proxy" THEN resuming \ {op[o].lab} ELSE resuming
    BY <2>1 DEF Ends
  <2> SUFFICES ASSUME NEW l \in resuming'
               PROVE  \E q \in Ops : op'[q].lab = l /\ op'[q].pc # "idle" /\ op'[q].kind = "proxy"
    OBVIOUS
  <2>4. l \in resuming /\ (op[o].kind = "proxy" => l # op[o].lab)
    BY <2>3
  <2>5. PICK q \in Ops : op[q].lab = l /\ op[q].pc # "idle" /\ op[q].kind = "proxy"
    BY <2>4
  <2> QED BY <2>2, <2>4, <2>5
<1>4. ASSUME NEW o \in Ops, Inspect(o) \/ InspectFails(o) \/ Sync(o) PROVE GuardHasResume'
  <2>1. /\ op'[o].kind = op[o].kind /\ op'[o].lab = op[o].lab /\ op'[o].pc # "idle"
        /\ \A q \in Ops \ {o} : op'[q] = op[q]
    BY <1>4, <1>t DEF Inspect, InspectFails, Sync, Operation
  <2>2. UNCHANGED resuming
    BY <1>4 DEF Inspect, InspectFails, Sync
  <2> QED BY <1>k, <2>1, <2>2
<1>5. ASSUME NEW l \in Labs, VisitPaused(l) PROVE GuardHasResume'
  <2>1. CASE l \in resuming
    BY <1>5, <2>1 DEF VisitPaused
  <2>2. CASE l \notin resuming
    <3>1. PICK o \in Ops : Begin(o, "proxy", l, "start")
      BY <1>5, <2>2 DEF VisitPaused
    <3>2. /\ op[o].pc = "idle"
          /\ op'[o].kind = "proxy" /\ op'[o].lab = l /\ op'[o].pc = "start"
          /\ \A q \in Ops \ {o} : op'[q] = op[q]
      BY <3>1, BeginTypes DEF Kinds
    <3>3. resuming' = resuming \cup {l}
      BY <1>5, <2>2 DEF VisitPaused
    <3> QED BY <3>2, <3>3
  <2> QED BY <2>1, <2>2
<1>6. CASE UNCHANGED <<op, resuming>>
  BY <1>6
<1> QED BY <1>1, <1>2, <1>3, <1>4, <1>5, <1>6, OpSteps

\* The guard is exact: however many browsers come back and however often, and
\* whatever fails or admins and the reaper do meanwhile, a lab in resumingNow has
\* one resume in flight, started by its visits, and any other lab has none.
THEOREM OneResume == Spec => []ResumeGuardIsExact
<1>1. Init => GuardHasResume
  BY DEF Init, GuardHasResume
<1>2. Typed /\ ResumesAreKnown /\ GuardHasResume => ResumeGuardIsExact
  <2> SUFFICES ASSUME Typed, ResumesAreKnown, GuardHasResume, NEW l \in Labs
               PROVE  Cardinality({o \in On(l) : op[o].kind = "proxy"})
                        = IF l \in resuming THEN 1 ELSE 0
    BY DEF ResumeGuardIsExact
  <2> DEFINE S == {o \in On(l) : op[o].kind = "proxy"}
  <2>1. CASE l \notin resuming
    <3>1. S = {}
      BY <2>1 DEF ResumesAreKnown, On
    <3> QED BY <2>1, <3>1, FS_EmptySet
  <2>2. CASE l \in resuming
    <3>1. PICK o : o \in S
      BY <2>2 DEF GuardHasResume
    <3>2. S = {o}
      BY <3>1 DEF ResumesAreKnown, On
    <3>3. Cardinality(S) = 1
      BY <3>2, FS_Singleton, Zenon
    <3> QED BY <2>2, <3>3
  <2> QED BY <2>1, <2>2
<1> QED BY <1>1, <1>2, TypedHolds, ResumesInit, ResumesStep, GuardStep, PTL DEF Spec

-----------------------------------------------------------------------------
(* Rows at rest are right *)

\* What an operation on l knows of its container.
InHand(o, l) ==
  /\ op[o].pc \in {"start", "restart", "stop"} /\ Running(l) => row[l].port = box[l]
  /\ op[o].pc = "park" => ~Running(l)
  /\ op[o].pc \in {"sync", "commit"} /\ Running(l) => op[o].found = box[l]

\* A lab whose port nothing has made doubtful has one operation at most; the
\* row is right when it has none, and so is what the reconciler found.
Steady(l) ==
  /\ \A o, q \in On(l) : o = q
  /\ On(l) = {} /\ Running(l) => row[l].port = box[l]
  /\ \A o \in On(l) : InHand(o, l)
  /\ rec.pc = "sync" /\ rec.lab = l => On(l) = {} /\ (Running(l) => rec.found = box[l])
AllSteady == \A l \in Labs \ moved : Steady(l)

LEMMA SteadyInit == Init => AllSteady
BY DEF Init, AllSteady, Steady, InHand, On, NoOp, NoPass

\* A lab that a step leaves alone stays steady.
Alone(l) ==
  /\ l \notin moved' => l \notin moved
  /\ row'[l].port = row[l].port /\ box'[l] = box[l]
  /\ \A o \in Ops : op[o].lab = l \/ op'[o].lab = l =>
       \/ op'[o] = op[o]
       \/ op'[o].pc = "idle" /\ op[o].pc = "idle"
  /\ rec'.lab = l /\ rec'.pc = "sync" => rec' = rec

LEMMA AloneSteady ==
  ASSUME NEW l \in Labs, l \notin moved', Alone(l), l \notin moved => Steady(l)
  PROVE  Steady(l)'
<1>1. Steady(l)
  BY DEF Alone
<1>2. On(l)' = On(l) /\ \A o \in On(l) : op'[o] = op[o]
  BY DEF Alone, On
<1>3. Running(l)' = Running(l)
  BY DEF Alone, Running
<1> QED BY <1>1, <1>2, <1>3 DEF Alone, Steady, InHand, Running

LEMMA SteadyStep == Typed /\ AllSteady /\ [Next]_vars => AllSteady'
<1> SUFFICES ASSUME Typed, AllSteady, [Next]_vars PROVE AllSteady' OBVIOUS
<1>t. /\ op \in [Ops -> Operation] /\ tab \in [Labs -> Tab]
      /\ \A o \in Ops : Sound(op[o])
      /\ row \in [Labs -> Row] /\ box \in [Labs -> Ports \cup {NoPort}]
  BY DEF Typed, TypeOK, Operation, Kinds, Tab, Row
<1>s. \A l \in Labs : l \notin moved => Steady(l)
  BY DEF AllSteady
<1>a. ASSUME \A l \in Labs : l \notin moved' => Alone(l) \/ Steady(l)' PROVE AllSteady'
  BY <1>s, <1>a, AloneSteady DEF AllSteady
<1>i. NoOp.pc = "idle"
  BY DEF NoOp
\* An operation begins on x: x has no other, or is moved.
<1>b. ASSUME NEW o \in Ops, NEW x \in Labs, NEW kind \in Kinds,
             NEW pc \in {"start", "restart", "stop"}, Begin(o, kind, x, pc),
             UNCHANGED <<row, box, rec>>
      PROVE  AllSteady'
  <2>1. /\ op[o].pc = "idle" /\ op'[o].pc = pc /\ op'[o].lab = x
        /\ \A q \in Ops \ {o} : op'[q] = op[q]
        /\ moved \subseteq moved'
        /\ (On(x) # {} \/ (rec.lab = x /\ rec.pc = "sync")) => x \in moved'
    BY <1>b, BeginTypes
  <2>2. ASSUME NEW l \in Labs \ {x}, l \notin moved' PROVE Steady(l)'
    <3>1. On(l)' = On(l) /\ \A q \in On(l) : op'[q] = op[q]
      BY <2>1 DEF On
    <3>2. Steady(l)
      BY <1>s, <2>1, <2>2
    <3> QED BY <1>b, <2>1, <3>1, <3>2 DEF Steady, InHand, Running
  <2>3. ASSUME x \notin moved' PROVE Steady(x)'
    <3>1. Steady(x) /\ On(x) = {} /\ ~(rec.lab = x /\ rec.pc = "sync")
      BY <1>s, <2>1, <2>3
    <3>2. On(x)' = {o}
      BY <2>1, <3>1 DEF On
    <3> QED BY <1>b, <2>1, <3>1, <3>2 DEF Steady, InHand, Running
  <2> QED BY <2>2, <2>3, <1>a
\* An operation on x goes on: nothing else is at work on x, unless x is moved.
<1>g. ASSUME NEW o \in Ops, NEW x \in Labs, op[o].pc # "idle", op[o].lab = x, op'[o].lab = x,
             \A q \in Ops \ {o} : op'[q] = op[q], UNCHANGED <<tab, rec>>, moved \subseteq moved',
             \A k \in Labs \ {x} : box'[k] = box[k] /\ row'[k].port = row[k].port,
             x \notin moved' => op'[o].pc # "idle" /\ InHand(o, x)'
      PROVE  AllSteady'
  <2>1. ASSUME NEW l \in Labs \ {x}, l \notin moved' PROVE Alone(l)
    BY <1>g, <2>1 DEF Alone
  <2>2. ASSUME x \notin moved' PROVE Steady(x)'
    <3>1. Steady(x) /\ o \in On(x)
      BY <1>s, <1>g, <2>2 DEF On
    <3>2. On(x)' = {o}
      BY <1>g, <2>2, <3>1 DEF On, Steady
    <3>3. /\ ~(rec.pc = "sync" /\ rec.lab = x)
      BY <3>1 DEF Steady
    <3> QED BY <1>g, <2>2, <3>1, <3>2, <3>3 DEF Steady
  <2> QED BY <1>a, <2>1, <2>2
\* The operation on x ends, with the row right.
<1>e. ASSUME NEW o \in Ops, NEW x \in Labs, op[o].pc # "idle", op[o].lab = x, Ends(o),
             UNCHANGED <<box, tab, rec>>, moved \subseteq moved',
             \A k \in Labs \ {x} : row'[k].port = row[k].port,
             x \notin moved' => (Running(x) => row'[x].port = box[x])
      PROVE  AllSteady'
  <2>0. op'[o] = NoOp /\ \A q \in Ops \ {o} : op'[q] = op[q]
    BY <1>e, EndsTypes
  <2>1. ASSUME NEW l \in Labs \ {x}, l \notin moved' PROVE Steady(l)'
    <3>1. On(l)' = On(l) /\ \A q \in On(l) : op'[q] = op[q]
      BY <1>e, <1>i, <2>0 DEF On
    <3>2. Steady(l)
      BY <1>s, <1>e, <2>1
    <3> QED BY <1>e, <3>1, <3>2 DEF Steady, InHand, Running
  <2>2. ASSUME x \notin moved' PROVE Steady(x)'
    <3>1. Steady(x) /\ o \in On(x)
      BY <1>s, <1>e, <2>2 DEF On
    <3>2. On(x)' = {}
      BY <1>i, <2>0, <3>1 DEF On, Steady
    <3>3. /\ ~(rec.pc = "sync" /\ rec.lab = x)
      BY <3>1 DEF Steady
    <3> QED BY <1>e, <2>2, <3>2, <3>3 DEF Steady, Running
  <2> QED BY <1>a, <2>1, <2>2
<1>1. ASSUME NEW o \in Ops, Starts(o) PROVE AllSteady'
  <2>1. PICK l \in Labs : Begins(o, l)
    BY <1>1, StartsBegins
  <2>2. PICK kind \in Kinds, pc \in {"start", "restart", "stop"} : Begin(o, kind, l, pc)
    BY <2>1 DEF Begins
  <2> QED BY <1>b, <2>1, <2>2 DEF Begins
<1>2. ASSUME NEW o \in Ops, Stop(o) PROVE AllSteady'
  <2>1. op'[o].pc = "park" /\ op'[o].lab = op[o].lab /\ \A q \in Ops \ {o} : op'[q] = op[q]
    BY <1>2, GotoTypes DEF Stop
  <2>2. op[o].pc # "idle" /\ op[o].lab \in Labs
    BY <1>2, <1>t DEF Stop, Sound
  <2>3. box'[op[o].lab] = NoPort /\ \A k \in Labs \ {op[o].lab} : box'[k] = box[k]
    BY <1>2, <1>t, <2>2 DEF Stop
  <2>4. InHand(o, op[o].lab)'
    BY <2>1, <2>3 DEF InHand, Running
  <2> QED BY <1>2, <1>g, <2>1, <2>2, <2>3, <2>4 DEF Stop, history
<1>3. ASSUME NEW o \in Ops, Start(o) PROVE AllSteady'
  <2>1. op'[o].pc = "inspect" /\ op'[o].lab = op[o].lab /\ \A q \in Ops \ {o} : op'[q] = op[q]
    BY <1>3, GotoTypes DEF Start
  <2>2. op[o].pc # "idle" /\ op[o].lab \in Labs
    BY <1>3, <1>t DEF Start, Sound
  <2>3. \A k \in Labs \ {op[o].lab} : box'[k] = box[k]
    BY <1>3, <1>t, <2>2 DEF Start
  <2>4. InHand(o, op[o].lab)'
    BY <2>1 DEF InHand
  <2> QED BY <1>3, <1>g, <2>1, <2>2, <2>3, <2>4 DEF Start, history
<1>4. ASSUME NEW o \in Ops, CallFails(o) PROVE AllSteady'
  <2>1. op[o].pc # "idle" /\ op[o].lab \in Labs
    BY <1>4, <1>t DEF CallFails, Sound
  <2>2. op[o].lab \notin moved => (Running(op[o].lab) => row[op[o].lab].port = box[op[o].lab])
    BY <1>4, <1>s, <2>1 DEF CallFails, Steady, InHand, On
  <2> QED BY <1>4, <1>e, <2>1, <2>2 DEF CallFails
<1>5. ASSUME NEW o \in Ops, Park(o) PROVE AllSteady'
  <2>1. op[o].pc # "idle" /\ op[o].lab \in Labs
    BY <1>5, <1>t DEF Park, Sound
  <2>2. op[o].lab \notin moved => ~Running(op[o].lab)
    BY <1>5, <1>s, <2>1 DEF Park, Steady, InHand, On
  <2>3. \A k \in Labs \ {op[o].lab} : row'[k].port = row[k].port
    BY <1>5, <1>t DEF Park
  <2> QED BY <1>5, <1>e, <2>1, <2>2, <2>3 DEF Park
<1>6. ASSUME NEW o \in Ops, Inspect(o) PROVE AllSteady'
  <2>1. /\ op'[o].pc = "sync" /\ op'[o].lab = op[o].lab /\ \A q \in Ops \ {o} : op'[q] = op[q]
        /\ Running(op[o].lab) => op'[o].found = box[op[o].lab]
    BY <1>6, <1>t DEF Inspect, Operation
  <2>2. op[o].pc # "idle" /\ op[o].lab \in Labs
    BY <1>6, <1>t DEF Inspect, Sound
  <2>3. InHand(o, op[o].lab)'
    BY <1>6, <2>1 DEF Inspect, InHand, Running
  <2> QED BY <1>6, <1>g, <2>1, <2>2, <2>3 DEF Inspect, history
<1>7. ASSUME NEW o \in Ops, InspectFails(o) PROVE AllSteady'
  <2>1. op'[o].lab = op[o].lab /\ \A q \in Ops \ {o} : op'[q] = op[q]
    BY <1>7, <1>t DEF InspectFails, Operation
  <2>2. op[o].pc # "idle" /\ op[o].lab \in Labs
    BY <1>7, <1>t DEF InspectFails, Sound
  <2> QED BY <1>7, <1>g, <2>1, <2>2 DEF InspectFails
<1>8. ASSUME NEW o \in Ops, Sync(o) PROVE AllSteady'
  <2>1. /\ op'[o].pc = "commit" /\ op'[o].lab = op[o].lab /\ \A q \in Ops \ {o} : op'[q] = op[q]
        /\ op'[o].found = op[o].found
    BY <1>8, <1>t DEF Sync, Operation
  <2>2. op[o].pc # "idle" /\ op[o].lab \in Labs
    BY <1>8, <1>t DEF Sync, Sound
  <2>3. \A k \in Labs \ {op[o].lab} : row'[k].port = row[k].port
    BY <1>8, <1>t DEF Sync
  <2>4. op[o].lab \notin moved => InHand(o, op[o].lab)'
    BY <1>8, <1>s, <2>1, <2>2 DEF Sync, Steady, InHand, On, Running
  <2> QED BY <1>8, <1>g, <2>1, <2>2, <2>3, <2>4 DEF Sync, history
<1>9. ASSUME NEW o \in Ops, Commit(o) PROVE AllSteady'
  <2>1. op[o].pc # "idle" /\ op[o].lab \in Labs
    BY <1>9, <1>t DEF Commit, Sound
  <2>2. op[o].lab \notin moved => (Running(op[o].lab) => op[o].found = box[op[o].lab])
    BY <1>9, <1>s, <2>1 DEF Commit, Steady, InHand, On
  <2>3. row'[op[o].lab].port = op[o].found /\ \A k \in Labs \ {op[o].lab} : row'[k].port = row[k].port
    BY <1>9, <1>t, <2>1 DEF Commit
  <2> QED BY <1>9, <1>e, <2>1, <2>2, <2>3 DEF Commit
<1>10. ASSUME NEW l \in Labs, VisitPaused(l) PROVE AllSteady'
  <2>1. CASE l \in resuming
    BY <1>10, <1>a, <2>1 DEF VisitPaused, Alone
  <2>2. CASE l \notin resuming
    <3>1. PICK o \in Ops : Begin(o, "proxy", l, "start")
      BY <1>10, <2>2 DEF VisitPaused
    <3> QED BY <1>10, <1>b, <3>1 DEF VisitPaused, Kinds
  <2> QED BY <2>1, <2>2
<1>11. ASSUME NEW l \in Labs, VisitReady(l) \/ Probe(l) PROVE AllSteady'
  BY <1>11, <1>a DEF VisitReady, Probe, history, Alone
<1>13. ASSUME NEW l \in Labs, Forward(l) PROVE AllSteady'
  <2>1. \A k \in Labs : row'[k].port = row[k].port
    BY <1>13, <1>t DEF Forward, Heartbeat
  <2> QED BY <1>13, <1>a, <2>1 DEF Forward, Alone
<1>14. ASSUME NEW l \in Labs, Age(l) PROVE AllSteady'
  <2>1. \A k \in Labs : row'[k].port = row[k].port
    BY <1>14, <1>t DEF Age
  <2> QED BY <1>14, <1>a, <2>1 DEF Age, history, Alone
<1>15. ASSUME rec'.pc # "sync", UNCHANGED <<row, box, op, moved>> PROVE AllSteady'
  BY <1>15, <1>a DEF Alone
<1>p. /\ rec \in Pass
      /\ ReconcilerFails => rec'.pc # "sync"
      /\ ReconcilerLists => rec'.pc # "sync"
      /\ \A l \in Labs : ReconcilerMisses(l) => rec'.pc # "sync"
      /\ ReconcilerSyncs => rec'.pc # "sync"
  <2>1. rec \in Pass
    BY DEF Typed, TypeOK, Pass
  <2>2. NoPass \in Pass
    BY DEF NoPass, Pass
  <2>3. rec.todo \ {rec.lab} \in SUBSET Labs /\ \A l \in Labs : rec.todo \ {l} \in SUBSET Labs
    BY <2>1 DEF Pass
  <2> QED BY <2>1, <2>2, <2>3, PassTypes DEF ReconcilerFails, ReconcilerLists, ReconcilerMisses, ReconcilerSyncs, Pass
<1>16. ASSUME NEW l \in Labs, Moves(l) PROVE AllSteady'
  <2>1. \A k \in Labs \ {l} : box'[k] = box[k]
    BY <1>16, <1>t DEF Moves
  <2> QED BY <1>16, <1>a, <2>1 DEF Moves, Alone
<1>17. ASSUME NEW l \in Labs, Dies(l) PROVE AllSteady'
  <2>1. box'[l] = NoPort /\ \A k \in Labs \ {l} : box'[k] = box[k]
    BY <1>17, <1>t DEF Dies
  <2>3. UNCHANGED <<row, op, rec, moved>>
    BY <1>17 DEF Dies, history
  <2>4. \A k \in Labs \ {l} : Alone(k)
    BY <2>1, <2>3 DEF Alone
  <2>5. ASSUME l \notin moved PROVE Steady(l)'
    <3>1. Steady(l) /\ On(l)' = On(l) /\ ~Running(l)'
      BY <1>s, <2>1, <2>3, <2>5 DEF On, Running
    <3> QED BY <2>3, <3>1 DEF Steady, InHand
  <2> QED BY <1>a, <2>3, <2>4, <2>5
<1>18. ASSUME NEW x \in Labs, ReconcilerInspects(x) PROVE AllSteady'
  <2>1. rec'.pc = "sync" /\ rec'.lab = x /\ (Running(x) => rec'.found = box[x])
    BY <1>p, <1>18 DEF ReconcilerInspects, Pass
  <2>2. UNCHANGED <<row, box, op, tab>> /\ moved \subseteq moved' /\ (On(x) # {} => x \in moved')
    BY <1>18 DEF ReconcilerInspects
  <2>3. \A k \in Labs \ {x} : Alone(k)
    BY <2>1, <2>2 DEF Alone
  <2>4. ASSUME x \notin moved' PROVE Steady(x)'
    <3>1. Steady(x) /\ On(x) = {}
      BY <1>s, <2>1, <2>2, <2>4
    <3>2. \A k \in Labs : On(k)' = On(k) /\ Running(k)' = Running(k)
      BY <2>2 DEF On, Running
    <3> QED BY <2>1, <2>2, <3>1, <3>2 DEF Steady, InHand
  <2>5. ASSUME NEW k \in Labs, k \notin moved' PROVE Alone(k) \/ Steady(k)'
    BY <2>1, <2>3, <2>4, <2>5
  <2> QED BY <1>a, <2>5
<1>19. CASE ReconcilerSyncs
  <2>1. rec.lab \in Labs /\ rec'.pc # "sync" /\ UNCHANGED <<box, op, tab, moved>>
    BY <1>p, <1>19 DEF ReconcilerSyncs, Typed
  <2>2. \A k \in Labs \ {rec.lab} : row'[k].port = row[k].port
    BY <1>19, <1>t DEF ReconcilerSyncs
  <2>3. row'[rec.lab].port \in {row[rec.lab].port, rec.found}
    BY <1>19, <1>t, <2>1 DEF ReconcilerSyncs, Row
  <2>4. ASSUME NEW k \in Labs, k \notin moved PROVE Steady(k)'
    <3>1. Steady(k) /\ On(k)' = On(k) /\ Running(k)' = Running(k)
      BY <1>s, <2>1, <2>4 DEF On, Running
    <3>2. CASE k = rec.lab
      <4>1. On(k) = {} /\ (Running(k) => rec.found = box[k]) /\ (Running(k) => row[k].port = box[k])
        BY <1>19, <3>1, <3>2 DEF ReconcilerSyncs, Steady
      <4> QED BY <2>1, <2>3, <3>1, <3>2, <4>1 DEF Steady
    <3>3. CASE k # rec.lab
      BY <2>1, <2>2, <3>1, <3>3 DEF Steady, InHand
    <3> QED BY <3>2, <3>3
  <2> QED BY <1>a, <2>1, <2>4
<1>20. CASE UNCHANGED <<row, box, tab, op, rec, moved>>
  BY <1>20, <1>a DEF Alone
<1>21. \/ \E o \in Ops : \/ Starts(o) \/ Stop(o) \/ Start(o) \/ CallFails(o) \/ Park(o)
                         \/ Inspect(o) \/ InspectFails(o) \/ Sync(o) \/ Commit(o)
       \/ \E l \in Labs : \/ VisitPaused(l) \/ VisitReady(l) \/ Probe(l) \/ Forward(l)
                          \/ Age(l) \/ ReconcilerInspects(l) \/ Moves(l) \/ Dies(l)
       \/ ReconcilerSyncs \/ (rec'.pc # "sync" /\ UNCHANGED <<row, box, op, moved>>)
       \/ UNCHANGED <<row, box, tab, op, rec, moved>>
  <2>1. \/ \E l \in Labs : ReconcilerMisses(l)
        \/ ReconcilerLists \/ ReconcilerFails
        => rec'.pc # "sync" /\ UNCHANGED <<row, box, op, moved>>
    BY <1>p DEF ReconcilerMisses, ReconcilerLists, ReconcilerFails, history
  <2> QED BY <2>1, StepKinds, Zenon DEF Steps, vars, history, NothingToSuspend, OthersMove, ReaperLists
<1> QED BY <1>1, <1>2, <1>3, <1>4, <1>5, <1>6, <1>7, <1>8, <1>9, <1>10, <1>11, <1>13, <1>14,
           <1>15, <1>16, <1>17, <1>18, <1>19, <1>20, <1>21

\* Whatever suspends, resumes, restarts, deaths and reconciler passes came
\* before, the row of a running lab at rest names the lab's own port
\* (syncInstanceUpstream), but for the exceptions that moved lists.
THEOREM RightPorts == Spec => []PortIsRight
<1>1. AllSteady => PortIsRight
  BY DEF AllSteady, Steady, PortIsRight
<1> QED BY <1>1, TypedHolds, SteadyInit, SteadyStep, PTL DEF Spec
=============================================================================
