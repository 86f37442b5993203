-------------------------- MODULE UserMapping_proofs --------------------------
(***************************************************************************)
(* Proofs about UserMapping: its inductive invariant and the safety        *)
(* properties that follow from it.                                         *)
(***************************************************************************)
EXTENDS UserMappingInvariant, FiniteSetTheorems, WellFoundedInduction, TLAPS

-----------------------------------------------------------------------------
(* The steps, by what they touch *)

\* A step of p on rows and its own task, away from the chain.
Aside(p) ==
  \/ \E l \in Labs : \/ Redeem(p, l) \/ ProvisionReady(p, l) \/ PrewarmReady(p, l)
                     \/ DestroyReads(p, l) \/ PowerBegins(p, l) \/ ResumeDrifts(p, l)
                     \/ ReconcilerSyncs(p, l)
  \/ EnsureReads(p) \/ MintCredentials(p) \/ ClearCredentials(p)
  \/ Terminate(p) \/ PowerEnds(p) \/ Resync(p) \/ Link(p)
  \/ ReconcilerLists(p) \/ ReconcilerEnds(p)

\* A step of the call at work that goes on, or that ends it.
GoesOn(p) == ReuseConnection(p) \/ Dial(p) \/ Connect(p) \/ WriteLands(p)
Fails(p) == ConnectFails(p) \/ KeyUnreadable(p) \/ WriteFails(p)
Syncs(p) == SyncJdbc(p) \/ SyncFails(p)

\* Every step is one of these.
LEMMA StepKinds ==
  ASSUME [Next]_vars
  PROVE  \/ \E p \in Procs : Aside(p) \/ Call(p) \/ ReadConfig(p) \/ TakeSnapshot(p)
                             \/ GoesOn(p) \/ Fails(p) \/ Syncs(p)
         \/ Configure \/ Restart \/ UNCHANGED vars
BY Zenon DEF Next, Operation, Reconcile, Ship, Aside, GoesOn, Fails, Syncs

-----------------------------------------------------------------------------
(* Type correctness *)

\* Changes of one task keep all tasks typed.
LEMMA TaskTypes ==
  ASSUME TypeOK, NEW p \in Procs
  PROVE  /\ NoTask \in Tasks
         /\ \A pc \in Pcs : Goto(p, pc) => task' \in [Procs -> Tasks]
         /\ \A t \in Tasks : task' = [task EXCEPT ![p] = t] => task' \in [Procs -> Tasks]
         /\ \A pc \in Pcs, job \in Jobs, l \in Labs \cup {NoLab} :
              Begin(p, pc, job, l) => task' \in [Procs -> Tasks]
<1>1. NoTask \in Tasks
  BY DEF NoTask, Tasks, Pcs, Jobs
<1>2. ASSUME NEW pc \in Pcs, Goto(p, pc)  PROVE task' \in [Procs -> Tasks]
  BY <1>2 DEF TypeOK, Goto, Tasks
<1>3. ASSUME NEW t \in Tasks, task' = [task EXCEPT ![p] = t]
      PROVE  task' \in [Procs -> Tasks]
  BY <1>1, <1>3 DEF TypeOK
<1>4. ASSUME NEW pc \in Pcs, NEW job \in Jobs, NEW l \in Labs \cup {NoLab},
             Begin(p, pc, job, l)
      PROVE  task' \in [Procs -> Tasks]
  <2>1. [NoTask EXCEPT !.pc = pc, !.job = job, !.lab = l] \in Tasks
    BY <1>1 DEF Tasks
  <2> QED BY <1>4, <2>1 DEF TypeOK, Begin
<1> QED BY <1>1, <1>2, <1>3, <1>4

\* So do changes of one row.
LEMMA RowTypes ==
  ASSUME TypeOK, NEW l \in Labs
  PROVE  /\ \A r \in Row : Commit(l, r) => db' \in [Labs -> Row] /\ version' \in Nat
         /\ [db[l] EXCEPT !.port = version + 1] \in Row
         /\ [db[l] EXCEPT !.token = version + 1] \in Row
         /\ [db[l] EXCEPT !.token = 0] \in Row
         /\ \A b \in BOOLEAN : [db[l] EXCEPT !.live = b] \in Row
<1>1. db[l] \in Row /\ version + 1 \in Nat
  BY DEF TypeOK
<1>2. ASSUME NEW r \in Row, Commit(l, r)
      PROVE  db' \in [Labs -> Row] /\ version' \in Nat
  BY <1>1, <1>2 DEF TypeOK, Commit
<1>3. \A n \in Nat : /\ [db[l] EXCEPT !.port = n] \in Row
                     /\ [db[l] EXCEPT !.token = n] \in Row
  BY <1>1 DEF Row
<1>4. \A b \in BOOLEAN : [db[l] EXCEPT !.live = b] \in Row
  BY <1>1 DEF Row
<1> QED BY <1>1, <1>2, <1>3, <1>4

\* The rows as they are make a snapshot, and so do the empty one and one with
\* the configuration read.
LEMMA SnapshotTypes ==
  TypeOK => /\ Blank \in Snapshots /\ Now \in Snapshots
            /\ \A s \in Snapshots, h \in BOOLEAN : [s EXCEPT !.host = h] \in Snapshots
BY DEF TypeOK, Blank, Now, Snapshots, Row

\* A sync keeps the JDBC tables typed.
LEMMA JdbcTypes ==
  ASSUME TypeOK, NEW s \in Snapshots, Reconciled(s)
  PROVE  conn' \in [Labs -> Nat] /\ accounts' \subseteq Nat /\ serial' \in Nat
<1>1. \A l \in Labs : s.row[l].token \in Nat
  BY DEF Snapshots, Row
<1> QED BY <1>1 DEF TypeOK, Reconciled, Tokens, Rendered, Visible

\* Leaving the chain keeps chain and snapshots typed.
LEMMA LeaveTypes ==
  ASSUME TypeOK, NEW p \in Procs, Leave(p)
  PROVE  ahead' \in [Procs -> SUBSET Procs] /\ snap' \in [Procs -> Snapshots]
BY SnapshotTypes DEF TypeOK, Leave

\* A failing call keeps types.
LEMMA FailTypes ==
  ASSUME TypeOK, NEW p \in Procs, Fail(p)
  PROVE  /\ ahead' \in [Procs -> SUBSET Procs] /\ snap' \in [Procs -> Snapshots]
         /\ task' \in [Procs -> Tasks] /\ clean' \in BOOLEAN
<1>1. "terminate" \in Pcs
  BY DEF Pcs
<1> QED BY <1>1, TaskTypes, LeaveTypes DEF Fail

\* A returning call keeps types.
LEMMA ReturnTypes ==
  ASSUME TypeOK, NEW p \in Procs, Return(p)
  PROVE  /\ ahead' \in [Procs -> SUBSET Procs] /\ snap' \in [Procs -> Snapshots]
         /\ task' \in [Procs -> Tasks]
<1>1. {"link", "terminate"} \subseteq Pcs
  BY DEF Pcs
<1> QED BY <1>1, TaskTypes, LeaveTypes DEF Return

\* Row operations keep types.
LEMMA AsideTypes ==
  ASSUME TypeOK, LabsAreKnown, NEW p \in Procs, Aside(p)
  PROVE  TypeOK'
<1> USE DEF vars, rows, jdbc, gateway, local, history
<1>pc. {"idle", "ensure", "mint", "call", "link", "clear", "terminate", "updated",
        "drift"} \subseteq Pcs
  BY DEF Pcs
<1>job. {"redeem", "provision", "destroy", "power", "sync", "reconcile"} \subseteq Jobs
  BY DEF Jobs
<1>1. ASSUME NEW l \in Labs, Redeem(p, l)  PROVE TypeOK'
  BY <1>1, <1>pc, <1>job, TaskTypes DEF Redeem, TypeOK
<1>2. ASSUME NEW l \in Labs, ProvisionReady(p, l)  PROVE TypeOK'
  BY <1>2, <1>pc, <1>job, TaskTypes, RowTypes DEF ProvisionReady, TypeOK, Commit
<1>3. ASSUME NEW l \in Labs, DestroyReads(p, l)  PROVE TypeOK'
  BY <1>3, <1>pc, <1>job, TaskTypes DEF DestroyReads, TypeOK
<1>4. ASSUME NEW l \in Labs, ResumeDrifts(p, l)  PROVE TypeOK'
  BY <1>4, <1>pc, <1>job, TaskTypes, RowTypes DEF ResumeDrifts, TypeOK, Commit
<1>5. ASSUME NEW l \in Labs, ReconcilerSyncs(p, l)  PROVE TypeOK'
  <2>1. task' \in [Procs -> Tasks]
    <3>1. \A b \in BOOLEAN : [task[p] EXCEPT !.owed = b] \in Tasks
      BY DEF TypeOK, Tasks
    <3>2. (task[p].owed \/ l \in task[p].seen) \in BOOLEAN
      BY DEF TypeOK, Tasks
    <3> QED BY <1>5, <3>1, <3>2, TaskTypes DEF ReconcilerSyncs
  <2> QED BY <1>5, <2>1, RowTypes DEF ReconcilerSyncs, TypeOK, Commit
<1>6. ASSUME EnsureReads(p)  PROVE TypeOK'
  <2>1. task[p].lab \in Labs
    BY <1>6 DEF EnsureReads, LabsAreKnown, KnowsItsLab, At
  <2>2. db[task[p].lab].token \in Nat
    BY <2>1 DEF TypeOK, Row
  <2>3. task' \in [Procs -> Tasks]
    <3>0. task[p] \in Tasks
      BY DEF TypeOK
    <3>1. ASSUME NEW pc \in Pcs, NEW n \in Nat
          PROVE  [task[p] EXCEPT !.pc = pc, !.token = n] \in Tasks
      BY <3>0 DEF Tasks
    <3> QED BY <1>6, <2>2, <1>pc, <3>1, TaskTypes DEF EnsureReads
  <2> QED BY <1>6, <2>3 DEF EnsureReads, TypeOK
<1>7. ASSUME MintCredentials(p)  PROVE TypeOK'
  <2>1. task[p].lab \in Labs
    BY <1>7 DEF MintCredentials, LabsAreKnown, KnowsItsLab, At
  <2>2. task' \in [Procs -> Tasks]
    <3>0. task[p] \in Tasks /\ "call" \in Pcs
      BY <1>pc DEF TypeOK
    <3>1. ASSUME NEW n \in Nat
          PROVE  [task[p] EXCEPT !.pc = "call", !.token = n] \in Tasks
      BY <3>0 DEF Tasks
    <3>2. version + 1 \in Nat
      BY DEF TypeOK
    <3> QED BY <1>7, <3>1, <3>2, TaskTypes DEF MintCredentials
  <2> QED BY <1>7, <2>1, <2>2, RowTypes DEF MintCredentials, TypeOK, Commit
<1>8. ASSUME ClearCredentials(p)  PROVE TypeOK'
  <2>1. task[p].lab \in Labs
    BY <1>8 DEF ClearCredentials, LabsAreKnown, KnowsItsLab, At
  <2> QED BY <1>8, <2>1, <1>pc, TaskTypes, RowTypes DEF ClearCredentials, TypeOK, Commit
<1>9. ASSUME Terminate(p)  PROVE TypeOK'
  <2>1. task[p].lab \in Labs
    BY <1>9 DEF Terminate, LabsAreKnown, KnowsItsLab, At
  <2> QED BY <1>9, <2>1, TaskTypes, RowTypes DEF Terminate, TypeOK, Commit
<1>10. ASSUME PowerEnds(p)  PROVE TypeOK'
  <2>1. task[p].lab \in Labs
    BY <1>10 DEF PowerEnds, LabsAreKnown, KnowsItsLab, At
  <2> QED BY <1>10, <2>1, <1>pc, TaskTypes, RowTypes DEF PowerEnds, TypeOK, Commit
<1>11. ASSUME Resync(p)  PROVE TypeOK'
  BY <1>11, <1>pc, <1>job, TaskTypes DEF Resync, TypeOK
<1>12. ASSUME Link(p)  PROVE TypeOK'
  <2>1. task[p].lab \in Labs /\ task[p].token \in Nat
    BY <1>12 DEF Link, LabsAreKnown, KnowsItsLab, At, TypeOK, Tasks
  <2> QED BY <1>12, <2>1, TaskTypes DEF Link, TypeOK
<1>13. ASSUME ReconcilerLists(p)  PROVE TypeOK'
  <2>1. [NoTask EXCEPT !.pc = "drift", !.job = "reconcile",
           !.seen = {l \in Labs : db[l].live /\ db[l].token # 0}] \in Tasks
    BY <1>pc, <1>job, TaskTypes DEF Tasks
  <2> QED BY <1>13, <2>1 DEF ReconcilerLists, TypeOK
<1>14. ASSUME ReconcilerEnds(p)  PROVE TypeOK'
  BY <1>14, <1>pc, TaskTypes DEF ReconcilerEnds, TypeOK
<1>15. ASSUME NEW l \in Labs, PrewarmReady(p, l)  PROVE TypeOK'
  BY <1>15, RowTypes DEF PrewarmReady, TypeOK, Commit
<1>16. ASSUME NEW l \in Labs, PowerBegins(p, l)  PROVE TypeOK'
  BY <1>16, <1>pc, <1>job, TaskTypes DEF PowerBegins, TypeOK
<1> QED
  BY <1>1, <1>2, <1>3, <1>4, <1>5, <1>6, <1>7, <1>8, <1>9, <1>10, <1>11, <1>12,
     <1>13, <1>14, <1>15, <1>16 DEF Aside

\* Every step keeps types.
LEMMA TypeStep ==
  ASSUME TypeOK, LabsAreKnown, [Next]_vars
  PROVE  TypeOK'
<1> USE DEF vars, rows, jdbc, gateway, local, history
<1>pc. {"queue", "select", "dial", "connect", "write", "jdbc"} \subseteq Pcs
  BY DEF Pcs, Chained, Inside
<1>1. ASSUME NEW p \in Procs, Aside(p)  PROVE TypeOK'
  BY <1>1, AsideTypes
<1>2. ASSUME NEW p \in Procs, Call(p)  PROVE TypeOK'
  <2>1. task' \in [Procs -> Tasks]
    <3>1. [task[p] EXCEPT !.pc = "queue", !.stamp = version] \in Tasks
      <4>1. task[p] \in Tasks /\ version \in Nat /\ "queue" \in Pcs
        BY <1>pc DEF TypeOK
      <4> QED BY <4>1 DEF Tasks
    <3> QED BY <1>2, <3>1, TaskTypes DEF Call
  <2>2. ahead' \in [Procs -> SUBSET Procs]
    BY <1>2 DEF Call, TypeOK, InChain
  <2> QED BY <1>2, <2>1, <2>2 DEF Call, TypeOK
<1>3. ASSUME NEW p \in Procs, TakeSnapshot(p)  PROVE TypeOK'
  <2>1. task' \in [Procs -> Tasks]
    BY <1>3, <1>pc, TaskTypes DEF TakeSnapshot
  <2>2. snap[p] \in Snapshots /\ snap[p].host \in BOOLEAN
    BY DEF TypeOK, Snapshots
  <2>3. [Now EXCEPT !.host = snap[p].host] \in Snapshots
    BY <2>2, SnapshotTypes
  <2>4. snap' \in [Procs -> Snapshots]
    BY <1>3, <2>3 DEF TakeSnapshot, TypeOK
  <2> QED BY <1>3, <2>1, <2>4 DEF TakeSnapshot, TypeOK
<1>r. ASSUME NEW p \in Procs, ReadConfig(p)  PROVE TypeOK'
  <2>1. task' \in [Procs -> Tasks]
    BY <1>r, <1>pc, TaskTypes DEF ReadConfig
  <2>2. snap' \in [Procs -> Snapshots]
    <3>1. [snap[p] EXCEPT !.host = host] \in Snapshots
      BY SnapshotTypes DEF TypeOK
    <3> QED BY <1>r, <3>1 DEF ReadConfig, TypeOK
  <2> QED BY <1>r, <2>1, <2>2 DEF ReadConfig, TypeOK
<1>4. ASSUME NEW p \in Procs, GoesOn(p)  PROVE TypeOK'
  BY <1>4, <1>pc, TaskTypes
     DEF GoesOn, ReuseConnection, Dial, Connect, WriteLands, TypeOK
<1>5. ASSUME NEW p \in Procs, Fails(p)  PROVE TypeOK'
  BY <1>5, FailTypes DEF Fails, ConnectFails, KeyUnreadable, WriteFails, TypeOK
<1>6. ASSUME NEW p \in Procs, Syncs(p)  PROVE TypeOK'
  <2>1. conn' \in [Labs -> Nat] /\ accounts' \subseteq Nat /\ serial' \in Nat
    BY <1>6, JdbcTypes DEF Syncs, SyncJdbc, SyncFails, TypeOK
  <2> QED BY <1>6, <2>1, ReturnTypes DEF Syncs, SyncJdbc, SyncFails, TypeOK
<1>7. ASSUME Configure  PROVE TypeOK'
  BY <1>7 DEF Configure, TypeOK
<1>8. ASSUME Restart  PROVE TypeOK'
  <2>1. conn' \in [Labs -> Nat] /\ accounts' \subseteq Nat /\ serial' \in Nat
    BY <1>8, JdbcTypes DEF Restart, TypeOK
  <2>2. file' \in Snapshots /\ snap' \in [Procs -> Snapshots]
    BY <1>8, SnapshotTypes DEF Restart, TypeOK
  <2>3. task' \in [Procs -> Tasks] /\ ahead' \in [Procs -> SUBSET Procs]
    <3>1. NoTask \in Tasks
      BY DEF NoTask, Tasks, Pcs, Jobs
    <3> QED BY <1>8, <3>1 DEF Restart
  <2>4. crashes' \in 0..MaxCrashes
    BY <1>8, MappingAssumption DEF Restart, TypeOK
  <2> QED BY <1>8, <2>1, <2>2, <2>3, <2>4 DEF Restart, TypeOK
<1>9. ASSUME UNCHANGED vars  PROVE TypeOK'
  BY <1>9 DEF TypeOK
<1> QED
  BY <1>1, <1>2, <1>3, <1>r, <1>4, <1>5, <1>6, <1>7, <1>8, <1>9, StepKinds

-----------------------------------------------------------------------------
(* How the tasks move *)

\* Only p moves, and not into or out of the chain.
Alone(p) == \A q \in Procs : q # p => task'[q] = task[q]

\* What the three ways to write `task` mean for p.
LEMMA Moves ==
  ASSUME TypeOK, NEW p \in Procs
  PROVE  /\ \A pc : Goto(p, pc) =>
              Alone(p) /\ task'[p] = [task[p] EXCEPT !.pc = pc] /\ task'[p].pc = pc
         /\ \A t : task' = [task EXCEPT ![p] = t] => Alone(p) /\ task'[p] = t
         /\ \A pc, job, l : Begin(p, pc, job, l) =>
              Alone(p) /\ task[p].pc = "idle" /\ task'[p].pc = pc
<1>1. task[p] \in Tasks
  BY DEF TypeOK
<1>2. ASSUME NEW pc, Goto(p, pc)
      PROVE  Alone(p) /\ task'[p] = [task[p] EXCEPT !.pc = pc] /\ task'[p].pc = pc
  BY <1>1, <1>2 DEF Goto, Alone, TypeOK, Tasks
<1>3. ASSUME NEW t, task' = [task EXCEPT ![p] = t]
      PROVE  Alone(p) /\ task'[p] = t
  BY <1>3 DEF Alone, TypeOK
<1>4. ASSUME NEW pc, NEW job, NEW l, Begin(p, pc, job, l)
      PROVE  Alone(p) /\ task[p].pc = "idle" /\ task'[p].pc = pc
  BY <1>3, <1>4 DEF Begin, At, NoTask
<1> QED BY <1>2, <1>3, <1>4

\* The two reads of the call whose turn it is.
LEMMA ReadMoves ==
  ASSUME TypeOK, NEW p \in Procs
  PROVE  /\ ReadConfig(p) =>
              /\ Alone(p) /\ UNCHANGED <<rows, file, conn, accounts, ahead, history>>
              /\ task[p].pc = "queue" /\ ahead[p] = {}
              /\ task'[p] = [task[p] EXCEPT !.pc = "select"] /\ task'[p].pc = "select"
              /\ \A q \in Procs \ {p} : snap'[q] = snap[q]
         /\ TakeSnapshot(p) =>
              /\ Alone(p) /\ UNCHANGED <<rows, file, conn, accounts, ahead, history>>
              /\ task[p].pc = "select"
              /\ task'[p] = [task[p] EXCEPT !.pc = "dial"] /\ task'[p].pc = "dial"
              /\ snap'[p].row = db /\ snap'[p].version = version
              /\ \A q \in Procs \ {p} : snap'[q] = snap[q]
         /\ ReadConfig(p) \/ TakeSnapshot(p) =>
              /\ task'[p].stamp = task[p].stamp /\ task'[p].lab = task[p].lab
              /\ task'[p].token = task[p].token /\ task'[p].job = task[p].job
<1>1. ASSUME ReadConfig(p)
      PROVE  /\ Alone(p) /\ UNCHANGED <<rows, file, conn, accounts, ahead, history>>
             /\ task[p].pc = "queue" /\ ahead[p] = {}
             /\ task'[p] = [task[p] EXCEPT !.pc = "select"] /\ task'[p].pc = "select"
             /\ \A q \in Procs \ {p} : snap'[q] = snap[q]
  BY <1>1, Moves DEF ReadConfig, At, Turn, gateway, jdbc, TypeOK
<1>2. ASSUME TakeSnapshot(p)
      PROVE  /\ Alone(p) /\ UNCHANGED <<rows, file, conn, accounts, ahead, history>>
             /\ task[p].pc = "select"
             /\ task'[p] = [task[p] EXCEPT !.pc = "dial"] /\ task'[p].pc = "dial"
             /\ snap'[p].row = db /\ snap'[p].version = version
             /\ \A q \in Procs \ {p} : snap'[q] = snap[q]
  BY <1>2, Moves DEF TakeSnapshot, At, Now, gateway, jdbc, TypeOK
<1>3. \A pc : task'[p] = [task[p] EXCEPT !.pc = pc] =>
        /\ task'[p].stamp = task[p].stamp /\ task'[p].lab = task[p].lab
        /\ task'[p].token = task[p].token /\ task'[p].job = task[p].job
  BY DEF TypeOK, Tasks
<1> QED BY <1>1, <1>2, <1>3

\* A row operation moves its own task outside the chain, and nothing on the gateway.
LEMMA AsideMoves ==
  ASSUME TypeOK, NEW p \in Procs, Aside(p)
  PROVE  /\ Alone(p) /\ UNCHANGED <<file, conn, accounts, snap, ahead>>
         /\ task[p].pc \notin Chained /\ task'[p].pc \notin Chained
<1> USE DEF rows, jdbc, gateway, local, history, At, NoTask, Chained, Inside
<1> DEFINE Moved == /\ Alone(p) /\ UNCHANGED <<file, conn, accounts, snap, ahead>>
                    /\ task[p].pc \notin Chained /\ task'[p].pc \notin Chained
<1>0. task[p] \in Tasks
  BY DEF TypeOK
<1>m. /\ \A pc : Goto(p, pc) => Alone(p) /\ task'[p].pc = pc
      /\ \A t : task' = [task EXCEPT ![p] = t] => Alone(p) /\ task'[p] = t
      /\ \A pc, job, l : Begin(p, pc, job, l) =>
           Alone(p) /\ task[p].pc = "idle" /\ task'[p].pc = pc
  BY Moves
<1>e. \A pc, n : [task[p] EXCEPT !.pc = pc, !.token = n].pc = pc
  BY <1>0 DEF Tasks
<1>1. ASSUME NEW l \in Labs, Redeem(p, l)  PROVE Moved
  BY <1>m, <1>1 DEF Redeem
<1>2. ASSUME NEW l \in Labs, ProvisionReady(p, l)  PROVE Moved
  BY <1>m, <1>2 DEF ProvisionReady
<1>3. ASSUME NEW l \in Labs, DestroyReads(p, l)  PROVE Moved
  BY <1>m, <1>3 DEF DestroyReads
<1>4. ASSUME NEW l \in Labs, ResumeDrifts(p, l)  PROVE Moved
  BY <1>m, <1>4 DEF ResumeDrifts
<1>5. ASSUME NEW l \in Labs, ReconcilerSyncs(p, l)  PROVE Moved
  <2>1. PICK b : task' = [task EXCEPT ![p] = [task[p] EXCEPT !.owed = b]]
    BY <1>5 DEF ReconcilerSyncs
  <2>2. Alone(p) /\ task'[p] = [task[p] EXCEPT !.owed = b]
    BY <2>1, <1>m
  <2>3. task'[p].pc = task[p].pc
    BY <2>2, <1>0 DEF Tasks
  <2> QED BY <1>5, <2>2, <2>3 DEF ReconcilerSyncs
<1>6. ASSUME EnsureReads(p)  PROVE Moved
  <2> DEFINE n == db[task[p].lab].token
             pc == IF n # 0 THEN "call" ELSE "mint"
  <2>1. task' = [task EXCEPT ![p] = [task[p] EXCEPT !.pc = pc, !.token = n]]
    BY <1>6 DEF EnsureReads
  <2>2. Alone(p) /\ task'[p] = [task[p] EXCEPT !.pc = pc, !.token = n]
    <3> HIDE DEF n, pc
    <3> QED BY <2>1, <1>m
  <2>3. task'[p].pc = pc
    <3> HIDE DEF n, pc
    <3> QED BY <2>2, <1>e
  <2>4. task[p].pc = "ensure" /\ UNCHANGED <<gateway, snap, ahead>>
    BY <1>6 DEF EnsureReads
  <2> QED BY <2>2, <2>3, <2>4
<1>7. ASSUME MintCredentials(p)  PROVE Moved
  <2>1. PICK n :
          task' = [task EXCEPT ![p] = [task[p] EXCEPT !.pc = "call", !.token = n]]
    BY <1>7 DEF MintCredentials
  <2>2. Alone(p) /\ task'[p].pc = "call"
    BY <2>1, <1>m, <1>e
  <2> QED BY <1>7, <2>2 DEF MintCredentials
<1>8. ASSUME ClearCredentials(p)  PROVE Moved
  <2>1. Goto(p, "call") /\ task[p].pc = "clear"
    BY <1>8 DEF ClearCredentials
  <2> QED BY <1>8, <1>m, <2>1 DEF ClearCredentials
<1>9. ASSUME Terminate(p)  PROVE Moved
  <2>1. task' = [task EXCEPT ![p] = NoTask] /\ task[p].pc = "terminate"
    BY <1>9 DEF Terminate
  <2>2. UNCHANGED <<gateway, snap, ahead>>
    BY <1>9 DEF Terminate
  <2>3. Alone(p) /\ task'[p] = NoTask
    <3> HIDE DEF NoTask
    <3> QED BY <1>m, <2>1
  <2> QED BY <2>1, <2>2, <2>3
<1>10. ASSUME PowerEnds(p)  PROVE Moved
  BY <1>m, <1>10 DEF PowerEnds
<1>11. ASSUME Resync(p)  PROVE Moved
  BY <1>m, <1>11 DEF Resync
<1>12. ASSUME Link(p)  PROVE Moved
  <2>1. task' = [task EXCEPT ![p] = NoTask] /\ task[p].pc = "link"
    BY <1>12 DEF Link
  <2>2. UNCHANGED <<gateway, snap, ahead>>
    BY <1>12 DEF Link
  <2>3. Alone(p) /\ task'[p] = NoTask
    <3> HIDE DEF NoTask
    <3> QED BY <1>m, <2>1
  <2> QED BY <2>1, <2>2, <2>3
<1>13. ASSUME ReconcilerLists(p)  PROVE Moved
  <2>1. PICK S : task' = [task EXCEPT ![p] = [NoTask EXCEPT
                     !.pc = "drift", !.job = "reconcile", !.seen = S]]
    BY <1>13 DEF ReconcilerLists
  <2>2. Alone(p) /\ task'[p] = [NoTask EXCEPT
                     !.pc = "drift", !.job = "reconcile", !.seen = S]
    BY <2>1, <1>m
  <2>3. task'[p].pc = "drift"
    BY <2>2
  <2> QED BY <1>13, <2>2, <2>3 DEF ReconcilerLists
<1>14. ASSUME ReconcilerEnds(p)  PROVE Moved
  <2>1. Goto(p, "call") \/ task' = [task EXCEPT ![p] = NoTask]
    BY <1>14 DEF ReconcilerEnds
  <2> QED BY <1>14, <1>m, <2>1 DEF ReconcilerEnds
<1>15. ASSUME NEW l \in Labs, PrewarmReady(p, l)  PROVE Moved
  BY <1>15 DEF PrewarmReady, Alone
<1>16. ASSUME NEW l \in Labs, PowerBegins(p, l)  PROVE Moved
  BY <1>m, <1>16 DEF PowerBegins
<1> QED
  BY <1>1, <1>2, <1>3, <1>4, <1>5, <1>6, <1>7, <1>8, <1>9, <1>10, <1>11, <1>12,
     <1>13, <1>14, <1>15, <1>16 DEF Aside

\* The call at work stays at work.
LEMMA GoesOnMoves ==
  ASSUME TypeOK, NEW p \in Procs, GoesOn(p)
  PROVE  /\ Alone(p) /\ UNCHANGED <<rows, conn, accounts, snap, ahead, given, disturbed>>
         /\ task[p].pc \in {"dial", "connect", "write"}
         /\ \E pc \in {"connect", "write", "jdbc"} :
               /\ task'[p] = [task[p] EXCEPT !.pc = pc]
               /\ IF pc = "jdbc" THEN file' = snap[p] ELSE file' = file
BY Moves DEF GoesOn, ReuseConnection, Dial, Connect, WriteLands, rows, jdbc,
             gateway, local, history, At

\* A call that fails leaves the chain, the file as it was or as it meant to
\* write it.
LEMMA FailsMoves ==
  ASSUME TypeOK, NEW p \in Procs, Fails(p)
  PROVE  /\ Alone(p) /\ Leave(p)
         /\ UNCHANGED <<rows, conn, accounts, given, disturbed>>
         /\ task[p].pc \in {"connect", "write"} /\ task'[p].pc \in {"idle", "terminate"}
         /\ \/ task'[p] = NoTask
            \/ /\ task[p].job = "destroy" /\ task'[p].pc = "terminate"
               /\ task'[p] = [task[p] EXCEPT !.pc = "terminate"]
         /\ file' = file \/ (task[p].pc = "write" /\ file' = snap[p])
<1>1. Fail(p)
  BY DEF Fails, ConnectFails, KeyUnreadable, WriteFails
<1>2. /\ UNCHANGED <<rows, conn, accounts, given, disturbed>>
      /\ task[p].pc \in {"connect", "write"}
      /\ file' = file \/ (task[p].pc = "write" /\ file' = snap[p])
  BY DEF Fails, ConnectFails, KeyUnreadable, WriteFails, rows, jdbc, gateway, At
<1>3. /\ Alone(p)
      /\ \/ task'[p] = NoTask
         \/ /\ task[p].job = "destroy" /\ task'[p].pc = "terminate"
            /\ task'[p] = [task[p] EXCEPT !.pc = "terminate"]
  BY <1>1, Moves DEF Fail
<1> QED BY <1>1, <1>2, <1>3 DEF Fail, NoTask

\* A call that synced leaves the chain, a redeem for the redirect.
LEMMA SyncsMoves ==
  ASSUME TypeOK, NEW p \in Procs, Syncs(p)
  PROVE  /\ Alone(p) /\ Leave(p) /\ UNCHANGED <<rows, file, given, disturbed>>
         /\ task[p].pc = "jdbc" /\ task'[p].pc \in {"idle", "link", "terminate"}
         /\ UNCHANGED <<conn, accounts>> \/ Reconciled(snap[p])
         /\ \/ task'[p] = NoTask
            \/ /\ task[p].job = "redeem" /\ task'[p].pc = "link"
               /\ task'[p] = [task[p] EXCEPT !.pc = "link"]
            \/ /\ task[p].job = "destroy" /\ task'[p].pc = "terminate"
               /\ task'[p] = [task[p] EXCEPT !.pc = "terminate"]
<1>1. Return(p)
  BY DEF Syncs, SyncJdbc, SyncFails
<1>2. /\ UNCHANGED <<rows, file, given, disturbed>> /\ task[p].pc = "jdbc"
      /\ UNCHANGED <<conn, accounts>> \/ Reconciled(snap[p])
  BY DEF Syncs, SyncJdbc, SyncFails, rows, jdbc, history, At
<1>3. /\ Alone(p)
      /\ \/ task'[p] = NoTask
         \/ /\ task[p].job = "redeem" /\ task'[p].pc = "link"
            /\ task'[p] = [task[p] EXCEPT !.pc = "link"]
         \/ /\ task[p].job = "destroy" /\ task'[p].pc = "terminate"
            /\ task'[p] = [task[p] EXCEPT !.pc = "terminate"]
  BY <1>1, Moves DEF Return
<1> QED BY <1>1, <1>2, <1>3 DEF Return, NoTask

-----------------------------------------------------------------------------
(* The chain *)

\* At most one call is at work.
LEMMA OneAtWork ==
  ASSUME ChainIsOrdered, NEW p \in Procs, NEW q \in Procs,
         task[p].pc \in Inside, task[q].pc \in Inside
  PROVE  p = q
BY DEF ChainIsOrdered, InChain, Chained, Inside

\* Every step keeps the chain ordered: a call joins behind all, the one at work leaves.
LEMMA ChainStep ==
  ASSUME TypeOK, ChainIsOrdered, [Next]_vars
  PROVE  ChainIsOrdered'
<1>1. ASSUME NEW p \in Procs, Aside(p)  PROVE ChainIsOrdered'
  BY <1>1, AsideMoves DEF ChainIsOrdered, InChain, Chained, Inside, Alone
<1>2. ASSUME NEW p \in Procs, Call(p)  PROVE ChainIsOrdered'
  <2>1. /\ Alone(p) /\ task[p].pc = "call" /\ task'[p].pc = "queue"
        /\ ahead' = [ahead EXCEPT ![p] = InChain]
    BY <1>2 DEF Call, Alone, At, TypeOK, Tasks
  <2>2. p \notin InChain /\ InChain' = InChain \cup {p}
    BY <2>1 DEF InChain, Chained, Inside, Alone
  <2> QED BY <2>1, <2>2 DEF ChainIsOrdered, Alone, TypeOK, InChain
<1>3. ASSUME NEW p \in Procs, TakeSnapshot(p)  PROVE ChainIsOrdered'
  <2>1. /\ Alone(p) /\ task[p].pc = "select" /\ task'[p].pc = "dial" /\ ahead' = ahead
    BY <1>3, ReadMoves
  <2>2. InChain' = InChain
    BY <2>1 DEF InChain, Chained, Inside, Alone
  <2> QED BY <2>1, <2>2 DEF ChainIsOrdered, Alone
<1>r. ASSUME NEW p \in Procs, ReadConfig(p)  PROVE ChainIsOrdered'
  <2>1. /\ Alone(p) /\ task[p].pc = "queue" /\ task'[p].pc = "select"
        /\ ahead' = ahead /\ ahead[p] = {}
    BY <1>r, ReadMoves
  <2>2. InChain' = InChain
    BY <2>1 DEF InChain, Chained, Inside, Alone
  <2> QED BY <2>1, <2>2 DEF ChainIsOrdered, Alone
<1>4. ASSUME NEW p \in Procs, GoesOn(p)  PROVE ChainIsOrdered'
  <2>1. /\ Alone(p) /\ task[p].pc \in Inside /\ task'[p].pc \in Inside
        /\ ahead' = ahead
    <3>1. task[p] \in Tasks
      BY DEF TypeOK
    <3> QED BY <1>4, <3>1, GoesOnMoves DEF Inside, Tasks
  <2>2. InChain' = InChain
    BY <2>1 DEF InChain, Chained, Alone
  <2> QED BY <2>1, <2>2 DEF ChainIsOrdered, Alone, Inside
<1>5. ASSUME NEW p \in Procs, Fails(p) \/ Syncs(p)  PROVE ChainIsOrdered'
  <2>1. /\ Alone(p) /\ task[p].pc \in Inside /\ task'[p].pc \notin Chained
        /\ ahead' = [q \in Procs |-> ahead[q] \ {p}]
    <3>1. CASE Fails(p)
      BY <3>1, FailsMoves DEF Inside, Chained, Leave
    <3>2. CASE Syncs(p)
      BY <3>2, SyncsMoves DEF Inside, Chained, Leave
    <3> QED BY <1>5, <3>1, <3>2
  <2>2. InChain' = InChain \ {p}
    BY <2>1 DEF InChain, Chained, Alone
  <2>3. \A q \in Procs : ahead'[q] = ahead[q] \ {p}
    BY <2>1
  <2>4. \A q \in Procs : task'[q].pc # "queue" => ahead'[q] = {}
    BY <2>1, <2>3 DEF ChainIsOrdered, Alone, Inside
  <2>5. \A q \in Procs : ahead'[q] \subseteq InChain'
    BY <2>2, <2>3 DEF ChainIsOrdered
  <2>6. \A q, r \in InChain' : q # r => q \in ahead'[r] \/ r \in ahead'[q]
    BY <2>2, <2>3 DEF ChainIsOrdered, InChain
  <2> QED BY <2>4, <2>5, <2>6 DEF ChainIsOrdered
<1>6. ASSUME Configure \/ UNCHANGED vars  PROVE ChainIsOrdered'
  BY <1>6 DEF Configure, vars, local, ChainIsOrdered, InChain
<1>7. ASSUME Restart  PROVE ChainIsOrdered'
  BY <1>7 DEF Restart, NoTask, ChainIsOrdered, InChain, Chained, Inside
<1> QED BY <1>1, <1>2, <1>3, <1>r, <1>4, <1>5, <1>6, <1>7, StepKinds

-----------------------------------------------------------------------------
(* The chain has a head *)

\* What a step does to the chain: nothing, a call joins it at its end, the one
\* at work leaves it, or a restart forgets it.
LEMMA ChainMoves ==
  ASSUME TypeOK, [Next]_vars
  PROVE  \/ InChain' = InChain /\ ahead' = ahead
         \/ \E p \in Procs \ InChain : /\ InChain' = InChain \cup {p}
                                       /\ ahead' = [ahead EXCEPT ![p] = InChain]
         \/ \E p \in InChain : /\ InChain' = InChain \ {p}
                               /\ ahead' = [q \in Procs |-> ahead[q] \ {p}]
         \/ InChain' = {}
<1> DEFINE Same == InChain' = InChain /\ ahead' = ahead
<1>1. ASSUME NEW p \in Procs, Aside(p)  PROVE Same
  BY <1>1, AsideMoves DEF InChain, Chained, Inside, Alone
<1>2. ASSUME NEW p \in Procs, Call(p)
      PROVE  /\ p \notin InChain /\ InChain' = InChain \cup {p}
             /\ ahead' = [ahead EXCEPT ![p] = InChain]
  <2>1. /\ Alone(p) /\ task[p].pc = "call" /\ task'[p].pc = "queue"
        /\ ahead' = [ahead EXCEPT ![p] = InChain]
    BY <1>2 DEF Call, Alone, At, TypeOK, Tasks
  <2> QED BY <2>1 DEF InChain, Chained, Inside, Alone
<1>3. ASSUME NEW p \in Procs, ReadConfig(p) \/ TakeSnapshot(p)  PROVE Same
  <2>1. /\ Alone(p) /\ ahead' = ahead
        /\ {task[p].pc, task'[p].pc} \subseteq {"queue", "select", "dial"}
    BY <1>3, ReadMoves
  <2> QED BY <2>1 DEF InChain, Chained, Inside, Alone
<1>4. ASSUME NEW p \in Procs, GoesOn(p)  PROVE Same
  <2>1. task[p] \in Tasks
    BY DEF TypeOK
  <2>2. Alone(p) /\ task[p].pc \in Inside /\ task'[p].pc \in Inside /\ ahead' = ahead
    BY <1>4, <2>1, GoesOnMoves DEF Inside, Tasks
  <2> QED BY <2>2 DEF InChain, Chained, Alone
<1>5. ASSUME NEW p \in Procs, Fails(p) \/ Syncs(p)
      PROVE  /\ p \in InChain /\ InChain' = InChain \ {p}
             /\ ahead' = [q \in Procs |-> ahead[q] \ {p}]
  <2>1. /\ Alone(p) /\ task[p].pc \in Inside /\ task'[p].pc \notin Chained
        /\ ahead' = [q \in Procs |-> ahead[q] \ {p}]
    <3>1. CASE Fails(p)
      BY <3>1, FailsMoves DEF Inside, Chained, Leave
    <3>2. CASE Syncs(p)
      BY <3>2, SyncsMoves DEF Inside, Chained, Leave
    <3> QED BY <1>5, <3>1, <3>2
  <2> QED BY <2>1 DEF InChain, Chained, Alone
<1>6. ASSUME Configure \/ UNCHANGED vars  PROVE Same
  BY <1>6 DEF Configure, vars, local, InChain
<1>7. ASSUME Restart  PROVE InChain' = {}
  BY <1>7 DEF Restart, NoTask, InChain, Chained, Inside
<1> HIDE DEF Same
<1>8. Same => InChain' = InChain /\ ahead' = ahead
  BY DEF Same
<1> QED BY <1>1, <1>2, <1>3, <1>4, <1>5, <1>6, <1>7, <1>8, StepKinds, Zenon

LEMMA LineStep ==
  ASSUME TypeOK, ChainIsOrdered, ChainIsALine, [Next]_vars
  PROVE  ChainIsALine'
<1> USE DEF ChainIsALine
<1>0. ahead \in [Procs -> SUBSET Procs] /\ InChain \subseteq Procs
  BY DEF TypeOK, InChain
<1>1. ASSUME InChain' = InChain, ahead' = ahead  PROVE ChainIsALine'
  BY <1>1
<1>2. ASSUME NEW p \in Procs \ InChain, InChain' = InChain \cup {p},
             ahead' = [ahead EXCEPT ![p] = InChain]
      PROVE  ChainIsALine'
  <2>1. IsFiniteSet(InChain')
    BY <1>2, FS_AddElement
  <2>2. ahead'[p] = InChain /\ \A q \in InChain : ahead'[q] = ahead[q]
    BY <1>0, <1>2
  <2>3. \A q \in InChain : ahead[q] \subseteq InChain
    BY <1>0 DEF ChainIsOrdered
  <2>4. \A q \in InChain' : q \notin ahead'[q]
    BY <1>2, <2>2
  <2>5. \A q, r \in InChain' : q \in ahead'[r] => ahead'[q] \subseteq ahead'[r]
    BY <1>2, <2>2, <2>3
  <2> QED BY <2>1, <2>4, <2>5
<1>3. ASSUME NEW p \in InChain, InChain' = InChain \ {p},
             ahead' = [q \in Procs |-> ahead[q] \ {p}]
      PROVE  ChainIsALine'
  <2>1. IsFiniteSet(InChain')
    BY <1>3, FS_RemoveElement
  <2>2. \A q \in InChain : ahead'[q] = ahead[q] \ {p}
    BY <1>0, <1>3
  <2> QED BY <1>3, <2>1, <2>2
<1>4. ASSUME InChain' = {}  PROVE ChainIsALine'
  BY <1>4, FS_EmptySet
<1> QED BY <1>1, <1>2, <1>3, <1>4, ChainMoves

\* A call with fewest before it has none before it.
LEMMA HeadOfLine ==
  ASSUME TypeOK, ChainIsOrdered, ChainIsALine
  PROVE  ChainHasHead
<1> SUFFICES ASSUME InChain # {}
             PROVE  \E p \in InChain : Turn(p) /\ \A q \in InChain \ {p} : p \in ahead[q]
  BY DEF ChainHasHead
<1> DEFINE before(p) == Cardinality(ahead[p])
           Counts == {before(p) : p \in InChain}
<1>1. \A p \in InChain : ahead[p] \subseteq InChain
  BY DEF ChainIsOrdered, InChain
<1>2. \A p \in InChain : IsFiniteSet(ahead[p]) /\ before(p) \in Nat
  BY <1>1, FS_Subset, FS_CardinalityType DEF ChainIsALine
<1>3. ASSUME NEW p \in InChain, NEW q \in ahead[p]  PROVE q \in InChain /\ before(q) < before(p)
  <2>1. q \in InChain /\ ahead[q] \subseteq ahead[p] /\ q \notin ahead[q]
    BY <1>1 DEF ChainIsALine
  <2>2. ahead[q] # ahead[p] /\ IsFiniteSet(ahead[p]) /\ before(p) \in Nat /\ before(q) \in Nat
    BY <1>2, <2>1
  <2>3. before(q) <= before(p) /\ (before(q) = before(p) => ahead[q] = ahead[p])
    BY <2>1, <2>2, FS_Subset
  <2> QED BY <2>1, <2>2, <2>3
<1>4. \E n \in Counts : \A m \in Counts : ~(m < n)
  <2>1. Counts \subseteq Nat /\ Counts # {}
    BY <1>2
  <2> HIDE DEF Counts
  <2>2. PICK n \in Counts : \A m \in Counts : <<m, n>> \notin OpToRel(<, Nat)
    BY <2>1, NatLessThanWellFounded, WFMin
  <2> QED BY <2>1, <2>2 DEF OpToRel
<1>5. PICK p \in InChain : \A q \in InChain : ~(before(q) < before(p))
  BY <1>4
<1>6. ahead[p] = {}
  BY <1>3, <1>5
<1> QED BY <1>5, <1>6 DEF ChainIsOrdered, Turn

-----------------------------------------------------------------------------
(* What row operations do *)

\* A row operation takes its task from one operation's place to another's.
LEMMA AsideKnows ==
  ASSUME TypeOK, LabsAreKnown, NEW p \in Procs, Aside(p)
  PROVE  KnowsItsLab(task'[p]) /\ task'[p].pc # "link"
<1> USE DEF KnowsItsLab
<1> DEFINE Good == KnowsItsLab(task'[p]) /\ task'[p].pc # "link"
<1>0. task[p] \in Tasks /\ KnowsItsLab(task[p])
  BY DEF TypeOK, LabsAreKnown
<1>1. ASSUME task' = [task EXCEPT ![p] = NoTask]  PROVE Good
  <2>1. task'[p] = NoTask
    BY <1>1, Moves
  <2> QED BY <2>1 DEF NoTask
<1>2. ASSUME NEW l \in Labs, NEW job \in {"redeem", "provision"},
             Begin(p, "ensure", job, l)
      PROVE  Good
  <2>1. task'[p] = [NoTask EXCEPT !.pc = "ensure", !.job = job, !.lab = l]
    BY <1>2, Moves DEF Begin
  <2> QED BY <2>1 DEF NoTask
<1>3. ASSUME NEW l \in Labs, NEW pc \in {"clear", "terminate"},
             Begin(p, pc, "destroy", l)
      PROVE  Good
  <2>1. task'[p] = [NoTask EXCEPT !.pc = pc, !.job = "destroy", !.lab = l]
    BY <1>3, Moves DEF Begin
  <2> QED BY <2>1 DEF NoTask
<1>4. ASSUME NEW l \in Labs, NEW job \in {"power", "sync"},
             Begin(p, "updated", job, l)
      PROVE  Good
  <2>1. task'[p] = [NoTask EXCEPT !.pc = "updated", !.job = job, !.lab = l]
    BY <1>4, Moves DEF Begin
  <2> QED BY <2>1 DEF NoTask
<1>5. ASSUME Begin(p, "call", "sync", NoLab)  PROVE Good
  <2>1. task'[p] = [NoTask EXCEPT !.pc = "call", !.job = "sync", !.lab = NoLab]
    BY <1>5, Moves DEF Begin
  <2> QED BY <2>1 DEF NoTask
<1>6. ASSUME Goto(p, "call")  PROVE Good
  <2>1. task'[p] = [task[p] EXCEPT !.pc = "call"]
    BY <1>6, Moves
  <2> QED BY <1>0, <2>1 DEF Tasks
<1>7. ASSUME NEW S, task' = [task EXCEPT ![p] = [NoTask EXCEPT
                     !.pc = "drift", !.job = "reconcile", !.seen = S]]
      PROVE  Good
  <2>1. task'[p] = [NoTask EXCEPT !.pc = "drift", !.job = "reconcile", !.seen = S]
    BY <1>7, Moves
  <2> QED BY <2>1 DEF NoTask
<1>8. ASSUME NEW b, task[p].pc = "drift",
             task' = [task EXCEPT ![p] = [task[p] EXCEPT !.owed = b]]
      PROVE  Good
  <2>1. task'[p] = [task[p] EXCEPT !.owed = b]
    BY <1>8, Moves
  <2> QED BY <1>0, <1>8, <2>1 DEF Tasks
<1>10. ASSUME NEW l \in Labs, \/ Redeem(p, l) \/ ProvisionReady(p, l)
                              \/ DestroyReads(p, l) \/ ResumeDrifts(p, l)
                              \/ PowerBegins(p, l)
       PROVE  Good
  BY <1>2, <1>3, <1>4, <1>10 DEF Redeem, ProvisionReady, DestroyReads, ResumeDrifts,
     PowerBegins
<1>11. ASSUME NEW l \in Labs, ReconcilerSyncs(p, l)  PROVE Good
  BY <1>8, <1>11 DEF ReconcilerSyncs, At
<1>12. ASSUME EnsureReads(p)  PROVE Good
  <2> DEFINE n == db[task[p].lab].token
             pc == IF n # 0 THEN "call" ELSE "mint"
  <2>1. task' = [task EXCEPT ![p] = [task[p] EXCEPT !.pc = pc, !.token = n]]
    BY <1>12 DEF EnsureReads
  <2>2. task[p].pc = "ensure"
    BY <1>12 DEF EnsureReads, At
  <2>3. task'[p] = [task[p] EXCEPT !.pc = pc, !.token = n]
    <3> HIDE DEF pc, n
    <3> QED BY <2>1 DEF TypeOK
  <2>4. /\ task'[p].pc = pc /\ task'[p].job = task[p].job
        /\ task'[p].lab = task[p].lab
    <3> HIDE DEF pc, n
    <3> QED BY <1>0, <2>3 DEF Tasks
  <2> QED BY <1>0, <2>2, <2>4
<1>13. ASSUME MintCredentials(p)  PROVE Good
  <2>1. task' = [task EXCEPT ![p] =
                  [task[p] EXCEPT !.pc = "call", !.token = version + 1]]
    BY <1>13 DEF MintCredentials
  <2>2. task[p].pc = "mint"
    BY <1>13 DEF MintCredentials, At
  <2>3. task'[p] = [task[p] EXCEPT !.pc = "call", !.token = version + 1]
    BY <2>1, Moves
  <2> QED BY <1>0, <2>2, <2>3 DEF Tasks
<1>14. ASSUME \/ ClearCredentials(p) \/ Terminate(p) \/ PowerEnds(p) \/ Resync(p)
              \/ Link(p) \/ ReconcilerEnds(p)
       PROVE  Good
  BY <1>1, <1>5, <1>6, <1>14 DEF ClearCredentials, Terminate, PowerEnds, Resync, Link,
     ReconcilerEnds
<1>15. ASSUME ReconcilerLists(p)  PROVE Good
  BY <1>7, <1>15 DEF ReconcilerLists
<1>16. ASSUME NEW l \in Labs, PrewarmReady(p, l)  PROVE Good
  <2>1. task'[p] = task[p] /\ task[p].pc = "idle"
    BY <1>16 DEF PrewarmReady, At, local
  <2> QED BY <1>0, <2>1
<1> QED BY <1>10, <1>11, <1>12, <1>13, <1>14, <1>15, <1>16 DEF Aside

\* Every step keeps what operations know of their labs.
LEMMA LabsStep ==
  ASSUME TypeOK, LabsAreKnown, [Next]_vars
  PROVE  LabsAreKnown'
<1> USE DEF LabsAreKnown, KnowsItsLab, Alone
<1>0. \A p \in Procs : task[p] \in Tasks
  BY DEF TypeOK
<1>1. ASSUME NEW p \in Procs, Aside(p)  PROVE LabsAreKnown'
  BY <1>1, AsideMoves, AsideKnows
<1>2. ASSUME NEW p \in Procs, Call(p)  PROVE LabsAreKnown'
  <2>1. Alone(p) /\ task'[p] = [task[p] EXCEPT !.pc = "queue", !.stamp = version]
    BY <1>2, Moves DEF Call
  <2>2. KnowsItsLab(task'[p])
    BY <1>0, <2>1 DEF Tasks
  <2> QED BY <2>1, <2>2
<1>3. ASSUME NEW p \in Procs, ReadConfig(p) \/ TakeSnapshot(p)  PROVE LabsAreKnown'
  <2>1. Alone(p) /\ \E pc \in {"select", "dial"} : task'[p] = [task[p] EXCEPT !.pc = pc]
    BY <1>3, ReadMoves
  <2>2. KnowsItsLab(task'[p])
    BY <1>0, <2>1 DEF Tasks
  <2> QED BY <2>1, <2>2
<1>4. ASSUME NEW p \in Procs, GoesOn(p)  PROVE LabsAreKnown'
  <2>1. Alone(p) /\ \E pc \in {"connect", "write", "jdbc"} :
                      task'[p] = [task[p] EXCEPT !.pc = pc]
    BY <1>4, GoesOnMoves
  <2>2. KnowsItsLab(task'[p])
    BY <1>0, <2>1 DEF Tasks
  <2> QED BY <2>1, <2>2
<1>5. ASSUME NEW p \in Procs, Fails(p) \/ Syncs(p)  PROVE LabsAreKnown'
  <2>1. /\ Alone(p)
        /\ \/ task'[p] = NoTask
           \/ task[p].job = "redeem" /\ task'[p] = [task[p] EXCEPT !.pc = "link"]
           \/ task[p].job = "destroy"
                /\ task'[p] = [task[p] EXCEPT !.pc = "terminate"]
    BY <1>5, FailsMoves, SyncsMoves
  <2>2. KnowsItsLab(task'[p])
    BY <1>0, <2>1 DEF Tasks, NoTask
  <2> QED BY <2>1, <2>2
<1>6. ASSUME Configure \/ UNCHANGED vars  PROVE LabsAreKnown'
  BY <1>6 DEF Configure, vars, local
<1>7. ASSUME Restart  PROVE LabsAreKnown'
  BY <1>7 DEF Restart, NoTask
<1> QED BY <1>1, <1>2, <1>3, <1>4, <1>5, <1>6, <1>7, StepKinds

-----------------------------------------------------------------------------
(* Versions *)

\* Commits count up.
LEMMA Commits ==
  ASSUME TypeOK, NEW l, NEW r, Commit(l, r)
  PROVE  version <= version' /\ version' \in Nat
BY DEF TypeOK, Commit

\* Row operations count commits up.
LEMMA AsideVersion ==
  ASSUME TypeOK, NEW p \in Procs, Aside(p)
  PROVE  version <= version' /\ version' \in Nat
<1>1. UNCHANGED version \/ \E l, r : Commit(l, r)
  BY DEF Aside, Redeem, ProvisionReady, PrewarmReady, DestroyReads, PowerBegins,
     ResumeDrifts, ReconcilerSyncs, EnsureReads, MintCredentials, ClearCredentials, Terminate, PowerEnds, Resync, Link,
     ReconcilerLists, ReconcilerEnds, rows
<1> QED BY <1>1, Commits DEF TypeOK

\* Every step keeps the versions ordered: only the one call at work writes the file.
LEMMA VersionsStep ==
  ASSUME TypeOK, LabsAreKnown, ChainIsOrdered, VersionsAreOrdered, [Next]_vars
  PROVE  VersionsAreOrdered'
<1> USE DEF VersionsAreOrdered, VersionsOf, Alone
<1>0. /\ \A p \in Procs : task[p] \in Tasks /\ task[p].stamp \in Nat
      /\ version \in Nat /\ file.version \in Nat
      /\ \A p \in Procs : snap[p].version \in Nat
      /\ DOMAIN task = Procs
  BY DEF TypeOK, Tasks, Snapshots
<1>1. ASSUME NEW p \in Procs, Aside(p)  PROVE VersionsAreOrdered'
  <2>1. version <= version' /\ version' \in Nat
    BY <1>1, AsideVersion
  <2>2. /\ Alone(p) /\ UNCHANGED <<file, snap>>
        /\ task'[p].pc \notin Chained /\ task'[p].pc # "link"
    BY <1>1, AsideMoves, AsideKnows
  <2> QED BY <1>0, <2>1, <2>2 DEF Chained, Inside
<1>2. ASSUME NEW p \in Procs, Call(p)  PROVE VersionsAreOrdered'
  <2>0. task' = [task EXCEPT ![p] = [task[p] EXCEPT !.pc = "queue", !.stamp = version]]
    BY <1>2 DEF Call
  <2>1. Alone(p) /\ task'[p] = [task[p] EXCEPT !.pc = "queue", !.stamp = version]
    BY <1>0, <2>0
  <2>2. task'[p].pc = "queue" /\ task'[p].stamp = version
    BY <1>0, <2>1 DEF Tasks
  <2>3. UNCHANGED <<file, snap, version>>
    BY <1>2 DEF Call, gateway, rows
  <2>4. \A q \in Procs : q # p => VersionsOf(q)'
    BY <2>1, <2>3
  <2>5. VersionsOf(p)'
    BY <1>0, <2>2, <2>3 DEF Chained, Inside
  <2> QED BY <2>3, <2>4, <2>5
<1>3. ASSUME NEW p \in Procs, TakeSnapshot(p)  PROVE VersionsAreOrdered'
  <2>1. Alone(p) /\ task'[p] = [task[p] EXCEPT !.pc = "dial"]
    BY <1>3, ReadMoves
  <2>2. task[p].pc = "select" /\ task'[p].pc = "dial" /\ task'[p].stamp = task[p].stamp
    BY <1>3, ReadMoves
  <2>3. /\ UNCHANGED <<file, version>>
        /\ snap'[p].version = version /\ \A q \in Procs \ {p} : snap'[q] = snap[q]
    BY <1>3, ReadMoves DEF rows
  <2>4. \A q \in Procs : q # p => VersionsOf(q)'
    BY <2>1, <2>3
  <2>5. VersionsOf(p)'
    BY <1>0, <2>2, <2>3 DEF Chained, Inside
  <2> QED BY <2>3, <2>4, <2>5
<1>r. ASSUME NEW p \in Procs, ReadConfig(p)  PROVE VersionsAreOrdered'
  <2>1. Alone(p) /\ task'[p] = [task[p] EXCEPT !.pc = "select"]
    BY <1>r, ReadMoves
  <2>2. task[p].pc = "queue" /\ task'[p].pc = "select" /\ task'[p].stamp = task[p].stamp
    BY <1>r, ReadMoves
  <2>3. UNCHANGED <<file, version>> /\ \A q \in Procs \ {p} : snap'[q] = snap[q]
    BY <1>r, ReadMoves DEF rows
  <2>4. \A q \in Procs : q # p => VersionsOf(q)'
    BY <2>1, <2>3
  <2>5. VersionsOf(p)'
    BY <1>0, <2>2, <2>3 DEF Chained, Inside
  <2> QED BY <2>3, <2>4, <2>5
<1>4. ASSUME NEW p \in Procs, GoesOn(p)  PROVE VersionsAreOrdered'
  <2>1. PICK pc \in {"connect", "write", "jdbc"} :
          /\ task'[p] = [task[p] EXCEPT !.pc = pc]
          /\ IF pc = "jdbc" THEN file' = snap[p] ELSE file' = file
    BY <1>4, GoesOnMoves
  <2>2. task'[p].pc = pc /\ task'[p].stamp = task[p].stamp
    BY <1>0, <2>1 DEF Tasks
  <2>3. /\ UNCHANGED <<version, snap>> /\ Alone(p) /\ task[p].pc \in Inside
    BY <1>4, GoesOnMoves DEF rows, Inside
  <2>4. \A q \in Procs : q # p => task'[q].pc \notin Inside
    BY <2>3, OneAtWork
  <2>5. file.version <= file'.version /\ file'.version <= version
    BY <1>0, <2>1, <2>3 DEF Inside
  <2>6. file'.version \in Nat
    BY <1>0, <2>1
  <2>7. \A q \in Procs : q # p => VersionsOf(q)'
    BY <1>0, <2>3, <2>4, <2>5, <2>6 DEF Inside
  <2>8. VersionsOf(p)'
    BY <1>0, <2>1, <2>2, <2>3, <2>5 DEF Chained, Inside
  <2> QED BY <2>3, <2>5, <2>7, <2>8
<1>5. ASSUME NEW p \in Procs, Fails(p) \/ Syncs(p)  PROVE VersionsAreOrdered'
  <2>1. /\ Alone(p) /\ UNCHANGED version /\ task[p].pc \in Inside
        /\ task'[p].pc \notin Chained
    BY <1>5, FailsMoves, SyncsMoves DEF Inside, Chained, rows
  <2>2. \A q \in Procs : q # p => task'[q].pc \notin Inside
    BY <2>1, OneAtWork
  <2>3. file.version <= file'.version /\ file'.version <= version /\ file'.version \in Nat
    <3>1. file' = file \/ file' = snap[p]
      BY <1>5, FailsMoves, SyncsMoves
    <3>2. file.version <= snap[p].version /\ snap[p].version <= version
      BY <2>1
    <3> QED BY <1>0, <2>1, <3>1, <3>2
  <2>4. task'[p].pc = "link" => task'[p].stamp <= file'.version
    <3>1. ASSUME Syncs(p)  PROVE file' = snap[p]
      BY <3>1, SyncsMoves
    <3>2. ASSUME Syncs(p), task'[p].pc = "link"
          PROVE  task'[p].stamp = task[p].stamp
      <4>1. task'[p] = [task[p] EXCEPT !.pc = "link"]
        <5>1. NoTask.pc # "link"
          BY DEF NoTask
        <5> QED BY <3>2, <5>1, SyncsMoves
      <4> QED BY <1>0, <4>1 DEF Tasks
    <3>3. Fails(p) => task'[p].pc # "link"
      BY FailsMoves
    <3> QED BY <1>5, <2>1, <3>1, <3>2, <3>3
  <2> QED BY <1>0, <2>1, <2>2, <2>3, <2>4 DEF Chained, Inside
<1>6. ASSUME Configure  PROVE VersionsAreOrdered'
  BY <1>0, <1>6 DEF Configure, gateway, local
<1>7. ASSUME Restart  PROVE VersionsAreOrdered'
  BY <1>0, <1>7 DEF Restart, NoTask, Chained, Inside, At, rows
<1>8. ASSUME UNCHANGED vars  PROVE VersionsAreOrdered'
  BY <1>8 DEF vars, rows, gateway, local
<1> QED BY <1>1, <1>2, <1>3, <1>r, <1>4, <1>5, <1>6, <1>7, <1>8, StepKinds

-----------------------------------------------------------------------------
(* Credentials *)

\* What a row operation does to the credentials of a lab it leaves undisturbed:
\* at most it gives a lab without credentials its first ones, and one that has
\* ensured credentials holds those of the row.
RowKept(p, l) ==
  /\ db[l].live => db'[l].live
  /\ db'[l].token = db[l].token \/ db[l].token = 0
  /\ Ensured(p)' /\ task'[p].lab = l =>
       task'[p].token = db'[l].token /\ task'[p].token # 0

\* Every row operation keeps rows in that sense, and lets no lab recover.
LEMMA AsideRows ==
  ASSUME TypeOK, LabsAreKnown, NEW p \in Procs, Aside(p)
  PROVE  disturbed \subseteq disturbed' /\ \A l \in Undisturbed' : RowKept(p, l)
<1> DEFINE Good == /\ disturbed \subseteq disturbed'
                   /\ \A l \in Undisturbed' : RowKept(p, l)
<1>0. /\ task[p] \in Tasks /\ KnowsItsLab(task[p]) /\ version \in Nat
      /\ \A l \in Labs : db[l] \in Row
      /\ DOMAIN db = Labs
  BY DEF TypeOK, LabsAreKnown
\* Only a call of redeem or provision has ensured credentials.
<1>1. task'[p].pc # "call" \/ task'[p].job \notin {"redeem", "provision"} => ~Ensured(p)'
  <2>1. task'[p].pc \notin Chained /\ task'[p].pc # "link"
    BY AsideMoves, AsideKnows
  <2> QED BY <2>1 DEF Ensured
<1>2. ASSUME UNCHANGED <<db, disturbed>>, ~Ensured(p)'  PROVE Good
  BY <1>2 DEF RowKept
<1>3. ASSUME NEW l \in Labs, NEW n, Commit(l, [db[l] EXCEPT !.port = n]),
             UNCHANGED disturbed, ~Ensured(p)'
      PROVE  Good
  BY <1>0, <1>3 DEF RowKept, Commit, Row, Undisturbed
<1>4. ASSUME NEW l \in Labs, Redeem(p, l)  PROVE Good
  <2>1. task'[p].pc = "ensure"
    BY <1>4, Moves DEF Redeem
  <2> QED BY <1>1, <1>2, <1>4, <2>1 DEF Redeem, rows, history
<1>5. ASSUME NEW l \in Labs, ProvisionReady(p, l)  PROVE Good
  <2>1. task'[p].pc = "ensure"
    BY <1>5, Moves DEF ProvisionReady
  <2> QED BY <1>1, <1>3, <1>5, <2>1 DEF ProvisionReady, history
<1>6. ASSUME NEW l \in Labs, DestroyReads(p, l)  PROVE Good
  <2>1. task'[p].pc \in {"clear", "terminate"}
    BY <1>6, Moves DEF DestroyReads
  <2> QED BY <1>1, <1>2, <1>6, <2>1 DEF DestroyReads, rows, history
<1>7. ASSUME NEW l \in Labs, ResumeDrifts(p, l)  PROVE Good
  <2>1. task'[p].pc = "updated"
    BY <1>7, Moves DEF ResumeDrifts
  <2> QED BY <1>1, <1>3, <1>7, <2>1 DEF ResumeDrifts, history
<1>8. ASSUME NEW l \in Labs, ReconcilerSyncs(p, l)  PROVE Good
  <2>1. PICK b : task' = [task EXCEPT ![p] = [task[p] EXCEPT !.owed = b]]
    BY <1>8 DEF ReconcilerSyncs
  <2>2. task'[p] = [task[p] EXCEPT !.owed = b]
    BY <2>1, Moves
  <2>3. task'[p].pc = "drift"
    BY <1>0, <1>8, <2>2 DEF ReconcilerSyncs, At, Tasks
  <2> QED BY <1>1, <1>3, <1>8, <2>3 DEF ReconcilerSyncs
<1>9. ASSUME EnsureReads(p)  PROVE Good
  <2> DEFINE t == db[task[p].lab].token
  <2>1. task' = [task EXCEPT ![p] =
          [task[p] EXCEPT !.pc = IF t # 0 THEN "call" ELSE "mint", !.token = t]]
    BY <1>9 DEF EnsureReads
  <2>2. task'[p] = [task[p] EXCEPT !.pc = IF t # 0 THEN "call" ELSE "mint", !.token = t]
    <3> HIDE DEF t
    <3> QED BY <2>1 DEF TypeOK
  <2>3. /\ task'[p].token = t /\ task'[p].lab = task[p].lab
        /\ t = 0 => task'[p].pc = "mint"
    BY <1>0, <2>2 DEF Tasks
  <2>4. UNCHANGED <<db, disturbed>>
    BY <1>9 DEF EnsureReads, rows, history
  <2>5. t = 0 => ~Ensured(p)'
    BY <1>1, <2>3
  <2> QED BY <2>3, <2>4, <2>5 DEF RowKept
<1>10. ASSUME MintCredentials(p)  PROVE Good
  <2> DEFINE k == task[p].lab
  <2>1. task'[p] = [task[p] EXCEPT !.pc = "call", !.token = version + 1]
    <3>1. task' = [task EXCEPT ![p] =
                    [task[p] EXCEPT !.pc = "call", !.token = version + 1]]
      BY <1>10 DEF MintCredentials
    <3> QED BY <3>1, Moves
  <2>2. task'[p].token = version + 1 /\ task'[p].lab = k
    BY <1>0, <2>1 DEF Tasks
  <2>3. k \in Labs
    BY <1>0, <1>10 DEF MintCredentials, At, KnowsItsLab
  <2>4. /\ disturbed' = disturbed \cup IF db[k].token # 0 THEN {k} ELSE {}
        /\ db' = [db EXCEPT ![k] = [db[k] EXCEPT !.token = version + 1]]
    BY <1>10 DEF MintCredentials, Commit
  <2>5. db'[k].token = version + 1 /\ db'[k].live = db[k].live
    BY <1>0, <2>3, <2>4 DEF Row
  <2>6. \A l \in Labs : l # k => db'[l] = db[l]
    BY <1>0, <2>4
  <2>7. k \in Undisturbed' => db[k].token = 0
    BY <2>4 DEF Undisturbed
  <2>8. version + 1 # 0
    BY <1>0
  <2>9. k \in Undisturbed' => RowKept(p, k)
    BY <2>2, <2>5, <2>7, <2>8 DEF RowKept
  <2>10. \A l \in Labs : l # k => RowKept(p, l)
    BY <2>2, <2>6 DEF RowKept
  <2> QED BY <2>4, <2>9, <2>10 DEF Undisturbed
<1>11. ASSUME ClearCredentials(p) \/ Terminate(p)  PROVE Good
  <2> DEFINE k == task[p].lab
  <2>1. ~Ensured(p)'
    <3>1. CASE ClearCredentials(p)
      <4>1. task'[p] = [task[p] EXCEPT !.pc = "call"] /\ task[p].job = "destroy"
        BY <1>0, <3>1, Moves DEF ClearCredentials, At, KnowsItsLab
      <4>2. task'[p].job = "destroy"
        BY <1>0, <4>1 DEF Tasks
      <4> QED BY <1>1, <4>2
    <3>2. CASE Terminate(p)
      <4>1. task'[p] = NoTask
        BY <3>2, Moves DEF Terminate
      <4> QED BY <1>1, <4>1 DEF NoTask
    <3> QED BY <1>11, <3>1, <3>2
  <2>2. disturbed' = disturbed \cup {k} /\ \E r : db' = [db EXCEPT ![k] = r]
    BY <1>11 DEF ClearCredentials, Terminate, Commit
  <2>3. \A l \in Undisturbed' : db'[l] = db[l]
    BY <1>0, <2>2 DEF Undisturbed
  <2> QED BY <2>1, <2>2, <2>3 DEF RowKept
<1>12. ASSUME PowerEnds(p) \/ ReconcilerEnds(p)  PROVE Good
  <2>1. UNCHANGED disturbed /\ task[p].job \notin {"redeem", "provision"}
    BY <1>0, <1>12 DEF PowerEnds, ReconcilerEnds, history, At, KnowsItsLab
  <2>2. task'[p] = NoTask \/ task'[p] = [task[p] EXCEPT !.pc = "call"]
    BY <1>12, Moves DEF PowerEnds, ReconcilerEnds
  <2>3. ~Ensured(p)'
    <3>1. task'[p].job \notin {"redeem", "provision"}
      BY <1>0, <2>1, <2>2 DEF NoTask, Tasks
    <3> QED BY <1>1, <3>1
  <2>4. UNCHANGED db \/ \E l : db' = [db EXCEPT ![l] = [db[l] EXCEPT !.live = TRUE]]
    BY <1>12 DEF PowerEnds, ReconcilerEnds, Commit, rows
  <2>5. \A l \in Labs : (db[l].live => db'[l].live) /\ db'[l].token = db[l].token
    BY <1>0, <2>4 DEF Row
  <2> QED BY <2>1, <2>3, <2>5 DEF RowKept, Undisturbed
<1>13. ASSUME Resync(p)  PROVE Good
  <2>1. task'[p] = [NoTask EXCEPT !.pc = "call", !.job = "sync", !.lab = NoLab]
    BY <1>13, Moves DEF Resync, Begin
  <2>2. task'[p].job = "sync"
    BY <2>1 DEF NoTask
  <2> QED BY <1>1, <1>2, <1>13, <2>2 DEF Resync, rows, history
<1>14. ASSUME Link(p)  PROVE Good
  <2>1. task'[p] = NoTask
    BY <1>14, Moves DEF Link
  <2>2. task'[p].pc = "idle"
    BY <2>1 DEF NoTask
  <2> QED BY <1>1, <1>2, <1>14, <2>2 DEF Link, rows
<1>15. ASSUME ReconcilerLists(p)  PROVE Good
  <2>1. PICK S : task' = [task EXCEPT ![p] = [NoTask EXCEPT
                     !.pc = "drift", !.job = "reconcile", !.seen = S]]
    BY <1>15 DEF ReconcilerLists
  <2>2. task'[p] = [NoTask EXCEPT !.pc = "drift", !.job = "reconcile", !.seen = S]
    BY <2>1, Moves
  <2>3. task'[p].pc = "drift"
    BY <2>2 DEF NoTask
  <2> QED BY <1>1, <1>2, <1>15, <2>3 DEF ReconcilerLists, rows, history
<1>16. ASSUME NEW l \in Labs, PrewarmReady(p, l)  PROVE Good
  <2>1. task'[p].pc = "idle"
    BY <1>16 DEF PrewarmReady, At, local
  <2> QED BY <1>1, <1>3, <1>16, <2>1 DEF PrewarmReady, history
<1>17. ASSUME NEW l \in Labs, PowerBegins(p, l)  PROVE Good
  <2>1. task'[p].pc = "updated"
    BY <1>17, Moves DEF PowerBegins
  <2> QED BY <1>1, <1>2, <1>17, <2>1 DEF PowerBegins, rows, history
<1> QED
  BY <1>4, <1>5, <1>6, <1>7, <1>8, <1>9, <1>10, <1>11, <1>12, <1>13, <1>14, <1>15,
     <1>16, <1>17 DEF Aside

\* One whose task and snapshot stay holds what it held, unless the file changes
\* under it.
LEMMA HoldsOn ==
  ASSUME NEW q \in Procs, NEW l \in Labs, HoldsCredentials(q, l), UNCHANGED db,
         task'[q] = task[q], snap'[q] = snap[q] \/ task[q].pc \notin Inside,
         file' = file \/ (task[q].pc \notin Inside /\
                          (task[q].pc = "link" /\ task[q].lab = l => file'.row[l].token = db[l].token))
  PROVE  HoldsCredentials(q, l)'
<1>1. Ensured(q)' <=> Ensured(q)
  BY DEF Ensured
<1>2. CASE file' = file
  BY <1>1, <1>2 DEF HoldsCredentials
<1>3. CASE task[q].pc \notin Inside /\
           (task[q].pc = "link" /\ task[q].lab = l => file'.row[l].token = db[l].token)
  BY <1>1, <1>3 DEF HoldsCredentials
<1> QED BY <1>2, <1>3

\* So a step keeps what is said of the credentials of undisturbed labs.
LEMMA CredentialsStep ==
  ASSUME TypeOK, LabsAreKnown, ChainIsOrdered, VersionsAreOrdered,
         CredentialsAreStable, [Next]_vars
  PROVE  CredentialsAreStable'
<1> USE DEF CredentialsAreStable, CredentialsOf
<1>0. /\ \A p \in Procs : task[p] \in Tasks /\ KnowsItsLab(task[p])
      /\ \A p \in Procs : VersionsOf(p)
  BY DEF TypeOK, LabsAreKnown, VersionsAreOrdered
<1>i. "link" \notin Chained /\ "idle" \notin Chained /\ "terminate" \notin Chained
  BY DEF Chained, Inside
\* The redirect holds ensured credentials.
<1>e. \A p \in Procs : task[p].pc = "link" => Ensured(p)
  BY <1>0 DEF KnowsItsLab, Ensured
<1>1. ASSUME NEW p \in Procs, Aside(p)  PROVE CredentialsAreStable'
  <2>1. /\ Alone(p) /\ UNCHANGED <<file, snap>>
        /\ task'[p].pc \notin Chained /\ task'[p].pc # "link"
    BY <1>1, AsideMoves, AsideKnows
  <2>2. \A l \in Undisturbed' : l \in Undisturbed /\ RowKept(p, l)
    BY <1>1, AsideRows DEF Undisturbed
  <2> SUFFICES ASSUME NEW l \in Undisturbed'
               PROVE  CredentialsOf(l)'
    OBVIOUS
  <2>3. CredentialsOf(l) /\ RowKept(p, l)
    BY <2>2
  <2>4. ASSUME NEW q \in Procs, q # p  PROVE HoldsCredentials(q, l)'
    <3>1. task'[q] = task[q] /\ (Ensured(q)' <=> Ensured(q))
      BY <2>1, <2>4 DEF Alone, Ensured
    <3>2. HoldsCredentials(q, l)
      BY <2>3
    <3>3. CASE db'[l].token = db[l].token
      BY <2>1, <3>1, <3>2, <3>3 DEF HoldsCredentials
    <3>4. CASE db[l].token = 0
      <4>1. ~(Ensured(q) /\ task[q].lab = l)
        BY <3>2, <3>4 DEF HoldsCredentials
      <4>2. file.row[l].token = 0
        BY <2>3, <3>4
      <4>3. task[q].pc # "link" \/ task[q].lab # l
        BY <1>e, <4>1
      <4> QED BY <2>1, <3>1, <3>2, <3>4, <4>1, <4>2, <4>3 DEF HoldsCredentials
    <3> QED BY <2>3, <3>3, <3>4 DEF RowKept
  <2>5. HoldsCredentials(p, l)'
    BY <2>1, <2>3 DEF HoldsCredentials, RowKept, Chained
  <2>6. db'[l].live /\ file'.row[l].live /\ file'.row[l].token \in {0, db'[l].token}
    BY <2>1, <2>3 DEF RowKept
  <2> QED BY <2>4, <2>5, <2>6
<1>2. ASSUME NEW p \in Procs, Call(p)  PROVE CredentialsAreStable'
  <2>1. Alone(p) /\ task'[p] = [task[p] EXCEPT !.pc = "queue", !.stamp = version]
    BY <1>2, Moves DEF Call
  <2>2. /\ task[p].pc = "call" /\ task'[p].pc = "queue"
        /\ task'[p].lab = task[p].lab /\ task'[p].token = task[p].token
        /\ task'[p].job = task[p].job
    <3>1. task[p] \in Tasks /\ task[p].pc = "call"
      BY <1>0, <1>2 DEF Call, At
    <3> QED BY <2>1, <3>1 DEF Tasks
  <2>3. UNCHANGED <<db, file, snap, disturbed>>
    BY <1>2 DEF Call, gateway, rows, history
  <2>4. \A q \in Procs : Ensured(q)' <=> Ensured(q)
    BY <2>1, <2>2 DEF Alone, Ensured, Chained
  <2>5. ASSUME NEW q \in Procs, NEW l \in Labs, HoldsCredentials(q, l)
        PROVE  HoldsCredentials(q, l)'
    <3>1. CASE q = p
      <4>1. task'[p].pc \notin Inside /\ task'[p].pc # "link"
        BY <2>2 DEF Inside
      <4>2. Ensured(p)' => Ensured(p)
        BY <2>4
      <4> QED BY <2>2, <2>3, <2>5, <3>1, <4>1, <4>2 DEF HoldsCredentials
    <3>2. CASE q # p
      BY <2>1, <2>3, <2>4, <2>5, <3>2 DEF Alone, HoldsCredentials
    <3> QED BY <3>1, <3>2
  <2> QED BY <2>3, <2>5 DEF Undisturbed
<1>3. ASSUME NEW p \in Procs, TakeSnapshot(p)  PROVE CredentialsAreStable'
  <2>1. Alone(p) /\ task'[p] = [task[p] EXCEPT !.pc = "dial"]
    BY <1>3, ReadMoves
  <2>2. /\ task[p].pc = "select" /\ task'[p].pc = "dial"
        /\ task'[p].lab = task[p].lab /\ task'[p].token = task[p].token
        /\ task'[p].job = task[p].job
    BY <1>3, ReadMoves
  <2>3. /\ UNCHANGED <<db, file, disturbed>>
        /\ snap'[p].row = db /\ \A q \in Procs \ {p} : snap'[q] = snap[q]
    BY <1>3, ReadMoves DEF rows, history
  <2>4. \A q \in Procs : Ensured(q)' <=> Ensured(q)
    BY <2>1, <2>2 DEF Alone, Ensured, Chained, Inside
  <2>5. \A q \in Procs \ {p}, l \in Labs :
          HoldsCredentials(q, l) => HoldsCredentials(q, l)'
    BY <2>1, <2>3, HoldsOn DEF Alone
  <2>6. \A l \in Labs : HoldsCredentials(p, l) /\ db[l].live => HoldsCredentials(p, l)'
    BY <2>2, <2>3, <2>4 DEF HoldsCredentials
  <2> QED BY <2>3, <2>5, <2>6 DEF Undisturbed
<1>r. ASSUME NEW p \in Procs, ReadConfig(p)  PROVE CredentialsAreStable'
  <2>1. Alone(p) /\ task'[p] = [task[p] EXCEPT !.pc = "select"]
    BY <1>r, ReadMoves
  <2>2. /\ task[p].pc = "queue" /\ task'[p].pc = "select"
        /\ task'[p].lab = task[p].lab /\ task'[p].token = task[p].token
        /\ task'[p].job = task[p].job
    BY <1>r, ReadMoves
  <2>3. UNCHANGED <<db, file, disturbed>> /\ \A q \in Procs \ {p} : snap'[q] = snap[q]
    BY <1>r, ReadMoves DEF rows, history
  <2>4. \A q \in Procs : Ensured(q)' <=> Ensured(q)
    BY <2>1, <2>2 DEF Alone, Ensured, Chained, Inside
  <2>5. \A q \in Procs \ {p}, l \in Labs :
          HoldsCredentials(q, l) => HoldsCredentials(q, l)'
    BY <2>1, <2>3, HoldsOn DEF Alone
  <2>6. \A l \in Labs : HoldsCredentials(p, l) => HoldsCredentials(p, l)'
    BY <2>2, <2>3, <2>4 DEF HoldsCredentials, Inside
  <2> QED BY <2>3, <2>5, <2>6 DEF Undisturbed
\* The file turns into the snapshot of the one at work; nobody else depends on
\* what it was.
<1>w. ASSUME NEW p \in Procs, task[p].pc \in Inside, NEW l \in Undisturbed
      PROVE  /\ snap[p].row[l].live /\ snap[p].row[l].token \in {0, db[l].token}
             /\ \A q \in Procs : task[q].pc = "link" /\ task[q].lab = l =>
                  snap[p].row[l].token = db[l].token
  BY <1>w DEF HoldsCredentials
<1>4. ASSUME NEW p \in Procs, GoesOn(p)  PROVE CredentialsAreStable'
  <2>1. PICK pc \in {"connect", "write", "jdbc"} :
          /\ task'[p] = [task[p] EXCEPT !.pc = pc]
          /\ IF pc = "jdbc" THEN file' = snap[p] ELSE file' = file
    BY <1>4, GoesOnMoves
  <2>2. /\ task'[p].pc = pc /\ task'[p].lab = task[p].lab
        /\ task'[p].token = task[p].token /\ task'[p].job = task[p].job
    BY <1>0, <2>1 DEF Tasks
  <2>3. /\ UNCHANGED <<db, snap, disturbed>> /\ Alone(p)
        /\ task[p].pc \in Inside /\ task'[p].pc \in Inside /\ task'[p].pc # "link"
    BY <1>4, <2>2, GoesOnMoves DEF rows, Inside
  <2>4. \A q \in Procs : q # p => task'[q] = task[q] /\ task'[q].pc \notin Inside
    BY <2>3, OneAtWork DEF Alone
  <2>5. \A q \in Procs : Ensured(q)' <=> Ensured(q)
    BY <2>2, <2>3, <2>4 DEF Ensured, Chained
  <2> SUFFICES ASSUME NEW l \in Undisturbed
               PROVE  CredentialsOf(l)'
    BY <2>3 DEF Undisturbed
  <2>6. file'.row[l].live /\ file'.row[l].token \in {0, db[l].token}
    BY <1>w, <2>1, <2>3
  <2>7. ASSUME NEW q \in Procs, q # p  PROVE HoldsCredentials(q, l)'
    <3>1. task'[q] = task[q] /\ task[q].pc \notin Inside
      BY <2>4, <2>7
    <3>2. HoldsCredentials(q, l)
      OBVIOUS
    <3>3. file' = file \/ (task[q].pc = "link" /\ task[q].lab = l => file'.row[l].token = db[l].token)
      BY <1>w, <2>1, <2>3
    <3> QED BY <2>3, <3>1, <3>2, <3>3, HoldsOn DEF Undisturbed
  <2>8. HoldsCredentials(p, l)'
    <3>1. HoldsCredentials(p, l)
      OBVIOUS
    <3>2. Ensured(p)' <=> Ensured(p)
      BY <2>5
    <3>3. file' = file \/ file' = snap[p]
      BY <2>1
    <3> QED BY <2>2, <2>3, <3>1, <3>2, <3>3 DEF HoldsCredentials
  <2> QED BY <2>3, <2>6, <2>7, <2>8
<1>5. ASSUME NEW p \in Procs, Fails(p)  PROVE CredentialsAreStable'
  <2>1. /\ UNCHANGED <<db, disturbed>> /\ Alone(p) /\ Leave(p)
        /\ task[p].pc \in Inside /\ task'[p].pc \notin Chained /\ task'[p].pc # "link"
        /\ file' \in {file, snap[p]}
    BY <1>5, <1>i, FailsMoves DEF rows, Inside
  <2>2. ~Ensured(p)'
    <3>1. task'[p] = NoTask \/ task'[p].pc = "terminate"
      BY <1>5, FailsMoves
    <3> QED BY <1>i, <3>1 DEF NoTask, Ensured
  <2>3. \A q \in Procs : q # p =>
          /\ task'[q] = task[q] /\ task'[q].pc \notin Inside
          /\ (Ensured(q)' <=> Ensured(q))
    BY <2>1, OneAtWork DEF Alone, Ensured
  <2> SUFFICES ASSUME NEW l \in Undisturbed
               PROVE  CredentialsOf(l)'
    BY <2>1 DEF Undisturbed
  <2>4. file'.row[l].live /\ file'.row[l].token \in {0, db[l].token}
    BY <1>w, <2>1
  <2>5. ASSUME NEW q \in Procs, q # p  PROVE HoldsCredentials(q, l)'
    <3>1. HoldsCredentials(q, l)
      BY <1>w
    <3>2. file.row[l].token = db[l].token => file'.row[l].token = db[l].token
      <4>1. HoldsCredentials(p, l)
        BY <1>w
      <4>2. snap[p].row[l].token \in {file.row[l].token, db[l].token}
        BY <2>1, <4>1 DEF HoldsCredentials
      <4> QED BY <2>1, <4>2
    <3>3. task'[q] = task[q] /\ task'[q].pc \notin Inside /\ (Ensured(q)' <=> Ensured(q))
      BY <2>3, <2>5
    <3> QED BY <2>1, <3>1, <3>2, <3>3 DEF HoldsCredentials
  <2>6. HoldsCredentials(p, l)'
    BY <2>1, <2>2 DEF HoldsCredentials, Chained
  <2> QED BY <2>1, <2>4, <2>5, <2>6
<1>6. ASSUME NEW p \in Procs, Syncs(p)  PROVE CredentialsAreStable'
  <2>1. /\ UNCHANGED <<db, file, disturbed>> /\ Alone(p)
        /\ task[p].pc = "jdbc" /\ task'[p].pc \notin Chained /\ file = snap[p]
    BY <1>0, <1>6, <1>i, SyncsMoves DEF rows, VersionsOf
  <2>2. task[p].pc \in Inside
    BY <2>1 DEF Inside
  <2>3. \A q \in Procs : q # p =>
          /\ task'[q] = task[q] /\ task'[q].pc \notin Inside
          /\ (Ensured(q)' <=> Ensured(q))
    BY <2>1, <2>2, OneAtWork DEF Alone, Ensured
  <2> SUFFICES ASSUME NEW l \in Undisturbed
               PROVE  CredentialsOf(l)'
    BY <2>1 DEF Undisturbed
  <2>5. ASSUME NEW q \in Procs, q # p  PROVE HoldsCredentials(q, l)'
    <3>1. HoldsCredentials(q, l)
      OBVIOUS
    <3> QED BY <2>1, <2>3, <2>5, <3>1, HoldsOn DEF Undisturbed
  <2>6. HoldsCredentials(p, l)'
    <3>1. CASE task'[p].pc # "link"
      <4>1. ~Ensured(p)'
        BY <2>1, <3>1, <1>6, SyncsMoves DEF NoTask, Ensured
      <4> QED BY <2>1, <3>1, <4>1 DEF HoldsCredentials, Chained
    <3>2. CASE task'[p].pc = "link"
      <4>1. task[p].job = "redeem" /\ task'[p] = [task[p] EXCEPT !.pc = "link"]
        <5>1. NoTask.pc # "link"
          BY DEF NoTask
        <5> QED BY <1>6, <3>2, <5>1, SyncsMoves
      <4>2. /\ task'[p].lab = task[p].lab /\ task'[p].token = task[p].token
            /\ task'[p].job = task[p].job
        BY <1>0, <4>1 DEF Tasks
      <4>3. Ensured(p) /\ Ensured(p)'
        BY <2>1, <2>2, <3>2, <4>1, <4>2 DEF Ensured, Chained
      <4>4. HoldsCredentials(p, l)
        OBVIOUS
      <4> QED BY <2>1, <2>2, <3>2, <4>2, <4>3, <4>4 DEF HoldsCredentials, Inside
    <3> QED BY <3>1, <3>2
  <2> QED BY <2>1, <2>5, <2>6
<1>7. ASSUME Configure \/ UNCHANGED vars  PROVE CredentialsAreStable'
  <2>1. UNCHANGED <<db, file, task, snap, disturbed>>
    BY <1>7 DEF Configure, vars, rows, gateway, local, history
  <2>2. ASSUME NEW l \in Undisturbed, NEW p \in Procs  PROVE HoldsCredentials(p, l)'
    BY <2>1, HoldsOn DEF Undisturbed
  <2> QED BY <2>1, <2>2 DEF Undisturbed
<1>8. ASSUME Restart  PROVE CredentialsAreStable'
  <2>1. /\ UNCHANGED <<db, disturbed>>
        /\ \A p \in Procs : task'[p] = NoTask
        /\ file' = file \/ \E p \in Procs : At(p, "write") /\ file' = snap[p]
    BY <1>8 DEF Restart, rows
  <2>2. NoTask.pc \notin Chained /\ NoTask.pc # "link" /\ NoTask.job = "none"
    BY DEF NoTask, Chained, Inside
  <2>3. \A p \in Procs, l \in Labs : HoldsCredentials(p, l)'
    BY <2>1, <2>2 DEF HoldsCredentials, Ensured, Chained
  <2>4. \A l \in Undisturbed :
          file'.row[l].live /\ file'.row[l].token \in {0, db[l].token}
    BY <1>w, <2>1 DEF At, Inside
  <2> QED BY <2>1, <2>3, <2>4 DEF Undisturbed
<1> QED BY <1>1, <1>2, <1>3, <1>r, <1>4, <1>5, <1>6, <1>7, <1>8, StepKinds

-----------------------------------------------------------------------------
(* URLs *)

\* Writing a snapshot leaves the entry of an undisturbed lab as it is, if it
\* has one.
LEMMA EntriesStay ==
  ASSUME CredentialsAreStable, NEW p \in Procs, task[p].pc \in Inside,
         NEW l \in Undisturbed, file.row[l].token # 0
  PROVE  snap[p].row[l].token = file.row[l].token
BY DEF CredentialsAreStable, CredentialsOf, HoldsCredentials

\* Reconciling with what the file shows recreates no connection and drops no
\* account behind one.
LEMMA ReconciledBacks ==
  ASSUME TypeOK, CredentialsAreStable, UrlsAreBacked, Reconciled(file),
         UNCHANGED <<file, given, disturbed>>
  PROVE  UrlsAreBacked'
<1> DEFINE s == file
<1>1. conn' = [l \in Labs |-> CASE l \notin Visible(s)                 -> 0
                               [] conn[l] = 0 /\ l \in Rendered(s) -> serial + 1
                               [] OTHER                            -> conn[l]]
  BY DEF Reconciled, Kept
<1>2. accounts' = (accounts \cap Tokens(s, Visible(s))) \cup Tokens(s, Rendered(s))
  BY DEF Reconciled, Kept
<1>3. ASSUME NEW l \in Labs, l \notin Visible(s)  PROVE conn'[l] = 0
  <2>1. l \notin Rendered(s)
    BY <1>3 DEF Rendered
  <2> QED BY <1>1, <1>3, <2>1
<1>4. \A l \in Labs : l \in Visible(s) /\ conn[l] # 0 => conn'[l] = conn[l]
  BY <1>1
<1>5. \A l \in Labs : l \in Visible(s) /\ conn[l] = 0 /\ conn'[l] # 0 => l \in Rendered(s)
  BY <1>1
<1>6. \A l \in Labs : l \in Visible(s) => s.row[l].token # 0
  BY DEF Visible
<1>7. ASSUME NEW l \in Undisturbed, conn'[l] # 0
      PROVE  file.row[l].token # 0 /\ file.row[l].token \in accounts'
  <2>1. l \in Labs /\ l \in Visible(s)
    BY <1>3, <1>7 DEF Undisturbed
  <2>2. CASE conn[l] # 0
    <3>1. s.row[l].token \in accounts
      BY <2>2, <1>7 DEF UrlsAreBacked
    <3>2. s.row[l].token \in Tokens(s, Visible(s))
      BY <2>1 DEF Tokens
    <3> QED BY <1>2, <1>6, <2>1, <3>1, <3>2
  <2>3. CASE conn[l] = 0
    <3>1. l \in Rendered(s)
      BY <1>5, <1>7, <2>1, <2>3
    <3>2. s.row[l].token \in Tokens(s, Rendered(s))
      BY <3>1 DEF Tokens
    <3> QED BY <1>2, <1>6, <2>1, <3>2
  <2> QED BY <2>2, <2>3
<1>8. ASSUME NEW g \in given, g.lab \in Undisturbed, g.id # 0
      PROVE  conn'[g.lab] = g.id
  <2>1. conn[g.lab] = g.id /\ file.row[g.lab].token # 0
    BY <1>8 DEF UrlsAreBacked
  <2>2. file.row[g.lab].live
    BY <1>8 DEF CredentialsAreStable, CredentialsOf
  <2>3. g.lab \in Visible(s)
    BY <1>8, <2>1, <2>2 DEF Visible, Undisturbed
  <2> QED BY <1>4, <1>8, <2>1, <2>3 DEF Undisturbed
<1> QED BY <1>7, <1>8 DEF UrlsAreBacked, Undisturbed

\* So a step keeps what is said of the URLs.
LEMMA UrlsStep ==
  ASSUME TypeOK, LabsAreKnown, ChainIsOrdered, VersionsAreOrdered,
         CredentialsAreStable, UrlsAreBacked, [Next]_vars
  PROVE  UrlsAreBacked'
<1>0. \A p \in Procs : VersionsOf(p) /\ KnowsItsLab(task[p])
  BY DEF VersionsAreOrdered, LabsAreKnown
<1>u. ASSUME UNCHANGED <<file, conn, accounts, given>>, disturbed \subseteq disturbed'
      PROVE  UrlsAreBacked'
  BY <1>u DEF UrlsAreBacked, Undisturbed
\* The file turns into a snapshot.
<1>w. ASSUME NEW p \in Procs, task[p].pc \in Inside, file' \in {file, snap[p]},
             UNCHANGED <<conn, accounts, given, disturbed>>
      PROVE  UrlsAreBacked'
  <2>1. \A l \in Undisturbed : file.row[l].token # 0 =>
          file'.row[l].token = file.row[l].token
    BY <1>w, EntriesStay
  <2> QED BY <1>w, <2>1 DEF UrlsAreBacked, Undisturbed
<1>1. ASSUME NEW p \in Procs, Aside(p), ~Link(p)  PROVE UrlsAreBacked'
  <2>1. UNCHANGED <<file, conn, accounts, given>> /\ disturbed \subseteq disturbed'
    <3>1. UNCHANGED given
      BY <1>1 DEF Aside, Redeem, ProvisionReady, PrewarmReady, DestroyReads,
         PowerBegins, ResumeDrifts,
         ReconcilerSyncs, EnsureReads, MintCredentials, ClearCredentials, Terminate,
         PowerEnds, Resync, ReconcilerLists, ReconcilerEnds, history
    <3> QED BY <1>1, <3>1, AsideMoves, AsideRows
  <2> QED BY <1>u, <2>1
<1>2. ASSUME NEW p \in Procs, Link(p)  PROVE UrlsAreBacked'
  <2> DEFINE g == [lab |-> task[p].lab, token |-> task[p].token,
                   id |-> conn[task[p].lab]]
  <2>1. given' = given \cup {g} /\ UNCHANGED <<file, conn, accounts, disturbed>>
    BY <1>2 DEF Link, gateway, jdbc
  <2>2. task[p].pc = "link" /\ task[p].job = "redeem" /\ task[p].lab \in Labs
    BY <1>0, <1>2 DEF Link, At, KnowsItsLab
  <2>3. task[p].lab \in Undisturbed =>
          g.token # 0 /\ file.row[g.lab].token = g.token
    BY <2>2 DEF CredentialsAreStable, CredentialsOf, HoldsCredentials, Ensured
  <2> QED BY <2>1, <2>3 DEF UrlsAreBacked, Undisturbed
<1>3. ASSUME NEW p \in Procs, Call(p) \/ ReadConfig(p) \/ TakeSnapshot(p)
      PROVE  UrlsAreBacked'
  BY <1>3, <1>u DEF Call, ReadConfig, TakeSnapshot, gateway, jdbc, history
<1>4. ASSUME NEW p \in Procs, GoesOn(p) \/ Fails(p)  PROVE UrlsAreBacked'
  <2>1. /\ UNCHANGED <<conn, accounts, given, disturbed>>
        /\ file' \in {file, snap[p]} /\ task[p].pc \in Inside
    BY <1>4, GoesOnMoves, FailsMoves DEF Inside
  <2> QED BY <1>w, <2>1
<1>5. ASSUME NEW p \in Procs, Syncs(p)  PROVE UrlsAreBacked'
  <2>1. /\ UNCHANGED <<file, given, disturbed>> /\ file = snap[p]
        /\ UNCHANGED <<conn, accounts>> \/ Reconciled(snap[p])
    BY <1>0, <1>5, SyncsMoves DEF VersionsOf
  <2> QED BY <1>u, <2>1, ReconciledBacks
<1>6. ASSUME Configure \/ UNCHANGED vars  PROVE UrlsAreBacked'
  BY <1>6, <1>u DEF Configure, vars, gateway, jdbc, history
<1>7. ASSUME Restart  PROVE UrlsAreBacked'
  <2>1. CASE UNCHANGED jdbc
    <3>1. UNCHANGED <<conn, accounts, given, disturbed>>
      BY <1>7, <2>1 DEF Restart, jdbc
    <3>2. file' = file \/ \E p \in Procs : At(p, "write") /\ file' = snap[p]
      BY <1>7 DEF Restart
    <3> QED BY <1>u, <1>w, <3>1, <3>2 DEF At, Inside
  <2>2. CASE \E p \in Procs : At(p, "jdbc") /\ Reconciled(snap[p])
    <3>1. PICK p \in Procs : At(p, "jdbc") /\ Reconciled(snap[p])
      BY <2>2
    <3>2. task[p].pc = "jdbc" /\ file = snap[p]
      BY <1>0, <3>1 DEF At, VersionsOf
    <3>3. \A q \in Procs : ~At(q, "write")
      <4>1. ASSUME NEW q \in Procs, task[q].pc = "write"  PROVE FALSE
        <5>1. p = q
          BY <3>2, <4>1, OneAtWork DEF Inside
        <5> QED BY <3>2, <4>1, <5>1
      <4> QED BY <4>1 DEF At
    <3>4. UNCHANGED <<file, given, disturbed>>
      BY <1>7, <3>3 DEF Restart
    <3> QED BY <3>1, <3>2, <3>4, ReconciledBacks
  <2> QED BY <1>7, <2>1, <2>2 DEF Restart
<1> QED BY <1>1, <1>2, <1>3, <1>4, <1>5, <1>6, <1>7, StepKinds

-----------------------------------------------------------------------------
(* The theorems *)

\* Nothing published, nothing under way.
LEMMA InitInv ==
  ASSUME Init
  PROVE  MappingInv
<1> USE MappingAssumption DEF Init
<1>0. NoTask.pc = "idle" /\ NoTask.job = "none"
  BY DEF NoTask
<1>1. TypeOK
  <2>1. Blank \in Snapshots /\ Blank.row \in [Labs -> Row]
    BY DEF Blank, Snapshots, Row
  <2>2. NoTask \in Tasks
    BY DEF NoTask, Tasks, Pcs, Jobs
  <2> QED BY <2>1, <2>2 DEF TypeOK
<1>2. ChainIsOrdered
  BY <1>0 DEF ChainIsOrdered, InChain, Chained, Inside
<1>3. LabsAreKnown
  BY <1>0 DEF LabsAreKnown, KnowsItsLab
<1>4. VersionsAreOrdered
  BY <1>0 DEF VersionsAreOrdered, VersionsOf, Chained, Inside, Blank
<1>5. CredentialsAreStable
  BY <1>0 DEF CredentialsAreStable, CredentialsOf, HoldsCredentials, Undisturbed,
              Ensured, Chained, Inside, Blank
<1>6. UrlsAreBacked
  BY DEF UrlsAreBacked, Undisturbed
<1> QED BY <1>1, <1>2, <1>3, <1>4, <1>5, <1>6 DEF MappingInv

\* Every step keeps the invariant.
LEMMA MappingStep ==
  ASSUME MappingInv, [Next]_vars
  PROVE  MappingInv'
BY TypeStep, ChainStep, LabsStep, VersionsStep, CredentialsStep, UrlsStep
   DEF MappingInv

\* The invariant holds in every reachable state, whatever the labs, the number
\* of operations in flight, the commits, the crashes and the faults.
THEOREM MappingInvariance == Spec => []MappingInv
<1>1. Init => MappingInv
  BY InitInv
<1>2. MappingInv /\ [Next]_vars => MappingInv'
  BY MappingStep
<1> QED BY <1>1, <1>2, PTL DEF Spec

\* Every variable stays in its domain.
THEOREM MappingTypeCorrect == Spec => []TypeOK
<1>1. MappingInv => TypeOK
  BY DEF MappingInv
<1> QED BY <1>1, MappingInvariance, PTL

\* A rendering of an earlier snapshot never replaces one of a later snapshot:
\* regenChain closes the race guacamole.ts describes there, in the face of
\* failing writes and of restarts that leave one under way.
THEOREM NeverBack == Spec => FileNeverGoesBack
<1>1. ASSUME MappingInv, [Next]_vars  PROVE [file'.version >= file.version]_vars
  <2>0. /\ TypeOK /\ file.version \in Nat
        /\ \A p \in Procs : snap[p].version \in Nat /\ VersionsOf(p)
    BY <1>1 DEF MappingInv, TypeOK, Snapshots, VersionsAreOrdered
  <2>1. file' = file \/ \E p \in Procs : task[p].pc \in Inside /\ file' = snap[p]
    <3>1. ASSUME NEW p \in Procs, Aside(p)  PROVE file' = file
      BY <2>0, <3>1, AsideMoves
    <3>2. ASSUME NEW p \in Procs, GoesOn(p) \/ Fails(p) \/ Syncs(p)
          PROVE  file' = file \/ (task[p].pc \in Inside /\ file' = snap[p])
      BY <2>0, <3>2, GoesOnMoves, FailsMoves, SyncsMoves DEF Inside
    <3>3. ASSUME NEW p \in Procs, Call(p) \/ ReadConfig(p) \/ TakeSnapshot(p)
          PROVE  file' = file
      BY <3>3 DEF Call, ReadConfig, TakeSnapshot, gateway
    <3>4. ASSUME Configure \/ UNCHANGED vars  PROVE file' = file
      BY <3>4 DEF Configure, vars, gateway
    <3>5. ASSUME Restart
          PROVE  file' = file \/ \E p \in Procs : task[p].pc \in Inside /\ file' = snap[p]
      BY <3>5 DEF Restart, At, Inside
    <3> QED BY <1>1, <3>1, <3>2, <3>3, <3>4, <3>5, StepKinds
  <2>2. file.version <= file'.version
    BY <2>0, <2>1 DEF VersionsOf
  <2> QED BY <2>0, <2>1, <2>2
<1> QED BY <1>1, MappingInvariance, PTL DEF Spec, FileNeverGoesBack

-----------------------------------------------------------------------------
(* The abstract publisher *)

Rows == LabsIn(Now)
Shown == LabsIn(file)
Pending == {LabsIn(snap[p]) : p \in {q \in Procs : task[q].pc \in Inside}}

\* Only the snapshot of the call at work is on its way.
LEMMA PendingIs ==
  ASSUME ChainIsOrdered, NEW p \in Procs, task[p].pc \in Inside
  PROVE  Pending = {LabsIn(snap[p])}
<1>1. {q \in Procs : task[q].pc \in Inside} = {p}
  BY OneAtWork
<1> QED BY <1>1 DEF Pending

\* A commit changes one row and counts, or changes nothing.
LEMMA CommitCounts ==
  ASSUME TypeOK, NEW l, NEW r, Commit(l, r)
  PROVE  Rows' = Rows \/ version' = version + 1
<1>1. CASE r = db[l]
  BY <1>1 DEF TypeOK, Commit, Now, Rows, LabsIn
<1>2. CASE r # db[l]
  BY <1>2 DEF Commit
<1> QED BY <1>1, <1>2

\* So does every row operation.
LEMMA AsideCounts ==
  ASSUME TypeOK, NEW p \in Procs, Aside(p)
  PROVE  Rows' = Rows \/ version' = version + 1
<1>1. UNCHANGED rows \/ \E l, r : Commit(l, r)
  BY DEF Aside, Redeem, ProvisionReady, PrewarmReady, DestroyReads, PowerBegins,
     ResumeDrifts, ReconcilerSyncs, EnsureReads, MintCredentials, ClearCredentials, Terminate, PowerEnds, Resync, Link,
     ReconcilerLists, ReconcilerEnds
<1>2. UNCHANGED rows => Rows' = Rows
  BY DEF rows, Now, Rows, LabsIn
<1> QED BY <1>1, <1>2, CommitCounts

\* The implementation starts where the publisher does ...
LEMMA PublisherStarts ==
  ASSUME Init
  PROVE  Publishing!PublisherInit
<1>1. Shown = Rows
  BY DEF Init, Now, Blank, Rows, Shown, LabsIn
<1>2. {q \in Procs : task[q].pc \in Inside} = {}
  BY DEF Init, NoTask, Inside
<1>3. Pending = {}
  BY <1>2 DEF Pending
<1> QED BY <1>1, <1>3 DEF Publishing!PublisherInit, Rows, Shown, Pending

\* ... and each of its steps is one of the publisher's, or none.
LEMMA PublisherStep ==
  ASSUME TypeOK, ChainIsOrdered, ChainIsOrdered', [Next]_vars
  PROVE  [Publishing!PublisherNext]_(Publishing!publisherVars)
<1> DEFINE Same == UNCHANGED <<Rows, Shown, Pending>>
           Goal == \/ Same
                   \/ version' = version + 1 /\ UNCHANGED <<Shown, Pending>>
                   \/ Pending = {} /\ Pending' = {Rows} /\ UNCHANGED <<Rows, Shown>>
                   \/ Shown' \in Pending /\ UNCHANGED <<Rows, Pending>>
                   \/ Shown' \in {Shown} \cup Pending /\ Pending' = {} /\ UNCHANGED Rows
<1>0. /\ UNCHANGED rows => UNCHANGED Rows
      /\ UNCHANGED file => UNCHANGED Shown
      /\ \A p \in Procs : file' \in {file, snap[p]} => Shown' \in {Shown, LabsIn(snap[p])}
  BY DEF rows, Now, Rows, Shown, LabsIn
<1>1. ASSUME NEW p \in Procs, Aside(p)  PROVE Goal
  <2>1. Alone(p) /\ UNCHANGED <<file, snap>>
        /\ task[p].pc \notin Inside /\ task'[p].pc \notin Inside
    BY <1>1, AsideMoves DEF Chained
  <2>2. {q \in Procs : task[q].pc \in Inside}' = {q \in Procs : task[q].pc \in Inside}
    BY <2>1 DEF Alone
  <2>3. UNCHANGED Pending
    BY <2>1, <2>2 DEF Pending
  <2> QED BY <1>0, <1>1, <2>1, <2>3, AsideCounts
<1>2. ASSUME NEW p \in Procs, Call(p)  PROVE Goal
  <2>1. /\ task[p].pc = "call" /\ UNCHANGED <<rows, file, snap>>
        /\ task' = [task EXCEPT ![p] = [task[p] EXCEPT !.pc = "queue", !.stamp = version]]
    BY <1>2 DEF Call, At, gateway
  <2>2. task[p] \in Tasks
    BY DEF TypeOK
  <2>3. Alone(p) /\ task'[p].pc = "queue"
    BY <2>1, <2>2 DEF Alone, Tasks, TypeOK
  <2>4. {q \in Procs : task[q].pc \in Inside}' = {q \in Procs : task[q].pc \in Inside}
    BY <2>1, <2>3 DEF Alone, Inside
  <2>5. UNCHANGED Pending
    BY <2>1, <2>4 DEF Pending
  <2> QED BY <1>0, <2>1, <2>5
<1>r. ASSUME NEW p \in Procs, ReadConfig(p)  PROVE Goal
  <2>1. /\ Alone(p) /\ UNCHANGED <<rows, file>>
        /\ task[p].pc \notin Inside /\ task'[p].pc \notin Inside
        /\ \A q \in Procs \ {p} : snap'[q] = snap[q]
    BY <1>r, ReadMoves DEF Inside
  <2>2. {q \in Procs : task[q].pc \in Inside}' = {q \in Procs : task[q].pc \in Inside}
    BY <2>1 DEF Alone
  <2>3. UNCHANGED Pending
    BY <2>1, <2>2 DEF Pending
  <2> QED BY <1>0, <2>1, <2>3
<1>3. ASSUME NEW p \in Procs, TakeSnapshot(p)  PROVE Goal
  <2>1. /\ task[p].pc = "select" /\ UNCHANGED <<rows, file>>
        /\ Alone(p) /\ task'[p].pc = "dial"
        /\ snap'[p].row = db /\ snap'[p].version = version
    BY <1>3, ReadMoves
  <2>2. \A q \in Procs : task[q].pc \notin Inside
    BY <2>1 DEF ChainIsOrdered, InChain, Chained, Inside
  <2>3. Pending = {}
    BY <2>2 DEF Pending
  <2>4. LabsIn(snap'[p]) = Rows /\ task'[p].pc \in Inside
    BY <2>1 DEF LabsIn, Rows, Now, Inside
  <2>5. {q \in Procs : task'[q].pc \in Inside} = {p}
    BY <2>1, <2>2, <2>4 DEF Alone
  <2>6. Pending' = {LabsIn(snap'[p])}
    BY <2>5 DEF Pending, LabsIn
  <2> QED BY <1>0, <2>1, <2>3, <2>4, <2>6
<1>4. ASSUME NEW p \in Procs, GoesOn(p)  PROVE Goal
  <2>1. /\ Alone(p) /\ UNCHANGED <<rows, snap>>
        /\ task[p].pc \in Inside /\ task'[p].pc \in Inside
        /\ file' \in {file, snap[p]}
    <3>1. PICK pc \in {"connect", "write", "jdbc"} :
            /\ task'[p] = [task[p] EXCEPT !.pc = pc]
            /\ IF pc = "jdbc" THEN file' = snap[p] ELSE file' = file
      BY <1>4, GoesOnMoves
    <3>2. task'[p].pc = pc
      BY <3>1 DEF TypeOK, Tasks
    <3> QED BY <1>4, <3>1, <3>2, GoesOnMoves DEF Inside
  <2>2. Pending = {LabsIn(snap[p])}
    BY <2>1, PendingIs
  <2>3. {q \in Procs : task[q].pc \in Inside}' = {q \in Procs : task[q].pc \in Inside}
    BY <2>1 DEF Alone
  <2>4. UNCHANGED Pending
    BY <2>1, <2>3 DEF Pending
  <2> QED BY <1>0, <2>1, <2>2, <2>4
<1>5. ASSUME NEW p \in Procs, Fails(p) \/ Syncs(p)  PROVE Goal
  <2>1. /\ Alone(p) /\ UNCHANGED rows
        /\ task[p].pc \in Inside /\ task'[p].pc \notin Inside
        /\ file' \in {file, snap[p]}
    BY <1>5, FailsMoves, SyncsMoves DEF Inside
  <2>2. Pending = {LabsIn(snap[p])}
    BY <2>1, PendingIs
  <2>3. \A q \in Procs : task'[q].pc \notin Inside
    BY <2>1, OneAtWork DEF Alone
  <2>4. Pending' = {}
    BY <2>3 DEF Pending
  <2> QED BY <1>0, <2>1, <2>2, <2>4
<1>6. ASSUME Configure  PROVE Goal
  BY <1>6 DEF Configure, gateway, local, Shown, Pending
<1>7. ASSUME Restart  PROVE Goal
  <2>1. /\ UNCHANGED rows
        /\ file' \in {file} \cup {snap[p] : p \in {q \in Procs : At(q, "write")}}
        /\ task' = [p \in Procs |-> NoTask]
    BY <1>7 DEF Restart
  <2>2. Shown' \in {Shown} \cup Pending
    BY <2>1 DEF Pending, At, Inside, Shown, LabsIn
  <2>3. {q \in Procs : task'[q].pc \in Inside} = {}
    BY <2>1 DEF NoTask, Inside
  <2>4. Pending' = {}
    BY <2>3 DEF Pending
  <2> QED BY <1>0, <2>1, <2>2, <2>4
<1>8. ASSUME UNCHANGED vars  PROVE Goal
  BY <1>8 DEF vars, rows, gateway, local, Now, Rows, Shown, LabsIn, Pending
<1>9. Goal
  BY <1>1, <1>2, <1>3, <1>r, <1>4, <1>5, <1>6, <1>7, <1>8, StepKinds
<1>10. Rows.version = version /\ Rows'.version = version'
  BY DEF Rows, LabsIn, Now
<1> QED BY <1>9, <1>10 DEF Publishing!PublisherNext, Publishing!Change, Publishing!Take,
  Publishing!Arrive, Publishing!GiveUp, Publishing!publisherVars,
  Rows, Shown, Pending

\* Chain, cached connection and staged writes implement the publisher, whatever
\* fails and whenever the control plane restarts: renderings reach the gateway
\* one at a time and in the order of the commits they show.
THEOREM PublisherRefinement == Spec => ImplementsPublisher
<1>1. Init => Publishing!PublisherInit
  BY PublisherStarts
<1>2. MappingInv /\ MappingInv' /\ [Next]_vars
        => [Publishing!PublisherNext]_(Publishing!publisherVars)
  BY PublisherStep DEF MappingInv
<1> QED
  BY <1>1, <1>2, MappingInvariance, PTL DEF Spec, ImplementsPublisher,
     Publishing!PublisherSpec

\* The redirect finds the file as new as the call it waited for, with the
\* student's credentials in it.
THEOREM Fresh == Spec => []PublishedIsFresh
<1>1. ASSUME MappingInv  PROVE PublishedIsFresh
  <2> SUFFICES ASSUME NEW p \in Procs, At(p, "link")
               PROVE  /\ file.version >= task[p].stamp
                      /\ task[p].lab \notin disturbed =>
                           /\ file.row[task[p].lab].live
                           /\ file.row[task[p].lab].token = task[p].token
    BY DEF PublishedIsFresh
  <2>1. task[p].pc = "link" /\ task[p].job = "redeem" /\ task[p].lab \in Labs
    BY <1>1 DEF MappingInv, LabsAreKnown, KnowsItsLab, At
  <2>2. file.version \in Nat /\ task[p].stamp \in Nat
    BY <1>1 DEF MappingInv, TypeOK, Snapshots, Tasks
  <2>3. task[p].stamp <= file.version
    BY <1>1, <2>1 DEF MappingInv, VersionsAreOrdered, VersionsOf
  <2>4. ASSUME task[p].lab \notin disturbed
        PROVE  /\ file.row[task[p].lab].live
               /\ file.row[task[p].lab].token = task[p].token
    BY <1>1, <2>1, <2>4 DEF MappingInv, Undisturbed, CredentialsAreStable,
                            CredentialsOf, HoldsCredentials, Ensured
  <2> QED BY <2>2, <2>3, <2>4
<1> QED BY <1>1, MappingInvariance, PTL

\* A URL once handed out works until its lab is destroyed or given other
\* credentials.
THEOREM UrlsKeepWorking == Spec => []UrlKeepsWorking
<1>1. ASSUME MappingInv  PROVE UrlKeepsWorking
  <2> SUFFICES ASSUME NEW g \in given, g.lab \notin disturbed
               PROVE  IF g.id = 0 THEN file.row[g.lab].token = g.token
                                  ELSE conn[g.lab] = g.id /\ g.token \in accounts
    BY DEF UrlKeepsWorking
  <2>1. g.lab \in Undisturbed
    BY <1>1 DEF MappingInv, TypeOK, Undisturbed
  <2>2. /\ file.row[g.lab].token = g.token
        /\ g.id # 0 => conn[g.lab] = g.id
    BY <1>1, <2>1 DEF MappingInv, UrlsAreBacked
  <2>3. g.id # 0 => file.row[g.lab].token \in accounts
    BY <1>1, <2>1, <2>2 DEF MappingInv, UrlsAreBacked
  <2> QED BY <2>2, <2>3
<1> QED BY <1>1, MappingInvariance, PTL

-----------------------------------------------------------------------------
(* Why no update is lost *)

\* A row operation that changes a row the file should show owes a call for it
\* from then on, or the change is one nobody calls for; and what it owed before
\* it still owes.
LEMMA AsideOwes ==
  ASSUME TypeOK, LabsAreKnown, NEW p \in Procs, Aside(p), NEW k \in Labs,
         db'[k].live, db'[k].token # 0, k \notin unannounced'
  PROVE  /\ \/ db'[k] = db[k]
            \/ WillCall(task'[p], k)
         /\ WillCall(task[p], k) => WillCall(task'[p], k)
<1> USE DEF rows, jdbc, gateway, local, history, At, NoTask, WillCall
<1> DEFINE Owed == /\ db'[k] = db[k] \/ WillCall(task'[p], k)
                   /\ WillCall(task[p], k) => WillCall(task'[p], k)
<1>0. task[p] \in Tasks /\ db[k] \in Row /\ db \in [Labs -> Row]
  BY DEF TypeOK
<1>m. /\ \A pc : Goto(p, pc) => task'[p].pc = pc
      /\ \A pc, job, l : Begin(p, pc, job, l) =>
           task[p].pc = "idle" /\ task'[p].pc = pc
  BY Moves
<1>t. \A t : task' = [task EXCEPT ![p] = t] => task'[p] = t
  BY Moves
<1>c. \A l, r : l \in Labs /\ Commit(l, r) => db'[k] = IF k = l THEN r ELSE db[k]
  BY <1>0 DEF Commit
<1>e. \A pc, n : [task[p] EXCEPT !.pc = pc, !.token = n].pc = pc
  BY <1>0 DEF Tasks
<1>1. ASSUME NEW l \in Labs, Redeem(p, l)  PROVE Owed
  BY <1>m, <1>1 DEF Redeem
<1>2. ASSUME NEW l \in Labs, ProvisionReady(p, l)  PROVE Owed
  BY <1>m, <1>2 DEF ProvisionReady
<1>3. ASSUME NEW l \in Labs, DestroyReads(p, l)  PROVE Owed
  BY <1>m, <1>3 DEF DestroyReads
<1>4. ASSUME NEW l \in Labs, ResumeDrifts(p, l)  PROVE Owed
  <2>1. task[p].pc = "idle" /\ Commit(l, [db[l] EXCEPT !.port = version + 1])
    BY <1>m, <1>4 DEF ResumeDrifts
  <2>2. task'[p] = [NoTask EXCEPT !.pc = "updated", !.job = "sync", !.lab = l]
    BY <1>4, <1>t DEF ResumeDrifts, Begin
  <2> QED BY <1>c, <2>1, <2>2
<1>5. ASSUME NEW l \in Labs, ReconcilerSyncs(p, l)  PROVE Owed
  <2> DEFINE known == l \in task[p].seen
  <2>1. /\ task' = [task EXCEPT ![p] = [task[p] EXCEPT !.owed = task[p].owed \/ known]]
        /\ Commit(l, [db[l] EXCEPT !.port = version + 1])
        /\ task[p].pc = "drift"
        /\ k = l => known
    BY <1>5 DEF ReconcilerSyncs
  <2>2. task'[p] = [task[p] EXCEPT !.owed = task[p].owed \/ known]
    BY <2>1, <1>t
  <2>e. \A b : /\ [task[p] EXCEPT !.owed = b].pc = task[p].pc
               /\ [task[p] EXCEPT !.owed = b].owed = b
    BY <1>0 DEF Tasks
  <2>3. task'[p].pc = "drift" /\ (known \/ task[p].owed => task'[p].owed)
    <3> HIDE DEF known
    <3>1. task'[p].pc = task[p].pc
      BY <2>2, <2>e, Zenon
    <3>2. task'[p].owed = (task[p].owed \/ known)
      BY <2>2, <2>e, Zenon
    <3> QED BY <2>1, <3>1, <3>2, Zenon
  <2>4. db'[k] = db[k] \/ known
    <3>1. CASE k = l
      BY <2>1, <3>1
    <3>2. CASE k # l
      BY <2>1, <3>2, <1>c
    <3> QED BY <3>1, <3>2
  <2> QED BY <2>1, <2>3, <2>4
<1>6. ASSUME EnsureReads(p)  PROVE Owed
  <2> DEFINE n == db[task[p].lab].token
             pc == IF n # 0 THEN "call" ELSE "mint"
  <2>1. task' = [task EXCEPT ![p] = [task[p] EXCEPT !.pc = pc, !.token = n]]
    BY <1>6 DEF EnsureReads
  <2>2. task'[p].pc = pc
    <3>1. task'[p] = [task[p] EXCEPT !.pc = pc, !.token = n]
      BY <2>1, <1>t
    <3> HIDE DEF pc, n
    <3> QED BY <3>1, <1>e
  <2> QED BY <2>2
<1>7. ASSUME MintCredentials(p)  PROVE Owed
  <2>1. PICK n :
          task' = [task EXCEPT ![p] = [task[p] EXCEPT !.pc = "call", !.token = n]]
    BY <1>7 DEF MintCredentials
  <2>2. task'[p].pc = "call"
    <3>1. task'[p] = [task[p] EXCEPT !.pc = "call", !.token = n]
      BY <2>1, <1>t
    <3> QED BY <3>1, <1>e
  <2> QED BY <2>2
<1>8. ASSUME ClearCredentials(p)  PROVE Owed
  BY <1>8, <1>m DEF ClearCredentials
<1>9. ASSUME Terminate(p)  PROVE Owed
  <2>1. /\ task[p].lab \in Labs /\ task[p].pc = "terminate"
        /\ Commit(task[p].lab, [db[task[p].lab] EXCEPT !.live = FALSE])
    BY <1>9 DEF Terminate, LabsAreKnown, KnowsItsLab
  <2>2. db[task[p].lab] \in Row
    BY <2>1, <1>0
  <2>3. k # task[p].lab
    BY <2>1, <2>2, <1>c DEF Row
  <2> QED BY <2>1, <2>3, <1>c
<1>10. ASSUME PowerEnds(p)  PROVE Owed
  <2> DEFINE l == task[p].lab
             calls == task[p].job = "sync" /\ db[l].token # 0
  <2>1. /\ l \in Labs /\ task[p].pc = "updated"
        /\ Commit(l, [db[l] EXCEPT !.live = TRUE])
        /\ calls => task'[p].pc = "call"
        /\ k = l => db[l].live \/ calls
    BY <1>10, <1>m DEF PowerEnds, LabsAreKnown, KnowsItsLab
  <2>2. k # l => db'[k] = db[k]
    BY <2>1, <1>c
  <2>3. k = l => db'[k].token = db[k].token /\ (db[k].live => db'[k] = db[k])
    <3>1. k = l => db'[k] = [db[k] EXCEPT !.live = TRUE]
      BY <2>1, <1>c
    <3>2. /\ [db[k] EXCEPT !.live = TRUE].token = db[k].token
          /\ db[k].live => [db[k] EXCEPT !.live = TRUE] = db[k]
      BY <1>0 DEF Row
    <3> QED BY <3>1, <3>2
  <2>4. WillCall(task[p], k) => calls
    BY <2>1, <2>3
  <2> QED BY <2>1, <2>2, <2>3, <2>4
<1>11. ASSUME Resync(p)  PROVE Owed
  BY <1>m, <1>11 DEF Resync
<1>12. ASSUME Link(p)  PROVE Owed
  BY <1>12 DEF Link
<1>13. ASSUME ReconcilerLists(p)  PROVE Owed
  BY <1>13 DEF ReconcilerLists
<1>14. ASSUME ReconcilerEnds(p)  PROVE Owed
  BY <1>14, <1>m DEF ReconcilerEnds
<1>15. ASSUME NEW l \in Labs, PrewarmReady(p, l)  PROVE Owed
  <2>1. /\ Commit(l, [db[l] EXCEPT !.port = version + 1]) /\ db[l].token = 0
        /\ task' = task
    BY <1>15 DEF PrewarmReady
  <2>2. k # l
    BY <2>1, <1>c, <1>0 DEF Row
  <2> QED BY <2>1, <2>2, <1>c
<1>16. ASSUME NEW l \in Labs, PowerBegins(p, l)  PROVE Owed
  BY <1>m, <1>16 DEF PowerBegins
<1> QED
  BY <1>1, <1>2, <1>3, <1>4, <1>5, <1>6, <1>7, <1>8, <1>9, <1>10, <1>11, <1>12,
     <1>13, <1>14, <1>15, <1>16 DEF Aside

\* A row operation forgets no announcement and does not fail.
LEMMA AsideHistory ==
  ASSUME NEW p \in Procs, Aside(p)
  PROVE  clean' = clean /\ unannounced \subseteq unannounced'
<1> USE DEF rows, jdbc, gateway, local, history
<1>1. ASSUME NEW l \in Labs,
             \/ Redeem(p, l) \/ ProvisionReady(p, l) \/ PrewarmReady(p, l)
             \/ DestroyReads(p, l) \/ PowerBegins(p, l) \/ ResumeDrifts(p, l)
             \/ ReconcilerSyncs(p, l)
      PROVE  clean' = clean /\ unannounced \subseteq unannounced'
  BY <1>1 DEF Redeem, ProvisionReady, PrewarmReady, DestroyReads, PowerBegins,
              ResumeDrifts, ReconcilerSyncs
<1>2. ASSUME \/ EnsureReads(p) \/ MintCredentials(p) \/ ClearCredentials(p)
             \/ Terminate(p) \/ PowerEnds(p) \/ Resync(p) \/ Link(p)
             \/ ReconcilerLists(p) \/ ReconcilerEnds(p)
      PROVE  clean' = clean /\ unannounced \subseteq unannounced'
  BY <1>2 DEF EnsureReads, MintCredentials, ClearCredentials, Terminate, PowerEnds,
              Resync, Link, ReconcilerLists, ReconcilerEnds
<1> QED BY <1>1, <1>2 DEF Aside

\* Every step keeps what is owed owed: a snapshot settles everything at once, for
\* whoever takes it is the only one at work, and a writer leaves the file as its
\* snapshot, or has failed.
LEMMA UpdatesStep ==
  ASSUME MappingInv, NoUpdateIsLost, [Next]_vars
  PROVE  NoUpdateIsLost'
<1> USE DEF rows, jdbc, gateway, local, history, At
<1>0. TypeOK /\ ChainIsOrdered /\ LabsAreKnown /\ VersionsAreOrdered
  BY DEF MappingInv
<1>v. /\ \A l \in Labs : l \in Visible(Now) <=> db[l].live /\ db[l].token # 0
      /\ \A l \in Labs : l \in Visible(Now)' <=> db'[l].live /\ db'[l].token # 0
      /\ Visible(Now) \subseteq Labs /\ Visible(Now)' \subseteq Labs
  BY DEF Visible, Now
<1> SUFFICES ASSUME clean', NEW l \in Visible(Now)', l \notin unannounced'
             PROVE  LatestShows(l)' \/ \E q \in Procs : WillCall(task'[q], l)
  BY DEF NoUpdateIsLost
<1> DEFINE Settled == LatestShows(l) \/ \E q \in Procs : WillCall(task[q], l)
           Goal == LatestShows(l)' \/ \E q \in Procs : WillCall(task'[q], l)
<1>s. ASSUME db'[l] = db[l], unannounced' = unannounced, clean' = clean
      PROVE  Settled
  BY <1>s, <1>v DEF NoUpdateIsLost
<1>1. ASSUME NEW p \in Procs, Aside(p)  PROVE Goal
  <2>1. /\ Alone(p) /\ UNCHANGED <<file, snap>>
        /\ task[p].pc \notin Inside /\ task'[p].pc \notin Inside
    BY <1>0, <1>1, AsideMoves DEF Chained
  <2>2. /\ db'[l] = db[l] \/ WillCall(task'[p], l)
        /\ WillCall(task[p], l) => WillCall(task'[p], l)
    BY <1>0, <1>1, <1>v, AsideOwes
  <2>3. CASE WillCall(task'[p], l)
    BY <2>3
  <2>4. CASE db'[l] = db[l] /\ ~WillCall(task'[p], l)
    <3>1. Settled
      BY <1>1, <2>4, <1>v, AsideHistory DEF NoUpdateIsLost
    <3>2. ASSUME NEW q \in Procs, WillCall(task[q], l)  PROVE Goal
      <4>1. task'[q] = task[q]
        BY <2>1, <2>2, <2>4, <3>2 DEF Alone
      <4> QED BY <3>2, <4>1
    <3>3. ASSUME LatestShows(l)  PROVE Goal
      <4>1. AtWork' = AtWork
        BY <2>1 DEF AtWork, Alone
      <4> QED BY <2>1, <2>4, <3>3, <4>1 DEF LatestShows
    <3> QED BY <3>1, <3>2, <3>3
  <2> QED BY <2>2, <2>3, <2>4
<1>2. ASSUME NEW p \in Procs, Call(p)  PROVE Goal
  <2>1. task'[p].pc = "queue"
    BY <1>0, <1>2 DEF Call, TypeOK, Tasks
  <2> QED BY <2>1 DEF WillCall
<1>3. ASSUME NEW p \in Procs, TakeSnapshot(p)  PROVE Goal
  <2>1. /\ Alone(p) /\ task[p].pc = "select" /\ task'[p].pc = "dial"
        /\ snap'[p].row = db /\ db' = db
    BY <1>0, <1>3, ReadMoves
  <2>2. \A q \in Procs : q # p => task[q].pc \notin Inside
    BY <1>0, <2>1 DEF ChainIsOrdered, InChain, Chained, Inside
  <2>3. AtWork' = {p}
    BY <2>1, <2>2 DEF AtWork, Alone, Inside
  <2>4. snap'[p].row[l] = db'[l]
    BY <2>1
  <2> QED BY <2>3, <2>4 DEF LatestShows
<1>r. ASSUME NEW p \in Procs, ReadConfig(p)  PROVE Goal
  <2>1. task'[p].pc = "select"
    BY <1>0, <1>r, ReadMoves
  <2> QED BY <2>1 DEF WillCall
<1>4. ASSUME NEW p \in Procs, GoesOn(p)  PROVE Goal
  <2>1. /\ Alone(p) /\ task[p].pc \in {"dial", "connect", "write"}
        /\ snap' = snap /\ db' = db
    BY <1>0, <1>4, GoesOnMoves DEF rows
  <2>2. task'[p].pc \in {"connect", "write", "jdbc"}
    <3>1. PICK pc \in {"connect", "write", "jdbc"} :
            task'[p] = [task[p] EXCEPT !.pc = pc]
      BY <1>0, <1>4, GoesOnMoves
    <3>2. task[p] \in Tasks
      BY <1>0 DEF TypeOK
    <3> QED BY <3>1, <3>2 DEF Tasks
  <2>3. Settled
    BY <1>s, <2>1, <1>4 DEF GoesOn, ReuseConnection, Dial, Connect, WriteLands
  <2>4. AtWork' = AtWork /\ AtWork # {}
    BY <2>1, <2>2 DEF AtWork, Alone, Inside
  <2>5. ASSUME NEW q \in Procs, WillCall(task[q], l)  PROVE Goal
    <3>1. task'[q] = task[q]
      BY <2>1, <2>5 DEF Alone, WillCall
    <3> QED BY <2>5, <3>1
  <2>6. ASSUME LatestShows(l)  PROVE Goal
    BY <2>1, <2>4, <2>6 DEF LatestShows
  <2> QED BY <2>3, <2>5, <2>6
<1>5. ASSUME NEW p \in Procs, Fails(p)  PROVE Goal
  BY <1>5 DEF Fails, ConnectFails, KeyUnreadable, WriteFails, Fail
<1>6. ASSUME NEW p \in Procs, Syncs(p)  PROVE Goal
  <2>1. /\ Alone(p) /\ task[p].pc = "jdbc" /\ task'[p].pc \notin Inside
        /\ file' = file /\ db' = db
    BY <1>0, <1>6, SyncsMoves DEF Inside
  <2>2. file = snap[p]
    BY <1>0, <2>1 DEF VersionsAreOrdered, VersionsOf
  <2>3. Settled
    BY <1>s, <2>1, <1>6 DEF Syncs, SyncJdbc, SyncFails
  <2>4. AtWork' = {}
    BY <1>0, <2>1, OneAtWork DEF AtWork, Alone, Inside
  <2>5. ASSUME NEW q \in Procs, WillCall(task[q], l)  PROVE Goal
    <3>1. task'[q] = task[q]
      BY <2>1, <2>5 DEF Alone, WillCall
    <3> QED BY <2>5, <3>1
  <2>6. ASSUME LatestShows(l)  PROVE Goal
    <3>1. snap[p].row[l] = db[l]
      BY <2>1, <2>6 DEF LatestShows, AtWork, Inside
    <3> QED BY <2>1, <2>2, <2>4, <3>1 DEF LatestShows
  <2> QED BY <2>3, <2>5, <2>6
<1>7. ASSUME Configure \/ UNCHANGED vars  PROVE Goal
  <2>1. UNCHANGED <<db, file, task, snap, unannounced, clean>>
    BY <1>7 DEF Configure, vars
  <2>2. Settled
    BY <1>s, <2>1
  <2> QED BY <2>1, <2>2 DEF LatestShows, AtWork
<1>8. ASSUME Restart  PROVE Goal
  BY <1>8 DEF Restart
<1> QED
  BY <1>1, <1>2, <1>3, <1>r, <1>4, <1>5, <1>6, <1>7, <1>8, StepKinds

\* As long as nothing fails, no interleaving of commits and calls loses an
\* update: at rest the file shows every live lab that has credentials as its row
\* is, the argument for serialising regenerateUserMapping in regenChain and
\* reading the rows only inside it.
THEOREM QuietIsCurrent == Spec => []QuietFileIsCurrent
<1>1. Init => NoUpdateIsLost
  BY DEF Init, NoUpdateIsLost, LatestShows, Visible, Now, Blank, AtWork, Inside, NoTask
<1>2. MappingInv /\ NoUpdateIsLost /\ [Next]_vars => NoUpdateIsLost'
  BY UpdatesStep
<1>3. NoUpdateIsLost => QuietFileIsCurrent
  BY DEF NoUpdateIsLost, QuietFileIsCurrent, LatestShows, AtWork, Inside, WillCall, At
<1> QED BY <1>1, <1>2, <1>3, MappingInvariance, PTL DEF Spec

-----------------------------------------------------------------------------
(* Who can block the chain *)

\* As long as calls are in regenChain, one of them waits for nobody and the
\* others wait for that one: no failure, exception or restart leaves them all
\* waiting (the .catch at regenChain), with any number of them in flight.
THEOREM ChainGoesOn == Spec => []ChainHasHead
<1>1. Init => ChainIsALine
  <2> SUFFICES ASSUME Init  PROVE ChainIsALine
    OBVIOUS
  <2>1. InChain = {}
    BY DEF Init, InChain, NoTask, Chained, Inside
  <2> QED BY <2>1, FS_EmptySet DEF ChainIsALine
<1>2. MappingInv /\ ChainIsALine /\ [Next]_vars => ChainIsALine'
  BY LineStep DEF MappingInv
<1>3. MappingInv /\ ChainIsALine => ChainHasHead
  BY HeadOfLine DEF MappingInv
<1> QED BY <1>1, <1>2, <1>3, MappingInvariance, PTL DEF Spec

\* An entry of sshCache that says 'dialing' has its dial under way.
Served == ssh = "dialing" => \E p \in Procs : At(p, "connect")

LEMMA ServedStep ==
  ASSUME TypeOK, ~KeyFaults, Served, [Next]_vars
  PROVE  Served'
<1> USE DEF Served, At
\* Elsewhere on the chain the one that dials stays where it is.
<1>s. ASSUME NEW p \in Procs, Alone(p), task[p].pc # "connect", UNCHANGED ssh
      PROVE  Served'
  BY <1>s DEF Alone
<1>1. ASSUME NEW p \in Procs, Aside(p)  PROVE Served'
  <2>1. UNCHANGED ssh
    BY <1>1 DEF Aside, Redeem, ProvisionReady, PrewarmReady, DestroyReads, PowerBegins,
                ResumeDrifts, ReconcilerSyncs, EnsureReads, MintCredentials,
                ClearCredentials, Terminate, PowerEnds, Resync, Link,
                ReconcilerLists, ReconcilerEnds, gateway
  <2>2. Alone(p) /\ task[p].pc \notin Chained
    BY <1>1, AsideMoves
  <2> QED BY <1>s, <2>1, <2>2 DEF Chained, Inside
<1>2. ASSUME NEW p \in Procs, Call(p) \/ ReadConfig(p) \/ TakeSnapshot(p)  PROVE Served'
  <2>1. UNCHANGED ssh /\ task[p].pc # "connect"
    BY <1>2 DEF Call, ReadConfig, TakeSnapshot, gateway
  <2>2. Alone(p)
    BY <1>2 DEF Call, ReadConfig, TakeSnapshot, Goto, Alone, TypeOK
  <2> QED BY <1>s, <2>1, <2>2
<1>3. ASSUME NEW p \in Procs, Dial(p)  PROVE Served'
  BY <1>3, Moves DEF Dial
<1>4. ASSUME NEW p \in Procs, Connect(p)  PROVE Served'
  BY <1>4 DEF Connect
<1>5. ASSUME NEW p \in Procs, ReuseConnection(p) \/ WriteLands(p)  PROVE Served'
  <2>1. UNCHANGED ssh /\ task[p].pc # "connect"
    BY <1>5 DEF ReuseConnection, WriteLands, gateway
  <2>2. Alone(p)
    BY <1>5, GoesOnMoves DEF GoesOn
  <2> QED BY <1>s, <2>1, <2>2
<1>6. ASSUME NEW p \in Procs, ConnectFails(p) \/ KeyUnreadable(p)  PROVE Served'
  BY <1>6 DEF ConnectFails, KeyUnreadable
<1>7. ASSUME NEW p \in Procs, WriteFails(p)  PROVE Served'
  <2>1. UNCHANGED ssh /\ task[p].pc # "connect"
    BY <1>7 DEF WriteFails
  <2>2. Alone(p)
    BY <1>7, FailsMoves DEF Fails
  <2> QED BY <1>s, <2>1, <2>2
<1>8. ASSUME NEW p \in Procs, Syncs(p)  PROVE Served'
  <2>1. UNCHANGED ssh
    BY <1>8 DEF Syncs, SyncJdbc, SyncFails
  <2>2. Alone(p) /\ task[p].pc # "connect"
    BY <1>8, SyncsMoves
  <2> QED BY <1>s, <2>1, <2>2
<1>9. ASSUME Configure \/ UNCHANGED vars  PROVE Served'
  BY <1>9 DEF Configure, vars, gateway, local
<1>10. ASSUME Restart  PROVE Served'
  BY <1>10 DEF Restart
<1> QED BY <1>1, <1>2, <1>3, <1>4, <1>5, <1>6, <1>7, <1>8, <1>9, <1>10, StepKinds
        DEF GoesOn, Fails

\* Only an unreadable key leaves the SSH cache poisoned (getSshClient puts the
\* entry in before buildSshConfig reads the key): lost connections, failed
\* writes and restarts do not, so without it no call waits for a dial that was
\* never begun.
THEOREM OnlyKeysPoison ==
  ASSUME ~KeyFaults
  PROVE  Spec => []~Poisoned
<1>1. Init => Served
  BY DEF Init, Served
<1>2. MappingInv /\ Served /\ [Next]_vars => Served'
  BY ServedStep DEF MappingInv
<1>3. Served => ~Poisoned
  BY DEF Served, Poisoned
<1> QED BY <1>1, <1>2, <1>3, MappingInvariance, PTL DEF Spec
=============================================================================
