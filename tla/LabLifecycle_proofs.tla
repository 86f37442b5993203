------------------------- MODULE LabLifecycle_proofs -------------------------
(***************************************************************************)
(* Proofs about LabLifecycle: its inductive invariant, the safety          *)
(* properties that follow from it, and that it implements LabLease.        *)
(***************************************************************************)
EXTENDS LabLifecycleInvariant, FiniteSetTheorems, TLAPS

-----------------------------------------------------------------------------
(* Type correctness, in parts *)

RowT  == row \in [Labs -> Rows]
TaskT == task \in [Procs -> Tasks]
HostT == /\ container \in [Labs -> {"none", "running", "stopped"}]
         /\ volume \in [Users -> {"absent", "empty", "work"}]
         /\ overlay \subseteq Labs
         /\ mapping \subseteq Labs
LoopT == /\ agenda \in [ReaperTicks -> [rule: 1..3, queue: SUBSET Labs]]
         /\ quota \in [PrewarmTicks -> 0..2]
         /\ returned \subseteq Labs
RestT == /\ crashes \in 0..MaxCrashes
         /\ tidy \in [Labs -> BOOLEAN]

\* TypeOK is the conjunction of its parts.
LEMMA TypeParts ==
  /\ TypeOK => RowT /\ TaskT /\ HostT /\ LoopT /\ RestT
  /\ RowT' /\ TaskT' /\ HostT' /\ LoopT' /\ RestT' => TypeOK'
BY DEF TypeOK, RowT, TaskT, HostT, LoopT, RestT

\* What a step leaves alone keeps its type.
LEMMA TypeFrame ==
  /\ RowT /\ UNCHANGED row => RowT'
  /\ TaskT /\ UNCHANGED task => TaskT'
  /\ HostT /\ UNCHANGED hostVars => HostT'
  /\ LoopT /\ UNCHANGED loopVars => LoopT'
  /\ RestT /\ UNCHANGED <<crashes, tidy>> => RestT'
BY DEF RowT, TaskT, HostT, LoopT, RestT, hostVars, loopVars

\* A process moves to another place, or is done.
LEMMA TaskMoves ==
  ASSUME TaskT, NEW p \in Procs
  PROVE  /\ \A pc \in Pcs : Goto(p, pc) => TaskT'
         /\ Finish(p) => TaskT'
<1>1. ASSUME NEW pc \in Pcs, Goto(p, pc) PROVE TaskT'
  BY <1>1 DEF TaskT, Goto, Tasks
<1>2. NoTask \in Tasks
  BY DEF NoTask, Tasks, Pcs, NoRefs, Refs
<1>3. Finish(p) => TaskT'
  BY <1>2 DEF TaskT, Finish
<1> QED BY <1>1, <1>3

\* The history variable stays a function to BOOLEAN.
LEMMA TidyMoves ==
  ASSUME RestT, UNCHANGED crashes, NEW l
  PROVE  /\ \A p \in Procs : Enter(p, l) => RestT'
         /\ Spoil(l) => RestT'
BY DEF RestT, Enter, Spoil

\* A redeem goes on at one of three places.
LEMMA AfterAcquireType ==
  ASSUME NEW s
  PROVE  /\ AfterAcquire(s) \in {"start", "mint", "handoff"}
         /\ s # "paused" => AfterAcquire(s) \in {"mint", "handoff"}
BY DEF AfterAcquire

\* A destroy goes on at one of five places, at the volume only to wipe it.
LEMMA DestroyPlaces ==
  ASSUME NEW r \in Refs, NEW w \in BOOLEAN
  PROVE  /\ FromUnmap(r) \in {"unmap", "terminate"}
         /\ FromOverlay(r) \in {"overlayRm", "unmap", "terminate"}
         /\ FromVolume(r, w) \in {"volume", "overlayRm", "unmap", "terminate"}
         /\ FromRemove(r, w) \in
              {"remove", "volume", "overlayRm", "unmap", "terminate"}
         /\ FromVolume(r, w) = "volume" => w
         /\ FromRemove(r, w) = "volume" => w
BY DEF FromRemove, FromVolume, FromOverlay, FromUnmap, Refs

\* The initial state is well typed.
LEMMA TypeInit == Init => TypeOK
BY LifecycleAssumption
   DEF Init, TypeOK, Rows, NoRow, Refs, NoRefs, Statuses, Tasks, NoTask, Pcs,
       NoAgenda, Labs

\* acquireInstance keeps the types.
LEMMA TypeAcquire ==
  ASSUME TypeOK, NEW p \in Procs, Acquire(p)
  PROVE  TypeOK'
<1>0. RowT /\ TaskT /\ HostT /\ LoopT /\ RestT
  BY TypeParts
<1>1. ASSUME NEW u \in Users, AcquireFindsOwn(p, u) PROVE TypeOK'
  <2>1. PICK l \in Labs, pc \in {"bump", "start", "mint", "handoff"} :
          /\ task' = [task EXCEPT ![p] =
                        [NoTask EXCEPT !.pc = pc, !.lab = l, !.user = u]]
          /\ Enter(p, l)
    BY <1>1, AfterAcquireType DEF AcquireFindsOwn, Newest, LabsOf
  <2>2. pc \in Pcs
    BY DEF Pcs
  <2>3. TaskT'
    BY <1>0, <2>1, <2>2 DEF TaskT, Tasks, NoTask, NoRefs, Refs, Pcs
  <2>4. UNCHANGED <<row, hostVars, loopVars, crashes>>
    BY <1>1 DEF AcquireFindsOwn
  <2> QED BY <1>0, <2>1, <2>3, <2>4, TypeFrame, TidyMoves, TypeParts
<1>2. ASSUME NEW u \in Users, RedeemAttached(p, u) PROVE TypeOK'
  <2>1. PICK l \in Labs :
          /\ task' = [task EXCEPT ![p] =
               [NoTask EXCEPT !.lab = l, !.user = u,
                              !.pc = AfterAcquire(row[l].status)]]
          /\ Enter(p, l)
    BY <1>2 DEF RedeemAttached, LabsOf
  <2>2. AfterAcquire(row[l].status) \in Pcs
    BY AfterAcquireType DEF Pcs
  <2>3. TaskT'
    BY <1>0, <2>1, <2>2 DEF TaskT, Tasks, NoTask, NoRefs, Refs, Pcs
  <2>4. UNCHANGED <<row, hostVars, loopVars, crashes>>
    BY <1>2 DEF RedeemAttached
  <2> QED BY <1>0, <2>1, <2>3, <2>4, TypeFrame, TidyMoves, TypeParts
<1>3. ASSUME NEW u \in Users, AcquireFindsNone(p, u) PROVE TypeOK'
  <2>1. TaskT'
    BY <1>0, <1>3 DEF AcquireFindsNone, TaskT, Tasks, NoTask, NoRefs, Refs, Pcs
  <2> QED BY <1>0, <1>3, <2>1, TypeFrame, TypeParts DEF AcquireFindsNone
<1>4. ASSUME BumpExpiry(p) PROVE TypeOK'
  <2>1. AfterAcquire(row[task[p].lab].status) \in Pcs
    BY AfterAcquireType DEF Pcs
  <2>2. TaskT'
    BY <1>0, <1>4, <2>1, TaskMoves DEF BumpExpiry
  <2>3. RowT'
    BY <1>0, <1>4 DEF BumpExpiry, RowT, Rows
  <2> QED BY <1>0, <1>4, <2>2, <2>3, TypeFrame, TypeParts DEF BumpExpiry
<1>5. ASSUME ClaimPrewarm(p) PROVE TypeOK'
  <2>1. PICK l \in Labs :
          /\ row' = [row EXCEPT ![l] =
               [@ EXCEPT !.isPrewarm = FALSE, !.user = task[p].user,
                         !.expired = FALSE]]
          /\ task' = [task EXCEPT ![p] =
               [@ EXCEPT !.lab = l, !.pc = AfterAcquire("ready")]]
          /\ Enter(p, l)
    BY <1>5 DEF ClaimPrewarm, Claimable
  <2>2. AfterAcquire("ready") \in Pcs
    BY AfterAcquireType DEF Pcs
  <2>3. TaskT'
    <3>1. [task[p] EXCEPT !.lab = l, !.pc = AfterAcquire("ready")] \in Tasks
      BY <1>0, <2>2 DEF TaskT, Tasks
    <3> QED BY <1>0, <2>1, <3>1 DEF TaskT
  <2>4. task[p].user \in Users \cup {NoUser}
    BY <1>0 DEF TaskT, Tasks
  <2>5. RowT'
    <3>1. [row[l] EXCEPT !.isPrewarm = FALSE, !.user = task[p].user,
                         !.expired = FALSE] \in Rows
      BY <1>0, <2>4 DEF RowT, Rows
    <3> QED BY <1>0, <2>1, <3>1 DEF RowT
  <2>6. UNCHANGED <<hostVars, loopVars, crashes>>
    BY <1>5 DEF ClaimPrewarm
  <2> QED BY <1>0, <2>1, <2>3, <2>5, <2>6, TypeFrame, TidyMoves, TypeParts
<1>6. ASSUME ClaimNothing(p) PROVE TypeOK'
  <2>1. TaskT'
    BY <1>0, <1>6, TaskMoves DEF ClaimNothing, Pcs
  <2> QED BY <1>0, <1>6, <2>1, TypeFrame, TypeParts DEF ClaimNothing
<1> QED BY <1>1, <1>2, <1>3, <1>4, <1>5, <1>6 DEF Acquire

\* A table whose rows keep their types when one of them sets or clears a
\* reference, or gets another status.
LEMMA RowUpdates ==
  ASSUME RowT, NEW l
  PROVE  /\ [row EXCEPT ![l].refs.vmOverlayPath = TRUE] \in [Labs -> Rows]
         /\ \A b \in BOOLEAN :
              [row EXCEPT ![l].refs.guacamoleUser = b] \in [Labs -> Rows]
         /\ \A s \in Statuses : [row EXCEPT ![l].status = s] \in [Labs -> Rows]
<1>1. ASSUME NEW m \in Labs
      PROVE  /\ [row[m] EXCEPT !.refs.vmOverlayPath = TRUE] \in Rows
             /\ \A b \in BOOLEAN : [row[m] EXCEPT !.refs.guacamoleUser = b] \in Rows
             /\ \A s \in Statuses : [row[m] EXCEPT !.status = s] \in Rows
  <2>1. row[m] \in Rows
    BY DEF RowT
  <2>2. row[m].refs \in Refs
    BY <2>1 DEF Rows
  <2>3. \A f \in Refs : [row[m] EXCEPT !.refs = f] \in Rows
    BY <2>1 DEF Rows
  <2>4. [row[m].refs EXCEPT !.vmOverlayPath = TRUE] \in Refs
    BY <2>2 DEF Refs
  <2>5. \A b \in BOOLEAN : [row[m].refs EXCEPT !.guacamoleUser = b] \in Refs
    BY <2>2 DEF Refs
  <2>6. \A s \in Statuses : [row[m] EXCEPT !.status = s] \in Rows
    BY <2>1 DEF Rows
  <2> QED BY <2>3, <2>4, <2>5, <2>6
<1>2. DOMAIN row = Labs /\ \A m \in Labs : row[m] \in Rows
  BY DEF RowT
<1>3. \A r : r \in Rows => [row EXCEPT ![l] = r] \in [Labs -> Rows]
  BY DEF RowT
<1>4. ASSUME l \notin Labs, NEW r PROVE [row EXCEPT ![l] = r] \in [Labs -> Rows]
  BY <1>4 DEF RowT
<1> QED BY <1>1, <1>2, <1>3, <1>4 DEF RowT

\* provisionNew keeps the types.
LEMMA TypeProvision ==
  ASSUME TypeOK, LabsInHandExist, NEW p \in Procs, Provision(p)
  PROVE  TypeOK'
<1>0. RowT /\ TaskT /\ HostT /\ LoopT /\ RestT
  BY TypeParts
<1>q. LoopT /\ UNCHANGED <<agenda, returned>> /\ AbortTick(p) => LoopT'
  BY DEF LoopT, AbortTick
<1>v. ASSUME NEW u PROVE EnsuredVolume(u) \in [Users -> {"absent", "empty", "work"}]
  BY <1>0 DEF HostT, EnsuredVolume
<1>1. ASSUME CreateRow(p) PROVE TypeOK'
  <2>1. PICK l \in Labs, onNode \in BOOLEAN :
          /\ row' = [row EXCEPT ![l] =
               [NoRow EXCEPT !.status = "provisioning",
                             !.user = task[p].user,
                             !.isPrewarm = (task[p].user = NoUser),
                             !.refs.volumeName =
                                 (task[p].user # NoUser /\ ~VmLab),
                             !.refs.nodeId = onNode]]
          /\ task' = [task EXCEPT ![p] =
               [@ EXCEPT !.lab = l,
                         !.pc = IF VmLab THEN "overlay" ELSE "provision"]]
    BY <1>1 DEF CreateRow
  <2>2. TaskT'
    <3>1. [task[p] EXCEPT !.lab = l,
             !.pc = IF VmLab THEN "overlay" ELSE "provision"] \in Tasks
      <4>1. task[p] \in Tasks /\ {"overlay", "provision"} \subseteq Pcs
        BY <1>0 DEF TaskT, Pcs
      <4> QED BY <4>1 DEF Tasks
    <3> QED BY <1>0, <2>1, <3>1 DEF TaskT
  <2>3. task[p].user \in Users \cup {NoUser}
    BY <1>0 DEF TaskT, Tasks
  <2>4. RowT'
    BY <1>0, <2>1, <2>3 DEF RowT, Rows, NoRow, NoRefs, Refs, Statuses
  <2>5. UNCHANGED <<hostVars, loopVars, crashes, tidy>>
    BY <1>1 DEF CreateRow
  <2> QED BY <1>0, <2>2, <2>4, <2>5, TypeFrame, TypeParts
<1>2. ASSUME CreateThrows(p) PROVE TypeOK'
  BY <1>0, <1>q, <1>2, TaskMoves, TypeFrame, TypeParts DEF CreateThrows
<1>3. ASSUME CreateOverlay(p) PROVE TypeOK'
  <2>1. TaskT'
    BY <1>0, <1>3, TaskMoves DEF CreateOverlay, Pcs
  <2>2. task[p].lab \in Labs
    BY <1>0, <1>3 DEF TaskT, Tasks, LabsInHandExist, CreateOverlay, At
  <2>3. HostT'
    BY <1>0, <1>3, <2>2 DEF CreateOverlay, HostT
  <2> QED BY <1>0, <1>3, <2>1, <2>3, TypeFrame, TypeParts DEF CreateOverlay
<1>4. ASSUME RecordOverlay(p) PROVE TypeOK'
  <2>1. TaskT'
    BY <1>0, <1>4, TaskMoves DEF RecordOverlay, Pcs
  <2>2. RowT'
    BY <1>0, <1>4, RowUpdates DEF RecordOverlay, RowT
  <2> QED BY <1>0, <1>4, <2>1, <2>2, TypeFrame, TypeParts DEF RecordOverlay
<1>5. ASSUME StartContainer(p) PROVE TypeOK'
  <2>1. TaskT'
    BY <1>0, <1>5, TaskMoves DEF StartContainer, Pcs
  <2>2. HostT'
    BY <1>0, <1>5, <1>v DEF StartContainer, HostT
  <2> QED BY <1>0, <1>5, <2>1, <2>2, TypeFrame, TypeParts DEF StartContainer
<1>6. ASSUME StartContainerFails(p) PROVE TypeOK'
  <2>1. TaskT'
    BY <1>0, <1>6, TaskMoves DEF StartContainerFails, Pcs
  <2>2. PICK c \in {"none", "running", "stopped"} :
          /\ container' = [container EXCEPT ![task[p].lab] = c]
          /\ volume' \in {volume, EnsuredVolume(task[p].user)}
    BY <1>6 DEF StartContainerFails
  <2>3. HostT'
    <3>1. volume' \in [Users -> {"absent", "empty", "work"}]
      BY <1>0, <1>v, <2>2 DEF HostT
    <3>2. UNCHANGED <<overlay, mapping>>
      BY <1>6 DEF StartContainerFails
    <3> QED BY <1>0, <2>2, <3>1, <3>2 DEF HostT
  <2> QED BY <1>0, <1>6, <2>1, <2>3, TypeFrame, TypeParts DEF StartContainerFails
<1>7. ASSUME WaitForRdp(p) PROVE TypeOK'
  <2>1. TaskT'
    BY <1>0, <1>7, TaskMoves DEF WaitForRdp, Pcs
  <2> QED BY <1>0, <1>7, <2>1, TypeFrame, TypeParts DEF WaitForRdp
<1>8. ASSUME MarkReady(p) PROVE TypeOK'
  <2>1. AfterAcquire("ready") \in Pcs
    BY AfterAcquireType DEF Pcs
  <2>2. TaskT'
    BY <1>0, <1>8, <2>1, TaskMoves DEF MarkReady
  <2>3. RowT'
    <3>1. \A r \in Rows : [r EXCEPT !.status = "ready", !.refs.runtimeId = TRUE,
                                    !.inactive = FALSE] \in Rows
      BY DEF Rows, Refs, Statuses
    <3> QED BY <1>0, <1>8, <3>1 DEF MarkReady, RowT
  <2> QED BY <1>0, <1>8, <2>2, <2>3, TypeFrame, TypeParts DEF MarkReady
<1>9. ASSUME CleanUp(p) PROVE TypeOK'
  <2>1. TaskT'
    BY <1>0, <1>9, TaskMoves DEF CleanUp, Pcs
  <2>2. HostT'
    BY <1>0, <1>9 DEF CleanUp, HostT
  <2>3. RestT'
    BY <1>0, <1>9, TidyMoves, TypeFrame DEF CleanUp
  <2> QED BY <1>0, <1>9, <2>1, <2>2, <2>3, TypeFrame, TypeParts DEF CleanUp
<1>10. ASSUME MarkFailed(p) PROVE TypeOK'
  <2>1. RowT'
    BY <1>0, <1>10, RowUpdates DEF MarkFailed, RowT, Statuses
  <2> QED BY <1>0, <1>q, <1>10, <2>1, TaskMoves, TypeFrame, TypeParts DEF MarkFailed
<1> QED
  BY <1>1, <1>2, <1>3, <1>4, <1>5, <1>6, <1>7, <1>8, <1>9, <1>10 DEF Provision

\* Credentials, destroys and power operations keep the types.
LEMMA TypeRest ==
  ASSUME TypeOK, LabsInHandExist, NEW p \in Procs,
         Guacamole(p) \/ Destroy(p) \/ Power(p)
  PROVE  TypeOK'
<1>0. RowT /\ TaskT /\ HostT /\ LoopT /\ RestT
  BY TypeParts
<1>r. task[p].refs \in Refs /\ task[p].wipe \in BOOLEAN
  BY <1>0 DEF TaskT, Tasks
<1>a. \A s : AfterAcquire(s) \in Pcs
  BY AfterAcquireType DEF Pcs
<1>1. ASSUME MintCredentials(p) PROVE TypeOK'
  <2>1. TaskT'
    BY <1>0, <1>1, TaskMoves DEF MintCredentials, Pcs
  <2>2. RowT'
    <3>1. [row EXCEPT ![task[p].lab].refs.guacamoleUser = TRUE] \in [Labs -> Rows]
      BY <1>0, RowUpdates
    <3> QED BY <1>0, <1>1, <3>1 DEF MintCredentials, RowT
  <2> QED BY <1>0, <1>1, <2>1, <2>2, TypeFrame, TypeParts DEF MintCredentials
<1>2. ASSUME PublishMapping(p) PROVE TypeOK'
  <2>1. TaskT'
    BY <1>0, <1>2, TaskMoves DEF PublishMapping, Pcs
  <2>2. HostT'
    BY <1>0, <1>2 DEF PublishMapping, HostT, Rendered
  <2> QED BY <1>0, <1>2, <2>1, <2>2, TypeFrame, TypeParts DEF PublishMapping
<1>3. ASSUME HandOff(p) PROVE TypeOK'
  BY <1>0, <1>3, TaskMoves, TypeFrame, TypeParts DEF HandOff
<1>4. ASSUME RemoveContainer(p) PROVE TypeOK'
  <2>1. TaskT'
    BY <1>0, <1>4, <1>r, TaskMoves, DestroyPlaces DEF RemoveContainer, Pcs
  <2>2. HostT'
    BY <1>0, <1>4 DEF RemoveContainer, HostT
  <2>3. RestT'
    BY <1>0, <1>4, TidyMoves, TypeFrame DEF RemoveContainer
  <2> QED BY <1>0, <1>4, <2>1, <2>2, <2>3, TypeFrame, TypeParts DEF RemoveContainer
<1>5. ASSUME RemoveVolume(p) PROVE TypeOK'
  <2>1. TaskT'
    BY <1>0, <1>5, <1>r, TaskMoves, DestroyPlaces DEF RemoveVolume, Pcs
  <2>2. HostT'
    BY <1>0, <1>5 DEF RemoveVolume, HostT
  <2> QED BY <1>0, <1>5, <2>1, <2>2, TypeFrame, TypeParts DEF RemoveVolume
<1>6. ASSUME RemoveOverlay(p) PROVE TypeOK'
  <2>1. TaskT'
    BY <1>0, <1>6, <1>r, TaskMoves, DestroyPlaces DEF RemoveOverlay, Pcs
  <2>2. HostT'
    BY <1>0, <1>6 DEF RemoveOverlay, HostT
  <2>3. RestT'
    BY <1>0, <1>6, TidyMoves, TypeFrame DEF RemoveOverlay
  <2> QED BY <1>0, <1>6, <2>1, <2>2, <2>3, TypeFrame, TypeParts DEF RemoveOverlay
<1>7. ASSUME Unmap(p) PROVE TypeOK'
  <2>1. TaskT'
    BY <1>0, <1>7, TaskMoves DEF Unmap, Pcs
  <2>2. [row EXCEPT ![task[p].lab].refs.guacamoleUser = FALSE] \in [Labs -> Rows]
    BY <1>0, RowUpdates
  <2>3. RowT'
    BY <1>0, <1>7, <2>2 DEF Unmap, RowT
  <2>4. HostT'
    BY <1>0, <1>7 DEF Unmap, HostT, Rendered
  <2>5. RestT'
    BY <1>0, <1>7, TidyMoves, TypeFrame DEF Unmap
  <2> QED BY <1>0, <1>7, <2>1, <2>3, <2>4, <2>5, TypeFrame, TypeParts DEF Unmap
<1>8. ASSUME MarkTerminated(p) PROVE TypeOK'
  <2>1. RowT'
    BY <1>0, <1>8, RowUpdates DEF MarkTerminated, RowT, Statuses
  <2> QED BY <1>0, <1>8, <2>1, TaskMoves, TypeFrame, TypeParts DEF MarkTerminated
<1>9. ASSUME StopContainer(p) PROVE TypeOK'
  <2>1. TaskT'
    BY <1>0, <1>9, TaskMoves DEF StopContainer, Pcs
  <2>2. HostT'
    BY <1>0, <1>9 DEF StopContainer, HostT
  <2> QED BY <1>0, <1>9, <2>1, <2>2, TypeFrame, TypeParts DEF StopContainer
<1>10. ASSUME MarkPaused(p) PROVE TypeOK'
  <2>1. \A r \in Rows : [r EXCEPT !.status = "paused", !.forgotten = FALSE] \in Rows
    BY DEF Rows, Statuses
  <2>2. RowT'
    BY <1>0, <1>10, <2>1 DEF MarkPaused, RowT
  <2> QED BY <1>0, <1>10, <2>2, TaskMoves, TypeFrame, TypeParts DEF MarkPaused
<1>11. ASSUME ResumeContainer(p) PROVE TypeOK'
  <2>1. TaskT'
    BY <1>0, <1>11, TaskMoves DEF ResumeContainer, Pcs
  <2>2. HostT'
    BY <1>0, <1>11 DEF ResumeContainer, HostT
  <2> QED BY <1>0, <1>11, <2>1, <2>2, TypeFrame, TypeParts DEF ResumeContainer
<1>12. ASSUME RestartContainer(p) PROVE TypeOK'
  <2>1. TaskT'
    BY <1>0, <1>12, TaskMoves DEF RestartContainer, Pcs
  <2>2. HostT'
    BY <1>0, <1>12 DEF RestartContainer, HostT
  <2> QED BY <1>0, <1>12, <2>1, <2>2, TypeFrame, TypeParts DEF RestartContainer
<1>13. ASSUME MarkResumed(p) PROVE TypeOK'
  <2>1. \A r \in Rows : [r EXCEPT !.status = "ready", !.inactive = FALSE,
                                  !.forgotten = FALSE] \in Rows
    BY DEF Rows, Statuses
  <2>2. RowT'
    BY <1>0, <1>13, <2>1 DEF MarkResumed, RowT
  <2>3. TaskT'
    BY <1>0, <1>13, <1>a, TaskMoves DEF MarkResumed
  <2>4. task[p].lab \in Labs
    BY <1>0, <1>13 DEF MarkResumed, At, LabsInHandExist, TaskT, Tasks
  <2>5. LoopT'
    BY <1>0, <1>13, <2>4 DEF MarkResumed, LoopT
  <2> QED BY <1>0, <1>13, <2>2, <2>3, <2>5, TypeFrame, TypeParts DEF MarkResumed
<1> QED
  BY <1>1, <1>2, <1>3, <1>4, <1>5, <1>6, <1>7, <1>8, <1>9, <1>10, <1>11, <1>12,
     <1>13 DEF Guacamole, Destroy, Power

\* Reading a row and starting to work on it keeps the types.
LEMMA TypeStarts ==
  ASSUME TypeOK, NEW p \in Procs, NEW l \in Labs
  PROVE  /\ \A w \in BOOLEAN : DestroyTask(l, w) \in Tasks
         /\ \A pc \in {"stop", "start", "reboot"} :
              [NoTask EXCEPT !.pc = pc, !.lab = l] \in Tasks
<1>0. RowT /\ TaskT
  BY TypeParts
<1>1. ASSUME NEW w \in BOOLEAN PROVE DestroyTask(l, w) \in Tasks
  <2>1. row[l].refs \in Refs /\ row[l].user \in Users \cup {NoUser}
    BY <1>0 DEF RowT, Rows
  <2>2. FromRemove(row[l].refs, w) \in Pcs
    BY <2>1, DestroyPlaces DEF Pcs
  <2> QED BY <2>1, <2>2 DEF DestroyTask, Tasks
<1>2. ASSUME NEW pc \in {"stop", "start", "reboot"}
      PROVE  [NoTask EXCEPT !.pc = pc, !.lab = l] \in Tasks
  BY DEF NoTask, NoRefs, Refs, Tasks, Pcs
<1> QED BY <1>1, <1>2

\* The admin routes keep the types.
LEMMA TypeAdmin ==
  ASSUME TypeOK, NEW p \in Procs, Admin(p)
  PROVE  TypeOK'
<1>0. RowT /\ TaskT /\ HostT /\ LoopT /\ RestT
  BY TypeParts
<1>1. ASSUME NEW l \in Labs, NEW w \in BOOLEAN, DestroyReads(p, l, w)
      PROVE  TypeOK'
  <2>1. TaskT'
    BY <1>0, <1>1, TypeStarts DEF DestroyReads, TaskT
  <2> QED BY <1>0, <1>1, <2>1, TypeFrame, TidyMoves, TypeParts DEF DestroyReads
<1>2. ASSUME NEW l \in Labs, NEW pc \in {"stop", "start", "reboot"},
             Operate(p, l, pc)
      PROVE  TypeOK'
  <2>1. TaskT'
    BY <1>0, <1>2, TypeStarts DEF Operate, TaskT
  <2> QED BY <1>0, <1>2, <2>1, TypeFrame, TidyMoves, TypeParts DEF Operate
<1> QED BY <1>1, <1>2 DEF Admin, SuspendReads, ResumeReads, RestartReads

\* Reaper and prewarm ticks keep the types; a tick plans at most two provisions.
LEMMA TypeTicks ==
  ASSUME TypeOK, NEW p \in Procs,
         \/ p \in ReaperTicks /\ (ReaperLists(p) \/ ReaperTakes(p))
         \/ p \in PrewarmTicks /\ (PrewarmCounts(p) \/ PrewarmProvisions(p))
  PROVE  TypeOK'
<1>0. RowT /\ TaskT /\ HostT /\ LoopT /\ RestT
  BY TypeParts
<1>1. ASSUME p \in ReaperTicks, ReaperLists(p) PROVE TypeOK'
  <2>1. PICK rule \in 1..3 : agenda' = [agenda EXCEPT ![p] =
                                          [rule |-> rule, queue |-> Reap(rule)]]
    <3>1. agenda[p].rule \in 1..3
      BY <1>0, <1>1 DEF LoopT
    <3>2. (IF agenda[p].rule = 3 THEN 1 ELSE agenda[p].rule + 1) \in 1..3
      BY <3>1
    <3> QED BY <1>1, <3>2 DEF ReaperLists
  <2>2. Reap(rule) \subseteq Labs
    BY <2>1 DEF Reap, ReapExpired, ReapIdle, ReapForgotten
  <2>3. UNCHANGED <<row, hostVars, task, quota, returned, crashes, tidy>>
    BY <1>1 DEF ReaperLists
  <2>4. LoopT'
    BY <1>0, <2>1, <2>2, <2>3 DEF LoopT
  <2> QED BY <1>0, <2>3, <2>4, TypeFrame, TypeParts
<1>2. ASSUME p \in ReaperTicks, ReaperTakes(p) PROVE TypeOK'
  <2>1. PICK l \in agenda[p].queue :
          /\ agenda' = [agenda EXCEPT ![p].queue = @ \ {l}]
          /\ \/ task' = [task EXCEPT ![p] = DestroyTask(l, TRUE)] /\ Enter(p, l)
             \/ /\ task' = [task EXCEPT ![p] =
                              [NoTask EXCEPT !.pc = "stop", !.lab = l]]
                /\ Enter(p, l)
             \/ UNCHANGED <<task, tidy>>
    BY <1>2 DEF ReaperTakes, ReaperHandles, ReaperSkips
  <2>2. l \in Labs
    BY <1>0, <1>2 DEF LoopT
  <2>3. UNCHANGED <<row, hostVars, quota, returned, crashes>>
    BY <1>2 DEF ReaperTakes, ReaperHandles, ReaperSkips
  <2>4. LoopT'
    BY <1>0, <2>1, <2>3 DEF LoopT
  <2>5. TaskT'
    BY <1>0, <2>1, <2>2, TypeStarts DEF TaskT
  <2>6. RestT'
    BY <1>0, <2>1, <2>3, TidyMoves, TypeFrame
  <2> QED BY <1>0, <2>3, <2>4, <2>5, <2>6, TypeFrame, TypeParts
<1>3. ASSUME p \in PrewarmTicks, PrewarmCounts(p) PROVE TypeOK'
  <2>1. IsFiniteSet(Pool) /\ Cardinality(Pool) \in Nat
    <3>1. Pool \subseteq 1..MaxLabs
      BY DEF Pool, Labs
    <3>2. IsFiniteSet(1..MaxLabs)
      BY LifecycleAssumption, FS_Interval
    <3>3. IsFiniteSet(Pool)
      BY <3>1, <3>2, FS_Subset
    <3> QED BY <3>3, FS_CardinalityType
  <2>2. Burst(PoolTarget - Cardinality(Pool)) \in 0..2
    BY <1>3, <2>1, LifecycleAssumption DEF PrewarmCounts, Burst
  <2>3. LoopT'
    BY <1>0, <1>3, <2>2 DEF PrewarmCounts, LoopT
  <2> QED BY <1>0, <1>3, <2>3, TypeFrame, TypeParts DEF PrewarmCounts
<1>4. ASSUME p \in PrewarmTicks, PrewarmProvisions(p) PROVE TypeOK'
  <2>1. LoopT'
    BY <1>0, <1>4 DEF PrewarmProvisions, LoopT
  <2>2. TaskT'
    BY <1>0, <1>4 DEF PrewarmProvisions, TaskT, NoTask, NoRefs, Refs, Tasks, Pcs
  <2> QED BY <1>0, <1>4, <2>1, <2>2, TypeFrame, TypeParts DEF PrewarmProvisions
<1> QED BY <1>1, <1>2, <1>3, <1>4

\* Students, time, Docker and restarts keep the types.
LEMMA TypeEnvironment ==
  ASSUME TypeOK, Environment \/ ControlPlaneRestarts
  PROVE  TypeOK'
<1>0. RowT /\ TaskT /\ HostT /\ LoopT /\ RestT
  BY TypeParts
<1>1. ASSUME NEW l \in Labs, NEW past \in BOOLEAN, Extend(l, past) PROVE TypeOK'
  <2>1. RowT'
    BY <1>0, <1>1 DEF Extend, RowT, Rows
  <2> QED BY <1>0, <1>1, <2>1, TypeFrame, TypeParts DEF Extend
<1>2. ASSUME NEW l \in Labs, TimePasses(l) PROVE TypeOK'
  <2>1. RowT'
    <3>1. /\ [row EXCEPT ![l].expired = TRUE] \in [Labs -> Rows]
          /\ [row EXCEPT ![l].inactive = TRUE] \in [Labs -> Rows]
          /\ [row EXCEPT ![l].forgotten = TRUE] \in [Labs -> Rows]
      BY <1>0 DEF RowT, Rows
    <3> QED BY <1>2, <3>1 DEF TimePasses, RowT
  <2> QED BY <1>0, <1>2, <2>1, TypeFrame, TypeParts DEF TimePasses
<1>3. ASSUME NEW l \in Labs, StudentWorks(l) PROVE TypeOK'
  <2>1. RowT'
    BY <1>0, <1>3 DEF StudentWorks, RowT, Rows
  <2>2. HostT'
    BY <1>0, <1>3 DEF StudentWorks, HostT
  <2> QED BY <1>0, <1>3, <2>1, <2>2, TypeFrame, TypeParts DEF StudentWorks
<1>4. ASSUME NEW l \in Labs, ContainerExits(l) PROVE TypeOK'
  <2>1. HostT'
    BY <1>0, <1>4 DEF ContainerExits, HostT
  <2> QED BY <1>0, <1>4, <2>1, TypeFrame, TypeParts DEF ContainerExits
<1>5. ASSUME ControlPlaneRestarts PROVE TypeOK'
  <2>1. TaskT'
    BY <1>5 DEF ControlPlaneRestarts, TaskT, NoTask, NoRefs, Refs, Tasks, Pcs
  <2>2. LoopT'
    BY <1>0, <1>5 DEF ControlPlaneRestarts, LoopT, NoAgenda
  <2>3. RestT'
    BY <1>0, <1>5, LifecycleAssumption DEF ControlPlaneRestarts, RestT
  <2> QED BY <1>0, <1>5, <2>1, <2>2, <2>3, TypeFrame, TypeParts
          DEF ControlPlaneRestarts
<1> QED BY <1>1, <1>2, <1>3, <1>4, <1>5 DEF Environment

\* Every step, and stuttering, keeps the types.
LEMMA TypeNext == TypeOK /\ LabsInHandExist /\ [Next]_vars => TypeOK'
<1> SUFFICES ASSUME TypeOK, LabsInHandExist, [Next]_vars PROVE TypeOK'
  OBVIOUS
<1>0. RowT /\ TaskT /\ HostT /\ LoopT /\ RestT
  BY TypeParts
<1>1. CASE UNCHANGED vars
  <2>1. UNCHANGED <<row, task, hostVars, loopVars, crashes, tidy>>
    BY <1>1 DEF vars, hostVars, loopVars
  <2> QED BY <1>0, <2>1, TypeFrame, TypeParts
<1>2. CASE Next
  BY <1>2, TypeAcquire, TypeProvision, TypeRest, TypeAdmin, TypeTicks,
     TypeEnvironment DEF Next, Procs
<1> QED BY <1>1, <1>2

-----------------------------------------------------------------------------
(* What a step does to rows, tasks and agendas, seen from the invariant *)

Between == {"idle", "claim", "create"}   \* places without a lab in hand
Switching == {"stop", "pause", "start", "reboot", "resumed"}

\* A step other than the birth or the claim of a lab keeps what a row says of
\* its lab's identity; its runtimeId is set, and it fails, only by its provision.
RowEffect ==
  \A l \in Labs :
    /\ row'[l].user = row[l].user
    /\ row'[l].isPrewarm = row[l].isPrewarm
    /\ row'[l].refs.volumeName = row[l].refs.volumeName
    /\ row'[l].status = "none" <=> row[l].status = "none"
    /\ row[l].refs.runtimeId => row'[l].refs.runtimeId
    /\ row'[l].status \in {"ready", "paused"} => row'[l].refs.runtimeId
    /\ row'[l].status \in {"none", "failed"} => ~row'[l].refs.runtimeId
    /\ \/ /\ row'[l].refs.runtimeId => row[l].refs.runtimeId
          /\ row'[l].status = "failed" => row[l].status = "failed"
       \/ \E p \in Procs : /\ task[p].lab = l
                           /\ task[p].pc \in Provisioning
                           /\ task'[p].pc \notin Provisioning

\* What p may be doing after a step that is neither a birth nor a claim.
TaskSound(p) ==
  LET t == task'[p] IN
  /\ t.pc \in Provisioning =>
       /\ task[p].pc \in Provisioning
       /\ t.lab = task[p].lab
       /\ t.user = task[p].user
  /\ t.pc \notin Between => t.lab # NoLab
  /\ t.lab # NoLab => /\ row[t.lab].status # "none"
                      /\ t.user # NoUser => row[t.lab].user = t.user
  /\ t.pc \in Switching => row[t.lab].refs.runtimeId
  /\ t.pc = "volume" => t.wipe
  /\ p \in ReaperTicks => /\ t.pc # "create"
                          /\ t.lab # NoLab => ~row[t.lab].isPrewarm
TaskEffect == \A q \in Procs : TaskSound(q)

AgendaEffect ==
  \A p \in ReaperTicks : \A l \in agenda'[p].queue :
    row[l].status # "none" /\ ~row[l].isPrewarm

\* Everything in the invariant that is not about Docker.
Control ==
  /\ HoldsOwnLab
  /\ ReaperSparesPool
  /\ PoolIsOwnerless
  /\ VolumesAreStudents
  /\ RuntimeIdIsKnown
  /\ LabsInHandExist
  /\ ProvisionIsExclusive
  /\ PowerNeedsRuntimeId
  /\ VolumeStepWipes
  /\ ReaperWorksOnLabs

\* The types of what the invariant speaks of.
LEMMA Fields ==
  ASSUME TypeOK
  PROVE  /\ \A l \in Labs : row[l] \in Rows /\ row[l].refs \in Refs
         /\ \A p \in Procs : /\ task[p].lab \in Labs \cup {NoLab}
                             /\ task[p].user \in Users \cup {NoUser}
                             /\ task[p].refs \in Refs
                             /\ task[p].wipe \in BOOLEAN
                             /\ task[p].pc \in Pcs
         /\ \A p \in ReaperTicks : agenda[p].queue \subseteq Labs
         /\ NoLab \notin Labs
         /\ ReaperTicks \subseteq Procs
BY DEF TypeOK, Rows, Tasks, Labs, NoLab, Procs

\* Steps with these effects preserve the control part of the invariant.
LEMMA EffectsPreserve ==
  ASSUME Inv, TypeOK', RowEffect, TaskEffect, AgendaEffect
  PROVE  Control'
<1>0. Control /\ TypeOK
  BY DEF Inv, Control
<1>1. \A p \in Procs : task'[p].lab \in Labs \cup {NoLab}
  BY DEF TypeOK, Tasks
<1>2. NoLab \notin Labs /\ ReaperTicks \subseteq Procs
  BY <1>0, Fields
<1>3. HoldsOwnLab'
  BY <1>1, <1>2 DEF HoldsOwnLab, RowEffect, TaskEffect, TaskSound
<1>4. ReaperSparesPool'
  BY <1>1, <1>2 DEF ReaperSparesPool, RowEffect, TaskEffect, TaskSound,
                    AgendaEffect
<1>5. PoolIsOwnerless' /\ VolumesAreStudents' /\ RuntimeIdIsKnown'
  BY <1>0 DEF Control, RowEffect, PoolIsOwnerless, VolumesAreStudents,
              RuntimeIdIsKnown
<1>6. LabsInHandExist'
  BY <1>1, <1>2 DEF LabsInHandExist, RowEffect, TaskEffect, TaskSound, Between
<1>7. ProvisionIsExclusive'
  <2> SUFFICES ASSUME NEW p \in Procs, task'[p].pc \in Provisioning
               PROVE  /\ row'[task'[p].lab].user = task'[p].user
                      /\ row'[task'[p].lab].status # "failed"
                      /\ ~row'[task'[p].lab].refs.runtimeId
                      /\ \A q \in Procs :
                           /\ task'[q].pc \in Provisioning
                           /\ task'[q].lab = task'[p].lab
                           => q = p
    BY DEF ProvisionIsExclusive
  <2>1. /\ task[p].pc \in Provisioning
        /\ task'[p].lab = task[p].lab
        /\ task'[p].user = task[p].user
    BY DEF TaskEffect, TaskSound
  <2>2. task[p].lab \in Labs
    BY <2>1, <1>1, <1>2, <1>0 DEF Control, LabsInHandExist, Provisioning
  <2>3. \A q \in Procs : /\ task'[q].pc \in Provisioning
                         /\ task'[q].lab = task'[p].lab
                         => q = p
    BY <1>0, <2>1 DEF Control, ProvisionIsExclusive, TaskEffect, TaskSound
  <2>4. \A q \in Procs : /\ task[q].pc \in Provisioning
                         /\ task[q].lab = task[p].lab
                         => q = p
    BY <1>0, <2>1 DEF Control, ProvisionIsExclusive
  <2>5. /\ row[task[p].lab].user = task[p].user
        /\ row[task[p].lab].status # "failed"
        /\ ~row[task[p].lab].refs.runtimeId
    BY <1>0, <2>1 DEF Control, ProvisionIsExclusive
  <2>6. /\ row'[task[p].lab].user = task[p].user
        /\ row'[task[p].lab].status # "failed"
        /\ ~row'[task[p].lab].refs.runtimeId
    BY <2>2, <2>4, <2>5 DEF RowEffect
  <2> QED BY <2>1, <2>3, <2>6
<1>8. PowerNeedsRuntimeId'
  BY <1>1, <1>2, <1>0 DEF PowerNeedsRuntimeId, RowEffect, TaskEffect, TaskSound,
     Switching, Between, Control
<1>9. VolumeStepWipes'
  BY DEF VolumeStepWipes, TaskEffect, TaskSound
<1>10. ReaperWorksOnLabs'
  <2>1. \A p \in ReaperTicks : agenda'[p].queue \subseteq Labs
    BY DEF TypeOK
  <2> QED BY <1>2, <2>1 DEF ReaperWorksOnLabs, RowEffect, TaskEffect, TaskSound,
                            AgendaEffect
<1> QED BY <1>3, <1>4, <1>5, <1>6, <1>7, <1>8, <1>9, <1>10 DEF Control

\* The invariant says that nothing happening is sound.
LEMMA StutterEffects ==
  ASSUME Inv
  PROVE  /\ UNCHANGED row => RowEffect
         /\ \A q \in Procs : task'[q] = task[q] => TaskSound(q)
         /\ UNCHANGED agenda => AgendaEffect
<1>0. TypeOK /\ Control
  BY DEF Inv, Control
<1>1. UNCHANGED row => RowEffect
  BY <1>0 DEF Control, RowEffect, RuntimeIdIsKnown
<1>2. ASSUME NEW q \in Procs, task'[q] = task[q] PROVE TaskSound(q)
  <2>1. task[q].lab \in Labs \cup {NoLab} /\ ReaperTicks \subseteq Procs
    BY <1>0, Fields
  <2> QED BY <1>0, <1>2, <2>1
          DEF TaskSound, Control, HoldsOwnLab, LabsInHandExist, ReaperSparesPool,
              PowerNeedsRuntimeId, VolumeStepWipes, ReaperWorksOnLabs,
              Switching, Between
<1>3. UNCHANGED agenda => AgendaEffect
  BY <1>0, Fields DEF Control, AgendaEffect, ReaperWorksOnLabs, ReaperSparesPool
<1> QED BY <1>1, <1>2, <1>3

\* Moving on to pc is sound when pc needs nothing the task does not have.
LEMMA GotoSound ==
  ASSUME Inv, NEW p \in Procs, NEW pc \in Pcs, Goto(p, pc),
         pc \in Provisioning => task[p].pc \in Provisioning,
         task[p].pc \in Between => pc = "create",
         pc \in Switching => row[task[p].lab].refs.runtimeId,
         pc = "volume" => task[p].wipe,
         pc = "create" => p \notin ReaperTicks
  PROVE  TaskEffect
<1>0. TypeOK
  BY DEF Inv
<1>1. \A q \in Procs \ {p} : task'[q] = task[q]
  BY <1>0 DEF Goto, TypeOK
<1>2. /\ task'[p].pc = pc
      /\ task'[p].lab = task[p].lab
      /\ task'[p].user = task[p].user
      /\ task'[p].wipe = task[p].wipe
  BY <1>0 DEF Goto, TypeOK, Tasks
<1>3. task[p].lab \in Labs \cup {NoLab}
  BY <1>0, Fields
<1>4. TaskSound(p)
  BY <1>2, <1>3 DEF Inv, TaskSound, HoldsOwnLab, LabsInHandExist,
                    ReaperSparesPool, Between
<1> QED BY <1>1, <1>4, StutterEffects DEF TaskEffect

\* A process that is done works on no lab.
LEMMA FinishSound ==
  ASSUME Inv, NEW p \in Procs, Finish(p)
  PROVE  TaskEffect
<1>1. \A q \in Procs \ {p} : task'[q] = task[q]
  BY DEF Inv, Finish, TypeOK
<1>2. task'[p] = NoTask
  BY DEF Inv, Finish, TypeOK
<1>3. TaskSound(p)
  BY <1>2 DEF NoTask, TaskSound, Provisioning, Between, Switching
<1> QED BY <1>1, <1>3, StutterEffects DEF TaskEffect

\* Starting with t on an existing lab is sound under the same conditions.
LEMMA StartSound ==
  ASSUME Inv, NEW p \in Procs, NEW t \in Tasks, task' = [task EXCEPT ![p] = t],
         t.pc \notin Provisioning \cup {"create"},
         t.lab \in Labs, row[t.lab].status # "none",
         t.user # NoUser => row[t.lab].user = t.user,
         t.pc \in Switching => row[t.lab].refs.runtimeId,
         t.pc = "volume" => t.wipe,
         p \in ReaperTicks => ~row[t.lab].isPrewarm
  PROVE  TaskEffect
<1>0. TypeOK
  BY DEF Inv
<1>1. \A q \in Procs \ {p} : task'[q] = task[q]
  BY <1>0 DEF TypeOK
<1>2. task'[p] = t /\ NoLab \notin Labs
  BY <1>0, Fields DEF TypeOK
<1>3. TaskSound(p)
  BY <1>2 DEF TaskSound
<1> QED BY <1>1, <1>3, StutterEffects DEF TaskEffect

-----------------------------------------------------------------------------
(* The effects of each action *)

Effects == RowEffect /\ TaskEffect /\ AgendaEffect

\* Looking up, bumping and finding nothing to claim have sound effects.
LEMMA AcquireEffects ==
  ASSUME Inv, NEW p \in Requests, Acquire(p), ~ClaimPrewarm(p)
  PROVE  Effects
<1>0. TypeOK /\ RuntimeIdIsKnown /\ p \in Procs /\ p \notin ReaperTicks
  BY LifecycleAssumption DEF Inv, Procs
<1>p. \A l \in Labs : AfterAcquire(row[l].status) \in Switching
                        => row[l].refs.runtimeId
  BY <1>0, AfterAcquireType DEF RuntimeIdIsKnown, Switching
<1>1. ASSUME NEW u \in Users, AcquireFindsOwn(p, u) PROVE Effects
  <2>0. PICK l \in LabsOf(u) :
          \E pc \in {"bump", AfterAcquire(row[l].status)} :
            task' = [task EXCEPT ![p] =
                       [NoTask EXCEPT !.pc = pc, !.lab = l, !.user = u]]
    BY <1>1 DEF AcquireFindsOwn, Newest
  <2>1. PICK pc \in {"bump", AfterAcquire(row[l].status)} :
          task' = [task EXCEPT ![p] =
                     [NoTask EXCEPT !.pc = pc, !.lab = l, !.user = u]]
    BY <2>0
  <2>a. pc \in {"bump", "start", "mint", "handoff"}
    BY AfterAcquireType
  <2> DEFINE t == [NoTask EXCEPT !.pc = pc, !.lab = l, !.user = u]
  <2>2. l \in Labs /\ row[l].user = u /\ row[l].status # "none"
    BY DEF LabsOf, Reusable
  <2>3. t \in Tasks
    BY <2>2, <2>a DEF Tasks, NoTask, NoRefs, Refs, Pcs
  <2>4. /\ t.lab = l /\ t.user = u
        /\ t.pc \in {"bump", "start", "mint", "handoff"}
        /\ t.pc \in Switching => row[l].refs.runtimeId
    BY <1>p, <2>a, <2>2 DEF NoTask, Switching
  <2>5. t.pc \notin Provisioning \cup {"create"} /\ t.pc # "volume"
    BY <2>4 DEF Provisioning
  <2>6. TaskEffect
    <3> HIDE DEF t
    <3> QED BY <1>0, <2>1, <2>2, <2>3, <2>4, <2>5, StartSound DEF t
  <2> QED BY <1>1, <2>6, StutterEffects DEF AcquireFindsOwn, Effects, loopVars
<1>2. ASSUME NEW u \in Users, RedeemAttached(p, u) PROVE Effects
  <2>1. PICK l \in LabsOf(u) :
          task' = [task EXCEPT ![p] =
            [NoTask EXCEPT !.lab = l, !.user = u,
                           !.pc = AfterAcquire(row[l].status)]]
    BY <1>2 DEF RedeemAttached
  <2> DEFINE t == [NoTask EXCEPT !.lab = l, !.user = u,
                                 !.pc = AfterAcquire(row[l].status)]
  <2>2. l \in Labs /\ row[l].user = u /\ row[l].status # "none"
    BY DEF LabsOf, Reusable
  <2>3. t \in Tasks
    BY <2>2, AfterAcquireType DEF Tasks, NoTask, NoRefs, Refs, Pcs
  <2>4. /\ t.lab = l /\ t.user = u
        /\ t.pc \in {"start", "mint", "handoff"}
        /\ t.pc \in Switching => row[l].refs.runtimeId
    BY <1>p, <2>2, AfterAcquireType DEF NoTask, Switching
  <2>5. t.pc \notin Provisioning \cup {"create"} /\ t.pc # "volume"
    BY <2>4 DEF Provisioning
  <2>6. TaskEffect
    <3> HIDE DEF t
    <3> QED BY <1>0, <2>1, <2>2, <2>3, <2>4, <2>5, StartSound DEF t
  <2> QED BY <1>2, <2>6, StutterEffects DEF RedeemAttached, Effects, loopVars
<1>3. ASSUME NEW u \in Users, AcquireFindsNone(p, u) PROVE Effects
  <2>1. /\ task'[p].pc = "claim" /\ task'[p].lab = NoLab
        /\ \A q \in Procs \ {p} : task'[q] = task[q]
    BY <1>0, <1>3 DEF AcquireFindsNone, TypeOK, NoTask
  <2>2. TaskSound(p)
    BY <1>0, <2>1 DEF TaskSound, Provisioning, Between, Switching
  <2> QED BY <1>3, <2>1, <2>2, StutterEffects
          DEF AcquireFindsNone, Effects, TaskEffect, loopVars
<1>4. ASSUME BumpExpiry(p) PROVE Effects
  <2>1. task[p].lab \in Labs
    BY <1>0, <1>4, Fields DEF BumpExpiry, At, Inv, LabsInHandExist
  <2>2. RowEffect
    <3>1. ASSUME NEW l \in Labs
          PROVE  /\ row'[l].user = row[l].user /\ row'[l].isPrewarm = row[l].isPrewarm
                 /\ row'[l].refs = row[l].refs /\ row'[l].status = row[l].status
      BY <1>0, <1>4 DEF BumpExpiry, TypeOK, Rows
    <3>2. RuntimeIdIsKnown
      BY <1>0
    <3> QED BY <3>1, <3>2 DEF RowEffect, RuntimeIdIsKnown
  <2>3. TaskEffect
    BY <1>0, <1>4, <1>p, <2>1, AfterAcquireType, GotoSound
       DEF BumpExpiry, At, Between, Provisioning, Pcs
  <2> QED BY <1>4, <2>2, <2>3, StutterEffects DEF BumpExpiry, Effects, loopVars
<1>5. ASSUME ClaimNothing(p) PROVE Effects
  <2>1. TaskEffect
    BY <1>0, <1>5, GotoSound DEF ClaimNothing, At, Provisioning, Switching, Pcs
  <2> QED BY <1>5, <2>1, StutterEffects DEF ClaimNothing, Effects, loopVars
<1> QED BY <1>1, <1>2, <1>3, <1>4, <1>5 DEF Acquire

\* Every provision step but the birth of the row has sound effects.
LEMMA ProvisionEffects ==
  ASSUME Inv, NEW p \in Procs, Provision(p), ~CreateRow(p)
  PROVE  Effects
<1>0. TypeOK /\ RuntimeIdIsKnown
  BY DEF Inv
<1>l. task[p].pc \in Provisioning =>
        /\ task[p].lab \in Labs
        /\ row[task[p].lab].status \notin {"none", "failed"}
        /\ ~row[task[p].lab].refs.runtimeId
  BY <1>0, Fields DEF Inv, LabsInHandExist, ProvisionIsExclusive, Provisioning
<1>m. \A pc \in Provisioning \ {"overlay"} :
        task[p].pc \in Provisioning /\ Goto(p, pc) => TaskEffect
  BY GotoSound DEF Provisioning, Between, Switching, Pcs
<1>1. ASSUME CreateThrows(p) PROVE Effects
  BY <1>1, FinishSound, StutterEffects DEF CreateThrows, Effects
<1>2. ASSUME CreateOverlay(p) PROVE Effects
  <2>1. TaskEffect
    BY <1>2, <1>m DEF CreateOverlay, At, Provisioning
  <2> QED BY <1>2, <2>1, StutterEffects DEF CreateOverlay, Effects, loopVars
<1>3. ASSUME RecordOverlay(p) PROVE Effects
  <2>1. TaskEffect
    BY <1>3, <1>m DEF RecordOverlay, At, Provisioning
  <2>2. RowEffect
    <3>1. ASSUME NEW l \in Labs
          PROVE  /\ row'[l].user = row[l].user /\ row'[l].isPrewarm = row[l].isPrewarm
                 /\ row'[l].status = row[l].status
                 /\ row'[l].refs \in {row[l].refs, [row[l].refs EXCEPT !.vmOverlayPath = TRUE]}
      <4>1. row[l] \in Rows
        BY <1>0, Fields
      <4>2. row'[l] = row[l] \/ row'[l] = [row[l] EXCEPT !.refs.vmOverlayPath = TRUE]
        BY <1>0, <1>3 DEF RecordOverlay, TypeOK
      <4> QED BY <4>1, <4>2 DEF Rows
    <3>2. ASSUME NEW l \in Labs
          PROVE  /\ row'[l].refs.volumeName = row[l].refs.volumeName
                 /\ row'[l].refs.runtimeId = row[l].refs.runtimeId
      <4>1. row[l].refs \in Refs
        BY <1>0, Fields
      <4> QED BY <3>1, <4>1 DEF Refs
    <3>3. RuntimeIdIsKnown
      BY <1>0
    <3> QED BY <3>1, <3>2, <3>3 DEF RowEffect, RuntimeIdIsKnown
  <2> QED BY <1>3, <2>1, <2>2, StutterEffects DEF RecordOverlay, Effects, loopVars
<1>4. ASSUME StartContainer(p) PROVE Effects
  <2>1. TaskEffect
    BY <1>4, <1>m DEF StartContainer, At, Provisioning
  <2> QED BY <1>4, <2>1, StutterEffects DEF StartContainer, Effects, loopVars
<1>5. ASSUME StartContainerFails(p) PROVE Effects
  <2>1. TaskEffect
    BY <1>5, <1>m DEF StartContainerFails, At, Provisioning
  <2> QED BY <1>5, <2>1, StutterEffects DEF StartContainerFails, Effects, loopVars
<1>6. ASSUME WaitForRdp(p) PROVE Effects
  <2>1. TaskEffect
    BY <1>6, <1>m DEF WaitForRdp, At, Provisioning
  <2> QED BY <1>6, <2>1, StutterEffects DEF WaitForRdp, Effects, loopVars
<1>7. ASSUME MarkReady(p) PROVE Effects
  <2>0. task[p].pc \in Provisioning /\ task[p].lab \in Labs
    BY <1>7, <1>l DEF MarkReady, At, Provisioning
  <2>1. TaskEffect
    BY <1>7, FinishSound, GotoSound, AfterAcquireType
       DEF MarkReady, At, Between, Provisioning, Switching, Pcs
  <2>2. task'[p].pc \notin Provisioning
    <3>1. CASE Finish(p)
      BY <1>0, <3>1 DEF Finish, TypeOK, NoTask, Provisioning
    <3>2. CASE Goto(p, AfterAcquire("ready"))
      <4>1. task'[p].pc = AfterAcquire("ready")
        BY <1>0, <3>2 DEF Goto, TypeOK, Tasks
      <4> QED BY <4>1, AfterAcquireType DEF Provisioning
    <3> QED BY <1>7, <3>1, <3>2 DEF MarkReady
  <2>3. \A l \in Labs \ {task[p].lab} : row'[l] = row[l]
    BY <1>0, <1>7 DEF MarkReady, TypeOK
  <2>4. LET r == row[task[p].lab]
            s == row'[task[p].lab]
        IN  /\ s.status = "ready" /\ s.refs.runtimeId
            /\ s.user = r.user /\ s.isPrewarm = r.isPrewarm
            /\ s.refs.volumeName = r.refs.volumeName
    BY <1>0, <1>7, <2>0 DEF MarkReady, TypeOK, Rows, Refs
  <2>5. RowEffect
    BY <1>0, <1>l, <2>0, <2>2, <2>3, <2>4 DEF RowEffect, RuntimeIdIsKnown
  <2> QED BY <1>7, <2>1, <2>5, StutterEffects DEF MarkReady, Effects, loopVars
<1>8. ASSUME CleanUp(p) PROVE Effects
  <2>1. TaskEffect
    BY <1>8, <1>m DEF CleanUp, At, Provisioning
  <2> QED BY <1>8, <2>1, StutterEffects DEF CleanUp, Effects, loopVars
<1>9. ASSUME MarkFailed(p) PROVE Effects
  <2>0. task[p].pc \in Provisioning /\ task[p].lab \in Labs
    BY <1>9, <1>l DEF MarkFailed, At, Provisioning
  <2>2. task'[p].pc \notin Provisioning
    BY <1>0, <1>9 DEF MarkFailed, Finish, TypeOK, NoTask, Provisioning
  <2>3. \A l \in Labs \ {task[p].lab} : row'[l] = row[l]
    BY <1>0, <1>9 DEF MarkFailed, TypeOK
  <2>4. LET r == row[task[p].lab]
            s == row'[task[p].lab]
        IN  /\ s.status = "failed" /\ s.refs = r.refs
            /\ s.user = r.user /\ s.isPrewarm = r.isPrewarm
    BY <1>0, <1>9, <2>0 DEF MarkFailed, TypeOK, Rows
  <2>5. RowEffect
    BY <1>0, <1>l, <2>0, <2>2, <2>3, <2>4 DEF RowEffect, RuntimeIdIsKnown
  <2> QED BY <1>9, <2>5, FinishSound, StutterEffects DEF MarkFailed, Effects
<1> QED BY <1>1, <1>2, <1>3, <1>4, <1>5, <1>6, <1>7, <1>8, <1>9 DEF Provision

\* Credentials, destroys and power operations have sound effects.
LEMMA RestEffects ==
  ASSUME Inv, NEW p \in Procs, Guacamole(p) \/ Destroy(p) \/ Power(p)
  PROVE  Effects
<1>0. TypeOK /\ RuntimeIdIsKnown /\ task[p].refs \in Refs /\ task[p].wipe \in BOOLEAN
  BY Fields DEF Inv
<1>l. task[p].pc \notin Between => task[p].lab \in Labs /\ row[task[p].lab].status # "none"
  BY <1>0, Fields DEF Inv, LabsInHandExist, Between
<1>s. task[p].pc \in Switching => row[task[p].lab].refs.runtimeId
  BY DEF Inv, PowerNeedsRuntimeId, Switching
<1>m. \A pc \in {"publish", "handoff", "overlayRm", "unmap", "terminate", "volume"} :
        /\ task[p].pc \notin Between
        /\ pc = "volume" => task[p].wipe
        /\ Goto(p, pc)
        => TaskEffect
  BY GotoSound DEF Provisioning, Switching, Pcs
<1>n. \A pc \in Switching :
        task[p].pc \in Switching /\ Goto(p, pc) => TaskEffect
  BY <1>s, GotoSound DEF Provisioning, Switching, Between, Pcs
<1>r. ASSUME task[p].lab \in Labs,
             \A l \in Labs \ {task[p].lab} : row'[l] = row[l],
             LET r == row[task[p].lab]
                 s == row'[task[p].lab]
             IN  /\ s.user = r.user /\ s.isPrewarm = r.isPrewarm
                 /\ s.refs.volumeName = r.refs.volumeName
                 /\ s.refs.runtimeId = r.refs.runtimeId
                 /\ s.status = "none" <=> r.status = "none"
                 /\ s.status \in {"ready", "paused"} =>
                      r.status = s.status \/ r.refs.runtimeId
                 /\ s.status = "failed" => r.status = "failed"
      PROVE  RowEffect
  BY <1>0, <1>r DEF RowEffect, RuntimeIdIsKnown
<1>1. ASSUME MintCredentials(p) PROVE Effects
  <2>1. TaskEffect
    BY <1>1, <1>m DEF MintCredentials, At, Between
  <2>2. RowEffect
    <3>1. task[p].lab \in Labs
      BY <1>1, <1>l DEF MintCredentials, At, Between
    <3>2. row[task[p].lab] \in Rows /\ row[task[p].lab].refs \in Refs
      BY <1>0, <3>1 DEF TypeOK, Rows
    <3>3. CASE row' = [row EXCEPT ![task[p].lab].refs.guacamoleUser = TRUE]
      <4>1. /\ \A l \in Labs \ {task[p].lab} : row'[l] = row[l]
            /\ row'[task[p].lab]
                 = [row[task[p].lab] EXCEPT !.refs.guacamoleUser = TRUE]
        BY <1>0, <3>1, <3>3 DEF TypeOK
      <4> QED BY <1>r, <3>1, <3>2, <4>1 DEF Rows, Refs
    <3> QED BY <1>1, <3>3, StutterEffects DEF MintCredentials
  <2> QED BY <1>1, <2>1, <2>2, StutterEffects DEF MintCredentials, Effects, loopVars
<1>2. ASSUME PublishMapping(p) PROVE Effects
  <2>1. TaskEffect
    BY <1>2, <1>m DEF PublishMapping, At, Between
  <2> QED BY <1>2, <2>1, StutterEffects DEF PublishMapping, Effects, loopVars
<1>3. ASSUME HandOff(p) PROVE Effects
  BY <1>3, FinishSound, StutterEffects DEF HandOff, Effects, loopVars
<1>4. ASSUME RemoveContainer(p) PROVE Effects
  <2>1. TaskEffect
    BY <1>0, <1>4, <1>m, DestroyPlaces DEF RemoveContainer, At, Between
  <2> QED BY <1>4, <2>1, StutterEffects DEF RemoveContainer, Effects, loopVars
<1>5. ASSUME RemoveVolume(p) PROVE Effects
  <2>1. TaskEffect
    BY <1>0, <1>5, <1>m, DestroyPlaces DEF RemoveVolume, At, Between
  <2> QED BY <1>5, <2>1, StutterEffects DEF RemoveVolume, Effects, loopVars
<1>6. ASSUME RemoveOverlay(p) PROVE Effects
  <2>1. TaskEffect
    BY <1>0, <1>6, <1>m, DestroyPlaces DEF RemoveOverlay, At, Between
  <2> QED BY <1>6, <2>1, StutterEffects DEF RemoveOverlay, Effects, loopVars
<1>7. ASSUME Unmap(p) PROVE Effects
  <2>1. TaskEffect
    BY <1>7, <1>m DEF Unmap, At, Between
  <2>2. RowEffect
    <3>1. CASE row' = row
      BY <3>1, StutterEffects
    <3>2. CASE row' = [row EXCEPT ![task[p].lab].refs.guacamoleUser = FALSE]
      BY <1>0, <1>7, <1>l, <1>r, <3>2 DEF Unmap, At, Between, TypeOK, Rows, Refs
    <3> QED BY <1>7, <3>1, <3>2 DEF Unmap
  <2> QED BY <1>7, <2>1, <2>2, StutterEffects DEF Unmap, Effects, loopVars
<1>8. ASSUME MarkTerminated(p) PROVE Effects
  <2>1. RowEffect
    BY <1>0, <1>8, <1>l, <1>r DEF MarkTerminated, At, Between, TypeOK, Rows
  <2> QED BY <1>8, <2>1, FinishSound, StutterEffects
          DEF MarkTerminated, Effects, loopVars
<1>9. ASSUME StopContainer(p) PROVE Effects
  <2>1. TaskEffect
    BY <1>9, <1>n, FinishSound DEF StopContainer, At, Switching
  <2> QED BY <1>9, <2>1, StutterEffects DEF StopContainer, Effects, loopVars
<1>10. ASSUME MarkPaused(p) PROVE Effects
  <2>1. RowEffect
    BY <1>0, <1>10, <1>l, <1>r, <1>s
       DEF MarkPaused, At, Between, Switching, TypeOK, Rows
  <2> QED BY <1>10, <2>1, FinishSound, StutterEffects
          DEF MarkPaused, Effects, loopVars
<1>11. ASSUME ResumeContainer(p) PROVE Effects
  <2>1. TaskEffect
    BY <1>11, <1>n, FinishSound DEF ResumeContainer, At, Switching
  <2> QED BY <1>11, <2>1, StutterEffects DEF ResumeContainer, Effects, loopVars
<1>12. ASSUME RestartContainer(p) PROVE Effects
  <2>1. TaskEffect
    BY <1>12, <1>n, FinishSound DEF RestartContainer, At, Switching
  <2> QED BY <1>12, <2>1, StutterEffects DEF RestartContainer, Effects, loopVars
<1>13. ASSUME MarkResumed(p) PROVE Effects
  <2>1. RowEffect
    BY <1>0, <1>13, <1>l, <1>r, <1>s
       DEF MarkResumed, At, Between, Switching, TypeOK, Rows
  <2>2. TaskEffect
    BY <1>13, FinishSound, GotoSound, AfterAcquireType
       DEF MarkResumed, At, Between, Provisioning, Switching, Pcs
  <2> QED BY <1>13, <2>1, <2>2, StutterEffects DEF MarkResumed, Effects, loopVars
<1> QED
  BY <1>1, <1>2, <1>3, <1>4, <1>5, <1>6, <1>7, <1>8, <1>9, <1>10, <1>11, <1>12,
     <1>13 DEF Guacamole, Destroy, Power

\* A destroy or a power operation that starts on an existing lab is sound.
LEMMA StartsSound ==
  ASSUME Inv, NEW p \in Procs, NEW l \in Labs, row[l].status # "none",
         p \in ReaperTicks => ~row[l].isPrewarm
  PROVE  /\ \A w \in BOOLEAN :
              task' = [task EXCEPT ![p] = DestroyTask(l, w)] => TaskEffect
         /\ \A pc \in {"stop", "start", "reboot"} :
              /\ row[l].refs.runtimeId
              /\ task' = [task EXCEPT ![p] =
                            [NoTask EXCEPT !.pc = pc, !.lab = l]]
              => TaskEffect
<1>0. TypeOK /\ row[l].refs \in Refs
  BY Fields DEF Inv
<1>1. ASSUME NEW w \in BOOLEAN, task' = [task EXCEPT ![p] = DestroyTask(l, w)]
      PROVE  TaskEffect
  <2> DEFINE t == DestroyTask(l, w)
  <2>1. t \in Tasks
    BY <1>0, TypeStarts
  <2>2. /\ t.lab = l /\ t.user = row[l].user /\ t.wipe = w
        /\ t.pc = FromRemove(row[l].refs, w)
    BY DEF DestroyTask
  <2>3. /\ t.pc \notin Provisioning \cup {"create"} \cup Switching
        /\ t.pc = "volume" => t.wipe
    BY <1>0, <2>2, DestroyPlaces DEF Provisioning, Switching
  <2> HIDE DEF t
  <2> QED BY <1>1, <2>1, <2>2, <2>3, StartSound DEF t
<1>2. ASSUME NEW pc \in {"stop", "start", "reboot"}, row[l].refs.runtimeId,
             task' = [task EXCEPT ![p] = [NoTask EXCEPT !.pc = pc, !.lab = l]]
      PROVE  TaskEffect
  <2> DEFINE t == [NoTask EXCEPT !.pc = pc, !.lab = l]
  <2>1. t \in Tasks
    BY <1>0, TypeStarts
  <2>2. t.lab = l /\ t.user = NoUser /\ t.pc = pc
    BY DEF NoTask
  <2>3. t.pc \notin Provisioning \cup {"create", "volume"}
    BY <2>2 DEF Provisioning
  <2> HIDE DEF t
  <2> QED BY <1>2, <2>1, <2>2, <2>3, StartSound DEF t
<1> QED BY <1>1, <1>2

\* The admin routes have sound effects.
LEMMA AdminEffects ==
  ASSUME Inv, NEW p \in Requests, Admin(p)
  PROVE  Effects
<1>0. p \in Procs /\ p \notin ReaperTicks
  BY LifecycleAssumption DEF Procs
<1>n. \A l \in Labs : row[l].refs.runtimeId => row[l].status # "none"
  BY DEF Inv, RuntimeIdIsKnown
<1>1. ASSUME NEW l \in Labs, NEW w \in BOOLEAN, DestroyReads(p, l, w)
      PROVE  Effects
  BY <1>0, <1>1, StartsSound, StutterEffects DEF DestroyReads, Effects, loopVars
<1>2. ASSUME NEW l \in Labs, NEW pc \in {"stop", "start", "reboot"},
             row[l].refs.runtimeId, Operate(p, l, pc)
      PROVE  Effects
  BY <1>0, <1>2, <1>n, StartsSound, StutterEffects DEF Operate, Effects, loopVars
<1> QED
  BY <1>1, <1>2 DEF Admin, SuspendReads, ResumeReads, RestartReads, MaySuspend

\* Reaper and prewarm ticks have sound effects.
LEMMA TickEffects ==
  ASSUME Inv, NEW p \in Procs,
         \/ p \in ReaperTicks /\ (ReaperLists(p) \/ ReaperTakes(p))
         \/ p \in PrewarmTicks /\ (PrewarmCounts(p) \/ PrewarmProvisions(p))
  PROVE  Effects
<1>0. TypeOK
  BY DEF Inv
<1>1. ASSUME p \in ReaperTicks, ReaperLists(p) PROVE Effects
  <2>1. PICK rule \in 1..3 :
          agenda' = [agenda EXCEPT ![p] = [rule |-> rule, queue |-> Reap(rule)]]
    <3>1. agenda[p].rule \in 1..3
      BY <1>0, <1>1 DEF TypeOK
    <3>2. (IF agenda[p].rule = 3 THEN 1 ELSE agenda[p].rule + 1) \in 1..3
      BY <3>1
    <3> QED BY <1>1, <3>2 DEF ReaperLists
  <2>2. \A l \in Reap(rule) : row[l].status # "none" /\ ~row[l].isPrewarm
    BY <2>1 DEF Reap, ReapExpired, ReapIdle, ReapForgotten
  <2>3. agenda'[p].queue = Reap(rule) /\ \A q \in ReaperTicks \ {p} : agenda'[q] = agenda[q]
    BY <1>0, <1>1, <2>1 DEF TypeOK
  <2>4. \A q \in ReaperTicks : \A l \in agenda[q].queue :
          row[l].status # "none" /\ ~row[l].isPrewarm
    BY <1>0, Fields DEF Inv, ReaperWorksOnLabs, ReaperSparesPool
  <2>5. AgendaEffect
    BY <2>2, <2>3, <2>4 DEF AgendaEffect
  <2> QED BY <1>1, <2>5, StutterEffects DEF ReaperLists, Effects, TaskEffect
<1>2. ASSUME p \in ReaperTicks, ReaperTakes(p) PROVE Effects
  <2>1. PICK l \in agenda[p].queue :
          /\ agenda' = [agenda EXCEPT ![p].queue = @ \ {l}]
          /\ \/ task' = [task EXCEPT ![p] = DestroyTask(l, TRUE)]
             \/ /\ task' = [task EXCEPT ![p] =
                              [NoTask EXCEPT !.pc = "stop", !.lab = l]]
                /\ row[l].refs.runtimeId
             \/ UNCHANGED task
    BY <1>2 DEF ReaperTakes, ReaperHandles, ReaperSkips, MaySuspend
  <2>2. \A q \in ReaperTicks : \A k \in agenda[q].queue :
          row[k].status # "none" /\ ~row[k].isPrewarm
    BY <1>0, Fields DEF Inv, ReaperWorksOnLabs, ReaperSparesPool
  <2>3. l \in Labs /\ row[l].status # "none" /\ ~row[l].isPrewarm
    BY <1>0, <1>2, <2>2, Fields
  <2>4. \A q \in ReaperTicks : agenda'[q].queue \subseteq agenda[q].queue
    BY <1>0, <1>2, <2>1 DEF TypeOK
  <2>5. AgendaEffect
    BY <2>2, <2>4 DEF AgendaEffect
  <2>6. TaskEffect
    BY <2>1, <2>3, StartsSound, StutterEffects DEF TaskEffect
  <2> QED BY <1>2, <2>5, <2>6, StutterEffects DEF ReaperTakes, ReaperHandles, ReaperSkips, Effects
<1>3. ASSUME p \in PrewarmTicks, PrewarmCounts(p) PROVE Effects
  BY <1>3, StutterEffects DEF PrewarmCounts, Effects, TaskEffect
<1>4. ASSUME p \in PrewarmTicks, PrewarmProvisions(p) PROVE Effects
  <2>1. /\ task'[p].pc = "create" /\ task'[p].lab = NoLab
        /\ \A q \in Procs \ {p} : task'[q] = task[q]
    BY <1>0, <1>4 DEF PrewarmProvisions, TypeOK, NoTask
  <2>2. TaskSound(p)
    BY <1>4, <2>1, LifecycleAssumption
       DEF TaskSound, Provisioning, Between, Switching
  <2> QED BY <1>4, <2>1, <2>2, StutterEffects
          DEF PrewarmProvisions, Effects, TaskEffect
<1> QED BY <1>1, <1>2, <1>3, <1>4

\* Students, time, Docker and restarts have sound effects.
LEMMA EnvironmentEffects ==
  ASSUME Inv, Environment \/ ControlPlaneRestarts
  PROVE  Effects
<1>0. TypeOK /\ RuntimeIdIsKnown
  BY DEF Inv
<1>1. ASSUME NEW l \in Labs,
             \/ \E past \in BOOLEAN : Extend(l, past)
             \/ TimePasses(l)
             \/ StudentWorks(l)
      PROVE  Effects
  <2>1. /\ \A k \in Labs \ {l} : row'[k] = row[k]
        /\ row'[l].user = row[l].user /\ row'[l].isPrewarm = row[l].isPrewarm
        /\ row'[l].refs = row[l].refs /\ row'[l].status = row[l].status
    BY <1>0, <1>1 DEF Extend, TimePasses, StudentWorks, TypeOK, Rows
  <2>2. RowEffect
    BY <1>0, <2>1 DEF RowEffect, RuntimeIdIsKnown
  <2>3. UNCHANGED <<task, agenda>>
    BY <1>1 DEF Extend, TimePasses, StudentWorks, loopVars
  <2> QED BY <2>2, <2>3, StutterEffects DEF Effects, TaskEffect
<1>2. ASSUME NEW l \in Labs, ContainerExits(l) PROVE Effects
  BY <1>2, StutterEffects DEF ContainerExits, Effects, TaskEffect, loopVars
<1>3. ASSUME ControlPlaneRestarts PROVE Effects
  <2>1. \A q \in Procs : task'[q] = NoTask
    BY <1>3 DEF ControlPlaneRestarts
  <2>2. TaskEffect
    BY <2>1 DEF TaskEffect, TaskSound, NoTask, Provisioning, Between, Switching
  <2>3. AgendaEffect
    BY <1>3 DEF ControlPlaneRestarts, AgendaEffect, NoAgenda
  <2> QED BY <1>3, <2>2, <2>3, StutterEffects DEF ControlPlaneRestarts, Effects
<1> QED BY <1>1, <1>2, <1>3 DEF Environment

-----------------------------------------------------------------------------
(* Births and claims *)

\* A birth preserves the control part: the new lab was in nobody's hands.
LEMMA CreateRowPreserves ==
  ASSUME Inv, TypeOK', NEW p \in Procs, CreateRow(p)
  PROVE  Control'
<1>0. TypeOK /\ Control /\ UnbornIsBlank
  BY DEF Inv, Control
<1>1. PICK l \in Labs, onNode \in BOOLEAN :
        /\ row[l].status = "none"
        /\ row' = [row EXCEPT ![l] =
             [NoRow EXCEPT !.status = "provisioning",
                           !.user = task[p].user,
                           !.isPrewarm = (task[p].user = NoUser),
                           !.refs.volumeName =
                               (task[p].user # NoUser /\ ~VmLab),
                           !.refs.nodeId = onNode]]
        /\ task' = [task EXCEPT ![p] =
             [@ EXCEPT !.lab = l,
                       !.pc = IF VmLab THEN "overlay" ELSE "provision"]]
  BY DEF CreateRow, Fresh
<1>2. /\ \A k \in Labs \ {l} : row'[k] = row[k]
      /\ row'[l].status = "provisioning"
      /\ row'[l].user = task[p].user
      /\ row'[l].isPrewarm = (task[p].user = NoUser)
      /\ row'[l].refs.volumeName = (task[p].user # NoUser /\ ~VmLab)
      /\ ~row'[l].refs.runtimeId
  BY <1>0, <1>1 DEF TypeOK, NoRow, NoRefs
<1>3. /\ \A q \in Procs \ {p} : task'[q] = task[q]
      /\ task'[p].lab = l
      /\ task'[p].pc \in {"overlay", "provision"}
      /\ task'[p].user = task[p].user
  BY <1>0, <1>1 DEF TypeOK, Tasks
<1>4. \A q \in Procs : /\ task[q].lab \in Labs \cup {NoLab}
                       /\ task[q].lab # l
  BY <1>0, <1>1, Fields DEF Control, LabsInHandExist
<1>5. p \notin ReaperTicks /\ NoLab \notin Labs /\ ReaperTicks \subseteq Procs
  BY <1>0, Fields DEF Control, ReaperWorksOnLabs, CreateRow, At
<1>6. UNCHANGED agenda
  BY DEF CreateRow, loopVars
<1>7. \A q \in ReaperTicks : agenda[q].queue \subseteq Labs \ {l}
  BY <1>0, <1>1, Fields DEF Control, ReaperWorksOnLabs
<1>8. HoldsOwnLab'
  BY <1>0, <1>2, <1>3, <1>4 DEF Control, HoldsOwnLab
<1>9. ReaperSparesPool'
  BY <1>0, <1>2, <1>3, <1>4, <1>5, <1>6, <1>7 DEF Control, ReaperSparesPool
<1>10. PoolIsOwnerless' /\ VolumesAreStudents' /\ RuntimeIdIsKnown'
  BY <1>0, <1>2 DEF Control, PoolIsOwnerless, VolumesAreStudents, RuntimeIdIsKnown
<1>11. LabsInHandExist'
  BY <1>0, <1>2, <1>3, <1>4, <1>5 DEF Control, LabsInHandExist
<1>12. ProvisionIsExclusive'
  <2>1. \A q \in Procs \ {p} : task[q].pc \in Provisioning => task[q].lab \in Labs \ {l}
    BY <1>0, <1>4 DEF Control, LabsInHandExist, Provisioning
  <2> QED BY <1>0, <1>2, <1>3, <2>1 DEF Control, ProvisionIsExclusive
<1>13. PowerNeedsRuntimeId'
  <2>1. \A q \in Procs \ {p} : task[q].pc \in Switching => task[q].lab \in Labs \ {l}
    BY <1>0, <1>4 DEF Control, LabsInHandExist, Switching
  <2> QED BY <1>0, <1>2, <1>3, <2>1 DEF Control, PowerNeedsRuntimeId, Switching
<1>14. VolumeStepWipes'
  BY <1>0, <1>3 DEF Control, VolumeStepWipes
<1>15. ReaperWorksOnLabs'
  BY <1>0, <1>2, <1>3, <1>5, <1>6, <1>7 DEF Control, ReaperWorksOnLabs
<1> QED
  BY <1>8, <1>9, <1>10, <1>11, <1>12, <1>13, <1>14, <1>15 DEF Control

\* A claim preserves the control part: a pool lab that is ready is in no
\* student's and no provision's hands.
LEMMA ClaimPrewarmPreserves ==
  ASSUME Inv, TypeOK', NEW p \in Requests, ClaimPrewarm(p)
  PROVE  Control'
<1>0. TypeOK /\ Control
  BY DEF Inv, Control
<1>a. p \in Procs /\ p \notin ReaperTicks /\ NoLab \notin Labs /\ ReaperTicks \subseteq Procs
  BY <1>0, LifecycleAssumption, Fields DEF Procs
<1>1. PICK l \in Labs :
        /\ row[l].isPrewarm /\ row[l].status = "ready"
        /\ row' = [row EXCEPT ![l] =
             [@ EXCEPT !.isPrewarm = FALSE, !.user = task[p].user,
                       !.expired = FALSE]]
        /\ task' = [task EXCEPT ![p] =
             [@ EXCEPT !.lab = l, !.pc = AfterAcquire("ready")]]
  BY DEF ClaimPrewarm, Claimable
<1>2. /\ \A k \in Labs \ {l} : row'[k] = row[k]
      /\ row'[l].status = "ready"
      /\ row'[l].user = task[p].user
      /\ ~row'[l].isPrewarm
      /\ row'[l].refs = row[l].refs
  BY <1>0, <1>1 DEF TypeOK, Rows
<1>3. /\ \A q \in Procs \ {p} : task'[q] = task[q]
      /\ task'[p].lab = l
      /\ task'[p].pc = AfterAcquire("ready")
      /\ task'[p].user = task[p].user
  BY <1>0, <1>1, <1>a DEF TypeOK, Tasks
<1>p. task'[p].pc \in {"mint", "handoff"}
  BY <1>3, AfterAcquireType
<1>4. row[l].user = NoUser /\ ~row[l].refs.volumeName /\ row[l].refs.runtimeId
  BY <1>0, <1>1 DEF Control, PoolIsOwnerless, RuntimeIdIsKnown
<1>5. \A q \in Procs : task[q].lab \in Labs \cup {NoLab}
  BY <1>0, Fields
<1>6. UNCHANGED agenda
  BY DEF ClaimPrewarm, loopVars
<1>7. \A q \in ReaperTicks : agenda[q].queue \subseteq Labs
  BY <1>0, Fields
<1>8. HoldsOwnLab'
  BY <1>0, <1>a, <1>2, <1>3, <1>4, <1>5 DEF Control, HoldsOwnLab
<1>9. ReaperSparesPool'
  BY <1>0, <1>a, <1>2, <1>3, <1>5, <1>6, <1>7 DEF Control, ReaperSparesPool
<1>10. PoolIsOwnerless' /\ VolumesAreStudents' /\ RuntimeIdIsKnown'
  BY <1>0, <1>2, <1>4 DEF Control, PoolIsOwnerless, VolumesAreStudents,
                          RuntimeIdIsKnown
<1>11. LabsInHandExist'
  BY <1>0, <1>a, <1>2, <1>3, <1>5 DEF Control, LabsInHandExist
<1>12. ProvisionIsExclusive'
  <2>1. \A q \in Procs : task[q].pc \in Provisioning => task[q].lab \in Labs \ {l}
    BY <1>0, <1>4, <1>5 DEF Control, LabsInHandExist, ProvisionIsExclusive, Provisioning
  <2>2. \A q \in Procs : task'[q].pc \in Provisioning => q # p
    BY <1>p DEF Provisioning
  <2> QED BY <1>0, <1>2, <1>3, <2>1, <2>2 DEF Control, ProvisionIsExclusive
<1>13. PowerNeedsRuntimeId'
  <2>1. \A q \in Procs : task[q].pc \in Switching => task[q].lab \in Labs
    BY <1>0, <1>5 DEF Control, LabsInHandExist, Switching
  <2> QED BY <1>0, <1>2, <1>3, <1>p, <2>1 DEF Control, PowerNeedsRuntimeId, Switching
<1>14. VolumeStepWipes'
  BY <1>0, <1>3, <1>p DEF Control, VolumeStepWipes
<1>15. ReaperWorksOnLabs'
  BY <1>0, <1>a, <1>2, <1>3, <1>p, <1>6, <1>7 DEF Control, ReaperWorksOnLabs
<1> QED
  BY <1>8, <1>9, <1>10, <1>11, <1>12, <1>13, <1>14, <1>15 DEF Control

\* Every step preserves the control part of the invariant.
LEMMA ControlNext ==
  ASSUME Inv, TypeOK', [Next]_vars
  PROVE  Control'
<1>1. CASE UNCHANGED vars
  <2>1. UNCHANGED <<row, task, agenda>>
    BY <1>1 DEF vars
  <2>2. Effects
    BY <2>1, StutterEffects DEF Effects, TaskEffect
  <2> QED BY <2>2, EffectsPreserve DEF Effects
<1>2. ASSUME NEW p \in Procs, CreateRow(p) PROVE Control'
  BY <1>2, CreateRowPreserves
<1>3. ASSUME NEW p \in Requests, ClaimPrewarm(p) PROVE Control'
  BY <1>3, ClaimPrewarmPreserves
<1>4. CASE /\ Next
           /\ \A p \in Procs : ~CreateRow(p)
           /\ \A p \in Requests : ~ClaimPrewarm(p)
  <2>1. Effects
    BY <1>4, AcquireEffects, ProvisionEffects, RestEffects, AdminEffects,
       TickEffects, EnvironmentEffects DEF Next, Procs
  <2> QED BY <2>1, EffectsPreserve DEF Effects
<1> QED BY <1>1, <1>2, <1>3, <1>4

-----------------------------------------------------------------------------
(* Containers and volumes *)

Docker == UnbornIsBlank /\ MountedVolumeExists

\* A container appears only for a born lab and with its volume in place; a
\* volume does not disappear under a container.
DockerEffect ==
  \A l \in Labs :
    /\ container'[l] # "none" =>
         \/ container[l] # "none"
         \/ /\ row[l].status # "none"
            /\ row[l].refs.volumeName => volume'[row[l].user] # "absent"
    /\ /\ container[l] # "none"
       /\ row[l].refs.volumeName
       /\ volume[row[l].user] # "absent"
       => volume'[row[l].user] # "absent"

\* Steps with these effects on Docker preserve the Docker part.
LEMMA DockerEffectPreserves ==
  ASSUME Inv, RowEffect, DockerEffect
  PROVE  Docker'
<1>1. UnbornIsBlank'
  BY DEF Inv, UnbornIsBlank, RowEffect, DockerEffect
<1>2. MountedVolumeExists'
  BY DEF Inv, MountedVolumeExists, RowEffect, DockerEffect
<1> QED BY <1>1, <1>2 DEF Docker

\* A step that leaves rows, containers and volumes alone has no such effect.
LEMMA DockerFrame ==
  UNCHANGED <<container, volume>> => DockerEffect
BY DEF DockerEffect

\* A provision makes the volume before the container that mounts it.
LEMMA ProvisionDocker ==
  ASSUME Inv, NEW p \in Procs, Provision(p), ~CreateRow(p)
  PROVE  DockerEffect
<1>0. TypeOK /\ VolumesAreStudents
  BY DEF Inv
<1>v. /\ \A u \in Users : volume[u] # "absent"
                            => EnsuredVolume(task[p].user)[u] # "absent"
      /\ task[p].user \in Users /\ ~VmLab
           => EnsuredVolume(task[p].user)[task[p].user] # "absent"
  BY <1>0, LifecycleAssumption DEF EnsuredVolume, TypeOK
<1>u. \A l \in Labs : row[l].refs.volumeName => row[l].user \in Users /\ ~VmLab
  BY <1>0 DEF VolumesAreStudents, TypeOK, Rows
<1>l. task[p].pc = "provision" =>
        /\ task[p].lab \in Labs
        /\ row[task[p].lab].status # "none"
        /\ row[task[p].lab].user = task[p].user
  BY <1>0, Fields DEF Inv, LabsInHandExist, ProvisionIsExclusive, Provisioning
<1>1. ASSUME StartContainer(p) PROVE DockerEffect
  BY <1>0, <1>1, <1>v, <1>u, <1>l DEF StartContainer, At, DockerEffect, TypeOK
<1>2. ASSUME StartContainerFails(p) PROVE DockerEffect
  <2>1. PICK c \in {"none", "stopped", "running"} :
          /\ container' = [container EXCEPT ![task[p].lab] = c]
          /\ c = "none" => volume' \in {volume, EnsuredVolume(task[p].user)}
          /\ c # "none" => volume' = EnsuredVolume(task[p].user)
    BY <1>2 DEF StartContainerFails
  <2> QED BY <1>0, <1>2, <1>v, <1>u, <1>l, <2>1
          DEF StartContainerFails, At, DockerEffect, TypeOK
<1>3. ASSUME CleanUp(p) PROVE DockerEffect
  BY <1>0, <1>3 DEF CleanUp, DockerEffect, TypeOK
<1>4. ASSUME \/ CreateThrows(p) \/ CreateOverlay(p) \/ RecordOverlay(p)
             \/ WaitForRdp(p) \/ MarkReady(p) \/ MarkFailed(p)
      PROVE  DockerEffect
  BY <1>4, DockerFrame
     DEF CreateThrows, CreateOverlay, RecordOverlay, WaitForRdp, MarkReady,
         MarkFailed, hostVars
<1> QED BY <1>1, <1>2, <1>3, <1>4 DEF Provision

\* A destroy removes no mounted volume, and no power operation makes a container.
LEMMA RestDocker ==
  ASSUME Inv, NEW p \in Procs, Guacamole(p) \/ Destroy(p) \/ Power(p)
  PROVE  DockerEffect
<1>0. TypeOK
  BY DEF Inv
<1>1. ASSUME RemoveContainer(p) PROVE DockerEffect
  BY <1>0, <1>1 DEF RemoveContainer, DockerEffect, TypeOK
<1>2. ASSUME RemoveVolume(p) PROVE DockerEffect
  <2>1. CASE UNCHANGED volume
    BY <1>2, <2>1, DockerFrame DEF RemoveVolume
  <2>2. CASE /\ ~Mounted(task[p].user)
             /\ volume' = [volume EXCEPT ![task[p].user] = "absent"]
             /\ UNCHANGED container
    BY <1>0, <2>2 DEF DockerEffect, Mounted, TypeOK
  <2> QED BY <1>2, <2>1, <2>2 DEF RemoveVolume
<1>3. ASSUME StopContainer(p) \/ ResumeContainer(p) \/ RestartContainer(p)
      PROVE  DockerEffect
  <2>1. CASE StopContainer(p)
    BY <1>0, <2>1 DEF StopContainer, DockerEffect, TypeOK
  <2>2. CASE ResumeContainer(p)
    BY <1>0, <2>2 DEF ResumeContainer, DockerEffect, TypeOK
  <2>3. CASE RestartContainer(p)
    BY <1>0, <2>3 DEF RestartContainer, DockerEffect, TypeOK
  <2> QED BY <1>3, <2>1, <2>2, <2>3
<1>4. ASSUME \/ Guacamole(p) \/ RemoveOverlay(p) \/ Unmap(p)
             \/ MarkTerminated(p) \/ MarkPaused(p) \/ MarkResumed(p)
      PROVE  DockerEffect
  BY <1>4, DockerFrame
     DEF Guacamole, MintCredentials, PublishMapping, HandOff, RemoveOverlay,
         Unmap, MarkTerminated, MarkPaused, MarkResumed, hostVars
<1> QED BY <1>1, <1>2, <1>3, <1>4 DEF Destroy, Power

\* The other steps touch no volume and no container of an unborn lab.
LEMMA OthersDocker ==
  ASSUME Inv,
         \/ \E p \in Requests : (Acquire(p) /\ ~ClaimPrewarm(p)) \/ Admin(p)
         \/ \E p \in ReaperTicks : ReaperLists(p) \/ ReaperTakes(p)
         \/ \E p \in PrewarmTicks : PrewarmCounts(p) \/ PrewarmProvisions(p)
         \/ Environment
         \/ ControlPlaneRestarts
  PROVE  DockerEffect
<1>0. TypeOK
  BY DEF Inv
<1>1. ASSUME NEW l \in Labs, StudentWorks(l) PROVE DockerEffect
  BY <1>0, <1>1 DEF StudentWorks, DockerEffect, TypeOK
<1>2. ASSUME NEW l \in Labs, ContainerExits(l) PROVE DockerEffect
  BY <1>0, <1>2 DEF ContainerExits, DockerEffect, TypeOK
<1>3. ASSUME NEW p \in Requests, Acquire(p), ~ClaimPrewarm(p) PROVE DockerEffect
  BY <1>3, DockerFrame
     DEF Acquire, AcquireFindsOwn, RedeemAttached, AcquireFindsNone, BumpExpiry,
         ClaimNothing, hostVars
<1>4. ASSUME NEW p \in Requests, Admin(p) PROVE DockerEffect
  BY <1>4, DockerFrame
     DEF Admin, DestroyReads, SuspendReads, ResumeReads, RestartReads, Operate,
         hostVars
<1>5. ASSUME NEW p, \/ ReaperLists(p) \/ ReaperTakes(p)
                    \/ PrewarmCounts(p) \/ PrewarmProvisions(p)
      PROVE  DockerEffect
  BY <1>5, DockerFrame
     DEF ReaperLists, ReaperTakes, ReaperHandles, ReaperSkips, PrewarmCounts, PrewarmProvisions, hostVars
<1>6. ASSUME \/ \E l \in Labs : TimePasses(l) \/ \E past \in BOOLEAN : Extend(l, past)
             \/ ControlPlaneRestarts
      PROVE  DockerEffect
  BY <1>6, DockerFrame DEF TimePasses, Extend, ControlPlaneRestarts, hostVars
<1> QED BY <1>1, <1>2, <1>3, <1>4, <1>5, <1>6 DEF Environment

\* Every step preserves the Docker part of the invariant.
LEMMA DockerNext ==
  ASSUME Inv, [Next]_vars
  PROVE  Docker'
<1>0. TypeOK /\ Docker
  BY DEF Inv, Docker
<1>1. CASE UNCHANGED vars
  <2>1. UNCHANGED <<row, container, volume>>
    BY <1>1 DEF vars
  <2> QED BY <2>1, StutterEffects, DockerFrame, DockerEffectPreserves
<1>2. ASSUME NEW p \in Procs, CreateRow(p) PROVE Docker'
  <2>1. PICK l \in Labs, onNode \in BOOLEAN :
          /\ row[l].status = "none"
          /\ row' = [row EXCEPT ![l] =
               [NoRow EXCEPT !.status = "provisioning",
                             !.user = task[p].user,
                             !.isPrewarm = (task[p].user = NoUser),
                             !.refs.volumeName =
                                 (task[p].user # NoUser /\ ~VmLab),
                             !.refs.nodeId = onNode]]
    BY <1>2 DEF CreateRow, Fresh
  <2>2. /\ \A k \in Labs \ {l} : row'[k] = row[k]
        /\ row'[l].status = "provisioning"
        /\ container[l] = "none"
    BY <1>0, <2>1 DEF TypeOK, NoRow, Docker, UnbornIsBlank
  <2>3. UNCHANGED <<container, volume>>
    BY <1>2 DEF CreateRow, hostVars
  <2> QED BY <1>0, <2>2, <2>3 DEF Docker, UnbornIsBlank, MountedVolumeExists
<1>3. ASSUME NEW p \in Requests, ClaimPrewarm(p) PROVE Docker'
  <2>1. PICK l \in Labs :
          /\ row[l].isPrewarm
          /\ row' = [row EXCEPT ![l] =
               [@ EXCEPT !.isPrewarm = FALSE, !.user = task[p].user,
                         !.expired = FALSE]]
    BY <1>3 DEF ClaimPrewarm, Claimable
  <2>2. /\ \A k \in Labs \ {l} : row'[k] = row[k]
        /\ row'[l].status = row[l].status
        /\ row'[l].refs = row[l].refs
    BY <1>0, <2>1 DEF TypeOK, Rows
  <2>3. ~row[l].refs.volumeName /\ row[l].status # "none"
    BY <2>1 DEF Inv, PoolIsOwnerless, UnbornIsBlank
  <2>4. UNCHANGED <<container, volume>>
    BY <1>3 DEF ClaimPrewarm, hostVars
  <2> QED BY <1>0, <2>2, <2>3, <2>4 DEF Docker, UnbornIsBlank, MountedVolumeExists
<1>4. CASE /\ Next
           /\ \A p \in Procs : ~CreateRow(p)
           /\ \A p \in Requests : ~ClaimPrewarm(p)
  <2>1. Effects
    BY <1>4, AcquireEffects, ProvisionEffects, RestEffects, AdminEffects,
       TickEffects, EnvironmentEffects DEF Next, Procs
  <2>2. DockerEffect
    BY <1>4, ProvisionDocker, RestDocker, OthersDocker DEF Next
  <2> QED BY <2>1, <2>2, DockerEffectPreserves DEF Effects
<1> QED BY <1>1, <1>2, <1>3, <1>4

-----------------------------------------------------------------------------
(* Theorems *)

\* The invariant holds initially.
LEMMA InvInit == Init => Inv
<1> SUFFICES ASSUME Init PROVE Inv
  OBVIOUS
<1>1. TypeOK
  BY TypeInit
<1>2. \A p \in Procs : task[p] = NoTask
  BY DEF Init
<1>3. \A l \in Labs : row[l] = NoRow /\ container[l] = "none"
  BY DEF Init
<1>4. \A p \in ReaperTicks : agenda[p].queue = {} /\ task[p] = NoTask
  BY <1>2 DEF Init, NoAgenda, Procs
<1>5. NoLab \notin Labs
  BY <1>1, Fields
<1> QED
  BY <1>1, <1>2, <1>3, <1>4, <1>5
     DEF Inv, HoldsOwnLab, ReaperSparesPool, MountedVolumeExists, UnbornIsBlank,
         PoolIsOwnerless, VolumesAreStudents, RuntimeIdIsKnown, LabsInHandExist,
         ProvisionIsExclusive, PowerNeedsRuntimeId, VolumeStepWipes,
         ReaperWorksOnLabs, NoTask, NoRow, NoRefs, Provisioning

\* The invariant is inductive.
LEMMA InvNext == Inv /\ [Next]_vars => Inv'
<1> SUFFICES ASSUME Inv, [Next]_vars PROVE Inv'
  OBVIOUS
<1>1. TypeOK'
  BY TypeNext DEF Inv
<1> QED BY <1>1, ControlNext, DockerNext DEF Inv, Control, Docker

\* Inv is an invariant of every instance of the lifecycle.
THEOREM Invariance == Spec => []Inv
BY InvInit, InvNext, PTL DEF Spec

\* Every variable stays in its domain, and a prewarm tick never plans more than
\* two provisions, for any numbers of labs, requests, ticks and crashes.
THEOREM TypeCorrect == Spec => []TypeOK
<1>1. Inv => TypeOK
  BY DEF Inv
<1> QED BY <1>1, Invariance, PTL

\* No request ever works for one student on another student's lab.
THEOREM OwnLabOnly == Spec => []HoldsOwnLab
<1>1. Inv => HoldsOwnLab
  BY DEF Inv
<1> QED BY <1>1, Invariance, PTL

\* The reaper never lists, suspends or destroys a pool lab.
THEOREM PoolIsSpared == Spec => []ReaperSparesPool
<1>1. Inv => ReaperSparesPool
  BY DEF Inv
<1> QED BY <1>1, Invariance, PTL

-----------------------------------------------------------------------------
(* What a step does to statuses and volumes *)

FailedStays ==
  \A l \in Labs : row[l].status = "failed"
                    => row'[l].status \in {"failed", "terminated"}

\* Under the invariant no step moves a failed row but to 'terminated'.
LEMMA FailedNext == Inv /\ [Next]_vars => FailedStays
<1> SUFFICES ASSUME Inv, [Next]_vars PROVE FailedStays
  OBVIOUS
<1>0. TypeOK
  BY DEF Inv
<1>l. \A p \in Procs :
        task[p].pc \in Provisioning \cup {"pause", "resumed"}
          => row[task[p].lab].status # "failed" \/ task[p].lab \notin Labs
  BY DEF Inv, ProvisionIsExclusive, PowerNeedsRuntimeId, RuntimeIdIsKnown
<1>1. CASE UNCHANGED vars
  BY <1>1 DEF vars, FailedStays
<1>2. ASSUME NEW p \in Requests, Acquire(p) PROVE FailedStays
  <2>1. ASSUME BumpExpiry(p) \/ ClaimPrewarm(p) PROVE FailedStays
    <3>1. CASE BumpExpiry(p)
      BY <1>0, <3>1 DEF BumpExpiry, FailedStays, TypeOK, Rows
    <3>2. CASE ClaimPrewarm(p)
      BY <1>0, <3>2 DEF ClaimPrewarm, FailedStays, TypeOK, Rows
    <3> QED BY <2>1, <3>1, <3>2
  <2> QED BY <1>2, <2>1
          DEF Acquire, AcquireFindsOwn, RedeemAttached, AcquireFindsNone,
              ClaimNothing, FailedStays
<1>3. ASSUME NEW p \in Procs, Provision(p) PROVE FailedStays
  <2>1. CASE CreateRow(p)
    BY <1>0, <2>1 DEF CreateRow, Fresh, FailedStays, TypeOK
  <2>2. CASE RecordOverlay(p)
    BY <1>0, <2>2 DEF RecordOverlay, FailedStays, TypeOK, Rows
  <2>3. CASE MarkReady(p)
    <3>1. task[p].pc = "ready"
      BY <2>3 DEF MarkReady, At
    <3>2. row[task[p].lab].status # "failed" \/ task[p].lab \notin Labs
      BY <1>l, <3>1 DEF Provisioning
    <3>3. \A l \in Labs \ {task[p].lab} : row'[l] = row[l]
      BY <1>0, <2>3 DEF MarkReady, TypeOK
    <3> QED BY <3>2, <3>3 DEF FailedStays
  <2>4. CASE MarkFailed(p)
    BY <1>0, <2>4 DEF MarkFailed, FailedStays, TypeOK, Rows
  <2> QED BY <1>3, <2>1, <2>2, <2>3, <2>4
          DEF Provision, CreateThrows, CreateOverlay, StartContainer,
              StartContainerFails, WaitForRdp, CleanUp, FailedStays
<1>4. ASSUME NEW p \in Procs, Guacamole(p) \/ Destroy(p) \/ Power(p)
      PROVE  FailedStays
  <2>1. CASE MintCredentials(p)
    BY <1>0, <2>1 DEF MintCredentials, FailedStays, TypeOK, Rows
  <2>2. CASE Unmap(p)
    BY <1>0, <2>2 DEF Unmap, FailedStays, TypeOK, Rows
  <2>3. CASE MarkTerminated(p)
    BY <1>0, <2>3 DEF MarkTerminated, FailedStays, TypeOK, Rows
  <2>4. CASE MarkPaused(p) \/ MarkResumed(p)
    <3>1. task[p].pc \in {"pause", "resumed"}
      BY <2>4 DEF MarkPaused, MarkResumed, At
    <3>2. row[task[p].lab].status # "failed" \/ task[p].lab \notin Labs
      BY <1>l, <3>1
    <3>3. \A l \in Labs \ {task[p].lab} : row'[l] = row[l]
      BY <1>0, <2>4 DEF MarkPaused, MarkResumed, TypeOK
    <3> QED BY <3>2, <3>3 DEF FailedStays
  <2> QED BY <1>4, <2>1, <2>2, <2>3, <2>4
          DEF Guacamole, PublishMapping, HandOff, Destroy, RemoveContainer,
              RemoveVolume, RemoveOverlay, Power, StopContainer,
              ResumeContainer, RestartContainer, FailedStays
<1>5. ASSUME NEW p \in Requests, Admin(p) PROVE FailedStays
  BY <1>5 DEF Admin, DestroyReads, SuspendReads, ResumeReads, RestartReads,
              Operate, FailedStays
<1>6. ASSUME NEW p, \/ ReaperLists(p) \/ ReaperTakes(p)
                    \/ PrewarmCounts(p) \/ PrewarmProvisions(p)
      PROVE  FailedStays
  BY <1>6 DEF ReaperLists, ReaperTakes, ReaperHandles, ReaperSkips, PrewarmCounts, PrewarmProvisions,
              FailedStays
<1>7. ASSUME NEW l \in Labs, \/ \E past \in BOOLEAN : Extend(l, past)
                             \/ TimePasses(l) \/ StudentWorks(l)
      PROVE  FailedStays
  <2>1. CASE \E past \in BOOLEAN : Extend(l, past)
    BY <1>0, <2>1 DEF Extend, FailedStays, TypeOK, Rows
  <2>2. CASE TimePasses(l)
    <3>1. \/ row' = [row EXCEPT ![l].expired = TRUE]
          \/ row' = [row EXCEPT ![l].inactive = TRUE]
          \/ row' = [row EXCEPT ![l].forgotten = TRUE]
      BY <2>2 DEF TimePasses
    <3>2. DOMAIN row = Labs /\ \A k \in Labs : row[k] \in Rows
      BY <1>0 DEF TypeOK
    <3>3. ASSUME NEW k \in Labs PROVE row'[k].status = row[k].status
      <4>1. row[k] \in Rows /\ row[l] \in Rows
        BY <3>2
      <4>2. CASE row' = [row EXCEPT ![l].expired = TRUE]
        BY <3>2, <4>1, <4>2 DEF Rows
      <4>3. CASE row' = [row EXCEPT ![l].inactive = TRUE]
        BY <3>2, <4>1, <4>3 DEF Rows
      <4>4. CASE row' = [row EXCEPT ![l].forgotten = TRUE]
        BY <3>2, <4>1, <4>4 DEF Rows
      <4> QED BY <3>1, <4>2, <4>3, <4>4
    <3> QED BY <3>3 DEF FailedStays
  <2>3. CASE StudentWorks(l)
    BY <1>0, <2>3 DEF StudentWorks, FailedStays, TypeOK, Rows
  <2> QED BY <1>7, <2>1, <2>2, <2>3
<1>8. ASSUME \/ \E l \in Labs : ContainerExits(l)
             \/ ControlPlaneRestarts
      PROVE  FailedStays
  BY <1>8 DEF ContainerExits, ControlPlaneRestarts, FailedStays
<1> QED
  BY <1>1, <1>2, <1>3, <1>4, <1>5, <1>6, <1>7, <1>8 DEF Next, Environment

\* A step changes at most one volume, that of a student who holds a born lab;
\* it is emptied only when it was absent, and removed only by a wiping destroy.
VolumeEffect ==
  \/ UNCHANGED volume
  \/ \E l \in Labs, v \in {"absent", "empty", "work"} :
       /\ row[l].status # "none"
       /\ row[l].user \in Users
       /\ volume' = [volume EXCEPT ![row[l].user] = v]
       /\ v = "empty" => volume[row[l].user] = "absent"
       /\ v = "absent" => \E p \in Procs : /\ task[p].pc = "volume"
                                           /\ task[p].wipe
                                           /\ task[p].lab = l

\* Under the invariant work goes away only in a wiping volume step.
LEMMA VolumeNext == Inv /\ [Next]_vars => VolumeEffect
<1> SUFFICES ASSUME Inv, [Next]_vars PROVE VolumeEffect
  OBVIOUS
<1>0. TypeOK
  BY DEF Inv
<1>1. ASSUME NEW p \in Procs, volume' = EnsuredVolume(task[p].user),
             task[p].pc = "provision"
      PROVE  VolumeEffect
  <2>1. CASE task[p].user = NoUser \/ VmLab \/ volume[task[p].user] # "absent"
    BY <1>1, <2>1 DEF EnsuredVolume, VolumeEffect
  <2>2. CASE /\ task[p].user # NoUser
             /\ volume[task[p].user] = "absent"
             /\ volume' = [volume EXCEPT ![task[p].user] = "empty"]
    <3>1. /\ task[p].lab \in Labs
          /\ row[task[p].lab].status # "none"
          /\ row[task[p].lab].user = task[p].user
          /\ task[p].user \in Users
      BY <1>0, <1>1, <2>2, Fields DEF Inv, LabsInHandExist, ProvisionIsExclusive,
                                     Provisioning
    <3> QED BY <2>2, <3>1 DEF VolumeEffect
  <2> QED BY <1>1, <2>1, <2>2 DEF EnsuredVolume
<1>2. ASSUME NEW p \in Procs, StartContainer(p) \/ StartContainerFails(p)
      PROVE  VolumeEffect
  <2>1. /\ task[p].pc = "provision"
        /\ volume' = EnsuredVolume(task[p].user) \/ UNCHANGED volume
    BY <1>2 DEF StartContainer, StartContainerFails, At
  <2> QED BY <1>1, <2>1 DEF VolumeEffect
<1>3. ASSUME NEW p \in Procs, RemoveVolume(p) PROVE VolumeEffect
  <2>1. task[p].pc = "volume" /\ task[p].wipe /\ task[p].lab \in Labs
    BY <1>0, <1>3, Fields DEF RemoveVolume, At, Inv, VolumeStepWipes, LabsInHandExist
  <2>2. CASE task[p].user = NoUser \/ UNCHANGED volume
    <3>1. UNCHANGED volume
      BY <1>0, <1>3, <2>2, LifecycleAssumption DEF RemoveVolume, TypeOK
    <3> QED BY <3>1 DEF VolumeEffect
  <2>3. CASE /\ task[p].user # NoUser
             /\ volume' = [volume EXCEPT ![task[p].user] = "absent"]
    <3>1. /\ row[task[p].lab].status # "none"
          /\ row[task[p].lab].user = task[p].user
          /\ task[p].user \in Users
      BY <1>0, <2>1, <2>3, Fields DEF Inv, LabsInHandExist, HoldsOwnLab
    <3> QED BY <2>1, <2>3, <3>1 DEF VolumeEffect
  <2> QED BY <1>3, <2>2, <2>3 DEF RemoveVolume
<1>4. ASSUME NEW l \in Labs, StudentWorks(l) PROVE VolumeEffect
  <2>1. row[l].status # "none" /\ row[l].user \in Users
    BY <1>0, <1>4 DEF StudentWorks, TypeOK, Rows
  <2> QED BY <1>4, <2>1 DEF StudentWorks, VolumeEffect
<1>5. ASSUME NEW p \in Procs,
             /\ Provision(p) \/ Guacamole(p) \/ Destroy(p) \/ Power(p)
             /\ ~StartContainer(p) /\ ~StartContainerFails(p) /\ ~RemoveVolume(p)
      PROVE  UNCHANGED volume
  BY <1>5 DEF Provision, CreateRow, CreateThrows, CreateOverlay, RecordOverlay,
     WaitForRdp, MarkReady, CleanUp, MarkFailed, Guacamole, MintCredentials,
     PublishMapping, HandOff, Destroy, RemoveContainer, RemoveOverlay, Unmap,
     MarkTerminated, Power, StopContainer, MarkPaused, ResumeContainer,
     RestartContainer, MarkResumed, hostVars
<1>6. ASSUME NEW p, Acquire(p) \/ Admin(p)
      PROVE  UNCHANGED volume
  BY <1>6 DEF Acquire, AcquireFindsOwn, RedeemAttached, AcquireFindsNone,
     BumpExpiry, ClaimPrewarm, ClaimNothing, Admin, DestroyReads, SuspendReads,
     ResumeReads, RestartReads, Operate, hostVars
<1>7. ASSUME \/ \E p : \/ ReaperLists(p) \/ ReaperTakes(p)
                       \/ PrewarmCounts(p) \/ PrewarmProvisions(p)
             \/ \E l \in Labs : \/ \E past \in BOOLEAN : Extend(l, past)
                                \/ TimePasses(l) \/ ContainerExits(l)
             \/ ControlPlaneRestarts
      PROVE  UNCHANGED volume
  BY <1>7 DEF ReaperLists, ReaperTakes, ReaperHandles, ReaperSkips, PrewarmCounts, PrewarmProvisions, Extend,
     TimePasses, ContainerExits, ControlPlaneRestarts, hostVars
<1>8. CASE UNCHANGED volume
  BY <1>8 DEF VolumeEffect
<1>9. CASE UNCHANGED vars
  BY <1>9 DEF vars, VolumeEffect
<1> QED
  BY <1>2, <1>3, <1>4, <1>5, <1>6, <1>7, <1>8, <1>9 DEF Next, Environment

\* A failed provision is final, whatever else is under way.
THEOREM FailureIsFinal == Spec => FailedIsFinal
<1>1. Inv /\ [Next]_vars =>
        [\A l \in Labs : row[l].status = "failed"
           => row'[l].status \in {"failed", "terminated"}]_vars
  BY FailedNext DEF FailedStays
<1> QED BY <1>1, Invariance, PTL DEF Spec, FailedIsFinal

\* Only a destroy of the student's own lab that was asked to wipe loses work.
THEOREM WorkIsKept == Spec => WorkLostOnlyByWipe
<1>1. ASSUME Inv, VolumeEffect
      PROVE  \A u \in Users : volume[u] = "work" /\ volume'[u] # "work"
               => \E p \in Procs : /\ task[p].pc = "volume" /\ task[p].wipe
                                   /\ row[task[p].lab].user = u
  BY <1>1 DEF VolumeEffect, Inv, TypeOK
<1>2. Inv /\ [Next]_vars =>
        [\A u \in Users : volume[u] = "work" /\ volume'[u] # "work"
           => \E p \in Procs : /\ task[p].pc = "volume" /\ task[p].wipe
                               /\ row[task[p].lab].user = u]_vars
  BY <1>1, VolumeNext
<1> QED BY <1>2, Invariance, PTL DEF Spec, WorkLostOnlyByWipe

-----------------------------------------------------------------------------
(* Refinement *)

Born   == {l \in Labs : row[l].status # "none"}
Lessee == [l \in Labs |-> row[l].user]
Stored == {u \in Users : volume[u] # "absent"}

\* Initial states map to initial states of the lease.
LEMMA LeaseInitially == Init => Lease!LeaseInit
BY DEF Init, Lease!LeaseInit, NoRow

\* Every step maps to a step of the lease or to a stutter.
LEMMA LeaseStep == Inv /\ [Next]_vars => [Lease!LeaseNext]_(Lease!leaseVars)
<1> SUFFICES ASSUME Inv, [Next]_vars
             PROVE  Lease!LeaseNext \/ UNCHANGED <<Born, Lessee, Stored>>
  BY DEF Lease!leaseVars, Born, Lessee, Stored
<1>0. TypeOK
  BY DEF Inv
<1>1. ASSUME NEW p \in Procs, CreateRow(p) PROVE Lease!LeaseNext
  <2>1. PICK l \in Labs, onNode \in BOOLEAN :
          /\ row[l].status = "none"
          /\ row' = [row EXCEPT ![l] =
               [NoRow EXCEPT !.status = "provisioning",
                             !.user = task[p].user,
                             !.isPrewarm = (task[p].user = NoUser),
                             !.refs.volumeName =
                                 (task[p].user # NoUser /\ ~VmLab),
                             !.refs.nodeId = onNode]]
    BY <1>1 DEF CreateRow, Fresh
  <2>2. /\ \A k \in Labs \ {l} : row'[k] = row[k]
        /\ row'[l].status = "provisioning"
        /\ row'[l].user = task[p].user
    BY <1>0, <2>1 DEF TypeOK, NoRow
  <2>3. task[p].user \in Users \cup {NoUser}
    BY <1>0, Fields
  <2>4. UNCHANGED volume
    BY <1>1 DEF CreateRow, hostVars
  <2>o. PICK o \in Users \cup {NoUser} : o = task[p].user
    BY <2>3
  <2>5. Lease!Bear(l, o)
    <3>1. l \notin Born /\ Born' = Born \cup {l}
      BY <2>1, <2>2 DEF Born
    <3>2. Lessee' = [Lessee EXCEPT ![l] = o]
      BY <2>2, <2>o DEF Lessee
    <3>3. UNCHANGED Stored
      BY <2>4 DEF Stored
    <3> QED BY <3>1, <3>2, <3>3 DEF Lease!Bear, Born, Lessee, Stored
  <2> QED BY <2>5 DEF Lease!LeaseNext
<1>2. ASSUME NEW p \in Requests, ClaimPrewarm(p)
      PROVE  Lease!LeaseNext \/ UNCHANGED <<Born, Lessee, Stored>>
  <2>1. PICK l \in Labs :
          /\ row[l].isPrewarm /\ row[l].status = "ready"
          /\ row' = [row EXCEPT ![l] =
               [@ EXCEPT !.isPrewarm = FALSE, !.user = task[p].user,
                         !.expired = FALSE]]
    BY <1>2 DEF ClaimPrewarm, Claimable
  <2>2. /\ \A k \in Labs \ {l} : row'[k] = row[k]
        /\ row'[l].status = "ready"
        /\ row'[l].user = task[p].user
    BY <1>0, <2>1 DEF TypeOK, Rows
  <2>3. row[l].user = NoUser
    BY <2>1 DEF Inv, PoolIsOwnerless
  <2>4. /\ Born' = Born /\ l \in Born
        /\ Lessee' = [Lessee EXCEPT ![l] = task[p].user]
        /\ UNCHANGED Stored
    <3>1. UNCHANGED volume
      BY <1>2 DEF ClaimPrewarm, hostVars
    <3>2. Born' = Born /\ l \in Born
      BY <2>1, <2>2 DEF Born
    <3>3. Lessee' = [Lessee EXCEPT ![l] = task[p].user]
      BY <2>2 DEF Lessee
    <3> QED BY <3>1, <3>2, <3>3 DEF Stored
  <2>5. CASE task[p].user \in Users
    <3>1. PICK u \in Users : u = task[p].user
      BY <2>5
    <3>2. Lease!Hand(l, u)
      BY <2>3, <2>4, <3>1 DEF Lease!Hand, Born, Lessee, Stored
    <3> QED BY <3>2 DEF Lease!LeaseNext
  <2>6. CASE task[p].user = NoUser
    BY <2>2, <2>3, <2>4, <2>6 DEF Lessee
  <2>7. task[p].user \in Users \cup {NoUser}
    BY <1>0, Fields DEF Procs
  <2> QED BY <2>5, <2>6, <2>7
<1>3. CASE RowEffect
  <2>1. UNCHANGED <<Born, Lessee>>
    BY <1>3 DEF RowEffect, Born, Lessee
  <2>2. CASE UNCHANGED volume
    BY <2>1, <2>2 DEF Stored
  <2>3. ASSUME NEW l \in Labs, NEW v \in {"absent", "empty", "work"},
               row[l].status # "none", row[l].user \in Users,
               volume' = [volume EXCEPT ![row[l].user] = v]
        PROVE  Lease!LeaseNext
    <3>u. PICK u \in Users : u = row[l].user
      BY <2>3
    <3>1. l \in Born /\ Lessee[l] = u
      BY <2>3, <3>u DEF Born, Lessee
    <3>2. CASE v = "absent"
      <4>1. Stored' = Stored \ {u}
        BY <1>0, <2>3, <3>u, <3>2 DEF Stored, TypeOK
      <4>2. Lease!Erase(u)
        BY <2>1, <3>1, <4>1 DEF Lease!Erase, Born, Lessee, Stored
      <4> QED BY <4>2 DEF Lease!LeaseNext
    <3>3. CASE v # "absent"
      <4>1. Stored' = Stored \cup {u}
        BY <1>0, <2>3, <3>u, <3>3 DEF Stored, TypeOK
      <4>2. Lease!Store(u)
        BY <2>1, <3>1, <4>1 DEF Lease!Store, Born, Lessee, Stored
      <4> QED BY <4>2 DEF Lease!LeaseNext
    <3> QED BY <3>2, <3>3
  <2> QED BY <2>1, <2>2, <2>3, VolumeNext DEF VolumeEffect
<1>4. CASE UNCHANGED vars
  BY <1>4 DEF vars, Born, Lessee, Stored
<1>5. CASE /\ Next
           /\ \A p \in Procs : ~CreateRow(p)
           /\ \A p \in Requests : ~ClaimPrewarm(p)
  <2>1. RowEffect
    BY <1>5, AcquireEffects, ProvisionEffects, RestEffects, AdminEffects,
       TickEffects, EnvironmentEffects DEF Next, Procs, Effects
  <2> QED BY <1>3, <2>1
<1> QED BY <1>1, <1>2, <1>4, <1>5

\* The lifecycle implements the lease specification.
THEOREM Refinement == Spec => ImplementsLease
BY LeaseInitially, LeaseStep, Invariance, PTL
   DEF Spec, ImplementsLease, Lease!LeaseSpec

-----------------------------------------------------------------------------
(* The pool stays within its target *)

\* A process other than a prewarm tick works for a student, or keeps away from
\* the pool.
OthersServe ==
  \A p \in Procs \ PrewarmTicks :
    task'[p].pc \in {"claim", "create"} \cup Provisioning => task'[p].user # NoUser

\* A prewarm tick goes on with its lab, or is done with it and perhaps with all.
TickGoesOn(p) ==
  /\ quota'[p] \in {0, quota[p]}
  /\ \/ task'[p] = task[p]
     \/ task'[p] = NoTask
     \/ /\ task[p].pc \in Provisioning /\ task'[p].pc \in Provisioning
        /\ task'[p].lab = task[p].lab /\ task'[p].user = task[p].user
TicksGoOn == \A p \in PrewarmTicks : TickGoesOn(p)

\* No lab enters the pool that no tick had in hand, other than by a resume.
PoolDrains ==
  /\ returned \subseteq returned'
  /\ \A l \in Labs :
       row'[l].isPrewarm /\ row'[l].status \in {"provisioning", "ready"} =>
         l \in Pool \cup Hands \cup returned'

\* A step of no consequence for what the pool commits to.
PoolCalm == OthersServe /\ TicksGoOn /\ PoolDrains

\* The finite sets that are counted.
LEMMA PoolSets ==
  /\ IsFiniteSet(Committed) /\ IsFiniteSet(Planned)
  /\ IsFiniteSet(Pool) /\ IsFiniteSet(Hands)
  /\ IsFiniteSet(PrewarmTicks \X (1..2))
  /\ Cardinality(PrewarmTicks) \in Nat
  /\ \A S \in SUBSET Labs : IsFiniteSet(S)
<1>1. IsFiniteSet(Labs)
  BY LifecycleAssumption, FS_Interval DEF Labs
<1>2. \A S \in SUBSET Labs : IsFiniteSet(S)
  BY <1>1, FS_Subset
<1>3. Committed \in SUBSET Labs /\ Pool \in SUBSET Labs /\ Hands \in SUBSET Labs
  BY DEF Committed, Pool, Hands
<1>4. IsFiniteSet(1..2)
  <2>1. 1 \in Int /\ 2 \in Int
    OBVIOUS
  <2> QED BY <2>1, FS_Interval
<1>5. IsFiniteSet(PrewarmTicks \X (1..2))
  BY <1>4, LifecycleAssumption, FS_Product
<1>6. Planned \in SUBSET (PrewarmTicks \X (1..2))
  BY DEF Planned
<1>7. IsFiniteSet(Planned)
  BY <1>5, <1>6, FS_Subset
<1>8. Cardinality(PrewarmTicks) \in Nat
  BY LifecycleAssumption, FS_CardinalityType
<1> QED BY <1>2, <1>3, <1>5, <1>7, <1>8

\* Sets that do not grow together keep the bound.
LEMMA PoolShrinks ==
  ASSUME PoolIsPlanned, Committed' \subseteq Committed, Planned' \subseteq Planned
  PROVE  PrewarmTicks # {} =>
           Cardinality(Committed') + Cardinality(Planned')
             <= PoolTarget + 2 * (Cardinality(PrewarmTicks) - 1)
<1>1. /\ IsFiniteSet(Committed') /\ Cardinality(Committed') <= Cardinality(Committed)
      /\ IsFiniteSet(Planned') /\ Cardinality(Planned') <= Cardinality(Planned)
  BY PoolSets, FS_Subset
<1>2. /\ Cardinality(Committed') \in Nat /\ Cardinality(Committed) \in Nat
      /\ Cardinality(Planned') \in Nat /\ Cardinality(Planned) \in Nat
  BY <1>1, PoolSets, FS_CardinalityType
<1> QED
  BY <1>1, <1>2, PoolSets, LifecycleAssumption DEF PoolIsPlanned

\* The types of a prewarm tick.
LEMMA TickFields ==
  ASSUME TypeOK, NEW p \in PrewarmTicks
  PROVE  p \in Procs /\ quota[p] \in 0..2 /\ task[p] \in Tasks
BY DEF TypeOK, Procs

\* Calm steps keep the pool's invariant.
LEMMA CalmPreserves ==
  ASSUME Inv, Inv', PoolInv, PoolCalm
  PROVE  PoolInv'
<1>0. TypeOK /\ TypeOK' /\ PrewarmTicks \subseteq Procs
  BY DEF Inv, Procs
<1>1. \A p \in PrewarmTicks : /\ quota[p] \in 0..2 /\ quota'[p] \in 0..2
                              /\ quota'[p] <= quota[p]
  BY <1>0 DEF PoolCalm, TicksGoOn, TickGoesOn, TypeOK
<1>2. \A p \in PrewarmTicks : /\ task'[p].pc \in {"idle", "create"} \cup Provisioning
                              /\ task'[p].user = NoUser
  BY DEF PoolCalm, TicksGoOn, TickGoesOn, PoolInv, PoolHands, NoTask
<1>3. \A p \in Procs \ PrewarmTicks :
        task'[p].pc \in {"claim", "create"} \cup Provisioning => task'[p].user # NoUser
  BY DEF PoolCalm, OthersServe
<1>4. \A p \in PrewarmTicks : quota'[p] = 2 => Idle(p)'
  BY <1>1 DEF PoolCalm, TicksGoOn, TickGoesOn, PoolInv, PoolIsPlanned, Idle,
              NoTask, Provisioning
<1>5. Committed' \subseteq Committed
  <2>1. Hands' \subseteq Hands
    BY DEF Hands, PoolCalm, TicksGoOn, TickGoesOn, NoTask, Provisioning
  <2>2. Pool' \subseteq Pool \cup Hands \cup returned'
    BY DEF PoolCalm, PoolDrains, Pool
  <2> QED BY <2>1, <2>2 DEF Committed, PoolCalm, PoolDrains
<1>6. Planned' \subseteq Planned
  <2>1. \A p \in PrewarmTicks : Owed(p)' \in Int /\ Owed(p) \in Int /\ Owed(p)' <= Owed(p)
    BY <1>1 DEF PoolCalm, TicksGoOn, TickGoesOn, Owed, At, NoTask, Provisioning
  <2> SUFFICES ASSUME NEW p \in PrewarmTicks, NEW i \in 1..2, i <= Owed(p)'
               PROVE  i <= Owed(p)
    BY DEF Planned
  <2> QED BY <2>1
<1> QED BY <1>2, <1>3, <1>4, <1>5, <1>6, PoolShrinks DEF PoolInv, PoolHands, PoolIsPlanned

\* A process moves on to t, which is no more than it was doing for the pool.
LEMMA MoveCalm ==
  ASSUME TypeOK, PoolHands, NEW p \in Procs, NEW t,
         task' = [task EXCEPT ![p] = t],
         quota' = quota \/ quota' = [quota EXCEPT ![p] = 0],
         p \in PrewarmTicks =>
           \/ t = NoTask
           \/ /\ task[p].pc \in Provisioning /\ t.pc \in Provisioning
              /\ t.lab = task[p].lab /\ t.user = task[p].user,
         p \notin PrewarmTicks /\ t.pc \in {"claim", "create"} \cup Provisioning
           => t.user # NoUser
  PROVE  OthersServe /\ TicksGoOn
<1>1. task'[p] = t /\ \A q \in Procs \ {p} : task'[q] = task[q]
  BY DEF TypeOK
<1>2. \A q \in PrewarmTicks : q \in Procs /\ quota'[q] \in {0, quota[q]}
  BY DEF TypeOK, Procs
<1>3. OthersServe
  BY <1>1 DEF OthersServe, PoolHands
<1>4. TicksGoOn
  BY <1>1, <1>2 DEF TicksGoOn, TickGoesOn
<1> QED BY <1>3, <1>4

\* Going on to pc within an operation.
LEMMA GotoCalm ==
  ASSUME TypeOK, PoolHands, NEW p \in Procs, NEW pc, Goto(p, pc), UNCHANGED quota,
         pc \in Provisioning => task[p].pc \in Provisioning,
         pc = "create" => task[p].pc = "claim",
         pc # "claim",
         p \in PrewarmTicks => pc \in Provisioning
  PROVE  OthersServe /\ TicksGoOn
<1> DEFINE t == [task[p] EXCEPT !.pc = pc]
<1>1. task' = [task EXCEPT ![p] = t]
  BY DEF Goto
<1>2. t.pc = pc /\ t.lab = task[p].lab /\ t.user = task[p].user
  BY DEF TypeOK, Tasks
<1>3. p \notin PrewarmTicks /\ t.pc \in {"claim", "create"} \cup Provisioning
        => t.user # NoUser
  BY <1>2 DEF PoolHands
<1> HIDE DEF t
<1> QED BY <1>1, <1>2, <1>3, MoveCalm

\* Being done gives up the lab in hand, and perhaps the rest of the tick.
LEMMA FinishCalm ==
  ASSUME TypeOK, PoolHands, NEW p \in Procs, Finish(p),
         UNCHANGED quota \/ AbortTick(p)
  PROVE  OthersServe /\ TicksGoOn
<1>1. NoTask.pc = "idle"
  BY DEF NoTask
<1>2. task' = [task EXCEPT ![p] = NoTask]
  BY DEF Finish
<1>3. quota' = quota \/ quota' = [quota EXCEPT ![p] = 0]
  BY DEF AbortTick
<1> QED BY <1>1, <1>2, <1>3, MoveCalm DEF Provisioning

\* A step that leaves rows alone, or changes them without making one a ready or
\* provisioning pool lab, drains the pool.
LEMMA RowsDrain ==
  ASSUME returned \subseteq returned',
         \A l \in Labs :
           /\ row'[l].isPrewarm => row[l].isPrewarm
           /\ row'[l].status \in {"provisioning", "ready"}
                => row[l].status \in {"provisioning", "ready"}
  PROVE  PoolDrains
BY DEF PoolDrains, Pool

\* So does a step that leaves the rows alone.
LEMMA RowFrameDrains ==
  ASSUME UNCHANGED <<row, returned>>
  PROVE  PoolDrains
BY DEF PoolDrains, Pool

\* acquireInstance takes labs from the pool, and asks for one for its student.
LEMMA AcquireCalm ==
  ASSUME TypeOK, PoolHands, NEW p \in Requests, Acquire(p)
  PROVE  PoolCalm
<1>0. p \in Procs /\ p \notin PrewarmTicks /\ NoUser \notin Users
  BY LifecycleAssumption DEF Procs
<1>a. \A st : AfterAcquire(st) \notin {"claim", "create"} \cup Provisioning
  BY AfterAcquireType DEF Provisioning
<1>1. ASSUME NEW u \in Users, AcquireFindsOwn(p, u) PROVE PoolCalm
  <2>1. PICK l \in Newest(LabsOf(u)) :
          \E pc \in {"bump", AfterAcquire(row[l].status)} :
            task' = [task EXCEPT ![p] =
                       [NoTask EXCEPT !.pc = pc, !.lab = l, !.user = u]]
    BY <1>1 DEF AcquireFindsOwn
  <2>2. PICK pc \in {"bump", AfterAcquire(row[l].status)} :
          task' = [task EXCEPT ![p] =
                     [NoTask EXCEPT !.pc = pc, !.lab = l, !.user = u]]
    BY <2>1
  <2>3. [NoTask EXCEPT !.pc = pc, !.lab = l, !.user = u].pc = pc
    BY DEF NoTask
  <2>4. pc \notin {"claim", "create"} \cup Provisioning
    BY <1>a DEF Provisioning
  <2>5. UNCHANGED <<row, quota, returned>>
    BY <1>1 DEF AcquireFindsOwn, loopVars
  <2> QED BY <1>0, <2>2, <2>3, <2>4, <2>5, MoveCalm, RowFrameDrains DEF PoolCalm
<1>2. ASSUME NEW u \in Users, RedeemAttached(p, u) PROVE PoolCalm
  <2>1. PICK l \in LabsOf(u) :
          task' = [task EXCEPT ![p] =
            [NoTask EXCEPT !.lab = l, !.user = u,
                           !.pc = AfterAcquire(row[l].status)]]
    BY <1>2 DEF RedeemAttached
  <2>2. [NoTask EXCEPT !.lab = l, !.user = u,
                       !.pc = AfterAcquire(row[l].status)].pc
          = AfterAcquire(row[l].status)
    BY DEF NoTask
  <2>3. UNCHANGED <<row, quota, returned>>
    BY <1>2 DEF RedeemAttached, loopVars
  <2> QED BY <1>0, <1>a, <2>1, <2>2, <2>3, MoveCalm, RowFrameDrains DEF PoolCalm
<1>3. ASSUME NEW u \in Users, AcquireFindsNone(p, u) PROVE PoolCalm
  <2>1. task' = [task EXCEPT ![p] = [NoTask EXCEPT !.pc = "claim", !.user = u]]
    BY <1>3 DEF AcquireFindsNone
  <2>2. [NoTask EXCEPT !.pc = "claim", !.user = u].user # NoUser
    BY <1>0 DEF NoTask
  <2>3. UNCHANGED <<row, quota, returned>>
    BY <1>3 DEF AcquireFindsNone, loopVars
  <2> QED BY <1>0, <2>1, <2>2, <2>3, MoveCalm, RowFrameDrains DEF PoolCalm
<1>4. ASSUME BumpExpiry(p) PROVE PoolCalm
  <2>1. PICK pc : pc = AfterAcquire(row[task[p].lab].status)
    OBVIOUS
  <2>2. Goto(p, pc) /\ UNCHANGED <<quota, returned>>
    BY <1>4, <2>1 DEF BumpExpiry, loopVars
  <2>3. \A l \in Labs : /\ row'[l].isPrewarm = row[l].isPrewarm
                        /\ row'[l].status = row[l].status
    BY <1>4 DEF BumpExpiry, TypeOK, Rows
  <2> QED BY <1>0, <1>a, <2>1, <2>2, <2>3, GotoCalm, RowsDrain DEF PoolCalm
<1>5. ASSUME ClaimPrewarm(p) PROVE PoolCalm
  <2>1. PICK l \in Labs :
          /\ row' = [row EXCEPT ![l] =
               [@ EXCEPT !.isPrewarm = FALSE, !.user = task[p].user,
                         !.expired = FALSE]]
          /\ task' = [task EXCEPT ![p] =
               [@ EXCEPT !.lab = l, !.pc = AfterAcquire("ready")]]
    BY <1>5 DEF ClaimPrewarm, Claimable
  <2>2. [task[p] EXCEPT !.lab = l, !.pc = AfterAcquire("ready")].pc
          = AfterAcquire("ready")
    BY <1>0 DEF TypeOK, Tasks
  <2>3. \A k \in Labs : /\ row'[k].isPrewarm => row[k].isPrewarm
                        /\ row'[k].status = row[k].status
    BY <2>1 DEF TypeOK, Rows
  <2>4. UNCHANGED <<quota, returned>>
    BY <1>5 DEF ClaimPrewarm, loopVars
  <2>5. OthersServe /\ TicksGoOn
    BY <1>0, <1>a, <2>1, <2>2, <2>4, MoveCalm
  <2> QED BY <2>3, <2>4, <2>5, RowsDrain DEF PoolCalm
<1>6. ASSUME ClaimNothing(p) PROVE PoolCalm
  BY <1>0, <1>6, GotoCalm, RowFrameDrains
     DEF ClaimNothing, PoolCalm, loopVars, At, Provisioning
<1> QED BY <1>1, <1>2, <1>3, <1>4, <1>5, <1>6 DEF Acquire

\* provisionNew creates no pool lab without a prewarm tick, and readies none
\* that no tick has in hand.
LEMMA ProvisionCalm ==
  ASSUME Inv, PoolHands, NEW p \in Procs, Provision(p),
         p \in PrewarmTicks => ~CreateRow(p)
  PROVE  PoolCalm
<1>0. TypeOK /\ task[p].lab \in Labs \cup {NoLab}
  BY Fields DEF Inv
<1>1. ASSUME CreateRow(p) PROVE PoolCalm
  <2>1. PICK l \in Labs, onNode \in BOOLEAN :
          /\ row' = [row EXCEPT ![l] =
               [NoRow EXCEPT !.status = "provisioning",
                             !.user = task[p].user,
                             !.isPrewarm = (task[p].user = NoUser),
                             !.refs.volumeName =
                                 (task[p].user # NoUser /\ ~VmLab),
                             !.refs.nodeId = onNode]]
          /\ task' = [task EXCEPT ![p] =
               [@ EXCEPT !.lab = l,
                         !.pc = IF VmLab THEN "overlay" ELSE "provision"]]
    BY <1>1 DEF CreateRow
  <2>2. task[p].user # NoUser /\ p \notin PrewarmTicks
    BY <1>1 DEF CreateRow, At, PoolHands
  <2>3. [task[p] EXCEPT !.lab = l,
           !.pc = IF VmLab THEN "overlay" ELSE "provision"].user = task[p].user
    BY <1>0 DEF TypeOK, Tasks
  <2>4. UNCHANGED <<quota, returned>>
    BY <1>1 DEF CreateRow, loopVars
  <2>5. OthersServe /\ TicksGoOn
    BY <1>0, <2>1, <2>2, <2>3, <2>4, MoveCalm
  <2>6. ~row'[l].isPrewarm /\ \A k \in Labs \ {l} : row'[k] = row[k]
    BY <1>0, <2>1, <2>2 DEF TypeOK, Rows, NoRow
  <2>7. PoolDrains
    BY <2>4, <2>6 DEF PoolDrains, Pool
  <2> QED BY <2>5, <2>7 DEF PoolCalm
<1>2. ASSUME CreateThrows(p) PROVE PoolCalm
  BY <1>0, <1>2, FinishCalm, RowFrameDrains DEF CreateThrows, PoolCalm
<1>3. ASSUME CreateOverlay(p) \/ StartContainer(p) \/ StartContainerFails(p)
             \/ WaitForRdp(p) \/ CleanUp(p)
      PROVE  PoolCalm
  <2>1. PICK pc \in Provisioning : Goto(p, pc)
    BY <1>3 DEF CreateOverlay, StartContainer, StartContainerFails, WaitForRdp,
                CleanUp, Provisioning
  <2>2. task[p].pc \in Provisioning /\ UNCHANGED <<row, quota, returned>>
    BY <1>3 DEF CreateOverlay, StartContainer, StartContainerFails, WaitForRdp,
                CleanUp, Provisioning, At, loopVars
  <2>3. pc # "create" /\ pc # "claim"
    BY DEF Provisioning
  <2> QED BY <1>0, <2>1, <2>2, <2>3, GotoCalm, RowFrameDrains DEF PoolCalm
<1>4. ASSUME RecordOverlay(p) PROVE PoolCalm
  <2>1. OthersServe /\ TicksGoOn
    BY <1>0, <1>4, GotoCalm DEF RecordOverlay, Provisioning, At, loopVars
  <2>2. \A l \in Labs : /\ row'[l].isPrewarm = row[l].isPrewarm
                        /\ row'[l].status = row[l].status
    BY <1>0, <1>4 DEF RecordOverlay, TypeOK, Rows
  <2> QED BY <1>4, <2>1, <2>2, RowsDrain DEF RecordOverlay, PoolCalm, loopVars
<1>5. ASSUME MarkReady(p) PROVE PoolCalm
  <2>1. task[p].pc = "ready" /\ UNCHANGED <<quota, returned>>
    BY <1>5 DEF MarkReady, At, loopVars
  <2>2. OthersServe /\ TicksGoOn
    <3>1. CASE task[p].user = NoUser
      BY <1>0, <1>5, <2>1, <3>1, FinishCalm DEF MarkReady
    <3>2. CASE task[p].user # NoUser
      <4>1. p \notin PrewarmTicks
        BY <3>2 DEF PoolHands
      <4>2. Goto(p, AfterAcquire("ready"))
        BY <1>5, <3>2 DEF MarkReady
      <4>3. AfterAcquire("ready") \in {"mint", "handoff"}
        BY AfterAcquireType
      <4> QED BY <1>0, <2>1, <4>1, <4>2, <4>3, GotoCalm DEF Provisioning
    <3> QED BY <3>1, <3>2
  <2>3. /\ \A l \in Labs : row'[l].isPrewarm = row[l].isPrewarm
        /\ \A l \in Labs \ {task[p].lab} : row'[l] = row[l]
    BY <1>0, <1>5 DEF MarkReady, TypeOK, Rows
  <2>4. task[p].lab \in Labs /\ row[task[p].lab].isPrewarm => task[p].lab \in Hands
    <3>1. row[task[p].lab].user = task[p].user
      BY <2>1 DEF Inv, ProvisionIsExclusive, Provisioning
    <3> QED BY <2>1, <3>1 DEF Inv, PoolIsOwnerless, PoolHands, Hands, Provisioning
  <2>5. PoolDrains
    BY <2>1, <2>3, <2>4 DEF PoolDrains, Pool
  <2> QED BY <2>2, <2>5 DEF PoolCalm
<1>6. ASSUME MarkFailed(p) PROVE PoolCalm
  <2>1. OthersServe /\ TicksGoOn
    BY <1>0, <1>6, FinishCalm DEF MarkFailed
  <2>2. \A l \in Labs : /\ row'[l].isPrewarm = row[l].isPrewarm
                        /\ row'[l].status \in {row[l].status, "failed"}
    BY <1>0, <1>6 DEF MarkFailed, TypeOK, Rows
  <2> QED BY <1>6, <2>1, <2>2, RowsDrain DEF MarkFailed, PoolCalm
<1> QED BY <1>1, <1>2, <1>3, <1>4, <1>5, <1>6 DEF Provision

\* Credentials, destroys and power operations are no work of a prewarm tick,
\* and a lab they bring back into the pool is remembered as returned.
LEMMA RestCalm ==
  ASSUME TypeOK, PoolHands, NEW p \in Procs, Guacamole(p) \/ Destroy(p) \/ Power(p)
  PROVE  PoolCalm
<1>0. p \notin PrewarmTicks /\ task[p].pc \notin {"idle", "claim", "create"} \cup Provisioning
  BY DEF Guacamole, Destroy, Power, MintCredentials, PublishMapping, HandOff,
     RemoveContainer, RemoveVolume, RemoveOverlay, Unmap, MarkTerminated,
     StopContainer, MarkPaused, ResumeContainer, RestartContainer, MarkResumed,
     At, PoolHands, Provisioning
<1>a. \A pc : Goto(p, pc) /\ UNCHANGED quota
               /\ pc \notin {"claim", "create"} \cup Provisioning
               => OthersServe /\ TicksGoOn
  BY <1>0, GotoCalm
<1>b. Finish(p) /\ UNCHANGED quota => OthersServe /\ TicksGoOn
  BY FinishCalm
<1>c. task[p].refs \in Refs /\ task[p].wipe \in BOOLEAN
  BY Fields
<1>d. \A pc \in {"remove", "volume", "overlayRm", "unmap", "terminate", "mint",
                "publish", "handoff", "pause", "resumed"} :
        pc \notin {"claim", "create"} \cup Provisioning
  BY DEF Provisioning
<1>1. CASE Guacamole(p)
  <2>1. OthersServe /\ TicksGoOn
    BY <1>1, <1>a, <1>b, <1>d DEF Guacamole, MintCredentials, PublishMapping,
                                  HandOff, loopVars
  <2>2. \A l \in Labs : /\ row'[l].isPrewarm = row[l].isPrewarm
                        /\ row'[l].status = row[l].status
    BY <1>1 DEF Guacamole, MintCredentials, PublishMapping, HandOff, TypeOK, Rows
  <2>3. UNCHANGED returned
    BY <1>1 DEF Guacamole, MintCredentials, PublishMapping, HandOff, loopVars
  <2> QED BY <2>1, <2>2, <2>3, RowsDrain DEF PoolCalm
<1>2. CASE Destroy(p)
  <2>1. UNCHANGED <<quota, returned>>
    BY <1>2 DEF Destroy, RemoveContainer, RemoveVolume, RemoveOverlay, Unmap,
                MarkTerminated, loopVars
  <2>2. OthersServe /\ TicksGoOn
    <3>1. CASE MarkTerminated(p)
      BY <1>b, <2>1, <3>1 DEF MarkTerminated
    <3>2. CASE ~MarkTerminated(p)
      <4>1. PICK pc \in {"volume", "overlayRm", "unmap", "terminate"} : Goto(p, pc)
        BY <1>2, <1>c, <3>2, DestroyPlaces
           DEF Destroy, RemoveContainer, RemoveVolume, RemoveOverlay, Unmap
      <4> QED BY <1>a, <1>d, <2>1, <4>1
    <3> QED BY <3>1, <3>2
  <2>3. \A l \in Labs : /\ row'[l].isPrewarm = row[l].isPrewarm
                        /\ row'[l].status \in {row[l].status, "terminated"}
    <3>2. CASE Unmap(p)
      <4>1. CASE row' = [row EXCEPT ![task[p].lab].refs.guacamoleUser = FALSE]
        BY <4>1 DEF TypeOK, Rows
      <4>2. CASE UNCHANGED row
        BY <4>2
      <4> QED BY <3>2, <4>1, <4>2 DEF Unmap
    <3>3. CASE MarkTerminated(p)
      BY <3>3 DEF MarkTerminated, TypeOK, Rows
    <3>4. CASE UNCHANGED row
      BY <3>4
    <3>5. RemoveContainer(p) \/ RemoveVolume(p) \/ RemoveOverlay(p) => UNCHANGED row
      BY DEF RemoveContainer, RemoveVolume, RemoveOverlay
    <3> QED BY <1>2, <3>2, <3>3, <3>4, <3>5 DEF Destroy
  <2> QED BY <2>1, <2>2, <2>3, RowsDrain DEF PoolCalm
<1>3. CASE Power(p) /\ ~MarkResumed(p)
  <2>1. OthersServe /\ TicksGoOn
    BY <1>3, <1>a, <1>b, <1>d DEF Power, StopContainer, MarkPaused,
       ResumeContainer, RestartContainer, loopVars
  <2>2. \A l \in Labs : /\ row'[l].isPrewarm = row[l].isPrewarm
                        /\ row'[l].status \in {row[l].status, "paused"}
    <3>1. StopContainer(p) \/ ResumeContainer(p) \/ RestartContainer(p) => UNCHANGED row
      BY DEF StopContainer, ResumeContainer, RestartContainer
    <3>2. CASE MarkPaused(p)
      BY <3>2 DEF MarkPaused, TypeOK, Rows
    <3> QED BY <1>3, <3>1, <3>2 DEF Power
  <2>3. UNCHANGED returned
    BY <1>3 DEF Power, StopContainer, MarkPaused, ResumeContainer,
                RestartContainer, loopVars
  <2> QED BY <2>1, <2>2, <2>3, RowsDrain DEF PoolCalm
<1>4. CASE MarkResumed(p)
  <2>1. OthersServe /\ TicksGoOn
    <3>1. AfterAcquire("ready") \in {"mint", "handoff"}
      BY AfterAcquireType
    <3> QED BY <1>4, <1>a, <1>b, <1>d, <3>1 DEF MarkResumed
  <2>2. /\ \A l \in Labs : row'[l].isPrewarm = row[l].isPrewarm
        /\ \A l \in Labs \ {task[p].lab} : row'[l] = row[l]
    BY <1>4 DEF MarkResumed, TypeOK, Rows
  <2>3. /\ returned \subseteq returned'
        /\ row[task[p].lab].isPrewarm /\ task[p].lab \notin Pool
             => task[p].lab \in returned'
    BY <1>4 DEF MarkResumed
  <2>4. PoolDrains
    BY <2>2, <2>3 DEF PoolDrains, Pool
  <2> QED BY <2>1, <2>4 DEF PoolCalm
<1> QED BY <1>1, <1>2, <1>3, <1>4

\* Admin requests only start operations on existing labs.
LEMMA AdminCalm ==
  ASSUME TypeOK, PoolHands, NEW p \in Requests, Admin(p)
  PROVE  PoolCalm
<1>0. p \in Procs /\ p \notin PrewarmTicks
  BY LifecycleAssumption DEF Procs
<1>1. UNCHANGED <<row, quota, returned>>
  BY DEF Admin, DestroyReads, SuspendReads, ResumeReads, RestartReads, Operate, loopVars
<1>2. ASSUME NEW t, task' = [task EXCEPT ![p] = t],
             t.pc \notin {"claim", "create"} \cup Provisioning
      PROVE  PoolCalm
  BY <1>0, <1>1, <1>2, MoveCalm, RowFrameDrains DEF PoolCalm
<1>3. ASSUME NEW l \in Labs, NEW wipe \in BOOLEAN, DestroyReads(p, l, wipe)
      PROVE  PoolCalm
  <2>1. DestroyTask(l, wipe).pc \notin {"claim", "create"} \cup Provisioning
    BY Fields, DestroyPlaces DEF DestroyTask, Provisioning
  <2> QED BY <1>2, <1>3, <2>1 DEF DestroyReads
<1>4. ASSUME NEW l \in Labs, NEW pc \in {"stop", "start", "reboot"}, Operate(p, l, pc)
      PROVE  PoolCalm
  <2>1. [NoTask EXCEPT !.pc = pc, !.lab = l].pc = pc
    BY DEF NoTask
  <2> QED BY <1>2, <1>4, <2>1 DEF Operate, Provisioning
<1> QED BY <1>3, <1>4 DEF Admin, SuspendReads, ResumeReads, RestartReads

\* The reaper, time, students, Docker and restarts leave the pool alone.
LEMMA OthersCalm ==
  ASSUME TypeOK, PoolHands,
         \/ \E p \in ReaperTicks : ReaperLists(p) \/ ReaperTakes(p)
         \/ Environment \/ ControlPlaneRestarts
  PROVE  PoolCalm
<1>1. UNCHANGED <<task, quota>> => OthersServe /\ TicksGoOn
  BY DEF OthersServe, TicksGoOn, TickGoesOn, PoolHands, TypeOK, Procs
<1>2. ASSUME NEW p \in ReaperTicks, ReaperLists(p) PROVE PoolCalm
  BY <1>1, <1>2, RowFrameDrains DEF ReaperLists, PoolCalm
<1>3. ASSUME NEW p \in ReaperTicks, ReaperTakes(p) PROVE PoolCalm
  <2>0. p \in Procs /\ p \notin PrewarmTicks
    BY LifecycleAssumption DEF Procs
  <2>1. PICK l \in agenda[p].queue :
          \/ task' = [task EXCEPT ![p] = DestroyTask(l, TRUE)]
          \/ task' = [task EXCEPT ![p] = [NoTask EXCEPT !.pc = "stop", !.lab = l]]
          \/ UNCHANGED task
    BY <1>3 DEF ReaperTakes, ReaperHandles, ReaperSkips
  <2>2. DestroyTask(l, TRUE).pc \notin {"claim", "create"} \cup Provisioning
    BY Fields, DestroyPlaces DEF DestroyTask, Provisioning
  <2>3. [NoTask EXCEPT !.pc = "stop", !.lab = l].pc
          \notin {"claim", "create"} \cup Provisioning
    BY DEF NoTask, Provisioning
  <2>4. UNCHANGED <<row, quota, returned>>
    BY <1>3 DEF ReaperTakes, ReaperHandles, ReaperSkips
  <2>5. OthersServe /\ TicksGoOn
    BY <1>1, <2>0, <2>1, <2>2, <2>3, <2>4, MoveCalm
  <2> QED BY <2>4, <2>5, RowFrameDrains DEF PoolCalm
<1>4. CASE Environment
  <2>1. UNCHANGED <<task, quota, returned>>
    BY <1>4 DEF Environment, Extend, TimePasses, StudentWorks, ContainerExits, loopVars
  <2>2. \A l \in Labs : /\ row'[l].isPrewarm = row[l].isPrewarm
                        /\ row'[l].status = row[l].status
    <3>1. ASSUME NEW k \in Labs, NEW b \in BOOLEAN,
                 \/ row' = [row EXCEPT ![k].expired = b]
                 \/ row' = [row EXCEPT ![k].inactive = b]
                 \/ row' = [row EXCEPT ![k].forgotten = b]
                 \/ UNCHANGED row
          PROVE  \A l \in Labs : /\ row'[l].isPrewarm = row[l].isPrewarm
                                 /\ row'[l].status = row[l].status
      <4>1. CASE row' = [row EXCEPT ![k].expired = b]
        BY <4>1 DEF TypeOK, Rows
      <4>2. CASE row' = [row EXCEPT ![k].inactive = b]
        BY <4>2 DEF TypeOK, Rows
      <4>3. CASE row' = [row EXCEPT ![k].forgotten = b]
        BY <4>3 DEF TypeOK, Rows
      <4> QED BY <3>1, <4>1, <4>2, <4>3
    <3>2. PICK k \in Labs, b \in BOOLEAN :
            \/ row' = [row EXCEPT ![k].expired = b]
            \/ row' = [row EXCEPT ![k].inactive = b]
            \/ row' = [row EXCEPT ![k].forgotten = b]
            \/ UNCHANGED row
      BY <1>4 DEF Environment, Extend, TimePasses, StudentWorks, ContainerExits
    <3> QED BY <3>1, <3>2
  <2> QED BY <1>1, <2>1, <2>2, RowsDrain DEF PoolCalm
<1>5. CASE ControlPlaneRestarts
  <2>1. OthersServe /\ TicksGoOn
    BY <1>5 DEF ControlPlaneRestarts, OthersServe, TicksGoOn, TickGoesOn, NoTask,
                Procs, Provisioning
  <2> QED BY <1>5, <2>1, RowFrameDrains DEF ControlPlaneRestarts, PoolCalm
<1> QED BY <1>2, <1>3, <1>4, <1>5

\* Every step but a tick's own count, plan and birth of a row is calm.
LEMMA CalmNext ==
  ASSUME Inv, PoolHands, Next,
         \A p \in PrewarmTicks :
           ~CreateRow(p) /\ ~PrewarmCounts(p) /\ ~PrewarmProvisions(p)
  PROVE  PoolCalm
BY AcquireCalm, AdminCalm, ProvisionCalm, RestCalm, OthersCalm DEF Next, Inv

\* A tick takes one of the provisions it planned.
LEMMA ProvisionsPreserves ==
  ASSUME Inv, PoolInv, NEW p \in PrewarmTicks, PrewarmProvisions(p)
  PROVE  PoolInv'
<1>0. TypeOK /\ p \in Procs /\ quota[p] \in 1..2
  BY DEF Inv, TypeOK, Procs, PrewarmProvisions
<1>1. /\ task'[p] = [NoTask EXCEPT !.pc = "create"] /\ task[p].pc = "idle"
      /\ \A q \in Procs \ {p} : task'[q] = task[q]
  BY <1>0 DEF TypeOK, PrewarmProvisions, Idle
<1>2. /\ quota'[p] = quota[p] - 1
      /\ \A q \in PrewarmTicks \ {p} : quota'[q] = quota[q]
  BY <1>0 DEF TypeOK, PrewarmProvisions
<1>3. task'[p].pc = "create" /\ task'[p].user = NoUser
  BY <1>1 DEF NoTask
<1>4. PrewarmTicks \subseteq Procs
  BY DEF Procs
<1>5. PoolHands'
  BY <1>0, <1>1, <1>3, <1>4 DEF PoolInv, PoolHands
<1>6. \A q \in PrewarmTicks : quota'[q] = 2 => Idle(q)'
  BY <1>0, <1>1, <1>2, <1>4 DEF PoolInv, PoolIsPlanned, Idle
<1>7. Committed' \subseteq Committed
  <2>1. Hands' \subseteq Hands
    BY <1>1, <1>3, <1>4 DEF Hands, Provisioning
  <2> QED BY <2>1 DEF Committed, Pool, PrewarmProvisions
<1>8. Planned' \subseteq Planned
  <2>1. \A q \in PrewarmTicks \ {p} : Owed(q)' = Owed(q)
    BY <1>1, <1>2, <1>4 DEF Owed, At
  <2>2. Owed(p)' = Owed(p)
    BY <1>0, <1>1, <1>2, <1>3 DEF Owed, At
  <2> QED BY <2>1, <2>2 DEF Planned
<1> QED BY <1>5, <1>6, <1>7, <1>8, PoolShrinks DEF PoolInv, PoolIsPlanned

\* A tick turns a planned provision into a row of the pool.
LEMMA PoolRowPreserves ==
  ASSUME Inv, PoolInv, NEW p \in PrewarmTicks, CreateRow(p)
  PROVE  PoolInv'
<1>0. /\ TypeOK /\ p \in Procs /\ quota[p] \in 0..2 /\ PrewarmTicks \subseteq Procs
      /\ task[p].pc = "create" /\ quota[p] # 2
  BY DEF Inv, TypeOK, Procs, CreateRow, At, PoolInv, PoolIsPlanned, Idle
<1>1. PICK l \in Labs, onNode \in BOOLEAN :
        /\ row' = [row EXCEPT ![l] =
             [NoRow EXCEPT !.status = "provisioning",
                           !.user = task[p].user,
                           !.isPrewarm = (task[p].user = NoUser),
                           !.refs.volumeName =
                               (task[p].user # NoUser /\ ~VmLab),
                           !.refs.nodeId = onNode]]
        /\ task' = [task EXCEPT ![p] =
             [@ EXCEPT !.lab = l,
                       !.pc = IF VmLab THEN "overlay" ELSE "provision"]]
  BY DEF CreateRow
<1>2. UNCHANGED <<quota, returned>>
  BY DEF CreateRow, loopVars
<1>3. /\ task'[p].pc \in Provisioning /\ task'[p].user = task[p].user
      /\ task'[p].lab = l
      /\ \A q \in Procs \ {p} : task'[q] = task[q]
  BY <1>0, <1>1 DEF TypeOK, Tasks, Provisioning
<1>4. PoolHands'
  BY <1>0, <1>3 DEF PoolInv, PoolHands
<1>5. \A q \in PrewarmTicks : quota'[q] = 2 => Idle(q)'
  BY <1>0, <1>2, <1>3 DEF PoolInv, PoolIsPlanned, Idle
<1>6. Committed' \subseteq Committed \cup {l}
  <2>1. Hands' \subseteq Hands \cup {l}
    BY <1>0, <1>3 DEF Hands
  <2>2. \A k \in Labs \ {l} : row'[k] = row[k]
    BY <1>0, <1>1 DEF TypeOK
  <2> QED BY <1>2, <2>1, <2>2 DEF Committed, Pool
<1> DEFINE s == <<p, quota[p] + 1>>
<1>7. s \in Planned
  BY <1>0 DEF Planned, Owed, At
<1>8. Planned' \subseteq Planned \ {s}
  <2>1. \A q \in PrewarmTicks \ {p} : Owed(q)' = Owed(q)
    BY <1>0, <1>2, <1>3 DEF Owed, At
  <2>2. Owed(p)' = quota[p]
    BY <1>0, <1>2, <1>3 DEF Owed, At, Provisioning
  <2>3. Owed(p) = quota[p] + 1
    BY <1>0 DEF Owed, At
  <2> SUFFICES ASSUME NEW q \in PrewarmTicks, NEW i \in 1..2, i <= Owed(q)'
               PROVE  i <= Owed(q) /\ <<q, i>> # s
    BY DEF Planned
  <2>4. CASE q = p
    BY <1>0, <2>2, <2>3, <2>4
  <2>5. CASE q # p
    BY <2>1, <2>5
  <2> QED BY <2>4, <2>5
<1> HIDE DEF s
<1>9. /\ IsFiniteSet(Committed) /\ IsFiniteSet(Planned)
      /\ Cardinality(PrewarmTicks) \in Nat
  BY PoolSets
<1>10. /\ IsFiniteSet(Committed') /\ Cardinality(Committed') \in Nat
       /\ Cardinality(Committed) \in Nat
       /\ Cardinality(Committed') <= Cardinality(Committed) + 1
  <2>1. /\ IsFiniteSet(Committed \cup {l})
        /\ Cardinality(Committed \cup {l}) <= Cardinality(Committed) + 1
        /\ Cardinality(Committed) \in Nat
    <3>1. Cardinality(Committed) \in Nat
      BY <1>9, FS_CardinalityType
    <3>2. /\ IsFiniteSet(Committed \cup {l})
          /\ Cardinality(Committed \cup {l}) \in
               {Cardinality(Committed), Cardinality(Committed) + 1}
      BY <1>9, FS_AddElement
    <3> QED BY <3>1, <3>2
  <2>2. /\ IsFiniteSet(Committed')
        /\ Cardinality(Committed') <= Cardinality(Committed \cup {l})
    BY <1>6, <2>1, FS_Subset
  <2>3. Cardinality(Committed') \in Nat /\ Cardinality(Committed \cup {l}) \in Nat
    BY <2>1, <2>2, FS_CardinalityType
  <2> QED BY <2>1, <2>2, <2>3
<1>11. /\ Cardinality(Planned') \in Nat /\ Cardinality(Planned) \in Nat
       /\ Cardinality(Planned') <= Cardinality(Planned) - 1
  <2>1. /\ IsFiniteSet(Planned \ {s})
        /\ Cardinality(Planned \ {s}) = Cardinality(Planned) - 1
    BY <1>7, <1>9, FS_RemoveElement
  <2>2. /\ IsFiniteSet(Planned')
        /\ Cardinality(Planned') <= Cardinality(Planned \ {s})
    BY <1>8, <2>1, FS_Subset
  <2>3. Cardinality(Planned') \in Nat /\ Cardinality(Planned) \in Nat
    BY <1>9, <2>2, FS_CardinalityType
  <2> QED BY <2>1, <2>2, <2>3
<1>12. Cardinality(Committed) + Cardinality(Planned)
         <= PoolTarget + 2 * (Cardinality(PrewarmTicks) - 1)
  BY DEF PoolInv, PoolIsPlanned
<1>13. Cardinality(Committed') + Cardinality(Planned')
         <= PoolTarget + 2 * (Cardinality(PrewarmTicks) - 1)
  BY <1>9, <1>10, <1>11, <1>12, LifecycleAssumption
<1> QED BY <1>4, <1>5, <1>13 DEF PoolInv, PoolIsPlanned

\* The labs other ticks have in hand, and the rows they still owe, are at most
\* two for each of them.
LEMMA OthersPlanTwo ==
  ASSUME TypeOK, PoolInv, ProvisionIsExclusive, NEW p \in PrewarmTicks,
         Idle(p), quota[p] = 0
  PROVE  Cardinality(Hands) + Cardinality(Planned)
           <= 2 * (Cardinality(PrewarmTicks) - 1)
<1> DEFINE Others == PrewarmTicks \ {p}
           Slots == {s \in Others \X (1..2) :
                       task[s[1]].pc \in Provisioning /\ s[2] = Owed(s[1]) + 1}
           Hand(l) == CHOOSE q \in PrewarmTicks :
                        task[q].pc \in Provisioning /\ task[q].lab = l
           Slot == [l \in Hands |-> <<Hand(l), Owed(Hand(l)) + 1>>]
<1>1. \A q \in PrewarmTicks : task[q].pc \in Provisioning =>
        q \in Others /\ Owed(q) = quota[q] /\ quota[q] \in 0..1
  BY DEF Idle, Owed, At, Provisioning, PoolInv, PoolIsPlanned, TypeOK
<1>2. \A l \in Hands : /\ Hand(l) \in PrewarmTicks
                       /\ task[Hand(l)].pc \in Provisioning /\ task[Hand(l)].lab = l
  BY DEF Hands
<1>3. Slot \in Injection(Hands, Slots)
  <2>1. \A l \in Hands : <<Hand(l), Owed(Hand(l)) + 1>> \in Slots
    <3> SUFFICES ASSUME NEW l \in Hands
                 PROVE  <<Hand(l), Owed(Hand(l)) + 1>> \in Slots
      OBVIOUS
    <3>1. Hand(l) \in Others /\ Owed(Hand(l)) + 1 \in 1..2 /\ task[Hand(l)].pc \in Provisioning
      BY <1>1, <1>2
    <3> HIDE DEF Hand
    <3> QED BY <3>1
  <2> HIDE DEF Slots, Hand
  <2>2. \A k, l \in Hands : Slot[k] = Slot[l] => k = l
    BY <1>2
  <2> QED BY <2>1, <2>2 DEF Injection, IsInjective
<1>4. Slots \cap Planned = {}
  <2> SUFFICES ASSUME NEW s \in Slots PROVE s \notin Planned
    OBVIOUS
  <2>1. s[1] \in PrewarmTicks /\ task[s[1]].pc \in Provisioning /\ s[2] = Owed(s[1]) + 1
    OBVIOUS
  <2>2. Owed(s[1]) \in Int
    BY <1>1, <2>1
  <2> HIDE DEF Slots
  <2> QED BY <2>1, <2>2 DEF Planned
<1>5. Planned \subseteq Others \X (1..2)
  <2>1. Owed(p) = 0
    BY DEF Owed, Idle, At
  <2> QED BY <2>1 DEF Planned
<1>6. Slots \subseteq Others \X (1..2)
  OBVIOUS
<1> HIDE DEF Slot, Slots
<1>7. /\ IsFiniteSet(Others) /\ Cardinality(PrewarmTicks) \in Nat
      /\ Cardinality(Others) = Cardinality(PrewarmTicks) - 1
  BY LifecycleAssumption, FS_RemoveElement, FS_CardinalityType
<1> HIDE DEF Others
<1>8. /\ IsFiniteSet(Others \X (1..2))
      /\ Cardinality(Others \X (1..2)) = 2 * (Cardinality(PrewarmTicks) - 1)
  <2>1. 1 \in Int /\ 2 \in Int
    OBVIOUS
  <2>i. IsFiniteSet(1..2) /\ Cardinality(1..2) = IF 1 > 2 THEN 0 ELSE 2 - 1 + 1
    BY ONLY <2>1, FS_Interval
  <2>2. IsFiniteSet(1..2) /\ Cardinality(1..2) = 2
    BY <2>i
  <2>3. /\ IsFiniteSet(Others \X (1..2))
        /\ Cardinality(Others \X (1..2)) = Cardinality(Others) * Cardinality(1..2)
    BY <1>7, <2>2, FS_Product
  <2> QED BY <1>7, <2>2, <2>3
<1>9. /\ IsFiniteSet(Slots) /\ IsFiniteSet(Planned)
      /\ IsFiniteSet(Slots \cup Planned)
      /\ Cardinality(Slots \cup Planned) <= Cardinality(Others \X (1..2))
  <2>1. Slots \cup Planned \in SUBSET (Others \X (1..2))
    BY <1>5, <1>6
  <2> QED BY <1>8, <2>1, <1>5, <1>6, FS_Subset
<1>10. Cardinality(Slots \cup Planned) = Cardinality(Slots) + Cardinality(Planned)
  <2>1. Cardinality(Slots \cup Planned)
          = Cardinality(Slots) + Cardinality(Planned) - Cardinality(Slots \cap Planned)
    BY <1>9, FS_Union
  <2>2. Cardinality(Slots \cap Planned) = 0
    BY <1>4, FS_EmptySet
  <2>3. Cardinality(Slots) \in Nat /\ Cardinality(Planned) \in Nat
    BY <1>9, FS_CardinalityType
  <2> QED BY <2>1, <2>2, <2>3
<1>11. Cardinality(Hands) <= Cardinality(Slots)
  BY <1>3, <1>9, FS_Injection
<1>12. /\ Cardinality(Hands) \in Nat /\ Cardinality(Slots) \in Nat
       /\ Cardinality(Planned) \in Nat
  BY <1>9, PoolSets, FS_CardinalityType
<1> QED BY <1>7, <1>8, <1>9, <1>10, <1>11, <1>12

\* A tick counts the pool and plans at most what is missing, and two.
LEMMA CountsPreserves ==
  ASSUME Inv, PoolInv, NEW p \in PrewarmTicks, PrewarmCounts(p)
  PROVE  PoolInv'
<1> DEFINE need == PoolTarget - Cardinality(Pool)
           new == {p} \X (1..Burst(need))
<1>0. /\ TypeOK /\ p \in Procs /\ Idle(p) /\ quota[p] = 0 /\ PrewarmTicks \subseteq Procs
      /\ UNCHANGED <<row, task, returned>>
  BY DEF Inv, Procs, PrewarmCounts
<1>1. Cardinality(Pool) \in Nat /\ need \in Int /\ need > 0
  BY PoolSets, FS_CardinalityType, LifecycleAssumption DEF PrewarmCounts
<1>2. Burst(need) \in 1..2 /\ Burst(need) <= need
  BY <1>1 DEF Burst
<1>3. /\ quota'[p] = Burst(need)
      /\ \A q \in PrewarmTicks \ {p} : quota'[q] = quota[q]
  BY <1>0 DEF TypeOK, PrewarmCounts
<1> HIDE DEF need
<1>4. PoolHands'
  BY <1>0 DEF PoolInv, PoolHands
<1>5. \A q \in PrewarmTicks : quota'[q] = 2 => Idle(q)'
  BY <1>0, <1>3 DEF PoolInv, PoolIsPlanned, Idle
<1>6. Committed' \subseteq Pool \cup Hands
  BY <1>0 DEF Committed, Pool, Hands
<1>7. Planned' \subseteq Planned \cup new
  <2>1. Owed(p)' = Burst(need)
    BY <1>0, <1>2, <1>3 DEF Owed, At, Idle
  <2>2. \A q \in PrewarmTicks \ {p} : Owed(q)' = Owed(q)
    BY <1>0, <1>3 DEF Owed, At
  <2> SUFFICES ASSUME NEW q \in PrewarmTicks, NEW i \in 1..2, i <= Owed(q)'
               PROVE  i <= Owed(q) \/ (q = p /\ i \in 1..Burst(need))
    BY DEF Planned
  <2> QED BY <1>2, <2>1, <2>2
<1>8. /\ IsFiniteSet(Committed')
      /\ Cardinality(Committed') \in Nat /\ Cardinality(Hands) \in Nat
      /\ Cardinality(Committed') <= Cardinality(Pool) + Cardinality(Hands)
  <2>1. /\ IsFiniteSet(Pool \cup Hands)
        /\ Cardinality(Pool \cup Hands)
             = Cardinality(Pool) + Cardinality(Hands) - Cardinality(Pool \cap Hands)
    BY PoolSets, FS_Union
  <2>2. /\ Cardinality(Pool \cap Hands) \in Nat /\ Cardinality(Hands) \in Nat
        /\ Cardinality(Pool \cup Hands) \in Nat
    BY <2>1, PoolSets, FS_Intersection, FS_CardinalityType
  <2>3. /\ IsFiniteSet(Committed')
        /\ Cardinality(Committed') <= Cardinality(Pool \cup Hands)
    BY <1>6, <2>1, FS_Subset
  <2>4. Cardinality(Committed') \in Nat
    BY <2>3, FS_CardinalityType
  <2> QED BY <1>1, <2>1, <2>2, <2>3, <2>4
<1>9. /\ Cardinality(Planned') \in Nat /\ Cardinality(Planned) \in Nat
      /\ Cardinality(Planned') <= Cardinality(Planned) + need
  <2>1. IsFiniteSet(new) /\ Cardinality(new) = Burst(need)
    <3>1. /\ IsFiniteSet(1..Burst(need)) /\ Cardinality(1..Burst(need)) = Burst(need)
      BY <1>2, FS_Interval
    <3>2. IsFiniteSet({p}) /\ Cardinality({p}) = 1
      BY FS_Singleton
    <3>3. /\ IsFiniteSet(new)
          /\ Cardinality(new) = Cardinality({p}) * Cardinality(1..Burst(need))
      BY <3>1, <3>2, FS_Product
    <3> QED BY <1>2, <3>1, <3>2, <3>3
  <2> HIDE DEF new
  <2>2. /\ IsFiniteSet(Planned \cup new)
        /\ Cardinality(Planned \cup new)
             = Cardinality(Planned) + Cardinality(new) - Cardinality(Planned \cap new)
    BY <2>1, PoolSets, FS_Union
  <2>3. /\ Cardinality(Planned \cap new) \in Nat /\ Cardinality(Planned) \in Nat
        /\ Cardinality(Planned \cup new) \in Nat
    BY <2>2, PoolSets, FS_Intersection, FS_CardinalityType
  <2>4. /\ IsFiniteSet(Planned')
        /\ Cardinality(Planned') <= Cardinality(Planned \cup new)
    BY <1>7, <2>2, FS_Subset
  <2>5. Cardinality(Planned') \in Nat
    BY <2>4, FS_CardinalityType
  <2> QED BY <1>1, <1>2, <2>1, <2>2, <2>3, <2>4, <2>5
<1>10. Cardinality(Hands) + Cardinality(Planned)
         <= 2 * (Cardinality(PrewarmTicks) - 1)
  BY <1>0, OthersPlanTwo DEF Inv
<1>11. Cardinality(PrewarmTicks) \in Nat /\ need = PoolTarget - Cardinality(Pool)
  BY PoolSets DEF need
<1>12. Cardinality(Committed') + Cardinality(Planned')
         <= PoolTarget + 2 * (Cardinality(PrewarmTicks) - 1)
  BY <1>1, <1>8, <1>9, <1>10, <1>11, LifecycleAssumption
<1> QED BY <1>4, <1>5, <1>12 DEF PoolInv, PoolIsPlanned

\* The pool's invariant holds of the empty pool.
LEMMA PoolInit == Init => PoolInv
<1> SUFFICES ASSUME Init PROVE PoolInv
  OBVIOUS
<1>1. PoolHands /\ \A p \in PrewarmTicks : quota[p] = 0 /\ Idle(p) /\ p \in Procs
  BY LifecycleAssumption DEF Init, PoolHands, NoTask, Procs, Provisioning, Idle
<1>2. Committed = {}
  BY <1>1 DEF Init, Committed, Pool, Hands, NoRow, NoTask, Provisioning, Procs
<1>3. Planned = {}
  <2>1. \A p \in PrewarmTicks : Owed(p) = 0
    BY <1>1 DEF Owed, At, Idle
  <2> QED BY <2>1 DEF Planned
<1>4. Cardinality(Committed) = 0 /\ Cardinality(Planned) = 0
  BY <1>2, <1>3, FS_EmptySet
<1>5. PrewarmTicks # {} => Cardinality(PrewarmTicks) \in Nat /\ Cardinality(PrewarmTicks) # 0
  BY LifecycleAssumption, FS_CardinalityType, FS_EmptySet
<1> QED BY <1>1, <1>4, <1>5, LifecycleAssumption DEF PoolInv, PoolIsPlanned

\* Every step keeps it.
LEMMA PoolNext == Inv /\ Inv' /\ PoolInv /\ [Next]_vars => PoolInv'
<1> SUFFICES ASSUME Inv, Inv', PoolInv, [Next]_vars PROVE PoolInv'
  OBVIOUS
<1>1. CASE UNCHANGED vars
  <2>1. PoolCalm
    BY <1>1, RowFrameDrains DEF vars, PoolCalm, OthersServe, TicksGoOn, TickGoesOn,
       PoolInv, PoolHands
  <2> QED BY <2>1, CalmPreserves
<1>2. CASE Next
  <2>1. CASE \E p \in PrewarmTicks :
               CreateRow(p) \/ PrewarmCounts(p) \/ PrewarmProvisions(p)
    BY <2>1, PoolRowPreserves, CountsPreserves, ProvisionsPreserves
  <2>2. CASE ~\E p \in PrewarmTicks :
                CreateRow(p) \/ PrewarmCounts(p) \/ PrewarmProvisions(p)
    BY <1>2, <2>2, CalmNext, CalmPreserves DEF PoolInv
  <2> QED BY <2>1, <2>2
<1> QED BY <1>1, <1>2

\* However many ticks overlap, the pool exceeds its target by no more than two
\* labs for each other tick, for any target, pool and number of ticks.
THEOREM PoolKeepsTarget == Spec => []PoolWithinTarget
<1>1. PoolInv => PoolWithinTarget
  <2> SUFFICES ASSUME PoolInv, PrewarmTicks # {}
               PROVE  Cardinality({l \in Labs \ returned :
                        /\ row[l].isPrewarm
                        /\ row[l].status \in {"provisioning", "ready"}})
                        <= PoolTarget + 2 * (Cardinality(PrewarmTicks) - 1)
    BY DEF PoolWithinTarget
  <2> DEFINE pool == {l \in Labs \ returned :
                        /\ row[l].isPrewarm
                        /\ row[l].status \in {"provisioning", "ready"}}
  <2>1. pool \in SUBSET Committed
    BY DEF Committed, Pool
  <2> HIDE DEF pool
  <2>2. IsFiniteSet(pool) /\ Cardinality(pool) <= Cardinality(Committed)
    BY <2>1, PoolSets, FS_Subset
  <2>3. /\ Cardinality(pool) \in Nat /\ Cardinality(Committed) \in Nat
        /\ Cardinality(Planned) \in Nat /\ Cardinality(PrewarmTicks) \in Nat
    BY <2>2, PoolSets, FS_CardinalityType
  <2>4. Cardinality(pool) <= PoolTarget + 2 * (Cardinality(PrewarmTicks) - 1)
    BY <2>2, <2>3, LifecycleAssumption DEF PoolInv, PoolIsPlanned
  <2> QED BY <2>4 DEF pool
<1> QED BY <1>1, PoolInit, PoolNext, Invariance, PTL DEF Spec

-----------------------------------------------------------------------------
(* Tidy rows tell the truth *)

\* The gateway's file stays as it is or is rendered from the table as it is now.
MappingFollows == mapping' = mapping \/ mapping' = Rendered(row)'

\* Nothing happens to lab l but that its container may exit, an operation may
\* leave it, and the gateway's file may be rendered.
LabUntouched(l) ==
  /\ row'[l].status = row[l].status
  /\ row'[l].refs = row[l].refs
  /\ \/ container'[l] = container[l]
     \/ container[l] = "running" /\ container'[l] = "stopped"
  /\ l \in overlay' <=> l \in overlay
  /\ MappingFollows
  /\ \A q \in Procs :
       /\ task'[q].lab = l => task'[q] = task[q]
       /\ task[q].lab = l /\ task[q].pc = "resumed" => task'[q] = task[q]

\* What is untouched stays true.
LEMMA UntouchedStaysTrue ==
  ASSUME NEW l \in Labs, TidyLab(l), LabUntouched(l)
  PROVE  TidyLab(l)'
<1>1. Alone(l)'
  BY DEF TidyLab, Alone, LabUntouched
<1>2. RowIsTrue(l)'
  BY DEF TidyLab, RowIsTrue, LabUntouched, MappingFollows, Rendered
<1>3. ASSUME NEW p \in Procs, task'[p].lab = l PROVE HandIsSafe(task[p])'
  <2>1. task'[p] = task[p] /\ task[p].lab = l
    BY <1>3 DEF LabUntouched
  <2>2. HandIsSafe(task[p])
    BY <2>1 DEF TidyLab
  <2> QED BY <2>1, <2>2 DEF HandIsSafe, LabUntouched
<1> QED BY <1>1, <1>2, <1>3 DEF TidyLab

\* The lab L that p alone works on: its row is true after the step if what
\* follows holds of it.
OwnRowIsTrue(p, l) ==
  LET r == row'[l] IN
  /\ r.status # "none"
  /\ r.status = "paused" =>
       \/ container'[l] # "running"
       \/ task'[p].lab = l /\ task'[p].pc = "resumed"
  /\ r.status = "terminated" /\ r.refs.runtimeId =>
       /\ container'[l] = "none" /\ l \notin mapping'
       /\ r.refs.nodeId => l \notin overlay'
  /\ r.refs.runtimeId /\ l \in overlay' => r.refs.vmOverlayPath
  /\ l \in mapping' => r.refs.guacamoleUser

LEMMA OwnLabStaysTrue ==
  ASSUME NEW p \in Procs, NEW l \in Labs,
         \A q \in Procs \ {p} : task'[q] = task[q] /\ task[q].lab # l,
         OwnRowIsTrue(p, l),
         task'[p].lab = l => HandIsSafe(task[p])'
  PROVE  TidyLab(l)'
<1>1. Alone(l)'
  BY DEF Alone
<1>2. RowIsTrue(l)'
  BY DEF RowIsTrue, OwnRowIsTrue
<1>3. ASSUME NEW q \in Procs, task'[q].lab = l PROVE HandIsSafe(task[q])'
  BY <1>3
<1> QED BY <1>1, <1>2, <1>3 DEF TidyLab

\* Going on, and being done, moves p alone.
LEMMA MoveFields ==
  ASSUME TypeOK, NEW p \in Procs
  PROVE  /\ \A pc : Goto(p, pc) => /\ task'[p].pc = pc
                                   /\ task'[p].lab = task[p].lab
                                   /\ task'[p].refs = task[p].refs
                                   /\ \A q \in Procs \ {p} : task'[q] = task[q]
         /\ Finish(p) => /\ task'[p].pc = "idle" /\ task'[p].lab = NoLab
                         /\ \A q \in Procs \ {p} : task'[q] = task[q]
<1>1. ASSUME NEW pc, Goto(p, pc)
      PROVE  /\ task'[p].pc = pc
             /\ task'[p].lab = task[p].lab
             /\ task'[p].refs = task[p].refs
             /\ \A q \in Procs \ {p} : task'[q] = task[q]
  BY <1>1 DEF Goto, TypeOK, Tasks
<1>2. Finish(p) => /\ task'[p].pc = "idle" /\ task'[p].lab = NoLab
                   /\ \A q \in Procs \ {p} : task'[q] = task[q]
  BY DEF Finish, TypeOK, NoTask
<1> QED BY <1>1, <1>2

\* The places at which an operation relies on nothing about Docker.
Carefree(pc) ==
  pc \notin {"pause", "provision", "rdp", "ready", "remove", "volume",
             "overlayRm", "unmap", "terminate"}

LEMMA CarefreeIsSafe ==
  ASSUME NEW p \in Procs, Carefree(task'[p].pc)
  PROVE  HandIsSafe(task[p])'
BY DEF Carefree, HandIsSafe

\* What a step of an operation on own does to the truth of rows: other labs are
\* untouched, and its own row stays true while it is tidy.
OperationTidy(own) ==
  \A l \in Labs : \/ l # own /\ LabUntouched(l)
                  \/ l = own /\ (tidy'[l] /\ TidyLab(l) => TidyLab(l)')

\* A step on p's lab touches no other.
LEMMA Elsewhere ==
  ASSUME TypeOK, NEW p \in Procs, (\E pc : Goto(p, pc)) \/ Finish(p),
         MappingFollows, NEW l \in Labs, l # task[p].lab,
         row'[l] = row[l], container'[l] = container[l],
         l \in overlay' <=> l \in overlay
  PROVE  LabUntouched(l)
<1>0. NoLab \notin Labs
  BY Fields
<1>1. /\ \A q \in Procs \ {p} : task'[q] = task[q]
      /\ task'[p].lab \in {task[p].lab, NoLab}
  BY MoveFields
<1>2. \A q \in Procs : /\ task'[q].lab = l => task'[q] = task[q]
                       /\ task[q].lab = l /\ task[q].pc = "resumed"
                            => task'[q] = task[q]
  BY <1>0, <1>1
<1> QED BY <1>2 DEF LabUntouched

\* What an operation may rely on about its lab while the lab is tidy.
LEMMA OwnContext ==
  ASSUME Inv, NEW p \in Procs, NEW l \in Labs, l = task[p].lab, TidyLab(l)
  PROVE  /\ \A q \in Procs \ {p} : task[q].lab # l
         /\ row[l].status # "none"
         /\ HandIsSafe(task[p])
         /\ row[l].status = "paused" =>
              container[l] # "running" \/ task[p].pc = "resumed"
         /\ row[l].status = "terminated" /\ row[l].refs.runtimeId =>
              /\ container[l] = "none" /\ l \notin mapping
              /\ row[l].refs.nodeId => l \notin overlay
         /\ row[l].refs.runtimeId /\ l \in overlay => row[l].refs.vmOverlayPath
         /\ l \in mapping => row[l].refs.guacamoleUser
         /\ task[p].pc \in Provisioning =>
              ~row[l].refs.runtimeId /\ row[l].status # "paused"
<1>1. \A q \in Procs \ {p} : task[q].lab # l
  BY DEF TidyLab, Alone
<1>2. row[l].status # "none" /\ HandIsSafe(task[p])
  BY Fields DEF Inv, LabsInHandExist, TidyLab
<1>3. task[p].pc \in Provisioning =>
        ~row[l].refs.runtimeId /\ row[l].status # "paused"
  BY DEF Inv, ProvisionIsExclusive, RuntimeIdIsKnown
<1> QED BY <1>1, <1>2, <1>3 DEF TidyLab, RowIsTrue

\* p's own row stays true when its status, its references, its container, its
\* overlay and the gateway's file do, and its next place is safe.
LEMMA OwnFrame ==
  ASSUME Inv, NEW p \in Procs, NEW l \in Labs, l = task[p].lab, TidyLab(l),
         task[p].pc # "resumed",
         (\E pc : Goto(p, pc)) \/ Finish(p),
         row'[l].status = row[l].status, row'[l].refs = row[l].refs,
         UNCHANGED <<container, overlay>>, MappingFollows,
         task'[p].lab = l => HandIsSafe(task[p])'
  PROVE  TidyLab(l)'
<1>1. OwnRowIsTrue(p, l)
  <2>1. /\ l \in mapping' => row[l].refs.guacamoleUser
        /\ row[l].status = "terminated" /\ row[l].refs.runtimeId => l \notin mapping'
    BY OwnContext DEF MappingFollows, Rendered
  <2> QED BY <2>1, OwnContext DEF OwnRowIsTrue
<1>2. \A q \in Procs \ {p} : task'[q] = task[q] /\ task[q].lab # l
  BY OwnContext, MoveFields DEF Inv
<1> QED BY <1>1, <1>2, OwnLabStaysTrue

\* provisionNew leaves no untruth: until its row is ready nobody else has it.
LEMMA ProvisionTidy ==
  ASSUME Inv, NEW p \in Procs, Provision(p), ~CreateRow(p)
  PROVE  OperationTidy(task[p].lab)
<1>0. TypeOK /\ NoLab \notin Labs /\ task[p].lab \in Labs \cup {NoLab}
  BY Fields DEF Inv
<1>1. (\E pc : Goto(p, pc)) \/ Finish(p)
  BY DEF Provision, CreateThrows, CreateOverlay, RecordOverlay, StartContainer,
     StartContainerFails, WaitForRdp, MarkReady, CleanUp, MarkFailed
<1>2. UNCHANGED mapping
  BY DEF Provision, CreateThrows, CreateOverlay, RecordOverlay, StartContainer,
     StartContainerFails, WaitForRdp, MarkReady, CleanUp, MarkFailed, hostVars
<1>3. ASSUME NEW l \in Labs, l # task[p].lab PROVE LabUntouched(l)
  <2>1. row'[l] = row[l]
    BY <1>0, <1>3 DEF Provision, CreateThrows, CreateOverlay, RecordOverlay,
       StartContainer, StartContainerFails, WaitForRdp, MarkReady, CleanUp,
       MarkFailed, TypeOK
  <2>2. container'[l] = container[l]
    BY <1>0, <1>3 DEF Provision, CreateThrows, CreateOverlay, RecordOverlay,
       StartContainer, StartContainerFails, WaitForRdp, MarkReady, CleanUp,
       MarkFailed, TypeOK, hostVars
  <2>3. l \in overlay' <=> l \in overlay
    BY <1>3 DEF Provision, CreateThrows, CreateOverlay, RecordOverlay,
       StartContainer, StartContainerFails, WaitForRdp, MarkReady, CleanUp,
       MarkFailed, hostVars
  <2> QED BY <1>0, <1>1, <1>2, <1>3, <2>1, <2>2, <2>3, Elsewhere DEF MappingFollows
<1>4. ASSUME NEW l \in Labs, l = task[p].lab, tidy'[l], TidyLab(l)
      PROVE  TidyLab(l)'
  <2>0. /\ \A q \in Procs \ {p} : task'[q] = task[q] /\ task[q].lab # l
        /\ row[l].status # "none" /\ HandIsSafe(task[p])
        /\ row[l].status = "paused" =>
             container[l] # "running" \/ task[p].pc = "resumed"
        /\ row[l].status = "terminated" /\ row[l].refs.runtimeId =>
             /\ container[l] = "none" /\ l \notin mapping
             /\ row[l].refs.nodeId => l \notin overlay
        /\ row[l].refs.runtimeId /\ l \in overlay => row[l].refs.vmOverlayPath
        /\ l \in mapping => row[l].refs.guacamoleUser
        /\ task[p].pc \in Provisioning =>
             ~row[l].refs.runtimeId /\ row[l].status # "paused"
    BY <1>0, <1>1, <1>4, OwnContext, MoveFields
  <2>1. CASE CreateThrows(p)
    <3>1. task'[p].lab # l
      BY <1>0, <2>1, MoveFields DEF CreateThrows
    <3>2. task[p].pc # "resumed" /\ UNCHANGED <<row, container, overlay>>
      BY <2>1 DEF CreateThrows, At, hostVars
    <3> QED BY <1>1, <1>2, <1>4, <3>1, <3>2, OwnFrame DEF MappingFollows
  <2>2. CASE CreateOverlay(p)
    <3>1. Carefree(task'[p].pc)
      BY <1>0, <2>2, MoveFields DEF CreateOverlay, Carefree
    <3>2. task[p].pc \in Provisioning /\ task[p].pc # "resumed"
          /\ UNCHANGED <<row, container>>
      BY <2>2 DEF CreateOverlay, At, Provisioning
    <3>3. OwnRowIsTrue(p, l)
      BY <1>2, <2>0, <3>2 DEF OwnRowIsTrue
    <3> QED BY <2>0, <3>1, <3>3, CarefreeIsSafe, OwnLabStaysTrue
  <2>3. CASE RecordOverlay(p)
    <3>1. task'[p].pc = "provision" /\ task'[p].lab = l
      BY <1>0, <1>4, <2>3, MoveFields DEF RecordOverlay
    <3>2. /\ task[p].pc \in Provisioning /\ task[p].pc # "resumed"
          /\ UNCHANGED <<container, overlay, mapping>>
          /\ row' = [row EXCEPT ![l].refs.vmOverlayPath = TRUE]
      BY <1>4, <2>3 DEF RecordOverlay, At, Provisioning, hostVars
    <3>3. /\ row'[l].status = row[l].status
          /\ row'[l].refs = [row[l].refs EXCEPT !.vmOverlayPath = TRUE]
      BY <1>0, <3>2 DEF TypeOK, Rows
    <3>4. /\ row'[l].refs.vmOverlayPath
          /\ row'[l].refs.runtimeId = row[l].refs.runtimeId
          /\ row'[l].refs.guacamoleUser = row[l].refs.guacamoleUser
      BY <1>0, <3>3, Fields DEF Refs
    <3>5. OwnRowIsTrue(p, l)
      BY <2>0, <3>2, <3>3, <3>4 DEF OwnRowIsTrue
    <3>6. HandIsSafe(task[p])'
      BY <3>1, <3>4 DEF HandIsSafe
    <3> QED BY <2>0, <3>5, <3>6, OwnLabStaysTrue
  <2>4. CASE StartContainer(p) \/ StartContainerFails(p)
    <3>1. task'[p].pc \in {"rdp", "ready", "cleanup"} /\ task'[p].lab = l
      BY <1>0, <1>4, <2>4, MoveFields DEF StartContainer, StartContainerFails
    <3>2. task[p].pc = "provision" /\ UNCHANGED <<row, overlay, mapping>>
      BY <2>4 DEF StartContainer, StartContainerFails, At
    <3>3. OwnRowIsTrue(p, l)
      BY <2>0, <3>2 DEF OwnRowIsTrue, Provisioning
    <3>4. HandIsSafe(task[p])'
      BY <1>4, <2>0, <3>1, <3>2 DEF HandIsSafe
    <3> QED BY <2>0, <3>3, <3>4, OwnLabStaysTrue
  <2>5. CASE WaitForRdp(p)
    <3>1. task'[p].pc \in {"ready", "cleanup"} /\ task'[p].lab = l
      BY <1>0, <1>4, <2>5, MoveFields DEF WaitForRdp
    <3>2. task[p].pc = "rdp" /\ UNCHANGED <<row, container, overlay, mapping>>
      BY <2>5 DEF WaitForRdp, At, hostVars
    <3>3. OwnRowIsTrue(p, l)
      BY <2>0, <3>2 DEF OwnRowIsTrue, Provisioning
    <3>4. HandIsSafe(task[p])'
      BY <1>4, <2>0, <3>1, <3>2 DEF HandIsSafe
    <3> QED BY <2>0, <3>3, <3>4, OwnLabStaysTrue
  <2>6. CASE MarkReady(p)
    <3>1. Carefree(task'[p].pc)
      BY <1>0, <2>6, MoveFields, AfterAcquireType DEF MarkReady, Carefree
    <3>2. /\ task[p].pc = "ready" /\ UNCHANGED <<container, overlay, mapping>>
          /\ row' = [row EXCEPT ![l] =
               [@ EXCEPT !.status = "ready", !.refs.runtimeId = TRUE,
                         !.inactive = FALSE]]
      BY <1>4, <2>6 DEF MarkReady, At, hostVars
    <3>3. /\ row'[l].status = "ready"
          /\ row'[l].refs = [row[l].refs EXCEPT !.runtimeId = TRUE]
      BY <1>0, <3>2 DEF TypeOK, Rows
    <3>4. /\ row'[l].refs.vmOverlayPath = row[l].refs.vmOverlayPath
          /\ row'[l].refs.guacamoleUser = row[l].refs.guacamoleUser
      BY <1>0, <3>3, Fields DEF Refs
    <3>5. l \in overlay => row[l].refs.vmOverlayPath
      BY <1>4, <2>0, <3>2 DEF HandIsSafe
    <3>6. OwnRowIsTrue(p, l)
      BY <2>0, <3>2, <3>3, <3>4, <3>5 DEF OwnRowIsTrue
    <3> QED BY <2>0, <3>1, <3>6, CarefreeIsSafe, OwnLabStaysTrue
  <2>7. CASE CleanUp(p)
    <3>1. Carefree(task'[p].pc)
      BY <1>0, <2>7, MoveFields DEF CleanUp, Carefree
    <3>2. task[p].pc = "cleanup" /\ UNCHANGED <<row, mapping>>
      BY <2>7 DEF CleanUp, At
    <3>3. OwnRowIsTrue(p, l)
      BY <2>0, <3>2 DEF OwnRowIsTrue, Provisioning
    <3> QED BY <2>0, <3>1, <3>3, CarefreeIsSafe, OwnLabStaysTrue
  <2>8. CASE MarkFailed(p)
    <3>1. Carefree(task'[p].pc)
      BY <1>0, <2>8, MoveFields DEF MarkFailed, Carefree
    <3>2. /\ task[p].pc = "fail" /\ UNCHANGED <<container, overlay, mapping>>
          /\ row' = [row EXCEPT ![l].status = "failed"]
      BY <1>4, <2>8 DEF MarkFailed, At, hostVars
    <3>3. row'[l].status = "failed" /\ row'[l].refs = row[l].refs
      BY <1>0, <3>2 DEF TypeOK, Rows
    <3>4. OwnRowIsTrue(p, l)
      BY <2>0, <3>2, <3>3 DEF OwnRowIsTrue, Provisioning
    <3> QED BY <2>0, <3>1, <3>4, CarefreeIsSafe, OwnLabStaysTrue
  <2> QED BY <2>1, <2>2, <2>3, <2>4, <2>5, <2>6, <2>7, <2>8 DEF Provision
<1> QED BY <1>3, <1>4 DEF OperationTidy

\* A redeem's end mints credentials and renders the gateway's file.
LEMMA GuacamoleTidy ==
  ASSUME Inv, NEW p \in Procs, Guacamole(p)
  PROVE  OperationTidy(task[p].lab)
<1>0. TypeOK /\ NoLab \notin Labs
  BY Fields DEF Inv
<1>1. /\ (\E pc : Goto(p, pc)) \/ Finish(p)
      /\ UNCHANGED <<container, overlay>>
      /\ task[p].pc # "resumed"
  BY DEF Guacamole, MintCredentials, PublishMapping, HandOff, At, hostVars
<1>2. MappingFollows
  BY DEF Guacamole, MintCredentials, PublishMapping, HandOff, MappingFollows,
         Rendered, hostVars
<1>3. Carefree(task'[p].pc)
  BY <1>0, MoveFields DEF Guacamole, MintCredentials, PublishMapping, HandOff,
                          Carefree
<1>4. ASSUME NEW l \in Labs, l # task[p].lab PROVE LabUntouched(l)
  <2>1. row'[l] = row[l]
    BY <1>0, <1>4 DEF Guacamole, MintCredentials, PublishMapping, HandOff, TypeOK
  <2> QED BY <1>0, <1>1, <1>2, <1>4, <2>1, Elsewhere
<1>5. ASSUME NEW l \in Labs, l = task[p].lab, tidy'[l], TidyLab(l)
      PROVE  TidyLab(l)'
  <2>1. CASE UNCHANGED row
    BY <1>1, <1>2, <1>3, <1>5, <2>1, OwnFrame, CarefreeIsSafe
  <2>2. CASE /\ row' = [row EXCEPT ![l].refs.guacamoleUser = TRUE]
             /\ UNCHANGED mapping
    <3>1. /\ row'[l].status = row[l].status
          /\ row'[l].refs = [row[l].refs EXCEPT !.guacamoleUser = TRUE]
      BY <1>0, <2>2 DEF TypeOK, Rows
    <3>2. /\ row'[l].refs.guacamoleUser
          /\ row'[l].refs.runtimeId = row[l].refs.runtimeId
          /\ row'[l].refs.vmOverlayPath = row[l].refs.vmOverlayPath
      <4> DEFINE x == row[l].refs
                 y == row'[l].refs
      <4>1. x \in Refs /\ y = [x EXCEPT !.guacamoleUser = TRUE]
        BY <1>0, <3>1, Fields
      <4> HIDE DEF x, y
      <4>2. y.guacamoleUser /\ y.runtimeId = x.runtimeId /\ y.vmOverlayPath = x.vmOverlayPath
        BY <4>1 DEF Refs
      <4> QED BY <4>2 DEF x, y
    <3>3. OwnRowIsTrue(p, l)
      <4>1. /\ row[l].status # "none"
            /\ row[l].status = "paused" => container[l] # "running"
            /\ row[l].status = "terminated" /\ row[l].refs.runtimeId =>
                 /\ container[l] = "none" /\ l \notin mapping
                 /\ row[l].refs.nodeId => l \notin overlay
            /\ row[l].refs.runtimeId /\ l \in overlay => row[l].refs.vmOverlayPath
        BY <1>1, <1>5, OwnContext
      <4>2. UNCHANGED <<container, overlay, mapping>>
        BY <1>1, <2>2
      <4> QED BY <3>1, <3>2, <4>1, <4>2 DEF OwnRowIsTrue
    <3>4. \A q \in Procs \ {p} : task'[q] = task[q] /\ task[q].lab # l
      BY <1>0, <1>1, <1>5, OwnContext, MoveFields
    <3> QED BY <1>3, <3>3, <3>4, CarefreeIsSafe, OwnLabStaysTrue
  <2>3. \/ UNCHANGED row
        \/ /\ row' = [row EXCEPT ![l].refs.guacamoleUser = TRUE]
           /\ UNCHANGED mapping
    BY <1>5 DEF Guacamole, MintCredentials, PublishMapping, HandOff, hostVars
  <2> QED BY <2>1, <2>2, <2>3
<1> QED BY <1>4, <1>5 DEF OperationTidy

\* A destroy works from a snapshot of the references: as long as the lab is in
\* no other hand they are the row's own, and every step that is not needed, done
\* or spoilt leaves the lab as 'terminated' will describe it.
LEMMA DestroyTidy ==
  ASSUME Inv, NEW p \in Procs, Destroy(p)
  PROVE  OperationTidy(task[p].lab)
<1>0. TypeOK /\ NoLab \notin Labs
  BY Fields DEF Inv
<1>1. /\ (\E pc : Goto(p, pc)) \/ Finish(p)
      /\ task[p].pc \in {"remove", "volume", "overlayRm", "unmap", "terminate"}
  BY DEF Destroy, RemoveContainer, RemoveVolume, RemoveOverlay, Unmap,
         MarkTerminated, At
<1>2. MappingFollows
  <2>1. CASE Unmap(p)
    BY <2>1 DEF Unmap, MappingFollows, Rendered
  <2> QED BY <2>1 DEF Destroy, RemoveContainer, RemoveVolume, RemoveOverlay,
                      MarkTerminated, MappingFollows, hostVars
<1>3. ASSUME NEW l \in Labs, l # task[p].lab PROVE LabUntouched(l)
  <2>1. row'[l] = row[l]
    BY <1>0, <1>3 DEF Destroy, RemoveContainer, RemoveVolume, RemoveOverlay, Unmap,
       MarkTerminated, TypeOK
  <2>2. container'[l] = container[l]
    BY <1>0, <1>3 DEF Destroy, RemoveContainer, RemoveVolume, RemoveOverlay, Unmap,
       MarkTerminated, TypeOK, hostVars
  <2>3. l \in overlay' <=> l \in overlay
    BY <1>3 DEF Destroy, RemoveContainer, RemoveVolume, RemoveOverlay, Unmap,
       MarkTerminated, hostVars
  <2> QED BY <1>0, <1>1, <1>2, <1>3, <2>1, <2>2, <2>3, Elsewhere
<1>4. ASSUME NEW l \in Labs, l = task[p].lab, tidy'[l], TidyLab(l)
      PROVE  TidyLab(l)'
  <2>0. /\ \A q \in Procs \ {p} : task'[q] = task[q] /\ task[q].lab # l
        /\ row[l].status # "none" /\ HandIsSafe(task[p])
        /\ row[l].status = "paused" => container[l] # "running"
        /\ row[l].status = "terminated" /\ row[l].refs.runtimeId =>
             /\ container[l] = "none" /\ l \notin mapping
             /\ row[l].refs.nodeId => l \notin overlay
        /\ row[l].refs.runtimeId /\ l \in overlay => row[l].refs.vmOverlayPath
        /\ l \in mapping => row[l].refs.guacamoleUser
    BY <1>0, <1>1, <1>4, OwnContext, MoveFields
  <2>t. task[p].refs \in Refs /\ task[p].wipe \in BOOLEAN
    BY <1>0, Fields
  <2>1. CASE RemoveContainer(p)
    <3>1. /\ task'[p].pc = FromVolume(task[p].refs, task[p].wipe)
          /\ task'[p].lab = l /\ task'[p].refs = task[p].refs
      BY <1>0, <1>4, <2>1, MoveFields DEF RemoveContainer
    <3>2. /\ task[p].refs = row[l].refs
          /\ UNCHANGED <<row, overlay, mapping>>
          /\ container'[l] = "none"
      BY <1>0, <1>4, <2>0, <2>1
         DEF RemoveContainer, At, HandIsSafe, Spoil, TypeOK
    <3>3. OwnRowIsTrue(p, l)
      BY <2>0, <3>2 DEF OwnRowIsTrue
    <3>4. /\ task'[p].pc \in {"volume", "overlayRm", "unmap", "terminate"}
          /\ task'[p].pc \in {"unmap", "terminate"} =>
               ~row[l].refs.vmOverlayPath \/ ~row[l].refs.nodeId
          /\ task'[p].pc = "terminate" => ~row[l].refs.guacamoleUser
      BY <3>1, <3>2, <2>t DEF FromVolume, FromOverlay, FromUnmap
    <3>5. HandIsSafe(task[p])'
      BY <2>0, <3>1, <3>2, <3>4 DEF HandIsSafe
    <3> QED BY <2>0, <3>3, <3>5, OwnLabStaysTrue
  <2>2. CASE RemoveVolume(p)
    <3>1. /\ task'[p].pc = FromOverlay(task[p].refs)
          /\ task'[p].lab = l /\ task'[p].refs = task[p].refs
      BY <1>0, <1>4, <2>2, MoveFields DEF RemoveVolume
    <3>2. /\ task[p].refs = row[l].refs
          /\ row[l].refs.runtimeId => container[l] = "none"
          /\ UNCHANGED <<row, container, overlay, mapping>>
      BY <1>4, <2>0, <2>2 DEF RemoveVolume, At, HandIsSafe
    <3>3. OwnRowIsTrue(p, l)
      BY <2>0, <3>2 DEF OwnRowIsTrue
    <3>4. /\ task'[p].pc \in {"overlayRm", "unmap", "terminate"}
          /\ task'[p].pc \in {"unmap", "terminate"} =>
               ~row[l].refs.vmOverlayPath \/ ~row[l].refs.nodeId
          /\ task'[p].pc = "terminate" => ~row[l].refs.guacamoleUser
      BY <3>1, <3>2, <2>t DEF FromOverlay, FromUnmap
    <3>5. HandIsSafe(task[p])'
      BY <2>0, <3>1, <3>2, <3>4 DEF HandIsSafe
    <3> QED BY <2>0, <3>3, <3>5, OwnLabStaysTrue
  <2>3. CASE RemoveOverlay(p)
    <3>1. /\ task'[p].pc = FromUnmap(task[p].refs)
          /\ task'[p].lab = l /\ task'[p].refs = task[p].refs
      BY <1>0, <1>4, <2>3, MoveFields DEF RemoveOverlay
    <3>2. /\ task[p].refs = row[l].refs
          /\ row[l].refs.runtimeId => container[l] = "none"
          /\ UNCHANGED <<row, container, mapping>>
          /\ l \notin overlay'
      BY <1>0, <1>4, <2>0, <2>3 DEF RemoveOverlay, At, HandIsSafe, Spoil, TypeOK
    <3>3. OwnRowIsTrue(p, l)
      BY <2>0, <3>2 DEF OwnRowIsTrue
    <3>4. /\ task'[p].pc \in {"unmap", "terminate"}
          /\ task'[p].pc = "terminate" => ~row[l].refs.guacamoleUser
      BY <3>1, <3>2, <2>t DEF FromUnmap
    <3>5. HandIsSafe(task[p])'
      BY <2>0, <3>1, <3>2, <3>4 DEF HandIsSafe
    <3> QED BY <2>0, <3>3, <3>5, OwnLabStaysTrue
  <2>4. CASE Unmap(p)
    <3>1. task'[p].pc = "terminate" /\ task'[p].lab = l
      BY <1>0, <1>4, <2>4, MoveFields DEF Unmap
    <3>2. /\ row[l].refs.runtimeId =>
               container[l] = "none" /\ (row[l].refs.nodeId => l \notin overlay)
          /\ UNCHANGED <<container, overlay>>
          /\ row' = [row EXCEPT ![l].refs.guacamoleUser = FALSE]
          /\ mapping' = Rendered(row)'
      BY <1>0, <1>4, <2>0, <2>4 DEF Unmap, At, HandIsSafe, Spoil, TypeOK, Rendered
    <3>3. /\ row'[l].status = row[l].status
          /\ row'[l].refs = [row[l].refs EXCEPT !.guacamoleUser = FALSE]
      BY <1>0, <3>2 DEF TypeOK, Rows
    <3>4. /\ ~row'[l].refs.guacamoleUser
          /\ row'[l].refs.runtimeId = row[l].refs.runtimeId
          /\ row'[l].refs.vmOverlayPath = row[l].refs.vmOverlayPath
          /\ row'[l].refs.nodeId = row[l].refs.nodeId
      BY <1>0, <3>3, Fields DEF Refs
    <3>5. l \notin mapping'
      BY <3>2, <3>4 DEF Rendered
    <3>6. OwnRowIsTrue(p, l)
      BY <2>0, <3>2, <3>3, <3>4, <3>5 DEF OwnRowIsTrue
    <3>7. HandIsSafe(task[p])'
      BY <3>1, <3>2, <3>4 DEF HandIsSafe
    <3> QED BY <2>0, <3>6, <3>7, OwnLabStaysTrue
  <2>5. CASE MarkTerminated(p)
    <3>1. Carefree(task'[p].pc)
      BY <1>0, <2>5, MoveFields DEF MarkTerminated, Carefree
    <3>2. /\ row[l].refs.runtimeId =>
               container[l] = "none" /\ (row[l].refs.nodeId => l \notin overlay)
          /\ l \notin mapping
          /\ UNCHANGED <<container, overlay, mapping>>
          /\ row' = [row EXCEPT ![l].status = "terminated"]
      BY <1>4, <2>0, <2>5 DEF MarkTerminated, At, HandIsSafe, hostVars
    <3>3. row'[l].status = "terminated" /\ row'[l].refs = row[l].refs
      BY <1>0, <3>2 DEF TypeOK, Rows
    <3>4. OwnRowIsTrue(p, l)
      BY <2>0, <3>2, <3>3 DEF OwnRowIsTrue
    <3> QED BY <2>0, <3>1, <3>4, CarefreeIsSafe, OwnLabStaysTrue
  <2> QED BY <2>1, <2>2, <2>3, <2>4, <2>5 DEF Destroy
<1> QED BY <1>3, <1>4 DEF OperationTidy

\* A suspended lab is paused after its container stopped, and ready again once
\* the container that a resume or restart started is entered in the row.
LEMMA PowerTidy ==
  ASSUME Inv, NEW p \in Procs, Power(p)
  PROVE  OperationTidy(task[p].lab)
<1>0. TypeOK /\ NoLab \notin Labs
  BY Fields DEF Inv
<1>1. /\ (\E pc : Goto(p, pc)) \/ Finish(p)
      /\ UNCHANGED <<overlay, mapping>>
  BY DEF Power, StopContainer, MarkPaused, ResumeContainer, RestartContainer,
         MarkResumed, hostVars
<1>2. ASSUME NEW l \in Labs, l # task[p].lab PROVE LabUntouched(l)
  <2>1. row'[l] = row[l]
    BY <1>0, <1>2 DEF Power, StopContainer, MarkPaused, ResumeContainer,
       RestartContainer, MarkResumed, TypeOK
  <2>2. container'[l] = container[l]
    BY <1>0, <1>2 DEF Power, StopContainer, MarkPaused, ResumeContainer,
       RestartContainer, MarkResumed, TypeOK, hostVars
  <2> QED BY <1>0, <1>1, <1>2, <2>1, <2>2, Elsewhere DEF MappingFollows
<1>3. ASSUME NEW l \in Labs, l = task[p].lab, tidy'[l], TidyLab(l)
      PROVE  TidyLab(l)'
  <2>0. /\ \A q \in Procs \ {p} : task'[q] = task[q] /\ task[q].lab # l
        /\ row[l].status # "none" /\ HandIsSafe(task[p])
        /\ row[l].status = "paused" =>
             container[l] # "running" \/ task[p].pc = "resumed"
        /\ row[l].status = "terminated" /\ row[l].refs.runtimeId =>
             /\ container[l] = "none" /\ l \notin mapping
             /\ row[l].refs.nodeId => l \notin overlay
        /\ row[l].refs.runtimeId /\ l \in overlay => row[l].refs.vmOverlayPath
        /\ l \in mapping => row[l].refs.guacamoleUser
    BY <1>0, <1>1, <1>3, OwnContext, MoveFields
  <2>1. CASE StopContainer(p)
    <3>1. \/ task'[p].pc = "pause" /\ task'[p].lab = l /\ container'[l] # "running"
          \/ task'[p].pc = "idle" /\ container'[l] = container[l]
      BY <1>0, <1>3, <2>1, MoveFields DEF StopContainer, TypeOK
    <3>2. /\ task[p].pc = "stop" /\ UNCHANGED row
          /\ container'[l] = container[l] \/ container'[l] # "running"
          /\ container[l] = "none" => container'[l] = "none"
      BY <1>0, <1>3, <2>1 DEF StopContainer, At, TypeOK
    <3>3. OwnRowIsTrue(p, l)
      BY <1>1, <2>0, <3>2 DEF OwnRowIsTrue
    <3>4. HandIsSafe(task[p])'
      BY <3>1 DEF HandIsSafe
    <3> QED BY <2>0, <3>3, <3>4, OwnLabStaysTrue
  <2>2. CASE MarkPaused(p)
    <3>1. Carefree(task'[p].pc)
      BY <1>0, <2>2, MoveFields DEF MarkPaused, Carefree
    <3>2. /\ container[l] # "running" /\ UNCHANGED container
          /\ row' = [row EXCEPT ![l] =
               [@ EXCEPT !.status = "paused", !.forgotten = FALSE]]
      BY <1>3, <2>0, <2>2 DEF MarkPaused, At, HandIsSafe, hostVars
    <3>3. row'[l].status = "paused" /\ row'[l].refs = row[l].refs
      BY <1>0, <3>2 DEF TypeOK, Rows
    <3>4. OwnRowIsTrue(p, l)
      BY <1>1, <2>0, <3>2, <3>3 DEF OwnRowIsTrue
    <3> QED BY <2>0, <3>1, <3>4, CarefreeIsSafe, OwnLabStaysTrue
  <2>3. CASE ResumeContainer(p) \/ RestartContainer(p)
    <3>1. \/ task'[p].pc = "resumed" /\ task'[p].lab = l
          \/ task'[p].pc = "idle" /\ UNCHANGED container
      BY <1>0, <1>3, <2>3, MoveFields DEF ResumeContainer, RestartContainer
    <3>2. /\ task[p].pc \in {"start", "reboot"} /\ UNCHANGED row
          /\ container[l] = "none" => container'[l] = "none"
      BY <1>0, <1>3, <2>3 DEF ResumeContainer, RestartContainer, At, TypeOK
    <3>3. Carefree(task'[p].pc)
      BY <3>1 DEF Carefree
    <3>4. OwnRowIsTrue(p, l)
      BY <1>1, <2>0, <3>1, <3>2 DEF OwnRowIsTrue
    <3> QED BY <2>0, <3>3, <3>4, CarefreeIsSafe, OwnLabStaysTrue
  <2>4. CASE MarkResumed(p)
    <3>1. Carefree(task'[p].pc)
      BY <1>0, <2>4, MoveFields, AfterAcquireType DEF MarkResumed, Carefree
    <3>2. /\ UNCHANGED container
          /\ row' = [row EXCEPT ![l] =
               [@ EXCEPT !.status = "ready", !.inactive = FALSE,
                         !.forgotten = FALSE]]
      BY <1>3, <2>4 DEF MarkResumed, hostVars
    <3>3. row'[l].status = "ready" /\ row'[l].refs = row[l].refs
      BY <1>0, <3>2 DEF TypeOK, Rows
    <3>4. OwnRowIsTrue(p, l)
      BY <1>1, <2>0, <3>2, <3>3 DEF OwnRowIsTrue
    <3> QED BY <2>0, <3>1, <3>4, CarefreeIsSafe, OwnLabStaysTrue
  <2> QED BY <2>1, <2>2, <2>3, <2>4 DEF Power
<1> QED BY <1>2, <1>3 DEF OperationTidy

\* Entering a lab that nobody works on, without touching it, is safe where the
\* operation starts from what its row says.
LEMMA EnterTidy ==
  ASSUME Inv, NEW p \in Procs, NEW l \in Labs, Enter(p, l),
         row[l].status # "none", task[p].pc # "resumed",
         \A q \in Procs \ {p} : task'[q] = task[q],
         task'[p].lab = l,
         UNCHANGED hostVars,
         \A k \in Labs : row'[k].status = row[k].status /\ row'[k].refs = row[k].refs,
         TidyLab(l) => HandIsSafe(task[p])'
  PROVE  OperationTidy(l)
<1>0. TypeOK
  BY DEF Inv
<1>1. ASSUME NEW k \in Labs, k # l PROVE LabUntouched(k)
  <2>1. \A q \in Procs : /\ task'[q].lab = k => task'[q] = task[q]
                         /\ task[q].lab = k /\ task[q].pc = "resumed"
                              => task'[q] = task[q]
    BY <1>1
  <2> QED BY <2>1 DEF LabUntouched, MappingFollows, hostVars
<1>2. ASSUME tidy'[l], TidyLab(l) PROVE TidyLab(l)'
  <2>1. \A q \in Procs \ {p} : task[q].lab # l
    BY <1>0, <1>2 DEF Enter, TypeOK
  <2>2. row[l].status = "paused" => container[l] # "running"
    BY <1>2, <2>1 DEF TidyLab, RowIsTrue
  <2>3. OwnRowIsTrue(p, l)
    BY <1>2, <2>2 DEF OwnRowIsTrue, TidyLab, RowIsTrue, hostVars
  <2> QED BY <1>2, <2>1, <2>3, OwnLabStaysTrue
<1> QED BY <1>1, <1>2 DEF OperationTidy

\* The same for an operation that starts with the task t.
LEMMA StartTidy ==
  ASSUME Inv, NEW p \in Procs, NEW l \in Labs, NEW t \in Tasks,
         task' = [task EXCEPT ![p] = t], t.lab = l, Carefree(t.pc),
         Enter(p, l), row[l].status # "none", task[p].pc # "resumed",
         UNCHANGED hostVars,
         \A k \in Labs : row'[k].status = row[k].status /\ row'[k].refs = row[k].refs
  PROVE  OperationTidy(l)
<1>1. task'[p] = t /\ \A q \in Procs \ {p} : task'[q] = task[q]
  BY DEF Inv, TypeOK
<1>2. HandIsSafe(task[p])'
  BY <1>1, CarefreeIsSafe
<1> QED BY <1>1, <1>2, EnterTidy

\* A destroy starts at the first of its steps that the row calls for.
LEMMA DestroyStarts ==
  ASSUME Inv, NEW p \in Procs, NEW l \in Labs, NEW wipe \in BOOLEAN,
         task' = [task EXCEPT ![p] = DestroyTask(l, wipe)],
         Enter(p, l), row[l].status # "none", task[p].pc # "resumed",
         UNCHANGED <<row, hostVars>>
  PROVE  OperationTidy(l)
<1>1. /\ task'[p] = DestroyTask(l, wipe)
      /\ \A q \in Procs \ {p} : task'[q] = task[q]
  BY DEF Inv, TypeOK
<1>2. /\ task'[p].lab = l /\ task'[p].refs = row[l].refs
      /\ task'[p].pc = FromRemove(row[l].refs, wipe)
  BY <1>1 DEF DestroyTask
<1>3. row[l].refs \in Refs
  BY Fields DEF Inv
<1>4. /\ task'[p].pc \in {"remove", "volume", "overlayRm", "unmap", "terminate"}
      /\ task'[p].pc # "remove" => ~row[l].refs.runtimeId
      /\ task'[p].pc = "terminate" => ~row[l].refs.guacamoleUser
  BY <1>2, <1>3 DEF FromRemove, FromVolume, FromOverlay, FromUnmap
<1>5. HandIsSafe(task[p])'
  BY <1>2, <1>4 DEF HandIsSafe
<1> QED BY <1>1, <1>2, <1>5, EnterTidy

\* Where nobody moves and no row, container or overlay changes for the worse.
LEMMA NobodyMoves ==
  ASSUME Inv, UNCHANGED <<task, overlay, mapping>>,
         \A l \in Labs :
           /\ row'[l].status = row[l].status /\ row'[l].refs = row[l].refs
           /\ \/ container'[l] = container[l]
              \/ container[l] = "running" /\ container'[l] = "stopped"
  PROVE  \A l \in Labs : LabUntouched(l)
BY DEF LabUntouched, MappingFollows

\* A redeem enters the lab it finds, and changes nothing else of its row than
\* whom it belongs to and when it expires.
LEMMA AcquireTidy ==
  ASSUME Inv, NEW p \in Requests, Acquire(p)
  PROVE  \/ \A l \in Labs : LabUntouched(l)
         \/ \E l \in Labs : OperationTidy(l)
<1>0. p \in Procs /\ TypeOK /\ NoLab \notin Labs
  BY Fields DEF Procs, Inv
<1>a. \A st : AfterAcquire(st) \in Pcs /\ Carefree(AfterAcquire(st))
  <2> SUFFICES ASSUME NEW st
               PROVE  AfterAcquire(st) \in Pcs /\ Carefree(AfterAcquire(st))
    OBVIOUS
  <2>1. AfterAcquire(st) \in {"start", "mint", "handoff"}
    BY AfterAcquireType
  <2> QED BY <2>1 DEF Pcs, Carefree
<1>b. Carefree("bump") /\ Carefree("create") /\ Carefree("claim")
  BY DEF Carefree
<1>1. ASSUME NEW u \in Users, AcquireFindsOwn(p, u)
      PROVE  \E l \in Labs : OperationTidy(l)
  <2>0. PICK l \in LabsOf(u) : \E pc \in {"bump", AfterAcquire(row[l].status)} :
          /\ task' = [task EXCEPT ![p] =
                        [NoTask EXCEPT !.pc = pc, !.lab = l, !.user = u]]
          /\ Enter(p, l)
    BY <1>1 DEF AcquireFindsOwn, Newest
  <2>1. PICK pc \in {"bump", AfterAcquire(row[l].status)} :
          /\ task' = [task EXCEPT ![p] =
                        [NoTask EXCEPT !.pc = pc, !.lab = l, !.user = u]]
          /\ Enter(p, l)
    BY <2>0
  <2>2. pc \in Pcs /\ Carefree(pc)
    BY <1>a, <1>b DEF Pcs
  <2>3. l \in Labs /\ row[l].status # "none"
    BY DEF LabsOf, Reusable
  <2>4. /\ [NoTask EXCEPT !.pc = pc, !.lab = l, !.user = u] \in Tasks
        /\ [NoTask EXCEPT !.pc = pc, !.lab = l, !.user = u].lab = l
        /\ [NoTask EXCEPT !.pc = pc, !.lab = l, !.user = u].pc = pc
    BY <2>2, <2>3 DEF NoTask, Tasks, NoRefs, Refs
  <2>5. task[p].pc # "resumed" /\ UNCHANGED <<row, hostVars>>
    BY <1>1 DEF AcquireFindsOwn, Idle
  <2>6. OperationTidy(l)
    BY <1>0, <2>1, <2>2, <2>3, <2>4, <2>5, StartTidy
  <2> QED BY <2>3, <2>6
<1>2. ASSUME NEW u \in Users, RedeemAttached(p, u)
      PROVE  \E l \in Labs : OperationTidy(l)
  <2>0. PICK l \in LabsOf(u) :
          /\ task' = [task EXCEPT ![p] =
               [NoTask EXCEPT !.lab = l, !.user = u,
                              !.pc = AfterAcquire(row[l].status)]]
          /\ Enter(p, l)
    BY <1>2 DEF RedeemAttached
  <2>1. PICK pc : pc = AfterAcquire(row[l].status)
    OBVIOUS
  <2>2. pc \in Pcs /\ Carefree(pc)
    BY <1>a, <2>1
  <2>3. l \in Labs /\ row[l].status # "none"
    BY DEF LabsOf, Reusable
  <2>4. /\ [NoTask EXCEPT !.lab = l, !.user = u, !.pc = pc] \in Tasks
        /\ [NoTask EXCEPT !.lab = l, !.user = u, !.pc = pc].lab = l
        /\ [NoTask EXCEPT !.lab = l, !.user = u, !.pc = pc].pc = pc
    BY <2>2, <2>3 DEF NoTask, Tasks, NoRefs, Refs
  <2>5. task[p].pc # "resumed" /\ UNCHANGED <<row, hostVars>>
    BY <1>2 DEF RedeemAttached, Idle
  <2>6. OperationTidy(l)
    BY <1>0, <2>0, <2>1, <2>2, <2>3, <2>4, <2>5, StartTidy
  <2> QED BY <2>3, <2>6
<1>3. ASSUME NEW u \in Users, AcquireFindsNone(p, u)
      PROVE  \A l \in Labs : LabUntouched(l)
  <2>1. task'[p].lab = NoLab /\ \A q \in Procs \ {p} : task'[q] = task[q]
    BY <1>0, <1>3 DEF AcquireFindsNone, TypeOK, NoTask
  <2>2. UNCHANGED <<row, hostVars>> /\ task[p].pc # "resumed"
    BY <1>3 DEF AcquireFindsNone, Idle
  <2> QED BY <1>0, <2>1, <2>2 DEF LabUntouched, MappingFollows, hostVars
<1>4. ASSUME BumpExpiry(p) \/ ClaimNothing(p)
      PROVE  \/ \A l \in Labs : LabUntouched(l)
             \/ \E l \in Labs : OperationTidy(l)
  <2>1. \E pc : Goto(p, pc) /\ Carefree(pc)
    BY <1>4, <1>a, <1>b DEF BumpExpiry, ClaimNothing
  <2>2. /\ UNCHANGED hostVars /\ task[p].pc # "resumed"
        /\ \A l \in Labs \ {task[p].lab} : row'[l] = row[l]
        /\ \A l \in Labs : row'[l].status = row[l].status /\ row'[l].refs = row[l].refs
    BY <1>0, <1>4 DEF BumpExpiry, ClaimNothing, At, TypeOK, Rows
  <2>3. Carefree(task'[p].pc)
    BY <1>0, <2>1, MoveFields
  <2>4. ASSUME NEW l \in Labs, l # task[p].lab PROVE LabUntouched(l)
    BY <1>0, <2>1, <2>2, <2>4, Elsewhere DEF MappingFollows, hostVars
  <2>5. ASSUME NEW l \in Labs, l = task[p].lab, TidyLab(l) PROVE TidyLab(l)'
    BY <1>0, <2>1, <2>2, <2>3, <2>5, OwnFrame, CarefreeIsSafe
       DEF MappingFollows, hostVars
  <2> QED BY <2>4, <2>5 DEF OperationTidy
<1>5. ASSUME ClaimPrewarm(p) PROVE \E l \in Labs : OperationTidy(l)
  <2>1. PICK l \in Labs :
          /\ row[l].status = "ready"
          /\ row' = [row EXCEPT ![l] =
               [@ EXCEPT !.isPrewarm = FALSE, !.user = task[p].user,
                         !.expired = FALSE]]
          /\ task' = [task EXCEPT ![p] =
               [@ EXCEPT !.lab = l, !.pc = AfterAcquire("ready")]]
          /\ Enter(p, l)
    BY <1>5 DEF ClaimPrewarm, Claimable
  <2>2. /\ task'[p].lab = l /\ task'[p].pc = AfterAcquire("ready")
        /\ \A q \in Procs \ {p} : task'[q] = task[q]
    BY <1>0, <2>1 DEF TypeOK, Tasks
  <2>3. HandIsSafe(task[p])'
    BY <1>0, <1>a, <2>2, CarefreeIsSafe
  <2>4. \A k \in Labs : row'[k].status = row[k].status /\ row'[k].refs = row[k].refs
    BY <1>0, <2>1 DEF TypeOK, Rows
  <2>5. UNCHANGED hostVars /\ task[p].pc # "resumed"
    BY <1>5 DEF ClaimPrewarm, At
  <2>6. OperationTidy(l)
    BY <1>0, <2>1, <2>2, <2>3, <2>4, <2>5, EnterTidy
  <2> QED BY <2>6
<1> QED BY <1>1, <1>2, <1>3, <1>4, <1>5 DEF Acquire

\* A lab is born true: nothing was left over from one that never existed.
LEMMA BirthTidy ==
  ASSUME Inv, NEW p \in Procs, CreateRow(p)
  PROVE  \E l \in Labs : OperationTidy(l)
<1>0. TypeOK
  BY DEF Inv
<1>1. PICK l \in Labs, onNode \in BOOLEAN :
        /\ row[l].status = "none"
        /\ row' = [row EXCEPT ![l] =
             [NoRow EXCEPT !.status = "provisioning",
                           !.user = task[p].user,
                           !.isPrewarm = (task[p].user = NoUser),
                           !.refs.volumeName =
                               (task[p].user # NoUser /\ ~VmLab),
                           !.refs.nodeId = onNode]]
        /\ task' = [task EXCEPT ![p] =
             [@ EXCEPT !.lab = l,
                       !.pc = IF VmLab THEN "overlay" ELSE "provision"]]
  BY DEF CreateRow, Fresh
<1>2. /\ task'[p].lab = l /\ task'[p].pc \in {"overlay", "provision"}
      /\ \A q \in Procs \ {p} : task'[q] = task[q]
  BY <1>0, <1>1 DEF TypeOK, Tasks
<1>3. UNCHANGED hostVars /\ task[p].pc # "resumed"
  BY DEF CreateRow, At
<1>4. /\ \A k \in Labs \ {l} : row'[k] = row[k]
      /\ row'[l].status = "provisioning"
      /\ ~row'[l].refs.runtimeId /\ ~row'[l].refs.guacamoleUser
  BY <1>0, <1>1 DEF TypeOK, NoRow, NoRefs
<1>5. ASSUME NEW k \in Labs, k # l PROVE LabUntouched(k)
  <2>1. \A q \in Procs : /\ task'[q].lab = k => task'[q] = task[q]
                         /\ task[q].lab = k /\ task[q].pc = "resumed"
                              => task'[q] = task[q]
    BY <1>2, <1>3, <1>5
  <2> QED BY <1>3, <1>4, <1>5, <2>1 DEF LabUntouched, MappingFollows, hostVars
<1>6. ASSUME TidyLab(l) PROVE TidyLab(l)'
  <2>1. l \notin overlay' \cup mapping'
    BY <1>1, <1>3, <1>6 DEF TidyLab, RowIsTrue, hostVars
  <2>2. OwnRowIsTrue(p, l)
    BY <1>4, <2>1 DEF OwnRowIsTrue
  <2>3. HandIsSafe(task[p])'
    BY <1>2, <2>1 DEF HandIsSafe
  <2>4. \A q \in Procs \ {p} : task[q].lab # l
    BY <1>0, <1>1, Fields DEF Inv, LabsInHandExist
  <2> QED BY <1>2, <2>2, <2>3, <2>4, OwnLabStaysTrue
<1> QED BY <1>5, <1>6 DEF OperationTidy

\* Admin requests enter existing labs.
LEMMA AdminTidy ==
  ASSUME Inv, NEW p \in Requests, Admin(p)
  PROVE  \E l \in Labs : OperationTidy(l)
<1>0. p \in Procs /\ TypeOK
  BY DEF Procs, Inv
<1>1. ASSUME NEW l \in Labs, NEW wipe \in BOOLEAN, DestroyReads(p, l, wipe)
      PROVE  OperationTidy(l)
  BY <1>0, <1>1, DestroyStarts DEF DestroyReads, Idle
<1>2. ASSUME NEW l \in Labs, NEW pc \in {"stop", "start", "reboot"},
             Idle(p), row[l].refs.runtimeId, Operate(p, l, pc)
      PROVE  OperationTidy(l)
  <2>1. /\ [NoTask EXCEPT !.pc = pc, !.lab = l] \in Tasks
        /\ [NoTask EXCEPT !.pc = pc, !.lab = l].lab = l
        /\ [NoTask EXCEPT !.pc = pc, !.lab = l].pc = pc
    BY DEF NoTask, Tasks, NoRefs, Refs, Pcs
  <2>2. row[l].status # "none" /\ Carefree(pc)
    BY <1>2 DEF Inv, RuntimeIdIsKnown, Carefree
  <2> QED BY <1>0, <1>2, <2>1, <2>2, StartTidy DEF Operate, Idle
<1> QED BY <1>1, <1>2 DEF Admin, SuspendReads, ResumeReads, RestartReads, MaySuspend

\* The ticks enter labs as an admin does, or start without one.
LEMMA TickTidy ==
  ASSUME Inv,
         \/ \E p \in ReaperTicks : ReaperLists(p) \/ ReaperTakes(p)
         \/ \E p \in PrewarmTicks : PrewarmCounts(p) \/ PrewarmProvisions(p)
  PROVE  \/ \A l \in Labs : LabUntouched(l)
         \/ \E l \in Labs : OperationTidy(l)
<1>0. TypeOK /\ NoLab \notin Labs /\ ReaperTicks \subseteq Procs /\ PrewarmTicks \subseteq Procs
  BY Fields DEF Procs, Inv
<1>1. ASSUME NEW p \in ReaperTicks, ReaperTakes(p)
      PROVE  \/ \A l \in Labs : LabUntouched(l)
             \/ \E l \in Labs : OperationTidy(l)
  <2>1. PICK l \in agenda[p].queue :
          \/ /\ task' = [task EXCEPT ![p] = DestroyTask(l, TRUE)]
             /\ Enter(p, l)
          \/ /\ MaySuspend(l)
             /\ task' = [task EXCEPT ![p] = [NoTask EXCEPT !.pc = "stop", !.lab = l]]
             /\ Enter(p, l)
          \/ UNCHANGED <<task, tidy>>
    BY <1>1 DEF ReaperTakes, ReaperHandles, ReaperSkips
  <2>2. l \in Labs /\ row[l].status # "none"
    BY <1>0, Fields DEF Inv, ReaperWorksOnLabs
  <2>3. UNCHANGED <<row, hostVars>> /\ task[p].pc # "resumed"
    BY <1>1 DEF ReaperTakes, ReaperHandles, ReaperSkips, Idle
  <2>4. CASE task' = [task EXCEPT ![p] = DestroyTask(l, TRUE)] /\ Enter(p, l)
    BY <1>0, <2>2, <2>3, <2>4, DestroyStarts
  <2>5. CASE /\ task' = [task EXCEPT ![p] = [NoTask EXCEPT !.pc = "stop", !.lab = l]]
             /\ Enter(p, l)
    <3>1. /\ [NoTask EXCEPT !.pc = "stop", !.lab = l] \in Tasks
          /\ [NoTask EXCEPT !.pc = "stop", !.lab = l].lab = l
          /\ [NoTask EXCEPT !.pc = "stop", !.lab = l].pc = "stop"
      BY <2>2 DEF NoTask, Tasks, NoRefs, Refs, Pcs
    <3>2. Carefree("stop")
      BY DEF Carefree
    <3>3. OperationTidy(l)
      BY <1>0, <2>2, <2>3, <2>5, <3>1, <3>2, StartTidy
    <3> QED BY <2>2, <3>3
  <2>6. CASE UNCHANGED <<task, tidy>>
    BY <2>3, <2>6, NobodyMoves DEF hostVars
  <2> QED BY <2>1, <2>4, <2>5, <2>6
<1>2. ASSUME \/ \E p \in ReaperTicks : ReaperLists(p)
             \/ \E p \in PrewarmTicks : PrewarmCounts(p)
      PROVE  \A l \in Labs : LabUntouched(l)
  <2>1. UNCHANGED <<row, container, overlay, mapping, task>>
    BY <1>2 DEF ReaperLists, PrewarmCounts, hostVars
  <2> QED BY <2>1, NobodyMoves
<1>3. ASSUME NEW p \in PrewarmTicks, PrewarmProvisions(p)
      PROVE  \A l \in Labs : LabUntouched(l)
  <2>1. task'[p].lab = NoLab /\ \A q \in Procs \ {p} : task'[q] = task[q]
    BY <1>0, <1>3 DEF PrewarmProvisions, TypeOK, NoTask
  <2>2. UNCHANGED <<row, hostVars>> /\ task[p].pc # "resumed"
    BY <1>3 DEF PrewarmProvisions, Idle
  <2> QED BY <1>0, <2>1, <2>2 DEF LabUntouched, MappingFollows, hostVars
<1> QED BY <1>1, <1>2, <1>3

\* Students, time and a container's own exit make no row untrue.
LEMMA EnvironmentTidy ==
  ASSUME Inv, Environment
  PROVE  \A l \in Labs : LabUntouched(l)
<1>0. TypeOK
  BY DEF Inv
<1>1. UNCHANGED <<task, overlay, mapping>>
  BY DEF Environment, Extend, TimePasses, StudentWorks, ContainerExits, hostVars
<1>2. \A l \in Labs : \/ container'[l] = container[l]
                      \/ container[l] = "running" /\ container'[l] = "stopped"
  BY <1>0 DEF Environment, Extend, TimePasses, StudentWorks, ContainerExits, hostVars,
              TypeOK
<1>3. PICK k \in Labs, b \in BOOLEAN :
        \/ row' = [row EXCEPT ![k].expired = b]
        \/ row' = [row EXCEPT ![k].inactive = b]
        \/ row' = [row EXCEPT ![k].forgotten = b]
        \/ UNCHANGED row
  BY DEF Environment, Extend, TimePasses, StudentWorks, ContainerExits
<1>4. \A l \in Labs : row'[l].status = row[l].status /\ row'[l].refs = row[l].refs
  <2>1. CASE row' = [row EXCEPT ![k].expired = b]
    BY <1>0, <2>1 DEF TypeOK, Rows
  <2>2. CASE row' = [row EXCEPT ![k].inactive = b]
    BY <1>0, <2>2 DEF TypeOK, Rows
  <2>3. CASE row' = [row EXCEPT ![k].forgotten = b]
    BY <1>0, <2>3 DEF TypeOK, Rows
  <2> QED BY <1>3, <2>1, <2>2, <2>3
<1> QED BY <1>1, <1>2, <1>4, NobodyMoves

\* A lab that is no longer tidy never is again.
LEMMA TidyFalls ==
  ASSUME TypeOK, [Next]_vars, NEW l \in Labs, tidy'[l]
  PROVE  tidy[l]
<1>1. CASE UNCHANGED tidy
  BY <1>1
<1>2. ASSUME NEW p, NEW k, Enter(p, k) PROVE tidy[l]
  BY <1>2 DEF Enter, TypeOK
<1>3. ASSUME NEW k, Spoil(k) PROVE tidy[l]
  BY <1>3 DEF Spoil, TypeOK
<1>4. CASE ControlPlaneRestarts
  BY <1>4 DEF ControlPlaneRestarts
<1>5. ASSUME NEW p, Acquire(p) \/ Admin(p) PROVE tidy[l]
  <2>1. UNCHANGED tidy \/ \E k \in Labs : Enter(p, k)
    BY <1>5 DEF Acquire, AcquireFindsOwn, RedeemAttached, AcquireFindsNone,
       BumpExpiry, ClaimPrewarm, ClaimNothing, Admin, DestroyReads, SuspendReads,
       ResumeReads, RestartReads, Operate, LabsOf, Newest, Claimable
  <2> QED BY <1>1, <1>2, <2>1
<1>6. ASSUME NEW p, Provision(p) \/ Guacamole(p) PROVE tidy[l]
  <2>1. UNCHANGED tidy \/ Spoil(task[p].lab)
    BY <1>6 DEF Provision, CreateRow, CreateThrows, CreateOverlay, RecordOverlay,
       StartContainer, StartContainerFails, WaitForRdp, MarkReady, CleanUp,
       MarkFailed, Guacamole, MintCredentials, PublishMapping, HandOff
  <2> QED BY <1>1, <1>3, <2>1
<1>7. ASSUME NEW p, Destroy(p) \/ Power(p) PROVE tidy[l]
  <2>1. UNCHANGED tidy \/ Spoil(task[p].lab)
    BY <1>7 DEF Destroy, RemoveContainer, RemoveVolume, RemoveOverlay, Unmap,
       MarkTerminated, Power, StopContainer, MarkPaused, ResumeContainer,
       RestartContainer, MarkResumed
  <2> QED BY <1>1, <1>3, <2>1
<1>8. ASSUME NEW p, ReaperTakes(p) PROVE tidy[l]
  <2>1. UNCHANGED tidy \/ \E k : Enter(p, k)
    BY <1>8 DEF ReaperTakes, ReaperHandles, ReaperSkips
  <2> QED BY <1>1, <1>2, <2>1
<1>9. ASSUME \/ \E p : ReaperLists(p) \/ PrewarmCounts(p) \/ PrewarmProvisions(p)
             \/ Environment \/ UNCHANGED vars
      PROVE  tidy[l]
  BY <1>9 DEF ReaperLists, PrewarmCounts, PrewarmProvisions, Environment, Extend,
     TimePasses, StudentWorks, ContainerExits, vars
<1> QED BY <1>4, <1>5, <1>6, <1>7, <1>8, <1>9 DEF Next

\* Nothing exists, so every row is true.
LEMMA TidyInit == Init => TidyInv
<1> SUFFICES ASSUME Init, NEW l \in Labs PROVE TidyLab(l)
  BY DEF TidyInv
<1>1. \A p \in Procs : task[p] = NoTask /\ task[p].lab # l
  BY DEF Init, NoTask, NoLab, Labs
<1>2. row[l].status = "none" /\ ~row[l].refs.guacamoleUser /\ ~row[l].refs.runtimeId
  BY DEF Init, NoRow, NoRefs
<1> QED BY <1>1, <1>2 DEF Init, TidyLab, Alone, RowIsTrue

\* Every step keeps the rows of tidy labs true.
LEMMA TidyNext == Inv /\ TidyInv /\ [Next]_vars => TidyInv'
<1> SUFFICES ASSUME Inv, TidyInv, [Next]_vars, NEW l \in Labs, tidy'[l]
             PROVE  TidyLab(l)'
  BY DEF TidyInv
<1>0. TypeOK /\ tidy[l] /\ TidyLab(l)
  BY TidyFalls DEF Inv, TidyInv
<1>1. CASE LabUntouched(l)
  BY <1>0, <1>1, UntouchedStaysTrue
<1>2. ASSUME NEW own, OperationTidy(own) PROVE TidyLab(l)'
  BY <1>0, <1>1, <1>2 DEF OperationTidy
<1>3. CASE UNCHANGED vars
  BY <1>1, <1>3, NobodyMoves DEF vars
<1>4. CASE ControlPlaneRestarts
  <2>1. \A q \in Procs : task[q].lab # l /\ task'[q].lab = NoLab
    BY <1>4 DEF ControlPlaneRestarts, NoTask
  <2>2. NoLab \notin Labs
    BY <1>0, Fields
  <2>3. LabUntouched(l)
    BY <1>4, <2>1, <2>2 DEF LabUntouched, ControlPlaneRestarts, MappingFollows, hostVars
  <2> QED BY <1>1, <2>3
<1>5. ASSUME NEW p \in Procs, Provision(p) \/ Guacamole(p) \/ Destroy(p) \/ Power(p)
      PROVE  TidyLab(l)'
  BY <1>2, <1>5, BirthTidy, ProvisionTidy, GuacamoleTidy, DestroyTidy, PowerTidy
<1> QED
  BY <1>1, <1>2, <1>3, <1>4, <1>5, AcquireTidy, AdminTidy, TickTidy, EnvironmentTidy
     DEF Next

\* While operations on a lab did not overlap, were not cut off and met no error
\* that is swallowed, its row tells the truth between them, for any number of
\* labs, students, requests and ticks.
THEOREM TidyRowsAreTrue == Spec => []TidyRowsTellTheTruth
<1>1. TidyInv => TidyRowsTellTheTruth
  BY DEF TidyInv, TidyLab, RowIsTrue, TidyRowsTellTheTruth, InHand
<1> QED BY <1>1, TidyInit, TidyNext, Invariance, PTL DEF Spec
=============================================================================
