---------------------------- MODULE LabLifecycle ----------------------------
(***************************************************************************)
(* The life of LabForge lab instances: the LabInstance rows in Postgres,   *)
(* the containers, volumes and qcow2 overlays they point at, and the       *)
(* asynchronous operations of orchestrator.ts that move both.  Every       *)
(* `await` of an operation that touches shared state is an action of its   *)
(* own, so HTTP requests, reaper ticks and prewarm ticks interleave as     *)
(* they do on the node.js event loop, each acting on the row it read.      *)
(*                                                                         *)
(* One template on one Docker host.  Wall-clock columns are kept as the    *)
(* comparisons the code makes with them (expiresAt < now, ...).  Port      *)
(* drift and the rendering of user-mapping.xml are not detailed here.      *)
(***************************************************************************)
EXTENDS Integers, FiniteSets

CONSTANTS
  MaxLabs,       \* bound: rows ever created
  Users, NoUser, \* userIdHash values, and the null one
  Requests,      \* bound: HTTP requests in flight at once
  ReaperTicks,   \* reaper ticks that may be in flight at once
  PrewarmTicks,  \* prewarm ticks that may be in flight at once
  PoolTarget,    \* spec.prewarm of the template
  VmLab,         \* TRUE: linked-clone VM behind Guacamole; FALSE: container lab
  Faults,        \* TRUE: Docker, SSH and Guacamole calls may fail
  MaxCrashes,    \* bound: restarts of the control plane
  Ops            \* bound: which operations requests and time perform

Procs == Requests \cup ReaperTicks \cup PrewarmTicks
Labs  == 1..MaxLabs
NoLab == 0

AllOps == {"acquire", "destroy", "suspend", "resume", "restart", "extend", "time"}

ASSUME LifecycleAssumption ==
  /\ Ops \subseteq AllOps
  /\ MaxLabs \in Nat /\ PoolTarget \in Nat /\ MaxCrashes \in Nat
  /\ NoUser \notin Users
  /\ VmLab \in BOOLEAN /\ Faults \in BOOLEAN
  /\ IsFiniteSet(PrewarmTicks)
  /\ Requests \cap ReaperTicks = {}
  /\ Requests \cap PrewarmTicks = {}
  /\ ReaperTicks \cap PrewarmTicks = {}

VARIABLES
  row,        \* the LabInstance table
  container,  \* what Docker has for each lab
  volume,     \* each student's named volume for the template
  overlay,    \* labs whose qcow2 overlay directory is on the node
  mapping,    \* labs with an entry in Guacamole's user-mapping.xml
  task,       \* the operation each process is executing
  agenda,     \* what is left of each reaper tick's current rule
  quota,      \* provisions left in each prewarm tick
  returned,   \* history: labs a resume or restart brought back into the pool
  crashes,    \* restarts so far
  tidy        \* history: labs whose operations never overlapped or failed

hostVars == <<container, volume, overlay, mapping>>
loopVars == <<agenda, quota, returned>>
vars == <<row, container, volume, overlay, mapping, task, agenda, quota,
          returned, crashes, tidy>>

-----------------------------------------------------------------------------
(* Rows and tasks *)

\* The statuses the code assigns ("none": no row yet).  'pending', 'idle' and
\* 'terminating' are in the enum and in filters, and no statement writes them.
Statuses == {"none", "provisioning", "ready", "paused", "failed", "terminated"}
Reusable == {"provisioning", "ready", "paused"}

\* The columns that point at something outside the database.  nodeId is null
\* for labs that were provisioned while no node was configured.
Refs == [runtimeId: BOOLEAN, volumeName: BOOLEAN, nodeId: BOOLEAN,
         vmOverlayPath: BOOLEAN, guacamoleUser: BOOLEAN]
NoRefs == [runtimeId |-> FALSE, volumeName |-> FALSE, nodeId |-> FALSE,
           vmOverlayPath |-> FALSE, guacamoleUser |-> FALSE]

Rows == [status: Statuses, isPrewarm: BOOLEAN, user: Users \cup {NoUser},
         refs: Refs,
         expired: BOOLEAN,    \* expiresAt < now
         inactive: BOOLEAN,   \* lastActivityAt (or createdAt) < suspendBefore
         forgotten: BOOLEAN]  \* suspendedAt < hardKillBefore
NoRow == [status |-> "none", isPrewarm |-> FALSE, user |-> NoUser,
          refs |-> NoRefs, expired |-> FALSE, inactive |-> FALSE,
          forgotten |-> FALSE]

\* Where an operation can be suspended at an await.
Pcs == {"idle", "bump", "claim", "create", "overlay", "overlayPath",
        "provision", "rdp", "ready", "cleanup", "fail", "mint", "publish",
        "handoff", "remove", "volume", "overlayRm", "unmap", "terminate",
        "stop", "pause", "start", "reboot", "resumed"}
Provisioning == {"overlay", "overlayPath", "provision", "rdp", "ready",
                 "cleanup", "fail"}

\* `user` is the student a redeem or provision works for, or the owner of the
\* volume a destroy read; `refs` is the row snapshot a destroy works from.
Tasks == [pc: Pcs, lab: Labs \cup {NoLab}, user: Users \cup {NoUser},
          refs: Refs, wipe: BOOLEAN]
NoTask == [pc |-> "idle", lab |-> NoLab, user |-> NoUser, refs |-> NoRefs,
           wipe |-> FALSE]

NoAgenda == [rule |-> 3, queue |-> {}]

Init ==
  /\ row = [l \in Labs |-> NoRow]
  /\ container = [l \in Labs |-> "none"]
  /\ volume = [u \in Users |-> "absent"]
  /\ overlay = {}
  /\ mapping = {}
  /\ task = [p \in Procs |-> NoTask]
  /\ agenda = [p \in ReaperTicks |-> NoAgenda]
  /\ quota = [p \in PrewarmTicks |-> 0]
  /\ returned = {}
  /\ crashes = 0
  /\ tidy = [l \in Labs |-> TRUE]

\* Slip: provisions under way are not counted.
PoolReady == {l \in Labs : row[l].isPrewarm /\ row[l].status = "ready"}
\* What reconcileOnce of prewarm.ts counts.
Pool == {l \in Labs : row[l].isPrewarm /\ row[l].status \in {"provisioning", "ready"}}

Idle(p) == task[p].pc = "idle"
At(p, pc) == task[p].pc = pc
Goto(p, pc) == task' = [task EXCEPT ![p].pc = pc]
Finish(p) == task' = [task EXCEPT ![p] = NoTask]

\* History: p starts to work on l.
Enter(p, l) ==
  tidy' = [tidy EXCEPT ![l] = @ /\ \A q \in Procs \ {p} : task[q].lab # l]
Spoil(l) == tidy' = [tidy EXCEPT ![l] = FALSE]

-----------------------------------------------------------------------------
(* acquireInstance, as the redeem and prepare routes call it *)

\* Slip: the lookup forgets the userIdHash filter.
LabsOfAnyone(u) == {l \in Labs : /\ row[l].user # NoUser
                                 /\ row[l].status \in Reusable}
LabsOf(u) == {l \in Labs : /\ row[l].user = u
                           /\ ~row[l].isPrewarm
                           /\ row[l].status \in Reusable}
\* findFirst ordered by createdAt, newest first.
Newest(S) == {l \in S : \A k \in S : k <= l}

\* What redeem does with an acquired lab: resume it if the snapshot says
\* paused, ensure Guacamole credentials for a VM, then hand it to the student.
AfterAcquire(status) ==
  CASE status = "paused" -> "start"
    [] status # "paused" /\ VmLab -> "mint"
    [] OTHER -> "handoff"

\* Step 0 of acquireInstance, a lab of this student is found.  Its expiry is
\* moved when it lies before the launch's, which is in the future.
AcquireFindsOwn(p, u) ==
  /\ Idle(p)
  /\ \E l \in Newest(LabsOf(u)) :
       \E pc \in {"bump", AfterAcquire(row[l].status)} :
         /\ row[l].expired => pc = "bump"
         /\ task' = [task EXCEPT ![p] =
                       [NoTask EXCEPT !.pc = pc, !.lab = l, !.user = u]]
         /\ Enter(p, l)
  /\ UNCHANGED <<row, hostVars, loopVars, crashes>>

\* Redeem finds a live lab attached to the launch: no acquire, no new expiry.
RedeemAttached(p, u) ==
  /\ Idle(p)
  /\ \E l \in LabsOf(u) :
       /\ task' = [task EXCEPT ![p] =
            [NoTask EXCEPT !.lab = l, !.user = u,
                           !.pc = AfterAcquire(row[l].status)]]
       /\ Enter(p, l)
  /\ UNCHANGED <<row, hostVars, loopVars, crashes>>

\* Step 0, no lab of this student is found.
AcquireFindsNone(p, u) ==
  /\ Idle(p)
  /\ LabsOf(u) = {}
  /\ task' = [task EXCEPT ![p] = [NoTask EXCEPT !.pc = "claim", !.user = u]]
  /\ UNCHANGED <<row, hostVars, loopVars, crashes, tidy>>

\* The expiry becomes the launch's; redeem goes on with the row as updated.
BumpExpiry(p) ==
  /\ At(p, "bump")
  /\ row' = [row EXCEPT ![task[p].lab].expired = FALSE]
  /\ Goto(p, AfterAcquire(row[task[p].lab].status))
  /\ UNCHANGED <<hostVars, loopVars, crashes, tidy>>

\* Slip: the claim forgets the isPrewarm filter.
ClaimableReady == {l \in Labs : row[l].status = "ready"}
Claimable == {l \in Labs : row[l].isPrewarm /\ row[l].status = "ready"}

\* claimPrewarm: one UPDATE ... FOR UPDATE SKIP LOCKED LIMIT 1.
ClaimPrewarm(p) ==
  /\ At(p, "claim")
  /\ \E l \in Claimable :
       /\ row' = [row EXCEPT ![l] =
            [@ EXCEPT !.isPrewarm = FALSE, !.user = task[p].user,
                      !.expired = FALSE]]
       /\ task' = [task EXCEPT ![p] =
            [@ EXCEPT !.lab = l, !.pc = AfterAcquire("ready")]]
       /\ Enter(p, l)
  /\ UNCHANGED <<hostVars, loopVars, crashes>>

ClaimNothing(p) ==
  /\ At(p, "claim")
  /\ Claimable = {}
  /\ Goto(p, "create")
  /\ UNCHANGED <<row, hostVars, loopVars, crashes, tidy>>

-----------------------------------------------------------------------------
(* provisionNew, for a student or (user null) for the prewarm pool *)

\* A prewarm provision that throws ends its whole tick.
AbortTick(p) ==
  quota' = IF p \in PrewarmTicks THEN [quota EXCEPT ![p] = 0] ELSE quota

Fresh(l) == /\ row[l].status = "none"
            /\ \A k \in Labs : row[k].status = "none" => l <= k

CreateRow(p) ==
  /\ At(p, "create")
  /\ \E l \in Labs, onNode \in BOOLEAN :
       /\ Fresh(l)
       /\ onNode \/ VmLab  \* it matters for the overlay only
       /\ row' = [row EXCEPT ![l] =
            [NoRow EXCEPT !.status = "provisioning",
                          !.user = task[p].user,
                          !.isPrewarm = (task[p].user = NoUser),
                          !.refs.volumeName =
                              (task[p].user # NoUser /\ ~VmLab),
                          !.refs.nodeId = onNode]]
       /\ task' = [task EXCEPT ![p] =
            [@ EXCEPT !.lab = l,
                      !.pc = IF VmLab THEN "overlay" ELSE "provision"]]
  /\ UNCHANGED <<hostVars, loopVars, crashes, tidy>>

\* Anything that throws before the row exists: spec parsing, node resolution.
\* When the bound MaxLabs is used up, every provision ends here.
CreateThrows(p) ==
  /\ At(p, "create")
  /\ Faults \/ \A l \in Labs : row[l].status # "none"
  /\ Finish(p)
  /\ AbortTick(p)
  /\ UNCHANGED <<row, hostVars, agenda, returned, crashes, tidy>>

\* qemuImgCreateOverlay; a failing script has usually made the directory.
CreateOverlay(p) ==
  /\ At(p, "overlay")
  /\ \/ overlay' = overlay \cup {task[p].lab} /\ Goto(p, "overlayPath")
     \/ /\ Faults
        /\ overlay' \in {overlay, overlay \cup {task[p].lab}}
        /\ Goto(p, "cleanup")
  /\ UNCHANGED <<row, container, volume, mapping, loopVars, crashes, tidy>>

RecordOverlay(p) ==
  /\ At(p, "overlayPath")
  /\ row' = [row EXCEPT ![task[p].lab].refs.vmOverlayPath = TRUE]
  /\ Goto(p, "provision")
  /\ UNCHANGED <<hostVars, loopVars, crashes, tidy>>

\* Slip: the volume is created anew for every container.
FreshVolume(u) ==
  IF u = NoUser \/ VmLab THEN volume ELSE [volume EXCEPT ![u] = "empty"]

\* ensureVolume for a student's container lab; pool labs and VMs have none.
EnsuredVolume(u) ==
  IF u = NoUser \/ VmLab \/ volume[u] # "absent" THEN volume
  ELSE [volume EXCEPT ![u] = "empty"]

\* DockerRuntime.provision: volume, container, start, port lookup.
StartContainer(p) ==
  /\ At(p, "provision")
  /\ volume' = EnsuredVolume(task[p].user)
  /\ container' = [container EXCEPT ![task[p].lab] = "running"]
  /\ Goto(p, IF VmLab THEN "rdp" ELSE "ready")
  /\ UNCHANGED <<row, overlay, mapping, loopVars, crashes, tidy>>

\* Slip: the runtimeId of a half-started container is saved, and left behind.
StartContainerFailsRecorded(p) ==
  /\ At(p, "provision")
  /\ Faults
  /\ container' = [container EXCEPT ![task[p].lab] = "running"]
  /\ row' = [row EXCEPT ![task[p].lab].refs.runtimeId = TRUE]
  /\ Goto(p, "cleanup")
  /\ UNCHANGED <<volume, overlay, mapping, loopVars, crashes, tidy>>

\* It throws before the container exists, before it starts, or after it
\* started without a published port; nothing is undone.
StartContainerFails(p) ==
  /\ At(p, "provision")
  /\ Faults
  /\ \E c \in {"none", "stopped", "running"} :
       /\ container' = [container EXCEPT ![task[p].lab] = c]
       /\ IF c = "none" THEN volume' \in {volume, EnsuredVolume(task[p].user)}
          ELSE volume' = EnsuredVolume(task[p].user)
  /\ Goto(p, "cleanup")
  /\ UNCHANGED <<row, overlay, mapping, loopVars, crashes, tidy>>

\* waitForRdpReady: the VM answers, or six minutes pass.
WaitForRdp(p) ==
  /\ At(p, "rdp")
  /\ \/ Goto(p, "ready")
     \/ Faults /\ Goto(p, "cleanup")
  /\ UNCHANGED <<row, hostVars, loopVars, crashes, tidy>>

\* The row becomes 'ready' and gets its runtimeId, whatever it says by now.
MarkReady(p) ==
  LET l == task[p].lab IN
  /\ At(p, "ready")
  /\ row' = [row EXCEPT ![l] =
       [@ EXCEPT !.status = "ready", !.refs.runtimeId = TRUE, !.inactive = FALSE]]
  /\ IF task[p].user = NoUser THEN Finish(p) ELSE Goto(p, AfterAcquire("ready"))
  /\ UNCHANGED <<hostVars, loopVars, crashes, tidy>>

\* The catch block: what the row points at is torn down, best effort.
CleanUp(p) ==
  LET l == task[p].lab
      removed == IF row[l].refs.runtimeId
                 THEN [container EXCEPT ![l] = "none"] ELSE container
  IN
  /\ At(p, "cleanup")
  /\ \/ /\ container' = removed
        /\ overlay' = IF row[l].refs.vmOverlayPath THEN overlay \ {l} ELSE overlay
        /\ UNCHANGED tidy
     \/ /\ Faults
        /\ container' \in {container, removed}
        /\ UNCHANGED overlay
        /\ Spoil(l)
  /\ Goto(p, "fail")
  /\ UNCHANGED <<row, volume, mapping, loopVars, crashes>>

MarkFailed(p) ==
  /\ At(p, "fail")
  /\ row' = [row EXCEPT ![task[p].lab].status = "failed"]
  /\ Finish(p)
  /\ AbortTick(p)
  /\ UNCHANGED <<hostVars, agenda, returned, crashes, tidy>>

-----------------------------------------------------------------------------
(* Guacamole credentials and the redeem's end *)

\* What regenerateUserMapping renders from the table r.
Rendered(r) == {l \in Labs : /\ r[l].refs.guacamoleUser
                             /\ r[l].status \notin {"terminated", "failed"}}

\* ensureGuacamoleCredentials; a failure only costs the student the gateway.
MintCredentials(p) ==
  /\ At(p, "mint")
  /\ \/ /\ row' = [row EXCEPT ![task[p].lab].refs.guacamoleUser = TRUE]
        /\ Goto(p, "publish")
     \/ Faults /\ Goto(p, "handoff") /\ UNCHANGED row
  /\ UNCHANGED <<hostVars, loopVars, crashes, tidy>>

PublishMapping(p) ==
  /\ At(p, "publish")
  /\ \/ mapping' = Rendered(row)
     \/ Faults /\ UNCHANGED mapping
  /\ Goto(p, "handoff")
  /\ UNCHANGED <<row, container, volume, overlay, loopVars, crashes, tidy>>

\* The session token is signed for the lab and the browser is redirected.
HandOff(p) ==
  /\ At(p, "handoff")
  /\ Finish(p)
  /\ UNCHANGED <<row, hostVars, loopVars, crashes, tidy>>

-----------------------------------------------------------------------------
(* destroyInstance: reads the row once and works from that snapshot *)

FromUnmap(r) == IF r.guacamoleUser THEN "unmap" ELSE "terminate"
\* Slip: the overlay directory is left to somebody else.
FromOverlayKept(r) == FromUnmap(r)
FromOverlay(r) == IF r.vmOverlayPath /\ r.nodeId THEN "overlayRm" ELSE FromUnmap(r)
FromVolume(r, w) == IF w /\ r.volumeName THEN "volume" ELSE FromOverlay(r)
FromRemove(r, w) == IF r.runtimeId THEN "remove" ELSE FromVolume(r, w)

DestroyTask(l, wipe) ==
  [pc |-> FromRemove(row[l].refs, wipe), lab |-> l, user |-> row[l].user,
   refs |-> row[l].refs, wipe |-> wipe]

\* POST /instances/:id/terminate, and the batch terminate and purge routes.
\* (When runtimeFor throws, the request ends with nothing changed.)
DestroyReads(p, l, wipe) ==
  /\ Idle(p)
  /\ row[l].status # "none"
  /\ task' = [task EXCEPT ![p] = DestroyTask(l, wipe)]
  /\ Enter(p, l)
  /\ UNCHANGED <<row, hostVars, loopVars, crashes>>

\* docker rm -f; an error is swallowed and the destroy goes on.
RemoveContainer(p) ==
  LET t == task[p] IN
  /\ At(p, "remove")
  /\ \/ /\ container' = [container EXCEPT ![t.lab] = "none"]
        /\ UNCHANGED tidy
     \/ Faults /\ UNCHANGED container /\ Spoil(t.lab)
  /\ Goto(p, FromVolume(t.refs, t.wipe))
  /\ UNCHANGED <<row, volume, overlay, mapping, loopVars, crashes>>

\* Docker refuses (409) while any container, stopped ones too, mounts it.
Mounted(u) == \E l \in Labs : /\ container[l] # "none"
                              /\ row[l].user = u
                              /\ row[l].refs.volumeName

RemoveVolume(p) ==
  LET t == task[p] IN
  /\ At(p, "volume")
  /\ \/ ~Mounted(t.user) /\ volume' = [volume EXCEPT ![t.user] = "absent"]
     \/ (Mounted(t.user) \/ Faults) /\ UNCHANGED volume
  /\ Goto(p, FromOverlay(t.refs))
  /\ UNCHANGED <<row, container, overlay, mapping, loopVars, crashes, tidy>>

RemoveOverlay(p) ==
  LET t == task[p] IN
  /\ At(p, "overlayRm")
  /\ \/ overlay' = overlay \ {t.lab} /\ UNCHANGED tidy
     \/ Faults /\ UNCHANGED overlay /\ Spoil(t.lab)
  /\ Goto(p, FromUnmap(t.refs))
  /\ UNCHANGED <<row, container, volume, mapping, loopVars, crashes>>

\* clearGuacamoleCredentials, then regenerateUserMapping.
Unmap(p) ==
  LET l == task[p].lab
      cleared == [row EXCEPT ![l].refs.guacamoleUser = FALSE]
  IN
  /\ At(p, "unmap")
  /\ \/ row' = cleared /\ mapping' = Rendered(cleared) /\ UNCHANGED tidy
     \/ Faults /\ row' \in {row, cleared} /\ UNCHANGED mapping /\ Spoil(l)
  /\ Goto(p, "terminate")
  /\ UNCHANGED <<container, volume, overlay, loopVars, crashes>>

MarkTerminated(p) ==
  /\ At(p, "terminate")
  /\ row' = [row EXCEPT ![task[p].lab].status = "terminated"]
  /\ Finish(p)
  /\ UNCHANGED <<hostVars, loopVars, crashes, tidy>>

-----------------------------------------------------------------------------
(* suspendInstance, resumeInstance, restartInstance, extendInstance *)

MaySuspend(l) == /\ row[l].refs.runtimeId
                 /\ row[l].status \notin {"paused", "terminated", "failed"}

\* Operations on a container begin by reading the row.  (Where runtimeFor throws,
\* they end there.)
Operate(p, l, pc) ==
  /\ task' = [task EXCEPT ![p] = [NoTask EXCEPT !.pc = pc, !.lab = l]]
  /\ Enter(p, l)
  /\ UNCHANGED <<row, hostVars, loopVars, crashes>>

SuspendReads(p, l) == Idle(p) /\ MaySuspend(l) /\ Operate(p, l, "stop")
\* From the admin route, the proxy, and the batch prepare route.
ResumeReads(p, l) == Idle(p) /\ row[l].refs.runtimeId /\ Operate(p, l, "start")
RestartReads(p, l) == Idle(p) /\ row[l].refs.runtimeId /\ Operate(p, l, "reboot")

\* Slip: any error of docker stop counts as stopped.
StopContainerAnyway(p) ==
  LET l == task[p].lab IN
  /\ At(p, "stop")
  /\ \/ container' = [container EXCEPT ![l] = IF @ = "running" THEN "stopped" ELSE @]
     \/ Faults /\ UNCHANGED container
  /\ Goto(p, "pause")
  /\ UNCHANGED <<row, volume, overlay, mapping, loopVars, crashes, tidy>>

\* docker stop: 304 and 404 are fine, another error ends the operation.
StopContainer(p) ==
  LET l == task[p].lab IN
  /\ At(p, "stop")
  /\ \/ /\ container' = [container EXCEPT ![l] =
                           IF @ = "running" THEN "stopped" ELSE @]
        /\ Goto(p, "pause")
     \/ Faults /\ UNCHANGED container /\ Finish(p)
  /\ UNCHANGED <<row, volume, overlay, mapping, loopVars, crashes, tidy>>

MarkPaused(p) ==
  LET l == task[p].lab IN
  /\ At(p, "pause")
  /\ row' = [row EXCEPT ![l] =
       [@ EXCEPT !.status = "paused", !.forgotten = FALSE]]
  /\ Finish(p)
  /\ UNCHANGED <<hostVars, loopVars, crashes, tidy>>

\* docker start: a container that is gone (404) makes resumeInstance throw.
ResumeContainer(p) ==
  LET l == task[p].lab IN
  /\ At(p, "start")
  /\ \/ /\ container[l] # "none"
        /\ container' = [container EXCEPT ![l] = "running"]
        /\ Goto(p, "resumed")
     \/ /\ container[l] = "none" \/ Faults
        /\ UNCHANGED container
        /\ Finish(p)
  /\ UNCHANGED <<row, volume, overlay, mapping, loopVars, crashes, tidy>>

\* docker restart: a container that is gone (404) is ignored.
RestartContainer(p) ==
  LET l == task[p].lab IN
  /\ At(p, "reboot")
  /\ \/ /\ container' = [container EXCEPT ![l] =
                           IF @ = "none" THEN @ ELSE "running"]
        /\ Goto(p, "resumed")
     \/ Faults /\ UNCHANGED container /\ Finish(p)
  /\ UNCHANGED <<row, volume, overlay, mapping, loopVars, crashes, tidy>>

\* Both end by writing 'ready', whatever the row says by now.
MarkResumed(p) ==
  LET l == task[p].lab IN
  /\ At(p, "resumed")
  /\ row' = [row EXCEPT ![l] =
       [@ EXCEPT !.status = "ready", !.inactive = FALSE, !.forgotten = FALSE]]
  /\ returned' = IF row[l].isPrewarm /\ l \notin Pool THEN returned \cup {l} ELSE returned
  /\ IF task[p].user = NoUser THEN Finish(p) ELSE Goto(p, AfterAcquire("ready"))
  /\ UNCHANGED <<hostVars, agenda, quota, crashes, tidy>>

\* extendInstance: a new expiresAt, later or earlier than now.
Extend(l, past) ==
  /\ row[l].status # "none"
  /\ row' = [row EXCEPT ![l].expired = past]
  /\ UNCHANGED <<hostVars, task, loopVars, crashes, tidy>>

-----------------------------------------------------------------------------
(* The reaper and the prewarm loop *)

\* Slip: only ready rows are looked at for expiry.
ReapExpiredReady == {l \in Labs : /\ row[l].expired /\ ~row[l].isPrewarm
                                  /\ row[l].status = "ready"}
\* Slip: the idle rule forgets isPrewarm = false.
ReapIdleAny == {l \in Labs : row[l].status = "ready" /\ row[l].inactive}

\* The three findMany filters of reconcileOnce.
ReapExpired == {l \in Labs : /\ row[l].expired /\ ~row[l].isPrewarm
                             /\ row[l].status \notin {"none", "terminated", "failed"}}
ReapIdle == {l \in Labs : /\ ~row[l].isPrewarm /\ row[l].status = "ready"
                          /\ row[l].inactive}
ReapForgotten == {l \in Labs : /\ ~row[l].isPrewarm /\ row[l].status = "paused"
                               /\ row[l].forgotten}
Reap(rule) == CASE rule = 1 -> ReapExpired
                [] rule = 2 -> ReapIdle
                [] rule = 3 -> ReapForgotten

\* The rule's rows are listed once; then each listed row is handled in turn.
ReaperLists(p) ==
  LET rule == IF agenda[p].rule = 3 THEN 1 ELSE agenda[p].rule + 1 IN
  /\ Idle(p)
  /\ agenda[p].queue = {}
  /\ agenda' = [agenda EXCEPT ![p] = [rule |-> rule, queue |-> Reap(rule)]]
  /\ UNCHANGED <<row, hostVars, task, quota, returned, crashes, tidy>>

\* destroyInstance(wipe) or suspendInstance of a listed row, read afresh ...
ReaperHandles(p, l) ==
  /\ Idle(p) /\ l \in agenda[p].queue
  /\ agenda' = [agenda EXCEPT ![p].queue = @ \ {l}]
  /\ \/ agenda[p].rule # 2 /\ task' = [task EXCEPT ![p] = DestroyTask(l, TRUE)]
     \/ /\ agenda[p].rule = 2 /\ MaySuspend(l)
        /\ task' = [task EXCEPT ![p] = [NoTask EXCEPT !.pc = "stop", !.lab = l]]
  /\ Enter(p, l)
  /\ UNCHANGED <<row, hostVars, quota, returned, crashes>>
\* ... or nothing: there is nothing to suspend, or the client of its node cannot
\* be built (runtimeFor throws, and the tick only logs it).
ReaperSkips(p, l) ==
  /\ Idle(p) /\ l \in agenda[p].queue
  /\ agenda' = [agenda EXCEPT ![p].queue = @ \ {l}]
  /\ \/ agenda[p].rule = 2 /\ ~MaySuspend(l)
     \/ Faults /\ row[l].refs.nodeId
  /\ UNCHANGED <<row, hostVars, task, quota, returned, crashes, tidy>>
ReaperTakes(p) ==
  \E l \in agenda[p].queue : ReaperHandles(p, l) \/ ReaperSkips(p, l)

Burst(need) == IF need < 2 THEN need ELSE 2

\* reconcileOnce: count, then at most two provisions in turn.
PrewarmCounts(p) ==
  LET need == PoolTarget - Cardinality(Pool) IN
  /\ Idle(p)
  /\ quota[p] = 0
  /\ need > 0
  /\ quota' = [quota EXCEPT ![p] = Burst(need)]
  /\ UNCHANGED <<row, hostVars, task, agenda, returned, crashes, tidy>>

PrewarmProvisions(p) ==
  /\ Idle(p)
  /\ quota[p] > 0
  /\ quota' = [quota EXCEPT ![p] = @ - 1]
  /\ task' = [task EXCEPT ![p] = [NoTask EXCEPT !.pc = "create"]]
  /\ UNCHANGED <<row, hostVars, agenda, returned, crashes, tidy>>

-----------------------------------------------------------------------------
(* Students, time, Docker and restarts *)

\* A request through the wildcard proxy: work is written, the heartbeat saved.
StudentWorks(l) ==
  /\ row[l].status = "ready" /\ row[l].user # NoUser
  /\ container[l] = "running"
  /\ row' = [row EXCEPT ![l].inactive = FALSE]
  /\ volume' = IF row[l].refs.volumeName
               THEN [volume EXCEPT ![row[l].user] = "work"] ELSE volume
  /\ UNCHANGED <<container, overlay, mapping, task, loopVars, crashes, tidy>>

TimePasses(l) ==
  /\ row[l].status \in Reusable
  /\ \/ row' = [row EXCEPT ![l].expired = TRUE]
     \/ row[l].status = "ready" /\ row' = [row EXCEPT ![l].inactive = TRUE]
     \/ row[l].status = "paused" /\ row' = [row EXCEPT ![l].forgotten = TRUE]
  /\ UNCHANGED <<hostVars, task, loopVars, crashes, tidy>>

\* A container stops by itself: the process exits, or its host reboots.
ContainerExits(l) ==
  /\ Faults
  /\ container[l] = "running"
  /\ container' = [container EXCEPT ![l] = "stopped"]
  /\ UNCHANGED <<row, volume, overlay, mapping, task, loopVars, crashes, tidy>>

\* The control plane exits and comes back: operations in flight are forgotten.
ControlPlaneRestarts ==
  /\ crashes < MaxCrashes
  /\ crashes' = crashes + 1
  /\ task' = [p \in Procs |-> NoTask]
  /\ agenda' = [p \in ReaperTicks |-> NoAgenda]
  /\ quota' = [p \in PrewarmTicks |-> 0]
  /\ tidy' = [l \in Labs |-> tidy[l] /\ \A p \in Procs : task[p].lab # l]
  /\ UNCHANGED <<row, hostVars, returned>>

-----------------------------------------------------------------------------
Acquire(p) ==
  \/ "acquire" \in Ops /\ \E u \in Users :
       AcquireFindsOwn(p, u) \/ RedeemAttached(p, u) \/ AcquireFindsNone(p, u)
  \/ BumpExpiry(p) \/ ClaimPrewarm(p) \/ ClaimNothing(p)

Provision(p) ==
  \/ CreateRow(p) \/ CreateThrows(p)
  \/ CreateOverlay(p) \/ RecordOverlay(p)
  \/ StartContainer(p) \/ StartContainerFails(p) \/ WaitForRdp(p)
  \/ MarkReady(p) \/ CleanUp(p) \/ MarkFailed(p)

Guacamole(p) == MintCredentials(p) \/ PublishMapping(p) \/ HandOff(p)

Destroy(p) ==
  \/ RemoveContainer(p) \/ RemoveVolume(p) \/ RemoveOverlay(p)
  \/ Unmap(p) \/ MarkTerminated(p)

Power(p) ==
  \/ StopContainer(p) \/ MarkPaused(p)
  \/ ResumeContainer(p) \/ RestartContainer(p) \/ MarkResumed(p)

Admin(p) ==
  \E l \in Labs :
    \/ "destroy" \in Ops /\ \E wipe \in BOOLEAN : DestroyReads(p, l, wipe)
    \/ "suspend" \in Ops /\ SuspendReads(p, l)
    \/ "resume" \in Ops /\ ResumeReads(p, l)
    \/ "restart" \in Ops /\ RestartReads(p, l)

Environment ==
  \E l \in Labs :
    \/ "extend" \in Ops /\ \E past \in BOOLEAN : Extend(l, past)
    \/ "time" \in Ops /\ TimePasses(l)
    \/ StudentWorks(l) \/ ContainerExits(l)

Next ==
  \/ \E p \in Requests : Acquire(p) \/ Admin(p)
  \/ \E p \in Procs : Provision(p) \/ Guacamole(p) \/ Destroy(p) \/ Power(p)
  \/ \E p \in ReaperTicks : ReaperLists(p) \/ ReaperTakes(p)
  \/ \E p \in PrewarmTicks : PrewarmCounts(p) \/ PrewarmProvisions(p)
  \/ Environment
  \/ ControlPlaneRestarts

Spec == Init /\ [][Next]_vars

-----------------------------------------------------------------------------
(* Properties *)

\* Every variable stays in its domain; a prewarm tick never plans more than
\* the two provisions that prewarm.ts allows itself.
TypeOK ==
  /\ row \in [Labs -> Rows]
  /\ container \in [Labs -> {"none", "running", "stopped"}]
  /\ volume \in [Users -> {"absent", "empty", "work"}]
  /\ overlay \subseteq Labs
  /\ mapping \subseteq Labs
  /\ task \in [Procs -> Tasks]
  /\ agenda \in [ReaperTicks -> [rule: 1..3, queue: SUBSET Labs]]
  /\ quota \in [PrewarmTicks -> 0..2]
  /\ returned \subseteq Labs
  /\ crashes \in 0..MaxCrashes
  /\ tidy \in [Labs -> BOOLEAN]

\* The lifecycle implements the lease specification: a lab changes hands only
\* from the pool to one student, once, and a volume comes and goes only on
\* account of a lab its own student holds.
Lease == INSTANCE LabLease WITH
  born   <- {l \in Labs : row[l].status # "none"},
  lessee <- [l \in Labs |-> row[l].user],
  stored <- {u \in Users : volume[u] # "absent"}
ImplementsLease == Lease!LeaseSpec

\* Whatever redeem, provision or destroy is doing for a student, it is doing to
\* a lab that is this student's: no interleaving of claims, crashes and reaper
\* runs makes a request hand one student another student's lab.
HoldsOwnLab ==
  \A p \in Procs :
    task[p].lab # NoLab /\ task[p].user # NoUser
      => row[task[p].lab].user = task[p].user

\* The reaper never has a pool lab on its list or in its hands, however old its
\* list is: rows only ever leave the pool.
ReaperSparesPool ==
  \A p \in ReaperTicks : \A l \in agenda[p].queue \cup {task[p].lab} :
    l \in Labs => ~row[l].isPrewarm

\* A failed provision is final: no suspend, resume, restart or late provision
\* step brings the row back; only a destroy moves it, to 'terminated'.
FailedIsFinal ==
  [][\A l \in Labs : row[l].status = "failed"
       => row'[l].status \in {"failed", "terminated"}]_vars

\* Work on a volume is lost only in the volume step of a destroy of a lab of
\* this student that was asked to wipe, never by a provision or a resume.
WorkLostOnlyByWipe ==
  [][\A u \in Users : volume[u] = "work" /\ volume'[u] # "work"
       => \E p \in Procs : /\ task[p].pc = "volume" /\ task[p].wipe
                           /\ row[task[p].lab].user = u]_vars

InHand(l) == \E p \in Procs : task[p].lab = l

\* When operations on a lab never overlapped, were never cut by a restart and
\* met no swallowed error, then between operations the row tells the truth:
\* 'paused' means no container runs, and a 'terminated' lab that had been
\* ready has left no container or Guacamole entry behind, and no overlay unless
\* it has no node: the overlay of such a lab is never removed.
TidyRowsTellTheTruth ==
  \A l \in Labs : tidy[l] /\ ~InHand(l) =>
    /\ row[l].status = "paused" => container[l] # "running"
    /\ row[l].status = "terminated" /\ row[l].refs.runtimeId =>
         /\ container[l] = "none" /\ l \notin mapping
         /\ row[l].refs.nodeId => l \notin overlay

\* However many prewarm ticks overlap (setInterval starts one while another is
\* still provisioning), the pool exceeds its target by at most the two labs per
\* other tick that were planned on an older count; a single tick never does.
\* Left out are pool labs that an administrator stopped and started again: they
\* may have been replaced meanwhile.
PoolWithinTarget ==
  PrewarmTicks # {} =>
    Cardinality({l \in Labs \ returned :
                   row[l].isPrewarm /\ row[l].status \in {"provisioning", "ready"}})
      <= PoolTarget + 2 * (Cardinality(PrewarmTicks) - 1)

\* The setInterval loops keep ticking and the calls they await return; HTTP
\* requests owe nobody progress.
LoopStep(p) ==
  \/ Provision(p) \/ Destroy(p) \/ Power(p)
  \/ p \in ReaperTicks /\ (ReaperLists(p) \/ ReaperTakes(p))
  \/ p \in PrewarmTicks /\ (PrewarmCounts(p) \/ PrewarmProvisions(p))
Fairness == \A p \in ReaperTicks \cup PrewarmTicks : WF_vars(LoopStep(p))
FairSpec == Spec /\ Fairness

\* A lab that a rule of the reaper comes to again and again is handled at last:
\* it is not for ever that its node's client cannot be built then.
ClientsGetBuilt ==
  \A p \in ReaperTicks, l \in Labs, rule \in 1..3 :
    SF_vars(agenda[p].rule = rule /\ ReaperHandles(p, l))

\* If so, a student's lab past its expiry is eventually terminated (or has
\* failed, or is given a new expiry), also when the provision that made it was
\* cut off by a restart, and whatever requests do to it meanwhile.
ExpiredIsReaped ==
  ClientsGetBuilt =>
    \A l \in Labs :
      row[l].expired /\ ~row[l].isPrewarm /\ row[l].status \in Reusable
        ~> row[l].status \in {"terminated", "failed"} \/ ~row[l].expired
=============================================================================
