------------------------ MODULE LabLifecycleInvariant ------------------------
(***************************************************************************)
(* The inductive invariant behind the safety properties of LabLifecycle:   *)
(* what every step of every operation may rely on about the row it works   *)
(* on, although it read that row several awaits ago.                       *)
(***************************************************************************)
EXTENDS LabLifecycle

\* A lab that was never created belongs to nobody, is in no pool and has no
\* container.
UnbornIsBlank ==
  \A l \in Labs : row[l].status = "none" =>
    row[l].user = NoUser /\ ~row[l].isPrewarm /\ container[l] = "none"

\* Pool labs have no student and mount no volume.
PoolIsOwnerless ==
  \A l \in Labs : row[l].isPrewarm =>
    row[l].user = NoUser /\ ~row[l].refs.volumeName

\* Only a student's lab mounts a volume, and no VM does.
VolumesAreStudents ==
  \A l \in Labs : row[l].refs.volumeName => row[l].user # NoUser /\ ~VmLab

\* A row that is ready or paused knows its container; a failed one never did.
RuntimeIdIsKnown ==
  \A l \in Labs :
    /\ row[l].status \in {"ready", "paused"} => row[l].refs.runtimeId
    /\ row[l].status \in {"none", "failed"} => ~row[l].refs.runtimeId

\* Operations work on labs that exist.
LabsInHandExist ==
  \A p \in Procs :
    /\ task[p].pc \notin {"idle", "claim", "create"} => task[p].lab # NoLab
    /\ task[p].lab # NoLab => row[task[p].lab].status # "none"

\* A provision works alone on a row nobody could claim, suspend or fail.
ProvisionIsExclusive ==
  \A p \in Procs : task[p].pc \in Provisioning =>
    /\ row[task[p].lab].user = task[p].user
    /\ row[task[p].lab].status # "failed"
    /\ ~row[task[p].lab].refs.runtimeId
    /\ \A q \in Procs :
         task[q].pc \in Provisioning /\ task[q].lab = task[p].lab => q = p

\* Starting, stopping and restarting is done to rows with a runtimeId.
PowerNeedsRuntimeId ==
  \A p \in Procs :
    task[p].pc \in {"stop", "pause", "start", "reboot", "resumed"}
      => row[task[p].lab].refs.runtimeId

\* The volume step is only reached by destroys that were asked to wipe.
VolumeStepWipes == \A p \in Procs : task[p].pc = "volume" => task[p].wipe

\* The reaper lists labs that exist, and creates none.
ReaperWorksOnLabs ==
  \A p \in ReaperTicks :
    /\ task[p].pc # "create"
    /\ \A l \in agenda[p].queue : row[l].status # "none"

\* The volume a container was created with exists as long as the container
\* does: Docker refuses to remove it.
MountedVolumeExists ==
  \A l \in Labs :
    container[l] # "none" /\ row[l].refs.volumeName
      => volume[row[l].user] # "absent"

\* The inductive invariant: no interleaving of claims, provisions, destroys,
\* power operations, ticks and restarts separates a running operation from the
\* row it believes to work on.
Inv ==
  /\ TypeOK
  /\ HoldsOwnLab
  /\ ReaperSparesPool
  /\ MountedVolumeExists
  /\ UnbornIsBlank
  /\ PoolIsOwnerless
  /\ VolumesAreStudents
  /\ RuntimeIdIsKnown
  /\ LabsInHandExist
  /\ ProvisionIsExclusive
  /\ PowerNeedsRuntimeId
  /\ VolumeStepWipes
  /\ ReaperWorksOnLabs

-----------------------------------------------------------------------------
(* Why the pool stays within its target *)

\* A prewarm tick is idle or provisions a lab for nobody; whoever else looks
\* for a pool lab or provisions one works for a student.
PoolHands ==
  /\ \A p \in PrewarmTicks : /\ task[p].pc \in {"idle", "create"} \cup Provisioning
                             /\ task[p].user = NoUser
  /\ \A p \in Procs \ PrewarmTicks :
       task[p].pc \in {"claim", "create"} \cup Provisioning => task[p].user # NoUser

\* The labs of the pool, and those that a prewarm tick is about to make ready.
Hands == {l \in Labs : \E p \in PrewarmTicks :
                         task[p].pc \in Provisioning /\ task[p].lab = l}
Committed == (Pool \cup Hands) \ returned

\* The rows a tick is still going to create, numbered from 1.
Owed(p) == quota[p] + IF At(p, "create") THEN 1 ELSE 0
Planned == {s \in PrewarmTicks \X (1..2) : s[2] <= Owed(s[1])}

\* What is in the pool, under way or planned never exceeds the target by more
\* than two labs per tick that counted before another one planned.
PoolIsPlanned ==
  /\ \A p \in PrewarmTicks : quota[p] = 2 => Idle(p)
  /\ PrewarmTicks # {} =>
       Cardinality(Committed) + Cardinality(Planned)
         <= PoolTarget + 2 * (Cardinality(PrewarmTicks) - 1)

PoolInv == PoolHands /\ PoolIsPlanned

-----------------------------------------------------------------------------
(* Why tidy rows tell the truth *)

\* What a lab's row says about Docker, the overlay directory and Guacamole.
RowIsTrue(l) ==
  LET r == row[l] IN
  /\ r.status = "none" => ~r.refs.guacamoleUser /\ l \notin overlay \cup mapping
  /\ r.status = "paused" =>
       \/ container[l] # "running"
       \/ \E p \in Procs : task[p].lab = l /\ task[p].pc = "resumed"
  /\ r.status = "terminated" /\ r.refs.runtimeId =>
       /\ container[l] = "none" /\ l \notin mapping
       /\ r.refs.nodeId => l \notin overlay
  /\ r.refs.runtimeId /\ l \in overlay => r.refs.vmOverlayPath
  /\ l \in mapping => r.refs.guacamoleUser

\* What the operation t relies on about its lab, from one await to the next.
HandIsSafe(t) ==
  LET l == t.lab
      r == row[t.lab]
  IN
  /\ t.pc = "pause" => container[l] # "running"
  /\ t.pc \in {"provision", "rdp", "ready"} /\ l \in overlay => r.refs.vmOverlayPath
  /\ t.pc \in {"remove", "volume", "overlayRm", "unmap"} => t.refs = r.refs
  /\ t.pc \in {"volume", "overlayRm", "unmap", "terminate"} /\ r.refs.runtimeId
       => container[l] = "none"
  /\ t.pc \in {"unmap", "terminate"} /\ r.refs.runtimeId /\ r.refs.nodeId
       => l \notin overlay
  /\ t.pc = "terminate" => ~r.refs.guacamoleUser

\* A tidy lab is in one hand at most.
Alone(l) == \A p, q \in Procs : task[p].lab = l /\ task[q].lab = l => p = q

TidyLab(l) ==
  /\ Alone(l)
  /\ RowIsTrue(l)
  /\ \A p \in Procs : task[p].lab = l => HandIsSafe(task[p])

TidyInv == \A l \in Labs : tidy[l] => TidyLab(l)
=============================================================================
