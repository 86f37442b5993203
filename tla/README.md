# LabForge: verification project

LabForge hands students browser-based labs: a signed launch URL is redeemed for
a container or a VM, which is provisioned on demand or taken from a pre-warmed
pool, suspended when idle and destroyed when it expires. This directory holds
TLA+ models of its control plane (`packages/control-plane`), the TLC runs that
check them and the TLAPS proofs about them.

- **Part 1** inventories the system and says which module models which part.
- **Part 2** goes through the modules: state, actions, runs, bounds, theorems.
- **Part 3** sums up what is proved, on which assumptions, and what is only
  model-checked.
- **Part 4** lists where the code disagrees with its own comments or surprises.
- **Part 5** says what is abstracted and what is not modelled.
- **Part 6** is what we would do next.

To check a run: `tlc -config <run>.cfg <module>`; `PROJECT.json` names the module
of each. To check proofs: `tlapm <module>_proofs.tla`.

---

## 1. The system

The control plane is one node.js process: Fastify routes, a wildcard reverse
proxy and five `setInterval` loops share one event loop, Postgres (through
Prisma), Docker daemons, worker nodes reached over SSH, and a Guacamole gateway.
Concurrency is interleaving at `await`: an operation reads a row, awaits Docker
for seconds or minutes, and then writes the row by id, mostly without looking at
it again. There are no optimistic locks. The process can die anywhere, and
nothing recovers an operation that was in flight.

| Component (under `packages/control-plane/src/`) | State it keeps | Operations | Correct means | Module |
|---|---|---|---|---|
| Orchestrator (`orchestrator.ts`) | `LabInstance` rows; the containers, volumes, overlays they point at | acquire (own lab / pool / new), provision, destroy, suspend, resume, restart, extend | a student only ever gets his own lab; work is lost only when asked for; a row says what is on the host | `LabLifecycle` |
| Reaper (`reaper.ts`) | a list per tick | destroy expired, suspend idle, destroy long suspended | expired labs go, pool labs stay | `LabLifecycle`, idle rule also `LabAccess` |
| Prewarm loop (`prewarm.ts`) | none besides rows | count and provision, at most two per tick | the pool reaches its target and does not run past it | `LabLifecycle` |
| Docker runtime (`runtime/docker.ts`) | containers, ports and volumes of one host | provision, destroy, suspend, resume, restart, inspect | 304/404 are treated as done where they are | `LabLifecycle`, `LabAccess` |
| Guacamole gateway (`runtime/guacamole.ts`, `runtime/guacamoleJdbc.ts`) and node shell (`runtime/nodeShell.ts`) | credentials on rows, `user-mapping.xml`, JDBC tables, `regenChain`, `sshCache` | ensure, clear, regenerate, reconcile connections, dial | the file is never older than the last regeneration; handed-out URLs keep working | `UserMapping` |
| Wildcard proxy (`wildcardProxy.ts`) | `resumingNow` | authenticate, heartbeat, background resume, probe, forward | one resume per lab; a row at rest names its own lab's port; everybody gets in | `LabAccess` |
| Port drift reconciler (`portDriftReconciler.ts`) | `running` flag | one pass over live labs | a port change reaches row and gateway | `LabAccess`, RDP side `UserMapping` |
| Redeem route (`routes/redeem.ts`) | `Launch` rows | verify, acquire, attach, stamp, redirect | one lab per student, billed once, reached by a launch | `Launches`, its gateway half `UserMapping` |
| Launch and batch routes (`routes/launches.ts`, `routes/batches.ts`) | `Launch` and `Batch` rows | create, revoke, regenerate, prepare, preview; terminate, purge, extend, add seats | a URL that was taken back opens nothing; a terminated batch is down | `Launches` |
| Node scheduler (`runtime/nodes.ts`, sticky probe of `provisionNew`) | `rrCursor`, `rrCursorsByPool` | probe, pin, pool, ring, default | capacity, files and drained nodes respected as far as the code can know | `NodeScheduler` |
| Nodes (`routes/platform.ts`, `runtime/nodes.ts`, `nodeHealth.ts`, `prisma/seed.ts`) | `Node` rows, `runtimeCache`, `sshKeyCache` | create, edit, test, delete, ping | an edit is picked up; a lab that ends leaves no container; a host that is back is seen | `NodeFleet` |
| Templates and catalog (`routes/templates.ts`, `catalog/defaults.ts`, the admin UI's pages) | `LabTemplate` rows, pages open in browsers | create, patch, delete, edit page, provision the defaults | no password but one entered for the template; no default left out; saving an untouched page changes no more than the form cannot show | `Catalog` |
| Metering and reports (`metering.ts`, `routes/reports.ts`) | `UsageEvent` rows | emit, record; hours, cost, capacity, by template, by node | hours only for time the lab was ready, as far as events arrive in order; windows add up; reports agree; the past is final | `Metering` |
| Others | grader, host statistics, API keys, tenants' administration, deployment scripts | | | see part 5 and `PROJECT.json` |

**How they interact.** Redeem calls `acquireInstance`, possibly
`resumeInstance`, then the gateway; admin and batch routes, reaper and proxy
call the same orchestrator functions on the same rows; provision, destroy,
resume, redeem and the drift reconciler all end in `regenerateUserMapping`,
which re-renders one shared file from the whole table. `provisionNew` asks the
scheduler for a node and takes a Docker client from the cache that the node
routes invalidate. Orchestrator and redeem emit the events that reports read.
The modules cut along these lines: each opens the part it is about await by
await, and keeps of its neighbours what they can do to its state.

| What | opened in | kept elsewhere as |
|---|---|---|
| an operation on a lab | `LabLifecycle` | a step that starts and one that ends (`LabAccess`, `Metering`, `NodeFleet`), or booting, ready, paused, left and dead (`Launches`) |
| publishing to the gateway | `UserMapping` | one step that may fail (`LabLifecycle`) |
| a student's launch | `Launches` | a request for a student (`LabLifecycle`), a redeem (`UserMapping`) |
| the choice of a node | `NodeScheduler` | an enabled node (`NodeFleet`); one host (`LabLifecycle`) |
| reachability of a node | `NodeFleet` | `reach` and `stale` (`NodeScheduler`) |

**What is hard.** Operations overlapping on one row; lists (reaper, drift reconciler, batch
terminate) that are stale while they are worked through; ticks that overlap; a process death
between a side effect and the row that records it; a remote write whose answer is lost; a
whole-file rewrite from an old snapshot; everything queuing behind one promise chain; loads
counted before rows exist; a cache filled from settings that were edited meanwhile; a form
that shows a mask and sends it back; usage events that are late, lost or overtake each
other. `PROJECT.json` lists each such hazard with its line, and the properties that cover it
or the reason why none does.

---

## 2. The modules

Common conventions. Every action is one stretch of code between two awaits,
named after what it does. Process ids (`Requests`, `Procs`, `Ops`, `Admins`,
`Editors`) bound what is in flight at once and stand for nothing else. Counters
named `Max...`, and `Horizon`, are bounds of the model, and the theorems hold for
every value of them. Variables marked "history" are read by properties only:
they record why the code makes no promise about something (an overlap, a
restart, an error it swallows), and are as narrow as TLC let us make them.
Operators whose comment begins with "Slip:" are variants of the operator they precede with
a plausible bug; they are not part of any specification, and each property has
one that breaks it.

### 2.1 The lab lifecycle

| Module | Contents |
|---|---|
| `LabLease` | the abstract promise: a lab is born for one student or for the pool, changes hands at most once, out of the pool; a volume comes and goes only on account of a lab its student holds |
| `LabLifecycle` | rows, hosts and every operation of orchestrator, reaper, prewarm loop and redeem that moves them |
| `LabLifecycleInvariant`, `LabLifecycle_proofs` | the inductive invariant `Inv` and the theorems |

**State.** `row` is the `LabInstance` table. The columns that point outside the
database (`runtimeId`, `volumeName`, `vmOverlayPath`, `guacamoleUser`, `nodeId`)
are flags for "set"; timestamps are the comparisons the code makes with them: `expired`
(`expiresAt < now`), `inactive`, `forgotten` (suspended for too long).
`container`, `volume`, `overlay` and `mapping` are what Docker, the node and the
gateway really have. `task[p]` is the operation a process (request, reaper tick,
prewarm tick) is executing and the await it is suspended at, with the snapshot it
read. `agenda` and `quota` are a tick's remaining list and plan. `tidy` is a
history variable: labs whose operations never overlapped, were not cut by a
restart and met no swallowed error. So is `returned`: pool labs that a resume or
restart made `ready` again after the pool had counted without them.

**Actions.** `ClaimPrewarm` is the single `UPDATE ... FOR UPDATE SKIP LOCKED`; `CreateRow`,
`CreateOverlay`, `RecordOverlay`, `StartContainer`, `WaitForRdp`, `MarkReady`, `CleanUp` and
`MarkFailed` are `provisionNew`; `DestroyReads` and the five steps after it are
`destroyInstance`, which works from what it read first. Error branches are actions of their
own or disjuncts under `Faults`: an error that the code swallows lets the operation go on,
one that propagates ends it, one in a prewarm provision ends the tick. So does a Docker
client that cannot be built (`runtimeFor` throws on a missing host, credential or key): a
request ends, and the reaper logs it and goes on to the next lab (`ReaperSkips`). The
overlay of a VM lab whose row names no node, because none was configured when it was made,
is removed by nobody (`orchestrator.ts:675`); `TidyRowsTellTheTruth` says so.
`ControlPlaneRestarts` drops every operation and keeps rows and hosts.

| Run | Instance (distinct states) | Question |
|---|---|---|
| `lifecycle_vm` | 1 VM lab, a request that redeems, resumes, restarts or extends, a reaper and a prewarm tick, faults, 1 restart, fair loops (460,842) | does a row tell the truth, with overlay and gateway entry, when operations do not overlap; is `failed` final; does the reaper's stale list spare the pool; is an expired lab whose client can be built eventually terminated |
| `lifecycle_handover` | 2 labs, 2 students, 2 requests, 1 prewarm tick (1,780,534) | who owns what: `HoldsOwnLab`, `WorkLostOnlyByWipe`, refinement of `LabLease` |
| `prewarm_ticks` | 5 labs, 2 overlapping ticks, target 2, 1 student and 1 request, suspend and resume by an administrator, 1 restart (3,259,694) | by how much overlap can take the pool past its target |

**Bounds.** Two processes are what it takes for a snapshot to become stale; a third
would only repeat what one of two can do after ending. One lab is enough where the
property is about one row, since operations on different rows share nothing but the
student's volume and the pool; two labs and two students where they do share
(handover). For the pool two ticks that counted the same empty pool each plan the cap
of 2, which takes it to 4 labs, the bound; a fifth lab lets a claim, a stop or a
restart make room for one more. That run checks no deadlock: when its five labs are
used up, there is nothing left to do. Restarts and faults are off in the handover run,
and faults in the pool's, to keep them small; the theorems cover their properties with
both.

**Fairness** (`FairSpec`). Weak fairness of the loops' own steps: `setInterval`
keeps firing, and the calls a tick awaits return. That a node's client can be built is
nobody's to promise, so it is the premise of `ExpiredIsReaped` (`ClientsGetBuilt`): a lab
that a rule comes to again and again is handled at last. Nothing is assumed of
requests: a browser owes no progress, and the property holds whatever they do.

**Proved** (`LifecycleAssumption`: bounds are naturals, the three kinds of process are
disjoint, there are finitely many prewarm ticks, `NoUser` is no student): `Invariance`,
`TypeCorrect` (a tick never plans more than two provisions), `OwnLabOnly`, `PoolIsSpared`,
`FailureIsFinal`, `WorkIsKept`, and `Refinement`: each step of the lifecycle is a step of
`LabLease` or a stutter. None of these is inductive alone. That a request holds its own lab
needs that a provision's row is not claimable (`ProvisionIsExclusive`), that pool rows have
no student and no volume (`PoolIsOwnerless`), and that the reaper lists only rows that left
the pool, or never were in it, for good (`ReaperWorksOnLabs`). `FailedIsFinal` rests on
`RuntimeIdIsKnown` and `PowerNeedsRuntimeId`: power operations require a `runtimeId`, and a
row that failed never got one.

Two theorems need more than rows. `PoolKeepsTarget` (`PoolWithinTarget`): a tick counts
the pool once and then provisions for minutes, so the count alone says nothing about
later. `PoolInv` adds what is still to come, `Committed` labs (in the pool, or in the
hands of a tick) and `Planned` ones (rows a tick is yet to create). Their number stays
within the target plus two per other tick: a tick that begins plans at most what is
missing from the pool it sees, and at most 2, while every other tick has at most 2 in its
hands and plan. `TidyRowsAreTrue` (`TidyRowsTellTheTruth`): `TidyInv` says of a tidy lab
that one operation at most has it in hand (`Alone`), that its row is true even then
(`RowIsTrue`), and, for each await of each operation, what is already gone or not yet
begun (`HandIsSafe`): a destroy that is at its overlay has stopped the container, a resume
that has started it is about to say `ready`.

### 2.2 The user mapping

`UserMapping` opens what `LabLifecycle` treats as one step, publishing, and keeps of a lab
only what is rendered. Its rows do what the lifecycle lets them do: become ready, drift to
another port, be stopped, started and terminated, get and lose credentials. `Publisher` is
the abstract promise: the rows change one commit at a time, one rendering at a time is on
its way, and it was made of the rows as they were when it set out (it is about lab rows,
`LabsIn`; the gateway's configuration is read before them and may have been changed since);
the file changes into that one only, and a rendering that is given up may have arrived, but
never arrives later. `UserMappingInvariant` holds `MappingInv`, `UserMapping_proofs` the
theorems.

**State.** Credentials and ports are known by the number of the commit that set
them (0: null). `version` counts commits. A rendering is the snapshot it was made
from, and `file` is the snapshot behind the file on the gateway: `file.version` says
how old it is. `conn` and `accounts` are `guacamole_connection` and
`guacamole_entity`. `ahead[p]` is the set of calls before p in `regenChain`, which
is what `.then` on the chain's tail amounts to. `given` records the URLs handed
out. `disturbed`, `unannounced` and `clean` are history.

**Actions.** Operations of the orchestrator, of redeem and of the drift reconciler up to
their call; `Call`, `ReadConfig` (`guacamole.ts:318`) and `TakeSnapshot` (the `findMany` at
`:325`), between which rows and configuration commit; the dial (`ReuseConnection`, `Dial`,
`Connect`, `ConnectFails`, `KeyUnreadable`); the staged write (`WriteLands`, `WriteFails`:
the command fails before or after the `mv`, or its answer is lost); the JDBC transaction,
whose error is swallowed; `Link` for the redirect. On failure redeem falls back to noVNC,
destroy goes on to terminate, the others just end. `Restart` forgets chain, cache and
operations, and lets a write or transaction under way land or not.

**Run** `user_mapping` (1,573,515 states): one lab, two operations of any kind in flight,
all failures, one restart; nothing that commits begins after two commits, except a change of
the gateway's host, which may be the third. Two calls suffice for the races of interest: one
at work with an old snapshot, one behind it. One lab suffices because a rendering treats
labs one by one and shares only the version and the configuration between them. Deadlock is
not checked: with a poisoned cache the program does stop.

- `FileNeverGoesBack`: no rendering is replaced by one of an earlier snapshot.
- `PublishedIsFresh`: at the redirect the file shows every commit made before
  redeem's call, with the student's credentials.
- `UrlKeepsWorking`: a URL once handed out works until its lab is destroyed or given
  other credentials, also when the lab cannot be rendered for a while.
- `QuietFileIsCurrent`: as long as nothing fails, no update is lost.
- `ImplementsPublisher`: chain, cached connection and staged write refine `Publisher`;
  what is on its way is the labs' part of the snapshot of whoever is past his turn. In
  particular the file is always one rendering in full.
- `RegenReturnsUnlessPoisoned`: only a poisoned cache entry (part 4) can keep a call
  from returning; no failure does.

**Fairness**: weak fairness of the regeneration's own steps. A query and a remote
command end, and a dial ends in `ready` or `error` (`readyTimeout: 10_000`).

**Proved** (`MappingAssumption`): `MappingInvariance`, `MappingTypeCorrect` (the file is one
rendering in full), `NeverBack`, `Fresh`, `UrlsKeepWorking`, `QuietIsCurrent`,
`PublisherRefinement`, `ChainGoesOn`, `OnlyKeysPoison`. `ChainIsOrdered`: of two calls in
the chain one waits for the other, so at most one is at work. Therefore what a call read of
the file's age when it took its snapshot still holds when it writes (`VersionsAreOrdered`).
`CredentialsAreStable` says that for undisturbed labs row, snapshot and file hold no
credentials or the same ones, and `UrlsAreBacked` follows each URL to the connection and
account it needs, which the keep-set of `syncGuacConnections` protects. `QuietIsCurrent`
(`QuietFileIsCurrent`) speaks only of moments when nobody is at work; `NoUpdateIsLost` is
what holds in between: each lab the file should show is in the latest rendering (the
snapshot of the call at work, or the file if nobody is) as its row is, or some operation has
yet to begin a call (`WillCall`). A commit leaves its own call owing; the snapshot of that
call shows every lab, and since the chain admits one call at a time no older one is written
after it. `PublisherRefinement` (`ImplementsPublisher`): a call that takes its turn finds
nobody at work, so nothing is on its way, a commit counts the version up by one, and a
failing call and a restart both leave the old file or the new one.

Two theorems are the safety core of `RegenReturnsUnlessPoisoned`, which itself needs
fairness; no run states them. `ChainGoesOn` (`ChainHasHead`): as long as calls are in the
chain, one waits for nobody and all the others wait for it, whatever has failed; for the
calls in the chain are finitely many and ordered as a line (`ChainIsALine`), so one has the
fewest calls before it, and it has none; `Procs` may be infinite. `OnlyKeysPoison`: if keys
can be read (`KeyFaults` is FALSE), an entry that is being dialed always has the call that
dials it. So a call can fail to return only if a query or a remote command does not end, or
a key could not be read.

### 2.3 Launches and batches

`Launches` is about launch rows and the URLs signed for them: `routes/launches.ts`,
`routes/batches.ts`, `routes/redeem.ts`, `auth/jwt.ts`, and of `acquireInstance` what
they need (whose lab, or a pool lab, or a new one). A lab is booting, ready,
paused, dead, or left: `terminated` with a container that the destroy could not remove
and that a resume can still start. What happens inside an operation on it is
`LabLifecycle`'s subject, but that suspend, resume and restart read a row once and write
`paused` or `ready` by id later, also over a lab that ended meanwhile, is kept.

**State.** `launch` and `lab` are the two tables, `issued` counts jtis, `urls` holds
the tokens somebody was given (launch, jti, expiry). `req[r]` is a request in flight:
its operation, the await it is at, the snapshot (`row`) it works from, the list it
still has to work through (`todo`), the lab it holds. `billed` counts, since the URL was
issued, the `launch_redeemed` events that are due, written and lost: `emitUsage` is not
awaited and swallows its errors. History: `crossed`, `raced`, `stranded`, `late`,
`down`, `muddled`.

**Actions.** `CreateLaunch`, `CreateBatch`, `AddSeats` with one `InsertSeat` per row
(they run in parallel, so some may fail), `Redeem`, `Stamp`, `FindOwn`/`FindNone`,
`Claim`/`CreateLab`, `Boot`/`BootFails`, `Link`/`LinkFails`, `Emitted`/`EmitFails`,
`Prepare` and `PrepareBatch`/`TakeSeat`, `Revoke`, `RevokeBatch`, `Regenerate`,
`Preview`, `Terminate` and `Purge` with their `Destroy` steps and what follows
(`RevokeAll`, `DeleteAll`), `ExtendReads`/`Extend`, `LabEnds`, `Tick`, `Crash`. A request
that got its lab goes on to wake it if it is paused (`Enter`: redeem, prepare and the
batch worker each have that branch). `Power`, `PowerWrites`, `PowerFails` are these
resumes and those of proxy, reaper and administrators.

| Run | Instance (distinct states) | Question |
|---|---|---|
| `launches` | 2 requests, 2 launches, 2 labs, 2 seats, 4 events, time 0..1, symmetric requests (6,452,623) | all six properties below |
| `claim_attach` | the same with one request (violation) | `AttachNeverFails`, part 4 |

- `DeadUrlStaysDead`: a URL that was revoked or replaced never works again.
- `OneLabPerStudent`: one live lab, unless two requests found none at the same time, the
  lab ended while a request booted or linked it, or a power operation wrote it live
  again after its end.
- `NoStrayLab`: a live lab is reached by a launch or by a request that will link it, with
  the same exceptions and those of a purge or restart; otherwise only the reaper would
  end it, weeks later.
- `BilledOnce`: what invoices count is at most one event per redemption, and one unless it
  is still due or was lost, where redeems of the launch did not overlap.
- `SeatsAreDistinct`: no two URLs of a batch share a seat, its user and its lab,
  unless seats were added concurrently or an insert failed.
- `TerminatedIsDown`: after a terminate no seat has a lab or a working URL, unless a
  request for the seat overlapped it, a destroy failed, or a power operation under way
  then wrote a lab of the seat live again.

**Bounds.** Two requests, because each race is between a snapshot and one other
request; two launches of one user, or two seats, and two labs, because a property
relates at most two. An event is a call, a failure, the end of a lab, a crash; four
are what it takes to create a batch, run two requests and let one fail. A tick of time
is what an expiry needs. The model stops when its bounds are used up, so deadlock is
not checked.

**Proved** (`RequestsAssumption`, `BoundsAssumption`), for any number of everything:
`TypeCorrect` and one theorem per property, each by an induction of its own.
`DeadUrlsStayDead`: `JtisIssued`, the row holds only jtis issued, and a new one is issued
later than every URL's. `OneLab`: for a user nobody raced for, at most one request is
between looking and linking, and then he has no other lab (`Alone`); a power operation that
revives a lab makes its user raced in the same step. `BillOnce`: `Counted` relates events
due, written and lost, `redeemedAt` and the redeems about to stamp. `SeatsDistinct`: seat
numbers are 1..n, in order, or being inserted (`InOrder`). `NoneStray`: `Pointers`,
`Holders` and `Deleted` follow each lab to the launch or request it belongs to.
`TerminateHolds`: while the terminate works, its list holds every lab of a seat that is not
late (`Listed`); when it ends, no request is busy with such a seat and its URLs are closed
(`AreDown`).

### 2.4 Access to a lab

`LabAccess` is the way from a browser to a container: the wildcard proxy, the
operations that stop and start containers and then record the new port
(`suspendInstance`, `resumeInstance`, `restartInstance`, `syncInstanceUpstream`), the
idle rule of the reaper and the port drift reconciler. Docker hands out a new host
port at every start, so a row, or a request that has read it, may name a port that
meanwhile serves someone else.

**State.** `row` (status, port, recently active), `box` (the port a container really
publishes), `others` (ports of labs nobody follows), `tab` (the request of each lab's
browser inside the proxy), `resuming` (`resumingNow`), `op` (operations), `idle` (the
reaper's list), `rec` (the reconciler's pass: what is left of its list, the rows as
listed, the lab it is at and the port it saw), `waiting` (browsers showing the
warming page). History: `since`, `moved`.

**Actions.** `Resume`, `Suspend`, `Restart`, `SuspendIdle` begin an operation;
`Stop`, `Start`, `Park`, `Inspect`, `Sync`, `Commit`, with `CallFails` and
`InspectFails`, are its awaits. `VisitPaused` answers the warming page and starts a
background resume unless one is in flight; `VisitReady` reads the row, `Probe` and
`Forward` use it later. `ReaperLists` and `NothingToSuspend` are the reaper's. A pass of
the reconciler is `ReconcilerLists`, then for one lab after the other
`ReconcilerInspects` and `ReconcilerSyncs`, or `ReconcilerMisses` (an inspection that
fails, or a lab without a runtime id), or `ReconcilerFails`: `runtimeFor` at
`orchestrator.ts:916` is outside the handling per lab and ends the pass.
`Moves`, `Dies` and `OthersMove` are containers that restart, die or take ports.

| Run | Instance (distinct states) | Question |
|---|---|---|
| `lab_access` | 1 lab, 2 ports, 2 operations, 1 event, fair (92,552) | all four properties below |
| `proxy_race` | 1 lab, 2 ports, 2 operations, 2 events (violation) | `ReachesItsLab`, part 4 |

Labs share nothing but ports and the reconciler's list, so one lab and "the others" are
enough to hand a port to a stranger; two operations are what it takes to overlap.

- `PortIsRight`: once no operation is at work on a running lab, its row names its own
  container's port, whatever the reconciler saw before and writes now, unless the
  container moved behind the control plane's back, a port could not be read, or writers
  overlapped. It says nothing of a request that has read the row and not yet forwarded.
- `ResumeGuardIsExact`: a lab in `resumingNow`, for which visits start nothing, has one
  resume in flight, however often the browser refreshes; a lab not in it has none.
- `StudentGetsIn`: whatever was stopped, moved or half done, refreshing is enough, with a
  reconciler whose passes get through from some time on, and with one whose passes never
  do (`ReconcilerSettles`).
- `DriftIsRepaired`: a wrong port does not stay, whatever overlaps, provided that passes
  get through to its lab now and then (`PassesGetThrough`).

**Fairness** (`FairSpec`). Weak fairness of what goes on by itself: awaited Docker calls
and queries return, the loops' timers fire, a pass of the reconciler goes on or ends, the
probe and the forward finish. That a pass gets to a particular lab is nowhere assumed,
since an earlier lab may end it every time; it is the premise of the two properties. A
browser that shows the warming page reloads it (the page refreshes itself); the step that
does so is disabled while a request is inside the proxy, so its fairness is strong. Strong
too are the reaper's suspend, which needs a free member of `Ops` (a bound of the model,
not of the code), and the ageing of a lab whose student waits: while he waits no
heartbeat renews the activity. Nothing is assumed of admins.

**Proved** (`LabsAssumption`, `PortsAssumption`, `MaxEventsAssumption`): `TypeCorrect`,
`OneResume` (each proxy resume is in `resuming`, and only one of a lab can be:
`ResumesAreKnown`; the converse, `GuardHasResume`, is the safety core of `StudentGetsIn`:
whatever fails, the step that ends a resume takes the lab out), and `RightPorts`
(`PortIsRight`): a lab that is not in `moved` has at most one operation; while it has one,
that operation knows the container's port when it is about to write it (`InHand`), and
while it has none the row is right and so is what the reconciler saw and is about to write
(`Steady`). The two liveness properties are model-checked.

### 2.5 Where a lab lands

`NodeScheduler` is the placement of a new lab: the sticky probe of `provisionNew`
(which host holds the student's volume?) and `resolveNodeForProvision` with
`pickLeastLoadedNode`: override, pin, pool, ring, default. Every query and every probe
is an action, so placements interleave with each other and with nodes that go down, are
drained, or are seen again.

**State.** `policy` (settings of launch, tenant, template, configuration), `enabled`,
`reach`, `stale` (nodes), `cursor` (`rrCursor`, `rrCursorsByPool`), `lab` and `prior`
(the slot's row and the node of an earlier one), `volumes` (hosts that hold the slot's
volume), `req` (the provision of each slot). History: `work` (where the files really
are), `blind` (a probe could not see them), `last` (the last pick of each ring).

**Actions.** `Start`, `Probe`, `ChooseHolder`, `Resolve`, `ListCandidates`, `Pick`,
`FindDefault`, `FindOnly`, `CreateRow`, `EnsureVolume`, `Provision`, `ProvisionFails`,
`NoPick`, `Terminate`; `Drain`, `Undrain`, `GoesDown`, `ComesBack`, `Poll`, `Age`,
`Restart`.

**Run** `node_scheduler` (2,372,032 states): nodes 1 (capacity 1) and 2
(unlimited); one student and two labs without a volume, which are symmetric; two
provisions in flight; one drain, outage or restart; five policies, one per way through
`resolveNodeForProvision` (plain spread, pool, override, pin, no spread).

- `OvershootIsBounded`: a node gets at most its capacity plus the other provisions in
  flight, since each counts before the others' rows exist.
- `WorkIsSticky`: a student whose files every probe could see gets a lab where they are.
- `RingAdvances`: two picks in a row from one list take two nodes if two have room.
- `DrainedGetsNothingNew`: a lab goes to a node that is enabled, or was when its
  provision began.

**Proved** (`NodesAssumption`, `CapacityAssumption`, `SlotsAssumption`,
`InFlightAssumption`, `PoliciesAssumption`): `TypeCorrect` and all four. `Overshoot` counts:
at most `MaxInFlight` slots are in flight (`Flight`), and the labs on a node plus those in
flight never pass the bound (`Over`), since the pick that would pass it saw a load below
capacity. `Sticky` and `NothingNew` rest on what each slot owns of its provision (`Own`): a
row and a prior node that agree (`Marked`), candidates that were enabled after its start
(`Admitted`), and a way back to its files at every step (`Files`). `RingMoves`: the cursor
stands behind the last pick, which is therefore the farthest in the ring (`Behind`).

### 2.6 The nodes

`NodeFleet` is the Node rows and what depends on them: the platform routes, the cache of
Docker clients (`runtime/nodes.ts`), the health loop, the seed, and labs that read a row
first and use a client later. Connection settings are a version number, and `good` is
the version that reaches the host at present; `PathOf` is the key file that a version
names.

**State.** `row`, `good`, `pinged` (`lastSeenAt` recent), `cache` (`runtimeCache`), `read`
and `stale` (`sshKeyCache`: the key files this process has read, and those that hold
another key by now), `admin` (platform requests), `poll` (pings in flight), `op` and `lab`
(labs), `box` (where a container really runs), `restarts`. History: `overlapped`,
`excused`.

**Actions.** `PostNode`, `PatchNode`, `ClearDefaults`, `InsertNode`, `InsertFails`,
`UpdateNode`, `InvalidateNode`, `PingNode`, `DeleteNode`, `RemoveNode`; `PollLists`,
`PollAnswers`, `Age`. A lab's operation is a provision (`Choose`, `CreateRow`,
`GetRuntime`, `BuildClient` or `BuildFails`, `StartContainer`, then `MarksReady` or
`ProvisionFails`, whose cleanup looks for a container that no column names and ends in
`CleanupEnds`) or a destroy (`DestroyReads`, `GetRuntime`, `BuildClient` or `BuildFails`,
`Terminate`, which removes the container only if the row has a `runtimeId` and its host
answers, and terminates the row either way). `Move` and `Rotate` are hosts that move and
key files that are replaced; `Sweep` is an operator; `Restart` runs the seed.

**Run** `node_fleet` (3,108,730 states): two nodes, one of them followed by the health loop,
one platform request and one lab at a time, three bodies (a default and a plain node from the
form, and the Drain button), one move of a host, keys replaced at any time, one restart.

- `EditIsPickedUp`: after an edit the next operation gets a client with the new settings,
  unless an operation was under way with the old row. The key in the file that they name is
  another matter.
- `NoOrphan`: a lab that has ended left no container, unless its provision did not get from
  the container's start to the update that names it (`orchestrator.ts:599` finds no
  `runtimeId`), the destroy failed on its host, or its node was deleted between count and
  creation.
- `RecoveredNodeIsSeen`: an enabled node whose settings work for good keeps being seen,
  however pings of its earlier rows, deletions and restarts come in between; but not while
  the process keeps a replaced key of it (`Opens`).

**Fairness**: weak fairness of the health loop's steps for the watched node: its timer
keeps firing and each ping returns, with an answer or an error.

**Proved** (`NodesAssumption`, `AdminsAssumption`, `BoundsAssumption`,
`BodiesAssumption`): `TypeCorrect`; `PickUp`: an id that was never given is in nobody's hands
(`Fresh`), and unless the invalidation of an undisturbed node is due, its cached client is
of the present version and no operation holds its row (`UpToDate`); `NothingLeft`: a
container has a row on its node or an excuse, an operation that has started one is excused
until its row names it, and a destroy goes to the host its lab is on (`Owned`);
and `Bounded`, which no run states: the default nodes never outnumber the requests in
flight and the restarts (`Sized`). One default node is all the form intends, and is not
guaranteed (part 4).

### 2.7 Metering

`Metering` is the usage events of labs and every report on labs: `metering.ts`, the
emitting places of the orchestrator, hours, cost, capacity, by-template and by-node of
`routes/reports.ts`, and the node list's counts. Time is counted in ticks. An operation
writes its row and emits its event later: a stop in the same stretch of code, a start only
after awaits of Guacamole (`orchestrator.ts:550-579`, `770-793`) in which anything may
happen to the lab. An event is stamped when it is emitted, and its own row is written later
still, or never.

**State.** `now`, `templates`, `lab` (status, pool, template, created, ended, whether its
container runs, is stopped or is gone), `op` (operations in flight on it, and starts not yet
emitted), `log` (events, in the order of their stamps). History: `shown` (the ticks at which
a row said ready), `unstopped` (labs whose stop has no event, or a start stamped after it).
The reports are operators over this state: `Billed` (hours, as a set of ticks), `CostTicks`,
`Capacity`, `ActiveNow`, `ByNode`, `NodeStats`.

**Actions.** `CreateRow`, `MarkReady`, `MarkFailed`, `Claim`, `Begin` and the commits
`CommitSuspend` (a container that is gone counts as suspended: Docker's 404),
`CommitResume`, `CommitRestart`, `CommitTerminate` (or `CommitFails`), `EmitsStart`, which
may come later than any of them or never, `Written`, `InsertFails`, `DeleteTemplate`, `Tick`.

**Run** `metering` (1,685,259 states): one lab, one template, two ticks, three events,
two operations in flight, one unwritten event. The reports treat labs one by one or add
them up, so one lab exercises the queries; three events are a start, a stop and one that
overtakes.

- `HoursNeverOvercharge`: hours are only for time the row said ready, whatever overlaps,
  unless the record of a stop is missing or a start that waited for Guacamole was stamped
  after it. Then hours run on to the end of the window although the lab is down (part 4).
- `CostTiles`: adjacent windows add up.
- `ReportsAgree`: reports that count the same labs by different queries agree, also after
  a template is gone.
- `ClosedWindowIsFinal`: hours of a past window whose events are written never change.

**Proved** (`LabsAssumption`, `TemplatesAssumption`: finitely many labs and templates;
`NodeOfAssumption`, `BoundsAssumption`): `TypeCorrect` (including that the log stays in the
order of its stamps, and that no row ends before it begins), and all four properties.
`Tiles` and `PastIsFinal`: `Lifecycle` of a past window is the same set of events before and
after any step, hence so are its intervals. `NeverOvercharged`: `HoursInv` says that a lab
in its provision has no start in the log and owes none (`Unstarted`), and of each start that
at every tick since then the row said `ready` or the tick is behind a later stop, unless a
stop has no event or a start came after it (`Accounted`). Reports bill from a start to the
next stop, so every hour billed is one of these ticks. `CountsAgree`: each report groups the
same labs by another key, and `CountsAddUp` shows that the counts of the groups add up to
the number of labs. A lab is in the group of an existing template (`Rooted`), since deleting
a template takes its rows.

### 2.8 Templates and the catalog

`Catalog` is the templates of one tenant: `routes/templates.ts`, the edit and new pages,
and the default catalog that `prisma/seed.ts` completes for the platform tenant before
every start and that `POST /platform/tenants` inserts once for a client tenant. What a
form carries of a spec is a version and the RDP password; `extra` stands for the fields
it does not carry, and `ragged` says that its text has what a form shows on one line and
reads back otherwise (`edit/page.tsx:86-90`, `169-173`: an env value with line breaks, or
with spaces around it).

**State.** `platform` and `server`; `node`; `row` (`LabTemplate`); `page` (open edit
pages, as rendered); `req` (requests, which read, check nodes and write in three steps);
`todo` and `seen` (the provision of the catalog). History: `typed` (passwords entered for
the row of each name, the mask included if a POST carried it), `fresh`, `gone`, `cut`.

**Actions.** `ProvisionLooks`, `ProvisionCreates`, `ProvisionFails`, `Start`, `Crash`;
`OpenPage`, `ClosePage`, `Save` (which sends `Read(form)`), `PatchSome`, `Find`, `Check`,
`Update`; `Create`, `Insert`, `Delete`; `DeleteNode`, `ToggleNode`.

**Run** `catalog` (1,869,516 states): two names, both defaults, one node, two editors,
three calls. Two editors are one who holds a page or a snapshot and one who interferes;
two names are the one the provision is at and one it has passed.

- `SecretIsTyped`: the password a lab is started with was entered for this very row, or is
  none. A mask `***` that a page shows or a client sends back becomes nobody's password;
  only a row that was posted with it has it (`templates.ts:100-105`).
- `QuietSaveKeepsRow`: a page saved as shown keeps password and description and, unless the
  row was ragged, the text it shows, if nobody else wrote the row.
- `CatalogIsComplete`: no default is missing but a deleted one, unless the provision was
  cut off, which for the platform tenant lasts only until the next start.

**Proved** (`DefaultsAssumption`, `NamesAssumption`, `MaxCallsAssumption`): `TypeCorrect`;
`SecretsHold`, with what pages and requests may hold (`PagesAreMasked`, `RequestsAreTyped`);
`CatalogHolds`, with what a provision has behind it (`Progress`); `QuietSaves`: a fresh page
shows the row, masked (`OpenPages`), and a quiet request holds what is read from its page
(`QuietRequests`, `Reads`); and `PinsHold`, which no run checks: a template is never pinned
to a node that is gone.

---

## 3. What is proved, and what is model-checked

Every theorem is of the form `Spec => []P`, `Spec => [][A]_vars` or, for the two
refinements, `Spec => ImplementsLease` and `Spec => ImplementsPublisher`, and holds for all
values of the constants that satisfy the ASSUMEs named above; TLC evaluates those ASSUMEs
for the values of the runs. Nothing else is assumed, but that `OnlyKeysPoison` is about
instances without `KeyFaults`. The argument is the same everywhere: an invariant that speaks
about each await (what a snapshot, a list, a plan or a held lab still guarantees), shown
inductive with one step per action.

Every invariant and every action property of the passing runs is a theorem, and so is the
type invariant of every module, which no run repeats. Only model-checked, on the instances
of part 2, are the five liveness properties `ExpiredIsReaped`, `RegenReturnsUnlessPoisoned`,
`StudentGetsIn`, `DriftIsRepaired` and `RecoveredNodeIsSeen`: they depend on fairness, and
`ENABLED` is out of TLAPS's reach. Three have a premise about calls that the code cannot
promise to succeed, stated with the property: `ClientsGetBuilt`, `ReconcilerSettles`,
`PassesGetThrough`. For two of them the state that would stop progress is proved unreachable
(`ChainGoesOn` and `OnlyKeysPoison`, `OneResume`). No theorem states the property of a
violated run.

The reports' sums are folds, that is recursive functions in the community modules, and the
library's induction theorems, which take a predicate as a parameter, cannot be used. For the
sums `AllNumbers` does instead: the *set* of sizes for which the sum is right contains 0
and each successor, and is therefore all of Nat. No module declares a RECURSIVE operator.

---

## 4. Where the code disagrees with its comments, or surprises

Two disagreements are runs that TLC finds violated, with a finding in `PROJECT.json`:

- `claim_attach`: `redeem.ts:113` says "Detach any stale instance pointer before
  attaching the new one"; the update at line 115 detaches nothing. Every click of a
  student in the LMS makes a launch; the second finds the student's live lab, which the
  first launch holds, and `Launch.instanceId` is unique. The update fails, and the student
  gets an error until the lab ends.
- `proxy_race`: `wildcardProxy.ts:17-18` proxies a host "to the matching lab container",
  and `orchestrator.ts:42-44` stores a new port "so the wildcard proxy keeps routing
  correctly". The proxy reads the port with the row (`:363`) and uses it after the probe
  (`:377`), and until the row has the new port everybody reads the old one. The probe asks
  whether the lab's own container runs and whether something answers at the port; when
  Docker has given that port to another lab, the request goes there.

The rest was met while modelling or reading. A model contains the behaviour, and its
properties hold in spite of it or name it as an exception, but for the entries that end in
"(not in a model)".

**Lab lifecycle and gateway**

- `orchestrator.ts:589-593` tears down a failed provision's container, but `:599` looks for
  a `runtimeId` that is saved only with status `ready`: it never finds one.
- `orchestrator.ts:948-950` makes `expiresAt` the single source of truth for keeping a lab
  alive; the reaper (`reaper.ts:74`) destroys what was extended after it listed it.
- `orchestrator.ts:356-358` promises a student the same data however often the container is
  replaced; a claimed pool lab (`:217`) mounts no volume.
- `prewarm.ts:7-8` keeps the pool filled; a row that a restart left in `provisioning` counts
  as pool for ever (`:54`).
- `guacamole.ts:308-310` says a failure does not poison later regenerations; an SSH key that
  cannot be read leaves a cache entry whose dial never began (`nodeShell.ts:90`), and every
  later call waits behind it.
- suspend, resume and restart write `paused` or `ready` by id over a row terminated
  meanwhile (`orchestrator.ts:726`, `770`, `852`), though suspend calls itself "a no-op on
  already-paused/terminated" (`:716`): it looks once, before its calls. A dead lab is back
  for redeems, beside the one that replaced it, and a batch that was terminated is up again.
- `runtimeFor` throws for a node whose client cannot be built, and `destroyInstance` awaits
  it (`orchestrator.ts:656`) before anything else: the lab stays as it is, the reaper only
  logs it (`reaper.ts:75`), and an expired lab lives until the node is repaired.
- The overlay of a VM lab whose row names no node is never removed (`orchestrator.ts:675`).
- A pool lab that an administrator suspends does not count as pool (`prewarm.ts:54`) and
  is replaced; resuming it brings the pool past its target.
- A restart between the creation of an overlay and the update that records it
  (`orchestrator.ts:495`) orphans the directory.
- Two operations that find a lab without credentials both write new ones
  (`guacamole.ts:63`); the drift reconciler decides by the credentials on its list
  (`orchestrator.ts:927`).
- `PUT /platform/guacamole` (`platform.ts:316`) regenerates nothing; the file shows the
  change at the next regeneration. One under way may mix the old configuration with newer
  rows: it reads the two one after the other (`guacamole.ts:318`, `325`).
- The comment at `guacamole.ts:365` relies on redeem upserting the connection it needs;
  redeem only looks it up.

**Launches and batches**

- Two redeems of one student that look for a lab at the same time provision two.
- A terminate that overlaps a redeem leaves the new lab up (`batches.ts:358`).
- `redeem.ts:99-103`: the lab is to live as long as the URL; it does not, after a regenerate.
- Two overlapping first redeems each emit `launch_redeemed`: one launch is billed twice.
  One whose event is lost is never billed: nobody awaits `emitUsage` (`redeem.ts:123`,
  `140`), and it swallows its errors (`metering.ts:39`).

**Access**

- A pass of the drift reconciler ends at the first lab whose node's client cannot be built.
- A row `ready` with a stopped container recovers only when the idle rule suspends it.
- Forward-auth never sets `lastActivityAt`, and a desktop used over one long WebSocket
  sends no request: both are idle to the reaper (`reaper.ts:12,83`,
  `wildcardProxy.ts:376`) (not in a model).

**Nodes**

- `config.ts:133` says "fewest active instances"; the code takes turns. The order of
  settings in `schema.prisma:56-58` is not the code's.
- The fallback to the default node looks neither at capacity nor at health; the fallback of an
  override ignores the template's pool; add-seats drops the batch's `nodeIds`
  (not in a model).
- "Never scheduled away from files" (`orchestrator.ts:375-380`) fails when a probe does not
  reach the node that holds them.
- Two default nodes are possible (`platform.ts:223-224`), and none, when the write after
  the clearing fails (`:228`).
- `nodes.ts:76-79` invalidates a node's client "so the next op picks up the new SSH key /
  host / etc." It does not for an operation that had read the row before, nor for a key that
  was replaced at its path: `sshKeyCache` (`:104`) keeps what it read for the life of the
  process, as `:31-33` says. Operations and pings present the old key until a restart.
- A container whose provision fails after its start runs on, on a node that can be reached
  and exists: the row goes to `failed` without its `runtimeId`.

**Metering**

- Hours of a window leave out labs that were already ready when it began
  (`reports.ts:633-636`) and count open ones to a `to` in the future (the latter not in a
  model).
- `instance_ready` and `instance_resumed` are emitted after the Guacamole work
  (`orchestrator.ts:550` and `579`, `770` and `793`). A lab that is suspended or terminated
  in between has its stop stamped first: its hours run to the end of the window.
- A resume of a ready lab starts a second interval and loses the first; a restart of a
  paused lab emits nothing.
- Deleting a template destroys no container and emits nothing: hours count on, cost is 0.
- A second terminate moves `terminatedAt`, which changes the cost of past windows; failed
  rows cost up to now; invoices use the template's present price (the price not in a model).
- By-node `live` counts labs that are starting twice.

**Catalog**

- The edit page sends the whole spec without `persistPaths`, `allowRoot`, `command`,
  `sysctls`, `tmpfs`, `vmStorageHostBase` (`shared/src/index.ts:38-40`): saving drops them.
- A value of `env` with line breaks loses its further lines, or they become variables, and
  spaces around a value go (`edit/page.tsx:86-90`, `169-173`): saving a page as shown may
  change what the lab starts with.
- An empty description is sent as null and refused.
- A save by a tenant other than the platform's clears pins and pool; a save drops the pin to a
  drained node. `allowedNodeIds` has no foreign key.
- The merge of `***` uses a row read earlier, and can undo a password changed meanwhile; a page
  saved over a changed row undoes the change (`edit/page.tsx:100`); `POST` stores a `***`
  it is sent, which is what a client copies that clones a template from an answer.
- A deleted default comes back at the platform tenant's next start; a client tenant's cut-off
  catalog is never completed. Seeding with a new key creates a second platform tenant, and
  two platform tenants may delete each other (not in a model).
- `defaults.ts:2-4` and `256-257` say that the seed re-applies and rewrites the platform's
  catalog at every boot; `seed.ts:48-53` is create-only, and says why. `CatalogIsComplete`
  is about presence only.

---

## 5. What is abstracted, and what is not modelled

**Abstracted**

- Lifecycle: one template and one host; the limit of 50 rows per reaper rule is above
  every bound; database updates do not fail; usage events are `Metering`'s. `pending`,
  `idle` and `terminating` are in the enum, and nothing ever writes them.
- User mapping: the gateway is enabled, remote and has JDBC configured, and specs parse.
  XML escaping, password hashes and connection parameters are left out; ports stand for all
  that a rendering says of a lab besides its credentials.
- Launches: one tenant, template and batch; a token is its jti and expiry.
- Access: labs do not end, and ticks of its reaper do not overlap (`LabLifecycle` lets
  them).
- Scheduler: a slot has one lab at a time; settings do not change under a provision.
- Metering: one tenant; a lab is on a fixed node.

**Not modelled**

- Reports on launches and students (usage, overview, students, pax-days, activity):
  queries over `Launch` rows and launch events.
- Grader: scripts run one after the other in one container, results written once and never
  read back. Host routes: read statistics.
- Tenants' edit, deletion and re-keying; API keys and the forward-auth query, which are
  stateless reads; the label and the queries of a batch.
- The local variants of gateway write and node shell; Docker images, networks and exec.
- Watchdog and installation scripts; the pages of the admin UI that only display; parsing of
  the environment and wiring of the server.

---

## 6. Next

1. The reports on launches, over the state of `Launches`.
2. The local variant of the gateway write, with its own failures.
