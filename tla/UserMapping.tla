----------------------------- MODULE UserMapping -----------------------------
(***************************************************************************)
(* The Guacamole gateway's view of the labs: user-mapping.xml, which every *)
(* change re-renders in whole from a database snapshot and ships over a    *)
(* cached SSH connection, the JDBC tables that are reconciled after it,    *)
(* and the promise chain (regenChain) that keeps the writers apart.        *)
(*                                                                         *)
(* A row's credentials and RDP port are known by the commit that set them; *)
(* a rendering is the snapshot it was made from.  The gateway is enabled,  *)
(* remote and has its JDBC backend configured.                             *)
(***************************************************************************)
EXTENDS Integers

CONSTANTS
  Labs, NoLab,
  Procs,       \* bound: operations in flight at once
  MaxVersion,  \* bound: nothing that commits begins after so many commits
  MaxCrashes,  \* bound: restarts of the control plane
  Faults,      \* TRUE: SSH connections, remote writes and JDBC syncs may fail
  KeyFaults    \* TRUE: the SSH key may be unreadable or missing

ASSUME MappingAssumption ==
  /\ NoLab \notin Labs
  /\ MaxVersion \in Nat /\ MaxCrashes \in Nat
  /\ Faults \in BOOLEAN /\ KeyFaults \in BOOLEAN

VARIABLES
  db, host, version,      \* the LabInstance rows, whether the gateway's
                          \* defaultRdpHost is set, and commits so far
  file,                   \* the snapshot user-mapping.xml was rendered from
  conn, accounts, serial, \* guacamole_connection, guacamole_entity, last id
  task,                   \* the operation each process is executing
  snap,                   \* the snapshot its regeneration works from
  ahead,                  \* the calls before it in regenChain
  ssh,                    \* the sshCache entry of the gateway
  given,                  \* URLs handed to students
  disturbed,              \* history: labs destroyed or with credentials replaced
  unannounced,            \* history: labs changed with no call owed
  clean,                  \* history: nothing has failed or restarted
  crashes

rows == <<db, host, version>>
jdbc == <<conn, accounts, serial>>
gateway == <<file, jdbc, ssh>>
local == <<task, snap, ahead>>
history == <<given, disturbed, unannounced, clean, crashes>>
vars == <<rows, gateway, local, history>>

-----------------------------------------------------------------------------
(* Rows, renderings and tasks *)

\* The columns a rendering depends on: credentials and RDP port (0: null), and
\* whether the status is neither 'terminated' nor 'failed'.
Row == [token: Nat, port: Nat, live: BOOLEAN]
Snapshots == [row: [Labs -> Row], host: BOOLEAN, version: Nat]
Blank == [row |-> [l \in Labs |-> [token |-> 0, port |-> 0, live |-> TRUE]],
          host |-> TRUE, version |-> 0]

\* What regenerateUserMappingInner selects, and what of it it renders.
Visible(s) == {l \in Labs : s.row[l].live /\ s.row[l].token # 0}
Rendered(s) == {l \in Visible(s) : s.host /\ s.row[l].port # 0}
Tokens(s, S) == {s.row[l].token : l \in S}

Jobs == {"none", "redeem", "provision", "destroy", "power", "sync", "reconcile"}
Inside == {"dial", "connect", "write", "jdbc"}
Chained == {"queue", "select"} \cup Inside
Pcs == {"idle", "ensure", "mint", "call", "link", "clear", "terminate",
        "updated", "drift"} \cup Chained

\* `token` is what ensureGuacamoleCredentials returned, `stamp` the commit at
\* which regenerateUserMapping was called, `seen` the labs with credentials on
\* the reconciler's list, `owed` its needsGuacResync.
Tasks == [pc: Pcs, job: Jobs, lab: Labs \cup {NoLab}, token: Nat, stamp: Nat,
          seen: SUBSET Labs, owed: BOOLEAN]
NoTask == [pc |-> "idle", job |-> "none", lab |-> NoLab, token |-> 0,
           stamp |-> 0, seen |-> {}, owed |-> FALSE]

Init ==
  /\ db = Blank.row
  /\ host = TRUE
  /\ version = 0
  /\ file = Blank
  /\ conn = [l \in Labs |-> 0]
  /\ accounts = {}
  /\ serial = 0
  /\ task = [p \in Procs |-> NoTask]
  /\ snap = [p \in Procs |-> Blank]
  /\ ahead = [p \in Procs |-> {}]
  /\ ssh = "none"
  /\ given = {}
  /\ disturbed = {}
  /\ unannounced = {}
  /\ clean = TRUE
  /\ crashes = 0

At(p, pc) == task[p].pc = pc
Goto(p, pc) == task' = [task EXCEPT ![p].pc = pc]
Begin(p, pc, job, l) ==
  /\ At(p, "idle")
  /\ task' = [task EXCEPT ![p] = [NoTask EXCEPT !.pc = pc, !.job = job, !.lab = l]]
May == version < MaxVersion
Commit(l, r) ==
  /\ db' = [db EXCEPT ![l] = r]
  /\ UNCHANGED host
  /\ version' = IF r = db[l] THEN version ELSE version + 1

-----------------------------------------------------------------------------
(* The operations that change rows and ask for a regeneration *)

Redeem(p, l) ==
  /\ May /\ db[l].live
  /\ Begin(p, "ensure", "redeem", l)
  /\ UNCHANGED <<rows, gateway, snap, ahead, history>>

\* provisionNew writes 'ready' and the RDP port.
ProvisionReady(p, l) ==
  /\ May /\ db[l].live /\ db[l].port = 0
  /\ Begin(p, "ensure", "provision", l)
  /\ Commit(l, [db[l] EXCEPT !.port = version + 1])
  /\ UNCHANGED <<gateway, snap, ahead, history>>

\* A pool lab gets none, and is redeemed only after it is 'ready'.
PrewarmReady(p, l) ==
  /\ May /\ db[l].live /\ db[l].port = 0
  /\ At(p, "idle")
  /\ db[l].token = 0 /\ \A q \in Procs : task[q].lab # l
  /\ Commit(l, [db[l] EXCEPT !.port = version + 1])
  /\ UNCHANGED <<gateway, local, history>>

\* ensureGuacamoleCredentials reads the row; if it has credentials they are used.
EnsureReads(p) ==
  /\ At(p, "ensure")
  /\ LET t == db[task[p].lab].token IN
       task' = [task EXCEPT ![p] =
         [@ EXCEPT !.pc = IF t # 0 THEN "call" ELSE "mint", !.token = t]]
  /\ UNCHANGED <<rows, gateway, snap, ahead, history>>

\* Otherwise it writes new ones, over whatever the row has by now.
MintCredentials(p) ==
  /\ At(p, "mint")
  /\ LET l == task[p].lab IN
       /\ Commit(l, [db[l] EXCEPT !.token = version + 1])
       /\ disturbed' = disturbed \cup IF db[l].token # 0 THEN {l} ELSE {}
  /\ task' = [task EXCEPT ![p] = [@ EXCEPT !.pc = "call", !.token = version + 1]]
  /\ UNCHANGED <<gateway, snap, ahead, given, unannounced, clean, crashes>>

DestroyReads(p, l) ==
  /\ May
  /\ Begin(p, IF db[l].token # 0 THEN "clear" ELSE "terminate", "destroy", l)
  /\ UNCHANGED <<rows, gateway, snap, ahead, history>>

ClearCredentials(p) ==
  /\ At(p, "clear")
  /\ LET l == task[p].lab IN
       /\ Commit(l, [db[l] EXCEPT !.token = 0])
       /\ disturbed' = disturbed \cup {l}
  /\ Goto(p, "call")
  /\ UNCHANGED <<gateway, snap, ahead, given, unannounced, clean, crashes>>

Terminate(p) ==
  /\ At(p, "terminate")
  /\ LET l == task[p].lab IN
       /\ Commit(l, [db[l] EXCEPT !.live = FALSE])
       /\ disturbed' = disturbed \cup {l}
  /\ task' = [task EXCEPT ![p] = NoTask]
  /\ UNCHANGED <<gateway, snap, ahead, given, unannounced, clean, crashes>>

\* suspendInstance, resumeInstance and restartInstance stop or start the
\* container; it may come up on another RDP port.
PowerBegins(p, l) ==
  /\ May /\ db[l].live
  /\ Begin(p, "updated", "power", l)
  /\ UNCHANGED <<rows, gateway, snap, ahead, history>>
ResumeDrifts(p, l) ==
  /\ May /\ db[l].live /\ db[l].port # 0
  /\ Begin(p, "updated", "sync", l)
  /\ Commit(l, [db[l] EXCEPT !.port = version + 1])
  /\ UNCHANGED <<gateway, snap, ahead, history>>

\* Then they write 'paused' or 'ready', over a 'terminated' too; after a drift
\* they call if the row that update returns has credentials.
PowerEnds(p) ==
  /\ At(p, "updated")
  /\ LET l == task[p].lab
         calls == task[p].job = "sync" /\ db[l].token # 0
     IN  /\ Commit(l, [db[l] EXCEPT !.live = TRUE])
         /\ IF calls THEN Goto(p, "call") ELSE task' = [task EXCEPT ![p] = NoTask]
         /\ unannounced' = unannounced \cup IF db[l].live \/ calls THEN {} ELSE {l}
  /\ UNCHANGED <<gateway, snap, ahead, given, disturbed, clean, crashes>>

\* PUT /platform/guacamole changes the host of labs without one of their own,
\* and regenerates nothing.  (It may be the commit after the last of the others.)
Configure ==
  /\ version <= MaxVersion
  /\ host' = ~host
  /\ version' = version + 1
  /\ UNCHANGED <<db, gateway, local, history>>

Resync(p) ==
  /\ Begin(p, "call", "sync", NoLab)
  /\ UNCHANGED <<rows, gateway, snap, ahead, history>>

\* The port drift reconciler lists the live labs, in one pass at a time (its
\* flag `running`) ...
ReconcilerLists(p) ==
  /\ May /\ At(p, "idle")
  /\ \A q \in Procs : task[q].job # "reconcile"
  /\ task' = [task EXCEPT ![p] = [NoTask EXCEPT
       !.pc = "drift", !.job = "reconcile",
       !.seen = {l \in Labs : db[l].live /\ db[l].token # 0}]]
  /\ UNCHANGED <<rows, gateway, snap, ahead, history>>

\* ... and finds for each the port it knows, or another one.  It owes a
\* regeneration only for labs that had credentials on its list.
ReconcilerSyncs(p, l) ==
  /\ At(p, "drift")
  /\ May /\ db[l].live /\ db[l].port # 0
  /\ Commit(l, [db[l] EXCEPT !.port = version + 1])
  /\ LET known == l \in task[p].seen IN
       /\ task' = [task EXCEPT ![p].owed = @ \/ known]
       /\ unannounced' = unannounced \cup IF known THEN {} ELSE {l}
  /\ UNCHANGED <<gateway, snap, ahead, given, disturbed, clean, crashes>>

ReconcilerEnds(p) ==
  /\ At(p, "drift")
  /\ IF task[p].owed THEN Goto(p, "call") ELSE task' = [task EXCEPT ![p] = NoTask]
  /\ UNCHANGED <<rows, gateway, snap, ahead, history>>

-----------------------------------------------------------------------------
(* regenerateUserMapping *)

Now == [row |-> db, host |-> host, version |-> version]
InChain == {p \in Procs : task[p].pc \in Chained}

\* Slip: a call that finds one under way settles for that one.
CallShared(p) ==
  /\ At(p, "call")
  /\ IF InChain = {}
     THEN task' = [task EXCEPT ![p] = [@ EXCEPT !.pc = "queue", !.stamp = version]]
     ELSE IF task[p].job = "destroy" THEN Goto(p, "terminate")
                                     ELSE task' = [task EXCEPT ![p] = NoTask]
  /\ UNCHANGED <<rows, gateway, snap, ahead, history>>

\* The call hangs itself onto the end of regenChain.
Call(p) ==
  /\ At(p, "call")
  /\ task' = [task EXCEPT ![p] = [@ EXCEPT !.pc = "queue", !.stamp = version]]
  /\ ahead' = [ahead EXCEPT ![p] = InChain]
  /\ UNCHANGED <<rows, gateway, snap, history>>

\* Slip: calls do not wait for each other.
AnyTurn(p) == TRUE
Turn(p) == ahead[p] = {}

\* regenerateUserMappingInner awaits the configuration, and then the labs; a
\* commit may come between the two.
ReadConfig(p) ==
  /\ At(p, "queue") /\ Turn(p)
  /\ snap' = [snap EXCEPT ![p].host = host]
  /\ Goto(p, "select")
  /\ UNCHANGED <<rows, gateway, ahead, history>>
TakeSnapshot(p) ==
  /\ At(p, "select")
  /\ snap' = [snap EXCEPT ![p] = [Now EXCEPT !.host = snap[p].host]]
  /\ Goto(p, "dial")
  /\ UNCHANGED <<rows, gateway, ahead, history>>

\* The call settles, either way, and the next in the chain may run.
Leave(p) ==
  /\ ahead' = [q \in Procs |-> ahead[q] \ {p}]
  /\ snap' = [snap EXCEPT ![p] = Blank]
Return(p) ==
  /\ Leave(p)
  /\ CASE task[p].job = "redeem"  -> Goto(p, "link")
       [] task[p].job = "destroy" -> Goto(p, "terminate")
       [] OTHER                   -> task' = [task EXCEPT ![p] = NoTask]
\* Slip: a failed call does not let the next one run.
FailForGood(p) ==
  /\ clean' = FALSE
  /\ UNCHANGED ahead
  /\ snap' = [snap EXCEPT ![p] = Blank]
  /\ IF task[p].job = "destroy" THEN Goto(p, "terminate")
                                ELSE task' = [task EXCEPT ![p] = NoTask]
Fail(p) ==
  /\ clean' = FALSE
  /\ Leave(p)
  /\ IF task[p].job = "destroy" THEN Goto(p, "terminate")
                                ELSE task' = [task EXCEPT ![p] = NoTask]

\* getSshClient: a cached client is used once its `ready` has settled; without
\* one, as when the connection was lost since and 'close' dropped the entry, a
\* new entry is put into the cache, and then the key is read.
ReuseConnection(p) ==
  /\ At(p, "dial") /\ ssh = "ready"
  /\ Goto(p, "write")
  /\ UNCHANGED <<rows, gateway, snap, ahead, history>>
Dial(p) ==
  /\ At(p, "dial")
  /\ ssh = "none" \/ (ssh = "ready" /\ Faults)
  /\ ssh' = "dialing"
  /\ Goto(p, "connect")
  /\ UNCHANGED <<rows, file, jdbc, snap, ahead, history>>

Connect(p) ==
  /\ At(p, "connect")
  /\ ssh' = "ready"
  /\ Goto(p, "write")
  /\ UNCHANGED <<rows, file, jdbc, snap, ahead, history>>

\* The 'error' event rejects the call, the 'close' event drops the entry.
ConnectFails(p) ==
  /\ At(p, "connect") /\ Faults
  /\ ssh' = "none"
  /\ Fail(p)
  /\ UNCHANGED <<rows, file, jdbc, given, disturbed, unannounced, crashes>>

\* buildSshConfig throws: connect is never called, no event drops the entry.
KeyUnreadable(p) ==
  /\ At(p, "connect") /\ KeyFaults
  /\ Fail(p)
  /\ UNCHANGED <<rows, gateway, given, disturbed, unannounced, crashes>>

WriteLands(p) ==
  /\ At(p, "write")
  /\ file' = snap[p]
  /\ Goto(p, "jdbc")
  /\ UNCHANGED <<rows, jdbc, ssh, snap, ahead, history>>

\* Slip: the file is written in place, and a failure leaves part of it.
WriteTears(p) ==
  /\ At(p, "write") /\ Faults
  /\ file' \in {file, snap[p], [snap[p] EXCEPT !.row = <<>>]}
  /\ Fail(p)
  /\ UNCHANGED <<rows, jdbc, ssh, given, disturbed, unannounced, crashes>>

\* Slip: the exit code of the remote command is not looked at.
WriteFailsUnseen(p) ==
  /\ At(p, "write") /\ Faults
  /\ file' \in {file, snap[p]}
  /\ Goto(p, "jdbc")
  /\ UNCHANGED <<rows, jdbc, ssh, snap, ahead, history>>

\* The command fails, or its answer is lost on the way.  The file is staged and
\* moved, so it is the old one or the new one.
WriteFails(p) ==
  /\ At(p, "write") /\ Faults
  /\ file' \in {file, snap[p]}
  /\ Fail(p)
  /\ UNCHANGED <<rows, jdbc, ssh, given, disturbed, unannounced, crashes>>

\* Slip: the keep-set is what was rendered.
KeptRendered(s) == Rendered(s)
Kept(s) == Visible(s)

\* syncGuacConnections, one transaction: insert what is rendered and missing,
\* prune what is not kept.  Ids of different labs are never compared.
Reconciled(s) ==
  /\ conn' = [l \in Labs |-> CASE l \notin Kept(s)                 -> 0
                               [] conn[l] = 0 /\ l \in Rendered(s) -> serial + 1
                               [] OTHER                            -> conn[l]]
  /\ serial' = IF \E l \in Rendered(s) : conn[l] = 0 THEN serial + 1 ELSE serial
  /\ accounts' = (accounts \cap Tokens(s, Kept(s))) \cup Tokens(s, Rendered(s))

SyncJdbc(p) ==
  /\ At(p, "jdbc")
  /\ Reconciled(snap[p])
  /\ Return(p)
  /\ UNCHANGED <<rows, file, ssh, history>>

\* Rolled back, or committed with the answer lost; the error is swallowed.
SyncFails(p) ==
  /\ At(p, "jdbc") /\ Faults
  /\ UNCHANGED jdbc \/ Reconciled(snap[p])
  /\ Return(p)
  /\ UNCHANGED <<rows, file, ssh, history>>

\* redeem looks the connection id up and redirects the student (id 0: none, so
\* the URL logs in through user-mapping.xml).
Link(p) ==
  /\ At(p, "link")
  /\ given' = given \cup {[lab |-> task[p].lab, token |-> task[p].token,
                           id |-> conn[task[p].lab]]}
  /\ task' = [task EXCEPT ![p] = NoTask]
  /\ UNCHANGED <<rows, gateway, snap, ahead, disturbed, unannounced, clean, crashes>>

\* A restart forgets chain, cache and operations; what was under way on the
\* gateway has landed or never will.  Nothing is regenerated at startup.
Restart ==
  /\ crashes < MaxCrashes
  /\ crashes' = crashes + 1
  /\ file' \in {file} \cup {snap[p] : p \in {q \in Procs : At(q, "write")}}
  /\ \/ UNCHANGED jdbc
     \/ \E p \in Procs : At(p, "jdbc") /\ Reconciled(snap[p])
  /\ task' = [p \in Procs |-> NoTask]
  /\ snap' = [p \in Procs |-> Blank]
  /\ ahead' = [p \in Procs |-> {}]
  /\ ssh' = "none"
  /\ clean' = FALSE
  /\ UNCHANGED <<rows, given, disturbed, unannounced>>

-----------------------------------------------------------------------------
(* The specification *)

Operation(p) ==
  \/ \E l \in Labs : \/ Redeem(p, l) \/ ProvisionReady(p, l) \/ PrewarmReady(p, l)
                     \/ DestroyReads(p, l) \/ PowerBegins(p, l) \/ ResumeDrifts(p, l)
  \/ EnsureReads(p) \/ MintCredentials(p) \/ ClearCredentials(p)
  \/ Terminate(p) \/ PowerEnds(p) \/ Resync(p) \/ Link(p)

Reconcile(p) ==
  \/ ReconcilerLists(p) \/ ReconcilerEnds(p)
  \/ \E l \in Labs : ReconcilerSyncs(p, l)

Ship(p) ==
  \/ ReuseConnection(p) \/ Dial(p) \/ Connect(p) \/ ConnectFails(p)
  \/ KeyUnreadable(p) \/ WriteLands(p) \/ WriteFails(p)
  \/ SyncJdbc(p) \/ SyncFails(p)

Next ==
  \/ \E p \in Procs :
       \/ Operation(p) \/ Reconcile(p) \/ Call(p)
       \/ ReadConfig(p) \/ TakeSnapshot(p) \/ Ship(p)
  \/ Configure \/ Restart

Spec == Init /\ [][Next]_vars

\* A database query and a remote command end, and a dial ends with 'ready' or
\* 'error' (readyTimeout is 10 s).
FairSpec == Spec /\ \A p \in Procs : WF_vars(ReadConfig(p) \/ TakeSnapshot(p) \/ Ship(p))

-----------------------------------------------------------------------------
(* Properties *)

\* Every variable stays in its domain; in particular the file on the gateway is
\* always one rendering in full.
TypeOK ==
  /\ db \in [Labs -> Row] /\ host \in BOOLEAN /\ version \in Nat
  /\ file \in Snapshots /\ snap \in [Procs -> Snapshots]
  /\ conn \in [Labs -> Nat] /\ accounts \subseteq Nat /\ serial \in Nat
  /\ task \in [Procs -> Tasks]
  /\ ahead \in [Procs -> SUBSET Procs]
  /\ ssh \in {"none", "dialing", "ready"}
  /\ given \subseteq [lab: Labs, token: Nat, id: Nat]
  /\ disturbed \subseteq Labs /\ unannounced \subseteq Labs
  /\ clean \in BOOLEAN /\ crashes \in 0..MaxCrashes

\* A rendering of an earlier snapshot never replaces one of a later snapshot,
\* the race guacamole.ts describes at regenChain, across failures and restarts.
FileNeverGoesBack == [][file'.version >= file.version]_vars

\* When redeem goes on to the redirect, the file on the gateway shows every
\* commit made before its call, and the student's credentials are in it unless
\* the lab was destroyed or given other credentials meanwhile.
PublishedIsFresh ==
  \A p \in Procs : At(p, "link") =>
    /\ file.version >= task[p].stamp
    /\ task[p].lab \notin disturbed =>
         file.row[task[p].lab].live /\ file.row[task[p].lab].token = task[p].token

\* A URL once handed out works as long as its lab is not destroyed or given
\* other credentials: its connection is never pruned and recreated under
\* another id, its account stays, and a URL without an id finds its credentials
\* among those the file was rendered from.
UrlKeepsWorking ==
  \A g \in given : g.lab \notin disturbed =>
    IF g.id = 0 THEN file.row[g.lab].token = g.token
                ELSE conn[g.lab] = g.id /\ g.token \in accounts

\* As long as nothing fails, once all operations have ended the file shows
\* every live lab that has credentials as its row is: no interleaving of
\* commits and calls loses an update.
QuietFileIsCurrent ==
  clean /\ (\A p \in Procs : At(p, "idle")) =>
    \A l \in Visible(Now) \ unannounced :
      file.row[l] = db[l]

\* The chain, the cached connection and the staged writes implement the simple
\* publisher of the labs: one rendering at a time is on its way, of the rows as
\* they are when it sets out, and the file only ever changes into that one (the
\* race of an earlier snapshot's writer with a later one's, for which regenChain
\* exists).  It says nothing of the gateway's configuration, which is read before
\* the rows and may have been changed since.
LabsIn(s) == [row |-> s.row, version |-> s.version]
Publishing == INSTANCE Publisher WITH
  rows    <- LabsIn(Now),
  shown   <- LabsIn(file),
  pending <- {LabsIn(snap[p]) : p \in {q \in Procs : task[q].pc \in Inside}}
ImplementsPublisher == Publishing!PublisherSpec

\* Only a cache entry whose dial was never begun can keep a call from returning.
Poisoned == ssh = "dialing" /\ \A p \in Procs : ~At(p, "connect")
RegenReturnsUnlessPoisoned ==
  \A p \in Procs : p \in InChain ~> p \notin InChain \/ Poisoned
=============================================================================
