------------------------ MODULE UserMappingInvariant ------------------------
(***************************************************************************)
(* The inductive invariant behind the safety properties of UserMapping:    *)
(* who may write, what a writer's snapshot can differ in from the rows and *)
(* from the file it replaces, and what a handed-out URL depends on.        *)
(***************************************************************************)
EXTENDS UserMapping, FiniteSets

\* Of two calls in the chain one waits for the other; a call at work waits for
\* nobody, so there is at most one.
ChainIsOrdered ==
  /\ \A p \in Procs :
       /\ ahead[p] \subseteq InChain
       /\ task[p].pc \notin {"queue"} => ahead[p] = {}
  /\ \A p, q \in InChain : p # q => p \in ahead[q] \/ q \in ahead[p]

\* The calls in the chain are a line with an end: those before the one before
\* are before.
ChainIsALine ==
  /\ IsFiniteSet(InChain)
  /\ \A p \in InChain : p \notin ahead[p]
  /\ \A p, q \in InChain : p \in ahead[q] => ahead[p] \subseteq ahead[q]

\* The chain does not lock up on itself: as long as calls are in it, one waits
\* for nobody and all the others for that one, whatever has failed meanwhile (the
\* comment at regenChain: a failed regeneration must not wedge the later ones).
ChainHasHead ==
  InChain # {} =>
    \E p \in InChain : Turn(p) /\ \A q \in InChain \ {p} : p \in ahead[q]

\* Operations that know a lab know a real one; only redeem gets to the redirect.
KnowsItsLab(t) ==
  /\ \/ t.job \in {"redeem", "provision", "destroy"}
     \/ t.pc \in {"updated", "ensure", "mint", "clear", "terminate", "link"}
     => t.lab \in Labs
  /\ t.pc \in {"ensure", "mint"} => t.job \in {"redeem", "provision"}
  /\ t.pc = "link" => t.job = "redeem"
  /\ t.pc \in {"clear", "terminate"} => t.job = "destroy"
  /\ t.pc \in {"updated", "drift"} => t.job \in {"power", "sync", "reconcile"}
LabsAreKnown == \A p \in Procs : KnowsItsLab(task[p])

\* The writer's snapshot is as new as its call and no older than the file.
VersionsOf(p) ==
  /\ task[p].pc \in Chained => task[p].stamp <= version
  /\ task[p].pc \in Inside => /\ task[p].stamp <= snap[p].version
                              /\ file.version <= snap[p].version
                              /\ snap[p].version <= version
  /\ task[p].pc = "jdbc" => file = snap[p]
  /\ task[p].pc = "link" => task[p].stamp <= file.version
VersionsAreOrdered ==
  /\ file.version <= version
  /\ \A p \in Procs : VersionsOf(p)

Undisturbed == Labs \ disturbed
Ensured(p) == task[p].job \in {"redeem", "provision"}
                /\ task[p].pc \in Chained \cup {"call", "link"}

HoldsCredentials(p, l) ==
  /\ Ensured(p) /\ task[p].lab = l =>
       task[p].token = db[l].token /\ task[p].token # 0
  /\ task[p].pc \in Inside =>
       /\ snap[p].row[l].live
       /\ snap[p].row[l].token \in {file.row[l].token, db[l].token}
       /\ Ensured(p) /\ task[p].lab = l => snap[p].row[l].token = db[l].token
  /\ task[p].pc = "link" /\ task[p].lab = l => file.row[l].token = db[l].token

\* The credentials of an undisturbed lab are set once: wherever they are
\* known, they are those of the row.
CredentialsOf(l) ==
  /\ db[l].live /\ file.row[l].live
  /\ file.row[l].token \in {0, db[l].token}
  /\ \A p \in Procs : HoldsCredentials(p, l)
CredentialsAreStable == \A l \in Undisturbed : CredentialsOf(l)

\* What the gateway has of an undisturbed lab is what the file shows of it, and
\* so is what students were given.
UrlsAreBacked ==
  /\ \A l \in Undisturbed : conn[l] # 0 =>
       file.row[l].token # 0 /\ file.row[l].token \in accounts
  /\ \A g \in given : g.lab \in Undisturbed =>
       /\ g.token # 0 /\ file.row[g.lab].token = g.token
       /\ g.id # 0 => conn[g.lab] = g.id

\* The inductive invariant: serialised writers, each with a snapshot between
\* the file it replaces and the rows as they are.
MappingInv ==
  /\ TypeOK
  /\ ChainIsOrdered
  /\ LabsAreKnown
  /\ VersionsAreOrdered
  /\ CredentialsAreStable
  /\ UrlsAreBacked

-----------------------------------------------------------------------------
(* Why no update is lost *)

\* The task is on its way to a call of its own that will show the lab as it is
\* by then.  A resumed lab is called for only if it has credentials.
WillCall(t, l) ==
  \/ t.pc \in {"ensure", "mint", "clear", "call", "queue", "select"}
  \/ t.pc = "updated" /\ t.job = "sync" /\ t.lab = l
  \/ t.pc = "drift" /\ t.owed

\* The rendering that will be on the gateway once the call at work has written,
\* or the one that is there if nobody is at work, shows the lab as its row is.
\* While somebody writes, the file itself does not count: it is replaced.
AtWork == {p \in Procs : task[p].pc \in Inside}
LatestShows(l) ==
  /\ \A p \in AtWork : snap[p].row[l] = db[l]
  /\ AtWork = {} => file.row[l] = db[l]

\* As long as nothing fails, every lab the file should show is in the latest
\* rendering, or somebody still owes the call that puts it into a later one.
NoUpdateIsLost ==
  clean => \A l \in Visible(Now) \ unannounced :
             LatestShows(l) \/ \E p \in Procs : WillCall(task[p], l)
=============================================================================
