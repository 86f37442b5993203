------------------------------- MODULE Catalog -------------------------------
(***************************************************************************)
(* The templates of one tenant: routes/templates.ts, the edit and new      *)
(* pages of the admin UI, provisionDefaultCatalog and the two places that  *)
(* call it, POST /platform/tenants and prisma/seed.ts.                     *)
(*                                                                         *)
(* The tenant is the platform tenant, whose catalog the seed completes     *)
(* before every start of the server, or a client tenant, whose catalog is  *)
(* inserted once, while its administrators may already be at work.  An     *)
(* editor opens a page, which shows the row as it was, and later saves     *)
(* all of it; a request reads the row, checks nodes and writes in three    *)
(* steps, with steps of others in between.                                 *)
(*                                                                         *)
(* What the form carries of a spec is one version number and the RDP       *)
(* password; `extra' stands for the fields it does not carry               *)
(* (persistPaths, allowRoot, command, sysctls, tmpfs, vmStorageHostBase).  *)
(* A version is `ragged' when it holds text that the form reads otherwise  *)
(* than it shows it: a variable of several lines, spaces around a value.   *)
(***************************************************************************)
EXTENDS Integers, FiniteSets

CONSTANTS
  Names,     \* template names
  Defaults,  \* those of DEFAULT_CATALOG
  Nodes,     \* node ids
  Editors,   \* bound: pages open and requests in flight at once
  MaxCalls   \* bound: changes, by editors, of nodes, crashes

ASSUME DefaultsAssumption == Defaults \subseteq Names
ASSUME NamesAssumption == "none" \notin Names
ASSUME MaxCallsAssumption == MaxCalls \in Nat

VARIABLES
  platform,  \* this is the platform tenant
  server,    \* "seeding" or "up"
  node,      \* status of each node
  row,       \* LabTemplate rows
  page,      \* open edit pages
  req,       \* requests in flight
  todo,      \* default templates the running provision has not come to yet
  seen,      \* ... and the one it did not find
  calls,
  typed,     \* history: passwords entered for the row of each name
  fresh,     \* history: editors whose page is still what the database has
  gone,      \* history: names deleted since the catalog was provisioned
  cut        \* history: a provision did not get to its end

history == <<typed, fresh, gone, cut>>
vars == <<platform, server, node, row, page, req, todo, seen, calls, history>>

NoNode == "none"    \* null defaultNodeId
NoName == "none"    \* the name of no row, or of a row that was deleted
Mask == -1          \* '***'
Unset == 0          \* no password

NoRow == [here |-> FALSE, desc |-> FALSE, ver |-> 0, ragged |-> FALSE, secret |-> Unset,
          extra |-> FALSE, pin |-> NoNode, pool |-> {}]
Default == [NoRow EXCEPT !.here = TRUE, !.desc = TRUE, !.extra = TRUE]

Idle == [op |-> "none", pc |-> "idle", name |-> NoName, parts |-> {}, body |-> NoRow,
         old |-> NoRow, quiet |-> FALSE]
NoPage == [name |-> NoName, form |-> NoRow, pins |-> FALSE]

Init ==
  /\ platform \in BOOLEAN
  /\ server = IF platform THEN "seeding" ELSE "up"
  /\ node = [n \in Nodes |-> "enabled"]
  /\ row = [t \in Names |-> NoRow]
  /\ page = [e \in Editors |-> NoPage]
  /\ req = [e \in Editors |-> Idle]
  /\ todo = Defaults /\ seen = NoName
  /\ calls = 0
  /\ typed = [t \in Names |-> {}] /\ fresh = {} /\ gone = {} /\ cut = FALSE
-----------------------------------------------------------------------------
Call == calls < MaxCalls /\ calls' = calls + 1
Known == {n \in Nodes : node[n] # "deleted"}
Enabled == {n \in Nodes : node[n] = "enabled"}

\* A row is written: what other pages show of it is stale.
Put(t, r) ==
  /\ row' = [row EXCEPT ![t] = r]
  /\ fresh' = {e \in fresh : page[e].name # t}
Stored(t) == t # NoName /\ row[t].here
Answer(e) == req' = [req EXCEPT ![e] = Idle]
-----------------------------------------------------------------------------
(* provisionDefaultCatalog, mode create-only: one template after the other, *)
(* a lookup and a create.  A create fails when the name is taken by then,   *)
(* and so does the provision.                                               *)

\* Slip: a tenant that has one template is taken to have them all.
ProvisionLooksOnce(t) ==
  /\ t \in todo /\ seen = NoName
  /\ IF row[t].here THEN todo' = {} /\ seen' = NoName ELSE todo' = todo \ {t} /\ seen' = t
  /\ UNCHANGED <<platform, server, node, row, page, req, calls, history>>
ProvisionLooks(t) ==
  /\ t \in todo /\ seen = NoName
  /\ todo' = todo \ {t}
  /\ seen' = IF row[t].here THEN NoName ELSE t
  /\ UNCHANGED <<platform, server, node, row, page, req, calls, history>>
ProvisionCreates ==
  /\ seen # NoName /\ ~row[seen].here
  /\ Put(seen, Default)
  /\ seen' = NoName
  /\ UNCHANGED <<platform, server, node, page, req, todo, calls, typed, gone, cut>>
ProvisionFails ==
  /\ seen # NoName /\ row[seen].here
  /\ todo' = {} /\ seen' = NoName /\ cut' = TRUE
  /\ UNCHANGED <<platform, server, node, row, page, req, calls, typed, fresh, gone>>

Provisioned == todo = {} /\ seen = NoName

\* The seed has ended well: the server starts.
Start ==
  /\ server = "seeding" /\ Provisioned /\ ~cut
  /\ server' = "up"
  /\ UNCHANGED <<platform, node, row, page, req, todo, seen, calls, history>>

\* The control plane dies, and is started again by way of the seed, which is
\* for the platform tenant only.
Crash ==
  /\ Call
  /\ req' = [e \in Editors |-> Idle]
  /\ seen' = NoName
  /\ IF platform
     THEN server' = "seeding" /\ todo' = Defaults /\ gone' = {} /\ cut' = FALSE
     ELSE server' = "up" /\ todo' = {} /\ gone' = gone /\ cut' = (cut \/ ~Provisioned)
  /\ UNCHANGED <<platform, node, row, page, typed, fresh>>
-----------------------------------------------------------------------------
(* The edit page: the row with its password masked.  Only the platform      *)
(* tenant is shown the node pickers, and a drained node is disabled in      *)
(* them, so that the form sends neither.                                    *)

Masked(r) == [r EXCEPT !.secret = IF @ = Unset THEN Unset ELSE Mask]
Pickers(r) ==
  [r EXCEPT !.pin = IF platform /\ @ \in Enabled THEN @ ELSE NoNode,
            !.pool = IF platform THEN @ \cap Enabled ELSE {}]
Shown(r) == [Pickers(Masked(r)) EXCEPT !.extra = FALSE]

OpenPage(e, t) ==
  /\ server = "up" /\ row[t].here /\ page[e] = NoPage /\ req[e] = Idle
  /\ page' = [page EXCEPT ![e] = [name |-> t, form |-> Shown(row[t]),
                                  pins |-> Shown(row[t]).pin = row[t].pin /\ Shown(row[t]).pool = row[t].pool]]
  /\ fresh' = fresh \cup {e}
  /\ UNCHANGED <<platform, server, node, row, req, todo, seen, calls, typed, gone, cut>>
ClosePage(e) ==
  /\ page[e] # NoPage /\ req[e] = Idle
  /\ page' = [page EXCEPT ![e] = NoPage]
  /\ fresh' = fresh \ {e}
  /\ UNCHANGED <<platform, server, node, row, req, todo, seen, calls, typed, gone, cut>>

Arrives(e, op, t, pc, parts, body, quiet) ==
  req' = [req EXCEPT ![e] = [Idle EXCEPT !.op = op, !.pc = pc, !.name = t, !.parts = parts,
                                         !.body = body, !.quiet = quiet]]
Types(t, body) == typed' = IF t # NoName /\ body.secret > 0
                           THEN [typed EXCEPT ![t] = @ \cup {body.secret}] ELSE typed

\* What a person can change in a form, or a client in the part it sends: a
\* client that sends back what it got sends the mask.
NewVersion == calls + 1
Parts == {"desc", "spec", "pin", "pool"}
Edits(r, part) ==
  CASE part = "spec" -> {[r EXCEPT !.ver = NewVersion, !.ragged = b] : b \in BOOLEAN}
                          \cup {[r EXCEPT !.secret = s] : s \in {NewVersion, Unset, Mask}}
    [] part = "pin" -> {[r EXCEPT !.pin = n] : n \in Known}
    [] part = "pool" -> {[r EXCEPT !.pool = {n}] : n \in Known}
    [] part = "desc" -> {[r EXCEPT !.desc = TRUE]}

\* The form's text is split into lines and words and trimmed: ragged text
\* comes out as something else, which may be ragged again.
Read(form) ==
  IF form.ragged THEN {[form EXCEPT !.ver = NewVersion, !.ragged = b] : b \in BOOLEAN} ELSE {form}

\* Saving sends every part.  A form without a description sends null, which
\* the schema refuses.
Save(e) ==
  /\ server = "up" /\ page[e] # NoPage /\ req[e] = Idle /\ Call
  /\ \E form \in {page[e].form} \cup UNION {Edits(page[e].form, part) : part \in Parts} :
       \E body \in Read(form) :
         /\ platform \/ (body.pin = NoNode /\ body.pool = {})
         /\ IF body.desc
            THEN Arrives(e, "patch", page[e].name, "find", Parts, body, form = page[e].form)
            ELSE UNCHANGED req
         /\ Types(page[e].name, body)
  /\ UNCHANGED <<platform, server, node, row, page, todo, seen, fresh, gone, cut>>

\* A client of the API sends the parts it wants to change of a row it knows.
PatchSome(e, t) ==
  /\ server = "up" /\ row[t].here /\ page[e] = NoPage /\ req[e] = Idle /\ Call
  /\ \E part \in Parts : \E body \in Edits(NoRow, part) :
       /\ Arrives(e, "patch", t, "find", {part}, body, FALSE)
       /\ Types(t, body)
  /\ UNCHANGED <<platform, server, node, row, page, todo, seen, fresh, gone, cut>>

\* The row is read, and 404 when it is not there.
Find(e) ==
  /\ req[e].pc = "find"
  /\ IF Stored(req[e].name)
     THEN req' = [req EXCEPT ![e].pc = "check", ![e].old = row[req[e].name]]
     ELSE Answer(e)
  /\ UNCHANGED <<platform, server, node, row, page, todo, seen, calls, history>>

\* Unknown ids in the pool are refused; unknown pins by the foreign key.
Check(e) ==
  /\ req[e].pc = "check"
  /\ IF "pool" \in req[e].parts /\ ~(req[e].body.pool \subseteq Known)
     THEN Answer(e) ELSE req' = [req EXCEPT ![e].pc = "write"]
  /\ UNCHANGED <<platform, server, node, row, page, todo, seen, calls, history>>

\* Slip: the mask is stored.
MergedMask(q) ==
  LET Part(p, new, old) == IF p \in q.parts THEN new ELSE old
  IN [here |-> TRUE, desc |-> Part("desc", q.body.desc, q.old.desc),
      ver |-> Part("spec", q.body.ver, q.old.ver), ragged |-> Part("spec", q.body.ragged, q.old.ragged),
      secret |-> Part("spec", q.body.secret, q.old.secret), extra |-> Part("spec", q.body.extra, q.old.extra),
      pin |-> Part("pin", q.body.pin, q.old.pin), pool |-> Part("pool", q.body.pool, q.old.pool)]
\* Slip: a masked password is taken for none.
MergedUnset(q) ==
  LET Part(p, new, old) == IF p \in q.parts THEN new ELSE old
      secret == IF q.body.secret = Mask THEN Unset ELSE q.body.secret
  IN [here |-> TRUE, desc |-> Part("desc", q.body.desc, q.old.desc),
      ver |-> Part("spec", q.body.ver, q.old.ver), ragged |-> Part("spec", q.body.ragged, q.old.ragged),
      secret |-> Part("spec", secret, q.old.secret), extra |-> Part("spec", q.body.extra, q.old.extra),
      pin |-> Part("pin", q.body.pin, q.old.pin), pool |-> Part("pool", q.body.pool, q.old.pool)]
\* A part that was not sent is written as it was read; a masked password is
\* replaced by the one that was read.
Merged(q) ==
  LET Part(p, new, old) == IF p \in q.parts THEN new ELSE old
      secret == IF q.body.secret = Mask THEN q.old.secret ELSE q.body.secret
  IN [here |-> TRUE, desc |-> Part("desc", q.body.desc, q.old.desc),
      ver |-> Part("spec", q.body.ver, q.old.ver), ragged |-> Part("spec", q.body.ragged, q.old.ragged),
      secret |-> Part("spec", secret, q.old.secret), extra |-> Part("spec", q.body.extra, q.old.extra),
      pin |-> Part("pin", q.body.pin, q.old.pin), pool |-> Part("pool", q.body.pool, q.old.pool)]
Accepts(pin) == pin \in Known \cup {NoNode}
Update(e) ==
  /\ req[e].pc = "write" /\ req[e].op = "patch"
  /\ LET q == req[e] IN
       IF Stored(q.name) /\ Accepts(Merged(q).pin)
       THEN Put(q.name, Merged(q)) ELSE UNCHANGED <<row, fresh>>
  /\ Answer(e)
  /\ page' = [page EXCEPT ![e] = NoPage]
  /\ UNCHANGED <<platform, server, node, todo, seen, calls, typed, gone, cut>>

\* POST: by the new page, without extra fields, or by a client, which may
\* send a copy of a template it got, mask and all.
NewRows == {[NoRow EXCEPT !.here = TRUE, !.desc = TRUE]}
             \cup {[NoRow EXCEPT !.here = TRUE, !.extra = TRUE, !.secret = s, !.ragged = s = Mask] :
                      s \in {NewVersion, Mask}}
             \cup {[NoRow EXCEPT !.here = TRUE, !.pin = n, !.pool = {n}] : n \in Known}
Create(e, t) ==
  /\ server = "up" /\ page[e] = NoPage /\ req[e] = Idle /\ Call
  /\ \E r \in NewRows : Arrives(e, "create", t, "check", Parts, r, FALSE)
  /\ UNCHANGED <<platform, server, node, row, page, todo, seen, typed, fresh, gone, cut>>
\* The password is stored as it was sent.
Insert(e) ==
  /\ req[e].pc = "write" /\ req[e].op = "create"
  /\ LET q == req[e] IN
       IF ~row[q.name].here /\ Accepts(q.body.pin)
       THEN Put(q.name, q.body) /\ typed' = [typed EXCEPT ![q.name] = {q.body.secret}]
       ELSE UNCHANGED <<row, fresh, typed>>
  /\ Answer(e)
  /\ UNCHANGED <<platform, server, node, page, todo, seen, calls, gone, cut>>

\* Pages and patches go by the row's id, which no later row of the name has.
Delete(t) ==
  /\ server = "up" /\ row[t].here /\ Call
  /\ Put(t, NoRow)
  /\ gone' = gone \cup {t} /\ typed' = [typed EXCEPT ![t] = {}]
  /\ page' = [e \in Editors |-> IF page[e].name = t THEN [page[e] EXCEPT !.name = NoName] ELSE page[e]]
  /\ req' = [e \in Editors |-> IF req[e].op = "patch" /\ req[e].name = t
                              THEN [req[e] EXCEPT !.name = NoName] ELSE req[e]]
  /\ UNCHANGED <<platform, server, node, todo, seen, cut>>
-----------------------------------------------------------------------------
(* Nodes, by the platform administrator.  The foreign key of a deleted node *)
(* is set to null; the pools keep its id.                                   *)

SetNode(n, status) ==
  /\ server = "up" /\ node[n] # "deleted" /\ node[n] # status /\ Call
  /\ node' = [node EXCEPT ![n] = status]
  /\ fresh' = {}
DeleteNode(n) ==
  /\ SetNode(n, "deleted")
  /\ row' = [t \in Names |-> IF row[t].pin = n THEN [row[t] EXCEPT !.pin = NoNode] ELSE row[t]]
  /\ UNCHANGED <<platform, server, page, req, todo, seen, typed, gone, cut>>
ToggleNode(n) ==
  /\ \E status \in {"enabled", "drained"} : SetNode(n, status)
  /\ UNCHANGED <<platform, server, row, page, req, todo, seen, typed, gone, cut>>

Provision == (\E t \in Names : ProvisionLooks(t)) \/ ProvisionCreates \/ ProvisionFails
Request(e) == Find(e) \/ Check(e) \/ Update(e) \/ Insert(e)
Next ==
  \/ Provision \/ Start \/ Crash
  \/ \E e \in Editors : ClosePage(e) \/ Save(e) \/ Request(e)
  \/ \E e \in Editors, t \in Names : OpenPage(e, t) \/ PatchSome(e, t) \/ Create(e, t)
  \/ \E t \in Names : Delete(t)
  \/ \E n \in Nodes : DeleteNode(n) \/ ToggleNode(n)

Spec == Init /\ [][Next]_vars
-----------------------------------------------------------------------------
(* Properties.                                                             *)

Row == [here : BOOLEAN, desc : BOOLEAN, ver : 0 .. MaxCalls, ragged : BOOLEAN,
        secret : {Mask} \cup (0 .. MaxCalls), extra : BOOLEAN, pin : Nodes \cup {NoNode}, pool : SUBSET Nodes]

\* Types; a name that is looked up is not to be looked up again.
TypeOK ==
  /\ platform \in BOOLEAN /\ server \in {"seeding", "up"}
  /\ node \in [Nodes -> {"enabled", "drained", "deleted"}]
  /\ row \in [Names -> Row]
  /\ page \in [Editors -> [name : Names \cup {NoName}, form : Row, pins : BOOLEAN]]
  /\ req \in [Editors -> [op : {"none", "patch", "create"}, pc : {"idle", "find", "check", "write"},
                          name : Names \cup {NoName}, parts : SUBSET Parts, body : Row, old : Row,
                          quiet : BOOLEAN]]
  /\ todo \subseteq Defaults /\ seen \in Defaults \cup {NoName} /\ seen \notin todo
  /\ calls \in 0 .. MaxCalls
  /\ typed \in [Names -> SUBSET ({Mask} \cup (0 .. MaxCalls))]
  /\ fresh \subseteq Editors /\ gone \subseteq Names /\ cut \in BOOLEAN

\* The password a lab is started with is one that somebody entered for this
\* very row, or none, however pages and requests overlap with its removal and
\* with a new template of the name.  The mask of a page, or of a client that
\* sends back what it got, becomes nobody's password (templates.ts:135-147):
\* only a row that was posted with the mask has it (templates.ts:100-105).
SecretIsTyped == \A t \in Names : row[t].secret \in {Unset} \cup typed[t]

\* A page that is saved as it was shown keeps the password, the description
\* and, unless it was ragged, all the text it shows, as long as nobody else
\* changed the row or a node since: the form, the masked password and the
\* merge make a round trip (edit/page.tsx:86-90, 169-173).  Left out are the
\* fields that the form does not carry, which are reset, and pins that the
\* pickers did not offer.
Quiet(e) == req[e].quiet /\ e \in fresh /\ req[e].pc = "write"
QuietSaveKeepsRow ==
  [][\A e \in Editors : Quiet(e) /\ Update(e) =>
       LET t == req[e].name IN
         /\ row'[t].here /\ row'[t].desc = row[t].desc
         /\ row'[t].secret = row[t].secret
         /\ row[t].ragged \/ (row'[t].ver = row[t].ver /\ ~row'[t].ragged)
         /\ page[e].pins => row'[t].pin = row[t].pin /\ row'[t].pool = row[t].pool]_vars

\* Once provisioned, a tenant has every default template that nobody deleted
\* since; for the platform tenant this holds whenever the server is up.
\* A client tenant's provision may be cut off for good.
CatalogIsComplete ==
  /\ Provisioned /\ ~cut => Defaults \subseteq {t \in Names : row[t].here} \cup gone
  /\ platform /\ server = "up" => ~cut

\* Labs are pinned to nodes that exist, whatever deletes a node between the
\* steps of a save (schema.prisma:50).
PinExists == \A t \in Names : row[t].here => Accepts(row[t].pin)
=============================================================================
