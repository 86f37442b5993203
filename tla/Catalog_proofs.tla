---------------------------- MODULE Catalog_proofs ----------------------------
(***************************************************************************)
(* Proofs about Catalog: types, and three invariants that hold for any     *)
(* number of editors, templates and nodes, each by an induction of its own.*)
(***************************************************************************)
EXTENDS Catalog, TLAPS

-----------------------------------------------------------------------------
(* Type correctness *)

\* The empty row, a new one and a default one are rows.
LEMMA RowTypes ==
  /\ NoRow \in Row /\ Default \in Row
  /\ Idle.body \in Row /\ Idle.old \in Row
  /\ \A r \in Row : Masked(r) \in Row /\ Pickers(r) \in Row /\ Shown(r) \in Row
<1>1. NoRow \in Row
  BY MaxCallsAssumption DEF NoRow, Row, Unset, NoNode
<1>2. Default \in Row
  BY <1>1 DEF Default, Row
<1>3. \A r \in Row : Masked(r) \in Row
  BY MaxCallsAssumption DEF Masked, Row, Unset, Mask
<1>4. \A r \in Row : Pickers(r) \in Row
  BY DEF Pickers, Row
<1>5. \A r \in Row : Shown(r) \in Row
  <2>1. \A r \in Row : [r EXCEPT !.extra = FALSE] \in Row
    BY DEF Row
  <2> QED BY <1>3, <1>4, <2>1 DEF Shown
<1> QED BY <1>1, <1>2, <1>3, <1>4, <1>5 DEF Idle

\* What a person or a client enters is a row.
LEMMA EditTypes ==
  ASSUME TypeOK, Call, NEW r \in Row, NEW part \in Parts, NEW body \in Edits(r, part)
  PROVE  body \in Row
<1>1. NewVersion \in 0 .. MaxCalls
  BY MaxCallsAssumption DEF TypeOK, Call, NewVersion
<1>2. CASE part = "spec"
  <2>1. Edits(r, part) = {[r EXCEPT !.ver = NewVersion, !.ragged = b] : b \in BOOLEAN}
                           \cup {[r EXCEPT !.secret = s] : s \in {NewVersion, Unset, Mask}}
    BY <1>2 DEF Edits
  <2>2. \A b \in BOOLEAN : [r EXCEPT !.ver = NewVersion, !.ragged = b] \in Row
    BY <1>1 DEF Row
  <2>3. \A s \in {NewVersion, Unset, Mask} : [r EXCEPT !.secret = s] \in Row
    BY <1>1, MaxCallsAssumption DEF Row, Unset
  <2> QED BY <2>1, <2>2, <2>3
<1>3. CASE part = "pin"
  <2>1. Edits(r, part) = {[r EXCEPT !.pin = n] : n \in Known}
    BY <1>3 DEF Edits
  <2> QED BY <2>1 DEF Row, Known
<1>4. CASE part = "pool"
  <2>1. Edits(r, part) = {[r EXCEPT !.pool = {n}] : n \in Known}
    BY <1>4 DEF Edits
  <2> QED BY <2>1 DEF Row, Known
<1>5. CASE part = "desc"
  <2>1. Edits(r, part) = {[r EXCEPT !.desc = TRUE]}
    BY <1>5 DEF Edits
  <2> QED BY <2>1 DEF Row
<1> QED BY <1>2, <1>3, <1>4, <1>5 DEF Parts

\* So is what is read from a form: a fresh version, or the form itself.
LEMMA ReadTypes ==
  ASSUME TypeOK, Call, NEW form \in Row, NEW body \in Read(form)
  PROVE  /\ body \in Row /\ body.here = form.here
         /\ body.secret = form.secret /\ body.desc = form.desc
         /\ body.pin = form.pin /\ body.pool = form.pool
         /\ form.ragged \/ body = form
<1>1. NewVersion \in 0 .. MaxCalls
  BY MaxCallsAssumption DEF TypeOK, Call, NewVersion
<1>2. CASE form.ragged
  <2>1. PICK b \in BOOLEAN : body = [form EXCEPT !.ver = NewVersion, !.ragged = b]
    BY <1>2 DEF Read
  <2> QED BY <1>1, <1>2, <2>1 DEF Row
<1>3. CASE ~form.ragged
  BY <1>3 DEF Read
<1> QED BY <1>2, <1>3

LEMMA NewRowTypes ==
  ASSUME TypeOK, Call, NEW r \in NewRows
  PROVE  r \in Row
<1>1. NewVersion \in 0 .. MaxCalls
  BY MaxCallsAssumption DEF TypeOK, Call, NewVersion
<1>2. /\ [NoRow EXCEPT !.here = TRUE, !.desc = TRUE] \in Row
      /\ \A s \in {NewVersion, Mask} :
           [NoRow EXCEPT !.here = TRUE, !.extra = TRUE, !.secret = s, !.ragged = s = Mask] \in Row
      /\ \A n \in Nodes : [NoRow EXCEPT !.here = TRUE, !.pin = n, !.pool = {n}] \in Row
  <2>1. \A s \in {NewVersion, Mask} : \A b \in BOOLEAN :
          [NoRow EXCEPT !.here = TRUE, !.extra = TRUE, !.secret = s, !.ragged = b] \in Row
    BY <1>1, RowTypes DEF Row
  <2>2. \A s : (s = Mask) \in BOOLEAN
    OBVIOUS
  <2>3. /\ [NoRow EXCEPT !.here = TRUE, !.desc = TRUE] \in Row
        /\ \A n \in Nodes : [NoRow EXCEPT !.here = TRUE, !.pin = n, !.pool = {n}] \in Row
    BY RowTypes DEF Row
  <2> QED BY <2>1, <2>2, <2>3, Zenon
<1> HIDE DEF NewVersion
<1> QED BY <1>2 DEF NewRows, Known

\* The types of requests.
Requests ==
  [op : {"none", "patch", "create"}, pc : {"idle", "find", "check", "write"},
   name : Names \cup {NoName}, parts : SUBSET Parts, body : Row, old : Row, quiet : BOOLEAN]

LEMMA MergedTypes ==
  ASSUME NEW q \in Requests
  PROVE  Merged(q) \in Row
<1>1. /\ q.body \in Row /\ q.old \in Row
  BY DEF Requests
<1>2. (IF q.body.secret = Mask THEN q.old.secret ELSE q.body.secret) \in {Mask} \cup (0 .. MaxCalls)
  BY <1>1 DEF Row
<1> QED BY <1>1, <1>2 DEF Merged, Row

\* A request that starts, or ends, has its type.
LEMMA ArrivesTypes ==
  ASSUME TypeOK, NEW e \in Editors, NEW op \in {"patch", "create"},
         NEW t \in Names \cup {NoName}, NEW pc \in {"find", "check"},
         NEW parts \in SUBSET Parts, NEW body \in Row, NEW quiet \in BOOLEAN,
         Arrives(e, op, t, pc, parts, body, quiet)
  PROVE  /\ req' \in [Editors -> Requests]
         /\ req'[e].op = op /\ req'[e].pc = pc /\ req'[e].name = t
         /\ req'[e].parts = parts /\ req'[e].body = body /\ req'[e].quiet = quiet
         /\ \A f \in Editors \ {e} : req'[f] = req[f]
<1>1. req \in [Editors -> Requests]
  BY DEF TypeOK, Requests
<1>2. Idle \in Requests
  BY RowTypes DEF Idle, Requests
<1> QED BY <1>1, <1>2 DEF Arrives, Requests

LEMMA AnswerTypes ==
  ASSUME TypeOK, NEW e \in Editors, Answer(e)
  PROVE  /\ req' \in [Editors -> Requests]
         /\ req'[e] = Idle
         /\ \A f \in Editors \ {e} : req'[f] = req[f]
<1>1. req \in [Editors -> Requests]
  BY DEF TypeOK, Requests
<1>2. Idle \in Requests
  BY RowTypes DEF Idle, Requests
<1> QED BY <1>1, <1>2 DEF Answer

\* A password that is entered has its type, and nothing is forgotten.
LEMMA TypesTypes ==
  ASSUME TypeOK, NEW t \in Names \cup {NoName}, NEW body \in Row, Types(t, body)
  PROVE  /\ typed' \in [Names -> SUBSET ({Mask} \cup (0 .. MaxCalls))]
         /\ \A n \in Names : typed[n] \subseteq typed'[n]
         /\ t \in Names /\ body.secret > 0 => body.secret \in typed'[t]
<1>1. typed \in [Names -> SUBSET ({Mask} \cup (0 .. MaxCalls))]
  BY DEF TypeOK
<1>2. body.secret > 0 => body.secret \in 0 .. MaxCalls
  BY MaxCallsAssumption DEF Row, Mask
<1>3. CASE t # NoName /\ body.secret > 0
  BY <1>1, <1>2, <1>3 DEF Types
<1>4. CASE ~(t # NoName /\ body.secret > 0)
  BY <1>1, <1>4, NamesAssumption DEF Types, NoName
<1> QED BY <1>3, <1>4

LEMMA TypeInit == Init => TypeOK
<1> SUFFICES ASSUME Init PROVE TypeOK OBVIOUS
<1>1. NoRow \in Row /\ Idle \in Requests
  BY RowTypes DEF Idle, Requests
<1>2. NoName \notin Defaults
  BY DefaultsAssumption, NamesAssumption DEF NoName
<1>3. platform \in BOOLEAN /\ server \in {"seeding", "up"}
  BY Zenon DEF Init
<1>4. page \in [Editors -> [name : Names \cup {NoName}, form : Row, pins : BOOLEAN]]
  BY <1>1 DEF Init, NoPage
<1>5. row \in [Names -> Row] /\ req \in [Editors -> Requests]
  BY <1>1 DEF Init
<1>6. typed \in [Names -> SUBSET ({Mask} \cup (0 .. MaxCalls))] /\ calls \in 0 .. MaxCalls
  BY MaxCallsAssumption DEF Init
<1> QED BY <1>2, <1>3, <1>4, <1>5, <1>6 DEF Init, TypeOK, Requests

\* Every step is one of these.
Steps ==
  \/ \E t \in Names : ProvisionLooks(t) \/ Delete(t)
  \/ ProvisionCreates \/ ProvisionFails \/ Start \/ Crash
  \/ \E e \in Editors : \/ ClosePage(e) \/ Save(e) \/ Find(e) \/ Check(e) \/ Update(e) \/ Insert(e)
                        \/ \E t \in Names : OpenPage(e, t) \/ PatchSome(e, t) \/ Create(e, t)
  \/ \E n \in Nodes : DeleteNode(n) \/ ToggleNode(n)
LEMMA StepKinds == Next => Steps
BY Zenon DEF Next, Provision, Request, Steps

LEMMA TypeStep == TypeOK /\ [Next]_vars => TypeOK'
<1> SUFFICES ASSUME TypeOK, [Next]_vars PROVE TypeOK' OBVIOUS
<1> USE MaxCallsAssumption
<1>r. req \in [Editors -> Requests]
  BY DEF TypeOK, Requests
<1>c. Call => calls' \in 0 .. MaxCalls
  BY DEF TypeOK, Call
<1>1. ASSUME NEW t \in Names, ProvisionLooks(t) PROVE TypeOK'
  BY <1>1 DEF ProvisionLooks, TypeOK, history
<1>2. ASSUME NEW t \in Names, Delete(t) PROVE TypeOK'
  <2>1. row' \in [Names -> Row] /\ fresh' \subseteq Editors
    BY <1>2, RowTypes DEF Delete, Put, TypeOK
  <2>2. page' \in [Editors -> [name : Names \cup {NoName}, form : Row, pins : BOOLEAN]]
    <3> DEFINE Page == [name : Names \cup {NoName}, form : Row, pins : BOOLEAN]
    <3>1. ASSUME NEW e \in Editors PROVE page[e] \in Page /\ [page[e] EXCEPT !.name = NoName] \in Page
      <4>1. page[e] \in Page
        BY DEF TypeOK
      <4> QED BY <4>1
    <3> HIDE DEF Page
    <3>2. page' = [e \in Editors |-> IF page[e].name = t THEN [page[e] EXCEPT !.name = NoName] ELSE page[e]]
      BY <1>2 DEF Delete
    <3>3. page' \in [Editors -> Page]
      BY <3>1, <3>2
    <3> QED BY <3>3 DEF Page
  <2>3. req' \in [Editors -> Requests]
    BY <1>2, <1>r DEF Delete, Requests
  <2>4. typed' \in [Names -> SUBSET ({Mask} \cup (0 .. MaxCalls))]
    BY <1>2 DEF Delete, TypeOK
  <2> QED BY <1>2, <1>c, <2>1, <2>2, <2>3, <2>4 DEF Delete, TypeOK, Requests
<1>3. CASE ProvisionCreates
  BY <1>3, RowTypes, DefaultsAssumption, NamesAssumption DEF ProvisionCreates, Put, TypeOK, NoName
<1>4. CASE ProvisionFails
  BY <1>4 DEF ProvisionFails, TypeOK
<1>5. CASE Start
  BY <1>5 DEF Start, TypeOK, history
<1>6. CASE Crash
  <2>1. req' \in [Editors -> Requests]
    BY <1>6, RowTypes DEF Crash, Idle, Requests
  <2> QED BY <1>6, <1>c, <2>1, NamesAssumption, DefaultsAssumption
          DEF Crash, TypeOK, Requests, NoName
<1>7. ASSUME NEW e \in Editors, ClosePage(e) PROVE TypeOK'
  BY <1>7, RowTypes DEF ClosePage, TypeOK, NoPage
<1>8. ASSUME NEW e \in Editors, Save(e) PROVE TypeOK'
  <2>0. PICK form \in {page[e].form} \cup UNION {Edits(page[e].form, part) : part \in Parts} :
          \E body \in Read(form) :
            /\ IF body.desc
               THEN Arrives(e, "patch", page[e].name, "find", Parts, body, form = page[e].form)
               ELSE UNCHANGED req
            /\ Types(page[e].name, body)
    BY <1>8, Zenon DEF Save
  <2>1. PICK body \in Read(form) :
          /\ IF body.desc
             THEN Arrives(e, "patch", page[e].name, "find", Parts, body, form = page[e].form)
             ELSE UNCHANGED req
          /\ Types(page[e].name, body)
    BY <2>0
  <2>2. page[e].form \in Row /\ page[e].name \in Names \cup {NoName}
    BY DEF TypeOK
  <2>3. body \in Row
    <3>1. form \in Row
      BY <1>8, <2>0, <2>2, EditTypes DEF Save
    <3> QED BY <1>8, <2>1, <3>1, ReadTypes DEF Save
  <2>4. req' \in [Editors -> Requests]
    <3> DEFINE same == form = page[e].form
    <3>1. same \in BOOLEAN OBVIOUS
    <3>2. CASE body.desc
      <4>1. Arrives(e, "patch", page[e].name, "find", Parts, body, same)
        BY <2>1, <3>2
      <4> HIDE DEF same
      <4> QED BY <2>2, <2>3, <3>1, <4>1, ArrivesTypes
    <3>3. CASE ~body.desc
      BY <2>1, <3>3, <1>r
    <3> QED BY <3>2, <3>3
  <2>5. typed' \in [Names -> SUBSET ({Mask} \cup (0 .. MaxCalls))]
    BY <2>1, <2>2, <2>3, TypesTypes
  <2> QED BY <1>8, <1>c, <2>4, <2>5 DEF Save, TypeOK, Requests
<1>9. ASSUME NEW e \in Editors, Find(e) PROVE TypeOK'
  <2>1. req' \in [Editors -> Requests]
    <3>1. CASE Stored(req[e].name)
      <4>1. row[req[e].name] \in Row
        BY <3>1, <1>r DEF TypeOK, Stored, Requests
      <4> QED BY <1>9, <1>r, <3>1, <4>1 DEF Find, Requests
    <3>2. CASE ~Stored(req[e].name)
      BY <1>9, <3>2, AnswerTypes DEF Find
    <3> QED BY <3>1, <3>2
  <2> QED BY <1>9, <2>1 DEF Find, TypeOK, history, Requests
<1>10. ASSUME NEW e \in Editors, Check(e) PROVE TypeOK'
  <2>1. req' \in [Editors -> Requests]
    BY <1>10, <1>r, AnswerTypes DEF Check, Requests
  <2> QED BY <1>10, <2>1 DEF Check, TypeOK, history, Requests
<1>11. ASSUME NEW e \in Editors, Update(e) PROVE TypeOK'
  <2>1. req' \in [Editors -> Requests]
    BY <1>11, AnswerTypes DEF Update
  <2>2. row' \in [Names -> Row] /\ fresh' \subseteq Editors
    <3>1. Merged(req[e]) \in Row
      BY <1>r, MergedTypes
    <3> QED BY <1>11, <3>1 DEF Update, Put, TypeOK
  <2>3. page' \in [Editors -> [name : Names \cup {NoName}, form : Row, pins : BOOLEAN]]
    BY <1>11, RowTypes DEF Update, TypeOK, NoPage
  <2> QED BY <1>11, <2>1, <2>2, <2>3 DEF Update, TypeOK, Requests
<1>12. ASSUME NEW e \in Editors, Insert(e) PROVE TypeOK'
  <2>1. req' \in [Editors -> Requests]
    BY <1>12, AnswerTypes DEF Insert
  <2>2. row' \in [Names -> Row] /\ fresh' \subseteq Editors
    <3>1. req[e].body \in Row
      BY <1>r DEF Requests
    <3> QED BY <1>12, <3>1 DEF Insert, Put, TypeOK
  <2>3. typed' \in [Names -> SUBSET ({Mask} \cup (0 .. MaxCalls))]
    <3>1. req[e].body.secret \in {Mask} \cup (0 .. MaxCalls)
      BY <1>r DEF Requests, Row
    <3> QED BY <1>12, <3>1 DEF Insert, TypeOK
  <2> QED BY <1>12, <2>1, <2>2, <2>3 DEF Insert, TypeOK, Requests
<1>13. ASSUME NEW e \in Editors, NEW t \in Names, OpenPage(e, t) PROVE TypeOK'
  BY <1>13, RowTypes DEF OpenPage, TypeOK
<1>14. ASSUME NEW e \in Editors, NEW t \in Names, PatchSome(e, t) PROVE TypeOK'
  <2>1. PICK part \in Parts : \E body \in Edits(NoRow, part) :
          Arrives(e, "patch", t, "find", {part}, body, FALSE) /\ Types(t, body)
    BY <1>14, Zenon DEF PatchSome
  <2>2. PICK body \in Edits(NoRow, part) :
          Arrives(e, "patch", t, "find", {part}, body, FALSE) /\ Types(t, body)
    BY <2>1
  <2>3. body \in Row
    BY <1>14, <2>2, RowTypes, EditTypes DEF PatchSome
  <2>4. req' \in [Editors -> Requests]
    BY <2>2, <2>3, ArrivesTypes
  <2>5. typed' \in [Names -> SUBSET ({Mask} \cup (0 .. MaxCalls))]
    BY <2>2, <2>3, TypesTypes
  <2> QED BY <1>14, <1>c, <2>4, <2>5 DEF PatchSome, TypeOK, Requests
<1>15. ASSUME NEW e \in Editors, NEW t \in Names, Create(e, t) PROVE TypeOK'
  <2>1. PICK r \in NewRows : Arrives(e, "create", t, "check", Parts, r, FALSE)
    BY <1>15, Zenon DEF Create
  <2>2. r \in Row
    BY <1>15, <2>1, NewRowTypes DEF Create
  <2>3. req' \in [Editors -> Requests]
    BY <2>1, <2>2, ArrivesTypes
  <2> QED BY <1>15, <1>c, <2>3 DEF Create, TypeOK, Requests
<1>16. ASSUME NEW n \in Nodes, DeleteNode(n) PROVE TypeOK'
  <2>1. row' \in [Names -> Row]
    <3>1. \A r \in Row : [r EXCEPT !.pin = NoNode] \in Row
      BY DEF Row
    <3>2. row \in [Names -> Row]
      BY DEF TypeOK
    <3> QED BY <1>16, <3>1, <3>2 DEF DeleteNode
  <2> QED BY <1>16, <1>c, <2>1 DEF DeleteNode, SetNode, TypeOK
<1>17. ASSUME NEW n \in Nodes, ToggleNode(n) PROVE TypeOK'
  BY <1>17, <1>c DEF ToggleNode, SetNode, TypeOK
<1>18. CASE UNCHANGED vars
  BY <1>18 DEF vars, history, TypeOK
<1> QED BY <1>1, <1>2, <1>3, <1>4, <1>5, <1>6, <1>7, <1>8, <1>9, <1>10, <1>11, <1>12, <1>13,
           <1>14, <1>15, <1>16, <1>17, <1>18, StepKinds DEF Steps

\* The variables have their types, however many templates and editors.
THEOREM TypeCorrect == Spec => []TypeOK
BY TypeInit, TypeStep, PTL DEF Spec

-----------------------------------------------------------------------------
(* Labs are pinned to nodes that exist *)

LEMMA PinInit == Init => PinExists
BY DEF Init, PinExists, NoRow

\* A row that is written has a pin that was accepted.
LEMMA PutPin ==
  ASSUME TypeOK, PinExists, UNCHANGED node, NEW t \in Names, NEW r \in Row, Put(t, r),
         Accepts(r.pin)
  PROVE  PinExists'
BY DEF TypeOK, PinExists, Put, Accepts, Known

LEMMA PinStep == TypeOK /\ PinExists /\ [Next]_vars => PinExists'
<1> SUFFICES ASSUME TypeOK, PinExists, [Next]_vars PROVE PinExists' OBVIOUS
<1>1. CASE UNCHANGED <<node, row>>
  BY <1>1 DEF PinExists, Accepts, Known
<1>2. ASSUME NEW t \in Names, Delete(t) PROVE PinExists'
  BY <1>2, RowTypes, PutPin DEF Delete, NoRow, Accepts
<1>3. CASE ProvisionCreates
  <2>1. seen \in Names
    BY <1>3, DefaultsAssumption DEF ProvisionCreates, TypeOK
  <2> QED BY <1>3, <2>1, RowTypes, PutPin DEF ProvisionCreates, Default, NoRow, Accepts
<1>4. ASSUME NEW e \in Editors, Update(e) PROVE PinExists'
  <2>1. CASE Stored(req[e].name) /\ Accepts(Merged(req[e]).pin)
    <3>1. req[e] \in Requests
      BY DEF TypeOK, Requests
    <3>2. Merged(req[e]) \in Row /\ req[e].name \in Names
      BY <2>1, <3>1, MergedTypes DEF Stored, Requests
    <3> QED BY <1>4, <2>1, <3>2, PutPin DEF Update
  <2>2. CASE ~(Stored(req[e].name) /\ Accepts(Merged(req[e]).pin))
    BY <1>4, <2>2, <1>1 DEF Update
  <2> QED BY <2>1, <2>2
<1>5. ASSUME NEW e \in Editors, Insert(e) PROVE PinExists'
  <2>1. req[e] \in Requests
    BY DEF TypeOK, Requests
  <2>2. CASE ~row[req[e].name].here /\ Accepts(req[e].body.pin)
    <3>1. Put(req[e].name, req[e].body) /\ UNCHANGED node
      BY <1>5, <2>2 DEF Insert
    <3>2. CASE req[e].name \in Names
      BY <2>1, <2>2, <3>1, <3>2, PutPin DEF Requests
    <3>3. CASE req[e].name \notin Names
      BY <1>1, <3>1, <3>3 DEF Put, TypeOK
    <3> QED BY <3>2, <3>3
  <2>3. CASE ~(~row[req[e].name].here /\ Accepts(req[e].body.pin))
    BY <1>5, <2>3, <1>1 DEF Insert
  <2> QED BY <2>2, <2>3
<1>6. ASSUME NEW n \in Nodes, DeleteNode(n) PROVE PinExists'
  <2>1. \A t \in Names : row'[t].here = row[t].here
                         /\ row'[t].pin = IF row[t].pin = n THEN NoNode ELSE row[t].pin
    BY <1>6 DEF DeleteNode, TypeOK, Row
  <2>2. Known' = Known \ {n}
    BY <1>6 DEF DeleteNode, SetNode, Known, TypeOK
  <2> QED BY <2>1, <2>2 DEF PinExists, Accepts
<1>7. ASSUME NEW n \in Nodes, ToggleNode(n) PROVE PinExists'
  <2>1. Known' = Known
    BY <1>7 DEF ToggleNode, SetNode, Known, TypeOK
  <2> QED BY <1>7, <2>1 DEF ToggleNode, PinExists, Accepts
<1>8. \/ UNCHANGED <<node, row>>
      \/ \E t \in Names : Delete(t)
      \/ ProvisionCreates
      \/ \E e \in Editors : Update(e) \/ Insert(e)
      \/ \E n \in Nodes : DeleteNode(n) \/ ToggleNode(n)
  BY StepKinds, Zenon DEF Steps, vars, ProvisionLooks, ProvisionFails, Start, Crash, ClosePage, Save, Find,
                   Check, OpenPage, PatchSome, Create
<1> QED BY <1>1, <1>2, <1>3, <1>4, <1>5, <1>6, <1>7, <1>8

\* No order of saves, creates and deletions of nodes leaves a template pinned
\* to a node that is gone.
THEOREM PinsHold == Spec => []PinExists
BY TypeCorrect, PinInit, PinStep, PTL DEF Spec

-----------------------------------------------------------------------------
(* The catalog is complete *)

\* What is left of a provision that was not cut off has been found, created
\* or deleted; a server of the platform tenant is up when nothing is left.
Progress ==
  /\ ~cut => \A t \in Defaults : t \in todo \/ t = seen \/ row[t].here \/ t \in gone
  /\ platform /\ server = "up" => Provisioned /\ ~cut

LEMMA ProgressInit == Init => Progress
BY Zenon DEF Init, Progress

LEMMA ProgressStep == TypeOK /\ Progress /\ [Next]_vars => Progress'
<1> SUFFICES ASSUME TypeOK, Progress, [Next]_vars PROVE Progress' OBVIOUS
<1> USE DEF Progress, Provisioned
<1>n. NoName \notin Defaults
  BY DefaultsAssumption, NamesAssumption DEF NoName
\* Rows that are there stay, and the provision is where it was.
<1>k. ASSUME UNCHANGED <<platform, server, todo, seen, gone, cut>>,
             \A t \in Names : row[t].here => row'[t].here
      PROVE  Progress'
  BY <1>k, DefaultsAssumption
<1>1. ASSUME NEW t \in Names, ProvisionLooks(t) PROVE Progress'
  BY <1>1, <1>n DEF ProvisionLooks, history
<1>2. ASSUME NEW t \in Names, Delete(t) PROVE Progress'
  BY <1>2, DefaultsAssumption DEF Delete, Put, TypeOK
<1>3. CASE ProvisionCreates
  BY <1>3, DefaultsAssumption DEF ProvisionCreates, Put, TypeOK, Default
<1>4. CASE ProvisionFails
  BY <1>4 DEF ProvisionFails
<1>5. CASE Start
  BY <1>5 DEF Start, history
<1>6. CASE Crash
  BY <1>6, <1>n DEF Crash
<1>7. ASSUME NEW e \in Editors, Update(e) PROVE Progress'
  <2>1. \A t \in Names : row[t].here => row'[t].here
    BY <1>7 DEF Update, Put, TypeOK, Merged
  <2> QED BY <1>7, <2>1, <1>k DEF Update
<1>8. ASSUME NEW e \in Editors, Insert(e) PROVE Progress'
  <2>1. \A t \in Names : row[t].here => row'[t].here
    BY <1>8 DEF Insert, Put, TypeOK
  <2> QED BY <1>8, <2>1, <1>k DEF Insert
<1>9. ASSUME NEW n \in Nodes, DeleteNode(n) PROVE Progress'
  <2>1. \A t \in Names : row'[t].here = row[t].here
    BY <1>9 DEF DeleteNode, TypeOK, Row
  <2> QED BY <1>9, <2>1, <1>k DEF DeleteNode, SetNode
<1>10. CASE UNCHANGED <<platform, server, row, todo, seen, gone, cut>>
  BY <1>10, <1>k
<1>e. ASSUME NEW e \in Editors,
             \/ ClosePage(e) \/ Save(e) \/ Find(e) \/ Check(e)
             \/ \E t \in Names : OpenPage(e, t) \/ PatchSome(e, t) \/ Create(e, t)
      PROVE UNCHANGED <<platform, server, row, todo, seen, gone, cut>>
  <2>1. CASE ClosePage(e) \/ Save(e) \/ Find(e) \/ Check(e)
    BY <2>1 DEF ClosePage, Save, Find, Check, history
  <2>2. ASSUME NEW t \in Names, OpenPage(e, t) \/ PatchSome(e, t) \/ Create(e, t)
        PROVE UNCHANGED <<platform, server, row, todo, seen, gone, cut>>
    BY <2>2 DEF OpenPage, PatchSome, Create, history
  <2> QED BY <1>e, <2>1, <2>2
<1>m. ASSUME NEW n \in Nodes, ToggleNode(n) PROVE UNCHANGED <<platform, server, row, todo, seen, gone, cut>>
  BY <1>m DEF ToggleNode
<1>11. \/ UNCHANGED <<platform, server, row, todo, seen, gone, cut>>
       \/ \E t \in Names : ProvisionLooks(t) \/ Delete(t)
       \/ ProvisionCreates \/ ProvisionFails \/ Start \/ Crash
       \/ \E e \in Editors : Update(e) \/ Insert(e)
       \/ \E n \in Nodes : DeleteNode(n)
  <2>1. CASE UNCHANGED vars
    BY <2>1 DEF vars, history
  <2>2. CASE Steps
    BY <2>2, <1>e, <1>m, Zenon DEF Steps
  <2> QED BY <2>1, <2>2, StepKinds
<1> QED BY <1>1, <1>2, <1>3, <1>4, <1>5, <1>6, <1>7, <1>8, <1>9, <1>10, <1>11

\* Crashes and administrators at work included, nothing of the default
\* catalog is left out but by a deletion or a provision that was cut off.
THEOREM CatalogHolds == Spec => []CatalogIsComplete
<1>1. Progress => CatalogIsComplete
  BY DefaultsAssumption, NamesAssumption DEF Progress, CatalogIsComplete, Provisioned, NoName
<1> QED BY <1>1, TypeCorrect, ProgressInit, ProgressStep, PTL DEF Spec

-----------------------------------------------------------------------------
(* Passwords *)

\* A page shows a mask, or nothing, and its row is there or gone for good.
PagesAreMasked ==
  \A e \in Editors :
    /\ page[e].form.secret \in {Unset, Mask}
    /\ page[e].name # NoName => row[page[e].name].here

\* A patch of a row that is there carries a password that was entered for it,
\* or a mask for the one it read.
RequestsAreTyped ==
  \A e \in Editors :
    LET q == req[e] IN
      q.op = "patch" /\ q.name # NoName =>
        /\ row[q.name].here
        /\ q.body.secret \in {Unset, Mask} \cup typed[q.name]
        /\ q.pc \in {"check", "write"} => q.old.secret \in {Unset} \cup typed[q.name]

Secrets == SecretIsTyped /\ PagesAreMasked /\ RequestsAreTyped

LEMMA SecretsInit == Init => Secrets
BY DEF Init, Secrets, SecretIsTyped, PagesAreMasked, RequestsAreTyped, NoRow, NoPage, Idle, NoName

\* What is entered is entered for good, and the rest is as it was.
LEMMA TypedGrows ==
  ASSUME TypeOK, Secrets, typed' \in [Names -> SUBSET ({Mask} \cup (0 .. MaxCalls))],
         \A t \in Names : typed[t] \subseteq typed'[t],
         row' = row
  PROVE  /\ SecretIsTyped'
         /\ UNCHANGED page => PagesAreMasked'
         /\ UNCHANGED req => RequestsAreTyped'
         /\ \A e \in Editors :
              (/\ \A f \in Editors \ {e} : req'[f] = req[f]
               /\ LET q == req'[e] IN
                    q.op = "patch" /\ q.name # NoName =>
                      /\ row[q.name].here
                      /\ q.body.secret \in {Unset, Mask} \cup typed'[q.name]
                      /\ q.pc \in {"check", "write"} => q.old.secret \in {Unset} \cup typed'[q.name])
              => RequestsAreTyped'
<1>1. \A e \in Editors : req[e].name # NoName => req[e].name \in Names
  BY DEF TypeOK
<1> QED BY <1>1 DEF Secrets, SecretIsTyped, PagesAreMasked, RequestsAreTyped

LEMMA SecretsStep == TypeOK /\ Secrets /\ [Next]_vars => Secrets'
<1> SUFFICES ASSUME TypeOK, Secrets, [Next]_vars PROVE Secrets' OBVIOUS
<1>s. SecretIsTyped /\ PagesAreMasked /\ RequestsAreTyped
  BY DEF Secrets
<1>r. req \in [Editors -> Requests] /\ typed \in [Names -> SUBSET ({Mask} \cup (0 .. MaxCalls))]
  BY DEF TypeOK, Requests
<1>i. Idle.name = NoName
  BY DEF Idle
<1>1. CASE UNCHANGED <<row, page, req, typed>>
  BY <1>1, <1>s DEF Secrets, SecretIsTyped, PagesAreMasked, RequestsAreTyped
<1>2. ASSUME NEW t \in Names, Delete(t) PROVE Secrets'
  <2>0. /\ row'[t] = NoRow
        /\ \A n \in Names \ {t} : row'[n] = row[n] /\ typed'[n] = typed[n]
    BY <1>2 DEF Delete, Put, TypeOK
  <2>1. SecretIsTyped'
    BY <1>s, <2>0 DEF SecretIsTyped, NoRow
  <2>2. PagesAreMasked'
    <3>1. \A e \in Editors : /\ page'[e].form = page[e].form
                             /\ page'[e].name = IF page[e].name = t THEN NoName ELSE page[e].name
                             /\ page[e].name \in Names \cup {NoName}
      BY <1>2 DEF Delete, TypeOK
    <3> QED BY <1>s, <2>0, <3>1 DEF PagesAreMasked
  <2>3. RequestsAreTyped'
    <3>1. \A e \in Editors :
            /\ req'[e].op = req[e].op /\ req'[e].pc = req[e].pc
            /\ req'[e].body = req[e].body /\ req'[e].old = req[e].old
            /\ req'[e].name = IF req[e].op = "patch" /\ req[e].name = t THEN NoName ELSE req[e].name
            /\ req[e].name \in Names \cup {NoName}
      BY <1>2, <1>r DEF Delete, Requests
    <3> QED BY <1>s, <2>0, <3>1 DEF RequestsAreTyped
  <2> QED BY <2>1, <2>2, <2>3 DEF Secrets
<1>3. CASE ProvisionCreates
  <2>1. SecretIsTyped'
    BY <1>3, <1>s DEF ProvisionCreates, Put, TypeOK, SecretIsTyped, Default, NoRow
  <2>2. \A t \in Names : row[t].here => row'[t].here
    BY <1>3 DEF ProvisionCreates, Put, TypeOK, Default
  <2>3. \A e \in Editors : /\ page[e].name \in Names \cup {NoName}
                           /\ req[e].name \in Names \cup {NoName}
    BY DEF TypeOK
  <2> QED BY <1>3, <1>s, <2>1, <2>2, <2>3 DEF ProvisionCreates, Secrets, PagesAreMasked, RequestsAreTyped
<1>4. CASE Crash
  BY <1>4, <1>s, <1>i DEF Crash, Secrets, SecretIsTyped, PagesAreMasked, RequestsAreTyped
<1>5. ASSUME NEW e \in Editors, ClosePage(e) PROVE Secrets'
  <2>1. PagesAreMasked'
    BY <1>5, <1>s DEF ClosePage, TypeOK, PagesAreMasked, NoPage, NoRow
  <2> QED BY <1>5, <1>s, <2>1 DEF ClosePage, Secrets, SecretIsTyped, RequestsAreTyped
<1>6. ASSUME NEW e \in Editors, NEW t \in Names, OpenPage(e, t) PROVE Secrets'
  <2>1. Shown(row[t]).secret \in {Unset, Mask}
    BY DEF Shown, Pickers, Masked, TypeOK, Row
  <2>2. PagesAreMasked'
    BY <1>6, <1>s, <2>1 DEF OpenPage, TypeOK, PagesAreMasked
  <2> QED BY <1>6, <1>s, <2>2 DEF OpenPage, Secrets, SecretIsTyped, RequestsAreTyped
<1>7. ASSUME NEW e \in Editors, Find(e) PROVE Secrets'
  <2>1. UNCHANGED <<row, page, typed>>
    BY <1>7 DEF Find, history
  <2>2. RequestsAreTyped'
    <3>1. CASE Stored(req[e].name)
      <4>1. row[req[e].name].secret \in {Unset} \cup typed[req[e].name]
        BY <1>r, <1>s, <3>1 DEF Stored, SecretIsTyped, Requests
      <4>2. req' = [req EXCEPT ![e].pc = "check", ![e].old = row[req[e].name]]
        BY <1>7, <3>1 DEF Find
      <4> QED BY <1>r, <1>s, <2>1, <4>1, <4>2 DEF RequestsAreTyped, Requests
    <3>2. CASE ~Stored(req[e].name)
      BY <1>7, <1>s, <1>i, <2>1, <3>2, AnswerTypes DEF Find, RequestsAreTyped
    <3> QED BY <3>1, <3>2
  <2> QED BY <1>s, <2>1, <2>2 DEF Secrets, SecretIsTyped, PagesAreMasked
<1>8. ASSUME NEW e \in Editors, Check(e) PROVE Secrets'
  <2>1. UNCHANGED <<row, page, typed>>
    BY <1>8 DEF Check, history
  <2>2. RequestsAreTyped'
    BY <1>8, <1>r, <1>s, <1>i, <2>1, AnswerTypes DEF Check, RequestsAreTyped, Requests
  <2> QED BY <1>s, <2>1, <2>2 DEF Secrets, SecretIsTyped, PagesAreMasked
<1>9. ASSUME NEW e \in Editors, Update(e) PROVE Secrets'
  <2> DEFINE q == req[e]
  <2>0. /\ \A t \in Names : row[t].here => row'[t].here
        /\ \A f \in Editors : page[f].name \in Names \cup {NoName} /\ req[f].name \in Names \cup {NoName}
    BY <1>9 DEF Update, Put, TypeOK, Merged
  <2>1. RequestsAreTyped'
    BY <1>9, <1>s, <1>i, <2>0, AnswerTypes DEF Update, RequestsAreTyped
  <2>2. PagesAreMasked'
    BY <1>9, <1>s, <2>0 DEF Update, TypeOK, PagesAreMasked, NoPage, NoRow
  <2>3. SecretIsTyped'
    <3>1. CASE Stored(q.name) /\ Accepts(Merged(q).pin)
      <4>1. q.name \in Names /\ q.name # NoName
        BY <3>1, <1>r DEF Stored, Requests
      <4>2. Merged(q).secret \in {Unset} \cup typed[q.name]
        BY <1>9, <1>s, <4>1 DEF Update, RequestsAreTyped, Merged
      <4> QED BY <1>9, <1>s, <3>1, <4>1, <4>2 DEF Update, Put, TypeOK, SecretIsTyped
    <3>2. CASE ~(Stored(q.name) /\ Accepts(Merged(q).pin))
      BY <1>9, <1>s, <3>2 DEF Update, SecretIsTyped
    <3> QED BY <3>1, <3>2
  <2> QED BY <2>1, <2>2, <2>3 DEF Secrets
<1>10. ASSUME NEW e \in Editors, Insert(e) PROVE Secrets'
  <2> DEFINE q == req[e]
  <2>n. \A f \in Editors : page[f].name \in Names \cup {NoName} /\ req[f].name \in Names \cup {NoName}
    BY DEF TypeOK
  <2>a. UNCHANGED page /\ req'[e] = Idle /\ \A f \in Editors \ {e} : req'[f] = req[f]
    BY <1>10, AnswerTypes DEF Insert
  <2>1. CASE q.name \in Names /\ ~row[q.name].here /\ Accepts(q.body.pin)
    <3>1. /\ row'[q.name] = q.body /\ typed'[q.name] = {q.body.secret}
          /\ \A n \in Names \ {q.name} : row'[n] = row[n] /\ typed'[n] = typed[n]
      BY <1>10, <2>1 DEF Insert, Put, TypeOK
    <3>2. SecretIsTyped'
      BY <1>s, <3>1 DEF SecretIsTyped
    <3>3. PagesAreMasked'
      BY <1>s, <2>n, <2>a, <2>1, <3>1 DEF PagesAreMasked
    <3>4. RequestsAreTyped'
      BY <1>s, <1>i, <2>n, <2>a, <2>1, <3>1 DEF RequestsAreTyped
    <3> QED BY <3>2, <3>3, <3>4 DEF Secrets
  <2>2. CASE ~(q.name \in Names /\ ~row[q.name].here /\ Accepts(q.body.pin))
    <3>1. UNCHANGED <<row, typed>>
      BY <1>10, <2>2 DEF Insert, Put, TypeOK
    <3> QED BY <1>s, <1>i, <2>a, <3>1 DEF Secrets, SecretIsTyped, PagesAreMasked, RequestsAreTyped
  <2> QED BY <2>1, <2>2
<1>11. ASSUME NEW e \in Editors, Save(e) PROVE Secrets'
  <2> DEFINE t == page[e].name
  <2>0. PICK form \in {page[e].form} \cup UNION {Edits(page[e].form, part) : part \in Parts} :
          \E body \in Read(form) :
            /\ IF body.desc
               THEN Arrives(e, "patch", t, "find", Parts, body, form = page[e].form)
               ELSE UNCHANGED req
            /\ Types(t, body)
    BY <1>11, Zenon DEF Save
  <2>1. PICK body \in Read(form) :
          /\ IF body.desc
             THEN Arrives(e, "patch", t, "find", Parts, body, form = page[e].form)
             ELSE UNCHANGED req
          /\ Types(t, body)
    BY <2>0
  <2>2. page[e].form \in Row /\ t \in Names \cup {NoName}
    BY DEF TypeOK
  <2>3. body \in Row
    <3>1. form \in Row
      BY <1>11, <2>0, <2>2, EditTypes DEF Save
    <3> QED BY <1>11, <2>1, <3>1, ReadTypes DEF Save
  <2>u. UNCHANGED row /\ (t # NoName => row[t].here)
    <3>1. UNCHANGED row
      BY <1>11 DEF Save
    <3> QED BY <1>11, <1>s, <3>1 DEF PagesAreMasked
  <2>4. /\ typed' \in [Names -> SUBSET ({Mask} \cup (0 .. MaxCalls))]
        /\ \A n \in Names : typed[n] \subseteq typed'[n]
        /\ t \in Names /\ body.secret > 0 => body.secret \in typed'[t]
    BY <2>1, <2>2, <2>3, TypesTypes
  <2>5. body.secret \in {Unset, Mask} \/ body.secret > 0
    BY <2>3, MaxCallsAssumption DEF Row, Unset, Mask
  <2>6. RequestsAreTyped'
    <3> DEFINE same == form = page[e].form
    <3>1. same \in BOOLEAN OBVIOUS
    <3>2. CASE body.desc
      <4>1. Arrives(e, "patch", t, "find", Parts, body, same)
        BY <2>1, <3>2
      <4> HIDE DEF same
      <4>2. /\ req'[e].op = "patch" /\ req'[e].pc = "find" /\ req'[e].name = t /\ req'[e].body = body
            /\ \A f \in Editors \ {e} : req'[f] = req[f]
        BY <4>1, <1>r DEF Arrives, Requests
      <4>3. req'[e].name # NoName => req'[e].body.secret \in {Unset, Mask} \cup typed'[req'[e].name]
        BY <2>2, <2>4, <2>5, <4>2
      <4> QED BY <2>4, <2>u, <4>2, <4>3, TypedGrows
    <3>3. CASE ~body.desc
      BY <2>1, <2>4, <2>u, <3>3, TypedGrows
    <3> QED BY <3>2, <3>3
  <2> QED BY <1>11, <2>4, <2>6, <2>u, TypedGrows DEF Save, Secrets
<1>12. ASSUME NEW e \in Editors, NEW t \in Names, PatchSome(e, t) PROVE Secrets'
  <2>1. PICK part \in Parts : \E body \in Edits(NoRow, part) :
          Arrives(e, "patch", t, "find", {part}, body, FALSE) /\ Types(t, body)
    BY <1>12, Zenon DEF PatchSome
  <2>2. PICK body \in Edits(NoRow, part) :
          Arrives(e, "patch", t, "find", {part}, body, FALSE) /\ Types(t, body)
    BY <2>1
  <2>3. body \in Row
    BY <1>12, <2>2, RowTypes, EditTypes DEF PatchSome
  <2>4. /\ typed' \in [Names -> SUBSET ({Mask} \cup (0 .. MaxCalls))]
        /\ \A n \in Names : typed[n] \subseteq typed'[n]
        /\ body.secret > 0 => body.secret \in typed'[t]
    BY <2>2, <2>3, TypesTypes
  <2>5. body.secret \in {Unset, Mask} \/ body.secret > 0
    BY <2>3, MaxCallsAssumption DEF Row, Unset, Mask
  <2>6. /\ req'[e].op = "patch" /\ req'[e].pc = "find" /\ req'[e].name = t /\ req'[e].body = body
        /\ \A f \in Editors \ {e} : req'[f] = req[f]
    BY <2>2, <1>r DEF Arrives, Requests
  <2>u. UNCHANGED row /\ row[t].here
    BY <1>12 DEF PatchSome
  <2>7. RequestsAreTyped'
    BY <2>4, <2>5, <2>6, <2>u, TypedGrows
  <2> QED BY <1>12, <2>4, <2>7, <2>u, TypedGrows DEF PatchSome, Secrets
<1>13. ASSUME NEW e \in Editors, NEW t \in Names, Create(e, t) PROVE Secrets'
  <2>1. PICK r \in NewRows : Arrives(e, "create", t, "check", Parts, r, FALSE)
    BY <1>13, Zenon DEF Create
  <2>2. r \in Row
    BY <1>13, <2>1, NewRowTypes DEF Create
  <2>3. req'[e].op = "create" /\ \A f \in Editors \ {e} : req'[f] = req[f]
    BY <2>1, <2>2, ArrivesTypes
  <2>4. UNCHANGED <<row, page, typed>>
    BY <1>13 DEF Create
  <2> QED BY <1>s, <2>3, <2>4 DEF Secrets, SecretIsTyped, PagesAreMasked, RequestsAreTyped
<1>14. ASSUME NEW n \in Nodes, DeleteNode(n) PROVE Secrets'
  <2>1. \A t \in Names : row'[t].secret = row[t].secret /\ row'[t].here = row[t].here
    BY <1>14 DEF DeleteNode, TypeOK, Row
  <2>2. \A e \in Editors : page[e].name \in Names \cup {NoName} /\ req[e].name \in Names \cup {NoName}
    BY DEF TypeOK
  <2> QED BY <1>14, <1>s, <2>1, <2>2 DEF DeleteNode, SetNode, Secrets, SecretIsTyped, PagesAreMasked,
                                   RequestsAreTyped
<1>15. \/ UNCHANGED <<row, page, req, typed>>
       \/ \E t \in Names : Delete(t)
       \/ ProvisionCreates \/ Crash
       \/ \E e \in Editors : ClosePage(e) \/ Find(e) \/ Check(e) \/ Update(e) \/ Insert(e) \/ Save(e)
       \/ \E e \in Editors, t \in Names : OpenPage(e, t) \/ PatchSome(e, t) \/ Create(e, t)
       \/ \E n \in Nodes : DeleteNode(n)
  BY StepKinds, Zenon DEF Steps, vars, history, ProvisionLooks, ProvisionFails, Start, ToggleNode, SetNode
<1> QED BY <1>1, <1>2, <1>3, <1>4, <1>5, <1>6, <1>7, <1>8, <1>9, <1>10, <1>11, <1>12, <1>13,
           <1>14, <1>15

\* However pages, patches, deletions and new templates of a name overlap, no
\* lab is ever started with another template's password, nor with a mask that
\* the template was not posted with.
THEOREM SecretsHold == Spec => []SecretIsTyped
<1>1. Secrets => SecretIsTyped
  BY DEF Secrets
<1> QED BY <1>1, TypeCorrect, SecretsInit, SecretsStep, PTL DEF Spec

-----------------------------------------------------------------------------
(* A page saved as it was shown *)

\* What a page shows is what the row has, but for fields that are not shown.
Shows(p, r) ==
  /\ r.here /\ p.form.desc = r.desc
  /\ p.form.ver = r.ver /\ p.form.ragged = r.ragged
  /\ p.form.secret = IF r.secret = Unset THEN Unset ELSE Mask
  /\ p.pins => p.form.pin = r.pin /\ p.form.pool = r.pool

\* An open page shows a row; a fresh one shows the row as it is.
OpenPages ==
  \A e \in Editors :
    /\ page[e] = NoPage \/ page[e].form.here
    /\ e \in fresh /\ page[e].form.here => page[e].name \in Names /\ Shows(page[e], row[page[e].name])

\* What is read from a form that was not touched.
Reads(body, form) ==
  /\ body.desc = form.desc /\ body.secret = form.secret
  /\ body.pin = form.pin /\ body.pool = form.pool
  /\ form.ragged \/ (body.ver = form.ver /\ ~body.ragged)

\* A page saved as it was shown is still open when its request writes, and
\* the request has read the row that a fresh page shows.
QuietRequests ==
  \A e \in Editors :
    LET q == req[e] IN
      q.quiet =>
        /\ page[e].form.here /\ q.name = page[e].name
        /\ q.op = "patch" /\ q.parts = Parts /\ Reads(q.body, page[e].form)
        /\ e \in fresh /\ q.pc \in {"check", "write"} => q.old = row[q.name]

RoundTrip == OpenPages /\ QuietRequests

LEMMA RoundTripInit == Init => RoundTrip
BY DEF Init, RoundTrip, OpenPages, QuietRequests, Idle, NoPage, NoRow

\* A row is written: only pages of other rows stay fresh.
LEMMA PutOpenPages ==
  ASSUME TypeOK, RoundTrip, NEW t \in Names, NEW r \in Row, Put(t, r),
         NEW e \in Editors, \A f \in Editors \ {e} : page'[f] = page[f],
         page'[e] = page[e] \/ page'[e] = NoPage
  PROVE  OpenPages'
<1>1. ~NoPage.form.here
  BY DEF NoPage, NoRow
<1>2. \A n \in Names \ {t} : row'[n] = row[n]
  BY DEF Put, TypeOK
<1>3. \A f \in fresh' : f \in fresh /\ page[f].name # t
  BY DEF Put
<1> QED BY <1>1, <1>2, <1>3 DEF RoundTrip, OpenPages

LEMMA PutQuietRequests ==
  ASSUME TypeOK, RoundTrip, NEW t \in Names, NEW r \in Row, Put(t, r),
         NEW e \in Editors, req'[e] = Idle,
         \A f \in Editors \ {e} : page'[f] = page[f] /\ req'[f] = req[f]
  PROVE  QuietRequests'
<1>1. ~Idle.quiet
  BY DEF Idle
<1>2. \A n \in Names \ {t} : row'[n] = row[n]
  BY DEF Put, TypeOK
<1>3. \A f \in fresh' : f \in fresh /\ page[f].name # t
  BY DEF Put
<1> QED BY <1>1, <1>2, <1>3 DEF RoundTrip, QuietRequests, OpenPages

LEMMA RoundTripStep == TypeOK /\ RoundTrip /\ [Next]_vars => RoundTrip'
<1> SUFFICES ASSUME TypeOK, RoundTrip, [Next]_vars PROVE RoundTrip' OBVIOUS
<1>s. OpenPages /\ QuietRequests
  BY DEF RoundTrip
<1>r. req \in [Editors -> Requests] /\ \A e \in Editors : page[e].form \in Row
  BY DEF TypeOK, Requests
<1>i. ~Idle.quiet /\ ~NoPage.form.here
  BY DEF Idle, NoPage, NoRow
<1>1. CASE UNCHANGED <<row, page, req, fresh>>
  BY <1>1, <1>s DEF RoundTrip, OpenPages, QuietRequests
<1>2. ASSUME NEW t \in Names, Delete(t) PROVE RoundTrip'
  <2>1. /\ \A n \in Names \ {t} : row'[n] = row[n]
        /\ \A e \in fresh' : e \in fresh /\ page[e].name # t
    BY <1>2 DEF Delete, Put, TypeOK
  <2>2. \A e \in Editors : /\ page'[e].form = page[e].form /\ page'[e].pins = page[e].pins
                           /\ page'[e].name = IF page[e].name = t THEN NoName ELSE page[e].name
                           /\ page[e].name # t => page'[e] = page[e]
    BY <1>2 DEF Delete, TypeOK
  <2>3. OpenPages'
    <3>1. t # NoName
      BY NamesAssumption DEF NoName
    <3>2. \A e \in Editors : page[e] = NoPage => page'[e] = NoPage
      BY <2>2, <3>1 DEF NoPage
    <3> QED BY <1>s, <2>1, <2>2, <3>2 DEF OpenPages
  <2>4. \A e \in Editors :
          /\ req'[e].quiet = req[e].quiet /\ req'[e].op = req[e].op /\ req'[e].pc = req[e].pc
          /\ req'[e].parts = req[e].parts /\ req'[e].body = req[e].body /\ req'[e].old = req[e].old
          /\ req'[e].name = IF req[e].op = "patch" /\ req[e].name = t THEN NoName ELSE req[e].name
    BY <1>2, <1>r DEF Delete, Requests
  <2>5. QuietRequests'
    BY <1>s, <2>1, <2>2, <2>4 DEF QuietRequests, OpenPages
  <2> QED BY <2>3, <2>5 DEF RoundTrip
<1>3. CASE ProvisionCreates
  <2>1. seen \in Names /\ Put(seen, Default) /\ UNCHANGED <<page, req>>
    BY <1>3, DefaultsAssumption DEF ProvisionCreates, TypeOK
  <2>2. /\ \A n \in Names \ {seen} : row'[n] = row[n]
        /\ \A e \in fresh' : e \in fresh /\ page[e].name # seen
    BY <2>1 DEF Put, TypeOK
  <2>3. OpenPages'
    BY <1>s, <2>1, <2>2 DEF OpenPages
  <2>4. QuietRequests'
    BY <1>s, <2>1, <2>2 DEF QuietRequests, OpenPages
  <2> QED BY <2>3, <2>4 DEF RoundTrip
<1>4. CASE Crash
  BY <1>4, <1>s, <1>i DEF Crash, RoundTrip, OpenPages, QuietRequests
<1>5. ASSUME NEW e \in Editors, ClosePage(e) PROVE RoundTrip'
  <2>1. page'[e] = NoPage /\ \A f \in Editors \ {e} : page'[f] = page[f]
    BY <1>5 DEF ClosePage, TypeOK
  <2>2. OpenPages'
    BY <1>5, <1>s, <1>i, <2>1 DEF ClosePage, OpenPages
  <2>3. QuietRequests'
    BY <1>5, <1>s, <1>i, <2>1 DEF ClosePage, QuietRequests
  <2> QED BY <2>2, <2>3 DEF RoundTrip
<1>6. ASSUME NEW e \in Editors, NEW t \in Names, OpenPage(e, t) PROVE RoundTrip'
  <2> DEFINE p == [name |-> t, form |-> Shown(row[t]),
                   pins |-> Shown(row[t]).pin = row[t].pin /\ Shown(row[t]).pool = row[t].pool]
  <2>1. page'[e] = p /\ \A f \in Editors \ {e} : page'[f] = page[f]
    BY <1>6 DEF OpenPage, TypeOK
  <2>2. Shown(row[t]).here = row[t].here /\ Shows(p, row[t])
    <3>1. row[t] \in Row /\ row[t].here
      BY <1>6 DEF OpenPage, TypeOK
    <3>2. /\ Shown(row[t]).here /\ Shown(row[t]).desc = row[t].desc
          /\ Shown(row[t]).ver = row[t].ver /\ Shown(row[t]).ragged = row[t].ragged
      BY <3>1 DEF Shown, Pickers, Masked, Row
    <3>3. Shown(row[t]).secret = IF row[t].secret = Unset THEN Unset ELSE Mask
      BY <3>1 DEF Shown, Pickers, Masked, Row
    <3> QED BY <3>1, <3>2, <3>3 DEF Shows
  <2> HIDE DEF p
  <2>3. p.name = t /\ p.form = Shown(row[t])
    BY DEF p
  <2>4. OpenPages'
    BY <1>6, <1>s, <2>1, <2>2, <2>3 DEF OpenPage, OpenPages
  <2>5. QuietRequests'
    BY <1>6, <1>s, <1>i, <2>1 DEF OpenPage, QuietRequests
  <2> QED BY <2>4, <2>5 DEF RoundTrip
<1>7. ASSUME NEW e \in Editors, Find(e) PROVE RoundTrip'
  <2>1. UNCHANGED <<row, page, fresh>>
    BY <1>7 DEF Find, history
  <2>2. QuietRequests'
    BY <1>7, <1>r, <1>s, <1>i, <2>1, AnswerTypes DEF Find, QuietRequests, Requests
  <2> QED BY <1>s, <2>1, <2>2 DEF RoundTrip, OpenPages
<1>8. ASSUME NEW e \in Editors, Check(e) PROVE RoundTrip'
  <2>1. UNCHANGED <<row, page, fresh>>
    BY <1>8 DEF Check, history
  <2>2. QuietRequests'
    BY <1>8, <1>r, <1>s, <1>i, <2>1, AnswerTypes DEF Check, QuietRequests, Requests
  <2> QED BY <1>s, <2>1, <2>2 DEF RoundTrip, OpenPages
<1>9. ASSUME NEW e \in Editors, Update(e) PROVE RoundTrip'
  <2>1. /\ page'[e] = NoPage /\ req'[e] = Idle
        /\ \A f \in Editors \ {e} : page'[f] = page[f] /\ req'[f] = req[f]
    BY <1>9, AnswerTypes DEF Update, TypeOK
  <2>2. CASE Stored(req[e].name) /\ Accepts(Merged(req[e]).pin)
    <3>1. Merged(req[e]) \in Row /\ req[e].name \in Names
      BY <1>r, <2>2, MergedTypes DEF Stored, Requests
    <3>2. Put(req[e].name, Merged(req[e]))
      BY <1>9, <2>2 DEF Update
    <3> QED BY <2>1, <3>1, <3>2, PutOpenPages, PutQuietRequests DEF RoundTrip
  <2>3. CASE ~(Stored(req[e].name) /\ Accepts(Merged(req[e]).pin))
    <3>1. UNCHANGED <<row, fresh>>
      BY <1>9, <2>3 DEF Update
    <3> QED BY <1>s, <1>i, <2>1, <3>1 DEF RoundTrip, OpenPages, QuietRequests
  <2> QED BY <2>2, <2>3
<1>10. ASSUME NEW e \in Editors, Insert(e) PROVE RoundTrip'
  <2>1. UNCHANGED page /\ req'[e] = Idle /\ \A f \in Editors \ {e} : req'[f] = req[f]
    BY <1>10, AnswerTypes DEF Insert
  <2>2. CASE req[e].name \in Names /\ ~row[req[e].name].here /\ Accepts(req[e].body.pin)
    <3>1. Put(req[e].name, req[e].body) /\ req[e].body \in Row
      BY <1>10, <1>r, <2>2 DEF Insert, Requests
    <3> QED BY <2>1, <2>2, <3>1, PutOpenPages, PutQuietRequests DEF RoundTrip
  <2>3. CASE ~(~row[req[e].name].here /\ Accepts(req[e].body.pin))
    <3>1. UNCHANGED <<row, fresh>>
      BY <1>10, <2>3 DEF Insert
    <3> QED BY <1>s, <1>i, <2>1, <3>1 DEF RoundTrip, OpenPages, QuietRequests
  <2>4. CASE req[e].name \notin Names /\ ~row[req[e].name].here /\ Accepts(req[e].body.pin)
    <3>1. Put(req[e].name, req[e].body)
      BY <1>10, <2>4 DEF Insert
    <3>2. UNCHANGED row /\ fresh' \subseteq fresh
      BY <2>4, <3>1 DEF Put, TypeOK
    <3> QED BY <1>s, <1>i, <2>1, <3>2 DEF RoundTrip, OpenPages, QuietRequests
  <2> QED BY <2>2, <2>3, <2>4
<1>11. ASSUME NEW e \in Editors, Save(e) PROVE RoundTrip'
  <2>0. PICK form \in {page[e].form} \cup UNION {Edits(page[e].form, part) : part \in Parts} :
          \E body \in Read(form) :
            IF body.desc
            THEN Arrives(e, "patch", page[e].name, "find", Parts, body, form = page[e].form)
            ELSE UNCHANGED req
    BY <1>11, Zenon DEF Save
  <2>1. PICK body \in Read(form) :
          IF body.desc
          THEN Arrives(e, "patch", page[e].name, "find", Parts, body, form = page[e].form)
          ELSE UNCHANGED req
    BY <2>0
  <2>2. UNCHANGED <<row, page, fresh>> /\ page[e] # NoPage
    BY <1>11 DEF Save
  <2>3. QuietRequests'
    <3>1. CASE UNCHANGED req
      BY <1>s, <2>2, <3>1 DEF QuietRequests
    <3>2. CASE Arrives(e, "patch", page[e].name, "find", Parts, body, form = page[e].form)
      <4>1. /\ req'[e].op = "patch" /\ req'[e].pc = "find" /\ req'[e].name = page[e].name
            /\ req'[e].parts = Parts /\ req'[e].body = body
            /\ req'[e].quiet <=> (form = page[e].form)
            /\ \A f \in Editors \ {e} : req'[f] = req[f]
        <5> DEFINE same == form = page[e].form
        <5>1. Arrives(e, "patch", page[e].name, "find", Parts, body, same)
          BY <3>2
        <5> HIDE DEF same
        <5>2. /\ req'[e].op = "patch" /\ req'[e].pc = "find" /\ req'[e].name = page[e].name
              /\ req'[e].parts = Parts /\ req'[e].body = body
              /\ req'[e].quiet = same
              /\ \A f \in Editors \ {e} : req'[f] = req[f]
          BY <1>r, <5>1 DEF Arrives, Idle
        <5> QED BY <5>2 DEF same
      <4>2. form = page[e].form => Reads(body, page[e].form)
        <5>1. Call
          BY <1>11 DEF Save
        <5> QED BY <1>r, <2>1, <5>1, ReadTypes DEF Reads
      <4> QED BY <1>s, <2>2, <4>1, <4>2 DEF QuietRequests, OpenPages
    <3> QED BY <2>1, <3>1, <3>2
  <2> QED BY <1>s, <2>2, <2>3 DEF RoundTrip, OpenPages
<1>12. ASSUME NEW e \in Editors, NEW t \in Names, PatchSome(e, t) PROVE RoundTrip'
  <2>1. PICK part \in Parts : \E body \in Edits(NoRow, part) :
          Arrives(e, "patch", t, "find", {part}, body, FALSE)
    BY <1>12, Zenon DEF PatchSome
  <2>2. PICK body \in Edits(NoRow, part) : Arrives(e, "patch", t, "find", {part}, body, FALSE)
    BY <2>1
  <2>3. ~req'[e].quiet /\ \A f \in Editors \ {e} : req'[f] = req[f]
    BY <1>r, <2>2 DEF Arrives, Requests
  <2> QED BY <1>12, <1>s, <2>3 DEF PatchSome, RoundTrip, OpenPages, QuietRequests
<1>13. ASSUME NEW e \in Editors, NEW t \in Names, Create(e, t) PROVE RoundTrip'
  <2>1. PICK r \in NewRows : Arrives(e, "create", t, "check", Parts, r, FALSE)
    BY <1>13, Zenon DEF Create
  <2>2. ~req'[e].quiet /\ \A f \in Editors \ {e} : req'[f] = req[f]
    BY <1>r, <2>1 DEF Arrives, Requests
  <2> QED BY <1>13, <1>s, <2>2 DEF Create, RoundTrip, OpenPages, QuietRequests
<1>14. ASSUME NEW n \in Nodes, DeleteNode(n) \/ ToggleNode(n) PROVE RoundTrip'
  <2>1. fresh' = {} /\ UNCHANGED <<page, req>>
    BY <1>14 DEF DeleteNode, ToggleNode, SetNode
  <2> QED BY <1>s, <2>1 DEF RoundTrip, OpenPages, QuietRequests
<1>15. \/ UNCHANGED <<row, page, req, fresh>>
       \/ \E t \in Names : Delete(t)
       \/ ProvisionCreates \/ Crash
       \/ \E e \in Editors : ClosePage(e) \/ Find(e) \/ Check(e) \/ Update(e) \/ Insert(e) \/ Save(e)
       \/ \E e \in Editors, t \in Names : OpenPage(e, t) \/ PatchSome(e, t) \/ Create(e, t)
       \/ \E n \in Nodes : DeleteNode(n) \/ ToggleNode(n)
  BY StepKinds, Zenon DEF Steps, vars, history, ProvisionLooks, ProvisionFails, Start
<1> QED BY <1>1, <1>2, <1>3, <1>4, <1>5, <1>6, <1>7, <1>8, <1>9, <1>10, <1>11, <1>12, <1>13,
           <1>14, <1>15

\* The form, the mask and the merge are a round trip, whatever the row holds
\* but ragged text: a page saved as it was shown gives back the row, if nobody
\* else wrote it.
THEOREM QuietSaves == Spec => QuietSaveKeepsRow
<1>1. TypeOK /\ RoundTrip /\ [Next]_vars =>
        [\A e \in Editors : Quiet(e) /\ Update(e) =>
           LET t == req[e].name IN
             /\ row'[t].here /\ row'[t].desc = row[t].desc
             /\ row'[t].secret = row[t].secret
             /\ row[t].ragged \/ (row'[t].ver = row[t].ver /\ ~row'[t].ragged)
             /\ page[e].pins => row'[t].pin = row[t].pin /\ row'[t].pool = row[t].pool]_vars
  <2> SUFFICES ASSUME TypeOK, RoundTrip, NEW e \in Editors, Quiet(e), Update(e)
               PROVE  LET t == req[e].name IN
                        /\ row'[t].here /\ row'[t].desc = row[t].desc
                        /\ row'[t].secret = row[t].secret
                        /\ row[t].ragged \/ (row'[t].ver = row[t].ver /\ ~row'[t].ragged)
                        /\ page[e].pins => row'[t].pin = row[t].pin /\ row'[t].pool = row[t].pool
    BY Zenon
  <2> DEFINE q == req[e]
             t == q.name
  <2>1. /\ q.parts = Parts /\ Reads(q.body, page[e].form) /\ q.old = row[t]
        /\ t \in Names /\ Shows(page[e], row[t])
    BY DEF Quiet, RoundTrip, OpenPages, QuietRequests
  <2>2. Merged(q) = [here |-> TRUE, desc |-> q.body.desc, ver |-> q.body.ver, ragged |-> q.body.ragged,
                     secret |-> IF q.body.secret = Mask THEN q.old.secret ELSE q.body.secret,
                     extra |-> q.body.extra, pin |-> q.body.pin, pool |-> q.body.pool]
    BY <2>1 DEF Merged, Parts
  <2>3. row[t] \in Row
    BY <2>1 DEF TypeOK
  <2>4. Merged(q).secret = row[t].secret
    BY <2>1, <2>2 DEF Shows, Reads, Mask, Unset
  <2>5. CASE row' = [row EXCEPT ![t] = Merged(q)]
    <3>1. row'[t] = Merged(q)
      BY <2>1, <2>5 DEF TypeOK
    <3> QED BY <2>1, <2>2, <2>4, <3>1 DEF Shows, Reads
  <2>6. CASE row' = row
    BY <2>1, <2>6 DEF Shows
  <2> QED BY <2>5, <2>6 DEF Update, Put
<1> QED BY <1>1, TypeCorrect, RoundTripInit, RoundTripStep, PTL DEF Spec, QuietSaveKeepsRow
=============================================================================
