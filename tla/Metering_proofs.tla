---------------------------- MODULE Metering_proofs ----------------------------
(***************************************************************************)
(* Proofs about Metering: the rows and the log have their types, the cost  *)
(* of adjacent windows adds up, and the hours of a window that is past do  *)
(* not change, for any labs, templates and bounds.                         *)
(***************************************************************************)
EXTENDS Metering, SequenceTheorems, FiniteSetTheorems, WellFoundedInduction, TLAPS

-----------------------------------------------------------------------------
(* Labs                                                                    *)

\* A row: what TypeOK says of it, and that it does not end before it begins.
Dated(r) ==
  /\ r \in LabRows
  /\ IF r.status \in {"none", "deleted"} THEN r.created = Null
     ELSE /\ r.created \in 0 .. now
          /\ r.ended = Null \/ r.ended \in r.created .. now
LabsDated == \A l \in Labs : Dated(lab[l])

Clock == /\ now \in 0 .. Horizon /\ templates \subseteq Templates
         /\ DOMAIN lab = Labs /\ lab = [l \in Labs |-> lab[l]]
         /\ op \in [Labs -> SUBSET (Power \cup Ready \cup {"provision"})]
         /\ shown \in [Labs -> SUBSET (0 .. Horizon)] /\ unstopped \subseteq Labs

Rowed == Clock /\ LabsDated

LEMMA Blank == /\ NewLab \in LabRows /\ NewLab.status = "none" /\ NewLab.created = Null /\ NewLab.ended = Null
               /\ [NewLab EXCEPT !.status = "deleted"] \in LabRows
               /\ [NewLab EXCEPT !.status = "deleted"].status = "deleted"
               /\ [NewLab EXCEPT !.status = "deleted"].created = Null
<1>1. (CHOOSE t \in Templates : TRUE) \in Templates
  BY TemplatesAssumption
<1> QED BY <1>1 DEF NewLab, LabRows, Statuses, Stamps

LEMMA RowedInit == Init => Rowed
<1> SUFFICES ASSUME Init PROVE Rowed OBVIOUS
<1>1. 0 \in 0 .. Horizon
  BY BoundsAssumption
<1> QED BY <1>1, Blank DEF Init, Rowed, Clock, LabsDated, Dated

\* A row keeps its dates when only its status, place or container changes.
LEMMA Redated ==
  ASSUME Rowed, NEW l \in Labs, Exists(l), NEW r \in LabRows,
         r.status \in Statuses \ {"none", "deleted"}, r.created = lab[l].created,
         r.ended \in {lab[l].ended, now}
  PROVE  Dated(r)
<1>1. /\ now \in Nat
      /\ lab[l].created \in 0 .. now /\ (lab[l].ended = Null \/ lab[l].ended \in lab[l].created .. now)
  BY BoundsAssumption DEF Rowed, Clock, LabsDated, Dated, Exists
<1> QED BY <1>1 DEF Dated

\* What the operations make of a row, field by field.
LEMMA RowFields ==
  ASSUME Rowed, NEW l \in Labs
  PROVE  /\ lab[l] \in LabRows /\ now \in Stamps
         /\ \A st \in Statuses : LET r == [lab[l] EXCEPT !.status = st] IN
              r \in LabRows /\ r.status = st /\ r.created = lab[l].created /\ r.ended = lab[l].ended
         /\ LET r == [lab[l] EXCEPT !.status = "ready", !.box = "up"] IN
              r \in LabRows /\ r.status = "ready" /\ r.created = lab[l].created /\ r.ended = lab[l].ended
         /\ LET r == [lab[l] EXCEPT !.pooled = FALSE] IN
              r \in LabRows /\ r.status = lab[l].status /\ r.created = lab[l].created /\ r.ended = lab[l].ended
         /\ \A b \in {"none", "up", "gone"} : LET r == [lab[l] EXCEPT !.box = b] IN
              r \in LabRows /\ r.status = lab[l].status /\ r.created = lab[l].created /\ r.ended = lab[l].ended
         /\ LET r == [lab[l] EXCEPT !.status = "terminated", !.ended = now] IN
              r \in LabRows /\ r.status = "terminated" /\ r.created = lab[l].created /\ r.ended = now
<1>1. lab[l] \in LabRows /\ now \in Stamps
  BY DEF Rowed, LabsDated, Dated, Clock, Stamps
<1>2. \A st \in Statuses : LET r == [lab[l] EXCEPT !.status = st] IN
        r \in LabRows /\ r.status = st /\ r.created = lab[l].created /\ r.ended = lab[l].ended
  BY <1>1 DEF LabRows
<1>3. LET r == [lab[l] EXCEPT !.status = "ready", !.box = "up"] IN
        r \in LabRows /\ r.status = "ready" /\ r.created = lab[l].created /\ r.ended = lab[l].ended
  BY <1>1 DEF LabRows, Statuses
<1>4. LET r == [lab[l] EXCEPT !.pooled = FALSE] IN
        r \in LabRows /\ r.status = lab[l].status /\ r.created = lab[l].created /\ r.ended = lab[l].ended
  BY <1>1 DEF LabRows
<1>5. \A b \in {"none", "up", "gone"} : LET r == [lab[l] EXCEPT !.box = b] IN
        r \in LabRows /\ r.status = lab[l].status /\ r.created = lab[l].created /\ r.ended = lab[l].ended
  BY <1>1 DEF LabRows
<1>6. LET r == [lab[l] EXCEPT !.status = "terminated", !.ended = now] IN
        r \in LabRows /\ r.status = "terminated" /\ r.created = lab[l].created /\ r.ended = now
  BY <1>1 DEF LabRows, Statuses
<1> QED BY <1>1, <1>2, <1>3, <1>4, <1>5, <1>6

\* A step that writes one row.
LEMMA RowWritten ==
  ASSUME Rowed, NEW l \in Labs, NEW r, lab' = [lab EXCEPT ![l] = r], Dated(r),
         now' = now, templates' = templates, op' \in [Labs -> SUBSET (Power \cup Ready \cup {"provision"})],
         shown' = shown, unstopped' \subseteq Labs
  PROVE  Rowed'
<1>1. LabsDated'
  <2> SUFFICES ASSUME NEW m \in Labs PROVE Dated(lab[m])'
    BY DEF LabsDated
  <2>1. lab'[m] = r \/ lab'[m] = lab[m]
    BY DEF Rowed, Clock
  <2>2. Dated(lab'[m])
    BY <2>1 DEF Rowed, LabsDated
  <2> QED BY <2>2 DEF Dated
<1>2. Clock'
  BY DEF Rowed, Clock
<1> QED BY <1>1, <1>2 DEF Rowed

LEMMA Ops ==
  ASSUME Rowed, NEW l \in Labs, NEW k \in Power \cup Ready \cup {"provision"}
  PROVE  /\ Starts(l, k) => op' \in [Labs -> SUBSET (Power \cup Ready \cup {"provision"})]
         /\ Ends(l, k) => op' \in [Labs -> SUBSET (Power \cup Ready \cup {"provision"})]
         /\ \A kind \in Ready : Follows(l, k, kind) =>
              op' \in [Labs -> SUBSET (Power \cup Ready \cup {"provision"})]
<1>1. op \in [Labs -> SUBSET (Power \cup Ready \cup {"provision"})]
  BY DEF Rowed, Clock
<1> QED BY <1>1 DEF Starts, Ends, Follows

\* What a step of one lab makes of its row.
LEMMA RowStep ==
  ASSUME Rowed, NEW l \in Labs, LabStep(l)
  PROVE  Rowed'
<1>0. /\ lab[l] \in LabRows /\ now \in Nat /\ now \in Stamps
      /\ op \in [Labs -> SUBSET (Power \cup Ready \cup {"provision"})]
      /\ lab = [m \in Labs |-> lab[m]] /\ DOMAIN lab = Labs /\ templates \subseteq Templates
  <2>1. lab[l] \in LabRows /\ now \in Stamps
    BY RowFields
  <2>2. now \in Nat
    BY BoundsAssumption DEF Rowed, Clock
  <2>3. op \in [Labs -> SUBSET (Power \cup Ready \cup {"provision"})]
    BY DEF Rowed, Clock
  <2>4. lab = [m \in Labs |-> lab[m]] /\ DOMAIN lab = Labs /\ templates \subseteq Templates
    BY DEF Rowed, Clock
  <2> QED BY <2>1, <2>2, <2>3, <2>4
<1> DEFINE Kept == now' = now /\ templates' = templates /\ shown' = shown /\ unstopped' \subseteq Labs
                   /\ op' \in [Labs -> SUBSET (Power \cup Ready \cup {"provision"})]
<1>0b. unstopped \subseteq Labs
  BY DEF Rowed, Clock
<1>1. ASSUME Kept, lab' = lab PROVE Rowed'
  BY <1>1 DEF Rowed, Clock, LabsDated, Dated
<1>2. ASSUME Kept, NEW r \in LabRows, lab' = [lab EXCEPT ![l] = r], Exists(l),
             r.status \in Statuses \ {"none", "deleted"}, r.created = lab[l].created,
             r.ended \in {lab[l].ended, now}
      PROVE  Rowed'
  BY <1>2, Redated, RowWritten
<1>3. Exists(l) => lab[l].status \in Statuses \ {"none", "deleted"}
  BY <1>0 DEF Exists, LabRows
<1>4. CASE \E t \in Templates, pooled \in BOOLEAN : CreateRow(l, t, pooled)
  <2>1. PICK t \in Templates, pooled \in BOOLEAN : CreateRow(l, t, pooled)
    BY <1>4
  <2>2. PICK r : r = [NewLab EXCEPT !.status = "provisioning", !.pooled = pooled, !.template = t, !.created = now]
    OBVIOUS
  <2>3. PICK q \in LabRows : q = NewLab /\ q.ended = Null
    BY Blank
  <2>4. r = [q EXCEPT !.status = "provisioning", !.pooled = pooled, !.template = t, !.created = now]
    BY <2>2, <2>3
  <2>5. r \in LabRows /\ r.status = "provisioning" /\ r.created = now /\ r.ended = Null
    BY <1>0, <2>3, <2>4 DEF LabRows, Statuses
  <2>6. Dated(r)
    BY <1>0, <2>5 DEF Dated
  <2>7. lab' = [lab EXCEPT ![l] = r] /\ Kept
    BY <1>0b, <2>1, <2>2, Ops DEF CreateRow
  <2> QED BY <2>6, <2>7, RowWritten
<1>13. CASE \E kind \in Ready : EmitsStart(l, kind)
  <2>1. Kept /\ lab' = lab
    BY <1>0b, <1>13, Ops DEF EmitsStart
  <2> QED BY <1>1, <2>1
<1>5. CASE MarkReady(l)
  <2>1. Kept
    BY <1>0b, <1>5, Ops DEF MarkReady, Ready
  <2>2. CASE Exists(l)
    <3>1. PICK r : r = [lab[l] EXCEPT !.status = "ready", !.box = "up"]
      OBVIOUS
    <3>2. lab' = [lab EXCEPT ![l] = r]
      <4>1. lab' = [lab EXCEPT ![l].status = "ready", ![l].box = "up"]
        BY <1>5, <2>2 DEF MarkReady
      <4> QED BY <1>0, <3>1, <4>1
    <3>3. r \in LabRows /\ r.status = "ready" /\ r.created = lab[l].created /\ r.ended = lab[l].ended
      BY <3>1, RowFields
    <3>4. "ready" \in Statuses \ {"none", "deleted"}
      BY DEF Statuses
    <3> QED BY <1>2, <2>1, <2>2, <3>2, <3>3, <3>4
  <2>3. CASE ~Exists(l)
    BY <1>1, <1>5, <2>1, <2>3 DEF MarkReady
  <2> QED BY <2>2, <2>3
<1>6. ASSUME NEW st \in {"failed", "paused", "ready"}, Kept, Exists(l), lab' = [lab EXCEPT ![l].status = st]
      PROVE  Rowed'
  <2>1. PICK r : r = [lab[l] EXCEPT !.status = st]
    OBVIOUS
  <2>2. lab' = [lab EXCEPT ![l] = r]
    BY <1>0, <1>6, <2>1
  <2>3. st \in Statuses \ {"none", "deleted"}
    BY <1>6 DEF Statuses
  <2>4. r \in LabRows /\ r.status = st /\ r.created = lab[l].created /\ r.ended = lab[l].ended
    BY <2>1, <2>3, RowFields
  <2> QED BY <1>2, <1>6, <2>2, <2>3, <2>4
<1>7. CASE MarkFailed(l)
  <2>1. Kept
    BY <1>0b, <1>7, Ops DEF MarkFailed
  <2>2. CASE Exists(l)
    BY <1>6, <1>7, <2>1, <2>2 DEF MarkFailed
  <2>3. CASE ~Exists(l)
    BY <1>1, <1>7, <2>1, <2>3 DEF MarkFailed
  <2> QED BY <2>2, <2>3
<1>8. CASE Claim(l)
  <2>1. Kept /\ Exists(l)
    BY <1>0, <1>0b, <1>8 DEF Claim, Exists
  <2>2. PICK r : r = [lab[l] EXCEPT !.pooled = FALSE]
    OBVIOUS
  <2>3. lab' = [lab EXCEPT ![l] = r]
    <3>1. lab' = [lab EXCEPT ![l].pooled = FALSE]
      BY <1>8 DEF Claim
    <3> QED BY <1>0, <2>2, <3>1
  <2>4. r \in LabRows /\ r.status = lab[l].status /\ r.created = lab[l].created /\ r.ended = lab[l].ended
    BY <2>2, RowFields
  <2> QED BY <1>2, <1>3, <2>1, <2>3, <2>4
<1>9. CASE \E k \in Power : Begin(l, k)
  <2>1. PICK k \in Power : Begin(l, k)
    BY <1>9
  <2>2. Kept /\ Exists(l)
    BY <1>0b, <2>1, Ops DEF Begin
  <2>3. PICK b \in {"none", "up", "gone"} : lab' = [lab EXCEPT ![l].box = b]
    <3>1. lab[l].box \in {"none", "up", "gone"}
      BY <1>0 DEF LabRows
    <3> QED BY <2>1, <3>1 DEF Begin
  <2>4. PICK r : r = [lab[l] EXCEPT !.box = b]
    OBVIOUS
  <2>5. lab' = [lab EXCEPT ![l] = r]
    BY <1>0, <2>3, <2>4
  <2>6. r \in LabRows /\ r.status = lab[l].status /\ r.created = lab[l].created /\ r.ended = lab[l].ended
    BY <2>4, RowFields
  <2> QED BY <1>2, <1>3, <2>2, <2>5, <2>6
<1>10. CASE \E k \in Power : CommitFails(l, k)
  BY <1>0b, <1>1, <1>10, Ops DEF CommitFails
<1>11. CASE CommitSuspend(l) \/ CommitResume(l) \/ CommitRestart(l)
  <2>1. Kept /\ Exists(l)
    BY <1>0b, <1>11, Ops DEF CommitSuspend, CommitResume, CommitRestart, Power, Ready
  <2>2. PICK st \in {"paused", "ready"} : lab' = [lab EXCEPT ![l].status = st]
    BY <1>11 DEF CommitSuspend, CommitResume, CommitRestart
  <2> QED BY <1>6, <2>1, <2>2
<1>12. CASE CommitTerminate(l)
  <2>1. Kept /\ Exists(l)
    BY <1>0b, <1>12, Ops DEF CommitTerminate, Power
  <2>2. PICK r : r = [lab[l] EXCEPT !.status = "terminated", !.ended = now]
    OBVIOUS
  <2>3. lab' = [lab EXCEPT ![l] = r]
    <3>1. lab' = [lab EXCEPT ![l].status = "terminated", ![l].ended = now]
      BY <1>12 DEF CommitTerminate
    <3> QED BY <1>0, <2>2, <3>1
  <2>4. r \in LabRows /\ r.status = "terminated" /\ r.created = lab[l].created /\ r.ended = now
    BY <2>2, RowFields
  <2>5. "terminated" \in Statuses \ {"none", "deleted"}
    BY DEF Statuses
  <2> QED BY <1>2, <2>1, <2>3, <2>4, <2>5
<1> QED BY <1>4, <1>5, <1>7, <1>8, <1>9, <1>10, <1>11, <1>12, <1>13 DEF LabStep

\* The log in the order of the stamps.
Ordered(s) ==
  /\ s \in Seq(Events)
  /\ \A i \in DOMAIN s : s[i].at <= now /\ \A j \in 1 .. i : s[j].at <= s[i].at

LEMMA RowedStep == Rowed /\ Ordered(log) /\ [Next]_vars => Rowed'
<1> SUFFICES ASSUME Rowed, Ordered(log), [Next]_vars PROVE Rowed' OBVIOUS
<1>0. now \in Nat /\ Horizon \in Nat /\ Clock /\ LabsDated
  BY BoundsAssumption DEF Rowed, Clock
<1>1. ASSUME UNCHANGED <<now, templates, lab, op, shown>>, unstopped' \subseteq Labs PROVE Rowed'
  BY <1>1 DEF Rowed, Clock, LabsDated, Dated
<1>2. ASSUME NEW t \in Templates, DeleteTemplate(t) PROVE Rowed'
  <2>1. lab' = [l \in Labs |-> IF Exists(l) /\ lab[l].template = t
                               THEN [NewLab EXCEPT !.status = "deleted"] ELSE lab[l]]
    BY <1>2 DEF DeleteTemplate
  <2>2. PICK gone \in LabRows : gone = [NewLab EXCEPT !.status = "deleted"] /\ gone.status = "deleted" /\ gone.created = Null
    BY Blank
  <2>3. \A l \in Labs : Dated(lab'[l])
    <3> SUFFICES ASSUME NEW l \in Labs PROVE Dated(lab'[l]) OBVIOUS
    <3>1. lab'[l] = gone \/ lab'[l] = lab[l]
      BY <2>1, <2>2
    <3>2. Dated(gone)
      BY <2>2 DEF Dated
    <3> QED BY <1>0, <3>1, <3>2 DEF LabsDated
  <2>4. LabsDated'
    BY <1>2, <2>3 DEF LabsDated, Dated, DeleteTemplate
  <2>5. Clock'
    <3>1. lab' = [l \in Labs |-> lab'[l]] /\ DOMAIN lab' = Labs
      BY <2>1
    <3>2. unstopped' \subseteq Labs /\ templates' \subseteq Templates
      BY <1>0, <1>2 DEF DeleteTemplate, Clock
    <3> QED BY <1>0, <1>2, <3>1, <3>2 DEF Clock, DeleteTemplate
  <2> QED BY <2>4, <2>5 DEF Rowed
<1>3. CASE Tick
  <2>1. now' = now + 1 /\ now' \in 0 .. Horizon /\ lab' = lab
    BY <1>0, <1>3 DEF Tick
  <2>2. LabsDated'
    BY <1>0, <2>1 DEF LabsDated, Dated
  <2>3. shown' \in [Labs -> SUBSET (0 .. Horizon)]
    BY <1>0, <1>3 DEF Tick, Clock
  <2>4. Clock'
    BY <1>0, <1>3, <2>1, <2>3 DEF Clock, Tick
  <2> QED BY <2>2, <2>4 DEF Rowed
<1>4. CASE UNCHANGED vars
  BY <1>0, <1>1, <1>4 DEF vars, Clock
<1>5. ASSUME NEW i \in DOMAIN log, Written(i) PROVE Rowed'
  BY <1>0, <1>1, <1>5 DEF Written, Clock
<1>6. ASSUME NEW i \in DOMAIN log, InsertFails(i) PROVE Rowed'
  <2>0. log[i].lab \in Labs
    <3>1. log[i] \in Events
      BY ElementOfSeq DEF Ordered
    <3> QED BY <3>1 DEF Events
  <2>1. unstopped' \subseteq Labs
    BY <1>0, <1>6, <2>0 DEF InsertFails, Clock
  <2> QED BY <1>1, <1>6, <2>1 DEF InsertFails
<1> QED BY <1>2, <1>3, <1>4, <1>5, <1>6, RowStep DEF Next

-----------------------------------------------------------------------------
(* The log                                                                 *)

\* An event now is the latest.
LEMMA AppendOrdered ==
  ASSUME Rowed, Ordered(log), NEW e \in Events, e.at = now
  PROVE  /\ Ordered(Append(log, e)) /\ Len(Append(log, e)) = Len(log) + 1
         /\ \A i \in 1 .. Len(log) : Append(log, e)[i] = log[i]
         /\ Append(log, e)[Len(log) + 1] = e
<1>1. /\ log \in Seq(Events) /\ Append(log, e) \in Seq(Events) /\ Len(Append(log, e)) = Len(log) + 1
      /\ \A i \in 1 .. Len(log) : Append(log, e)[i] = log[i]
      /\ Append(log, e)[Len(log) + 1] = e
  BY AppendProperties DEF Ordered
<1>2. Len(log) \in Nat /\ DOMAIN log = 1 .. Len(log) /\ DOMAIN Append(log, e) = 1 .. (Len(log) + 1)
  BY <1>1, LenProperties
<1>3. now \in Nat
  BY BoundsAssumption DEF Rowed, Clock
<1>4. PICK s : s = Append(log, e)
  OBVIOUS
<1>5. \A i \in 1 .. Len(log) : s[i] = log[i]
  BY <1>1, <1>4
<1>6. ASSUME NEW i \in 1 .. (Len(log) + 1)
      PROVE  s[i].at <= now /\ \A j \in 1 .. i : s[j].at <= s[i].at
  <2>1. CASE i \in 1 .. Len(log)
    <3>1. s[i] = log[i] /\ \A j \in 1 .. i : s[j] = log[j]
      BY <1>2, <1>5, <2>1
    <3>2. log[i].at <= now /\ \A j \in 1 .. i : log[j].at <= log[i].at
      BY <1>2, <2>1 DEF Ordered
    <3> QED BY <3>1, <3>2
  <2>2. CASE i = Len(log) + 1
    <3>1. s[i] = e
      BY <1>1, <1>4, <2>2
    <3>2. \A j \in 1 .. Len(log) : s[j].at <= now
      BY <1>2, <1>5 DEF Ordered
    <3>3. \A j \in 1 .. i : j = i \/ j \in 1 .. Len(log)
      BY <1>2, <2>2
    <3> QED BY <1>3, <3>1, <3>2, <3>3
  <2> QED BY <1>2, <2>1, <2>2
<1>7. Ordered(s)
  BY <1>1, <1>2, <1>4, <1>6 DEF Ordered
<1> QED BY <1>1, <1>4, <1>7

\* A failed insert closes the gap.
LEMMA RemoveOrdered ==
  ASSUME Ordered(log), NEW i \in DOMAIN log
  PROVE  /\ Ordered(RemoveAt(log, i)) /\ Len(RemoveAt(log, i)) = Len(log) - 1
         /\ \A j \in 1 .. (i - 1) : RemoveAt(log, i)[j] = log[j]
         /\ \A j \in i .. (Len(log) - 1) : RemoveAt(log, i)[j] = log[j + 1]
<1>1. log \in Seq(Events) /\ Len(log) \in Nat /\ DOMAIN log = 1 .. Len(log) /\ i \in 1 .. Len(log)
  BY LenProperties DEF Ordered
<1>2. \A j \in 1 .. Len(log) : log[j] \in Events
  BY <1>1, ElementOfSeq
<1>3. /\ SubSeq(log, 1, i - 1) \in Seq(Events) /\ Len(SubSeq(log, 1, i - 1)) = i - 1
      /\ \A j \in 1 .. (i - 1) : SubSeq(log, 1, i - 1)[j] = log[j]
  <2>1. \A j \in 1 .. (i - 1) : log[j] \in Events
    BY <1>1, <1>2
  <2>2. 1 \in Int /\ i - 1 \in Int
    BY <1>1
  <2>3. /\ SubSeq(log, 1, i - 1) \in Seq(Events)
        /\ Len(SubSeq(log, 1, i - 1)) = IF 1 <= i - 1 THEN (i - 1) - 1 + 1 ELSE 0
        /\ \A j \in 1 .. (i - 1) - 1 + 1 : SubSeq(log, 1, i - 1)[j] = log[1 + j - 1]
    BY <2>1, <2>2, SubSeqProperties
  <2>4. Len(SubSeq(log, 1, i - 1)) = i - 1
    BY <1>1, <2>3
  <2>5. \A j \in 1 .. (i - 1) : j \in 1 .. (i - 1) - 1 + 1 /\ 1 + j - 1 = j
    BY <1>1
  <2>6. \A j \in 1 .. (i - 1) : SubSeq(log, 1, i - 1)[j] = log[j]
    BY <2>3, <2>5
  <2> QED BY <2>3, <2>4, <2>6
<1>4. /\ SubSeq(log, i + 1, Len(log)) \in Seq(Events) /\ Len(SubSeq(log, i + 1, Len(log))) = Len(log) - i
      /\ \A j \in 1 .. (Len(log) - i) : SubSeq(log, i + 1, Len(log))[j] = log[i + j]
  <2>1. \A j \in (i + 1) .. Len(log) : log[j] \in Events
    BY <1>1, <1>2
  <2>2. i + 1 \in Int /\ Len(log) \in Int
    BY <1>1
  <2>3. /\ SubSeq(log, i + 1, Len(log)) \in Seq(Events)
        /\ Len(SubSeq(log, i + 1, Len(log))) = IF i + 1 <= Len(log) THEN Len(log) - (i + 1) + 1 ELSE 0
        /\ \A j \in 1 .. Len(log) - (i + 1) + 1 : SubSeq(log, i + 1, Len(log))[j] = log[(i + 1) + j - 1]
    BY <2>1, <2>2, SubSeqProperties
  <2>4. Len(SubSeq(log, i + 1, Len(log))) = Len(log) - i
    BY <1>1, <2>3
  <2>5. \A j \in 1 .. (Len(log) - i) : j \in 1 .. Len(log) - (i + 1) + 1 /\ (i + 1) + j - 1 = i + j
    BY <1>1
  <2>6. \A j \in 1 .. (Len(log) - i) : SubSeq(log, i + 1, Len(log))[j] = log[i + j]
    BY <2>3, <2>5
  <2> QED BY <2>3, <2>4, <2>6
<1>5. PICK h \in Seq(Events) : /\ h = SubSeq(log, 1, i - 1) /\ Len(h) = i - 1
                               /\ \A j \in 1 .. (i - 1) : h[j] = log[j]
  BY <1>3
<1>6. PICK u \in Seq(Events) : /\ u = SubSeq(log, i + 1, Len(log)) /\ Len(u) = Len(log) - i
                               /\ \A j \in 1 .. (Len(log) - i) : u[j] = log[i + j]
  BY <1>4
<1>7. PICK s : s = h \o u
  OBVIOUS
<1>8. /\ s \in Seq(Events) /\ Len(s) = Len(h) + Len(u)
      /\ \A j \in 1 .. Len(h) + Len(u) : s[j] = IF j <= Len(h) THEN h[j] ELSE u[j - Len(h)]
  BY <1>7, ConcatProperties
<1>9. Len(s) = Len(log) - 1 /\ DOMAIN s = 1 .. (Len(log) - 1)
  BY <1>1, <1>5, <1>6, <1>8, LenProperties
<1>10. \A j \in 1 .. (i - 1) : s[j] = log[j]
  <2> SUFFICES ASSUME NEW j \in 1 .. (i - 1) PROVE s[j] = log[j] OBVIOUS
  <2>1. j \in 1 .. Len(h) + Len(u) /\ j <= Len(h)
    BY <1>1, <1>5, <1>6
  <2> QED BY <1>5, <1>8, <2>1
<1>11. \A j \in i .. (Len(log) - 1) : s[j] = log[j + 1]
  <2> SUFFICES ASSUME NEW j \in i .. (Len(log) - 1) PROVE s[j] = log[j + 1] OBVIOUS
  <2>0. PICK n \in Nat : n = Len(log) /\ Len(h) = i - 1 /\ Len(u) = n - i /\ i \in 1 .. n /\ j \in i .. (n - 1)
    BY <1>1, <1>5, <1>6
  <2>1. /\ j \in 1 .. Len(h) + Len(u) /\ ~(j <= Len(h)) /\ j - Len(h) = j - i + 1
        /\ j - i + 1 \in 1 .. (Len(log) - i) /\ i + (j - i + 1) = j + 1
    <3>1. j \in 1 .. (i - 1) + (n - i) /\ ~(j <= i - 1) /\ j - (i - 1) = j - i + 1
      BY <2>0
    <3>2. j - i + 1 \in 1 .. (n - i) /\ i + (j - i + 1) = j + 1
      BY <2>0
    <3> QED BY <2>0, <3>1, <3>2
  <2>2. s[j] = u[j - i + 1]
    BY <1>8, <2>1
  <2> QED BY <1>6, <2>1, <2>2
<1>12. ASSUME NEW j \in 1 .. (Len(log) - 1)
       PROVE  s[j].at <= now /\ \A k \in 1 .. j : s[k].at <= s[j].at
  <2>1. \A k \in 1 .. (Len(log) - 1) : \E m \in 1 .. Len(log) :
          s[k] = log[m] /\ m = IF k < i THEN k ELSE k + 1
    <3> SUFFICES ASSUME NEW k \in 1 .. (Len(log) - 1)
                 PROVE  \E m \in 1 .. Len(log) : s[k] = log[m] /\ m = IF k < i THEN k ELSE k + 1
      OBVIOUS
    <3>1. CASE k < i
      <4>1. k \in 1 .. (i - 1) /\ k \in 1 .. Len(log)
        BY <1>1, <3>1
      <4> QED BY <1>10, <3>1, <4>1
    <3>2. CASE ~(k < i)
      <4>1. k \in i .. (Len(log) - 1) /\ k + 1 \in 1 .. Len(log)
        BY <1>1, <3>2
      <4> QED BY <1>11, <3>2, <4>1
    <3> QED BY <3>1, <3>2
  <2>2. PICK m \in 1 .. Len(log) : s[j] = log[m] /\ m = IF j < i THEN j ELSE j + 1
    BY <2>1
  <2>3. log[m].at <= now /\ \A k \in 1 .. m : log[k].at <= log[m].at
    BY <1>1 DEF Ordered
  <2>4. ASSUME NEW k \in 1 .. j PROVE s[k].at <= s[j].at
    <3>1. k \in 1 .. (Len(log) - 1)
      BY <1>1
    <3>2. PICK n \in 1 .. Len(log) : s[k] = log[n] /\ n = IF k < i THEN k ELSE k + 1
      BY <2>1, <3>1
    <3>3. n \in 1 .. m
      BY <1>1, <2>2, <3>2
    <3> QED BY <2>2, <2>3, <3>2, <3>3
  <2> QED BY <2>2, <2>3, <2>4
<1>13. Ordered(s)
  BY <1>8, <1>9, <1>12 DEF Ordered
<1>14. s = RemoveAt(log, i)
  BY <1>5, <1>6, <1>7 DEF RemoveAt
<1> QED BY <1>9, <1>10, <1>11, <1>13, <1>14

\* What a step makes of the log.
LEMMA LogStep ==
  ASSUME Rowed, Ordered(log), [Next]_vars
  PROVE  \/ log' = log /\ now' \in {now, now + 1}
         \/ now' = now /\ \E e \in Events : e.at = now /\ e.row = "writing" /\ log' = Append(log, e)
         \/ now' = now /\ \E i \in DOMAIN log : log[i].row = "writing"
              /\ \/ log' = [log EXCEPT ![i] = [log[i] EXCEPT !.row = "written"]]
                 \/ log' = RemoveAt(log, i)
<1>1. ASSUME NEW l \in Labs, NEW kind \in Kinds, Emit(kind, l)
      PROVE  \E e \in Events : e.at = now /\ e.row = "writing" /\ log' = Append(log, e)
  <2>1. now \in 0 .. Horizon
    BY DEF Rowed, Clock
  <2>2. Event(kind, l) \in Events /\ Event(kind, l).at = now /\ Event(kind, l).row = "writing"
    BY <2>1 DEF Event, Events
  <2> QED BY <1>1, <2>2 DEF Emit
<1>2. ASSUME NEW l \in Labs, LabStep(l)
      PROVE  now' = now /\ (log' = log \/ \E kind \in Kinds : Emit(kind, l))
  BY <1>2 DEF LabStep, CreateRow, MarkReady, MarkFailed, EmitsStart, Claim, Begin, CommitFails, CommitSuspend,
     CommitResume, CommitRestart, CommitTerminate, Kinds, Ready, Stopped
<1>3. ASSUME NEW t \in Templates, DeleteTemplate(t) PROVE log' = log /\ now' = now
  BY <1>3 DEF DeleteTemplate
<1>4. ASSUME NEW i \in DOMAIN log, Written(i)
      PROVE  now' = now /\ log[i].row = "writing" /\ log' = [log EXCEPT ![i] = [log[i] EXCEPT !.row = "written"]]
  BY <1>4 DEF Written
<1>5. ASSUME NEW i \in DOMAIN log, InsertFails(i)
      PROVE  now' = now /\ log[i].row = "writing" /\ log' = RemoveAt(log, i)
  BY <1>5 DEF InsertFails
<1>6. CASE Tick \/ UNCHANGED vars
  BY <1>6 DEF Tick, vars
<1> QED BY <1>1, <1>2, <1>3, <1>4, <1>5, <1>6 DEF Next

\* The written event is the one that was emitted.
LEMMA WriteOrdered ==
  ASSUME Ordered(log), NEW i \in DOMAIN log, log' = [log EXCEPT ![i] = [log[i] EXCEPT !.row = "written"]]
  PROVE  /\ Ordered(log') /\ Len(log') = Len(log) /\ DOMAIN log' = DOMAIN log
         /\ \A j \in DOMAIN log \ {i} : log'[j] = log[j]
         /\ \A j \in DOMAIN log : log'[j].at = log[j].at
<1>1. log \in Seq(Events) /\ Len(log) \in Nat /\ DOMAIN log = 1 .. Len(log) /\ i \in 1 .. Len(log)
  BY LenProperties DEF Ordered
<1>2. \A j \in 1 .. Len(log) : log[j] \in Events
  BY <1>1, ElementOfSeq
<1>3. PICK e : e = [log[i] EXCEPT !.row = "written"]
  OBVIOUS
<1>4. e \in Events /\ e.at = log[i].at
  BY <1>1, <1>2, <1>3 DEF Events
<1>5. log' = [log EXCEPT ![i] = e]
  BY <1>3
<1>6. log' \in Seq(Events) /\ Len(log') = Len(log)
  BY <1>1, <1>4, <1>5, ExceptSeq
<1>7. DOMAIN log' = 1 .. Len(log) /\ \A j \in DOMAIN log \ {i} : log'[j] = log[j]
  BY <1>1, <1>5
<1>8. \A j \in DOMAIN log : log'[j].at = log[j].at
  BY <1>1, <1>4, <1>5
<1>9. ASSUME NEW j \in 1 .. Len(log) PROVE log'[j].at <= now /\ \A k \in 1 .. j : log'[k].at <= log'[j].at
  <2>1. log[j].at <= now /\ \A k \in 1 .. j : log[k].at <= log[j].at
    BY <1>1 DEF Ordered
  <2>2. \A k \in 1 .. j : k \in 1 .. Len(log)
    BY <1>1
  <2> QED BY <1>1, <1>8, <2>1, <2>2
<1> QED BY <1>1, <1>6, <1>7, <1>8, <1>9 DEF Ordered

LEMMA OrderedStep == Rowed /\ Ordered(log) /\ [Next]_vars => Ordered(log)'
<1> SUFFICES ASSUME Rowed, Ordered(log), [Next]_vars PROVE Ordered(log)' OBVIOUS
<1>0. now \in Nat /\ \A i \in DOMAIN log : log[i].at \in Nat
  <2>1. now \in Nat
    BY BoundsAssumption DEF Rowed, Clock
  <2>2. ASSUME NEW i \in DOMAIN log PROVE log[i].at \in Nat
    <3>1. log[i] \in Events
      BY ElementOfSeq DEF Ordered
    <3> QED BY <3>1 DEF Events
  <2> QED BY <2>1, <2>2
<1>1. CASE log' = log /\ now' \in {now, now + 1}
  BY <1>0, <1>1 DEF Ordered
<1>2. CASE now' = now /\ \E e \in Events : e.at = now /\ e.row = "writing" /\ log' = Append(log, e)
  <2>1. Ordered(log')
    BY <1>2, AppendOrdered
  <2> QED BY <1>2, <2>1 DEF Ordered
<1>3. CASE now' = now /\ \E i \in DOMAIN log : log' = [log EXCEPT ![i] = [log[i] EXCEPT !.row = "written"]]
  <2>1. Ordered(log')
    BY <1>3, WriteOrdered
  <2> QED BY <1>3, <2>1 DEF Ordered
<1>4. CASE now' = now /\ \E i \in DOMAIN log : log' = RemoveAt(log, i)
  <2>1. Ordered(log')
    BY <1>4, RemoveOrdered
  <2> QED BY <1>4, <2>1 DEF Ordered
<1> QED BY <1>1, <1>2, <1>3, <1>4, LogStep

LEMMA OrderedInit == Init => Ordered(log)
<1>1. <<>> \in Seq(Events) /\ DOMAIN <<>> = {}
  OBVIOUS
<1> QED BY <1>1 DEF Init, Ordered

LEMMA Typed == Rowed /\ Ordered(log) => TypeOK
<1> SUFFICES ASSUME Rowed, Ordered(log) PROVE TypeOK OBVIOUS
<1>1. \A l \in Labs : lab[l] \in LabRows
  BY DEF Rowed, LabsDated, Dated
<1>2. lab \in [Labs -> LabRows]
  BY <1>1 DEF Rowed, Clock
<1>3. ASSUME NEW l \in Labs PROVE (lab[l].status \notin {"none", "deleted"}) = (lab[l].created # Null)
  <2>1. Dated(lab[l]) /\ Null \notin 0 .. now
    BY BoundsAssumption DEF Rowed, LabsDated, Clock, Null
  <2> QED BY <2>1 DEF Dated
<1> QED BY <1>2, <1>3 DEF TypeOK, Rowed, Clock, Ordered

\* The rows and the log have their types, and the log is in the order of its
\* stamps, whatever overlaps and whichever inserts fail (metering.ts).
THEOREM TypeCorrect == Spec => []TypeOK
<1> QED BY RowedInit, OrderedInit, RowedStep, OrderedStep, Typed, PTL DEF Spec

-----------------------------------------------------------------------------
(* The cost report                                                         *)

LEMMA MaxOfTwo == ASSUME NEW x \in Int, NEW y \in Int PROVE Max({x, y}) = IF x >= y THEN x ELSE y
<1>1. \E z \in {x, y} : \A w \in {x, y} : z >= w
  OBVIOUS
<1>2. PICK z : z = Max({x, y})
  OBVIOUS
<1>3. z \in {x, y} /\ \A w \in {x, y} : z >= w
  BY <1>1, <1>2 DEF Max
<1>4. z = IF x >= y THEN x ELSE y
  BY <1>3
<1> QED BY <1>2, <1>4

LEMMA MinOfTwo == ASSUME NEW x \in Int, NEW y \in Int PROVE Min({x, y}) = IF x <= y THEN x ELSE y
<1>1. \E z \in {x, y} : \A w \in {x, y} : z <= w
  OBVIOUS
<1>2. PICK z : z = Min({x, y})
  OBVIOUS
<1>3. z \in {x, y} /\ \A w \in {x, y} : z <= w
  BY <1>1, <1>2 DEF Min
<1>4. z = IF x <= y THEN x ELSE y
  BY <1>3
<1> QED BY <1>2, <1>4

Charged(l) == l \in Assigned /\ lab[l].template \in templates

\* The three queries together find the ticks of the life that are in the window.
LEMMA CostIs ==
  ASSUME Rowed, NEW l \in Labs, NEW a \in Nat, NEW b \in Nat, a <= b
  PROVE  CostTicks(l, a, b) =
           IF Charged(l) THEN {t \in a .. (b - 1) : lab[l].created <= t /\ t < Ended(l)} ELSE {}
<1>1. CASE ~Charged(l)
  BY <1>1 DEF CostTicks, Charged
<1>2. CASE Charged(l)
  <2>1. Exists(l)
    BY <1>2 DEF Charged, Assigned, Rows
  <2>2. /\ now \in Nat /\ lab[l].created \in 0 .. now
        /\ lab[l].ended = Null \/ lab[l].ended \in lab[l].created .. now
    BY <2>1, BoundsAssumption DEF Rowed, Clock, LabsDated, Dated, Exists
  <2>3. PICK c \in Nat : c = lab[l].created /\ c <= now
    BY <2>2
  <2>4. PICK e \in Nat : e = Ended(l) /\ c <= e /\ e <= now /\ (lab[l].ended = Null \/ lab[l].ended = e)
    BY <2>2, <2>3 DEF Ended
  <2>5. CASE Touching(l, a, b)
    <3>1. CostTicks(l, a, b) = Ticks(Max({c, a}), Min({e, b}))
      BY <1>2, <2>3, <2>4, <2>5 DEF CostTicks, Charged
    <3>2. Max({c, a}) = (IF c >= a THEN c ELSE a) /\ Min({e, b}) = (IF e <= b THEN e ELSE b)
      BY MaxOfTwo, MinOfTwo
    <3>3. Ticks(Max({c, a}), Min({e, b})) = {t \in a .. (b - 1) : c <= t /\ t < e}
      BY <3>2 DEF Ticks
    <3> QED BY <1>2, <2>3, <2>4, <3>1, <3>3
  <2>6. CASE ~Touching(l, a, b)
    <3>1. ~(a <= c /\ c < b)
      BY <2>3, <2>6 DEF Touching, Between
    <3>2. c < a => lab[l].ended # Null /\ lab[l].ended < b
      BY <2>3, <2>2, <2>6 DEF Touching, Spanning, Null
    <3>3. c < a => lab[l].ended = e /\ e < b /\ ~(a <= e)
      BY <2>4, <2>6, <3>2 DEF Touching, Between
    <3>4. {t \in a .. (b - 1) : c <= t /\ t < e} = {}
      BY <3>1, <3>3
    <3>5. CostTicks(l, a, b) = {}
      BY <2>6 DEF CostTicks
    <3> QED BY <1>2, <2>3, <2>4, <3>4, <3>5
  <2> QED BY <2>5, <2>6
<1> QED BY <1>1, <1>2

\* Every tick of a lab's life is charged in exactly one of two adjacent windows:
\* the three queries of the cost report miss and repeat none (reports.ts, cost).
THEOREM Tiles == Spec => []CostTiles
<1>1. Rowed => CostTiles
  <2> SUFFICES ASSUME Rowed, NEW l \in Labs, NEW c \in 0 .. (now + 1), NEW b \in 0 .. (c - 1), NEW a \in 0 .. (b - 1)
               PROVE  /\ CostTicks(l, a, b) \cup CostTicks(l, b, c) = CostTicks(l, a, c)
                      /\ CostTicks(l, a, b) \cap CostTicks(l, b, c) = {}
    BY DEF CostTiles
  <2>1. now \in Nat
    BY BoundsAssumption DEF Rowed, Clock
  <2>2. a \in Nat /\ b \in Nat /\ c \in Nat /\ a <= b /\ b <= c /\ a <= c
    BY <2>1
  <2>3. CASE ~Charged(l)
    <3>1. CostTicks(l, a, b) = {} /\ CostTicks(l, b, c) = {} /\ CostTicks(l, a, c) = {}
      BY <2>2, <2>3, CostIs
    <3> QED BY <3>1
  <2>4. CASE Charged(l)
    <3>1. PICK x, y : x = lab[l].created /\ y = Ended(l)
      OBVIOUS
    <3>2. /\ CostTicks(l, a, b) = {t \in a .. (b - 1) : x <= t /\ t < y}
          /\ CostTicks(l, b, c) = {t \in b .. (c - 1) : x <= t /\ t < y}
          /\ CostTicks(l, a, c) = {t \in a .. (c - 1) : x <= t /\ t < y}
      BY <2>2, <2>4, <3>1, CostIs
    <3>3. \A t : t \in a .. (c - 1) <=> t \in a .. (b - 1) \/ t \in b .. (c - 1)
      BY <2>2
    <3>4. \A t : ~(t \in a .. (b - 1) /\ t \in b .. (c - 1))
      BY <2>2
    <3> QED BY <3>2, <3>3, <3>4
  <2> QED BY <2>3, <2>4
<1> QED BY <1>1, RowedInit, OrderedInit, RowedStep, OrderedStep, PTL DEF Spec

-----------------------------------------------------------------------------
(* The hours report                                                        *)

LEMMA Least ==
  ASSUME NEW S \in SUBSET Nat, S # {}
  PROVE  \E x \in S : \A y \in S : x <= y
<1>1. \E x \in S : \A y \in S : ~ (<<y, x>> \in OpToRel(<, Nat))
  BY NatLessThanWellFounded, WFMin
<1>2. \A x, y \in Nat : y < x => <<y, x>> \in OpToRel(<, Nat)
  BY DEF OpToRel
<1>3. PICK x \in S : \A y \in S : ~ (<<y, x>> \in OpToRel(<, Nat))
  BY <1>1
<1>4. ASSUME NEW y \in S PROVE x <= y
  <2>1. x \in Nat /\ y \in Nat /\ ~(y < x)
    BY <1>2, <1>3
  <2> QED BY <2>1
<1> QED BY <1>4

\* The hours depend on the recorded events of the window alone.
LEMMA SameEvents ==
  ASSUME Ordered(log), NEW l \in Labs, NEW a, NEW b,
         Lifecycle(l, a, b)' = Lifecycle(l, a, b),
         \A i \in Lifecycle(l, a, b) : log'[i].kind = log[i].kind /\ log'[i].at = log[i].at
  PROVE  Billed(l, a, b)' = Billed(l, a, b)
<1>1. PICK L : L = Lifecycle(l, a, b)
  OBVIOUS
<1>2. \A i : Later(l, i, a, b)' = Later(l, i, a, b) /\ Later(l, i, a, b) \subseteq L
  BY <1>1 DEF Later
<1>3. ASSUME NEW i \in L PROVE Interval(l, i, a, b)' = Interval(l, i, a, b)
  <2>1. PICK R \in SUBSET L : R = Later(l, i, a, b) /\ R = Later(l, i, a, b)'
    BY <1>2
  <2>2. log'[i].at = log[i].at
    BY <1>1
  <2>3. CASE R = {}
    BY <2>1, <2>2, <2>3 DEF Interval
  <2>4. CASE R # {} /\ Min(R) \in L
    <3>1. log'[Min(R)].kind = log[Min(R)].kind /\ log'[Min(R)].at = log[Min(R)].at
      BY <1>1, <2>4
    <3> QED BY <2>1, <2>2, <2>4, <3>1 DEF Interval
  <2>5. R # {} => Min(R) \in L
    <3> SUFFICES ASSUME R # {} PROVE Min(R) \in R BY <2>1
    <3>1. R \in SUBSET Nat
      <4>1. L \subseteq DOMAIN log
        BY <1>1 DEF Lifecycle, Recorded
      <4>2. DOMAIN log \subseteq Nat
        BY LenProperties DEF Ordered
      <4> QED BY <4>1, <4>2
    <3>2. \E x \in R : \A y \in R : x <= y
      BY <3>1, Least
    <3> QED BY <3>2 DEF Min
  <2> QED BY <2>3, <2>4, <2>5
<1>4. {j \in L : log'[j].kind \in Ready} = {j \in L : log[j].kind \in Ready}
  BY <1>1
<1>5. Lifecycle(l, a, b)' = L
  BY <1>1
<1>6. Billed(l, a, b)' = UNION {Interval(l, i, a, b)' : i \in {j \in L : log'[j].kind \in Ready}}
  BY <1>5 DEF Billed
<1>7. Billed(l, a, b) = UNION {Interval(l, i, a, b) : i \in {j \in L : log[j].kind \in Ready}}
  BY <1>1 DEF Billed
<1> QED BY <1>3, <1>4, <1>6, <1>7

\* No step touches a recorded event, or adds one to a window that is past.
LEMMA PastStands ==
  ASSUME Rowed, Ordered(log), [Next]_vars, NEW l \in Labs, NEW a \in Nat, NEW b \in 0 .. now,
         AllWrittenBefore(b)
  PROVE  /\ Lifecycle(l, a, b)' = Lifecycle(l, a, b)
         /\ \A i \in Lifecycle(l, a, b) : log'[i].kind = log[i].kind /\ log'[i].at = log[i].at
<1> DEFINE In(i) == /\ log[i].row = "written" /\ log[i].kind \in Ready \cup Stopped
                    /\ Between(log[i].at, a, b) /\ log[i].lab = l
<1> DEFINE InNext(i) == /\ log'[i].row = "written" /\ log'[i].kind \in Ready \cup Stopped
                        /\ Between(log'[i].at, a, b) /\ log'[i].lab = l
<1>1. Lifecycle(l, a, b) = {i \in DOMAIN log : In(i)} /\ Lifecycle(l, a, b)' = {i \in DOMAIN log' : InNext(i)}
  BY DEF Lifecycle, Recorded
<1>2. /\ now \in Nat /\ b \in Nat /\ b <= now
      /\ log \in Seq(Events) /\ Len(log) \in Nat /\ DOMAIN log = 1 .. Len(log)
  BY BoundsAssumption, LenProperties DEF Rowed, Clock, Ordered
<1>3. \A i \in DOMAIN log : log[i].at \in Nat /\ (In(i) => log[i].at < b)
  <2> SUFFICES ASSUME NEW i \in DOMAIN log PROVE log[i].at \in Nat /\ (In(i) => log[i].at < b)
    OBVIOUS
  <2>1. log[i] \in Events
    BY <1>2, ElementOfSeq
  <2> QED BY <2>1 DEF Events, Between
<1>4. \A i \in DOMAIN log : log[i].row = "writing" => b <= log[i].at
  BY <1>2, <1>3 DEF AllWrittenBefore
<1>5. \A e : b <= e.at /\ e.at \in Nat => ~Between(e.at, a, b)
  BY <1>2 DEF Between
<1> SUFFICES ASSUME NEW i
             PROVE  /\ i \in DOMAIN log' /\ InNext(i) <=> i \in DOMAIN log /\ In(i)
                    /\ i \in DOMAIN log /\ In(i) => log'[i] = log[i]
  BY <1>1
<1>6. CASE log' = log
  BY <1>6
<1>7. CASE \E e \in Events : e.at = now /\ e.row = "writing" /\ log' = Append(log, e)
  <2>1. PICK e \in Events : e.at = now /\ e.row = "writing" /\ log' = Append(log, e)
    BY <1>7
  <2>2. /\ Ordered(log') /\ Len(log') = Len(log) + 1
        /\ \A j \in 1 .. Len(log) : log'[j] = log[j]
        /\ log'[Len(log) + 1] = e
    BY <2>1, AppendOrdered
  <2>3. DOMAIN log' = 1 .. (Len(log) + 1)
    BY <2>2, LenProperties DEF Ordered
  <2>4. CASE i \in 1 .. Len(log)
    BY <1>2, <2>2, <2>3, <2>4
  <2>5. CASE i \notin 1 .. Len(log)
    <3>1. i \in DOMAIN log' => i = Len(log) + 1
      BY <1>2, <2>3, <2>5
    <3>2. i \in DOMAIN log' => log'[i].row # "written"
      BY <2>1, <2>2, <3>1
    <3> QED BY <1>2, <2>5, <3>2
  <2> QED BY <2>4, <2>5
<1>8. CASE \E k \in DOMAIN log : log[k].row = "writing" /\ log' = [log EXCEPT ![k] = [log[k] EXCEPT !.row = "written"]]
  <2>1. PICK k \in DOMAIN log : log[k].row = "writing" /\ log' = [log EXCEPT ![k] = [log[k] EXCEPT !.row = "written"]]
    BY <1>8
  <2>2. /\ DOMAIN log' = DOMAIN log /\ \A j \in DOMAIN log \ {k} : log'[j] = log[j]
        /\ \A j \in DOMAIN log : log'[j].at = log[j].at
    BY <2>1, WriteOrdered
  <2>3. CASE i = k
    <3>1. b <= log[k].at /\ log[k].at \in Nat /\ log'[k].at = log[k].at
      BY <1>3, <1>4, <2>1, <2>2
    <3>2. ~Between(log[k].at, a, b)
      BY <1>5, <3>1
    <3> QED BY <2>3, <3>1, <3>2
  <2>4. CASE i # k
    BY <2>2, <2>4
  <2> QED BY <2>3, <2>4
<1>9. CASE \E k \in DOMAIN log : log[k].row = "writing" /\ log' = RemoveAt(log, k)
  <2>1. PICK k \in DOMAIN log : log[k].row = "writing" /\ log' = RemoveAt(log, k)
    BY <1>9
  <2>2. /\ Ordered(log') /\ Len(log') = Len(log) - 1
        /\ \A j \in 1 .. (k - 1) : log'[j] = log[j]
        /\ \A j \in k .. (Len(log) - 1) : log'[j] = log[j + 1]
    BY <2>1, RemoveOrdered
  <2>3. DOMAIN log' = 1 .. (Len(log) - 1)
    BY <2>2, LenProperties DEF Ordered
  <2>4. \A j \in k .. Len(log) : b <= log[j].at /\ log[j].at \in Nat
    <3> SUFFICES ASSUME NEW j \in k .. Len(log) PROVE b <= log[j].at /\ log[j].at \in Nat OBVIOUS
    <3>1. j \in DOMAIN log /\ k \in 1 .. j /\ k \in DOMAIN log
      BY <1>2, <2>1
    <3>2. log[k].at <= log[j].at
      BY <3>1 DEF Ordered
    <3>3. b <= log[k].at /\ log[k].at \in Nat /\ log[j].at \in Nat
      BY <1>3, <1>4, <2>1, <3>1
    <3> QED BY <1>2, <3>2, <3>3
  <2>5. CASE i \in 1 .. (k - 1)
    <3>1. i \in DOMAIN log /\ i \in DOMAIN log'
      BY <1>2, <2>1, <2>3, <2>5
    <3> QED BY <2>2, <2>5, <3>1
  <2>6. CASE i \notin 1 .. (k - 1)
    <3>1. i \in DOMAIN log => i \in k .. Len(log)
      BY <1>2, <2>1, <2>6
    <3>2. ~(i \in DOMAIN log /\ In(i))
      BY <1>5, <2>4, <3>1
    <3>3. i \in DOMAIN log' => i \in k .. (Len(log) - 1) /\ i + 1 \in k .. Len(log)
      BY <1>2, <2>1, <2>3, <2>6
    <3>4. ~(i \in DOMAIN log' /\ InNext(i))
      <4> SUFFICES ASSUME i \in DOMAIN log' PROVE ~Between(log'[i].at, a, b) OBVIOUS
      <4>1. log'[i] = log[i + 1] /\ b <= log[i + 1].at /\ log[i + 1].at \in Nat
        BY <2>2, <2>4, <3>3
      <4> QED BY <1>5, <4>1
    <3> QED BY <3>2, <3>4
  <2> QED BY <2>5, <2>6
<1> QED BY <1>6, <1>7, <1>8, <1>9, LogStep

\* The hours of a window that is past and written are final, whatever is
\* resumed, destroyed or deleted later (reports.ts, compute hours).
THEOREM PastIsFinal == Spec => ClosedWindowIsFinal
<1> DEFINE Final == \A b \in 0 .. now : AllWrittenBefore(b) =>
                      \A l \in Labs, a \in 0 .. (b - 1) : Billed(l, a, b)' = Billed(l, a, b)
<1>1. Rowed /\ Ordered(log) /\ [Next]_vars => Final
  <2> SUFFICES ASSUME Rowed, Ordered(log), [Next]_vars, NEW b \in 0 .. now, NEW a \in 0 .. (b - 1),
                      AllWrittenBefore(b), NEW l \in Labs
               PROVE  Billed(l, a, b)' = Billed(l, a, b)
    OBVIOUS
  <2>1. a \in Nat
    BY BoundsAssumption DEF Rowed, Clock
  <2> QED BY <2>1, PastStands, SameEvents
<1> QED BY <1>1, RowedInit, OrderedInit, RowedStep, OrderedStep, PTL DEF Spec, ClosedWindowIsFinal

-----------------------------------------------------------------------------
(* Why hours are never overcharged                                         *)

\* The starts of a lab in the log, written or not, and the stops after one.
Started(l) == {i \in DOMAIN log : log[i].lab = l /\ log[i].kind \in Ready}
StopsAfter(l, i) == {j \in DOMAIN log : j > i /\ log[j].lab = l /\ log[j].kind \in Stopped}

\* A lab that is not there yet, or still being provisioned, has not started,
\* owes no start, and nothing but a destroy is in flight on it.
Unstarted(l) ==
  /\ "provision" \in op[l] =>
       /\ Started(l) = {} /\ lab[l].box = "none" /\ lab[l].status # "ready"
       /\ op[l] \subseteq {"provision", "terminate"}
  /\ lab[l].status = "none" => Started(l) = {} /\ op[l] = {}

\* Since each start, every tick saw the row 'ready' or came after a stop of the
\* lab, unless one of its stops is off the record or before a late start; and
\* the tick that is under way will.
Accounted(l) ==
  l \notin unstopped => \A i \in Started(l) :
    /\ lab[l].status = "ready" \/ StopsAfter(l, i) # {}
    /\ \A t \in log[i].at .. (now - 1) :
         t \in shown[l] \/ \E j \in StopsAfter(l, i) : log[j].at <= t

HoursInv == \A l \in Labs : Unstarted(l) /\ Accounted(l)

\* What a step of a lab makes of its row, its operations and the log.
LEMMA LabEffects ==
  ASSUME Rowed, NEW l \in Labs, LabStep(l)
  PROVE  /\ now' = now /\ shown' = shown /\ unstopped \subseteq unstopped'
         /\ \A m \in Labs \ {l} : lab'[m] = lab[m] /\ op'[m] = op[m]
         /\ \/ /\ lab[l].status = "none" /\ log' = log
               /\ lab'[l].status = "provisioning" /\ lab'[l].box = "none"
               /\ op'[l] = op[l] \cup {"provision"}
            \/ /\ "provision" \in op[l] /\ log' = log
               /\ \E due \in SUBSET {"instance_ready"} : op'[l] = (op[l] \ {"provision"}) \cup due
               /\ \/ Exists(l) /\ lab'[l].status \in {"ready", "failed"}
                  \/ lab' = lab
            \/ \E kind \in Ready :
               /\ kind \in op[l] /\ op'[l] = op[l] \ {kind} /\ lab' = lab /\ Emit(kind, l)
               /\ lab[l].status = "ready" \/ l \in unstopped'
            \/ /\ lab[l].status = "ready" /\ lab'[l].status = "ready"
               /\ lab'[l].box = lab[l].box /\ op'[l] = op[l] /\ Emit("instance_ready", l)
            \/ /\ Exists(l) /\ lab'[l].status = lab[l].status /\ log' = log
               /\ lab[l].box = "none" => lab'[l].box = "none"
               /\ \E k \in Power : /\ op'[l] = op[l] \cup {k}
                                   /\ k # "terminate" => lab[l].box # "none"
            \/ /\ "resume" \in op[l] /\ op'[l] = (op[l] \ {"resume"}) \cup {"instance_resumed"}
               /\ Exists(l) /\ lab'[l].status = "ready" /\ lab'[l].box = lab[l].box /\ log' = log
            \/ \E k \in Power :
               /\ k \in op[l] /\ op'[l] = op[l] \ {k} /\ lab'[l].box = lab[l].box
               /\ \/ lab' = lab /\ log' = log
                  \/ /\ Exists(l)
                     /\ \/ k = "suspend" /\ lab'[l].status = "paused" /\ Emit("instance_paused", l)
                        \/ k = "restart" /\ lab'[l].status = "ready" /\ log' = log
                        \/ /\ k = "terminate" /\ lab'[l].status = "terminated"
                           /\ Emit("instance_terminated", l)
<1>0. /\ lab[l] \in LabRows /\ DOMAIN lab = Labs /\ lab = [m \in Labs |-> lab[m]]
      /\ op \in [Labs -> SUBSET (Power \cup Ready \cup {"provision"})]
  <2>1. lab[l] \in LabRows
    BY RowFields
  <2> QED BY <2>1 DEF Rowed, Clock
<1>1. \A r, m : lab' = [lab EXCEPT ![l] = r] /\ m \in Labs => lab'[m] = IF m = l THEN r ELSE lab[m]
  BY <1>0
<1>2. \A S, m : op' = [op EXCEPT ![l] = S] /\ m \in Labs => op'[m] = IF m = l THEN S ELSE op[m]
  BY <1>0
<1>s. ASSUME NEW k, Starts(l, k)
      PROVE  op'[l] = op[l] \cup {k} /\ \A m \in Labs \ {l} : op'[m] = op[m]
  BY <1>0, <1>s DEF Starts
<1>e. ASSUME NEW k, Ends(l, k)
      PROVE  k \in op[l] /\ op'[l] = op[l] \ {k} /\ \A m \in Labs \ {l} : op'[m] = op[m]
  BY <1>0, <1>e DEF Ends
<1>f. ASSUME NEW k, NEW kind, Follows(l, k, kind)
      PROVE  /\ k \in op[l] /\ op'[l] = (op[l] \ {k}) \cup {kind}
             /\ \A m \in Labs \ {l} : op'[m] = op[m]
  BY <1>0, <1>f DEF Follows
<1>st. ASSUME NEW st, lab' = [lab EXCEPT ![l].status = st]
       PROVE  /\ lab'[l].status = st /\ lab'[l].box = lab[l].box
              /\ \A m \in Labs \ {l} : lab'[m] = lab[m]
  <2>1. lab'[l] = [lab[l] EXCEPT !.status = st]
    BY <1>0, <1>st
  <2>2. [lab[l] EXCEPT !.status = st].status = st /\ [lab[l] EXCEPT !.status = st].box = lab[l].box
    BY <1>0 DEF LabRows
  <2> QED BY <1>0, <1>st, <2>1, <2>2
<1>3. ASSUME NEW t \in Templates, NEW pooled \in BOOLEAN, CreateRow(l, t, pooled)
      PROVE  /\ lab[l].status = "none" /\ log' = log
             /\ lab'[l].status = "provisioning" /\ lab'[l].box = "none"
             /\ op'[l] = op[l] \cup {"provision"}
             /\ \A m \in Labs \ {l} : lab'[m] = lab[m] /\ op'[m] = op[m]
  <2>1. PICK r : r = [NewLab EXCEPT !.status = "provisioning", !.pooled = pooled, !.template = t, !.created = now]
    OBVIOUS
  <2>2. r.status = "provisioning" /\ r.box = "none"
    BY <2>1 DEF NewLab
  <2>3. \A m \in Labs : lab'[m] = IF m = l THEN r ELSE lab[m]
    BY <1>1, <1>3, <2>1 DEF CreateRow
  <2> QED BY <1>s, <1>3, <2>2, <2>3 DEF CreateRow
<1>4. ASSUME MarkReady(l)
      PROVE  /\ "provision" \in op[l] /\ log' = log
             /\ \E due \in SUBSET {"instance_ready"} : op'[l] = (op[l] \ {"provision"}) \cup due
             /\ \/ Exists(l) /\ lab'[l].status = "ready"
                \/ lab' = lab
             /\ \A m \in Labs \ {l} : lab'[m] = lab[m] /\ op'[m] = op[m]
  <2>1. /\ "provision" \in op[l] /\ log' = log
        /\ \E due \in SUBSET {"instance_ready"} : op'[l] = (op[l] \ {"provision"}) \cup due
        /\ \A m \in Labs \ {l} : op'[m] = op[m]
    <3>1. CASE Follows(l, "provision", "instance_ready")
      BY <1>f, <1>4, <3>1 DEF MarkReady
    <3>2. CASE Ends(l, "provision")
      <4>1. op'[l] = (op[l] \ {"provision"}) \cup {} /\ {} \in SUBSET {"instance_ready"}
        BY <1>e, <3>2
      <4> QED BY <1>e, <1>4, <3>2, <4>1 DEF MarkReady
    <3> QED BY <1>4, <3>1, <3>2 DEF MarkReady
  <2>2. CASE Exists(l)
    <3>1. PICK r : r = [lab[l] EXCEPT !.status = "ready", !.box = "up"]
      OBVIOUS
    <3>2. lab' = [lab EXCEPT ![l] = r]
      <4>1. lab' = [lab EXCEPT ![l].status = "ready", ![l].box = "up"]
        BY <1>4, <2>2 DEF MarkReady
      <4> QED BY <1>0, <3>1, <4>1
    <3>3. \A m \in Labs : lab'[m] = IF m = l THEN r ELSE lab[m]
      BY <1>1, <3>2
    <3>4. r.status = "ready"
      BY <3>1, RowFields
    <3> QED BY <2>1, <2>2, <3>3, <3>4
  <2>3. CASE ~Exists(l)
    BY <1>4, <2>1, <2>3 DEF MarkReady
  <2> QED BY <2>2, <2>3
<1>5. ASSUME MarkFailed(l)
      PROVE  /\ "provision" \in op[l] /\ op'[l] = op[l] \ {"provision"} /\ log' = log
             /\ (Exists(l) /\ lab'[l].status = "failed") \/ lab' = lab
             /\ \A m \in Labs \ {l} : lab'[m] = lab[m] /\ op'[m] = op[m]
  BY <1>e, <1>st, <1>5 DEF MarkFailed
<1>6. ASSUME Claim(l)
      PROVE  /\ lab[l].status = "ready" /\ lab'[l].status = "ready"
             /\ lab'[l].box = lab[l].box /\ op'[l] = op[l] /\ Emit("instance_ready", l)
             /\ \A m \in Labs \ {l} : lab'[m] = lab[m] /\ op'[m] = op[m]
  <2>1. lab'[l] = [lab[l] EXCEPT !.pooled = FALSE]
    BY <1>0, <1>6 DEF Claim
  <2>2. /\ [lab[l] EXCEPT !.pooled = FALSE].status = lab[l].status
        /\ [lab[l] EXCEPT !.pooled = FALSE].box = lab[l].box
    BY <1>0 DEF LabRows
  <2> QED BY <1>0, <1>6, <2>1, <2>2 DEF Claim
<1>7. ASSUME NEW k \in Power, Begin(l, k)
      PROVE  /\ Exists(l) /\ lab'[l].status = lab[l].status /\ log' = log
             /\ lab[l].box = "none" => lab'[l].box = "none"
             /\ op'[l] = op[l] \cup {k} /\ (k # "terminate" => lab[l].box # "none")
             /\ \A m \in Labs \ {l} : lab'[m] = lab[m] /\ op'[m] = op[m]
  <2>1. PICK b : lab' = [lab EXCEPT ![l].box = b] /\ (lab[l].box = "none" => b = "none")
    BY <1>7 DEF Begin
  <2>2. lab'[l] = [lab[l] EXCEPT !.box = b]
    BY <1>0, <2>1
  <2>3. [lab[l] EXCEPT !.box = b].status = lab[l].status /\ [lab[l] EXCEPT !.box = b].box = b
    BY <1>0 DEF LabRows
  <2> QED BY <1>0, <1>s, <1>7, <2>1, <2>2, <2>3 DEF Begin
<1>8. ASSUME NEW k \in Power, CommitFails(l, k)
      PROVE  /\ k \in op[l] /\ op'[l] = op[l] \ {k} /\ lab' = lab /\ log' = log
             /\ \A m \in Labs \ {l} : op'[m] = op[m]
  BY <1>e, <1>8 DEF CommitFails
<1>9. ASSUME CommitSuspend(l)
      PROVE  /\ "suspend" \in op[l] /\ op'[l] = op[l] \ {"suspend"} /\ lab'[l].box = lab[l].box
             /\ Exists(l) /\ lab'[l].status = "paused" /\ Emit("instance_paused", l)
             /\ \A m \in Labs \ {l} : lab'[m] = lab[m] /\ op'[m] = op[m]
  BY <1>e, <1>st, <1>9 DEF CommitSuspend
<1>10. ASSUME CommitResume(l)
       PROVE  /\ "resume" \in op[l] /\ op'[l] = (op[l] \ {"resume"}) \cup {"instance_resumed"}
              /\ Exists(l) /\ lab'[l].status = "ready" /\ lab'[l].box = lab[l].box /\ log' = log
              /\ \A m \in Labs \ {l} : lab'[m] = lab[m] /\ op'[m] = op[m]
  BY <1>f, <1>st, <1>10 DEF CommitResume
<1>es. ASSUME NEW kind \in Ready, EmitsStart(l, kind)
       PROVE  /\ kind \in op[l] /\ op'[l] = op[l] \ {kind} /\ lab' = lab /\ Emit(kind, l)
              /\ lab[l].status = "ready" \/ l \in unstopped'
              /\ \A m \in Labs \ {l} : op'[m] = op[m]
  BY <1>e, <1>es DEF EmitsStart
<1>11. ASSUME CommitRestart(l)
       PROVE  /\ "restart" \in op[l] /\ op'[l] = op[l] \ {"restart"} /\ lab'[l].box = lab[l].box
              /\ Exists(l) /\ lab'[l].status = "ready" /\ log' = log
              /\ \A m \in Labs \ {l} : lab'[m] = lab[m] /\ op'[m] = op[m]
  BY <1>e, <1>st, <1>11 DEF CommitRestart
<1>12. ASSUME CommitTerminate(l)
       PROVE  /\ "terminate" \in op[l] /\ op'[l] = op[l] \ {"terminate"} /\ lab'[l].box = lab[l].box
              /\ Exists(l) /\ lab'[l].status = "terminated" /\ Emit("instance_terminated", l)
              /\ \A m \in Labs \ {l} : lab'[m] = lab[m] /\ op'[m] = op[m]
  <2>1. lab'[l] = [lab[l] EXCEPT !.status = "terminated", !.ended = now]
    <3>1. lab' = [lab EXCEPT ![l].status = "terminated", ![l].ended = now]
      BY <1>12 DEF CommitTerminate
    <3> QED BY <1>0, <3>1
  <2>2. LET r == [lab[l] EXCEPT !.status = "terminated", !.ended = now]
        IN  r.status = "terminated" /\ r.box = lab[l].box
    BY <1>0 DEF LabRows
  <2>3. \A m \in Labs \ {l} : lab'[m] = lab[m]
    BY <1>0, <1>12 DEF CommitTerminate
  <2> QED BY <1>e, <1>12, <2>1, <2>2, <2>3 DEF CommitTerminate
<1>13. now' = now /\ shown' = shown /\ unstopped \subseteq unstopped'
  BY DEF LabStep, CreateRow, MarkReady, MarkFailed, EmitsStart, Claim, Begin, CommitFails, CommitSuspend,
         CommitResume, CommitRestart, CommitTerminate
<1>14. {"suspend", "resume", "restart", "terminate"} = Power
  BY DEF Power
<1>15. CASE \E t \in Templates, pooled \in BOOLEAN : CreateRow(l, t, pooled)
  BY <1>3, <1>13, <1>15
<1>16. CASE MarkReady(l)
  BY <1>4, <1>13, <1>16
<1>17. CASE MarkFailed(l)
  <2>1. op'[l] = (op[l] \ {"provision"}) \cup {} /\ {} \in SUBSET {"instance_ready"}
    BY <1>5, <1>17
  <2> QED BY <1>5, <1>13, <1>17, <2>1
<1>25. CASE \E kind \in Ready : EmitsStart(l, kind)
  <2>1. PICK kind \in Ready : EmitsStart(l, kind)
    BY <1>25
  <2> QED BY <1>es, <1>13, <2>1
<1>18. CASE Claim(l)
  BY <1>6, <1>13, <1>18
<1>19. CASE \E k \in Power : Begin(l, k)
  BY <1>7, <1>13, <1>19
<1>20. CASE \E k \in Power : CommitFails(l, k)
  <2>1. PICK k \in Power : CommitFails(l, k)
    BY <1>20
  <2> QED BY <1>8, <1>13, <2>1
<1>21. CASE CommitSuspend(l)
  BY <1>9, <1>13, <1>14, <1>21
<1>22. CASE CommitResume(l)
  BY <1>10, <1>13, <1>14, <1>22
<1>23. CASE CommitRestart(l)
  BY <1>11, <1>13, <1>14, <1>23
<1>24. CASE CommitTerminate(l)
  BY <1>12, <1>13, <1>14, <1>24
<1> QED
  BY <1>15, <1>16, <1>17, <1>18, <1>19, <1>20, <1>21, <1>22, <1>23, <1>24, <1>25 DEF LabStep

\* An emitted event is the last of the log.
LEMMA Emitted ==
  ASSUME Rowed, Ordered(log), NEW l \in Labs, NEW kind \in Kinds, Emit(kind, l)
  PROVE  /\ Len(log) \in Nat /\ DOMAIN log = 1 .. Len(log) /\ DOMAIN log' = 1 .. (Len(log) + 1)
         /\ \A i \in DOMAIN log : log'[i] = log[i]
         /\ LET e == log'[Len(log) + 1] IN e.kind = kind /\ e.lab = l /\ e.at = now
<1>1. now \in 0 .. Horizon
  BY DEF Rowed, Clock
<1>e. /\ Event(kind, l) \in Events /\ Event(kind, l).kind = kind
      /\ Event(kind, l).lab = l /\ Event(kind, l).at = now
  BY <1>1 DEF Event, Events
<1>2. PICK e \in Events : e = Event(kind, l) /\ e.kind = kind /\ e.lab = l /\ e.at = now
  BY <1>e
<1>3. log' = Append(log, e)
  BY <1>2 DEF Emit
<1>4. /\ Len(log') = Len(log) + 1 /\ Ordered(log')
      /\ \A i \in 1 .. Len(log) : log'[i] = log[i]
      /\ log'[Len(log) + 1] = e
  BY <1>2, <1>3, AppendOrdered
<1>5. Len(log) \in Nat /\ DOMAIN log = 1 .. Len(log) /\ DOMAIN log' = 1 .. Len(log')
  BY <1>4, LenProperties DEF Ordered
<1> QED BY <1>2, <1>4, <1>5

\* A stop is recorded after everything that started.
LEMMA StopComesAfter ==
  ASSUME Rowed, Ordered(log), NEW l \in Labs, NEW kind \in Stopped, Emit(kind, l)
  PROVE  \A i \in Started(l)' : StopsAfter(l, i)' # {}
<1>1. kind \in Kinds /\ kind \notin Ready
  BY DEF Kinds, Ready, Stopped
<1>2. /\ Len(log) \in Nat /\ DOMAIN log' = 1 .. (Len(log) + 1)
      /\ log'[Len(log) + 1].kind = kind /\ log'[Len(log) + 1].lab = l
  BY <1>1, Emitted
<1>3. ASSUME NEW i \in Started(l)'  PROVE Len(log) + 1 \in StopsAfter(l, i)'
  <2>1. i \in 1 .. (Len(log) + 1) /\ i # Len(log) + 1
    BY <1>1, <1>2 DEF Started
  <2>2. Len(log) + 1 > i /\ Len(log) + 1 \in DOMAIN log'
    BY <1>2, <2>1
  <2> QED BY <1>2, <2>2 DEF StopsAfter
<1> QED BY <1>3

\* A start of the log after a step was there before, at the same time, and the
\* stops after it still are, unless one was lost; or it is emitted in the step.
Kept(l, i) ==
  \E h \in Started(l) :
    /\ log'[i].at = log[h].at
    /\ l \notin unstopped' => \A j \in StopsAfter(l, h) :
         \E k \in StopsAfter(l, i)' : log'[k].at = log[j].at

LEMMA StartsAreKept ==
  ASSUME Rowed, Ordered(log), [Next]_vars, NEW l \in Labs, NEW i \in Started(l)'
  PROVE  \/ Kept(l, i)
         \/ LabStep(l) /\ log'[i].at = now /\ \E kind \in Ready : Emit(kind, l)
<1>0. log \in Seq(Events) /\ Len(log) \in Nat /\ DOMAIN log = 1 .. Len(log)
  BY LenProperties DEF Ordered
<1>1. CASE log' = log
  BY <1>1 DEF Started, StopsAfter, Kept
<1>2. ASSUME NEW m \in Labs, LabStep(m), NEW kind \in Kinds, Emit(kind, m)
      PROVE  Kept(l, i) \/ (LabStep(l) /\ log'[i].at = now /\ \E k \in Ready : Emit(k, l))
  <2>1. /\ DOMAIN log' = 1 .. (Len(log) + 1) /\ \A j \in DOMAIN log : log'[j] = log[j]
        /\ log'[Len(log) + 1].kind = kind /\ log'[Len(log) + 1].lab = m
        /\ log'[Len(log) + 1].at = now
    BY <1>2, Emitted
  <2>2. i \in DOMAIN log' /\ log'[i].lab = l /\ log'[i].kind \in Ready
    BY DEF Started
  <2>3. CASE i = Len(log) + 1
    BY <1>2, <2>1, <2>2, <2>3
  <2>4. CASE i \in DOMAIN log
    <3>1. i \in Started(l) /\ log'[i].at = log[i].at
      BY <2>1, <2>2, <2>4 DEF Started
    <3>2. ASSUME NEW j \in StopsAfter(l, i)
          PROVE  j \in StopsAfter(l, i)' /\ log'[j].at = log[j].at
      <4>1. j \in DOMAIN log /\ j \in DOMAIN log' /\ log'[j] = log[j]
        BY <1>0, <2>1, <3>2 DEF StopsAfter
      <4> QED BY <3>2, <4>1 DEF StopsAfter
    <3> QED BY <3>1, <3>2 DEF Kept
  <2> QED BY <1>0, <2>1, <2>2, <2>3, <2>4
<1>3. ASSUME NEW w \in DOMAIN log, Written(w)  PROVE Kept(l, i)
  <2>1. log' = [log EXCEPT ![w] = [log[w] EXCEPT !.row = "written"]]
    BY <1>3 DEF Written
  <2>2. DOMAIN log' = DOMAIN log
    BY <2>1, WriteOrdered
  <2>3. ASSUME NEW j \in DOMAIN log
        PROVE  log'[j].at = log[j].at /\ log'[j].lab = log[j].lab /\ log'[j].kind = log[j].kind
    <3>1. log[j] \in Events
      BY <2>3, ElementOfSeq, <1>0
    <3>2. log'[j] = log[j] \/ log'[j] = [log[j] EXCEPT !.row = "written"]
      BY <2>1, <2>3, <1>0
    <3> QED BY <3>1, <3>2 DEF Events
  <2>4. i \in Started(l)
    BY <2>2, <2>3 DEF Started
  <2>5. \A j \in StopsAfter(l, i) : j \in StopsAfter(l, i)' /\ log'[j].at = log[j].at
    BY <2>2, <2>3 DEF StopsAfter
  <2> QED BY <2>2, <2>3, <2>4, <2>5 DEF Kept, Started
<1>4. ASSUME NEW x \in DOMAIN log, InsertFails(x)  PROVE Kept(l, i)
  <2>1. log' = RemoveAt(log, x) /\ (log[x].kind \in Stopped /\ log[x].lab = l => l \in unstopped')
    BY <1>4 DEF InsertFails
  <2>2. /\ Ordered(log') /\ Len(log') = Len(log) - 1
        /\ \A j \in 1 .. (x - 1) : log'[j] = log[j]
        /\ \A j \in x .. (Len(log) - 1) : log'[j] = log[j + 1]
    BY <2>1, RemoveOrdered
  <2>3. DOMAIN log' = 1 .. (Len(log) - 1)
    BY <2>2, LenProperties DEF Ordered
  <2>4. PICK h \in DOMAIN log : h = (IF i < x THEN i ELSE i + 1) /\ log'[i] = log[h] /\ i \in DOMAIN log'
    <3>1. i \in 1 .. (Len(log) - 1)
      BY <2>3 DEF Started
    <3>2. CASE i < x
      <4>1. i \in 1 .. (x - 1) /\ i \in DOMAIN log
        BY <1>0, <3>1, <3>2
      <4> QED BY <2>2, <2>3, <3>1, <3>2, <4>1
    <3>3. CASE ~(i < x)
      <4>1. i \in x .. (Len(log) - 1) /\ i + 1 \in DOMAIN log
        BY <1>0, <3>1, <3>3
      <4> QED BY <2>2, <2>3, <3>1, <3>3, <4>1
    <3> QED BY <3>2, <3>3
  <2>5. h \in Started(l) /\ log'[i].at = log[h].at
    BY <2>4 DEF Started
  <2>6. ASSUME l \notin unstopped', NEW j \in StopsAfter(l, h)
        PROVE  \E k \in StopsAfter(l, i)' : log'[k].at = log[j].at
    <3>1. j \in 1 .. Len(log) /\ j > h /\ log[j].lab = l /\ log[j].kind \in Stopped
      BY <1>0, <2>6 DEF StopsAfter
    <3>2. j # x
      BY <2>1, <2>6, <3>1
    <3>3. PICK k : k = IF j < x THEN j ELSE j - 1
      OBVIOUS
    <3>4. k \in 1 .. (Len(log) - 1) /\ k > i
      BY <1>0, <2>3, <2>4, <3>1, <3>2, <3>3
    <3>5. log'[k] = log[j]
      <4>1. CASE j < x
        <5>1. j \in 1 .. (x - 1) /\ k = j
          BY <1>0, <3>1, <3>3, <4>1
        <5> QED BY <2>2, <5>1
      <4>2. CASE ~(j < x)
        <5>1. k \in x .. (Len(log) - 1) /\ k + 1 = j
          BY <1>0, <3>1, <3>2, <3>3, <4>2
        <5> QED BY <2>2, <5>1
      <4> QED BY <4>1, <4>2
    <3>6. k \in StopsAfter(l, i)'
      BY <2>3, <3>1, <3>4, <3>5 DEF StopsAfter
    <3> QED BY <3>5, <3>6
  <2> QED BY <2>5, <2>6 DEF Kept
<1>5. ASSUME NEW m \in Labs, LabStep(m)
      PROVE  log' = log \/ \E kind \in Kinds : Emit(kind, m)
  <2>1. {"instance_ready", "instance_resumed", "instance_paused", "instance_terminated"} = Kinds
    BY DEF Kinds, Ready, Stopped
  <2>2. Ready \subseteq Kinds
    BY DEF Kinds
  <2> QED BY <1>5, <2>1, <2>2 DEF LabStep, CreateRow, MarkReady, MarkFailed, EmitsStart, Claim, Begin, CommitFails,
            CommitSuspend, CommitResume, CommitRestart, CommitTerminate
<1>6. ASSUME (\E t \in Templates : DeleteTemplate(t)) \/ Tick \/ UNCHANGED vars
      PROVE  log' = log
  BY <1>6 DEF DeleteTemplate, Tick, vars
<1> QED BY <1>1, <1>2, <1>3, <1>4, <1>5, <1>6 DEF Next

\* A step emits one event at most.
LEMMA OneEvent ==
  ASSUME Rowed, Ordered(log), NEW l \in Labs, NEW kind \in Kinds, Emit(kind, l)
  PROVE  log' # log /\ \A k \in Kinds : Emit(k, l) => k = kind
<1>1. /\ Len(log) \in Nat /\ DOMAIN log = 1 .. Len(log) /\ DOMAIN log' = 1 .. (Len(log) + 1)
      /\ log'[Len(log) + 1].kind = kind
  BY Emitted
<1>2. Len(log) + 1 \in DOMAIN log' /\ Len(log) + 1 \notin DOMAIN log
  BY <1>1
<1>3. ASSUME NEW k \in Kinds, Emit(k, l)  PROVE log'[Len(log) + 1].kind = k
  BY <1>3, Emitted
<1> QED BY <1>1, <1>2, <1>3

\* What the other steps make of a lab and of time: a deleted template takes the
\* row, and puts the lab off the record.
LEMMA ElsewhereEffects ==
  ASSUME Rowed, NEW l \in Labs, [Next]_vars
  PROVE  /\ unstopped \subseteq unstopped'
         /\ ~LabStep(l) =>
              /\ op'[l] = op[l]
              /\ \/ lab'[l] = lab[l]
                 \/ lab'[l].status = "deleted" /\ lab'[l].box = "none" /\ l \in unstopped'
              /\ \/ now' = now /\ shown' = shown
                 \/ now' = now + 1 /\ \A t \in shown[l] \cup {now} :
                      t \in shown[l] \/ lab[l].status = "ready" => t \in shown'[l]
<1>1. ASSUME NEW m \in Labs, LabStep(m)
      PROVE  /\ unstopped \subseteq unstopped' /\ now' = now /\ shown' = shown
             /\ m # l => lab'[l] = lab[l] /\ op'[l] = op[l]
  BY <1>1, LabEffects
<1>2. ASSUME NEW t \in Templates, DeleteTemplate(t)
      PROVE  /\ unstopped \subseteq unstopped' /\ op' = op /\ now' = now /\ shown' = shown
             /\ \/ lab'[l] = lab[l]
                \/ lab'[l].status = "deleted" /\ lab'[l].box = "none" /\ l \in unstopped'
  <2>1. PICK gone : gone = [NewLab EXCEPT !.status = "deleted"]
    OBVIOUS
  <2>2. gone.status = "deleted" /\ gone.box = "none"
    BY <2>1 DEF NewLab
  <2>3. lab'[l] = IF Exists(l) /\ lab[l].template = t THEN gone ELSE lab[l]
    BY <1>2, <2>1 DEF DeleteTemplate
  <2>4. Exists(l) /\ lab[l].template = t => l \in unstopped'
    BY <1>2 DEF DeleteTemplate
  <2> QED BY <1>2, <2>2, <2>3, <2>4 DEF DeleteTemplate
<1>3. ASSUME NEW i \in DOMAIN log, Written(i) \/ InsertFails(i)
      PROVE  unstopped \subseteq unstopped' /\ UNCHANGED <<lab, op, now, shown>>
  BY <1>3 DEF Written, InsertFails
<1>4. ASSUME Tick
      PROVE  /\ unstopped' = unstopped /\ op' = op /\ lab' = lab /\ now' = now + 1
             /\ shown'[l] = IF lab[l].status = "ready" THEN shown[l] \cup {now} ELSE shown[l]
  BY <1>4 DEF Tick
<1>5. ASSUME UNCHANGED vars
      PROVE  UNCHANGED <<unstopped, lab, op, now, shown>>
  BY <1>5 DEF vars
<1> QED BY <1>1, <1>2, <1>3, <1>4, <1>5 DEF Next

LEMMA UnstartedStep ==
  ASSUME Rowed, Ordered(log), NEW l \in Labs, Unstarted(l), [Next]_vars
  PROVE  Unstarted(l)'
<1>0. Started(l) = {} => Started(l)' = {} \/ (LabStep(l) /\ \E kind \in Ready : Emit(kind, l))
  BY StartsAreKept DEF Kept
<1>k. /\ Power = {"suspend", "resume", "restart", "terminate"}
      /\ Ready \subseteq Kinds /\ {"instance_paused", "instance_terminated"} \subseteq Kinds \ Ready
  BY DEF Power, Kinds, Ready, Stopped
<1>u. /\ "provision" \in op[l] =>
           /\ Started(l) = {} /\ lab[l].box = "none" /\ lab[l].status # "ready"
           /\ op[l] \subseteq {"provision", "terminate"}
      /\ lab[l].status = "none" => Started(l) = {} /\ op[l] = {}
  BY DEF Unstarted
<1>s. log' = log => Started(l)' = Started(l)
  BY DEF Started
<1> DEFINE Goal == /\ "provision" \in op'[l] =>
                        /\ Started(l)' = {} /\ lab'[l].box = "none" /\ lab'[l].status # "ready"
                        /\ op'[l] \subseteq {"provision", "terminate"}
                   /\ lab'[l].status = "none" => Started(l)' = {} /\ op'[l] = {}
<1>1. CASE ~LabStep(l)
  <2>1. /\ op'[l] = op[l]
        /\ lab'[l] = lab[l] \/ (lab'[l].status = "deleted" /\ lab'[l].box = "none")
    BY <1>1, ElsewhereEffects
  <2>2. Started(l) = {} => Started(l)' = {}
    BY <1>0, <1>1
  <2>3. Goal
    BY <1>u, <2>1, <2>2
  <2> QED BY <2>3 DEF Unstarted
<1>2. CASE LabStep(l)
  <2>1. ASSUME /\ lab[l].status = "none" /\ log' = log
               /\ lab'[l].status = "provisioning" /\ lab'[l].box = "none"
               /\ op'[l] = op[l] \cup {"provision"}
        PROVE  Goal
    BY <1>u, <1>s, <2>1
  <2>2. ASSUME /\ "provision" \in op[l]
               /\ \E due \in SUBSET {"instance_ready"} : op'[l] = (op[l] \ {"provision"}) \cup due
               /\ lab'[l].status \in {"ready", "failed", lab[l].status}
        PROVE  Goal
    <3>1. "provision" \notin op'[l]
      BY <2>2
    <3> QED BY <1>u, <2>2, <3>1
  <2>7. ASSUME NEW kind \in Ready, kind \in op[l], op'[l] = op[l] \ {kind}, lab' = lab
        PROVE  Goal
    <3>1. "provision" \notin op[l]
      BY <1>u, <2>7 DEF Ready
    <3> QED BY <1>u, <2>7, <3>1
  <2>8. ASSUME /\ "resume" \in op[l] /\ op'[l] = (op[l] \ {"resume"}) \cup {"instance_resumed"}
               /\ lab'[l].status = "ready"
        PROVE  Goal
    <3>1. "provision" \notin op'[l]
      BY <1>u, <2>8
    <3> QED BY <2>8, <3>1
  <2>3. ASSUME /\ lab[l].status = "ready" /\ lab'[l].status = "ready"
               /\ lab'[l].box = lab[l].box /\ op'[l] = op[l]
        PROVE  Goal
    BY <1>u, <2>3
  <2>4. ASSUME /\ Exists(l) /\ lab'[l].status = lab[l].status /\ log' = log
               /\ lab[l].box = "none" => lab'[l].box = "none"
               /\ \E k \in Power : op'[l] = op[l] \cup {k} /\ (k # "terminate" => lab[l].box # "none")
        PROVE  Goal
    <3>1. PICK k \in Power : op'[l] = op[l] \cup {k} /\ (k # "terminate" => lab[l].box # "none")
      BY <2>4
    <3> QED BY <1>k, <1>u, <1>s, <2>4, <3>1 DEF Exists
  <2>5. ASSUME NEW k \in Power, k \in op[l], op'[l] = op[l] \ {k}, lab'[l].box = lab[l].box,
               \/ lab' = lab /\ log' = log
               \/ k # "terminate" /\ Exists(l) /\ lab'[l].status \in {"paused", "ready"}
               \/ Exists(l) /\ lab'[l].status = "terminated" /\ Emit("instance_terminated", l)
        PROVE  Goal
    <3>1. "provision" \in op'[l] => k = "terminate" /\ Started(l) = {}
      BY <1>k, <1>u, <2>5
    <3>2. CASE lab' = lab /\ log' = log
      BY <1>u, <1>s, <2>5, <3>1, <3>2
    <3>3. CASE k # "terminate" /\ Exists(l) /\ lab'[l].status \in {"paused", "ready"}
      BY <3>1, <3>3
    <3>4. CASE Exists(l) /\ lab'[l].status = "terminated" /\ Emit("instance_terminated", l)
      <4>1. ~ \E kind \in Ready : Emit(kind, l)
        BY <1>k, <3>4, OneEvent
      <4> QED BY <1>0, <1>u, <2>5, <3>1, <3>4, <4>1
    <3> QED BY <2>5, <3>2, <3>3, <3>4
  <2>6. Goal
    <3>1. CASE \E k \in Power :
                 /\ k \in op[l] /\ op'[l] = op[l] \ {k} /\ lab'[l].box = lab[l].box
                 /\ \/ lab' = lab /\ log' = log
                    \/ k # "terminate" /\ Exists(l) /\ lab'[l].status \in {"paused", "ready"}
                    \/ Exists(l) /\ lab'[l].status = "terminated" /\ Emit("instance_terminated", l)
      BY <2>5, <3>1
    <3>2. CASE /\ "provision" \in op[l]
               /\ \E due \in SUBSET {"instance_ready"} : op'[l] = (op[l] \ {"provision"}) \cup due
               /\ lab'[l].status \in {"ready", "failed", lab[l].status}
      BY <2>2, <3>2
    <3>3. CASE \E kind \in Ready : kind \in op[l] /\ op'[l] = op[l] \ {kind} /\ lab' = lab
      BY <2>7, <3>3
    <3> QED BY <1>2, <2>1, <2>3, <2>4, <2>8, <3>1, <3>2, <3>3, LabEffects
  <2> QED BY <2>6 DEF Unstarted
<1> QED BY <1>1, <1>2

\* A start that was accounted for still is: the tick that ends is one the row
\* saw 'ready', or one after a stop.
LEMMA KeptIsAccounted ==
  ASSUME Rowed, Ordered(log), NEW l \in Labs, Accounted(l), [Next]_vars,
         l \notin unstopped', NEW i \in Started(l)', Kept(l, i)
  PROVE  /\ lab[l].status = "ready" \/ StopsAfter(l, i)' # {}
         /\ (now' = now /\ shown' = shown) \/ ~LabStep(l) =>
              \A t \in log'[i].at .. (now' - 1) :
                t \in shown'[l] \/ \E k \in StopsAfter(l, i)' : log'[k].at <= t
<1>0. l \notin unstopped
  BY ElsewhereEffects
<1>1. PICK h \in Started(l) :
        /\ log'[i].at = log[h].at
        /\ \A j \in StopsAfter(l, h) : \E k \in StopsAfter(l, i)' : log'[k].at = log[j].at
  BY DEF Kept
<1>2. /\ lab[l].status = "ready" \/ StopsAfter(l, h) # {}
      /\ \A t \in log[h].at .. (now - 1) :
           t \in shown[l] \/ \E j \in StopsAfter(l, h) : log[j].at <= t
  BY <1>0 DEF Accounted
<1>3. lab[l].status = "ready" \/ StopsAfter(l, i)' # {}
  BY <1>1, <1>2
<1>4. ASSUME (now' = now /\ shown' = shown) \/ ~LabStep(l), NEW t \in log'[i].at .. (now' - 1)
      PROVE  t \in shown'[l] \/ \E k \in StopsAfter(l, i)' : log'[k].at <= t
  <2>0. now \in Nat /\ log[h].at \in Nat
    <3>1. log[h] \in Events
      BY ElementOfSeq DEF Ordered, Started
    <3> QED BY <3>1, BoundsAssumption DEF Events, Rowed, Clock
  <2>1. /\ now' = now \/ now' = now + 1
        /\ now' = now => shown' = shown
        /\ now' = now + 1 => \A u \in shown[l] \cup {now} :
             u \in shown[l] \/ lab[l].status = "ready" => u \in shown'[l]
    BY <1>4, <2>0, ElsewhereEffects
  <2>2. CASE t \in log[h].at .. (now - 1)
    <3>1. t \in shown[l] \/ \E j \in StopsAfter(l, h) : log[j].at <= t
      BY <1>2, <2>2
    <3>2. t \in shown[l] => t \in shown'[l]
      BY <2>0, <2>1
    <3> QED BY <1>1, <3>1, <3>2
  <2>3. CASE t = now /\ now' = now + 1
    <3>1. CASE lab[l].status = "ready"
      BY <2>1, <2>3, <3>1
    <3>2. CASE StopsAfter(l, h) # {}
      <4>1. PICK j \in StopsAfter(l, h) : TRUE
        BY <3>2
      <4>2. log[j].at <= now
        BY <4>1 DEF Ordered, StopsAfter
      <4> QED BY <1>1, <2>3, <4>1, <4>2
    <3> QED BY <1>2, <3>1, <3>2
  <2> QED BY <1>1, <1>4, <2>0, <2>1, <2>2, <2>3
<1> QED BY <1>3, <1>4

LEMMA AccountedStep ==
  ASSUME Rowed, Ordered(log), NEW l \in Labs, Unstarted(l), Accounted(l), [Next]_vars
  PROVE  Accounted(l)'
<1> SUFFICES ASSUME l \notin unstopped', NEW i \in Started(l)'
             PROVE  /\ lab'[l].status = "ready" \/ StopsAfter(l, i)' # {}
                    /\ \A t \in log'[i].at .. (now' - 1) :
                         t \in shown'[l] \/ \E k \in StopsAfter(l, i)' : log'[k].at <= t
  BY DEF Accounted
<1>k. /\ {"instance_paused", "instance_terminated"} \subseteq Stopped
      /\ Ready \subseteq Kinds /\ Stopped \subseteq Kinds /\ Ready \cap Stopped = {}
  BY DEF Kinds, Ready, Stopped
<1>1. CASE ~LabStep(l)
  <2>1. Kept(l, i)
    BY <1>1, StartsAreKept
  <2>2. lab'[l] = lab[l]
    BY <1>1, ElsewhereEffects
  <2> QED BY <1>1, <2>1, <2>2, KeptIsAccounted
<1>2. CASE LabStep(l)
  <2>1. now' = now /\ shown' = shown /\ now \in Nat
    BY <1>2, LabEffects, BoundsAssumption DEF Rowed, Clock
  <2>2. ASSUME NEW kind \in Stopped, Emit(kind, l)  PROVE StopsAfter(l, i)' # {}
    BY <2>2, StopComesAfter
  <2>3. CASE Kept(l, i)
    <3>1. lab[l].status = "ready" =>
            \/ lab'[l].status = "ready"
            \/ \E kind \in Stopped : Emit(kind, l)
      BY <1>2, <1>k, LabEffects DEF Unstarted
    <3> QED BY <2>1, <2>2, <2>3, <3>1, KeptIsAccounted
  <2>4. CASE log'[i].at = now /\ \E kind \in Ready : Emit(kind, l)
    <3>1. log' # log /\ \A kind \in Stopped : ~Emit(kind, l)
      BY <1>k, <2>4, OneEvent
    <3>2. lab'[l].status = "ready"
      BY <1>2, <1>k, <3>1, LabEffects
    <3> QED BY <2>1, <2>4, <3>2
  <2> QED BY <1>2, <2>3, <2>4, StartsAreKept
<1> QED BY <1>1, <1>2

LEMMA HoursStep == Rowed /\ Ordered(log) /\ HoursInv /\ [Next]_vars => HoursInv'
<1> SUFFICES ASSUME Rowed, Ordered(log), HoursInv, [Next]_vars, NEW l \in Labs
             PROVE  Unstarted(l)' /\ Accounted(l)'
  BY DEF HoursInv
<1> QED BY UnstartedStep, AccountedStep DEF HoursInv

LEMMA HoursInit == Init => HoursInv
BY DEF Init, HoursInv, Unstarted, Accounted, Started, NewLab

\* An interval the report bills ends at the first stop after its start, so
\* before it no stop comes, and the row said 'ready'.
LEMMA BilledWasShown ==
  ASSUME Rowed, Ordered(log), HoursInv, NEW l \in Labs, StopOnRecord(l),
         NEW b \in 0 .. now, NEW a \in 0 .. (now - 1)
  PROVE  Billed(l, a, b) \subseteq shown[l]
<1>0. /\ now \in Nat /\ a \in Nat /\ b \in Nat /\ b <= now
      /\ DOMAIN log \subseteq Nat
      /\ \A i \in DOMAIN log : log[i].at \in Nat /\ \A j \in DOMAIN log : j <= i => log[j].at <= log[i].at
  <2>1. now \in Nat
    BY BoundsAssumption DEF Rowed, Clock
  <2>2. Len(log) \in Nat /\ DOMAIN log = 1 .. Len(log)
    BY LenProperties DEF Ordered
  <2>3. ASSUME NEW i \in DOMAIN log
        PROVE  log[i].at \in Nat /\ \A j \in DOMAIN log : j <= i => log[j].at <= log[i].at
    <3>1. log[i] \in Events
      BY ElementOfSeq DEF Ordered
    <3>2. \A j \in DOMAIN log : j <= i => j \in 1 .. i
      BY <2>2
    <3> QED BY <3>1, <3>2 DEF Events, Ordered
  <2> QED BY <2>1, <2>2, <2>3
<1> SUFFICES ASSUME NEW i \in Lifecycle(l, a, b), log[i].kind \in Ready, NEW t \in Interval(l, i, a, b)
             PROVE  t \in shown[l]
  BY DEF Billed
<1>1. /\ i \in DOMAIN log /\ log[i].lab = l /\ a <= log[i].at /\ log[i].at < b
      /\ i \in Started(l) /\ l \notin unstopped
  BY DEF Lifecycle, Recorded, Between, Started, StopOnRecord
<1>2. PICK R : R = Later(l, i, a, b)
  OBVIOUS
<1>3. R \subseteq DOMAIN log /\ \A j \in R : j > i /\ log[j].at < b /\ log[i].at <= log[j].at
  <2>1. ASSUME NEW j \in R  PROVE j \in DOMAIN log /\ j > i /\ log[j].at < b
    BY <1>2, <2>1 DEF Later, Lifecycle, Recorded, Between
  <2> QED BY <1>0, <1>1, <2>1
\* A stop before the end of the window is one the report sees.
<1>4. ASSUME NEW j \in StopsAfter(l, i), log[j].at < b  PROVE j \in R
  <2>1. j \in DOMAIN log /\ j > i /\ log[j].lab = l /\ log[j].kind \in Stopped
    BY DEF StopsAfter
  <2>2. log[j].row = "written" /\ a <= log[j].at
    BY <1>0, <1>1, <2>1 DEF StopOnRecord
  <2> QED BY <1>2, <1>4, <2>1, <2>2 DEF Later, Lifecycle, Recorded, Between
<1>5. ASSUME NEW e \in 0 .. b, t \in log[i].at .. (e - 1),
             \A j \in R : e <= log[j].at
      PROVE  t \in shown[l]
  <2>1. t \in log[i].at .. (now - 1) /\ t < e /\ e <= b /\ t \in Int
    BY <1>0, <1>1, <1>5
  <2>2. t \in shown[l] \/ \E j \in StopsAfter(l, i) : log[j].at <= t
    BY <1>1, <2>1 DEF HoursInv, Accounted
  <2>3. ASSUME NEW j \in StopsAfter(l, i), log[j].at <= t  PROVE FALSE
    <3>1. log[j].at \in Nat
      BY <1>0 DEF StopsAfter
    <3>2. log[j].at < b
      BY <1>0, <2>1, <2>3, <3>1
    <3>3. e <= log[j].at
      BY <1>4, <1>5, <3>2
    <3> QED BY <2>1, <2>3, <3>1, <3>3
  <2> QED BY <2>2, <2>3
<1>6. CASE R = {}
  <2>1. t \in log[i].at .. (b - 1)
    BY <1>2, <1>6 DEF Interval, Ticks
  <2> QED BY <1>0, <1>5, <1>6, <2>1
<1>7. CASE R # {}
  <2>1. Min(R) \in R /\ \A j \in R : Min(R) <= j
    <3>1. \E x \in R : \A y \in R : x <= y
      BY <1>0, <1>3, <1>7, Least
    <3> QED BY <3>1 DEF Min
  <2>2. t \in log[i].at .. (log[Min(R)].at - 1)
    BY <1>2, <1>7 DEF Interval, Ticks
  <2>3. \A j \in R : log[Min(R)].at <= log[j].at
    BY <1>0, <1>3, <2>1
  <2>4. log[Min(R)].at \in 0 .. b
    BY <1>0, <1>3, <2>1
  <2> QED BY <1>5, <2>2, <2>3, <2>4
<1> QED BY <1>6, <1>7

\* Compute hours are billed only for time in which the lab's row said 'ready',
\* whatever overlaps and whichever starts are lost, as long as the stops of the
\* lab are on record (reports.ts:630-634).
THEOREM NeverOvercharged == Spec => []HoursNeverOvercharge
<1>1. Rowed /\ Ordered(log) /\ HoursInv => HoursNeverOvercharge
  BY BilledWasShown DEF HoursNeverOvercharge
<1> QED BY <1>1, RowedInit, OrderedInit, HoursInit, RowedStep, OrderedStep, HoursStep, PTL DEF Spec

-----------------------------------------------------------------------------
(* Why the reports agree                                                   *)

\* A set of numbers that has zero and every successor has them all.
LEMMA AllNumbers ==
  ASSUME NEW G \in SUBSET Nat, 0 \in G, \A n \in G : n + 1 \in G
  PROVE  G = Nat
<1> SUFFICES ASSUME Nat \ G # {} PROVE FALSE OBVIOUS
<1>1. PICK n \in Nat \ G : \A m \in Nat \ G : n <= m
  BY Least
<1>2. n - 1 \in Nat /\ ~(n <= n - 1)
  BY <1>1
<1>3. n - 1 \in G
  BY <1>1, <1>2
<1> QED BY <1>1, <1>2, <1>3

\* Labs of a set, counted by some key, add up to the set: any function that sums
\* the counts the way MapThenSumSet does has the size of the set at the top, and
\* there is one.
PickOne(s) == CHOOSE x \in s : TRUE
Summed(f, w, K) ==
  f = [s \in SUBSET K |-> IF s = {} THEN 0 ELSE w[PickOne(s)] + f[s \ {PickOne(s)}]]
Counts(S, key, K) == [k \in K |-> Cardinality({l \in S : key[l] = k})]

LEMMA CountsAddUp ==
  ASSUME NEW S, IsFiniteSet(S), NEW key, NEW K, IsFiniteSet(K), \A l \in S : key[l] \in K
  PROVE  /\ \E f : Summed(f, Counts(S, key, K), K)
         /\ \A f : Summed(f, Counts(S, key, K), K) => f[K] = Cardinality(S)
<1> DEFINE Of(s) == {l \in S : key[l] \in s}
           w == Counts(S, key, K)
           c == [s \in SUBSET K |-> Cardinality(Of(s))]
<1>1. \A s : IsFiniteSet(Of(s)) /\ Cardinality(Of(s)) \in Nat
  BY FS_Subset, FS_CardinalityType
<1>2. c[{}] = 0
  <2>1. Of({}) = {}
    OBVIOUS
  <2> QED BY <2>1, FS_EmptySet
<1>3. ASSUME NEW s \in SUBSET K, NEW x \in s
      PROVE  c[s] = w[x] + c[s \ {x}]
  <2>1. Of(s) = Of({x}) \cup Of(s \ {x}) /\ Of({x}) \cap Of(s \ {x}) = {}
    OBVIOUS
  <2>2. Cardinality(Of(s)) = Cardinality(Of({x})) + Cardinality(Of(s \ {x}))
    <3>1. PICK A, B : A = Of({x}) /\ B = Of(s \ {x})
      OBVIOUS
    <3>2. IsFiniteSet(A) /\ IsFiniteSet(B) /\ Cardinality(A) \in Nat /\ Cardinality(B) \in Nat
      BY <1>1, <3>1
    <3>3. Cardinality(A \cup B) = Cardinality(A) + Cardinality(B) - Cardinality(A \cap B)
      BY <3>2, FS_Union
    <3>4. A \cap B = {} /\ Of(s) = A \cup B /\ Cardinality({}) = 0
      BY <2>1, <3>1, FS_EmptySet
    <3> HIDE DEF Of
    <3>5. Cardinality(A \cup B) = Cardinality(A) + Cardinality(B)
      <4>1. Cardinality(A \cap B) = 0
        BY <3>4
      <4> QED BY <3>2, <3>3, <4>1
    <3> QED BY <3>1, <3>4, <3>5, Zenon
  <2>3. w[x] = Cardinality(Of({x}))
    <3>1. Of({x}) = {l \in S : key[l] = x}
      OBVIOUS
    <3> QED BY <3>1 DEF Counts
  <2>4. c[s] = Cardinality(Of(s)) /\ c[s \ {x}] = Cardinality(Of(s \ {x}))
    OBVIOUS
  <2> HIDE DEF Of, c, w
  <2> QED BY <2>2, <2>3, <2>4
<1>4. \A s : s # {} => PickOne(s) \in s
  BY DEF PickOne
<1>5. c = [s \in SUBSET K |-> c[s]]
  OBVIOUS
<1>6. c[K] = Cardinality(S)
  <2>1. Of(K) = S
    OBVIOUS
  <2> QED BY <2>1
<1> HIDE DEF Of, w, c
<1>7. Summed(c, w, K)
  <2>1. ASSUME NEW s \in SUBSET K
        PROVE  c[s] = IF s = {} THEN 0 ELSE w[PickOne(s)] + c[s \ {PickOne(s)}]
    BY <1>2, <1>3, <1>4
  <2> QED BY <1>5, <2>1 DEF Summed
<1>8. ASSUME NEW f, Summed(f, w, K)  PROVE f[K] = c[K]
  <2> DEFINE G == {n \in Nat : \A s \in SUBSET K : Cardinality(s) = n => f[s] = c[s]}
  <2>f. \A s \in SUBSET K : IsFiniteSet(s) /\ Cardinality(s) \in Nat
    BY FS_Subset, FS_CardinalityType
  <2>1. 0 \in G
    <3>1. \A s \in SUBSET K : Cardinality(s) = 0 => s = {}
      BY <2>f, FS_EmptySet
    <3>2. f[{}] = 0
      BY <1>8 DEF Summed
    <3> QED BY <1>2, <3>1, <3>2
  <2>2. ASSUME NEW n \in G  PROVE n + 1 \in G
    <3>1. ASSUME NEW s \in SUBSET K, Cardinality(s) = n + 1  PROVE f[s] = c[s]
      <4>1. s # {}
        <5>1. n + 1 # 0 /\ Cardinality({}) = 0
          BY FS_EmptySet
        <5> QED BY <3>1, <5>1
      <4>2. PICK x : x = PickOne(s)
        OBVIOUS
      <4>3. x \in s /\ s \ {x} \in SUBSET K
        BY <1>4, <4>1, <4>2
      <4>4. Cardinality(s \ {x}) = n
        <5>1. Cardinality(s \ {x}) = Cardinality(s) - 1
          BY <2>f, <4>3, FS_RemoveElement
        <5> QED BY <3>1, <5>1
      <4>5. f[s \ {x}] = c[s \ {x}]
        BY <4>3, <4>4
      <4>6. f[s] = w[x] + f[s \ {x}]
        BY <1>8, <4>1, <4>2 DEF Summed
      <4>7. c[s] = w[x] + c[s \ {x}]
        BY <1>3, <4>3
      <4> QED BY <4>5, <4>6, <4>7
    <3> QED BY <3>1
  <2>3. G = Nat
    <3>1. G \in SUBSET Nat
      OBVIOUS
    <3> HIDE DEF G
    <3> QED BY <2>1, <2>2, <3>1, AllNumbers
  <2> QED BY <2>f, <2>3
<1> QED BY <1>6, <1>7, <1>8 DEF w

\* A row refers to a template that exists: creating one needs the template, and
\* deleting the template takes the row.
Rooted == \A l \in Labs : Exists(l) => lab[l].template \in templates

LEMMA RootedStep == Rowed /\ Rooted /\ [Next]_vars => Rooted'
<1> SUFFICES ASSUME Rowed, Rooted, [Next]_vars PROVE Rooted' OBVIOUS
<1>0. DOMAIN lab = Labs /\ lab = [m \in Labs |-> lab[m]] /\ \A l \in Labs : lab[l] \in LabRows
  <2>1. \A l \in Labs : lab[l] \in LabRows
    BY RowFields
  <2> QED BY <2>1 DEF Rowed, Clock
<1>1. ASSUME lab' = lab, templates' = templates PROVE Rooted'
  BY <1>1 DEF Rooted, Exists
<1>2. ASSUME NEW l \in Labs, NEW r, lab' = [lab EXCEPT ![l] = r], templates' = templates,
             r.template \in templates
      PROVE  Rooted'
  <2>1. \A m \in Labs : lab'[m] = IF m = l THEN r ELSE lab[m]
    BY <1>0, <1>2
  <2> QED BY <1>2, <2>1 DEF Rooted, Exists
<1>3. ASSUME NEW l \in Labs, Exists(l), templates' = templates,
             \/ \E st : lab' = [lab EXCEPT ![l].status = st]
             \/ \E b : lab' = [lab EXCEPT ![l].box = b]
             \/ lab' = [lab EXCEPT ![l].status = "ready", ![l].box = "up"]
             \/ lab' = [lab EXCEPT ![l].pooled = FALSE]
             \/ lab' = [lab EXCEPT ![l].status = "terminated", ![l].ended = now]
      PROVE  Rooted'
  <2>0. lab[l].template \in templates /\ lab[l] \in LabRows
    BY <1>0, <1>3 DEF Rooted
  <2>1. ASSUME NEW st, lab' = [lab EXCEPT ![l].status = st] PROVE Rooted'
    <3>1. lab' = [lab EXCEPT ![l] = [lab[l] EXCEPT !.status = st]]
      BY <1>0, <2>1
    <3>2. [lab[l] EXCEPT !.status = st].template = lab[l].template
      BY <2>0 DEF LabRows
    <3> QED BY <1>2, <1>3, <2>0, <3>1, <3>2
  <2>2. ASSUME NEW b, lab' = [lab EXCEPT ![l].box = b] PROVE Rooted'
    <3>1. lab' = [lab EXCEPT ![l] = [lab[l] EXCEPT !.box = b]]
      BY <1>0, <2>2
    <3>2. [lab[l] EXCEPT !.box = b].template = lab[l].template
      BY <2>0 DEF LabRows
    <3> QED BY <1>2, <1>3, <2>0, <3>1, <3>2
  <2>3. CASE lab' = [lab EXCEPT ![l].status = "ready", ![l].box = "up"]
    <3>1. lab' = [lab EXCEPT ![l] = [lab[l] EXCEPT !.status = "ready", !.box = "up"]]
      BY <1>0, <2>3
    <3>2. [lab[l] EXCEPT !.status = "ready", !.box = "up"].template = lab[l].template
      BY <2>0 DEF LabRows
    <3> QED BY <1>2, <1>3, <2>0, <3>1, <3>2
  <2>4. CASE lab' = [lab EXCEPT ![l].pooled = FALSE]
    <3>1. lab' = [lab EXCEPT ![l] = [lab[l] EXCEPT !.pooled = FALSE]]
      BY <1>0, <2>4
    <3>2. [lab[l] EXCEPT !.pooled = FALSE].template = lab[l].template
      BY <2>0 DEF LabRows
    <3> QED BY <1>2, <1>3, <2>0, <3>1, <3>2
  <2>5. CASE lab' = [lab EXCEPT ![l].status = "terminated", ![l].ended = now]
    <3>1. lab' = [lab EXCEPT ![l] = [lab[l] EXCEPT !.status = "terminated", !.ended = now]]
      BY <1>0, <2>5
    <3>2. [lab[l] EXCEPT !.status = "terminated", !.ended = now].template = lab[l].template
      BY <2>0 DEF LabRows
    <3> QED BY <1>2, <1>3, <2>0, <3>1, <3>2
  <2> QED BY <1>3, <2>1, <2>2, <2>3, <2>4, <2>5
<1>4. ASSUME NEW l \in Labs, NEW t \in Templates, NEW pooled \in BOOLEAN, CreateRow(l, t, pooled)
      PROVE  Rooted'
  <2>1. PICK r : r = [NewLab EXCEPT !.status = "provisioning", !.pooled = pooled, !.template = t, !.created = now]
    OBVIOUS
  <2>2. r.template = t
    BY <2>1 DEF NewLab
  <2> QED BY <1>2, <1>4, <2>1, <2>2 DEF CreateRow
<1>5. ASSUME NEW l \in Labs,
             \/ MarkReady(l) \/ MarkFailed(l) \/ (\E kind \in Ready : EmitsStart(l, kind))
             \/ CommitSuspend(l) \/ CommitResume(l) \/ CommitRestart(l) \/ CommitTerminate(l)
      PROVE  Rooted'
  BY <1>1, <1>3, <1>5 DEF MarkReady, MarkFailed, EmitsStart, CommitSuspend, CommitResume, CommitRestart, CommitTerminate
<1>6. ASSUME NEW l \in Labs, Claim(l)  PROVE Rooted'
  BY <1>3, <1>6 DEF Claim, Exists
<1>7. ASSUME NEW l \in Labs, NEW k \in Power, Begin(l, k) \/ CommitFails(l, k)  PROVE Rooted'
  <2>1. CASE Begin(l, k)
    BY <1>3, <2>1 DEF Begin
  <2>2. CASE CommitFails(l, k)
    BY <1>1, <2>2 DEF CommitFails
  <2> QED BY <1>7, <2>1, <2>2
<1>8. ASSUME NEW t \in Templates, DeleteTemplate(t)  PROVE Rooted'
  <2>1. PICK gone : gone = [NewLab EXCEPT !.status = "deleted"] /\ gone.status = "deleted"
    BY Blank
  <2>2. \A l \in Labs : lab'[l] = IF Exists(l) /\ lab[l].template = t THEN gone ELSE lab[l]
    BY <1>8, <2>1 DEF DeleteTemplate
  <2>3. templates' = templates \ {t}
    BY <1>8 DEF DeleteTemplate
  <2> QED BY <2>1, <2>2, <2>3 DEF Rooted, Exists
<1>9. ASSUME (\E i \in DOMAIN log : Written(i) \/ InsertFails(i)) \/ Tick \/ UNCHANGED vars
      PROVE  Rooted'
  BY <1>1, <1>9 DEF Written, InsertFails, Tick, vars
<1> QED BY <1>4, <1>5, <1>6, <1>7, <1>8, <1>9 DEF Next, LabStep

\* The queries of the reports, as sizes of one set of labs and as counts of it by
\* node or by template.
InStatus(statuses) == {l \in Assigned : lab[l].status \in statuses}

LEMMA NodeCountsAddUp ==
  /\ MapThenSumSet(LAMBDA n : ByNode(n).active, Nodes) = Cardinality(InStatus(Active))
  /\ MapThenSumSet(LAMBDA n : ByNode(n).paused, Nodes) = Cardinality(InStatus({"paused"}))
<1>0. IsFiniteSet(Nodes)
  <2>1. [l \in Labs |-> NodeOf[l]] \in Surjection(Labs, Nodes)
    BY DEF Surjection, Nodes
  <2> QED BY <2>1, LabsAssumption, FS_Surjection
<1>1. \A X : /\ IsFiniteSet(InStatus(X))
             /\ \A l \in InStatus(X) : NodeOf[l] \in Nodes
  BY LabsAssumption, FS_Subset DEF InStatus, Assigned, Rows, Nodes
<1>2. \A n \in Nodes : /\ ByNode(n).active = Counts(InStatus(Active), NodeOf, Nodes)[n]
                       /\ ByNode(n).paused = Counts(InStatus({"paused"}), NodeOf, Nodes)[n]
  <2> SUFFICES ASSUME NEW n \in Nodes
               PROVE  /\ ByNode(n).active = Counts(InStatus(Active), NodeOf, Nodes)[n]
                      /\ ByNode(n).paused = Counts(InStatus({"paused"}), NodeOf, Nodes)[n]
    OBVIOUS
  <2>1. \A X : {l \in {m \in Assigned : NodeOf[m] = n} : lab[l].status \in X}
                 = {l \in InStatus(X) : NodeOf[l] = n}
    BY DEF InStatus
  <2> QED BY <2>1 DEF ByNode, With, Counts
<1>3. MapThenSumSet(LAMBDA n : ByNode(n).active, Nodes) = Cardinality(InStatus(Active))
  <2> DEFINE w == Counts(InStatus(Active), NodeOf, Nodes)
             Folded(f) == f = [s \in SUBSET Nodes |-> IF s = {} THEN 0
                                 ELSE ByNode(PickOne(s)).active + f[s \ {PickOne(s)}]]
  <2>1. \A f : Folded(f) <=> Summed(f, w, Nodes)
    BY <1>2 DEF Summed, PickOne
  <2>2. MapThenSumSet(LAMBDA n : ByNode(n).active, Nodes) = (CHOOSE f : Folded(f))[Nodes]
    BY DEF MapThenSumSet, MapThenFoldSet, PickOne
  <2> HIDE DEF Folded, w
  <2>3. Summed(CHOOSE f : Folded(f), w, Nodes)
    <3>1. \E f : Folded(f)
      BY <1>0, <1>1, <2>1, CountsAddUp DEF w
    <3> QED BY <2>1, <3>1
  <2> QED BY <1>0, <1>1, <2>2, <2>3, CountsAddUp DEF w
<1>4. MapThenSumSet(LAMBDA n : ByNode(n).paused, Nodes) = Cardinality(InStatus({"paused"}))
  <2> DEFINE w == Counts(InStatus({"paused"}), NodeOf, Nodes)
             Folded(f) == f = [s \in SUBSET Nodes |-> IF s = {} THEN 0
                                 ELSE ByNode(PickOne(s)).paused + f[s \ {PickOne(s)}]]
  <2>1. \A f : Folded(f) <=> Summed(f, w, Nodes)
    BY <1>2 DEF Summed, PickOne
  <2>2. MapThenSumSet(LAMBDA n : ByNode(n).paused, Nodes) = (CHOOSE f : Folded(f))[Nodes]
    BY DEF MapThenSumSet, MapThenFoldSet, PickOne
  <2> HIDE DEF Folded, w
  <2>3. Summed(CHOOSE f : Folded(f), w, Nodes)
    <3>1. \E f : Folded(f)
      BY <1>0, <1>1, <2>1, CountsAddUp DEF w
    <3> QED BY <2>1, <3>1
  <2> QED BY <1>0, <1>1, <2>2, <2>3, CountsAddUp DEF w
<1> QED BY <1>3, <1>4

LEMMA TemplateCountsAddUp ==
  ASSUME Rowed, Rooted
  PROVE  MapThenSumSet(LAMBDA t : ActiveNow(t), templates) = Cardinality(InStatus(Live))
<1> DEFINE key == [l \in Labs |-> lab[l].template]
           w == Counts(InStatus(Live), key, templates)
           Folded(f) == f = [s \in SUBSET templates |-> IF s = {} THEN 0
                               ELSE ActiveNow(PickOne(s)) + f[s \ {PickOne(s)}]]
<1>0. IsFiniteSet(templates)
  BY TemplatesAssumption, FS_Subset DEF Rowed, Clock
<1>1. /\ IsFiniteSet(InStatus(Live))
      /\ \A l \in InStatus(Live) : key[l] \in templates
  BY LabsAssumption, FS_Subset DEF InStatus, Assigned, Rows, Rooted
<1>2. \A t \in templates : ActiveNow(t) = w[t]
  <2> SUFFICES ASSUME NEW t \in templates PROVE ActiveNow(t) = w[t]
    OBVIOUS
  <2>1. {l \in {m \in Assigned : lab[m].template = t} : lab[l].status \in Live}
          = {l \in InStatus(Live) : key[l] = t}
    BY DEF InStatus, Assigned, Rows
  <2> QED BY <2>1 DEF ActiveNow, With, Counts
<1> HIDE DEF key
<1>3. \A f : Folded(f) <=> Summed(f, w, templates)
  BY <1>2 DEF Summed, PickOne
<1>4. MapThenSumSet(LAMBDA t : ActiveNow(t), templates) = (CHOOSE f : Folded(f))[templates]
  BY DEF MapThenSumSet, MapThenFoldSet, PickOne
<1> HIDE DEF Folded, w
<1>5. Summed(CHOOSE f : Folded(f), w, templates)
  <2>1. \E f : Folded(f)
    BY <1>0, <1>1, <1>3, CountsAddUp DEF w
  <2> QED BY <1>3, <2>1
<1> QED BY <1>0, <1>1, <1>4, <1>5, CountsAddUp DEF w

\* The size of two disjoint sets of labs.
LEMMA DisjointSizes ==
  ASSUME NEW A \in SUBSET Labs, NEW B \in SUBSET Labs, A \cap B = {}
  PROVE  /\ Cardinality(A) \in Nat /\ Cardinality(B) \in Nat
         /\ Cardinality(A \cup B) = Cardinality(A) + Cardinality(B)
<1>1. IsFiniteSet(A) /\ IsFiniteSet(B) /\ Cardinality(A) \in Nat /\ Cardinality(B) \in Nat
  BY LabsAssumption, FS_Subset, FS_CardinalityType
<1>2. Cardinality(A \cup B) = Cardinality(A) + Cardinality(B) - Cardinality(A \cap B)
  BY <1>1, FS_Union
<1>3. Cardinality(A \cap B) = 0
  BY FS_EmptySet
<1> QED BY <1>1, <1>2, <1>3

\* The node list takes the spares from all that is live; the report by node
\* counts what is assigned and is being started, runs or is paused.
LEMMA ClaimedAgrees ==
  ASSUME Rowed, NEW n \in Nodes
  PROVE  NodeStats(n).claimed = ByNode(n).active + ByNode(n).paused
<1> DEFINE here == {l \in Rows : NodeOf[l] = n /\ lab[l].status \notin {"terminated", "failed"}}
           spare == {l \in here : lab[l].pooled}
           Of(X) == {l \in {m \in Assigned : NodeOf[m] = n} : lab[l].status \in X}
<1>0. \A l \in Labs : lab[l].status \in Statuses /\ lab[l].pooled \in BOOLEAN
  BY RowFields DEF LabRows
<1>1. NodeStats(n).claimed = Cardinality(here) - Cardinality(spare)
  BY DEF NodeStats
<1>2. ByNode(n).active = Cardinality(Of(Active)) /\ ByNode(n).paused = Cardinality(Of({"paused"}))
  BY DEF ByNode, With
<1>3. here = (Of(Active) \cup Of({"paused"})) \cup spare
  BY <1>0 DEF Statuses, Active, Assigned, Rows, Exists
<1>4. /\ spare \in SUBSET Labs /\ Of(Active) \in SUBSET Labs /\ Of({"paused"}) \in SUBSET Labs
      /\ Of(Active) \cup Of({"paused"}) \in SUBSET Labs
      /\ Of(Active) \cap Of({"paused"}) = {}
      /\ (Of(Active) \cup Of({"paused"})) \cap spare = {}
  BY DEF Active, Assigned, Rows
<1> HIDE DEF here, spare, Of
<1>5. /\ Cardinality(Of(Active)) \in Nat /\ Cardinality(Of({"paused"})) \in Nat
      /\ Cardinality(Of(Active) \cup Of({"paused"}))
           = Cardinality(Of(Active)) + Cardinality(Of({"paused"}))
  BY <1>4, DisjointSizes
<1>6. /\ Cardinality(spare) \in Nat
      /\ Cardinality(here) = Cardinality(Of(Active) \cup Of({"paused"})) + Cardinality(spare)
  BY <1>3, <1>4, DisjointSizes
<1> QED BY <1>1, <1>2, <1>5, <1>6

\* Capacity, the counts by template and by node and the node list agree on the
\* labs they count, also after a template and its rows are gone (reports.ts,
\* platform.ts).
THEOREM CountsAgree == Spec => []ReportsAgree
<1>1. ASSUME Rowed, Rooted PROVE ReportsAgree
  <2>1. /\ Capacity.active = Cardinality(InStatus(Active))
        /\ Capacity.paused = Cardinality(InStatus({"paused"}))
    BY DEF Capacity, With, InStatus
  <2>2. Cardinality(InStatus(Live)) = Cardinality(InStatus(Active)) + Cardinality(InStatus({"paused"}))
    <3>1. /\ InStatus(Active) \in SUBSET Labs /\ InStatus({"paused"}) \in SUBSET Labs
          /\ InStatus(Active) \cap InStatus({"paused"}) = {}
          /\ InStatus(Live) = InStatus(Active) \cup InStatus({"paused"})
      BY DEF InStatus, Assigned, Rows, Live, Active
    <3> HIDE DEF InStatus
    <3> QED BY <3>1, DisjointSizes
  <2>3. \A n \in Nodes : NodeStats(n).claimed = ByNode(n).active + ByNode(n).paused
    BY <1>1, ClaimedAgrees
  <2>4. Capacity.active + Capacity.paused = MapThenSumSet(LAMBDA t : ActiveNow(t), templates)
    BY <1>1, <2>1, <2>2, TemplateCountsAddUp
  <2> QED BY <2>1, <2>3, <2>4, NodeCountsAddUp DEF ReportsAgree
<1>2. Init => Rooted
  BY DEF Init, Rooted, Exists, NewLab
<1> QED BY <1>1, <1>2, RowedInit, OrderedInit, RowedStep, RootedStep, OrderedStep, PTL DEF Spec
=============================================================================
