------------------------------ MODULE LabLease ------------------------------
(***************************************************************************)
(* What the control plane promises about WHO a lab belongs to and when a   *)
(* student's stored work may go away, with every mechanism left out:       *)
(*   - a lab is born either for one student or for the prewarm pool, and   *)
(*     a pool lab may be handed, once, to one student;                     *)
(*   - a student's volume comes into being for, and is erased on account   *)
(*     of, a lab that this very student holds.                             *)
(* LabLifecycle implements this specification.                             *)
(***************************************************************************)
CONSTANTS Labs,    \* every lab that can ever be created
          Users,   \* students
          NoUser   \* the lessee of a lab that waits in the pool

VARIABLES born,    \* labs created so far
          lessee,  \* the student each lab is leased to, or NoUser
          stored   \* students whose volume exists

leaseVars == <<born, lessee, stored>>

LeaseInit ==
  /\ born = {}
  /\ lessee = [l \in Labs |-> NoUser]
  /\ stored = {}

\* A lab is created for a student, or for the pool.
Bear(l, o) ==
  /\ l \notin born
  /\ born' = born \cup {l}
  /\ lessee' = [lessee EXCEPT ![l] = o]
  /\ UNCHANGED stored

\* A pool lab is handed to a student.
Hand(l, u) ==
  /\ l \in born
  /\ lessee[l] = NoUser
  /\ lessee' = [lessee EXCEPT ![l] = u]
  /\ UNCHANGED <<born, stored>>

\* The volume of a student who holds a lab is created.
Store(u) ==
  /\ \E l \in born : lessee[l] = u
  /\ stored' = stored \cup {u}
  /\ UNCHANGED <<born, lessee>>

\* The volume of a student who holds, or held, a lab is erased.
Erase(u) ==
  /\ \E l \in born : lessee[l] = u
  /\ stored' = stored \ {u}
  /\ UNCHANGED <<born, lessee>>

LeaseNext ==
  \/ \E l \in Labs, o \in Users \cup {NoUser} : Bear(l, o)
  \/ \E l \in Labs, u \in Users : Hand(l, u)
  \/ \E u \in Users : Store(u) \/ Erase(u)

LeaseSpec == LeaseInit /\ [][LeaseNext]_leaseVars
=============================================================================
