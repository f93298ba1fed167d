------------------------------ MODULE MCStudents ------------------------------
(***************************************************************************)
(* Small instances of the students collection and of the presence that is  *)
(* computed from its log; TLC chooses one of the two in the initial state. *)
(***************************************************************************)
EXTENDS Students, Presence, TLC

CONSTANTS a1, a2, a3

VARIABLE what

vars == <<what, studentsVars, presenceVars>>

Rq(n, kind, qrid, to, old, pwd) ==
  [id |-> n, kind |-> kind, qrid |-> qrid, to |-> to, old |-> old, pwd |-> pwd]
Requests ==
  {Rq(1, "edit", "q1", "q2", "p1", "p1"), Rq(2, "password", "q1", "q1", "p1", "p2"),
   Rq(3, "register", "q2", "q1", "p1", "p1"), Rq(4, "checkin", "q1", "q1", "p1", "p1"),
   Rq(5, "delete", "q1", "q1", "p1", "p1"), Rq(6, "register", None, "q1", "p1", "p1")}

Symmetric == Permutations({a1, a2, a3})

Init ==
  /\ what \in {"students", "presence"}
  /\ StudentsInit /\ (what = "students" \/ \A a \in Account : docs[a] = None)
  /\ PresenceInit

Next ==
  \/ what = "students" /\ StudentsNext /\ UNCHANGED <<what, presenceVars>>
  \/ what = "presence" /\ PresenceNext /\ UNCHANGED <<what, studentsVars>>

Spec == Init /\ [][Next]_vars
=============================================================================
