-------------------------------- MODULE Accounts -------------------------------
(***************************************************************************)
(* The students collection as payments see it: who owns which QR-ID and    *)
(* which password (server/api/db/students.js).  Handlers of other requests *)
(* change one document at a time; the index on qrid keeps QR-IDs unique    *)
(* and MongoDB never gives an _id out twice.                               *)
(***************************************************************************)
CONSTANTS
  Account,    \* _ids
  Qrid,
  Password,
  None,       \* no document yet
  Removed     \* no document any more

VARIABLE students

Student == [qrid : Qrid, password : Password]
Exists(a) == students[a] \notin {None, Removed}
Owners(q) == {a \in Account : Exists(a) /\ students[a].qrid = q}

\* getByQridLean
Lookup(q) == IF Owners(q) = {} THEN None ELSE CHOOSE a \in Owners(q) : TRUE

UniqueQrids == \A a, b \in Account :
  Exists(a) /\ Exists(b) /\ students[a].qrid = students[b].qrid => a = b

StudentsInit ==
  /\ students \in [Account -> Student \cup {None}]
  /\ UniqueQrids

Register(a, st) ==
  /\ students[a] = None
  /\ Owners(st.qrid) = {}
  /\ students' = [students EXCEPT ![a] = st]

EditQrid(a, q) ==
  /\ Exists(a)
  /\ Owners(q) \subseteq {a}
  /\ students' = [students EXCEPT ![a].qrid = q]

ChangePassword(a, p) ==
  /\ Exists(a)
  /\ students' = [students EXCEPT ![a].password = p]

Delete(a) ==
  /\ Exists(a)
  /\ students' = [students EXCEPT ![a] = Removed]

Change ==
  \E a \in Account :
    \/ \E st \in Student : Register(a, st)
    \/ \E q \in Qrid : EditQrid(a, q)
    \/ \E p \in Password : ChangePassword(a, p)
    \/ Delete(a)
=============================================================================
