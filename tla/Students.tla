-------------------------------- MODULE Students -------------------------------
(***************************************************************************)
(* The accounts as the handlers of server/api/actions/students.js change   *)
(* them, one command to MongoDB after the other: a document is found,      *)
(* changed in memory, answered for and saved; or checked for and added; or *)
(* updated in place.  Module Accounts says what others may rely on.        *)
(***************************************************************************)
EXTENDS Integers

CONSTANTS
  Account, Qrid, Password, None, Removed, \* as in Accounts
  Request,   \* requests that may arrive: [id, kind, qrid, to, old, pwd]
  MaxFaults  \* bound: failing commands and lost replies

Preset(r) == r.qrid \in Qrid
Finding == {"edit", "password", "password_master", "delete"}
Kind == Finding \cup {"register", "checkin"}

Doc == [qrid : Qrid, password : Password, appear : SUBSET Request]

ASSUME StudentsAssumption ==
  /\ MaxFaults \in Nat
  /\ None # Removed /\ None \notin Account
  /\ \A x \in {None, Removed} : x \notin Doc /\ x \notin [qrid : Qrid, password : Password]
  /\ \A r \in Request :
       /\ r.kind \in Kind /\ r.pwd \in Password /\ r.to \in Qrid
       /\ r.kind # "register" => Preset(r)

VARIABLES
  docs,      \* the students collection by _id
  step,      \* of a request
  id,        \* the document it has found or added
  chosen,    \* the QR-ID that a registration is about to use
  snapshot,  \* the found document as it is in memory
  answered,  \* the answer that was sent
  commandFaults \* counter of MaxFaults

studentsVars == <<docs, step, id, chosen, snapshot, answered, commandFaults>>

Answer == {"none", "ok", "invalid_qrid", "invalid_password", "error"}

StudentsTypeOK ==
  /\ docs \in [Account -> Doc \cup {None, Removed}]
  /\ step \in [Request -> {"new", "save", "done"}]
  /\ id \in [Request -> Account \cup {None}]
  /\ chosen \in [Request -> Qrid \cup {None}]
  /\ snapshot \in [Request -> Doc \cup {None}]
  /\ answered \in [Request -> Answer]
  /\ commandFaults \in 0..MaxFaults

Present(a) == docs[a] \notin {None, Removed}
Owner(q) == {a \in Account : Present(a) /\ docs[a].qrid = q}

End(r, answer) ==
  /\ step' = [step EXCEPT ![r] = "done"]
  /\ answered' = [answered EXCEPT ![r] = answer]

Fault == commandFaults < MaxFaults /\ commandFaults' = commandFaults + 1

-----------------------------------------------------------------------------
(* profile_edit, password_change, password_change_master, student_delete *)

\* The answer does not wait for the save.
Find(r) ==
  /\ step[r] = "new" /\ r.kind \in Finding
  /\ IF Owner(r.qrid) = {}
       THEN End(r, "invalid_qrid") /\ UNCHANGED <<id, snapshot>>
       ELSE \E a \in Owner(r.qrid) :
              IF r.kind = "password" /\ docs[a].password # r.old
                THEN End(r, "invalid_password") /\ UNCHANGED <<id, snapshot>>
                ELSE /\ step' = [step EXCEPT ![r] = "save"]
                     /\ id' = [id EXCEPT ![r] = a]
                     /\ snapshot' = [snapshot EXCEPT ![r] = docs[a]]
                     /\ answered' = [answered EXCEPT ![r] = "ok"]
  /\ UNCHANGED <<docs, chosen, commandFaults>>

Changed(r, d) ==
  CASE r.kind = "edit" -> [d EXCEPT !.qrid = r.to]
    [] r.kind = "delete" -> Removed
    [] OTHER -> [d EXCEPT !.password = r.pwd]

WholeDocument(r) == Changed(r, snapshot[r])

\* save sends the changed paths only, for the document with this _id; remove
\* takes it away.  The index on qrid refuses a QR-ID that is taken.
Modified(r) == Changed(r, docs[id[r]])
Target(r) == {a \in {id[r]} : Present(a)}
Allowed(r) == r.kind = "edit" => Owner(r.to) \subseteq Target(r)

Save(r) ==
  /\ step[r] = "save" /\ r.kind \in Finding
  /\ step' = [step EXCEPT ![r] = "done"]
  /\ IF Allowed(r)
       THEN docs' = [a \in Account |-> IF a \in Target(r) THEN Modified(r) ELSE docs[a]]
       ELSE UNCHANGED docs
  /\ UNCHANGED <<id, chosen, snapshot, answered, commandFaults>>

-----------------------------------------------------------------------------
(* register_student *)

\* A preset QR-ID must be free; random ones are drawn until one is.
CheckFree(r) ==
  /\ step[r] = "new" /\ r.kind = "register"
  /\ \E q \in IF Preset(r) THEN {r.qrid} ELSE Qrid :
       \/ /\ Owner(q) = {}
          /\ step' = [step EXCEPT ![r] = "save"]
          /\ chosen' = [chosen EXCEPT ![r] = q]
          /\ UNCHANGED answered
       \/ /\ Owner(q) # {} /\ Preset(r)
          /\ End(r, "error")
          /\ UNCHANGED chosen
  /\ UNCHANGED <<docs, id, snapshot, commandFaults>>

NoIndex(q) == TRUE
Index(q) == Owner(q) = {}

Add(r, reply) ==
  /\ step[r] = "save" /\ r.kind = "register"
  /\ Index(chosen[r])
  /\ \E a \in Account :
       /\ docs[a] = None
       /\ docs' = [docs EXCEPT ![a] =
                     [qrid |-> chosen[r], password |-> r.pwd, appear |-> {}]]
       /\ id' = [id EXCEPT ![r] = a]
  /\ End(r, reply)
  /\ IF reply = "ok" THEN UNCHANGED commandFaults ELSE Fault
  /\ UNCHANGED <<chosen, snapshot>>

AddRefused(r) ==
  /\ step[r] = "save" /\ r.kind = "register"
  /\ ~Index(chosen[r])
  /\ End(r, "error")
  /\ UNCHANGED <<docs, id, chosen, snapshot, commandFaults>>

-----------------------------------------------------------------------------
(* ec_checkin, ec_checkout: one update *)

addAppear(r, reply) ==
  /\ step[r] = "new" /\ r.kind = "checkin"
  /\ docs' = [a \in Account |-> IF a \in Owner(r.qrid)
                THEN [docs[a] EXCEPT !.appear = @ \cup {r}] ELSE docs[a]]
  /\ id' = [id EXCEPT ![r] = IF Owner(r.qrid) = {} THEN None ELSE CHOOSE a \in Owner(r.qrid) : TRUE]
  /\ End(r, IF reply = "ok" /\ Owner(r.qrid) = {} THEN "error" ELSE reply)
  /\ IF reply = "ok" THEN UNCHANGED commandFaults ELSE Fault
  /\ UNCHANGED <<chosen, snapshot>>

\* A command fails: before anything was found or changed the answer says so; the
\* error of a save is ignored.
CommandFails(r) ==
  /\ step[r] # "done"
  /\ Fault
  /\ End(r, IF step[r] = "save" /\ r.kind \in Finding THEN "ok" ELSE "error")
  /\ UNCHANGED <<docs, id, chosen, snapshot>>

-----------------------------------------------------------------------------
StudentsInit ==
  /\ docs \in [Account -> [qrid : Qrid, password : Password, appear : {{}}] \cup {None}]
  /\ \A q \in Qrid : \A a, b \in Owner(q) : a = b
  /\ step = [r \in Request |-> "new"]
  /\ id = [r \in Request |-> None]
  /\ chosen = [r \in Request |-> None]
  /\ snapshot = [r \in Request |-> None]
  /\ answered = [r \in Request |-> "none"]
  /\ commandFaults = 0

StudentsNext == \E r \in Request :
  \/ Find(r) \/ Save(r)
  \/ CheckFree(r) \/ AddRefused(r)
  \/ \E reply \in {"ok", "error"} : Add(r, reply) \/ addAppear(r, reply)
  \/ CommandFails(r)

StudentsSpec == StudentsInit /\ [][StudentsNext]_studentsVars

-----------------------------------------------------------------------------
(* Properties *)

\* What the payments see of the collection.
View == [a \in Account |-> IF Present(a)
          THEN [qrid |-> docs[a].qrid, password |-> docs[a].password] ELSE docs[a]]
Abstract == INSTANCE Accounts WITH students <- View

\* Interleaved as the commands are, every one of them is a registration, a
\* change of QR-ID or of password or a deletion as the payments expect them, of
\* one account at a time and with unique QR-IDs.
ImplementsAccounts == Abstract!StudentsInit /\ [][Abstract!Change]_View

\* A check-in that was confirmed is not lost to an edit whose document was found
\* before it.
CheckinsKept == \A r \in Request :
  r.kind = "checkin" /\ answered[r] = "ok" =>
    docs[id[r]] = Removed \/ r \in docs[id[r]].appear
===============================================================================
