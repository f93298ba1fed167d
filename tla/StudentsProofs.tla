----------------------------- MODULE StudentsProofs -----------------------------
(***************************************************************************)
(* The commands of any number of requests to the students collection, in   *)
(* any order, with any failures, are changes of Accounts and lose no       *)
(* check-in.  The presence computed from a log is the time for which the   *)
(* person was inside, for every log of any length.                         *)
(***************************************************************************)
EXTENDS Students, Presence, FiniteSetTheorems, SequenceTheorems, TLAPS

\* A request that has found, added or updated a document has its _id, which is
\* never without a document again; a registration has chosen a QR-ID.
Progress == \A r \in Request :
  /\ step[r] = "save" /\ r.kind \in Finding => id[r] \in Account /\ docs[id[r]] # None
  /\ step[r] = "save" /\ r.kind = "register" => chosen[r] \in Qrid
  /\ step[r] = "new" => answered[r] = "none"
  /\ r.kind = "checkin" /\ answered[r] = "ok" => id[r] \in Account /\ docs[id[r]] # None
  /\ r.kind = "checkin" => step[r] # "save"

OneOwner == \A q \in Qrid : \A a, b \in Owner(q) : a = b

StudentsInv == StudentsTypeOK /\ Progress /\ OneOwner /\ CheckinsKept

-----------------------------------------------------------------------------
(* The collection *)

LEMMA PresentDoc ==
  ASSUME StudentsTypeOK, NEW a \in Account
  PROVE  /\ Present(a) <=> docs[a] \in Doc
         /\ Present(a) => View[a] = [qrid |-> docs[a].qrid, password |-> docs[a].password]
         /\ ~Present(a) => View[a] = docs[a]
         /\ Present(a) <=> Abstract!Exists(a)
         /\ docs[a] = None <=> View[a] = None
<1>1. Present(a) <=> docs[a] \in Doc
      BY StudentsAssumption DEF StudentsTypeOK, Present
<1>2. View[a] = IF Present(a) THEN [qrid |-> docs[a].qrid, password |-> docs[a].password]
                              ELSE docs[a]
      BY DEF View
<1>3. ASSUME Present(a)
      PROVE  [qrid |-> docs[a].qrid, password |-> docs[a].password]
               \in [qrid : Qrid, password : Password]
      BY <1>1, <1>3 DEF Doc
<1> QED BY <1>1, <1>2, <1>3, StudentsAssumption DEF Present, Abstract!Exists

LEMMA SameOwners ==
  ASSUME StudentsTypeOK, NEW q
  PROVE  Abstract!Owners(q) = Owner(q)
<1>1. ASSUME NEW a \in Account, Present(a) PROVE View[a].qrid = docs[a].qrid
  <2>1. View[a] = [qrid |-> docs[a].qrid, password |-> docs[a].password]
        BY <1>1, PresentDoc
  <2> QED BY <2>1
<1> QED BY <1>1, PresentDoc DEF Abstract!Owners, Owner

-----------------------------------------------------------------------------
(* Every command keeps the invariant and is a change of Accounts or none. *)

\* What a step has to show.
Good == StudentsInv' /\ [Abstract!Change]_View

LEMMA InitInv == StudentsInit => StudentsInv
<1> SUFFICES ASSUME StudentsInit PROVE StudentsInv
    OBVIOUS
<1>1. StudentsTypeOK
  <2>1. \A d : d \in [qrid : Qrid, password : Password, appear : {{}}] => d \in Doc
        BY DEF Doc
  <2> QED BY <2>1, StudentsAssumption DEF StudentsInit, StudentsTypeOK, Answer
<1> QED BY <1>1 DEF StudentsInit, StudentsInv, Progress, OneOwner, CheckinsKept

\* A step that leaves the documents alone.
LEMMA NoChange ==
  ASSUME StudentsInv, UNCHANGED docs, StudentsTypeOK', Progress',
         \A r \in Request : r.kind = "checkin" /\ answered'[r] = "ok" =>
           answered[r] = "ok" /\ id'[r] = id[r]
  PROVE  Good
<1>1. OneOwner'
      BY DEF StudentsInv, OneOwner, Owner, Present
<1>2. CheckinsKept'
      BY DEF StudentsInv, CheckinsKept
<1>3. UNCHANGED View
      BY DEF View, Present
<1> QED BY <1>1, <1>2, <1>3 DEF Good, StudentsInv

LEMMA FindGood ==
  ASSUME StudentsInv, NEW r \in Request, Find(r)
  PROVE  Good
<1> USE DEF StudentsInv
<1>0. \A a \in Account : Present(a) => docs[a] \in Doc /\ docs[a] # None
      BY PresentDoc DEF Present
<1>1. StudentsTypeOK'
      BY <1>0 DEF Find, End, StudentsTypeOK, Owner, Answer
<1>2. r.kind # "checkin" /\ r.kind # "register"
      BY DEF Find, Finding
<1>3. Progress'
      BY <1>0, <1>2 DEF Find, End, StudentsTypeOK, Owner, Progress
<1>4. \A q \in Request : q.kind = "checkin" /\ answered'[q] = "ok" =>
        answered[q] = "ok" /\ id'[q] = id[q]
      BY <1>2 DEF Find, End, StudentsTypeOK
<1> QED BY <1>1, <1>3, <1>4, NoChange DEF Find

LEMMA CheckFreeGood ==
  ASSUME StudentsInv, NEW r \in Request, CheckFree(r)
  PROVE  Good
<1> USE DEF StudentsInv
<1>1. PICK q \in IF Preset(r) THEN {r.qrid} ELSE Qrid :
        \/ /\ step' = [step EXCEPT ![r] = "save"]
           /\ chosen' = [chosen EXCEPT ![r] = q]
           /\ UNCHANGED answered
        \/ /\ End(r, "error")
           /\ UNCHANGED chosen
      BY DEF CheckFree
<1>2. q \in Qrid
      BY DEF Preset
<1>3. r.kind = "register" /\ UNCHANGED <<docs, id, snapshot, commandFaults>>
      BY DEF CheckFree
<1>4. StudentsTypeOK'
      BY <1>1, <1>2, <1>3 DEF End, StudentsTypeOK, Answer
<1>5. Progress'
      BY <1>1, <1>2, <1>3 DEF End, StudentsTypeOK, Progress, Finding
<1>6. \A s \in Request : s.kind = "checkin" /\ answered'[s] = "ok" =>
        answered[s] = "ok" /\ id'[s] = id[s]
      BY <1>1, <1>3 DEF End, StudentsTypeOK
<1> QED BY <1>3, <1>4, <1>5, <1>6, NoChange

LEMMA EndingGood ==
  ASSUME StudentsInv, NEW r \in Request, AddRefused(r) \/ CommandFails(r)
  PROVE  Good
<1> USE DEF StudentsInv
<1>1. /\ UNCHANGED <<docs, id, chosen, snapshot>>
      /\ step' = [step EXCEPT ![r] = "done"]
      /\ commandFaults' \in 0..MaxFaults
      BY StudentsAssumption
      DEF AddRefused, CommandFails, Fault, End, StudentsTypeOK
<1>2. \E answer \in {"ok", "error"} :
        /\ answered' = [answered EXCEPT ![r] = answer]
        /\ answer = "ok" => r.kind \in Finding
      BY DEF AddRefused, CommandFails, End
<1>3. StudentsTypeOK'
      BY <1>1, <1>2 DEF StudentsTypeOK, Answer
<1>4. Progress'
      BY <1>1, <1>2 DEF StudentsTypeOK, Progress, Finding
<1>5. \A s \in Request : s.kind = "checkin" /\ answered'[s] = "ok" =>
        answered[s] = "ok" /\ id'[s] = id[s]
      BY <1>1, <1>2 DEF StudentsTypeOK, Finding
<1> QED BY <1>1, <1>3, <1>4, <1>5, NoChange

\* A check-in adds to the log only.
LEMMA AppearGood ==
  ASSUME StudentsInv, NEW r \in Request, NEW reply \in {"ok", "error"}, addAppear(r, reply)
  PROVE  Good
<1> USE DEF StudentsInv
<1>1. \A a \in Account : docs[a] \in Doc <=> Present(a)
      BY PresentDoc
<1>2. \A a \in Account : docs'[a] = IF a \in Owner(r.qrid)
        THEN [docs[a] EXCEPT !.appear = @ \cup {r}] ELSE docs[a]
      BY DEF addAppear
<1>3. \A a \in Account : Present(a) =>
        /\ docs'[a] \in Doc
        /\ docs'[a].qrid = docs[a].qrid /\ docs'[a].password = docs[a].password
        /\ docs[a].appear \subseteq docs'[a].appear
        /\ a \in Owner(r.qrid) => r \in docs'[a].appear
  <2> SUFFICES ASSUME NEW a \in Account, docs[a] \in Doc
               PROVE  /\ docs'[a] \in Doc
                      /\ docs'[a].qrid = docs[a].qrid
                      /\ docs'[a].password = docs[a].password
                      /\ docs[a].appear \subseteq docs'[a].appear
                      /\ a \in Owner(r.qrid) => r \in docs'[a].appear
      BY <1>1
  <2>1. CASE a \in Owner(r.qrid)
    <3>1. docs'[a] = [docs[a] EXCEPT !.appear = docs[a].appear \cup {r}]
          BY <1>2, <2>1
    <3> QED BY <3>1, <2>1 DEF Doc
  <2>2. CASE a \notin Owner(r.qrid)
        BY <1>2, <2>2
  <2> QED BY <2>1, <2>2
<1>4. \A a \in Account : ~Present(a) => docs'[a] = docs[a]
      BY <1>2 DEF Owner
<1>5. /\ id' = [id EXCEPT ![r] = IF Owner(r.qrid) = {} THEN None
                                  ELSE CHOOSE a \in Owner(r.qrid) : TRUE]
      /\ UNCHANGED <<chosen, snapshot>> /\ r.kind = "checkin"
      BY DEF addAppear
<1>6. PICK answer \in {"ok", "error"} :
        /\ End(r, answer)
        /\ answer = "ok" => Owner(r.qrid) # {}
      BY DEF addAppear
<1>7. Owner(r.qrid) # {} => (CHOOSE a \in Owner(r.qrid) : TRUE) \in Owner(r.qrid)
      OBVIOUS
<1>8. Owner(r.qrid) \subseteq Account
      BY DEF Owner
<1>9. commandFaults' \in 0..MaxFaults
      BY StudentsAssumption DEF addAppear, Fault, StudentsTypeOK
<1>10. docs' \in [Account -> Doc \cup {None, Removed}]
       BY <1>3, <1>4 DEF addAppear, StudentsTypeOK, Present
<1>11. StudentsTypeOK'
       BY <1>5, <1>6, <1>7, <1>8, <1>9, <1>10 DEF StudentsTypeOK, End, Answer
<1>12. \A a \in Account : docs'[a] = None => docs[a] = None
       BY <1>3, <1>4, StudentsAssumption
<1>13. \A a \in Account : Present(a)' <=> Present(a)
       BY <1>3, <1>4, StudentsAssumption DEF Present
<1>14. Progress'
       BY <1>5, <1>6, <1>7, <1>8, <1>12, <1>1, StudentsAssumption
       DEF StudentsTypeOK, End, Progress, Finding, Owner, Present
<1>15. OneOwner'
       BY <1>3, <1>13 DEF OneOwner, Owner
<1>16. CheckinsKept'
  <2> SUFFICES ASSUME NEW s \in Request, s.kind = "checkin", answered'[s] = "ok"
               PROVE  docs'[id'[s]] = Removed \/ s \in docs'[id'[s]].appear
      BY DEF CheckinsKept
  <2>1. CASE s = r
        BY <2>1, <1>3, <1>5, <1>6, <1>7, <1>8 DEF End, StudentsTypeOK, Owner
  <2>2. CASE s # r
    <3>1. answered[s] = "ok" /\ id'[s] = id[s]
          BY <2>2, <1>5, <1>6 DEF End, StudentsTypeOK
    <3>2. id[s] \in Account /\ docs[id[s]] # None
          BY <3>1 DEF Progress
    <3>3. docs[id[s]] = Removed \/ s \in docs[id[s]].appear
          BY <3>1 DEF CheckinsKept
    <3> QED BY <3>1, <3>2, <3>3, <1>3, <1>4 DEF Present
  <2> QED BY <2>1, <2>2
<1>17. UNCHANGED View
       BY <1>3, <1>4, <1>13 DEF View
<1> QED BY <1>11, <1>14, <1>15, <1>16, <1>17 DEF Good

\* The added document has a QR-ID that nobody has.
LEMMA AddGood ==
  ASSUME StudentsInv, NEW r \in Request, NEW reply \in {"ok", "error"}, Add(r, reply)
  PROVE  Good
<1> USE DEF StudentsInv
<1> DEFINE q == chosen[r]
<1>1. q \in Qrid /\ Owner(q) = {} /\ r.pwd \in Password
      BY StudentsAssumption DEF Add, Progress, Index
<1> DEFINE d == [qrid |-> q, password |-> r.pwd, appear |-> {}]
<1>2. PICK a \in Account :
        /\ docs[a] = None
        /\ docs' = [docs EXCEPT ![a] = d]
        /\ id' = [id EXCEPT ![r] = a]
      BY DEF Add
<1>3. d \in Doc /\ d \notin {None, Removed}
      BY <1>1, StudentsAssumption DEF Doc
<1>4. /\ End(r, reply) /\ r.kind = "register"
      /\ UNCHANGED <<chosen, snapshot>>
      /\ commandFaults' \in 0..MaxFaults
      BY StudentsAssumption DEF Add, Fault, StudentsTypeOK
<1>5. StudentsTypeOK'
      BY <1>2, <1>3, <1>4 DEF StudentsTypeOK, End, Answer
<1>6. \A b \in Account : docs'[b] = IF b = a THEN d ELSE docs[b]
      BY <1>2 DEF StudentsTypeOK
<1> HIDE DEF d, q
<1>7. Progress'
      BY <1>2, <1>3, <1>4, <1>6 DEF StudentsTypeOK, End, Progress, Finding
<1>8. \A b \in Account : Present(b)' <=> b = a \/ Present(b)
      BY <1>3, <1>6 DEF Present
<1>9. OneOwner'
  <2>1. \A b \in Account : Present(b) => docs[b].qrid # q /\ b # a
        BY <1>1, <1>2 DEF Owner, Present
  <2>2. d.qrid = q
        BY DEF d
  <2> QED BY <1>6, <1>8, <2>1, <2>2 DEF OneOwner, Owner
<1>10. CheckinsKept'
  <2> SUFFICES ASSUME NEW s \in Request, s.kind = "checkin", answered'[s] = "ok"
               PROVE  docs'[id'[s]] = Removed \/ s \in docs'[id'[s]].appear
      BY DEF CheckinsKept
  <2>1. s # r /\ answered[s] = "ok" /\ id'[s] = id[s]
        BY <1>2, <1>4 DEF End, StudentsTypeOK
  <2>2. id[s] \in Account /\ id[s] # a
        BY <1>2, <2>1 DEF Progress
  <2> QED BY <2>1, <2>2, <1>6 DEF CheckinsKept
<1>11. Abstract!Change
  <2> DEFINE st == [qrid |-> q, password |-> r.pwd]
  <2>1. st \in Abstract!Student
        BY <1>1 DEF Abstract!Student
  <2>2. View[a] = None /\ Abstract!Owners(st.qrid) = {}
        BY <1>1, <1>2, PresentDoc, SameOwners
  <2>3. View' = [View EXCEPT ![a] = st]
    <3>1. d.qrid = q /\ d.password = r.pwd
          BY DEF d
    <3> QED BY <1>6, <1>8, <3>1, <1>2 DEF View, Present
  <2>4. Abstract!Register(a, st)
        BY <2>1, <2>2, <2>3 DEF Abstract!Register
  <2> QED BY <2>1, <2>4 DEF Abstract!Change
<1> QED BY <1>5, <1>7, <1>9, <1>10, <1>11 DEF Good

-----------------------------------------------------------------------------
(* Saving *)

\* A save that is not allowed or finds its document removed changes nothing.
LEMMA SaveNothing ==
  ASSUME StudentsInv, NEW r \in Request, Save(r), ~Allowed(r) \/ Target(r) = {}
  PROVE  Good
<1> USE DEF StudentsInv
<1>1. UNCHANGED docs
      BY DEF Save, StudentsTypeOK
<1>2. StudentsTypeOK' /\ Progress'
      BY <1>1 DEF Save, StudentsTypeOK, Progress
<1> QED BY <1>1, <1>2, NoChange DEF Save

LEMMA SaveGood ==
  ASSUME StudentsInv, NEW r \in Request, Save(r)
  PROVE  Good
<1> USE DEF StudentsInv
<1> SUFFICES ASSUME Allowed(r), Target(r) # {} PROVE Good
    BY SaveNothing
<1> DEFINE a == id[r]
           m == Modified(r)
<1>1. a \in Account /\ Present(a) /\ Target(r) = {a}
      BY DEF Save, Progress, Target
<1>2. docs[a] \in Doc
      BY <1>1, PresentDoc
<1>3. r.pwd \in Password /\ r.to \in Qrid /\ r.kind \in Finding
      BY StudentsAssumption DEF Save
<1>4. docs' = [docs EXCEPT ![a] = m]
      BY <1>1 DEF Save, StudentsTypeOK
<1>5. m = Changed(r, docs[a])
      BY DEF Modified
<1>6. \/ r.kind = "delete" /\ m = Removed
      \/ r.kind = "edit" /\ m = [docs[a] EXCEPT !.qrid = r.to]
      \/ /\ r.kind \in {"password", "password_master"}
         /\ m = [docs[a] EXCEPT !.password = r.pwd]
      BY <1>3, <1>5 DEF Changed, Finding
<1> HIDE DEF a, m
<1>7. m # Removed => m \in Doc /\ m.appear = docs[a].appear
      BY <1>2, <1>3, <1>6 DEF Doc
<1>8. m # None
      BY <1>6, <1>7, StudentsAssumption
<1>9. \A b \in Account : docs'[b] = IF b = a THEN m ELSE docs[b]
      BY <1>4 DEF StudentsTypeOK
<1>10. /\ step' = [step EXCEPT ![r] = "done"]
       /\ UNCHANGED <<id, chosen, snapshot, answered, commandFaults>>
       BY DEF Save
<1>11. StudentsTypeOK'
       BY <1>4, <1>7, <1>10 DEF StudentsTypeOK
<1>12. Progress'
       BY <1>8, <1>9, <1>10 DEF StudentsTypeOK, Progress
<1>13. \A b \in Account : Present(b)' <=> Present(b) /\ (b = a => m # Removed)
       BY <1>1, <1>8, <1>9 DEF Present
<1>14. OneOwner'
  <2>1. CASE r.kind = "edit"
    <3>1. Owner(r.to) \subseteq {a}
          BY <1>1, <2>1 DEF Allowed
    <3>2. m.qrid = r.to
          BY <1>2, <1>6, <2>1 DEF Doc
    <3> QED BY <1>9, <1>13, <3>1, <3>2 DEF OneOwner, Owner
  <2>2. CASE r.kind # "edit"
    <3>1. m # Removed => m.qrid = docs[a].qrid
          BY <1>2, <1>6, <2>2 DEF Doc
    <3> QED BY <1>1, <1>9, <1>13, <3>1 DEF OneOwner, Owner
  <2> QED BY <2>1, <2>2
<1>15. CheckinsKept'
  <2> SUFFICES ASSUME NEW s \in Request, s.kind = "checkin", answered'[s] = "ok"
               PROVE  docs'[id'[s]] = Removed \/ s \in docs'[id'[s]].appear
      BY DEF CheckinsKept
  <2>1. answered[s] = "ok" /\ id'[s] = id[s]
        BY <1>10
  <2>2. id[s] \in Account
        BY <2>1 DEF Progress
  <2>3. docs[id[s]] = Removed \/ s \in docs[id[s]].appear
        BY <2>1 DEF CheckinsKept
  <2> QED BY <2>1, <2>2, <2>3, <1>1, <1>7, <1>9 DEF Present
<1>16. Abstract!Change
  <2>1. Abstract!Exists(a)
        BY <1>1, PresentDoc
  <2>2. View[a] = [qrid |-> docs[a].qrid, password |-> docs[a].password]
        BY <1>1, PresentDoc
  <2>3. \A b \in Account : b # a => View'[b] = View[b]
        BY <1>9, <1>13 DEF View
  <2>4. View'[a] = IF m = Removed THEN Removed
                                  ELSE [qrid |-> m.qrid, password |-> m.password]
        BY <1>1, <1>9, <1>13 DEF View
  <2>5. ASSUME NEW v, View'[a] = v PROVE View' = [View EXCEPT ![a] = v]
        BY <1>1, <2>3, <2>5 DEF View
  <2>6. CASE r.kind = "delete"
    <3>1. Abstract!Delete(a)
          BY <1>6, <2>1, <2>4, <2>5, <2>6 DEF Abstract!Delete
    <3> QED BY <1>1, <3>1 DEF Abstract!Change
  <2>7. CASE r.kind = "edit"
    <3>1. m # Removed /\ m.qrid = r.to /\ m.password = docs[a].password
          BY <1>2, <1>3, <1>6, <2>7, StudentsAssumption DEF Doc
    <3>2. View' = [View EXCEPT ![a] = [qrid |-> r.to, password |-> docs[a].password]]
          BY <2>4, <2>5, <3>1
    <3>3. View' = [View EXCEPT ![a].qrid = r.to]
      <4>1. [View[a] EXCEPT !.qrid = r.to] = [qrid |-> r.to, password |-> docs[a].password]
            BY <2>2
      <4> QED BY <3>2, <4>1
    <3>4. Abstract!Owners(r.to) \subseteq {a}
          BY <1>1, <2>7, SameOwners DEF Allowed
    <3>5. Abstract!EditQrid(a, r.to)
          BY <2>1, <3>3, <3>4 DEF Abstract!EditQrid
    <3> QED BY <1>1, <1>3, <3>5 DEF Abstract!Change
  <2>8. CASE r.kind \in {"password", "password_master"}
    <3>1. m # Removed /\ m.qrid = docs[a].qrid /\ m.password = r.pwd
          BY <1>2, <1>3, <1>6, <2>8, StudentsAssumption DEF Doc
    <3>2. View' = [View EXCEPT ![a] = [qrid |-> docs[a].qrid, password |-> r.pwd]]
          BY <2>4, <2>5, <3>1
    <3>3. View' = [View EXCEPT ![a].password = r.pwd]
      <4>1. [View[a] EXCEPT !.password = r.pwd] = [qrid |-> docs[a].qrid, password |-> r.pwd]
            BY <2>2
      <4> QED BY <3>2, <4>1
    <3>4. Abstract!ChangePassword(a, r.pwd)
          BY <2>1, <3>3 DEF Abstract!ChangePassword
    <3> QED BY <1>1, <1>3, <3>4 DEF Abstract!Change
  <2> QED BY <1>6, <2>6, <2>7, <2>8
<1> QED BY <1>11, <1>12, <1>14, <1>15, <1>16 DEF Good

-----------------------------------------------------------------------------
(* The theorems *)

LEMMA StepGood == StudentsInv /\ [StudentsNext]_studentsVars => Good
<1> SUFFICES ASSUME StudentsInv, [StudentsNext]_studentsVars PROVE Good
    OBVIOUS
<1>1. CASE UNCHANGED studentsVars
  <2>1. StudentsTypeOK' /\ Progress'
        BY <1>1 DEF studentsVars, StudentsInv, StudentsTypeOK, Progress
  <2> QED BY <1>1, <2>1, NoChange DEF studentsVars
<1> QED
    BY <1>1, FindGood, SaveGood, CheckFreeGood, EndingGood, AddGood, AppearGood
    DEF StudentsNext

LEMMA Always == StudentsSpec => []StudentsInv
<1>1. StudentsInv /\ [StudentsNext]_studentsVars => StudentsInv'
      BY StepGood DEF Good
<1> QED BY <1>1, InitInv, PTL DEF StudentsSpec

\* The types hold for any number of accounts, requests and faults.
THEOREM StudentsTypeCorrect == StudentsSpec => []StudentsTypeOK
<1>1. StudentsInv => StudentsTypeOK
      BY DEF StudentsInv
<1> QED BY <1>1, Always, PTL

\* A confirmed check-in stays in the log of its student, whatever edits, changes
\* of password and registrations found the document before it.
THEOREM CheckinsAlwaysKept == StudentsSpec => []CheckinsKept
<1>1. StudentsInv => CheckinsKept
      BY DEF StudentsInv
<1> QED BY <1>1, Always, PTL

\* The handlers of actions/students.js, interleaved command by command, do to the
\* accounts nothing but what the payments (TransactionRequest) expect of others.
THEOREM AccountsImplemented == StudentsSpec => ImplementsAccounts
<1>1. StudentsInit => Abstract!StudentsInit
  <2> SUFFICES ASSUME StudentsInit PROVE Abstract!StudentsInit
      OBVIOUS
  <2>1. StudentsInv
        BY InitInv
  <2>2. \A a \in Account : View[a] \in Abstract!Student \cup {None}
    <3> SUFFICES ASSUME NEW a \in Account PROVE View[a] \in Abstract!Student \cup {None}
        OBVIOUS
    <3>1. docs[a] \in [qrid : Qrid, password : Password, appear : {{}}] \cup {None}
          BY DEF StudentsInit
    <3>2. CASE docs[a] = None
          BY <3>2, <2>1, PresentDoc DEF StudentsInv
    <3>3. CASE docs[a] # None
      <4>1. docs[a] \in Doc
            BY <3>1, <3>3 DEF Doc
      <4>2. View[a] = [qrid |-> docs[a].qrid, password |-> docs[a].password]
            BY <2>1, <4>1, PresentDoc DEF StudentsInv
      <4> QED BY <4>1, <4>2 DEF Doc, Abstract!Student
    <3> QED BY <3>2, <3>3
  <2>3. View \in [Account -> Abstract!Student \cup {None}]
        BY <2>2 DEF View
  <2>4. Abstract!UniqueQrids
    <3>1. \A a \in Account : Abstract!Exists(a) =>
            /\ View[a].qrid = docs[a].qrid
            /\ docs[a].qrid \in Qrid /\ a \in Owner(docs[a].qrid)
      <4> SUFFICES ASSUME NEW a \in Account, Abstract!Exists(a)
                   PROVE  /\ View[a].qrid = docs[a].qrid
                          /\ docs[a].qrid \in Qrid /\ a \in Owner(docs[a].qrid)
          OBVIOUS
      <4>1. /\ Present(a) /\ docs[a] \in Doc
            /\ View[a] = [qrid |-> docs[a].qrid, password |-> docs[a].password]
            BY <2>1, PresentDoc DEF StudentsInv
      <4> QED BY <4>1 DEF Doc, Owner
    <3> QED BY <3>1, <2>1 DEF Abstract!UniqueQrids, StudentsInv, OneOwner
  <2> QED BY <2>3, <2>4 DEF Abstract!StudentsInit
<1>2. StudentsInv /\ [StudentsNext]_studentsVars => [Abstract!Change]_View
      BY StepGood DEF Good
<1> QED BY <1>1, <1>2, Always, PTL DEF StudentsSpec, ImplementsAccounts

-----------------------------------------------------------------------------
(* Induction, without a predicate as a parameter *)

\* Every set of natural numbers that is not empty has a least element.
LEMMA LeastElement ==
  ASSUME NEW B \in SUBSET Nat, B # {}
  PROVE  \E b \in B : \A c \in B : b <= c
<1> DEFINE T == {0..b : b \in B}
<1>1. T \subseteq FiniteSubsetsOf(Nat) /\ T # {}
  <2>1. ASSUME NEW b \in B PROVE 0..b \in FiniteSubsetsOf(Nat)
    <3>1. IsFiniteSet(0..b)
      BY FS_Interval
    <3>2. 0..b \in SUBSET Nat
      OBVIOUS
    <3> QED
      BY <3>1, <3>2 DEF FiniteSubsetsOf
  <2> QED
    BY <2>1
<1>2. IsWellFoundedOn(StrictSubsetOrdering(Nat), FiniteSubsetsOf(Nat))
  BY FS_StrictSubsetOrderingWellFounded
<1>3. PICK x \in T : \A y \in T : <<y, x>> \notin StrictSubsetOrdering(Nat)
  <2> HIDE DEF T
  <2> QED
    BY <1>1, <1>2, WFMin
<1>4. PICK b \in B : x = 0..b
  OBVIOUS
<1>5. ASSUME NEW c \in B, ~ (b <= c) PROVE FALSE
  <2>1. 0..c \in T /\ 0..c \subseteq x /\ 0..c # x
    BY <1>4, <1>5
  <2>2. 0..c \in SUBSET Nat /\ x \in SUBSET Nat
    BY <1>4
  <2> QED
    BY <1>3, <2>1, <2>2 DEF StrictSubsetOrdering
<1> QED
  BY <1>5

\* A set that has 0 and with each number the next has all up to n.
LEMMA AllUpTo ==
  ASSUME NEW n \in Nat, NEW P, 0 \in P, \A k \in 1..n : k - 1 \in P => k \in P
  PROVE  0..n \subseteq P
<1> DEFINE B == (0..n) \ P
<1>1. SUFFICES ASSUME B # {} PROVE FALSE
  OBVIOUS
<1>2. PICK b \in B : \A c \in B : b <= c
  <2>1. B \in SUBSET Nat
    OBVIOUS
  <2> HIDE DEF B
  <2> QED
    BY <1>1, <2>1, LeastElement
<1>3. b \in 1..n /\ b - 1 \in P
  <2>1. b # 0
    OBVIOUS
  <2>2. b - 1 \in 0..n /\ ~(b <= b - 1)
    BY <2>1
  <2> QED
    BY <1>2, <2>1, <2>2
<1> QED
  BY <1>3

\* What to do in n steps, each with the result of the last.
Steps(n, S) == [1..n -> [S -> S]]

LEMMA Recursion ==
  ASSUME NEW n \in Nat, NEW S, NEW s0 \in S, NEW F \in Steps(n, S)
  PROVE  \E f \in [0..n -> S] : f[0] = s0 /\ \A k \in 1..n : f[k] = F[k][f[k - 1]]
<1> DEFINE Upto(m) == {f \in [0..m -> S] : f[0] = s0 /\ \A k \in 1..m : f[k] = F[k][f[k - 1]]}
           P == {m \in 0..n : Upto(m) # {}}
<1>1. 0 \in P
  <2>1. [k \in 0..0 |-> s0] \in Upto(0)
    OBVIOUS
  <2> QED
    BY <2>1
<1>2. ASSUME NEW m \in 1..n, m - 1 \in P PROVE m \in P
  <2>1. PICK f : f \in Upto(m - 1)
    BY <1>2
  <2> DEFINE g == [k \in 0..m |-> IF k = m THEN F[m][f[m - 1]] ELSE f[k]]
  <2>2. f \in [0..(m - 1) -> S] /\ m - 1 \in 0..(m - 1)
    BY <2>1
  <2>3. F[m] \in [S -> S] /\ f[m - 1] \in S
    BY <2>2 DEF Steps
  <2>4. g \in [0..m -> S]
    BY <2>2, <2>3
  <2>5. g[0] = s0
    BY <2>1, <2>4
  <2>6. ASSUME NEW k \in 1..m PROVE g[k] = F[k][g[k - 1]]
    <3>1. k - 1 \in 0..m /\ k - 1 # m /\ g[k - 1] = f[k - 1]
      OBVIOUS
    <3>2. CASE k = m
      BY <3>1, <3>2
    <3>3. CASE k # m
      <4>1. k \in 1..(m - 1) /\ g[k] = f[k]
        BY <3>3
      <4>2. f[k] = F[k][f[k - 1]]
        BY <2>1, <4>1
      <4> QED
        BY <3>1, <4>1, <4>2
    <3> QED
      BY <3>2, <3>3
  <2>7. g \in Upto(m)
    <3> HIDE DEF g
    <3> QED
      BY <2>4, <2>5, <2>6
  <2> QED
    BY <2>7
<1>3. n \in P
  <2> HIDE DEF P
  <2>1. 0..n \subseteq P
    BY <1>1, <1>2, AllUpTo
  <2> QED
    BY <2>1
<1> QED
  BY <1>3

-----------------------------------------------------------------------------
(* The sorted log *)

Checks == Seq([type : Type, time : Int])

\* Where in the log the k-th check of the sorted one is.
Rank(checks, i) == Cardinality({j \in 1..Len(checks) : Before(checks, j, i)})
Position(checks, k) == CHOOSE i \in 1..Len(checks) : Rank(checks, i) = k - 1

LEMMA ChecksParts ==
  ASSUME NEW checks \in Checks
  PROVE  /\ Len(checks) \in Nat /\ DOMAIN checks = 1..Len(checks)
         /\ \A i \in 1..Len(checks) :
              /\ checks[i].type \in Type /\ checks[i].time \in Int
              /\ checks[i] = [type |-> checks[i].type, time |-> checks[i].time]
<1>1. Len(checks) \in Nat /\ DOMAIN checks = 1..Len(checks)
  BY DEF Checks
<1>2. \A i \in 1..Len(checks) : checks[i] \in [type : Type, time : Int]
  BY <1>1, ElementOfSeq DEF Checks
<1> QED
  BY <1>1, <1>2

LEMMA RankStrict ==
  ASSUME NEW checks \in Checks, NEW i \in 1..Len(checks), NEW j \in 1..Len(checks),
         Before(checks, i, j)
  PROVE  Rank(checks, i) \in Nat /\ Rank(checks, j) \in Nat /\ Rank(checks, i) < Rank(checks, j)
<1> DEFINE n == Len(checks)
           Pre(m) == {l \in 1..n : Before(checks, l, m)}
<1>1. n \in Nat /\ \A l \in 1..n : checks[l].time \in Int
  BY ChecksParts
<1>2. Pre(i) \subseteq Pre(j) /\ i \in Pre(j) /\ i \notin Pre(i)
  BY <1>1 DEF Before
<1>3. \A m \in 1..n : IsFiniteSet(Pre(m)) /\ Cardinality(Pre(m)) \in Nat
  <2> SUFFICES ASSUME NEW m \in 1..n PROVE IsFiniteSet(Pre(m)) /\ Cardinality(Pre(m)) \in Nat
    OBVIOUS
  <2>1. IsFiniteSet(1..n) /\ Pre(m) \in SUBSET (1..n)
    BY <1>1, FS_Interval
  <2> HIDE DEF Pre
  <2> QED
    BY <2>1, FS_Subset, FS_CardinalityType
<1>4. Cardinality(Pre(i)) <= Cardinality(Pre(j)) /\ Cardinality(Pre(i)) # Cardinality(Pre(j))
  <2> HIDE DEF Pre
  <2> QED
    BY <1>2, <1>3, FS_Subset
<1>5. Rank(checks, i) = Cardinality(Pre(i)) /\ Rank(checks, j) = Cardinality(Pre(j))
  BY DEF Rank
<1> HIDE DEF Pre
<1> QED
  BY <1>3, <1>4, <1>5

\* The ranks are 0 to Len(checks) - 1, each once.
LEMMA RankOnto ==
  ASSUME NEW checks \in Checks
  PROVE  /\ \A k \in 1..Len(checks) : \E i \in 1..Len(checks) : Rank(checks, i) = k - 1
         /\ \A i \in 1..Len(checks) : Rank(checks, i) \in 0..Len(checks) - 1
<1> DEFINE n == Len(checks)
           f == [i \in 1..n |-> Rank(checks, i) + 1]
<1>1. n \in Nat /\ \A i \in 1..n : checks[i].time \in Int
  BY ChecksParts
<1>2. \A i \in 1..n : Rank(checks, i) \in 0..n - 1
  <2> SUFFICES ASSUME NEW i \in 1..n PROVE Rank(checks, i) \in 0..n - 1
    OBVIOUS
  <2> DEFINE Pre == {l \in 1..n : Before(checks, l, i)}
  <2>1. i \notin Pre
    BY <1>1 DEF Before
  <2>2. Pre \in SUBSET ((1..n) \ {i})
    BY <2>1
  <2> HIDE DEF Pre
  <2>3. IsFiniteSet(1..n) /\ Cardinality(1..n) = n
    BY <1>1, FS_Interval
  <2> DEFINE Others == (1..n) \ {i}
  <2>6. IsFiniteSet(Others) /\ Cardinality(Others) = n - 1
    BY <2>3, FS_RemoveElement
  <2>7. Pre \in SUBSET Others
    BY <2>2
  <2> HIDE DEF Others
  <2>8. IsFiniteSet(Pre) /\ Cardinality(Pre) <= Cardinality(Others)
    BY <2>6, <2>7, FS_Subset
  <2>4. IsFiniteSet(Pre) /\ Cardinality(Pre) \in Nat /\ Cardinality(Pre) <= n - 1
    BY <2>6, <2>8, FS_CardinalityType
  <2>5. Rank(checks, i) = Cardinality(Pre)
    BY DEF Rank, Pre
  <2> QED
    BY <1>1, <2>4, <2>5
<1>3. \A i, j \in 1..n : f[i] = f[j] => i = j
  <2> SUFFICES ASSUME NEW i \in 1..n, NEW j \in 1..n, i # j PROVE f[i] # f[j]
    OBVIOUS
  <2>1. Before(checks, i, j) \/ Before(checks, j, i)
    BY <1>1 DEF Before
  <2>2. Rank(checks, i) # Rank(checks, j)
    BY <2>1, RankStrict
  <2> QED
    BY <1>2, <2>2
<1>4. f \in Surjection(1..n, 1..n)
  <2>1. f \in [1..n -> 1..n]
    BY <1>1, <1>2
  <2> HIDE DEF f
  <2>2. f \in Injection(1..n, 1..n)
    BY <1>3, <2>1 DEF Injection, IsInjective
  <2>3. IsFiniteSet(1..n)
    BY <1>1, FS_Interval
  <2> QED
    BY <2>2, <2>3, FS_Injection
<1>5. ASSUME NEW k \in 1..n PROVE \E i \in 1..n : Rank(checks, i) = k - 1
  <2>1. PICK i \in 1..n : f[i] = k
    <3> HIDE DEF f
    <3> QED
      BY <1>4, <1>5 DEF Surjection
  <2> QED
    BY <1>2, <2>1
<1> QED
  BY <1>2, <1>5

LEMMA Positions ==
  ASSUME NEW checks \in Checks
  PROVE  /\ \A k \in 1..Len(checks) : Position(checks, k) \in 1..Len(checks)
         /\ \A k, l \in 1..Len(checks) :
              k < l => Before(checks, Position(checks, k), Position(checks, l))
         /\ \A i \in 1..Len(checks) : \E k \in 1..Len(checks) : Position(checks, k) = i
<1> DEFINE n == Len(checks)
           pos(k) == Position(checks, k)
<1>1. n \in Nat /\ \A i \in 1..n : checks[i].time \in Int
  BY ChecksParts
<1>2. \A k \in 1..n : pos(k) \in 1..n /\ Rank(checks, pos(k)) = k - 1
  BY RankOnto DEF Position
<1>3. ASSUME NEW i \in 1..n, NEW j \in 1..n, Rank(checks, i) <= Rank(checks, j), i # j
      PROVE  Before(checks, i, j)
  <2>1. Before(checks, i, j) \/ Before(checks, j, i)
    BY <1>1, <1>3 DEF Before
  <2>2. ~Before(checks, j, i)
    BY <1>3, RankStrict
  <2> QED
    BY <2>1, <2>2
<1> HIDE DEF pos
<1>4. ASSUME NEW k \in 1..n, NEW l \in 1..n, k < l PROVE Before(checks, pos(k), pos(l))
  <2>1. pos(k) \in 1..n /\ pos(l) \in 1..n
    BY <1>2
  <2>2. Rank(checks, pos(k)) = k - 1 /\ Rank(checks, pos(l)) = l - 1
    BY <1>2
  <2>3. pos(k) # pos(l) /\ Rank(checks, pos(k)) <= Rank(checks, pos(l))
    BY <1>1, <1>4, <2>2
  <2> QED
    BY <1>3, <2>1, <2>3
<1>5. ASSUME NEW i \in 1..n PROVE \E k \in 1..n : pos(k) = i
  <2>1. Rank(checks, i) \in 0..n - 1
    BY RankOnto
  <2>2. Rank(checks, i) + 1 \in 1..n
    BY <1>1, <2>1
  <2>3. Rank(checks, pos(Rank(checks, i) + 1)) = Rank(checks, i)
    BY <1>2, <2>1, <2>2
  <2>4. PICK j \in 1..n : j = pos(Rank(checks, i) + 1)
    BY <1>2, <2>2
  <2>6. Rank(checks, j) = Rank(checks, i)
    BY <2>3, <2>4
  <2>7. ~Before(checks, i, j)
    BY <2>6, RankStrict
  <2>5. pos(Rank(checks, i) + 1) = i
    BY <1>3, <2>1, <2>4, <2>6, <2>7
  <2> QED
    BY <2>2, <2>5
<1> USE DEF pos
<1> QED
  BY <1>2, <1>4, <1>5

LEMMA RelativeLog ==
  ASSUME NEW checks \in Checks, NEW begin \in Int
  PROVE  /\ Relative(checks, begin) \in Checks
         /\ Len(Relative(checks, begin)) = Len(checks)
         /\ \A i \in 1..Len(checks) :
              /\ Relative(checks, begin)[i].type = checks[i].type
              /\ Relative(checks, begin)[i].time = checks[i].time - begin
         /\ \A i, j \in 1..Len(checks) :
              Before(Relative(checks, begin), i, j) <=> Before(checks, i, j)
<1> DEFINE n == Len(checks)
           rel == Relative(checks, begin)
<1>2. n \in Nat /\ \A i \in 1..n : checks[i].type \in Type /\ checks[i].time \in Int
  BY ChecksParts
<1>1. ASSUME NEW i \in 1..n
      PROVE  /\ rel[i] \in [type : Type, time : Int]
             /\ rel[i].type = checks[i].type /\ rel[i].time = checks[i].time - begin
  <2>1. checks[i] = [type |-> checks[i].type, time |-> checks[i].time]
    BY ChecksParts
  <2>2. rel[i] = [checks[i] EXCEPT !.time = @ - begin]
    BY DEF Relative
  <2>3. rel[i] = [type |-> checks[i].type, time |-> checks[i].time - begin]
    BY <2>1, <2>2
  <2>4. checks[i].type \in Type /\ checks[i].time - begin \in Int
    BY <1>2
  <2> HIDE DEF rel
  <2> QED
    BY <2>3, <2>4
<1>3. rel \in [1..n -> [type : Type, time : Int]]
  <2>1. rel = [i \in 1..n |-> rel[i]]
    BY DEF Relative
  <2> HIDE DEF rel
  <2> QED
    BY <1>1, <2>1
<1>4. rel \in Checks /\ Len(rel) = n
  <2> HIDE DEF rel
  <2>1. rel \in Seq([type : Type, time : Int])
    BY <1>2, <1>3, SeqDef
  <2>2. DOMAIN rel = 1..n
    BY <1>3
  <2>3. Len(rel) = n
    BY <1>2, <2>1, <2>2, LenProperties
  <2> QED
    BY <2>1, <2>3 DEF Checks
<1>6. ASSUME NEW i \in 1..n, NEW j \in 1..n PROVE Before(rel, i, j) <=> Before(checks, i, j)
  <2>1. /\ rel[i].time = checks[i].time - begin /\ checks[i].time \in Int
        /\ rel[j].time = checks[j].time - begin /\ checks[j].time \in Int
    BY <1>1, <1>2
  <2> HIDE DEF rel
  <2> QED
    BY <2>1 DEF Before
<1> HIDE DEF rel
<1>7. /\ rel \in Checks /\ Len(rel) = n
      /\ \A i \in 1..n : rel[i].type = checks[i].type /\ rel[i].time = checks[i].time - begin
      /\ \A i, j \in 1..n : Before(rel, i, j) <=> Before(checks, i, j)
  BY <1>1, <1>4, <1>6
<1> QED
  BY <1>7 DEF rel

LEMMA SortedLog ==
  ASSUME NEW checks \in Checks, NEW k \in 1..Len(checks)
  PROVE  /\ Sorted(checks)[k] = checks[Position(checks, k)]
         /\ Sorted(checks)[k].type \in Type /\ Sorted(checks)[k].time \in Int
         /\ \A l \in 1..k : Sorted(checks)[l].time <= Sorted(checks)[k].time
<1> DEFINE n == Len(checks)
<1>1. n \in Nat /\ \A i \in 1..n : checks[i].type \in Type /\ checks[i].time \in Int
  BY ChecksParts
<1>2. \A l \in 1..n : Sorted(checks)[l] = checks[Position(checks, l)]
  BY DEF Sorted, Position, Rank
<1>3. \A l \in 1..n : Position(checks, l) \in 1..n
  BY Positions
<1>4. ASSUME NEW l \in 1..k PROVE Sorted(checks)[l].time <= Sorted(checks)[k].time
  <2>1. CASE l = k
    BY <1>1, <1>2, <1>3, <2>1
  <2>2. CASE l # k
    <3>1. l \in 1..n /\ l < k
      BY <1>1, <2>2
    <3>2. Before(checks, Position(checks, l), Position(checks, k))
      BY <3>1, Positions
    <3> QED
      BY <1>1, <1>2, <1>3, <3>1, <3>2 DEF Before
  <2> QED
    BY <2>1, <2>2
<1> QED
  BY <1>1, <1>2, <1>3, <1>4

\* Whether somebody is inside is decided by the last check of the sorted log up
\* to then.
LEMMA InsideIsLast ==
  ASSUME NEW checks \in Checks, NEW t \in Int, NEW k \in 0..Len(checks),
         \A l \in 1..k : checks[Position(checks, l)].time <= t,
         \A l \in (k + 1)..Len(checks) : checks[Position(checks, l)].time > t
  PROVE  Inside(checks, t) <=> k > 0 /\ checks[Position(checks, k)].type = "checkin"
<1> DEFINE n == Len(checks)
           pos(l) == Position(checks, l)
<1>1. n \in Nat /\ \A i \in 1..n : checks[i].type \in Type /\ checks[i].time \in Int
  BY ChecksParts
<1>2. /\ \A l \in 1..n : pos(l) \in 1..n
      /\ \A l, m \in 1..n : l < m => Before(checks, pos(l), pos(m))
      /\ \A i \in 1..n : \E l \in 1..n : pos(l) = i
  BY Positions
<1>3. DOMAIN checks = 1..n
  BY ChecksParts
<1> HIDE DEF pos
<1>4. ASSUME NEW i \in 1..n, checks[i].time <= t
      PROVE  k > 0 /\ (i = pos(k) \/ Before(checks, i, pos(k)))
  <2>1. PICK l \in 1..n : pos(l) = i
    BY <1>2
  <2>2. l \in 1..k
    <3>1. l \notin (k + 1)..n
      BY <1>1, <1>4, <2>1 DEF pos
    <3> QED
      BY <1>1, <3>1
  <2>3. k \in 1..n /\ (l = k \/ l < k)
    BY <1>1, <2>2
  <2> QED
    BY <1>2, <2>1, <2>3
<1>5. ASSUME k > 0, checks[pos(k)].type = "checkin" PROVE Inside(checks, t)
  <2>1. pos(k) \in 1..n /\ checks[pos(k)].time <= t
    BY <1>1, <1>2, <1>5 DEF pos
  <2>2. ASSUME NEW j \in DOMAIN checks, checks[j].time <= t
        PROVE  checks[j].time < checks[pos(k)].time
                 \/ (checks[j].time = checks[pos(k)].time /\ j <= pos(k))
    <3>1. j = pos(k) \/ Before(checks, j, pos(k))
      BY <1>3, <1>4, <2>2
    <3> QED
      BY <1>1, <1>3, <2>1, <3>1 DEF Before
  <2> QED
    BY <1>3, <1>5, <2>1, <2>2 DEF Inside
<1>6. ASSUME Inside(checks, t) PROVE k > 0 /\ checks[pos(k)].type = "checkin"
  <2>1. PICK i \in 1..n :
          /\ checks[i].type = "checkin" /\ checks[i].time <= t
          /\ \A j \in 1..n : checks[j].time <= t =>
               checks[j].time < checks[i].time \/ (checks[j].time = checks[i].time /\ j <= i)
    BY <1>3, <1>6 DEF Inside
  <2>2. k > 0 /\ (i = pos(k) \/ Before(checks, i, pos(k)))
    BY <1>4, <2>1
  <2>3. pos(k) \in 1..n /\ checks[pos(k)].time <= t
    BY <1>1, <1>2, <2>2 DEF pos
  <2>4. ~Before(checks, i, pos(k))
    BY <1>1, <2>1, <2>3 DEF Before
  <2> QED
    BY <2>1, <2>2, <2>4
<1> USE DEF pos
<1> QED
  BY <1>5, <1>6

-----------------------------------------------------------------------------
(* The computation, check by check *)

Stay == [inside : BOOLEAN, since : Int, time : Int]

StayOf(inside) == [inside |-> inside, since |-> 0, time |-> 0]
Outside == StayOf(FALSE)

\* One round of the loop of calc_checkin_time.
After(stay, c, length) ==
  IF c.time < 0 THEN StayOf(c.type = "checkin")
  ELSE IF c.time <= length THEN Passes(stay, c) ELSE stay

LEMMA PassesParts ==
  ASSUME NEW stay \in Stay, NEW c, c.type \in Type, c.time \in Int
  PROVE  /\ Passes(stay, c) \in Stay
         /\ Passes(stay, c).inside = TRUE <=> c.type = "checkin"
         /\ Passes(stay, c).since =
              IF c.type = "checkin" /\ stay.inside = FALSE THEN c.time ELSE stay.since
         /\ Passes(stay, c).time =
              IF c.type = "checkout" /\ stay.inside = TRUE
                THEN stay.time + c.time - stay.since ELSE stay.time
<1>1. /\ stay = [inside |-> stay.inside, since |-> stay.since, time |-> stay.time]
      /\ stay.inside \in BOOLEAN /\ stay.since \in Int /\ stay.time \in Int
  BY DEF Stay
<1>2. CASE c.type = "checkin" /\ stay.inside = FALSE
  <2>1. Passes(stay, c) = [inside |-> TRUE, since |-> c.time, time |-> stay.time]
    BY <1>1, <1>2 DEF Passes
  <2>2. Passes(stay, c) \in Stay
    BY <1>1, <2>1 DEF Stay
  <2>3. /\ Passes(stay, c).inside = TRUE /\ Passes(stay, c).since = c.time
        /\ Passes(stay, c).time = stay.time
    BY <2>1
  <2> QED
    BY <1>2, <2>2, <2>3
<1>3. CASE c.type = "checkout" /\ stay.inside = TRUE
  <2>1. Passes(stay, c) =
          [inside |-> FALSE, since |-> stay.since, time |-> stay.time + c.time - stay.since]
    BY <1>1, <1>3 DEF Passes
  <2>2. stay.time + c.time - stay.since \in Int
    BY <1>1
  <2>3. Passes(stay, c) \in Stay
    BY <1>1, <2>1, <2>2 DEF Stay
  <2>4. /\ Passes(stay, c).inside = FALSE /\ Passes(stay, c).since = stay.since
        /\ Passes(stay, c).time = stay.time + c.time - stay.since
    BY <2>1
  <2> QED
    BY <1>3, <2>3, <2>4
<1>4. CASE \/ c.type = "checkin" /\ stay.inside = TRUE
           \/ c.type = "checkout" /\ stay.inside = FALSE
  <2>1. Passes(stay, c) = stay
    BY <1>4 DEF Passes
  <2> QED
    BY <1>4, <2>1
<1> QED
  BY <1>1, <1>2, <1>3, <1>4 DEF Type

LEMMA StaysEquation ==
  ASSUME NEW checks \in Checks, NEW begin \in Int, NEW end \in Int
  PROVE  /\ Stays(checks, begin, end) \in [0..Len(checks) -> Stay]
         /\ Stays(checks, begin, end)[0] = Outside
         /\ \A k \in 1..Len(checks) :
              Stays(checks, begin, end)[k] =
                After(Stays(checks, begin, end)[k - 1], Sorted(Relative(checks, begin))[k], end - begin)
<1> DEFINE n == Len(checks)
           sorted == Sorted(Relative(checks, begin))
           Round(k, stay) == After(stay, sorted[k], end - begin)
           F == [k \in 1..n |-> [stay \in Stay |-> Round(k, stay)]]
           Body(f) == [k \in 0..n |-> IF k = 0 THEN Outside ELSE Round(k, f[k - 1])]
<1>1. n \in Nat
  BY ChecksParts
<1>2. ASSUME NEW k \in 1..n PROVE sorted[k].type \in Type /\ sorted[k].time \in Int
  BY RelativeLog, SortedLog
<1>3. Outside \in Stay /\ \A inside \in BOOLEAN : StayOf(inside) \in Stay
  BY DEF Outside, StayOf, Stay
<1>4. ASSUME NEW k \in 1..n, NEW stay \in Stay PROVE Round(k, stay) \in Stay
  <2>1. Passes(stay, sorted[k]) \in Stay
    BY <1>2, PassesParts
  <2>2. StayOf(sorted[k].type = "checkin") \in Stay
    BY <1>3
  <2> HIDE DEF sorted
  <2> QED
    BY <2>1, <2>2 DEF After
<1>5. Stays(checks, begin, end) = CHOOSE f : f = Body(f)
  BY DEF Stays, After, StayOf, Outside
<1>6. F \in Steps(n, Stay)
  BY <1>4 DEF Steps
<1> HIDE DEF Round
<1>7. PICK f \in [0..n -> Stay] : f[0] = Outside /\ \A k \in 1..n : f[k] = F[k][f[k - 1]]
  <2>1. Outside \in Stay
    BY <1>3
  <2> HIDE DEF F, n
  <2>2. \E f \in [0..n -> Stay] : f[0] = Outside /\ \A k \in 1..n : f[k] = F[k][f[k - 1]]
    BY <1>1, <1>6, <2>1, Recursion
  <2> QED
    BY <2>2
<1>8. \A k \in 1..n : f[k] = Round(k, f[k - 1])
  <2> SUFFICES ASSUME NEW k \in 1..n PROVE f[k] = Round(k, f[k - 1])
    OBVIOUS
  <2>1. k - 1 \in 0..n
    BY <1>1
  <2> QED
    BY <1>7, <2>1
<1>9. f = Body(f)
  <2>1. ASSUME NEW k \in 0..n
        PROVE  f[k] = IF k = 0 THEN Outside ELSE Round(k, f[k - 1])
    <3>1. k = 0 \/ k \in 1..n
      BY <1>1
    <3> QED
      BY <1>7, <1>8, <3>1
  <2> QED
    BY <1>7, <2>1
<1> DEFINE stays == Stays(checks, begin, end)
<1>10. stays = Body(stays)
  <2> HIDE DEF Body
  <2> QED
    BY <1>5, <1>9
<1>11. \A k \in 0..n : stays[k] = IF k = 0 THEN Outside ELSE Round(k, stays[k - 1])
  <2> HIDE DEF stays
  <2> QED
    BY <1>10
<1> HIDE DEF stays
<1>12. stays[0] = Outside /\ \A k \in 1..n : stays[k] = Round(k, stays[k - 1])
  BY <1>1, <1>11
<1>13. \A k \in 0..n : stays[k] \in Stay
  <2> DEFINE P == {k \in 0..n : stays[k] \in Stay}
  <2>1. 0 \in P
    BY <1>1, <1>3, <1>12
  <2>2. \A k \in 1..n : k - 1 \in P => k \in P
    BY <1>1, <1>4, <1>12
  <2>3. 0..n \subseteq P
    <3> HIDE DEF P
    <3> QED
      BY <1>1, <2>1, <2>2, AllUpTo
  <2> QED
    BY <2>3
<1>14. stays \in [0..n -> Stay]
  <2>1. stays = [k \in 0..n |-> stays[k]]
    BY <1>10
  <2> QED
    BY <1>13, <2>1
<1> QED
  BY <1>12, <1>14 DEF stays, Round

LEMMA SortedRelative ==
  ASSUME NEW checks \in Checks, NEW begin \in Int, NEW k \in 1..Len(checks)
  PROVE  LET c == Sorted(Relative(checks, begin))[k]
         IN  /\ c.type = checks[Position(checks, k)].type
             /\ c.time = checks[Position(checks, k)].time - begin
<1> DEFINE n == Len(checks)
           rel == Relative(checks, begin)
<1>1. /\ rel \in Checks /\ Len(rel) = n
      /\ \A i \in 1..n : rel[i].type = checks[i].type /\ rel[i].time = checks[i].time - begin
      /\ \A i, j \in 1..n : Before(rel, i, j) <=> Before(checks, i, j)
  BY RelativeLog
<1> HIDE DEF rel
<1>2. \A i \in 1..n : Rank(rel, i) = Rank(checks, i)
  <2> SUFFICES ASSUME NEW i \in 1..n PROVE Rank(rel, i) = Rank(checks, i)
    OBVIOUS
  <2>1. {j \in 1..n : Before(rel, j, i)} = {j \in 1..n : Before(checks, j, i)}
    BY <1>1
  <2> QED
    BY <1>1, <2>1 DEF Rank
<1>3. Position(rel, k) = Position(checks, k)
  BY <1>1, <1>2 DEF Position
<1>4. Sorted(rel)[k] = rel[Position(checks, k)]
  BY <1>1, <1>3, SortedLog
<1>5. Position(checks, k) \in 1..n
  BY Positions
<1> QED
  BY <1>1, <1>4, <1>5 DEF rel

\* The moments of the first x after begin at which the person is inside.
Moments(checks, begin, x) == {t \in begin..begin + x - 1 : Inside(checks, t)}

LEMMA MomentsNext ==
  ASSUME NEW checks, NEW begin \in Int, NEW x \in Nat, NEW y \in Nat, x <= y,
         NEW b \in BOOLEAN, \A t \in begin + x..begin + y - 1 : Inside(checks, t) <=> b = TRUE
  PROVE  Cardinality(Moments(checks, begin, y)) =
           Cardinality(Moments(checks, begin, x)) + (IF b = TRUE THEN y - x ELSE 0)
<1> DEFINE M(z) == Moments(checks, begin, z)
           New == begin + x..begin + y - 1
<1>1. \A z \in Nat : IsFiniteSet(M(z)) /\ Cardinality(M(z)) \in Nat
  <2> SUFFICES ASSUME NEW z \in Nat PROVE IsFiniteSet(M(z)) /\ Cardinality(M(z)) \in Nat
    OBVIOUS
  <2>1. IsFiniteSet(begin..begin + z - 1)
    BY FS_Interval
  <2>2. M(z) \in SUBSET (begin..begin + z - 1)
    BY DEF Moments
  <2> HIDE DEF M
  <2> QED
    BY <2>1, <2>2, FS_Subset, FS_CardinalityType
<1>2. CASE b = TRUE
  <2>1. M(y) = M(x) \cup New /\ M(x) \cap New = {}
    BY <1>2 DEF Moments
  <2>2. IsFiniteSet(New) /\ Cardinality(New) = y - x
    <3>1. begin + x \in Int /\ begin + y - 1 \in Int
      OBVIOUS
    <3>2. /\ IsFiniteSet(New)
          /\ Cardinality(New) = IF begin + x > begin + y - 1 THEN 0
                                ELSE begin + y - 1 - (begin + x) + 1
      BY <3>1, FS_Interval
    <3> QED
      BY <3>2
  <2> HIDE DEF M, New
  <2>3. Cardinality(M(y)) = Cardinality(M(x)) + Cardinality(New) - Cardinality({})
    BY <1>1, <2>1, <2>2, FS_Union
  <2>4. Cardinality({}) = 0
    BY FS_EmptySet
  <2> QED
    BY <1>1, <1>2, <2>2, <2>3, <2>4 DEF M
<1>3. CASE b = FALSE
  <2>1. M(y) = M(x)
    BY <1>3 DEF Moments
  <2> QED
    BY <1>1, <1>3, <2>1
<1> QED
  BY <1>2, <1>3

\* What calc_checkin_time computes is the number of moments at which the person
\* was inside, and whether they are at the end: for every log.
LEMMA CalcIsMeasured ==
  ASSUME NEW checks \in Checks, NEW begin \in Int, NEW end \in Int, begin <= end
  PROVE  calc_checkin_time(checks, begin, end) =
           [time |-> Cardinality({t \in begin..end - 1 : Inside(checks, t)}),
            present_at_end |-> Inside(checks, end)]
<1> DEFINE n == Len(checks)
           s == Sorted(Relative(checks, begin))
           stay == Stays(checks, begin, end)
           length == end - begin
           Count(x) == Cardinality(Moments(checks, begin, x))
           last(k) == k > 0 /\ s[k].type = "checkin"
           T(k) == IF k = 0 \/ s[k].time < 0 THEN 0 ELSE s[k].time
           Covers(k) == \A l \in (k + 1)..n : s[l].time > length
           Sum(k) == stay[k].time + (IF stay[k].inside = TRUE THEN T(k) - stay[k].since ELSE 0)
           Right(k) == (stay[k].inside = TRUE <=> last(k)) /\ Sum(k) = Count(T(k))
<1>1. n \in Nat /\ length \in Nat
  BY ChecksParts
<1>2. \A k \in 1..n : /\ s[k].type \in Type /\ s[k].time \in Int
                      /\ \A l \in 1..k : s[l].time <= s[k].time
  <2>1. Relative(checks, begin) \in Checks /\ Len(Relative(checks, begin)) = n
    BY RelativeLog
  <2> QED
    BY <2>1, SortedLog
<1>3. /\ stay \in [0..n -> Stay] /\ stay[0] = Outside
      /\ \A k \in 1..n : stay[k] = After(stay[k - 1], s[k], length)
  BY StaysEquation
<1>4. ASSUME NEW k \in 0..n, NEW t \in Int,
             \A l \in 1..k : s[l].time <= t - begin,
             \A l \in (k + 1)..n : s[l].time > t - begin
      PROVE  Inside(checks, t) <=> last(k)
  <2>1. \A l \in 1..n : /\ s[l].type = checks[Position(checks, l)].type
                        /\ s[l].time = checks[Position(checks, l)].time - begin
                        /\ checks[Position(checks, l)].time \in Int
    BY SortedRelative, Positions, ChecksParts
  <2> HIDE DEF s
  <2>2. \A l \in 1..k : checks[Position(checks, l)].time <= t
    BY <1>1, <1>4, <2>1
  <2>3. \A l \in (k + 1)..n : checks[Position(checks, l)].time > t
    BY <1>1, <1>4, <2>1
  <2>4. Inside(checks, t) <=> k > 0 /\ checks[Position(checks, k)].type = "checkin"
    BY <2>2, <2>3, InsideIsLast
  <2>5. k > 0 => k \in 1..n
    BY <1>1
  <2> QED
    BY <2>1, <2>4, <2>5
<1> HIDE DEF s, stay, length
<1>5. PICK q \in 0..n : Covers(q) /\ \A k \in 0..n : Covers(k) => q <= k
  <2> DEFINE B == {k \in 0..n : Covers(k)}
  <2>1. n \in B /\ B \in SUBSET Nat
    BY <1>1
  <2>2. PICK q \in B : \A c \in B : q <= c
    <3> HIDE DEF B
    <3> QED
      BY <2>1, LeastElement
  <2> QED
    BY <2>2
<1>6. \A k \in 1..q : s[k].time <= length
  <2> SUFFICES ASSUME NEW k \in 1..q, ~(s[k].time <= length) PROVE FALSE
    OBVIOUS
  <2>1. k \in 1..n /\ s[k].time > length
    BY <1>1, <1>2
  <2>2. ASSUME NEW l \in k..n PROVE s[l].time > length
    <3>1. l \in 1..n /\ s[k].time <= s[l].time /\ s[l].time \in Int /\ s[k].time \in Int
      BY <1>1, <1>2
    <3> QED
      BY <1>1, <2>1, <3>1
  <2>3. k - 1 \in 0..n /\ Covers(k - 1) /\ ~(q <= k - 1)
    BY <1>1, <2>2
  <2> QED
    BY <1>5, <2>3
<1>7. \A k \in 0..q : T(k) \in Nat /\ T(k) <= length
  <2> SUFFICES ASSUME NEW k \in 0..q PROVE T(k) \in Nat /\ T(k) <= length
    OBVIOUS
  <2>1. k = 0 \/ (k \in 1..q /\ k \in 1..n)
    BY <1>1
  <2> QED
    BY <1>1, <1>2, <1>6, <2>1
<1>8. Right(0)
  <2>1. Moments(checks, begin, 0) = {}
    BY DEF Moments
  <2>2. Count(0) = 0
    BY <2>1, FS_EmptySet
  <2>3. stay[0].inside = FALSE /\ stay[0].time = 0
    BY <1>3 DEF Outside, StayOf
  <2>4. ~last(0) /\ T(0) = 0
    OBVIOUS
  <2>5. Sum(0) = 0
    BY <2>3
  <2> HIDE DEF Count, last, T, Sum
  <2> QED
    BY <2>2, <2>3, <2>4, <2>5
<1>9. ASSUME NEW k \in 1..q, Right(k - 1) PROVE Right(k)
  <2>1. /\ k \in 1..n /\ k - 1 \in 0..n /\ k - 1 \in 0..q
        /\ s[k].type \in Type /\ s[k].time \in Int /\ s[k].time <= length
    BY <1>1, <1>2, <1>6
  <2>2. stay[k] = After(stay[k - 1], s[k], length) /\ stay[k - 1] \in Stay
    BY <1>3, <2>1
  <2>3. CASE s[k].time < 0
    <3>1. stay[k] = [inside |-> s[k].type = "checkin", since |-> 0, time |-> 0]
      BY <2>2, <2>3 DEF After, StayOf
    <3>2. stay[k].since = 0 /\ stay[k].time = 0
      BY <3>1
    <3>3. stay[k].inside = (s[k].type = "checkin")
      BY <3>1
    <3>4. stay[k].inside = TRUE <=> s[k].type = "checkin"
      BY <3>3, Zenon
    <3>5. T(k) = 0
      BY <2>3
    <3>7. last(k) <=> s[k].type = "checkin"
      BY <2>1
    <3>8. Sum(k) = 0
      BY <3>2, <3>5
    <3>6. Count(0) = 0
      <4>1. Moments(checks, begin, 0) = {}
        BY DEF Moments
      <4> QED
        BY <4>1, FS_EmptySet
    <3> HIDE DEF Count, last, T, Sum
    <3> QED
      BY <3>4, <3>5, <3>6, <3>7, <3>8
  <2>4. CASE ~(s[k].time < 0)
    <3>1. stay[k] = Passes(stay[k - 1], s[k])
      BY <2>1, <2>2, <2>4 DEF After
    <3>2. T(k) = s[k].time /\ T(k) \in Nat /\ T(k - 1) \in Nat
      BY <1>1, <1>7, <2>1, <2>4
    <3>3. T(k - 1) <= T(k)
      <4>1. CASE k = 1
        BY <3>2, <4>1
      <4>2. CASE k # 1
        <5>1. k - 1 \in 1..k /\ k - 1 \in 1..n
          BY <1>1, <2>1, <4>2
        <5>2. s[k - 1].time <= s[k].time
          BY <1>2, <2>1, <5>1
        <5> QED
          BY <3>2, <5>2
      <4> QED
        BY <4>1, <4>2
    <3>4. ASSUME NEW t \in begin + T(k - 1)..begin + T(k) - 1
          PROVE  Inside(checks, t) <=> last(k - 1)
      <4>1. t \in Int /\ T(k - 1) <= t - begin /\ t - begin < s[k].time
        BY <3>2
      <4>2. ASSUME NEW l \in 1..(k - 1) PROVE s[l].time <= t - begin
        <5>1. l \in 1..n /\ k - 1 \in 1..n
          BY <1>1, <2>1
        <5>2. s[l].time <= s[k - 1].time /\ s[l].time \in Int /\ s[k - 1].time \in Int
          BY <1>2, <5>1
        <5>3. s[k - 1].time <= T(k - 1)
          BY <5>1, <5>2
        <5> HIDE DEF T
        <5> QED
          BY <3>2, <4>1, <5>2, <5>3
      <4>3. ASSUME NEW l \in ((k - 1) + 1)..n PROVE s[l].time > t - begin
        <5>1. l \in 1..n /\ k \in 1..l
          BY <1>1, <2>1
        <5>2. s[k].time <= s[l].time /\ s[l].time \in Int
          BY <1>2, <5>1
        <5> QED
          BY <2>1, <4>1, <5>2
      <4> HIDE DEF last
      <4> QED
        BY <1>4, <2>1, <4>1, <4>2, <4>3
    <3>5. stay[k - 1].inside \in BOOLEAN
      BY <2>2 DEF Stay
    <3>6. (stay[k - 1].inside = TRUE <=> last(k - 1)) /\ Sum(k - 1) = Count(T(k - 1))
      BY <1>9
    <3>7. last(k) <=> s[k].type = "checkin"
      BY <2>1
    <3>8. Count(T(k)) = Count(T(k - 1)) + (IF stay[k - 1].inside = TRUE THEN T(k) - T(k - 1) ELSE 0)
      <4> HIDE DEF last, T, Sum
      <4> QED
        BY <3>2, <3>3, <3>4, <3>5, <3>6, MomentsNext
    <3>9. /\ stay[k].inside = TRUE <=> s[k].type = "checkin"
          /\ stay[k].since = IF s[k].type = "checkin" /\ stay[k - 1].inside = FALSE
                               THEN s[k].time ELSE stay[k - 1].since
          /\ stay[k].time = IF s[k].type = "checkout" /\ stay[k - 1].inside = TRUE
                              THEN stay[k - 1].time + s[k].time - stay[k - 1].since
                              ELSE stay[k - 1].time
      <4> DEFINE c == s[k]
                 old == stay[k - 1]
      <4>1. old \in Stay /\ c.type \in Type /\ c.time \in Int
        BY <2>1, <2>2
      <4> HIDE DEF c, old
      <4>2. /\ Passes(old, c).inside = TRUE <=> c.type = "checkin"
            /\ Passes(old, c).since =
                 IF c.type = "checkin" /\ old.inside = FALSE THEN c.time ELSE old.since
            /\ Passes(old, c).time =
                 IF c.type = "checkout" /\ old.inside = TRUE
                   THEN old.time + c.time - old.since ELSE old.time
        BY <4>1, PassesParts
      <4>3. stay[k] = Passes(old, c)
        BY <3>1 DEF c, old
      <4> QED
        BY <4>2, <4>3 DEF c, old
    <3>10. /\ stay[k - 1].inside \in BOOLEAN
           /\ stay[k - 1].time \in Int /\ stay[k - 1].since \in Int
      BY <2>2 DEF Stay
    <3>11. s[k].type = "checkin" \/ s[k].type = "checkout"
      BY <2>1 DEF Type
    <3> HIDE DEF Count, last, T
    <3>12. Sum(k) = Sum(k - 1) + (IF stay[k - 1].inside = TRUE THEN T(k) - T(k - 1) ELSE 0)
      <4>1. CASE stay[k - 1].inside = TRUE
        BY <3>2, <3>9, <3>10, <3>11, <4>1
      <4>2. CASE stay[k - 1].inside = FALSE
        BY <3>2, <3>9, <3>10, <3>11, <4>2
      <4> QED
        BY <3>10, <4>1, <4>2
    <3>13. Sum(k) = Count(T(k))
      <4> HIDE DEF Sum
      <4> QED
        BY <3>6, <3>8, <3>12
    <3>14. stay[k].inside = TRUE <=> last(k)
      BY <3>7, <3>9
    <3> HIDE DEF Sum
    <3> QED
      BY <3>13, <3>14
  <2> QED
    BY <2>3, <2>4
<1>10. Right(q)
  <2> HIDE DEF Right
  <2> DEFINE P == {k \in 0..q : Right(k)}
  <2>1. 0 \in P
    BY <1>8
  <2>2. \A k \in 1..q : k - 1 \in P => k \in P
    BY <1>9
  <2>3. q \in 0..q /\ q \in Nat
    OBVIOUS
  <2>4. 0..q \subseteq P
    <3> HIDE DEF P
    <3> QED
      BY <2>1, <2>2, <2>3, AllUpTo
  <2> QED
    BY <2>3, <2>4
<1>11. stay[n] = stay[q]
  <2> DEFINE P == {k \in 0..n : k <= q \/ stay[k] = stay[q]}
  <2>1. 0 \in P
    BY <1>1
  <2>2. ASSUME NEW k \in 1..n, k - 1 \in P PROVE k \in P
    <3>1. CASE k <= q
      BY <3>1
    <3>2. CASE ~(k <= q)
      <4>1. k \in (q + 1)..n /\ s[k].time > length /\ s[k].time \in Int
        BY <1>2, <1>5, <3>2
      <4>2. stay[k] = stay[k - 1]
        BY <1>1, <1>3, <4>1 DEF After
      <4>3. stay[k - 1] = stay[q]
        BY <2>2, <3>2
      <4> QED
        BY <4>2, <4>3
    <3> QED
      BY <3>1, <3>2
  <2>3. 0..n \subseteq P
    <3> HIDE DEF P
    <3> QED
      BY <1>1, <2>1, <2>2, AllUpTo
  <2>4. n \in P
    BY <1>1, <2>3
  <2> QED
    BY <1>1, <2>4
<1>12. ASSUME NEW t \in begin + T(q)..end PROVE Inside(checks, t) <=> last(q)
  <2>1. t \in Int /\ T(q) <= t - begin /\ t - begin <= length /\ q \in 0..q
    BY <1>7 DEF length
  <2>2. ASSUME NEW l \in 1..q PROVE s[l].time <= t - begin
    <3>1. l \in 1..n /\ q \in 1..n
      BY <1>1
    <3>2. s[l].time <= s[q].time /\ s[l].time \in Int /\ s[q].time \in Int
      BY <1>2, <3>1
    <3>3. s[q].time <= T(q) /\ T(q) \in Nat
      BY <1>7, <3>1, <3>2
    <3> HIDE DEF T
    <3> QED
      BY <2>1, <3>2, <3>3
  <2>3. ASSUME NEW l \in (q + 1)..n PROVE s[l].time > t - begin
    <3>1. s[l].time > length /\ s[l].time \in Int
      BY <1>1, <1>2, <1>5
    <3> QED
      BY <1>1, <2>1, <3>1
  <2> HIDE DEF last
  <2> QED
    BY <1>4, <2>1, <2>2, <2>3
<1>15. /\ stay[q].inside = TRUE <=> last(q)
       /\ stay[q].inside \in BOOLEAN /\ stay[q].time \in Int /\ stay[q].since \in Int
  <2>1. stay[q] \in Stay
    BY <1>3
  <2> QED
    BY <1>10, <2>1 DEF Stay
<1>13. Count(length) = Count(T(q)) + (IF stay[q].inside = TRUE THEN length - T(q) ELSE 0)
  <2>1. T(q) \in Nat /\ T(q) <= length
    BY <1>7
  <2>3. ASSUME NEW t \in begin + T(q)..begin + length - 1
        PROVE  Inside(checks, t) <=> stay[q].inside = TRUE
    <3>1. begin + length - 1 = end - 1
      BY DEF length
    <3> HIDE DEF last, T
    <3>2. t \in begin + T(q)..end
      BY <2>1, <3>1
    <3> QED
      BY <1>12, <1>15, <3>2
  <2> HIDE DEF last, T
  <2>4. stay[q].inside \in BOOLEAN /\ length \in Nat
    BY <1>1, <1>15
  <2> QED
    BY <2>1, <2>3, <2>4, MomentsNext
<1>14. Inside(checks, end) <=> last(q)
  <2>1. T(q) \in Nat /\ T(q) <= length
    BY <1>7
  <2>2. end \in begin + T(q)..end
    <3> HIDE DEF T
    <3> QED
      BY <2>1 DEF length
  <2> HIDE DEF last, T
  <2> QED
    BY <1>12, <2>2
<1>16. stay[q].time + (IF stay[q].inside = TRUE THEN length - stay[q].since ELSE 0) = Count(length)
  <2>1. stay[q].time + (IF stay[q].inside = TRUE THEN T(q) - stay[q].since ELSE 0) = Count(T(q))
    BY <1>10
  <2>2. T(q) \in Nat
    BY <1>7
  <2>3. length \in Nat /\ stay[q].inside \in BOOLEAN /\ stay[q].time \in Int /\ stay[q].since \in Int
    BY <1>1, <1>15
  <2> HIDE DEF Count, last, T
  <2> QED
    BY <1>13, <2>1, <2>2, <2>3
<1>17. Moments(checks, begin, length) = {t \in begin..end - 1 : Inside(checks, t)}
  BY DEF Moments, length
<1>18. (stay[q].inside = TRUE) <=> Inside(checks, end)
  BY <1>14, <1>15
<1>19. Inside(checks, end) \in BOOLEAN
  BY DEF Inside
<1>20. stay[q].inside = Inside(checks, end)
  <2>1. ASSUME NEW a \in BOOLEAN, NEW b \in BOOLEAN, a = TRUE <=> b PROVE a = b
    <3>1. CASE b
      <4>1. b = TRUE /\ a = TRUE
        BY <2>1, <3>1
      <4> QED
        BY <4>1
    <3>2. CASE ~b
      <4>1. b = FALSE /\ a = FALSE
        BY <2>1, <3>2
      <4> QED
        BY <4>1
    <3> QED
      BY <3>1, <3>2
  <2>2. stay[q].inside \in BOOLEAN
    BY <1>15
  <2> QED
    BY <1>18, <1>19, <2>1, <2>2, Zenon
<1>21. calc_checkin_time(checks, begin, end) =
         [time |-> stay[q].time + (IF stay[q].inside THEN length - stay[q].since ELSE 0),
          present_at_end |-> stay[q].inside]
  <2>1. stay[Len(checks)] = stay[q]
    BY <1>11
  <2>2. calc_checkin_time(checks, begin, end) =
          [time |-> stay[Len(checks)].time
                      + (IF stay[Len(checks)].inside THEN end - begin - stay[Len(checks)].since ELSE 0),
           present_at_end |-> stay[Len(checks)].inside]
    BY DEF calc_checkin_time, stay
  <2> QED
    BY <2>1, <2>2 DEF length
<1>22. stay[q].time + (IF stay[q].inside THEN length - stay[q].since ELSE 0)
         = Cardinality({t \in begin..end - 1 : Inside(checks, t)})
  <2>1. CASE stay[q].inside = TRUE
    BY <1>16, <1>17, <2>1
  <2>2. CASE stay[q].inside = FALSE
    BY <1>16, <1>17, <2>2
  <2> QED
    BY <1>15, <2>1, <2>2
<1> QED
  BY <1>20, <1>21, <1>22

-----------------------------------------------------------------------------
(* The pages at the gate *)

Card == [qrid : Visitor \cup {Stranger},
         shows : {"nothing", "inside", "outside", "notfound", "removed"}]
Clicks == [card : 1..MaxCards, type : Type, state : {"sent", "done", "heard"}]

PresenceInv == PresenceTypeOK /\ Len(cards) <= MaxCards

LEMMA PresenceInitInv == PresenceInit => PresenceInv
<1> SUFFICES ASSUME PresenceInit PROVE PresenceInv
  OBVIOUS
<1>1. MaxTime \in Nat /\ MaxCards \in Nat
  BY PresenceAssumption
<1>2. appear \in [Visitor -> Seq(Check)]
  BY EmptySeq DEF PresenceInit
<1>3. cards \in Seq(Card) /\ Len(cards) = 0 /\ clicked \in Seq(Clicks)
  BY EmptySeq DEF PresenceInit
<1>4. clock \in 0..MaxTime
  BY <1>1 DEF PresenceInit
<1> QED
  BY <1>1, <1>2, <1>3, <1>4 DEF PresenceInv, PresenceTypeOK, Card, Clicks

LEMMA PresenceStep == PresenceInv /\ [PresenceNext]_presenceVars => PresenceInv'
<1> SUFFICES ASSUME PresenceInv, [PresenceNext]_presenceVars PROVE PresenceInv'
  OBVIOUS
<1>1. MaxTime \in Nat /\ MaxCards \in Nat
  BY PresenceAssumption
<1>2. /\ clock \in 0..MaxTime /\ appear \in [Visitor -> Seq(Check)]
      /\ cards \in Seq(Card) /\ clicked \in Seq(Clicks) /\ Len(cards) <= MaxCards
  BY DEF PresenceInv, PresenceTypeOK, Card, Clicks
<1>3. /\ Len(cards) \in Nat /\ DOMAIN cards = 1..Len(cards)
      /\ DOMAIN clicked = 1..Len(clicked)
  BY <1>2, LenProperties
<1> DEFINE Typed(l, a, c, k) ==
      /\ l \in 0..MaxTime /\ a \in [Visitor -> Seq(Check)]
      /\ c \in Seq(Card) /\ k \in Seq(Clicks) /\ Len(c) <= MaxCards
<1>4. SUFFICES Typed(clock', appear', cards', clicked')
  BY DEF PresenceInv, PresenceTypeOK, Card, Clicks
<1>5. ASSUME NEW n \in 1..Len(cards),
             NEW x \in {"nothing", "inside", "outside", "notfound", "removed"}
      PROVE  /\ [cards EXCEPT ![n].shows = x] \in Seq(Card)
             /\ Len([cards EXCEPT ![n].shows = x]) = Len(cards)
  <2> DEFINE e == [cards[n] EXCEPT !.shows = x]
  <2>1. cards[n] \in Card
    BY <1>2, ElementOfSeq
  <2>2. e \in Card
    BY <2>1 DEF Card
  <2>3. [cards EXCEPT ![n].shows = x] = [cards EXCEPT ![n] = e]
    OBVIOUS
  <2>4. [cards EXCEPT ![n] = e] \in Seq(Card) /\ Len([cards EXCEPT ![n] = e]) = Len(cards)
    <3> HIDE DEF e
    <3>1. cards \in Seq(Card) /\ e \in Card
      BY <1>2, <2>2
    <3> QED
      BY <3>1, ExceptSeq
  <2> QED
    BY <2>3, <2>4
<1>6. ASSUME NEW k \in 1..Len(clicked), NEW x \in {"sent", "done", "heard"}
      PROVE  [clicked EXCEPT ![k].state = x] \in Seq(Clicks)
  <2> DEFINE e == [clicked[k] EXCEPT !.state = x]
  <2>1. clicked[k] \in Clicks
    BY <1>2, ElementOfSeq
  <2>2. e \in Clicks
    BY <2>1 DEF Clicks
  <2>3. [clicked EXCEPT ![k].state = x] = [clicked EXCEPT ![k] = e]
    OBVIOUS
  <2> HIDE DEF e
  <2> QED
    BY <1>2, <2>2, <2>3, ExceptSeq
<1>7. ASSUME NEW qrid \in Visitor \cup {Stranger}, addActionCard(qrid)
      PROVE  Typed(clock', appear', cards', clicked')
  <2> DEFINE e == [qrid |-> qrid, shows |-> "nothing"]
  <2>1. e \in Card
    BY DEF Card
  <2>2. Len(cards) < MaxCards /\ cards' = Append(cards, e)
    BY <1>7 DEF addActionCard
  <2>3. cards' \in Seq(Card) /\ Len(cards') = Len(cards) + 1
    <3> HIDE DEF e
    <3> QED
      BY <1>2, <2>1, <2>2, AppendProperties
  <2> QED
    BY <1>1, <1>2, <1>3, <1>7, <2>2, <2>3 DEF addActionCard
<1>8. ASSUME NEW n \in DOMAIN cards, ShowCard(n)
      PROVE  Typed(clock', appear', cards', clicked')
  <2>1. PICK x \in {"notfound", "inside", "outside"} : cards' = [cards EXCEPT ![n].shows = x]
    BY <1>8 DEF ShowCard
  <2>2. cards' \in Seq(Card) /\ Len(cards') = Len(cards)
    <3>1. n \in 1..Len(cards) /\ x \in {"nothing", "inside", "outside", "notfound", "removed"}
      BY <1>3
    <3> QED
      BY <1>5, <2>1, <3>1
  <2> QED
    BY <1>2, <1>8, <2>2 DEF ShowCard
<1>9. ASSUME NEW n \in DOMAIN cards, Close(n)
      PROVE  Typed(clock', appear', cards', clicked')
  BY <1>2, <1>3, <1>5, <1>9 DEF Close
<1>10. ASSUME NEW n \in DOMAIN cards, NEW type \in Type, Click(n, type)
       PROVE  Typed(clock', appear', cards', clicked')
  <2> DEFINE e == [card |-> n, type |-> type, state |-> "sent"]
  <2>1. n \in 1..MaxCards
    BY <1>1, <1>2, <1>3
  <2>2. e \in Clicks
    BY <2>1 DEF Clicks
  <2>3. clicked' = Append(clicked, e)
    BY <1>10 DEF Click
  <2>4. clicked' \in Seq(Clicks)
    <3> HIDE DEF e
    <3> QED
      BY <1>2, <2>2, <2>3, AppendProperties
  <2> QED
    BY <1>2, <1>10, <2>4 DEF Click
<1>11. ASSUME NEW k \in DOMAIN clicked, Logged(k)
       PROVE  Typed(clock', appear', cards', clicked')
  <2> DEFINE e == [type |-> clicked[k].type, time |-> clock]
             qrid == cards[clicked[k].card].qrid
  <2>1. clicked[k] \in Clicks
    BY <1>2, <1>3, ElementOfSeq
  <2>2. e \in Check
    BY <1>2, <2>1 DEF Clicks, Check
  <2>3. appear' = IF qrid = Stranger THEN appear
                  ELSE [appear EXCEPT ![qrid] = Append(@, e)]
    BY <1>11 DEF Logged
  <2>4. appear' \in [Visitor -> Seq(Check)]
    <3>1. \A v \in Visitor : Append(appear[v], e) \in Seq(Check)
      <4> HIDE DEF e
      <4> QED
        BY <1>2, <2>2, AppendProperties
    <3> HIDE DEF e, qrid
    <3> QED
      BY <1>2, <2>3, <3>1
  <2>5. clicked' \in Seq(Clicks)
    BY <1>3, <1>6, <1>11 DEF Logged
  <2> QED
    BY <1>2, <1>11, <2>4, <2>5 DEF Logged
<1>12. ASSUME NEW k \in DOMAIN clicked, CheckAnswer(k)
       PROVE  Typed(clock', appear', cards', clicked')
  <2> DEFINE n == clicked[k].card
  <2>1. clicked' \in Seq(Clicks)
    BY <1>3, <1>6, <1>12 DEF CheckAnswer
  <2>2. cards' = cards \/ cards' = [cards EXCEPT ![n].shows = "removed"]
    BY <1>12 DEF CheckAnswer
  <2>3. cards' \in Seq(Card) /\ Len(cards') <= MaxCards
    <3>1. CASE n \in DOMAIN cards
      <4>1. n \in 1..Len(cards)
        BY <1>3, <3>1
      <4> DEFINE closed == [cards EXCEPT ![n].shows = "removed"]
      <4>2. closed \in Seq(Card) /\ Len(closed) = Len(cards)
        <5> HIDE DEF n
        <5> QED
          BY <1>5, <4>1
      <4>3. cards' = cards \/ cards' = closed
        BY <2>2
      <4> HIDE DEF closed
      <4> QED
        BY <1>2, <4>2, <4>3
    <3>2. CASE n \notin DOMAIN cards
      <4>1. cards' = cards
        BY <1>2, <1>3, <2>2, <3>2
      <4> QED
        BY <1>2, <4>1
    <3> QED
      BY <3>1, <3>2
  <2> QED
    BY <1>2, <1>12, <2>1, <2>3 DEF CheckAnswer
<1>13. ASSUME NEW t \in 0..MaxTime, Tick(t)
       PROVE  Typed(clock', appear', cards', clicked')
  BY <1>2, <1>13 DEF Tick
<1>14. CASE UNCHANGED presenceVars
  BY <1>2, <1>14 DEF presenceVars
<1> HIDE DEF Typed
<1> QED
  BY <1>7, <1>8, <1>9, <1>10, <1>11, <1>12, <1>13, <1>14 DEF PresenceNext

LEMMA PresenceAlways == PresenceSpec => []PresenceInv
<1>1. PresenceInit => PresenceInv
  BY PresenceInitInv
<1>2. PresenceInv /\ [PresenceNext]_presenceVars => PresenceInv'
  BY PresenceStep
<1> QED
  BY <1>1, <1>2, PTL DEF PresenceSpec

\* The log of the server, the cards of the page and what was clicked are as
\* PresenceTypeOK says, also when an answer comes after its card was closed.
THEOREM PresenceTypeCorrect == PresenceSpec => []PresenceTypeOK
<1>1. PresenceInv => PresenceTypeOK
  BY DEF PresenceInv
<1> QED
  BY <1>1, PresenceAlways, PTL

\* calc_checkin_time (client/common/checkintime.js): for every log that gates can
\* write, in whichever order of times, and for every period, the computed presence
\* is the number of moments at which the person was inside, and whether they are at
\* the end.
THEOREM PresenceAlwaysMeasured == PresenceSpec => []PresenceIsMeasured
<1>1. PresenceInv => PresenceIsMeasured
  <2> SUFFICES ASSUME PresenceInv, NEW v \in Visitor, NEW begin \in 0..MaxTime,
                      NEW end \in begin..MaxTime
               PROVE  calc_checkin_time(appear[v], begin, end) =
                        [time |-> Cardinality({t \in begin..end - 1 : Inside(appear[v], t)}),
                         present_at_end |-> Inside(appear[v], end)]
    BY DEF PresenceIsMeasured
  <2>1. begin \in Int /\ end \in Int /\ begin <= end
    BY PresenceAssumption
  <2>2. Check \subseteq [type : Type, time : Int]
    BY PresenceAssumption DEF Check
  <2>3. appear[v] \in Seq(Check)
    BY DEF PresenceInv, PresenceTypeOK
  <2>4. appear[v] \in Checks
    BY <2>2, <2>3, SeqMonotonic DEF Checks
  <2> QED
    BY <2>1, <2>4, CalcIsMeasured
<1> QED
  BY <1>1, PresenceAlways, PTL
================================================================================
