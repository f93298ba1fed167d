------------------------------- MODULE StudentList ------------------------------
(***************************************************************************)
(* The bank's list of students (client/adminpanel/site/studentlist): a     *)
(* query fills the global list, the rows of the page point into it by      *)
(* index, the profile that was opened is a global, too, and every change   *)
(* is sent for the QR-ID that the list had when it was loaded.             *)
(***************************************************************************)
EXTENDS Integers, Sequences, SequencesExt, FiniteSets

CONSTANTS
  Pupil,       \* accounts
  PupilQrid,   \* QR-IDs
  NoOne,       \* no account, and no QR-ID: undefined
  MaxQueries,  \* bound: lists asked for
  MaxOrders    \* bound: changes sent

ASSUME ListAssumption ==
  /\ IsFiniteSet(Pupil) /\ NoOne \notin Pupil \cup PupilQrid
  /\ {MaxQueries, MaxOrders} \subseteq Nat
  /\ \E f \in [Pupil -> PupilQrid] : \A p, q \in Pupil : f[p] = f[q] => p = q

VARIABLES
  qridOf,          \* of each account, at the server; NoOne when it is deleted
  freed,           \* history: accounts that have lost their QR-ID
  querying,        \* answers to students_get that have not arrived, "error" among them
  studentlist,     \* the global: entries, or the characters of an error, or nothing
  rows,            \* the entries that the rows of the page show
  current_profile, \* the global
  profile,         \* whom the open profile shows, {} if it is closed
  orders,          \* what was sent, for which QR-ID and whom the page showed
  queries          \* counter of MaxQueries

listVars == <<qridOf, freed, querying, studentlist, rows, current_profile, profile, orders,
              queries>>

Qrid == PupilQrid \cup {NoOne}
Listed == [pupil : Pupil \cup {NoOne}, qrid : Qrid]
Order == [kind : {"change", "rename", "delete"}, to : Qrid, qrid : Qrid,
          shown : Pupil \cup {NoOne}, hit : SUBSET Pupil,
          state : {"sent", "done", "heard"}]

ListTypeOK ==
  /\ qridOf \in [Pupil -> Qrid] /\ freed \subseteq Pupil
  /\ \A answer \in querying : answer \in Seq(Listed)
  /\ studentlist \in Seq(Listed) /\ rows \in Seq(Listed)
  /\ current_profile \subseteq Listed /\ profile \subseteq Pupil \cup {NoOne}
  /\ orders \in Seq(Order)
  /\ queries \in 0..MaxQueries

-----------------------------------------------------------------------------
(* Lists *)

\* Both buttons clear the rows, and leave the list.
LoadFilter ==
  /\ queries < MaxQueries
  /\ queries' = queries + 1
  /\ rows' = <<>>
  /\ \E found \in SUBSET {p \in Pupil : qridOf[p] # NoOne} :
       \E answer \in SetToSeqs({[pupil |-> p, qrid |-> qridOf[p]] : p \in found}) :
         querying' = querying \cup {answer}
  /\ UNCHANGED <<qridOf, freed, studentlist, current_profile, profile, orders>>

ByLastname(answer) == SetToSeq(ToSet(answer)) \* some order of its entries

SortsCopy(answer) ==
  /\ querying' = querying \ {answer}
  /\ studentlist' = answer /\ rows' = ByLastname(answer)
  /\ UNCHANGED <<qridOf, freed, current_profile, profile, orders, queries>>

render_list(answer) ==
  /\ querying' = querying \ {answer}
  /\ studentlist' = ByLastname(answer) /\ rows' = studentlist'
  /\ UNCHANGED <<qridOf, freed, current_profile, profile, orders, queries>>

\* A character of a text has no properties.
Undefined == [pupil |-> NoOne, qrid |-> NoOne]
ErrorText == [i \in 1..Cardinality(Pupil) |-> Undefined]

\* The text of an error takes the place of the list, or null does; the rows stay as
\* they are.
ListFails(answer) ==
  /\ querying' = querying \ {answer}
  /\ studentlist' \in {<<>>, ErrorText}
  /\ UNCHANGED <<qridOf, freed, rows, current_profile, profile, orders, queries>>

-----------------------------------------------------------------------------
(* Rows and the profile *)

\* The profile covers the list; a row throws when there is null, and opens an empty
\* profile, of nobody, when there is a text.
profile_open(i) ==
  /\ profile = {} /\ i \in DOMAIN rows /\ i \in DOMAIN studentlist
  /\ current_profile' = {studentlist[i]}
  /\ profile' = {studentlist[i].pupil}
  /\ UNCHANGED <<qridOf, freed, querying, studentlist, rows, orders, queries>>

profile_close ==
  /\ profile # {}
  /\ profile' = {}
  /\ UNCHANGED <<qridOf, freed, querying, studentlist, rows, current_profile, orders, queries>>

Sends(kind, to, qrid, shown) ==
  /\ Len(orders) < MaxOrders
  /\ orders' = Append(orders, [kind |-> kind, to |-> to, qrid |-> qrid, shown |-> shown,
                               hit |-> {}, state |-> "sent"])
  /\ UNCHANGED <<qridOf, freed, querying, studentlist, rows, current_profile, profile, queries>>

\* The name in the question is that of the list, too.
student_delete(i) ==
  /\ profile = {} /\ i \in DOMAIN rows /\ i \in DOMAIN studentlist
  /\ Sends("delete", studentlist[i].qrid, studentlist[i].qrid, rows[i].pupil)

\* Other properties, the password, check-in and check-out, the fee
profile_change == \E st \in current_profile, shown \in profile :
  Sends("change", st.qrid, st.qrid, shown)

\* The QR-ID; the list and the profile keep the old one.
profile_edit(to) == \E st \in current_profile, shown \in profile :
  Sends("rename", to, st.qrid, shown)

Hit(order) == {p \in Pupil : order.qrid # NoOne /\ qridOf[p] = order.qrid}

\* What QR-ID they have then: one that is taken is refused, and a deleted account
\* leaves its own to whoever is given it next.
Leaves(order) ==
  CASE order.kind = "delete" -> NoOne
    [] order.kind = "rename" /\ (\A p \in Pupil : qridOf[p] # order.to) -> order.to
    [] OTHER -> order.qrid

\* The server works for whoever has the QR-ID now.
Executed(k) ==
  LET hit == Hit(orders[k])
      qrid == Leaves(orders[k])
  IN  /\ orders[k].state = "sent"
      /\ orders' = [orders EXCEPT ![k].state = "done", ![k].hit = hit]
      /\ qridOf' = [p \in Pupil |-> IF p \in hit THEN qrid ELSE qridOf[p]]
      /\ freed' = IF qrid = orders[k].qrid THEN freed ELSE freed \cup hit
      /\ UNCHANGED <<querying, studentlist, rows, current_profile, profile, queries>>

\* A message, with the name of the profile that is open by then.
OrderAnswer(k) ==
  /\ orders[k].state = "done"
  /\ orders' = [orders EXCEPT ![k].state = "heard"]
  /\ UNCHANGED <<qridOf, freed, querying, studentlist, rows, current_profile, profile, queries>>

-----------------------------------------------------------------------------
ListInit ==
  /\ qridOf = CHOOSE f \in [Pupil -> PupilQrid] : \A p, q \in Pupil : f[p] = f[q] => p = q
  /\ freed = {} /\ querying = {} /\ studentlist = <<>> /\ rows = <<>>
  /\ current_profile = {} /\ profile = {} /\ orders = <<>> /\ queries = 0

ListNext ==
  \/ LoadFilter
  \/ \E answer \in querying : render_list(answer) \/ ListFails(answer)
  \/ \E i \in DOMAIN rows : profile_open(i) \/ student_delete(i)
  \/ profile_close
  \/ profile_change \/ \E to \in PupilQrid : profile_edit(to)
  \/ \E k \in DOMAIN orders : Executed(k) \/ OrderAnswer(k)

ListSpec == ListInit /\ [][ListNext]_listVars

-----------------------------------------------------------------------------
(* Properties *)

\* Nobody is deleted, charged or changed but the one whose row or profile was
\* shown, as long as that one has the QR-ID (a deleted one's may be another's by
\* then): rows and list are sorted alike, a list that is loaded behind an open
\* profile does not change whom it is for, and an error in its place hits nobody.
ActsOnShown == \A k \in DOMAIN orders :
  orders[k].shown \notin freed => orders[k].hit \subseteq {orders[k].shown}
=============================================================================
