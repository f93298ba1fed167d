--------------------------------- MODULE AppForm --------------------------------
(***************************************************************************)
(* The two payment forms of the app (client/app/www/js/send.js,            *)
(* receive.js): the other person is identified, a window shows the         *)
(* payment, submit sends it.  Amount and person are globals of the page    *)
(* that submit reads when it is clicked.                                   *)
(***************************************************************************)
EXTENDS Integers, Sequences, FiniteSets

CONSTANTS
  Person,      \* whom the fields may describe
  Amount,      \* what the amount field may say, 0 for anything but a positive number
  MaxSubmits   \* bound: clicks on submit

ASSUME FormAssumption ==
  /\ Person # {} /\ Amount # {} /\ Amount \subseteq Nat
  /\ MaxSubmits \in Nat

Draft == [who : Person, amount : Amount]

VARIABLES
  typed,       \* the fields
  confirmed,   \* history: the fields when confirm was last clicked
  identifying, \* student_identify queries under way
  confirm,     \* handlers on the confirm button
  amount,
  current_person, \* current_recipient of send.js, current_sender of receive.js
  window,      \* the confirm window is open and covers the fields
  submit,      \* handlers on its submit button
  submissions  \* payments sent, and whether the app still waits for the answer

formVars == <<typed, confirmed, identifying, confirm, amount, current_person, window,
              submit, submissions>>

Submission == [pay : Draft, state : {"sent", "paid", "refused"}, open : BOOLEAN]

FormTypeOK ==
  /\ typed \in Draft /\ confirmed \in Draft
  /\ identifying \subseteq Draft
  /\ confirm \in 0..1 /\ submit \in 0..1
  /\ amount \in Amount /\ current_person \in Person
  /\ window \in BOOLEAN
  /\ submissions \in Seq(Submission)

-----------------------------------------------------------------------------
Type(d) ==
  /\ ~window /\ d # typed
  /\ typed' = d
  /\ UNCHANGED <<confirmed, identifying, confirm, amount, current_person, window,
                 submit, submissions>>

Ask ==
  /\ ~window /\ confirm > 0
  /\ confirmed' = typed
  /\ amount' = typed.amount
  /\ identifying' = identifying \cup {typed}
  /\ UNCHANGED <<typed, current_person, window, submit, submissions>>

AskAgain == Ask /\ UNCHANGED confirm

\* .one: the handler is gone with its first click.
onConfirmClick == Ask /\ confirm' = 0

\* The answer of student_identify: a person, or several, none, or an error.
ConfirmAnswer(d, found) ==
  /\ d \in identifying
  /\ identifying' = identifying \ {d}
  /\ confirm' = 1
  /\ IF found /\ amount > 0
       THEN current_person' = d.who /\ window' = TRUE
       ELSE UNCHANGED <<current_person, window>>
  /\ UNCHANGED <<typed, confirmed, amount, submit, submissions>>

ConfirmBack ==
  /\ window
  /\ window' = FALSE
  /\ UNCHANGED <<typed, confirmed, identifying, confirm, amount, current_person,
                 submit, submissions>>

onSubmitClick ==
  /\ window /\ submit > 0
  /\ Len(submissions) < MaxSubmits
  /\ submissions' = Append(submissions,
       [pay |-> [who |-> current_person, amount |-> amount], state |-> "sent", open |-> TRUE])
  /\ submit' = 0
  /\ UNCHANGED <<typed, confirmed, identifying, confirm, amount, current_person, window>>

\* transaction on the server, also after the app has given up.
Settle(n, state) ==
  /\ submissions[n].state = "sent"
  /\ submissions' = [submissions EXCEPT ![n].state = state]
  /\ UNCHANGED <<typed, confirmed, identifying, confirm, amount, current_person,
                 window, submit>>

SubmitAnswer(n) ==
  /\ submissions[n].open /\ submissions[n].state # "sent"
  /\ submissions' = [submissions EXCEPT ![n].open = FALSE]
  /\ submit' = submit + 1
  /\ window' = (window /\ submissions[n].state # "paid")
  /\ UNCHANGED <<typed, confirmed, identifying, confirm, amount, current_person>>

Lost(n) ==
  /\ submissions[n].open
  /\ submissions' = [submissions EXCEPT ![n].open = FALSE]
  /\ UNCHANGED <<typed, confirmed, identifying, confirm, amount, current_person, window>>

SubmitErrorIgnored(n) == Lost(n) /\ UNCHANGED submit

\* action_app: a message that says nothing of the payment, and the error callback.
SubmitError(n) == Lost(n) /\ submit' = submit + 1

-----------------------------------------------------------------------------
FormInit ==
  /\ typed = CHOOSE d \in Draft : TRUE
  /\ confirmed = typed
  /\ identifying = {}
  /\ confirm = 1 /\ submit = 1
  /\ amount = typed.amount /\ current_person = typed.who
  /\ window = FALSE
  /\ submissions = <<>>

FormNext ==
  \/ \E d \in Draft :
       \/ Type(d)
       \/ \E found \in BOOLEAN : ConfirmAnswer(d, found)
  \/ onConfirmClick \/ ConfirmBack \/ onSubmitClick
  \/ \E n \in DOMAIN submissions :
       \/ \E state \in {"paid", "refused"} : Settle(n, state)
       \/ SubmitAnswer(n) \/ SubmitError(n)

FormSpec == FormInit /\ [][FormNext]_formVars

-----------------------------------------------------------------------------
(* Properties *)

\* The open window shows, and submit pays, what was typed when confirm was
\* clicked, although the answer comes while the fields are edited on and two
\* globals set at different times make up the payment.
ShownAsTyped == window => [who |-> current_person, amount |-> amount] = confirmed

\* A button has one handler or one query under way, never both and never
\* neither: no click pays twice, and no lost answer leaves a dead form.
OneHandler ==
  /\ confirm + Cardinality(identifying) = 1
  /\ submit + Cardinality({n \in DOMAIN submissions : submissions[n].open}) = 1
=============================================================================
