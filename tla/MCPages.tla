------------------------------- MODULE MCPages -------------------------------
(***************************************************************************)
(* One small instance for the pages that people use: TLC chooses a page in *)
(* the initial state and explores it; the state of the others stays as it  *)
(* is at their start.                                                      *)
(***************************************************************************)
EXTENDS Batch, AppForm, Terminal, Registration, StudentList, IdCards, TLC

VARIABLE page

vars == <<page, batchVars, formVars, terminalVars, registrationVars, listVars, cardVars>>

\* The persons at the terminal are alike.
Guests == Permutations(Holder)

R(id, s, kind) == [id |-> id, site |-> s, kind |-> kind]
Rows == {R(1, "business", "normal"), R(2, "business", "taxfree"),
         R(1, "bank", "normal"), R(2, "bank", "both")}

Apl(id, s, class, card, preload) ==
  [id |-> id, site |-> s, class |-> class, card |-> card, preload |-> preload]
People == {Apl(1, "terminal", "pupil", "none", 0), Apl(2, "bank", "pupil", "none", 0),
           Apl(3, "bank", "visitor", "card", 5)}

Init ==
  /\ page \in {"batch", "form", "terminal", "registration", "list", "cards"}
  /\ BatchInit /\ (page = "batch" \/ site = "business")
  /\ FormInit /\ TerminalInit /\ RegistrationInit /\ ListInit /\ CardsInit

Next ==
  \/ /\ page = "batch" /\ BatchNext
     /\ UNCHANGED <<page, formVars, terminalVars, registrationVars, listVars, cardVars>>
  \/ /\ page = "form" /\ FormNext
     /\ UNCHANGED <<page, batchVars, terminalVars, registrationVars, listVars, cardVars>>
  \/ /\ page = "terminal" /\ TerminalNext
     /\ UNCHANGED <<page, batchVars, formVars, registrationVars, listVars, cardVars>>
  \/ /\ page = "registration" /\ RegistrationNext
     /\ UNCHANGED <<page, batchVars, formVars, terminalVars, listVars, cardVars>>
  \/ /\ page = "list" /\ ListNext
     /\ UNCHANGED <<page, batchVars, formVars, terminalVars, registrationVars, cardVars>>
  \/ /\ page = "cards" /\ CardsNext
     /\ UNCHANGED <<page, batchVars, formVars, terminalVars, registrationVars, listVars>>

Spec == Init /\ [][Next]_vars

\* The variables of every page keep their types, whichever page is in use; the
\* place of a card is on its page, and no button has two handlers.
PagesTypeOK ==
  /\ BatchTypeOK /\ FormTypeOK /\ TerminalTypeOK
  /\ RegistrationTypeOK /\ ListTypeOK /\ CardsTypeOK
=============================================================================
