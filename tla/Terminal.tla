--------------------------------- MODULE Terminal -------------------------------
(***************************************************************************)
(* The user terminal (client/userterminal/site): one frame loads its pages *)
(* and their scripts (index.js), persons are identified by card or name    *)
(* (common.js), the page's script sends what its confirm button asks for.  *)
(* A script binds its handler to the confirm button that is shown when the *)
(* script arrives, and all scripts share the globals of the frame.         *)
(***************************************************************************)
EXTENDS Integers, Sequences, FiniteSets

CONSTANTS
  Holder,       \* persons with an account
  MaxLookups,   \* bound: persons looked for at the same time
  MaxWork       \* bound: pages loaded (each counts as two), clicks on confirm, and
                \*   persons that are not found

Dir == {"transaction_simple", "balance_get", "statement", "password_change"}
Global == {"sender", "recipient", "qrid"} \* current_sender, current_recipient, current_qrid
Nobody == "nobody"
Globals(dir) == IF dir = "transaction_simple" THEN {"sender", "recipient"} ELSE {"qrid"}

ASSUME TerminalAssumption ==
  /\ Nobody \notin Holder
  /\ {MaxLookups, MaxWork} \subseteq Nat

VARIABLES
  loads,      \* pages requested so far, and how far they have come
  shown,      \* the load whose page is displayed, 0 before the first
  handler,    \* whose handleIdentifyAnswer is in force
  bound,      \* the scripts that have bound the displayed confirm button
  enabled,    \* the confirm button can be clicked
  current,    \* the globals
  section,    \* whom the sections of the displayed page name
  lookups,    \* student_identify queries under way
  clicks,     \* counter of MaxWork
  asked,      \* the payments, and what else was sent and is not answered yet
  told,       \* history: messages on the page of a script that refuse none of its queries
  crossed     \* history: a script or an answer came to a page that did not wait for it

terminalVars == <<loads, shown, handler, bound, enabled, current, section, lookups,
                  clicks, asked, told, crossed>>
pageVars == <<loads, shown, bound, section>>

Load == 1..MaxWork
LookupQuery == [global : Global, who : Holder, load : Load]
Asked == [click : 1..MaxWork, load : Load,
          what : Dir \cup {"transactions"},  \* the second query of statement
          state : {"sent", "done", "refused"}, open : BOOLEAN,
          late : BOOLEAN]  \* history: a message has said that there is no answer yet

TerminalTypeOK ==
  /\ loads \in Seq([dir : Dir, stage : {"page", "script", "complete"}])
  /\ shown \in {0} \cup DOMAIN loads
  /\ handler \in Dir \cup {"none"}
  /\ bound \subseteq DOMAIN loads
  /\ enabled \in BOOLEAN
  /\ current \in [Global -> Holder \cup {Nobody}]
  /\ section \in [Global -> Holder \cup {Nobody}]
  /\ lookups \subseteq LookupQuery
  /\ clicks \in 0..MaxWork
  /\ asked \subseteq Asked
  /\ told \in [Load -> Nat] /\ crossed \in BOOLEAN

Bounded == 2 * Len(loads') + clicks' <= MaxWork

-----------------------------------------------------------------------------
(* Pages: a click in the menu, or resetAll.  Nothing waits for a page that is still *)
(* on its way, nor for the queries of one that is left. *)

load_subdir(dir) ==
  /\ loads' = Append(loads, [dir |-> dir, stage |-> "page"])
  /\ bound' = {}
  /\ UNCHANGED <<shown, handler, enabled, current, section, lookups, clicks, asked, told, crossed>>
  /\ Bounded

show_new_page(n) ==
  /\ loads[n].stage = "page"
  /\ loads' = [loads EXCEPT ![n].stage = "script"]
  /\ shown' = n
  /\ bound' = {} /\ enabled' = TRUE /\ crossed' = FALSE
  /\ section' = [g \in Global |-> Nobody]
  /\ UNCHANGED <<handler, current, lookups, clicks, asked, told>>

Script(n) ==
  /\ loads[n].stage = "script"
  /\ loads' = [loads EXCEPT ![n].stage = "complete"]
  /\ handler' = loads[n].dir
  /\ bound' = bound \cup {n}
  /\ current' = [g \in Global |-> IF g \in Globals(loads[n].dir) THEN Nobody ELSE current[g]]
  /\ crossed' = (crossed \/ n # shown \/ \E g \in Global : section[g] # Nobody)
  /\ UNCHANGED <<shown, enabled, section, lookups, clicks, asked, told>>

-----------------------------------------------------------------------------
(* Persons *)

Identify(g, who) ==
  /\ shown # 0 /\ g \in Globals(loads[shown].dir)
  /\ section[g] = Nobody /\ Cardinality(lookups) < MaxLookups
  /\ lookups' = lookups \cup {[global |-> g, who |-> who, load |-> shown]}
  /\ UNCHANGED <<pageVars, handler, enabled, current, clicks, asked, told, crossed>>

IgnoresSection(l) ==
  IF handler = "transaction_simple" THEN [current EXCEPT !["sender"] = l.who]
  ELSE [current EXCEPT !["qrid"] = l.who]

handleIdentifyAnswer(l) ==
  IF handler = "none" \/ (handler = "transaction_simple" /\ l.global = "qrid") THEN current
  ELSE [current EXCEPT ![IF handler = "transaction_simple" THEN l.global ELSE "qrid"] = l.who]

\* A page that was left still hears its answers; its sections are not shown.
student_identify(l) ==
  /\ l \in lookups
  /\ lookups' = lookups \ {l}
  /\ section' = IF l.load = shown THEN [section EXCEPT ![l.global] = l.who] ELSE section
  /\ current' = handleIdentifyAnswer(l)
  /\ crossed' = (crossed \/ l.load # shown \/ loads[shown].stage # "complete")
  /\ UNCHANGED <<loads, shown, handler, bound, enabled, clicks, asked, told>>

\* errorMessage, which enables whatever confirm button is shown.  It tells the
\* scripts of that page, but for those whose query it refuses.
Message(refused) ==
  /\ enabled' = TRUE
  /\ told' = [n \in Load |-> IF n \in bound \ refused THEN told[n] + 1 ELSE told[n]]

\* Without an answer student2readable throws.
NotIdentified(l) ==
  /\ l \in lookups
  /\ lookups' = lookups \ {l}
  /\ \/ clicks' = clicks + 1 /\ Message({})
     \/ UNCHANGED <<clicks, enabled, told>>
  /\ UNCHANGED <<pageVars, handler, current, asked, crossed>>
  /\ Bounded

\* A click on a completed section: the person stays in the global.
ChangeSection(g) ==
  /\ section[g] # Nobody
  /\ section' = [section EXCEPT ![g] = Nobody]
  /\ UNCHANGED <<loads, shown, handler, bound, enabled, current, lookups, clicks, asked, told,
                 crossed>>

-----------------------------------------------------------------------------
(* The confirm button *)

Complete(dir) == \A g \in Globals(dir) : current[g] # Nobody

Confirmed(n) ==
  [click |-> clicks + 1, load |-> n, what |-> loads[n].dir, state |-> "sent",
   open |-> TRUE, late |-> FALSE]

\* What a page refuses without asking: a person is missing, the amount is no number
\* of the currency, the new passwords differ.
Refusable(n) ==
  loads[n].dir \in {"transaction_simple", "password_change"} \/ ~Complete(loads[n].dir)

ConfirmSends(refused) ==
  /\ bound # {} /\ enabled
  /\ \A n \in bound : (n \in refused => Refusable(n)) /\ (~Complete(loads[n].dir) => n \in refused)
  /\ clicks' = clicks + 1
  /\ asked' = asked \cup {Confirmed(n) : n \in bound \ refused}
  /\ UNCHANGED <<pageVars, handler, current, lookups, crossed>>
  /\ Bounded

ConfirmStaysEnabled(refused) == ConfirmSends(refused) /\ UNCHANGED <<enabled, told>>

\* Every bound handler runs.  That of a payment disables the button first, and a
\* message enables it; which of two handlers runs first depends on which script came first.
Confirm(refused) ==
  LET paying == {n \in bound \ refused : loads[n].dir = "transaction_simple"}
  IN  /\ ConfirmSends(refused)
      /\ IF refused = {} THEN enabled' = (paying = {}) /\ UNCHANGED told
         ELSE \/ Message(refused)
              \/ paying # {} /\ enabled' = FALSE /\ UNCHANGED told

Execute(a, state) ==
  /\ a.state = "sent"
  /\ asked' = (asked \ {a}) \cup {[a EXCEPT !.state = state]}
  /\ UNCHANGED <<pageVars, handler, enabled, current, lookups, clicks, told, crossed>>

\* Nobody waits for it any more.
Heard(a) ==
  asked' = (asked \ {a}) \cup
    (IF a.what = "transaction_simple" THEN {[a EXCEPT !.open = FALSE]} ELSE {})

\* An error message, or what was asked for: a small box that leaves the page as it is.  A
\* statement goes on with its second query.
AnswerArrives(a) ==
  /\ a.open /\ a.state # "sent"
  /\ IF a.what = "statement" /\ a.state = "done"
       THEN asked' = (asked \ {a}) \cup {[a EXCEPT !.what = "transactions", !.state = "sent"]}
       ELSE Heard(a)
  /\ IF a.state = "refused" THEN Message({a.load}) ELSE UNCHANGED <<enabled, told>>
  /\ UNCHANGED <<pageVars, handler, current, lookups, clicks, crossed>>

\* "Das Währungssystem ist zurzeit nicht verfügbar", after 1.5 seconds; the
\* answer may still come.
NotAvailable(a) ==
  /\ a.open /\ ~a.late /\ a.what # "transactions"
  /\ asked' = (asked \ {a}) \cup {[a EXCEPT !.late = TRUE]}
  /\ Message({})
  /\ UNCHANGED <<pageVars, handler, current, lookups, clicks, crossed>>

\* At once when no server answers the ping, or after five seconds: two pages show a
\* message, the others throw.  It counts as an answer, so that no late message follows.
NoAnswer(a) ==
  /\ a.open /\ Heard(a)
  /\ IF a.what \in {"transaction_simple", "password_change"}
       THEN Message({}) ELSE UNCHANGED <<enabled, told>>
  /\ UNCHANGED <<pageVars, handler, current, lookups, clicks, crossed>>

-----------------------------------------------------------------------------
TerminalInit ==
  /\ loads = <<>> /\ shown = 0 /\ handler = "none"
  /\ bound = {} /\ enabled = FALSE
  /\ current = [g \in Global |-> Nobody]
  /\ section = [g \in Global |-> Nobody]
  /\ lookups = {} /\ clicks = 0 /\ asked = {}
  /\ told = [n \in Load |-> 0] /\ crossed = FALSE

TerminalNext ==
  \/ \E dir \in Dir : load_subdir(dir)
  \/ \E n \in DOMAIN loads : show_new_page(n) \/ Script(n)
  \/ \E g \in Global : ChangeSection(g) \/ \E who \in Holder : Identify(g, who)
  \/ \E l \in lookups : student_identify(l) \/ NotIdentified(l)
  \/ \E refused \in SUBSET bound : Confirm(refused)
  \/ \E a \in asked :
       \/ \E state \in {"done", "refused"} : Execute(a, state)
       \/ AnswerArrives(a) \/ NotAvailable(a) \/ NoAnswer(a)

TerminalSpec == TerminalInit /\ [][TerminalNext]_terminalVars

-----------------------------------------------------------------------------
(* Properties *)

FormPayments(load) == {a \in asked : a.load = load /\ a.what = "transaction_simple"}

\* A filled-in form pays once, and once more for each message on its page that does
\* not refuse one of its payments: that there is no answer, that a person was not found,
\* or what another script says.  This holds however often confirm is clicked and
\* whatever is loaded, identified or changed in between, also after the answer ok.
FormPaidOnce == \A n \in DOMAIN loads :
  Cardinality({a \in FormPayments(n) : a.state = "done"}) <= 1 + told[n]

\* Whoever a section names is who is charged or paid, although names are written
\* by the frame and the globals by the script of the page, unless a script of another
\* page or an answer for one came to this page, or one before its script.
NamedIsMeant == ~crossed => \A g \in Global : section[g] # Nobody => current[g] = section[g]

\* "Das Währungssystem ist zurzeit nicht verfügbar" is shown of no payment that
\* is made.
UnavailableMeansUnpaid == \A n \in DOMAIN loads :
  \A a \in FormPayments(n) : a.late => a.state # "done"
=============================================================================
