-------------------------- MODULE TransactionRequest --------------------------
(***************************************************************************)
(* What happens to a payment before it is announced: the checks of the     *)
(* five actions that make payments, the lookups of transaction() and the   *)
(* entry it builds (server/api/actions/transactions.js), while other       *)
(* requests change the students collection between the lookups.  Requests  *)
(* share nothing else at this stage, so one request is modelled.           *)
(***************************************************************************)
EXTENDS Tax, Accounts

CONSTANTS
  Input,       \* payloads: [kind, sender, recipient, password, long, sent,
               \*            received, tax_percent]; an amount that is missing,
               \*            null, false or 0 is 0
  NotFinite,   \* an amount that is not a finite number, for example a string
  FineText,    \* a string that reads like a number with too many decimals
  TrUnit,      \* the unit of hgc_tr_decimal_places
  TaxPercent,  \* transaction_tax_percent
  TaxincQrid,  \* taxinc_qrid
  Magic,       \* magic_account, the QR-ID of no student
  NoAccount,   \* the missing reference of the magic account
  MaxFailures  \* bound: database errors

Kind == {"transaction", "transaction_taxfree", "master_transaction",
         "spawn_money", "destroy_money"}
Amount == Int \cup {NotFinite, FineText}
Request == [kind : Kind, sender : Qrid \cup {Magic}, recipient : Qrid \cup {Magic},
            password : Password, long : BOOLEAN, sent : Amount,
            received : Amount, tax_percent : Int]
Side == Account \cup {NoAccount}
Entry == [sender : Side, recipient : Side, tax_recipient : Account,
          sent : Int, received : Int, tax : Int]
Refused == {"comment_too_long", "too_many_decplaces", "underspecified",
            "overspecified", "invalid_amount", "invalid_sender",
            "invalid_recipient", "invalid_password", "error"}

ASSUME RequestAssumption ==
  /\ Input \subseteq Request
  /\ None \notin Entry \cup Refused \cup Side
  /\ TrUnit \in Nat /\ \E k \in 1..TrUnit : TrUnit = k * Unit
  /\ TaxPercent \in Nat /\ MaxFailures \in Nat
  /\ NotFinite \notin Int /\ FineText \notin Int
  /\ Magic \notin Qrid
  /\ NoAccount \notin Account

VARIABLES
  step,        \* the next thing to do
  request,     \* the payload
  taxinc, sender, recipient,   \* what the lookups found
  entry, answer,               \* how it ended
  failures,    \* counter of MaxFailures
  checked,     \* history: the account whose password was checked
  reassigned   \* history: it lost its QR-ID before the sender was looked up

vars == <<students, step, request, taxinc, sender, recipient, entry, answer,
          failures, checked, reassigned>>
found == <<taxinc, sender, recipient>>

TypeOK ==
  /\ students \in [Account -> Student \cup {None, Removed}]
  /\ step \in {"new", "password", "taxinc", "sender", "recipient", "done"}
  /\ request \in Input \cup {None}
  /\ taxinc \in Account \cup {None}
  /\ {sender, recipient} \subseteq Side \cup {None}
  /\ entry \in Entry \cup {None}
  /\ answer \in Refused \cup {None}
  /\ checked \in Account \cup {None}
  /\ failures \in 0..MaxFailures
  /\ reassigned \in BOOLEAN
  /\ step = "done" <=> (entry # None \/ answer # None)
  /\ entry = None \/ answer = None

-----------------------------------------------------------------------------
(* Checks *)

Given(amount) == amount # 0
SoundAnyNumber(amount) == amount \in Int
Sound(amount) == amount \in Int /\ amount > 0

\* nDecimals(amount) > hgc_tr_decimal_places: it reads the amount as text.
TooFine(amount) == amount = FineText \/ (amount \in Int /\ amount % TrUnit # 0)

NeedsPassword(i) == i.kind \in {"transaction", "transaction_taxfree"}
Percent(i) ==
  CASE i.kind = "transaction"        -> TaxPercent
    [] i.kind = "master_transaction" -> i.tax_percent
    [] OTHER                         -> 0

\* The checks of the actions, and those transaction() makes before any lookup.
Refusal(i) ==
  CASE NeedsPassword(i) /\ i.long -> "comment_too_long"
    [] NeedsPassword(i) /\ ~i.long /\ (TooFine(i.sent) \/ TooFine(i.received))
         -> "too_many_decplaces"
    [] Percent(i) < 0 -> "error"
    [] OTHER -> None

TransactionRefusal(i) ==
  CASE ~Given(i.sent) /\ ~Given(i.received) -> "underspecified"
    [] Given(i.sent) /\ Given(i.received)   -> "overspecified"
    [] Given(i.sent) /\ ~Given(i.received) /\ ~Sound(i.sent)     -> "invalid_amount"
    [] Given(i.received) /\ ~Given(i.sent) /\ ~Sound(i.received) -> "invalid_amount"
    [] OTHER -> None

RefuseAndGoOn(why) ==
  /\ answer' = why
  /\ step' = "taxinc"
Refuse(why) ==
  /\ answer' = why
  /\ step' = "done"

\* transaction() as far as it runs before its first lookup.
Begin(i) ==
  IF TransactionRefusal(i) # None
    THEN Refuse(TransactionRefusal(i))
    ELSE step' = "taxinc" /\ UNCHANGED answer

-----------------------------------------------------------------------------
(* Handlers: every lookup is one query, executed between other requests *)

Arrive(i) ==
  /\ step = "new"
  /\ request' = i
  /\ CASE Refusal(i) # None -> Refuse(Refusal(i))
       [] Refusal(i) = None /\ NeedsPassword(i) -> step' = "password" /\ UNCHANGED answer
       [] Refusal(i) = None /\ ~NeedsPassword(i) -> Begin(i)
  /\ UNCHANGED <<students, found, entry, failures, checked, reassigned>>

CheckPassword ==
  /\ step = "password"
  /\ LET st == Lookup(request.sender)
     IN  CASE st = None -> Refuse("invalid_sender") /\ UNCHANGED checked
           [] st # None /\ students[st].password # request.password
                -> Refuse("invalid_password") /\ UNCHANGED checked
           [] st # None /\ students[st].password = request.password
                -> Begin(request) /\ checked' = st
  /\ UNCHANGED <<students, request, found, entry, failures, reassigned>>

LookupTaxinc ==
  /\ step = "taxinc"
  /\ IF Lookup(TaxincQrid) = None
       THEN Refuse("error") /\ UNCHANGED taxinc
       ELSE /\ taxinc' = Lookup(TaxincQrid)
            /\ step' = "sender"
            /\ UNCHANGED answer
  /\ UNCHANGED <<students, request, sender, recipient, entry, failures, checked, reassigned>>

\* Money of the magic account is spawned, money sent to it destroyed; there is
\* no lookup then.
LookupSenderSwapped ==
  /\ step = "sender"
  /\ LET st == IF request.sender = Magic THEN NoAccount ELSE Lookup(request.recipient)
     IN  IF st = None
           THEN Refuse("invalid_sender") /\ UNCHANGED sender
           ELSE sender' = st /\ step' = "recipient" /\ UNCHANGED answer
  /\ UNCHANGED <<students, request, taxinc, recipient, entry, failures, checked, reassigned>>
LookupSender ==
  /\ step = "sender"
  /\ LET st == IF request.sender = Magic THEN NoAccount ELSE Lookup(request.sender)
     IN  IF st = None
           THEN Refuse("invalid_sender") /\ UNCHANGED sender
           ELSE sender' = st /\ step' = "recipient" /\ UNCHANGED answer
  /\ UNCHANGED <<students, request, taxinc, recipient, entry, failures, checked, reassigned>>

Split(i) ==
  IF Given(i.sent) THEN BySent(i.sent, Percent(i)) ELSE ByReceived(i.received, Percent(i))

\* The last lookup; its callback builds the entry and announces it.
LookupRecipient ==
  /\ step = "recipient"
  /\ LET st == IF request.recipient = Magic THEN NoAccount ELSE Lookup(request.recipient)
     IN  IF st = None
           THEN Refuse("invalid_recipient") /\ UNCHANGED <<recipient, entry>>
           ELSE /\ recipient' = st
                /\ step' = "done"
                /\ \E s \in Split(request) :
                     entry' = [sender |-> sender, recipient |-> st, tax_recipient |-> taxinc,
                               sent |-> s.sent, received |-> s.received, tax |-> s.tax]
                /\ UNCHANGED answer
  /\ UNCHANGED <<students, request, taxinc, sender, failures, checked, reassigned>>

LookupFails ==
  /\ step \in {"password", "taxinc", "sender", "recipient"}
  /\ failures < MaxFailures
  /\ failures' = failures + 1
  /\ Refuse("error")
  /\ UNCHANGED <<students, request, found, entry, checked, reassigned>>

\* Handlers of other requests.
OtherRequest ==
  /\ step # "done"
  /\ Change
  /\ UNCHANGED <<step, request, found, entry, answer, failures, checked>>
  /\ reassigned' = (reassigned \/ (checked # None /\ step \in {"taxinc", "sender"}
                                   /\ Lookup(request.sender)' # checked))

Init ==
  /\ StudentsInit
  /\ step = "new"
  /\ request = None
  /\ taxinc = None /\ sender = None /\ recipient = None
  /\ entry = None /\ answer = None
  /\ failures = 0
  /\ checked = None /\ reassigned = FALSE

Next ==
  \/ \E i \in Input : Arrive(i)
  \/ CheckPassword \/ LookupTaxinc \/ LookupSender \/ LookupRecipient
  \/ LookupFails
  \/ OtherRequest

Spec == Init /\ [][Next]_vars

-----------------------------------------------------------------------------
(* Properties *)

\* Amounts that only master_transaction, spawn_money and destroy_money accept.
Unrounded(amount) == amount \in Int /\ amount % Unit # 0

\* What module TransactionQueue assumes of every entry (EntryAssumption): money
\* is neither made nor lost by the taxes, nobody receives a negative amount,
\* and only spawn_money and master_transaction debit the magic account.
EntryGuarantee ==
  entry # None /\ ~Unrounded(request.sent) =>
    /\ entry.sent \in Nat /\ entry.received \in Nat /\ entry.tax \in Nat
    /\ entry.sent = entry.received + entry.tax
    /\ entry.sender = NoAccount => ~NeedsPassword(request)

\* Rounding favours the central bank: the tax is never less than the percentage
\* of what the recipient gets (comment at transactions.js 319-323).
InDubioProCentralBank ==
  entry # None => 100 * entry.tax >= Percent(request) * entry.received

\* The debited account is the one whose password was checked, unless its QR-ID
\* was taken away from it during the request: transaction() looks it up again.
DebitsCheckedAccount ==
  entry # None /\ NeedsPassword(request) => entry.sender = checked \/ reassigned
=============================================================================
