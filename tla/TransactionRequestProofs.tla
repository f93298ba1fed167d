------------------------ MODULE TransactionRequestProofs ------------------------
(***************************************************************************)
(* Whatever requests change the students in between, an entry that is     *)
(* announced is one that module TransactionQueue may be given.             *)
(***************************************************************************)
EXTENDS TransactionRequest, TLAPS

-----------------------------------------------------------------------------
(* The splitting of a payment, for every unit, amount and whole percentage *)

LEMMA CeilDivBounds ==
  ASSUME NEW a \in Nat, NEW b \in Nat \ {0}
  PROVE  /\ CeilDiv(a, b) \in Nat
         /\ a <= b * CeilDiv(a, b)
         /\ b * CeilDiv(a, b) < a + b
BY SMT DEF CeilDiv

LEMMA ProductPositive ==
  ASSUME NEW a \in Nat \ {0}, NEW b \in Nat \ {0}
  PROVE  a * b \in Nat \ {0}
BY SMT

LEMMA Cancel ==
  ASSUME NEW a \in Nat \ {0}, NEW x \in Int, NEW y \in Int, a * x < a * y
  PROVE  x < y
<1> SUFFICES ASSUME x >= y PROVE FALSE
  OBVIOUS
<1>1. a * (x - y) >= 0
  BY SMT
<1> QED
  BY <1>1, SMT

\* Rounding up loses nothing, adds at most one unit, and its result is a number
\* of units.
LEMMA RoundupBounds ==
  ASSUME NEW num \in Nat, NEW den \in Nat \ {0}, NEW t \in HGC_roundup(num, den)
  PROVE  /\ t \in Nat
         /\ \E k \in Nat : t = Unit * k
         /\ t * den >= num
         /\ t * den <= num + Unit * den
<1> USE UnitAssumption
<1> DEFINE m == den * Unit
           c == CeilDiv(num, m)
<1>1. m \in Nat \ {0}
  BY ProductPositive
<1>2. c \in Nat /\ num <= m * c /\ m * c < num + m
  BY <1>1, CeilDivBounds
<1>3. RoundedUp(num, den) = Unit * c
  BY DEF RoundedUp
<1> HIDE DEF c
<1>4. (Unit * c) * den = m * c
  BY <1>2, SMT
<1>5. CASE t = Unit * c
  BY <1>2, <1>4, <1>5, SMT
<1>6. CASE t = Unit * c + Unit /\ (Unit * c) * den = num
  <2>1. t = Unit * (c + 1)
    BY <1>2, <1>6, SMT
  <2>2. t * den = num + Unit * den
    BY <1>2, <1>6, SMT
  <2> QED
    BY <1>2, <2>1, <2>2, SMT
<1> QED
  BY <1>3, <1>5, <1>6 DEF HGC_roundup

\* The tax taken out of a whole number of units never exceeds it, although it
\* may be rounded up by a unit too many.
LEMMA TaxWithinGross ==
  ASSUME NEW m \in Nat, NEW percent \in Nat, NEW t \in gross2tax(Unit * m, percent)
  PROVE  t \in Nat /\ t <= Unit * m
<1> USE UnitAssumption
<1> DEFINE gross == Unit * m
           num == percent * gross
           den == 100 + percent
           c == CeilDiv(num, den * Unit)
<1>1. num \in Nat /\ den \in Nat \ {0} /\ gross \in Nat
  BY SMT
<1>2. t \in Nat
  BY <1>1, RoundupBounds DEF gross2tax
<1>3. den * Unit \in Nat \ {0}
  BY <1>1, ProductPositive
<1>4. c \in Nat /\ (den * Unit) * c < num + den * Unit
  BY <1>1, <1>3, CeilDivBounds
<1> HIDE DEF c
<1>5. Unit * (den * (c - 1)) < Unit * (percent * m)
  BY <1>4, SMT
<1>6. den * (c - 1) < percent * m
  BY <1>4, <1>5, Cancel, SMT
<1>7. percent * m <= den * m
  BY SMT
<1>8. den * (c - 1) < den * m
  BY <1>4, <1>6, <1>7, SMT
<1>9. c <= m
  <2>1. c - 1 < m
    BY <1>1, <1>4, <1>8, Cancel
  <2> QED
    BY <1>4, <2>1
<1>10. CASE t = Unit * c
  BY <1>2, <1>4, <1>9, <1>10, SMT
<1>11. CASE t = Unit * c + Unit /\ num > 0 /\ (Unit * c) * den = num
  <2>1. Unit * (den * c) = Unit * (percent * m)
    BY <1>4, <1>11, SMT
  <2>2. m > 0
    BY <1>11, SMT
  <2>3. percent * m < den * m
    BY <2>2, SMT
  <2>4. Unit * (percent * m) < Unit * (den * m)
    BY <2>3, SMT
  <2>5. Unit * (den * c) < Unit * (den * m)
    BY <2>1, <2>4, SMT
  <2>6. den * c < den * m
    BY <1>4, <2>5, Cancel, SMT
  <2>7. c < m
    BY <1>1, <1>4, <2>6, Cancel
  <2>8. Unit * (c + 1) <= Unit * m
    BY <1>4, <2>7, SMT
  <2> QED
    BY <1>2, <1>4, <1>11, <2>8, SMT
<1> QED
  BY <1>10, <1>11 DEF gross2tax, HGC_roundup, RoundedUp, c

\* A payment given by what the sender pays.
LEMMA SplitOfSent ==
  ASSUME NEW m \in Nat, NEW percent \in Nat, NEW s \in BySent(Unit * m, percent)
  PROVE  /\ s.sent \in Nat /\ s.received \in Nat /\ s.tax \in Nat
         /\ s.sent = s.received + s.tax
<1> USE UnitAssumption
<1>1. PICK t \in gross2tax(Unit * m, percent) : s = Amounts(Unit * m, t)
  BY DEF BySent
<1>2. t \in Nat /\ t <= Unit * m
  BY TaxWithinGross
<1>3. Unit * m \in Nat
  BY SMT
<1> DEFINE gross == Unit * m
<1>4. s.sent = gross /\ s.tax = t /\ s.received = gross - t
  BY <1>1 DEF Amounts
<1> HIDE DEF gross
<1> QED
  BY <1>2, <1>3, <1>4, SMT DEF gross

\* A payment given by what the recipient gets.
LEMMA SplitOfReceived ==
  ASSUME NEW net \in Nat, NEW percent \in Nat, NEW s \in ByReceived(net, percent)
  PROVE  /\ s.sent \in Nat /\ s.received = net /\ s.tax \in Nat
         /\ s.sent = s.received + s.tax
         /\ 100 * s.tax >= percent * s.received
<1>1. PICK t \in net2tax(net, percent) : s = Amounts(net + t, t)
  BY DEF ByReceived
<1>2. percent * net \in Nat
  BY SMT
<1>3. t \in Nat /\ t * 100 >= percent * net
  BY <1>2, RoundupBounds DEF net2tax
<1> QED
  BY <1>1, <1>2, <1>3, SMT DEF Amounts

\* Taking the tax out of the gross amount favours the central bank as well,
\* whatever amount is sent.
LEMMA SentFavoursBank ==
  ASSUME NEW gross \in Nat, NEW percent \in Nat, NEW s \in BySent(gross, percent)
  PROVE  100 * s.tax >= percent * s.received
<1>1. PICK t \in gross2tax(gross, percent) : s = Amounts(gross, t)
  BY DEF BySent
<1>2. percent * gross \in Nat /\ 100 + percent \in Nat \ {0}
  BY SMT
<1>3. t \in Nat /\ t * (100 + percent) >= percent * gross
  BY <1>2, RoundupBounds DEF gross2tax
<1>4. 100 * t >= percent * (gross - t)
  BY <1>3, SMT
<1> QED
  BY <1>1, <1>4 DEF Amounts

-----------------------------------------------------------------------------
(* Requests *)

\* What the callbacks that are still to come rely on.
Accepted ==
  /\ step = "new" => entry = None /\ answer = None
  /\ step # "new" => request \in Input
  /\ step \in {"password", "taxinc", "sender", "recipient"} => Refusal(request) = None
  /\ step \in {"taxinc", "sender", "recipient"} => TransactionRefusal(request) = None
  /\ entry # None => Refusal(request) = None /\ TransactionRefusal(request) = None

Found ==
  /\ step \in {"sender", "recipient"} => taxinc \in Account
  /\ step = "recipient" => sender \in Side

\* The password of a named student was checked before transaction() began, and
\* the sender that is looked up later is this one unless the name moved on.
Authorised ==
  /\ NeedsPassword(request) /\ step \in {"taxinc", "sender", "recipient"} =>
       request.sender # Magic /\ checked # None
  /\ NeedsPassword(request) /\ step \in {"taxinc", "sender"} =>
       Lookup(request.sender) = checked \/ reassigned
  /\ NeedsPassword(request) /\ step = "recipient" => sender = checked \/ reassigned
  /\ NeedsPassword(request) /\ (step = "recipient" \/ entry # None) =>
       sender # NoAccount

IInv ==
  /\ TypeOK /\ Accepted /\ Found /\ Authorised
  /\ EntryGuarantee /\ InDubioProCentralBank /\ DebitsCheckedAccount

LEMMA LookupFinds ==
  ASSUME NEW q, TypeOK, Lookup(q) # None
  PROVE  Lookup(q) \in Account /\ q \in Qrid
<1>1. Owners(q) # {}
  BY DEF Lookup
<1>2. Lookup(q) \in Owners(q)
  BY <1>1 DEF Lookup
<1> QED
  BY <1>2 DEF Owners, Exists, TypeOK, Student

LEMMA LookupType ==
  ASSUME NEW q, TypeOK
  PROVE  Lookup(q) \in Account \cup {None}
BY LookupFinds

LEMMA PercentNat ==
  ASSUME NEW i \in Input, Refusal(i) = None
  PROVE  Percent(i) \in Nat
<1>1. i \in Request
  BY RequestAssumption
<1>2. None \notin {"error", "comment_too_long", "too_many_decplaces"}
  BY RequestAssumption DEF Refused
<1>3. Percent(i) \in Int
  BY <1>1, RequestAssumption DEF Percent, Request, Kind
<1>4. ~(Percent(i) < 0)
  <2>1. CASE NeedsPassword(i)
    BY <2>1, <1>1, RequestAssumption, SMT DEF NeedsPassword, Percent
  <2>2. CASE ~NeedsPassword(i)
    BY <2>2, <1>2 DEF Refusal
  <2> QED
    BY <2>1, <2>2
<1> QED
  BY <1>3, <1>4, SMT

LEMMA AmountsSound ==
  ASSUME NEW i \in Input, TransactionRefusal(i) = None
  PROVE  \/ Given(i.sent) /\ i.sent \in Nat /\ i.sent > 0 /\ i.received = 0
         \/ ~Given(i.sent) /\ Given(i.received) /\ i.received \in Nat /\ i.received > 0
<1>1. None \notin {"underspecified", "overspecified", "invalid_amount"}
  BY RequestAssumption DEF Refused
<1>2. Given(i.sent) \/ Given(i.received)
  BY <1>1 DEF TransactionRefusal
<1>3. ~Given(i.sent) \/ ~Given(i.received)
  BY <1>1, <1>2 DEF TransactionRefusal
<1>4. Given(i.sent) => Sound(i.sent)
  BY <1>1, <1>3 DEF TransactionRefusal
<1>5. Given(i.received) => Sound(i.received)
  BY <1>1, <1>3 DEF TransactionRefusal
<1> QED
  BY <1>2, <1>3, <1>4, <1>5, SMT DEF Given, Sound

\* What LookupRecipient puts into the entry.
LEMMA SplitSound ==
  ASSUME NEW i \in Input, Refusal(i) = None, TransactionRefusal(i) = None,
         NEW s \in Split(i)
  PROVE  /\ s.sent \in Int /\ s.received \in Int /\ s.tax \in Int
         /\ 100 * s.tax >= Percent(i) * s.received
         /\ ~Unrounded(i.sent) =>
              /\ s.sent \in Nat /\ s.received \in Nat /\ s.tax \in Nat
              /\ s.sent = s.received + s.tax
<1> DEFINE p == Percent(i)
<1>1. p \in Nat
  BY PercentNat
<1> HIDE DEF p
<1>2. CASE Given(i.sent) /\ i.sent \in Nat
  <2>1. s \in BySent(i.sent, p)
    BY <1>2 DEF Split, p
  <2>2. PICK t \in gross2tax(i.sent, p) : s = Amounts(i.sent, t)
    BY <2>1 DEF BySent
  <2>3. p * i.sent \in Nat /\ 100 + p \in Nat \ {0}
    BY <1>1, <1>2, SMT
  <2>4. t \in Nat
    BY <2>2, <2>3, RoundupBounds DEF gross2tax
  <2>5. s.sent \in Int /\ s.received \in Int /\ s.tax \in Int
    BY <1>2, <2>2, <2>4, SMT DEF Amounts
  <2>6. 100 * s.tax >= p * s.received
    BY <1>1, <1>2, <2>1, SentFavoursBank
  <2>7. ASSUME ~Unrounded(i.sent)
        PROVE  /\ s.sent \in Nat /\ s.received \in Nat /\ s.tax \in Nat
               /\ s.sent = s.received + s.tax
    <3>1. i.sent % Unit = 0
      BY <1>2, <2>7 DEF Unrounded
    <3>2. PICK m \in Nat : i.sent = Unit * m
      <4>1. i.sent = Unit * (i.sent \div Unit) /\ i.sent \div Unit \in Nat
        BY <1>2, <3>1, UnitAssumption, SMT
      <4> QED
        BY <4>1
    <3> QED
      BY <1>1, <2>1, <3>2, SplitOfSent
  <2> QED
    BY <2>5, <2>6, <2>7 DEF p
<1>3. CASE ~Given(i.sent) /\ i.received \in Nat
  <2>1. s \in ByReceived(i.received, p)
    BY <1>3 DEF Split, p
  <2> QED
    BY <1>1, <1>3, <2>1, SplitOfReceived, SMT DEF p
<1> QED
  BY <1>2, <1>3, AmountsSound

-----------------------------------------------------------------------------
\* Nothing of the request changes once it is answered, and before that there is
\* no entry the properties could speak of.
LEMMA NoEntry ==
  ASSUME entry' = None
  PROVE  EntryGuarantee' /\ InDubioProCentralBank' /\ DebitsCheckedAccount'
BY DEF EntryGuarantee, InDubioProCentralBank, DebitsCheckedAccount

LEMMA InitHolds == Init => IInv
<1> SUFFICES ASSUME Init PROVE IInv
  OBVIOUS
<1>1. TypeOK
  <2>1. students \in [Account -> Student \cup {None, Removed}]
    BY DEF Init, StudentsInit
  <2>2. failures \in 0..MaxFailures
    BY RequestAssumption, SMT DEF Init
  <2> QED
    BY <2>1, <2>2 DEF Init, TypeOK
<1>2. Accepted /\ Found /\ Authorised
  BY DEF Init, Accepted, Found, Authorised
<1>3. EntryGuarantee /\ InDubioProCentralBank /\ DebitsCheckedAccount
  BY DEF Init, EntryGuarantee, InDubioProCentralBank, DebitsCheckedAccount
<1> QED
  BY <1>1, <1>2, <1>3 DEF IInv

\* Refusing ends a request that has no entry yet.
LEMMA RefuseStep ==
  ASSUME IInv, step # "done", NEW why \in Refused, Refuse(why),
         UNCHANGED <<students, found, entry>>,
         request' \in Input,
         checked' \in Account \cup {None}, reassigned' \in BOOLEAN,
         failures' \in 0..MaxFailures
  PROVE  IInv'
<1>1. entry = None /\ answer = None
  BY DEF IInv, TypeOK
<1>2. TypeOK'
  BY <1>1, RequestAssumption DEF IInv, TypeOK, Refuse, found
<1>3. Accepted' /\ Found' /\ Authorised'
  BY <1>1 DEF Refuse, Accepted, Found, Authorised
<1> QED
  BY <1>1, <1>2, <1>3, NoEntry DEF IInv

LEMMA RefusalWords ==
  ASSUME NEW i
  PROVE  /\ Refusal(i) \in Refused \cup {None}
         /\ TransactionRefusal(i) \in Refused \cup {None}
BY DEF Refusal, TransactionRefusal, Refused

LEMMA ArriveStep ==
  ASSUME IInv, NEW i \in Input, Arrive(i)
  PROVE  IInv'
<1>1. /\ step = "new" /\ request' = i /\ entry = None /\ answer = None
      /\ UNCHANGED <<students, found, entry, failures, checked, reassigned>>
  BY DEF Arrive, IInv, Accepted
<1>2. CASE Refusal(i) # None
  <2>1. Refuse(Refusal(i))
    BY <1>2 DEF Arrive
  <2> QED
    BY <1>1, <1>2, <2>1, RefusalWords, RefuseStep DEF IInv, TypeOK
<1>3. CASE Refusal(i) = None /\ NeedsPassword(i)
  <2>1. step' = "password" /\ answer' = answer
    BY <1>3 DEF Arrive
  <2> QED
    BY <1>1, <1>3, <2>1, NoEntry DEF IInv, TypeOK, Accepted, Found, Authorised, found
<1>4. CASE Refusal(i) = None /\ ~NeedsPassword(i)
  <2>1. Begin(i)
    BY <1>4 DEF Arrive
  <2>2. CASE TransactionRefusal(i) # None
    BY <1>1, <2>1, <2>2, RefusalWords, RefuseStep DEF Begin, IInv, TypeOK
  <2>3. CASE TransactionRefusal(i) = None
    <3>1. step' = "taxinc" /\ answer' = answer
      BY <2>1, <2>3 DEF Begin
    <3> QED
      BY <1>1, <1>4, <2>3, <3>1, NoEntry
      DEF IInv, TypeOK, Accepted, Found, Authorised, found
  <2> QED
    BY <2>2, <2>3
<1> QED
  BY <1>2, <1>3, <1>4

LEMMA CheckPasswordStep ==
  ASSUME IInv, CheckPassword
  PROVE  IInv'
<1> DEFINE st == Lookup(request.sender)
<1>1. /\ step = "password" /\ entry = None /\ answer = None
      /\ request \in Input /\ Refusal(request) = None
      /\ UNCHANGED <<students, request, found, entry, failures, reassigned>>
  BY DEF CheckPassword, IInv, TypeOK, Accepted
<1>2. checked \in Account \cup {None} /\ reassigned \in BOOLEAN /\ failures \in 0..MaxFailures
  BY DEF IInv, TypeOK
<1>3. {"invalid_sender", "invalid_password"} \subseteq Refused
  BY DEF Refused
<1>4. CASE st = None
  <2>1. Refuse("invalid_sender") /\ UNCHANGED checked
    BY <1>4 DEF CheckPassword
  <2> QED
    BY <1>1, <1>2, <1>3, <2>1, RefuseStep
<1>5. CASE st # None /\ students[st].password # request.password
  <2>1. Refuse("invalid_password") /\ UNCHANGED checked
    BY <1>5 DEF CheckPassword
  <2> QED
    BY <1>1, <1>2, <1>3, <2>1, RefuseStep
<1>6. CASE st # None /\ students[st].password = request.password
  <2>1. Begin(request) /\ checked' = st
    BY <1>6 DEF CheckPassword
  <2>2. st \in Account /\ request.sender \in Qrid
    BY <1>6, LookupFinds DEF IInv
  <2>3. CASE TransactionRefusal(request) # None
    BY <1>1, <1>2, <2>1, <2>2, <2>3, RefusalWords, RefuseStep DEF Begin
  <2>4. CASE TransactionRefusal(request) = None
    <3>1. step' = "taxinc" /\ answer' = answer
      BY <2>1, <2>4 DEF Begin
    <3>2. Lookup(request.sender)' = st
      BY <1>1 DEF Lookup, Owners, Exists
    <3>3. TypeOK'
      BY <1>1, <2>1, <2>2, <3>1 DEF IInv, TypeOK, found
    <3>4. Accepted' /\ Found'
      BY <1>1, <2>4, <3>1 DEF Accepted, Found
    <3>5. Authorised'
      BY <1>1, <1>6, <2>1, <2>2, <3>1, <3>2, RequestAssumption DEF Authorised
    <3> QED
      BY <1>1, <3>3, <3>4, <3>5, NoEntry DEF IInv
  <2> QED
    BY <2>3, <2>4
<1> QED
  BY <1>4, <1>5, <1>6

LEMMA LookupTaxincStep ==
  ASSUME IInv, LookupTaxinc
  PROVE  IInv'
<1>1. /\ step = "taxinc" /\ entry = None /\ answer = None /\ request \in Input
      /\ UNCHANGED <<students, request, sender, recipient, entry, failures, checked, reassigned>>
  BY DEF LookupTaxinc, IInv, TypeOK, Accepted
<1>2. CASE Lookup(TaxincQrid) = None
  <2>1. Refuse("error") /\ UNCHANGED taxinc
    BY <1>2 DEF LookupTaxinc
  <2> QED
    BY <1>1, <2>1, RefuseStep DEF IInv, TypeOK, found, Refused
<1>3. CASE Lookup(TaxincQrid) # None
  <2>1. taxinc' = Lookup(TaxincQrid) /\ step' = "sender" /\ answer' = answer
    BY <1>3 DEF LookupTaxinc
  <2>2. taxinc' \in Account
    BY <1>3, <2>1, LookupFinds DEF IInv
  <2>3. Lookup(request.sender)' = Lookup(request.sender)
    BY <1>1 DEF Lookup, Owners, Exists
  <2>4. TypeOK'
    BY <1>1, <2>1, <2>2 DEF IInv, TypeOK
  <2>5. Accepted' /\ Found' /\ Authorised'
    BY <1>1, <2>1, <2>2, <2>3 DEF IInv, Accepted, Found, Authorised
  <2> QED
    BY <1>1, <2>4, <2>5, NoEntry DEF IInv
<1> QED
  BY <1>2, <1>3

LEMMA LookupSenderStep ==
  ASSUME IInv, LookupSender
  PROVE  IInv'
<1> DEFINE st == IF request.sender = Magic THEN NoAccount ELSE Lookup(request.sender)
<1>1. /\ step = "sender" /\ entry = None /\ answer = None /\ request \in Input
      /\ UNCHANGED <<students, request, taxinc, recipient, entry, failures, checked, reassigned>>
  BY DEF LookupSender, IInv, TypeOK, Accepted
<1>2. CASE st = None
  <2>1. Refuse("invalid_sender") /\ UNCHANGED sender
    BY <1>2 DEF LookupSender
  <2> QED
    BY <1>1, <2>1, RefuseStep DEF IInv, TypeOK, found, Refused
<1>3. CASE st # None
  <2>1. sender' = st /\ step' = "recipient" /\ answer' = answer
    BY <1>3 DEF LookupSender
  <2>2. sender' \in Side
    BY <1>3, <2>1, LookupType DEF IInv, Side
  <2>3. NeedsPassword(request) =>
          /\ request.sender # Magic /\ checked # None
          /\ sender' \in Account
          /\ sender' = checked \/ reassigned
    BY <1>1, <1>3, <2>1, LookupType DEF IInv, Authorised
  <2>4. TypeOK'
    BY <1>1, <2>1, <2>2 DEF IInv, TypeOK
  <2>5. Accepted' /\ Found'
    BY <1>1, <2>1, <2>2 DEF IInv, Accepted, Found
  <2>6. Authorised'
    BY <1>1, <2>1, <2>3, RequestAssumption DEF Authorised, NeedsPassword
  <2> QED
    BY <1>1, <2>4, <2>5, <2>6, NoEntry DEF IInv
<1> QED
  BY <1>2, <1>3

LEMMA LookupRecipientStep ==
  ASSUME IInv, LookupRecipient
  PROVE  IInv'
<1> DEFINE st == IF request.recipient = Magic THEN NoAccount ELSE Lookup(request.recipient)
<1>1. /\ step = "recipient" /\ entry = None /\ answer = None /\ request \in Input
      /\ Refusal(request) = None /\ TransactionRefusal(request) = None
      /\ UNCHANGED <<students, request, taxinc, sender, failures, checked, reassigned>>
  BY DEF LookupRecipient, IInv, TypeOK, Accepted
<1>2. CASE st = None
  <2>1. Refuse("invalid_recipient") /\ UNCHANGED <<recipient, entry>>
    BY <1>2 DEF LookupRecipient
  <2> QED
    BY <1>1, <2>1, RefuseStep DEF IInv, TypeOK, found, Refused
<1>3. CASE st # None
  <2>1. /\ recipient' = st /\ step' = "done" /\ answer' = answer
        /\ \E s \in Split(request) :
             entry' = [sender |-> sender, recipient |-> st, tax_recipient |-> taxinc,
                       sent |-> s.sent, received |-> s.received, tax |-> s.tax]
    BY <1>3 DEF LookupRecipient
  <2>2. PICK s \in Split(request) :
             entry' = [sender |-> sender, recipient |-> st, tax_recipient |-> taxinc,
                       sent |-> s.sent, received |-> s.received, tax |-> s.tax]
    BY <2>1
  <2>3. /\ entry'.sender = sender /\ entry'.sent = s.sent
        /\ entry'.received = s.received /\ entry'.tax = s.tax
    BY <2>2
  <2> DEFINE p == Percent(request)
  <2>4. /\ s.sent \in Int /\ s.received \in Int /\ s.tax \in Int
        /\ 100 * s.tax >= p * s.received
        /\ ~Unrounded(request.sent) =>
              /\ s.sent \in Nat /\ s.received \in Nat /\ s.tax \in Nat
              /\ s.sent = s.received + s.tax
    BY <1>1, SplitSound
  <2>5. st \in Side /\ sender \in Side /\ taxinc \in Account
    BY <1>1, <1>3, LookupType DEF IInv, Side, Found
  <2>6. entry' \in Entry
    BY <2>2, <2>4, <2>5 DEF Entry
  <2>7. TypeOK'
    BY <1>1, <2>1, <2>5, <2>6, RequestAssumption DEF IInv, TypeOK
  <2>8. Accepted' /\ Found' /\ Authorised'
    BY <1>1, <2>1 DEF IInv, Accepted, Found, Authorised
  <2>9. p' = p
    BY <1>1 DEF Percent
  <2>10. InDubioProCentralBank'
    BY <2>3, <2>4, <2>9 DEF InDubioProCentralBank
  <2>11. EntryGuarantee'
    BY <1>1, <2>3, <2>4 DEF IInv, Authorised, EntryGuarantee, NeedsPassword, Unrounded
  <2>12. DebitsCheckedAccount'
    BY <1>1, <2>3 DEF IInv, Authorised, DebitsCheckedAccount, NeedsPassword
  <2> QED
    BY <2>7, <2>8, <2>10, <2>11, <2>12 DEF IInv
<1> QED
  BY <1>2, <1>3

LEMMA ChangeType ==
  ASSUME TypeOK, Change
  PROVE  students' \in [Account -> Student \cup {None, Removed}]
BY DEF TypeOK, Change, Register, EditQrid, ChangePassword, Delete, Exists, Student

LEMMA OtherRequestStep ==
  ASSUME IInv, OtherRequest
  PROVE  IInv'
<1>1. /\ step # "done" /\ entry = None /\ answer = None
      /\ UNCHANGED <<step, request, found, entry, answer, failures, checked>>
  BY DEF OtherRequest, IInv, TypeOK
<1>2. students' \in [Account -> Student \cup {None, Removed}]
  BY ChangeType DEF IInv, OtherRequest
<1>3. reassigned' = (reassigned \/ (checked # None /\ step \in {"taxinc", "sender"}
                                    /\ Lookup(request.sender)' # checked))
  BY DEF OtherRequest
<1>4. reassigned' \in BOOLEAN /\ (reassigned => reassigned')
  BY <1>3 DEF IInv, TypeOK
<1>5. TypeOK'
  BY <1>1, <1>2, <1>4 DEF IInv, TypeOK, found
<1>6. Accepted' /\ Found'
  BY <1>1 DEF IInv, Accepted, Found, found
<1>7. Authorised'
  BY <1>1, <1>3, <1>4 DEF IInv, Authorised, NeedsPassword, found
<1> QED
  BY <1>1, <1>5, <1>6, <1>7, NoEntry DEF IInv

LEMMA LookupFailsStep ==
  ASSUME IInv, LookupFails
  PROVE  IInv'
<1>1. step # "done" /\ step # "new"
  BY DEF LookupFails
<1>2. request' \in Input /\ failures' \in 0..MaxFailures
  BY RequestAssumption, SMT DEF LookupFails, IInv, TypeOK, Accepted
<1>3. /\ Refuse("error") /\ "error" \in Refused
      /\ UNCHANGED <<students, found, entry, checked, reassigned>>
  BY DEF LookupFails, Refused
<1> QED
  BY <1>1, <1>2, <1>3, RefuseStep DEF IInv, TypeOK

LEMMA UnchangedStep ==
  ASSUME IInv, UNCHANGED vars
  PROVE  IInv'
<1> USE DEF vars
<1>1. TypeOK' /\ Accepted' /\ Found'
  BY DEF IInv, TypeOK, Accepted, Found
<1>2. Authorised'
  BY DEF IInv, Authorised, Lookup, Owners, Exists, NeedsPassword
<1>3. EntryGuarantee' /\ InDubioProCentralBank' /\ DebitsCheckedAccount'
  BY DEF IInv, EntryGuarantee, InDubioProCentralBank, DebitsCheckedAccount,
         Percent, NeedsPassword, Unrounded
<1> QED
  BY <1>1, <1>2, <1>3 DEF IInv

LEMMA NextHolds == IInv /\ [Next]_vars => IInv'
<1> SUFFICES ASSUME IInv, [Next]_vars PROVE IInv'
  OBVIOUS
<1>1. CASE \E i \in Input : Arrive(i)
  BY <1>1, ArriveStep
<1>2. CASE CheckPassword
  BY <1>2, CheckPasswordStep
<1>3. CASE LookupTaxinc
  BY <1>3, LookupTaxincStep
<1>4. CASE LookupSender
  BY <1>4, LookupSenderStep
<1>5. CASE LookupRecipient
  BY <1>5, LookupRecipientStep
<1>6. CASE LookupFails
  BY <1>6, LookupFailsStep
<1>7. CASE OtherRequest
  BY <1>7, OtherRequestStep
<1>8. CASE UNCHANGED vars
  BY <1>8, UnchangedStep
<1> QED
  BY <1>1, <1>2, <1>3, <1>4, <1>5, <1>6, <1>7, <1>8 DEF Next

LEMMA Invariance == Spec => []IInv
BY InitHolds, NextHolds, PTL DEF Spec

-----------------------------------------------------------------------------
\* The variables keep their types, and a request ends either with an entry or
\* with a refusal (the callbacks of transactions.js 281-425).
THEOREM TypeCorrect == Spec => []TypeOK
<1>1. IInv => TypeOK
  BY DEF IInv
<1> QED
  BY <1>1, Invariance, PTL

\* Every announced entry of a rounded amount splits what is sent into what is
\* received and the tax, none of them negative, and a payment that needs a
\* password never debits the magic account (transaction(), lines 281-365).
THEOREM GuaranteesEntry == Spec => []EntryGuarantee
<1>1. IInv => EntryGuarantee
  BY DEF IInv
<1> QED
  BY <1>1, Invariance, PTL

\* Every announced entry of a rounded amount is one that TransactionQueue may be
\* given: this is its EntryAssumption, word for word, of what transaction()
\* hands to the queue (lines 338-365).
THEOREM EntryIsAssumed ==
  Spec => [](entry # None /\ ~Unrounded(request.sent) =>
               /\ entry.sender \in Account \cup {NoAccount}
               /\ entry.recipient \in Account \cup {NoAccount}
               /\ entry.tax_recipient \in Account
               /\ entry.sent \in Nat /\ entry.received \in Nat /\ entry.tax \in Nat
               /\ entry.sent = entry.received + entry.tax)
<1> DEFINE Assumed ==
      entry # None /\ ~Unrounded(request.sent) =>
        /\ entry.sender \in Account \cup {NoAccount}
        /\ entry.recipient \in Account \cup {NoAccount}
        /\ entry.tax_recipient \in Account
        /\ entry.sent \in Nat /\ entry.received \in Nat /\ entry.tax \in Nat
        /\ entry.sent = entry.received + entry.tax
<1>1. IInv => Assumed
  BY DEF IInv, TypeOK, Entry, Side, EntryGuarantee
<1> QED
  BY <1>1, Invariance, PTL

\* Whatever the floating point quotient came out as, the tax covers its
\* percentage of what the recipient gets (HGC_roundup, gross2tax, net2tax).
THEOREM FavoursCentralBank == Spec => []InDubioProCentralBank
<1>1. IInv => InDubioProCentralBank
  BY DEF IInv
<1> QED
  BY <1>1, Invariance, PTL

\* Between the check of the password and the second lookup of the sender any
\* number of other requests may change the students; the debited account is
\* still the checked one unless its QR-ID was given away (lines 310, 419-423).
THEOREM DebitsChecked == Spec => []DebitsCheckedAccount
<1>1. IInv => DebitsCheckedAccount
  BY DEF IInv
<1> QED
  BY <1>1, Invariance, PTL
=============================================================================
