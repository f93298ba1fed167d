---------------------------- MODULE PaymentPagesProofs ----------------------------
(***************************************************************************)
(* The pages that pay: the form of the app, the tables of companies and of *)
(* the bank, and the terminal, for any persons, rows, amounts and numbers  *)
(* of payments.                                                            *)
(***************************************************************************)
EXTENDS AppForm, Batch, Terminal, FiniteSetTheorems, SequenceTheorems, TLAPS

-----------------------------------------------------------------------------
(* Sets as sequences *)

\* A finite set as a sequence has the elements of the set.
LEMMA InSomeOrder ==
  ASSUME NEW S, IsFiniteSet(S)
  PROVE  /\ SetToSeq(S) \in Seq(S) /\ IsInjective(SetToSeq(S))
         /\ \A s \in SetToSeqs(S) : s \in Seq(S)
<1>1. Cardinality(S) \in Nat /\ ExistsBijection(1..Cardinality(S), S)
      BY FS_CardinalityType
<1>2. PICK f : f \in Bijection(1..Cardinality(S), S)
      BY <1>1 DEF ExistsBijection
<1>3. f \in [1..Cardinality(S) -> S] /\ IsInjective(f)
      BY <1>2 DEF Bijection, Injection, Surjection, IsInjective
<1>4. SetToSeq(S) \in [1..Cardinality(S) -> S] /\ IsInjective(SetToSeq(S))
      BY <1>3 DEF SetToSeq
<1>5. \A s \in [1..Cardinality(S) -> S] : s \in Seq(S)
      BY <1>1
<1>6. SetToSeqs(S) \subseteq [1..Cardinality(S) -> S]
      BY DEF SetToSeqs
<1> QED BY <1>4, <1>5, <1>6

LEMMA ElementsFinite ==
  ASSUME NEW T, NEW s \in Seq(T)
  PROVE  IsFiniteSet(ToSet(s)) /\ ToSet(s) \subseteq T
<1>1. s \in Surjection(1..Len(s), ToSet(s))
      BY DEF ToSet, Surjection
<1>2. IsFiniteSet(1..Len(s))
      BY FS_Interval
<1>3. IsFiniteSet(ToSet(s))
      BY <1>1, <1>2, FS_Surjection
<1> QED BY <1>3 DEF ToSet

-----------------------------------------------------------------------------
(* The payment form of the app: one handler or one query under way, and what is *)
(* shown and paid is what was typed. *)

Open == {n \in DOMAIN submissions : submissions[n].open}

\* The confirm button has its handler, or the one query is for what was typed.
Asking ==
  \/ confirm = 1 /\ identifying = {}
  \/ confirm = 0 /\ identifying = {confirmed}

\* The submit button has its handler, or one payment waits for its answer.
Sending ==
  \/ submit = 1 /\ Open = {}
  \/ submit = 0 /\ \E n \in DOMAIN submissions : Open = {n}

\* While the window is open no other payment is being typed or identified.
Shown ==
  /\ amount = confirmed.amount
  /\ window => current_person = confirmed.who /\ confirm = 1

FormInv == FormTypeOK /\ Asking /\ Sending /\ Shown

LEMMA DraftParts ==
  ASSUME NEW d \in Draft
  PROVE  d.who \in Person /\ d.amount \in Amount /\ d = [who |-> d.who, amount |-> d.amount]
BY DEF Draft

LEMMA FormInitInv == FormInit => FormInv
<1> SUFFICES ASSUME FormInit PROVE FormInv
    OBVIOUS
<1>1. typed \in Draft
  <2>1. \E p \in Person, n \in Amount : [who |-> p, amount |-> n] \in Draft
        BY FormAssumption DEF Draft
  <2> QED BY <2>1 DEF FormInit
<1>2. typed.who \in Person /\ typed.amount \in Amount
      BY <1>1, DraftParts
<1>3. submissions \in Seq(Submission)
      BY DEF FormInit
<1>4. FormTypeOK
  <2>1. /\ confirmed \in Draft /\ amount \in Amount /\ current_person \in Person
        /\ window \in BOOLEAN /\ identifying \subseteq Draft
        BY <1>1, <1>2 DEF FormInit
  <2>2. confirm \in 0..1 /\ submit \in 0..1
        BY DEF FormInit
  <2> QED BY <1>1, <1>3, <2>1, <2>2 DEF FormTypeOK
<1>5. Asking /\ Shown
      BY DEF FormInit, Asking, Shown
<1>6. Sending
      BY DEF FormInit, Sending, Open
<1> QED BY <1>4, <1>5, <1>6 DEF FormInv

LEMMA AskInv == FormInv /\ onConfirmClick => FormInv'
<1> SUFFICES ASSUME FormInv, onConfirmClick PROVE FormInv'
    OBVIOUS
<1> USE DEF onConfirmClick, Ask, FormInv
<1>1. confirm = 1 /\ identifying = {} /\ typed \in Draft
      BY DEF Asking, FormTypeOK
<1>2. FormTypeOK'
      BY <1>1, DraftParts DEF FormTypeOK
<1>3. Asking' /\ Shown'
      BY <1>1 DEF Asking, Shown
<1>4. Sending'
      BY DEF Sending, Open
<1> QED BY <1>2, <1>3, <1>4

LEMMA AnswerInv ==
  ASSUME FormInv, NEW d \in Draft, NEW found \in BOOLEAN, ConfirmAnswer(d, found)
  PROVE  FormInv'
<1> USE DEF ConfirmAnswer, FormInv
<1>1. d = confirmed /\ identifying' = {} /\ confirm' = 1
      BY DEF Asking
<1>2. current_person' \in Person /\ window' \in BOOLEAN
      BY DraftParts DEF FormTypeOK
<1>3. FormTypeOK'
      BY <1>1, <1>2 DEF FormTypeOK
<1>4. Asking' /\ Shown'
      BY <1>1 DEF Asking, Shown
<1>5. Sending'
      BY DEF Sending, Open
<1> QED BY <1>3, <1>4, <1>5

LEMMA EditInv ==
  ASSUME FormInv, ConfirmBack \/ \E d \in Draft : Type(d)
  PROVE  FormInv'
<1> USE DEF FormInv, ConfirmBack, Type
<1>1. FormTypeOK'
      BY DEF FormTypeOK
<1>2. Asking' /\ Shown'
      BY DEF Asking, Shown
<1>3. Sending'
      BY DEF Sending, Open
<1> QED BY <1>1, <1>2, <1>3

LEMMA ClickInv == FormInv /\ onSubmitClick => FormInv'
<1> SUFFICES ASSUME FormInv, onSubmitClick PROVE FormInv'
    OBVIOUS
<1> USE DEF onSubmitClick, FormInv
<1> DEFINE new == [pay |-> [who |-> current_person, amount |-> amount],
                   state |-> "sent", open |-> TRUE]
<1>1. new \in Submission /\ new.open
      BY DEF FormTypeOK, Submission, Draft
<1>2. submissions \in Seq(Submission) /\ submissions' = Append(submissions, new)
      BY DEF FormTypeOK
<1> HIDE DEF new
<1>3. FormTypeOK'
      BY <1>1, <1>2 DEF FormTypeOK
<1>4. Open = {}
      BY DEF Sending, FormTypeOK
<1>5. Open' = {Len(submissions) + 1}
      BY <1>1, <1>2, <1>4 DEF Open
<1>6. Sending'
  <2>1. Len(submissions) + 1 \in DOMAIN submissions'
        BY <1>2
  <2> QED BY <1>5, <2>1 DEF Sending
<1> QED BY <1>3, <1>6 DEF Asking, Shown

\* Steps that change one payment.
LEMMA ChangeInv ==
  ASSUME FormInv, NEW n \in DOMAIN submissions, NEW s \in Submission,
         submissions' = [submissions EXCEPT ![n] = s],
         UNCHANGED <<typed, confirmed, identifying, confirm, amount, current_person>>,
         window' \in BOOLEAN, window' => window,
         \/ s.open = submissions[n].open /\ UNCHANGED submit
         \/ s.open = FALSE /\ submissions[n].open = TRUE /\ submit' = submit + 1
  PROVE  FormInv'
<1> USE DEF FormInv
<1>1. submissions \in Seq(Submission)
      BY DEF FormTypeOK
<1>2. /\ DOMAIN submissions' = DOMAIN submissions
      /\ submissions' \in Seq(Submission)
      /\ \A k \in DOMAIN submissions : submissions'[k] = IF k = n THEN s ELSE submissions[k]
      BY <1>1
<1>3. Sending' /\ submit' \in 0..1
  <2>1. CASE s.open = submissions[n].open /\ UNCHANGED submit
    <3>1. Open' = Open
          BY <1>2, <2>1 DEF Open
    <3> QED BY <1>2, <2>1, <3>1 DEF Sending
  <2>2. CASE s.open = FALSE /\ submissions[n].open = TRUE /\ submit' = submit + 1
    <3>1. n \in Open /\ Open' = Open \ {n}
          BY <1>2, <2>2 DEF Open
    <3>2. submit = 0 /\ Open = {n}
          BY <3>1 DEF Sending
    <3> QED BY <2>2, <3>1, <3>2 DEF Sending
  <2> QED BY <2>1, <2>2
<1>4. FormTypeOK'
      BY <1>2, <1>3 DEF FormTypeOK
<1>5. Asking' /\ Shown'
      BY DEF Asking, Shown
<1> QED BY <1>3, <1>4, <1>5

LEMMA SubmissionInv ==
  ASSUME FormInv, NEW n \in DOMAIN submissions,
         \/ \E state \in {"paid", "refused"} : Settle(n, state)
         \/ SubmitAnswer(n) \/ SubmitError(n)
  PROVE  FormInv'
<1>1. submissions[n] \in Submission /\ window \in BOOLEAN
      BY DEF FormInv, FormTypeOK
<1>2. ASSUME NEW state \in {"paid", "refused"}, Settle(n, state) PROVE FormInv'
  <2> DEFINE s == [submissions[n] EXCEPT !.state = state]
  <2>1. s \in Submission /\ s.open = submissions[n].open
        BY <1>1 DEF Submission
  <2>2. submissions' = [submissions EXCEPT ![n] = s]
        BY <1>2 DEF Settle
  <2> HIDE DEF s
  <2> QED BY <1>1, <1>2, <2>1, <2>2, ChangeInv DEF Settle
<1>3. CASE SubmitAnswer(n) \/ SubmitError(n)
  <2> DEFINE s == [submissions[n] EXCEPT !.open = FALSE]
  <2>1. s \in Submission /\ s.open = FALSE
        BY <1>1 DEF Submission
  <2>2. submissions' = [submissions EXCEPT ![n] = s]
        BY <1>3 DEF SubmitAnswer, SubmitError, Lost
  <2>3. /\ submissions[n].open = TRUE
        /\ submit' = submit + 1
        /\ UNCHANGED <<typed, confirmed, identifying, confirm, amount, current_person>>
        BY <1>3 DEF SubmitAnswer, SubmitError, Lost
  <2>4. window' \in BOOLEAN /\ (window' => window)
    <3>1. CASE SubmitAnswer(n)
      <4>1. window' = (window /\ submissions[n].state # "paid")
            BY <3>1 DEF SubmitAnswer
      <4> QED BY ONLY <1>1, <4>1
    <3>2. CASE SubmitError(n)
      <4>1. window' = window
            BY <3>2 DEF SubmitError, Lost
      <4> QED BY ONLY <1>1, <4>1
    <3> QED BY <1>3, <3>1, <3>2
  <2> HIDE DEF s
  <2> QED BY <2>1, <2>2, <2>3, <2>4, ChangeInv
<1> QED BY <1>2, <1>3

LEMMA FormNextInv == FormInv /\ [FormNext]_formVars => FormInv'
<1> SUFFICES ASSUME FormInv, [FormNext]_formVars PROVE FormInv'
    OBVIOUS
<1>1. CASE UNCHANGED formVars
      BY <1>1 DEF formVars, FormInv, FormTypeOK, Asking, Sending, Shown, Open
<1> QED BY <1>1, AskInv, AnswerInv, EditInv, ClickInv, SubmissionInv DEF FormNext

LEMMA FormAlways == FormSpec => []FormInv
<1> QED BY FormInitInv, FormNextInv, PTL DEF FormSpec

\* Each button has its handler or one query under way, however late answers come
\* and whether they come at all: no payment is sent twice, no form is dead.
THEOREM HandlersBalanced == FormSpec => []OneHandler
<1>1. FormInv => OneHandler
  <2> SUFFICES ASSUME FormInv PROVE OneHandler
      OBVIOUS
  <2>0. Cardinality({}) = 0 /\ \A x : Cardinality({x}) = 1
        BY FS_EmptySet, FS_Singleton
  <2>1. confirm + Cardinality(identifying) = 1
    <3>1. CASE confirm = 1 /\ identifying = {}
          BY <2>0, <3>1
    <3>2. CASE confirm = 0 /\ identifying = {confirmed}
      <4>1. Cardinality({confirmed}) = 1
            BY <2>0
      <4>2. Cardinality(identifying) = 1
            BY <3>2, <4>1
      <4> QED BY <3>2, <4>2
    <3> QED BY <3>1, <3>2 DEF FormInv, Asking
  <2>2. submit + Cardinality(Open) = 1
        BY <2>0 DEF FormInv, Sending
  <2> QED BY <2>1, <2>2 DEF OneHandler, Open
<1> QED BY <1>1, FormAlways, PTL

\* What the window shows and submit pays is what was typed when confirm was clicked.
THEOREM ShowsWhatWasTyped == FormSpec => []ShownAsTyped
<1>1. FormInv => ShownAsTyped
      BY DraftParts DEF FormInv, Shown, ShownAsTyped, FormTypeOK
<1> QED BY <1>1, FormAlways, PTL

-----------------------------------------------------------------------------
(* The tables of payments *)

Distinct(rows) == \A i, j \in DOMAIN rows : rows[i].row = rows[j].row => i = j

Elsewhere(r) == \A i \in DOMAIN file : file[i].row # r
NeverSent(r) == \A n \in DOMAIN calls : calls[n].row # r

\* A row is in the table once, and what is still identified is nowhere yet.
Matched ==
  /\ BatchTypeOK
  /\ Distinct(table) /\ Distinct(file)
  /\ \A r \in Row : forms[r] # <<>> =>
       site = "bank" /\ ~Entered(r) /\ Elsewhere(r) /\ NeverSent(r)

\* The calls that were made for the row, and whether start would make the one that
\* it is entitled to.
Sent(r) == {n \in DOMAIN calls : calls[n].row = r}
Waits(r) == \E i \in DOMAIN table : table[i].row = r /\ table[i].state = "pending"
Due(r) == Waits(r) /\ ~Awaited(r)

Counted == \A r \in Row \ strayed :
  Cardinality(Sent(r)) <= resets + again[r] + (IF Due(r) THEN 0 ELSE 1)

\* What the table, or the file, may say of a row, given its calls.
Honest(r, state) ==
  /\ state = "complete" /\ r \notin strayed =>
       \E n \in DOMAIN calls : calls[n].row = r /\ calls[n].outcome = "paid"
  /\ state = "refused" /\ r \notin strayed =>
       \E n \in DOMAIN calls : calls[n].row = r /\ calls[n].outcome = "refused"
  /\ state = "nonsense" => site = "bank" /\ r.kind = "both"

Truthful ==
  /\ \A i \in DOMAIN table : Honest(table[i].row, table[i].state)
  /\ \A i \in DOMAIN file : Honest(file[i].row, file[i].state)
  /\ site = "bank" => \A n \in DOMAIN calls : calls[n].row.kind # "both"

BatchInv == Matched /\ Counted /\ Truthful

LEMMA SentFinite ==
  ASSUME BatchTypeOK, NEW r \in Row
  PROVE  /\ IsFiniteSet(Sent(r)) /\ Cardinality(Sent(r)) \in Nat
         /\ RowPayments(r) \subseteq Sent(r)
         /\ Cardinality(RowPayments(r)) \in Nat
         /\ Cardinality(RowPayments(r)) <= Cardinality(Sent(r))
         /\ (RowPayments(r) # Sent(r) => Cardinality(RowPayments(r)) < Cardinality(Sent(r)))
<1>1. Len(calls) \in Nat /\ DOMAIN calls = 1..Len(calls)
      BY DEF BatchTypeOK
<1>2. IsFiniteSet(DOMAIN calls)
      BY <1>1, FS_Interval
<1>3. Sent(r) \in SUBSET DOMAIN calls /\ RowPayments(r) \in SUBSET Sent(r)
      BY DEF Sent, RowPayments
<1>4. IsFiniteSet(Sent(r)) /\ Cardinality(Sent(r)) \in Nat
      BY <1>2, <1>3, FS_Subset, FS_CardinalityType
<1>5. /\ IsFiniteSet(RowPayments(r)) /\ Cardinality(RowPayments(r)) <= Cardinality(Sent(r))
      /\ Cardinality(RowPayments(r)) = Cardinality(Sent(r)) => RowPayments(r) = Sent(r)
      BY <1>3, <1>4, FS_Subset
<1>6. Cardinality(RowPayments(r)) \in Nat
      BY <1>5, FS_CardinalityType
<1>7. RowPayments(r) # Sent(r) => Cardinality(RowPayments(r)) < Cardinality(Sent(r))
      BY <1>4, <1>5, <1>6
<1> QED BY <1>3, <1>4, <1>5, <1>6, <1>7

LEMMA NoneSent ==
  ASSUME NEW r, NeverSent(r)
  PROVE  Cardinality(Sent(r)) = 0
<1>1. Sent(r) = {}
      BY DEF NeverSent, Sent
<1> QED BY <1>1, FS_EmptySet

LEMMA BatchInitInv == BatchInit => BatchInv
<1> SUFFICES ASSUME BatchInit PROVE BatchInv
    OBVIOUS
<1>1. BatchTypeOK
  <2>1. table \in Seq(TableRow) /\ file \in Seq(TableRow) /\ calls \in Seq(Call)
        BY DEF BatchInit
  <2>2. cert \in BOOLEAN /\ site \in Site
        BY DEF BatchInit
  <2>4. resets \in 0..MaxResets
    <3>1. MaxResets \in Nat
          BY BatchAssumption
    <3> QED BY <3>1 DEF BatchInit
  <2>3. forms \in [Row -> {<<>>, <<"sender">>, <<"recipient">>, <<"sender", "recipient">>}]
        BY DEF BatchInit
  <2>5. again \in [Row -> Nat] /\ strayed \subseteq Row
        BY DEF BatchInit
  <2> QED BY <2>1, <2>2, <2>3, <2>4, <2>5 DEF BatchTypeOK
<1>2. Matched /\ Truthful
      BY <1>1 DEF BatchInit, Matched, Truthful, Distinct
<1>3. Counted
  <2> SUFFICES ASSUME NEW r \in Row
               PROVE  Cardinality(Sent(r)) <= resets + again[r] + (IF Due(r) THEN 0 ELSE 1)
      BY DEF Counted
  <2>1. Cardinality(Sent(r)) = 0
        BY NoneSent DEF BatchInit, NeverSent
  <2>2. resets = 0 /\ again[r] = 0
        BY DEF BatchInit
  <2> QED BY <2>1, <2>2
<1> QED BY <1>2, <1>3 DEF BatchInv

\* What was settled stays settled, and what was said of a row stays justified.
LEMMA HonestStays ==
  ASSUME UNCHANGED site, strayed \subseteq strayed',
         \A n \in DOMAIN calls :
           /\ n \in DOMAIN calls' /\ calls'[n].row = calls[n].row
           /\ calls[n].outcome # "none" => calls'[n].outcome = calls[n].outcome,
         NEW r, NEW state, Honest(r, state)
  PROVE  Honest(r, state)'
BY DEF Honest

\* A step of the page that sends nothing.  What it takes from the table or from the
\* file it may believe.
LEMMA QuietInv ==
  ASSUME BatchInv, BatchTypeOK', UNCHANGED <<site, again>>, strayed \subseteq strayed',
         DOMAIN calls' = DOMAIN calls,
         \A n \in DOMAIN calls :
           /\ calls'[n].row = calls[n].row
           /\ calls[n].outcome # "none" => calls'[n].outcome = calls[n].outcome,
         Distinct(table)', Distinct(file)',
         \A q \in Row : forms'[q] # <<>> =>
           site = "bank" /\ ~Entered(q)' /\ Elsewhere(q)' /\ NeverSent(q),
         resets' \in {resets, resets + 1},
         \A q \in Row \ strayed' : NeverSent(q) \/ resets' = resets + 1 \/ (Due(q)' => Due(q)),
         \A i \in DOMAIN table' :
           \/ \E j \in DOMAIN table : table'[i] = table[j]
           \/ \E j \in DOMAIN file : table'[i] = file[j]
           \/ Honest(table[i].row, table[i].state)',
         file' = file \/ file' = table
  PROVE  BatchInv'
<1>1. BatchTypeOK /\ resets \in Nat /\ \A q \in Row : again[q] \in Nat
      BY DEF BatchInv, Matched, BatchTypeOK
<1>2. \A q \in Row : (NeverSent(q)' <=> NeverSent(q)) /\ Sent(q)' = Sent(q)
      BY DEF NeverSent, Sent
<1>3. Matched'
      BY <1>2 DEF BatchInv, Matched
<1>4. Counted'
  <2> SUFFICES ASSUME NEW r \in Row \ strayed'
               PROVE  Cardinality(Sent(r)') <= resets' + again[r]' + (IF Due(r)' THEN 0 ELSE 1)
      BY DEF Counted
  <2>1. r \in Row \ strayed /\ r \in Row
        OBVIOUS
  <2>2. /\ Cardinality(Sent(r)) \in Nat
        /\ Cardinality(Sent(r)) <= resets + again[r] + (IF Due(r) THEN 0 ELSE 1)
        BY <1>1, <2>1, SentFinite DEF BatchInv, Counted
  <2>3. Sent(r)' = Sent(r) /\ again' = again
        BY <1>2
  <2>4. CASE NeverSent(r)
    <3>1. Cardinality(Sent(r)) = 0
          BY <2>4, NoneSent
    <3> QED BY <1>1, <2>3, <3>1
  <2>5. CASE resets' = resets + 1
        BY <1>1, <2>2, <2>3, <2>5
  <2>6. CASE ~(resets' = resets + 1) /\ (Due(r)' => Due(r))
        BY <1>1, <2>2, <2>3, <2>6
  <2> QED BY <2>4, <2>5, <2>6
<1>5. Truthful'
  <2>1. \A q, s : Honest(q, s) => Honest(q, s)'
    <3> SUFFICES ASSUME NEW q, NEW s, Honest(q, s) PROVE Honest(q, s)'
        OBVIOUS
    <3> QED BY HonestStays
  <2>2. /\ \A i \in DOMAIN table : Honest(table[i].row, table[i].state)
        /\ \A i \in DOMAIN file : Honest(file[i].row, file[i].state)
        BY DEF BatchInv, Truthful
  <2>3. ASSUME NEW i \in DOMAIN table' PROVE Honest(table[i].row, table[i].state)'
    <3>1. ASSUME NEW q, NEW s, Honest(q, s), table'[i].row = q, table'[i].state = s
          PROVE  Honest(table[i].row, table[i].state)'
          BY <2>1, <3>1 DEF Honest
    <3>2. CASE \E j \in DOMAIN table : table'[i] = table[j]
          BY <2>2, <3>1, <3>2
    <3>3. CASE \E j \in DOMAIN file : table'[i] = file[j]
          BY <2>2, <3>1, <3>3
    <3> QED BY <2>3, <3>2, <3>3
  <2>4. ASSUME NEW i \in DOMAIN file' PROVE Honest(file[i].row, file[i].state)'
    <3>1. ASSUME NEW q, NEW s, Honest(q, s), file'[i].row = q, file'[i].state = s
          PROVE  Honest(file[i].row, file[i].state)'
          BY <2>1, <3>1 DEF Honest
    <3> QED BY <2>2, <2>4, <3>1
  <2>5. site' = "bank" => \A n \in DOMAIN calls' : calls'[n].row.kind # "both"
        BY DEF BatchInv, Truthful
  <2> QED BY <2>3, <2>4, <2>5 DEF Truthful
<1> QED BY <1>3, <1>4, <1>5 DEF BatchInv
LEMMA EnterType ==
  ASSUME BatchTypeOK, NEW r \in Row, addCleanTransaction(r)
  PROVE  table' \in Seq(TableRow)
<1>1. [row |-> r, state |-> "pending"] \in TableRow
      BY DEF TableRow
<1> QED BY <1>1 DEF BatchTypeOK, addCleanTransaction

Forms == {<<>>, <<"sender">>, <<"recipient">>, <<"sender", "recipient">>}

LEMMA ToIdentifyForms == \A r \in Row : ToIdentify(r) \in Forms
<1>1. /\ <<"sender">> \in Seq({"sender", "recipient"})
      /\ <<"recipient">> \in Seq({"sender", "recipient"})
      OBVIOUS
<1>2. /\ <<>> \o <<>> = <<>> /\ <<"sender">> \o <<>> = <<"sender">>
      /\ <<>> \o <<"recipient">> = <<"recipient">>
      BY <1>1, EmptySeq, ConcatEmptySeq
<1>3. <<"sender">> \o <<"recipient">> = <<"sender", "recipient">>
  <2> DEFINE s == <<"sender">> \o <<"recipient">>
             t == <<"sender", "recipient">>
  <2>1. s \in Seq({"sender", "recipient"}) /\ Len(s) = 2
        /\ s[1] = "sender" /\ s[2] = "recipient"
        BY <1>1
  <2>2. t \in Seq({"sender", "recipient"}) /\ Len(t) = 2
        /\ t[1] = "sender" /\ t[2] = "recipient"
        OBVIOUS
  <2> HIDE DEF s, t
  <2>3. \A i \in 1..2 : i = 1 \/ i = 2
        OBVIOUS
  <2>4. s = t
        BY <2>1, <2>2, <2>3, SeqEqual
  <2> QED BY <2>4 DEF s, t
<1> QED BY <1>2, <1>3 DEF ToIdentify, Forms


LEMMA TailForms ==
  ASSUME NEW form \in Forms, form # <<>>
  PROVE  Tail(form) \in Forms /\ (Len(form) = 1 => Tail(form) = <<>>)
<1>1. CASE form = <<"sender">> \/ form = <<"recipient">>
  <2>1. Tail(<<"sender">>) = <<>> /\ Tail(<<"recipient">>) = <<>>
        OBVIOUS
  <2> QED BY <1>1, <2>1 DEF Forms
<1>2. CASE form = <<"sender", "recipient">>
  <2>1. Tail(<<"sender", "recipient">>) = <<"recipient">>
        OBVIOUS
  <2>2. Len(<<"sender", "recipient">>) = 2
        OBVIOUS
  <2> QED BY <1>2, <2>1, <2>2 DEF Forms
<1> QED BY <1>1, <1>2 DEF Forms

\* A row is entered that is nowhere yet.
LEMMA EntersInv ==
  ASSUME BatchInv, NEW r \in Row, ~Entered(r), Elsewhere(r), NeverSent(r),
         addCleanTransaction(r), UNCHANGED <<site, cert, file, calls, resets, batchHistory>>,
         BatchTypeOK', forms'[r] = <<>>,
         \A q \in Row : q # r => forms'[q] = forms[q]
  PROVE  BatchInv'
<1> DEFINE new == [row |-> r, state |-> "pending"]
<1>1. table \in Seq(TableRow) /\ new.row = r /\ new.state = "pending"
      BY DEF BatchInv, Matched, BatchTypeOK
<1>2. table' = Append(table, new) /\ UNCHANGED <<again, strayed>>
      BY DEF addCleanTransaction, batchHistory
<1> HIDE DEF new
<1>3. /\ DOMAIN table' = DOMAIN table \cup {Len(table) + 1}
      /\ \A i \in DOMAIN table : table'[i] = table[i]
      /\ table'[Len(table) + 1] = new
      /\ Len(table) + 1 \notin DOMAIN table
      BY <1>1, <1>2
<1>4. Distinct(table)' /\ Distinct(file)'
  <2>1. \A i \in DOMAIN table : table[i].row # r
        BY DEF Entered
  <2> QED BY <1>1, <1>3, <2>1 DEF BatchInv, Matched, Distinct
<1>5. \A q \in Row : q # r => (Entered(q)' <=> Entered(q)) /\ (Waits(q)' <=> Waits(q))
      BY <1>1, <1>3 DEF Entered, Waits
<1>6. ASSUME NEW q \in Row, forms'[q] # <<>>
      PROVE  site = "bank" /\ ~Entered(q)' /\ Elsewhere(q)' /\ NeverSent(q)
  <2>1. q # r /\ forms[q] # <<>>
        BY <1>6
  <2> QED BY <1>5, <2>1 DEF BatchInv, Matched, Elsewhere
<1>7. \A q \in Row : NeverSent(q) \/ (Due(q)' => Due(q))
      BY <1>5 DEF Due, Awaited
<1>8. ASSUME NEW i \in DOMAIN table'
      PROVE  \/ \E j \in DOMAIN table : table'[i] = table[j]
             \/ Honest(table[i].row, table[i].state)'
      BY <1>1, <1>3, <1>8 DEF Honest
<1> QED BY <1>2, <1>4, <1>6, <1>7, <1>8, QuietInv

\* The table and its calls stay as they are.
LEMMA StillInv ==
  ASSUME BatchInv, UNCHANGED <<site, table, calls, resets, batchHistory>>, BatchTypeOK',
         Distinct(file)', file' = file \/ file' = table,
         \A q \in Row : forms'[q] # <<>> =>
           site = "bank" /\ ~Entered(q) /\ Elsewhere(q)' /\ NeverSent(q)
  PROVE  BatchInv'
<1>1. UNCHANGED <<again, strayed>>
      BY DEF batchHistory
<1>2. Distinct(table)'
      BY DEF BatchInv, Matched, Distinct
<1>3. \A q \in Row : (Entered(q)' <=> Entered(q)) /\ (Due(q)' <=> Due(q))
      BY DEF Entered, Due, Waits, Awaited
<1> QED BY <1>1, <1>2, <1>3, QuietInv

LEMMA AddInv ==
  ASSUME BatchInv, NEW r \in Row, AddTransaction(r) \/ AddBankTransaction(r)
  PROVE  BatchInv'
<1>1. BatchTypeOK /\ forms \in [Row -> Forms]
      BY DEF BatchInv, Matched, BatchTypeOK, Forms
<1>2. ~Entered(r) /\ Elsewhere(r) /\ NeverSent(r)
      BY DEF AddTransaction, AddBankTransaction, Fresh, Elsewhere, NeverSent
<1>3. forms[r] = <<>>
      BY DEF AddTransaction, AddBankTransaction, BatchInv, Matched, Fresh
<1>4. UNCHANGED <<site, cert, file, calls, resets, batchHistory>>
      BY DEF AddTransaction, AddBankTransaction
<1>5. CASE addCleanTransaction(r) /\ forms' = forms
  <2>1. BatchTypeOK'
        BY <1>1, <1>4, <1>5, EnterType DEF batchHistory, BatchTypeOK
  <2> QED BY <1>2, <1>3, <1>4, <1>5, <2>1, EntersInv
<1>6. CASE AddBankTransaction(r)
  <2>1. ToIdentify(r) \in Forms
        BY ToIdentifyForms
  <2>2. forms' = [forms EXCEPT ![r] = ToIdentify(r)] /\ site = "bank"
        BY <1>6 DEF AddBankTransaction
  <2>3. /\ forms' \in [Row -> Forms] /\ forms'[r] = ToIdentify(r)
        /\ \A q \in Row : q # r => forms'[q] = forms[q]
        BY <1>1, <2>1, <2>2
  <2>4. CASE ToIdentify(r) = <<>>
    <3>1. addCleanTransaction(r)
          BY <1>6, <2>4 DEF AddBankTransaction
    <3>2. BatchTypeOK'
          BY <1>1, <1>4, <2>3, <3>1, EnterType DEF batchHistory, BatchTypeOK, Forms
    <3> QED BY <1>2, <1>4, <2>3, <2>4, <3>1, <3>2, EntersInv
  <2>5. CASE ToIdentify(r) # <<>>
    <3>1. UNCHANGED table
          BY <1>6, <2>5 DEF AddBankTransaction
    <3>2. BatchTypeOK'
          BY <1>1, <1>4, <2>3, <3>1 DEF batchHistory, BatchTypeOK, Forms
    <3>3. Distinct(file)' /\ \A q \in Row : Elsewhere(q)' <=> Elsewhere(q)
          BY <1>4 DEF BatchInv, Matched, Distinct, Elsewhere
    <3>4. \A q \in Row : forms'[q] # <<>> =>
            site = "bank" /\ ~Entered(q) /\ Elsewhere(q) /\ NeverSent(q)
          BY <1>2, <2>2, <2>3 DEF BatchInv, Matched
    <3> QED BY <1>4, <3>1, <3>2, <3>3, <3>4, StillInv
  <2> QED BY <2>4, <2>5
<1> QED BY <1>3, <1>5, <1>6 DEF AddTransaction

LEMMA IdentifiedInv ==
  ASSUME BatchInv, NEW r \in Row, NEW found \in BOOLEAN, Identified(r, found)
  PROVE  BatchInv'
<1>1. BatchTypeOK /\ forms \in [Row -> Forms]
      BY DEF BatchInv, Matched, BatchTypeOK, Forms
<1>2. forms[r] # <<>> /\ UNCHANGED <<site, cert, file, calls, resets, batchHistory>>
      BY DEF Identified
<1>3. ~Entered(r) /\ Elsewhere(r) /\ NeverSent(r)
      BY <1>2 DEF BatchInv, Matched
<1>4. Tail(forms[r]) \in Forms /\ (Len(forms[r]) = 1 => Tail(forms[r]) = <<>>)
      BY <1>1, <1>2, TailForms
<1>5. \E rest \in Forms : forms' = [forms EXCEPT ![r] = rest]
  <2>1. <<>> \in Forms
        BY DEF Forms
  <2> QED BY <1>4, <2>1 DEF Identified
<1>6. /\ forms' \in [Row -> Forms]
      /\ \A q \in Row : q # r => forms'[q] = forms[q]
      BY <1>1, <1>5
<1>7. CASE addCleanTransaction(r) /\ forms'[r] = <<>>
  <2>1. BatchTypeOK'
        BY <1>1, <1>2, <1>6, <1>7, EnterType DEF batchHistory, BatchTypeOK, Forms
  <2> QED BY <1>2, <1>3, <1>6, <1>7, <2>1, EntersInv
<1>8. CASE UNCHANGED table
  <2>1. BatchTypeOK'
        BY <1>1, <1>2, <1>6, <1>8 DEF batchHistory, BatchTypeOK, Forms
  <2>2. Distinct(file)' /\ \A q \in Row : Elsewhere(q)' <=> Elsewhere(q)
        BY <1>2 DEF BatchInv, Matched, Distinct, Elsewhere
  <2>3. \A q \in Row : forms'[q] # <<>> => forms[q] # <<>>
        BY <1>2, <1>6
  <2>4. \A q \in Row : forms'[q] # <<>> =>
          site = "bank" /\ ~Entered(q) /\ Elsewhere(q) /\ NeverSent(q)
        BY <2>3 DEF BatchInv, Matched
  <2> QED BY <1>2, <1>8, <2>1, <2>2, <2>4, StillInv
<1>9. \/ UNCHANGED table
      \/ addCleanTransaction(r) /\ forms'[r] = <<>>
      BY <1>1, <1>4 DEF Identified
<1> QED BY <1>7, <1>8, <1>9

LEMMA FilesInv == BatchInv /\ (ChooseCert \/ Download) => BatchInv'
<1> SUFFICES ASSUME BatchInv, ChooseCert \/ Download PROVE BatchInv'
    OBVIOUS
<1>1. /\ UNCHANGED <<site, table, forms, calls, resets, batchHistory>>
      /\ file' = file \/ file' = table
      BY DEF ChooseCert, Download
<1>2. cert' \in BOOLEAN
      BY DEF ChooseCert, Download, BatchInv, Matched, BatchTypeOK
<1>3. BatchTypeOK'
      BY <1>1, <1>2 DEF batchHistory, BatchInv, Matched, BatchTypeOK
<1>4. Distinct(file)'
      BY <1>1 DEF BatchInv, Matched, Distinct
<1>5. \A q \in Row : Elsewhere(q) /\ ~Entered(q) => Elsewhere(q)'
      BY <1>1 DEF Elsewhere, Entered
<1>6. \A q \in Row : forms'[q] # <<>> =>
        site = "bank" /\ ~Entered(q) /\ Elsewhere(q)' /\ NeverSent(q)
      BY <1>1, <1>5 DEF BatchInv, Matched
<1> QED BY <1>1, <1>3, <1>4, <1>6, StillInv

\* start sends each of the rows once, after everything that was sent before.
LEMMA SendEffect ==
  ASSUME BatchTypeOK, NEW due \in SUBSET DOMAIN table, Send(due)
  PROVE  /\ calls' \in Seq(Call)
         /\ Len(calls) <= Len(calls')
         /\ \A n \in DOMAIN calls : n \in DOMAIN calls' /\ calls'[n] = calls[n]
         /\ \A n \in DOMAIN calls' \ DOMAIN calls :
              /\ calls'[n].tid \in due /\ calls'[n].row = table[calls'[n].tid].row
              /\ calls'[n].outcome = "none" /\ calls'[n].open = TRUE
         /\ \A m, n \in DOMAIN calls' \ DOMAIN calls :
              calls'[m].tid = calls'[n].tid => m = n
<1> DEFINE order == SetToSeq(due)
           sent == [k \in DOMAIN order |->
             [tid |-> order[k], row |-> table[order[k]].row, outcome |-> "none", open |-> TRUE]]
<1>1. table \in Seq(TableRow) /\ calls \in Seq(Call)
      BY DEF BatchTypeOK
<1>2. DOMAIN table = 1..Len(table) /\ Len(table) \in Nat
      BY <1>1
<1>3. IsFiniteSet(due)
  <2>1. IsFiniteSet(DOMAIN table)
        BY <1>2, FS_Interval
  <2> QED BY <2>1, FS_Subset
<1>4. order \in Seq(due) /\ IsInjective(order)
      BY <1>3, InSomeOrder
<1>5. calls' = calls \o sent
      BY DEF Send
<1> HIDE DEF order
<1>6. DOMAIN order = 1..Len(order) /\ Len(order) \in Nat /\ \A k \in DOMAIN order : order[k] \in due
      BY <1>4
<1>7. \A k \in DOMAIN order :
        /\ sent[k].tid = order[k] /\ sent[k].row = table[order[k]].row
        /\ sent[k].outcome = "none" /\ sent[k].open = TRUE
      OBVIOUS
<1>8. \A k \in DOMAIN order : sent[k] \in Call
  <2> SUFFICES ASSUME NEW k \in DOMAIN order PROVE sent[k] \in Call
      OBVIOUS
  <2>1. order[k] \in DOMAIN table /\ order[k] \in Nat
        BY <1>2, <1>6
  <2>2. table[order[k]].row \in Row
    <3>1. table[order[k]] \in TableRow
          BY <1>1, <2>1
    <3> QED BY <3>1 DEF TableRow
  <2> QED BY <2>1, <2>2 DEF Call
<1>9. DOMAIN sent = DOMAIN order
      OBVIOUS
<1> HIDE DEF sent
<1>10. sent \in Seq(Call) /\ Len(sent) = Len(order)
  <2>1. sent \in [1..Len(order) -> Call]
    <3>1. sent = [k \in DOMAIN order |-> sent[k]]
          BY <1>9 DEF sent
    <3> QED BY <1>6, <1>8, <3>1
  <2> QED BY <1>6, <2>1
<1>11. /\ calls' \in Seq(Call) /\ Len(calls') = Len(calls) + Len(order)
       /\ \A n \in 1..Len(calls) + Len(order) :
            calls'[n] = IF n <= Len(calls) THEN calls[n] ELSE sent[n - Len(calls)]
  <2>1. /\ calls \o sent \in Seq(Call) /\ Len(calls \o sent) = Len(calls) + Len(sent)
        /\ \A n \in 1..Len(calls) + Len(sent) :
             (calls \o sent)[n] = IF n <= Len(calls) THEN calls[n] ELSE sent[n - Len(calls)]
        BY <1>1, <1>10, ConcatProperties
  <2> QED BY <1>5, <1>10, <2>1
<1>12. /\ DOMAIN calls = 1..Len(calls) /\ Len(calls) \in Nat
       /\ DOMAIN calls' = 1..Len(calls')
       BY <1>1, <1>11
<1>13. \A n \in DOMAIN calls : n \in DOMAIN calls' /\ calls'[n] = calls[n]
       BY <1>6, <1>11, <1>12
<1>14. \A n \in DOMAIN calls' \ DOMAIN calls :
         n - Len(calls) \in DOMAIN order /\ calls'[n] = sent[n - Len(calls)]
       BY <1>6, <1>11, <1>12
<1>15. \A n \in DOMAIN calls' \ DOMAIN calls :
         /\ calls'[n].tid \in due /\ calls'[n].row = table[calls'[n].tid].row
         /\ calls'[n].outcome = "none" /\ calls'[n].open = TRUE
       BY <1>6, <1>7, <1>14
<1>16. \A m, n \in DOMAIN calls' \ DOMAIN calls :
         calls'[m].tid = calls'[n].tid => m = n
  <2> SUFFICES ASSUME NEW m \in DOMAIN calls' \ DOMAIN calls,
                      NEW n \in DOMAIN calls' \ DOMAIN calls,
                      calls'[m].tid = calls'[n].tid
               PROVE  m = n
      OBVIOUS
  <2>1. order[m - Len(calls)] = order[n - Len(calls)]
        BY <1>7, <1>14
  <2>2. m - Len(calls) = n - Len(calls)
        BY <1>4, <1>14, <2>1 DEF IsInjective
  <2> QED BY <1>12, <2>2
<1>17. Len(calls) <= Len(calls')
       BY <1>6, <1>11, <1>12
<1> QED BY <1>11, <1>13, <1>15, <1>16, <1>17

\* A row that is sent had its query due, or is counted as sent again.
LEMMA SendsInv ==
  ASSUME BatchInv, NEW due \in SUBSET {i \in DOMAIN table : Pending(i)},
         Send(due), UNCHANGED <<site, cert, file, forms, resets>>,
         site = "bank" => \A i \in due : table[i].row.kind # "both",
         table' \in Seq(TableRow), DOMAIN table' = DOMAIN table,
         \A i \in DOMAIN table :
           /\ table'[i].row = table[i].row
           /\ \/ table'[i].state = table[i].state
              \/ table'[i].state = "nonsense" /\ site = "bank" /\ table[i].row.kind = "both"
  PROVE  BatchInv'
<1> DEFINE New == DOMAIN calls' \ DOMAIN calls
           Hit(r) == \E i \in due : table[i].row = r
<1>1. /\ BatchTypeOK /\ Distinct(table) /\ resets \in Nat
      /\ again \in [Row -> Nat] /\ table \in Seq(TableRow)
      BY DEF BatchInv, Matched, BatchTypeOK
<1>2. due \in SUBSET DOMAIN table /\ \A i \in due : table[i].state = "pending"
      BY DEF Pending
<1>3. /\ calls' \in Seq(Call)
      /\ \A n \in DOMAIN calls : n \in DOMAIN calls' /\ calls'[n] = calls[n]
      /\ \A n \in New :
           /\ calls'[n].tid \in due /\ calls'[n].row = table[calls'[n].tid].row
           /\ calls'[n].outcome = "none" /\ calls'[n].open = TRUE
      /\ \A m, n \in New : calls'[m].tid = calls'[n].tid => m = n
      BY <1>1, <1>2, SendEffect
<1>4. /\ strayed' = strayed
      /\ again' = [r \in Row |-> IF Awaited(r) /\ Hit(r) THEN again[r] + 1 ELSE again[r]]
      BY DEF Send
<1>5. ASSUME NEW m \in New, NEW n \in New, calls'[m].row = calls'[n].row PROVE m = n
  <2> DEFINE i == calls'[m].tid
             j == calls'[n].tid
  <2>1. i \in DOMAIN table /\ j \in DOMAIN table /\ table[i].row = table[j].row
        BY <1>2, <1>3, <1>5
  <2>2. i = j
        BY <1>1, <2>1 DEF Distinct
  <2> QED BY <1>3, <2>2
<1>6. \A n \in New : n \in DOMAIN calls' /\ Hit(calls'[n].row)
      BY <1>3
<1>7. \A n \in DOMAIN calls' : n \in DOMAIN calls \/ n \in New
      OBVIOUS
<1> HIDE DEF New
<1>8. \A r \in Row : Hit(r) => Entered(r) /\ Waits(r)
      BY <1>2 DEF Entered, Waits
<1>9. \A r \in Row : /\ again'[r] \in Nat /\ again'[r] >= again[r]
                     /\ (Awaited(r) /\ Hit(r) => again'[r] = again[r] + 1)
      BY <1>1, <1>4
<1>10. \A r \in Row : Awaited(r) => Awaited(r)'
       BY <1>3 DEF Awaited
<1> HIDE DEF Hit
<1>11. Matched'
  <2>1. BatchTypeOK'
    <3>1. again' \in [Row -> Nat]
          BY <1>1, <1>4
    <3> QED BY <1>1, <1>3, <1>4, <3>1 DEF BatchTypeOK
  <2>2. Distinct(table)' /\ Distinct(file)'
        BY DEF BatchInv, Matched, Distinct
  <2>3. ASSUME NEW r \in Row, forms'[r] # <<>>
        PROVE  site' = "bank" /\ ~Entered(r)' /\ Elsewhere(r)' /\ NeverSent(r)'
    <3>1. site = "bank" /\ ~Entered(r) /\ Elsewhere(r) /\ NeverSent(r)
          BY <2>3 DEF BatchInv, Matched
    <3>2. \A n \in New : calls'[n].row # r
          BY <1>6, <1>8, <3>1
    <3>3. ~Entered(r)' /\ Elsewhere(r)'
          BY <3>1 DEF Entered, Elsewhere
    <3>4. NeverSent(r)'
          BY <1>3, <1>7, <3>1, <3>2 DEF NeverSent
    <3> QED BY <3>1, <3>3, <3>4
  <2> QED BY <2>1, <2>2, <2>3 DEF Matched
<1>12. \A r \in Row : Waits(r)' => Waits(r)
       BY DEF Waits
<1>13. Counted'
  <2> SUFFICES ASSUME NEW r \in Row, r \notin strayed
               PROVE  Cardinality(Sent(r)') <= resets + again'[r] + (IF Due(r)' THEN 0 ELSE 1)
      BY <1>4 DEF Counted
  <2>1. /\ IsFiniteSet(Sent(r)) /\ Cardinality(Sent(r)) \in Nat
        /\ Cardinality(Sent(r)) <= resets + again[r] + (IF Due(r) THEN 0 ELSE 1)
        BY <1>1, SentFinite DEF BatchInv, Counted
  <2>2. again[r] \in Nat /\ again'[r] \in Nat /\ again'[r] >= again[r]
        BY <1>1, <1>9
  <2>3. CASE \E n \in New : calls'[n].row = r
    <3>1. PICK n \in New : calls'[n].row = r
          BY <2>3
    <3>2. n \in DOMAIN calls' /\ calls'[n].open /\ Hit(r) /\ Waits(r)
          BY <1>3, <1>6, <1>8, <3>1
    <3>3. ~Due(r)'
          BY <3>1, <3>2 DEF Due, Awaited
    <3>4. Sent(r)' \in SUBSET (Sent(r) \cup {n})
      <4>1. \A m \in Sent(r)' : m \in DOMAIN calls => m \in Sent(r)
            BY <1>3 DEF Sent
      <4>2. \A m \in Sent(r)' : m \in New => m = n
            BY <1>5, <3>1 DEF Sent
      <4>3. \A m \in Sent(r)' : m \in DOMAIN calls'
            BY DEF Sent
      <4> QED BY <1>7, <4>1, <4>2, <4>3
    <3>5. /\ IsFiniteSet(Sent(r) \cup {n})
          /\ Cardinality(Sent(r) \cup {n}) <= Cardinality(Sent(r)) + 1
          /\ Cardinality(Sent(r) \cup {n}) \in Nat
      <4>1. /\ IsFiniteSet(Sent(r) \cup {n})
            /\ Cardinality(Sent(r) \cup {n}) =
                 IF n \in Sent(r) THEN Cardinality(Sent(r)) ELSE Cardinality(Sent(r)) + 1
            BY <2>1, FS_AddElement
      <4> QED BY <2>1, <4>1
    <3>6. Cardinality(Sent(r)') <= Cardinality(Sent(r) \cup {n}) /\ Cardinality(Sent(r)') \in Nat
          BY <3>4, <3>5, FS_Subset, FS_CardinalityType
    <3>7. CASE Awaited(r)
      <4>1. again'[r] = again[r] + 1
            BY <1>9, <3>2, <3>7
      <4>2. Cardinality(Sent(r)) <= resets + again[r] + 1
            BY <1>1, <2>1, <2>2
      <4> QED BY <1>1, <2>1, <2>2, <3>3, <3>5, <3>6, <4>1, <4>2
    <3>8. CASE ~Awaited(r)
      <4>1. Due(r)
            BY <3>2, <3>8 DEF Due
      <4> QED BY <1>1, <2>1, <2>2, <3>3, <3>5, <3>6, <4>1
    <3> QED BY <3>7, <3>8
  <2>4. CASE ~\E n \in New : calls'[n].row = r
    <3>1. Sent(r)' = Sent(r)
          BY <1>3, <1>7, <2>4 DEF Sent
    <3>2. Due(r)' => Due(r)
          BY <1>10, <1>12 DEF Due
    <3> QED BY <1>1, <2>1, <2>2, <3>1, <3>2
  <2> QED BY <2>3, <2>4
<1>14. Truthful'
  <2>1. \A q, s : Honest(q, s) => Honest(q, s)'
    <3> SUFFICES ASSUME NEW q, NEW s, Honest(q, s) PROVE Honest(q, s)'
        OBVIOUS
    <3> QED BY <1>3, <1>4, HonestStays
  <2>2. /\ \A i \in DOMAIN table : Honest(table[i].row, table[i].state)
        /\ \A i \in DOMAIN file : Honest(file[i].row, file[i].state)
        BY DEF BatchInv, Truthful
  <2>3. ASSUME NEW i \in DOMAIN table' PROVE Honest(table[i].row, table[i].state)'
    <3>1. i \in DOMAIN table /\ table'[i].row = table[i].row
          BY <2>3
    <3>2. CASE table'[i].state = table[i].state
      <4>1. ASSUME NEW q, NEW s, Honest(q, s), table'[i].row = q, table'[i].state = s
            PROVE  Honest(table[i].row, table[i].state)'
        <5>1. Honest(q, s)'
              BY <2>1, <4>1
        <5> QED BY ONLY <4>1, <5>1 DEF Honest
      <4> QED BY <2>2, <3>1, <3>2, <4>1
    <3>3. CASE table'[i].state = "nonsense" /\ site = "bank" /\ table[i].row.kind = "both"
          BY <3>1, <3>3 DEF Honest
    <3> QED BY <3>1, <3>2, <3>3
  <2>4. \A i \in DOMAIN file' : Honest(file[i].row, file[i].state)'
    <3> SUFFICES ASSUME NEW i \in DOMAIN file PROVE Honest(file[i].row, file[i].state)'
        OBVIOUS
    <3>1. ASSUME NEW q, NEW s, Honest(q, s), file[i].row = q, file[i].state = s
          PROVE  Honest(file[i].row, file[i].state)'
          BY <2>1, <3>1 DEF Honest
    <3> QED BY <2>2, <3>1
  <2>5. site = "bank" => \A n \in DOMAIN calls' : calls'[n].row.kind # "both"
        BY <1>3, <1>7 DEF BatchInv, Truthful
  <2> QED BY <2>3, <2>4, <2>5 DEF Truthful
<1> QED BY <1>11, <1>13, <1>14 DEF BatchInv

LEMMA StartInv == BatchInv /\ (StartBusiness \/ StartBank) => BatchInv'
<1> SUFFICES ASSUME BatchInv, StartBusiness \/ StartBank PROVE BatchInv'
    OBVIOUS
<1>1. table \in Seq(TableRow)
      BY DEF BatchInv, Matched, BatchTypeOK
<1>2. CASE StartBusiness
  <2> DEFINE due == {i \in DOMAIN table : Pending(i) /\ (table[i].row.kind = "taxfree" => cert)}
  <2>1. due \in SUBSET {i \in DOMAIN table : Pending(i)}
        OBVIOUS
  <2>2. Send(due) /\ UNCHANGED <<site, cert, table, file, forms, resets>> /\ site # "bank"
        BY <1>2 DEF StartBusiness
  <2> HIDE DEF due
  <2> QED BY <1>1, <2>1, <2>2, SendsInv
<1>3. CASE StartBank
  <2> DEFINE due == {i \in DOMAIN table : Pending(i) /\ table[i].row.kind # "both"}
             marked(i) == IF Pending(i) /\ table[i].row.kind = "both"
                            THEN [table[i] EXCEPT !.state = "nonsense"] ELSE table[i]
  <2>1. /\ due \in SUBSET {i \in DOMAIN table : Pending(i)}
        /\ \A i \in due : table[i].row.kind # "both"
        OBVIOUS
  <2>2. Send(due) /\ UNCHANGED <<site, cert, file, forms, resets>> /\ site = "bank"
        BY <1>3 DEF StartBank
  <2>3. table' = [i \in DOMAIN table |-> marked(i)]
        BY <1>3 DEF StartBank
  <2>4. ASSUME NEW i \in DOMAIN table
        PROVE  /\ marked(i) \in TableRow /\ marked(i).row = table[i].row
               /\ \/ marked(i).state = table[i].state
                  \/ marked(i).state = "nonsense" /\ table[i].row.kind = "both"
    <3>1. table[i] \in TableRow
          BY <1>1
    <3>2. CASE Pending(i) /\ table[i].row.kind = "both"
      <4>1. marked(i) = [table[i] EXCEPT !.state = "nonsense"]
            BY <3>2
      <4> HIDE DEF marked
      <4> QED BY <3>1, <3>2, <4>1 DEF TableRow
    <3>3. CASE ~(Pending(i) /\ table[i].row.kind = "both")
          BY <3>1, <3>3
    <3> QED BY <3>2, <3>3
  <2> HIDE DEF due, marked
  <2>5. table' \in Seq(TableRow) /\ DOMAIN table' = DOMAIN table
    <3>1. table' \in [1..Len(table) -> TableRow] /\ Len(table) \in Nat
          BY <1>1, <2>3, <2>4
    <3> QED BY <1>1, <3>1
  <2> QED BY <1>1, <2>1, <2>2, <2>3, <2>4, <2>5, SendsInv
<1> QED BY <1>2, <1>3

-----------------------------------------------------------------------------
(* The tables of payments: what is served and answered *)

LEMMA OutcomeChange ==
  ASSUME NEW c \in Call, NEW outcome \in {"paid", "refused"}
  PROVE  /\ [c EXCEPT !.outcome = outcome] \in Call
         /\ [c EXCEPT !.outcome = outcome].tid = c.tid
         /\ [c EXCEPT !.outcome = outcome].row = c.row
         /\ [c EXCEPT !.outcome = outcome].open = c.open
         /\ [c EXCEPT !.outcome = outcome].outcome = outcome
BY DEF Call

LEMMA Closing ==
  ASSUME NEW c \in Call
  PROVE  /\ [c EXCEPT !.open = FALSE] \in Call
         /\ [c EXCEPT !.open = FALSE].tid = c.tid
         /\ [c EXCEPT !.open = FALSE].row = c.row
         /\ [c EXCEPT !.open = FALSE].outcome = c.outcome
         /\ [c EXCEPT !.open = FALSE].open = FALSE
BY DEF Call

LEMMA CallStep ==
  ASSUME BatchTypeOK, NEW n \in DOMAIN calls, NEW next \in Call,
         calls' = [calls EXCEPT ![n] = next]
  PROVE  /\ calls' \in Seq(Call) /\ DOMAIN calls' = DOMAIN calls
         /\ \A m \in DOMAIN calls : calls'[m] = IF m = n THEN next ELSE calls[m]
<1>1. calls \in Seq(Call)
      BY DEF BatchTypeOK
<1> QED BY <1>1, ExceptSeq

LEMMA ServeInv ==
  ASSUME BatchInv, NEW n \in DOMAIN calls, NEW outcome \in {"paid", "refused"},
         Serve(n, outcome)
  PROVE  BatchInv'
<1>1. BatchTypeOK /\ resets \in Nat
      BY DEF BatchInv, Matched, BatchTypeOK
<1> DEFINE next == [calls[n] EXCEPT !.outcome = outcome]
<1>2. calls[n] \in Call
      BY <1>1 DEF BatchTypeOK
<1>3. /\ next \in Call /\ next.tid = calls[n].tid /\ next.row = calls[n].row
      /\ next.open = calls[n].open /\ next.outcome = outcome
      BY <1>2, OutcomeChange
<1>4. calls' = [calls EXCEPT ![n] = next]
      BY DEF Serve
<1> HIDE DEF next
<1>5. /\ calls' \in Seq(Call) /\ DOMAIN calls' = DOMAIN calls
      /\ \A m \in DOMAIN calls : calls'[m] = IF m = n THEN next ELSE calls[m]
      BY <1>1, <1>3, <1>4, CallStep
<1>6. \A m \in DOMAIN calls :
        /\ calls'[m].row = calls[m].row /\ calls'[m].open = calls[m].open
        /\ calls[m].outcome # "none" => calls'[m].outcome = calls[m].outcome
      BY <1>3, <1>5 DEF Serve
<1>7. UNCHANGED <<site, cert, table, file, forms, resets, again, strayed>>
      BY DEF Serve, batchHistory
<1>8. \A r : (Due(r)' <=> Due(r)) /\ (Entered(r)' <=> Entered(r)) /\ (Elsewhere(r)' <=> Elsewhere(r))
      BY <1>5, <1>6, <1>7 DEF Due, Awaited, Waits, Entered, Elsewhere
<1>9. BatchTypeOK' /\ Distinct(table)' /\ Distinct(file)'
      BY <1>1, <1>5, <1>7 DEF BatchTypeOK, BatchInv, Matched, Distinct
<1>10. \A q \in Row : forms'[q] # <<>> =>
         site = "bank" /\ ~Entered(q)' /\ Elsewhere(q)' /\ NeverSent(q)
       BY <1>7, <1>8 DEF BatchInv, Matched
<1> QED BY <1>5, <1>6, <1>7, <1>8, <1>9, <1>10, QuietInv

\* An answer, or none in time, marks a row: its own, or both rows have strayed.
LEMMA CloseInv ==
  ASSUME BatchInv, NEW n \in DOMAIN calls,
         NEW s \in {"complete", "refused", "unknown"}, Close(n, s),
         s = "complete" => calls[n].outcome = "paid",
         s = "refused" => calls[n].outcome = "refused"
  PROVE  BatchInv'
<1>1. BatchTypeOK /\ resets \in Nat /\ table \in Seq(TableRow) /\ Distinct(table)
      BY DEF BatchInv, Matched, BatchTypeOK
<1> DEFINE next == [calls[n] EXCEPT !.open = FALSE]
           tid == calls[n].tid
<1>2. calls[n] \in Call
      BY <1>1 DEF BatchTypeOK
<1>3. /\ next \in Call /\ next.row = calls[n].row
      /\ next.open = FALSE /\ next.outcome = calls[n].outcome
      BY <1>2, Closing
<1>4. /\ calls' = [calls EXCEPT ![n] = next] /\ Mark(tid, s)
      /\ strayed' = strayed \cup Astray(n)
      /\ UNCHANGED <<site, cert, file, forms, resets, again>>
      BY DEF Close
<1> HIDE DEF next
<1>5. /\ calls' \in Seq(Call) /\ DOMAIN calls' = DOMAIN calls
      /\ \A m \in DOMAIN calls : calls'[m] = IF m = n THEN next ELSE calls[m]
      BY <1>1, <1>3, <1>4, CallStep
<1>6. /\ \A m \in DOMAIN calls :
           /\ calls'[m].row = calls[m].row /\ calls'[m].outcome = calls[m].outcome
      /\ \A m \in DOMAIN calls : m # n => calls'[m].open = calls[m].open
      BY <1>3, <1>5
<1> HIDE DEF tid
<1>7. /\ table' \in Seq(TableRow) /\ DOMAIN table' = DOMAIN table
      /\ \A i \in DOMAIN table : table'[i].row = table[i].row
      /\ \A i \in DOMAIN table : i # tid => table'[i] = table[i]
      /\ \A i \in DOMAIN table : i = tid => table'[i].state = s
  <2> DEFINE marked(i) == IF i = tid THEN [table[i] EXCEPT !.state = s] ELSE table[i]
  <2>1. ASSUME NEW i \in DOMAIN table
        PROVE  /\ marked(i) \in TableRow /\ marked(i).row = table[i].row
               /\ (i # tid => marked(i) = table[i]) /\ (i = tid => marked(i).state = s)
    <3>1. table[i] \in TableRow
          BY <1>1
    <3> QED BY <3>1 DEF TableRow
  <2>2. table' = [i \in DOMAIN table |-> marked(i)]
        BY <1>4 DEF Mark
  <2> HIDE DEF marked
  <2>3. table' \in [1..Len(table) -> TableRow] /\ Len(table) \in Nat
        BY <1>1, <2>1, <2>2
  <2>4. table' \in Seq(TableRow) /\ DOMAIN table' = DOMAIN table
        BY <1>1, <2>3
  <2> QED BY <2>1, <2>2, <2>4
<1>8. strayed \subseteq strayed' /\ strayed' \subseteq Row
  <2>1. calls[n].row \in Row /\ \A i \in DOMAIN table : table[i].row \in Row
    <3>1. \A i \in DOMAIN table : table[i] \in TableRow
          BY <1>1
    <3> QED BY <1>2, <3>1 DEF Call, TableRow
  <2>2. Astray(n) \subseteq Row
        BY <2>1 DEF Astray
  <2> QED BY <1>1, <1>4, <2>2 DEF BatchTypeOK
<1>9. \A r : r \notin strayed' =>
        /\ r = calls[n].row => tid \in DOMAIN table /\ table[tid].row = r
        /\ tid \in DOMAIN table /\ table[tid].row = r => r = calls[n].row
  <2> SUFFICES ASSUME NEW r, r \notin Astray(n)
               PROVE  /\ r = calls[n].row => tid \in DOMAIN table /\ table[tid].row = r
                      /\ tid \in DOMAIN table /\ table[tid].row = r => r = calls[n].row
      BY <1>4
  <2>1. CASE tid \in DOMAIN table
    <3>1. {tid} \cap DOMAIN table = {tid}
          BY <2>1
    <3>2. Astray(n) = IF {table[tid].row} = {calls[n].row} THEN {} ELSE {table[tid].row, calls[n].row}
          BY <3>1 DEF Astray, tid
    <3> QED BY <2>1, <3>2
  <2>2. CASE tid \notin DOMAIN table
    <3>1. {tid} \cap DOMAIN table = {}
          BY <2>2
    <3>2. Astray(n) = {calls[n].row}
          BY <3>1 DEF Astray, tid
    <3> QED BY <2>2, <3>2
  <2> QED BY <2>1, <2>2
<1>10. \A r : /\ Entered(r)' <=> Entered(r)
              /\ Elsewhere(r)' <=> Elsewhere(r)
              /\ (r # calls[n].row => (Awaited(r)' <=> Awaited(r)))
              /\ (Waits(r)' => Waits(r))
  <2>1. \A r : (Entered(r)' <=> Entered(r)) /\ (Elsewhere(r)' <=> Elsewhere(r))
        BY <1>4, <1>7 DEF Entered, Elsewhere
  <2>2. \A r : Waits(r)' => Waits(r)
        BY <1>7 DEF Waits
  <2>3. ASSUME NEW r, r # calls[n].row PROVE Awaited(r)' <=> Awaited(r)
    <3>1. \A m \in DOMAIN calls : (calls'[m].open /\ calls'[m].row = r) <=> (calls[m].open /\ calls[m].row = r)
          BY <1>6, <2>3
    <3> QED BY <1>5, <3>1 DEF Awaited
  <2> QED BY <2>1, <2>2, <2>3
<1>11. ASSUME NEW q \in Row \ strayed' PROVE Due(q)' => Due(q)
  <2>1. CASE q = calls[n].row
    <3>1. \A i \in DOMAIN table : table[i].row = q => i = tid
          BY <1>1, <1>9, <1>11, <2>1 DEF Distinct
    <3>2. ~Waits(q)'
          BY <1>7, <3>1 DEF Waits
    <3> QED BY <3>2 DEF Due
  <2>2. CASE q # calls[n].row
        BY <1>10, <2>2 DEF Due
  <2> QED BY <2>1, <2>2
<1>12. ASSUME NEW i \in DOMAIN table'
       PROVE  \/ \E j \in DOMAIN table : table'[i] = table[j]
              \/ Honest(table[i].row, table[i].state)'
  <2>1. CASE i # tid
        BY <1>7, <1>12, <2>1
  <2>2. CASE i = tid
    <3>1. i \in DOMAIN table /\ table'[i].state = s /\ table'[i].row = table[i].row
          BY <1>7, <1>12, <2>2
    <3>2. table[i].row \notin strayed' => table[i].row = calls[n].row
          BY <1>9, <2>2, <3>1
    <3> QED BY <1>5, <1>6, <3>1, <3>2 DEF Honest
  <2> QED BY <2>1, <2>2
<1>13. BatchTypeOK' /\ Distinct(table)' /\ Distinct(file)'
  <2>1. BatchTypeOK'
        BY <1>1, <1>4, <1>5, <1>7, <1>8 DEF BatchTypeOK
  <2> QED BY <1>4, <1>7, <2>1 DEF BatchInv, Matched, Distinct
<1>14. \A q \in Row : forms'[q] # <<>> =>
         site = "bank" /\ ~Entered(q)' /\ Elsewhere(q)' /\ NeverSent(q)
       BY <1>4, <1>10 DEF BatchInv, Matched
<1> QED BY <1>4, <1>5, <1>6, <1>8, <1>11, <1>12, <1>13, <1>14, QuietInv

-----------------------------------------------------------------------------
(* The tables of payments: rows that go, come back and are set back *)

LEMMA RemoveAtElements ==
  ASSUME NEW T, NEW s \in Seq(T), NEW i \in DOMAIN s
  PROVE  /\ RemoveAt(s, i) \in Seq(T)
         /\ \A k \in DOMAIN RemoveAt(s, i) :
              /\ (IF k < i THEN k ELSE k + 1) \in DOMAIN s
              /\ RemoveAt(s, i)[k] = s[IF k < i THEN k ELSE k + 1]
<1> DEFINE a == SubSeq(s, 1, i - 1)
           b == SubSeq(s, i + 1, Len(s))
<1>1. Len(s) \in Nat /\ i \in 1..Len(s)
      OBVIOUS
<1>2. /\ a \in Seq(T) /\ Len(a) = i - 1
      /\ \A k \in 1..i - 1 : a[k] = s[k]
      BY <1>1
<1>3. /\ b \in Seq(T) /\ Len(b) = Len(s) - i
      /\ \A k \in 1..Len(s) - i : b[k] = s[i + k]
      BY <1>1
<1>4. RemoveAt(s, i) = a \o b
      BY DEF RemoveAt
<1> HIDE DEF a, b
<1>5. /\ a \o b \in Seq(T) /\ Len(a \o b) = Len(a) + Len(b)
      /\ \A k \in 1..Len(a) + Len(b) : (a \o b)[k] = IF k <= Len(a) THEN a[k] ELSE b[k - Len(a)]
      BY <1>2, <1>3, ConcatProperties
<1>6. DOMAIN (a \o b) = 1..Len(s) - 1
      BY <1>1, <1>2, <1>3, <1>5
<1>7. ASSUME NEW k \in 1..Len(s) - 1
      PROVE  (IF k < i THEN k ELSE k + 1) \in DOMAIN s /\ (a \o b)[k] = s[IF k < i THEN k ELSE k + 1]
  <2>1. CASE k < i
    <3>1. k \in 1..i - 1 /\ k \in DOMAIN s
          BY <1>1, <2>1
    <3>2. (a \o b)[k] = a[k]
      <4>1. k \in 1..Len(a) + Len(b) /\ k <= Len(a)
            BY <1>1, <1>2, <1>3, <3>1
      <4> QED BY <1>5, <4>1
    <3> QED BY <1>2, <2>1, <3>1, <3>2
  <2>2. CASE ~(k < i)
    <3>1. k - (i - 1) \in 1..Len(s) - i /\ i + (k - (i - 1)) = k + 1
          BY <1>1, <2>2
    <3>2. (a \o b)[k] = b[k - (i - 1)]
      <4>1. k \in 1..Len(a) + Len(b) /\ ~(k <= Len(a)) /\ Len(a) = i - 1
            BY <1>1, <1>2, <1>3, <2>2
      <4> QED BY <1>5, <4>1
    <3>3. b[k - (i - 1)] = s[k + 1]
          BY <1>3, <3>1
    <3> QED BY <1>1, <2>2, <3>2, <3>3
  <2> QED BY <2>1, <2>2
<1> QED BY <1>4, <1>5, <1>6, <1>7

LEMMA EditsInv ==
  ASSUME BatchInv, (\E i \in DOMAIN table : RemoveRow(i)) \/ MakePending \/ Upload
  PROVE  BatchInv'
<1>1. /\ BatchTypeOK /\ table \in Seq(TableRow) /\ file \in Seq(TableRow)
      /\ resets \in 0..MaxResets /\ MaxResets \in Nat
      /\ Distinct(table) /\ Distinct(file)
      BY BatchAssumption DEF BatchInv, Matched, BatchTypeOK
<1>2. UNCHANGED <<site, cert, file, forms, calls, again, strayed>>
      BY DEF RemoveRow, MakePending, Upload, batchHistory
<1>3. /\ Distinct(file)'
      /\ \A r : (NeverSent(r)' <=> NeverSent(r)) /\ (Elsewhere(r)' <=> Elsewhere(r))
      BY <1>1, <1>2 DEF Distinct, NeverSent, Elsewhere
<1>4. ASSUME \A r \in Row : Entered(r)' => Entered(r) \/ ~Elsewhere(r)
      PROVE  \A q \in Row : forms'[q] # <<>> =>
               site = "bank" /\ ~Entered(q)' /\ Elsewhere(q)' /\ NeverSent(q)
      BY <1>2, <1>3, <1>4 DEF BatchInv, Matched
<1>5. ASSUME table' \in Seq(TableRow), resets' \in {resets, resets + 1}, resets' \in 0..MaxResets
      PROVE  BatchTypeOK'
      BY <1>1, <1>2, <1>5 DEF BatchTypeOK
<1>6. ASSUME NEW i \in DOMAIN table, RemoveRow(i) PROVE BatchInv'
  <2> DEFINE from(k) == IF k < i THEN k ELSE k + 1
  <2>1. table' = RemoveAt(table, i) /\ resets' = resets
        BY <1>6 DEF RemoveRow
  <2>2. /\ table' \in Seq(TableRow)
        /\ \A k \in DOMAIN table' : from(k) \in DOMAIN table /\ table'[k] = table[from(k)]
        BY <1>1, <2>1, RemoveAtElements
  <2>3. \A k, m \in DOMAIN table' : from(k) = from(m) => k = m
    <3>1. DOMAIN table' \subseteq Int /\ i \in Int
          BY <1>1, <2>2
    <3> QED BY <3>1
  <2> HIDE DEF from
  <2>4. Distinct(table)'
        BY <1>1, <2>2, <2>3 DEF Distinct
  <2>5. \A r \in Row : (Entered(r)' => Entered(r)) /\ (Due(r)' => Due(r))
        BY <1>2, <2>2 DEF Entered, Due, Waits, Awaited
  <2>6. \A k \in DOMAIN table' : \E j \in DOMAIN table : table'[k] = table[j]
        BY <2>2
  <2>7. BatchTypeOK'
        BY <1>1, <1>5, <2>1, <2>2
  <2>8. \A q \in Row : forms'[q] # <<>> =>
          site = "bank" /\ ~Entered(q)' /\ Elsewhere(q)' /\ NeverSent(q)
        BY <1>4, <2>5
  <2> QED BY <1>2, <1>3, <2>1, <2>4, <2>5, <2>6, <2>7, <2>8, QuietInv
<1>7. CASE MakePending
  <2> DEFINE back(i) == [table[i] EXCEPT !.state = "pending"]
  <2>1. table' = [i \in DOMAIN table |-> back(i)] /\ resets' = resets + 1 /\ resets < MaxResets
        BY <1>7 DEF MakePending
  <2>2. ASSUME NEW i \in DOMAIN table
        PROVE  back(i) \in TableRow /\ back(i).row = table[i].row /\ back(i).state = "pending"
    <3>1. table[i] \in TableRow
          BY <1>1
    <3> QED BY <3>1 DEF TableRow
  <2> HIDE DEF back
  <2>3. table' \in Seq(TableRow) /\ DOMAIN table' = DOMAIN table
    <3>1. table' \in [1..Len(table) -> TableRow] /\ Len(table) \in Nat
          BY <1>1, <2>1, <2>2
    <3> QED BY <1>1, <3>1
  <2>4. \A i \in DOMAIN table : table'[i].row = table[i].row /\ table'[i].state = "pending"
        BY <2>1, <2>2
  <2>5. Distinct(table)' /\ \A r \in Row : Entered(r)' => Entered(r)
        BY <1>1, <2>3, <2>4 DEF Distinct, Entered
  <2>6. \A i \in DOMAIN table' : Honest(table[i].row, table[i].state)'
        BY <2>3, <2>4 DEF Honest
  <2>7. BatchTypeOK'
        BY <1>1, <1>5, <2>1, <2>3
  <2>8. \A q \in Row : forms'[q] # <<>> =>
          site = "bank" /\ ~Entered(q)' /\ Elsewhere(q)' /\ NeverSent(q)
        BY <1>4, <2>5
  <2> QED BY <1>2, <1>3, <2>1, <2>5, <2>6, <2>7, <2>8, QuietInv
<1>8. CASE Upload
  <2>1. table' = file /\ resets' = resets + 1 /\ resets < MaxResets
        BY <1>8 DEF Upload
  <2>2. Distinct(table)' /\ \A r \in Row : Entered(r)' => ~Elsewhere(r)
        BY <1>1, <2>1 DEF Distinct, Entered, Elsewhere
  <2>3. BatchTypeOK'
        BY <1>1, <1>5, <2>1
  <2>4. \A q \in Row : forms'[q] # <<>> =>
          site = "bank" /\ ~Entered(q)' /\ Elsewhere(q)' /\ NeverSent(q)
        BY <1>4, <2>2
  <2>5. \A k \in DOMAIN table' : \E j \in DOMAIN file : table'[k] = file[j]
        BY <2>1
  <2> QED BY <1>2, <1>3, <2>1, <2>2, <2>3, <2>4, <2>5, QuietInv
<1> QED BY <1>6, <1>7, <1>8

LEMMA BatchNextInv ==
  ASSUME BatchInv, [BatchNext]_batchVars
  PROVE  BatchInv'
<1>1. CASE UNCHANGED batchVars
  <2>1. BatchTypeOK' /\ Distinct(file)'
        BY <1>1 DEF batchVars, BatchInv, Matched, BatchTypeOK, Distinct
  <2>2. \A q \in Row : forms'[q] # <<>> =>
          site = "bank" /\ ~Entered(q) /\ Elsewhere(q)' /\ NeverSent(q)
        BY <1>1 DEF batchVars, BatchInv, Matched, Elsewhere
  <2> QED BY <1>1, <2>1, <2>2, StillInv DEF batchVars, batchHistory
<1>2. ASSUME NEW n \in DOMAIN calls, Answered(n) PROVE BatchInv'
  <2> DEFINE s == IF calls[n].outcome = "paid" THEN "complete" ELSE "refused"
  <2>1. calls[n].outcome \in {"paid", "refused"}
    <3>1. calls[n] \in Call
          BY DEF BatchInv, Matched, BatchTypeOK
    <3> QED BY <1>2, <3>1 DEF Call, Answered
  <2>2. /\ s \in {"complete", "refused", "unknown"}
        /\ s = "complete" => calls[n].outcome = "paid"
        /\ s = "refused" => calls[n].outcome = "refused"
        BY <2>1
  <2>3. Close(n, s)
        BY <1>2 DEF Answered
  <2> HIDE DEF s
  <2> QED BY <2>2, <2>3, CloseInv
<1>3. ASSUME NEW n \in DOMAIN calls, Unanswered(n) PROVE BatchInv'
  <2>1. Close(n, "unknown")
        BY <1>3 DEF Unanswered
  <2> QED BY <2>1, CloseInv
<1> QED BY <1>1, <1>2, <1>3, AddInv, IdentifiedInv, FilesInv, StartInv, ServeInv, EditsInv
        DEF BatchNext

LEMMA BatchAlways == BatchSpec => []BatchInv
<1>1. BatchInv /\ [BatchNext]_batchVars => BatchInv'
      BY BatchNextInv
<1> QED BY <1>1, BatchInitInv, PTL DEF BatchSpec

\* A row is paid once, once more each time it was set back and once more each time
\* it was sent while an answer was awaited, however long the server takes, whatever
\* the page believes and however its table is edited in between: start, remove,
\* make_pending and upload are open to the user all the time.
THEOREM RowPaidAtMostOnceTheorem == BatchSpec => []RowPaidAtMostOnce
<1>1. BatchInv => RowPaidAtMostOnce
  <2> SUFFICES ASSUME BatchInv, NEW r \in Row \ strayed
               PROVE  Cardinality(RowPayments(r)) <= 1 + resets + again[r]
      BY DEF RowPaidAtMostOnce
  <2>1. BatchTypeOK /\ resets \in Nat /\ again[r] \in Nat
        BY DEF BatchInv, Matched, BatchTypeOK
  <2>2. Cardinality(Sent(r)) <= resets + again[r] + (IF Due(r) THEN 0 ELSE 1)
        BY DEF BatchInv, Counted
  <2> QED BY <2>1, <2>2, SentFinite
<1> QED BY <1>1, BatchAlways, PTL

\* What the table says of a row is what the server did, also while other rows are
\* removed or loaded, as long as no answer met the row of another.
THEOREM TableIsTrueTheorem == BatchSpec => []TableIsTrue
<1>1. BatchInv => TableIsTrue
  <2> SUFFICES ASSUME BatchInv, NEW i \in DOMAIN table, NEW r, r = table[i].row, r \notin strayed
               PROVE  /\ table[i].state = "complete" => RowPayments(r) # {}
                      /\ \/ table[i].state \in {"refused", "nonsense"}
                         \/ table[i].state = "pending" /\ ~Awaited(r)
                         => Cardinality(RowPayments(r)) <= resets + again[r]
      BY DEF TableIsTrue
  <2>1. r \in Row /\ BatchTypeOK /\ resets \in Nat /\ again[r] \in Nat
    <3>1. BatchTypeOK /\ table[i] \in TableRow
          BY DEF BatchInv, Matched, BatchTypeOK
    <3>2. r \in Row
          BY <3>1 DEF TableRow
    <3> QED BY <3>1, <3>2 DEF BatchTypeOK
  <2>2. Honest(r, table[i].state)
        BY DEF BatchInv, Truthful
  <2>3. /\ Cardinality(Sent(r)) \in Nat /\ Cardinality(RowPayments(r)) \in Nat
        /\ Cardinality(RowPayments(r)) <= Cardinality(Sent(r))
        /\ (RowPayments(r) # Sent(r) => Cardinality(RowPayments(r)) < Cardinality(Sent(r)))
        BY <2>1, SentFinite
  <2>4. Cardinality(Sent(r)) <= resets + again[r] + (IF Due(r) THEN 0 ELSE 1)
        BY <2>1 DEF BatchInv, Counted
  <2>5. table[i].state = "complete" => RowPayments(r) # {}
        BY <2>2 DEF Honest, RowPayments
  <2>6. ASSUME table[i].state = "refused" PROVE Cardinality(RowPayments(r)) <= resets + again[r]
    <3>1. PICK n \in DOMAIN calls : calls[n].row = r /\ calls[n].outcome = "refused"
          BY <2>2, <2>6 DEF Honest
    <3>2. RowPayments(r) # Sent(r)
          BY <3>1 DEF RowPayments, Sent
    <3> QED BY <2>1, <2>3, <2>4, <3>2
  <2>7. ASSUME table[i].state = "nonsense" PROVE Cardinality(RowPayments(r)) <= resets + again[r]
    <3>1. NeverSent(r)
          BY <2>2, <2>7 DEF Honest, NeverSent, BatchInv, Truthful
    <3>2. Cardinality(Sent(r)) = 0
          BY <3>1, NoneSent
    <3> QED BY <2>1, <2>3, <3>2
  <2>8. ASSUME table[i].state = "pending", ~Awaited(r)
        PROVE  Cardinality(RowPayments(r)) <= resets + again[r]
    <3>1. Due(r)
          BY <2>8 DEF Due, Waits
    <3> QED BY <2>1, <2>3, <2>4, <3>1
  <2> QED BY <2>5, <2>6, <2>7, <2>8
<1> QED BY <1>1, BatchAlways, PTL

-----------------------------------------------------------------------------
(* The terminal: types *)

Newest == Len(loads)
Page == [dir : Dir, stage : {"page", "script", "complete"}]
Persons == [Global -> Holder \cup {Nobody}]

TerminalBound == TerminalTypeOK /\ 2 * Newest + clicks <= MaxWork

LEMMA ElementOf ==
  ASSUME NEW T, NEW s \in Seq(T), NEW n \in DOMAIN s
  PROVE  s[n] \in T
OBVIOUS

LEMMA LoadsType ==
  ASSUME TerminalBound
  PROVE  /\ loads \in Seq(Page) /\ Newest \in Nat /\ DOMAIN loads = 1..Newest
         /\ DOMAIN loads \subseteq Load
         /\ shown \in Nat /\ clicks \in Nat /\ MaxWork \in Nat
         /\ \A n \in DOMAIN loads : loads[n].dir \in Dir /\ loads[n].stage \in {"page", "script", "complete"}
         /\ \A n \in DOMAIN loads : told[n] \in Nat
<1>1. loads \in Seq(Page)
      BY DEF TerminalBound, TerminalTypeOK, Page
<1>2. Newest \in Nat /\ DOMAIN loads = 1..Newest
      BY <1>1 DEF Newest
<1>3. \A n \in DOMAIN loads : loads[n] \in Page
      BY <1>1, ElementOf
<1>4. \A n \in DOMAIN loads : loads[n].dir \in Dir /\ loads[n].stage \in {"page", "script", "complete"}
      BY <1>3 DEF Page
<1>5. MaxWork \in Nat /\ clicks \in Nat /\ 2 * Newest + clicks <= MaxWork
      BY TerminalAssumption DEF TerminalBound, TerminalTypeOK
<1>6. DOMAIN loads \subseteq Load
      BY <1>2, <1>5 DEF Load
<1>7. shown \in Nat
      BY <1>2 DEF TerminalBound, TerminalTypeOK
<1>8. \A n \in DOMAIN loads : told[n] \in Nat
      BY <1>6 DEF TerminalBound, TerminalTypeOK
<1> QED BY <1>1, <1>2, <1>4, <1>5, <1>6, <1>7, <1>8

\* The same after a step.
LEMMA ToldNext ==
  ASSUME TerminalBound', NEW n \in DOMAIN loads'
  PROVE  told'[n] \in Nat
<1>1. loads' \in Seq(Page) /\ 2 * Len(loads') + clicks' <= MaxWork /\ clicks' \in Nat
      BY TerminalAssumption DEF TerminalBound, TerminalTypeOK, Page, Newest
<1>2. Len(loads') \in Nat /\ DOMAIN loads' = 1..Len(loads') /\ MaxWork \in Nat
      BY <1>1, TerminalAssumption
<1>3. n \in Load
      BY <1>1, <1>2 DEF Load
<1> QED BY <1>3 DEF TerminalBound, TerminalTypeOK

LEMMA StageStep ==
  ASSUME TerminalBound, NEW n \in DOMAIN loads, NEW stage \in {"script", "complete"},
         loads' = [loads EXCEPT ![n].stage = stage]
  PROVE  /\ loads' \in Seq(Page) /\ Newest' = Newest /\ DOMAIN loads' = DOMAIN loads
         /\ \A m \in DOMAIN loads : loads'[m].dir = loads[m].dir
         /\ \A m \in DOMAIN loads : loads'[m].stage = IF m = n THEN stage ELSE loads[m].stage
<1> DEFINE next == [loads[n] EXCEPT !.stage = stage]
<1>1. loads \in Seq(Page) /\ loads[n] \in Page
      BY LoadsType, ElementOf
<1>2. next \in Page /\ next.dir = loads[n].dir /\ next.stage = stage
      BY <1>1 DEF Page
<1>3. loads' = [loads EXCEPT ![n] = next]
      OBVIOUS
<1> HIDE DEF next
<1>4. /\ loads' \in Seq(Page) /\ Len(loads') = Len(loads) /\ DOMAIN loads' = DOMAIN loads
      /\ \A m \in DOMAIN loads : loads'[m] = IF m = n THEN next ELSE loads[m]
      BY <1>1, <1>2, <1>3, ExceptSeq
<1> QED BY <1>2, <1>4 DEF Newest

LEMMA LoadStep ==
  ASSUME TerminalBound, NEW dir \in Dir, load_subdir(dir)
  PROVE  /\ loads' \in Seq(Page) /\ Newest' = Newest + 1 /\ DOMAIN loads' = 1..Newest + 1
         /\ \A n \in DOMAIN loads : n \in DOMAIN loads' /\ loads'[n] = loads[n]
         /\ Newest + 1 \notin DOMAIN loads
<1> DEFINE new == [dir |-> dir, stage |-> "page"]
<1>1. loads \in Seq(Page) /\ new \in Page
      BY LoadsType DEF Page
<1>2. loads' = Append(loads, new)
      BY DEF load_subdir
<1> HIDE DEF new
<1>3. /\ loads' \in Seq(Page) /\ Len(loads') = Len(loads) + 1
      /\ \A n \in DOMAIN loads : loads'[n] = loads[n]
      BY <1>1, <1>2
<1>4. DOMAIN loads' = 1..Newest + 1 /\ DOMAIN loads = 1..Newest /\ Newest \in Nat
      BY <1>1, <1>3 DEF Newest
<1> QED BY <1>3, <1>4 DEF Newest

LEMMA MessageType ==
  ASSUME TerminalBound, NEW refused, Message(refused)
  PROVE  enabled' \in BOOLEAN /\ told' \in [Load -> Nat]
<1>1. \A n \in Load : told[n] \in Nat /\ told[n] + 1 \in Nat
      BY DEF TerminalBound, TerminalTypeOK
<1>2. told' = [n \in Load |-> IF n \in bound \ refused THEN told[n] + 1 ELSE told[n]]
      BY DEF Message
<1>3. \A n \in Load : (IF n \in bound \ refused THEN told[n] + 1 ELSE told[n]) \in Nat
      BY <1>1
<1> QED BY <1>2, <1>3 DEF Message

\* One query goes on, which click and which page it is of stays; or it is forgotten.
Turns(a, b) ==
  /\ b \in Asked /\ b.click = a.click /\ b.load = a.load
  /\ b.what = "transaction_simple" <=> a.what = "transaction_simple"
  /\ asked' = (asked \ {a}) \cup {b}

Forgets(a) == a.what # "transaction_simple" /\ asked' = asked \ {a}

\* A payment that was made or may be, or whose refusal is still to be heard.
IsHot(a) == a.open \/ a.state # "refused"

\* One field changes at a time.
LEMMA AskStateChange ==
  ASSUME NEW a \in Asked, NEW state \in {"sent", "done", "refused"}
  PROVE  LET b == [a EXCEPT !.state = state]
         IN  /\ b \in Asked /\ b.click = a.click /\ b.load = a.load /\ b.what = a.what
             /\ b.open = a.open /\ b.state = state
BY DEF Asked

LEMMA AskHeard ==
  ASSUME NEW a \in Asked
  PROVE  LET b == [a EXCEPT !.open = FALSE]
         IN  /\ b \in Asked /\ b.click = a.click /\ b.load = a.load /\ b.what = a.what
             /\ b.open = FALSE /\ b.state = a.state
BY DEF Asked

LEMMA AskLate ==
  ASSUME NEW a \in Asked
  PROVE  LET b == [a EXCEPT !.late = TRUE]
         IN  /\ b \in Asked /\ b.click = a.click /\ b.load = a.load /\ b.what = a.what
             /\ b.open = a.open /\ b.state = a.state
BY DEF Asked

LEMMA AskContinues ==
  ASSUME NEW a \in Asked
  PROVE  LET b == [a EXCEPT !.what = "transactions", !.state = "sent"]
         IN  /\ b \in Asked /\ b.click = a.click /\ b.load = a.load /\ b.what = "transactions"
             /\ b.open = a.open /\ b.state = "sent"
BY DEF Asked

LEMMA HeardTurns ==
  ASSUME NEW a \in Asked, a.open, Heard(a)
  PROVE  \/ Forgets(a)
         \/ \E b : Turns(a, b) /\ IsHot(a) /\ (IsHot(b) <=> a.state # "refused")
<1> DEFINE b == [a EXCEPT !.open = FALSE]
<1>1. CASE a.what = "transaction_simple"
  <2>1. asked' = (asked \ {a}) \cup {b}
        BY <1>1 DEF Heard
  <2>2. /\ b \in Asked /\ b.click = a.click /\ b.load = a.load /\ b.what = a.what
        /\ b.open = FALSE /\ b.state = a.state
        BY AskHeard
  <2> HIDE DEF b
  <2>3. Turns(a, b) /\ IsHot(a) /\ (IsHot(b) <=> a.state # "refused")
        BY <2>1, <2>2 DEF Turns, IsHot
  <2> QED BY <2>3
<1>2. CASE a.what # "transaction_simple"
  <2>1. asked' = asked \ {a}
        BY <1>2 DEF Heard
  <2> QED BY <1>2, <2>1 DEF Forgets
<1> QED BY <1>1, <1>2

\* What becomes of a query: a payment that is over and refused does not come back.
LEMMA AskGoesOn ==
  ASSUME TerminalTypeOK, NEW a \in asked,
         \/ \E state \in {"done", "refused"} : Execute(a, state)
         \/ AnswerArrives(a) \/ NotAvailable(a) \/ NoAnswer(a)
  PROVE  /\ Forgets(a) \/ \E b : Turns(a, b) /\ (IsHot(b) => IsHot(a))
         /\ UNCHANGED <<loads, shown, bound, section, handler, current, lookups, clicks, crossed>>
<1>1. a \in Asked
      BY DEF TerminalTypeOK
<1>2. UNCHANGED <<loads, shown, bound, section, handler, current, lookups, clicks, crossed>>
      BY DEF Execute, AnswerArrives, NotAvailable, NoAnswer, pageVars
<1>3. ASSUME NEW state \in {"done", "refused"}, Execute(a, state)
      PROVE  \E b : Turns(a, b) /\ (IsHot(b) => IsHot(a))
  <2> DEFINE b == [a EXCEPT !.state = state]
  <2>1. a.state = "sent" /\ asked' = (asked \ {a}) \cup {b}
        BY <1>3 DEF Execute
  <2>2. /\ b \in Asked /\ b.click = a.click /\ b.load = a.load /\ b.what = a.what
        /\ b.open = a.open /\ b.state = state
    <3>1. state \in {"sent", "done", "refused"}
          OBVIOUS
    <3> QED BY <1>1, <3>1, AskStateChange
  <2> HIDE DEF b
  <2>3. Turns(a, b) /\ IsHot(a)
        BY <2>1, <2>2 DEF Turns, IsHot
  <2> QED BY <2>3
<1>4. CASE AnswerArrives(a) /\ a.what = "statement" /\ a.state = "done"
  <2> DEFINE b == [a EXCEPT !.what = "transactions", !.state = "sent"]
  <2>1. asked' = (asked \ {a}) \cup {b} /\ a.open
        BY <1>4 DEF AnswerArrives
  <2>2. /\ b \in Asked /\ b.click = a.click /\ b.load = a.load /\ b.what = "transactions"
        /\ b.open = a.open /\ b.state = "sent"
        BY <1>1, AskContinues
  <2> HIDE DEF b
  <2>3. Turns(a, b) /\ IsHot(a)
        BY <1>4, <2>1, <2>2 DEF Turns, IsHot
  <2> QED BY <1>2, <2>3
<1>5. CASE AnswerArrives(a) /\ ~(a.what = "statement" /\ a.state = "done")
      BY <1>1, <1>2, <1>5, HeardTurns DEF AnswerArrives
<1>6. CASE NotAvailable(a)
  <2> DEFINE b == [a EXCEPT !.late = TRUE]
  <2>1. asked' = (asked \ {a}) \cup {b}
        BY <1>6 DEF NotAvailable
  <2>2. /\ b \in Asked /\ b.click = a.click /\ b.load = a.load /\ b.what = a.what
        /\ b.open = a.open /\ b.state = a.state
        BY <1>1, AskLate
  <2> HIDE DEF b
  <2>3. Turns(a, b) /\ (IsHot(b) => IsHot(a))
        BY <2>1, <2>2 DEF Turns, IsHot
  <2> QED BY <1>2, <2>3
<1>7. CASE NoAnswer(a)
      BY <1>1, <1>2, <1>7, HeardTurns DEF NoAnswer
<1> QED BY <1>2, <1>3, <1>4, <1>5, <1>6, <1>7

LEMMA TerminalInitType == TerminalInit => TerminalBound
<1> SUFFICES ASSUME TerminalInit PROVE TerminalBound
    OBVIOUS
<1>1. loads = <<>> /\ DOMAIN loads = {} /\ Newest = 0 /\ MaxWork \in Nat
      BY TerminalAssumption DEF TerminalInit, Newest
<1>2. loads \in Seq([dir : Dir, stage : {"page", "script", "complete"}])
      BY <1>1
<1>3. enabled \in BOOLEAN /\ crossed \in BOOLEAN /\ told \in [Load -> Nat]
      BY DEF TerminalInit
<1>4. clicks \in 0..MaxWork /\ 2 * Newest + clicks <= MaxWork
      BY <1>1 DEF TerminalInit
<1> QED BY <1>1, <1>2, <1>3, <1>4 DEF TerminalInit, TerminalBound, TerminalTypeOK

LEMMA TerminalNextType == TerminalBound /\ [TerminalNext]_terminalVars => TerminalBound'
<1> SUFFICES ASSUME TerminalBound, [TerminalNext]_terminalVars PROVE TerminalBound'
    OBVIOUS
<1>0. /\ TerminalTypeOK /\ loads \in Seq(Page) /\ current \in Persons /\ section \in Persons
      /\ asked \subseteq Asked /\ lookups \subseteq LookupQuery
      /\ Newest \in Nat /\ DOMAIN loads = 1..Newest /\ 2 * Newest + clicks <= MaxWork
      /\ MaxWork \in Nat /\ clicks \in Nat
      BY LoadsType DEF TerminalBound, TerminalTypeOK, Persons
<1>1. CASE UNCHANGED terminalVars
      BY <1>0, <1>1 DEF terminalVars, TerminalBound, TerminalTypeOK, Newest
<1>2. ASSUME NEW dir \in Dir, load_subdir(dir) PROVE TerminalBound'
  <2>1. loads' \in Seq(Page) /\ Newest' = Newest + 1 /\ DOMAIN loads' = 1..Newest + 1
        /\ \A n \in DOMAIN loads : n \in DOMAIN loads'
        BY <1>2, LoadStep
  <2>2. shown \in {0} \cup DOMAIN loads'
        BY <1>0, <2>1 DEF TerminalTypeOK
  <2>3. 2 * Newest' + clicks' <= MaxWork
        BY <1>2 DEF load_subdir, Bounded, Newest
  <2> QED BY <1>0, <1>2, <2>1, <2>2, <2>3 DEF load_subdir, TerminalBound, TerminalTypeOK, Page
<1>3. ASSUME NEW n \in DOMAIN loads, show_new_page(n) PROVE TerminalBound'
  <2>1. loads' \in Seq(Page) /\ Newest' = Newest /\ DOMAIN loads' = DOMAIN loads
        BY <1>3, StageStep DEF show_new_page
  <2>2. section' \in Persons
        BY <1>3 DEF show_new_page, Persons
  <2> QED BY <1>0, <1>3, <2>1, <2>2 DEF show_new_page, TerminalBound, TerminalTypeOK, Page, Persons
<1>4. ASSUME NEW n \in DOMAIN loads, Script(n) PROVE TerminalBound'
  <2>1. loads' \in Seq(Page) /\ Newest' = Newest /\ DOMAIN loads' = DOMAIN loads
        BY <1>4, StageStep DEF Script
  <2>2. loads[n].dir \in Dir
        BY LoadsType
  <2>3. current' \in Persons
        BY <1>0, <1>4 DEF Script, Persons
  <2>4. crossed' \in BOOLEAN /\ bound' \subseteq DOMAIN loads'
        BY <1>0, <1>4, <2>1 DEF Script, TerminalTypeOK
  <2> QED BY <1>0, <1>4, <2>1, <2>2, <2>3, <2>4 DEF Script, TerminalBound, TerminalTypeOK, Page, Persons
<1>5. ASSUME NEW g \in Global, ChangeSection(g) PROVE TerminalBound'
  <2>1. section' \in Persons
        BY <1>0, <1>5 DEF ChangeSection, Persons
  <2> QED BY <1>0, <1>5, <2>1 DEF ChangeSection, TerminalBound, TerminalTypeOK, Newest, Persons
<1>6. ASSUME NEW g \in Global, NEW who \in Holder, Identify(g, who) PROVE TerminalBound'
  <2>1. shown \in Load
        BY <1>0, <1>6, LoadsType DEF Identify, TerminalTypeOK
  <2>2. lookups' \subseteq LookupQuery
        BY <1>0, <1>6, <2>1 DEF Identify, LookupQuery
  <2> QED BY <1>0, <1>6, <2>2 DEF Identify, pageVars, TerminalBound, TerminalTypeOK, Newest
<1>7. ASSUME NEW l \in lookups, student_identify(l) PROVE TerminalBound'
  <2>1. l.global \in Global /\ l.who \in Holder
        BY <1>0 DEF LookupQuery
  <2>2. section' \in Persons
        BY <1>0, <1>7, <2>1 DEF student_identify, Persons
  <2>3. current' \in Persons
        BY <1>0, <1>7, <2>1 DEF student_identify, handleIdentifyAnswer, Global, Persons
  <2>4. crossed' \in BOOLEAN
        BY <1>7 DEF student_identify
  <2> QED BY <1>0, <1>7, <2>2, <2>3, <2>4 DEF student_identify, TerminalBound, TerminalTypeOK, Newest, Persons
<1>8. ASSUME NEW l \in lookups, NotIdentified(l) PROVE TerminalBound'
  <2>1. enabled' \in BOOLEAN /\ told' \in [Load -> Nat]
        BY <1>0, <1>8, MessageType DEF NotIdentified, TerminalTypeOK
  <2>2. clicks' \in Nat /\ 2 * Newest + clicks' <= MaxWork /\ Newest' = Newest
    <3>1. Newest' = Newest /\ loads' = loads
          BY <1>8 DEF NotIdentified, Newest, pageVars
    <3>2. clicks' = clicks \/ clicks' = clicks + 1
          BY <1>8 DEF NotIdentified
    <3>3. 2 * Newest + clicks' <= MaxWork
          BY <1>8, <3>1 DEF NotIdentified, Bounded, Newest
    <3> QED BY <1>0, <3>1, <3>2, <3>3
  <2>3. clicks' \in 0..MaxWork
    <3>1. clicks' <= MaxWork /\ clicks' \in Nat /\ MaxWork \in Nat
      <4>1. 2 * Newest \in Nat /\ MaxWork \in Nat
            BY <1>0
      <4> QED BY <2>2, <4>1
    <3> QED BY <3>1
  <2> QED BY <1>0, <1>8, <2>1, <2>2, <2>3 DEF NotIdentified, pageVars, TerminalBound, TerminalTypeOK
<1>9. ASSUME NEW refused \in SUBSET bound, Confirm(refused) PROVE TerminalBound'
  <2>1. clicks' = clicks + 1 /\ 2 * Newest' + clicks' <= MaxWork /\ Newest' = Newest
        /\ asked' = asked \cup {Confirmed(n) : n \in bound \ refused}
        /\ UNCHANGED <<loads, shown, bound, section, handler, current, lookups, crossed>>
        BY <1>9 DEF Confirm, ConfirmSends, pageVars, Newest, Bounded
  <2>2. clicks' \in 1..MaxWork /\ clicks' \in 0..MaxWork
        BY <1>0, <2>1
  <2>3. ASSUME NEW n \in bound PROVE Confirmed(n) \in Asked
    <3>1. n \in Load /\ loads[n].dir \in Dir
          BY <1>0, LoadsType DEF TerminalTypeOK
    <3> QED BY <2>1, <2>2, <3>1 DEF Confirmed, Asked
  <2>4. asked' \subseteq Asked
        BY <1>0, <2>1, <2>3
  <2>5. enabled' \in BOOLEAN /\ told' \in [Load -> Nat]
        BY <1>0, <1>9, MessageType DEF Confirm, TerminalTypeOK
  <2> QED BY <1>0, <2>1, <2>2, <2>4, <2>5 DEF TerminalBound, TerminalTypeOK
<1>10. ASSUME NEW a \in asked,
              \/ \E state \in {"done", "refused"} : Execute(a, state)
              \/ AnswerArrives(a) \/ NotAvailable(a) \/ NoAnswer(a)
       PROVE  TerminalBound'
  <2>1. /\ Forgets(a) \/ \E b : Turns(a, b)
        /\ UNCHANGED <<loads, shown, bound, section, handler, current, lookups, clicks, crossed>>
        BY <1>0, <1>10, AskGoesOn
  <2>2. asked' \subseteq Asked
        BY <1>0, <2>1 DEF Forgets, Turns
  <2>3. enabled' \in BOOLEAN /\ told' \in [Load -> Nat]
        BY <1>0, <1>10, MessageType
        DEF Execute, AnswerArrives, NotAvailable, NoAnswer, TerminalTypeOK
  <2> QED BY <1>0, <2>1, <2>2, <2>3 DEF TerminalBound, TerminalTypeOK, Newest
<1> QED BY <1>1, <1>2, <1>3, <1>4, <1>5, <1>6, <1>7, <1>8, <1>9, <1>10 DEF TerminalNext

-----------------------------------------------------------------------------
(* The terminal: a form pays once, and once more for each message *)

AskedInv ==
  /\ \A n \in bound : loads[n].stage = "complete"
  /\ \A a \in asked :
       /\ a.load \in DOMAIN loads /\ loads[a.load].stage = "complete" /\ a.click <= clicks
       /\ a.what = "transaction_simple" <=> loads[a.load].dir = "transaction_simple"
  /\ \A a, b \in asked : a.click = b.click /\ a.load = b.load => a = b
  /\ IsFiniteSet(asked)

Hot(n) == {a \in FormPayments(n) : IsHot(a)}
Clickable(n) == n \in bound /\ enabled

PaidInv == \A n \in DOMAIN loads :
  Cardinality(Hot(n)) <= told[n] + (IF Clickable(n) THEN 0 ELSE 1)

FormInOrder == TerminalBound /\ AskedInv /\ PaidInv

LEMMA HotFinite ==
  ASSUME AskedInv, NEW n
  PROVE  IsFiniteSet(Hot(n)) /\ Cardinality(Hot(n)) \in Nat
<1>1. Hot(n) \in SUBSET asked
      BY DEF Hot, FormPayments
<1>2. IsFiniteSet(Hot(n))
      BY <1>1, FS_Subset DEF AskedInv
<1> QED BY <1>2, FS_CardinalityType

\* A page without a payment form has nothing to pay.
LEMMA NoForm ==
  ASSUME AskedInv, NEW n,
         n \notin DOMAIN loads \/ loads[n].dir # "transaction_simple" \/ loads[n].stage # "complete"
  PROVE  Hot(n) = {} /\ Cardinality(Hot(n)) = 0
<1>1. Hot(n) = {}
      BY DEF Hot, FormPayments, AskedInv
<1> QED BY <1>1, FS_EmptySet

\* Queries stay as they are; the pages and what can be clicked may change.
LEMMA PagesMove ==
  ASSUME FormInOrder, TerminalBound', UNCHANGED <<asked, clicks, told>>,
         \A n \in DOMAIN loads : /\ n \in DOMAIN loads' /\ loads'[n].dir = loads[n].dir
                                 /\ loads[n].stage = "complete" => loads'[n].stage = "complete",
         \A n \in bound' : loads'[n].stage = "complete",
         \A n \in DOMAIN loads' : Clickable(n)' =>
           Clickable(n) \/ n \notin DOMAIN loads \/ loads[n].stage # "complete"
  PROVE  FormInOrder'
<1>0. TerminalBound /\ AskedInv /\ PaidInv
      BY DEF FormInOrder
<1>1. AskedInv'
      BY <1>0 DEF AskedInv
<1>2. \A n \in DOMAIN loads' : Hot(n)' = Hot(n)
      BY DEF Hot, FormPayments, IsHot
<1>3. PaidInv'
  <2> SUFFICES ASSUME NEW n \in DOMAIN loads'
               PROVE  Cardinality(Hot(n)) <= told[n] + (IF Clickable(n)' THEN 0 ELSE 1)
      BY <1>2 DEF PaidInv
  <2>1. told'[n] \in Nat /\ told'[n] = told[n]
        BY ToldNext
  <2>2. CASE n \in DOMAIN loads /\ loads[n].stage = "complete"
    <3>1. Cardinality(Hot(n)) <= told[n] + (IF Clickable(n) THEN 0 ELSE 1)
          BY <1>0, <2>2 DEF PaidInv
    <3>2. Clickable(n)' => Clickable(n)
          BY <2>2
    <3>3. Cardinality(Hot(n)) \in Nat
          BY <1>0, HotFinite
    <3> QED BY <2>1, <3>1, <3>2, <3>3
  <2>3. CASE ~(n \in DOMAIN loads /\ loads[n].stage = "complete")
    <3>1. Cardinality(Hot(n)) = 0
          BY <1>0, <2>3, NoForm
    <3> QED BY <2>1, <3>1
  <2> QED BY <2>2, <2>3
<1> QED BY <1>1, <1>3 DEF FormInOrder

LEMMA LoadInOrder ==
  ASSUME FormInOrder, TerminalBound', NEW dir \in Dir, load_subdir(dir)
  PROVE  FormInOrder'
<1>1. /\ \A n \in DOMAIN loads : n \in DOMAIN loads' /\ loads'[n] = loads[n]
      /\ UNCHANGED <<asked, clicks, told>> /\ bound' = {}
      BY LoadStep DEF load_subdir, FormInOrder
<1> QED BY <1>1, PagesMove DEF Clickable

LEMMA ShowInOrder ==
  ASSUME FormInOrder, TerminalBound', NEW n \in DOMAIN loads, show_new_page(n)
  PROVE  FormInOrder'
<1>1. /\ DOMAIN loads' = DOMAIN loads
      /\ \A m \in DOMAIN loads : loads'[m].dir = loads[m].dir
      /\ \A m \in DOMAIN loads : loads'[m].stage = IF m = n THEN "script" ELSE loads[m].stage
      BY StageStep DEF show_new_page, FormInOrder
<1>2. UNCHANGED <<asked, clicks, told>> /\ bound' = {} /\ loads[n].stage = "page"
      BY DEF show_new_page
<1> QED BY <1>1, <1>2, PagesMove DEF Clickable

LEMMA ScriptInOrder ==
  ASSUME FormInOrder, TerminalBound', NEW n \in DOMAIN loads, Script(n)
  PROVE  FormInOrder'
<1>1. /\ DOMAIN loads' = DOMAIN loads
      /\ \A m \in DOMAIN loads : loads'[m].dir = loads[m].dir
      /\ \A m \in DOMAIN loads : loads'[m].stage = IF m = n THEN "complete" ELSE loads[m].stage
      BY StageStep DEF Script, FormInOrder
<1>2. /\ UNCHANGED <<asked, clicks, told, enabled>> /\ bound' = bound \cup {n}
      /\ loads[n].stage = "script"
      BY DEF Script
<1>3. \A m \in bound : m \in DOMAIN loads /\ loads[m].stage = "complete"
      BY DEF FormInOrder, TerminalBound, TerminalTypeOK, AskedInv
<1>4. \A m \in bound' : loads'[m].stage = "complete"
      BY <1>1, <1>2, <1>3
<1>5. \A m \in DOMAIN loads' : Clickable(m)' => Clickable(m) \/ loads[m].stage # "complete"
      BY <1>2 DEF Clickable
<1> QED BY <1>1, <1>2, <1>4, <1>5, PagesMove

LEMMA NotIdentifiedInOrder ==
  ASSUME FormInOrder, TerminalBound', NEW l \in lookups, NotIdentified(l)
  PROVE  FormInOrder'
<1>0. TerminalBound /\ AskedInv /\ PaidInv
      BY DEF FormInOrder
<1>1. UNCHANGED <<loads, shown, bound, asked>>
      BY DEF NotIdentified, pageVars
<1>2. AskedInv'
  <2>1. clicks' \in Nat /\ clicks \in Nat /\ clicks <= clicks'
        BY <1>0, LoadsType DEF NotIdentified
  <2>2. \A a \in asked : a.click \in Nat
        BY <1>0, TerminalAssumption DEF TerminalBound, TerminalTypeOK, Asked
  <2>3. \A a \in asked : a.click <= clicks'
        BY <1>0, <2>1, <2>2 DEF AskedInv
  <2> QED BY <1>0, <1>1, <2>3 DEF AskedInv
<1>3. PaidInv'
  <2> SUFFICES ASSUME NEW n \in DOMAIN loads
               PROVE  Cardinality(Hot(n)) <= told'[n] + (IF Clickable(n)' THEN 0 ELSE 1)
      BY <1>1 DEF PaidInv, Hot, FormPayments, IsHot
  <2>1. told[n] \in Nat /\ Cardinality(Hot(n)) \in Nat /\ n \in Load
        BY <1>0, LoadsType, HotFinite
  <2>2. Cardinality(Hot(n)) <= told[n] + (IF Clickable(n) THEN 0 ELSE 1)
        BY <1>0 DEF PaidInv
  <2>3. CASE Message({})
    <3>1. told'[n] = IF n \in bound THEN told[n] + 1 ELSE told[n]
          BY <2>1, <2>3 DEF Message
    <3> QED BY <1>1, <2>1, <2>2, <3>1 DEF Clickable
  <2>4. CASE UNCHANGED <<enabled, told>>
        BY <1>1, <2>1, <2>2, <2>4 DEF Clickable
  <2> QED BY <2>3, <2>4 DEF NotIdentified
<1> QED BY <1>2, <1>3 DEF FormInOrder

LEMMA ConfirmedParts ==
  ASSUME NEW n
  PROVE  /\ Confirmed(n).load = n /\ Confirmed(n).click = clicks + 1
         /\ Confirmed(n).what = loads[n].dir /\ Confirmed(n).open = TRUE
BY DEF Confirmed

\* Every script that has bound the button and does not refuse asks once.
LEMMA ConfirmAsks ==
  ASSUME FormInOrder, NEW refused \in SUBSET bound, ConfirmSends(refused)
  PROVE  /\ AskedInv'
         /\ \A n \in DOMAIN loads : Cardinality(Hot(n)') \in Nat
         /\ \A n \in DOMAIN loads : Cardinality(Hot(n)') <= Cardinality(Hot(n)) + 1
         /\ \A n \in DOMAIN loads :
              n \notin bound \ refused \/ loads[n].dir # "transaction_simple" => Hot(n)' = Hot(n)
<1>0. /\ TerminalBound /\ AskedInv /\ clicks \in Nat /\ IsFiniteSet(asked)
      /\ \A a \in asked : a.click \in Nat
      BY LoadsType, TerminalAssumption DEF FormInOrder, TerminalBound, TerminalTypeOK, Asked, AskedInv
<1> DEFINE New == {Confirmed(n) : n \in bound \ refused}
<1>1. /\ clicks' = clicks + 1 /\ asked' = asked \cup New
      /\ UNCHANGED <<loads, shown, bound>>
      BY DEF ConfirmSends, pageVars
<1>2. ASSUME NEW a \in New
      PROVE  /\ a.load \in bound \ refused /\ a = Confirmed(a.load) /\ a.click = clicks + 1
             /\ a.what = loads[a.load].dir /\ a.open = TRUE
      BY <1>2, ConfirmedParts
<1>3. bound \subseteq DOMAIN loads /\ IsFiniteSet(bound)
  <2>1. bound \subseteq DOMAIN loads /\ DOMAIN loads = 1..Newest /\ Newest \in Nat
        BY <1>0, LoadsType DEF TerminalBound, TerminalTypeOK
  <2>2. IsFiniteSet(1..Newest)
        BY <2>1, FS_Interval
  <2> QED BY <2>1, <2>2, FS_Subset
<1>4. IsFiniteSet(New)
  <2>1. IsFiniteSet(bound \ refused)
        BY <1>3, FS_Subset
  <2>2. [n \in bound \ refused |-> Confirmed(n)] \in Surjection(bound \ refused, New)
        BY DEF Surjection
  <2> QED BY <2>1, <2>2, FS_Surjection
<1> HIDE DEF New
<1>5. ASSUME NEW a \in asked, NEW b \in New PROVE a.click # b.click
  <2>1. a.click <= clicks /\ a.click \in Nat /\ b.click = clicks + 1
        BY <1>0, <1>2 DEF AskedInv
  <2> QED BY <1>0, <2>1
<1>6. AskedInv'
  <2>1. \A a \in asked : a.click <= clicks'
        BY <1>0, <1>1 DEF AskedInv
  <2>2. IsFiniteSet(asked')
        BY <1>0, <1>1, <1>4, FS_Union
  <2>3. ASSUME NEW a \in New
        PROVE  /\ a.load \in DOMAIN loads /\ loads[a.load].stage = "complete" /\ a.click <= clicks'
               /\ a.what = "transaction_simple" <=> loads[a.load].dir = "transaction_simple"
    <3>1. a.load \in bound \ refused /\ a.what = loads[a.load].dir /\ a.click = clicks + 1
          BY <1>2
    <3> QED BY <1>0, <1>1, <1>3, <3>1 DEF AskedInv
  <2>4. ASSUME NEW a \in asked', NEW b \in asked', a.click = b.click, a.load = b.load
        PROVE  a = b
    <3>1. CASE a \in asked /\ b \in asked
          BY <1>0, <2>4, <3>1 DEF AskedInv
    <3>2. CASE a \in New /\ b \in New
      <4>1. a = Confirmed(a.load) /\ b = Confirmed(b.load)
            BY <1>2, <3>2
      <4> QED BY <2>4, <4>1
    <3> QED BY <1>1, <1>5, <2>4, <3>1, <3>2
  <2>5. \A a \in asked' : a \in asked \/ a \in New
        BY <1>1
  <2> QED BY <1>0, <1>1, <2>1, <2>2, <2>3, <2>4, <2>5 DEF AskedInv
<1>7. ASSUME NEW n \in DOMAIN loads, n \notin bound \ refused \/ loads[n].dir # "transaction_simple"
      PROVE  Hot(n)' = Hot(n)
  <2>1. \A a \in New : ~(a.load = n /\ a.what = "transaction_simple")
        BY <1>2, <1>7
  <2> QED BY <1>1, <2>1 DEF Hot, FormPayments, IsHot
<1>8. ASSUME NEW n \in DOMAIN loads
      PROVE  Cardinality(Hot(n)') \in Nat /\ Cardinality(Hot(n)') <= Cardinality(Hot(n)) + 1
  <2>1. IsFiniteSet(Hot(n)) /\ Cardinality(Hot(n)) \in Nat
        BY <1>0, HotFinite
  <2>2. CASE n \notin bound \ refused \/ loads[n].dir # "transaction_simple"
        BY <1>7, <2>1, <2>2
  <2>3. CASE n \in bound \ refused /\ loads[n].dir = "transaction_simple"
    <3>1. \A a \in New : a.load = n /\ a.what = "transaction_simple" => a = Confirmed(n)
          BY <1>2
    <3>2. Confirmed(n) \in New /\ Confirmed(n).load = n /\ Confirmed(n).what = "transaction_simple"
          /\ Confirmed(n).open
          BY <2>3, ConfirmedParts DEF New
    <3>3. Hot(n)' = Hot(n) \cup {Confirmed(n)}
          BY <1>1, <3>1, <3>2 DEF Hot, FormPayments, IsHot
    <3>4. Cardinality(Hot(n) \cup {Confirmed(n)}) =
            IF Confirmed(n) \in Hot(n) THEN Cardinality(Hot(n)) ELSE Cardinality(Hot(n)) + 1
          BY <2>1, FS_AddElement
    <3> QED BY <2>1, <3>3, <3>4
  <2> QED BY <2>2, <2>3
<1> QED BY <1>6, <1>7, <1>8

LEMMA ConfirmInOrder ==
  ASSUME FormInOrder, TerminalBound', NEW refused \in SUBSET bound, Confirm(refused)
  PROVE  FormInOrder'
<1>0. TerminalBound /\ AskedInv /\ PaidInv
      BY DEF FormInOrder
<1>1. ConfirmSends(refused) /\ enabled /\ UNCHANGED <<loads, bound>>
      BY DEF Confirm, ConfirmSends, pageVars
<1>2. PaidInv'
  <2> SUFFICES ASSUME NEW n \in DOMAIN loads
               PROVE  Cardinality(Hot(n)') <= told'[n] + (IF Clickable(n)' THEN 0 ELSE 1)
      BY <1>1 DEF PaidInv
  <2>1. /\ told[n] \in Nat /\ Cardinality(Hot(n)) \in Nat /\ n \in Load
        /\ Cardinality(Hot(n)') \in Nat
        BY <1>0, <1>1, LoadsType, HotFinite, ConfirmAsks
  <2>2. Cardinality(Hot(n)) <= told[n] + (IF Clickable(n) THEN 0 ELSE 1)
        BY <1>0 DEF PaidInv
  <2>3. Clickable(n)' => n \in bound /\ Clickable(n)
        BY <1>1 DEF Clickable
  <2>4. CASE n \notin bound \ refused \/ loads[n].dir # "transaction_simple"
    <3>1. Hot(n)' = Hot(n)
          BY <1>1, <2>4, ConfirmAsks
    <3>2. told'[n] = told[n] \/ told'[n] = told[n] + 1
          BY <2>1 DEF Confirm, Message
    <3> QED BY <2>1, <2>2, <2>3, <3>1, <3>2
  <2>5. CASE n \in bound \ refused /\ loads[n].dir = "transaction_simple"
    <3>1. Cardinality(Hot(n)') <= told[n] + 1
      <4>1. Clickable(n)
            BY <1>1, <2>5 DEF Clickable
      <4>2. Cardinality(Hot(n)') <= Cardinality(Hot(n)) + 1
            BY <1>1, ConfirmAsks
      <4> QED BY <2>1, <2>2, <4>1, <4>2
    <3>2. \/ Message(refused)
          \/ enabled' = FALSE /\ told' = told
          BY <2>5 DEF Confirm
    <3>3. CASE Message(refused)
      <4>1. told'[n] = told[n] + 1
            BY <2>1, <2>5, <3>3 DEF Message
      <4> QED BY <2>1, <3>1, <4>1
    <3>4. CASE enabled' = FALSE /\ told' = told
          BY <2>1, <3>1, <3>4 DEF Clickable
    <3> QED BY <3>2, <3>3, <3>4
  <2> QED BY <2>4, <2>5
<1> QED BY <1>1, <1>2, ConfirmAsks DEF FormInOrder

LEMMA TurnAsks ==
  ASSUME AskedInv, TerminalTypeOK, NEW a \in asked, UNCHANGED <<loads, bound, clicks>>,
         Forgets(a) \/ \E b : Turns(a, b) /\ (IsHot(b) => IsHot(a))
  PROVE  /\ AskedInv'
         /\ \A n \in DOMAIN loads : Cardinality(Hot(n)') \in Nat
         /\ \A n \in DOMAIN loads : Cardinality(Hot(n)') <= Cardinality(Hot(n))
<1>1. IsFiniteSet(asked \ {a}) /\ Cardinality(asked) \in Nat
      BY FS_RemoveElement, FS_CardinalityType DEF AskedInv
<1>2. CASE Forgets(a)
  <2>1. AskedInv'
        BY <1>1, <1>2 DEF AskedInv, Forgets
  <2>2. ASSUME NEW n \in DOMAIN loads PROVE Hot(n)' = Hot(n)
        BY <1>2 DEF Forgets, Hot, FormPayments, IsHot
  <2> QED BY <2>1, <2>2, HotFinite
<1>3. ASSUME NEW b, Turns(a, b), IsHot(b) => IsHot(a)
      PROVE  /\ AskedInv'
             /\ \A n \in DOMAIN loads : Cardinality(Hot(n)') \in Nat
             /\ \A n \in DOMAIN loads : Cardinality(Hot(n)') <= Cardinality(Hot(n))
  <2>1. /\ b.click = a.click /\ b.load = a.load /\ asked' = (asked \ {a}) \cup {b}
        /\ b.what = "transaction_simple" <=> a.what = "transaction_simple"
        BY <1>3 DEF Turns
  <2>2. \A x \in asked : x.click = a.click /\ x.load = a.load => x = a
        BY DEF AskedInv
  <2>3. AskedInv'
    <3>1. IsFiniteSet(asked')
          BY <1>1, <2>1, FS_AddElement
    <3>2. \A x \in asked' : x = b \/ (x \in asked /\ x # a)
          BY <2>1
    <3>3. \A x, y \in asked' : x.click = y.click /\ x.load = y.load => x = y
          BY <2>1, <2>2, <3>2 DEF AskedInv
    <3>4. ASSUME NEW x \in asked
          PROVE  /\ x.load \in DOMAIN loads' /\ loads'[x.load].stage = "complete" /\ x.click <= clicks'
                 /\ x.what = "transaction_simple" <=> loads'[x.load].dir = "transaction_simple"
          BY DEF AskedInv
    <3>5. /\ b.load \in DOMAIN loads' /\ loads'[b.load].stage = "complete" /\ b.click <= clicks'
          /\ b.what = "transaction_simple" <=> loads'[b.load].dir = "transaction_simple"
          BY <2>1, <3>4
    <3>6. \A n \in bound' : loads'[n].stage = "complete"
          BY DEF AskedInv
    <3> QED BY <3>1, <3>2, <3>3, <3>4, <3>5, <3>6 DEF AskedInv
  <2>4. ASSUME NEW n \in DOMAIN loads
        PROVE  Cardinality(Hot(n)') \in Nat /\ Cardinality(Hot(n)') <= Cardinality(Hot(n))
    <3>1. IsFiniteSet(Hot(n)) /\ Cardinality(Hot(n)) \in Nat
          BY HotFinite
    <3>2. CASE b \in Hot(n)'
      <4>1. a \in Hot(n) /\ b \notin Hot(n) \ {a}
            BY <1>3, <2>1, <2>2, <3>2 DEF Hot, FormPayments
      <4>2. Hot(n)' = (Hot(n) \ {a}) \cup {b}
            BY <2>1, <3>2 DEF Hot, FormPayments, IsHot
      <4>3. IsFiniteSet(Hot(n) \ {a}) /\ Cardinality(Hot(n) \ {a}) = Cardinality(Hot(n)) - 1
            BY <3>1, <4>1, FS_RemoveElement
      <4>4. Cardinality((Hot(n) \ {a}) \cup {b}) = Cardinality(Hot(n) \ {a}) + 1
            BY <4>1, <4>3, FS_AddElement
      <4> QED BY <3>1, <4>2, <4>3, <4>4
    <3>3. CASE b \notin Hot(n)'
      <4>1. Hot(n)' \in SUBSET Hot(n)
            BY <2>1, <3>3 DEF Hot, FormPayments, IsHot
      <4> QED BY <3>1, <4>1, FS_Subset, FS_CardinalityType
    <3> QED BY <3>2, <3>3
  <2> QED BY <2>3, <2>4
<1> QED BY <1>2, <1>3

\* A refusal that is heard takes its payment out of what may be paid.
LEMMA RefusalCools ==
  ASSUME FormInOrder, NEW a \in asked, AnswerArrives(a), a.state = "refused"
  PROVE  \/ Cardinality(Hot(a.load)') = 0
         \/ Cardinality(Hot(a.load)') = Cardinality(Hot(a.load)) - 1
<1>0. /\ TerminalBound /\ AskedInv /\ a \in Asked /\ a.open /\ Heard(a)
      /\ UNCHANGED <<loads, bound, clicks>>
      BY DEF AnswerArrives, pageVars, FormInOrder, TerminalBound, TerminalTypeOK
<1>1. /\ IsFiniteSet(Hot(a.load))
      /\ \A x \in asked : x.click = a.click /\ x.load = a.load => x = a
      /\ a.what = "transaction_simple" <=> loads[a.load].dir = "transaction_simple"
      BY <1>0, HotFinite DEF AskedInv
<1>2. CASE Forgets(a)
  <2>1. Hot(a.load) = {}
        BY <1>0, <1>1, <1>2, NoForm DEF Forgets
  <2>2. Hot(a.load)' = {}
        BY <1>2, <2>1 DEF Forgets, Hot, FormPayments, IsHot
  <2> QED BY <2>2, FS_EmptySet
<1>3. ASSUME NEW b, Turns(a, b), IsHot(a), ~IsHot(b)
      PROVE  \/ Cardinality(Hot(a.load)') = 0
             \/ Cardinality(Hot(a.load)') = Cardinality(Hot(a.load)) - 1
  <2>1. Hot(a.load)' = Hot(a.load) \ {a}
        BY <1>3 DEF Turns, Hot, FormPayments, IsHot
  <2>2. CASE a.what = "transaction_simple"
    <3>1. a \in Hot(a.load)
          BY <1>3, <2>2 DEF Hot, FormPayments
    <3> QED BY <1>1, <2>1, <3>1, FS_RemoveElement
  <2>3. CASE a.what # "transaction_simple"
    <3>1. Hot(a.load) = {}
          BY <1>0, <1>1, <2>3, NoForm
    <3> QED BY <2>1, <3>1, FS_EmptySet
  <2> QED BY <2>2, <2>3
<1> QED BY <1>0, <1>2, <1>3, HeardTurns

LEMMA AnswersInOrder ==
  ASSUME FormInOrder, TerminalBound', NEW a \in asked,
         \/ \E state \in {"done", "refused"} : Execute(a, state)
         \/ AnswerArrives(a) \/ NotAvailable(a) \/ NoAnswer(a)
  PROVE  FormInOrder'
<1>0. TerminalBound /\ AskedInv /\ PaidInv /\ TerminalTypeOK
      BY DEF FormInOrder, TerminalBound
<1>1. /\ Forgets(a) \/ \E b : Turns(a, b) /\ (IsHot(b) => IsHot(a))
      /\ UNCHANGED <<loads, bound, clicks>>
      BY <1>0, AskGoesOn
<1>2. /\ AskedInv'
      /\ \A n \in DOMAIN loads : Cardinality(Hot(n)') \in Nat
      /\ \A n \in DOMAIN loads : Cardinality(Hot(n)') <= Cardinality(Hot(n))
      BY <1>0, <1>1, TurnAsks
<1>3. ASSUME NEW n \in DOMAIN loads
      PROVE  Cardinality(Hot(n)') <= told'[n] + (IF Clickable(n)' THEN 0 ELSE 1)
  <2>1. /\ told[n] \in Nat /\ Cardinality(Hot(n)) \in Nat /\ n \in Load
        /\ Cardinality(Hot(n)') \in Nat /\ Cardinality(Hot(n)') <= Cardinality(Hot(n))
        BY <1>0, <1>2, LoadsType, HotFinite
  <2>2. Cardinality(Hot(n)) <= told[n] + (IF Clickable(n) THEN 0 ELSE 1)
        BY <1>0 DEF PaidInv
  <2>3. CASE UNCHANGED <<enabled, told>>
        BY <1>1, <2>1, <2>2, <2>3 DEF Clickable
  <2>4. CASE Message({})
    <3>1. told'[n] = IF n \in bound THEN told[n] + 1 ELSE told[n]
          BY <2>1, <2>4 DEF Message
    <3> QED BY <1>1, <2>1, <2>2, <3>1 DEF Clickable
  <2>5. CASE AnswerArrives(a) /\ a.state = "refused" /\ Message({a.load})
    <3>1. told'[n] = IF n \in bound /\ n # a.load THEN told[n] + 1 ELSE told[n]
          BY <2>1, <2>5 DEF Message
    <3>2. n = a.load => \/ Cardinality(Hot(n)') = 0
                        \/ Cardinality(Hot(n)') = Cardinality(Hot(n)) - 1
          BY <2>5, RefusalCools
    <3> QED BY <1>1, <2>1, <2>2, <3>1, <3>2 DEF Clickable
  <2>6. \/ UNCHANGED <<enabled, told>>
        \/ Message({})
        \/ AnswerArrives(a) /\ a.state = "refused" /\ Message({a.load})
        BY DEF Execute, AnswerArrives, NotAvailable, NoAnswer
  <2> QED BY <2>3, <2>4, <2>5, <2>6
<1>4. PaidInv'
      BY <1>1, <1>3 DEF PaidInv
<1> QED BY <1>2, <1>4 DEF FormInOrder

LEMMA InOrderInit == TerminalInit => FormInOrder
<1> SUFFICES ASSUME TerminalInit PROVE FormInOrder
    OBVIOUS
<1>1. loads = <<>> /\ DOMAIN loads = {} /\ asked = {} /\ bound = {}
      BY DEF TerminalInit
<1>2. AskedInv
      BY <1>1, FS_EmptySet DEF AskedInv
<1>3. PaidInv
      BY <1>1 DEF PaidInv
<1> QED BY <1>2, <1>3, TerminalInitType DEF FormInOrder

LEMMA InOrderNext == FormInOrder /\ [TerminalNext]_terminalVars => FormInOrder'
<1> SUFFICES ASSUME FormInOrder, [TerminalNext]_terminalVars PROVE FormInOrder'
    OBVIOUS
<1>0. TerminalBound'
      BY TerminalNextType DEF FormInOrder
<1>1. CASE UNCHANGED <<loads, bound, enabled, clicks, asked, told>>
      BY <1>0, <1>1, PagesMove DEF Clickable, FormInOrder, AskedInv
<1>2. CASE \E dir \in Dir : load_subdir(dir)
      BY <1>0, <1>2, LoadInOrder
<1>3. CASE \E n \in DOMAIN loads : show_new_page(n) \/ Script(n)
      BY <1>0, <1>3, ShowInOrder, ScriptInOrder
<1>4. CASE \E g \in Global : ChangeSection(g) \/ \E who \in Holder : Identify(g, who)
      BY <1>1, <1>4 DEF ChangeSection, Identify, pageVars
<1>5. CASE \E l \in lookups : student_identify(l) \/ NotIdentified(l)
  <2>1. ASSUME NEW l \in lookups, student_identify(l) PROVE FormInOrder'
        BY <1>1, <2>1 DEF student_identify
  <2> QED BY <1>0, <1>5, <2>1, NotIdentifiedInOrder
<1>6. CASE \E refused \in SUBSET bound : Confirm(refused)
      BY <1>0, <1>6, ConfirmInOrder
<1>7. CASE \E a \in asked :
             \/ \E state \in {"done", "refused"} : Execute(a, state)
             \/ AnswerArrives(a) \/ NotAvailable(a) \/ NoAnswer(a)
      BY <1>0, <1>7, AnswersInOrder
<1>8. CASE UNCHANGED terminalVars
      BY <1>1, <1>8 DEF terminalVars
<1> QED BY <1>2, <1>3, <1>4, <1>5, <1>6, <1>7, <1>8 DEF TerminalNext

\* A filled-in form pays once, and once more for each message that does not refuse
\* one of its payments and enables confirm again (transaction_simple/scripts.js:48-128,
\* common.js:44), however often it is clicked, whatever pages, scripts and answers
\* come late, and also after the answer ok.
THEOREM FormPaidOnceTheorem == TerminalSpec => []FormPaidOnce
<1>1. FormInOrder => FormPaidOnce
  <2> SUFFICES ASSUME FormInOrder, NEW n \in DOMAIN loads
               PROVE  Cardinality({a \in FormPayments(n) : a.state = "done"}) <= 1 + told[n]
      BY DEF FormPaidOnce
  <2> DEFINE paid == {a \in FormPayments(n) : a.state = "done"}
  <2>1. told[n] \in Nat /\ IsFiniteSet(Hot(n)) /\ Cardinality(Hot(n)) \in Nat
        BY LoadsType, HotFinite DEF FormInOrder
  <2>2. paid \in SUBSET Hot(n)
        BY DEF Hot, IsHot
  <2>3. Cardinality(paid) <= Cardinality(Hot(n)) /\ Cardinality(paid) \in Nat
        BY <2>1, <2>2, FS_Subset, FS_CardinalityType
  <2>4. Cardinality(Hot(n)) <= told[n] + (IF Clickable(n) THEN 0 ELSE 1)
        BY DEF FormInOrder, PaidInv
  <2> QED BY <2>1, <2>3, <2>4
<1> QED BY <1>1, InOrderInit, InOrderNext, PTL DEF TerminalSpec

-----------------------------------------------------------------------------
(* The terminal: whom the sections name *)

Unnamed == \A g \in Global : section[g] = Nobody

NamedInv ==
  /\ shown = 0 => Unnamed
  /\ shown # 0 => loads[shown].stage # "page"
  /\ \A l \in lookups : l.load \in DOMAIN loads /\ l.global \in Globals(loads[l.load].dir)
  /\ ~crossed =>
       /\ \A g \in Global : section[g] # Nobody => current[g] = section[g]
       /\ shown # 0 /\ loads[shown].stage = "script" => Unnamed
       /\ shown # 0 /\ loads[shown].stage = "complete" => handler = loads[shown].dir

SectionsTrue == TerminalBound /\ NamedInv

LEMMA ShownType ==
  ASSUME TerminalBound
  PROVE  /\ shown # 0 => shown \in DOMAIN loads
         /\ \A n \in DOMAIN loads : n # 0
         /\ section \in Persons /\ current \in Persons /\ crossed \in BOOLEAN
         /\ \A l \in lookups : l.global \in Global /\ l.who \in Holder
<1>1. \A n \in DOMAIN loads : n # 0
      BY LoadsType
<1> QED BY <1>1 DEF TerminalBound, TerminalTypeOK, Persons, LookupQuery

\* The pages stay as they are.
LEMMA PersonsNamed ==
  ASSUME SectionsTrue, UNCHANGED <<loads, shown, handler, current, crossed>>,
         section' = section \/ \E g \in Global : section' = [section EXCEPT ![g] = Nobody],
         \A l \in lookups' : l \in lookups \/
           (l.load \in DOMAIN loads /\ l.global \in Globals(loads[l.load].dir))
  PROVE  NamedInv'
<1>1. section \in Persons
      BY ShownType DEF SectionsTrue
<1>2. \A g \in Global : section'[g] = section[g] \/ section'[g] = Nobody
      BY <1>1 DEF Persons
<1> QED BY <1>2 DEF SectionsTrue, NamedInv, Unnamed

LEMMA LoadNamed ==
  ASSUME SectionsTrue, NEW dir \in Dir, load_subdir(dir)
  PROVE  NamedInv'
<1>1. /\ \A n \in DOMAIN loads : n \in DOMAIN loads' /\ loads'[n] = loads[n]
      /\ UNCHANGED <<shown, handler, current, section, lookups, crossed>>
      BY LoadStep DEF load_subdir, SectionsTrue
<1>2. shown # 0 => shown \in DOMAIN loads
      BY ShownType DEF SectionsTrue
<1> QED BY <1>1, <1>2 DEF SectionsTrue, NamedInv, Unnamed

LEMMA ShowNamed ==
  ASSUME SectionsTrue, NEW n \in DOMAIN loads, show_new_page(n)
  PROVE  NamedInv'
<1>1. /\ DOMAIN loads' = DOMAIN loads
      /\ \A m \in DOMAIN loads : loads'[m].dir = loads[m].dir
      /\ \A m \in DOMAIN loads : loads'[m].stage = IF m = n THEN "script" ELSE loads[m].stage
      BY StageStep DEF show_new_page, SectionsTrue
<1>2. /\ shown' = n /\ section' = [g \in Global |-> Nobody] /\ UNCHANGED <<handler, current, lookups>>
      /\ n # 0
      BY ShownType DEF show_new_page, SectionsTrue
<1>3. Unnamed' /\ loads'[shown'].stage = "script" /\ shown' # 0
      BY <1>1, <1>2 DEF Unnamed
<1>4. \A l \in lookups' : l.load \in DOMAIN loads' /\ l.global \in Globals(loads'[l.load].dir)
      BY <1>1, <1>2 DEF SectionsTrue, NamedInv
<1> QED BY <1>3, <1>4 DEF NamedInv, Unnamed

LEMMA ScriptNamed ==
  ASSUME SectionsTrue, NEW n \in DOMAIN loads, Script(n)
  PROVE  NamedInv'
<1>1. /\ DOMAIN loads' = DOMAIN loads
      /\ \A m \in DOMAIN loads : loads'[m].dir = loads[m].dir
      /\ \A m \in DOMAIN loads : loads'[m].stage = IF m = n THEN "complete" ELSE loads[m].stage
      BY StageStep DEF Script, SectionsTrue
<1>2. /\ handler' = loads[n].dir /\ UNCHANGED <<shown, section, lookups>>
      /\ crossed' = (crossed \/ n # shown \/ \E g \in Global : section[g] # Nobody)
      BY DEF Script
<1>3. shown # 0 => shown \in DOMAIN loads /\ loads[shown].stage # "page"
      BY ShownType DEF SectionsTrue, NamedInv
<1>4. shown' # 0 => loads'[shown'].stage # "page"
      BY <1>1, <1>2, <1>3
<1>5. \A l \in lookups' : l.load \in DOMAIN loads' /\ l.global \in Globals(loads'[l.load].dir)
      BY <1>1, <1>2 DEF SectionsTrue, NamedInv
<1>6. shown' = 0 => Unnamed'
      BY <1>2 DEF SectionsTrue, NamedInv, Unnamed
<1>7. ~crossed' => Unnamed' /\ n = shown' /\ loads'[n].stage = "complete" /\ loads'[n].dir = handler'
      BY <1>1, <1>2 DEF Unnamed
<1> QED BY <1>4, <1>5, <1>6, <1>7 DEF NamedInv, Unnamed

\* The handler in force is that of the page, which knows the global of the section.
LEMMA IdentifiedNamed ==
  ASSUME SectionsTrue, NEW l \in lookups, student_identify(l)
  PROVE  NamedInv'
<1>1. /\ l.load \in DOMAIN loads /\ l.global \in Globals(loads[l.load].dir)
      /\ l.global \in Global /\ l.load # 0 /\ section \in Persons /\ current \in Persons
      /\ shown = 0 => Unnamed
      /\ shown # 0 => loads[shown].stage # "page"
      BY ShownType DEF SectionsTrue, NamedInv
<1>2. /\ UNCHANGED <<loads, shown, handler>> /\ lookups' = lookups \ {l}
      /\ section' = IF l.load = shown THEN [section EXCEPT ![l.global] = l.who] ELSE section
      /\ current' = handleIdentifyAnswer(l)
      /\ crossed' = (crossed \/ l.load # shown \/ loads[shown].stage # "complete")
      BY DEF student_identify
<1>3. ASSUME ~crossed'
      PROVE  /\ loads[shown].stage = "complete" /\ handler = loads[shown].dir
             /\ \A g \in Global : section'[g] # Nobody => current'[g] = section'[g]
  <2>1. ~crossed /\ l.load = shown /\ loads[shown].stage = "complete"
        BY <1>2, <1>3
  <2>2. /\ handler = loads[shown].dir /\ handler \in Dir
        /\ \A g \in Global : section[g] # Nobody => current[g] = section[g]
        BY <1>1, <2>1, LoadsType DEF SectionsTrue, NamedInv
  <2>3. current' = [current EXCEPT ![l.global] = l.who]
    <3>1. CASE handler = "transaction_simple"
      <4>1. l.global # "qrid"
            BY <1>1, <2>1, <2>2, <3>1 DEF Globals
      <4> QED BY <1>2, <3>1, <4>1 DEF handleIdentifyAnswer
    <3>2. CASE handler # "transaction_simple"
      <4>1. l.global = "qrid" /\ handler # "none"
            BY <1>1, <2>1, <2>2, <3>2 DEF Globals, Dir
      <4> QED BY <1>2, <3>2, <4>1 DEF handleIdentifyAnswer
    <3> QED BY <3>1, <3>2
  <2>4. section' = [section EXCEPT ![l.global] = l.who]
        BY <1>2, <2>1
  <2>5. \A g \in Global : section'[g] # Nobody => current'[g] = section'[g]
        BY <1>1, <2>2, <2>3, <2>4 DEF Persons
  <2> QED BY <2>1, <2>2, <2>5
<1>4. shown' = 0 => Unnamed'
      BY <1>1, <1>2 DEF Unnamed
<1>5. \A m \in lookups' : m.load \in DOMAIN loads' /\ m.global \in Globals(loads'[m.load].dir)
      BY <1>2 DEF SectionsTrue, NamedInv
<1> QED BY <1>1, <1>2, <1>3, <1>4, <1>5 DEF NamedInv

LEMMA NamedNext == SectionsTrue /\ [TerminalNext]_terminalVars => SectionsTrue'
<1> SUFFICES ASSUME SectionsTrue, [TerminalNext]_terminalVars PROVE SectionsTrue'
    OBVIOUS
<1>1. ASSUME UNCHANGED <<loads, shown, handler, current, section, lookups, crossed>>
      PROVE  NamedInv'
      BY <1>1, PersonsNamed
<1>2. ASSUME NEW dir \in Dir, load_subdir(dir) PROVE NamedInv'
      BY <1>2, LoadNamed
<1>3. ASSUME NEW n \in DOMAIN loads, show_new_page(n) \/ Script(n) PROVE NamedInv'
      BY <1>3, ShowNamed, ScriptNamed
<1>4. ASSUME NEW g \in Global, ChangeSection(g) PROVE NamedInv'
      BY <1>4, PersonsNamed DEF ChangeSection
<1>5. ASSUME NEW g \in Global, NEW who \in Holder, Identify(g, who) PROVE NamedInv'
  <2>1. shown \in DOMAIN loads /\ g \in Globals(loads[shown].dir)
        /\ lookups' = lookups \cup {[global |-> g, who |-> who, load |-> shown]}
        /\ UNCHANGED <<loads, shown, handler, current, section, crossed>>
        BY <1>5, ShownType DEF Identify, pageVars, SectionsTrue
  <2>2. \A l \in lookups' : l \in lookups \/
          (l.load \in DOMAIN loads /\ l.global \in Globals(loads[l.load].dir))
        BY <2>1
  <2> QED BY <2>1, <2>2, PersonsNamed
<1>6. ASSUME NEW l \in lookups, student_identify(l) \/ NotIdentified(l) PROVE NamedInv'
  <2>1. CASE NotIdentified(l)
    <3>1. lookups' = lookups \ {l} /\ UNCHANGED <<loads, shown, handler, current, section, crossed>>
          BY <2>1 DEF NotIdentified, pageVars
    <3> QED BY <3>1, PersonsNamed
  <2> QED BY <1>6, <2>1, IdentifiedNamed
<1>7. ASSUME NEW refused \in SUBSET bound, Confirm(refused) PROVE NamedInv'
      BY <1>1, <1>7 DEF Confirm, ConfirmSends, pageVars
<1>8. ASSUME NEW a \in asked,
             \/ \E state \in {"done", "refused"} : Execute(a, state)
             \/ AnswerArrives(a) \/ NotAvailable(a) \/ NoAnswer(a)
      PROVE  NamedInv'
  <2>1. UNCHANGED <<loads, shown, section, handler, current, lookups, crossed>>
        BY <1>8, AskGoesOn DEF SectionsTrue, TerminalBound
  <2> QED BY <1>1, <2>1
<1>9. ASSUME UNCHANGED terminalVars PROVE NamedInv'
      BY <1>1, <1>9 DEF terminalVars
<1>10. NamedInv'
       BY <1>2, <1>3, <1>4, <1>5, <1>6, <1>7, <1>8, <1>9 DEF TerminalNext, SectionsTrue
<1> QED BY <1>10, TerminalNextType DEF SectionsTrue

\* Whoever a section names is in the global that confirm sends, unless a script or
\* an answer came to a page that did not wait for it since the page was shown:
\* for any number of pages, persons and queries at a time (userterminal/site/common.js:62,
\* index.js:20).
THEOREM NamedIsMeantTheorem == TerminalSpec => []NamedIsMeant
<1>1. TerminalInit => SectionsTrue
      BY TerminalInitType DEF TerminalInit, SectionsTrue, NamedInv, Unnamed
<1>2. SectionsTrue => NamedIsMeant
      BY DEF SectionsTrue, NamedInv, NamedIsMeant
<1> QED BY <1>1, <1>2, NamedNext, PTL DEF TerminalSpec

===================================================================================
