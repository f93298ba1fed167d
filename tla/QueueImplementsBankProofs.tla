----------------------- MODULE QueueImplementsBankProofs -----------------------
(***************************************************************************)
(* The payment protocol implements Bank, for any number of requests,       *)
(* accounts, workers, entries, failures and crashes, and whatever the      *)
(* order and the life of the intents.                                      *)
(***************************************************************************)
EXTENDS QueueImplementsBank, TransactionQueueProofs

\* What is known of the protocol's states from the other proofs.
AllKnown == TypeInv /\ Chained /\ Tried /\ Settled /\ Truthful /\ SafeInv /\ ReasonInv

LEMMA KnownAlways ==
  ASSUME SingleRound
  PROVE  Spec => []AllKnown
<1>1. Init => TypeInv /\ Truthful
  <2>1. Init => TypeInv
        BY SafeInit
  <2>2. Init => Truthful
        BY ConstantsAssumption DEF Init, Truthful
  <2> QED BY <2>1, <2>2
<1>2. TypeInv /\ Truthful /\ [Next]_vars => Truthful'
      BY TruthfulNext DEF TypeInv
<1>3. TypeInv /\ [Next]_vars => TypeInv'
      BY TypeNext
<1>4. TypeInv /\ Chained /\ Tried /\ Settled /\ Truthful /\ SafeInv /\ ReasonInv <=> AllKnown
      BY DEF AllKnown
<1> QED BY <1>1, <1>2, <1>3, <1>4, SafeAlways, SettledAlways, ReasonAlways, PTL DEF Spec

-----------------------------------------------------------------------------
(* The mapping *)

\* What Status makes of the requests: nothing is written before the queue, and
\* with a single round a chain that works on a payment is its only one.
LEMMA StatusIs ==
  ASSUME SingleRound, TypeOK, Chained, Tried, Truthful, NEW r \in Request
  PROVE  /\ phase[r] = "new" => Status(r) = "none"
         /\ phase[r] \in {"intent", "saved", "spawn"} => Status(r) = "pending"
         /\ phase[r] = "spawned" => Status(r) = "paid"
         /\ \A k \in Round :
              /\ at[r][k] \notin {"idle", "written"} =>
                   Status(r) = IF written[r] = 0 THEN "pending" ELSE "doubtful"
              /\ at[r][k] = "written" => Status(r) = "paid"
<1>1. written[r] \in Nat
      BY DEF TypeOK
<1>2. ASSUME NEW k \in Round, at[r][k] \notin {"idle", "written"}
      PROVE  Status(r) = IF written[r] = 0 THEN "pending" ELSE "doubtful"
  <2>1. phase[r] = "queued" /\ \A j \in Round : at[r][j] # "written"
        BY <1>2, SingleRound DEF SingleRound, Chained
  <2> QED BY <2>1 DEF Status
<1>3. ASSUME NEW k \in Round, at[r][k] = "written" PROVE Status(r) = "paid"
  <2>1. phase[r] = "queued" /\ written[r] > 0
        BY <1>3 DEF Chained, Truthful
  <2> QED BY <1>1, <1>3, <2>1 DEF Status
<1>4. /\ phase[r] = "new" => Status(r) = "none"
      /\ phase[r] \in {"intent", "saved", "spawn"} => Status(r) = "pending"
      /\ phase[r] = "spawned" => Status(r) = "paid"
      BY DEF Status, Tried
<1> QED BY <1>2, <1>3, <1>4

\* A request that keeps its phase, its documents and its written callbacks.
LEMMA SameStatus ==
  ASSUME NEW q \in Request, phase'[q] = phase[q], written'[q] = written[q],
         \A j \in Round : at'[q][j] = "written" <=> at[q][j] = "written"
  PROVE  Status(q)' = Status(q)
BY DEF Status

\* Steps that pay nothing and take nothing back.
Unpaid == UNCHANGED <<entry, ledger, written, deleted, reclaimed>>

LEMMA Still ==
  ASSUME Unpaid
  PROVE  /\ [a \in Account |-> Balance(a)]' = [a \in Account |-> Balance(a)]
         /\ [q \in Request |-> written[q] - deleted[q]]' = [q \in Request |-> written[q] - deleted[q]]
         /\ entry' = entry /\ reclaimed' = reclaimed
BY DEF Unpaid, ledger, Balance

LEMMA Stutter ==
  ASSUME Unpaid, UNCHANGED <<short, answer, unguarded>>,
         \A q \in Request : Status(q)' = Status(q)
  PROVE  UNCHANGED B!vars
BY Still DEF B!vars

\* The bank loses track of a sender when the order of its intents breaks.
LEMMA Losing ==
  ASSUME Unpaid, UNCHANGED <<short, answer>>, NEW r \in Request, NEW broken,
         unguarded' = unguarded \cup {s \in {SenderOf(r)} : broken},
         broken => SenderOf(r) \in Account,
         \A q \in Request : Status(q)' = Status(q)
  PROVE  B!Next \/ UNCHANGED B!vars
<1>1. CASE broken
  <2>1. B!LoseTrack(SenderOf(r))
        BY <1>1, Still DEF B!LoseTrack
  <2> QED BY <1>1, <2>1 DEF B!Next
<1>2. CASE ~broken
      BY <1>2, Stutter
<1> QED BY <1>1, <1>2

\* What a document is worth to an account.
LEMMA ShareOf ==
  ASSUME TypeOK, NEW e \in Entry, NEW sign \in {1, -1}, Book(e, sign), NEW a \in Account
  PROVE  /\ sign = 1 => Balance(a)' = Balance(a) + B!Share(e, a)
         /\ sign = -1 => Balance(a)' = Balance(a) - B!Share(e, a)
<1>1. e.sent \in Int /\ e.received \in Int /\ e.tax \in Int
      BY EntryAssumption
<1>2. income[a] \in Int /\ payments[a] \in Int /\ taxincome[a] \in Int
      BY DEF TypeOK
<1>3. /\ income'[a] = income[a] + (IF a = e.recipient THEN sign * e.received ELSE 0)
      /\ payments'[a] = payments[a] + (IF a = e.sender THEN sign * e.sent ELSE 0)
      /\ taxincome'[a] = taxincome[a] + (IF a = e.tax_recipient THEN sign * e.tax ELSE 0)
      BY DEF Book
<1>4. CASE sign = 1
      BY <1>1, <1>2, <1>3, <1>4 DEF Balance, B!Share, B!Income
<1>5. CASE sign = -1
      BY <1>1, <1>2, <1>3, <1>5 DEF Balance, B!Share, B!Income
<1> QED BY <1>4, <1>5

\* The insertion of the document of r is the payment.
LEMMA Paying ==
  ASSUME TypeOK, NEW r \in Request, entry[r] \in Entry, Book(entry[r], 1),
         written' = [written EXCEPT ![r] = @ + 1],
         Status(r) \in {"pending", "doubtful"}, Status(r)' = "paid",
         \A q \in Request : q # r => Status(q)' = Status(q),
         \/ entry[r].sender = NoAccount
         \/ entry[r].sender \in unguarded
         \/ /\ entry[r].sender \in Account
            /\ Balance(entry[r].sender) + reclaimed[entry[r].sender] >= entry[r].sent,
         UNCHANGED <<entry, short, answer, deleted, reclaimed, unguarded>>
  PROVE  B!Pay(r)
<1>1. \A a \in Account : Balance(a)' = Balance(a) + B!Share(entry[r], a)
      BY ShareOf
<1>2. [a \in Account |-> Balance(a)]'
        = [a \in Account |-> [b \in Account |-> Balance(b)][a] + B!Share(entry[r], a)]
      BY <1>1
<1>3. B!Open(r) /\ B!Covered(r)
      BY DEF B!Open, B!Covered
<1>4. [q \in Request |-> Status(q)]' =
        [[q \in Request |-> Status(q)] EXCEPT ![r] = "paid"]
      OBVIOUS
<1>5. [q \in Request |-> written[q] - deleted[q]]' =
        [[q \in Request |-> written[q] - deleted[q]] EXCEPT ![r] = @ + 1]
  <2>1. \A q \in Request : written[q] \in Int /\ deleted[q] \in Int
        BY DEF TypeOK
  <2>2. \A q \in Request : written'[q] = IF q = r THEN written[q] + 1 ELSE written[q]
        BY DEF TypeOK
  <2>3. ASSUME NEW q \in Request
        PROVE  written'[q] - deleted'[q] =
                 IF q = r THEN (written[q] - deleted[q]) + 1 ELSE written[q] - deleted[q]
        BY <2>1, <2>2
  <2> QED BY <2>3
<1> QED BY <1>2, <1>3, <1>4, <1>5 DEF B!Pay

\* So is its removal what administrators take back.
LEMMA Taking ==
  ASSUME TypeOK, NEW r \in Request, entry[r] \in Entry, Delete(r)
  PROVE  B!TakeBack(r)
<1>1. /\ Book(entry[r], -1) /\ deleted[r] < written[r]
      /\ deleted' = [deleted EXCEPT ![r] = @ + 1]
      /\ UNCHANGED <<phase, at, entry, written, unguarded, short, answer>>
      BY DEF Delete, chain
<1>2. \A a \in Account : Balance(a)' = Balance(a) - B!Share(entry[r], a)
      BY <1>1, ShareOf
<1>3. [a \in Account |-> Balance(a)]'
        = [a \in Account |-> [b \in Account |-> Balance(b)][a] - B!Share(entry[r], a)]
      BY <1>2
<1>4. reclaimed' = [a \in Account |-> reclaimed[a] + B!Income(entry[r], a)]
  <2>1. entry[r].received \in Nat /\ entry[r].tax \in Nat
        BY EntryAssumption
  <2>2. ASSUME NEW a \in Account
        PROVE  reclaimed[a] + (IF a = entry[r].recipient THEN entry[r].received ELSE 0)
                            + (IF a = entry[r].tax_recipient THEN entry[r].tax ELSE 0)
               = reclaimed[a] + B!Income(entry[r], a)
        BY <2>1 DEF TypeOK, B!Income
  <2> QED BY <2>2 DEF Delete
<1>5. /\ \A q \in Request : written[q] \in Int /\ deleted[q] \in Int
      /\ \A q \in Request : deleted'[q] = IF q = r THEN deleted[q] + 1 ELSE deleted[q]
      BY <1>1 DEF TypeOK
<1>6. [q \in Request |-> written[q] - deleted[q]]' =
        [[q \in Request |-> written[q] - deleted[q]] EXCEPT ![r] = @ - 1]
  <2>1. ASSUME NEW q \in Request
        PROVE  written'[q] - deleted'[q] =
                 IF q = r THEN (written[q] - deleted[q]) - 1 ELSE written[q] - deleted[q]
        BY <1>1, <1>5
  <2> QED BY <2>1
<1>7. [q \in Request |-> written[q] - deleted[q]][r] > 0
      BY <1>1, <1>5
<1>8. [q \in Request |-> Status(q)]' = [q \in Request |-> Status(q)]
      BY <1>1 DEF Status
<1> QED BY <1>1, <1>3, <1>4, <1>6, <1>7, <1>8 DEF B!TakeBack

LEMMA InitMaps == Init => B!Init
<1> SUFFICES ASSUME Init PROVE B!Init
    OBVIOUS
<1>1. \A a \in Account : Balance(a) = Opening[a]
      BY ConstantsAssumption DEF Init, Balance
<1>2. [a \in Account |-> Balance(a)] = Opening
      BY <1>1, ConstantsAssumption
<1>3. [q \in Request |-> written[q] - deleted[q]] = [q \in Request |-> 0]
      BY DEF Init
<1> QED BY <1>2, <1>3 DEF Init, B!Init, Status

-----------------------------------------------------------------------------
(* Every step is a step of Bank or none *)

LEMMA StepMaps ==
  ASSUME SingleRound, AllKnown, AllKnown', [Next]_vars
  PROVE  B!Next \/ UNCHANGED B!vars
<1>t. TypeOK /\ Announced /\ Chained /\ Tried /\ Settled /\ Truthful /\ SafeInv /\ ReasonInv
      BY DEF AllKnown, TypeInv
<1>u. TypeOK' /\ Chained' /\ Tried' /\ Truthful'
      BY DEF AllKnown, TypeInv
<1> USE DEF ledger, chain, history, mishaps
<1>w. \A q \in Request : written[q] \in Nat
      BY <1>t DEF TypeOK
<1>1. ASSUME NEW r \in Request, NEW w \in Worker, NEW e \in Entry, NEW t \in Time,
             Transaction(w, r, e, t)
      PROVE  B!Next
  <2>1. /\ phase[r] = "new" /\ phase'[r] \in {"spawn", "intent"}
        /\ \A q \in Request : q # r => phase'[q] = phase[q]
        /\ entry' = [entry EXCEPT ![r] = e]
        /\ UNCHANGED <<at, written, deleted, ledger, reclaimed, unguarded, answer, short>>
        BY <1>1, <1>t DEF Transaction, TypeOK
  <2>2. /\ Status(r) = "none"
        /\ \A q \in Request : q # r => Status(q)' = Status(q)
        BY <1>t, <2>1, StatusIs DEF Status
  <2>3. Status(r)' = "pending"
        BY <1>t, <2>1 DEF Status, Tried
  <2>4. [a \in Account |-> Balance(a)]' = [a \in Account |-> Balance(a)]
        BY <2>1 DEF Balance
  <2>5. B!Submit(r, e)
        BY <2>1, <2>2, <2>3, <2>4 DEF B!Submit
  <2> QED BY <2>5 DEF B!Next
<1>2. ASSUME NEW r \in Request, SaveIntent(r) \/ Queue(r)
      PROVE  B!Next \/ UNCHANGED B!vars
  <2>1. /\ phase[r] \in {"intent", "saved"} /\ phase'[r] \in {"saved", "queued"}
        /\ \A q \in Request : q # r => phase'[q] = phase[q]
        /\ Unpaid /\ UNCHANGED <<at, written, answer, short>>
        BY <1>2, <1>t DEF SaveIntent, Queue, Unpaid, TypeOK
  <2>2. written[r] = 0 /\ SenderOf(r) \in Account
        BY <1>t, <2>1 DEF Tried, Announced, SenderOf
  <2>3. \A q \in Request : Status(q)' = Status(q)
        BY <2>1, <2>2 DEF Status
  <2>4. CASE SaveIntent(r)
    <3>1. unguarded' = unguarded \cup {s \in {SenderOf(r)} : Overtakes(r)}
          BY <2>4 DEF SaveIntent
    <3> HIDE DEF ledger, chain, history, mishaps
    <3> QED BY <2>1, <2>2, <2>3, <3>1, Losing
  <2>5. CASE Queue(r)
        BY <2>1, <2>3, <2>5, Stutter DEF Queue
  <2> QED BY <1>2, <2>4, <2>5
<1>3. ASSUME NEW r \in Request, WriteSpawn(r) PROVE B!Next
  <2>1. /\ phase[r] = "spawn" /\ phase'[r] = "spawned" /\ Book(entry[r], 1)
        /\ entry[r] \in Entry /\ entry[r].sender = NoAccount
        /\ written' = [written EXCEPT ![r] = @ + 1]
        /\ \A q \in Request : q # r => phase'[q] = phase[q] /\ written'[q] = written[q]
        /\ UNCHANGED <<at, answer, short, entry, deleted, reclaimed, unguarded>>
        BY <1>3, <1>t DEF WriteSpawn, Announced, TypeOK
  <2>2. Status(r) = "pending" /\ Status(r)' = "paid"
    <3>1. written[r] = 0 /\ written'[r] = 1
          BY <1>t, <2>1 DEF Tried, TypeOK
    <3> QED BY <2>1, <3>1 DEF Status
  <2>3. \A q \in Request : q # r => Status(q)' = Status(q)
        BY <2>1, SameStatus
  <2>4. B!Pay(r)
        BY <1>t, <2>1, <2>2, <2>3, Paying
  <2> QED BY <2>4 DEF B!Next
<1>4. ASSUME NEW r \in Request,
             SpawnDone(r) \/ \E k \in Round : WriteDone(r, k)
      PROVE  B!Next
  <2>1. /\ phase'[r] = "gone" /\ Reply(r, "ok")
        /\ phase[r] = "spawned" \/ \E k \in Round : at[r][k] = "written"
        /\ \A q \in Request : q # r => phase'[q] = phase[q] /\ at'[q] = at[q]
        /\ Unpaid /\ UNCHANGED <<short, unguarded>>
        BY <1>4, <1>t DEF SpawnDone, WriteDone, Settle, Move, Unpaid, TypeOK
  <2>2. written[r] > 0 /\ written' = written /\ phase[r] # "new"
        BY <1>t, <2>1 DEF Truthful, Chained, Unpaid
  <2>3. Status(r) = "paid"
        BY <1>t, <2>1, StatusIs
  <2>4. Status(r)' = "paid"
        BY <1>w, <2>1, <2>2 DEF Status
  <2>5. \A q \in Request : q # r => Status(q)' = Status(q)
        BY <2>1, <2>2, SameStatus
  <2>6. B!Confirm(r)
        BY <2>1, <2>3, <2>4, <2>5, Still DEF B!Confirm, B!Tell, Reply
  <2> QED BY <2>6 DEF B!Next
<1>5. ASSUME NEW r \in Request, IntentFails(r) \/ SpawnFails(r) PROVE B!Next
  <2>1. /\ phase[r] \in {"intent", "saved", "spawn", "spawned"} /\ phase'[r] = "gone"
        /\ Reply(r, "error")
        /\ \A q \in Request : q # r => phase'[q] = phase[q]
        /\ Unpaid /\ UNCHANGED <<at, short, unguarded>>
        BY <1>5, <1>t DEF IntentFails, SpawnFails, Fail, Unpaid, TypeOK
  <2>2. \A q \in Request : q # r => Status(q)' = Status(q)
        BY <2>1, SameStatus DEF Unpaid
  <2>3. CASE phase[r] # "spawned"
    <3>1. Status(r) = "pending" /\ Status(r)' = "dropped"
          BY <1>t, <2>1, <2>3 DEF Status, Tried, Unpaid
    <3>2. B!Report(r)
          BY <2>1, <2>2, <3>1, Still DEF B!Report, B!Tell, Reply
    <3> QED BY <3>2 DEF B!Next
  <2>4. CASE phase[r] = "spawned"
    <3>1. Status(r) = "paid" /\ Status(r)' = "paid"
          BY <1>t, <2>1, <2>4 DEF Status, Tried, Unpaid
    <3>2. B!Report(r)
          BY <2>1, <2>2, <3>1, Still DEF B!Report, B!Tell, Reply
    <3> QED BY <3>2 DEF B!Next
  <2> QED BY <2>3, <2>4
<1>6. ASSUME NEW r \in Request, WriteComplete(r) \/ RemoveFails(r)
      PROVE  UNCHANGED B!vars
  <2>1. Unpaid /\ UNCHANGED <<phase, at, written, short, answer, unguarded>>
        BY <1>6 DEF WriteComplete, RemoveFails, Unpaid
  <2>2. \A q \in Request : Status(q)' = Status(q)
        BY <2>1 DEF Status
  <2> QED BY <2>1, <2>2, Stutter
<1>7. ASSUME NEW r \in Request, Expire(r) PROVE B!Next \/ UNCHANGED B!vars
  <2>1. /\ Unpaid /\ UNCHANGED <<phase, at, written, short, answer>>
        /\ unguarded' = unguarded \cup {s \in {SenderOf(r)} : Busy(r)}
        BY <1>7 DEF Expire, Unpaid
  <2>2. \A q \in Request : Status(q)' = Status(q)
        BY <2>1 DEF Status
  <2>3. Busy(r) => SenderOf(r) \in Account
        BY <1>t DEF Busy, Announced, SenderOf
  <2> HIDE DEF ledger, chain, history, mishaps
  <2> QED BY <2>1, <2>2, <2>3, Losing
<1>8. ASSUME NEW r \in Request, NEW k \in Round,
             CheckWritePermission(r, k) \/ OnWritePermission(r, k)
      PROVE  UNCHANGED B!vars
  <2>1. /\ Unpaid /\ UNCHANGED <<phase, written, short, answer, unguarded>>
        /\ at[r][k] # "written" /\ at'[r][k] # "written"
        /\ \A q \in Request, j \in Round : q # r \/ j # k => at'[q][j] = at[q][j]
        BY <1>8, <1>t DEF CheckWritePermission, OnWritePermission, Move, Unpaid, TypeOK
  <2>2. ASSUME NEW q \in Request
        PROVE  \A j \in Round : at'[q][j] = "written" <=> at[q][j] = "written"
        BY <2>1
  <2>3. \A q \in Request : Status(q)' = Status(q)
        BY <2>1, <2>2, SameStatus
  <2> QED BY <2>1, <2>3, Stutter
<1>9. ASSUME NEW r \in Request, NEW k \in Round, NEW f \in Sum, GetBalance(r, k, f)
      PROVE  B!Next \/ UNCHANGED B!vars
  <2>1. /\ at[r][k] = "balance" /\ phase[r] = "queued"
        /\ Unpaid /\ UNCHANGED <<phase, at, written, answer, unguarded>>
        /\ short' = IF Balance(SenderOf(r)) < entry[r].sent THEN short \cup {r} ELSE short
        BY <1>9, <1>t DEF GetBalance, Chained, Unpaid
  <2>2. \A q \in Request : Status(q)' = Status(q)
        BY <2>1 DEF Status
  <2>3. CASE Balance(SenderOf(r)) < entry[r].sent
    <3>1. entry[r].sender \in Account /\ entry[r].sender # NoAccount
          BY <1>t, <2>1, ConstantsAssumption DEF Announced
    <3>2. B!Lacks(r)
          BY <2>3, <3>1 DEF B!Lacks, SenderOf
    <3>3. Status(r) \in {"pending", "doubtful"}
          BY <1>t, <2>1, StatusIs
    <3>4. B!Notice(r)
          BY <2>1, <2>2, <2>3, <3>2, <3>3, Still DEF B!Notice, B!Open
    <3> QED BY <3>4 DEF B!Next
  <2>4. CASE ~(Balance(SenderOf(r)) < entry[r].sent)
        BY <2>1, <2>2, <2>4, Stutter
  <2> QED BY <2>3, <2>4
<1>10. ASSUME NEW r \in Request, NEW k \in Round, BalanceKnown(r, k)
       PROVE  B!Next \/ UNCHANGED B!vars
  <2>1. /\ at[r][k] = "balance" /\ phase[r] = "queued"
        /\ Unpaid /\ UNCHANGED <<written, short, unguarded>>
        /\ \A f \in Sum : seen[r][k][f] # None
        /\ \A q \in Request : q # r => phase'[q] = phase[q] /\ at'[q] = at[q]
        BY <1>10, <1>t DEF BalanceKnown, Chained, Settle, Move, Unpaid, TypeOK
  <2>2. \A q \in Request : q # r => Status(q)' = Status(q)
        BY <2>1, SameStatus
  <2>3. Status(r) = IF written[r] = 0 THEN "pending" ELSE "doubtful"
        BY <1>t, <2>1, StatusIs
  <2>4. CASE Seen(r, k) < entry[r].sent
    <3>1. phase'[r] = "gone" /\ Reply(r, "nomoney")
          BY <1>10, <1>t, <2>4 DEF BalanceKnown, Settle, TypeOK
    <3>2. CASE written[r] = 0
      <4>1. Status(r) = "pending" /\ Status(r)' = "dropped"
            BY <2>1, <2>3, <3>1, <3>2 DEF Status
      <4>2. r \in short \/ Excusable(r)
            BY <1>t, <2>1, <2>4, RefusedWasShort DEF ReasonInv
      <4>3. SenderOf(r) \in Account /\ SenderOf(r) = entry[r].sender
            BY <1>t, <2>1 DEF Announced, SenderOf
      <4>4. r \in short \/ \E s \in Account :
              entry[r].sender = s /\ (s \in unguarded \/ reclaimed[s] > 0)
            BY <4>2, <4>3 DEF Excusable
      <4>5. B!Refuse(r)
            BY <2>1, <2>2, <3>1, <4>1, <4>4, Still DEF B!Refuse, B!Tell, Reply
      <4> QED BY <4>5 DEF B!Next
    <3>3. CASE written[r] # 0
      <4>1. \A j \in Round : at[r][j] # "written"
            BY <2>1, SingleRound DEF SingleRound
      <4>2. answer[r] = "error"
            BY <1>t, <1>w, <2>1, <3>3, <4>1 DEF Tried
      <4>3. answer' = answer
            BY <1>t, <3>1, <4>2, ConstantsAssumption DEF Reply, TypeOK
      <4>4. Status(r) = "doubtful" /\ Status(r)' = "paid"
            BY <2>1, <2>3, <3>1, <3>3 DEF Status
      <4>5. B!Abandon({r})
            BY <2>1, <2>2, <4>3, <4>4, Still DEF B!Abandon, B!Open
      <4> QED BY <4>5 DEF B!Next
    <3> QED BY <3>2, <3>3
  <2>5. CASE ~(Seen(r, k) < entry[r].sent)
    <3>1. UNCHANGED <<phase, answer>> /\ at'[r][k] = "write"
          BY <1>10, <1>t, <2>5 DEF BalanceKnown, Move, TypeOK
    <3>2. Status(r)' = IF written'[r] = 0 THEN "pending" ELSE "doubtful"
      <4>1. \A j \in Round : at'[r][j] # "written"
            BY <3>1, SingleRound DEF SingleRound
      <4> QED BY <2>1, <3>1, <4>1 DEF Status
    <3>3. \A q \in Request : Status(q)' = Status(q)
          BY <2>1, <2>2, <2>3, <3>2
    <3> QED BY <2>1, <3>1, <3>3, Stutter
  <2> QED BY <2>4, <2>5
<1>11. ASSUME NEW r \in Request, NEW k \in Round, Write(r, k) PROVE B!Next
  <2>1. /\ at[r][k] = "write" /\ phase[r] = "queued" /\ Book(entry[r], 1)
        /\ entry[r] \in Entry /\ entry[r].sender \in Account
        /\ written' = [written EXCEPT ![r] = @ + 1] /\ at'[r][k] = "written"
        /\ \A q \in Request : q # r => written'[q] = written[q] /\ at'[q] = at[q]
        /\ UNCHANGED <<phase, answer, short, entry, deleted, reclaimed, unguarded>>
        BY <1>11, <1>t DEF Write, Announced, Chained, Move, TypeOK
  <2>2. Status(r) \in {"pending", "doubtful"}
        BY <1>t, <2>1, StatusIs
  <2>3. Status(r)' = "paid"
    <3>1. written'[r] # 0 /\ phase'[r] = "queued"
          BY <1>w, <2>1, <1>t DEF TypeOK
    <3> QED BY <2>1, <3>1 DEF Status
  <2>4. \A q \in Request : q # r => Status(q)' = Status(q)
        BY <2>1, SameStatus
  <2>5. \/ entry[r].sender \in unguarded
        \/ Balance(entry[r].sender) + reclaimed[entry[r].sender] >= entry[r].sent
        BY <1>t, <2>1 DEF SafeInv, Covered, SenderOf, Worth
  <2>6. B!Pay(r)
        BY <1>t, <2>1, <2>2, <2>3, <2>4, <2>5, Paying
  <2> QED BY <2>6 DEF B!Next
<1>12. ASSUME NEW r \in Request, NEW k \in Round, StepFails(r, k)
       PROVE  B!Next \/ UNCHANGED B!vars
  <2>1. /\ at[r][k] # "idle" /\ at'[r][k] = "idle" /\ phase[r] = "queued"
        /\ Reply(r, "error")
        /\ Unpaid /\ UNCHANGED <<phase, written, short, unguarded>>
        /\ \A q \in Request : q # r => at'[q] = at[q]
        BY <1>12, <1>t DEF StepFails, Fail, Chained, Move, Unpaid, TypeOK
  <2>2. \A q \in Request : q # r => Status(q)' = Status(q)
        BY <2>1, SameStatus
  <2>3. Status(r)' = IF written[r] = 0 THEN "pending" ELSE "doubtful"
    <3>1. \A j \in Round : at'[r][j] # "written"
          BY <2>1, SingleRound DEF SingleRound
    <3> QED BY <2>1, <3>1 DEF Status
  <2>4. CASE at[r][k] = "written"
    <3>1. Status(r) = "paid" /\ written[r] # 0
          BY <1>t, <1>w, <2>4, StatusIs DEF Truthful
    <3>2. B!Report(r)
          BY <2>1, <2>2, <2>3, <3>1, Still DEF B!Report, B!Tell, Reply
    <3> QED BY <3>2 DEF B!Next
  <2>5. CASE at[r][k] # "written" /\ written[r] = 0
    <3>1. Status(r) = "pending"
          BY <1>t, <2>1, <2>5, StatusIs
    <3>2. B!Report(r)
          BY <2>1, <2>2, <2>3, <2>5, <3>1, Still DEF B!Report, B!Tell, Reply
    <3> QED BY <3>2 DEF B!Next
  <2>6. CASE at[r][k] # "written" /\ written[r] # 0
    <3>1. Status(r) = "doubtful"
          BY <1>t, <2>1, <2>6, StatusIs
    <3>2. \A j \in Round : at[r][j] # "written"
          BY <2>6, SingleRound DEF SingleRound
    <3>3. answer[r] = "error"
          BY <1>t, <1>w, <2>1, <2>6, <3>2 DEF Tried
    <3>4. answer' = answer
          BY <1>t, <2>1, <3>3, ConstantsAssumption DEF Reply, TypeOK
    <3> QED BY <2>1, <2>2, <2>3, <2>6, <3>1, <3>4, Stutter
  <2> QED BY <2>4, <2>5, <2>6
<1>13. ASSUME NEW w \in Worker, Crash(w) PROVE B!Next
  <2> DEFINE Mine == {q \in Request : owner[q] = w /\ Status(q) \in {"pending", "doubtful"}}
  <2>1. /\ Unpaid /\ UNCHANGED <<written, short, answer, unguarded>>
        /\ \A q \in Request :
             /\ phase'[q] = IF owner[q] = w /\ phase[q] # "gone" THEN "lost" ELSE phase[q]
             /\ owner[q] # w => at'[q] = at[q]
        BY <1>13 DEF Crash, Unpaid
  <2>2. \A q \in Request : owner[q] = w => phase[q] # "new"
        BY <1>t, ConstantsAssumption DEF Announced
  <2>3. ASSUME NEW q \in Request
        PROVE  Status(q)' = IF q \notin Mine THEN Status(q)
                            ELSE IF Status(q) = "pending" THEN "dropped" ELSE "paid"
    <3>1. CASE owner[q] # w
          BY <2>1, <3>1, SameStatus
    <3>2. CASE owner[q] = w
      <4>1. phase[q] # "new" /\ phase'[q] \in {"gone", "lost"}
            BY <2>1, <2>2, <3>2
      <4>2. Status(q)' = IF written[q] = 0 THEN "dropped" ELSE "paid"
            BY <2>1, <4>1 DEF Status
      <4>3. /\ written[q] = 0 => Status(q) \in {"pending", "dropped"}
            /\ written[q] # 0 => Status(q) \in {"doubtful", "paid"}
            BY <4>1 DEF Status
      <4> QED BY <3>2, <4>2, <4>3
    <3> QED BY <3>1, <3>2
  <2>4. \A q \in Mine : Status(q) \in {"pending", "doubtful"}
        OBVIOUS
  <2>5. Mine \in SUBSET Request
        OBVIOUS
  <2> HIDE DEF Mine
  <2>6. B!Abandon(Mine)
        BY <2>1, <2>3, <2>4, <2>5, Still DEF B!Abandon, B!Open
  <2> QED BY <2>5, <2>6 DEF B!Next
<1>14. ASSUME NEW r \in Request, Delete(r) PROVE B!Next
  <2>1. entry[r] \in Entry
        BY <1>14, <1>t DEF Delete, Announced, TypeOK
  <2>2. B!TakeBack(r)
        BY <1>14, <1>t, <2>1, Taking
  <2> QED BY <2>2 DEF B!Next
<1>15. ASSUME NEW w \in Worker, NEW k \in Round, Interval(w, k) PROVE UNCHANGED B!vars
  <2>1. /\ Unpaid /\ UNCHANGED <<phase, written, short, answer, unguarded>>
        /\ \A q \in Request, j \in Round :
             at'[q][j] = at[q][j] \/ (at[q][j] = "idle" /\ at'[q][j] = "check")
        BY <1>15, <1>t DEF Interval, Unpaid, TypeOK
  <2>2. ASSUME NEW q \in Request
        PROVE  \A j \in Round : at'[q][j] = "written" <=> at[q][j] = "written"
        BY <2>1
  <2>3. \A q \in Request : Status(q)' = Status(q)
        BY <2>1, <2>2, SameStatus
  <2> QED BY <2>1, <2>3, Stutter
<1>16. CASE UNCHANGED vars
  <2>1. Unpaid /\ UNCHANGED <<phase, at, written, short, answer, unguarded>>
        BY <1>16 DEF vars, Unpaid
  <2>2. \A q \in Request : Status(q)' = Status(q)
        BY <2>1 DEF Status
  <2> QED BY <2>1, <2>2, Stutter
<1> QED
    BY <1>1, <1>2, <1>3, <1>4, <1>5, <1>6, <1>7, <1>8, <1>9, <1>10, <1>11, <1>12,
       <1>13, <1>14, <1>15, <1>16
    DEF Next

\* The queue, the intents and the interval of all workers together are a bank in
\* which a payment happens at once: with intents in any order and of any life,
\* with errors, lost replies, crashes and deletions.  Only a second chain for one
\* entry (run queue_overlap) breaks it.
THEOREM Implementation ==
  ASSUME SingleRound
  PROVE  Spec => ImplementsBank
<1>1. AllKnown /\ AllKnown' /\ [Next]_vars => [B!Next]_B!vars
      BY StepMaps
<1> QED BY <1>1, InitMaps, KnownAlways, PTL DEF Spec, ImplementsBank, B!Spec
=============================================================================
