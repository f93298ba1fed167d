------------------------ MODULE TransactionQueueProofs ------------------------
(***************************************************************************)
(* Proofs about TransactionQueue for any number of requests, accounts,     *)
(* workers, entries, failures and crashes.                                 *)
(***************************************************************************)
EXTENDS TransactionQueue, TLAPS

SingleRound == \A j, k \in Round : j = k

-----------------------------------------------------------------------------
(* Types *)

LEMMA TypeInit == Init => TypeOK
BY ConstantsAssumption DEF Init, TypeOK, Phase, Step, Answer, Sum, NoSums

LEMMA ReclaimedTypes ==
  ASSUME TypeOK, NEW r \in Request, entry[r] \in Entry, Delete(r)
  PROVE  reclaimed' \in [Account -> Nat]
<1>1. entry[r].received \in Nat /\ entry[r].tax \in Nat
      BY EntryAssumption
<1>2. ASSUME NEW a \in Account
      PROVE  reclaimed[a] + (IF a = entry[r].recipient THEN entry[r].received ELSE 0)
                          + (IF a = entry[r].tax_recipient THEN entry[r].tax ELSE 0) \in Nat
      BY <1>1, <1>2 DEF TypeOK
<1> QED BY <1>2 DEF Delete

LEMMA MisreportTypes ==
  ASSUME TypeOK, NEW r \in Request, NEW done, Misreport(r, done)
  PROVE  /\ misreported' \in [Request -> Nat]
         /\ \A q \in Request : misreported'[q] >= misreported[q]
<1>1. \A q \in Request : misreported'[q] = IF q = r /\ done THEN misreported[q] + 1 ELSE misreported[q]
      BY DEF TypeOK, Misreport
<1> QED BY <1>1 DEF TypeOK, Misreport

LEMMA SumOfInt ==
  ASSUME TypeOK, NEW a \in Account, NEW f \in Sum
  PROVE  SumOf(f, a) \in Int
BY DEF TypeOK, SumOf, Sum

LEMMA BookTypes ==
  ASSUME TypeOK, NEW e \in Entry, NEW sign \in {1, -1}, Book(e, sign)
  PROVE  /\ income' \in [Account -> Int]
         /\ payments' \in [Account -> Int]
         /\ taxincome' \in [Account -> Int]
<1>1. e.sent \in Int /\ e.received \in Int /\ e.tax \in Int
      BY EntryAssumption
<1> QED BY <1>1 DEF Book, TypeOK

LEMMA MoveEffect ==
  ASSUME TypeOK, NEW r \in Request, NEW k \in Round, NEW s \in Step, Move(r, k, s)
  PROVE  /\ at' \in [Request -> [Round -> Step]]
         /\ at'[r][k] = s
         /\ \A q \in Request, j \in Round : q # r \/ j # k => at'[q][j] = at[q][j]
BY DEF TypeOK, Move, Step

\* The requests that own an entry; proved together with the types, because an
\* entry is used only when there is one.
Announced ==
  \A r \in Request :
    /\ phase[r] = "new" => owner[r] = None
    /\ phase[r] \in {"intent", "saved", "queued"} =>
         /\ entry[r] \in Entry /\ entry[r].sender \in Account
         /\ time[r] \in Time /\ owner[r] \in Worker
    /\ phase[r] \in {"spawn", "spawned"} =>
         entry[r] \in Entry /\ entry[r].sender = NoAccount /\ owner[r] \in Worker
    /\ phase[r] = "gone" => entry[r] \in Entry /\ owner[r] \in Worker
    /\ phase[r] = "lost" => entry[r] \in Entry
    /\ \A k \in Round : at[r][k] # "idle" =>
         phase[r] \in {"queued", "gone"} /\ entry[r].sender \in Account
    /\ written[r] > 0 => entry[r] \in Entry
    /\ r \in removing => phase[r] = "gone"

TypeInv == TypeOK /\ Announced

LEMMA TypeNext == TypeInv /\ [Next]_vars => TypeInv'
<1> SUFFICES ASSUME TypeOK, Announced, [Next]_vars PROVE TypeOK' /\ Announced'
    BY DEF TypeInv
<1> USE ConstantsAssumption, EntryAssumption
<1> USE DEF TypeOK, Phase, Step, Answer, ledger, chain, history, mishaps, Announced
<1>1. ASSUME NEW r \in Request, NEW w \in Worker, NEW e \in Entry, NEW t \in Time,
             Transaction(w, r, e, t)
      PROVE  TypeOK' /\ Announced'
  <2>1. CASE e.sender = NoAccount
    <3>2. /\ phase' = [phase EXCEPT ![r] = "spawn"]
          /\ entry' = [entry EXCEPT ![r] = e]
          /\ owner' = [owner EXCEPT ![r] = w]
          /\ phase[r] = "new"
          /\ UNCHANGED <<time, at, written, removing>>
          BY <1>1, <2>1 DEF Transaction
    <3>1. TypeOK'
      <4>1. phase' \in [Request -> Phase]
            BY <3>2
      <4>2. /\ entry' \in [Request -> Entry \cup {None}]
            /\ owner' \in [Request -> Worker \cup {None}]
            BY <3>2
      <4> QED BY <1>1, <2>1, <4>1, <4>2 DEF Transaction
    <3>3. Announced'
          BY <2>1, <3>2
    <3> QED BY <3>1, <3>3
  <2>2. CASE e.sender # NoAccount
    <3>3. /\ phase' = [phase EXCEPT ![r] = "intent"]
          /\ time' = [time EXCEPT ![r] = t]
          /\ entry' = [entry EXCEPT ![r] = e]
          /\ owner' = [owner EXCEPT ![r] = w]
          /\ phase[r] = "new"
          /\ UNCHANGED <<at, written, removing>>
          BY <1>1, <2>2 DEF Transaction
    <3>1. TypeOK'
      <4>1. /\ phase' \in [Request -> Phase]
            /\ time' \in [Request -> Time \cup {None}]
            BY <3>3
      <4>2. /\ entry' \in [Request -> Entry \cup {None}]
            /\ owner' \in [Request -> Worker \cup {None}]
            BY <3>3
      <4> QED BY <1>1, <4>1, <4>2 DEF Transaction
    <3>2. e.sender \in Account
          BY <2>2
    <3>4. Announced'
          BY <3>2, <3>3
    <3> QED BY <3>1, <3>4
  <2> QED BY <2>1, <2>2
<1>2. ASSUME NEW r \in Request, SaveIntent(r) PROVE TypeOK' /\ Announced'
      BY <1>2 DEF SaveIntent, SenderOf
<1>3. ASSUME NEW r \in Request, Queue(r) PROVE TypeOK' /\ Announced'
      BY <1>3 DEF Queue
<1>4. ASSUME NEW r \in Request, WriteSpawn(r) PROVE TypeOK' /\ Announced'
  <2>1. entry[r] \in Entry
        BY <1>4 DEF WriteSpawn
  <2>2. /\ income' \in [Account -> Int]
        /\ payments' \in [Account -> Int]
        /\ taxincome' \in [Account -> Int]
        BY <1>4, <2>1, BookTypes DEF WriteSpawn
  <2> QED BY <1>4, <2>1, <2>2 DEF WriteSpawn
<1>5. ASSUME NEW r \in Request, SpawnDone(r) PROVE TypeOK' /\ Announced'
      BY <1>5 DEF SpawnDone, Reply
<1>6. ASSUME NEW w \in Worker, NEW k \in Round, Interval(w, k) PROVE TypeOK' /\ Announced'
  <2>1. at' \in [Request -> [Round -> Step]]
        BY <1>6 DEF Interval
  <2>2. TypeOK'
        BY <1>6, <2>1 DEF Interval
  <2>3. Announced'
        BY <1>6 DEF Interval
  <2> QED BY <2>2, <2>3
<1>7. ASSUME NEW r \in Request, NEW k \in Round, CheckWritePermission(r, k)
      PROVE  TypeOK' /\ Announced'
  <2>1. CASE Move(r, k, "granted")
    <3>0. at[r][k] = "check"
          BY <1>7 DEF CheckWritePermission
    <3>1. /\ at' \in [Request -> [Round -> Step]]
          /\ \A q \in Request, j \in Round : q # r \/ j # k => at'[q][j] = at[q][j]
          BY <2>1, MoveEffect
    <3>2. \A q \in Request, j \in Round : at'[q][j] # "idle" => at[q][j] # "idle"
      <4> SUFFICES ASSUME NEW q \in Request, NEW j \in Round, at[q][j] = "idle"
                   PROVE  at'[q][j] = "idle"
          OBVIOUS
      <4>1. q # r \/ j # k
            BY <3>0
      <4> QED BY <3>1, <4>1
    <3>3. TypeOK'
          BY <1>7, <3>1 DEF CheckWritePermission
    <3>4. Announced'
          BY <1>7, <3>2 DEF CheckWritePermission
    <3> QED BY <3>3, <3>4
  <2>2. CASE Move(r, k, "idle")
    <3>0. at[r][k] = "check"
          BY <1>7 DEF CheckWritePermission
    <3>1. /\ at' \in [Request -> [Round -> Step]]
          /\ \A q \in Request, j \in Round : q # r \/ j # k => at'[q][j] = at[q][j]
          BY <2>2, MoveEffect
    <3>2. \A q \in Request, j \in Round : at'[q][j] # "idle" => at[q][j] # "idle"
      <4> SUFFICES ASSUME NEW q \in Request, NEW j \in Round, at[q][j] = "idle"
                   PROVE  at'[q][j] = "idle"
          OBVIOUS
      <4>1. q # r \/ j # k
            BY <3>0
      <4> QED BY <3>1, <4>1
    <3>3. TypeOK'
          BY <1>7, <3>1 DEF CheckWritePermission
    <3>4. Announced'
          BY <1>7, <3>2 DEF CheckWritePermission
    <3> QED BY <3>3, <3>4
  <2> QED BY <1>7, <2>1, <2>2 DEF CheckWritePermission
<1>8. ASSUME NEW r \in Request, NEW k \in Round, OnWritePermission(r, k)
      PROVE  TypeOK' /\ Announced'
      BY <1>8 DEF OnWritePermission, Move
<1>9. ASSUME NEW r \in Request, NEW k \in Round, NEW f \in Sum, GetBalance(r, k, f)
      PROVE  TypeOK' /\ Announced'
  <2>1. SumOf(f, SenderOf(r)) \in Int
        BY <1>9, SumOfInt DEF GetBalance, SenderOf
  <2>2. seen' \in [Request -> [Round -> [Sum -> Int \cup {None}]]]
        BY <1>9, <2>1 DEF GetBalance
  <2> QED BY <1>9, <2>2 DEF GetBalance
<1>10. ASSUME NEW r \in Request, NEW k \in Round, BalanceKnown(r, k)
       PROVE  TypeOK' /\ Announced'
  <2>1. seen' \in [Request -> [Round -> [Sum -> Int \cup {None}]]]
        BY <1>10 DEF BalanceKnown, NoSums
  <2>2. CASE Seen(r, k) < entry[r].sent
    <3>0. Reply(r, "nomoney") /\ Settle(r) /\ Move(r, k, "idle")
          BY <1>10, <2>2 DEF BalanceKnown
    <3>1. /\ phase' \in [Request -> Phase]
          /\ removing' \subseteq Request
          /\ answer' \in [Request -> Answer \cup {None}]
          /\ Move(r, k, "idle")
          BY <3>0 DEF Settle, Reply
    <3>3. TypeOK'
          BY <1>10, <2>1, <3>1, MoveEffect DEF BalanceKnown
    <3>2. Announced'
          BY <1>10, <2>2 DEF BalanceKnown, Settle, Reply, Move
    <3> QED BY <3>3, <3>2
  <2>3. CASE ~(Seen(r, k) < entry[r].sent)
    <3>0. Move(r, k, "write") /\ UNCHANGED <<phase, removing, answer>>
          BY <1>10, <2>3 DEF BalanceKnown
    <3>1. TypeOK'
          BY <1>10, <2>1, <3>0, MoveEffect DEF BalanceKnown
    <3>2. \A q \in Request, j \in Round : at'[q][j] # "idle" => at[q][j] # "idle"
      <4> SUFFICES ASSUME NEW q \in Request, NEW j \in Round, at[q][j] = "idle"
                   PROVE  at'[q][j] = "idle"
          OBVIOUS
      <4>1. at[r][k] = "balance"
            BY <1>10 DEF BalanceKnown
      <4>2. q # r \/ j # k
            BY <4>1
      <4> QED BY <3>0, <4>2, MoveEffect
    <3>3. UNCHANGED <<phase, owner, entry, time, removing, written>>
          BY <1>10, <3>0 DEF BalanceKnown
    <3>4. Announced'
          BY <3>2, <3>3
    <3> QED BY <3>1, <3>4
  <2> QED BY <2>2, <2>3
<1>11. ASSUME NEW r \in Request, NEW k \in Round, Write(r, k)
       PROVE  TypeOK' /\ Announced'
  <2>1. entry[r] \in Entry
        BY <1>11 DEF Write
  <2>2. /\ income' \in [Account -> Int]
        /\ payments' \in [Account -> Int]
        /\ taxincome' \in [Account -> Int]
        BY <1>11, <2>1, BookTypes DEF Write
  <2> QED BY <1>11, <2>1, <2>2 DEF Write, Move
<1>12. ASSUME NEW r \in Request, NEW k \in Round, WriteDone(r, k)
       PROVE  TypeOK' /\ Announced'
       BY <1>12 DEF WriteDone, Settle, Reply, Move
<1>13. ASSUME NEW r \in Request, WriteComplete(r) PROVE TypeOK' /\ Announced'
       BY <1>13 DEF WriteComplete
<1>14. ASSUME NEW r \in Request, IntentFails(r) PROVE TypeOK' /\ Announced'
       BY <1>14 DEF IntentFails, Fail, Reply
<1>15. ASSUME NEW r \in Request, SpawnFails(r) PROVE TypeOK' /\ Announced'
  <2>1. misreported' \in [Request -> Nat]
        BY <1>15, MisreportTypes DEF SpawnFails
  <2>2. /\ phase[r] \in {"spawn", "spawned"} /\ phase' = [phase EXCEPT ![r] = "gone"]
        /\ failures' \in Nat
        /\ answer' = [answer EXCEPT ![r] = IF @ = None THEN "error" ELSE @]
        /\ UNCHANGED <<owner, entry, time, intents, at, seen, removing, ledger, crashes,
                       written, deleted, short, unguarded, reclaimed>>
        BY <1>15 DEF SpawnFails, Fail, Reply
  <2>3. answer' \in [Request -> Answer \cup {None}] /\ phase' \in [Request -> Phase]
        BY <2>2
  <2>4. TypeOK'
        BY <2>1, <2>2, <2>3
  <2>5. Announced'
        BY <2>2
  <2> QED BY <2>4, <2>5
<1>16. ASSUME NEW r \in Request, NEW k \in Round, StepFails(r, k)
       PROVE  TypeOK' /\ Announced'
  <2>1. seen' \in [Request -> [Round -> [Sum -> Int \cup {None}]]]
        BY <1>16 DEF StepFails, NoSums
  <2>2. misreported' \in [Request -> Nat]
        BY <1>16, MisreportTypes DEF StepFails
  <2> QED BY <1>16, <2>1, <2>2 DEF StepFails, Fail, Reply, Move
<1>17. ASSUME NEW r \in Request, RemoveFails(r) PROVE TypeOK' /\ Announced'
       BY <1>17 DEF RemoveFails
<1>18. ASSUME NEW r \in Request, Expire(r) PROVE TypeOK' /\ Announced'
  <2>1. Busy(r) => SenderOf(r) \in Account
        BY DEF Busy, SenderOf
  <2>2. unguarded' \subseteq Account
        BY <1>18, <2>1 DEF Expire
  <2> QED BY <1>18, <2>2 DEF Expire
<1>19. ASSUME NEW r \in Request, Delete(r) PROVE TypeOK' /\ Announced'
  <2>1. entry[r] \in Entry
        BY <1>19 DEF Delete
  <2>2. /\ income' \in [Account -> Int]
        /\ payments' \in [Account -> Int]
        /\ taxincome' \in [Account -> Int]
        BY <1>19, <2>1, BookTypes DEF Delete
  <2>3. reclaimed' \in [Account -> Nat]
        BY <1>19, <2>1, ReclaimedTypes
  <2> QED BY <1>19, <2>1, <2>2, <2>3 DEF Delete
<1>20. ASSUME NEW w \in Worker, Crash(w) PROVE TypeOK' /\ Announced'
  <2>1. seen' \in [Request -> [Round -> [Sum -> Int \cup {None}]]]
        BY <1>20 DEF Crash, NoSums
  <2>2. TypeOK'
        BY <1>20, <2>1 DEF Crash
  <2>3. Announced'
        BY <1>20 DEF Crash
  <2> QED BY <2>2, <2>3
<1>21. CASE UNCHANGED vars
       BY <1>21 DEF vars
<1> QED
    BY <1>1, <1>2, <1>3, <1>4, <1>5, <1>6, <1>7, <1>8, <1>9, <1>10, <1>11,
       <1>12, <1>13, <1>14, <1>15, <1>16, <1>17, <1>18, <1>19, <1>20, <1>21
    DEF Next

\* Every variable keeps its type.
THEOREM TypeCorrect == Spec => []TypeOK
<1>1. Init => TypeInv
      BY TypeInit DEF TypeInv, Announced, Init
<1>2. TypeInv /\ [Next]_vars => TypeInv'
      BY TypeNext
<1>3. TypeInv => TypeOK
      BY DEF TypeInv
<1> QED BY <1>1, <1>2, <1>3, PTL DEF Spec

-----------------------------------------------------------------------------
(* The inductive invariants *)

\* With a single round, a chain of callbacks runs for a queued entry only.
Chained == \A r \in Request, k \in Round : at[r][k] # "idle" => phase[r] = "queued"

\* A payment that is written is done with, or its callback is about to run.
Once ==
  \A r \in Request :
    /\ written[r] <= 1 + misreported[r]
    /\ written[r] = 1 + misreported[r] => \/ phase[r] \in {"spawned", "gone", "lost"}
                                          \/ \E k \in Round : at[r][k] = "written"

BusySteps == {"granted", "balance", "write", "written"}

\* r's intent is the only one with the earliest time.
Front(r) ==
  /\ r \in intents
  /\ \A q \in intents : q # r /\ SenderOf(q) = SenderOf(r) => time[r] < time[q]

\* The intents of a sender whose order holds.
Distinct ==
  \A q, r \in intents :
    q # r /\ SenderOf(q) = SenderOf(r) /\ SenderOf(r) \notin unguarded => time[q] # time[r]

Placed ==
  \A r \in intents :
    /\ phase[r] \in {"saved", "queued", "gone", "lost"}
    /\ SenderOf(r) \in Account /\ time[r] \in Time

Permitted ==
  \A r \in Request, k \in Round :
    at[r][k] \in BusySteps /\ SenderOf(r) \notin unguarded => Front(r)

\* What a chain that reads its sums one by one counts with: the sums it has
\* seen, and for the others what it would see now.
Known(r, k, f) == IF seen[r][k][f] = None THEN SumOf(f, SenderOf(r)) ELSE seen[r][k][f]
Hope(r, k) == Known(r, k, "income") + Known(r, k, "taxincome") - Known(r, k, "payments")

\* What an account would have if administrators had taken nothing from it.
Worth(a) == Balance(a) + reclaimed[a]

\* A chain never counts with more than that.
Cautious ==
  \A r \in Request, k \in Round :
    at[r][k] = "balance" /\ SenderOf(r) \notin unguarded => Hope(r, k) <= Worth(SenderOf(r))

Covered ==
  \A r \in Request, k \in Round :
    at[r][k] = "write" /\ SenderOf(r) \notin unguarded => Worth(SenderOf(r)) >= entry[r].sent

\* getBalance starts with empty hands.
Fresh ==
  \A r \in Request, k \in Round : at[r][k] # "balance" => seen[r][k] = NoSums

SafeInv == Distinct /\ Placed /\ Permitted /\ Fresh /\ Cautious /\ Covered /\ NoOverdraft

-----------------------------------------------------------------------------
(* Chains of callbacks *)

LEMMA ChainedNext ==
  ASSUME SingleRound
  PROVE  TypeInv /\ Chained /\ [Next]_vars => Chained'
<1> SUFFICES ASSUME TypeOK, Announced, Chained, [Next]_vars
             PROVE  Chained'
    BY DEF TypeInv
<1> USE DEF Chained, ledger, chain, history, mishaps
<1>1. ASSUME NEW r \in Request, NEW w \in Worker, NEW e \in Entry, NEW t \in Time,
             Transaction(w, r, e, t)
      PROVE  Chained'
  <2>1. /\ \A q \in Request : q # r => phase'[q] = phase[q]
        /\ phase[r] = "new" /\ UNCHANGED at
        BY <1>1 DEF Transaction, TypeOK
  <2> QED BY <2>1
<1>2. ASSUME NEW r \in Request,
             \/ SaveIntent(r) \/ Queue(r) \/ WriteSpawn(r) \/ SpawnDone(r)
             \/ IntentFails(r) \/ SpawnFails(r)
      PROVE  Chained'
  <2>1. /\ \A q \in Request : q # r => phase'[q] = phase[q]
        /\ phase[r] \in {"intent", "saved", "spawn", "spawned"}
        /\ UNCHANGED at
        BY <1>2
        DEF SaveIntent, Queue, WriteSpawn, SpawnDone, IntentFails, SpawnFails, TypeOK
  <2> QED BY <2>1
<1>3. ASSUME NEW w \in Worker, NEW k \in Round, Interval(w, k) PROVE Chained'
  <2>1. /\ \A q \in Request, j \in Round : at'[q][j] = at[q][j] \/ phase[q] = "queued"
        /\ UNCHANGED phase
        BY <1>3 DEF Interval, TypeOK
  <2> QED BY <2>1
<1>4. ASSUME NEW r \in Request, NEW k \in Round,
             \/ CheckWritePermission(r, k) \/ OnWritePermission(r, k)
             \/ Write(r, k) \/ StepFails(r, k)
      PROVE  Chained'
  <2>1. /\ at[r][k] # "idle"
        /\ \A q \in Request, j \in Round : q # r \/ j # k => at'[q][j] = at[q][j]
        /\ UNCHANGED phase
        BY <1>4 DEF CheckWritePermission, OnWritePermission, Write, StepFails, Move, TypeOK
  <2> QED BY <2>1
<1>5. ASSUME NEW r \in Request, NEW k \in Round, BalanceKnown(r, k) \/ WriteDone(r, k)
      PROVE  Chained'
  <2>1. /\ at[r][k] # "idle"
        /\ \A q \in Request, j \in Round : q # r \/ j # k => at'[q][j] = at[q][j]
        /\ at'[r][k] = "idle" \/ phase'[r] = phase[r]
        /\ \A q \in Request : q # r => phase'[q] = phase[q]
        BY <1>5 DEF BalanceKnown, WriteDone, Settle, Move, TypeOK
  <2> QED BY <2>1, SingleRound DEF SingleRound
<1>6. ASSUME NEW r \in Request,
             \/ WriteComplete(r) \/ RemoveFails(r) \/ Expire(r) \/ Delete(r)
             \/ \E k \in Round, f \in Sum : GetBalance(r, k, f)
      PROVE  Chained'
      BY <1>6 DEF WriteComplete, RemoveFails, Expire, Delete, GetBalance
<1>7. ASSUME NEW w \in Worker, Crash(w) PROVE Chained'
  <2>1. \A q \in Request :
          \/ phase'[q] = phase[q] /\ \A j \in Round : at'[q][j] = at[q][j]
          \/ \A j \in Round : at'[q][j] = "idle"
        BY <1>7 DEF Crash, TypeOK
  <2> QED BY <2>1
<1>8. CASE UNCHANGED vars
      BY <1>8 DEF vars
<1> QED
    BY <1>1, <1>2, <1>3, <1>4, <1>5, <1>6, <1>7, <1>8 DEF Next

-----------------------------------------------------------------------------
(* A payment is written at most once *)

LEMMA OnceNext ==
  ASSUME SingleRound
  PROVE  TypeInv /\ Chained /\ Once /\ [Next]_vars => Once'
<1> SUFFICES ASSUME TypeOK, Announced, Chained, Once, [Next]_vars
             PROVE  Once'
    BY DEF TypeInv
<1> USE DEF Chained, Once, ledger, chain, history, mishaps
<1>0. \A q \in Request : written[q] \in Nat /\ misreported[q] \in Nat
      BY DEF TypeOK
<1>m. TypeOK' /\ \A q \in Request : misreported'[q] \in Nat
      BY TypeNext DEF TypeInv, TypeOK
<1>1. ASSUME NEW r \in Request, NEW w \in Worker, NEW e \in Entry, NEW t \in Time,
             Transaction(w, r, e, t)
      PROVE  Once'
  <2>1. /\ \A q \in Request : q # r => phase'[q] = phase[q]
        /\ phase[r] = "new" /\ UNCHANGED <<at, written, misreported>>
        BY <1>1 DEF Transaction, TypeOK
  <2> QED BY <2>1
<1>2. ASSUME NEW r \in Request,
             SaveIntent(r) \/ Queue(r) \/ SpawnDone(r) \/ IntentFails(r) \/ SpawnFails(r)
      PROVE  Once'
  <2>1. /\ \A q \in Request : q # r => phase'[q] = phase[q]
        /\ phase[r] \in {"intent", "saved", "spawn", "spawned"}
        /\ phase[r] = "spawned" => phase'[r] = "gone"
        /\ UNCHANGED <<at, written>>
        /\ \A q \in Request : misreported'[q] >= misreported[q]
        BY <1>2, <1>0, MisreportTypes
        DEF SaveIntent, Queue, SpawnDone, IntentFails, SpawnFails, TypeOK
  <2> QED BY <1>0, <1>m, <2>1
<1>3. ASSUME NEW r \in Request, WriteSpawn(r) PROVE Once'
  <2>1. /\ \A q \in Request : q # r => phase'[q] = phase[q] /\ written'[q] = written[q]
        /\ phase[r] = "spawn" /\ phase'[r] = "spawned"
        /\ written'[r] = written[r] + 1 /\ written[r] \in Nat
        /\ UNCHANGED <<at, misreported>>
        BY <1>3 DEF WriteSpawn, TypeOK
  <2>2. written[r] <= misreported[r]
        BY <1>0, <2>1
  <2> QED BY <1>0, <2>1, <2>2
<1>4. ASSUME NEW w \in Worker, NEW k \in Round, Interval(w, k) PROVE Once'
  <2>1. /\ \A q \in Request, j \in Round :
              at'[q][j] = at[q][j] \/ (phase[q] = "queued" /\ j = k /\ at[q][k] = "idle")
        /\ UNCHANGED <<phase, written, misreported>>
        BY <1>4 DEF Interval, TypeOK
  <2> QED BY <2>1
<1>5. ASSUME NEW r \in Request, NEW k \in Round,
             CheckWritePermission(r, k) \/ OnWritePermission(r, k)
      PROVE  Once'
  <2>1. /\ at[r][k] \in {"check", "granted"}
        /\ \A q \in Request, j \in Round : q # r \/ j # k => at'[q][j] = at[q][j]
        /\ UNCHANGED <<phase, written, misreported>>
        BY <1>5 DEF CheckWritePermission, OnWritePermission, Move, TypeOK
  <2> QED BY <2>1
<1>6. ASSUME NEW r \in Request, NEW k \in Round, NEW f \in Sum, GetBalance(r, k, f)
      PROVE  Once'
      BY <1>6 DEF GetBalance
<1>7. ASSUME NEW r \in Request, NEW k \in Round, BalanceKnown(r, k)
      PROVE  Once'
  <2>1. /\ at[r][k] = "balance" /\ UNCHANGED <<written, misreported>>
        /\ \A q \in Request, j \in Round : q # r \/ j # k => at'[q][j] = at[q][j]
        /\ at'[r][k] = "idle" \/ phase'[r] = phase[r]
        /\ \A q \in Request : q # r => phase'[q] = phase[q]
        BY <1>7 DEF BalanceKnown, Settle, Move, TypeOK
  <2>2. written[r] # 1 + misreported[r]
        BY <2>1, SingleRound DEF SingleRound
  <2> QED BY <2>1, <2>2, SingleRound DEF SingleRound
<1>8. ASSUME NEW r \in Request, NEW k \in Round, Write(r, k) PROVE Once'
  <2>1. /\ at[r][k] = "write" /\ at'[r][k] = "written" /\ UNCHANGED <<phase, misreported>>
        /\ \A q \in Request, j \in Round : q # r \/ j # k => at'[q][j] = at[q][j]
        /\ \A q \in Request : q # r => written'[q] = written[q]
        /\ written'[r] = written[r] + 1 /\ written[r] \in Nat
        BY <1>8 DEF Write, Move, TypeOK
  <2>2. written[r] <= misreported[r]
        BY <1>0, <2>1, SingleRound DEF SingleRound
  <2> QED BY <1>0, <2>1, <2>2
<1>9. ASSUME NEW r \in Request, NEW k \in Round, WriteDone(r, k) PROVE Once'
  <2>1. /\ at'[r][k] = "idle" /\ phase'[r] = "gone" /\ UNCHANGED <<written, misreported>>
        /\ \A q \in Request, j \in Round : q # r \/ j # k => at'[q][j] = at[q][j]
        /\ \A q \in Request : q # r => phase'[q] = phase[q]
        /\ at[r][k] = "written"
        BY <1>9 DEF WriteDone, Settle, Move, TypeOK
  <2> QED BY <2>1, SingleRound DEF SingleRound
<1>10. ASSUME NEW r \in Request, NEW k \in Round, StepFails(r, k) PROVE Once'
  <2>1. /\ at[r][k] # "idle" /\ at'[r][k] = "idle"
        /\ \A q \in Request, j \in Round : q # r \/ j # k => at'[q][j] = at[q][j]
        /\ UNCHANGED <<phase, written>>
        /\ Misreport(r, at[r][k] = "written")
        BY <1>10 DEF StepFails, Move, TypeOK
  <2>2. /\ \A q \in Request : misreported'[q] >= misreported[q]
        /\ at[r][k] = "written" => misreported'[r] = misreported[r] + 1
        BY <2>1, MisreportTypes DEF Misreport, TypeOK
  <2>3. ASSUME NEW q \in Request
        PROVE  /\ written'[q] <= 1 + misreported'[q]
               /\ written'[q] = 1 + misreported'[q] =>
                    \/ phase'[q] \in {"spawned", "gone", "lost"}
                    \/ \E j \in Round : at'[q][j] = "written"
    <3>1. written'[q] <= 1 + misreported'[q]
          BY <1>0, <1>m, <2>1, <2>2
    <3>2. CASE written'[q] = 1 + misreported'[q]
      <4>1. written[q] = 1 + misreported[q] /\ misreported'[q] = misreported[q]
            BY <1>0, <1>m, <2>1, <2>2, <3>2
      <4>2. q = r => at[r][k] # "written"
            BY <1>0, <2>2, <4>1
      <4> QED BY <2>1, <4>1, <4>2
    <3> QED BY <3>1, <3>2
  <2> QED BY <2>3
<1>11. ASSUME NEW r \in Request,
              WriteComplete(r) \/ RemoveFails(r) \/ Expire(r) \/ Delete(r)
       PROVE  Once'
       BY <1>11 DEF WriteComplete, RemoveFails, Expire, Delete
<1>12. ASSUME NEW w \in Worker, Crash(w) PROVE Once'
  <2>1. /\ UNCHANGED <<written, misreported>>
        /\ \A q \in Request :
             \/ phase'[q] = phase[q] /\ \A j \in Round : at'[q][j] = at[q][j]
             \/ phase'[q] \in {"gone", "lost"} /\ \A j \in Round : at'[q][j] = "idle"
        BY <1>12 DEF Crash, TypeOK
  <2> QED BY <2>1
<1>13. CASE UNCHANGED vars
       BY <1>13 DEF vars
<1> QED
    BY <1>1, <1>2, <1>3, <1>4, <1>5, <1>6, <1>7, <1>8, <1>9, <1>10, <1>11,
       <1>12, <1>13
    DEF Next

\* No payment is written twice, whatever the order and the life of the intents,
\* the errors and the crashes: every further document takes a write of this very
\* payment that was executed and reported as failed, or a second chain.
THEOREM AtMostOnce ==
  ASSUME SingleRound
  PROVE  Spec => []PaidAtMostOnce
<1>1. Init => TypeInv
      BY TypeInit DEF TypeInv, Announced, Init
<1>2. Init => Chained /\ Once
      BY DEF Init, Chained, Once
<1>3. TypeInv /\ [Next]_vars => TypeInv'
      BY TypeNext
<1>4. TypeInv /\ Chained /\ [Next]_vars => Chained'
      BY ChainedNext
<1>5. TypeInv /\ Chained /\ Once /\ [Next]_vars => Once'
      BY OnceNext
<1>6. Once => PaidAtMostOnce
      BY DEF Once, PaidAtMostOnce
<1> QED BY <1>1, <1>2, <1>3, <1>4, <1>5, <1>6, PTL DEF Spec

-----------------------------------------------------------------------------
(* Nobody is overdrawn *)

LEMMA LedgerInts ==
  ASSUME TypeOK, NEW a \in Account
  PROVE  /\ income[a] \in Int /\ taxincome[a] \in Int /\ payments[a] \in Int
         /\ reclaimed[a] \in Nat /\ Balance(a) \in Int /\ Worth(a) \in Int
BY DEF TypeOK, Balance, Worth

LEMMA KnownInt ==
  ASSUME TypeOK, NEW r \in Request, NEW k \in Round, NEW f \in Sum, SenderOf(r) \in Account
  PROVE  Known(r, k, f) \in Int
<1>1. SumOf(f, SenderOf(r)) \in Int
      BY SumOfInt
<1>2. seen[r][k][f] \in Int \cup {None}
      BY DEF TypeOK
<1> QED BY <1>1, <1>2 DEF Known

LEMMA HopeInt ==
  ASSUME TypeOK, NEW r \in Request, NEW k \in Round, SenderOf(r) \in Account
  PROVE  Hope(r, k) \in Int
<1>1. /\ Known(r, k, "income") \in Int /\ Known(r, k, "taxincome") \in Int
      /\ Known(r, k, "payments") \in Int
      BY KnownInt DEF Sum
<1> QED BY <1>1 DEF Hope

\* The ledger moves under a chain that is reading: by i and t at most upwards, by
\* p at most downwards.
LEMMA HopeMoves ==
  ASSUME TypeOK, TypeOK', NEW r \in Request, NEW k \in Round, NEW s \in Account,
         SenderOf(r) = s, SenderOf(r)' = s, seen'[r][k] = seen[r][k],
         NEW i \in Nat, NEW t \in Nat, NEW p \in Nat,
         income'[s] <= income[s] + i, taxincome'[s] <= taxincome[s] + t,
         payments'[s] >= payments[s] - p
  PROVE  /\ Hope(r, k)' <= Hope(r, k) + i + t + p
         /\ Hope(r, k) \in Int /\ Hope(r, k)' \in Int
<1>1. /\ income[s] \in Int /\ taxincome[s] \in Int /\ payments[s] \in Int
      /\ income'[s] \in Int /\ taxincome'[s] \in Int /\ payments'[s] \in Int
      BY DEF TypeOK
<1>2. \A f \in Sum : seen[r][k][f] \in Int \cup {None}
      BY DEF TypeOK
<1>3. /\ Known(r, k, "income")' <= Known(r, k, "income") + i
      /\ Known(r, k, "income") \in Int /\ Known(r, k, "income")' \in Int
      BY <1>1, <1>2 DEF Known, SumOf, Sum
<1>4. /\ Known(r, k, "taxincome")' <= Known(r, k, "taxincome") + t
      /\ Known(r, k, "taxincome") \in Int /\ Known(r, k, "taxincome")' \in Int
      BY <1>1, <1>2 DEF Known, SumOf, Sum
<1>5. /\ Known(r, k, "payments")' >= Known(r, k, "payments") - p
      /\ Known(r, k, "payments") \in Int /\ Known(r, k, "payments")' \in Int
      BY <1>1, <1>2 DEF Known, SumOf, Sum
<1> QED BY <1>3, <1>4, <1>5 DEF Hope

\* Reading a sum changes nothing of what the chains count with.
LEMMA HopeRead ==
  ASSUME TypeOK, NEW r \in Request, NEW k \in Round, NEW f \in Sum, GetBalance(r, k, f),
         NEW q \in Request, NEW j \in Round
  PROVE  /\ Hope(q, j)' = Hope(q, j)
         /\ q # r \/ j # k => seen'[q][j] = seen[q][j]
<1>1. /\ seen[r][k][f] = None /\ UNCHANGED <<ledger, entry>>
      /\ seen' = [seen EXCEPT ![r][k][f] = SumOf(f, SenderOf(r))]
      BY DEF GetBalance
<1>2. /\ q # r \/ j # k => seen'[q][j] = seen[q][j]
      /\ \A g \in Sum :
           seen'[r][k][g] = IF g = f THEN SumOf(f, SenderOf(r)) ELSE seen[r][k][g]
      BY <1>1 DEF TypeOK
<1>3. ASSUME NEW g \in Sum PROVE Known(q, j, g)' = Known(q, j, g)
  <2>1. CASE q = r /\ j = k
        BY <1>1, <1>2, <2>1 DEF Known, SumOf, SenderOf, Sum, ledger
  <2>2. CASE q # r \/ j # k
        BY <1>1, <1>2, <2>2 DEF Known, SumOf, SenderOf, Sum, ledger
  <2> QED BY <2>1, <2>2
<1>4. Hope(q, j)' = Hope(q, j)
      BY <1>3 DEF Hope, Sum
<1> QED BY <1>2, <1>4

\* Steps that pay nothing, let no chain advance into a busy step and leave the
\* intents as they are or remove some that no chain relies on.
LEMMA QuietStep ==
  ASSUME TypeOK, SafeInv, UNCHANGED <<ledger, reclaimed>>,
         intents' \subseteq intents, unguarded \subseteq unguarded',
         \A q \in intents' :
           /\ time'[q] = time[q] /\ entry'[q] = entry[q]
           /\ phase'[q] \in {"saved", "queued", "gone", "lost"},
         \A q \in Request, j \in Round : at'[q][j] \in BusySteps =>
           /\ at'[q][j] = at[q][j] /\ seen'[q][j] = seen[q][j] /\ entry'[q] = entry[q]
           /\ q \in intents => q \in intents' \/ SenderOf(q) \in unguarded',
         \A q \in Request, j \in Round : at'[q][j] # "balance" => seen'[q][j] = NoSums
  PROVE  SafeInv'
<1> USE DEF SenderOf, ledger
<1>1. Distinct' /\ Placed'
      BY DEF SafeInv, Distinct, Placed
<1>2. Permitted'
      BY DEF SafeInv, Permitted, Front
<1>3. Fresh'
      BY DEF Fresh
<1>w. \A a \in Account : Balance(a)' = Balance(a) /\ Worth(a)' = Worth(a)
      BY DEF Balance, Worth
<1>4. Cautious'
  <2> SUFFICES ASSUME NEW q \in Request, NEW j \in Round, at'[q][j] = "balance",
                      SenderOf(q)' \notin unguarded'
               PROVE  Hope(q, j)' <= Worth(SenderOf(q))'
      BY DEF Cautious
  <2>1. /\ at[q][j] = "balance" /\ seen'[q][j] = seen[q][j]
        /\ entry'[q] = entry[q] /\ SenderOf(q) \notin unguarded
        BY DEF BusySteps
  <2>2. Hope(q, j)' = Hope(q, j) /\ Worth(SenderOf(q))' = Worth(SenderOf(q))
        BY <2>1 DEF Hope, Known, SumOf, Worth, Balance
  <2> QED BY <2>1, <2>2 DEF SafeInv, Cautious
<1>5. Covered'
  <2> SUFFICES ASSUME NEW q \in Request, NEW j \in Round, at'[q][j] = "write",
                      SenderOf(q)' \notin unguarded'
               PROVE  Worth(SenderOf(q))' >= entry'[q].sent
      BY DEF Covered
  <2>1. at[q][j] = "write" /\ entry'[q] = entry[q] /\ SenderOf(q) \notin unguarded
        BY DEF BusySteps
  <2> QED BY <2>1 DEF SafeInv, Covered, Worth, Balance
<1>6. NoOverdraft'
      BY <1>w DEF SafeInv, NoOverdraft
<1> QED BY <1>1, <1>2, <1>3, <1>4, <1>5, <1>6 DEF SafeInv

\* Two payments of one sender never have permission at the same time.
LEMMA Alone ==
  ASSUME Permitted, TypeOK, Placed,
         NEW q \in Request, NEW r \in Request, NEW j \in Round, NEW k \in Round,
         at[q][j] \in BusySteps, at[r][k] \in BusySteps, SenderOf(q) = SenderOf(r),
         SenderOf(r) \notin unguarded
  PROVE  q = r
<1>1. Front(q) /\ Front(r)
      BY DEF Permitted
<1>2. time[q] \in Nat /\ time[r] \in Nat
      BY <1>1, ConstantsAssumption DEF Front, Placed
<1>3. q # r => time[q] < time[r] /\ time[r] < time[q]
      BY <1>1 DEF Front
<1> QED BY <1>2, <1>3

LEMMA BookEffect ==
  ASSUME TypeOK, NEW e \in Entry, Book(e, 1), NEW a \in Account
  PROVE  /\ income'[a] >= income[a] /\ taxincome'[a] >= taxincome[a]
         /\ payments'[a] = payments[a] + (IF a = e.sender THEN e.sent ELSE 0)
         /\ Balance(a)' >= Balance(a) - (IF a = e.sender THEN e.sent ELSE 0)
<1>1. e.sent \in Nat /\ e.received \in Nat /\ e.tax \in Nat
      BY EntryAssumption
<1>2. income[a] \in Int /\ payments[a] \in Int /\ taxincome[a] \in Int
      BY DEF TypeOK
<1>3. /\ income'[a] = income[a] + (IF a = e.recipient THEN 1 * e.received ELSE 0)
      /\ payments'[a] = payments[a] + (IF a = e.sender THEN 1 * e.sent ELSE 0)
      /\ taxincome'[a] = taxincome[a] + (IF a = e.tax_recipient THEN 1 * e.tax ELSE 0)
      BY DEF Book
<1> QED BY <1>1, <1>2, <1>3 DEF Balance

\* A step that writes the document of r while no other payment of r's sender
\* is being worked on, or their order is lost.
LEMMA PayingStep ==
  ASSUME TypeOK, TypeOK', Announced, SafeInv, NEW r \in Request,
         entry[r] \in Entry, Book(entry[r], 1),
         SenderOf(r) \in Account \ unguarded => Worth(SenderOf(r)) >= entry[r].sent,
         UNCHANGED <<intents, time, entry, seen, reclaimed, unguarded>>,
         \A q \in intents : phase'[q] = phase[q],
         \A q \in Request, j \in Round :
           at'[q][j] \in {"balance", "write"} /\ SenderOf(q) \notin unguarded =>
             at'[q][j] = at[q][j] /\ SenderOf(q) \in Account /\ SenderOf(q) # SenderOf(r),
         \A q \in Request, j \in Round :
           at'[q][j] \in BusySteps /\ SenderOf(q) \notin unguarded => Front(q),
         \A q \in Request, j \in Round : at'[q][j] # "balance" => seen[q][j] = NoSums
  PROVE  SafeInv'
<1>1. \A a \in Account :
        /\ income'[a] >= income[a] /\ taxincome'[a] >= taxincome[a]
        /\ a # SenderOf(r) => payments'[a] = payments[a] + 0
        /\ a # SenderOf(r) => Balance(a)' >= Balance(a) - 0
        /\ a = SenderOf(r) => Balance(a)' >= Balance(a) - entry[r].sent
      BY BookEffect DEF SenderOf
<1>2. \A a \in Account :
        /\ income[a] \in Int /\ taxincome[a] \in Int /\ payments[a] \in Int
        /\ income'[a] \in Int /\ taxincome'[a] \in Int /\ payments'[a] \in Int
        /\ Balance(a) \in Int /\ Balance(a)' \in Int /\ reclaimed[a] \in Nat
        /\ Worth(a) = Balance(a) + reclaimed[a]
        /\ Worth(a)' = Balance(a)' + reclaimed[a]
      BY DEF TypeOK, Balance, Worth
<1>3. /\ entry[r].sent \in Nat
      /\ \A q \in intents : SenderOf(q) \in Account
      /\ \A q \in Request : SenderOf(q)' = SenderOf(q)
      BY EntryAssumption DEF SafeInv, Placed, SenderOf
<1>4. Distinct' /\ Placed'
      BY <1>3 DEF SafeInv, Distinct, Placed, TypeOK
<1>5. Permitted'
      BY <1>3 DEF Permitted, Front, TypeOK
<1>6. Fresh'
      BY DEF Fresh
<1>7. Cautious'
  <2> SUFFICES ASSUME NEW q \in Request, NEW j \in Round, at'[q][j] = "balance",
                      NEW s \in Account, s = SenderOf(q), s \notin unguarded,
                      at[q][j] = "balance", s # SenderOf(r)
               PROVE  Hope(q, j)' <= Worth(s)'
      BY <1>3 DEF Cautious
  <2> DEFINE i == income'[s] - income[s]
             t == taxincome'[s] - taxincome[s]
  <2>1. /\ i \in Nat /\ t \in Nat
        /\ income'[s] <= income[s] + i /\ taxincome'[s] <= taxincome[s] + t
        /\ payments'[s] >= payments[s] - 0
        BY <1>1, <1>2
  <2>2. Balance(s)' = Balance(s) + i + t
        BY <1>1, <1>2 DEF Balance
  <2>5. Hope(q, j) <= Worth(s)
        BY DEF SafeInv, Cautious
  <2>6. SenderOf(q)' = s
        BY <1>3
  <2> HIDE DEF i, t
  <2>3. /\ Hope(q, j)' <= Hope(q, j) + i + t + 0
        /\ Hope(q, j) \in Int /\ Hope(q, j)' \in Int
        BY <2>1, <2>6, HopeMoves
  <2> QED BY <1>2, <2>1, <2>2, <2>3, <2>5
<1>8. Covered'
  <2> SUFFICES ASSUME NEW q \in Request, NEW j \in Round, at'[q][j] = "write",
                      NEW s \in Account, s = SenderOf(q), s \notin unguarded,
                      at[q][j] = "write", s # SenderOf(r)
               PROVE  Worth(s)' >= entry[q].sent
      BY <1>3 DEF Covered
  <2>2. Worth(s)' >= Worth(s) /\ Worth(s) >= entry[q].sent
        BY <1>1, <1>2 DEF SafeInv, Covered
  <2>3. entry[q].sent \in Nat
        <3>1. entry[q] \in Entry
              BY DEF Announced
        <3> QED BY <3>1, EntryAssumption
  <2> QED BY <1>2, <2>2, <2>3
<1>9. NoOverdraft'
  <2> SUFFICES ASSUME NEW a \in Account \ unguarded PROVE Balance(a)' + reclaimed[a] >= 0
      BY DEF NoOverdraft, Balance
  <2>1. Balance(a) + reclaimed[a] >= 0
        BY DEF SafeInv, NoOverdraft
  <2>2. CASE a = SenderOf(r)
        BY <1>1, <1>2, <1>3, <2>2
  <2>3. CASE a # SenderOf(r)
        BY <1>1, <1>2, <2>1, <2>3
  <2> QED BY <2>2, <2>3
<1> QED BY <1>4, <1>5, <1>6, <1>7, <1>8, <1>9 DEF SafeInv

\* What administrators take back leaves the worth of every account at least where
\* it was, and a chain that is reading counts with no more than before but for
\* payments of its sender that come back, too.
LEMMA DeleteEffect ==
  ASSUME TypeOK, NEW r \in Request, entry[r] \in Entry, Delete(r), NEW a \in Account
  PROVE  /\ income'[a] <= income[a] /\ taxincome'[a] <= taxincome[a]
         /\ payments'[a] <= payments[a] /\ reclaimed'[a] >= reclaimed[a]
         /\ reclaimed'[a] = 0 => income'[a] = income[a] /\ taxincome'[a] = taxincome[a]
         /\ Worth(a)' = Worth(a) + (payments[a] - payments'[a])
<1> DEFINE e == entry[r]
<1>1. e.sent \in Nat /\ e.received \in Nat /\ e.tax \in Nat
      BY EntryAssumption
<1>2. /\ income[a] \in Int /\ payments[a] \in Int /\ taxincome[a] \in Int
      /\ reclaimed[a] \in Nat
      BY DEF TypeOK
<1>3. /\ income'[a] = income[a] + (IF a = e.recipient THEN (-1) * e.received ELSE 0)
      /\ payments'[a] = payments[a] + (IF a = e.sender THEN (-1) * e.sent ELSE 0)
      /\ taxincome'[a] = taxincome[a] + (IF a = e.tax_recipient THEN (-1) * e.tax ELSE 0)
      /\ reclaimed'[a] = reclaimed[a] + (IF a = e.recipient THEN e.received ELSE 0)
                                      + (IF a = e.tax_recipient THEN e.tax ELSE 0)
      BY DEF Delete, Book
<1> HIDE DEF e
<1>4. /\ income'[a] <= income[a] /\ taxincome'[a] <= taxincome[a]
      /\ payments'[a] <= payments[a] /\ reclaimed'[a] >= reclaimed[a]
      /\ income'[a] \in Int /\ taxincome'[a] \in Int /\ payments'[a] \in Int
      /\ reclaimed'[a] \in Nat
      BY <1>1, <1>2, <1>3
<1>5. reclaimed'[a] = reclaimed[a] + (income[a] - income'[a]) + (taxincome[a] - taxincome'[a])
      BY <1>1, <1>2, <1>3
<1>6. Worth(a)' = Worth(a) + (payments[a] - payments'[a])
      BY <1>2, <1>4, <1>5 DEF Worth, Balance
<1>7. ASSUME reclaimed'[a] = 0
      PROVE  income'[a] = income[a] /\ taxincome'[a] = taxincome[a]
  <2> DEFINE i == income[a] - income'[a]
             t == taxincome[a] - taxincome'[a]
  <2>1. i \in Nat /\ t \in Nat
        BY <1>2, <1>4
  <2>2. reclaimed[a] + i + t = 0
        BY <1>5, <1>7
  <2>3. i = 0 /\ t = 0
    <3> HIDE DEF i, t
    <3> QED BY <1>2, <2>1, <2>2
  <2> QED BY <1>2, <1>4, <2>3
<1> QED BY <1>4, <1>6, <1>7

LEMMA SafeNext ==
  ASSUME SingleRound
  PROVE  TypeInv /\ Chained /\ SafeInv /\ [Next]_vars => SafeInv'
<1> SUFFICES ASSUME TypeOK, Announced, Chained, SafeInv, [Next]_vars
             PROVE  SafeInv'
    BY DEF TypeInv
<1>t. TypeOK'
      BY TypeNext DEF TypeInv
<1> USE DEF ledger, chain, history, mishaps
<1>0. /\ \A q \in intents : /\ q \in Request
                            /\ phase[q] \in {"saved", "queued", "gone", "lost"}
      /\ \A q \in Request, j \in Round :
           /\ at[q][j] \in BusySteps =>
                /\ phase[q] = "queued" /\ entry[q] \in Entry /\ SenderOf(q) \in Account
                /\ SenderOf(q) \notin unguarded => q \in intents
           /\ at[q][j] # "balance" => seen[q][j] = NoSums
      BY DEF SafeInv, Placed, Permitted, Front, Fresh, Chained, BusySteps, TypeOK,
             Announced, SenderOf
<1>1. ASSUME NEW r \in Request, NEW w \in Worker, NEW e \in Entry, NEW t \in Time,
             Transaction(w, r, e, t)
      PROVE  SafeInv'
  <2>1. phase[r] = "new" /\ UNCHANGED <<ledger, intents, at, seen, mishaps>>
        BY <1>1 DEF Transaction
  <2>2. \A q \in Request : q # r =>
          phase'[q] = phase[q] /\ time'[q] = time[q] /\ entry'[q] = entry[q]
        BY <1>1 DEF Transaction, TypeOK
  <2>3. r \notin intents /\ \A j \in Round : at[r][j] \notin BusySteps
        BY <1>0, <2>1
  <2> QED BY <1>0, <2>1, <2>2, <2>3, QuietStep
<1>2. ASSUME NEW r \in Request, SaveIntent(r) PROVE SafeInv'
  <2>1. /\ phase[r] = "intent" /\ phase'[r] = "saved" /\ intents' = intents \cup {r}
        /\ UNCHANGED <<ledger, time, entry, at, seen, reclaimed>>
        /\ \A q \in Request : q # r => phase'[q] = phase[q]
        /\ unguarded \subseteq unguarded'
        BY <1>2 DEF SaveIntent, TypeOK
  <2>2. /\ r \notin intents
        /\ SenderOf(r) \in Account /\ time[r] \in Nat
        BY <1>0, <1>2, <2>1, ConstantsAssumption DEF Announced, SenderOf
  <2>o. SenderOf(r) \notin unguarded' => ~Overtakes(r)
        BY <1>2 DEF SaveIntent
  <2>3. \A q \in intents : time[q] \in Nat
        BY ConstantsAssumption DEF SafeInv, Placed
  <2>4. Distinct'
        BY <2>1, <2>2, <2>3, <2>o DEF SafeInv, Distinct, SenderOf, Overtakes, IntentsOf
  <2>5. Placed'
    <3>1. time[r] \in Time
          BY <2>1 DEF Announced
    <3>2. ASSUME NEW q \in intents, q # r
          PROVE  phase'[q] = phase[q] /\ SenderOf(q)' = SenderOf(q) /\ time'[q] = time[q]
          BY <1>0, <2>1 DEF SenderOf
    <3>3. SenderOf(r)' = SenderOf(r) /\ time'[r] = time[r]
          BY <2>1 DEF SenderOf
    <3> QED BY <2>1, <2>2, <3>1, <3>2, <3>3 DEF SafeInv, Placed
  <2>6. Permitted'
    <3> SUFFICES ASSUME NEW q \in Request, NEW j \in Round, at[q][j] \in BusySteps,
                        SenderOf(q) \notin unguarded'
                 PROVE  Front(q)'
        BY <2>1 DEF Permitted, SenderOf
    <3>1. Front(q) /\ Busy(q) /\ q \in intents
          BY <2>1 DEF SafeInv, Permitted, Busy, BusySteps, Front
    <3>2. SenderOf(q) = SenderOf(r) => time[q] < time[r]
          BY <2>2, <2>3, <2>o, <3>1 DEF Overtakes, IntentsOf
    <3> QED BY <2>1, <2>2, <3>1, <3>2 DEF Front, SenderOf
  <2>w. \A a \in Account : Balance(a)' = Balance(a) /\ Worth(a)' = Worth(a)
        BY <2>1 DEF Balance, Worth
  <2>7. Fresh' /\ NoOverdraft'
        BY <2>1, <2>w DEF SafeInv, Fresh, NoOverdraft
  <2>8. Covered'
        BY <2>1 DEF SafeInv, Covered, SenderOf, Worth, Balance
  <2>9. Cautious'
        BY <2>1 DEF SafeInv, Cautious, SenderOf, Worth, Balance, Hope, Known, SumOf
  <2> QED BY <2>4, <2>5, <2>6, <2>7, <2>8, <2>9 DEF SafeInv
<1>3. ASSUME NEW r \in Request,
             Queue(r) \/ SpawnDone(r) \/ IntentFails(r) \/ SpawnFails(r)
      PROVE  SafeInv'
  <2>1. /\ UNCHANGED <<ledger, intents, time, entry, at, seen, mishaps>>
        /\ \A q \in Request : q # r => phase'[q] = phase[q]
        /\ phase'[r] \in {"queued", "gone"}
        BY <1>3 DEF Queue, SpawnDone, IntentFails, SpawnFails, TypeOK
  <2> QED BY <1>0, <2>1, QuietStep
<1>4. ASSUME NEW r \in Request, WriteSpawn(r) PROVE SafeInv'
  <2>1. /\ entry[r] \in Entry /\ SenderOf(r) \notin Account
        /\ phase[r] = "spawn" /\ Book(entry[r], 1)
        BY <1>4, ConstantsAssumption DEF WriteSpawn, Announced, SenderOf
  <2>2. /\ UNCHANGED <<intents, time, entry, at, seen, reclaimed, unguarded>>
        /\ r \notin intents
        /\ \A q \in Request : q # r => phase'[q] = phase[q]
        BY <1>0, <1>4 DEF WriteSpawn, TypeOK
  <2>3. \A q \in Request, j \in Round : at[q][j] \in {"balance", "write"} =>
          SenderOf(q) \in Account /\ SenderOf(q) # SenderOf(r)
        BY <1>0, <2>1 DEF BusySteps
  <2>4. \A q \in Request, j \in Round :
          at[q][j] \in BusySteps /\ SenderOf(q) \notin unguarded => Front(q)
        BY DEF SafeInv, Permitted
  <2>5. \A q \in intents : phase'[q] = phase[q]
        BY <1>0, <2>2
  <2> QED BY <1>0, <1>t, <2>1, <2>2, <2>3, <2>4, <2>5, PayingStep
<1>5. ASSUME NEW w \in Worker, NEW k \in Round, Interval(w, k) PROVE SafeInv'
  <2>1. /\ UNCHANGED <<ledger, intents, time, entry, phase, seen, mishaps>>
        /\ \A q \in Request, j \in Round :
             at'[q][j] = at[q][j] \/ (at'[q][j] = "check" /\ at[q][j] = "idle")
        BY <1>5 DEF Interval, TypeOK
  <2>2. \A q \in Request, j \in Round : at'[q][j] \in BusySteps => at'[q][j] = at[q][j]
        BY <2>1 DEF BusySteps
  <2>3. \A q \in Request, j \in Round : at'[q][j] # "balance" => at[q][j] # "balance"
        BY <2>1
  <2> QED BY <1>0, <2>1, <2>2, <2>3, QuietStep
<1>6. ASSUME NEW r \in Request, NEW k \in Round, CheckWritePermission(r, k)
      PROVE  SafeInv'
  <2>0. at[r][k] = "check" /\ UNCHANGED <<ledger, intents, time, entry, phase, seen, mishaps>>
        BY <1>6 DEF CheckWritePermission
  <2>1. CASE r \in First(SenderOf(r)) /\ Move(r, k, "granted")
    <3>1. /\ at'[r][k] = "granted"
          /\ \A q \in Request, j \in Round : q # r \/ j # k => at'[q][j] = at[q][j]
          BY <2>1, MoveEffect DEF Step
    <3>2. SenderOf(r) \notin unguarded => Front(r)
      <4>1. r \in intents /\ \A q \in intents : SenderOf(q) = SenderOf(r) => time[r] <= time[q]
            BY <2>1 DEF First, IntentsOf
      <4>2. \A q \in intents : time[q] \in Nat
            BY ConstantsAssumption DEF SafeInv, Placed
      <4>3. SenderOf(r) \notin unguarded =>
              \A q \in intents : q # r /\ SenderOf(q) = SenderOf(r) => time[r] # time[q]
            BY <4>1 DEF SafeInv, Distinct
      <4> QED BY <4>1, <4>2, <4>3 DEF Front
    <3>3. Permitted'
      <4> SUFFICES ASSUME NEW q \in Request, NEW j \in Round, at'[q][j] \in BusySteps,
                          SenderOf(q) \notin unguarded
                   PROVE  Front(q)
          BY <2>0 DEF Permitted, Front, SenderOf
      <4>1. CASE q = r
            BY <3>2, <4>1
      <4>2. CASE q # r
            BY <3>1, <4>2 DEF SafeInv, Permitted
      <4> QED BY <4>1, <4>2
    <3>4. \A q \in Request, j \in Round :
            /\ at'[q][j] = "balance" <=> at[q][j] = "balance"
            /\ at'[q][j] = "write" <=> at[q][j] = "write"
          BY <2>0, <3>1
    <3>5. Distinct' /\ Placed' /\ Fresh' /\ NoOverdraft'
          BY <2>0, <3>4 DEF SafeInv, Distinct, Placed, Fresh, NoOverdraft, SenderOf, Balance
    <3>6. Covered' /\ Cautious'
          BY <2>0, <3>4 DEF SafeInv, Cautious, Covered, SenderOf, Balance, Worth,
                            Hope, Known, SumOf
    <3> QED BY <3>3, <3>5, <3>6 DEF SafeInv
  <2>2. CASE Move(r, k, "idle")
    <3>1. /\ at'[r][k] = "idle"
          /\ \A q \in Request, j \in Round : q # r \/ j # k => at'[q][j] = at[q][j]
          BY <2>2, MoveEffect DEF Step
    <3>2. \A q \in Request, j \in Round : at'[q][j] \in BusySteps => at'[q][j] = at[q][j]
          BY <3>1 DEF BusySteps
    <3>3. \A q \in Request, j \in Round : at'[q][j] # "balance" => at[q][j] # "balance"
          BY <2>0, <3>1
    <3> QED BY <1>0, <2>0, <3>2, <3>3, QuietStep
  <2> QED BY <1>6, <2>1, <2>2 DEF CheckWritePermission
<1>7. ASSUME NEW r \in Request, NEW k \in Round, OnWritePermission(r, k)
      PROVE  SafeInv'
  <2>1. /\ at[r][k] = "granted"
        /\ UNCHANGED <<ledger, intents, time, entry, phase, seen, mishaps>>
        /\ Move(r, k, "balance")
        BY <1>7 DEF OnWritePermission, Chained
  <2>2. /\ at'[r][k] = "balance"
        /\ \A q \in Request, j \in Round : q # r \/ j # k => at'[q][j] = at[q][j]
        BY <2>1, MoveEffect DEF Step
  <2>3. Permitted'
    <3> SUFFICES ASSUME NEW q \in Request, NEW j \in Round, at'[q][j] \in BusySteps,
                        SenderOf(q) \notin unguarded
                 PROVE  Front(q)
        BY <2>1 DEF Permitted, Front, SenderOf
    <3>1. at[q][j] \in BusySteps
          BY <2>1, <2>2 DEF BusySteps
    <3> QED BY <3>1 DEF SafeInv, Permitted
  <2>4. Fresh'
        BY <2>1, <2>2 DEF SafeInv, Fresh
  <2>5. Cautious'
    <3> SUFFICES ASSUME NEW q \in Request, NEW j \in Round, at'[q][j] = "balance",
                        SenderOf(q) \notin unguarded
                 PROVE  Hope(q, j) <= Worth(SenderOf(q))
        BY <2>1 DEF Cautious, SenderOf, Worth, Balance, Hope, Known, SumOf
    <3>1. CASE at[q][j] = "balance"
          BY <3>1 DEF SafeInv, Cautious
    <3>2. CASE at[q][j] # "balance"
      <4>1. seen[q][j] = NoSums /\ SenderOf(q) \in Account
            BY <1>0, <2>1, <2>2, <3>2 DEF BusySteps
      <4>2. Hope(q, j) = Balance(SenderOf(q))
            BY <4>1 DEF Hope, Known, NoSums, SumOf, Balance, Sum
      <4> QED BY <4>1, <4>2, LedgerInts DEF Worth
    <3> QED BY <3>1, <3>2
  <2>6. \A q \in Request, j \in Round : at'[q][j] = "write" <=> at[q][j] = "write"
        BY <2>1, <2>2
  <2>7. Distinct' /\ Placed' /\ NoOverdraft'
        BY <2>1 DEF SafeInv, Distinct, Placed, NoOverdraft, SenderOf, Balance
  <2>8. Covered'
        BY <2>1, <2>6 DEF SafeInv, Covered, SenderOf, Balance, Worth
  <2> QED BY <2>3, <2>4, <2>5, <2>7, <2>8 DEF SafeInv
<1>8. ASSUME NEW r \in Request, NEW k \in Round, NEW f \in Sum, GetBalance(r, k, f)
      PROVE  SafeInv'
  <2>1. /\ at[r][k] = "balance"
        /\ UNCHANGED <<ledger, intents, time, entry, phase, at, mishaps>>
        BY <1>8 DEF GetBalance
  <2>2. \A q \in Request, j \in Round :
          /\ q # r \/ j # k => seen'[q][j] = seen[q][j]
          /\ Hope(q, j)' = Hope(q, j)
        BY <1>8, HopeRead
  <2>3. Fresh'
        BY <2>1, <2>2 DEF SafeInv, Fresh
  <2>4. Cautious'
        BY <2>1, <2>2 DEF SafeInv, Cautious, SenderOf, Worth, Balance
  <2>5. Distinct' /\ Placed' /\ Permitted'
        BY <2>1 DEF SafeInv, Distinct, Placed, Permitted, Front, SenderOf
  <2>6. Covered' /\ NoOverdraft'
        BY <2>1 DEF SafeInv, Covered, NoOverdraft, SenderOf, Worth, Balance
  <2> QED BY <2>3, <2>4, <2>5, <2>6 DEF SafeInv
<1>9. ASSUME NEW r \in Request, NEW k \in Round, BalanceKnown(r, k)
      PROVE  SafeInv'
  <2>1. /\ at[r][k] = "balance" /\ UNCHANGED <<ledger, intents, time, entry, mishaps>>
        /\ seen'[r][k] = NoSums
        /\ \A q \in Request, j \in Round : q # r \/ j # k => seen'[q][j] = seen[q][j]
        BY <1>9 DEF BalanceKnown, TypeOK
  <2>2. CASE Seen(r, k) < entry[r].sent
    <3>1. /\ at'[r][k] = "idle" /\ phase'[r] = "gone"
          /\ \A q \in Request, j \in Round : q # r \/ j # k => at'[q][j] = at[q][j]
          /\ \A q \in Request : q # r => phase'[q] = phase[q]
          BY <1>9, <2>2 DEF BalanceKnown, Settle, Move, TypeOK
    <3>2. \A q \in Request, j \in Round : at'[q][j] \in BusySteps =>
            at'[q][j] = at[q][j] /\ seen'[q][j] = seen[q][j]
          BY <2>1, <3>1 DEF BusySteps
    <3>3. \A q \in Request, j \in Round : at'[q][j] # "balance" => seen'[q][j] = NoSums
          BY <1>0, <2>1, <3>1
    <3> QED BY <1>0, <2>1, <3>1, <3>2, <3>3, QuietStep
  <2>3. CASE ~(Seen(r, k) < entry[r].sent)
    <3>1. /\ at'[r][k] = "write" /\ UNCHANGED phase
          /\ \A q \in Request, j \in Round : q # r \/ j # k => at'[q][j] = at[q][j]
          BY <1>9, <2>3, MoveEffect DEF BalanceKnown, Step
    <3>2. Permitted'
      <4> SUFFICES ASSUME NEW q \in Request, NEW j \in Round, at'[q][j] \in BusySteps,
                          SenderOf(q) \notin unguarded
                   PROVE  Front(q)
          BY <2>1 DEF Permitted, Front, SenderOf
      <4>1. at[q][j] \in BusySteps
            BY <2>1, <3>1 DEF BusySteps
      <4> QED BY <4>1 DEF SafeInv, Permitted
    <3>3. Fresh'
          BY <1>0, <2>1, <3>1 DEF Fresh
    <3>4. Cautious'
          BY <2>1, <3>1 DEF SafeInv, Cautious, SenderOf, Worth, Balance, Hope, Known, SumOf
    <3>5. SenderOf(r) \notin unguarded => Worth(SenderOf(r)) >= entry[r].sent
      <4>1. SenderOf(r) \in Account /\ entry[r] \in Entry
            BY <1>0, <2>1 DEF BusySteps
      <4>2. entry[r].sent \in Nat /\ Worth(SenderOf(r)) \in Int /\ Hope(r, k) \in Int
            BY <4>1, EntryAssumption, LedgerInts, HopeInt
      <4>3. Hope(r, k) = Seen(r, k)
            BY <1>9 DEF BalanceKnown, Hope, Known, Seen, Sum
      <4>4. SenderOf(r) \notin unguarded => Hope(r, k) <= Worth(SenderOf(r))
            BY <2>1 DEF SafeInv, Cautious
      <4> QED BY <2>3, <4>2, <4>3, <4>4
    <3>6. Covered'
          BY <2>1, <3>1, <3>5 DEF SafeInv, Covered, SenderOf, Worth, Balance
    <3>7. Distinct' /\ Placed' /\ NoOverdraft'
          BY <2>1, <3>1 DEF SafeInv, Distinct, Placed, NoOverdraft, SenderOf, Balance
    <3> QED BY <3>2, <3>3, <3>4, <3>6, <3>7 DEF SafeInv
  <2> QED BY <2>2, <2>3
<1>10. ASSUME NEW r \in Request, NEW k \in Round, Write(r, k) PROVE SafeInv'
  <2>1. /\ at[r][k] = "write" /\ Book(entry[r], 1)
        /\ UNCHANGED <<intents, time, entry, seen, phase, reclaimed, unguarded>>
        /\ entry[r] \in Entry
        BY <1>10 DEF Write, Announced
  <2>2. /\ at'[r][k] = "written"
        /\ \A q \in Request, j \in Round : q # r \/ j # k => at'[q][j] = at[q][j]
        BY <1>10, MoveEffect DEF Write, Step
  <2>3. SenderOf(r) \notin unguarded => Worth(SenderOf(r)) >= entry[r].sent
        BY <2>1 DEF SafeInv, Covered
  <2>4. \A q \in Request, j \in Round : at'[q][j] \in BusySteps => at[q][j] \in BusySteps
        BY <2>1, <2>2 DEF BusySteps
  <2>5. \A q \in Request, j \in Round :
          at'[q][j] \in BusySteps /\ SenderOf(q) \notin unguarded => Front(q)
        BY <2>4 DEF SafeInv, Permitted
  <2>6. ASSUME NEW q \in Request, NEW j \in Round, at'[q][j] \in {"balance", "write"},
               SenderOf(q) \notin unguarded
        PROVE  /\ at'[q][j] = at[q][j] /\ SenderOf(q) \in Account
               /\ SenderOf(q) # SenderOf(r)
    <3>1. q # r
          BY <2>2, <2>6, SingleRound DEF SingleRound
    <3>2. at'[q][j] = at[q][j]
          BY <2>2, <3>1
    <3>3. at[q][j] \in BusySteps /\ at[r][k] \in BusySteps
          BY <2>1, <2>6, <3>2 DEF BusySteps
    <3> QED BY <1>0, <2>6, <3>1, <3>2, <3>3, Alone DEF SafeInv
  <2>7. \A q \in Request, j \in Round : at'[q][j] # "balance" => seen[q][j] = NoSums
        BY <1>0, <2>1, <2>2
  <2> QED BY <1>t, <2>1, <2>3, <2>5, <2>6, <2>7, PayingStep
<1>11. ASSUME NEW r \in Request, NEW k \in Round, WriteDone(r, k) PROVE SafeInv'
  <2>1. /\ at[r][k] = "written" /\ at'[r][k] = "idle" /\ phase'[r] = "gone"
        /\ UNCHANGED <<ledger, intents, time, entry, seen, mishaps>>
        /\ \A q \in Request, j \in Round : q # r \/ j # k => at'[q][j] = at[q][j]
        /\ \A q \in Request : q # r => phase'[q] = phase[q]
        BY <1>11 DEF WriteDone, Settle, Move, TypeOK
  <2>2. \A q \in Request, j \in Round : at'[q][j] \in BusySteps => at'[q][j] = at[q][j]
        BY <2>1 DEF BusySteps
  <2>3. \A q \in Request, j \in Round : at'[q][j] # "balance" => at[q][j] # "balance"
        BY <2>1
  <2> QED BY <1>0, <2>1, <2>2, <2>3, QuietStep
<1>12. ASSUME NEW r \in Request, NEW k \in Round, StepFails(r, k) PROVE SafeInv'
  <2>1. /\ at'[r][k] = "idle" /\ seen'[r][k] = NoSums
        /\ UNCHANGED <<ledger, intents, time, entry, phase, mishaps>>
        /\ \A q \in Request, j \in Round : q # r \/ j # k =>
             at'[q][j] = at[q][j] /\ seen'[q][j] = seen[q][j]
        BY <1>12 DEF StepFails, Move, TypeOK
  <2>2. \A q \in Request, j \in Round : at'[q][j] \in BusySteps =>
          at'[q][j] = at[q][j] /\ seen'[q][j] = seen[q][j]
        BY <2>1 DEF BusySteps
  <2>3. \A q \in Request, j \in Round : at'[q][j] # "balance" => seen'[q][j] = NoSums
        BY <1>0, <2>1
  <2> QED BY <1>0, <2>1, <2>2, <2>3, QuietStep
<1>13. ASSUME NEW r \in Request, WriteComplete(r) \/ RemoveFails(r) \/ Expire(r)
       PROVE  SafeInv'
  <2>1. /\ UNCHANGED <<ledger, time, entry, phase, at, seen, reclaimed>>
        /\ intents' = intents \/ intents' = intents \ {r}
        /\ unguarded \subseteq unguarded'
        BY <1>13 DEF WriteComplete, RemoveFails, Expire
  <2>2. intents' # intents => SenderOf(r) \in unguarded' \/ ~Busy(r)
    <3>1. r \in removing => ~Busy(r)
          BY DEF Announced, Chained, Busy
    <3> QED BY <1>13, <3>1 DEF WriteComplete, RemoveFails, Expire
  <2>3. \A q \in Request, j \in Round : at[q][j] \in BusySteps /\ q \in intents =>
          q \in intents' \/ SenderOf(q) \in unguarded'
        BY <2>1, <2>2 DEF Busy, BusySteps
  <2> QED BY <1>0, <2>1, <2>3, QuietStep
<1>14. ASSUME NEW r \in Request, Delete(r) PROVE SafeInv'
  <2>1. /\ entry[r] \in Entry
        /\ UNCHANGED <<intents, time, entry, phase, at, seen, unguarded>>
        BY <1>14 DEF Delete, Announced, TypeOK
  <2>2. ASSUME NEW a \in Account
        PROVE  /\ income'[a] <= income[a] /\ taxincome'[a] <= taxincome[a]
               /\ payments[a] - payments'[a] \in Nat
               /\ Worth(a)' = Worth(a) + (payments[a] - payments'[a])
               /\ Worth(a) \in Int
    <3>1. payments[a] \in Int /\ payments'[a] \in Int /\ Worth(a) \in Int
          BY <1>t, LedgerInts DEF TypeOK
    <3> QED BY <1>14, <2>1, <3>1, DeleteEffect
  <2>3. Cautious'
    <3> SUFFICES ASSUME NEW q \in Request, NEW j \in Round, at[q][j] = "balance",
                        NEW s \in Account, s = SenderOf(q), s \notin unguarded
                 PROVE  Hope(q, j)' <= Worth(s)'
        BY <1>0, <2>1 DEF Cautious, SenderOf, BusySteps
    <3> DEFINE p == payments[s] - payments'[s]
    <3>1. income[s] \in Int /\ taxincome[s] \in Int /\ payments[s] \in Int /\ payments'[s] \in Int
          BY <1>t, LedgerInts DEF TypeOK
    <3>2. /\ SenderOf(q)' = s /\ p \in Nat /\ payments'[s] >= payments[s] - p
          /\ income'[s] <= income[s] + 0 /\ taxincome'[s] <= taxincome[s] + 0
          BY <2>1, <2>2, <3>1 DEF SenderOf
    <3>3. Worth(s)' = Worth(s) + p /\ Worth(s) \in Int
          BY <2>2
    <3>5. Hope(q, j) <= Worth(s)
          BY DEF SafeInv, Cautious
    <3> HIDE DEF p
    <3>4. /\ Hope(q, j)' <= Hope(q, j) + 0 + 0 + p
          /\ Hope(q, j) \in Int /\ Hope(q, j)' \in Int
          BY <1>t, <2>1, <3>2, HopeMoves
    <3> QED BY <3>2, <3>3, <3>4, <3>5
  <2>4. Covered'
    <3> SUFFICES ASSUME NEW q \in Request, NEW j \in Round, at[q][j] = "write",
                        NEW s \in Account, s = SenderOf(q), s \notin unguarded
                 PROVE  Worth(s)' >= entry[q].sent
        BY <1>0, <2>1 DEF Covered, SenderOf, BusySteps
    <3>1. Worth(s) >= entry[q].sent
          BY DEF SafeInv, Covered
    <3>2. entry[q].sent \in Nat
          BY <1>0, EntryAssumption DEF BusySteps
    <3> QED BY <2>2, <3>1, <3>2
  <2>5. NoOverdraft'
    <3> SUFFICES ASSUME NEW a \in Account \ unguarded PROVE Worth(a)' >= 0
        BY <2>1 DEF NoOverdraft, Worth
    <3> QED BY <2>2 DEF SafeInv, NoOverdraft, Worth
  <2>6. Distinct' /\ Placed' /\ Permitted' /\ Fresh'
        BY <2>1 DEF SafeInv, Distinct, Placed, Permitted, Front, Fresh, SenderOf
  <2> QED BY <2>3, <2>4, <2>5, <2>6 DEF SafeInv
<1>15. ASSUME NEW w \in Worker, Crash(w) PROVE SafeInv'
  <2>1. /\ UNCHANGED <<ledger, intents, time, entry, mishaps>>
        /\ \A q \in Request :
             \/ /\ phase'[q] = phase[q]
                /\ \A j \in Round : at'[q][j] = at[q][j] /\ seen'[q][j] = seen[q][j]
             \/ /\ phase'[q] \in {"gone", "lost"}
                /\ \A j \in Round : at'[q][j] = "idle" /\ seen'[q][j] = NoSums
        BY <1>15 DEF Crash, TypeOK
  <2>2. \A q \in Request, j \in Round : at'[q][j] \in BusySteps =>
          at'[q][j] = at[q][j] /\ seen'[q][j] = seen[q][j]
        BY <2>1 DEF BusySteps
  <2>3. \A q \in Request, j \in Round : at'[q][j] # "balance" => seen'[q][j] = NoSums
        BY <1>0, <2>1
  <2>4. \A q \in intents : phase'[q] \in {"saved", "queued", "gone", "lost"}
        BY <1>0, <2>1
  <2> QED BY <2>1, <2>2, <2>3, <2>4, QuietStep
<1>16. CASE UNCHANGED vars
       BY <1>0, <1>16, QuietStep DEF vars
<1> QED
    BY <1>1, <1>2, <1>3, <1>4, <1>5, <1>6, <1>7, <1>8, <1>9, <1>10, <1>11,
       <1>12, <1>13, <1>14, <1>15, <1>16
    DEF Next

LEMMA SafeInit == Init => TypeInv /\ Chained /\ SafeInv
<1> SUFFICES ASSUME Init PROVE TypeInv /\ Chained /\ SafeInv
    OBVIOUS
<1>1. TypeInv /\ Chained
      BY TypeInit DEF TypeInv, Announced, Init, Chained
<1>2. Distinct /\ Placed /\ Permitted /\ Fresh /\ Cautious /\ Covered
      BY DEF Init, Distinct, Placed, Permitted, Fresh, Cautious, Covered, BusySteps
<1>3. NoOverdraft
      BY ConstantsAssumption DEF Init, NoOverdraft, Balance
<1> QED BY <1>1, <1>2, <1>3 DEF SafeInv

LEMMA SafeAlways ==
  ASSUME SingleRound
  PROVE  Spec => [](TypeInv /\ Chained /\ SafeInv)
<1>2. TypeInv /\ Chained /\ SafeInv /\ [Next]_vars => (TypeInv /\ Chained /\ SafeInv)'
      BY TypeNext, ChainedNext, SafeNext
<1> QED BY <1>2, SafeInit, PTL DEF Spec

\* No account ever owes more than administrators took back from it, with any
\* number of workers and servers, errors, lost replies, expired intents and
\* crashes, as long as the order of its own intents holds.
THEOREM Solvency ==
  ASSUME SingleRound
  PROVE  Spec => []NoOverdraft
<1>1. TypeInv /\ Chained /\ SafeInv => NoOverdraft
      BY DEF SafeInv
<1> QED BY <1>1, SafeAlways, PTL

\* At most one payment of a sender is worked on, as long as none of their intents
\* has overtaken one with permission or expired under it.
THEOREM Exclusion ==
  ASSUME SingleRound
  PROVE  Spec => []SenderExclusion
<1>1. TypeInv /\ Chained /\ SafeInv => SenderExclusion
      BY Alone DEF TypeInv, SafeInv, SenderExclusion, Busy, BusySteps
<1> QED BY <1>1, SafeAlways, PTL

-----------------------------------------------------------------------------
(* "ok" *)

\* Who is answered ok, or is about to be, has a document in the database.
Truthful ==
  \A r \in Request :
    \/ answer[r] = "ok" \/ phase[r] = "spawned" \/ \E k \in Round : at[r][k] = "written"
    => written[r] > 0

LEMMA TruthfulNext == TypeOK /\ Truthful /\ [Next]_vars => Truthful'
<1> SUFFICES ASSUME TypeOK, Truthful, [Next]_vars PROVE Truthful'
    OBVIOUS
<1> USE DEF Truthful, ledger, chain, history, mishaps
<1>1. ASSUME NEW r \in Request,
             \/ \E w \in Worker, e \in Entry, t \in Time : Transaction(w, r, e, t)
             \/ SaveIntent(r) \/ Queue(r)
      PROVE  Truthful'
  <2>1. /\ \A q \in Request : q # r => phase'[q] = phase[q]
        /\ phase'[r] # "spawned"
        /\ UNCHANGED <<at, written, answer>>
        BY <1>1 DEF Transaction, SaveIntent, Queue, TypeOK
  <2> QED BY <2>1
<1>2. ASSUME NEW r \in Request, WriteSpawn(r) PROVE Truthful'
  <2>1. /\ \A q \in Request : q # r => phase'[q] = phase[q] /\ written'[q] = written[q]
        /\ written'[r] = written[r] + 1 /\ written[r] \in Nat
        /\ UNCHANGED <<at, answer>>
        BY <1>2 DEF WriteSpawn, TypeOK
  <2> QED BY <2>1
<1>3. ASSUME NEW r \in Request, SpawnDone(r) \/ IntentFails(r) \/ SpawnFails(r)
      PROVE  Truthful'
  <2>1. /\ \A q \in Request : q # r => phase'[q] = phase[q] /\ answer'[q] = answer[q]
        /\ phase'[r] = "gone"
        /\ answer'[r] = "ok" => answer[r] = "ok" \/ phase[r] = "spawned"
        /\ UNCHANGED <<at, written>>
        BY <1>3 DEF SpawnDone, IntentFails, SpawnFails, Fail, Reply, TypeOK
  <2> QED BY <2>1
<1>4. ASSUME NEW w \in Worker, NEW k \in Round, Interval(w, k) PROVE Truthful'
  <2>1. /\ \A q \in Request, j \in Round : at'[q][j] \in {at[q][j], "check"}
        /\ UNCHANGED <<phase, written, answer>>
        BY <1>4 DEF Interval, TypeOK
  <2> QED BY <2>1
<1>5. ASSUME NEW r \in Request, NEW k \in Round,
             \/ CheckWritePermission(r, k) \/ OnWritePermission(r, k)
             \/ BalanceKnown(r, k) \/ StepFails(r, k)
      PROVE  Truthful'
  <2>1. /\ at'[r][k] # "written"
        /\ \A q \in Request, j \in Round : q # r \/ j # k => at'[q][j] = at[q][j]
        BY <1>5 DEF CheckWritePermission, OnWritePermission, BalanceKnown, StepFails,
                    Move, TypeOK
  <2>2. /\ \A q \in Request : phase'[q] = "spawned" => phase[q] = "spawned"
        /\ \A q \in Request : answer'[q] = "ok" => answer[q] = "ok"
        /\ UNCHANGED written
        BY <1>5 DEF CheckWritePermission, OnWritePermission, BalanceKnown, StepFails,
                    Settle, Fail, Reply, TypeOK
  <2> QED BY <2>1, <2>2
<1>6. ASSUME NEW r \in Request, NEW k \in Round, Write(r, k) PROVE Truthful'
  <2>1. /\ \A q \in Request, j \in Round : q # r => at'[q][j] = at[q][j]
        /\ \A q \in Request : q # r => written'[q] = written[q]
        /\ written'[r] = written[r] + 1 /\ written[r] \in Nat
        /\ UNCHANGED <<phase, answer>>
        BY <1>6 DEF Write, Move, TypeOK
  <2> QED BY <2>1
<1>7. ASSUME NEW r \in Request, NEW k \in Round, WriteDone(r, k) PROVE Truthful'
  <2>1. /\ at[r][k] = "written" /\ at'[r][k] = "idle" /\ phase'[r] = "gone"
        /\ \A q \in Request, j \in Round : q # r \/ j # k => at'[q][j] = at[q][j]
        /\ \A q \in Request : q # r => phase'[q] = phase[q] /\ answer'[q] = answer[q]
        /\ UNCHANGED written
        BY <1>7 DEF WriteDone, Settle, Move, Reply, TypeOK
  <2> QED BY <2>1
<1>8. ASSUME NEW r \in Request,
             \/ WriteComplete(r) \/ RemoveFails(r) \/ Expire(r) \/ Delete(r)
             \/ \E k \in Round, f \in Sum : GetBalance(r, k, f)
      PROVE  Truthful'
      BY <1>8 DEF WriteComplete, RemoveFails, Expire, Delete, GetBalance
<1>9. ASSUME NEW w \in Worker, Crash(w) PROVE Truthful'
  <2>1. /\ \A q \in Request, j \in Round : at'[q][j] \in {at[q][j], "idle"}
        /\ \A q \in Request : phase'[q] \in {phase[q], "lost"}
        /\ UNCHANGED <<written, answer>>
        BY <1>9 DEF Crash, TypeOK
  <2> QED BY <2>1
<1>10. CASE UNCHANGED vars
       BY <1>10 DEF vars
<1> QED
    BY <1>1, <1>2, <1>3, <1>4, <1>5, <1>6, <1>7, <1>8, <1>9, <1>10 DEF Next

\* Whoever is told ok was paid: with overlapping intervals, intents in any
\* order, early expiry, errors, lost replies and crashes alike.
THEOREM OkIsTrue == Spec => []OkMeansPaid
<1>0. Init => TypeInv
      BY TypeInit DEF TypeInv, Announced, Init
<1>1. Init => TypeInv /\ Truthful
      BY <1>0, ConstantsAssumption DEF Init, Truthful
<1>2. TypeInv /\ Truthful /\ [Next]_vars => (TypeInv /\ Truthful)'
      BY TypeNext, TruthfulNext DEF TypeInv
<1>3. Truthful => OkMeansPaid
      BY DEF Truthful, OkMeansPaid
<1> QED BY <1>1, <1>2, <1>3, PTL DEF Spec

-----------------------------------------------------------------------------
(* Everybody is answered *)

\* An entry is deleted with an answer only, and no callback of a dead worker runs.
Concluded ==
  \A r \in Request :
    /\ phase[r] = "gone" => answer[r] # None
    /\ phase[r] = "lost" => \A k \in Round : at[r][k] = "idle"

\* What every step keeps of the requests that have come to an end.
Ending ==
  \A r \in Request :
    /\ answer[r] # None => answer'[r] = answer[r]
    /\ phase[r] \in {"gone", "lost"} => phase'[r] = phase[r]
    /\ phase'[r] = "gone" => phase[r] = "gone" \/ answer'[r] # None
    /\ phase'[r] = "lost" => \A k \in Round : at'[r][k] = "idle"

LEMMA EndingStep == TypeOK /\ Concluded /\ [Next]_vars => Ending
<1> SUFFICES ASSUME TypeOK, Concluded, [Next]_vars PROVE Ending
    OBVIOUS
<1> USE ConstantsAssumption DEF Concluded, Ending, chain
<1>1. ASSUME NEW r \in Request,
             \/ \E w \in Worker, e \in Entry, t \in Time : Transaction(w, r, e, t)
             \/ SaveIntent(r) \/ Queue(r) \/ WriteSpawn(r)
      PROVE  Ending
  <2>1. /\ \A q \in Request : q # r => phase'[q] = phase[q]
        /\ phase[r] \notin {"gone", "lost"} /\ phase'[r] \notin {"gone", "lost"}
        /\ UNCHANGED <<at, answer>>
        BY <1>1 DEF Transaction, SaveIntent, Queue, WriteSpawn, TypeOK
  <2> QED BY <2>1
<1>2. ASSUME NEW r \in Request, SpawnDone(r) \/ IntentFails(r) \/ SpawnFails(r)
      PROVE  Ending
  <2>1. /\ \A q \in Request : q # r => phase'[q] = phase[q] /\ answer'[q] = answer[q]
        /\ phase[r] \notin {"gone", "lost"} /\ phase'[r] = "gone"
        /\ answer'[r] # None
        /\ answer[r] # None => answer'[r] = answer[r]
        /\ UNCHANGED at
        BY <1>2 DEF SpawnDone, IntentFails, SpawnFails, Fail, Reply, TypeOK
  <2> QED BY <2>1
<1>3. ASSUME NEW w \in Worker, NEW k \in Round, Interval(w, k) PROVE Ending
  <2>1. /\ \A q \in Request : phase[q] # "queued" => at'[q] = at[q]
        /\ UNCHANGED <<phase, answer>>
        BY <1>3 DEF Interval, TypeOK
  <2> QED BY <2>1
<1>4. ASSUME NEW r \in Request, NEW k \in Round,
             \/ CheckWritePermission(r, k) \/ OnWritePermission(r, k)
             \/ BalanceKnown(r, k) \/ Write(r, k) \/ WriteDone(r, k) \/ StepFails(r, k)
      PROVE  Ending
  <2>1. at[r][k] # "idle" /\ phase[r] # "lost"
        BY <1>4 DEF CheckWritePermission, OnWritePermission, BalanceKnown, Write,
                    WriteDone, StepFails
  <2>2. \A q \in Request \ {r} : at'[q] = at[q] /\ phase'[q] = phase[q] /\ answer'[q] = answer[q]
        BY <1>4 DEF CheckWritePermission, OnWritePermission, BalanceKnown, Write,
                    WriteDone, StepFails, Settle, Fail, Reply, Move, TypeOK
  <2>3. /\ answer[r] # None => answer'[r] = answer[r]
        /\ phase'[r] = phase[r] \/ (phase'[r] = "gone" /\ answer'[r] # None)
        BY <1>4 DEF CheckWritePermission, OnWritePermission, BalanceKnown, Write,
                    WriteDone, StepFails, Settle, Fail, Reply, TypeOK
  <2> QED BY <2>1, <2>2, <2>3
<1>5. ASSUME NEW r \in Request,
             \/ WriteComplete(r) \/ RemoveFails(r) \/ Expire(r) \/ Delete(r)
             \/ \E k \in Round, f \in Sum : GetBalance(r, k, f)
      PROVE  Ending
      BY <1>5 DEF WriteComplete, RemoveFails, Expire, Delete, GetBalance
<1>6. ASSUME NEW w \in Worker, Crash(w) PROVE Ending
  <2>1. /\ \A q \in Request, j \in Round : at'[q][j] \in {at[q][j], "idle"}
        /\ \A q \in Request : \/ phase'[q] = phase[q]
                              \/ /\ phase[q] # "gone" /\ phase'[q] = "lost"
                                 /\ \A j \in Round : at'[q][j] = "idle"
        /\ UNCHANGED answer
        BY <1>6 DEF Crash, TypeOK
  <2> QED BY <2>1
<1>7. CASE UNCHANGED vars
      BY <1>7 DEF vars
<1> QED BY <1>1, <1>2, <1>3, <1>4, <1>5, <1>6, <1>7 DEF Next

\* What QueuedIsAnswered rests on, in every environment: no entry leaves
\* pending_transactions without an answer to its client, what has been answered is
\* not taken back, and what is answered or lost with its worker has come to its end.
THEOREM EndIsAnswered ==
  Spec => /\ [](\A r \in Request : phase[r] = "gone" => answer[r] # None)
          /\ [][\A r \in Request :
                  /\ answer[r] # None => answer'[r] = answer[r]
                  /\ phase[r] \in {"gone", "lost"} => phase'[r] = phase[r]]_vars
<1> DEFINE Answered == \A r \in Request : phase[r] = "gone" => answer[r] # None
           Final == \A r \in Request :
                      /\ answer[r] # None => answer'[r] = answer[r]
                      /\ phase[r] \in {"gone", "lost"} => phase'[r] = phase[r]
<1>0. Init => TypeInv
      BY TypeInit DEF TypeInv, Announced, Init
<1>1. Init => TypeInv /\ Concluded
      BY <1>0 DEF Init, Concluded
<1>2. TypeInv /\ Concluded /\ [Next]_vars => (TypeInv /\ Concluded)' /\ [Final]_vars
  <2>1. TypeInv /\ [Next]_vars => TypeInv'
        BY TypeNext
  <2>2. Concluded /\ Ending => Concluded' /\ Final
        BY DEF Concluded, Ending
  <2> QED BY <2>1, <2>2, EndingStep DEF TypeInv
<1>3. Concluded => Answered
      BY DEF Concluded
<1> QED BY <1>1, <1>2, <1>3, PTL DEF Spec

-----------------------------------------------------------------------------
(* "nomoney", and what comes after an answer *)

\* Also when replies are lost: a payment is tried again only after an error, and
\* its client has been told of the first one.
Tried ==
  \A r \in Request :
    /\ written[r] <= failures + 1
    /\ written[r] = failures + 1 => \/ phase[r] \in {"spawned", "gone", "lost"}
                                    \/ \E k \in Round : at[r][k] = "written"
    /\ phase[r] = "queued" /\ written[r] > 0 => \/ answer[r] = "error"
                                                \/ \E k \in Round : at[r][k] = "written"
    /\ written[r] > 1 => answer[r] = "error"
    /\ phase[r] \in {"new", "intent", "saved", "spawn"} => written[r] = 0
    /\ phase[r] = "spawned" => written[r] = 1

Settled ==
  \A r \in Request :
    /\ answer[r] \in {"ok", "nomoney"} => phase[r] = "gone"
    /\ answer[r] = "nomoney" => written[r] = 0

LEMMA TriedNext ==
  ASSUME SingleRound
  PROVE  TypeInv /\ Chained /\ Tried /\ Settled /\ [Next]_vars => Tried'
<1> SUFFICES ASSUME TypeOK, Announced, Chained, Tried, Settled, [Next]_vars
             PROVE  Tried'
    BY DEF TypeInv
<1> USE DEF Chained, Tried, ledger, chain, history, mishaps
<1>0. /\ failures \in Nat /\ \A q \in Request : written[q] \in Nat /\ phase[q] \in Phase
      /\ \A q \in Request : answer[q] = "ok" \/ answer[q] = "nomoney" => phase[q] = "gone"
      BY DEF TypeOK, Settled
<1>1. ASSUME NEW r \in Request, NEW w \in Worker, NEW e \in Entry, NEW t \in Time,
             Transaction(w, r, e, t)
      PROVE  Tried'
  <2>1. /\ \A q \in Request : q # r => phase'[q] = phase[q]
        /\ phase[r] = "new" /\ phase'[r] \in {"spawn", "intent"}
        /\ UNCHANGED <<at, written, answer, failures>>
        BY <1>1 DEF Transaction, TypeOK
  <2> QED BY <1>0, <2>1
<1>2. ASSUME NEW r \in Request, SaveIntent(r) \/ Queue(r)
      PROVE  Tried'
  <2>1. /\ \A q \in Request : q # r => phase'[q] = phase[q]
        /\ phase[r] \in {"intent", "saved"} /\ phase'[r] \in {"saved", "queued"}
        /\ UNCHANGED <<at, written, answer, failures>>
        BY <1>2 DEF SaveIntent, Queue, TypeOK
  <2> QED BY <1>0, <2>1
<1>3. ASSUME NEW r \in Request, SpawnDone(r) \/ IntentFails(r) \/ SpawnFails(r)
      PROVE  Tried'
  <2>1. /\ \A q \in Request : q # r => phase'[q] = phase[q] /\ answer'[q] = answer[q]
        /\ phase[r] \in {"intent", "saved", "spawn", "spawned"} /\ phase'[r] = "gone"
        /\ failures' \in {failures, failures + 1}
        /\ UNCHANGED <<at, written>>
        BY <1>3 DEF SpawnDone, IntentFails, SpawnFails, Fail, Reply, TypeOK
  <2>2. written[r] <= 1
        BY <1>0, <2>1
  <2> QED BY <1>0, <2>1, <2>2
<1>4. ASSUME NEW r \in Request, WriteSpawn(r) PROVE Tried'
  <2>1. /\ \A q \in Request : q # r => phase'[q] = phase[q] /\ written'[q] = written[q]
        /\ phase[r] = "spawn" /\ phase'[r] = "spawned"
        /\ written'[r] = written[r] + 1
        /\ UNCHANGED <<at, answer, failures>>
        BY <1>4 DEF WriteSpawn, TypeOK
  <2>2. written[r] = 0
        BY <2>1
  <2> QED BY <1>0, <2>1, <2>2
<1>5. ASSUME NEW w \in Worker, NEW k \in Round, Interval(w, k) PROVE Tried'
  <2>1. /\ \A q \in Request, j \in Round :
              at'[q][j] = at[q][j] \/ (phase[q] = "queued" /\ j = k /\ at[q][k] = "idle")
        /\ UNCHANGED <<phase, written, answer, failures>>
        BY <1>5 DEF Interval, TypeOK
  <2> QED BY <2>1
<1>6. ASSUME NEW r \in Request, NEW k \in Round,
             CheckWritePermission(r, k) \/ OnWritePermission(r, k)
      PROVE  Tried'
  <2>1. /\ at[r][k] \in {"check", "granted"}
        /\ \A q \in Request, j \in Round : q # r \/ j # k => at'[q][j] = at[q][j]
        /\ UNCHANGED <<phase, written, answer, failures>>
        BY <1>6 DEF CheckWritePermission, OnWritePermission, Move, TypeOK
  <2> QED BY <2>1
<1>7. ASSUME NEW r \in Request, NEW k \in Round, NEW f \in Sum, GetBalance(r, k, f)
      PROVE  Tried'
      BY <1>7 DEF GetBalance
<1>8. ASSUME NEW r \in Request, NEW k \in Round, BalanceKnown(r, k)
      PROVE  Tried'
  <2>1. /\ at[r][k] = "balance" /\ UNCHANGED <<written, failures>>
        /\ \A q \in Request, j \in Round : q # r \/ j # k => at'[q][j] = at[q][j]
        /\ phase'[r] = "gone" \/ (phase'[r] = phase[r] /\ answer'[r] = answer[r])
        /\ answer[r] = "error" => answer'[r] = "error"
        /\ \A q \in Request : q # r => phase'[q] = phase[q] /\ answer'[q] = answer[q]
        BY <1>8, ConstantsAssumption DEF BalanceKnown, Settle, Move, Reply, TypeOK
  <2>2. \A j \in Round : at[r][j] # "written"
        BY <2>1, SingleRound DEF SingleRound
  <2> QED BY <1>0, <2>1, <2>2
<1>9. ASSUME NEW r \in Request, NEW k \in Round, Write(r, k) PROVE Tried'
  <2>1. /\ at[r][k] = "write" /\ at'[r][k] = "written" /\ UNCHANGED <<phase, answer, failures>>
        /\ \A q \in Request, j \in Round : q # r \/ j # k => at'[q][j] = at[q][j]
        /\ \A q \in Request : q # r => written'[q] = written[q]
        /\ written'[r] = written[r] + 1
        BY <1>9 DEF Write, Move, TypeOK
  <2>2. /\ phase[r] = "queued" /\ written[r] <= failures
        /\ written[r] > 0 => answer[r] = "error"
        BY <1>0, <2>1, SingleRound DEF SingleRound
  <2> QED BY <1>0, <2>1, <2>2
<1>10. ASSUME NEW r \in Request, NEW k \in Round, WriteDone(r, k) PROVE Tried'
  <2>1. /\ at'[r][k] = "idle" /\ phase'[r] = "gone" /\ UNCHANGED <<written, failures>>
        /\ \A q \in Request, j \in Round : q # r \/ j # k => at'[q][j] = at[q][j]
        /\ \A q \in Request : q # r => phase'[q] = phase[q] /\ answer'[q] = answer[q]
        /\ answer[r] = "error" => answer'[r] = "error"
        BY <1>10, ConstantsAssumption DEF WriteDone, Settle, Move, Reply, TypeOK
  <2> QED BY <1>0, <2>1
<1>11. ASSUME NEW r \in Request, NEW k \in Round, StepFails(r, k) PROVE Tried'
  <2>1. /\ at[r][k] # "idle" /\ at'[r][k] = "idle" /\ failures' = failures + 1
        /\ \A q \in Request, j \in Round : q # r \/ j # k => at'[q][j] = at[q][j]
        /\ \A q \in Request : q # r => answer'[q] = answer[q]
        /\ answer'[r] = IF answer[r] = None THEN "error" ELSE answer[r]
        /\ UNCHANGED <<phase, written>>
        BY <1>11 DEF StepFails, Fail, Reply, Move, TypeOK
  <2>2. answer'[r] = "error"
    <3>1. answer[r] \in {"ok", "nomoney", "error", None} /\ phase[r] = "queued"
          BY <2>1 DEF TypeOK, Answer
    <3> QED BY <1>0, <2>1, <3>1
  <2> QED BY <1>0, <2>1, <2>2
<1>12. ASSUME NEW r \in Request,
              WriteComplete(r) \/ RemoveFails(r) \/ Expire(r) \/ Delete(r)
       PROVE  Tried'
  <2>1. failures' \in {failures, failures + 1} /\ UNCHANGED <<phase, at, written, answer>>
        BY <1>12 DEF WriteComplete, RemoveFails, Expire, Delete
  <2> QED BY <1>0, <2>1
<1>13. ASSUME NEW w \in Worker, Crash(w) PROVE Tried'
  <2>1. /\ UNCHANGED <<written, answer, failures>>
        /\ \A q \in Request :
             \/ phase'[q] = phase[q] /\ \A j \in Round : at'[q][j] = at[q][j]
             \/ phase'[q] \in {"gone", "lost"} /\ \A j \in Round : at'[q][j] = "idle"
        BY <1>13 DEF Crash, TypeOK
  <2> QED BY <2>1
<1>14. CASE UNCHANGED vars
       BY <1>14 DEF vars
<1> QED
    BY <1>1, <1>2, <1>3, <1>4, <1>5, <1>6, <1>7, <1>8, <1>9, <1>10, <1>11,
       <1>12, <1>13, <1>14
    DEF Next

LEMMA SettledNext ==
  ASSUME SingleRound
  PROVE  TypeInv /\ Chained /\ Tried /\ Settled /\ [Next]_vars => Settled'
<1> SUFFICES ASSUME TypeOK, Announced, Chained, Tried, Settled, [Next]_vars
             PROVE  Settled'
    BY DEF TypeInv
<1> USE DEF Settled, ledger, chain, history, mishaps
<1>1. ASSUME NEW r \in Request,
             \/ \E w \in Worker, e \in Entry, t \in Time : Transaction(w, r, e, t)
             \/ SaveIntent(r) \/ Queue(r)
      PROVE  Settled'
  <2>1. /\ \A q \in Request : q # r => phase'[q] = phase[q]
        /\ phase[r] # "gone"
        /\ UNCHANGED <<written, answer>>
        BY <1>1 DEF Transaction, SaveIntent, Queue, TypeOK
  <2> QED BY <2>1
<1>2. ASSUME NEW r \in Request, WriteSpawn(r) PROVE Settled'
  <2>1. /\ \A q \in Request : q # r => phase'[q] = phase[q] /\ written'[q] = written[q]
        /\ phase[r] = "spawn" /\ UNCHANGED answer
        BY <1>2 DEF WriteSpawn, TypeOK
  <2> QED BY <2>1
<1>3. ASSUME NEW r \in Request, SpawnDone(r) \/ IntentFails(r) \/ SpawnFails(r)
      PROVE  Settled'
  <2>1. /\ \A q \in Request : q # r => phase'[q] = phase[q] /\ answer'[q] = answer[q]
        /\ phase'[r] = "gone" /\ phase[r] # "gone"
        /\ answer'[r] = "nomoney" => answer[r] = "nomoney"
        /\ UNCHANGED written
        BY <1>3 DEF SpawnDone, IntentFails, SpawnFails, Fail, Reply, TypeOK
  <2> QED BY <2>1
<1>4. ASSUME NEW r \in Request, NEW k \in Round, BalanceKnown(r, k)
      PROVE  Settled'
  <2>1. at[r][k] = "balance" /\ phase[r] = "queued" /\ UNCHANGED written
        BY <1>4 DEF BalanceKnown, Chained
  <2>2. written[r] = 0 \/ answer[r] = "error"
    <3>1. \A j \in Round : at[r][j] # "written"
          BY <2>1, SingleRound DEF SingleRound
    <3>2. written[r] \in Nat
          BY DEF TypeOK
    <3> QED BY <2>1, <3>1, <3>2 DEF Tried
  <2>3. CASE Seen(r, k) < entry[r].sent
    <3>1. /\ \A q \in Request : q # r => phase'[q] = phase[q] /\ answer'[q] = answer[q]
          /\ phase'[r] = "gone"
          /\ answer[r] = "error" => answer'[r] = "error"
          BY <1>4, <2>3, ConstantsAssumption DEF BalanceKnown, Settle, Reply, TypeOK
    <3> QED BY <2>1, <2>2, <3>1
  <2>4. CASE ~(Seen(r, k) < entry[r].sent)
        BY <1>4, <2>4 DEF BalanceKnown
  <2> QED BY <2>3, <2>4
<1>5. ASSUME NEW r \in Request, NEW k \in Round, Write(r, k) PROVE Settled'
  <2>1. /\ \A q \in Request : q # r => written'[q] = written[q]
        /\ phase[r] = "queued"
        /\ UNCHANGED <<phase, answer>>
        BY <1>5 DEF Write, Chained, TypeOK
  <2> QED BY <2>1
<1>6. ASSUME NEW r \in Request, NEW k \in Round, WriteDone(r, k) PROVE Settled'
  <2>1. /\ \A q \in Request : q # r => phase'[q] = phase[q] /\ answer'[q] = answer[q]
        /\ phase[r] = "queued" /\ phase'[r] = "gone"
        /\ answer'[r] = "nomoney" => answer[r] = "nomoney"
        /\ UNCHANGED written
        BY <1>6 DEF WriteDone, Settle, Reply, Chained, TypeOK
  <2> QED BY <2>1
<1>7. ASSUME NEW r \in Request, NEW k \in Round, StepFails(r, k) PROVE Settled'
  <2>1. /\ \A q \in Request : answer'[q] \in {answer[q], "error"}
        /\ UNCHANGED <<phase, written>>
        BY <1>7 DEF StepFails, Fail, Reply, TypeOK
  <2> QED BY <2>1
<1>8. ASSUME NEW w \in Worker, Crash(w) PROVE Settled'
  <2>1. /\ \A q \in Request : phase[q] = "gone" => phase'[q] = "gone"
        /\ UNCHANGED <<written, answer>>
        BY <1>8 DEF Crash, TypeOK
  <2> QED BY <2>1
<1>9. ASSUME NEW r \in Request,
             \/ WriteComplete(r) \/ RemoveFails(r) \/ Expire(r) \/ Delete(r)
             \/ \E k \in Round :
                  \/ CheckWritePermission(r, k) \/ OnWritePermission(r, k)
                  \/ \E f \in Sum : GetBalance(r, k, f)
      PROVE  Settled'
      BY <1>9 DEF WriteComplete, RemoveFails, Expire, Delete, CheckWritePermission,
                  OnWritePermission, GetBalance
<1>10. ASSUME NEW w \in Worker, NEW k \in Round, Interval(w, k) PROVE Settled'
       BY <1>10 DEF Interval
<1>11. CASE UNCHANGED vars
       BY <1>11 DEF vars
<1> QED
    BY <1>1, <1>2, <1>3, <1>4, <1>5, <1>6, <1>7, <1>8, <1>9, <1>10, <1>11 DEF Next

LEMMA SettledAlways ==
  ASSUME SingleRound
  PROVE  Spec => [](TypeInv /\ Chained /\ Tried /\ Settled)
<1>0. Init => TypeInv
      BY TypeInit DEF TypeInv, Announced, Init
<1>1. Init => TypeInv /\ Chained /\ Tried /\ Settled
      BY <1>0, ConstantsAssumption DEF Init, Chained, Tried, Settled
<1>2. TypeInv /\ Chained /\ Tried /\ Settled /\ [Next]_vars
      => (TypeInv /\ Chained /\ Tried /\ Settled)'
      BY TypeNext, ChainedNext, TriedNext, SettledNext
<1> QED BY <1>1, <1>2, PTL DEF Spec

\* Who is told nomoney was not paid and never will be: no attempt before or
\* after the answer has written a document, also when writes are reported as
\* failed that were executed.
THEOREM NomoneyIsTrue ==
  ASSUME SingleRound
  PROVE  Spec => []NomoneyMeansUnpaid
<1>1. Settled => NomoneyMeansUnpaid
      BY DEF Settled, NomoneyMeansUnpaid
<1> QED BY <1>1, SettledAlways, PTL

\* A payment is written once more at most for every error of the database, and a
\* second time only for a client that was told error instead of ok.
THEOREM RepeatedByErrorsOnly ==
  ASSUME SingleRound
  PROVE  Spec => []\A r \in Request :
                    /\ written[r] <= failures + 1
                    /\ written[r] > 1 => answer[r] = "error"
<1>1. Tried => \A r \in Request :
                 /\ written[r] <= failures + 1
                 /\ written[r] > 1 => answer[r] = "error"
      BY DEF Tried
<1> QED BY <1>1, SettledAlways, PTL

\* After ok or nomoney nothing more is written for the request.
THEOREM AnswerIsFinal ==
  ASSUME SingleRound
  PROVE  Spec => SettledIsFinal
<1> DEFINE Final == \A r \in Request :
             answer[r] \in {"ok", "nomoney"} => written'[r] = written[r]
<1>1. TypeInv /\ Chained /\ Tried /\ Settled /\ [Next]_vars => Final
  <2> SUFFICES ASSUME TypeOK, Chained, Settled, [Next]_vars,
                      NEW r \in Request, phase[r] = "gone"
               PROVE  written'[r] = written[r]
      BY DEF TypeInv, Settled
  <2> USE DEF history, mishaps
  <2>1. ASSUME NEW q \in Request, WriteSpawn(q) PROVE written'[r] = written[r]
        BY <2>1 DEF WriteSpawn, TypeOK
  <2>2. ASSUME NEW q \in Request, NEW k \in Round, Write(q, k)
        PROVE  written'[r] = written[r]
        BY <2>2 DEF Write, Chained, TypeOK
  <2>3. CASE UNCHANGED written
        BY <2>3
  <2>4. \/ \E q \in Request : WriteSpawn(q) \/ \E k \in Round : Write(q, k)
        \/ UNCHANGED written
        BY DEF Next, vars, Transaction, SaveIntent, Queue, SpawnDone, WriteComplete,
               IntentFails, SpawnFails, RemoveFails, Expire, Delete,
               CheckWritePermission, OnWritePermission, GetBalance, BalanceKnown,
               WriteDone, StepFails, Crash, Interval
  <2> QED BY <2>1, <2>2, <2>3, <2>4
<1>2. TypeInv /\ Chained /\ Tried /\ Settled /\ [Next]_vars => [Final]_vars
      BY <1>1
<1> QED BY <1>2, SettledAlways, PTL DEF Spec, SettledIsFinal
-----------------------------------------------------------------------------
(* "nomoney" has a reason *)

Reading(r, k) == at[r][k] = "balance" /\ \E f \in Sum : seen[r][k][f] # None

\* As long as every moment in which a sum was read found enough money, the
\* chain will find enough money.
Enough ==
  \A r \in Request, k \in Round :
    Reading(r, k) /\ r \notin short /\ ~Excusable(r) => Hope(r, k) >= entry[r].sent

Refused == \A r \in Request : answer[r] = "nomoney" => SenderOf(r) \in Account

ReasonInv == Enough /\ Refused /\ NoFalseRefusal

\* What once excuses a refusal always does.
LEMMA StillExcusable ==
  ASSUME TypeOK, TypeOK', NEW r \in Request, SenderOf(r) \in Account, entry'[r] = entry[r],
         unguarded \subseteq unguarded', \A a \in Account : reclaimed'[a] >= reclaimed[a],
         Excusable(r)
  PROVE  Excusable(r)'
<1>1. SenderOf(r)' = SenderOf(r)
      BY DEF SenderOf
<1>2. reclaimed[SenderOf(r)] \in Nat /\ reclaimed'[SenderOf(r)] \in Nat
      BY DEF TypeOK
<1> QED BY <1>1, <1>2 DEF Excusable

\* Steps that leave a chain's readings alone, add at most to the income of its
\* sender and take at most from what they paid.
LEMMA HopeKept ==
  ASSUME TypeInv, TypeOK', NEW r \in Request, NEW k \in Round,
         at[r][k] = "balance", entry'[r] = entry[r], seen'[r][k] = seen[r][k],
         Hope(r, k) >= entry[r].sent,
         NEW s, s = SenderOf(r),
         income'[s] >= income[s], taxincome'[s] >= taxincome[s], payments'[s] <= payments[s]
  PROVE  Hope(r, k)' >= entry'[r].sent
<1>1. entry[r] \in Entry /\ s \in Account /\ SenderOf(r)' = s
      BY DEF TypeInv, Announced, SenderOf, TypeOK
<1>2. entry[r].sent \in Int
      BY <1>1, EntryAssumption
<1>3. /\ income[s] \in Int /\ taxincome[s] \in Int /\ payments[s] \in Int
      /\ income'[s] \in Int /\ taxincome'[s] \in Int /\ payments'[s] \in Int
      BY <1>1 DEF TypeInv, TypeOK
<1>4. /\ seen[r][k]["income"] \in Int \cup {None}
      /\ seen[r][k]["taxincome"] \in Int \cup {None}
      /\ seen[r][k]["payments"] \in Int \cup {None}
      BY DEF TypeInv, TypeOK, Sum
<1>5. /\ Known(r, k, "income")' >= Known(r, k, "income")
      /\ Known(r, k, "income") \in Int /\ Known(r, k, "income")' \in Int
      BY <1>1, <1>3, <1>4 DEF Known, SumOf
<1>6. /\ Known(r, k, "taxincome")' >= Known(r, k, "taxincome")
      /\ Known(r, k, "taxincome") \in Int /\ Known(r, k, "taxincome")' \in Int
      BY <1>1, <1>3, <1>4 DEF Known, SumOf
<1>7. /\ Known(r, k, "payments")' <= Known(r, k, "payments")
      /\ Known(r, k, "payments") \in Int /\ Known(r, k, "payments")' \in Int
      BY <1>1, <1>3, <1>4 DEF Known, SumOf
<1> QED BY <1>2, <1>5, <1>6, <1>7 DEF Hope

\* All steps but the reading itself: chains that are reading have been reading
\* before and nobody else takes from their sender, or it has an excuse; a refusal
\* that is new has a reason.
LEMMA ReasonStep ==
  ASSUME TypeInv, TypeOK', ReasonInv, short \subseteq short',
         unguarded \subseteq unguarded', \A a \in Account : reclaimed'[a] >= reclaimed[a],
         \A q \in Request : answer'[q] = "nomoney" =>
           /\ entry'[q] = entry[q]
           /\ \/ answer[q] = "nomoney"
              \/ SenderOf(q) \in Account /\ (q \in short \/ Excusable(q)),
         \A q \in Request, j \in Round : at'[q][j] = "balance" /\ seen'[q][j] # NoSums =>
           /\ at[q][j] = "balance" /\ seen'[q][j] = seen[q][j] /\ entry'[q] = entry[q]
           /\ \/ Excusable(q)'
              \/ /\ income'[SenderOf(q)] >= income[SenderOf(q)]
                 /\ taxincome'[SenderOf(q)] >= taxincome[SenderOf(q)]
                 /\ payments'[SenderOf(q)] <= payments[SenderOf(q)]
  PROVE  ReasonInv'
<1>1. ASSUME NEW q \in Request, answer'[q] = "nomoney"
      PROVE  SenderOf(q)' \in Account /\ (q \in short' \/ Excusable(q)')
  <2>1. SenderOf(q) \in Account /\ (q \in short \/ Excusable(q)) /\ entry'[q] = entry[q]
        BY <1>1 DEF ReasonInv, Refused, NoFalseRefusal
  <2>2. Excusable(q) => Excusable(q)'
        BY <2>1, StillExcusable DEF TypeInv
  <2> QED BY <2>1, <2>2 DEF SenderOf
<1>2. Refused' /\ NoFalseRefusal'
      BY <1>1 DEF Refused, NoFalseRefusal
<1>3. Enough'
  <2> SUFFICES ASSUME NEW q \in Request, NEW j \in Round, Reading(q, j)', q \notin short',
                      ~Excusable(q)'
               PROVE  Hope(q, j)' >= entry'[q].sent
      BY DEF Enough
  <2>1. at'[q][j] = "balance" /\ seen'[q][j] # NoSums
        BY DEF Reading, NoSums
  <2>2. /\ at[q][j] = "balance" /\ seen'[q][j] = seen[q][j] /\ entry'[q] = entry[q]
        /\ income'[SenderOf(q)] >= income[SenderOf(q)]
        /\ taxincome'[SenderOf(q)] >= taxincome[SenderOf(q)]
        /\ payments'[SenderOf(q)] <= payments[SenderOf(q)]
        BY <2>1
  <2>3. Reading(q, j) /\ q \notin short
        BY <2>2 DEF Reading
  <2>4. SenderOf(q) \in Account
        BY <2>2 DEF TypeInv, Announced, SenderOf
  <2>5. ~Excusable(q)
        BY <2>2, <2>4, StillExcusable DEF TypeInv
  <2>6. Hope(q, j) >= entry[q].sent
        BY <2>3, <2>5 DEF ReasonInv, Enough
  <2> QED BY <2>2, <2>6, HopeKept
<1> QED BY <1>2, <1>3 DEF ReasonInv

\* The debit of another payment's sender.
LEMMA OtherDebit ==
  ASSUME TypeOK, NEW e \in Entry, Book(e, 1), NEW s \in Account, s # e.sender
  PROVE  /\ income'[s] >= income[s] /\ taxincome'[s] >= taxincome[s]
         /\ payments'[s] <= payments[s]
<1>1. payments'[s] = payments[s] + 0
      BY BookEffect
<1>2. payments[s] \in Int
      BY DEF TypeOK
<1> QED BY <1>1, <1>2, BookEffect

\* What BalanceKnown refuses was lacking at a reading, or has an excuse.
LEMMA RefusedWasShort ==
  ASSUME TypeOK, Announced, Chained, Enough, NEW r \in Request, NEW k \in Round,
         at[r][k] = "balance", \A f \in Sum : seen[r][k][f] # None,
         Seen(r, k) < entry[r].sent
  PROVE  r \in short \/ Excusable(r)
<1>1. Hope(r, k) = Seen(r, k)
      BY DEF Hope, Known, Seen, Sum
<1>2. /\ seen[r][k]["income"] \in Int /\ seen[r][k]["taxincome"] \in Int
      /\ seen[r][k]["payments"] \in Int
      BY DEF TypeOK, Sum
<1>3. entry[r].sent \in Int
  <2>1. entry[r] \in Entry
        BY DEF Announced, Chained
  <2> QED BY <2>1, EntryAssumption
<1>4. Reading(r, k) /\ ~(Hope(r, k) >= entry[r].sent)
      BY <1>1, <1>2, <1>3 DEF Reading, Seen, Sum
<1> QED BY <1>4 DEF Enough

LEMMA ReasonNext ==
  ASSUME SingleRound
  PROVE  TypeInv /\ Chained /\ Settled /\ SafeInv /\ ReasonInv /\ [Next]_vars => ReasonInv'
<1> SUFFICES ASSUME TypeInv, Chained, Settled, SafeInv, ReasonInv, [Next]_vars
             PROVE  ReasonInv'
    OBVIOUS
<1> USE DEF ledger, chain, history, mishaps
<1>t. TypeOK /\ Announced /\ TypeOK'
      BY TypeNext DEF TypeInv
<1>s. \A q \in Request, j \in Round : at[q][j] = "balance" =>
        /\ SenderOf(q) \in Account
        /\ income[SenderOf(q)] \in Int /\ taxincome[SenderOf(q)] \in Int
        /\ payments[SenderOf(q)] \in Int
      BY <1>t DEF Announced, SenderOf, TypeOK
<1>r. \A a \in Account : reclaimed[a] >= reclaimed[a]
      BY <1>t DEF TypeOK
<1>f. \A q \in Request, j \in Round : at[q][j] # "balance" => seen[q][j] = NoSums
      BY DEF SafeInv, Fresh
<1>1. ASSUME NEW r \in Request, NEW w \in Worker, NEW e \in Entry, NEW t \in Time,
             Transaction(w, r, e, t)
      PROVE  ReasonInv'
  <2>1. /\ phase[r] = "new" /\ UNCHANGED <<ledger, at, seen, answer, short, mishaps>>
        /\ \A q \in Request : q # r => entry'[q] = entry[q]
        BY <1>1, <1>t DEF Transaction, TypeOK
  <2>2. answer[r] # "nomoney" /\ \A j \in Round : at[r][j] # "balance"
        BY <2>1 DEF Chained, Settled
  <2> QED BY <1>t, <1>s, <1>r, <1>f, <2>1, <2>2, ReasonStep
<1>2. ASSUME NEW r \in Request,
             \/ SaveIntent(r) \/ Queue(r) \/ WriteComplete(r) \/ RemoveFails(r)
             \/ Expire(r) \/ SpawnDone(r) \/ IntentFails(r) \/ SpawnFails(r)
      PROVE  ReasonInv'
  <2>1. /\ UNCHANGED <<ledger, at, seen, entry, short, reclaimed>>
        /\ unguarded \subseteq unguarded'
        /\ \A q \in Request : answer'[q] = "nomoney" => answer[q] = "nomoney"
        BY <1>2, <1>t
        DEF SaveIntent, Queue, WriteComplete, RemoveFails, Expire, SpawnDone,
            IntentFails, SpawnFails, Fail, Reply, TypeOK
  <2> QED BY <1>t, <1>s, <1>r, <1>f, <2>1, ReasonStep
<1>3. ASSUME NEW r \in Request, NEW k \in Round,
             CheckWritePermission(r, k) \/ OnWritePermission(r, k)
      PROVE  ReasonInv'
  <2>1. /\ UNCHANGED <<ledger, seen, entry, short, answer, mishaps>>
        /\ at[r][k] # "balance"
        /\ \A q \in Request, j \in Round : q # r \/ j # k => at'[q][j] = at[q][j]
        BY <1>3, <1>t DEF CheckWritePermission, OnWritePermission, Move, TypeOK
  <2>2. seen'[r][k] = NoSums
        BY <1>f, <2>1
  <2> QED BY <1>t, <1>s, <1>r, <1>f, <2>1, <2>2, ReasonStep
<1>4. ASSUME NEW r \in Request, NEW k \in Round, NEW f \in Sum, GetBalance(r, k, f)
      PROVE  ReasonInv'
  <2>1. /\ at[r][k] = "balance" /\ UNCHANGED <<ledger, at, entry, answer, mishaps>>
        /\ short \subseteq short'
        /\ Balance(SenderOf(r)) < entry[r].sent => r \in short'
        BY <1>4 DEF GetBalance
  <2>2. \A q \in Request : Excusable(q)' <=> Excusable(q)
        BY <2>1 DEF Excusable, SenderOf
  <2>3. r \notin short' /\ ~Excusable(r) => Hope(r, k)' >= entry[r].sent
    <3> SUFFICES ASSUME r \notin short', ~Excusable(r) PROVE Hope(r, k) >= entry[r].sent
        BY <1>4, <1>t, HopeRead
    <3>1. CASE Reading(r, k)
          BY <2>1, <3>1 DEF ReasonInv, Enough
    <3>2. CASE ~Reading(r, k)
      <4>1. seen[r][k]["income"] = None /\ seen[r][k]["taxincome"] = None
            /\ seen[r][k]["payments"] = None
            BY <2>1, <3>2 DEF Reading, Sum
      <4>2. Hope(r, k) = Balance(SenderOf(r))
            BY <4>1 DEF Hope, Known, SumOf, Balance
      <4>3. Balance(SenderOf(r)) \in Int /\ entry[r].sent \in Int
        <5>1. entry[r] \in Entry /\ SenderOf(r) \in Account
              BY <1>t, <2>1 DEF Announced, Chained, SenderOf
        <5>2. entry[r].sent \in Int
              BY <5>1, EntryAssumption
        <5> QED BY <1>t, <5>1, <5>2 DEF Balance, TypeOK
      <4> QED BY <2>1, <4>2, <4>3
    <3> QED BY <3>1, <3>2
  <2>4. ASSUME NEW q \in Request, NEW j \in Round, q # r \/ j # k
        PROVE  /\ Hope(q, j)' = Hope(q, j)
               /\ Reading(q, j)' => Reading(q, j)
    <3>1. Hope(q, j)' = Hope(q, j) /\ seen'[q][j] = seen[q][j]
          BY <1>4, <1>t, <2>4, HopeRead
    <3> QED BY <2>1, <3>1 DEF Reading
  <2>5. Enough'
    <3> SUFFICES ASSUME NEW q \in Request, NEW j \in Round, Reading(q, j)', q \notin short',
                        ~Excusable(q)
                 PROVE  Hope(q, j)' >= entry[q].sent
        BY <2>1, <2>2 DEF Enough
    <3>1. CASE q = r /\ j = k
          BY <2>3, <3>1
    <3>2. CASE q # r \/ j # k
          BY <2>1, <2>4, <3>2 DEF ReasonInv, Enough
    <3> QED BY <3>1, <3>2
  <2>6. Refused' /\ NoFalseRefusal'
        BY <2>1, <2>2 DEF ReasonInv, Refused, NoFalseRefusal, SenderOf
  <2> QED BY <2>5, <2>6 DEF ReasonInv
<1>5. ASSUME NEW r \in Request, NEW k \in Round, BalanceKnown(r, k)
      PROVE  ReasonInv'
  <2>1. /\ at[r][k] = "balance" /\ UNCHANGED <<ledger, entry, short, mishaps>>
        /\ seen'[r][k] = NoSums /\ \A f \in Sum : seen[r][k][f] # None
        /\ \A q \in Request, j \in Round : q # r \/ j # k =>
             seen'[q][j] = seen[q][j] /\ at'[q][j] = at[q][j]
        BY <1>5, <1>t DEF BalanceKnown, Move, TypeOK
  <2>2. \A q \in Request : answer'[q] = "nomoney" =>
          \/ answer[q] = "nomoney"
          \/ SenderOf(q) \in Account /\ (q \in short \/ Excusable(q))
    <3>1. CASE Seen(r, k) < entry[r].sent
      <4>1. SenderOf(r) \in Account /\ (r \in short \/ Excusable(r))
            BY <1>t, <1>s, <2>1, <3>1, RefusedWasShort DEF ReasonInv
      <4>2. \A q \in Request : q # r => answer'[q] = answer[q]
            BY <1>5, <1>t, <3>1 DEF BalanceKnown, Reply, TypeOK
      <4> QED BY <4>1, <4>2
    <3>2. CASE ~(Seen(r, k) < entry[r].sent)
          BY <1>5, <3>2 DEF BalanceKnown
    <3> QED BY <3>1, <3>2
  <2>3. \A q \in Request, j \in Round : at'[q][j] = "balance" /\ seen'[q][j] # NoSums =>
          at[q][j] = "balance" /\ seen'[q][j] = seen[q][j]
        BY <2>1
  <2> QED BY <1>t, <1>s, <1>r, <2>1, <2>2, <2>3, ReasonStep
<1>6. ASSUME NEW r \in Request, NEW k \in Round, Write(r, k) PROVE ReasonInv'
  <2>1. /\ at[r][k] = "write" /\ at'[r][k] = "written" /\ Book(entry[r], 1)
        /\ entry[r] \in Entry
        /\ UNCHANGED <<seen, entry, answer, short, mishaps>>
        /\ \A q \in Request, j \in Round : q # r \/ j # k => at'[q][j] = at[q][j]
        BY <1>6, <1>t DEF Write, Move, Announced, Chained, TypeOK
  <2>2. ASSUME NEW q \in Request, NEW j \in Round, at'[q][j] = "balance"
        PROVE  at[q][j] = "balance" /\ (SenderOf(q) # SenderOf(r) \/ Excusable(q)')
    <3>1. q # r
          BY <2>1, <2>2, SingleRound DEF SingleRound
    <3>2. at[q][j] = "balance"
          BY <2>1, <2>2, <3>1
    <3>3. SenderOf(q) # SenderOf(r) \/ SenderOf(r) \in unguarded
          BY <1>t, <2>1, <3>1, <3>2, Alone DEF SafeInv, BusySteps
    <3> QED BY <2>1, <3>2, <3>3 DEF Excusable, SenderOf
  <2>3. ASSUME NEW q \in Request, NEW j \in Round, at'[q][j] = "balance"
        PROVE  \/ Excusable(q)'
               \/ /\ income'[SenderOf(q)] >= income[SenderOf(q)]
                  /\ taxincome'[SenderOf(q)] >= taxincome[SenderOf(q)]
                  /\ payments'[SenderOf(q)] <= payments[SenderOf(q)]
    <3>1. at[q][j] = "balance" /\ SenderOf(q) \in Account
          BY <1>s, <2>2, <2>3
    <3> QED BY <1>t, <2>1, <2>2, <2>3, <3>1, OtherDebit DEF SenderOf
  <2> QED BY <1>t, <1>r, <2>1, <2>2, <2>3, ReasonStep
<1>7. ASSUME NEW r \in Request, WriteSpawn(r) PROVE ReasonInv'
  <2>1. /\ entry[r] \in Entry /\ entry[r].sender \notin Account /\ Book(entry[r], 1)
        /\ UNCHANGED <<at, seen, entry, answer, short, mishaps>>
        BY <1>7, <1>t, ConstantsAssumption DEF WriteSpawn, Announced
  <2>2. ASSUME NEW q \in Request, NEW j \in Round, at[q][j] = "balance"
        PROVE  /\ income'[SenderOf(q)] >= income[SenderOf(q)]
               /\ taxincome'[SenderOf(q)] >= taxincome[SenderOf(q)]
               /\ payments'[SenderOf(q)] <= payments[SenderOf(q)]
        BY <1>t, <1>s, <2>1, <2>2, OtherDebit
  <2> QED BY <1>t, <1>r, <2>1, <2>2, ReasonStep
<1>8. ASSUME NEW r \in Request, NEW k \in Round, WriteDone(r, k) \/ StepFails(r, k)
      PROVE  ReasonInv'
  <2>1. /\ at'[r][k] = "idle" /\ UNCHANGED <<ledger, entry, short, mishaps>>
        /\ \A q \in Request, j \in Round : q # r \/ j # k =>
             seen'[q][j] = seen[q][j] /\ at'[q][j] = at[q][j]
        BY <1>8, <1>t DEF WriteDone, StepFails, Move, TypeOK
  <2>2. \A q \in Request : answer'[q] = "nomoney" => answer[q] = "nomoney"
        BY <1>8, <1>t DEF WriteDone, StepFails, Fail, Reply, TypeOK
  <2>3. \A q \in Request, j \in Round : at'[q][j] = "balance" =>
          at[q][j] = "balance" /\ seen'[q][j] = seen[q][j]
        BY <2>1
  <2> QED BY <1>t, <1>s, <1>r, <2>1, <2>2, <2>3, ReasonStep
<1>9. ASSUME NEW w \in Worker, NEW k \in Round, Interval(w, k) PROVE ReasonInv'
  <2>1. /\ UNCHANGED <<ledger, seen, entry, answer, short, mishaps>>
        /\ \A q \in Request, j \in Round : at'[q][j] \in {at[q][j], "check"}
        BY <1>9, <1>t DEF Interval, TypeOK
  <2>2. \A q \in Request, j \in Round : at'[q][j] = "balance" => at[q][j] = "balance"
        BY <2>1
  <2> QED BY <1>t, <1>s, <1>r, <2>1, <2>2, ReasonStep
<1>10. ASSUME NEW w \in Worker, Crash(w) PROVE ReasonInv'
  <2>1. /\ UNCHANGED <<ledger, entry, answer, short, mishaps>>
        /\ \A q \in Request, j \in Round :
             \/ at'[q][j] = at[q][j] /\ seen'[q][j] = seen[q][j]
             \/ at'[q][j] = "idle"
        BY <1>10, <1>t DEF Crash, TypeOK
  <2>2. \A q \in Request, j \in Round : at'[q][j] = "balance" =>
          at[q][j] = "balance" /\ seen'[q][j] = seen[q][j]
        BY <2>1
  <2> QED BY <1>t, <1>s, <1>r, <2>1, <2>2, ReasonStep
<1>11. ASSUME NEW r \in Request, Delete(r) PROVE ReasonInv'
  <2>1. /\ entry[r] \in Entry
        /\ UNCHANGED <<at, seen, entry, answer, short, unguarded>>
        BY <1>11, <1>t DEF Delete, Announced, TypeOK
  <2>2. \A a \in Account : reclaimed'[a] >= reclaimed[a]
        BY <1>11, <1>t, <2>1, DeleteEffect
  <2>3. ASSUME NEW q \in Request, NEW j \in Round, at[q][j] = "balance"
        PROVE  \/ Excusable(q)'
               \/ /\ income'[SenderOf(q)] >= income[SenderOf(q)]
                  /\ taxincome'[SenderOf(q)] >= taxincome[SenderOf(q)]
                  /\ payments'[SenderOf(q)] <= payments[SenderOf(q)]
    <3>1. SenderOf(q) \in Account /\ SenderOf(q)' = SenderOf(q)
          BY <1>s, <2>1, <2>3 DEF SenderOf
    <3>2. reclaimed'[SenderOf(q)] \in Nat
          BY <1>t, <3>1 DEF TypeOK
    <3>3. CASE reclaimed'[SenderOf(q)] = 0
          BY <1>11, <1>t, <1>s, <2>1, <2>3, <3>1, <3>3, DeleteEffect
    <3>4. CASE reclaimed'[SenderOf(q)] # 0
          BY <3>1, <3>2, <3>4 DEF Excusable
    <3> QED BY <3>3, <3>4
  <2> QED BY <1>t, <2>1, <2>2, <2>3, ReasonStep
<1>12. CASE UNCHANGED vars
       BY <1>12, <1>t, <1>s, <1>r, ReasonStep DEF vars
<1> QED
    BY <1>1, <1>2, <1>3, <1>4, <1>5, <1>6, <1>7, <1>8, <1>9, <1>10, <1>11, <1>12
    DEF Next

LEMMA ReasonInit == Init => ReasonInv
BY ConstantsAssumption DEF Init, ReasonInv, Enough, Refused, Reading, NoFalseRefusal

LEMMA ReasonAlways ==
  ASSUME SingleRound
  PROVE  Spec => []ReasonInv
<1>1. TypeInv /\ Chained /\ Settled /\ SafeInv /\ ReasonInv /\ [Next]_vars => ReasonInv'
      BY ReasonNext
<1> QED BY <1>1, ReasonInit, SafeAlways, SettledAlways, PTL DEF Spec

\* A payment is only refused if its sender could not pay at some moment while it
\* was waiting, although the balance is put together from three queries and
\* payments to the sender go on in between, or if the sender's intents lost their
\* order, or if administrators took money from the sender.
THEOREM RefusalHasReason ==
  ASSUME SingleRound
  PROVE  Spec => []NoFalseRefusal
<1>1. ReasonInv => NoFalseRefusal
      BY DEF ReasonInv
<1> QED BY <1>1, ReasonAlways, PTL
=============================================================================
