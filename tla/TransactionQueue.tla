--------------------------- MODULE TransactionQueue ---------------------------
(***************************************************************************)
(* The payment protocol of the API server: how a transaction that passed   *)
(* its checks is announced, waits for its turn, is tested against the      *)
(* sender's balance and is written (server/api/actions/transactions.js     *)
(* lines 207-269 and 352-364, server/api/db/transactions.js).              *)
(*                                                                         *)
(* Several workers share one MongoDB.  Every database call is split into   *)
(* the moment the database executes it and the moment its callback runs in *)
(* the worker, wherever another step in between could tell the difference. *)
(*                                                                         *)
(* The transactions collection is seen by this code through three sums per *)
(* account only (getBalance), so it is represented by these sums.          *)
(***************************************************************************)
EXTENDS Integers

CONSTANTS
  Request,        \* payment requests; a request stands for its trid, too
  Account,        \* _id of the students documents
  Worker,         \* API worker processes, on any number of servers
  Entry,          \* the entries transaction() can build
  NoAccount,      \* the missing reference of the magic account
  Opening,        \* income every account has when the model starts
  Time,           \* timestamps an intent can carry
  Round,          \* firings of one interval whose callbacks may overlap
  None

CONSTANTS         \* what the surroundings may do (see README, "environment")
  EarlyExpiry,    \* the TTL index may remove the intent of a live request
  LostReplies,    \* a command may be executed and yet be reported as failed
  Deletions,      \* administrators use transaction_delete
  MaxFailures,    \* bound: database errors in a behaviour
  MaxCrashes      \* bound: worker crashes in a behaviour

ASSUME ConstantsAssumption ==
  /\ NoAccount \notin Account
  /\ None \notin Int /\ None \notin Entry /\ None \notin Worker
  /\ None \notin {"ok", "nomoney", "error"}
  /\ Opening \in [Account -> Nat]
  /\ Time \subseteq Nat
  /\ {EarlyExpiry, LostReplies, Deletions} \subseteq BOOLEAN
  /\ MaxFailures \in Nat /\ MaxCrashes \in Nat

\* What transaction() guarantees of an entry; amounts count the smallest unit
\* (hgc_decimal_places), module Tax shows the equation.
ASSUME EntryAssumption ==
  \A e \in Entry :
    /\ e.sender \in Account \cup {NoAccount}
    /\ e.recipient \in Account \cup {NoAccount}
    /\ e.tax_recipient \in Account
    /\ e.sent \in Nat /\ e.received \in Nat /\ e.tax \in Nat
    /\ e.sent = e.received + e.tax

VARIABLES
  phase,       \* where the request itself is
  owner,       \* the worker that serves it
  entry,       \* its entry, None before it arrives
  time,        \* the timestamp of its intent
  intents,     \* the pendingtransactions collection
  at,          \* at[r][k]: step of the callback chain started for r by round k
  seen,        \* seen[r][k]: the sums getBalance has collected in that chain
  removing,    \* intents whose findOneAndRemove is under way
  income, payments, taxincome,   \* the sums over the transactions collection
  answer,      \* the answer the client got: the first call of answer() wins
  failures, crashes,             \* counters of MaxFailures and MaxCrashes
  written,     \* history: documents ever inserted for the request
  deleted,     \* history: documents removed again by transaction_delete
  short,       \* history: requests whose sender really lacked the money
  misreported, \* history: documents inserted and reported to be not
  unguarded,   \* history: senders whose intents lost the order they rely on
  reclaimed    \* history: what transaction_delete took from each account

ledger == <<income, payments, taxincome>>
chain == <<at, seen>>
mishaps == <<unguarded, reclaimed>>
history == <<written, deleted, short, misreported, mishaps>>
vars == <<phase, owner, entry, time, intents, at, seen, removing, income,
          payments, taxincome, answer, failures, crashes, written, deleted, short,
          misreported, unguarded, reclaimed>>

Phase == {"new", "intent", "saved", "queued", "spawn", "spawned", "gone", "lost"}
Step == {"idle", "check", "granted", "balance", "write", "written"}
Answer == {"ok", "nomoney", "error"}
Sum == {"income", "payments", "taxincome"}
NoSums == [f \in Sum |-> None]

TypeOK ==
  /\ phase \in [Request -> Phase]
  /\ owner \in [Request -> Worker \cup {None}]
  /\ entry \in [Request -> Entry \cup {None}]
  /\ time \in [Request -> Time \cup {None}]
  /\ intents \subseteq Request
  /\ at \in [Request -> [Round -> Step]]
  /\ seen \in [Request -> [Round -> [Sum -> Int \cup {None}]]]
  /\ removing \subseteq Request
  /\ income \in [Account -> Int]
  /\ payments \in [Account -> Int]
  /\ taxincome \in [Account -> Int]
  /\ answer \in [Request -> Answer \cup {None}]
  /\ failures \in Nat /\ crashes \in Nat
  /\ written \in [Request -> Nat]
  /\ deleted \in [Request -> Nat]
  /\ short \subseteq Request
  /\ misreported \in [Request -> Nat]
  /\ unguarded \subseteq Account
  /\ reclaimed \in [Account -> Nat]

-----------------------------------------------------------------------------
(* The transactions collection *)

\* What a getBalance that ran in one instant would answer for account a.
Balance(a) == income[a] + taxincome[a] - payments[a]

SumOf(f, a) == CASE f = "income"    -> income[a]
                 [] f = "payments"  -> payments[a]
                 [] f = "taxincome" -> taxincome[a]

\* Transaction(entry).save executed by the database (sign 1) or the removal
\* of such a document (sign -1).
Book(e, sign) ==
  /\ income' = [a \in Account |->
        income[a] + (IF a = e.recipient THEN sign * e.received ELSE 0)]
  /\ payments' = [a \in Account |->
        payments[a] + (IF a = e.sender THEN sign * e.sent ELSE 0)]
  /\ taxincome' = [a \in Account |->
        taxincome[a] + (IF a = e.tax_recipient THEN sign * e.tax ELSE 0)]

\* API_answer: res.end() on a response that was ended already does nothing.
Reply(r, a) ==
  answer' = [answer EXCEPT ![r] = IF @ = None THEN a ELSE @]

-----------------------------------------------------------------------------
(* Announcing a payment *)

\* End of transaction(): money that is spawned is written at once, everything
\* else announces an intent, stamped with the time its document is created.
Transaction(w, r, e, t) ==
  /\ phase[r] = "new"
  /\ owner' = [owner EXCEPT ![r] = w]
  /\ entry' = [entry EXCEPT ![r] = e]
  /\ IF e.sender = NoAccount
       THEN /\ phase' = [phase EXCEPT ![r] = "spawn"]
            /\ UNCHANGED time
       ELSE /\ phase' = [phase EXCEPT ![r] = "intent"]
            /\ time' = [time EXCEPT ![r] = t]
  /\ UNCHANGED <<intents, chain, removing, ledger, answer, failures, crashes, history>>

SenderOf(r) == entry[r].sender
IntentsOf(s) == {q \in intents : SenderOf(q) = s}

\* A payment that has permission, until its entry is deleted.
Busy(r) == \E k \in Round : at[r][k] \in {"granted", "balance", "write", "written"}

\* The intent of r would share the place of another one of its sender, or come
\* before one that has permission already: it was stamped when its document was
\* created and is inserted later, by a worker with a clock of its own.
Overtakes(r) ==
  \E q \in IntentsOf(SenderOf(r)) : time[q] = time[r] \/ (time[q] > time[r] /\ Busy(q))

\* pt.save executed.
SaveIntent(r) ==
  /\ phase[r] = "intent"
  /\ phase' = [phase EXCEPT ![r] = "saved"]
  /\ intents' = intents \cup {r}
  /\ unguarded' = unguarded \cup {s \in {SenderOf(r)} : Overtakes(r)}
  /\ UNCHANGED <<owner, entry, time, chain, removing, ledger, answer,
                 failures, crashes, written, deleted, short, misreported, reclaimed>>

\* Its callback, transaction_queue().
Queue(r) ==
  /\ phase[r] = "saved"
  /\ phase' = [phase EXCEPT ![r] = "queued"]
  /\ UNCHANGED <<owner, entry, time, intents, chain, removing, ledger, answer,
                 failures, crashes, history>>

\* transaction_write() of spawned money, and its callback.
WriteSpawn(r) ==
  /\ phase[r] = "spawn"
  /\ Book(entry[r], 1)
  /\ written' = [written EXCEPT ![r] = @ + 1]
  /\ phase' = [phase EXCEPT ![r] = "spawned"]
  /\ UNCHANGED <<owner, entry, time, intents, chain, removing, answer,
                 failures, crashes, deleted, short, misreported, mishaps>>

SpawnDone(r) ==
  /\ phase[r] = "spawned"
  /\ Reply(r, "ok")
  /\ phase' = [phase EXCEPT ![r] = "gone"]
  /\ UNCHANGED <<owner, entry, time, intents, chain, removing, ledger,
                 failures, crashes, history>>

-----------------------------------------------------------------------------
(* The interval of a worker and the callbacks it starts *)

Move(r, k, step) == at' = [at EXCEPT ![r][k] = step]

\* One firing of the interval asks for permission for every queued entry, one
\* with an earlier chain under way included: Round bounds the chains of an entry.
Interval(w, k) ==
  LET Queued == {r \in Request : owner[r] = w /\ phase[r] = "queued" /\ at[r][k] = "idle"}
  IN  /\ Queued # {}
      /\ at' = [r \in Request |->
                  IF r \in Queued THEN [at[r] EXCEPT ![k] = "check"] ELSE at[r]]
      /\ UNCHANGED <<phase, owner, entry, time, intents, seen, removing, ledger,
                     answer, failures, crashes, history>>

\* The sender's intents with the earliest time: which of several comes out of
\* sort().limit(1) is up to the database.
FirstNewest(s) == {q \in IntentsOf(s) : \A p \in IntentsOf(s) : time[q] >= time[p]}
First(s) == {q \in IntentsOf(s) : \A p \in IntentsOf(s) : time[q] <= time[p]}

CheckWritePermissionAnyIntent(r, k) ==
  /\ at[r][k] = "check"
  /\ Move(r, k, IF r \in intents THEN "granted" ELSE "idle")
  /\ UNCHANGED <<phase, owner, entry, time, intents, seen, removing, ledger,
                 answer, failures, crashes, history>>

CheckWritePermission(r, k) ==
  /\ at[r][k] = "check"
  /\ \/ r \in First(SenderOf(r)) /\ Move(r, k, "granted")
     \/ First(SenderOf(r)) # {r} /\ Move(r, k, "idle")
  /\ UNCHANGED <<phase, owner, entry, time, intents, seen, removing, ledger,
                 answer, failures, crashes, history>>

OnWritePermission(r, k) ==
  /\ at[r][k] = "granted"
  /\ Move(r, k, IF phase[r] = "queued" THEN "balance" ELSE "idle")
  /\ UNCHANGED <<phase, owner, entry, time, intents, seen, removing, ledger,
                 answer, failures, crashes, history>>

\* One of the three aggregations of getBalance is executed.
GetBalance(r, k, f) ==
  /\ at[r][k] = "balance"
  /\ seen[r][k][f] = None
  /\ seen' = [seen EXCEPT ![r][k][f] = SumOf(f, SenderOf(r))]
  /\ short' = IF Balance(SenderOf(r)) < entry[r].sent THEN short \cup {r} ELSE short
  /\ UNCHANGED <<phase, owner, entry, time, intents, at, removing, ledger,
                 answer, failures, crashes, written, deleted, misreported, mishaps>>

Seen(r, k) == seen[r][k]["income"] + seen[r][k]["taxincome"] - seen[r][k]["payments"]

SettleBySender(r) ==
  /\ phase' = [phase EXCEPT ![r] = "gone"]
  /\ removing' = removing \cup {SenderOf(r)}

\* pending_transactions[i] is deleted and the removal of the intent starts.
Settle(r) ==
  /\ phase' = [phase EXCEPT ![r] = "gone"]
  /\ removing' = removing \cup {r}

BalanceKnownAtMost(r, k) ==
  /\ at[r][k] = "balance"
  /\ \A f \in Sum : seen[r][k][f] # None
  /\ seen' = [seen EXCEPT ![r][k] = NoSums]
  /\ IF Seen(r, k) <= entry[r].sent
       THEN Reply(r, "nomoney") /\ Settle(r) /\ Move(r, k, "idle")
       ELSE Move(r, k, "write") /\ UNCHANGED <<phase, removing, answer>>
  /\ UNCHANGED <<owner, entry, time, intents, ledger, failures, crashes, history>>

BalanceKnownReleasesFirst(r, k) ==
  /\ at[r][k] = "balance"
  /\ \A f \in Sum : seen[r][k][f] # None
  /\ seen' = [seen EXCEPT ![r][k] = NoSums]
  /\ removing' = removing \cup {r}
  /\ IF Seen(r, k) < entry[r].sent
       THEN /\ Reply(r, "nomoney") /\ Move(r, k, "idle")
            /\ phase' = [phase EXCEPT ![r] = "gone"]
       ELSE Move(r, k, "write") /\ UNCHANGED <<phase, answer>>
  /\ UNCHANGED <<owner, entry, time, intents, ledger, failures, crashes, history>>

BalanceKnownAnswersEarly(r, k) ==
  /\ at[r][k] = "balance"
  /\ \A f \in Sum : seen[r][k][f] # None
  /\ seen' = [seen EXCEPT ![r][k] = NoSums]
  /\ IF Seen(r, k) < entry[r].sent
       THEN Reply(r, "nomoney") /\ Settle(r) /\ Move(r, k, "idle")
       ELSE Reply(r, "ok") /\ Move(r, k, "write") /\ UNCHANGED <<phase, removing>>
  /\ UNCHANGED <<owner, entry, time, intents, ledger, failures, crashes, history>>

BalanceKnownKeepsEntry(r, k) ==
  /\ at[r][k] = "balance"
  /\ \A f \in Sum : seen[r][k][f] # None
  /\ seen' = [seen EXCEPT ![r][k] = NoSums]
  /\ IF Seen(r, k) < entry[r].sent
       THEN Reply(r, "nomoney") /\ Move(r, k, "idle") /\ removing' = removing \cup {r}
       ELSE Move(r, k, "write") /\ UNCHANGED <<removing, answer>>
  /\ UNCHANGED <<phase, owner, entry, time, intents, ledger, failures, crashes, history>>

\* The callback of getBalance.
BalanceKnown(r, k) ==
  /\ at[r][k] = "balance"
  /\ \A f \in Sum : seen[r][k][f] # None
  /\ seen' = [seen EXCEPT ![r][k] = NoSums]
  /\ IF Seen(r, k) < entry[r].sent
       THEN Reply(r, "nomoney") /\ Settle(r) /\ Move(r, k, "idle")
       ELSE Move(r, k, "write") /\ UNCHANGED <<phase, removing, answer>>
  /\ UNCHANGED <<owner, entry, time, intents, ledger, failures, crashes, history>>

\* tr.save of transaction_write executed.
Write(r, k) ==
  /\ at[r][k] = "write"
  /\ Book(entry[r], 1)
  /\ written' = [written EXCEPT ![r] = @ + 1]
  /\ Move(r, k, "written")
  /\ UNCHANGED <<phase, owner, entry, time, intents, seen, removing, answer,
                 failures, crashes, deleted, short, misreported, mishaps>>

WriteDoneKeepsEntry(r, k) ==
  /\ at[r][k] = "written"
  /\ Reply(r, "ok")
  /\ removing' = removing \cup {r}
  /\ Move(r, k, "idle")
  /\ UNCHANGED <<phase, owner, entry, time, intents, seen, ledger, failures,
                 crashes, history>>

\* Its callback.
WriteDone(r, k) ==
  /\ at[r][k] = "written"
  /\ Reply(r, "ok")
  /\ Settle(r)
  /\ Move(r, k, "idle")
  /\ UNCHANGED <<owner, entry, time, intents, seen, ledger, failures, crashes, history>>

\* findOneAndRemove executed.
WriteComplete(r) ==
  /\ r \in removing
  /\ intents' = intents \ {r}
  /\ removing' = removing \ {r}
  /\ UNCHANGED <<phase, owner, entry, time, chain, ledger, answer, failures,
                 crashes, history>>

-----------------------------------------------------------------------------
(* Database errors: error() answers the client and drops the callback *)

Fail(r) ==
  /\ failures < MaxFailures
  /\ failures' = failures + 1
  /\ Reply(r, "error")

\* History: the document of r is there (done) although an error is reported.
Misreport(r, done) ==
  misreported' = [misreported EXCEPT ![r] = IF done THEN @ + 1 ELSE @]

IntentFails(r) ==
  /\ phase[r] = "intent" \/ (LostReplies /\ phase[r] = "saved")
  /\ Fail(r)
  /\ phase' = [phase EXCEPT ![r] = "gone"]
  /\ UNCHANGED <<owner, entry, time, intents, chain, removing, ledger, crashes, history>>

SpawnFails(r) ==
  /\ phase[r] = "spawn" \/ (LostReplies /\ phase[r] = "spawned")
  /\ Fail(r)
  /\ phase' = [phase EXCEPT ![r] = "gone"]
  /\ Misreport(r, phase[r] = "spawned")
  /\ UNCHANGED <<owner, entry, time, intents, chain, removing, ledger, crashes,
                 written, deleted, short, mishaps>>

\* The entry stays in pending_transactions whatever step of its chain fails.
StepFails(r, k) ==
  /\ at[r][k] \in {"check", "balance", "write"} \/ (LostReplies /\ at[r][k] = "written")
  /\ Fail(r)
  /\ Move(r, k, "idle")
  /\ seen' = [seen EXCEPT ![r][k] = NoSums]
  /\ Misreport(r, at[r][k] = "written")
  /\ UNCHANGED <<phase, owner, entry, time, intents, removing, ledger, crashes,
                 written, deleted, short, mishaps>>

\* Nobody is told, the intent stays until it expires.
RemoveFails(r) ==
  /\ r \in removing
  /\ failures < MaxFailures
  /\ failures' = failures + 1
  /\ removing' = removing \ {r}
  /\ UNCHANGED <<phase, owner, entry, time, intents, chain, ledger, answer,
                 crashes, history>>

-----------------------------------------------------------------------------
(* Time, crashes, administrators *)

\* A worker still works for the intent of r.
Live(r) == phase[r] \in {"saved", "queued"} \/ \E k \in Round : at[r][k] # "idle"

ExpireOnlyFinished(r) ==
  /\ r \in intents
  /\ phase[r] = "gone"
  /\ intents' = intents \ {r}
  /\ UNCHANGED <<phase, owner, entry, time, chain, removing, ledger, answer,
                 failures, crashes, history>>

\* The TTL index on the intent's time (pending_timeout).
Expire(r) ==
  /\ r \in intents
  /\ EarlyExpiry \/ ~Live(r)
  /\ intents' = intents \ {r}
  /\ unguarded' = unguarded \cup {s \in {SenderOf(r)} : Busy(r)}
  /\ UNCHANGED <<phase, owner, entry, time, chain, removing, ledger, answer,
                 failures, crashes, written, deleted, short, misreported, reclaimed>>

\* pending_transactions, the open connections and all callbacks die with the
\* worker; commands it had sent have been executed before or never will be.
Crash(w) ==
  LET Mine == {r \in Request : owner[r] = w}
  IN  /\ crashes < MaxCrashes
      /\ crashes' = crashes + 1
      /\ phase' = [r \in Request |->
                     IF r \in Mine /\ phase[r] # "gone" THEN "lost" ELSE phase[r]]
      /\ at' = [r \in Request |-> IF r \in Mine THEN [k \in Round |-> "idle"] ELSE at[r]]
      /\ seen' = [r \in Request |-> IF r \in Mine THEN [k \in Round |-> NoSums] ELSE seen[r]]
      /\ removing' = removing \ Mine
      /\ UNCHANGED <<owner, entry, time, intents, ledger, answer, failures, history>>

\* transaction_delete of a document written for r.
Delete(r) ==
  /\ Deletions
  /\ deleted[r] < written[r]
  /\ Book(entry[r], -1)
  /\ deleted' = [deleted EXCEPT ![r] = @ + 1]
  /\ reclaimed' = [a \in Account |->
        reclaimed[a] + (IF a = entry[r].recipient THEN entry[r].received ELSE 0)
                     + (IF a = entry[r].tax_recipient THEN entry[r].tax ELSE 0)]
  /\ UNCHANGED <<phase, owner, entry, time, intents, chain, removing, answer,
                 failures, crashes, written, short, misreported, unguarded>>

-----------------------------------------------------------------------------
Init ==
  /\ phase = [r \in Request |-> "new"]
  /\ owner = [r \in Request |-> None]
  /\ entry = [r \in Request |-> None]
  /\ time = [r \in Request |-> None]
  /\ intents = {}
  /\ at = [r \in Request |-> [k \in Round |-> "idle"]]
  /\ seen = [r \in Request |-> [k \in Round |-> NoSums]]
  /\ removing = {}
  /\ income = Opening
  /\ payments = [a \in Account |-> 0]
  /\ taxincome = [a \in Account |-> 0]
  /\ answer = [r \in Request |-> None]
  /\ failures = 0 /\ crashes = 0
  /\ written = [r \in Request |-> 0]
  /\ deleted = [r \in Request |-> 0]
  /\ short = {} /\ unguarded = {}
  /\ reclaimed = [a \in Account |-> 0]
  /\ misreported = [r \in Request |-> 0]

Next ==
  \/ \E r \in Request :
       \/ \E w \in Worker, e \in Entry, t \in Time : Transaction(w, r, e, t)
       \/ SaveIntent(r) \/ Queue(r) \/ WriteSpawn(r) \/ SpawnDone(r)
       \/ WriteComplete(r)
       \/ IntentFails(r) \/ SpawnFails(r) \/ RemoveFails(r)
       \/ Expire(r) \/ Delete(r)
       \/ \E k \in Round :
            \/ CheckWritePermission(r, k) \/ OnWritePermission(r, k)
            \/ \E f \in Sum : GetBalance(r, k, f)
            \/ BalanceKnown(r, k) \/ Write(r, k) \/ WriteDone(r, k)
            \/ StepFails(r, k)
  \/ \E w \in Worker : Crash(w) \/ \E k \in Round : Interval(w, k)

Spec == Init /\ [][Next]_vars

\* Node runs every callback and every timer, the database executes every
\* command and sweeps expired documents; nothing obliges clients to ask, errors
\* to happen or workers to crash.  Of intents with the same time it does not for
\* ever return the other one (it sorts them by their place in the index).
Fairness ==
  /\ \A r \in Request :
       /\ WF_vars(SaveIntent(r)) /\ WF_vars(Queue(r))
       /\ WF_vars(WriteSpawn(r)) /\ WF_vars(SpawnDone(r))
       /\ WF_vars(WriteComplete(r)) /\ WF_vars(Expire(r))
       /\ \A k \in Round :
            /\ WF_vars(CheckWritePermission(r, k)) /\ WF_vars(OnWritePermission(r, k))
            /\ SF_vars(CheckWritePermission(r, k) /\ at'[r][k] = "granted")
            /\ WF_vars(\E f \in Sum : GetBalance(r, k, f))
            /\ WF_vars(BalanceKnown(r, k)) /\ WF_vars(Write(r, k)) /\ WF_vars(WriteDone(r, k))
  /\ \A w \in Worker, k \in Round : WF_vars(Interval(w, k))

LiveSpec == Spec /\ Fairness

-----------------------------------------------------------------------------
(* Properties *)

\* Nobody but the magic account spends money they do not have, whatever fails,
\* is answered wrongly, expires or crashes (comments at transactions.js 207-217
\* and db/transactions.js 49-59): an account owes no more than administrators
\* took back from it, unless one of its intents has overtaken a payment that had
\* permission, or expired while its payment had permission.
NoOverdraft == \A a \in Account \ unguarded : Balance(a) + reclaimed[a] >= 0

\* Of all payments of one sender, on all workers, at most one is between the
\* permission and the removal of its entry, unless the order of that sender's
\* own intents broke.
SenderExclusion ==
  \A q, r \in Request :
    Busy(q) /\ Busy(r) /\ SenderOf(q) = SenderOf(r) /\ SenderOf(r) \notin unguarded => q = r

\* A refusal that says nothing of the sender's money: the order of their intents
\* broke, or an administrator took money from them.
Excusable(r) == SenderOf(r) \in unguarded \/ reclaimed[SenderOf(r)] > 0

\* "nomoney" is only answered if at some moment the sender could not pay,
\* although the three sums getBalance adds up are read at different moments.
NoFalseRefusal ==
  \A r \in Request : answer[r] = "nomoney" => r \in short \/ Excusable(r)

\* "ok" is only answered for a transaction that is in the database, in every
\* environment.
OkMeansPaid == \A r \in Request : answer[r] = "ok" => written[r] > 0

\* A payment that was refused is never carried out, before or after the answer.
NomoneyMeansUnpaid == \A r \in Request : answer[r] = "nomoney" => written[r] = 0

\* No payment is written twice, although its entry stays queued and is tried
\* again after every database error: each further document takes one that the
\* database inserted and reported as failed.
PaidAtMostOnce == \A r \in Request : written[r] <= 1 + misreported[r]

\* Once "ok" or "nomoney" was answered the payment moves no more money; after
\* an error it still may.
SettledIsFinal ==
  [][\A r \in Request :
       answer[r] \in {"ok", "nomoney"} => written'[r] = written[r]]_vars

\* A payment that reached its worker's queue is answered, or lost with that
\* worker: intents that crashed workers leave behind, failed removals and
\* failed steps delay the sender's other payments and do not block them.
QueuedIsAnswered ==
  \A r \in Request :
    phase[r] = "queued" ~> (phase[r] = "gone" /\ answer[r] # None) \/ phase[r] = "lost"
=============================================================================
