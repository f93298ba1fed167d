--------------------------------- MODULE Bank ---------------------------------
(***************************************************************************)
(* What clients are promised: a bank in which a payment happens in one     *)
(* instant, only if the sender has the money in that instant, and again    *)
(* only if its client was told error.  Two things may happen to a bank:    *)
(* administrators take the money of a payment back, and it loses track of  *)
(* an account, after which it guarantees nothing of this account's         *)
(* payments but their answers.  TransactionQueue implements it (module     *)
(* QueueImplementsBank).                                                   *)
(***************************************************************************)
EXTENDS Integers

CONSTANTS Request, Account, Entry, NoAccount, Opening, None

VARIABLES
  status,    \* none, pending, paid, doubtful (paid, reported as failed) or dropped
  entry,     \* what is to be paid, None before it is submitted
  balance,
  documents, \* payments of a request that are in force
  reclaimed, \* what administrators took from each account
  excused,   \* accounts the bank lost track of
  lacking,   \* requests whose sender was seen to lack the money
  answer     \* what the client was told

vars == <<status, entry, balance, documents, reclaimed, excused, lacking, answer>>

TypeOK ==
  /\ status \in [Request -> {"none", "pending", "paid", "doubtful", "dropped"}]
  /\ entry \in [Request -> Entry \cup {None}]
  /\ balance \in [Account -> Int]
  /\ documents \in [Request -> Nat]
  /\ reclaimed \in [Account -> Nat]
  /\ excused \subseteq Account
  /\ lacking \subseteq Request
  /\ answer \in [Request -> {"ok", "nomoney", "error", None}]

\* Only the first answer reaches the client.
Tell(r, a) == answer' = [answer EXCEPT ![r] = IF @ = None THEN a ELSE @]

\* Open: the payment may still happen.
Open(r) == status[r] \in {"pending", "doubtful"}
Lacks(r) == entry[r].sender # NoAccount /\ balance[entry[r].sender] < entry[r].sent

\* The sender has the money, or had it before some was taken back.
Covered(r) ==
  \/ entry[r].sender = NoAccount
  \/ entry[r].sender \in excused
  \/ balance[entry[r].sender] + reclaimed[entry[r].sender] >= entry[r].sent

Submit(r, e) ==
  /\ status[r] = "none"
  /\ status' = [status EXCEPT ![r] = "pending"]
  /\ entry' = [entry EXCEPT ![r] = e]
  /\ UNCHANGED <<balance, documents, reclaimed, excused, lacking, answer>>

Notice(r) ==
  /\ Open(r)
  /\ Lacks(r)
  /\ lacking' = lacking \cup {r}
  /\ UNCHANGED <<status, entry, balance, documents, reclaimed, excused, answer>>

Income(e, a) == (IF a = e.recipient THEN e.received ELSE 0)
              + (IF a = e.tax_recipient THEN e.tax ELSE 0)
Share(e, a) == Income(e, a) - (IF a = e.sender THEN e.sent ELSE 0)

Pay(r) ==
  /\ Open(r)
  /\ Covered(r)
  /\ status' = [status EXCEPT ![r] = "paid"]
  /\ balance' = [a \in Account |-> balance[a] + Share(entry[r], a)]
  /\ documents' = [documents EXCEPT ![r] = @ + 1]
  /\ UNCHANGED <<entry, reclaimed, excused, lacking, answer>>

Confirm(r) ==
  /\ status[r] = "paid"
  /\ Tell(r, "ok")
  /\ UNCHANGED <<status, entry, balance, documents, reclaimed, excused, lacking>>

Refuse(r) ==
  /\ status[r] = "pending"
  /\ \/ r \in lacking
     \/ \E s \in Account : entry[r].sender = s /\ (s \in excused \/ reclaimed[s] > 0)
  /\ status' = [status EXCEPT ![r] = "dropped"]
  /\ Tell(r, "nomoney")
  /\ UNCHANGED <<entry, balance, documents, reclaimed, excused, lacking>>

\* An error is not final: the payment may be dropped or may be tried again, and
\* it may even have happened.
Report(r) ==
  /\ \/ status[r] = "pending" /\ status' \in {status, [status EXCEPT ![r] = "dropped"]}
     \/ status[r] = "paid" /\ status' \in {status, [status EXCEPT ![r] = "doubtful"]}
  /\ Tell(r, "error")
  /\ UNCHANGED <<entry, balance, documents, reclaimed, excused, lacking>>

\* No further attempt is made: any number of open payments go with a worker.
Abandon(R) ==
  /\ \A r \in R : Open(r)
  /\ status' = [r \in Request |->
       IF r \notin R THEN status[r] ELSE IF status[r] = "pending" THEN "dropped" ELSE "paid"]
  /\ UNCHANGED <<entry, balance, documents, reclaimed, excused, lacking, answer>>

TakeBack(r) ==
  /\ documents[r] > 0
  /\ documents' = [documents EXCEPT ![r] = @ - 1]
  /\ balance' = [a \in Account |-> balance[a] - Share(entry[r], a)]
  /\ reclaimed' = [a \in Account |-> reclaimed[a] + Income(entry[r], a)]
  /\ UNCHANGED <<status, entry, excused, lacking, answer>>

LoseTrack(a) ==
  /\ excused' = excused \cup {a}
  /\ UNCHANGED <<status, entry, balance, documents, reclaimed, lacking, answer>>

Init ==
  /\ status = [r \in Request |-> "none"]
  /\ entry = [r \in Request |-> None]
  /\ balance = Opening
  /\ documents = [r \in Request |-> 0]
  /\ reclaimed = [a \in Account |-> 0]
  /\ excused = {}
  /\ lacking = {}
  /\ answer = [r \in Request |-> None]

Next ==
  \/ \E r \in Request :
       \/ \E e \in Entry : Submit(r, e)
       \/ Notice(r) \/ Pay(r) \/ Confirm(r) \/ Refuse(r) \/ Report(r) \/ TakeBack(r)
  \/ \E R \in SUBSET Request : Abandon(R)
  \/ \E a \in Account : LoseTrack(a)

Spec == Init /\ [][Next]_vars
=============================================================================
