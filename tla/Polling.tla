-------------------------------- MODULE Polling --------------------------------
(***************************************************************************)
(* How the app learns of incoming payments: the client holds a long poll   *)
(* open at one of the workers (client/app/www/js/common.js), every worker  *)
(* looks for new transactions on behalf of all its polls, on an interval   *)
(* of its own (server/api/actions/polling.js).                             *)
(*                                                                         *)
(* A page that the user leaves, a lost connection and an expired request   *)
(* look the same to the server: the poll stays, nobody listens any more.   *)
(***************************************************************************)
EXTENDS Integers, FiniteSets

CONSTANTS
  Client,       \* running apps
  Worker,
  Transaction,  \* transactions that may appear: [id, recipient, time]
  QridOf,       \* the account a client polls for
  Idx,          \* bound: positions of polls that are in use at a time
  Slot,         \* bound: queries of one worker under way at a time
  PollMax,      \* poll_max
  PromptTimeout,\* a poll may time out before any query for it has been handled
  MaxFaults,    \* bound: disconnections, failed queries and crashes
  None

Date == {0} \cup {t.time : t \in Transaction}
PollEntry == [client : Client, date : Date, due : BOOLEAN]  \* due: may time out
Query == [asked : [Idx -> PollEntry \cup {None}],
          trlist : (SUBSET Transaction) \cup {None}]

ASSUME ConstantsAssumption ==
  /\ \A t \in Transaction : t.time \in Nat \ {0}
  /\ PollMax \in Nat \ {0}
  /\ PromptTimeout \in BOOLEAN
  /\ MaxFaults \in Nat
  /\ None \notin PollEntry /\ None \notin Query /\ None \notin Worker \X Idx
  /\ \A T \in SUBSET Transaction : None # T

VARIABLES
  transactions, \* the transactions collection
  late,         \* history: transactions that appeared behind the time of others
  cut,          \* history: transactions a query found and poll_max cut off
  polls,        \* polls[w][i]: entry i of the worker's array polls
  queries,      \* queries[w][s]: what was asked, and the answer of the database
  listening,    \* where the client's open request waits, None: polling_active is off
  inbox,        \* the response on its way to the client
  last_sync,    \* localStorage of the app
  notified,     \* history: transactions the client showed a notification for
  repeated,     \* history: clients that showed one twice
  faults        \* counter of MaxFaults

vars == <<transactions, late, cut, polls, queries, listening, inbox, last_sync,
          notified, repeated, faults>>
database == <<transactions, late, cut>>
client == <<listening, inbox, last_sync, notified, repeated>>

NoPolls == [i \in Idx |-> None]

TypeOK ==
  /\ transactions \subseteq Transaction
  /\ late \subseteq transactions /\ cut \subseteq transactions
  /\ polls \in [Worker -> [Idx -> PollEntry \cup {None}]]
  /\ queries \in [Worker -> [Slot -> Query \cup {None}]]
  /\ listening \in [Client -> (Worker \X Idx) \cup {None}]
  /\ inbox \in [Client -> (SUBSET Transaction) \cup {None}]
  /\ last_sync \in [Client -> Date]
  /\ notified \in [Client -> SUBSET Transaction]
  /\ repeated \subseteq Client
  /\ faults \in 0..MaxFaults

-----------------------------------------------------------------------------
(* Server *)

\* The array polls only grows, so a position that is given out is one that no
\* poll, no query under way and no client refers to.
UnusedEmpty(w, i) == polls[w][i] = None
Unused(w, i) ==
  /\ polls[w][i] = None
  /\ \A s \in Slot : queries[w][s] # None => queries[w][s].asked[i] = None
  /\ \A c \in Client : listening[c] # <<w, i>>

\* The client's interval opens a poll; the worker checks qrid, password and date
\* and enters it.  (What it refuses it answers at once, and the client tries
\* again with the next interval.)
Poll(c, w, i) ==
  /\ listening[c] = None
  /\ Unused(w, i)
  /\ polls' = [polls EXCEPT ![w][i] =
                 [client |-> c, date |-> last_sync[c], due |-> PromptTimeout]]
  /\ listening' = [listening EXCEPT ![c] = <<w, i>>]
  /\ UNCHANGED <<database, queries, inbox, last_sync, notified, repeated, faults>>

\* Worker w answers the polls at the positions in the domain of news.
Answer(w, news) ==
  inbox' = [c \in Client |->
              IF \E i \in DOMAIN news : listening[c] = <<w, i>>
                THEN news[listening[c][2]] ELSE inbox[c]]

PollTimeoutUnanswered(w, i) ==
  /\ polls[w][i] # None
  /\ polls[w][i].due
  /\ polls' = [polls EXCEPT ![w][i] = None]
  /\ UNCHANGED <<database, queries, client, faults>>

\* Nothing new for poll_timeout.
PollTimeout(w, i) ==
  /\ polls[w][i] # None
  /\ polls[w][i].due
  /\ Answer(w, [j \in {i} |-> {}])
  /\ polls' = [polls EXCEPT ![w][i] = None]
  /\ UNCHANGED <<database, queries, listening, last_sync, notified, repeated, faults>>

\* The interval sends one query for all polls; polls may change before its answer.
Tick(w, s) ==
  /\ polls[w] # NoPolls
  /\ queries[w][s] = None
  /\ queries' = [queries EXCEPT ![w][s] = [asked |-> polls[w], trlist |-> None]]
  /\ UNCHANGED <<database, polls, client, faults>>

Qrid(p) == QridOf[p.client]
MatchingFrom(asked) ==
  {t \in transactions : \E i \in Idx :
     asked[i] # None /\ Qrid(asked[i]) = t.recipient /\ t.time >= asked[i].date}
MatchingAll(asked) ==
  {t \in transactions :
     /\ \E i \in Idx : asked[i] # None /\ Qrid(asked[i]) = t.recipient
     /\ \A i \in Idx : asked[i] # None /\ Qrid(asked[i]) = t.recipient
                        => t.time > asked[i].date}
Matching(asked) ==
  {t \in transactions : \E i \in Idx :
     asked[i] # None /\ Qrid(asked[i]) = t.recipient /\ t.time > asked[i].date}

IsNewest(N, S) ==
  /\ Cardinality(N) = IF Cardinality(S) < PollMax THEN Cardinality(S) ELSE PollMax
  /\ \A t \in N, u \in S \ N : t.time >= u.time

ExecuteQuery(w, s) ==
  /\ queries[w][s] # None
  /\ queries[w][s].trlist = None
  /\ LET found == Matching(queries[w][s].asked)
     IN  \E N \in SUBSET found :
           /\ IsNewest(N, found)
           /\ queries' = [queries EXCEPT ![w][s].trlist = N]
           /\ cut' = cut \cup (found \ N)
  /\ UNCHANGED <<transactions, late, polls, client, faults>>

\* Its callback: every account with news gets them on all of its polls.
HandleDbPollAnswer(w, s) ==
  /\ queries[w][s] # None
  /\ queries[w][s].trlist # None
  /\ LET asked == queries[w][s].asked
         group(i) == {t \in queries[w][s].trlist : t.recipient = Qrid(asked[i])}
         I == {i \in Idx : asked[i] # None /\ polls[w][i] # None /\ group(i) # {}}
     IN  /\ Answer(w, [i \in I |-> group(i)])
         /\ polls' = [polls EXCEPT ![w] = [i \in Idx |->
                        CASE i \in I -> None
                          [] i \notin I /\ asked[i] # None /\ polls[w][i] # None
                             -> [polls[w][i] EXCEPT !.due = TRUE]
                          [] OTHER -> polls[w][i]]]
  /\ queries' = [queries EXCEPT ![w][s] = None]
  /\ UNCHANGED <<database, listening, last_sync, notified, repeated, faults>>

-----------------------------------------------------------------------------
(* Client *)

HearNow(c) ==
  \E t \in transactions :
    /\ \A u \in transactions : t.time >= u.time
    /\ last_sync' = [last_sync EXCEPT ![c] = t.time]

HearUnparsed(c) == last_sync' = [last_sync EXCEPT ![c] = None]

HearOldest(c) ==
  \E t \in inbox[c] :
    /\ \A u \in inbox[c] : t.time <= u.time
    /\ last_sync' = [last_sync EXCEPT ![c] = t.time]

\* The first of the transactions, the newest, sets last_sync.
Hear(c) ==
  \E t \in inbox[c] :
    /\ \A u \in inbox[c] : t.time >= u.time
    /\ last_sync' = [last_sync EXCEPT ![c] = t.time]

Receive(c) ==
  /\ inbox[c] # None
  /\ listening' = [listening EXCEPT ![c] = None]
  /\ inbox' = [inbox EXCEPT ![c] = None]
  /\ IF inbox[c] = {}
       THEN UNCHANGED <<last_sync, notified, repeated>>
       ELSE /\ Hear(c)
            /\ notified' = [notified EXCEPT ![c] = @ \cup inbox[c]]
            /\ repeated' = IF notified[c] \cap inbox[c] # {}
                             THEN repeated \cup {c} ELSE repeated
  /\ UNCHANGED <<database, polls, queries, faults>>

-----------------------------------------------------------------------------
(* Surroundings *)

\* t comes with a time that is not after that of another one of its recipient.
Behind(t) == \E u \in transactions : u.recipient = t.recipient /\ u.time >= t.time

\* transaction_write of a worker becomes visible.  The time, in whole seconds, was
\* set when the entry was built, before the payment waited in its queue.
Insert(t) ==
  /\ t \notin transactions
  /\ transactions' = transactions \cup {t}
  /\ late' = late \cup {u \in {t} : Behind(t)}
  /\ UNCHANGED <<cut, polls, queries, client, faults>>

Fault == faults < MaxFaults /\ faults' = faults + 1

\* The user opens another page, the connection breaks, or the request expires.
Disconnect(c) ==
  /\ listening[c] # None
  /\ Fault
  /\ listening' = [listening EXCEPT ![c] = None]
  /\ inbox' = [inbox EXCEPT ![c] = None]
  /\ UNCHANGED <<database, polls, queries, last_sync, notified, repeated>>

\* Polling clients are not told of database errors.
QueryFails(w, s) ==
  /\ queries[w][s] # None
  /\ Fault
  /\ queries' = [queries EXCEPT ![w][s] = None]
  /\ UNCHANGED <<database, polls, client>>

\* Responses that were sent before still arrive.
Crash(w) ==
  /\ Fault
  /\ polls' = [polls EXCEPT ![w] = NoPolls]
  /\ queries' = [queries EXCEPT ![w] = [s \in Slot |-> None]]
  /\ listening' = [c \in Client |->
                     IF \E i \in Idx : listening[c] = <<w, i>> /\ inbox[c] = None
                       THEN None ELSE listening[c]]
  /\ UNCHANGED <<database, inbox, last_sync, notified, repeated>>

-----------------------------------------------------------------------------
Init ==
  /\ transactions = {} /\ late = {} /\ cut = {}
  /\ polls = [w \in Worker |-> NoPolls]
  /\ queries = [w \in Worker |-> [s \in Slot |-> None]]
  /\ listening = [c \in Client |-> None]
  /\ inbox = [c \in Client |-> None]
  /\ last_sync = [c \in Client |-> 0]
  /\ notified = [c \in Client |-> {}]
  /\ repeated = {}
  /\ faults = 0

Next ==
  \/ \E c \in Client :
       \/ \E w \in Worker, i \in Idx : Poll(c, w, i)
       \/ Receive(c) \/ Disconnect(c)
  \/ \E w \in Worker :
       \/ \E i \in Idx : PollTimeout(w, i)
       \/ \E s \in Slot :
            Tick(w, s) \/ ExecuteQuery(w, s) \/ HandleDbPollAnswer(w, s) \/ QueryFails(w, s)
       \/ Crash(w)
  \/ \E t \in Transaction : Insert(t)

Spec == Init /\ [][Next]_vars

\* Timers fire, the database answers, responses arrive; nothing obliges users to
\* pay each other or anything to fail.
Fairness ==
  /\ \A c \in Client :
       /\ WF_vars(\E w \in Worker, i \in Idx : Poll(c, w, i))
       /\ WF_vars(Receive(c))
  /\ \A w \in Worker :
       /\ \A i \in Idx : WF_vars(PollTimeout(w, i))
       /\ \A s \in Slot :
            /\ WF_vars(ExecuteQuery(w, s)) /\ WF_vars(HandleDbPollAnswer(w, s))
       /\ WF_vars(\E s \in Slot : Tick(w, s))

LiveSpec == Spec /\ Fairness

-----------------------------------------------------------------------------
(* Properties *)

\* Nobody is told of a payment to somebody else, although a query's answer is
\* matched to the polls by their position, after polls have come and gone.
OnlyOwn == \A c \in Client : \A t \in notified[c] : t.recipient = QridOf[c]

\* Every transaction up to last_sync has been shown: the server never sends older
\* ones again, so what is skipped is lost.
Missed(c) ==
  {t \in transactions : t.recipient = QridOf[c] /\ t.time <= last_sync[c]} \ notified[c]

\* Whatever timeouts, crashes, lost answers and abandoned polls there are, nobody
\* misses a payment but one that appeared with a time others had passed already,
\* or that a query found and poll_max cut off.
NoGap == \A c \in Client : Missed(c) \subseteq late \cup cut

\* "list of transactions since last refresh" (polling.js:29): nothing is skipped
\* that came in the order of the times.
SinceLastRefresh == \A c \in Client : Missed(c) \subseteq late

\* A client shows no transaction twice.
NotifiedOnce == repeated = {}

\* last_sync never goes back, not even if a poll of the same account with an
\* older date, of another device or of a page that was left, widens the answer.
SyncAdvances == [][\A c \in Client : last_sync'[c] >= last_sync[c]]_vars

\* Every payment that appears in the order of the times and is not cut off is shown
\* to its recipient in the end, whatever timeouts, crashes, lost answers and
\* abandoned polls come in between.
EventuallyNotified ==
  \A c \in Client, t \in Transaction :
    (t \in transactions \ late /\ t.recipient = QridOf[c]) ~> (t \in notified[c] \cup cut)
=============================================================================
