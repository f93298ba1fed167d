----------------------------- MODULE PollingProofs -----------------------------
(***************************************************************************)
(* Proofs about Polling, for any number of clients, workers, positions,    *)
(* queries under way, transactions and faults.  OnlyOwn, SyncAdvances and  *)
(* NoGap hold whatever the environment does; NotifiedOnce while no two     *)
(* apps share an account (OneAppPerAccount) and no app has left a poll     *)
(* behind at another worker (NoneElsewhere).                               *)
(***************************************************************************)
EXTENDS Polling, TLAPS

\* Polls, and the copies of them that queries under way took, still belong to
\* the client that listens at their position, and have its last_sync.
Linked ==
  \A c \in Client, w \in Worker, i \in Idx :
    listening[c] = <<w, i>> =>
      /\ polls[w][i] # None =>
           polls[w][i].client = c /\ polls[w][i].date = last_sync[c]
      /\ \A s \in Slot :
           queries[w][s] # None /\ queries[w][s].asked[i] # None
             => queries[w][s].asked[i].client = c /\ queries[w][s].asked[i].date = last_sync[c]

\* Responses on their way only hold what is meant for their client.
OwnResponse ==
  \A c \in Client : inbox[c] # None => \A t \in inbox[c] : t.recipient = QridOf[c]

USE DEF NoPolls, database

LEMMA TypeInit == Init => TypeOK
<1> SUFFICES ASSUME Init PROVE TypeOK
  OBVIOUS
<1>1. 0 \in Date
  BY DEF Date
<1>2. MaxFaults \in Nat
  BY ConstantsAssumption
<1> QED
  BY <1>1, <1>2 DEF Init, TypeOK

LEMMA TypeNext == TypeOK /\ [Next]_vars => TypeOK'
<1> SUFFICES ASSUME TypeOK, [Next]_vars PROVE TypeOK'
  OBVIOUS
<1> USE ConstantsAssumption
<1>1. ASSUME NEW c \in Client, NEW w \in Worker, NEW i \in Idx, Poll(c, w, i) PROVE TypeOK'
  <2>1. [client |-> c, date |-> last_sync[c], due |-> PromptTimeout] \in PollEntry
    BY DEF TypeOK, PollEntry
  <2> QED
    BY <1>1, <2>1 DEF Poll, TypeOK
<1>2. ASSUME NEW w \in Worker, NEW i \in Idx, PollTimeout(w, i) PROVE TypeOK'
  BY <1>2 DEF PollTimeout, Answer, TypeOK
<1>3. ASSUME NEW w \in Worker, NEW s \in Slot, Tick(w, s) PROVE TypeOK'
  <2>1. [asked |-> polls[w], trlist |-> None] \in Query
    BY DEF TypeOK, Query
  <2> QED
    BY <1>3, <2>1 DEF Tick, client, TypeOK
<1>4. ASSUME NEW w \in Worker, NEW s \in Slot, ExecuteQuery(w, s) PROVE TypeOK'
  <2> DEFINE found == Matching(queries[w][s].asked)
  <2>1. PICK N \in SUBSET found : queries' = [queries EXCEPT ![w][s].trlist = N]
    BY <1>4 DEF ExecuteQuery
  <2>2. N \in SUBSET Transaction
    BY DEF Matching, TypeOK
  <2>3. queries[w][s] \in Query
    BY <1>4 DEF ExecuteQuery, TypeOK
  <2>4. [queries[w][s] EXCEPT !.trlist = N] \in Query
    BY <2>2, <2>3 DEF Query
  <2>5. queries' \in [Worker -> [Slot -> Query \cup {None}]]
    BY <2>1, <2>4 DEF TypeOK
  <2>6. cut' \subseteq transactions
    BY <1>4 DEF ExecuteQuery, Matching, TypeOK
  <2> QED
    BY <1>4, <2>5, <2>6 DEF ExecuteQuery, client, TypeOK
<1>5. ASSUME NEW w \in Worker, NEW s \in Slot, HandleDbPollAnswer(w, s) PROVE TypeOK'
  <2> DEFINE asked == queries[w][s].asked
             group(i) == {t \in queries[w][s].trlist : t.recipient = Qrid(asked[i])}
             I == {i \in Idx : asked[i] # None /\ polls[w][i] # None /\ group(i) # {}}
             kept(i) == CASE i \in I -> None
                          [] i \notin I /\ asked[i] # None /\ polls[w][i] # None
                             -> [polls[w][i] EXCEPT !.due = TRUE]
                          [] OTHER -> polls[w][i]
  <2>1. queries[w][s] \in Query /\ queries[w][s].trlist \in SUBSET Transaction
    <3>1. queries[w][s] \in Query \cup {None}
      BY DEF TypeOK
    <3>2. queries[w][s] # None /\ queries[w][s].trlist # None
      BY <1>5 DEF HandleDbPollAnswer
    <3> QED
      BY <3>1, <3>2 DEF Query
  <2>2. ASSUME NEW i \in Idx PROVE kept(i) \in PollEntry \cup {None}
    <3>1. polls[w][i] \in PollEntry \cup {None}
      BY DEF TypeOK
    <3>2. polls[w][i] # None => [polls[w][i] EXCEPT !.due = TRUE] \in PollEntry
      BY <3>1 DEF PollEntry
    <3> HIDE DEF I
    <3> QED
      BY <3>1, <3>2
  <2>3. polls' = [polls EXCEPT ![w] = [i \in Idx |-> kept(i)]]
    BY <1>5 DEF HandleDbPollAnswer
  <2>4. polls' \in [Worker -> [Idx -> PollEntry \cup {None}]]
    BY <2>2, <2>3 DEF TypeOK
  <2>5. \A i \in I : group(i) \in SUBSET Transaction
    BY <2>1
  <2>6. inbox' = [c \in Client |-> IF \E i \in I : listening[c] = <<w, i>>
                                     THEN group(listening[c][2]) ELSE inbox[c]]
    <3>1. Answer(w, [i \in I |-> group(i)])
      BY <1>5 DEF HandleDbPollAnswer
    <3> HIDE DEF asked, group, I
    <3> QED
      BY <3>1 DEF Answer
  <2>7. inbox' \in [Client -> (SUBSET Transaction) \cup {None}]
    <3> HIDE DEF group
    <3>1. ASSUME NEW c \in Client PROVE inbox'[c] \in (SUBSET Transaction) \cup {None}
      <4>1. CASE \E i \in I : listening[c] = <<w, i>>
        <5>1. inbox'[c] = group(listening[c][2]) /\ listening[c][2] \in I
          BY <2>6, <4>1
        <5> QED
          BY <2>5, <5>1
      <4>2. CASE ~\E i \in I : listening[c] = <<w, i>>
        BY <2>6, <4>2 DEF TypeOK
      <4> QED
        BY <4>1, <4>2
    <3> QED
      BY <2>6, <3>1
  <2> QED
    BY <1>5, <2>4, <2>7 DEF HandleDbPollAnswer, TypeOK
<1>6. ASSUME NEW c \in Client, Receive(c) PROVE TypeOK'
  <2>1. inbox[c] \in SUBSET Transaction
    BY <1>6 DEF Receive, TypeOK
  <2>2. CASE inbox[c] = {}
    BY <1>6, <2>2 DEF Receive, TypeOK
  <2>3. CASE inbox[c] # {}
    <3>1. PICK t \in inbox[c] : last_sync' = [last_sync EXCEPT ![c] = t.time]
      BY <1>6, <2>3 DEF Receive, Hear
    <3>2. t.time \in Date
      BY <2>1 DEF Date
    <3>3. last_sync' \in [Client -> Date]
      BY <3>1, <3>2 DEF TypeOK
    <3>4. notified' \in [Client -> SUBSET Transaction]
      BY <1>6, <2>1, <2>3 DEF Receive, TypeOK
    <3>5. repeated' \subseteq Client
      BY <1>6, <2>3 DEF Receive, TypeOK
    <3>6. /\ listening' \in [Client -> (Worker \X Idx) \cup {None}]
          /\ inbox' \in [Client -> (SUBSET Transaction) \cup {None}]
      BY <1>6 DEF Receive, TypeOK
    <3> QED
      BY <1>6, <3>3, <3>4, <3>5, <3>6 DEF Receive, TypeOK
  <2> QED
    BY <2>2, <2>3
<1>7. ASSUME NEW t \in Transaction, Insert(t) PROVE TypeOK'
  BY <1>7 DEF Insert, client, TypeOK
<1>8. ASSUME NEW c \in Client, Disconnect(c) PROVE TypeOK'
  BY <1>8 DEF Disconnect, Fault, TypeOK
<1>9. ASSUME NEW w \in Worker, NEW s \in Slot, QueryFails(w, s) PROVE TypeOK'
  BY <1>9 DEF QueryFails, Fault, client, TypeOK
<1>10. ASSUME NEW w \in Worker, Crash(w) PROVE TypeOK'
  BY <1>10 DEF Crash, Fault, TypeOK
<1>11. CASE UNCHANGED vars
  BY <1>11 DEF vars, TypeOK
<1> QED
  BY <1>1, <1>2, <1>3, <1>4, <1>5, <1>6, <1>7, <1>8, <1>9, <1>10, <1>11 DEF Next

LEMMA LinkedNext == TypeOK /\ Linked /\ [Next]_vars => Linked'
<1> SUFFICES ASSUME TypeOK, Linked, [Next]_vars,
                    NEW c \in Client, NEW w \in Worker, NEW i \in Idx,
                    listening'[c] = <<w, i>>
             PROVE  /\ polls'[w][i] # None =>
                         polls'[w][i].client = c /\ polls'[w][i].date = last_sync'[c]
                    /\ \A s \in Slot :
                         queries'[w][s] # None /\ queries'[w][s].asked[i] # None
                           => /\ queries'[w][s].asked[i].client = c
                              /\ queries'[w][s].asked[i].date = last_sync'[c]
  BY DEF Linked
<1> DEFINE Goal == /\ polls'[w][i] # None =>
                        polls'[w][i].client = c /\ polls'[w][i].date = last_sync'[c]
                   /\ \A s \in Slot :
                        queries'[w][s] # None /\ queries'[w][s].asked[i] # None
                          => /\ queries'[w][s].asked[i].client = c
                             /\ queries'[w][s].asked[i].date = last_sync'[c]
<1> USE ConstantsAssumption
<1>1. ASSUME NEW d \in Client, NEW v \in Worker, NEW j \in Idx, Poll(d, v, j) PROVE Goal
  <2>1. CASE c = d
    <3>1. v = w /\ j = i
      BY <1>1, <2>1 DEF Poll, TypeOK
    <3>2. polls'[w][i].client = c /\ polls'[w][i].date = last_sync'[c]
      BY <1>1, <2>1, <3>1 DEF Poll, TypeOK
    <3>3. \A s \in Slot : queries'[w][s] # None => queries'[w][s].asked[i] = None
      BY <1>1, <3>1 DEF Poll, Unused
    <3> QED
      BY <3>2, <3>3
  <2>2. CASE c # d
    <3>1. listening[c] = <<w, i>>
      BY <1>1, <2>2 DEF Poll, TypeOK
    <3>2. ~(v = w /\ j = i)
      BY <1>1, <3>1 DEF Poll, Unused
    <3>3. polls'[w][i] = polls[w][i]
      BY <1>1, <3>2 DEF Poll, TypeOK
    <3> QED
      BY <1>1, <3>1, <3>3 DEF Poll, Linked
  <2> QED
    BY <2>1, <2>2
<1>2. ASSUME NEW v \in Worker, NEW j \in Idx, PollTimeout(v, j) PROVE Goal
  <2>1. polls'[w][i] \in {None, polls[w][i]}
    BY <1>2 DEF PollTimeout, TypeOK
  <2> QED
    BY <1>2, <2>1 DEF PollTimeout, Linked
<1>3. ASSUME NEW v \in Worker, NEW s \in Slot, Tick(v, s) PROVE Goal
  BY <1>3 DEF Tick, client, Linked, TypeOK
<1>4. ASSUME NEW v \in Worker, NEW s \in Slot, ExecuteQuery(v, s) PROVE Goal
  <2>1. PICK N : queries' = [queries EXCEPT ![v][s].trlist = N]
    BY <1>4 DEF ExecuteQuery
  <2>2. queries[v][s] \in Query
    BY <1>4 DEF ExecuteQuery, TypeOK
  <2>3. \A q \in Slot : queries[w][q] # None => queries'[w][q].asked = queries[w][q].asked
    BY <2>1, <2>2 DEF TypeOK, Query
  <2>4. \A q \in Slot : queries'[w][q] # None => queries[w][q] # None
    BY <1>4, <2>1 DEF ExecuteQuery, TypeOK
  <2> QED
    BY <1>4, <2>3, <2>4 DEF ExecuteQuery, client, Linked
<1>5. ASSUME NEW v \in Worker, NEW s \in Slot, HandleDbPollAnswer(v, s) PROVE Goal
  <2>1. \/ polls'[w][i] = None
        \/ polls'[w][i] = polls[w][i]
        \/ polls[w][i] # None /\ polls'[w][i] = [polls[w][i] EXCEPT !.due = TRUE]
    BY <1>5 DEF HandleDbPollAnswer, TypeOK
  <2>2. polls'[w][i] # None => polls[w][i] # None /\ polls'[w][i].client = polls[w][i].client
                            /\ polls'[w][i].date = polls[w][i].date
    BY <2>1 DEF TypeOK, PollEntry
  <2>3. \A q \in Slot : queries'[w][q] \in {None, queries[w][q]}
    BY <1>5 DEF HandleDbPollAnswer, TypeOK
  <2>4. listening[c] = <<w, i>>
    BY <1>5 DEF HandleDbPollAnswer
  <2>5. last_sync' = last_sync
    BY <1>5 DEF HandleDbPollAnswer
  <2> QED
    BY <2>2, <2>3, <2>4, <2>5 DEF Linked
<1>6. ASSUME NEW d \in Client, Receive(d) PROVE Goal
  <2>1. listening[c] = <<w, i>> /\ c # d
    <3>1. <<w, i>> # None /\ listening' = [listening EXCEPT ![d] = None]
      BY <1>6 DEF Receive
    <3> QED
      BY <3>1 DEF TypeOK
  <2>2. last_sync'[c] = last_sync[c]
    BY <1>6, <2>1 DEF Receive, Hear, TypeOK
  <2> QED
    BY <1>6, <2>1, <2>2 DEF Receive, Linked
<1>7. ASSUME NEW t \in Transaction, Insert(t) PROVE Goal
  BY <1>7 DEF Insert, client, Linked
<1>8. ASSUME NEW d \in Client, Disconnect(d) PROVE Goal
  <2>1. listening[c] = <<w, i>>
    BY <1>8 DEF Disconnect, TypeOK
  <2> QED
    BY <1>8, <2>1 DEF Disconnect, Linked
<1>9. ASSUME NEW v \in Worker, NEW s \in Slot, QueryFails(v, s) PROVE Goal
  BY <1>9 DEF QueryFails, client, Linked, TypeOK
<1>10. ASSUME NEW v \in Worker, Crash(v) PROVE Goal
  <2>1. listening[c] = <<w, i>>
    BY <1>10 DEF Crash, TypeOK
  <2>2. polls'[w][i] \in {None, polls[w][i]}
    BY <1>10 DEF Crash, TypeOK
  <2>3. \A q \in Slot : queries'[w][q] \in {None, queries[w][q]}
    BY <1>10 DEF Crash, TypeOK
  <2> QED
    BY <1>10, <2>1, <2>2, <2>3 DEF Crash, Linked
<1>11. CASE UNCHANGED vars
  BY <1>11 DEF vars, Linked
<1> QED
  BY <1>1, <1>2, <1>3, <1>4, <1>5, <1>6, <1>7, <1>8, <1>9, <1>10, <1>11 DEF Next

LEMMA OwnNext ==
  TypeOK /\ Linked /\ OwnResponse /\ OnlyOwn /\ [Next]_vars => OwnResponse' /\ OnlyOwn'
<1> SUFFICES ASSUME TypeOK, Linked, OwnResponse, OnlyOwn, [Next]_vars
             PROVE  OwnResponse' /\ OnlyOwn'
  OBVIOUS
<1> USE ConstantsAssumption
<1>1. ASSUME NEW w \in Worker, NEW s \in Slot, HandleDbPollAnswer(w, s)
      PROVE OwnResponse' /\ OnlyOwn'
  <2> DEFINE asked == queries[w][s].asked
             group(i) == {t \in queries[w][s].trlist : t.recipient = Qrid(asked[i])}
             I == {i \in Idx : asked[i] # None /\ polls[w][i] # None /\ group(i) # {}}
  <2>1. inbox' = [c \in Client |-> IF \E i \in I : listening[c] = <<w, i>>
                                     THEN group(listening[c][2]) ELSE inbox[c]]
    <3>1. Answer(w, [i \in I |-> group(i)])
      BY <1>1 DEF HandleDbPollAnswer
    <3> HIDE DEF asked, group, I
    <3> QED
      BY <3>1 DEF Answer
  <2>2. ASSUME NEW c \in Client, NEW i \in I, listening[c] = <<w, i>>,
               NEW t \in inbox'[c]
        PROVE  t.recipient = QridOf[c]
    <3>1. asked[i].client = c
      <4>1. queries[w][s] # None /\ i \in Idx /\ asked[i] # None
        BY <1>1, <2>2 DEF HandleDbPollAnswer
      <4> QED
        BY <2>2, <4>1 DEF Linked
    <3>2. t \in group(i)
      BY <2>1, <2>2
    <3> QED
      BY <3>1, <3>2 DEF Qrid
  <2>3. OwnResponse'
    BY <2>1, <2>2 DEF OwnResponse
  <2> QED
    BY <1>1, <2>3 DEF HandleDbPollAnswer, OnlyOwn
<1>2. ASSUME NEW w \in Worker, NEW i \in Idx, PollTimeout(w, i)
      PROVE OwnResponse' /\ OnlyOwn'
  BY <1>2 DEF PollTimeout, Answer, OwnResponse, OnlyOwn
<1>3. ASSUME NEW c \in Client, Receive(c) PROVE OwnResponse' /\ OnlyOwn'
  <2>1. inbox' = [inbox EXCEPT ![c] = None]
    BY <1>3 DEF Receive
  <2>2. \A d \in Client : \A t \in notified'[d] :
          t \in notified[d] \/ (d = c /\ t \in inbox[c])
    BY <1>3 DEF Receive, TypeOK
  <2>3. \A t \in inbox[c] : t.recipient = QridOf[c]
    BY <1>3 DEF Receive, OwnResponse
  <2>4. OnlyOwn'
    BY <2>2, <2>3 DEF OnlyOwn
  <2>5. OwnResponse'
    BY <2>1 DEF OwnResponse, TypeOK
  <2> QED
    BY <2>4, <2>5
<1>4. ASSUME NEW c \in Client, Disconnect(c) PROVE OwnResponse' /\ OnlyOwn'
  BY <1>4 DEF Disconnect, OwnResponse, OnlyOwn, TypeOK
<1>5. CASE UNCHANGED <<inbox, notified>>
  BY <1>5 DEF OwnResponse, OnlyOwn
<1>6. ASSUME NEW c \in Client, NEW w \in Worker, NEW i \in Idx, Poll(c, w, i)
      PROVE UNCHANGED <<inbox, notified>>
  BY <1>6 DEF Poll
<1>7. ASSUME NEW w \in Worker, NEW s \in Slot,
             Tick(w, s) \/ ExecuteQuery(w, s) \/ QueryFails(w, s)
      PROVE UNCHANGED <<inbox, notified>>
  BY <1>7 DEF Tick, ExecuteQuery, QueryFails, client
<1>8. ASSUME NEW w \in Worker, Crash(w) PROVE UNCHANGED <<inbox, notified>>
  BY <1>8 DEF Crash
<1>9. ASSUME NEW t \in Transaction, Insert(t) PROVE UNCHANGED <<inbox, notified>>
  BY <1>9 DEF Insert, client
<1>10. CASE UNCHANGED vars
  BY <1>5, <1>10 DEF vars
<1> QED
  BY <1>1, <1>2, <1>3, <1>4, <1>5, <1>6, <1>7, <1>8, <1>9, <1>10 DEF Next

\* Every variable keeps its type.
THEOREM TypeCorrect == Spec => []TypeOK
BY TypeInit, TypeNext, PTL DEF Spec

\* No client is ever notified of a payment to another account, however many
\* polls come and go while queries are under way.
THEOREM OwnNewsOnly == Spec => []OnlyOwn
<1>1. Init => Linked /\ OwnResponse /\ OnlyOwn
  BY ConstantsAssumption DEF Init, Linked, OwnResponse, OnlyOwn
<1>2. TypeOK /\ Linked /\ OwnResponse /\ OnlyOwn /\ [Next]_vars
      => Linked' /\ OwnResponse' /\ OnlyOwn'
  BY LinkedNext, OwnNext
<1> QED
  BY <1>1, <1>2, TypeCorrect, PTL DEF Spec

-----------------------------------------------------------------------------
(* What a client may be told next *)

Own(c, T) == {t \in T : t.recipient = QridOf[c]}

\* Query s of worker w asks for the poll at which c listens.
AsksFor(w, s, c) ==
  \E i \in Idx : listening[c] = <<w, i>> /\ queries[w][s] # None /\ queries[w][s].asked[i] # None

\* The response on its way to c, and what the database has found for its poll.
Answers(c) ==
  {N \in SUBSET Transaction :
     \/ N = inbox[c]
     \/ \E w \in Worker, s \in Slot :
          AsksFor(w, s, c) /\ queries[w][s].trlist # None /\ N = Own(c, queries[w][s].trlist)}

Real == \A c \in Client : \A N \in Answers(c) : N \subseteq Own(c, transactions)

\* last_sync is the time of an own transaction, and no answer ends before it.
Synced == \A c \in Client :
  /\ last_sync[c] = 0 \/ \E t \in Own(c, transactions) : t.time = last_sync[c]
  /\ \A N \in Answers(c) : N # {} => \E t \in N : t.time >= last_sync[c]

\* Of what came in order and was not cut, an answer lacks only what is newer than
\* all of it.
Complete == \A c \in Client : \A N \in Answers(c), t \in Own(c, transactions \ (late \cup cut)) :
  t.time > last_sync[c] => t \in N \/ \A u \in N : u.time < t.time

\* Every copy a query took of a poll is of the poll that is still there, if any.
SamePoll == \A w \in Worker, i \in Idx, s \in Slot :
  queries[w][s] # None /\ queries[w][s].asked[i] # None /\ polls[w][i] # None
    => queries[w][s].asked[i].client = polls[w][i].client

Waiting == \A c \in Client : inbox[c] # None => listening[c] # None

PollsOf(c) == {p \in Worker \X Idx : polls[p[1]][p[2]] # None /\ polls[p[1]][p[2]].client = c}

\* All polls of a client have its last_sync, those that a query for the current
\* one asks with included, and news leave none of them behind.
UpToDateFor(c) ==
  /\ \A p \in PollsOf(c) : polls[p[1]][p[2]].date = last_sync[c]
  /\ inbox[c] \notin {None, {}} => PollsOf(c) = {}
  /\ \A w \in Worker, s \in Slot : AsksFor(w, s, c) => \A j \in Idx :
       /\ <<w, j>> \in PollsOf(c) => queries[w][s].asked[j] # None
       /\ queries[w][s].asked[j] # None /\ queries[w][s].asked[j].client = c =>
            queries[w][s].asked[j].date = last_sync[c]
UpToDate == \A c \in Client : UpToDateFor(c)

\* What is shown is not newer than last_sync, what comes is.
NewOnly == \A c \in Client :
  /\ \A t \in notified[c] : t.time <= last_sync[c]
  /\ \A N \in Answers(c) : \A t \in N : t.time > last_sync[c]

\* No client polls at one worker and has left a poll behind at another.
NoneElsewhere == \A c \in Client : \A p \in PollsOf(c) :
  listening[c] # None => listening[c][1] = p[1]

LEMMA TimesNat == TypeOK => \A c \in Client : last_sync[c] \in Nat
BY ConstantsAssumption DEF TypeOK, Date

\* What a worker answers is what was found for whom its polls belong to.
LEMMA Answered ==
  ASSUME TypeOK, Linked, NEW w \in Worker, NEW s \in Slot, HandleDbPollAnswer(w, s),
         NEW c \in Client
  PROVE  inbox'[c] = inbox[c] \/ inbox'[c] \in Answers(c)
<1> DEFINE asked == queries[w][s].asked
           group(i) == {t \in queries[w][s].trlist : t.recipient = Qrid(asked[i])}
           I == {i \in Idx : asked[i] # None /\ polls[w][i] # None /\ group(i) # {}}
<1>0. queries[w][s] # None /\ queries[w][s].trlist # None
  BY DEF HandleDbPollAnswer
<1>1. queries[w][s].trlist \in SUBSET Transaction
  <2>1. queries[w][s] \in Query
    BY <1>0 DEF TypeOK
  <2> QED
    BY <1>0, <2>1 DEF Query
<1>2. inbox' = [d \in Client |-> IF \E i \in I : listening[d] = <<w, i>>
                                   THEN group(listening[d][2]) ELSE inbox[d]]
  <2>1. Answer(w, [i \in I |-> group(i)])
    BY DEF HandleDbPollAnswer
  <2> HIDE DEF asked, group, I
  <2> QED
    BY <2>1 DEF Answer
<1>3. ASSUME NEW i \in I, listening[c] = <<w, i>> PROVE inbox'[c] \in Answers(c)
  <2>1. asked[i].client = c
    BY <1>0, <1>3 DEF Linked
  <2>2. group(i) = Own(c, queries[w][s].trlist)
    BY <2>1 DEF Qrid, Own
  <2>3. inbox'[c] = group(i)
    BY <1>2, <1>3
  <2>4. AsksFor(w, s, c)
    BY <1>0, <1>3 DEF AsksFor
  <2>5. Own(c, queries[w][s].trlist) \in SUBSET Transaction
    BY <1>1 DEF Own
  <2> QED
    BY <1>0, <2>2, <2>3, <2>4, <2>5 DEF Answers
<1> QED
  BY <1>2, <1>3
LEMMA AnswersKept ==
  ASSUME NEW c \in Client,
         inbox'[c] \in {inbox[c], None, {}} \cup Answers(c),
         \A w \in Worker, s \in Slot :
           AsksFor(w, s, c)' => AsksFor(w, s, c) /\ queries'[w][s] = queries[w][s]
  PROVE  \A N \in Answers(c)' : N \in Answers(c) \/ N = {}
<1> SUFFICES ASSUME NEW N \in Answers(c)' PROVE N \in Answers(c) \/ N = {}
  OBVIOUS
<1>1. N \in SUBSET Transaction /\ N # None
  BY ConstantsAssumption DEF Answers
<1>2. CASE N = inbox'[c]
  BY <1>1, <1>2 DEF Answers
<1>3. ASSUME NEW w \in Worker, NEW s \in Slot,
             AsksFor(w, s, c)', queries'[w][s].trlist # None, N = Own(c, queries'[w][s].trlist)
      PROVE  N \in Answers(c)
  <2>1. AsksFor(w, s, c) /\ queries'[w][s] = queries[w][s]
    BY <1>3
  <2> QED
    BY <1>1, <1>3, <2>1 DEF Answers
<1>4. \/ N = inbox'[c]
      \/ \E w \in Worker, s \in Slot :
           AsksFor(w, s, c)' /\ queries'[w][s].trlist # None /\ N = Own(c, queries'[w][s].trlist)
  BY DEF Answers, Own
<1> QED
  BY <1>2, <1>3, <1>4

\* An answer is there before, or has just been found; only the client itself
\* changes what it has shown, and then nothing is on its way any more.
LEMMA AnswersNext ==
  ASSUME TypeOK, Linked, [Next]_vars, NEW c \in Client
  PROVE  \/ Receive(c) /\ Answers(c)' = {}
         \/ /\ last_sync'[c] = last_sync[c] /\ notified'[c] = notified[c]
            /\ \A N \in Answers(c)' :
                 \/ N \in Answers(c) \/ N = {}
                 \/ \E w \in Worker, s \in Slot :
                      ExecuteQuery(w, s) /\ AsksFor(w, s, c) /\ N = Own(c, queries'[w][s].trlist)
<1> DEFINE Kept == \A w \in Worker, s \in Slot :
             AsksFor(w, s, c)' => AsksFor(w, s, c) /\ queries'[w][s] = queries[w][s]
           Same == last_sync'[c] = last_sync[c] /\ notified'[c] = notified[c]
           Heard == inbox'[c] \in {inbox[c], None, {}} \cup Answers(c)
           Goal == \/ Receive(c) /\ Answers(c)' = {}
                   \/ /\ Same
                      /\ \A N \in Answers(c)' :
                           \/ N \in Answers(c) \/ N = {}
                           \/ \E w \in Worker, s \in Slot :
                                /\ ExecuteQuery(w, s) /\ AsksFor(w, s, c)
                                /\ N = Own(c, queries'[w][s].trlist)
<1>0. Kept /\ Heard /\ Same => Goal
  BY AnswersKept
<1>1. ASSUME NEW d \in Client, NEW v \in Worker, NEW j \in Idx, Poll(d, v, j) PROVE Goal
  <2>1. Heard /\ Same
    BY <1>1 DEF Poll
  <2>2. CASE c = d
    <3>1. ASSUME NEW w \in Worker, NEW s \in Slot, AsksFor(w, s, c)' PROVE FALSE
      <4>1. PICK i \in Idx : listening'[c] = <<w, i>> /\ queries'[w][s] # None
                             /\ queries'[w][s].asked[i] # None
        BY <3>1 DEF AsksFor
      <4>2. v = w /\ j = i /\ queries' = queries
        BY <1>1, <2>2, <4>1 DEF Poll, TypeOK
      <4> QED
        BY <1>1, <4>1, <4>2 DEF Poll, Unused
    <3> QED
      BY <1>0, <2>1, <3>1
  <2>3. CASE c # d
    <3>1. listening'[c] = listening[c] /\ queries' = queries
      BY <1>1, <2>3 DEF Poll, TypeOK
    <3> QED
      BY <1>0, <2>1, <3>1 DEF AsksFor
  <2> QED
    BY <2>2, <2>3
<1>2. ASSUME NEW v \in Worker, NEW j \in Idx, PollTimeout(v, j) PROVE Goal
  <2>1. inbox'[c] \in {inbox[c], {}}
    BY <1>2 DEF PollTimeout, Answer
  <2>2. Kept /\ Same
    BY <1>2 DEF PollTimeout, AsksFor
  <2> QED
    BY <1>0, <2>1, <2>2
<1>3. ASSUME NEW v \in Worker, NEW s \in Slot, Tick(v, s) PROVE Goal
  <2>1. Heard /\ Same
    BY <1>3 DEF Tick, client
  <2>2. ASSUME NEW N \in Answers(c)' PROVE N \in Answers(c)
    <3>1. \A w \in Worker, q \in Slot :
            \/ queries'[w][q] = queries[w][q]
            \/ queries'[w][q].trlist = None
      BY <1>3 DEF Tick, TypeOK
    <3>2. N \in SUBSET Transaction /\ inbox' = inbox /\ listening' = listening
      BY <1>3, <2>2 DEF Tick, client, Answers
    <3>3. \/ N = inbox'[c]
          \/ \E w \in Worker, q \in Slot :
               /\ AsksFor(w, q, c)' /\ queries'[w][q].trlist # None
               /\ N = Own(c, queries'[w][q].trlist)
      BY <2>2 DEF Answers, Own
    <3>4. ASSUME NEW w \in Worker, NEW q \in Slot, AsksFor(w, q, c)',
                 queries'[w][q].trlist # None, N = Own(c, queries'[w][q].trlist)
          PROVE  N \in Answers(c)
      <4>1. queries'[w][q] = queries[w][q]
        BY <3>1, <3>4
      <4>2. AsksFor(w, q, c)
        BY <3>2, <3>4, <4>1 DEF AsksFor
      <4> QED
        BY <3>2, <3>4, <4>1, <4>2 DEF Answers
    <3>5. CASE N = inbox'[c]
      BY <3>2, <3>5 DEF Answers
    <3> QED
      BY <3>3, <3>4, <3>5
  <2> QED
    BY <2>1, <2>2
<1>4. ASSUME NEW v \in Worker, NEW s \in Slot, ExecuteQuery(v, s) PROVE Goal
  <2>1. Same /\ inbox' = inbox /\ listening' = listening
    BY <1>4 DEF ExecuteQuery, client
  <2>2. PICK M : queries' = [queries EXCEPT ![v][s].trlist = M]
    BY <1>4 DEF ExecuteQuery
  <2>3. queries[v][s] \in Query
    BY <1>4 DEF ExecuteQuery, TypeOK
  <2>4. /\ \A w \in Worker, q \in Slot : ~(w = v /\ q = s) => queries'[w][q] = queries[w][q]
        /\ queries'[v][s] = [queries[v][s] EXCEPT !.trlist = M]
    BY <2>2 DEF TypeOK
  <2>5. queries'[v][s].asked = queries[v][s].asked /\ queries[v][s] # None
    BY <1>4, <2>3, <2>4 DEF Query, ExecuteQuery
  <2>6. \A w \in Worker, q \in Slot : AsksFor(w, q, c)' => AsksFor(w, q, c)
    <3>1. ASSUME NEW w \in Worker, NEW q \in Slot
          PROVE  queries'[w][q] # None => /\ queries[w][q] # None
                                          /\ queries'[w][q].asked = queries[w][q].asked
      <4>1. CASE w = v /\ q = s
        BY <2>5, <4>1
      <4>2. CASE ~(w = v /\ q = s)
        BY <2>4, <4>2
      <4> QED
        BY <4>1, <4>2
    <3> QED
      BY <2>1, <3>1 DEF AsksFor
  <2>7. ASSUME NEW N \in Answers(c)'
        PROVE  \/ N \in Answers(c)
               \/ AsksFor(v, s, c) /\ N = Own(c, queries'[v][s].trlist)
    <3>1. \/ N = inbox'[c]
          \/ \E w \in Worker, q \in Slot :
               /\ AsksFor(w, q, c)' /\ queries'[w][q].trlist # None
               /\ N = Own(c, queries'[w][q].trlist)
      BY <2>7 DEF Answers, Own
    <3>2. N \in SUBSET Transaction
      BY <2>7 DEF Answers
    <3>3. CASE N = inbox'[c]
      BY <2>1, <3>2, <3>3 DEF Answers
    <3>4. ASSUME NEW w \in Worker, NEW q \in Slot, AsksFor(w, q, c)',
                 queries'[w][q].trlist # None, N = Own(c, queries'[w][q].trlist)
          PROVE  N \in Answers(c) \/ (AsksFor(v, s, c) /\ N = Own(c, queries'[v][s].trlist))
      <4>1. CASE w = v /\ q = s
        BY <2>6, <3>4, <4>1
      <4>2. CASE ~(w = v /\ q = s)
        <5>1. queries'[w][q] = queries[w][q] /\ AsksFor(w, q, c)
          BY <2>4, <2>6, <3>4, <4>2
        <5> QED
          BY <3>2, <3>4, <5>1 DEF Answers
      <4> QED
        BY <4>1, <4>2
    <3> QED
      BY <3>1, <3>3, <3>4
  <2> QED
    BY <1>4, <2>1, <2>7
<1>5. ASSUME NEW v \in Worker, NEW s \in Slot, HandleDbPollAnswer(v, s) PROVE Goal
  <2>1. Heard
    BY <1>5, Answered
  <2>2. Same /\ listening' = listening
    BY <1>5 DEF HandleDbPollAnswer
  <2>3. \A w \in Worker, q \in Slot : queries'[w][q] \in {None, queries[w][q]}
    BY <1>5 DEF HandleDbPollAnswer, TypeOK
  <2>4. Kept
    BY <2>2, <2>3 DEF AsksFor
  <2> QED
    BY <1>0, <2>1, <2>2, <2>4
<1>6. ASSUME NEW d \in Client, Receive(d) PROVE Goal
  <2>1. CASE c = d
    <3>1. inbox'[c] = None /\ listening'[c] = None
      BY <1>6, <2>1 DEF Receive, TypeOK
    <3>2. \A w \in Worker, i \in Idx : <<w, i>> # None
      BY ConstantsAssumption
    <3>3. \A w \in Worker, s \in Slot : ~AsksFor(w, s, c)'
      BY <3>1, <3>2 DEF AsksFor
    <3>4. \A N \in SUBSET Transaction : N # inbox'[c]
      BY <3>1, ConstantsAssumption
    <3>5. Answers(c)' = {}
      BY <3>3, <3>4 DEF Answers
    <3> QED
      BY <1>6, <2>1, <3>5
  <2>2. CASE c # d
    <3>1. /\ listening'[c] = listening[c] /\ inbox'[c] = inbox[c] /\ queries' = queries
          /\ Same
      BY <1>6, <2>2 DEF Receive, Hear, TypeOK
    <3> QED
      BY <1>0, <3>1 DEF AsksFor
  <2> QED
    BY <2>1, <2>2
<1>7. ASSUME NEW t \in Transaction, Insert(t) PROVE Goal
  <2>1. Heard /\ Same /\ Kept
    BY <1>7 DEF Insert, client, AsksFor
  <2> QED
    BY <1>0, <2>1
<1>8. ASSUME NEW d \in Client, Disconnect(d) PROVE Goal
  <2>1. inbox'[c] \in {inbox[c], None} /\ Same
    BY <1>8 DEF Disconnect, TypeOK
  <2>2. listening'[c] \in {listening[c], None} /\ queries' = queries
    BY <1>8 DEF Disconnect, TypeOK
  <2>3. Kept
    BY <2>2, ConstantsAssumption DEF AsksFor
  <2> QED
    BY <1>0, <2>1, <2>3
<1>9. ASSUME NEW v \in Worker, NEW s \in Slot, QueryFails(v, s) PROVE Goal
  <2>1. Heard /\ Same /\ listening' = listening
    BY <1>9 DEF QueryFails, client
  <2>2. \A w \in Worker, q \in Slot : queries'[w][q] \in {None, queries[w][q]}
    BY <1>9 DEF QueryFails, TypeOK
  <2> QED
    BY <1>0, <2>1, <2>2 DEF AsksFor
<1>10. ASSUME NEW v \in Worker, Crash(v) PROVE Goal
  <2>1. Heard /\ Same
    BY <1>10 DEF Crash
  <2>2. \A w \in Worker, q \in Slot : queries'[w][q] \in {None, queries[w][q]}
    BY <1>10 DEF Crash, TypeOK
  <2>3. listening'[c] \in {listening[c], None}
    BY <1>10 DEF Crash
  <2>4. Kept
    BY <2>2, <2>3, ConstantsAssumption DEF AsksFor
  <2> QED
    BY <1>0, <2>1, <2>4
<1>11. CASE UNCHANGED vars
  <2>1. Heard /\ Same /\ Kept
    BY <1>11 DEF vars, AsksFor
  <2> QED
    BY <1>0, <2>1
<1> QED
  BY <1>1, <1>2, <1>3, <1>4, <1>5, <1>6, <1>7, <1>8, <1>9, <1>10, <1>11 DEF Next
-----------------------------------------------------------------------------
(* last_sync *)

LEMMA Grows == [Next]_vars => transactions \subseteq transactions'
<1> SUFFICES ASSUME [Next]_vars PROVE transactions \subseteq transactions'
  OBVIOUS
<1>1. CASE \E t \in Transaction : Insert(t)
  BY <1>1 DEF Insert
<1>2. CASE UNCHANGED transactions
  BY <1>2
<1>3. \/ \E t \in Transaction : Insert(t)
      \/ UNCHANGED transactions
  BY DEF Next, vars, client, Poll, Receive, Disconnect, PollTimeout, Tick, ExecuteQuery,
         HandleDbPollAnswer, QueryFails, Crash
<1> QED
  BY <1>1, <1>2, <1>3

\* The database looks for what is newer than last_sync, and for more if another
\* poll of the account is older.
LEMMA Found ==
  ASSUME TypeOK, Linked, NEW w \in Worker, NEW s \in Slot, ExecuteQuery(w, s),
         NEW c \in Client, AsksFor(w, s, c)
  PROVE  \E N \in SUBSET Matching(queries[w][s].asked) :
           /\ IsNewest(N, Matching(queries[w][s].asked))
           /\ queries'[w][s].trlist = N
           /\ Matching(queries[w][s].asked) \ N \subseteq cut'
           /\ Matching(queries[w][s].asked) \subseteq transactions
           /\ \A t \in Own(c, transactions) :
                t.time > last_sync[c] => t \in Matching(queries[w][s].asked)
           /\ \A t, u \in Own(c, transactions) :
                t \in Matching(queries[w][s].asked) /\ u.time > t.time
                  => u \in Matching(queries[w][s].asked)
<1> DEFINE asked == queries[w][s].asked
<1>1. PICK N \in SUBSET Matching(asked) :
        /\ IsNewest(N, Matching(asked)) /\ queries' = [queries EXCEPT ![w][s].trlist = N]
        /\ Matching(asked) \ N \subseteq cut'
  BY DEF ExecuteQuery
<1>2. queries[w][s] \in Query
  BY DEF ExecuteQuery, TypeOK
<1>3. queries'[w][s].trlist = N
  BY <1>1, <1>2 DEF TypeOK, Query
<1>4. PICK i \in Idx : listening[c] = <<w, i>> /\ queries[w][s] # None /\ asked[i] # None
  BY DEF AsksFor
<1>5. asked[i].client = c /\ asked[i].date = last_sync[c]
  BY <1>4 DEF Linked
<1> HIDE DEF asked
<1>6. \A t \in Own(c, transactions) : t.time > last_sync[c] => t \in Matching(asked)
  BY <1>4, <1>5 DEF Matching, Own, Qrid
<1>7. Matching(asked) \subseteq transactions
  BY DEF Matching
<1>8. ASSUME NEW t \in Own(c, transactions), NEW u \in Own(c, transactions),
             t \in Matching(asked), u.time > t.time
      PROVE  u \in Matching(asked)
  <2>1. PICK j \in Idx : asked[j] # None /\ Qrid(asked[j]) = t.recipient /\ t.time > asked[j].date
    BY <1>8 DEF Matching
  <2>2. asked[j].date \in Nat /\ t.time \in Nat /\ u.time \in Nat
    <3>1. asked[j] \in PollEntry
      BY <1>2, <2>1 DEF Query, asked
    <3>2. asked[j].date \in Nat
      BY <3>1, ConstantsAssumption DEF PollEntry, Date
    <3> QED
      BY <3>2, ConstantsAssumption DEF Own, TypeOK
  <2>3. u.time > asked[j].date
    BY <1>8, <2>1, <2>2
  <2> QED
    BY <2>1, <2>3 DEF Matching, Own
<1> QED
  BY <1>1, <1>3, <1>6, <1>7, <1>8 DEF asked

SyncInv == TypeOK /\ Linked /\ Real /\ Synced

LEMMA InboxAnswers ==
  ASSUME TypeOK, NEW c \in Client, inbox[c] # None
  PROVE  inbox[c] \in Answers(c)
BY DEF TypeOK, Answers

LEMMA RealNext == TypeOK /\ Linked /\ Real /\ [Next]_vars => Real'
<1> SUFFICES ASSUME TypeOK, Linked, Real, [Next]_vars, NEW c \in Client, NEW N \in Answers(c)'
             PROVE  N \subseteq Own(c, transactions')
  BY DEF Real, Own
<1>1. Own(c, transactions) \subseteq Own(c, transactions')
  BY Grows DEF Own
<1>2. CASE N \in Answers(c)
  BY <1>1, <1>2 DEF Real
<1>3. ASSUME NEW w \in Worker, NEW s \in Slot, ExecuteQuery(w, s), AsksFor(w, s, c),
             N = Own(c, queries'[w][s].trlist)
      PROVE  N \subseteq Own(c, transactions)
  <2>1. queries'[w][s].trlist \subseteq transactions
    BY <1>3, Found
  <2> QED
    BY <1>3, <2>1 DEF Own
<1> QED
  BY <1>1, <1>2, <1>3, AnswersNext

\* The first half of Synced: whatever is heard is in the database.
LEMMA SyncedTimeNext ==
  ASSUME SyncInv, [Next]_vars, NEW c \in Client
  PROVE  last_sync'[c] = 0 \/ \E t \in Own(c, transactions') : t.time = last_sync'[c]
<1>1. Own(c, transactions) \subseteq Own(c, transactions')
  BY Grows DEF Own
<1>2. CASE last_sync'[c] = last_sync[c]
  BY <1>1, <1>2 DEF SyncInv, Synced
<1>3. CASE Receive(c) /\ last_sync'[c] # last_sync[c]
  <2>1. inbox[c] # None /\ Hear(c)
    BY <1>3 DEF Receive, SyncInv, TypeOK
  <2>2. PICK t \in inbox[c] : last_sync' = [last_sync EXCEPT ![c] = t.time]
    BY <2>1 DEF Hear
  <2>3. t \in Own(c, transactions)
    BY <2>1, InboxAnswers DEF SyncInv, Real
  <2>4. last_sync'[c] = t.time
    BY <2>2 DEF SyncInv, TypeOK
  <2> QED
    BY <1>1, <2>3, <2>4
<1> QED
  BY <1>2, <1>3, AnswersNext DEF SyncInv

\* An answer is cut at its old end: if it has news of c at all, it has what is as
\* new as last_sync, even when an older poll of the account widens the query.
LEMMA FoundAhead ==
  ASSUME SyncInv, NEW w \in Worker, NEW s \in Slot, ExecuteQuery(w, s),
         NEW c \in Client, AsksFor(w, s, c), Own(c, queries'[w][s].trlist) # {}
  PROVE  \E t \in Own(c, queries'[w][s].trlist) : t.time >= last_sync[c]
<1> DEFINE S == Matching(queries[w][s].asked)
           N == queries'[w][s].trlist
<1>1. /\ N \subseteq S /\ IsNewest(N, S) /\ S \subseteq transactions
      /\ \A t, u \in Own(c, transactions) : t \in S /\ u.time > t.time => u \in S
  BY Found DEF SyncInv
<1> HIDE DEF S, N
<1>2. PICK t \in Own(c, N) : TRUE
  BY DEF N
<1>3. t \in N /\ t \in S /\ t \in Own(c, transactions) /\ t.time \in Nat
  BY <1>1, <1>2, ConstantsAssumption DEF Own, SyncInv, TypeOK
<1>4. last_sync[c] \in Nat
  BY TimesNat DEF SyncInv
<1>5. CASE t.time >= last_sync[c]
  BY <1>2, <1>5 DEF N
<1>6. CASE ~(t.time >= last_sync[c])
  <2>1. last_sync[c] # 0
    BY <1>3, <1>4, <1>6
  <2>2. PICK u \in Own(c, transactions) : u.time = last_sync[c]
    BY <2>1 DEF SyncInv, Synced
  <2>3. u \in S
    BY <1>1, <1>3, <1>4, <1>6, <2>2
  <2>4. u \in N
    BY <1>1, <1>3, <1>4, <1>6, <2>2, <2>3 DEF IsNewest
  <2>5. u \in Own(c, N)
    BY <2>2, <2>4 DEF Own
  <2> QED
    BY <1>4, <2>2, <2>5 DEF N
<1> QED
  BY <1>5, <1>6

LEMMA SyncNext == SyncInv /\ [Next]_vars => SyncInv'
<1> SUFFICES ASSUME SyncInv, [Next]_vars PROVE SyncInv'
  OBVIOUS
<1>1. TypeOK' /\ Linked' /\ Real'
  BY TypeNext, LinkedNext, RealNext DEF SyncInv
<1>2. ASSUME NEW c \in Client, NEW N \in Answers(c)', N # {}
      PROVE  \E t \in N : t.time >= last_sync'[c]
  <2>1. /\ last_sync'[c] = last_sync[c]
        /\ \/ N \in Answers(c)
           \/ \E w \in Worker, s \in Slot :
                ExecuteQuery(w, s) /\ AsksFor(w, s, c) /\ N = Own(c, queries'[w][s].trlist)
    BY <1>2, AnswersNext DEF SyncInv
  <2>2. CASE N \in Answers(c)
    BY <1>2, <2>1, <2>2 DEF SyncInv, Synced
  <2> QED
    BY <1>2, <2>1, <2>2, FoundAhead
<1>3. Synced'
  BY <1>2, SyncedTimeNext DEF Synced
<1> QED
  BY <1>1, <1>3 DEF SyncInv

LEMMA SyncInit == Init => SyncInv
<1> SUFFICES ASSUME Init PROVE SyncInv
  OBVIOUS
<1>1. TypeOK
  BY TypeInit
<1>2. Linked
  BY ConstantsAssumption DEF Init, Linked
<1>3. \A c \in Client : Answers(c) = {}
  BY ConstantsAssumption DEF Init, Answers, AsksFor
<1> QED
  BY <1>1, <1>2, <1>3 DEF Init, SyncInv, Real, Synced

\* last_sync never goes back, for any clients, workers, polls and crashes, and
\* although every answer may be cut to poll_max transactions and may be wider than
\* what its client asked for (common.js: last_sync is the first of the list).
THEOREM SyncAdvancesTheorem == Spec => SyncAdvances
<1>1. SyncInv /\ [Next]_vars => [\A c \in Client : last_sync'[c] >= last_sync[c]]_vars
  <2> SUFFICES ASSUME SyncInv, [Next]_vars, NEW c \in Client
               PROVE  last_sync'[c] >= last_sync[c]
    OBVIOUS
  <2>1. last_sync[c] \in Nat /\ last_sync'[c] \in Nat
    <3>1. last_sync'[c] \in Date
      BY TypeNext DEF SyncInv, TypeOK
    <3>2. Date \subseteq Nat
      BY ConstantsAssumption DEF Date
    <3> QED
      BY <3>1, <3>2, TimesNat DEF SyncInv
  <2>2. CASE last_sync'[c] = last_sync[c]
    BY <2>1, <2>2
  <2>3. CASE Receive(c) /\ last_sync'[c] # last_sync[c]
    <3>1. inbox[c] # None /\ inbox[c] # {} /\ Hear(c)
      BY <2>3 DEF Receive, SyncInv, TypeOK
    <3>2. PICK t \in inbox[c] : /\ \A u \in inbox[c] : t.time >= u.time
                                /\ last_sync' = [last_sync EXCEPT ![c] = t.time]
      BY <3>1 DEF Hear
    <3>3. PICK u \in inbox[c] : u.time >= last_sync[c]
      BY <3>1, InboxAnswers DEF SyncInv, Synced
    <3>4. inbox[c] \subseteq Transaction
      BY <3>1 DEF SyncInv, TypeOK
    <3>5. t.time \in Nat /\ u.time \in Nat
      BY <3>4, ConstantsAssumption
    <3>6. last_sync'[c] = t.time
      BY <3>2 DEF SyncInv, TypeOK
    <3> QED
      BY <2>1, <3>2, <3>3, <3>5, <3>6
  <2> QED
    BY <2>2, <2>3, AnswersNext DEF SyncInv
<1> QED
  BY <1>1, SyncInit, SyncNext, PTL DEF Spec, SyncAdvances
-----------------------------------------------------------------------------
(* Nothing is skipped *)

GapInv == SyncInv /\ Complete /\ NoGap

\* Only an insertion adds transactions, and marks those that are behind; only the
\* database's answer marks what it cuts off.
LEMMA Marked ==
  ASSUME [Next]_vars
  PROVE  /\ late \subseteq late' /\ cut \subseteq cut'
         /\ \A t \in transactions' \ transactions : t \in late' \/ ~Behind(t)
<1> DEFINE Goal == /\ late \subseteq late' /\ cut \subseteq cut'
                   /\ \A t \in transactions' \ transactions : t \in late' \/ ~Behind(t)
<1>1. ASSUME NEW t \in Transaction, Insert(t) PROVE Goal
  BY <1>1 DEF Insert
<1>2. ASSUME NEW w \in Worker, NEW s \in Slot, ExecuteQuery(w, s)
      PROVE  Goal
  BY <1>2 DEF ExecuteQuery
<1>3. UNCHANGED database => Goal
  OBVIOUS
<1>4. ASSUME NEW c \in Client, Receive(c) \/ Disconnect(c) PROVE Goal
  BY <1>3, <1>4 DEF Receive, Disconnect
<1>a. ASSUME NEW c \in Client, NEW w \in Worker, NEW i \in Idx, Poll(c, w, i) PROVE Goal
  BY <1>3, <1>a DEF Poll
<1>5. ASSUME NEW w \in Worker, NEW i \in Idx, PollTimeout(w, i) PROVE Goal
  BY <1>3, <1>5 DEF PollTimeout
<1>6. ASSUME NEW w \in Worker, NEW s \in Slot,
             Tick(w, s) \/ HandleDbPollAnswer(w, s) \/ QueryFails(w, s)
      PROVE  Goal
  BY <1>3, <1>6 DEF Tick, HandleDbPollAnswer, QueryFails
<1>7. ASSUME NEW w \in Worker, Crash(w) PROVE Goal
  BY <1>3, <1>7 DEF Crash
<1>8. CASE UNCHANGED vars
  BY <1>3, <1>8 DEF vars
<1> QED
  BY <1>1, <1>2, <1>4, <1>a, <1>5, <1>6, <1>7, <1>8 DEF Next

LEMMA CompleteNext ==
  ASSUME GapInv, [Next]_vars
  PROVE  Complete'
<1> SUFFICES ASSUME NEW c \in Client, NEW N \in Answers(c)',
                    NEW t \in Own(c, transactions' \ (late' \cup cut')), t.time > last_sync'[c]
             PROVE  t \in N \/ \A u \in N : u.time < t.time
  BY DEF Complete, Own
<1>0. TypeOK /\ Linked /\ Real
  BY DEF GapInv, SyncInv
<1>1. /\ last_sync'[c] = last_sync[c]
      /\ \/ N \in Answers(c) \/ N = {}
         \/ \E w \in Worker, s \in Slot :
              ExecuteQuery(w, s) /\ AsksFor(w, s, c) /\ N = Own(c, queries'[w][s].trlist)
  BY <1>0, AnswersNext
<1>2. CASE N \in Answers(c) /\ t \in transactions
  <2>1. t \in Own(c, transactions \ (late \cup cut))
    BY <1>2, Marked DEF Own
  <2> QED
    BY <1>1, <1>2, <2>1 DEF GapInv, Complete
<1>3. CASE N \in Answers(c) /\ t \notin transactions
  <2>1. t.recipient = QridOf[c] /\ ~Behind(t)
    BY <1>3, Marked DEF Own
  <2>2. N \subseteq Own(c, transactions)
    BY <1>0, <1>3 DEF Real
  <2>3. \A u \in N : u.time \in Nat /\ t.time \in Nat
    BY <1>0, <2>2, TypeNext, ConstantsAssumption DEF Own, TypeOK
  <2>4. \A u \in N : ~(u.time >= t.time)
    BY <2>1, <2>2 DEF Own, Behind
  <2> QED
    BY <2>3, <2>4
<1>4. ASSUME NEW w \in Worker, NEW s \in Slot, ExecuteQuery(w, s), AsksFor(w, s, c),
             N = Own(c, queries'[w][s].trlist)
      PROVE  t \in N
  <2> DEFINE S == Matching(queries[w][s].asked)
  <2>1. PICK M \in SUBSET S :
          /\ queries'[w][s].trlist = M /\ S \ M \subseteq cut'
          /\ \A u \in Own(c, transactions) : u.time > last_sync[c] => u \in S
    BY <1>0, <1>4, Found
  <2> HIDE DEF S
  <2>2. transactions' = transactions
    BY <1>4 DEF ExecuteQuery
  <2>3. t \in S /\ t \notin cut' /\ t.recipient = QridOf[c]
    BY <1>1, <2>1, <2>2 DEF Own
  <2> QED
    BY <1>4, <2>1, <2>3 DEF Own
<1>5. CASE N = {}
  BY <1>5
<1> QED
  BY <1>1, <1>2, <1>3, <1>4, <1>5

LEMMA NoGapNext ==
  ASSUME GapInv, [Next]_vars
  PROVE  NoGap'
<1> SUFFICES ASSUME NEW c \in Client, NEW t \in transactions' \ (late' \cup cut'),
                    t.recipient = QridOf[c], t.time <= last_sync'[c]
             PROVE  t \in notified'[c]
  BY DEF NoGap, Missed
<1>m. t \notin late \cup cut /\ (t \notin transactions => ~Behind(t))
  BY Marked
<1>0. TypeOK /\ Linked /\ Real /\ Synced
  BY DEF GapInv, SyncInv
<1>1. transactions' \subseteq Transaction
  BY <1>0, TypeNext DEF TypeOK
<1>2. t.time \in Nat \ {0} /\ last_sync[c] \in Nat
  BY <1>0, <1>1, TimesNat, ConstantsAssumption
<1>3. CASE Receive(c)
  <2>1. inbox[c] # None /\ inbox[c] \subseteq Transaction /\ transactions' = transactions
    BY <1>0, <1>3 DEF Receive, TypeOK
  <2>2. CASE inbox[c] = {}
    <3>1. last_sync' = last_sync /\ notified' = notified
      BY <1>3, <2>2 DEF Receive
    <3> QED
      BY <1>m, <2>1, <3>1 DEF GapInv, NoGap, Missed
  <2>3. CASE inbox[c] # {}
    <3>1. Hear(c) /\ notified'[c] = notified[c] \cup inbox[c]
      BY <1>0, <1>3, <2>3 DEF Receive, TypeOK
    <3>2. PICK u \in inbox[c] : last_sync' = [last_sync EXCEPT ![c] = u.time]
      BY <3>1 DEF Hear
    <3>3. last_sync'[c] = u.time /\ u.time \in Nat
      BY <1>0, <2>1, <3>2, ConstantsAssumption DEF TypeOK
    <3>4. CASE t.time <= last_sync[c]
      BY <1>m, <2>1, <3>1, <3>4 DEF GapInv, NoGap, Missed
    <3>5. CASE ~(t.time <= last_sync[c])
      <4>1. t.time > last_sync[c] /\ t \in Own(c, transactions \ (late \cup cut))
        BY <1>2, <1>m, <2>1, <3>5 DEF Own
      <4>2. inbox[c] \in Answers(c)
        BY <1>0, <2>1, InboxAnswers
      <4>3. t \in inbox[c] \/ \A v \in inbox[c] : v.time < t.time
        BY <4>1, <4>2 DEF GapInv, Complete
      <4>4. ~(u.time < t.time)
        BY <1>2, <3>3
      <4> QED
        BY <3>1, <3>2, <4>3, <4>4
    <3> QED
      BY <3>4, <3>5
  <2> QED
    BY <2>2, <2>3
<1>4. CASE last_sync'[c] = last_sync[c] /\ notified'[c] = notified[c]
  <2>1. CASE t \in transactions
    BY <1>m, <1>4, <2>1 DEF GapInv, NoGap, Missed
  <2>2. CASE t \notin transactions
    <3>1. last_sync[c] # 0
      BY <1>2, <1>4
    <3>2. PICK u \in Own(c, transactions) : u.time = last_sync[c]
      BY <1>0, <3>1 DEF Synced
    <3>3. ~(u.time >= t.time)
      BY <1>m, <2>2, <3>2 DEF Behind, Own
    <3> QED
      BY <1>2, <1>4, <3>2, <3>3
  <2> QED
    BY <2>1, <2>2
<1> QED
  BY <1>0, <1>3, <1>4, AnswersNext

\* What a client has not been shown although last_sync has passed it appeared behind
\* the time of another one or was cut off by poll_max: no timeout, crash, lost answer
\* or abandoned poll loses a payment, whatever times they come with and however many
\* of them a query finds.
THEOREM NoGapTheorem == Spec => []NoGap
<1>1. Init => GapInv
  <2> SUFFICES ASSUME Init PROVE GapInv
    OBVIOUS
  <2>1. transactions = {} /\ SyncInv
    BY SyncInit DEF Init
  <2> QED
    BY <2>1 DEF GapInv, Complete, NoGap, Missed, Own
<1>2. GapInv /\ [Next]_vars => GapInv'
  BY SyncNext, CompleteNext, NoGapNext DEF GapInv
<1>3. GapInv => NoGap
  BY DEF GapInv
<1> QED
  BY <1>1, <1>2, <1>3, PTL DEF Spec
-----------------------------------------------------------------------------
(* Nothing is shown twice *)

OneAppPerAccount == \A c, d \in Client : QridOf[c] = QridOf[d] => c = d

OnceInv == SyncInv /\ SamePoll /\ Waiting /\ UpToDate /\ NewOnly /\ NotifiedOnce

LEMMA SamePollNext == TypeOK /\ SamePoll /\ [Next]_vars => SamePoll'
<1> SUFFICES ASSUME TypeOK, SamePoll, [Next]_vars,
                    NEW w \in Worker, NEW i \in Idx, NEW s \in Slot,
                    queries'[w][s] # None, queries'[w][s].asked[i] # None, polls'[w][i] # None
             PROVE  queries'[w][s].asked[i].client = polls'[w][i].client
  BY DEF SamePoll
<1>1. ASSUME NEW d \in Client, NEW v \in Worker, NEW j \in Idx, Poll(d, v, j)
      PROVE  queries'[w][s].asked[i].client = polls'[w][i].client
  <2>1. queries' = queries /\ queries[v][s] # None => queries[v][s].asked[j] = None
    BY <1>1 DEF Poll, Unused
  <2>2. ~(v = w /\ j = i)
    BY <1>1, <2>1 DEF Poll, Unused
  <2>3. polls'[w][i] = polls[w][i]
    BY <1>1, <2>2 DEF Poll, TypeOK
  <2> QED
    BY <1>1, <2>3 DEF Poll, SamePoll
<1>2. ASSUME NEW v \in Worker, NEW q \in Slot, Tick(v, q)
      PROVE  queries'[w][s].asked[i].client = polls'[w][i].client
  <2>1. polls' = polls
    BY <1>2 DEF Tick
  <2>2. CASE w = v /\ s = q
    <3>1. queries'[w][s].asked = polls[w]
      BY <1>2, <2>2 DEF Tick, TypeOK
    <3> QED
      BY <2>1, <3>1
  <2>3. CASE ~(w = v /\ s = q)
    <3>1. queries'[w][s] = queries[w][s]
      BY <1>2, <2>3 DEF Tick, TypeOK
    <3> QED
      BY <2>1, <3>1 DEF SamePoll
  <2> QED
    BY <2>2, <2>3
<1>3. ASSUME NEW v \in Worker, NEW q \in Slot, ExecuteQuery(v, q)
      PROVE  queries'[w][s].asked[i].client = polls'[w][i].client
  <2>1. PICK N : queries' = [queries EXCEPT ![v][q].trlist = N]
    BY <1>3 DEF ExecuteQuery
  <2>2. queries[v][q] \in Query
    BY <1>3 DEF ExecuteQuery, TypeOK
  <2>3. queries'[w][s].asked = queries[w][s].asked /\ queries[w][s] # None
    <3>1. CASE w = v /\ s = q
      BY <1>3, <2>1, <2>2, <3>1 DEF ExecuteQuery, TypeOK, Query
    <3>2. CASE ~(w = v /\ s = q)
      BY <2>1, <3>2 DEF TypeOK
    <3> QED
      BY <3>1, <3>2
  <2> QED
    BY <1>3, <2>3 DEF ExecuteQuery, SamePoll
<1>4. ASSUME NEW v \in Worker, NEW q \in Slot, HandleDbPollAnswer(v, q)
      PROVE  queries'[w][s].asked[i].client = polls'[w][i].client
  <2>1. polls[w][i] # None /\ polls'[w][i].client = polls[w][i].client
    <3>1. \/ polls'[w][i] = polls[w][i]
          \/ polls[w][i] # None /\ polls'[w][i] = [polls[w][i] EXCEPT !.due = TRUE]
      BY <1>4 DEF HandleDbPollAnswer, TypeOK
    <3> QED
      BY <3>1 DEF TypeOK, PollEntry
  <2>2. queries'[w][s] = queries[w][s]
    BY <1>4 DEF HandleDbPollAnswer, TypeOK
  <2> QED
    BY <2>1, <2>2 DEF SamePoll
<1>5. CASE /\ \A v \in Worker, j \in Idx : polls'[v][j] \in {None, polls[v][j]}
           /\ \A v \in Worker, q \in Slot : queries'[v][q] \in {None, queries[v][q]}
  BY <1>5 DEF SamePoll
<1>6. ASSUME NEW v \in Worker, NEW j \in Idx, PollTimeout(v, j)
      PROVE  queries'[w][s].asked[i].client = polls'[w][i].client
  BY <1>5, <1>6 DEF PollTimeout, TypeOK
<1>7. ASSUME NEW v \in Worker, NEW q \in Slot, QueryFails(v, q)
      PROVE  queries'[w][s].asked[i].client = polls'[w][i].client
  BY <1>5, <1>7 DEF QueryFails, TypeOK
<1>8. ASSUME NEW v \in Worker, Crash(v)
      PROVE  queries'[w][s].asked[i].client = polls'[w][i].client
  BY <1>5, <1>8 DEF Crash, TypeOK
<1>9. CASE UNCHANGED <<polls, queries>>
  BY <1>5, <1>9
<1>10. ASSUME NEW d \in Client, Receive(d) \/ Disconnect(d) PROVE UNCHANGED <<polls, queries>>
  BY <1>10 DEF Receive, Disconnect
<1>11. ASSUME NEW t \in Transaction, Insert(t) PROVE UNCHANGED <<polls, queries>>
  BY <1>11 DEF Insert
<1>12. CASE UNCHANGED vars
  BY <1>9, <1>12 DEF vars
<1> QED
  BY <1>1, <1>2, <1>3, <1>4, <1>6, <1>7, <1>8, <1>9, <1>10, <1>11, <1>12 DEF Next

LEMMA WaitingNext == TypeOK /\ Waiting /\ [Next]_vars => Waiting'
<1> SUFFICES ASSUME TypeOK, Waiting, [Next]_vars, NEW c \in Client, inbox'[c] # None
             PROVE  listening'[c] # None
  BY DEF Waiting
<1> DEFINE Goal == listening'[c] # None
<1>0. \A w \in Worker, i \in Idx : <<w, i>> # None
  BY ConstantsAssumption
<1>1. ASSUME NEW d \in Client, NEW v \in Worker, NEW j \in Idx, Poll(d, v, j) PROVE Goal
  BY <1>0, <1>1 DEF Poll, Waiting, TypeOK
<1>2. ASSUME NEW v \in Worker, NEW j \in Idx, PollTimeout(v, j) PROVE Goal
  <2>1. (\E i \in Idx : listening[c] = <<v, i>>) \/ inbox'[c] = inbox[c]
    BY <1>2 DEF PollTimeout, Answer
  <2> QED
    BY <1>0, <1>2, <2>1 DEF PollTimeout, Waiting
<1>3. ASSUME NEW v \in Worker, NEW s \in Slot, HandleDbPollAnswer(v, s) PROVE Goal
  <2>1. (\E i \in Idx : listening[c] = <<v, i>>) \/ inbox'[c] = inbox[c]
    BY <1>3 DEF HandleDbPollAnswer, Answer
  <2> QED
    BY <1>0, <1>3, <2>1 DEF HandleDbPollAnswer, Waiting
<1>4. ASSUME NEW d \in Client, Receive(d) \/ Disconnect(d) PROVE Goal
  BY <1>4 DEF Receive, Disconnect, Waiting, TypeOK
<1>5. ASSUME NEW v \in Worker, Crash(v) PROVE Goal
  BY <1>5 DEF Crash, Waiting
<1>6. CASE UNCHANGED <<inbox, listening>>
  BY <1>6 DEF Waiting
<1>7. ASSUME NEW v \in Worker, NEW s \in Slot, Tick(v, s) \/ ExecuteQuery(v, s) \/ QueryFails(v, s)
      PROVE  UNCHANGED <<inbox, listening>>
  BY <1>7 DEF Tick, ExecuteQuery, QueryFails, client
<1>8. ASSUME NEW t \in Transaction, Insert(t) PROVE UNCHANGED <<inbox, listening>>
  BY <1>8 DEF Insert, client
<1>9. CASE UNCHANGED vars
  BY <1>6, <1>9 DEF vars
<1> QED
  BY <1>1, <1>2, <1>3, <1>4, <1>5, <1>6, <1>7, <1>8, <1>9 DEF Next
LEMMA StaysUpToDate ==
  ASSUME NEW c \in Client, UpToDateFor(c), last_sync'[c] = last_sync[c],
         \A w \in Worker, i \in Idx : polls'[w][i] # None =>
           /\ polls[w][i] # None /\ polls'[w][i].client = polls[w][i].client
           /\ polls'[w][i].date = polls[w][i].date,
         inbox'[c] \in {inbox[c], None, {}} \/ PollsOf(c)' = {},
         \A w \in Worker, s \in Slot :
           AsksFor(w, s, c)' => AsksFor(w, s, c) /\ queries'[w][s].asked = queries[w][s].asked
  PROVE  UpToDateFor(c)'
<1>1. \A p \in PollsOf(c)' : p \in PollsOf(c) /\ polls'[p[1]][p[2]].date = polls[p[1]][p[2]].date
  BY DEF PollsOf
<1>2. \A p \in PollsOf(c)' : polls'[p[1]][p[2]].date = last_sync'[c]
  BY <1>1 DEF UpToDateFor
<1>3. inbox'[c] \notin {None, {}} => PollsOf(c)' = {}
  BY <1>1 DEF UpToDateFor
<1>4. ASSUME NEW w \in Worker, NEW s \in Slot, AsksFor(w, s, c)', NEW j \in Idx
      PROVE  /\ <<w, j>> \in PollsOf(c)' => queries'[w][s].asked[j] # None
             /\ queries'[w][s].asked[j] # None /\ queries'[w][s].asked[j].client = c =>
                  queries'[w][s].asked[j].date = last_sync'[c]
  BY <1>1, <1>4 DEF UpToDateFor
<1> HIDE DEF UpToDateFor
<1> QED
  BY <1>2, <1>3, <1>4 DEF UpToDateFor

\* News clear all polls of their client: its others are older, and were asked for.
LEMMA NewsClear ==
  ASSUME TypeOK, Linked, SamePoll, UpToDate, NoneElsewhere,
         NEW w \in Worker, NEW s \in Slot, HandleDbPollAnswer(w, s), NEW c \in Client
  PROVE  inbox'[c] = inbox[c] \/ PollsOf(c)' = {}
<1> DEFINE asked == queries[w][s].asked
           group(i) == {t \in queries[w][s].trlist : t.recipient = Qrid(asked[i])}
           I == {i \in Idx : asked[i] # None /\ polls[w][i] # None /\ group(i) # {}}
<1>0. queries[w][s] # None
  BY DEF HandleDbPollAnswer
<1>1. inbox' = [d \in Client |-> IF \E i \in I : listening[d] = <<w, i>>
                                   THEN group(listening[d][2]) ELSE inbox[d]]
  <2>1. Answer(w, [i \in I |-> group(i)])
    BY DEF HandleDbPollAnswer
  <2> HIDE DEF asked, group, I
  <2> QED
    BY <2>1 DEF Answer
<1>2. /\ \A i \in I : polls'[w][i] = None
      /\ \A v \in Worker, j \in Idx : polls'[v][j] # None =>
           /\ polls[v][j] # None /\ polls'[v][j].client = polls[v][j].client
  <2>1. polls' = [polls EXCEPT ![w] = [i \in Idx |->
                    CASE i \in I -> None
                      [] i \notin I /\ asked[i] # None /\ polls[w][i] # None
                         -> [polls[w][i] EXCEPT !.due = TRUE]
                      [] OTHER -> polls[w][i]]]
    BY DEF HandleDbPollAnswer
  <2>2. \A i \in I : i \in Idx
    OBVIOUS
  <2> HIDE DEF I, asked
  <2>3. \A i \in I : polls'[w][i] = None
    BY <2>1, <2>2 DEF TypeOK
  <2>4. ASSUME NEW v \in Worker, NEW j \in Idx, polls'[v][j] # None
        PROVE  polls[v][j] # None /\ polls'[v][j].client = polls[v][j].client
    <3>1. \/ polls'[v][j] = polls[v][j]
          \/ polls[v][j] # None /\ polls'[v][j] = [polls[v][j] EXCEPT !.due = TRUE]
      BY <2>1, <2>3, <2>4 DEF TypeOK
    <3> QED
      BY <2>4, <3>1 DEF TypeOK, PollEntry
  <2> QED
    BY <2>3, <2>4
<1>3. ASSUME NEW i \in I, listening[c] = <<w, i>>, NEW p \in PollsOf(c)' PROVE FALSE
  <2>1. PICK v \in Worker, j \in Idx : p = <<v, j>> /\ polls'[v][j] # None /\ polls'[v][j].client = c
    BY <1>3 DEF PollsOf
  <2>2. polls[v][j] # None /\ polls[v][j].client = c /\ <<v, j>> \in PollsOf(c)
    BY <1>2, <2>1 DEF PollsOf
  <2>3. v = w
    <3>1. listening[c] # None
      BY <1>3, ConstantsAssumption
    <3> QED
      BY <1>3, <2>2, <3>1 DEF NoneElsewhere
  <2>4. AsksFor(w, s, c) /\ asked[i].client = c
    BY <1>0, <1>3 DEF AsksFor, Linked
  <2>5. asked[j] # None
    BY <2>2, <2>3, <2>4 DEF UpToDate, UpToDateFor
  <2>6. asked[j].client = c
    BY <1>0, <2>2, <2>3, <2>5 DEF SamePoll
  <2>7. group(j) = group(i)
    BY <2>4, <2>6 DEF Qrid
  <2>8. j \in I
    BY <2>2, <2>3, <2>5, <2>7
  <2> QED
    BY <1>2, <2>1, <2>3, <2>8
<1> QED
  BY <1>1, <1>3
LEMMA UpToDateNext ==
  ASSUME TypeOK, Linked, SamePoll, Waiting, UpToDate, NoneElsewhere, [Next]_vars
  PROVE  UpToDate'
<1> SUFFICES ASSUME NEW c \in Client PROVE UpToDateFor(c)'
  BY DEF UpToDate
<1> DEFINE Goal == UpToDateFor(c)'
           Fewer == \A w \in Worker, i \in Idx : polls'[w][i] # None =>
                      /\ polls[w][i] # None /\ polls'[w][i].client = polls[w][i].client
                      /\ polls'[w][i].date = polls[w][i].date
           Same == last_sync'[c] = last_sync[c]
           Heard == inbox'[c] \in {inbox[c], None, {}} \/ PollsOf(c)' = {}
           Asked == \A w \in Worker, s \in Slot : AsksFor(w, s, c)' =>
                      AsksFor(w, s, c) /\ queries'[w][s].asked = queries[w][s].asked
<1>0. /\ UpToDateFor(c)
      /\ \A w \in Worker, i \in Idx : <<w, i>> # None
  BY ConstantsAssumption DEF UpToDate
<1>a. Fewer /\ Same /\ Heard /\ Asked => Goal
  BY <1>0, StaysUpToDate
<1>b. UNCHANGED polls => Fewer
  OBVIOUS
<1>c. UNCHANGED inbox => Heard
  OBVIOUS
<1>d. listening'[c] = None => \A w \in Worker, s \in Slot : ~AsksFor(w, s, c)'
  BY <1>0 DEF AsksFor
<1>e. ASSUME /\ listening'[c] = listening[c]
             /\ \A w \in Worker, s \in Slot : queries'[w][s] \in {None, queries[w][s]}
      PROVE  Asked
  BY <1>e DEF AsksFor
<1> HIDE DEF Fewer, Same, Heard, Asked
<1>1. ASSUME NEW d \in Client, NEW v \in Worker, NEW j \in Idx, Poll(d, v, j) PROVE Goal
  <2>1. /\ queries' = queries /\ inbox' = inbox /\ last_sync' = last_sync /\ polls[v][j] = None
        /\ polls'[v][j].client = d /\ polls'[v][j].date = last_sync[d]
        /\ \A w \in Worker, i \in Idx : ~(w = v /\ i = j) => polls'[w][i] = polls[w][i]
    BY <1>1 DEF Poll, Unused, TypeOK
  <2>2. CASE c = d
    <3>1. inbox[c] = None /\ listening'[c] = <<v, j>>
      BY <1>1, <2>2 DEF Poll, Waiting, TypeOK
    <3>2. ASSUME NEW w \in Worker, NEW s \in Slot, AsksFor(w, s, c)' PROVE FALSE
      <4>1. PICK i \in Idx : /\ listening'[c] = <<w, i>>
                             /\ queries'[w][s] # None /\ queries'[w][s].asked[i] # None
        BY <3>2 DEF AsksFor
      <4>2. v = w /\ j = i
        BY <3>1, <4>1
      <4> QED
        BY <1>1, <2>1, <4>1, <4>2 DEF Poll, Unused
    <3>3. \A p \in PollsOf(c)' : polls'[p[1]][p[2]].date = last_sync[c]
      <4> SUFFICES ASSUME NEW p \in PollsOf(c)' PROVE polls'[p[1]][p[2]].date = last_sync[c]
        OBVIOUS
      <4>1. PICK w \in Worker, i \in Idx :
              p = <<w, i>> /\ polls'[w][i] # None /\ polls'[w][i].client = c
        BY DEF PollsOf
      <4>2. CASE w = v /\ i = j
        BY <2>1, <2>2, <4>1, <4>2
      <4>3. CASE ~(w = v /\ i = j)
        <5>1. polls'[w][i] = polls[w][i] /\ p \in PollsOf(c)
          BY <2>1, <4>1, <4>3 DEF PollsOf
        <5> QED
          BY <1>0, <4>1, <5>1 DEF UpToDateFor
      <4> QED
        BY <4>2, <4>3
    <3> QED
      BY <2>1, <3>1, <3>2, <3>3 DEF UpToDateFor
  <2>3. CASE c # d
    <3>1. PollsOf(c)' = PollsOf(c) /\ \A p \in PollsOf(c) : polls'[p[1]][p[2]] = polls[p[1]][p[2]]
      <4>1. \A w \in Worker, i \in Idx :
              /\ (polls'[w][i] # None /\ polls'[w][i].client = c)
                   <=> (polls[w][i] # None /\ polls[w][i].client = c)
              /\ polls[w][i] # None => polls'[w][i] = polls[w][i]
        BY <2>1, <2>3
      <4> QED
        BY <4>1 DEF PollsOf
    <3>2. listening'[c] = listening[c]
      BY <1>1, <2>3 DEF Poll, TypeOK
    <3>3. \A w \in Worker, s \in Slot : AsksFor(w, s, c)' <=> AsksFor(w, s, c)
      BY <2>1, <3>2 DEF AsksFor
    <3> QED
      BY <1>0, <2>1, <3>1, <3>3 DEF UpToDateFor
  <2> QED
    BY <2>2, <2>3
<1>2. ASSUME NEW v \in Worker, NEW j \in Idx, PollTimeout(v, j) PROVE Goal
  <2>1. inbox'[c] \in {inbox[c], {}}
    BY <1>2 DEF PollTimeout, Answer
  <2>2. Heard /\ Same
    BY <1>2, <2>1 DEF PollTimeout, Heard, Same
  <2>3. Fewer
    BY <1>2 DEF PollTimeout, TypeOK, Fewer
  <2>4. Asked
    BY <1>2, <1>e DEF PollTimeout
  <2> QED
    BY <1>a, <2>2, <2>3, <2>4
<1>3. ASSUME NEW v \in Worker, NEW q \in Slot, Tick(v, q) PROVE Goal
  <2>1. UNCHANGED <<polls, inbox, last_sync, listening>>
    BY <1>3 DEF Tick, client
  <2>2. PollsOf(c)' = PollsOf(c)
    BY <2>1 DEF PollsOf
  <2>3. ASSUME NEW w \in Worker, NEW s \in Slot, AsksFor(w, s, c)', NEW j \in Idx
        PROVE  /\ <<w, j>> \in PollsOf(c) => queries'[w][s].asked[j] # None
               /\ queries'[w][s].asked[j] # None /\ queries'[w][s].asked[j].client = c =>
                    queries'[w][s].asked[j].date = last_sync[c]
    <3>1. CASE w = v /\ s = q
      <4>1. queries'[w][s].asked = polls[w]
        BY <1>3, <3>1 DEF Tick, TypeOK
      <4>2. polls[w][j] # None /\ polls[w][j].client = c => <<w, j>> \in PollsOf(c)
        BY DEF PollsOf
      <4>3. <<w, j>> \in PollsOf(c) => polls[w][j].date = last_sync[c]
        BY <1>0 DEF UpToDateFor
      <4>4. <<w, j>> \in PollsOf(c) => polls[w][j] # None
        BY DEF PollsOf
      <4> QED
        BY <4>1, <4>2, <4>3, <4>4
    <3>2. CASE ~(w = v /\ s = q)
      <4>1. queries'[w][s] = queries[w][s]
        BY <1>3, <3>2 DEF Tick, TypeOK
      <4>2. AsksFor(w, s, c)
        BY <2>1, <2>3, <4>1 DEF AsksFor
      <4> QED
        BY <1>0, <4>1, <4>2 DEF UpToDateFor
    <3> QED
      BY <3>1, <3>2
  <2> QED
    BY <1>0, <2>1, <2>2, <2>3 DEF UpToDateFor
<1>4. ASSUME NEW v \in Worker, NEW q \in Slot, ExecuteQuery(v, q) PROVE Goal
  <2>1. UNCHANGED <<polls, inbox, last_sync, listening>>
    BY <1>4 DEF ExecuteQuery, client
  <2>2. PICK M : queries' = [queries EXCEPT ![v][q].trlist = M]
    BY <1>4 DEF ExecuteQuery
  <2>3. queries[v][q] \in Query /\ queries[v][q] # None
    BY <1>4 DEF ExecuteQuery, TypeOK
  <2>4. ASSUME NEW w \in Worker, NEW s \in Slot
        PROVE  /\ queries'[w][s] # None => queries[w][s] # None
               /\ queries'[w][s] # None => queries'[w][s].asked = queries[w][s].asked
    <3>1. CASE w = v /\ s = q
      BY <2>2, <2>3, <3>1 DEF TypeOK, Query
    <3>2. CASE ~(w = v /\ s = q)
      BY <2>2, <3>2 DEF TypeOK
    <3> QED
      BY <3>1, <3>2
  <2>5. Asked
    BY <2>1, <2>4 DEF AsksFor, Asked
  <2> QED
    BY <1>a, <1>b, <1>c, <2>1, <2>5 DEF Same
<1>5. ASSUME NEW v \in Worker, NEW q \in Slot, HandleDbPollAnswer(v, q) PROVE Goal
  <2>1. UNCHANGED <<last_sync, listening>>
    BY <1>5 DEF HandleDbPollAnswer
  <2>2. Heard
    BY <1>5, NewsClear DEF Heard
  <2>3. ASSUME NEW w \in Worker, NEW i \in Idx, polls'[w][i] # None
        PROVE  /\ polls[w][i] # None /\ polls'[w][i].client = polls[w][i].client
               /\ polls'[w][i].date = polls[w][i].date
    <3>1. \/ polls'[w][i] = polls[w][i]
          \/ polls[w][i] # None /\ polls'[w][i] = [polls[w][i] EXCEPT !.due = TRUE]
      BY <1>5, <2>3 DEF HandleDbPollAnswer, TypeOK
    <3> QED
      BY <2>3, <3>1 DEF TypeOK, PollEntry
  <2>4. \A w \in Worker, s \in Slot : queries'[w][s] \in {None, queries[w][s]}
    BY <1>5 DEF HandleDbPollAnswer, TypeOK
  <2>5. Asked
    BY <1>e, <2>1, <2>4
  <2> QED
    BY <1>a, <2>1, <2>2, <2>3, <2>5 DEF Fewer, Same
<1>6. ASSUME NEW d \in Client, Receive(d) PROVE Goal
  <2>1. UNCHANGED <<polls, queries>>
    BY <1>6 DEF Receive
  <2>2. CASE c = d
    <3>1. inbox'[c] = None /\ listening'[c] = None
      BY <1>6, <2>2 DEF Receive, TypeOK
    <3>2. \A p \in PollsOf(c) : polls[p[1]][p[2]].date = last_sync'[c]
      <4>1. CASE inbox[c] = {}
        BY <1>0, <1>6, <2>2, <4>1 DEF Receive, UpToDateFor
      <4>2. CASE inbox[c] # {}
        BY <1>0, <1>6, <2>2, <4>2 DEF Receive, UpToDateFor
      <4> QED
        BY <4>1, <4>2
    <3>3. PollsOf(c)' = PollsOf(c)
      BY <2>1 DEF PollsOf
    <3> QED
      BY <1>d, <2>1, <3>1, <3>2, <3>3 DEF UpToDateFor
  <2>3. CASE c # d
    <3>1. listening'[c] = listening[c] /\ inbox'[c] = inbox[c] /\ last_sync'[c] = last_sync[c]
      BY <1>6, <2>3 DEF Receive, Hear, TypeOK
    <3> QED
      BY <1>a, <1>b, <1>e, <2>1, <3>1 DEF Heard, Same
  <2> QED
    BY <2>2, <2>3
<1>7. ASSUME NEW t \in Transaction, Insert(t) PROVE Goal
  BY <1>7, <1>a, <1>b, <1>c, <1>e DEF Insert, client, Same
<1>8. ASSUME NEW d \in Client, Disconnect(d) PROVE Goal
  <2>1. /\ inbox'[c] \in {inbox[c], None} /\ UNCHANGED <<polls, queries, last_sync>>
        /\ listening'[c] \in {listening[c], None}
    BY <1>8 DEF Disconnect, TypeOK
  <2>2. Asked
    BY <1>d, <1>e, <2>1 DEF Asked
  <2> QED
    BY <1>a, <1>b, <2>1, <2>2 DEF Heard, Same
<1>9. ASSUME NEW v \in Worker, NEW q \in Slot, QueryFails(v, q) PROVE Goal
  <2>1. \A w \in Worker, s \in Slot : queries'[w][s] \in {None, queries[w][s]}
    BY <1>9 DEF QueryFails, TypeOK
  <2> QED
    BY <1>9, <1>a, <1>b, <1>c, <1>e, <2>1 DEF QueryFails, client, Same
<1>10. ASSUME NEW v \in Worker, Crash(v) PROVE Goal
  <2>1. \A w \in Worker, s \in Slot : queries'[w][s] \in {None, queries[w][s]}
    BY <1>10 DEF Crash, TypeOK
  <2>2. listening'[c] \in {listening[c], None}
    BY <1>10 DEF Crash
  <2>3. Asked
    BY <1>d, <1>e, <2>1, <2>2 DEF Asked
  <2>4. Fewer
    BY <1>10 DEF Crash, TypeOK, Fewer
  <2> QED
    BY <1>10, <1>a, <1>c, <2>3, <2>4 DEF Crash, Same
<1>11. CASE UNCHANGED vars
  BY <1>11, <1>a, <1>b, <1>c, <1>e DEF vars, Same
<1> QED
  BY <1>1, <1>2, <1>3, <1>4, <1>5, <1>6, <1>7, <1>8, <1>9, <1>10, <1>11 DEF Next

LEMMA NewOnlyNext ==
  ASSUME OneAppPerAccount, SyncInv, UpToDate, NewOnly, [Next]_vars
  PROVE  NewOnly'
<1> SUFFICES ASSUME NEW c \in Client
             PROVE  /\ \A t \in notified'[c] : t.time <= last_sync'[c]
                    /\ \A N \in Answers(c)' : \A t \in N : t.time > last_sync'[c]
  BY DEF NewOnly
<1>0. TypeOK /\ Linked /\ Real
  BY DEF SyncInv
<1>1. CASE Receive(c) /\ Answers(c)' = {}
  <2>1. inbox[c] # None /\ inbox[c] \subseteq Transaction /\ notified[c] \subseteq Transaction
    BY <1>0, <1>1 DEF Receive, TypeOK
  <2>2. CASE inbox[c] = {}
    BY <1>1, <2>2 DEF Receive, NewOnly
  <2>3. CASE inbox[c] # {}
    <3>1. notified'[c] = notified[c] \cup inbox[c] /\ Hear(c)
      BY <1>0, <1>1, <2>3 DEF Receive, TypeOK
    <3>2. PICK u \in inbox[c] : /\ \A t \in inbox[c] : u.time >= t.time
                                /\ last_sync' = [last_sync EXCEPT ![c] = u.time]
      BY <3>1 DEF Hear
    <3>3. last_sync'[c] = u.time
      BY <1>0, <3>2 DEF TypeOK
    <3>4. inbox[c] \in Answers(c)
      BY <1>0, <2>1, InboxAnswers
    <3>5. u.time > last_sync[c] /\ \A t \in notified[c] : t.time <= last_sync[c]
      BY <3>4 DEF NewOnly
    <3>6. \A t \in Transaction : t.time \in Nat
      BY ConstantsAssumption
    <3>7. last_sync[c] \in Nat
      BY <1>0, TimesNat
    <3>8. ASSUME NEW t \in notified'[c] PROVE t.time <= u.time
      <4>1. CASE t \in inbox[c]
        <5>1. t.time \in Nat /\ u.time \in Nat
          BY <2>1, <3>6, <4>1
        <5> QED
          BY <3>2, <4>1, <5>1
      <4>2. CASE t \in notified[c]
        <5>1. t.time \in Nat /\ u.time \in Nat
          BY <2>1, <3>6, <4>2
        <5> QED
          BY <3>5, <3>7, <4>2, <5>1
      <4> QED
        BY <3>1, <4>1, <4>2
    <3> QED
      BY <1>1, <3>3, <3>8
  <2> QED
    BY <2>2, <2>3
<1>2. CASE /\ last_sync'[c] = last_sync[c] /\ notified'[c] = notified[c]
           /\ \A N \in Answers(c)' :
                \/ N \in Answers(c) \/ N = {}
                \/ \E w \in Worker, s \in Slot :
                     ExecuteQuery(w, s) /\ AsksFor(w, s, c) /\ N = Own(c, queries'[w][s].trlist)
  <2>1. ASSUME NEW w \in Worker, NEW s \in Slot, ExecuteQuery(w, s), AsksFor(w, s, c),
               NEW t \in Own(c, queries'[w][s].trlist)
        PROVE  t.time > last_sync[c]
    <3>1. t \in Matching(queries[w][s].asked) /\ t.recipient = QridOf[c]
      BY <1>0, <2>1, Found DEF Own
    <3>2. PICK j \in Idx : /\ queries[w][s].asked[j] # None
                           /\ Qrid(queries[w][s].asked[j]) = t.recipient
                           /\ t.time > queries[w][s].asked[j].date
      BY <3>1 DEF Matching
    <3>3. queries[w][s].asked[j].client \in Client
      <4>1. queries[w][s] \in Query
        BY <1>0, <2>1 DEF ExecuteQuery, TypeOK
      <4> QED
        BY <3>2, <4>1 DEF Query, PollEntry
    <3>4. queries[w][s].asked[j].client = c
      BY <3>1, <3>2, <3>3 DEF OneAppPerAccount, Qrid
    <3>5. queries[w][s].asked[j].date = last_sync[c]
      BY <2>1, <3>2, <3>4 DEF UpToDate, UpToDateFor
    <3> QED
      BY <3>2, <3>5
  <2>2. \A N \in Answers(c) : \A t \in N : t.time > last_sync[c]
    BY DEF NewOnly
  <2>3. \A t \in notified[c] : t.time <= last_sync[c]
    BY DEF NewOnly
  <2> QED
    BY <1>2, <2>1, <2>2, <2>3
<1> QED
  BY <1>0, <1>1, <1>2, AnswersNext

LEMMA OnceNext ==
  ASSUME TypeOK, NewOnly, NotifiedOnce, [Next]_vars
  PROVE  NotifiedOnce'
<1>1. ASSUME NEW c \in Client, Receive(c) PROVE NotifiedOnce'
  <2>1. inbox[c] # None /\ inbox[c] \subseteq Transaction
    BY <1>1 DEF Receive, TypeOK
  <2>2. inbox[c] \in Answers(c)
    BY <2>1, InboxAnswers
  <2>3. notified[c] \cap inbox[c] = {}
    <3> SUFFICES ASSUME NEW t \in notified[c], t \in inbox[c] PROVE FALSE
      OBVIOUS
    <3>1. t.time <= last_sync[c] /\ t.time > last_sync[c]
      BY <2>2 DEF NewOnly
    <3>2. t.time \in Nat /\ last_sync[c] \in Nat
      BY <2>1, TimesNat, ConstantsAssumption
    <3> QED
      BY <3>1, <3>2
  <2>4. repeated' = repeated
    BY <1>1, <2>3 DEF Receive
  <2> QED
    BY <2>4 DEF NotifiedOnce
<1>2. CASE UNCHANGED repeated
  BY <1>2 DEF NotifiedOnce
<1>3. \/ \E c \in Client : Receive(c)
      \/ UNCHANGED repeated
  BY DEF Next, vars, client, Poll, Disconnect, PollTimeout, Tick, ExecuteQuery,
         HandleDbPollAnswer, QueryFails, Crash, Insert
<1> QED
  BY <1>1, <1>2, <1>3

\* No app shows a payment twice, through any timeouts, crashes, lost answers and
\* queries that overtake each other, unless two apps share the account or a poll
\* of the app was left behind at another worker than the one it polls now.
THEOREM NotifiedOnceTheorem ==
  ASSUME OneAppPerAccount PROVE Spec /\ []NoneElsewhere => []NotifiedOnce
<1>1. Init => OnceInv
  <2> SUFFICES ASSUME Init PROVE OnceInv
    OBVIOUS
  <2>1. SyncInv
    BY SyncInit
  <2>2. \A c \in Client : Answers(c) = {} /\ PollsOf(c) = {}
    BY ConstantsAssumption DEF Init, Answers, AsksFor, PollsOf
  <2>3. \A c \in Client, w \in Worker, s \in Slot : ~AsksFor(w, s, c)
    BY ConstantsAssumption DEF Init, AsksFor
  <2>4. SamePoll /\ Waiting /\ NotifiedOnce
    BY DEF Init, SamePoll, Waiting, NotifiedOnce
  <2>5. UpToDate
    BY <2>2, <2>3 DEF UpToDate, UpToDateFor
  <2>6. NewOnly
    BY <2>2 DEF NewOnly, Init
  <2> QED
    BY <2>1, <2>4, <2>5, <2>6 DEF OnceInv
<1>2. OnceInv /\ NoneElsewhere /\ [Next]_vars => OnceInv'
  BY SyncNext, SamePollNext, WaitingNext, UpToDateNext, NewOnlyNext, OnceNext DEF OnceInv, SyncInv
<1>3. OnceInv => NotifiedOnce
  BY DEF OnceInv
<1> QED
  BY <1>1, <1>2, <1>3, PTL DEF Spec

\* A server with a single worker has no other one to leave polls at, so no app of an
\* account of its own is told twice of a payment.
COROLLARY NotifiedOnceByOneWorker ==
  ASSUME OneAppPerAccount, \A v, w \in Worker : v = w
  PROVE  Spec => []NotifiedOnce
<1>1. TypeOK => NoneElsewhere
  <2> SUFFICES ASSUME TypeOK, NEW c \in Client, NEW p \in PollsOf(c), listening[c] # None
               PROVE  listening[c][1] = p[1]
    BY DEF NoneElsewhere
  <2>1. listening[c][1] \in Worker /\ p[1] \in Worker
    BY DEF TypeOK, PollsOf
  <2> QED
    BY <2>1
<1> QED
  BY <1>1, TypeCorrect, NotifiedOnceTheorem, PTL
=============================================================================
