------------------------------ MODULE ServicesProofs ------------------------------
(***************************************************************************)
(* The machinery between pages and database, for any numbers of queries,   *)
(* gateways, workers, keys, commands and servers.                          *)
(***************************************************************************)
EXTENDS MCServices, FiniteSetTheorems, SequenceTheorems, TLAPS

-----------------------------------------------------------------------------
(* Client queries *)

\* How far the server may be with a query in a phase of the client.
Unposted(q) ==
  /\ phase[q] \in {"new", "cert", "ping"} => server[q] = "waits" /\ result[q] = "none"
  /\ phase[q] = "ping" /\ URL[q] = Intranet => gwidx[q] = 0
  /\ phase[q] \in {"new", "cert"} => gwidx[q] = 0
  /\ phase[q] = "post" => result[q] = "none"

\* What the server and the result say of each other.
Answered(q) ==
  /\ executions[q] = IF server[q] = "executed" THEN 1 ELSE 0
  /\ result[q] \in {"SUCCESS_INTRANET", "SUCCESS_INTERNET"} => server[q] = "executed"
  /\ result[q] \in {"ERROR", "ERROR_SPOOF"} => server[q] = "waits"

QueryInv == QueryTypeOK /\ \A q \in Query : Unposted(q) /\ Answered(q)

LEMMA QueryInitInv == QueryInit => QueryInv
<1> SUFFICES ASSUME QueryInit PROVE QueryInv
    OBVIOUS
<1>1. SetToSeqs(Gateway) # {}
  <2>1. PICK f : f \in Bijection(1..Cardinality(Gateway), Gateway)
        BY FS_CardinalityType, QueryAssumption DEF ExistsBijection
  <2>2. f \in SetToSeqs(Gateway)
        BY <2>1 DEF SetToSeqs, Bijection, Injection, Surjection, IsInjective
  <2> QED BY <2>2
<1>2. GATEWAYS \in SetToSeqs(Gateway)
      BY <1>1 DEF QueryInit
<1>3. Cardinality(Gateway) \in Nat
      BY FS_CardinalityType, QueryAssumption
<1>4. QueryTypeOK
      BY <1>2, <1>3, QueryAssumption DEF QueryInit, QueryTypeOK, Url
<1>5. \A q \in Query : Unposted(q) /\ Answered(q)
      BY DEF QueryInit, Unposted, Answered
<1> QED BY <1>4, <1>5 DEF QueryInv

\* The gateways that are left have addresses.
LEMMA GatewayAt ==
  ASSUME NEW s \in SetToSeqs(Gateway), NEW n \in Nat, n < Cardinality(Gateway)
  PROVE  s[n + 1] \in Gateway /\ s[n + 1] # Intranet
<1>1. Cardinality(Gateway) \in Nat
      BY FS_CardinalityType, QueryAssumption
<1>2. s \in [1..Cardinality(Gateway) -> Gateway] /\ n + 1 \in 1..Cardinality(Gateway)
      BY <1>1 DEF SetToSeqs
<1> QED BY <1>2, QueryAssumption

LEMMA GatewaysLen == GATEWAYS \in SetToSeqs(Gateway) => Len(GATEWAYS) = Cardinality(Gateway)
<1>1. Cardinality(Gateway) \in Nat
      BY FS_CardinalityType, QueryAssumption
<1> QED BY <1>1 DEF SetToSeqs

\* A query changes its own entries only.
LEMMA QueryStepInv ==
  ASSUME QueryInv, NEW q \in Query,
         \/ StartQuery(q) \/ CertRead(q) \/ PingSuccess(q) \/ PingError(q)
         \/ Receive(q) \/ Execute(q) \/ QuerySuccess(q) \/ QueryError(q)
  PROVE  QueryInv'
<1>1. Cardinality(Gateway) \in Nat /\ Len(GATEWAYS) = Cardinality(Gateway)
      BY FS_CardinalityType, QueryAssumption, GatewaysLen DEF QueryInv, QueryTypeOK
<1>2. Unposted(q) /\ Answered(q) /\ gwidx[q] \in 0..Cardinality(Gateway) /\ Intranet \in Url
      BY DEF QueryInv, QueryTypeOK, Url
<1> USE DEF QueryInv, QueryTypeOK, Unposted, Answered
<1>3. CASE StartQuery(q) \/ CertRead(q)
      BY <1>2, <1>3 DEF StartQuery, CertRead, ping
<1>4. CASE PingSuccess(q)
      BY <1>2, <1>4 DEF PingSuccess, callback
<1>5. CASE PingError(q)
  <2>1. CASE URL[q] = Intranet /\ result' = result
    <3>1. PICK sorted \in SetToSeqs(Gateway) : GATEWAYS' = sorted /\ next(q, sorted)
          BY <1>5, <2>1, <1>2, <1>1 DEF PingError, callback
    <3>2. gwidx[q] = 0 /\ 0 < Cardinality(Gateway)
          BY <1>5, <1>1, <1>2, <2>1, FS_EmptySet, QueryAssumption DEF PingError
    <3>3. sorted[1] \in Gateway /\ sorted[1] # Intranet
          BY <3>2, GatewayAt, <1>1
    <3> QED BY <1>1, <1>2, <1>5, <2>1, <3>1, <3>2, <3>3 DEF PingError, next, ping, Url
  <2>2. CASE URL[q] # Intranet /\ gwidx[q] < Len(GATEWAYS) /\ next(q, GATEWAYS)
             /\ UNCHANGED <<GATEWAYS, result>>
    <3>1. GATEWAYS[gwidx[q] + 1] \in Gateway /\ GATEWAYS[gwidx[q] + 1] # Intranet
          BY <1>1, <1>2, <2>2, GatewayAt
    <3> QED BY <1>1, <1>2, <1>5, <2>2, <3>1 DEF PingError, next, ping, Url
  <2>3. CASE callback(q, "ERROR") /\ UNCHANGED <<GATEWAYS, URL, gwidx>>
        BY <1>2, <1>5, <2>3 DEF PingError, callback
  <2> QED BY <1>5, <2>1, <2>2, <2>3 DEF PingError
<1>6. CASE Receive(q) \/ Execute(q)
      BY <1>2, <1>6 DEF Receive, Execute
<1>7. CASE QuerySuccess(q) \/ QueryError(q)
      BY <1>2, <1>7 DEF QuerySuccess, QueryError, callback
<1> QED BY <1>3, <1>4, <1>5, <1>6, <1>7

LEMMA QueryNextInv == QueryInv /\ [QueryNext]_queryVars => QueryInv'
<1> SUFFICES ASSUME QueryInv, [QueryNext]_queryVars PROVE QueryInv'
    OBVIOUS
<1>1. CASE \E q \in Query :
             \/ StartQuery(q) \/ CertRead(q) \/ PingSuccess(q) \/ PingError(q)
             \/ Receive(q) \/ Execute(q) \/ QuerySuccess(q) \/ QueryError(q)
      BY <1>1, QueryStepInv
<1>2. ASSUME NEW url \in Url, NEW who \in {"server", "nobody", "spoofer"}, Outage(url, who)
      PROVE  QueryInv'
      BY <1>2, QueryAssumption
      DEF Outage, QueryInv, QueryTypeOK, Unposted, Answered
<1>3. CASE UNCHANGED queryVars
      BY <1>3 DEF queryVars, QueryInv, QueryTypeOK, Unposted, Answered
<1> QED BY <1>1, <1>2, <1>3 DEF QueryNext

\* What the callback of a query is told about the server is true, with any number
\* of gateways, outages and queries at once (api.js:212).
THEOREM ResultIsTrueTheorem == QuerySpec => []ResultIsTrue
<1>1. QueryInv => ResultIsTrue
      BY DEF QueryInv, Answered, ResultIsTrue
<1> QED BY <1>1, QueryInitInv, QueryNextInv, PTL DEF QuerySpec

-----------------------------------------------------------------------------
(* Requests *)

\* A request whose action runs is with a worker that runs.
Hosted(r) == stage[r] \in Process => stage[r] \in alive

ClusterInv ==
  /\ ClusterTypeOK
  /\ forks = Cardinality(Process \ alive)
  /\ \A r \in Incoming : Hosted(r)

LEMMA StageNames ==
  /\ MaxDeaths \in Nat
  /\ "new" \notin Process /\ "over" \notin Process
<1>1. {MaxAnswers, MaxDeaths} \subseteq Nat /\ {"new", "over"} \cap Process = {}
      BY ClusterAssumption
<1> QED BY ONLY <1>1

LEMMA AcceptsNat ==
  ASSUME NEW r \in Incoming
  PROVE  Accepts(r) \in Nat
<1>1. IsFiniteSet(Matches(r))
      BY ClusterAssumption, FS_Intersection, FS_EmptySet DEF Matches
<1> QED BY <1>1, FS_CardinalityType DEF Accepts

\* Reports are appended, to one worker's.
LEMMA ReportsType ==
  ASSUME ClusterTypeOK, NEW w \in Process, NEW r \in Incoming, NEW types \in Seq(Mark),
         Reports(w, r, types)
  PROVE  reports' \in [Process -> Seq(Message)]
<1> DEFINE new == [n \in DOMAIN types |-> [type |-> types[n], id |-> r]]
<1>1. \A n \in DOMAIN types : types[n] \in Mark
      OBVIOUS
<1>2. new \in Seq(Message)
  <2>1. \A n \in DOMAIN types : [type |-> types[n], id |-> r] \in Message
        BY <1>1 DEF Message
  <2>2. DOMAIN types = 1..Len(types) /\ Len(types) \in Nat
        OBVIOUS
  <2> QED BY <2>1, <2>2, SeqDef
<1>3. reports[w] \o new \in Seq(Message)
  <2> HIDE DEF new
  <2>1. reports[w] \in Seq(Message)
        BY DEF ClusterTypeOK
  <2> QED BY <1>2, <2>1
<1>4. reports' = reports \/ reports' = [reports EXCEPT ![w] = @ \o new]
      BY DEF Reports
<1> HIDE DEF new
<1>5. reports \in [Process -> Seq(Message)]
      BY DEF ClusterTypeOK
<1> QED BY <1>3, <1>4, <1>5

LEMMA ForksType ==
  ASSUME NEW S \in SUBSET Process
  PROVE  Cardinality(Process \ S) \in 0..Cardinality(Process)
<1>1. Process \ S \in SUBSET Process
      OBVIOUS
<1>2. Cardinality(Process) \in Nat
      BY FS_CardinalityType, ClusterAssumption
<1>3. Cardinality(Process \ S) \in Nat /\ Cardinality(Process \ S) <= Cardinality(Process)
      BY <1>1, FS_Subset, FS_CardinalityType, ClusterAssumption
<1> QED BY <1>2, <1>3

\* A worker that dies is one that will be forked, and the other way round.
LEMMA ForkCount ==
  ASSUME NEW S \in SUBSET Process, NEW w \in Process
  PROVE  /\ w \in S => Cardinality(Process \ (S \ {w})) = Cardinality(Process \ S) + 1
         /\ w \notin S => Cardinality(Process \ (S \cup {w})) = Cardinality(Process \ S) - 1
<1>1. IsFiniteSet(Process \ S)
      BY FS_Difference, ClusterAssumption
<1>2. CASE w \in S
  <2>1. Process \ (S \ {w}) = (Process \ S) \cup {w} /\ w \notin Process \ S
        BY <1>2
  <2> QED BY <1>1, <1>2, <2>1, FS_AddElement
<1>3. CASE w \notin S
  <2>1. Process \ (S \cup {w}) = (Process \ S) \ {w} /\ w \in Process \ S
        BY <1>3
  <2> QED BY <1>1, <1>3, <2>1, FS_RemoveElement
<1> QED BY <1>2, <1>3

LEMMA ClusterInitInv == ClusterInit => ClusterInv
<1> SUFFICES ASSUME ClusterInit PROVE ClusterInv
    OBVIOUS
<1>1. Process \ alive = {} /\ forks = Cardinality(Process \ alive)
      BY FS_EmptySet DEF ClusterInit
<1>2. forks \in 0..Cardinality(Process)
      BY <1>1, ForksType DEF ClusterInit
<1>3. reports \in [Process -> Seq(Message)]
  <2>1. << >> \in Seq(Message)
        OBVIOUS
  <2> QED BY <2>1 DEF ClusterInit
<1>4. ClusterTypeOK
      BY <1>2, <1>3, StageNames DEF ClusterInit, ClusterTypeOK
<1>5. \A r \in Incoming : Hosted(r)
      BY StageNames DEF ClusterInit, Hosted
<1> QED BY <1>1, <1>4, <1>5 DEF ClusterInv

LEMMA PrepareInv ==
  ASSUME ClusterInv, NEW w \in Process, NEW r \in Incoming, prepare_action(w, r)
  PROVE  ClusterInv'
<1>1. Accepts(r) \in Nat \ {0}
      BY AcceptsNat DEF prepare_action
<1>2. reports' \in [Process -> Seq(Message)]
  <2>1. <<"req_begin", "req_after_decrypt">> \in Seq(Mark)
        BY DEF Mark
  <2> QED BY <2>1, ReportsType DEF prepare_action, ClusterInv
<1>3. ClusterTypeOK'
      BY <1>1, <1>2 DEF ClusterInv, ClusterTypeOK, prepare_action, TakenTo
<1>4. ASSUME NEW x \in Incoming PROVE Hosted(x)'
  <2>1. stage' = [stage EXCEPT ![r] = w] /\ alive' = alive /\ w \in alive
        BY DEF prepare_action, TakenTo
  <2> QED BY <2>1 DEF ClusterInv, ClusterTypeOK, Hosted
<1> QED BY <1>3, <1>4 DEF ClusterInv, prepare_action

LEMMA RefuseInv ==
  ASSUME ClusterInv, NEW w \in Process, NEW r \in Incoming, Refuse(w, r)
  PROVE  ClusterInv'
<1>1. reports' \in [Process -> Seq(Message)]
  <2>1. <<"req_begin", "req_after_decrypt", "req_after_action", "req_end">> \in Seq(Mark)
        /\ <<"req_begin">> \in Seq(Mark)
        BY DEF Mark
  <2> QED BY <2>1, ReportsType DEF Refuse, ClusterInv
<1>2. ClusterTypeOK'
  <2>1. stage' = [stage EXCEPT ![r] = "over"] /\ ended' = [ended EXCEPT ![r] = ended[r] + 1]
        BY DEF Refuse, TakenTo
  <2>2. stage' \in [Incoming -> {"new", "over"} \cup Process] /\ ended' \in [Incoming -> Nat]
        BY <2>1 DEF ClusterInv, ClusterTypeOK
  <2> QED BY <1>1, <2>2 DEF ClusterInv, ClusterTypeOK, Refuse
<1>3. \A x \in Incoming : Hosted(x)'
      BY StageNames DEF ClusterInv, ClusterTypeOK, Hosted, Refuse, TakenTo
<1> QED BY <1>2, <1>3 DEF ClusterInv, Refuse

\* The actions that a dying worker runs are over.
LEMMA DiesInv ==
  ASSUME ClusterInv, NEW w \in Process, NEW over \in SUBSET Incoming, Dies(w, over)
  PROVE  /\ alive' \subseteq Process /\ forks' = Cardinality(Process \ alive')
         /\ forks' \in 0..Cardinality(Process)
         /\ stage' \in [Incoming -> {"new", "over"} \cup Process]
         /\ \A r \in Incoming : Hosted(r)'
<1>1. alive \in SUBSET Process /\ alive' \in SUBSET Process /\ alive' = alive \ {w}
      BY DEF ClusterInv, ClusterTypeOK, Dies
<1>2. forks' = Cardinality(Process \ alive')
      BY <1>1, ForkCount DEF ClusterInv, Dies
<1>3. forks' \in 0..Cardinality(Process)
      BY <1>1, <1>2, ForksType
<1>4. stage' \in [Incoming -> {"new", "over"} \cup Process]
      BY DEF ClusterInv, ClusterTypeOK, Dies
<1>5. \A r \in Incoming : Hosted(r)'
      BY StageNames DEF Dies, ClusterInv, ClusterTypeOK, Hosted
<1> QED BY <1>1, <1>2, <1>3, <1>4, <1>5

LEMMA DecryptFailsInv ==
  ASSUME ClusterInv, NEW w \in Process, NEW r \in Incoming, decrypt_query_fails(w, r)
  PROVE  ClusterInv'
<1>1. reports' \in [Process -> Seq(Message)]
  <2>1. <<"req_begin", "req_after_action", "req_end", "req_after_decrypt">> \in Seq(Mark)
        BY DEF Mark
  <2> QED BY <2>1, ReportsType DEF decrypt_query_fails, ClusterInv
<1>2. /\ alive' \subseteq Process /\ forks' = Cardinality(Process \ alive')
      /\ forks' \in 0..Cardinality(Process)
      /\ stage' \in [Incoming -> {"new", "over"} \cup Process]
      /\ \A x \in Incoming : Hosted(x)'
      BY DiesInv DEF decrypt_query_fails
<1>3. ClusterTypeOK'
  <2>1. ended' = [ended EXCEPT ![r] = ended[r] + 1]
        BY DEF decrypt_query_fails
  <2>2. ended' \in [Incoming -> Nat]
        BY <2>1 DEF ClusterInv, ClusterTypeOK
  <2> QED BY <1>1, <1>2, <2>2 DEF ClusterInv, ClusterTypeOK, decrypt_query_fails
<1> QED BY <1>2, <1>3 DEF ClusterInv

LEMMA DieInv ==
  ASSUME ClusterInv, NEW w \in Process, Die(w)
  PROVE  ClusterInv'
<1>1. reports' \in [Process -> Seq(Message)]
  <2>1. reports \in [Process -> Seq(Message)]
        BY DEF ClusterInv, ClusterTypeOK
  <2>2. PICK n \in 0..Len(reports[w]) : reports' = [reports EXCEPT ![w] = SubSeq(@, 1, n)]
        BY DEF Die
  <2>3. SubSeq(reports[w], 1, n) \in Seq(Message)
        BY <2>1, SubSeqProperties
  <2> QED BY <2>1, <2>2, <2>3
<1>2. /\ alive' \subseteq Process /\ forks' = Cardinality(Process \ alive')
      /\ forks' \in 0..Cardinality(Process)
      /\ stage' \in [Incoming -> {"new", "over"} \cup Process]
      /\ \A x \in Incoming : Hosted(x)'
      BY DiesInv DEF Die
<1>3. ClusterTypeOK'
      BY <1>1, <1>2, StageNames DEF ClusterInv, ClusterTypeOK, Die
<1> QED BY <1>2, <1>3 DEF ClusterInv

LEMMA AnswerInv ==
  ASSUME ClusterInv, NEW r \in Incoming, API_answer(r)
  PROVE  ClusterInv'
<1>1. reports' \in [Process -> Seq(Message)]
  <2>1. <<"req_after_action", "req_end">> \in Seq(Mark)
        BY DEF Mark
  <2> QED BY <2>1, ReportsType DEF API_answer, ClusterInv
<1>2. ClusterTypeOK'
      BY <1>1 DEF ClusterInv, ClusterTypeOK, API_answer
<1> QED BY <1>2 DEF ClusterInv, API_answer, Hosted

LEMMA ForkInv ==
  ASSUME ClusterInv, NEW w \in Process, fork(w)
  PROVE  ClusterInv'
<1>1. alive \in SUBSET Process /\ alive' \in SUBSET Process /\ alive' = alive \cup {w}
      BY DEF ClusterInv, ClusterTypeOK, fork
<1>2. forks' = Cardinality(Process \ alive')
      BY <1>1, ForkCount DEF ClusterInv, fork
<1>3. forks' \in 0..Cardinality(Process)
      BY <1>1, <1>2, ForksType
<1> QED BY <1>1, <1>2, <1>3 DEF ClusterInv, ClusterTypeOK, fork, Hosted

LEMMA OnMessageInv ==
  ASSUME ClusterInv, NEW w \in Process, on_message(w)
  PROVE  ClusterInv'
<1>1. reports \in [Process -> Seq(Message)]
      BY DEF ClusterInv, ClusterTypeOK
<1>2. Head(reports[w]) \in Message /\ Tail(reports[w]) \in Seq(Message)
      BY <1>1 DEF on_message
<1>3. Head(reports[w]).type \in Mark /\ Head(reports[w]).id \in Incoming
      BY <1>2 DEF Message
<1>4. reports' \in [Process -> Seq(Message)]
      BY <1>1, <1>2 DEF on_message
<1>5. ClusterTypeOK'
      BY <1>3, <1>4 DEF ClusterInv, ClusterTypeOK, on_message
<1> QED BY <1>5 DEF ClusterInv, on_message, Hosted

LEMMA ClusterNextInv == ClusterInv /\ [ClusterNext]_clusterVars => ClusterInv'
<1> SUFFICES ASSUME ClusterInv, [ClusterNext]_clusterVars PROVE ClusterInv'
    OBVIOUS
<1>1. ASSUME NEW r \in Incoming, Deprecate(r) PROVE ClusterInv'
      BY <1>1 DEF Deprecate, ClusterInv, ClusterTypeOK, Hosted
<1>2. CASE UNCHANGED clusterVars
      BY <1>2 DEF clusterVars, ClusterInv, ClusterTypeOK, Hosted
<1> QED BY <1>1, <1>2, PrepareInv, RefuseInv, DecryptFailsInv, AnswerInv, DieInv, ForkInv,
           OnMessageInv DEF ClusterNext

\* However requests, deaths and forks are interleaved, with any number of workers
\* and requests: every worker that does not run has a timer of its own that forks
\* it, and no request is left with one that does not run (main.js:49-53).
THEOREM ClusterTheorem ==
  ClusterSpec => [](/\ forks = Cardinality(Process \ alive)
                    /\ \A r \in Incoming : stage[r] \in Process => stage[r] \in alive)
<1>1. ClusterInv => /\ forks = Cardinality(Process \ alive)
                    /\ \A r \in Incoming : stage[r] \in Process => stage[r] \in alive
      BY DEF ClusterInv, Hosted
<1> QED BY <1>1, ClusterInitInv, ClusterNextInv, PTL DEF ClusterSpec

LEMMA NoOrphanNext == ClusterInv /\ NoOrphan /\ [ClusterNext]_clusterVars => NoOrphan'
<1> SUFFICES ASSUME ClusterInv, NoOrphan, [ClusterNext]_clusterVars PROVE NoOrphan'
    OBVIOUS
<1> USE DEF ClusterInv, ClusterTypeOK, NoOrphan
<1>1. ASSUME NEW w \in Process, on_message(w) PROVE NoOrphan'
  <2>1. Head(reports[w]) \in Message
        BY <1>1 DEF on_message
  <2> QED BY <1>1, <2>1 DEF on_message, Known, Message
<1>2. ASSUME NEW r \in Incoming, Deprecate(r) PROVE NoOrphan'
      BY <1>2 DEF Deprecate
<1>3. CASE UNCHANGED <<perfdata, timers>>
      BY <1>3
<1> QED BY <1>1, <1>2, <1>3 DEF ClusterNext, clusterVars, prepare_action, Refuse,
           decrypt_query_fails, API_answer, Die, fork

\* No entry of the statistics stays for ever, however reports of requests and
\* the deaths of workers are interleaved (monitor.js).
THEOREM NoOrphanTheorem == ClusterSpec => []NoOrphan
<1>1. ClusterInit => NoOrphan
      BY DEF ClusterInit, NoOrphan
<1> QED BY <1>1, ClusterInitInv, ClusterNextInv, NoOrphanNext, PTL DEF ClusterSpec

-----------------------------------------------------------------------------
(* The connection to the database *)

\* The interval runs exactly while the connection counts as failed.
DbInv == DbTypeOK /\ intervals = IF failedstate THEN 1 ELSE 0

LEMMA DbInitInv == DbInit => DbInv
<1> SUFFICES ASSUME DbInit PROVE DbInv
    OBVIOUS
<1>1. {reachable, failedstate, ready, loading} \subseteq BOOLEAN
      BY DEF DbInit
<1>2. /\ connection \in {"closed", "connecting", "open", "silent"}
      /\ intervals \in 0..1 /\ intervals = IF failedstate THEN 1 ELSE 0
      /\ commands \in [Command -> {"unsent", "sent", "done", "error"}]
      BY DEF DbInit
<1>3. dbOutages \in 0..MaxDbOutages /\ refusals \in 0..MaxRefusals
      BY DbAssumption DEF DbInit
<1> QED BY <1>1, <1>2, <1>3 DEF DbInv, DbTypeOK

LEMMA DbErrorInv ==
  ASSUME DbInv, DB_error
  PROVE  failedstate' \in BOOLEAN /\ intervals' \in 0..1
         /\ intervals' = IF failedstate' THEN 1 ELSE 0
BY DEF DbInv, DbTypeOK, DB_error, setInterval

LEMMA DbNextInv == DbInv /\ [DbNext]_dbVars => DbInv'
<1> SUFFICES ASSUME DbInv, [DbNext]_dbVars PROVE DbInv'
    OBVIOUS
<1>1. /\ reachable \in BOOLEAN /\ failedstate \in BOOLEAN /\ ready \in BOOLEAN
      /\ loading \in BOOLEAN
      BY DEF DbInv, DbTypeOK
<1>2. MaxDbOutages \in Nat /\ MaxRefusals \in Nat
      BY DbAssumption
<1> USE DEF DbInv, DbTypeOK
<1>3. CASE Opened
  <2>1. failedstate' = FALSE /\ ready' = TRUE /\ UNCHANGED <<reachable, loading>>
        BY <1>3 DEF Opened
  <2>2. {reachable, failedstate, ready, loading}' \subseteq BOOLEAN
        BY <1>1, <2>1
  <2>3. intervals' = 0
        BY <1>1, <1>3 DEF Opened, clearInterval
  <2> QED BY <1>3, <2>1, <2>2, <2>3 DEF Opened
<1>4. CASE ConnectFails
      BY <1>1, <1>4, DbErrorInv DEF ConnectFails
<1>5. CASE db_connect
      BY <1>1, <1>5 DEF db_connect
<1>6. ASSUME NEW c \in Command, SendCommand(c) PROVE DbInv'
      BY <1>1, <1>6, DbErrorInv DEF SendCommand
<1>7. ASSUME NEW c \in Command, CommandDone(c) PROVE DbInv'
      BY <1>1, <1>7 DEF CommandDone
<1>8. ASSUME NEW c \in Command, CommandRefused(c) PROVE DbInv'
      BY <1>1, <1>2, <1>8, DbErrorInv DEF CommandRefused
<1>9. CASE LoadConfig
      BY <1>1, <1>9, DbErrorInv DEF LoadConfig
<1>10. CASE LoadEnds
      BY <1>1, <1>10, DbErrorInv DEF LoadEnds
<1>11. CASE GoesAway
  <2>1. dbOutages' \in 0..MaxDbOutages
        BY <1>2, <1>11 DEF GoesAway
  <2>2. commands' \in [Command -> {"unsent", "sent", "done", "error"}]
        BY <1>11 DEF GoesAway
  <2>3. connection' \in {"closed", "connecting", "open", "silent"}
        BY <1>11 DEF GoesAway
  <2>4. failedstate' \in BOOLEAN /\ intervals' \in 0..1
        /\ intervals' = IF failedstate' THEN 1 ELSE 0
        BY <1>1, <1>11, DbErrorInv DEF GoesAway
  <2>5. reachable' = FALSE /\ UNCHANGED <<ready, loading, refusals>>
        BY <1>11 DEF GoesAway
  <2>6. {reachable, failedstate, ready, loading}' \subseteq BOOLEAN
        BY <1>1, <2>4, <2>5
  <2> QED BY <2>1, <2>2, <2>3, <2>4, <2>5, <2>6
<1>12. CASE ComesBack
      BY <1>1, <1>12 DEF ComesBack
<1>13. CASE UNCHANGED dbVars
      BY <1>13 DEF dbVars
<1> QED BY <1>3, <1>4, <1>5, <1>6, <1>7, <1>8, <1>9, <1>10, <1>11, <1>12, <1>13 DEF DbNext

\* A connection that is closed counts as failed, so its interval runs.
Noticed == connection = "closed" => failedstate = TRUE

Undisturbed == connection = "open" /\ failedstate = FALSE

LEMMA NoticedNext == DbInv /\ Noticed /\ [DbNext]_dbVars => Noticed'
<1> SUFFICES ASSUME DbInv, Noticed, [DbNext]_dbVars PROVE Noticed'
    OBVIOUS
<1> USE DEF Noticed
<1>1. DB_error => failedstate' = TRUE
      BY DEF DB_error
<1>2. CASE Opened \/ db_connect
      BY <1>2 DEF Opened, db_connect
<1>3. CASE ConnectFails \/ GoesAway \/ LoadConfig \/ LoadEnds
      BY <1>1, <1>3 DEF ConnectFails, GoesAway, LoadConfig, LoadEnds
<1>4. ASSUME NEW c \in Command, SendCommand(c) \/ CommandDone(c) \/ CommandRefused(c)
      PROVE  Noticed'
      BY <1>1, <1>4 DEF SendCommand, CommandDone, CommandRefused
<1>5. CASE ComesBack
      BY <1>5 DEF ComesBack
<1>6. CASE UNCHANGED dbVars
      BY <1>6 DEF dbVars
<1> QED BY <1>2, <1>3, <1>4, <1>5, <1>6 DEF DbNext

LEMMA UndisturbedNext ==
  ASSUME DbInv, [DbNext]_dbVars, Undisturbed, reachable', refusals' = refusals
  PROVE  Undisturbed'
<1> USE DEF Undisturbed
<1>1. intervals = 0
      BY DEF DbInv
<1>2. CASE Opened \/ ConnectFails \/ db_connect \/ GoesAway
      BY <1>1, <1>2 DEF Opened, ConnectFails, db_connect, GoesAway
<1>3. CASE LoadConfig \/ LoadEnds \/ ComesBack
      BY <1>3 DEF LoadConfig, LoadEnds, ComesBack
<1>4. ASSUME NEW c \in Command, SendCommand(c) \/ CommandDone(c)
      PROVE  Undisturbed'
      BY <1>4 DEF SendCommand, CommandDone
<1>5. ASSUME NEW c \in Command, CommandRefused(c) PROVE FALSE
  <2>1. refusals \in Int
        BY DbAssumption DEF DbInv, DbTypeOK
  <2> QED BY <1>5, <2>1 DEF CommandRefused
<1>6. CASE UNCHANGED dbVars
      BY <1>6 DEF dbVars
<1> QED BY <1>2, <1>3, <1>4, <1>5, <1>6 DEF DbNext

\* What WorkerRecovers rests on, for any outages, commands and refusals: a closed
\* connection always has the interval that opens the next one, and a worker whose
\* connection is open and has not failed stays so while the database can be
\* reached and refuses no command (db/index.js).
THEOREM ReconnectionTheorem ==
  DbSpec => /\ [](connection = "closed" => intervals = 1)
            /\ [][Undisturbed /\ reachable' /\ UNCHANGED refusals => Undisturbed']_dbVars
<1>1. DbInit => Noticed
      BY DEF DbInit, Noticed
<1>2. DbInv /\ Noticed => (connection = "closed" => intervals = 1)
      BY DEF DbInv, Noticed
<1>3. DbInv /\ [DbNext]_dbVars
      => [Undisturbed /\ reachable' /\ UNCHANGED refusals => Undisturbed']_dbVars
      BY UndisturbedNext
<1> QED BY <1>1, <1>2, <1>3, DbInitInv, DbNextInv, NoticedNext, PTL DEF DbSpec

-----------------------------------------------------------------------------
(* The configuration and the name server *)

LEMMA ConfigInitType == ConfigInit => ConfigTypeOK
<1> SUFFICES ASSUME ConfigInit PROVE ConfigTypeOK
    OBVIOUS
<1>1. MaxChanges \in Nat /\ MaxRestarts \in Nat /\ Default \in Copy
      BY ConfigAssumption DEF Copy
<1> QED BY <1>1 DEF ConfigInit, ConfigTypeOK

LEMMA TakesType ==
  ASSUME ConfigTypeOK, NEW w \in Worker, NEW n \in 1..MaxLoads, NEW cfg_new \in loads[w][n],
         Takes(w, n, cfg_new)
  PROVE  ConfigTypeOK'
<1>1. cfg_new \subseteq Entry
      BY DEF ConfigTypeOK
<1> DEFINE values(key) == {e.value : e \in {f \in cfg_new : f.key = key}}
           taken == [key \in Key |->
             IF values(key) = {} THEN config[w][key] ELSE CHOOSE v \in values(key) : TRUE]
<1>2. \A key \in Key : values(key) \subseteq Value \cup {NoValue}
      BY <1>1 DEF Entry
<1>3. config[w] \in Copy
      BY DEF ConfigTypeOK
<1>4. taken \in Copy
  <2>1. ASSUME NEW key \in Key
        PROVE  (IF values(key) = {} THEN config[w][key] ELSE CHOOSE v \in values(key) : TRUE)
               \in Value \cup {NoValue}
    <3>1. config[w][key] \in Value \cup {NoValue}
          BY <1>3 DEF Copy
    <3>2. values(key) # {} => (CHOOSE v \in values(key) : TRUE) \in values(key)
      <4> HIDE DEF values
      <4> QED OBVIOUS
    <3>3. values(key) \subseteq Value \cup {NoValue}
          BY <1>2
    <3> HIDE DEF values
    <3> QED BY <3>1, <3>2, <3>3
  <2> HIDE DEF values
  <2> QED BY <2>1 DEF Copy
<1>5. config' = [config EXCEPT ![w] = taken]
      BY DEF Takes
<1> HIDE DEF taken
<1>6. config' \in [Worker -> Copy]
      BY <1>4, <1>5 DEF ConfigTypeOK
<1>7. loads' \in [Worker -> [1..MaxLoads -> SUBSET SUBSET Entry]]
      BY DEF ConfigTypeOK, Takes
<1> QED BY <1>6, <1>7 DEF ConfigTypeOK, Takes

LEMMA ConfigNextType == ConfigTypeOK /\ [ConfigNext]_configVars => ConfigTypeOK'
<1> SUFFICES ASSUME ConfigTypeOK, [ConfigNext]_configVars PROVE ConfigTypeOK'
    OBVIOUS
<1>1. MaxChanges \in Nat /\ MaxRestarts \in Nat /\ Default \in Copy
      BY ConfigAssumption DEF Copy
<1>2. ASSUME NEW key \in Key, NEW value \in Value \cup {NoValue}, Logs(key, value)
      PROVE  saving' \subseteq Entry /\ changes' \in 0..MaxChanges
  <2>1. changes + 1 \in 1..MaxChanges
        BY <1>1, <1>2 DEF ConfigTypeOK, Logs
  <2>2. [key |-> key, value |-> value, time |-> changes + 1] \in Entry
        BY <2>1 DEF Entry
  <2> QED BY <1>2, <2>1, <2>2 DEF ConfigTypeOK, Logs
<1>3. ASSUME NEW key \in Key, NEW value \in Value, set(key, value) PROVE ConfigTypeOK'
      BY <1>2, <1>3 DEF set, ConfigTypeOK
<1>4. ASSUME NEW e \in saving, Saved(e) PROVE ConfigTypeOK'
      BY <1>4 DEF Saved, ConfigTypeOK
<1>5. ASSUME NEW w \in Worker, NEW key \in Key, del(w, key) PROVE ConfigTypeOK'
  <2>1. [config[w] EXCEPT ![key] = NoValue] \in Copy
        BY DEF ConfigTypeOK, Copy
  <2>2. config' = [config EXCEPT ![w] = [config[w] EXCEPT ![key] = NoValue]]
        BY <1>5 DEF del
  <2>3. config' \in [Worker -> Copy]
        BY <2>1, <2>2 DEF ConfigTypeOK
  <2> QED BY <1>2, <1>5, <2>3 DEF del, ConfigTypeOK
<1>6. ASSUME NEW w \in Worker, NEW n \in 1..MaxLoads,
             LoadNewest(w, n) \/ update_config(w, n) \/ LoadLost(w, n)
      PROVE  ConfigTypeOK'
  <2>1. CASE LoadNewest(w, n)
        BY <2>1 DEF LoadNewest, newest, ConfigTypeOK
  <2>2. CASE update_config(w, n)
        BY <2>2, TakesType DEF update_config
  <2>3. CASE LoadLost(w, n)
        BY <2>3 DEF LoadLost, ConfigTypeOK
  <2> QED BY <1>6, <2>1, <2>2, <2>3
<1>7. ASSUME NEW w \in Worker, Restart(w) PROVE ConfigTypeOK'
      BY <1>1, <1>7 DEF Restart, ConfigTypeOK
<1>8. CASE UNCHANGED configVars
      BY <1>8 DEF configVars, ConfigTypeOK
<1> QED BY <1>3, <1>4, <1>5, <1>6, <1>7, <1>8 DEF ConfigNext

\* The clock of the entries is never behind them, so no two have the same time.
Stamped ==
  /\ \A e \in saving \cup entries : e.time <= changes
  /\ \A e, f \in saving \cup entries : e.time = f.time => e = f

\* Loads find entries of the log, one of a key.
FoundInLog == \A w \in Worker, n \in 1..MaxLoads : \A cfg_new \in loads[w][n] :
  /\ cfg_new \subseteq entries
  /\ \A e, f \in cfg_new : e.key = f.key => e = f

\* Every value a worker works with is a default or was logged, or its key was
\* removed.
ValuesLogged == \A w \in Worker, key \in Key :
  \/ config[w][key] \in {Default[key], NoValue}
  \/ \E e \in entries : e.key = key /\ e.value = config[w][key]

\* All workers have what was logged last, and no load under way knows less.
Synchronized == \A w \in Worker :
  /\ \A e \in newest : config[w][e.key] = e.value
  /\ \A n \in 1..MaxLoads : \A cfg_new \in loads[w][n] : cfg_new = newest

ConfigInv == ConfigTypeOK /\ Stamped /\ FoundInLog /\ ValuesLogged

LEMMA OneNewest ==
  ASSUME ConfigTypeOK, Stamped, NEW e \in newest, NEW f \in newest, e.key = f.key
  PROVE  e = f
<1>1. e \in entries /\ f \in entries /\ e.time <= f.time /\ f.time <= e.time
      BY DEF newest
<1>2. e.time \in Int /\ f.time \in Int
      BY <1>1 DEF ConfigTypeOK, Entry
<1> QED BY <1>1, <1>2 DEF Stamped

\* What a worker has after a load that found one entry of a key at most.
LEMMA TakenValue ==
  ASSUME ConfigTypeOK, NEW w \in Worker, NEW n \in 1..MaxLoads, NEW cfg_new, NEW key \in Key,
         Takes(w, n, cfg_new), \A e, f \in cfg_new : e.key = f.key => e = f
  PROVE  /\ \A v \in Worker : v # w => config'[v] = config[v]
         /\ \A e \in cfg_new : e.key = key => config'[w][key] = e.value
         /\ (\A e \in cfg_new : e.key # key) => config'[w][key] = config[w][key]
<1> DEFINE values(k) == {e.value : e \in {f \in cfg_new : f.key = k}}
           chosen_(k) == CHOOSE v \in values(k) : TRUE
           taken == [k \in Key |-> IF values(k) = {} THEN config[w][k] ELSE chosen_(k)]
<1>1. config' = [config EXCEPT ![w] = taken]
      BY DEF Takes
<1>2. config'[w] = taken /\ \A v \in Worker : v # w => config'[v] = config[v]
  <2> HIDE DEF taken
  <2> QED BY <1>1 DEF ConfigTypeOK
<1>3. taken[key] = IF values(key) = {} THEN config[w][key] ELSE chosen_(key)
  <2> HIDE DEF values, chosen_
  <2> QED OBVIOUS
<1>4. ASSUME NEW e \in cfg_new, e.key = key PROVE chosen_(key) = e.value /\ values(key) # {}
  <2>1. values(key) = {e.value}
        BY <1>4
  <2>2. chosen_(key) \in {e.value}
    <3> HIDE DEF values
    <3> QED BY <2>1
  <2> QED BY <2>1, <2>2
<1>5. (\A e \in cfg_new : e.key # key) => values(key) = {}
      OBVIOUS
<1> HIDE DEF values, chosen_, taken
<1> QED BY <1>2, <1>3, <1>4, <1>5

LEMMA ConfigInvNext == ConfigInv /\ [ConfigNext]_configVars => ConfigInv'
<1> SUFFICES ASSUME ConfigInv, [ConfigNext]_configVars PROVE Stamped' /\ FoundInLog' /\ ValuesLogged'
    BY ConfigNextType DEF ConfigInv
<1> USE DEF ConfigInv
<1>0. /\ changes \in Int /\ \A e \in saving \cup entries : e.time \in Int
      /\ saving \subseteq Entry /\ entries \subseteq Entry
      BY DEF ConfigTypeOK, Entry
<1>1. ASSUME NEW key \in Key, NEW value, Logs(key, value), entries' = entries PROVE Stamped'
  <2> DEFINE e == [key |-> key, value |-> value, time |-> changes + 1]
  <2>1. saving' = saving \cup {e} /\ changes' = changes + 1 /\ e.time = changes + 1
        BY <1>1 DEF Logs
  <2> HIDE DEF e
  <2> QED BY <1>0, <1>1, <2>1 DEF Stamped
<1>2. ASSUME NEW key \in Key, NEW value \in Value, set(key, value)
      PROVE  Stamped' /\ FoundInLog' /\ ValuesLogged'
  <2>1. entries' = entries /\ UNCHANGED <<config, loads>> /\ Logs(key, value)
        BY <1>2 DEF set
  <2> QED BY <1>1, <2>1 DEF FoundInLog, ValuesLogged
<1>3. ASSUME NEW w \in Worker, NEW key \in Key, del(w, key)
      PROVE  Stamped' /\ FoundInLog' /\ ValuesLogged'
  <2>1. entries' = entries /\ UNCHANGED loads /\ Logs(key, NoValue)
        /\ config' = [config EXCEPT ![w][key] = NoValue]
        BY <1>3 DEF del
  <2>2. \A v \in Worker, k \in Key : config'[v][k] \in {config[v][k], NoValue}
        BY <2>1 DEF ConfigTypeOK, Copy
  <2>3. ValuesLogged'
        BY <2>1, <2>2 DEF ValuesLogged
  <2> QED BY <1>1, <2>1, <2>3 DEF FoundInLog
<1>4. ASSUME NEW e \in saving, Saved(e) PROVE Stamped' /\ FoundInLog' /\ ValuesLogged'
  <2>1. /\ saving' \cup entries' \subseteq saving \cup entries /\ entries \subseteq entries'
        /\ UNCHANGED <<config, loads, changes>>
        BY <1>4 DEF Saved
  <2> QED BY <2>1 DEF Stamped, FoundInLog, ValuesLogged
<1>5. ASSUME NEW w \in Worker, NEW n \in 1..MaxLoads, LoadNewest(w, n)
      PROVE  Stamped' /\ FoundInLog' /\ ValuesLogged'
  <2>1. /\ UNCHANGED <<config, saving, entries, changes>>
        /\ \A v \in Worker, m \in 1..MaxLoads : \A cfg_new \in loads'[v][m] :
             cfg_new \in loads[v][m] \/ cfg_new = newest
        BY <1>5 DEF LoadNewest, ConfigTypeOK
  <2>2. newest \subseteq entries /\ \A e, f \in newest : e.key = f.key => e = f
        BY OneNewest DEF newest
  <2>3. FoundInLog'
        BY <2>1, <2>2 DEF FoundInLog
  <2> QED BY <2>1, <2>3 DEF Stamped, ValuesLogged
<1>6. ASSUME NEW w \in Worker, NEW n \in 1..MaxLoads, update_config(w, n)
      PROVE  Stamped' /\ FoundInLog' /\ ValuesLogged'
  <2>1. PICK cfg_new \in loads[w][n] : Takes(w, n, cfg_new)
        BY <1>6 DEF update_config
  <2>2. cfg_new \subseteq entries /\ \A e, f \in cfg_new : e.key = f.key => e = f
        BY DEF FoundInLog
  <2>3. /\ UNCHANGED <<saving, entries, changes>>
        /\ \A v \in Worker, m \in 1..MaxLoads : loads'[v][m] \subseteq loads[v][m]
        BY <2>1 DEF Takes, ConfigTypeOK
  <2>4. ASSUME NEW v \in Worker, NEW key \in Key
        PROVE  \/ config'[v][key] = config[v][key]
               \/ \E e \in entries : e.key = key /\ e.value = config'[v][key]
        BY <2>1, <2>2, TakenValue
  <2>5. ValuesLogged'
    <3> SUFFICES ASSUME NEW v \in Worker, NEW key \in Key
                 PROVE  \/ config'[v][key] \in {Default[key], NoValue}
                        \/ \E e \in entries : e.key = key /\ e.value = config'[v][key]
        BY <2>3 DEF ValuesLogged
    <3> QED BY <2>4 DEF ValuesLogged
  <2> QED BY <2>3, <2>5 DEF Stamped, FoundInLog
<1>7. ASSUME NEW w \in Worker, NEW n \in 1..MaxLoads, LoadLost(w, n)
      PROVE  Stamped' /\ FoundInLog' /\ ValuesLogged'
  <2>1. /\ UNCHANGED <<config, saving, entries, changes>>
        /\ \A v \in Worker, m \in 1..MaxLoads : loads'[v][m] \subseteq loads[v][m]
        BY <1>7 DEF LoadLost, ConfigTypeOK
  <2> QED BY <2>1 DEF Stamped, FoundInLog, ValuesLogged
<1>8. ASSUME NEW w \in Worker, Restart(w) PROVE Stamped' /\ FoundInLog' /\ ValuesLogged'
  <2>1. /\ UNCHANGED <<saving, entries, changes>>
        /\ \A v \in Worker, m \in 1..MaxLoads : loads'[v][m] \subseteq loads[v][m]
        /\ \A v \in Worker : config'[v] = config[v] \/ config'[v] = Default
        BY <1>8 DEF Restart, ConfigTypeOK
  <2>2. ValuesLogged'
        BY <2>1 DEF ValuesLogged
  <2> QED BY <2>1, <2>2 DEF Stamped, FoundInLog
<1>9. CASE UNCHANGED configVars
      BY <1>9 DEF configVars, Stamped, FoundInLog, ValuesLogged, newest
<1> QED BY <1>2, <1>3, <1>4, <1>5, <1>6, <1>7, <1>8, <1>9 DEF ConfigNext

LEMMA SynchronizedNext ==
  ASSUME ConfigInv, [ConfigNext]_configVars, Synchronized, UNCHANGED <<entries, changes, restarts>>
  PROVE  Synchronized'
<1> USE DEF ConfigInv
<1>0. newest' = newest /\ changes \in Int /\ restarts \in Int
      BY ConfigAssumption DEF newest, ConfigTypeOK
<1>1. ASSUME NEW key \in Key, NEW value, Logs(key, value) PROVE FALSE
      BY <1>0, <1>1 DEF Logs
<1>2. ASSUME NEW w \in Worker, Restart(w) PROVE FALSE
      BY <1>0, <1>2 DEF Restart
<1>3. ASSUME NEW e \in saving, Saved(e) PROVE Synchronized'
      BY <1>0, <1>3 DEF Saved, Synchronized
<1>4. ASSUME NEW w \in Worker, NEW n \in 1..MaxLoads, LoadNewest(w, n) \/ LoadLost(w, n)
      PROVE  Synchronized'
  <2>1. CASE LoadNewest(w, n)
    <3>1. /\ UNCHANGED config
          /\ \A v \in Worker, m \in 1..MaxLoads : \A cfg_new \in loads'[v][m] :
               cfg_new \in loads[v][m] \/ cfg_new = newest
          BY <2>1 DEF LoadNewest, ConfigTypeOK
    <3> QED BY <1>0, <3>1 DEF Synchronized
  <2>2. CASE LoadLost(w, n)
    <3>1. /\ UNCHANGED config
          /\ \A v \in Worker, m \in 1..MaxLoads : loads'[v][m] \subseteq loads[v][m]
          BY <2>2 DEF LoadLost, ConfigTypeOK
    <3> QED BY <1>0, <3>1 DEF Synchronized
  <2> QED BY <1>4, <2>1, <2>2
<1>5. ASSUME NEW w \in Worker, NEW n \in 1..MaxLoads, update_config(w, n)
      PROVE  Synchronized'
  <2>1. PICK cfg_new \in loads[w][n] : Takes(w, n, cfg_new)
        BY <1>5 DEF update_config
  <2>2. cfg_new = newest
        BY DEF Synchronized
  <2>3. \A e, f \in cfg_new : e.key = f.key => e = f
        BY DEF FoundInLog
  <2>4. \A v \in Worker, m \in 1..MaxLoads : loads'[v][m] \subseteq loads[v][m]
        BY <2>1 DEF Takes, ConfigTypeOK
  <2>5. ASSUME NEW v \in Worker, NEW e \in newest PROVE config'[v][e.key] = e.value
    <3>1. e.key \in Key /\ config[v][e.key] = e.value
          BY DEF newest, ConfigTypeOK, Entry, Synchronized
    <3> QED BY <2>1, <2>2, <2>3, <3>1, TakenValue
  <2> QED BY <1>0, <2>4, <2>5 DEF Synchronized
<1>6. CASE UNCHANGED configVars
      BY <1>0, <1>6 DEF configVars, Synchronized
<1> QED BY <1>1, <1>2, <1>3, <1>4, <1>5, <1>6 DEF ConfigNext, set, del

\* What WorkersConverge rests on, for any workers, keys, changes, deaths and loads
\* that overtake each other: no worker ever works with a value that nobody logged,
\* and once all agree on the newest entries they stay so until one is added or a
\* worker starts anew (config/index.js).
THEOREM ConfigTheorem ==
  ConfigSpec => /\ []ValuesLogged
                /\ [][Synchronized /\ UNCHANGED <<entries, changes, restarts>>
                      => Synchronized']_configVars
<1>1. ConfigInit => ConfigInv
  <2> SUFFICES ASSUME ConfigInit PROVE Stamped /\ FoundInLog /\ ValuesLogged
      BY ConfigInitType DEF ConfigInv
  <2> QED BY DEF ConfigInit, Stamped, FoundInLog, ValuesLogged
<1>2. ConfigInv => ValuesLogged
      BY DEF ConfigInv
<1>3. ConfigInv /\ [ConfigNext]_configVars
      => [Synchronized /\ UNCHANGED <<entries, changes, restarts>> => Synchronized']_configVars
      BY SynchronizedNext
<1> QED BY <1>1, <1>2, <1>3, ConfigInvNext, PTL DEF ConfigSpec

LEMMA DnsInitType == DnsInit => DnsTypeOK
<1>1. Len(lookup) \in Nat
      BY DnsAssumption
<1> QED BY <1>1, DnsAssumption DEF DnsInit, DnsTypeOK

LEMMA DnsNextType == DnsTypeOK /\ [DnsNext]_dnsVars => DnsTypeOK'
<1> SUFFICES ASSUME DnsTypeOK, [DnsNext]_dnsVars PROVE DnsTypeOK'
    OBVIOUS
<1>1. Len(lookup) \in Nat /\ DOMAIN lookup = 1..Len(lookup)
      /\ \A n \in DOMAIN lookup : lookup[n] \subseteq Ip
      BY DnsAssumption
<1> USE DEF DnsTypeOK
<1>2. ASSUME NEW ip \in Ip, NEW n \in 1..MaxProbes,
             \/ failover_heartbeat(ip, n) \/ ServerAnswers(ip, n) \/ heartbeat_probe(ip, n)
      PROVE  DnsTypeOK'
  <2> DEFINE Found == {"none", "sent", "success", "error"}
  <2>1. PICK found \in Found : probes' = [probes EXCEPT ![ip][n] = found]
        BY <1>2 DEF failover_heartbeat, ServerAnswers, heartbeat_probe
  <2>2. [probes[ip] EXCEPT ![n] = found] \in [1..MaxProbes -> Found]
        OBVIOUS
  <2>3. probes' = [probes EXCEPT ![ip] = [probes[ip] EXCEPT ![n] = found]]
        BY <2>1
  <2>4. probes' \in [Ip -> [1..MaxProbes -> Found]]
        BY <2>2, <2>3
  <2>5. working' \in [Ip -> {"undefined", "true", "false"}]
        BY <1>2 DEF failover_heartbeat, ServerAnswers, heartbeat_probe
  <2> QED BY <1>2, <2>4, <2>5 DEF failover_heartbeat, ServerAnswers, heartbeat_probe
<1>3. ASSUME NEW ip \in Ip, Flip(ip) PROVE DnsTypeOK'
      BY <1>3, DnsAssumption DEF Flip
<1>4. ASSUME NEW n \in DOMAIN lookup, Ask(n) PROVE DnsTypeOK'
      BY <1>1, <1>4 DEF Ask
<1>5. CASE failover_address
  <2>1. lookup[asked] \subseteq Ip
        BY <1>1, <1>5 DEF failover_address
  <2> QED BY <1>1, <1>5, <2>1 DEF failover_address
<1>6. CASE Expires
      BY <1>6 DEF Expires
<1>7. CASE UNCHANGED dnsVars
      BY <1>7 DEF dnsVars
<1> QED BY <1>2, <1>3, <1>4, <1>5, <1>6, <1>7 DEF DnsNext

\* Whatever is not probed is never believed to work.
OnlyProbed ==
  /\ told \subseteq Probed
  /\ \A ip \in Ip \ Probed :
       /\ working[ip] = "undefined"
       /\ \A n \in 1..MaxProbes : probes[ip][n] = "none"

\* What the name server, its probes under way and who asked last know of the
\* servers is true.
Accurate ==
  /\ \A ip \in Probed :
       /\ working[ip] = IF ip \in online THEN "true" ELSE "false"
       /\ \A n \in 1..MaxProbes : /\ probes[ip][n] = "success" => ip \in online
                                  /\ probes[ip][n] = "error" => ip \notin online
  /\ told \subseteq online

DnsInv == DnsTypeOK /\ OnlyProbed

LEMMA ProbedServers ==
  /\ Probed \subseteq Ip
  /\ \A n \in DOMAIN lookup : lookup[n] \subseteq Ip
  /\ DOMAIN lookup = 1..Len(lookup) /\ Len(lookup) \in Nat
BY DnsAssumption DEF Probed

\* An answer names a server of the asked pool that counts as working.
LEMMA ToldWorks ==
  ASSUME DnsTypeOK, failover_address
  PROVE  told' = told \/ \E ip \in Ip : working[ip] = "true" /\ told' = {ip}
<1>1. asked \in DOMAIN lookup
      BY ProbedServers DEF failover_address, DnsTypeOK
<1> QED BY <1>1, ProbedServers DEF failover_address

\* A step changes the probe of one server, and what it says of another not.
LEMMA ProbeStep ==
  ASSUME DnsTypeOK, NEW ip \in Ip, NEW n \in 1..MaxProbes,
         failover_heartbeat(ip, n) \/ ServerAnswers(ip, n) \/ heartbeat_probe(ip, n)
  PROVE  /\ ip \in Probed \/ probes[ip][n] # "none"
         /\ UNCHANGED <<online, told>>
         /\ \A j \in Ip, m \in 1..MaxProbes :
              \/ probes'[j][m] = probes[j][m]
              \/ j = ip /\ \/ probes'[j][m] \in {"none", "sent"}
                           \/ probes'[j][m] = IF ip \in online THEN "success" ELSE "error"
         /\ \A j \in Ip : \/ working'[j] = working[j]
                          \/ /\ j = ip /\ probes[ip][n] \in {"success", "error"}
                             /\ working'[j] = IF probes[ip][n] = "success" THEN "true" ELSE "false"
<1>1. CASE failover_heartbeat(ip, n)
      BY <1>1 DEF failover_heartbeat, DnsTypeOK
<1>2. CASE ServerAnswers(ip, n)
      BY <1>2 DEF ServerAnswers, DnsTypeOK
<1>3. CASE heartbeat_probe(ip, n)
      BY <1>3 DEF heartbeat_probe, DnsTypeOK
<1> QED BY <1>1, <1>2, <1>3

LEMMA DnsNextInv == DnsInv /\ [DnsNext]_dnsVars => DnsInv'
<1> SUFFICES ASSUME DnsInv, [DnsNext]_dnsVars PROVE OnlyProbed'
    BY DnsNextType DEF DnsInv
<1> USE DEF DnsInv
<1>1. Probed' = Probed
      BY DEF Probed
<1>2. ASSUME NEW ip \in Ip, NEW n \in 1..MaxProbes,
             failover_heartbeat(ip, n) \/ ServerAnswers(ip, n) \/ heartbeat_probe(ip, n)
      PROVE  OnlyProbed'
  <2>1. ip \in Probed
        BY <1>2, ProbeStep DEF OnlyProbed
  <2> QED BY <1>1, <1>2, <2>1, ProbeStep DEF OnlyProbed
<1>3. ASSUME NEW ip \in Ip, Flip(ip) PROVE OnlyProbed'
      BY <1>1, <1>3 DEF Flip, OnlyProbed
<1>4. ASSUME NEW n \in DOMAIN lookup, Ask(n) PROVE OnlyProbed'
      BY <1>1, <1>4 DEF Ask, OnlyProbed
<1>5. CASE failover_address
  <2>1. told' \subseteq Probed
        BY <1>5, ToldWorks DEF OnlyProbed
  <2>2. UNCHANGED <<working, probes>>
        BY <1>5 DEF failover_address
  <2> QED BY <1>1, <2>1, <2>2 DEF OnlyProbed
<1>6. CASE Expires
      BY <1>1, <1>6 DEF Expires, OnlyProbed
<1>7. CASE UNCHANGED dnsVars
      BY <1>1, <1>7 DEF dnsVars, OnlyProbed
<1> QED BY <1>2, <1>3, <1>4, <1>5, <1>6, <1>7 DEF DnsNext

LEMMA AccurateNext ==
  ASSUME DnsInv, [DnsNext]_dnsVars, Accurate, UNCHANGED online
  PROVE  Accurate'
<1> USE DEF DnsInv
<1>1. Probed' = Probed /\ Probed \subseteq Ip
      BY ProbedServers DEF Probed
<1>2. ASSUME NEW ip \in Ip, NEW n \in 1..MaxProbes,
             failover_heartbeat(ip, n) \/ ServerAnswers(ip, n) \/ heartbeat_probe(ip, n)
      PROVE  Accurate'
  <2>1. ASSUME NEW j \in Probed PROVE working'[j] = IF j \in online THEN "true" ELSE "false"
        BY <1>1, <1>2, <2>1, ProbeStep DEF Accurate
  <2>2. ASSUME NEW j \in Probed, NEW m \in 1..MaxProbes
        PROVE  /\ probes'[j][m] = "success" => j \in online
               /\ probes'[j][m] = "error" => j \notin online
        BY <1>1, <1>2, <2>2, ProbeStep DEF Accurate
  <2>3. told' = told
        BY <1>2, ProbeStep
  <2> QED BY <1>1, <2>1, <2>2, <2>3 DEF Accurate
<1>3. ASSUME NEW ip \in Ip, Flip(ip) PROVE FALSE
      BY <1>3 DEF Flip
<1>4. ASSUME NEW n \in DOMAIN lookup, Ask(n) PROVE Accurate'
      BY <1>1, <1>4 DEF Ask, Accurate
<1>5. CASE failover_address
  <2>1. ASSUME NEW ip \in Ip, working[ip] = "true" PROVE ip \in online
        BY <2>1 DEF Accurate, OnlyProbed
  <2>2. told' \subseteq online
        BY <1>5, <2>1, ToldWorks DEF Accurate
  <2>3. UNCHANGED <<working, probes>>
        BY <1>5 DEF failover_address
  <2> QED BY <1>1, <2>2, <2>3 DEF Accurate
<1>6. CASE Expires
      BY <1>1, <1>6 DEF Expires, Accurate
<1>7. CASE UNCHANGED dnsVars
      BY <1>1, <1>7 DEF dnsVars, Accurate
<1> QED BY <1>2, <1>3, <1>4, <1>5, <1>6, <1>7 DEF DnsNext

\* What FailsOver rests on, for any servers, pools and overlapping probes: nobody is
\* ever sent to a server that is not probed, and once all that is known of the
\* servers is true it stays so until one stops or starts, whatever answers are
\* still under way (main.js).
THEOREM DnsTheorem ==
  DnsSpec => /\ [](told \subseteq Probed)
             /\ [][Accurate /\ UNCHANGED online => Accurate']_dnsVars
<1>1. DnsInit => DnsInv
      BY DnsInitType, ProbedServers DEF DnsInit, DnsInv, OnlyProbed
<1>2. DnsInv => told \subseteq Probed
      BY DEF DnsInv, OnlyProbed
<1>3. DnsInv /\ [DnsNext]_dnsVars => [Accurate /\ UNCHANGED online => Accurate']_dnsVars
      BY AccurateNext
<1> QED BY <1>1, <1>2, <1>3, DnsNextInv, PTL DEF DnsSpec

-----------------------------------------------------------------------------
(* All of them *)

ServicesInv == QueryInv /\ ConfigTypeOK /\ DbInv /\ DnsTypeOK /\ ClusterInv

\* The parts keep their types together, of any size, and the database of a
\* worker is reconnected by one interval at most, which runs exactly while the
\* connection counts as failed (db/index.js).
THEOREM ServicesTypeTheorem == Spec => []ServicesTypeOK
<1>1. Init => ServicesInv
      BY QueryInitInv, ConfigInitType, DbInitInv, DnsInitType, ClusterInitInv
      DEF Init, ServicesInv
<1>2. ServicesInv /\ [Next]_vars => ServicesInv'
      BY QueryNextInv, ConfigNextType, DbNextInv, DnsNextType, ClusterNextInv
      DEF Next, vars, ServicesInv
<1>3. ServicesInv => ServicesTypeOK
      BY DEF ServicesInv, ServicesTypeOK, QueryInv, DbInv, ClusterInv
<1> QED BY <1>1, <1>2, <1>3, PTL DEF Spec
=============================================================================
