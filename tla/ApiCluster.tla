------------------------------- MODULE ApiCluster -------------------------------
(***************************************************************************)
(* The processes of the API server: workers take requests, check them and  *)
(* run their actions (main.js, actions/index.js, common/cert.js); the      *)
(* master forks them, again when one dies, and collects what they report   *)
(* of each request (monitor.js).                                           *)
(***************************************************************************)
EXTENDS Integers, Sequences, FiniteSets

CONSTANTS
  Process,    \* the workers, one per CPU core
  Incoming,   \* requests: [id, body, polls, cert, hashfiles]
  HashFiles,  \* per certificate: the files of common/cert that hold its hash
  MaxAnswers, \* bound: calls of API_answer by one run of an action
  MaxDeaths   \* bound: workers that die of something else than a request

NoCert == "none"

ASSUME ClusterAssumption ==
  /\ {MaxAnswers, MaxDeaths} \subseteq Nat
  /\ IsFiniteSet(Process) /\ {"new", "over"} \cap Process = {}
  /\ \A c \in DOMAIN HashFiles : IsFiniteSet(HashFiles[c])
  /\ \A r \in Incoming :
       /\ r.body \in {"sound", "unknown action", "unreadable", "garbled"}
       /\ r.polls \in BOOLEAN
       /\ r.cert \in DOMAIN HashFiles \cup {NoCert}
       /\ IsFiniteSet(r.hashfiles)

VARIABLES
  alive,     \* the workers that run
  monitored, \* the workers whose messages the master listens to
  forks,     \* workers that will be forked
  stage,     \* of a request: new, the worker that runs its action, or over
  runs,      \* how often a request's action was started
  ended,     \* history: calls of res.end
  reports,   \* messages of each worker to the master
  perfdata,  \* what the master has noted of a request, {} for no entry
  timers,    \* requests whose entry will be deleted
  deaths     \* counter of MaxDeaths

clusterVars == <<alive, monitored, forks, stage, runs, ended, reports, perfdata, timers, deaths>>

Mark == {"req_begin", "req_after_decrypt", "req_after_action", "req_end"}
Message == [type : Mark, id : Incoming]

ClusterTypeOK ==
  /\ alive \subseteq Process /\ monitored \subseteq Process
  /\ forks \in 0..Cardinality(Process)
  /\ stage \in [Incoming -> {"new", "over"} \cup Process]
  /\ runs \in [Incoming -> Nat] /\ ended \in [Incoming -> Nat]
  /\ reports \in [Process -> Seq(Message)]
  /\ perfdata \in [Incoming -> SUBSET Mark] /\ timers \subseteq Incoming
  /\ deaths \in 0..MaxDeaths

-----------------------------------------------------------------------------
(* Workers *)

\* Nothing is reported of polls.
Reports(w, r, types) ==
  reports' = IF r.polls \/ w \notin monitored THEN reports
             ELSE [reports EXCEPT ![w] =
                     @ \o [n \in DOMAIN types |-> [type |-> types[n], id |-> r]]]

\* cert.check calls back for every file that matches: a certificate whose hash is
\* in two of them has the action run twice.
Matches(r) == IF r.cert = NoCert THEN {} ELSE r.hashfiles \cap HashFiles[r.cert]
Accepts(r) == IF r.hashfiles = {} THEN 1 ELSE Cardinality(Matches(r))

TakenTo(next, w, r) ==
  /\ w \in alive /\ stage[r] = "new"
  /\ stage' = [stage EXCEPT ![r] = next]

prepare_action(w, r) ==
  /\ r.body = "sound" /\ Accepts(r) > 0
  /\ TakenTo(w, w, r)
  /\ runs' = [runs EXCEPT ![r] = @ + Accepts(r)]
  /\ Reports(w, r, <<"req_begin", "req_after_decrypt">>)
  /\ UNCHANGED <<alive, monitored, forks, ended, perfdata, timers, deaths>>

\* An unknown action and a body that cannot be read are reported as begun only.
Refuse(w, r) ==
  /\ r.body \in {"unknown action", "unreadable"} \/ (r.body = "sound" /\ Accepts(r) = 0)
  /\ TakenTo("over", w, r)
  /\ ended' = [ended EXCEPT ![r] = @ + 1]
  /\ Reports(w, r, IF r.body = "sound"
       THEN <<"req_begin", "req_after_decrypt", "req_after_action", "req_end">>
       ELSE <<"req_begin">>)
  /\ UNCHANGED <<alive, monitored, forks, runs, perfdata, timers, deaths>>

OneTimer(w, over) ==
  /\ w \in alive
  /\ alive' = alive \ {w}
  /\ forks' = 1
  /\ stage' = [r \in Incoming |-> IF stage[r] = w \/ r \in over THEN "over" ELSE stage[r]]

\* The actions that it runs are lost.  Every exit starts a timer of its own.
Dies(w, over) ==
  /\ w \in alive
  /\ alive' = alive \ {w}
  /\ forks' = forks + 1
  /\ stage' = [r \in Incoming |-> IF stage[r] = w \/ r \in over THEN "over" ELSE stage[r]]

\* What does not decrypt is answered, and then its certificate is read all the
\* same: an exception that nobody catches.
decrypt_query_fails(w, r) ==
  /\ r.body = "garbled"
  /\ stage[r] = "new"
  /\ ended' = [ended EXCEPT ![r] = @ + 1]
  /\ Reports(w, r, <<"req_begin", "req_after_action", "req_end", "req_after_decrypt">>)
  /\ Dies(w, {r})
  /\ UNCHANGED <<monitored, runs, perfdata, timers, deaths>>

\* By whichever callback of the action, or because it has thrown; each run of the
\* action answers and reports on its own.
API_answer(r) ==
  /\ stage[r] \in Process /\ ended[r] < MaxAnswers * runs[r]
  /\ ended' = [ended EXCEPT ![r] = @ + 1]
  /\ Reports(stage[r], r, <<"req_after_action", "req_end">>)
  /\ UNCHANGED <<alive, monitored, forks, stage, runs, perfdata, timers, deaths>>

\* Reports that have not been received may be lost.
Die(w) ==
  /\ deaths < MaxDeaths
  /\ deaths' = deaths + 1
  /\ Dies(w, {})
  /\ \E n \in 0..Len(reports[w]) : reports' = [reports EXCEPT ![w] = SubSeq(@, 1, n)]
  /\ UNCHANGED <<monitored, runs, ended, perfdata, timers>>

-----------------------------------------------------------------------------
(* The master *)

\* After worker_restart.  Nobody calls monitor for the new worker.
fork(w) ==
  /\ forks > 0 /\ w \notin alive
  /\ forks' = forks - 1
  /\ alive' = alive \cup {w}
  /\ monitored' = monitored \ {w}
  /\ UNCHANGED <<stage, runs, ended, reports, perfdata, timers, deaths>>

Anything(msg) == TRUE
Known(msg) == perfdata[msg.id] # {} \/ msg.type = "req_begin"

on_message(w) ==
  /\ reports[w] # <<>>
  /\ reports' = [reports EXCEPT ![w] = Tail(@)]
  /\ LET msg == Head(reports[w])
     IN  /\ perfdata' = IF Known(msg) THEN [perfdata EXCEPT ![msg.id] = @ \cup {msg.type}]
                        ELSE perfdata
         /\ timers' = IF msg.type = "req_begin" THEN timers \cup {msg.id} ELSE timers
  /\ UNCHANGED <<alive, monitored, forks, stage, runs, ended, deaths>>

\* report_deprecate
Deprecate(r) ==
  /\ r \in timers
  /\ timers' = timers \ {r}
  /\ perfdata' = [perfdata EXCEPT ![r] = {}]
  /\ UNCHANGED <<alive, monitored, forks, stage, runs, ended, reports, deaths>>

-----------------------------------------------------------------------------
ClusterInit ==
  /\ alive = Process /\ monitored = Process /\ forks = 0
  /\ stage = [r \in Incoming |-> "new"]
  /\ runs = [r \in Incoming |-> 0] /\ ended = [r \in Incoming |-> 0]
  /\ reports = [w \in Process |-> <<>>]
  /\ perfdata = [r \in Incoming |-> {}] /\ timers = {}
  /\ deaths = 0

ClusterNext ==
  \/ \E w \in Process, r \in Incoming :
       prepare_action(w, r) \/ Refuse(w, r) \/ decrypt_query_fails(w, r)
  \/ \E r \in Incoming : API_answer(r) \/ Deprecate(r)
  \/ \E w \in Process : Die(w) \/ fork(w) \/ on_message(w)

ClusterSpec == ClusterInit /\ [][ClusterNext]_clusterVars

\* Timers fire; nobody has to send requests, to answer or to die.
ClusterFairness == WF_clusterVars(\E w \in Process : fork(w))

-----------------------------------------------------------------------------
(* Properties *)

\* As many workers as cores run again in the end, although requests that do not
\* decrypt end workers, also several before the first of them is forked again
\* (main.js:50, "Restarting after").
WorkersReturn == <>[](alive = Process)

\* Every entry of the statistics is going to be deleted, although reports of a
\* request arrive after its entry has gone.
NoOrphan == \A r \in Incoming : perfdata[r] # {} => r \in timers
=============================================================================
