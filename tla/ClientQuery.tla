------------------------------- MODULE ClientQuery ------------------------------
(***************************************************************************)
(* How every client reaches the server (client/common/api.js): it pings    *)
(* the intranet address, then the gateways in a random order, and posts    *)
(* its query to the first that answers the ping.                           *)
(***************************************************************************)
EXTENDS Integers, Sequences, SequencesExt, FiniteSets

CONSTANTS
  Query,     \* queries the user may start: [id, certified]
  Gateway,   \* GATEWAYS
  MaxOutages \* bound: changes of what answers at an address

Intranet == "intranet"
Url == {Intranet} \cup Gateway

ASSUME QueryAssumption ==
  /\ IsFiniteSet(Gateway) /\ Gateway # {} /\ Intranet \notin Gateway
  /\ MaxOutages \in Nat
  /\ \A q \in Query : q.certified \in BOOLEAN

VARIABLES
  answering, \* per address: the server, nobody, or somebody else
  GATEWAYS,  \* the array, sorted in place by every query that needs it
  phase,     \* per query
  URL,       \* the address a query pings or posts to
  gwidx,     \* gateways a query has taken from the array
  server,    \* what the server does with the post: waits for it, has it, has executed it
  executions,\* history: how often it executed the query
  result,    \* the flag that the callback was given
  outages    \* counter of MaxOutages

queryVars == <<answering, GATEWAYS, phase, URL, gwidx, server, executions,
               result, outages>>

QueryTypeOK ==
  /\ answering \in [Url -> {"server", "nobody", "spoofer"}]
  /\ GATEWAYS \in SetToSeqs(Gateway)
  /\ phase \in [Query -> {"new", "cert", "ping", "post", "done"}]
  /\ URL \in [Query -> Url]
  /\ gwidx \in [Query -> 0..Cardinality(Gateway)]
  /\ server \in [Query -> {"waits", "received", "executed"}]
  /\ executions \in [Query -> Nat]
  /\ result \in [Query -> {"none", "SUCCESS_INTRANET", "SUCCESS_INTERNET", "ERROR",
                           "ERROR_UNKNOWN", "ERROR_SPOOF", "ERROR_ENCRYPTION"}]
  /\ outages \in 0..MaxOutages

-----------------------------------------------------------------------------
ping(q, url) ==
  /\ phase' = [phase EXCEPT ![q] = "ping"]
  /\ URL' = [URL EXCEPT ![q] = url]

callback(q, flag) ==
  /\ phase' = [phase EXCEPT ![q] = "done"]
  /\ result' = [result EXCEPT ![q] = flag]

\* action, or action_cert and action_mastercert, which read a file first.
StartQuery(q) ==
  /\ phase[q] = "new"
  /\ IF q.certified
       THEN phase' = [phase EXCEPT ![q] = "cert"] /\ UNCHANGED URL
       ELSE ping(q, Intranet)
  /\ UNCHANGED <<answering, GATEWAYS, gwidx, server, executions, result, outages>>

\* A file that cannot be read calls nobody back.
CertRead(q) ==
  /\ phase[q] = "cert"
  /\ ping(q, Intranet)
  /\ UNCHANGED <<answering, GATEWAYS, gwidx, server, executions, result, outages>>

PingSuccess(q) ==
  /\ phase[q] = "ping"
  /\ \/ /\ answering[URL[q]] = "server"
        /\ phase' = [phase EXCEPT ![q] = "post"]
        /\ UNCHANGED result
     \/ answering[URL[q]] = "spoofer" /\ callback(q, "ERROR_SPOOF")
  /\ UNCHANGED <<answering, GATEWAYS, URL, gwidx, server, executions, outages>>

\* next: the position counts in the query, the array is everybody's.
next(q, gateways) ==
  /\ ping(q, gateways[gwidx[q] + 1])
  /\ gwidx' = [gwidx EXCEPT ![q] = @ + 1]

\* Nobody answers, or the server is too slow; answers after that are not heard.
PingError(q) ==
  /\ phase[q] = "ping"
  /\ \/ /\ URL[q] = Intranet
        /\ \E sorted \in SetToSeqs(Gateway) : GATEWAYS' = sorted /\ next(q, sorted)
        /\ UNCHANGED result
     \/ /\ URL[q] # Intranet /\ gwidx[q] < Len(GATEWAYS)
        /\ next(q, GATEWAYS)
        /\ UNCHANGED <<GATEWAYS, result>>
     \/ /\ URL[q] # Intranet /\ gwidx[q] = Len(GATEWAYS)
        /\ callback(q, "ERROR")
        /\ UNCHANGED <<GATEWAYS, URL, gwidx>>
  /\ UNCHANGED <<answering, server, executions, outages>>

\* The post may arrive, and be worked on, after the client has given it up.
Receive(q) ==
  /\ server[q] = "waits"
  /\ phase[q] = "post" \/ result[q] = "ERROR_UNKNOWN"
  /\ server' = [server EXCEPT ![q] = "received"]
  /\ UNCHANGED <<answering, GATEWAYS, phase, URL, gwidx, executions, result, outages>>

Execute(q) ==
  /\ server[q] = "received"
  /\ server' = [server EXCEPT ![q] = "executed"]
  /\ executions' = [executions EXCEPT ![q] = @ + 1]
  /\ UNCHANGED <<answering, GATEWAYS, phase, URL, gwidx, result, outages>>

QuerySuccess(q) ==
  /\ phase[q] = "post"
  /\ \/ /\ server[q] = "executed"
        /\ callback(q, IF URL[q] = Intranet THEN "SUCCESS_INTRANET" ELSE "SUCCESS_INTERNET")
     \/ /\ server[q] # "waits"  \* what arrived cannot be decrypted
        /\ callback(q, "ERROR_ENCRYPTION")
  /\ UNCHANGED <<answering, GATEWAYS, URL, gwidx, server, executions, outages>>

QueryErrorTriesNext(q) ==
  /\ phase[q] = "post" /\ gwidx[q] < Len(GATEWAYS)
  /\ next(q, GATEWAYS)
  /\ server' = [server EXCEPT ![q] = "waits"]
  /\ UNCHANGED <<answering, GATEWAYS, executions, result, outages>>

\* A broken connection, an error of the server, or TIMEOUT_QUERY.
QueryError(q) ==
  /\ phase[q] = "post"
  /\ callback(q, "ERROR_UNKNOWN")
  /\ UNCHANGED <<answering, GATEWAYS, URL, gwidx, server, executions, outages>>

Outage(url, who) ==
  /\ outages < MaxOutages
  /\ answering[url] # who
  /\ answering' = [answering EXCEPT ![url] = who]
  /\ outages' = outages + 1
  /\ UNCHANGED <<GATEWAYS, phase, URL, gwidx, server, executions, result>>

-----------------------------------------------------------------------------
QueryInit ==
  /\ answering = [url \in Url |-> "server"]
  /\ GATEWAYS = CHOOSE s \in SetToSeqs(Gateway) : TRUE
  /\ phase = [q \in Query |-> "new"]
  /\ URL = [q \in Query |-> Intranet]
  /\ gwidx = [q \in Query |-> 0]
  /\ server = [q \in Query |-> "waits"]
  /\ executions = [q \in Query |-> 0]
  /\ result = [q \in Query |-> "none"]
  /\ outages = 0

QueryNext ==
  \/ \E q \in Query :
       \/ StartQuery(q) \/ CertRead(q)
       \/ PingSuccess(q) \/ PingError(q)
       \/ Receive(q) \/ Execute(q)
       \/ QuerySuccess(q) \/ QueryError(q)
  \/ \E url \in Url, who \in {"server", "nobody", "spoofer"} : Outage(url, who)

QuerySpec == QueryInit /\ [][QueryNext]_queryVars

-----------------------------------------------------------------------------
(* Properties *)

\* What the callback is told is true: after a success the server has executed
\* the query; after ERROR and ERROR_SPOOF it never does, so that the user may
\* try again.  Only ERROR_UNKNOWN and ERROR_ENCRYPTION leave it open
\* (api.js:212, "if the server responded to the ping request, but not").
ResultIsTrue == \A q \in Query :
  /\ result[q] \in {"SUCCESS_INTRANET", "SUCCESS_INTERNET"} => executions[q] = 1
  /\ result[q] \in {"ERROR", "ERROR_SPOOF"} => executions[q] = 0 /\ server[q] = "waits"
=============================================================================
