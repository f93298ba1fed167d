------------------------------- MODULE DnsFailover ------------------------------
(***************************************************************************)
(* The name server (network/dns/main.js): it probes the servers of a pool  *)
(* every few seconds and answers a question for the pool's name with one   *)
(* of those whose last answer was a success.                               *)
(***************************************************************************)
EXTENDS Integers, Sequences

CONSTANTS
  Ip,        \* the servers
  lookup,    \* lookup.json in its order: the set of addresses of each pool, {} for a plain address
  MaxProbes, \* bound: probes of one server under way
  MaxFlips   \* bound: servers that stop or start

ASSUME DnsAssumption ==
  /\ lookup \in Seq(SUBSET Ip)
  /\ MaxProbes \in Nat /\ MaxFlips \in Nat

VARIABLES
  online,  \* the servers that run
  working, \* of a pool's server; the first probe has not been answered: undefined
  probes,  \* per server: the probes under way, and what they found
  asked,   \* the name somebody has asked for, 0 if nobody has
  told,    \* the server that who asked last believes in
  flips    \* counter of MaxFlips

dnsVars == <<online, working, probes, asked, told, flips>>

DnsTypeOK ==
  /\ online \subseteq Ip
  /\ working \in [Ip -> {"undefined", "true", "false"}]
  /\ probes \in [Ip -> [1..MaxProbes -> {"none", "sent", "success", "error"}]]
  /\ asked \in 0..Len(lookup)
  /\ told \subseteq Ip
  /\ flips \in 0..MaxFlips

-----------------------------------------------------------------------------
\* The loop ends at the first plain address: what comes after is not probed.
Probed == UNION {lookup[n] : n \in {m \in DOMAIN lookup : \A k \in 1..m : lookup[k] # {}}}

\* What heartbeat_probe sends, to one server at a time
failover_heartbeat(ip, n) ==
  /\ ip \in Probed /\ probes[ip][n] = "none"
  /\ probes' = [probes EXCEPT ![ip][n] = "sent"]
  /\ UNCHANGED <<online, working, asked, told, flips>>

ServerAnswers(ip, n) ==
  /\ probes[ip][n] = "sent"
  /\ probes' = [probes EXCEPT ![ip][n] = IF ip \in online THEN "success" ELSE "error"]
  /\ UNCHANGED <<online, working, asked, told, flips>>

OnlyFirstAnswer(ip, n) ==
  /\ probes[ip][n] \in {"success", "error"}
  /\ working' = [working EXCEPT ![ip] =
       IF @ # "undefined" THEN @ ELSE IF probes[ip][n] = "success" THEN "true" ELSE "false"]
  /\ probes' = [probes EXCEPT ![ip][n] = "none"]
  /\ UNCHANGED <<online, asked, told, flips>>

\* Answers arrive in any order.
heartbeat_probe(ip, n) ==
  /\ probes[ip][n] \in {"success", "error"}
  /\ working' = [working EXCEPT ![ip] = IF probes[ip][n] = "success" THEN "true" ELSE "false"]
  /\ probes' = [probes EXCEPT ![ip][n] = "none"]
  /\ UNCHANGED <<online, asked, told, flips>>

Ask(n) ==
  /\ asked = 0 /\ told = {}
  /\ asked' = n
  /\ UNCHANGED <<online, working, probes, told, flips>>

\* A random working address, no response at all if there is none; a plain
\* address names no server of a pool.
failover_address ==
  /\ asked # 0
  /\ LET trueworking == {ip \in lookup[asked] : working[ip] = "true"}
     IN  IF trueworking = {} THEN UNCHANGED told ELSE \E ip \in trueworking : told' = {ip}
  /\ asked' = 0
  /\ UNCHANGED <<online, working, probes, flips>>

\* Whoever asked keeps the response for its TTL.
Expires ==
  /\ told # {}
  /\ told' = {}
  /\ UNCHANGED <<online, working, probes, asked, flips>>

Flip(ip) ==
  /\ flips < MaxFlips
  /\ online' = IF ip \in online THEN online \ {ip} ELSE online \cup {ip}
  /\ flips' = flips + 1
  /\ UNCHANGED <<working, probes, asked, told>>

-----------------------------------------------------------------------------
DnsInit ==
  /\ online = Ip
  /\ working = [ip \in Ip |-> "undefined"]
  /\ probes = [ip \in Ip |-> [n \in 1..MaxProbes |-> "none"]]
  /\ asked = 0 /\ told = {} /\ flips = 0

DnsNext ==
  \/ \E ip \in Ip :
       \/ \E n \in 1..MaxProbes :
            failover_heartbeat(ip, n) \/ ServerAnswers(ip, n) \/ heartbeat_probe(ip, n)
       \/ Flip(ip)
  \/ \E n \in DOMAIN lookup : Ask(n)
  \/ failover_address \/ Expires

DnsSpec == DnsInit /\ [][DnsNext]_dnsVars

\* The interval fires, every request ends, with an answer or an error, and
\* responses expire; nobody has to ask.
DnsFairness ==
  /\ WF_dnsVars(Expires)
  /\ \A ip \in Ip, n \in 1..MaxProbes :
       /\ WF_dnsVars(failover_heartbeat(ip, n))
       /\ WF_dnsVars(ServerAnswers(ip, n))
       /\ WF_dnsVars(heartbeat_probe(ip, n))

-----------------------------------------------------------------------------
(* Properties *)

\* A server that has gone for good leaves its pool for good, one that has come
\* back for good is in it again, however late and in whichever order the answers
\* to overlapping probes arrive; and nobody believes in a server that is gone
\* (main.js:16, "Failover / load balancing system").
FailsOver ==
  /\ \A ip \in Ip : <>[](working[ip] = IF ip \in online THEN "true" ELSE "false")
  /\ <>[](told \subseteq online)
=============================================================================
