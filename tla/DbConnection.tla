------------------------------ MODULE DbConnection ------------------------------
(***************************************************************************)
(* The connection of a worker to MongoDB (server/api/db/index.js): errors  *)
(* of commands, and the configuration that is loaded as a test, start an   *)
(* interval that closes the connection and opens it anew until it is open. *)
(***************************************************************************)
EXTENDS Integers

CONSTANTS
  Command,    \* commands that other parts of the worker send
  MaxDbOutages, \* bound: times the database goes away
  MaxRefusals \* bound: commands that fail although the connection is sound

ASSUME DbAssumption == MaxDbOutages \in Nat /\ MaxRefusals \in Nat

VARIABLES
  reachable,   \* the database can be reached
  connection,  \* silent: open for mongoose, but nothing passes any more
  failedstate,
  intervals,   \* running intervals of db_connect
  ready,       \* module.exports.ready
  loading,     \* cfgdb.load is under way
  commands,    \* per command
  dbOutages, refusals \* counters of MaxDbOutages and MaxRefusals

dbVars == <<reachable, connection, failedstate, intervals, ready, loading, commands,
            dbOutages, refusals>>

DbTypeOK ==
  /\ {reachable, failedstate, ready, loading} \subseteq BOOLEAN
  /\ connection \in {"closed", "connecting", "open", "silent"}
  /\ intervals \in 0..1 \* a second one would close each new connection for ever
  /\ commands \in [Command -> {"unsent", "sent", "done", "error"}]
  /\ dbOutages \in 0..MaxDbOutages /\ refusals \in 0..MaxRefusals

-----------------------------------------------------------------------------
(* What reports a failure, and what ends it *)

\* The handle of an interval that still runs would be overwritten.
setInterval == intervals' = intervals + 1
clearInterval == intervals' = IF intervals = 0 THEN 0 ELSE intervals - 1

FailsAgain == failedstate' = TRUE /\ setInterval

\* Events error and disconnect, the callback of connect, and every command
DB_error ==
  /\ failedstate' = TRUE
  /\ IF failedstate THEN UNCHANGED intervals ELSE setInterval

KeepsFailedstate ==
  /\ connection = "connecting" /\ reachable
  /\ connection' = "open"
  /\ ready' = TRUE
  /\ IF failedstate THEN clearInterval ELSE UNCHANGED intervals
  /\ UNCHANGED <<reachable, failedstate, loading, commands, dbOutages, refusals>>

\* Events open and reconnected
Opened ==
  /\ connection = "connecting" /\ reachable
  /\ connection' = "open"
  /\ ready' = TRUE
  /\ IF failedstate THEN clearInterval ELSE UNCHANGED intervals
  /\ failedstate' = FALSE
  /\ UNCHANGED <<reachable, loading, commands, dbOutages, refusals>>

ConnectFails ==
  /\ connection = "connecting" /\ ~reachable
  /\ connection' = "closed"
  /\ DB_error
  /\ UNCHANGED <<reachable, ready, loading, commands, dbOutages, refusals>>

\* The interval: close fails whatever is under way, with failedstate set.
db_connect ==
  /\ intervals > 0
  /\ connection' = "connecting"
  /\ commands' = [c \in Command |-> IF commands[c] = "sent" THEN "error" ELSE commands[c]]
  /\ loading' = FALSE
  /\ UNCHANGED <<reachable, failedstate, intervals, ready, dbOutages, refusals>>

-----------------------------------------------------------------------------
(* Commands *)

SendCommand(c) ==
  /\ ready /\ commands[c] = "unsent"
  /\ IF connection \in {"open", "silent"}
       THEN commands' = [commands EXCEPT ![c] = "sent"] /\ UNCHANGED <<failedstate, intervals>>
       ELSE commands' = [commands EXCEPT ![c] = "error"] /\ DB_error \* bufferCommands : false
  /\ UNCHANGED <<reachable, connection, ready, loading, dbOutages, refusals>>

CommandDone(c) ==
  /\ commands[c] = "sent" /\ connection = "open"
  /\ commands' = [commands EXCEPT ![c] = "done"]
  /\ UNCHANGED <<reachable, connection, failedstate, intervals, ready, loading,
                 dbOutages, refusals>>

\* For example a QR-ID that is taken.
CommandRefused(c) ==
  /\ commands[c] = "sent" /\ connection = "open" /\ refusals < MaxRefusals
  /\ commands' = [commands EXCEPT ![c] = "error"]
  /\ refusals' = refusals + 1
  /\ DB_error
  /\ UNCHANGED <<reachable, connection, ready, loading, dbOutages>>

LoadConfig ==
  /\ ready /\ ~loading
  /\ IF connection \in {"open", "silent"}
       THEN loading' = TRUE /\ UNCHANGED <<failedstate, intervals>>
       ELSE DB_error /\ UNCHANGED loading
  /\ UNCHANGED <<reachable, connection, ready, commands, dbOutages, refusals>>

\* An answer, or config_load_timeout.
LoadEnds ==
  /\ loading
  /\ loading' = FALSE
  /\ IF connection = "open" THEN UNCHANGED <<failedstate, intervals>> ELSE DB_error
  /\ UNCHANGED <<reachable, connection, ready, commands, dbOutages, refusals>>

-----------------------------------------------------------------------------
(* The network *)

\* Mongoose notices and reports an error, or it does not.
GoesAway ==
  /\ reachable /\ dbOutages < MaxDbOutages
  /\ reachable' = FALSE
  /\ dbOutages' = dbOutages + 1
  /\ \/ /\ connection = "open"
        /\ connection' = "closed"
        /\ commands' = [c \in Command |-> IF commands[c] = "sent" THEN "error" ELSE commands[c]]
        /\ DB_error
     \/ /\ connection' = IF connection = "open" THEN "silent" ELSE connection
        /\ UNCHANGED <<commands, failedstate, intervals>>
  /\ UNCHANGED <<ready, loading, refusals>>

ComesBack ==
  /\ ~reachable
  /\ reachable' = TRUE
  /\ connection' \in IF connection = "silent" THEN {"silent", "open"} ELSE {connection}
  /\ UNCHANGED <<failedstate, intervals, ready, loading, commands,
                 dbOutages, refusals>>

-----------------------------------------------------------------------------
DbInit ==
  /\ reachable \in BOOLEAN
  /\ connection = "connecting" /\ failedstate = FALSE /\ intervals = 0
  /\ ready = FALSE /\ loading = FALSE
  /\ commands = [c \in Command |-> "unsent"]
  /\ dbOutages = 0 /\ refusals = 0

DbNext ==
  \/ Opened \/ ConnectFails \/ db_connect
  \/ LoadConfig \/ LoadEnds
  \/ \E c \in Command : SendCommand(c) \/ CommandDone(c) \/ CommandRefused(c)
  \/ GoesAway \/ ComesBack

DbSpec == DbInit /\ [][DbNext]_dbVars

\* Intervals and timeouts fire and attempts to connect end; a database need not
\* come back and a command need not be sent.
DbFairness ==
  /\ WF_dbVars(Opened) /\ WF_dbVars(ConnectFails)
  /\ WF_dbVars(db_connect)
  /\ WF_dbVars(LoadConfig) /\ WF_dbVars(LoadEnds)

-----------------------------------------------------------------------------
(* Properties *)

\* If the database stays reachable the worker stays connected, also after a
\* connection broke without an error (db/config.js:36, "to make sure the
\* connection from the API server to the database server is working").
Recovers == <>[]reachable => <>[](connection = "open" /\ ~failedstate)
=============================================================================
