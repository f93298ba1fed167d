-------------------------- MODULE QueueImplementsBank --------------------------
(***************************************************************************)
(* The payment protocol implements Bank as long as no second chain of      *)
(* callbacks is started for an entry, in every other respect wherever it   *)
(* runs: whatever the order and the life of the intents, with errors, lost *)
(* replies, crashes and deletions.                                         *)
(***************************************************************************)
EXTENDS TransactionQueue

\* A written payment whose entry is still queued, and whose callback is not
\* about to run, was reported as failed and is going to be tried again.
Status(r) ==
  CASE phase[r] = "new"               -> "none"
    [] phase[r] # "new" /\ written[r] = 0 ->
         IF phase[r] \in {"gone", "lost"} THEN "dropped" ELSE "pending"
    [] OTHER ->
         IF phase[r] = "queued" /\ \A k \in Round : at[r][k] # "written"
           THEN "doubtful" ELSE "paid"

\* The bank loses track of a sender when the order of its intents breaks.
B == INSTANCE Bank WITH
       status    <- [r \in Request |-> Status(r)],
       balance   <- [a \in Account |-> Balance(a)],
       documents <- [r \in Request |-> written[r] - deleted[r]],
       excused   <- unguarded,
       lacking   <- short

\* Every step of the protocol is a step of Bank or changes nothing a client can
\* see: the instant of a payment is the insertion of its document.
ImplementsBank == B!Spec
=============================================================================
