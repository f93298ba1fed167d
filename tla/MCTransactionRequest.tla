------------------------- MODULE MCTransactionRequest -------------------------
(* Instances of TransactionRequest for TLC: Unit = 2, TrUnit = 4. *)
EXTENDS TransactionRequest

CONSTANTS a1, a2, a3, q1, q2, q3, p1, p2

Payload(kind, from, to, sent, received, percent) ==
  [kind |-> kind, sender |-> from, recipient |-> to, password |-> p1, long |-> FALSE,
   sent |-> sent, received |-> received, tax_percent |-> percent]

\* Payments between two students, with every way to state an amount.
Payments ==
  {Payload("transaction", q1, q2, x, 0, 0) : x \in {0, 1, 4, 44, -4, NotFinite, FineText}}
  \cup {Payload("transaction", q1, q2, 0, x, 0) : x \in {1, 4, 20, -4, NotFinite}}
  \cup {Payload("transaction", q1, q2, 4, 4, 0),
        [Payload("transaction", q1, q2, 4, 0, 0) EXCEPT !.long = TRUE],
        Payload("transaction_taxfree", q1, q2, 0, 8, 0)}

\* What only administrators may do, and the magic account.
Masters ==
  {Payload("master_transaction", q1, q2, x, 0, p) : x \in {1, 6, 44, FineText}, p \in {-1, 0, 10, 150}}
  \cup {Payload("master_transaction", q1, q2, 0, x, 10) : x \in {3, 20}}
  \cup {Payload("spawn_money", Magic, q2, x, 0, 0) : x \in {3, 8}}
  \cup {Payload("destroy_money", q1, Magic, 8, 0, 0),
        Payload("transaction", q1, Magic, 44, 0, 0),
        Payload("transaction", Magic, q1, 44, 0, 0)}

Payable == Payments \cup Masters
=============================================================================
