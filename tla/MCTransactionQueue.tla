------------------------- MODULE MCTransactionQueue -------------------------
(* Small instances of TransactionQueue. *)
EXTENDS TransactionQueue, TLC

CONSTANTS q1, q2, w1, w2, alice, bob, bank, magic, k1, k2

MCAccount == {alice, bob, bank}

Pays(s, r, net, t) ==
  [sender |-> s, recipient |-> r, tax_recipient |-> bank,
   sent |-> net + t, received |-> net, tax |-> t]

\* alice can pay bob once; bob can pay alice only after that.
MCOpening == (alice :> 3) @@ (bob :> 0) @@ (bank :> 0)
TwoSenders == {Pays(alice, bob, 2, 1), Pays(bob, alice, 1, 0)}
AnySender == TwoSenders \cup {Pays(magic, alice, 3, 0)}

Symmetric == Permutations(Request) \cup Permutations(Worker) \cup Permutations(Round)
=============================================================================
