------------------------------- MODULE MCPolling -------------------------------
(* Instances of Polling for TLC. *)
EXTENDS Polling, TLC

CONSTANTS c1, c2

To(q, id, time) == [id |-> id, recipient |-> q, time |-> time]

\* One app per account, or two apps of one account.
OwnAccounts == c1 :> "a" @@ c2 :> "b"
SharedAccount == c1 :> "a" @@ c2 :> "a"

TwoPayees == {To("a", 1, 1), To("b", 2, 1), To("a", 3, 2)}
OnePayee == {To("a", 1, 1), To("a", 2, 2)}

Symmetric == Permutations(Worker) \cup Permutations(Idx) \cup Permutations(Slot)
=============================================================================
