---------------------------------- MODULE Tax ----------------------------------
(***************************************************************************)
(* How a payment is split (server/api/actions/transactions.js).            *)
(*                                                                         *)
(* Amounts are counted in a unit fine enough for every number a client can *)
(* send; Unit of these make one unit of hgc_decimal_places, to which taxes *)
(* are rounded.  Percentages are whole numbers.                            *)
(***************************************************************************)
EXTENDS Integers

CONSTANT Unit

ASSUME UnitAssumption == Unit \in Nat \ {0}

CeilDiv(a, b) == (a + b - 1) \div b

\* num/den rounded up to a multiple of Unit.
RoundedUp(num, den) == Unit * CeilDiv(num, den * Unit)

HGC_roundupDown(num, den) == {Unit * (num \div (den * Unit))}

\* HGC_roundup works on floating point numbers: a quotient that should come out
\* as a multiple of Unit may come out a little above it and is then rounded up
\* by a whole Unit (0.05 HGC net at 10 % do).  The error is far too small to
\* carry any other quotient across a multiple.
HGC_roundup(num, den) ==
  LET exact == RoundedUp(num, den)
  IN  IF num > 0 /\ exact * den = num THEN {exact, exact + Unit} ELSE {exact}

\* The taxes that gross2tax and net2tax may compute.
gross2tax(gross, percent) == HGC_roundup(percent * gross, 100 + percent)
net2tax(net, percent) == HGC_roundup(percent * net, 100)

Amounts(sent, tax) == [sent |-> sent, received |-> sent - tax, tax |-> tax]

\* A payment given by what the sender pays, and one given by what the recipient gets.
BySent(gross, percent) == {Amounts(gross, t) : t \in gross2tax(gross, percent)}
ByReceived(net, percent) == {Amounts(net + t, t) : t \in net2tax(net, percent)}
=============================================================================
