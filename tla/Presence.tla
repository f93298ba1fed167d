-------------------------------- MODULE Presence --------------------------------
(***************************************************************************)
(* Who is inside (client/entrycheck, client/common/checkintime.js): cards  *)
(* of scanned persons are closed by check-ins and check-outs, which the    *)
(* server logs with its time; presence in a period is computed from the    *)
(* log, also by the bank's list of missing pupils.                         *)
(***************************************************************************)
EXTENDS Integers, Sequences, FiniteSets

CONSTANTS
  Visitor,   \* QR-IDs of accounts
  Stranger,  \* a QR-ID of nobody
  PRESENCE_SINCE, \* how far back the gate looks
  MaxTime,   \* bound: the clock of the server
  MaxChecks, \* bound: clicks on check-in and check-out
  MaxCards   \* bound: scans that show a card

ASSUME PresenceAssumption ==
  Stranger \notin Visitor /\ {PRESENCE_SINCE, MaxTime, MaxChecks, MaxCards} \subseteq Nat

VARIABLES
  clock,   \* not of one worker: it may be behind the last entry
  appear,  \* the log of each person
  cards,   \* every scan so far, and what its card shows
  clicked  \* check-ins and check-outs that were sent

presenceVars == <<clock, appear, cards, clicked>>

Type == {"checkin", "checkout"}
Check == [type : Type, time : 0..MaxTime]

PresenceTypeOK ==
  /\ clock \in 0..MaxTime
  /\ appear \in [Visitor -> Seq(Check)]
  /\ cards \in Seq([qrid : Visitor \cup {Stranger},
                    shows : {"nothing", "inside", "outside", "notfound", "removed"}])
  /\ clicked \in Seq([card : 1..MaxCards, type : Type, state : {"sent", "done", "heard"}])

-----------------------------------------------------------------------------
(* checkintime.js *)

Relative(checks, begin) == [i \in 1..Len(checks) |-> [checks[i] EXCEPT !.time = @ - begin]]

\* a.time - b.time; the sort is stable.
Before(checks, i, j) ==
  checks[i].time < checks[j].time \/ (checks[i].time = checks[j].time /\ i < j)

Sorted(checks) == [k \in 1..Len(checks) |->
  checks[CHOOSE i \in 1..Len(checks) :
    Cardinality({j \in 1..Len(checks) : Before(checks, j, i)}) = k - 1]]

ForgetsStay(stay, c) ==
  IF c.type = "checkin" THEN [stay EXCEPT !.inside = TRUE, !.since = c.time]
  ELSE IF stay.inside THEN [stay EXCEPT !.inside = FALSE, !.time = @ + c.time - stay.since]
  ELSE stay

\* Repeated check-ins and check-outs change nothing.
Passes(stay, c) ==
  IF c.type = "checkin" /\ ~stay.inside
    THEN [stay EXCEPT !.inside = TRUE, !.since = c.time]
  ELSE IF c.type = "checkout" /\ stay.inside
    THEN [stay EXCEPT !.inside = FALSE, !.time = @ + c.time - stay.since]
  ELSE stay

\* What is known after each check; times are relative to begin.  The last check
\* before begin says whether the person is inside then.
Stays(checks, begin, end) ==
  LET sorted == Sorted(Relative(checks, begin))
      stay[k \in 0..Len(checks)] ==
        IF k = 0 THEN [inside |-> FALSE, since |-> 0, time |-> 0]
        ELSE IF sorted[k].time < 0
          THEN [inside |-> sorted[k].type = "checkin", since |-> 0, time |-> 0]
        ELSE IF sorted[k].time <= end - begin THEN Passes(stay[k - 1], sorted[k])
        ELSE stay[k - 1]
  IN  stay

calc_checkin_time(checks, begin, end) ==
  LET stay == Stays(checks, begin, end)[Len(checks)]
  IN  [time |-> stay.time + IF stay.inside THEN end - begin - stay.since ELSE 0,
       present_at_end |-> stay.inside]

-----------------------------------------------------------------------------
(* The page at the gate *)

\* A second scan within five seconds is ignored.
addActionCard(qrid) ==
  /\ Len(cards) < MaxCards
  /\ cards' = Append(cards, [qrid |-> qrid, shows |-> "nothing"])
  /\ UNCHANGED <<clock, appear, clicked>>

\* The answer of ec_student_get; without one the card stays empty.
ShowCard(n) ==
  /\ cards[n].shows = "nothing"
  /\ cards' = [cards EXCEPT ![n].shows =
       IF cards[n].qrid = Stranger THEN "notfound"
       ELSE IF calc_checkin_time(appear[cards[n].qrid], clock - PRESENCE_SINCE, clock).present_at_end
         THEN "inside" ELSE "outside"]
  /\ UNCHANGED <<clock, appear, clicked>>

\* A button of a card, or a key for the buttons of all cards; also while an
\* answer is outstanding.
Click(n, type) ==
  /\ cards[n].shows # "removed" /\ Len(clicked) < MaxChecks
  /\ clicked' = Append(clicked, [card |-> n, type |-> type, state |-> "sent"])
  /\ UNCHANGED <<clock, appear, cards>>

\* ec_checkin and ec_checkout, with the time of the worker
Logged(k) ==
  /\ clicked[k].state = "sent"
  /\ clicked' = [clicked EXCEPT ![k].state = "done"]
  /\ LET qrid == cards[clicked[k].card].qrid
     IN  appear' = IF qrid = Stranger THEN appear
                   ELSE [appear EXCEPT ![qrid] = Append(@, [type |-> clicked[k].type, time |-> clock])]
  /\ UNCHANGED <<clock, cards>>

\* ok removes the card; an error, for example of a stranger, does not.
CheckAnswer(k) ==
  /\ clicked[k].state = "done"
  /\ clicked' = [clicked EXCEPT ![k].state = "heard"]
  /\ cards' = IF cards[clicked[k].card].qrid = Stranger THEN cards
              ELSE [cards EXCEPT ![clicked[k].card].shows = "removed"]
  /\ UNCHANGED <<clock, appear>>

Close(n) ==
  /\ cards[n].shows # "removed"
  /\ cards' = [cards EXCEPT ![n].shows = "removed"]
  /\ UNCHANGED <<clock, appear, clicked>>

\* Time passes, or another worker with another clock answers.
Tick(t) ==
  /\ t \in {clock - 1, clock + 1} \cap 0..MaxTime
  /\ clock' = t
  /\ UNCHANGED <<appear, cards, clicked>>

-----------------------------------------------------------------------------
PresenceInit ==
  /\ clock = 0
  /\ appear = [v \in Visitor |-> <<>>]
  /\ cards = <<>> /\ clicked = <<>>

PresenceNext ==
  \/ \E qrid \in Visitor \cup {Stranger} : addActionCard(qrid)
  \/ \E n \in DOMAIN cards : ShowCard(n) \/ Close(n) \/ \E type \in Type : Click(n, type)
  \/ \E k \in DOMAIN clicked : Logged(k) \/ CheckAnswer(k)
  \/ \E t \in 0..MaxTime : Tick(t)

PresenceSpec == PresenceInit /\ [][PresenceNext]_presenceVars

-----------------------------------------------------------------------------
(* Properties *)

\* Somebody is inside if the latest entry up to then, the last logged of those
\* with one time, is a check-in.
Inside(checks, t) == \E i \in DOMAIN checks :
  /\ checks[i].type = "checkin" /\ checks[i].time <= t
  /\ \A j \in DOMAIN checks : checks[j].time <= t =>
       checks[j].time < checks[i].time \/ (checks[j].time = checks[i].time /\ j <= i)

\* Whatever the gates log, in whichever order of times and however often the same
\* check, the computed presence is the time for which the person was inside.
PresenceIsMeasured == \A v \in Visitor, begin \in 0..MaxTime : \A end \in begin..MaxTime :
  calc_checkin_time(appear[v], begin, end) =
    [time |-> Cardinality({t \in begin..end - 1 : Inside(appear[v], t)}),
     present_at_end |-> Inside(appear[v], end)]
=============================================================================
