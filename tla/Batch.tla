---------------------------------- MODULE Batch ---------------------------------
(***************************************************************************)
(* The table of payments of a company (client/business/site/scripts.js)    *)
(* and of the bank (client/adminpanel/site/maketransaction/scripts.js):    *)
(* rows are entered, started together, and marked when their answers come  *)
(* in.  An answer finds its row by the index it had when it was started.   *)
(***************************************************************************)
EXTENDS Integers, Sequences, SequencesExt, FiniteSets

CONSTANTS
  Row,       \* what may be entered, once each: [id, site, kind]
  MaxCalls,  \* bound: queries that are ever sent
  MaxResets  \* bound: uses of make_pending and of upload

Site == {"business", "bank"}
Kind == {"normal", "taxfree", "spawn", "destroy", "both"}

ASSUME BatchAssumption ==
  /\ \A r \in Row : r.site \in Site /\ r.kind \in Kind
  /\ MaxCalls \in Nat /\ MaxResets \in Nat

VARIABLES
  site,    \* which of the two pages this is
  cert,    \* a certificate file is chosen
  table,   \* transactions
  file,    \* the file written by download
  forms,   \* bank: the persons that a form still waits for, in this order
  calls,   \* every query so far: which row it pays, and what became of it
  resets,  \* counter of MaxResets
  again,   \* history: how often a row was sent while a query for it was open
  strayed  \* history: rows whose answer, or an answer at whose place, was another's

batchHistory == <<again, strayed>>
batchVars == <<site, cert, table, file, forms, calls, resets, again, strayed>>

TableRow == [row : Row, state : {"pending", "complete", "nonsense", "refused", "unknown"}]
Call == [tid : Nat, row : Row, outcome : {"none", "paid", "refused"}, open : BOOLEAN]

BatchTypeOK ==
  /\ site \in Site /\ cert \in BOOLEAN
  /\ table \in Seq(TableRow) /\ file \in Seq(TableRow)
  /\ forms \in [Row -> {<<>>, <<"sender">>, <<"recipient">>, <<"sender", "recipient">>}]
  /\ calls \in Seq(Call)
  /\ resets \in 0..MaxResets
  /\ again \in [Row -> Nat] /\ strayed \subseteq Row

Awaited(r) == \E n \in DOMAIN calls : calls[n].open /\ calls[n].row = r
Entered(r) == \E i \in DOMAIN table : table[i].row = r
\* What is typed again after it was removed is another row.
Fresh(r) ==
  /\ r.site = site /\ ~Entered(r)
  /\ \A n \in DOMAIN calls : calls[n].row # r
  /\ \A i \in DOMAIN file : file[i].row # r
addCleanTransaction(r) == table' = Append(table, [row |-> r, state |-> "pending"])

-----------------------------------------------------------------------------
(* Entering rows *)

AddTransaction(r) ==
  /\ site = "business" /\ Fresh(r)
  /\ addCleanTransaction(r)
  /\ UNCHANGED <<site, cert, file, forms, calls, resets, batchHistory>>

\* The bank asks the server who is meant; spawn has no sender, destroy no recipient.
ToIdentify(r) ==
  (IF r.kind \in {"spawn", "both"} THEN <<>> ELSE <<"sender">>)
    \o (IF r.kind \in {"destroy", "both"} THEN <<>> ELSE <<"recipient">>)

AddBankTransaction(r) ==
  /\ site = "bank" /\ Fresh(r) /\ forms[r] = <<>>
  /\ forms' = [forms EXCEPT ![r] = ToIdentify(r)]
  /\ IF ToIdentify(r) = <<>> THEN addCleanTransaction(r) ELSE UNCHANGED table
  /\ UNCHANGED <<site, cert, file, calls, resets, batchHistory>>

\* The answer of student_identify: a refusal, or a person; also null when there
\* was no answer: it is an object like a person, and the row is entered with it.
Identified(r, found) ==
  /\ forms[r] # <<>>
  /\ IF ~found
       THEN forms' = [forms EXCEPT ![r] = <<>>] /\ UNCHANGED table
       ELSE /\ forms' = [forms EXCEPT ![r] = Tail(@)]
            /\ IF Len(forms[r]) = 1 THEN addCleanTransaction(r) ELSE UNCHANGED table
  /\ UNCHANGED <<site, cert, file, calls, resets, batchHistory>>

ChooseCert ==
  /\ cert' = ~cert
  /\ UNCHANGED <<site, table, file, forms, calls, resets, batchHistory>>

-----------------------------------------------------------------------------
(* Starting them, and their answers *)

Unfinished(i) == table[i].state \notin {"complete", "nonsense"}
Pending(i) == table[i].state = "pending"

\* One query for each of these rows; the server may take them in any order.  The
\* button is enabled again after a second, whether or not there are answers, and a
\* row is pending until it has one.
Send(due) ==
  LET order == SetToSeq(due)
  IN  /\ Len(calls) + Len(order) <= MaxCalls
      /\ calls' = calls \o [k \in DOMAIN order |->
           [tid |-> order[k], row |-> table[order[k]].row, outcome |-> "none", open |-> TRUE]]
      /\ again' = [r \in Row |->
           IF Awaited(r) /\ \E i \in due : table[i].row = r THEN again[r] + 1 ELSE again[r]]
      /\ UNCHANGED strayed

\* A payment without taxes needs a certificate and stays as it is without one.
StartBusiness ==
  /\ site = "business"
  /\ Send({i \in DOMAIN table : Pending(i) /\ (table[i].row.kind = "taxfree" => cert)})
  /\ UNCHANGED <<site, cert, table, file, forms, resets>>

StartBank ==
  /\ site = "bank" /\ cert
  /\ Send({i \in DOMAIN table : Pending(i) /\ table[i].row.kind # "both"})
  /\ table' = [i \in DOMAIN table |->
       IF Pending(i) /\ table[i].row.kind = "both"
         THEN [table[i] EXCEPT !.state = "nonsense"] ELSE table[i]]
  /\ UNCHANGED <<site, cert, file, forms, resets>>

\* Whether or not anybody still waits for it.
Serve(n, outcome) ==
  /\ calls[n].outcome = "none"
  /\ calls' = [calls EXCEPT ![n].outcome = outcome]
  /\ UNCHANGED <<site, cert, table, file, forms, resets, batchHistory>>

\* transactions[tid].state = ...; without such a row the callback throws.
Mark(tid, state) ==
  table' = [i \in DOMAIN table |->
              IF i = tid THEN [table[i] EXCEPT !.state = state] ELSE table[i]]

\* Rows above were removed, or another file was loaded, since n was sent.
Astray(n) ==
  LET hit == {table[i].row : i \in {calls[n].tid} \cap DOMAIN table}
  IN  IF hit = {calls[n].row} THEN {} ELSE hit \cup {calls[n].row}

\* The callback of query n.
Close(n, state) ==
  /\ Mark(calls[n].tid, state)
  /\ calls' = [calls EXCEPT ![n].open = FALSE]
  /\ strayed' = strayed \cup Astray(n)
  /\ UNCHANGED <<site, cert, file, forms, resets, again>>

Answered(n) ==
  /\ calls[n].open /\ calls[n].outcome # "none"
  /\ Close(n, IF calls[n].outcome = "paid" THEN "complete" ELSE "refused")

UnansweredIsRefused(n) ==
  /\ calls[n].open
  /\ Close(n, "refused")

\* No answer in time: an error with the errorcode null.
Unanswered(n) ==
  /\ calls[n].open
  /\ Close(n, "unknown")

-----------------------------------------------------------------------------
(* Editing the table *)

RemoveRow(i) ==
  /\ table' = RemoveAt(table, i)
  /\ UNCHANGED <<site, cert, file, forms, calls, resets, batchHistory>>

MakePending ==
  /\ resets < MaxResets
  /\ table' = [i \in DOMAIN table |-> [table[i] EXCEPT !.state = "pending"]]
  /\ resets' = resets + 1
  /\ UNCHANGED <<site, cert, file, forms, calls, batchHistory>>

Download ==
  /\ file' = table
  /\ UNCHANGED <<site, cert, table, forms, calls, resets, batchHistory>>

Upload ==
  /\ resets < MaxResets
  /\ table' = file
  /\ resets' = resets + 1
  /\ UNCHANGED <<site, cert, file, forms, calls, batchHistory>>

-----------------------------------------------------------------------------
BatchInit ==
  /\ site \in Site
  /\ cert = FALSE
  /\ table = <<>> /\ file = <<>>
  /\ forms = [r \in Row |-> <<>>]
  /\ calls = <<>>
  /\ resets = 0
  /\ again = [r \in Row |-> 0] /\ strayed = {}

BatchNext ==
  \/ \E r \in Row :
       \/ AddTransaction(r) \/ AddBankTransaction(r)
       \/ \E found \in BOOLEAN : Identified(r, found)
  \/ ChooseCert \/ StartBusiness \/ StartBank
  \/ \E n \in DOMAIN calls :
       \/ \E outcome \in {"paid", "refused"} : Serve(n, outcome)
       \/ Answered(n) \/ Unanswered(n)
  \/ \E i \in DOMAIN table : RemoveRow(i)
  \/ MakePending \/ Download \/ Upload

BatchSpec == BatchInit /\ [][BatchNext]_batchVars

-----------------------------------------------------------------------------
(* Properties *)

RowPayments(r) == {n \in DOMAIN calls : calls[n].row = r /\ calls[n].outcome = "paid"}

\* A row is paid once, once more for each time its state was set back by hand,
\* and once more for each time it was sent while its answer was awaited, however
\* long the server takes and whatever is removed, unless answers went astray.
RowPaidAtMostOnce ==
  \A r \in Row \ strayed : Cardinality(RowPayments(r)) <= 1 + resets + again[r]

\* "Make sure you cannot hit the button twice by accident"
\* (business/site/scripts.js:270): start alone pays no row twice.
StartPaysOnce == \A r \in Row : Cardinality(RowPayments(r)) <= 1 + resets

\* What the table says of a row is true: a complete row is paid, and one that looks
\* unpaid has been paid no more often than it was set back or sent a second time.
\* This holds while rows are removed and files loaded in between, of all rows whose
\* index still led to them when their answers came.
TableIsTrue ==
  \A i \in DOMAIN table :
    LET r == table[i].row
        looksUnpaid == \/ table[i].state \in {"refused", "nonsense"}
                       \/ table[i].state = "pending" /\ ~Awaited(r)
    IN  r \notin strayed =>
          /\ table[i].state = "complete" => RowPayments(r) # {}
          /\ looksUnpaid => Cardinality(RowPayments(r)) <= resets + again[r]
=============================================================================
