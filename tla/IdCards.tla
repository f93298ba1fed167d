--------------------------------- MODULE IdCards --------------------------------
(***************************************************************************)
(* Printing ID cards (client/adminpanel/site/idcards): every card is put   *)
(* at its place on the pages of a PDF, its picture is drawn when it comes  *)
(* from the webcam server, and the PDF is shown when a counter that all    *)
(* PDFs share says that no picture is missing.                             *)
(***************************************************************************)
EXTENDS Integers, Sequences, FiniteSets

CONSTANTS
  AMOUNT_X, AMOUNT_Y, \* cards beside and below each other
  CardKind,    \* picture: has one; plain: has none; broken: cannot be printed
  MaxCardLists, MaxListLength  \* bounds: PDFs made, cards of one

ASSUME CardsAssumption ==
  /\ {AMOUNT_X, AMOUNT_Y} \subseteq Nat \ {0}
  /\ CardKind \subseteq {"picture", "plain", "broken"}
  /\ {MaxCardLists, MaxListLength} \subseteq Nat

VARIABLES
  pdfs,             \* every PDF: its list, what is drawn where, what became of it, and as
                    \*   history whether it was alone: no picture of another PDF was under
                    \*   way when it was begun, and no other was begun while it waited
  fetching,         \* pictures asked for: of which card of which PDF, and how far
  passpics_to_load

cardVars == <<pdfs, fetching, passpics_to_load>>

Place == [page : Nat, x : 0..AMOUNT_X - 1, y : 0..AMOUNT_Y - 1]

CardsTypeOK ==
  /\ \A p \in DOMAIN pdfs :
       /\ pdfs[p].list \in Seq(CardKind)
       /\ \A n \in DOMAIN pdfs[p].list : pdfs[p].cards[n] \subseteq Place
       /\ pdfs[p].pictures \subseteq DOMAIN pdfs[p].list
       /\ pdfs[p].state \in {"waits", "aborted", "shown"} /\ pdfs[p].alone \in BOOLEAN
  /\ fetching \subseteq [pdf : DOMAIN pdfs, card : 1..MaxListLength, came : BOOLEAN]
  /\ passpics_to_load \in Int

-----------------------------------------------------------------------------
RowsOnly(index) ==
  [page |-> index \div (AMOUNT_X * AMOUNT_Y), y |-> index \div AMOUNT_X, x |-> index % AMOUNT_X]

\* The loops over pages, rows and columns, turned round; index is that of the code
place(index) ==
  [page |-> index \div (AMOUNT_X * AMOUNT_Y),
   y |-> (index % (AMOUNT_X * AMOUNT_Y)) \div AMOUNT_X,
   x |-> index % AMOUNT_X]

\* The cards up to the first that cannot be printed: assert throws, and so does
\* a missing type.
student_readable(list) == {n \in DOMAIN list : \A m \in 1..n - 1 : list[m] # "broken"}

NotAlone(pdf) == IF pdf.state = "waits" THEN [pdf EXCEPT !.alone = FALSE] ELSE pdf

\* The picture of a card is asked for before it turns out to be broken, which
\* ends everything; the interval is not started then.  PDFs that still wait, and those
\* whose pictures were lost, go on with the counter of the new one.
makepdf(list) ==
  /\ Len(pdfs) < MaxCardLists
  /\ LET rendered == student_readable(list)
         asks == {n \in rendered : list[n] # "plain"}
     IN  /\ pdfs' = Append([p \in DOMAIN pdfs |-> NotAlone(pdfs[p])],
              [list |-> list,
               cards |-> [n \in DOMAIN list |-> IF n \in rendered THEN {place(n - 1)} ELSE {}],
               pictures |-> {},
               state |-> IF \E n \in DOMAIN list : list[n] = "broken" THEN "aborted" ELSE "waits",
               alone |-> fetching = {}])
         /\ fetching' = fetching \cup {[pdf |-> Len(pdfs) + 1, card |-> n, came |-> FALSE] : n \in asks}
         /\ passpics_to_load' = Cardinality(asks)

Came(f) == fetching' = (fetching \ {f}) \cup {[f EXCEPT !.came = TRUE]} /\ UNCHANGED pdfs

CountsOnArrival(f) ==
  /\ ~f.came
  /\ Came(f)
  /\ passpics_to_load' = passpics_to_load - 1

\* A picture still has to be converted.
webcamserv_get(f) ==
  /\ ~f.came
  /\ Came(f)
  /\ UNCHANGED passpics_to_load

Drawn(f) ==
  /\ fetching' = fetching \ {f}
  /\ passpics_to_load' = passpics_to_load - 1
  /\ pdfs' = [pdfs EXCEPT ![f.pdf].pictures = @ \cup {f.card}]

toJPEG(f) == f.came /\ Drawn(f)

\* An empty answer: there is no such picture.
NoPicture(f) == ~f.came /\ Drawn(f)

\* An error of the webcam server calls nobody back.
PictureLost(f) ==
  /\ ~f.came
  /\ fetching' = fetching \ {f}
  /\ UNCHANGED <<pdfs, passpics_to_load>>

Interval(p) ==
  /\ pdfs[p].state = "waits" /\ passpics_to_load = 0
  /\ pdfs' = [pdfs EXCEPT ![p].state = "shown"]
  /\ UNCHANGED <<fetching, passpics_to_load>>

-----------------------------------------------------------------------------
CardsInit == pdfs = <<>> /\ fetching = {} /\ passpics_to_load = 0

CardsNext ==
  \/ \E n \in 0..MaxListLength : \E list \in [1..n -> CardKind] : makepdf(list)
  \/ \E f \in fetching : webcamserv_get(f) \/ toJPEG(f) \/ NoPicture(f) \/ PictureLost(f)
  \/ \E p \in DOMAIN pdfs : Interval(p)

CardsSpec == CardsInit /\ [][CardsNext]_cardVars

-----------------------------------------------------------------------------
(* Properties *)

\* A PDF that is shown has every card in a place of its own, and the picture of
\* every card that has one unless another PDF was made at the same time: whatever
\* became of the PDFs before, also when their pictures were lost and they still wait
\* (scripts.js:283, "Wait for async passport picture requests to complete").
ShownIsComplete == \A p \in DOMAIN pdfs : pdfs[p].state = "shown" =>
  /\ Cardinality(UNION {pdfs[p].cards[n] : n \in DOMAIN pdfs[p].list}) = Len(pdfs[p].list)
  /\ pdfs[p].alone => \A n \in DOMAIN pdfs[p].list :
       pdfs[p].list[n] = "picture" => n \in pdfs[p].pictures
=============================================================================
