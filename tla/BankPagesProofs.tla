------------------------------ MODULE BankPagesProofs ------------------------------
(***************************************************************************)
(* Registration, the list of students and the ID cards, for any persons,   *)
(* names of pictures, lists and sizes of pages.                            *)
(***************************************************************************)
EXTENDS MCPages, PaymentPagesProofs

-----------------------------------------------------------------------------
(* Registration *)

NeedsPicture(n) == ~SkipsPicture(attempts[n].who)

\* Who is beyond the upload has the picture stored.
Uploaded(n) ==
  \/ attempts[n].stage \in {"register", "preload"}
  \/ attempts[n].left \in {"register", "preload"}
  \/ attempts[n].stage = "upload" /\ attempts[n].server = "ok"
  \/ n \in accounts

RegistrationInv ==
  /\ RegistrationTypeOK
  /\ \A p, q \in pics : p[1] = q[1] => p = q
  /\ \A n \in DOMAIN attempts : NeedsPicture(n) /\ Uploaded(n) =>
       <<attempts[n].picname, attempts[n].who>> \in pics

\* One attempt goes on; whose it is, and which picture, stays.
Moves(n, stage, server) ==
  /\ attempts' \in Seq(Attempt)
  /\ DOMAIN attempts' = DOMAIN attempts
  /\ \A m \in DOMAIN attempts :
       /\ attempts'[m].who = attempts[m].who /\ attempts'[m].picname = attempts[m].picname
       /\ m # n => attempts'[m] = attempts[m]
  /\ attempts'[n].stage = stage /\ attempts'[n].server = server
  /\ attempts'[n].left \in {attempts[n].left, attempts[n].stage}

LEMMA MovesBy ==
  ASSUME RegistrationTypeOK, NEW n \in DOMAIN attempts, NEW next \in Attempt,
         next.who = attempts[n].who, next.picname = attempts[n].picname,
         next.left \in {attempts[n].left, attempts[n].stage},
         attempts' = [attempts EXCEPT ![n] = next]
  PROVE  Moves(n, next.stage, next.server)
<1>1. attempts \in Seq(Attempt) /\ attempts[n] \in Attempt
      BY DEF RegistrationTypeOK
<1>2. attempts' \in Seq(Attempt) /\ DOMAIN attempts' = DOMAIN attempts
      BY <1>1, ExceptSeq
<1>3. \A m \in DOMAIN attempts : attempts'[m] = IF m = n THEN next ELSE attempts[m]
      BY <1>1
<1> QED BY <1>2, <1>3 DEF Moves

\* One field changes at a time.
LEMMA StageChange ==
  ASSUME NEW a \in Attempt, NEW stage \in {"upload", "register", "preload", "over"}
  PROVE  /\ [a EXCEPT !.stage = stage] \in Attempt
         /\ [a EXCEPT !.stage = stage].who = a.who
         /\ [a EXCEPT !.stage = stage].picname = a.picname
         /\ [a EXCEPT !.stage = stage].left = a.left
         /\ [a EXCEPT !.stage = stage].stage = stage
         /\ [a EXCEPT !.stage = stage].server = a.server
BY DEF Attempt

LEMMA ServerChange ==
  ASSUME NEW a \in Attempt, NEW server \in {"none", "ok", "error"}
  PROVE  /\ [a EXCEPT !.server = server] \in Attempt
         /\ [a EXCEPT !.server = server].who = a.who
         /\ [a EXCEPT !.server = server].picname = a.picname
         /\ [a EXCEPT !.server = server].left = a.left
         /\ [a EXCEPT !.server = server].stage = a.stage
         /\ [a EXCEPT !.server = server].server = server
BY DEF Attempt

LEMMA ToldChange ==
  ASSUME NEW a \in Attempt, NEW what \in {"nothing", "success", "failure"}
  PROVE  /\ [a EXCEPT !.told = what] \in Attempt
         /\ [a EXCEPT !.told = what].who = a.who
         /\ [a EXCEPT !.told = what].picname = a.picname
         /\ [a EXCEPT !.told = what].left = a.left
         /\ [a EXCEPT !.told = what].stage = a.stage
         /\ [a EXCEPT !.told = what].server = a.server
BY DEF Attempt

LEMMA LeftChange ==
  ASSUME NEW a \in Attempt, NEW left \in {"none", "upload", "register", "preload"}
  PROVE  /\ [a EXCEPT !.left = left] \in Attempt
         /\ [a EXCEPT !.left = left].who = a.who
         /\ [a EXCEPT !.left = left].picname = a.picname
         /\ [a EXCEPT !.left = left].left = left
         /\ [a EXCEPT !.left = left].stage = a.stage
         /\ [a EXCEPT !.left = left].server = a.server
BY DEF Attempt

LEMMA AttemptParts ==
  ASSUME RegistrationTypeOK, NEW n \in DOMAIN attempts
  PROVE  attempts[n].who \in Applicant /\ attempts[n].picname \in Picname
         /\ attempts[n].server \in {"none", "ok", "error"}
<1>1. attempts[n] \in Attempt
      BY DEF RegistrationTypeOK
<1> QED BY <1>1 DEF Attempt

LEMMA ProceedMoves ==
  ASSUME RegistrationTypeOK, NEW n \in DOMAIN attempts,
         NEW stage \in {"upload", "register", "preload", "over"}, Proceed(n, stage)
  PROVE  Moves(n, stage, "none")
<1>1. attempts[n] \in Attempt
      BY DEF RegistrationTypeOK
<1> DEFINE a == [attempts[n] EXCEPT !.stage = stage]
           next == [a EXCEPT !.server = "none"]
<1>2. attempts' = [attempts EXCEPT ![n] = next]
      BY DEF Proceed, RegistrationTypeOK
<1>3. a \in Attempt /\ a.who = attempts[n].who /\ a.picname = attempts[n].picname
      /\ a.left = attempts[n].left /\ a.stage = stage
      BY <1>1, StageChange
<1> HIDE DEF a
<1>4. next \in Attempt /\ next.who = a.who /\ next.picname = a.picname
      /\ next.left = a.left /\ next.stage = a.stage /\ next.server = "none"
      BY <1>3, ServerChange
<1> HIDE DEF next
<1> QED BY <1>2, <1>3, <1>4, MovesBy

LEMMA TellMoves ==
  ASSUME RegistrationTypeOK, NEW n \in DOMAIN attempts,
         NEW what \in {"nothing", "success", "failure"}, Tell(n, what)
  PROVE  Moves(n, "over", attempts[n].server)
<1>1. attempts[n] \in Attempt
      BY DEF RegistrationTypeOK
<1> DEFINE a == [attempts[n] EXCEPT !.stage = "over"]
           next == [a EXCEPT !.told = what]
<1>2. attempts' = [attempts EXCEPT ![n] = next]
      BY DEF Tell, RegistrationTypeOK
<1>3. a \in Attempt /\ a.who = attempts[n].who /\ a.picname = attempts[n].picname
      /\ a.left = attempts[n].left /\ a.stage = "over" /\ a.server = attempts[n].server
      BY <1>1, StageChange
<1> HIDE DEF a
<1>4. next \in Attempt /\ next.who = a.who /\ next.picname = a.picname
      /\ next.left = a.left /\ next.stage = a.stage /\ next.server = a.server
      BY <1>3, ToldChange
<1> HIDE DEF next
<1> QED BY <1>2, <1>3, <1>4, MovesBy

LEMMA ServesMoves ==
  ASSUME RegistrationTypeOK, NEW n \in DOMAIN attempts,
         NEW answer \in {"none", "ok", "error"}, Serves(n, answer)
  PROVE  Moves(n, attempts[n].stage, answer)
<1>1. attempts[n] \in Attempt
      BY DEF RegistrationTypeOK
<1> DEFINE next == [attempts[n] EXCEPT !.server = answer]
<1>2. attempts' = [attempts EXCEPT ![n] = next]
      BY DEF Serves, RegistrationTypeOK
<1>3. next \in Attempt /\ next.who = attempts[n].who /\ next.picname = attempts[n].picname
      /\ next.left = attempts[n].left /\ next.stage = attempts[n].stage /\ next.server = answer
      BY <1>1, ServerChange
<1> HIDE DEF next
<1> QED BY <1>2, <1>3, MovesBy

LEMMA LostMoves ==
  ASSUME RegistrationTypeOK, NEW n \in DOMAIN attempts, AnswerLost(n)
  PROVE  Moves(n, "over", attempts[n].server)
<1>1. attempts[n] \in Attempt
      BY DEF RegistrationTypeOK
<1> DEFINE a == [attempts[n] EXCEPT !.stage = "over"]
           b == [a EXCEPT !.told = "failure"]
           given == attempts[n].stage
           next == [b EXCEPT !.left = given]
<1>2. attempts' = [attempts EXCEPT ![n] = next]
      BY DEF AnswerLost, RegistrationTypeOK
<1>3. a \in Attempt /\ a.who = attempts[n].who /\ a.picname = attempts[n].picname
      /\ a.left = attempts[n].left /\ a.stage = "over" /\ a.server = attempts[n].server
      BY <1>1, StageChange
<1> HIDE DEF a
<1>4. b \in Attempt /\ b.who = a.who /\ b.picname = a.picname
      /\ b.left = a.left /\ b.stage = a.stage /\ b.server = a.server
      BY <1>3, ToldChange
<1> HIDE DEF b
<1>5. given \in {"none", "upload", "register", "preload"} /\ given = attempts[n].stage
      BY <1>1 DEF AnswerLost, Hears, Attempt
<1> HIDE DEF given
<1>6. next \in Attempt /\ next.who = b.who /\ next.picname = b.picname
      /\ next.left = given /\ next.stage = b.stage /\ next.server = b.server
      BY <1>4, <1>5, LeftChange
<1> HIDE DEF next
<1> QED BY <1>2, <1>3, <1>4, <1>5, <1>6, MovesBy

\* A step of an attempt keeps the invariant if it keeps or adds the picture.
LEMMA MovesInv ==
  ASSUME RegistrationInv, NEW n \in DOMAIN attempts, NEW stage, NEW server,
         Moves(n, stage, server),
         pics \subseteq pics', pics' \subseteq Picname \X Applicant,
         \A p, q \in pics' : p[1] = q[1] => p = q,
         accounts' \in {accounts, accounts \cup {n}},
         credit' \subseteq DOMAIN attempts,
         sendable' \in [Applicant -> BOOLEAN], gone' \subseteq Applicant,
         NeedsPicture(n) /\ Uploaded(n)' => <<attempts[n].picname, attempts[n].who>> \in pics'
  PROVE  RegistrationInv'
<1>1. RegistrationTypeOK'
      BY DEF RegistrationInv, RegistrationTypeOK, Moves
<1>2. ASSUME NEW m \in DOMAIN attempts, NeedsPicture(m)', Uploaded(m)'
      PROVE  <<attempts[m].picname, attempts[m].who>> \in pics'
  <2>1. CASE m = n
        BY <1>2, <2>1 DEF NeedsPicture, Moves, SkipsPicture
  <2>2. CASE m # n
    <3>1. attempts'[m] = attempts[m] /\ (m \in accounts' => m \in accounts)
          BY <2>2 DEF Moves
    <3>2. NeedsPicture(m) /\ Uploaded(m)
          BY <1>2, <3>1 DEF NeedsPicture, Uploaded, SkipsPicture
    <3> QED BY <3>2 DEF RegistrationInv
  <2> QED BY <2>1, <2>2
<1>3. \A m \in DOMAIN attempts' : NeedsPicture(m)' /\ Uploaded(m)' =>
        <<attempts[m].picname, attempts[m].who>>' \in pics'
      BY <1>2 DEF Moves
<1> QED BY <1>1, <1>3 DEF RegistrationInv

\* A new attempt, of a person or class that needs a picture, starts with it.
LEMMA StartsInv ==
  ASSUME RegistrationInv, NEW p \in Applicant, NEW picname \in Picname, Starts(p, picname),
         UNCHANGED <<pics, accounts, credit, gone>>, sendable' \in [Applicant -> BOOLEAN]
  PROVE  RegistrationInv'
<1> DEFINE new == [who |-> p, picname |-> picname,
       stage |-> IF SkipsPicture(p) THEN "register" ELSE "upload",
       server |-> "none", told |-> "nothing", left |-> "none"]
<1>1. new \in Attempt
      BY DEF Attempt
<1>2. new.who = p /\ new.server = "none" /\ new.left = "none"
      /\ (~SkipsPicture(p) => new.stage = "upload")
      OBVIOUS
<1>3. attempts \in Seq(Attempt) /\ attempts' = Append(attempts, new)
      BY DEF RegistrationInv, RegistrationTypeOK, Starts
<1> HIDE DEF new
<1>4. /\ attempts' \in Seq(Attempt)
      /\ DOMAIN attempts' = DOMAIN attempts \cup {Len(attempts) + 1}
      /\ \A m \in DOMAIN attempts : attempts'[m] = attempts[m]
      /\ attempts'[Len(attempts) + 1] = new
      BY <1>1, <1>3
<1>5. Len(attempts) + 1 \notin accounts
      BY <1>3 DEF RegistrationInv, RegistrationTypeOK
<1>6. RegistrationTypeOK'
      BY <1>4 DEF RegistrationInv, RegistrationTypeOK
<1>7. ASSUME NEW m \in DOMAIN attempts', NeedsPicture(m)', Uploaded(m)'
      PROVE  m \in DOMAIN attempts /\ NeedsPicture(m) /\ Uploaded(m)
  <2>1. m # Len(attempts) + 1
        BY <1>2, <1>4, <1>5, <1>7 DEF NeedsPicture, Uploaded, SkipsPicture
  <2> QED BY <1>4, <1>7, <2>1 DEF NeedsPicture, Uploaded, SkipsPicture
<1>8. \A m \in DOMAIN attempts' : NeedsPicture(m)' /\ Uploaded(m)' =>
        <<attempts[m].picname, attempts[m].who>>' \in pics'
      BY <1>4, <1>7 DEF RegistrationInv
<1> QED BY <1>6, <1>8 DEF RegistrationInv

LEMMA UploadImageInv ==
  ASSUME RegistrationInv, NEW n \in DOMAIN attempts, upload_image(n)
  PROVE  RegistrationInv'
<1> DEFINE pic == <<attempts[n].picname, attempts[n].who>>
<1>1. pic \in Picname \X Applicant /\ pic[1] = attempts[n].picname
      BY AttemptParts DEF RegistrationInv
<1>2. CASE \E p \in pics : p[1] = attempts[n].picname
  <2>1. Moves(n, attempts[n].stage, "error") /\ UNCHANGED <<pics, accounts, credit, sendable, gone>>
        BY <1>2, ServesMoves DEF upload_image, RegistrationInv
  <2>2. Uploaded(n)' => Uploaded(n)
        BY <2>1 DEF Moves, Uploaded
  <2>3. NeedsPicture(n) /\ Uploaded(n)' => pic \in pics'
        BY <2>1, <2>2 DEF RegistrationInv
  <2> QED BY <2>1, <2>3, MovesInv DEF RegistrationInv, RegistrationTypeOK
<1>3. CASE ~\E p \in pics : p[1] = attempts[n].picname
  <2>1. Moves(n, attempts[n].stage, "ok") /\ UNCHANGED <<accounts, credit, sendable, gone>>
        /\ pics' = pics \cup {pic}
        BY <1>3, ServesMoves DEF upload_image, RegistrationInv
  <2>2. \A p, q \in pics' : p[1] = q[1] => p = q
        BY <1>1, <1>3, <2>1 DEF RegistrationInv
  <2>3. pics \subseteq pics' /\ pic \in pics' /\ pics' \subseteq Picname \X Applicant
        BY <1>1, <2>1 DEF RegistrationInv, RegistrationTypeOK
  <2> QED BY <2>1, <2>2, <2>3, MovesInv DEF RegistrationInv, RegistrationTypeOK
<1> QED BY <1>2, <1>3

LEMMA RegisterInv ==
  ASSUME RegistrationInv, NEW n \in DOMAIN attempts, register_student(n)
  PROVE  RegistrationInv'
<1>1. PICK answer \in {"ok", "error"} :
        /\ Serves(n, answer) /\ accounts' \in {accounts, accounts \cup {n}}
        /\ UNCHANGED <<pics, credit, sendable, gone>>
      BY DEF register_student
<1>2. Uploaded(n)
      BY DEF register_student, InStage, Uploaded
<1>3. Moves(n, attempts[n].stage, answer)
      BY <1>1, <1>2, ServesMoves DEF RegistrationInv
<1>4. NeedsPicture(n) => <<attempts[n].picname, attempts[n].who>> \in pics'
      BY <1>1, <1>2 DEF RegistrationInv
<1> QED BY <1>1, <1>3, <1>4, MovesInv DEF RegistrationInv, RegistrationTypeOK

LEMMA PreloadInv ==
  ASSUME RegistrationInv, NEW n \in DOMAIN attempts, transaction_taxfree(n)
  PROVE  RegistrationInv'
<1>1. PICK answer \in {"ok", "error"} :
        /\ Serves(n, answer) /\ credit' \in {credit, credit \cup {n}}
        /\ UNCHANGED <<pics, accounts, sendable, gone>>
      BY DEF transaction_taxfree
<1>2. Uploaded(n)
      BY DEF transaction_taxfree, InStage, Uploaded
<1>3. Moves(n, attempts[n].stage, answer)
      BY <1>1, <1>2, ServesMoves DEF RegistrationInv
<1>4. NeedsPicture(n) => <<attempts[n].picname, attempts[n].who>> \in pics'
      BY <1>1, <1>2 DEF RegistrationInv
<1>5. credit' \subseteq DOMAIN attempts
      BY <1>1 DEF RegistrationInv, RegistrationTypeOK
<1> QED BY <1>1, <1>3, <1>4, <1>5, MovesInv DEF RegistrationInv, RegistrationTypeOK

\* What the page hears: it goes on only after a success.
LEMMA HeardInv ==
  ASSUME RegistrationInv, NEW n \in DOMAIN attempts,
         UploadAnswer(n) \/ RegisterAnswer(n) \/ preload_money(n) \/ AnswerLost(n)
  PROVE  RegistrationInv'
<1>1. PICK stage \in {"register", "preload", "over"} :
        /\ Moves(n, stage, "none") \/ Moves(n, stage, attempts[n].server)
        /\ stage # "over" => Uploaded(n)
  <2>1. CASE UploadAnswer(n)
    <3>1. attempts[n].server = "ok" => Proceed(n, "register") /\ Uploaded(n)
          BY <2>1 DEF UploadAnswer, Uploaded
    <3>2. attempts[n].server # "ok" => Tell(n, "failure")
          BY <2>1 DEF UploadAnswer
    <3> QED BY <3>1, <3>2, ProceedMoves, TellMoves DEF RegistrationInv
  <2>2. CASE RegisterAnswer(n)
    <3>1. Uploaded(n)
          BY <2>2 DEF RegisterAnswer, Uploaded
    <3>2. Proceed(n, "preload") \/ Tell(n, "failure") \/ Tell(n, "success")
          BY <2>2 DEF RegisterAnswer
    <3> QED BY <3>1, <3>2, ProceedMoves, TellMoves DEF RegistrationInv
  <2>3. CASE preload_money(n)
    <3>1. Tell(n, "failure") \/ Tell(n, "success")
          BY <2>3 DEF preload_money
    <3> QED BY <3>1, TellMoves DEF RegistrationInv
  <2>4. CASE AnswerLost(n)
        BY <2>4, LostMoves DEF RegistrationInv
  <2> QED BY <2>1, <2>2, <2>3, <2>4
<1>2. UNCHANGED <<pics, accounts, credit, sendable>>
      BY DEF UploadAnswer, RegisterAnswer, preload_money, AnswerLost
<1>3. gone' \subseteq gone \cup {attempts[n].who}
      BY DEF UploadAnswer, RegisterAnswer, preload_money, AnswerLost
<1>4. gone' \subseteq Applicant
      BY <1>3, AttemptParts DEF RegistrationInv, RegistrationTypeOK
<1>5. Uploaded(n)' => Uploaded(n)
      BY <1>1, <1>2 DEF Moves, Uploaded
<1>6. NeedsPicture(n) /\ Uploaded(n)' => <<attempts[n].picname, attempts[n].who>> \in pics'
      BY <1>2, <1>5 DEF RegistrationInv
<1> QED BY <1>1, <1>2, <1>4, <1>6, MovesInv DEF RegistrationInv, RegistrationTypeOK

LEMMA RegistrationNextInv ==
  RegistrationInv /\ [RegistrationNext]_registrationVars => RegistrationInv'
<1> SUFFICES ASSUME RegistrationInv, [RegistrationNext]_registrationVars
             PROVE  RegistrationInv'
    OBVIOUS
<1>1. ASSUME NEW p \in Applicant, NEW picname \in Picname,
             onSendClick(p, picname) \/ BankSend(p, picname)
      PROVE  RegistrationInv'
  <2>1. sendable' \in [Applicant -> BOOLEAN]
        BY <1>1 DEF onSendClick, BankSend, RegistrationInv, RegistrationTypeOK
  <2> QED BY <1>1, <2>1, StartsInv DEF onSendClick, BankSend
<1>2. ASSUME NEW p \in Applicant, MessageClose(p)
      PROVE  RegistrationInv'
      BY <1>2 DEF MessageClose, RegistrationInv, RegistrationTypeOK, NeedsPicture, Uploaded,
         SkipsPicture
<1>3. CASE UNCHANGED registrationVars
      BY <1>3 DEF registrationVars, RegistrationInv, RegistrationTypeOK, NeedsPicture, Uploaded,
         SkipsPicture
<1> QED BY <1>1, <1>2, <1>3, UploadImageInv, RegisterInv, PreloadInv, HeardInv
    DEF RegistrationNext

LEMMA RegistrationInitInv == RegistrationInit => RegistrationInv
<1> SUFFICES ASSUME RegistrationInit PROVE RegistrationInv
    OBVIOUS
<1>1. attempts \in Seq(Attempt) /\ DOMAIN attempts = {}
      BY DEF RegistrationInit
<1> QED BY <1>1 DEF RegistrationInit, RegistrationInv, RegistrationTypeOK

\* An account that needs a picture has its own, whatever names the pages draw and
\* however their attempts are interleaved (webcam/main.js:43, flag "wx").
THEOREM PictureOfOwnerTheorem == RegistrationSpec => []PictureOfOwner
<1>1. RegistrationInv => PictureOfOwner
  <2> SUFFICES ASSUME RegistrationInv, NEW n \in accounts, ~SkipsPicture(attempts[n].who)
               PROVE  /\ <<attempts[n].picname, attempts[n].who>> \in pics
                      /\ \A p \in pics : p[1] = attempts[n].picname => p[2] = attempts[n].who
      BY DEF PictureOfOwner
  <2>1. <<attempts[n].picname, attempts[n].who>> \in pics
        BY DEF RegistrationInv, RegistrationTypeOK, NeedsPicture, Uploaded
  <2> QED BY <2>1 DEF RegistrationInv
<1> QED BY <1>1, RegistrationInitInv, RegistrationNextInv, PTL DEF RegistrationSpec

-----------------------------------------------------------------------------
(* The list of students *)

\* An entry has the QR-ID of its pupil, unless that one has lost it; a character of
\* an error has none.
Current(e) == e.qrid # NoOne =>
  e.pupil \in Pupil /\ (e.pupil \notin freed => qridOf[e.pupil] = e.qrid)

AllCurrent(list) == \A i \in DOMAIN list : Current(list[i])

\* What was sent is for the pupil who was shown, and so is what it has hit.
Meant(order) ==
  /\ order.qrid # NoOne =>
       order.shown \in Pupil /\ (order.shown \notin freed => qridOf[order.shown] = order.qrid)
  /\ order.shown \notin freed => order.hit \subseteq {order.shown}

NoEntries(list) == \A i \in DOMAIN list : list[i].qrid = NoOne

ListInv ==
  /\ ListTypeOK
  /\ \A p, q \in Pupil : qridOf[p] = qridOf[q] => p = q \/ qridOf[p] = NoOne
  /\ \A answer \in querying : AllCurrent(answer)
  /\ AllCurrent(studentlist) /\ AllCurrent(rows)
  /\ rows = <<>> \/ NoEntries(studentlist) \/ rows = studentlist
  /\ \A st \in current_profile : Current(st)
  /\ \A st \in current_profile, p \in profile : st.pupil = p
  /\ \A k \in DOMAIN orders : Meant(orders[k])

LEMMA NoOneIsNew == NoOne \notin Pupil /\ NoOne \notin PupilQrid
BY ListAssumption

\* Sorting a list keeps its entries.
LEMMA SortedIsCurrent ==
  ASSUME NEW answer \in Seq(Listed), AllCurrent(answer)
  PROVE  ByLastname(answer) \in Seq(Listed) /\ AllCurrent(ByLastname(answer))
<1>1. IsFiniteSet(ToSet(answer)) /\ ToSet(answer) \subseteq Listed
      BY ElementsFinite
<1>2. ByLastname(answer) \in Seq(ToSet(answer))
      BY <1>1, InSomeOrder DEF ByLastname
<1>3. \A e \in ToSet(answer) : Current(e)
      BY DEF ToSet, AllCurrent
<1>4. \A i \in DOMAIN ByLastname(answer) : ByLastname(answer)[i] \in ToSet(answer)
      BY <1>2
<1>5. ByLastname(answer) \in Seq(Listed)
      BY <1>1, <1>2
<1> QED BY <1>3, <1>4, <1>5 DEF AllCurrent

LEMMA ListInitInv == ListInit => ListInv
<1> SUFFICES ASSUME ListInit PROVE ListInv
    OBVIOUS
<1>1. qridOf \in [Pupil -> PupilQrid] /\ \A p, q \in Pupil : qridOf[p] = qridOf[q] => p = q
  <2>1. \E f \in [Pupil -> PupilQrid] : \A p, q \in Pupil : f[p] = f[q] => p = q
        BY ListAssumption
  <2> QED BY <2>1 DEF ListInit
<1>2. /\ studentlist = <<>> /\ rows = <<>> /\ orders = <<>>
      /\ querying = {} /\ current_profile = {} /\ profile = {} /\ freed = {} /\ queries = 0
      BY DEF ListInit
<1>3. /\ studentlist \in Seq(Listed) /\ rows \in Seq(Listed) /\ orders \in Seq(Order)
      /\ DOMAIN studentlist = {} /\ DOMAIN rows = {} /\ DOMAIN orders = {}
      BY <1>2
<1>4. queries \in 0..MaxQueries
      BY <1>2, ListAssumption
<1> QED BY <1>1, <1>2, <1>3, <1>4 DEF ListInv, ListTypeOK, AllCurrent, Qrid

LEMMA LoadFilterInv == ListInv /\ LoadFilter => ListInv'
<1> SUFFICES ASSUME ListInv, LoadFilter PROVE ListInv'
    OBVIOUS
<1>1. PICK found \in SUBSET {p \in Pupil : qridOf[p] # NoOne} :
        \E answer \in SetToSeqs({[pupil |-> p, qrid |-> qridOf[p]] : p \in found}) :
          querying' = querying \cup {answer}
      BY DEF LoadFilter
<1> DEFINE S == {[pupil |-> p, qrid |-> qridOf[p]] : p \in found}
           whose == [e \in S |-> e.pupil]
<1>2. \A e \in S : e \in Listed /\ Current(e) /\ e = [pupil |-> e.pupil, qrid |-> qridOf[e.pupil]]
      BY DEF ListInv, ListTypeOK, Listed, Current
<1>3. whose \in Injection(S, Pupil)
  <2>1. \A e \in S : whose[e] = e.pupil /\ e.pupil \in Pupil
        OBVIOUS
  <2> HIDE DEF S
  <2>2. whose \in [S -> Pupil]
        BY <2>1
  <2>3. \A e, f \in S : whose[e] = whose[f] => e = f
        BY <2>1, <1>2
  <2> QED BY <2>2, <2>3 DEF Injection, IsInjective
<1>4. PICK answer \in SetToSeqs(S) : querying' = querying \cup {answer}
      BY <1>1
<1> HIDE DEF S
<1>5. answer \in Seq(S)
      BY <1>3, <1>4, FS_Injection, InSomeOrder, ListAssumption
<1>6. answer \in Seq(Listed) /\ AllCurrent(answer)
      BY <1>2, <1>5 DEF AllCurrent
<1>7. queries' \in 0..MaxQueries /\ rows' = <<>>
      BY ListAssumption DEF LoadFilter, ListInv, ListTypeOK
<1>8. rows' \in Seq(Listed) /\ DOMAIN rows' = {}
      BY <1>7
<1>9. UNCHANGED <<qridOf, freed, studentlist, current_profile, profile, orders>>
      BY DEF LoadFilter
<1>10. \A k \in DOMAIN orders : Meant(orders[k])'
      BY <1>9 DEF Meant, ListInv
<1>11. ListTypeOK'
      BY <1>4, <1>6, <1>7, <1>8, <1>9 DEF ListInv, ListTypeOK
<1> QED BY <1>4, <1>6, <1>7, <1>8, <1>9, <1>10, <1>11 DEF ListInv, AllCurrent, Current

LEMMA ErrorIsNobody ==
  \A list \in {<<>>, ErrorText} : list \in Seq(Listed) /\ NoEntries(list)
<1> DEFINE n == Cardinality(Pupil)
<1>1. n \in Nat
      BY ListAssumption, FS_CardinalityType
<1>2. Undefined \in Listed /\ Undefined.qrid = NoOne
      BY DEF Undefined, Listed, Qrid
<1> HIDE DEF n
<1>3. [i \in 1..n |-> Undefined] \in Seq(Listed) /\ NoEntries([i \in 1..n |-> Undefined])
      BY <1>1, <1>2 DEF NoEntries
<1>4. <<>> \in Seq(Listed) /\ NoEntries(<<>>)
      BY DEF NoEntries
<1> QED BY <1>3, <1>4 DEF ErrorText, n

\* A list that arrives, behind a profile or not.
LEMMA ListArrivesInv ==
  ASSUME ListInv, NEW answer \in querying, render_list(answer) \/ ListFails(answer)
  PROVE  ListInv'
<1>1. answer \in Seq(Listed) /\ AllCurrent(answer)
      BY DEF ListInv, ListTypeOK
<1>2. /\ studentlist' \in Seq(Listed) /\ AllCurrent(studentlist')
      /\ rows' \in Seq(Listed) /\ AllCurrent(rows')
      /\ rows' = <<>> \/ NoEntries(studentlist') \/ rows' = studentlist'
  <2>1. CASE render_list(answer)
        BY <1>1, <2>1, SortedIsCurrent DEF render_list
  <2>2. CASE ListFails(answer)
    <3>1. rows' = rows /\ studentlist' \in Seq(Listed) /\ NoEntries(studentlist')
          BY <2>2, ErrorIsNobody DEF ListFails
    <3> QED BY <3>1 DEF ListInv, ListTypeOK, AllCurrent, NoEntries, Current
  <2> QED BY <2>1, <2>2
<1>3. /\ querying' \subseteq querying
      /\ UNCHANGED <<qridOf, freed, current_profile, profile, orders, queries>>
      BY DEF render_list, ListFails
<1>4. ListTypeOK'
      BY <1>2, <1>3 DEF ListInv, ListTypeOK
<1>5. \A e : Current(e) <=> Current(e)'
      BY <1>3 DEF Current
<1>6. AllCurrent(studentlist)' /\ AllCurrent(rows)'
      /\ \A other \in querying' : AllCurrent(other)'
      BY <1>2, <1>3 DEF AllCurrent, Current, ListInv
<1>7. \A k \in DOMAIN orders : Meant(orders[k])'
      BY <1>3 DEF Meant, ListInv
<1>8. \A st \in current_profile' : Current(st)'
      BY <1>3 DEF Current, ListInv
<1> QED BY <1>2, <1>3, <1>4, <1>6, <1>7, <1>8 DEF ListInv

LEMMA ProfileOpenInv ==
  ASSUME ListInv, NEW i \in DOMAIN rows, profile_open(i)
  PROVE  ListInv'
<1>1. studentlist[i] \in Listed /\ Current(studentlist[i])
      BY DEF profile_open, ListInv, ListTypeOK, AllCurrent
<1>2. studentlist[i].pupil \in Pupil \cup {NoOne}
      BY <1>1 DEF Listed
<1>3. /\ current_profile' = {studentlist[i]} /\ profile' = {studentlist[i].pupil}
      /\ UNCHANGED <<qridOf, freed, querying, studentlist, rows, orders, queries>>
      BY DEF profile_open
<1>4. ListTypeOK'
      BY <1>1, <1>2, <1>3 DEF ListInv, ListTypeOK
<1>5. /\ AllCurrent(studentlist)' /\ AllCurrent(rows)'
      /\ \A other \in querying' : AllCurrent(other)'
      BY <1>3 DEF AllCurrent, Current, ListInv
<1>6. \A k \in DOMAIN orders : Meant(orders[k])'
      BY <1>3 DEF Meant, ListInv
<1>7. \A st \in current_profile' : Current(st)'
      BY <1>1, <1>3 DEF Current
<1> QED BY <1>3, <1>4, <1>5, <1>6, <1>7 DEF ListInv

LEMMA ProfileCloseInv == ListInv /\ profile_close => ListInv'
<1> SUFFICES ASSUME ListInv, profile_close PROVE ListInv'
    OBVIOUS
<1>1. profile' = {}
      /\ UNCHANGED <<qridOf, freed, querying, studentlist, rows, current_profile, orders,
                     queries>>
      BY DEF profile_close
<1>2. ListTypeOK'
      BY <1>1 DEF ListInv, ListTypeOK
<1>3. /\ AllCurrent(studentlist)' /\ AllCurrent(rows)'
      /\ \A other \in querying' : AllCurrent(other)'
      /\ \A st \in current_profile' : Current(st)'
      /\ \A k \in DOMAIN orders : Meant(orders[k])'
      BY <1>1 DEF AllCurrent, Current, Meant, ListInv
<1> QED BY <1>1, <1>2, <1>3 DEF ListInv

\* Whatever is sent is for the QR-ID of an entry of whom the page shows.
LEMMA ListSendsInv ==
  ASSUME ListInv, NEW kind \in {"change", "rename", "delete"}, NEW to \in Qrid,
         NEW e \in Listed, Current(e), NEW who \in Pupil \cup {NoOne},
         e.qrid = NoOne \/ e.pupil = who, Sends(kind, to, e.qrid, who)
  PROVE  ListInv'
<1> DEFINE order == [kind |-> kind, to |-> to, qrid |-> e.qrid, shown |-> who,
                     hit |-> {}, state |-> "sent"]
<1>1. e.qrid \in Qrid
      BY DEF Listed
<1>2. order \in Order
      BY <1>1 DEF Order
<1>3. Meant(order)
      BY DEF Meant, Current
<1>4. /\ orders' = Append(orders, order)
      /\ UNCHANGED <<qridOf, freed, querying, studentlist, rows, current_profile, profile,
                     queries>>
      BY DEF Sends
<1> HIDE DEF order
<1>5. orders \in Seq(Order)
      BY DEF ListInv, ListTypeOK
<1>6. /\ orders' \in Seq(Order)
      /\ \A k \in DOMAIN orders' : \/ k \in DOMAIN orders /\ orders'[k] = orders[k]
                                   \/ orders'[k] = order
      BY <1>2, <1>4, <1>5
<1>7. \A k \in DOMAIN orders' : Meant(orders'[k])
      BY <1>3, <1>6 DEF ListInv
<1>8. ListTypeOK'
      BY <1>4, <1>6 DEF ListInv, ListTypeOK
<1>9. \A k \in DOMAIN orders' : Meant(orders[k])'
      BY <1>4, <1>7 DEF Meant
<1>10. /\ AllCurrent(studentlist)' /\ AllCurrent(rows)'
       /\ \A other \in querying' : AllCurrent(other)'
       /\ \A st \in current_profile' : Current(st)'
      BY <1>4 DEF AllCurrent, Current, ListInv
<1> QED BY <1>4, <1>8, <1>9, <1>10 DEF ListInv

LEMMA DeleteInv ==
  ASSUME ListInv, NEW i \in DOMAIN rows, student_delete(i)
  PROVE  ListInv'
<1>1. studentlist[i] \in Listed /\ Current(studentlist[i]) /\ rows[i] \in Listed
      BY DEF student_delete, ListInv, ListTypeOK, AllCurrent
<1>2. studentlist[i].qrid = NoOne \/ studentlist[i].pupil = rows[i].pupil
      BY DEF student_delete, ListInv, NoEntries
<1>3. studentlist[i].qrid \in Qrid /\ rows[i].pupil \in Pupil \cup {NoOne}
      BY <1>1 DEF Listed
<1> QED BY <1>1, <1>2, <1>3, ListSendsInv DEF student_delete

LEMMA ProfileSendsInv ==
  ASSUME ListInv, profile_change \/ \E to \in PupilQrid : profile_edit(to)
  PROVE  ListInv'
<1>1. PICK st \in current_profile, p \in profile, kind \in {"change", "rename"},
           to \in Qrid : Sends(kind, to, st.qrid, p)
  <2>1. \A st \in current_profile : st.qrid \in Qrid
        BY DEF ListInv, ListTypeOK, Listed
  <2> QED BY <2>1 DEF profile_change, profile_edit, Qrid
<1>2. st \in Listed /\ Current(st) /\ st.pupil = p /\ p \in Pupil \cup {NoOne}
      BY DEF ListInv, ListTypeOK
<1> QED BY <1>1, <1>2, ListSendsInv

\* One order changes: who is asked for stays.
LEMMA OrderStep ==
  ASSUME ListTypeOK, NEW k \in DOMAIN orders, NEW next \in Order,
         orders' = [orders EXCEPT ![k] = next]
  PROVE  /\ orders' \in Seq(Order) /\ DOMAIN orders' = DOMAIN orders
         /\ \A m \in DOMAIN orders : orders'[m] = IF m = k THEN next ELSE orders[m]
<1>1. orders \in Seq(Order)
      BY DEF ListTypeOK
<1> QED BY <1>1, ExceptSeq

LEMMA OrderStateChange ==
  ASSUME NEW o \in Order, NEW state \in {"sent", "done", "heard"}
  PROVE  /\ [o EXCEPT !.state = state] \in Order
         /\ [o EXCEPT !.state = state].shown = o.shown
         /\ [o EXCEPT !.state = state].qrid = o.qrid
         /\ [o EXCEPT !.state = state].hit = o.hit
BY DEF Order

LEMMA OrderHitChange ==
  ASSUME NEW o \in Order, NEW hit \in SUBSET Pupil
  PROVE  /\ [o EXCEPT !.hit = hit] \in Order
         /\ [o EXCEPT !.hit = hit].shown = o.shown
         /\ [o EXCEPT !.hit = hit].qrid = o.qrid
         /\ [o EXCEPT !.hit = hit].hit = hit
BY DEF Order

\* One account is hit at most; it has the QR-ID of the order, or another that was
\* free, or none any more, and then it has been freed.
LEMMA ExecutedInv ==
  ASSUME ListInv, NEW k \in DOMAIN orders, Executed(k)
  PROVE  ListInv'
<1> DEFINE hit == Hit(orders[k])
           qrid == Leaves(orders[k])
           done == [orders[k] EXCEPT !.state = "done"]
           next == [done EXCEPT !.hit = hit]
<1>1. orders \in Seq(Order) /\ orders[k] \in Order
      BY DEF ListInv, ListTypeOK
<1>2. orders[k].to \in Qrid /\ orders[k].qrid \in Qrid /\ orders[k].kind \in {"change", "rename", "delete"}
      BY <1>1 DEF Order
<1>3. orders' = [orders EXCEPT ![k] = next]
      BY <1>1 DEF Executed
<1>4. /\ qridOf' = [p \in Pupil |-> IF p \in hit THEN qrid ELSE qridOf[p]]
      /\ freed' = IF qrid = orders[k].qrid THEN freed ELSE freed \cup hit
      /\ UNCHANGED <<querying, studentlist, rows, current_profile, profile, queries>>
      BY DEF Executed
<1>5. done \in Order /\ done.shown = orders[k].shown /\ done.qrid = orders[k].qrid
      BY <1>1, OrderStateChange
<1>6. /\ hit \in SUBSET Pupil /\ (\A p \in hit, q \in hit : p = q)
      /\ \A p \in hit : qridOf[p] = orders[k].qrid /\ orders[k].qrid # NoOne
      BY DEF ListInv, Hit
<1>16. /\ qrid \in Qrid
       /\ qrid \in {NoOne, orders[k].qrid} \/ \A p \in Pupil : qridOf[p] # qrid
      BY <1>2 DEF Leaves, Qrid
<1> HIDE DEF done, hit, qrid
<1>7. next \in Order /\ next.shown = done.shown /\ next.qrid = done.qrid /\ next.hit = hit
      BY <1>5, <1>6, OrderHitChange
<1> HIDE DEF next
<1>8. /\ orders' \in Seq(Order) /\ DOMAIN orders' = DOMAIN orders
      /\ \A m \in DOMAIN orders : orders'[m] = IF m = k THEN next ELSE orders[m]
      BY <1>3, <1>7, OrderStep DEF ListInv
<1>9. qridOf' \in [Pupil -> Qrid] /\ freed' \subseteq Pupil
      BY <1>4, <1>6, <1>16 DEF ListInv, ListTypeOK
<1>10. \A p, q \in Pupil : qridOf'[p] = qridOf'[q] => p = q \/ qridOf'[p] = NoOne
  <2> SUFFICES ASSUME NEW p \in Pupil, NEW q \in Pupil, qridOf'[p] = qridOf'[q], p # q
               PROVE  qridOf'[p] = NoOne
      OBVIOUS
  <2>1. qridOf[p] = qridOf[q] => qridOf[p] = NoOne
        BY DEF ListInv
  <2>2. /\ qridOf'[p] = IF p \in hit THEN qrid ELSE qridOf[p]
        /\ qridOf'[q] = IF q \in hit THEN qrid ELSE qridOf[q]
        BY <1>4
  <2>3. CASE qrid = NoOne
        BY <1>6, <2>1, <2>2, <2>3
  <2>4. CASE qrid = orders[k].qrid
        BY <1>6, <2>1, <2>2, <2>4
  <2>5. CASE \A r \in Pupil : qridOf[r] # qrid
        BY <1>6, <2>1, <2>2, <2>5
  <2> QED BY <1>16, <2>3, <2>4, <2>5
<1>11. \A p \in Pupil : p \notin freed' => p \notin freed /\ qridOf'[p] = qridOf[p]
      BY <1>4, <1>6
<1>12. ListTypeOK'
      BY <1>4, <1>8, <1>9 DEF ListInv, ListTypeOK
<1>13. \A e \in Listed : Current(e) => Current(e)'
      BY <1>11 DEF Current
<1>14. \A list \in Seq(Listed) : AllCurrent(list) => \A i \in DOMAIN list : Current(list[i])'
      BY <1>13 DEF AllCurrent
<1>15. /\ AllCurrent(studentlist)' /\ AllCurrent(rows)'
       /\ \A other \in querying' : AllCurrent(other)'
  <2>1. \A list \in {studentlist, rows} \cup querying : \A i \in DOMAIN list : Current(list[i])'
        BY <1>14 DEF ListInv, ListTypeOK
  <2> QED BY <1>4, <2>1 DEF AllCurrent, Current
<1>18. \A st \in current_profile' : Current(st)'
      BY <1>4, <1>13 DEF ListInv, ListTypeOK, Current
<1>17. \A m \in DOMAIN orders' : Meant(orders[m])'
  <2> SUFFICES ASSUME NEW m \in DOMAIN orders PROVE Meant(orders[m])'
      BY <1>8
  <2>1. orders'[m].shown = orders[m].shown /\ orders'[m].qrid = orders[m].qrid
    <3>1. orders[m] \in Order
          BY <1>1
    <3> QED BY <1>5, <1>7, <1>8, <3>1 DEF Order
  <2>2. Meant(orders[m])
        BY DEF ListInv
  <2>3. orders[m].qrid # NoOne =>
          /\ orders[m].shown \in Pupil
          /\ orders[m].shown \notin freed' => qridOf'[orders[m].shown] = orders[m].qrid
        BY <1>11, <2>2 DEF Meant
  <2>4. freed \subseteq freed'
        BY <1>4
  <2>5. orders[m].shown \notin freed' => orders'[m].hit \subseteq {orders[m].shown}
    <3>1. CASE m = k
      <4> SUFFICES ASSUME orders[k].shown \notin freed, NEW p \in hit PROVE p = orders[k].shown
          BY <1>7, <1>8, <2>4, <3>1
      <4>1. p \in Pupil /\ qridOf[p] = orders[k].qrid /\ orders[k].qrid # NoOne
            BY <1>6
      <4>2. orders[k].shown \in Pupil /\ qridOf[orders[k].shown] = orders[k].qrid
            BY <2>2, <3>1, <4>1 DEF Meant
      <4> QED BY <4>1, <4>2 DEF ListInv
    <3>2. CASE m # k
          BY <1>8, <2>2, <2>4, <3>2 DEF Meant
    <3> QED BY <3>1, <3>2
  <2> QED BY <2>1, <2>3, <2>5 DEF Meant
<1> QED BY <1>4, <1>10, <1>12, <1>15, <1>17, <1>18 DEF ListInv

LEMMA OrderAnswerInv ==
  ASSUME ListInv, NEW k \in DOMAIN orders, OrderAnswer(k)
  PROVE  ListInv'
<1> DEFINE next == [orders[k] EXCEPT !.state = "heard"]
<1>1. orders \in Seq(Order) /\ orders[k] \in Order
      BY DEF ListInv, ListTypeOK
<1>2. orders' = [orders EXCEPT ![k] = next]
      /\ UNCHANGED <<qridOf, freed, querying, studentlist, rows, current_profile, profile,
                     queries>>
      BY <1>1 DEF OrderAnswer
<1>3. next \in Order /\ next.shown = orders[k].shown /\ next.qrid = orders[k].qrid
      /\ next.hit = orders[k].hit
      BY <1>1, OrderStateChange
<1> HIDE DEF next
<1>4. /\ orders' \in Seq(Order) /\ DOMAIN orders' = DOMAIN orders
      /\ \A m \in DOMAIN orders : orders'[m] = IF m = k THEN next ELSE orders[m]
      BY <1>2, <1>3, OrderStep DEF ListInv
<1>5. \A m \in DOMAIN orders' : Meant(orders[m])'
      BY <1>2, <1>3, <1>4 DEF ListInv, Meant
<1>6. /\ AllCurrent(studentlist)' /\ AllCurrent(rows)'
      /\ \A other \in querying' : AllCurrent(other)'
      /\ \A st \in current_profile' : Current(st)'
      BY <1>2 DEF AllCurrent, Current, ListInv
<1> QED BY <1>2, <1>4, <1>5, <1>6 DEF ListInv, ListTypeOK

LEMMA ListNextInv == ListInv /\ [ListNext]_listVars => ListInv'
<1> SUFFICES ASSUME ListInv, [ListNext]_listVars PROVE ListInv'
    OBVIOUS
<1>1. CASE UNCHANGED listVars
      BY <1>1 DEF listVars, ListInv, ListTypeOK, AllCurrent, Current, Meant
<1> QED BY <1>1, LoadFilterInv, ListArrivesInv, ProfileOpenInv, ProfileCloseInv, DeleteInv,
           ProfileSendsInv, ExecutedInv, OrderAnswerInv DEF ListNext

\* Nobody but who was shown is deleted or changed, with any number of accounts,
\* lists and orders under way at once, however their answers are interleaved and
\* whatever QR-IDs are exchanged meanwhile (studentlist/scripts.js).
THEOREM ActsOnShownTheorem == ListSpec => []ActsOnShown
<1>1. ListInv => ActsOnShown
      BY DEF ListInv, Meant, ActsOnShown
<1> QED BY <1>1, ListInitInv, ListNextInv, PTL DEF ListSpec

-----------------------------------------------------------------------------
(* Places of ID cards *)

LEMMA DivMod ==
  ASSUME NEW a \in Nat, NEW b \in Nat \ {0}
  PROVE  a = b * (a \div b) + (a % b) /\ a \div b \in Nat /\ a % b \in 0..b - 1
OBVIOUS

LEMMA TimesStrict ==
  ASSUME NEW a \in Nat \ {0}, NEW b \in Nat, NEW c \in Nat, a * b < a * c
  PROVE  b < c
<1> SUFFICES ASSUME c <= b PROVE FALSE
    OBVIOUS
<1>1. a * c <= a * b
  <2>1. a * b = a * c + a * (b - c) /\ b - c \in Nat
        OBVIOUS
  <2>2. a * (b - c) >= 0 /\ a * c \in Nat
        BY <2>1
  <2> QED BY <2>1, <2>2
<1> QED BY <1>1

\* A remainder is what is left of a multiple.
LEMMA ModUnique ==
  ASSUME NEW b \in Nat \ {0}, NEW q \in Nat, NEW r \in 0..b - 1
  PROVE  (b * q + r) % b = r
<1> DEFINE a == b * q + r
           k == a \div b
           m == a % b
<1>1. a \in Nat
      OBVIOUS
<1>2. a = b * k + m /\ k \in Nat /\ m \in 0..b - 1
      BY <1>1, DivMod
<1> HIDE DEF k, m
<1>3. b * q + r = b * k + m
      BY <1>2
<1>4. CASE q < k
  <2>1. k = q + 1 + (k - q - 1) /\ k - q - 1 \in Nat
        BY <1>2, <1>4
  <2>2. b * k = b * q + b + b * (k - q - 1) /\ b * (k - q - 1) >= 0
        BY <2>1
  <2> QED BY <1>2, <1>3, <2>2
<1>5. CASE k < q
  <2>1. q = k + 1 + (q - k - 1) /\ q - k - 1 \in Nat
        BY <1>2, <1>5
  <2>2. b * q = b * k + b + b * (q - k - 1) /\ b * (q - k - 1) >= 0
        BY <1>2, <2>1
  <2> QED BY <1>2, <1>3, <2>2
<1>6. CASE k = q
      BY <1>2, <1>3, <1>6 DEF m
<1> QED BY <1>2, <1>4, <1>5, <1>6

LEMMA Amounts == AMOUNT_X \in Nat \ {0} /\ AMOUNT_Y \in Nat \ {0}
                 /\ AMOUNT_X * AMOUNT_Y \in Nat \ {0}
<1>1. AMOUNT_X \in Nat \ {0} /\ AMOUNT_Y \in Nat \ {0}
      BY CardsAssumption
<1> QED BY <1>1

\* The index of a card can be read off its place.
LEMMA PlaceParts ==
  ASSUME NEW index \in Nat
  PROVE  /\ place(index) \in Place
         /\ index = (AMOUNT_X * AMOUNT_Y) * place(index).page
                      + AMOUNT_X * place(index).y + place(index).x
<1> DEFINE X == AMOUNT_X
           P == AMOUNT_X * AMOUNT_Y
           rest == index % P
           y == rest \div X
           x == rest % X
<1>1. X \in Nat \ {0} /\ AMOUNT_Y \in Nat \ {0} /\ P \in Nat \ {0} /\ P = X * AMOUNT_Y
      BY Amounts
<1>2. index = P * (index \div P) + rest /\ index \div P \in Nat /\ rest \in 0..P - 1
      BY <1>1, DivMod
<1>3. rest = X * y + x /\ y \in Nat /\ x \in 0..X - 1
  <2>1. rest \in Nat
        BY <1>1, <1>2
  <2> HIDE DEF rest, X
  <2> QED BY <1>1, <2>1, DivMod
<1>4. y \in 0..AMOUNT_Y - 1
  <2>1. X * y < X * AMOUNT_Y
        BY <1>1, <1>2, <1>3
  <2> HIDE DEF y, X, P
  <2>2. y < AMOUNT_Y
        BY <1>1, <1>3, <2>1, TimesStrict
  <2> QED BY <1>1, <1>3, <2>2
<1>5. index % X = x
  <2> DEFINE q == AMOUNT_Y * (index \div P) + y
  <2>1. q \in Nat
        BY <1>1, <1>2, <1>3
  <2>2. X * q = P * (index \div P) + X * y
    <3> DEFINE k == index \div P
    <3>1. k \in Nat /\ y \in Nat /\ X \in Nat /\ AMOUNT_Y \in Nat
          BY <1>1, <1>2, <1>3
    <3> HIDE DEF k, y
    <3>2. X * (AMOUNT_Y * k + y) = (X * AMOUNT_Y) * k + X * y
          BY <3>1
    <3> QED BY <3>2 DEF k
  <2>3. index = X * q + x
        BY <1>1, <1>2, <1>3, <2>2
  <2> HIDE DEF q, x, y, X, P
  <2> QED BY <1>1, <1>3, <2>1, <2>3, ModUnique
<1>6. place(index) = [page |-> index \div P, y |-> y, x |-> x]
      BY <1>5 DEF place
<1> HIDE DEF x, y
<1>7. place(index) \in Place
      BY <1>2, <1>3, <1>4, <1>6 DEF Place
<1>8. index = P * (index \div P) + X * y + x
  <2> HIDE DEF P, X
  <2> QED BY <1>1, <1>2, <1>3
<1>9. place(index).page = index \div P /\ place(index).y = y /\ place(index).x = x
      BY <1>6
<1> QED BY <1>7, <1>8, <1>9

LEMMA PlaceInjective ==
  ASSUME NEW i \in Nat, NEW j \in Nat, place(i) = place(j)
  PROVE  i = j
BY PlaceParts

\* So the cards of a list have as many places as there are cards.
LEMMA PlacesCardinality ==
  ASSUME NEW L \in Nat, NEW cards, DOMAIN cards = 1..L, \A n \in 1..L : cards[n] = {place(n - 1)}
  PROVE  Cardinality(UNION {cards[n] : n \in 1..L}) = L
<1> DEFINE U == UNION {cards[n] : n \in 1..L}
           f == [n \in 1..L |-> place(n - 1)]
<1>1. f \in [1..L -> U] /\ \A u \in U : \E n \in 1..L : f[n] = u
      OBVIOUS
<1>2. \A m, n \in 1..L : f[m] = f[n] => m = n
  <2> SUFFICES ASSUME NEW m \in 1..L, NEW n \in 1..L, place(m - 1) = place(n - 1) PROVE m = n
      OBVIOUS
  <2>1. m - 1 \in Nat /\ n - 1 \in Nat
        OBVIOUS
  <2>2. m - 1 = n - 1
        BY <2>1, PlaceInjective
  <2> QED BY <2>2
<1> HIDE DEF f, U
<1>3. f \in Bijection(1..L, U)
      BY <1>1, <1>2 DEF Bijection, Injection, Surjection, IsInjective
<1>4. IsFiniteSet(1..L) /\ Cardinality(1..L) = L
      BY FS_Interval
<1>5. Cardinality(U) = L
      BY <1>3, <1>4, FS_Bijection DEF ExistsBijection
<1> QED BY <1>5 DEF U

-----------------------------------------------------------------------------
(* ID cards *)

Pdf == [list : Seq(CardKind), cards : Seq(SUBSET Place), pictures : SUBSET Nat,
        state : {"waits", "aborted", "shown"}, alone : BOOLEAN]

\* The cards whose picture is asked for, and those of a PDF that lack it.
Asks(list) == {n \in student_readable(list) : list[n] # "plain"}
Missing(p) == Asks(pdfs[p].list) \ pdfs[p].pictures

\* Unless it was aborted a PDF has a place for each of its cards.
Laid(pdf) ==
  /\ DOMAIN pdf.cards = DOMAIN pdf.list /\ pdf.pictures \subseteq DOMAIN pdf.list
  /\ pdf.state \in {"waits", "shown"} =>
       \A n \in DOMAIN pdf.list : pdf.list[n] # "broken" /\ pdf.cards[n] = {place(n - 1)}

CardsTyped ==
  /\ pdfs \in Seq(Pdf) /\ \A p \in DOMAIN pdfs : Laid(pdfs[p])
  /\ fetching \subseteq [pdf : DOMAIN pdfs, card : 1..MaxListLength, came : BOOLEAN]
  /\ \A f \in fetching : f.card \in DOMAIN pdfs[f.pdf].list
  /\ passpics_to_load \in Int

\* A PDF that waits alone is the last, and the counter is its own: pictures are
\* under way for no other, and one that is lost stays missing.
AloneInv ==
  /\ \A p \in DOMAIN pdfs : pdfs[p].alone /\ pdfs[p].state = "waits" =>
       /\ p = Len(pdfs) /\ passpics_to_load = Cardinality(Missing(p))
       /\ \A f \in fetching : f.pdf = p
  /\ \A p \in DOMAIN pdfs : pdfs[p].alone /\ pdfs[p].state = "shown" => Missing(p) = {}

CardsInv ==
  /\ CardsTyped /\ AloneInv
  /\ \A f \in fetching : f.card \in Missing(f.pdf)
  /\ \A f, g \in fetching : f.pdf = g.pdf /\ f.card = g.card => f = g

LEMMA AsksFinite ==
  ASSUME NEW list \in Seq(CardKind)
  PROVE  /\ Asks(list) \subseteq DOMAIN list
         /\ Cardinality(Asks(list)) \in Nat
         /\ \A S : IsFiniteSet(Asks(list) \ S)
<1>1. Asks(list) \subseteq DOMAIN list /\ DOMAIN list = 1..Len(list) /\ Len(list) \in Nat
      BY DEF Asks, student_readable
<1>2. IsFiniteSet(DOMAIN list)
      BY <1>1, FS_Interval
<1>3. IsFiniteSet(Asks(list))
      BY <1>1, <1>2, FS_Subset
<1>4. \A S : IsFiniteSet(Asks(list) \ S)
      BY <1>3, FS_Difference
<1> QED BY <1>1, <1>3, <1>4, FS_CardinalityType

LEMMA CardsInitInv == CardsInit => CardsInv
<1> SUFFICES ASSUME CardsInit PROVE CardsInv
    OBVIOUS
<1>1. pdfs \in Seq(Pdf) /\ DOMAIN pdfs = {} /\ fetching = {} /\ passpics_to_load = 0
      BY DEF CardsInit
<1> QED BY <1>1 DEF CardsInv, CardsTyped, AloneInv

\* Nothing but whether it is alone changes when another PDF is begun.
LEMMA NotAloneParts ==
  ASSUME NEW pdf \in Pdf
  PROVE  /\ NotAlone(pdf) \in Pdf /\ NotAlone(pdf).list = pdf.list /\ NotAlone(pdf).cards = pdf.cards
         /\ NotAlone(pdf).pictures = pdf.pictures /\ NotAlone(pdf).state = pdf.state
         /\ NotAlone(pdf).alone => pdf.alone /\ pdf.state # "waits"
BY DEF Pdf, NotAlone

\* What a new PDF is like.
LEMMA MakeParts ==
  ASSUME CardsTyped, NEW len \in 0..MaxListLength, NEW list \in [1..len -> CardKind],
         makepdf(list)
  PROVE  /\ pdfs' \in Seq(Pdf) /\ Len(pdfs') = Len(pdfs) + 1
         /\ \A p \in DOMAIN pdfs : pdfs'[p] = NotAlone(pdfs[p])
         /\ Laid(pdfs'[Len(pdfs) + 1])
         /\ pdfs'[Len(pdfs) + 1].list = list /\ pdfs'[Len(pdfs) + 1].pictures = {}
         /\ pdfs'[Len(pdfs) + 1].state # "shown"
         /\ pdfs'[Len(pdfs) + 1].alone => fetching = {}
         /\ list \in Seq(CardKind) /\ DOMAIN list \subseteq 1..MaxListLength
         /\ fetching' = fetching \cup
              {[pdf |-> Len(pdfs) + 1, card |-> n, came |-> FALSE] : n \in Asks(list)}
         /\ passpics_to_load' = Cardinality(Asks(list))
<1> DEFINE rendered == student_readable(list)
           cards == [n \in DOMAIN list |-> IF n \in rendered THEN {place(n - 1)} ELSE {}]
           state == IF \E n \in DOMAIN list : list[n] = "broken" THEN "aborted" ELSE "waits"
           new == [list |-> list, cards |-> cards, pictures |-> {}, state |-> state,
                   alone |-> fetching = {}]
           old == [p \in DOMAIN pdfs |-> NotAlone(pdfs[p])]
<1>1. MaxListLength \in Nat /\ len \in Nat /\ len <= MaxListLength
      BY CardsAssumption
<1>2. list \in Seq(CardKind) /\ DOMAIN list = 1..len
      BY <1>1
<1>3. \A n \in 1..len : {place(n - 1)} \subseteq Place
      BY <1>1, PlaceParts
<1>4. cards \in [1..len -> SUBSET Place]
      BY <1>2, <1>3
<1>5. cards \in Seq(SUBSET Place) /\ DOMAIN cards = DOMAIN list
  <2> HIDE DEF cards
  <2> QED BY <1>1, <1>2, <1>4
<1>6. state = "waits" => \A n \in DOMAIN list : list[n] # "broken" /\ cards[n] = {place(n - 1)}
  <2> SUFFICES ASSUME \A n \in DOMAIN list : list[n] # "broken", NEW n \in DOMAIN list
               PROVE  cards[n] = {place(n - 1)}
      OBVIOUS
  <2>1. n \in rendered
        BY <1>2 DEF student_readable
  <2> QED BY <2>1
<1>7. state \in {"waits", "aborted"}
      OBVIOUS
<1>8. pdfs' = Append(old, new)
      BY DEF makepdf
<1>9. /\ fetching' = fetching \cup
            {[pdf |-> Len(pdfs) + 1, card |-> n, came |-> FALSE] : n \in Asks(list)}
      /\ passpics_to_load' = Cardinality(Asks(list))
      BY DEF makepdf, Asks
<1> HIDE DEF cards, state
<1>10. /\ new \in Pdf /\ Laid(new) /\ new.list = list /\ new.pictures = {} /\ new.state # "shown"
       /\ new.alone => fetching = {}
  <2>1. new \in Pdf
        BY <1>2, <1>5, <1>7 DEF Pdf
  <2>2. Laid(new)
        BY <1>5, <1>6, <1>7 DEF Laid
  <2> QED BY <1>7, <2>1, <2>2
<1> HIDE DEF new
<1>11. /\ pdfs' \in Seq(Pdf) /\ Len(pdfs') = Len(pdfs) + 1
       /\ \A p \in DOMAIN pdfs : pdfs'[p] = NotAlone(pdfs[p])
       /\ pdfs'[Len(pdfs) + 1] = new
  <2>1. \A p \in DOMAIN pdfs : NotAlone(pdfs[p]) \in Pdf
        BY NotAloneParts DEF CardsTyped
  <2>2. old \in [1..Len(pdfs) -> Pdf] /\ Len(pdfs) \in Nat
        BY <2>1 DEF CardsTyped
  <2>3. old \in Seq(Pdf) /\ Len(old) = Len(pdfs) /\ DOMAIN old = DOMAIN pdfs
        /\ \A p \in DOMAIN pdfs : old[p] = NotAlone(pdfs[p])
        BY <2>2 DEF CardsTyped
  <2> HIDE DEF old
  <2> QED BY <1>8, <1>10, <2>3
<1>12. DOMAIN list \subseteq 1..MaxListLength
      BY <1>1, <1>2
<1> QED BY <1>2, <1>9, <1>10, <1>11, <1>12

LEMMA MakeInv ==
  ASSUME CardsInv, NEW len \in 0..MaxListLength, NEW list \in [1..len -> CardKind],
         makepdf(list)
  PROVE  CardsInv'
<1> DEFINE last == Len(pdfs) + 1
           entry(n) == [pdf |-> last, card |-> n, came |-> FALSE]
<1>0. CardsTyped
      BY DEF CardsInv
<1>1. /\ pdfs' \in Seq(Pdf) /\ Len(pdfs') = last
      /\ \A p \in DOMAIN pdfs : pdfs'[p] = NotAlone(pdfs[p])
      /\ Laid(pdfs'[last])
      /\ pdfs'[last].list = list /\ pdfs'[last].pictures = {}
      /\ pdfs'[last].state # "shown" /\ (pdfs'[last].alone => fetching = {})
      /\ list \in Seq(CardKind) /\ DOMAIN list \subseteq 1..MaxListLength
      BY <1>0, MakeParts
<1>2. /\ fetching' = fetching \cup {entry(n) : n \in Asks(list)}
      /\ passpics_to_load' = Cardinality(Asks(list))
      BY <1>0, MakeParts
<1>3. Len(pdfs) \in Nat /\ DOMAIN pdfs = 1..Len(pdfs) /\ DOMAIN pdfs' = 1..last
      BY <1>0, <1>1 DEF CardsTyped
<1>4. \A n \in Asks(list) : n \in 1..MaxListLength /\ n \in DOMAIN list
      BY <1>1, AsksFinite
<1>5. \A n \in Asks(list) :
        /\ entry(n) \in [pdf : DOMAIN pdfs', card : 1..MaxListLength, came : BOOLEAN]
        /\ entry(n).pdf = last /\ entry(n).card = n
      BY <1>3, <1>4
<1>6. \A f \in fetching : /\ f \in [pdf : DOMAIN pdfs', card : 1..MaxListLength, came : BOOLEAN]
                          /\ f.pdf \in DOMAIN pdfs /\ f.pdf # last
      BY <1>0, <1>3 DEF CardsTyped
<1>7. ASSUME NEW p \in DOMAIN pdfs
      PROVE  /\ pdfs'[p].list = pdfs[p].list /\ pdfs'[p].cards = pdfs[p].cards
             /\ pdfs'[p].pictures = pdfs[p].pictures /\ pdfs'[p].state = pdfs[p].state
             /\ pdfs'[p].alone => pdfs[p].alone /\ pdfs[p].state # "waits"
             /\ Laid(pdfs'[p]) /\ Missing(p)' = Missing(p)
  <2>1. pdfs[p] \in Pdf /\ Laid(pdfs[p])
        BY <1>0 DEF CardsTyped
  <2>2. /\ pdfs'[p].list = pdfs[p].list /\ pdfs'[p].cards = pdfs[p].cards
        /\ pdfs'[p].pictures = pdfs[p].pictures /\ pdfs'[p].state = pdfs[p].state
        /\ pdfs'[p].alone => pdfs[p].alone /\ pdfs[p].state # "waits"
        BY <1>1, <2>1, NotAloneParts
  <2> QED BY <2>1, <2>2 DEF Laid, Missing
<1> HIDE DEF entry
<1>8. ASSUME NEW p, p = last PROVE Missing(p)' = Asks(list)
      BY <1>1, <1>8 DEF Missing, Asks
<1>9. CardsTyped'
  <2>1. fetching' \subseteq [pdf : DOMAIN pdfs', card : 1..MaxListLength, came : BOOLEAN]
        BY <1>2, <1>5, <1>6
  <2>2. ASSUME NEW f \in fetching' PROVE f.card \in DOMAIN pdfs'[f.pdf].list
    <3>1. CASE f \in fetching
          BY <1>0, <1>6, <1>7, <3>1 DEF CardsTyped
    <3>2. CASE f \notin fetching
          BY <1>1, <1>2, <1>4, <1>5, <3>2
    <3> QED BY <3>1, <3>2
  <2>3. \A p \in DOMAIN pdfs' : Laid(pdfs'[p])
        BY <1>1, <1>3, <1>7
  <2>4. passpics_to_load' \in Int
        BY <1>1, <1>2, AsksFinite
  <2> QED BY <1>1, <2>1, <2>2, <2>3, <2>4 DEF CardsTyped
<1>10. AloneInv'
  <2>1. ASSUME NEW p \in DOMAIN pdfs', pdfs'[p].alone, pdfs'[p].state = "waits"
        PROVE  /\ p = Len(pdfs') /\ passpics_to_load' = Cardinality(Missing(p)')
               /\ \A f \in fetching' : f.pdf = p
    <3>1. p = last
          BY <1>3, <1>7, <2>1
    <3>4. Missing(p)' = Asks(list)
          BY <1>8, <3>1
    <3>2. fetching = {}
          BY <1>1, <2>1, <3>1
    <3>3. \A f \in fetching' : f.pdf = last
          BY <1>2, <1>5, <3>2
    <3> QED BY <1>1, <1>2, <3>1, <3>3, <3>4
  <2>2. ASSUME NEW p \in DOMAIN pdfs', pdfs'[p].alone, pdfs'[p].state = "shown"
        PROVE  Missing(p)' = {}
    <3>1. p \in DOMAIN pdfs
          BY <1>1, <1>3, <2>2
    <3> QED BY <1>7, <2>2, <3>1 DEF CardsInv, AloneInv
  <2> QED BY <2>1, <2>2 DEF AloneInv
<1>11. ASSUME NEW f \in fetching' PROVE f.card \in Missing(f.pdf)'
  <2>1. CASE f \in fetching
        BY <1>6, <1>7, <2>1 DEF CardsInv
  <2>2. CASE f \notin fetching
    <3>1. f.pdf = last /\ f.card \in Asks(list)
          BY <1>2, <1>5, <2>2
    <3>2. Missing(f.pdf)' = Asks(list)
          BY <1>8, <3>1
    <3> QED BY <3>1, <3>2
  <2> QED BY <2>1, <2>2
<1>12. ASSUME NEW f \in fetching', NEW g \in fetching', f.pdf = g.pdf, f.card = g.card
       PROVE  f = g
  <2>1. CASE f \in fetching /\ g \in fetching
        BY <1>12, <2>1 DEF CardsInv
  <2>2. CASE f \notin fetching \/ g \notin fetching
    <3>1. f \notin fetching /\ g \notin fetching
          BY <1>2, <1>5, <1>6, <1>12, <2>2
    <3>2. f = entry(f.card) /\ g = entry(g.card)
          BY <1>2, <1>5, <3>1
    <3> QED BY <1>12, <3>2
  <2> QED BY <2>1, <2>2
<1> QED BY <1>9, <1>10, <1>11, <1>12 DEF CardsInv

\* One PDF changes.
LEMMA PdfStep ==
  ASSUME CardsTyped, NEW p \in DOMAIN pdfs, NEW next \in Pdf,
         pdfs' = [pdfs EXCEPT ![p] = next]
  PROVE  /\ pdfs' \in Seq(Pdf) /\ DOMAIN pdfs' = DOMAIN pdfs /\ Len(pdfs') = Len(pdfs)
         /\ \A q \in DOMAIN pdfs : pdfs'[q] = IF q = p THEN next ELSE pdfs[q]
<1>1. pdfs \in Seq(Pdf)
      BY DEF CardsTyped
<1> QED BY <1>1, ExceptSeq

LEMMA PicturesChange ==
  ASSUME NEW pdf \in Pdf, NEW pictures \in SUBSET Nat
  PROVE  /\ [pdf EXCEPT !.pictures = pictures] \in Pdf
         /\ [pdf EXCEPT !.pictures = pictures].list = pdf.list
         /\ [pdf EXCEPT !.pictures = pictures].cards = pdf.cards
         /\ [pdf EXCEPT !.pictures = pictures].pictures = pictures
         /\ [pdf EXCEPT !.pictures = pictures].state = pdf.state
         /\ [pdf EXCEPT !.pictures = pictures].alone = pdf.alone
BY DEF Pdf

LEMMA PdfStateChange ==
  ASSUME NEW pdf \in Pdf, NEW state \in {"waits", "aborted", "shown"}
  PROVE  /\ [pdf EXCEPT !.state = state] \in Pdf
         /\ [pdf EXCEPT !.state = state].list = pdf.list
         /\ [pdf EXCEPT !.state = state].cards = pdf.cards
         /\ [pdf EXCEPT !.state = state].pictures = pdf.pictures
         /\ [pdf EXCEPT !.state = state].state = state
         /\ [pdf EXCEPT !.state = state].alone = pdf.alone
BY DEF Pdf

LEMMA FetchParts ==
  ASSUME CardsTyped, NEW f \in fetching
  PROVE  /\ f.pdf \in DOMAIN pdfs /\ f.card \in 1..MaxListLength /\ f.came \in BOOLEAN
         /\ f.card \in DOMAIN pdfs[f.pdf].list
         /\ [f EXCEPT !.came = TRUE] \in [pdf : DOMAIN pdfs, card : 1..MaxListLength,
                                          came : BOOLEAN]
         /\ [f EXCEPT !.came = TRUE].pdf = f.pdf /\ [f EXCEPT !.came = TRUE].card = f.card
<1>1. f \in [pdf : DOMAIN pdfs, card : 1..MaxListLength, came : BOOLEAN]
      BY DEF CardsTyped
<1> QED BY <1>1 DEF CardsTyped

\* A picture on its way, and one that is lost.
LEMMA CameInv ==
  ASSUME CardsInv, NEW f \in fetching, webcamserv_get(f) \/ PictureLost(f)
  PROVE  CardsInv'
<1> DEFINE next == [f EXCEPT !.came = TRUE]
<1>0. CardsTyped /\ AloneInv
      BY DEF CardsInv
<1>1. UNCHANGED <<pdfs, passpics_to_load>>
      BY DEF webcamserv_get, PictureLost, Came
<1>2. fetching' \subseteq (fetching \ {f}) \cup {next}
      BY DEF webcamserv_get, PictureLost, Came
<1>3. /\ next \in [pdf : DOMAIN pdfs, card : 1..MaxListLength, came : BOOLEAN]
      /\ next.pdf = f.pdf /\ next.card = f.card
      BY <1>0, FetchParts
<1> HIDE DEF next
<1>4. CardsTyped'
      BY <1>0, <1>1, <1>2, <1>3 DEF CardsTyped
<1>5. \A q : Missing(q)' = Missing(q)
      BY <1>1 DEF Missing
<1>6. \A g \in fetching' : \E h \in fetching : g.pdf = h.pdf /\ g.card = h.card
      BY <1>2, <1>3
<1>7. AloneInv'
      BY <1>0, <1>1, <1>5, <1>6 DEF AloneInv
<1>8. \A g \in fetching' : g.card \in Missing(g.pdf)'
      BY <1>5, <1>6 DEF CardsInv
<1>9. \A g, h \in fetching' : g.pdf = h.pdf /\ g.card = h.card => g = h
      BY <1>2, <1>3 DEF CardsInv
<1> QED BY <1>4, <1>7, <1>8, <1>9 DEF CardsInv

\* A picture that is drawn was missing, and nobody else draws it.
LEMMA DrawnInv ==
  ASSUME CardsInv, NEW f \in fetching, Drawn(f)
  PROVE  CardsInv'
<1> DEFINE drawn == pdfs[f.pdf].pictures \cup {f.card}
           next == [pdfs[f.pdf] EXCEPT !.pictures = drawn]
<1>0. CardsTyped /\ AloneInv
      BY DEF CardsInv
<1>1. /\ f.pdf \in DOMAIN pdfs /\ f.card \in DOMAIN pdfs[f.pdf].list
      /\ pdfs[f.pdf] \in Pdf /\ Laid(pdfs[f.pdf]) /\ f.card \in Nat
  <2>1. f.card \in 1..MaxListLength
        BY <1>0, FetchParts
  <2> QED BY <1>0, <2>1, FetchParts DEF CardsTyped
<1>2. drawn \in SUBSET Nat /\ drawn \subseteq DOMAIN pdfs[f.pdf].list
  <2>1. pdfs[f.pdf].pictures \in SUBSET Nat
        BY <1>1 DEF Pdf
  <2> QED BY <1>1, <2>1 DEF Laid
<1>3. /\ pdfs' = [pdfs EXCEPT ![f.pdf] = next]
      /\ fetching' = fetching \ {f} /\ passpics_to_load' = passpics_to_load - 1
      BY <1>0, <1>1 DEF Drawn, CardsTyped
<1> HIDE DEF drawn
<1>4. /\ next \in Pdf /\ next.list = pdfs[f.pdf].list /\ next.cards = pdfs[f.pdf].cards
      /\ next.pictures = drawn /\ next.state = pdfs[f.pdf].state /\ next.alone = pdfs[f.pdf].alone
      BY <1>1, <1>2, PicturesChange
<1> HIDE DEF next
<1>5. /\ pdfs' \in Seq(Pdf) /\ DOMAIN pdfs' = DOMAIN pdfs /\ Len(pdfs') = Len(pdfs)
      /\ \A q \in DOMAIN pdfs : pdfs'[q] = IF q = f.pdf THEN next ELSE pdfs[q]
      BY <1>0, <1>1, <1>3, <1>4, PdfStep
<1>6. Laid(next)
      BY <1>1, <1>2, <1>4 DEF Laid
<1>7. \A q \in DOMAIN pdfs : /\ pdfs'[q].list = pdfs[q].list /\ pdfs'[q].state = pdfs[q].state
                            /\ pdfs'[q].alone = pdfs[q].alone
      BY <1>4, <1>5
<1>8. CardsTyped'
  <2>1. \A q \in DOMAIN pdfs' : Laid(pdfs'[q])
        BY <1>0, <1>5, <1>6 DEF CardsTyped
  <2>2. \A g \in fetching' : g.card \in DOMAIN pdfs'[g.pdf].list
    <3>1. \A g \in fetching : g.pdf \in DOMAIN pdfs /\ g.card \in DOMAIN pdfs[g.pdf].list
          BY <1>0, FetchParts
    <3> QED BY <1>3, <1>7, <3>1
  <2>3. fetching' \subseteq [pdf : DOMAIN pdfs', card : 1..MaxListLength, came : BOOLEAN]
        BY <1>0, <1>3, <1>5 DEF CardsTyped
  <2>4. passpics_to_load' \in Int
        BY <1>0, <1>3 DEF CardsTyped
  <2> QED BY <1>5, <2>1, <2>2, <2>3, <2>4 DEF CardsTyped
<1>9. Missing(f.pdf)' = Missing(f.pdf) \ {f.card} /\ f.card \in Missing(f.pdf)
  <2>1. Missing(f.pdf) = Asks(pdfs[f.pdf].list) \ pdfs[f.pdf].pictures
        /\ f.card \in Missing(f.pdf)
        BY DEF Missing, CardsInv
  <2>2. Asks(pdfs'[f.pdf].list) \ pdfs'[f.pdf].pictures = Missing(f.pdf) \ {f.card}
        BY <1>1, <1>4, <1>5, <2>1 DEF drawn
  <2> QED BY <2>1, <2>2 DEF Missing
<1>10. \A q \in DOMAIN pdfs : q # f.pdf => Missing(q)' = Missing(q)
       BY <1>5 DEF Missing
<1>11. AloneInv'
  <2>1. ASSUME NEW p \in DOMAIN pdfs, pdfs'[p].alone, pdfs'[p].state = "waits"
        PROVE  /\ p = Len(pdfs') /\ passpics_to_load' = Cardinality(Missing(p)')
               /\ \A g \in fetching' : g.pdf = p
    <3>1. /\ p = Len(pdfs) /\ passpics_to_load = Cardinality(Missing(p))
          /\ \A g \in fetching : g.pdf = p
          BY <1>0, <1>7, <2>1 DEF AloneInv
    <3>2. f.pdf = p /\ IsFiniteSet(Missing(p))
          BY <1>1, <3>1, AsksFinite DEF Missing, Pdf
    <3>3. Cardinality(Missing(p) \ {f.card}) = Cardinality(Missing(p)) - 1
          BY <1>9, <3>2, FS_RemoveElement
    <3> QED BY <1>3, <1>5, <1>9, <3>1, <3>2, <3>3
  <2>2. ASSUME NEW p \in DOMAIN pdfs, pdfs'[p].alone, pdfs'[p].state = "shown"
        PROVE  Missing(p)' = {}
    <3>1. Missing(p) = {}
          BY <1>0, <1>7, <2>2 DEF AloneInv
    <3> QED BY <1>9, <1>10, <3>1
  <2> QED BY <1>5, <2>1, <2>2 DEF AloneInv
<1>12. ASSUME NEW g \in fetching' PROVE g.card \in Missing(g.pdf)'
  <2>1. g \in fetching /\ g # f /\ g.card \in Missing(g.pdf) /\ g.pdf \in DOMAIN pdfs
        BY <1>0, <1>3, FetchParts DEF CardsInv
  <2>2. CASE g.pdf = f.pdf
    <3>1. g.card # f.card
          BY <2>1, <2>2 DEF CardsInv
    <3> QED BY <1>9, <2>1, <2>2, <3>1
  <2> QED BY <1>10, <2>1, <2>2
<1>13. \A g, h \in fetching' : g.pdf = h.pdf /\ g.card = h.card => g = h
       BY <1>3 DEF CardsInv
<1> QED BY <1>8, <1>11, <1>12, <1>13 DEF CardsInv

\* When the counter is at zero nothing is missing of a PDF that is alone.
LEMMA IntervalInv ==
  ASSUME CardsInv, NEW p \in DOMAIN pdfs, Interval(p)
  PROVE  CardsInv'
<1> DEFINE next == [pdfs[p] EXCEPT !.state = "shown"]
<1>0. CardsTyped /\ AloneInv
      BY DEF CardsInv
<1>1. pdfs[p] \in Pdf /\ Laid(pdfs[p]) /\ pdfs[p].state = "waits" /\ passpics_to_load = 0
      BY <1>0 DEF CardsTyped, Interval
<1>2. pdfs' = [pdfs EXCEPT ![p] = next] /\ UNCHANGED <<fetching, passpics_to_load>>
      BY <1>0 DEF Interval, CardsTyped
<1>3. /\ next \in Pdf /\ next.list = pdfs[p].list /\ next.cards = pdfs[p].cards
      /\ next.pictures = pdfs[p].pictures /\ next.state = "shown" /\ next.alone = pdfs[p].alone
      BY <1>1, PdfStateChange
<1> HIDE DEF next
<1>4. /\ pdfs' \in Seq(Pdf) /\ DOMAIN pdfs' = DOMAIN pdfs /\ Len(pdfs') = Len(pdfs)
      /\ \A q \in DOMAIN pdfs : pdfs'[q] = IF q = p THEN next ELSE pdfs[q]
      BY <1>0, <1>2, <1>3, PdfStep
<1>5. Laid(next)
      BY <1>1, <1>3 DEF Laid
<1>6. CardsTyped'
  <2>1. \A q \in DOMAIN pdfs' : Laid(pdfs'[q])
        BY <1>0, <1>4, <1>5 DEF CardsTyped
  <2>2. \A g \in fetching' : g.card \in DOMAIN pdfs'[g.pdf].list
        BY <1>0, <1>2, <1>3, <1>4, FetchParts DEF CardsTyped
  <2>3. fetching' \subseteq [pdf : DOMAIN pdfs', card : 1..MaxListLength, came : BOOLEAN]
        BY <1>0, <1>2, <1>4 DEF CardsTyped
  <2> QED BY <1>0, <1>2, <1>4, <2>1, <2>2, <2>3 DEF CardsTyped
<1>7. \A q \in DOMAIN pdfs : Missing(q)' = Missing(q) /\ pdfs'[q].alone = pdfs[q].alone
      BY <1>3, <1>4 DEF Missing
<1>8. pdfs[p].alone => Missing(p) = {}
  <2> SUFFICES ASSUME pdfs[p].alone PROVE Missing(p) = {}
      OBVIOUS
  <2>1. Cardinality(Missing(p)) = 0
        BY <1>0, <1>1 DEF AloneInv
  <2>2. IsFiniteSet(Missing(p))
        BY <1>1, AsksFinite DEF Missing, Pdf
  <2> QED BY <2>1, <2>2, FS_EmptySet
<1>9. AloneInv'
  <2>1. \A q \in DOMAIN pdfs : pdfs'[q].state = "waits" =>
          pdfs[q].state = "waits" /\ q # p
        BY <1>3, <1>4
  <2>2. \A q \in DOMAIN pdfs : pdfs'[q].state = "shown" => q = p \/ pdfs[q].state = "shown"
        BY <1>4
  <2> QED BY <1>0, <1>2, <1>4, <1>7, <1>8, <2>1, <2>2 DEF AloneInv
<1>10. \A g \in fetching : g.pdf \in DOMAIN pdfs
       BY <1>0, FetchParts
<1> QED BY <1>2, <1>6, <1>7, <1>9, <1>10 DEF CardsInv

LEMMA CardsNextInv == CardsInv /\ [CardsNext]_cardVars => CardsInv'
<1> SUFFICES ASSUME CardsInv, [CardsNext]_cardVars PROVE CardsInv'
    OBVIOUS
<1>1. CASE UNCHANGED cardVars
      BY <1>1 DEF cardVars, CardsInv, CardsTyped, AloneInv, Laid, Missing
<1>2. ASSUME NEW n \in 0..MaxListLength, NEW list \in [1..n -> CardKind], makepdf(list)
      PROVE  CardsInv'
      BY <1>2, MakeInv
<1>3. ASSUME NEW f \in fetching,
             webcamserv_get(f) \/ toJPEG(f) \/ NoPicture(f) \/ PictureLost(f)
      PROVE  CardsInv'
      BY <1>3, CameInv, DrawnInv DEF toJPEG, NoPicture
<1>4. ASSUME NEW p \in DOMAIN pdfs, Interval(p) PROVE CardsInv'
      BY <1>4, IntervalInv
<1> QED BY <1>1, <1>2, <1>3, <1>4 DEF CardsNext

\* A PDF that is shown has each card at a place of its own, and lacks no picture
\* unless another was made at the same time: for any numbers and sizes of pages, lists
\* and PDFs, in whatever order pictures come and whichever are lost (idcards/scripts.js:255,
\* 283).
THEOREM ShownIsCompleteTheorem == CardsSpec => []ShownIsComplete
<1>1. CardsInv => ShownIsComplete
  <2> SUFFICES ASSUME CardsInv, NEW p \in DOMAIN pdfs, pdfs[p].state = "shown"
               PROVE  /\ Cardinality(UNION {pdfs[p].cards[n] : n \in DOMAIN pdfs[p].list})
                           = Len(pdfs[p].list)
                      /\ pdfs[p].alone => \A n \in DOMAIN pdfs[p].list :
                           pdfs[p].list[n] = "picture" => n \in pdfs[p].pictures
      BY DEF ShownIsComplete
  <2>1. pdfs[p] \in Pdf /\ Laid(pdfs[p]) /\ (pdfs[p].alone => Missing(p) = {})
        BY DEF CardsInv, CardsTyped, AloneInv
  <2>2. /\ pdfs[p].list \in Seq(CardKind)
        /\ DOMAIN pdfs[p].list = 1..Len(pdfs[p].list) /\ Len(pdfs[p].list) \in Nat
        BY <2>1 DEF Pdf
  <2>3. DOMAIN pdfs[p].cards = 1..Len(pdfs[p].list)
        /\ \A n \in 1..Len(pdfs[p].list) :
             pdfs[p].list[n] # "broken" /\ pdfs[p].cards[n] = {place(n - 1)}
        BY <2>1, <2>2 DEF Laid
  <2>4. Cardinality(UNION {pdfs[p].cards[n] : n \in DOMAIN pdfs[p].list}) = Len(pdfs[p].list)
    <3> DEFINE L == Len(pdfs[p].list)
               cards == pdfs[p].cards
    <3>1. L \in Nat /\ DOMAIN cards = 1..L /\ \A n \in 1..L : cards[n] = {place(n - 1)}
          BY <2>2, <2>3
    <3> HIDE DEF L, cards
    <3>2. Cardinality(UNION {cards[n] : n \in 1..L}) = L
          BY <3>1, PlacesCardinality
    <3> QED BY <2>2, <3>2 DEF L, cards
  <2>5. ASSUME pdfs[p].alone, NEW n \in DOMAIN pdfs[p].list, pdfs[p].list[n] = "picture"
        PROVE  n \in pdfs[p].pictures
    <3>1. n \in Asks(pdfs[p].list)
          BY <2>2, <2>3, <2>5 DEF Asks, student_readable
    <3> QED BY <2>1, <2>5, <3>1 DEF Missing
  <2> QED BY <2>4, <2>5
<1> QED BY <1>1, CardsInitInv, CardsNextInv, PTL DEF CardsSpec

-----------------------------------------------------------------------------
(* All pages *)

PagesInv ==
  /\ BatchInv /\ FormInv /\ TerminalBound /\ RegistrationInv /\ ListInv /\ CardsInv

\* All pages keep their types, whatever their people do and in whatever order and
\* number answers come: an answer that finds another page than it was asked for
\* (index.js, scripts.js of every site) writes nothing that does not belong there.
THEOREM PagesTypeTheorem == Spec => []PagesTypeOK
<1>1. Init => PagesInv
      BY BatchInitInv, FormInitInv, TerminalInitType, RegistrationInitInv, ListInitInv, CardsInitInv
      DEF Init, PagesInv
<1>2. FormInv /\ [FormNext]_formVars => FormInv'
      BY FormNextInv
<1>3. PagesInv /\ [Next]_vars => PagesInv'
      BY <1>2, BatchNextInv, TerminalNextType, RegistrationNextInv, ListNextInv, CardsNextInv
      DEF Next, vars, PagesInv
<1>4. CardsInv => CardsTypeOK
  <2> SUFFICES ASSUME CardsInv PROVE CardsTypeOK
      OBVIOUS
  <2>1. ASSUME NEW p \in DOMAIN pdfs
        PROVE  /\ pdfs[p].list \in Seq(CardKind)
               /\ \A n \in DOMAIN pdfs[p].list : pdfs[p].cards[n] \subseteq Place
               /\ pdfs[p].pictures \subseteq DOMAIN pdfs[p].list
               /\ pdfs[p].state \in {"waits", "aborted", "shown"} /\ pdfs[p].alone \in BOOLEAN
    <3>1. pdfs[p] \in Pdf /\ Laid(pdfs[p])
          BY DEF CardsInv, CardsTyped
    <3>2. /\ pdfs[p].list \in Seq(CardKind) /\ pdfs[p].cards \in Seq(SUBSET Place)
          /\ pdfs[p].state \in {"waits", "aborted", "shown"} /\ pdfs[p].alone \in BOOLEAN
          BY <3>1 DEF Pdf
    <3> QED BY <3>1, <3>2 DEF Laid
  <2> QED BY <2>1 DEF CardsInv, CardsTyped, CardsTypeOK
<1>5. PagesInv => PagesTypeOK
      BY <1>4 DEF PagesInv, PagesTypeOK, BatchInv, Matched, FormInv, TerminalBound, RegistrationInv, ListInv
<1> QED BY <1>1, <1>3, <1>5, PTL DEF Spec
=============================================================================
