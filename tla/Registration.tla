------------------------------ MODULE Registration ------------------------------
(***************************************************************************)
(* How a person becomes an account: at the registration terminal           *)
(* (client/registration/site/scripts.js) or by the bank, which also        *)
(* registers visitors on prepared cards and puts money on them             *)
(* (client/adminpanel/site/registration/scripts.js).  Both send a picture  *)
(* to the webcam server (server/webcam/main.js), then the data to the API. *)
(***************************************************************************)
EXTENDS Integers, Sequences, FiniteSets

CONSTANTS
  Applicant,  \* [id, site, class, card, preload]
  NoCard,     \* the card of who gets a random QR-ID
  Picname,    \* names a page may draw for a picture
  MaxAttempts \* bound: uses of the send buttons

ASSUME RegistrationAssumption ==
  /\ MaxAttempts \in Nat
  /\ \A p \in Applicant :
       /\ p.site \in {"terminal", "bank"} /\ p.preload \in Nat
       /\ p.class \in {"pupil", "visitor", "legalentity"}
       /\ p.site = "terminal" => p.class = "pupil" /\ p.card = NoCard /\ p.preload = 0

VARIABLES
  pics,      \* the pictures that are stored, with the applicant they show
  accounts,  \* the attempts that have become accounts
  credit,    \* the attempts that have put money on their card
  attempts,  \* what was sent, how far it has come, what the page was told
  sendable,  \* the send button of the applicant's page has its handler
  gone       \* the page has been reloaded for somebody else

registrationVars == <<pics, accounts, credit, attempts, sendable, gone>>

Attempt == [who : Applicant, picname : Picname,
            stage : {"upload", "register", "preload", "over"},
            server : {"none", "ok", "error"},  \* on the request of this stage
            told : {"nothing", "success", "failure"},
            left : {"none", "upload", "register", "preload"}] \* the stage given up on

RegistrationTypeOK ==
  /\ pics \subseteq Picname \X Applicant
  /\ accounts \subseteq DOMAIN attempts /\ credit \subseteq DOMAIN attempts
  /\ attempts \in Seq(Attempt)
  /\ sendable \in [Applicant -> BOOLEAN] /\ gone \subseteq Applicant

SkipsPicture(p) == p.class \in {"visitor", "legalentity"}
Card(n) == attempts[n].who.card

\* A server still has to see the request of this stage, whether the page waits or not.
InStage(n, stage) ==
  stage \in {attempts[n].stage, attempts[n].left} /\ attempts[n].server = "none"

\* The handler of an answer runs only in a page that is still there.
Hears(n) == attempts[n].who \notin gone /\ attempts[n].stage # "over"

-----------------------------------------------------------------------------
(* The pages *)

Starts(p, picname) ==
  /\ p \notin gone
  /\ Len(attempts) < MaxAttempts
  /\ attempts' = Append(attempts, [who |-> p, picname |-> picname,
       stage |-> IF SkipsPicture(p) THEN "register" ELSE "upload",
       server |-> "none", told |-> "nothing", left |-> "none"])

\* The terminal's button works once, until the message is closed.
onSendClick(p, picname) ==
  /\ p.site = "terminal" /\ sendable[p]
  /\ Starts(p, picname)
  /\ sendable' = [sendable EXCEPT ![p] = FALSE]
  /\ UNCHANGED <<pics, accounts, credit, gone>>

\* The bank's page checks that there is a card to put the money on.
BankSend(p, picname) ==
  /\ p.site = "bank"
  /\ p.preload > 0 => p.card # NoCard
  /\ Starts(p, picname)
  /\ UNCHANGED <<pics, accounts, credit, sendable, gone>>

\* After a failure the applicant may try again, after a success comes the next.
MessageClose(p) ==
  /\ p.site = "terminal" /\ ~sendable[p] /\ p \notin gone
  /\ \A n \in DOMAIN attempts : attempts[n].who = p => attempts[n].stage = "over"
  /\ sendable' = [sendable EXCEPT ![p] = TRUE]
  /\ gone' = IF \E n \in DOMAIN attempts : attempts[n].who = p /\ attempts[n].told = "success"
               THEN gone \cup {p} ELSE gone
  /\ UNCHANGED <<pics, accounts, credit, attempts>>

Proceed(n, stage) ==
  attempts' = [attempts EXCEPT ![n].stage = stage, ![n].server = "none"]
Tell(n, what) ==
  attempts' = [attempts EXCEPT ![n].stage = "over", ![n].told = what]

UploadAnswer(n) ==
  /\ Hears(n) /\ attempts[n].stage = "upload" /\ attempts[n].server # "none"
  /\ IF attempts[n].server = "ok" THEN Proceed(n, "register") ELSE Tell(n, "failure")
  /\ UNCHANGED <<pics, accounts, credit, sendable, gone>>

\* The bank's page goes on to the preload or is loaded anew.
RegisterAnswer(n) ==
  LET p == attempts[n].who
      preloads == p.class = "visitor" /\ p.preload > 0
  IN  /\ Hears(n) /\ attempts[n].stage = "register" /\ attempts[n].server # "none"
      /\ CASE attempts[n].server = "error" -> Tell(n, "failure")
           [] attempts[n].server = "ok" /\ preloads -> Proceed(n, "preload")
           [] OTHER -> Tell(n, "success")
      /\ gone' = IF attempts[n].server = "ok" /\ p.site = "bank" /\ ~preloads
                   THEN gone \cup {p} ELSE gone
      /\ UNCHANGED <<pics, accounts, credit, sendable>>

preload_money(n) ==
  /\ Hears(n) /\ attempts[n].stage = "preload" /\ attempts[n].server # "none"
  /\ Tell(n, IF attempts[n].server = "ok" THEN "success" ELSE "failure")
  /\ gone' = gone \cup {attempts[n].who}
  /\ UNCHANGED <<pics, accounts, credit, sendable>>

\* A timeout, in whichever stage: the page stops waiting, the request goes on.
AnswerLost(n) ==
  /\ Hears(n)
  /\ attempts' = [attempts EXCEPT ![n].stage = "over", ![n].told = "failure",
                                  ![n].left = attempts[n].stage]
  /\ gone' = IF attempts[n].stage = "preload" THEN gone \cup {attempts[n].who} ELSE gone
  /\ UNCHANGED <<pics, accounts, credit, sendable>>

-----------------------------------------------------------------------------
(* The servers *)

Serves(n, answer) == attempts' = [attempts EXCEPT ![n].server = answer]

OverwriteFile(n) ==
  /\ InStage(n, "upload")
  /\ pics' = {p \in pics : p[1] # attempts[n].picname}
               \cup {<<attempts[n].picname, attempts[n].who>>}
  /\ Serves(n, "ok")
  /\ UNCHANGED <<accounts, credit, sendable, gone>>

\* Flag wx: a name that is taken is an error.
upload_image(n) ==
  /\ InStage(n, "upload")
  /\ IF \E p \in pics : p[1] = attempts[n].picname
       THEN Serves(n, "error") /\ UNCHANGED pics
       ELSE /\ pics' = pics \cup {<<attempts[n].picname, attempts[n].who>>}
            /\ Serves(n, "ok")
  /\ UNCHANGED <<accounts, credit, sendable, gone>>

CardTaken(n) == Card(n) # NoCard /\ \E m \in accounts : Card(m) = Card(n)

register_student(n) ==
  /\ InStage(n, "register")
  /\ IF CardTaken(n)
       THEN Serves(n, "error") /\ UNCHANGED accounts
       ELSE Serves(n, "ok") /\ accounts' = accounts \cup {n}
  /\ UNCHANGED <<pics, credit, sendable, gone>>

\* Any refusal of transaction_taxfree, too.
transaction_taxfree(n) ==
  /\ InStage(n, "preload")
  /\ \/ Serves(n, "ok") /\ credit' = credit \cup {n}
     \/ Serves(n, "error") /\ UNCHANGED credit
  /\ UNCHANGED <<pics, accounts, sendable, gone>>

-----------------------------------------------------------------------------
RegistrationInit ==
  /\ pics = {} /\ accounts = {} /\ credit = {} /\ attempts = <<>>
  /\ sendable = [p \in Applicant |-> TRUE] /\ gone = {}

RegistrationNext ==
  \/ \E p \in Applicant :
       \/ \E picname \in Picname : onSendClick(p, picname) \/ BankSend(p, picname)
       \/ MessageClose(p)
  \/ \E n \in DOMAIN attempts :
       \/ UploadAnswer(n) \/ RegisterAnswer(n) \/ preload_money(n) \/ AnswerLost(n)
       \/ upload_image(n) \/ register_student(n) \/ transaction_taxfree(n)

RegistrationSpec == RegistrationInit /\ [][RegistrationNext]_registrationVars

-----------------------------------------------------------------------------
(* Properties *)

\* Every account that needs a picture has its own: it was stored before, and no
\* later upload has replaced it (main.js:43, flag "wx").
PictureOfOwner == \A n \in accounts :
  ~SkipsPicture(attempts[n].who) =>
    /\ <<attempts[n].picname, attempts[n].who>> \in pics
    /\ \A p \in pics : p[1] = attempts[n].picname => p[2] = attempts[n].who
=============================================================================
