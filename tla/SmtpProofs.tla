----------------------------- MODULE SmtpProofs -----------------------------
(***************************************************************************)
(* What a submission over SMTP promises, for any messages, any offers of   *)
(* the server and any number of faults: its types; that the credential is  *)
(* shown, and a message sent, only on a connection secured as the account  *)
(* demands; that a transaction uses only what is offered on its            *)
(* connection; that a message goes to its own recipients; and that every   *)
(* copy the server has is accounted for.                                   *)
(***************************************************************************)
EXTENDS Smtp, FiniteSetTheorems, WellFoundedInduction, TLAPS

Mechs == {"Plain", "Login", "XOauth2"}
Phases == Waiting \cup {"AwaitTls", "Idle"}
Sizes == {"Absent", "SMALL", "ZERO", "SIZE"}
Limits == {"Absent", "SMALL", "SIZE"}
SesType == [phase : Phases, job : Jobs \cup {"none"}, at : Nat, spare : BOOLEAN, ext : SUBSET Keywords,
            mech : Mechs \cup {"none"}, env : SUBSET Keywords, size : Sizes]
ConnType == [open : BOOLEAN, secured : BOOLEAN, signed : BOOLEAN, offers : SUBSET Keywords,
             to : SUBSET STRING, reply : Replies \cup {"none"}]
SendingType == [ext : SUBSET Keywords, mech : Mechs \cup {"none"}]
TakenType == [job : Jobs, to : SUBSET STRING]

Types ==
    /\ setup \in Setups /\ ses \in SesType /\ conn \in ConnType /\ sending \in SendingType
    /\ told \in [Jobs -> Errors \cup {"none", "sent"}] /\ limit \in Limits
    /\ taken \in Seq(TakenType) /\ unheard \in [Jobs -> Nat] /\ faults \in 0..MaxFaults

\* A session is for a job that is not sent; while there is one, no connection is kept.
SesInv ==
    /\ ses.phase = "Idle" => ses = NoSession
    /\ ses.phase # "Idle" => ses.job \in Jobs /\ told[ses.job] # "sent" /\ ~Kept
    /\ ses.phase = "Rcpt" => ses.at \in 1..Len(Mail[ses.job].to)

\* The connection in use, or kept, is secured from the start or since STARTTLS, and signed in
\* from the answer to the last step of signing in.
SecureInv ==
    /\ (ses.phase # "Idle" \/ Kept) /\ setup.tls = "Implicit" => conn.secured
    /\ ses.phase \in AuthPhases \cup Transaction \cup {"EhloAfterTls"} \/ Kept =>
          conn.secured \/ setup.tls = "Plaintext"
    /\ ses.phase \in AuthPhases /\ conn.reply = "ok" => conn.signed
    /\ ses.phase \in Transaction \/ Kept => conn.signed

\* From the EHLO in force on, the session and what is kept of it remember what it offered.
OfferInv ==
    /\ ses.phase \in AuthPhases \cup Transaction =>
          /\ ses.ext = conn.offers /\ ses.env \subseteq conn.offers
          /\ ~("big" \in Mail[ses.job].has /\ "SMALL" \in conn.offers)
    /\ Kept => sending.ext = conn.offers

\* The recipients the server has are those named so far, and none outside a transaction.
Named(n) == {Mail[ses.job].to[i] : i \in 1..n}
RcptInv ==
    /\ ses.phase \notin {"Rcpt", "Data", "Body", "Bdat"} => conn.to = {}
    /\ ses.phase = "Rcpt" => conn.to = Named(IF conn.reply = "ok" THEN ses.at ELSE ses.at - 1)
    /\ ses.phase = "Data" => conn.to = ToSet(Mail[ses.job].to)
    /\ ses.phase \in {"Body", "Bdat"} => conn.to = IF conn.reply = "none" THEN ToSet(Mail[ses.job].to) ELSE {}

Inv == Types /\ SesInv /\ SecureInv /\ OfferInv /\ RcptInv /\ OwnRecipients /\ CopiesKnown

LEMMA TypesAre == Types /\ SesInv => TypeOK
<1> SUFFICES ASSUME Types, SesInv PROVE TypeOK
    OBVIOUS
<1>1. /\ ses.phase \in Waiting \cup {"AwaitTls", "Idle"} /\ ses.job \in Jobs \cup {"none"}
      /\ ses.ext \subseteq Keywords /\ ses.env \subseteq Keywords /\ ses.spare \in BOOLEAN
    BY DEF Types, SesType, Phases
<1>2. conn.open \in BOOLEAN /\ conn.reply \in Replies \cup {"none"} /\ conn.offers \subseteq Keywords
    BY DEF Types, ConnType
<1>3. (ses = NoSession) <=> (ses.phase = "Idle")
    BY DEF SesInv, NoSession
<1>4. ASSUME ses.phase = "Rcpt" PROVE ses.at \in DOMAIN ThisMail.to
    <2>1. ses.job \in Jobs /\ ses.at \in 1..Len(Mail[ses.job].to)
        BY <1>4 DEF SesInv
    <2>2. Mail[ses.job].to \in Seq(STRING)
        BY <2>1, SmtpAssumption
    <2> QED
        BY <2>1, <2>2 DEF ThisMail
<1>5. sending.ext \subseteq Keywords
    BY DEF Types, SendingType
<1> QED
    BY <1>1, <1>2, <1>3, <1>4, <1>5 DEF TypeOK, Types, Limits

LEMMA Values ==
    /\ NoSession \in SesType /\ NoSession.phase = "Idle" /\ NoConn \in ConnType /\ NoConn.to = {}
    /\ NotKept \in SendingType /\ NoSession.size = "Absent" /\ NoConn.reply = "none"
BY DEF NoSession, SesType, Phases, Waiting, NoConn, ConnType, Replies, NotKept, SendingType, Sizes

LEMMA NewConnIs ==
    /\ NewConn \in ConnType /\ NewConn.to = {} /\ NewConn.reply = "none"
    /\ NewConn.secured = (setup.tls = "Implicit")
BY DEF NewConn, NoConn, ConnType, Replies

LEMMA InitInv == Init => Inv
<1> SUFFICES ASSUME Init PROVE Inv
    OBVIOUS
<1>1. Types
    BY Values, SmtpAssumption DEF Init, Types, Limits
<1>2. ~Kept /\ ses.phase = "Idle"
    BY Values DEF Init, Kept
<1>3. SesInv /\ SecureInv /\ OfferInv /\ RcptInv
    BY <1>2, Values DEF Init, SesInv, SecureInv, OfferInv, RcptInv, AuthPhases, Transaction
<1>4. OwnRecipients
    BY DEF Init, OwnRecipients
<1>5. CopiesKnown
    <2>1. \A j \in Jobs : {i \in DOMAIN taken : taken[i].job = j} = {}
        BY DEF Init
    <2>2. \A j \in Jobs : Copies(j) = 0
        BY <2>1, FS_EmptySet DEF Copies
    <2>3. \A j \in Jobs : unheard[j] = 0 /\ told[j] = "none"
        BY DEF Init
    <2> QED
        BY <1>2, <2>2, <2>3 DEF CopiesKnown
<1> QED
    BY <1>1, <1>3, <1>4, <1>5 DEF Inv

-----------------------------------------------------------------------------
(* What the session decides.                                               *)

\* A set of numbers that is not empty has a least member.
LEMMA LeastIn == ASSUME NEW T, T \subseteq Nat, T # {} PROVE Min(T) \in T
<1>1. IsWellFoundedOn(OpToRel(<, Nat), Nat)
    BY NatLessThanWellFounded
<1>2. PICK x \in T : \A y \in T : ~(<<y, x>> \in OpToRel(<, Nat))
    BY <1>1, WFMin
<1>3. \A y \in T : ~(y < x)
    BY <1>2 DEF OpToRel
<1>4. \E i \in T : \A y \in T : i =< y
    BY <1>3
<1> QED
    BY <1>4 DEF Min

LEMMA MechIs == ASSUME NEW x PROVE ChooseMech(x) \in Mechs \cup {"none"}
<1> DEFINE fit == {i \in DOMAIN Sasl : Compatible(Sasl[i]) /\ Sasl[i] \in x}
<1>1. Sasl \in Seq(Mechs) /\ DOMAIN Sasl \subseteq Nat /\ \A i \in DOMAIN Sasl : Sasl[i] \in Mechs
    BY SmtpAssumption DEF Mechs
<1>2. CASE fit = {}
    BY <1>2 DEF ChooseMech
<1>3. CASE fit # {}
    <2>1. Min(fit) \in fit
        BY <1>1, <1>3, LeastIn
    <2>2. ChooseMech(x) = Sasl[Min(fit)]
        BY <1>3 DEF ChooseMech
    <2> QED
        BY <1>1, <2>1, <2>2
<1> QED
    BY <1>2, <1>3

LEMMA AuthCommandIs == \A mech \in Mechs : AuthCommand[mech] \in AuthPhases
BY DEF Mechs, AuthCommand, AuthPhases

\* A message that nothing bars uses only what is offered.
LEMMA PreparedIs ==
    ASSUME NEW x \in SUBSET Keywords, NEW m, Barred(x, m) = "none"
    PROVE  Prepared(x, m) \subseteq x /\ ~("big" \in m.has /\ "SMALL" \in x)
BY DEF Barred, Prepared

LEMMA BarredIs == ASSUME NEW x, NEW m PROVE Barred(x, m) \in {"Permanent", "Unsupported", "none"}
BY DEF Barred

LEMMA RefusalIs == ASSUME NEW p, NEW r PROVE Refusal(p, r) \in Errors
BY DEF Refusal, Errors

LEMMA SizeIs == ASSUME NEW x PROVE Size(x) \in Sizes
BY DEF Size, Sizes

LEMMA BelievedIs == ASSUME limit \in Limits, NEW size \in Sizes PROVE Believed(size) \in Limits
BY DEF Believed, Sizes, Limits

-----------------------------------------------------------------------------
(* Copies.                                                                 *)

\* An acceptance is on its way.
Accepting == ses.phase \in {"Body", "Bdat"} /\ conn.reply = "ok"

LEMMA CopiesStand ==
    ASSUME CopiesKnown, UNCHANGED <<taken, unheard>>, ~Accepting, ~Accepting',
           \A j \in Jobs : told'[j] = "sent" <=> told[j] = "sent"
    PROVE  CopiesKnown'
<1>1. \A j \in Jobs : Copies(j)' = Copies(j)
    BY DEF Copies
<1>2. \A j \in Jobs : /\ ~(ses.job = j /\ ses.phase \in {"Body", "Bdat"} /\ conn.reply = "ok")
                      /\ ~(ses'.job = j /\ ses'.phase \in {"Body", "Bdat"} /\ conn'.reply = "ok")
    BY DEF Accepting
<1>3. \A j \in Jobs : (IF told'[j] = "sent" THEN 1 ELSE 0) = (IF told[j] = "sent" THEN 1 ELSE 0)
    OBVIOUS
<1> QED
    BY <1>1, <1>2, <1>3 DEF CopiesKnown

\* One more message is accepted.
LEMMA CopiesAdd ==
    ASSUME taken \in Seq(TakenType), NEW t \in TakenType, taken' = Append(taken, t)
    PROVE  /\ Copies(t.job)' = Copies(t.job) + 1
           /\ \A j \in Jobs : j # t.job => Copies(j)' = Copies(j)
<1> DEFINE Of(j) == {i \in DOMAIN taken : taken[i].job = j}
           n == Len(taken) + 1
<1>1. /\ DOMAIN taken = 1..Len(taken) /\ Len(taken) \in Nat /\ DOMAIN taken' = 1..n
      /\ \A i \in DOMAIN taken : taken'[i] = taken[i]
      /\ taken'[n] = t /\ n \notin DOMAIN taken /\ DOMAIN taken' = DOMAIN taken \cup {n}
    OBVIOUS
<1>2. IsFiniteSet(Of(t.job))
    <2>1. IsFiniteSet(1..Len(taken))
        BY <1>1, FS_Interval
    <2> QED
        BY <1>1, <2>1, FS_Subset
<1>3. Of(t.job)' = Of(t.job) \cup {n} /\ n \notin Of(t.job)
    BY <1>1
<1>4. \A j \in Jobs : j # t.job => Of(j)' = Of(j)
    BY <1>1
<1>5. Cardinality(Of(t.job) \cup {n}) = Cardinality(Of(t.job)) + 1
    BY <1>2, <1>3, FS_AddElement
<1> QED
    BY <1>3, <1>4, <1>5 DEF Copies

-----------------------------------------------------------------------------
(* The engine.                                                             *)

\* What a session's end, or its second try, leaves.
LEMMA FailedFacts ==
    ASSUME Inv, ses.phase # "Idle", NEW error \in Errors, Failed(error)
    PROVE  /\ UNCHANGED sending /\ limit' \in Limits
           /\ \/ /\ ses' \in SesType /\ ses'.phase = "Greeting" /\ ses'.job = ses.job
                 /\ conn' = NewConn /\ UNCHANGED told
              \/ /\ ses' = NoSession /\ conn' = NoConn
                 /\ told' \in [Jobs -> Errors \cup {"none", "sent"}]
                 /\ told'[ses.job] = error /\ \A j \in Jobs : j # ses.job => told'[j] = told[j]
<1>0. Types /\ ses.job \in Jobs /\ ses.size \in Sizes
    BY DEF Inv, Types, SesInv, SesType
<1>1. UNCHANGED sending /\ limit' \in Limits
    BY <1>0, BelievedIs DEF Failed, HeardSize, Types
<1>2. CASE /\ ses' = [NoSession EXCEPT !.phase = "Greeting", !.job = ses.job]
           /\ conn' = NewConn /\ UNCHANGED told
    <2>1. ses' \in SesType /\ ses'.phase = "Greeting" /\ ses'.job = ses.job
        BY <1>0, <1>2 DEF NoSession, SesType, Phases, Waiting, Sizes
    <2> QED
        BY <1>1, <1>2, <2>1
<1>3. CASE Ended(error) /\ conn' = NoConn
    BY <1>0, <1>1, <1>3 DEF Ended, Types
<1> QED
    BY <1>2, <1>3 DEF Failed

LEMMA FailedKeeps ==
    ASSUME Inv, ses.phase # "Idle", NEW error \in Errors, Failed(error), UNCHANGED <<setup, taken>>,
           faults' \in 0..MaxFaults, unheard' \in [Jobs -> Nat],
           \A j \in Jobs : unheard'[j] = unheard[j] + (IF ses.job = j /\ Accepting THEN 1 ELSE 0)
    PROVE  Inv'
<1>0. /\ Types /\ SesInv /\ ses.job \in Jobs /\ told[ses.job] # "sent" /\ ~Kept
      /\ error # "sent" /\ error \in Errors /\ OwnRecipients /\ CopiesKnown
    BY DEF Inv, SesInv, Errors
<1>1. Types'
    BY <1>0, FailedFacts, Values, NewConnIs DEF Types
<1>2. ~Kept' /\ (\A j \in Jobs : told'[j] = "sent" <=> told[j] = "sent")
    BY <1>0, FailedFacts DEF Kept
<1>3. OwnRecipients'
    BY <1>0 DEF OwnRecipients
<1>4. ~Accepting'
    BY FailedFacts, Values, NewConnIs DEF Accepting
<1>5. CopiesKnown'
    <2>1. \A j \in Jobs : Copies(j)' = Copies(j)
        BY DEF Copies
    <2>2. \A j \in Jobs : ~(ses'.job = j /\ ses'.phase \in {"Body", "Bdat"} /\ conn'.reply = "ok")
        BY <1>4 DEF Accepting
    <2>3. \A j \in Jobs : (IF told'[j] = "sent" THEN 1 ELSE 0) = (IF told[j] = "sent" THEN 1 ELSE 0)
        BY <1>2
    <2>4. \A j \in Jobs : unheard'[j] = unheard[j] + (IF ses.job = j /\ ses.phase \in {"Body", "Bdat"} /\ conn.reply = "ok" THEN 1 ELSE 0)
        BY DEF Accepting
    <2>5. \A j \in Jobs : unheard[j] \in Nat
        BY <1>0 DEF Types
    <2> QED
        BY <1>0, <2>1, <2>2, <2>3, <2>4, <2>5 DEF CopiesKnown
<1>6. CASE ses'.phase = "Greeting" /\ ses'.job = ses.job /\ conn' = NewConn /\ UNCHANGED told
    <2>1. SesInv'
        BY <1>0, <1>2, <1>6 DEF SesInv
    <2>2. SecureInv'
        BY <1>2, <1>6, NewConnIs DEF SecureInv, AuthPhases, Transaction
    <2>3. OfferInv' /\ RcptInv'
        BY <1>2, <1>6, NewConnIs DEF OfferInv, RcptInv, AuthPhases, Transaction
    <2> QED
        BY <1>1, <1>3, <1>5, <2>1, <2>2, <2>3 DEF Inv
<1>7. CASE ses' = NoSession /\ conn' = NoConn
    <2>1. SesInv' /\ SecureInv' /\ OfferInv' /\ RcptInv'
        BY <1>2, <1>7, Values DEF SesInv, SecureInv, OfferInv, RcptInv, AuthPhases, Transaction
    <2> QED
        BY <1>1, <1>3, <1>5, <2>1 DEF Inv
<1> QED
    BY <1>6, <1>7, FailedFacts

\* There is no session, and nothing is kept.
LEMMA NothingLeft ==
    ASSUME Inv, ses.phase = "Idle", ses' = NoSession, conn' = NoConn, ~Kept', sending' \in SendingType,
           told' \in [Jobs -> Errors \cup {"none", "sent"}],
           \A j \in Jobs : told'[j] = "sent" <=> told[j] = "sent",
           UNCHANGED <<setup, limit, taken, unheard, faults>>
    PROVE  Inv'
<1>1. Types'
    BY Values DEF Inv, Types
<1>2. SesInv' /\ SecureInv' /\ OfferInv' /\ RcptInv' /\ ~Accepting /\ ~Accepting'
    BY Values DEF SesInv, SecureInv, OfferInv, RcptInv, AuthPhases, Transaction, Accepting
<1>3. CopiesKnown'
    BY <1>2, CopiesStand DEF Inv
<1>4. OwnRecipients'
    BY DEF Inv, OwnRecipients
<1> QED
    BY <1>1, <1>2, <1>3, <1>4 DEF Inv

LEMMA ToldIs ==
    ASSUME Types, NEW j \in Jobs, told[j] # "sent", NEW outcome \in Errors, told' = [told EXCEPT ![j] = outcome]
    PROVE  /\ told' \in [Jobs -> Errors \cup {"none", "sent"}]
           /\ \A i \in Jobs : told'[i] = "sent" <=> told[i] = "sent"
BY DEF Types, Errors

LEMMA BeginNewKeeps == ASSUME Inv, NEW j \in Jobs, BeginNew(j) PROVE Inv'
<1>0. /\ Types /\ ses = NoSession /\ ses.phase = "Idle" /\ told[j] # "sent" /\ sending' = NotKept /\ ~Kept'
      /\ sending' \in SendingType /\ UNCHANGED <<setup, limit, taken, unheard, faults>>
    BY Values DEF Inv, BeginNew, Kept
<1>1. CASE told' = [told EXCEPT ![j] = "Permanent"] /\ conn' = NoConn /\ UNCHANGED ses
    <2>1. "Permanent" \in Errors
        BY DEF Errors
    <2> QED
        BY <1>0, <1>1, <2>1, ToldIs, NothingLeft
<1>2. CASE /\ ses' = [NoSession EXCEPT !.phase = "Greeting", !.job = j]
           /\ conn' = NewConn /\ UNCHANGED told
    <2>1. ses' \in SesType /\ ses'.phase = "Greeting" /\ ses'.job = j
        BY <1>2 DEF NoSession, SesType, Phases, Waiting, Sizes
    <2>2. Types'
        BY <1>0, <1>2, <2>1, NewConnIs DEF Types
    <2>3. SesInv'
        BY <1>0, <1>2, <2>1 DEF SesInv
    <2>4. SecureInv'
        BY <1>0, <1>2, <2>1, NewConnIs DEF SecureInv, AuthPhases, Transaction
    <2>5. OfferInv' /\ RcptInv'
        BY <1>0, <1>2, <2>1, NewConnIs DEF OfferInv, RcptInv, AuthPhases, Transaction
    <2>6. ~Accepting /\ ~Accepting'
        BY <1>0, <2>1 DEF Accepting
    <2>7. CopiesKnown' /\ OwnRecipients'
        BY <1>0, <1>2, <2>6, CopiesStand DEF Inv, OwnRecipients
    <2> QED
        BY <2>2, <2>3, <2>4, <2>5, <2>7 DEF Inv
<1> QED
    BY <1>1, <1>2 DEF BeginNew

\* The kept connection is as it was left: signed in, secured, with no recipients.
LEMMA BeginKeptKeeps == ASSUME Inv, NEW j \in Jobs, BeginKept(j) PROVE Inv'
<1>0. /\ Types /\ SecureInv /\ OfferInv /\ RcptInv /\ Kept
      /\ ses = NoSession /\ ses.phase = "Idle" /\ told[j] # "sent" /\ sending' = NotKept /\ ~Kept'
      /\ sending' \in SendingType /\ UNCHANGED <<setup, limit, taken, unheard, faults>>
    BY Values DEF Inv, BeginKept, Kept
<1> DEFINE bar == IF "invalid" \in Mail[j].has THEN "Permanent" ELSE Barred(sending.ext, Mail[j])
<1>1. CASE bar # "none"
    <2>1. told' = [told EXCEPT ![j] = bar] /\ conn' = NoConn /\ UNCHANGED ses
        BY <1>1 DEF BeginKept
    <2>2. bar \in Errors
        BY <1>1, BarredIs DEF Errors
    <2> HIDE DEF bar
    <2> QED
        BY <1>0, <2>1, <2>2, ToldIs, NothingLeft
<1>2. CASE bar = "none"
    <2>1. /\ ses' = [NoSession EXCEPT !.phase = "MailFrom", !.job = j, !.spare = TRUE,
                                      !.ext = sending.ext, !.mech = sending.mech,
                                      !.env = Prepared(sending.ext, Mail[j])]
          /\ UNCHANGED <<told, conn>> /\ Barred(sending.ext, Mail[j]) = "none"
        BY <1>2 DEF BeginKept
    <2>2. sending.ext \in SUBSET Keywords /\ sending.mech \in Mechs \cup {"none"}
        BY <1>0 DEF Types, SendingType
    <2>3. /\ Prepared(sending.ext, Mail[j]) \subseteq sending.ext
          /\ ~("big" \in Mail[j].has /\ "SMALL" \in sending.ext)
        BY <2>1, <2>2, PreparedIs
    <2>4. /\ ses' \in SesType /\ ses'.phase = "MailFrom" /\ ses'.job = j /\ ses'.ext = sending.ext
          /\ ses'.env \subseteq sending.ext
        BY <2>1, <2>2, <2>3 DEF NoSession, SesType, Phases, Waiting, Transaction, Sizes
    <2>5. Types'
        BY <1>0, <2>1, <2>4 DEF Types
    <2>6. SesInv'
        BY <1>0, <2>1, <2>4 DEF SesInv
    <2>7. SecureInv'
        BY <1>0, <2>1, <2>4 DEF SecureInv, AuthPhases
    <2>8. OfferInv' /\ RcptInv'
        BY <1>0, <2>1, <2>3, <2>4 DEF OfferInv, RcptInv
    <2>9. ~Accepting /\ ~Accepting'
        BY <1>0, <2>4 DEF Accepting
    <2>10. CopiesKnown' /\ OwnRecipients'
        BY <1>0, <2>1, <2>9, CopiesStand DEF Inv, OwnRecipients
    <2> QED
        BY <2>5, <2>6, <2>7, <2>8, <2>10 DEF Inv
<1> QED
    BY <1>1, <1>2

LEMMA QuitKeeps == ASSUME Inv, QuitSending PROVE Inv'
<1>1. /\ ses = NoSession /\ ses.phase = "Idle" /\ ses' = NoSession /\ conn' = NoConn /\ ~Kept'
      /\ sending' \in SendingType /\ UNCHANGED <<setup, told, limit, taken, unheard, faults>>
    BY Values DEF QuitSending, Kept
<1> QED
    BY <1>1, NothingLeft DEF Inv, Types

LEMMA LeaveKeeps == ASSUME Inv, Leave PROVE Inv'
<1>0. /\ Types /\ ses = NoSession /\ ses.phase = "Idle"
      /\ UNCHANGED <<setup, ses, sending, told, limit, taken, unheard>> /\ faults' \in 0..MaxFaults
    BY Values, SmtpAssumption DEF Inv, Leave, Fault, Types
<1>1. /\ conn' \in ConnType /\ conn'.secured = conn.secured /\ conn'.signed = conn.signed
      /\ conn'.offers = conn.offers /\ conn'.to = conn.to
    BY <1>0 DEF Leave, Types, ConnType, Replies
<1>2. Types'
    BY <1>0, <1>1 DEF Types
<1>3. SesInv'
    BY <1>0 DEF Inv, SesInv, Kept
<1>4. SecureInv' /\ OfferInv' /\ RcptInv'
    BY <1>0, <1>1 DEF Inv, SecureInv, OfferInv, RcptInv, Kept, AuthPhases, Transaction
<1>5. CopiesKnown' /\ OwnRecipients'
    BY <1>0, CopiesStand DEF Inv, OwnRecipients, Accepting
<1> QED
    BY <1>2, <1>3, <1>4, <1>5 DEF Inv

-----------------------------------------------------------------------------
(* The server's answer.                                                    *)

LEMMA AnswerFacts ==
    ASSUME Inv, NEW r \in Replies, Answer(r)
    PROVE  /\ ses.phase \in Waiting /\ conn.reply = "none" /\ conn' \in ConnType /\ conn'.reply = r /\ r # "none"
           /\ conn'.secured = conn.secured
           /\ conn'.signed = (conn.signed \/ (ses.phase \in AuthPhases /\ r = "ok"))
           /\ ses.phase \notin {"Ehlo", "EhloAfterTls"} => conn'.offers = conn.offers
           /\ conn'.to = IF r = "ok" /\ ses.phase = "Rcpt" THEN conn.to \cup {Mail[ses.job].to[ses.at]}
                         ELSE IF ses.phase \in {"Body", "Bdat"} THEN {} ELSE conn.to
           /\ faults' \in 0..MaxFaults /\ UNCHANGED <<setup, ses, sending, told, limit, unheard>>
<1>0. /\ Types /\ conn \in ConnType /\ ses.phase \in Waiting /\ conn.reply = "none" /\ r # "none"
      /\ UNCHANGED <<setup, ses, sending, told, limit, unheard>>
    BY DEF Inv, Types, Answer, Replies
<1>1. faults' \in 0..MaxFaults
    BY <1>0, SmtpAssumption DEF Answer, Fault, Types
<1>2. ses.phase = "Rcpt" => Mail[ses.job].to[ses.at] \in STRING
    <2>1. ses.phase = "Rcpt" => ses.job \in Jobs /\ ses.at \in 1..Len(Mail[ses.job].to)
        BY DEF Inv, SesInv
    <2>2. \A j \in Jobs : Mail[j].to \in Seq(STRING)
        BY SmtpAssumption
    <2> QED
        BY <2>1, <2>2
<1>3. PICK offers \in Offers :
         conn' = [conn EXCEPT
            !.reply = r,
            !.offers = IF r = "ok" /\ ses.phase \in {"Ehlo", "EhloAfterTls"} THEN offers ELSE conn.offers,
            !.signed = conn.signed \/ (ses.phase \in AuthPhases /\ r = "ok"),
            !.to = IF r = "ok" /\ ses.phase = "Rcpt" THEN conn.to \cup {Mail[ses.job].to[ses.at]}
                   ELSE IF ses.phase \in {"Body", "Bdat"} THEN {} ELSE conn.to]
    BY DEF Answer, ThisMail
<1> DEFINE o == IF r = "ok" /\ ses.phase \in {"Ehlo", "EhloAfterTls"} THEN offers ELSE conn.offers
           s == conn.signed \/ (ses.phase \in AuthPhases /\ r = "ok")
           to == IF r = "ok" /\ ses.phase = "Rcpt" THEN conn.to \cup {Mail[ses.job].to[ses.at]}
                 ELSE IF ses.phase \in {"Body", "Bdat"} THEN {} ELSE conn.to
<1>4. o \in SUBSET Keywords /\ s \in BOOLEAN /\ to \in SUBSET STRING
    BY <1>0, <1>2, SmtpAssumption DEF ConnType
<1>5. conn' = [conn EXCEPT !.reply = r, !.offers = o, !.signed = s, !.to = to]
    BY <1>3
<1>6. ses.phase \notin {"Ehlo", "EhloAfterTls"} => o = conn.offers
    OBVIOUS
<1> HIDE DEF o
<1>7. /\ conn' \in ConnType /\ conn'.reply = r /\ conn'.secured = conn.secured /\ conn'.signed = s
      /\ conn'.offers = o /\ conn'.to = to
    <2> HIDE DEF s, to
    <2> QED
        BY <1>0, <1>4, <1>5 DEF ConnType
<1> QED
    BY <1>0, <1>1, <1>6, <1>7

\* An acceptance is of the message under way, for the recipients it has named: all its own.
LEMMA AcceptKeeps ==
    ASSUME Inv, NEW r \in Replies, Answer(r), ses.phase \in {"Body", "Bdat"}
    PROVE  taken' \in Seq(TakenType) /\ OwnRecipients' /\ CopiesKnown'
<1>0. /\ Types /\ ses.job \in Jobs /\ conn.to = ToSet(Mail[ses.job].to) /\ conn.to \in SUBSET STRING
      /\ OwnRecipients /\ CopiesKnown /\ ~Accepting /\ UNCHANGED <<ses, told, unheard>>
    BY AnswerFacts DEF Inv, SesInv, RcptInv, Types, ConnType, Accepting
<1>1. CASE r # "ok"
    <2>1. UNCHANGED taken /\ ~Accepting'
        BY <1>0, <1>1, AnswerFacts DEF Answer, Accepting
    <2> QED
        BY <1>0, <2>1, CopiesStand DEF Types, OwnRecipients
<1>2. CASE r = "ok"
    <2> DEFINE t == [job |-> ses.job, to |-> conn.to]
    <2>1. t \in TakenType /\ t.job = ses.job /\ t.to = ToSet(Mail[ses.job].to) /\ taken' = Append(taken, t)
        BY <1>0, <1>2 DEF Answer, TakenType
    <2> HIDE DEF t
    <2>2. /\ taken \in Seq(TakenType) /\ taken' \in Seq(TakenType)
          /\ DOMAIN taken' = DOMAIN taken \cup {Len(taken) + 1} /\ taken'[Len(taken) + 1] = t
          /\ \A i \in DOMAIN taken : taken'[i] = taken[i]
        BY <1>0, <2>1 DEF Types
    <2>3. OwnRecipients'
        BY <1>0, <2>1, <2>2 DEF OwnRecipients
    <2>4. /\ Copies(ses.job)' = Copies(ses.job) + 1
          /\ \A j \in Jobs : j # ses.job => Copies(j)' = Copies(j)
        BY <1>0, <2>1, <2>2, CopiesAdd
    <2>5. ASSUME NEW j \in Jobs
          PROVE  Copies(j)' = unheard[j] + (IF told[j] = "sent" THEN 1 ELSE 0) + (IF ses.job = j THEN 1 ELSE 0)
        <3>1. unheard[j] \in Nat
            BY <1>0 DEF Types
        <3>2. Copies(j) = unheard[j] + (IF told[j] = "sent" THEN 1 ELSE 0)
            BY <1>0, <3>1 DEF CopiesKnown, Accepting
        <3>3. CASE ses.job = j
            BY <1>0, <2>4, <3>1, <3>2, <3>3
        <3>4. CASE ses.job # j
            BY <2>4, <3>1, <3>2, <3>4
        <3> QED
            BY <3>3, <3>4
    <2>6. conn'.reply = "ok"
        BY <1>2, AnswerFacts
    <2> QED
        BY <1>0, <2>2, <2>3, <2>5, <2>6 DEF CopiesKnown
<1> QED
    BY <1>1, <1>2

LEMMA AnswerKeeps == ASSUME Inv, NEW r \in Replies, Answer(r) PROVE Inv'
<1>0. Types /\ SesInv /\ SecureInv /\ OfferInv /\ RcptInv /\ ses.phase # "Idle" /\ ses.job \in Jobs /\ ~Kept
    BY AnswerFacts DEF Inv, SesInv, Waiting, AuthPhases, Transaction
<1>1. taken' \in Seq(TakenType) /\ OwnRecipients' /\ CopiesKnown'
    <2>1. CASE ses.phase \in {"Body", "Bdat"}
        BY <2>1, AcceptKeeps
    <2>2. CASE ses.phase \notin {"Body", "Bdat"}
        <3>1. UNCHANGED taken /\ ~Accepting /\ ~Accepting'
            BY <2>2, AnswerFacts DEF Answer, Accepting
        <3> QED
            BY <3>1, AnswerFacts, CopiesStand DEF Inv, Types, OwnRecipients
    <2> QED
        BY <2>1, <2>2
<1>2. Types'
    BY <1>0, <1>1, AnswerFacts DEF Types
<1>3. SesInv' /\ ~Kept'
    BY <1>0, AnswerFacts DEF SesInv, Kept
<1>4. SecureInv'
    BY <1>0, <1>3, AnswerFacts DEF SecureInv
<1>5. OfferInv'
    BY <1>0, <1>3, AnswerFacts DEF OfferInv, AuthPhases, Transaction
<1>6. RcptInv'
    <2>1. CASE ses.phase = "Rcpt"
        <3>1. ses.at \in Nat /\ ses.at >= 1 /\ conn.to = Named(ses.at - 1) /\ ses' = ses
            BY <1>0, <2>1, AnswerFacts DEF SesInv, RcptInv
        <3>2. Named(ses.at) = Named(ses.at - 1) \cup {Mail[ses.job].to[ses.at]}
            BY <3>1 DEF Named
        <3>3. conn'.to = Named(IF conn'.reply = "ok" THEN ses.at ELSE ses.at - 1)
            BY <2>1, <3>1, <3>2, AnswerFacts
        <3> QED
            BY <2>1, <3>1, <3>3 DEF RcptInv, Named
    <2>2. CASE ses.phase # "Rcpt"
        BY <1>0, <2>2, AnswerFacts DEF RcptInv
    <2> QED
        BY <2>1, <2>2
<1> QED
    BY <1>1, <1>2, <1>3, <1>4, <1>5, <1>6 DEF Inv
-----------------------------------------------------------------------------
(* The driver.                                                             *)

LEMMA FaultIs == ASSUME Types, Fault PROVE faults' \in 0..MaxFaults
BY SmtpAssumption DEF Types, Fault

LEMMA UnheardIs ==
    ASSUME Types, ses.job \in Jobs, Unheard
    PROVE  /\ unheard' \in [Jobs -> Nat]
           /\ \A j \in Jobs : unheard'[j] = unheard[j] + (IF ses.job = j /\ Accepting THEN 1 ELSE 0)
<1>0. unheard \in [Jobs -> Nat] /\ \A j \in Jobs : unheard[j] \in Nat
    BY DEF Types
<1>1. CASE Accepting
    <2>1. unheard' = [unheard EXCEPT ![ses.job] = unheard[ses.job] + 1]
        BY <1>1 DEF Unheard, Accepting
    <2>2. unheard' \in [Jobs -> Nat]
        BY <1>0, <2>1
    <2>3. ASSUME NEW j \in Jobs PROVE unheard'[j] = unheard[j] + (IF ses.job = j THEN 1 ELSE 0)
        <3>1. CASE ses.job = j
            BY <1>0, <2>1, <3>1
        <3>2. CASE ses.job # j
            BY <1>0, <2>1, <3>2
        <3> QED
            BY <3>1, <3>2
    <2> QED
        BY <1>1, <2>2, <2>3
<1>2. CASE ~Accepting
    BY <1>0, <1>2 DEF Unheard, Accepting
<1> QED
    BY <1>1, <1>2

\* No acceptance is on its way: nothing is lost with the connection.
LEMMA NoneUnheard ==
    ASSUME Types, ~Accepting, UNCHANGED unheard
    PROVE  /\ unheard' \in [Jobs -> Nat]
           /\ \A j \in Jobs : unheard'[j] = unheard[j] + (IF ses.job = j /\ Accepting THEN 1 ELSE 0)
<1>1. unheard \in [Jobs -> Nat] /\ \A j \in Jobs : unheard[j] \in Nat
    BY DEF Types
<1> QED
    BY <1>1

LEMMA Busy == Inv /\ ses.phase # "Idle" => Types /\ ses.job \in Jobs
BY DEF Inv, SesInv

LEMMA WaitingBusy == ses.phase \in Waiting => ses.phase # "Idle"
BY DEF Waiting, AuthPhases, Transaction

LEMMA HearRefusalKeeps == ASSUME Inv, HearRefusal PROVE Inv'
<1>1. ses.phase # "Idle" /\ Failed(Refusal(ses.phase, conn.reply)) /\ UNCHANGED <<setup, taken, unheard, faults>>
    BY WaitingBusy DEF HearRefusal, Hearing
<1>2. ~Accepting
    BY DEF HearRefusal, Accepting, GoesOn, Decides
<1>3. faults' \in 0..MaxFaults
    BY <1>1, Busy DEF Types
<1> QED
    BY <1>1, <1>2, <1>3, Busy, NoneUnheard, RefusalIs, FailedKeeps

LEMMA StallKeeps == ASSUME Inv, Stall PROVE Inv'
<1>1. ses.phase # "Idle" /\ Failed("Stalled") /\ UNCHANGED <<setup, taken, unheard, faults>> /\ "Stalled" \in Errors
    BY WaitingBusy DEF Stall, Errors
<1>2. ~Accepting
    BY DEF Stall, Accepting
<1>3. faults' \in 0..MaxFaults
    BY <1>1, Busy DEF Types
<1> QED
    BY <1>1, <1>2, <1>3, Busy, NoneUnheard, FailedKeeps

LEMMA LoseKeeps == ASSUME Inv, Lose PROVE Inv'
<1>1. ses.phase # "Idle" /\ Failed("Io") /\ Unheard /\ UNCHANGED <<setup, taken>> /\ "Io" \in Errors
    BY DEF Lose, Errors, Inv, SesInv
<1>2. faults' \in 0..MaxFaults
    BY <1>1, Busy, FaultIs DEF Lose, Types
<1> QED
    BY <1>1, <1>2, Busy, UnheardIs, FailedKeeps

LEMMA InterruptKeeps == ASSUME Inv, Interrupt PROVE Inv'
<1>1. ses.phase # "Idle" /\ Failed("Permanent") /\ Unheard /\ UNCHANGED <<setup, taken>> /\ "Permanent" \in Errors
    BY WaitingBusy DEF Interrupt, Errors
<1>2. faults' \in 0..MaxFaults
    BY <1>1, Busy, FaultIs DEF Interrupt
<1> QED
    BY <1>1, <1>2, Busy, UnheardIs, FailedKeeps

\* The session goes on with its message: what is left to show is where.
LEMMA GoesKeeps ==
    ASSUME Inv, ses.phase # "Idle", ~Accepting, ~Accepting',
           ses' \in SesType, ses'.phase # "Idle", ses'.job = ses.job,
           ses'.phase = "Rcpt" => ses'.at \in 1..Len(Mail[ses.job].to),
           conn' \in ConnType, SecureInv', OfferInv', RcptInv',
           UNCHANGED <<setup, sending, told, limit, taken, unheard, faults>>
    PROVE  Inv'
<1>1. Types'
    BY DEF Inv, Types
<1>2. SesInv'
    BY DEF Inv, SesInv, Kept
<1>3. CopiesKnown' /\ OwnRecipients'
    BY CopiesStand DEF Inv, OwnRecipients
<1> QED
    BY <1>1, <1>2, <1>3 DEF Inv

LEMMA ReadIs ==
    ASSUME Types, Read
    PROVE  /\ conn' \in ConnType /\ conn'.reply = "none" /\ conn'.secured = conn.secured
           /\ conn'.signed = conn.signed /\ conn'.offers = conn.offers /\ conn'.to = conn.to
BY DEF Types, Read, ConnType

\* Where the script leads: signing in goes on, or ends with the answer that signs in.
LEMMA ScriptIs ==
    ASSUME NEW p, NEW r, NEW n, <<p, r, n>> \in Script
    PROVE  /\ n \in Phases /\ n # "Idle" /\ p \notin Decides
           /\ n \in AuthPhases => p \in AuthPhases
           /\ n = "MailFrom" => p \in AuthPhases /\ r = "ok"
           /\ n = "Rcpt" => p = "MailFrom"
           /\ n = "Body" => p = "Data"
           /\ n \notin {"EhloAfterTls", "Data", "Bdat"}
           /\ p \in {"Data", "Rcpt"} => n = "Body"
BY DEF Script, Phases, Waiting, AuthPhases, Transaction, Decides

LEMMA HearScriptKeeps == ASSUME Inv, HearScript PROVE Inv'
<1>0. PICK n \in Waiting \cup {"AwaitTls"} :
         /\ Hearing /\ <<ses.phase, conn.reply, n>> \in Script
         /\ ses' = [ses EXCEPT !.phase = n, !.at = IF n = "Rcpt" THEN 1 ELSE ses.at]
         /\ Read
         /\ UNCHANGED <<setup, sending, told, limit, taken, unheard, faults>>
    BY DEF HearScript
<1>1. /\ ses.phase # "Idle" /\ Types /\ ses.job \in Jobs /\ ~Accepting /\ ~Kept /\ ~Kept'
      /\ SecureInv /\ OfferInv /\ RcptInv
    BY <1>0, Busy, WaitingBusy, ScriptIs DEF Hearing, Accepting, Decides, Inv, SesInv, Kept
<1>2. /\ ses' \in SesType /\ ses'.phase = n /\ ses'.job = ses.job /\ ses'.ext = ses.ext /\ ses'.env = ses.env
      /\ n = "Rcpt" => ses'.at = 1
    <2> DEFINE at == IF n = "Rcpt" THEN 1 ELSE ses.at
    <2>1. ses \in SesType /\ n \in Phases /\ ses' = [ses EXCEPT !.phase = n, !.at = at]
        BY <1>0, <1>1, ScriptIs DEF Types
    <2>2. at \in Nat /\ (n = "Rcpt" => at = 1)
        BY <2>1 DEF SesType
    <2> HIDE DEF at
    <2> QED
        BY <2>1, <2>2 DEF SesType
<1>3. 1 \in 1..Len(Mail[ses.job].to)
    <2>1. Mail[ses.job].to \in Seq(STRING) /\ Mail[ses.job].to # << >>
        BY <1>1, SmtpAssumption
    <2> QED
        BY <2>1
<1>4. SecureInv'
    BY <1>0, <1>1, <1>2, ScriptIs, ReadIs DEF SecureInv, Transaction
<1>5. OfferInv'
    BY <1>0, <1>1, <1>2, ScriptIs, ReadIs DEF OfferInv, Transaction
<1>6. RcptInv'
    <2>1. n = "Rcpt" => conn'.to = {} /\ Named(0)' = {}
        BY <1>0, <1>1, ScriptIs, ReadIs DEF RcptInv, Named
    <2>2. n = "Body" => conn'.to = ToSet(Mail[ses.job].to)
        BY <1>0, <1>1, ScriptIs, ReadIs DEF RcptInv
    <2>3. n \notin {"Rcpt", "Body"} => conn'.to = {}
        BY <1>0, <1>1, ScriptIs, ReadIs DEF RcptInv, Decides
    <2>4. n \notin {"Data", "Bdat"} /\ conn'.reply = "none"
        BY <1>0, <1>1, ScriptIs, ReadIs
    <2>5. n = "Rcpt" => (IF conn'.reply = "ok" THEN ses'.at ELSE ses'.at - 1) = 0
        BY <1>2, <2>4
    <2> QED
        BY <1>2, <2>1, <2>2, <2>3, <2>4, <2>5 DEF RcptInv
<1>7. ~Accepting' /\ conn' \in ConnType
    BY <1>0, <1>1, ReadIs DEF Accepting
<1> QED
    BY <1>0, <1>1, <1>2, <1>3, <1>4, <1>5, <1>6, <1>7, ScriptIs, GoesKeeps

\* A handshake makes the connection secure and forgets what was offered before it.
LEMMA TlsOpenKeeps == ASSUME Inv, TlsOpen PROVE Inv'
<1>0. /\ ses.phase # "Idle" /\ Types /\ ses.job \in Jobs /\ ~Accepting /\ ~Kept /\ ~Kept' /\ RcptInv
      /\ ses.phase = "AwaitTls" /\ UNCHANGED <<setup, sending, told, limit, taken, unheard, faults>>
    BY Busy DEF TlsOpen, Accepting, Inv, SesInv, Kept
<1>1. ses' \in SesType /\ ses'.phase = "EhloAfterTls" /\ ses'.job = ses.job
    BY <1>0 DEF TlsOpen, Types, SesType, Phases, Waiting
<1>2. conn' \in ConnType /\ conn'.secured /\ conn'.to = conn.to
    BY <1>0 DEF TlsOpen, Types, ConnType
<1>3. SecureInv' /\ OfferInv' /\ RcptInv' /\ ~Accepting'
    BY <1>0, <1>1, <1>2 DEF SecureInv, OfferInv, RcptInv, AuthPhases, Transaction, Accepting
<1> QED
    BY <1>0, <1>1, <1>2, <1>3, GoesKeeps

\* The next recipient follows the ones named; after the last, all of them are.
LEMMA HearRcptKeeps == ASSUME Inv, HearRcpt PROVE Inv'
<1>0. /\ ses.phase = "Rcpt" /\ conn.reply = "ok" /\ Types /\ ses.job \in Jobs /\ ~Accepting /\ ~Kept /\ ~Kept'
      /\ ses.at \in 1..Len(Mail[ses.job].to) /\ conn.to = Named(ses.at) /\ SecureInv /\ OfferInv /\ Read
      /\ UNCHANGED <<setup, sending, told, limit, taken, unheard, faults>>
    BY Busy DEF HearRcpt, Accepting, Inv, SesInv, RcptInv, Kept
<1>1. /\ conn' \in ConnType /\ conn'.reply = "none" /\ conn'.secured = conn.secured
      /\ conn'.signed = conn.signed /\ conn'.offers = conn.offers /\ conn'.to = conn.to
    BY <1>0, ReadIs
<1>2. Mail[ses.job].to \in Seq(STRING) /\ Len(Mail[ses.job].to) \in Nat
    BY <1>0, SmtpAssumption
<1>3. CASE ses.at < Len(Mail[ses.job].to)
    <2>0. ses' = [ses EXCEPT !.at = ses.at + 1] /\ ses.at + 1 \in Nat
        BY <1>0, <1>2, <1>3 DEF HearRcpt, ThisMail
    <2>1. /\ ses' \in SesType /\ ses'.phase = "Rcpt" /\ ses'.job = ses.job /\ ses'.ext = ses.ext
          /\ ses'.env = ses.env /\ ses'.at = ses.at + 1
        BY <1>0, <2>0 DEF Types, SesType
    <2>2. ses'.at \in 1..Len(Mail[ses.job].to) /\ ses'.at - 1 = ses.at
        BY <1>0, <1>2, <1>3, <2>1
    <2>3. SecureInv' /\ OfferInv' /\ ~Accepting'
        BY <1>0, <1>1, <2>1 DEF SecureInv, OfferInv, Transaction, AuthPhases, Accepting
    <2>4. (conn.to = Named(ses.at - 1))'
        <3>1. conn'.to = {Mail[ses'.job].to[i] : i \in 1..(ses'.at - 1)}
            BY <1>0, <1>1, <2>1, <2>2 DEF Named
        <3> QED
            BY <3>1 DEF Named
    <2>5. RcptInv'
        BY <1>1, <2>1, <2>4 DEF RcptInv
    <2> QED
        BY <1>0, <1>1, <2>1, <2>2, <2>3, <2>5, GoesKeeps
<1>4. CASE ~(ses.at < Len(Mail[ses.job].to))
    <2>1. ses' = [ses EXCEPT !.at = 0, !.phase = IF "CHUNKING" \in ses.env THEN "Bdat" ELSE "Data"]
        BY <1>4 DEF HearRcpt, ThisMail
    <2>2. /\ ses' \in SesType /\ ses'.phase \in {"Bdat", "Data"} /\ ses'.job = ses.job /\ ses'.ext = ses.ext
          /\ ses'.env = ses.env
        BY <1>0, <2>1 DEF Types, SesType, Phases, Waiting, Transaction
    <2>3. ses.at = Len(Mail[ses.job].to)
        BY <1>0, <1>2, <1>4
    <2>4. conn.to = ToSet(Mail[ses.job].to)
        BY <1>0, <1>2, <2>3 DEF Named, ToSet
    <2>5. SecureInv' /\ OfferInv' /\ ~Accepting'
        BY <1>0, <1>1, <2>2 DEF SecureInv, OfferInv, Transaction, AuthPhases, Accepting
    <2>6. RcptInv'
        BY <1>1, <2>2, <2>4 DEF RcptInv
    <2> QED
        BY <1>0, <1>1, <2>2, <2>5, <2>6, GoesKeeps
<1> QED
    BY <1>3, <1>4

\* The acceptance that was on its way is now the one told, and its connection may be kept.
LEMMA HearAcceptedKeeps == ASSUME Inv, HearAccepted PROVE Inv'
<1>0. /\ ses.phase \in {"Body", "Bdat"} /\ conn.reply = "ok" /\ Types /\ ses.job \in Jobs /\ ~Kept
      /\ told[ses.job] # "sent" /\ conn.to = {} /\ SecureInv /\ OfferInv /\ OwnRecipients /\ CopiesKnown
      /\ ses' = NoSession /\ ses'.phase = "Idle" /\ told' = [told EXCEPT ![ses.job] = "sent"]
      /\ UNCHANGED <<setup, taken, unheard>>
    BY Values, Busy DEF HearAccepted, Ended, Inv, SesInv, RcptInv
<1>1. limit' \in Limits /\ ses.ext \in SUBSET Keywords /\ ses.mech \in Mechs \cup {"none"}
    BY <1>0, BelievedIs DEF HearAccepted, HeardSize, Types, SesType
<1>2. /\ faults' \in 0..MaxFaults
      /\ \/ Read /\ sending' = [ext |-> ses.ext, mech |-> ses.mech]
         \/ conn' = NoConn /\ UNCHANGED sending
    BY <1>0, FaultIs DEF HearAccepted, Types
<1>3. /\ told' \in [Jobs -> Errors \cup {"none", "sent"}] /\ told'[ses.job] = "sent"
      /\ \A j \in Jobs : j # ses.job => told'[j] = told[j]
    BY <1>0 DEF Types
<1>4. conn' \in ConnType /\ conn'.to = {} /\ sending' \in SendingType
    BY <1>0, <1>1, <1>2, ReadIs, Values DEF Types, SendingType
<1>5. Types'
    BY <1>0, <1>1, <1>2, <1>3, <1>4, Values DEF Types
<1>6. SesInv' /\ RcptInv' /\ OwnRecipients'
    BY <1>0, <1>4 DEF SesInv, RcptInv, OwnRecipients
<1>7. Kept' => Read /\ sending'.ext = ses.ext
    BY <1>0, <1>2 DEF Kept
<1>8. SecureInv' /\ OfferInv'
    BY <1>0, <1>7, ReadIs DEF SecureInv, OfferInv, Transaction, AuthPhases
<1>9. CopiesKnown'
    <2>1. SUFFICES ASSUME NEW j \in Jobs
                   PROVE  Copies(j)' = unheard'[j] + (IF told'[j] = "sent" THEN 1 ELSE 0)
        <3>1. \A j \in Jobs : unheard'[j] + (IF told'[j] = "sent" THEN 1 ELSE 0) \in Nat
            BY <1>5 DEF Types
        <3> QED
            BY <1>0, <3>1 DEF CopiesKnown
    <2>2. /\ unheard[j] \in Nat /\ unheard'[j] = unheard[j]
          /\ Copies(j) = unheard[j] + (IF told[j] = "sent" THEN 1 ELSE 0) + (IF ses.job = j THEN 1 ELSE 0)
        BY <1>0 DEF Types, CopiesKnown
    <2>3. Copies(j)' = Copies(j)
        BY <1>0 DEF Copies
    <2>4. CASE j = ses.job
        BY <1>0, <1>3, <2>2, <2>3, <2>4
    <2>5. CASE j # ses.job
        BY <1>3, <2>2, <2>3, <2>5
    <2> QED
        BY <2>4, <2>5
<1> QED
    BY <1>5, <1>6, <1>8, <1>9 DEF Inv

\* The EHLO upgrades, or decides the envelope and signs in where that is secure, or there is no way.
LEMMA HearEhloFacts ==
    ASSUME Inv, HearEhlo
    PROVE  \/ /\ ses' = NoSession /\ conn' = NoConn /\ limit' \in Limits
              /\ \E bar \in Errors : told' = [told EXCEPT ![ses.job] = bar]
           \/ /\ ses' \in SesType /\ ses'.phase = "StartTls" /\ ses'.job = ses.job
              /\ Read /\ UNCHANGED <<told, limit>>
           \/ /\ ses' \in SesType /\ ses'.phase \in AuthPhases /\ ses'.job = ses.job
              /\ ses'.ext = conn.offers /\ ses'.env \subseteq conn.offers /\ ~Upgrades(conn.offers)
              /\ ~("big" \in Mail[ses.job].has /\ "SMALL" \in conn.offers)
              /\ Read /\ UNCHANGED <<told, limit>>
<1> DEFINE x == conn.offers
           size == IF Size(x) = "Absent" THEN ses.size ELSE Size(x)
           bar == IF Upgrades(x) THEN (IF "STARTTLS" \in x THEN "none" ELSE "Unsupported")
                  ELSE IF Barred(x, Mail[ses.job]) # "none" THEN Barred(x, Mail[ses.job])
                  ELSE IF ChooseMech(x) = "none" THEN "Unsupported" ELSE "none"
           heard == [ses EXCEPT !.ext = x, !.size = size]
<1>0. ses \in SesType /\ limit \in Limits /\ x \in SUBSET Keywords /\ size \in Sizes
    BY SizeIs DEF Inv, Types, SesType, ConnType
<1>1. /\ bar # "none" => /\ told' = [told EXCEPT ![ses.job] = bar] /\ ses' = NoSession /\ conn' = NoConn
                         /\ limit' = Believed(size)
      /\ bar = "none" => /\ ses' = IF Upgrades(x) THEN [heard EXCEPT !.phase = "StartTls"]
                                   ELSE [heard EXCEPT !.phase = AuthCommand[ChooseMech(x)],
                                                      !.mech = ChooseMech(x),
                                                      !.env = Prepared(x, Mail[ses.job])]
                         /\ Read /\ UNCHANGED <<told, limit>>
    BY DEF HearEhlo, Ended, ThisMail
<1>2. heard \in SesType /\ heard.job = ses.job /\ heard.ext = x
    <2> HIDE DEF size, x
    <2> QED
        BY <1>0 DEF SesType
<1>3. CASE bar # "none"
    <2>1. bar \in Errors
        BY <1>3, BarredIs DEF Errors
    <2>2. limit' \in Limits
        BY <1>0, <1>1, <1>3, BelievedIs
    <2> HIDE DEF bar
    <2> QED
        BY <1>0, <1>1, <1>3, <2>1, <2>2
<1>4. CASE bar = "none" /\ Upgrades(x)
    <2>1. ses' = [heard EXCEPT !.phase = "StartTls"] /\ Read /\ UNCHANGED <<told, limit>>
        BY <1>1, <1>4
    <2> HIDE DEF heard
    <2>2. ses' \in SesType /\ ses'.phase = "StartTls" /\ ses'.job = heard.job
        BY <1>2, <2>1 DEF SesType, Phases, Waiting
    <2> QED
        BY <1>2, <2>1, <2>2
<1>5. CASE bar = "none" /\ ~Upgrades(x)
    <2>1. Barred(x, Mail[ses.job]) = "none" /\ ChooseMech(x) # "none"
        BY <1>5
    <2>2. ChooseMech(x) \in Mechs /\ AuthCommand[ChooseMech(x)] \in AuthPhases
        BY <2>1, MechIs, AuthCommandIs
    <2>3. Prepared(x, Mail[ses.job]) \subseteq x /\ ~("big" \in Mail[ses.job].has /\ "SMALL" \in x)
        BY <1>0, <2>1, PreparedIs
    <2>4. /\ ses' = [heard EXCEPT !.phase = AuthCommand[ChooseMech(x)], !.mech = ChooseMech(x),
                                  !.env = Prepared(x, Mail[ses.job])]
          /\ Read /\ UNCHANGED <<told, limit>>
        BY <1>1, <1>5
    <2> HIDE DEF heard
    <2>5. ses' \in SesType /\ ses'.phase \in AuthPhases /\ ses'.job = heard.job /\ ses'.ext = heard.ext /\ ses'.env \subseteq x
        BY <1>0, <1>2, <2>2, <2>3, <2>4 DEF SesType, Phases, Waiting
    <2> QED
        BY <1>2, <1>5, <2>3, <2>4, <2>5
<1> QED
    BY <1>3, <1>4, <1>5

LEMMA HearEhloKeeps == ASSUME Inv, HearEhlo PROVE Inv'
<1>0. /\ ses.phase \in {"Ehlo", "EhloAfterTls"} /\ Types /\ ses.job \in Jobs /\ ~Accepting /\ ~Kept /\ ~Kept'
      /\ told[ses.job] # "sent" /\ conn.to = {} /\ SecureInv
      /\ UNCHANGED <<setup, sending, taken, unheard, faults>>
    BY Busy DEF HearEhlo, Accepting, Inv, SesInv, RcptInv, Kept
<1>1. CASE /\ ses' = NoSession /\ conn' = NoConn /\ limit' \in Limits
           /\ \E bar \in Errors : told' = [told EXCEPT ![ses.job] = bar]
    <2>1. PICK bar \in Errors : told' = [told EXCEPT ![ses.job] = bar]
        BY <1>1
    <2>2. /\ told' \in [Jobs -> Errors \cup {"none", "sent"}]
          /\ \A i \in Jobs : told'[i] = "sent" <=> told[i] = "sent"
        BY <1>0, <2>1, ToldIs
    <2>3. Types'
        BY <1>0, <1>1, <2>2, Values DEF Types
    <2>4. SesInv' /\ SecureInv' /\ OfferInv' /\ RcptInv' /\ ~Accepting'
        BY <1>0, <1>1, Values DEF SesInv, SecureInv, OfferInv, RcptInv, AuthPhases, Transaction, Accepting
    <2>5. CopiesKnown' /\ OwnRecipients'
        BY <1>0, <2>2, <2>4, CopiesStand DEF Inv, OwnRecipients
    <2> QED
        BY <2>3, <2>4, <2>5 DEF Inv
<1>2. CASE /\ ses' \in SesType /\ ses'.phase = "StartTls" /\ ses'.job = ses.job
           /\ Read /\ UNCHANGED <<told, limit>>
    <2>1. SecureInv' /\ OfferInv' /\ RcptInv' /\ ~Accepting'
        BY <1>0, <1>2, ReadIs DEF SecureInv, OfferInv, RcptInv, AuthPhases, Transaction, Accepting
    <2> QED
        BY <1>0, <1>2, <2>1, ReadIs, GoesKeeps
<1>3. CASE /\ ses' \in SesType /\ ses'.phase \in AuthPhases /\ ses'.job = ses.job
           /\ ses'.ext = conn.offers /\ ses'.env \subseteq conn.offers /\ ~Upgrades(conn.offers)
           /\ ~("big" \in Mail[ses.job].has /\ "SMALL" \in conn.offers)
           /\ Read /\ UNCHANGED <<told, limit>>
    <2>1. conn.secured \/ setup.tls = "Plaintext"
        <3>1. setup.tls \in {"Implicit", "StartTlsRequired", "Plaintext"}
            BY <1>0, SmtpAssumption DEF Types
        <3> QED
            BY <1>0, <1>3, <3>1 DEF SecureInv, Upgrades
    <2>2. SecureInv'
        BY <1>0, <1>3, <2>1, ReadIs DEF SecureInv, AuthPhases, Transaction
    <2>3. OfferInv' /\ RcptInv' /\ ~Accepting'
        BY <1>0, <1>3, ReadIs DEF OfferInv, RcptInv, AuthPhases, Accepting
    <2>4. ses'.phase # "Idle" /\ ses'.phase # "Rcpt"
        BY <1>3 DEF AuthPhases
    <2> QED
        BY <1>0, <1>3, <2>2, <2>3, <2>4, ReadIs, GoesKeeps
<1> QED
    BY <1>1, <1>2, <1>3, HearEhloFacts

-----------------------------------------------------------------------------
LEMMA StutterKeeps == Inv /\ UNCHANGED vars => Inv'
<1> SUFFICES ASSUME Inv, UNCHANGED vars PROVE Inv'
    OBVIOUS
<1>1. Types' /\ SesInv' /\ SecureInv' /\ OfferInv'
    BY DEF Inv, vars, Types, SesInv, SecureInv, OfferInv, Kept
<1>2. RcptInv' /\ OwnRecipients'
    BY DEF Inv, vars, RcptInv, Named, OwnRecipients
<1>3. CopiesKnown'
    BY DEF Inv, vars, CopiesKnown, Copies
<1> QED
    BY <1>1, <1>2, <1>3 DEF Inv

LEMMA NextKeeps == Inv /\ [Next]_vars => Inv'
<1> SUFFICES ASSUME Inv, [Next]_vars PROVE Inv'
    OBVIOUS
<1>1. ASSUME NEW j \in Jobs, BeginNew(j) \/ BeginKept(j) PROVE Inv'
    BY <1>1, BeginNewKeeps, BeginKeptKeeps
<1>2. ASSUME NEW r \in Replies, Answer(r) PROVE Inv'
    BY <1>2, AnswerKeeps
<1>3. CASE QuitSending \/ Leave \/ Lose \/ Interrupt
    BY <1>3, QuitKeeps, LeaveKeeps, LoseKeeps, InterruptKeeps
<1>4. CASE Drive
    BY <1>4, HearRefusalKeeps, HearScriptKeeps, HearEhloKeeps, HearRcptKeeps, HearAcceptedKeeps,
       TlsOpenKeeps, StallKeeps DEF Drive, Hear
<1>5. CASE UNCHANGED vars
    BY <1>5, StutterKeeps
<1> QED
    BY <1>1, <1>2, <1>3, <1>4, <1>5 DEF Next

LEMMA InvHolds == Spec => []Inv
<1>1. Init => Inv
    BY InitInv
<1>2. Inv /\ [Next]_vars => Inv'
    BY NextKeeps
<1> QED
    BY <1>1, <1>2, PTL DEF Spec

\* The session, its connection and what is kept of them have their types, and a session that
\* names recipients is at one of its message's (stage_open, on_rcpt).
THEOREM SmtpTypes == Spec => []TypeOK
<1>1. Inv => TypeOK
    BY TypesAre DEF Inv
<1> QED
    BY <1>1, InvHolds, PTL

\* The credential is shown, and a message submitted, only on a connection secured as the account
\* demands, and a message only on one that is signed in, however the server answers and whichever
\* connection was kept or made anew (on_ehlo, on_tls_open, resume, submit).
THEOREM AlwaysSecured == Spec => []Secured
<1>1. Inv => Secured
    BY DEF Inv, SecureInv, Secured
<1> QED
    BY <1>1, InvHolds, PTL

\* A transaction uses only what the EHLO in force on its connection offered, on a new connection,
\* after STARTTLS and on a kept one alike (on_ehlo, prepare_envelope, check_transfer, resume).
THEOREM UsesOnlyOffered == Spec => []OnlyOffered
<1>1. Inv => OnlyOffered
    BY DEF Inv, OfferInv, OnlyOffered, ThisMail
<1> QED
    BY <1>1, InvHolds, PTL

\* Every message the server accepted went to exactly the recipients of its submission, though a
\* MAIL FROM clears none that an earlier transaction named (on_rcpt, left_open, submit_on).
THEOREM ReachesOwnRecipients == Spec => []OwnRecipients
<1>1. Inv => OwnRecipients
    BY DEF Inv
<1> QED
    BY <1>1, InvHolds, PTL

\* Every copy the server has of a message is the one told sent, one whose acceptance is on its way,
\* or one whose acceptance was lost: nothing else of the session makes a second copy
\* (submit, feed, finish_ok, on_eof).
THEOREM CopiesAccounted == Spec => []CopiesKnown
<1>1. Inv => CopiesKnown
    BY DEF Inv
<1> QED
    BY <1>1, InvHolds, PTL
=============================================================================
