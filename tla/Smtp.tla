-------------------------------- MODULE Smtp --------------------------------
(***************************************************************************)
(* Submission over SMTP: the session that speaks one message               *)
(* (mail-proto/src/smtp.rs), the driver that runs it over a connection     *)
(* (mail-runtime/src/drive.rs), and the engine that keeps the connection   *)
(* of an accepted message for the next one and goes again on a new one     *)
(* when the kept one was let go (submit, submit_on and quit_sending of     *)
(* mail-engine/src/engine.rs).  The server is external: it answers as it   *)
(* likes, leaves when it likes, and what it offers differs from one EHLO   *)
(* to the next.                                                            *)
(*                                                                         *)
(* A command is written and its answer read in one round, so where the     *)
(* session is says what it last wrote.  The engine signs in itself and     *)
(* keeps every connection it can: the relayed and the QUIT paths of the    *)
(* session have no caller in the program and are not modelled.             *)
(***************************************************************************)
EXTENDS Naturals, Sequences, SequencesExt

CONSTANTS
    Jobs,       \* the submissions in the outbox
    Mail,       \* what each of them is: recipients, and what its bytes and addresses have
    Offers,     \* the answers the server may give to EHLO
    Setups,     \* how the account reaches its server: tls and credential
    Sasl,       \* the mechanisms the account would use, in order
    MaxFaults   \* bound: answers that refuse, connections lost, cancellations

Keywords == {"STARTTLS", "8BITMIME", "SMTPUTF8", "DSN", "CHUNKING", "SMALL", "ZERO", "SIZE",
             "Plain", "Login", "XOauth2"}
\* SIZE with a number, with zero, and with none: "SMALL", "ZERO", "SIZE".
\* "long": a line above MAX_LINE; "big": above the limit "SMALL" states; "idn": a domain that
\* has an A-label; "utf8": a local part that has none.
Traits == {"invalid", "long", "big", "eight", "receipt", "idn", "utf8"}

ASSUME SmtpAssumption ==
    /\ \A j \in Jobs : /\ Mail[j].to \in Seq(STRING) /\ Mail[j].to # << >>
                       /\ Mail[j].has \subseteq Traits
    /\ Offers \subseteq SUBSET Keywords
    /\ Setups \subseteq [tls : {"Implicit", "StartTlsRequired", "Plaintext"},
                         cred : {"Password", "OAuth"}]
    /\ Sasl \in Seq({"Plain", "Login", "XOauth2"})
    /\ MaxFaults \in Nat

VARIABLES
    setup,      \* the account's, fixed
    ses,        \* the SmtpSession staged in the backend, and the message it is for
    conn,       \* the connection, as the server has it
    sending,    \* AccountEngine::sending: what the kept connection was left with
    told,       \* what the last submission of each job ended with
    limit,      \* the largest message the composer believes the server takes
    taken,      \* history: what the server accepted
    unheard,    \* history: the acceptances of each job nobody heard
    faults      \* how many faults have happened

vars == <<setup, ses, conn, sending, told, limit, taken, unheard, faults>>

AuthPhases == {"AuthPlain", "AuthPlainSent", "AuthLoginUser", "AuthLoginPass",
               "AuthLoginSent", "AuthXoauth2", "AuthXoauth2Sent"}
Transaction == {"MailFrom", "Rcpt", "Data", "Body", "Bdat"}
\* The phases that wait for a reply: all but a handshake and no session.
Waiting == {"Greeting", "Ehlo", "StartTls", "EhloAfterTls"} \cup AuthPhases \cup Transaction
Errors == {"Permanent", "Transient", "Throttled", "AuthRejected", "Unsupported", "Malformed",
           "Io", "Stalled"}
Replies == {"ok", "more", "busy", "closing", "no", "odd"}

Size(x) == IF "SMALL" \in x THEN "SMALL" ELSE IF "ZERO" \in x THEN "ZERO"
           ELSE IF "SIZE" \in x THEN "SIZE" ELSE "Absent"

NoSession == [phase |-> "Idle", job |-> "none", at |-> 0, spare |-> FALSE,
              ext |-> {}, mech |-> "none", env |-> {}, size |-> "Absent"]
NoConn == [open |-> FALSE, secured |-> FALSE, signed |-> FALSE, offers |-> {}, to |-> {},
           reply |-> "none"]
NotKept == [ext |-> {}, mech |-> "none"]

Init ==
    /\ setup \in Setups
    /\ ses = NoSession /\ conn = NoConn /\ sending = NotKept
    /\ told = [j \in Jobs |-> "none"] /\ limit = "Absent"
    /\ taken = << >> /\ unheard = [j \in Jobs |-> 0] /\ faults = 0

Fault == faults < MaxFaults /\ faults' = faults + 1
ThisMail == Mail[ses.job]
Kept == sending # NotKept

-----------------------------------------------------------------------------
(* What the session decides.                                               *)

\* check_transfer, and the addresses prepare_envelope cannot write: what stops the message
\* given what this EHLO offered.  No message has as few octets as the limit SIZE 0 is taken for.
Barred(x, m) ==
    IF "long" \in m.has \/ ("big" \in m.has /\ "SMALL" \in x) \/ Size(x) = "ZERO" THEN "Permanent"
    ELSE IF \/ "eight" \in m.has /\ "8BITMIME" \notin x
            \/ "utf8" \in m.has /\ "SMTPUTF8" \notin x THEN "Unsupported"
    ELSE "none"

\* prepare_envelope, mail_from_command: the extensions the transaction makes use of.
Prepared(x, m) ==
    {k \in {"8BITMIME"} : "eight" \in m.has}
      \cup {k \in {"SMTPUTF8"} \cap x : m.has \cap {"idn", "utf8"} # {}}
      \cup {k \in {"DSN"} \cap x : "receipt" \in m.has}
      \cup ({"CHUNKING"} \cap x)

Compatible(mech) == (mech = "XOauth2") <=> (setup.cred = "OAuth")
\* choose_mech: the first wanted that carries the credential and is offered.
ChooseMech(x) ==
    LET fit == {i \in DOMAIN Sasl : Compatible(Sasl[i]) /\ Sasl[i] \in x}
    IN  IF fit = {} THEN "none" ELSE Sasl[Min(fit)]
\* auth_command.
AuthCommand == [Plain |-> "AuthPlain", Login |-> "AuthLoginUser", XOauth2 |-> "AuthXoauth2"]

\* Mutation: PLAIN's 334 is answered with the command again.
ScriptRepeats ==
    {<<"Greeting", "ok", "Ehlo">>, <<"StartTls", "ok", "AwaitTls">>,
     <<"AuthPlain", "more", "AuthPlain">>, <<"AuthPlain", "ok", "MailFrom">>,
     <<"AuthLoginUser", "more", "AuthLoginPass">>, <<"AuthLoginPass", "more", "AuthLoginSent">>,
     <<"AuthLoginSent", "ok", "MailFrom">>,
     <<"AuthXoauth2", "ok", "MailFrom">>,
     <<"MailFrom", "ok", "Rcpt">>, <<"Data", "more", "Body">>}
\* on_greeting, on_starttls, on_auth, finish_auth, on_mail_from, on_data: the replies that go
\* on, and to where.  "more" is the 3xx the phase waits for.
Script ==
    {<<"Greeting", "ok", "Ehlo">>, <<"StartTls", "ok", "AwaitTls">>,
     <<"AuthPlain", "more", "AuthPlainSent">>, <<"AuthPlain", "ok", "MailFrom">>,
     <<"AuthPlainSent", "ok", "MailFrom">>,
     <<"AuthLoginUser", "more", "AuthLoginPass">>, <<"AuthLoginPass", "more", "AuthLoginSent">>,
     <<"AuthLoginSent", "ok", "MailFrom">>,
     <<"AuthXoauth2", "more", "AuthXoauth2Sent">>, <<"AuthXoauth2", "ok", "MailFrom">>,
     <<"AuthXoauth2Sent", "ok", "MailFrom">>,
     <<"MailFrom", "ok", "Rcpt">>, <<"Data", "more", "Body">>}
\* on_ehlo, on_rcpt and the acceptance have steps of their own.
Decides == {"Ehlo", "EhloAfterTls", "Rcpt", "Body", "Bdat"}
GoesOn(p, r) == (p \in Decides /\ r = "ok") \/ \E n \in Waiting \cup {"AwaitTls"} : <<p, r, n>> \in Script

\* refusal, expect_success, expect_intermediate, auth_negative: any other reply.
Refusal(p, r) ==
    IF r = "odd" THEN "Malformed"
    ELSE IF r = "closing" THEN "Throttled"
    ELSE IF r = "busy" THEN "Transient"
    ELSE IF p \in AuthPhases THEN "AuthRejected"
    ELSE IF r = "no" THEN "Permanent" ELSE "Malformed"

-----------------------------------------------------------------------------
(* What the engine does with a session.                                    *)

NewConn == [NoConn EXCEPT !.open = TRUE, !.secured = setup.tls = "Implicit"]
\* heard_size, whatever the outcome: zero states no limit.
Believed(size) == IF size = "Absent" THEN limit ELSE IF size = "ZERO" THEN "SIZE" ELSE size
HeardSize == limit' = Believed(ses.size)

Ended(outcome) ==
    /\ told' = [told EXCEPT ![ses.job] = outcome]
    /\ ses' = NoSession

\* let_go: the connection went away, or a 421 closes it.
LetGo(error) == error \in {"Io", "Throttled"}

\* Mutation: a connection that is signed in is kept when the message fails on it.
FailedKept(error) ==
    /\ IF ses.spare /\ LetGo(error)
       THEN /\ ses' = [NoSession EXCEPT !.phase = "Greeting", !.job = ses.job]
            /\ conn' = NewConn /\ UNCHANGED <<told, sending>>
       ELSE /\ Ended(error)
            /\ IF conn.signed
               THEN conn' = [conn EXCEPT !.reply = "none"] /\ sending' = [ext |-> ses.ext, mech |-> ses.mech]
               ELSE conn' = NoConn /\ UNCHANGED sending
    /\ HeardSize
\* Mutation: the new connection is taken for the one that was let go.
FailedResumes(error) ==
    /\ IF ses.spare /\ LetGo(error)
       THEN /\ ses' = [ses EXCEPT !.phase = "MailFrom", !.spare = FALSE]
            /\ conn' = NewConn /\ UNCHANGED told
       ELSE Ended(error) /\ conn' = NoConn
    /\ HeardSize /\ UNCHANGED sending
\* A session that failed is dropped with its connection, and submit goes once more on a new
\* one where the failed one had been kept and was let go.
Failed(error) ==
    /\ IF ses.spare /\ LetGo(error)
       THEN /\ ses' = [NoSession EXCEPT !.phase = "Greeting", !.job = ses.job]
            /\ conn' = NewConn /\ UNCHANGED told
       ELSE Ended(error) /\ conn' = NoConn
    /\ HeardSize /\ UNCHANGED sending

\* submit and submit_on on a new connection: there is no kept one, or it waited too long.
BeginNew(j) ==
    /\ ses = NoSession /\ told[j] \notin {"sent", "Permanent"}
    /\ sending' = NotKept
    /\ IF "invalid" \in Mail[j].has
       THEN told' = [told EXCEPT ![j] = "Permanent"] /\ conn' = NoConn /\ UNCHANGED ses
       ELSE /\ ses' = [NoSession EXCEPT !.phase = "Greeting", !.job = j]
            /\ conn' = NewConn /\ UNCHANGED told
    /\ UNCHANGED <<setup, limit, taken, unheard, faults>>

\* submit_on on the kept connection: start, resume.
BeginKept(j) ==
    /\ ses = NoSession /\ told[j] \notin {"sent", "Permanent"}
    /\ Kept /\ sending' = NotKept
    /\ LET bar == IF "invalid" \in Mail[j].has THEN "Permanent" ELSE Barred(sending.ext, Mail[j])
       IN  IF bar # "none"
           THEN told' = [told EXCEPT ![j] = bar] /\ conn' = NoConn /\ UNCHANGED ses
           ELSE /\ ses' = [NoSession EXCEPT !.phase = "MailFrom", !.job = j, !.spare = TRUE,
                                            !.ext = sending.ext, !.mech = sending.mech,
                                            !.env = Prepared(sending.ext, Mail[j])]
                /\ UNCHANGED <<told, conn>>
    /\ UNCHANGED <<setup, limit, taken, unheard, faults>>

\* quit_sending, at the end of a drain.
QuitSending ==
    /\ ses = NoSession /\ Kept
    /\ sending' = NotKept /\ conn' = NoConn
    /\ UNCHANGED <<setup, ses, told, limit, taken, unheard, faults>>
-----------------------------------------------------------------------------
(* The server.                                                             *)

\* It does with the command what its answer says.  A MAIL FROM does not clear the recipients
\* of a transaction left unfinished: not every server does.
Answer(r) ==
    /\ ses.phase \in Waiting /\ conn.open /\ conn.reply = "none"
    /\ (IF GoesOn(ses.phase, r) THEN UNCHANGED faults ELSE Fault)
    /\ \E offers \in Offers :
         conn' = [conn EXCEPT
            !.reply = r,
            !.offers = IF r = "ok" /\ ses.phase \in {"Ehlo", "EhloAfterTls"} THEN offers ELSE @,
            !.signed = @ \/ (ses.phase \in AuthPhases /\ r = "ok"),
            !.to = IF r = "ok" /\ ses.phase = "Rcpt" THEN @ \cup {ThisMail.to[ses.at]}
                   ELSE IF ses.phase \in {"Body", "Bdat"} THEN {} ELSE @]
    /\ taken' = IF ses.phase \in {"Body", "Bdat"} /\ r = "ok"
                THEN Append(taken, [job |-> ses.job, to |-> conn.to]) ELSE taken
    /\ UNCHANGED <<setup, ses, sending, told, limit, unheard>>

\* It ends a connection kept idle, with a 421 or without a word.
Leave ==
    /\ ses = NoSession /\ Kept /\ conn.open /\ conn.reply = "none" /\ Fault
    /\ conn' \in {[conn EXCEPT !.open = FALSE], [conn EXCEPT !.reply = "closing"]}
    /\ UNCHANGED <<setup, ses, sending, told, limit, taken, unheard>>
-----------------------------------------------------------------------------
(* The driver: replies, the handshake, silence, loss, cancellation.        *)

Hearing == ses.phase \in Waiting /\ conn.reply # "none"
Read == conn' = [conn EXCEPT !.reply = "none"]

\* A reply the phase does not go on from.
HearRefusal ==
    /\ Hearing /\ ~GoesOn(ses.phase, conn.reply)
    /\ Failed(Refusal(ses.phase, conn.reply))
    /\ UNCHANGED <<setup, taken, unheard, faults>>

\* The next command is written.
HearScript == \E n \in Waiting \cup {"AwaitTls"} :
    /\ Hearing /\ <<ses.phase, conn.reply, n>> \in Script
    /\ ses' = [ses EXCEPT !.phase = n, !.at = IF n = "Rcpt" THEN 1 ELSE @]
    /\ Read
    /\ UNCHANGED <<setup, sending, told, limit, taken, unheard, faults>>

\* Mutation: STARTTLS is used where it is offered.
UpgradesIfOffered(x) == setup.tls = "StartTlsRequired" /\ "STARTTLS" \in x /\ ses.phase = "Ehlo"
\* on_ehlo: nothing else is said before the connection is secured.
Upgrades(x) == setup.tls = "StartTlsRequired" /\ ses.phase = "Ehlo"

\* on_ehlo: STARTTLS, or the envelope is decided and the session signs in, or there is no way.
HearEhlo ==
    /\ Hearing /\ ses.phase \in {"Ehlo", "EhloAfterTls"} /\ conn.reply = "ok"
    /\ LET x == conn.offers
           size == IF Size(x) = "Absent" THEN ses.size ELSE Size(x)
           bar == IF Upgrades(x) THEN (IF "STARTTLS" \in x THEN "none" ELSE "Unsupported")
                  ELSE IF Barred(x, ThisMail) # "none" THEN Barred(x, ThisMail)
                  ELSE IF ChooseMech(x) = "none" THEN "Unsupported" ELSE "none"
           heard == [ses EXCEPT !.ext = x, !.size = size]
       IN  IF bar # "none"
           THEN /\ Ended(bar) /\ conn' = NoConn
                /\ limit' = Believed(size)
           ELSE /\ ses' = IF Upgrades(x) THEN [heard EXCEPT !.phase = "StartTls"]
                          ELSE [heard EXCEPT !.phase = AuthCommand[ChooseMech(x)],
                                             !.mech = ChooseMech(x),
                                             !.env = Prepared(x, ThisMail)]
                /\ Read /\ UNCHANGED <<told, limit>>
    /\ UNCHANGED <<setup, sending, taken, unheard, faults>>

\* on_tls_open: what was known of the server no longer holds.
TlsOpen ==
    /\ ses.phase = "AwaitTls"
    /\ ses' = [ses EXCEPT !.phase = "EhloAfterTls"]
    /\ conn' = [conn EXCEPT !.secured = TRUE, !.offers = {}]
    /\ UNCHANGED <<setup, sending, told, limit, taken, unheard, faults>>

\* Mutation: one recipient too many is asked for.
HearRcptPastLast ==
    /\ Hearing /\ ses.phase = "Rcpt" /\ conn.reply = "ok"
    /\ ses' = IF ses.at <= Len(ThisMail.to) THEN [ses EXCEPT !.at = @ + 1]
              ELSE [ses EXCEPT !.at = 0, !.phase = IF "CHUNKING" \in ses.env THEN "Bdat" ELSE "Data"]
    /\ Read
    /\ UNCHANGED <<setup, sending, told, limit, taken, unheard, faults>>
\* on_rcpt: the next recipient, or the message.
HearRcpt ==
    /\ Hearing /\ ses.phase = "Rcpt" /\ conn.reply = "ok"
    /\ ses' = IF ses.at < Len(ThisMail.to) THEN [ses EXCEPT !.at = @ + 1]
              ELSE [ses EXCEPT !.at = 0, !.phase = IF "CHUNKING" \in ses.env THEN "Bdat" ELSE "Data"]
    /\ Read
    /\ UNCHANGED <<setup, sending, told, limit, taken, unheard, faults>>

\* The acceptance: finish_ok, left_open.  The connection is kept, unless the pass was cancelled
\* by then.
HearAccepted ==
    /\ Hearing /\ ses.phase \in {"Body", "Bdat"} /\ conn.reply = "ok"
    /\ Ended("sent") /\ HeardSize
    /\ \/ Read /\ sending' = [ext |-> ses.ext, mech |-> ses.mech] /\ UNCHANGED faults
       \/ Fault /\ conn' = NoConn /\ UNCHANGED sending
    /\ UNCHANGED <<setup, taken, unheard>>

\* An acceptance on its way is heard by nobody.
Unheard ==
    unheard' = IF ses.phase \in {"Body", "Bdat"} /\ conn.reply = "ok"
               THEN [unheard EXCEPT ![ses.job] = @ + 1] ELSE unheard

\* Mutation: a connection that ends after the message was written is taken for its acceptance.
LoseAsSent ==
    /\ ses # NoSession
    /\ (IF conn.open THEN Fault ELSE UNCHANGED faults)
    /\ IF ses.phase \in {"Body", "Bdat"}
       THEN Ended("sent") /\ conn' = NoConn /\ HeardSize /\ UNCHANGED <<sending, unheard>>
       ELSE Failed("Io") /\ Unheard
    /\ UNCHANGED <<setup, taken>>
\* The connection breaks, or could not be made, or the handshake fails: on_eof, an I/O error.
Lose ==
    /\ ses # NoSession
    /\ (IF conn.open THEN Fault ELSE UNCHANGED faults)
    /\ Failed("Io") /\ Unheard
    /\ UNCHANGED <<setup, taken>>

\* The server says nothing for QUIET.
Stall ==
    /\ ses.phase \in Waiting /\ conn.reply = "none"
    /\ Failed("Stalled")
    /\ UNCHANGED <<setup, taken, unheard, faults>>

\* The pass is cancelled: the session answers Interrupt with a refusal for good.
Interrupt ==
    /\ ses.phase \in Waiting /\ Fault
    /\ Failed("Permanent") /\ Unheard
    /\ UNCHANGED <<setup, taken>>

Hear == HearRefusal \/ HearScript \/ HearEhlo \/ HearRcpt \/ HearAccepted
Drive == Hear \/ TlsOpen \/ Stall

Next ==
    \/ \E j \in Jobs : BeginNew(j) \/ BeginKept(j)
    \/ QuitSending
    \/ \E r \in Replies : Answer(r)
    \/ Leave
    \/ Drive \/ Lose \/ Interrupt

Spec == Init /\ [][Next]_vars
\* The driver gives up on a server that is silent for QUIET, so it always moves.
FairSpec == Spec /\ WF_vars(Drive)
-----------------------------------------------------------------------------
\* The types of the variables.
TypeOK ==
    /\ setup \in Setups
    /\ ses.phase \in Waiting \cup {"AwaitTls", "Idle"} /\ ses.job \in Jobs \cup {"none"}
    /\ ses.ext \subseteq Keywords /\ ses.env \subseteq Keywords /\ ses.spare \in BOOLEAN
    /\ (ses = NoSession) <=> (ses.phase = "Idle")
    /\ ses.phase = "Rcpt" => ses.at \in DOMAIN ThisMail.to
    /\ conn.open \in BOOLEAN /\ conn.reply \in Replies \cup {"none"} /\ conn.offers \subseteq Keywords
    /\ sending.ext \subseteq Keywords
    /\ told \in [Jobs -> Errors \cup {"none", "sent"}]
    /\ limit \in {"Absent", "SMALL", "SIZE"}
    /\ unheard \in [Jobs -> Nat] /\ faults \in 0..MaxFaults

\* Every message the server accepted, on a new connection or on a kept one, went to exactly the
\* recipients of its submission: none of them missed, and none left over from a message that
\* went or failed on the connection before it (on_rcpt, open, stage_open, submit_on).
OwnRecipients == \A i \in DOMAIN taken : taken[i].to = ToSet(Mail[taken[i].job].to)

\* A transaction uses only what the server offered in the EHLO in force on the connection it
\* runs on: neither what was offered before TLS, nor on another connection, nor by default
\* (on_ehlo, resume, prepare_envelope, check_transfer).
OnlyOffered ==
    ses.phase \in Transaction =>
        /\ ses.env \subseteq conn.offers
        /\ ~("big" \in ThisMail.has /\ "SMALL" \in conn.offers)

\* The credential is shown, and a message submitted, only on a connection secured as the
\* account demands; and a message only on one that is signed in (on_ehlo, open, submit_on).
Secured ==
    /\ ses.phase \in AuthPhases \cup Transaction => conn.secured \/ setup.tls = "Plaintext"
    /\ ses.phase \in Transaction => conn.signed

\* Every copy the server has of a message is the one the engine was told of, or one whose
\* acceptance was lost on the way; and what was told sent was accepted (submit's second try,
\* on_bytes, on_eof, feed).
Copies(j) == Cardinality({i \in DOMAIN taken : taken[i].job = j})
CopiesKnown ==
    \A j \in Jobs :
        Copies(j) = unheard[j] + (IF told[j] = "sent" THEN 1 ELSE 0)
                      + (IF ses.job = j /\ ses.phase \in {"Body", "Bdat"} /\ conn.reply = "ok" THEN 1 ELSE 0)

\* A submission goes again on a new connection only when the server has not had it, as a comment
\* in submit says.
NotHadBefore == [][\A j \in Jobs : ses.job = j /\ ses.spare /\ ses'.job = j /\ ~ses'.spare => Copies(j) = 0]_vars

\* What a server says of the size it takes stops a message before it is sent only where a limit
\* is written down for the composer to measure the next one against: zero states no limit, as a
\* comment on heard_size says (heard_size, apply_ehlo_line, check_transfer).
BarredAsTold ==
    [][\A j \in Jobs : HearEhlo /\ told[j] # "Permanent" /\ told'[j] = "Permanent" =>
          "long" \in Mail[j].has \/ limit' = "SMALL"]_vars

\* Every submission ends, whatever the server does or does not say (drive, on_auth).
Ends == ses.phase # "Idle" ~> ses.phase = "Idle"
=============================================================================
