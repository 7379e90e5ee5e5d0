------------------------------- MODULE Tokens -------------------------------
(***************************************************************************)
(* An OAuth account's sign-in, kept good while sessions use it             *)
(* (mail-secrets/src/tokens.rs; signed_in of mail-core/src/sync/run.rs;    *)
(* run_leaving of mail-engine/src/engine.rs).  A source is one OAuthTokens *)
(* with its Held cell: a pass, a watch or a look at the quota makes one    *)
(* from the stored credential, and the sessions of it (a watch has one for *)
(* each folder it listens on) share it.  The issuer, the mail server and   *)
(* the keyring are external.                                               *)
(*                                                                         *)
(* The account reads over IMAP or POP3 and its one token is the incoming   *)
(* one.  Tokens are numbers in the order they were issued.                 *)
(***************************************************************************)
EXTENDS Naturals, FiniteSets

CONSTANTS
    Sources,    \* the token sources of the account in one process
    Sessions,   \* the engines that present its token
    Of,         \* the source each session asks
    Faults,     \* what may go wrong
    MaxStale,   \* bound: the newest token that comes due or is refused
    MaxFaults   \* bound: faults

\* "unreachable": the issuer is not; "lost": its answer is; "keyring": it does not answer; "absent":
\* it says the entry is not there, or cannot be read; "ends": the process ends while a new token is
\* in its hands; "dropped": a session's operation is; "withdrawn": the grant is, at the issuer.
ASSUME TokensAssumption ==
    /\ Of \in [Sessions -> Sources] /\ Sources \cap Sessions = {} /\ "free" \notin Sessions
    /\ Faults \subseteq {"unreachable", "lost", "keyring", "absent", "ends", "dropped", "withdrawn"}
    /\ MaxStale \in Nat /\ MaxFaults \in Nat

VARIABLES
    rotates,    \* whether the issuer gives a new refresh token with each access token
    issued,     \* how many access tokens the issuer has issued
    spent,      \* the refresh tokens it has replaced
    revoked,    \* whether it has revoked the grant
    due,        \* the newest access token inside its refresh margin: time passes for all
    refusing,   \* the newest access token the mail server refuses; every older one is, too
    stored,     \* the keyring's two entries
    source,     \* each source: its Held cell, what it has Spent, who has the turn at renewing
    session,    \* where each session is
    renewal,    \* a renewal under way, of a source signing in or a session with the turn
    said,       \* what each was told last, where that concerns the sign-in
    again,      \* history: whether a session presented a refresh token after it was replaced
    twice,      \* history: whether by the source that holds, or was to hold, what replaced it
    replaced,   \* history: of each source, the refresh tokens it replaced so
    mislaid,    \* history: the refresh tokens replaced by an answer that never reached the keyring
    missing,    \* history: the sources the keyring told that the credential is not there
    counts,     \* history: renewals of each open source, for a refusal and for the clock
    faults      \* how many faults have happened

issuer == <<rotates, issued, spent, revoked>>
history == <<again, twice, replaced, mislaid, missing>>
vars == <<issuer, due, refusing, stored, source, session, renewal, said, history, counts, faults>>

Workers == Sources \cup Sessions
Tokens == Nat \ {0}
Credential == [access : Tokens, refresh : Tokens]
First == [access |-> 1, refresh |-> 1]
NoTurn == "free"
Off == [open |-> FALSE, held |-> First, minted |-> 0, refused |-> FALSE, turn |-> NoTurn]
NoRenewal == [at |-> "none", with |-> 0, new |-> First, why |-> "none"]
NoSession == [at |-> "idle", presented |-> 0]
NoCount == [refusal |-> 0, clock |-> 0]
SourceOf(w) == IF w \in Sources THEN w ELSE Of[w]

Init ==
    /\ rotates \in BOOLEAN /\ issued = 1 /\ spent = {} /\ revoked = FALSE
    /\ due = 0 /\ refusing = 0
    /\ stored = [IncomingPassword |-> First, OAuthRefresh |-> First]
    /\ source = [s \in Sources |-> Off]
    /\ session = [x \in Sessions |-> NoSession]
    /\ renewal = [w \in Workers |-> NoRenewal]
    /\ said = [w \in Workers |-> "nothing"]
    /\ again = FALSE /\ twice = FALSE /\ mislaid = {} /\ missing = {}
    /\ replaced = [s \in Sources |-> {}]
    /\ counts = [s \in Sources |-> NoCount] /\ faults = 0

Fault(f) == f \in Faults /\ faults < MaxFaults /\ faults' = faults + 1

-----------------------------------------------------------------------------
(* Around the program.                                                     *)

\* due_refresh, is_due.
Due(t) == t <= due
\* Time: the newest token is inside its margin.
ComesDue ==
    /\ due < issued /\ issued <= MaxStale /\ due' = issued
    /\ UNCHANGED <<issuer, refusing, stored, source, session, renewal, said, history, counts, faults>>
\* The mail server refuses the tokens issued so far, whatever their expiry says, or the next
\* one too.
StartsRefusing ==
    /\ refusing' \in {issued, issued + 1} /\ refusing < refusing' /\ refusing' <= MaxStale
    /\ UNCHANGED <<issuer, due, stored, source, session, renewal, said, history, counts, faults>>
\* The person, or an administrator, withdraws the grant.
Withdrawn ==
    /\ ~revoked /\ Fault("withdrawn") /\ revoked' = TRUE
    /\ UNCHANGED <<rotates, issued, spent, due, refusing, stored, source, session, renewal, said, history, counts>>

-----------------------------------------------------------------------------
(* A renewal: refresh, then both entries of the keyring.                   *)

Renew(w, refresh, why) ==
    renewal' = [renewal EXCEPT ![w] = [at |-> "ask", with |-> refresh, new |-> First, why |-> why]]
Renewing(w, stage) == renewal[w].at = stage
Step(w, stage) == renewal' = [renewal EXCEPT ![w].at = stage]

\* The issuer's answer to a refresh token it holds good: a new access token, and a new refresh
\* token in place of it or none, when it is carried through.
Mints(w, stage) ==
    /\ ~revoked /\ renewal[w].with \notin spent
    /\ issued' = issued + 1
    /\ spent' = IF rotates THEN spent \cup {renewal[w].with} ELSE spent
    /\ renewal' = [renewal EXCEPT ![w].at = stage,
          ![w].new = [access |-> issued + 1, refresh |-> IF rotates THEN issued + 1 ELSE renewal[w].with]]
    /\ UNCHANGED <<rotates, revoked>>
\* It takes the second spend of one it replaced as theft, and revokes the sign-in.
RefusesGrant(w) ==
    /\ revoked \/ renewal[w].with \in spent
    /\ revoked' = TRUE /\ Step(w, "reauth") /\ UNCHANGED <<rotates, issued, spent>>

\* What the histories make of a renewal: its answer is here; it is refused; ...
Arrives(w) ==
    /\ replaced' = IF rotates THEN [replaced EXCEPT ![SourceOf(w)] = @ \cup {renewal[w].with}] ELSE replaced
    /\ UNCHANGED <<again, twice, mislaid, missing>>
Presented(w) ==
    /\ again' = (again \/ (w \in Sessions /\ renewal[w].with \in spent))
    /\ twice' = (twice \/ renewal[w].with \in replaced[SourceOf(w)])
    /\ UNCHANGED <<replaced, mislaid, missing>>
\* ... it comes to nothing, before its answer reached the keyring or after.
Mislaid(w) ==
    /\ mislaid' = IF renewal[w].at \in {"put2", "kept"} THEN mislaid ELSE mislaid \cup {renewal[w].with}
    /\ replaced' = [replaced EXCEPT ![SourceOf(w)] = @ \ {renewal[w].with}]
    /\ UNCHANGED <<again, twice>>

Ask(w) ==
    /\ Renewing(w, "ask")
    /\ \/ Mints(w, "put1") /\ Arrives(w) /\ UNCHANGED faults
       \/ RefusesGrant(w) /\ Presented(w) /\ UNCHANGED faults
       \/ Fault("lost") /\ Mints(w, "failed") /\ Mislaid(w) /\ UNCHANGED missing
       \/ Fault("unreachable") /\ Step(w, "failed") /\ UNCHANGED <<issuer, history>>
    /\ UNCHANGED <<due, refusing, stored, source, session, said, counts>>

\* Mutation: only the entry the browser flow wrote is kept.
PutRefreshOnly(w) ==
    /\ renewal[w].at \in {"put1", "put2"}
    /\ stored' = [stored EXCEPT !.OAuthRefresh = renewal[w].new]
    /\ Step(w, IF Renewing(w, "put1") THEN "put2" ELSE "kept") /\ UNCHANGED <<faults, history>>
    /\ UNCHANGED <<issuer, due, refusing, source, session, said, counts>>
\* renew_incoming: IncomingPassword, then OAuthRefresh.  A keyring that does not answer is waited
\* for; one that knows no such entry is told as a credential to be asked for again.
Put(w) ==
    /\ renewal[w].at \in {"put1", "put2"}
    /\ \/ /\ stored' = [stored EXCEPT ![IF Renewing(w, "put1") THEN "IncomingPassword"
                                        ELSE "OAuthRefresh"] = renewal[w].new]
          /\ Step(w, IF Renewing(w, "put1") THEN "put2" ELSE "kept") /\ UNCHANGED <<faults, history>>
       \/ Fault("keyring") /\ Step(w, "failed") /\ Mislaid(w) /\ UNCHANGED <<stored, missing>>
       \/ /\ Fault("absent") /\ Step(w, "reauth") /\ Mislaid(w)
          /\ missing' = missing \cup {SourceOf(w)} /\ UNCHANGED stored
    /\ UNCHANGED <<issuer, due, refusing, source, session, said, counts>>

-----------------------------------------------------------------------------
(* A source.                                                               *)

Says(w, what) == said' = [said EXCEPT ![w] = what]
Opened(s, cred) == source' = [source EXCEPT ![s] = [Off EXCEPT !.open = TRUE, !.held = cred]]

\* signed_in: stored_credential, renewed first where it is due.
SignIn(s) ==
    /\ ~source[s].open /\ renewal[s] = NoRenewal
    /\ IF Due(stored.IncomingPassword.access)
       THEN Renew(s, stored.IncomingPassword.refresh, "sign-in") /\ UNCHANGED <<source, counts>>
       ELSE /\ Opened(s, stored.IncomingPassword) /\ UNCHANGED renewal
            /\ counts' = [counts EXCEPT ![s] = NoCount]
    /\ UNCHANGED <<issuer, due, refusing, stored, session, said, history, faults>>
\* The keyring did not answer, or has no such entry.
SignInUnread(s) ==
    /\ ~source[s].open /\ renewal[s] = NoRenewal
    /\ \/ Fault("keyring") /\ Says(s, "nothing") /\ UNCHANGED missing
       \/ Fault("absent") /\ Says(s, "reauth") /\ missing' = missing \cup {s}
    /\ UNCHANGED <<issuer, due, refusing, stored, source, session, renewal, again, twice, replaced, mislaid, counts>>
SignedIn(s) ==
    /\ renewal[s].at \in {"kept", "failed", "reauth"}
    /\ renewal' = [renewal EXCEPT ![s] = NoRenewal]
    /\ IF Renewing(s, "kept")
       THEN Opened(s, renewal[s].new) /\ counts' = [counts EXCEPT ![s] = NoCount] /\ UNCHANGED said
       ELSE Says(s, IF Renewing(s, "reauth") THEN "reauth" ELSE "nothing") /\ UNCHANGED <<source, counts>>
    /\ UNCHANGED <<issuer, due, refusing, stored, session, history, faults>>
\* The pass or the watch is over: each session holds the source, and none is left.
Close(s) ==
    /\ source[s].open /\ \A x \in Sessions : Of[x] = s => session[x] = NoSession
    /\ source' = [source EXCEPT ![s] = Off]
    /\ replaced' = [replaced EXCEPT ![s] = {}]
    /\ UNCHANGED <<issuer, due, refusing, stored, session, renewal, said, again, twice, mislaid, missing, counts, faults>>

\* The process ends and starts again.  An end at "ask" is one before the issuer took the refresh
\* token up; "ends": one after it did, with the answer on its way or not yet kept.
Restart ==
    /\ \/ (\A w \in Workers : renewal[w].at \notin {"put1", "put2"}) /\ UNCHANGED faults
       \/ Fault("ends")
    /\ source' = [s \in Sources |-> Off]
    /\ session' = [x \in Sessions |-> NoSession]
    /\ renewal' = [w \in Workers |-> NoRenewal]
    /\ mislaid' = mislaid \cup {renewal[w].with : w \in {v \in Workers : Renewing(v, "put1")}}
    /\ replaced' = [s \in Sources |-> {}]
    /\ UNCHANGED <<issuer, due, refusing, stored, said, again, twice, missing, counts>>

-----------------------------------------------------------------------------
(* A session's operation: run_leaving.                                     *)

In(x, stage) == session[x].at = stage
Goto(x, stage) == session' = [session EXCEPT ![x].at = stage]
Ended(x, what) == session' = [session EXCEPT ![x] = NoSession] /\ Says(x, what)
Mine(x) == source[Of[x]]

Begin(x) ==
    /\ Mine(x).open /\ In(x, "idle") /\ Goto(x, "ahead")
    /\ UNCHANGED <<issuer, due, refusing, stored, source, renewal, said, history, counts, faults>>

\* Mutation: a renewal does not wait for the one under way.
FreeAlways(x) == TRUE
\* OAuthTokens::renewing.
Free(x) == Mine(x).turn = NoTurn

Turn(x, why) ==
    /\ source' = [source EXCEPT ![Of[x]].turn = x]
    /\ Renew(x, Mine(x).held.refresh, why)
    /\ UNCHANGED <<session, said>>

\* ahead_of: renewed if it is due when the turn comes.
AheadOf(x) ==
    /\ In(x, "ahead") /\ renewal[x] = NoRenewal /\ Free(x)
    /\ \/ Mine(x).refused /\ Ended(x, "reauth") /\ UNCHANGED <<source, renewal>>
       \/ ~Mine(x).refused /\ Due(Mine(x).held.access) /\ Turn(x, "clock")
       \/ /\ ~Mine(x).refused /\ ~Due(Mine(x).held.access)
          /\ Goto(x, "present") /\ UNCHANGED <<source, renewal, said>>
    /\ UNCHANGED <<issuer, due, refusing, stored, history, counts, faults>>

\* run_once, presenting what Held has when it connects; one refused after a renewal is
\* refused_fresh.
Present(x) ==
    /\ session[x].at \in {"present", "again"}
    /\ LET t == Mine(x).held.access
       IN  IF t > refusing THEN Ended(x, "nothing")
           ELSE IF In(x, "again") THEN Ended(x, "fresh")
           ELSE session' = [session EXCEPT ![x] = [at |-> "refused", presented |-> t]] /\ UNCHANGED said
    /\ UNCHANGED <<issuer, due, refusing, stored, source, renewal, history, counts, faults>>

\* Mutation: a refusal of a token minted for a refusal asks the person to sign in.
StillRefusedSignsOut(x) == Ended(x, "reauth")
\* AfterRefusal::StillRefused, said as refused_fresh.
StillRefused(x) == Ended(x, "fresh")

\* after_refused: renewed once, unless what is held was minted for a refusal already.
AfterRefused(x) ==
    /\ In(x, "refused") /\ renewal[x] = NoRenewal /\ Free(x)
    /\ \/ Mine(x).refused /\ Ended(x, "reauth") /\ UNCHANGED <<source, renewal>>
       \/ /\ ~Mine(x).refused /\ Mine(x).held.access = Mine(x).minted
          /\ StillRefused(x) /\ UNCHANGED <<source, renewal>>
       \/ ~Mine(x).refused /\ Mine(x).held.access # Mine(x).minted /\ Turn(x, "refusal")
    /\ UNCHANGED <<issuer, due, refusing, stored, history, counts, faults>>

\* Mutation: what a refusal minted is not remembered.
RenewedForgotten(x) ==
    /\ Renewing(x, "kept")
    /\ renewal' = [renewal EXCEPT ![x] = NoRenewal]
    /\ source' = [source EXCEPT ![Of[x]] = [@ EXCEPT !.held = renewal[x].new, !.turn = NoTurn]]
    /\ counts' = [counts EXCEPT ![Of[x]][renewal[x].why] = @ + 1]
    /\ Goto(x, IF renewal[x].why = "refusal" THEN "again" ELSE "present")
    /\ UNCHANGED <<issuer, due, refusing, stored, said, history, faults>>
\* The end of ahead_of or after_refused: the new token is held, and the turn given up; ...
Renewed(x) ==
    /\ Renewing(x, "kept")
    /\ renewal' = [renewal EXCEPT ![x] = NoRenewal]
    /\ LET refusal == renewal[x].why = "refusal"
       IN  /\ source' = [source EXCEPT
                ![Of[x]].held = renewal[x].new, ![Of[x]].turn = NoTurn,
                ![Of[x]].minted = IF refusal THEN renewal[x].new.access ELSE @]
           /\ counts' = [counts EXCEPT ![Of[x]][renewal[x].why] = @ + 1]
           /\ Goto(x, IF refusal THEN "again" ELSE "present")
    /\ UNCHANGED <<issuer, due, refusing, stored, said, history, faults>>
\* Mutation: a renewal that failed keeps the turn.
NotRenewedHolds(x) ==
    /\ renewal[x].at \in {"failed", "reauth"}
    /\ renewal' = [renewal EXCEPT ![x] = NoRenewal]
    /\ source' = [source EXCEPT ![Of[x]].refused = @ \/ Renewing(x, "reauth")]
    /\ Ended(x, IF Renewing(x, "reauth") THEN "reauth" ELSE "nothing")
    /\ UNCHANGED <<issuer, due, refusing, stored, history, counts, faults>>
\* ... or it failed, and judge remembers the issuer's own refusal.
NotRenewed(x) ==
    /\ renewal[x].at \in {"failed", "reauth"}
    /\ renewal' = [renewal EXCEPT ![x] = NoRenewal]
    /\ source' = [source EXCEPT ![Of[x]].turn = NoTurn,
                                ![Of[x]].refused = @ \/ Renewing(x, "reauth")]
    /\ Ended(x, IF Renewing(x, "reauth") THEN "reauth" ELSE "nothing")
    /\ UNCHANGED <<issuer, due, refusing, stored, history, counts, faults>>

\* wait_on_each lets go of the inbox's session once a folder's has heard mail, and of a folder's
\* that is still busy when the wait is wound down, wherever it is: the turn is given up with it,
\* and the issuer's answer, if there was one, is lost.
LetGo(x) ==
    /\ ~In(x, "idle") /\ Fault("dropped")
    /\ session' = [session EXCEPT ![x] = NoSession]
    /\ renewal' = [renewal EXCEPT ![x] = NoRenewal]
    /\ source' = [source EXCEPT ![Of[x]].turn = IF @ = x THEN NoTurn ELSE @]
    /\ IF renewal[x].at \in {"put1", "put2", "kept"} THEN Mislaid(x) ELSE UNCHANGED <<again, twice, replaced, mislaid>>
    /\ UNCHANGED <<issuer, due, refusing, stored, said, missing, counts>>

-----------------------------------------------------------------------------
Goes(w) == Ask(w) \/ Put(w)
Operates(x) == AheadOf(x) \/ Present(x) \/ AfterRefused(x) \/ Renewed(x) \/ NotRenewed(x)

Next ==
    \/ ComesDue \/ StartsRefusing \/ Withdrawn \/ Restart
    \/ \E w \in Workers : Goes(w)
    \/ \E s \in Sources : SignIn(s) \/ SignInUnread(s) \/ SignedIn(s) \/ Close(s)
    \/ \E x \in Sessions : Begin(x) \/ Operates(x) \/ LetGo(x)

Spec == Init /\ [][Next]_vars
\* What has begun goes on; the turn is a fair one (tokio's Mutex serves in order).
FairSpec ==
    /\ Spec
    /\ \A w \in Workers : WF_vars(Goes(w))
    /\ \A s \in Sources : WF_vars(SignedIn(s))
    /\ \A x \in Sessions : SF_vars(Operates(x))

-----------------------------------------------------------------------------
(* Properties.                                                             *)

\* The issuer, the keyring and every source and session keep their types; a session renews only
\* while it has the turn (OAuthTokens::renewing).
TypeOK ==
    /\ rotates \in BOOLEAN /\ issued \in Tokens /\ spent \subseteq Tokens /\ revoked \in BOOLEAN
    /\ due \in 0..MaxStale /\ refusing \in 0..MaxStale
    /\ stored \in [{"IncomingPassword", "OAuthRefresh"} -> Credential]
    /\ source \in [Sources -> [open : BOOLEAN, held : Credential, minted : Tokens \cup {0},
                               refused : BOOLEAN, turn : Sessions \cup {NoTurn}]]
    /\ session \in [Sessions -> [at : {"idle", "ahead", "present", "refused", "again"},
                                 presented : Tokens \cup {0}]]
    /\ renewal \in [Workers -> [at : {"none", "ask", "put1", "put2", "kept", "failed", "reauth"},
                                with : Tokens \cup {0}, new : Credential,
                                why : {"none", "sign-in", "clock", "refusal"}]]
    /\ said \in [Workers -> {"nothing", "fresh", "reauth"}]
    /\ again \in BOOLEAN /\ twice \in BOOLEAN /\ replaced \in [Sources -> SUBSET Tokens]
    /\ mislaid \subseteq Tokens \cup {0} /\ missing \subseteq Sources
    /\ counts \in [Sources -> [refusal : Nat, clock : Nat]] /\ faults \in 0..MaxFaults
    /\ \A x \in Sessions : renewal[x].at # "none" => Mine(x).turn = x

\* The sessions of one source, however they find their token due or refused at once, whichever of
\* them is dropped and whatever fails, never present a refresh token again once the source holds
\* what replaced it or waits for the keyring to keep it: the issuer would take that as theft.
\* A renewal that came to nothing is tried again with what is held (judge).
SpentOnce == ~twice

\* The sessions of a source spend each refresh token once (OAuthTokens::renewing), whatever became
\* of the issuer's answer.
NeverAgain == ~again

\* The refresh token the next process signs in with is one the issuer has replaced only while a
\* renewal is on its way to the keyring with what replaced it, or where that was lost before the
\* first put: to the network, the keyring, a dropped operation or the end of the process.  No
\* second source writes an older one over a newer (renew_incoming).
StoredGood ==
    LET r == stored.IncomingPassword.refresh
    IN  r \in spent => r \in mislaid \/ \E w \in Workers : Renewing(w, "put1") /\ renewal[w].with = r

\* The person is asked to sign in again only where the issuer refuses the grant, or the keyring
\* has told this source that the credential is not there: not for an issuer that is away, a
\* keyring that does not answer, a dropped operation, or a server that refuses every token.
AskedRightly == \A w \in Workers : said[w] = "reauth" => revoked \/ SourceOf(w) \in missing

\* A server that refuses every token costs an open source one renewal, and one more for each
\* that the clock asks for.
NoLoop == \A s \in Sources : counts[s].refusal <= counts[s].clock + 1

\* Every operation ends, whoever has the turn.
Answered == \A x \in Sessions : session[x].at # "idle" ~> session[x].at = "idle"

\* StillRefused says of the token the session presented that it was minted for a refusal.
RefusedItsOwn == [][\A x \in Sessions :
    In(x, "refused") /\ session'[x].at = "idle" /\ said'[x] = "fresh"
        => session[x].presented = Mine(x).minted]_vars
=============================================================================
