---------------------------- MODULE TokensProofs ----------------------------
(***************************************************************************)
(* What the token source promises, for any number of sources and sessions: *)
(* its types, who has the turn at renewing, that a person is asked to sign *)
(* in only when the issuer or the keyring says so, that a refusal does not *)
(* loop, that a source does not present again what it has replaced, and    *)
(* that the keyring falls behind the issuer only where an answer was lost. *)
(***************************************************************************)
EXTENDS Tokens, TLAPS

RenewalStages == {"none", "ask", "put1", "put2", "kept", "failed", "reauth"}
RenewalType == [at : RenewalStages, with : Tokens \cup {0}, new : Credential,
                why : {"none", "sign-in", "clock", "refusal"}]
SourceType == [open : BOOLEAN, held : Credential, minted : Tokens \cup {0},
               refused : BOOLEAN, turn : Sessions \cup {NoTurn}]
SessionStages == {"idle", "ahead", "present", "refused", "again"}
SessionType == [at : SessionStages, presented : Tokens \cup {0}]
CountType == [refusal : Nat, clock : Nat]

\* The types alone, each under a name.
Types ==
    /\ issued \in Tokens /\ spent \subseteq Tokens /\ revoked \in BOOLEAN
    /\ due \in 0..MaxStale /\ refusing \in 0..MaxStale
    /\ stored \in [{"IncomingPassword", "OAuthRefresh"} -> Credential]
    /\ source \in [Sources -> SourceType]
    /\ session \in [Sessions -> SessionType]
    /\ renewal \in [Workers -> RenewalType]
    /\ said \in [Workers -> {"nothing", "fresh", "reauth"}]
    /\ counts \in [Sources -> CountType] /\ faults \in 0..MaxFaults

\* A session works only on an open source; a renewal under way is of a source that is not open
\* yet, or of a session that has the turn and waits in `ahead_of' or `after_refused' for it.
TurnInv ==
    /\ \A w \in Workers : renewal[w].at = "ask" => renewal[w].with \in Tokens
    /\ \A x \in Sessions : session[x] # NoSession => source[Of[x]].open
    /\ \A s \in Sources : renewal[s].at # "none" => ~source[s].open
    /\ \A x \in Sessions : renewal[x].at # "none" =>
          /\ source[Of[x]].turn = x
          /\ \/ session[x].at = "ahead" /\ renewal[x].why = "clock"
             \/ session[x].at = "refused" /\ renewal[x].why = "refusal"

\* Whoever was told, or is about to be told, to sign in again has it from the issuer or the keyring.
Refused(s) == revoked \/ s \in missing
AskInv ==
    /\ \A w \in Workers : said[w] = "reauth" => Refused(SourceOf(w))
    /\ \A w \in Workers : renewal[w].at = "reauth" => Refused(SourceOf(w))
    /\ \A s \in Sources : source[s].refused => Refused(s)

Inv == Types /\ TurnInv /\ AskInv

\* A renewal for a refusal is begun only where what is held was not minted for one, and leaves
\* what is held minted for one until the clock asks for the next.
LoopInv ==
    /\ \A s \in Sources : counts[s].refusal <= counts[s].clock + 1
    /\ \A s \in Sources : source[s].open =>
          counts[s].refusal <= counts[s].clock \/ source[s].held.access = source[s].minted
    /\ \A x \in Sessions : renewal[x].at # "none" /\ renewal[x].why = "refusal" =>
          source[Of[x]].held.access # source[Of[x]].minted

\* The histories keep their types.
Histories ==
    /\ rotates \in BOOLEAN /\ again \in BOOLEAN /\ twice \in BOOLEAN
    /\ replaced \in [Sources -> SUBSET Tokens]
    /\ mislaid \subseteq Tokens \cup {0} /\ missing \subseteq Sources

LEMMA TypesAre ==
    TypeOK <=> Types /\ Histories /\ \A x \in Sessions : renewal[x].at # "none" => source[Of[x]].turn = x
BY DEF TypeOK, Types, Histories, RenewalType, RenewalStages, SourceType, SessionType, SessionStages, CountType, Mine

\* The values the initial state and the ends of operations are made of.
LEMMA Values ==
    /\ First \in Credential /\ Off \in SourceType /\ NoRenewal \in RenewalType
    /\ NoSession \in SessionType /\ NoCount \in CountType
    /\ NoRenewal.at = "none" /\ NoSession.at = "idle" /\ ~Off.open /\ ~Off.refused
BY DEF First, Credential, Tokens, Off, SourceType, NoRenewal, RenewalType, RenewalStages, NoSession,
    SessionType, SessionStages, NoCount, CountType

LEMMA AreWorkers == Sources \subseteq Workers /\ Sessions \subseteq Workers /\ Of \in [Sessions -> Sources]
BY TokensAssumption DEF Workers

LEMMA SourceIs ==
    /\ \A w \in Workers : SourceOf(w) \in Sources
    /\ \A x \in Sessions : SourceOf(x) = Of[x]
    /\ \A s \in Sources : SourceOf(s) = s
BY TokensAssumption DEF Workers, SourceOf

LEMMA InitInv == Init => Inv
<1> SUFFICES ASSUME Init PROVE Inv
    OBVIOUS
<1>1. stored \in [{"IncomingPassword", "OAuthRefresh"} -> Credential]
    BY Values DEF Init
<1>2. /\ issued \in Tokens /\ spent \subseteq Tokens /\ due \in 0..MaxStale
      /\ refusing \in 0..MaxStale /\ faults \in 0..MaxFaults
    BY TokensAssumption DEF Init, Tokens
<1>4. /\ revoked \in BOOLEAN
      /\ source \in [Sources -> SourceType] /\ session \in [Sessions -> SessionType]
      /\ renewal \in [Workers -> RenewalType] /\ counts \in [Sources -> CountType]
      /\ said \in [Workers -> {"nothing", "fresh", "reauth"}]
    BY Values DEF Init
<1>3. TurnInv /\ AskInv
    BY Values, AreWorkers DEF Init, TurnInv, AskInv
<1> QED
    BY <1>1, <1>2, <1>3, <1>4 DEF Inv, Types

\* What a step of one worker's renewal leaves alone.
LEMMA StepFacts ==
    ASSUME renewal \in [Workers -> RenewalType], NEW w \in Workers, NEW stage \in RenewalStages,
           Step(w, stage)
    PROVE  /\ renewal' \in [Workers -> RenewalType]
           /\ renewal'[w].at = stage /\ renewal'[w].why = renewal[w].why
           /\ renewal'[w].new = renewal[w].new /\ renewal'[w].with = renewal[w].with
           /\ \A v \in Workers : v # w => renewal'[v] = renewal[v]
BY DEF Step, RenewalType

LEMMA MintsFacts ==
    ASSUME Types, NEW w \in Workers, NEW stage \in RenewalStages, Mints(w, stage),
           renewal[w].with \in Tokens
    PROVE  /\ renewal' \in [Workers -> RenewalType]
           /\ renewal'[w].at = stage /\ renewal'[w].why = renewal[w].why
           /\ renewal'[w].new.access = issued + 1
           /\ renewal'[w].with = renewal[w].with
           /\ renewal'[w].new.refresh = IF rotates THEN issued + 1 ELSE renewal[w].with
           /\ spent' = IF rotates THEN spent \cup {renewal[w].with} ELSE spent
           /\ \A v \in Workers : v # w => renewal'[v] = renewal[v]
           /\ issued' = issued + 1 /\ issued' \in Tokens /\ spent' \subseteq Tokens
           /\ UNCHANGED <<revoked, rotates>> /\ renewal[w].with \notin spent
<1> DEFINE r == IF rotates THEN issued + 1 ELSE renewal[w].with
           c == [access |-> issued + 1, refresh |-> r]
<1>1. /\ renewal' = [renewal EXCEPT ![w].at = stage, ![w].new = c]
      /\ spent' = IF rotates THEN spent \cup {renewal[w].with} ELSE spent
    BY DEF Mints
<1>2. issued \in Nat /\ issued + 1 \in Tokens /\ spent \subseteq Tokens
    BY DEF Types, Tokens
<1>3. r \in Tokens /\ c \in Credential /\ c.access = issued + 1 /\ c.refresh = r
    BY <1>2 DEF Credential
<1>4. renewal \in [Workers -> RenewalType]
    BY DEF Types
<1> HIDE DEF c
<1>5. /\ renewal' \in [Workers -> RenewalType]
      /\ renewal'[w].at = stage /\ renewal'[w].why = renewal[w].why
      /\ renewal'[w].new = c /\ renewal'[w].with = renewal[w].with
      /\ \A v \in Workers : v # w => renewal'[v] = renewal[v]
    BY <1>1, <1>3, <1>4 DEF RenewalType
<1>6. issued' = issued + 1 /\ UNCHANGED <<revoked, rotates>> /\ renewal[w].with \notin spent
    BY DEF Mints
<1> QED
    BY <1>1, <1>2, <1>3, <1>5, <1>6

\* A renewal that goes on from one stage to a later one keeps the turn.
LEMMA TurnGoesOn ==
    ASSUME TurnInv, UNCHANGED <<source, session>>, NEW w \in Workers, renewal[w].at # "none",
           renewal'[w].at # "ask", renewal'[w].why = renewal[w].why,
           \A v \in Workers : v # w => renewal'[v] = renewal[v]
    PROVE  TurnInv'
BY AreWorkers DEF TurnInv

LEMMA AskKeeps == ASSUME NEW w \in Workers, Inv, Ask(w) PROVE Inv'
<1>0. /\ renewal[w].at = "ask" /\ renewal[w].with \in Tokens /\ Types /\ TurnInv /\ AskInv
      /\ UNCHANGED <<due, refusing, stored, source, session, said, counts>>
    BY DEF Ask, Inv, TurnInv, Renewing
<1>s. \A stage \in {"put1", "reauth", "failed"} : stage \in RenewalStages
    BY DEF RenewalStages
<1>1. ASSUME NEW stage \in {"put1", "failed"}, Mints(w, stage), UNCHANGED missing, faults' \in 0..MaxFaults
      PROVE  Inv'
    <2>1. Types'
        BY <1>0, <1>1, <1>s, MintsFacts DEF Types
    <2>2. TurnInv'
        BY <1>0, <1>1, <1>s, MintsFacts, TurnGoesOn
    <2>3. AskInv'
        BY <1>0, <1>1, <1>s, MintsFacts DEF AskInv, Refused
    <2> QED
        BY <2>1, <2>2, <2>3 DEF Inv
<1>2. ASSUME NEW stage \in {"reauth", "failed"}, Step(w, stage), UNCHANGED <<issued, spent>>,
             revoked' \in BOOLEAN, revoked => revoked', UNCHANGED missing,
             stage = "reauth" => revoked', faults' \in 0..MaxFaults
      PROVE  Inv'
    <2>0. renewal \in [Workers -> RenewalType]
        BY <1>0 DEF Types
    <2>1. Types'
        BY <1>0, <1>2, <1>s, <2>0, StepFacts DEF Types
    <2>2. TurnInv'
        BY <1>0, <1>2, <1>s, <2>0, StepFacts, TurnGoesOn
    <2>3. AskInv'
        BY <1>0, <1>2, <1>s, <2>0, StepFacts DEF AskInv, Refused
    <2> QED
        BY <2>1, <2>2, <2>3 DEF Inv
<1>3. faults' \in 0..MaxFaults
    BY <1>0, TokensAssumption DEF Ask, Fault, Types
<1>4. CASE (Mints(w, "put1") \/ Mints(w, "failed")) /\ UNCHANGED missing
    BY <1>1, <1>3, <1>4
<1>5. CASE RefusesGrant(w) /\ UNCHANGED missing
    BY <1>0, <1>2, <1>3, <1>5 DEF RefusesGrant, Types
<1>6. CASE Step(w, "failed") /\ UNCHANGED <<issuer, history>>
    BY <1>0, <1>2, <1>3, <1>6 DEF issuer, history, Types
<1> QED
    BY <1>4, <1>5, <1>6 DEF Ask, Arrives, Presented

LEMMA PutKeeps == ASSUME NEW w \in Workers, Inv, Put(w) PROVE Inv'
<1>0. /\ Types /\ TurnInv /\ AskInv /\ renewal[w].at \in {"put1", "put2"}
      /\ UNCHANGED <<issued, spent, revoked, due, refusing, source, session, said, counts>>
    BY DEF Put, Inv, issuer, history
<1>1. PICK stage \in {"put2", "kept", "failed", "reauth"} :
          /\ Step(w, stage) /\ missing \subseteq missing'
          /\ stage = "reauth" => SourceOf(w) \in missing'
    BY DEF Put, Renewing, history
<1>2. renewal \in [Workers -> RenewalType] /\ stage \in RenewalStages /\ renewal[w].new \in Credential
    BY <1>0 DEF Types, RenewalStages, RenewalType
<1>3. stored' \in [{"IncomingPassword", "OAuthRefresh"} -> Credential]
    BY <1>0, <1>2 DEF Put, Types
<1>4. faults' \in 0..MaxFaults
    BY <1>0, TokensAssumption DEF Put, Fault, Types
<1>5. Types'
    BY <1>0, <1>1, <1>2, <1>3, <1>4, StepFacts DEF Types
<1>6. TurnInv'
    BY <1>0, <1>1, <1>2, StepFacts, TurnGoesOn
<1>7. AskInv'
    BY <1>0, <1>1, <1>2, StepFacts DEF AskInv, Refused
<1> QED
    BY <1>5, <1>6, <1>7 DEF Inv

LEMMA RenewFacts ==
    ASSUME Types, NEW w \in Workers, NEW refresh \in Tokens, NEW why \in {"sign-in", "clock", "refusal"},
           Renew(w, refresh, why)
    PROVE  /\ renewal' \in [Workers -> RenewalType]
           /\ renewal'[w].at = "ask" /\ renewal'[w].with = refresh /\ renewal'[w].why = why
           /\ \A v \in Workers : v # w => renewal'[v] = renewal[v]
<1> DEFINE r == [at |-> "ask", with |-> refresh, new |-> First, why |-> why]
<1>1. r \in RenewalType
    BY Values DEF RenewalType, RenewalStages
<1>2. renewal \in [Workers -> RenewalType] /\ renewal' = [renewal EXCEPT ![w] = r]
    BY DEF Types, Renew
<1> QED
    BY <1>1, <1>2

LEMMA OpenedFacts ==
    ASSUME Types, NEW s \in Sources, NEW cred \in Credential, Opened(s, cred)
    PROVE  /\ source' \in [Sources -> SourceType]
           /\ source'[s].open /\ ~source'[s].refused /\ source'[s].held = cred
           /\ source'[s].minted = 0 /\ source'[s].turn = NoTurn
           /\ \A t \in Sources : t # s => source'[t] = source[t]
<1> DEFINE r == [Off EXCEPT !.open = TRUE, !.held = cred]
<1>1. r \in SourceType /\ r.open /\ ~r.refused /\ r.held = cred /\ r.minted = 0 /\ r.turn = NoTurn
    BY DEF Off, SourceType
<1>2. source \in [Sources -> SourceType] /\ source' = [source EXCEPT ![s] = r]
    BY DEF Types, Opened
<1> QED
    BY <1>1, <1>2

\* A worker without a renewal is not renewing, and no session works on a source that is not open.
LEMMA SignInKeeps == ASSUME NEW s \in Sources, Inv, SignIn(s) PROVE Inv'
<1>0. /\ Types /\ TurnInv /\ AskInv /\ s \in Workers /\ ~source[s].open /\ renewal[s].at = "none"
      /\ UNCHANGED <<issued, spent, revoked, due, refusing, stored, session, said, missing, faults>>
    BY AreWorkers, Values DEF SignIn, Inv, issuer, history
<1>1. stored.IncomingPassword \in Credential /\ stored.IncomingPassword.refresh \in Tokens
    BY <1>0 DEF Types, Credential
<1>2. CASE Renew(s, stored.IncomingPassword.refresh, "sign-in") /\ UNCHANGED <<source, counts>>
    <2>1. Types'
        BY <1>0, <1>1, <1>2, RenewFacts DEF Types
    <2>2. TurnInv'
        BY <1>0, <1>1, <1>2, RenewFacts, AreWorkers, TokensAssumption DEF TurnInv
    <2>3. AskInv'
        BY <1>0, <1>1, <1>2, RenewFacts DEF AskInv, Refused
    <2> QED
        BY <2>1, <2>2, <2>3 DEF Inv
<1>3. CASE /\ Opened(s, stored.IncomingPassword) /\ UNCHANGED renewal
           /\ counts' = [counts EXCEPT ![s] = NoCount]
    <2>1. Types'
        BY <1>0, <1>1, <1>3, OpenedFacts, Values DEF Types
    <2>2. TurnInv'
        BY <1>0, <1>1, <1>3, OpenedFacts, AreWorkers, Values DEF TurnInv
    <2>3. AskInv'
        BY <1>0, <1>1, <1>3, OpenedFacts DEF AskInv, Refused
    <2> QED
        BY <2>1, <2>2, <2>3 DEF Inv
<1> QED
    BY <1>2, <1>3 DEF SignIn

LEMMA SignedInKeeps == ASSUME NEW s \in Sources, Inv, SignedIn(s) PROVE Inv'
<1>0. /\ Types /\ TurnInv /\ AskInv /\ s \in Workers /\ renewal[s].at \in {"kept", "failed", "reauth"}
      /\ UNCHANGED <<issued, spent, revoked, due, refusing, stored, session, missing, faults>>
    BY AreWorkers DEF SignedIn, Inv, issuer, history
<1>1. /\ renewal' \in [Workers -> RenewalType] /\ renewal'[s].at = "none"
      /\ \A v \in Workers : v # s => renewal'[v] = renewal[v]
    BY <1>0, Values DEF SignedIn, Types
<1>2. renewal[s].new \in Credential /\ ~source[s].open
    BY <1>0 DEF Types, RenewalType, TurnInv
<1>3. CASE /\ Opened(s, renewal[s].new) /\ counts' = [counts EXCEPT ![s] = NoCount] /\ UNCHANGED said
    <2>1. Types'
        BY <1>0, <1>1, <1>2, <1>3, OpenedFacts, Values DEF Types
    <2>2. TurnInv'
        BY <1>0, <1>1, <1>2, <1>3, OpenedFacts, AreWorkers, Values, TokensAssumption DEF TurnInv
    <2>3. AskInv'
        BY <1>0, <1>1, <1>2, <1>3, OpenedFacts DEF AskInv, Refused
    <2> QED
        BY <2>1, <2>2, <2>3 DEF Inv
<1>4. CASE /\ Says(s, IF Renewing(s, "reauth") THEN "reauth" ELSE "nothing")
           /\ UNCHANGED <<source, counts>>
    <2>1. Types'
        BY <1>0, <1>1, <1>4 DEF Types, Says
    <2>2. TurnInv'
        BY <1>0, <1>1, <1>4, AreWorkers, TokensAssumption DEF TurnInv
    <2>3. AskInv'
        BY <1>0, <1>1, <1>4 DEF AskInv, Refused, Says, Renewing, Types
    <2> QED
        BY <2>1, <2>2, <2>3 DEF Inv
<1> QED
    BY <1>3, <1>4 DEF SignedIn

LEMMA CloseKeeps == ASSUME NEW s \in Sources, Inv, Close(s) PROVE Inv'
<1>0. /\ Types /\ TurnInv /\ AskInv
      /\ \A x \in Sessions : Of[x] = s => session[x] = NoSession
      /\ UNCHANGED <<issued, spent, revoked, due, refusing, stored, session, renewal, said, missing,
                     counts, faults>>
    BY DEF Close, Inv, issuer, history
<1>1. /\ source' \in [Sources -> SourceType] /\ source'[s] = Off
      /\ \A t \in Sources : t # s => source'[t] = source[t]
    BY <1>0, Values DEF Close, Types
<1>2. Types'
    BY <1>0, <1>1 DEF Types
<1>3. TurnInv'
    BY <1>0, <1>1, AreWorkers, Values DEF TurnInv
<1>4. AskInv'
    BY <1>0, <1>1, Values DEF AskInv, Refused
<1> QED
    BY <1>2, <1>3, <1>4 DEF Inv

LEMMA AroundKeeps == ASSUME Inv, ComesDue \/ StartsRefusing \/ Withdrawn \/ Restart PROVE Inv'
<1>0. Types /\ TurnInv /\ AskInv
    BY DEF Inv
<1>1. ASSUME UNCHANGED <<source, session, renewal, said, missing>>, Types', revoked => revoked' PROVE Inv'
    BY <1>0, <1>1 DEF Inv, TurnInv, AskInv, Refused
<1>2. CASE ComesDue
    BY <1>0, <1>1, <1>2, TokensAssumption DEF ComesDue, Types, issuer, history, Tokens
<1>3. CASE StartsRefusing
    BY <1>0, <1>1, <1>3, TokensAssumption DEF StartsRefusing, Types, issuer, history, Tokens
<1>4. CASE Withdrawn
    BY <1>0, <1>1, <1>4, TokensAssumption DEF Withdrawn, Fault, Types, history
<1>5. CASE Restart
    <2>1. faults' \in 0..MaxFaults
        BY <1>0, <1>5, TokensAssumption DEF Restart, Fault, Types
    <2>2. Types'
        BY <1>0, <1>5, <2>1, Values DEF Restart, Types, issuer
    <2>3. TurnInv' /\ AskInv'
        BY <1>0, <1>5, AreWorkers, Values DEF Restart, TurnInv, AskInv, Refused, issuer, history
    <2> QED
        BY <2>2, <2>3 DEF Inv
<1> QED
    BY <1>2, <1>3, <1>4, <1>5

LEMMA EndedFacts ==
    ASSUME Types, NEW x \in Sessions, NEW what \in {"nothing", "fresh", "reauth"}, Ended(x, what)
    PROVE  /\ session' \in [Sessions -> SessionType] /\ session'[x] = NoSession
           /\ \A y \in Sessions : y # x => session'[y] = session[y]
           /\ said' \in [Workers -> {"nothing", "fresh", "reauth"}] /\ said'[x] = what
           /\ \A v \in Workers : v # x => said'[v] = said[v]
BY AreWorkers, Values DEF Ended, Says, Types

LEMMA GotoFacts ==
    ASSUME Types, NEW x \in Sessions, NEW stage \in SessionStages, Goto(x, stage)
    PROVE  /\ session' \in [Sessions -> SessionType] /\ session'[x].at = stage
           /\ \A y \in Sessions : y # x => session'[y] = session[y]
BY DEF Goto, Types, SessionType

\* A session that is not renewing goes on, or ends: the turn is nobody's business.
LEMMA SessionKeeps ==
    ASSUME Inv, NEW x \in Sessions, renewal[x].at = "none",
           session' \in [Sessions -> SessionType], \A y \in Sessions : y # x => session'[y] = session[y],
           session'[x] = NoSession \/ source[Of[x]].open,
           said' \in [Workers -> {"nothing", "fresh", "reauth"}],
           \A v \in Workers : said'[v] = "reauth" => said[v] = "reauth" \/ (v = x /\ source[Of[x]].refused),
           UNCHANGED <<issued, spent, revoked, due, refusing, stored, source, renewal, missing, counts, faults>>
    PROVE  Inv'
<1>1. Types'
    BY DEF Inv, Types
<1>2. TurnInv'
    BY AreWorkers DEF Inv, TurnInv
<1>3. AskInv'
    BY AreWorkers, SourceIs DEF Inv, AskInv, Refused
<1> QED
    BY <1>1, <1>2, <1>3 DEF Inv

\* A session takes the turn.
LEMMA TurnFacts ==
    ASSUME Types, NEW x \in Sessions, NEW why \in {"clock", "refusal"}, Turn(x, why)
    PROVE  /\ source' \in [Sources -> SourceType] /\ source'[Of[x]].turn = x
           /\ \A s \in Sources : /\ source'[s].open = source[s].open
                                  /\ source'[s].held = source[s].held
                                  /\ source'[s].minted = source[s].minted
                                  /\ source'[s].refused = source[s].refused
           /\ \A s \in Sources : s # Of[x] => source'[s] = source[s]
           /\ renewal' \in [Workers -> RenewalType]
           /\ renewal'[x].at = "ask" /\ renewal'[x].with \in Tokens /\ renewal'[x].why = why
           /\ renewal'[x].with = source[Of[x]].held.refresh
           /\ \A v \in Workers : v # x => renewal'[v] = renewal[v]
           /\ UNCHANGED <<session, said>>
<1>1. /\ source \in [Sources -> SourceType] /\ Of[x] \in Sources
      /\ source' = [source EXCEPT ![Of[x]].turn = x]
    BY AreWorkers DEF Types, Turn
<1>2. source[Of[x]].held.refresh \in Tokens
    BY <1>1 DEF SourceType, Credential
<1>3. /\ source' \in [Sources -> SourceType] /\ source'[Of[x]].turn = x
      /\ \A s \in Sources : s # Of[x] => source'[s] = source[s]
    BY <1>1 DEF SourceType
<1>4. \A s \in Sources : /\ source'[s].open = source[s].open
                          /\ source'[s].held = source[s].held
                          /\ source'[s].minted = source[s].minted
                          /\ source'[s].refused = source[s].refused
    BY <1>1 DEF SourceType
<1>5. Renew(x, source[Of[x]].held.refresh, why) /\ UNCHANGED <<session, said>> /\ x \in Workers
    BY AreWorkers DEF Turn, Mine
<1> QED
    BY <1>2, <1>3, <1>4, <1>5, RenewFacts

LEMMA TurnKeeps ==
    ASSUME Inv, NEW x \in Sessions, NEW why \in {"clock", "refusal"}, Turn(x, why), Free(x),
           session[x].at = IF why = "clock" THEN "ahead" ELSE "refused",
           UNCHANGED <<issued, spent, revoked, due, refusing, stored, missing, counts, faults>>
    PROVE  Inv'
<1>0. Types /\ TurnInv /\ AskInv /\ source[Of[x]].turn = NoTurn /\ NoTurn \notin Sessions
    BY TokensAssumption DEF Inv, Free, Mine, NoTurn
<1>1. Types'
    BY <1>0, TurnFacts DEF Types
<1>2. AskInv'
    BY <1>0, TurnFacts DEF AskInv, Refused
<1>3. TurnInv'
    BY <1>0, TurnFacts, AreWorkers, TokensAssumption DEF TurnInv
<1> QED
    BY <1>1, <1>2, <1>3 DEF Inv

LEMMA BeginKeeps == ASSUME NEW x \in Sessions, Inv, Begin(x) PROVE Inv'
<1>1. "ahead" \in SessionStages /\ Types /\ Goto(x, "ahead") /\ source[Of[x]].open
    BY DEF SessionStages, Inv, Begin, Mine
<1>2. renewal[x].at = "none"
    BY DEF Inv, TurnInv, Begin, In
<1>3. UNCHANGED <<issued, spent, revoked, due, refusing, stored, source, renewal, said, missing, counts, faults>>
    BY DEF Begin, issuer, history
<1> QED
    BY <1>1, <1>2, <1>3, GotoFacts, SessionKeeps DEF Types

LEMMA AheadKeeps == ASSUME NEW x \in Sessions, Inv, AheadOf(x) PROVE Inv'
<1>1. /\ "present" \in SessionStages /\ Types /\ renewal[x].at = "none" /\ session[x].at = "ahead"
      /\ Free(x)
      /\ UNCHANGED <<issued, spent, revoked, due, refusing, stored, missing, counts, faults>>
    BY Values DEF SessionStages, Inv, AheadOf, In, issuer, history
<1>2. source[Of[x]].open
    BY <1>1, Values DEF Inv, TurnInv
<1>3. CASE source[Of[x]].refused /\ Ended(x, "reauth") /\ UNCHANGED <<source, renewal>>
    <2>1. /\ session' \in [Sessions -> SessionType] /\ session'[x] = NoSession
          /\ \A y \in Sessions : y # x => session'[y] = session[y]
          /\ said' \in [Workers -> {"nothing", "fresh", "reauth"}]
          /\ \A v \in Workers : v # x => said'[v] = said[v]
        BY <1>1, <1>3, EndedFacts
    <2> QED
        BY <1>1, <1>3, <2>1, SessionKeeps
<1>4. CASE Turn(x, "clock")
    BY <1>1, <1>4, TurnKeeps
<1>5. CASE Goto(x, "present") /\ UNCHANGED <<source, renewal, said>>
    BY <1>1, <1>2, <1>5, GotoFacts, SessionKeeps DEF Types
<1> QED
    BY <1>3, <1>4, <1>5 DEF AheadOf, Mine

LEMMA PresentKeeps == ASSUME NEW x \in Sessions, Inv, Present(x) PROVE Inv'
<1>1. /\ Types /\ session[x].at \in {"present", "again"} /\ "refused" \in SessionStages
      /\ UNCHANGED <<issued, spent, revoked, due, refusing, stored, source, renewal, missing, counts, faults>>
    BY DEF Inv, Present, issuer, history, SessionStages
<1>2. source[Of[x]].open /\ renewal[x].at = "none"
    BY <1>1, Values DEF Inv, TurnInv
<1>3. CASE Ended(x, "nothing") \/ Ended(x, "fresh")
    <2>1. PICK what \in {"nothing", "fresh"} : Ended(x, what)
        BY <1>3
    <2>2. /\ session' \in [Sessions -> SessionType] /\ session'[x] = NoSession
          /\ \A y \in Sessions : y # x => session'[y] = session[y]
          /\ said' \in [Workers -> {"nothing", "fresh", "reauth"}] /\ said'[x] # "reauth"
          /\ \A v \in Workers : v # x => said'[v] = said[v]
        BY <1>1, <2>1, EndedFacts
    <2> QED
        BY <1>1, <1>2, <2>2, SessionKeeps
<1>4. CASE /\ session' = [session EXCEPT ![x] = [at |-> "refused", presented |-> source[Of[x]].held.access]]
           /\ UNCHANGED said
    <2>1. source[Of[x]].held.access \in Tokens
        BY <1>1, AreWorkers DEF Types, SourceType, Credential
    <2>2. [at |-> "refused", presented |-> source[Of[x]].held.access] \in SessionType
        BY <1>1, <2>1 DEF SessionType
    <2>3. /\ session' \in [Sessions -> SessionType]
          /\ \A y \in Sessions : y # x => session'[y] = session[y]
        BY <1>1, <1>4, <2>2 DEF Types
    <2> QED
        BY <1>1, <1>2, <1>4, <2>3, SessionKeeps DEF Types
<1> QED
    BY <1>3, <1>4 DEF Present, Mine

LEMMA AfterRefusedKeeps == ASSUME NEW x \in Sessions, Inv, AfterRefused(x) PROVE Inv'
<1>1. /\ Types /\ renewal[x].at = "none" /\ session[x].at = "refused" /\ Free(x)
      /\ UNCHANGED <<issued, spent, revoked, due, refusing, stored, missing, counts, faults>>
    BY Values DEF Inv, AfterRefused, In, issuer, history
<1>2. CASE /\ (Ended(x, "reauth") /\ source[Of[x]].refused) \/ Ended(x, "fresh")
           /\ UNCHANGED <<source, renewal>>
    <2>1. PICK what \in {"reauth", "fresh"} : Ended(x, what) /\ (what = "reauth" => source[Of[x]].refused)
        BY <1>2
    <2>2. /\ session' \in [Sessions -> SessionType] /\ session'[x] = NoSession
          /\ \A y \in Sessions : y # x => session'[y] = session[y]
          /\ said' \in [Workers -> {"nothing", "fresh", "reauth"}] /\ said'[x] = what
          /\ \A v \in Workers : v # x => said'[v] = said[v]
        BY <1>1, <2>1, EndedFacts
    <2> QED
        BY <1>1, <1>2, <2>1, <2>2, SessionKeeps
<1>3. CASE Turn(x, "refusal")
    BY <1>1, <1>3, TurnKeeps
<1> QED
    BY <1>2, <1>3 DEF AfterRefused, StillRefused, Mine

\* The end of a renewal: the turn is given up, and nobody else had it.
LEMMA RenewedFacts ==
    ASSUME Inv, NEW x \in Sessions, Renewed(x)
    PROVE  /\ renewal[x].at = "kept" /\ renewal' \in [Workers -> RenewalType] /\ renewal'[x].at = "none"
           /\ \A v \in Workers : v # x => renewal'[v] = renewal[v]
           /\ source' \in [Sources -> SourceType]
           /\ \A s \in Sources : source'[s].open = source[s].open /\ source'[s].refused = source[s].refused
           /\ \A s \in Sources : s # Of[x] => source'[s] = source[s]
           /\ source'[Of[x]].held = renewal[x].new
           /\ source'[Of[x]].minted = IF renewal[x].why = "refusal" THEN renewal[x].new.access
                                      ELSE source[Of[x]].minted
           /\ session' \in [Sessions -> SessionType] /\ session'[x].at \in {"again", "present"}
           /\ \A y \in Sessions : y # x => session'[y] = session[y]
           /\ counts' \in [Sources -> CountType]
           /\ \A s \in Sources : s # Of[x] => counts'[s] = counts[s]
           /\ renewal[x].why = "clock" => /\ counts'[Of[x]].refusal = counts[Of[x]].refusal
                                          /\ counts'[Of[x]].clock = counts[Of[x]].clock + 1
           /\ renewal[x].why = "refusal" => /\ counts'[Of[x]].refusal = counts[Of[x]].refusal + 1
                                            /\ counts'[Of[x]].clock = counts[Of[x]].clock
           /\ renewal[x].why \in {"clock", "refusal"}
           /\ UNCHANGED <<issued, spent, revoked, due, refusing, stored, said, missing, faults>>
<1>0. /\ Types /\ Of[x] \in Sources /\ x \in Workers /\ renewal[x].at = "kept"
      /\ renewal[x].why \in {"clock", "refusal"} /\ renewal[x].new \in Credential
      /\ renewal[x].new.access \in Tokens
    BY AreWorkers DEF Inv, TurnInv, Renewed, Renewing, Types, RenewalType, Credential
<1>1. /\ renewal' \in [Workers -> RenewalType] /\ renewal'[x].at = "none"
      /\ \A v \in Workers : v # x => renewal'[v] = renewal[v]
    BY <1>0, Values DEF Renewed, Types
<1>2. /\ session' \in [Sessions -> SessionType] /\ session'[x].at \in {"again", "present"}
      /\ \A y \in Sessions : y # x => session'[y] = session[y]
    <2>1. PICK stage \in {"again", "present"} : Goto(x, stage)
        BY DEF Renewed
    <2> QED
        BY <1>0, <2>1, GotoFacts DEF SessionStages
<1>3. source \in [Sources -> SourceType]
    BY <1>0 DEF Types
<1>5. /\ source' \in [Sources -> SourceType]
      /\ \A s \in Sources : source'[s].open = source[s].open /\ source'[s].refused = source[s].refused
      /\ \A s \in Sources : s # Of[x] => source'[s] = source[s]
      /\ source'[Of[x]].held = renewal[x].new
      /\ source'[Of[x]].minted = IF renewal[x].why = "refusal" THEN renewal[x].new.access
                                 ELSE source[Of[x]].minted
    <2> DEFINE r == [source[Of[x]] EXCEPT !.held = renewal[x].new, !.turn = NoTurn,
                        !.minted = IF renewal[x].why = "refusal" THEN renewal[x].new.access
                                   ELSE source[Of[x]].minted]
    <2>1. /\ r \in SourceType /\ r.open = source[Of[x]].open /\ r.refused = source[Of[x]].refused
          /\ r.held = renewal[x].new
          /\ r.minted = IF renewal[x].why = "refusal" THEN renewal[x].new.access ELSE source[Of[x]].minted
        BY <1>0, <1>3 DEF SourceType
    <2>2. source' = [source EXCEPT ![Of[x]] = r]
        BY <1>0, <1>3 DEF Renewed
    <2> HIDE DEF r
    <2> QED
        BY <1>0, <1>3, <2>1, <2>2
<1>6. counts \in [Sources -> CountType] /\ counts' = [counts EXCEPT ![Of[x]][renewal[x].why] = @ + 1]
    BY <1>0 DEF Types, Renewed
<1>7. CASE renewal[x].why = "clock"
    <2>1. counts' = [counts EXCEPT ![Of[x]].clock = @ + 1]
        BY <1>6, <1>7
    <2>2. /\ counts' \in [Sources -> CountType]
          /\ \A s \in Sources : s # Of[x] => counts'[s] = counts[s]
          /\ counts'[Of[x]].refusal = counts[Of[x]].refusal
          /\ counts'[Of[x]].clock = counts[Of[x]].clock + 1
        BY <1>0, <1>6, <2>1 DEF CountType
    <2> QED
        BY <1>0, <1>1, <1>2, <1>5, <1>7, <2>2 DEF Renewed, issuer, history
<1>8. CASE renewal[x].why = "refusal"
    <2>1. counts' = [counts EXCEPT ![Of[x]].refusal = @ + 1]
        BY <1>6, <1>8
    <2>2. /\ counts' \in [Sources -> CountType]
          /\ \A s \in Sources : s # Of[x] => counts'[s] = counts[s]
          /\ counts'[Of[x]].refusal = counts[Of[x]].refusal + 1
          /\ counts'[Of[x]].clock = counts[Of[x]].clock
        BY <1>0, <1>6, <2>1 DEF CountType
    <2> QED
        BY <1>0, <1>1, <1>2, <1>5, <1>8, <2>2 DEF Renewed, issuer, history
<1> QED
    BY <1>0, <1>7, <1>8

LEMMA RenewedKeeps == ASSUME NEW x \in Sessions, Inv, Renewed(x) PROVE Inv'
<1>0. Types /\ TurnInv /\ AskInv /\ x \in Workers
    BY AreWorkers DEF Inv
<1>1. source[Of[x]].open /\ source[Of[x]].turn = x
    BY <1>0, RenewedFacts, Values DEF TurnInv
<1>2. Types'
    BY <1>0, RenewedFacts DEF Types
<1>3. TurnInv'
    <2>1. \A y \in Sessions : y # x /\ renewal'[y].at # "none" => Of[y] # Of[x]
        BY <1>0, <1>1, RenewedFacts, AreWorkers DEF TurnInv
    <2>2. (\A w \in Workers : renewal[w].at = "ask" => renewal[w].with \in Tokens)'
        BY <1>0, RenewedFacts DEF TurnInv
    <2>3. (\A y \in Sessions : session[y] # NoSession => source[Of[y]].open)'
        BY <1>0, <1>1, RenewedFacts, AreWorkers DEF TurnInv
    <2>4. (\A s \in Sources : renewal[s].at # "none" => ~source[s].open)'
        BY <1>0, RenewedFacts, AreWorkers, TokensAssumption DEF TurnInv
    <2>5. (\A y \in Sessions : renewal[y].at # "none" =>
              /\ source[Of[y]].turn = y
              /\ \/ session[y].at = "ahead" /\ renewal[y].why = "clock"
                 \/ session[y].at = "refused" /\ renewal[y].why = "refusal")'
        BY <1>0, <2>1, RenewedFacts, AreWorkers DEF TurnInv
    <2> QED
        BY <2>2, <2>3, <2>4, <2>5 DEF TurnInv
<1>4. AskInv'
    BY <1>0, RenewedFacts DEF AskInv, Refused
<1> QED
    BY <1>2, <1>3, <1>4 DEF Inv

LEMMA NotRenewedFacts ==
    ASSUME Inv, NEW x \in Sessions, NotRenewed(x)
    PROVE  /\ renewal[x].at \in {"failed", "reauth"}
           /\ renewal' \in [Workers -> RenewalType] /\ renewal'[x].at = "none"
           /\ \A v \in Workers : v # x => renewal'[v] = renewal[v]
           /\ source' \in [Sources -> SourceType]
           /\ \A s \in Sources : /\ source'[s].open = source[s].open
                                  /\ source'[s].held = source[s].held
                                  /\ source'[s].minted = source[s].minted
           /\ \A s \in Sources : s # Of[x] => source'[s] = source[s]
           /\ source'[Of[x]].refused => source[Of[x]].refused \/ renewal[x].at = "reauth"
           /\ session' \in [Sessions -> SessionType] /\ session'[x] = NoSession
           /\ \A y \in Sessions : y # x => session'[y] = session[y]
           /\ said' \in [Workers -> {"nothing", "fresh", "reauth"}]
           /\ said'[x] = "reauth" => renewal[x].at = "reauth"
           /\ \A v \in Workers : v # x => said'[v] = said[v]
           /\ UNCHANGED <<issued, spent, revoked, due, refusing, stored, missing, counts, faults>>
<1>0. /\ Types /\ Of[x] \in Sources /\ x \in Workers /\ renewal[x].at \in {"failed", "reauth"}
      /\ UNCHANGED <<issued, spent, revoked, due, refusing, stored, missing, counts, faults>>
    BY AreWorkers DEF Inv, NotRenewed, issuer, history
<1>1. /\ renewal' \in [Workers -> RenewalType] /\ renewal'[x].at = "none"
      /\ \A v \in Workers : v # x => renewal'[v] = renewal[v]
    BY <1>0, Values DEF NotRenewed, Types
<1>2. PICK what \in {"reauth", "nothing"} : Ended(x, what) /\ (what = "reauth" => renewal[x].at = "reauth")
    BY DEF NotRenewed, Renewing
<1>3. source \in [Sources -> SourceType]
    BY <1>0 DEF Types
<1>5. /\ source' \in [Sources -> SourceType]
      /\ \A s \in Sources : /\ source'[s].open = source[s].open
                             /\ source'[s].held = source[s].held
                             /\ source'[s].minted = source[s].minted
      /\ \A s \in Sources : s # Of[x] => source'[s] = source[s]
      /\ source'[Of[x]].refused => source[Of[x]].refused \/ renewal[x].at = "reauth"
    BY <1>0, <1>3 DEF SourceType, NotRenewed, Renewing
<1> QED
    BY <1>0, <1>1, <1>2, <1>5, EndedFacts

LEMMA NotRenewedKeeps == ASSUME NEW x \in Sessions, Inv, NotRenewed(x) PROVE Inv'
<1>0. Types /\ TurnInv /\ AskInv /\ x \in Workers
    BY AreWorkers DEF Inv
<1>1. /\ source[Of[x]].turn = x /\ (renewal[x].at = "reauth" => Refused(SourceOf(x)))
      /\ SourceOf(x) = Of[x]
    BY <1>0, NotRenewedFacts, SourceIs DEF TurnInv, AskInv
<1>2. Types'
    BY <1>0, NotRenewedFacts DEF Types
<1>3. TurnInv'
    <2>1. \A y \in Sessions : y # x /\ renewal'[y].at # "none" => Of[y] # Of[x]
        BY <1>0, <1>1, NotRenewedFacts, AreWorkers DEF TurnInv
    <2>2. (\A w \in Workers : renewal[w].at = "ask" => renewal[w].with \in Tokens)'
        BY <1>0, NotRenewedFacts DEF TurnInv
    <2>3. (\A y \in Sessions : session[y] # NoSession => source[Of[y]].open)'
        BY <1>0, NotRenewedFacts, AreWorkers DEF TurnInv
    <2>4. (\A s \in Sources : renewal[s].at # "none" => ~source[s].open)'
        BY <1>0, NotRenewedFacts, AreWorkers, TokensAssumption DEF TurnInv
    <2>5. (\A y \in Sessions : renewal[y].at # "none" =>
              /\ source[Of[y]].turn = y
              /\ \/ session[y].at = "ahead" /\ renewal[y].why = "clock"
                 \/ session[y].at = "refused" /\ renewal[y].why = "refusal")'
        BY <1>0, <2>1, NotRenewedFacts, AreWorkers DEF TurnInv
    <2> QED
        BY <2>2, <2>3, <2>4, <2>5 DEF TurnInv
<1>4. AskInv'
    <2>0. \A t : Refused(t)' <=> Refused(t)
        BY NotRenewedFacts DEF Refused
    <2>1. \A w \in Workers : said'[w] = "reauth" => Refused(SourceOf(w))
        BY <1>0, <1>1, NotRenewedFacts DEF AskInv
    <2>2. \A w \in Workers : renewal'[w].at = "reauth" => Refused(SourceOf(w))
        BY <1>0, NotRenewedFacts DEF AskInv
    <2>3. \A s \in Sources : source'[s].refused => Refused(s)
        BY <1>0, <1>1, NotRenewedFacts DEF AskInv
    <2> QED
        BY <2>0, <2>1, <2>2, <2>3 DEF AskInv
<1> QED
    BY <1>2, <1>3, <1>4 DEF Inv

\* A sign-in whose credential could not be read opens nothing.
LEMMA UnreadKeeps == ASSUME NEW s \in Sources, Inv, SignInUnread(s) PROVE Inv'
<1>0. /\ Types /\ TurnInv /\ AskInv /\ s \in Workers /\ SourceOf(s) = s
      /\ UNCHANGED <<issued, spent, revoked, due, refusing, stored, source, session, renewal, counts>>
    BY AreWorkers, SourceIs DEF SignInUnread, Inv, issuer
<1>1. /\ faults' \in 0..MaxFaults /\ missing \subseteq missing'
      /\ said' \in [Workers -> {"nothing", "fresh", "reauth"}]
      /\ \A v \in Workers : v # s => said'[v] = said[v]
      /\ said'[s] = "reauth" => s \in missing'
    BY <1>0, TokensAssumption DEF SignInUnread, Fault, Says, Types
<1>2. Types' /\ TurnInv'
    BY <1>0, <1>1 DEF Types, TurnInv
<1>3. AskInv'
    BY <1>0, <1>1 DEF AskInv, Refused
<1> QED
    BY <1>2, <1>3 DEF Inv

\* A dropped session gives up the turn if it had it; nobody else did.
LEMMA LetGoFacts ==
    ASSUME Inv, NEW x \in Sessions, LetGo(x)
    PROVE  /\ renewal' \in [Workers -> RenewalType] /\ renewal'[x].at = "none"
           /\ \A v \in Workers : v # x => renewal'[v] = renewal[v]
           /\ source' \in [Sources -> SourceType]
           /\ \A s \in Sources : /\ source'[s].open = source[s].open /\ source'[s].held = source[s].held
                                  /\ source'[s].minted = source[s].minted
                                  /\ source'[s].refused = source[s].refused
                                  /\ (source[s].turn # x => source'[s].turn = source[s].turn)
           /\ session' \in [Sessions -> SessionType] /\ session'[x] = NoSession
           /\ \A y \in Sessions : y # x => session'[y] = session[y]
           /\ faults' \in 0..MaxFaults
           /\ UNCHANGED <<rotates, issued, spent, revoked, due, refusing, stored, said, missing, counts>>
<1>0. Types /\ Of[x] \in Sources /\ x \in Workers /\ source \in [Sources -> SourceType]
    BY AreWorkers DEF Inv, Types
<1>1. /\ renewal' \in [Workers -> RenewalType] /\ renewal'[x].at = "none"
      /\ \A v \in Workers : v # x => renewal'[v] = renewal[v]
    BY <1>0, Values DEF LetGo, Types
<1>2. /\ session' \in [Sessions -> SessionType] /\ session'[x] = NoSession
      /\ \A y \in Sessions : y # x => session'[y] = session[y]
    BY <1>0, Values DEF LetGo, Types
<1>3. source' = [source EXCEPT ![Of[x]].turn = IF @ = x THEN NoTurn ELSE @]
    BY DEF LetGo
<1>4. source' \in [Sources -> SourceType]
    BY <1>0, <1>3 DEF SourceType
<1>5. \A s \in Sources : /\ source'[s].open = source[s].open /\ source'[s].held = source[s].held
                          /\ source'[s].minted = source[s].minted
                          /\ source'[s].refused = source[s].refused
                          /\ (source[s].turn # x => source'[s].turn = source[s].turn)
    BY <1>0, <1>3 DEF SourceType
<1>6. faults' \in 0..MaxFaults
    BY <1>0, TokensAssumption DEF LetGo, Fault, Types
<1> QED
    BY <1>1, <1>2, <1>4, <1>5, <1>6 DEF LetGo, issuer

LEMMA LetGoKeeps == ASSUME NEW x \in Sessions, Inv, LetGo(x) PROVE Inv'
<1>0. Types /\ TurnInv /\ AskInv /\ x \in Workers
    BY AreWorkers DEF Inv
<1>1. Types'
    BY <1>0, LetGoFacts DEF Types
<1>2. TurnInv'
    <2>2. (\A w \in Workers : renewal[w].at = "ask" => renewal[w].with \in Tokens)'
        BY <1>0, LetGoFacts DEF TurnInv
    <2>3. (\A y \in Sessions : session[y] # NoSession => source[Of[y]].open)'
        BY <1>0, LetGoFacts, AreWorkers DEF TurnInv
    <2>4. (\A s \in Sources : renewal[s].at # "none" => ~source[s].open)'
        BY <1>0, LetGoFacts, AreWorkers, TokensAssumption DEF TurnInv
    <2>5. (\A y \in Sessions : renewal[y].at # "none" =>
              /\ source[Of[y]].turn = y
              /\ \/ session[y].at = "ahead" /\ renewal[y].why = "clock"
                 \/ session[y].at = "refused" /\ renewal[y].why = "refusal")'
        BY <1>0, LetGoFacts, AreWorkers DEF TurnInv
    <2> QED
        BY <2>2, <2>3, <2>4, <2>5 DEF TurnInv
<1>3. AskInv'
    <2>0. \A t : Refused(t)' <=> Refused(t)
        BY LetGoFacts DEF Refused
    <2>1. \A w \in Workers : said'[w] = "reauth" => Refused(SourceOf(w))
        BY <1>0, LetGoFacts DEF AskInv
    <2>2. \A w \in Workers : renewal'[w].at = "reauth" => Refused(SourceOf(w))
        BY <1>0, LetGoFacts DEF AskInv
    <2>3. \A s \in Sources : source'[s].refused => Refused(s)
        BY <1>0, LetGoFacts DEF AskInv
    <2> QED
        BY <2>0, <2>1, <2>2, <2>3 DEF AskInv
<1> QED
    BY <1>1, <1>2, <1>3 DEF Inv

LEMMA NextInv == Inv /\ [Next]_vars => Inv'
<1>1. Inv /\ Next => Inv'
    BY AroundKeeps, AskKeeps, PutKeeps, SignInKeeps, SignedInKeeps, CloseKeeps, BeginKeeps, AheadKeeps,
       PresentKeeps, AfterRefusedKeeps, RenewedKeeps, NotRenewedKeeps,
       UnreadKeeps, LetGoKeeps DEF Next, Goes, Operates
<1>2. Inv /\ UNCHANGED vars => Inv'
    BY DEF Inv, Types, TurnInv, AskInv, Refused, vars, issuer, history
<1> QED
    BY <1>1, <1>2

LEMMA InvHolds == Spec => []Inv
BY InitInv, NextInv, PTL DEF Spec

\* A renewal that arrives, is refused or comes to nothing leaves the histories of their types.
LEMMA NextHistories == Inv /\ Histories /\ [Next]_vars => Histories'
<1> SUFFICES ASSUME Inv, Histories, [Next]_vars PROVE Histories'
    OBVIOUS
<1>0. \A w \in Workers : /\ renewal[w].with \in Tokens \cup {0} /\ SourceOf(w) \in Sources
                         /\ renewal[w].at = "ask" => renewal[w].with \in Tokens
    BY SourceIs DEF Inv, Types, RenewalType, TurnInv
<1>1. CASE UNCHANGED <<rotates, history>>
    BY <1>1 DEF history, Histories
<1>2. ASSUME NEW w \in Workers, Ask(w) PROVE Histories'
    <2>1. renewal[w].with \in Tokens /\ UNCHANGED rotates
        BY <1>0, <1>2 DEF Ask, Mints, RefusesGrant, Renewing, issuer
    <2>2. CASE Arrives(w)
        BY <1>0, <2>1, <2>2 DEF Arrives, Histories
    <2>3. CASE Presented(w)
        BY <1>0, <2>1, <2>3 DEF Presented, Histories
    <2>4. CASE Mislaid(w) /\ UNCHANGED missing
        BY <1>0, <2>1, <2>4 DEF Mislaid, Histories
    <2> QED
        BY <1>1, <1>2, <2>1, <2>2, <2>3, <2>4 DEF Ask
<1>3. ASSUME NEW w \in Workers, Put(w) PROVE Histories'
    <2>1. UNCHANGED rotates /\ missing \subseteq Sources
        BY <1>3 DEF Put, issuer, Histories
    <2>2. ASSUME Mislaid(w), missing' \subseteq Sources PROVE Histories'
        BY <1>0, <2>1, <2>2 DEF Mislaid, Histories
    <2> QED
        BY <1>0, <1>1, <1>3, <2>1, <2>2 DEF Put
<1>4. ASSUME NEW s \in Sources, SignInUnread(s) \/ Close(s) PROVE Histories'
    BY <1>4 DEF SignInUnread, Close, Histories, issuer
<1>5. CASE Restart
    BY <1>0, <1>5 DEF Restart, Histories, issuer
<1>6. ASSUME NEW x \in Sessions, LetGo(x) PROVE Histories'
    <2>1. x \in Workers /\ UNCHANGED <<rotates, missing>>
        BY <1>6, AreWorkers DEF LetGo, issuer
    <2>2. CASE Mislaid(x)
        BY <1>0, <2>1, <2>2 DEF Mislaid, Histories
    <2>3. CASE UNCHANGED <<again, twice, replaced, mislaid>>
        BY <1>1, <2>1, <2>3 DEF history
    <2> QED
        BY <1>6, <2>2, <2>3 DEF LetGo
<1>7. CASE ComesDue \/ StartsRefusing \/ Withdrawn \/ UNCHANGED vars
    BY <1>1, <1>7 DEF ComesDue, StartsRefusing, Withdrawn, vars, issuer
<1>8. ASSUME NEW s \in Sources, SignIn(s) \/ SignedIn(s) PROVE Histories'
    BY <1>1, <1>8 DEF SignIn, SignedIn, issuer
<1>9. ASSUME NEW x \in Sessions, Begin(x) \/ Operates(x) PROVE Histories'
    BY <1>1, <1>9 DEF Begin, Operates, AheadOf, Present, AfterRefused, Renewed, NotRenewed, issuer
<1> QED
    BY <1>2, <1>3, <1>4, <1>5, <1>6, <1>7, <1>8, <1>9 DEF Next, Goes

LEMMA HistoriesHold == Spec => []Histories
<1>1. Init => Histories
    BY DEF Init, Histories
<1> QED
    BY <1>1, NextHistories, InvHolds, PTL DEF Spec

\* The issuer, the keyring, every source and every session keep their types, and a session renews
\* only while it has the turn, for any number of each and whichever of them are dropped.
THEOREM TokensTypes == Spec => []TypeOK
<1>1. Inv /\ Histories => TypeOK
    BY TypesAre DEF Inv, TurnInv
<1> QED
    BY <1>1, InvHolds, HistoriesHold, PTL

\* However many sources and sessions share a sign-in, and whatever fails, the person is asked to
\* sign in again only where the issuer has refused the grant or the keyring has said that the
\* credential is not there (judge, refused_fresh, SecretTrouble).
THEOREM OnlyAskedRightly == Spec => []AskedRightly
<1>1. Inv => AskedRightly
    BY DEF Inv, AskInv, Refused, AskedRightly
<1> QED
    BY <1>1, InvHolds, PTL

-----------------------------------------------------------------------------
(* A refusal does not loop.                                                *)

\* A step that leaves the sources alone and begins no renewal.
LEMMA LoopStands ==
    ASSUME LoopInv, UNCHANGED <<source, counts>>,
           \A x \in Sessions : renewal'[x].at # "none" =>
              renewal[x].at # "none" /\ renewal'[x].why = renewal[x].why
    PROVE  LoopInv'
BY DEF LoopInv

\* A worker's renewal goes on.
LEMMA LoopGoesOn ==
    ASSUME Inv, LoopInv, NEW w \in Workers, Goes(w)
    PROVE  LoopInv'
<1>0. Types /\ TurnInv /\ UNCHANGED <<source, counts>>
    BY DEF Inv, Goes, Ask, Put
<1>s. renewal \in [Workers -> RenewalType] /\ \A stage \in {"put1", "put2", "kept", "reauth", "failed"} : stage \in RenewalStages
    BY <1>0 DEF RenewalStages, Types
<1>1. renewal[w].at # "none"
    BY DEF Goes, Ask, Put, Renewing
<1>2. CASE \E stage \in {"put1", "failed"} : renewal[w].at = "ask" /\ Mints(w, stage)
    BY <1>0, <1>1, <1>2, <1>s, MintsFacts, LoopStands, AreWorkers DEF TurnInv
<1>3. CASE \E stage \in {"put2", "kept", "reauth", "failed"} : Step(w, stage)
    BY <1>0, <1>1, <1>3, <1>s, StepFacts, LoopStands, AreWorkers
<1> QED
    BY <1>2, <1>3 DEF Goes, Ask, Put, RefusesGrant, Renewing

\* A source opens, its renewals not yet counted.
LEMMA LoopOpened ==
    ASSUME Types, LoopInv, NEW s \in Sources, NEW cred \in Credential, Opened(s, cred),
           counts' = [counts EXCEPT ![s] = NoCount],
           \A x \in Sessions : renewal'[x] = renewal[x] /\ (renewal[x].at # "none" => Of[x] # s)
    PROVE  LoopInv'
<1>1. /\ counts'[s].refusal = 0 /\ counts'[s].clock = 0
      /\ \A t \in Sources : t # s => counts'[t] = counts[t]
    BY DEF Types, NoCount
<1>2. (\A t \in Sources : counts[t].refusal <= counts[t].clock + 1)'
    BY <1>1 DEF LoopInv
<1>3. (\A t \in Sources : source[t].open =>
          counts[t].refusal <= counts[t].clock \/ source[t].held.access = source[t].minted)'
    BY <1>1, OpenedFacts DEF LoopInv
<1>4. (\A x \in Sessions : renewal[x].at # "none" /\ renewal[x].why = "refusal" =>
          source[Of[x]].held.access # source[Of[x]].minted)'
    BY OpenedFacts, AreWorkers DEF LoopInv
<1> QED
    BY <1>2, <1>3, <1>4 DEF LoopInv

LEMMA LoopSources ==
    ASSUME Inv, LoopInv, NEW s \in Sources, SignIn(s) \/ SignedIn(s) \/ Close(s)
    PROVE  LoopInv'
<1>0. Types /\ TurnInv /\ s \in Workers /\ s \notin Sessions
    BY AreWorkers, TokensAssumption DEF Inv
<1>1. CASE SignIn(s)
    <2>1. ~source[s].open /\ stored.IncomingPassword \in Credential /\ stored.IncomingPassword.refresh \in Tokens
        BY <1>0, <1>1 DEF SignIn, Types, Credential
    <2>2. CASE Renew(s, stored.IncomingPassword.refresh, "sign-in") /\ UNCHANGED <<source, counts>>
        BY <1>0, <2>1, <2>2, RenewFacts, LoopStands, AreWorkers
    <2>3. CASE /\ Opened(s, stored.IncomingPassword) /\ UNCHANGED renewal
               /\ counts' = [counts EXCEPT ![s] = NoCount]
        <3>1. \A x \in Sessions : renewal[x].at # "none" => Of[x] # s
            BY <1>0, <2>1, Values DEF TurnInv
        <3> QED
            BY <1>0, <2>1, <2>3, <3>1, LoopOpened
    <2> QED
        BY <1>1, <2>2, <2>3 DEF SignIn
<1>2. CASE SignedIn(s)
    <2>1. renewal[s].new \in Credential /\ ~source[s].open
        BY <1>0, <1>2 DEF Types, RenewalType, TurnInv, SignedIn
    <2>2. \A x \in Sessions : renewal'[x] = renewal[x]
        BY <1>0, <1>2, AreWorkers DEF SignedIn, Types
    <2>3. CASE Opened(s, renewal[s].new) /\ counts' = [counts EXCEPT ![s] = NoCount]
        <3>1. \A x \in Sessions : renewal[x].at # "none" => Of[x] # s
            BY <1>0, <2>1, Values DEF TurnInv
        <3> QED
            BY <1>0, <2>1, <2>2, <2>3, <3>1, LoopOpened
    <2>4. CASE UNCHANGED <<source, counts>>
        BY <2>2, <2>4, LoopStands
    <2> QED
        BY <1>2, <2>3, <2>4 DEF SignedIn
<1>3. CASE Close(s)
    <2>1. \A x \in Sessions : Of[x] = s => renewal[x].at = "none"
        BY <1>0, <1>3, Values DEF Close, TurnInv
    <2>2. /\ source'[s] = Off /\ \A t \in Sources : t # s => source'[t] = source[t]
          /\ UNCHANGED <<renewal, counts>>
        BY <1>0, <1>3 DEF Close, Types
    <2> QED
        BY <2>1, <2>2, Values, AreWorkers DEF LoopInv
<1> QED
    BY <1>1, <1>2, <1>3

\* A session takes the turn: for a refusal, only where what is held was not minted for one.
LEMMA LoopTurn ==
    ASSUME Types, LoopInv, NEW x \in Sessions, NEW why \in {"clock", "refusal"}, Turn(x, why), UNCHANGED counts,
           why = "refusal" => source[Of[x]].held.access # source[Of[x]].minted
    PROVE  LoopInv'
<1>1. \A s \in Sources : /\ source'[s].open = source[s].open /\ source'[s].held = source[s].held
                          /\ source'[s].minted = source[s].minted
    BY TurnFacts
<1>2. \A y \in Sessions : y # x => renewal'[y] = renewal[y]
    BY TurnFacts, AreWorkers
<1>3. renewal'[x].why = why
    BY TurnFacts
<1> QED
    BY <1>1, <1>2, <1>3, AreWorkers DEF LoopInv

LEMMA LoopRenewed == ASSUME Inv, LoopInv, NEW x \in Sessions, Renewed(x) PROVE LoopInv'
<1>0. Types /\ TurnInv /\ Of[x] \in Sources
    BY AreWorkers DEF Inv
<1>1. source[Of[x]].open /\ source[Of[x]].turn = x
    BY <1>0, RenewedFacts, Values DEF TurnInv
<1>2. \A y \in Sessions : y # x /\ renewal'[y].at # "none" => Of[y] # Of[x] /\ renewal'[y] = renewal[y]
    BY <1>0, <1>1, RenewedFacts, AreWorkers DEF TurnInv
<1>3. \A s \in Sources : counts[s].refusal \in Nat /\ counts[s].clock \in Nat
    BY <1>0 DEF Types, CountType
<1>4. (\A y \in Sessions : renewal[y].at # "none" /\ renewal[y].why = "refusal" =>
          source[Of[y]].held.access # source[Of[y]].minted)'
    BY <1>2, RenewedFacts, AreWorkers DEF LoopInv
<1>5. /\ \A s \in Sources : s # Of[x] => counts'[s] = counts[s] /\ source'[s] = source[s]
      /\ source'[Of[x]].held = renewal[x].new
    BY RenewedFacts
<1>6. CASE renewal[x].why = "clock"
    <2>1. counts'[Of[x]].refusal = counts[Of[x]].refusal /\ counts'[Of[x]].clock = counts[Of[x]].clock + 1
        BY <1>6, RenewedFacts
    <2>2. counts'[Of[x]].refusal <= counts'[Of[x]].clock /\ counts'[Of[x]].refusal <= counts'[Of[x]].clock + 1
        BY <1>0, <1>3, <2>1 DEF LoopInv
    <2> QED
        BY <1>4, <1>5, <2>2 DEF LoopInv
<1>7. CASE renewal[x].why = "refusal"
    <2>1. counts'[Of[x]].refusal = counts[Of[x]].refusal + 1 /\ counts'[Of[x]].clock = counts[Of[x]].clock
        BY <1>7, RenewedFacts
    <2>2. source[Of[x]].held.access # source[Of[x]].minted
        BY <1>7, RenewedFacts DEF LoopInv
    <2>3. counts'[Of[x]].refusal <= counts'[Of[x]].clock + 1
        BY <1>0, <1>1, <1>3, <2>1, <2>2 DEF LoopInv
    <2>4. source'[Of[x]].held.access = source'[Of[x]].minted
        BY <1>5, <1>7, RenewedFacts
    <2> QED
        BY <1>4, <1>5, <2>3, <2>4 DEF LoopInv
<1> QED
    BY <1>6, <1>7, RenewedFacts

LEMMA LoopOperates ==
    ASSUME Inv, LoopInv, NEW x \in Sessions, Begin(x) \/ Operates(x)
    PROVE  LoopInv'
<1>0. Types /\ x \in Workers
    BY AreWorkers DEF Inv
<1>1. CASE UNCHANGED <<source, renewal, counts>>
    BY <1>1, LoopStands
<1>2. CASE AheadOf(x)
    BY <1>0, <1>1, <1>2, LoopTurn DEF AheadOf
<1>3. CASE AfterRefused(x)
    BY <1>0, <1>1, <1>3, LoopTurn DEF AfterRefused, Mine
<1>4. CASE NotRenewed(x)
    <2>1. \A s \in Sources : /\ source'[s].open = source[s].open /\ source'[s].held = source[s].held
                              /\ source'[s].minted = source[s].minted
        BY <1>4, NotRenewedFacts
    <2>2. UNCHANGED counts /\ \A y \in Sessions : renewal'[y].at # "none" => renewal'[y] = renewal[y]
        BY <1>4, NotRenewedFacts, AreWorkers
    <2> QED
        BY <2>1, <2>2, AreWorkers DEF LoopInv
<1>5. CASE Begin(x) \/ Present(x)
    BY <1>1, <1>5 DEF Begin, Present
<1> QED
    BY <1>2, <1>3, <1>4, <1>5, LoopRenewed DEF Operates

LEMMA LoopLetGo == ASSUME Inv, LoopInv, NEW x \in Sessions, LetGo(x) PROVE LoopInv'
<1>1. \A s \in Sources : /\ source'[s].open = source[s].open /\ source'[s].held = source[s].held
                          /\ source'[s].minted = source[s].minted
    BY LetGoFacts
<1>2. UNCHANGED counts /\ \A y \in Sessions : renewal'[y].at # "none" => renewal'[y] = renewal[y]
    BY LetGoFacts, AreWorkers
<1> QED
    BY <1>1, <1>2, AreWorkers DEF LoopInv

LEMMA NextLoop == Inv /\ LoopInv /\ [Next]_vars => LoopInv'
<1> SUFFICES ASSUME Inv, LoopInv, [Next]_vars PROVE LoopInv'
    OBVIOUS
<1>1. CASE UNCHANGED <<source, renewal, counts>>
    BY <1>1, LoopStands
<1>2. CASE ComesDue \/ StartsRefusing \/ Withdrawn \/ UNCHANGED vars
    BY <1>1, <1>2 DEF ComesDue, StartsRefusing, Withdrawn, vars
<1>3. CASE Restart
    BY <1>3, AreWorkers, Values DEF Restart, LoopInv
<1>4. ASSUME NEW s \in Sources, SignInUnread(s) PROVE LoopInv'
    BY <1>1, <1>4 DEF SignInUnread
<1> QED
    BY <1>2, <1>3, <1>4, LoopGoesOn, LoopSources, LoopOperates, LoopLetGo DEF Next

\* A server that refuses every token costs an open source one renewal and one more for each the
\* clock asks for, however many sessions it refuses and in whatever order they come to the turn
\* (after_refused, the token minted for a refusal).
THEOREM NeverLoops == Spec => []NoLoop
<1>1. Init => LoopInv
    BY Values, AreWorkers DEF Init, LoopInv, NoCount
<1>2. LoopInv => NoLoop
    BY DEF LoopInv, NoLoop
<1> QED
    BY <1>1, <1>2, NextLoop, InvHolds, PTL DEF Spec

-----------------------------------------------------------------------------
(* A source does not present again what it has replaced, and the keyring   *)
(* falls behind the issuer only where an answer was lost.                  *)

\* The issuer's answer has come, and is not held yet.
Holding(w) == renewal[w].at \in {"put1", "put2", "kept"}

\* Every refresh token in the program's hands was issued.
BoundInv ==
    /\ \A r \in spent : r <= issued
    /\ stored.IncomingPassword.refresh <= issued
    /\ \A s \in Sources : source[s].held.refresh <= issued
    /\ \A w \in Workers : renewal[w].with <= issued /\ renewal[w].new.refresh <= issued

\* What a source is about to present, has been answered with or holds is none of those it has
\* replaced, save for what it holds while the answer that replaced it is on its way.
OwnInv ==
    /\ ~twice
    /\ \A s \in Sources : \A r \in replaced[s] : r <= issued
    /\ ~rotates => \A s \in Sources : replaced[s] = {}
    /\ \A w \in Workers : renewal[w].at = "ask" => renewal[w].with \notin replaced[SourceOf(w)]
    /\ \A w \in Workers : Holding(w) => renewal[w].new.refresh \notin replaced[SourceOf(w)]
    /\ \A s \in Sources : source[s].open /\ source[s].held.refresh \in replaced[s] =>
          \E x \in Sessions : Of[x] = s /\ Holding(x) /\ renewal[x].with = source[s].held.refresh
    /\ \A s \in Sources : ~source[s].open => \A r \in replaced[s] : Holding(s) /\ renewal[s].with = r

\* An answer on its way to the keyring is the first of its kind: its refresh token is not spent,
\* and is in nobody else's hands.
FirstInv ==
    \A w \in Workers : renewal[w].at = "put1" =>
        LET r == renewal[w].new.refresh
        IN  /\ r # 1 /\ r \notin spent /\ stored.IncomingPassword.refresh # r
            /\ \A s \in Sources : source[s].held.refresh # r
            /\ \A v \in Workers : renewal[v].at = "ask" => renewal[v].with # r
            /\ \A v \in Workers : v # w /\ Holding(v) => renewal[v].new.refresh # r
KeptInv == (~rotates => spent = {}) /\ (rotates => StoredGood /\ FirstInv)

KeyInv == BoundInv /\ OwnInv /\ KeptInv

\* The numbers that the bounds speak of.
LEMMA Numbers ==
    ASSUME Inv
    PROVE  /\ issued \in Nat /\ issued >= 1 /\ spent \subseteq Nat
           /\ stored.IncomingPassword \in Credential /\ stored.IncomingPassword.refresh \in Nat
           /\ \A s \in Sources : source[s].held.refresh \in Nat
           /\ \A w \in Workers : renewal[w].with \in Nat /\ renewal[w].new.refresh \in Nat
BY DEF Inv, Types, Tokens, SourceType, RenewalType, Credential

\* One renewal of a source at a time: its own, while it signs in, or the turn's.
LEMMA OneRenewal ==
    ASSUME TurnInv, NEW v \in Workers, NEW w \in Workers, renewal[v].at # "none", renewal[w].at # "none",
           SourceOf(v) = SourceOf(w)
    PROVE  v = w
<1>1. \A x \in Sessions : renewal[x].at # "none" => source[Of[x]].open /\ source[Of[x]].turn = x
    BY Values DEF TurnInv
<1>2. \A s \in Sources : renewal[s].at # "none" => ~source[s].open
    BY DEF TurnInv
<1> QED
    BY <1>1, <1>2, SourceIs DEF Workers

\* Nothing that KeyInv speaks of changes but one worker's renewal, and that has no answer, or goes
\* on with one that is in the keyring.
LEMMA KeyQuiet ==
    ASSUME Inv, KeyInv, NEW w \in Workers, UNCHANGED <<rotates, issued, spent, replaced, mislaid>>, ~twice',
           stored'.IncomingPassword = stored.IncomingPassword,
           \A s \in Sources : source'[s].open = source[s].open /\ source'[s].held = source[s].held,
           \A v \in Workers : v # w => renewal'[v] = renewal[v],
           \/ renewal'[w] = renewal[w]
           \/ /\ ~Holding(w) /\ renewal'[w].at \in {"none", "failed", "reauth"}
              /\ renewal'[w].with <= issued /\ renewal'[w].new.refresh <= issued
           \/ /\ renewal[w].at = "put2" /\ renewal'[w].at = "kept"
              /\ renewal'[w].with = renewal[w].with /\ renewal'[w].new = renewal[w].new
    PROVE  KeyInv'
<1>1. \A v \in Workers : /\ Holding(v)' <=> Holding(v)
                         /\ renewal'[v].at = "put1" <=> renewal[v].at = "put1"
                         /\ (renewal'[v].at = "ask" => renewal[v].at = "ask")
                         /\ (Holding(v) \/ renewal'[v].at = "ask" =>
                                renewal'[v].with = renewal[v].with /\ renewal'[v].new = renewal[v].new)
    BY DEF Holding
<1>2. BoundInv'
    BY DEF KeyInv, BoundInv
<1>3. OwnInv'
    <2>1. \A s \in Sources : source'[s].open /\ source'[s].held.refresh \in replaced'[s] =>
              \E x \in Sessions : Of[x] = s /\ Holding(x)' /\ renewal'[x].with = source'[s].held.refresh
        BY <1>1, AreWorkers DEF KeyInv, OwnInv
    <2>2. \A s \in Sources : ~source'[s].open => \A r \in replaced'[s] : Holding(s)' /\ renewal'[s].with = r
        BY <1>1, AreWorkers DEF KeyInv, OwnInv
    <2> QED
        BY <1>1, <2>1, <2>2 DEF KeyInv, OwnInv
<1>4. rotates => StoredGood'
    BY <1>1 DEF KeyInv, KeptInv, StoredGood, Renewing, Holding
<1>5. rotates => FirstInv'
    BY <1>1 DEF KeyInv, KeptInv, FirstInv, Holding
<1>6. KeptInv'
    BY <1>4, <1>5 DEF KeyInv, KeptInv
<1> QED
    BY <1>2, <1>3, <1>6 DEF KeyInv

\* A worker asks, with what its source holds or the keyring does.
LEMMA KeyBegins ==
    ASSUME Inv, KeyInv, NEW w \in Workers, UNCHANGED <<rotates, issued, spent, stored, replaced, mislaid, twice>>,
           \A s \in Sources : source'[s].open = source[s].open /\ source'[s].held = source[s].held,
           \A v \in Workers : v # w => renewal'[v] = renewal[v],
           renewal[w].at = "none", renewal'[w].at = "ask", renewal'[w].new.refresh <= issued,
           renewal'[w].with \notin replaced[SourceOf(w)],
           \/ renewal'[w].with = stored.IncomingPassword.refresh
           \/ \E s \in Sources : renewal'[w].with = source[s].held.refresh
    PROVE  KeyInv'
<1>1. \A v \in Workers : /\ Holding(v)' <=> Holding(v)
                         /\ renewal'[v].at = "put1" <=> renewal[v].at = "put1"
                         /\ (Holding(v) => renewal'[v] = renewal[v])
    BY DEF Holding
<1>2. BoundInv'
    BY DEF KeyInv, BoundInv
<1>3. OwnInv'
    <2>1. \A s \in Sources : source'[s].open /\ source'[s].held.refresh \in replaced'[s] =>
              \E x \in Sessions : Of[x] = s /\ Holding(x)' /\ renewal'[x].with = source'[s].held.refresh
        BY <1>1, AreWorkers DEF KeyInv, OwnInv
    <2>2. \A s \in Sources : ~source'[s].open => \A r \in replaced'[s] : Holding(s)' /\ renewal'[s].with = r
        BY <1>1, AreWorkers DEF KeyInv, OwnInv
    <2> QED
        BY <1>1, <2>1, <2>2 DEF KeyInv, OwnInv
<1>4. rotates => StoredGood'
    BY <1>1 DEF KeyInv, KeptInv, StoredGood, Renewing, Holding
<1>5. rotates => FirstInv'
    BY <1>1 DEF KeyInv, KeptInv, FirstInv, Holding
<1>6. KeptInv'
    BY <1>4, <1>5 DEF KeyInv, KeptInv
<1> QED
    BY <1>2, <1>3, <1>6 DEF KeyInv

\* The issuer's answer arrives: its refresh token, where it is a new one, is newer than any.
LEMMA KeyArrives ==
    ASSUME Inv, Histories, KeyInv, NEW w \in Workers, renewal[w].at = "ask", Mints(w, "put1"), Arrives(w),
           UNCHANGED <<stored, source>>
    PROVE  KeyInv'
<1>0. /\ Types /\ TurnInv /\ renewal[w].with \in Tokens /\ "put1" \in RenewalStages /\ SourceOf(w) \in Sources
    BY SourceIs DEF Inv, TurnInv, RenewalStages
<1>1. /\ renewal'[w].at = "put1" /\ renewal'[w].with = renewal[w].with
      /\ renewal'[w].new.refresh = IF rotates THEN issued + 1 ELSE renewal[w].with
      /\ spent' = IF rotates THEN spent \cup {renewal[w].with} ELSE spent
      /\ \A v \in Workers : v # w => renewal'[v] = renewal[v]
      /\ issued' = issued + 1 /\ rotates' = rotates
    BY <1>0, MintsFacts
<1>2. /\ UNCHANGED <<twice, mislaid>>
      /\ \A s \in Sources : s # SourceOf(w) \/ ~rotates => replaced'[s] = replaced[s]
      /\ rotates => replaced'[SourceOf(w)] = replaced[SourceOf(w)] \cup {renewal[w].with}
    BY <1>0 DEF Arrives, Histories
<1>3. /\ \A v \in Workers : v # w => (Holding(v)' <=> Holding(v)) /\ (renewal[v].at # "none" => SourceOf(v) # SourceOf(w))
      /\ Holding(w)' /\ ~Holding(w)
    BY <1>0, <1>1, OneRenewal DEF Holding
<1>4. BoundInv'
    BY <1>1, Numbers DEF KeyInv, BoundInv
<1>5. OwnInv'
    <2>1. ~twice' /\ \A s \in Sources : \A r \in replaced'[s] : r <= issued'
        <3>1. \A s \in Sources : \A r \in replaced'[s] : r \in Nat /\ r <= issued
            BY <1>0, <1>1, <1>2, Numbers DEF KeyInv, OwnInv, BoundInv, Histories, Tokens
        <3> QED
            BY <1>1, <1>2, <3>1, Numbers DEF KeyInv, OwnInv
    <2>2. ~rotates' => \A s \in Sources : replaced'[s] = {}
        BY <1>1, <1>2 DEF KeyInv, OwnInv
    <2>3. \A v \in Workers : renewal'[v].at = "ask" => renewal'[v].with \notin replaced'[SourceOf(v)]
        BY <1>1, <1>2, <1>3, SourceIs DEF KeyInv, OwnInv
    <2>4. \A v \in Workers : v # w /\ Holding(v)' => renewal'[v].new.refresh \notin replaced'[SourceOf(v)]
        <3>1. \A v \in Workers : Holding(v) => renewal[v].at # "none"
            BY DEF Holding
        <3> QED
            BY <1>1, <1>2, <1>3, <3>1, SourceIs DEF KeyInv, OwnInv
    <2>5. renewal'[w].new.refresh \notin replaced'[SourceOf(w)]
        BY <1>0, <1>1, <1>2, Numbers DEF KeyInv, OwnInv, BoundInv
    <2>6. \A s \in Sources : source'[s].open /\ source'[s].held.refresh \in replaced'[s] =>
              \E x \in Sessions : Of[x] = s /\ Holding(x)' /\ renewal'[x].with = source'[s].held.refresh
        <3> SUFFICES ASSUME NEW s \in Sources, source[s].open, source[s].held.refresh \in replaced'[s]
                     PROVE  \E x \in Sessions : Of[x] = s /\ Holding(x)' /\ renewal'[x].with = source[s].held.refresh
            OBVIOUS
        <3>1. CASE source[s].held.refresh \in replaced[s]
            <4>1. PICK x \in Sessions : Of[x] = s /\ Holding(x) /\ renewal[x].with = source[s].held.refresh
                BY <3>1 DEF KeyInv, OwnInv
            <4> QED
                BY <1>1, <1>3, <4>1, AreWorkers
        <3>2. CASE source[s].held.refresh \notin replaced[s]
            <4>1. s = SourceOf(w) /\ source[s].held.refresh = renewal[w].with
                BY <1>2, <3>2
            <4>2. w \in Sessions /\ Of[w] = s
                BY <1>0, <4>1, SourceIs DEF TurnInv, Workers
            <4> QED
                BY <1>1, <1>3, <4>1, <4>2
        <3> QED
            BY <3>1, <3>2
    <2>7. \A s \in Sources : ~source'[s].open => \A r \in replaced'[s] : Holding(s)' /\ renewal'[s].with = r
        <3> SUFFICES ASSUME NEW s \in Sources, ~source[s].open, NEW r \in replaced'[s]
                     PROVE  Holding(s)' /\ renewal'[s].with = r
            OBVIOUS
        <3>1. CASE r \in replaced[s]
            BY <1>1, <1>3, <3>1, AreWorkers DEF KeyInv, OwnInv
        <3>2. CASE r \notin replaced[s]
            <4>1. s = SourceOf(w) /\ r = renewal[w].with
                BY <1>2, <3>2
            <4>2. w = s
                BY <1>0, <4>1, SourceIs, Values DEF TurnInv, Workers
            <4> QED
                BY <1>1, <1>3, <4>1, <4>2
        <3> QED
            BY <3>1, <3>2
    <2> QED
        BY <2>1, <2>2, <2>3, <2>4, <2>5, <2>6, <2>7 DEF OwnInv
<1>6. rotates => StoredGood'
    BY <1>1, <1>2 DEF KeyInv, KeptInv, StoredGood, Renewing
<1>7. rotates => FirstInv'
    <2> SUFFICES ASSUME rotates, NEW u \in Workers, renewal'[u].at = "put1"
                 PROVE  /\ renewal'[u].new.refresh # 1 /\ renewal'[u].new.refresh \notin spent'
                        /\ stored.IncomingPassword.refresh # renewal'[u].new.refresh
                        /\ \A s \in Sources : source[s].held.refresh # renewal'[u].new.refresh
                        /\ \A v \in Workers : renewal'[v].at = "ask" => renewal'[v].with # renewal'[u].new.refresh
                        /\ \A v \in Workers : v # u /\ Holding(v)' => renewal'[v].new.refresh # renewal'[u].new.refresh
        BY DEF FirstInv
    <2>1. CASE u = w
        BY <1>1, <2>1, Numbers DEF KeyInv, BoundInv
    <2>2. CASE u # w
        <3>1. renewal'[u] = renewal[u] /\ renewal[u].new.refresh # issued + 1
            BY <1>1, <2>2, Numbers DEF KeyInv, BoundInv
        <3> QED
            BY <1>1, <1>3, <2>2, <3>1 DEF KeyInv, KeptInv, FirstInv
    <2> QED
        BY <2>1, <2>2
<1>8. KeptInv'
    BY <1>1, <1>6, <1>7 DEF KeyInv, KeptInv
<1> QED
    BY <1>4, <1>5, <1>8 DEF KeyInv

\* The issuer's answer is lost on the way.
LEMMA KeyLost ==
    ASSUME Inv, Histories, KeyInv, NEW w \in Workers, renewal[w].at = "ask", Mints(w, "failed"), Mislaid(w),
           UNCHANGED <<stored, source>>
    PROVE  KeyInv'
<1>0. /\ Types /\ TurnInv /\ renewal[w].with \in Tokens /\ "failed" \in RenewalStages /\ SourceOf(w) \in Sources
    BY SourceIs DEF Inv, TurnInv, RenewalStages
<1>1. /\ renewal'[w].at = "failed" /\ renewal'[w].with = renewal[w].with
      /\ renewal'[w].new.refresh = IF rotates THEN issued + 1 ELSE renewal[w].with
      /\ spent' = IF rotates THEN spent \cup {renewal[w].with} ELSE spent
      /\ \A v \in Workers : v # w => renewal'[v] = renewal[v]
      /\ issued' = issued + 1 /\ rotates' = rotates
    BY <1>0, MintsFacts
<1>2. /\ UNCHANGED twice /\ mislaid' = mislaid \cup {renewal[w].with}
      /\ \A s \in Sources : replaced'[s] = replaced[s]
    BY <1>0 DEF Mislaid, Histories, KeyInv, OwnInv
<1>3. \A v \in Workers : (Holding(v)' <=> Holding(v)) /\ (Holding(v) => v # w)
    BY <1>1 DEF Holding
<1>4. BoundInv'
    BY <1>1, Numbers DEF KeyInv, BoundInv
<1>5. OwnInv'
    <2>1. ~twice' /\ \A s \in Sources : \A r \in replaced'[s] : r <= issued'
        <3>1. \A s \in Sources : \A r \in replaced'[s] : r \in Nat /\ r <= issued
            BY <1>0, <1>2, Numbers DEF KeyInv, OwnInv, Histories, Tokens
        <3> QED
            BY <1>1, <1>2, <3>1, Numbers DEF KeyInv, OwnInv
    <2>2. ~rotates' => \A s \in Sources : replaced'[s] = {}
        BY <1>1, <1>2 DEF KeyInv, OwnInv
    <2>3. \A v \in Workers : renewal'[v].at = "ask" => renewal'[v].with \notin replaced'[SourceOf(v)]
        BY <1>1, <1>2, SourceIs DEF KeyInv, OwnInv
    <2>4. \A v \in Workers : Holding(v)' => renewal'[v].new.refresh \notin replaced'[SourceOf(v)]
        BY <1>1, <1>2, <1>3, SourceIs DEF KeyInv, OwnInv
    <2>6. \A s \in Sources : source'[s].open /\ source'[s].held.refresh \in replaced'[s] =>
              \E x \in Sessions : Of[x] = s /\ Holding(x)' /\ renewal'[x].with = source'[s].held.refresh
        BY <1>1, <1>2, <1>3, AreWorkers DEF KeyInv, OwnInv
    <2>7. \A s \in Sources : ~source'[s].open => \A r \in replaced'[s] : Holding(s)' /\ renewal'[s].with = r
        BY <1>1, <1>2, <1>3, AreWorkers DEF KeyInv, OwnInv
    <2> QED
        BY <2>1, <2>2, <2>3, <2>4, <2>6, <2>7 DEF OwnInv
<1>6. rotates => StoredGood'
    BY <1>1, <1>2 DEF KeyInv, KeptInv, StoredGood, Renewing
<1>7. rotates => FirstInv'
    BY <1>1, <1>3 DEF KeyInv, KeptInv, FirstInv
<1>8. KeptInv'
    BY <1>1, <1>6, <1>7 DEF KeyInv, KeptInv
<1> QED
    BY <1>4, <1>5, <1>8 DEF KeyInv

\* A renewal whose answer had come is given up: what it replaced may be presented again, and is
\* what the keyring has if the answer was not there yet.
LEMMA KeyGivenUp ==
    ASSUME Inv, Histories, KeyInv, NEW w \in Workers, Holding(w), Mislaid(w),
           UNCHANGED <<rotates, issued, spent, stored>>,
           \A s \in Sources : source'[s].open = source[s].open /\ source'[s].held = source[s].held,
           \A v \in Workers : v # w => renewal'[v] = renewal[v],
           renewal'[w].at \in {"none", "failed", "reauth"},
           renewal'[w].with <= issued, renewal'[w].new.refresh <= issued
    PROVE  KeyInv'
<1>0. TurnInv /\ SourceOf(w) \in Sources /\ renewal[w].at # "none"
    BY SourceIs DEF Inv, Holding
<1>1. /\ UNCHANGED twice /\ mislaid \subseteq mislaid'
      /\ renewal[w].at = "put1" => renewal[w].with \in mislaid'
      /\ \A s \in Sources : s # SourceOf(w) => replaced'[s] = replaced[s]
      /\ replaced'[SourceOf(w)] = replaced[SourceOf(w)] \ {renewal[w].with}
    BY <1>0 DEF Mislaid, Histories
<1>2. \A v \in Workers : v # w => (Holding(v)' <=> Holding(v)) /\ (Holding(v) => SourceOf(v) # SourceOf(w))
    BY <1>0, OneRenewal DEF Holding
<1>3. ~Holding(w)'
    BY DEF Holding
<1>4. BoundInv'
    BY DEF KeyInv, BoundInv
<1>5. OwnInv'
    <2>1. /\ ~twice' /\ \A s \in Sources : \A r \in replaced'[s] : r <= issued'
          /\ ~rotates' => \A s \in Sources : replaced'[s] = {}
        BY <1>1 DEF KeyInv, OwnInv
    <2>3. \A v \in Workers : renewal'[v].at = "ask" => renewal'[v].with \notin replaced'[SourceOf(v)]
        BY <1>1, SourceIs DEF KeyInv, OwnInv
    <2>4. \A v \in Workers : Holding(v)' => renewal'[v].new.refresh \notin replaced'[SourceOf(v)]
        BY <1>1, <1>2, <1>3, SourceIs DEF KeyInv, OwnInv
    <2>6. \A s \in Sources : source'[s].open /\ source'[s].held.refresh \in replaced'[s] =>
              \E x \in Sessions : Of[x] = s /\ Holding(x)' /\ renewal'[x].with = source'[s].held.refresh
        <3> SUFFICES ASSUME NEW s \in Sources, source[s].open, source[s].held.refresh \in replaced'[s]
                     PROVE  \E x \in Sessions : Of[x] = s /\ Holding(x)' /\ renewal'[x].with = source[s].held.refresh
            OBVIOUS
        <3>1. source[s].held.refresh \in replaced[s]
            BY <1>1
        <3>2. PICK x \in Sessions : Of[x] = s /\ Holding(x) /\ renewal[x].with = source[s].held.refresh
            BY <3>1 DEF KeyInv, OwnInv
        <3>3. x # w
            BY <1>1, <3>2, SourceIs
        <3> QED
            BY <1>2, <3>2, <3>3, AreWorkers
    <2>7. \A s \in Sources : ~source'[s].open => \A r \in replaced'[s] : Holding(s)' /\ renewal'[s].with = r
        <3> SUFFICES ASSUME NEW s \in Sources, ~source[s].open, NEW r \in replaced'[s]
                     PROVE  Holding(s)' /\ renewal'[s].with = r
            OBVIOUS
        <3>1. r \in replaced[s] /\ (s = SourceOf(w) => r # renewal[w].with)
            BY <1>1
        <3>2. Holding(s) /\ renewal[s].with = r
            BY <3>1 DEF KeyInv, OwnInv
        <3>3. s # w
            BY <3>1, <3>2, SourceIs
        <3> QED
            BY <1>2, <3>2, <3>3, AreWorkers
    <2> QED
        BY <2>1, <2>3, <2>4, <2>6, <2>7 DEF OwnInv
<1>6. rotates => StoredGood'
    BY <1>1 DEF KeyInv, KeptInv, StoredGood, Renewing
<1>7. rotates => FirstInv'
    BY <1>2, <1>3 DEF KeyInv, KeptInv, FirstInv
<1>8. KeptInv'
    BY <1>6, <1>7 DEF KeyInv, KeptInv
<1> QED
    BY <1>4, <1>5, <1>8 DEF KeyInv

\* The answer reaches the keyring.
LEMMA KeyStores ==
    ASSUME Inv, KeyInv, NEW w \in Workers, renewal[w].at = "put1", Step(w, "put2"),
           stored'.IncomingPassword = renewal[w].new,
           UNCHANGED <<rotates, issued, spent, source, replaced, mislaid, twice>>
    PROVE  KeyInv'
<1>1. /\ renewal'[w].at = "put2" /\ renewal'[w].with = renewal[w].with /\ renewal'[w].new = renewal[w].new
      /\ \A v \in Workers : v # w => renewal'[v] = renewal[v]
    BY StepFacts DEF Inv, Types, RenewalStages
<1>2. \A v \in Workers : /\ (Holding(v)' <=> Holding(v)) /\ renewal'[v].with = renewal[v].with
                         /\ renewal'[v].new = renewal[v].new /\ (renewal'[v].at = "ask" => renewal[v].at = "ask")
    BY <1>1 DEF Holding
<1>3. BoundInv'
    BY <1>2 DEF KeyInv, BoundInv
<1>4. OwnInv'
    <2>1. \A s \in Sources : source'[s].open /\ source'[s].held.refresh \in replaced'[s] =>
              \E x \in Sessions : Of[x] = s /\ Holding(x)' /\ renewal'[x].with = source'[s].held.refresh
        BY <1>2, AreWorkers DEF KeyInv, OwnInv
    <2>2. \A s \in Sources : ~source'[s].open => \A r \in replaced'[s] : Holding(s)' /\ renewal'[s].with = r
        BY <1>2, AreWorkers DEF KeyInv, OwnInv
    <2> QED
        BY <1>2, <2>1, <2>2 DEF KeyInv, OwnInv
<1>5. rotates => StoredGood'
    BY DEF KeyInv, KeptInv, FirstInv, StoredGood
<1>6. rotates => FirstInv'
    <2>1. Holding(w)
        BY DEF Holding
    <2> QED
        BY <1>1, <1>2, <2>1 DEF KeyInv, KeptInv, FirstInv
<1>7. KeptInv'
    BY <1>5, <1>6 DEF KeyInv, KeptInv
<1> QED
    BY <1>3, <1>4, <1>7 DEF KeyInv

LEMMA KeyGoes == ASSUME Inv, Histories, KeyInv, NEW w \in Workers, Goes(w) PROVE KeyInv'
<1>0. /\ Types /\ TurnInv /\ SourceOf(w) \in Sources /\ renewal \in [Workers -> RenewalType]
      /\ \A stage \in {"put1", "put2", "kept", "reauth", "failed"} : stage \in RenewalStages
      /\ UNCHANGED source /\ ~twice
    BY SourceIs DEF Inv, Types, Goes, Ask, Put, RenewalStages, KeyInv, OwnInv
<1>1. CASE Ask(w)
    <2>0. renewal[w].at = "ask" /\ UNCHANGED stored
        BY <1>1 DEF Ask, Renewing
    <2>1. ASSUME NEW stage \in {"reauth", "failed"}, Step(w, stage), UNCHANGED <<rotates, issued, spent, replaced, mislaid>>,
                 ~twice'
          PROVE  KeyInv'
        <3>1. /\ renewal'[w].at = stage /\ renewal'[w].with = renewal[w].with /\ renewal'[w].new = renewal[w].new
              /\ \A v \in Workers : v # w => renewal'[v] = renewal[v]
            BY <1>0, <2>1, StepFacts
        <3>2. renewal'[w].with <= issued /\ renewal'[w].new.refresh <= issued /\ ~Holding(w)
            BY <2>0, <3>1 DEF KeyInv, BoundInv, Holding
        <3> QED
            BY <1>0, <2>0, <2>1, <3>1, <3>2, KeyQuiet
    <2>2. CASE RefusesGrant(w) /\ Presented(w)
        <3>1. ~twice'
            BY <1>0, <2>0, <2>2 DEF Presented, KeyInv, OwnInv
        <3> QED
            BY <2>1, <2>2, <3>1 DEF RefusesGrant, Presented
    <2>3. CASE Step(w, "failed") /\ UNCHANGED <<issuer, history>>
        BY <1>0, <2>1, <2>3 DEF issuer, history
    <2>4. CASE Mints(w, "put1") /\ Arrives(w)
        BY <1>0, <2>0, <2>4, KeyArrives
    <2>5. CASE Mints(w, "failed") /\ Mislaid(w)
        BY <1>0, <2>0, <2>5, KeyLost
    <2> QED
        BY <1>1, <2>2, <2>3, <2>4, <2>5 DEF Ask
<1>2. CASE Put(w)
    <2>0. /\ renewal[w].at \in {"put1", "put2"} /\ Holding(w) /\ UNCHANGED <<rotates, issued, spent>>
          /\ renewal[w].with <= issued /\ renewal[w].new.refresh <= issued
        BY <1>2 DEF Put, issuer, Holding, KeyInv, BoundInv
    <2>1. ASSUME NEW stage \in {"reauth", "failed"}, Step(w, stage), Mislaid(w), UNCHANGED stored PROVE KeyInv'
        <3>1. /\ renewal'[w].at = stage /\ renewal'[w].with = renewal[w].with /\ renewal'[w].new = renewal[w].new
              /\ \A v \in Workers : v # w => renewal'[v] = renewal[v]
            BY <1>0, <2>1, StepFacts
        <3> QED
            BY <1>0, <2>0, <2>1, <3>1, KeyGivenUp
    <2>2. CASE renewal[w].at = "put1" /\ Step(w, "put2") /\ UNCHANGED history
               /\ stored' = [stored EXCEPT !["IncomingPassword"] = renewal[w].new]
        <3>1. stored'.IncomingPassword = renewal[w].new
            BY <1>0, <2>2 DEF Types
        <3> QED
            BY <1>0, <2>0, <2>2, <3>1, KeyStores DEF history
    <2>3. CASE renewal[w].at = "put2" /\ Step(w, "kept") /\ UNCHANGED history
               /\ stored' = [stored EXCEPT !["OAuthRefresh"] = renewal[w].new]
        <3>1. stored'.IncomingPassword = stored.IncomingPassword
            BY <1>0, <2>3 DEF Types
        <3>2. /\ renewal'[w].at = "kept" /\ renewal'[w].with = renewal[w].with /\ renewal'[w].new = renewal[w].new
              /\ \A v \in Workers : v # w => renewal'[v] = renewal[v]
            BY <1>0, <2>3, StepFacts
        <3> QED
            BY <1>0, <2>0, <2>3, <3>1, <3>2, KeyQuiet DEF history
    <2> QED
        BY <1>2, <2>0, <2>1, <2>2, <2>3 DEF Put, Renewing
<1> QED
    BY <1>1, <1>2 DEF Goes

\* A source opens, on what it has not replaced.
LEMMA KeyOpens ==
    ASSUME Inv, KeyInv, NEW s \in Sources, NEW cred \in Credential, Opened(s, cred), cred.refresh <= issued,
           cred.refresh \notin replaced[s],
           rotates => \A w \in Workers : renewal[w].at = "put1" => cred.refresh # renewal[w].new.refresh,
           UNCHANGED <<rotates, issued, spent, stored, replaced, mislaid, twice>>,
           renewal[s].at \in {"none", "kept"}, renewal'[s] = NoRenewal,
           \A v \in Workers : v # s => renewal'[v] = renewal[v]
    PROVE  KeyInv'
<1>0. Types /\ s \in Workers /\ issued \in Nat /\ issued >= 1
    BY AreWorkers, Numbers DEF Inv
<1>1. /\ source'[s].open /\ source'[s].held = cred
      /\ \A t \in Sources : t # s => source'[t] = source[t]
    BY <1>0, OpenedFacts
<1>2. \A v \in Workers : /\ v # s => (Holding(v)' <=> Holding(v))
                         /\ (renewal'[v].at = "put1" <=> renewal[v].at = "put1")
                         /\ (renewal'[v].at = "ask" => renewal[v].at = "ask")
                         /\ (renewal'[v].at # "none" => renewal'[v] = renewal[v] /\ v # s)
    BY Values DEF Holding
<1>3. BoundInv'
    <2>1. NoRenewal.with <= issued /\ NoRenewal.new.refresh <= issued
        BY <1>0 DEF NoRenewal, First
    <2> QED
        BY <1>1, <2>1 DEF KeyInv, BoundInv
<1>4. ~Holding(s)'
    BY <1>2 DEF Holding, NoRenewal
<1>5. OwnInv'
    <2>1. \A t \in Sources : source'[t].open /\ source'[t].held.refresh \in replaced'[t] =>
              \E x \in Sessions : Of[x] = t /\ Holding(x)' /\ renewal'[x].with = source'[t].held.refresh
        BY <1>1, <1>2, AreWorkers, TokensAssumption DEF KeyInv, OwnInv
    <2>2. \A t \in Sources : ~source'[t].open => \A r \in replaced'[t] : Holding(t)' /\ renewal'[t].with = r
        BY <1>1, <1>2, AreWorkers DEF KeyInv, OwnInv
    <2>3. \A v \in Workers : renewal'[v].at = "ask" => renewal'[v].with \notin replaced'[SourceOf(v)]
        BY <1>2 DEF KeyInv, OwnInv
    <2>4. \A v \in Workers : Holding(v)' => renewal'[v].new.refresh \notin replaced'[SourceOf(v)]
        BY <1>2, <1>4 DEF KeyInv, OwnInv
    <2> QED
        BY <2>1, <2>2, <2>3, <2>4 DEF KeyInv, OwnInv
<1>6. rotates => StoredGood'
    <2>1. \A v \in Workers : Renewing(v, "put1") => Renewing(v, "put1")' /\ renewal'[v].with = renewal[v].with
        BY <1>2 DEF Renewing
    <2> QED
        BY <2>1 DEF KeyInv, KeptInv, StoredGood
<1>7. rotates => FirstInv'
    BY <1>1, <1>2, <1>4 DEF KeyInv, KeptInv, FirstInv
<1>8. KeptInv'
    BY <1>6, <1>7 DEF KeyInv, KeptInv
<1> QED
    BY <1>3, <1>5, <1>8 DEF KeyInv

\* A source with nothing under way is closed.
LEMMA KeyCloses == ASSUME Inv, Histories, KeyInv, NEW s \in Sources, Close(s) PROVE KeyInv'
<1>0. /\ Types /\ TurnInv /\ source[s].open /\ issued \in Nat /\ issued >= 1
      /\ UNCHANGED <<rotates, issued, spent, stored, renewal, mislaid, twice>>
    BY Numbers DEF Inv, Close, issuer
<1>1. /\ source'[s] = Off /\ replaced'[s] = {}
      /\ \A t \in Sources : t # s => source'[t] = source[t] /\ replaced'[t] = replaced[t]
    BY <1>0 DEF Close, Types, Histories
<1>2. ~Off.open /\ Off.held.refresh = 1
    BY DEF Off, First
<1>3. \A v \in Workers : Holding(v)' <=> Holding(v)
    BY <1>0 DEF Holding
<1>4. \A v \in Workers : renewal[v].at # "none" => SourceOf(v) # s
    <2>1. \A x \in Sessions : Of[x] = s => renewal[x].at = "none"
        BY <1>0, Values DEF Close, TurnInv
    <2> QED
        BY <1>0, <2>1, SourceIs DEF TurnInv, Workers
<1>5. BoundInv'
    BY <1>0, <1>1, <1>2 DEF KeyInv, BoundInv
<1>6. OwnInv'
    <2>1. \A t \in Sources : source'[t].open /\ source'[t].held.refresh \in replaced'[t] =>
              \E x \in Sessions : Of[x] = t /\ Holding(x)' /\ renewal'[x].with = source'[t].held.refresh
        BY <1>0, <1>1, <1>3, AreWorkers DEF KeyInv, OwnInv
    <2>2. \A t \in Sources : ~source'[t].open => \A r \in replaced'[t] : Holding(t)' /\ renewal'[t].with = r
        BY <1>0, <1>1, <1>3, AreWorkers DEF KeyInv, OwnInv
    <2>3. \A v \in Workers : renewal'[v].at = "ask" => renewal'[v].with \notin replaced'[SourceOf(v)]
        BY <1>0, <1>1, SourceIs DEF KeyInv, OwnInv
    <2>4. \A v \in Workers : Holding(v)' => renewal'[v].new.refresh \notin replaced'[SourceOf(v)]
        BY <1>0, <1>1, <1>3, SourceIs DEF KeyInv, OwnInv
    <2> QED
        BY <1>0, <1>1, <2>1, <2>2, <2>3, <2>4 DEF KeyInv, OwnInv
<1>7. rotates => StoredGood'
    BY <1>0 DEF KeyInv, KeptInv, StoredGood, Renewing
<1>8. rotates => FirstInv'
    <2>1. \A t \in Sources, v \in Workers : rotates /\ renewal[v].at = "put1" => source'[t].held.refresh # renewal[v].new.refresh
        <3>1. \A v \in Workers : rotates /\ renewal[v].at = "put1" => renewal[v].new.refresh # 1
            BY DEF KeyInv, KeptInv, FirstInv, BoundInv
        <3> QED
            BY <1>1, <1>2, <3>1 DEF KeyInv, KeptInv, FirstInv
    <2> QED
        BY <1>0, <1>3, <2>1 DEF KeyInv, KeptInv, FirstInv
<1>9. KeptInv'
    BY <1>0, <1>7, <1>8 DEF KeyInv, KeptInv
<1> QED
    BY <1>5, <1>6, <1>9 DEF KeyInv

LEMMA KeySources ==
    ASSUME Inv, Histories, KeyInv, NEW s \in Sources, SignIn(s) \/ SignInUnread(s) \/ SignedIn(s) \/ Close(s)
    PROVE  KeyInv'
<1>0. Types /\ TurnInv /\ s \in Workers /\ SourceOf(s) = s /\ ~twice
    BY AreWorkers, SourceIs DEF Inv, KeyInv, OwnInv
<1>1. CASE SignIn(s)
    <2>1. /\ ~source[s].open /\ renewal[s] = NoRenewal /\ renewal[s].at = "none"
          /\ stored.IncomingPassword \in Credential /\ stored.IncomingPassword.refresh \in Tokens
          /\ UNCHANGED <<rotates, issued, spent, stored, replaced, mislaid, twice>>
        BY <1>0, <1>1, Values DEF SignIn, Types, Credential, issuer, history
    <2>2. \A r : r \notin replaced[s]
        BY <2>1 DEF KeyInv, OwnInv, Holding
    <2>3. CASE Renew(s, stored.IncomingPassword.refresh, "sign-in") /\ UNCHANGED source
        <3>1. /\ renewal'[s].at = "ask" /\ renewal'[s].with = stored.IncomingPassword.refresh
              /\ \A v \in Workers : v # s => renewal'[v] = renewal[v]
            BY <1>0, <2>1, <2>3, RenewFacts
        <3>2. renewal'[s].new.refresh <= issued
            BY <1>0, <2>3, Numbers DEF Renew, Types, First
        <3> QED
            BY <1>0, <2>1, <2>2, <2>3, <3>1, <3>2, KeyBegins
    <2>4. CASE Opened(s, stored.IncomingPassword) /\ UNCHANGED renewal
        <3>1. stored.IncomingPassword.refresh <= issued
            BY DEF KeyInv, BoundInv
        <3>2. rotates => \A w \in Workers : renewal[w].at = "put1" =>
                  stored.IncomingPassword.refresh # renewal[w].new.refresh
            BY DEF KeyInv, KeptInv, FirstInv
        <3> QED
            BY <1>0, <2>1, <2>2, <2>4, <3>1, <3>2, KeyOpens
    <2> QED
        BY <1>1, <2>3, <2>4 DEF SignIn
<1>2. CASE SignInUnread(s)
    BY <1>0, <1>2, KeyQuiet DEF SignInUnread, issuer
<1>3. CASE SignedIn(s)
    <2>1. /\ renewal[s].at \in {"kept", "failed", "reauth"} /\ renewal'[s] = NoRenewal
          /\ \A v \in Workers : v # s => renewal'[v] = renewal[v]
          /\ UNCHANGED <<rotates, issued, spent, stored, replaced, mislaid, twice>>
        BY <1>0, <1>3 DEF SignedIn, Types, issuer, history
    <2>2. CASE renewal[s].at = "kept"
        <3>1. /\ Opened(s, renewal[s].new) /\ renewal[s].new \in Credential /\ Holding(s)
              /\ renewal[s].new.refresh <= issued
            BY <1>0, <1>3, <2>2 DEF SignedIn, Renewing, Types, RenewalType, Holding, KeyInv, BoundInv
        <3>2. /\ renewal[s].new.refresh \notin replaced[s]
              /\ rotates => \A w \in Workers : renewal[w].at = "put1" => renewal[s].new.refresh # renewal[w].new.refresh
            BY <1>0, <2>2, <3>1 DEF KeyInv, OwnInv, KeptInv, FirstInv
        <3> QED
            BY <1>0, <2>1, <2>2, <3>1, <3>2, KeyOpens
    <2>3. CASE renewal[s].at # "kept"
        <3>1. UNCHANGED source /\ ~Holding(s)
            BY <1>3, <2>1, <2>3 DEF SignedIn, Renewing, Holding
        <3>2. renewal'[s].at = "none" /\ renewal'[s].with <= issued /\ renewal'[s].new.refresh <= issued
            BY <2>1, Numbers DEF NoRenewal, First
        <3> QED
            BY <1>0, <2>1, <3>1, <3>2, KeyQuiet
    <2> QED
        BY <2>2, <2>3
<1> QED
    BY <1>1, <1>2, <1>3, KeyCloses

\* The turn is taken with what is held; nobody of the source has an answer under way.
LEMMA KeyTurn ==
    ASSUME Inv, KeyInv, NEW x \in Sessions, NEW why \in {"clock", "refusal"}, Turn(x, why), Free(x),
           renewal[x].at = "none", source[Of[x]].open,
           UNCHANGED <<rotates, issued, spent, stored, replaced, mislaid, twice>>
    PROVE  KeyInv'
<1>0. /\ Types /\ TurnInv /\ x \in Workers /\ Of[x] \in Sources /\ SourceOf(x) = Of[x]
      /\ source[Of[x]].turn = NoTurn /\ NoTurn \notin Sessions
    BY AreWorkers, SourceIs, TokensAssumption DEF Inv, Free, Mine, NoTurn
<1>1. \A y \in Sessions : Of[y] = Of[x] => ~Holding(y)
    BY <1>0 DEF TurnInv, Holding
<1>2. source[Of[x]].held.refresh \notin replaced[Of[x]]
    BY <1>0, <1>1 DEF KeyInv, OwnInv
<1>3. /\ renewal'[x].at = "ask" /\ renewal'[x].with = source[Of[x]].held.refresh
      /\ \A v \in Workers : v # x => renewal'[v] = renewal[v]
      /\ \A s \in Sources : source'[s].open = source[s].open /\ source'[s].held = source[s].held
    BY <1>0, TurnFacts
<1>4. renewal'[x].new.refresh <= issued
    BY <1>0, Numbers DEF Turn, Renew, Types, First
<1> QED
    BY <1>0, <1>2, <1>3, <1>4, KeyBegins

\* The answer is held: none of those the source has replaced.
LEMMA KeyRenewed ==
    ASSUME Inv, KeyInv, NEW x \in Sessions, Renewed(x), UNCHANGED <<rotates, replaced, mislaid, twice>>
    PROVE  KeyInv'
<1>0. /\ Types /\ TurnInv /\ x \in Workers /\ Of[x] \in Sources /\ SourceOf(x) = Of[x] /\ Holding(x)
      /\ renewal[x].at = "kept" /\ renewal'[x].at = "none" /\ renewal'[x] = NoRenewal
      /\ \A v \in Workers : v # x => renewal'[v] = renewal[v]
      /\ \A s \in Sources : source'[s].open = source[s].open
      /\ \A s \in Sources : s # Of[x] => source'[s] = source[s]
      /\ source'[Of[x]].held = renewal[x].new
      /\ UNCHANGED <<issued, spent, stored>>
    <2>1. renewal[x].at = "kept" /\ x \in Workers /\ Types /\ renewal' = [renewal EXCEPT ![x] = NoRenewal]
        BY RenewedFacts, AreWorkers DEF Inv, Renewed
    <2>2. renewal'[x] = NoRenewal /\ Holding(x)
        BY <2>1 DEF Types, Holding
    <2> QED
        BY <2>1, <2>2, RenewedFacts, AreWorkers, SourceIs DEF Inv
<1>1. /\ source[Of[x]].open /\ renewal[x].new.refresh \notin replaced[Of[x]]
      /\ rotates => \A w \in Workers : renewal[w].at = "put1" => renewal[x].new.refresh # renewal[w].new.refresh
    BY <1>0, Values DEF TurnInv, KeyInv, OwnInv, KeptInv, FirstInv
<1>2. \A v \in Workers : /\ v # x => (Holding(v)' <=> Holding(v))
                         /\ (renewal'[v].at = "put1" <=> renewal[v].at = "put1")
                         /\ (renewal'[v].at # "none" => renewal'[v] = renewal[v] /\ v # x)
    BY <1>0 DEF Holding
<1>3. ~Holding(x)'
    BY <1>0 DEF Holding
<1>4. BoundInv'
    <2>1. NoRenewal.with <= issued /\ NoRenewal.new.refresh <= issued
        BY Numbers DEF NoRenewal, First
    <2> QED
        BY <1>0, <2>1 DEF KeyInv, BoundInv
<1>5. OwnInv'
    <2>1. \A t \in Sources : source'[t].open /\ source'[t].held.refresh \in replaced'[t] =>
              \E y \in Sessions : Of[y] = t /\ Holding(y)' /\ renewal'[y].with = source'[t].held.refresh
        BY <1>0, <1>1, <1>2, AreWorkers DEF KeyInv, OwnInv
    <2>2. \A t \in Sources : ~source'[t].open => \A r \in replaced'[t] : Holding(t)' /\ renewal'[t].with = r
        BY <1>0, <1>1, <1>2, AreWorkers, TokensAssumption DEF KeyInv, OwnInv
    <2>3. \A v \in Workers : renewal'[v].at = "ask" => renewal'[v].with \notin replaced'[SourceOf(v)]
        BY <1>2 DEF KeyInv, OwnInv
    <2>4. \A v \in Workers : Holding(v)' => renewal'[v].new.refresh \notin replaced'[SourceOf(v)]
        BY <1>0, <1>2, <1>3 DEF KeyInv, OwnInv
    <2> QED
        BY <1>0, <2>1, <2>2, <2>3, <2>4 DEF KeyInv, OwnInv
<1>6. rotates => StoredGood'
    <2>1. \A v \in Workers : Renewing(v, "put1") => Renewing(v, "put1")' /\ renewal'[v].with = renewal[v].with
        BY <1>2 DEF Renewing
    <2> QED
        BY <1>0, <2>1 DEF KeyInv, KeptInv, StoredGood
<1>7. rotates => FirstInv'
    BY <1>0, <1>1, <1>2, <1>3 DEF KeyInv, KeptInv, FirstInv
<1>8. KeptInv'
    BY <1>0, <1>6, <1>7 DEF KeyInv, KeptInv
<1> QED
    BY <1>4, <1>5, <1>8 DEF KeyInv

LEMMA KeyOperates == ASSUME Inv, KeyInv, NEW x \in Sessions, Begin(x) \/ Operates(x) PROVE KeyInv'
<1>0. /\ Types /\ TurnInv /\ x \in Workers /\ ~twice /\ Of[x] \in Sources
      /\ UNCHANGED <<rotates, issued, spent, stored, replaced, mislaid, twice>>
    BY AreWorkers DEF Inv, KeyInv, OwnInv, Begin, Operates, AheadOf, Present, AfterRefused, Renewed, NotRenewed,
       issuer, history
<1>1. CASE UNCHANGED <<source, renewal>>
    BY <1>0, <1>1, KeyQuiet
<1>2. ASSUME NEW why \in {"clock", "refusal"}, Turn(x, why), Free(x), renewal[x] = NoRenewal, session[x].at # "idle"
      PROVE  KeyInv'
    <2>1. source[Of[x]].open /\ renewal[x].at = "none"
        BY <1>0, <1>2, Values DEF TurnInv
    <2> QED
        BY <1>0, <1>2, <2>1, KeyTurn
<1>3. CASE AheadOf(x)
    BY <1>1, <1>2, <1>3 DEF AheadOf, In
<1>4. CASE AfterRefused(x)
    BY <1>1, <1>2, <1>4 DEF AfterRefused, In
<1>5. CASE Begin(x) \/ Present(x)
    BY <1>1, <1>5 DEF Begin, Present
<1>6. CASE Renewed(x)
    BY <1>0, <1>6, KeyRenewed
<1>7. CASE NotRenewed(x)
    <2>1. /\ renewal[x].at \in {"failed", "reauth"} /\ renewal'[x].at = "none"
          /\ \A v \in Workers : v # x => renewal'[v] = renewal[v]
          /\ \A s \in Sources : source'[s].open = source[s].open /\ source'[s].held = source[s].held
        BY <1>7, NotRenewedFacts
    <2>2. renewal'[x].with <= issued /\ renewal'[x].new.refresh <= issued /\ ~Holding(x)
        <3>1. renewal'[x] = NoRenewal
            BY <1>0, <1>7 DEF NotRenewed, Types
        <3> QED
            BY <2>1, <3>1, Numbers DEF NoRenewal, First, Holding
    <2> QED
        BY <1>0, <2>1, <2>2, KeyQuiet
<1> QED
    BY <1>3, <1>4, <1>5, <1>6, <1>7 DEF Operates

LEMMA KeyLetGo == ASSUME Inv, Histories, KeyInv, NEW x \in Sessions, LetGo(x) PROVE KeyInv'
<1>0. /\ x \in Workers /\ ~twice /\ UNCHANGED <<rotates, issued, spent, stored>> /\ renewal'[x].at = "none"
      /\ \A v \in Workers : v # x => renewal'[v] = renewal[v]
      /\ \A s \in Sources : source'[s].open = source[s].open /\ source'[s].held = source[s].held
    BY LetGoFacts, AreWorkers DEF KeyInv, OwnInv
<1>1. renewal'[x].with <= issued /\ renewal'[x].new.refresh <= issued
    <2>1. renewal'[x] = NoRenewal
        BY <1>0 DEF LetGo, Inv, Types
    <2> QED
        BY <2>1, Numbers DEF NoRenewal, First
<1>2. CASE Holding(x)
    BY <1>0, <1>1, <1>2, KeyGivenUp DEF LetGo, Holding
<1>3. CASE ~Holding(x)
    <2>1. UNCHANGED <<twice, replaced, mislaid>>
        BY <1>3 DEF LetGo, Holding
    <2> QED
        BY <1>0, <1>1, <1>3, <2>1, KeyQuiet
<1> QED
    BY <1>2, <1>3

LEMMA KeyRestart == ASSUME Inv, KeyInv, Restart PROVE KeyInv'
<1>0. /\ \A w \in Workers : renewal'[w] = NoRenewal
      /\ \A s \in Sources : source'[s] = Off /\ replaced'[s] = {}
      /\ mislaid' = mislaid \cup {renewal[w].with : w \in {v \in Workers : Renewing(v, "put1")}}
      /\ UNCHANGED <<rotates, issued, spent, stored, twice>>
    BY DEF Restart, issuer
<1>1. ~Off.open /\ Off.held.refresh = 1 /\ NoRenewal.with = 0 /\ NoRenewal.new.refresh = 1 /\ NoRenewal.at = "none"
    BY DEF Off, First, NoRenewal
<1>2. \A w \in Workers : ~Holding(w)'
    BY <1>0, <1>1 DEF Holding
<1>3. BoundInv'
    BY <1>0, <1>1, Numbers DEF KeyInv, BoundInv
<1>4. OwnInv'
    BY <1>0, <1>1, <1>2, SourceIs DEF KeyInv, OwnInv
<1>5. rotates => StoredGood'
    BY <1>0 DEF KeyInv, KeptInv, StoredGood
<1>6. FirstInv'
    BY <1>0, <1>1 DEF FirstInv
<1>7. KeptInv'
    BY <1>0, <1>5, <1>6 DEF KeyInv, KeptInv
<1> QED
    BY <1>3, <1>4, <1>7 DEF KeyInv

LEMMA NextKey == Inv /\ Histories /\ KeyInv /\ [Next]_vars => KeyInv'
<1> SUFFICES ASSUME Inv, Histories, KeyInv, [Next]_vars PROVE KeyInv'
    OBVIOUS
<1>1. CASE UNCHANGED <<rotates, issued, spent, stored, source, renewal, history>>
    <2>1. UNCHANGED <<replaced, mislaid, twice>> /\ \A v \in Workers : Holding(v)' <=> Holding(v)
        BY <1>1 DEF history, Holding
    <2>2. BoundInv'
        BY <1>1, <2>1 DEF KeyInv, BoundInv
    <2>4. OwnInv'
        <3>1. \A s \in Sources : source'[s].open /\ source'[s].held.refresh \in replaced'[s] =>
                  \E x \in Sessions : Of[x] = s /\ Holding(x)' /\ renewal'[x].with = source'[s].held.refresh
            BY <1>1, <2>1, AreWorkers DEF KeyInv, OwnInv
        <3>2. \A s \in Sources : ~source'[s].open => \A r \in replaced'[s] : Holding(s)' /\ renewal'[s].with = r
            BY <1>1, <2>1, AreWorkers DEF KeyInv, OwnInv
        <3> QED
            BY <1>1, <2>1, <3>1, <3>2 DEF KeyInv, OwnInv
    <2>3. KeptInv'
        BY <1>1, <2>1 DEF KeyInv, KeptInv, StoredGood, FirstInv, Renewing
    <2> QED
        BY <2>2, <2>3, <2>4 DEF KeyInv
<1>2. CASE ComesDue \/ StartsRefusing \/ Withdrawn \/ UNCHANGED vars
    BY <1>1, <1>2 DEF ComesDue, StartsRefusing, Withdrawn, vars, issuer
<1> QED
    BY <1>2, KeyRestart, KeyGoes, KeySources, KeyOperates, KeyLetGo DEF Next

LEMMA KeyHolds == Spec => []KeyInv
<1>1. Init => KeyInv
    <2> SUFFICES ASSUME Init PROVE KeyInv
        OBVIOUS
    <2>1. /\ stored.IncomingPassword.refresh = 1 /\ Off.held.refresh = 1 /\ ~Off.open
          /\ NoRenewal.with = 0 /\ NoRenewal.new.refresh = 1 /\ NoRenewal.at = "none"
        BY DEF Init, First, Off, NoRenewal
    <2>2. /\ \A w \in Workers : renewal[w] = NoRenewal
          /\ \A s \in Sources : source[s] = Off /\ replaced[s] = {}
          /\ issued = 1 /\ spent = {} /\ ~twice
        BY DEF Init
    <2>3. BoundInv /\ OwnInv
        BY <2>1, <2>2, SourceIs DEF BoundInv, OwnInv, Holding
    <2>4. KeptInv
        BY <2>1, <2>2 DEF KeptInv, StoredGood, FirstInv
    <2> QED
        BY <2>3, <2>4 DEF KeyInv
<1> QED
    BY <1>1, NextKey, InvHolds, HistoriesHold, PTL DEF Spec

\* However many sources and sessions share the sign-in, find their token due or refused at once,
\* are dropped, or start again, no source presents a refresh token again once it holds what replaced
\* it or waits for the keyring to keep it (OAuthTokens::renewing, ahead_of, after_refused).
THEOREM SpendsOnce == Spec => []SpentOnce
<1>1. KeyInv => SpentOnce
    BY DEF KeyInv, OwnInv, SpentOnce
<1> QED
    BY <1>1, KeyHolds, PTL

\* For any number of sources writing the same entry, what the next process signs in with is a
\* refresh token the issuer has replaced only while what replaced it is on its way to the keyring,
\* or was lost before it got there (renew_incoming).
THEOREM KeepsTheNewest == Spec => []StoredGood
<1>1. Histories /\ KeyInv => StoredGood
    BY DEF Histories, KeyInv, KeptInv, StoredGood
<1> QED
    BY <1>1, KeyHolds, HistoriesHold, PTL
=============================================================================
