--------------------------- MODULE SendingProofs ---------------------------
(***************************************************************************)
(* What Sending promises, for every number of drains, submissions and      *)
(* faults: its types, that no submission is lost unsaid, that sending      *)
(* again leaves one submission, that a queued draft has one, and what      *)
(* alone can make a submission leave twice.                                *)
(***************************************************************************)
EXTENDS Sending, TLAPS

\* A drain with an entry in its hands names a submission that was queued.
Placed == \A d \in Drains : drain[d].at \notin {"idle", "walk"} => drain[d].row \in 1..last

\* What a drain is about to take out of the outbox was accepted, or its refusal was said.
Accounted == \A d \in Drains :
    /\ At(d, "accepted") => accepted[drain[d].row] > 0
    /\ At(d, "dropped") => drain[d].row \in said

KInv == TypeOK /\ Placed /\ Accounted /\ NeverLost

\* The types hold at first, and every step keeps them.
LEMMA InitKInv == Init => KInv
BY SendingAssumption DEF Init, KInv, TypeOK, Placed, Accounted, NeverLost, Idle, NoPage, States, OnWay,
    Stages, Ids, At

DrainType == [Drains -> [at : Stages, row : 0..MaxRows, list : SUBSET Ids]]

\* What a step of one drain leaves alone.
LEMMA GotoFacts ==
    ASSUME NEW d \in Drains, NEW stage \in Stages, drain \in DrainType, Goto(d, stage)
    PROVE  /\ drain' \in DrainType
           /\ drain'[d].at = stage /\ drain'[d].row = drain[d].row
           /\ \A e \in Drains : e # d => drain'[e] = drain[e]
BY DEF DrainType, Goto

LEMMA StopFacts ==
    ASSUME NEW d \in Drains, drain \in DrainType, Stop(d)
    PROVE  /\ drain' \in DrainType
           /\ drain'[d].at = "idle" /\ drain'[d].row = 0
           /\ \A e \in Drains : e # d => drain'[e] = drain[e]
BY SendingAssumption DEF DrainType, Stop, Idle, Stages, Ids

LEMMA PersonKInv == KInv /\ (Person \/ ComeDue) => KInv'
<1> SUFFICES ASSUME KInv, Person \/ ComeDue PROVE KInv'
    OBVIOUS
<1> USE SendingAssumption DEF KInv, TypeOK, Placed, Accounted, NeverLost, Ids, At, again
<1>1. CASE Queue
    <2>1. /\ last' \in 0..MaxRows /\ last' = last + 1 /\ last \in Nat
          /\ 1..last \subseteq 1..last' /\ last + 1 \in 1..last'
        BY <1>1 DEF Queue
    <2>2. /\ rows' \subseteq (1..last') \ withdrawn' /\ ready' \subseteq rows'
          /\ withdrawn' \subseteq 1..last'
        <3>1. /\ rows' = (rows \ Pulled) \cup {last + 1} /\ withdrawn' = withdrawn \cup Pulled
              /\ ready' \subseteq (ready \ Pulled) \cup {last + 1}
            BY <1>1 DEF Queue
        <3>2. Pulled \subseteq rows /\ last + 1 \notin 1..last
            BY <2>1 DEF Pulled
        <3> QED
            BY <2>1, <3>1, <3>2
    <2>3. draft' \in States
        BY <1>1 DEF Queue, States, OnWay
    <2>4. TypeOK'
        BY <1>1, <2>1, <2>2, <2>3 DEF Queue
    <2>5. Placed' /\ Accounted'
        BY <1>1, <2>1 DEF Queue
    <2>6. NeverLost'
        BY <1>1, <2>1 DEF Queue, Pulled
    <2> QED
        BY <2>4, <2>5, <2>6
<1>2. CASE Unsend
    BY <1>2 DEF Unsend, DeleteDraft, States
<1>3. CASE DiscardRead
    BY <1>3 DEF DiscardRead, NoPage, States
<1>4. CASE DiscardWrite
    BY <1>4 DEF DiscardWrite, DeleteDraft, NoPage, States
<1>5. CASE SaveRead
    BY <1>5 DEF SaveRead
<1>6. CASE SaveWrite
    BY <1>6 DEF SaveWrite, NoPage, States
<1>7. CASE ComeDue
    BY <1>7 DEF ComeDue
<1> QED
    BY <1>1, <1>2, <1>3, <1>4, <1>5, <1>6, <1>7 DEF Person

LEMMA DrainKInv == ASSUME NEW d \in Drains PROVE KInv /\ (Step(d) \/ Fails(d)) => KInv'
<1> SUFFICES ASSUME KInv, Step(d) \/ Fails(d) PROVE KInv'
    OBVIOUS
<1> USE SendingAssumption DEF KInv, Placed, Accounted, NeverLost, At, again
<1>t. drain \in DrainType
    BY DEF TypeOK, DrainType
<1>s. \A stage \in {"walk", "marked", "accepted", "settled", "failed", "later", "refused", "dropped"} :
          stage \in Stages
    BY DEF Stages
<1>a. drain[d].row \in Nat
    BY <1>t DEF DrainType
<1>1. CASE DrainList(d)
    BY <1>1 DEF DrainList, TypeOK, Ids, Stages
<1>2. CASE DrainAddress(d)
    <2>1. PICK r \in drain[d].list :
              /\ drain' = [drain EXCEPT ![d] =
                    [at |-> IF r \in rows THEN "addressed" ELSE "walk",
                     row |-> r, list |-> @.list \ {r}]]
              /\ shared' \subseteq shared \cup {r}
        BY <1>2 DEF DrainAddress
    <2>2. r \in Ids /\ Ids \subseteq 0..MaxRows /\ rows \subseteq 1..last
        BY <1>t DEF DrainType, TypeOK, Ids
    <2>3. /\ drain' \in DrainType /\ drain'[d].row = r
          /\ drain'[d].at = "walk" \/ (r \in rows /\ drain'[d].at = "addressed")
          /\ \A e \in Drains : e # d => drain'[e] = drain[e]
        BY <1>t, <2>1, <2>2 DEF DrainType, Stages
    <2>4. UNCHANGED <<draft, rows, ready, last, page, accepted, withdrawn, regretted, said,
                      unwritten, faults>>
        BY <1>2 DEF DrainAddress
    <2>5. TypeOK'
        BY <2>1, <2>2, <2>3, <2>4 DEF TypeOK, DrainType
    <2>6. Placed' /\ Accounted' /\ NeverLost'
        BY <2>2, <2>3, <2>4
    <2> QED
        BY <2>5, <2>6
<1>3. CASE DrainEnd(d)
    <2>1. Stop(d)
        BY <1>3 DEF DrainEnd
    <2> QED
        BY <1>3, <1>t, <2>1, StopFacts DEF DrainEnd, TypeOK, DrainType
<1>4. CASE MarkSending(d)
    <2>1. Goto(d, "marked")
        BY <1>4 DEF MarkSending
    <2> QED
        BY <1>4, <1>t, <1>s, <2>1, GotoFacts DEF MarkSending, Marked, TypeOK, DrainType, States, OnWay
<1>5. ASSUME Accepts(d) PROVE
          /\ accepted' \in [Ids -> Nat] /\ accepted'[drain[d].row] > 0
          /\ \A r \in Ids : accepted[r] > 0 => accepted'[r] > 0
          /\ regretted' \subseteq withdrawn'
          /\ UNCHANGED <<draft, rows, ready, last, page, withdrawn, said>>
    <2>1. drain[d].row \in Ids /\ accepted \in [Ids -> Nat]
        BY <1>5 DEF Accepts, TypeOK, Ids
    <2>2. accepted' = [accepted EXCEPT ![drain[d].row] = @ + 1]
        BY <1>5 DEF Accepts
    <2>3. /\ accepted' \in [Ids -> Nat] /\ accepted'[drain[d].row] > 0
          /\ \A r \in Ids : accepted[r] > 0 => accepted'[r] > 0
        BY <2>1, <2>2
    <2>4. regretted' \subseteq withdrawn'
        BY <1>5 DEF Accepts, TypeOK
    <2> QED
        BY <1>5, <2>3, <2>4 DEF Accepts
<1>b. ASSUME Accepts(d),
              \A e \in Drains : e # d => drain'[e] = drain[e],
              \/ drain'[d].at = "accepted" /\ drain'[d].row = drain[d].row
              \/ drain'[d].at \notin {"accepted", "dropped"}
       PROVE  Accounted'
    <2>1. \A e \in Drains : drain[e].at = "accepted" => drain[e].row \in Ids
        BY DEF TypeOK, Ids
    <2>2. \A e \in Drains : drain'[e].at = "accepted" => accepted'[drain'[e].row] > 0
        BY <1>5, <1>b, <2>1
    <2>3. \A e \in Drains : drain'[e].at = "dropped" => drain'[e].row \in said'
        BY <1>5, <1>b
    <2> QED
        BY <2>2, <2>3
<1>6. ASSUME Accepts(d), drain' \in DrainType, faults' \in 0..MaxFaults,
             unwritten' = unwritten \/ Unwritten(d)
      PROVE  TypeOK' /\ NeverLost'
    <2>0. drain[d].row \in 1..last /\ UNCHANGED <<shared, last>>
        BY <1>6 DEF Accepts
    <2>1. TypeOK'
        BY <1>5, <1>6, <2>0 DEF TypeOK, DrainType, Unwritten
    <2>2. NeverLost'
        BY <1>5, <1>6 DEF TypeOK, Ids
    <2> QED
        BY <2>1, <2>2
<1>7. CASE SubmitAccepted(d)
    <2>1. Accepts(d) /\ Goto(d, "accepted") /\ faults' \in 0..MaxFaults /\ UNCHANGED unwritten
        BY <1>7 DEF SubmitAccepted, TypeOK
    <2>2. Placed'
        BY <1>5, <1>t, <1>s, <2>1, GotoFacts DEF Accepts
    <2>3. Accounted'
        BY <1>b, <1>t, <1>s, <2>1, GotoFacts
    <2> QED
        BY <1>6, <1>t, <1>s, <2>1, <2>2, <2>3, GotoFacts
<1>8. CASE SubmitLost(d)
    <2>1. /\ Accepts(d) /\ faults' \in 0..MaxFaults /\ Unwritten(d)
          /\ Goto(d, "failed") \/ Goto(d, "refused")
        BY <1>8 DEF SubmitLost, Fault, TypeOK
    <2>2. ASSUME NEW stage \in {"failed", "refused"}, Goto(d, stage) PROVE KInv'
        <3>1. Accounted'
            BY <1>b, <1>t, <1>s, <2>1, <2>2, GotoFacts
        <3>2. Placed'
            BY <1>5, <1>t, <1>s, <2>1, <2>2, GotoFacts DEF Accepts
        <3> QED
            BY <1>6, <1>t, <1>s, <2>1, <2>2, <3>1, <3>2, GotoFacts
    <2> QED
        BY <2>1, <2>2
<1>9. CASE SettleOk(d)
    <2>1. /\ rows' = rows \ {drain[d].row} /\ ready' = ready \ {drain[d].row}
          /\ At(d, "accepted") /\ (Goto(d, "settled") \/ Stop(d))
          /\ UNCHANGED <<draft, last, page, accepted, withdrawn, regretted, said, again, faults>>
        BY <1>9 DEF SettleOk, Settles
    <2>2. NeverLost'
        BY <2>1
    <2>3. CASE Goto(d, "settled")
        <3>1. TypeOK'
            BY <1>t, <1>s, <2>1, <2>3, GotoFacts DEF TypeOK, DrainType
        <3>2. Placed' /\ Accounted'
            BY <1>t, <1>s, <2>1, <2>3, GotoFacts
        <3> QED
            BY <2>2, <3>1, <3>2
    <2>4. CASE Stop(d)
        BY <1>t, <2>1, <2>2, <2>4, StopFacts DEF TypeOK, DrainType
    <2> QED
        BY <2>1, <2>3, <2>4
<1>10. CASE MarkSent(d)
    <2>1. Goto(d, "walk")
        BY <1>10 DEF MarkSent
    <2>2. TypeOK'
        BY <1>10, <1>t, <1>s, <2>1, GotoFacts DEF MarkSent, Marked, TypeOK, DrainType, States
    <2>3. Placed' /\ Accounted' /\ NeverLost'
        BY <1>10, <1>t, <1>s, <2>1, GotoFacts DEF MarkSent
    <2> QED
        BY <2>2, <2>3
<1>11. CASE MarkFailed(d)
    <2>1. CASE At(d, "failed") /\ Goto(d, "later") /\ Marked("Failed") /\ UNCHANGED said
        <3>1. TypeOK'
            BY <1>11, <1>t, <1>s, <2>1, GotoFacts DEF MarkFailed, Marked, TypeOK, DrainType, States
        <3>2. Placed' /\ Accounted' /\ NeverLost'
            BY <1>11, <1>t, <1>s, <2>1, GotoFacts DEF MarkFailed
        <3> QED
            BY <3>1, <3>2
    <2>2. CASE At(d, "refused") /\ Goto(d, "dropped") /\ Marked("Refused") /\ said' = said \cup {drain[d].row}
        <3>1. Goto(d, "dropped") /\ drain[d].row \in 1..last /\ UNCHANGED <<rows, last, accepted, withdrawn>>
            BY <1>11, <2>2 DEF MarkFailed
        <3>2. TypeOK'
            BY <1>11, <1>t, <1>s, <2>2, <3>1, GotoFacts DEF MarkFailed, Marked, TypeOK, DrainType, States
        <3>3. Placed' /\ Accounted'
            BY <1>t, <1>s, <2>2, <3>1, GotoFacts
        <3>4. NeverLost'
            BY <2>2, <3>1
        <3> QED
            BY <3>2, <3>3, <3>4
    <2> QED
        BY <1>11, <2>1, <2>2 DEF MarkFailed
<1>12. CASE SettleFailed(d)
    <2>1. /\ Stop(d) /\ ready' = ready \ {drain[d].row}
          /\ (At(d, "later") /\ rows' = rows) \/ (At(d, "dropped") /\ rows' = rows \ {drain[d].row})
          /\ UNCHANGED <<draft, last, page, accepted, withdrawn, regretted, said, again, faults>>
        BY <1>12 DEF SettleFailed
    <2>2. TypeOK'
        BY <1>t, <2>1, StopFacts DEF TypeOK, DrainType
    <2>3. Placed' /\ Accounted'
        BY <1>t, <2>1, StopFacts
    <2>4. NeverLost'
        BY <2>1
    <2> QED
        BY <2>2, <2>3, <2>4
<1>13. CASE SubmitRefused(d)
    <2>1. \/ Goto(d, "failed") \/ Goto(d, "refused")
        BY <1>13 DEF SubmitRefused
    <2>2. faults' \in 0..MaxFaults /\ At(d, "marked")
        BY <1>13 DEF SubmitRefused, Fault, TypeOK
    <2>3. ASSUME NEW stage \in {"failed", "refused"}, Goto(d, stage) PROVE KInv'
        BY <1>13, <1>t, <1>s, <2>2, <2>3, GotoFacts DEF SubmitRefused, TypeOK, DrainType
    <2> QED
        BY <2>1, <2>3
<1>14. CASE SubmitCancelled(d)
    <2>1. Goto(d, "refused") /\ At(d, "marked") /\ faults' \in 0..MaxFaults
        BY <1>14 DEF SubmitCancelled, Fault, TypeOK
    <2> QED
        BY <1>14, <1>t, <1>s, <2>1, GotoFacts DEF SubmitCancelled, TypeOK, DrainType
<1>15. CASE Crash(d)
    <2>1. Stop(d) /\ faults' \in 0..MaxFaults
        BY <1>15 DEF Crash, Fault, TypeOK
    <2>2. unwritten' \subseteq 1..last
        <3>1. drain[d].at = "accepted" => drain[d].row \in 1..last
            OBVIOUS
        <3> QED
            BY <1>15, <3>1 DEF Crash, Unwritten, TypeOK
    <2> QED
        BY <1>15, <1>t, <2>1, <2>2, StopFacts DEF Crash, TypeOK, DrainType
<1>16. CASE SubmitAgain(d)
    <2>1. Accepts(d) /\ faults' \in 0..MaxFaults /\ Unwritten(d) /\ UNCHANGED drain
        BY <1>16 DEF SubmitAgain, Fault, TypeOK
    <2>2. drain[d].at = "marked"
        BY <2>1 DEF Accepts
    <2>3. Placed' /\ Accounted'
        BY <1>5, <1>b, <2>1, <2>2
    <2> QED
        BY <1>6, <1>t, <2>1, <2>3
<1> QED
    BY <1>1, <1>2, <1>3, <1>4, <1>7, <1>8, <1>9, <1>10, <1>11, <1>12, <1>13, <1>14, <1>15, <1>16 DEF Step, Fails

LEMMA StutterKInv == KInv /\ UNCHANGED vars => KInv'
BY DEF KInv, TypeOK, Placed, Accounted, NeverLost, At, vars

LEMMA KInvHolds == Spec => []KInv
<1>1. KInv /\ [Next]_vars => KInv'
    BY PersonKInv, DrainKInv, StutterKInv DEF Next
<1> QED
    BY InitKInv, <1>1, PTL DEF Spec

\* Every variable keeps its type, and what is due is in the outbox.
THEOREM SendingTypes == Spec => []TypeOK
<1>1. KInv => TypeOK
    BY DEF KInv
<1> QED
    BY KInvHolds, <1>1, PTL

\* No submission is ever lost unsaid, whatever fails, whoever takes it back and however many
\* drains settle it (settle's order of Mark and SettleRow).
THEOREM SendingLosesNone == Spec => []NeverLost
<1>1. KInv => NeverLost
    BY DEF KInv
<1> QED
    BY KInvHolds, <1>1, PTL

-----------------------------------------------------------------------------
(* One submission of a draft, and one for a draft that says it is queued.  *)

Past == {"marked", "accepted", "settled", "failed", "later", "refused", "dropped"}

\* Without the composer's saves: a draft being written has nothing in the outbox, and no drain
\* that has begun an attempt holds the submission of a draft that says it is queued.
QInv ==
    /\ page.doing # "save"
    /\ draft \in {"Editing", "Gone"} => rows = {}
    /\ OneRow /\ QueuedHasRow
    /\ draft \in {"Queued", "Scheduled"} =>
          \A d \in Drains : drain[d].at \in Past => drain[d].row \notin rows

LEMMA PersonQInv ==
    ASSUME "Save" \notin Acts PROVE KInv /\ QInv /\ (Person \/ ComeDue) => QInv'
<1> SUFFICES ASSUME "Save" \notin Acts, KInv, QInv, Person \/ ComeDue PROVE QInv'
    OBVIOUS
<1> USE DEF QInv, OneRow, QueuedHasRow
<1>1. CASE Queue
    <2>1. rows' = {last + 1}
        BY <1>1 DEF Queue, Pulled
    <2>2. \A d \in Drains : drain[d].at \in Past => drain[d].row # last + 1
        BY DEF KInv, Placed, Past, TypeOK
    <2> QED
        BY <1>1, <2>1, <2>2 DEF Queue
<1>2. CASE Unsend
    BY <1>2 DEF Unsend, DeleteDraft
<1>3. CASE DiscardRead
    BY <1>3 DEF DiscardRead, NoPage
<1>4. CASE DiscardWrite
    BY <1>4 DEF DiscardWrite, DeleteDraft, NoPage
<1>5. CASE SaveRead
    BY <1>5 DEF SaveRead
<1>6. CASE SaveWrite
    BY <1>6 DEF SaveWrite
<1>7. CASE ComeDue
    BY <1>7 DEF ComeDue
<1> QED
    BY <1>1, <1>2, <1>3, <1>4, <1>5, <1>6, <1>7 DEF Person

LEMMA DrainQInv ==
    ASSUME NEW d \in Drains PROVE KInv /\ QInv /\ (Step(d) \/ Fails(d)) => QInv'
<1> SUFFICES ASSUME KInv, QInv, Step(d) \/ Fails(d) PROVE QInv'
    OBVIOUS
<1> USE DEF QInv, OneRow, QueuedHasRow
<1>t. drain \in DrainType
    BY DEF KInv, TypeOK, DrainType
<1>1. CASE DrainList(d) \/ DrainAddress(d) \/ DrainEnd(d)
    <2>1. drain'[d].at \notin Past /\ \A e \in Drains : e # d => drain'[e] = drain[e]
        BY <1>1, <1>t DEF DrainList, DrainAddress, DrainEnd, Stop, Idle, Past, DrainType, At
    <2>2. UNCHANGED <<draft, rows, page>>
        BY <1>1 DEF DrainList, DrainAddress, DrainEnd
    <2> QED
        BY <2>1, <2>2
<1>2. CASE MarkSending(d) \/ MarkSent(d) \/ MarkFailed(d)
    BY <1>2 DEF MarkSending, MarkSent, MarkFailed, Marked
<1>3. CASE SubmitAccepted(d) \/ SubmitLost(d) \/ SubmitRefused(d)
           \/ SubmitCancelled(d) \/ Crash(d)
    <2>1. UNCHANGED <<draft, rows, page>>
        BY <1>3 DEF SubmitAccepted, SubmitLost, SubmitRefused, SubmitCancelled, Crash, Accepts
    <2>2. \/ Stop(d)
          \/ drain[d].at \in Past /\ \E stage \in Stages : Goto(d, stage)
        BY <1>3 DEF SubmitAccepted, SubmitLost, SubmitRefused, SubmitCancelled, Crash, Accepts, At, Past, Stages
    <2>3. CASE Stop(d)
        BY <1>t, <2>1, <2>3, StopFacts DEF Past
    <2>4. ASSUME NEW stage \in Stages, drain[d].at \in Past, Goto(d, stage) PROVE QInv'
        BY <1>t, <2>1, <2>4, GotoFacts
    <2> QED
        BY <2>2, <2>3, <2>4
<1>4. CASE SettleOk(d) \/ SettleFailed(d)
    <2>1. /\ rows' = rows \/ rows' = rows \ {drain[d].row}
          /\ UNCHANGED <<draft, page>>
          /\ drain[d].at \in Past
        BY <1>4 DEF SettleOk, SettleFailed, At, Past
    <2>2. Stop(d) \/ Goto(d, "settled")
        BY <1>4 DEF SettleOk, SettleFailed, Settles
    <2>3. \A e \in Drains : drain'[e].at \in Past => drain[e].at \in Past /\ drain'[e].row = drain[e].row
        <3>1. CASE Stop(d)
            BY <1>t, <3>1, StopFacts DEF Past
        <3>2. CASE Goto(d, "settled")
            BY <1>t, <2>1, <3>2, GotoFacts DEF Stages
        <3> QED
            BY <2>2, <3>1, <3>2
    <2>4. draft \in {"Queued", "Scheduled"} => rows' = rows
        BY <2>1
    <2> QED
        BY <2>1, <2>3, <2>4
<1>5. CASE SubmitAgain(d)
    BY <1>5 DEF SubmitAgain, Accepts
<1> QED
    BY <1>1, <1>2, <1>3, <1>4, <1>5 DEF Step, Fails

LEMMA QInvHolds == ASSUME "Save" \notin Acts PROVE Spec => []QInv
<1>1. Init => QInv
    BY DEF Init, QInv, OneRow, QueuedHasRow, NoPage
<1>2. KInv /\ QInv /\ [Next]_vars => QInv'
    <2>1. KInv /\ QInv /\ UNCHANGED vars => QInv'
        BY DEF QInv, OneRow, QueuedHasRow, vars
    <2> QED
        BY <2>1, PersonQInv, DrainQInv DEF Next
<1> QED
    BY <1>1, <1>2, KInvHolds, PTL DEF Spec

\* Sending again leaves one submission in the outbox (freeze, Frozen::commit), unless a save of
\* the composer puts back a state it read before.
THEOREM SendingLeavesOne == ASSUME "Save" \notin Acts PROVE Spec => []OneRow
<1>1. QInv => OneRow
    BY DEF QInv
<1> QED
    BY QInvHolds, <1>1, PTL

\* A draft that says it is queued or scheduled has a submission in the outbox, however its
\* drains are cut off (MarkSending before the attempt; settle's order), under the same proviso.
THEOREM QueuedIsHeld == ASSUME "Save" \notin Acts PROVE Spec => []QueuedHasRow
<1>1. QInv => QueuedHasRow
    BY DEF QInv
<1> QED
    BY QInvHolds, <1>1, PTL
-----------------------------------------------------------------------------
(* Nothing is sent again but what was lost, cut off or shared.              *)

\* The excused: an acceptance nothing was written of, or a row two drains had in hand at once.
Excused(r) == r \in unwritten \cup shared

\* Any other submission is in the hand of one drain at most; once accepted, no drain is still to
\* submit it, and while its row is in the outbox the drain that heard of it has it in hand.
OInv ==
    /\ \A r \in Ids : r > last => accepted[r] = 0
    /\ \A r \in Ids : ~Excused(r) =>
          /\ accepted[r] <= 1
          /\ \A d, e \in Drains : InHand(d, r) /\ InHand(e, r) => d = e
          /\ accepted[r] = 1 => \A d \in Drains : InHand(d, r) => drain[d].at = "accepted"
          /\ accepted[r] = 1 /\ r \in rows => \E d \in Drains : InHand(d, r)

LEMMA PersonOInv == KInv /\ OInv /\ (Person \/ ComeDue) => OInv'
<1> SUFFICES ASSUME KInv, OInv, Person \/ ComeDue PROVE OInv'
    OBVIOUS
<1> USE DEF OInv, Excused, InHand
<1>1. CASE Queue
    <2>1. last + 1 \in Ids /\ accepted[last + 1] = 0 /\ last \in Nat
        BY <1>1, SendingAssumption DEF Queue, KInv, TypeOK, Ids
    <2>2. \A r \in Ids : r > last' => accepted[r] = 0
        BY <1>1, <2>1 DEF Queue, Ids
    <2>3. UNCHANGED <<drain, accepted, unwritten, shared>> /\ rows' \subseteq rows \cup {last + 1}
        BY <1>1 DEF Queue, again
    <2> QED
        BY <2>1, <2>2, <2>3
<1>2. CASE Unsend \/ DiscardWrite
    BY <1>2 DEF Unsend, DiscardWrite, DeleteDraft, again
<1>3. CASE DiscardRead \/ SaveRead \/ SaveWrite \/ ComeDue
    BY <1>3 DEF DiscardRead, SaveRead, SaveWrite, ComeDue, again
<1> QED
    BY <1>1, <1>2, <1>3 DEF Person

\* A step of d that accepts nothing, and leaves in hand no more than was.
LEMMA LetGoOInv ==
    ASSUME OInv, NEW d \in Drains, UNCHANGED <<accepted, last>>,
           rows' \subseteq rows, unwritten \subseteq unwritten', shared \subseteq shared',
           \A e \in Drains : e # d => drain'[e] = drain[e],
           \A r \in Ids : InHand(d, r)' => InHand(d, r) /\ drain'[d].at # "accepted"
                                           /\ drain[d].at # "accepted",
           \A r \in Ids : InHand(d, r) /\ ~InHand(d, r)' /\ r \in rows' /\ accepted[r] = 1
               => r \in unwritten' \cup shared'
    PROVE  OInv'
<1>1. ASSUME NEW r \in Ids, NEW e \in Drains, InHand(e, r)' PROVE InHand(e, r)
    BY <1>1 DEF InHand
<1> QED
    BY <1>1 DEF OInv, Excused, InHand

LEMMA DrainOInv ==
    ASSUME NEW d \in Drains PROVE KInv /\ OInv /\ (Step(d) \/ Fails(d)) => OInv'
<1> SUFFICES ASSUME KInv, OInv, Step(d) \/ Fails(d) PROVE OInv'
    OBVIOUS
<1>t. drain \in DrainType
    BY DEF KInv, TypeOK, DrainType
<1>r. rows \subseteq Ids /\ accepted \in [Ids -> Nat] /\ last \in Nat
    BY SendingAssumption DEF KInv, TypeOK, Ids
<1>1. CASE DrainList(d) \/ DrainEnd(d) \/ MarkSent(d) \/ SettleFailed(d) \/ MarkFailed(d)
           \/ SubmitRefused(d) \/ SubmitCancelled(d)
    <2>1. /\ UNCHANGED <<accepted, last, unwritten, shared>> /\ rows' \subseteq rows
          /\ drain[d].at # "accepted"
        BY <1>1 DEF DrainList, DrainEnd, MarkSent, SettleFailed, MarkFailed, SubmitRefused,
            SubmitCancelled, again, At
    <2>2. /\ drain'[d].at \notin {"addressed", "marked", "accepted"}
          /\ \A e \in Drains : e # d => drain'[e] = drain[e]
        <3>1. CASE DrainList(d)
            BY <1>t, <3>1 DEF DrainList, DrainType
        <3>2. CASE Stop(d)
            BY <1>t, <3>2, StopFacts
        <3>3. ASSUME NEW stage \in {"walk", "failed", "refused", "later", "dropped"}, Goto(d, stage)
              PROVE  /\ drain'[d].at = stage
                     /\ \A e \in Drains : e # d => drain'[e] = drain[e]
            BY <1>t, <3>3, GotoFacts DEF Stages
        <3>4. DrainList(d) \/ Stop(d)
                 \/ \E stage \in {"walk", "failed", "refused", "later", "dropped"} : Goto(d, stage)
            BY <1>1 DEF DrainEnd, MarkSent, SettleFailed, MarkFailed, SubmitRefused, SubmitCancelled
        <3> QED
            BY <3>1, <3>2, <3>3, <3>4
    <2>3. \A r \in Ids : InHand(d, r) => r \notin rows \/ accepted[r] # 1 \/ Excused(r)
        BY <2>1 DEF OInv, InHand
    <2> QED
        BY <2>1, <2>2, <2>3, LetGoOInv DEF InHand, Excused
<1>2. CASE DrainAddress(d)
    <2>1. PICK r \in drain[d].list :
              /\ drain' = [drain EXCEPT ![d] =
                    [at |-> IF r \in rows THEN "addressed" ELSE "walk",
                     row |-> r, list |-> @.list \ {r}]]
              /\ shared' = IF r \in rows /\ \E e \in Drains : InHand(e, r)
                           THEN shared \cup {r} ELSE shared
        BY <1>2 DEF DrainAddress
    <2>2. drain[d].at = "walk" /\ UNCHANGED <<rows, last, accepted, unwritten>>
        BY <1>2 DEF DrainAddress, At
    <2>3. /\ drain'[d].row = r
          /\ drain'[d].at = "walk" \/ (r \in rows /\ drain'[d].at = "addressed")
          /\ \A e \in Drains : e # d => drain'[e] = drain[e]
        BY <1>t, <2>1 DEF DrainType
    <2>4. ASSUME NEW q \in Ids, ~Excused(q)' PROVE
              /\ accepted[q] <= 1
              /\ \A c, e \in Drains : InHand(c, q)' /\ InHand(e, q)' => c = e
              /\ accepted[q] = 1 => \A c \in Drains : InHand(c, q)' => drain'[c].at = "accepted"
              /\ accepted[q] = 1 /\ q \in rows => \E c \in Drains : InHand(c, q)'
        <3>1. ~Excused(q)
            BY <2>1, <2>2, <2>4 DEF Excused
        <3>2. \A e \in Drains : e # d => (InHand(e, q)' <=> InHand(e, q))
            BY <2>3 DEF InHand
        <3>3. ~InHand(d, q)
            BY <2>2 DEF InHand
        <3>4. InHand(d, q)' => q = r /\ r \in rows
            BY <2>3 DEF InHand
        <3>5. InHand(d, q)' => \A e \in Drains : ~InHand(e, q)
            BY <2>1, <2>4, <3>4 DEF Excused
        <3>6. InHand(d, q)' => accepted[q] # 1
            BY <3>1, <3>4, <3>5 DEF OInv
        <3> QED
            BY <2>3, <3>1, <3>2, <3>3, <3>5, <3>6 DEF OInv
    <2> QED
        BY <2>2, <2>4 DEF OInv
<1>3. CASE MarkSending(d)
    <2>1. /\ Goto(d, "marked") /\ drain[d].at = "addressed"
          /\ UNCHANGED <<accepted, last, rows, unwritten, shared>>
        BY <1>3 DEF MarkSending, again, At
    <2>2. /\ drain'[d].at = "marked" /\ drain'[d].row = drain[d].row
          /\ \A e \in Drains : e # d => drain'[e] = drain[e]
        BY <1>t, <2>1, GotoFacts DEF Stages
    <2>3. \A e \in Drains, r \in Ids : InHand(e, r)' <=> InHand(e, r)
        BY <2>1, <2>2 DEF InHand
    <2> QED
        BY <2>1, <2>2, <2>3 DEF OInv, Excused
<1>4. ASSUME Accepts(d) PROVE
          /\ drain[d].at = "marked" /\ drain[d].row \in Ids /\ drain[d].row <= last
          /\ accepted'[drain[d].row] = accepted[drain[d].row] + 1
          /\ \A r \in Ids : r # drain[d].row => accepted'[r] = accepted[r]
          /\ UNCHANGED <<rows, last, shared>>
    <2>1. /\ drain[d].at = "marked" /\ UNCHANGED <<rows, last, shared>>
          /\ accepted' = [accepted EXCEPT ![drain[d].row] = @ + 1]
        BY <1>4 DEF Accepts, At
    <2>2. drain[d].row \in Ids /\ drain[d].row <= last
        BY <2>1 DEF KInv, Placed, TypeOK, Ids
    <2> QED
        BY <1>r, <2>1, <2>2
<1>5. CASE SubmitAccepted(d)
    <2>1. Accepts(d) /\ Goto(d, "accepted") /\ UNCHANGED unwritten
        BY <1>5 DEF SubmitAccepted
    <2>2. /\ drain'[d].at = "accepted" /\ drain'[d].row = drain[d].row
          /\ \A e \in Drains : e # d => drain'[e] = drain[e]
        BY <1>t, <2>1, GotoFacts DEF Stages
    <2>3. \A e \in Drains, r \in Ids : InHand(e, r)' <=> InHand(e, r)
        BY <1>4, <2>1, <2>2 DEF InHand
    <2>4. \A r \in Ids : Excused(r)' <=> Excused(r)
        BY <1>4, <2>1 DEF Excused
    <2>5. InHand(d, drain[d].row) /\ drain[d].at # "accepted"
        BY <1>4, <2>1 DEF InHand
    <2>6. ~Excused(drain[d].row) =>
              accepted[drain[d].row] = 0 /\ \A e \in Drains : InHand(e, drain[d].row) => e = d
        BY <1>4, <1>r, <2>1, <2>5 DEF OInv
    <2>7. \A r \in Ids : r > last' => accepted'[r] = 0
        BY <1>4, <1>r, <2>1 DEF OInv, Ids
    <2>8. ASSUME NEW r \in Ids, ~Excused(r)' PROVE
              /\ accepted'[r] <= 1
              /\ \A c, e \in Drains : InHand(c, r)' /\ InHand(e, r)' => c = e
              /\ accepted'[r] = 1 => \A c \in Drains : InHand(c, r)' => drain'[c].at = "accepted"
              /\ accepted'[r] = 1 /\ r \in rows' => \E c \in Drains : InHand(c, r)'
        <3>1. CASE r = drain[d].row
            BY <1>4, <2>1, <2>2, <2>3, <2>4, <2>5, <2>6, <2>8, <3>1
        <3>2. CASE r # drain[d].row
            <4>1. ~InHand(d, r)
                BY <3>2 DEF InHand
            <4> QED
                BY <1>4, <2>1, <2>2, <2>3, <2>4, <2>8, <3>2, <4>1 DEF OInv
        <3> QED
            BY <3>1, <3>2
    <2> QED
        BY <2>7, <2>8 DEF OInv
<1>6. CASE SubmitLost(d) \/ SubmitAgain(d)
    <2>1. Accepts(d) /\ unwritten' = unwritten \cup {drain[d].row}
        BY <1>6 DEF SubmitLost, SubmitAgain, Unwritten
    <2>2. /\ \A e \in Drains : e # d => drain'[e] = drain[e]
          /\ drain'[d].row = drain[d].row
        <3>1. UNCHANGED drain \/ Goto(d, "failed") \/ Goto(d, "refused")
            BY <1>6 DEF SubmitLost, SubmitAgain
        <3> QED
            BY <1>t, <3>1, GotoFacts DEF Stages
    <2>3. \A r \in Ids : r > last' => accepted'[r] = 0
        BY <1>4, <1>r, <2>1 DEF OInv, Ids
    <2>4. ASSUME NEW r \in Ids, ~Excused(r)' PROVE
              /\ ~Excused(r) /\ accepted'[r] = accepted[r]
              /\ \A e \in Drains : InHand(e, r)' <=> InHand(e, r)
              /\ \A e \in Drains : InHand(e, r) => drain'[e] = drain[e]
        BY <1>4, <2>1, <2>2, <2>4 DEF Excused, InHand
    <2> QED
        BY <1>4, <2>1, <2>3, <2>4 DEF OInv
<1>7. CASE SettleOk(d)
    <2>1. /\ drain[d].at = "accepted" /\ rows' = rows \ {drain[d].row}
          /\ UNCHANGED <<last, accepted, unwritten, shared>>
          /\ Goto(d, "settled") \/ Stop(d)
        BY <1>7 DEF SettleOk, Settles, again, At
    <2>2. /\ drain'[d].at \in {"settled", "idle"}
          /\ \A e \in Drains : e # d => drain'[e] = drain[e]
        BY <1>t, <2>1, GotoFacts, StopFacts DEF Stages
    <2> QED
        BY <2>1, <2>2, LetGoOInv DEF InHand
<1>8. CASE Crash(d)
    <2>1. /\ Stop(d) /\ UNCHANGED <<last, accepted, shared, rows>>
          /\ unwritten \subseteq unwritten'
          /\ drain[d].at = "accepted" => drain[d].row \in unwritten'
        BY <1>8 DEF Crash, Unwritten, At
    <2>2. drain'[d].at = "idle" /\ \A e \in Drains : e # d => drain'[e] = drain[e]
        BY <1>t, <2>1, StopFacts
    <2>3. \A r \in Ids : InHand(d, r) /\ drain[d].at # "accepted" =>
              accepted[r] # 1 \/ Excused(r)
        BY DEF OInv
    <2> QED
        BY <2>1, <2>2, <2>3, LetGoOInv DEF InHand, Excused
<1> QED
    BY <1>1, <1>2, <1>3, <1>5, <1>6, <1>7, <1>8 DEF Step, Fails

\* No submission is accepted twice, with any number of drains, faults and changes of mind, unless
\* an acceptance was lost or cut off before its row was settled, or two drains had it at once.
THEOREM SendsAgainOnlyUnknowing == Spec => []NotSentAgain
<1>1. Init => OInv
    BY DEF Init, OInv, Idle, InHand
<1>2. KInv /\ OInv /\ [Next]_vars => OInv'
    <2>1. KInv /\ OInv /\ UNCHANGED vars => OInv'
        BY DEF OInv, Excused, InHand, vars
    <2> QED
        BY <2>1, PersonOInv, DrainOInv DEF Next
<1>3. KInv /\ OInv => NotSentAgain
    BY DEF OInv, Excused, NotSentAgain, KInv, TypeOK
<1> QED
    BY <1>1, <1>2, <1>3, KInvHolds, PTL DEF Spec

-----------------------------------------------------------------------------
(* Sending implements Delivery.                                             *)

\* Nothing is lost, so every submission has one of Delivery's fates, before a step and after.
Fated == \A r \in Ids : Fate[r] \in Promise!Fates

LEMMA FateTyped ==
    /\ KInv => Fate \in [Ids -> Promise!Fates]
    /\ KInv' => Fate' \in [Ids -> Promise!Fates]
<1>1. KInv => Fated
    BY SendingAssumption DEF KInv, TypeOK, Ids, Fated, Fate, NeverLost, Promise!Fates
<1>2. KInv' => Fated'
    BY <1>1, PTL
<1> QED
    BY <1>1, <1>2 DEF Fated, Fate

LEMMA FateKept == UNCHANGED <<rows, last, accepted, withdrawn, said>> => Fate' = Fate
BY DEF Fate

\* The person's steps are the promise's.
LEMMA PersonKeeps ==
    ASSUME "Save" \notin Acts
    PROVE  KInv /\ KInv' /\ QInv /\ (Person \/ ComeDue) => Promise!Next \/ Fate' = Fate
<1> SUFFICES ASSUME KInv, KInv', QInv, Person \/ ComeDue PROVE Promise!Next \/ Fate' = Fate
    OBVIOUS
<1>0. Fate' \in [Ids -> Promise!Fates]
    BY FateTyped
<1>t. /\ last \in Nat /\ rows \subseteq 1..last /\ accepted \in [Ids -> Nat]
      /\ Ids \subseteq Nat /\ MaxRows \in Nat
    BY SendingAssumption DEF KInv, TypeOK, Ids
<1>1. CASE Queue
    <2>1. /\ rows' = {last + 1} /\ withdrawn \cup rows = withdrawn' /\ last' = last + 1
          /\ last < MaxRows /\ UNCHANGED <<accepted, said>>
        BY <1>1 DEF Queue, Pulled, QInv
    <2>2. last + 1 \in Ids
        BY <1>t, <2>1 DEF Ids
    <2>3. Fate[last + 1] = "unqueued" /\ Fate'[last + 1] = "held"
        BY <1>t, <2>1, <2>2 DEF Fate
    <2>4. \A q \in Ids : Fate[q] = "unqueued" => q >= last + 1
        BY <1>t DEF Fate
    <2>5. \A q \in Ids \ {last + 1} : Promise!Withdrawn(q)
        BY <1>t, <2>1 DEF Fate, Promise!Withdrawn
    <2> QED
        BY <1>0, <2>2, <2>3, <2>4, <2>5 DEF Promise!Next, Promise!Queue
<1>2. CASE Unsend \/ DiscardWrite
    <2>1. rows' = {} /\ withdrawn' = withdrawn \cup rows /\ UNCHANGED <<last, accepted, said>>
        BY <1>2 DEF Unsend, DiscardWrite, DeleteDraft
    <2>2. \A r \in Ids : Promise!Withdrawn(r)
        BY <1>t, <2>1 DEF Fate, Promise!Withdrawn
    <2> QED
        BY <1>0, <2>2 DEF Promise!Next, Promise!TakeBack
<1>3. CASE DiscardRead \/ SaveRead \/ SaveWrite \/ ComeDue
    BY <1>3, FateKept DEF DiscardRead, SaveRead, SaveWrite, ComeDue
<1> QED
    BY <1>1, <1>2, <1>3 DEF Person

\* So are the drains': most change no fate, and one that settles or is accepted changes one.
LEMMA DrainKeeps ==
    ASSUME NEW d \in Drains
    PROVE  KInv /\ KInv' /\ QInv /\ (Step(d) \/ Fails(d)) => Promise!Next \/ Fate' = Fate
<1> SUFFICES ASSUME KInv, KInv', QInv, Step(d) \/ Fails(d) PROVE Promise!Next \/ Fate' = Fate
    OBVIOUS
<1> DEFINE r == drain[d].row
<1>0. Fate \in [Ids -> Promise!Fates] /\ Fate' \in [Ids -> Promise!Fates]
    BY FateTyped
<1>t. /\ last \in Nat /\ rows \subseteq 1..last /\ accepted \in [Ids -> Nat]
      /\ Ids \subseteq Nat /\ MaxRows \in Nat
      /\ ~(At(d, "idle") \/ At(d, "walk")) => r \in 1..last /\ r \in Ids
    BY SendingAssumption DEF KInv, TypeOK, Ids, Placed, At
<1>u. ASSUME r \in Ids, Fate[r] \in {"held", "refused", "taken"}, Fate'[r] = "sent",
             \A q \in Ids : q # r => Fate'[q] = Fate[q]
      PROVE  Promise!Next
    BY <1>0, <1>u DEF Promise!Next, Promise!Deliver
<1>1. CASE DrainList(d) \/ DrainAddress(d) \/ DrainEnd(d) \/ MarkSending(d) \/ MarkSent(d)
           \/ SubmitRefused(d) \/ SubmitCancelled(d) \/ Crash(d)
    BY <1>1, FateKept DEF DrainList, DrainAddress, DrainEnd, MarkSending, MarkSent, SubmitRefused,
        SubmitCancelled, Crash
<1>2. CASE SubmitAccepted(d) \/ SubmitLost(d) \/ SubmitAgain(d)
    <2>1. /\ At(d, "marked") /\ accepted' = [accepted EXCEPT ![r] = @ + 1]
          /\ UNCHANGED <<rows, last, withdrawn, said>>
        BY <1>2 DEF SubmitAccepted, SubmitLost, SubmitAgain, Accepts
    <2>2. r \in 1..last /\ r \in Ids
        BY <1>t, <2>1 DEF At
    <2>3. accepted'[r] > 0 /\ \A q \in Ids : q # r => accepted'[q] = accepted[q]
        BY <1>t, <2>1, <2>2
    <2>4. \A q \in Ids : q # r => Fate'[q] = Fate[q]
        BY <2>1, <2>3 DEF Fate
    <2>5. CASE r \in rows
        <3>1. Fate'[r] = Fate[r]
            BY <1>t, <2>1, <2>2, <2>5 DEF Fate
        <3> QED
            BY <1>0, <2>4, <3>1
    <2>6. CASE r \notin rows
        <3>1. Fate[r] \in {"sent", "refused", "taken"} /\ Fate'[r] = "sent"
            BY <1>t, <2>1, <2>2, <2>3, <2>6 DEF Fate, KInv, NeverLost
        <3>2. CASE Fate[r] = "sent"
            BY <1>0, <2>4, <3>1, <3>2
        <3> QED
            BY <1>u, <2>2, <2>4, <3>1, <3>2
    <2> QED
        BY <2>5, <2>6
<1>3. CASE SettleOk(d)
    <2>1. /\ At(d, "accepted") /\ rows' = rows \ {r}
          /\ UNCHANGED <<last, accepted, withdrawn, said>>
        BY <1>3 DEF SettleOk
    <2>2. r \in 1..last /\ r \in Ids /\ accepted[r] > 0
        BY <1>t, <2>1 DEF At, KInv, Accounted
    <2>3. \A q \in Ids : q # r => Fate'[q] = Fate[q]
        BY <2>1 DEF Fate
    <2>4. Fate'[r] = "sent" /\ Fate[r] \in {"held", "sent"}
        BY <1>t, <2>1, <2>2 DEF Fate
    <2>5. CASE Fate[r] = "sent"
        BY <1>0, <2>3, <2>4, <2>5
    <2> QED
        BY <1>u, <2>2, <2>3, <2>4, <2>5
<1>4. CASE MarkFailed(d)
    <2>1. /\ ~(At(d, "idle") \/ At(d, "walk")) /\ said \subseteq said' /\ said' \subseteq said \cup {r}
          /\ UNCHANGED <<rows, last, accepted, withdrawn>>
        BY <1>4 DEF MarkFailed, At
    <2>2. \A q \in Ids : Fate'[q] = Fate[q]
        BY <1>t, <2>1 DEF Fate, KInv, NeverLost
    <2> QED
        BY <1>0, <2>2
<1>5. CASE SettleFailed(d)
    <2>1. /\ \/ UNCHANGED rows
             \/ At(d, "dropped") /\ rows' = rows \ {r}
          /\ UNCHANGED <<last, accepted, withdrawn, said>>
        BY <1>5 DEF SettleFailed
    <2>2. CASE UNCHANGED rows
        BY <2>1, <2>2, FateKept
    <2>3. CASE At(d, "dropped") /\ rows' = rows \ {r}
        <3>1. r \in 1..last /\ r \in Ids /\ r \in said
            BY <1>t, <2>3 DEF At, KInv, Accounted
        <3>2. \A q \in Ids : q # r => Fate'[q] = Fate[q]
            BY <2>1, <2>3 DEF Fate
        <3>3. Fate'[r] = Fate[r] \/ (Fate[r] = "held" /\ Fate'[r] \in {"sent", "taken", "refused"})
            BY <1>t, <2>1, <2>3, <3>1 DEF Fate
        <3>4. CASE Fate'[r] = Fate[r]
            BY <1>0, <3>2, <3>4
        <3>5. CASE Fate[r] = "held" /\ Fate'[r] = "sent"
            BY <1>u, <3>1, <3>2, <3>5
        <3>6. CASE Fate[r] = "held" /\ Fate'[r] = "refused"
            BY <1>0, <3>1, <3>2, <3>6 DEF Promise!Next, Promise!Refuse
        <3>7. CASE Fate[r] = "held" /\ Fate'[r] = "taken"
            <4>1. \A q \in Ids : Fate[q] = "held" => q = r
                BY <1>t, <3>1, <3>7 DEF Fate, QInv, OneRow
            <4>2. \A q \in Ids : Promise!Withdrawn(q)
                BY <3>1, <3>2, <3>7, <4>1 DEF Promise!Withdrawn
            <4> QED
                BY <1>0, <4>2 DEF Promise!Next, Promise!TakeBack
        <3> QED
            BY <3>3, <3>4, <3>5, <3>6, <3>7
    <2> QED
        BY <2>1, <2>2, <2>3
<1> QED
    BY <1>1, <1>2, <1>3, <1>4, <1>5 DEF Step, Fails

\* Sending implements Delivery for every number of drains, submissions and faults, unless a save
\* of the composer puts back a state it read before (freeze, delete_draft, settle).
THEOREM SendingKeepsPromise == ASSUME "Save" \notin Acts PROVE Spec => KeepsPromise
<1>1. Init => Promise!Init
    BY SendingAssumption DEF Init, Promise!Init, Fate, Ids
<1>2. KInv /\ KInv' /\ QInv /\ [Next]_vars => [Promise!Next]_Fate
    <2>1. UNCHANGED vars => Fate' = Fate
        BY FateKept DEF vars
    <2> QED
        BY <2>1, PersonKeeps, DrainKeeps DEF Next
<1> QED
    BY <1>1, <1>2, KInvHolds, QInvHolds, PTL DEF Spec, KeepsPromise, Promise!Spec
=============================================================================
