------------------------------ MODULE Sending ------------------------------
(***************************************************************************)
(* One draft from Send to Sent: the draft's state, the submissions of it   *)
(* in the outbox, the drains that deliver them, and the person who queues, *)
(* takes back, discards and edits meanwhile (mail-core/src/compose.rs,     *)
(* compose/freeze.rs; mail-store/src/sqlite/draft.rs; the submissions of   *)
(* drain_pass and drain_into; mail-runtime/src/sending/settle.rs).         *)
(*                                                                         *)
(* A drain is a pass of one process: the window's, the `mailo watch'       *)
(* beside it, a `mailo sync'.  Nothing keeps two from the same account.    *)
(***************************************************************************)
EXTENDS Naturals, FiniteSets

CONSTANTS
    Drains,     \* the passes that may deliver the account's outbox
    Acts,       \* what the person may do besides Send
    Faults,     \* what may go wrong
    MaxRows,    \* bound: submissions ever queued
    MaxFaults   \* bound: faults

ASSUME SendingAssumption ==
    /\ Acts \subseteq {"Unsend", "Requeue", "Discard", "Save"}
    /\ Faults \subseteq {"Later", "Refuse", "Cancel", "Lost", "LetGo", "Crash"}
    /\ MaxRows \in Nat /\ MaxFaults \in Nat

VARIABLES
    draft,      \* the draft's SendState; Failed with a retry, or Refused for good; or Gone
    rows,       \* the draft's submissions in the outbox
    ready,      \* those of them whose next attempt has come
    last,       \* the newest submission ever queued
    drain,      \* where each drain is
    page,       \* what the composer or a discard has read and not yet written
    accepted,   \* history: how often the server accepted each submission
    withdrawn,  \* history: submissions taken back with their draft
    regretted,  \* history: submissions accepted after they were taken back
    said,       \* history: submissions whose refusal the draft was marked with
    unwritten,  \* history: submissions the server accepted with nothing written of it here
    shared,     \* history: submissions two drains had in hand at once
    faults      \* how many faults have happened

vars == <<draft, rows, ready, last, drain, page, accepted, withdrawn, regretted, said,
          unwritten, shared, faults>>
again == <<unwritten, shared>>

Ids == 1..MaxRows
OnWay == {"Queued", "Scheduled", "Sending"}
States == OnWay \cup {"Editing", "Sent", "Failed", "Refused"}
Stages == {"idle", "walk", "addressed", "marked", "accepted", "settled",
           "failed", "later", "refused", "dropped"}
Idle == [at |-> "idle", row |-> 0, list |-> {}]
NoPage == [doing |-> "nothing", base |-> "Editing"]

Init ==
    /\ draft = "Editing" /\ rows = {} /\ ready = {} /\ last = 0
    /\ drain = [d \in Drains |-> Idle]
    /\ page = NoPage
    /\ accepted = [r \in Ids |-> 0]
    /\ withdrawn = {} /\ regretted = {} /\ said = {}
    /\ unwritten = {} /\ shared = {} /\ faults = 0

-----------------------------------------------------------------------------
(* The person.  A send and a taking back are each one commit, refused as   *)
(* stale and decided again if the draft has changed since it was read, so  *)
(* each is one step; a save and a discard read first and write later.  A   *)
(* window makes its saves and discards one at a time (`page'); what another *)
(* process queues meanwhile waits for neither.                             *)

\* Mutation: a draft that is queued again keeps the submission it has.
PulledNothing == {}
\* freeze: an earlier submission of a draft queued, held or failing is pulled back.
Pulled == IF draft = "Editing" THEN {} ELSE rows

\* queue_inner and Frozen::commit, to leave now or later.
Queue ==
    /\ \/ draft = "Editing"
       \/ "Requeue" \in Acts /\ draft \in {"Queued", "Scheduled", "Failed", "Refused"}
    /\ last < MaxRows /\ last' = last + 1
    /\ rows' = (rows \ Pulled) \cup {last + 1}
    /\ withdrawn' = withdrawn \cup Pulled
    /\ \/ draft' = "Queued" /\ ready' = (ready \ Pulled) \cup {last + 1}
       \/ draft' = "Scheduled" /\ ready' = ready \ Pulled
    /\ UNCHANGED <<drain, page, accepted, regretted, said, again, faults>>

\* Mutation: the draft goes and its submissions stay.
DeleteDraftOnly == withdrawn' = withdrawn \cup rows /\ UNCHANGED <<rows, ready>>
\* delete_draft: the draft's submissions go with it.
DeleteDraft ==
    /\ withdrawn' = withdrawn \cup rows
    /\ rows' = {} /\ ready' = {}

\* unsend.
Unsend ==
    /\ "Unsend" \in Acts
    /\ draft \notin {"Gone", "Sending", "Sent"}
    /\ DeleteDraft /\ draft' = "Editing"
    /\ UNCHANGED <<last, drain, page, accepted, regretted, said, again, faults>>

\* discard reads that the draft is not on its way, ...
DiscardRead ==
    /\ "Discard" \in Acts
    /\ page = NoPage /\ draft \notin OnWay \cup {"Gone"}
    /\ page' = [NoPage EXCEPT !.doing = "discard"]
    /\ UNCHANGED <<draft, rows, ready, last, drain, accepted, withdrawn, regretted, said,
                   again, faults>>
\* ... and deletes it.
DiscardWrite ==
    /\ page.doing = "discard" /\ page' = NoPage
    /\ DeleteDraft /\ draft' = "Gone"
    /\ UNCHANGED <<last, drain, accepted, regretted, said, again, faults>>

\* A save of the composer's page reads the stored draft, whatever its state, ...
SaveRead ==
    /\ "Save" \in Acts
    /\ page = NoPage /\ draft # "Gone"
    /\ page' = [doing |-> "save", base |-> draft]
    /\ UNCHANGED <<draft, rows, ready, last, drain, accepted, withdrawn, regretted, said,
                   again, faults>>
\* ... and writes it whole with what the page says, its state as it was read.
SaveWrite ==
    /\ page.doing = "save" /\ page' = NoPage
    /\ draft' = page.base
    /\ UNCHANGED <<rows, ready, last, drain, accepted, withdrawn, regretted, said, again,
                   faults>>

\* Mutation: a row that backed off is given no next attempt.
ComeDueOnce == draft = "Scheduled" /\ \E r \in rows \ ready :
    /\ ready' = ready \cup {r}
    /\ UNCHANGED <<draft, rows, last, drain, page, accepted, withdrawn, regretted, said,
                   again, faults>>
\* The time of a submission comes: one scheduled, or one that backed off.
ComeDue == \E r \in rows \ ready :
    /\ ready' = ready \cup {r}
    /\ UNCHANGED <<draft, rows, last, drain, page, accepted, withdrawn, regretted, said,
                   again, faults>>

-----------------------------------------------------------------------------
(* A drain.                                                                 *)

At(d, stage) == drain[d].at = stage
Goto(d, stage) == drain' = [drain EXCEPT ![d].at = stage]
Stop(d) == drain' = [drain EXCEPT ![d] = Idle]
Fault(f) == f \in Faults /\ faults < MaxFaults /\ faults' = faults + 1

\* outbox_due, read once.
DrainList(d) ==
    /\ At(d, "idle") /\ ready # {}
    /\ drain' = [drain EXCEPT ![d] = [at |-> "walk", row |-> 0, list |-> ready]]
    /\ UNCHANGED <<draft, rows, ready, last, page, accepted, withdrawn, regretted, said,
                   again, faults>>

\* Drain d has row r in hand, and may yet submit or settle it.
InHand(d, r) == drain[d].row = r /\ drain[d].at \in {"addressed", "marked", "accepted"}

\* addressed: the next of the list, unless it is no longer in the outbox.
DrainAddress(d) ==
    /\ At(d, "walk")
    /\ \E r \in drain[d].list :
          /\ \A q \in drain[d].list : r <= q
          /\ drain' = [drain EXCEPT ![d] =
                [at |-> IF r \in rows THEN "addressed" ELSE "walk",
                 row |-> r, list |-> @.list \ {r}]]
          /\ shared' = IF r \in rows /\ \E e \in Drains : InHand(e, r)
                       THEN shared \cup {r} ELSE shared
    /\ UNCHANGED <<draft, rows, ready, last, page, accepted, withdrawn, regretted, said,
                   unwritten, faults>>

DrainEnd(d) ==
    /\ At(d, "walk") /\ drain[d].list = {}
    /\ Stop(d)
    /\ UNCHANGED <<draft, rows, ready, last, page, accepted, withdrawn, regretted, said,
                   again, faults>>

\* set_send_state changes the one column, and a draft that is gone stays so.
Marked(state) == draft' = IF draft = "Gone" THEN "Gone" ELSE state

\* Mutation: a draft is not marked as on its way before the attempt.
MarkNotYet(d) ==
    /\ At(d, "addressed") /\ Goto(d, "marked")
    /\ UNCHANGED <<draft, rows, ready, last, page, accepted, withdrawn, regretted, said,
                   again, faults>>
\* mark_draft(Sending), before the attempt.
MarkSending(d) ==
    /\ At(d, "addressed") /\ Goto(d, "marked")
    /\ Marked("Sending")
    /\ UNCHANGED <<rows, ready, last, page, accepted, withdrawn, regretted, said, again,
                   faults>>

\* The server takes the message ...
Accepts(d) ==
    /\ At(d, "marked")
    /\ accepted' = [accepted EXCEPT ![drain[d].row] = @ + 1]
    /\ regretted' = regretted \cup ({drain[d].row} \cap withdrawn)
    /\ UNCHANGED <<draft, rows, ready, last, page, withdrawn, said, shared>>
SubmitAccepted(d) == Accepts(d) /\ Goto(d, "accepted") /\ UNCHANGED <<unwritten, faults>>
Unwritten(d) == unwritten' = unwritten \cup {drain[d].row}
\* ... and its answer is lost, a failure to try again, or the pass is stopped before it; ...
SubmitLost(d) ==
    /\ Accepts(d) /\ Unwritten(d) /\ Fault("Lost")
    /\ \/ Goto(d, "failed")
       \/ "Cancel" \in Faults /\ Goto(d, "refused")
\* ... or a connection kept from an earlier message is let go before it, and submit goes again
\* at once on a new one; ...
SubmitAgain(d) == Accepts(d) /\ Unwritten(d) /\ Fault("LetGo") /\ UNCHANGED drain
\* ... or it refuses it for now or for good; ...
SubmitRefused(d) ==
    /\ At(d, "marked")
    /\ \/ Fault("Later") /\ Goto(d, "failed")
       \/ Fault("Refuse") /\ Goto(d, "refused")
    /\ UNCHANGED <<draft, rows, ready, last, page, accepted, withdrawn, regretted, said, again>>
\* ... or the pass is stopped: the SMTP session answers the interruption as a refusal for good.
SubmitCancelled(d) ==
    /\ At(d, "marked") /\ Fault("Cancel")
    /\ Goto(d, "refused")
    /\ UNCHANGED <<draft, rows, ready, last, page, accepted, withdrawn, regretted, said, again>>

\* outbox_settle: an error, which ends the drain, if the row has been taken out meanwhile.
Settles(d, next) ==
    IF drain[d].row \in rows THEN Goto(d, next) ELSE Stop(d)

\* Mutation: the row of an accepted message stays in the outbox.
SettleOkKept(d) ==
    /\ At(d, "accepted") /\ Settles(d, "settled")
    /\ UNCHANGED <<draft, rows, ready, last, page, accepted, withdrawn, regretted, said,
                   again, faults>>
\* Accepted: the row goes first, so that a drain cut off here does not send it twice, ...
SettleOk(d) ==
    /\ At(d, "accepted") /\ Settles(d, "settled")
    /\ rows' = rows \ {drain[d].row} /\ ready' = ready \ {drain[d].row}
    /\ UNCHANGED <<draft, last, page, accepted, withdrawn, regretted, said, again, faults>>
\* ... then the draft says so, and the walk goes on.
MarkSent(d) ==
    /\ At(d, "settled") /\ Goto(d, "walk")
    /\ Marked("Sent")
    /\ UNCHANGED <<rows, ready, last, page, accepted, withdrawn, regretted, said, again,
                   faults>>

\* Mutation: the row of a refusal is dropped before the draft says why.
MarkNothing(d) ==
    /\ \/ At(d, "failed") /\ Goto(d, "later")
       \/ At(d, "refused") /\ Goto(d, "dropped")
    /\ UNCHANGED <<draft, rows, ready, last, page, accepted, withdrawn, regretted, said,
                   again, faults>>
\* Failed: the draft says so first, ...
MarkFailed(d) ==
    /\ \/ At(d, "failed") /\ Goto(d, "later") /\ Marked("Failed") /\ UNCHANGED said
       \/ At(d, "refused") /\ Goto(d, "dropped") /\ Marked("Refused")
          /\ said' = said \cup {drain[d].row}
    /\ UNCHANGED <<rows, ready, last, page, accepted, withdrawn, regretted, again, faults>>
\* ... then the row backs off or goes, and the drain stops.
SettleFailed(d) ==
    /\ \/ At(d, "later") /\ UNCHANGED rows
       \/ At(d, "dropped") /\ rows' = rows \ {drain[d].row}
    /\ ready' = ready \ {drain[d].row}
    /\ Stop(d)
    /\ UNCHANGED <<draft, last, page, accepted, withdrawn, regretted, said, again, faults>>

\* The process ends: what is not written is lost.
Crash(d) ==
    /\ ~At(d, "idle") /\ Fault("Crash")
    /\ Stop(d)
    /\ IF At(d, "accepted") THEN Unwritten(d) ELSE UNCHANGED unwritten
    /\ UNCHANGED <<draft, rows, ready, last, page, accepted, withdrawn, regretted, said,
                   shared>>

Step(d) ==
    \/ DrainList(d) \/ DrainAddress(d) \/ DrainEnd(d) \/ MarkSending(d)
    \/ SubmitAccepted(d) \/ SettleOk(d) \/ MarkSent(d) \/ MarkFailed(d) \/ SettleFailed(d)
Fails(d) == SubmitLost(d) \/ SubmitAgain(d) \/ SubmitRefused(d) \/ SubmitCancelled(d) \/ Crash(d)
Person == Queue \/ Unsend \/ DiscardRead \/ DiscardWrite \/ SaveRead \/ SaveWrite
Next == Person \/ ComeDue \/ \E d \in Drains : Step(d) \/ Fails(d)

Spec == Init /\ [][Next]_vars

\* Passes go on being made, a time that is to come comes, and the server answers.
Fairness == WF_vars(ComeDue) /\ \A d \in Drains : WF_vars(Step(d))
FairSpec == Spec /\ Fairness

-----------------------------------------------------------------------------
(* What must hold.                                                          *)

\* Types; what is due is in the outbox, and what was taken back is not (delete_draft, freeze).
TypeOK ==
    /\ draft \in States \cup {"Gone"}
    /\ last \in 0..MaxRows /\ rows \subseteq (1..last) \ withdrawn /\ ready \subseteq rows
    /\ drain \in [Drains -> [at : Stages, row : 0..MaxRows, list : SUBSET Ids]]
    /\ page \in [doing : {"nothing", "save", "discard"}, base : States]
    /\ accepted \in [Ids -> Nat]
    /\ withdrawn \subseteq 1..last /\ regretted \subseteq withdrawn /\ said \subseteq 1..last
    /\ unwritten \subseteq 1..last /\ shared \subseteq Ids
    /\ faults \in 0..MaxFaults

\* A submission ever queued is still in the outbox, or the server took it, or the person took
\* it back, or the draft was marked with why it was refused: settle's order of Mark and
\* SettleRow loses none, wherever a drain is cut off and whoever settles the row first.
NeverLost == \A r \in 1..last : r \in rows \/ accepted[r] > 0 \/ r \in withdrawn \/ r \in said

\* A draft that says it is queued or scheduled has a submission in the outbox: nothing settles
\* the row of a draft that has not been marked Sending since (drain_pass, Frozen::commit).
QueuedHasRow == draft \in {"Queued", "Scheduled"} => rows # {}

\* Sending again, whatever the draft's state, leaves one submission of it in the outbox
\* (freeze and Frozen::commit pull back the earlier one in the same commit).
OneRow == \A q, r \in rows : q = r

\* No submission is accepted twice (settle.rs: the row of an accepted message goes before
\* anything else, ``so that one cut off there is not sent twice''), unless an acceptance was
\* lost or cut off before its row was settled, or two drains had the row in hand at once.
NotSentAgain == \A r \in Ids : accepted[r] > 1 => r \in unwritten \cup shared

\* A draft marked as on its way has a submission that is not settled (on_its_way says so, and
\* send, unsend and discard refuse such a draft), or a drain that is about to mark it.
OnItsWay == draft \in OnWay => rows # {} \/ \E d \in Drains : ~At(d, "idle")

\* Nothing leaves after the person has taken it back: unsend and discard refuse a draft that
\* a drain has marked Sending.
UnsentStays == regretted = {}

\* A pass that is stopped settles nothing, and the row goes again (settle.rs, of a pass the
\* person stopped): where the server refuses nothing, no submission is dropped unsent.
StoppedStays ==
    "Refuse" \notin Faults =>
      \A r \in 1..last : r \in rows \/ accepted[r] > 0 \/ r \in withdrawn

\* Every submission leaves the outbox in the end, and by NeverLost as sent, refused or taken
\* back: a failure to be tried again and a draft changed meanwhile are got over.
Delivered == \A r \in Ids : r \in rows ~> r \notin rows

\* What has become of each submission, as Delivery has it.
Fate == [r \in Ids |->
    IF r > last THEN "unqueued"
    ELSE IF r \in rows THEN "held"
    ELSE IF accepted[r] > 0 THEN "sent"
    ELSE IF r \in withdrawn THEN "taken"
    ELSE IF r \in said THEN "refused" ELSE "lost"]

\* A send keeps the promise of Delivery: one submission of a draft at a time, each ending once,
\* whatever drains, takes back and fails meanwhile (but for a page that saves over the draft).
Promise == INSTANCE Delivery WITH fate <- Fate
KeepsPromise == Promise!Spec
=============================================================================
