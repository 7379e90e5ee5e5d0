---------------------------- MODULE ServerDrafts ----------------------------
(***************************************************************************)
(* The copy of a draft in the server's Drafts mailbox: what is queued to   *)
(* replace it and to remove it (mail-runtime/src/server_drafts.rs;         *)
(* keep_on_server and discard of mail-core/src/compose.rs and of the       *)
(* composer's life.rs), and the walk on the server that does it            *)
(* (draft_copy of mail-proto/src/backend/imap.rs and of                    *)
(* mail-runtime/src/jmap/outbox.rs), beside the submission of the draft,   *)
(* which takes the copy away.                                              *)
(*                                                                         *)
(* One draft, on an account that keeps copies.  A draft's text is the      *)
(* number of saves it has had.  How a submission fails is Sending's.       *)
(***************************************************************************)
EXTENDS Naturals, FiniteSets, FiniteSetsExt

CONSTANTS
    Drains,     \* the passes that may deliver the account's outbox
    Window,     \* those of them in the composer's process
    Acts,       \* what the person may do besides writing, sending and discarding
    Faults,     \* what may go wrong
    MaxSaves,   \* bound: saves of the draft
    MaxRows,    \* bound: rows ever queued
    MaxFaults   \* bound: faults

\* "later", "refused": the server's answers; "lost": an upload made whose answer is not heard;
\* "cut": the process ends; "stopped": the person stops an IMAP pass.
ASSUME ServerDraftsAssumption ==
    /\ Window \subseteq Drains /\ "window" \notin Drains
    /\ Acts \subseteq {"unseal"}
    /\ Faults \subseteq {"later", "refused", "lost", "cut", "stopped"}
    /\ MaxSaves \in Nat /\ MaxRows \in Nat /\ MaxFaults \in Nat

VARIABLES
    draft,      \* the stored draft: its state, its text, whether it asks to be encrypted
    owes,       \* what the window has yet to do after a save or a deletion
    rows,       \* the draft's rows of the outbox
    ready,      \* the ids of those whose next attempt has come
    last,       \* the newest row ever queued
    replaced,   \* SqliteStore::replaced, of each process
    copies,     \* the copies in the server's Drafts
    lastUid,    \* the newest UID the server gave
    drain,      \* where each drain is
    owed,       \* history: what the server's copy was last asked to be, and of which text; "cut"
                \* if the asking for its removal was cut off
    ever,       \* history: "kept" once there was a copy, "dropped" once a removal was asked for
    faults      \* how many faults have happened

store == <<draft, owes, rows, ready, last, replaced>>
server == <<copies, lastUid>>
history == <<owed, ever>>
vars == <<store, server, drain, history, faults>>

States == {"Editing", "Queued", "Sending", "Sent", "Gone"}
Kinds == {"keep", "drop", "submit"}
Stages == {"idle", "walk", "stage", "search", "append", "remove", "done", "later", "refused",
           "submit", "sending", "settled", "sent"}
Idle == [at |-> "idle", list |-> {}, row |-> 0, kind |-> "none", found |-> {}, text |-> 0]
Proc(d) == IF d \in Window THEN "window" ELSE d
Procs == {"window"} \cup (Drains \ Window)

IdsOf(rs) == {r.id : r \in rs}
UidsOf(cs) == {c.uid : c \in cs}

Init ==
    /\ draft = [state |-> "Editing", text |-> 0, sealed |-> FALSE]
    /\ owes = {} /\ rows = {} /\ ready = {} /\ last = 0
    /\ replaced = [p \in Procs |-> {}]
    /\ copies = {} /\ lastUid = 0
    /\ drain = [d \in Drains |-> Idle]
    /\ owed = [what |-> "nothing", text |-> 0] /\ ever = {} /\ faults = 0

-----------------------------------------------------------------------------
(* The outbox.                                                             *)

NewRow == last < MaxRows /\ last' = last + 1
\* Rows are bounded at Send alone: what a save, a submission or a discard then queues has room.
Room == last + 4 + (MaxSaves - draft.text) <= MaxRows
Waiting == {r \in rows : r.kind = "keep"}

\* Mutation: an upload still waiting is not replaced.
QueuedBeside(p, kind) ==
    /\ NewRow
    /\ rows' = rows \cup {[id |-> last + 1, kind |-> kind]}
    /\ ready' = ready \cup {last + 1}
    /\ owed' = [what |-> kind, text |-> draft.text]
    /\ ever' = ever \cup {k \in {"dropped"} : kind = "drop"}
    /\ UNCHANGED replaced
\* queue, and queue_in for a draft's copy: an upload still waiting goes, and a new one takes
\* over its place in the backoff.
Queued(p, kind) ==
    /\ NewRow
    /\ rows' = (rows \ Waiting) \cup {[id |-> last + 1, kind |-> kind]}
    /\ ready' = (ready \ IdsOf(Waiting)) \cup
                  {i \in {last + 1} : kind = "drop" \/ IdsOf(Waiting) \subseteq ready}
    /\ replaced' = [replaced EXCEPT ![p] = @ \cup IdsOf(Waiting)]
    /\ owed' = [what |-> kind, text |-> draft.text]
    /\ ever' = ever \cup {k \in {"dropped"} : kind = "drop"}

Gone(ids) ==
    /\ rows' = {r \in rows : r.id \notin ids}
    /\ ready' = ready \ ids
Submissions == IdsOf({r \in rows : r.kind = "submit"})

-----------------------------------------------------------------------------
(* The person, in one window, whose ledger makes a save, a keeping and a   *)
(* discard one at a time.                                                  *)

\* An autosave, or the save of a page put aside; a keeping follows.  The page may ask to be
\* encrypted, or ("unseal") no longer ask.
Save ==
    /\ draft.state = "Editing" /\ draft.text < MaxSaves /\ owes = {}
    /\ \E sealed \in BOOLEAN :
          /\ draft.sealed => sealed \/ "unseal" \in Acts
          /\ draft' = [draft EXCEPT !.text = @ + 1, !.sealed = sealed]
    /\ owes' = {"keep"}
    /\ UNCHANGED <<rows, ready, last, replaced, server, drain, history, faults>>

\* keep_on_server, of the composer and of the core.
Keep ==
    /\ "keep" \in owes /\ "drop" \notin owes /\ owes' = owes \ {"keep"}
    /\ IF draft.state = "Editing"
       THEN Queued("window", IF draft.sealed THEN "drop" ELSE "keep")
       ELSE UNCHANGED <<rows, ready, last, replaced, history>>
    /\ UNCHANGED <<draft, server, drain, faults>>
\* Kept::due: one was queued less than KEEP_EVERY ago, and the page was not put aside.
KeepNotDue ==
    /\ "keep" \in owes /\ "drop" \notin owes /\ owes' = owes \ {"keep"}
    /\ UNCHANGED <<draft, rows, ready, last, replaced, server, drain, history, faults>>

\* queue_inner.
Send ==
    /\ draft.state = "Editing" /\ Room /\ NewRow
    /\ draft' = [draft EXCEPT !.state = "Queued"]
    /\ rows' = rows \cup {[id |-> last + 1, kind |-> "submit"]}
    /\ ready' = ready \cup {last + 1}
    /\ UNCHANGED <<owes, replaced, server, drain, history, faults>>
\* unsend.
Unsend ==
    /\ draft.state = "Queued"
    /\ draft' = [draft EXCEPT !.state = "Editing"]
    /\ Gone(Submissions)
    /\ UNCHANGED <<owes, last, replaced, server, drain, history, faults>>

\* discard: the draft is deleted with its submissions, ...
Discard ==
    /\ draft.state \in {"Editing", "Sent"}
    /\ draft' = [draft EXCEPT !.state = "Gone"]
    /\ Gone(Submissions)
    /\ owes' = owes \cup {"drop"}
    /\ UNCHANGED <<last, replaced, server, drain, history, faults>>
\* ... and then its copies are queued to go.
DiscardDrop ==
    /\ "drop" \in owes /\ owes' = owes \ {"drop"}
    /\ Queued("window", "drop")
    /\ UNCHANGED <<draft, server, drain, faults>>

-----------------------------------------------------------------------------
(* A drain.  A pass that queued a removal walks again at once; that is a   *)
(* walk like any other here.                                               *)

At(d, stage) == drain[d].at = stage
Goto(d, stage) == drain' = [drain EXCEPT ![d].at = stage]
Stop(d) == drain' = [drain EXCEPT ![d] = Idle]
Fault(f) == f \in Faults /\ faults < MaxFaults /\ faults' = faults + 1

ComeDue == \E i \in IdsOf(rows) \ ready :
    /\ ready' = ready \cup {i}
    /\ UNCHANGED <<draft, owes, rows, last, replaced, server, drain, history, faults>>

DrainList(d) ==
    /\ At(d, "idle") /\ ready # {}
    /\ drain' = [drain EXCEPT ![d] = [Idle EXCEPT !.at = "walk", !.list = ready]]
    /\ UNCHANGED <<store, server, history, faults>>

\* addressed: the next of the walk, passed over if it has left the outbox.
DrainAddress(d) ==
    /\ At(d, "walk") /\ drain[d].list # {}
    /\ LET i == Min(drain[d].list)
           left == [Idle EXCEPT !.at = "walk", !.list = drain[d].list \ {i}]
       IN  drain' = [drain EXCEPT ![d] =
             IF i \notin IdsOf(rows) THEN left
             ELSE LET kind == (CHOOSE r \in rows : r.id = i).kind
                  IN  [left EXCEPT !.row = i, !.kind = kind,
                       !.at = CASE kind = "keep" -> "stage" [] kind = "drop" -> "search"
                                [] kind = "submit" -> "submit"]]
    /\ UNCHANGED <<store, server, history, faults>>

DrainEnd(d) ==
    /\ At(d, "walk") /\ drain[d].list = {} /\ Stop(d)
    /\ UNCHANGED <<store, server, history, faults>>

\* copy: the draft as it stands now, or nothing to put there any more.
StageCopy(d) ==
    /\ At(d, "stage")
    /\ IF draft.state = "Editing" /\ ~draft.sealed
       THEN drain' = [drain EXCEPT ![d].at = "search", ![d].text = draft.text] /\ UNCHANGED owed
       ELSE Goto(d, "done") /\ owed' = [owed EXCEPT !.what = IF @ = "keep" THEN "nothing" ELSE @]
    /\ UNCHANGED <<store, server, ever, faults>>

\* draft_copy: the copies already there are found by the draft's Message-ID, ...
Search(d) ==
    /\ At(d, "search")
    /\ drain' = [drain EXCEPT ![d].at = IF drain[d].kind = "keep" THEN "append" ELSE "remove",
                              ![d].found = UidsOf(copies)]
    /\ UNCHANGED <<store, server, history, faults>>
\* ... the new one is put there, ...
Appended(d) ==
    /\ At(d, "append") /\ lastUid' = lastUid + 1
    /\ copies' = copies \cup {[uid |-> lastUid + 1, text |-> drain[d].text]}
    /\ ever' = ever \cup {"kept"}
    /\ UNCHANGED <<store, owed>>
\* Mutation: the copies before it stay.
AppendBeside(d) == Appended(d) /\ Goto(d, "done") /\ UNCHANGED faults
Append(d) == Appended(d) /\ Goto(d, "remove") /\ UNCHANGED faults
AppendLost(d) == Appended(d) /\ Goto(d, "later") /\ Fault("lost")
\* Mutation: the copies to remove are looked for after the upload.
RemoveAll(d) ==
    /\ At(d, "remove") /\ Goto(d, "done")
    /\ copies' = {}
    /\ UNCHANGED <<store, lastUid, history, faults>>
\* ... and those found are removed.
Remove(d) ==
    /\ At(d, "remove") /\ Goto(d, "done")
    /\ copies' = {c \in copies : c.uid \notin drain[d].found}
    /\ UNCHANGED <<store, lastUid, history, faults>>

\* A command fails, for now or for good; or the pass is stopped, and an IMAP walk answers with
\* what it has, which is taken for the whole.
Fails(d) ==
    /\ drain[d].at \in {"search", "append", "remove"}
    /\ \E f \in {"later", "refused", "stopped"} :
          Fault(f) /\ Goto(d, IF f = "stopped" THEN "done" ELSE f)
    /\ UNCHANGED <<store, server, history>>

\* Mutation: an upload that is done takes whatever is queued for its draft's copy with it.
SettleWhole(d) ==
    /\ At(d, "done")
    /\ Gone(IdsOf({r \in rows : r.kind # "submit"})) /\ Goto(d, "walk")
    /\ UNCHANGED <<draft, owes, last, replaced, server, history, faults>>
\* settle_in of a row done with; one replaced by this process is no error, one that another
\* process took out ends the pass.
Settle(d) ==
    /\ At(d, "done")
    /\ Gone({drain[d].row})
    /\ IF drain[d].row \in IdsOf(rows) \cup replaced[Proc(d)] THEN Goto(d, "walk") ELSE Stop(d)
    /\ UNCHANGED <<draft, owes, last, replaced, server, history, faults>>
\* settle_in of a row that failed: backed off or dropped, and the walk stops.
SettleFailed(d) ==
    /\ drain[d].at \in {"later", "refused"} /\ Stop(d)
    /\ ready' = ready \ {drain[d].row}
    /\ rows' = IF At(d, "refused") THEN {r \in rows : r.id # drain[d].row} ELSE rows
    /\ UNCHANGED <<draft, owes, last, replaced, server, history, faults>>

\* A submission: on its way, ...
MarkSending(d) ==
    /\ At(d, "submit") /\ Goto(d, "sending")
    /\ draft' = [draft EXCEPT !.state = IF @ = "Gone" THEN "Gone" ELSE "Sending"]
    /\ UNCHANGED <<owes, rows, ready, last, replaced, server, history, faults>>
\* ... accepted, and its row settled (one no longer in the outbox ends the pass), ...
Submitted(d) ==
    /\ At(d, "sending") /\ Gone({drain[d].row})
    /\ IF drain[d].row \in IdsOf(rows) THEN Goto(d, "settled") ELSE Stop(d)
    /\ UNCHANGED <<draft, owes, last, replaced, server, history, faults>>
\* ... its draft marked, ...
MarkSent(d) ==
    /\ At(d, "settled") /\ Goto(d, "sent")
    /\ draft' = [draft EXCEPT !.state = IF @ = "Gone" THEN "Gone" ELSE "Sent"]
    /\ UNCHANGED <<owes, rows, ready, last, replaced, server, history, faults>>
\* ... and drop_draft_copies: nothing names the copies of a draft that is gone.
DropCopies(d) ==
    /\ At(d, "sent") /\ Goto(d, "walk")
    /\ IF draft.state = "Gone" THEN UNCHANGED <<rows, ready, last, replaced, history>>
       ELSE Queued(Proc(d), "drop")
    /\ UNCHANGED <<draft, owes, server, faults>>

\* What is cut off between a submission settled, or a draft deleted, and the queueing of its
\* copies' removal: nothing is left that asks for it.
Unasked == [owed EXCEPT !.what = IF @ = "drop" THEN @ ELSE "cut"]
Unqueued(d) == drain[d].at \in {"settled", "sent"} /\ draft.state # "Gone"

\* The drain's process ends, or its pass in the window is dropped.
Crash(d) ==
    /\ ~At(d, "idle") /\ Fault("cut") /\ Stop(d)
    /\ replaced' = IF d \in Window THEN replaced ELSE [replaced EXCEPT ![d] = {}]
    /\ owed' = IF Unqueued(d) THEN Unasked ELSE owed
    /\ UNCHANGED <<draft, owes, rows, ready, last, server, ever>>

\* The window ends, with what it has yet to do and the passes it runs.
WindowEnds ==
    /\ Fault("cut") /\ owes' = {}
    /\ replaced' = [replaced EXCEPT !["window"] = {}]
    /\ drain' = [d \in Drains |-> IF d \in Window THEN Idle ELSE drain[d]]
    /\ owed' = IF "drop" \in owes \/ \E d \in Window : Unqueued(d) THEN Unasked ELSE owed
    /\ UNCHANGED <<draft, rows, ready, last, server, ever>>

-----------------------------------------------------------------------------
Goes(d) ==
    \/ DrainList(d) \/ DrainAddress(d) \/ DrainEnd(d)
    \/ StageCopy(d) \/ Search(d) \/ Append(d) \/ Remove(d) \/ Settle(d) \/ SettleFailed(d)
    \/ MarkSending(d) \/ Submitted(d) \/ MarkSent(d) \/ DropCopies(d)
Person == Save \/ Send \/ Unsend \/ Discard
Follows == Keep \/ KeepNotDue \/ DiscardDrop

Next ==
    \/ Person \/ Follows \/ ComeDue \/ WindowEnds
    \/ \E d \in Drains : Goes(d) \/ AppendLost(d) \/ Fails(d) \/ Crash(d)

Spec == Init /\ [][Next]_vars
\* What the window has begun it goes on with, times come, and passes go on.
FairSpec ==
    /\ Spec /\ WF_vars(Follows) /\ WF_vars(ComeDue)
    /\ \A d \in Drains : WF_vars(Goes(d))

-----------------------------------------------------------------------------
(* Properties.                                                             *)

\* The store, the server and every drain keep their types; what is due is in the outbox, and at
\* most one upload waits there (queue_in, ``a draft's copy on the server is only ever its
\* latest'').
TypeOK ==
    /\ draft \in [state : States, text : 0..MaxSaves, sealed : BOOLEAN]
    /\ owes \subseteq {"keep", "drop"}
    /\ rows \subseteq [id : 1..MaxRows, kind : Kinds] /\ last \in 0..MaxRows
    /\ ready \subseteq IdsOf(rows) /\ \A q, r \in Waiting : q = r
    /\ replaced \in [Procs -> SUBSET (1..MaxRows)]
    /\ copies \subseteq [uid : 1..lastUid, text : 0..MaxSaves] /\ lastUid \in Nat
    /\ drain \in [Drains -> [at : Stages, list : SUBSET (1..MaxRows), row : 0..MaxRows,
                             kind : Kinds \cup {"none"}, found : SUBSET (1..lastUid),
                             text : 0..MaxSaves]]
    /\ owed \in [what : {"nothing", "keep", "drop", "cut"}, text : 0..MaxSaves]
    /\ ever \subseteq {"kept", "dropped"} /\ faults \in 0..MaxFaults

\* However many drains replace the copy, and wherever one is cut off, refused or stopped, a
\* draft once kept on the server has a copy there until its removal is asked for.
KeptStays == "kept" \in ever /\ "dropped" \notin ever => copies # {}

\* A copy that is to go, since its draft was sent, discarded, or asks to be encrypted, is there
\* only while a removal is queued: an upload under way when the removal was queued, or replaced
\* by it, leaves nothing that the removal does not find.
RemovalStands ==
    owed.what = "drop" /\ copies # {} => \E r \in rows : r.kind = "drop"

Quiet == rows = {} /\ owes = {} /\ \A d \in Drains : At(d, "idle")
\* A draft sent or discarded has no copy, unless the asking for its removal was cut off; one last
\* asked to be kept has exactly one, of the text it had then or a later one; one last asked to be
\* removed has none.
Right ==
    /\ draft.state \in {"Sent", "Gone"} \/ owed.what = "drop" => copies = {} \/ owed.what = "cut"
    /\ owed.what = "keep" => /\ Cardinality(copies) = 1
                             /\ \A c \in copies : c.text >= owed.text
\* Once the person is done, the outbox empties and the server's Drafts is as it should be, whatever
\* was cut off or answered badly on the way; only a process that ends between the end of a draft
\* and the queueing of its removal (settle.rs, Mark then DropDraftCopies; compose.rs discard)
\* leaves a copy for good.
CopiesSettle == <>[](Quiet /\ Right)
=============================================================================
