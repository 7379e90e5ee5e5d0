------------------------------- MODULE Outbox -------------------------------
(***************************************************************************)
(* The local-first core of the client: what a person does to a message is  *)
(* written here at once and queued as an outbox row; passes of the account *)
(* sync the server's truth in, re-layer what is still queued on top of it, *)
(* and drain the rows to the server in the order they were queued.         *)
(*                                                                         *)
(* An instance follows one property of each message, Shown: its marks      *)
(* (flags and labels, which a listing restates in full), or the mailbox it *)
(* is filed in, which a listing of its folder changes only by the rules of *)
(* filing.rs.  Rows that set the other property are queued, addressed and  *)
(* sent all the same.  A pass is run by an engine: the window's, and the   *)
(* `mailo watch' process's, work on the same database, so Engine may have  *)
(* more than one element.                                                  *)
(***************************************************************************)
EXTENDS Integers, FiniteSets

CONSTANTS
    Message,        \* messages this client and the server both hold at first
    Value,          \* what the one property of a message may be
    Gone,           \* not a value: the message is not there
    Engine,         \* processes that run passes of the account
    Shown,          \* the property followed: "marks" or "mailbox"
    Inbox, Archive, \* two values that filing.rs tells apart, where it is the mailbox
    Kinds,          \* of operation: "set" marks, "move" by role, "file" into a folder
    Faults,         \* what the environment may do, of FaultKinds
    SYNCS_TO_FIND,  \* passes that may miss a moved message before it is given up
    MaxId,          \* bound: rows ever queued
    MaxFaults,      \* bound: faults in one behaviour
    MaxElsewhere    \* bound: changes made by other clients

FaultKinds == {"unsaid", "hidden", "expunge", "reset", "retry", "park", "fatal", "cancel",
               "stopped", "crash"}

ASSUME OutboxAssumption ==
    /\ Gone \notin Value
    /\ Shown \in {"marks", "mailbox"}
    /\ Kinds \subseteq {"set", "move", "file"}
    /\ Faults \subseteq FaultKinds
    /\ SYNCS_TO_FIND \in Nat \ {0}
    /\ MaxId \in Nat
    /\ MaxFaults \in Nat
    /\ MaxElsewhere \in Nat

VARIABLES
    server,     \* the server's value of each message
    local,      \* the store's value of each message: what the person sees
    known,      \* the folder each is in, as far as the store knows; Gone for marks
    place,      \* where the store thinks each message is: dispatch.rs `Place'
    outbox,     \* the outbox table and its pending_changes
    lastId,     \* AUTOINCREMENT of the outbox
    eng,        \* each engine's place in its pass
    faults,     \* faults so far
    elsewhere,  \* changes made by other clients so far
    carried     \* history: the messages the server has carried each row out on

vars == <<server, local, known, place, outbox, lastId, eng, faults, elsewhere, carried>>

Id == 1..MaxId
Held == Value \cup {Gone}

\* Where a message is on the server, and how many passes have missed it: at an address; moved
\* there without a word of where; held, with no address that any pass counts (Place::At of
\* nothing); or not held.
Place == [at: {"at", "unplaced", "nowhere", "gone"}, missed: 0..SYNCS_TO_FIND]
At == [at |-> "at", missed |-> 0]
Nowhere == [at |-> "nowhere", missed |-> 0]
Unplaced == [at |-> "unplaced", missed |-> 0]
NotHeld == [at |-> "gone", missed |-> 0]

\* A row: the messages it names to the server, those its patch changed here alone, the value it
\* gives them all (Gone where it sets the property not followed), the values it undoes to,
\* whether `attempts' is above zero, whether `next_attempt' has come, and whether the act that
\* queued it is a filing that can still be taken back.
Row == [ms: SUBSET Message, alone: SUBSET Message, v: Held,
        undo: [Message -> Held], tried: BOOLEAN, due: BOOLEAN, undoable: BOOLEAN]
NoUndo == [m \in Message |-> Gone]
NoRow == [ms |-> {}, alone |-> {}, v |-> Gone, undo |-> NoUndo,
          tried |-> FALSE, due |-> FALSE, undoable |-> FALSE]

Queued(i) == outbox[i].ms # {}
QueuedIds == {i \in Id : Queued(i)}
\* The messages row i's patch changed: what it holds pending, and what its undo puts back.
On(i) == outbox[i].ms \cup outbox[i].alone

\* An engine: idle; sync (listing taken, not yet written); synced; walk (through the rows
\* that were due); wire (row sent); served (the server has acted); answered.
PCs == {"idle", "sync", "synced", "walk", "wire", "served", "answered"}
Answers == {"none", "ok", "retry", "park", "fatal", "cancel"}
EngineState == [pc: PCs, snap: [Message -> Held], todo: SUBSET Id, cur: 0..MaxId,
                v: Held, ms: SUBSET Message, done: SUBSET Message, ans: Answers]
Idle == [pc |-> "idle", snap |-> NoUndo, todo |-> {}, cur |-> 0,
         v |-> Gone, ms |-> {}, done |-> {}, ans |-> "none"]

-----------------------------------------------------------------------------
(* dispatch.rs: what a queued row asks of the server now.                   *)

\* Mutation: the passes that missed a message are never held against it.
SoughtForGood(m) == place[m].at = "unplaced"
\* A message the server moved without saying where, which so few passes have missed that it is
\* still looked for.
Sought(m) == place[m].at = "unplaced" /\ place[m].missed < SYNCS_TO_FIND
\* A message that makes a row wait: one sought, or one held at no address, for however long.
Waiting(m) == Sought(m) \/ place[m].at = "nowhere"
\* Mutation: no message is ever given up.
NeverGivenUp(m) == FALSE
\* A message the syncs that should have found it have not: `given_up'.
GivenUp(m) == place[m].at = "unplaced" /\ place[m].missed >= SYNCS_TO_FIND

Lost(i) == \E m \in outbox[i].ms : GivenUp(m)

\* in_queue and own: row i waits when it names a message that waits, or shares one with an
\* earlier row that waits, however that one came to wait.  C is the chain of such rows; a row
\* naming a given-up message waits for nothing and holds nothing back.
WaitingChain(C) ==
    \A j \in C :
        /\ Queued(j)
        /\ ~Lost(j)
        /\ \/ \E m \in outbox[j].ms : Waiting(m)
           \/ \E k \in C : k < j /\ outbox[k].ms \cap outbox[j].ms # {}
\* Mutation: a row waits for its own messages only, not behind the rows before it.
WaitsAlone(i) == Queued(i) /\ ~Lost(i) /\ \E m \in outbox[i].ms : Waiting(m)
\* Mutation: a row is sent to whichever of its messages have an address.
WaitsForAll(i) == Queued(i) /\ \A m \in outbox[i].ms : Waiting(m)
Waits(i) == \E C \in SUBSET (1..i) : i \in C /\ WaitingChain(C)

Addressed(i) == {m \in outbox[i].ms : place[m].at = "at"}

\* pending_for_thread, applied in row order: the value the last queued row gives m.
Shows(i) == outbox[i].v # Gone
PendingOn(m) == {i \in Id : Shows(i) /\ m \in On(i)}
IsTop(i, m) == i \in PendingOn(m) /\ \A j \in PendingOn(m) : j <= i
\* Mutation: a sync writes the server's value over what is queued.
NotLayered(m, base) == base
Layered(m, base) == IF \E i \in Id : IsTop(i, m)
                    THEN outbox[CHOOSE i \in Id : IsTop(i, m)].v ELSE base

\* What an operation of kind k writes of the property followed, and whether one that sent v moves.
Sets(k) == k = "set" <=> Shown = "marks"
Moves(v) == v = Gone <=> Shown = "marks"
\* The folder of an address, where mailboxes are followed.
Folder(v) == IF Shown = "mailbox" THEN v ELSE Gone

-----------------------------------------------------------------------------
Init ==
    /\ server \in [Message -> Value]
    /\ local = server
    /\ known = [m \in Message |-> Folder(server[m])]
    /\ place = [m \in Message |-> At]
    /\ outbox = [i \in Id |-> NoRow]
    /\ lastId = 0
    /\ eng = [e \in Engine |-> Idle]
    /\ faults = 0
    /\ elsewhere = 0
    /\ carried = [i \in Id |-> {}]

\* One fault, where the instance allows it.
Fault(f) == f \in Faults /\ faults < MaxFaults /\ faults' = faults + 1

\* Messages the server can be told of, now or once a sync finds them: queue_in names no others.
Named(ms) == {m \in ms : place[m].at \in {"at", "unplaced"}}

(* act.rs perform_with, op.rs apply, outbox.rs queue_in: the change is written and the row    *)
(* queued in one transaction.  Only the messages that differ are touched.  With none of them  *)
(* to name, the change is made here alone.                                                    *)
Act(k, ms, v) ==
    /\ lastId < MaxId
    /\ ms # {}
    /\ \A m \in ms : place[m].at # "gone" /\ (Sets(k) => local[m] # v)
    /\ local' = [m \in Message |-> IF m \in ms /\ Sets(k) THEN v ELSE local[m]]
    /\ IF Named(ms) = {}
       THEN UNCHANGED <<lastId, outbox>>
       ELSE /\ lastId' = lastId + 1
            /\ outbox' = [outbox EXCEPT ![lastId + 1] =
                  [ms |-> Named(ms), alone |-> ms \ Named(ms), v |-> IF Sets(k) THEN v ELSE Gone,
                   undo |-> [m \in Message |-> IF m \in ms /\ Sets(k) THEN local[m] ELSE Gone],
                   tried |-> FALSE, due |-> TRUE, undoable |-> k = "file"]]
    /\ UNCHANGED <<server, known, place, eng, faults, elsewhere, carried>>

\* undo_entry's patch, except what is about `done'; a message no longer held stays away.
Undone(i, done) ==
    [m \in Message |-> IF Shows(i) /\ m \in On(i) \ done /\ place[m].at # "gone"
                       THEN outbox[i].undo[m] ELSE local[m]]
Dropped(i) == [outbox EXCEPT ![i] = NoRow]

\* Whether anything queued after row i acts on its messages: act.rs withdrawable.
TouchedLater(i) == \E j \in Id : j > i /\ On(j) \cap On(i) # {}

(* act.rs take_back of a filing that is still queued, decided and written in one transaction: *)
(* the inverse is written here, and the row is withdrawn unless it has been tried or something *)
(* later acts on its messages.  A filing has no reverse to queue.                             *)
TakeBack(i) ==
    /\ Queued(i) /\ outbox[i].undoable
    /\ local' = Undone(i, {})
    /\ outbox' = IF outbox[i].tried \/ TouchedLater(i)
                 THEN [outbox EXCEPT ![i].undoable = FALSE] ELSE Dropped(i)
    /\ UNCHANGED <<server, known, place, lastId, eng, faults, elsewhere, carried>>

\* next_attempt comes: backoff, or the 24 hours a row is parked for, has passed.
ComeDue(i) ==
    /\ Queued(i) /\ ~outbox[i].due
    /\ outbox' = [outbox EXCEPT ![i].due = TRUE]
    /\ UNCHANGED <<server, local, known, place, lastId, eng, faults, elsewhere, carried>>

\* Another client changes a message, or expunges it.
Elsewhere(m, v) ==
    /\ elsewhere < MaxElsewhere
    /\ server[m] # Gone /\ server[m] # v
    /\ v = Gone => "expunge" \in Faults
    /\ elsewhere' = elsewhere + 1
    /\ server' = [server EXCEPT ![m] = v]
    /\ UNCHANGED <<local, known, place, outbox, lastId, eng, faults, carried>>

-----------------------------------------------------------------------------
(* A pass: engine.rs sync and drain_pass, one engine at a time per step.    *)

\* The listing is taken from the server; it is written later.
SyncFetch(e) ==
    /\ eng[e].pc = "idle"
    /\ eng' = [eng EXCEPT ![e] = [Idle EXCEPT !.pc = "sync", !.snap = server]]
    /\ UNCHANGED <<server, local, known, place, outbox, lastId, faults, elsewhere, carried>>

\* A mailbox was renumbered: a survey's ingest with UidValidity::Reset forgets every address in
\* it, and the messages stay.  The listing that follows finds those the server still has.
SyncReset(e, ms) ==
    /\ eng[e].pc = "sync" /\ Fault("reset")
    /\ ms # {} /\ \A m \in ms : place[m].at = "at"
    /\ place' = [m \in Message |-> IF m \in ms THEN Nowhere ELSE place[m]]
    /\ known' = [m \in Message |-> IF m \in ms THEN Gone ELSE known[m]]
    /\ UNCHANGED <<server, local, outbox, lastId, eng, elsewhere, carried>>

\* The messages a listing is about: those it lists that are placed or that it finds, and those
\* placed that it no longer lists where they were.  `moved' are those it lists in another folder,
\* which it came to only after the one they left: such a message is deleted, and what it finds
\* in the other folder is a new one.
Listed(e, found, m) == eng[e].snap[m] # Gone /\ (place[m].at = "at" \/ m \in found)
Vanished(e, moved, m) == place[m].at = "at" /\ (eng[e].snap[m] = Gone \/ m \in moved)

\* filing.rs: the mailbox m is shown in once a listing has it in `to'.  Arriving in the inbox
\* takes a message out of Archive, and leaving the inbox files it where it went.
Filed(m, to) ==
    IF \/ local[m] = Archive /\ to = Inbox /\ (place[m].at # "at" \/ known[m] # to)
       \/ local[m] = Inbox /\ known[m] = Inbox /\ place[m].at = "at"
    THEN to ELSE local[m]
\* What a listing says m is shown as: its marks are restated, its mailbox is not.
Stated(e, m) == IF Shown = "marks" THEN eng[e].snap[m] ELSE Filed(m, eng[e].snap[m])

\* write_ingest_chunk: a listed message is placed, one no longer listed is deleted, and what
\* differs from what is held is written with the queued changes re-layered on top.  `found' are
\* the messages with no address that this listing finds.
Ingested(e, found, moved) ==
    /\ place' = [m \in Message |-> IF Vanished(e, moved, m) THEN NotHeld
                                   ELSE IF Listed(e, found, m) THEN At ELSE place[m]]
    /\ known' = [m \in Message |-> IF Vanished(e, moved, m) THEN Gone
                                   ELSE IF Listed(e, found, m) THEN Folder(eng[e].snap[m])
                                   ELSE known[m]]
    /\ local' = [m \in Message |->
          IF Vanished(e, moved, m) THEN Gone
          ELSE IF Listed(e, found, m) /\ (Stated(e, m) # local[m] \/ m \in found)
          THEN Layered(m, Stated(e, m)) ELSE local[m]]

Findable(e) == {m \in Message : place[m].at \in {"unplaced", "nowhere"} /\ eng[e].snap[m] # Gone}
Moved(e) == {m \in Message : place[m].at = "at" /\ known[m] # Folder(eng[e].snap[m])}

SyncIngest(e) ==
    /\ eng[e].pc = "sync"
    /\ \E moved \in SUBSET Moved(e) :
          \/ Ingested(e, Findable(e), moved) /\ UNCHANGED faults
          \/ /\ Fault("hidden")
             /\ \E found \in SUBSET Findable(e) :
                   found # Findable(e) /\ Ingested(e, found, moved)
    /\ eng' = [eng EXCEPT ![e] = [Idle EXCEPT !.pc = "synced"]]
    /\ UNCHANGED <<server, outbox, lastId, elsewhere, carried>>

\* The drain lists what is due.  After a sync it first counts the pass against every message
\* still to be found (unplaced_pass); a drain with no sync before it counts nothing.
DrainList(e) ==
    /\ eng[e].pc \in {"idle", "synced"}
    /\ eng' = [eng EXCEPT ![e] =
          [Idle EXCEPT !.pc = "walk", !.todo = {i \in Id : Queued(i) /\ outbox[i].due}]]
    /\ place' = IF eng[e].pc = "synced"
                THEN [m \in Message |-> IF Sought(m)
                         THEN [place[m] EXCEPT !.missed = @ + 1] ELSE place[m]]
                ELSE place
    /\ UNCHANGED <<server, local, known, outbox, lastId, faults, elsewhere, carried>>

IsNext(e, i) == i \in eng[e].todo /\ \A j \in eng[e].todo : i <= j
Passed(e, i) == [eng EXCEPT ![e] = [Idle EXCEPT !.pc = "walk", !.todo = eng[e].todo \ {i}]]

\* Taken out meanwhile, or it waits: left as it is.
DispatchWait(e, i) ==
    /\ eng[e].pc = "walk" /\ IsNext(e, i)
    /\ ~Queued(i) \/ Waits(i)
    /\ eng' = Passed(e, i)
    /\ UNCHANGED <<server, local, known, place, outbox, lastId, faults, elsewhere, carried>>

\* Every message it names is gone: settled with nothing to say.
DispatchMoot(e, i) ==
    /\ eng[e].pc = "walk" /\ IsNext(e, i)
    /\ Queued(i) /\ \A m \in outbox[i].ms : place[m].at = "gone"
    /\ ~Waits(i)
    /\ outbox' = Dropped(i)
    /\ eng' = Passed(e, i)
    /\ UNCHANGED <<server, local, known, place, lastId, faults, elsewhere, carried>>

\* The messages already where a move would put them: partial.rs already_there.
AlreadyThere(i) == {m \in On(i) : Shows(i) /\ known[m] = outbox[i].v}

\* It names a message that is given up: refused, and undone except for what is already there.
DispatchLost(e, i) ==
    /\ eng[e].pc = "walk" /\ IsNext(e, i)
    /\ Queued(i) /\ Lost(i)
    /\ local' = Undone(i, AlreadyThere(i))
    /\ outbox' = Dropped(i)
    /\ eng' = Passed(e, i)
    /\ UNCHANGED <<server, known, place, lastId, faults, elsewhere, carried>>

DispatchSend(e, i) ==
    /\ eng[e].pc = "walk" /\ IsNext(e, i)
    /\ Queued(i) /\ ~Lost(i) /\ ~Waits(i) /\ Addressed(i) # {}
    /\ eng' = [eng EXCEPT ![e].pc = "wire", ![e].cur = i,
                              ![e].v = outbox[i].v, ![e].ms = Addressed(i)]
    /\ UNCHANGED <<server, local, known, place, outbox, lastId, faults, elsewhere, carried>>

DrainEnd(e) ==
    /\ eng[e].pc = "walk" /\ eng[e].todo = {}
    /\ eng' = [eng EXCEPT ![e] = Idle]
    /\ UNCHANGED <<server, local, known, place, outbox, lastId, faults, elsewhere, carried>>

-----------------------------------------------------------------------------
(* The server (external) acts on what was sent; the answer comes apart from it.              *)

\* The row is carried out on `done': all of what was sent, or, where it is refused or cut off, a
\* part of it (an operation goes as one part per mailbox).  Carried out in full and then "retry"
\* is an answer that was lost.  A message no longer there is no error and no change.  A pass that
\* is stopped is "cancel" where its backend says so (Graph, POP3); an IMAP session ends its script
\* where it is, and what it had heard of the answer is taken for all of it.
Serve(e, ans, done) ==
    /\ eng[e].pc = "wire"
    /\ done \subseteq eng[e].ms
    /\ \/ ans = "ok" /\ done = eng[e].ms /\ UNCHANGED faults
       \/ ans = "ok" /\ Fault("stopped")
       \/ ans \in {"retry", "park", "cancel"} /\ Fault(ans)
       \/ ans = "fatal" /\ done # eng[e].ms /\ Fault(ans)
    /\ server' = [m \in Message |->
          IF m \in done /\ server[m] # Gone /\ eng[e].v # Gone THEN eng[e].v ELSE server[m]]
    /\ carried' = [carried EXCEPT ![eng[e].cur] = @ \cup done]
    /\ eng' = [eng EXCEPT ![e].pc = "served", ![e].ans = ans,
                              ![e].done = IF ans = "ok" THEN eng[e].ms ELSE done]
    /\ UNCHANGED <<local, known, place, outbox, lastId, elsewhere>>

\* The answer reaches the engine, for the parts `answered': the last part's answer may be lost.
\* Where a moved message went is recorded before the row is settled: its new address, or, for
\* `unsaid', that it has none.  A pass that was cancelled settles nothing.
Heard(e, answered, unsaid) ==
    /\ eng[e].pc = "served"
    /\ answered \subseteq eng[e].done
    /\ eng[e].ans \in {"ok", "fatal"} => answered = eng[e].done
    /\ unsaid \subseteq answered
    /\ unsaid = {} \/ ("unsaid" \in Faults /\ Moves(eng[e].v))
    /\ place' = [m \in Message |-> IF m \in unsaid /\ place[m].at = "at" THEN Unplaced
                                   ELSE place[m]]
    /\ known' = [m \in Message |-> IF m \in answered /\ place[m].at = "at" /\ eng[e].v # Gone
                                   THEN Folder(eng[e].v) ELSE known[m]]
    /\ eng' = [eng EXCEPT ![e] = IF @.ans = "cancel" THEN Idle
                                 ELSE [@ EXCEPT !.pc = "answered", !.done = answered]]
    /\ UNCHANGED <<server, local, outbox, lastId, faults, elsewhere, carried>>

\* settle_in on a row taken out meanwhile is an error, and ends the pass.
SettleMissing(e) ==
    /\ eng[e].pc = "answered" /\ ~Queued(eng[e].cur)
    /\ eng' = [eng EXCEPT ![e] = Idle]
    /\ UNCHANGED <<server, local, known, place, outbox, lastId, faults, elsewhere, carried>>

\* Confirmed: the row and its pending changes go, and the walk goes on.
SettleOk(e) ==
    /\ eng[e].pc = "answered" /\ Queued(eng[e].cur) /\ eng[e].ans = "ok"
    /\ outbox' = Dropped(eng[e].cur)
    /\ eng' = Passed(e, eng[e].cur)
    /\ UNCHANGED <<server, local, known, place, lastId, faults, elsewhere, carried>>

\* Retried after a backoff, or parked for a credential; either way it keeps its place in the
\* queue and its pending changes, and the drain stops.
SettleLater(e) ==
    /\ eng[e].pc = "answered" /\ Queued(eng[e].cur) /\ eng[e].ans \in {"retry", "park"}
    /\ outbox' = [outbox EXCEPT ![eng[e].cur].due = FALSE,
                                ![eng[e].cur].tried = @ \/ eng[e].ans = "retry"]
    /\ eng' = [eng EXCEPT ![e] = Idle]
    /\ UNCHANGED <<server, local, known, place, lastId, faults, elsewhere, carried>>

\* Refused for good, in whole or in part: undone except what the server did, and the drain stops.
SettleRefused(e) ==
    /\ eng[e].pc = "answered" /\ Queued(eng[e].cur) /\ eng[e].ans = "fatal"
    /\ local' = Undone(eng[e].cur, eng[e].done)
    /\ outbox' = Dropped(eng[e].cur)
    /\ eng' = [eng EXCEPT ![e] = Idle]
    /\ UNCHANGED <<server, known, place, lastId, faults, elsewhere, carried>>

\* The process dies.  The store is what its last transaction left.
Crash(e) ==
    /\ eng[e].pc # "idle" /\ Fault("crash")
    /\ eng' = [eng EXCEPT ![e] = Idle]
    /\ UNCHANGED <<server, local, known, place, outbox, lastId, elsewhere, carried>>

-----------------------------------------------------------------------------
Dispatch(e) == \E i \in Id : \/ DispatchWait(e, i) \/ DispatchMoot(e, i)
                             \/ DispatchLost(e, i) \/ DispatchSend(e, i)
Served(e) == \E ans \in Answers, done \in SUBSET eng[e].ms : Serve(e, ans, done)
Answered(e) == \E answered \in SUBSET eng[e].done : \E unsaid \in SUBSET answered :
                  Heard(e, answered, unsaid)
Settle(e) == SettleMissing(e) \/ SettleOk(e) \/ SettleLater(e) \/ SettleRefused(e)

Person == \/ \E k \in Kinds, ms \in SUBSET Message, v \in Value : Act(k, ms, v)
          \/ \E i \in Id : TakeBack(i)
Renumbered(e) == \E ms \in SUBSET Message : SyncReset(e, ms)
Pass(e) == \/ SyncFetch(e) \/ SyncIngest(e) \/ DrainList(e) \/ Dispatch(e) \/ DrainEnd(e)
           \/ Served(e) \/ Answered(e) \/ Settle(e)

Next == \/ Person
        \/ \E i \in Id : ComeDue(i)
        \/ \E m \in Message, v \in Held : Elsewhere(m, v)
        \/ \E e \in Engine : Pass(e) \/ Renumbered(e) \/ Crash(e)

Spec == Init /\ [][Next]_vars

\* The scheduler starts a pass again and again while the app runs, a pass begun goes on, and
\* a row's next attempt comes.  People and other clients owe nothing.
Fairness ==
    /\ \A e \in Engine : WF_vars(Pass(e)) /\ SF_vars(SyncFetch(e))
    /\ \A i \in Id : WF_vars(ComeDue(i))

FairSpec == Spec /\ Fairness

-----------------------------------------------------------------------------
(* Properties.                                                              *)

\* The types of the store's tables and of an engine's place in its pass.
TypeOK ==
    /\ server \in [Message -> Held]
    /\ local \in [Message -> Held]
    /\ known \in [Message -> Held]
    /\ place \in [Message -> Place]
    /\ outbox \in [Id -> Row]
    /\ lastId \in 0..MaxId
    /\ eng \in [Engine -> EngineState]
    /\ faults \in 0..MaxFaults
    /\ elsewhere \in 0..MaxElsewhere
    /\ carried \in [Id -> SUBSET Message]
    /\ \A e \in Engine : eng[e].pc \in {"wire", "served", "answered"} => eng[e].cur \in Id

\* What the person did and the server has not confirmed is what they see: a held message with
\* queued rows shows the value of the last of them, whatever syncs write meanwhile (write.rs
\* step 5, ``anything the user did that the server has not confirmed goes back on top'').
PendingShown ==
    \A m \in Message, i \in Id : IsTop(i, m) /\ place[m].at # "gone" => local[m] = outbox[i].v

\* Two operations on one message reach the server in the order they were made (outbox.rs due,
\* dispatch.rs in_queue): no row is carried out on a message after a later one has been.
CarriedInOrder ==
    \A i, j \in Id, m \in Message :
        m \in carried'[i] \ carried[i] /\ j > i => m \notin carried[j]
ReachesInOrder == [][CarriedInOrder]_vars

Said(i) ==
    \A m \in outbox[i].ms : \/ m \in carried[i]
                            \/ place[m].at = "gone"
                            \/ local'[m] = outbox[i].undo[m]
                            \/ Lost(i) /\ known[m] = outbox[i].v
\* A row is never dropped unsaid: when one leaves the outbox, each message it named has been
\* carried out on the server, or is gone from here, or shows what it was before the change (or,
\* of a row given up, is already where the row would have it).
NeverDroppedUnsaid == [][\A i \in Id : Queued(i) /\ Shows(i) /\ ~Queued(i)' => Said(i)]_vars

\* A message no sync will find: its address was forgotten with its mailbox's numbering, and the
\* server has it no more, so no listing names it and no `gone' does either.
Stranded(m) == place[m].at = "nowhere" /\ server[m] = Gone

\* Whatever fails, the outbox empties and the marks shown are the server's: no row is retried,
\* parked or waited with for ever, except behind a message that is stranded, and then what is
\* shown is the server's with the rows still queued on top.
Converges ==
    <>[](/\ \A i \in QueuedIds : Waits(i) /\ \E m \in Message : Stranded(m)
         /\ \A m \in Message : place[m].at = "at" => local[m] = Layered(m, server[m]))

\* dispatch.rs own, ``a held message with no address makes the whole entry wait ... Once the
\* syncs that should have found that message have not, the whole entry is given up''.
GivenUpAtLast == <>[](QueuedIds = {})

\* core/act.rs take_back of a move a pass was already sending: ``The message is back here and
\* filed there, and the next sync shows it filed''.  A sync that lists a message nothing is queued
\* for shows it in the folder it lists it in.
NextSyncShowsIt ==
    [][\A e \in Engine, m \in Message :
          SyncIngest(e) /\ place'[m].at = "at" /\ PendingOn(m) = {}
             => local'[m] = eng[e].snap[m]]_vars
=============================================================================
