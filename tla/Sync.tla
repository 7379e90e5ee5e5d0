------------------------------- MODULE Sync -------------------------------
(***************************************************************************)
(* One IMAP mailbox kept like the server's: `AccountEngine::sync' asks     *)
(* what is there and fetches the headers it lacks, `AccountEngine::sweep'  *)
(* what was flagged and what has gone (mail-engine/src/engine.rs,          *)
(* engine/decide.rs, the order of mail-core/src/sync.rs `one_mailbox'; the *)
(* answers of mail-proto/src/backend/imap.rs; the writes of                *)
(* mail-store/src/sqlite/write.rs).  Other devices change the mailbox      *)
(* meanwhile, and a server may number it afresh.                           *)
(*                                                                         *)
(* An engine is one pass over the mailbox: the scheduler's, and the fetch  *)
(* of a folder a person opens (mail-client/src/fetch.rs `open_folder'),    *)
(* which keeps off a running pass; nothing keeps a pass off it.            *)
(***************************************************************************)
EXTENDS Naturals, FiniteSets

CONSTANTS
    Msgs,        \* messages, told apart by their MessageKey
    Old,         \* those in the mailbox at the start
    Engines,     \* who may pass over the mailbox: "pass" and "folder"
    Offers,      \* what the server may offer of CONDSTORE
    Others,      \* what other devices and the server may do to the mailbox
    Faults,      \* what may go wrong
    Budget,      \* headers one pass may fetch (HEADERS_PER_PASS)
    MaxChanges,  \* bound: how often they do
    MaxFaults    \* bound: how often it does

ASSUME SyncAssumption ==
    /\ IsFiniteSet(Msgs) /\ Old \subseteq Msgs
    /\ Engines \subseteq {"pass", "folder"}
    /\ Offers \subseteq {"Absent", "Supported", "Qresync"}
    /\ Others \subseteq {"Arrive", "Expunge", "Reflag", "Renumber"}
    /\ Faults \subseteq {"Fail", "Garble", "Crash", "Stop"}
    /\ Budget \in Nat \ {0} /\ MaxChanges \in Nat /\ MaxFaults \in Nat

VARIABLES
    condstore,   \* what this server offers
    uv,          \* the server's UIDVALIDITY
    uid,         \* each message's UID, 0 for one that is not in the mailbox
    next,        \* its UIDNEXT
    seen,        \* the messages it has as read
    mod,         \* the modseq each message was last changed at
    high,        \* its HIGHESTMODSEQ
    expunged,    \* what it remembers of the messages taken away: UID and modseq
    held,        \* the messages the store holds
    read,        \* those it holds as read
    mapped,      \* remote_map: addresses of the mailbox, and the message each names
    cursor,      \* sync_state: the cursor the last write left
    through,     \* sync_state: the state up to which everything listed is held
    unreadable,  \* addresses whose headers could not be read
    resting,     \* those of them not to be asked for yet
    due,         \* the sweeps whose interval has passed since they were last made
    pass,        \* where each engine is
    changes, faults

server == <<condstore, uv, uid, next, seen, mod, high, expunged>>
store == <<held, read, mapped, cursor, through, unreadable, resting>>
vars == <<server, store, due, pass, changes, faults>>

Sweeps == {"flags", "expunges"}
Waits == Sweeps \cup {"unreadable"}
MaxUid == Cardinality(Msgs) + MaxChanges
Ref == (1..(MaxChanges + 1)) \X (1..MaxUid)
Row == [ref : Ref, seen : BOOLEAN]
Cursor == [uv : 0..(MaxChanges + 1), next : 0..(MaxUid + 1), mod : Nat]
\* No cursor: a zero is the server not saying, which resumes nothing and compares with nothing.
NoCursor == [uv |-> 0, next |-> 0, mod |-> 0]
Stages == {"idle", "survey", "list", "ingest", "headers", "said", "sweep",
           "flags", "flagged", "expunges", "listed"}
Idle == [at |-> "idle", from |-> NoCursor, was |-> NoCursor, fresh |-> NoCursor,
         rows |-> {}, wanted |-> {}, left |-> 0, due |-> {}, gone |-> {}]

Present == {m \in Msgs : uid[m] # 0}
Address(m) == <<uv, uid[m]>>
Held == {e.ref : e \in mapped}

Init ==
    /\ condstore \in Offers
    /\ uv = 1 /\ next = Cardinality(Old) + 1
    /\ uid \in {f \in [Msgs -> 0..Cardinality(Old)] :
                  /\ \A m \in Msgs : f[m] # 0 <=> m \in Old
                  /\ \A m, n \in Old : f[m] = f[n] => m = n}
    /\ seen = {} /\ mod = [m \in Msgs |-> 1] /\ high = 1 /\ expunged = {}
    /\ held = {} /\ read = {} /\ mapped = {}
    /\ cursor = NoCursor /\ through = NoCursor
    /\ unreadable = {} /\ resting = {} /\ due = Sweeps
    /\ pass = [e \in Engines |-> Idle]
    /\ changes = 0 /\ faults = 0

-----------------------------------------------------------------------------
(* The mailbox, changed by other devices.                                  *)

Change(what) ==
    /\ what \in Others
    /\ changes < MaxChanges /\ changes' = changes + 1
    /\ high' = high + 1
    /\ UNCHANGED <<condstore, store, due, pass, faults>>

Arrive(m) ==
    /\ Change("Arrive") /\ uid[m] = 0
    /\ uid' = [uid EXCEPT ![m] = next] /\ next' = next + 1
    /\ seen' = seen \ {m} /\ mod' = [mod EXCEPT ![m] = high + 1]
    /\ UNCHANGED <<uv, expunged>>

Expunge(m) ==
    /\ Change("Expunge") /\ uid[m] # 0
    /\ expunged' = expunged \cup {[uid |-> uid[m], mod |-> high + 1]}
    /\ uid' = [uid EXCEPT ![m] = 0]
    /\ UNCHANGED <<uv, next, seen, mod>>

Reflag(m) ==
    /\ Change("Reflag") /\ uid[m] # 0
    /\ seen' = (seen \ {m}) \cup ({m} \ seen)
    /\ mod' = [mod EXCEPT ![m] = high + 1]
    /\ UNCHANGED <<uv, uid, next, expunged>>

\* The mailbox is restored or made again under its name; a connection that has it selected ends.
Renumber ==
    /\ Change("Renumber") /\ \A e \in Engines : pass[e].at # "list"
    /\ uv' = uv + 1 /\ next' = Cardinality(Present) + 1 /\ expunged' = {}
    /\ uid' \in {f \in [Msgs -> 0..Cardinality(Present)] :
                   /\ \A m \in Msgs : f[m] # 0 <=> m \in Present
                   /\ \A m, n \in Present : f[m] = f[n] => m = n}
    /\ mod' = [m \in Msgs |-> high + 1]
    /\ UNCHANGED seen

\* An interval passes since a sweep, or UNREADABLE_RETRY since a header was last asked for.
TimePasses(of) ==
    /\ \/ of \in Sweeps \ due /\ due' = due \cup {of} /\ UNCHANGED resting
       \/ of = "unreadable" /\ resting # {} /\ resting' = {} /\ UNCHANGED due
    /\ UNCHANGED <<server, held, read, mapped, cursor, through, unreadable, pass, changes, faults>>

-----------------------------------------------------------------------------
(* What a SELECT says, and what the store writes.                          *)

\* mailbox_state of the backend: where the server says the mailbox is.
Fresh == [uv |-> uv, next |-> next, mod |-> IF condstore = "Absent" THEN 0 ELSE high]

\* UidValidity::between is Reset.
Renumbered(was, now) == was.uv # 0 /\ now.uv # 0 /\ was.uv # now.uv

\* parse_fetches: the rows of a FETCH, each stamped with the UIDVALIDITY of the SELECT.
Rows(ms) == {[ref |-> Address(m), seen |-> m \in seen] : m \in ms}

At(e, stage) == pass[e].at = stage
Goto(e, next_) == pass' = [pass EXCEPT ![e] = next_]
Step(e, stage) == [pass[e] EXCEPT !.at = stage]
Fault(f) == f \in Faults /\ faults < MaxFaults /\ faults' = faults + 1

\* write_ingest_chunk, 3: flags are written to the messages the mailbox's addresses name.
Reads(map, rows) ==
    LET named(flag) == {e.msg : e \in {x \in map : [ref |-> x.ref, seen |-> flag] \in rows}}
    IN (read \ named(FALSE)) \cup named(TRUE)

-----------------------------------------------------------------------------
(* AccountEngine::sync.                                                    *)

\* resume_point: whether a survey may begin where everything listed was last held.
Resumes(c, t, expunges) ==
    t.uv # 0 /\ t.next # 0 /\ ~Renumbered(c, t) /\ ~expunges

\* mailbox_state and survey_kind; open_folder keeps off an account whose pass is running.
Begin(e) ==
    /\ At(e, "idle")
    /\ e = "folder" => \A o \in Engines : At(o, "idle")
    /\ Goto(e, [Idle EXCEPT !.at = "survey", !.was = cursor, !.due = due, !.left = Budget,
                  !.from = IF Resumes(cursor, through, "expunges" \in due)
                           THEN through ELSE NoCursor])
    /\ UNCHANGED <<server, store, due, changes, faults>>

\* FetchEnvelopes: SELECT, ...
Select(e) ==
    /\ At(e, "survey")
    /\ Goto(e, [Step(e, "list") EXCEPT !.fresh = Fresh])
    /\ UNCHANGED <<server, store, due, changes, faults>>

\* ... then UID FETCH n:*, which answers with the last message even when it is before n.
Listed(from) ==
    {m \in Present : uid[m] >= from \/ \A n \in Present : uid[n] <= uid[m]}

\* Survey::redo.
Redo(from, fresh) == Renumbered(from, fresh)

List(e) ==
    /\ At(e, "list")
    /\ IF Redo(pass[e].from, pass[e].fresh)
       THEN Goto(e, [Step(e, "survey") EXCEPT !.from = NoCursor, !.fresh = NoCursor])
       ELSE Goto(e, [Step(e, "ingest") EXCEPT !.rows = Rows(Listed(pass[e].from.next))])
    /\ UNCHANGED <<server, store, due, changes, faults>>

\* may_have_found_nothing and all_held.
FoundNothing(p) ==
    p.from # NoCursor /\ p.fresh = p.was /\ {r.ref : r \in p.rows} \subseteq Held

\* Mutation: what could not be read is never asked for again.
RestingForEver == unreadable
\* unreadable_since and resting_since.
Resting == resting

\* The survey is written, a renumbered mailbox's addresses dropped first; then what to fetch is
\* decided.  An empty listing falls back to the messages held without their body, any of them.
Ingest(e) ==
    /\ At(e, "ingest")
    /\ LET p == pass[e]
           map == IF Renumbered(p.was, p.fresh) THEN {} ELSE mapped
           listed == {r.ref : r \in p.rows}
       IN /\ IF FoundNothing(p)
             THEN UNCHANGED <<read, mapped, cursor>>
             ELSE read' = Reads(map, p.rows) /\ mapped' = map /\ cursor' = p.fresh
          /\ \E wanted \in IF listed = {} THEN SUBSET {x.ref : x \in mapped'}
                                          ELSE {listed \ ({x.ref : x \in mapped'} \cup Resting)} :
               Goto(e, [Step(e, "headers") EXCEPT !.rows = {}, !.from = NoCursor,
                                                  !.was = NoCursor, !.fresh = NoCursor,
                                                  !.wanted = wanted])
    /\ UNCHANGED <<server, held, through, unreadable, resting, due, changes, faults>>

\* map_remote: an address names one message, the last it was given.
Map(ref, m) == {x \in mapped : x.ref # ref} \cup {[ref |-> ref, msg |-> m]}

\* FetchHeaders and absorb_headers: asked for by UID and kept under the address the survey gave.
\* A message new to the store is unread until the flags of the same answer are written.
FetchHeader(e) ==
    /\ At(e, "headers") /\ pass[e].left > 0
    /\ \E r \in pass[e].wanted :
         LET there == {m \in Present : uid[m] = r[2]}
             p == [pass[e] EXCEPT !.wanted = @ \ {r}]
         IN \/ /\ there = {} /\ Goto(e, p)
               /\ UNCHANGED <<held, read, mapped>>
            \/ \E m \in there :
                 /\ held' = held \cup {m} /\ mapped' = Map(r, m)
                 /\ read' = IF m \in held THEN read ELSE read \ {m}
                 /\ Goto(e, [p EXCEPT !.at = "said", !.left = @ - 1,
                               !.rows = {[ref |-> r, seen |-> m \in seen]}])
    /\ UNCHANGED <<server, cursor, through, unreadable, resting, due, changes, faults>>

\* The flags that came with the headers are a write of their own.
AbsorbFlags(e) ==
    /\ At(e, "said")
    /\ read' = Reads(mapped, pass[e].rows)
    /\ Goto(e, [Step(e, "headers") EXCEPT !.rows = {}])
    /\ UNCHANGED <<server, held, mapped, cursor, through, unreadable, resting, due, changes, faults>>

\* A header that is not a message is counted, remembered and left.
Garbled(e) ==
    /\ At(e, "headers") /\ pass[e].left > 0 /\ Fault("Garble")
    /\ \E r \in pass[e].wanted :
         /\ \E m \in Present : uid[m] = r[2]
         /\ unreadable' = unreadable \cup {r} /\ resting' = resting \cup {r}
         /\ Goto(e, [pass[e] EXCEPT !.wanted = @ \ {r}, !.left = @ - 1])
    /\ UNCHANGED <<server, held, read, mapped, cursor, through, due, changes>>

\* Mutation: a pass whose budget ran out marks what it did not fetch.
MarksAnyway(p) == p.wanted = {} \/ p.left = 0
\* `wanted.is_empty()': everything the server listed is held.
Complete(p) == p.wanted = {}

\* mark_held and held_mark: the store's cursor, as it is now.
MarkHeld(e) ==
    /\ At(e, "headers") /\ Complete(pass[e])
    /\ through' = IF cursor.uv = 0 THEN through ELSE [cursor EXCEPT !.mod = 0]
    /\ Goto(e, [Step(e, "sweep") EXCEPT !.wanted = {}, !.left = 0])
    /\ UNCHANGED <<server, held, read, mapped, cursor, unreadable, resting, due, changes, faults>>

\* The budget is spent: the rest waits for the next pass.
Unfinished(e) ==
    /\ At(e, "headers") /\ ~Complete(pass[e]) /\ pass[e].left = 0
    /\ Goto(e, [Step(e, "sweep") EXCEPT !.wanted = {}])
    /\ UNCHANGED <<server, store, due, changes, faults>>

-----------------------------------------------------------------------------
(* AccountEngine::sweep.                                                   *)

\* trusted_modseq: what CHANGEDSINCE and QRESYNC may start from.
TrustedModseq == IF condstore = "Absent" THEN 0 ELSE cursor.mod
\* resync_from.
Resyncs == condstore = "Qresync" /\ TrustedModseq > 0

\* Swept is read once; what another engine swept since the pass began is not due.
Sweep(e) ==
    /\ At(e, "sweep")
    /\ Goto(e, [Step(e, "flags") EXCEPT !.due = @ \cap due])
    /\ UNCHANGED <<server, store, due, changes, faults>>

\* FetchFlags since a modseq that is trusted, or of everything.
FetchFlags(e) ==
    /\ At(e, "flags") /\ "flags" \in pass[e].due
    /\ Goto(e, [Step(e, "flagged") EXCEPT
                  !.fresh = Fresh,
                  !.rows = Rows({m \in Present : mod[m] > TrustedModseq})])
    /\ UNCHANGED <<server, store, due, changes, faults>>

KeepFlags(e) ==
    /\ At(e, "flagged")
    /\ read' = Reads(mapped, pass[e].rows) /\ cursor' = pass[e].fresh
    /\ due' = due \ {"flags"}
    /\ Goto(e, [Step(e, "expunges") EXCEPT !.rows = {}, !.fresh = NoCursor])
    /\ UNCHANGED <<server, held, mapped, through, unreadable, resting, changes, faults>>

FlagsNotDue(e) ==
    /\ At(e, "flags") /\ "flags" \notin pass[e].due
    /\ Goto(e, Step(e, "expunges"))
    /\ UNCHANGED <<server, store, due, changes, faults>>

\* ListRemote: UID SEARCH ALL, or what vanished and what changed since the cursor's modseq
\* (`fresh' is no cursor, and nothing is learnt, when the server numbers the mailbox afresh).
ListRemote(e) ==
    /\ At(e, "expunges") /\ "expunges" \in pass[e].due
    /\ Goto(e, [Step(e, "listed") EXCEPT
                  !.wanted = IF Resyncs THEN {} ELSE {Address(m) : m \in Present},
                  !.was = IF Resyncs THEN cursor ELSE NoCursor,
                  !.fresh = IF Resyncs /\ cursor.uv # uv THEN NoCursor ELSE Fresh,
                  !.rows = IF Resyncs /\ cursor.uv = uv
                           THEN Rows({m \in Present : mod[m] > cursor.mod}) ELSE {},
                  !.gone = IF Resyncs /\ cursor.uv = uv
                           THEN {<<uv, x.uid>> : x \in {y \in expunged : y.mod > cursor.mod}}
                           ELSE {}])
    /\ UNCHANGED <<server, store, due, changes, faults>>

\* Mutation: what is held is compared with the answer whatever was asked.
VanishedAlways(p) == Held \ p.wanted
\* The addresses to drop: those the server named, or those its whole listing does not mention.
Vanished(p) == IF p.was = NoCursor THEN Held \ p.wanted ELSE Held \cap p.gone

\* Mutation: a message goes with any of its addresses.
DroppedWhole(left) == {x.msg : x \in mapped \ left}
\* write_ingest_chunk, 4: a message goes with the last of its addresses.
Dropped(left) == {x.msg : x \in mapped \ left} \ {x.msg : x \in left}

KeepGone(e) ==
    /\ At(e, "listed")
    /\ LET p == pass[e]
           left == {x \in mapped : x.ref \notin Vanished(p)}
       IN /\ mapped' = left /\ held' = held \ Dropped(left)
          /\ read' = Reads(mapped, p.rows) \ Dropped(left)
          /\ cursor' = IF p.was # NoCursor /\ p.fresh = NoCursor THEN cursor ELSE p.fresh
    /\ due' = due \ {"expunges"}
    /\ Goto(e, Idle)
    /\ UNCHANGED <<server, through, unreadable, resting, changes, faults>>

ExpungesNotDue(e) ==
    /\ At(e, "expunges") /\ "expunges" \notin pass[e].due
    /\ Goto(e, Idle)
    /\ UNCHANGED <<server, store, due, changes, faults>>

-----------------------------------------------------------------------------
(* What goes wrong.                                                        *)

\* A header fetch that fails ends the sync and not the sweep; a flag fetch, only itself.
RequestFails(e) ==
    /\ Fault("Fail")
    /\ \/ /\ At(e, "headers") /\ pass[e].wanted # {} /\ pass[e].left > 0
          /\ Goto(e, [Step(e, "sweep") EXCEPT !.wanted = {}, !.left = 0])
       \/ /\ At(e, "flags") /\ "flags" \in pass[e].due
          /\ Goto(e, Step(e, "expunges"))
    /\ UNCHANGED <<server, store, due, changes>>

\* A survey or a listing that fails, a process that ends.
CutShort(e) ==
    /\ Fault("Crash") /\ ~At(e, "idle") /\ Goto(e, Idle)
    /\ UNCHANGED <<server, store, due, changes>>

\* What a request that was out leaves of pass p.
Interrupted(e, p) ==
    \/ At(e, "survey") /\ Goto(e, [p EXCEPT !.at = "ingest"])
    \/ /\ At(e, "list") /\ ~Redo(p.from, p.fresh)
       /\ \E ms \in SUBSET Listed(p.from.next) :
            Goto(e, [p EXCEPT !.at = "ingest", !.rows = Rows(ms)])
    \/ /\ At(e, "headers") /\ pass[e].left > 0
       /\ \E cut \in SUBSET p.wanted \ {{}} :
            /\ Cardinality(cut) <= pass[e].left
            /\ Goto(e, [p EXCEPT !.wanted = @ \ cut])
    \/ /\ At(e, "flags") /\ "flags" \in p.due
       /\ \/ Goto(e, [p EXCEPT !.at = "flagged"])
          \/ \E ms \in SUBSET {m \in Present : mod[m] > TrustedModseq} :
               Goto(e, [p EXCEPT !.at = "flagged", !.fresh = Fresh, !.rows = Rows(ms)])
    \/ /\ At(e, "expunges") /\ "expunges" \in p.due
       /\ \E fresh \in {NoCursor, Fresh} :
            Goto(e, [p EXCEPT !.at = "listed", !.fresh = IF Resyncs THEN NoCursor ELSE fresh,
                              !.was = IF Resyncs THEN cursor ELSE NoCursor])

\* The pass is stopped while a request is out: the IMAP session ends with what it has heard, which
\* is taken for the answer.  No more headers are asked for; what else the pass does goes on.
Stopped(e) ==
    /\ Fault("Stop")
    /\ Interrupted(e, [pass[e] EXCEPT !.left = 0])
    /\ UNCHANGED <<server, store, due, changes>>

-----------------------------------------------------------------------------

Outside == (\E m \in Msgs : Arrive(m) \/ Expunge(m) \/ Reflag(m)) \/ Renumber

\* What an engine does by itself once it has begun.
Proceed(e) ==
    \/ Select(e) \/ List(e) \/ Ingest(e) \/ FetchHeader(e) \/ AbsorbFlags(e)
    \/ MarkHeld(e) \/ Unfinished(e)
    \/ Sweep(e) \/ FetchFlags(e) \/ KeepFlags(e) \/ FlagsNotDue(e)
    \/ ListRemote(e) \/ KeepGone(e) \/ ExpungesNotDue(e)

Next ==
    \/ Outside \/ \E of \in Waits : TimePasses(of)
    \/ \E e \in Engines : Begin(e) \/ Proceed(e) \/ Garbled(e) \/ RequestFails(e) \/ CutShort(e)
                         \/ Stopped(e)

Spec == Init /\ [][Next]_vars

\* The scheduler passes again and again and each pass goes on; time passes.
FairSpec ==
    /\ Spec /\ \A of \in Waits : WF_vars(TimePasses(of))
    /\ \A e \in Engines : WF_vars(Begin(e) \/ Proceed(e))

-----------------------------------------------------------------------------

\* The server, the store and every engine keep their types; what is read is held, and every
\* address names a message that is held.
TypeOK ==
    /\ condstore \in Offers /\ uv \in 1..(MaxChanges + 1) /\ next \in 1..(MaxUid + 1)
    /\ uid \in [Msgs -> 0..MaxUid] /\ seen \subseteq Msgs
    /\ mod \in [Msgs -> Nat] /\ high \in Nat
    /\ expunged \subseteq [uid : 1..MaxUid, mod : Nat]
    /\ held \subseteq Msgs /\ read \subseteq held
    /\ mapped \subseteq [ref : Ref, msg : held]
    /\ cursor \in Cursor /\ through \in Cursor
    /\ resting \subseteq unreadable /\ unreadable \subseteq Ref
    /\ due \subseteq Sweeps
    /\ pass \in [Engines -> [at : Stages, from : Cursor, was : Cursor, fresh : Cursor,
                             rows : SUBSET Row, wanted : SUBSET Ref, left : 0..Budget,
                             due : SUBSET Sweeps, gone : SUBSET Ref]]
    /\ changes \in 0..MaxChanges /\ faults \in 0..MaxFaults

\* mark_held: what a mailbox is marked held through is held.  A later survey asks only for what
\* comes after the mark, so a message the server has under it and the store lacks would not be
\* fetched by it; only one whose header could not be read is left out knowingly.
ThroughHeld ==
    through.uv = uv =>
      \A m \in Present : uid[m] < through.next =>
        Address(m) \in unreadable \/ [ref |-> Address(m), msg |-> m] \in mapped

\* sweep and write_ingest_chunk: a message is dropped from the store only when the server no
\* longer has it at an address the store knows; whatever is held at a live address stays.
NeverDropsLive ==
    [][\A x \in mapped : (x.msg \in Present /\ x.ref = Address(x.msg)) => x.msg \in held']_vars

\* Once other devices leave the mailbox alone, everything the server has is held at its address
\* and as read or unread as the server says.
Agrees ==
    \A m \in Present :
      /\ [ref |-> Address(m), msg |-> m] \in mapped
      /\ m \in read <=> m \in seen

\* sync and sweep, again and again, end with the store saying what the server says.
Converges == <>[]Agrees

\* sweep: what was taken away elsewhere disappears here too.
Disappears == <>[](Held \subseteq {Address(m) : m \in Present})
===========================================================================
