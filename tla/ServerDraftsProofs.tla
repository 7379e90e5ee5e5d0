------------------------- MODULE ServerDraftsProofs -------------------------
(***************************************************************************)
(* What the copy of a draft is worth, for any number of drains, rows and   *)
(* saves: its types; that a draft once kept has a copy until a removal is  *)
(* asked for; and, for one drain whose removals are neither refused nor    *)
(* stopped, that a copy to be removed has a removal queued.                *)
(***************************************************************************)
EXTENDS ServerDrafts, TLAPS

DraftType == [state : States, text : 0..MaxSaves, sealed : BOOLEAN]
RowType == [id : 1..MaxRows, kind : Kinds]
CopyType == [uid : Nat \ {0}, text : 0..MaxSaves]
OwedType == [what : {"nothing", "keep", "drop", "cut"}, text : 0..MaxSaves]
DrainType == [at : Stages, list : SUBSET (1..MaxRows), row : 0..MaxRows,
              kind : Kinds \cup {"none"}, found : SUBSET (Nat \ {0}), text : 0..MaxSaves]

\* Only the newest upload waits.
OneWaits == \A q, r \in rows : q.kind = "keep" /\ r.kind = "keep" => q = r
StoreTypes ==
    /\ draft \in DraftType /\ owes \subseteq {"keep", "drop"}
    /\ rows \subseteq RowType /\ last \in 0..MaxRows
    /\ ready \subseteq IdsOf(rows) /\ OneWaits
    /\ replaced \in [Procs -> SUBSET (1..MaxRows)]
HistoryTypes == owed \in OwedType /\ ever \subseteq {"kept", "dropped"}
\* The server gave every UID there is, or was found.
ServerTypes ==
    /\ copies \subseteq CopyType /\ lastUid \in Nat
    /\ \A c \in copies : c.uid <= lastUid
DrainTypes ==
    /\ drain \in [Drains -> DrainType]
    /\ \A d \in Drains : \A u \in drain[d].found : u <= lastUid
Types == StoreTypes /\ HistoryTypes /\ ServerTypes /\ DrainTypes /\ faults \in 0..MaxFaults

\* The newest copy stands while no removal was asked for: an upload removes what was there
\* before it, and only a row queued as a removal removes all it finds.
CopyInv ==
    /\ \A r \in rows : r.kind = "drop" => "dropped" \in ever
    /\ \A d \in Drains : drain[d].at \in {"stage", "append"} => drain[d].kind = "keep"
    /\ \A d \in Drains : drain[d].at \in {"search", "remove"} =>
          drain[d].kind = "keep" \/ "dropped" \in ever
    /\ \A d \in Drains : drain[d].at = "remove" /\ drain[d].kind = "keep" =>
          \A u \in drain[d].found : u < lastUid
    /\ "kept" \in ever /\ "dropped" \notin ever => \E c \in copies : c.uid = lastUid

\* The program drains the account's outbox in one pass at a time, and the server takes a removal
\* sooner or later.
OneDrain == \A d, e \in Drains : d = e
RemovalsTaken == Faults \cap {"refused", "stopped"} = {}

Walking(d) == drain[d].at \notin {"idle", "walk"}
Removal == \E r \in rows : r.kind = "drop"

\* Which rows a drain may be at which stage of.
Fits(at, kind) ==
    /\ at \in {"stage", "append"} => kind = "keep"
    /\ at \in {"search", "remove", "done", "later", "refused"} => kind \in {"keep", "drop"}
    /\ at \in {"submit", "sending", "settled", "sent"} => kind = "submit"
\* An id is never given twice, and the row a drain is at is of the kind it took it for.
RowInv ==
    /\ \A r, q \in rows : r.id = q.id => r = q
    /\ \A r \in rows : r.id <= last
    /\ \A d \in Drains : drain[d].row <= last
    /\ \A d \in Drains : Walking(d) => \A r \in rows : r.id = drain[d].row => r.kind = drain[d].kind
    /\ \A d \in Drains : Fits(drain[d].at, drain[d].kind)

\* A removal that is owed is queued until the drain has seen it through; an upload before it
\* ends before it begins.
RemovalInv ==
    /\ \A d \in Drains : drain[d].at # "refused"
    /\ \A d \in Drains : drain[d].kind = "drop" /\ drain[d].at = "remove" =>
          \A c \in copies : c.uid \in drain[d].found
    /\ \A d \in Drains : drain[d].kind = "drop" /\ drain[d].at = "done" => copies = {}
    /\ owed.what = "drop" => \A r \in rows : r.kind # "keep"
    /\ owed.what = "drop" =>
          Removal \/ (copies = {} /\ \A d \in Drains : Walking(d) => drain[d].kind # "keep")

LEMMA TypesAre == Types => TypeOK
<1> SUFFICES ASSUME Types PROVE TypeOK
    OBVIOUS
<1>1. copies \subseteq [uid : 1..lastUid, text : 0..MaxSaves]
    BY DEF Types, ServerTypes, CopyType
<1>2. ASSUME NEW d \in Drains
      PROVE  drain[d] \in [at : Stages, list : SUBSET (1..MaxRows), row : 0..MaxRows,
                           kind : Kinds \cup {"none"}, found : SUBSET (1..lastUid), text : 0..MaxSaves]
    <2>1. drain[d] \in DrainType /\ lastUid \in Nat /\ \A u \in drain[d].found : u <= lastUid
        BY <1>2 DEF Types, DrainTypes, ServerTypes
    <2>2. drain[d].found \subseteq 1..lastUid
        BY <2>1 DEF DrainType
    <2> QED
        BY <2>1, <2>2 DEF DrainType
<1>3. drain \in [Drains -> [at : Stages, list : SUBSET (1..MaxRows), row : 0..MaxRows,
                            kind : Kinds \cup {"none"}, found : SUBSET (1..lastUid), text : 0..MaxSaves]]
    BY <1>2 DEF Types, DrainTypes
<1>4. \A q, r \in Waiting : q = r
    BY DEF Types, StoreTypes, OneWaits, Waiting
<1> QED
    BY <1>1, <1>3, <1>4 DEF Types, TypeOK, StoreTypes, HistoryTypes, ServerTypes, DraftType, RowType, OwedType

LEMMA Values ==
    /\ Idle \in DrainType /\ Idle.at = "idle" /\ Idle.kind = "none" /\ Idle.found = {} /\ Idle.row = 0
    /\ Idle.list = {} /\ Idle.text = 0
BY ServerDraftsAssumption DEF Idle, DrainType, Stages

\* The process of the window and that of every drain.
LEMMA AreProcs == "window" \in Procs /\ \A d \in Drains : Proc(d) \in Procs
BY ServerDraftsAssumption DEF Procs, Proc

\* What is not touched keeps its type.
LEMMA Untouched ==
    /\ StoreTypes /\ UNCHANGED store => StoreTypes'
    /\ HistoryTypes /\ UNCHANGED history => HistoryTypes'
    /\ ServerTypes /\ UNCHANGED server => ServerTypes'
    /\ DrainTypes /\ UNCHANGED <<drain, lastUid>> => DrainTypes'
BY DEF StoreTypes, OneWaits, store, HistoryTypes, history, ServerTypes, server, DrainTypes

\* Fewer rows, and still at most one upload waits.
LEMMA FewerWait == ASSUME OneWaits, rows' \subseteq rows PROVE OneWaits'
BY DEF OneWaits

\* Nobody is asked any more for what was not asked for yet.
LEMMA UnaskedFacts ==
    ASSUME HistoryTypes, owed' = owed \/ owed' = Unasked
    PROVE  owed' \in OwedType /\ (owed'.what = "drop" <=> owed.what = "drop")
BY DEF HistoryTypes, OwedType, Unasked

LEMMA InitTypes == Init => Types
<1> SUFFICES ASSUME Init PROVE Types
    OBVIOUS
<1>1. StoreTypes
    BY ServerDraftsAssumption DEF Init, StoreTypes, OneWaits, DraftType, States
<1>2. HistoryTypes /\ ServerTypes /\ faults \in 0..MaxFaults
    BY ServerDraftsAssumption DEF Init, HistoryTypes, ServerTypes, OwedType
<1>3. DrainTypes
    BY Values DEF Init, DrainTypes
<1> QED
    BY <1>1, <1>2, <1>3 DEF Types

-----------------------------------------------------------------------------
(* What the outbox's operators and a drain's steps do.                     *)

LEMMA QueuedFacts ==
    ASSUME StoreTypes, HistoryTypes, NEW p \in Procs, NEW kind \in {"keep", "drop"}, Queued(p, kind)
    PROVE  /\ \A r \in rows' : (r \in rows /\ r.kind # "keep") \/ (r.id = last + 1 /\ r.kind = kind)
           /\ \A r \in rows : r.kind # "keep" => r \in rows'
           /\ \E r \in rows' : r.id = last + 1 /\ r.kind = kind
           /\ last' = last + 1 /\ last' \in 0..MaxRows
           /\ rows' \subseteq RowType /\ ready' \subseteq IdsOf(rows)' /\ OneWaits'
           /\ replaced' \in [Procs -> SUBSET (1..MaxRows)]
           /\ owed' \in OwedType /\ owed'.what = kind
           /\ ever' = (IF kind = "drop" THEN ever \cup {"dropped"} ELSE ever)
<1>0. /\ last \in 0..MaxRows /\ last < MaxRows /\ last' = last + 1 /\ MaxRows \in Nat
      /\ rows \subseteq RowType /\ ready \subseteq IdsOf(rows) /\ draft \in DraftType
      /\ rows' = (rows \ Waiting) \cup {[id |-> last + 1, kind |-> kind]}
    BY ServerDraftsAssumption DEF StoreTypes, Queued, NewRow
<1> DEFINE new == [id |-> last + 1, kind |-> kind]
<1>1. new \in RowType /\ new.id = last + 1 /\ new.kind = kind /\ rows' = (rows \ Waiting) \cup {new}
    BY <1>0 DEF RowType, Kinds
<1> HIDE DEF new
<1>2. /\ \A r \in rows' : (r \in rows /\ r.kind # "keep") \/ (r.id = last + 1 /\ r.kind = kind)
      /\ \A r \in rows : r.kind # "keep" => r \in rows'
      /\ \E r \in rows' : r.id = last + 1 /\ r.kind = kind
      /\ rows' \subseteq RowType /\ OneWaits'
    <2>1. \A r \in rows : r \in Waiting <=> r.kind = "keep"
        BY DEF Waiting
    <2>2. new \in rows' /\ \A r \in rows' : r = new \/ (r \in rows /\ r \notin Waiting)
        BY <1>1
    <2>3. \A r \in rows : r \notin Waiting => r \in rows'
        BY <1>1
    <2>4. rows' \subseteq RowType
        BY <1>0, <1>1, <2>2
    <2>5. OneWaits'
        BY <2>1, <2>2 DEF OneWaits
    <2> QED
        BY <1>1, <2>1, <2>2, <2>3, <2>4, <2>5
<1>3. ready' \subseteq IdsOf(rows)'
    <2>1. SUFFICES ASSUME NEW i \in ready' PROVE \E r \in rows' : r.id = i
        BY DEF IdsOf
    <2>2. i \in ready \ IdsOf(Waiting) \/ i = last + 1
        BY DEF Queued
    <2>3. CASE i \in ready \ IdsOf(Waiting)
        BY <1>0, <2>3 DEF IdsOf, Waiting
    <2> QED
        BY <1>2, <2>2, <2>3
<1>4. IdsOf(Waiting) \subseteq 1..MaxRows
    BY <1>0 DEF IdsOf, Waiting, RowType
<1>5. replaced' \in [Procs -> SUBSET (1..MaxRows)]
    BY <1>4 DEF StoreTypes, Queued
<1>6. owed' = [what |-> kind, text |-> draft.text] /\ draft.text \in 0..MaxSaves
    BY <1>0 DEF Queued, DraftType
<1>7. owed' \in OwedType /\ owed'.what = kind
    BY <1>6 DEF OwedType
<1>8. ever' = (IF kind = "drop" THEN ever \cup {"dropped"} ELSE ever)
    BY DEF Queued
<1>9. last' = last + 1 /\ last' \in 0..MaxRows
    BY <1>0
<1> QED
    BY <1>2, <1>3, <1>5, <1>7, <1>8, <1>9

LEMMA GoneFacts ==
    ASSUME StoreTypes, NEW ids, Gone(ids)
    PROVE  /\ rows' = {r \in rows : r.id \notin ids}
           /\ rows' \subseteq RowType /\ ready' \subseteq IdsOf(rows)' /\ OneWaits'
<1>1. rows' = {r \in rows : r.id \notin ids} /\ ready' \subseteq IdsOf(rows)' /\ rows \subseteq RowType
    BY DEF StoreTypes, Gone, IdsOf
<1>2. rows' \subseteq rows /\ OneWaits
    BY <1>1 DEF StoreTypes
<1> QED
    BY <1>1, <1>2, FewerWait

LEMMA GotoFacts ==
    ASSUME DrainTypes, NEW d \in Drains, NEW stage \in Stages, Goto(d, stage)
    PROVE  /\ drain' \in [Drains -> DrainType] /\ drain'[d].at = stage
           /\ drain'[d].row = drain[d].row /\ drain'[d].kind = drain[d].kind
           /\ drain'[d].found = drain[d].found
           /\ \A e \in Drains : e # d => drain'[e] = drain[e]
BY DEF DrainTypes, Goto, DrainType

LEMMA StopFacts ==
    ASSUME DrainTypes, NEW d \in Drains, Stop(d)
    PROVE  /\ drain' \in [Drains -> DrainType] /\ drain'[d] = Idle
           /\ \A e \in Drains : e # d => drain'[e] = drain[e]
BY Values DEF DrainTypes, Stop

\* The next of the walk, where it is still in the outbox.
LEMMA AddressFacts ==
    ASSUME StoreTypes, DrainTypes, NEW d \in Drains, DrainAddress(d)
    PROVE  /\ drain' \in [Drains -> DrainType] /\ drain'[d].found = {}
           /\ \A e \in Drains : e # d => drain'[e] = drain[e]
           /\ \/ drain'[d].at = "walk" /\ drain'[d].row = 0
              \/ \E r \in rows : /\ drain'[d].row = r.id /\ drain'[d].kind = r.kind
                                 /\ drain'[d].at = CASE r.kind = "keep" -> "stage" [] r.kind = "drop" -> "search"
                                                     [] r.kind = "submit" -> "submit"
<1> DEFINE i == Min(drain[d].list)
           left == [Idle EXCEPT !.at = "walk", !.list = drain[d].list \ {i}]
           kind == (CHOOSE r \in rows : r.id = i).kind
           at == CASE kind = "keep" -> "stage" [] kind = "drop" -> "search" [] kind = "submit" -> "submit"
           next == IF i \notin IdsOf(rows) THEN left ELSE [left EXCEPT !.row = i, !.kind = kind, !.at = at]
<1> HIDE DEF i
<1>1. drain' = [drain EXCEPT ![d] = next] /\ drain \in [Drains -> DrainType]
    BY DEF DrainAddress, DrainTypes, i
<1>2. left \in DrainType /\ left.at = "walk" /\ left.row = 0 /\ left.found = {}
    <2>1. drain[d].list \in SUBSET (1..MaxRows)
        BY <1>1 DEF DrainType
    <2> QED
        BY <2>1, Values DEF DrainType, Stages
<1>3. CASE i \notin IdsOf(rows)
    BY <1>1, <1>2, <1>3
<1>4. CASE i \in IdsOf(rows)
    <2>1. \E r \in rows : r.id = i
        BY <1>4 DEF IdsOf
    <2>2. PICK r \in rows : r.id = i /\ r = CHOOSE q \in rows : q.id = i
        BY <2>1
    <2>3. kind = r.kind /\ r.id \in 1..MaxRows /\ r.kind \in Kinds
        BY <2>2 DEF StoreTypes, RowType
    <2>4. at \in Stages
        BY <2>3 DEF Kinds, Stages
    <2> HIDE DEF kind, at
    <2>5. /\ next \in DrainType /\ next.row = i /\ next.kind = kind /\ next.at = at /\ next.found = {}
        <3> HIDE DEF left
        <3>1. i \in 0..MaxRows /\ kind \in Kinds \cup {"none"} /\ next = [left EXCEPT !.row = i, !.kind = kind, !.at = at]
            BY <1>4, <2>2, <2>3
        <3> QED
            BY <1>2, <2>4, <3>1 DEF DrainType
    <2>6. drain' \in [Drains -> DrainType] /\ drain'[d] = next /\ \A e \in Drains : e # d => drain'[e] = drain[e]
        BY <1>1, <2>5
    <2>7. at = CASE r.kind = "keep" -> "stage" [] r.kind = "drop" -> "search" [] r.kind = "submit" -> "submit"
        BY <2>3 DEF at
    <2> QED
        BY <2>2, <2>3, <2>5, <2>6, <2>7
<1> QED
    BY <1>3, <1>4

-----------------------------------------------------------------------------
(* Types.                                                                  *)

\* What the person and the window do, and time.
LEMMA PersonTypes == ASSUME Types, Person \/ Follows \/ ComeDue PROVE Types'
<1>0. StoreTypes /\ HistoryTypes /\ ServerTypes /\ DrainTypes /\ faults \in 0..MaxFaults
    BY DEF Types
<1>1. UNCHANGED <<server, drain, faults>>
    BY DEF Person, Follows, ComeDue, Save, Send, Unsend, Discard, Keep, KeepNotDue, DiscardDrop
<1>2. ServerTypes' /\ DrainTypes' /\ faults' \in 0..MaxFaults
    BY <1>0, <1>1, Untouched DEF server
<1>3. CASE Save
    <2>1. draft' \in DraftType
        <3>1. PICK sealed \in BOOLEAN : draft' = [draft EXCEPT !.text = @ + 1, !.sealed = sealed]
            BY <1>3 DEF Save
        <3>2. draft \in DraftType /\ draft.text + 1 \in 0..MaxSaves
            BY <1>0, <1>3, ServerDraftsAssumption DEF Save, StoreTypes, DraftType
        <3> QED
            BY <3>1, <3>2 DEF DraftType
    <2> QED
        BY <1>0, <1>2, <1>3, <2>1, Untouched, FewerWait DEF Types, Save, StoreTypes, store, history
<1>4. CASE Send
    <2>1. draft' \in DraftType /\ last' \in 0..MaxRows /\ last' = last + 1
        BY <1>0, <1>4, ServerDraftsAssumption DEF Send, NewRow, StoreTypes, DraftType, States
    <2>2. [id |-> last + 1, kind |-> "submit"] \in RowType
        BY <1>0, <2>1 DEF RowType, Kinds, StoreTypes
    <2>3. rows' \subseteq RowType /\ ready' \subseteq IdsOf(rows)'
        BY <1>0, <1>4, <2>2 DEF Send, StoreTypes, IdsOf
    <2>4. OneWaits'
        BY <1>0, <1>4 DEF Send, StoreTypes, OneWaits
    <2> QED
        BY <1>0, <1>2, <1>4, <2>1, <2>3, <2>4, Untouched DEF Types, Send, StoreTypes
<1>5. CASE Unsend \/ Discard
    <2>1. draft' \in DraftType /\ owes' \subseteq {"keep", "drop"} /\ UNCHANGED <<last, replaced, history>> /\ Gone(Submissions)
        BY <1>0, <1>5 DEF Unsend, Discard, StoreTypes, DraftType, States
    <2>2. StoreTypes'
        BY <1>0, <2>1, GoneFacts DEF StoreTypes
    <2> QED
        BY <1>0, <1>2, <2>1, <2>2, Untouched DEF Types
<1>6. CASE UNCHANGED <<draft, rows, ready, last, replaced, history>> /\ owes' \subseteq owes
    BY <1>0, <1>2, <1>6, Untouched, FewerWait DEF Types, StoreTypes
<1>7. CASE UNCHANGED draft /\ owes' \subseteq owes /\ \E kind \in {"keep", "drop"} : Queued("window", kind)
    <2>1. StoreTypes' /\ HistoryTypes'
        BY <1>0, <1>7, QueuedFacts, AreProcs DEF StoreTypes, HistoryTypes
    <2> QED
        BY <1>2, <2>1 DEF Types
<1>8. CASE Keep \/ KeepNotDue \/ DiscardDrop
    BY <1>6, <1>7, <1>8 DEF Keep, KeepNotDue, DiscardDrop
<1>9. CASE ComeDue
    BY <1>0, <1>2, <1>9, Untouched, FewerWait DEF Types, ComeDue, StoreTypes
<1> QED
    BY <1>3, <1>4, <1>5, <1>8, <1>9 DEF Person, Follows

\* A drain moves, and the UIDs it found stay those the server gave.
LEMMA DrainMoves ==
    ASSUME DrainTypes, ServerTypes, NEW d \in Drains, drain' \in [Drains -> DrainType],
           \A e \in Drains : e # d => drain'[e] = drain[e],
           drain'[d].found \subseteq drain[d].found, lastUid' = lastUid \/ lastUid' = lastUid + 1
    PROVE  DrainTypes'
<1>1. lastUid \in Nat /\ lastUid <= lastUid'
    BY DEF ServerTypes
<1>2. ASSUME NEW e \in Drains, NEW u \in drain'[e].found PROVE u <= lastUid'
    <2>1. u \in drain[e].found /\ u <= lastUid /\ u \in Nat
        BY <1>2 DEF DrainTypes, DrainType
    <2> QED
        BY <1>1, <2>1
<1> QED
    BY <1>2 DEF DrainTypes

LEMMA WalkTypes ==
    ASSUME Types, NEW d \in Drains,
           DrainList(d) \/ DrainAddress(d) \/ DrainEnd(d) \/ StageCopy(d) \/ Search(d) \/ Fails(d)
    PROVE  Types'
<1>0. StoreTypes /\ HistoryTypes /\ ServerTypes /\ DrainTypes /\ faults \in 0..MaxFaults /\ drain \in [Drains -> DrainType]
    BY DEF Types, DrainTypes
<1>1. UNCHANGED <<store, server, ever>>
    BY DEF DrainList, DrainAddress, DrainEnd, StageCopy, Search, Fails, history
<1>2. StoreTypes' /\ ServerTypes'
    BY <1>0, <1>1, Untouched
<1>3. ASSUME UNCHANGED history, DrainTypes', faults' \in 0..MaxFaults PROVE Types'
    BY <1>0, <1>2, <1>3, Untouched DEF Types
<1>4. CASE DrainList(d)
    <2>1. UNCHANGED <<history, faults, lastUid>>
        BY <1>4 DEF DrainList, server
    <2>2. ready \subseteq 1..MaxRows
        BY <1>0 DEF StoreTypes, IdsOf, RowType
    <2>3. drain' \in [Drains -> DrainType] /\ drain'[d].found = {} /\ \A e \in Drains : e # d => drain'[e] = drain[e]
        BY <1>0, <1>4, <2>2, Values DEF DrainList, DrainType, Stages
    <2>4. DrainTypes'
        BY <1>0, <2>1, <2>3, DrainMoves
    <2> QED
        BY <1>0, <1>3, <2>1, <2>4
<1>5. CASE DrainAddress(d)
    <2>1. UNCHANGED <<history, faults, lastUid>>
        BY <1>5 DEF DrainAddress, server
    <2>4. DrainTypes'
        BY <1>0, <1>5, <2>1, AddressFacts, DrainMoves
    <2> QED
        BY <1>0, <1>3, <2>1, <2>4
<1>6. CASE DrainEnd(d)
    <2>1. UNCHANGED <<history, faults, lastUid>> /\ Stop(d)
        BY <1>6 DEF DrainEnd, server
    <2>4. DrainTypes'
        BY <1>0, <2>1, StopFacts, DrainMoves, Values
    <2> QED
        BY <1>0, <1>3, <2>1, <2>4
<1>7. CASE StageCopy(d)
    <2>1. UNCHANGED <<faults, lastUid>> /\ draft.text \in 0..MaxSaves
        BY <1>0, <1>7 DEF StageCopy, server, StoreTypes, DraftType
    <2>2. CASE drain' = [drain EXCEPT ![d].at = "search", ![d].text = draft.text] /\ UNCHANGED owed
        <3> DEFINE r == [drain[d] EXCEPT !.at = "search", !.text = draft.text]
        <3>a. r \in DrainType /\ r.found = drain[d].found
            BY <1>0, <2>1 DEF DrainType, Stages
        <3>b. drain' = [drain EXCEPT ![d] = r]
            BY <1>0, <2>2
        <3>1. /\ drain' \in [Drains -> DrainType] /\ drain'[d].found = drain[d].found
              /\ \A e \in Drains : e # d => drain'[e] = drain[e]
            <4> HIDE DEF r
            <4> QED
                BY <1>0, <3>a, <3>b
        <3>2. DrainTypes'
            BY <1>0, <2>1, <3>1, DrainMoves
        <3> QED
            BY <1>0, <1>1, <1>3, <2>1, <2>2, <3>2 DEF history
    <2>3. CASE Goto(d, "done") /\ owed' = [owed EXCEPT !.what = IF @ = "keep" THEN "nothing" ELSE @]
        <3>1. HistoryTypes'
            BY <1>0, <1>1, <2>3 DEF HistoryTypes, OwedType
        <3>2. DrainTypes'
            BY <1>0, <2>1, <2>3, GotoFacts, DrainMoves DEF Stages
        <3> QED
            BY <1>0, <1>2, <2>1, <3>1, <3>2 DEF Types
    <2> QED
        BY <1>7, <2>2, <2>3 DEF StageCopy
<1>8. CASE Search(d)
    <2>1. UNCHANGED <<history, faults, server>>
        BY <1>8 DEF Search
    <2>2. UidsOf(copies) \subseteq Nat \ {0} /\ \A u \in UidsOf(copies) : u <= lastUid
        BY <1>0 DEF ServerTypes, UidsOf, CopyType
    <2>3. PICK stage \in {"append", "remove"} : drain' = [drain EXCEPT ![d].at = stage, ![d].found = UidsOf(copies)]
        BY <1>8 DEF Search
    <2>4. /\ drain' \in [Drains -> DrainType] /\ drain'[d].found = UidsOf(copies)
          /\ \A e \in Drains : e # d => drain'[e] = drain[e]
        <3> DEFINE r == [drain[d] EXCEPT !.at = stage, !.found = UidsOf(copies)]
        <3>1. r \in DrainType /\ r.found = UidsOf(copies)
            <4>1. drain[d] \in DrainType /\ stage \in Stages /\ UidsOf(copies) \in SUBSET (Nat \ {0})
                BY <1>0, <2>2 DEF Stages
            <4> QED
                BY <4>1 DEF DrainType
        <3>2. drain' = [drain EXCEPT ![d] = r]
            BY <1>0, <2>3
        <3> HIDE DEF r
        <3> QED
            BY <1>0, <3>1, <3>2
    <2>5. DrainTypes'
        BY <1>0, <2>1, <2>2, <2>4 DEF DrainTypes, server
    <2> QED
        BY <1>0, <1>3, <2>1, <2>5
<1>9. CASE Fails(d)
    <2>1. UNCHANGED <<history, lastUid>> /\ faults' \in 0..MaxFaults
        BY <1>0, <1>9, ServerDraftsAssumption DEF Fails, server, Fault
    <2>2. PICK stage \in {"done", "later", "refused"} : Goto(d, stage)
        BY <1>9 DEF Fails
    <2>3. DrainTypes'
        BY <1>0, <2>1, <2>2, GotoFacts, DrainMoves DEF Stages
    <2> QED
        BY <1>3, <2>1, <2>3
<1> QED
    BY <1>4, <1>5, <1>6, <1>7, <1>8, <1>9

LEMMA CopyTypes ==
    ASSUME Types, NEW d \in Drains, Append(d) \/ AppendLost(d) \/ Remove(d)
    PROVE  Types'
<1>0. StoreTypes /\ HistoryTypes /\ ServerTypes /\ DrainTypes /\ faults \in 0..MaxFaults
    BY DEF Types
<1>1. StoreTypes' /\ HistoryTypes' /\ faults' \in 0..MaxFaults
    <2>1. UNCHANGED <<store, owed>> /\ ever' \subseteq ever \cup {"kept"}
        BY DEF Append, AppendLost, Appended, Remove, history
    <2>2. faults' \in 0..MaxFaults
        BY <1>0, ServerDraftsAssumption DEF Append, AppendLost, Remove, Fault
    <2> QED
        BY <1>0, <2>1, <2>2, Untouched DEF HistoryTypes
<1>2. PICK stage \in {"remove", "later", "done"} : Goto(d, stage)
    BY DEF Append, AppendLost, Remove
<1>3. lastUid' = lastUid \/ lastUid' = lastUid + 1
    BY DEF Append, AppendLost, Appended, Remove
<1>4. DrainTypes'
    BY <1>0, <1>2, <1>3, GotoFacts, DrainMoves DEF Stages
<1>5. CASE Appended(d)
    <2>1. drain[d].text \in 0..MaxSaves /\ lastUid \in Nat
        BY <1>0 DEF DrainTypes, DrainType, ServerTypes
    <2>2. [uid |-> lastUid + 1, text |-> drain[d].text] \in CopyType
        BY <2>1 DEF CopyType
    <2>3. ServerTypes'
        BY <1>0, <1>5, <2>1, <2>2 DEF ServerTypes, Appended, CopyType
    <2> QED
        BY <1>1, <1>4, <2>3 DEF Types
<1>6. CASE Remove(d)
    <2>1. ServerTypes'
        BY <1>0, <1>6 DEF ServerTypes, Remove
    <2> QED
        BY <1>1, <1>4, <2>1 DEF Types
<1> QED
    BY <1>5, <1>6 DEF Append, AppendLost

LEMMA SettleTypes ==
    ASSUME Types, NEW d \in Drains,
           Settle(d) \/ SettleFailed(d) \/ MarkSending(d) \/ Submitted(d) \/ MarkSent(d) \/ DropCopies(d)
           \/ Crash(d)
    PROVE  Types'
<1>0. StoreTypes /\ HistoryTypes /\ ServerTypes /\ DrainTypes /\ faults \in 0..MaxFaults
    BY DEF Types
<1>1. ServerTypes' /\ UNCHANGED lastUid
    BY <1>0, Untouched DEF Settle, SettleFailed, MarkSending, Submitted, MarkSent, DropCopies, Crash, server
<1>2. DrainTypes'
    <2>1. Stop(d) \/ \E stage \in {"walk", "sending", "settled", "sent"} : Goto(d, stage)
        BY DEF Settle, SettleFailed, MarkSending, Submitted, MarkSent, DropCopies, Crash
    <2>2. CASE Stop(d)
        BY <1>0, <1>1, <2>2, StopFacts, DrainMoves, Values
    <2>3. CASE \E stage \in {"walk", "sending", "settled", "sent"} : Goto(d, stage)
        BY <1>0, <1>1, <2>3, GotoFacts, DrainMoves DEF Stages
    <2> QED
        BY <2>1, <2>2, <2>3
<1>3. faults' \in 0..MaxFaults
    BY <1>0, ServerDraftsAssumption DEF Settle, SettleFailed, MarkSending, Submitted, MarkSent, DropCopies, Crash, Fault
<1>4. draft' \in DraftType
    BY <1>0 DEF Settle, SettleFailed, MarkSending, Submitted, MarkSent, DropCopies, Crash, StoreTypes, DraftType, States
<1>5. UNCHANGED owes
    BY DEF Settle, SettleFailed, MarkSending, Submitted, MarkSent, DropCopies, Crash
<1>6. ASSUME StoreTypes', HistoryTypes' PROVE Types'
    BY <1>1, <1>2, <1>3, <1>6 DEF Types
<1>7. CASE Settle(d) \/ Submitted(d)
    <2>1. UNCHANGED <<last, replaced, history>> /\ Gone({drain[d].row})
        BY <1>7 DEF Settle, Submitted
    <2>2. StoreTypes'
        BY <1>0, <1>4, <1>5, <2>1, GoneFacts DEF StoreTypes
    <2> QED
        BY <1>0, <1>6, <2>1, <2>2, Untouched
<1>8. CASE SettleFailed(d)
    <2>1. rows' \subseteq RowType /\ ready' \subseteq IdsOf(rows)'
        BY <1>0, <1>8 DEF SettleFailed, StoreTypes, IdsOf
    <2>a. rows' \subseteq rows
        BY <1>8 DEF SettleFailed
    <2>2. StoreTypes'
        BY <1>0, <1>4, <1>5, <1>8, <2>a, <2>1, FewerWait DEF StoreTypes, SettleFailed
    <2> QED
        BY <1>0, <1>6, <1>8, <2>2, Untouched DEF SettleFailed
<1>9. CASE MarkSending(d) \/ MarkSent(d)
    BY <1>0, <1>4, <1>6, <1>9, Untouched, FewerWait DEF MarkSending, MarkSent, StoreTypes
<1>10. CASE DropCopies(d)
    <2>1. CASE UNCHANGED <<rows, ready, last, replaced, history>>
        BY <1>0, <1>4, <1>5, <1>6, <2>1, Untouched, FewerWait DEF StoreTypes
    <2>2. CASE Queued(Proc(d), "drop")
        BY <1>0, <1>4, <1>5, <1>6, <2>2, QueuedFacts, AreProcs DEF StoreTypes, HistoryTypes
    <2> QED
        BY <1>10, <2>1, <2>2 DEF DropCopies
<1>11. CASE Crash(d)
    <2>1. replaced' \in [Procs -> SUBSET (1..MaxRows)]
        BY <1>0, <1>11 DEF Crash, StoreTypes
    <2>2. owed' = owed \/ owed' = Unasked
        BY <1>11 DEF Crash
    <2>3. HistoryTypes'
        BY <1>0, <1>11, <2>2, UnaskedFacts DEF HistoryTypes, Crash
    <2>4. StoreTypes'
        BY <1>0, <1>4, <1>5, <1>11, <2>1, FewerWait DEF StoreTypes, Crash
    <2> QED
        BY <1>6, <2>3, <2>4
<1> QED
    BY <1>7, <1>8, <1>9, <1>10, <1>11

\* The window's passes are where they were, or nowhere.
LEMMA EndsFacts ==
    ASSUME DrainTypes, WindowEnds
    PROVE  /\ drain' \in [Drains -> DrainType]
           /\ \A d \in Drains : drain'[d] = drain[d] \/ drain'[d] = Idle
           /\ owed' = owed \/ owed' = Unasked
<1>1. drain' = [d \in Drains |-> IF d \in Window THEN Idle ELSE drain[d]]
    BY DEF WindowEnds
<1>2. owed' = owed \/ owed' = Unasked
    BY DEF WindowEnds
<1> QED
    BY <1>1, <1>2, Values DEF DrainTypes

LEMMA EndsTypes == ASSUME Types, WindowEnds PROVE Types'
<1>0. StoreTypes /\ HistoryTypes /\ ServerTypes /\ DrainTypes /\ faults \in 0..MaxFaults
    BY DEF Types
<1>1. UNCHANGED <<draft, rows, ready, last, server, ever>> /\ owes' = {}
    BY DEF WindowEnds
<1>2. replaced' \in [Procs -> SUBSET (1..MaxRows)]
    BY <1>0 DEF WindowEnds, StoreTypes
<1>3. StoreTypes'
    BY <1>0, <1>1, <1>2, FewerWait DEF StoreTypes
<1>4. HistoryTypes'
    BY <1>0, <1>1, EndsFacts, UnaskedFacts DEF HistoryTypes
<1>5. DrainTypes'
    BY <1>0, <1>1, EndsFacts, Values DEF DrainTypes, server
<1>6. faults' \in 0..MaxFaults
    BY <1>0, ServerDraftsAssumption DEF WindowEnds, Fault
<1> QED
    BY <1>0, <1>1, <1>3, <1>4, <1>5, <1>6, Untouched DEF Types

LEMMA NextTypes == Types /\ [Next]_vars => Types'
<1> SUFFICES ASSUME Types, [Next]_vars PROVE Types'
    OBVIOUS
<1>1. CASE UNCHANGED vars
    BY <1>1, Untouched DEF vars, server, Types
<1> QED
    BY <1>1, PersonTypes, WalkTypes, CopyTypes, SettleTypes, EndsTypes DEF Next, Goes

LEMMA TypesHold == Spec => []Types
BY InitTypes, NextTypes, PTL DEF Spec

\* The store, the server and every drain keep their types, what is due is in the outbox, and at
\* most one upload of the draft waits there, for any number of drains, rows and saves (queue_in).
THEOREM ServerDraftsTypes == Spec => []TypeOK
BY TypesHold, TypesAre, PTL

-----------------------------------------------------------------------------
(* A draft once kept has a copy until a removal is asked for.              *)

\* Whatever happens to the outbox and to a drain d that is not, or no longer, at its walk on the
\* server.
LEMMA CopyStands ==
    ASSUME CopyInv, UNCHANGED server,
           \A d \in Drains : drain'[d] = drain[d] \/ drain'[d].at \notin {"stage", "search", "append", "remove"},
           \A r \in rows' : r.kind = "drop" => r \in rows \/ "dropped" \in ever',
           ever \subseteq ever', "kept" \in ever' => "kept" \in ever
    PROVE  CopyInv'
BY DEF CopyInv, server

\* Ids out of the outbox, or a row queued.
LEMMA RowsCopy ==
    ASSUME StoreTypes, HistoryTypes
    PROVE  /\ \A ids : Gone(ids) => rows' \subseteq rows
           /\ \A p \in Procs, kind \in {"keep", "drop"} : Queued(p, kind) =>
                 /\ \A r \in rows' : r.kind = "drop" => r \in rows \/ "dropped" \in ever'
                 /\ ever \subseteq ever' /\ ("kept" \in ever' => "kept" \in ever)
<1>1. ASSUME NEW ids, Gone(ids) PROVE rows' \subseteq rows
    BY <1>1 DEF Gone
<1>2. ASSUME NEW p \in Procs, NEW kind \in {"keep", "drop"}, Queued(p, kind)
      PROVE  /\ \A r \in rows' : r.kind = "drop" => r \in rows \/ "dropped" \in ever'
             /\ ever \subseteq ever' /\ ("kept" \in ever' => "kept" \in ever)
    BY <1>2, QueuedFacts
<1> QED
    BY <1>1, <1>2

LEMMA PersonCopy == ASSUME Types, CopyInv, Person \/ Follows \/ ComeDue PROVE CopyInv'
<1>0. StoreTypes /\ HistoryTypes /\ UNCHANGED <<server, drain>>
    BY DEF Types, Person, Follows, ComeDue, Save, Send, Unsend, Discard, Keep, KeepNotDue, DiscardDrop
<1>1. ASSUME \A r \in rows' : r.kind = "drop" => r \in rows, UNCHANGED history PROVE CopyInv'
    BY <1>0, <1>1, CopyStands DEF history
<1>2. ASSUME NEW kind \in {"keep", "drop"}, Queued("window", kind) PROVE CopyInv'
    BY <1>0, <1>2, RowsCopy, AreProcs, CopyStands
<1>3. CASE Send
    <2>1. \A r \in rows' : r \in rows \/ r = [id |-> last + 1, kind |-> "submit"]
        BY <1>3 DEF Send
    <2> QED
        BY <1>1, <1>3, <2>1 DEF Send
<1>4. CASE Unsend \/ Discard
    BY <1>0, <1>1, <1>4, RowsCopy DEF Unsend, Discard
<1>5. CASE Save \/ KeepNotDue \/ ComeDue
    BY <1>1, <1>5 DEF Save, KeepNotDue, ComeDue
<1>6. CASE Keep \/ DiscardDrop
    BY <1>1, <1>2, <1>6 DEF Keep, DiscardDrop
<1> QED
    BY <1>3, <1>4, <1>5, <1>6 DEF Person, Follows

LEMMA SettleCopy ==
    ASSUME Types, CopyInv, NEW d \in Drains,
           \/ DrainList(d) \/ DrainEnd(d) \/ Fails(d) \/ Settle(d) \/ SettleFailed(d) \/ MarkSending(d)
           \/ Submitted(d) \/ MarkSent(d) \/ DropCopies(d) \/ Crash(d)
    PROVE  CopyInv'
<1>0. StoreTypes /\ HistoryTypes /\ DrainTypes /\ drain \in [Drains -> DrainType]
    BY DEF Types, DrainTypes
<1>1. UNCHANGED server
    BY DEF DrainList, DrainEnd, Fails, Settle, SettleFailed, MarkSending, Submitted, MarkSent, DropCopies, Crash
<1>2. \A e \in Drains : drain'[e] = drain[e] \/ drain'[e].at \notin {"stage", "search", "append", "remove"}
    <2>1. CASE DrainList(d)
        BY <1>0, <2>1, Values DEF DrainList
    <2>2. CASE Stop(d)
        BY <1>0, <2>2, StopFacts, Values
    <2>3. CASE \E stage \in {"done", "later", "refused", "walk", "sending", "settled", "sent"} : Goto(d, stage)
        BY <1>0, <2>3, GotoFacts DEF Stages
    <2> QED
        BY <2>1, <2>2, <2>3 DEF DrainEnd, Fails, Settle, SettleFailed, MarkSending, Submitted, MarkSent, DropCopies, Crash
<1>3. ASSUME rows' \subseteq rows, UNCHANGED ever PROVE CopyInv'
    BY <1>1, <1>2, <1>3, CopyStands
<1>4. CASE DrainList(d) \/ DrainEnd(d) \/ Fails(d) \/ MarkSending(d) \/ MarkSent(d) \/ Crash(d)
    BY <1>3, <1>4 DEF DrainList, DrainEnd, Fails, MarkSending, MarkSent, Crash, store, history
<1>5. CASE Settle(d) \/ Submitted(d)
    BY <1>0, <1>3, <1>5, RowsCopy DEF Settle, Submitted, history
<1>6. CASE SettleFailed(d)
    <2>1. rows' \subseteq rows /\ UNCHANGED ever
        BY <1>6 DEF SettleFailed, history
    <2> QED
        BY <1>3, <2>1
<1>7. CASE DropCopies(d)
    <2>1. CASE UNCHANGED <<rows, history>>
        BY <1>3, <2>1 DEF history
    <2>2. CASE Queued(Proc(d), "drop")
        BY <1>0, <1>1, <1>2, <2>2, RowsCopy, AreProcs, CopyStands
    <2> QED
        BY <1>7, <2>1, <2>2 DEF DropCopies
<1> QED
    BY <1>4, <1>5, <1>6, <1>7

LEMMA EndsCopy == ASSUME Types, CopyInv, WindowEnds PROVE CopyInv'
<1>1. UNCHANGED <<rows, server, ever>>
    BY DEF WindowEnds
<1>2. \A d \in Drains : drain'[d] = drain[d] \/ drain'[d].at \notin {"stage", "search", "append", "remove"}
    BY EndsFacts, Values DEF Types
<1> QED
    BY <1>1, <1>2, CopyStands

\* A row is looked up, staged and searched for: a removal was asked for.
LEMMA WalkCopy ==
    ASSUME Types, CopyInv, NEW d \in Drains, DrainAddress(d) \/ StageCopy(d) \/ Search(d)
    PROVE  CopyInv'
<1>0. /\ StoreTypes /\ DrainTypes /\ drain \in [Drains -> DrainType]
      /\ UNCHANGED <<rows, server, ever>>
    BY DEF Types, DrainTypes, DrainAddress, StageCopy, Search, store, history
<1>1. CASE DrainAddress(d)
    <2>1. /\ \A e \in Drains : e # d => drain'[e] = drain[e]
          /\ \/ drain'[d].at \in {"walk", "submit"}
             \/ drain'[d].at = "stage" /\ drain'[d].kind = "keep"
             \/ drain'[d].at = "search" /\ \E r \in rows : r.kind = "drop"
        <3>1. \A r \in rows : r.kind \in Kinds
            BY <1>0 DEF StoreTypes, RowType
        <3> QED
            BY <1>0, <1>1, <3>1, AddressFacts DEF Kinds
    <2> QED
        BY <1>0, <2>1 DEF CopyInv, server
<1>2. CASE StageCopy(d)
    <2>1. /\ drain[d].kind = "keep" /\ drain'[d].kind = "keep" /\ drain'[d].at \in {"search", "done"}
          /\ \A e \in Drains : e # d => drain'[e] = drain[e]
        <3>1. drain[d].kind = "keep"
            BY <1>2 DEF CopyInv, StageCopy, At
        <3>2. CASE drain' = [drain EXCEPT ![d].at = "search", ![d].text = draft.text]
            BY <1>0, <3>1, <3>2 DEF DrainType
        <3>3. CASE Goto(d, "done")
            BY <1>0, <3>1, <3>3, GotoFacts DEF Stages
        <3> QED
            BY <1>2, <3>2, <3>3 DEF StageCopy
    <2> QED
        BY <1>0, <2>1 DEF CopyInv, server
<1>3. CASE Search(d)
    <2>1. drain[d].kind = "keep" \/ "dropped" \in ever
        BY <1>3 DEF CopyInv, Search, At
    <2>2. /\ drain'[d].kind = drain[d].kind
          /\ drain'[d].at = IF drain[d].kind = "keep" THEN "append" ELSE "remove"
          /\ \A e \in Drains : e # d => drain'[e] = drain[e]
        BY <1>0, <1>3 DEF Search, DrainType
    <2> QED
        BY <1>0, <2>1, <2>2 DEF CopyInv, server
<1> QED
    BY <1>1, <1>2, <1>3

\* What is put there is newer than everything found, and so it is what stays.
LEMMA UploadCopy ==
    ASSUME Types, CopyInv, NEW d \in Drains, Append(d) \/ AppendLost(d)
    PROVE  CopyInv'
<1>0. /\ DrainTypes /\ lastUid \in Nat /\ drain[d].at = "append" /\ drain[d].kind = "keep" /\ Appended(d)
      /\ UNCHANGED rows
    BY DEF Types, ServerTypes, Append, AppendLost, Appended, At, CopyInv, store
<1>1. PICK stage \in {"remove", "later"} : Goto(d, stage)
    BY DEF Append, AppendLost
<1>2. /\ drain'[d].at = stage /\ drain'[d].kind = "keep" /\ drain'[d].found = drain[d].found
      /\ \A e \in Drains : e # d => drain'[e] = drain[e]
    BY <1>0, <1>1, GotoFacts DEF Stages
<1>3. /\ lastUid' = lastUid + 1 /\ ever' = ever \cup {"kept"}
      /\ \E c \in copies' : c.uid = lastUid'
    <2> DEFINE c == [uid |-> lastUid + 1, text |-> drain[d].text]
    <2>1. c.uid = lastUid + 1 /\ c \in copies' /\ lastUid' = lastUid + 1 /\ ever' = ever \cup {"kept"}
        BY <1>0 DEF Appended
    <2> HIDE DEF c
    <2> QED
        BY <2>1
<1>4. ASSUME NEW e \in Drains, drain'[e].at = "remove", drain'[e].kind = "keep", NEW u \in drain'[e].found
      PROVE  u < lastUid'
    <2>1. u \in drain[e].found /\ u <= lastUid /\ u \in Nat
        BY <1>0, <1>2, <1>4 DEF DrainTypes, DrainType
    <2> QED
        BY <1>0, <1>3, <2>1
<1> QED
    BY <1>0, <1>2, <1>3, <1>4 DEF CopyInv

LEMMA RemoveCopy == ASSUME Types, CopyInv, NEW d \in Drains, Remove(d) PROVE CopyInv'
<1>0. DrainTypes /\ drain[d].at = "remove" /\ UNCHANGED <<rows, lastUid, ever>> /\ lastUid \in Nat
    BY DEF Types, ServerTypes, Remove, At, store, history
<1>1. drain'[d].at = "done" /\ \A e \in Drains : e # d => drain'[e] = drain[e]
    BY <1>0, GotoFacts DEF Remove, Stages
<1>2. ASSUME "kept" \in ever, "dropped" \notin ever PROVE \E c \in copies' : c.uid = lastUid
    <2>1. PICK c \in copies : c.uid = lastUid
        BY <1>2 DEF CopyInv
    <2>2. \A u \in drain[d].found : u < lastUid
        BY <1>0, <1>2 DEF CopyInv
    <2>3. c.uid \notin drain[d].found
        BY <1>0, <2>1, <2>2
    <2> QED
        BY <2>1, <2>3 DEF Remove
<1> QED
    BY <1>0, <1>1, <1>2 DEF CopyInv

LEMMA NextCopy == Types /\ CopyInv /\ [Next]_vars => CopyInv'
<1> SUFFICES ASSUME Types, CopyInv, [Next]_vars PROVE CopyInv'
    OBVIOUS
<1>1. CASE UNCHANGED vars
    BY <1>1, CopyStands DEF vars, store, history
<1> QED
    BY <1>1, PersonCopy, EndsCopy, SettleCopy, WalkCopy, UploadCopy, RemoveCopy DEF Next, Goes

\* However many drains replace the copy at once, and wherever one is cut off, refused or stopped,
\* a draft once kept on the server has a copy there until its removal is asked for (draft_copy
\* removes what it found before it uploaded).
THEOREM KeptCopyStays == Spec => []KeptStays
<1>1. Init => CopyInv
    BY Values DEF Init, CopyInv
<1>2. CopyInv => KeptStays
    BY DEF CopyInv, KeptStays
<1> QED
    BY <1>1, <1>2, NextCopy, TypesHold, PTL DEF Spec

-----------------------------------------------------------------------------
(* Rows and the drains at them.                                            *)

\* Rows go, and a drain goes on with its row, or is at none.
LEMMA RowStands ==
    ASSUME RowInv, UNCHANGED last, rows' \subseteq rows,
           \A d \in Drains :
              \/ drain'[d].at \in {"idle", "walk"} /\ drain'[d].row <= last
              \/ /\ Walking(d) /\ drain'[d].row = drain[d].row /\ drain'[d].kind = drain[d].kind
                 /\ Fits(drain'[d].at, drain[d].kind)
              \/ drain'[d] = drain[d]
    PROVE  RowInv'
<1>1. \A d \in Drains : Fits(drain'[d].at, drain'[d].kind)
    BY DEF RowInv, Fits
<1>2. \A d \in Drains : drain'[d].row <= last
    BY DEF RowInv
<1>3. \A d \in Drains : Walking(d)' => \A r \in rows' : r.id = drain'[d].row => r.kind = drain'[d].kind
    BY DEF RowInv, Walking
<1> QED
    BY <1>1, <1>2, <1>3 DEF RowInv

\* A row is queued under a new id.
LEMMA RowAdded ==
    ASSUME Types, RowInv, last' = last + 1,
           \A r, q \in rows' : r \in rows \/ q \in rows \/ r = q,
           \A r \in rows' : r \in rows \/ r.id = last + 1,
           \A d \in Drains :
              \/ drain'[d] = drain[d]
              \/ drain'[d].at = "walk" /\ drain'[d].row = drain[d].row
    PROVE  RowInv'
<1>0. last \in Nat /\ \A d \in Drains : drain[d].row \in Nat
    BY ServerDraftsAssumption DEF Types, StoreTypes, DrainTypes, DrainType
<1>1. \A r \in rows : r.id \in Nat /\ r.id <= last
    BY DEF Types, StoreTypes, RowType, RowInv
<1>2. (\A r, q \in rows : r.id = q.id => r = q)'
    BY <1>0, <1>1 DEF RowInv
<1>3. \A r \in rows' : r.id <= last'
    BY <1>0, <1>1
<1>4. \A d \in Drains : drain'[d].row = drain[d].row /\ drain[d].row <= last
    BY DEF RowInv
<1>5. \A d \in Drains : drain'[d].row <= last'
    BY <1>0, <1>4
<1>6. \A d \in Drains : Fits(drain'[d].at, drain'[d].kind)
    BY DEF RowInv, Fits
<1>7. ASSUME NEW d \in Drains, Walking(d)', NEW r \in rows', r.id = drain'[d].row
      PROVE  r.kind = drain'[d].kind
    <2>1. drain'[d] = drain[d] /\ Walking(d) /\ r.id # last + 1
        BY <1>0, <1>4, <1>7 DEF Walking
    <2> QED
        BY <1>7, <2>1 DEF RowInv
<1> QED
    BY <1>2, <1>3, <1>5, <1>6, <1>7 DEF RowInv

LEMMA QueuedAdds ==
    ASSUME Types, NEW p \in Procs, NEW kind \in {"keep", "drop"}, Queued(p, kind)
    PROVE  /\ last' = last + 1
           /\ \A r, q \in rows' : r \in rows \/ q \in rows \/ r = q
           /\ \A r \in rows' : r \in rows \/ r.id = last + 1
<1>1. rows' = (rows \ Waiting) \cup {[id |-> last + 1, kind |-> kind]} /\ last' = last + 1
    BY DEF Queued, NewRow
<1>2. \A r, q \in rows' : r \in rows \/ q \in rows \/ r = q
    BY <1>1
<1> QED
    BY <1>1, <1>2, QueuedFacts DEF Types

LEMMA PersonRows == ASSUME Types, RowInv, Person \/ Follows \/ ComeDue PROVE RowInv'
<1>0. StoreTypes /\ HistoryTypes /\ UNCHANGED drain
    BY DEF Types, Person, Follows, ComeDue, Save, Send, Unsend, Discard, Keep, KeepNotDue, DiscardDrop
<1>1. ASSUME rows' \subseteq rows, UNCHANGED last PROVE RowInv'
    BY <1>0, <1>1, RowStands
<1>2. ASSUME NEW kind \in {"keep", "drop"}, Queued("window", kind) PROVE RowInv'
    BY <1>0, <1>2, QueuedAdds, AreProcs, RowAdded
<1>3. CASE Send
    <2>1. rows' = rows \cup {[id |-> last + 1, kind |-> "submit"]} /\ last' = last + 1
        BY <1>3 DEF Send, NewRow
    <2>2. /\ \A r, q \in rows' : r \in rows \/ q \in rows \/ r = q
          /\ \A r \in rows' : r \in rows \/ r.id = last + 1
        BY <2>1
    <2> QED
        BY <1>0, <2>1, <2>2, RowAdded
<1>4. CASE Unsend \/ Discard
    BY <1>0, <1>1, <1>4, RowsCopy DEF Unsend, Discard
<1>5. CASE Save \/ KeepNotDue \/ ComeDue
    BY <1>1, <1>5 DEF Save, KeepNotDue, ComeDue
<1>6. CASE Keep \/ DiscardDrop
    BY <1>1, <1>2, <1>6 DEF Keep, DiscardDrop
<1> QED
    BY <1>3, <1>4, <1>5, <1>6 DEF Person, Follows

LEMMA StageFacts ==
    ASSUME DrainTypes, NEW d \in Drains, StageCopy(d)
    PROVE  /\ drain[d].at = "stage" /\ drain'[d].at \in {"search", "done"}
           /\ drain'[d].row = drain[d].row /\ drain'[d].kind = drain[d].kind
           /\ \A e \in Drains : e # d => drain'[e] = drain[e]
<1>0. drain \in [Drains -> DrainType] /\ drain[d].at = "stage"
    BY DEF DrainTypes, StageCopy, At
<1>1. CASE drain' = [drain EXCEPT ![d].at = "search", ![d].text = draft.text]
    BY <1>0, <1>1 DEF DrainType
<1>2. CASE Goto(d, "done")
    BY <1>0, <1>2, GotoFacts DEF Stages
<1> QED
    BY <1>1, <1>2 DEF StageCopy

LEMMA SearchFacts ==
    ASSUME DrainTypes, NEW d \in Drains, Search(d)
    PROVE  /\ drain[d].at = "search" /\ drain'[d].found = UidsOf(copies)
           /\ drain'[d].at = IF drain[d].kind = "keep" THEN "append" ELSE "remove"
           /\ drain'[d].row = drain[d].row /\ drain'[d].kind = drain[d].kind
           /\ \A e \in Drains : e # d => drain'[e] = drain[e]
BY DEF DrainTypes, DrainType, Search, At

LEMMA WalkRows ==
    ASSUME Types, RowInv, NEW d \in Drains,
           \/ StageCopy(d) \/ Search(d) \/ Append(d) \/ AppendLost(d) \/ Remove(d) \/ Fails(d)
           \/ MarkSending(d) \/ MarkSent(d) \/ DrainAddress(d)
    PROVE  RowInv'
<1>0. /\ StoreTypes /\ DrainTypes /\ Fits(drain[d].at, drain[d].kind) /\ UNCHANGED <<rows, last>>
    BY DEF Types, RowInv, StageCopy, Search, Append, AppendLost, Appended, Remove, Fails, MarkSending, MarkSent,
           DrainAddress, store
<1>1. CASE StageCopy(d)
    BY <1>0, <1>1, StageFacts, RowStands DEF Fits, Walking
<1>2. CASE Search(d)
    BY <1>0, <1>2, SearchFacts, RowStands DEF Fits, Walking
<1>3. ASSUME NEW stage \in Stages, Goto(d, stage), Walking(d), Fits(stage, drain[d].kind) PROVE RowInv'
    BY <1>0, <1>3, GotoFacts, RowStands
<1>4. CASE Append(d) \/ AppendLost(d)
    BY <1>0, <1>3, <1>4 DEF Append, AppendLost, Appended, At, Fits, Walking, Stages
<1>5. CASE Remove(d) \/ MarkSending(d) \/ MarkSent(d)
    BY <1>0, <1>3, <1>5 DEF Remove, MarkSending, MarkSent, At, Fits, Walking, Stages
<1>6. CASE Fails(d)
    BY <1>0, <1>3, <1>6 DEF Fails, Fits, Walking, Stages
<1>7. CASE DrainAddress(d)
    <2>1. CASE drain'[d].at = "walk" /\ drain'[d].row = 0
        <3>1. 0 <= last
            BY <1>0, ServerDraftsAssumption DEF StoreTypes
        <3> QED
            BY <1>0, <1>7, <2>1, <3>1, AddressFacts, RowStands
    <2>2. ASSUME NEW r \in rows, drain'[d].row = r.id, drain'[d].kind = r.kind,
                 drain'[d].at = CASE r.kind = "keep" -> "stage" [] r.kind = "drop" -> "search"
                                  [] r.kind = "submit" -> "submit"
          PROVE  RowInv'
        <3>1. r.kind \in Kinds
            BY <1>0, <2>2 DEF StoreTypes, RowType
        <3>2. Fits(drain'[d].at, drain'[d].kind)
            BY <2>2, <3>1 DEF Fits, Kinds
        <3>3. \A e \in Drains : e # d => drain'[e] = drain[e]
            BY <1>0, <1>7, AddressFacts
        <3>4. \A e \in Drains : Walking(e)' => \A q \in rows : q.id = drain'[e].row => q.kind = drain'[e].kind
            BY <2>2, <3>3 DEF RowInv, Walking
        <3> QED
            BY <1>0, <2>2, <3>2, <3>3, <3>4 DEF RowInv
    <2> QED
        BY <1>0, <1>7, <2>1, <2>2, AddressFacts
<1> QED
    BY <1>1, <1>2, <1>4, <1>5, <1>6, <1>7

LEMMA SettleRows ==
    ASSUME Types, RowInv, NEW d \in Drains,
           \/ DrainList(d) \/ DrainEnd(d) \/ Settle(d) \/ SettleFailed(d) \/ Submitted(d) \/ DropCopies(d)
           \/ Crash(d)
    PROVE  RowInv'
<1>0. /\ StoreTypes /\ HistoryTypes /\ DrainTypes /\ drain \in [Drains -> DrainType] /\ 0 <= last
      /\ drain[d].row <= last /\ Fits(drain[d].at, drain[d].kind)
    BY ServerDraftsAssumption DEF Types, DrainTypes, StoreTypes, RowInv
<1>1. ASSUME drain'[d].at \in {"idle", "walk"}, drain'[d].row <= last, UNCHANGED last, rows' \subseteq rows,
             \A e \in Drains : e # d => drain'[e] = drain[e]
      PROVE  RowInv'
    BY <1>1, RowStands
<1>2. ASSUME Stop(d) \/ Goto(d, "walk"), UNCHANGED last, rows' \subseteq rows PROVE RowInv'
    BY <1>0, <1>1, <1>2, StopFacts, GotoFacts, Values DEF Stages
<1>3. CASE DrainList(d)
    <2>1. /\ drain'[d].at = "walk" /\ drain'[d].row = 0 /\ UNCHANGED <<rows, last>>
          /\ \A e \in Drains : e # d => drain'[e] = drain[e]
        BY <1>0, <1>3, Values DEF DrainList, store
    <2> QED
        BY <1>0, <1>1, <2>1
<1>4. CASE DrainEnd(d) \/ Crash(d)
    BY <1>2, <1>4 DEF DrainEnd, Crash, store
<1>5. CASE Settle(d)
    BY <1>0, <1>2, <1>5, RowsCopy DEF Settle
<1>6. CASE SettleFailed(d)
    <2>1. rows' \subseteq rows
        BY <1>6 DEF SettleFailed
    <2> QED
        BY <1>2, <1>6, <2>1 DEF SettleFailed
<1>7. CASE Submitted(d)
    <2>1. drain[d].at = "sending" /\ rows' \subseteq rows /\ UNCHANGED last
        BY <1>0, <1>7, RowsCopy DEF Submitted, At
    <2>2. CASE Goto(d, "settled")
        BY <1>0, <2>1, <2>2, GotoFacts, RowStands DEF Fits, Walking, Stages
    <2> QED
        BY <1>2, <1>7, <2>1, <2>2 DEF Submitted
<1>8. CASE DropCopies(d)
    <2>1. CASE UNCHANGED <<rows, last>>
        BY <1>2, <1>8, <2>1 DEF DropCopies
    <2>2. CASE Queued(Proc(d), "drop")
        <3>1. \A e \in Drains : drain'[e] = drain[e] \/ (drain'[e].at = "walk" /\ drain'[e].row = drain[e].row)
            BY <1>0, <1>8, GotoFacts DEF DropCopies, Stages
        <3> QED
            BY <1>0, <2>2, <3>1, QueuedAdds, AreProcs, RowAdded
    <2> QED
        BY <1>8, <2>1, <2>2 DEF DropCopies
<1> QED
    BY <1>3, <1>4, <1>5, <1>6, <1>7, <1>8

LEMMA EndsRows == ASSUME Types, RowInv, WindowEnds PROVE RowInv'
<1>1. UNCHANGED <<rows, last>> /\ 0 <= last
    BY ServerDraftsAssumption DEF WindowEnds, Types, StoreTypes
<1>2. \A d \in Drains : drain'[d] = drain[d] \/ (drain'[d].at = "idle" /\ drain'[d].row = 0)
    BY EndsFacts, Values DEF Types
<1> QED
    BY <1>1, <1>2, RowStands

LEMMA NextRows == Types /\ RowInv /\ [Next]_vars => RowInv'
<1> SUFFICES ASSUME Types, RowInv, [Next]_vars PROVE RowInv'
    OBVIOUS
<1>1. CASE UNCHANGED vars
    BY <1>1, RowStands DEF vars, store
<1> QED
    BY <1>1, PersonRows, WalkRows, SettleRows, EndsRows DEF Next, Goes

LEMMA RowsHold == Spec => []RowInv
<1>1. Init => RowInv
    BY Values DEF Init, RowInv, Fits, Walking
<1> QED
    BY <1>1, NextRows, TypesHold, PTL DEF Spec

-----------------------------------------------------------------------------
(* One drain, whose removals are neither refused nor stopped: a copy that  *)
(* is to go has its removal queued.                                        *)

\* No removal leaves the outbox and no copy is put there; a drain that moves is not done with a
\* removal, and not at an upload it was not at before.
LEMMA RemovalStandsOn ==
    ASSUME RemovalInv, UNCHANGED copies, owed'.what = "drop" => owed.what = "drop", Removal => Removal',
           \A r \in rows' : r.kind = "keep" => r \in rows,
           \A e \in Drains :
              \/ drain'[e] = drain[e]
              \/ drain'[e].at \in {"idle", "walk"}
              \/ /\ drain'[e].at \notin {"idle", "walk", "refused", "remove"}
                 /\ drain'[e].kind = "drop" => drain'[e].at # "done"
                 /\ drain'[e].kind = "keep" => Walking(e) /\ drain[e].kind = "keep"
    PROVE  RemovalInv'
<1>1. /\ \A d \in Drains : drain'[d].at # "refused"
      /\ \A d \in Drains : drain'[d].kind = "drop" /\ drain'[d].at = "remove" =>
            \A c \in copies : c.uid \in drain'[d].found
      /\ \A d \in Drains : drain'[d].kind = "drop" /\ drain'[d].at = "done" => copies = {}
    BY DEF RemovalInv
<1>2. owed'.what = "drop" => \A r \in rows' : r.kind # "keep"
    BY DEF RemovalInv
<1>3. \A d \in Drains : Walking(d)' /\ drain'[d].kind = "keep" => Walking(d) /\ drain[d].kind = "keep"
    BY DEF Walking
<1>4. owed'.what = "drop" =>
          Removal' \/ (copies = {} /\ \A d \in Drains : Walking(d)' => drain'[d].kind # "keep")
    BY <1>3 DEF RemovalInv
<1> QED
    BY <1>1, <1>2, <1>4 DEF RemovalInv

\* A removal is queued, or what is owed is not one.
LEMMA RemovalQueued ==
    ASSUME Types, RemovalInv, NEW p \in Procs, NEW kind \in {"keep", "drop"}, Queued(p, kind), UNCHANGED copies,
           \A e \in Drains : drain'[e] = drain[e] \/ drain'[e].at \in {"idle", "walk"}
    PROVE  RemovalInv'
<1>0. /\ \A r \in rows' : r.kind = "keep" => kind = "keep"
      /\ \E r \in rows' : r.kind = kind
      /\ owed'.what = kind
    BY QueuedFacts DEF Types
<1>1. owed'.what = "drop" => Removal' /\ \A r \in rows' : r.kind # "keep"
    BY <1>0 DEF Removal
<1> QED
    BY <1>1 DEF RemovalInv

\* Rows of another kind go, and the removals stay.
LEMMA OthersGo ==
    ASSUME RowInv, NEW ids, Gone(ids), \A r \in rows : r.id \in ids => r.kind # "drop"
    PROVE  (Removal => Removal') /\ rows' \subseteq rows
BY DEF Gone, Removal

LEMMA PersonRemoval == ASSUME Types, RowInv, RemovalInv, Person \/ Follows \/ ComeDue PROVE RemovalInv'
<1>0. StoreTypes /\ UNCHANGED <<copies, drain>>
    BY DEF Types, Person, Follows, ComeDue, Save, Send, Unsend, Discard, Keep, KeepNotDue, DiscardDrop, server
<1>1. ASSUME \A r \in rows' : r.kind = "keep" => r \in rows, Removal => Removal', UNCHANGED owed PROVE RemovalInv'
    BY <1>0, <1>1, RemovalStandsOn
<1>2. ASSUME NEW kind \in {"keep", "drop"}, Queued("window", kind) PROVE RemovalInv'
    BY <1>0, <1>2, RemovalQueued, AreProcs
<1>3. CASE Send
    <2>1. rows' = rows \cup {[id |-> last + 1, kind |-> "submit"]} /\ UNCHANGED owed
        BY <1>3 DEF Send, history
    <2>2. (\A r \in rows' : r.kind = "keep" => r \in rows) /\ (Removal => Removal')
        BY <2>1 DEF Removal
    <2> QED
        BY <1>1, <2>1, <2>2
<1>4. CASE Unsend \/ Discard
    <2>1. Gone(Submissions) /\ UNCHANGED owed
        BY <1>4 DEF Unsend, Discard, history
    <2>2. \A r \in rows : r.id \in Submissions => r.kind # "drop"
        BY DEF Submissions, IdsOf, RowInv
    <2>3. (Removal => Removal') /\ rows' \subseteq rows
        BY <2>1, <2>2, OthersGo
    <2> QED
        BY <1>1, <2>1, <2>3
<1>5. CASE UNCHANGED <<rows, owed>>
    BY <1>1, <1>5 DEF Removal
<1>6. CASE Save \/ KeepNotDue \/ ComeDue
    BY <1>5, <1>6 DEF Save, KeepNotDue, ComeDue, history
<1>7. CASE Keep \/ DiscardDrop
    BY <1>2, <1>5, <1>7 DEF Keep, DiscardDrop, history
<1> QED
    BY <1>3, <1>4, <1>6, <1>7 DEF Person, Follows

\* The drain looks a row up: a removal, or an upload while none is owed.
LEMMA AddressRemoval == ASSUME Types, RowInv, RemovalInv, NEW d \in Drains, DrainAddress(d) PROVE RemovalInv'
<1>0. StoreTypes /\ DrainTypes /\ UNCHANGED <<rows, copies, owed>>
    BY DEF Types, DrainAddress, store, server, history
<1>1. Removal' <=> Removal
    BY <1>0 DEF Removal
<1>2. \A e \in Drains : e # d => drain'[e] = drain[e]
    BY <1>0, AddressFacts
<1>3. CASE drain'[d].at = "walk"
    BY <1>0, <1>1, <1>2, <1>3, RemovalStandsOn
<1>4. ASSUME NEW r \in rows, drain'[d].kind = r.kind,
             drain'[d].at = CASE r.kind = "keep" -> "stage" [] r.kind = "drop" -> "search"
                              [] r.kind = "submit" -> "submit"
      PROVE  RemovalInv'
    <2>1. drain'[d].at \in {"stage", "search", "submit"}
        BY <1>0, <1>4 DEF StoreTypes, RowType, Kinds
    <2>2. owed.what = "drop" => drain'[d].kind # "keep"
        BY <1>4 DEF RemovalInv
    <2>3. \A e \in Drains : owed.what = "drop" /\ Walking(e)' /\ drain'[e].kind = "keep" =>
              Walking(e) /\ drain[e].kind = "keep"
        BY <1>2, <2>2 DEF Walking
    <2>4. owed.what = "drop" =>
              Removal \/ (copies = {} /\ \A e \in Drains : Walking(e)' => drain'[e].kind # "keep")
        BY <2>3 DEF RemovalInv
    <2> QED
        BY <1>0, <1>1, <1>2, <2>1, <2>4 DEF RemovalInv
<1> QED
    BY <1>0, <1>3, <1>4, AddressFacts

LEMMA WalkRemoval ==
    ASSUME OneDrain, RemovalsTaken, Types, RowInv, RemovalInv, NEW d \in Drains,
           StageCopy(d) \/ Search(d) \/ Append(d) \/ AppendLost(d) \/ Remove(d) \/ Fails(d) \/ MarkSending(d)
           \/ MarkSent(d)
    PROVE  RemovalInv'
<1>0. /\ DrainTypes /\ Fits(drain[d].at, drain[d].kind) /\ UNCHANGED rows
      /\ \A e \in Drains : e = d
    BY DEF Types, RowInv, OneDrain, StageCopy, Search, Append, AppendLost, Appended, Remove, Fails, MarkSending,
           MarkSent, store
<1>1. Removal' <=> Removal
    BY <1>0 DEF Removal
<1>2. CASE StageCopy(d)
    <2>1. UNCHANGED copies /\ (owed'.what = "drop" => owed.what = "drop")
        BY <1>2 DEF StageCopy, server, Types, HistoryTypes, OwedType
    <2>2. drain[d].kind = "keep" /\ Walking(d)
        BY <1>0, <1>2, StageFacts DEF Fits, Walking
    <2> QED
        BY <1>0, <1>1, <1>2, <2>1, <2>2, StageFacts, RemovalStandsOn
<1>3. CASE Search(d)
    <2>1. UNCHANGED <<copies, owed>>
        BY <1>3 DEF Search, server, history
    <2>2. \A c \in copies : c.uid \in drain'[d].found
        BY <1>0, <1>3, SearchFacts DEF UidsOf
    <2>3. Walking(d) /\ Walking(d)' /\ drain'[d].kind = drain[d].kind /\ drain'[d].at \in {"append", "remove"}
        BY <1>0, <1>3, SearchFacts DEF Walking
    <2> QED
        BY <1>0, <1>1, <2>1, <2>2, <2>3 DEF RemovalInv
<1>4. CASE Append(d) \/ AppendLost(d)
    <2>1. drain[d].at = "append" /\ UNCHANGED owed
        BY <1>4 DEF Append, AppendLost, Appended, At
    <2>2. drain[d].kind = "keep" /\ Walking(d)
        BY <1>0, <2>1 DEF Fits, Walking
    <2>3. drain'[d].kind = "keep" /\ drain'[d].at \in {"remove", "later"}
        BY <1>0, <1>4, <2>2, GotoFacts DEF Append, AppendLost, Stages
    <2>4. owed.what = "drop" => Removal
        BY <2>2 DEF RemovalInv
    <2> QED
        BY <1>0, <1>1, <2>1, <2>3, <2>4 DEF RemovalInv
<1>5. CASE Remove(d)
    <2>1. drain[d].at = "remove" /\ UNCHANGED owed /\ copies' = {c \in copies : c.uid \notin drain[d].found}
        BY <1>5 DEF Remove, At, history
    <2>2. drain'[d].kind = drain[d].kind /\ drain'[d].at = "done" /\ Walking(d)
        BY <1>0, <1>5, <2>1, GotoFacts DEF Remove, Stages, Walking
    <2>3. drain[d].kind = "drop" => copies' = {}
        BY <2>1 DEF RemovalInv
    <2>4. copies = {} => copies' = {}
        BY <2>1
    <2> QED
        BY <1>0, <1>1, <2>1, <2>2, <2>3, <2>4 DEF RemovalInv
<1>6. CASE Fails(d)
    <2>1. Goto(d, "later") /\ UNCHANGED <<copies, owed>> /\ Walking(d)
        BY <1>6 DEF Fails, Fault, RemovalsTaken, Walking, server, history
    <2>2. drain'[d].kind = drain[d].kind /\ drain'[d].at = "later"
        BY <1>0, <2>1, GotoFacts DEF Stages
    <2> QED
        BY <1>0, <1>1, <2>1, <2>2, RemovalStandsOn
<1>7. CASE MarkSending(d) \/ MarkSent(d)
    <2>1. (Goto(d, "sending") \/ Goto(d, "sent")) /\ UNCHANGED <<copies, owed>> /\ Walking(d)
        BY <1>7 DEF MarkSending, MarkSent, At, Walking, server, history
    <2>2. drain'[d].kind = drain[d].kind /\ drain'[d].at \in {"sending", "sent"}
        BY <1>0, <2>1, GotoFacts DEF Stages
    <2> QED
        BY <1>0, <1>1, <2>1, <2>2, RemovalStandsOn
<1> QED
    BY <1>2, <1>3, <1>4, <1>5, <1>6, <1>7

LEMMA SettleRemoval ==
    ASSUME OneDrain, Types, RowInv, RemovalInv, NEW d \in Drains,
           \/ DrainList(d) \/ DrainEnd(d) \/ Settle(d) \/ SettleFailed(d) \/ Submitted(d) \/ DropCopies(d)
           \/ Crash(d)
    PROVE  RemovalInv'
<1>0. /\ DrainTypes /\ drain \in [Drains -> DrainType] /\ Fits(drain[d].at, drain[d].kind) /\ UNCHANGED copies
      /\ \A e \in Drains : e = d
    BY DEF Types, DrainTypes, RowInv, OneDrain, DrainList, DrainEnd, Settle, SettleFailed, Submitted, DropCopies,
           Crash, server
<1>1. ASSUME drain'[d].at \in {"idle", "walk"}, UNCHANGED <<rows, owed>> PROVE RemovalInv'
    BY <1>0, <1>1, RemovalStandsOn DEF Removal
<1>2. Stop(d) \/ Goto(d, "walk") => drain'[d].at \in {"idle", "walk"}
    BY <1>0, StopFacts, GotoFacts, Values DEF Stages
<1>3. CASE DrainList(d)
    <2>1. drain'[d].at = "walk" /\ UNCHANGED <<rows, owed>>
        BY <1>0, <1>3, Values DEF DrainList, store, history
    <2> QED
        BY <1>1, <2>1
<1>4. CASE DrainEnd(d)
    BY <1>1, <1>2, <1>4 DEF DrainEnd, store, history
<1>9. CASE Crash(d)
    <2>1. owed'.what = "drop" => owed.what = "drop"
        BY <1>9, UnaskedFacts DEF Crash, Types
    <2>2. UNCHANGED rows /\ drain'[d].at \in {"idle", "walk"}
        BY <1>2, <1>9 DEF Crash
    <2> QED
        BY <1>0, <2>1, <2>2, RemovalStandsOn DEF Removal
<1>5. CASE Settle(d)
    <2>1. /\ drain[d].at = "done" /\ Gone({drain[d].row}) /\ UNCHANGED owed /\ drain'[d].at \in {"idle", "walk"}
          /\ Walking(d)
        BY <1>2, <1>5 DEF Settle, At, Walking, history
    <2>2. CASE drain[d].kind = "keep"
        <3>1. \A r \in rows : r.id \in {drain[d].row} => r.kind # "drop"
            BY <2>1, <2>2 DEF RowInv
        <3>2. (Removal => Removal') /\ rows' \subseteq rows
            BY <2>1, <3>1, OthersGo
        <3> QED
            BY <1>0, <2>1, <3>2, RemovalStandsOn
    <2>3. CASE drain[d].kind = "drop"
        <3>1. copies = {} /\ rows' \subseteq rows /\ ~Walking(d)'
            BY <2>1, <2>3 DEF RemovalInv, Gone, Walking
        <3> QED
            BY <1>0, <2>1, <3>1 DEF RemovalInv
    <2> QED
        BY <1>0, <2>1, <2>2, <2>3 DEF Fits
<1>6. CASE SettleFailed(d)
    <2>1. UNCHANGED <<rows, owed>> /\ Stop(d)
        BY <1>6 DEF SettleFailed, At, RemovalInv, history
    <2> QED
        BY <1>1, <1>2, <2>1
<1>7. CASE Submitted(d)
    <2>1. drain[d].at = "sending" /\ Gone({drain[d].row}) /\ UNCHANGED owed /\ Walking(d)
        BY <1>7 DEF Submitted, At, Walking, history
    <2>2. drain[d].kind = "submit"
        BY <1>0, <2>1 DEF Fits
    <2>3. \A r \in rows : r.id \in {drain[d].row} => r.kind # "drop"
        BY <2>1, <2>2 DEF RowInv
    <2>4. (Removal => Removal') /\ rows' \subseteq rows
        BY <2>1, <2>3, OthersGo
    <2>5. drain'[d].at \in {"idle", "walk"} \/ (drain'[d].at = "settled" /\ drain'[d].kind = "submit")
        BY <1>0, <1>2, <1>7, <2>2, GotoFacts DEF Submitted, Stages
    <2> QED
        BY <1>0, <2>1, <2>4, <2>5, RemovalStandsOn
<1>8. CASE DropCopies(d)
    <2>1. CASE UNCHANGED <<rows, owed>>
        BY <1>1, <1>2, <1>8, <2>1 DEF DropCopies
    <2>2. CASE Queued(Proc(d), "drop")
        BY <1>0, <1>2, <1>8, <2>2, AreProcs, RemovalQueued DEF DropCopies
    <2> QED
        BY <1>8, <2>1, <2>2 DEF DropCopies, history
<1> QED
    BY <1>3, <1>4, <1>5, <1>6, <1>7, <1>8, <1>9

LEMMA EndsRemoval == ASSUME Types, RemovalInv, WindowEnds PROVE RemovalInv'
<1>1. UNCHANGED <<rows, copies>>
    BY DEF WindowEnds, server
<1>2. owed'.what = "drop" => owed.what = "drop"
    BY EndsFacts, UnaskedFacts DEF Types
<1>3. \A d \in Drains : drain'[d] = drain[d] \/ drain'[d].at = "idle"
    BY EndsFacts, Values DEF Types
<1> QED
    BY <1>1, <1>2, <1>3, RemovalStandsOn DEF Removal

LEMMA NextRemoval ==
    ASSUME OneDrain, RemovalsTaken
    PROVE  Types /\ RowInv /\ RemovalInv /\ [Next]_vars => RemovalInv'
<1> SUFFICES ASSUME Types, RowInv, RemovalInv, [Next]_vars PROVE RemovalInv'
    OBVIOUS
<1>1. CASE UNCHANGED vars
    BY <1>1, RemovalStandsOn DEF vars, store, server, history, Removal
<1> QED
    BY <1>1, PersonRemoval, AddressRemoval, WalkRemoval, SettleRemoval, EndsRemoval DEF Next, Goes

\* Where one pass at a time drains the account and a removal is neither refused for good nor
\* stopped, a copy that is to go, since its draft was sent, discarded or asks to be encrypted, is
\* there only while its removal is queued: no upload under way puts one back after it
\* (queue_in takes the waiting uploads out; draft_copy removes all it finds).
THEOREM RemovalIsQueued ==
    ASSUME OneDrain, RemovalsTaken
    PROVE  Spec => []RemovalStands
<1>1. Init => RemovalInv
    BY Values DEF Init, RemovalInv, Walking
<1>2. RemovalInv => RemovalStands
    BY DEF RemovalInv, RemovalStands, Removal
<1> QED
    BY <1>1, <1>2, NextRemoval, TypesHold, RowsHold, PTL DEF Spec
=============================================================================
