---------------------------- MODULE SyncProofs ----------------------------
(***************************************************************************)
(* What Sync keeps: its types on every instance, and, where one engine     *)
(* passes over the mailbox and is not stopped while a request is out, that *)
(* what is marked held through is held and that a message the server has   *)
(* at the address the store knows is never dropped.                        *)
(***************************************************************************)
EXTENDS Sync, FiniteSetTheorems, TLAPS

Pass == [at : Stages, from : Cursor, was : Cursor, fresh : Cursor, rows : SUBSET Row,
         wanted : SUBSET Ref, left : 0..Budget, due : SUBSET Sweeps, gone : SUBSET Ref]

ServerTypes ==
    /\ condstore \in Offers /\ uv \in 1..(MaxChanges + 1) /\ next \in 1..(MaxUid + 1)
    /\ uid \in [Msgs -> 0..MaxUid] /\ seen \subseteq Msgs
    /\ mod \in [Msgs -> Nat] /\ high \in Nat
    /\ expunged \subseteq [uid : 1..MaxUid, mod : Nat]
    /\ changes \in 0..MaxChanges

\* The server numbers no further than it was changed, and gives each UID once.
Numbers ==
    /\ uv <= changes + 1 /\ next <= Cardinality(Msgs) + changes + 1
    /\ \A m \in Msgs : uid[m] < next
    /\ \A x \in expunged : x.uid < next
    /\ \A m, n \in Present : uid[m] = uid[n] => m = n
    /\ \A x \in expunged, m \in Present : x.uid # uid[m]

StoreTypes ==
    /\ held \subseteq Msgs /\ read \subseteq held /\ mapped \subseteq [ref : Ref, msg : held]
    /\ cursor \in Cursor /\ through \in Cursor
    /\ resting \subseteq unreadable /\ unreadable \subseteq Ref
    /\ due \subseteq Sweeps /\ faults \in 0..MaxFaults

PassTypes == pass \in [Engines -> Pass]

TypeInv == ServerTypes /\ Numbers /\ StoreTypes /\ PassTypes

-----------------------------------------------------------------------------
(* The constants and the operators.                                        *)

LEMMA Consts ==
    /\ Cardinality(Msgs) \in Nat /\ MaxChanges \in Nat /\ MaxFaults \in Nat /\ Budget \in Nat \ {0}
    /\ MaxUid \in Nat /\ MaxUid = Cardinality(Msgs) + MaxChanges
<1>1. Cardinality(Msgs) \in Nat
    BY SyncAssumption, FS_CardinalityType
<1> QED
    BY <1>1, SyncAssumption DEF MaxUid

LEMMA Counts == ASSUME NEW S, S \subseteq Msgs PROVE Cardinality(S) \in Nat /\ Cardinality(S) <= Cardinality(Msgs)
BY SyncAssumption, FS_Subset, FS_CardinalityType

LEMMA NoCursorIs == NoCursor \in Cursor /\ NoCursor.uv = 0 /\ NoCursor.next = 0 /\ NoCursor.mod = 0
BY Consts DEF NoCursor, Cursor

LEMMA IdleIs ==
    /\ Idle \in Pass /\ Idle.at = "idle" /\ Idle.wanted = {} /\ Idle.rows = {} /\ Idle.gone = {}
<1>1. Budget \in Nat
    BY Consts
<1> QED
    BY <1>1, NoCursorIs DEF Idle, Pass, Stages

LEMMA CursorIs == ASSUME NEW q \in Cursor PROVE q.uv \in Nat /\ q.next \in Nat /\ q.mod \in Nat
BY Consts DEF Cursor

LEMMA FreshIs == ASSUME ServerTypes PROVE Fresh \in Cursor /\ Fresh.uv = uv /\ Fresh.next = next
<1>1. uv \in 0..(MaxChanges + 1) /\ next \in 0..(MaxUid + 1) /\ high \in Nat
    BY Consts DEF ServerTypes
<1> DEFINE modseq == IF condstore = "Absent" THEN 0 ELSE high
<1>2. modseq \in Nat /\ Fresh = [uv |-> uv, next |-> next, mod |-> modseq]
    BY <1>1 DEF Fresh
<1> HIDE DEF modseq
<1> QED
    BY <1>1, <1>2 DEF Cursor

LEMMA AddressIs ==
    ASSUME ServerTypes, NEW m \in Present
    PROVE  /\ m \in Msgs /\ uid[m] \in 1..MaxUid /\ uv \in Nat /\ next \in Nat
           /\ Address(m) \in Ref /\ Address(m)[1] = uv /\ Address(m)[2] = uid[m]
<1>1. m \in Msgs /\ uid[m] # 0
    BY DEF Present
<1>2. uid[m] \in 1..MaxUid /\ uv \in Nat /\ next \in Nat /\ uv \in 1..(MaxChanges + 1)
    BY <1>1, Consts DEF ServerTypes
<1> QED
    BY <1>1, <1>2 DEF Address, Ref

LEMMA RowsIs ==
    ASSUME ServerTypes, NEW ms, ms \subseteq Present
    PROVE  /\ Rows(ms) \in SUBSET Row
           /\ \A r \in Rows(ms) : \E m \in ms : r.ref = Address(m)
           /\ \A m \in ms : Address(m) \in {r.ref : r \in Rows(ms)}
<1>1. \A r \in Rows(ms) : \E m \in ms : r = [ref |-> Address(m), seen |-> m \in seen]
    BY DEF Rows
<1>2. ASSUME NEW m \in ms PROVE LET r == [ref |-> Address(m), seen |-> m \in seen]
                               IN  r \in Row /\ r.ref = Address(m) /\ r \in Rows(ms)
    BY AddressIs DEF Row, Rows
<1> QED
    BY <1>1, <1>2

LEMMA ReadsIs ==
    ASSUME StoreTypes, NEW map, map \subseteq mapped, NEW rows PROVE Reads(map, rows) \subseteq held
<1>1. \A x \in map : x.msg \in held
    BY DEF StoreTypes
<1> QED
    BY <1>1 DEF Reads, StoreTypes

LEMMA GotoIs ==
    ASSUME PassTypes, NEW e \in Engines, NEW q \in Pass, Goto(e, q)
    PROVE  PassTypes' /\ pass'[e] = q
BY DEF PassTypes, Goto

LEMMA StepIs ==
    ASSUME PassTypes, NEW e \in Engines, NEW stage \in Stages
    PROVE  LET q == Step(e, stage)
               p == pass[e]
           IN  /\ p \in Pass /\ q \in Pass /\ q.at = stage /\ q.from = p.from /\ q.was = p.was /\ q.fresh = p.fresh
               /\ q.rows = p.rows /\ q.wanted = p.wanted /\ q.left = p.left /\ q.due = p.due /\ q.gone = p.gone
<1>1. pass[e] \in Pass /\ Step(e, stage) = [pass[e] EXCEPT !.at = stage]
    BY DEF PassTypes, Step
<1> QED
    BY <1>1 DEF Pass

-----------------------------------------------------------------------------
(* The mailbox, changed by other devices.                                   *)

\* Numbers go up: a message keeps its UID or is given one that was never given, unless the whole
\* mailbox is numbered afresh, which no connection that has it selected lives through.
Later ==
    \/ /\ uv' = uv /\ next' >= next
       /\ \A m \in Present' : (m \in Present /\ uid'[m] = uid[m]) \/ uid'[m] >= next
    \/ uv' > uv /\ \A e \in Engines : pass[e].at # "list"

LEMMA ArriveIs ==
    ASSUME ServerTypes, Numbers, NEW m \in Msgs, Arrive(m) PROVE ServerTypes' /\ Numbers' /\ Later
<1>1. /\ uid[m] = 0 /\ uid' = [uid EXCEPT ![m] = next] /\ next' = next + 1
      /\ seen' = seen \ {m} /\ mod' = [mod EXCEPT ![m] = high + 1] /\ UNCHANGED <<uv, expunged>>
      /\ changes < MaxChanges /\ changes' = changes + 1 /\ high' = high + 1 /\ UNCHANGED condstore
    BY DEF Arrive, Change
<1>2. /\ next \in Nat /\ next # 0 /\ changes \in Nat /\ next <= Cardinality(Msgs) + changes + 1
      /\ uid \in [Msgs -> 0..MaxUid]
    BY Consts DEF ServerTypes, Numbers
<1>3. /\ next \in 1..MaxUid /\ next' \in 1..(MaxUid + 1) /\ changes' \in 0..MaxChanges
      /\ next' <= Cardinality(Msgs) + changes' + 1 /\ next' > next
    BY <1>1, <1>2, Consts
<1>4. uid' \in [Msgs -> 0..MaxUid] /\ mod' \in [Msgs -> Nat] /\ high' \in Nat
    BY <1>1, <1>2, <1>3, Consts DEF ServerTypes
<1>5. ServerTypes'
    BY <1>1, <1>3, <1>4 DEF ServerTypes
<1>6. Present' = Present \cup {m} /\ m \notin Present /\ uid'[m] = next /\ \A n \in Msgs : n # m => uid'[n] = uid[n]
    BY <1>1, <1>2, <1>3, <1>4 DEF Present
<1>7. \A n \in Present : n \in Msgs /\ uid[n] < next
    BY DEF Numbers, Present
<1>8. uv' <= changes' + 1
    BY <1>1, <1>2, Consts DEF Numbers, ServerTypes
<1>9. (\A n \in Msgs : uid'[n] < next') /\ \A x \in expunged' : x.uid < next'
    <2>1. \A n \in Msgs : uid[n] < next /\ uid[n] \in Nat
        BY <1>2, Consts DEF Numbers
    <2>2. \A x \in expunged : x.uid < next /\ x.uid \in Nat
        BY Consts DEF Numbers, ServerTypes
    <2> QED
        BY <1>1, <1>2, <1>3, <1>6, <2>1, <2>2
<1>10. \A n, o \in Present' : uid'[n] = uid'[o] => n = o
    BY <1>2, <1>6, <1>7 DEF Numbers
<1>11. \A x \in expunged', n \in Present' : x.uid # uid'[n]
    BY <1>1, <1>2, <1>6, <1>7 DEF Numbers
<1>12. Later
    BY <1>1, <1>2, <1>3, <1>6, <1>7 DEF Later
<1> QED
    BY <1>3, <1>5, <1>8, <1>9, <1>10, <1>11, <1>12 DEF Numbers

LEMMA ExpungeIs ==
    ASSUME ServerTypes, Numbers, NEW m \in Msgs, Expunge(m) PROVE ServerTypes' /\ Numbers' /\ Later
<1> DEFINE x0 == [uid |-> uid[m], mod |-> high + 1]
<1>1. /\ uid[m] # 0 /\ expunged' = expunged \cup {x0} /\ uid' = [uid EXCEPT ![m] = 0]
      /\ UNCHANGED <<uv, next, seen, mod, condstore>>
      /\ changes < MaxChanges /\ changes' = changes + 1 /\ high' = high + 1
    BY DEF Expunge, Change
<1>2. /\ next \in Nat /\ changes \in Nat /\ next <= Cardinality(Msgs) + changes + 1 /\ high + 1 \in Nat
      /\ uid \in [Msgs -> 0..MaxUid] /\ uid[m] \in 1..MaxUid /\ uid[m] < next
    BY <1>1, Consts DEF ServerTypes, Numbers
<1>3. x0 \in [uid : 1..MaxUid, mod : Nat] /\ x0.uid = uid[m]
    BY <1>2
<1> HIDE DEF x0
<1>4. changes' \in 0..MaxChanges /\ next <= Cardinality(Msgs) + changes' + 1
    BY <1>1, <1>2, Consts
<1>5. uid' \in [Msgs -> 0..MaxUid] /\ high' \in Nat /\ expunged' \subseteq [uid : 1..MaxUid, mod : Nat]
    BY <1>1, <1>2, <1>3, Consts DEF ServerTypes
<1>6. ServerTypes'
    BY <1>1, <1>4, <1>5 DEF ServerTypes
<1>7. Present' = Present \ {m} /\ m \in Present /\ uid'[m] = 0 /\ \A n \in Msgs : n # m => uid'[n] = uid[n]
    BY <1>1, <1>2, <1>5 DEF Present
<1>8. \A n \in Present : n \in Msgs
    BY DEF Present
<1>9. uv' <= changes' + 1
    BY <1>1, <1>2, Consts DEF Numbers, ServerTypes
<1>10. (\A n \in Msgs : uid'[n] < next') /\ \A x \in expunged' : x.uid < next'
    BY <1>1, <1>2, <1>3, <1>7 DEF Numbers
<1>11. \A n, o \in Present' : uid'[n] = uid'[o] => n = o
    BY <1>7, <1>8 DEF Numbers
<1>12. \A x \in expunged', n \in Present' : x.uid # uid'[n]
    BY <1>1, <1>3, <1>7, <1>8 DEF Numbers
<1>13. Later
    BY <1>1, <1>2, <1>7, <1>8 DEF Later
<1> QED
    BY <1>1, <1>4, <1>6, <1>9, <1>10, <1>11, <1>12, <1>13 DEF Numbers

LEMMA ReflagIs ==
    ASSUME ServerTypes, Numbers, NEW m \in Msgs, Reflag(m) PROVE ServerTypes' /\ Numbers' /\ Later
<1>1. /\ seen' = (seen \ {m}) \cup ({m} \ seen) /\ mod' = [mod EXCEPT ![m] = high + 1]
      /\ UNCHANGED <<uv, uid, next, expunged, condstore>>
      /\ changes < MaxChanges /\ changes' = changes + 1 /\ high' = high + 1
    BY DEF Reflag, Change
<1>2. next \in Nat /\ changes \in Nat /\ next <= Cardinality(Msgs) + changes + 1 /\ high + 1 \in Nat
    BY Consts DEF ServerTypes, Numbers
<1>3. changes' \in 0..MaxChanges /\ next <= Cardinality(Msgs) + changes' + 1
    BY <1>1, <1>2, Consts
<1>4. ServerTypes'
    BY <1>1, <1>2, <1>3 DEF ServerTypes
<1>5. uv' <= changes' + 1
    BY <1>1, <1>2, Consts DEF Numbers, ServerTypes
<1>6. Present' = Present /\ \A n \in Present : n \in Msgs
    BY <1>1 DEF Present
<1>7. Later
    BY <1>1, <1>2, <1>6 DEF Later
<1> QED
    BY <1>1, <1>3, <1>4, <1>5, <1>6, <1>7 DEF Numbers

LEMMA RenumberIs ==
    ASSUME ServerTypes, Numbers, Renumber PROVE ServerTypes' /\ Numbers' /\ Later
<1> DEFINE n0 == Cardinality(Present)
<1>1. /\ uv' = uv + 1 /\ next' = n0 + 1 /\ expunged' = {} /\ uid' \in [Msgs -> 0..n0]
      /\ \A m \in Msgs : uid'[m] # 0 <=> m \in Present
      /\ \A m, n \in Present : uid'[m] = uid'[n] => m = n
      /\ mod' = [m \in Msgs |-> high + 1] /\ UNCHANGED <<seen, condstore>>
      /\ changes < MaxChanges /\ changes' = changes + 1 /\ high' = high + 1
      /\ \A e \in Engines : pass[e].at # "list"
    BY DEF Renumber, Change, At
<1>2. Present \subseteq Msgs /\ n0 \in Nat /\ n0 <= Cardinality(Msgs)
    <2>1. Present \subseteq Msgs
        BY DEF Present
    <2> QED
        BY <2>1, Counts
<1> HIDE DEF n0
<1>3. /\ uv \in Nat /\ uv # 0 /\ changes \in Nat /\ high + 1 \in Nat /\ uv <= changes + 1
    BY Consts DEF ServerTypes, Numbers
<1>4. /\ changes' \in 0..MaxChanges /\ uv' \in 1..(MaxChanges + 1) /\ next' \in 1..(MaxUid + 1) /\ uv' > uv
      /\ next' <= Cardinality(Msgs) + changes' + 1 /\ uv' <= changes' + 1 /\ 0..n0 \subseteq 0..MaxUid
    BY <1>1, <1>2, <1>3, Consts
<1>5. ServerTypes'
    BY <1>1, <1>3, <1>4 DEF ServerTypes
<1>6. Present' = Present
    BY <1>1, <1>2 DEF Present
<1>7. \A m \in Msgs : uid'[m] < next'
    BY <1>1, <1>2
<1>8. Later
    BY <1>1, <1>4 DEF Later
<1> QED
    BY <1>1, <1>2, <1>4, <1>5, <1>6, <1>7, <1>8 DEF Numbers

LEMMA OutsideIs ==
    ASSUME TypeInv, Outside
    PROVE  TypeInv' /\ Later /\ UNCHANGED <<store, due, pass, faults>>
<1>1. ServerTypes /\ Numbers
    BY DEF TypeInv
<1>2. UNCHANGED <<store, due, pass, faults>>
    BY DEF Outside, Arrive, Expunge, Reflag, Renumber, Change
<1>3. ServerTypes' /\ Numbers' /\ Later
    BY <1>1, ArriveIs, ExpungeIs, ReflagIs, RenumberIs DEF Outside
<1>4. StoreTypes' /\ PassTypes'
    BY <1>2 DEF TypeInv, StoreTypes, PassTypes, store
<1> QED
    BY <1>2, <1>3, <1>4 DEF TypeInv

-----------------------------------------------------------------------------
(* An engine's steps: what each makes of the pass and of the store.         *)

LEMMA ServerStays == ASSUME TypeInv, UNCHANGED <<server, changes>> PROVE ServerTypes' /\ Numbers' /\ Present' = Present
<1>1. UNCHANGED <<condstore, uv, uid, next, seen, mod, high, expunged, changes>>
    BY DEF server
<1>2. Present' = Present
    BY <1>1 DEF Present
<1> QED
    BY <1>1, <1>2 DEF TypeInv, ServerTypes, Numbers

LEMMA StoreStays == ASSUME TypeInv, UNCHANGED <<store, due>>, faults' \in 0..MaxFaults PROVE StoreTypes'
BY DEF TypeInv, StoreTypes, store

LEMMA FaultIs == ASSUME TypeInv, NEW f, Fault(f) PROVE faults' \in 0..MaxFaults
BY Consts DEF TypeInv, StoreTypes, Fault

LEMMA BeginIs ==
    ASSUME TypeInv, NEW e \in Engines, Begin(e)
    PROVE  LET q == pass'[e]
           IN  /\ PassTypes' /\ q.at = "survey" /\ q.was = cursor /\ q.rows = {} /\ q.wanted = {} /\ q.gone = {}
               /\ q.from # NoCursor => q.from = through /\ Resumes(cursor, through, "expunges" \in due)
<1> DEFINE from == IF Resumes(cursor, through, "expunges" \in due) THEN through ELSE NoCursor
           q == [Idle EXCEPT !.at = "survey", !.was = cursor, !.due = due, !.left = Budget, !.from = from]
<1>1. from \in Cursor /\ cursor \in Cursor /\ due \in SUBSET Sweeps /\ Budget \in 0..Budget /\ "survey" \in Stages
    BY Consts, NoCursorIs DEF TypeInv, StoreTypes, Stages
<1>2. from # NoCursor => from = through /\ Resumes(cursor, through, "expunges" \in due)
    OBVIOUS
<1> HIDE DEF from
<1>3. q \in Pass
    BY <1>1, IdleIs DEF Pass
<1>4. q.at = "survey" /\ q.was = cursor /\ q.from = from /\ q.rows = {} /\ q.wanted = {} /\ q.gone = {}
    BY <1>1, IdleIs DEF Pass
<1>5. Goto(e, q)
    BY DEF Begin, from
<1> HIDE DEF q
<1>6. PassTypes' /\ pass'[e] = q
    BY <1>3, <1>5, GotoIs DEF TypeInv
<1> QED
    BY <1>2, <1>4, <1>6

LEMMA SelectIs ==
    ASSUME TypeInv, NEW e \in Engines, Select(e)
    PROVE  LET p == pass[e]
               q == pass'[e]
           IN  /\ PassTypes' /\ p.at = "survey" /\ q.at = "list" /\ q.fresh = Fresh /\ q.from = p.from /\ q.was = p.was
               /\ q.rows = p.rows /\ q.wanted = p.wanted /\ q.gone = p.gone
<1> DEFINE t == Step(e, "list")
           q == [t EXCEPT !.fresh = Fresh]
<1>1. /\ t \in Pass /\ t.at = "list" /\ t.from = pass[e].from /\ t.was = pass[e].was
      /\ t.rows = pass[e].rows /\ t.wanted = pass[e].wanted /\ t.gone = pass[e].gone
    BY StepIs DEF Stages, TypeInv
<1>2. Fresh \in Cursor
    BY FreshIs DEF TypeInv
<1> HIDE DEF t
<1>3. q \in Pass /\ q.fresh = Fresh
    BY <1>1, <1>2 DEF Pass
<1>4. q.at = t.at /\ q.from = t.from /\ q.was = t.was /\ q.rows = t.rows /\ q.wanted = t.wanted /\ q.gone = t.gone
    BY <1>1 DEF Pass
<1>5. Goto(e, q) /\ pass[e].at = "survey"
    BY DEF Select, At, t
<1> HIDE DEF q
<1>6. PassTypes' /\ pass'[e] = q
    BY <1>3, <1>5, GotoIs DEF TypeInv
<1> QED
    BY <1>1, <1>3, <1>4, <1>5, <1>6

LEMMA ListIs ==
    ASSUME TypeInv, NEW e \in Engines, List(e)
    PROVE  LET p == pass[e]
               q == pass'[e]
           IN  /\ PassTypes' /\ p.at = "list" /\ q.was = p.was /\ q.wanted = p.wanted /\ q.gone = p.gone
               /\ \/ q.at = "survey" /\ q.from = NoCursor /\ q.rows = p.rows
                  \/ /\ q.at = "ingest" /\ q.from = p.from /\ q.fresh = p.fresh /\ ~Redo(p.from, p.fresh)
                     /\ q.rows = Rows(Listed(p.from.next))
<1> DEFINE p == pass[e]
<1>0. p.at = "list" /\ ServerTypes /\ PassTypes
    BY DEF List, At, TypeInv
<1>1. CASE Redo(p.from, p.fresh)
    <2> DEFINE t == Step(e, "survey")
               q == [t EXCEPT !.from = NoCursor, !.fresh = NoCursor]
    <2>1. t \in Pass /\ t.at = "survey" /\ t.was = p.was /\ t.rows = p.rows /\ t.wanted = p.wanted /\ t.gone = p.gone
        BY <1>0, StepIs DEF Stages
    <2>2. Goto(e, q)
        BY <1>1 DEF List
    <2> HIDE DEF t
    <2>3. q \in Pass /\ q.from = NoCursor
        BY <2>1, NoCursorIs DEF Pass
    <2>4. q.at = t.at /\ q.was = t.was /\ q.rows = t.rows /\ q.wanted = t.wanted /\ q.gone = t.gone
        BY <2>1 DEF Pass
    <2> HIDE DEF q
    <2>5. PassTypes' /\ pass'[e] = q
        BY <1>0, <2>2, <2>3, GotoIs
    <2> QED
        BY <1>0, <2>1, <2>3, <2>4, <2>5
<1>2. CASE ~Redo(p.from, p.fresh)
    <2> DEFINE t == Step(e, "ingest")
               rows == Rows(Listed(p.from.next))
               q == [t EXCEPT !.rows = rows]
    <2>1. /\ t \in Pass /\ t.at = "ingest" /\ t.was = p.was /\ t.from = p.from /\ t.fresh = p.fresh
          /\ t.wanted = p.wanted /\ t.gone = p.gone
        BY <1>0, StepIs DEF Stages
    <2>2. rows \in SUBSET Row
        BY <1>0, RowsIs DEF Listed
    <2>3. Goto(e, q)
        BY <1>2 DEF List
    <2> HIDE DEF t, rows
    <2>4. q \in Pass /\ q.rows = rows
        BY <2>1, <2>2 DEF Pass
    <2>5. /\ q.at = t.at /\ q.was = t.was /\ q.from = t.from /\ q.fresh = t.fresh /\ q.wanted = t.wanted
          /\ q.gone = t.gone
        BY <2>1 DEF Pass
    <2> HIDE DEF q
    <2>6. PassTypes' /\ pass'[e] = q
        BY <1>0, <2>3, <2>4, GotoIs
    <2> QED
        BY <1>0, <1>2, <2>1, <2>4, <2>5, <2>6 DEF rows
<1> QED
    BY <1>1, <1>2

LEMMA IngestIs ==
    ASSUME TypeInv, NEW e \in Engines, Ingest(e)
    PROVE  LET p == pass[e]
               q == pass'[e]
               listed == {r.ref : r \in p.rows}
               refs == {x.ref : x \in mapped'}
           IN  /\ PassTypes' /\ StoreTypes' /\ p.at = "ingest" /\ q.at = "headers" /\ q.rows = {} /\ q.gone = p.gone
               /\ UNCHANGED <<held, through, unreadable>>
               /\ \/ p.fresh = p.was /\ UNCHANGED <<mapped, cursor>>
                  \/ mapped' = (IF Renumbered(p.was, p.fresh) THEN {} ELSE mapped) /\ cursor' = p.fresh
               /\ IF listed = {} THEN q.wanted \subseteq refs ELSE q.wanted = listed \ (refs \cup resting)
<1> DEFINE p == pass[e]
           listed == {r.ref : r \in p.rows}
           refs == {x.ref : x \in mapped'}
           map == IF Renumbered(p.was, p.fresh) THEN {} ELSE mapped
           t == Step(e, "headers")
           q(w) == [t EXCEPT !.rows = {}, !.from = NoCursor, !.was = NoCursor, !.fresh = NoCursor, !.wanted = w]
<1>1. /\ p.at = "ingest" /\ UNCHANGED <<held, through, unreadable, resting, due, faults>>
      /\ ServerTypes /\ StoreTypes /\ PassTypes
    BY DEF Ingest, At, TypeInv
<1>2. p \in Pass /\ p.rows \in SUBSET Row /\ p.fresh \in Cursor
    BY <1>1 DEF PassTypes, Pass
<1>3. t \in Pass /\ t.at = "headers" /\ t.gone = p.gone
    BY <1>1, StepIs DEF Stages
<1>4. IF FoundNothing(p) THEN UNCHANGED <<read, mapped, cursor>>
      ELSE read' = Reads(map, p.rows) /\ mapped' = map /\ cursor' = p.fresh
    BY DEF Ingest
<1>5. PICK w \in (IF listed = {} THEN SUBSET refs ELSE {listed \ (refs \cup resting)}) : Goto(e, q(w))
    BY DEF Ingest, Resting
<1>6. map \subseteq mapped
    OBVIOUS
<1> HIDE DEF map, t, p
<1>7. \/ p.fresh = p.was /\ UNCHANGED <<read, mapped, cursor>>
      \/ read' = Reads(map, p.rows) /\ mapped' = map /\ cursor' = p.fresh
    BY <1>4 DEF FoundNothing
<1>8. StoreTypes'
    <2>1. Reads(map, p.rows) \subseteq held
        BY <1>1, <1>6, ReadsIs
    <2> QED
        BY <1>1, <1>2, <1>6, <1>7, <2>1 DEF StoreTypes
<1>9. refs \subseteq Ref /\ listed \subseteq Ref
    BY <1>2, <1>8 DEF StoreTypes, Row
<1> HIDE DEF refs, listed
<1>10. w \in SUBSET Ref
    BY <1>5, <1>9
<1>11. q(w) \in Pass /\ q(w).wanted = w /\ q(w).rows = {}
    BY <1>3, <1>10, NoCursorIs DEF Pass
<1>12. q(w).at = t.at /\ q(w).gone = t.gone
    BY <1>3 DEF Pass
<1>13. PassTypes' /\ pass'[e] = q(w)
    BY <1>1, <1>5, <1>11, GotoIs
<1>14. /\ pass'[e].at = "headers" /\ pass'[e].rows = {} /\ pass'[e].gone = p.gone
       /\ IF listed = {} THEN pass'[e].wanted \subseteq refs ELSE pass'[e].wanted = listed \ (refs \cup resting)
    BY <1>3, <1>5, <1>11, <1>12, <1>13
<1> QED
    BY <1>1, <1>7, <1>8, <1>13, <1>14 DEF map, refs, listed, p

LEMMA FetchHeaderIs ==
    ASSUME TypeInv, NEW e \in Engines, FetchHeader(e)
    PROVE  LET p == pass[e]
               q == pass'[e]
           IN  /\ PassTypes' /\ StoreTypes' /\ p.at = "headers" /\ q.at \in {"headers", "said"} /\ q.gone = p.gone
               /\ UNCHANGED <<cursor, through, unreadable>> /\ held \subseteq held'
               /\ \E r \in p.wanted :
                     /\ q.wanted = p.wanted \ {r}
                     /\ \/ q.rows = p.rows /\ mapped' = mapped /\ \A m \in Present : uid[m] # r[2]
                        \/ \E m \in Present : /\ uid[m] = r[2] /\ mapped' = Map(r, m)
                                              /\ q.rows = {[ref |-> r, seen |-> m \in seen]}
<1> DEFINE p == pass[e]
<1>1. /\ p.at = "headers" /\ p.left > 0 /\ UNCHANGED <<cursor, through, unreadable, resting, due, faults>>
      /\ ServerTypes /\ StoreTypes /\ PassTypes
    BY DEF FetchHeader, At, TypeInv
<1>2. p \in Pass /\ p.wanted \in SUBSET Ref /\ p.rows \in SUBSET Row /\ p.left \in 0..Budget
    BY <1>1 DEF PassTypes, Pass
<1>3. PICK r \in p.wanted :
         LET there == {m \in Present : uid[m] = r[2]}
             t == [p EXCEPT !.wanted = @ \ {r}]
         IN \/ there = {} /\ Goto(e, t) /\ UNCHANGED <<held, read, mapped>>
            \/ \E m \in there :
                 /\ held' = held \cup {m} /\ mapped' = Map(r, m)
                 /\ read' = IF m \in held THEN read ELSE read \ {m}
                 /\ Goto(e, [t EXCEPT !.at = "said", !.left = @ - 1, !.rows = {[ref |-> r, seen |-> m \in seen]}])
    BY DEF FetchHeader
<1> DEFINE w == p.wanted \ {r}
           t == [p EXCEPT !.wanted = w]
<1>4. w \in SUBSET Ref /\ r \in Ref
    BY <1>2
<1> HIDE DEF p, w
<1>5. t \in Pass /\ t.wanted = w
    BY <1>2, <1>4 DEF Pass
<1>6. t.at = p.at /\ t.rows = p.rows /\ t.gone = p.gone /\ t.left = p.left
    BY <1>2 DEF Pass
<1>7. CASE Goto(e, t) /\ UNCHANGED <<held, read, mapped>> /\ \A m \in Present : uid[m] # r[2]
    <2> HIDE DEF t
    <2>1. PassTypes' /\ pass'[e] = t
        BY <1>1, <1>5, <1>7, GotoIs
    <2>2. StoreTypes' /\ held \subseteq held'
        BY <1>1, <1>7 DEF StoreTypes
    <2>3. /\ pass'[e].wanted = p.wanted \ {r} /\ pass'[e].rows = p.rows /\ pass'[e].at = "headers"
          /\ pass'[e].gone = p.gone
        BY <1>1, <1>5, <1>6, <2>1 DEF w
    <2> QED
        BY <1>1, <1>3, <1>7, <2>1, <2>2, <2>3 DEF p
<1>8. ASSUME NEW m \in Present, uid[m] = r[2], held' = held \cup {m}, mapped' = Map(r, m),
             read' = IF m \in held THEN read ELSE read \ {m},
             Goto(e, [t EXCEPT !.at = "said", !.left = @ - 1, !.rows = {[ref |-> r, seen |-> m \in seen]}])
      PROVE  /\ PassTypes' /\ StoreTypes' /\ held \subseteq held' /\ pass'[e].wanted = p.wanted \ {r}
             /\ pass'[e].at = "said" /\ pass'[e].gone = p.gone /\ pass'[e].rows = {[ref |-> r, seen |-> m \in seen]}
    <2> HIDE DEF t
    <2> DEFINE left == t.left - 1
               rows == {[ref |-> r, seen |-> m \in seen]}
               q == [t EXCEPT !.at = "said", !.left = left, !.rows = rows]
    <2>1. left \in 0..Budget /\ rows \in SUBSET Row /\ "said" \in Stages
        BY <1>1, <1>2, <1>4, <1>6, Consts DEF Row, Stages
    <2>2. Goto(e, q)
        BY <1>8
    <2> HIDE DEF left, rows
    <2>3. q \in Pass /\ q.at = "said" /\ q.rows = rows
        BY <1>5, <2>1 DEF Pass
    <2>4. q.wanted = t.wanted /\ q.gone = t.gone
        BY <1>5 DEF Pass
    <2> HIDE DEF q
    <2>5. PassTypes' /\ pass'[e] = q
        BY <1>1, <2>2, <2>3, GotoIs
    <2>6. m \in Msgs
        BY DEF Present
    <2>7. mapped' \subseteq [ref : Ref, msg : held']
        <3>1. \A x \in mapped : x \in [ref : Ref, msg : held']
            BY <1>1, <1>8 DEF StoreTypes
        <3>2. [ref |-> r, msg |-> m] \in [ref : Ref, msg : held']
            BY <1>4, <1>8
        <3> QED
            BY <1>8, <3>1, <3>2 DEF Map
    <2>8. read' \subseteq held' /\ held' \subseteq Msgs
        BY <1>1, <1>8, <2>6 DEF StoreTypes
    <2>9. StoreTypes'
        BY <1>1, <2>7, <2>8 DEF StoreTypes
    <2> QED
        BY <1>5, <1>6, <1>8, <2>3, <2>4, <2>5, <2>9 DEF rows, w
<1>9. \/ Goto(e, t) /\ UNCHANGED <<held, read, mapped>> /\ \A m \in Present : uid[m] # r[2]
      \/ \E m \in Present :
            /\ uid[m] = r[2] /\ held' = held \cup {m} /\ mapped' = Map(r, m)
            /\ read' = IF m \in held THEN read ELSE read \ {m}
            /\ Goto(e, [t EXCEPT !.at = "said", !.left = @ - 1, !.rows = {[ref |-> r, seen |-> m \in seen]}])
    BY <1>3 DEF w
<1>10. CASE \E m \in Present :
            /\ uid[m] = r[2] /\ held' = held \cup {m} /\ mapped' = Map(r, m)
            /\ read' = IF m \in held THEN read ELSE read \ {m}
            /\ Goto(e, [t EXCEPT !.at = "said", !.left = @ - 1, !.rows = {[ref |-> r, seen |-> m \in seen]}])
    <2>1. PICK m \in Present :
            /\ uid[m] = r[2] /\ held' = held \cup {m} /\ mapped' = Map(r, m)
            /\ read' = IF m \in held THEN read ELSE read \ {m}
            /\ Goto(e, [t EXCEPT !.at = "said", !.left = @ - 1, !.rows = {[ref |-> r, seen |-> m \in seen]}])
        BY <1>10
    <2> HIDE DEF t
    <2>2. /\ PassTypes' /\ StoreTypes' /\ held \subseteq held' /\ pass'[e].wanted = p.wanted \ {r}
          /\ pass'[e].at = "said" /\ pass'[e].gone = p.gone /\ pass'[e].rows = {[ref |-> r, seen |-> m \in seen]}
        BY <1>8, <2>1
    <2> QED
        BY <1>1, <1>3, <2>1, <2>2 DEF p
<1> QED
    BY <1>7, <1>9, <1>10

LEMMA AbsorbFlagsIs ==
    ASSUME TypeInv, NEW e \in Engines, AbsorbFlags(e)
    PROVE  LET p == pass[e]
               q == pass'[e]
           IN  /\ PassTypes' /\ StoreTypes' /\ p.at = "said" /\ q.at = "headers" /\ q.rows = {} /\ q.wanted = p.wanted
               /\ q.gone = p.gone /\ UNCHANGED <<held, mapped, cursor, through, unreadable>>
<1> DEFINE t == Step(e, "headers")
           q == [t EXCEPT !.rows = {}]
<1>1. /\ pass[e].at = "said" /\ Goto(e, q) /\ read' = Reads(mapped, pass[e].rows)
      /\ UNCHANGED <<held, mapped, cursor, through, unreadable, resting, due, faults>> /\ StoreTypes /\ PassTypes
    BY DEF AbsorbFlags, At, TypeInv
<1>2. t \in Pass /\ t.at = "headers" /\ t.wanted = pass[e].wanted /\ t.gone = pass[e].gone
    BY <1>1, StepIs DEF Stages
<1> HIDE DEF t
<1>3. q \in Pass /\ q.rows = {} /\ q.at = t.at /\ q.wanted = t.wanted /\ q.gone = t.gone
    BY <1>2 DEF Pass
<1> HIDE DEF q
<1>4. PassTypes' /\ pass'[e] = q
    BY <1>1, <1>3, GotoIs
<1>5. StoreTypes'
    <2>1. Reads(mapped, pass[e].rows) \subseteq held
        BY <1>1, ReadsIs
    <2> QED
        BY <1>1, <2>1 DEF StoreTypes
<1> QED
    BY <1>1, <1>2, <1>3, <1>4, <1>5

LEMMA GarbledIs ==
    ASSUME TypeInv, NEW e \in Engines, Garbled(e)
    PROVE  LET p == pass[e]
               q == pass'[e]
           IN  /\ PassTypes' /\ StoreTypes' /\ p.at = "headers" /\ q.at = "headers" /\ q.rows = p.rows /\ q.gone = p.gone
               /\ UNCHANGED <<held, mapped, cursor, through>>
               /\ \E r \in p.wanted : q.wanted = p.wanted \ {r} /\ unreadable' = unreadable \cup {r}
<1> DEFINE p == pass[e]
<1>1. /\ p.at = "headers" /\ p.left > 0 /\ StoreTypes /\ PassTypes
      /\ UNCHANGED <<held, read, mapped, cursor, through, due>> /\ faults' \in 0..MaxFaults
    BY FaultIs DEF Garbled, At, TypeInv
<1>2. p \in Pass /\ p.wanted \in SUBSET Ref /\ p.left \in 0..Budget
    BY <1>1 DEF PassTypes, Pass
<1>3. PICK r \in p.wanted :
         /\ unreadable' = unreadable \cup {r} /\ resting' = resting \cup {r}
         /\ Goto(e, [p EXCEPT !.wanted = @ \ {r}, !.left = @ - 1])
    BY DEF Garbled
<1> DEFINE w == p.wanted \ {r}
           left == p.left - 1
           q == [p EXCEPT !.wanted = w, !.left = left]
<1>4. w \in SUBSET Ref /\ r \in Ref /\ left \in 0..Budget
    BY <1>1, <1>2, Consts
<1>5. Goto(e, q)
    BY <1>3
<1> HIDE DEF p, w, left
<1>6. q \in Pass /\ q.wanted = w
    BY <1>2, <1>4 DEF Pass
<1>7. q.at = p.at /\ q.rows = p.rows /\ q.gone = p.gone
    BY <1>2 DEF Pass
<1> HIDE DEF q
<1>8. PassTypes' /\ pass'[e] = q
    BY <1>1, <1>5, <1>6, GotoIs
<1>9. StoreTypes'
    BY <1>1, <1>3, <1>4 DEF StoreTypes
<1>10. pass'[e].wanted = p.wanted \ {r}
    BY <1>6, <1>8 DEF w
<1> QED
    BY <1>1, <1>3, <1>7, <1>8, <1>9, <1>10 DEF p

LEMMA MarkHeldIs ==
    ASSUME TypeInv, NEW e \in Engines, MarkHeld(e)
    PROVE  LET p == pass[e]
               q == pass'[e]
           IN  /\ PassTypes' /\ StoreTypes' /\ p.at = "headers" /\ p.wanted = {} /\ q.at = "sweep" /\ q.wanted = {}
               /\ q.rows = p.rows /\ q.gone = p.gone /\ UNCHANGED <<held, mapped, cursor, unreadable>>
               /\ IF cursor.uv = 0 THEN through' = through ELSE through'.uv = cursor.uv /\ through'.next = cursor.next
<1> DEFINE t == Step(e, "sweep")
           q == [t EXCEPT !.wanted = {}, !.left = 0]
<1>1. /\ pass[e].at = "headers" /\ pass[e].wanted = {} /\ Goto(e, q) /\ StoreTypes /\ PassTypes
      /\ through' = IF cursor.uv = 0 THEN through ELSE [cursor EXCEPT !.mod = 0]
      /\ UNCHANGED <<held, read, mapped, cursor, unreadable, resting, due, faults>>
    BY DEF MarkHeld, At, Complete, TypeInv
<1>2. t \in Pass /\ t.at = "sweep" /\ t.rows = pass[e].rows /\ t.gone = pass[e].gone
    BY <1>1, StepIs DEF Stages
<1>3. 0 \in 0..Budget
    BY Consts
<1> HIDE DEF t
<1>4. q \in Pass /\ q.wanted = {}
    BY <1>2, <1>3 DEF Pass
<1>5. q.at = t.at /\ q.rows = t.rows /\ q.gone = t.gone
    BY <1>2 DEF Pass
<1> HIDE DEF q
<1>6. PassTypes' /\ pass'[e] = q
    BY <1>1, <1>4, GotoIs
<1>7. /\ through' \in Cursor
      /\ IF cursor.uv = 0 THEN through' = through ELSE through'.uv = cursor.uv /\ through'.next = cursor.next
    BY <1>1 DEF StoreTypes, Cursor
<1>8. StoreTypes'
    BY <1>1, <1>7 DEF StoreTypes
<1> QED
    BY <1>1, <1>2, <1>4, <1>5, <1>6, <1>7, <1>8

\* The steps that only move the pass on, and leave what it asks for behind.
Moves(e) ==
    LET p == pass[e]
        q == pass'[e]
    IN  /\ PassTypes' /\ q.at \in {"sweep", "flags", "expunges", "idle"}
        /\ q.wanted \subseteq p.wanted /\ q.rows \subseteq p.rows /\ q.gone \subseteq p.gone

LEMMA StepMoves ==
    ASSUME PassTypes, NEW e \in Engines, NEW stage \in {"sweep", "flags", "expunges"}, Goto(e, Step(e, stage))
    PROVE  Moves(e)
<1>1. stage \in Stages
    BY DEF Stages
<1>2. /\ Step(e, stage) \in Pass /\ Step(e, stage).at = stage /\ Step(e, stage).wanted = pass[e].wanted
      /\ Step(e, stage).rows = pass[e].rows /\ Step(e, stage).gone = pass[e].gone
    BY <1>1, StepIs
<1>3. PassTypes' /\ pass'[e] = Step(e, stage)
    BY <1>2, GotoIs
<1> QED
    BY <1>2, <1>3 DEF Moves

LEMMA IdleMoves == ASSUME PassTypes, NEW e \in Engines, Goto(e, Idle) PROVE Moves(e)
<1>1. PassTypes' /\ pass'[e] = Idle
    BY IdleIs, GotoIs
<1> QED
    BY <1>1, IdleIs DEF Moves

LEMMA DropMoves ==
    ASSUME PassTypes, NEW e \in Engines, NEW left \in 0..Budget,
           Goto(e, [Step(e, "sweep") EXCEPT !.wanted = {}, !.left = left])
    PROVE  Moves(e)
<1> DEFINE t == Step(e, "sweep")
           q == [t EXCEPT !.wanted = {}, !.left = left]
<1>1. t \in Pass /\ t.at = "sweep" /\ t.rows = pass[e].rows /\ t.gone = pass[e].gone
    BY StepIs DEF Stages
<1> HIDE DEF t
<1>2. q \in Pass /\ q.wanted = {} /\ q.at = t.at /\ q.rows = t.rows /\ q.gone = t.gone
    BY <1>1 DEF Pass
<1> HIDE DEF q
<1>3. PassTypes' /\ pass'[e] = q
    BY <1>2, GotoIs DEF q, t
<1> QED
    BY <1>1, <1>2, <1>3 DEF Moves

LEMMA MovesOn ==
    ASSUME TypeInv, NEW e \in Engines,
           Unfinished(e) \/ Sweep(e) \/ FlagsNotDue(e) \/ ExpungesNotDue(e) \/ RequestFails(e) \/ CutShort(e)
    PROVE  Moves(e) /\ StoreTypes' /\ UNCHANGED store
<1>0. PassTypes
    BY DEF TypeInv
<1>1. UNCHANGED <<store, due>> /\ faults' \in 0..MaxFaults
    BY FaultIs DEF Unfinished, Sweep, FlagsNotDue, ExpungesNotDue, RequestFails, CutShort, TypeInv, StoreTypes
<1>2. StoreTypes'
    BY <1>1, StoreStays
<1>3. CASE Unfinished(e)
    <2> DEFINE t == Step(e, "sweep")
    <2>1. t \in Pass /\ t.left \in 0..Budget
        BY <1>0, StepIs DEF Stages, Pass
    <2>2. Goto(e, [t EXCEPT !.wanted = {}])
        BY <1>3 DEF Unfinished
    <2>3. [t EXCEPT !.wanted = {}] = [t EXCEPT !.wanted = {}, !.left = t.left]
        BY <2>1 DEF Pass
    <2>4. Goto(e, [t EXCEPT !.wanted = {}, !.left = t.left])
        BY <2>2, <2>3
    <2>5. Moves(e)
        BY <1>0, <2>1, <2>4, DropMoves
    <2> QED
        BY <1>1, <1>2, <2>5
<1>7. CASE RequestFails(e)
    <2>1. \/ Goto(e, [Step(e, "sweep") EXCEPT !.wanted = {}, !.left = 0])
          \/ Goto(e, Step(e, "expunges"))
        BY <1>7 DEF RequestFails
    <2>2. CASE Goto(e, [Step(e, "sweep") EXCEPT !.wanted = {}, !.left = 0])
        <3>1. 0 \in 0..Budget
            BY Consts
        <3>2. Moves(e)
            BY <1>0, <2>2, <3>1, DropMoves
        <3> QED
            BY <1>1, <1>2, <3>2
    <2>3. CASE Goto(e, Step(e, "expunges"))
        BY <1>0, <1>1, <1>2, <2>3, StepMoves
    <2> QED
        BY <2>1, <2>2, <2>3
<1>4. CASE FlagsNotDue(e)
    BY <1>0, <1>1, <1>2, <1>4, StepMoves DEF FlagsNotDue
<1>5. CASE ExpungesNotDue(e) \/ CutShort(e)
    BY <1>0, <1>1, <1>2, <1>5, IdleMoves DEF ExpungesNotDue, CutShort
<1>6. CASE Sweep(e)
    <2> DEFINE t == Step(e, "flags")
               d == t.due \cap due
               q == [t EXCEPT !.due = d]
    <2>1. t \in Pass /\ t.at = "flags" /\ t.rows = pass[e].rows /\ t.gone = pass[e].gone /\ t.wanted = pass[e].wanted
        BY <1>0, StepIs DEF Stages
    <2>2. d \in SUBSET Sweeps
        BY <2>1 DEF Pass
    <2>3. Goto(e, q)
        BY <1>6 DEF Sweep
    <2> HIDE DEF t, d
    <2>4. q \in Pass /\ q.wanted = t.wanted /\ q.at = t.at /\ q.rows = t.rows /\ q.gone = t.gone
        BY <2>1, <2>2 DEF Pass
    <2> HIDE DEF q
    <2>5. PassTypes' /\ pass'[e] = q
        BY <1>0, <2>3, <2>4, GotoIs
    <2> QED
        BY <1>1, <1>2, <2>1, <2>4, <2>5 DEF Moves
<1> QED
    BY <1>3, <1>4, <1>5, <1>6, <1>7

LEMMA FetchFlagsIs ==
    ASSUME TypeInv, NEW e \in Engines, FetchFlags(e)
    PROVE  LET p == pass[e]
               q == pass'[e]
           IN  /\ PassTypes' /\ q.at = "flagged" /\ q.fresh = Fresh /\ q.wanted = p.wanted /\ q.gone = p.gone
               /\ \E ms : ms \subseteq Present /\ q.rows = Rows(ms)
<1> DEFINE t == Step(e, "flagged")
           ms == {m \in Present : mod[m] > TrustedModseq}
           rows == Rows(ms)
           q == [t EXCEPT !.fresh = Fresh, !.rows = rows]
<1>1. Goto(e, q) /\ ServerTypes /\ PassTypes
    BY DEF FetchFlags, TypeInv
<1>2. t \in Pass /\ t.at = "flagged" /\ t.wanted = pass[e].wanted /\ t.gone = pass[e].gone
    BY <1>1, StepIs DEF Stages
<1>3. ms \subseteq Present
    OBVIOUS
<1> HIDE DEF ms
<1>4. rows \in SUBSET Row /\ Fresh \in Cursor
    BY <1>1, <1>3, RowsIs, FreshIs
<1> HIDE DEF t, rows
<1>5. q \in Pass /\ q.fresh = Fresh /\ q.rows = rows
    BY <1>2, <1>4 DEF Pass
<1>6. q.at = t.at /\ q.wanted = t.wanted /\ q.gone = t.gone
    BY <1>2 DEF Pass
<1> HIDE DEF q
<1>7. PassTypes' /\ pass'[e] = q
    BY <1>1, <1>5, GotoIs
<1> QED
    BY <1>2, <1>3, <1>5, <1>6, <1>7 DEF rows

LEMMA KeepFlagsIs ==
    ASSUME TypeInv, NEW e \in Engines, KeepFlags(e)
    PROVE  LET p == pass[e]
               q == pass'[e]
           IN  /\ PassTypes' /\ StoreTypes' /\ p.at = "flagged" /\ q.at = "expunges" /\ q.rows = {}
               /\ q.wanted = p.wanted /\ q.gone = p.gone
               /\ cursor' = p.fresh /\ UNCHANGED <<held, mapped, through, unreadable>>
<1> DEFINE t == Step(e, "expunges")
           q == [t EXCEPT !.rows = {}, !.fresh = NoCursor]
<1>1. /\ pass[e].at = "flagged" /\ Goto(e, q) /\ read' = Reads(mapped, pass[e].rows) /\ cursor' = pass[e].fresh
      /\ due' = due \ {"flags"} /\ UNCHANGED <<held, mapped, through, unreadable, resting, faults>>
      /\ StoreTypes /\ PassTypes
    BY DEF KeepFlags, At, TypeInv
<1>2. t \in Pass /\ t.at = "expunges" /\ t.wanted = pass[e].wanted /\ t.gone = pass[e].gone
    BY <1>1, StepIs DEF Stages
<1> HIDE DEF t
<1>3. q \in Pass /\ q.rows = {} /\ q.at = t.at /\ q.wanted = t.wanted /\ q.gone = t.gone
    BY <1>2, NoCursorIs DEF Pass
<1> HIDE DEF q
<1>4. PassTypes' /\ pass'[e] = q
    BY <1>1, <1>3, GotoIs
<1>5. StoreTypes'
    <2>1. Reads(mapped, pass[e].rows) \subseteq held
        BY <1>1, ReadsIs
    <2>2. pass[e].fresh \in Cursor
        BY <1>1 DEF PassTypes, Pass
    <2> QED
        BY <1>1, <2>1, <2>2 DEF StoreTypes
<1> QED
    BY <1>1, <1>2, <1>3, <1>4, <1>5

LEMMA ListRemoteIs ==
    ASSUME TypeInv, NEW e \in Engines, ListRemote(e)
    PROVE  LET q == pass'[e]
           IN  /\ PassTypes' /\ q.at = "listed"
               /\ \E ms : ms \subseteq Present /\ q.rows = Rows(ms)
               /\ \/ /\ q.was = NoCursor /\ q.fresh = Fresh /\ q.gone = {} /\ q.wanted = {Address(m) : m \in Present}
                  \/ /\ q.was = cursor /\ cursor.mod # 0 /\ q.wanted = {}
                     /\ \/ q.fresh = NoCursor /\ q.gone = {}
                        \/ /\ q.fresh = Fresh
                           /\ \A r \in q.gone : \E x \in expunged : r = <<uv, x.uid>>
<1> DEFINE t == Step(e, "listed")
           ms == IF Resyncs /\ cursor.uv = uv THEN {m \in Present : mod[m] > cursor.mod} ELSE {}
           wanted == IF Resyncs THEN {} ELSE {Address(m) : m \in Present}
           was == IF Resyncs THEN cursor ELSE NoCursor
           fresh == IF Resyncs /\ cursor.uv # uv THEN NoCursor ELSE Fresh
           rows == Rows(ms)
           gone == IF Resyncs /\ cursor.uv = uv THEN {<<uv, x.uid>> : x \in {y \in expunged : y.mod > cursor.mod}} ELSE {}
           q == [t EXCEPT !.wanted = wanted, !.was = was, !.fresh = fresh, !.rows = rows, !.gone = gone]
<1>0. ServerTypes /\ StoreTypes /\ PassTypes /\ cursor \in Cursor /\ cursor.mod \in Nat
    BY CursorIs DEF TypeInv, StoreTypes
<1>1. Goto(e, q)
    <2>1. rows = IF Resyncs /\ cursor.uv = uv THEN Rows({m \in Present : mod[m] > cursor.mod}) ELSE {}
        BY DEF Rows
    <2> QED
        BY <2>1 DEF ListRemote
<1>2. t \in Pass /\ t.at = "listed"
    BY <1>0, StepIs DEF Stages
<1>3. ms \subseteq Present
    OBVIOUS
<1>4. rows \in SUBSET Row
    BY <1>0, <1>3, RowsIs
<1>5. wanted \in SUBSET Ref /\ was \in Cursor /\ fresh \in Cursor
    BY <1>0, AddressIs, FreshIs, NoCursorIs
<1>6. gone \in SUBSET Ref
    <2>1. uv \in 1..(MaxChanges + 1) /\ \A x \in expunged : x.uid \in 1..MaxUid
        BY <1>0 DEF ServerTypes
    <2> QED
        BY <2>1 DEF Ref
<1>7. Resyncs => cursor.mod # 0
    BY <1>0 DEF Resyncs, TrustedModseq
<1>8. \/ was = NoCursor /\ fresh = Fresh /\ gone = {} /\ wanted = {Address(m) : m \in Present}
      \/ /\ was = cursor /\ cursor.mod # 0 /\ wanted = {}
         /\ \/ fresh = NoCursor /\ gone = {}
            \/ fresh = Fresh /\ \A r \in gone : \E x \in expunged : r = <<uv, x.uid>>
    BY <1>7
<1> HIDE DEF t, ms, wanted, was, fresh, rows, gone
<1>9. q \in Pass
    BY <1>2, <1>4, <1>5, <1>6 DEF Pass
<1>10. /\ q.at = "listed" /\ q.wanted = wanted /\ q.was = was /\ q.fresh = fresh /\ q.rows = rows /\ q.gone = gone
    BY <1>2 DEF Pass
<1> HIDE DEF q
<1>11. PassTypes' /\ pass'[e] = q
    BY <1>0, <1>1, <1>9, GotoIs
<1>12. /\ pass'[e].at = "listed" /\ pass'[e].wanted = wanted /\ pass'[e].was = was /\ pass'[e].fresh = fresh
       /\ pass'[e].rows = Rows(ms) /\ pass'[e].gone = gone
    BY <1>10, <1>11 DEF rows
<1> QED
    BY <1>3, <1>8, <1>11, <1>12

LEMMA KeepGoneIs ==
    ASSUME TypeInv, NEW e \in Engines, KeepGone(e)
    PROVE  LET p == pass[e]
           IN  /\ Moves(e) /\ pass'[e].at = "idle" /\ StoreTypes' /\ p.at = "listed"
               /\ UNCHANGED <<through, unreadable>>
               /\ mapped' = {x \in mapped : x.ref \notin Vanished(p)}
               /\ \A x \in mapped' : x.msg \in held'
               /\ cursor' = IF p.was # NoCursor /\ p.fresh = NoCursor THEN cursor ELSE p.fresh
<1> DEFINE p == pass[e]
           left == {x \in mapped : x.ref \notin Vanished(p)}
<1>1. /\ p.at = "listed" /\ Goto(e, Idle) /\ mapped' = left /\ held' = held \ Dropped(left)
      /\ read' = Reads(mapped, p.rows) \ Dropped(left)
      /\ cursor' = IF p.was # NoCursor /\ p.fresh = NoCursor THEN cursor ELSE p.fresh
      /\ due' = due \ {"expunges"} /\ UNCHANGED <<through, unreadable, resting, faults>>
      /\ StoreTypes /\ PassTypes
    BY DEF KeepGone, At, TypeInv
<1>2. Moves(e) /\ pass'[e] = Idle
    BY <1>1, IdleMoves, IdleIs, GotoIs
<1>3. \A x \in left : x \in mapped /\ x.msg \in held /\ x.msg \notin Dropped(left)
    BY <1>1 DEF StoreTypes, Dropped
<1> HIDE DEF left
<1>4. mapped' \subseteq [ref : Ref, msg : held']
    <2>1. ASSUME NEW x \in left PROVE x \in [ref : Ref, msg : held']
        <3>1. x \in [ref : Ref, msg : held] /\ x.msg \in held'
            BY <1>1, <1>3 DEF StoreTypes
        <3> QED
            BY <3>1
    <2> QED
        BY <1>1, <2>1
<1>5. p.fresh \in Cursor
    BY <1>1 DEF PassTypes, Pass
<1>6. read' \subseteq held' /\ held' \subseteq Msgs
    <2>1. Reads(mapped, p.rows) \subseteq held
        BY <1>1, ReadsIs
    <2> QED
        BY <1>1, <2>1 DEF StoreTypes
<1>7. StoreTypes'
    BY <1>1, <1>4, <1>5, <1>6 DEF StoreTypes
<1> QED
    BY <1>1, <1>2, <1>3, <1>7, IdleIs DEF left

LEMMA InterruptedTypes ==
    ASSUME TypeInv, NEW e \in Engines, NEW p \in Pass, Interrupted(e, p) PROVE PassTypes'
<1>0. ServerTypes /\ StoreTypes /\ PassTypes /\ cursor \in Cursor /\ Fresh \in Cursor
    BY FreshIs DEF TypeInv, StoreTypes
<1>a. "ingest" \in Stages /\ "flagged" \in Stages /\ "listed" \in Stages
    BY DEF Stages
<1>1. ASSUME NEW q \in Pass, Goto(e, q) PROVE PassTypes'
    BY <1>0, <1>1, GotoIs
<1>2. ASSUME NEW stage \in Stages, Goto(e, [p EXCEPT !.at = stage]) PROVE PassTypes'
    <2>1. [p EXCEPT !.at = stage] \in Pass
        BY DEF Pass
    <2> QED
        BY <1>1, <1>2, <2>1
<1>3. ASSUME NEW ms, ms \subseteq Present, Goto(e, [p EXCEPT !.at = "ingest", !.rows = Rows(ms)]) PROVE PassTypes'
    <2>1. Rows(ms) \in SUBSET Row
        BY <1>0, <1>3, RowsIs
    <2>2. [p EXCEPT !.at = "ingest", !.rows = Rows(ms)] \in Pass
        BY <1>a, <2>1 DEF Pass
    <2> QED
        BY <1>1, <1>3, <2>2
<1>4. ASSUME NEW cut, Goto(e, [p EXCEPT !.wanted = @ \ cut]) PROVE PassTypes'
    <2> DEFINE w == p.wanted \ cut
    <2>1. w \in SUBSET Ref
        BY DEF Pass
    <2>2. Goto(e, [p EXCEPT !.wanted = w])
        BY <1>4
    <2> HIDE DEF w
    <2>3. [p EXCEPT !.wanted = w] \in Pass
        BY <2>1 DEF Pass
    <2> QED
        BY <1>1, <2>2, <2>3
<1>5. ASSUME NEW ms, ms \subseteq Present, Goto(e, [p EXCEPT !.at = "flagged", !.fresh = Fresh, !.rows = Rows(ms)])
      PROVE  PassTypes'
    <2>1. Rows(ms) \in SUBSET Row
        BY <1>0, <1>5, RowsIs
    <2>2. [p EXCEPT !.at = "flagged", !.fresh = Fresh, !.rows = Rows(ms)] \in Pass
        BY <1>0, <1>a, <2>1 DEF Pass
    <2> QED
        BY <1>1, <1>5, <2>2
<1>6. ASSUME NEW fresh \in {NoCursor, Fresh},
             Goto(e, [p EXCEPT !.at = "listed", !.fresh = IF Resyncs THEN NoCursor ELSE fresh,
                               !.was = IF Resyncs THEN cursor ELSE NoCursor])
      PROVE  PassTypes'
    <2> DEFINE f == IF Resyncs THEN NoCursor ELSE fresh
               w == IF Resyncs THEN cursor ELSE NoCursor
    <2>1. f \in Cursor /\ w \in Cursor
        BY <1>0, NoCursorIs
    <2>2. Goto(e, [p EXCEPT !.at = "listed", !.fresh = f, !.was = w])
        BY <1>6
    <2> HIDE DEF f, w
    <2>3. [p EXCEPT !.at = "listed", !.fresh = f, !.was = w] \in Pass
        BY <1>a, <2>1 DEF Pass
    <2> QED
        BY <1>1, <2>2, <2>3
<1>7. Listed(p.from.next) \subseteq Present
    BY DEF Listed
<1> QED
    BY <1>a, <1>2, <1>3, <1>4, <1>5, <1>6, <1>7 DEF Interrupted

LEMMA StoppedTypes == ASSUME TypeInv, NEW e \in Engines, Stopped(e) PROVE PassTypes' /\ StoreTypes'
<1>1. pass[e] \in Pass /\ 0 \in 0..Budget
    BY Consts DEF TypeInv, PassTypes
<1>2. [pass[e] EXCEPT !.left = 0] \in Pass
    BY <1>1 DEF Pass
<1>3. Interrupted(e, [pass[e] EXCEPT !.left = 0]) /\ Fault("Stop") /\ UNCHANGED <<store, due>>
    BY DEF Stopped
<1> QED
    BY <1>2, <1>3, InterruptedTypes, FaultIs, StoreStays

Acts(e) == Begin(e) \/ Proceed(e) \/ Garbled(e) \/ RequestFails(e) \/ CutShort(e)

LEMMA ActsStay ==
    ASSUME NEW e \in Engines, Acts(e) \/ Stopped(e) PROVE UNCHANGED <<server, changes>>
BY DEF Acts, Proceed, Begin, Select, List, Ingest, FetchHeader, AbsorbFlags, MarkHeld, Unfinished, Sweep, FetchFlags,
       KeepFlags, FlagsNotDue, ListRemote, KeepGone, ExpungesNotDue, Garbled, RequestFails, CutShort, Stopped

LEMMA ActsTypes == ASSUME TypeInv, NEW e \in Engines, Acts(e) PROVE PassTypes' /\ StoreTypes'
<1>1. CASE Begin(e) \/ Select(e) \/ List(e) \/ FetchFlags(e) \/ ListRemote(e)
    <2>1. UNCHANGED <<store, due>> /\ faults' \in 0..MaxFaults
        BY <1>1 DEF Begin, Select, List, FetchFlags, ListRemote, TypeInv, StoreTypes
    <2>2. PassTypes'
        BY <1>1, BeginIs, SelectIs, ListIs, FetchFlagsIs, ListRemoteIs
    <2> QED
        BY <2>1, <2>2, StoreStays
<1>2. CASE Ingest(e)
    BY <1>2, IngestIs
<1>3. CASE FetchHeader(e)
    BY <1>3, FetchHeaderIs
<1>4. CASE AbsorbFlags(e) \/ Garbled(e) \/ MarkHeld(e) \/ KeepFlags(e)
    BY <1>4, AbsorbFlagsIs, GarbledIs, MarkHeldIs, KeepFlagsIs
<1>5. CASE Unfinished(e) \/ Sweep(e) \/ FlagsNotDue(e) \/ ExpungesNotDue(e) \/ RequestFails(e) \/ CutShort(e)
    BY <1>5, MovesOn DEF Moves
<1>6. CASE KeepGone(e)
    BY <1>6, KeepGoneIs DEF Moves
<1> QED
    BY <1>1, <1>2, <1>3, <1>4, <1>5, <1>6 DEF Acts, Proceed

LEMMA TimeIs ==
    ASSUME TypeInv, NEW of \in Waits, TimePasses(of)
    PROVE  TypeInv' /\ UNCHANGED <<server, held, mapped, cursor, through, unreadable, pass>>
<1>1. UNCHANGED <<server, held, read, mapped, cursor, through, unreadable, pass, changes, faults>>
    BY DEF TimePasses
<1>2. resting' \subseteq unreadable /\ due' \subseteq Sweeps
    BY DEF TimePasses, TypeInv, StoreTypes
<1>3. StoreTypes' /\ PassTypes'
    BY <1>1, <1>2 DEF TypeInv, StoreTypes, PassTypes
<1> QED
    BY <1>1, <1>3, ServerStays DEF TypeInv

LEMMA InitTypes == Init => TypeInv
<1> SUFFICES ASSUME Init PROVE TypeInv
    OBVIOUS
<1> DEFINE n0 == Cardinality(Old)
<1>1. /\ condstore \in Offers /\ uv = 1 /\ next = n0 + 1 /\ uid \in [Msgs -> 0..n0]
      /\ \A m \in Msgs : uid[m] # 0 <=> m \in Old
      /\ \A m, n \in Old : uid[m] = uid[n] => m = n
      /\ seen = {} /\ mod = [m \in Msgs |-> 1] /\ high = 1 /\ expunged = {} /\ changes = 0
    BY DEF Init
<1>2. n0 \in Nat /\ n0 <= Cardinality(Msgs) /\ Old \subseteq Msgs
    BY SyncAssumption, Counts
<1> HIDE DEF n0
<1>3. /\ 0 \in 0..MaxChanges /\ uv \in 1..(MaxChanges + 1) /\ next \in 1..(MaxUid + 1) /\ 0..n0 \subseteq 0..MaxUid
      /\ next <= Cardinality(Msgs) + changes + 1 /\ uv <= changes + 1 /\ 0 \in 0..MaxFaults
    BY <1>1, <1>2, Consts
<1>4. ServerTypes
    BY <1>1, <1>3 DEF ServerTypes
<1>5. Present = Old
    BY <1>1, <1>2 DEF Present
<1>6. \A m \in Msgs : uid[m] < next
    BY <1>1, <1>2
<1>7. Numbers
    BY <1>1, <1>3, <1>5, <1>6 DEF Numbers
<1>8. /\ held = {} /\ read = {} /\ mapped = {} /\ cursor = NoCursor /\ through = NoCursor
      /\ unreadable = {} /\ resting = {} /\ due = Sweeps /\ pass = [e \in Engines |-> Idle] /\ faults = 0
    BY DEF Init
<1>9. StoreTypes /\ PassTypes
    BY <1>3, <1>8, NoCursorIs, IdleIs DEF StoreTypes, PassTypes
<1> QED
    BY <1>4, <1>7, <1>9 DEF TypeInv

LEMMA NextTypes == TypeInv /\ [Next]_vars => TypeInv'
<1> SUFFICES ASSUME TypeInv, [Next]_vars PROVE TypeInv'
    OBVIOUS
<1>1. CASE Outside
    BY <1>1, OutsideIs
<1>2. ASSUME NEW of \in Waits, TimePasses(of) PROVE TypeInv'
    BY <1>2, TimeIs
<1>3. ASSUME NEW e \in Engines, Acts(e) \/ Stopped(e) PROVE TypeInv'
    BY <1>3, ActsStay, ActsTypes, StoppedTypes, ServerStays DEF TypeInv
<1>4. CASE UNCHANGED vars
    <2>1. UNCHANGED <<server, changes, store, due, pass, faults>> /\ faults' \in 0..MaxFaults
        BY <1>4 DEF vars, TypeInv, StoreTypes
    <2>2. PassTypes'
        BY <2>1 DEF TypeInv, PassTypes
    <2> QED
        BY <2>1, <2>2, ServerStays, StoreStays DEF TypeInv
<1> QED
    BY <1>1, <1>2, <1>3, <1>4 DEF Next, Acts

LEMMA TypesHold == Spec => []TypeInv
BY InitTypes, NextTypes, PTL DEF Spec

\* The server, the store and every engine keep their types, whoever passes over the mailbox and
\* whatever is cut short: what is read is held, and every address names a message that is held
\* (write_ingest_chunk, map_remote, mark_unreadable).
THEOREM SyncTypes == Spec => []TypeOK
<1>1. TypeInv => TypeOK
    BY DEF TypeInv, ServerTypes, StoreTypes, PassTypes, Pass, TypeOK
<1> QED
    BY <1>1, TypesHold, PTL

-----------------------------------------------------------------------------
(* One engine, whose requests are answered in full or fail.                 *)

OneEngine == \A e, o \in Engines : e = o
Unstopped == "Stop" \notin Faults

\* Addresses and cursors the server may have given so far.
Given(r) == r[1] < uv \/ (r[1] = uv /\ r[2] < next)
Reached(q) == q.uv <= uv /\ (q.uv = uv => q.next <= next)

\* A message the store need not fetch: it is held at its address, or its header cannot be read.
Known(m) == Address(m) \in unreadable \/ [ref |-> Address(m), msg |-> m] \in mapped

\* The mark is not of a later numbering than the cursor, and an address of the mailbox as it is
\* numbered now names the message the server has at it.
MarkInv == Reached(cursor) /\ Reached(through) /\ through.uv <= cursor.uv
NameInv ==
    /\ \A x \in mapped : Given(x.ref)
    /\ \A x \in mapped, m \in Present : x.ref = Address(m) => x.msg = m

\* What a pass carries was said by the server, ...
CarryInv(p) == (\A r \in p.wanted : Given(r)) /\ (\A r \in p.rows : Given(r.ref)) /\ (\A r \in p.gone : Given(r))
\* ... its cursor is not behind the store's, which no other moves meanwhile, ...
FromInv(p) ==
    /\ p.at \in {"survey", "list", "ingest"} => p.was = cursor
    /\ p.at \in {"survey", "list"} /\ p.from # NoCursor =>
          p.from = through /\ p.from.uv # 0 /\ ~Renumbered(cursor, p.from)
    /\ p.at = "list" => p.fresh.uv = uv
    /\ p.at \in {"list", "ingest", "flagged"} => Reached(p.fresh) /\ cursor.uv <= p.fresh.uv /\ p.fresh.uv # 0
    /\ p.at = "listed" =>
          IF p.fresh = NoCursor THEN p.was # NoCursor ELSE Reached(p.fresh) /\ cursor.uv <= p.fresh.uv
\* ... a survey lists whatever is not known, and what it lists is wanted until it is known, ...
ListInv(p) ==
    p.at = "ingest" /\ p.fresh.uv = uv => \A m \in Present : uid[m] < p.fresh.next =>
        Address(m) \in {r.ref : r \in p.rows} \/ (Known(m) /\ ~Renumbered(p.was, p.fresh))
WantInv(p) ==
    p.at \in {"headers", "said"} /\ cursor.uv = uv => \A m \in Present : uid[m] < cursor.next =>
        Known(m) \/ Address(m) \in p.wanted
\* ... and nothing the server has is about to be dropped.
GoneInv(p) ==
    p.at = "listed" => \A m \in Present :
        /\ Address(m) \notin p.gone
        /\ Address(m) \in Held /\ p.was = NoCursor => Address(m) \in p.wanted

StoreInv == MarkInv /\ NameInv /\ ThroughHeld
PassInv(p) == CarryInv(p) /\ FromInv(p) /\ ListInv(p) /\ WantInv(p) /\ GoneInv(p)
SafeInv == TypeInv /\ StoreInv /\ \A e \in Engines : PassInv(pass[e])

\* The server's numbers only go up.
LEMMA LaterIs ==
    ASSUME TypeInv, TypeInv', Later
    PROVE  /\ \A r \in Ref : Given(r) => Given(r)'
           /\ \A q \in Cursor : Reached(q) => Reached(q)'
           /\ \A m \in Present' :
                 \/ m \in Present /\ uid'[m] = uid[m] /\ Address(m)' = Address(m) /\ uv' = uv
                 \/ /\ \A r \in Ref : Given(r) => r # Address(m)'
                    /\ \A q \in Cursor : Reached(q) /\ q.uv = uv' => ~(uid'[m] < q.next)
<1>0. uv \in Nat /\ uv' \in Nat /\ next \in Nat /\ next' \in Nat
    BY Consts DEF TypeInv, ServerTypes
<1>1. \A r \in Ref : r[1] \in Nat /\ r[2] \in Nat
    BY Consts DEF Ref
<1>2. \A q \in Cursor : q.uv \in Nat /\ q.next \in Nat
    BY CursorIs
<1>3. \A m \in Present' : uid'[m] \in Nat /\ Address(m)'[1] = uv' /\ Address(m)'[2] = uid'[m]
    BY Consts DEF TypeInv, ServerTypes, Present, Address
<1>4. CASE /\ uv' = uv /\ next' >= next
           /\ \A m \in Present' : (m \in Present /\ uid'[m] = uid[m]) \/ uid'[m] >= next
    <2>1. \A r \in Ref : Given(r) => Given(r)'
        BY <1>0, <1>1, <1>4 DEF Given
    <2>2. \A q \in Cursor : Reached(q) => Reached(q)'
        BY <1>0, <1>2, <1>4 DEF Reached
    <2>3. ASSUME NEW m \in Present', uid'[m] >= next
          PROVE  /\ \A r \in Ref : Given(r) => r # Address(m)'
                 /\ \A q \in Cursor : Reached(q) /\ q.uv = uv' => ~(uid'[m] < q.next)
        BY <1>0, <1>1, <1>2, <1>3, <1>4, <2>3 DEF Given, Reached
    <2>4. ASSUME NEW m \in Present', m \in Present, uid'[m] = uid[m] PROVE Address(m)' = Address(m)
        BY <1>4, <2>4 DEF Address
    <2> QED
        BY <1>4, <2>1, <2>2, <2>3, <2>4
<1>5. CASE uv' > uv
    <2>1. \A r \in Ref : Given(r) => Given(r)'
        BY <1>0, <1>1, <1>5 DEF Given
    <2>2. \A q \in Cursor : Reached(q) => Reached(q)' /\ q.uv # uv'
        BY <1>0, <1>2, <1>5 DEF Reached
    <2>3. ASSUME NEW m \in Present', NEW r \in Ref, Given(r) PROVE r # Address(m)'
        BY <1>0, <1>1, <1>3, <1>5, <2>3 DEF Given
    <2> QED
        BY <2>1, <2>2, <2>3
<1> QED
    BY <1>4, <1>5 DEF Later

LEMMA OutsideSafe == ASSUME SafeInv, Outside PROVE SafeInv'
<1>0. TypeInv /\ TypeInv' /\ Later /\ UNCHANGED <<store, due, pass, faults>> /\ StoreInv
    BY OutsideIs DEF SafeInv
<1>1. UNCHANGED <<held, read, mapped, cursor, through, unreadable, resting, pass>>
    BY <1>0 DEF store
<1>2. /\ \A r \in Ref : Given(r) => Given(r)'
      /\ \A q \in Cursor : Reached(q) => Reached(q)'
      /\ \A m \in Present' :
            \/ m \in Present /\ uid'[m] = uid[m] /\ Address(m)' = Address(m) /\ uv' = uv
            \/ /\ \A r \in Ref : Given(r) => r # Address(m)'
               /\ \A q \in Cursor : Reached(q) /\ q.uv = uv' => ~(uid'[m] < q.next)
    BY <1>0, LaterIs
<1>3. cursor \in Cursor /\ through \in Cursor /\ (\A x \in mapped : x.ref \in Ref)
    BY <1>0 DEF TypeInv, StoreTypes
<1>4. MarkInv'
    BY <1>0, <1>1, <1>2, <1>3 DEF StoreInv, MarkInv, Reached
<1>5. NameInv'
    <2>1. \A x \in mapped : Given(x.ref) /\ Given(x.ref)'
        BY <1>0, <1>1, <1>2, <1>3 DEF StoreInv, NameInv, Given
    <2>2. \A x \in mapped, m \in Present' : x.ref = Address(m)' => x.msg = m
        BY <1>0, <1>2, <1>3, <2>1 DEF StoreInv, NameInv
    <2> QED
        BY <1>1, <2>1, <2>2 DEF NameInv, Given
<1>6. ASSUME NEW m \in Present', m \in Present, Address(m)' = Address(m), Known(m) PROVE Known(m)'
    BY <1>1, <1>6 DEF Known
<1>7. ThroughHeld'
    <2>1. SUFFICES ASSUME through'.uv = uv', NEW m \in Present', uid'[m] < through'.next PROVE Known(m)'
        BY DEF ThroughHeld, Known
    <2>2. Reached(through) /\ through' = through
        BY <1>0, <1>1 DEF StoreInv, MarkInv
    <2>3. m \in Present /\ uid'[m] = uid[m] /\ Address(m)' = Address(m) /\ uv' = uv
        BY <1>2, <1>3, <2>1, <2>2
    <2>4. Known(m)
        BY <1>0, <2>1, <2>2, <2>3 DEF StoreInv, ThroughHeld, Known
    <2> QED
        BY <1>6, <2>3, <2>4
<1>8. ASSUME NEW e \in Engines PROVE PassInv(pass[e])'
    <2> DEFINE p == pass[e]
    <2>0. PassInv(p) /\ p \in Pass /\ pass'[e] = p
        BY <1>0, <1>1 DEF SafeInv, TypeInv, PassTypes
    <2>1. /\ p.fresh \in Cursor /\ p.wanted \in SUBSET Ref /\ p.gone \in SUBSET Ref /\ \A r \in p.rows : r.ref \in Ref
        BY <2>0 DEF Pass, Row
    <2>2. p.at = "list" => uv' = uv
        BY <1>0, <1>2, <2>0 DEF Later
    <2> HIDE DEF p
    <2>3. CarryInv(pass[e])'
        BY <1>2, <2>0, <2>1 DEF PassInv, CarryInv, Given
    <2>4. FromInv(pass[e])'
        BY <1>1, <1>2, <2>0, <2>1, <2>2 DEF PassInv, FromInv, Reached, Renumbered
    <2>5. ListInv(pass[e])'
        <3>1. SUFFICES ASSUME p.at = "ingest", p.fresh.uv = uv', NEW m \in Present', uid'[m] < p.fresh.next
                       PROVE  Address(m)' \in {r.ref : r \in p.rows} \/ (Known(m)' /\ ~Renumbered(p.was, p.fresh))
            BY <2>0 DEF ListInv, Renumbered
        <3>2. m \in Present /\ uid'[m] = uid[m] /\ Address(m)' = Address(m) /\ uv' = uv
            BY <1>2, <2>0, <2>1, <3>1 DEF PassInv, FromInv
        <3> QED
            BY <1>6, <2>0, <3>1, <3>2 DEF PassInv, ListInv
    <2>6. WantInv(pass[e])'
        <3>1. SUFFICES ASSUME p.at \in {"headers", "said"}, cursor.uv = uv', NEW m \in Present', uid'[m] < cursor.next
                       PROVE  Known(m)' \/ Address(m)' \in p.wanted
            BY <1>1, <2>0 DEF WantInv
        <3>2. m \in Present /\ uid'[m] = uid[m] /\ Address(m)' = Address(m) /\ uv' = uv
            BY <1>0, <1>2, <1>3, <3>1 DEF StoreInv, MarkInv
        <3> QED
            BY <1>6, <2>0, <3>1, <3>2 DEF PassInv, WantInv
    <2>7. GoneInv(pass[e])'
        <3>1. Held' = Held /\ \A r \in Held : r \in Ref /\ Given(r)
            BY <1>0, <1>1, <1>3 DEF Held, StoreInv, NameInv
        <3>2. \A r \in p.gone : Given(r)
            BY <2>0 DEF PassInv, CarryInv
        <3>3. ASSUME p.at = "listed", NEW m \in Present'
              PROVE  /\ Address(m)' \notin p.gone
                     /\ Address(m)' \in Held /\ p.was = NoCursor => Address(m)' \in p.wanted
            BY <1>2, <2>0, <2>1, <3>1, <3>2, <3>3 DEF PassInv, GoneInv
        <3> QED
            BY <2>0, <3>1, <3>3 DEF GoneInv
    <2> QED
        BY <2>3, <2>4, <2>5, <2>6, <2>7 DEF PassInv
<1> QED
    BY <1>0, <1>4, <1>5, <1>7, <1>8 DEF SafeInv, StoreInv

LEMMA InitSafe == Init => SafeInv
<1> SUFFICES ASSUME Init PROVE SafeInv
    OBVIOUS
<1>1. TypeInv
    BY InitTypes
<1>2. uv = 1 /\ mapped = {} /\ cursor = NoCursor /\ through = NoCursor /\ pass = [e \in Engines |-> Idle]
    BY DEF Init
<1>3. StoreInv
    BY <1>2, NoCursorIs DEF StoreInv, MarkInv, NameInv, ThroughHeld, Reached
<1>4. ASSUME NEW e \in Engines PROVE PassInv(pass[e])
    <2>1. pass[e] = Idle
        BY <1>2
    <2>2. PassInv(Idle)
        BY IdleIs DEF PassInv, CarryInv, FromInv, ListInv, WantInv, GoneInv
    <2> QED
        BY <2>1, <2>2
<1> QED
    BY <1>1, <1>3, <1>4 DEF SafeInv

\* An engine's step leaves the server as it is, ...
LEMMA ServerSame ==
    ASSUME UNCHANGED server
    PROVE  /\ uv' = uv /\ uid' = uid /\ next' = next /\ Present' = Present
           /\ \A r : Given(r)' <=> Given(r)
           /\ \A q : Reached(q)' <=> Reached(q)
           /\ \A m : Address(m)' = Address(m)
<1>1. uv' = uv /\ uid' = uid /\ next' = next
    BY DEF server
<1> QED
    BY <1>1 DEF Present, Given, Reached, Address

\* ... and there is no other engine.
LEMMA EngineSafe ==
    ASSUME OneEngine, NEW e \in Engines, TypeInv', StoreInv', PassInv(pass[e])' PROVE SafeInv'
<1>1. \A o \in Engines : o = e
    BY DEF OneEngine
<1> QED
    BY <1>1 DEF SafeInv

LEMMA StoreSafe ==
    ASSUME StoreInv, UNCHANGED <<server, mapped, cursor, through, unreadable>> PROVE StoreInv'
<1>1. uv' = uv /\ uid' = uid /\ next' = next /\ Present' = Present
    BY ServerSame
<1> QED
    BY <1>1 DEF StoreInv, MarkInv, NameInv, ThroughHeld, Reached, Given, Address

\* A pass between two requests carries nothing that matters.
LEMMA MovesSafe ==
    ASSUME NEW e \in Engines, PassInv(pass[e]), UNCHANGED server, Moves(e) PROVE PassInv(pass[e])'
<1> DEFINE p == pass[e]
           q == pass'[e]
<1>1. q.wanted \subseteq p.wanted /\ q.rows \subseteq p.rows /\ q.gone \subseteq p.gone
    BY DEF Moves
<1>2. q.at \in {"sweep", "flags", "expunges", "idle"}
    BY DEF Moves
<1>3. CarryInv(p)
    BY DEF PassInv
<1> HIDE DEF p
<1>4. CarryInv(pass[e])'
    BY <1>1, <1>3, ServerSame DEF CarryInv
<1>5. FromInv(pass[e])' /\ ListInv(pass[e])' /\ WantInv(pass[e])' /\ GoneInv(pass[e])'
    BY <1>2 DEF FromInv, ListInv, WantInv, GoneInv
<1> QED
    BY <1>4, <1>5 DEF PassInv

LEMMA BeginSafe == ASSUME SafeInv, NEW e \in Engines, Begin(e) PROVE StoreInv' /\ PassInv(pass[e])'
<1> DEFINE q == pass'[e]
<1>1. TypeInv /\ StoreInv /\ UNCHANGED <<server, store>>
    BY DEF SafeInv, Begin
<1>2. /\ q.at = "survey" /\ q.was = cursor /\ q.rows = {} /\ q.wanted = {} /\ q.gone = {}
      /\ q.from # NoCursor => q.from = through /\ Resumes(cursor, through, "expunges" \in due)
    BY <1>1, BeginIs
<1>3. UNCHANGED <<mapped, cursor, through, unreadable>>
    BY <1>1 DEF store
<1>4. q.from # NoCursor => q.from = through /\ q.from.uv # 0 /\ ~Renumbered(cursor, q.from)
    BY <1>2 DEF Resumes
<1>5. StoreInv'
    BY <1>1, <1>3, StoreSafe
<1>6. CarryInv(pass[e])' /\ ListInv(pass[e])' /\ WantInv(pass[e])' /\ GoneInv(pass[e])'
    BY <1>2 DEF CarryInv, ListInv, WantInv, GoneInv
<1>7. FromInv(pass[e])'
    BY <1>2, <1>3, <1>4 DEF FromInv, Renumbered
<1> QED
    BY <1>5, <1>6, <1>7 DEF PassInv

LEMMA SelectSafe == ASSUME SafeInv, NEW e \in Engines, Select(e) PROVE StoreInv' /\ PassInv(pass[e])'
<1> DEFINE p == pass[e]
           q == pass'[e]
<1>1. TypeInv /\ StoreInv /\ PassInv(p) /\ UNCHANGED <<server, store>>
    BY DEF SafeInv, Select
<1>2. /\ p.at = "survey" /\ q.at = "list" /\ q.fresh = Fresh /\ q.from = p.from /\ q.was = p.was
      /\ q.rows = p.rows /\ q.wanted = p.wanted /\ q.gone = p.gone
    BY <1>1, SelectIs
<1>3. UNCHANGED <<mapped, cursor, through, unreadable>> /\ cursor \in Cursor
    BY <1>1 DEF store, TypeInv, StoreTypes
<1>4. Fresh.uv = uv /\ uv # 0 /\ Reached(Fresh) /\ cursor.uv <= Fresh.uv
    <2>1. Fresh.uv = uv /\ Fresh.next = next /\ uv \in Nat /\ uv # 0 /\ next \in Nat
        BY <1>1, FreshIs, Consts DEF TypeInv, ServerTypes
    <2> QED
        BY <1>1, <2>1 DEF StoreInv, MarkInv, Reached
<1> HIDE DEF p
<1>5. StoreInv'
    BY <1>1, <1>3, StoreSafe
<1>6. CarryInv(pass[e])'
    BY <1>1, <1>2, ServerSame DEF PassInv, CarryInv
<1>7. ListInv(pass[e])' /\ WantInv(pass[e])' /\ GoneInv(pass[e])'
    BY <1>2 DEF ListInv, WantInv, GoneInv
<1>8. FromInv(pass[e])'
    BY <1>1, <1>2, <1>3, <1>4, ServerSame DEF PassInv, FromInv, Renumbered
<1> QED
    BY <1>5, <1>6, <1>7, <1>8 DEF PassInv

\* Whatever the server has now, it has given an address.
LEMMA LiveGiven == ASSUME TypeInv, NEW m \in Present PROVE Given(Address(m))
BY AddressIs DEF TypeInv, Numbers, Given

LEMMA ListSafe == ASSUME SafeInv, NEW e \in Engines, List(e) PROVE StoreInv' /\ PassInv(pass[e])'
<1> DEFINE p == pass[e]
           q == pass'[e]
<1>1. TypeInv /\ StoreInv /\ PassInv(p) /\ UNCHANGED <<server, store>>
    BY DEF SafeInv, List
<1>2. /\ p.at = "list" /\ q.was = p.was /\ q.wanted = p.wanted /\ q.gone = p.gone
      /\ \/ q.at = "survey" /\ q.from = NoCursor /\ q.rows = p.rows
         \/ /\ q.at = "ingest" /\ q.from = p.from /\ q.fresh = p.fresh /\ ~Redo(p.from, p.fresh)
            /\ q.rows = Rows(Listed(p.from.next))
    BY <1>1, ListIs
<1>3. UNCHANGED <<mapped, cursor, through, unreadable>>
    BY <1>1 DEF store
<1>4. StoreInv'
    BY <1>1, <1>3, StoreSafe
<1>5. CarryInv(p) /\ FromInv(p) /\ p.was = cursor /\ p.fresh.uv = uv
    BY <1>1, <1>2 DEF PassInv, FromInv
<1>6. p \in Pass /\ p.from \in Cursor /\ p.fresh \in Cursor /\ cursor \in Cursor
    BY <1>1 DEF TypeInv, PassTypes, StoreTypes, Pass
<1> HIDE DEF p
<1>7. WantInv(pass[e])' /\ GoneInv(pass[e])'
    BY <1>2 DEF WantInv, GoneInv
<1>8. CASE q.at = "survey" /\ q.from = NoCursor /\ q.rows = p.rows
    <2>1. CarryInv(pass[e])'
        BY <1>1, <1>2, <1>5, <1>8, ServerSame DEF CarryInv
    <2>2. FromInv(pass[e])'
        BY <1>2, <1>3, <1>5, <1>8, NoCursorIs DEF FromInv
    <2>3. ListInv(pass[e])'
        BY <1>8 DEF ListInv
    <2> QED
        BY <1>4, <1>7, <2>1, <2>2, <2>3 DEF PassInv
<1>9. CASE /\ q.at = "ingest" /\ q.from = p.from /\ q.fresh = p.fresh /\ ~Redo(p.from, p.fresh)
           /\ q.rows = Rows(Listed(p.from.next))
    <2> DEFINE ms == Listed(p.from.next)
    <2>1. ms \subseteq Present /\ \A m \in Present : uid[m] >= p.from.next => m \in ms
        BY DEF Listed
    <2> HIDE DEF ms
    <2>2. /\ \A r \in q.rows : \E m \in ms : r.ref = Address(m)
          /\ \A m \in ms : Address(m) \in {r.ref : r \in q.rows}
        BY <1>1, <1>9, <2>1, RowsIs DEF TypeInv, ms
    <2>3. CarryInv(pass[e])'
        <3>1. \A r \in q.rows : Given(r.ref)
            BY <1>1, <2>1, <2>2, LiveGiven
        <3> QED
            BY <1>1, <1>2, <1>5, <3>1, ServerSame DEF CarryInv
    <2>4. FromInv(pass[e])'
        BY <1>1, <1>2, <1>3, <1>5, <1>9, ServerSame DEF FromInv
    <2>5. ASSUME NEW m \in Present, Address(m) \notin {r.ref : r \in q.rows}
          PROVE  Known(m) /\ ~Renumbered(q.was, q.fresh)
        <3>1. uid[m] \in Nat /\ uv # 0 /\ p.from.next \in Nat
            BY <1>1, <1>6, AddressIs, CursorIs, Consts DEF TypeInv, ServerTypes
        <3>2. ~(uid[m] >= p.from.next)
            BY <2>1, <2>2, <2>5
        <3>3. p.from # NoCursor
            BY <3>1, <3>2, NoCursorIs
        <3>4. p.from = through /\ p.from.uv # 0 /\ ~Renumbered(cursor, p.from)
            BY <1>2, <1>5, <3>3 DEF FromInv
        <3>5. p.from.uv = uv
            BY <1>5, <1>9, <3>1, <3>4 DEF Redo, Renumbered
        <3>6. Known(m)
            BY <1>1, <3>1, <3>2, <3>4, <3>5 DEF StoreInv, ThroughHeld, Known
        <3>7. ~Renumbered(q.was, q.fresh)
            BY <1>2, <1>5, <1>9, <3>4, <3>5 DEF Renumbered
        <3> QED
            BY <3>6, <3>7
    <2>6. \A m \in Present : Known(m) => Known(m)'
        BY <1>1, <1>3, ServerSame DEF Known
    <2>7. ListInv(pass[e])'
        BY <1>1, <2>5, <2>6, ServerSame DEF ListInv, Renumbered
    <2> QED
        BY <1>4, <1>7, <2>3, <2>4, <2>7 DEF PassInv
<1> QED
    BY <1>2, <1>8, <1>9

LEMMA IngestSafe == ASSUME SafeInv, NEW e \in Engines, Ingest(e) PROVE StoreInv' /\ PassInv(pass[e])'
<1> DEFINE p == pass[e]
           q == pass'[e]
           listed == {r.ref : r \in p.rows}
           refs == {x.ref : x \in mapped'}
<1>1. TypeInv /\ StoreInv /\ PassInv(p) /\ UNCHANGED server
    BY DEF SafeInv, Ingest
<1>2. /\ p.at = "ingest" /\ q.at = "headers" /\ q.rows = {} /\ q.gone = p.gone
      /\ UNCHANGED <<held, through, unreadable>>
      /\ \/ p.fresh = p.was /\ UNCHANGED <<mapped, cursor>>
         \/ mapped' = (IF Renumbered(p.was, p.fresh) THEN {} ELSE mapped) /\ cursor' = p.fresh
      /\ IF listed = {} THEN q.wanted \subseteq refs ELSE q.wanted = listed \ (refs \cup resting)
    BY <1>1, IngestIs
<1>3. CarryInv(p) /\ FromInv(p) /\ ListInv(p) /\ p.was = cursor
    BY <1>1, <1>2 DEF PassInv, FromInv
<1>4. Reached(p.fresh) /\ cursor.uv <= p.fresh.uv /\ p.fresh.uv # 0
    BY <1>2, <1>3 DEF FromInv
<1>5. cursor' = p.fresh /\ mapped' = IF Renumbered(cursor, p.fresh) THEN {} ELSE mapped
    BY <1>2, <1>3 DEF Renumbered
<1>6. /\ cursor.uv \in Nat /\ p.fresh.uv \in Nat /\ through.uv \in Nat /\ uv \in Nat /\ mapped' \subseteq mapped
      /\ resting \subseteq unreadable /\ \A x \in mapped : x = [ref |-> x.ref, msg |-> x.msg]
    <2>1. p \in Pass
        BY <1>1 DEF TypeInv, PassTypes
    <2>2. p.fresh \in Cursor
        BY <2>1 DEF Pass
    <2> QED
        BY <1>1, <1>5, <2>2, CursorIs, Consts DEF TypeInv, StoreTypes, ServerTypes
<1>7. (\A r \in p.gone : Given(r)) /\ (\A r \in listed : Given(r)) /\ \A r \in refs : Given(r)
    BY <1>1, <1>3, <1>6 DEF CarryInv, StoreInv, NameInv
<1>8. ASSUME NEW m \in Present, Address(m) \in listed, Address(m) \notin q.wanted PROVE Known(m)'
    <2>1. Address(m) \in refs \cup resting
        BY <1>2, <1>8
    <2>2. CASE Address(m) \in resting
        BY <1>1, <1>2, <1>6, <2>2, ServerSame DEF Known
    <2>3. CASE Address(m) \in refs
        <3>1. PICK x \in mapped' : x.ref = Address(m)
            BY <2>3
        <3>2. x.msg = m /\ x = [ref |-> Address(m), msg |-> m]
            BY <1>1, <1>6, <3>1 DEF StoreInv, NameInv
        <3> QED
            BY <1>1, <3>1, <3>2, ServerSame DEF Known
    <2> QED
        BY <2>1, <2>2, <2>3
<1>9. ~Renumbered(cursor, p.fresh) => \A m \in Present : Known(m) => Known(m)'
    BY <1>1, <1>2, <1>5, ServerSame DEF Known
<1> HIDE DEF p, q, listed, refs
<1>10. q = pass'[e]
    BY DEF q
<1>11. StoreInv'
    <2>1. MarkInv'
        BY <1>1, <1>2, <1>4, <1>5, <1>6, ServerSame DEF StoreInv, MarkInv, Reached
    <2>2. NameInv'
        BY <1>1, <1>6, ServerSame DEF StoreInv, NameInv
    <2>3. through.uv = uv => ~Renumbered(cursor, p.fresh)
        BY <1>1, <1>4, <1>6 DEF StoreInv, MarkInv, Reached, Renumbered
    <2>4. ThroughHeld'
        BY <1>1, <1>2, <1>9, <2>3, ServerSame DEF StoreInv, ThroughHeld, Known
    <2> QED
        BY <2>1, <2>2, <2>4 DEF StoreInv
<1>12. CarryInv(pass[e])'
    BY <1>1, <1>2, <1>7, <1>10, ServerSame DEF CarryInv
<1>13. FromInv(pass[e])' /\ ListInv(pass[e])' /\ GoneInv(pass[e])'
    BY <1>2, <1>10 DEF FromInv, ListInv, GoneInv
<1>14. WantInv(pass[e])'
    <2>1. SUFFICES ASSUME cursor'.uv = uv, NEW m \in Present, uid[m] < cursor'.next
                   PROVE  Known(m)' \/ Address(m) \in q.wanted
        BY <1>1, <1>10, ServerSame DEF WantInv
    <2>2. Address(m) \in listed \/ (Known(m) /\ ~Renumbered(cursor, p.fresh))
        BY <1>2, <1>3, <1>5, <2>1 DEF ListInv, listed
    <2> QED
        BY <1>8, <1>9, <2>2
<1> QED
    BY <1>11, <1>12, <1>13, <1>14 DEF PassInv

\* While headers are fetched the mark and the cursor stay, and what is known stays known.
LEMMA HeadersSafe ==
    ASSUME SafeInv, NEW e \in Engines, UNCHANGED <<server, cursor, through>>,
           pass[e].at \in {"headers", "said"}, pass'[e].at \in {"headers", "said"},
           pass'[e].wanted \subseteq pass[e].wanted, pass'[e].gone = pass[e].gone,
           \A r \in pass'[e].rows : Given(r.ref), NameInv',
           \A m \in Present : Known(m) => Known(m)',
           \A m \in Present : Address(m) \in pass[e].wanted => Known(m)' \/ Address(m) \in pass'[e].wanted
    PROVE  StoreInv' /\ PassInv(pass[e])'
<1> DEFINE p == pass[e]
           q == pass'[e]
<1>1. StoreInv /\ CarryInv(p) /\ WantInv(p)
    BY DEF SafeInv, PassInv
<1>2. MarkInv'
    BY <1>1, ServerSame DEF StoreInv, MarkInv, Reached
<1>3. ThroughHeld'
    BY <1>1, ServerSame DEF StoreInv, ThroughHeld, Known
<1>4. CarryInv(pass[e])'
    BY <1>1, ServerSame DEF CarryInv
<1>5. FromInv(pass[e])' /\ ListInv(pass[e])' /\ GoneInv(pass[e])'
    BY DEF FromInv, ListInv, GoneInv
<1>6. WantInv(pass[e])'
    BY <1>1, ServerSame DEF WantInv
<1> QED
    BY <1>2, <1>3, <1>4, <1>5, <1>6 DEF StoreInv, PassInv

LEMMA FetchHeaderSafe == ASSUME SafeInv, NEW e \in Engines, FetchHeader(e) PROVE StoreInv' /\ PassInv(pass[e])'
<1> DEFINE p == pass[e]
           q == pass'[e]
<1>1. TypeInv /\ StoreInv /\ PassInv(p) /\ UNCHANGED server
    <2>1. Acts(e)
        BY DEF Acts, Proceed
    <2> QED
        BY <2>1, ActsStay DEF SafeInv
<1>2. /\ p.at = "headers" /\ q.at \in {"headers", "said"} /\ q.gone = p.gone
      /\ UNCHANGED <<cursor, through, unreadable>>
    BY <1>1, FetchHeaderIs
<1>3. PICK r \in p.wanted :
        /\ q.wanted = p.wanted \ {r}
        /\ \/ q.rows = p.rows /\ mapped' = mapped /\ \A m \in Present : uid[m] # r[2]
           \/ \E m \in Present : /\ uid[m] = r[2] /\ mapped' = Map(r, m)
                                 /\ q.rows = {[ref |-> r, seen |-> m \in seen]}
    BY <1>1, FetchHeaderIs
<1>4. CarryInv(p) /\ Given(r) /\ NameInv
    BY <1>1 DEF PassInv, CarryInv, StoreInv
<1>5. \A m \in Present : Address(m)[2] = uid[m]
    BY <1>1, AddressIs DEF TypeInv
<1>6. CASE q.rows = p.rows /\ mapped' = mapped /\ \A m \in Present : uid[m] # r[2]
    <2>1. \A m \in Present : Known(m) => Known(m)'
        BY <1>1, <1>2, <1>6, ServerSame DEF Known
    <2>2. NameInv'
        BY <1>1, <1>4, <1>6, ServerSame DEF NameInv
    <2>3. \A m \in Present : Address(m) \in p.wanted => Address(m) \in q.wanted
        BY <1>3, <1>5, <1>6
    <2>4. \A x \in q.rows : Given(x.ref)
        BY <1>4, <1>6 DEF CarryInv
    <2> QED
        BY <1>1, <1>2, <1>3, <2>1, <2>2, <2>3, <2>4, HeadersSafe
<1>7. ASSUME NEW n \in Present, uid[n] = r[2], mapped' = Map(r, n), q.rows = {[ref |-> r, seen |-> n \in seen]}
      PROVE  StoreInv' /\ PassInv(pass[e])'
    <2>1. \A m \in Present : Address(m) = r => m = n
        BY <1>1, <1>5, <1>7 DEF TypeInv, Numbers
    <2>2. mapped' = {x \in mapped : x.ref # r} \cup {[ref |-> r, msg |-> n]}
        BY <1>7 DEF Map
    <2>3. ASSUME NEW m \in Present, Address(m) = r PROVE Known(m)'
        BY <1>1, <2>1, <2>2, <2>3, ServerSame DEF Known
    <2>4. ASSUME NEW m \in Present, Known(m), Address(m) # r PROVE Known(m)'
        BY <1>1, <1>2, <2>2, <2>4, ServerSame DEF Known
    <2>5. NameInv'
        <3>1. \A x \in mapped' : Given(x.ref)
            BY <1>4, <2>2 DEF NameInv
        <3>2. \A x \in mapped', m \in Present : x.ref = Address(m) => x.msg = m
            BY <1>4, <2>1, <2>2 DEF NameInv
        <3> QED
            BY <1>1, <3>1, <3>2, ServerSame DEF NameInv
    <2>6. \A x \in q.rows : Given(x.ref)
        BY <1>4, <1>7
    <2>7. \A m \in Present : Known(m) => Known(m)'
        BY <2>3, <2>4
    <2>8. \A m \in Present : Address(m) \in p.wanted => Known(m)' \/ Address(m) \in q.wanted
        BY <1>3, <2>3
    <2> QED
        BY <1>1, <1>2, <1>3, <2>5, <2>6, <2>7, <2>8, HeadersSafe
<1> QED
    BY <1>3, <1>6, <1>7

LEMMA AbsorbFlagsSafe == ASSUME SafeInv, NEW e \in Engines, AbsorbFlags(e) PROVE StoreInv' /\ PassInv(pass[e])'
<1> DEFINE p == pass[e]
           q == pass'[e]
<1>1. TypeInv /\ StoreInv /\ UNCHANGED server
    BY DEF SafeInv, AbsorbFlags
<1>2. /\ p.at = "said" /\ q.at = "headers" /\ q.rows = {} /\ q.wanted = p.wanted
      /\ q.gone = p.gone /\ UNCHANGED <<held, mapped, cursor, through, unreadable>>
    BY <1>1, AbsorbFlagsIs
<1>3. \A m \in Present : Known(m) => Known(m)'
    BY <1>1, <1>2, ServerSame DEF Known
<1>4. NameInv'
    BY <1>1, <1>2, ServerSame DEF StoreInv, NameInv
<1> QED
    BY <1>1, <1>2, <1>3, <1>4, HeadersSafe

LEMMA GarbledSafe == ASSUME SafeInv, NEW e \in Engines, Garbled(e) PROVE StoreInv' /\ PassInv(pass[e])'
<1> DEFINE p == pass[e]
           q == pass'[e]
<1>1. TypeInv /\ StoreInv /\ PassInv(p) /\ UNCHANGED server
    BY DEF SafeInv, Garbled
<1>2. /\ p.at = "headers" /\ q.at = "headers" /\ q.rows = p.rows /\ q.gone = p.gone
      /\ UNCHANGED <<held, mapped, cursor, through>>
    BY <1>1, GarbledIs
<1>3. PICK r \in p.wanted : q.wanted = p.wanted \ {r} /\ unreadable' = unreadable \cup {r}
    BY <1>1, GarbledIs
<1>4. \A m \in Present : Known(m) => Known(m)'
    BY <1>1, <1>2, <1>3, ServerSame DEF Known
<1>5. NameInv'
    BY <1>1, <1>2, ServerSame DEF StoreInv, NameInv
<1>6. \A m \in Present : Address(m) \in p.wanted => Known(m)' \/ Address(m) \in q.wanted
    BY <1>1, <1>3, ServerSame DEF Known
<1>7. \A x \in q.rows : Given(x.ref)
    BY <1>1, <1>2 DEF PassInv, CarryInv
<1> QED
    BY <1>1, <1>2, <1>3, <1>4, <1>5, <1>6, <1>7, HeadersSafe

\* When nothing is wanted any more, everything below the cursor is known.
LEMMA MarkHeldSafe == ASSUME SafeInv, NEW e \in Engines, MarkHeld(e) PROVE StoreInv' /\ PassInv(pass[e])'
<1> DEFINE p == pass[e]
           q == pass'[e]
<1>1. TypeInv /\ StoreInv /\ PassInv(p) /\ UNCHANGED server
    BY DEF SafeInv, MarkHeld
<1>2. /\ PassTypes' /\ p.at = "headers" /\ p.wanted = {} /\ q.at = "sweep" /\ q.wanted = {}
      /\ q.rows = p.rows /\ q.gone = p.gone /\ UNCHANGED <<held, mapped, cursor, unreadable>>
      /\ IF cursor.uv = 0 THEN through' = through ELSE through'.uv = cursor.uv /\ through'.next = cursor.next
    BY <1>1, MarkHeldIs
<1>3. cursor.uv = uv => \A m \in Present : uid[m] < cursor.next => Known(m)
    BY <1>1, <1>2 DEF PassInv, WantInv
<1>4. \A m \in Present : Known(m) => Known(m)'
    BY <1>1, <1>2, ServerSame DEF Known
<1>5. cursor.uv \in Nat
    BY <1>1, CursorIs DEF TypeInv, StoreTypes
<1>6. MarkInv'
    BY <1>1, <1>2, <1>5, ServerSame DEF StoreInv, MarkInv, Reached
<1>7. NameInv'
    BY <1>1, <1>2, ServerSame DEF StoreInv, NameInv
<1>8. ThroughHeld'
    BY <1>1, <1>2, <1>3, <1>4, ServerSame DEF StoreInv, ThroughHeld, Known
<1>9. PassInv(pass[e])'
    <2>1. Moves(e)
        BY <1>2 DEF Moves
    <2> QED
        BY <1>1, <2>1, MovesSafe
<1> QED
    BY <1>6, <1>7, <1>8, <1>9 DEF StoreInv

\* Where the server says the mailbox is, is not behind the store.
LEMMA FreshSafe ==
    ASSUME TypeInv, StoreInv
    PROVE  Fresh # NoCursor /\ Fresh.uv # 0 /\ Reached(Fresh) /\ cursor.uv <= Fresh.uv
<1>1. Fresh.uv = uv /\ Fresh.next = next /\ uv \in Nat /\ uv # 0 /\ next \in Nat
    BY FreshIs, Consts DEF TypeInv, ServerTypes
<1> QED
    BY <1>1, NoCursorIs DEF StoreInv, MarkInv, Reached

LEMMA FetchFlagsSafe == ASSUME SafeInv, NEW e \in Engines, FetchFlags(e) PROVE StoreInv' /\ PassInv(pass[e])'
<1> DEFINE p == pass[e]
           q == pass'[e]
<1>1. TypeInv /\ StoreInv /\ PassInv(p) /\ UNCHANGED <<server, store>>
    BY DEF SafeInv, FetchFlags
<1>2. q.at = "flagged" /\ q.fresh = Fresh /\ q.wanted = p.wanted /\ q.gone = p.gone
    BY <1>1, FetchFlagsIs
<1>3. PICK ms : ms \subseteq Present /\ q.rows = Rows(ms)
    BY <1>1, FetchFlagsIs
<1>4. UNCHANGED <<mapped, cursor, through, unreadable>>
    BY <1>1 DEF store
<1>5. StoreInv'
    BY <1>1, <1>4, StoreSafe
<1>6. \A r \in q.rows : Given(r.ref)
    BY <1>1, <1>3, RowsIs, LiveGiven DEF TypeInv
<1>7. CarryInv(pass[e])'
    BY <1>1, <1>2, <1>6, ServerSame DEF PassInv, CarryInv
<1>8. FromInv(pass[e])'
    <2>1. q.fresh.uv # 0 /\ Reached(q.fresh) /\ cursor.uv <= q.fresh.uv
        BY <1>1, <1>2, FreshSafe
    <2> QED
        BY <1>1, <1>2, <1>4, <2>1, ServerSame DEF FromInv
<1>9. ListInv(pass[e])' /\ WantInv(pass[e])' /\ GoneInv(pass[e])'
    BY <1>2 DEF ListInv, WantInv, GoneInv
<1> QED
    BY <1>5, <1>7, <1>8, <1>9 DEF PassInv

LEMMA KeepFlagsSafe == ASSUME SafeInv, NEW e \in Engines, KeepFlags(e) PROVE StoreInv' /\ PassInv(pass[e])'
<1> DEFINE p == pass[e]
           q == pass'[e]
<1>1. TypeInv /\ StoreInv /\ PassInv(p) /\ UNCHANGED server
    BY DEF SafeInv, KeepFlags
<1>2. /\ PassTypes' /\ p.at = "flagged" /\ q.at = "expunges" /\ q.rows = {}
      /\ q.wanted = p.wanted /\ q.gone = p.gone
      /\ cursor' = p.fresh /\ UNCHANGED <<held, mapped, through, unreadable>>
    BY <1>1, KeepFlagsIs
<1>3. Reached(p.fresh) /\ cursor.uv <= p.fresh.uv
    BY <1>1, <1>2 DEF PassInv, FromInv
<1>4. cursor.uv \in Nat /\ through.uv \in Nat /\ cursor'.uv \in Nat
    BY <1>1, <1>2, CursorIs DEF TypeInv, StoreTypes, PassTypes, Pass
<1> HIDE DEF p
<1>5. MarkInv'
    BY <1>1, <1>2, <1>3, <1>4, ServerSame DEF StoreInv, MarkInv, Reached
<1>6. NameInv'
    BY <1>1, <1>2, ServerSame DEF StoreInv, NameInv
<1>7. ThroughHeld'
    BY <1>1, <1>2, ServerSame DEF StoreInv, ThroughHeld
<1>8. PassInv(pass[e])'
    <2>1. Moves(e)
        BY <1>2 DEF Moves, p
    <2> QED
        BY <1>1, <2>1, MovesSafe DEF p
<1> QED
    BY <1>5, <1>6, <1>7, <1>8 DEF StoreInv

LEMMA ListRemoteSafe == ASSUME SafeInv, NEW e \in Engines, ListRemote(e) PROVE StoreInv' /\ PassInv(pass[e])'
<1> DEFINE q == pass'[e]
<1>1. TypeInv /\ StoreInv /\ UNCHANGED <<server, store>>
    BY DEF SafeInv, ListRemote
<1>2. /\ q.at = "listed"
      /\ \/ /\ q.was = NoCursor /\ q.fresh = Fresh /\ q.gone = {} /\ q.wanted = {Address(m) : m \in Present}
         \/ /\ q.was = cursor /\ cursor.mod # 0 /\ q.wanted = {}
            /\ \/ q.fresh = NoCursor /\ q.gone = {}
               \/ /\ q.fresh = Fresh
                  /\ \A r \in q.gone : \E x \in expunged : r = <<uv, x.uid>>
    BY <1>1, ListRemoteIs
<1>3. PICK ms : ms \subseteq Present /\ q.rows = Rows(ms)
    BY <1>1, ListRemoteIs
<1>4. UNCHANGED <<mapped, cursor, through, unreadable>>
    BY <1>1 DEF store
<1>5. StoreInv'
    BY <1>1, <1>4, StoreSafe
<1>6. q.gone = {} \/ \A r \in q.gone : \E x \in expunged : r = <<uv, x.uid>>
    BY <1>2
<1>7. \A x \in expunged : /\ Given(<<uv, x.uid>>)
                          /\ \A m \in Present : Address(m) # <<uv, x.uid>>
    BY <1>1 DEF TypeInv, Numbers, Given, Address
<1> HIDE DEF q
<1>8. CarryInv(q)
    <2>1. \A r \in q.rows : Given(r.ref)
        BY <1>1, <1>3, RowsIs, LiveGiven DEF TypeInv
    <2>2. \A r \in q.wanted : Given(r)
        BY <1>1, <1>2, LiveGiven
    <2>3. \A r \in q.gone : Given(r)
        BY <1>6, <1>7
    <2> QED
        BY <2>1, <2>2, <2>3 DEF CarryInv
<1>9. CarryInv(pass[e])'
    BY <1>1, <1>8, ServerSame DEF CarryInv, q
<1>10. q.fresh = NoCursor => q.was # NoCursor
    BY <1>1, <1>2, FreshSafe, NoCursorIs
<1>11. q.fresh # NoCursor => Reached(q.fresh) /\ cursor.uv <= q.fresh.uv
    BY <1>1, <1>2, FreshSafe
<1>12. FromInv(pass[e])'
    BY <1>1, <1>2, <1>4, <1>10, <1>11, ServerSame DEF FromInv, q
<1>13. ListInv(pass[e])' /\ WantInv(pass[e])'
    BY <1>2 DEF ListInv, WantInv, q
<1>14. GoneInv(pass[e])'
    <2>1. \A m \in Present : Address(m) \notin q.gone
        BY <1>6, <1>7
    <2>2. q.was = NoCursor => \A m \in Present : Address(m) \in q.wanted
        BY <1>2, NoCursorIs
    <2> QED
        BY <1>1, <2>1, <2>2, ServerSame DEF GoneInv, q
<1> QED
    BY <1>5, <1>9, <1>12, <1>13, <1>14 DEF PassInv

\* What the server has is neither missing from its listing nor among what it says has gone.
LEMMA LiveKept ==
    ASSUME SafeInv, NEW e \in Engines, KeepGone(e), NEW x \in mapped, NEW m \in Present, x.ref = Address(m)
    PROVE  x \in mapped'
<1> DEFINE p == pass[e]
<1>1. TypeInv /\ GoneInv(p)
    BY DEF SafeInv, PassInv
<1>2. p.at = "listed" /\ mapped' = {y \in mapped : y.ref \notin Vanished(p)}
    BY <1>1, KeepGoneIs
<1>3. Address(m) \notin p.gone /\ (Address(m) \in Held /\ p.was = NoCursor => Address(m) \in p.wanted)
    BY <1>1, <1>2 DEF GoneInv
<1> HIDE DEF p
<1> QED
    BY <1>2, <1>3 DEF Vanished, Held

LEMMA KeepGoneSafe == ASSUME SafeInv, NEW e \in Engines, KeepGone(e) PROVE StoreInv' /\ PassInv(pass[e])'
<1> DEFINE p == pass[e]
<1>1. TypeInv /\ StoreInv /\ PassInv(p) /\ UNCHANGED server
    <2>1. Acts(e)
        BY DEF Acts, Proceed
    <2> QED
        BY <2>1, ActsStay DEF SafeInv
<1>2. /\ Moves(e) /\ p.at = "listed" /\ UNCHANGED <<through, unreadable>>
      /\ mapped' = {x \in mapped : x.ref \notin Vanished(p)}
      /\ cursor' = IF p.was # NoCursor /\ p.fresh = NoCursor THEN cursor ELSE p.fresh
    BY <1>1, KeepGoneIs
<1>3. PassInv(pass[e])'
    BY <1>1, <1>2, MovesSafe
<1>4. cursor.uv \in Nat /\ through.uv \in Nat /\ p.fresh.uv \in Nat
    BY <1>1, CursorIs DEF TypeInv, StoreTypes, PassTypes, Pass
<1>5. IF p.fresh = NoCursor THEN p.was # NoCursor ELSE Reached(p.fresh) /\ cursor.uv <= p.fresh.uv
    BY <1>1, <1>2 DEF PassInv, FromInv
<1> HIDE DEF p
<1>6. MarkInv'
    <2>1. Reached(cursor) /\ Reached(through) /\ through.uv <= cursor.uv
        BY <1>1 DEF StoreInv, MarkInv
    <2>2. (cursor' = cursor) \/ (cursor' = p.fresh /\ Reached(p.fresh) /\ cursor.uv <= p.fresh.uv)
        BY <1>2, <1>5
    <2> QED
        BY <1>1, <1>2, <1>4, <2>1, <2>2, ServerSame DEF MarkInv, Reached
<1>7. NameInv'
    BY <1>1, <1>2, ServerSame DEF StoreInv, NameInv
<1>8. ASSUME NEW m \in Present, Known(m) PROVE Known(m)'
    <2>1. CASE Address(m) \in unreadable
        BY <1>1, <1>2, <2>1, ServerSame DEF Known
    <2>2. CASE [ref |-> Address(m), msg |-> m] \in mapped
        <3>1. [ref |-> Address(m), msg |-> m] \in mapped'
            BY <2>2, LiveKept
        <3> QED
            BY <1>1, <3>1, ServerSame DEF Known
    <2> QED
        BY <1>8, <2>1, <2>2 DEF Known
<1>9. ThroughHeld'
    BY <1>1, <1>2, <1>8, ServerSame DEF StoreInv, ThroughHeld, Known
<1> QED
    BY <1>3, <1>6, <1>7, <1>9 DEF StoreInv

LEMMA ActsSafe ==
    ASSUME SafeInv, NEW e \in Engines, Acts(e) PROVE StoreInv' /\ PassInv(pass[e])'
<1>1. CASE Begin(e) \/ Select(e) \/ List(e) \/ Ingest(e)
    BY <1>1, BeginSafe, SelectSafe, ListSafe, IngestSafe
<1>2. CASE FetchHeader(e) \/ AbsorbFlags(e) \/ Garbled(e) \/ MarkHeld(e)
    BY <1>2, FetchHeaderSafe, AbsorbFlagsSafe, GarbledSafe, MarkHeldSafe
<1>3. CASE FetchFlags(e) \/ KeepFlags(e) \/ ListRemote(e) \/ KeepGone(e)
    BY <1>3, FetchFlagsSafe, KeepFlagsSafe, ListRemoteSafe, KeepGoneSafe
<1>4. CASE Unfinished(e) \/ Sweep(e) \/ FlagsNotDue(e) \/ ExpungesNotDue(e) \/ RequestFails(e) \/ CutShort(e)
    <2>1. TypeInv /\ StoreInv /\ PassInv(pass[e])
        BY DEF SafeInv
    <2>2. UNCHANGED server
        BY ActsStay
    <2>3. Moves(e) /\ UNCHANGED store
        BY <1>4, <2>1, MovesOn
    <2>4. UNCHANGED <<mapped, cursor, through, unreadable>>
        BY <2>3 DEF store
    <2> QED
        BY <2>1, <2>2, <2>3, <2>4, StoreSafe, MovesSafe
<1> QED
    BY <1>1, <1>2, <1>3, <1>4 DEF Acts, Proceed

LEMMA NextSafe == ASSUME OneEngine, Unstopped PROVE SafeInv /\ [Next]_vars => SafeInv'
<1> SUFFICES ASSUME SafeInv, [Next]_vars PROVE SafeInv'
    OBVIOUS
<1>0. TypeInv /\ TypeInv' /\ StoreInv
    BY NextTypes DEF SafeInv
<1>1. CASE Outside
    BY <1>1, OutsideSafe
<1>2. ASSUME UNCHANGED <<server, mapped, cursor, through, unreadable, pass>> PROVE SafeInv'
    <2>1. StoreInv'
        BY <1>0, <1>2, StoreSafe
    <2>2. ASSUME NEW e \in Engines PROVE PassInv(pass[e])'
        <3>1. PassInv(pass[e]) /\ pass'[e] = pass[e] /\ Held' = Held
            BY <1>2 DEF SafeInv, Held
        <3>2. uv' = uv /\ uid' = uid /\ Present' = Present
            BY <1>2, ServerSame
        <3>3. CarryInv(pass[e])' /\ FromInv(pass[e])'
            BY <1>2, <3>1, ServerSame DEF PassInv, CarryInv, FromInv, Renumbered
        <3>4. ListInv(pass[e])' /\ WantInv(pass[e])' /\ GoneInv(pass[e])'
            BY <1>2, <3>1, <3>2 DEF PassInv, ListInv, WantInv, GoneInv, Known, Address, Renumbered
        <3> QED
            BY <3>3, <3>4 DEF PassInv
    <2> QED
        BY <1>0, <2>1, <2>2 DEF SafeInv
<1>3. ASSUME NEW of \in Waits, TimePasses(of) PROVE SafeInv'
    BY <1>0, <1>2, <1>3, TimeIs
<1>4. ASSUME NEW e \in Engines, Acts(e) PROVE SafeInv'
    BY <1>0, <1>4, ActsSafe, EngineSafe
<1>5. ASSUME NEW e \in Engines, Stopped(e) PROVE FALSE
    BY <1>5 DEF Stopped, Fault, Unstopped
<1>6. CASE UNCHANGED vars
    BY <1>2, <1>6 DEF vars, store
<1> QED
    BY <1>1, <1>3, <1>4, <1>5, <1>6 DEF Next, Acts

LEMMA SafeHolds == ASSUME OneEngine, Unstopped PROVE Spec => []SafeInv
BY InitSafe, NextSafe, PTL DEF Spec

\* mark_held, held_mark and resume_point: where one engine passes over the mailbox and what it
\* asks is answered or fails, everything the server has below the mark is held at its address,
\* however the mailbox was changed and numbered afresh meanwhile; a survey from the mark on
\* misses nothing but what could not be read.
THEOREM MarkedIsHeld == ASSUME OneEngine, Unstopped PROVE Spec => []ThroughHeld
<1>1. SafeInv => ThroughHeld
    BY DEF SafeInv, StoreInv
<1> QED
    BY <1>1, SafeHolds, PTL

\* Only the sweep for what has gone drops anything.
LEMMA HeldGrows ==
    ASSUME TypeInv, NEW e \in Engines, Acts(e), ~KeepGone(e) PROVE held \subseteq held'
<1>1. CASE FetchHeader(e)
    BY <1>1, FetchHeaderIs
<1>2. CASE Ingest(e) \/ AbsorbFlags(e) \/ Garbled(e) \/ MarkHeld(e) \/ KeepFlags(e)
    BY <1>2, IngestIs, AbsorbFlagsIs, GarbledIs, MarkHeldIs, KeepFlagsIs
<1>3. CASE Begin(e) \/ Select(e) \/ List(e) \/ FetchFlags(e) \/ ListRemote(e)
    BY <1>3 DEF Begin, Select, List, FetchFlags, ListRemote, store
<1>4. CASE Unfinished(e) \/ Sweep(e) \/ FlagsNotDue(e) \/ ExpungesNotDue(e) \/ RequestFails(e) \/ CutShort(e)
    BY <1>4, MovesOn DEF store
<1> QED
    BY <1>1, <1>2, <1>3, <1>4 DEF Acts, Proceed

LEMMA NextKeepsLive ==
    ASSUME Unstopped, SafeInv, [Next]_vars, NEW x \in mapped, x.msg \in Present, x.ref = Address(x.msg)
    PROVE  x.msg \in held'
<1>0. TypeInv /\ x.msg \in held
    BY DEF SafeInv, TypeInv, StoreTypes
<1>1. CASE Outside
    BY <1>0, <1>1, OutsideIs DEF store
<1>2. ASSUME NEW of \in Waits, TimePasses(of) PROVE x.msg \in held'
    BY <1>0, <1>2, TimeIs
<1>3. ASSUME NEW e \in Engines, KeepGone(e) PROVE x.msg \in held'
    BY <1>0, <1>3, LiveKept, KeepGoneIs
<1>4. ASSUME NEW e \in Engines, Acts(e), ~KeepGone(e) PROVE x.msg \in held'
    BY <1>0, <1>4, HeldGrows
<1>5. ASSUME NEW e \in Engines, Stopped(e) PROVE FALSE
    BY <1>5 DEF Stopped, Fault, Unstopped
<1>6. CASE UNCHANGED vars
    BY <1>0, <1>6 DEF vars, store
<1> QED
    BY <1>1, <1>2, <1>3, <1>4, <1>5, <1>6 DEF Next, Acts

\* sweep and write_ingest_chunk: whatever changes while a pass lists the mailbox, a message held
\* at an address the server still has it at is not dropped, though others of its addresses go.
THEOREM LiveMessagesStay == ASSUME OneEngine, Unstopped PROVE Spec => NeverDropsLive
<1>1. SafeInv /\ [Next]_vars =>
          [\A x \in mapped : (x.msg \in Present /\ x.ref = Address(x.msg)) => x.msg \in held']_vars
    BY NextKeepsLive
<1> QED
    BY <1>1, SafeHolds, PTL DEF Spec, NeverDropsLive
===========================================================================
