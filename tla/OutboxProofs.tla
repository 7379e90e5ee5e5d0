---------------------------- MODULE OutboxProofs ----------------------------
(***************************************************************************)
(* What is proved of the outbox for every number of messages, values, rows *)
(* and passes.  Type correctness holds of every instance.  PendingShown    *)
(* and ReachesInOrder are proved where they hold: one engine, no act taken *)
(* back, and an environment in which no row backs off, is parked or is     *)
(* refused (Orderly).  Passes may still be cut off, and the server may     *)
(* still move messages without saying where.  NeverDroppedUnsaid is proved *)
(* for every fault but a pass stopped while its answer is out.             *)
(***************************************************************************)
EXTENDS Outbox, TLAPS

USE OutboxAssumption

\* The first states have the types.
LEMMA TypeInit == Init => TypeOK
  BY DEF Init, TypeOK, Held, Place, At, Row, NoRow, NoUndo, Idle, EngineState, PCs, Answers, Id,
         Folder

\* Each action keeps the types.
LEMMA TypeStep == TypeOK /\ [Next]_vars => TypeOK'
<1> SUFFICES ASSUME TypeOK, [Next]_vars PROVE TypeOK'
  OBVIOUS
<1>0. Idle \in EngineState /\ NoRow \in Row /\ At \in Place /\ Unplaced \in Place
      /\ NotHeld \in Place /\ Nowhere \in Place /\ Gone \in Held
      /\ \A v \in Held : Folder(v) \in Held
  BY DEF Idle, EngineState, NoRow, Row, At, Unplaced, NotHeld, Nowhere, Place, NoUndo, Held, PCs,
         Answers, Id, Folder
<1>1. ASSUME NEW k \in Kinds, NEW ms \in SUBSET Message, NEW v \in Value, Act(k, ms, v)
      PROVE  TypeOK'
  <2>1. local' \in [Message -> Held]
    BY <1>1 DEF Act, TypeOK, Held
  <2>2. CASE Named(ms) = {}
    BY <1>1, <2>1, <2>2 DEF Act, TypeOK
  <2>3. CASE Named(ms) # {}
    <3>1. lastId + 1 \in Id
      BY <1>1 DEF Act, TypeOK, Id
    <3> DEFINE row == [ms |-> Named(ms), alone |-> ms \ Named(ms),
                       v |-> IF Sets(k) THEN v ELSE Gone,
                       undo |-> [m \in Message |-> IF m \in ms /\ Sets(k) THEN local[m] ELSE Gone],
                       tried |-> FALSE, due |-> TRUE, undoable |-> k = "file"]
    <3>2. row \in Row
      BY DEF Row, TypeOK, Held, Named
    <3>3. outbox' = [outbox EXCEPT ![lastId + 1] = row] /\ lastId' = lastId + 1
      BY <1>1, <2>3 DEF Act
    <3> HIDE DEF row
    <3>4. outbox' \in [Id -> Row]
      BY <3>1, <3>2, <3>3 DEF TypeOK
    <3> QED
      BY <1>1, <2>1, <3>1, <3>3, <3>4 DEF Act, TypeOK, Id
  <2> QED
    BY <2>2, <2>3
<1>2. ASSUME NEW i \in Id, TakeBack(i) PROVE TypeOK'
  <2>1. local' \in [Message -> Held]
    BY <1>2 DEF TakeBack, Undone, TypeOK, Row
  <2>2. [outbox EXCEPT ![i].undoable = FALSE] \in [Id -> Row]
    <3>1. outbox[i] \in Row
      BY DEF TypeOK
    <3>2. [outbox[i] EXCEPT !.undoable = FALSE] \in Row
      BY <3>1 DEF Row
    <3> QED
      BY <3>2 DEF TypeOK
  <2>3. Dropped(i) \in [Id -> Row]
    BY <1>0 DEF Dropped, TypeOK
  <2> QED
    BY <1>2, <2>1, <2>2, <2>3 DEF TakeBack, TypeOK
<1>3. ASSUME NEW i \in Id, ComeDue(i) PROVE TypeOK'
  <2>1. outbox[i] \in Row
    BY DEF TypeOK
  <2>2. [outbox[i] EXCEPT !.due = TRUE] \in Row
    BY <2>1 DEF Row
  <2> QED
    BY <1>3, <2>2 DEF ComeDue, TypeOK
<1>4. ASSUME NEW m \in Message, NEW v \in Held, Elsewhere(m, v) PROVE TypeOK'
  BY <1>4 DEF Elsewhere, TypeOK
<1>5. ASSUME NEW e \in Engine, SyncFetch(e) PROVE TypeOK'
  <2>1. [Idle EXCEPT !.pc = "sync", !.snap = server] \in EngineState
    BY <1>0 DEF EngineState, PCs, TypeOK
  <2> QED
    BY <1>5, <2>1 DEF SyncFetch, TypeOK, Idle
<1>6. ASSUME NEW e \in Engine, SyncIngest(e) PROVE TypeOK'
  <2>1. [Idle EXCEPT !.pc = "synced"] \in EngineState
    BY <1>0 DEF EngineState, PCs
  <2>2. ASSUME NEW found \in SUBSET Message, NEW moved \in SUBSET Message,
               Ingested(e, found, moved)
        PROVE  place' \in [Message -> Place] /\ known' \in [Message -> Held]
               /\ local' \in [Message -> Held]
    <3>1. ASSUME NEW m \in Message
          PROVE  eng[e].snap[m] \in Held /\ Folder(eng[e].snap[m]) \in Held
      BY <1>0 DEF TypeOK, EngineState
    <3>2. ASSUME NEW m \in Message PROVE Layered(m, Stated(e, m)) \in Held
      <4>1. CASE \E i \in Id : IsTop(i, m)
        BY <4>1 DEF Layered, TypeOK, Row
      <4>2. CASE ~\E i \in Id : IsTop(i, m)
        BY <3>1, <4>2 DEF Layered, Stated, Filed, TypeOK
      <4> QED
        BY <4>1, <4>2
    <3>3. place' \in [Message -> Place] /\ known' \in [Message -> Held]
      BY <1>0, <2>2, <3>1 DEF Ingested, TypeOK
    <3>4. local' \in [Message -> Held]
      BY <1>0, <2>2, <3>2 DEF Ingested, TypeOK
    <3> QED
      BY <3>3, <3>4
  <2>3. PICK moved \in SUBSET Moved(e), found \in SUBSET Findable(e) : Ingested(e, found, moved)
    BY <1>6 DEF SyncIngest
  <2>4. faults' \in 0..MaxFaults
    BY <1>6 DEF SyncIngest, Fault, TypeOK
  <2>5. Moved(e) \in SUBSET Message /\ Findable(e) \in SUBSET Message
    BY DEF Moved, Findable
  <2> QED
    BY <1>6, <2>1, <2>2, <2>3, <2>4, <2>5 DEF SyncIngest, TypeOK, Idle
<1>16. ASSUME NEW e \in Engine, Renumbered(e) PROVE TypeOK'
  <2>1. PICK ms \in SUBSET Message : SyncReset(e, ms)
    BY <1>16 DEF Renumbered
  <2>2. place' \in [Message -> Place] /\ known' \in [Message -> Held]
    BY <1>0, <2>1 DEF SyncReset, TypeOK
  <2> QED
    BY <2>1, <2>2 DEF SyncReset, Fault, TypeOK
<1>7. ASSUME NEW e \in Engine, DrainList(e) PROVE TypeOK'
  <2>1. [Idle EXCEPT !.pc = "walk", !.todo = {i \in Id : Queued(i) /\ outbox[i].due}]
          \in EngineState
    BY <1>0 DEF EngineState, PCs
  <2>2. place' \in [Message -> Place]
    BY <1>7 DEF DrainList, TypeOK, Place, Sought
  <2> QED
    BY <1>7, <2>1, <2>2 DEF DrainList, TypeOK, Idle
<1>8. ASSUME NEW e \in Engine, NEW i \in Id
      PROVE  /\ Passed(e, i) \in [Engine -> EngineState]
             /\ \A f \in Engine : Passed(e, i)[f].pc \in {"wire", "served", "answered"} =>
                                   Passed(e, i)[f].cur \in Id
             /\ Dropped(i) \in [Id -> Row]
  <2>1. [Idle EXCEPT !.pc = "walk", !.todo = eng[e].todo \ {i}] \in EngineState
    BY <1>0 DEF EngineState, PCs, TypeOK
  <2> QED
    BY <1>0, <2>1 DEF Passed, Dropped, TypeOK, Idle
<1>9. ASSUME NEW e \in Engine, Dispatch(e) PROVE TypeOK'
  <2>1. PICK i \in Id : DispatchWait(e, i) \/ DispatchMoot(e, i)
                         \/ DispatchLost(e, i) \/ DispatchSend(e, i)
    BY <1>9 DEF Dispatch
  <2>2. CASE DispatchWait(e, i)
    BY <1>8, <2>2 DEF DispatchWait, TypeOK
  <2>3. CASE DispatchMoot(e, i)
    BY <1>8, <2>3 DEF DispatchMoot, TypeOK
  <2>4. CASE DispatchLost(e, i)
    <3>1. local' \in [Message -> Held]
      BY <2>4 DEF DispatchLost, Undone, TypeOK, Row
    <3> QED
      BY <1>8, <2>4, <3>1 DEF DispatchLost, TypeOK
  <2>5. CASE DispatchSend(e, i)
    <3>1. eng' = [eng EXCEPT ![e] = [eng[e] EXCEPT !.pc = "wire", !.cur = i,
                                      !.v = outbox[i].v, !.ms = Addressed(i)]]
      BY <2>5 DEF DispatchSend, TypeOK, EngineState
    <3>2. outbox[i].v \in Held /\ Addressed(i) \in SUBSET Message
      BY DEF Addressed, TypeOK, Row
    <3>3. [eng[e] EXCEPT !.pc = "wire", !.cur = i, !.v = outbox[i].v, !.ms = Addressed(i)]
            \in EngineState
      <4>1. eng[e] \in EngineState
        BY DEF TypeOK
      <4>2. i \in 0..MaxId /\ "wire" \in PCs
        BY DEF Id, PCs
      <4> QED
        BY <3>2, <4>1, <4>2 DEF EngineState
    <3> QED
      BY <2>5, <3>1, <3>3 DEF DispatchSend, TypeOK
  <2> QED
    BY <2>1, <2>2, <2>3, <2>4, <2>5
<1>10. ASSUME NEW e \in Engine, DrainEnd(e) PROVE TypeOK'
  BY <1>0, <1>10 DEF DrainEnd, TypeOK, Idle
<1>11. ASSUME NEW e \in Engine, Served(e) PROVE TypeOK'
  <2>1. PICK ans \in Answers, done \in SUBSET eng[e].ms : Serve(e, ans, done)
    BY <1>11 DEF Served
  <2>2. eng[e] \in EngineState /\ done \in SUBSET Message
    BY DEF TypeOK, EngineState
  <2>3. server' \in [Message -> Held]
    BY <2>1, <2>2 DEF Serve, TypeOK, EngineState
  <2>4. carried' \in [Id -> SUBSET Message]
    BY <2>1, <2>2 DEF Serve, TypeOK
  <2> DEFINE heard == IF ans = "ok" THEN eng[e].ms ELSE done
  <2>5. eng' = [eng EXCEPT ![e] = [eng[e] EXCEPT !.pc = "served", !.ans = ans, !.done = heard]]
    BY <2>1 DEF Serve
  <2>6. eng' \in [Engine -> EngineState]
    BY <2>2, <2>5 DEF TypeOK, EngineState, PCs
  <2>7. faults' \in 0..MaxFaults
    BY <2>1 DEF Serve, Fault, TypeOK
  <2> QED
    BY <2>1, <2>3, <2>4, <2>6, <2>7 DEF Serve, TypeOK
<1>12. ASSUME NEW e \in Engine, Answered(e) PROVE TypeOK'
  <2>0. PICK answered \in SUBSET eng[e].done : \E unsaid \in SUBSET answered :
              Heard(e, answered, unsaid)
    BY <1>12 DEF Answered
  <2>1. PICK unsaid \in SUBSET answered : Heard(e, answered, unsaid)
    BY <2>0
  <2>2. eng[e] \in EngineState /\ answered \in SUBSET Message
    BY DEF TypeOK, EngineState
  <2>3. place' \in [Message -> Place] /\ known' \in [Message -> Held]
    <3>1. eng[e].v \in Held
      BY <2>2 DEF EngineState
    <3> QED
      BY <1>0, <2>1, <2>2, <3>1 DEF Heard, TypeOK
  <2>4. [eng[e] EXCEPT !.pc = "answered", !.done = answered] \in EngineState
    BY <2>2 DEF EngineState, PCs
  <2>5. eng' \in [Engine -> EngineState]
    BY <1>0, <2>1, <2>4 DEF Heard, TypeOK
  <2>6. \A f \in Engine : eng'[f].pc \in {"wire", "served", "answered"} => eng'[f].cur \in Id
    BY <2>1, <2>2 DEF Heard, TypeOK, EngineState, Idle
  <2> QED
    BY <2>1, <2>3, <2>5, <2>6 DEF Heard, TypeOK
<1>13. ASSUME NEW e \in Engine, Settle(e) PROVE TypeOK'
  <2>1. CASE SettleMissing(e)
    BY <1>0, <2>1 DEF SettleMissing, TypeOK, Idle
  <2>2. CASE SettleOk(e)
    <3>1. eng[e].cur \in Id
      BY <2>2 DEF SettleOk, TypeOK
    <3> QED
      BY <1>8, <2>2, <3>1 DEF SettleOk, TypeOK
  <2>3. CASE SettleLater(e)
    <3>1. eng[e].cur \in Id
      BY <2>3 DEF SettleLater, TypeOK
    <3>2. outbox' \in [Id -> Row]
      <4>1. outbox[eng[e].cur] \in Row
        BY <3>1 DEF TypeOK
      <4> DEFINE tried == outbox[eng[e].cur].tried \/ eng[e].ans = "retry"
      <4>2. [outbox[eng[e].cur] EXCEPT !.due = FALSE, !.tried = tried] \in Row
        BY <4>1 DEF Row
      <4>3. outbox' = [outbox EXCEPT ![eng[e].cur] =
                          [outbox[eng[e].cur] EXCEPT !.due = FALSE, !.tried = tried]]
        BY <2>3, <3>1 DEF SettleLater, TypeOK
      <4> QED
        BY <3>1, <4>2, <4>3 DEF TypeOK
    <3> QED
      BY <1>0, <2>3, <3>2 DEF SettleLater, TypeOK, Idle
  <2>4. CASE SettleRefused(e)
    <3>1. eng[e].cur \in Id
      BY <2>4 DEF SettleRefused, TypeOK
    <3>2. local' \in [Message -> Held]
      BY <2>4, <3>1 DEF SettleRefused, Undone, TypeOK, Row
    <3> QED
      BY <1>0, <1>8, <2>4, <3>1, <3>2 DEF SettleRefused, TypeOK, Idle
  <2> QED
    BY <1>13, <2>1, <2>2, <2>3, <2>4 DEF Settle
<1>14. ASSUME NEW e \in Engine, Crash(e) PROVE TypeOK'
  BY <1>0, <1>14 DEF Crash, Fault, TypeOK, Idle
<1>15. CASE UNCHANGED vars
  BY <1>15 DEF vars, TypeOK
<1> QED
  BY <1>1, <1>2, <1>3, <1>4, <1>5, <1>6, <1>7, <1>9, <1>10, <1>11, <1>12, <1>13, <1>14, <1>15,
     <1>16
  DEF Next, Person, Pass

\* Every reachable state has the store's and the engines' types: TypeOK, for every instance.
THEOREM TypeCorrect == Spec => []TypeOK
  BY TypeInit, TypeStep, PTL DEF Spec

-----------------------------------------------------------------------------
(* The order of the queue.                                                   *)

\* One engine; no filing taken back; the server says yes, late or never.
Orderly ==
    /\ Kinds \subseteq {"set", "move"}
    /\ Faults \subseteq {"unsaid", "cancel", "crash"}
    /\ \A e, f \in Engine : e = f

\* The engine is somewhere in a drain; it has sent a row.
Walking(e) == eng[e].pc \in {"walk", "wire", "served", "answered"}
Sent(e) == eng[e].pc \in {"wire", "served", "answered"}

\* With no message expunged or hidden, whatever is unplaced is found by the next sync, so
\* nothing is ever given up.
PlacesInv ==
    /\ \A m \in Message : place[m].at # "nowhere" /\ place[m].missed = 0 /\ server[m] # Gone
    /\ \A e \in Engine : eng[e].pc = "sync" => \A m \in Message : eng[e].snap[m] # Gone
    /\ \A e \in Engine : eng[e].pc = "synced" => \A m \in Message : place[m].at # "unplaced"

\* Every queued row is due and names every message it changed; ids grow.
RowsInv ==
    /\ \A i \in Id : Queued(i) => /\ i <= lastId
                                 /\ outbox[i].due /\ ~outbox[i].undoable
    /\ \A i \in Id : outbox[i].alone = {}
    /\ \A i \in Id : carried[i] # {} => i <= lastId

\* A row the walk has passed over waits, for a reason that is not the row now on the wire.
PassedOver(e, j) == \E C \in SUBSET (1..j) : j \in C /\ eng[e].cur \notin C /\ WaitingChain(C)

\* The row on the wire is the first of the walk and nothing queued before it shares its
\* messages; a queued row no longer to be walked was passed over, or is newer than the walk.
WalkInv ==
    \A e \in Engine :
        /\ eng[e].pc = "walk" => eng[e].cur = 0
        /\ eng[e].pc = "served" => eng[e].ans \in {"ok", "cancel"}
        /\ eng[e].pc = "answered" => eng[e].ans = "ok"
        /\ Walking(e) => \A k \in eng[e].todo : k <= lastId
        /\ Sent(e) =>
              /\ Queued(eng[e].cur)
              /\ IsNext(e, eng[e].cur)
              /\ eng[e].ms \subseteq outbox[eng[e].cur].ms
              /\ \A j \in Id : j < eng[e].cur =>
                     outbox[j].ms \cap outbox[eng[e].cur].ms = {}
        /\ Walking(e) =>
              \A j \in Id : Queued(j) /\ j \notin eng[e].todo =>
                  PassedOver(e, j) \/ \A k \in eng[e].todo : k < j

\* What is still queued on a message has not been overtaken on it.
OrderInv ==
    \A i, j \in Id, m \in Message : m \in outbox[i].ms /\ i < j => m \notin carried[j]

\* The inductive invariant.
Inductive == TypeOK /\ PlacesInv /\ RowsInv /\ WalkInv /\ OrderInv /\ PendingShown

\* Nothing is given up.
LEMMA NothingLost == ASSUME TypeOK, PlacesInv PROVE \A i \in Id : ~Lost(i)
  BY DEF Lost, GivenUp, PlacesInv, TypeOK, Row, Place

\* A chain of waiting rows goes on waiting while its rows keep their messages and what waits
\* goes on waiting.
LEMMA ChainKept ==
    ASSUME NEW C \in SUBSET Id, WaitingChain(C),
           \A j \in C : outbox'[j].ms = outbox[j].ms,
           \A m \in Message : Waiting(m) => Waiting(m)',
           TypeOK, TypeOK', PlacesInv'
    PROVE  WaitingChain(C)'
<1>1. \A i \in Id : ~Lost(i)'
  BY DEF Lost, GivenUp, PlacesInv, TypeOK, Row, Place
<1>2. ASSUME NEW j \in C PROVE Queued(j)' /\ (\A m \in outbox'[j].ms : m \in Message)
  BY DEF WaitingChain, Queued, TypeOK, Row
<1>3. ASSUME NEW j \in C
      PROVE  \/ \E m \in outbox'[j].ms : Waiting(m)'
             \/ \E k \in C : k < j /\ outbox'[k].ms \cap outbox'[j].ms # {}
  BY <1>2 DEF WaitingChain
<1> QED
  BY <1>1, <1>2, <1>3 DEF WaitingChain

\* An act: the new row is the last of its messages, and newer than any walk.
LEMMA ActKeeps ==
    ASSUME Orderly, Inductive, TypeOK',
           NEW k \in Kinds, NEW ms \in SUBSET Message, NEW v \in Value, Act(k, ms, v)
    PROVE  Inductive'
<1> USE DEF Inductive
<1> DEFINE new == lastId + 1
<1>0. Named(ms) = ms /\ k # "file"
  BY DEF Act, Named, Orderly, PlacesInv, TypeOK, Place
<1>1. /\ new \in Id
      /\ \A i \in Id : i # new => outbox'[i] = outbox[i]
      /\ outbox'[new].ms = ms /\ outbox'[new].alone = {} /\ outbox'[new].due
      /\ ~outbox'[new].undoable
      /\ outbox'[new].v = IF Sets(k) THEN v ELSE Gone
  <2>1. new \in Id
    BY DEF Act, TypeOK, Id
  <2>2. outbox' = [outbox EXCEPT ![new] =
          [ms |-> ms, alone |-> ms \ ms, v |-> IF Sets(k) THEN v ELSE Gone,
           undo |-> [m \in Message |-> IF m \in ms /\ Sets(k) THEN local[m] ELSE Gone],
           tried |-> FALSE, due |-> TRUE, undoable |-> k = "file"]]
    BY <1>0 DEF Act
  <2> QED
    BY <1>0, <2>1, <2>2 DEF TypeOK
<1>2. lastId \in Nat /\ lastId' = new /\ \A i \in Id : Queued(i) => i <= lastId
  BY <1>0 DEF Act, TypeOK, RowsInv
<1>3. ~Queued(new)
  BY <1>1, <1>2 DEF Id
<1>4. PlacesInv'
  BY DEF Act, PlacesInv
<1>5. RowsInv'
  BY <1>1, <1>2 DEF Act, RowsInv, Queued, Id
<1>6. WalkInv'
  <2> SUFFICES ASSUME NEW e \in Engine
               PROVE  /\ Sent(e) => /\ Queued(eng[e].cur)'
                                    /\ eng[e].ms \subseteq outbox'[eng[e].cur].ms
                                    /\ \A j \in Id : j < eng[e].cur =>
                                           outbox'[j].ms \cap outbox'[eng[e].cur].ms = {}
                      /\ Walking(e) => \A j \in Id : Queued(j)' /\ j \notin eng[e].todo =>
                            PassedOver(e, j)' \/ \A i \in eng[e].todo : i < j
    BY <1>2 DEF Act, WalkInv, Walking, Sent, IsNext, TypeOK, EngineState, Id
  <2>1. ASSUME Sent(e)
        PROVE  /\ Queued(eng[e].cur)'
               /\ eng[e].ms \subseteq outbox'[eng[e].cur].ms
               /\ \A j \in Id : j < eng[e].cur =>
                      outbox'[j].ms \cap outbox'[eng[e].cur].ms = {}
    <3>1. eng[e].cur \in Id /\ eng[e].cur # new
      BY <1>3, <2>1 DEF Sent, TypeOK, WalkInv
    <3>2. \A j \in Id : j < eng[e].cur => j # new
      BY <1>2, <2>1, <3>1 DEF WalkInv, Id
    <3>3. /\ Queued(eng[e].cur)
          /\ eng[e].ms \subseteq outbox[eng[e].cur].ms
          /\ \A j \in Id : j < eng[e].cur => outbox[j].ms \cap outbox[eng[e].cur].ms = {}
      BY <2>1 DEF WalkInv
    <3>4. outbox'[eng[e].cur] = outbox[eng[e].cur]
          /\ \A j \in Id : j < eng[e].cur => outbox'[j] = outbox[j]
      BY <1>1, <3>1, <3>2
    <3>5. eng' = eng
      BY DEF Act
    <3> QED
      BY <3>3, <3>4, <3>5 DEF Queued
  <2>2. ASSUME Walking(e), NEW j \in Id, Queued(j)', j \notin eng[e].todo
        PROVE  PassedOver(e, j)' \/ \A i \in eng[e].todo : i < j
    <3>1. CASE j = new
      BY <1>2, <2>2, <3>1 DEF WalkInv, TypeOK, EngineState, Id
    <3>2. CASE j # new
      <4>1. Queued(j) /\ j <= lastId
        BY <1>1, <1>2, <2>2, <3>2 DEF Queued
      <4>2. CASE PassedOver(e, j)
        <5>1. PICK C \in SUBSET (1..j) : j \in C /\ eng[e].cur \notin C /\ WaitingChain(C)
          BY <4>2 DEF PassedOver
        <5>2. C \in SUBSET Id /\ \A i \in C : i # new
          BY <1>2, <4>1, <5>1 DEF Id
        <5>3. WaitingChain(C)'
          BY <1>1, <1>4, <5>1, <5>2, ChainKept DEF Act, Waiting, Sought
        <5> QED
          BY <5>1, <5>3 DEF PassedOver, Act
      <4> QED
        BY <2>2, <4>1, <4>2 DEF WalkInv
    <3> QED
      BY <3>1, <3>2
  <2> QED
    BY <2>1, <2>2
<1>7. OrderInv'
  BY <1>1, <1>2 DEF Act, OrderInv, RowsInv, Id
<1>8. PendingShown'
  <2> SUFFICES ASSUME NEW m \in Message, NEW i \in Id, IsTop(i, m)', place'[m].at # "gone"
               PROVE  local'[m] = outbox'[i].v
    BY DEF PendingShown
  <2>p. place[m].at # "gone"
    BY DEF Act
  <2>1. /\ outbox'[i].v # Gone /\ m \in On(i)'
        /\ \A j \in Id : outbox'[j].v # Gone /\ m \in On(j)' => j <= i
    BY DEF IsTop, PendingOn, Shows, On
  <2>2. CASE m \in ms /\ Sets(k)
    <3>1. i <= lastId' /\ i >= new
      BY <1>1, <1>5, <2>1, <2>2 DEF RowsInv, Queued, On
    <3>2. i = new
      BY <1>2, <3>1 DEF Id
    <3> QED
      BY <1>1, <2>2, <3>2 DEF Act
  <2>3. CASE ~(m \in ms /\ Sets(k))
    <3>1. i # new
      BY <1>1, <2>1, <2>3 DEF On
    <3>2. m \notin On(new)
      BY <1>1, <1>3 DEF Queued, RowsInv, On
    <3>3. IsTop(i, m)
      BY <1>1, <2>1, <3>1, <3>2 DEF IsTop, PendingOn, Shows, On
    <3>4. local'[m] = local[m] /\ place' = place
      BY <2>3 DEF Act
    <3> QED
      BY <1>1, <2>p, <3>1, <3>3, <3>4 DEF PendingShown
  <2> QED
    BY <2>2, <2>3
<1> QED
  BY <1>4, <1>5, <1>6, <1>7, <1>8

\* A step that leaves the queue, the places and what is shown alone, and ends the pass or brings
\* the engine to its listing, disturbs nothing.
LEMMA ResetKeeps ==
    ASSUME Orderly, Inductive, TypeOK', NEW e \in Engine,
           UNCHANGED <<server, local, place, outbox, lastId, carried>>,
           eng'[e] = Idle \/ (eng'[e].pc = "sync" /\ eng'[e].snap = server)
    PROVE  Inductive'
<1> USE DEF Inductive
<1>1. \A f \in Engine : f = e
  BY DEF Orderly
<1>2. PlacesInv'
  BY <1>1 DEF PlacesInv, Idle
<1>3. RowsInv' /\ OrderInv' /\ PendingShown'
  BY DEF RowsInv, OrderInv, PendingShown, Queued, IsTop, PendingOn, Shows, On
<1>4. WalkInv'
  BY <1>1 DEF WalkInv, Walking, Sent, Idle
<1> QED
  BY <1>2, <1>3, <1>4

\* A sync finds every unplaced message and re-layers the queue on what it writes.
LEMMA IngestKeeps ==
    ASSUME Orderly, Inductive, TypeOK', NEW e \in Engine, SyncIngest(e)
    PROVE  Inductive'
<1> USE DEF Inductive
<1>1. \A f \in Engine : f = e
  BY DEF Orderly
<1>2. PICK moved \in SUBSET Moved(e) : Ingested(e, Findable(e), moved)
  BY DEF SyncIngest, Fault, Orderly
<1>p. eng'[e].pc = "synced"
  BY DEF SyncIngest, TypeOK, Idle
<1>3. ASSUME NEW m \in Message
      PROVE  /\ eng[e].snap[m] # Gone
             /\ place[m].at = "at" \/ place[m].at = "gone" \/ m \in Findable(e)
  BY DEF SyncIngest, PlacesInv, Findable, TypeOK, Place
<1>4. \A m \in Message : place'[m] = At \/ (place'[m].at = "gone" /\ place'[m].missed = 0)
  BY <1>2, <1>3 DEF Ingested, Listed, Vanished, NotHeld, PlacesInv
<1>5. PlacesInv'
  BY <1>1, <1>p, <1>4 DEF PlacesInv, SyncIngest, At
<1>6. RowsInv' /\ OrderInv'
  BY DEF SyncIngest, RowsInv, OrderInv, Queued
<1>7. WalkInv'
  BY <1>1, <1>p DEF WalkInv, Walking, Sent
<1>8. PendingShown'
  <2> SUFFICES ASSUME NEW m \in Message, NEW i \in Id, IsTop(i, m), place'[m].at # "gone"
               PROVE  local'[m] = outbox[i].v
    BY DEF PendingShown, SyncIngest, IsTop, PendingOn, Shows, On
  <2>1. \A j \in Id : IsTop(j, m) => j = i
    BY DEF IsTop, PendingOn, Shows, On, Id
  <2>2. Layered(m, Stated(e, m)) = outbox[i].v
    BY <2>1 DEF Layered
  <2>3. ~Vanished(e, moved, m) /\ place[m].at # "gone"
    BY <1>2, <1>3 DEF Ingested, Vanished, Listed, NotHeld, Findable
  <2>4. local[m] = outbox[i].v
    BY <2>3 DEF PendingShown
  <2> QED
    BY <1>2, <2>2, <2>3, <2>4 DEF Ingested
<1> QED
  BY <1>5, <1>6, <1>7, <1>8

\* The drain's list holds every queued row.
LEMMA ListKeeps ==
    ASSUME Orderly, Inductive, TypeOK', NEW e \in Engine, DrainList(e)
    PROVE  Inductive'
<1> USE DEF Inductive
<1>1. \A f \in Engine : f = e
  BY DEF Orderly
<1>2. /\ eng'[e].pc = "walk" /\ eng'[e].cur = 0
      /\ eng'[e].todo = {i \in Id : Queued(i) /\ outbox[i].due}
  BY DEF DrainList, TypeOK, Idle
<1>3. place' = place
  BY DEF DrainList, PlacesInv, TypeOK, Sought
<1>4. PlacesInv' /\ RowsInv' /\ OrderInv' /\ PendingShown'
  <2>1. UNCHANGED <<server, local, outbox, lastId, carried>>
    BY DEF DrainList
  <2>2. PlacesInv'
    BY <1>1, <1>2, <1>3, <2>1 DEF PlacesInv
  <2>3. RowsInv' /\ OrderInv'
    BY <2>1 DEF RowsInv, OrderInv, Queued, On
  <2>4. PendingShown'
    BY <1>3, <2>1 DEF PendingShown, IsTop, PendingOn, Shows, On
  <2> QED
    BY <2>2, <2>3, <2>4
<1>5. \A j \in Id : Queued(j)' => j \in eng'[e].todo
  BY <1>2 DEF DrainList, RowsInv, Queued
<1>6. \A k \in eng'[e].todo : k <= lastId'
  BY <1>2 DEF DrainList, RowsInv
<1>7. WalkInv'
  BY <1>1, <1>2, <1>5, <1>6 DEF WalkInv, Walking, Sent
<1> QED
  BY <1>4, <1>7

\* A row taken out of the walk because it waits has been passed over.
LEMMA WaitKeeps ==
    ASSUME Orderly, Inductive, TypeOK', NEW e \in Engine, NEW i \in Id, DispatchWait(e, i)
    PROVE  Inductive'
<1> USE DEF Inductive
<1>1. \A f \in Engine : f = e
  BY DEF Orderly
<1>2. eng'[e].pc = "walk" /\ eng'[e].cur = 0 /\ eng'[e].todo = eng[e].todo \ {i}
  BY DEF DispatchWait, Passed, TypeOK, Idle
<1>3. PlacesInv' /\ RowsInv' /\ OrderInv' /\ PendingShown'
  BY <1>1, <1>2
  DEF DispatchWait, PlacesInv, RowsInv, OrderInv, PendingShown, Queued, IsTop, PendingOn,
      Shows, On
<1>4. ASSUME NEW j \in Id, Queued(j)', j \notin eng'[e].todo
      PROVE  PassedOver(e, j)' \/ \A k \in eng'[e].todo : k < j
  <2>0. eng[e].cur = 0 /\ Walking(e) /\ Queued(j)
    BY <1>4 DEF DispatchWait, WalkInv, Walking, Queued
  <2>1. ASSUME NEW C \in SUBSET (1..j), j \in C, WaitingChain(C) PROVE PassedOver(e, j)'
    <3>1. WaitingChain(C)'
      BY <2>1 DEF DispatchWait, WaitingChain, Queued, Lost, GivenUp, Waiting, Sought
    <3>2. eng'[e].cur \notin C
      BY <1>2
    <3> QED
      BY <2>1, <3>1, <3>2 DEF PassedOver
  <2>2. CASE j = i
    BY <2>0, <2>1, <2>2 DEF DispatchWait, Waits
  <2>3. CASE j # i
    BY <1>2, <1>4, <2>0, <2>1, <2>3 DEF WalkInv, PassedOver
  <2> QED
    BY <2>2, <2>3
<1>5. \A k \in eng'[e].todo : k <= lastId'
  BY <1>2 DEF DispatchWait, WalkInv, Walking
<1>6. WalkInv'
  BY <1>1, <1>2, <1>4, <1>5 DEF WalkInv, Walking, Sent
<1> QED
  BY <1>3, <1>6

\* A row that a chain of waiting rows goes through waits.
LEMMA ChainWaits ==
    ASSUME NEW i \in Id, NEW j \in Id, NEW C \in SUBSET (1..j), WaitingChain(C), i \in C
    PROVE  Waits(i)
<1> DEFINE D == {k \in C : k <= i}
<1>1. WaitingChain(D)
  <2> SUFFICES ASSUME NEW k \in D
               PROVE  /\ Queued(k) /\ ~Lost(k)
                      /\ \/ \E m \in outbox[k].ms : Waiting(m)
                         \/ \E l \in D : l < k /\ outbox[l].ms \cap outbox[k].ms # {}
    BY DEF WaitingChain
  <2>1. /\ Queued(k) /\ ~Lost(k)
        /\ \/ \E m \in outbox[k].ms : Waiting(m)
           \/ \E l \in C : l < k /\ outbox[l].ms \cap outbox[k].ms # {}
    BY DEF WaitingChain
  <2>2. \A l \in C : l < k => l \in D
    BY DEF Id
  <2> QED
    BY <2>1, <2>2
<1>2. D \in SUBSET (1..i) /\ i \in D
  <2>1. \A k \in C : k \in Int /\ 1 <= k
    OBVIOUS
  <2>2. i \in Int /\ i \in D
    BY DEF Id
  <2>3. \A k \in D : k \in 1..i
    BY <2>1, <2>2
  <2> HIDE DEF D
  <2> QED
    BY <2>2, <2>3
<1> QED
  BY <1>1, <1>2 DEF Waits

\* A row none of whose messages is held any more leaves the queue: nothing waits behind it, and it
\* was on top of nothing that is shown.
LEMMA MootKeeps ==
    ASSUME Orderly, Inductive, TypeOK', NEW e \in Engine, NEW i \in Id, DispatchMoot(e, i)
    PROVE  Inductive'
<1> USE DEF Inductive
<1>1. \A f \in Engine : f = e
  BY DEF Orderly
<1>2. eng'[e].pc = "walk" /\ eng'[e].cur = 0 /\ eng'[e].todo = eng[e].todo \ {i}
  BY DEF DispatchMoot, Passed, TypeOK, Idle
<1>3. /\ UNCHANGED <<server, local, place, lastId, carried>> /\ ~Waits(i)
      /\ \A m \in outbox[i].ms : place[m].at = "gone"
  BY DEF DispatchMoot
<1>4. /\ \A j \in Id : j # i => outbox'[j] = outbox[j]
      /\ outbox'[i].ms = {} /\ outbox'[i].alone = {} /\ outbox'[i].v = Gone
  BY DEF DispatchMoot, Dropped, NoRow, TypeOK
<1>5. PlacesInv'
  BY <1>1, <1>2, <1>3 DEF PlacesInv
<1>6. RowsInv' /\ OrderInv'
  BY <1>3, <1>4 DEF RowsInv, OrderInv, Queued
<1>7. PendingShown'
  <2> SUFFICES ASSUME NEW m \in Message, NEW j \in Id, IsTop(j, m)', place'[m].at # "gone"
               PROVE  local'[m] = outbox'[j].v
    BY DEF PendingShown
  <2>1. m \notin On(i) /\ place[m].at # "gone"
    BY <1>3 DEF RowsInv, On
  <2>2. j # i
    BY <1>4 DEF IsTop, PendingOn, Shows, On
  <2>3. IsTop(j, m)
    BY <1>4, <2>1, <2>2 DEF IsTop, PendingOn, Shows, On
  <2> QED
    BY <1>3, <1>4, <2>1, <2>2, <2>3 DEF PendingShown
<1>8. ASSUME NEW j \in Id, Queued(j)', j \notin eng'[e].todo
      PROVE  PassedOver(e, j)' \/ \A k \in eng'[e].todo : k < j
  <2>1. j # i /\ Queued(j) /\ j \notin eng[e].todo /\ Walking(e)
    BY <1>2, <1>4, <1>8 DEF Queued, DispatchMoot, Walking
  <2>2. CASE PassedOver(e, j)
    <3>1. PICK C \in SUBSET (1..j) : j \in C /\ WaitingChain(C)
      BY <2>2 DEF PassedOver
    <3>2. i \notin C
      BY <1>3, <3>1, ChainWaits
    <3>3. C \in SUBSET Id
      BY DEF Id
    <3>4. WaitingChain(C)'
      BY <1>3, <1>4, <1>5, <3>1, <3>2, <3>3, ChainKept DEF Waiting, Sought
    <3> QED
      BY <1>2, <3>1, <3>4 DEF PassedOver
  <2> QED
    BY <1>2, <2>1, <2>2 DEF WalkInv
<1>9. \A k \in eng'[e].todo : k <= lastId'
  BY <1>2, <1>3 DEF DispatchMoot, WalkInv, Walking
<1>10. WalkInv'
  BY <1>1, <1>2, <1>8, <1>9 DEF WalkInv, Walking, Sent
<1> QED
  BY <1>5, <1>6, <1>7, <1>10

\* A row that is sent does not wait, so no row before it that shares its messages is queued:
\* such a row would have been passed over, and what waits behind a row that waits, waits.
LEMMA SendKeeps ==
    ASSUME Orderly, Inductive, TypeOK', NEW e \in Engine, NEW i \in Id, DispatchSend(e, i)
    PROVE  Inductive'
<1> USE DEF Inductive
<1>1. \A f \in Engine : f = e
  BY DEF Orderly
<1>2. /\ eng'[e].pc = "wire" /\ eng'[e].cur = i /\ eng'[e].todo = eng[e].todo
      /\ eng'[e].v = outbox[i].v /\ eng'[e].ms = Addressed(i)
  BY DEF DispatchSend, TypeOK, EngineState
<1>3. eng[e].cur = 0 /\ Walking(e) /\ Queued(i) /\ ~Waits(i) /\ ~Lost(i) /\ IsNext(e, i)
  BY DEF DispatchSend, WalkInv, Walking
<1>4. PlacesInv' /\ RowsInv' /\ OrderInv' /\ PendingShown'
  BY <1>1, <1>2
  DEF DispatchSend, PlacesInv, RowsInv, OrderInv, PendingShown, Queued, IsTop, PendingOn,
      Shows, On
<1>5. ASSUME NEW j \in Id, NEW C \in SUBSET (1..j), WaitingChain(C) PROVE i \notin C
  BY <1>3, <1>5, ChainWaits
<1>6. ASSUME NEW j \in Id, j < i PROVE outbox[j].ms \cap outbox[i].ms = {}
  <2> SUFFICES ASSUME outbox[j].ms \cap outbox[i].ms # {} PROVE Waits(i)
    BY <1>3
  <2>1. Queued(j) /\ j \notin eng[e].todo /\ ~\A k \in eng[e].todo : k < j
    BY <1>3, <1>6 DEF Queued, IsNext, Id
  <2>2. PassedOver(e, j)
    BY <1>3, <2>1 DEF WalkInv
  <2>3. PICK C \in SUBSET (1..j) : j \in C /\ WaitingChain(C)
    BY <2>2 DEF PassedOver
  <2>4. WaitingChain(C \cup {i})
    BY <1>3, <1>6, <2>3 DEF WaitingChain
  <2>5. C \cup {i} \in SUBSET (1..i)
    BY <1>6 DEF Id
  <2> QED
    BY <2>4, <2>5 DEF Waits
<1>7. ASSUME NEW j \in Id, Queued(j)', j \notin eng'[e].todo
      PROVE  PassedOver(e, j)' \/ \A k \in eng'[e].todo : k < j
  <2>1. Queued(j)
    BY <1>7 DEF DispatchSend, Queued
  <2>2. CASE PassedOver(e, j)
    <3>1. PICK C \in SUBSET (1..j) : j \in C /\ WaitingChain(C)
      BY <2>2 DEF PassedOver
    <3>2. i \notin C
      BY <1>5, <3>1
    <3>3. WaitingChain(C)'
      BY <3>1 DEF DispatchSend, WaitingChain, Queued, Lost, GivenUp, Waiting, Sought
    <3> QED
      BY <1>2, <3>1, <3>2, <3>3 DEF PassedOver
  <2> QED
    BY <1>2, <1>3, <1>7, <2>1, <2>2 DEF WalkInv
<1>8. /\ Queued(i)' /\ IsNext(e, i)'
      /\ Addressed(i) \subseteq outbox[i].ms
  BY <1>2, <1>3 DEF DispatchSend, Queued, IsNext, RowsInv, Addressed
<1>9. \A k \in eng'[e].todo : k <= lastId'
  BY <1>2, <1>3 DEF DispatchSend, WalkInv
<1>10. outbox' = outbox
  BY DEF DispatchSend
<1>11. WalkInv'
  BY <1>1, <1>2, <1>6, <1>7, <1>8, <1>9, <1>10 DEF WalkInv, Walking, Sent
<1> QED
  BY <1>4, <1>11

\* The server carries out the row on the wire: nothing queued before it names those messages.
LEMMA ServeKeeps ==
    ASSUME Orderly, Inductive, TypeOK', NEW e \in Engine,
           NEW ans \in Answers, NEW done \in SUBSET eng[e].ms, Serve(e, ans, done)
    PROVE  Inductive'
<1> USE DEF Inductive
<1> DEFINE cur == eng[e].cur
<1>1. \A f \in Engine : f = e
  BY DEF Orderly
<1>2. /\ eng'[e].pc = "served" /\ eng'[e].ans = ans
      /\ eng'[e].cur = cur /\ eng'[e].todo = eng[e].todo
      /\ eng'[e].v = eng[e].v /\ eng'[e].ms = eng[e].ms
  BY DEF Serve, TypeOK, EngineState
<1>3. ans \in {"ok", "cancel"}
  BY DEF Serve, Fault, Orderly
<1>4. /\ Sent(e) /\ Walking(e) /\ cur \in Id /\ Queued(cur)
      /\ eng[e].ms \subseteq outbox[cur].ms
      /\ \A j \in Id : j < cur => outbox[j].ms \cap outbox[cur].ms = {}
      /\ cur \in eng[e].todo /\ \A k \in eng[e].todo : k <= lastId
  BY DEF Serve, Sent, Walking, TypeOK, WalkInv, IsNext
<1>5. UNCHANGED <<local, place, outbox, lastId>>
  BY DEF Serve
<1>6. PlacesInv'
  BY <1>1, <1>2, <1>4, <1>5 DEF Serve, PlacesInv
<1>7. /\ \A j \in Id : j # cur => carried'[j] = carried[j]
      /\ carried'[cur] = carried[cur] \cup done
  BY <1>4 DEF Serve, TypeOK
<1>8. RowsInv' /\ PendingShown'
  BY <1>4, <1>5, <1>7 DEF RowsInv, PendingShown, Queued, IsTop, PendingOn, Shows, On
<1>9. OrderInv'
  BY <1>4, <1>5, <1>7 DEF OrderInv
<1>10. ASSUME NEW j \in Id PROVE PassedOver(e, j) => PassedOver(e, j)'
  BY <1>2, <1>5 DEF PassedOver, WaitingChain, Queued, Lost, GivenUp, Waiting, Sought
<1>11. WalkInv'
  BY <1>1, <1>2, <1>3, <1>4, <1>5, <1>10 DEF WalkInv, Walking, Sent, IsNext, Queued
<1> QED
  BY <1>6, <1>8, <1>9, <1>11

\* An answer: a message moved without a word is one more that waits.
LEMMA HeardKeeps ==
    ASSUME Orderly, Inductive, TypeOK', NEW e \in Engine,
           NEW answered \in SUBSET eng[e].done, NEW unsaid \in SUBSET answered,
           Heard(e, answered, unsaid)
    PROVE  Inductive'
<1> USE DEF Inductive
<1>1. \A f \in Engine : f = e
  BY DEF Orderly
<1>2. UNCHANGED <<server, local, outbox, lastId, carried>>
  BY DEF Heard
<1>3. \A m \in Message : place'[m] = place[m] \/ (place[m].at = "at" /\ place'[m] = Unplaced)
  BY DEF Heard
<1>4. eng'[e] = Idle \/ /\ eng'[e].pc = "answered" /\ eng'[e].ans = "ok"
                        /\ eng'[e].cur = eng[e].cur /\ eng'[e].todo = eng[e].todo
                        /\ eng'[e].v = eng[e].v /\ eng'[e].ms = eng[e].ms
  <2>1. eng[e] \in EngineState /\ eng[e].ans \in {"ok", "cancel"}
    BY DEF Heard, TypeOK, WalkInv
  <2> QED
    BY <2>1 DEF Heard, TypeOK, EngineState
<1>5. PlacesInv'
  BY <1>1, <1>2, <1>3, <1>4 DEF PlacesInv, Unplaced, Idle
<1>6. RowsInv' /\ OrderInv' /\ PendingShown'
  <2>1. \A m \in Message : place'[m].at # "gone" => place[m].at # "gone"
    BY <1>3 DEF Unplaced
  <2> QED
    BY <1>2, <2>1 DEF RowsInv, OrderInv, PendingShown, Queued, IsTop, PendingOn, Shows, On
<1>7. CASE eng'[e] = Idle
  <2>1. WalkInv'
    BY <1>1, <1>7 DEF WalkInv, Walking, Sent, Idle
  <2> QED
    BY <1>5, <1>6, <2>1
<1>8. CASE eng'[e] # Idle
  <2>1. ASSUME NEW j \in Id, PassedOver(e, j) PROVE PassedOver(e, j)'
    <3>1. PICK C \in SUBSET (1..j) : j \in C /\ eng[e].cur \notin C /\ WaitingChain(C)
      BY <2>1 DEF PassedOver
    <3>2. C \in SUBSET Id
      BY DEF Id
    <3>3. \A m \in Message : Waiting(m) => Waiting(m)'
      BY <1>3 DEF Waiting, Sought, Unplaced
    <3>4. WaitingChain(C)'
      BY <1>2, <1>5, <3>1, <3>2, <3>3, ChainKept
    <3> QED
      BY <1>4, <1>8, <3>1, <3>4 DEF PassedOver
  <2>2. Sent(e) /\ Walking(e)
    BY DEF Heard, Sent, Walking
  <2>3. WalkInv'
    BY <1>1, <1>2, <1>4, <1>8, <2>1, <2>2 DEF WalkInv, Walking, Sent, IsNext, Queued
  <2> QED
    BY <1>5, <1>6, <2>3
<1> QED
  BY <1>7, <1>8

\* A confirmed row is the earliest queued on its messages, so what remains on top of them stays.
LEMMA SettleOkKeeps ==
    ASSUME Orderly, Inductive, TypeOK', NEW e \in Engine, SettleOk(e)
    PROVE  Inductive'
<1> USE DEF Inductive
<1> DEFINE cur == eng[e].cur
<1>1. \A f \in Engine : f = e
  BY DEF Orderly
<1>2. /\ eng'[e].pc = "walk" /\ eng'[e].cur = 0 /\ eng'[e].todo = eng[e].todo \ {cur}
  BY DEF SettleOk, Passed, TypeOK, Idle
<1>3. /\ Sent(e) /\ Walking(e) /\ cur \in Id /\ Queued(cur)
      /\ \A j \in Id : j < cur => outbox[j].ms \cap outbox[cur].ms = {}
      /\ \A k \in eng[e].todo : k <= lastId
  BY DEF SettleOk, Sent, Walking, TypeOK, WalkInv
<1>4. UNCHANGED <<server, local, place, lastId, carried>>
  BY DEF SettleOk
<1>5. /\ \A j \in Id : j # cur => outbox'[j] = outbox[j]
      /\ outbox'[cur].ms = {} /\ outbox'[cur].alone = {}
  BY <1>3 DEF SettleOk, Dropped, NoRow, TypeOK
<1>6. PlacesInv'
  BY <1>1, <1>2, <1>4 DEF PlacesInv
<1>7. RowsInv' /\ OrderInv'
  BY <1>4, <1>5 DEF RowsInv, OrderInv, Queued
<1>8. PendingShown'
  <2> SUFFICES ASSUME NEW m \in Message, NEW i \in Id, IsTop(i, m)', place'[m].at # "gone"
               PROVE  local'[m] = outbox'[i].v
    BY DEF PendingShown
  <2>1. /\ i # cur /\ outbox[i].v # Gone /\ m \in On(i)
        /\ \A j \in Id : j # cur /\ outbox[j].v # Gone /\ m \in On(j) => j <= i
    BY <1>5 DEF IsTop, PendingOn, Shows, On
  <2>2. m \in On(cur) => cur <= i
    BY <1>3, <2>1 DEF Id, RowsInv, On
  <2>3. IsTop(i, m)
    BY <2>1, <2>2 DEF IsTop, PendingOn, Shows, On
  <2> QED
    BY <1>4, <1>5, <2>1, <2>3 DEF PendingShown
<1>9. ASSUME NEW j \in Id, Queued(j)', j \notin eng'[e].todo
      PROVE  PassedOver(e, j)' \/ \A k \in eng'[e].todo : k < j
  <2>1. j # cur /\ Queued(j) /\ j \notin eng[e].todo
    BY <1>2, <1>5, <1>9 DEF Queued
  <2>2. CASE PassedOver(e, j)
    <3>1. PICK C \in SUBSET (1..j) : j \in C /\ cur \notin C /\ WaitingChain(C)
      BY <2>2 DEF PassedOver
    <3>2. C \in SUBSET Id
      BY DEF Id
    <3>3. WaitingChain(C)'
      BY <1>4, <1>5, <1>6, <3>1, <3>2, ChainKept DEF Waiting, Sought
    <3> QED
      BY <1>2, <3>1, <3>3 DEF PassedOver
  <2> QED
    BY <1>2, <1>3, <2>1, <2>2 DEF WalkInv
<1>10. WalkInv'
  BY <1>1, <1>2, <1>3, <1>4, <1>9 DEF WalkInv, Walking, Sent
<1> QED
  BY <1>6, <1>7, <1>8, <1>10

\* What the walk goes by, left alone, leaves its invariant.
LEMMA WalkStays ==
    ASSUME UNCHANGED <<place, outbox, lastId, eng>>, WalkInv
    PROVE  WalkInv'
<1>1. \A j \in Id : Queued(j)' = Queued(j) /\ Lost(j)' = Lost(j)
  BY DEF Queued, Lost, GivenUp
<1>2. ASSUME NEW C \in SUBSET Id, WaitingChain(C) PROVE WaitingChain(C)'
  BY <1>1, <1>2 DEF WaitingChain, Waiting, Sought
<1>3. ASSUME NEW e \in Engine, NEW j \in Id, PassedOver(e, j) PROVE PassedOver(e, j)'
  <2>1. PICK C \in SUBSET (1..j) : j \in C /\ eng[e].cur \notin C /\ WaitingChain(C)
    BY <1>3 DEF PassedOver
  <2>2. C \in SUBSET Id
    BY DEF Id
  <2> QED
    BY <1>2, <2>1, <2>2 DEF PassedOver
<1>4. \A e \in Engine :
          /\ Walking(e)' = Walking(e) /\ Sent(e)' = Sent(e)
          /\ IsNext(e, eng[e].cur)' = IsNext(e, eng[e].cur)
  BY DEF Walking, Sent, IsNext
<1>5. \A e \in Engine : Sent(e) => Queued(eng[e].cur)'
  BY DEF WalkInv, Queued
<1> QED
  BY <1>1, <1>3, <1>4, <1>5 DEF WalkInv

\* With nothing queued and nothing unplaced, the inductive invariant holds.
LEMMA InductiveInit == Orderly /\ Init => Inductive
<1> SUFFICES ASSUME Orderly, Init PROVE Inductive
  OBVIOUS
<1>1. TypeOK
  BY TypeInit
<1>2. PlacesInv
  BY DEF Init, PlacesInv, At, Idle
<1>3. \A i \in Id : /\ outbox[i].ms = {} /\ outbox[i].alone = {}
                     /\ outbox[i].v = Gone /\ carried[i] = {}
  BY DEF Init, NoRow
<1>4. RowsInv /\ OrderInv /\ PendingShown
  BY <1>3 DEF RowsInv, OrderInv, PendingShown, Queued, IsTop, PendingOn, Shows, On
<1>5. WalkInv
  BY DEF Init, WalkInv, Walking, Sent, Idle
<1> QED
  BY <1>1, <1>2, <1>4, <1>5 DEF Inductive

\* Each action keeps the inductive invariant; what Orderly rules out cannot happen.
LEMMA InductiveStep == Orderly /\ Inductive /\ [Next]_vars => Inductive'
<1> SUFFICES ASSUME Orderly, Inductive, [Next]_vars PROVE Inductive'
  OBVIOUS
<1>0. TypeOK /\ TypeOK'
  BY TypeStep DEF Inductive
<1>1. ASSUME NEW k \in Kinds, NEW ms \in SUBSET Message, NEW v \in Value, Act(k, ms, v)
      PROVE  Inductive'
  BY <1>0, <1>1, ActKeeps
<1>2. ASSUME NEW i \in Id, TakeBack(i) \/ ComeDue(i) PROVE FALSE
  BY <1>2 DEF TakeBack, ComeDue, Inductive, RowsInv
<1>3. ASSUME NEW m \in Message, NEW v \in Held, Elsewhere(m, v) PROVE Inductive'
  <2>1. v # Gone /\ UNCHANGED <<local, place, outbox, lastId, eng, carried>>
    BY <1>3 DEF Elsewhere, Orderly
  <2>2. PlacesInv'
    BY <1>3, <1>0, <2>1 DEF Elsewhere, PlacesInv, Inductive, TypeOK
  <2>3. RowsInv' /\ OrderInv' /\ PendingShown'
    BY <2>1 DEF Inductive, RowsInv, OrderInv, PendingShown, Queued, IsTop, PendingOn, Shows, On
  <2>4. WalkInv'
    BY <2>1, WalkStays DEF Inductive
  <2> QED
    BY <1>0, <2>2, <2>3, <2>4 DEF Inductive
<1>4. ASSUME NEW e \in Engine, SyncFetch(e) PROVE Inductive'
  BY <1>0, <1>4, ResetKeeps DEF SyncFetch, TypeOK, Idle
<1>5. ASSUME NEW e \in Engine, SyncIngest(e) PROVE Inductive'
  BY <1>0, <1>5, IngestKeeps
<1>6. ASSUME NEW e \in Engine, DrainList(e) PROVE Inductive'
  BY <1>0, <1>6, ListKeeps
<1>7. ASSUME NEW e \in Engine, Dispatch(e) PROVE Inductive'
  <2>1. PICK i \in Id : DispatchWait(e, i) \/ DispatchMoot(e, i)
                         \/ DispatchLost(e, i) \/ DispatchSend(e, i)
    BY <1>7 DEF Dispatch
  <2>2. ~DispatchLost(e, i)
    BY NothingLost DEF DispatchLost, Inductive
  <2> QED
    BY <1>0, <2>1, <2>2, WaitKeeps, MootKeeps, SendKeeps
<1>8. ASSUME NEW e \in Engine, DrainEnd(e) \/ SettleMissing(e) \/ Crash(e) PROVE Inductive'
  <2>1. UNCHANGED <<server, local, place, outbox, lastId, carried>> /\ eng'[e] = Idle
    BY <1>0, <1>8 DEF DrainEnd, SettleMissing, Crash, TypeOK
  <2> QED
    BY <1>0, <2>1, ResetKeeps
<1>9. ASSUME NEW e \in Engine, Served(e) PROVE Inductive'
  BY <1>0, <1>9, ServeKeeps DEF Served
<1>10. ASSUME NEW e \in Engine, Answered(e) PROVE Inductive'
  BY <1>0, <1>10, HeardKeeps DEF Answered
<1>11. ASSUME NEW e \in Engine, SettleOk(e) PROVE Inductive'
  BY <1>0, <1>11, SettleOkKeeps
<1>12. ASSUME NEW e \in Engine, SettleLater(e) \/ SettleRefused(e) PROVE FALSE
  BY <1>12 DEF SettleLater, SettleRefused, Inductive, WalkInv
<1>13. CASE UNCHANGED vars
  <2>1. PlacesInv' /\ RowsInv' /\ OrderInv' /\ PendingShown'
    BY <1>13 DEF vars, Inductive, PlacesInv, RowsInv, OrderInv, PendingShown, Queued, IsTop,
                 PendingOn, Shows, On
  <2>2. WalkInv'
    BY <1>13, WalkStays DEF vars, Inductive
  <2> QED
    BY <1>0, <2>1, <2>2 DEF Inductive
<1> QED
  BY <1>1, <1>2, <1>3, <1>4, <1>5, <1>6, <1>7, <1>8, <1>9, <1>10, <1>11, <1>12, <1>13
  DEF Next, Person, Pass, Settle, Renumbered, SyncReset, Fault, Orderly

\* Whatever syncs write and however passes are cut off, a message with queued changes shows the
\* last of them: PendingShown, for every number of messages, values and rows.
THEOREM PendingAlwaysShown == ASSUME Orderly PROVE Spec => []PendingShown
<1>1. Inductive => PendingShown
  BY DEF Inductive
<1> QED
  BY <1>1, InductiveInit, InductiveStep, PTL DEF Spec

\* No row is carried out on a message after a later one has been: ReachesInOrder, though rows
\* wait for messages a sync is to find and later rows on other messages pass them by.
THEOREM AlwaysInOrder == ASSUME Orderly PROVE Spec => ReachesInOrder
<1>1. Inductive /\ [Next]_vars => [CarriedInOrder]_vars
  <2> SUFFICES ASSUME Inductive, [Next]_vars, NEW i \in Id, NEW j \in Id, NEW m \in Message,
                      m \in carried'[i] \ carried[i], j > i
               PROVE  m \notin carried[j]
    BY DEF CarriedInOrder
  <2>1. \E e \in Engine : Served(e)
    <3>1. carried' # carried
      OBVIOUS
    <3>2. ~Person /\ ~UNCHANGED vars
          /\ (\A k \in Id : ~ComeDue(k)) /\ (\A n \in Message, v \in Held : ~Elsewhere(n, v))
          /\ \A e \in Engine : ~Renumbered(e)
      BY <3>1 DEF Person, Act, TakeBack, vars, ComeDue, Elsewhere, Renumbered, SyncReset
    <3>3. ASSUME NEW e \in Engine PROVE ~SyncFetch(e) /\ ~SyncIngest(e) /\ ~DrainList(e)
      BY <3>1 DEF SyncFetch, SyncIngest, DrainList
    <3>4. ASSUME NEW e \in Engine PROVE ~Dispatch(e) /\ ~DrainEnd(e) /\ ~Crash(e)
      BY <3>1 DEF Dispatch, DispatchWait, DispatchMoot, DispatchLost, DispatchSend, DrainEnd, Crash
    <3>5. ASSUME NEW e \in Engine PROVE ~Answered(e) /\ ~Settle(e)
      BY <3>1 DEF Answered, Heard, Settle, SettleMissing, SettleOk, SettleLater, SettleRefused
    <3> QED
      BY <3>2, <3>3, <3>4, <3>5 DEF Next, Pass
  <2>2. PICK e \in Engine : Served(e)
    BY <2>1
  <2>3. PICK ans \in Answers, done \in SUBSET eng[e].ms : Serve(e, ans, done)
    BY <2>2 DEF Served
  <2>4. i = eng[e].cur /\ m \in eng[e].ms
    BY <2>3 DEF Serve, Inductive, TypeOK
  <2>5. m \in outbox[i].ms
    BY <2>3, <2>4 DEF Serve, Inductive, WalkInv, Sent
  <2> QED
    BY <2>5 DEF Inductive, OrderInv
<1> QED
  BY <1>1, InductiveInit, InductiveStep, PTL DEF Spec, ReachesInOrder

-----------------------------------------------------------------------------
(* No row is dropped unsaid, for any number of engines and every fault but *)
(* a session whose cut answer is taken for a whole one.                     *)

\* What an engine believes of the row it has in its hands is so: what it did not send to is gone,
\* what was confirmed was carried out, what was refused in part was done in that part.
Truthful(e) ==
    /\ \A i \in eng[e].todo : i <= lastId
    /\ eng[e].pc \in {"wire", "served", "answered"} =>
          /\ eng[e].cur <= lastId
          /\ \A m \in outbox[eng[e].cur].ms : m \in eng[e].ms \/ place[m].at = "gone"
    /\ eng[e].pc \in {"served", "answered"} =>
          /\ eng[e].ans = "ok" => eng[e].ms \subseteq carried[eng[e].cur]
          /\ eng[e].ans = "fatal" => eng[e].done \subseteq carried[eng[e].cur]

\* Rows are queued in order, so an engine's row is not queued again under it.
Numbered == \A i \in Id : Queued(i) => i <= lastId

Faithful == TypeOK /\ Numbered /\ \A e \in Engine : Truthful(e)

\* What no step takes back: rows only shrink, what is gone stays gone, what is done stays done.
Onward ==
    /\ lastId <= lastId'
    /\ \A i \in Id : i <= lastId => outbox'[i].ms \subseteq outbox[i].ms
    /\ \A i \in Id : Queued(i)' => i <= lastId'
    /\ \A m \in Message : place[m].at = "gone" => place'[m].at = "gone"
    /\ \A i \in Id : carried[i] \subseteq carried'[i]

LEMMA StaysTruthful ==
    ASSUME TypeOK, TypeOK', Onward, NEW e \in Engine, Truthful(e), eng'[e] = eng[e]
    PROVE  Truthful(e)'
<1>1. \A i \in eng[e].todo : i <= lastId'
  BY DEF Truthful, Onward, TypeOK, EngineState, Id
<1>2. ASSUME eng[e].pc \in {"wire", "served", "answered"}
      PROVE  /\ eng[e].cur \in Id /\ eng[e].cur <= lastId'
             /\ \A m \in outbox'[eng[e].cur].ms : m \in eng[e].ms \/ place'[m].at = "gone"
  <2>1. eng[e].cur \in Id /\ eng[e].cur <= lastId /\ lastId \in Nat /\ lastId' \in Nat
    BY <1>2 DEF Truthful, TypeOK
  <2>2. outbox'[eng[e].cur].ms \subseteq outbox[eng[e].cur].ms
        /\ outbox[eng[e].cur].ms \subseteq Message
    BY <2>1 DEF Onward, TypeOK, Row
  <2> QED
    BY <1>2, <2>1, <2>2 DEF Truthful, Onward, Id
<1> QED
  BY <1>1, <1>2 DEF Truthful, Onward

\* An engine between rows has only its list to be right about.
LEMMA AtRest ==
    ASSUME NEW e \in Engine, eng'[e].pc \notin {"wire", "served", "answered"},
           \A i \in eng'[e].todo : i <= lastId'
    PROVE  Truthful(e)'
  BY DEF Truthful

\* A step of one engine leaves the others as they are.
LEMMA OthersTruthful ==
    ASSUME Faithful, TypeOK', Onward, NEW e \in Engine, Truthful(e)',
           \A f \in Engine : f # e => eng'[f] = eng[f]
    PROVE  Faithful'
<1>1. Numbered'
  BY DEF Onward, Numbered
<1> QED
  BY <1>1, StaysTruthful DEF Faithful

LEMMA EveryoneTruthful == ASSUME Faithful, TypeOK', Onward, UNCHANGED eng PROVE Faithful'
<1>1. Numbered'
  BY DEF Onward, Numbered
<1> QED
  BY <1>1, StaysTruthful DEF Faithful

LEMMA FaithfulAct ==
    ASSUME Faithful, TypeOK', NEW k \in Kinds, NEW ms \in SUBSET Message, NEW v \in Value,
           Act(k, ms, v)
    PROVE  Faithful'
<1>1. /\ lastId \in Nat /\ lastId + 1 \in Id /\ UNCHANGED <<place, eng, carried>>
      /\ lastId' = lastId + 1 \/ (lastId' = lastId /\ outbox' = outbox)
  BY DEF Act, Faithful, TypeOK, Id
<1>2. \A i \in Id : i # lastId + 1 => outbox'[i] = outbox[i]
  BY DEF Act, Faithful, TypeOK
<1>3. Onward
  BY <1>1, <1>2 DEF Onward, Faithful, Numbered, Queued, Id
<1> QED
  BY <1>1, <1>3, EveryoneTruthful

\* Rows that are dropped, marked or left alone.
LEMMA FewerRows ==
    ASSUME Faithful, UNCHANGED <<lastId, carried>>,
           \A i \in Id : outbox'[i].ms \subseteq outbox[i].ms,
           \A m \in Message : place[m].at = "gone" => place'[m].at = "gone"
    PROVE  Onward
<1>1. \A i \in Id : Queued(i)' => Queued(i)
  BY DEF Queued
<1> QED
  BY <1>1 DEF Onward, Faithful, Numbered, TypeOK

LEMMA DroppedFewer ==
    ASSUME TypeOK, NEW i \in Id
    PROVE  \A j \in Id : Dropped(i)[j].ms \subseteq outbox[j].ms
  BY DEF TypeOK, Dropped, NoRow

LEMMA FaithfulElse ==
    ASSUME Faithful, TypeOK',
           \/ \E i \in Id : TakeBack(i) \/ ComeDue(i)
           \/ \E m \in Message, v \in Held : Elsewhere(m, v)
           \/ UNCHANGED vars
    PROVE  Faithful'
<1>1. CASE \E i \in Id : TakeBack(i)
  <2>1. PICK i \in Id : TakeBack(i)
    BY <1>1
  <2>2. \A j \in Id : outbox'[j].ms \subseteq outbox[j].ms
    <3>1. CASE outbox' = [outbox EXCEPT ![i].undoable = FALSE]
      BY <3>1 DEF Faithful, TypeOK, Row
    <3>2. CASE outbox' = Dropped(i)
      BY <3>2, DroppedFewer DEF Faithful
    <3> QED
      BY <2>1, <3>1, <3>2 DEF TakeBack
  <2> QED
    BY <2>1, <2>2, FewerRows, EveryoneTruthful DEF TakeBack
<1>2. CASE \E i \in Id : ComeDue(i)
  <2>1. PICK i \in Id : ComeDue(i)
    BY <1>2
  <2>2. \A j \in Id : outbox'[j].ms \subseteq outbox[j].ms
    BY <2>1 DEF ComeDue, Faithful, TypeOK, Row
  <2> QED
    BY <2>1, <2>2, FewerRows, EveryoneTruthful DEF ComeDue
<1>3. CASE UNCHANGED <<place, outbox, lastId, eng, carried>>
  BY <1>3, FewerRows, EveryoneTruthful
<1> QED
  BY <1>1, <1>2, <1>3 DEF Elsewhere, vars

\* A pass that syncs, lists or ends: no row is in its hands.
LEMMA FaithfulSync ==
    ASSUME Faithful, TypeOK', NEW e \in Engine,
           SyncFetch(e) \/ SyncIngest(e) \/ DrainList(e) \/ DrainEnd(e) \/ Crash(e)
             \/ Renumbered(e)
    PROVE  Faithful'
<1>0. eng \in [Engine -> EngineState] /\ place \in [Message -> Place]
  BY DEF Faithful, TypeOK
<1>1. UNCHANGED <<outbox, lastId, carried>>
  BY DEF SyncFetch, SyncIngest, DrainList, DrainEnd, Crash, Renumbered, SyncReset
<1>2. ASSUME NEW m \in Message, place[m].at = "gone" PROVE place'[m].at = "gone"
  <2>1. CASE SyncIngest(e)
    <3>1. PICK found \in SUBSET Findable(e), moved \in SUBSET Moved(e) : Ingested(e, found, moved)
      BY <2>1 DEF SyncIngest
    <3>2. m \notin found
      BY <1>2, <3>1 DEF Findable
    <3> QED
      BY <1>2, <3>1, <3>2 DEF Ingested, Listed, Vanished
  <2>2. CASE DrainList(e)
    BY <1>2, <2>2 DEF DrainList, Sought
  <2>3. CASE Renumbered(e)
    BY <1>2, <2>3 DEF Renumbered, SyncReset
  <2> QED
    BY <1>2, <2>1, <2>2, <2>3 DEF SyncFetch, DrainEnd, Crash
<1>3. Onward
  BY <1>1, <1>2, FewerRows
<1>4. /\ eng'[e].pc \notin {"wire", "served", "answered"}
      /\ \A i \in eng'[e].todo : i <= lastId
      /\ \A f \in Engine : f # e => eng'[f] = eng[f]
  <2>1. CASE DrainList(e)
    BY <1>0, <2>1 DEF DrainList, Idle, Faithful, Numbered
  <2>2. CASE SyncFetch(e)
    BY <1>0, <2>2 DEF SyncFetch, Idle
  <2>3. CASE SyncIngest(e)
    BY <1>0, <2>3 DEF SyncIngest, Idle
  <2>4. CASE DrainEnd(e) \/ Crash(e)
    BY <1>0, <2>4 DEF DrainEnd, Crash, Idle
  <2>5. CASE Renumbered(e)
    BY <2>5 DEF Renumbered, SyncReset, Faithful, Truthful
  <2> QED
    BY <2>1, <2>2, <2>3, <2>4, <2>5
<1> QED
  BY <1>1, <1>3, <1>4, AtRest, OthersTruthful

LEMMA FaithfulDispatch ==
    ASSUME Faithful, TypeOK', NEW e \in Engine, Dispatch(e) PROVE Faithful'
<1>0. eng \in [Engine -> EngineState]
  BY DEF Faithful, TypeOK
<1>1. PICK i \in Id : \/ DispatchWait(e, i) \/ DispatchMoot(e, i)
                      \/ DispatchLost(e, i) \/ DispatchSend(e, i)
  BY DEF Dispatch
<1>2. CASE DispatchWait(e, i) \/ DispatchMoot(e, i) \/ DispatchLost(e, i)
  <2>1. /\ eng' = Passed(e, i) /\ UNCHANGED <<place, lastId, carried>>
        /\ outbox' = outbox \/ outbox' = Dropped(i)
    BY <1>2 DEF DispatchWait, DispatchMoot, DispatchLost
  <2>2. Onward
    BY <2>1, FewerRows, DroppedFewer DEF Faithful
  <2>3. /\ eng'[e].pc = "walk" /\ eng'[e].todo = eng[e].todo \ {i}
        /\ \A f \in Engine : f # e => eng'[f] = eng[f]
    BY <1>0, <2>1 DEF Passed, Idle
  <2>4. Truthful(e)'
    BY <2>1, <2>3, AtRest DEF Faithful, Truthful
  <2> QED
    BY <2>2, <2>3, <2>4, OthersTruthful
<1>3. CASE DispatchSend(e, i)
  <2>1. /\ eng'[e].pc = "wire" /\ eng'[e].cur = i /\ eng'[e].ms = Addressed(i)
        /\ eng'[e].todo = eng[e].todo /\ UNCHANGED <<outbox, place, lastId, carried>>
        /\ \A f \in Engine : f # e => eng'[f] = eng[f]
    BY <1>0, <1>3 DEF DispatchSend, EngineState
  <2>2. Onward
    BY <2>1, FewerRows
  <2>3. ASSUME NEW m \in outbox[i].ms PROVE m \in Addressed(i) \/ place[m].at = "gone"
    <3>1. place[m] \in Place /\ ~GivenUp(m)
      BY <1>3, <2>3 DEF DispatchSend, Lost, Faithful, TypeOK, Row
    <3>2. ~Waiting(m)
      <4>1. Waiting(m) => WaitingChain({i})
        BY <1>3, <2>3 DEF DispatchSend, WaitingChain
      <4>2. WaitingChain({i}) => Waits(i)
        BY DEF Waits, Id
      <4> QED
        BY <1>3, <4>1, <4>2 DEF DispatchSend
    <3>3. place[m].at # "unplaced" /\ place[m].at # "nowhere"
      BY <3>1, <3>2 DEF Waiting, Sought, GivenUp, Place
    <3> QED
      BY <2>3, <3>1, <3>3 DEF Addressed, Place
  <2>4. i <= lastId
    BY <1>3 DEF DispatchSend, Faithful, Numbered
  <2>5. Truthful(e)'
    BY <2>1, <2>3, <2>4 DEF Truthful, Faithful
  <2> QED
    BY <2>1, <2>2, <2>5, OthersTruthful
<1> QED
  BY <1>1, <1>2, <1>3

LEMMA FaithfulServed ==
    ASSUME "stopped" \notin Faults, Faithful, TypeOK', NEW e \in Engine, Served(e) PROVE Faithful'
<1>1. PICK ans \in Answers, done \in SUBSET eng[e].ms : Serve(e, ans, done)
  BY DEF Served
<1>2. eng \in [Engine -> EngineState] /\ eng[e].cur \in Id /\ carried \in [Id -> SUBSET Message]
  BY <1>1 DEF Serve, Faithful, TypeOK
<1>3. /\ eng'[e].pc = "served" /\ eng'[e].ans = ans /\ eng'[e].cur = eng[e].cur
      /\ eng'[e].todo = eng[e].todo /\ eng'[e].ms = eng[e].ms
      /\ ans # "ok" => eng'[e].done = done
      /\ \A f \in Engine : f # e => eng'[f] = eng[f]
  BY <1>1, <1>2 DEF Serve, EngineState
<1>4. UNCHANGED <<outbox, lastId, place>>
  BY <1>1 DEF Serve
<1>5. carried'[eng[e].cur] = carried[eng[e].cur] \cup done
      /\ \A i \in Id : carried[i] \subseteq carried'[i]
  BY <1>1, <1>2 DEF Serve
<1>6. Onward
  BY <1>4, <1>5 DEF Onward, Faithful, Numbered, TypeOK, Queued
<1>7. ans = "ok" => done = eng[e].ms
  BY <1>1 DEF Serve, Fault
<1>8. Truthful(e)'
  <2>1. eng[e].pc = "wire" /\ Truthful(e)
    BY <1>1 DEF Serve, Faithful
  <2> QED
    BY <1>3, <1>4, <1>5, <1>7, <2>1 DEF Truthful
<1> QED
  BY <1>3, <1>6, <1>8, OthersTruthful

LEMMA FaithfulAnswered ==
    ASSUME Faithful, TypeOK', NEW e \in Engine, Answered(e) PROVE Faithful'
<1>0. PICK answered \in SUBSET eng[e].done : \E unsaid \in SUBSET answered :
          Heard(e, answered, unsaid)
  BY DEF Answered
<1>1. PICK unsaid \in SUBSET answered : Heard(e, answered, unsaid)
  BY <1>0
<1>2. eng \in [Engine -> EngineState] /\ place \in [Message -> Place]
  BY DEF Faithful, TypeOK
<1>3. /\ UNCHANGED <<outbox, lastId, carried>> /\ eng[e].pc = "served"
      /\ \A f \in Engine : f # e => eng'[f] = eng[f]
  BY <1>1, <1>2 DEF Heard
<1>4. \A m \in Message : place[m].at = "gone" => place'[m].at = "gone"
  BY <1>1 DEF Heard
<1>5. Onward
  BY <1>3, <1>4, FewerRows
<1>6. CASE eng[e].ans = "cancel"
  <2>1. eng'[e] = Idle
    BY <1>1, <1>2, <1>6 DEF Heard
  <2>2. Truthful(e)'
    BY <2>1, AtRest DEF Idle
  <2> QED
    BY <1>3, <1>5, <2>2, OthersTruthful
<1>7. CASE eng[e].ans # "cancel"
  <2>1. /\ eng'[e].pc = "answered" /\ eng'[e].done = answered /\ eng'[e].cur = eng[e].cur
        /\ eng'[e].todo = eng[e].todo /\ eng'[e].ms = eng[e].ms /\ eng'[e].ans = eng[e].ans
    BY <1>1, <1>2, <1>7 DEF Heard, EngineState
  <2>2. eng[e].cur \in Id /\ outbox[eng[e].cur].ms \subseteq Message
    BY <1>3 DEF Faithful, TypeOK, Row
  <2>3. Truthful(e)'
    BY <1>3, <1>4, <2>1, <2>2 DEF Truthful, Faithful
  <2> QED
    BY <1>3, <1>5, <2>3, OthersTruthful
<1> QED
  BY <1>6, <1>7

LEMMA FaithfulSettle ==
    ASSUME Faithful, TypeOK', NEW e \in Engine, Settle(e) PROVE Faithful'
<1>0. eng \in [Engine -> EngineState] /\ eng[e].cur \in Id
  BY DEF Settle, SettleMissing, SettleOk, SettleLater, SettleRefused, Faithful, TypeOK
<1>1. UNCHANGED <<place, lastId, carried>>
  BY DEF Settle, SettleMissing, SettleOk, SettleLater, SettleRefused
<1>2. \A j \in Id : outbox'[j].ms \subseteq outbox[j].ms
  <2>1. CASE SettleLater(e)
    <3>1. outbox \in [Id -> Row]
      BY DEF Faithful, TypeOK
    <3> QED
      BY <1>0, <2>1, <3>1 DEF SettleLater, Row
  <2>2. CASE ~SettleLater(e)
    BY <1>0, <2>2, DroppedFewer DEF Settle, SettleMissing, SettleOk, SettleRefused, Faithful
  <2> QED
    BY <2>1, <2>2
<1>3. Onward
  BY <1>1, <1>2, FewerRows
<1>4. /\ eng'[e].pc \in {"walk", "idle"} /\ eng'[e].todo \subseteq eng[e].todo
      /\ \A f \in Engine : f # e => eng'[f] = eng[f]
  <2>1. CASE SettleOk(e)
    BY <1>0, <2>1 DEF SettleOk, Passed, Idle
  <2>2. CASE ~SettleOk(e)
    BY <1>0, <2>2 DEF Settle, SettleMissing, SettleLater, SettleRefused, Idle
  <2> QED
    BY <2>1, <2>2
<1>5. Truthful(e)'
  BY <1>1, <1>4, AtRest DEF Faithful, Truthful
<1> QED
  BY <1>3, <1>4, <1>5, OthersTruthful

LEMMA FaithfulStep == "stopped" \notin Faults /\ Faithful /\ [Next]_vars => Faithful'
<1> SUFFICES ASSUME "stopped" \notin Faults, Faithful, [Next]_vars PROVE Faithful'
  OBVIOUS
<1>0. TypeOK'
  BY TypeStep DEF Faithful
<1> QED
  BY <1>0, FaithfulAct, FaithfulElse, FaithfulSync, FaithfulDispatch, FaithfulServed,
     FaithfulAnswered, FaithfulSettle DEF Next, Person, Pass

\* A row leaves the outbox only with each of its messages accounted for: NeverDroppedUnsaid, for
\* any number of engines on one database, whatever is refused, lost, taken back or cut off.
THEOREM DroppedOnlySaid == ASSUME "stopped" \notin Faults PROVE Spec => NeverDroppedUnsaid
<1> DEFINE Leaves(i) == Queued(i) /\ Shows(i) /\ ~Queued(i)'
<1>1. Faithful /\ [Next]_vars => [\A i \in Id : Leaves(i) => Said(i)]_vars
  <2> SUFFICES ASSUME Faithful, [Next]_vars, NEW i \in Id, Leaves(i) PROVE Said(i)
    OBVIOUS
  <2>t. outbox \in [Id -> Row] /\ \A j \in Id : outbox[j].ms \subseteq Message
    BY DEF Faithful, TypeOK, Row
  <2>u. ASSUME NEW done PROVE \A m \in outbox[i].ms \ done :
            place[m].at = "gone" \/ Undone(i, done)[m] = outbox[i].undo[m]
    BY <2>t DEF Undone, On
  <2>d. ASSUME NEW j \in Id, outbox' = Dropped(j) PROVE i = j
    BY <2>t, <2>d DEF Dropped, Queued
  <2>1. ASSUME NEW k \in Kinds, NEW ms \in SUBSET Message, NEW v \in Value, Act(k, ms, v)
        PROVE FALSE
    BY <2>1, <2>t DEF Act, Queued
  <2>2. ASSUME NEW j \in Id, TakeBack(j) PROVE Said(i)
    <3>1. CASE outbox' = Dropped(j)
      BY <2>2, <2>d, <2>u, <3>1 DEF TakeBack, Said
    <3>2. CASE outbox' = [outbox EXCEPT ![j].undoable = FALSE]
      BY <2>t, <3>2 DEF Queued, Row
    <3> QED
      BY <2>2, <3>1, <3>2 DEF TakeBack
  <2>3. ASSUME NEW j \in Id, ComeDue(j) PROVE FALSE
    BY <2>3, <2>t DEF ComeDue, Queued, Row
  <2>4. ASSUME UNCHANGED outbox PROVE FALSE
    BY <2>4 DEF Queued
  <2>5. ASSUME NEW e \in Engine, NEW j \in Id, DispatchMoot(e, j) PROVE Said(i)
    BY <2>5, <2>d DEF DispatchMoot, Said
  <2>6. ASSUME NEW e \in Engine, NEW j \in Id, DispatchLost(e, j) PROVE Said(i)
    <3>1. i = j /\ Lost(i)
      BY <2>6, <2>d DEF DispatchLost
    <3>2. local' = Undone(i, AlreadyThere(i))
      BY <2>6, <3>1 DEF DispatchLost
    <3>3. \A m \in outbox[i].ms : m \in AlreadyThere(i) => known[m] = outbox[i].v
      BY DEF AlreadyThere
    <3> QED
      BY <2>u, <3>1, <3>2, <3>3 DEF Said
  <2>7. ASSUME NEW e \in Engine, SettleOk(e) PROVE Said(i)
    <3>1. eng[e].cur \in Id
      BY <2>7 DEF SettleOk, Faithful, TypeOK
    <3>2. i = eng[e].cur
      BY <2>7, <2>d, <3>1 DEF SettleOk
    <3> QED
      BY <2>7, <3>2 DEF SettleOk, Faithful, Truthful, Said
  <2>8. ASSUME NEW e \in Engine, SettleLater(e) PROVE FALSE
    <3>1. eng[e].cur \in Id
      BY <2>8 DEF SettleLater, Faithful, TypeOK
    <3> QED
      BY <2>8, <2>t, <3>1 DEF SettleLater, Queued, Row
  <2>9. ASSUME NEW e \in Engine, SettleRefused(e) PROVE Said(i)
    <3>1. eng[e].cur \in Id
      BY <2>9 DEF SettleRefused, Faithful, TypeOK
    <3>2. i = eng[e].cur /\ local' = Undone(i, eng[e].done) /\ eng[e].done \subseteq carried[i]
      BY <2>9, <2>d, <3>1 DEF SettleRefused, Faithful, Truthful
    <3> QED
      BY <2>u, <3>2 DEF Said
  <2>10. ASSUME NEW e \in Engine, Pass(e) \/ Crash(e) PROVE Said(i)
    BY <2>10, <2>4, <2>5, <2>6, <2>7, <2>8, <2>9
    DEF Pass, SyncFetch, SyncIngest, DrainList, Dispatch, DispatchWait, DispatchSend, DrainEnd,
        Served, Serve, Answered, Heard, Settle, SettleMissing, Crash
  <2>11. ASSUME NEW m \in Message, NEW v \in Held, Elsewhere(m, v) PROVE FALSE
    BY <2>11, <2>4 DEF Elsewhere
  <2>12. CASE UNCHANGED vars
    BY <2>12, <2>4 DEF vars
  <2>13. ASSUME NEW e \in Engine, Renumbered(e) PROVE FALSE
    BY <2>13, <2>4 DEF Renumbered, SyncReset
  <2> QED
    BY <2>1, <2>2, <2>3, <2>10, <2>11, <2>12, <2>13 DEF Next, Person
<1>2. Init => Faithful
  <2>1. Init => TypeOK
    BY TypeInit
  <2>2. Init => Numbered /\ \A e \in Engine : Truthful(e)
    BY DEF Init, Numbered, Queued, NoRow, Truthful, Idle
  <2> QED
    BY <2>1, <2>2 DEF Faithful
<1> QED
  BY <1>1, <1>2, FaithfulStep, PTL DEF Spec, NeverDroppedUnsaid
=============================================================================
