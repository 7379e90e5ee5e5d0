--------------------------- MODULE ScheduleProofs ---------------------------
(***************************************************************************)
(* What the scheduler of one account promises, for any intervals, waits    *)
(* and bounds: its types; that a syncing link is served and a stopped one  *)
(* not watched; and, where nothing takes the account away, that one pass   *)
(* runs at a time, a link at rest has something to wake it, and announced  *)
(* mail is answered.                                                       *)
(***************************************************************************)
EXTENDS Schedule, TLAPS

WakeType == [ev: {"none", "Tick", "Poll"}, left: Nat]
PassType == [n: Nat, gen: Nat, cut: BOOLEAN]
Sched == [there: BOOLEAN, busy: BOOLEAN, rest: Rest, manual: BOOLEAN, wake: WakeType, gen: Nat, held: Nat,
          begun: Nat, passes: SUBSET PassType, watch: BOOLEAN, offered: BOOLEAN, said: Lives, dirty: BOOLEAN]

\* How far the numbers of passes and generations have come.
Bounded(t) ==
    /\ t.gen + (IF t.busy THEN 1 ELSE 0) <= 2 * t.begun /\ t.held <= t.begun
    /\ \A p \in t.passes : p.n \in 1..t.begun /\ p.gen \in 1..(2 * t.begun)

\* A step that neither begins nor ends a pass: it may set the timer, start or stop the watch, and
\* change how the link is kept up.
Stays(t, u) ==
    /\ u \in Sched /\ u.there = t.there /\ u.busy = t.busy /\ u.manual = t.manual /\ u.gen = t.gen
    /\ u.held = t.held /\ u.begun = t.begun /\ u.passes = t.passes /\ u.offered = t.offered
    /\ u.rest.st = t.rest.st /\ u.rest.age = t.rest.age /\ u.rest.left = t.rest.left
Quiet(t, u) == Stays(t, u) /\ u.dirty = t.dirty

\* What a watch says counts while it runs, and a current link follows it.
SaidInv(t) == t.said = "Pushed" => t.watch
LiveInv(t) == IsCurrent(t) => t.rest.live = t.said
\* A link that stopped is not watched, also while a pass asked for by hand runs; one that is gone
\* has nothing running.
StopInv(t) ==
    /\ t.rest.st \in {"NeedsSignIn", "Broken"} => ~t.watch
    /\ ~t.there => ~t.watch /\ ~t.busy
SafeInv(t) == Bounded(t) /\ SaidInv(t) /\ StopInv(t)

\* The timer is not early: it fires when the link is due, or when it already was.
Due(t) ==
    /\ ~t.busy
    /\ \/ t.rest.st = "Current" /\ t.rest.age >= Between(t, t.rest.live)
       \/ t.rest.st = "Waiting" /\ t.rest.left = 0
Timely(t) ==
    ~t.busy /\ ~t.manual /\ t.wake.ev = "Tick" =>
        /\ t.rest.st = "Current" => t.rest.age + t.wake.left >= Between(t, t.rest.live)
        /\ t.rest.st = "Waiting" => t.wake.left >= t.rest.left
Waking(t) == t.wake.ev # "none"
\* A step that leaves a link as well woken as it was: its timer is not touched, or is set for the
\* link's time, as far as one sleep reaches.
Untimed(t, u) == u.wake = t.wake /\ (t.rest.st = "Current" /\ ~t.busy => u.rest.live = t.rest.live)
Timed(u) == Waking(u) /\ (FarOff(u) \/ Timely(u))
Wakes(t, u) == Untimed(t, u) \/ Timed(u)

-----------------------------------------------------------------------------
(* The operators.                                                          *)

LEMMA Spans ==
    /\ MaxAge \in Nat /\ Every <= MaxAge /\ Silence <= MaxAge /\ Never \in Nat /\ Never > Far
    /\ Far \in Nat /\ Every \in Nat /\ Silence \in Nat /\ MaxPasses \in Nat /\ MaxNotes \in Nat
BY ScheduleAssumption DEF MaxAge, Never

LEMMA LongestIs == Longest \in Nat /\ \A w \in Waits : w \in 0..Longest
<1>1. /\ Longest \in Waits \cup {0}
      /\ \A m \in Waits \cup {0} : m <= Longest
    BY LongestAssumption DEF Longest
<1>2. Waits \subseteq Nat
    BY ScheduleAssumption
<1> QED
    BY <1>1, <1>2

LEMMA BetweenIs ==
    ASSUME NEW t, NEW live \in Lives
    PROVE  Between(t, live) \in Nat /\ (~t.manual => Between(t, live) <= MaxAge)
BY Spans DEF Between

LEMMA RestIs == ASSUME NEW r \in Rest PROVE r.age \in 0..MaxAge /\ r.left \in 0..Longest /\ r.live \in Lives
BY DEF Rest

LEMMA RestingIs ==
    ASSUME NEW st \in {"Fresh", "Current", "Waiting", "NeedsSignIn", "NeedsAllow", "Broken"}
    PROVE  /\ Resting(st) \in Rest /\ Resting(st).st = st /\ Resting(st).live = "Polling"
           /\ Resting(st).age = 0 /\ Resting(st).left = 0
BY Spans, LongestIs DEF Resting, Rest, Lives

LEMMA ProbedIs ==
    ASSUME NEW probe \in Probed
    PROVE  probe \in Rest /\ probe.st \in {"Fresh", "Current"} /\ probe.live = "Polling"
<1>1. CASE probe = Resting("Fresh")
    BY <1>1, RestingIs
<1>2. ASSUME NEW a \in 0..MaxAge, probe = [Resting("Current") EXCEPT !.age = a] PROVE probe \in Rest /\ probe.st = "Current" /\ probe.live = "Polling"
    <2>1. Resting("Current") \in Rest /\ Resting("Current").st = "Current" /\ Resting("Current").live = "Polling"
        BY RestingIs
    <2> QED
        BY <1>2, <2>1 DEF Rest
<1> QED
    BY <1>1, <1>2 DEF Probed

LEMMA QuietTrans == ASSUME NEW t, NEW u, NEW v, Quiet(t, u), Quiet(u, v) PROVE Quiet(t, v)
BY DEF Quiet, Stays

LEMMA UntimedIs ==
    ASSUME NEW t, NEW u, Stays(t, u), Untimed(t, u)
    PROVE  Timely(u) = Timely(t) /\ Due(u) = Due(t) /\ FarOff(u) = FarOff(t) /\ Waking(u) = Waking(t)
BY DEF Stays, Untimed, Timely, Due, FarOff, DueIn, Waking, Between

LEMMA WakesTrans ==
    ASSUME NEW t, NEW u, NEW v, Stays(t, u), Stays(u, v), Wakes(t, u), Wakes(u, v)
    PROVE  Wakes(t, v)
<1>1. CASE Timed(v)
    BY <1>1 DEF Wakes
<1>2. CASE Untimed(u, v) /\ Timed(u)
    BY <1>2, UntimedIs DEF Wakes, Timed
<1>3. CASE Untimed(u, v) /\ Untimed(t, u)
    BY <1>3 DEF Wakes, Untimed, Stays
<1> QED
    BY <1>1, <1>2, <1>3 DEF Wakes

LEMMA WakeAtIs ==
    ASSUME NEW t \in Sched, NEW wait \in Int
    PROVE  LET u == WakeAt(t, wait)
           IN  /\ Quiet(t, u) /\ u.rest = t.rest /\ u.watch = t.watch /\ u.said = t.said
               /\ u.wake.ev = "Tick" /\ u.wake.left \in Nat /\ (wait <= Far => u.wake.left >= wait)
<1> DEFINE left == IF wait < 0 THEN 0 ELSE IF wait > Far THEN Far ELSE wait
           w == [ev |-> "Tick", left |-> left]
<1>1. left \in Nat /\ (wait <= Far => left >= wait)
    BY Spans
<1> HIDE DEF left
<1>2. w \in WakeType /\ w.ev = "Tick" /\ w.left = left
    BY <1>1 DEF WakeType
<1>3. WakeAt(t, wait) = [t EXCEPT !.wake = w]
    BY DEF WakeAt, left
<1> HIDE DEF w
<1> QED
    BY <1>1, <1>2, <1>3 DEF Quiet, Stays, Sched

LEMMA StepLiveIs ==
    ASSUME NEW t \in Sched, NEW live \in Lives
    PROVE  LET u == StepLive(t, live)
           IN  /\ Quiet(t, u) /\ u.watch = t.watch /\ u.said = t.said
               /\ t.rest.st = "Current" => u.rest.live = live
               /\ Wakes(t, u) /\ (t.rest.st # "Current" => u.wake = t.wake)
<1> DEFINE u == StepLive(t, live)
<1>1. CASE t.rest.st # "Current" \/ t.rest.live = live
    BY <1>1 DEF StepLive, Quiet, Stays, Wakes, Untimed
<1>2. CASE t.rest.st = "Current" /\ t.rest.live # live
    <2> DEFINE told == [t EXCEPT !.rest.live = live]
               wait == Between(t, live) - t.rest.age
    <2>0. t.rest \in Rest /\ t.rest.age \in Nat /\ Between(t, live) \in Nat
        BY RestIs, Spans, BetweenIs DEF Sched
    <2>1. /\ told \in Sched /\ Quiet(t, told) /\ told.watch = t.watch /\ told.said = t.said
          /\ told.rest.live = live /\ told.wake = t.wake
        BY <2>0 DEF Quiet, Stays, Sched, Rest
    <2> HIDE DEF told
    <2>2. CASE t.busy
        <3>1. u = told
            BY <1>2, <2>2 DEF StepLive, told
        <3>2. Wakes(t, u)
            BY <1>2, <2>1, <2>2, <3>1 DEF Wakes, Untimed
        <3> QED
            BY <1>2, <2>1, <3>1, <3>2
    <2>3. CASE ~t.busy
        <3>1. u = WakeAt(told, wait)
            BY <1>2, <2>3 DEF StepLive, told
        <3>2. wait \in Int
            BY <2>0
        <3>3. /\ Quiet(told, u) /\ u.rest = told.rest /\ u.watch = told.watch /\ u.said = told.said
              /\ u.wake.ev = "Tick" /\ u.wake.left \in Nat /\ (wait <= Far => u.wake.left >= wait)
            BY <2>1, <3>1, <3>2, WakeAtIs
        <3>4. Quiet(t, u)
            BY <2>1, <3>3, QuietTrans
        <3>5. Wakes(t, u)
            <4>1. Waking(u)
                BY <3>3 DEF Waking
            <4>2. /\ Between(u, u.rest.live) = Between(t, live) /\ u.rest.age = t.rest.age
                  /\ u.rest.st = "Current" /\ u.busy = t.busy /\ u.manual = t.manual
                BY <1>2, <2>1, <3>3, <3>4 DEF Between, Quiet, Stays
            <4>3. CASE wait <= Far
                <5>1. u.rest.age + u.wake.left >= Between(u, u.rest.live)
                    BY <2>0, <3>3, <4>2, <4>3
                <5> QED
                    BY <4>1, <4>2, <5>1 DEF Timely, Timed, Wakes
            <4>4. CASE ~(wait <= Far) /\ ~u.manual
                <5>1. DueIn(u) > Far
                    BY <2>0, <3>2, <4>2, <4>4, Spans DEF DueIn
                <5> QED
                    BY <2>3, <4>1, <4>2, <4>4, <5>1 DEF FarOff, Timed, Wakes
            <4>5. CASE u.manual
                BY <4>1, <4>5 DEF Timely, Timed, Wakes
            <4> QED
                BY <4>3, <4>4, <4>5
        <3> QED
            BY <1>2, <2>1, <3>3, <3>4, <3>5
    <2> QED
        BY <2>2, <2>3
<1> QED
    BY <1>1, <1>2

LEMMA AdoptIs ==
    ASSUME NEW t \in Sched
    PROVE  LET u == Adopt(t)
           IN  /\ Quiet(t, u) /\ u.watch = t.watch /\ u.said = t.said /\ LiveInv(u)
               /\ Wakes(t, u) /\ (t.rest.st # "Current" => u.wake = t.wake)
<1>1. CASE IsCurrent(t) /\ t.rest.live # t.said
    <2>1. Adopt(t) = StepLive(t, t.said) /\ t.rest.st = "Current" /\ t.said \in Lives
        BY <1>1 DEF Adopt, IsCurrent, Sched
    <2> QED
        BY <2>1, StepLiveIs DEF LiveInv
<1>2. CASE ~(IsCurrent(t) /\ t.rest.live # t.said)
    BY <1>2 DEF Adopt, Quiet, Stays, LiveInv, Wakes, Untimed
<1> QED
    BY <1>1, <1>2

LEMMA HandleLiveIs ==
    ASSUME NEW t \in Sched, NEW live \in Lives
    PROVE  LET u == HandleLive(t, live)
           IN  /\ Quiet(t, u) /\ u.watch = t.watch /\ LiveInv(u)
               /\ u.said = IF t.watch THEN live ELSE t.said
               /\ Wakes(t, u) /\ (t.rest.st # "Current" => u.wake = t.wake)
<1> DEFINE told == IF t.watch THEN [t EXCEPT !.said = live] ELSE t
           step == StepLive(told, live)
           u == Adopt(step)
<1>1. /\ told \in Sched /\ Quiet(t, told) /\ told.watch = t.watch /\ told.said = IF t.watch THEN live ELSE t.said
      /\ told.rest = t.rest /\ told.wake = t.wake
    BY DEF Sched, Quiet, Stays
<1>2. Wakes(t, told)
    BY <1>1 DEF Wakes, Untimed
<1>3. HandleLive(t, live) = u
    BY DEF HandleLive
<1> HIDE DEF told
<1>4. /\ Quiet(told, step) /\ step.watch = told.watch /\ step.said = told.said
      /\ Wakes(told, step) /\ (told.rest.st # "Current" => step.wake = told.wake)
    BY <1>1, StepLiveIs
<1>5. step \in Sched
    BY <1>4 DEF Quiet, Stays
<1> HIDE DEF step
<1>6. /\ Quiet(step, u) /\ u.watch = step.watch /\ u.said = step.said /\ LiveInv(u)
      /\ Wakes(step, u) /\ (step.rest.st # "Current" => u.wake = step.wake)
    BY <1>5, AdoptIs
<1> HIDE DEF u
<1>7. Quiet(t, u)
    BY <1>1, <1>4, <1>6, QuietTrans
<1>8. Wakes(t, u)
    <2>1. Stays(t, told) /\ Stays(told, step) /\ Stays(step, u) /\ Stays(t, step)
        BY <1>1, <1>4, <1>6 DEF Quiet, Stays
    <2>2. Wakes(t, step)
        BY <1>2, <1>4, <2>1, WakesTrans
    <2> QED
        BY <1>6, <2>1, <2>2, WakesTrans
<1>9. t.rest.st # "Current" => u.wake = t.wake
    BY <1>1, <1>4, <1>6 DEF Quiet, Stays
<1> QED
    BY <1>1, <1>3, <1>4, <1>6, <1>7, <1>8, <1>9

LEMMA ReconcileIs ==
    ASSUME NEW t \in Sched
    PROVE  LET u == Reconcile(t)
           IN  /\ Quiet(t, u) /\ u.watch = Wanted(t)
               /\ SaidInv(t) => SaidInv(u)
               /\ LiveInv(t) => LiveInv(u)
               /\ ~t.watch => u.rest = t.rest
               /\ Wakes(t, u) /\ (t.rest.st # "Current" => u.wake = t.wake)
<1>0. t.watch \in BOOLEAN /\ Wanted(t) \in BOOLEAN
    BY DEF Sched, Wanted
<1>1. CASE ~t.watch /\ Wanted(t)
    <2>1. Reconcile(t) = [t EXCEPT !.watch = TRUE]
        BY <1>1 DEF Reconcile
    <2>2. /\ Quiet(t, Reconcile(t)) /\ Reconcile(t).watch = TRUE /\ Reconcile(t).rest = t.rest
          /\ Reconcile(t).said = t.said /\ Reconcile(t).wake = t.wake
        BY <2>1 DEF Sched, Quiet, Stays
    <2>3. Wakes(t, Reconcile(t))
        BY <2>2 DEF Wakes, Untimed
    <2>4. LiveInv(t) => LiveInv(Reconcile(t))
        BY <2>2 DEF LiveInv, IsCurrent, Quiet, Stays
    <2> QED
        BY <1>0, <1>1, <2>2, <2>3, <2>4 DEF SaidInv
<1>2. CASE t.watch /\ ~Wanted(t)
    <2> DEFINE off == [t EXCEPT !.watch = FALSE, !.said = "Polling"]
    <2>1. Reconcile(t) = HandleLive(off, "Polling")
        BY <1>2 DEF Reconcile
    <2>2. /\ off \in Sched /\ Quiet(t, off) /\ ~off.watch /\ off.watch = FALSE /\ off.rest = t.rest
          /\ off.said = "Polling" /\ off.wake = t.wake
        BY DEF Sched, Quiet, Stays, Lives
    <2>3. Wakes(t, off)
        BY <2>2 DEF Wakes, Untimed
    <2> HIDE DEF off
    <2>4. "Polling" \in Lives
        BY DEF Lives
    <2>5. /\ Quiet(off, Reconcile(t)) /\ Reconcile(t).watch = FALSE /\ LiveInv(Reconcile(t))
          /\ Reconcile(t).said = "Polling" /\ Wakes(off, Reconcile(t))
          /\ (off.rest.st # "Current" => Reconcile(t).wake = off.wake)
        BY <2>1, <2>2, <2>4, HandleLiveIs
    <2>6. Quiet(t, Reconcile(t))
        BY <2>2, <2>5, QuietTrans
    <2>7. Wakes(t, Reconcile(t))
        BY <2>2, <2>3, <2>5, WakesTrans DEF Quiet
    <2> QED
        BY <1>0, <1>2, <2>2, <2>5, <2>6, <2>7 DEF SaidInv
<1>3. CASE t.watch = Wanted(t)
    <2>1. Reconcile(t) = t
        BY <1>3 DEF Reconcile
    <2> QED
        BY <1>3, <2>1 DEF Quiet, Stays, Wakes, Untimed
<1> QED
    BY <1>0, <1>1, <1>2, <1>3

LEMMA DeferIs ==
    ASSUME NEW t \in Sched
    PROVE  LET u == Defer(t)
           IN  /\ Quiet(t, u) /\ u.rest = t.rest /\ u.watch = t.watch /\ u.said = t.said
               /\ ~t.manual => Timed(u)
<1> DEFINE w == IF t.manual THEN NoWake ELSE [ev |-> "Poll", left |-> Every]
<1>1. w \in WakeType /\ (~t.manual => w.ev = "Poll")
    BY Spans DEF WakeType, NoWake
<1>2. Defer(t) = [t EXCEPT !.wake = w]
    BY DEF Defer
<1> HIDE DEF w
<1>3. Defer(t).wake = w
    BY <1>2 DEF Sched
<1>4. ~t.manual => Timed(Defer(t))
    BY <1>1, <1>3 DEF Waking, Timely, Timed
<1> QED
    BY <1>1, <1>2, <1>4 DEF Quiet, Stays, Sched

LEMMA RunPassIs ==
    ASSUME NEW t \in Sched
    PROVE  LET u == RunPass(t)
           IN  /\ u \in Sched /\ u.there = t.there /\ u.busy = TRUE /\ u.rest = t.rest /\ u.manual = t.manual
               /\ u.gen = t.gen + 1 /\ u.held = t.begun + 1 /\ u.begun = t.begun + 1 /\ u.begun # t.begun
               /\ u.passes = t.passes \cup {[n |-> t.begun + 1, gen |-> t.gen + 1, cut |-> FALSE]}
               /\ u.wake = t.wake /\ u.watch = t.watch /\ u.said = t.said /\ u.dirty = t.dirty
               /\ u.offered = t.offered
<1> DEFINE p == [n |-> t.begun + 1, gen |-> t.gen + 1, cut |-> FALSE]
           ps == t.passes \cup {p}
<1>1. t.begun \in Nat /\ t.gen \in Nat /\ t.passes \in SUBSET PassType
    BY DEF Sched
<1>2. t.begun + 1 \in Nat /\ t.gen + 1 \in Nat /\ p \in PassType /\ ps \in SUBSET PassType
    <2>1. t.begun + 1 \in Nat /\ t.gen + 1 \in Nat
        BY <1>1
    <2>2. p \in PassType
        BY <2>1 DEF PassType
    <2> QED
        BY <1>1, <2>1, <2>2
<1>3. RunPass(t) = [t EXCEPT !.busy = TRUE, !.begun = t.begun + 1, !.gen = t.gen + 1, !.held = t.begun + 1,
                             !.passes = ps]
    BY DEF RunPass
<1> HIDE DEF p, ps
<1>4. /\ RunPass(t) \in Sched /\ RunPass(t).passes = ps
      /\ RunPass(t).busy = TRUE /\ RunPass(t).gen = t.gen + 1 /\ RunPass(t).held = t.begun + 1
      /\ RunPass(t).begun = t.begun + 1
    BY <1>1, <1>2, <1>3 DEF Sched
<1>5. /\ RunPass(t).there = t.there /\ RunPass(t).rest = t.rest /\ RunPass(t).manual = t.manual
      /\ RunPass(t).wake = t.wake /\ RunPass(t).watch = t.watch /\ RunPass(t).said = t.said
      /\ RunPass(t).dirty = t.dirty /\ RunPass(t).offered = t.offered
    BY <1>3 DEF Sched
<1>6. t.begun + 1 # t.begun
    BY <1>1
<1> QED
    BY <1>4, <1>5, <1>6 DEF ps, p

LEMMA DirtiedIs ==
    ASSUME NEW t \in Sched, NEW ev
    PROVE  LET d == Dirtied(t, ev)
           IN  /\ d \in Sched /\ d.there = t.there /\ d.busy = t.busy /\ d.rest = t.rest /\ d.manual = t.manual
               /\ d.gen = t.gen /\ d.held = t.held /\ d.begun = t.begun /\ d.passes = t.passes
               /\ d.wake = t.wake /\ d.watch = t.watch /\ d.said = t.said /\ d.offered = t.offered
               /\ d.dirty = (t.dirty \/ (ev = "Push" /\ t.busy))
<1>0. t.busy \in BOOLEAN /\ t.dirty \in BOOLEAN
    BY DEF Sched
<1>1. CASE ev = "Push" /\ t.busy
    <2>1. Dirtied(t, ev) = [t EXCEPT !.dirty = TRUE]
        BY <1>1 DEF Dirtied
    <2> QED
        BY <1>0, <1>1, <2>1 DEF Sched
<1>2. CASE ~(ev = "Push" /\ t.busy)
    BY <1>0, <1>2 DEF Dirtied
<1> QED
    BY <1>1, <1>2

\* What may begin a pass begins it, or leaves the link as it is: remembered for later if a pass is
\* running, asked again in an interval if it is the watch's to answer.
LEMMA HandleIs ==
    ASSUME NEW t \in Sched, NEW ev
    PROVE  LET u == Handle(t, ev)
           IN  /\ \/ /\ t.there /\ ~t.busy /\ Begins(t, ev) /\ u = RunPass(t)
                  \/ /\ Stays(t, u) /\ u.dirty = (t.dirty \/ (t.there /\ t.busy /\ ev = "Push"))
                     /\ (~t.manual => Wakes(t, u)) /\ (t.rest.st = "Fresh" => u.wake = t.wake)
                     /\ t.there /\ Begins(t, ev) /\ ~(ev = "Poll" /\ t.manual) =>
                           /\ schedule # "window" /\ t.rest.st # "Fresh" /\ ev \in {"Poll", "Tick", "Push"}
                           /\ ev # "Push" /\ ~t.manual => Timed(u)
               /\ SaidInv(t) => SaidInv(u)
               /\ LiveInv(t) => LiveInv(u)
               /\ u.watch => t.watch \/ (t.there /\ Wanted(t))
<1> DEFINE u == Handle(t, ev)
<1>0. t.busy \in BOOLEAN /\ t.dirty \in BOOLEAN /\ t.there \in BOOLEAN
    BY DEF Sched
<1>1. CASE ~t.there \/ (ev = "Poll" /\ t.manual)
    <2>1. u = t
        BY <1>1 DEF Handle
    <2> QED
        BY <1>0, <1>1, <2>1 DEF Stays, Wakes, Untimed
<1>2. CASE t.there /\ ~(ev = "Poll" /\ t.manual) /\ Verdict(t, ev) = "Defer"
    <2>1. u = Reconcile(Defer(t)) /\ ~t.busy /\ schedule # "window" /\ t.rest.st # "Fresh" /\ ev \in {"Poll", "Tick"}
        BY <1>2 DEF Handle, Verdict
    <2> DEFINE d == Defer(t)
    <2>2. /\ Quiet(t, d) /\ d \in Sched /\ d.rest = t.rest /\ d.watch = t.watch /\ d.said = t.said
          /\ (~t.manual => Timed(d))
        BY DeferIs DEF Quiet, Stays
    <2>3. (SaidInv(t) => SaidInv(d)) /\ (LiveInv(t) => LiveInv(d)) /\ (Wanted(d) => Wanted(t))
        BY <2>2 DEF SaidInv, LiveInv, IsCurrent, Wanted, Quiet, Stays
    <2> HIDE DEF d
    <2>4. /\ Quiet(d, u) /\ u.watch = Wanted(d) /\ (SaidInv(d) => SaidInv(u)) /\ (LiveInv(d) => LiveInv(u))
          /\ Wakes(d, u)
        BY <2>1, <2>2, ReconcileIs DEF d
    <2>5. Quiet(t, u)
        BY <2>2, <2>4, QuietTrans
    <2>6. ~t.manual => Timed(u)
        BY <2>2, <2>4, UntimedIs DEF Wakes, Timed, Quiet
    <2>7. ~t.manual => Wakes(t, u)
        BY <2>6 DEF Wakes
    <2> QED
        BY <1>0, <1>2, <2>1, <2>3, <2>4, <2>5, <2>6, <2>7 DEF Quiet
<1>3. CASE t.there /\ ~(ev = "Poll" /\ t.manual) /\ Verdict(t, ev) = "Drop"
    <2>1. u = Reconcile(t) /\ ~t.busy /\ schedule # "window" /\ t.rest.st # "Fresh" /\ ev = "Push"
        BY <1>3 DEF Handle, Verdict
    <2> QED
        BY <1>0, <1>3, <2>1, ReconcileIs DEF Quiet
<1>4. CASE t.there /\ ~(ev = "Poll" /\ t.manual) /\ Verdict(t, ev) \notin {"Defer", "Drop"}
    <2> DEFINE d == Dirtied(t, ev)
    <2>1. u = IF Begins(d, ev) THEN RunPass(d) ELSE Adopt(d)
        BY <1>4 DEF Handle
    <2>2. Begins(d, ev) = Begins(t, ev)
        BY DirtiedIs DEF Begins, Between
    <2>3. CASE Begins(t, ev)
        <3>1. ~t.busy /\ d = t
            BY <2>3 DEF Begins, Dirtied
        <3>2. u = RunPass(t)
            BY <2>1, <2>3, <3>1
        <3>3. u.watch = t.watch /\ u.said = t.said /\ u.busy = TRUE
            BY <3>2, RunPassIs
        <3> QED
            BY <1>4, <2>3, <3>1, <3>2, <3>3 DEF SaidInv, LiveInv, IsCurrent
    <2>4. CASE ~Begins(t, ev)
        <3>1. u = Adopt(d)
            BY <2>1, <2>2, <2>4
        <3>2. /\ Stays(t, d) /\ d \in Sched /\ d.watch = t.watch /\ d.said = t.said /\ d.rest = t.rest /\ d.wake = t.wake
              /\ d.dirty = (t.dirty \/ (ev = "Push" /\ t.busy))
            BY DirtiedIs DEF Stays
        <3>3. Wakes(t, d)
            BY <3>2 DEF Wakes, Untimed
        <3> HIDE DEF d
        <3>4. /\ Quiet(d, u) /\ u.watch = d.watch /\ u.said = d.said /\ LiveInv(u)
              /\ Wakes(d, u) /\ (d.rest.st # "Current" => u.wake = d.wake)
            BY <3>1, <3>2, AdoptIs
        <3>5. Stays(t, u) /\ u.dirty = (t.dirty \/ (ev = "Push" /\ t.busy))
            BY <3>2, <3>4 DEF Quiet, Stays
        <3>6. Wakes(t, u)
            BY <3>2, <3>3, <3>4, WakesTrans DEF Quiet
        <3> QED
            BY <1>0, <1>4, <2>4, <3>2, <3>4, <3>5, <3>6 DEF SaidInv
    <2> QED
        BY <2>3, <2>4
<1> QED
    BY <1>1, <1>2, <1>3, <1>4

LEMMA CutIs ==
    ASSUME NEW t \in Sched
    PROVE  /\ Cut(t) \in SUBSET PassType
           /\ \A q \in Cut(t) : \E p \in t.passes : q.n = p.n /\ q.gen = p.gen /\ (p.cut => q.cut)
<1>1. ASSUME NEW q \in Cut(t)
      PROVE  q \in PassType /\ \E p \in t.passes : q.n = p.n /\ q.gen = p.gen /\ (p.cut => q.cut)
    <2>1. PICK p \in t.passes : q = [p EXCEPT !.cut = p.cut \/ p.n = t.held]
        BY DEF Cut
    <2>2. p \in PassType
        BY DEF Sched
    <2>3. q \in PassType /\ q.n = p.n /\ q.gen = p.gen /\ (p.cut => q.cut)
        BY <2>1, <2>2 DEF PassType
    <2> QED
        BY <2>3
<1> QED
    BY <1>1

\* How the end of a pass leaves the scheduler, before a push it missed is answered.
Settled(t, ev, v) ==
    /\ v \in Sched /\ v.there = t.there /\ v.busy = FALSE /\ v.manual = t.manual /\ v.begun = t.begun
    /\ IF ev = "Cancel" THEN v.gen = t.gen + 1 /\ v.held = 0 /\ v.passes = Cut(t) /\ v.rest.st = t.rest.st
       ELSE v.gen = t.gen /\ v.held = t.held /\ v.passes = t.passes
    /\ ev = "Finished" => v.rest.st = "Current"
    /\ ev = "Again" => v.rest.st = "Waiting"
    /\ ev \in {"Reauth", "Grant", "Fatal"} => v.rest.st \notin {"Fresh", "Current", "Waiting"}
    /\ ev \in {"Finished", "Again"} => Timed(v)

LEMMA SteppedIs ==
    ASSUME NEW t \in Sched, NEW ev \in Ends, NEW wait \in Waits \cup {0}
    PROVE  LET v == Stepped(t, ev, wait)
           IN  Settled(t, ev, v) /\ v.watch = t.watch /\ v.said = t.said /\ v.dirty = t.dirty
<1> DEFINE v == Stepped(t, ev, wait)
           live == IF t.rest.st = "Current" THEN t.rest.live ELSE "Polling"
           over(r) == [t EXCEPT !.busy = FALSE, !.rest = r]
<1>0. /\ t.rest \in Rest /\ live \in Lives /\ wait \in 0..Longest /\ wait \in Nat /\ Between(t, live) \in Nat
      /\ MaxAge \in Nat /\ Far \in Nat
    <2>1. t.rest \in Rest /\ live \in Lives
        BY DEF Sched, Rest, Lives
    <2>2. wait \in 0..Longest
        BY LongestIs
    <2> HIDE DEF live
    <2>4. Between(t, live) \in Nat /\ (~t.manual => Between(t, live) <= MaxAge)
        BY <2>1, BetweenIs
    <2> QED
        BY <2>1, <2>2, <2>4, LongestIs, Spans
<1>1. ASSUME NEW r \in Rest
      PROVE  /\ over(r) \in Sched /\ over(r).there = t.there /\ over(r).busy = FALSE /\ over(r).rest = r
             /\ over(r).manual = t.manual /\ over(r).begun = t.begun /\ over(r).gen = t.gen
             /\ over(r).held = t.held /\ over(r).passes = t.passes /\ over(r).watch = t.watch
             /\ over(r).said = t.said /\ over(r).dirty = t.dirty
    BY DEF Sched
<1>2. CASE ev = "Finished"
    <2> DEFINE r == [Resting("Current") EXCEPT !.live = live]
               o == over(r)
    <2>1. v = WakeAt(o, Between(t, live))
        BY <1>2 DEF Stepped
    <2>2. r \in Rest /\ r.st = "Current" /\ r.live = live /\ r.age = 0
        <3> HIDE DEF live
        <3> QED
            BY <1>0, RestingIs DEF Rest
    <2> HIDE DEF r, live
    <2>3. /\ o \in Sched /\ o.there = t.there /\ o.busy = FALSE /\ o.rest = r
          /\ o.manual = t.manual /\ o.begun = t.begun /\ o.gen = t.gen /\ o.held = t.held
          /\ o.passes = t.passes /\ o.watch = t.watch /\ o.said = t.said /\ o.dirty = t.dirty
        BY <1>1, <2>2
    <2> HIDE DEF o, over
    <2>4. /\ Quiet(o, v) /\ v.rest = r /\ v.watch = o.watch /\ v.said = o.said
          /\ v.wake.ev = "Tick" /\ v.wake.left \in Nat
          /\ (Between(t, live) <= Far => v.wake.left >= Between(t, live))
        BY <1>0, <2>1, <2>3, WakeAtIs
    <2>5. Between(v, r.live) = Between(t, live)
        BY <2>2, <2>3, <2>4 DEF Between, Quiet, Stays
    <2>6. Timed(v)
        <3>1. Waking(v) /\ v.rest.st = "Current" /\ v.rest.age = 0 /\ v.busy = FALSE
            BY <2>2, <2>3, <2>4 DEF Waking, Quiet, Stays
        <3>2. CASE Between(t, live) <= Far
            <4>1. v.rest.age + v.wake.left >= Between(v, v.rest.live)
                BY <1>0, <2>4, <2>5, <3>1, <3>2
            <4> QED
                BY <3>1, <4>1 DEF Timely, Timed
        <3>3. CASE ~(Between(t, live) <= Far) /\ ~v.manual
            <4>1. DueIn(v) > Far
                BY <1>0, <2>4, <2>5, <3>1, <3>3 DEF DueIn
            <4> QED
                BY <3>1, <3>3, <4>1 DEF FarOff, Timed
        <3>4. CASE v.manual
            BY <3>1, <3>4 DEF Timely, Timed
        <3> QED
            BY <3>2, <3>3, <3>4
    <2> QED
        BY <1>2, <2>2, <2>3, <2>4, <2>6 DEF Settled, Quiet, Stays
<1>3. CASE ev = "Again"
    <2> DEFINE r == [Resting("Waiting") EXCEPT !.left = wait]
               o == over(r)
    <2>1. v = WakeAt(o, wait)
        BY <1>3 DEF Stepped
    <2>2. r \in Rest /\ r.st = "Waiting" /\ r.left = wait
        BY <1>0, RestingIs DEF Rest
    <2> HIDE DEF r, live
    <2>3. /\ o \in Sched /\ o.there = t.there /\ o.busy = FALSE /\ o.rest = r
          /\ o.manual = t.manual /\ o.begun = t.begun /\ o.gen = t.gen /\ o.held = t.held
          /\ o.passes = t.passes /\ o.watch = t.watch /\ o.said = t.said /\ o.dirty = t.dirty
        BY <1>1, <2>2
    <2> HIDE DEF o, over
    <2>4. /\ Quiet(o, v) /\ v.rest = r /\ v.watch = o.watch /\ v.said = o.said
          /\ v.wake.ev = "Tick" /\ v.wake.left \in Nat /\ (wait <= Far => v.wake.left >= wait)
        BY <1>0, <2>1, <2>3, WakeAtIs
    <2>5. Timed(v)
        <3>1. Waking(v) /\ v.rest.st = "Waiting" /\ v.rest.left = wait /\ v.busy = FALSE
            BY <2>2, <2>3, <2>4 DEF Waking, Quiet, Stays
        <3>2. CASE wait <= Far
            BY <2>4, <3>1, <3>2 DEF Timely, Timed
        <3>3. CASE ~(wait <= Far) /\ ~v.manual
            BY <1>0, <3>1, <3>3 DEF FarOff, DueIn, Timed
        <3>4. CASE v.manual
            BY <3>1, <3>4 DEF Timely, Timed
        <3> QED
            BY <3>2, <3>3, <3>4
    <2> QED
        BY <1>3, <2>2, <2>3, <2>4, <2>5 DEF Settled, Quiet, Stays
<1>4. CASE ev \in {"Reauth", "Grant", "Fatal"}
    <2>1. PICK st \in {"NeedsSignIn", "NeedsAllow", "Broken"} : v = over(Resting(st))
        BY <1>4 DEF Stepped
    <2>2. Resting(st) \in Rest /\ Resting(st).st = st
        BY RestingIs
    <2> HIDE DEF over, live
    <2> QED
        BY <1>1, <1>4, <2>1, <2>2 DEF Settled
<1>5. CASE ev = "Cancel"
    <2> DEFINE c == Cut(t)
               b == [t EXCEPT !.busy = FALSE]
    <2>0. /\ b \in Sched /\ b.there = t.there /\ b.busy = FALSE /\ b.manual = t.manual /\ b.begun = t.begun
          /\ b.gen = t.gen /\ b.held = t.held /\ b.passes = t.passes /\ b.rest = t.rest
          /\ b.watch = t.watch /\ b.said = t.said /\ b.dirty = t.dirty
        BY DEF Sched
    <2>1. v = [b EXCEPT !.gen = t.gen + 1, !.passes = c, !.held = 0]
        <3>1. v = CancelPass(b)
            BY <1>5 DEF Stepped
        <3> HIDE DEF b
        <3> QED
            BY <2>0, <3>1 DEF CancelPass, Cut
    <2>2. c \in SUBSET PassType /\ t.gen + 1 \in Nat
        BY CutIs DEF Sched
    <2> HIDE DEF c, b
    <2>3. /\ v \in Sched /\ v.there = t.there /\ v.busy = FALSE /\ v.manual = t.manual /\ v.begun = t.begun
          /\ v.gen = t.gen + 1 /\ v.held = 0 /\ v.passes = c /\ v.rest = t.rest
          /\ v.watch = t.watch /\ v.said = t.said /\ v.dirty = t.dirty
        <3> HIDE DEF v
        <3>1. v \in Sched
            BY <2>0, <2>1, <2>2 DEF Sched
        <3>2. v.gen = t.gen + 1 /\ v.held = 0 /\ v.passes = c
            BY <2>0, <2>1 DEF Sched
        <3>3. /\ v.there = b.there /\ v.busy = b.busy /\ v.manual = b.manual /\ v.begun = b.begun
              /\ v.rest = b.rest /\ v.watch = b.watch /\ v.said = b.said /\ v.dirty = b.dirty
            BY <2>0, <2>1 DEF Sched
        <3> QED
            BY <2>0, <3>1, <3>2, <3>3
    <2> QED
        BY <1>5, <2>3 DEF Settled, c
<1> QED
    BY <1>2, <1>3, <1>4, <1>5 DEF Ends

\* The end of a pass: the watch follows the link, and a push that came meanwhile begins another.
LEMMA HandleEndIs ==
    ASSUME NEW t \in Sched, NEW ev \in Ends, NEW wait \in Waits \cup {0}, t.there, t.busy, StopInv(t), SaidInv(t)
    PROVE  LET u == HandleEnd(t, ev, wait)
           IN  \E v : /\ Settled(t, ev, v) /\ StopInv(v) /\ SaidInv(v)
                      /\ \/ /\ t.dirty /\ ev = "Finished" /\ u = RunPass(v)
                         \/ /\ Stays(v, u) /\ u.dirty = FALSE /\ StopInv(u) /\ SaidInv(u)
                            /\ ~t.manual => Wakes(v, u)
                            /\ schedule = "window" => LiveInv(u) /\ ~(t.dirty /\ ev = "Finished")
<1> DEFINE stepped == Stepped(t, ev, wait)
           watched == IF stepped.rest.st # t.rest.st THEN Reconcile(stepped) ELSE stepped
           v == [watched EXCEPT !.dirty = FALSE]
           u == IF t.dirty /\ ev = "Finished" THEN Handle(v, "Push") ELSE Adopt(v)
<1>0. HandleEnd(t, ev, wait) = u
    BY DEF HandleEnd
<1>1. /\ Settled(t, ev, stepped) /\ stepped \in Sched /\ stepped.watch = t.watch /\ stepped.said = t.said
      /\ stepped.there = t.there
    <2>1. /\ Settled(t, ev, stepped) /\ stepped.watch = t.watch /\ stepped.said = t.said
        BY SteppedIs
    <2> HIDE DEF stepped
    <2> QED
        BY <2>1 DEF Settled
<1> HIDE DEF stepped
<1>2. SaidInv(stepped)
    BY <1>1 DEF SaidInv
<1>3. Quiet(stepped, watched) /\ SaidInv(watched) /\ StopInv(watched) /\ Wakes(stepped, watched)
    <2>1. CASE stepped.rest.st # t.rest.st
        <3>1. watched = Reconcile(stepped)
            BY <2>1
        <3>2. /\ Quiet(stepped, watched) /\ watched.watch = Wanted(stepped) /\ SaidInv(watched)
              /\ Wakes(stepped, watched)
            BY <1>1, <1>2, <3>1, ReconcileIs
        <3>3. StopInv(watched)
            BY <1>1, <3>2 DEF StopInv, Wanted, Quiet, Stays
        <3> QED
            BY <3>2, <3>3
    <2>2. CASE stepped.rest.st = t.rest.st
        <3>1. watched = stepped
            BY <2>2
        <3>2. StopInv(stepped)
            BY <1>1, <2>2 DEF StopInv
        <3> QED
            BY <1>1, <1>2, <3>1, <3>2 DEF Quiet, Stays, Wakes, Untimed
    <2> QED
        BY <2>1, <2>2
<1> HIDE DEF watched
<1>4. /\ Stays(watched, v) /\ v \in Sched /\ v.dirty = FALSE /\ v.watch = watched.watch /\ v.said = watched.said
      /\ v.rest = watched.rest /\ v.wake = watched.wake
    BY <1>3 DEF Quiet, Stays, Sched
<1> HIDE DEF v
<1>5. SaidInv(v) /\ StopInv(v) /\ Wakes(watched, v)
    BY <1>3, <1>4 DEF SaidInv, StopInv, Wakes, Untimed, Stays
<1>6. Stays(stepped, v)
    BY <1>3, <1>4 DEF Quiet, Stays
<1>7. Settled(t, ev, v)
    <2>1. Wakes(stepped, v)
        BY <1>3, <1>4, <1>5, WakesTrans DEF Quiet
    <2>2. ev \in {"Finished", "Again"} => Timed(v)
        BY <1>1, <1>6, <2>1, UntimedIs DEF Settled, Wakes, Timed
    <2> QED
        BY <1>1, <1>6, <2>2 DEF Settled, Stays
<1>8. CASE t.dirty /\ ev = "Finished"
    <2>1. u = Handle(v, "Push") /\ v.busy = FALSE /\ v.there /\ v.rest.st = "Current" /\ Begins(v, "Push")
        BY <1>7, <1>8 DEF Settled, Begins, Starts
    <2>2. CASE u = RunPass(v)
        BY <1>0, <1>5, <1>7, <1>8, <2>2
    <2>3. CASE u # RunPass(v)
        <3>1. /\ Stays(v, u) /\ u.dirty = (v.dirty \/ (v.there /\ v.busy))
              /\ (~v.manual => Wakes(v, u))
              /\ schedule # "window" /\ SaidInv(u) /\ (u.watch => v.watch \/ (v.there /\ Wanted(v)))
            BY <1>4, <1>5, <2>1, <2>3, HandleIs
        <3>2. u.dirty = FALSE
            BY <1>4, <2>1, <3>1
        <3>3. StopInv(u)
            BY <1>5, <3>1 DEF StopInv, Stays, Wanted
        <3>4. v.manual = t.manual
            BY <1>7 DEF Settled
        <3> QED
            BY <1>0, <1>5, <1>7, <3>1, <3>2, <3>3, <3>4
    <2> QED
        BY <2>2, <2>3
<1>9. CASE ~(t.dirty /\ ev = "Finished")
    <2>1. u = Adopt(v)
        BY <1>9
    <2>2. Quiet(v, u) /\ u.watch = v.watch /\ u.said = v.said /\ LiveInv(u) /\ Wakes(v, u)
        BY <1>4, <2>1, AdoptIs
    <2>3. StopInv(u) /\ SaidInv(u) /\ u.dirty = FALSE /\ Stays(v, u)
        BY <1>4, <1>5, <2>2 DEF StopInv, SaidInv, Quiet, Stays
    <2> QED
        BY <1>0, <1>5, <1>7, <1>9, <2>2, <2>3
<1> QED
    BY <1>8, <1>9

LEMMA ForgottenIs ==
    ASSUME NEW t \in Sched
    PROVE  LET u == Forgotten(t)
           IN  /\ u \in Sched /\ u.there = FALSE /\ u.busy = FALSE /\ u.begun = t.begun /\ u.gen = 0
               /\ u.held = 0 /\ u.passes = Cut(t) /\ u.watch = FALSE /\ u.said = "Polling"
               /\ u.rest.st = "Fresh"
<1> DEFINE c == Cut(t)
           r == Resting("Fresh")
<1>1. c \in SUBSET PassType /\ r \in Rest /\ r.st = "Fresh" /\ NoWake \in WakeType /\ "Polling" \in Lives
    BY CutIs, RestingIs DEF NoWake, WakeType, Lives
<1>2. Forgotten(t) = [t EXCEPT !.there = FALSE, !.busy = FALSE, !.rest = r, !.passes = c, !.held = 0, !.gen = 0,
                               !.wake = NoWake, !.watch = FALSE, !.said = "Polling", !.dirty = FALSE]
    BY DEF Forgotten
<1> HIDE DEF c, r
<1>3. Forgotten(t) \in Sched
    <2> DEFINE a == [t EXCEPT !.there = FALSE, !.busy = FALSE, !.rest = r, !.passes = c, !.held = 0]
    <2>1. a \in Sched
        BY <1>1 DEF Sched
    <2> DEFINE b == [a EXCEPT !.gen = 0, !.wake = NoWake, !.watch = FALSE]
               d == [b EXCEPT !.said = "Polling", !.dirty = FALSE]
    <2>2. Forgotten(t) = d
        BY <1>2
    <2> HIDE DEF a
    <2>3. b \in Sched
        BY <1>1, <2>1 DEF Sched
    <2> HIDE DEF b
    <2>4. d \in Sched
        BY <1>1, <2>3 DEF Sched
    <2> QED
        BY <2>2, <2>4
<1>4. /\ Forgotten(t).there = FALSE /\ Forgotten(t).busy = FALSE /\ Forgotten(t).begun = t.begun
      /\ Forgotten(t).gen = 0 /\ Forgotten(t).held = 0 /\ Forgotten(t).passes = c
      /\ Forgotten(t).watch = FALSE /\ Forgotten(t).said = "Polling" /\ Forgotten(t).rest = r
    BY <1>2 DEF Sched
<1> QED
    BY <1>1, <1>3, <1>4 DEF c, r

-----------------------------------------------------------------------------
(* What every handler keeps.                                               *)

\* A link that syncs after a step syncs as before, or its pass has just begun.
Served(t, u) ==
    u.busy => \/ t.busy /\ u.gen = t.gen /\ u.passes = t.passes
              \/ \E p \in u.passes : p.gen = u.gen

LEMMA BoundedStays == ASSUME NEW t \in Sched, NEW u, Bounded(t), Stays(t, u) PROVE Bounded(u) /\ Served(t, u)
BY DEF Bounded, Stays, Served

LEMMA BoundedRun ==
    ASSUME NEW t \in Sched, t.busy = FALSE, Bounded(t)
    PROVE  Bounded(RunPass(t)) /\ Served(t, RunPass(t))
<1> DEFINE u == RunPass(t)
           p == [n |-> t.begun + 1, gen |-> t.gen + 1, cut |-> FALSE]
<1>0. t.begun \in Nat /\ t.gen \in Nat /\ t.passes \in SUBSET PassType
    BY DEF Sched
<1>1. u.busy = TRUE /\ u.gen = t.gen + 1 /\ u.held = t.begun + 1 /\ u.begun = t.begun + 1 /\ u.passes = t.passes \cup {p}
    BY RunPassIs
<1> HIDE DEF u
<1>2. t.gen <= 2 * t.begun
    BY <1>0 DEF Bounded
<1>3. u.gen + 1 <= 2 * u.begun /\ u.held <= u.begun
    BY <1>0, <1>1, <1>2
<1>4. ASSUME NEW q \in u.passes PROVE q.n \in 1..u.begun /\ q.gen \in 1..(2 * u.begun)
    <2>1. CASE q \in t.passes
        <3>1. q.n \in 1..t.begun /\ q.gen \in 1..(2 * t.begun)
            BY <2>1 DEF Bounded
        <3> QED
            BY <1>0, <1>1, <3>1
    <2>2. CASE q = p
        BY <1>0, <1>1, <1>2, <2>2
    <2> QED
        BY <1>1, <2>1, <2>2
<1>5. Bounded(u)
    BY <1>1, <1>3, <1>4 DEF Bounded
<1>6. p \in u.passes /\ p.gen = u.gen
    BY <1>1
<1>7. Served(t, u)
    BY <1>6 DEF Served
<1> QED
    BY <1>5, <1>7 DEF u

LEMMA BoundedCut ==
    ASSUME NEW t \in Sched, Bounded(t), NEW q \in Cut(t)
    PROVE  q.n \in 1..t.begun /\ q.gen \in 1..(2 * t.begun)
BY CutIs DEF Bounded

LEMMA BoundedSettled ==
    ASSUME NEW t \in Sched, t.busy, NEW ev, NEW v, Settled(t, ev, v), Bounded(t)
    PROVE  Bounded(v)
<1>0. t.begun \in Nat /\ t.gen \in Nat /\ t.gen + 1 <= 2 * t.begun /\ t.held <= t.begun
    BY DEF Sched, Bounded
<1>1. v.begun = t.begun /\ v.busy = FALSE
    BY DEF Settled
<1>2. CASE ev = "Cancel"
    <2>1. v.gen = t.gen + 1 /\ v.held = 0 /\ v.passes = Cut(t)
        BY <1>2 DEF Settled
    <2>2. v.gen + 0 <= 2 * v.begun /\ v.held <= v.begun
        BY <1>0, <1>1, <2>1
    <2> QED
        BY <1>1, <2>1, <2>2, BoundedCut DEF Bounded
<1>3. CASE ev # "Cancel"
    <2>1. v.gen = t.gen /\ v.held = t.held /\ v.passes = t.passes
        BY <1>3 DEF Settled
    <2>2. v.gen + 0 <= 2 * v.begun /\ v.held <= v.begun
        BY <1>0, <1>1, <2>1
    <2> QED
        BY <1>1, <2>1, <2>2 DEF Bounded
<1> QED
    BY <1>2, <1>3

LEMMA RunPassSafe ==
    ASSUME NEW t \in Sched, t.there, t.busy = FALSE, SafeInv(t)
    PROVE  RunPass(t) \in Sched /\ SafeInv(RunPass(t)) /\ Served(t, RunPass(t)) /\ LiveInv(RunPass(t))
<1>1. /\ RunPass(t) \in Sched /\ RunPass(t).there = t.there /\ RunPass(t).busy = TRUE /\ RunPass(t).rest = t.rest
      /\ RunPass(t).watch = t.watch /\ RunPass(t).said = t.said
    BY RunPassIs
<1>2. StopInv(RunPass(t)) /\ SaidInv(RunPass(t)) /\ LiveInv(RunPass(t))
    BY <1>1 DEF SafeInv, StopInv, SaidInv, LiveInv, IsCurrent
<1> QED
    BY <1>1, <1>2, BoundedRun DEF SafeInv

LEMMA HandleSafe ==
    ASSUME NEW t \in Sched, SafeInv(t), NEW ev
    PROVE  LET u == Handle(t, ev)
           IN  u \in Sched /\ SafeInv(u) /\ Served(t, u) /\ (LiveInv(t) => LiveInv(u)) /\ u.there = t.there
<1> DEFINE u == Handle(t, ev)
<1>0. t.busy \in BOOLEAN
    BY DEF Sched
<1>1. CASE t.there /\ ~t.busy /\ u = RunPass(t)
    BY <1>0, <1>1, RunPassSafe, RunPassIs
<1>2. CASE Stays(t, u)
    <2>1. SaidInv(u) /\ (LiveInv(t) => LiveInv(u)) /\ (u.watch => t.watch \/ (t.there /\ Wanted(t)))
        BY HandleIs DEF SafeInv
    <2> HIDE DEF u
    <2>2. StopInv(u)
        BY <1>2, <2>1 DEF SafeInv, StopInv, Stays, Wanted
    <2> QED
        BY <1>2, <2>1, <2>2, BoundedStays DEF SafeInv, Stays, u
<1> QED
    BY <1>1, <1>2, HandleIs

LEMMA HandleLiveSafe ==
    ASSUME NEW t \in Sched, SafeInv(t), NEW live \in Lives
    PROVE  LET u == HandleLive(t, live)
           IN  u \in Sched /\ SafeInv(u) /\ Served(t, u) /\ LiveInv(u) /\ Quiet(t, u)
<1> DEFINE u == HandleLive(t, live)
<1>1. Quiet(t, u) /\ u.watch = t.watch /\ LiveInv(u) /\ u.said = IF t.watch THEN live ELSE t.said
    BY HandleLiveIs
<1> HIDE DEF u
<1>2. SaidInv(u) /\ StopInv(u)
    BY <1>1 DEF SafeInv, SaidInv, StopInv, Quiet, Stays
<1> QED
    BY <1>1, <1>2, BoundedStays DEF SafeInv, Quiet, Stays, u

LEMMA HandleEndSafe ==
    ASSUME NEW t \in Sched, SafeInv(t), NEW ev \in Ends, NEW wait \in Waits \cup {0}
    PROVE  LET u == HandleEnd(t, ev, wait)
           IN  /\ u \in Sched /\ SafeInv(u) /\ (schedule = "window" => LiveInv(u)) /\ u.there = t.there
               /\ u.busy => \E p \in u.passes : p.gen = u.gen
<1> DEFINE u == HandleEnd(t, ev, wait)
<1>1. CASE t.there /\ t.busy
    <2>1. StopInv(t) /\ SaidInv(t)
        BY DEF SafeInv
    <2>2. PICK v : /\ Settled(t, ev, v) /\ StopInv(v) /\ SaidInv(v)
                   /\ \/ u = RunPass(v)
                      \/ Stays(v, u) /\ StopInv(u) /\ SaidInv(u) /\ (schedule = "window" => LiveInv(u))
        BY <1>1, <2>1, HandleEndIs
    <2> HIDE DEF u
    <2>3. v \in Sched /\ v.there /\ v.there = t.there /\ v.busy = FALSE /\ SafeInv(v)
        BY <1>1, <2>2, BoundedSettled DEF Settled, SafeInv
    <2>4. CASE u = RunPass(v)
        <3>1. u \in Sched /\ SafeInv(u) /\ Served(v, u) /\ LiveInv(u) /\ u.there = v.there
            BY <2>3, <2>4, RunPassSafe, RunPassIs
        <3>2. u.busy => \E p \in u.passes : p.gen = u.gen
            BY <2>3, <3>1 DEF Served
        <3> QED
            BY <2>3, <3>1, <3>2 DEF u
    <2>5. CASE Stays(v, u) /\ StopInv(u) /\ SaidInv(u) /\ (schedule = "window" => LiveInv(u))
        <3>1. u \in Sched /\ u.there = v.there /\ u.busy = FALSE
            BY <2>3, <2>5 DEF Stays
        <3>2. SafeInv(u)
            BY <2>3, <2>5, BoundedStays DEF SafeInv
        <3> QED
            BY <2>3, <2>5, <3>1, <3>2 DEF u
    <2> QED
        BY <2>2, <2>4, <2>5
<1>2. CASE ~(t.there /\ t.busy)
    <2>1. u = Adopt(t) /\ ~t.busy
        BY <1>2 DEF HandleEnd, SafeInv, StopInv
    <2>2. Quiet(t, u) /\ u.watch = t.watch /\ u.said = t.said /\ LiveInv(u)
        BY <2>1, AdoptIs
    <2> HIDE DEF u
    <2>3. SaidInv(u) /\ StopInv(u)
        BY <2>2 DEF SafeInv, SaidInv, StopInv, Quiet, Stays
    <2> QED
        BY <2>1, <2>2, <2>3, BoundedStays DEF SafeInv, Quiet, Stays, u
<1> QED
    BY <1>1, <1>2

\* An account that stays is only told how it is kept, and its watch follows.
Told(t, u, manual) ==
    \E told \in Sched :
        /\ Quiet(told, u) /\ told.manual = manual /\ Wakes(told, u)
        /\ (told.rest.st # "Current" => u.wake = told.wake)
        /\ told.there = t.there /\ told.busy = t.busy /\ told.rest = t.rest /\ told.wake = t.wake
        /\ told.gen = t.gen /\ told.begun = t.begun /\ told.passes = t.passes /\ told.dirty = t.dirty

\* The accounts change: this one is told how it is kept, goes, or comes and is polled at once.
LEMMA FollowIs ==
    ASSUME NEW t \in Sched, SafeInv(t), NEW ev \in {"Away", "Polled", "Manually"}, NEW offered \in BOOLEAN,
           NEW probe \in Probed
    PROVE  LET u == Follow(t, ev, offered, probe)
           IN  /\ u \in Sched /\ SafeInv(u) /\ Served(t, u) /\ (LiveInv(t) => LiveInv(u))
               /\ ev # "Away" /\ t.there => Told(t, u, ev = "Manually")
<1> DEFINE u == Follow(t, ev, offered, probe)
           gone == IF t.there /\ ev = "Away" THEN Forgotten(t) ELSE t
           told == [gone EXCEPT !.manual = (ev = "Manually"), !.offered = offered]
           new == [told EXCEPT !.there = TRUE, !.rest = probe]
           come == IF ev # "Away" /\ ~t.there THEN Handle(new, "Poll") ELSE told
<1>0. u = IF come.there THEN Reconcile(come) ELSE come
    BY DEF Follow
<1>1. gone \in Sched /\ SafeInv(gone) /\ (t.there /\ ev = "Away" => gone.busy = FALSE /\ gone.there = FALSE)
    <2>1. CASE t.there /\ ev = "Away"
        <3>1. /\ gone \in Sched /\ gone.there = FALSE /\ gone.busy = FALSE /\ gone.begun = t.begun /\ gone.gen = 0
              /\ gone.held = 0 /\ gone.passes = Cut(t) /\ gone.watch = FALSE /\ gone.said = "Polling"
              /\ gone.rest.st = "Fresh"
            BY <2>1, ForgottenIs
        <3> HIDE DEF gone
        <3>2. t.begun \in Nat
            BY DEF Sched
        <3>3. Bounded(gone)
            BY <3>1, <3>2, BoundedCut DEF Bounded, SafeInv
        <3> QED
            BY <3>1, <3>3 DEF SafeInv, SaidInv, StopInv
    <2>2. CASE ~(t.there /\ ev = "Away")
        BY <2>2
    <2> QED
        BY <2>1, <2>2
<1> HIDE DEF gone
<1>2. /\ told \in Sched /\ told.there = gone.there /\ told.busy = gone.busy /\ told.rest = gone.rest
      /\ told.gen = gone.gen /\ told.held = gone.held /\ told.begun = gone.begun /\ told.passes = gone.passes
      /\ told.watch = gone.watch /\ told.said = gone.said /\ told.manual = (ev = "Manually")
      /\ told.wake = gone.wake /\ told.dirty = gone.dirty
    BY <1>1 DEF Sched
<1> HIDE DEF told
<1>3. SafeInv(told)
    BY <1>1, <1>2 DEF SafeInv, Bounded, SaidInv, StopInv
<1>4. CASE ev = "Away"
    <2>1. u = told /\ told.there = FALSE /\ ~told.busy
        <3>1. gone.there = FALSE /\ ~gone.busy
            BY <1>1, <1>4 DEF gone, SafeInv, StopInv, Sched
        <3> QED
            BY <1>0, <1>2, <1>4, <3>1
    <2>2. Served(t, u) /\ LiveInv(u)
        BY <2>1 DEF Served, LiveInv, IsCurrent
    <2> QED
        BY <1>2, <1>3, <1>4, <2>1, <2>2
<1>5. CASE ev # "Away" /\ t.there
    <2>1. gone = t /\ told.there /\ u = Reconcile(told)
        BY <1>0, <1>2, <1>5 DEF gone
    <2>2. LiveInv(t) => LiveInv(told)
        BY <1>2, <2>1 DEF LiveInv, IsCurrent
    <2>3. /\ Quiet(told, u) /\ u.watch = Wanted(told) /\ SaidInv(u) /\ (LiveInv(told) => LiveInv(u))
          /\ Wakes(told, u) /\ (told.rest.st # "Current" => u.wake = told.wake)
        BY <1>2, <1>3, <2>1, ReconcileIs DEF SafeInv
    <2> HIDE DEF u
    <2>4. StopInv(u)
        BY <2>1, <2>3 DEF StopInv, Quiet, Stays, Wanted
    <2>5. SafeInv(u) /\ Served(told, u)
        BY <1>2, <1>3, <2>3, <2>4, BoundedStays DEF SafeInv, Quiet
    <2>6. Served(t, u)
        BY <1>2, <2>1, <2>5 DEF Served
    <2>7. Told(t, u, ev = "Manually")
        BY <1>2, <2>1, <2>3 DEF Told
    <2> QED
        BY <2>1, <2>2, <2>3, <2>5, <2>6, <2>7 DEF Quiet, Stays, u
<1>6. CASE ev # "Away" /\ ~t.there
    <2>1. gone = t /\ come = Handle(new, "Poll") /\ ~told.busy /\ ~told.watch
        BY <1>1, <1>2, <1>6 DEF gone, SafeInv, StopInv
    <2>2. probe \in Rest /\ probe.st \in {"Fresh", "Current"} /\ probe.live = "Polling"
        BY ProbedIs
    <2>3. /\ new \in Sched /\ new.there = TRUE /\ new.busy = told.busy /\ new.rest = probe
          /\ new.gen = told.gen /\ new.held = told.held /\ new.begun = told.begun /\ new.passes = told.passes
          /\ new.watch = told.watch /\ new.said = told.said
        BY <1>2, <2>2 DEF Sched
    <2> HIDE DEF new
    <2>4. SafeInv(new)
        BY <1>3, <2>1, <2>2, <2>3 DEF SafeInv, Bounded, SaidInv, StopInv
    <2>5. new.said = "Polling"
        BY <2>1, <2>3, <2>4 DEF SafeInv, SaidInv, Sched, Lives
    <2>6. LiveInv(new)
        BY <2>2, <2>3, <2>5 DEF LiveInv
    <2>7. come \in Sched /\ SafeInv(come) /\ Served(new, come) /\ LiveInv(come) /\ come.there = TRUE
        BY <2>1, <2>3, <2>4, <2>6, HandleSafe
    <2> HIDE DEF come
    <2>8. /\ Quiet(come, u) /\ u.watch = Wanted(come) /\ SaidInv(u) /\ LiveInv(u)
        BY <1>0, <2>7, ReconcileIs DEF SafeInv
    <2> HIDE DEF u
    <2>9. StopInv(u)
        BY <2>7, <2>8 DEF StopInv, Quiet, Stays, Wanted
    <2>10. SafeInv(u)
        BY <2>7, <2>8, <2>9, BoundedStays DEF SafeInv, Quiet
    <2>11. Served(t, u)
        BY <2>1, <2>3, <2>7, <2>8 DEF Served, Quiet, Stays
    <2> QED
        BY <1>6, <2>8, <2>10, <2>11 DEF Quiet, Stays, u
<1> QED
    BY <1>4, <1>5, <1>6

-----------------------------------------------------------------------------
(* The channel.                                                            *)

Types ==
    /\ s \in Sched /\ s.begun <= MaxPasses
    /\ inbox \in Seq(Notes) /\ Len(inbox) <= MaxNotes
    /\ keep \in {"off", "rest", "listen", "up"}
    /\ late \in {"off", "listen", "up"} /\ beat \in BOOLEAN /\ holding \in BOOLEAN
    /\ unseen \in BOOLEAN /\ long \in BOOLEAN /\ turned \in BOOLEAN
    /\ schedule \in {"window", "watch"}

LEMMA Popped ==
    ASSUME inbox \in Seq(Notes), inbox # << >>, inbox' = Tail(inbox)
    PROVE  /\ inbox' \in Seq(Notes) /\ Len(inbox) \in Nat /\ Len(inbox') = Len(inbox) - 1 /\ Len(inbox') \in Nat
           /\ 1 \in 1..Len(inbox) /\ Head(inbox) = inbox[1]
           /\ \A k \in 1..Len(inbox') : k + 1 \in 1..Len(inbox) /\ inbox'[k] = inbox[k + 1]
           /\ \A x : (Queues(x) /\ x # Head(inbox) => Queues(x)') /\ (Queues(x)' => Queues(x))
<1>1. /\ inbox' \in Seq(Notes) /\ Len(inbox) \in Nat /\ Len(inbox') = Len(inbox) - 1 /\ Len(inbox') \in Nat
      /\ 1 \in 1..Len(inbox) /\ Head(inbox) = inbox[1]
    OBVIOUS
<1>2. \A k \in 1..Len(inbox') : k + 1 \in 1..Len(inbox) /\ inbox'[k] = inbox[k + 1]
    BY <1>1
<1>3. ASSUME NEW x, Queues(x), x # Head(inbox) PROVE Queues(x)'
    <2>1. PICK k \in 1..Len(inbox) : inbox[k] = x
        BY <1>3 DEF Queues
    <2>2. k - 1 \in 1..Len(inbox') /\ (k - 1) + 1 = k
        BY <1>1, <1>3, <2>1
    <2>3. inbox'[k - 1] = x
        BY <1>2, <2>1, <2>2
    <2> QED
        BY <2>2, <2>3 DEF Queues
<1>4. ASSUME NEW x, Queues(x)' PROVE Queues(x)
    BY <1>2, <1>4 DEF Queues
<1> QED
    BY <1>1, <1>2, <1>3, <1>4

LEMMA Sent ==
    ASSUME inbox \in Seq(Notes), NEW notes \in Seq(Notes), Send(notes)
    PROVE  /\ inbox' \in Seq(Notes) /\ Len(inbox') <= MaxNotes /\ Len(inbox') = Len(inbox) + Len(notes)
           /\ Len(inbox) \in Nat /\ Len(notes) \in Nat
           /\ \A k \in 1..Len(inbox) : k \in 1..Len(inbox') /\ inbox'[k] = inbox[k]
           /\ \A k \in 1..Len(inbox') : k \notin 1..Len(inbox) =>
                  k - Len(inbox) \in 1..Len(notes) /\ inbox'[k] = notes[k - Len(inbox)]
           /\ \A x : Queues(x) => Queues(x)'
           /\ \A k \in 1..Len(notes) : Queues(notes[k])'
<1>1. /\ inbox' = inbox \o notes /\ inbox' \in Seq(Notes) /\ Len(inbox) \in Nat /\ Len(notes) \in Nat
      /\ Len(inbox') = Len(inbox) + Len(notes) /\ Len(inbox') <= MaxNotes
    BY DEF Send
<1>2. \A k \in 1..Len(inbox) : k \in 1..Len(inbox') /\ inbox'[k] = inbox[k]
    BY <1>1
<1>3. ASSUME NEW k \in 1..Len(inbox'), k \notin 1..Len(inbox)
      PROVE  k - Len(inbox) \in 1..Len(notes) /\ inbox'[k] = notes[k - Len(inbox)]
    BY <1>1, <1>3
<1>4. \A x : Queues(x) => Queues(x)'
    BY <1>2 DEF Queues
<1>5. ASSUME NEW k \in 1..Len(notes) PROVE inbox'[k + Len(inbox)] = notes[k] /\ k + Len(inbox) \in 1..Len(inbox')
    BY <1>1
<1>6. \A k \in 1..Len(notes) : Queues(notes[k])'
    <2>1. ASSUME NEW k \in 1..Len(notes) PROVE \E i \in 1..Len(inbox') : inbox'[i] = notes[k]
        BY <1>5
    <2> QED
        BY <2>1 DEF Queues
<1> QED
    BY <1>1, <1>2, <1>3, <1>4, <1>6

LEMMA SentOne ==
    ASSUME inbox \in Seq(Notes), NEW ev \in Notes, Send(<<ev>>)
    PROVE  /\ inbox' \in Seq(Notes) /\ Len(inbox') <= MaxNotes
           /\ Len(inbox) \in Nat /\ Len(inbox') = Len(inbox) + 1
           /\ \A k \in 1..Len(inbox) : inbox'[k] = inbox[k]
           /\ inbox'[Len(inbox) + 1] = ev
           /\ \A x : Queues(x) => Queues(x)'
           /\ Queues(ev)'
           /\ \A x : Queues(x)' => Queues(x) \/ x = ev
<1>1. <<ev>> \in Seq(Notes) /\ Len(<<ev>>) = 1 /\ <<ev>>[1] = ev /\ 1 \in 1..Len(<<ev>>)
    OBVIOUS
<1>2. /\ inbox' \in Seq(Notes) /\ Len(inbox') <= MaxNotes /\ Len(inbox') = Len(inbox) + 1 /\ Len(inbox) \in Nat
      /\ \A k \in 1..Len(inbox) : inbox'[k] = inbox[k]
      /\ \A x : Queues(x) => Queues(x)'
    BY <1>1, Sent
<1>3. Queues(ev)'
    <2>1. \A k \in 1..Len(<<ev>>) : Queues(<<ev>>[k])'
        BY <1>1, Sent
    <2>2. Queues(<<ev>>[1])'
        BY <1>1, <2>1
    <2> QED
        BY <1>1, <2>2
<1>4. inbox'[Len(inbox) + 1] = ev
    BY <1>2 DEF Send
<1>5. ASSUME NEW x, Queues(x)' PROVE Queues(x) \/ x = ev
    <2>1. PICK k \in 1..Len(inbox') : inbox'[k] = x
        BY <1>5 DEF Queues
    <2>2. CASE k \in 1..Len(inbox)
        BY <1>2, <2>1, <2>2 DEF Queues
    <2>3. CASE k \notin 1..Len(inbox)
        <3>1. k = Len(inbox) + 1
            BY <1>2, <2>3
        <3> QED
            BY <1>4, <2>1, <3>1
    <2> QED
        BY <2>2, <2>3
<1> QED
    BY <1>2, <1>3, <1>4, <1>5

-----------------------------------------------------------------------------
(* What holds of every instance.                                           *)

BaseInv == Types /\ SafeInv(s) /\ SyncingServed

LEMMA TypesAre == BaseInv => TypeOK
<1> SUFFICES ASSUME BaseInv PROVE TypeOK
    OBVIOUS
<1>0. s \in Sched /\ s.begun <= MaxPasses /\ Bounded(s) /\ MaxPasses \in Nat
    BY Spans DEF BaseInv, Types, SafeInv
<1>1. s.begun \in 0..MaxPasses /\ s.held \in 0..MaxPasses
    BY <1>0 DEF Sched, Bounded
<1>2. s.passes \subseteq PassTask
    <2>1. ASSUME NEW p \in s.passes PROVE p \in PassTask
        <3>1. p \in PassType /\ s.begun \in Nat
            BY <1>0 DEF Sched
        <3>2. p.n \in 1..s.begun /\ p.gen \in 1..(2 * s.begun)
            BY <1>0 DEF Bounded
        <3>3. p.n \in 1..MaxPasses /\ p.gen \in 1..(2 * MaxPasses)
            BY <1>0, <3>1, <3>2
        <3> QED
            BY <3>1, <3>3 DEF PassType, PassTask
    <2> QED
        BY <2>1
<1>3. s \in [there: BOOLEAN, busy: BOOLEAN, rest: Rest, manual: BOOLEAN,
             wake: [ev: {"none", "Tick", "Poll"}, left: Nat], gen: Nat, held: 0..MaxPasses,
             begun: 0..MaxPasses, passes: SUBSET PassTask, watch: BOOLEAN, offered: BOOLEAN,
             said: Lives, dirty: BOOLEAN]
    BY <1>0, <1>1, <1>2 DEF Sched, WakeType
<1> QED
    BY <1>3 DEF TypeOK, BaseInv, Types

LEMMA InitBase == Init => BaseInv /\ LiveInv(s)
<1> SUFFICES ASSUME Init PROVE BaseInv /\ LiveInv(s)
    OBVIOUS
<1>1. PICK probe \in Probed, manual \in BOOLEAN :
          s = [there |-> TRUE, busy |-> FALSE, rest |-> probe, manual |-> manual,
               wake |-> NoWake, gen |-> 0, held |-> 0, begun |-> 0, passes |-> {},
               watch |-> FALSE, offered |-> FALSE, said |-> "Polling", dirty |-> FALSE]
    BY DEF Init
<1>2. probe \in Rest /\ probe.st \in {"Fresh", "Current"} /\ probe.live = "Polling"
    BY ProbedIs
<1>3. s \in Sched
    BY <1>1, <1>2 DEF Sched, WakeType, NoWake, Lives
<1>4. /\ s.begun = 0 /\ s.held = 0 /\ s.gen = 0 /\ s.passes = {} /\ ~s.busy /\ s.there /\ ~s.watch
      /\ s.said = "Polling" /\ s.rest = probe
    BY <1>1
<1>5. SafeInv(s) /\ LiveInv(s) /\ SyncingServed
    BY <1>2, <1>4 DEF SafeInv, Bounded, SaidInv, StopInv, LiveInv, SyncingServed
<1>6. inbox \in Seq(Notes) /\ Len(inbox) <= MaxNotes
    <2>1. "Polled" \in Notes /\ "Manually" \in Notes
        BY DEF Notes
    <2>2. CASE inbox = <<"Polled">>
        BY <2>1, <2>2, ScheduleAssumption
    <2>3. CASE inbox = <<"Manually">>
        BY <2>1, <2>3, ScheduleAssumption
    <2> QED
        BY <2>2, <2>3 DEF Init
<1>7. keep = "off" /\ late = "off" /\ beat = TRUE /\ schedule = "window" /\ holding = FALSE /\ unseen = FALSE
      /\ long = FALSE /\ turned = FALSE
    BY DEF Init
<1>8. s.begun <= MaxPasses
    BY <1>4, Spans
<1>9. Types
    BY <1>3, <1>6, <1>7, <1>8 DEF Types
<1> QED
    BY <1>5, <1>9 DEF BaseInv

\* A note is handled: a link that syncs has its pass, or is as it was before a note that ends none.
LEMMA TakeBase ==
    ASSUME BaseInv, NEW ev, NEW u \in Sched, Take(ev, u), SafeInv(u),
           (u.busy => \E p \in u.passes : p.gen = u.gen) \/ (ev \notin Ends /\ Served(s, u))
    PROVE  BaseInv'
<1>0. /\ Types /\ SyncingServed /\ inbox # << >> /\ Head(inbox) = ev /\ inbox' = Tail(inbox) /\ s' = u
      /\ u.begun <= MaxPasses /\ inbox \in Seq(Notes) /\ Len(inbox) <= MaxNotes
    BY DEF BaseInv, Types, Take
<1>1. inbox' \in Seq(Notes) /\ Len(inbox') <= MaxNotes
    BY <1>0, Popped, Spans
<1>2. \A x : Queues(x) /\ x # ev => Queues(x)'
    BY <1>0, Popped
<1>3. Types'
    BY <1>0, <1>1 DEF Types, Take
<1>4. SyncingServed'
    <2>1. SUFFICES ASSUME u.busy, ~\E p \in u.passes : p.gen = u.gen
                   PROVE  \E e \in Ends : Queues(e)'
        BY <1>0 DEF SyncingServed
    <2>2. ev \notin Ends /\ s.busy /\ u.gen = s.gen /\ u.passes = s.passes
        BY <2>1 DEF Served
    <2>3. PICK e \in Ends : Queues(e)
        BY <1>0, <2>1, <2>2 DEF SyncingServed
    <2> QED
        BY <1>2, <2>2, <2>3
<1>5. SafeInv(s)'
    BY <1>0 DEF SafeInv, Bounded, SaidInv, StopInv
<1> QED
    BY <1>3, <1>4, <1>5 DEF BaseInv

LEMMA TakesBase == ASSUME BaseInv, Loop PROVE BaseInv'
<1>0. s \in Sched /\ SafeInv(s)
    BY DEF BaseInv, Types
<1>1. ASSUME NEW ev \in Starts \cup {"Tick", "SignedIn"}, Take(ev, Handle(s, ev)) PROVE BaseInv'
    <2>1. ev \notin Ends
        BY DEF Starts, Ends
    <2> QED
        BY <1>0, <1>1, <2>1, HandleSafe, TakeBase
<1>2. ASSUME NEW ev \in Lives, Take(ev, IF s.there THEN HandleLive(s, ev) ELSE s) PROVE BaseInv'
    <2>1. ev \notin Ends /\ Served(s, s)
        BY DEF Lives, Ends, Served
    <2>2. CASE s.there
        BY <1>0, <1>2, <2>1, <2>2, HandleLiveSafe, TakeBase
    <2>3. CASE ~s.there
        BY <1>0, <1>2, <2>1, <2>3, TakeBase
    <2> QED
        BY <2>2, <2>3
<1>3. ASSUME NEW ev \in Ends, NEW wait \in Waits \cup {0}, Take(ev, HandleEnd(s, ev, wait)) PROVE BaseInv'
    BY <1>0, <1>3, HandleEndSafe, TakeBase
<1>4. ASSUME NEW ev \in {"Away", "Polled", "Manually"}, NEW offered \in BOOLEAN, NEW probe \in Probed,
             Take(ev, Follow(s, ev, offered, probe))
      PROVE  BaseInv'
    <2>1. ev \notin Ends
        BY DEF Ends
    <2> QED
        BY <1>0, <1>4, <2>1, FollowIs, TakeBase
<1> QED
    BY <1>1, <1>2, <1>3, <1>4 DEF Loop, TakeStart, TakeLive, TakeEnd, TakeAccounts

\* What speaks to the scheduler leaves it as it is, ...
LEMMA SpeakBase ==
    ASSUME BaseInv, UNCHANGED s, inbox' \in Seq(Notes), Len(inbox') <= MaxNotes, \A x : Queues(x) => Queues(x)',
           keep' \in {"off", "rest", "listen", "up"}, late' \in {"off", "listen", "up"}, beat' \in BOOLEAN,
           holding' \in BOOLEAN, unseen' \in BOOLEAN, schedule' \in {"window", "watch"}, UNCHANGED <<long, turned>>
    PROVE  BaseInv'
<1>1. Types' /\ SafeInv(s)'
    BY DEF BaseInv, Types, SafeInv, Bounded, SaidInv, StopInv
<1>2. SyncingServed'
    BY DEF BaseInv, SyncingServed
<1> QED
    BY <1>1, <1>2 DEF BaseInv

\* ... a pass that ends is gone from it, ...
LEMMA PassEndsIs ==
    ASSUME Types, NEW p \in s.passes, s' = [s EXCEPT !.passes = @ \ {p}]
    PROVE  /\ s' \in Sched /\ s'.passes = s.passes \ {p}
           /\ s'.there = s.there /\ s'.busy = s.busy /\ s'.rest = s.rest /\ s'.manual = s.manual /\ s'.wake = s.wake
           /\ s'.gen = s.gen /\ s'.held = s.held /\ s'.begun = s.begun /\ s'.watch = s.watch
           /\ s'.said = s.said /\ s'.dirty = s.dirty
<1> DEFINE ps == s.passes \ {p}
<1>1. s \in Sched /\ ps \in SUBSET PassType /\ s' = [s EXCEPT !.passes = ps]
    BY DEF Types, Sched
<1> HIDE DEF ps
<1>2. s' \in Sched /\ s'.passes = ps
    BY <1>1 DEF Sched
<1>3. /\ s'.there = s.there /\ s'.busy = s.busy /\ s'.rest = s.rest /\ s'.manual = s.manual /\ s'.wake = s.wake
      /\ s'.gen = s.gen /\ s'.held = s.held /\ s'.begun = s.begun /\ s'.watch = s.watch
      /\ s'.said = s.said /\ s'.dirty = s.dirty
    BY <1>1 DEF Sched
<1> QED
    BY <1>2, <1>3 DEF ps

\* ... and time and the timer only move the times.
Moved ==
    /\ s' \in Sched /\ s'.rest \in Rest /\ s'.rest.st = s.rest.st /\ s'.rest.live = s.rest.live
    /\ s'.there = s.there /\ s'.busy = s.busy /\ s'.manual = s.manual
    /\ s'.gen = s.gen /\ s'.held = s.held /\ s'.begun = s.begun /\ s'.passes = s.passes /\ s'.watch = s.watch
    /\ s'.said = s.said /\ s'.dirty = s.dirty

LEMMA TimerIs ==
    ASSUME Types, s' = [s EXCEPT !.wake = NoWake]
    PROVE  Moved /\ s'.rest = s.rest /\ s'.wake = NoWake
<1>1. s \in Sched /\ NoWake \in WakeType /\ s.rest \in Rest
    BY DEF Types, WakeType, NoWake, Sched
<1>2. s' \in Sched /\ s'.wake = NoWake /\ s'.rest = s.rest
    BY <1>1 DEF Sched
<1>3. /\ s'.there = s.there /\ s'.busy = s.busy /\ s'.manual = s.manual
      /\ s'.gen = s.gen /\ s'.held = s.held /\ s'.begun = s.begun /\ s'.passes = s.passes /\ s'.watch = s.watch
      /\ s'.said = s.said /\ s'.dirty = s.dirty
    BY <1>1 DEF Sched
<1> QED
    BY <1>1, <1>2, <1>3 DEF Moved

LEMMA ElapseIs ==
    ASSUME Types, Elapse
    PROVE  /\ Moved /\ s'.wake.ev = s.wake.ev /\ s'.wake.left = Less(s.wake.left) /\ s'.rest.left = Less(s.rest.left)
           /\ s'.rest.age = IF s.rest.age < MaxAge /\ s.rest.st = "Current" THEN s.rest.age + 1 ELSE s.rest.age
<1> DEFINE age == IF s.rest.age < MaxAge /\ s.rest.st = "Current" THEN s.rest.age + 1 ELSE s.rest.age
           left == Less(s.rest.left)
           wl == Less(s.wake.left)
           r == [s.rest EXCEPT !.age = age, !.left = left]
           w == [s.wake EXCEPT !.left = wl]
<1>0. s \in Sched /\ s.rest \in Rest /\ s.wake \in WakeType /\ s.rest.age \in 0..MaxAge /\ s.rest.left \in 0..Longest
      /\ s.wake.left \in Nat
    BY DEF Types, Sched, Rest, WakeType
<1>1. age \in 0..MaxAge /\ left \in 0..Longest /\ wl \in Nat
    BY <1>0, Spans, LongestIs DEF Less
<1>2. s' = [s EXCEPT !.rest = r, !.wake = w]
    BY <1>0 DEF Elapse, Sched
<1> HIDE DEF age, left, wl
<1>3. r \in Rest /\ r.st = s.rest.st /\ r.live = s.rest.live /\ r.age = age /\ r.left = left
    BY <1>0, <1>1 DEF Rest
<1>4. w \in WakeType /\ w.ev = s.wake.ev /\ w.left = wl
    BY <1>0, <1>1 DEF WakeType
<1> HIDE DEF r, w
<1>5. s' \in Sched /\ s'.wake = w /\ s'.rest = r
    BY <1>0, <1>2, <1>3, <1>4 DEF Sched
<1>6. /\ s'.there = s.there /\ s'.busy = s.busy /\ s'.manual = s.manual
      /\ s'.gen = s.gen /\ s'.held = s.held /\ s'.begun = s.begun /\ s'.passes = s.passes /\ s'.watch = s.watch
      /\ s'.said = s.said /\ s'.dirty = s.dirty
    BY <1>0, <1>2 DEF Sched
<1> QED
    BY <1>3, <1>4, <1>5, <1>6 DEF Moved, age, left, wl

LEMMA MovedBase ==
    ASSUME BaseInv, Moved, inbox' \in Seq(Notes), Len(inbox') <= MaxNotes, \A x : Queues(x) => Queues(x)',
           UNCHANGED <<keep, late, beat, schedule, holding, unseen, long, turned>>
    PROVE  BaseInv'
<1>1. Types'
    BY DEF BaseInv, Types, Moved
<1>2. SafeInv(s)'
    BY DEF BaseInv, SafeInv, Bounded, SaidInv, StopInv, Moved
<1>3. SyncingServed'
    BY DEF BaseInv, SyncingServed, Moved
<1> QED
    BY <1>1, <1>2, <1>3 DEF BaseInv

LEMMA PassEndsBase == ASSUME BaseInv, PassEnds PROVE BaseInv'
<1>0. PICK p \in s.passes, ev \in Outcomes \cup {"Cancel"} :
         /\ s' = [s EXCEPT !.passes = @ \ {p}]
         /\ Send(IF p.gen = s.gen THEN <<ev>> ELSE <<>>)
         /\ UNCHANGED <<keep, late, beat, schedule, holding, unseen, long, turned>>
    BY DEF PassEnds
<1>1. /\ s' \in Sched /\ s'.passes = s.passes \ {p} /\ s'.there = s.there /\ s'.busy = s.busy /\ s'.rest = s.rest
      /\ s'.gen = s.gen /\ s'.held = s.held /\ s'.begun = s.begun /\ s'.watch = s.watch /\ s'.said = s.said
    BY <1>0, PassEndsIs DEF BaseInv
<1>2. ev \in Ends /\ ev \in Notes /\ inbox \in Seq(Notes)
    BY ScheduleAssumption DEF Ends, Notes, BaseInv, Types
<1>3. /\ inbox' \in Seq(Notes) /\ Len(inbox') <= MaxNotes /\ (\A x : Queues(x) => Queues(x)')
      /\ (p.gen = s.gen => Queues(ev)')
    <2>1. CASE p.gen = s.gen
        BY <1>0, <1>2, <2>1, SentOne
    <2>2. CASE p.gen # s.gen
        <3>1. Send(<<>>) /\ <<>> \in Seq(Notes)
            BY <1>0, <2>2
        <3> QED
            BY <1>2, <2>2, <3>1, Sent
    <2> QED
        BY <2>1, <2>2
<1>4. Types'
    BY <1>0, <1>1, <1>3 DEF BaseInv, Types
<1>5. SafeInv(s)'
    BY <1>1 DEF BaseInv, SafeInv, Bounded, SaidInv, StopInv
<1>6. SyncingServed'
    BY <1>1, <1>2, <1>3 DEF BaseInv, SyncingServed
<1> QED
    BY <1>4, <1>5, <1>6 DEF BaseInv

\* The channel has what it had, and after it notes of a kind.
Spoke(S) ==
    /\ inbox' \in Seq(Notes) /\ Len(inbox') <= MaxNotes /\ Len(inbox) \in Nat /\ Len(inbox') \in Nat
    /\ Len(inbox') >= Len(inbox)
    /\ \A k \in 1..Len(inbox) : k \in 1..Len(inbox') /\ inbox'[k] = inbox[k]
    /\ \A k \in 1..Len(inbox') : k \notin 1..Len(inbox) => inbox'[k] \in S
    /\ \A x : Queues(x) => Queues(x)'

LEMMA SpokeIs ==
    ASSUME Types, NEW S, NEW notes \in Seq(Notes), Send(notes), \A k \in 1..Len(notes) : notes[k] \in S
    PROVE  Spoke(S)
<1>1. /\ inbox' \in Seq(Notes) /\ Len(inbox') <= MaxNotes /\ Len(inbox') = Len(inbox) + Len(notes)
      /\ Len(inbox) \in Nat /\ Len(notes) \in Nat
      /\ \A k \in 1..Len(inbox) : k \in 1..Len(inbox') /\ inbox'[k] = inbox[k]
      /\ \A k \in 1..Len(inbox') : k \notin 1..Len(inbox) =>
             k - Len(inbox) \in 1..Len(notes) /\ inbox'[k] = notes[k - Len(inbox)]
      /\ \A x : Queues(x) => Queues(x)'
    BY Sent DEF Types
<1>2. \A k \in 1..Len(inbox') : k \notin 1..Len(inbox) => inbox'[k] \in S
    BY <1>1
<1>3. Len(inbox') \in Nat /\ Len(inbox') >= Len(inbox)
    BY <1>1
<1> QED
    BY <1>1, <1>2, <1>3 DEF Spoke

LEMMA SpokeOne == ASSUME Types, NEW S, NEW ev \in S, ev \in Notes, Send(<<ev>>) PROVE Spoke(S)
<1>1. <<ev>> \in Seq(Notes) /\ \A k \in 1..Len(<<ev>>) : <<ev>>[k] \in S
    OBVIOUS
<1> QED
    BY <1>1, SpokeIs

LEMMA SpokeNone == ASSUME Types, NEW S, UNCHANGED inbox PROVE Spoke(S)
<1>1. inbox \in Seq(Notes) /\ Len(inbox) \in Nat /\ Len(inbox) <= MaxNotes
    BY DEF Types
<1>2. \A x : Queues(x) => Queues(x)'
    BY DEF Queues
<1> QED
    BY <1>1, <1>2 DEF Spoke

Speaks == Watch \/ BeatFires \/ Asked \/ BesideChanges

LEMMA SpeaksIs ==
    ASSUME Types, Speaks
    PROVE  /\ UNCHANGED s /\ Spoke(Starts \cup Lives \cup Asks)
           /\ keep' \in {"off", "rest", "listen", "up"} /\ late' \in {"off", "listen", "up"} /\ beat' \in BOOLEAN
           /\ holding' \in BOOLEAN /\ unseen' \in BOOLEAN /\ schedule' \in {"window", "watch"} /\ UNCHANGED <<long, turned>>
<1> DEFINE S == Starts \cup Lives \cup Asks
<1>0. /\ {"Poll", "Push", "Pushed", "Polling"} \subseteq S /\ S \subseteq Notes
      /\ {"Poll", "Push", "Pushed", "Polling"} \subseteq Notes
    BY ScheduleAssumption DEF Starts, Lives, Notes
<1>t. /\ keep \in {"off", "rest", "listen", "up"} /\ late \in {"off", "listen", "up"} /\ beat \in BOOLEAN
      /\ holding \in BOOLEAN /\ unseen \in BOOLEAN /\ schedule \in {"window", "watch"}
    BY DEF Types
<1> HIDE DEF S
<1>1. CASE WatchListens \/ LateEnds
    <2>1. UNCHANGED inbox
        BY <1>1 DEF WatchListens, LateEnds
    <2>2. Spoke(S)
        BY <2>1, SpokeNone
    <2> QED
        BY <1>1, <1>t, <2>2 DEF WatchListens, LateEnds, S
<1>2. CASE WatchUp
    <2>1. Spoke(S)
        BY <1>0, <1>2, SpokeOne DEF WatchUp
    <2> QED
        BY <1>2, <1>t, <2>1 DEF WatchUp, S
<1>3. CASE WatchHears \/ LateHears
    <2>1. PICK ev \in {"Push", "Poll", "Pushed"} : Hears(ev)
        BY <1>3 DEF WatchHears, LateHears
    <2>2. Spoke(S)
        BY <1>0, <2>1, SpokeOne DEF Hears
    <2> QED
        BY <1>3, <1>t, <2>1, <2>2 DEF WatchHears, LateHears, Hears, S
<1>4. CASE WatchLost
    <2>1. PICK nudge \in {<<>>, <<"Poll">>} : Send(<<"Polling">> \o nudge)
        BY <1>4 DEF WatchLost
    <2> DEFINE notes == <<"Polling">> \o nudge
    <2>2. "Polling" \in S /\ "Poll" \in S /\ "Polling" \in Notes /\ "Poll" \in Notes
        BY <1>0
    <2>3. notes \in Seq(Notes) /\ \A k \in 1..Len(notes) : notes[k] \in S
        <3>1. nudge \in Seq(Notes) /\ nudge \in Seq(S)
            <4>1. CASE nudge = <<>>
                BY <4>1
            <4>2. CASE nudge = <<"Poll">>
                BY <2>2, <4>2
            <4> QED
                BY <2>1, <4>1, <4>2
        <3>2. notes \in Seq(Notes) /\ notes \in Seq(S)
            BY <2>2, <3>1
        <3> HIDE DEF notes
        <3> QED
            BY <3>2
    <2>4. Spoke(S)
        BY <2>1, <2>3, SpokeIs
    <2> QED
        BY <1>4, <1>t, <2>4 DEF WatchLost, S
<1>5. CASE BeatFires
    <2>1. Spoke(S)
        BY <1>0, <1>5, SpokeOne DEF BeatFires
    <2> QED
        BY <1>5, <1>t, <2>1 DEF BeatFires, S
<1>6. CASE Asked
    <2>1. PICK ev \in Asks : Send(<<ev>>)
        BY <1>6 DEF Asked
    <2>2. ev \in S /\ ev \in Notes
        BY <1>0 DEF S
    <2>3. Spoke(S)
        BY <2>1, <2>2, SpokeOne
    <2> QED
        BY <1>6, <1>t, <2>3 DEF Asked, S
<1>7. CASE BesideChanges
    <2>1. Spoke(S)
        BY <1>7, SpokeNone DEF BesideChanges
    <2> QED
        BY <1>7, <1>t, <2>1 DEF BesideChanges, S
<1> QED
    BY <1>1, <1>2, <1>3, <1>4, <1>5, <1>6, <1>7 DEF Speaks, Watch

LEMMA TimerSpoke ==
    ASSUME Types, TimerFires
    PROVE  Moved /\ Spoke({"Tick", "Poll"}) /\ \E ev \in {"Tick", "Poll"} : ev = s.wake.ev /\ Queues(ev)'
<1>1. PICK ev \in {"Tick", "Poll"} : ev = s.wake.ev /\ Send(<<ev>>) /\ s' = [s EXCEPT !.wake = NoWake]
    BY DEF TimerFires, Types, Sched, WakeType
<1>2. ev \in Notes /\ inbox \in Seq(Notes)
    BY DEF Notes, Starts, Types
<1>3. Moved /\ Spoke({"Tick", "Poll"}) /\ Queues(ev)'
    BY <1>1, <1>2, SpokeOne, SentOne, TimerIs
<1> QED
    BY <1>1, <1>3

LEMMA NextBase == BaseInv /\ [Next]_vars => BaseInv'
<1> SUFFICES ASSUME BaseInv, [Next]_vars PROVE BaseInv'
    OBVIOUS
<1>0. Types
    BY DEF BaseInv
<1>1. CASE Loop
    BY <1>1, TakesBase
<1>2. CASE Watch \/ BeatFires \/ Asked \/ BesideChanges
    <2>1. Speaks
        BY <1>2 DEF Speaks
    <2> QED
        BY <1>0, <2>1, SpeaksIs, SpeakBase DEF Spoke
<1>3. CASE PassEnds
    BY <1>3, PassEndsBase
<1>4. CASE TimerFires
    BY <1>0, <1>4, TimerSpoke, MovedBase DEF Spoke, TimerFires
<1>5. CASE Elapse
    <2>1. Spoke({})
        BY <1>0, <1>5, SpokeNone DEF Elapse
    <2> QED
        BY <1>0, <1>5, <2>1, ElapseIs, MovedBase DEF Spoke, Elapse
<1>6. CASE UNCHANGED vars
    BY <1>6 DEF vars, BaseInv, Types, SafeInv, Bounded, SaidInv, StopInv, SyncingServed, Queues
<1> QED
    BY <1>1, <1>2, <1>3, <1>4, <1>5, <1>6 DEF Next

LEMMA BaseHolds == Spec => []BaseInv
<1>1. Init => BaseInv
    BY InitBase
<1>2. BaseInv /\ [Next]_vars => BaseInv'
    BY NextBase
<1> QED
    BY <1>1, <1>2, PTL DEF Spec

\* The link, its timer and its passes have their types, and the generations given out never run
\* ahead of twice the passes begun (Generations::next, Effect::RunPass, Effect::CancelPass).
THEOREM ScheduleTypes == Spec => []TypeOK
<1>1. BaseInv => TypeOK
    BY TypesAre
<1> QED
    BY <1>1, BaseHolds, PTL

\* A link that says it is syncing has a pass that will say how it ended, or has said so, whatever
\* is cancelled, forgotten or said late and though generations are given out again when an account
\* comes back (step, handle, follow, run_pass).
THEOREM SyncingIsServed == Spec => []SyncingServed
<1>1. BaseInv => SyncingServed
    BY DEF BaseInv
<1> QED
    BY <1>1, BaseHolds, PTL

\* A refused credential or a broken account is not watched, whoever else comes and goes beside the
\* window (decide, reconcile_watch, after, follow).
THEOREM StoppedAreUnwatched == Spec => []StoppedUnwatched
<1>1. BaseInv => StoppedUnwatched
    BY DEF BaseInv, SafeInv, StopInv, StoppedUnwatched
<1> QED
    BY <1>1, BaseHolds, PTL

-----------------------------------------------------------------------------
(* Where no `mailo watch' and no daemon come and go beside the window.      *)

Alone == Beside = FALSE
LiveHolds == BaseInv /\ schedule = "window" /\ LiveInv(s)

LEMMA NextLive == ASSUME Alone PROVE LiveHolds /\ [Next]_vars => LiveHolds'
<1> SUFFICES ASSUME LiveHolds, [Next]_vars PROVE schedule' = "window" /\ LiveInv(s)'
    BY NextBase DEF LiveHolds
<1>0. Types /\ SafeInv(s) /\ LiveInv(s) /\ schedule = "window" /\ s \in Sched /\ BaseInv
    BY DEF LiveHolds, BaseInv, Types
<1>1. ASSUME NEW ev, NEW u, Take(ev, u), LiveInv(u) PROVE schedule' = "window" /\ LiveInv(s)'
    BY <1>0, <1>1 DEF Take, LiveInv, IsCurrent
<1>2. CASE Loop
    <2>1. ASSUME NEW ev \in Starts \cup {"Tick", "SignedIn"}, Take(ev, Handle(s, ev))
          PROVE  schedule' = "window" /\ LiveInv(s)'
        BY <1>0, <1>1, <2>1, HandleSafe
    <2>2. ASSUME NEW ev \in Lives, Take(ev, IF s.there THEN HandleLive(s, ev) ELSE s)
          PROVE  schedule' = "window" /\ LiveInv(s)'
        <3>1. LiveInv(IF s.there THEN HandleLive(s, ev) ELSE s)
            BY <1>0, HandleLiveSafe
        <3> QED
            BY <1>1, <2>2, <3>1
    <2>3. ASSUME NEW ev \in Ends, NEW wait \in Waits \cup {0}, Take(ev, HandleEnd(s, ev, wait))
          PROVE  schedule' = "window" /\ LiveInv(s)'
        BY <1>0, <1>1, <2>3, HandleEndSafe
    <2>4. ASSUME NEW ev \in {"Away", "Polled", "Manually"}, NEW offered \in BOOLEAN, NEW probe \in Probed,
                 Take(ev, Follow(s, ev, offered, probe))
          PROVE  schedule' = "window" /\ LiveInv(s)'
        BY <1>0, <1>1, <2>4, FollowIs
    <2> QED
        BY <1>2, <2>1, <2>2, <2>3, <2>4 DEF Loop, TakeStart, TakeLive, TakeEnd, TakeAccounts
<1>3. CASE Watch \/ BeatFires \/ Asked \/ BesideChanges
    <2>1. UNCHANGED s
        BY <1>0, <1>3, SpeaksIs DEF Speaks
    <2>2. UNCHANGED schedule
        BY <1>3 DEF Alone, Watch, BeatFires, Asked, BesideChanges, WatchListens, WatchUp, WatchHears, WatchLost,
                    LateHears, LateEnds, Hears
    <2> QED
        BY <1>0, <2>1, <2>2 DEF LiveInv, IsCurrent
<1>4. CASE PassEnds
    <2>1. PICK p \in s.passes : s' = [s EXCEPT !.passes = @ \ {p}]
        BY <1>4 DEF PassEnds
    <2>2. s'.there = s.there /\ s'.busy = s.busy /\ s'.rest = s.rest /\ s'.said = s.said /\ UNCHANGED schedule
        BY <1>0, <1>4, <2>1, PassEndsIs DEF PassEnds
    <2> QED
        BY <1>0, <2>2 DEF LiveInv, IsCurrent
<1>5. CASE TimerFires \/ Elapse
    <2>1. Moved /\ UNCHANGED schedule
        BY <1>0, <1>5, TimerSpoke, ElapseIs DEF TimerFires, Elapse
    <2> QED
        BY <1>0, <2>1 DEF LiveInv, IsCurrent, Moved
<1>6. CASE UNCHANGED vars
    BY <1>0, <1>6 DEF vars, LiveInv, IsCurrent
<1> QED
    BY <1>2, <1>3, <1>4, <1>5, <1>6 DEF Next

\* Where nobody else schedules, a current link is kept up as the watch last said, and pushed only
\* while a watch runs, however late a stopped watch speaks (after, step, reconcile_watch).
THEOREM LiveFollowsWatch == ASSUME Alone PROVE Spec => []LiveAgrees
<1>1. Init => LiveHolds
    BY InitBase DEF LiveHolds, Init
<1>2. LiveHolds /\ [Next]_vars => LiveHolds'
    BY NextLive
<1>3. LiveHolds => LiveAgrees
    BY DEF LiveHolds, BaseInv, SafeInv, SaidInv, LiveInv, LiveAgrees
<1> QED
    BY <1>1, <1>2, <1>3, PTL DEF Spec

-----------------------------------------------------------------------------
(* Where the account is not taken away.                                    *)

Remains == "Away" \notin Asks

\* Nothing is told to stop, and a link that syncs has its pass or the note that it ended.
PassInv ==
    /\ s.there /\ ~Queues("Away") /\ ~Queues("Cancel")
    /\ \A p \in s.passes : ~p.cut /\ p.gen = s.gen /\ s.busy
    /\ \A p, q \in s.passes : p = q
    /\ \A k \in 1..Len(inbox) : inbox[k] \in Ends => s.busy /\ s.passes = {}
    /\ \A j, k \in 1..Len(inbox) : inbox[j] \in Ends /\ inbox[k] \in Ends => j = k

\* Mail announced since the last pass began is still to be taken, or makes the running one be
\* followed by another.
PushInv ==
    unseen => /\ schedule = "window"
              /\ IsCurrent(s) \/ s.busy => Queues("Push") \/ (s.busy /\ s.dirty)

\* Nothing times an account that knows nothing.  A timer that is not exempt is not early, and a link
\* that is not exempt has one, or a start on its way, or is due as the note of its timer comes.
WakeInv ==
    /\ s.rest.st = "Fresh" => s.wake.ev = "none"
    /\ ~long /\ ~turned => Timely(s)
    /\ ~s.busy /\ ~s.manual /\ ~long /\ ~turned =>
          /\ s.rest.st = "Fresh" => beat \/ Queues("Poll")
          /\ s.rest.st \in {"Current", "Waiting"} =>
                beat \/ Waking(s) \/ Queues("Poll") \/ (Queues("Tick") /\ Due(s))

\* A handler leaves the passes alone, or begins one where none runs.
Keeps(t, u) ==
    /\ u.there = t.there
    /\ \/ u.busy = t.busy /\ u.gen = t.gen /\ u.passes = t.passes
       \/ /\ ~t.busy /\ u.busy = TRUE
          /\ \E p : u.passes = t.passes \cup {p} /\ ~p.cut /\ p.gen = u.gen

LEMMA StaysKeeps == ASSUME NEW t, NEW u, Stays(t, u) PROVE Keeps(t, u)
BY DEF Stays, Keeps

LEMMA RunPassKeeps == ASSUME NEW t \in Sched, ~t.busy PROVE Keeps(t, RunPass(t))
<1> DEFINE p == [n |-> t.begun + 1, gen |-> t.gen + 1, cut |-> FALSE]
<1>1. /\ RunPass(t).there = t.there /\ RunPass(t).busy = TRUE /\ RunPass(t).gen = t.gen + 1
      /\ RunPass(t).passes = t.passes \cup {p}
    BY RunPassIs
<1>2. ~p.cut /\ p.gen = t.gen + 1
    OBVIOUS
<1> HIDE DEF p
<1> QED
    BY <1>1, <1>2 DEF Keeps

LEMMA HandleKeeps == ASSUME NEW t \in Sched, NEW ev PROVE Keeps(t, Handle(t, ev))
BY HandleIs, StaysKeeps, RunPassKeeps

LEMMA EndKeeps ==
    ASSUME NEW t \in Sched, NEW ev \in Ends, NEW wait \in Waits \cup {0}, t.there, t.busy, SafeInv(t),
           t.passes = {}, ev # "Cancel"
    PROVE  \E v : v.there /\ ~v.busy /\ v.passes = {} /\ Keeps(v, HandleEnd(t, ev, wait))
<1>1. PICK v : Settled(t, ev, v) /\ (HandleEnd(t, ev, wait) = RunPass(v) \/ Stays(v, HandleEnd(t, ev, wait)))
    BY HandleEndIs DEF SafeInv
<1>2. v \in Sched /\ v.there /\ ~v.busy /\ v.passes = {}
    BY <1>1 DEF Settled
<1> QED
    BY <1>1, <1>2, StaysKeeps, RunPassKeeps

LEMMA TakePass ==
    ASSUME Types, PassInv, NEW ev, NEW u, NEW v, Take(ev, u), Keeps(v, u), v.there,
           \/ ev \notin Ends /\ v.busy = s.busy /\ v.gen = s.gen /\ v.passes = s.passes
           \/ ev \in Ends /\ ~v.busy /\ v.passes = {}
    PROVE  PassInv'
<1>0. inbox \in Seq(Notes) /\ inbox # << >> /\ Head(inbox) = ev /\ inbox' = Tail(inbox) /\ s' = u
    BY DEF Types, Take
<1>1. /\ 1 \in 1..Len(inbox) /\ inbox[1] = ev /\ Len(inbox) \in Nat /\ Len(inbox') \in Nat
      /\ \A k \in 1..Len(inbox') : k + 1 \in 1..Len(inbox) /\ inbox'[k] = inbox[k + 1]
      /\ \A x : Queues(x)' => Queues(x)
    BY <1>0, Popped
<1>2. s'.there /\ ~Queues("Away")' /\ ~Queues("Cancel")'
    BY <1>0, <1>1 DEF PassInv, Keeps
<1>3. \A j, k \in 1..Len(inbox') : inbox'[j] \in Ends /\ inbox'[k] \in Ends => j = k
    <2>1. ASSUME NEW j \in 1..Len(inbox'), NEW k \in 1..Len(inbox'), inbox'[j] \in Ends, inbox'[k] \in Ends
          PROVE  j = k
        <3>1. j + 1 = k + 1
            BY <1>1, <2>1 DEF PassInv
        <3> QED
            BY <1>1, <3>1
    <2> QED
        BY <2>1
<1>4. ev \in Ends => \A k \in 1..Len(inbox') : inbox'[k] \notin Ends
    <2>1. ASSUME ev \in Ends, NEW k \in 1..Len(inbox'), inbox'[k] \in Ends PROVE FALSE
        <3>1. k + 1 = 1
            BY <1>1, <2>1 DEF PassInv
        <3> QED
            BY <1>1, <3>1
    <2> QED
        BY <2>1
<1>5. \A k \in 1..Len(inbox') : inbox'[k] \in Ends => s.busy /\ s.passes = {} /\ ev \notin Ends
    BY <1>1, <1>4 DEF PassInv
<1>6. /\ \A p \in v.passes : ~p.cut /\ p.gen = v.gen /\ v.busy
      /\ \A p, q \in v.passes : p = q
    BY DEF PassInv
<1>7. /\ \A p \in u.passes : ~p.cut /\ p.gen = u.gen /\ u.busy
      /\ \A p, q \in u.passes : p = q
    BY <1>6 DEF Keeps
<1>8. \A k \in 1..Len(inbox') : inbox'[k] \in Ends => u.busy /\ u.passes = {}
    BY <1>5 DEF Keeps
<1> QED
    BY <1>0, <1>2, <1>3, <1>7, <1>8 DEF PassInv

LEMMA TakesPass == ASSUME BaseInv, PassInv, Loop PROVE PassInv'
<1>0. s \in Sched /\ SafeInv(s) /\ Types /\ s.there
    BY DEF BaseInv, Types, PassInv
<1>a. ASSUME NEW ev, NEW u, Take(ev, u) PROVE inbox[1] = ev /\ 1 \in 1..Len(inbox) /\ Queues(ev)
    <2>1. inbox[1] = ev /\ 1 \in 1..Len(inbox)
        BY <1>0, <1>a, Popped DEF Take, Types
    <2> QED
        BY <2>1 DEF Queues
<1>1. ASSUME NEW ev \in Starts \cup {"Tick", "SignedIn"}, Take(ev, Handle(s, ev)) PROVE PassInv'
    <2>1. ev \notin Ends
        BY DEF Starts, Ends
    <2> QED
        BY <1>0, <1>1, <2>1, HandleKeeps, TakePass
<1>2. ASSUME NEW ev \in Lives, Take(ev, IF s.there THEN HandleLive(s, ev) ELSE s) PROVE PassInv'
    <2>1. ev \notin Ends
        BY DEF Lives, Ends
    <2>2. Keeps(s, HandleLive(s, ev)) /\ Take(ev, HandleLive(s, ev))
        BY <1>0, <1>2, HandleLiveSafe, StaysKeeps DEF Quiet
    <2> QED
        BY <1>0, <2>1, <2>2, TakePass
<1>3. ASSUME NEW ev \in Ends, NEW wait \in Waits \cup {0}, Take(ev, HandleEnd(s, ev, wait)) PROVE PassInv'
    <2>1. s.busy /\ s.passes = {} /\ ev # "Cancel"
        BY <1>3, <1>a DEF PassInv
    <2>2. PICK v : v.there /\ ~v.busy /\ v.passes = {} /\ Keeps(v, HandleEnd(s, ev, wait))
        BY <1>0, <2>1, EndKeeps
    <2> QED
        BY <1>0, <1>3, <2>2, TakePass
<1>4. ASSUME NEW ev \in {"Away", "Polled", "Manually"}, NEW offered \in BOOLEAN, NEW probe \in Probed,
             Take(ev, Follow(s, ev, offered, probe))
      PROVE  PassInv'
    <2>1. ev # "Away" /\ ev \notin Ends
        BY <1>4, <1>a DEF PassInv, Ends
    <2>2. ev \in {"Polled", "Manually"}
        BY <2>1
    <2>3. Told(s, Follow(s, ev, offered, probe), ev = "Manually")
        BY <1>0, <2>2, FollowIs
    <2>4. PICK told \in Sched : /\ Quiet(told, Follow(s, ev, offered, probe)) /\ told.there = s.there
                                /\ told.busy = s.busy /\ told.gen = s.gen /\ told.passes = s.passes
        BY <2>3 DEF Told
    <2>5. Keeps(told, Follow(s, ev, offered, probe))
        BY <2>4, StaysKeeps DEF Quiet
    <2> QED
        BY <1>0, <1>4, <2>1, <2>4, <2>5, TakePass
<1> QED
    BY <1>1, <1>2, <1>3, <1>4 DEF Loop, TakeStart, TakeLive, TakeEnd, TakeAccounts

\* What is said without a pass ending.
LEMMA SpokePass ==
    ASSUME Types, PassInv, NEW S, Spoke(S), S \cap (Ends \cup {"Away"}) = {},
           s'.there = s.there, s'.busy = s.busy, s'.gen = s.gen, s'.passes = s.passes
    PROVE  PassInv'
<1>1. \A k \in 1..Len(inbox') : inbox'[k] \in Ends \cup {"Away"} => k \in 1..Len(inbox) /\ inbox'[k] = inbox[k]
    BY DEF Spoke
<1>2. ~Queues("Away")' /\ ~Queues("Cancel")'
    BY <1>1 DEF PassInv, Queues, Ends
<1>3. \A k \in 1..Len(inbox') : inbox'[k] \in Ends => s.busy /\ s.passes = {}
    BY <1>1 DEF PassInv
<1>4. \A j, k \in 1..Len(inbox') : inbox'[j] \in Ends /\ inbox'[k] \in Ends => j = k
    BY <1>1 DEF PassInv
<1> QED
    BY <1>2, <1>3, <1>4 DEF PassInv

LEMMA PassEndsPass == ASSUME BaseInv, PassInv, PassEnds PROVE PassInv'
<1>0. PICK p \in s.passes, ev \in Outcomes \cup {"Cancel"} :
         /\ ev = "Cancel" => p.cut
         /\ s' = [s EXCEPT !.passes = @ \ {p}]
         /\ Send(IF p.gen = s.gen THEN <<ev>> ELSE <<>>)
    BY DEF PassEnds
<1>1. p.gen = s.gen /\ s.busy /\ ~p.cut /\ s.there /\ (\A q \in s.passes : q = p)
    BY DEF PassInv
<1>2. ev \in Ends /\ ev \in Notes /\ ev # "Away" /\ ev # "Cancel" /\ inbox \in Seq(Notes)
    BY <1>0, <1>1, ScheduleAssumption DEF Ends, Notes, BaseInv, Types
<1>3. s'.passes = s.passes \ {p} /\ s'.there = s.there /\ s'.busy = s.busy
    BY <1>0, PassEndsIs DEF BaseInv
<1>4. s'.passes = {} /\ s'.busy /\ s'.there
    BY <1>1, <1>3
<1>5. Send(<<ev>>)
    BY <1>0, <1>1
<1>6. /\ Len(inbox) \in Nat /\ Len(inbox') = Len(inbox) + 1
      /\ \A k \in 1..Len(inbox) : inbox'[k] = inbox[k]
      /\ \A x : Queues(x)' => Queues(x) \/ x = ev
    BY <1>2, <1>5, SentOne
<1>7. \A k \in 1..Len(inbox) : inbox[k] \notin Ends
    BY <1>0 DEF PassInv
<1>8. \A k \in 1..Len(inbox') : inbox'[k] \in Ends => k = Len(inbox')
    BY <1>6, <1>7
<1>9. ~Queues("Away")' /\ ~Queues("Cancel")'
    BY <1>2, <1>6 DEF PassInv
<1> QED
    BY <1>4, <1>8, <1>9 DEF PassInv

PassHolds == BaseInv /\ PassInv

LEMMA InitPass == Init => PassInv
<1> SUFFICES ASSUME Init PROVE PassInv
    OBVIOUS
<1>1. s.there /\ s.passes = {}
    BY DEF Init
<1>2. Len(inbox) = 1 /\ inbox[1] \in {"Polled", "Manually"}
    <2>1. CASE inbox = <<"Polled">>
        BY <2>1
    <2>2. CASE inbox = <<"Manually">>
        BY <2>2
    <2> QED
        BY <2>1, <2>2 DEF Init
<1>3. \A k \in 1..Len(inbox) : inbox[k] \in {"Polled", "Manually"}
    BY <1>2
<1> QED
    BY <1>1, <1>3 DEF PassInv, Queues, Ends

LEMMA NextPass == ASSUME Remains PROVE PassHolds /\ [Next]_vars => PassHolds'
<1> SUFFICES ASSUME PassHolds, [Next]_vars PROVE PassInv'
    BY NextBase DEF PassHolds
<1>0. BaseInv /\ PassInv /\ Types
    BY DEF PassHolds, BaseInv
<1>1. CASE Loop
    BY <1>0, <1>1, TakesPass
<1>2. CASE Watch \/ BeatFires \/ Asked \/ BesideChanges
    <2>1. (Starts \cup Lives \cup Asks) \cap (Ends \cup {"Away"}) = {}
        BY ScheduleAssumption DEF Remains, Starts, Lives, Ends
    <2>2. UNCHANGED s /\ Spoke(Starts \cup Lives \cup Asks)
        BY <1>0, <1>2, SpeaksIs DEF Speaks
    <2> QED
        BY <1>0, <2>1, <2>2, SpokePass
<1>3. CASE PassEnds
    BY <1>0, <1>3, PassEndsPass
<1>4. CASE TimerFires
    <2>1. {"Tick", "Poll"} \cap (Ends \cup {"Away"}) = {}
        BY DEF Ends
    <2>2. Moved /\ Spoke({"Tick", "Poll"})
        BY <1>0, <1>4, TimerSpoke
    <2> QED
        BY <1>0, <2>1, <2>2, SpokePass DEF Moved
<1>5. CASE Elapse
    <2>1. Moved /\ Spoke({})
        BY <1>0, <1>5, ElapseIs, SpokeNone DEF Elapse
    <2> QED
        BY <1>0, <2>1, SpokePass DEF Moved
<1>6. CASE UNCHANGED vars
    BY <1>0, <1>6 DEF vars, PassInv, Queues
<1> QED
    BY <1>1, <1>2, <1>3, <1>4, <1>5, <1>6 DEF Next

LEMMA PassHolding == ASSUME Remains PROVE Spec => []PassHolds
<1>1. Init => PassHolds
    BY InitBase, InitPass DEF PassHolds
<1>2. PassHolds /\ [Next]_vars => PassHolds'
    BY NextPass
<1> QED
    BY <1>1, <1>2, PTL DEF Spec

\* An account that is not taken away is never fetched by two passes at once, however starts, ends
\* and the words of the watch arrive (step, begin, handle, run_pass).
THEOREM OnePassAtATime == ASSUME Remains PROVE Spec => []OnePass
<1>1. PassHolds => OnePass
    BY DEF PassHolds, PassInv, OnePass
<1> QED
    BY <1>1, PassHolding, PTL

-----------------------------------------------------------------------------
(* Mail that is announced.                                                  *)

LEMMA TakePush ==
    ASSUME Types, PushInv, NEW ev, NEW u, Take(ev, u),
           unseen /\ u.begun = s.begun /\ (IsCurrent(u) \/ u.busy) /\ schedule = "window" =>
               (Queues("Push") /\ ev # "Push") \/ (u.busy /\ u.dirty)
    PROVE  PushInv'
<1>1. /\ inbox \in Seq(Notes) /\ inbox # << >> /\ Head(inbox) = ev /\ inbox' = Tail(inbox) /\ s' = u
      /\ unseen' = (unseen /\ u.begun = s.begun /\ u.there) /\ schedule' = schedule
    BY DEF Types, Take
<1>2. Queues("Push") /\ ev # "Push" => Queues("Push")'
    BY <1>1, Popped
<1>3. IsCurrent(s)' = IsCurrent(u)
    BY <1>1 DEF IsCurrent
<1>4. schedule = "window" => schedule' = "window"
    BY <1>1
<1>5. unseen => schedule = "window"
    BY DEF PushInv
<1> QED
    BY <1>1, <1>2, <1>3, <1>4, <1>5 DEF PushInv

\* A note that neither begins nor ends a pass.
LEMMA TakePushQuiet ==
    ASSUME Types, PushInv, NEW ev, NEW u, NEW t, Take(ev, u), ev # "Push", Quiet(t, u),
           t.there = s.there, t.busy = s.busy, t.rest = s.rest, t.dirty = s.dirty
    PROVE  PushInv'
<1>1. u.there = s.there /\ u.busy = s.busy /\ u.rest.st = s.rest.st /\ u.dirty = s.dirty
    BY DEF Quiet, Stays
<1>2. IsCurrent(u) = IsCurrent(s)
    BY <1>1 DEF IsCurrent
<1> QED
    BY <1>1, <1>2, TakePush DEF PushInv

LEMMA TakesPush == ASSUME PassHolds, PushInv, Loop PROVE PushInv'
<1>0. s \in Sched /\ SafeInv(s) /\ Types /\ PassInv /\ s.there
    BY DEF PassHolds, BaseInv, Types, PassInv
<1>a. ASSUME NEW ev, NEW u, Take(ev, u) PROVE inbox[1] = ev /\ 1 \in 1..Len(inbox) /\ Queues(ev)
    <2>1. inbox[1] = ev /\ 1 \in 1..Len(inbox)
        BY <1>0, <1>a, Popped DEF Take, Types
    <2> QED
        BY <2>1 DEF Queues
<1>1. ASSUME NEW ev \in Starts \cup {"Tick", "SignedIn"}, Take(ev, Handle(s, ev)) PROVE PushInv'
    <2> DEFINE u == Handle(s, ev)
    <2>0. Take(ev, u)
        BY <1>1
    <2>1. \/ u = RunPass(s)
          \/ /\ Stays(s, u) /\ u.dirty = (s.dirty \/ (s.there /\ s.busy /\ ev = "Push"))
             /\ Begins(s, ev) /\ ~(ev = "Poll" /\ s.manual) => schedule # "window"
        BY <1>0, HandleIs
    <2> HIDE DEF u
    <2>2. CASE u = RunPass(s)
        <3>1. u.begun # s.begun
            BY <1>0, <2>2, RunPassIs
        <3> QED
            BY <1>0, <2>0, <3>1, TakePush
    <2>3. CASE /\ Stays(s, u) /\ u.dirty = (s.dirty \/ (s.there /\ s.busy /\ ev = "Push"))
               /\ Begins(s, ev) /\ ~(ev = "Poll" /\ s.manual) => schedule # "window"
        <3>1. u.busy = s.busy /\ IsCurrent(u) = IsCurrent(s) /\ (s.dirty => u.dirty)
            BY <2>3 DEF Stays, IsCurrent
        <3>2. CASE ev # "Push"
            BY <1>0, <2>0, <3>1, <3>2, TakePush DEF PushInv
        <3>3. CASE ev = "Push"
            <4>1. s.busy => u.dirty
                BY <1>0, <2>3, <3>3
            <4>2. IsCurrent(s) => Begins(s, ev)
                BY <3>3 DEF IsCurrent, Begins, Starts
            <4>3. IsCurrent(s) => schedule # "window"
                BY <2>3, <3>3, <4>2
            <4> QED
                BY <1>0, <2>0, <3>1, <4>1, <4>3, TakePush
        <3> QED
            BY <3>2, <3>3
    <2> QED
        BY <2>1, <2>2, <2>3
<1>2. ASSUME NEW ev \in Lives, Take(ev, IF s.there THEN HandleLive(s, ev) ELSE s) PROVE PushInv'
    <2>1. ev # "Push"
        BY DEF Lives
    <2>2. Quiet(s, HandleLive(s, ev)) /\ Take(ev, HandleLive(s, ev))
        BY <1>0, <1>2, HandleLiveSafe
    <2> QED
        BY <1>0, <2>1, <2>2, TakePushQuiet
<1>3. ASSUME NEW ev \in Ends, NEW wait \in Waits \cup {0}, Take(ev, HandleEnd(s, ev, wait)) PROVE PushInv'
    <2> DEFINE u == HandleEnd(s, ev, wait)
    <2>0. Take(ev, u)
        BY <1>3
    <2>1. s.busy /\ ev # "Cancel" /\ ev # "Push" /\ StopInv(s) /\ SaidInv(s)
        BY <1>0, <1>3, <1>a DEF PassInv, Ends, SafeInv
    <2>2. PICK v : /\ Settled(s, ev, v)
                   /\ \/ u = RunPass(v)
                      \/ Stays(v, u) /\ (schedule = "window" => ~(s.dirty /\ ev = "Finished"))
        BY <1>0, <2>1, HandleEndIs
    <2> HIDE DEF u
    <2>3. v \in Sched /\ v.begun = s.begun /\ v.busy = FALSE /\ (v.rest.st = "Current" => ev = "Finished")
        BY <2>1, <2>2 DEF Settled, Ends
    <2>4. CASE u = RunPass(v)
        <3>1. u.begun # s.begun
            BY <2>3, <2>4, RunPassIs
        <3> QED
            BY <1>0, <2>0, <3>1, TakePush
    <2>5. CASE Stays(v, u) /\ (schedule = "window" => ~(s.dirty /\ ev = "Finished"))
        <3>1. u.busy = FALSE /\ (IsCurrent(u) /\ schedule = "window" => ~s.dirty)
            BY <2>3, <2>5 DEF Stays, IsCurrent
        <3> QED
            BY <1>0, <2>0, <2>1, <3>1, TakePush DEF PushInv
    <2> QED
        BY <2>2, <2>4, <2>5
<1>4. ASSUME NEW ev \in {"Away", "Polled", "Manually"}, NEW offered \in BOOLEAN, NEW probe \in Probed,
             Take(ev, Follow(s, ev, offered, probe))
      PROVE  PushInv'
    <2>0. ev # "Away"
        BY <1>0, <1>4, <1>a DEF PassInv
    <2>1. ev \in {"Polled", "Manually"} /\ ev # "Push"
        BY <2>0
    <2>2. Told(s, Follow(s, ev, offered, probe), ev = "Manually")
        BY <1>0, <2>1, FollowIs
    <2>3. PICK told \in Sched : /\ Quiet(told, Follow(s, ev, offered, probe)) /\ told.there = s.there
                                /\ told.busy = s.busy /\ told.rest = s.rest /\ told.dirty = s.dirty
        BY <2>2 DEF Told
    <2> QED
        BY <1>0, <1>4, <2>1, <2>3, TakePushQuiet
<1> QED
    BY <1>1, <1>2, <1>3, <1>4 DEF Loop, TakeStart, TakeLive, TakeEnd, TakeAccounts

\* What is said, and what leaves alone what a push is told by.
LEMMA KeptPush ==
    ASSUME PushInv, \A x : Queues(x) => Queues(x)', UNCHANGED <<schedule, unseen>>,
           s'.there = s.there, s'.busy = s.busy, s'.rest.st = s.rest.st, s'.dirty = s.dirty
    PROVE  PushInv'
<1>1. IsCurrent(s)' = IsCurrent(s)
    BY DEF IsCurrent
<1> QED
    BY <1>1 DEF PushInv

LEMMA PassEndsSpoke ==
    ASSUME Types, PassEnds
    PROVE  /\ Spoke(Ends) /\ s'.there = s.there /\ s'.busy = s.busy /\ s'.rest = s.rest /\ s'.manual = s.manual
           /\ s'.wake = s.wake /\ s'.dirty = s.dirty /\ UNCHANGED <<beat, schedule, unseen>>
<1>0. PICK p \in s.passes, ev \in Outcomes \cup {"Cancel"} :
         /\ s' = [s EXCEPT !.passes = @ \ {p}]
         /\ Send(IF p.gen = s.gen THEN <<ev>> ELSE <<>>)
         /\ UNCHANGED <<beat, schedule, unseen>>
    BY DEF PassEnds
<1>1. ev \in Ends /\ ev \in Notes
    BY ScheduleAssumption DEF Ends, Notes
<1>2. Spoke(Ends)
    <2>1. CASE p.gen = s.gen
        BY <1>0, <1>1, <2>1, SpokeOne
    <2>2. CASE p.gen # s.gen
        <3>1. Send(<<>>) /\ <<>> \in Seq(Notes) /\ \A k \in 1..Len(<<>>) : <<>>[k] \in Ends
            BY <1>0, <2>2
        <3> QED
            BY <3>1, SpokeIs
    <2> QED
        BY <2>1, <2>2
<1> QED
    BY <1>0, <1>2, PassEndsIs

LEMMA NextPush == ASSUME Remains PROVE (PassHolds /\ PushInv) /\ [Next]_vars => (PassHolds /\ PushInv)'
<1> SUFFICES ASSUME PassHolds, PushInv, [Next]_vars PROVE PushInv'
    BY NextPass
<1>0. Types /\ inbox \in Seq(Notes)
    BY DEF PassHolds, BaseInv, Types
<1>1. CASE Loop
    BY <1>1, TakesPush
<1>2. CASE WatchListens \/ WatchUp \/ WatchLost \/ LateEnds \/ BeatFires \/ Asked
    <2>1. UNCHANGED s /\ Spoke(Starts \cup Lives \cup Asks)
        BY <1>0, <1>2, SpeaksIs DEF Speaks, Watch
    <2>2. UNCHANGED <<schedule, unseen>>
        BY <1>2 DEF WatchListens, WatchUp, WatchLost, LateEnds, BeatFires, Asked
    <2> QED
        BY <2>1, <2>2, KeptPush DEF Spoke
<1>3. CASE WatchHears \/ LateHears
    <2>1. PICK ev \in {"Push", "Poll", "Pushed"} : Hears(ev)
        BY <1>3 DEF WatchHears, LateHears
    <2>2. /\ ev \in Notes /\ Send(<<ev>>) /\ UNCHANGED s /\ schedule' = schedule
          /\ unseen' = (unseen \/ (ev = "Push" /\ schedule = "window" /\ s.there))
        BY <2>1 DEF Hears, Notes, Starts, Lives
    <2>3. (\A x : Queues(x) => Queues(x)') /\ Queues(ev)'
        BY <1>0, <2>2, SentOne
    <2>4. CASE ev = "Push" /\ schedule = "window"
        BY <2>2, <2>3, <2>4 DEF PushInv
    <2>5. CASE ~(ev = "Push" /\ schedule = "window")
        <3>1. UNCHANGED unseen
            BY <1>0, <2>2, <2>5 DEF Types
        <3> QED
            BY <2>2, <2>3, <3>1, KeptPush
    <2> QED
        BY <2>4, <2>5
<1>4. CASE BesideChanges
    <2>1. UNCHANGED <<s, inbox>> /\ (unseen' => unseen /\ schedule' = "window")
        BY <1>4 DEF BesideChanges
    <2> QED
        BY <2>1 DEF PushInv, Queues, IsCurrent
<1>5. CASE PassEnds
    BY <1>0, <1>5, PassEndsSpoke, KeptPush DEF Spoke
<1>6. CASE TimerFires
    <2>1. Moved /\ Spoke({"Tick", "Poll"}) /\ UNCHANGED <<schedule, unseen>>
        BY <1>0, <1>6, TimerSpoke DEF TimerFires
    <2> QED
        BY <2>1, KeptPush DEF Moved, Spoke
<1>7. CASE Elapse
    <2>1. Moved /\ Spoke({}) /\ UNCHANGED <<schedule, unseen>>
        BY <1>0, <1>7, ElapseIs, SpokeNone DEF Elapse
    <2> QED
        BY <2>1, KeptPush DEF Moved, Spoke
<1>8. CASE UNCHANGED vars
    BY <1>8 DEF vars, PushInv, Queues, IsCurrent
<1> QED
    BY <1>1, <1>2, <1>3, <1>4, <1>5, <1>6, <1>7, <1>8 DEF Next, Watch

\* Mail announced to an account that is not taken away is not lost: once its link is current again,
\* a start for it is on its way (handle, Dirty::heard, after).
THEOREM PushesAreAnswered == ASSUME Remains PROVE Spec => []PushAnswered
<1>1. Init => PassHolds /\ PushInv
    BY InitBase, InitPass DEF PassHolds, PushInv, Init
<1>2. (PassHolds /\ PushInv) /\ [Next]_vars => (PassHolds /\ PushInv)'
    BY NextPush
<1>3. PassHolds /\ PushInv => PushAnswered
    BY DEF PushInv, PushAnswered, IsCurrent
<1> QED
    BY <1>1, <1>2, <1>3, PTL DEF Spec

-----------------------------------------------------------------------------
(* What time moves.                                                         *)

\* A note is handled, and the link is as well woken as one that only the note was taken from.
Woken(ev, u) ==
    /\ u.rest.st = "Fresh" => u.wake.ev = "none"
    /\ Timely(u)
    /\ ~u.busy /\ ~u.manual =>
          /\ u.rest.st = "Fresh" => beat \/ (Queues("Poll") /\ ev # "Poll")
          /\ u.rest.st \in {"Current", "Waiting"} =>
                \/ beat \/ Waking(u) \/ (Queues("Poll") /\ ev # "Poll")
                \/ (Queues("Tick") /\ ev # "Tick" /\ Due(u))
\* What the histories keep out of it.
Exempt(u) ==
    \/ FarOff(u) \/ (s.manual /\ ~u.manual)
    \/ (long \/ turned) /\ u.begun = s.begun /\ u.wake = s.wake
Wakened(ev, u) == (u.rest.st = "Fresh" => u.wake.ev = "none") /\ (Exempt(u) \/ Woken(ev, u))

LEMMA TakeWake == ASSUME Types, NEW ev, NEW u, Take(ev, u), Wakened(ev, u) PROVE WakeInv'
<1>1. /\ inbox \in Seq(Notes) /\ inbox # << >> /\ Head(inbox) = ev /\ inbox' = Tail(inbox) /\ s' = u
      /\ beat' = beat
    BY DEF Types, Take
<1>2. \A x : Queues(x) /\ x # ev => Queues(x)'
    BY <1>1, Popped
<1>3. Timely(s)' = Timely(u) /\ Waking(s)' = Waking(u) /\ Due(s)' = Due(u)
    BY <1>1 DEF Timely, Waking, Due, Between, Never
<1>4. Exempt(u) => long' \/ turned'
    BY DEF Exempt, Take
<1> QED
    BY <1>1, <1>2, <1>3, <1>4 DEF WakeInv, Woken, Wakened

LEMMA QuietWoken ==
    ASSUME NEW t, NEW u, NEW ev, WakeInv, Stays(t, u), Wakes(t, u), ev \notin {"Poll", "Tick"},
           t.busy = s.busy, t.manual = s.manual \/ (s.manual /\ ~t.manual) \/ t.manual, t.rest = s.rest,
           t.wake = s.wake, t.begun = s.begun, u.rest.st = "Fresh" => u.wake = t.wake
    PROVE  Wakened(ev, u)
<1>1. /\ u.busy = s.busy /\ u.manual = t.manual /\ u.rest.st = s.rest.st /\ u.begun = s.begun
      /\ (u.rest.st = "Fresh" => u.wake.ev = "none")
    BY DEF Stays, WakeInv
<1>2. CASE u.manual
    BY <1>1, <1>2 DEF Wakened, Woken, Timely
<1>3. CASE ~u.manual /\ s.manual
    BY <1>1, <1>3 DEF Wakened, Exempt
<1>4. CASE ~u.manual /\ ~s.manual /\ Timed(u)
    <2>1. u.rest.st # "Fresh"
        BY <1>1, <1>4 DEF Timed, Waking
    <2> QED
        BY <1>1, <1>4, <2>1 DEF Wakened, Exempt, Woken, Timed
<1>5. CASE ~u.manual /\ ~s.manual /\ Untimed(t, u)
    <2>1. Timely(u) = Timely(t) /\ Waking(u) = Waking(t) /\ Due(u) = Due(t) /\ u.wake = s.wake
        BY <1>5, UntimedIs DEF Untimed
    <2>2. t.manual = FALSE \/ ~t.manual
        BY <1>1, <1>5
    <2>3. Timely(t) = Timely(s) /\ Waking(t) = Waking(s) /\ Due(t) = Due(s)
        BY <1>1, <1>5, <2>2 DEF Timely, Waking, Due, Between, Never
    <2>4. CASE long \/ turned
        BY <1>1, <2>1, <2>4 DEF Wakened, Exempt
    <2>5. CASE ~long /\ ~turned
        BY <1>1, <1>5, <2>1, <2>3, <2>5 DEF Wakened, Woken, WakeInv
    <2> QED
        BY <2>4, <2>5
<1> QED
    BY <1>2, <1>3, <1>4, <1>5 DEF Wakes

LEMMA UntimedWoken ==
    ASSUME NEW u, NEW ev, u.busy \/ u.manual, u.rest.st = "Fresh" => u.wake.ev = "none"
    PROVE  Wakened(ev, u)
BY DEF Woken, Wakened, Timely

LEMMA StartWoken ==
    ASSUME NEW ev, s \in Sched, s.there, WakeInv
    PROVE  Wakened(ev, Handle(s, ev))
<1> DEFINE u == Handle(s, ev)
<1>1. \/ u = RunPass(s)
      \/ /\ Stays(s, u) /\ (~s.manual => Wakes(s, u)) /\ (s.rest.st = "Fresh" => u.wake = s.wake)
         /\ Begins(s, ev) /\ ~(ev = "Poll" /\ s.manual) =>
               /\ s.rest.st # "Fresh"
               /\ ev # "Push" /\ ~s.manual => Timed(u)
    BY HandleIs
<1> HIDE DEF u
<1>2. CASE u = RunPass(s)
    <2>1. u.busy /\ u.rest = s.rest /\ u.wake = s.wake
        BY <1>2, RunPassIs
    <2> QED
        BY <2>1, UntimedWoken DEF u, WakeInv
<1>3. CASE /\ Stays(s, u) /\ (~s.manual => Wakes(s, u)) /\ (s.rest.st = "Fresh" => u.wake = s.wake)
           /\ Begins(s, ev) /\ ~(ev = "Poll" /\ s.manual) =>
                 /\ s.rest.st # "Fresh"
                 /\ ev # "Push" /\ ~s.manual => Timed(u)
    <2>1. /\ u.busy = s.busy /\ u.manual = s.manual /\ u.rest.st = s.rest.st /\ u.begun = s.begun
          /\ (u.rest.st = "Fresh" => u.wake.ev = "none")
        BY <1>3 DEF Stays, WakeInv
    <2>2. CASE s.busy \/ s.manual
        BY <2>1, <2>2, UntimedWoken DEF u
    <2>3. CASE ~s.busy /\ ~s.manual /\ Timed(u)
        <3>1. u.rest.st # "Fresh"
            BY <2>1, <2>3 DEF Timed, Waking
        <3> QED
            BY <2>1, <2>3, <3>1 DEF Wakened, Exempt, Woken, Timed, u
    <2>4. CASE ~s.busy /\ ~s.manual /\ ~Timed(u)
        <3>1. Untimed(s, u)
            BY <1>3, <2>4 DEF Wakes
        <3>2. Timely(u) = Timely(s) /\ Waking(u) = Waking(s) /\ Due(u) = Due(s) /\ u.wake = s.wake
            BY <1>3, <3>1, UntimedIs DEF Untimed
        <3>3. CASE long \/ turned
            BY <2>1, <3>2, <3>3 DEF Wakened, Exempt, u
        <3>4. CASE ~long /\ ~turned
            <4>1. ev \in {"Poll", "Tick"} => ~Begins(s, ev)
                BY <1>3, <2>4
            <4>2. s.rest.st \in {"Fresh", "Current", "Waiting"} => ev # "Poll"
                BY <2>4, <4>1 DEF Begins, Starts
            <4>3. Due(s) => ev # "Tick"
                BY <2>4, <4>1 DEF Begins, Due
            <4>4. Woken(ev, u)
                BY <2>1, <2>4, <3>2, <3>4, <4>2, <4>3 DEF Woken, WakeInv
            <4> QED
                BY <2>1, <4>4 DEF Wakened, u
        <3> QED
            BY <3>3, <3>4
    <2> QED
        BY <2>2, <2>3, <2>4
<1> QED
    BY <1>1, <1>2, <1>3

LEMMA EndWoken ==
    ASSUME NEW ev \in Ends, NEW wait \in Waits \cup {0}, ev # "Cancel", s \in Sched, s.there, s.busy, SafeInv(s)
    PROVE  Wakened(ev, HandleEnd(s, ev, wait))
<1> DEFINE u == HandleEnd(s, ev, wait)
<1>1. PICK v : /\ Settled(s, ev, v)
               /\ \/ u = RunPass(v)
                  \/ Stays(v, u) /\ (~s.manual => Wakes(v, u))
    BY HandleEndIs DEF SafeInv
<1> HIDE DEF u
<1>2. v \in Sched /\ v.manual = s.manual /\ ~v.busy /\ v.rest.st # "Fresh"
    BY <1>1 DEF Settled, Ends
<1>3. CASE u = RunPass(v)
    <2>1. u.busy /\ u.rest.st # "Fresh"
        BY <1>2, <1>3, RunPassIs
    <2> QED
        BY <2>1, UntimedWoken DEF u
<1>4. CASE Stays(v, u) /\ (~s.manual => Wakes(v, u))
    <2>1. u.manual = s.manual /\ u.rest.st = v.rest.st
        BY <1>2, <1>4 DEF Stays
    <2>2. CASE s.manual
        BY <1>2, <2>1, <2>2, UntimedWoken DEF u
    <2>3. CASE ~s.manual /\ ev \in {"Finished", "Again"}
        <3>1. Timed(u)
            BY <1>1, <1>4, <2>3, UntimedIs DEF Settled, Wakes, Timed
        <3> QED
            BY <1>2, <2>1, <3>1 DEF Wakened, Exempt, Woken, Timed, u
    <2>4. CASE ~s.manual /\ ev \notin {"Finished", "Again"}
        <3>1. ev \in {"Reauth", "Grant", "Fatal"}
            BY <2>4 DEF Ends
        <3>2. v.rest.st \notin {"Fresh", "Current", "Waiting"}
            BY <1>1, <3>1 DEF Settled
        <3>3. Timely(u)
            BY <2>1, <3>2 DEF Timely
        <3> QED
            BY <2>1, <3>2, <3>3 DEF Woken, Wakened, u
    <2> QED
        BY <2>2, <2>3, <2>4
<1> QED
    BY <1>1, <1>3, <1>4

TimeHolds == PassHolds /\ WakeInv

LEMMA TakesTime == ASSUME TimeHolds, Loop PROVE WakeInv'
<1>0. s \in Sched /\ SafeInv(s) /\ Types /\ PassInv /\ s.there /\ WakeInv
    BY DEF TimeHolds, PassHolds, BaseInv, Types, PassInv
<1>a. ASSUME NEW ev, NEW u, Take(ev, u) PROVE inbox[1] = ev /\ 1 \in 1..Len(inbox) /\ Queues(ev)
    <2>1. inbox[1] = ev /\ 1 \in 1..Len(inbox)
        BY <1>0, <1>a, Popped DEF Take, Types
    <2> QED
        BY <2>1 DEF Queues
<1>1. ASSUME NEW ev \in Starts \cup {"Tick", "SignedIn"}, Take(ev, Handle(s, ev)) PROVE WakeInv'
    BY <1>0, <1>1, StartWoken, TakeWake
<1>2. ASSUME NEW ev \in Lives, Take(ev, IF s.there THEN HandleLive(s, ev) ELSE s) PROVE WakeInv'
    <2>1. ev \notin {"Poll", "Tick"}
        BY DEF Lives
    <2>2. /\ Quiet(s, HandleLive(s, ev)) /\ Wakes(s, HandleLive(s, ev)) /\ Take(ev, HandleLive(s, ev))
          /\ (s.rest.st # "Current" => HandleLive(s, ev).wake = s.wake)
        BY <1>0, <1>2, HandleLiveIs
    <2>3. Stays(s, HandleLive(s, ev)) /\ HandleLive(s, ev).rest.st = s.rest.st
        BY <2>2 DEF Quiet, Stays
    <2>4. Wakened(ev, HandleLive(s, ev))
        BY <1>0, <2>1, <2>2, <2>3, QuietWoken
    <2> QED
        BY <1>0, <2>2, <2>4, TakeWake
<1>3. ASSUME NEW ev \in Ends, NEW wait \in Waits \cup {0}, Take(ev, HandleEnd(s, ev, wait))
      PROVE  WakeInv'
    <2>1. s.busy /\ ev # "Cancel"
        BY <1>0, <1>3, <1>a DEF PassInv
    <2> QED
        BY <1>0, <1>3, <2>1, EndWoken, TakeWake
<1>4. ASSUME NEW ev \in {"Away", "Polled", "Manually"}, NEW offered \in BOOLEAN, NEW probe \in Probed,
             Take(ev, Follow(s, ev, offered, probe))
      PROVE  WakeInv'
    <2> DEFINE u == Follow(s, ev, offered, probe)
    <2>0. Take(ev, u)
        BY <1>4
    <2>1. ev # "Away" /\ ev \notin {"Poll", "Tick"}
        BY <1>0, <1>4, <1>a DEF PassInv
    <2>2. Told(s, u, ev = "Manually")
        BY <1>0, <2>1, FollowIs
    <2> HIDE DEF u
    <2>3. PICK told \in Sched : /\ Quiet(told, u) /\ Wakes(told, u) /\ told.busy = s.busy /\ told.rest = s.rest
                                /\ told.wake = s.wake /\ told.begun = s.begun
                                /\ (told.rest.st # "Current" => u.wake = told.wake)
        BY <2>2 DEF Told
    <2>4. Stays(told, u) /\ u.rest.st = told.rest.st /\ told.manual \in BOOLEAN /\ s.manual \in BOOLEAN
        BY <1>0, <2>3 DEF Quiet, Stays, Sched
    <2>5. Wakened(ev, u)
        BY <1>0, <2>1, <2>3, <2>4, QuietWoken
    <2> QED
        BY <1>0, <2>0, <2>5, TakeWake
<1> QED
    BY <1>1, <1>2, <1>3, <1>4 DEF Loop, TakeStart, TakeLive, TakeEnd, TakeAccounts

\* What leaves the link's times alone; the beat is a start on its way once it fires.
LEMMA KeptWake ==
    ASSUME WakeInv, \A x : Queues(x) => Queues(x)', beat => beat' \/ Queues("Poll")', UNCHANGED <<long, turned>>,
           s'.busy = s.busy, s'.manual = s.manual, s'.rest = s.rest, s'.wake = s.wake
    PROVE  WakeInv'
<1>1. Timely(s)' = Timely(s) /\ Waking(s)' = Waking(s) /\ Due(s)' = Due(s)
    BY DEF Timely, Waking, Due, Between, Never
<1> QED
    BY <1>1 DEF WakeInv

LEMMA TimerWake == ASSUME Types, WakeInv, TimerFires PROVE WakeInv'
<1>0. /\ s' = [s EXCEPT !.wake = NoWake] /\ s.wake.left = 0 /\ s.wake.ev # "none" /\ beat' = beat
      /\ UNCHANGED <<long, turned>>
    BY DEF TimerFires
<1>1. s'.rest = s.rest /\ s'.wake = NoWake /\ s'.busy = s.busy /\ s'.manual = s.manual
    BY <1>0, TimerIs DEF Moved
<1>2. (\A x : Queues(x) => Queues(x)') /\ \E ev \in {"Tick", "Poll"} : ev = s.wake.ev /\ Queues(ev)'
    BY TimerSpoke DEF Spoke
<1>3. Timely(s)' /\ s'.wake.ev = "none"
    BY <1>1 DEF Timely, NoWake
<1>4. s.rest.age \in Nat /\ s.rest.left \in Nat
    <2>1. s.rest \in Rest
        BY DEF Types, Sched
    <2> QED
        BY <2>1, RestIs, LongestIs, Spans
<1>5. Between(s, s.rest.live)' = Between(s, s.rest.live)
    BY <1>1 DEF Between, Never
<1>6. ~long /\ ~turned /\ ~s.busy /\ ~s.manual /\ s.rest.st \in {"Current", "Waiting"} /\ s.wake.ev = "Tick" => Due(s)'
    BY <1>0, <1>1, <1>4, <1>5 DEF WakeInv, Timely, Due
<1> QED
    BY <1>0, <1>1, <1>2, <1>3, <1>6 DEF WakeInv

LEMMA ElapseWake == ASSUME Types, WakeInv, Elapse PROVE WakeInv'
<1>0. /\ s'.busy = s.busy /\ s'.manual = s.manual /\ s'.rest.st = s.rest.st /\ s'.rest.live = s.rest.live
      /\ s'.wake.ev = s.wake.ev /\ s'.wake.left = Less(s.wake.left) /\ s'.rest.left = Less(s.rest.left)
      /\ s'.rest.age = IF s.rest.age < MaxAge /\ s.rest.st = "Current" THEN s.rest.age + 1 ELSE s.rest.age
      /\ UNCHANGED <<inbox, beat, long, turned>>
    BY ElapseIs DEF Moved, Elapse
<1> DEFINE b == Between(s, s.rest.live)
<1>1. s.rest \in Rest /\ s.rest.live \in Lives /\ s.wake.left \in Nat
    BY DEF Types, Sched, Rest, WakeType
<1>2. s.rest.age \in 0..MaxAge /\ s.rest.left \in Nat /\ MaxAge \in Nat
    BY <1>1, RestIs, LongestIs, Spans
<1>3. b \in Nat /\ (~s.manual => b <= MaxAge)
    BY <1>1, BetweenIs DEF Types
<1>4. Between(s, s.rest.live)' = b
    BY <1>0 DEF Between, Never
<1> HIDE DEF b
<1>5. s.rest.age >= b => s'.rest.age >= b
    BY <1>0, <1>2, <1>3
<1>6. ~s.manual /\ s.rest.st = "Current" /\ s.rest.age + s.wake.left >= b => s'.rest.age + s'.wake.left >= b
    BY <1>0, <1>1, <1>2, <1>3 DEF Less
<1>7. s.wake.left >= s.rest.left => s'.wake.left >= s'.rest.left
    BY <1>0, <1>1, <1>2 DEF Less
<1>8. s.rest.left = 0 => s'.rest.left = 0
    BY <1>0 DEF Less
<1>9. Timely(s) => Timely(s)'
    BY <1>0, <1>4, <1>6, <1>7 DEF Timely, b
<1>10. Due(s) => Due(s)'
    BY <1>0, <1>4, <1>5, <1>8 DEF Due, b
<1>11. Waking(s)' = Waking(s) /\ \A x : Queues(x)' = Queues(x)
    BY <1>0 DEF Waking, Queues
<1> QED
    BY <1>0, <1>9, <1>10, <1>11 DEF WakeInv

LEMMA NextTime == ASSUME Remains PROVE TimeHolds /\ [Next]_vars => TimeHolds'
<1> SUFFICES ASSUME TimeHolds, [Next]_vars PROVE WakeInv'
    BY NextPass DEF TimeHolds
<1>0. Types /\ WakeInv /\ inbox \in Seq(Notes) /\ beat \in BOOLEAN
    BY DEF TimeHolds, PassHolds, BaseInv, Types
<1>1. CASE Loop
    BY <1>1, TakesTime
<1>2. CASE Watch \/ BeatFires \/ Asked \/ BesideChanges
    <2>1. UNCHANGED s /\ Spoke(Starts \cup Lives \cup Asks) /\ UNCHANGED <<long, turned>>
        BY <1>0, <1>2, SpeaksIs DEF Speaks
    <2>2. beat => beat' \/ Queues("Poll")'
        <3>1. CASE BeatFires
            <4>1. "Poll" \in Notes
                BY DEF Notes, Starts
            <4> QED
                BY <1>0, <3>1, <4>1, SentOne DEF BeatFires
        <3>2. CASE ~BeatFires
            BY <1>2, <3>2 DEF Watch, Asked, BesideChanges, WatchListens, WatchUp, WatchHears, WatchLost,
                    LateHears, LateEnds, Hears
        <3> QED
            BY <3>1, <3>2
    <2> QED
        BY <1>0, <2>1, <2>2, KeptWake DEF Spoke
<1>3. CASE PassEnds
    <2>1. /\ Spoke(Ends) /\ s'.busy = s.busy /\ s'.rest = s.rest /\ s'.manual = s.manual /\ s'.wake = s.wake
          /\ UNCHANGED beat
        BY <1>0, <1>3, PassEndsSpoke
    <2>2. UNCHANGED <<long, turned>>
        BY <1>3 DEF PassEnds
    <2> QED
        BY <1>0, <2>1, <2>2, KeptWake DEF Spoke
<1>4. CASE TimerFires
    BY <1>0, <1>4, TimerWake
<1>5. CASE Elapse
    BY <1>0, <1>5, ElapseWake
<1>6. CASE UNCHANGED vars
    <2>1. UNCHANGED <<s, inbox, beat, long, turned>>
        BY <1>6 DEF vars
    <2>2. \A x : Queues(x)' = Queues(x)
        BY <2>1 DEF Queues
    <2> QED
        BY <1>0, <2>1, <2>2, KeptWake
<1> QED
    BY <1>1, <1>2, <1>3, <1>4, <1>5, <1>6 DEF Next

LEMMA InitTime == Init => WakeInv
BY DEF Init, NoWake, WakeInv, Timely

\* A link at rest that only time is to move has its timer or a start on its way, for an account that
\* is not taken away, except in the two ways WakeKept names: whatever the waits and the intervals,
\* and however often the account is set to be checked only when asked and back (WakeAt, defer,
\* StepLive, the end of a pass, follow).
THEOREM LinksAreWoken == ASSUME Remains PROVE Spec => []WakeKept
<1>1. Init => TimeHolds
    BY InitBase, InitPass, InitTime DEF PassHolds, TimeHolds
<1>2. TimeHolds /\ [Next]_vars => TimeHolds'
    BY NextTime
<1>3. TimeHolds => WakeKept
    BY DEF TimeHolds, WakeInv, Waking, WakeKept, Dozing, Awaited, Starts
<1> QED
    BY <1>1, <1>2, <1>3, PTL DEF Spec
=============================================================================
