------------------------------ MODULE Schedule ------------------------------
(***************************************************************************)
(* The scheduler of one account's fetching: its link (fetch/link.rs), the  *)
(* loop that moves it (schedule/mod.rs), the pass it runs, the timer it    *)
(* sleeps on, and the watch that hears the server push (schedule/live.rs). *)
(*                                                                         *)
(* Passes, timers and watches speak to the loop through one channel, so    *)
(* what they say is handled later than it was true.  Accounts share the    *)
(* loop and nothing else.  Times are kept as what is left of them.         *)
(***************************************************************************)
EXTENDS Integers, Sequences

CONSTANTS
    Every,      \* the interval the account is polled at
    Silence,    \* PUSH_SILENCE: the longest a pushed account goes without a pass
    Far,        \* FAR: the longest one timer sleeps
    Waits,      \* how long a failed pass may be waited out
    Outcomes,   \* how a pass that is not cancelled may end
    Asks,       \* what a person, or a change of the accounts, may ask
    Beside,     \* whether a `mailo watch' or a daemon may come and go beside this
    MaxPasses,  \* bound: passes ever begun
    MaxNotes    \* bound: notes in the channel

ASSUME ScheduleAssumption ==
    /\ Every \in Nat \ {0} /\ Silence \in Nat \ {0} /\ Far \in Nat \ {0}
    /\ Waits \subseteq Nat
    /\ Outcomes \subseteq {"Finished", "Again", "Reauth", "Grant", "Fatal"}
    /\ Asks \subseteq {"Manual", "SignedIn", "Away", "Polled", "Manually"}
    /\ Beside \in BOOLEAN
    /\ MaxPasses \in Nat /\ MaxNotes \in Nat \ {0}

VARIABLES
    s,          \* the scheduler: the account's link and all that is held for it
    inbox,      \* the channel of notes
    keep,       \* the running watch's task: off, rest, listen, up
    late,       \* where the last stopped watch was, if it may still say something
    beat,       \* whether the start a beat after opening is still to come
    schedule,   \* who schedules: this window, or the `mailo watch' beside it
    holding,    \* whether a daemon or a watch holds the account
    unseen,     \* history: announced mail no pass begun since can have seen
    long,       \* history: the timer last set is for a time further off than Far
    turned      \* history: checked only when asked, then polled again, and no timer set since

vars == <<s, inbox, keep, late, beat, schedule, holding, unseen, long, turned>>

Ends == {"Finished", "Again", "Reauth", "Grant", "Fatal", "Cancel"}
Starts == {"Poll", "Push", "Manual"}
Lives == {"Polling", "Pushed"}
Notes == Ends \cup Starts \cup Lives \cup {"Tick", "SignedIn", "Away", "Polled", "Manually"}

\* Ages and waits are told apart up to this.
MaxAge == IF Every > Silence THEN Every ELSE Silence
Longest == CHOOSE n \in Waits \cup {0} : \A m \in Waits \cup {0} : m <= n

\* A wait is a duration of bounded width, so one of them is the longest.
ASSUME LongestAssumption == \E n \in Waits \cup {0} : \A m \in Waits \cup {0} : m <= n

\* A link at rest; `busy' beside it makes it Syncing, with the rest as its `after'.
Rest == [st: {"Fresh", "Current", "Waiting", "NeedsSignIn", "NeedsAllow", "Broken"},
         live: Lives, age: 0..MaxAge, left: 0..Longest]
Resting(st) == [st |-> st, live |-> "Polling", age |-> 0, left |-> 0]
NoWake == [ev |-> "none", left |-> 0]

\* link_for: an account begins knowing nothing, or resting after an earlier run's pass.
Probed == {Resting("Fresh")} \cup {[Resting("Current") EXCEPT !.age = a] : a \in 0..MaxAge}

\* A pass in flight: which it is, its generation, and whether it has been told to stop.
PassTask == [n: 1..MaxPasses, gen: 1..(2 * MaxPasses), cut: BOOLEAN]

-----------------------------------------------------------------------------
(* fetch/link.rs and the effects of schedule/mod.rs, as functions of the    *)
(* scheduler's state.                                                       *)

\* between: how long a current link rests.  An account checked only when asked is never due.
Never == Far + MaxAge + 1
Between(t, live) == IF live = "Pushed" THEN Silence ELSE IF t.manual THEN Never ELSE Every

\* Mutation: a time already past is not taken as now.
WakeUnclamped(t, wait) == [t EXCEPT !.wake = [ev |-> "Tick", left |-> wait]]
\* Effect::WakeAt.  A later wake replaces the one before it; a sleep is cut at Far, and a link that
\* wakes before its time is not put to sleep again (step, on a Tick that is early).
WakeAt(t, wait) == [t EXCEPT !.wake = [ev |-> "Tick",
    left |-> IF wait < 0 THEN 0 ELSE IF wait > Far THEN Far ELSE wait]]

\* Mutation: the pass is given the generation before it, and is out of date from the start.
RunPassBefore(t) == [t EXCEPT !.busy = TRUE, !.begun = @ + 1, !.gen = @ + 1, !.held = t.begun + 1,
    !.passes = @ \cup {[n |-> t.begun + 1, gen |-> t.gen, cut |-> FALSE]}]
\* begin and Effect::RunPass.
RunPass(t) == [t EXCEPT !.busy = TRUE, !.begun = @ + 1, !.gen = @ + 1, !.held = t.begun + 1,
    !.passes = @ \cup {[n |-> t.begun + 1, gen |-> t.gen + 1, cut |-> FALSE]}]

Cut(t) == {[p EXCEPT !.cut = @ \/ p.n = t.held] : p \in t.passes}
\* Effect::CancelPass: what the pass says from here on no longer counts.
CancelPass(t) == [t EXCEPT !.gen = @ + 1, !.passes = Cut(t), !.held = 0]

\* How far off the time is that a link at rest is due at, and whether one sleep falls short of it.
DueIn(t) == IF t.rest.st = "Current" THEN Between(t, t.rest.live) - t.rest.age ELSE t.rest.left
FarOff(t) == ~t.busy /\ ~t.manual /\ t.rest.st \in {"Current", "Waiting"} /\ DueIn(t) > Far

IsCurrent(t) == t.there /\ ~t.busy /\ t.rest.st = "Current"

\* step on Event::Live: a current link's timer follows how it is kept up; under a pass it is
\* only remembered.
StepLive(t, live) ==
    IF t.rest.st # "Current" \/ t.rest.live = live THEN t
    ELSE LET told == [t EXCEPT !.rest.live = live]
         IN  IF t.busy THEN told ELSE WakeAt(told, Between(t, live) - t.rest.age)

\* Mutation: a current link is left as it was kept up before.
NeverAdopt(t) == t
\* The tail of `after': a current link takes the watch's word for how it is kept up.
Adopt(t) == IF IsCurrent(t) /\ t.rest.live # t.said THEN StepLive(t, t.said) ELSE t

\* handle(Event::Live): remembered only while a watch runs.
HandleLive(t, live) ==
    Adopt(StepLive(IF t.watch THEN [t EXCEPT !.said = live] ELSE t, live))

\* Mutation: a watch runs whatever the link stopped for.
WantedAlways(t) == t.offered /\ ~holding
\* live.rs decide.
Wanted(t) == t.offered /\ ~holding /\ t.rest.st \notin {"NeedsSignIn", "Broken"}

\* reconcile_watch: start or stop the watch; one that is stopped has said its last word.
Reconcile(t) ==
    IF ~t.watch /\ Wanted(t) THEN [t EXCEPT !.watch = TRUE]
    ELSE IF t.watch /\ ~Wanted(t)
         THEN HandleLive([t EXCEPT !.watch = FALSE, !.said = "Polling"], "Polling")
         ELSE t

\* Mutation: what is left to the watch is forgotten.
DeferForgotten(t) == t
\* defer: a poll or wake left to the watch is asked again in an interval.
Defer(t) == [t EXCEPT !.wake = IF t.manual THEN NoWake ELSE [ev |-> "Poll", left |-> Every]]

\* delegate.rs verdict.
Verdict(t, ev) ==
    IF schedule = "window" \/ t.busy \/ t.rest.st = "Fresh" THEN "Run"
    ELSE IF ev \in {"Poll", "Tick"} THEN "Defer" ELSE IF ev = "Push" THEN "Drop" ELSE "Run"

\* Mutation: a start begins a pass also while one runs.
BeginsAnyway(t, ev) == ev \in Starts /\ t.rest.st \in {"Fresh", "Current", "Waiting"}
\* step: whether ev begins a pass.
Begins(t, ev) ==
    /\ ~t.busy
    /\ \/ ev \in Starts /\ t.rest.st \in {"Fresh", "Current", "Waiting"}
       \/ ev = "Manual" /\ t.rest.st = "Broken"
       \/ ev = "Tick" /\ t.rest.st = "Current" /\ t.rest.age >= Between(t, t.rest.live)
       \/ ev = "Tick" /\ t.rest.st = "Waiting" /\ t.rest.left = 0
       \/ ev = "SignedIn" /\ t.rest.st \in {"NeedsSignIn", "NeedsAllow"}

\* Mutation: a push that finds a pass running is lost.
NeverDirty(t, ev) == t
\* Dirty::heard.
Dirtied(t, ev) == IF ev = "Push" /\ t.busy THEN [t EXCEPT !.dirty = TRUE] ELSE t

\* handle, for what may begin a pass.
Handle(t, ev) ==
    IF ~t.there \/ (ev = "Poll" /\ t.manual) THEN t
    ELSE CASE Verdict(t, ev) = "Defer" -> Reconcile(Defer(t))
           [] Verdict(t, ev) = "Drop"  -> Reconcile(t)
           [] OTHER -> LET d == Dirtied(t, ev)
                       IN  IF Begins(d, ev) THEN RunPass(d) ELSE Adopt(d)

\* running and failed: what the end of a pass makes of the link.  `wait' is how long a failed
\* pass is waited out (backoff, or what the server asked).
Stepped(t, ev, wait) ==
    CASE ev = "Finished" -> WakeAt([t EXCEPT !.busy = FALSE,
              !.rest = [Resting("Current") EXCEPT
                  !.live = IF t.rest.st = "Current" THEN t.rest.live ELSE "Polling"]],
              Between(t, IF t.rest.st = "Current" THEN t.rest.live ELSE "Polling"))
      [] ev = "Again"  -> WakeAt([t EXCEPT !.busy = FALSE,
              !.rest = [Resting("Waiting") EXCEPT !.left = wait]], wait)
      [] ev = "Reauth" -> [t EXCEPT !.busy = FALSE, !.rest = Resting("NeedsSignIn")]
      [] ev = "Grant"  -> [t EXCEPT !.busy = FALSE, !.rest = Resting("NeedsAllow")]
      [] ev = "Fatal"  -> [t EXCEPT !.busy = FALSE, !.rest = Resting("Broken")]
      [] ev = "Cancel" -> CancelPass([t EXCEPT !.busy = FALSE])

\* handle and `after' for the end of a pass: the watch follows the link, and a push that came
\* meanwhile is answered if the pass finished.
HandleEnd(t, ev, wait) ==
    IF ~t.there \/ ~t.busy THEN Adopt(t)
    ELSE LET stepped == Stepped(t, ev, wait)
             watched == IF stepped.rest.st # t.rest.st THEN Reconcile(stepped) ELSE stepped
             settled == [watched EXCEPT !.dirty = FALSE]
         IN  IF t.dirty /\ ev = "Finished" THEN Handle(settled, "Push") ELSE Adopt(settled)

\* follow: the account is no longer among the wanted, with anything running for it.
Forgotten(t) == [t EXCEPT !.there = FALSE, !.busy = FALSE, !.rest = Resting("Fresh"),
    !.passes = Cut(t), !.held = 0, !.gen = 0, !.wake = NoWake,
    !.watch = FALSE, !.said = "Polling", !.dirty = FALSE]

\* follow: the accounts are these now, pushed to or not; a new one begins at what the store knows
\* of it and is polled at once.
Follow(t, ev, offered, probe) ==
    LET left == IF t.there /\ ev = "Away" THEN Forgotten(t) ELSE t
        told == [left EXCEPT !.manual = (ev = "Manually"), !.offered = offered]
        come == IF ev # "Away" /\ ~t.there
                THEN Handle([told EXCEPT !.there = TRUE, !.rest = probe], "Poll") ELSE told
    IN  IF come.there THEN Reconcile(come) ELSE come

-----------------------------------------------------------------------------
\* run: the account has its link and its interval, if any, and the first note is the accounts'.
Init ==
    /\ \E probe \in Probed, manual \in BOOLEAN :
          s = [there |-> TRUE, busy |-> FALSE, rest |-> probe, manual |-> manual,
               wake |-> NoWake, gen |-> 0, held |-> 0, begun |-> 0, passes |-> {},
               watch |-> FALSE, offered |-> FALSE, said |-> "Polling", dirty |-> FALSE]
    /\ inbox = <<IF s.manual THEN "Manually" ELSE "Polled">>
    /\ keep = "off" /\ late = "off" /\ beat = TRUE
    /\ schedule = "window" /\ holding = FALSE
    /\ unseen = FALSE /\ long = FALSE /\ turned = FALSE

Send(notes) == Len(inbox) + Len(notes) <= MaxNotes /\ inbox' = inbox \o notes

\* A note is taken from the channel and the scheduler becomes t.  The watch's task starts and
\* stops with it: one that is stopped may be in the middle of saying something.
Take(ev, t) ==
    /\ inbox # <<>> /\ Head(inbox) = ev /\ inbox' = Tail(inbox)
    /\ t.begun <= MaxPasses
    /\ s' = t
    /\ keep' = IF ~t.watch THEN "off" ELSE IF s.watch THEN keep ELSE "rest"
    /\ late' = IF s.watch /\ ~t.watch /\ keep \in {"listen", "up"} THEN keep ELSE late
    /\ unseen' = (unseen /\ t.begun = s.begun /\ t.there)
    /\ LET same == t.begun = s.begun /\ t.wake = s.wake
       IN  /\ long' = (FarOff(t) \/ (long /\ same))
           /\ turned' = ((s.manual /\ ~t.manual) \/ (turned /\ same))
    /\ UNCHANGED <<beat, schedule, holding>>

TakeStart == \E ev \in Starts \cup {"Tick", "SignedIn"} : Take(ev, Handle(s, ev))
TakeLive == \E ev \in Lives : Take(ev, IF s.there THEN HandleLive(s, ev) ELSE s)
TakeEnd == \E ev \in Ends :
              \/ ev # "Again" /\ Take(ev, HandleEnd(s, ev, 0))
              \/ ev = "Again" /\ \E wait \in Waits : Take(ev, HandleEnd(s, ev, wait))
\* Who can be pushed to is read as the note is handled, later than the note's accounts.
TakeAccounts == \E ev \in {"Away", "Polled", "Manually"}, offered \in BOOLEAN,
                   probe \in Probed :
                      Take(ev, Follow(s, ev, offered, probe))

-----------------------------------------------------------------------------
(* What speaks to the scheduler.                                            *)

\* run_pass: a pass ends, and says so if its generation is the latest as it does.  One that was
\* told to stop may end as cancelled, or as it would have ended.
PassEnds == \E p \in s.passes, ev \in Outcomes \cup {"Cancel"} :
    /\ ev = "Cancel" => p.cut
    /\ s' = [s EXCEPT !.passes = @ \ {p}]
    /\ Send(IF p.gen = s.gen THEN <<ev>> ELSE <<>>)
    /\ UNCHANGED <<keep, late, beat, schedule, holding, unseen, long, turned>>

\* The sleep of the latest wait is over.
TimerFires ==
    /\ s.wake.ev # "none" /\ s.wake.left = 0
    /\ Send(<<s.wake.ev>>)
    /\ s' = [s EXCEPT !.wake = NoWake]
    /\ UNCHANGED <<keep, late, beat, schedule, holding, unseen, long, turned>>

\* The first fetch of an account already known waits one beat.
BeatFires ==
    /\ beat /\ Send(<<"Poll">>)
    /\ beat' = FALSE
    /\ UNCHANGED <<s, keep, late, schedule, holding, unseen, long, turned>>

Asked == \E ev \in Asks :
    /\ Send(<<ev>>)
    /\ UNCHANGED <<s, keep, late, beat, schedule, holding, unseen, long, turned>>

\* A `mailo watch' or a daemon starts or stops: a watch holds the accounts as a daemon does.
\* What is announced while a watch schedules is the watch's to fetch.
BesideChanges ==
    /\ Beside
    /\ \E w \in {"window", "watch"}, h \in BOOLEAN :
          /\ w = "watch" => h
          /\ schedule' = w /\ holding' = h
          /\ unseen' = (unseen /\ w = "window")
    /\ UNCHANGED <<s, inbox, keep, late, beat, long, turned>>

\* live.rs keep: after a wait the connection is held, ...
WatchListens ==
    /\ keep = "rest" /\ keep' = "listen"
    /\ UNCHANGED <<s, inbox, late, beat, schedule, holding, unseen, long, turned>>
WatchUp ==
    /\ keep = "listen" /\ keep' = "up"
    /\ Send(<<"Pushed">>)
    /\ UNCHANGED <<s, late, beat, schedule, holding, unseen, long, turned>>

\* ... what it hears is told: mail, or a reason to look; a stopped one may tell one thing more, ...
Hears(ev) ==
    /\ Send(<<ev>>)
    /\ unseen' = (unseen \/ (ev = "Push" /\ schedule = "window" /\ s.there))
    /\ UNCHANGED <<s, keep, beat, schedule, holding, long, turned>>
WatchHears ==
    keep \in {"listen", "up"} /\ UNCHANGED late /\ \E ev \in {"Push", "Poll"} : Hears(ev)
LateHears ==
    /\ late # "off" /\ late' = "off"
    /\ \E ev \in {"Push", "Poll"} \cup (IF late = "listen" THEN {"Pushed"} ELSE {}) : Hears(ev)
LateEnds ==
    /\ late # "off" /\ late' = "off"
    /\ UNCHANGED <<s, inbox, keep, beat, schedule, holding, unseen, long, turned>>

\* ... and a lost connection is told, with a nudge where a pass should find out why.
WatchLost ==
    /\ keep \in {"listen", "up"} /\ keep' = "rest"
    /\ \E nudge \in {<<>>, <<"Poll">>} : Send(<<"Polling">> \o nudge)
    /\ UNCHANGED <<s, late, beat, schedule, holding, unseen, long, turned>>

Less(n) == IF n = 0 THEN 0 ELSE n - 1
\* Time passes; a timer may be late, never early.
Elapse ==
    /\ s' = [s EXCEPT !.rest.age = IF @ < MaxAge /\ s.rest.st = "Current" THEN @ + 1 ELSE @,
                      !.rest.left = Less(@), !.wake.left = Less(@)]
    /\ UNCHANGED <<inbox, keep, late, beat, schedule, holding, unseen, long, turned>>

Loop == TakeStart \/ TakeLive \/ TakeEnd \/ TakeAccounts
Watch == WatchListens \/ WatchUp \/ WatchHears \/ WatchLost \/ LateHears \/ LateEnds
Next == Loop \/ Watch \/ PassEnds \/ TimerFires \/ BeatFires \/ Asked \/ BesideChanges \/ Elapse

Spec == Init /\ [][Next]_vars

-----------------------------------------------------------------------------
(* Properties.                                                              *)

\* The types of the scheduler's state and of what speaks to it.
TypeOK ==
    /\ s \in [there: BOOLEAN, busy: BOOLEAN, rest: Rest, manual: BOOLEAN,
              wake: [ev: {"none", "Tick", "Poll"}, left: Nat], gen: Nat, held: 0..MaxPasses,
              begun: 0..MaxPasses, passes: SUBSET PassTask, watch: BOOLEAN, offered: BOOLEAN,
              said: Lives, dirty: BOOLEAN]
    /\ inbox \in Seq(Notes) /\ Len(inbox) <= MaxNotes
    /\ keep \in {"off", "rest", "listen", "up"}
    /\ late \in {"off", "listen", "up"} /\ beat \in BOOLEAN /\ holding \in BOOLEAN
    /\ unseen \in BOOLEAN /\ long \in BOOLEAN /\ turned \in BOOLEAN
    /\ schedule \in {"window", "watch"}

Queues(ev) == \E k \in 1..Len(inbox) : inbox[k] = ev

\* A link that says it is syncing has a pass that will say how it ended, or has said so: no
\* account is left syncing for ever, whatever is cancelled, forgotten or said late.
SyncingServed ==
    s.busy => \/ \E p \in s.passes : p.gen = s.gen
              \/ \E ev \in Ends : Queues(ev)

\* One pass at a time (schedule/mod.rs, ``the only thing that moves it''; run_pass waits out a
\* folder fetch because two writers write the same rows): at most one pass that has not been
\* told to stop is running.
OnePass == \A p, q \in s.passes : ~p.cut /\ ~q.cut => p = q

\* A link at rest that only time is to move, and what is to move it.
Dozing == s.there /\ ~s.busy /\ ~s.manual /\ s.rest.st \in {"Fresh", "Current", "Waiting"}
Awaited == beat \/ s.wake.ev # "none" \/ \E ev \in Starts \cup {"Tick"} : Queues(ev)

\* An account at rest that only time is to move has a timer, or a start on its way: it is never
\* left unlooked at (link.rs PUSH_SILENCE, ``the longest a pushed account goes without a pass
\* before the link starts one itself'').  There are two ways out, and no third: a time further off
\* than one sleep, and an account that was checked only when asked and is polled again (follow
\* sets no timer for it).
WakeKept == Dozing /\ ~long /\ ~turned => Awaited

\* The longest a single timer sleeps: ``A wake that is further off than this is asked for again''
\* (mod.rs FAR).
FarAskedAgain == Dozing /\ long => Awaited

\* A push that finds a pass running is not lost (live.rs): at a current link, mail announced
\* since the last pass began is a start on its way.
PushAnswered == unseen /\ IsCurrent(s) /\ schedule = "window" => Queues("Push")

\* A current link is kept up as the watch last said, so an account whose watch is gone or has
\* lost its connection is polled (mod.rs after, ``takes the watch's word'').
LiveAgrees == IsCurrent(s) => s.rest.live = s.said /\ (s.said = "Pushed" => s.watch)

\* A refused credential or a broken account is not knocked on by a watch (live.rs decide).
StoppedUnwatched == s.there /\ ~s.busy /\ s.rest.st \in {"NeedsSignIn", "Broken"} => ~s.watch

\* A pass that was cancelled finds its number out of date and says nothing (tasks.rs
\* Generations), so it cannot end the pass of an account that came back.
CancelledSilent ==
    [][\A p \in s.passes : p.cut /\ p \notin s'.passes => inbox' = inbox]_vars
=============================================================================
