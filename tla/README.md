# A TLA+ verification of mailo's local-first core

mailo is a local-first mail client (IMAP, POP3, JMAP, Microsoft Graph, SMTP) in Rust. What a person
does is written to a SQLite store at once, queued in an *outbox*, and told to the server by *passes*
that run in the background: in the window's process, in a `mailo watch` process beside it, or in a
`mailo sync` of the command line. The modules here model the parts where that is hard to get right,
check them with TLC on small instances, and prove the most important results with TLAPS.

All paths below are under `src/crates/`.

## Inventory

| Part | State | Operations | Hard because | Correct when |
|---|---|---|---|---|
| Outbox and dispatch (`mail-store/src/sqlite/outbox.rs`, `mail-store/src/dispatch.rs`, `pending.rs`) | rows with undo patch, attempts, next attempt; pending changes; unplaced messages | queue, due, dispatch, settle, withdraw | rows wait for an address, back off, are refused in part; two processes | changes reach each message in order, none is dropped unsaid, unconfirmed changes stay visible, it empties |
| Ingest (`mail-store/src/sqlite/write.rs`, `mail-store/src/filing.rs`) | messages, addresses | write what a sync read, put unconfirmed changes back on top | the listing is older than the write | as above |
| Drain (`mail-engine/src/engine.rs`, `mail-runtime/src/jmap/outbox.rs`) | place in the walk | address, attempt, settle | state read before an await is used after it; cut off anywhere | as above |
| Settling (`mail-runtime/src/sending/settle.rs`) | none: a function | order of the writes after an attempt | each write may be the last | no message twice, no row lost unsaid |
| Drafts and sending (`mail-core/src/compose.rs`, `compose/freeze.rs`, `mail-store/src/sqlite/draft.rs`, `commit.rs`) | a draft's `SendState`, its submissions | queue, unsend, discard, save | the person changes a draft while a drain sends it | one submission, sent once or refused and said |
| Composer page (`mail-ui-compose/src/compose/life.rs`) | page, ledger of writes | save, discard, park | autosave off the drawing thread, read then write | a save undoes nothing but text |
| Link (`mail-logic/src/fetch/link.rs`) | Fresh, Current, Waiting, NeedsSignIn, NeedsAllow, Broken, or Syncing over one of them | step | asked from many sides | syncing only with a pass |
| Scheduler (`mail-engine/src/schedule/`) | link, running pass, generations, timer, dirty, watch | notes and effects | everything arrives by one channel, later than it was true | one pass, a timer whenever only time can move the link, every push answered |
| Live watch (`schedule/live.rs`, `mail-core/src/sync/live.rs`) | listening, up, resting | hear, lose, reconnect, stop | speaks after it was stopped | a stopped account has none |
| Fetching in the client (`mail-client/src/fetch.rs`) | folders opened, intervals, outbox clock | open a folder, come due, accounts | check, then act | a folder is fetched once |
| Sync of a mailbox (`mail-engine/src/engine/decide.rs`, `engine.rs` `sync`, `survey`, `sweep`; `mail-proto/src/backend/imap.rs`) | cursor, held-through mark, addresses, unreadable headers, sweeps due | survey, fetch under a budget, sweep flags and what is gone | the server changes between two commands; a pass ends midway; numbering starts afresh | the mark covers only what is held, nothing live is dropped, the store converges |
| Drafts on the server (`mail-runtime/src/server_drafts.rs`, `draft_copy` of the backends) | copies in Drafts, rows to replace or remove them | keep, drop, walk on the server | a later copy replaces one being uploaded; the draft is sent or discarded meanwhile | never none while kept, a removal stands, one copy in the end |
| Tokens (`mail-secrets/src/tokens.rs`) | keyring entries, held credential, what was refused, the turn | sign in, renew ahead, renew after a refusal | several sessions refused at once; a session dropped while it renews; a refresh token may be spent once | a refusal costs one renewal, the newest token is kept, a person is asked only when it helps |
| Watch lock and door (`mail-agent/src/ipc/`) | lock, socket | watch, ask, leave | starts and stops race | one watch per user |
| Protocol machines (`mail-proto/`, `mail-runtime/src/drive.rs`) | phase, what EHLO offered, kept connection | IMAP, SMTP, POP3, Sieve, JMAP | kept connections, silence, stops | each message has its own recipients, extensions and security; every submission ends |

Everything else (MIME, cryptography, calendars, search, rules, contacts, editor, reader, windows,
command line, archives, system integration) is listed with its reason in `PROJECT.json`: formats,
pure functions, drawing, or calls to the operating system.

The parts meet in four places. The **store** is shared by every process, with SQLite transactions as
the only synchronisation. The **scheduler's channel** carries what people, timers, watches and passes
say. A **pass** (sync, then drain) is what the scheduler starts and what reads and settles the outbox.
The **connection and its credential** are what a pass works through: the SMTP session under a
submission, and the token source under every session.

## Modules

| Module | Models | Kind |
|---|---|---|
| `Outbox` | acts on messages, outbox, ingest, drain of operations on messages | specification and properties |
| `OutboxProofs` | theorems of `Outbox` | proofs |
| `Schedule` | one account's link, scheduler, pass, timer, watch | specification and properties |
| `ScheduleProofs` | theorems of `Schedule` | proofs |
| `Delivery` | what a person is promised of a submission | abstract specification |
| `Sending` | one draft from Send to Sent; implements `Delivery` | specification and properties |
| `SendingProofs` | theorems of `Sending` | proofs |
| `Sync` | one IMAP mailbox: survey, headers, sweeps | specification and properties |
| `SyncProofs` | theorems of `Sync` | proofs |
| `Smtp` | the submission session, its driver, the kept connection | specification and properties |
| `SmtpProofs` | theorems of `Smtp` | proofs |
| `ServerDrafts` | a draft's copy in the server's Drafts | specification and properties |
| `ServerDraftsProofs` | theorems of `ServerDrafts` | proofs |
| `Tokens` | an OAuth account's token: sources, sessions, keyring | specification and properties |
| `TokensProofs` | theorems of `Tokens` | proofs |
| `MC...` | model values, symmetry and constants of the runs | instances |

How they fit: `Outbox`'s sync step is one atomic reading of the server, `Sync` opens that reading up
into its commands. `Sending` takes an attempt's outcome from a set; `Smtp` is what produces it.
`ServerDrafts` follows the same draft's other rows. Every one of them is a pass that `Schedule` begins,
and `Tokens` is what lets its sessions in.

In each module, an operator whose comment begins "Mutation:" is a plausible wrong form of the
definition below it. The specification does not use it; replacing the definition by it must violate
the property that `PROJECT.json` pairs it with.

### Outbox

An instance follows one property of each message, `Shown`. With `"marks"` it is the flags and labels,
which a listing restates in full; with `"mailbox"` it is the folder the message is filed in, which a
listing leaves as it is but for the two rules of `filing.rs` (arriving in the inbox takes a message out
of Archive, leaving INBOX files it where it went). Rows that set the other property are queued,
addressed and sent all the same, and show nothing.

`local` is what the person sees, `server` the server's truth, `known` the folder a message is in as far
as the store knows, `place` the store's idea of the address, `outbox` the rows with their pending
changes. A place is an address (`"at"`); unplaced, after a move whose destination the server did not
say, with the passes that have missed it counted; nowhere: held, with no address that any pass counts
(`Place::At` of nothing), as after a UIDVALIDITY reset; or gone.

| Actions | Code |
|---|---|
| `Act`, `TakeBack` | `queue_in`, `withdraw_in`; `mail-core` `act`, `take_back` of a filing that is still queued. What is done to messages that are all nowhere is made here alone and not queued |
| `SyncFetch`, `SyncReset`, `SyncIngest` | `sync`; `UidValidity::Reset`, which forgets a mailbox's addresses and keeps its messages; the ingest, `filing.rs` and the re-layering of pending changes |
| `DrainList`, `Dispatch*` | `drain_pass`'s `outbox_due`; `addressed`, `dispatch::in_queue` (wait, moot, lost, send) |
| `Serve`, `Heard` | the attempt on the wire, and what its answer says of addresses (`moved`) |
| `Settle*` | `settle_in`: done, backed off or parked, refused with undo; or the row has gone |
| `ComeDue`, `Elsewhere`, `Crash` | the next attempt's time; another client; the process ends |

Left out: taking back what has settled (a new row like any other, or for a filing only the inverse
here); copies, Destroy, Append and folder work; replacing a waiting upload of a draft
(`ServerDrafts`); a message's thread (each message is its own thread when re-layering); the address
that is stale when a process ends between a MOVE and `moved`. `PASSES_TO_FIND` and its per-folder
companion are one counter.

### Schedule

`s` is what the loop holds for one account (link, pass tasks, generation, timer, dirty flag, wanted
watch), `inbox` the channel, `keep` and `late` the running watch and the last stopped one that may
still speak, `schedule` and `holding` whether a watch or a daemon works beside this process, `unseen`
announced mail that no pass begun since can have seen. `long` and `turned` are histories too: the timer
last set is for a time further off than one sleep lasts, and the account was polled again after it was
to be checked only when asked. Times are kept as what is left of them. A wait may be longer than `Far`,
as one a server names may be (`link.rs` `failed`): its one sleep is cut at `Far`, and the tick that
then comes too early sets no other timer.

| Actions | Code |
|---|---|
| `TakeStart`, `TakeLive`, `TakeEnd`, `TakeAccounts` | `note`, `handle`, `after`, `follow`: one note handled whole, with every effect it has |
| `PassEnds`, `TimerFires`, `BeatFires` | `run_pass`; the tasks of `Effect::WakeAt` and of opening |
| `WatchListens`, `WatchUp`, `WatchHears`, `WatchLost`, `LateHears`, `LateEnds` | `keep`, `hearing`, `reconnect`, `stopped` |
| `Asked`, `BesideChanges` | `Fetcher::tell`, `Fetcher::accounts`; `Host::schedule`, `Host::daemon` |

Left out: progress and words of a pass, the number of failures (a wait is any of `Waits`), holds for a
folder being fetched, timers that outlive a forgotten account.

### Sending

One draft. `draft` is its `SendState` (Failed with a retry is `Failed`, for good is `Refused`), `rows`
its submissions in the outbox, `ready` those whose next attempt has come, `drain[d]` how far each
process's drain has got, `page` what the composer has read and not yet written. `accepted`,
`withdrawn`, `regretted`, `said`, `unwritten` (accepted, with nothing written of it here) and `shared`
(in the hands of two drains at once) are histories the properties speak of.

| Actions | Code |
|---|---|
| `Queue`, `Unsend` | `queue_inner` with `freeze` and `Frozen::commit`; `unsend`. Each is one commit whose `Expect` refuses a draft changed since it was read and decides again, so one step |
| `DiscardRead/Write`, `SaveRead/Write` | `discard`, `save`: a read, then a write that expects nothing. A window makes these one at a time (`Ledger`); other processes do not wait for it |
| `DrainList`, `DrainAddress`, `MarkSending` | `outbox_due`, `addressed`, `mark_draft(Sending)` |
| `SubmitAccepted`, `SubmitLost`, `SubmitAgain`, `SubmitRefused`, `SubmitCancelled` | `submit`, `submit_on`: accepted; accepted and the answer lost or the pass stopped; accepted on a kept connection that is let go, so sent again at once; refused; stopped |
| `SettleOk`, `MarkSent`; `MarkFailed`, `SettleFailed` | `settle`: the row, then the draft; the draft, then the row |
| `Crash` | the process ends between any two commits |

Left out: the message itself, other drafts' rows in the same walk, the copy kept in Sent and the
removal of the copy in Drafts (each best effort, of rows of other kinds), the follow-up reminder.
JMAP's `drain_into` makes the same steps; only the stopping of a pass is not its own.

**`Delivery`** has one variable, the fate of each submission: unqueued, held, sent, refused or taken
back. `Sending!Fate` computes it from the outbox and the histories, and `KeepsPromise` is the
refinement. What it rules out: a submission that vanishes, one refused or taken back that is held
again, two held at once, one sent that becomes anything else. What it has to admit: a submission
refused or taken back may still be sent by another drain that had read its row, and one still held may
turn out to have been sent (its answer was lost).

### Sync

The server's half is `uid`, `seen`, `mod`, `expunged` with its UIDVALIDITY, UIDNEXT and HIGHESTMODSEQ
and what it offers (no CONDSTORE, CONDSTORE, QRESYNC). The store's half is `held`, `read`, `mapped`
(the addresses), `cursor`, `through` (held through), `unreadable` and `resting`. `due` are the sweeps
whose interval has passed. `pass[e]` is what an engine holds between two commands.

| Actions | Code |
|---|---|
| `Begin`, `Select`, `List`, `Ingest` | `sync`, `survey`: cursor read, mailbox selected, resumed or reset, listing, its rows written |
| `FetchHeader`, `AbsorbFlags`, `MarkHeld`, `Unfinished` | headers under `HEADERS_PER_PASS`, an unreadable one set aside; flags of what is held; `held_through`, or the cursor left behind |
| `Sweep`, `FetchFlags`, `KeepFlags`, `ListRemote`, `KeepGone` | `sweep`: which sweeps are due, the flags the server has, `UID SEARCH` and the dropping of what it no longer names |
| `RequestFails`, `Garbled`, `CutShort`, `Stopped` | an error, a header that cannot be read, the process ends, the person stops the pass (what has come of an answer is taken as the answer) |
| `Arrive`, `Expunge`, `Reflag`, `Renumber` | other devices and the server |

Left out: bodies, discovery of folders, quota, search on the server, POP3's listing (no flags, no
windows), threads, and how a large ingest is cut into chunks.

### Smtp

`ses` is the staged session (phase, the recipient it is at, extensions in force, mechanism), `conn` the
connection as the server has it (secured, signed in, recipients of the open transaction, reply on its
way), `sending` what the engine keeps of it, `told` what each submission ended with. `taken` and
`unheard` are histories. The server's answers are six classes: fine, go on, busy, closing, no, and one
the phase does not expect. An EHLO may name a SIZE that fits, one that does not, zero, or none.

| Actions | Code |
|---|---|
| `BeginNew`, `BeginKept`, `QuitSending` | `submit`, `submit_on`, `quit_sending`: checks before anything is written, a new connection, or the next transaction on the kept one, the end of a pass |
| `Hear...`, `TlsOpen` | `SmtpSession::resume` per phase: greeting, EHLO, STARTTLS, EHLO again, SASL, MAIL, RCPT, DATA, BDAT, the last dot |
| `Lose`, `Stall`, `Interrupt` | end of file or an I/O error, silence for `QUIET`, a stop |
| `Answer`, `Leave` | the server answers, or leaves an idle connection |

Left out: the relayed and QUIT paths of the session, which nothing in the program takes; replies that
arrive together. As the worst case the server keeps the recipients of an unfinished transaction over
a new MAIL FROM. A submission that a lost kept connection interrupts goes again on a new one.

### ServerDrafts

A draft's text is the number of its saves. `rows` are its uploads, removals and submissions, `replaced`
the rows each process remembers as replaced, `copies` what is in the server's Drafts, `owes` what the
window has still to do after a save or a deletion. `owed` and `ever` are histories; `owed` is "cut"
where the asking for a removal was itself cut off.

| Actions | Code |
|---|---|
| `Save`, `Send`, `Unsend`, `Discard` | the composer's writes |
| `Keep`, `KeepNotDue`, `DiscardDrop` | `keep_on_server` with `KEEP_EVERY`, `queue_keep`, `queue_drop` |
| `DrainList`, `DrainAddress`, `DrainEnd`, `ComeDue` | the walk over due rows |
| `StageCopy`, `Search`, `Append`, `AppendLost`, `Remove` | `copy`, `draft_copy`: what to upload now, if anything; find the copies by the draft's header; upload; remove those found |
| `Settle`, `SettleFailed`, `Fails` | `settle_in`, with rows replaced meanwhile |
| `MarkSending`, `Submitted`, `MarkSent`, `DropCopies` | a submission: mark, its row settled once accepted, mark, and the removal it queues |
| `Crash`, `WindowEnds` | a drain's process ends, or its pass is dropped, at any of these steps; the window ends with what it has still to do and the passes it runs |

Left out: how a submission fails (`Sending`), several drafts, the message itself.

### Tokens

Tokens are numbered as issued. A source is one `OAuthTokens` with its `Held` cell, what it has spent
and who has the turn; a pass, a watch, a body fetch and a look at the quota each make one
(`signed_in`), and a watch's sessions share theirs. `due` and `refusing` are how far the clock and the
mail server have moved past old tokens. Histories: `again` (a replaced refresh token was presented),
`twice` (by the source that holds what replaced it, or waits for the keyring to keep it), `replaced`,
`mislaid` (what replaced it never reached the keyring), `missing` (sources the keyring told that there
is no credential), `counts`.

| Actions | Code |
|---|---|
| `SignIn`, `SignInUnread`, `SignedIn`, `Close` | `signed_in`: a source made from the keyring, renewing first if due; the keyring does not answer or has no entry; the source's last session is done |
| `Begin`, `AheadOf`, `Present` | `ahead_of`, the operation, its refusal |
| `AfterRefused`, `Renewed`, `NotRenewed` | `after_refusal` under the turn: already renewed, still refused, or renew |
| `LetGo` | `wait_on_each` drops a session wherever it is: its turn is given up, and the issuer's answer lost |
| `Ask`, `Put` | the exchange with the issuer; the keyring's two entries, one after the other. A keyring that does not answer is waited for, one without the entry is a credential to be asked for again (`SecretTrouble`) |
| `ComesDue`, `StartsRefusing`, `Withdrawn`, `Restart` | the clock, the mail server, the issuer, the process, which may end anywhere |

Left out: Graph's own token, passwords, the scopes a token names, the token of a kept connection, an
issuer that replaces the refresh token only sometimes. Of the keyring's entries only the one that
`signed_in` reads is claimed to be the newest: with two sources the other may be older.

## Runs

| Run | Shows | Bounds and why |
|---|---|---|
| `outbox_order` | `PendingShown`, `ReachesInOrder`, `NeverDroppedUnsaid` of marks and moves, with passes cut off and unsaid moves | two messages, three rows: a row, one behind it, one that could overtake. A message is looked for in two syncs and found by the next, so none is given up here (`MCOutboxFiled` has that) |
| `outbox_converge` | `TypeOK`, `Converges` (liveness) of marks beside filings, with every fault, a stopped pass and a renumbering included | one engine, two rows, one fault, one change elsewhere; looked for in one sync, so messages are given up |
| `schedule_all` | `TypeOK`, `SyncingServed`, `LiveAgrees`, `StoppedUnwatched`; accounts come and go, every end of a pass | two passes begun and two notes waiting: one note can be overtaken by what a second does |
| `schedule_kept` | `OnePass`, `PushAnswered`, `WakeKept`; a watch or daemon comes and goes, waits are as long as one sleep or longer, an account that was checked only when asked is polled again | two passes, two notes; intervals and sleeps of one, waits of one and two; sign-ins and stops are left to `schedule_all` |
| `sending_lost` | `TypeOK`, `NotSentAgain`, `NeverLost`, `QueuedHasRow`, `OneRow`, `KeepsPromise` (refinement); two drains, all faults | three submissions (one pulled back, one in a drain, one new), two faults |
| `sending_delivered` | `Delivered` (liveness); one drain, the composer's saves included | three submissions, two faults |
| `sending_unsent` | violation of `UnsentStays` | one submission, no fault |
| `sync_held` | `ThroughHeld`, `NeverDropsLive` | two messages, one still to arrive; a budget of one header, so a pass ends with one unfetched; two changes outside (such as a renumbering and an arrival), one fault, every offer |
| `sync_converges` | `TypeOK`, `Converges` (liveness), stopped passes too | the same |
| `smtp` | `TypeOK`, `OwnRecipients`, `OnlyOffered`, `Secured`, `CopiesKnown`, `Ends` (liveness) | three messages (two recipients; one; one with an address that cannot be written), offers that differ from EHLO to EHLO, two faults: one to lose the kept connection, one on the new one |
| `drafts` | `TypeOK`, `KeptStays`, `RemovalStands`, `CopiesSettle` (liveness); the window and the drain may be cut off at every step | one drain beside the window, two saves (one to upload, one to replace it), two faults, room for every row these can queue |
| `tokens` | `TypeOK`, `SpentOnce`, `StoredGood`, `AskedRightly`, `NoLoop`, `Answered` (liveness), with every fault | two sessions of one source; two tokens go stale: one renewed, one renewed and still refused; two faults: one to lose an answer, one while it is made good |

The runs of `Sending`, `Smtp` and `ServerDrafts` do not check deadlock: a draft sent or discarded, or
every submission told, with the bounds used, is the end of the model. The others do check it.

**Fairness.** `Outbox!FairSpec` assumes that passes go on (weak fairness of each engine's steps, strong
for beginning a sync: a pass of the scheduler syncs before it drains, so a run of drains alone is not
all there ever is), and that a next attempt's time comes. `Sending!FairSpec` and
`ServerDrafts!FairSpec` assume that a drain goes on and that times come, the latter also that the
window goes on with what follows a save or a deletion. `Sync!FairSpec` assumes that the mailbox is passed over
again and again and that intervals pass. All four rest on the scheduler, whose `WakeKept` and
`SyncingServed` say that an account has a pass or a timer, but for the two cases `WakeKept` names, in
which the next pass is one that a person or another note starts. `Smtp!FairSpec` assumes only the
driver, which gives up on a server that is silent for `QUIET` (`drive.rs`): of the server nothing is
assumed. `Tokens!FairSpec` assumes that what has begun goes on, strongly for a session that wants the
turn, because tokio's `Mutex` serves in order. Faults are bounded in number, not in place: the server
answers properly in the end. Nothing is assumed of people or other clients.

## Findings

`sending_unsent` ends in a violation: a send taken back between the drain's reading of its row and its
mark leaves all the same. The mark (`engine.rs` `drain_pass`) is unconditional, and the comment above
it says that from there the send can no longer be taken back.

### Where a property stops holding

The properties of the passing runs hold under the constants given there. Each configuration below is
kept beside the project, is not one of its runs, and shows where a property ends; most are a choice the
code makes, and some are worth a second look.

| Configuration | Property | What happens |
|---|---|---|
| `MCOutboxStranded` | `GivenUpAtLast` | a message whose folder was renumbered, and which is expunged before the next listing, is held at no address and not in `unplaced`; its row, and every later one that shares a message with it, waits for ever. `dispatch.rs` says that such a row is given up, and `own` counts only unplaced messages |
| `MCOutboxTakenBack` | `NextSyncShowsIt` | a filing taken back while a pass sends it is back here and filed there; `act.rs` says that the next sync shows it filed, but the listing finds the message at the address `moved` recorded and changes no role (`filing.rs`) |
| `MCOutboxOvertaken` | `ReachesInOrder` | a row that backed off is neither listed nor waited for, so a later row on the same message goes first (`outbox.rs` `due`) |
| `MCOutboxStopped` | `NeverDroppedUnsaid` | an IMAP pass stopped while an answer is out takes the row as done |
| `MCScheduleFar` | `FarAskedAgain` | a wait longer than `FAR`, as a throttling server may name: the sleep is cut, the link takes its tick as too early and asks for no other, though `mod.rs` says that such a wake is asked for again |
| `MCScheduleReused` | `CancelledSilent` | forgetting an account restarts its generations, so a cancelled pass of its earlier life answers for the new one (`tasks.rs`) |
| `MCSendingStuck` | `OnItsWay` | a process that ends between `SettleRow` and `Mark` leaves a draft Sending, which send, unsend and discard each refuse |
| `MCSendingStopped` | `StoppedStays` | a stopped submission is told as a permanent refusal, though `settle.rs` says a stop is none |
| `MCSyncStopped` | `NeverDropsLive` | half an answer of `UID SEARCH` is taken as the whole, and what it did not name yet is dropped |
| `MCSyncVanished` | `Disappears` | with QRESYNC a survey or a flag sweep moves the cursor past an expunge, the sweep for what is gone asks only for what came later, and the message is never dropped |
| `MCSyncMarked` | `ThroughHeld` | a folder opened beside a pass: one marks as held the cursor the other has just written, before that one has fetched its headers |
| `MCSmtpZero` | `BarredAsTold` | SIZE 0 is no limit, as `engine.rs` `heard_size` says and tells the composer; `smtp.rs` takes it as a limit of no octets and refuses every message for good |
| `MCSmtpAgain` | `NotHadBefore` | a kept connection that ends after the last dot and before its answer is taken as let go before it, and the message goes again; `engine.rs` `submit` says that it had not been accepted |
| `MCServerDraftsTwo` | `RemovalStands` | two drains: an upload staged by one ends after the other's removal |
| `MCServerDraftsStopped` | `RemovalStands` | a stopped walk is taken as done |
| `MCServerDraftsUnsealed` | `CopiesSettle` | a removal that backed off is overtaken by a later upload, then removes it |
| `MCTokensDropped` | `NeverAgain` | the turn is held over a renewal so that sessions spend a refresh token once (`tokens.rs`); `wait_on_each` (`access/imap.rs`) drops a session inside its renewal, the turn is free, the answer lost, and the next session of the source presents the replaced token |
| `MCTokensTwo` | `NeverAgain` | two sources, and nothing goes wrong: a watch's `Held` keeps the refresh token a pass has spent (`tokens.rs` `renewing`) |
| `MCTokensOwn` | `RefusedItsOwn` | `StillRefused` is told to a session whose refused token was the older one |

Three more pass, and show properties of the runs under other conditions: `MCOutboxFiled`
(`ReachesInOrder`, `NeverDroppedUnsaid` of mailboxes, with folders renumbered, messages expunged and
given up), `MCTokensBeside` (`StoredGood`, `AskedRightly` with two sources and every fault) and
`MCServerDraftsKept` (`KeptStays`, two drains, every fault; the largest of all).

Further notes, of the same kind:

- A stop means something else to each backend: POP3 and Graph settle nothing, IMAP takes what has come
  of an answer as the answer, SMTP reports a permanent refusal.
- `Outbox` with `Faults = {"fatal"}` violates `PendingShown`: `undo_entry` writes a refused row's undo
  over a later queued change and does not layer that change back. With `"reset"` it is violated as well:
  a change to a message that is nowhere is made here alone, over one that is queued.
- `Sending`: `NotSentAgain` names every way in which a submission is accepted twice. One of them needs no
  fault: two drains have a row in hand at once, since the window sends what came due also where a watch
  drains (`delegate.rs`), and nothing claims a row. A cut between the acceptance and the settling of its
  row is another; the row stays due.
- `Sending` with `"Save"` in `Acts` violates `OneRow` and `QueuedHasRow`: `put` writes back the state it
  read, over a drain's mark or another process's send.
- `Schedule` with `Beside = TRUE` violates `LiveAgrees`: `after` makes the start it owes for a push
  before the link takes the watch's word, and that start may be dropped. A link that is `NeedsAllow`
  keeps its watch, which goes on connecting.
- `Sync`: a flag changed before a survey that resumes is not seen until the next whole listing. A
  renumbering between a survey and its sweep makes the sweep drop every message, though `write.rs` says
  of a renumbering that the messages stay; the next pass fetches them again. Messages without an
  address after a reset are never dropped. `Converges` holds in spite of these.
- `ServerDrafts`: a process that ends between the settling of a submission and `DropDraftCopies`, or
  between a deletion and its `queue_drop`, leaves a copy for ever. Each is best effort in the code;
  `CopiesSettle` names both as its one exception. A send taken
  back after its waiting upload ran leaves the copy stale until the next save. `KEEP_EVERY` delays the
  removal of a copy in the clear as well.
- `Tokens`: what the issuer gave may be lost before it is kept, to the network, the keyring, a dropped
  session or the end of the process. The replaced token is then presented again, by whoever signs in or
  renews next; `SpentOnce` and `StoredGood` say that nothing else makes it so, of a source's own
  sessions and of the keyring. A session refused on an old token after another renewed by the clock
  costs a renewal that was not needed.

## Proofs

The theorems hold for every value of the constants that satisfies the modules' `ASSUME`s and the
assumptions each theorem names. Every invariant of every passing run, the refinement and the action
property of `Sync` are stated by a theorem; the assumptions are the conditions under which they
hold. For most of them a configuration of the table above, a note under it or TLC with the constant
changed shows the property violated without it; where one is only a limit of the proof, it says so. Every inductive invariant was checked by TLC before it was proved.

- `TypeCorrect` (`Outbox`): all instances.
- `DroppedOnlySaid` (`Outbox`): `NeverDroppedUnsaid` for any number of engines and every fault but
  `"stopped"`. The invariant `Faithful` adds to the types that what an engine is about to settle as done
  was carried out, or its message has gone; every other step that takes a row out writes the undo, of
  a row given up except for messages that are where the row would have them already.
- `PendingAlwaysShown`, `AlwaysInOrder` (`Outbox`), of marks or of mailboxes, assuming `Orderly`: one
  engine, no taking back, no back-off, park or refusal, nothing expunged or renumbered. What each of
  the first four breaks is shown above. `MCOutboxFiled` checks the order where messages are expunged
  and folders renumbered, which the invariant does not cover. Neither property
  is inductive. `Inductive` adds `PlacesInv` (nothing is ever given up: whatever is unplaced is found by
  the next sync, before the next walk), `RowsInv` (every queued row is due, ids grow), `WalkInv` (the
  row on the wire is the first of the walk and shares no message with an earlier queued row; a queued
  row that the walk has left behind waits for a reason other than the row on the wire, or is newer than
  the walk) and `OrderInv` (no later row was carried out on a message that an earlier queued row still
  names). `ChainKept` is the lemma that a chain of waiting rows stays one while its rows are queued and no message of it is found.
- `SendingTypes`, `SendingLosesNone`: all instances, any number of drains, all faults, saves included.
  `NeverLost` needs `Accounted`: what a drain is about to take out of the outbox was accepted, or its
  refusal said. That is the order of `Mark` and `SettleRow`.
- `SendingLeavesOne`, `QueuedIsHeld`, assuming no saves. `QInv` adds that a draft being written has
  nothing in the outbox, and that no drain past its mark holds the row of a draft that says queued:
  such a drain marked it Sending, and only a new submission makes it queued again.
- `SendingKeepsPromise`, assuming no saves: `Sending` implements `Delivery`. It rests on `KInv`
  (`NeverLost` with `Accounted`) and `QInv`: each step of `Sending` changes the fates as one step of `Delivery` or not at
  all.
- `SendsAgainOnlyUnknowing` (`NotSentAgain`): all instances, saves included. `OInv`: of a submission
  that is neither `unwritten` nor `shared`, at most one drain has the row in hand, and once accepted it
  is in the outbox only while that drain is settling it.

- `ScheduleTypes`, `SyncingIsServed`, `StoppedAreUnwatched`: all instances. `BaseInv` joins the three:
  `SyncingServed` is inductive with the types, `StopInv` says of a stopped link also that nothing
  watches it while a pass asked for by hand runs, and that a forgotten account has nothing running.
- `LiveFollowsWatch`, assuming `Alone`: nobody schedules beside the window.
- `OnePassAtATime`, `PushesAreAnswered`, assuming `Remains`: the account is not taken away. Without it
  TLC finds an account taken away and back, whose forgotten generations let the end of its earlier
  pass free the link under the new one (three passes begun). `PassInv`: at most one pass exists, it has
  the link's generation, and the note of its end is queued only once it is gone. `PushInv`: mail
  announced since the last pass began is a push still queued, or the running pass is marked dirty.
- `LinksAreWoken`, assuming `Remains`, whatever the waits and intervals. `WakeKept` names two exceptions:
  `long`, after a wait longer than one sleep (`MCScheduleFar`), and `turned`, an account polled again
  after it was to be checked only when asked, which `follow` gives no timer. `WakeInv` says when the
  timer fires too: not before the link is due unless the wait was long, so that a tick taken by a link
  at rest starts a pass.
- `SyncTypes`: all instances; `Numbers` adds that the server gives no UID twice under one UIDVALIDITY.
- `MarkedIsHeld`, `LiveMessagesStay`, assuming `OneEngine` (`MCSyncMarked`) and `Unstopped`
  (`MCSyncStopped`); other devices, renumberings, failed requests, unreadable headers and processes
  that end are all there, and so is every offer of the server. `SafeInv` follows the mark through a
  pass. `MarkInv`: mark and cursor are not ahead of the server, nor the mark of a later numbering than
  the cursor. `NameInv`: an address of the present numbering names the message the server has at it.
  `FromInv`: the pass resumes from the mark itself and its cursor is not behind the store's.
  `ListInv`, `WantInv`: what the survey did not list is known, and what it listed is wanted until it is
  known, so that nothing wanted means everything below the cursor known. `GoneInv`: nothing the server
  has is missing from a whole listing or named among what vanished. `LaterIs` is the lemma that
  whatever others do meanwhile, a message keeps its address or gets one above all given before.
- `SmtpTypes`, `AlwaysSecured`, `UsesOnlyOffered`, `ReachesOwnRecipients`, `CopiesAccounted`: all
  instances, for any messages, offers and answers. `SecureInv` and `OfferInv` carry what the EHLO in
  force said from the connection to what is kept of it and back; `RcptInv` counts the recipients the
  server has along the RCPT commands, and says that it has none outside a transaction: the kept
  connection is let go whenever one is left open.
- `ServerDraftsTypes`, `KeptCopyStays`: all instances, any number of drains, every fault; at most one
  upload waits. `CopyInv`:
  what an upload will remove is older than the newest copy, and only a removal that was asked for
  removes that.
- `RemovalIsQueued`, assuming `OneDrain` (`MCServerDraftsTwo`) and `RemovalsTaken` (no removal refused
  for good or stopped: `MCServerDraftsStopped`). `RemovalInv`: where a removal is owed no upload is
  queued or under way unless the removal is still queued behind it; `RowInv`: no id is given twice.
- `TokensTypes`, `OnlyAskedRightly`, `NeverLoops`: all instances, any number of sources and sessions,
  every fault. `TurnInv` ties each renewal under way to the session that has the turn; `LoopInv`: a
  renewal for a refusal begins only where what is held was not minted for one.
- `SpendsOnce`, `KeepsTheNewest`: all instances, any number of sources and sessions, every fault, with
  sessions dropped and processes that end anywhere. `KeyInv`: `BoundInv`, no token is numbered above what
  was issued; `OwnInv`, what a source presents, was answered with or holds is none of those it has
  replaced, save for what it holds while the answer is on its way; `KeptInv`, a replaced token in the
  entry that is read has its replacement on its way there or lost, and that answer is in nobody
  else's hands. `NeverAgain`, without the exceptions, does not hold (`MCTokensDropped`, `MCTokensTwo`).

Only model-checked: liveness (`Converges` of `Outbox` and `Sync`, `Delivered`, `Ends`, `CopiesSettle`,
`Answered`), which is out of TLAPS's reach here as fairness and ENABLED are, and the violations. No
module declares a RECURSIVE operator.

## Plan

1. Done: `Outbox`, `Schedule`, `Sending`, `Delivery` and its refinement, `Sync`, `Smtp`,
   `ServerDrafts`, `Tokens`, and the proofs above.
2. Proofs still worth writing: `Sync!ThroughHeld` with a folder fetched beside a pass, under the
   weakest condition that keeps the two apart; `Schedule!LiveAgrees` where a daemon comes and goes, for
   links no push is owed to; `Sending` as the environment `ServerDrafts` assumes of it.
3. Models still worth writing: the watch's lock and door; JMAP's and Graph's sync, whose cursor is one
   state string; folders fetched on opening, beside the scheduler's passes; Graph's own token.

## Not modelled

- Formats, parsing and cryptography (MIME, OpenPGP, S/MIME, calendars, cards, wire grammars): data at the
  level of characters, which the repository tests on recorded examples. A model would repeat the code.
- Windows, editor, reader, command line: drawing, text and input. What a person asks for through them
  is the environment of the modules above. They are most of the repository's lines.
- Search, rules, junk, contacts, schema and migrations: sequential functions of stored data, or SQL.
- Network transport and system integration: calls to libraries and the operating system. Their failures
  are the faults of the modules above.
- The in-memory store: the tests' second implementation of the store; the program runs SQLite.

`PROJECT.json` lists each with its reason.
