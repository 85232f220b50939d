# Verification of Trusted Autonomy: outside actions, drafts, task intake, team sessions and self-update

Trusted Autonomy (TA) lets agents work in a staging copy, bundles what they did
into a *draft*, and, once a person approves it, *applies* it: files go into the
project, a commit is made, and the *outside actions* of the draft (mails, posts,
tickets) are sent through connectors. On the other end, goals ask for further tasks
through the *task intake funnel*, and *team sessions* rotate through stages and wake
roles when messages arrive for them. All of it runs in a daemon that replaces itself
when a new build is installed. This directory holds TLA+ models of the
parts of that story where concurrency, crashes and retries decide whether the
promises in the documentation hold, the TLC runs that check them on small
instances, and TLAPS proofs of the central ones for every instance.

Line numbers refer to files of this repository, `src/` being its root.

## Inventory

| part | state it keeps | operations | hard behaviours | what makes it correct |
|---|---|---|---|---|
| outside action queue, `ta-actions/queue.rs`, `ta-daemon/action_worker.rs` | append-only journal per project, replayed to one entry per action key | enqueue a batch, claim, send, record, recover in-flight entries, resolve, request an undo | several daemons over one journal; a snapshot read without the lock; crash between send and record; a record that cannot be written; a batch cut short | nothing is sent twice, irrecoverable actions last, ordered drafts in order, honest reasons, every entry ends done or before a person |
| apply journal and driver, `ta-actions/apply_journal.rs`, `package_effects.rs`, `ta-cli draft apply` | journal directory with Begin, Prior, LocalCommit records and backups; apply lock; guard in memory | begin, save priors, copy, verify, commit, mark goal and draft, enqueue, clean up; recover | crash between any two writes, crash of the recovery, torn plain writes, recovery next to a live apply, a rollback that ends with a git checkout of the whole project | all or nothing; originals are never lost; the status decides; an interrupted apply converges |
| task intake funnel, `ta-task-intake` | `queue.jsonl`, append-only `ledger.jsonl`, `batch-<id>.jsonl`, a flock | enqueue with dedupe and caps, drain with leases, acknowledge, recover | two files without a transaction; late acknowledgements; leases that expire | a request is never lost, one live request per key, legal transitions |
| wake listeners, `ta-daemon/wake_listener.rs`, `wake_retry.rs`, `launch_failed.rs`, `ta-agent-whiteboard/nats_transport.rs` | a durable consumer per stream; files of attempts, of finished messages, of dead letters; an outbox; deliveries in memory | sweep at start, read, decide, record the attempt, launch, record the failure or the end, dead-letter, ack, delayed nak, flush the outbox | listeners of one role over one consumer and one set of files; redelivery while a launch runs; a crash between any two writes; calls that fail; the consumer set back | each message costs at most `max_attempts` launches, never two at once, none once it is finished; none is acked unfinished; each is settled in the end |
| team sessions, `ta-daemon/team_session.rs`, `ta-cli team_session.rs` | `state.json`, signal files; a failure tracker in memory | start, pause, resume, stop, restart; discover, cycle, suspend; a launch's finding written back | several tasks read the state, keep it for an hour and write it back whole, in place and without a lock | a pause holds, a stop ends the rotation, only failures in a row suspend, no command is lost |
| goal run and draft status, `ta-goal`, `ta-changeset` | JSON file per goal and per draft | the transition graph; review, approve, deny, supersede, close | gateway, CLI and watchdog write the same file | a draft's status and its goal's state agree |
| daemon self-update, `ta-lifecycle`, `ta-daemon/self_update.rs`, `ta-cli daemon.rs` | the restart guard on disk; the daemon's process and build | look for work, compare builds, record the attempt, hand over to a helper; drain, stop, await the exit, start | work begun after the last look; a helper next to one started by hand; a restart that brings up another build; a broken build; dying helpers | restarts are capped, launches that were seen are not cut, a daemon is left running, updates settle |
| governed paths, `ta-governed-paths` | content-addressed objects and a journal | put, checkpoint, restore, collect | crash between object and journal | a journaled object exists |
| other stores (the whiteboard's claims and leases, audit chain, workflow, sessions, memory, events) | one file or log each | see `PROJECT.json` | concurrent appenders | candidates for later modules |
| policy, runtimes, credentials, plugins, templates, parsing | none or pure I/O | | | not modelled |

How they interact: `ta draft apply` first recovers interrupted applies, takes the
apply lock, journals priors and the actions, copies files, commits, moves the
goal (`ta-goal`) and then the draft package (`ta-changeset`) to Applied, and
hands the actions to the queue; every daemon of the project recovers journals
and in-flight queue entries as it starts and then makes a pass over the queue
every five seconds. The intake funnel produces goals. A team session is a supervisor
task that rotates through stages, one goal-run at a time, and the wake listeners of its
roles, which launch a goal-run for a message; both sides share the session's state file,
and listeners of the same role share a consumer and its files. `ta-lifecycle` restarts daemons, which is where the crash and start actions below
come from in practice; the launches it must not cut are those of the listeners.
`PROJECT.json` lists every component with its sources and status, and every
hazard with its line and the properties that would catch it.

## The modules

`OutsideActions` is the abstract promise about outside actions: an action waits,
is in flight, is before a person or is closed; it goes out only while it is in
flight, and a second time only after a person has asked for it again.

`ActionQueue` models `queue.rs` and the worker. `state`, `note`, `attempts`,
`arrival`, `saga` are what replaying the journal yields per key
(queue.rs:344-470); `pc`, `todo`, `hand`, `try`, `outcome` are a worker's local
state. Actions: `Enqueue` and `EnqueueTorn` (enqueue_batch, one append, possibly
cut short), `Start` (recover_in_flight), `StartUnrecovered` (recovery failed and
was only logged), `BeginPass`/`Consider`/`EndPass` (run_once: a snapshot, the
ordering rule and the irrecoverable-last rule on a FRESH snapshot per candidate,
and the rest of the work list stale), `Claim`/`ClaimSkips`/`ClaimBlocked`
/`ClaimFails` (claim under the lock, with the policy's verdict as a choice),
`Execute` (the connector answers anything, and the action arrived or not as that
answer allows), `Record`/`RecordFails` (the outcome, which the code appends without
reading the entry again), `Crash`, `BackoffElapses`, `Resolve` (a person's three
answers) and `RequestUndo`. `delivered` and `resends` are history variables. Every
read-modify-append is one step because the code holds the queue lock for it.

What the code holds an irrecoverable action for is that its mates are *done*, and
`done` is also what a person's `--drop` makes of an action that never went out. So
`IrrecoverableLast` says that each mate has really gone out (`WentOut`: done and
delivered) or was dropped (`LetGo`), and it exempts mates that are irrecoverable
themselves, which go in declared order. The manual promises more, "only after every other
action of the same draft has succeeded" (USAGE.md:8538): `IrrecoverableAfterSuccess`, which
`aq_dropped_mate` shows violated without any fault.

`ApplyJournal` models the apply of one draft and its recovery, one action per
write to disk. `file`, `head`, `goal`, `status`, `queued` are the project as it
would survive a crash; `dir`, `log`, `backup` the journal as `read_state` sees it;
`lock` the apply lock, which names a live process, a dead one or nobody; `pc`,
`left`, `hand`, `snap`, `read`, `failed` a process's memory. A plain `fs::copy` or
`fs::write` is two steps with a torn file in between; a write to a temporary file
followed by a rename is one. `Crash` may happen anywhere. The apply is `CheckLock`
`WriteLock` `Load` `MakeDir` `Begin` `RecordPrior` `PriorsDone` `Copy` `Copied`
`Verified` `Commit` `Resave` `LogCommit` `MarkGoal` `MarkApplied` `Enqueue` `Sweep`;
recovery is `Scan` `Check` `Decide` `Forward` or `Uncommit` `Restore` `Restored`, and
`Sweep`.

When a step fails the guard rolls back, in three parts. `Undo` writes the snapshots back,
and a write that fails is warned of and passed over. `Checkout` is `git checkout HEAD` of
every file that then differs from HEAD (draft.rs:6558, 6567): `Undone` takes the list,
`Strays`, and git may fail at any point of it, which is a warning too. `Abandon` restores
everything once more from the journal, and closes it. `AtHead` is what git has: the apply's
own commit, or what was there before it, and for the paths in `dirty`, which had edits that
were never committed, neither of the two. So for such a path the checkout throws away what
`Undo` has just put back, and it is the journal that brings it back. The guard exists
before the journal is attached to it: `Fail`, a journal that is not complete
(`PriorsDone`) and a staging that is gone (`StopEarly` while priors are saved) end in a
rollback with all three parts; a `Begin` that fails and a `StopEarly` before it (the rules
gate, the state directory) end in the checkout alone (`Discarded`).

It covers the commit made on the current branch and not pushed. Left out: the
switch to a feature branch and back, pushed commits (which recovery does not
undo), the `Applied` record (written, and read by nobody), and more than one draft.
Two simplifications: git knows only paths that were there before the apply
(`Tracked \subseteq Existed`), and the checkout of a rollback is shown on the draft's own
paths; a file that is not in the draft but has uncommitted edits is in no journal, so its
edits go whenever an apply rolls back. Backups are named after their path instead of a
number.

`RequestLife` is the abstract promise about a task request: it waits, is held by one
consumer, may come back, is drafted or closed; it is handed out at most `MaxClaims`
times, never while it is held, and nothing drafted is handed out again.

`TaskIntake` models the store of `ta-task-intake`. The ledger is represented by what
`Snapshot::load` (store.rs:491-610) folds it into per request: `state`, `claims`,
`asked`; the bodies by `maker`, `born`, `inQueue`, `inBatch`, where a queue file that
is renamed adds its records to `inBatch`. A request is `Tracked` when the ledger or a
file knows it, and waits when the ledger does not know it yet. One flock serialises
the operations, so `op` names the one that runs and what it has left to do, and each
append is a step of its own: `Admit` `Enter` (enqueue; `FoldIn` when an identical
request is live), `StartRecovery` `Heal` `Expire` `CopyBack` `Requeue` `EndRecovery`
(recover, and the first half of drain), `Rename` `Claim` `PutBack` `HandOver` (the
second half), `Acknowledge` `Note`. `Abort` ends an operation after any of them: the
process died, or an append failed; both leave on disk what was written. `Age` and
`LeaseLapses` are the clock, which an operation reads once; `told` is a history
variable.

Recovery lists the requests it has work on when it starts; in the code it walks a
snapshot taken then, and requests do not influence one another, so the order is left
open. Expiry of a request whose body is in no file is absent: `NeverLost`, which is
proved, says that there is none. Left out: the cap per role and hour (a refusal changes
nothing), several projects in one store, the audit log, damaged lines, readers without
the lock, and drains that ask for no records.

`WakePromise` is the abstract promise about a message that wakes a role: it is open, is
being run, or is closed; it is run at most `MaxAttempts` times, by one launch at a time,
and never again once it is closed.

`WakeRetry` models the listeners that share a role. `server` is the consumer's view of
each message (to be delivered, delivered with its ack wait running, handed back with a
delay, acked, below the consumer's start); `handle` the deliveries a transport keeps in
memory by sequence number (nats_transport.rs:387); `att`, `fin`, `outbox` the files of
attempts, of finished messages and of reports still to send; `pc`, `job`, `held`, `todo`
the listeners' tasks; `swept` the keys claimed for the startup sweep. The instants of an
attempts record are abstracted to what is asked of them: `wait`, `due`, `dead`. Actions:
`Send`; `Start` and `Sweep` (claim_recovery and recover_pending: the consumer is deleted
and made anew at the oldest recorded message); `Flush`; `Read`; the decision under the
lock of the attempts file, `SkipFinished` `DecideDead` `DecideBackoff` `HoldLaunch`
`BeginLaunch`, each one step with the record it writes; `LaunchDone` `LaunchFails`
`FailPut` `Record` `DeadLine` `DeadReport` `DeadRecord` `Ack` `AckFails` `Remove` `Nak`,
one per write or call; `Due` `DelayEnds` `AckWaitEnds`, the clock; `Crash`. `launches`,
`lines`, `told` are history variables. Left out: reconnects, settings edited while the
daemon runs, the 1000 entries the file of finished messages is cut to, the hourly cap
beyond the choice `HoldLaunch`.

`TeamSession` models one session: `file` is state.json, which may also be absent, empty
(opened for writing and not yet filled) or `Mixed` (a longer write under a shorter one);
`signals` the signal files; `at`, `mem`, `then`, `fails`, `tally` the supervisor's cycle,
the state it loaded and its failure tracker; `lat`, `lmem`, `left` each listener's place,
the state its launch loaded and the streams left in its round. Actions: `StartOpens`
`StartFills` `Signal` (the commands), `Discover`, the steps of run_one_cycle in their order,
`Load` `SeeStop` `Stops` `SeeRestart` `SeePause` `SeeResume` `Rotate` `RunSucceeds`
`RunFails` `Won` `Lost` `Report`, with `SaveOpens` `SaveFills` for every write of the state;
`Spawn` `Gate` `Quiet` `Wake` `WakeEnds` `WakeOpens` `WakeFills` of a listener; `Crash`. A
cycle that fails drops its tracker, as the code does. `stopped`, `undone`, `streak`, `late`
are history variables. Left out: budgets, deletion, the contents of findings, and the
graceful shutdown: on a signal the sleeping supervisors return, while a blocking cycle goes
on to its end beside the daemon that is shutting down, which a crash does not cover.

`Lifecycle` models the self-update: `daemon`, `running` are the process and its build,
`installed` the build the check takes for installed and `found` the one a helper finds and
starts; `target`, `attempts`, `cooled` the guard file; `check` the periodic check; `work`
what is under way, of three kinds (wake launches, which run in the daemon and are
counted by every snapshot; agent sessions, counted by the check alone; goals and applies,
which run in processes of their own); `helper` the detached `ta daemon restart`
processes. Actions: `Install` `Begin` `End` `Cool` around it; `Look`, `Decide`
(`UpToDate`, `Waits` or `Records`), `Spawn` of the check; `Manual` `Drain` `Stop`
`AwaitExit` `Start` of a helper; `DaemonExits`, `Revive`, `Die`, `Crash`. `began`, `row`,
`excused` are history variables.

Two look-ups keep `installed` and `found` apart. The check asks the `ta-daemon` beside the
daemon's own file (self_update.rs:264); the helper is the `ta` beside the daemon or, if
there is none, one of the PATH (web.rs:1023), and starts the `ta-daemon` beside itself
(version_guard.rs:122). An install may reach one of the two places only. So a restart may
bring up a build that the next check finds as stale as the one before, any number of times,
which is what the guard is for (guard.rs:3); and a build that exits at once leaves the
daemon down until `Revive`: a person, or the launch unit, starts it again with the guard
file as it was. `Runs` is how a daemon comes up in either case: its own look-up starts
beside its own file, so `installed` may change with it. `row` counts the restarts handed
over for the installed build since a check last found it running or another build became
the installed one; a restart by itself does not reset it.

Left out: ownership of the port, `--force`, two starts that race over the pid file, and on
Windows everything but the mode constant.

`ActionQueueProofs`, `OneDaemonProofs`, `ApplyJournalProofs`, `TaskIntakeProofs`,
`WakeRetryProofs`, `TeamSessionProofs` and `LifecycleProofs` hold the theorems. `MC*`
modules hold the instances. Operators marked as mutations are bugs the code does not have; nothing in
the specifications uses them. With one of them in place of the operator below it, the
property it is meant for must fail.

## Runs

| run | instance | result |
|---|---|---|
| `aq_core` | one daemon, one draft with an irrecoverable action declared before a compensable one, either posture; two faults of {crash, lost record, failed startup recovery}; two attempts, two resends | passes: types, `NeverTwice`, `IrrecoverableLast`, `SagaOrder`, `ReasonHonest`, `Progress` and the refinement `KeepsItsPromise` |
| `aq_two_daemons` | two daemons, one compensable action and its undo, any fault, a careless person | passes: `AtMostOncePerLicence`, `AttemptsBounded` |
| `aq_second_daemon` | two daemons, no fault, a careful person | `NeverTwice` is violated |
| `aj_core` | one apply process, one daemon; a file edited, one created, one deleted; two paths tracked by git; three crashes with a failing enqueue and a failing status write; or two crashes with uncommitted edits and a failing write of the rollback; or a failing journal write, an early stop and a failing recovery step; or a failing status write and a failing recovery step | passes: types, `AllOrNothing`, `OriginalsKept`, `AppliedIsWhole`, `ActionsFollowStatus`, `LiveApplyUndisturbed`, `Converges` |
| `aj_rerun` | one crash | `RerunIsTheResume` is violated |
| `ti_core` | three requests, two for the same task; one goal that may make two of them; drains of one record, two claims; two operations cut short anywhere | passes: types, `NeverLost`, `OneOpenTwin`, `LeaseRespected`, `Settles` and the refinement `LivesItsLife` |
| `wr_core` | two listeners of two streams, two messages of one of them; two attempts; one crash and one failing call of {flag, ack or nak, removal of the attempt, sweep, heartbeat} | passes: types, `LaunchCap`, `OneLaunchAtATime`, `NothingDropped` and the refinement `KeepsPromise` |
| `wr_settles` | the same with one message and two failing calls, publication among them, under fairness | passes: `Settles`, `OutboxDrains` |
| `wr_passed_over` | one crash, no failing call | `NoneStranded` is violated |
| `ts_core` | a rotation of one stage, a listener of two streams; two commands, one crash, one failing call of {removal of a signal, save, context of a run}; two failures suspend; under fairness | passes: types, `PauseBites`, `SuspendsForCause`, `StopEndsRotation`, `StopIsHeeded`, `RestartIsHeeded` |
| `ts_stopped` | no failing call | `StopIsFinal` is violated |
| `lc_core` | three builds, one of them broken, one install, which the helper may find or not; one wake launch and one session; two helpers, one restart by hand; two attempts; one fault of {read, record, spawn, helper's death, crash}; under fairness | passes: types, `RestartCap`, `DownForCause`, `CutsOnlyTheUnseen`, `Settles` |

Each violation is a finding in `PROJECT.json`, with the sentence of the repository
it contradicts. The properties about what stays final are part of the refinements: that
what was sent, confirmed or dropped is never reopened by a late record is
`KeepsItsPromise`, that a finished message stays quiet is `KeepsPromise`.

Ten further instances isolate one cause each and end in a violation of the property
named. Run one with `tlc -config <name>.cfg <module>`.

| instance | module | violated | what the trace shows, and what the repository says |
|---|---|---|---|
| `aq_torn_batch` | `MCActionQueue` | `IrrecoverableLast` | a batch cut short leaves its complete lines (queue.rs:591); an irrecoverable action among them is sent before the compensable ones that were lost are enqueued again. queue.rs:20: "IRRECOVERABLE LAST. An irrecoverable action is held until every other action of the same draft is done." |
| `aq_dropped_mate` | `MCActionQueue` | `IrrecoverableAfterSuccess` | a mate that a person drops is done without having gone out, and the irrecoverable action goes (queue.rs:984). USAGE.md:8538: "Irrecoverable actions run last, and only after every other action of the same draft has succeeded." |
| `aj_local_commit` | `MCApplyJournal` | `CommitLandsWithStatus` | the commit is journaled only after git made it and the package was saved again (draft.rs:9851); a crash in between rolls the files back and leaves HEAD at the commit. USAGE.md:8536: "The file changes, the local commit and the Applied status land together." |
| `aj_kept_journal` | `MCApplyJournal` | `OriginalsKept` | when a rollback cannot finish, the apply that ran it goes on, replaces the open journal (apply_journal.rs:251) and saves half-applied files as priors. apply_journal.rs:72: "The journal is kept so nothing is lost" |
| `aj_racing_recovery` | `MCApplyJournal` | `LiveApplyUndisturbed` | a daemon that starts between the directory and the Begin record of a live apply discards its journal before it looks at the lock (apply_journal.rs:609). apply_journal.rs:544: "Recovery must never touch a journal that is still in use." |
| `aj_torn_status` | `MCApplyJournal` | `RecoveryCanDecide` | the package is saved again by a plain write while the apply is undecided (draft.rs:9735); a crash there leaves nothing recovery can read. draft.rs:11651: "a crash must leave the old file or the new one, never a torn one that recovery cannot read" |
| `aj_unsaved_edits` | `MCApplyJournal` | `NothingChanged` | a file of the draft has edits that were never committed, and the journal cannot be begun; the guard rolls back all the same, and its `git checkout HEAD` throws the edits away (draft.rs:6558). draft.rs:7819: "If the journal cannot be written the apply stops here, with nothing changed." |
| `ti_told` | `MCTaskIntake` | `TheToldCanAsk` | enqueue is cut short between the queue line and its event; another goal's `duplicate` event comes first and is passed over at every load (store.rs:546). task-intake-store.md:34: "so that goal can read the status too" |
| `wr_borrowed_handle` | `MCWakeRetry` | `NothingDropped` | two streams with the same sequence number: deliveries are kept by the number alone (nats_transport.rs:387), so the ack for one message acks the other, which is lost |
| `wr_two_lines` | `MCWakeRetry` | `OneDeadLetter` | a sibling finds the attempts used up while the last launch still runs and dead-letters the message; the launch fails and dead-letters it again. wake_retry.rs:1222: "`write_record` is true for exactly one caller per message" |

Bounds. Two actions in one draft are the fewest for which the two ordering rules
mean anything; drafts do not influence one another, so one is enough. Two attempts
give the first, a retry and the exhausted case; two resends let a second answer
meet the record of the first; two faults let a fault hit what recovers from the
first. Two daemons are the fewest that race. In `ApplyJournal` three files cover the three
kinds of change; three crashes let the apply, its recovery and the recovery of
that die; every name of a bound (`MaxAttempts`, `MaxResends`, `MaxFaults`,
`Budgets`) is a constant. `MaxAttempts` is the code's own limit, not a bound.
In `TaskIntake` three requests of which two may be made give every behaviour either a
pair of twins or a pair of strangers; a drain of one record leaves the other to be
put back; two claims give a first, a second and the exhausted case; two operations
cut short let what recovers from the first be cut short too. `Answers` holds an outcome
that keeps a request open and one that only a draft may have; rejection and expiry are
accepted from more states, and the proofs hold for them too.
In `WakeRetry` two listeners are the fewest that share a consumer, and one of them watches
a second stream, so that the sweep of a key is claimed by one and met by the other; two
messages are the fewest of which one can be passed over or delivered out of turn; two
attempts give a first and a last. In `TeamSession` one stage and one listener are enough
for every pair of tasks that share the file, since stages differ only in their number and
listeners meet the session only through the file; two streams give a launch within a round
after the gate was asked; two failures make a row; two commands may meet. In `Lifecycle`
one install gives a stale daemon, and with the build that a helper finds left open, before
and after it, restarts that converge, that bring up the old build or a third one, and that
exit at once; a daemon that comes up beside another build is stale or up to date anew. Two
helpers are the fewest that meet. Two attempts (the code's default is three) give the
first, one after a backoff and the exhausted case, and `row` reaches the cap through
restarts that did happen and did not converge.

Assumptions the passing runs make, and what happens without them:

* `aq_core` has one daemon and a person who checks the destination before
  answering. `aq_second_daemon` drops the first and `NeverTwice` falls.
* `aq_core` has no batch cut short; `aq_torn_batch` adds one. The theorems assume what the
  run has, each only what it needs (`OneDaemon`, `CarefulPerson`, `WholeBatches`). A person
who drops a mate is part of the run: `IrrecoverableLast` allows for it.
* `wr_core` leaves out the fault `"finish"`: when the record of a finished message cannot
  be written the code logs that and acks all the same (wake_retry.rs:663 expects it), so a
  redelivery would be launched again. The theorems assume the same (`RecordsLand`).
* `wr_core` has messages of one stream; `wr_borrowed_handle` has two streams whose numbers
  meet, as those of any two streams do, and `NothingDropped` falls. The theorem
  `AckFollowsRecord` assumes nothing of streams and numbers.
* The lease of an attempt outlives its launch. The code takes a lease of one hour; the
  default launch_timeout is that same hour, and `validate_timings` allows more, so a launch
  killed at its limit ends only just in time, and with a longer limit two launches of a
  message may overlap. It is an assumption after a crash too: a launch whose daemon died has
  nobody left to kill it (wake_listener.rs:888-942), while the model ends it with the
  daemon, so `OneLaunchAtATime` and `KeepsPromise` speak of launches that do not outlive
  their daemon by more than their lease.
* `ts_core` leaves out the fault `"report"`: when a cycle that has stopped its session
  cannot write its status file it fails, its supervisor sleeps and loads the session again,
  which is Stopped but is not asked for that, and the rotation goes on. The theorem
  `StopEndsTheRotation` assumes the same (`ReportsLand`).
* `StopIsHeeded` and `RestartIsHeeded` speak of a daemon that lives on after the last
  failing call: the signal is removed before the state that follows from it is written, so
  a crash or a failing save in between loses the command.
* `lc_core` leaves out two faults: `"torn"`, a write of the guard cut short, which the next
  check reads as no attempts (guard.rs:65), and `"poll"`, a drain poll that fails, which
  counts as idle (daemon.rs:977). `RestartCap` does not hold with the first and
  `CutsOnlyTheUnseen` not with the second, and the theorems assume the same.
* `CutsOnlyTheUnseen` is what the code gives. drain.rs:320 says more, "Never interrupts
  running work"; but the helper's last look, the shutdown and the begin of a launch are not
  one step, and a launch begun after the look is cut.
* `aj_core` has `CalmRecovery`: while one process recovers, the others stand
  still. apply_journal.rs:581 asks for this and nothing enforces it;
  `aj_racing_recovery` drops it. With it dropped and a crash, `AllOrNothing`,
  `OriginalsKept`, `AppliedIsWhole` and `ActionsFollowStatus` fail as well.
* `aj_core` has one apply process: `ApplyLock::acquire` looks at the lock and then
  writes it (both steps are in the model), so two processes can both go on and
  each replaces the other's journal.
* What an apply overwrote is put back by the guard or from the journal, and `aj_core` does
  not fail both in one behaviour (`CalmFaults`): either no process dies, the guard's writes
  succeed, no tracked path has uncommitted edits and one status write fails at most
  (`RollsBack`), or no journal write and no recovery step fails and no apply stops before it
  copies (`Journals`). With one crash and one failing journal write a file is torn that was
  never saved (draft.rs:6535); one crash and one failing recovery step are
  `aj_kept_journal`; uncommitted edits and one failing journal write, or one early stop, are
  `aj_unsaved_edits`; one failing recovery step and two failing status writes leave the
  files half applied and a later apply free to begin over them. In each of these
  `AllOrNothing` and `OriginalsKept` fail, and `AppliedIsWhole` and
  `ActionsFollowStatus` still hold. The theorems about the first two assume `CalmFaults`,
  those about the other two and about `LiveApplyUndisturbed` do not. A crash inside the
  re-save of the package is `aj_torn_status`.
* `lc_core`'s `Settles` speaks of behaviours in which, in the end, a backoff outlives the
  helper before it (`HelpersEndFirst`): the backoff is five minutes or more
  (`DEFAULT_BASE_BACKOFF_SECS`), a helper gives up after half a minute of draining and five
  seconds of waiting. Otherwise two helpers might overlap again and again: the daemon that
  is revived between them is found up to date, which clears the guard, and the second helper
  replaces it by the build that it finds.

Fairness. `ActionQueue`: daemons are started again, their loop ticks
(`tokio::time::interval`, action_worker.rs:137-199), each candidate of a pass is
taken in turn, and backoffs elapse; nothing is assumed of people, policy or
connectors. `ApplyJournal`: a process that runs keeps running until it dies,
and TA is used again (the documentation's own condition, "the next apply or daemon
start"). The fault budgets bound how often either can be interrupted. `TaskIntake`:
an operation that runs goes on until it ends or is cut short; drains are tried again
and again and now and then get the lock (strong fairness: the lock is polled for ten
seconds, fs.rs:15, and given to nobody in particular); leases run out however many
operations come in between, because time passes. Consumers need not answer, and
requests need not grow old. `WakeRetry`: a task that can go on does (weak fairness of a
listener's poll, decision and processing; launches end because they are killed at their
time limit), backoffs, delays and ack waits end, every listener comes to every key again
and again and the launches of an hour do not hold a message for ever (strong fairness of
`Read` and `BeginLaunch`, because siblings and redeliveries disable them in between).
Nothing is assumed of senders. `TeamSession`: the blocking thread of a cycle goes on, a
goal-run ends (nothing in the code bounds it; a goal-run that hangs keeps its session from
hearing a stop), a write that was opened is filled, and the poll of a sleeping supervisor
does not meet another task's write every time (strong fairness of `Load`). Commands,
messages and launches need not come. `Lifecycle`: the check's timer fires and its steps go
on, the backoff ends, helpers go on until they end or die. Work may last for ever: `Settles`
says what follows once it has ended.

The runs of these three modules set `CHECK_DEADLOCK FALSE`: with the bounds on commands,
crashes, installs and restarts used up, a system in which every message is settled, a
session that has stopped, or a daemon that is down for a cause, has nothing left to do.

## What is proved

`ActionQueueProofs`, for any finite set of actions and workers, any assignment of
drafts, places and classes, any retry limit, any faults, and any person, from
`QueueAssumption` only:

* `TypeCorrect`: `Spec => []TypeOK`. `TypeOK` alone is not inductive: a step that
  sends or records what a worker holds needs that it holds something, so the
  invariant proved is `TypeInv == TypeOK /\ HandHeld`.
* `AtMostOnce`: `Spec => []AtMostOncePerLicence`. The inductive invariant counts
  licences: an entry that is queued or retrying holds one unspent; each worker that
  is with the connector, or about to record that it must be retried, carries one;
  each delivery has spent one. `Covered(k)`: deliveries plus carried plus unspent
  never exceed one plus the number of resends. It is needed because the code records
  without looking at the entry again, so two daemons may hold the same action at
  once and the state of the entry alone does not bound what they may still do.
* `RetryLimit`: `Spec => []AttemptsBounded`, from an invariant that also bounds
  the attempt number in each worker's hand.

`OneDaemonProofs`, for any actions, drafts, places, classes and retry limit, with one
daemon (`OneDaemon`: any two workers are the same). `aq_second_daemon` shows why that is
assumed: two daemons send an action twice.

* `RunsOnce`, `ReasonsHold`: `NeverTwice` and `ReasonHonest`, for a person who looks
  before answering (`CarefulPerson`), and any faults, cut batches included. Neither is
  inductive: the state of an entry says nothing of what its worker is doing. `OnceInv` adds
  that the entry in a sending worker's hand is in flight, that it did not go out before
  the call, and that the outcome held after the call is what happened (`SendsOnce`), and
  that what waits, or is before a person for any reason but `unknown`, did not go out
  (`WaitsUnsent`).
* `LivesAsPromised`: `ActionQueue` implements `OutsideActions`. Every step walks each action
  along the abstract life by one step or a stutter; the refinement maps all actions at
  once, so a batch and a recovery are steps of several.
* `StepsInOrder`, `IrrecoverableGoesLast`: `SagaOrder` and `IrrecoverableLast`, if no batch
  is cut short (`WholeBatches`, see `aq_torn_batch`). The first holds whatever a person
  answers, if no two actions of a draft have the same place (`PlacesDiffer`; the place is
  an index into the draft); the second needs the careful person, since one who confirms
  what never arrived makes a mate `done` that did not go out (`DoneForReal`). The invariant, `DraftInv`, carries the worker's look at the
  other entries to the moment of the call: the entries of a draft appear together
  (`Together`), the work list has only known ones (`TakenAreKnown`), an entry that is done
  stays done (`DoneStays`), and so what was in order when the candidate was taken is in
  order when it is sent (`InOrder`).

`ApplyJournalProofs`, for any files (edited, created and deleted), any number of daemons,
and any budgets:

* `TypeCorrect`: `TypeOK`, with no assumption but `JournalAssumption`: the types, and that a
  path that is half written belongs to a loop that is still writing it (`InHand`). Its
  invariant also says that a process that only recovers is in no place of an apply
  (`DaemonsRecover`), since a step of an apply writes the lock in its own name.
* `AppliedStaysWhole`, `ActionsGoWithStatus`, `LiveApplyIsUndisturbed`: `AppliedIsWhole`,
  `ActionsFollowStatus` and `LiveApplyUndisturbed`, with one apply process (`OneApplier`)
  and a recovery that nobody moves next to (`CalmRecovery`), whatever fails and however
  often. `SteadyInv` says that the status is the decision (`Decided`), and for each
  process what it may take as decided at its place (`Stage`): who is about to restore or to
  overwrite does so for a draft that is not Applied, who is about to queue the actions for
  one that is. It is needed because `recover_one` reads the status once and then acts for
  several steps; that the lock is held in exactly the places of an apply (`LockRight`) and
  one process at most recovers (`Alone`) is what keeps the reading true.
* `AllOrNothingHolds`, `OriginalsAreKept`: `AllOrNothing` and `OriginalsKept`, with
  `CalmFaults` besides. `ApplyInv` says that, unless the apply's own guard is writing its
  snapshots back, what was overwritten can be had from the journal
  (`Saved`, with the backups `Exact` for the priors recorded), that files left overwritten
  have a reason that keeps a second apply from starting over them (`LeftForCause`), that a
  commit is only found by a rollback where something other than the rollback went wrong
  (`CommitForCause`; it is what makes the git checkout restore the state before the apply
  and not the apply's own), that edits never committed are counted (`EditsCounted`), and
  what is known at each place of a recovery (`Recovering`) and of an apply (`Applying`):
  which files are back already, which priors are on disk, that no recovery meets a journal
  about to be begun (`Unseen`), and that the journal is closed only when nothing depends on
  it (`Settled`). Each of the three parts of a rollback is argued in both modes of
  `CalmFaults`: where the guard is relied on, nothing is dirty and the checkout finds
  nothing to do; where the journal is, the checkout may overwrite what it likes, because
  every path is in the journal and `Abandon` restores it. The two properties say nothing of a state in
  which a journal is open or of who wrote the backups, so neither is inductive.

`TaskIntakeProofs`, for any finite sets of requests and goals, any dedupe keys, any
limits, and any number of operations cut short, from `IntakeAssumption` only:

* `TypeCorrect`, `NothingLost`, `LeasesHold`: `TypeOK`, `NeverLost` and
  `LeaseRespected`, from one invariant, `StoreInv`. None of the three is inductive: that
  a claim keeps its body needs that what a drain is about to claim is already in a batch
  file (`OpInv`), that the claims stay within the limit needs that whatever waits has
  one left (`ClaimLeft`), and what recovery enters in the ledger must have been asked
  for by somebody (`Made`).
* `TwinsExclude`: `OneOpenTwin`. A request past its TTL whose claim a recovery gives
  back does not count as open, and the drain that this recovery belongs to claims it
  again, which makes it open once more. So the invariant is about `Active`, which also
  counts such a request while that drain runs; no step but an admission makes a
  request active, and admissions happen only when no operation runs, when active and
  open are the same.
* `CapHolds`: the requests that are open stay within `caps.per_project_outstanding`, by
  the same argument. The checked instance is too small for this cap to matter on its
  own, so no run states it.
* `LivesAsDesigned`: `TaskIntake` implements `RequestLife`, by `LivesItsLife`. Only a ledger
  line moves a request along its life, and each is one step of it; queue and batch files
  are stutters. `StoreInv` is needed for the line that a recovery writes for an operation
  cut short: the request it enters was asked for (`Made`), so the life begins and does not
  jump.

`WakeRetryProofs`, for any finite sets of listeners and messages, any streams and
sequence numbers, any limits, crashes and failing calls but `"finish"`, from
`WakeAssumption`, and `RecordsLand`:

* `TypeCorrect`, `LaunchesCapped`, `LaunchesExclude`: `TypeOK`, `LaunchCap` and
  `OneLaunchAtATime`, from one invariant, `WakeInv`. A launch that is under way is the
  attempt on record and its lease holds (`Leased`), so a decision for the same message
  cannot launch; one listener at most is past the decision to launch it (`Exclusive`);
  the launches of an unfinished message are the attempts on record (`Counted`); what is
  about to be acked is finished (`DoneFirst`). The types themselves need this: that a
  record counts at most `MaxAttempts` follows from the order of decision and launch.
* `FinishedIsFinal`: a finished message is never launched again and its record stays.
* `AckFollowsRecord`: a message the server was told is done with is recorded as finished,
  or a message of another stream with the same number is. It follows from the invariant that
  a delivery is kept under its own number, and says that borrowing a delivery
  (`wr_borrowed_handle`) is the only way to lose a message by an ack. Where all messages are
  of one stream, as in `wr_core`, it is `NothingDropped` (`OneStreamDropsNothing`).
* `KeepsThePromise`: `WakeRetry` implements `WakePromise`. `Launch` is `BeginLaunch`, `End`
  is `FailPut`, `Close` a record of a finished message, `Interrupt` a crash; every other
  step is a stutter, because a listener that stops running a message that is not finished
  only does so by one of these.

`TeamSessionProofs`, for any listeners, stages, streams, limits, commands, crashes and
failing calls, from `SessionAssumption` and `UnreadableAssumption`:

* `TypeCorrect`: that the stage stays within the rotation needs that a cycle that runs has
  a rotation, and that a listener that is armed has a stream left (`Armed`).
* `PauseHolds`: `PauseBites`, by the invariant `Lateness`: launches since the session became
  inactive and streams still to be read in the round never exceed `NumKeys`.
* `SuspensionHasCause`: `SuspendsForCause`. The tracker lives partly in the supervisor
  and partly in the running cycle, and is behind the failures by one while a save is on its
  way; `Honest` says by how much at each step.
* `StopEndsTheRotation`: `StopEndsRotation`, under `ReportsLand`. `Held` says who has a
  stopped state in memory and that the file says Stopped unless a listener wrote over it.

`LifecycleProofs`, for any builds, kinds of work, helpers, limits and faults, from
`LifecycleAssumption`:

* `TypeCorrect`: `TypeOK`.
* `RestartsCapped`: `RestartCap`, if no write of the guard is torn. The restarts that were
  handed over are at most the attempts on disk for that build (`Counted`), and one less
  while one is being handed over; the daemon clears the guard only when a check finds that
  it runs the build. Nothing is assumed of what a restart brings up: whatever build a helper
  starts or a person revives, the count survives, because it is on disk.
* `CutsAreUnseen`: `CutsOnlyTheUnseen`, if every poll is answered, from `Unseen`: a helper
  about to stop the daemon knows every launch that did not begin since its look.
* `DownHasCause`: `DownForCause`, from `Awaited`: a daemon that is dying has a helper that
  waits for its exit, one that is down a helper that is about to start it, or a cause.

Every safety property of the passing runs, action properties and refinements included, is
stated by a theorem, `NothingDropped` by its corollary for one stream. Only model-checked: liveness (`Progress`, `Converges`, the three
`Settles`, `OutboxDrains`, `StopIsHeeded`, `RestartIsHeeded`), since liveness under
fairness and `ENABLED` are out of the proof system's reach. The refinement theorems are
about the specifications the runs refine to, which promise safety only.

## Plan

Done: `ActionQueue` with `OutsideActions`, `ApplyJournal`, `TaskIntake` with
`RequestLife`, `WakeRetry` with `WakePromise`, `TeamSession`, `Lifecycle`. What is left, in
order of what a user would lose:

1. `QueueLock`: the stale-lock takeover of queue.rs:511-548, which `ActionQueue` takes
   as mutual exclusion: create-new, stale check, remove, retry, and the guard's drop.
2. `GoalDraft`: goal state and draft status moved by CLI, gateway and watchdog;
   `ApplyJournal`'s two status writes are its Applied edge.
3. `GovernedPaths` (content-addressed objects and a journal under crashes), the
   whiteboard's claims and leases, the workflow engine's stages and gates.
4. Readers of the task intake without the lock, who read ledger, queue and batches in turn
   while a drain moves records between them.

Composition: `ApplyJournal!Enqueue` and `!Forward` are `ActionQueue!Enqueue` of the
draft; `queued` abstracts "all members of the draft are known to the queue", which
`aq_torn_batch` shows is not atomic. `TeamSession!Wake` is one pass of a listener of
`WakeRetry` as the session sees it, and a `Launch` of `Lifecycle` is one of its launches;
`Lifecycle!Stop` is the `Crash` of the other modules. A refinement of `ApplyJournal` to an
abstract apply (before, undecided, after), in which the decision is final, is worth
stating.

Theorems left, in order: that steps of `ApplyJournal` map to steps of that abstract apply,
from `SteadyInv`; that a queue with several daemons still keeps `ReasonHonest` for actions
only one of them ever held; and with each further module its type invariant and its first
safety property.

## Not modelled

Formats, wording, rendering, command-line parsing, process launching, network and
plugin transport; policy evaluation (its verdict is a choice); the processes behind
connectors (their answer is a choice); process ids that are reused; file system
failures other than the ones named above. Components that are not modelled at all are
listed in `PROJECT.json` with the reason. The repository has about half a million lines,
most of them commands, screens, parsers, adapters and tests without state of their own
that anything else could disturb; the models stand for the part where several actors or a
crash can meet the same state, which is a small share of the lines.

One difference of detail that a property does depend on: the task intake's callers read
their clock before they wait for the lock (store.rs:667, 858), for up to ten seconds, and
`TaskIntake` reads it under the lock. An enqueue that waited while a drain came by judges
by its older reading whether a request is past its TTL, so within those ten seconds around
the TTL two identical requests may be open, and `OneOpenTwin`, in the run and as the theorem
`TwinsExclude`, does not speak of that window.

Other known differences, none of which the properties depend on:

* A session that is discovered is marked as known before it is read
  (team_session.rs:1095): one whose file is being written at that moment is passed over
  until the daemon starts again. `Discover` does that.
* Signals of resume and restart that nothing consumes stay on disk and take effect later.
  Two sessions that share a role and a stream share its consumer; `WakeRetry` has one
  session. Of listeners of one session with the same role and streams only one is started
  (wake_listener.rs:159).
* A daemon that takes longer than five seconds to end after its signal leaves none behind:
  the helper gives up and the daemon still goes (`excused` in `Lifecycle`). Of two starts
  that race, the loser may remove the winner's pid file.
* Hazards that were considered and are not in the list, because nothing in the code depends
  on them or an assumption above covers them: an id of a dead apply that is used by another
  process, the hourly cap of the intake funnel, a work list of the queue that is stale (each
  candidate is looked at afresh).
