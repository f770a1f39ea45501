# agentrunner: specifications, model checking and proofs

agentrunner hosts LLM agents as durable sessions. A session is an event-sourced
state machine: everything that happens to it is a fact in an append-only journal,
its state is the fold of the journal, and after any crash the process that hosts
it next reads the journal back and goes on. A browser console watches and steers
sessions through calls that may be slow, lost or answered out of order. This
directory holds TLA+ models of the durable core and of the console's state, the
TLC configurations that check them, and machine-checked proofs about the durable core:
journal, mailbox, delivery and hosting, tool calls, series.

    tlasany M.tla                              parse a module
    tlc -workers 2 -config MCx.cfg MCx         check a configuration
    tlapm EventStoreProof.tla                  check the proofs of a component

Source lines are relative to `src/internal/` for Go files and to
`src/webui/frontend/src/` for TypeScript files.

## 1. The system

      browser console (store, pages, composer)        CLI
             |  polls, event stream, clicks            |  requests,
             v                                         |  retried by command id
        web UI backend (wraps the CLI)                 |
             |                                         |
        +----v-----------------------------------------v---- daemon process +
        |  handlers --commandMu--> inbox.jsonl (mailbox, fsync, then ack)   |
        |      |                                                            |
        |      v                     hosting registry (runs, stopping)      |
        |   command hub --pump--> channels --> loop (one goroutine)         |
        |                                        |  appends, folds          |
        |   tree router --peer channel-----------^  v                       |
        |                               events.jsonl + events.idx (flock)   |
        |   driver (series) -- own journal, one child session an iteration  |
        +-------------------------------------------------------------------+

A **session directory** holds two files that survive a crash: the journal
(`events.jsonl`, written by whoever hosts the session) and the mailbox
(`inbox.jsonl`, written by whoever accepts a command). Everything else is memory
or can be rebuilt. Facts go one way: a command is accepted into the mailbox, is
carried over channels to the loop, and is settled by a fact in the journal which
names its sequence or its id. What the journal has not settled is replayed.

The **console** keeps no truth of its own. It folds the journal a second time, in
TypeScript, into the thread a reader sees; it lists sessions from pages that
shift while it reads them; it shows clicks before they are served and has to take
them back when they fail; and it remembers a few things (drafts, request ids,
unread marks, postures) in the browser that the server does not know.

### 1.1 Inventory

| Component (source) | State it keeps | Operations | What makes it correct |
|---|---|---|---|
| Journal (`store/eventstore.go`) | log, index, flock, pid file; a handle with seq, offset, rolling hash | open with repair, append, close, probe for a live writer | an acknowledged envelope is never lost or changed; the file always folds; cursors are true; at most one writer, always visible |
| Mailbox (`store/inbox.go`) | lines of commands; a cached index of ids, receipts, draft claims per process | append with dedup, read, seed a fork's watermark | an accepted command is found by every later replay until it is settled; ids and drafts take effect once |
| Command delivery (`daemon/daemon.go`, `agent/router.go`) | hub queue, seven channels, host of the session | accept, pump, post to a peer, replay pending, re-host | nothing accepted is forgotten between ack and journal |
| Conversation inputs (`agent/conversation.go`) | deferred inputs, park, high-water mark `ConsumedInputSeq` | idle, steer, veto, revoke, promote, ask and answer, resume's replay | effectively once, withdrawals honoured, all settled in the end |
| Tool calls (`agent/loop.go`, `activity.go`, `approval.go`) | effects, approvals, activities, timers, reservations | adjudicate, ask, execute, time out, interrupt, settle | nothing with side effects runs twice, a refusal holds, every call is answered |
| Background handles (`agent/handle.go`, `killface.go`, `recovery.go`) | live handles, outcomes | hand off, complete, drain, settle after a crash | every handle's outcome is told exactly once |
| Fold (`state/state.go`) | the state as a function of the journal | `Apply` per fact | replays give the same state |
| Snapshots (`store/snapshot.go`, `agent/loop.go`) | newest snapshots with cursors | save, choose on resume, fold the tail | snapshot and tail equal the full fold |
| Goals (`agent/goal.go`) | goal, checks, owed follow-up | attach, judge, pause, resume, exhaust, recover | one verdict per boundary, its outcome follows, a goal goes on to an end |
| Session schedules (`agent/schedule.go`) | the schedule in the fold, its pending timer | attach, pause, resume, cancel, a due tick, the sweeps | one wake per slot, none while paused, a due slot is served |
| Series (`driver/`) | series fold, runner memory (slot, pace, attempt), child journals | start, resume, tick, run child, judge, decide, pause, resume, cancel | slots and spend are accounted for over restarts; ends and pauses hold; cadence survives |
| Agent tree (`agent/spawn.go`, `childrun.go`, `revive.go`, `sendmsg.go`) | children in the parent's fold, budget reservations | spawn, message, settle, close, revive | a child is settled once, its budget is returned once |
| Hosting (`daemon/daemon.go`, `hooks.go`, `timers.go`) | runs, stopping, failed marks, boot sweeps | host, tear down, sweep, shut down | one host per session; whatever should run is hosted |
| Approval service (`daemon/approval.go`) | pending decisions | deliver with retries | a decision reaches the loop that asked |
| Permission pipeline (`pipeline/`) | rules, mode, budget | evaluate gates in order, reserve, settle | deny wins, reservations balance |
| Forks (`fork/`, `messagefork/`) | copy of a tree, seeded watermark | fork, rewind | the copy starts where the original stood |
| Thread (`timeline.ts`) | items, maps by activity, call and message | fold an event, then fold work and runs | every fact is one row, one fold a turn, one verdict a failure |
| Session page (`useSessionDataController.ts`) | events, pending rows, queue, approvals, forks | poll, inspect, send, answer, decide, continue | a sent text stays visible, a click acts once, the page catches up |
| Goal bar (`timeline.ts`, `SessionFeature.tsx`) | phase, clock, pending control, told receipts | derive, click, poll, give up | the clock is the time pursued, a late control is announced once |
| Session list (`store.ts`) | rows, unread marks, seen turns | refresh, page, merge, select, reload | an unseen turn is marked, every session is listed in the end |
| Early changes (`store.ts`) | title overlay, project marks | rename, fold, pin, poll | what is shown agrees with the server in the end |
| Navigation (`store.ts`, `AppRuntime.tsx`) | four route fields, hash, history | select, open, archive, back, forward | the address names what is on the screen |
| Sidebar (`viewModels.ts`, `Sidebar.tsx`) | order, groups, folds, pins | build the rail, fold, expand, hide, drag | every session has one place, newest first, the open one its row |
| Composer (`ComposerController.tsx`) | text, project, branches, place, draft, posture | choose, check out, send, seed, retry, switch | a send uses what was chosen, typed text stays until it is sent, the pill is the posture |
| Scheduled page (`useScheduledController.ts`) | list, detail, revision, draft, controls | load, control, edit, save | the panel comes to show the schedule, a save is an informed one |
| Review (`ChangesOutcome.tsx`, `DiffView.tsx`, `SupervisionPanel.tsx`, `diffSummary.ts`) | card, rail, panel, scope, rows, bands | read, bump, commit, undo, reveal | a quiet screen is true, the panel shows its scope, rows are the file |
| Viewport (`useTimelineScrollController.ts`) | stick, place, unseen | layout, gesture, scroll, jump, leave, return | a reader is not moved, a follower stays at the tail |
| Workspace snapshots, kernel, compaction, tools, providers, MCP, CLI, views | - | - | outside the models, see section 8 |

### 1.2 What is hard here

Nearly every bug this code can have is of one of these kinds, and tests reach few of them.

1. **A crash between two appends.** Facts that belong together are separate
   lines: an iteration and the end it decides, an approval's answer and the effect's
   resolution, a goal's verdict and what follows from it. Every append is therefore
   one step in the models, and a crash may fall after any of them.
2. **Memory that decides.** Cached receipts, path grants, the runner's pace,
   deferred inputs and the in-flight marker are lost at a restart and have to be
   re-derived from the journal, or their loss has to be harmless.
3. **One order, several channels.** Inputs have one sequence and one high-water
   mark, but travel through a hub, two input channels and the resume's replay.
4. **Late events.** Timeouts race results, interrupts race the end of the batch,
   controls race the end of the runner that should take them.
5. **Failing I/O.** A write can be short, an fsync can fail, a process can be
   killed inside a write, power can take what was not synced.
6. **Answers out of order.** The console has several calls on their way: polls that
   overlap, pages read while the list moves, a failure that arrives after the server
   has acted, a component that meanwhile shows something else.
7. **A fold of every history.** The thread is a one-pass fold with mutable maps over
   retries, barriers, failures and parallel tools; its tests are a few dozen journals.

`PROJECT.json` lists each hazard with its line and the properties that guard it.

## 2. Modules

| Module | Models | Extended or used by |
|---|---|---|
| `Journal` | the abstract journal: extend, acknowledge the last fact, lose an unacknowledged suffix | refined by `EventStore` |
| `EventStore` | `store/eventstore.go`: open, repair, append, close, crash, power loss | `MCEventStore`, `EventStoreProof` |
| `EventStoreProof` | inductive invariant, its consequences, the refinement | - |
| `CommandLog` | `store/inbox.go`, with the journal facts that settle commands | `MCCommandLog`, `CommandLogProof` |
| `CommandLogProof` | what a mailbox with one writer keeps, per plan of faults | - |
| `SessionInbox` | hub, pump, router channel, the loop's input handling, resume's replay, re-hosting | `Delivery` |
| `Hosting` | the registry of one session: handlers, hubs and their teardown, waiters, sweeps, shutdown and boot of the daemon | `Delivery`; a run of its own |
| `Delivery` | `SessionInbox` and `Hosting` as the two halves of the delivery to one session | `MCSessionInbox`, `DeliveryProof` |
| `DeliveryProof` | one loop at a time, no accepted input left unhosted; what the loop settles is settled right | - |
| `Effects` | one batch of tool calls: gates, approvals, activities, timeouts, background work, interrupts, stop, recovery | `MCEffects`, `EffectsProof` |
| `EffectsProof` | types, safety of the calls, finality of decisions | - |
| `Series` | a drive series, its runner, and the daemon that hosts it | `MCSeries`, `SeriesProof` |
| `SeriesProof` | sums, the moves of the runner, exactness and the word a series keeps | - |
| `Goal` | `agent/goal.go`, its fold and its place in the drive loop | `GoalBar` |
| `GoalBar` | the bar that reads the goal's journal and steers it; composes with `Goal` | `MCGoalBar` |
| `Schedule` | `agent/schedule.go`, its fold, its place in the drive loop, the idle and the daemon's sweeps | `MCGoalBar` |
| `StandingProof` | types, exactness and soundness of goal, bar and schedule (of `MCGoalBar`) | - |
| `Timeline` | the fold of the journal into the thread, and the folds of the thread | `MCTimeline` |
| `SessionPage` | the page's remote state, with the server it talks to | `MCSessionPage`, `SessionPageProof` |
| `SessionPageProof` | folds, the journal the page has, the rows it owes, one request per item; and of `MCReview` types, truth at rest, the scope of the panel, the reader's place | - |
| `SessionList`, `Optimistic`, `Navigation`, `Sidebar` | the store of the console and its rail | `MCConsole`, `ConsoleProof` |
| `Scheduled`, `HomeComposer`, `ForkDraft`, `Posture` | the page of schedules, and the composer's three protocols | `MCConsole`, `ConsoleProof` |
| `ConsoleProof` | types, unread marks, the address, what was chosen and what was typed (of `MCConsole`) | - |
| `Review`, `DiffBody`, `TimelineScroll` | the places that tell of the workspace, the rows of a file, the viewport | `MCReview` |

The layers rest on each other. `EventStore` is proved to implement `Journal`: an
append is one atomic step that is either acknowledged and kept, or lost as a
suffix that nobody was told about. The other modules take exactly that step as
their unit: a journal append is one action. `CommandLog` checks that sequence
numbers are dense and that accepted commands are found again; `SessionInbox`
takes the mailbox as such a sequence, `ForkDraft` takes its claim of a draft.
`Effects`, `Series` and `Goal` build on both. `GoalBar` extends `Goal` by a page
that sees a prefix of its journal. The MC modules of the console put several
small modules side by side: a behaviour is one of a part, the other parts' variables
are at rest.

### 2.1 EventStore

| Model | Code |
|---|---|
| `log`, `tail`, `durable` | `events.jsonl`: whole lines, a torn last line, how much was fsynced |
| `index`, `indexDisk` | `events.idx` in the page cache and as last synced |
| `lock`, `pidFile` | the flock and the text of the lock file |
| `st[p]`, `handle[p]` | where process p stands in `OpenEventStore`, `Append`, `Close`; its `EventStore` value |
| `AcquireLock`, `CheckIndex`, `ScanLine`, `FinishOpen`, `FailOpen` | `acquireLock`, `reconcileEventIndex`, `scanLogTail`, the error returns |
| `AppendWrite`, `AppendSync`, `AppendReturn` and their `...Fails` | the write, the fsync and the index write of `Append`, each of which may fail and latch the store |
| `CloseScrub`, `CloseRelease` | `Close` truncates the lock file, then releases the lock |
| `Crash`, `PowerLoss` | a kill; a power loss that keeps any part of what was not synced, in the index record by record |

A rolling hash is modelled by the prefix it was computed over, so SHA-256 is
taken to be injective. Offsets count lines.

### 2.2 CommandLog

`Load`, `Retry`, `RefuseDraft`, `Write`/`WriteFails`, `Sync`/`SyncFails` and
`Return` are the stages of `AppendCommand` (inbox.go:74-140) with the cached index
`cache[p]`; `Seed` is `SeedInboxWatermark`. `ConsumeInput` and `HandleCommand`
are the journal's side: the facts that settle inputs by sequence and other
commands by id. `Kill`, `Tear` and `Drop` are a death between two steps, a death
inside a write, and a power loss.

`lines` has an entry for every write that left bytes in the file, and `ends` says what it
left: the line with its newline, the line without it (`"bare"`), or a part of it. The next
write goes on where the last one stopped, for the file is opened to append and nobody
repairs it (inbox.go:118-123). `Readable` is what the scanner of `ReadCommands` makes of
that (inbox.go:194-202): it returns a bare line when it is the last one, and refuses the
whole file for a part of a line or for a bare line with another glued to it.

`plan`, fixed by a behaviour's first state, is the set of faults that may happen in it: what
holds under kills is not what holds under failing fsyncs, and one specification says both.

### 2.3 SessionInbox

`log` is the mailbox, `journal` and `mark` what it settled. `Send` is
`acceptAndDeliver`, `PeerSend` is `TreeRouter.Send`, `Pump` is `pumpCommands`.
The loop's goroutine is `pc`: `turn`, `step` (a generation runs), `idle`,
`asking`, and `replay` for the mailbox replay of `Resume`. `DrainSteer`,
`TakeInput`, `ResolveIdle`, `FlushDeferred`, `AskReply`, `AskAnswered` and
`AskPeer` each make a decision of `conversation.go`; `JournalInput` is its single
place of journaling, with dedup, veto and the withdrawal check. `Crash`
takes every queue; `Host` and `ReplayPending` are the two sources a new host
gets its inputs from. `cast`, fixed by the first state, says which commands are sent: their
kinds, their targets, which are steering, vetoed or of the tree, and how many questions
the loop asks. `Inputs` has one command of every kind that shares the user's channel,
`Unsends` and `Hurries` more withdrawals and promotions than their channels hold, `AnyKind`
a tree message and a question besides.

### 2.4 Hosting

| Model | Code |
|---|---|
| `registered`, `run[s]` | `Server.runs[id]`, and a hub with its goroutine: `live`, `ended` (the loop has returned), `finished` (`hub.finish`), `checking` (out of the registry), `hosting` (about to host again) |
| `client`, `hubOf` | a `handleSend` between its lookup, its hosting and its delivery, with the hub it found |
| `waiters` | a `reviveAcceptedAfter` that waits for the end of a hub |
| `failed`, `sweep` | `Server.failed`; the boot sweeps of pending commands and of stranded sessions |
| `Lookup`, `HostAndLookup`, `Post` | the three parts of `handleSend`; only the last is under `commandMu` |
| `Control` | `acceptAndDeliver`, whole under `commandMu` |
| `Break`, `Finish`, `Deregister`, `Check`, `Rehost` | the goroutine of `hostResumeCommandLocked` from the loop's return on, with `rehostIfPendingInput` |
| `TimerDue`, `Scan`, `SweepHost` | `sweepTimers` and the sweeps of `ListenAndServe` |
| `Cancel`, `Stopping`, `Exit`, `Boot`, `Crash` | `ListenAndServe`'s way down, and a kill |

What a loop does with a command is in `SessionInbox`; here a live loop settles one it
knows: the mailbox at the moment it was hosted, and what was posted since. A section
under `commandMu` is one step. `Delivery` puts the two modules side by side as halves
(`half` says which one moves): each abstracts the other, and `OneLoop`, `InputIsHosted`,
`ShutdownEnds` and `NoRetryStorm` are conjuncts of its properties.

### 2.5 Effects

The first group of variables is the fold, which changes by appends only: requested
effects, recorded answers, allowances, activities, handles, results, timers, the park.
The second is the hosting process. `batch`, fixed by the first state, is the turn's
calls with their kinds, and what may happen to them. Calls are numbered; each is a read
(idempotent), a remote call (cut at its timeout), a shell (converted to background work
at its timeout) or a job (launched in the background). `Adjudicating` to `ResolveAnswer`
are `adjudicate` and the approval wait; `Started`, `Begin`, `End`, `Report`, `Fire`,
`Convert` and `Settle` are `ActivityExecutor.Do` and `runAttempt`, where the select of
outcome and timer is open; `Join` and `Seam` end the batch; `SendInterrupt`,
`TakeInterrupt` and `StaleWatcher` the interrupt watcher; `Abort` and `Drained` the
stop; `Host`, `SettleCrashed` and `EnterDrive` what `Resume` does with what it finds.

### 2.6 Series

`sr` is `state.Series`, `timers` its wake hints, `child` the journals of the
iterations' attempts, `mailbox` the accepted controls. `run` is the runner's
memory; `ResumeSeries` and `Position` re-derive it from the fold. The actions
follow `driveSeries` in order: `DrainSeriesControls`, `IterationLimit`, the
cadence (`TickAtOnce`, `TickSelfPaced`, `TickOnTimeline`, `ResumeInFlight`), the
wait (`TimerFired`, `PauseCancelsWait`, `PauseWait`, `ControlInWait`,
`WaitCancelled`), the attempts (`RunChild`, `ChildEnds`, `SettleChild`,
`ChildCancelled`), then `JudgeIteration`, `DecideNext` or `FailIteration`,
`AfterFailure` or `CancelIteration`, `AfterCancel`. The daemon's half is `Host`,
`HubFinish`, `Deregister`, `BootSweepDrives`, `CheckControl`, `AcceptControl`,
`ReviveDrive`, `UserStop`, `Shutdown`, `Exit`, `Boot` and `Crash`. A child is what the
runner sees of it: it spends, may be cancelled, and ends with an intent or a
failure. The clock is an integer; the runner's own steps take no time.

### 2.7 Goal and GoalBar

`goal` is the fold's goal, `mail` the controls accepted and not applied, `event`
what the last step appended. `ApplyGoalControl` is `drainControls` at a safe point,
`Generate` and `EndGeneration` a turn, `Judge` the verdict of `goalCheckpoint` at
its boundary, `FollowUp` the fact that has to come after it, `GoalRecover` and
`GoalResumeCheck` the repair of what a crash left out (`Owed`). `Crash` takes the
process variables (`pc`, `back`, `quiesced`, `barrier`) and nothing else.

The page's `seen` is `deriveGoalState` over the prefix it has polled; `Click`,
`CallFails` and `Ceiling` set and clear `goalPendingAction`; `told` counts the
receipts it announced. `full` is the same fold over the whole journal, against
which the bar is compared. `spent` is the reference clock: the ticks at which the goal was
active.

### 2.8 Schedule

`sch` and `timers` are the fold's schedule and its pending timers; `commands`, `closing` and
`sent` what was accepted and not journalled. Every safe point derives the facts it is to
append from the fold, all at once, into `todo`, and `AppendFact` appends them one by one:
a crash may fall before any. `host` is where it stands: `resume`, then `drain`,
`check`, `decide` (`drainControls`, `checkSchedule` and `decide` of the loop), `turn`,
`idle` (the select of `awaitInput`), `close`; `down`, `failed` and `crashed` are sessions
nobody hosts. `TimerDue` is `sweepTimers`, `Boot` the sweep of pending commands and
`scanStrandedSessions`, `Stop` and `TurnFails` the two ways a host returns an error.
`asked`, `prompts` and `lost` are histories: the last slot asked for, the prompts in the
open turn, and which facts a crash kept from the journal.

### 2.9 Timeline

One action is the arrival of one event, guarded by when the runtime writes it. Its
effect is the case of `foldEvents` that handles it: `items` is the list, `toolOf`,
`failures`, `anchor` and `approvals` the maps beside it. What the page computes from
the items are operators with the names of the functions: `Durations`,
`SuppressEchoedChips`, `MergeAdjacentChips`, `FoldWork` (with `FoldNode`, `Flush`,
`TailStart`), `FoldRuns`. An item is known by the sequence of the event that pushed
it, so "every event has its row" is a statement about keys. `bound`, fixed by the first
state, is the size of the journal: how many events, inputs, asides and retries, which tools, and
whether calls fail. So one run has short journals with everything in them and long ones in
which all goes well.

### 2.10 SessionPage

The server's half is external: a journal, a mailbox, an open question, waiting
children, forks. A call is a record in `calls` which is issued, served and landed by
three actions, and may fail before or after it was served. `LandEvents`,
`LandInspect`, `LandQueue`, `LandSend` and `LandClick` are the continuations in
`useSessionDataController`; inspect passes overlap, so `LatePass` lands anything that
was true since the page loaded. `Reload` keeps what session storage keeps.

### 2.11 The console

- `SessionList`: `fetch` is the refresh under way, with the page it is reading and its
  offset; `Activity` may move a session between two pages. `rows` is the merge of
  `refreshSessions`, as a set, for the rail sorts it; unread marks and `seenTurns` follow `AppRuntime`'s effect.
- `Optimistic`: `overlay` is a rename on its way, the project marks are maps that
  clicks set, answers replace and failures put back.
- `Navigation`: fields and hash are set by one click, `hashchange` comes later;
  back, forward and the address bar set the hash first.
- `Sidebar`: `SidebarModel` and `orderProjectGroups` are the functions of `viewModels.ts`,
  built from what the server lists and the user's choices.
- `Scheduled`: loads are numbered, the newest wins; the dialog's draft and revision
  are what it was mounted with, and the dialog is not keyed by its schedule
  (Scheduled.tsx:518-526), so that back and forward leave it standing over another one.
  Another client edits, and a call may be lost on either side of the server. `strayed` and
  the drafts' `turned` are histories: a follow-up of a schedule the user has left was asked
  for; the dialog stayed open over a change of schedule.
- `HomeComposer`: a send is four calls (workspace, branches, worktree, session) with the closure
  it was clicked with, while project, branches, place and text change under it, and a
  checkout is answered after its project was left (`stray`, `typed`).
- `ForkDraft`: seed, edit, send, retry and release of a fork's draft against the
  mailbox's claim, with the request id that outlives a reload; answers come after a release
  was read, and what is typed or seeded during a send is in the input when it ends
  (`typed`, `seeded`, `taken`, `dropped`).
- `Posture`: a switch is a spec and a mode, built from what this browser remembers, if it
  remembers anything: the session may be from elsewhere. Two switches may be on their way
  and an answer may be lost (`muddled`; a switch built on what is known, alone, is `sure`).

### 2.12 The review of changes and the viewport

- `Review`: a diff is a number. `card`, `env` and the panel each have their reads;
  `bumpWorkspaceEpoch` is the bump of an event or an action, `Finally` the card's
  one read behind the one that runs, `recent` and `timer` the rail's two seconds. An action
  is one call to git or, for commit and push, two (`ActServed`, `PushServed`); a commit
  of nothing is answered like any other (meta.go:792). `ActFails` is before git has done
  anything, after it has (the answer is lost, the push refused), or half way through
  a revert (meta.go:945-953); every rejection lands in a catch that reads nothing and
  bumps nothing (DiffView.tsx:538). `untold` is the history of who has not heard of it.
- `DiffBody`: a file is an edit script, git prints it with context, `parseFileDiff`
  and `hunkGaps` make numbered rows and bands, `ToggleGap` asks for the file and
  `revealedRows` shows the lines of a band from it. A band is there when it is drawn: the
  one to the end of the file is not, once a read has failed (DiffView.tsx:1146).
- `TimelineScroll`: a render commits rows and runs the layout effect; the passive
  effects of the last render run before the next; a gesture, the movement it causes
  and the scroll event are three steps.

## 3. What the runs check

| Run | Properties | Shows |
|---|---|---|
| `event_store` | `TypeOK`, `AckedDurable`, `FilesAreTrue`, `ImplementsJournal` | Two processes open, append to, close, crash and lose power over one journal: no acknowledged envelope is lost, the file stays foldable, handles, cursors and the recorded pid are true, and the store implements the abstract journal. |
| `command_log` | `TypeOK`, `KilledSwallowsNone`, `SettledOnce` | A daemon killed between any two steps leaves a file that can be read. Killed inside a write too, it may leave one that cannot (section 5.1); a file that can be read has every accepted command, hides none behind the high-water mark, and none is settled twice, a fork's draft is sent once. Under torn and failing writes, failing fsyncs and power loss, unless a kill and a power loss come together, the answers to one command id still name one sequence and one payload. |
| `session_inbox` | `DeliveryTypeOK`, `InputsSettleRight`, `InputsSettle` | Queued, steering, vetoed, withdrawn and promoted inputs reach one loop through the hub while its host crashes and is hosted again: none is lost or taken twice, a withdrawal in time is honoured, all are settled in the end, but for one that waits behind a withdrawal or a promotion whose channel is full and stays so. With tree messages, questions and answers too, everything settled is behind the mark. And the daemon: one loop at a time, no accepted input in a session nobody will host, a shutdown that ends, no retry for ever of a session that cannot be resumed. |
| `effects` | `TypeOK`, `CallsAreSafe`, `DecisionsAreFinal`, `EveryCallEnds` | A shell converted on its timeout, a remote call that is cut and a background job beside each other, with a crash or shutdown; and smaller batches with stops, hooks and two faults: nothing that is not idempotent begins twice, no refused call runs, no answer is asked for again, a session at rest owes nothing, every call and every handle is answered once. |
| `series` | `SeriesTypeOK`, `SeriesIsExact`, `SeriesKeepsItsWord`, `SeriesSettles` | Seven shapes of series run three iterations under pauses, resumes, a stop and one crash or shutdown: work in flight is resumed and billed once, slots and paces survive the restart, a pause and an end hold, and every cadenced series comes to rest. |
| `timeline` | `TypeOK`, `ThreadIsJournal`, `FoldsAreTurns`, `ThreadIsTruthful` | Over every journal of up to eleven events with failures, retries and asides, and every smooth one of up to seventeen, with two tools and narration between them: each event has one row whatever retries supersede, folding drops and repeats none, a turn's work is one fold with its real span and one row per run of a category, a failure stands exactly while nothing has answered it. |
| `session_page` | `TypeOK`, `NothingIsLost`, `ClicksAreOnce`, `PageCatchesUp` | Polls, overlapping inspect passes, clicks, stream events, faults and a reload: a text that was sent stays on the page or in the journal, a click acts once, and the page comes to show what the server holds. |
| `goal_bar` | `MCTypeOK`, `StandingIsSound`, `StandingIsExact`, `StandingSettles` | A goal under controls, crashes between any two appends and failing turns: one verdict per boundary and its outcome after it; the bar's clock is the time the goal was pursued; receipts are told once; the goal goes on to an end or waits for someone, and a pending control ends. Beside it a schedule under commands, crashes, stops and a clock: no slot has two wakes, no standing prompt joins another, the budget is kept, a parked session has the one timer of its next slot, a due slot is served. |
| `console` | `TypeOK`, `PageIsTrue`, `RailIsTrue`, `UserIsHeeded`, `ConsoleCatchesUp` | Eight parts, each alone: an unseen turn is marked, the address names the screen, the rail has every session once and in order; a send uses its project, a session runs under its pill's posture, a save is against what its writer saw or was told of; text leaves an input only by a send; list, marks, title, schedule panel and draft agree with the server in the end. Late checkouts, typing during sends, reloads, lost and late answers, overlapping switches and turns to another schedule all happen; where the code does not keep the promise under one of them, the formula names that case and no more (section 5.2 has the promise without it). |
| `review` | `MCTypeOK`, `ScreensAreTrue`, `FileIsWhole`, `ReaderKeepsPlace`, `ScreensComeToRest` | Card, rail and panel while the agent writes, reads fail and overlap, and commits, pushes and undos are made and fail before or after git changed the workspace: a screen at rest is true, but for a place nobody told of a change whose action then failed; the panel shows the scope it names, but for an action's reload after its scope was left. Every line of every small file is shown or behind exactly one band that is drawn, each row with its numbers, under every click and failed read. The viewport moves no reader and loses no tail. |

The two runs that end in a violation are in section 5. Several properties are
conjunctions: the module that states one says what each conjunct is, and states the
conjuncts one by one with the code they are about. Instances that differ in what
happens (`plan`, `cast`, `batch`, `spec`) are initial states of one run, so that the theorems
of section 4, which are about every such choice, speak of the same specification.

Why the bounds suffice:

- **event_store** (two processes, four appends, three faults): a third process could
  only repeat the loser's part in the races of lock, probe and repair. Four appends and three
  faults allow an append after a repair after a torn append, twice. The proofs
  drop all three bounds.
- **command_log** (three inputs, two of them sends of one draft, and a control; four
  lines, two faults; a plan of kills between steps, one of kills inside writes too, and two
  of failing I/O, one with torn writes, one with power loss): a crash, a retry and a second
  crash; an entry can be consumed while two later ones wait; a line torn before its
  newline is loaded, acknowledged to a retry, and glued to the next.
- **session_inbox** (casts of four and five commands, channels of capacity one, one crash):
  overtaking happens with two commands on a channel, and a second withdrawal (`Unsends`) or
  promotion (`Hurries`) fills its channel and stops the pump, with an input behind
  it. `Inputs` leaves out peer messages and questions, for which `NoneSwallowed` and
  `EffectivelyOnce` do not hold (section 5); `AnyKind` has them and checks what does. The half of the daemon has
  an input, a close and three hubs, through one crash or shutdown: one hub is torn
  down while a handler or a waiter still holds a second and a third is live; with two,
  hosting would wait for a name.
- **effects** (three calls with one fault; two calls with one and two faults): every
  pair of kinds side by side, a third call behind an approval, a crash in the recovery
  from a crash.
- **series** (three iterations, three controls, one fault, four clock units): a decision
  about the second iteration depends on the first and bears on the third; a pause, its
  resume and a control too late to matter; missed slots.
- **timeline** (eleven events, two inputs, two retries, one aside, two tools; or seventeen
  events of one input with two tools of one category or of two, without failures): a retry of a
  retry needs nine events; a settled fold with two tools and narration between them, so that a
  run is split or joined within one fold, needs fifteen; longer journals repeat a turn.
- **session_page** (three of clicks, server steps, faults and late passes): a click, its
  lost answer and its repetition; two equal texts and a failure. One child, one message
  to continue from: two do not meet in the code.
- **goal_bar** (two checks; four surprises without a page, three with one): a verdict that
  goes on, one that ends; pause, resume and a crash between them. The schedule has a slot
  every two units, two wakes, five units and three surprises: a slot that is missed while
  a turn runs, a crash in serving it, a pause over it; a budget spent with one to spare.
- **console** (per part four to six steps, nine for a draft and two for the rail; three
  sessions on pages of one, two projects, two schedules, two switches at a time): enough for a
  session to fall between two pages, for two calls of different answers to cross, for a send, its
  lost answer, a release, a reload and a retry. Steps of the environment are bounded, steps
  of the program are not.
- **review** (three writes, clicks or failures; every script of up to five lines and those of
  nine with two or three changed; a feed of five steps with seven gestures, rows and
  visits): a read behind a read behind a change, an action that fails after it changed
  something; with one line of context nine lines hold a gap at the start, one between two hunks
  and one at the end; leaving and returning twice.

Some constants switch a behaviour on, and are off where the code does not do what it says
under it: another client's renames (`OtherRenames`), older pages that fail and two turns between
polls (`OlderPagesFail`, `Burst`), rows without times (`Legacy`), unusual file contents
(`DashedLines`, `BlankTails`, `Rewrites`), and five of the viewport (`Races`, `Keys`,
`Native`, `Nudges`, `Hasty`). Section 5 has the list, and each is a way to see the
divergence. Composer, schedules page and the three places of the review have no such
constant: everything they model happens in the run.

**Deadlock** checking is off in all configurations: a session may come to rest,
its bounds may be used up, and a crashed one need not be hosted again.

### Fairness

- `session_inbox`: weak fairness of the pump, of the loop's steps and of the
  hosting. The first two are goroutines whose steps need nothing from outside; the
  third is the boot sweep of sessions with pending commands and the check at
  teardown (`daemon.go`, `rehostIfPendingInput`). Senders owe nothing. In the daemon's half
  handlers, teardowns, waiters, sweeps and `ListenAndServe` are goroutines that go on; a
  live loop settles what it knows, and ends once the daemon's context is done. Nobody
  owes a command, a timer or a failure.
- `effects`: the goroutines of the loop and its activities run, background
  work ends, and the daemon hosts the session again. Nobody owes an answer to an
  approval, an interrupt or a fault: `EveryCallEnds` exempts a session that
  waits for a person for good.
- `series`: runner, daemon and clock make progress. Nobody owes a control, a
  stop, an answer or a fault. `SeriesSettles` exempts a series that waits for a
  person or for a slot beyond the bound on the clock.
- `goal_bar`: the loop runs and is hosted again after a crash; the page polls (a timer)
  and its calls end. Nobody owes a click or a message. Of the schedule the loop, the timer
  sweep and the boot sweep go on; nobody owes a command, and the clock may stop.
- `session_page`: the page's two timers and the server answer what is asked. Nobody owes
  a click, and faults are bounded: an error for ever is not a page that catches up.
- `console`, `review`: polls are timers, calls are answered or fail, effects run. Users
  and other clients owe nothing.

## 4. What is proved

The theorems are about the specifications TLC checks, for every value of their constants:
any number of processes, commands, calls and iterations, any capacity, any bound on
faults and time. Each assumption on a constant is a named `ASSUME` that TLC evaluates
on the run of the module that declares it. Every proof has the same shape: an inductive
invariant of named parts; a lemma that the initial states have it; per part, one lemma
that every step keeps it, with a step per action or per group of actions with one effect;
and the properties of the runs as consequences.

| Module | Theorem | Says |
|---|---|---|
| `EventStoreProof` | `Invariance` | the inductive invariant `IInv` holds |
| | `TypeCorrect` | `TypeOK` |
| | `AckedSurvive` | an acknowledged envelope stays in the fsynced journal at its own seq |
| | `AlwaysReadable` | no glued line, no gap, no repeated seq |
| | `HandleAgrees` | an open, unbroken store agrees with the file in seq, offset and hash |
| | `CursorsAreTrue` | an index record that passes validation is a true cursor |
| | `FilesTellTheTruth` | `FilesAreTrue`: the three above and the probe, as one |
| | `HostAlwaysSeen` | the lock-free probe never misses a host |
| | `AckedStable` | no step changes what was acknowledged |
| | `Refinement` | every behaviour of the store is one of `Journal` |
| `CommandLogProof` | `TypeCorrect` | `TypeOK`, with any number of processes |
| | `Invariance` | with one process, the inductive invariant `IInv` |
| | `NothingSwallowed` | with one process, `KilledSwallowsNone`: kills between steps leave the file readable; under kills inside a write too, a file that can be read has every accepted command and hides none behind the mark |
| | `SettlingIsOnce` | with one process, `SettledOnce`, under every plan of faults |
| `DeliveryProof` | `Invariance` | the pipeline of queues is in order and whole, a replay passes nothing by, one loop works |
| | `TypeCorrect` | `DeliveryTypeOK` |
| | `SettlingIsRight` | `InputsSettleRight`: nothing skipped, used twice, or used after its withdrawal was known; one loop; no accepted input in a session nobody hosts |
| `EffectsProof` | `Invariance` | the inductive invariant of a batch |
| | `TypeCorrect` | `TypeOK` |
| | `CallsStaySafe` | `CallsAreSafe`: what is not idempotent begins once, a session at rest owes nothing, a handle is live or was told once |
| | `DecisionsStay` | `DecisionsAreFinal`: an answer is not asked for again, a refused call does not begin, a result is not replaced |
| `SeriesProof` | `Invariance` | the inductive invariant of a series |
| | `TypeCorrect` | `SeriesTypeOK` |
| | `Exact` | `SeriesIsExact`: work, spend, cap, pauses and slots are what the journal says |
| | `KeepsItsWord` | `SeriesKeepsItsWord`: a pace is waited for, an end is final, only a user cancels |
| `StandingProof` | `Invariance` | the inductive invariant of goal, bar and schedule |
| | `StandingTyped` | `MCTypeOK` |
| | `StandingExact` | `StandingIsExact`: the bar's clock and its refused controls are the journal's; no standing prompt joins another, the budget of wakes is kept, a parked session has the timer of its next slot and no other |
| | `StandingSound` | `StandingIsSound`: one verdict per step, an outcome after its verdict, one wake per slot and none from before it was asked for |
| `SessionPageProof` | `Invariance` | the inductive invariant of a session page |
| | `TypeCorrect` | `TypeOK` |
| | `NothingLost` | `NothingIsLost`: the page's events are the journal's, each once and in order; for every text there are as many rows and events as sends that still have to be seen |
| | `ClicksOnce` | `ClicksAreOnce`: one fork per item, an approval that was decided is not asked for again |
| | `ReviewTyped` | `MCTypeOK` of `MCReview` |
| | `QuietIsTrue` | `QuietScreensAreTrue`: card and rail are true once nothing is on its way, whatever failed before or after git; a place is excused from the change of an action until the action returns or the place reads |
| | `ScopeIsKept` | `PanelKeepsItsScope`: the panel shows what its toolbar names, unless its last load was the reload of an action whose scope was left |
| | `ScreensTrue` | `ScreensAreTrue`, both of these |
| | `PlaceKept` | where gestures and renders take turns (`Calm`), `ReaderKeepsPlace`: no reader is moved, who follows is at the tail, a session is found where it was left |
| `ConsoleProof` | `TypeCorrect` | `TypeOK` of `MCConsole` |
| | `PageTrue` | `PageIsTrue`: a listed session with turns not looked at is marked, the address names the screen |
| | `Heeded` | `UserIsHeeded`: what was chosen is what happens, and what was typed stays until it is sent, but for the cases the formulas name |

### 4.1 The journal

Assumptions: `BoundsAreNat` and `ProcsAreNamed` (the two marker values are not processes).

`AckedDurable` is not inductive: whether the line an append
writes lands where its seq says depends on the handle, the handle depends on the
repair at open, and the repair depends on the index. `IInv` closes the circle:

- `LockInv`: a process inside the store's methods holds the flock, and past the
  acquisition its pid is in the lock file. So only one process ever writes.
- `HandleInv`: during the scan the handle is a prefix of the journal and the index
  covers exactly that prefix; an open, unbroken store agrees with the whole file,
  except for the line being appended; after the fsync everything is durable.
- `IndexInv`: an index record stands at its own ordinal or is zeroed bytes, and as
  far as the journal reaches its hash is the journal's prefix, in the page
  cache and on the disk. This survives a power loss that mixes old and new
  records, and it is the reason the validation may trust one record.
- `JournalReadable` and `AckedDurable` themselves, `durable <= Len(log)`, `TypeOK`.

The refinement maps the journal to `log` and stutters elsewhere: a write that lands
extends, the return acknowledges, repair and power loss drop a suffix without
acknowledged envelopes.

### 4.2 The mailbox

Three of the four theorems have the hypothesis `OneProcess`, which is what inbox.go:47
states ("the daemon is the sole writer"); with two writers the statements are false
(section 5.1). What holds depends on the faults a behaviour plans for, and so does the
invariant:

- always: `TypeOK`, `FileInv` (under kills between steps every line has its newline; where
  power may be lost and nothing is killed, a file nobody has indexed is durable) and
  `CallInv` (a call that has written has its line at the end of the file);
- unless kills and power loss come together (`Mild`): `ReceiptInv`, the receipts given
  out are those of the index and are found again in the part of the file that stays;
- under kills alone, inside a write too (`Killed`): `LinesInv` (numbered upwards, one line per
  command, all but the last send of a draft given up), `CacheInv` (the index knows every line but the one being appended), `MarkInv`, and
  `SettleInv` (the settled inputs are those up to the mark). A part of a line and a line
  without its newline are among the lines, as bytes of the file: whoever loads it counts a bare
  last one, and a file with anything behind one is refused as a whole. That is why
  `KilledSwallowsNone` asks for the file to be readable before it speaks of what a replay finds.

### 4.3 Delivery and hosting

Assumptions: `SessionInboxAssumption` (a cast is well-formed) and `HostingAssumption`
(there is a name for a hub). `OneLoop` and `InputIsHosted` come first; to be inductive they need the types and `WillScan`: a daemon that is down looks for pending commands when
it boots. Then the loop's half. `SettlesRight` says something of one entry of
the journal, the invariant of the whole way there:

- `Facts`, `Distinct`: each fact is of the command its sequence names and behind the
  mark; a command is accepted once. `Phases`: where the host stands, and what it may hold
  there.
- `InOrder`: without questions the journal settles in order of sequence, so a sequence
  ahead of the mark has not been used.
- `Queued`: where all that settles commands takes one channel, what the loop has set aside,
  its channel and the hub, one after the other, are ascending, and once the hub was given
  the pending commands they hold everything ahead of the mark. That is why the mark can
  rise over nothing. `Replays`, `Passed`: the same of the mailbox replay of `Resume`.
- `Swallowed`: `NoneSwallowed` for such casts; section 5 has what happens with two channels.

### 4.4 Tool calls

One assumption: the kinds of calls in a batch are disjoint, as the loop decides them
from one table per tool (loop.go:3517-3596). A call is recorded in five places (requested,
decided, allowed, active, answered), and each crash keeps those and drops the process.
`FoldInv` says a call is in one place of its life and what an answer excludes; `RunInv` what
goroutines and background work may stand for it; `OnceInv` that a call with side effects
which may have begun shows it; `OutcomeInv` where the outcome of a handle is; `AwaitInv` and
`TurnInv` tie the fold to where the drive stands; `HookInv` is about hooks that were entered
and left open. `CallsAreSafe` follows from `OnceInv`, `FoldInv` and `OutcomeInv`, the action
property from `FoldInv`, `TurnInv` and `HookInv`.

### 4.5 Series

One assumption, `SeriesAssumption`: a spec is one the validation of specs lets pass (a cron has
a period, a series without cadence has verifiers, only `retry` has attempts) and the bounds
are numbers.

The spend of a series is a sum over its records, so its proof needs induction over
data. The library's induction theorems take a predicate as a parameter, which no
installed prover instantiates; but `NatLessThanWellFounded` and `WFMin` do not, and give
`LeastNumber` (a set of naturals has a least element) and from it `SetInduction` (induction for a
set). With these the recursion of `Total` has one solution and the lemmas about sums
(`TotalUnfolds`, `TotalSame`, `TotalRest`) are first-order.

Every step is one of twelve **moves** of the runner (`StepIsMove`): it leaves its loop, enters it,
drains, waits, skips, starts, halts, works, settles, records, goes on, or rests. A move says
what the step does to fold, children and memory and drops how the code gets there, so
each part of the invariant meets twelve cases:

- `Core`, `Sides`, `Switches` are the types. `Rest`: a paused or ended series has no runner in
  its loop. `Hosted`: a hub has a runner, which cancels an iteration only when it is told to.
  `Place`: the iteration the runner is at is the next record, or the last.
- `Attempted`, `Trying`, `Fresh`: attempts are made one after the other, and an iteration
  that is to come has no child unless the runner knows it is in flight. So a skipped slot
  never had one (`InFlightIsRun`).
- `Billing`, `Bills`: the runner has billed the attempts before its own, a record the
  attempts up to its own, once; after the attempt that settled it there is none
  (`SpendIsExact`).
- `Budget`: the allowance is what the records leave of the cap, and with what the open
  iteration has used they stay below it (`BudgetKept`).
- `Dated`, `Pacing`: what is owed to the pace of the last record is in the runner's memory,
  in the time it waits for, or has passed (`PaceHonoured`). A restart derives it again.
- `Slots`: the fold's last tick, the runner's and the last record agree, and what is waited for
  is the slot after it (`SkipLeavesNoGap`).

### 4.6 Standing orders

Assumptions: `GoalAssumption`, `GoalBarAssumption` and `ScheduleAssumption`, which say that
bounds are numbers, that a goal has checks and that an interval is above zero (a schedule's
budget of zero is none, as in `checkSchedule`). A step of `MCSpec` is one of the goal or one
of the schedule and leaves the other as it is, so each has an invariant of its own.

The goal: every step appends one event or none, for a reason (`Quiet`, `Written`, `Judged`,
`Passed`), and the parts of the invariant meet these four.

- `Verdicts`: a verdict is of a step that has begun, and a goal that was stopped without
  one does not hold a passed one. `OneVerdictPerStep` and `OutcomeFollowsVerdict` follow
  from it and from what `Judge` requires.
- `ClockFits`: in each state of the goal (active, paused, over), what the bar has banked and
  the segment it has open make the ticks at which the goal was active. The property is the
  case in which the bar has read the whole journal; between two polls only the fold over the
  journal, `full`, can be compared.

The schedule: a safe point puts the facts it derives in `todo`, and every step between two
appends leaves fold and facts apart. So the invariant is about fold and facts together, as if
they were already appended:

- `WakeLeads`: a wake is the first of its batch and later than the last slot
  (`WakeIsNew`). `OneSettles`, `OnePrompt`: what a batch settles and prompts, it does once.
- `BudgetAhead`: with the wake in hand the budget is not exceeded, and if it is used up the
  removal is in the same batch; or a crash has lost the removal, which the property
  excepts too (`BudgetKept`).
- `PausesCancel`, `RestsDisarmed`, `SetsActive`: behind a pause or removal its batch cancels
  every timer; a schedule at rest has no other timers; a timer is set for an active one only.
- `Armed`: an active schedule about to park has the timer of its next slot, counted
  from the wake in hand, or is about to set it, and whatever else is armed is about to be
  cancelled. With nothing left in hand this is `ParkedIsArmed`.
- `Places`: which facts may be in hand at each place of the drive loop.

### 4.7 The session page

One assumption, `SessionPageAssumption`: there is a text, and the bound is a number. The
theorems hold for `Spec` as TLC runs it, with faults on either side of the server, late
passes and reloads.

- `OnePoll`: one poll at most is on its way, and what it brings begins where the page's
  events end (`pollBusy`, `cursor`). This is all that keeps events from being skipped or
  doubled; `PrefixIs`, `PrefixGrows` and `PollContinues` are the lemmas about prefixes.
- `MailNumbered`: a message has the number of one send, whose call is on its way or over.
  So a send that was served is not served again, and no two messages share a number.
- `RowsOwed`: a row is one of the sends the page must still show, under its own id. A row
  leaves by its text when a poll brings that text, and by its id when its call lands.
  `MatchesKeep` counts the first, one row for one event; `DropKeeps` the second. The two
  meet in `NothingSentVanishes`, which counts rows and events of a text together.
- `OneRequest`: once an item has a request id, memory, session storage, the calls and the
  forks agree on it, also after a reload that forgets the memory.
- `Decided`: what was decided on this page is in `resolvedLocal`, which every late pass and
  every stream event is read through.

The two ways a row leaves are folds over sequences. `FoldSolved` shows that a left fold is its
steps: the recursion has a solution, by induction on the length (`SetInduction`, from
`LeastNumber`), so `FoldOfMatch` and `FoldOfDrop` can speak of one element at a time.

### 4.8 The review of changes and the viewport

Assumptions: `ReviewAssumption`, `DiffBodyAssumption` and `ScrollAssumption`, which say that
switches are switches and bounds are numbers. A step of `MCSpec` is one of the three parts
(`PartsMove`), so each has an invariant of its own. The theorems about the three places have
no hypothesis; only the viewport's has one (`Calm`: its five switches are off, section 5.2).

The review:

- `Types`; `OnePlace`: panel and rail are never there together, and neither keeps a call, a
  timer or an action of the other.
- `CardInv`, `RailInv`: a place that has a live event still to come, or is among the `untold`
  (an action changed the workspace, and has neither returned nor has the place read since),
  may be behind. Of any other, what the card's call has read, and the answer the rail waits
  for, are of the workspace as it is now; if the card was told of something during a call,
  another call stands behind it (`rerun`), and the rail has its timer.
  `QuietScreensAreTrue` is the case in which nothing is left to wait for.
- `Truthful`: an answer "unavailable" is of a turn that stays so. `PanelInv`: the one read
  that counts is of the scope on the toolbar, unless it is the reload of an action that began
  in another (`astray`); a panel that heard the card's Review (`asked`) is on the scope the
  card claimed. `PanelKeepsItsScope` follows.

TLC checked each part of the invariant on all behaviours of four steps before it was proved.

The viewport. What the handler last saw (`lastTop`), what the feed does (`stick`) and where
the reader is (`top`) are three things that change in different steps, so none of the
properties is inductive:

- `Follows`, `Reads`: a feed that follows is at the tail, and no gesture is under way; a reader
  is not at the tail, from the gesture (which lets go before the viewport moves) to the
  movement that brings him back.
- `Returns`: who is neither has come back to the tail and the scroll event is on its way. So
  the layout effect moves nobody who reads (`RenderKeepsReader`).
- `Told`, `Remembers`: with no event on its way the handler knows the place, and session
  storage has it. `Unopened`: what a session was left with is kept until its rows are back,
  or a send empties it; with `Restored` this is `PlaceIsFound`.

`JumpIsOffered` and the types hold without a hypothesis. TLC checked that the invariant is
inductive: all states of it with five heights as initial states, and the steps from them.

The rows of a file: a band is open only when the file was read, and a read that a click
started is for a band of this file (`ReadsAreOfGaps`), which is what the types need.

### 4.9 The console

Assumptions: those of the eight modules, which say that markers are not members, that switches
are switches and bounds are numbers; `SessionListAssumption` also that the sessions are
finite. A step is one of one part (`PartsStep`), so each part has an invariant of its own.
No theorem has a hypothesis; `TypeCorrect` and `PageTrue` need none of the written
exceptions either.

- `ListSound`: what is listed of a session is at most what was seen of it, what was seen is at
  most what the page on its way says, and that is at most what there is; what was seen and
  not looked at is marked, or open. So a stale page lowers no count, and a page that lands
  after a click marks at worst too much. `ToFront`: a session that becomes active moves to the front
  of the server's order, which still has each session once.
- `NavSound`: the fields name one page (`FieldsSound`), and without an event to come it is
  the page of the address. A click sets both; what came later sets the fields from the
  address as it is then (`ShowShows`, `SetHashHere`).
- `OptSound`, and the types of the schedule panel, the composer and the posture, part by part.

`Heeded` is about what the parts promise, with the exceptions their formulas name. Each part adds
to its types what its calls carry:

- `SchedSound`: loads, drafts, saves and controls of a schedule the user has turned from stay on
  their way. What has not strayed is of the route's schedule; a dialog that was not turned has a
  draft of the schedule it shows; a draft's base is among the revisions it knows; controls
  clicked on two schedules of the panel are mixed, all of them. The conjunct `SpinnerIsHonest`
  is inductive with these. So a save that is accepted was typed on the revision it replaces, or
  on one a conflict told of.
- `HomeSound`: branch information, picked branch and checkout are of the project they name,
  and so is what a send carries, but for the branch a late checkout has left; the text on
  the screen is the text of the send, or was typed since.
- `DraftSound`: until the draft is consumed, the claim in the mailbox has the composer's request
  id, or one that was dropped for the release of another send; a call on its way has that id,
  or the mailbox knows it.
- `PostureSound`: a sure switch is alone and sends what was picked, or what the session has. While
  nothing is muddled any switch is alone, and what the browser remembers is what the session
  has (`LevelKnown`, `SpecKnown`); the last mode asked for is that of the level picked, if none
  of its calls failed. When switches overlapped or an answer was lost nothing of this is known,
  and a level picked alone brings it back.

TLC checked every part of these invariants on the run of `console`, those of the posture one
step further, before it was proved. The proof still found what the run does not reach: a
follow-up of a schedule turned from, a return to it and a second turn leave a detail of another
schedule under a draft, in six steps. `strayed` therefore lasts until a load of the route's
own schedule lands.

### 4.10 What is only model-checked

- Liveness under fairness, and ENABLED, which the proof system does not reach: `InputsSettle`,
  `EveryCallEnds`, `SeriesSettles`, `StandingSettles`, and those of the console.
- What the folds compute for every input: the thread of every journal (`Timeline`: one fold
  over the events, three over its rows) and the rows of every diff (`FileIsWhole`). These
  are inductions over data of a size this project has not tried; the folds of `SessionPage`,
  one line each, show the way (`FoldSolved`).
- What is sorted or selected (`SortSeq`, `SelectSeq`: the rail of the console, `RailIsTrue`): the
  prover has no axiom about them.

## 5. Where code and documents disagree

Two runs each check one statement of a comment and find it violated; `findings` in
`PROJECT.json` quotes both sides.

- `session_inbox_peer` (`NoneSwallowed`): a tree message and a user message share one
  sequence but not one channel. The later may be taken first, and the earlier is then
  dropped as a duplicate.
- `session_hosting` (`InputHasKeeper`): `handleSend` looks the hub up before it takes
  `commandMu`. If the hub ends meanwhile and a timer, a control or another send hosts the
  session again before the input is persisted, the input goes to the old hub, which is
  done; `reviveAcceptedAfter` then leaves the new hub alone (timers.go:97), and that
  was given the mailbox before the input was in it. It waits there for the next hosting,
  while its session is live. If `reviveAcceptedAfter` also posted what is pending to a
  hub it finds, `InputHasKeeper` would hold.

Further divergences are properties or constants of the modules that no listed run
turns on. Each line says what to change in the listed configuration of the module for
TLC to find it. `Plans`, `Casts` and `Batches` are the sets the behaviours choose their
faults, commands and calls from; a set of one narrows the search.

### 5.1 The durable core

| Module, with | Fails | What happens |
|---|---|---|
| `EventStore` | `RecordedPidHoldsLock` | an open that fails after the flock leaves its own live pid in the lock file, against the comment at eventstore.go:162 |
| `CommandLog`, `Plans = {{"tear"}}` | `MailboxReadable` | a kill inside the mailbox write leaves a part of a line that no reader accepts and nobody repairs, or a line without its newline, to which the next acknowledged one is glued (inbox.go:118-123), so that no command of the file is read again; the journal has a repair for this, the mailbox has none |
| `CommandLog`, `Plans = {{"tear"}}` | `AckedDurable` | a line torn just before its newline is loaded by the next process and acknowledged to a retry, without an fsync |
| `CommandLog`, `Plans = {{"sync"}}`, `Inherited = 0` | `NoneSwallowed`, `EffectivelyOnce`, `DraftOnce` | a failed fsync or close leaves the line in the file but not in the index: the next command takes the same sequence, a retry is a second line, another send of the draft is let through (inbox.go:127) |
| `CommandLog`, two `Proc` | `NoneSwallowed` | a foreground tree's router and the daemon append with separate indexes (router.go:135; inbox.go:47 says the daemon is the sole writer) |
| `CommandLog`, `Plans = {{"kill", "drop"}}` | `AckedDurable`, `ReceiptStable` | a kill between write and fsync; after the restart the retry is acknowledged from the reloaded index without an fsync, the power loss takes the line, and a later retry gets another receipt |
| `CommandLog`, `Plans = {{"write"}}` | `MailboxReadable`, `NoneSwallowed` | a short write stays; the next line takes its sequence, is glued to it and acknowledged (inbox.go:123; the journal latches in this case, eventstore.go:354) |
| `SessionInbox`, a cast of three peer messages, ports of one | `NoneSwallowed` | a wake dropped at a full peer port is not replayed once the mark has passed it (router.go:159) |
| `SessionInbox`, a cast with two questions, a crash | `EffectivelyOnce` | used answers count as pending, so each re-hosting delivers them again and the next question takes one (cli/daemon.go:572) |
| `SessionInbox`, a cast of two inputs and a question, a crash | `EffectivelyOnce` | the hub's copy of a replayed input answers a later question (conversation.go:738) |
| `SessionInbox`, a cast with an answer | `NoneSwallowed` | an answer raises the mark past inputs still in their channel (conversation.go:762, comment at :690) |
| `SessionInbox`, a cast with a question and a revoke | `WithdrawalHonoured` | an input withdrawn during a question still answers it (conversation.go:716) |
| `SessionInbox`, without `BehindFullSide` | `EveryInputSettled` | two withdrawals or two promotions: a full side channel stops the pump while the loop waits for an input behind it (daemon.go:500) |
| `Effects`, a batch with an outside path, a crash | `ApprovedReaches` | an approval recalled after a crash does not grant its path to the new executor (loop.go:3233, :3240; approval.go:268) |
| `Effects`, any batch, an interrupt | `InterruptRecorded` | a watcher that was told to stop takes the next interrupt for a batch that is over (loop.go:363-382) |
| `Effects`, a batch with a job, `causes` of `"stop"` | `HandleAccounted` | a stop writes the close mark before it settles background work, and the close mark empties the fold the settlement looks at |
| `Series`, one fault | `DecisionSticks` | a crash between an iteration that ends the series and the record of the end makes the next host run one more iteration |
| `Series`, `Specs <- Coalescing` | `SlotRecorded` | under coalesce, an iteration in flight over a restart is recorded at lastTick + every, not at the slot it consumed, and later slots are served twice (series.go:346) |
| `Series`, two controls | `EveryControlSettled` | a control accepted between the runner's return and the hub's end is pumped to nobody; the teardown check looks at inputs only (daemon.go:828) |
| `Series`, a shutdown | `ShutdownWritesNothingOff` | a graceful shutdown journals the running iteration as canceled and its work is written off (series.go:437; DESIGN.md:1701 promises the shape of a crash) |
| `Series`, `Specs <- Retrying` | `RetriesKeepBudget` | every retry gets the iteration's whole allowance (series.go:748; spec.go:115 says the budget caps the whole tree) |
| `Series`, no fault | `FloorKept` | with on_child_failure=surface, a self-paced series is not held back after a failed child when no pace was declared before (series.go:458) |
| `Schedule`, without `"hint" \in lost` | `SlotsAreServed` | a crash while parked without a timer: the resume finds none and parks again, and the slot waits for a command (conversation.go:586; schedule.go:199 says losing a timer never loses a slot) |
| `Schedule`, without `pc = "failed"` | `SlotsAreServed` | a resumed host that was stopped or failed is passed over by the timer sweep until a command or a restart |
| `Schedule`, without `"detached"` | `BudgetKept` | a crash between the last wake and its removal: one wake more than the budget (schedule.go:256) |
| `Schedule`, without `"cancelled"` | `ParkedIsArmed` | a crash between a pause or removal and the cancellation leaves the timer, which nothing cancels until it fires |
| `Goal` | `BarrierBeforeVerdict` | a goal's verdict is written before the boundary's quiescent actions, against epilogue.go:37 |
| `Goal` | `StopToldOnce` | a goal that is exhausted is told so again at the end of every later turn, though a checkpoint is to be repaired only when its second event is missing (loop.go:1615) |

`SpendIsExact` exempts iterations recorded as canceled: when attempt two of a retry
is in flight at a crash and the resumed iteration is cancelled before it gets
there again, its spend is not in the record (series.go:776).

Of schedules, besides: a crash between a wake and its prompt spends the wake, and the
prompt never arrives; an active schedule has a timer pending at all times, so the
quiescent actions of a boundary (outputs, barrier, a goal's verdict) never run beside it
(loop.go:2033); the stop of an idle session leaves no mark (conversation.go:512), though
errs.go:46 says the loop records one.

Three more concern `daemon.go` and `timers.go`; of these `Hosting` has the first, as the
`~failed` that `InputIsHosted` needs:

- A stop, or a turn that failed for good, makes `Resume` return an error, and the host
  marks the session `failed` (timers.go:150); the check for pending input at teardown
  (daemon.go:833) then passes it over. An input accepted during the teardown of a
  stopped, revived session sleeps until the next send or restart, although
  daemon.go:822 says a message must simply become the next turn. A session hosted for
  the first time is not marked and is hosted again at once.
- `reviveAcceptedAfter` (daemon.go:1761) and the boot sweep of pending commands
  (daemon.go:810) host explicitly, so mail of a machine can cross a kill mark there.
- An approval that is answered while the loop ends is acknowledged and not hosted again;
  one that was dropped after 400 tries (daemon.go:555) stays pending for ever, so every
  restart hosts its session and holds its pump for ten seconds.

### 5.2 The console

| Module, with | Fails | What happens |
|---|---|---|
| `Timeline` | `ActiveIsMidWork` | a tool that a resume runs again under the same activity id leaves its row running (loop.go:1014; timeline.ts:1060) |
| `SessionPage` | `ApprovalsCatchUp` | an approval a child asked for over the stream stays open on the page when someone else decides it (SessionFeature.tsx:434, :482) |
| `GoalBar` | `PausedClockStops` | an update of a paused goal sets the bar's clock going, while the goal stays paused (timeline.ts:1503) |
| `Scheduled` | `DraftIsPreserved` | a load that fails while the dialog is open takes the dialog and its draft away; line 637 promises "Your draft is preserved" |
| `Scheduled` | `DetailIsSelected` | the load that follows a control or a save is of the schedule that was for, and replaces the one the user has turned to |
| `Scheduled` | `SaveHitsItsSchedule` | the edit dialog is not keyed by its schedule (Scheduled.tsx:518-526): after back or forward, or a late follow-up, it saves one schedule's draft to another |
| `Scheduled` | `SaveSawWhatItReplaces` | after a conflict the dialog takes the new revision and keeps showing the draft: the next save replaces what nobody was shown |
| `SessionList`, `Burst = 2` | `ListCatchesUp` | two sessions active between two polls push a third past the recent page (resume.go:335) |
| `SessionList`, `OlderPagesFail` | `ListCatchesUp` | an older page that fails is not asked for again |
| `SessionList` | `NoFalseMark` | a page read before a session was opened and left lands after it, and marks the turn that was seen (store.ts:615) |
| `Optimistic`, `OtherRenames` | `AgreedTitle` | a rename stays over what another client renames later (store.ts:232, title.ts:34) |
| `Navigation` | `ArchivedStaysClosed` | only the newest entry of a session that is archived is replaced; back reaches an earlier one, or its schedule's (store.ts:443) |
| `Sidebar`, `Legacy` | `NewestFirst` | the comparison is not transitive when rows with and without an activity time share a millisecond |
| `HomeComposer` | `StartsOnItsProject` | a checkout answered after the project changed sets the branch of the new one, and a send carries it (ComposerController.tsx:1549; the comment at :520 says never) |
| `HomeComposer` | `HomeKeepsTyped` | text typed during a send is erased by its success |
| `ForkDraft` | `DraftKeepsTyped` | text typed, or seeded after a release, during a send is erased by its success |
| `ForkDraft` | `DraftStaysAlways` | an answer that comes after its send's release was read empties the input that was seeded again; the draft is then neither in the input nor in the conversation |
| `ForkDraft` | `RetryHasItsId` | a page that was reloaded takes an old release for a new one, and the retry of an accepted send gets a new id (sessionSpecs.ts:154) |
| `ForkDraft` | `EditsSurvive` | a reload seeds the draft again over its edit |
| `Posture` | `ModelKeepsPermissions` | choosing a model for a session this browser did not make, or whose last answer was lost, sends full permissions, or old ones (ComposerController.tsx:908) |
| `Posture` | `PillNeverLies` | two switches on their way, or one whose answer is lost, leave the pill at another posture than the session's |
| `Review` | `ActionsAreTold` | a commit whose push is refused or whose answer is lost, and a revert that fails at clean, have changed the workspace and bump nothing (DiffView.tsx:538, SupervisionPanel.tsx:522, ChangesOutcome.tsx:481; store.ts says every such action bumps): card and rail state what is gone until something else makes them read |
| `Review` | `ReloadKeepsScope` | an action's reload brings the scope it was clicked with, under the toolbar of the scope picked since |
| `Review` | `ReviewLandsOnItsScope` | the card's Review with the hint of the click before is not heard, and does not undo a scope picked since |
| `DiffBody` | `RevealedRowsAreNumbered` | a line revealed behind a band carries its number of the new side on both sides; behind a change that adds or removes lines the split view's left gutter is wrong (DiffView.tsx:1134). Where the changes before it balance, `RowsTellTheFile` checks the number |
| `DiffBody`, `DashedLines` | `RowsTellTheFile` | a changed line that begins with "-- " or "++ " is taken for a header |
| `DiffBody`, `BlankTails` or `Rewrites` | `RowsTellTheFile` | a blank last line is dropped from the file that is read; a file written between diff and read shows other lines than the diff was of |
| `TimelineScroll`, `Races`, `Keys` or `Native` | `RenderKeepsReader` | a row that arrives between a gesture and its scroll event, a reader who uses the keyboard, or a block that opens or closes without a render moves the reader or lets the tail go |
| `TimelineScroll`, `Nudges` or `Hasty` | `PlaceIsFound` | a reader just above the tail, or one who leaves with a movement on its way, comes back elsewhere |

Smaller things that were seen while reading, none of them in a model:

- Composer: a session that fails to start after its worktree was made leaves the worktree;
  a new session has no request id, so a lost answer makes two; a background run and a
  goal route after the refresh, against the comment at ComposerController.tsx:869; the
  result of "optimise" replaces what was typed meanwhile (composerOptimize.ts:17); an
  upload that lands after a send attaches to the next message.
- Session page: pending rows leave by text, so two equal texts and a withdrawal leave a
  ghost; answers carry no id of the question they answer.
- Goals: `GoalResumed` leaves `Exhausted` set, though state.go:1830 says otherwise; an
  update's pending state has no ceiling.
- Focus: an approval mounts the Environment rail, which takes the focus from an open
  dialog and strands it when it ends (SessionFeature.tsx:798); modals without
  `returnFocus` leave it on the body; one slot for modals replaces one with unsaved
  edits; Escape in the find bar closes the rail behind it; the keyboard's next session
  walks onto rows of folded groups (Sidebar.tsx:301).

## 6. Plan

Done: `Journal`, `EventStore`, `CommandLog`, `SessionInbox`, `Hosting` with `Delivery`, `Effects`,
`Series`, `Goal` with `GoalBar`, `Schedule`, `SessionPage`, `MCReview` and `MCConsole`, each
with its proofs; `Timeline`, model-checked.

Theorems that would come next: the thread of every journal, by induction on the journal, and
the rows of every diff. `SessionPageProof` has lemmas about folds to cite (`FoldSolved`),
`SeriesProof` has lemmas on sums and least numbers to cite, `EventStoreProof` on prefixes.

Modules that would come next: `Tree` (spawn and reservation, with a bag of budgets whose sum is constant as the abstract
specification), and an abstract tool call (requested, decided, run at most once, answered)
that `Effects` implements.

## 7. Hazards without a property

In `PROJECT.json`: which snapshot a resume chooses (store/snapshot.go:80), which no module
has; and two whose property is known to fail, so that no run can guard them: the torn
line of the mailbox (`MailboxReadable`, inbox.go:123) and the full peer port
(`NoneSwallowed`, router.go:159).

Known, and left out of the list there because the models do not reach them: the
approval retry (daemon.go:555); a forked tree's children without a seeded watermark
(fork.go:143); the revival of a closed member while its parent settles (revive.go:102); a
verifier's timer that a crash leaves in the fold (goal.go:302). Stated by a property that is
known to fail, so that it guards nothing yet: path grants (`ApprovedReaches`,
approval.go:273), late interrupts (`InterruptRecorded`, loop.go:381), an input set aside
that answers a question after a crash (`EffectivelyOnce`, loop.go:265), a mailbox with two
writers (`NoneSwallowed`, inbox.go:134), the lost decision of a series
(`DecisionSticks`, series.go:464).

## 8. What is not modelled

Within the modelled components:

- `EventStore`: the JSON of an envelope and the redaction of secrets; disk-full as
  anything but a failing append. The write of the pid, whose error the code ignores
  (eventstore.go:143), is taken to succeed; if it fails, the probe misses the host until
  the session is opened again.
- `CommandLog`: the list of fields a payload comparison looks at.
- `SessionInbox`: content, slash commands, messages forwarded to other members, wakes by
  background work, timers and controls, the idle's approval park.
- `Hosting`: several sessions, drives (in `Series`), approvals, members of a tree and
  their kill marks, forked and read-only sessions; a close and an input in one loop are
  settled in any order.
- `Effects`: generations and their retries, `ask_user` (in `SessionInbox`), spawn and
  hand-off to other agents, goal verifiers, the kill face's authorisation, process
  identity across a reboot. One batch is modelled; later batches start from a session
  at rest, which `RestOwesNothing` describes.
- `Series`: config updates, best-of-N, goal-mode re-derivation at resume (no path of
  the daemon resumes such a series), the judge's own usage, failing appends, the
  legacy driver stream.
- `Schedule`: cron cadences, an update of a schedule, timers of other owners.
- `Goal`: how a verdict is reached, the token budget, a command verifier's timer.
- `Review`: a call whose connection breaks before git was served counts as never served; apply,
  remove, init and branch take the way of a commit.
- The console's modules: what each leaves out is in its header, and in `PROJECT.json`.

Whole components, with the reason in `PROJECT.json`: workspace snapshots and tools
(git, files, processes), providers and MCP (remote services), prompts, compaction and
specs (text), cron arithmetic (pure and table-tested), the index (a rebuildable
cache), the CLI, configuration and utilities; in the browser, focus and overlays, views,
settings, composer helpers, stories.

Of the browser's TypeScript nearly half is stories, fixtures and recorded demos. Of
the rest most is markup: functions from properties to elements, with a handler that
calls one function of the store. A definition that stood for such a file would say
nothing that could be wrong, so the models stop at the controllers, the store and the
folds, and the share of lines they stand for stays small.
