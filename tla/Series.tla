-------------------------------- MODULE Series --------------------------------
(***************************************************************************)
(* A drive series: a program-driven session that runs one child session    *)
(* per iteration, on a cadence, until a decision ends it; the daemon that  *)
(* hosts its runner, delivers pause and resume, and hosts it again after a *)
(* shutdown or a crash.  Every append to the series' journal is one step.  *)
(*                                                                         *)
(* `sr' is the fold of the journal (state.Series), `timers' its pending    *)
(* wake hints, `child' the journals under sub/iter-N-aM, `mailbox' the     *)
(* durable controls: they survive a crash.  `run' is the runner's memory,  *)
(* the rest the daemon's.  Time counts from 1 up; 0 is the zero time.      *)
(***************************************************************************)
EXTENDS Integers, Sequences, FiniteSets

CONSTANTS
  Specs,        \* the drive specs an instance may run
  MaxIter,      \* maxIterations of each of them
  Floor, Ceil,  \* pace_min and pace_max of the self-paced ones
  Paces,        \* the delays a child may ask for with schedule_next
  Steered,      \* those of them whose series users pause and resume
  MaxControls,  \* bound on the controls sent
  Stops,        \* whether a user may stop the hosted series
  MaxFaults,    \* bound on crashes and shutdowns of the daemon
  MaxTime       \* bound on the clock

(* A drive spec.  `every' is the cadence in clock units, 0 for back to     *)
(* back; `attempts' what on_child_failure=retry allows; `cap' the token    *)
(* budget of the tree, 0 for none; `judged' whether it has verifiers.      *)
DriverSpec == [schedule : {"immediate", "interval", "cron", "self_paced"},
               every : Nat, overlap : {"skip", "coalesce"},
               onFailure : {"stop", "surface", "retry"}, attempts : Nat \ {0},
               onNoIntent : {"finish", "continue"}, patience : Nat,
               cap : Nat, judged : BOOLEAN]

ASSUME SeriesAssumption ==
  /\ Specs \subseteq DriverSpec
  /\ \A s \in Specs : /\ s.schedule = "cron" => s.every > 0
                      /\ s.schedule = "immediate" => s.judged
                      /\ s.onFailure # "retry" => s.attempts = 1
  /\ MaxIter \in Nat \ {0} /\ MaxTime \in Nat \ {0}
  /\ Floor \in Nat \ {0} /\ Ceil \in Nat /\ Floor <= Ceil /\ Paces \subseteq Nat
  /\ Steered \subseteq Specs /\ MaxControls \in Nat
  /\ Stops \in BOOLEAN /\ MaxFaults \in Nat

VARIABLES
  spec,     \* the spec journaled on SessionStarted
  sr,       \* the folded series
  timers,   \* due times of the pending series_tick timers
  child,    \* the child journals, per iteration and attempt
  mailbox,  \* the controls accepted, in order; their ids are positions
  run,      \* the runner
  ctx,      \* cause of the run context's cancellation: "", "stop", "shutdown"
  hub,      \* the registered hub: "none", "live" or "done"
  queue,    \* ids of the controls in the hub
  daemon,   \* "up", "stopping" or "down"
  swept,    \* the boot sweep of this daemon has run
  checked,  \* the control request past the state check, not yet accepted, or ""
  revive,   \* an accepted control waits for the old hub to go
  now,      \* the clock
  faults,   \* crashes and shutdowns so far
  slot      \* history: the slot the unrecorded iteration consumed, or -1

durable == <<spec, sr, timers, child, mailbox>>
hosting == <<hub, queue, daemon, swept, checked, revive>>
vars == <<spec, sr, timers, child, mailbox, run, ctx, hub, queue, daemon,
          swept, checked, revive, now, faults, slot>>

Controls == {"pause", "resume"}
Loops == {"interval", "cron", "self_paced"}
LoopMode == spec.schedule \in Loops

-----------------------------------------------------------------------------
(* The fold of the series.                                                 *)

\* The sum of f[1] .. f[n].
Total(f, n) ==
  LET sum[k \in 0 .. n] == IF k = 0 THEN 0 ELSE sum[k - 1] + f[k]
  IN sum[n]

\* The iterations that ran: their records, skipped slots left out.
Ran(s) == {n \in DOMAIN s.iterations : ~s.iterations[n].skipped}

SpentTokens(s) ==
  Total([n \in DOMAIN s.iterations |->
           IF n \in Ran(s) THEN s.iterations[n].usage ELSE 0], Len(s.iterations))

\* Highest score wins; ties keep the earliest iteration.
BestIter(s) ==
  IF Ran(s) = {} THEN 0
  ELSE CHOOSE n \in Ran(s) :
         \A m \in Ran(s) :
           /\ s.iterations[m].score <= s.iterations[n].score
           /\ s.iterations[m].score = s.iterations[n].score => n <= m

FoldIteration(s, it) ==
  [s EXCEPT !.iterations = IF it.n \in DOMAIN @ THEN [@ EXCEPT ![it.n] = it]
                                                ELSE Append(@, it),
            !.lastTick = IF it.tick > @ THEN it.tick ELSE @,
            !.at = now]

\* Consecutive iterations without a better score end a run with patience.
SeriesStalled(s) ==
  LET best  == BestIter(s)
      score == IF best = 0 THEN 0 ELSE s.iterations[best].score
      worse == {n \in Ran(s) : n > best /\ s.iterations[n].score <= score}
  IN spec.patience > 0 /\ Cardinality(worse) >= spec.patience

SeriesLimitReason(s) ==
  IF /\ Ran(s) # {}
     /\ \A n \in Ran(s) : s.iterations[n].reason \in {"error", "canceled"}
  THEN "child_failed" ELSE "max_iterations"

Pending == {id \in DOMAIN mailbox : id \notin sr.handled}

ClampPace(after) == IF after < Floor THEN Floor
                    ELSE IF after > Ceil THEN Ceil ELSE after

\* The pace the last completed child declared, re-read from its journal.
DeclaredPace(intent) == IF intent.kind = "next" THEN ClampPace(intent.after) ELSE Floor

-----------------------------------------------------------------------------
(* The cadence.                                                            *)

\* The first slot after t: a fixed rate from t on, or the cron's calendar.
NextSlot(t) == IF spec.schedule = "cron" THEN ((t \div spec.every) + 1) * spec.every
                                         ELSE t + spec.every

\* Of the slots after t that are due, the last.
LastDue(t) == IF spec.schedule = "cron" THEN (now \div spec.every) * spec.every
                                        ELSE t + ((now - t) \div spec.every) * spec.every

\* The slot a resumed iteration is taken to have consumed when it spawned.
ConsumedSlotAfter(lastTick) ==
  CASE spec.schedule = "self_paced" -> 0
    [] spec.schedule = "interval"   -> IF spec.every = 0 \/ lastTick = 0 THEN now
                                       ELSE NextSlot(lastTick)
    [] spec.schedule = "cron"       -> NextSlot(IF lastTick = 0 THEN now - 1 ELSE lastTick)

-----------------------------------------------------------------------------
NoIntent == [kind |-> "none", after |-> 0]
Intents  == IF spec.schedule # "self_paced" THEN {NoIntent}
            ELSE {NoIntent, [kind |-> "finish", after |-> 0]}
                   \cup {[kind |-> "next", after |-> p] : p \in Paces}
NoChild  == [st |-> "none", used |-> 0, intent |-> NoIntent]
Attempts == 1 .. spec.attempts

Off == [pc |-> "off", n |-> 0, a |-> 0, lastTick |-> 0, pace |-> 0,
        inFlight |-> 0, tick |-> 0, spent |-> 0, allowance |-> 0, due |-> 0,
        pass |-> FALSE]

At(label) == run.pc = label
Goto(r, label) == run' = [r EXCEPT !.pc = label]

\* RunSeries: the journal is opened and the first hosting drives it.
Init ==
  /\ spec \in Specs
  /\ sr = [iterations |-> <<>>, lastTick |-> 0, paused |-> FALSE, ended |-> "",
           handled |-> {}, epoch |-> 0, at |-> 0]
  /\ timers = {} /\ child = [n \in 1 .. MaxIter |-> [a \in Attempts |-> NoChild]]
  /\ mailbox = <<>>
  /\ run = [Off EXCEPT !.pc = "boundary", !.n = 1]
  /\ ctx = "" /\ hub = "live" /\ queue = <<>>
  /\ daemon = "up" /\ swept = TRUE /\ checked = "" /\ revive = FALSE
  /\ now = 1 /\ faults = 0
  /\ slot = -1

(* Records of the runner.  `epoch' is history: how many times the series   *)
(* had been resumed by then; `sr.at' is when the last record was written.  *)
Rec(reason, score) ==
  [n |-> run.n, skipped |-> FALSE, a |-> run.a, reason |-> reason, score |-> score,
   usage |-> run.spent, tick |-> run.tick, epoch |-> sr.epoch]
SkippedRec(tick) ==
  [n |-> run.n, skipped |-> TRUE, a |-> 0, reason |-> "overlap", score |-> 0,
   usage |-> 0, tick |-> tick, epoch |-> sr.epoch]

Return == Goto([Off EXCEPT !.n = run.n], "returned")

FinishSeries(reason) ==
  /\ sr' = [sr EXCEPT !.ended = reason, !.paused = FALSE]
  /\ Return

\* A graceful host shutdown leaves a cadenced series without a terminal.
SeriesCancelTerminal ==
  IF ctx = "shutdown" /\ LoopMode THEN Return /\ UNCHANGED sr
                                  ELSE FinishSeries("cancelled")

NextIteration(pace) == Goto([run EXCEPT !.n = @ + 1, !.a = 0, !.tick = 0, !.spent = 0,
                                        !.allowance = 0, !.pass = FALSE, !.pace = pace],
                            "boundary")

(* Applying a control: the domain fact or CommandHandled carries its id.   *)
TakesPause(id) == sr.ended = "" /\ mailbox[id] = "pause"
Applied(id) ==
  LET h == [sr EXCEPT !.handled = @ \cup {id}]
  IN CASE TakesPause(id) -> [h EXCEPT !.paused = TRUE]
       [] sr.ended = "" /\ mailbox[id] = "resume" /\ sr.paused ->
            [h EXCEPT !.paused = FALSE, !.lastTick = now, !.epoch = @ + 1]
       [] OTHER -> h

Daemon == UNCHANGED <<hub, daemon, swept, checked, revive>>
Others == UNCHANGED <<now, faults>>
Unseen == UNCHANGED <<spec, mailbox, ctx, queue>> /\ Daemon /\ Others
RunnerOnly == Unseen /\ UNCHANGED slot

-----------------------------------------------------------------------------
(* Resuming: the position is re-derived from the fold.                     *)

\* The latest iteration that ran, or 0.
LastCompleted == IF Ran(sr) = {} THEN 0
                 ELSE CHOOSE n \in Ran(sr) : \A m \in Ran(sr) : m <= n

HasChildJournal(n) == n <= MaxIter /\ \E a \in Attempts : child[n][a].st # "none"

\* The pace a resumed runner starts from: none after a resume.
ResumedPace(last, resumedNow) ==
  IF spec.schedule = "self_paced" /\ last > 0 /\ ~resumedNow
  THEN DeclaredPace(child[last][sr.iterations[last].a].intent) ELSE 0

\* Mutant: the pace was the dead runner's memory.
Position_PaceForgotten(s, resumedNow) ==
  LET n == Len(s.iterations) + 1
  IN [Off EXCEPT !.n = n, !.lastTick = s.lastTick,
                 !.inFlight = IF HasChildJournal(n) THEN n ELSE 0]

Position(s, resumedNow) ==
  LET n == Len(s.iterations) + 1
  IN [Off EXCEPT !.n = n, !.lastTick = s.lastTick,
                 !.pace = ResumedPace(LastCompleted, resumedNow),
                 !.inFlight = IF HasChildJournal(n) THEN n ELSE 0]

\* Pending ticks are wake hints; the cadence comes from the fold.
ResumeSeries ==
  /\ At("resume")
  /\ timers' = {}
  /\ \/ sr.ended # "" /\ Goto(run, "ended")
     \/ sr.ended = "" /\ sr.paused /\ Goto(run, "await_resume")
     \/ sr.ended = "" /\ ~sr.paused /\ Goto(Position(sr, FALSE), "boundary")
  /\ UNCHANGED <<sr, child>> /\ RunnerOnly

\* An ended series only settles the controls that were delivered to it.
DrainEnded ==
  /\ At("ended")
  /\ \/ /\ queue # <<>>
        /\ sr' = Applied(Head(queue)) /\ queue' = Tail(queue)
        /\ UNCHANGED run
     \/ /\ Return /\ UNCHANGED <<sr, queue>>
  /\ UNCHANGED <<spec, timers, child, mailbox, ctx>> /\ Daemon /\ UNCHANGED slot /\ Others

\* A paused series waits for a control; a further pause, or the end of its
\* hosting, leaves it paused.
AwaitSeriesResume ==
  /\ At("await_resume")
  /\ \/ /\ queue # <<>>
        /\ sr' = Applied(Head(queue)) /\ queue' = Tail(queue)
        /\ IF sr'.paused THEN Return ELSE Goto(Position(sr', TRUE), "boundary")
     \/ /\ ctx # "" /\ Return
        /\ UNCHANGED <<sr, queue>>
  /\ UNCHANGED <<spec, timers, child, mailbox, ctx>> /\ Daemon /\ UNCHANGED slot /\ Others

-----------------------------------------------------------------------------
(* The drive loop.                                                         *)

BoundaryCancelled ==
  /\ At("boundary") /\ ctx # ""
  /\ SeriesCancelTerminal
  /\ UNCHANGED <<timers, child>> /\ RunnerOnly

DrainSeriesControls ==
  /\ At("boundary") /\ ctx = "" /\ queue # <<>>
  /\ sr' = Applied(Head(queue)) /\ queue' = Tail(queue)
  /\ IF TakesPause(Head(queue)) THEN Return ELSE UNCHANGED run
  /\ UNCHANGED <<spec, timers, child, mailbox, ctx>> /\ Daemon /\ UNCHANGED slot /\ Others

\* Mutant: one iteration too many.
PastBoundary_OneMore == At("boundary") /\ ctx = "" /\ run.n <= MaxIter + 1

\* The drain does not wait: a control its hub has not handed over yet is not
\* seen, so the boundary may be passed with a control in the queue.
PastBoundary == At("boundary") /\ ctx = "" /\ run.n <= MaxIter

IterationLimit ==
  /\ At("boundary") /\ ctx = "" /\ run.n > MaxIter
  /\ FinishSeries(SeriesLimitReason(sr))
  /\ UNCHANGED <<timers, child>> /\ RunnerOnly

\* Starting an iteration: its allowance is reserved and its spawn is recorded.
StartAt(tick, lastTick) ==
  LET remaining == spec.cap - SpentTokens(sr)
  IN IF spec.cap > 0 /\ remaining <= 0
     THEN FinishSeries("budget")
     ELSE /\ Goto([run EXCEPT !.tick = tick, !.lastTick = lastTick, !.due = 0, !.a = 1,
                              !.allowance = IF spec.cap > 0 THEN remaining ELSE 0], "open")
          /\ UNCHANGED sr

\* The iteration in flight has consumed its slot already.
ResumeInFlight ==
  /\ PastBoundary /\ LoopMode /\ run.n = run.inFlight
  /\ LET t == ConsumedSlotAfter(run.lastTick)
     IN StartAt(t, IF t = 0 THEN run.lastTick ELSE t)
  /\ UNCHANGED <<timers, child>> /\ RunnerOnly

-----------------------------------------------------------------------------
(* The cadence: run now, record a missed slot, or arm a wake hint and wait. *)

AtCadence == PastBoundary /\ LoopMode /\ run.n # run.inFlight

Arm(due, lastTick) ==
  /\ timers' = timers \cup {due}
  /\ Goto([run EXCEPT !.due = due, !.lastTick = lastTick], "wait")

TickAtOnce ==
  /\ PastBoundary
  /\ \/ ~LoopMode /\ StartAt(0, 0)
     \/ /\ AtCadence /\ spec.schedule = "interval"
        /\ \/ spec.every = 0 /\ StartAt(now, run.lastTick)
           \/ spec.every > 0 /\ run.n = 1 /\ StartAt(now, now)
     \/ /\ AtCadence /\ spec.schedule = "self_paced"
        /\ run.n = 1 \/ run.pace = 0
        /\ StartAt(0, run.lastTick)
  /\ UNCHANGED <<timers, child>> /\ RunnerOnly

TickSelfPaced ==
  /\ AtCadence /\ spec.schedule = "self_paced" /\ run.n > 1 /\ run.pace > 0
  /\ Arm(now + run.pace, run.lastTick)
  /\ UNCHANGED <<sr, child>> /\ RunnerOnly

TickOnTimeline ==
  /\ AtCadence
  /\ \/ spec.schedule = "interval" /\ spec.every > 0 /\ run.n > 1
     \/ spec.schedule = "cron"
  /\ LET last == IF run.lastTick = 0 THEN now ELSE run.lastTick
         next == NextSlot(last)
     IN \/ /\ next > now
           /\ Arm(next, last)
           /\ UNCHANGED sr
        \/ /\ next <= now /\ spec.overlap = "coalesce"
           /\ StartAt(LastDue(last), LastDue(last))
           /\ UNCHANGED timers
        \/ /\ next <= now /\ spec.overlap = "skip"
           /\ sr' = FoldIteration(sr, SkippedRec(next))
           /\ Goto([run EXCEPT !.n = @ + 1, !.lastTick = next], "boundary")
           /\ UNCHANGED timers
  /\ UNCHANGED child /\ RunnerOnly

TimerFired ==
  /\ At("wait") /\ now >= run.due
  /\ timers' = timers \ {run.due}
  /\ IF spec.schedule = "self_paced" THEN StartAt(0, run.lastTick)
                                     ELSE StartAt(run.due, run.due)
  /\ UNCHANGED child /\ RunnerOnly

\* The wake hint goes before the pause is recorded.
PauseCancelsWait ==
  /\ At("wait") /\ queue # <<>> /\ TakesPause(Head(queue))
  /\ timers' = timers \ {run.due}
  /\ Goto(run, "pausing")
  /\ UNCHANGED <<sr, child>> /\ RunnerOnly

PauseWait ==
  /\ At("pausing")
  /\ sr' = Applied(Head(queue)) /\ queue' = Tail(queue)
  /\ Return
  /\ UNCHANGED <<spec, timers, child, mailbox, ctx>> /\ Daemon /\ UNCHANGED slot /\ Others

ControlInWait ==
  /\ At("wait") /\ queue # <<>> /\ ~TakesPause(Head(queue))
  /\ sr' = Applied(Head(queue)) /\ queue' = Tail(queue)
  /\ UNCHANGED <<spec, timers, child, mailbox, run, ctx>> /\ Daemon /\ UNCHANGED slot /\ Others

WaitCancelled ==
  /\ At("wait") /\ ctx # ""
  /\ SeriesCancelTerminal
  /\ UNCHANGED <<timers, child>> /\ RunnerOnly

-----------------------------------------------------------------------------
(* One iteration: reserve, run the attempts, judge, record, decide.        *)

Me == child[run.n][run.a]

\* Mutant: only the last attempt is billed.
Settle_LastAttempt(c) ==
  LET r == [run EXCEPT !.spent = c.used]
  IN CASE c.st = "done"                            -> Goto(r, "judge")
       [] c.st # "done" /\ ctx # ""                -> Goto(r, "cancel")
       [] c.st # "done" /\ ctx = "" /\ run.a < spec.attempts
                                                   -> Goto([r EXCEPT !.a = @ + 1], "open")
       [] OTHER                                    -> Goto(r, "fail")

\* What the end of an attempt leads to; its spend is settled with it.
Settle(c) ==
  LET r == [run EXCEPT !.spent = @ + c.used]
  IN CASE c.st = "done"                            -> Goto(r, "judge")
       [] c.st # "done" /\ ctx # ""                -> Goto(r, "cancel")
       [] c.st # "done" /\ ctx = "" /\ run.a < spec.attempts
                                                   -> Goto([r EXCEPT !.a = @ + 1], "open")
       [] OTHER                                    -> Goto(r, "fail")

\* A child that is quiescent settles from its journal and never runs again.
SettleChild ==
  /\ At("open") /\ Me.st \in {"done", "failed"}
  /\ Settle(Me)
  /\ UNCHANGED <<sr, timers, child>> /\ RunnerOnly

\* A child spends as it runs, and again when it is resumed, up to its allowance.
Limit == IF spec.cap = 0 THEN 2 ELSE run.allowance
RunChild ==
  /\ At("open") /\ Me.st \in {"none", "open"}
  /\ child' = [child EXCEPT ![run.n][run.a].st = "open",
                            ![run.n][run.a].used = IF @ < Limit THEN @ + 1 ELSE @]
  /\ slot' = IF slot = -1 THEN run.tick ELSE slot
  /\ Goto(run, "child")
  /\ UNCHANGED <<sr, timers>> /\ Unseen

ChildEnds ==
  /\ At("child")
  /\ \/ \E i \in Intents : child' = [child EXCEPT ![run.n][run.a].st = "done",
                                                  ![run.n][run.a].intent = i]
     \/ child' = [child EXCEPT ![run.n][run.a].st = "failed"]
  /\ Settle(child'[run.n][run.a])
  /\ UNCHANGED <<sr, timers>> /\ RunnerOnly

ChildCancelled ==
  /\ At("child") /\ ctx # ""
  /\ Settle(Me)
  /\ UNCHANGED <<sr, timers, child>> /\ RunnerOnly

JudgeIteration ==
  /\ At("judge")
  /\ \E score \in IF spec.judged THEN {0, 1} ELSE {0},
        pass \in IF spec.schedule = "immediate" THEN BOOLEAN ELSE {FALSE} :
       /\ sr' = FoldIteration(sr, Rec("completed", score))
       /\ Goto([run EXCEPT !.pass = pass], "decide")
  /\ UNCHANGED <<timers, child>> /\ Unseen /\ slot' = -1

DecideNext ==
  /\ At("decide")
  /\ \/ /\ spec.schedule = "immediate"
        /\ IF run.pass THEN FinishSeries("satisfied")
           ELSE IF SeriesStalled(sr) THEN FinishSeries("stalled")
           ELSE NextIteration(0) /\ UNCHANGED sr
     \/ /\ spec.schedule \in {"interval", "cron"}
        /\ NextIteration(0) /\ UNCHANGED sr
     \/ /\ spec.schedule = "self_paced" /\ Me.intent.kind = "next"
        /\ NextIteration(ClampPace(Me.intent.after)) /\ UNCHANGED sr
     \/ /\ spec.schedule = "self_paced" /\ Me.intent.kind = "none"
        /\ IF spec.onNoIntent = "continue" THEN NextIteration(Floor) /\ UNCHANGED sr
                                           ELSE FinishSeries("satisfied")
  /\ UNCHANGED <<timers, child>> /\ RunnerOnly

\* finish_series asks a person; a cancelled hosting is a refusal.
Asking == At("decide") /\ Me.intent.kind = "finish"
ConfirmFinish ==
  /\ Asking /\ ctx = ""
  /\ \/ FinishSeries("satisfied")
     \/ NextIteration(Floor) /\ UNCHANGED sr
  /\ UNCHANGED <<timers, child>> /\ RunnerOnly
ConfirmCancelled ==
  /\ Asking /\ ctx # ""
  /\ NextIteration(Floor)
  /\ UNCHANGED <<sr, timers, child>> /\ RunnerOnly

FailIteration ==
  /\ At("fail")
  /\ sr' = FoldIteration(sr, Rec("error", 0))
  /\ Goto(run, "failed")
  /\ UNCHANGED <<timers, child>> /\ Unseen /\ slot' = -1

\* on_child_failure; the retries are used up by now.
AfterFailure ==
  /\ At("failed")
  /\ IF spec.onFailure # "surface" THEN FinishSeries("child_failed")
     ELSE IF SeriesStalled(sr) THEN FinishSeries("stalled")
     ELSE NextIteration(run.pace) /\ UNCHANGED sr
  /\ UNCHANGED <<timers, child>> /\ RunnerOnly

CancelIteration ==
  /\ At("cancel")
  /\ sr' = FoldIteration(sr, Rec("canceled", 0))
  /\ Goto(run, "canceled")
  /\ UNCHANGED <<timers, child>> /\ Unseen /\ slot' = -1

AfterCancel ==
  /\ At("canceled")
  /\ SeriesCancelTerminal
  /\ UNCHANGED <<timers, child>> /\ RunnerOnly

-----------------------------------------------------------------------------
(* The daemon.                                                             *)

\* The ids of a set, lowest first.
Ascending(S) ==
  {s \in [1 .. Cardinality(S) -> S] :
     {s[i] : i \in DOMAIN s} = S /\ \A i, j \in DOMAIN s : i < j => s[i] < s[j]}

\* hostResumeDrive, with the replay of the pending controls into the new hub.
Host(box) ==
  /\ hub = "none" /\ daemon = "up"
  /\ hub' = "live" /\ ctx' = ""
  /\ queue' \in Ascending({id \in DOMAIN box : id \notin sr.handled})
  /\ run' = [Off EXCEPT !.pc = "resume"]

HubFinish ==
  /\ At("returned") /\ hub = "live"
  /\ hub' = "done" /\ queue' = <<>>
  /\ UNCHANGED <<durable, run, ctx, daemon, swept, checked, revive>> /\ UNCHANGED slot /\ Others

Deregister ==
  /\ hub = "done"
  /\ hub' = "none" /\ run' = Off /\ ctx' = ""
  /\ UNCHANGED <<durable, queue, daemon, swept, checked, revive>> /\ UNCHANGED slot /\ Others

\* Mutant: a self-paced series is not taken for a cadenced one.
BootSweepDrives_TimelineOnly ==
  /\ daemon = "up" /\ ~swept /\ swept' = TRUE
  /\ IF /\ spec.schedule \in {"interval", "cron"}
        /\ sr.ended = "" /\ sr.paused => Pending # {} /\ hub = "none"
     THEN Host(mailbox) ELSE UNCHANGED <<hub, ctx, queue, run>>
  /\ UNCHANGED <<durable, daemon, checked, revive>> /\ UNCHANGED slot /\ Others

\* Only a cadenced series that has not ended is hosted again at boot, and a
\* paused one only if a control of its is pending.
BootSweepDrives ==
  /\ daemon = "up" /\ ~swept /\ swept' = TRUE
  /\ IF /\ LoopMode /\ sr.ended = "" /\ sr.paused => Pending # {}
        /\ hub = "none"
     THEN Host(mailbox) ELSE UNCHANGED <<hub, ctx, queue, run>>
  /\ UNCHANGED <<durable, daemon, checked, revive>> /\ UNCHANGED slot /\ Others

\* handleSeriesControl reads the journal before it takes the command lock.
CheckControl(k) ==
  /\ daemon # "down" /\ checked = "" /\ Len(mailbox) < MaxControls
  /\ spec \in Steered /\ LoopMode /\ sr.ended = "" /\ sr.paused # (k = "pause")
  /\ checked' = k
  /\ UNCHANGED <<durable, run, ctx, hub, queue, daemon, swept, revive>> /\ UNCHANGED slot /\ Others

AcceptControl(k) ==
  /\ daemon # "down" /\ checked = k /\ Len(mailbox) < MaxControls
  /\ checked' = ""
  /\ mailbox' = Append(mailbox, k)
  /\ \/ hub = "none" /\ daemon = "up" /\ Host(mailbox') /\ UNCHANGED revive
     \/ hub = "none" /\ daemon # "up" /\ UNCHANGED <<run, ctx, hub, queue, revive>>
     \/ hub = "live" /\ queue' = Append(queue, Len(mailbox'))
                     /\ UNCHANGED <<run, ctx, hub, revive>>
     \/ hub = "done" /\ revive' = TRUE /\ UNCHANGED <<run, ctx, hub, queue>>
  /\ UNCHANGED <<spec, sr, timers, child, daemon, swept>> /\ UNCHANGED slot /\ Others

\* reviveDriveAcceptedAfter: once the old hub has gone.
ReviveDrive ==
  /\ revive /\ hub # "done" /\ revive' = FALSE
  /\ IF hub = "none" /\ daemon = "up" THEN Host(mailbox) ELSE UNCHANGED <<run, ctx, hub, queue>>
  /\ UNCHANGED <<durable, daemon, swept, checked>> /\ UNCHANGED slot /\ Others

\* Stopping a run that has returned changes nothing.
UserStop ==
  /\ Stops /\ daemon = "up" /\ hub = "live" /\ ~At("returned")
  /\ ctx = "" /\ ctx' = "stop"
  /\ UNCHANGED <<durable, run, hosting, slot>> /\ Others

Shutdown ==
  /\ daemon = "up" /\ faults < MaxFaults /\ faults' = faults + 1
  /\ daemon' = "stopping"
  /\ ctx' = IF hub = "live" /\ ctx = "" THEN "shutdown" ELSE ctx
  /\ UNCHANGED <<durable, run, hub, queue, swept, checked, revive, now, slot>>

Die == /\ daemon' = "down" /\ hub' = "none" /\ ctx' = "" /\ queue' = <<>>
       /\ run' = Off /\ checked' = "" /\ revive' = FALSE
       /\ UNCHANGED <<durable, swept, now, slot>>
Exit  == daemon = "stopping" /\ hub = "none" /\ Die /\ UNCHANGED faults
Crash == daemon # "down" /\ faults < MaxFaults /\ faults' = faults + 1 /\ Die
Boot  == /\ daemon = "down" /\ daemon' = "up" /\ swept' = FALSE
         /\ UNCHANGED <<durable, run, ctx, hub, queue, checked, revive>> /\ UNCHANGED slot /\ Others

\* The clock moves while the runner waits for something or is not there; its
\* own steps take no time.
Tick == /\ now < MaxTime /\ now' = now + 1
        /\ run.pc \in {"off", "wait", "child", "decide", "await_resume"}
        /\ UNCHANGED <<durable, run, ctx, hosting, faults, slot>>

RunnerStep ==
  \/ ResumeSeries \/ DrainEnded \/ AwaitSeriesResume
  \/ BoundaryCancelled \/ DrainSeriesControls \/ IterationLimit \/ ResumeInFlight
  \/ TickAtOnce \/ TickSelfPaced \/ TickOnTimeline \/ TimerFired
  \/ PauseCancelsWait \/ PauseWait \/ ControlInWait \/ WaitCancelled
  \/ SettleChild \/ RunChild \/ ChildEnds
  \/ ChildCancelled \/ JudgeIteration \/ DecideNext \/ ConfirmCancelled
  \/ FailIteration \/ AfterFailure \/ CancelIteration \/ AfterCancel
HostStep == HubFinish \/ Deregister \/ BootSweepDrives \/ ReviveDrive \/ Exit \/ Boot
Next == \/ RunnerStep \/ HostStep \/ ConfirmFinish
        \/ \E k \in Controls : CheckControl(k) \/ AcceptControl(k)
        \/ UserStop \/ Shutdown \/ Crash \/ Tick

Spec == Init /\ [][Next]_vars
\* The runner's and the daemon's goroutines run, time passes; nobody owes a
\* control, a stop, an answer or a fault.
FairSpec == Spec /\ WF_vars(RunnerStep) /\ WF_vars(HostStep) /\ WF_vars(Tick)

-----------------------------------------------------------------------------
(* Properties.                                                             *)

Iteration == [n : 1 .. MaxIter, skipped : BOOLEAN, a : {0} \cup Attempts,
              reason : {"completed", "error", "canceled", "overlap"}, score : {0, 1},
              usage : Nat, tick : Nat, epoch : Nat]
Ends == {"", "satisfied", "stalled", "budget", "cancelled", "child_failed",
         "max_iterations"}
Fold == [iterations : Seq(Iteration), lastTick : Nat, paused : BOOLEAN, ended : Ends,
         handled : SUBSET Nat, epoch : Nat, at : Nat]
Labels == {"off", "resume", "ended", "await_resume", "boundary", "wait",
           "pausing", "open", "child", "judge", "decide", "fail",
           "failed", "cancel", "canceled", "returned"}
Runner == [pc : Labels, n : Nat, a : Nat, lastTick : Nat, pace : Nat, inFlight : Nat,
           tick : Nat, spent : Nat, allowance : Nat, due : Nat, pass : BOOLEAN]
Child == [st : {"none", "open", "done", "failed"}, used : Nat, intent : Intents]

\* The variables have their types, and iteration n is the n-th record.
SeriesTypeOK ==
  /\ spec \in Specs
  /\ sr \in Fold /\ Len(sr.iterations) <= MaxIter
  /\ \A n \in DOMAIN sr.iterations : sr.iterations[n].n = n
  /\ mailbox \in Seq(Controls) /\ sr.handled \subseteq DOMAIN mailbox
  /\ timers \in SUBSET Nat
  /\ child \in [1 .. MaxIter -> [Attempts -> Child]]
  /\ run \in Runner
  /\ ctx \in {"", "stop", "shutdown"} /\ hub \in {"none", "live", "done"}
  /\ daemon \in {"up", "stopping", "down"} /\ swept \in BOOLEAN /\ revive \in BOOLEAN
  /\ queue \in Seq(DOMAIN mailbox) /\ checked \in Controls \cup {""}
  /\ now \in 1 .. MaxTime /\ faults \in 0 .. MaxFaults
  /\ slot \in Nat \cup {-1}

\* Work that was started is accounted for: an iteration whose child has run is
\* never written off as a slot that was skipped (series.go, resumeInFlightN).
InFlightIsRun ==
  \A n \in DOMAIN sr.iterations :
     sr.iterations[n].skipped => \A a \in Attempts : child[n][a].st = "none"

\* The budget position is the truth: the record of an iteration that ran to its
\* end bills every attempt once, whatever crashes fell between them.
UsageOf(n) == Total([a \in Attempts |-> child[n][a].used], spec.attempts)
TreeUsage == Total([n \in 1 .. MaxIter |-> UsageOf(n)], MaxIter)
SpendIsExact ==
  \A n \in DOMAIN sr.iterations :
     sr.iterations[n].reason # "canceled" => sr.iterations[n].usage = UsageOf(n)

\* The tree stays within its cap, recorded or in flight.
BudgetKept ==
  spec.cap > 0 /\ spec.onFailure # "retry" =>
     TreeUsage <= spec.cap

\* A paused series runs nothing: neither a child, nor a wait that would end.
PausedRunsNothing ==
  sr.paused => run.pc \in {"off", "resume", "await_resume", "ended", "returned"}

\* Every slot is a record: under overlap=skip the slots of consecutive
\* iterations follow each other, unless a resume re-anchored the cadence.
SkipLeavesNoGap ==
  spec.schedule \in {"interval", "cron"} /\ spec.overlap = "skip" /\ spec.every > 0 =>
     \A n \in 2 .. Len(sr.iterations) :
        LET before == sr.iterations[n - 1] after == sr.iterations[n]
        IN before.epoch = after.epoch => after.tick = NextSlot(before.tick)

\* What the journal says of a series agrees with its children, its budget, its
\* pauses and its cadence.
SeriesIsExact ==
  InFlightIsRun /\ SpendIsExact /\ BudgetKept /\ PausedRunsNothing /\ SkipLeavesNoGap

\* A child's declared pace is kept across restarts: the next iteration starts
\* no sooner, unless a resume came in between.
PaceHonoured ==
  \A n \in 2 .. MaxIter :
      /\ spec.schedule = "self_paced"
      /\ child[n][1].st = "none" /\ child'[n][1].st # "none"
      /\ sr.iterations[n - 1].reason = "completed"
      /\ sr.iterations[n - 1].epoch = sr.epoch
      => LET last == sr.iterations[n - 1]
         IN now >= sr.at + DeclaredPace(child[n - 1][last.a].intent)

\* The end is final: no iteration, no child and no wake hint after it.
EndedIsFinal ==
  sr.ended # "" => /\ sr'.ended = sr.ended /\ sr'.iterations = sr.iterations
                    /\ child' = child /\ timers' \subseteq timers

\* Only a user's stop cancels a cadenced series; a shutdown leaves it to the
\* next boot (DESIGN.md, INC-72).
OnlyUserCancels ==
  LoopMode /\ sr.ended = "" /\ sr'.ended = "cancelled" => ctx = "stop"

\* No step of a series launches early, goes on after the end, or takes a
\* shutdown for a cancellation.
SeriesKeepsItsWord == [][PaceHonoured /\ EndedIsFinal /\ OnlyUserCancels]_vars

\* Every cadenced series comes to rest: it ends, pauses, waits for a person, or
\* for a slot beyond the bound on the clock.
AtRest == \/ sr.ended # "" \/ sr.paused \/ Asking
          \/ At("wait") /\ run.due > MaxTime
SeriesSettles == LoopMode => []<>AtRest

(* What the comments and the documents say and these runs refute.          *)

\* "the tick its SeriesIteration should carry on resume" is the slot the
\* iteration consumed when it spawned (series.go, consumedSlotAfter).  The first
\* iteration, which anchors the cadence, is left out.
SlotRecorded ==
  [][Len(sr'.iterations) > Len(sr.iterations) /\ sr.iterations # <<>> /\ slot # -1
       => sr'.iterations[Len(sr'.iterations)].tick = slot]_vars

\* A decision that ends the series is not forgotten: no iteration follows a
\* failure under on_child_failure=stop, or a child that declared no intent
\* under on_no_intent=finish.
DecisionSticks ==
  \A n \in DOMAIN sr.iterations :
     LET it == sr.iterations[n]
     IN \/ it.reason = "error" /\ spec.onFailure # "surface"
        \/ /\ spec.schedule = "self_paced" /\ it.reason = "completed"
           /\ spec.onNoIntent = "finish" /\ child[n][it.a].intent.kind = "none"
        => Len(sr.iterations) = n

\* A control that was accepted is settled while the daemon stays up, or its
\* series ends.
EveryControlSettled ==
  \A id \in 1 .. MaxControls :
     id \in DOMAIN mailbox ~> id \in sr.handled \/ sr.ended # ""

\* A graceful shutdown leaves the journal in the shape of a crash: it writes no
\* iteration off (DESIGN.md, INC-72).
ShutdownWritesNothingOff ==
  [][ctx = "shutdown" /\ LoopMode /\ Len(sr'.iterations) > Len(sr.iterations)
       => sr'.iterations[Len(sr'.iterations)].reason # "canceled"]_vars

\* The cap holds for the whole tree, the retries included.
RetriesKeepBudget ==
  spec.cap > 0 => TreeUsage <= spec.cap

\* "a forgetful child must not spin the series": iterations of a self-paced
\* series are pace_min apart, those after a failed child too.
FloorKept ==
  [][\A n \in 2 .. MaxIter :
        /\ spec.schedule = "self_paced"
        /\ child[n][1].st = "none" /\ child'[n][1].st # "none"
        /\ sr.iterations[n - 1].epoch = sr.epoch
        => now >= sr.at + Floor]_vars
=============================================================================
