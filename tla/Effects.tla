------------------------------- MODULE Effects -------------------------------
(***************************************************************************)
(* One batch of tool calls of a session: adjudication, the approval park,  *)
(* concurrent execution, timeouts that convert work to the background,     *)
(* interrupts, and what a stop, a host shutdown or a crash between any two *)
(* journal appends leaves for the next hosting to settle.                  *)
(*                                                                         *)
(* The variables of the first group are the fold of the journal           *)
(* (internal/state): they change only by appends and survive a crash.  The *)
(* second group lives in the hosting process.  Every append is one step.   *)
(* The adjudicated calls are numbered in the order of the assistant's      *)
(* message.  Reads are idempotent; Remotes have a timeout that kills them, *)
(* Shells one that converts them; Jobs are launched in the background.     *)
(* Tokens reserved for an effect are released exactly where its allowance  *)
(* is (state.go), so `allowed' stands for both.                            *)
(***************************************************************************)
EXTENDS Naturals, FiniteSetsExt

CONSTANT Batches    \* the batches, each with what may go wrong around it

(* A batch is a record.  "calls" numbers the calls of the message; "reads",  *)
(* "remotes", "shells" and "jobs" are the kinds of tool they name, and a     *)
(* call has one kind: a built-in read has no timeout (toolTimeoutIn), only   *)
(* local commands convert (toolWindow).  "outside" are the calls that name a *)
(* path outside the workspace, "twins" those that share one exact criterion  *)
(* of a standing approval, "pipelines" says whether a hosting's pipeline may *)
(* hold side-effecting gates, "causes" why the run's context may be          *)
(* cancelled, and "faults" bounds crashes and cancelled hostings.            *)
ASSUME EffectsAssumption == \A b \in Batches :
  /\ b.calls \subseteq Nat \ {0}
  /\ b.calls = b.reads \cup b.remotes \cup b.shells \cup b.jobs
  /\ b.reads \cap (b.remotes \cup b.shells \cup b.jobs) = {}
  /\ b.remotes \cap (b.shells \cup b.jobs) = {} /\ b.shells \cap b.jobs = {}
  /\ b.outside \subseteq b.calls /\ b.twins \subseteq b.calls
  /\ b.pipelines \subseteq BOOLEAN /\ b.pipelines # {}
  /\ b.causes \subseteq {"stop", "shutdown"}
  /\ b.faults \in Nat

VARIABLES
  pending,    \* effects requested and not resolved: "none", "plain" or,
              \* when side-effecting gates were entered, "hooked"
  decided,    \* the recorded answer of an approval not yet resolved
  allowed,    \* effects resolved allow whose execution has no terminal
  acts,       \* in-flight activities: "none", "fg" or "bg"
  handles,    \* calls paired with a background handle that is live
  results,    \* how each call was paired in the conversation
  timers,     \* calls whose timeout timer is pending
  waiting,    \* the call whose approval the session is parked on, or 0
  standing,   \* the Twins' criterion was answered "always allow"
  outcomes,   \* background outcome messages in the conversation, per call
  pc,         \* where the drive goroutine stands
  todo,       \* calls of this turn not yet adjudicated
  go,         \* calls adjudicated allow, to be executed
  cur,        \* the call whose approval is being awaited
  run,        \* each call's execution in this process
  ctx,        \* the run's context: "live" or the cause of its cancellation
  cut,        \* the batch's context was cancelled by an interrupt
  scope,      \* the interrupt watcher of the current batch is running
  stale,      \* a watcher was told to stop and has not looked yet
  signal,     \* an interrupt command is in the channel
  held,       \* pendingInterrupt: one was taken and is not recorded yet
  slain,      \* calls of the batch cancelled one by one
  grants,     \* out-of-workspace paths the executor was granted
  hooks,      \* this hosting's pipeline holds side-effecting gates
  execs, said, \* history: executions begun, the human's last answer
  faults,     \* crashes and cancellations so far
  batch       \* the batch; it never changes

fold    == <<pending, decided, allowed, acts, handles, results, timers,
             waiting, standing, outcomes>>
loop    == <<todo, go, cur, grants, hooks>>
steer   == <<cut, scope, stale, signal, held, slain>>
history == <<execs, said, faults>>
vars    == <<fold, pc, loop, run, ctx, steer, history, batch>>

Calls     == batch.calls
Reads     == batch.reads
Remotes   == batch.remotes
Shells    == batch.shells
Jobs      == batch.jobs
Outside   == batch.outside
Twins     == batch.twins
Pipelines == batch.pipelines
Causes    == batch.causes
MaxFaults == batch.faults
AllCalls  == UNION {b.calls : b \in Batches}

Timed      == Remotes \cup Shells
Unresolved == {c \in Calls : results[c] = "none"}
\* Mutant: a crashed foreground call is not in doubt.
InDoubt_BackgroundOnly == {c \in Calls \ Reads : acts[c] = "bg"}

InDoubt    == {c \in Calls \ Reads : acts[c] # "none"}
Live       == {c \in Calls : run[c] \in {"bg", "bgdone"}}
Cancelled(c) == cut \/ ctx # "live" \/ c \in slain

Idle(S) == [c \in S |-> "off"]

Init ==
  /\ batch \in Batches
  /\ pending = [c \in Calls |-> "none"]
  /\ allowed = {} /\ handles = {} /\ timers = {}
  /\ decided = [c \in Calls |-> "none"]
  /\ acts = [c \in Calls |-> "none"]
  /\ results = [c \in Calls |-> "none"]
  /\ outcomes = [c \in Calls |-> 0]
  /\ waiting = 0 /\ standing = FALSE
  /\ pc = "safe" /\ todo = {} /\ go = {} /\ cur = 0
  /\ run = Idle(Calls) /\ ctx = "live"
  /\ cut = FALSE /\ scope = FALSE /\ stale = FALSE
  /\ signal = FALSE /\ held = FALSE /\ slain = {}
  /\ grants = {} /\ hooks \in Pipelines
  /\ execs = [c \in Calls |-> 0]
  /\ said = [c \in Calls |-> "none"]
  /\ faults = 0

-----------------------------------------------------------------------------
(* What the fold does with the facts several steps append.                 *)



\* ActivityCompleted, ActivityFailed{final} and ActivityCancelled.
Terminal(c, text) ==
  /\ acts' = [acts EXCEPT ![c] = "none"]
  /\ allowed' = allowed \ {c}
  /\ CASE acts[c] = "bg" -> /\ handles' = handles \ {c}
                            /\ outcomes' = [outcomes EXCEPT ![c] = @ + 1]
                            /\ UNCHANGED results
       [] acts[c] = "fg" -> /\ results' = [results EXCEPT ![c] = text]
                            /\ UNCHANGED <<handles, outcomes>>
       [] OTHER -> UNCHANGED <<handles, outcomes, results>>

\* ActivityStarted{Background} and ActivityBackgrounded.
Background(c) ==
  /\ acts' = [acts EXCEPT ![c] = "bg"]
  /\ handles' = handles \cup {c}
  /\ results' = [results EXCEPT ![c] = "handle"]

\* EffectResolved: a denial is the call's result.
Allow(c) ==
  /\ pending' = [pending EXCEPT ![c] = "none"]
  /\ decided' = [decided EXCEPT ![c] = "none"]
  /\ allowed' = allowed \cup {c}
  /\ go' = go \cup {c} /\ todo' = todo \ {c}
  /\ UNCHANGED results

\* Mutant: the decision is recorded for the result.
Deny_DecisionAsResult(c) ==
  /\ pending' = [pending EXCEPT ![c] = "none"]
  /\ decided' = [decided EXCEPT ![c] = "none"]
  /\ results' = [results EXCEPT ![c] = "deny"]
  /\ todo' = todo \ {c}
  /\ UNCHANGED <<allowed, go>>

Deny(c) ==
  /\ pending' = [pending EXCEPT ![c] = "none"]
  /\ decided' = [decided EXCEPT ![c] = "none"]
  /\ results' = [results EXCEPT ![c] = "denied"]
  /\ todo' = todo \ {c}
  /\ UNCHANGED <<allowed, go>>

-----------------------------------------------------------------------------
(* Resume.                                                                 *)


\* Gates with side effects that were entered and left no trace stay human:
\* the session is not hosted.
GatesInDoubt ==
  \E c \in Calls : pending[c] = "hooked" /\ c # waiting /\ decided[c] = "none"


Host ==
  /\ pc = "off" /\ ~GatesInDoubt
  /\ pc' = "resume"
  /\ hooks' \in Pipelines
  /\ UNCHANGED <<fold, todo, go, cur, grants, run, ctx, steer, history>>

\* Nothing in doubt re-runs: its timer is cancelled, then it is settled.
CancelOrphanTimer ==
  /\ pc = "resume" /\ InDoubt # {} /\ Min(InDoubt) \in timers
  /\ timers' = timers \ {Min(InDoubt)}
  /\ UNCHANGED <<pending, decided, allowed, acts, handles, results, waiting,
                 standing, outcomes, pc, loop, run, ctx, steer, history>>


SettleCrashed ==
  /\ pc = "resume" /\ InDoubt # {} /\ Min(InDoubt) \notin timers
  /\ Terminal(Min(InDoubt), "crashed")
  /\ UNCHANGED <<pending, decided, timers, waiting, standing, pc, loop, run,
                 ctx, steer, history>>

EnterDrive ==
  /\ pc = "resume" /\ InDoubt = {}
  /\ pc' = "safe"
  /\ UNCHANGED <<fold, loop, run, ctx, steer, history>>

-----------------------------------------------------------------------------
(* The drive loop's safe point, and the idle.                              *)

Decide ==
  /\ pc = "safe" /\ ctx = "live"
  /\ \/ /\ waiting # 0
        /\ pc' = "await" /\ cur' = waiting
        /\ UNCHANGED <<todo, go>>
     \/ /\ waiting = 0 /\ Unresolved # {}
        /\ pc' = "adjudicate" /\ todo' = Unresolved /\ go' = {}
        /\ UNCHANGED cur
     \/ /\ waiting = 0 /\ Unresolved = {}
        /\ pc' = "idle"
        /\ UNCHANGED <<todo, go, cur>>
  /\ UNCHANGED <<fold, grants, hooks, run, ctx, steer, history>>

\* Mutant: the idle does not select on background work.
SettleBackground_NotAtIdle(c) ==
  /\ \/ pc = "safe" /\ ctx = "live"
     \/ pc = "drain" /\ handles # {}
  /\ run[c] = "bgdone"
  /\ Terminal(c, "done")
  /\ run' = [run EXCEPT ![c] = "off"]
  /\ UNCHANGED <<pending, decided, timers, waiting, standing, pc, loop, ctx,
                 steer, history>>

SettleBackground(c) ==
  /\ \/ pc = "idle"
     \/ pc = "safe" /\ ctx = "live"
     \/ pc = "drain" /\ handles # {}
  /\ run[c] = "bgdone"
  /\ Terminal(c, "done")
  /\ run' = [run EXCEPT ![c] = "off"]
  /\ pc' = IF pc = "idle" THEN "safe" ELSE pc
  /\ UNCHANGED <<pending, decided, timers, waiting, standing, loop, ctx,
                 steer, history>>

IdleInterrupt ==
  /\ pc = "idle" /\ signal
  /\ signal' = FALSE
  /\ UNCHANGED <<fold, pc, loop, run, ctx, cut, scope, stale, held, slain,
                 history>>

-----------------------------------------------------------------------------
(* Phase 1: serial adjudication, lowest call first.                        *)

Next1 == Min(todo)

Adjudicating == pc = "adjudicate" /\ todo # {}

\* Resolved allow before a crash: never asked again.
ReuseAllowed ==
  /\ Adjudicating /\ Next1 \in allowed
  /\ go' = go \cup {Next1} /\ todo' = todo \ {Next1}
  /\ UNCHANGED <<fold, pc, cur, grants, hooks, run, ctx, steer, history>>


\* Answered before a crash: resolved from the recorded answer.  A shell
\* whose sandbox cannot be restored is denied all the same.
RecallDecision ==
  /\ Adjudicating /\ Next1 \notin allowed /\ decided[Next1] # "none"
  /\ \/ decided[Next1] = "approve" /\ Allow(Next1)
     \/ (decided[Next1] = "deny" \/ Next1 \in Shells \cup Jobs) /\ Deny(Next1)
  /\ UNCHANGED <<acts, handles, timers, waiting, standing, outcomes, pc, cur,
                 grants, hooks, run, ctx, steer, history>>

\* Mutant: a recorded answer is not looked up.
RequestEffect_NoRecall ==
  /\ Adjudicating /\ Next1 \notin allowed
  /\ pending' = [pending EXCEPT ![Next1] = IF hooks THEN "hooked" ELSE "plain"]
  /\ pc' = "gates"
  /\ UNCHANGED <<decided, allowed, acts, handles, results, timers, waiting,
                 standing, outcomes, loop, run, ctx, steer, history>>

RequestEffect ==
  /\ Adjudicating /\ Next1 \notin allowed /\ decided[Next1] = "none"
  /\ pending' = [pending EXCEPT ![Next1] = IF hooks THEN "hooked" ELSE "plain"]
  /\ pc' = "gates"
  /\ UNCHANGED <<decided, allowed, acts, handles, results, timers, waiting,
                 standing, outcomes, loop, run, ctx, steer, history>>

\* The gates' verdict.  A path outside the workspace is never simply allowed.
GatesAllow ==
  /\ pc = "gates" /\ Next1 \notin Outside
  /\ Allow(Next1)
  /\ pc' = "adjudicate"
  /\ UNCHANGED <<acts, handles, timers, waiting, standing, outcomes, cur,
                 grants, hooks, run, ctx, steer, history>>

GatesDeny ==
  /\ pc = "gates"
  /\ Deny(Next1)
  /\ pc' = "adjudicate"
  /\ UNCHANGED <<acts, handles, timers, waiting, standing, outcomes, cur,
                 grants, hooks, run, ctx, steer, history>>

GatesAskStanding ==
  /\ pc = "gates" /\ Next1 \in Twins /\ standing
  /\ Allow(Next1)
  /\ grants' = grants \cup {Next1}
  /\ pc' = "adjudicate"
  /\ UNCHANGED <<acts, handles, timers, waiting, standing, outcomes, cur, hooks,
                 run, ctx, steer, history>>

GatesAsk ==
  /\ pc = "gates" /\ ~(Next1 \in Twins /\ standing)
  /\ waiting' = Next1
  /\ cur' = Next1
  /\ pc' = "await"
  /\ UNCHANGED <<pending, decided, allowed, acts, handles, results, timers,
                 standing, outcomes, todo, go, grants, hooks, run, ctx, steer,
                 history>>

\* Phase 2 opens the interrupt scope of the batch.
Adjudicated ==
  /\ pc = "adjudicate" /\ todo = {}
  /\ IF go = {} THEN pc' = "safe" /\ UNCHANGED <<cut, scope, slain>>
     ELSE pc' = "launch" /\ cut' = FALSE /\ scope' = TRUE /\ slain' = {}
  /\ UNCHANGED <<fold, loop, run, ctx, stale, signal, held, history>>

-----------------------------------------------------------------------------
(* The approval park.  The answer is authoritative once ApprovalResponded  *)
(* is a fact; the effect's resolution is a later append.                   *)

Responded(d) ==
  /\ decided' = [decided EXCEPT ![cur] = d]
  /\ said' = [said EXCEPT ![cur] = d]
  /\ waiting' = 0
  /\ pc' = "answered"

Answer(d, remember) ==
  /\ pc = "await"
  /\ Responded(d)
  /\ standing' = (standing \/ (remember /\ d = "approve" /\ cur \in Twins))
  /\ grants' = IF d = "approve" THEN grants \cup {cur} ELSE grants
  /\ UNCHANGED <<pending, allowed, acts, handles, results, timers, outcomes,
                 todo, go, cur, hooks, run, ctx, steer, execs, faults>>

\* An interrupt, or a user's message, is journaled first ...
AwaitInterrupt ==
  /\ pc = "await" /\ signal
  /\ signal' = FALSE
  /\ pc' = "overruled"
  /\ UNCHANGED <<fold, loop, run, ctx, cut, scope, stale, held, slain, history>>

AwaitMessage ==
  /\ pc = "await"
  /\ pc' = "overruled"
  /\ UNCHANGED <<fold, loop, run, ctx, steer, history>>

\* ... and then denies the pending ask.
Overrule ==
  /\ pc = "overruled"
  /\ Responded("deny")
  /\ UNCHANGED <<pending, allowed, acts, handles, results, timers, standing,
                 outcomes, loop, run, ctx, steer, execs, faults>>

ResolveAnswer ==
  /\ pc = "answered"
  /\ \/ decided[cur] = "approve" /\ Allow(cur)
     \/ (decided[cur] = "deny" \/ cur \in Shells \cup Jobs) /\ Deny(cur)
  /\ pc' = IF cur \in todo THEN "adjudicate" ELSE "safe"
  /\ UNCHANGED <<acts, handles, timers, waiting, standing, outcomes, cur,
                 grants, hooks, run, ctx, steer, history>>

-----------------------------------------------------------------------------
(* Phase 2: background launches, then the concurrent batch.                *)

LaunchJob ==
  /\ pc = "launch" /\ go \cap Jobs # {}
  /\ LET c == Min(go \cap Jobs) IN
       /\ Background(c)
       /\ run' = [run EXCEPT ![c] = "bg"]
       /\ execs' = [execs EXCEPT ![c] = @ + 1]
       /\ go' = go \ {c}
  /\ UNCHANGED <<pending, decided, allowed, timers, waiting, standing,
                 outcomes, pc, todo, cur, grants, hooks, ctx, steer, said,
                 faults>>

StartBatch ==
  /\ pc = "launch" /\ go \cap Jobs = {}
  /\ pc' = "batch"
  /\ run' = [c \in Calls |-> IF c \in go THEN "born" ELSE run[c]]
  /\ UNCHANGED <<fold, loop, ctx, steer, history>>

Started(c) ==
  /\ run[c] = "born"
  /\ acts' = [acts EXCEPT ![c] = "fg"]
  /\ run' = [run EXCEPT ![c] = "started"]
  /\ UNCHANGED <<pending, decided, allowed, handles, results, timers, waiting,
                 standing, outcomes, pc, loop, ctx, steer, history>>

Begin(c) ==
  /\ run[c] = "started"
  /\ timers' = IF c \in Timed THEN timers \cup {c} ELSE timers
  /\ run' = [run EXCEPT ![c] = "running"]
  /\ execs' = [execs EXCEPT ![c] = @ + 1]
  /\ UNCHANGED <<pending, decided, allowed, acts, handles, results, waiting,
                 standing, outcomes, pc, loop, ctx, steer, said, faults>>

End(c) ==
  /\ run[c] \in {"running", "bg"}
  /\ run' = [run EXCEPT ![c] = IF @ = "bg" THEN "bgdone" ELSE "ended"]
  /\ UNCHANGED <<fold, pc, loop, ctx, steer, history>>

\* The run won the race against its timer.
Report(c) ==
  /\ run[c] = "ended"
  /\ timers' = timers \ {c}
  /\ run' = [run EXCEPT ![c] = "returned"]
  /\ UNCHANGED <<pending, decided, allowed, acts, handles, results, waiting,
                 standing, outcomes, pc, loop, ctx, steer, history>>

\* The timer won: TimerFired.
Fire(c) ==
  /\ run[c] \in {"running", "ended"} /\ c \in timers
  /\ timers' = timers \ {c}
  /\ run' = [run EXCEPT ![c] = "fired"]
  /\ UNCHANGED <<pending, decided, allowed, acts, handles, results, waiting,
                 standing, outcomes, pc, loop, ctx, steer, history>>

Convert(c) ==
  /\ run[c] = "fired" /\ c \in Shells
  /\ Background(c)
  /\ run' = [run EXCEPT ![c] = "bg"]
  /\ UNCHANGED <<pending, decided, allowed, timers, waiting, standing,
                 outcomes, pc, loop, ctx, steer, history>>

\* The terminal.  A cancelled context decides it, even when the run had
\* returned a result, unless the timeout had already cut the run.
Settle(c) ==
  /\ run[c] = "returned" \/ (run[c] = "fired" /\ c \in Remotes)
  /\ Terminal(c, IF run[c] = "returned" /\ Cancelled(c) THEN "cancelled"
                 ELSE "done")
  /\ run' = [run EXCEPT ![c] = "off"]
  /\ UNCHANGED <<pending, decided, timers, waiting, standing, pc, loop, ctx,
                 steer, history>>

KillCall(c) ==
  /\ run[c] \in {"born", "started", "running", "ended", "returned"}
  /\ slain' = slain \cup {c}
  /\ UNCHANGED <<fold, pc, loop, run, ctx, cut, scope, stale, signal, held,
                 history>>

\* All goroutines joined: the interrupt scope is told to stop.
Join ==
  /\ pc = "batch" /\ \A c \in Calls : run[c] \in {"off", "bg", "bgdone"}
  /\ scope' = FALSE
  /\ stale' = (stale \/ scope)
  /\ pc' = IF cut THEN "seam" ELSE "safe"
  /\ UNCHANGED <<fold, loop, run, ctx, cut, signal, held, slain, history>>

\* An interrupted batch records the interrupt and ends the turn.
Seam ==
  /\ pc = "seam"
  /\ held' = FALSE /\ cut' = FALSE
  /\ pc' = "safe"
  /\ UNCHANGED <<fold, loop, run, ctx, scope, stale, signal, slain, history>>

-----------------------------------------------------------------------------
(* The interrupt channel and the goroutine that watches it for a batch.    *)

SendInterrupt ==
  /\ pc # "off" /\ ~signal
  /\ signal' = TRUE
  /\ UNCHANGED <<fold, pc, loop, run, ctx, cut, scope, stale, held, slain,
                 history>>

TakeInterrupt ==
  /\ scope /\ signal
  /\ signal' = FALSE /\ held' = TRUE /\ cut' = TRUE /\ scope' = FALSE
  /\ UNCHANGED <<fold, pc, loop, run, ctx, stale, slain, history>>

\* A watcher that finds both `done' and an interrupt may take either.
StaleWatcher ==
  /\ stale
  /\ stale' = FALSE
  /\ \/ UNCHANGED <<signal, held>>
     \/ signal /\ signal' = FALSE /\ held' = TRUE
  /\ UNCHANGED <<fold, pc, loop, run, ctx, cut, scope, slain, history>>

-----------------------------------------------------------------------------
(* The end of a hosting.                                                   *)

\* The process keeps nothing of the drive.
Gone ==
  /\ pc' = "off" /\ ctx' = "live"
  /\ todo' = {} /\ go' = {} /\ cur' = 0 /\ grants' = {} /\ UNCHANGED hooks
  /\ run' = Idle(Calls)
  /\ cut' = FALSE /\ scope' = FALSE /\ stale' = FALSE
  /\ signal' = FALSE /\ held' = FALSE /\ slain' = {}

Cancel(cause) ==
  /\ pc \notin {"off", "abort", "drain"} /\ ctx = "live" /\ faults < MaxFaults
  /\ ctx' = cause
  /\ faults' = faults + 1
  /\ UNCHANGED <<fold, pc, loop, run, steer, execs, said>>

Aborting ==
  /\ pc \in {"safe", "idle", "await"} /\ ctx # "live"
  /\ pc' = "abort"
  /\ UNCHANGED <<fold, loop, run, ctx, steer, history>>

\* A user's stop journals the mark, and the fold of SessionClosed forgets
\* every piece of work in flight; a host shutdown leaves no mark.
Abort ==
  /\ pc = "abort"
  /\ pc' = "drain"
  /\ IF ctx = "stop"
     THEN /\ waiting' = 0 /\ allowed' = {} /\ handles' = {}
          /\ pending' = [c \in Calls |-> "none"]
          /\ acts' = [c \in Calls |-> "none"]
     ELSE UNCHANGED <<waiting, pending, allowed, handles, acts>>
  /\ UNCHANGED <<decided, results, timers, standing, outcomes, loop, run, ctx,
                 steer, history>>

\* settleOnAbort returns at once when the fold has no handle, and otherwise
\* settles every live background work first.
Drained ==
  /\ pc = "drain" /\ (handles = {} \/ Live = {})
  /\ Gone
  /\ UNCHANGED <<fold, history>>

Crash ==
  /\ pc # "off" /\ faults < MaxFaults
  /\ Gone
  /\ faults' = faults + 1
  /\ UNCHANGED <<fold, execs, said>>

-----------------------------------------------------------------------------
Approval ==
  \/ \E d \in {"approve", "deny"}, remember \in BOOLEAN : Answer(d, remember)
  \/ AwaitInterrupt \/ AwaitMessage \/ Overrule \/ ResolveAnswer

Adjudicate ==
  \/ ReuseAllowed \/ RecallDecision \/ RequestEffect
  \/ GatesAllow \/ GatesDeny \/ GatesAskStanding \/ GatesAsk \/ Adjudicated

Drive ==
  \/ Host \/ CancelOrphanTimer \/ SettleCrashed \/ EnterDrive
  \/ Decide \/ LaunchJob \/ StartBatch \/ Join \/ Seam
  \/ Aborting \/ Abort \/ Drained

Execute(c) ==
  \/ Started(c) \/ Begin(c) \/ End(c) \/ Report(c) \/ Fire(c)
  \/ Convert(c) \/ Settle(c) \/ SettleBackground(c)

Step ==
  \/ Drive \/ Adjudicate \/ Approval \/ IdleInterrupt
  \/ \E c \in Calls : Execute(c) \/ KillCall(c)
  \/ SendInterrupt \/ TakeInterrupt \/ StaleWatcher
  \/ \E cause \in Causes : Cancel(cause)
  \/ Crash

Next == Step /\ UNCHANGED batch

Spec == Init /\ [][Next]_vars

\* Goroutines run, and the daemon hosts an unfinished session again.  Nobody
\* owes an answer, a signal, a kill or a fault.
Of(A) == A /\ UNCHANGED batch
FairSpec ==
  /\ Spec
  /\ WF_vars(Of(Drive)) /\ WF_vars(Of(Adjudicate))
  /\ WF_vars(Of(Overrule \/ ResolveAnswer))
  /\ \A c \in AllCalls : WF_vars(Of(c \in Calls /\ Execute(c)))

-----------------------------------------------------------------------------
Texts == {"none", "done", "denied", "cancelled", "crashed", "handle"}

SwitchesOK ==
  /\ standing \in BOOLEAN /\ cut \in BOOLEAN /\ scope \in BOOLEAN
  /\ stale \in BOOLEAN /\ signal \in BOOLEAN /\ held \in BOOLEAN

\* The shape of the state.
TypeOK ==
  /\ SwitchesOK
  /\ pending \in [Calls -> {"none", "plain", "hooked"}]
  /\ allowed \subseteq Calls /\ hooks \in Pipelines
  /\ handles \subseteq Calls /\ timers \subseteq Calls
  /\ decided \in [Calls -> {"none", "approve", "deny"}]
  /\ acts \in [Calls -> {"none", "fg", "bg"}]
  /\ results \in [Calls -> Texts]
  /\ outcomes \in [Calls -> Nat]
  /\ waiting \in Calls \cup {0}
  /\ pc \in {"off", "resume", "safe", "idle", "adjudicate", "gates", "await",
             "overruled", "answered", "launch", "batch", "seam", "abort",
             "drain"}
  /\ todo \subseteq Calls /\ go \subseteq Calls /\ cur \in Calls \cup {0}
  /\ run \in [Calls -> {"off", "born", "started", "running", "ended",
                        "returned", "fired", "bg", "bgdone"}]
  /\ ctx \in Causes \cup {"live"}
  /\ slain \subseteq Calls /\ grants \subseteq Calls
  /\ execs \in [Calls -> Nat]
  /\ said \in [Calls -> {"none", "approve", "deny"}]
  /\ faults \in 0..MaxFaults

\* A call that is not idempotent begins at most once, over every crash, stop
\* and re-hosting (loop.go:1013-1018, recovery.go:123-128).
NeverRunTwice == \A c \in Calls \ Reads : execs[c] <= 1

\* A call whose approval was last answered with a denial - by the human, by
\* an interrupt or by a message that superseded it - does not begin to run.
RefusedNotRun ==
  \A c \in Calls : execs'[c] > execs[c] => said[c] # "deny"

\* Every call is paired once: a result in the conversation is never replaced
\* by a later terminal, conversion or denial.
ResultKept ==
  \A c \in Calls : results[c] # "none" => results'[c] = results[c]

\* While a close mark does not intervene, an answer given is never asked for
\* again (loop.go:3231-3252).
NotAskedAgain ==
  \A c \in Calls :
     waiting' = c /\ waiting # c
       => decided[c] = "none" /\ c \notin allowed

\* A session at rest owes nothing: no activity, reservation, pending effect,
\* recorded answer or timer is left to keep it from being quiescent.
RestOwesNothing ==
  pc = "idle" /\ handles = {} =>
    /\ allowed = {} /\ timers = {} /\ waiting = 0
    /\ \A c \in Calls :
         pending[c] = "none" /\ acts[c] = "none" /\ decided[c] = "none"

\* A handle the model was given is live, or its outcome has been told, once.
HandleAccounted ==
  \A c \in Calls : results[c] = "handle" =>
    /\ outcomes[c] = IF c \in handles THEN 0 ELSE 1
    /\ c \in handles => acts[c] = "bg"

\* Gates with side effects are never entered twice for an effect that a
\* crash left between the gates and their resolution.
GatedOnce ==
  pc' = "gates" /\ pc # "gates" => pending[Next1] # "hooked"

\* Crashes repeat no call's effect, a session at rest owes nothing, and while
\* nobody stops the session every handle's outcome is told exactly once.
CallsAreSafe ==
  /\ NeverRunTwice /\ RestOwesNothing
  /\ "stop" \notin Causes => HandleAccounted

\* What was decided of a call is final: its answer is not asked for again, a
\* refused call does not run, a result is not replaced, hooks are entered once.
DecisionsAreFinal ==
  [][NotAskedAgain /\ RefusedNotRun /\ ResultKept /\ GatedOnce]_vars

\* While nobody stops the session, every call is answered, unless an approval
\* is left open for good, and every handle's outcome reaches the conversation.
Unstopped == "stop" \notin Causes
Answered(c) == c \in Calls /\ Unstopped => results[c] # "none"
Untold(c) ==
  c \in Calls /\ Unstopped /\ results[c] = "handle" /\ outcomes[c] # 1
EveryCallEnds ==
  \A c \in AllCalls :
    /\ <>Answered(c) \/ <>[](pc = "await")
    /\ []<>~Untold(c)

\* The idle is reached with every taken interrupt recorded: `待命处 = no-op
\* (journal 一条审计事实)', and in a turn the interrupt ends the turn.
InterruptRecorded == pc = "idle" => ~held

\* An approved path reaches the executor before the call runs
\* (approval.go:267-272).
ApprovedReaches ==
  \A c \in Outside : run[c] \in {"running", "bg"} => c \in grants
=============================================================================
