---------------------------- MODULE EffectsProof ----------------------------
(***************************************************************************)
(* What Effects promises of a batch, for every set of batches: its type,   *)
(* that no call's effect is repeated and a session at rest owes nothing    *)
(* (CallsAreSafe), and that what was decided of a call is final            *)
(* (DecisionsAreFinal).                                                    *)
(*                                                                         *)
(* None of these is inductive.  A call that crashed may be run again only  *)
(* if the fold still shows that it has not begun, so the invariant ties    *)
(* the five places a call is recorded in (pending, decided, allowed, acts, *)
(* results) to one another (FoldInv), the fold to what this process has    *)
(* running (RunInv), and both to where the drive stands (AwaitInv,         *)
(* TurnInv).                                                              *)
(***************************************************************************)
EXTENDS Effects, TLAPS, WellFoundedInduction

Underway == {"started", "running", "ended", "returned", "fired"}
Foreground == Underway \cup {"born"}
Backgrounded == {"bg", "bgdone"}

\* A call is in one place of its life: asked, answered, allowed or paired.
FoldInv == \A c \in Calls :
  /\ c \in handles <=> acts[c] = "bg"
  /\ acts[c] = "bg" => results[c] = "handle"
  /\ acts[c] = "fg" => results[c] = "none"
  /\ acts[c] # "none" => c \in allowed
  /\ c \in allowed =>
       /\ decided[c] = "none" /\ pending[c] = "none" /\ waiting # c
       /\ results[c] = "none" \/ acts[c] = "bg"
  /\ pending[c] # "none" => results[c] = "none"
  /\ decided[c] # "none" => results[c] = "none" /\ said[c] = decided[c]
  /\ waiting = c => results[c] = "none" /\ decided[c] = "none"
  /\ said[c] = "deny" =>
       c \notin allowed /\ (decided[c] = "deny" \/ results[c] # "none")

\* The outcome of a handle is told when the handle dies, unless a stop
\* dropped it.
OutcomeInv == \A c \in Calls :
  /\ outcomes[c] # 0 => results[c] = "handle" /\ c \notin handles
  /\ results[c] = "handle" /\ c \notin handles /\ "stop" \notin Causes
       => outcomes[c] = 1

\* A goroutine of the batch has its call in flight; background work has its
\* handle until a stop drops them all.
RunInv == \A c \in Calls :
  /\ run[c] \in Foreground =>
       pc = "batch" /\ c \in allowed /\ results[c] = "none"
  /\ run[c] \in Underway => acts[c] = "fg"
  /\ run[c] \in Backgrounded =>
       /\ pc \notin {"off", "resume"} /\ results[c] = "handle"
       /\ acts[c] = "bg" \/ (pc = "drain" /\ handles = {})
  /\ c \in timers =>
       /\ c \in Timed /\ acts[c] = "fg" /\ pc \in {"batch", "off", "resume"}
       /\ pc = "batch" => run[c] \in {"running", "ended"}

\* A call that is not idempotent: in flight in the foreground only while its
\* goroutine runs or its process is gone, and begun only if one can tell.
OnceInv == \A c \in Calls \ Reads :
  /\ acts[c] = "fg" => pc \in {"batch", "off", "resume"}
  /\ acts[c] = "fg" /\ pc = "batch" => run[c] \in Underway
  /\ execs[c] <= 1
  /\ execs[c] # 0 => results[c] # "none" \/ acts[c] = "fg"
  /\ run[c] \in {"born", "started"} => execs[c] = 0

\* The park.
AwaitInv ==
  /\ waiting # 0 =>
       pc \in {"off", "resume", "safe", "await", "overruled", "abort", "drain"}
  /\ pc \in {"await", "overruled"} => waiting # 0 /\ cur = waiting
  /\ pc = "answered" => cur \in Calls /\ decided[cur] # "none"

Adjudication ==
  \/ pc \in {"adjudicate", "gates", "launch"}
  \/ pc \in {"await", "overruled", "answered"} /\ cur \in todo

\* The turn's calls.
TurnInv ==
  /\ Adjudication =>
       /\ \A c \in todo : results[c] = "none"
       /\ \A c \in go : c \in allowed /\ results[c] = "none"
  /\ pc \in {"off", "resume", "safe", "idle", "launch", "batch", "seam"}
       => todo = {}
  /\ pc \in {"await", "overruled", "answered"} => todo = {} \/ cur \in todo
  /\ pc = "gates" =>
       todo # {} /\ Next1 \notin allowed /\ decided[Next1] = "none"
  /\ pc = "idle" => \A c \in Calls : results[c] # "none"

\* Hooks that were entered have left a trace, or the session is not hosted.
HookInv ==
  pc # "off" => \A c \in Calls :
    pending[c] = "hooked" =>
      \/ waiting = c \/ decided[c] # "none"
      \/ pc = "gates" /\ c = Next1

Inv == /\ TypeOK /\ batch \in Batches
       /\ FoldInv /\ OutcomeInv /\ RunInv /\ OnceInv
       /\ AwaitInv /\ TurnInv /\ HookInv

-----------------------------------------------------------------------------
(* About the batch and its numbers                                          *)

\* The least of some numbers is one of them and below the others.
LEMMA MinIsLeast ==
  ASSUME NEW S, S \subseteq Nat, S # {}
  PROVE  Min(S) \in S /\ \A x \in S : Min(S) <= x
<1>1. \E m \in S : \A y \in S : ~(<<y, m>> \in OpToRel(<, Nat))
  BY NatLessThanWellFounded, WFMin
<1>2. PICK m \in S : \A y \in S : ~(<<y, m>> \in OpToRel(<, Nat))
  BY <1>1
<1>3. \A y \in S : m <= y
  <2>1. ASSUME NEW y \in S  PROVE ~(y < m)
    <3>1. y \in Nat /\ m \in Nat  OBVIOUS
    <3>. QED  BY <1>2, <3>1 DEF OpToRel
  <2>. QED  BY <2>1
<1>. QED  BY <1>3 DEF Min

\* The batch does not change.
LEMMA BatchStays ==
  ASSUME batch' = batch
  PROVE  /\ Calls' = Calls /\ Reads' = Reads /\ Remotes' = Remotes
         /\ Shells' = Shells /\ Jobs' = Jobs /\ Timed' = Timed
         /\ Pipelines' = Pipelines /\ Causes' = Causes
         /\ MaxFaults' = MaxFaults
BY DEF Calls, Reads, Remotes, Shells, Jobs, Timed, Pipelines, Causes, MaxFaults

\* The calls of a batch are numbered from one, and a timeout or a launch in
\* the background belongs to calls that are not idempotent reads.
LEMMA BatchFacts ==
  ASSUME batch \in Batches
  PROVE  /\ Calls \subseteq Nat \ {0} /\ MaxFaults \in Nat
         /\ Timed \subseteq Calls /\ Timed \cap Reads = {}
         /\ Shells \subseteq Timed /\ Remotes \subseteq Timed
         /\ Jobs \subseteq Calls \ Reads
BY EffectsAssumption DEF Calls, Reads, Remotes, Shells, Jobs, Timed, MaxFaults

\* The lowest of some calls is a call.
LEMMA MinOfCalls ==
  ASSUME batch \in Batches, NEW S, S \subseteq Calls, S # {}
  PROVE  Min(S) \in S /\ Min(S) \in Calls /\ Min(S) # 0
BY MinIsLeast, BatchFacts

\* A launch is the start of one allowed job and the birth of its handle.
LEMMA JobLaunched ==
  ASSUME TypeOK, batch \in Batches, LaunchJob
  PROVE  \E j \in go \cap Jobs :
    /\ pc = "launch" /\ j \in Calls
    /\ acts' = [acts EXCEPT ![j] = "bg"] /\ handles' = handles \cup {j}
    /\ results' = [results EXCEPT ![j] = "handle"]
    /\ run' = [run EXCEPT ![j] = "bg"] /\ go' = go \ {j}
    /\ execs' = [execs EXCEPT ![j] = @ + 1]
    /\ UNCHANGED <<pending, decided, allowed, timers, waiting, standing,
                   outcomes, pc, todo, cur, ctx, said>>
<1>. DEFINE j == Min(go \cap Jobs)
<1>1. j \in go \cap Jobs /\ j \in Calls
  BY MinOfCalls DEF LaunchJob, TypeOK
<1>2. QED  BY <1>1 DEF LaunchJob, Background

-----------------------------------------------------------------------------
(* Every step preserves every part of the invariant                         *)

\* The switches of the drive.
LEMMA StepSwitchesOK ==
  ASSUME SwitchesOK, Step, batch' = batch
  PROVE  SwitchesOK'
<1>. USE BatchStays, BatchFacts, MinOfCalls
     DEF SwitchesOK, fold, loop, steer, history
<1>1. ASSUME Host \/ CancelOrphanTimer \/ SettleCrashed \/ EnterDrive
      PROVE  SwitchesOK'
  BY <1>1, Zenon
     DEF Host, GatesInDoubt, CancelOrphanTimer, SettleCrashed, EnterDrive,
         InDoubt, Terminal
<1>2. ASSUME Decide \/ StartBatch \/ Join \/ Seam  PROVE SwitchesOK'
  BY <1>2, Zenon DEF Decide, Unresolved, StartBatch, Join, Seam
<1>3. ASSUME LaunchJob  PROVE SwitchesOK'
  BY <1>3, Zenon DEF LaunchJob, Background
<1>4. ASSUME Aborting \/ Abort \/ Drained \/ Crash  PROVE SwitchesOK'
  BY <1>4, Zenon DEF Aborting, Abort, Drained, Crash, Gone, Idle
<1>5. ASSUME ReuseAllowed \/ RecallDecision \/ RequestEffect \/ Adjudicated
      PROVE  SwitchesOK'
  BY <1>5, Zenon
     DEF ReuseAllowed, RecallDecision, RequestEffect, Adjudicated,
         Adjudicating, Next1, Allow, Deny
<1>6. ASSUME GatesAllow \/ GatesDeny \/ GatesAskStanding \/ GatesAsk
      PROVE  SwitchesOK'
  BY <1>6, Zenon
     DEF GatesAllow, GatesDeny, GatesAskStanding, GatesAsk, Next1, Allow,
         Deny
<1>7. ASSUME Approval  PROVE SwitchesOK'
  BY <1>7, Zenon
     DEF Approval, Answer, AwaitInterrupt, AwaitMessage, Overrule,
         ResolveAnswer, Responded, Allow, Deny
<1>8. ASSUME NEW c \in Calls, Execute(c) \/ KillCall(c)  PROVE SwitchesOK'
  BY <1>8, Zenon
     DEF Execute, KillCall, Started, Begin, End, Report, Fire, Convert,
         Settle, SettleBackground, Terminal, Background
<1>9. ASSUME IdleInterrupt \/ SendInterrupt \/ TakeInterrupt \/ StaleWatcher
      PROVE  SwitchesOK'
  BY <1>9, Zenon DEF IdleInterrupt, SendInterrupt, TakeInterrupt, StaleWatcher
<1>10. ASSUME NEW cause \in Causes, Cancel(cause)  PROVE SwitchesOK'
  BY <1>10, Zenon DEF Cancel
<1>. QED
  BY <1>1, <1>2, <1>3, <1>4, <1>5, <1>6, <1>7, <1>8, <1>9, <1>10
     DEF Step, Drive, Adjudicate

\* The types.  The lowest call to adjudicate is a call, as one is left.
LEMMA StepTypeOK ==
  ASSUME TypeOK, TurnInv, AwaitInv, batch \in Batches, Step, batch' = batch
  PROVE  TypeOK'
<1>. USE StepSwitchesOK, BatchStays, BatchFacts, MinOfCalls
     DEF TypeOK, Texts, TurnInv, AwaitInv, fold, loop, steer, history
<1>1. ASSUME Host \/ CancelOrphanTimer \/ SettleCrashed \/ EnterDrive
      PROVE  TypeOK'
  BY <1>1
     DEF Host, GatesInDoubt, CancelOrphanTimer, SettleCrashed, EnterDrive,
         InDoubt, Terminal
<1>2. ASSUME Decide \/ StartBatch \/ Join \/ Seam  PROVE TypeOK'
  BY <1>2 DEF Decide, Unresolved, StartBatch, Join, Seam
<1>3. ASSUME LaunchJob  PROVE TypeOK'
  BY <1>3 DEF LaunchJob, Background
<1>4. ASSUME Aborting \/ Abort \/ Drained \/ Crash  PROVE TypeOK'
  BY <1>4 DEF Aborting, Abort, Drained, Crash, Gone, Idle
<1>5. ASSUME ReuseAllowed \/ RecallDecision \/ RequestEffect \/ Adjudicated
      PROVE  TypeOK'
  BY <1>5
     DEF ReuseAllowed, RecallDecision, RequestEffect, Adjudicated,
         Adjudicating, Next1, Allow, Deny
<1>6. ASSUME GatesAllow \/ GatesDeny \/ GatesAskStanding \/ GatesAsk
      PROVE  TypeOK'
  BY <1>6
     DEF GatesAllow, GatesDeny, GatesAskStanding, GatesAsk, Next1, Allow,
         Deny
<1>7. ASSUME Approval  PROVE TypeOK'
  BY <1>7
     DEF Approval, Answer, AwaitInterrupt, AwaitMessage, Overrule,
         ResolveAnswer, Responded, Allow, Deny
<1>8. ASSUME NEW c \in Calls, Execute(c) \/ KillCall(c)  PROVE TypeOK'
  BY <1>8
     DEF Execute, KillCall, Started, Begin, End, Report, Fire, Convert,
         Settle, SettleBackground, Terminal, Background
<1>9. ASSUME IdleInterrupt \/ SendInterrupt \/ TakeInterrupt \/ StaleWatcher
      PROVE  TypeOK'
  BY <1>9 DEF IdleInterrupt, SendInterrupt, TakeInterrupt, StaleWatcher
<1>10. ASSUME NEW cause \in Causes, Cancel(cause)  PROVE TypeOK'
  BY <1>10 DEF Cancel
<1>. QED
  BY <1>1, <1>2, <1>3, <1>4, <1>5, <1>6, <1>7, <1>8, <1>9, <1>10
     DEF Step, Drive, Adjudicate

\* A call stays in one place of its life.
LEMMA StepFoldInv ==
  ASSUME Inv, Step, batch' = batch
  PROVE  FoldInv'
<1>. USE BatchStays, BatchFacts, MinOfCalls
     DEF Inv, TypeOK, FoldInv, AwaitInv, TurnInv, RunInv, Adjudication,
         Foreground, Underway, Backgrounded, OnceInv, fold, loop, steer,
         history
<1>1. ASSUME Host \/ CancelOrphanTimer \/ SettleCrashed \/ EnterDrive
      PROVE  FoldInv'
  BY <1>1
     DEF Host, GatesInDoubt, CancelOrphanTimer, SettleCrashed, EnterDrive,
         InDoubt, Terminal
<1>2. ASSUME Decide \/ StartBatch \/ Join \/ Seam  PROVE FoldInv'
  BY <1>2 DEF Decide, Unresolved, StartBatch, Join, Seam
<1>3. ASSUME LaunchJob  PROVE FoldInv'
  BY <1>3, JobLaunched
<1>4. ASSUME Aborting \/ Abort \/ Drained \/ Crash  PROVE FoldInv'
  BY <1>4 DEF Aborting, Abort, Drained, Crash, Gone, Idle
<1>5. ASSUME ReuseAllowed \/ RecallDecision \/ RequestEffect \/ Adjudicated
      PROVE  FoldInv'
  BY <1>5
     DEF ReuseAllowed, RecallDecision, RequestEffect, Adjudicated,
         Adjudicating, Next1, Allow, Deny
<1>6. ASSUME GatesAllow \/ GatesDeny \/ GatesAskStanding \/ GatesAsk
      PROVE  FoldInv'
  BY <1>6
     DEF GatesAllow, GatesDeny, GatesAskStanding, GatesAsk, Next1, Allow,
         Deny
<1>7. ASSUME Approval  PROVE FoldInv'
  BY <1>7
     DEF Approval, Answer, AwaitInterrupt, AwaitMessage, Overrule,
         ResolveAnswer, Responded, Allow, Deny
<1>8. ASSUME NEW c \in Calls, Execute(c) \/ KillCall(c)  PROVE FoldInv'
  BY <1>8
     DEF Execute, KillCall, Started, Begin, End, Report, Fire, Convert,
         Settle, SettleBackground, Terminal, Background
<1>9. ASSUME IdleInterrupt \/ SendInterrupt \/ TakeInterrupt \/ StaleWatcher
      PROVE  FoldInv'
  BY <1>9 DEF IdleInterrupt, SendInterrupt, TakeInterrupt, StaleWatcher
<1>10. ASSUME NEW cause \in Causes, Cancel(cause)  PROVE FoldInv'
  BY <1>10 DEF Cancel
<1>. QED
  BY <1>1, <1>2, <1>3, <1>4, <1>5, <1>6, <1>7, <1>8, <1>9, <1>10
     DEF Step, Drive, Adjudicate

\* Only the terminal of background work tells an outcome.
LEMMA StepOutcomeInv ==
  ASSUME Inv, Step, batch' = batch
  PROVE  OutcomeInv'
<1>. USE BatchStays, BatchFacts, MinOfCalls
     DEF Inv, TypeOK, FoldInv, AwaitInv, TurnInv, RunInv, Adjudication,
         Foreground, Underway, Backgrounded, OutcomeInv, fold, loop, steer,
         history
<1>1. ASSUME Host \/ CancelOrphanTimer \/ SettleCrashed \/ EnterDrive
      PROVE  OutcomeInv'
  BY <1>1
     DEF Host, GatesInDoubt, CancelOrphanTimer, SettleCrashed, EnterDrive,
         InDoubt, Terminal
<1>2. ASSUME Decide \/ StartBatch \/ Join \/ Seam  PROVE OutcomeInv'
  BY <1>2 DEF Decide, Unresolved, StartBatch, Join, Seam
<1>3. ASSUME LaunchJob  PROVE OutcomeInv'
  BY <1>3, JobLaunched
<1>4. ASSUME Aborting \/ Abort \/ Drained \/ Crash  PROVE OutcomeInv'
  BY <1>4 DEF Aborting, Abort, Drained, Crash, Gone, Idle
<1>5. ASSUME ReuseAllowed \/ RecallDecision \/ RequestEffect \/ Adjudicated
      PROVE  OutcomeInv'
  BY <1>5
     DEF ReuseAllowed, RecallDecision, RequestEffect, Adjudicated,
         Adjudicating, Next1, Allow, Deny
<1>6. ASSUME GatesAllow \/ GatesDeny \/ GatesAskStanding \/ GatesAsk
      PROVE  OutcomeInv'
  BY <1>6
     DEF GatesAllow, GatesDeny, GatesAskStanding, GatesAsk, Next1, Allow,
         Deny
<1>7. ASSUME Approval  PROVE OutcomeInv'
  BY <1>7
     DEF Approval, Answer, AwaitInterrupt, AwaitMessage, Overrule,
         ResolveAnswer, Responded, Allow, Deny
<1>8. ASSUME NEW c \in Calls, Execute(c) \/ KillCall(c)  PROVE OutcomeInv'
  BY <1>8
     DEF Execute, KillCall, Started, Begin, End, Report, Fire, Convert,
         Settle, SettleBackground, Terminal, Background
<1>9. ASSUME IdleInterrupt \/ SendInterrupt \/ TakeInterrupt \/ StaleWatcher
      PROVE  OutcomeInv'
  BY <1>9 DEF IdleInterrupt, SendInterrupt, TakeInterrupt, StaleWatcher
<1>10. ASSUME NEW cause \in Causes, Cancel(cause)  PROVE OutcomeInv'
  BY <1>10 DEF Cancel
<1>. QED
  BY <1>1, <1>2, <1>3, <1>4, <1>5, <1>6, <1>7, <1>8, <1>9, <1>10
     DEF Step, Drive, Adjudicate

\* Goroutines, handles and timers agree with the fold.
LEMMA StepRunInv ==
  ASSUME Inv, Step, batch' = batch
  PROVE  RunInv'
<1>. USE BatchStays, BatchFacts, MinOfCalls
     DEF Inv, TypeOK, FoldInv, AwaitInv, TurnInv, RunInv, Adjudication,
         Foreground, Underway, Backgrounded, OnceInv, fold, loop, steer,
         history
<1>1. ASSUME Host \/ CancelOrphanTimer \/ SettleCrashed \/ EnterDrive
      PROVE  RunInv'
  BY <1>1
     DEF Host, GatesInDoubt, CancelOrphanTimer, SettleCrashed, EnterDrive,
         InDoubt, Terminal
<1>2. ASSUME Decide \/ StartBatch \/ Join \/ Seam  PROVE RunInv'
  BY <1>2 DEF Decide, Unresolved, StartBatch, Join, Seam
<1>3. ASSUME LaunchJob  PROVE RunInv'
  BY <1>3 DEF LaunchJob, Background
<1>4. ASSUME Aborting \/ Abort \/ Drained \/ Crash  PROVE RunInv'
  BY <1>4 DEF Aborting, Abort, Drained, Crash, Gone, Idle
<1>5. ASSUME ReuseAllowed \/ RecallDecision \/ RequestEffect \/ Adjudicated
      PROVE  RunInv'
  BY <1>5
     DEF ReuseAllowed, RecallDecision, RequestEffect, Adjudicated,
         Adjudicating, Next1, Allow, Deny
<1>6. ASSUME GatesAllow \/ GatesDeny \/ GatesAskStanding \/ GatesAsk
      PROVE  RunInv'
  BY <1>6
     DEF GatesAllow, GatesDeny, GatesAskStanding, GatesAsk, Next1, Allow,
         Deny
<1>7. ASSUME Approval  PROVE RunInv'
  BY <1>7
     DEF Approval, Answer, AwaitInterrupt, AwaitMessage, Overrule,
         ResolveAnswer, Responded, Allow, Deny
<1>8. ASSUME NEW c \in Calls, Execute(c) \/ KillCall(c)  PROVE RunInv'
  BY <1>8
     DEF Execute, KillCall, Started, Begin, End, Report, Fire, Convert,
         Settle, SettleBackground, Terminal, Background
<1>9. ASSUME IdleInterrupt \/ SendInterrupt \/ TakeInterrupt \/ StaleWatcher
      PROVE  RunInv'
  BY <1>9 DEF IdleInterrupt, SendInterrupt, TakeInterrupt, StaleWatcher
<1>10. ASSUME NEW cause \in Causes, Cancel(cause)  PROVE RunInv'
  BY <1>10 DEF Cancel
<1>. QED
  BY <1>1, <1>2, <1>3, <1>4, <1>5, <1>6, <1>7, <1>8, <1>9, <1>10
     DEF Step, Drive, Adjudicate

\* What may have begun is seen to have begun.
LEMMA StepOnceInv ==
  ASSUME Inv, Step, batch' = batch
  PROVE  OnceInv'
<1>. USE BatchStays, BatchFacts, MinOfCalls
     DEF Inv, TypeOK, FoldInv, AwaitInv, TurnInv, RunInv, Adjudication,
         Foreground, Underway, Backgrounded, OnceInv, InDoubt, fold, loop,
         steer, history
<1>1. ASSUME Host \/ CancelOrphanTimer \/ SettleCrashed \/ EnterDrive
      PROVE  OnceInv'
  BY <1>1
     DEF Host, GatesInDoubt, CancelOrphanTimer, SettleCrashed, EnterDrive,
         InDoubt, Terminal
<1>2. ASSUME Decide \/ StartBatch \/ Join \/ Seam  PROVE OnceInv'
  BY <1>2 DEF Decide, Unresolved, StartBatch, Join, Seam
<1>3. ASSUME LaunchJob  PROVE OnceInv'
  BY <1>3, JobLaunched
<1>4. ASSUME Aborting \/ Abort \/ Drained \/ Crash  PROVE OnceInv'
  BY <1>4 DEF Aborting, Abort, Drained, Crash, Gone, Idle
<1>5. ASSUME ReuseAllowed \/ RecallDecision \/ RequestEffect \/ Adjudicated
      PROVE  OnceInv'
  BY <1>5
     DEF ReuseAllowed, RecallDecision, RequestEffect, Adjudicated,
         Adjudicating, Next1, Allow, Deny
<1>6. ASSUME GatesAllow \/ GatesDeny \/ GatesAskStanding \/ GatesAsk
      PROVE  OnceInv'
  BY <1>6
     DEF GatesAllow, GatesDeny, GatesAskStanding, GatesAsk, Next1, Allow,
         Deny
<1>7. ASSUME Approval  PROVE OnceInv'
  BY <1>7
     DEF Approval, Answer, AwaitInterrupt, AwaitMessage, Overrule,
         ResolveAnswer, Responded, Allow, Deny
<1>8. ASSUME NEW c \in Calls, Execute(c) \/ KillCall(c)  PROVE OnceInv'
  BY <1>8
     DEF Execute, KillCall, Started, Begin, End, Report, Fire, Convert,
         Settle, SettleBackground, Terminal, Background
<1>9. ASSUME IdleInterrupt \/ SendInterrupt \/ TakeInterrupt \/ StaleWatcher
      PROVE  OnceInv'
  BY <1>9 DEF IdleInterrupt, SendInterrupt, TakeInterrupt, StaleWatcher
<1>10. ASSUME NEW cause \in Causes, Cancel(cause)  PROVE OnceInv'
  BY <1>10 DEF Cancel
<1>. QED
  BY <1>1, <1>2, <1>3, <1>4, <1>5, <1>6, <1>7, <1>8, <1>9, <1>10
     DEF Step, Drive, Adjudicate

\* The session is parked on one open call.
LEMMA StepAwaitInv ==
  ASSUME Inv, Step, batch' = batch
  PROVE  AwaitInv'
<1>. USE BatchStays, BatchFacts, MinOfCalls
     DEF Inv, TypeOK, FoldInv, AwaitInv, TurnInv, fold, loop, steer, history
<1>1. ASSUME Host \/ CancelOrphanTimer \/ SettleCrashed \/ EnterDrive
      PROVE  AwaitInv'
  BY <1>1
     DEF Host, GatesInDoubt, CancelOrphanTimer, SettleCrashed, EnterDrive,
         InDoubt, Terminal
<1>2. ASSUME Decide \/ StartBatch \/ Join \/ Seam  PROVE AwaitInv'
  BY <1>2 DEF Decide, Unresolved, StartBatch, Join, Seam
<1>3. ASSUME LaunchJob  PROVE AwaitInv'
  BY <1>3 DEF LaunchJob, Background
<1>4. ASSUME Aborting \/ Abort \/ Drained \/ Crash  PROVE AwaitInv'
  BY <1>4 DEF Aborting, Abort, Drained, Crash, Gone, Idle
<1>5. ASSUME ReuseAllowed \/ RecallDecision \/ RequestEffect \/ Adjudicated
      PROVE  AwaitInv'
  BY <1>5
     DEF ReuseAllowed, RecallDecision, RequestEffect, Adjudicated,
         Adjudicating, Next1, Allow, Deny
<1>6. ASSUME GatesAllow \/ GatesDeny \/ GatesAskStanding \/ GatesAsk
      PROVE  AwaitInv'
  BY <1>6
     DEF GatesAllow, GatesDeny, GatesAskStanding, GatesAsk, Next1, Allow,
         Deny
<1>7. ASSUME Approval  PROVE AwaitInv'
  BY <1>7
     DEF Approval, Answer, AwaitInterrupt, AwaitMessage, Overrule,
         ResolveAnswer, Responded, Allow, Deny
<1>8. ASSUME NEW c \in Calls, Execute(c) \/ KillCall(c)  PROVE AwaitInv'
  BY <1>8
     DEF Execute, KillCall, Started, Begin, End, Report, Fire, Convert,
         Settle, SettleBackground, Terminal, Background
<1>9. ASSUME IdleInterrupt \/ SendInterrupt \/ TakeInterrupt \/ StaleWatcher
      PROVE  AwaitInv'
  BY <1>9 DEF IdleInterrupt, SendInterrupt, TakeInterrupt, StaleWatcher
<1>10. ASSUME NEW cause \in Causes, Cancel(cause)  PROVE AwaitInv'
  BY <1>10 DEF Cancel
<1>. QED
  BY <1>1, <1>2, <1>3, <1>4, <1>5, <1>6, <1>7, <1>8, <1>9, <1>10
     DEF Step, Drive, Adjudicate

\* The turn adjudicates calls without a result.
LEMMA StepTurnInv ==
  ASSUME Inv, Step, batch' = batch
  PROVE  TurnInv'
<1>. USE BatchStays, BatchFacts, MinOfCalls
     DEF Inv, TypeOK, FoldInv, AwaitInv, TurnInv, RunInv, Adjudication,
         Foreground, Underway, Backgrounded, Next1, fold, loop, steer,
         history
<1>1. ASSUME Host \/ CancelOrphanTimer \/ SettleCrashed \/ EnterDrive
      PROVE  TurnInv'
  BY <1>1
     DEF Host, GatesInDoubt, CancelOrphanTimer, SettleCrashed, EnterDrive,
         InDoubt, Terminal
<1>2. ASSUME Decide \/ StartBatch \/ Join \/ Seam  PROVE TurnInv'
  BY <1>2 DEF Decide, Unresolved, StartBatch, Join, Seam
<1>3. ASSUME LaunchJob  PROVE TurnInv'
  BY <1>3, JobLaunched
<1>4. ASSUME Aborting \/ Abort \/ Drained \/ Crash  PROVE TurnInv'
  BY <1>4 DEF Aborting, Abort, Drained, Crash, Gone, Idle
<1>5. ASSUME ReuseAllowed \/ RecallDecision \/ RequestEffect \/ Adjudicated
      PROVE  TurnInv'
  BY <1>5
     DEF ReuseAllowed, RecallDecision, RequestEffect, Adjudicated,
         Adjudicating, Next1, Allow, Deny
<1>6. ASSUME GatesAllow \/ GatesDeny \/ GatesAskStanding \/ GatesAsk
      PROVE  TurnInv'
  BY <1>6
     DEF GatesAllow, GatesDeny, GatesAskStanding, GatesAsk, Next1, Allow,
         Deny
<1>7. ASSUME Approval  PROVE TurnInv'
  BY <1>7
     DEF Approval, Answer, AwaitInterrupt, AwaitMessage, Overrule,
         ResolveAnswer, Responded, Allow, Deny
<1>8. ASSUME NEW c \in Calls, Execute(c) \/ KillCall(c)  PROVE TurnInv'
  BY <1>8
     DEF Execute, KillCall, Started, Begin, End, Report, Fire, Convert,
         Settle, SettleBackground, Terminal, Background
<1>9. ASSUME IdleInterrupt \/ SendInterrupt \/ TakeInterrupt \/ StaleWatcher
      PROVE  TurnInv'
  BY <1>9 DEF IdleInterrupt, SendInterrupt, TakeInterrupt, StaleWatcher
<1>10. ASSUME NEW cause \in Causes, Cancel(cause)  PROVE TurnInv'
  BY <1>10 DEF Cancel
<1>. QED
  BY <1>1, <1>2, <1>3, <1>4, <1>5, <1>6, <1>7, <1>8, <1>9, <1>10
     DEF Step, Drive, Adjudicate

\* Hooks that were entered leave a trace before the next call's are.
LEMMA StepHookInv ==
  ASSUME Inv, Step, batch' = batch
  PROVE  HookInv'
<1>. USE BatchStays, BatchFacts, MinOfCalls
     DEF Inv, TypeOK, FoldInv, AwaitInv, TurnInv, RunInv, Adjudication,
         Foreground, Underway, Backgrounded, HookInv, Next1, fold, loop,
         steer, history
<1>1. ASSUME Host \/ CancelOrphanTimer \/ SettleCrashed \/ EnterDrive
      PROVE  HookInv'
  BY <1>1
     DEF Host, GatesInDoubt, CancelOrphanTimer, SettleCrashed, EnterDrive,
         InDoubt, Terminal
<1>2. ASSUME Decide \/ StartBatch \/ Join \/ Seam  PROVE HookInv'
  BY <1>2 DEF Decide, Unresolved, StartBatch, Join, Seam
<1>3. ASSUME LaunchJob  PROVE HookInv'
  BY <1>3 DEF LaunchJob, Background
<1>4. ASSUME Aborting \/ Abort \/ Drained \/ Crash  PROVE HookInv'
  BY <1>4 DEF Aborting, Abort, Drained, Crash, Gone, Idle
<1>5. ASSUME ReuseAllowed \/ RecallDecision \/ RequestEffect \/ Adjudicated
      PROVE  HookInv'
  BY <1>5
     DEF ReuseAllowed, RecallDecision, RequestEffect, Adjudicated,
         Adjudicating, Next1, Allow, Deny
<1>6. ASSUME GatesAllow \/ GatesDeny \/ GatesAskStanding \/ GatesAsk
      PROVE  HookInv'
  BY <1>6
     DEF GatesAllow, GatesDeny, GatesAskStanding, GatesAsk, Next1, Allow,
         Deny
<1>7. ASSUME Approval  PROVE HookInv'
  BY <1>7
     DEF Approval, Answer, AwaitInterrupt, AwaitMessage, Overrule,
         ResolveAnswer, Responded, Allow, Deny
<1>8. ASSUME NEW c \in Calls, Execute(c) \/ KillCall(c)  PROVE HookInv'
  BY <1>8
     DEF Execute, KillCall, Started, Begin, End, Report, Fire, Convert,
         Settle, SettleBackground, Terminal, Background
<1>9. ASSUME IdleInterrupt \/ SendInterrupt \/ TakeInterrupt \/ StaleWatcher
      PROVE  HookInv'
  BY <1>9 DEF IdleInterrupt, SendInterrupt, TakeInterrupt, StaleWatcher
<1>10. ASSUME NEW cause \in Causes, Cancel(cause)  PROVE HookInv'
  BY <1>10 DEF Cancel
<1>. QED
  BY <1>1, <1>2, <1>3, <1>4, <1>5, <1>6, <1>7, <1>8, <1>9, <1>10
     DEF Step, Drive, Adjudicate

-----------------------------------------------------------------------------
(* What no step may do                                                      *)

\* Only an open call's approval is asked for.
LEMMA StepNotAskedAgain ==
  ASSUME Inv, Step, batch' = batch
  PROVE  NotAskedAgain
<1>. USE BatchStays, BatchFacts, MinOfCalls
     DEF NotAskedAgain, Inv, TypeOK, FoldInv, AwaitInv, TurnInv, RunInv,
         Adjudication, Foreground, Underway, Backgrounded, fold, loop, steer,
         history
<1>1. ASSUME Host \/ CancelOrphanTimer \/ SettleCrashed \/ EnterDrive
      PROVE  NotAskedAgain
  BY <1>1
     DEF Host, GatesInDoubt, CancelOrphanTimer, SettleCrashed, EnterDrive,
         InDoubt, Terminal
<1>2. ASSUME Decide \/ StartBatch \/ Join \/ Seam  PROVE NotAskedAgain
  BY <1>2 DEF Decide, Unresolved, StartBatch, Join, Seam
<1>3. ASSUME LaunchJob  PROVE NotAskedAgain
  BY <1>3 DEF LaunchJob, Background
<1>4. ASSUME Aborting \/ Abort \/ Drained \/ Crash  PROVE NotAskedAgain
  BY <1>4 DEF Aborting, Abort, Drained, Crash, Gone, Idle
<1>5. ASSUME ReuseAllowed \/ RecallDecision \/ RequestEffect \/ Adjudicated
      PROVE  NotAskedAgain
  BY <1>5
     DEF ReuseAllowed, RecallDecision, RequestEffect, Adjudicated,
         Adjudicating, Next1, Allow, Deny
<1>6. ASSUME GatesAllow \/ GatesDeny \/ GatesAskStanding \/ GatesAsk
      PROVE  NotAskedAgain
  BY <1>6
     DEF GatesAllow, GatesDeny, GatesAskStanding, GatesAsk, Next1, Allow,
         Deny
<1>7. ASSUME Approval  PROVE NotAskedAgain
  BY <1>7
     DEF Approval, Answer, AwaitInterrupt, AwaitMessage, Overrule,
         ResolveAnswer, Responded, Allow, Deny
<1>8. ASSUME NEW c \in Calls, Execute(c) \/ KillCall(c)  PROVE NotAskedAgain
  BY <1>8
     DEF Execute, KillCall, Started, Begin, End, Report, Fire, Convert,
         Settle, SettleBackground, Terminal, Background
<1>9. ASSUME IdleInterrupt \/ SendInterrupt \/ TakeInterrupt \/ StaleWatcher
      PROVE  NotAskedAgain
  BY <1>9 DEF IdleInterrupt, SendInterrupt, TakeInterrupt, StaleWatcher
<1>10. ASSUME NEW cause \in Causes, Cancel(cause)  PROVE NotAskedAgain
  BY <1>10 DEF Cancel
<1>. QED
  BY <1>1, <1>2, <1>3, <1>4, <1>5, <1>6, <1>7, <1>8, <1>9, <1>10
     DEF Step, Drive, Adjudicate

\* Only allowed calls begin, and a refused call is not allowed.
LEMMA StepRefusedNotRun ==
  ASSUME Inv, Step, batch' = batch
  PROVE  RefusedNotRun
<1>. USE BatchStays, BatchFacts, MinOfCalls
     DEF RefusedNotRun, Inv, TypeOK, FoldInv, AwaitInv, TurnInv, RunInv,
         Adjudication, Foreground, Underway, Backgrounded, fold, loop, steer,
         history
<1>1. ASSUME Host \/ CancelOrphanTimer \/ SettleCrashed \/ EnterDrive
      PROVE  RefusedNotRun
  BY <1>1
     DEF Host, GatesInDoubt, CancelOrphanTimer, SettleCrashed, EnterDrive,
         InDoubt, Terminal
<1>2. ASSUME Decide \/ StartBatch \/ Join \/ Seam  PROVE RefusedNotRun
  BY <1>2 DEF Decide, Unresolved, StartBatch, Join, Seam
<1>3. ASSUME LaunchJob  PROVE RefusedNotRun
  BY <1>3, JobLaunched
<1>4. ASSUME Aborting \/ Abort \/ Drained \/ Crash  PROVE RefusedNotRun
  BY <1>4 DEF Aborting, Abort, Drained, Crash, Gone, Idle
<1>5. ASSUME ReuseAllowed \/ RecallDecision \/ RequestEffect \/ Adjudicated
      PROVE  RefusedNotRun
  BY <1>5
     DEF ReuseAllowed, RecallDecision, RequestEffect, Adjudicated,
         Adjudicating, Next1, Allow, Deny
<1>6. ASSUME GatesAllow \/ GatesDeny \/ GatesAskStanding \/ GatesAsk
      PROVE  RefusedNotRun
  BY <1>6
     DEF GatesAllow, GatesDeny, GatesAskStanding, GatesAsk, Next1, Allow,
         Deny
<1>7. ASSUME Approval  PROVE RefusedNotRun
  BY <1>7
     DEF Approval, Answer, AwaitInterrupt, AwaitMessage, Overrule,
         ResolveAnswer, Responded, Allow, Deny
<1>8. ASSUME NEW c \in Calls, Execute(c) \/ KillCall(c)  PROVE RefusedNotRun
  BY <1>8
     DEF Execute, KillCall, Started, Begin, End, Report, Fire, Convert,
         Settle, SettleBackground, Terminal, Background
<1>9. ASSUME IdleInterrupt \/ SendInterrupt \/ TakeInterrupt \/ StaleWatcher
      PROVE  RefusedNotRun
  BY <1>9 DEF IdleInterrupt, SendInterrupt, TakeInterrupt, StaleWatcher
<1>10. ASSUME NEW cause \in Causes, Cancel(cause)  PROVE RefusedNotRun
  BY <1>10 DEF Cancel
<1>. QED
  BY <1>1, <1>2, <1>3, <1>4, <1>5, <1>6, <1>7, <1>8, <1>9, <1>10
     DEF Step, Drive, Adjudicate

\* Results are given to calls that have none.
LEMMA StepResultKept ==
  ASSUME Inv, Step, batch' = batch
  PROVE  ResultKept
<1>. USE BatchStays, BatchFacts, MinOfCalls
     DEF ResultKept, Inv, TypeOK, FoldInv, AwaitInv, TurnInv, RunInv,
         Adjudication, Foreground, Underway, Backgrounded, fold, loop, steer,
         history
<1>1. ASSUME Host \/ CancelOrphanTimer \/ SettleCrashed \/ EnterDrive
      PROVE  ResultKept
  BY <1>1
     DEF Host, GatesInDoubt, CancelOrphanTimer, SettleCrashed, EnterDrive,
         InDoubt, Terminal
<1>2. ASSUME Decide \/ StartBatch \/ Join \/ Seam  PROVE ResultKept
  BY <1>2 DEF Decide, Unresolved, StartBatch, Join, Seam
<1>3. ASSUME LaunchJob  PROVE ResultKept
  BY <1>3, JobLaunched
<1>4. ASSUME Aborting \/ Abort \/ Drained \/ Crash  PROVE ResultKept
  BY <1>4 DEF Aborting, Abort, Drained, Crash, Gone, Idle
<1>5. ASSUME ReuseAllowed \/ RecallDecision \/ RequestEffect \/ Adjudicated
      PROVE  ResultKept
  BY <1>5
     DEF ReuseAllowed, RecallDecision, RequestEffect, Adjudicated,
         Adjudicating, Next1, Allow, Deny
<1>6. ASSUME GatesAllow \/ GatesDeny \/ GatesAskStanding \/ GatesAsk
      PROVE  ResultKept
  BY <1>6
     DEF GatesAllow, GatesDeny, GatesAskStanding, GatesAsk, Next1, Allow,
         Deny
<1>7. ASSUME Approval  PROVE ResultKept
  BY <1>7
     DEF Approval, Answer, AwaitInterrupt, AwaitMessage, Overrule,
         ResolveAnswer, Responded, Allow, Deny
<1>8. ASSUME NEW c \in Calls, Execute(c) \/ KillCall(c)  PROVE ResultKept
  BY <1>8
     DEF Execute, KillCall, Started, Begin, End, Report, Fire, Convert,
         Settle, SettleBackground, Terminal, Background
<1>9. ASSUME IdleInterrupt \/ SendInterrupt \/ TakeInterrupt \/ StaleWatcher
      PROVE  ResultKept
  BY <1>9 DEF IdleInterrupt, SendInterrupt, TakeInterrupt, StaleWatcher
<1>10. ASSUME NEW cause \in Causes, Cancel(cause)  PROVE ResultKept
  BY <1>10 DEF Cancel
<1>. QED
  BY <1>1, <1>2, <1>3, <1>4, <1>5, <1>6, <1>7, <1>8, <1>9, <1>10
     DEF Step, Drive, Adjudicate

\* Hooks are entered for a call that has no trace of them.
LEMMA StepGatedOnce ==
  ASSUME Inv, Step, batch' = batch
  PROVE  GatedOnce
<1>. USE BatchStays, BatchFacts, MinOfCalls
     DEF GatedOnce, Next1, HookInv, Inv, TypeOK, FoldInv, AwaitInv, TurnInv,
         RunInv, Adjudication, Foreground, Underway, Backgrounded, fold, loop,
         steer, history
<1>1. ASSUME Host \/ CancelOrphanTimer \/ SettleCrashed \/ EnterDrive
      PROVE  GatedOnce
  BY <1>1
     DEF Host, GatesInDoubt, CancelOrphanTimer, SettleCrashed, EnterDrive,
         InDoubt, Terminal
<1>2. ASSUME Decide \/ StartBatch \/ Join \/ Seam  PROVE GatedOnce
  BY <1>2 DEF Decide, Unresolved, StartBatch, Join, Seam
<1>3. ASSUME LaunchJob  PROVE GatedOnce
  BY <1>3 DEF LaunchJob, Background
<1>4. ASSUME Aborting \/ Abort \/ Drained \/ Crash  PROVE GatedOnce
  BY <1>4 DEF Aborting, Abort, Drained, Crash, Gone, Idle
<1>5. ASSUME ReuseAllowed \/ RecallDecision \/ RequestEffect \/ Adjudicated
      PROVE  GatedOnce
  BY <1>5
     DEF ReuseAllowed, RecallDecision, RequestEffect, Adjudicated,
         Adjudicating, Next1, Allow, Deny
<1>6. ASSUME GatesAllow \/ GatesDeny \/ GatesAskStanding \/ GatesAsk
      PROVE  GatedOnce
  BY <1>6
     DEF GatesAllow, GatesDeny, GatesAskStanding, GatesAsk, Next1, Allow,
         Deny
<1>7. ASSUME Approval  PROVE GatedOnce
  BY <1>7
     DEF Approval, Answer, AwaitInterrupt, AwaitMessage, Overrule,
         ResolveAnswer, Responded, Allow, Deny
<1>8. ASSUME NEW c \in Calls, Execute(c) \/ KillCall(c)  PROVE GatedOnce
  BY <1>8
     DEF Execute, KillCall, Started, Begin, End, Report, Fire, Convert,
         Settle, SettleBackground, Terminal, Background
<1>9. ASSUME IdleInterrupt \/ SendInterrupt \/ TakeInterrupt \/ StaleWatcher
      PROVE  GatedOnce
  BY <1>9 DEF IdleInterrupt, SendInterrupt, TakeInterrupt, StaleWatcher
<1>10. ASSUME NEW cause \in Causes, Cancel(cause)  PROVE GatedOnce
  BY <1>10 DEF Cancel
<1>. QED
  BY <1>1, <1>2, <1>3, <1>4, <1>5, <1>6, <1>7, <1>8, <1>9, <1>10
     DEF Step, Drive, Adjudicate

-----------------------------------------------------------------------------
(* The theorems                                                             *)

\* The start.
LEMMA InitInv == Init => Inv
<1>. SUFFICES ASSUME Init PROVE Inv
  OBVIOUS
<1>1. SwitchesOK
  BY Zenon DEF Init, SwitchesOK
<1>2. TypeOK
  BY <1>1, BatchFacts DEF Init, TypeOK, Texts, Idle
<1>. QED
  BY <1>2, BatchFacts
     DEF Init, Idle, Inv, FoldInv, OutcomeInv, RunInv, OnceInv, AwaitInv,
         TurnInv, HookInv, Adjudication, Foreground, Underway, Backgrounded

\* Every step.
LEMMA StepInv == Inv /\ [Next]_vars => Inv'
<1>1. ASSUME Inv, Next  PROVE Inv'
  BY <1>1, StepTypeOK, StepFoldInv, StepOutcomeInv, StepRunInv, StepOnceInv,
     StepAwaitInv, StepTurnInv, StepHookInv
     DEF Inv, Next
<1>2. ASSUME Inv, UNCHANGED vars  PROVE Inv'
  <2>. USE DEF vars, fold, loop, steer, history
  <2>1. UNCHANGED <<Calls, Reads, Remotes, Shells, Jobs, Timed, Pipelines,
                    Causes, MaxFaults, Next1>>
    BY <1>2, BatchStays DEF Next1
  <2>2. TypeOK'
    BY <1>2, <2>1 DEF Inv, TypeOK, SwitchesOK
  <2>3. FoldInv' /\ OutcomeInv' /\ RunInv' /\ OnceInv'
    BY <1>2, <2>1 DEF Inv, FoldInv, OutcomeInv, RunInv, OnceInv
  <2>4. AwaitInv' /\ TurnInv' /\ HookInv'
    BY <1>2, <2>1 DEF Inv, AwaitInv, TurnInv, HookInv, Adjudication
  <2>. QED  BY <1>2, <2>2, <2>3, <2>4 DEF Inv
<1>. QED  BY <1>1, <1>2

\* The invariant holds of every reachable state, whatever the batches and
\* wherever crashes, stops and interrupts fall (loop.go, activity.go,
\* approval.go, handle.go, recovery.go over the fold of state.go).
THEOREM Invariance == Spec => []Inv
BY InitInv, StepInv, PTL DEF Spec

\* The state keeps its shape.
THEOREM TypeCorrect == Spec => []TypeOK
<1>1. Inv => TypeOK
  BY DEF Inv
<1>. QED  BY <1>1, Invariance, PTL

\* No call that is not idempotent begins twice over any crashes and
\* re-hostings, a session at rest owes nothing, and while nobody stops the
\* session every handle is live or has told its outcome once
\* (loop.go:1013-1020, recovery.go:123-143, handle.go:147-241).
THEOREM CallsStaySafe == Spec => []CallsAreSafe
<1>1. ASSUME Inv  PROVE NeverRunTwice
  BY <1>1 DEF Inv, OnceInv, NeverRunTwice
<1>2. ASSUME Inv  PROVE RestOwesNothing
  BY <1>2 DEF Inv, TypeOK, FoldInv, RunInv, AwaitInv, TurnInv, RestOwesNothing
<1>3. ASSUME Inv, "stop" \notin Causes  PROVE HandleAccounted
  BY <1>3 DEF Inv, TypeOK, FoldInv, OutcomeInv, HandleAccounted
<1>4. Inv => CallsAreSafe
  BY <1>1, <1>2, <1>3 DEF CallsAreSafe
<1>. QED  BY <1>4, Invariance, PTL

\* What was decided of a call is final: an answer is not asked for again, a
\* refused call does not begin, a result is not replaced, and side-effecting
\* hooks are not entered again for an effect they left open
\* (loop.go:3230-3253, approval.go:225-438, state.go:981-1213).
THEOREM DecisionsStay == Spec => DecisionsAreFinal
<1>. DEFINE A == NotAskedAgain /\ RefusedNotRun /\ ResultKept /\ GatedOnce
<1>1. Inv /\ [Next]_vars => [A]_vars
  BY StepNotAskedAgain, StepRefusedNotRun, StepResultKept, StepGatedOnce
     DEF Next
<1>. QED  BY <1>1, Invariance, PTL DEF Spec, DecisionsAreFinal
=============================================================================
