----------------------------- MODULE SeriesProof -----------------------------
(***************************************************************************)
(* Proofs about Series.                                                    *)
(*                                                                         *)
(* The journal of a series, its children, its budget and its cadence agree *)
(* whatever crashes, shutdowns, pauses and stops fall between two of its   *)
(* appends, for every set of specs, every bound and every clock.           *)
(*                                                                         *)
(* The argument has three layers.  Total is a sum; what it computes is     *)
(* shown by least counterexample, since every set of naturals has a least  *)
(* element.  Every step of the system is one of twelve moves of the runner *)
(* (StepIsMove); a move keeps what decides it and drops the rest, so each  *)
(* part of the invariant is shown against the moves, not the actions.  The *)
(* parts: Core, Sides, Switches (types), Rest, Hosted, Place (where the    *)
(* runner is), Attempted, Trying, Fresh (the attempts of an iteration),    *)
(* Billing, Bills, Budget (what they cost), Dated, Pacing, Slots (when the *)
(* next one starts).  Names are those of Series.                           *)
(***************************************************************************)
EXTENDS Series, SequenceTheorems, FiniteSetTheorems, WellFoundedInduction, TLAPS

-----------------------------------------------------------------------------
(* Induction.                                                              *)

\* Every non-empty set of natural numbers has a least element.
LEMMA LeastNumber ==
  ASSUME NEW T \in SUBSET Nat, T # {}
  PROVE  \E x \in T : \A y \in T : x <= y
<1>. DEFINE R == {ss \in Nat \X Nat : ss[1] < ss[2]}
<1>1. \A y, x \in Nat : y < x => <<y, x>> \in R
  OBVIOUS
<1>2. IsWellFoundedOn(R, Nat)
  BY NatLessThanWellFounded DEF OpToRel
<1>. HIDE DEF R
<1>3. PICK x \in T : \A y \in T : ~ (<<y, x>> \in R)
  BY <1>2, WFMin
<1>4. \A y \in T : ~ (y < x)
  <2>. TAKE y \in T
  <2>1. y \in Nat /\ x \in Nat
    OBVIOUS
  <2>2. <<y, x>> \notin R
    BY <1>3
  <2>. QED  BY <2>1, <2>2, <1>1
<1>5. \A y \in T : x <= y
  BY <1>4
<1>. QED  BY <1>5

\* Induction, for a set instead of a predicate.
LEMMA SetInduction ==
  ASSUME NEW S, 0 \in S, \A n \in Nat : n \in S => n + 1 \in S
  PROVE  Nat \subseteq S
<1>. SUFFICES ASSUME Nat \ S # {} PROVE FALSE
  OBVIOUS
<1>1. PICK m \in Nat \ S : \A y \in Nat \ S : m <= y
  BY LeastNumber
<1>2. m # 0 /\ m - 1 \in Nat /\ m - 1 \in S
  BY <1>1
<1>. QED  BY <1>2

-----------------------------------------------------------------------------
(* Sums.                                                                   *)

\* sum is a solution, up to n, of the recursion that defines Total.
Sums(sum, f, n) ==
  sum = [k \in 0 .. n |-> IF k = 0 THEN 0 ELSE sum[k - 1] + f[k]]

\* The recursion that defines Total has a solution.
LEMMA SumExists ==
  ASSUME NEW f
  PROVE  \A n \in Nat : \E sum : Sums(sum, f, n)
<1>. DEFINE S == {n \in Nat : \E sum : Sums(sum, f, n)}
<1>1. 0 \in S
  <2>. DEFINE sum == [k \in 0 .. 0 |-> 0]
  <2>1. Sums(sum, f, 0)
    BY DEF Sums
  <2>. HIDE DEF sum
  <2>. QED  BY <2>1
<1>2. ASSUME NEW n \in Nat, n \in S PROVE n + 1 \in S
  <2>1. PICK g : Sums(g, f, n)
    BY <1>2
  <2>. DEFINE h == [k \in 0 .. n + 1 |-> IF k = n + 1 THEN g[n] + f[n + 1] ELSE g[k]]
  <2>2. ASSUME NEW k \in 0 .. n + 1
        PROVE  h[k] = IF k = 0 THEN 0 ELSE h[k - 1] + f[k]
    <3>1. CASE k = n + 1
      BY <3>1
    <3>2. CASE k = 0
      BY <3>2, <2>1 DEF Sums
    <3>3. CASE k \in 1 .. n
      <4>1. h[k] = g[k] /\ h[k - 1] = g[k - 1]
        BY <3>3
      <4>2. g[k] = g[k - 1] + f[k]
        BY <2>1, <3>3 DEF Sums
      <4>. QED  BY <4>1, <4>2, <3>3
    <3>. QED  BY <3>1, <3>2, <3>3
  <2>3. Sums(h, f, n + 1)
    BY <2>2 DEF Sums
  <2>. HIDE DEF h
  <2>4. \E sum : Sums(sum, f, n + 1)
    BY <2>3
  <2>. QED  BY <2>4
<1>. HIDE DEF S
<1>3. Nat \subseteq S
  BY <1>1, <1>2, SetInduction
<1>. QED  BY <1>3 DEF S

\* Two solutions agree as far as both go.
LEMMA SumUnique ==
  ASSUME NEW f, NEW n \in Nat, NEW m \in Nat, NEW g, NEW h,
         Sums(g, f, n), Sums(h, f, m)
  PROVE  \A k \in Nat : k <= n /\ k <= m => g[k] = h[k]
<1>. DEFINE S == {k \in Nat : k <= n /\ k <= m => g[k] = h[k]}
<1>1. 0 \in S
  BY DEF Sums
<1>2. ASSUME NEW k \in Nat, k \in S PROVE k + 1 \in S
  <2>1. CASE k + 1 <= n /\ k + 1 <= m
    <3>1. g[k] = h[k]
      BY <1>2, <2>1
    <3>2. g[k + 1] = g[k] + f[k + 1]
      BY <2>1 DEF Sums
    <3>3. h[k + 1] = h[k] + f[k + 1]
      BY <2>1 DEF Sums
    <3>. QED  BY <3>1, <3>2, <3>3
  <2>. QED  BY <2>1
<1>. HIDE DEF S
<1>3. Nat \subseteq S
  BY <1>1, <1>2, SetInduction
<1>. QED  BY <1>3 DEF S

\* Total is the last value of a solution.
LEMMA TotalIsSum ==
  ASSUME NEW f, NEW n \in Nat
  PROVE  \E sum : Sums(sum, f, n) /\ Total(f, n) = sum[n]
<1>. DEFINE sum == CHOOSE sum : Sums(sum, f, n)
<1>1. Sums(sum, f, n)
  BY SumExists
<1>2. Total(f, n) = sum[n]
  BY DEF Total, Sums
<1>. HIDE DEF sum
<1>. QED  BY <1>1, <1>2

\* Total is what its name says.
LEMMA TotalUnfolds ==
  ASSUME NEW f
  PROVE  Total(f, 0) = 0 /\ \A n \in Nat : Total(f, n + 1) = Total(f, n) + f[n + 1]
<1>1. Total(f, 0) = 0
  BY TotalIsSum DEF Sums
<1>2. ASSUME NEW n \in Nat PROVE Total(f, n + 1) = Total(f, n) + f[n + 1]
  <2>1. PICK g : Sums(g, f, n) /\ Total(f, n) = g[n]
    BY TotalIsSum
  <2>2. PICK h : Sums(h, f, n + 1) /\ Total(f, n + 1) = h[n + 1]
    BY TotalIsSum
  <2>3. g[n] = h[n]
    BY <2>1, <2>2, SumUnique
  <2>4. h[n + 1] = h[n] + f[n + 1]
    BY <2>2 DEF Sums
  <2>. QED  BY <2>1, <2>2, <2>3, <2>4
<1>. QED  BY <1>1, <1>2

\* A sum of natural numbers is one.
LEMMA TotalNat ==
  ASSUME NEW f, NEW n \in Nat, \A k \in 1 .. n : f[k] \in Nat
  PROVE  Total(f, n) \in Nat
<1>. DEFINE S == {m \in Nat : m <= n => Total(f, m) \in Nat}
<1>1. 0 \in S
  BY TotalUnfolds
<1>2. ASSUME NEW m \in Nat, m \in S PROVE m + 1 \in S
  <2>1. CASE m + 1 <= n
    <3>1. Total(f, m) \in Nat /\ f[m + 1] \in Nat
      BY <1>2, <2>1
    <3>2. Total(f, m + 1) = Total(f, m) + f[m + 1]
      BY TotalUnfolds
    <3>. QED  BY <3>1, <3>2
  <2>. QED  BY <2>1
<1>. HIDE DEF S
<1>3. n \in S
  BY <1>1, <1>2, SetInduction
<1>. QED  BY <1>3 DEF S

\* Sums of the same summands are the same.
LEMMA TotalSame ==
  ASSUME NEW f, NEW g, NEW n \in Nat, \A k \in 1 .. n : f[k] = g[k]
  PROVE  Total(f, n) = Total(g, n)
<1>. DEFINE S == {m \in Nat : m <= n => Total(f, m) = Total(g, m)}
<1>1. 0 \in S
  BY TotalUnfolds
<1>2. ASSUME NEW m \in Nat, m \in S PROVE m + 1 \in S
  <2>1. CASE m + 1 <= n
    <3>1. Total(f, m) = Total(g, m) /\ f[m + 1] = g[m + 1]
      BY <1>2, <2>1
    <3>2. Total(f, m + 1) = Total(f, m) + f[m + 1]
      BY TotalUnfolds
    <3>3. Total(g, m + 1) = Total(g, m) + g[m + 1]
      BY TotalUnfolds
    <3>. QED  BY <3>1, <3>2, <3>3
  <2>. QED  BY <2>1
<1>. HIDE DEF S
<1>3. n \in S
  BY <1>1, <1>2, SetInduction
<1>. QED  BY <1>3 DEF S

\* Summands that are 0 may be left out at the end.
LEMMA TotalRest ==
  ASSUME NEW f, NEW n \in Nat, NEW m \in 0 .. n,
         \A k \in 1 .. n : f[k] \in Nat /\ (k > m => f[k] = 0)
  PROVE  Total(f, n) = Total(f, m)
<1>. DEFINE S == {i \in Nat : m + i <= n => Total(f, m + i) = Total(f, m)}
<1>0. Total(f, m) \in Nat
  BY TotalNat
<1>1. 0 \in S
  OBVIOUS
<1>2. ASSUME NEW i \in Nat, i \in S PROVE i + 1 \in S
  <2>1. CASE m + i + 1 <= n
    <3>1. Total(f, m + i) = Total(f, m) /\ f[m + i + 1] = 0
      BY <1>2, <2>1
    <3>2. Total(f, m + i + 1) = Total(f, m + i) + f[m + i + 1]
      BY TotalUnfolds
    <3>. QED  BY <1>0, <3>1, <3>2
  <2>. QED  BY <2>1
<1>. HIDE DEF S
<1>3. n - m \in S
  BY <1>1, <1>2, SetInduction
<1>. QED  BY <1>3 DEF S

-----------------------------------------------------------------------------
(* The invariant.                                                          *)

\* The runner is not in its loop, or has taken a decision to leave it.
Away == {"off", "resume", "ended", "await_resume", "returned"}
\* It is between two iterations, at one, or has just recorded one.
Between  == {"boundary", "wait", "pausing"}
Working  == {"open", "child", "judge", "fail", "cancel"}
Recorded == {"decide", "failed", "canceled"}

Count == Len(sr.iterations)

Core ==
  /\ spec \in Specs
  /\ sr \in Fold /\ Count <= MaxIter
  /\ \A n \in 1 .. Count :
       /\ sr.iterations[n].n = n
       /\ ~sr.iterations[n].skipped => sr.iterations[n].a \in Attempts
  /\ child \in [1 .. MaxIter -> [Attempts -> Child]]
  /\ run \in Runner
  /\ now \in 1 .. MaxTime

Sides ==
  /\ mailbox \in Seq(Controls) /\ sr.handled \subseteq DOMAIN mailbox
  /\ queue \in Seq(DOMAIN mailbox)
  /\ timers \in SUBSET Nat
  /\ ctx \in {"", "stop", "shutdown"} /\ hub \in {"none", "live", "done"}
  /\ daemon \in {"up", "stopping", "down"}
  /\ checked \in Controls \cup {""}
  /\ faults \in 0 .. MaxFaults
  /\ slot \in Nat \cup {-1}

\* A paused or ended series has no runner in its loop.
Rest ==
  /\ sr.paused => run.pc \in Away
  /\ sr.ended # "" => run.pc \in Away \ {"await_resume"} /\ ~sr.paused
  /\ run.pc = "await_resume" => sr.paused
  /\ run.pc = "ended" => sr.ended # ""

\* A hub has a runner; the runner cancels an iteration only when told to.
Hosted ==
  /\ hub = "none" <=> run.pc = "off"
  /\ hub = "done" => run.pc = "returned"
  /\ run.pc \in {"cancel", "canceled"} => ctx # ""
  /\ run.pc = "pausing" => queue # <<>>

\* Where the runner is in the series.
Place ==
  /\ run.pc \in Between \cup Working => run.n = Count + 1
  /\ run.pc \in Recorded => run.n = Count
  /\ run.pc \in {"wait", "pausing"} \cup Working \cup Recorded => run.n \in 1 .. MaxIter
  /\ run.pc \in Working \cup Recorded => run.a \in Attempts
  /\ run.pc \notin Away => run.inFlight <= run.n

-----------------------------------------------------------------------------
(* The moves of the runner.  `Same' is what a move leaves of the fold.     *)

Same == /\ sr'.iterations = sr.iterations /\ sr'.lastTick = sr.lastTick
        /\ sr'.epoch = sr.epoch /\ sr'.at = sr.at

\* The runner leaves its loop, or does not come to it.
Leaves == /\ run' \in Runner /\ run'.pc \in Away /\ child' = child
          /\ sr' \in Fold /\ Same /\ Rest' /\ now' = now

\* It enters the loop where the fold says: as it is, or as a resume leaves it.
Enters ==
  /\ run.pc \in Away /\ child' = child /\ sr' \in Fold /\ Rest' /\ now' = now
  /\ \/ sr' = sr /\ run' = [Position(sr, FALSE) EXCEPT !.pc = "boundary"]
     \/ /\ sr'.iterations = sr.iterations /\ sr'.at = sr.at
        /\ sr'.lastTick = now /\ sr'.epoch = sr.epoch + 1
        /\ run' = [Position(sr', TRUE) EXCEPT !.pc = "boundary"]

\* A control that changes nothing here is settled.
Drains == /\ run.pc \in {"boundary", "wait"} /\ run' = run /\ child' = child
          /\ sr' \in Fold /\ Same /\ Rest' /\ now' = now

\* It waits for a slot, or for its pace.
Timeline == spec.schedule \in {"interval", "cron"} /\ spec.every > 0
From == IF run.lastTick = 0 THEN now ELSE run.lastTick
Waits ==
  /\ run.pc = "boundary" /\ run.n \in 1 .. MaxIter /\ run.n # run.inFlight
  /\ sr' = sr /\ child' = child /\ now' = now
  /\ \E due, last \in Nat :
       /\ run' = [run EXCEPT !.due = due, !.lastTick = last, !.pc = "wait"]
       /\ \/ /\ spec.schedule = "self_paced" /\ run.n > 1
             /\ due = now + run.pace
          \/ /\ Timeline
             /\ last = From /\ due = NextSlot(last) /\ due > now

\* The slot was missed, and is recorded.
Skips ==
  /\ run.pc = "boundary" /\ run.n \in 1 .. MaxIter /\ run.n # run.inFlight
  /\ Timeline
  /\ NextSlot(From) <= now
  /\ sr' = FoldIteration(sr, SkippedRec(NextSlot(From)))
  /\ run' = [run EXCEPT !.n = @ + 1, !.lastTick = NextSlot(From)]
  /\ child' = child /\ now' = now

\* It starts the iteration: the one in flight, one that is due at once, the last
\* of several slots that were missed, or what it waited for.
Starts ==
  /\ run.pc \in {"boundary", "wait"} /\ run.n \in 1 .. MaxIter
  /\ sr' = sr /\ child' = child /\ now' = now
  /\ \E tick, last, left \in Nat :
       /\ run' = [run EXCEPT !.tick = tick, !.lastTick = last, !.due = 0, !.a = 1,
                             !.allowance = left, !.pc = "open"]
       /\ spec.cap > 0 => left = spec.cap - SpentTokens(sr)
       /\ \/ /\ run.pc = "boundary" /\ run.n = run.inFlight
             /\ tick = ConsumedSlotAfter(run.lastTick)
             /\ last = IF tick = 0 THEN run.lastTick ELSE tick
          \/ /\ run.pc = "boundary"
             /\ spec.schedule = "immediate" \/ run.n # run.inFlight
             /\ spec.schedule = "self_paced" => run.n = 1 \/ run.pace = 0
             /\ Timeline => /\ spec.schedule = "interval" /\ run.n = 1
                            /\ tick = now /\ last = now
                  \/ spec.overlap = "coalesce"
          \/ /\ run.pc = "wait" /\ now >= run.due
             /\ Timeline => tick = run.due /\ last = run.due

Halts == /\ run.pc = "wait" /\ run' = [run EXCEPT !.pc = "pausing"]
         /\ sr' = sr /\ child' = child /\ now' = now

\* A child runs, and ends.
Works ==
  /\ run.pc = "open" /\ run' = [run EXCEPT !.pc = "child"]
  /\ Me.st \in {"none", "open"}
  /\ \E u \in Nat : /\ child' = [child EXCEPT ![run.n][run.a] =
                                    [Me EXCEPT !.st = "open", !.used = u]]
                    /\ u = Me.used \/ (u = Me.used + 1 /\ Me.used < Limit)
  /\ sr' = sr /\ now' = now

Settles ==
  /\ \/ /\ run.pc \in {"open", "child"} /\ child' = child
        /\ run.pc = "open" => Me.st \in {"done", "failed"}
        /\ run.pc = "child" => ctx # ""
     \/ /\ run.pc = "child"
        /\ \E c \in Child : /\ c.st \in {"done", "failed"} /\ c.used = Me.used
                            /\ child' = [child EXCEPT ![run.n][run.a] = c]
  /\ Settle(child'[run.n][run.a])
  /\ sr' = sr /\ now' = now /\ ctx' = ctx

\* The iteration is recorded.
Records ==
  /\ \E reason \in {"completed", "error", "canceled"}, score \in {0, 1}, pass \in BOOLEAN :
       /\ sr' = FoldIteration(sr, Rec(reason, score))
       /\ \/ /\ run.pc = "judge" /\ reason = "completed"
             /\ run' = [run EXCEPT !.pass = pass, !.pc = "decide"]
          \/ run.pc = "fail" /\ reason = "error" /\ run' = [run EXCEPT !.pc = "failed"]
          \/ run.pc = "cancel" /\ reason = "canceled" /\ run' = [run EXCEPT !.pc = "canceled"]
  /\ child' = child /\ now' = now

\* The next one comes.
GoesOn ==
  /\ run.pc \in {"decide", "failed"}
  /\ \E pace \in Nat :
       /\ run' = [run EXCEPT !.n = @ + 1, !.a = 0, !.tick = 0, !.spent = 0,
                             !.allowance = 0, !.pass = FALSE, !.pace = pace,
                             !.pc = "boundary"]
       /\ run.pc = "decide" /\ spec.schedule = "self_paced" => pace = DeclaredPace(Me.intent)
  /\ sr' = sr /\ child' = child /\ now' = now

\* The runner does nothing: the daemon, a user or the clock does.
Rests == /\ run' = run /\ sr' = sr /\ child' = child
         /\ now' \in 1 .. MaxTime /\ now <= now'

Move == \/ Leaves \/ Enters \/ Drains \/ Waits \/ Skips \/ Starts \/ Halts
        \/ Works \/ Settles \/ Records \/ GoesOn \/ Rests

-----------------------------------------------------------------------------
(* Types of what the runner computes.                                      *)

LEMMA SpecFacts ==
  ASSUME Core
  PROVE  /\ spec \in DriverSpec /\ spec.every \in Nat /\ spec.cap \in Nat
         /\ spec.attempts \in Nat \ {0} /\ 1 \in Attempts
         /\ spec.schedule = "cron" => spec.every > 0
         /\ spec.onFailure # "retry" => spec.attempts = 1
         /\ spec.schedule \in {"immediate", "interval", "cron", "self_paced"}
         /\ spec.overlap \in {"skip", "coalesce"}
BY SeriesAssumption DEF Core, DriverSpec, Attempts

LEMMA FoldFacts ==
  ASSUME Core
  PROVE  /\ sr.iterations \in Seq(Iteration) /\ Count \in Nat
         /\ sr.lastTick \in Nat /\ sr.epoch \in Nat /\ sr.at \in Nat
         /\ DOMAIN sr.iterations = 1 .. Count
         /\ \A n \in 1 .. Count : sr.iterations[n] \in Iteration
BY DEF Core, Fold, Count

LEMMA RunFacts ==
  ASSUME Core
  PROVE  /\ run.pc \in Labels /\ run.n \in Nat /\ run.a \in Nat
         /\ run.lastTick \in Nat /\ run.pace \in Nat /\ run.inFlight \in Nat
         /\ run.tick \in Nat /\ run.spent \in Nat /\ run.allowance \in Nat
         /\ run.due \in Nat
BY DEF Core, Runner

LEMMA TimeFacts ==
  ASSUME Core
  PROVE  now \in Nat /\ now >= 1
BY SeriesAssumption DEF Core

LEMMA ChildFacts ==
  ASSUME Core, NEW n \in 1 .. MaxIter, NEW a \in Attempts
  PROVE  /\ child[n][a] \in Child /\ child[n][a].used \in Nat
         /\ child[n][a].st \in {"none", "open", "done", "failed"}
         /\ child[n][a].intent \in Intents
BY DEF Core, Child

LEMMA PaceType ==
  ASSUME Core, NEW i \in Intents
  PROVE  DeclaredPace(i) \in Nat /\ DeclaredPace(i) >= Floor /\ DeclaredPace(i) > 0
<1>1. i.kind = "next" => i.after \in Nat
  BY SeriesAssumption DEF Intents, NoIntent
<1>. QED  BY <1>1, SeriesAssumption DEF DeclaredPace, ClampPace

\* The first slot after t is later than t.
LEMMA SlotIsLater ==
  ASSUME Core, NEW t \in Nat, spec.every > 0
  PROVE  NextSlot(t) \in Nat /\ NextSlot(t) > t
<1>1. spec.every \in Nat \ {0}
  BY SpecFacts
<1>2. ((t \div spec.every) + 1) * spec.every > t
  BY <1>1
<1>3. ((t \div spec.every) + 1) * spec.every \in Nat
  BY <1>1
<1>. QED  BY <1>1, <1>2, <1>3 DEF NextSlot

LEMMA SlotType ==
  ASSUME Core, NEW t \in Nat, spec.schedule \in {"interval", "cron"}
  PROVE  NextSlot(t) \in Nat
<1>1. CASE spec.every > 0
  BY <1>1, SlotIsLater
<1>2. CASE spec.every = 0
  BY <1>2, SpecFacts DEF NextSlot
<1>. QED  BY <1>1, <1>2, SpecFacts

LEMMA DueType ==
  ASSUME Core, NEW t \in Nat, spec.every > 0, t <= now
  PROVE  LastDue(t) \in Nat
<1>1. spec.every \in Nat \ {0}
  BY SpecFacts
<1>2. (now \div spec.every) * spec.every \in Nat
  BY <1>1, TimeFacts
<1>3. now - t \in Nat
  BY TimeFacts
<1>4. ((now - t) \div spec.every) * spec.every \in Nat
  BY <1>1, <1>3
<1>. QED  BY <1>2, <1>4 DEF LastDue

LEMMA ConsumedType ==
  ASSUME Core, NEW t \in Nat, LoopMode
  PROVE  ConsumedSlotAfter(t) \in Nat
<1>1. CASE spec.schedule = "self_paced"
  BY <1>1 DEF ConsumedSlotAfter
<1>2. CASE spec.schedule = "interval"
  BY <1>2, SlotType, TimeFacts DEF ConsumedSlotAfter
<1>3. CASE spec.schedule = "cron"
  <2>1. (IF t = 0 THEN now - 1 ELSE t) \in Nat
    BY TimeFacts
  <2>. QED  BY <1>3, <2>1, SlotType DEF ConsumedSlotAfter
<1>. QED  BY <1>1, <1>2, <1>3 DEF LoopMode, Loops

LEMMA SpentType ==
  ASSUME Core
  PROVE  SpentTokens(sr) \in Nat
<1>. DEFINE f == [n \in DOMAIN sr.iterations |->
                    IF n \in Ran(sr) THEN sr.iterations[n].usage ELSE 0]
<1>1. \A k \in 1 .. Count : f[k] \in Nat
  BY FoldFacts DEF Iteration
<1>2. SpentTokens(sr) = Total(f, Count)
  BY DEF SpentTokens, Count
<1>. HIDE DEF f
<1>. QED  BY <1>1, <1>2, TotalNat, FoldFacts

\* The latest iteration that ran.
LEMMA LastFact ==
  ASSUME Core
  PROVE  \/ LastCompleted = 0 /\ Ran(sr) = {}
         \/ LastCompleted \in Ran(sr) /\ \A m \in Ran(sr) : m <= LastCompleted
<1>. SUFFICES ASSUME Ran(sr) # {}
              PROVE  \E n \in Ran(sr) : \A m \in Ran(sr) : m <= n
  BY DEF LastCompleted
<1>. DEFINE T == {k \in 0 .. Count : Count - k \in Ran(sr)}
<1>1. Ran(sr) \subseteq 1 .. Count
  BY FoldFacts DEF Ran
<1>2. T # {}
  <2>1. PICK n \in Ran(sr) : TRUE
    OBVIOUS
  <2>2. Count - n \in T
    BY <2>1, <1>1, FoldFacts
  <2>. QED  BY <2>2
<1>5. T \in SUBSET Nat
  OBVIOUS
<1>. HIDE DEF T
<1>3. PICK x \in T : \A y \in T : x <= y
  BY <1>2, <1>5, LeastNumber
<1>. USE DEF T
<1>4. ASSUME NEW m \in Ran(sr) PROVE m <= Count - x
  <2>1. Count - m \in T
    BY <1>1, FoldFacts
  <2>. QED  BY <2>1, <1>1, <1>3, FoldFacts
<1>. QED  BY <1>3, <1>4

LEMMA PositionType ==
  ASSUME Core, NEW s \in Fold, s.iterations = sr.iterations, NEW b \in BOOLEAN
  PROVE  [Position(s, b) EXCEPT !.pc = "boundary"] \in Runner
<1>1. ResumedPace(LastCompleted, b) \in Nat
  <2>1. CASE LastCompleted = 0
    BY <2>1 DEF ResumedPace
  <2>2. CASE LastCompleted \in Ran(sr)
    <3>1. LastCompleted \in 1 .. MaxIter
      <4>1. LastCompleted \in 1 .. Count
        BY <2>2, FoldFacts DEF Ran
      <4>2. Count <= MaxIter /\ MaxIter \in Nat /\ Count \in Nat
        BY FoldFacts, SeriesAssumption DEF Core
      <4>. QED  BY <4>1, <4>2
    <3>2. sr.iterations[LastCompleted].a \in Attempts
      BY <2>2, FoldFacts DEF Ran, Core
    <3>. QED  BY <3>1, <3>2, ChildFacts, PaceType DEF ResumedPace
  <2>. QED  BY <2>1, <2>2, LastFact
<1>2. Len(s.iterations) \in Nat /\ s.lastTick \in Nat
  BY FoldFacts DEF Fold, Count
<1>3. PICK p \in Nat : p = ResumedPace(LastCompleted, b)
  BY <1>1
<1>4. PICK f \in Nat : f = IF HasChildJournal(Len(s.iterations) + 1)
                          THEN Len(s.iterations) + 1 ELSE 0
  <2>1. Len(s.iterations) + 1 \in Nat /\ 0 \in Nat
    BY <1>2
  <2>. QED  BY <2>1
<1>5. Off \in Runner
  BY DEF Off, Runner, Labels
<1>6. [Off EXCEPT !.n = Len(s.iterations) + 1, !.lastTick = s.lastTick, !.pace = p,
                  !.inFlight = f, !.pc = "boundary"] \in Runner
  <2>1. Len(s.iterations) + 1 \in Nat
    BY <1>2
  <2>. QED  BY <1>2, <1>5, <2>1, Zenon DEF Runner, Labels
<1>. QED  BY <1>3, <1>4, <1>6 DEF Position

-----------------------------------------------------------------------------
(* Every step is a move.                                                   *)

Known == Core /\ Sides /\ Rest /\ Hosted /\ Place

\* What a control does: it settles, and a pause or a resume of a series that has
\* not ended turns the mark.
LEMMA AppliedFact ==
  ASSUME Core, NEW id \in Nat
  PROVE  /\ Applied(id) \in Fold
         /\ Applied(id).iterations = sr.iterations /\ Applied(id).at = sr.at
         /\ Applied(id).ended = sr.ended
         /\ Applied(id).handled = sr.handled \cup {id}
         /\ \/ /\ Applied(id).lastTick = sr.lastTick /\ Applied(id).epoch = sr.epoch
               /\ \/ Applied(id).paused = sr.paused /\ ~TakesPause(id)
                  \/ Applied(id).paused = TRUE /\ TakesPause(id)
            \/ /\ sr.ended = "" /\ sr.paused /\ mailbox[id] = "resume" /\ ~TakesPause(id)
               /\ Applied(id).lastTick = now /\ Applied(id).epoch = sr.epoch + 1
               /\ Applied(id).paused = FALSE
<1>. DEFINE h == [sr EXCEPT !.handled = @ \cup {id}]
<1>0. sr \in Fold /\ now \in Nat /\ sr.epoch + 1 \in Nat
  BY FoldFacts, TimeFacts DEF Core
<1>1. /\ h \in Fold /\ h.iterations = sr.iterations /\ h.at = sr.at /\ h.ended = sr.ended
      /\ h.handled = sr.handled \cup {id} /\ h.paused = sr.paused
      /\ h.lastTick = sr.lastTick /\ h.epoch = sr.epoch
  BY <1>0 DEF Fold
<1>2. CASE Applied(id) = h /\ ~TakesPause(id)
  BY <1>1, <1>2
<1>3. CASE TakesPause(id)
  <2>1. Applied(id) = [h EXCEPT !.paused = TRUE]
    <3>1. sr.ended = "" /\ mailbox[id] = "pause" /\ "resume" # "pause"
      BY <1>3 DEF TakesPause
    <3>. QED  BY <3>1, Zenon DEF Applied, TakesPause
  <2>2. Applied(id) \in Fold
    BY <2>1, <1>1 DEF Fold
  <2>. QED  BY <2>1, <2>2, <1>1, <1>3 DEF Fold
<1>4. CASE sr.ended = "" /\ mailbox[id] = "resume" /\ sr.paused
  <2>. DEFINE a == [h EXCEPT !.paused = FALSE]
              b == [a EXCEPT !.lastTick = now]
              c == [b EXCEPT !.epoch = sr.epoch + 1]
  <2>1. ~TakesPause(id)
    BY <1>4 DEF TakesPause
  <2>2. Applied(id) = [h EXCEPT !.paused = FALSE, !.lastTick = now, !.epoch = @ + 1]
    BY <1>4, <2>1, Zenon DEF Applied
  <2>3. Applied(id) = c
    BY <2>2, <1>1
  <2>4. a \in Fold /\ b \in Fold /\ c \in Fold
    <3>1. a \in Fold
      BY <1>1 DEF Fold
    <3>. HIDE DEF a
    <3>2. b \in Fold
      BY <1>0, <3>1 DEF Fold
    <3>. HIDE DEF b
    <3>. QED  BY <1>0, <3>1, <3>2 DEF Fold
  <2>5. /\ c.iterations = sr.iterations /\ c.at = sr.at /\ c.ended = sr.ended
        /\ c.handled = sr.handled \cup {id} /\ c.lastTick = now
        /\ c.epoch = sr.epoch + 1 /\ c.paused = FALSE
    BY <1>0, <1>1 DEF Fold
  <2>. HIDE DEF c
  <2>. QED  BY <2>1, <2>3, <2>4, <2>5, <1>4
<1>5. ASSUME ~TakesPause(id), ~ (sr.ended = "" /\ mailbox[id] = "resume" /\ sr.paused)
      PROVE  Applied(id) = h
  BY <1>5, Zenon DEF Applied
<1>. HIDE DEF h
<1>. QED  BY <1>2, <1>3, <1>4, <1>5

LEMMA HeadFact ==
  ASSUME Sides, queue # <<>>
  PROVE  /\ Head(queue) \in DOMAIN mailbox /\ Head(queue) \in Nat
         /\ Tail(queue) \in Seq(DOMAIN mailbox)
<1>1. mailbox \in Seq(Controls) /\ queue \in Seq(DOMAIN mailbox)
  BY DEF Sides
<1>2. DOMAIN mailbox = 1 .. Len(mailbox) /\ Len(mailbox) \in Nat
  BY <1>1
<1>3. Head(queue) \in DOMAIN mailbox /\ Tail(queue) \in Seq(DOMAIN mailbox)
  BY <1>1
<1>. QED  BY <1>2, <1>3

LEMMA AwayType ==
  ASSUME Core, NEW r \in Runner, NEW l \in Labels
  PROVE  [r EXCEPT !.pc = l] \in Runner /\ [r EXCEPT !.pc = l].pc = l
BY DEF Runner

LEMMA OffType == Off \in Runner /\ [Off EXCEPT !.n = 0] \in Runner /\ Off.pc = "off"
BY DEF Off, Runner, Labels

LEMMA ReturnFact ==
  ASSUME Core, Return
  PROVE  run' \in Runner /\ run'.pc = "returned"
<1>1. run.n \in Nat
  BY RunFacts
<1>2. [Off EXCEPT !.n = run.n] \in Runner
  BY <1>1, OffType DEF Runner
<1>. QED  BY <1>2, AwayType DEF Return, Goto, Labels

LEMMA FinishFact ==
  ASSUME Core, NEW reason \in Ends, FinishSeries(reason)
  PROVE  /\ run' \in Runner /\ run'.pc = "returned" /\ Same
         /\ sr' \in Fold /\ sr'.handled = sr.handled
         /\ sr'.ended = reason /\ sr'.paused = FALSE
<1>1. sr' = [sr EXCEPT !.ended = reason, !.paused = FALSE] /\ sr \in Fold
  BY DEF FinishSeries, Core
<1>2. sr' \in Fold
  BY <1>1 DEF Fold
<1>3. /\ Same /\ sr'.handled = sr.handled
      /\ sr'.ended = reason /\ sr'.paused = FALSE
  BY <1>1 DEF Fold, Same
<1>. QED  BY <1>2, <1>3, ReturnFact DEF FinishSeries

LEMMA StaysRunner ==
  ASSUME Core, NEW l \in Labels, Goto(run, l)
  PROVE  run' \in Runner /\ run'.pc = l
BY AwayType DEF Goto, Core

LEMMA ResumeMoves ==
  ASSUME Known, ResumeSeries
  PROVE  Leaves \/ Enters
<1>1. /\ sr' = sr /\ child' = child /\ now' = now /\ sr' \in Fold /\ Same
      /\ run.pc = "resume"
  BY DEF ResumeSeries, RunnerOnly, Unseen, Others, At, Known, Core, Same
<1>2. CASE sr.ended # "" /\ Goto(run, "ended")
  <2>1. run' \in Runner /\ run'.pc = "ended"
    BY <1>2, StaysRunner DEF Labels, Known
  <2>. QED  BY <1>1, <1>2, <2>1 DEF Leaves, Away, Rest, Known
<1>3. CASE sr.ended = "" /\ sr.paused /\ Goto(run, "await_resume")
  <2>1. run' \in Runner /\ run'.pc = "await_resume"
    BY <1>3, StaysRunner DEF Labels, Known
  <2>. QED  BY <1>1, <1>3, <2>1 DEF Leaves, Away, Rest
<1>4. CASE sr.ended = "" /\ ~sr.paused /\ Goto(Position(sr, FALSE), "boundary")
  <2>1. run' = [Position(sr, FALSE) EXCEPT !.pc = "boundary"]
    BY <1>4 DEF Goto
  <2>2. run' \in Runner
    BY <2>1, PositionType DEF Known, Core
  <2>3. run'.pc = "boundary"
    BY <2>1 DEF Position, Off
  <2>. QED  BY <1>1, <1>4, <2>1, <2>2, <2>3 DEF Enters, Away, Rest
<1>. QED  BY <1>2, <1>3, <1>4 DEF ResumeSeries

LEMMA AppliesAway ==
  ASSUME Known, queue # <<>>, sr' = Applied(Head(queue)), child' = child, now' = now,
         run' \in Runner, run'.pc \in Away \ {"await_resume"},
         run'.pc = "ended" => sr.ended # "",
         sr.paused => sr'.paused
  PROVE  Leaves
<1>1. Head(queue) \in Nat
  BY HeadFact DEF Known
<1>. USE AppliedFact, <1>1 DEF Known
<1>2. sr' \in Fold /\ Same
  BY DEF Same
<1>3. sr'.ended # "" => ~sr'.paused
  BY DEF Rest, TakesPause
<1>. QED  BY <1>2, <1>3 DEF Leaves, Rest, Away

LEMMA EndedMoves ==
  ASSUME Known, DrainEnded
  PROVE  Leaves \/ Rests
<1>1. child' = child /\ now' = now /\ now \in 1 .. MaxTime /\ run.pc = "ended"
  BY DEF DrainEnded, Others, At, Known, Core
<1>2. CASE queue # <<>> /\ sr' = Applied(Head(queue)) /\ run' = run
  <2>1. run' \in Runner /\ run'.pc \in Away \ {"await_resume"}
    BY <1>1, <1>2 DEF Known, Core, Away
  <2>2. sr.ended # ""
    BY <1>1 DEF Known, Rest
  <2>3. ~sr.paused
    BY <2>2 DEF Known, Rest
  <2>. QED  BY <1>1, <1>2, <2>1, <2>2, <2>3, AppliesAway
<1>3. CASE Return /\ sr' = sr
  <2>1. run' \in Runner /\ run'.pc = "returned"
    BY <1>3, ReturnFact DEF Known
  <2>. QED  BY <1>1, <1>3, <2>1 DEF Leaves, Away, Rest, Known, Core, Same
<1>. QED  BY <1>2, <1>3 DEF DrainEnded

LEMMA AwaitMoves ==
  ASSUME Known, AwaitSeriesResume
  PROVE  Leaves \/ Enters
<1>1. /\ child' = child /\ now' = now /\ run.pc = "await_resume" /\ sr.paused
  BY DEF AwaitSeriesResume, Others, At, Known, Rest
<1>2. CASE queue # <<>> /\ sr' = Applied(Head(queue)) /\ sr'.paused /\ Return
  <2>1. run' \in Runner /\ run'.pc = "returned"
    BY <1>2, ReturnFact DEF Known
  <2>. QED  BY <1>1, <1>2, <2>1, AppliesAway DEF Away
<1>3. CASE /\ queue # <<>> /\ sr' = Applied(Head(queue)) /\ ~sr'.paused
           /\ Goto(Position(sr', TRUE), "boundary")
  <2>1. Head(queue) \in Nat
    BY <1>3, HeadFact DEF Known
  <2>2. /\ sr' \in Fold /\ sr'.iterations = sr.iterations /\ sr'.at = sr.at
        /\ sr'.ended = "" /\ sr'.lastTick = now /\ sr'.epoch = sr.epoch + 1
    BY <1>1, <1>3, <2>1, AppliedFact DEF Known, Rest
  <2>3. run' = [Position(sr', TRUE) EXCEPT !.pc = "boundary"]
    BY <1>3 DEF Goto
  <2>4. run'.pc = "boundary"
    BY <2>3 DEF Position, Off
  <2>. QED  BY <1>1, <1>3, <2>2, <2>3, <2>4 DEF Enters, Away, Rest
<1>4. CASE Return /\ sr' = sr
  <2>1. run' \in Runner /\ run'.pc = "returned"
    BY <1>4, ReturnFact DEF Known
  <2>2. sr.ended = ""
    BY <1>1 DEF Known, Rest
  <2>. QED  BY <1>1, <1>4, <2>1, <2>2 DEF Leaves, Away, Rest, Known, Core, Same
<1>. QED  BY <1>2, <1>3, <1>4 DEF AwaitSeriesResume

\* The loop does not go on when its series has ended or was paused.
LEMMA InLoop ==
  ASSUME Known, run.pc \notin Away
  PROVE  sr.ended = "" /\ ~sr.paused
BY DEF Known, Rest, Away

LEMMA FinishMoves ==
  ASSUME Known, NEW reason \in Ends, FinishSeries(reason), child' = child, now' = now
  PROVE  Leaves
<1>1. /\ run' \in Runner /\ run'.pc = "returned" /\ Same
      /\ sr' \in Fold /\ sr'.paused = FALSE
  BY FinishFact DEF Known
<1>. QED  BY <1>1 DEF Leaves, Away, Rest

LEMMA ReturnMoves ==
  ASSUME Known, Return, sr' = sr, child' = child, now' = now
  PROVE  Leaves
<1>1. run' \in Runner /\ run'.pc = "returned" /\ sr \in Fold
  BY ReturnFact DEF Known, Core
<1>2. sr.ended # "" => ~sr.paused
  BY DEF Known, Rest
<1>. QED  BY <1>1, <1>2 DEF Leaves, Away, Rest, Same

LEMMA CancelMoves ==
  ASSUME Known, SeriesCancelTerminal, child' = child, now' = now
  PROVE  Leaves
<1>1. CASE Return /\ sr' = sr
  BY <1>1, ReturnMoves
<1>2. CASE FinishSeries("cancelled")
  BY <1>2, FinishMoves DEF Ends
<1>. QED  BY <1>1, <1>2 DEF SeriesCancelTerminal

\* A control that is taken in the loop pauses the series or changes nothing.
LEMMA ControlMoves ==
  ASSUME Known, run.pc \in {"boundary", "wait", "pausing"}, queue # <<>>,
         sr' = Applied(Head(queue)), child' = child, now' = now,
         \/ Return
         \/ /\ run.pc \in {"boundary", "wait"} /\ run' = run
            /\ ~TakesPause(Head(queue))
  PROVE  Leaves \/ Drains
<1>1. Head(queue) \in Nat /\ sr.ended = "" /\ ~sr.paused
  BY HeadFact, InLoop DEF Known, Away
<1>2. CASE Return
  <2>1. run' \in Runner /\ run'.pc = "returned"
    BY <1>2, ReturnFact DEF Known
  <2>. QED  BY <1>1, <2>1, AppliesAway DEF Away
<1>3. CASE /\ run.pc \in {"boundary", "wait"} /\ run' = run
           /\ ~TakesPause(Head(queue))
  <2>1. /\ sr' \in Fold /\ Same /\ sr'.ended = "" /\ sr'.paused = sr.paused
    BY <1>1, <1>3, AppliedFact DEF Known, Same
  <2>. QED  BY <1>1, <1>3, <2>1 DEF Drains, Rest
<1>. QED  BY <1>2, <1>3

LEMMA DrainMoves ==
  ASSUME Known, DrainSeriesControls \/ PauseWait \/ ControlInWait
  PROVE  Leaves \/ Drains
<1>1. child' = child /\ now' = now /\ sr' = Applied(Head(queue))
  BY DEF DrainSeriesControls, PauseWait, ControlInWait, Others
<1>2. CASE DrainSeriesControls
  BY <1>1, <1>2, ControlMoves DEF DrainSeriesControls, At
<1>3. CASE PauseWait
  <2>1. queue # <<>>
    BY <1>3 DEF PauseWait, At, Known, Hosted
  <2>. QED  BY <1>1, <1>3, <2>1, ControlMoves DEF PauseWait, At
<1>4. CASE ControlInWait
  BY <1>1, <1>4, ControlMoves DEF ControlInWait, At
<1>. QED  BY <1>2, <1>3, <1>4

LEMMA StartMoves ==
  ASSUME Known, NEW tick \in Nat, NEW last \in Nat, StartAt(tick, last),
         child' = child, now' = now
  PROVE  \/ Leaves
         \/ /\ sr' = sr
            /\ \E left \in Nat :
                 /\ run' = [run EXCEPT !.tick = tick, !.lastTick = last, !.due = 0, !.a = 1,
                                       !.allowance = left, !.pc = "open"]
                 /\ spec.cap > 0 => left = spec.cap - SpentTokens(sr)
<1>. DEFINE remaining == spec.cap - SpentTokens(sr)
<1>1. spec.cap \in Nat /\ SpentTokens(sr) \in Nat
  BY SpecFacts, SpentType DEF Known
<1>2. CASE spec.cap > 0 /\ remaining <= 0
  <2>1. FinishSeries("budget")
    BY <1>2 DEF StartAt
  <2>. QED  BY <2>1, FinishMoves DEF Ends
<1>3. CASE spec.cap > 0 /\ ~ (remaining <= 0)
  <2>1. remaining \in Nat
    BY <1>1, <1>3
  <2>2. /\ run' = [run EXCEPT !.tick = tick, !.lastTick = last, !.due = 0, !.a = 1,
                              !.allowance = remaining, !.pc = "open"]
        /\ sr' = sr
    BY <1>3 DEF StartAt, Goto
  <2>. QED  BY <2>1, <2>2
<1>4. CASE ~ (spec.cap > 0)
  <2>1. /\ run' = [run EXCEPT !.tick = tick, !.lastTick = last, !.due = 0, !.a = 1,
                              !.allowance = 0, !.pc = "open"]
        /\ sr' = sr
    BY <1>4 DEF StartAt, Goto
  <2>. QED  BY <1>4, <2>1
<1>. QED  BY <1>2, <1>3, <1>4

LEMMA BoundaryFact ==
  ASSUME Known, PastBoundary
  PROVE  run.pc = "boundary" /\ run.n \in 1 .. MaxIter
<1>1. run.pc = "boundary" /\ run.n <= MaxIter
  BY DEF PastBoundary, At
<1>2. run.n = Count + 1
  BY <1>1 DEF Known, Place, Between
<1>3. Count \in Nat /\ MaxIter \in Nat
  BY FoldFacts, SeriesAssumption DEF Known
<1>. QED  BY <1>1, <1>2, <1>3

LEMMA InFlightMoves ==
  ASSUME Known, ResumeInFlight
  PROVE  Leaves \/ Starts
<1>1. /\ run.pc = "boundary" /\ run.n \in 1 .. MaxIter /\ LoopMode /\ run.n = run.inFlight
      /\ child' = child /\ now' = now
  BY BoundaryFact DEF ResumeInFlight, RunnerOnly, Unseen, Others
<1>. DEFINE t == ConsumedSlotAfter(run.lastTick)
            last == IF t = 0 THEN run.lastTick ELSE t
<1>2. t \in Nat /\ last \in Nat
  BY <1>1, ConsumedType, RunFacts DEF Known
<1>3. StartAt(t, last)
  BY DEF ResumeInFlight
<1>. HIDE DEF last
<1>4. \/ Leaves
      \/ /\ sr' = sr
         /\ \E left \in Nat :
              /\ run' = [run EXCEPT !.tick = t, !.lastTick = last, !.due = 0, !.a = 1,
                                    !.allowance = left, !.pc = "open"]
              /\ spec.cap > 0 => left = spec.cap - SpentTokens(sr)
  BY <1>1, <1>2, <1>3, StartMoves
<1>. QED  BY <1>1, <1>2, <1>4 DEF Starts, last

LEMMA TickMoves ==
  ASSUME Known, TickAtOnce
  PROVE  Leaves \/ Starts
<1>1. /\ run.pc = "boundary" /\ run.n \in 1 .. MaxIter
      /\ child' = child /\ now' = now
  BY BoundaryFact DEF TickAtOnce, RunnerOnly, Unseen, Others
<1>2. PICK tick \in Nat, last \in Nat :
        /\ StartAt(tick, last)
        /\ spec.schedule = "immediate" \/ run.n # run.inFlight
        /\ spec.schedule = "self_paced" => run.n = 1 \/ run.pace = 0
        /\ Timeline => /\ spec.schedule = "interval" /\ run.n = 1
                       /\ tick = now /\ last = now
  <2>1. run.lastTick \in Nat /\ now \in Nat
    BY RunFacts, TimeFacts DEF Known
  <2>2. CASE ~LoopMode /\ StartAt(0, 0)
    BY <2>2, SpecFacts DEF Known, LoopMode, Loops, Timeline
  <2>3. CASE AtCadence /\ spec.schedule = "interval" /\ spec.every = 0 /\ StartAt(now, run.lastTick)
    BY <2>1, <2>3 DEF AtCadence, Timeline
  <2>4. CASE AtCadence /\ spec.schedule = "interval" /\ run.n = 1 /\ StartAt(now, now)
    BY <2>1, <2>4 DEF AtCadence, Timeline
  <2>5. CASE /\ AtCadence /\ spec.schedule = "self_paced"
             /\ run.n = 1 \/ run.pace = 0
             /\ StartAt(0, run.lastTick)
    BY <2>1, <2>5 DEF AtCadence, Timeline
  <2>. QED  BY <2>2, <2>3, <2>4, <2>5 DEF TickAtOnce
<1>3. \/ Leaves
      \/ /\ sr' = sr
         /\ \E left \in Nat :
              /\ run' = [run EXCEPT !.tick = tick, !.lastTick = last, !.due = 0, !.a = 1,
                                    !.allowance = left, !.pc = "open"]
              /\ spec.cap > 0 => left = spec.cap - SpentTokens(sr)
  BY <1>1, <1>2, StartMoves
<1>. QED  BY <1>1, <1>2, <1>3 DEF Starts

LEMMA PacedMoves ==
  ASSUME Known, TickSelfPaced
  PROVE  Waits
<1>1. /\ run.pc = "boundary" /\ run.n \in 1 .. MaxIter /\ run.n # run.inFlight
      /\ spec.schedule = "self_paced" /\ run.n > 1
      /\ sr' = sr /\ child' = child /\ now' = now
      /\ Arm(now + run.pace, run.lastTick)
  BY BoundaryFact DEF TickSelfPaced, AtCadence, RunnerOnly, Unseen, Others
<1>2. now + run.pace \in Nat /\ run.lastTick \in Nat
  BY RunFacts, TimeFacts DEF Known
<1>3. run' = [run EXCEPT !.due = now + run.pace, !.lastTick = run.lastTick, !.pc = "wait"]
  BY <1>1 DEF Arm, Goto
<1>. QED  BY <1>1, <1>2, <1>3 DEF Waits

LEMMA TimelineMoves ==
  ASSUME Known, TickOnTimeline
  PROVE  Leaves \/ Starts \/ Waits \/ Skips
<1>1. /\ run.pc = "boundary" /\ run.n \in 1 .. MaxIter /\ run.n # run.inFlight
      /\ child' = child /\ now' = now
      /\ Timeline /\ (spec.schedule = "interval" => run.n > 1)
  BY BoundaryFact, SpecFacts DEF TickOnTimeline, AtCadence, RunnerOnly, Unseen, Others, Known,
     Timeline
<1>2. From \in Nat /\ NextSlot(From) \in Nat
  <2>1. From \in Nat
    BY RunFacts, TimeFacts DEF Known, From
  <2>. QED  BY <1>1, <2>1, SlotType DEF Known, Timeline
<1>3. CASE NextSlot(From) > now /\ Arm(NextSlot(From), From) /\ sr' = sr
  <2>1. run' = [run EXCEPT !.due = NextSlot(From), !.lastTick = From, !.pc = "wait"]
    BY <1>3 DEF Arm, Goto
  <2>. QED  BY <1>1, <1>2, <1>3, <2>1 DEF Waits
<1>4. CASE /\ NextSlot(From) <= now /\ spec.overlap = "coalesce"
           /\ StartAt(LastDue(From), LastDue(From))
  <2>1. LastDue(From) \in Nat
    <3>1. From <= now
      BY <1>1, <1>2, <1>4, SlotIsLater, TimeFacts DEF Known, Timeline
    <3>. QED  BY <1>1, <1>2, <3>1, DueType DEF Known, Timeline
  <2>. DEFINE t == LastDue(From)
  <2>2. StartAt(t, t) /\ t \in Nat
    BY <1>4, <2>1
  <2>. HIDE DEF t
  <2>3. \/ Leaves
        \/ /\ sr' = sr
           /\ \E left \in Nat :
                /\ run' = [run EXCEPT !.tick = t, !.lastTick = t, !.due = 0, !.a = 1,
                                      !.allowance = left, !.pc = "open"]
                /\ spec.cap > 0 => left = spec.cap - SpentTokens(sr)
    BY <1>1, <2>2, StartMoves
  <2>4. spec.schedule # "self_paced"
    BY <1>1 DEF Timeline
  <2>. QED  BY <1>1, <1>4, <2>2, <2>3, <2>4 DEF Starts
<1>5. CASE /\ NextSlot(From) <= now
           /\ sr' = FoldIteration(sr, SkippedRec(NextSlot(From)))
           /\ Goto([run EXCEPT !.n = @ + 1, !.lastTick = NextSlot(From)], "boundary")
  BY <1>1, <1>5 DEF Skips, Goto
<1>. QED  BY <1>3, <1>4, <1>5 DEF TickOnTimeline, From

LEMMA FiredMoves ==
  ASSUME Known, TimerFired
  PROVE  Leaves \/ Starts
<1>1. /\ run.pc = "wait" /\ run.n \in 1 .. MaxIter /\ now >= run.due
      /\ child' = child /\ now' = now
  BY DEF TimerFired, RunnerOnly, Unseen, Others, At, Known, Place
<1>2. run.lastTick \in Nat /\ run.due \in Nat
  BY RunFacts DEF Known
<1>3. PICK tick \in Nat, last \in Nat :
        StartAt(tick, last) /\ (Timeline => tick = run.due /\ last = run.due)
  BY <1>2 DEF TimerFired, Timeline
<1>4. \/ Leaves
      \/ /\ sr' = sr
         /\ \E left \in Nat :
              /\ run' = [run EXCEPT !.tick = tick, !.lastTick = last, !.due = 0, !.a = 1,
                                    !.allowance = left, !.pc = "open"]
              /\ spec.cap > 0 => left = spec.cap - SpentTokens(sr)
  BY <1>1, <1>3, StartMoves
<1>. QED  BY <1>1, <1>3, <1>4 DEF Starts

LEMMA StopMoves ==
  ASSUME Known, BoundaryCancelled \/ IterationLimit \/ WaitCancelled \/ AfterCancel
  PROVE  Leaves
<1>1. child' = child /\ now' = now
  BY DEF BoundaryCancelled, IterationLimit, WaitCancelled, AfterCancel, RunnerOnly, Unseen,
         Others
<1>2. CASE SeriesCancelTerminal
  BY <1>1, <1>2, CancelMoves
<1>3. CASE FinishSeries(SeriesLimitReason(sr))
  <2>1. SeriesLimitReason(sr) \in Ends
    BY DEF SeriesLimitReason, Ends
  <2>. QED  BY <1>1, <1>3, <2>1, FinishMoves
<1>. QED  BY <1>2, <1>3 DEF BoundaryCancelled, IterationLimit, WaitCancelled, AfterCancel

LEMMA HaltMoves ==
  ASSUME Known, PauseCancelsWait
  PROVE  Halts
BY DEF Halts, PauseCancelsWait, RunnerOnly, Unseen, Others, At, Goto

LEMMA MeFact ==
  ASSUME Known, run.pc \in Working \cup Recorded
  PROVE  /\ run.n \in 1 .. MaxIter /\ run.a \in Attempts /\ Me \in Child
         /\ Me.used \in Nat /\ Me.intent \in Intents
         /\ child[run.n] \in [Attempts -> Child]
<1>1. run.n \in 1 .. MaxIter /\ run.a \in Attempts
  BY DEF Known, Place
<1>2. child \in [1 .. MaxIter -> [Attempts -> Child]]
  BY DEF Known, Core
<1>. QED  BY <1>1, <1>2, ChildFacts DEF Me, Known

LEMMA RunMoves ==
  ASSUME Known, RunChild
  PROVE  Works
<1>1. /\ run.pc = "open" /\ sr' = sr /\ now' = now /\ Me.st \in {"none", "open"}
      /\ run' = [run EXCEPT !.pc = "child"]
  BY DEF RunChild, Unseen, Others, At, Goto
<1>2. /\ run.n \in 1 .. MaxIter /\ run.a \in Attempts /\ Me.used \in Nat /\ Me \in Child
      /\ child \in [1 .. MaxIter -> [Attempts -> Child]]
  BY <1>1, MeFact DEF Known, Core, Working
<1>3. PICK u \in Nat : /\ u = IF Me.used < Limit THEN Me.used + 1 ELSE Me.used
                       /\ u = Me.used \/ (u = Me.used + 1 /\ Me.used < Limit)
  <2>1. CASE Me.used < Limit
    BY <1>2, <2>1
  <2>2. CASE ~ (Me.used < Limit)
    BY <1>2, <2>2
  <2>. QED  BY <2>1, <2>2
<1>4. child' = [child EXCEPT ![run.n][run.a] = [Me EXCEPT !.st = "open", !.used = u]]
  BY <1>2, <1>3 DEF RunChild, Me, Child
<1>. QED  BY <1>1, <1>3, <1>4 DEF Works

LEMMA EndMoves ==
  ASSUME Known, ChildEnds
  PROVE  Settles
<1>1. /\ run.pc = "child" /\ sr' = sr /\ now' = now /\ ctx' = ctx
      /\ Settle(child'[run.n][run.a])
  BY DEF ChildEnds, RunnerOnly, Unseen, Others, At
<1>2. /\ run.n \in 1 .. MaxIter /\ run.a \in Attempts /\ Me.used \in Nat /\ Me \in Child
      /\ child \in [1 .. MaxIter -> [Attempts -> Child]] /\ Me.intent \in Intents
  BY <1>1, MeFact DEF Known, Core, Working
<1>3. \E c \in Child : /\ c.st \in {"done", "failed"} /\ c.used = Me.used
                       /\ child' = [child EXCEPT ![run.n][run.a] = c]
  <2>1. ASSUME NEW i \in Intents,
               child' = [child EXCEPT ![run.n][run.a].st = "done",
                                      ![run.n][run.a].intent = i]
        PROVE  \E c \in Child : /\ c.st \in {"done", "failed"} /\ c.used = Me.used
                                /\ child' = [child EXCEPT ![run.n][run.a] = c]
    <3>. DEFINE c == [Me EXCEPT !.st = "done", !.intent = i]
    <3>1. c \in Child /\ c.st = "done" /\ c.used = Me.used
      BY <1>2 DEF Child
    <3>2. child' = [child EXCEPT ![run.n][run.a] = c]
      BY <1>2, <2>1 DEF Me, Child
    <3>. HIDE DEF c
    <3>. QED  BY <3>1, <3>2
  <2>2. ASSUME child' = [child EXCEPT ![run.n][run.a].st = "failed"]
        PROVE  \E c \in Child : /\ c.st \in {"done", "failed"} /\ c.used = Me.used
                                /\ child' = [child EXCEPT ![run.n][run.a] = c]
    <3>. DEFINE c == [Me EXCEPT !.st = "failed"]
    <3>1. c \in Child /\ c.st = "failed" /\ c.used = Me.used
      BY <1>2 DEF Child
    <3>2. child' = [child EXCEPT ![run.n][run.a] = c]
      BY <1>2, <2>2 DEF Me, Child
    <3>. HIDE DEF c
    <3>. QED  BY <3>1, <3>2
  <2>. QED  BY <2>1, <2>2 DEF ChildEnds
<1>. QED  BY <1>1, <1>3 DEF Settles

LEMMA SettleMoves ==
  ASSUME Known, SettleChild \/ ChildCancelled
  PROVE  Settles
BY DEF Settles, SettleChild, ChildCancelled, RunnerOnly, Unseen, Others, At, Me

LEMMA RecordMoves ==
  ASSUME Known, JudgeIteration \/ FailIteration \/ CancelIteration
  PROVE  Records
<1>1. child' = child /\ now' = now
  BY DEF JudgeIteration, FailIteration, CancelIteration, Unseen, Others
<1>2. CASE JudgeIteration
  <2>1. PICK score \in {0, 1}, pass \in BOOLEAN :
          /\ sr' = FoldIteration(sr, Rec("completed", score))
          /\ Goto([run EXCEPT !.pass = pass], "decide")
    BY <1>2 DEF JudgeIteration
  <2>. QED  BY <1>1, <1>2, <2>1 DEF Records, JudgeIteration, At, Goto
<1>3. CASE FailIteration
  BY <1>1, <1>3 DEF Records, FailIteration, At, Goto
<1>4. CASE CancelIteration
  BY <1>1, <1>4 DEF Records, CancelIteration, At, Goto
<1>. QED  BY <1>2, <1>3, <1>4

LEMMA NextMoves ==
  ASSUME Known, NEW pace \in Nat, NextIteration(pace), run.pc \in {"decide", "failed"},
         run.pc = "decide" /\ spec.schedule = "self_paced" => pace = DeclaredPace(Me.intent),
         sr' = sr, child' = child, now' = now
  PROVE  GoesOn
BY DEF GoesOn, NextIteration, Goto

LEMMA DecisionMoves ==
  ASSUME Known, DecideNext \/ ConfirmFinish \/ ConfirmCancelled \/ AfterFailure
  PROVE  Leaves \/ GoesOn
<1>1. child' = child /\ now' = now /\ run.pc \in {"decide", "failed"}
  BY DEF DecideNext, ConfirmFinish, ConfirmCancelled, AfterFailure, Asking, RunnerOnly,
         Unseen, Others, At
<1>2. CASE \E reason \in Ends : FinishSeries(reason)
  BY <1>1, <1>2, FinishMoves
<1>3. CASE /\ sr' = sr
           /\ \E pace \in Nat :
                /\ NextIteration(pace)
                /\ run.pc = "decide" /\ spec.schedule = "self_paced"
                     => pace = DeclaredPace(Me.intent)
  BY <1>1, <1>3, NextMoves
<1>4. DeclaredPace(Me.intent) \in Nat /\ Me.intent \in Intents /\ run.pace \in Nat /\ Floor \in Nat
  BY <1>1, MeFact, PaceType, RunFacts, SeriesAssumption DEF Known, Recorded
<1>5. CASE DecideNext
  <2>1. CASE spec.schedule # "self_paced"
    BY <1>2, <1>3, <1>5, <2>1 DEF DecideNext, Ends, RunnerOnly
  <2>2. CASE spec.schedule = "self_paced" /\ Me.intent.kind = "next"
    BY <1>2, <1>3, <1>4, <1>5, <2>2 DEF DecideNext, DeclaredPace, RunnerOnly
  <2>3. CASE spec.schedule = "self_paced" /\ Me.intent.kind = "none"
    BY <1>2, <1>3, <1>4, <1>5, <2>3 DEF DecideNext, DeclaredPace, Ends, RunnerOnly
  <2>. QED  BY <1>5, <2>1, <2>2, <2>3 DEF DecideNext
<1>6. CASE ConfirmFinish \/ ConfirmCancelled
  <2>1. DeclaredPace(Me.intent) = Floor
    BY <1>6 DEF ConfirmFinish, ConfirmCancelled, Asking, DeclaredPace
  <2>. QED  BY <1>2, <1>3, <1>4, <1>6, <2>1 DEF ConfirmFinish, ConfirmCancelled, Ends
<1>7. CASE AfterFailure
  <2>1. run.pc = "failed"
    BY <1>7 DEF AfterFailure, At
  <2>. QED  BY <1>2, <1>3, <1>4, <1>7, <2>1 DEF AfterFailure, Ends
<1>. QED  BY <1>5, <1>6, <1>7

\* The daemon hosts the session, lets it go or dies; or does nothing to the runner.
LEMMA HostMoves ==
  ASSUME Known, NEW box, Host(box), sr' = sr, child' = child, now' = now
  PROVE  Leaves
<1>1. run' = [Off EXCEPT !.pc = "resume"]
  BY DEF Host
<1>2. run' \in Runner /\ run'.pc = "resume"
  BY <1>1, OffType, AwayType DEF Known, Labels
<1>3. sr.ended # "" => ~sr.paused
  BY DEF Known, Rest
<1>. QED  BY <1>2, <1>3 DEF Leaves, Away, Rest, Same, Known, Core

LEMMA OffMoves ==
  ASSUME Known, run' = Off, sr' = sr, child' = child, now' = now
  PROVE  Leaves
<1>1. sr.ended # "" => ~sr.paused
  BY DEF Known, Rest
<1>. QED  BY <1>1, OffType DEF Leaves, Away, Rest, Same, Known, Core

LEMMA DaemonMoves ==
  ASSUME Known,
         \/ HostStep
         \/ \E k \in Controls : CheckControl(k) \/ AcceptControl(k)
         \/ UserStop \/ Shutdown \/ Crash \/ Tick
  PROVE  Leaves \/ Rests
<1>1. sr' = sr /\ child' = child
  BY DEF HostStep, HubFinish, Deregister, BootSweepDrives, ReviveDrive, Exit, Boot, Die,
         CheckControl, AcceptControl, UserStop, Shutdown, Crash, Tick, durable
<1>2. CASE Tick
  BY <1>1, <1>2, TimeFacts, SeriesAssumption DEF Tick, Rests, Known, Core
<1>3. CASE ~Tick
  <2>0. now' = now
    BY <1>3
       DEF HostStep, HubFinish, Deregister, BootSweepDrives, ReviveDrive, Exit, Boot, Die,
           CheckControl, AcceptControl, UserStop, Shutdown, Crash, Others
  <2>1. now' = now /\ now \in 1 .. MaxTime /\ now <= now
    BY <2>0, TimeFacts DEF Known, Core
  <2>2. run' = run \/ run' = Off \/ \E box : Host(box)
    BY <1>3
       DEF HostStep, HubFinish, Deregister, BootSweepDrives, ReviveDrive, Exit, Boot, Die,
           CheckControl, AcceptControl, UserStop, Shutdown, Crash, hosting
  <2>. QED  BY <1>1, <2>1, <2>2, HostMoves, OffMoves DEF Rests
<1>. QED  BY <1>2, <1>3

LEMMA StepIsMove ==
  ASSUME Known, [Next]_vars
  PROVE  Move
<1>1. CASE RunnerStep
  BY <1>1, ResumeMoves, EndedMoves, AwaitMoves, StopMoves, DrainMoves, InFlightMoves,
     TickMoves, PacedMoves, TimelineMoves, FiredMoves, HaltMoves, SettleMoves, RunMoves,
     EndMoves, RecordMoves, DecisionMoves DEF RunnerStep, Move
<1>2. CASE ConfirmFinish
  BY <1>2, DecisionMoves DEF Move
<1>3. CASE \/ HostStep \/ \E k \in Controls : CheckControl(k) \/ AcceptControl(k)
           \/ UserStop \/ Shutdown \/ Crash \/ Tick
  BY <1>3, DaemonMoves DEF Move
<1>4. CASE UNCHANGED vars
  <2>1. sr' = sr /\ run' = run /\ child' = child /\ now' = now
    BY <1>4 DEF vars
  <2>. QED  BY <2>1, TimeFacts DEF Move, Rests, Known, Core
<1>. QED  BY <1>1, <1>2, <1>3, <1>4 DEF Next

-----------------------------------------------------------------------------
(* Types.                                                                  *)

LEMMA SpecStays ==
  ASSUME [Next]_vars
  PROVE  spec' = spec
<1>1. CASE RunnerStep
  BY <1>1 DEF RunnerStep, ResumeSeries, DrainEnded, AwaitSeriesResume, BoundaryCancelled,
     DrainSeriesControls, IterationLimit, ResumeInFlight, TickAtOnce, TickSelfPaced,
     TickOnTimeline, TimerFired, PauseCancelsWait, PauseWait, ControlInWait, WaitCancelled,
     SettleChild, RunChild, ChildEnds, ChildCancelled, JudgeIteration, DecideNext,
     ConfirmCancelled, FailIteration, AfterFailure, CancelIteration, AfterCancel,
     RunnerOnly, Unseen
<1>2. CASE ConfirmFinish
  BY <1>2 DEF ConfirmFinish, RunnerOnly, Unseen
<1>3. CASE \/ HostStep \/ \E k \in Controls : CheckControl(k) \/ AcceptControl(k)
           \/ UserStop \/ Shutdown \/ Crash \/ Tick
  BY <1>3 DEF HostStep, HubFinish, Deregister, BootSweepDrives, ReviveDrive, Exit, Boot, Die,
     CheckControl, AcceptControl, UserStop, Shutdown, Crash, Tick, durable
<1>4. CASE UNCHANGED vars
  BY <1>4 DEF vars
<1>. QED  BY <1>1, <1>2, <1>3, <1>4 DEF Next

LEMMA TypesStay ==
  ASSUME spec' = spec
  PROVE  /\ Attempts' = Attempts /\ Intents' = Intents /\ Child' = Child
         /\ Iteration' = Iteration /\ Fold' = Fold
BY DEF Attempts, Intents, Child, Iteration, Fold

\* An iteration that is not recorded yet comes after those that are.
LEMMA AppendFact ==
  ASSUME Core, NEW it \in Iteration, it.n = Count + 1, it.n <= MaxIter,
         ~it.skipped => it.a \in Attempts, sr' = FoldIteration(sr, it)
  PROVE  /\ sr' \in Fold /\ Count' = Count + 1
         /\ sr'.iterations = Append(sr.iterations, it)
         /\ sr'.iterations[Count + 1] = it
         /\ \A n \in 1 .. Count : sr'.iterations[n] = sr.iterations[n]
         /\ sr'.lastTick = IF it.tick > sr.lastTick THEN it.tick ELSE sr.lastTick
         /\ sr'.at = now /\ sr'.epoch = sr.epoch /\ sr'.ended = sr.ended
         /\ sr'.paused = sr.paused /\ sr'.handled = sr.handled
<1>. DEFINE a == [sr EXCEPT !.iterations = Append(sr.iterations, it)]
            t == IF it.tick > sr.lastTick THEN it.tick ELSE sr.lastTick
            b == [a EXCEPT !.lastTick = t]
            c == [b EXCEPT !.at = now]
<1>1. /\ sr \in Fold /\ sr.iterations \in Seq(Iteration) /\ Count \in Nat
      /\ it.n \notin DOMAIN sr.iterations /\ now \in Nat /\ it.tick \in Nat
      /\ sr.lastTick \in Nat
  BY FoldFacts, TimeFacts DEF Core, Iteration
<1>2. t \in Nat
  BY <1>1
<1>3. a \in Fold /\ a.lastTick = sr.lastTick /\ a.iterations = Append(sr.iterations, it)
      /\ a.epoch = sr.epoch /\ a.ended = sr.ended
      /\ a.paused = sr.paused /\ a.handled = sr.handled
  <2>1. Append(sr.iterations, it) \in Seq(Iteration)
    BY <1>1
  <2>. QED  BY <1>1, <2>1 DEF Fold
<1>4. sr' = [a EXCEPT !.lastTick = t, !.at = now]
  <2>1. FoldIteration(sr, it) = [sr EXCEPT !.iterations = Append(sr.iterations, it),
                                           !.lastTick = t, !.at = now]
    BY <1>1 DEF FoldIteration
  <2>. QED  BY <1>1, <2>1 DEF Fold
<1>. HIDE DEF a, t
<1>5. b \in Fold /\ b.iterations = a.iterations /\ b.lastTick = t /\ b.epoch = a.epoch
      /\ b.ended = a.ended /\ b.paused = a.paused /\ b.handled = a.handled
  BY <1>2, <1>3 DEF Fold
<1>6. sr' = c
  BY <1>4
<1>. HIDE DEF b
<1>7. c \in Fold /\ c.iterations = b.iterations /\ c.lastTick = b.lastTick
      /\ c.epoch = b.epoch /\ c.at = now
      /\ c.ended = b.ended /\ c.paused = b.paused /\ c.handled = b.handled
  BY <1>1, <1>5 DEF Fold
<1>. HIDE DEF c
<1>8. /\ Len(Append(sr.iterations, it)) = Count + 1
      /\ Append(sr.iterations, it)[Count + 1] = it
      /\ \A n \in 1 .. Count : Append(sr.iterations, it)[n] = sr.iterations[n]
  BY <1>1 DEF Count
<1>. QED  BY <1>3, <1>5, <1>6, <1>7, <1>8 DEF Count, t

LEMMA StayTyped ==
  ASSUME Core, spec' = spec, run' \in Runner, sr' \in Fold, sr'.iterations = sr.iterations,
         child' \in [1 .. MaxIter -> [Attempts -> Child]], now' \in 1 .. MaxTime
  PROVE  Core' /\ Count' = Count
BY TypesStay DEF Core, Count, Runner

LEMMA AddTyped ==
  ASSUME Core, spec' = spec, run' \in Runner, child' = child, now' = now,
         NEW it \in Iteration, it.n = Count + 1, it.n <= MaxIter,
         ~it.skipped => it.a \in Attempts, sr' = FoldIteration(sr, it)
  PROVE  Core'
<1>1. /\ sr' \in Fold /\ Count' = Count + 1 /\ sr'.iterations[Count + 1] = it
      /\ \A n \in 1 .. Count : sr'.iterations[n] = sr.iterations[n]
  BY AppendFact
<1>2. Count \in Nat
  BY FoldFacts
<1>3. \A n \in 1 .. Count' :
        /\ sr'.iterations[n].n = n
        /\ ~sr'.iterations[n].skipped => sr'.iterations[n].a \in Attempts
  BY <1>1, <1>2 DEF Core
<1>. QED  BY <1>1, <1>2, <1>3, TypesStay DEF Core, Runner

\* What the end of an attempt does to the runner.
Keeps == /\ run'.n = run.n /\ run'.lastTick = run.lastTick /\ run'.pace = run.pace
         /\ run'.inFlight = run.inFlight /\ run'.tick = run.tick /\ run'.due = run.due
         /\ run'.allowance = run.allowance

LEMMA SettleFact ==
  ASSUME Core, run.a \in Attempts, NEW c, c.used \in Nat, Settle(c)
  PROVE  /\ run' \in Runner /\ Keeps /\ run'.spent = run.spent + c.used
         /\ \/ c.st = "done" /\ run'.pc = "judge" /\ run'.a = run.a
            \/ c.st # "done" /\ ctx # "" /\ run'.pc = "cancel" /\ run'.a = run.a
            \/ /\ c.st # "done" /\ ctx = "" /\ run.a < spec.attempts
               /\ run'.pc = "open" /\ run'.a = run.a + 1
            \/ /\ c.st # "done" /\ ctx = "" /\ run.a = spec.attempts
               /\ run'.pc = "fail" /\ run'.a = run.a
<1>. DEFINE r == [run EXCEPT !.spent = @ + c.used]
<1>0. run.spent \in Nat /\ run.a \in Nat
  BY RunFacts
<1>1. run \in Runner /\ run.spent + c.used \in Nat /\ run.a \in Nat /\ run.a + 1 \in Nat
  BY <1>0 DEF Core
<1>2. /\ r \in Runner /\ r.spent = run.spent + c.used /\ r.a = run.a
      /\ r.n = run.n /\ r.lastTick = run.lastTick /\ r.pace = run.pace
      /\ r.inFlight = run.inFlight /\ r.tick = run.tick /\ r.due = run.due
      /\ r.allowance = run.allowance
  BY <1>1 DEF Runner
<1>3. \/ c.st = "done" /\ run' = [r EXCEPT !.pc = "judge"]
      \/ c.st # "done" /\ ctx # "" /\ run' = [r EXCEPT !.pc = "cancel"]
      \/ /\ c.st # "done" /\ ctx = "" /\ run.a < spec.attempts
         /\ run' = [[r EXCEPT !.a = @ + 1] EXCEPT !.pc = "open"]
      \/ /\ c.st # "done" /\ ctx = "" /\ ~(run.a < spec.attempts)
         /\ run' = [r EXCEPT !.pc = "fail"]
  <2>1. CASE c.st = "done"
    BY <2>1, Zenon DEF Settle, Goto
  <2>2. CASE c.st # "done" /\ ctx # ""
    BY <2>2, Zenon DEF Settle, Goto
  <2>3. CASE c.st # "done" /\ ctx = "" /\ run.a < spec.attempts
    BY <2>3, Zenon DEF Settle, Goto
  <2>4. CASE c.st # "done" /\ ctx = "" /\ ~(run.a < spec.attempts)
    BY <2>4, Zenon DEF Settle, Goto
  <2>. QED  BY <2>1, <2>2, <2>3, <2>4
<1>4. run.a = spec.attempts \/ run.a < spec.attempts
  BY SpecFacts DEF Attempts
<1>. HIDE DEF r
<1>5. CASE c.st = "done" /\ run' = [r EXCEPT !.pc = "judge"]
  BY <1>2, <1>5 DEF Runner, Keeps, Labels
<1>6. CASE c.st # "done" /\ ctx # "" /\ run' = [r EXCEPT !.pc = "cancel"]
  BY <1>2, <1>6 DEF Runner, Keeps, Labels
<1>7. CASE /\ c.st # "done" /\ ctx = "" /\ run.a < spec.attempts
           /\ run' = [[r EXCEPT !.a = @ + 1] EXCEPT !.pc = "open"]
  <2>. DEFINE q == [r EXCEPT !.a = @ + 1]
  <2>1. /\ q \in Runner /\ q.spent = r.spent /\ q.a = run.a + 1
        /\ q.n = r.n /\ q.lastTick = r.lastTick /\ q.pace = r.pace
        /\ q.inFlight = r.inFlight /\ q.tick = r.tick /\ q.due = r.due
        /\ q.allowance = r.allowance
    BY <1>1, <1>2 DEF Runner
  <2>2. run' = [q EXCEPT !.pc = "open"]
    BY <1>7
  <2>. HIDE DEF q
  <2>. QED  BY <1>2, <1>7, <2>1, <2>2 DEF Runner, Keeps, Labels
<1>8. CASE /\ c.st # "done" /\ ctx = "" /\ ~(run.a < spec.attempts)
           /\ run' = [r EXCEPT !.pc = "fail"]
  BY <1>2, <1>4, <1>8 DEF Runner, Keeps, Labels
<1>. QED  BY <1>3, <1>5, <1>6, <1>7, <1>8

\* A record of an iteration is one.
LEMMA RecType ==
  ASSUME Core, NEW reason \in {"completed", "error", "canceled"}, NEW score \in {0, 1},
         run.n \in 1 .. MaxIter, run.a \in Attempts
  PROVE  Rec(reason, score) \in Iteration
<1>1. run.spent \in Nat /\ run.tick \in Nat /\ sr.epoch \in Nat
  BY RunFacts, FoldFacts
<1>. QED  BY <1>1 DEF Rec, Iteration

LEMMA SkippedType ==
  ASSUME Core, NEW tick \in Nat, run.n \in 1 .. MaxIter
  PROVE  SkippedRec(tick) \in Iteration
<1>1. sr.epoch \in Nat
  BY FoldFacts
<1>. QED  BY <1>1 DEF SkippedRec, Iteration

\* What the moves that start or end a wait or an iteration do to the runner.
LEMMA WaitsFact ==
  ASSUME Core, Waits
  PROVE  /\ run' \in Runner /\ run'.pc = "wait" /\ run'.n = run.n /\ run'.a = run.a
         /\ run'.inFlight = run.inFlight /\ run'.spent = run.spent
<1>1. PICK due \in Nat, last \in Nat :
        run' = [run EXCEPT !.due = due, !.lastTick = last, !.pc = "wait"]
  BY DEF Waits
<1>. QED  BY <1>1 DEF Core, Runner, Labels

LEMMA SkipsFact ==
  ASSUME Core, Place, Skips
  PROVE  /\ run' \in Runner /\ run'.pc = "boundary" /\ run'.n = run.n + 1
         /\ run'.a = run.a /\ run'.inFlight = run.inFlight /\ run'.spent = run.spent
         /\ run'.lastTick = NextSlot(From)
         /\ From \in Nat /\ NextSlot(From) \in Nat /\ NextSlot(From) > From
         /\ SkippedRec(NextSlot(From)) \in Iteration
         /\ sr' = FoldIteration(sr, SkippedRec(NextSlot(From)))
         /\ run.n = Count + 1
<1>1. From \in Nat
  BY RunFacts, TimeFacts DEF From
<1>2. NextSlot(From) \in Nat /\ NextSlot(From) > From
  BY <1>1, SlotIsLater DEF Skips, Timeline
<1>3. run.n + 1 \in Nat
  BY RunFacts
<1>4. run' = [run EXCEPT !.n = @ + 1, !.lastTick = NextSlot(From)] /\ run.pc = "boundary"
  BY DEF Skips
<1>5. /\ run' \in Runner /\ run'.pc = "boundary" /\ run'.n = run.n + 1
      /\ run'.a = run.a /\ run'.inFlight = run.inFlight /\ run'.spent = run.spent
      /\ run'.lastTick = NextSlot(From)
  BY <1>2, <1>3, <1>4 DEF Core, Runner, Labels
<1>6. SkippedRec(NextSlot(From)) \in Iteration
  BY <1>2, SkippedType DEF Skips
<1>. QED  BY <1>1, <1>2, <1>4, <1>5, <1>6 DEF Skips, Place, Between

LEMMA StartsFact ==
  ASSUME Core, Starts
  PROVE  /\ run' \in Runner /\ run'.pc = "open" /\ run'.n = run.n /\ run'.a = 1
         /\ run'.inFlight = run.inFlight /\ run'.spent = run.spent
<1>1. PICK tick \in Nat, last \in Nat, left \in Nat :
        run' = [run EXCEPT !.tick = tick, !.lastTick = last, !.due = 0, !.a = 1,
                           !.allowance = left, !.pc = "open"]
  BY DEF Starts
<1>. DEFINE p == [run EXCEPT !.tick = tick, !.lastTick = last, !.due = 0]
<1>2. p \in Runner /\ p.n = run.n /\ p.inFlight = run.inFlight /\ p.spent = run.spent
  BY DEF Core, Runner
<1>3. run' = [p EXCEPT !.a = 1, !.allowance = left, !.pc = "open"]
  BY <1>1
<1>. HIDE DEF p
<1>. QED  BY <1>2, <1>3 DEF Runner, Labels

LEMMA HaltsFact ==
  ASSUME Core, Halts
  PROVE  /\ run' \in Runner /\ run'.pc = "pausing" /\ run'.n = run.n /\ run'.a = run.a
         /\ run'.inFlight = run.inFlight /\ run'.spent = run.spent
BY DEF Halts, Core, Runner, Labels

LEMMA WorksFact ==
  ASSUME Core, Place, Works
  PROVE  /\ run' \in Runner /\ run'.pc = "child" /\ run'.a = run.a /\ Keeps
         /\ run'.spent = run.spent
         /\ child' \in [1 .. MaxIter -> [Attempts -> Child]]
<1>1. run.n \in 1 .. MaxIter /\ run.a \in Attempts
  BY DEF Works, Place, Working
<1>2. Me \in Child
  BY <1>1, ChildFacts DEF Me
<1>3. PICK u \in Nat : child' = [child EXCEPT ![run.n][run.a] =
                                    [Me EXCEPT !.st = "open", !.used = u]]
  BY DEF Works
<1>4. [Me EXCEPT !.st = "open", !.used = u] \in Child
  BY <1>2 DEF Child
<1>5. child' \in [1 .. MaxIter -> [Attempts -> Child]]
  BY <1>1, <1>3, <1>4 DEF Core
<1>. QED  BY <1>5 DEF Works, Core, Runner, Labels, Keeps

LEMMA SettlesFact ==
  ASSUME Core, Place, Settles
  PROVE  /\ run.n \in 1 .. MaxIter /\ run.a \in Attempts
         /\ child' \in [1 .. MaxIter -> [Attempts -> Child]]
         /\ child'[run.n][run.a] \in Child
         /\ child'[run.n][run.a].used = Me.used /\ Me.used \in Nat
         /\ run' \in Runner /\ Keeps
<1>1. run.n \in 1 .. MaxIter /\ run.a \in Attempts
  BY DEF Settles, Place, Working
<1>2. Me \in Child /\ Me.used \in Nat /\ child \in [1 .. MaxIter -> [Attempts -> Child]]
  BY <1>1, ChildFacts DEF Me, Core
<1>3. child' \in [1 .. MaxIter -> [Attempts -> Child]]
      /\ child'[run.n][run.a] \in Child /\ child'[run.n][run.a].used = Me.used
  <2>1. CASE child' = child
    BY <1>1, <1>2, <2>1 DEF Me
  <2>2. CASE \E c \in Child : /\ c.used = Me.used
                              /\ child' = [child EXCEPT ![run.n][run.a] = c]
    BY <1>1, <1>2, <2>2
  <2>. QED  BY <2>1, <2>2 DEF Settles
<1>4. Settle(child'[run.n][run.a])
  BY DEF Settles
<1>. DEFINE c == child'[run.n][run.a]
<1>5. c.used \in Nat /\ Settle(c)
  BY <1>2, <1>3, <1>4
<1>. HIDE DEF c
<1>6. run' \in Runner /\ Keeps
  BY <1>1, <1>5, SettleFact
<1>. QED  BY <1>1, <1>2, <1>3, <1>6

LEMMA RecordsFact ==
  ASSUME Core, Place, Records
  PROVE  /\ run.n = Count + 1 /\ run.n \in 1 .. MaxIter /\ run.a \in Attempts
         /\ run.pc \in {"judge", "fail", "cancel"}
         /\ run' \in Runner /\ Keeps /\ run'.a = run.a
         /\ run'.pc \in Recorded
         /\ \E reason \in {"completed", "error", "canceled"}, score \in {0, 1} :
              /\ Rec(reason, score) \in Iteration
              /\ sr' = FoldIteration(sr, Rec(reason, score))
              /\ run.pc = "judge" => run'.pc = "decide" /\ reason = "completed"
              /\ run.pc = "fail" => run'.pc = "failed" /\ reason = "error"
              /\ run.pc = "cancel" => run'.pc = "canceled" /\ reason = "canceled"
<1>1. PICK reason \in {"completed", "error", "canceled"}, score \in {0, 1}, pass \in BOOLEAN :
        /\ sr' = FoldIteration(sr, Rec(reason, score))
        /\ \/ /\ run.pc = "judge" /\ reason = "completed"
              /\ run' = [run EXCEPT !.pass = pass, !.pc = "decide"]
           \/ run.pc = "fail" /\ reason = "error" /\ run' = [run EXCEPT !.pc = "failed"]
           \/ run.pc = "cancel" /\ reason = "canceled" /\ run' = [run EXCEPT !.pc = "canceled"]
  BY DEF Records
<1>2. run.n = Count + 1 /\ run.n \in 1 .. MaxIter /\ run.a \in Attempts
  BY <1>1 DEF Place, Working
<1>3. Rec(reason, score) \in Iteration
  BY <1>2, RecType
<1>4. run' \in Runner /\ Keeps /\ run'.a = run.a
  <2>1. CASE run' = [run EXCEPT !.pass = pass, !.pc = "decide"]
    BY <2>1 DEF Core, Runner, Labels, Keeps
  <2>2. CASE run' = [run EXCEPT !.pc = "failed"]
    BY <2>2 DEF Core, Runner, Labels, Keeps
  <2>3. CASE run' = [run EXCEPT !.pc = "canceled"]
    BY <2>3 DEF Core, Runner, Labels, Keeps
  <2>. QED  BY <1>1, <2>1, <2>2, <2>3
<1>5. /\ run.pc \in {"judge", "fail", "cancel"} /\ run'.pc \in Recorded
      /\ run.pc = "judge" => run'.pc = "decide" /\ reason = "completed"
      /\ run.pc = "fail" => run'.pc = "failed" /\ reason = "error"
      /\ run.pc = "cancel" => run'.pc = "canceled" /\ reason = "canceled"
  BY <1>1 DEF Core, Runner, Recorded
<1>. QED  BY <1>1, <1>2, <1>3, <1>4, <1>5

LEMMA GoesOnFact ==
  ASSUME Core, GoesOn
  PROVE  /\ run' \in Runner /\ run'.pc = "boundary" /\ run'.n = run.n + 1
         /\ run'.inFlight = run.inFlight /\ run'.spent = 0 /\ run'.lastTick = run.lastTick
         /\ run.pc = "decide" /\ spec.schedule = "self_paced"
              => run'.pace = DeclaredPace(Me.intent)
<1>1. PICK pace \in Nat :
        /\ run' = [run EXCEPT !.n = @ + 1, !.a = 0, !.tick = 0, !.spent = 0,
                              !.allowance = 0, !.pass = FALSE, !.pace = pace,
                              !.pc = "boundary"]
        /\ run.pc = "decide" /\ spec.schedule = "self_paced" => pace = DeclaredPace(Me.intent)
  BY DEF GoesOn
<1>. DEFINE p == [run EXCEPT !.n = @ + 1, !.a = 0, !.tick = 0]
            q == [p EXCEPT !.spent = 0, !.allowance = 0, !.pass = FALSE]
<1>2. run.n + 1 \in Nat /\ run \in Runner
  BY RunFacts DEF Core
<1>3. p \in Runner /\ p.n = run.n + 1 /\ p.inFlight = run.inFlight /\ p.lastTick = run.lastTick
  BY <1>2 DEF Runner
<1>4. run' = [q EXCEPT !.pace = pace, !.pc = "boundary"]
  BY <1>1
<1>. HIDE DEF p
<1>5. q \in Runner /\ q.n = p.n /\ q.inFlight = p.inFlight /\ q.spent = 0
      /\ q.lastTick = p.lastTick
  BY <1>3 DEF Runner
<1>. HIDE DEF q
<1>. QED  BY <1>1, <1>3, <1>4, <1>5 DEF Runner, Labels

-----------------------------------------------------------------------------
(* The runner's place, its rest, and what hosts it.                        *)

\* Where the fold puts a runner that enters the loop.
LEMMA EntersFact ==
  ASSUME Core, Enters
  PROVE  /\ run' \in Runner /\ run'.pc = "boundary" /\ run'.n = Count + 1
         /\ run'.lastTick = sr'.lastTick /\ run'.spent = 0
         /\ run'.inFlight = IF HasChildJournal(Count + 1) THEN Count + 1 ELSE 0
         /\ sr' = sr => run'.pace = ResumedPace(LastCompleted, FALSE)
         /\ sr'.iterations = sr.iterations /\ sr'.at = sr.at
<1>1. CASE sr' = sr /\ run' = [Position(sr, FALSE) EXCEPT !.pc = "boundary"]
  <2>1. run' \in Runner
    BY <1>1, PositionType DEF Core
  <2>. QED  BY <1>1, <2>1 DEF Position, Off, Count
<1>2. CASE /\ sr'.iterations = sr.iterations /\ sr'.at = sr.at
           /\ sr'.lastTick = now /\ sr'.epoch = sr.epoch + 1
           /\ run' = [Position(sr', TRUE) EXCEPT !.pc = "boundary"]
  <2>1. run' \in Runner
    BY <1>2, PositionType DEF Enters
  <2>2. sr' # sr
    BY <1>2, FoldFacts
  <2>. QED  BY <1>2, <2>1, <2>2 DEF Position, Off, Count
<1>. QED  BY <1>1, <1>2 DEF Enters

LEMMA CoreStays ==
  ASSUME Core, Place, spec' = spec, Move
  PROVE  Core'
<1>0. child \in [1 .. MaxIter -> [Attempts -> Child]] /\ now \in 1 .. MaxTime /\ sr \in Fold
      /\ run \in Runner
  BY DEF Core
<1>1. CASE Leaves
  BY <1>0, <1>1, StayTyped DEF Leaves, Same
<1>2. CASE Enters
  BY <1>0, <1>2, EntersFact, StayTyped DEF Enters
<1>3. CASE Drains
  BY <1>0, <1>3, StayTyped DEF Drains, Same
<1>4. CASE Waits
  BY <1>0, <1>4, WaitsFact, StayTyped DEF Waits
<1>5. CASE Skips
  <2>. DEFINE it == SkippedRec(NextSlot(From))
  <2>1. it \in Iteration /\ it.n = Count + 1 /\ it.n <= MaxIter /\ it.skipped
        /\ sr' = FoldIteration(sr, it) /\ run' \in Runner /\ child' = child /\ now' = now
    BY <1>5, SkipsFact DEF SkippedRec, Skips
  <2>. HIDE DEF it
  <2>. QED  BY <2>1, AddTyped
<1>6. CASE Starts
  BY <1>0, <1>6, StartsFact, StayTyped DEF Starts
<1>7. CASE Halts
  BY <1>0, <1>7, HaltsFact, StayTyped DEF Halts
<1>8. CASE Works
  BY <1>0, <1>8, WorksFact, StayTyped DEF Works
<1>9. CASE Settles
  BY <1>0, <1>9, SettlesFact, StayTyped DEF Settles
<1>10. CASE Records
  <2>1. PICK it \in Iteration : /\ it.n = Count + 1 /\ it.n <= MaxIter /\ it.a \in Attempts
                                /\ sr' = FoldIteration(sr, it)
    BY <1>10, RecordsFact DEF Rec
  <2>2. run' \in Runner /\ child' = child /\ now' = now
    BY <1>10, RecordsFact DEF Records
  <2>. QED  BY <2>1, <2>2, AddTyped
<1>11. CASE GoesOn
  BY <1>0, <1>11, GoesOnFact, StayTyped DEF GoesOn
<1>12. CASE Rests
  BY <1>0, <1>12, StayTyped DEF Rests
<1>. QED  BY <1>1, <1>2, <1>3, <1>4, <1>5, <1>6, <1>7, <1>8, <1>9, <1>10, <1>11, <1>12 DEF Move

LEMMA PlaceStays ==
  ASSUME Core, Place, spec' = spec, Move
  PROVE  Place'
<1>0. /\ Attempts' = Attempts /\ Count \in Nat /\ run.n \in Nat /\ run.inFlight \in Nat
      /\ MaxIter \in Nat
  BY TypesStay, FoldFacts, RunFacts, SeriesAssumption
<1>. USE <1>0
<1>1. CASE Leaves
  BY <1>1 DEF Leaves, Place, Away, Between, Working, Recorded
<1>2. CASE Enters
  <2>1. /\ run'.pc = "boundary" /\ run'.n = Count + 1 /\ Count' = Count
        /\ run'.inFlight \in {0, Count + 1}
    BY <1>2, EntersFact DEF Count
  <2>2. run'.inFlight <= run'.n
    BY <2>1
  <2>. QED  BY <2>1, <2>2 DEF Place, Between, Working, Recorded
<1>3. CASE Drains
  BY <1>3 DEF Drains, Place, Away, Between, Working, Recorded, Same, Count
<1>4. CASE Waits
  BY <1>4, WaitsFact DEF Waits, Place, Away, Between, Working, Recorded, Count
<1>5. CASE Skips
  <2>. DEFINE it == SkippedRec(NextSlot(From))
  <2>1. it \in Iteration /\ it.n = Count + 1 /\ it.n <= MaxIter /\ it.skipped
        /\ sr' = FoldIteration(sr, it)
    BY <1>5, SkipsFact DEF SkippedRec, Skips
  <2>. HIDE DEF it
  <2>2. Count' = Count + 1
    BY <2>1, AppendFact
  <2>3. run.inFlight <= run.n /\ run.n = Count + 1
    BY <1>5, SkipsFact DEF Skips, Place, Away
  <2>4. run'.pc = "boundary" /\ run'.n = run.n + 1 /\ run'.inFlight = run.inFlight
    BY <1>5, SkipsFact
  <2>5. run'.n = Count' + 1 /\ run'.inFlight <= run'.n
    BY <2>2, <2>3, <2>4
  <2>. QED  BY <2>4, <2>5 DEF Place, Between, Working, Recorded
<1>6. CASE Starts
  <2>1. 1 \in Attempts
    BY SpecFacts
  <2>. QED  BY <1>6, <2>1, StartsFact DEF Starts, Place, Away, Between, Working, Recorded, Count
<1>7. CASE Halts
  BY <1>7, HaltsFact DEF Halts, Place, Away, Between, Working, Recorded, Count
<1>8. CASE Works
  <2>1. /\ run'.pc \in Working /\ run.pc \in Working /\ run'.a = run.a /\ Keeps /\ Count' = Count
    BY <1>8, WorksFact DEF Works, Working, Count
  <2>2. run'.n = run.n /\ run'.inFlight = run.inFlight
    BY <2>1 DEF Keeps
  <2>3. run.n = Count + 1 /\ run.n \in 1 .. MaxIter /\ run.a \in Attempts /\ run.inFlight <= run.n
    BY <2>1 DEF Place, Away, Working
  <2>. QED  BY <2>1, <2>2, <2>3 DEF Place, Working, Recorded
<1>9. CASE Settles
  <2>1. /\ run' \in Runner /\ Keeps /\ run.a \in Attempts /\ run.n \in 1 .. MaxIter
        /\ run.n = Count + 1 /\ run.inFlight <= run.n /\ Count' = Count
    BY <1>9, SettlesFact DEF Settles, Place, Away, Working, Count
  <2>2. run'.pc \in Working /\ run'.a \in Attempts
    <3>. DEFINE c == child'[run.n][run.a]
    <3>1. c.used \in Nat /\ Settle(c)
      BY <1>9, SettlesFact DEF Settles
    <3>. HIDE DEF c
    <3>2. run.a < spec.attempts => run.a + 1 \in Attempts
      <4>1. run.a \in 1 .. spec.attempts /\ spec.attempts \in Nat
        BY <2>1, SpecFacts DEF Attempts
      <4>. QED  BY <4>1 DEF Attempts
    <3>3. \/ run'.pc \in {"judge", "cancel", "fail"} /\ run'.a = run.a
          \/ run'.pc = "open" /\ run.a < spec.attempts /\ run'.a = run.a + 1
      BY <2>1, <3>1, SettleFact
    <3>. QED  BY <2>1, <3>2, <3>3 DEF Working
  <2>3. run'.n = run.n /\ run'.inFlight = run.inFlight
    BY <2>1 DEF Keeps
  <2>4. run'.n = Count' + 1 /\ run'.inFlight <= run'.n /\ run'.n \in 1 .. MaxIter
    BY <2>1, <2>3
  <2>. QED  BY <2>2, <2>4 DEF Place, Working, Recorded
<1>10. CASE Records
  <2>1. PICK it \in Iteration : /\ it.n = Count + 1 /\ it.n <= MaxIter /\ it.a \in Attempts
                                /\ sr' = FoldIteration(sr, it)
    BY <1>10, RecordsFact DEF Rec
  <2>2. Count' = Count + 1
    BY <2>1, AppendFact
  <2>3. /\ run.n = Count + 1 /\ run.n \in 1 .. MaxIter /\ run.a \in Attempts
        /\ run'.pc \in Recorded /\ run'.a = run.a /\ Keeps
        /\ run.pc \in {"judge", "fail", "cancel"}
    BY <1>10, RecordsFact
  <2>4. run.inFlight <= run.n
    BY <2>3 DEF Place, Away
  <2>5. run'.n = run.n /\ run'.inFlight = run.inFlight
    BY <2>3 DEF Keeps
  <2>6. run'.n = Count' /\ run'.inFlight <= run'.n
    BY <2>2, <2>3, <2>4, <2>5
  <2>. QED  BY <2>3, <2>5, <2>6 DEF Place, Between, Working, Recorded
<1>11. CASE GoesOn
  <2>1. run.pc \in Recorded /\ run.n = Count /\ run.inFlight <= run.n /\ Count' = Count
    BY <1>11 DEF GoesOn, Place, Away, Recorded, Count
  <2>2. run'.pc = "boundary" /\ run'.n = run.n + 1 /\ run'.inFlight = run.inFlight
    BY <1>11, GoesOnFact
  <2>3. run'.n = Count' + 1 /\ run'.inFlight <= run'.n
    BY <2>1, <2>2
  <2>. QED  BY <2>2, <2>3 DEF Place, Between, Working, Recorded
<1>12. CASE Rests
  BY <1>12 DEF Rests, Place, Away, Between, Working, Recorded, Count
<1>. QED  BY <1>1, <1>2, <1>3, <1>4, <1>5, <1>6, <1>7, <1>8, <1>9, <1>10, <1>11, <1>12 DEF Move

LEMMA RestStays ==
  ASSUME Core, Place, Rest, Move
  PROVE  Rest'
<1>1. CASE Leaves \/ Enters \/ Drains
  BY <1>1 DEF Leaves, Enters, Drains
<1>2. CASE Rests
  BY <1>2 DEF Rests, Rest
<1>3. CASE Waits \/ Starts \/ Halts \/ Works \/ Settles \/ GoesOn
  <2>1. sr' = sr /\ run.pc \notin Away
    BY <1>3 DEF Waits, Starts, Halts, Works, Settles, GoesOn, Away
  <2>2. run'.pc \notin Away
    <3>1. CASE Settles
      <4>. DEFINE c == child'[run.n][run.a]
      <4>1. c.used \in Nat /\ Settle(c) /\ run.a \in Attempts
        BY <3>1, SettlesFact DEF Settles
      <4>. HIDE DEF c
      <4>. QED  BY <4>1, SettleFact DEF Away
    <3>. QED  BY <1>3, <3>1, WaitsFact, StartsFact, HaltsFact, WorksFact, GoesOnFact DEF Away
  <2>. QED  BY <2>1, <2>2 DEF Rest, Away
<1>4. CASE Skips \/ Records
  <2>1. run.pc \notin Away /\ run'.pc \notin Away
    BY <1>4, SkipsFact, RecordsFact DEF Away, Skips, Recorded
  <2>2. PICK it \in Iteration : /\ it.n = Count + 1 /\ it.n <= MaxIter
                                /\ ~it.skipped => it.a \in Attempts
                                /\ sr' = FoldIteration(sr, it)
    BY <1>4, SkipsFact, RecordsFact DEF Rec, SkippedRec, Skips
  <2>3. sr'.paused = sr.paused /\ sr'.ended = sr.ended
    BY <2>2, AppendFact
  <2>. QED  BY <2>1, <2>3 DEF Rest, Away
<1>. QED  BY <1>1, <1>2, <1>3, <1>4 DEF Move

\* What the runner's own steps leave of its hosting.
Driven == hub' = hub /\ ctx' = ctx /\ daemon' = daemon

LEMMA ReturnsHere ==
  ASSUME Known, BoundaryCancelled \/ IterationLimit \/ WaitCancelled \/ AfterCancel \/ PauseWait
  PROVE  run'.pc = "returned" /\ run.pc \in {"boundary", "wait", "canceled", "pausing"}
<1>1. Return
  BY DEF BoundaryCancelled, IterationLimit, WaitCancelled, AfterCancel, PauseWait,
         SeriesCancelTerminal, FinishSeries
<1>2. run'.pc = "returned"
  BY <1>1, ReturnFact DEF Known
<1>. QED  BY <1>2 DEF BoundaryCancelled, IterationLimit, WaitCancelled, AfterCancel, PauseWait, At

LEMMA StartsHere ==
  ASSUME Known, NEW tick, NEW last, StartAt(tick, last)
  PROVE  run'.pc \in {"returned", "open"}
<1>1. CASE FinishSeries("budget")
  BY <1>1, FinishFact DEF Known, Ends
<1>2. CASE run' = [run EXCEPT !.tick = tick, !.lastTick = last, !.due = 0, !.a = 1,
                      !.allowance = IF spec.cap > 0 THEN spec.cap - SpentTokens(sr) ELSE 0,
                      !.pc = "open"]
  BY <1>2 DEF Known, Core, Runner
<1>. QED  BY <1>1, <1>2 DEF StartAt, Goto

LEMMA TicksHere ==
  ASSUME Known, ResumeInFlight \/ TickAtOnce \/ TickSelfPaced \/ TickOnTimeline \/ TimerFired
  PROVE  run'.pc \in {"returned", "open", "wait", "boundary"} /\ run.pc \in {"boundary", "wait"}
<1>1. run.pc \in {"boundary", "wait"}
  BY DEF ResumeInFlight, TickAtOnce, TickSelfPaced, TickOnTimeline, TimerFired, AtCadence,
         PastBoundary, At
<1>2. CASE \E tick, last : StartAt(tick, last)
  BY <1>1, <1>2, StartsHere
<1>3. CASE \E due, last : Arm(due, last)
  BY <1>1, <1>3 DEF Arm, Goto, Known, Core, Runner
<1>4. CASE \E n, last : run' = [run EXCEPT !.n = n, !.lastTick = last, !.pc = "boundary"]
  BY <1>1, <1>4 DEF Known, Core, Runner
<1>5. CASE ResumeInFlight
  BY <1>2, <1>5 DEF ResumeInFlight
<1>6. CASE TickAtOnce
  BY <1>2, <1>6 DEF TickAtOnce
<1>7. CASE TickSelfPaced
  BY <1>3, <1>7 DEF TickSelfPaced
<1>8. CASE TickOnTimeline
  <2>1. CASE \E last : Goto([run EXCEPT !.n = @ + 1, !.lastTick = last], "boundary")
    BY <1>4, <2>1 DEF Goto
  <2>. QED  BY <1>2, <1>3, <1>8, <2>1 DEF TickOnTimeline
<1>9. CASE TimerFired
  BY <1>2, <1>9 DEF TimerFired
<1>. QED  BY <1>5, <1>6, <1>7, <1>8, <1>9

LEMMA EntersHere ==
  ASSUME Known, ResumeSeries \/ DrainEnded \/ AwaitSeriesResume
  PROVE  /\ run'.pc \in {"ended", "await_resume", "boundary", "returned"}
         /\ run.pc \in {"resume", "ended", "await_resume"}
<1>1. run.pc \in {"resume", "ended", "await_resume"}
  BY DEF ResumeSeries, DrainEnded, AwaitSeriesResume, At
<1>2. CASE Return
  BY <1>1, <1>2, ReturnFact DEF Known
<1>3. CASE \E l \in {"ended", "await_resume"} : Goto(run, l)
  BY <1>1, <1>3 DEF Goto, Known, Core, Runner
<1>4. CASE \E s, b : Goto(Position(s, b), "boundary")
  BY <1>1, <1>4 DEF Goto, Position, Off
<1>5. CASE ResumeSeries
  BY <1>3, <1>4, <1>5 DEF ResumeSeries
<1>6. CASE DrainEnded
  BY <1>1, <1>2, <1>6 DEF DrainEnded, At
<1>7. CASE AwaitSeriesResume
  BY <1>2, <1>4, <1>7 DEF AwaitSeriesResume
<1>. QED  BY <1>5, <1>6, <1>7

LEMMA IteratesHere ==
  ASSUME Known, \/ SettleChild \/ RunChild \/ ChildEnds \/ ChildCancelled
                \/ JudgeIteration \/ FailIteration \/ CancelIteration
  PROVE  /\ run.pc \in Working /\ run'.pc \in Working \cup Recorded
         /\ run'.pc = "cancel" => ctx # ""
         /\ run'.pc = "canceled" => run.pc = "cancel"
<1>1. CASE RunChild
  BY <1>1, RunMoves, WorksFact DEF Known, Working, Recorded, Works
<1>2. CASE SettleChild \/ ChildEnds \/ ChildCancelled
  <2>1. Settles
    BY <1>2, SettleMoves, EndMoves
  <2>. DEFINE c == child'[run.n][run.a]
  <2>2. c.used \in Nat /\ Settle(c) /\ run.a \in Attempts
    BY <2>1, SettlesFact DEF Settles, Known
  <2>. HIDE DEF c
  <2>. QED  BY <2>1, <2>2, SettleFact DEF Known, Working, Settles
<1>3. CASE JudgeIteration \/ FailIteration \/ CancelIteration
  <2>1. Records
    BY <1>3, RecordMoves
  <2>. QED  BY <2>1, RecordsFact DEF Known, Working, Recorded
<1>. QED  BY <1>1, <1>2, <1>3

LEMMA DecidesHere ==
  ASSUME Known, DecideNext \/ ConfirmFinish \/ ConfirmCancelled \/ AfterFailure
  PROVE  run.pc \in {"decide", "failed"} /\ run'.pc \in {"returned", "boundary"}
<1>1. run.pc \in {"decide", "failed"}
  BY DEF DecideNext, ConfirmFinish, ConfirmCancelled, AfterFailure, Asking, At
<1>2. CASE \E pace : NextIteration(pace)
  BY <1>1, <1>2 DEF NextIteration, Goto, Known, Core, Runner
<1>3. CASE \E reason \in Ends : FinishSeries(reason)
  BY <1>1, <1>3, FinishFact DEF Known
<1>. QED  BY <1>2, <1>3 DEF DecideNext, ConfirmFinish, ConfirmCancelled, AfterFailure, Ends

LEMMA StaysHere ==
  ASSUME Known, DrainSeriesControls \/ ControlInWait \/ PauseCancelsWait
  PROVE  /\ run.pc \in {"boundary", "wait"}
         /\ run'.pc \in {"returned", "boundary", "wait", "pausing"}
         /\ run'.pc = "pausing" => queue' = queue /\ queue # <<>>
<1>1. CASE DrainSeriesControls
  BY <1>1, ReturnFact DEF DrainSeriesControls, At, Known
<1>2. CASE ControlInWait
  BY <1>2 DEF ControlInWait, At
<1>3. CASE PauseCancelsWait
  BY <1>3, HaltMoves, HaltsFact DEF PauseCancelsWait, At, Known, RunnerOnly, Unseen
<1>. QED  BY <1>1, <1>2, <1>3

LEMMA DrivenStays ==
  ASSUME RunnerStep \/ ConfirmFinish
  PROVE  Driven
BY DEF Driven, RunnerStep, ConfirmFinish, ResumeSeries, DrainEnded, AwaitSeriesResume,
   BoundaryCancelled, DrainSeriesControls, IterationLimit, ResumeInFlight, TickAtOnce,
   TickSelfPaced, TickOnTimeline, TimerFired, PauseCancelsWait, PauseWait, ControlInWait,
   WaitCancelled, SettleChild, RunChild, ChildEnds, ChildCancelled, JudgeIteration,
   DecideNext, ConfirmCancelled, FailIteration, AfterFailure, CancelIteration, AfterCancel,
   RunnerOnly, Unseen, Daemon

LEMMA HostedStays ==
  ASSUME Known, [Next]_vars
  PROVE  Hosted'
<1>1. CASE RunnerStep \/ ConfirmFinish
  <2>1. Driven
    BY <1>1, DrivenStays
  <2>2. run.pc \notin {"off", "returned"}
    BY <1>1, ReturnsHere, TicksHere, EntersHere, IteratesHere, DecidesHere, StaysHere
       DEF RunnerStep, Working
  <2>3. run'.pc # "off"
    BY <1>1, ReturnsHere, TicksHere, EntersHere, IteratesHere, DecidesHere, StaysHere
       DEF RunnerStep, Working, Recorded
  <2>4. hub = "live"
    BY <2>2 DEF Known, Hosted, Sides
  <2>5. run'.pc \in {"cancel", "canceled"} => ctx # ""
    <3>1. run.pc = "cancel" => ctx # ""
      BY DEF Known, Hosted
    <3>. QED  BY <1>1, <3>1, ReturnsHere, TicksHere, EntersHere, IteratesHere, DecidesHere,
                 StaysHere DEF RunnerStep
  <2>6. run'.pc = "pausing" => queue' # <<>>
    BY <1>1, ReturnsHere, TicksHere, EntersHere, IteratesHere, DecidesHere, StaysHere
       DEF RunnerStep, Working, Recorded
  <2>. QED  BY <2>1, <2>3, <2>4, <2>5, <2>6 DEF Hosted, Driven
<1>2. CASE \E box : Host(box)
  <2>1. run'.pc = "resume" /\ hub' = "live"
    BY <1>2 DEF Host, Off
  <2>. QED  BY <2>1 DEF Hosted
<1>3. CASE run' = Off /\ hub' = "none"
  BY <1>3 DEF Hosted, Off
<1>4. CASE /\ run' = run /\ hub' = hub /\ (ctx' = ctx \/ ctx = "")
           /\ queue' = queue \/ \E id : queue' = Append(queue, id)
  <2>1. queue # <<>> => queue' # <<>>
    <3>1. queue \in Seq(DOMAIN mailbox)
      BY DEF Known, Sides
    <3>2. ASSUME NEW id, queue' = Append(queue, id) PROVE queue' # <<>>
      BY <3>1, <3>2
    <3>. QED  BY <1>4, <3>2
  <2>. QED  BY <1>4, <2>1 DEF Known, Hosted
<1>5. CASE HubFinish
  BY <1>5 DEF HubFinish, Hosted, At
<1>6. CASE Deregister \/ Exit \/ Crash
  BY <1>3, <1>6 DEF Deregister, Exit, Crash, Die
<1>7. CASE BootSweepDrives
  BY <1>2, <1>4, <1>7 DEF BootSweepDrives
<1>8. CASE ReviveDrive \/ Boot
  BY <1>2, <1>4, <1>8 DEF ReviveDrive, Boot
<1>9. CASE \E k \in Controls : CheckControl(k) \/ AcceptControl(k)
  BY <1>2, <1>4, <1>9 DEF CheckControl, AcceptControl
<1>10. CASE UserStop \/ Shutdown \/ Tick
  BY <1>4, <1>10 DEF UserStop, Shutdown, Tick, hosting
<1>11. CASE UNCHANGED vars
  BY <1>4, <1>11 DEF vars
<1>. QED  BY <1>1, <1>5, <1>6, <1>7, <1>8, <1>9, <1>10, <1>11 DEF Next, HostStep

-----------------------------------------------------------------------------
(* The mailbox, the timers and what else surrounds the runner.             *)

\* What a step of the runner does to the fold.
Folds ==
  \/ sr' = sr
  \/ queue # <<>> /\ sr' = Applied(Head(queue))
  \/ \E reason \in Ends : /\ FinishSeries(reason)
                          /\ reason = "cancelled" /\ LoopMode => ctx = "stop"
  \/ run.pc \notin Away
     /\ \E it \in Iteration : /\ it.n = Count + 1 /\ it.n <= MaxIter
                              /\ ~it.skipped => it.a \in Attempts
                              /\ sr' = FoldIteration(sr, it)

LEMMA CancelFolds ==
  ASSUME Known, BoundaryCancelled \/ WaitCancelled \/ AfterCancel
  PROVE  Folds
<1>1. ctx \in {"", "stop", "shutdown"} /\ ctx # ""
  BY DEF BoundaryCancelled, WaitCancelled, AfterCancel, Known, Hosted, Sides, At
<1>2. SeriesCancelTerminal
  BY DEF BoundaryCancelled, WaitCancelled, AfterCancel
<1>. QED  BY <1>1, <1>2 DEF SeriesCancelTerminal, Folds, Ends

LEMMA StartFolds ==
  ASSUME NEW tick, NEW last, StartAt(tick, last)
  PROVE  Folds
BY DEF StartAt, Folds, Ends

LEMMA StepFolds ==
  ASSUME Known, RunnerStep \/ ConfirmFinish
  PROVE  Folds
<1>1. CASE BoundaryCancelled \/ WaitCancelled \/ AfterCancel
  BY <1>1, CancelFolds
<1>2. CASE \/ ResumeSeries \/ TickSelfPaced \/ PauseCancelsWait \/ SettleChild
           \/ RunChild \/ ChildEnds \/ ChildCancelled \/ ConfirmCancelled
  BY <1>2 DEF Folds, ResumeSeries, TickSelfPaced, PauseCancelsWait, SettleChild,
     RunChild, ChildEnds, ChildCancelled, ConfirmCancelled
<1>3. CASE DrainEnded \/ AwaitSeriesResume \/ DrainSeriesControls \/ ControlInWait
  BY <1>3 DEF Folds, DrainEnded, AwaitSeriesResume, DrainSeriesControls, ControlInWait
<1>4. CASE PauseWait
  BY <1>4 DEF Folds, PauseWait, At, Known, Hosted
<1>5. CASE IterationLimit
  BY <1>5 DEF Folds, IterationLimit, SeriesLimitReason, Ends
<1>6. CASE ResumeInFlight \/ TickAtOnce \/ TimerFired
  BY <1>6, StartFolds DEF ResumeInFlight, TickAtOnce, TimerFired
<1>7. CASE TickOnTimeline
  <2>1. CASE Skips
    <3>. DEFINE it == SkippedRec(NextSlot(From))
    <3>1. /\ it \in Iteration /\ it.n = Count + 1 /\ it.n <= MaxIter /\ it.skipped
          /\ sr' = FoldIteration(sr, it) /\ run.pc \notin Away
      BY <2>1, SkipsFact DEF SkippedRec, Skips, Known, Away
    <3>. HIDE DEF it
    <3>. QED  BY <3>1 DEF Folds
  <2>2. CASE sr' = sr
    BY <2>2 DEF Folds
  <2>3. CASE \E tick, last : StartAt(tick, last)
    BY <2>3, StartFolds
  <2>4. \/ \E tick, last : StartAt(tick, last)
        \/ sr' = sr
        \/ /\ NextSlot(From) <= now
           /\ sr' = FoldIteration(sr, SkippedRec(NextSlot(From)))
           /\ Goto([run EXCEPT !.n = @ + 1, !.lastTick = NextSlot(From)], "boundary")
    BY <1>7 DEF TickOnTimeline, From
  <2>5. /\ run.pc = "boundary" /\ run.n \in 1 .. MaxIter /\ run.n # run.inFlight
        /\ child' = child /\ now' = now /\ Timeline
    BY <1>7, BoundaryFact, SpecFacts
       DEF TickOnTimeline, AtCadence, RunnerOnly, Unseen, Others, Known, Timeline
  <2>6. (/\ NextSlot(From) <= now
         /\ sr' = FoldIteration(sr, SkippedRec(NextSlot(From)))
         /\ Goto([run EXCEPT !.n = @ + 1, !.lastTick = NextSlot(From)], "boundary"))
        => Skips
    BY <2>5 DEF Skips, Goto
  <2>. QED  BY <2>1, <2>2, <2>3, <2>4, <2>6
<1>8. CASE JudgeIteration \/ FailIteration \/ CancelIteration
  <2>1. Records
    BY <1>8, RecordMoves
  <2>2. \E it \in Iteration : /\ it.n = Count + 1 /\ it.n <= MaxIter
                              /\ it.a \in Attempts /\ sr' = FoldIteration(sr, it)
    BY <2>1, RecordsFact DEF Rec, Known
  <2>3. run.pc \notin Away
    BY <2>1, RecordsFact DEF Known, Away
  <2>. QED  BY <2>2, <2>3 DEF Folds
<1>9. CASE DecideNext \/ ConfirmFinish \/ AfterFailure
  BY <1>9 DEF Folds, DecideNext, ConfirmFinish, AfterFailure, Ends, LoopMode, Loops
<1>. QED  BY <1>1, <1>2, <1>3, <1>4, <1>5, <1>6, <1>7, <1>8, <1>9 DEF RunnerStep

LEMMA HandledStays ==
  ASSUME Known, RunnerStep \/ ConfirmFinish
  PROVE  sr'.handled \subseteq DOMAIN mailbox
<1>0. sr.handled \subseteq DOMAIN mailbox
  BY DEF Known, Sides
<1>1. CASE queue # <<>> /\ sr' = Applied(Head(queue))
  <2>1. Head(queue) \in Nat /\ Head(queue) \in DOMAIN mailbox
    BY <1>1, HeadFact DEF Known
  <2>2. Applied(Head(queue)).handled = sr.handled \cup {Head(queue)}
    BY <2>1, AppliedFact DEF Known
  <2>. QED  BY <1>0, <1>1, <2>1, <2>2
<1>2. CASE \E reason \in Ends : FinishSeries(reason)
  BY <1>0, <1>2, FinishFact DEF Known
<1>3. CASE \E it \in Iteration : /\ it.n = Count + 1 /\ it.n <= MaxIter
                                 /\ ~it.skipped => it.a \in Attempts
                                 /\ sr' = FoldIteration(sr, it)
  BY <1>0, <1>3, AppendFact DEF Known
<1>. QED  BY <1>0, <1>1, <1>2, <1>3, StepFolds DEF Folds

LEMMA MailStays ==
  ASSUME RunnerStep \/ ConfirmFinish
  PROVE  /\ mailbox' = mailbox /\ checked' = checked /\ swept' = swept /\ revive' = revive
         /\ faults' = faults
         /\ \/ queue' = queue
            \/ (queue # <<>> \/ At("pausing")) /\ queue' = Tail(queue)
         /\ slot' \in {slot, run.tick, -1}
BY DEF RunnerStep, ConfirmFinish, ResumeSeries, DrainEnded, AwaitSeriesResume,
   BoundaryCancelled, DrainSeriesControls, IterationLimit, ResumeInFlight, TickAtOnce,
   TickSelfPaced, TickOnTimeline, TimerFired, PauseCancelsWait, PauseWait, ControlInWait,
   WaitCancelled, SettleChild, RunChild, ChildEnds, ChildCancelled, JudgeIteration,
   DecideNext, ConfirmCancelled, FailIteration, AfterFailure, CancelIteration, AfterCancel,
   RunnerOnly, Unseen, Daemon, Others

LEMMA TimersStay ==
  ASSUME Known, RunnerStep \/ ConfirmFinish
  PROVE  timers' \in SUBSET Nat
<1>0. timers \in SUBSET Nat
  BY DEF Known, Sides
<1>1. CASE timers' \subseteq timers
  BY <1>0, <1>1
<1>2. CASE \E due \in Nat : \E last : Arm(due, last)
  BY <1>0, <1>2 DEF Arm
<1>3. CASE TickSelfPaced
  <2>1. now + run.pace \in Nat
    BY RunFacts, TimeFacts DEF Known
  <2>. QED  BY <1>2, <1>3, <2>1 DEF TickSelfPaced
<1>4. CASE TickOnTimeline
  <2>1. From \in Nat /\ NextSlot(From) \in Nat
    <3>1. From \in Nat
      BY RunFacts, TimeFacts DEF Known, From
    <3>. QED  BY <1>4, <3>1, SlotType DEF Known, TickOnTimeline
  <2>. QED  BY <1>1, <1>2, <1>4, <2>1 DEF TickOnTimeline, From
<1>5. CASE (RunnerStep /\ ~TickSelfPaced /\ ~TickOnTimeline) \/ ConfirmFinish
  <2>1. timers' \subseteq timers
    BY <1>5 DEF RunnerStep, ConfirmFinish, ResumeSeries, DrainEnded, AwaitSeriesResume,
       BoundaryCancelled, DrainSeriesControls, IterationLimit, ResumeInFlight, TickAtOnce,
       TimerFired, PauseCancelsWait, PauseWait, ControlInWait,
       WaitCancelled, SettleChild, RunChild, ChildEnds, ChildCancelled, JudgeIteration,
       DecideNext, ConfirmCancelled, FailIteration, AfterFailure, CancelIteration, AfterCancel
  <2>. QED  BY <1>1, <2>1
<1>. QED  BY <1>3, <1>4, <1>5

\* The replay hands over ids of controls.
LEMMA AscendingType ==
  ASSUME NEW box, box \in Seq(Controls), NEW S \in SUBSET DOMAIN box, NEW s \in Ascending(S)
  PROVE  s \in Seq(DOMAIN box)
<1>1. DOMAIN box = 1 .. Len(box) /\ Len(box) \in Nat
  BY LenProperties
<1>2. IsFiniteSet(S)
  <2>1. IsFiniteSet(1 .. Len(box))
    BY <1>1, FS_Interval
  <2>. QED  BY <1>1, <2>1, FS_Subset
<1>. DEFINE n == Cardinality(S)
<1>3. n \in Nat
  BY <1>2, FS_CardinalityType
<1>. HIDE DEF n
<1>4. s \in [1 .. n -> S]
  BY DEF Ascending, n
<1>5. s \in [1 .. n -> DOMAIN box]
  BY <1>4
<1>. QED  BY <1>3, <1>5, SeqDef

LEMMA HostQueue ==
  ASSUME Known, NEW box, box \in Seq(Controls), Host(box)
  PROVE  queue' \in Seq(DOMAIN box) /\ ctx' = "" /\ hub' = "live"
BY AscendingType DEF Host

LEMMA Widens ==
  ASSUME NEW S, NEW T, S \subseteq T, NEW q \in Seq(S)
  PROVE  q \in Seq(T)
<1>1. q \in [1 .. Len(q) -> S] /\ Len(q) \in Nat
  OBVIOUS
<1>2. q \in [1 .. Len(q) -> T]
  BY <1>1
<1>. QED  BY <1>1, <1>2

LEMMA NoQueue == ASSUME NEW S PROVE <<>> \in Seq(S)
OBVIOUS

LEMMA SidesStay ==
  ASSUME Known, [Next]_vars
  PROVE  Sides'
<1>0. Sides
  BY DEF Known
<1>1. CASE RunnerStep \/ ConfirmFinish
  <2>1. Driven /\ timers' \in SUBSET Nat /\ sr'.handled \subseteq DOMAIN mailbox
    BY <1>1, DrivenStays, TimersStay, HandledStays
  <2>2. queue' \in Seq(DOMAIN mailbox)
    <3>1. At("pausing") => queue # <<>>
      BY DEF Known, Hosted, At
    <3>. QED  BY <1>0, <1>1, <3>1, MailStays, HeadFact DEF Sides
  <2>3. slot' \in Nat \cup {-1}
    BY <1>0, <1>1, MailStays, RunFacts DEF Sides, Known
  <2>. QED  BY <1>0, <1>1, <2>1, <2>2, <2>3, MailStays DEF Sides, Driven
<1>2. CASE \/ HostStep
           \/ \E k \in Controls : CheckControl(k)
           \/ UserStop \/ Shutdown \/ Crash \/ Tick
  <2>1. sr' = sr /\ timers' = timers /\ mailbox' = mailbox /\ slot' = slot
    BY <1>2 DEF HostStep, HubFinish, Deregister, BootSweepDrives, ReviveDrive, Exit, Boot, Die,
       CheckControl, UserStop, Shutdown, Crash, Tick, durable
  <2>2. faults' \in 0 .. MaxFaults /\ daemon' \in {"up", "stopping", "down"}
        /\ checked' \in Controls \cup {""}
    <3>1. faults' \in {faults, faults + 1} /\ (faults' = faults \/ faults < MaxFaults)
      BY <1>2 DEF HostStep, HubFinish, Deregister, BootSweepDrives, ReviveDrive, Exit, Boot, Die,
         CheckControl, UserStop, Shutdown, Crash, Tick, Others
    <3>2. daemon' \in {daemon, "up", "stopping", "down"}
      BY <1>2 DEF HostStep, HubFinish, Deregister, BootSweepDrives, ReviveDrive, Exit, Boot, Die,
         CheckControl, UserStop, Shutdown, Crash, Tick, hosting
    <3>3. checked' \in Controls \cup {"", checked}
      BY <1>2 DEF HostStep, HubFinish, Deregister, BootSweepDrives, ReviveDrive, Exit, Boot, Die,
         CheckControl, UserStop, Shutdown, Crash, Tick, hosting
    <3>4. faults' \in 0 .. MaxFaults
      <4>1. MaxFaults \in Nat /\ faults \in 0 .. MaxFaults
        BY <1>0, SeriesAssumption DEF Sides
      <4>. QED  BY <3>1, <4>1
    <3>. QED  BY <1>0, <3>2, <3>3, <3>4 DEF Sides
  <2>3. /\ queue' \in Seq(DOMAIN mailbox)
        /\ ctx' \in {"", "stop", "shutdown"} /\ hub' \in {"none", "live", "done"}
    <3>1. CASE Host(mailbox)
      BY <1>0, <3>1, HostQueue DEF Sides
    <3>2. CASE ~Host(mailbox)
      <4>1. queue' \in {queue, <<>>} /\ ctx' \in {ctx, "", "stop", "shutdown"}
            /\ hub' \in {hub, "none", "done"}
        BY <1>2, <3>2 DEF HostStep, HubFinish, Deregister, BootSweepDrives, ReviveDrive, Exit,
           Boot, Die, CheckControl, UserStop, Shutdown, Crash, Tick, hosting
      <4>. QED  BY <1>0, <4>1, NoQueue DEF Sides
    <3>. QED  BY <3>1, <3>2
  <2>. QED  BY <1>0, <2>1, <2>2, <2>3 DEF Sides
<1>3. ASSUME NEW k \in Controls, AcceptControl(k) PROVE Sides'
  <2>1. /\ mailbox' = Append(mailbox, k) /\ sr' = sr /\ timers' = timers /\ slot' = slot
        /\ faults' = faults /\ daemon' = daemon /\ checked' = ""
    BY <1>3 DEF AcceptControl, Others
  <2>2. /\ mailbox' \in Seq(Controls) /\ DOMAIN mailbox \subseteq DOMAIN mailbox'
        /\ Len(mailbox') \in DOMAIN mailbox'
    <3>0. mailbox \in Seq(Controls)
      BY <1>0 DEF Sides
    <3>1. mailbox \in Seq(Controls) /\ Len(mailbox) \in Nat
      BY <3>0, LenProperties
    <3>2. mailbox' \in Seq(Controls) /\ Len(mailbox') = Len(mailbox) + 1
      BY <2>1, <3>1, AppendProperties
    <3>3. DOMAIN mailbox = 1 .. Len(mailbox) /\ DOMAIN mailbox' = 1 .. Len(mailbox')
      BY <3>1, <3>2
    <3>. QED  BY <3>1, <3>2, <3>3
  <2>3. /\ queue' \in Seq(DOMAIN mailbox')
        /\ ctx' \in {"", "stop", "shutdown"} /\ hub' \in {"none", "live", "done"}
    <3>0. queue \in Seq(DOMAIN mailbox')
      BY <1>0, <2>2, Widens DEF Sides
    <3>1. CASE Host(mailbox')
      BY <2>2, <3>1, HostQueue
    <3>2. CASE ~Host(mailbox')
      <4>1. queue' \in {queue, Append(queue, Len(mailbox'))} /\ ctx' = ctx /\ hub' = hub
        BY <1>3, <3>2 DEF AcceptControl
      <4>2. Append(queue, Len(mailbox')) \in Seq(DOMAIN mailbox')
        BY <2>2, <3>0
      <4>3. queue' \in Seq(DOMAIN mailbox')
        BY <3>0, <4>1, <4>2
      <4>. QED  BY <1>0, <4>1, <4>3 DEF Sides
    <3>. QED  BY <3>1, <3>2
  <2>. QED  BY <1>0, <2>1, <2>2, <2>3 DEF Sides
<1>4. CASE UNCHANGED vars
  BY <1>0, <1>4 DEF Sides, vars
<1>. QED  BY <1>1, <1>2, <1>3, <1>4 DEF Next

\* The switches of the daemon.
Switches == swept \in BOOLEAN /\ revive \in BOOLEAN

LEMMA SwitchesStay ==
  ASSUME Switches, [Next]_vars
  PROVE  Switches'
<1>1. CASE RunnerStep \/ ConfirmFinish
  BY <1>1, MailStays, Zenon DEF Switches
<1>2. CASE HubFinish \/ Deregister \/ Exit \/ Boot \/ Crash \/ UserStop \/ Shutdown \/ Tick
  <2>1. swept' = swept \/ swept' = FALSE
    BY <1>2, Zenon DEF HubFinish, Deregister, Exit, Boot, Crash, Die, UserStop, Shutdown, Tick,
       hosting
  <2>2. revive' = revive \/ revive' = FALSE
    BY <1>2, Zenon DEF HubFinish, Deregister, Exit, Boot, Crash, Die, UserStop, Shutdown, Tick,
       hosting
  <2>. QED  BY <2>1, <2>2, Zenon DEF Switches
<1>3. CASE BootSweepDrives
  BY <1>3, Zenon DEF BootSweepDrives, Switches
<1>4. CASE ReviveDrive
  BY <1>4, Zenon DEF ReviveDrive, Switches
<1>5. ASSUME NEW k \in Controls, CheckControl(k) \/ AcceptControl(k)
      PROVE  Switches'
  <2>1. swept' = swept
    BY <1>5, Zenon DEF CheckControl, AcceptControl
  <2>2. revive' = revive \/ revive' = TRUE
    BY <1>5, Zenon DEF CheckControl, AcceptControl
  <2>. QED  BY <2>1, <2>2, Zenon DEF Switches
<1>6. CASE UNCHANGED vars
  BY <1>6, Zenon DEF Switches, vars
<1>. QED  BY <1>1, <1>2, <1>3, <1>4, <1>5, <1>6 DEF Next, HostStep

-----------------------------------------------------------------------------
(* The children.                                                           *)

Bare(n) == \A a \in Attempts : child[n][a].st = "none"

\* Attempts are made one after the other, each after the failure of the last.
Attempted ==
  \A n \in 1 .. MaxIter : \A a \in Attempts :
    /\ child[n][a].st = "none" => child[n][a].used = 0
    /\ child[n][a].st # "none" => \A b \in Attempts : b < a => child[n][b].st = "failed"

\* Where the runner is among them.
Trying ==
  /\ run.pc \in Working => \A b \in Attempts : b < run.a => child[run.n][b].st = "failed"
  /\ run.pc = "child" => Me.st = "open"
  /\ run.pc = "judge" => Me.st = "done"
  /\ run.pc = "fail"  => Me.st = "failed" /\ run.a = spec.attempts

\* A slot that was skipped has no child, nor has an iteration that is to come;
\* except the one in flight, which the runner knows of.
Fresh ==
  /\ \A n \in 1 .. MaxIter :
       \/ n > Count + 1
       \/ /\ n = Count + 1
          /\ run.pc \in Recorded \/ (run.pc \in Between /\ run.inFlight # n)
       \/ n <= Count /\ sr.iterations[n].skipped
       => Bare(n)
  /\ run.pc \in Between /\ run.inFlight = run.n => run.pc = "boundary" /\ ~Bare(run.n)

\* Only the attempt at hand changes, and only while it is not settled.
LEMMA ChildMoves ==
  ASSUME Core, Place, Trying, Move,
         NEW n \in 1 .. MaxIter, NEW a \in Attempts, child'[n][a] # child[n][a]
  PROVE  /\ Works \/ Settles
         /\ n = run.n /\ a = run.a /\ run.pc \in {"open", "child"}
         /\ child[n][a].st \in {"none", "open"} /\ child'[n][a].st # "none"
<1>1. Works \/ Settles
  BY DEF Move, Leaves, Enters, Drains, Waits, Skips, Starts, Halts, Records, GoesOn, Rests
<1>2. child \in [1 .. MaxIter -> [Attempts -> Child]]
  BY DEF Core
<1>3. CASE Works
  <2>1. run.n \in 1 .. MaxIter /\ run.a \in Attempts
    BY <1>3 DEF Works, Place, Working
  <2>2. PICK u \in Nat : child' = [child EXCEPT ![run.n][run.a] =
                                      [Me EXCEPT !.st = "open", !.used = u]]
    BY <1>3 DEF Works
  <2>3. n = run.n /\ a = run.a
    BY <1>2, <2>1, <2>2
  <2>4. [Me EXCEPT !.st = "open", !.used = u].st = "open"
    BY <1>2, <2>1 DEF Me, Child
  <2>5. child'[n][a].st = "open"
    BY <1>2, <2>1, <2>2, <2>3, <2>4
  <2>. QED  BY <1>3, <2>3, <2>5 DEF Works, Me
<1>4. CASE Settles
  <2>1. run.n \in 1 .. MaxIter /\ run.a \in Attempts
    BY <1>4 DEF Settles, Place, Working
  <2>2. PICK c \in Child : /\ c.st \in {"done", "failed"}
                           /\ child' = [child EXCEPT ![run.n][run.a] = c]
                           /\ run.pc = "child"
    BY <1>4 DEF Settles
  <2>3. n = run.n /\ a = run.a /\ child'[n][a] = c
    BY <1>2, <2>1, <2>2
  <2>. QED  BY <1>4, <2>2, <2>3 DEF Trying, Me
<1>. QED  BY <1>1, <1>3, <1>4

LEMMA AttemptedStays ==
  ASSUME Core, Place, Trying, Attempted, spec' = spec, Move
  PROVE  Attempted'
<1>. SUFFICES ASSUME NEW n \in 1 .. MaxIter, NEW a \in Attempts
              PROVE  /\ child'[n][a].st = "none" => child'[n][a].used = 0
                     /\ child'[n][a].st # "none" =>
                          \A b \in Attempts : b < a => child'[n][b].st = "failed"
  BY TypesStay DEF Attempted
<1>1. \A b \in Attempts : child[n][b].st = "failed" => child'[n][b].st = "failed"
  BY ChildMoves
<1>2. CASE child'[n][a] = child[n][a]
  BY <1>1, <1>2 DEF Attempted
<1>3. CASE child'[n][a] # child[n][a]
  <2>1. n = run.n /\ a = run.a /\ run.pc \in Working /\ child'[n][a].st # "none"
    BY <1>3, ChildMoves DEF Working
  <2>. QED  BY <1>1, <2>1 DEF Trying
<1>. QED  BY <1>2, <1>3

LEMMA TryingStays ==
  ASSUME Core, Place, Trying, spec' = spec, Move
  PROVE  Trying'
<1>1. CASE Leaves \/ Enters \/ Drains \/ Waits \/ Skips \/ Halts \/ Records \/ GoesOn
  <2>1. run'.pc \notin Working
    BY <1>1, EntersFact, WaitsFact, SkipsFact, HaltsFact, RecordsFact, GoesOnFact
       DEF Leaves, Drains, Away, Working, Recorded
  <2>. QED  BY <2>1 DEF Trying, Working
<1>2. CASE Starts
  <2>1. run'.pc = "open" /\ run'.a = 1
    BY <1>2, StartsFact
  <2>2. \A b \in Attempts : ~ (b < 1)
    BY SpecFacts DEF Attempts
  <2>. QED  BY <2>1, <2>2, TypesStay DEF Trying
<1>3. CASE Works
  <2>1. /\ run'.pc = "child" /\ run'.a = run.a /\ run'.n = run.n
        /\ run.n \in 1 .. MaxIter /\ run.a \in Attempts /\ run.pc = "open"
    BY <1>3, WorksFact DEF Keeps, Works, Place, Working
  <2>2. PICK u \in Nat : child' = [child EXCEPT ![run.n][run.a] =
                                      [Me EXCEPT !.st = "open", !.used = u]]
    BY <1>3 DEF Works
  <2>3. child \in [1 .. MaxIter -> [Attempts -> Child]]
    BY DEF Core
  <2>4. [Me EXCEPT !.st = "open", !.used = u].st = "open"
    BY <2>1, <2>3 DEF Me, Child
  <2>5. Me'.st = "open"
    BY <2>1, <2>2, <2>3, <2>4 DEF Me
  <2>6. \A b \in Attempts : b < run.a => child'[run.n][b] = child[run.n][b]
    BY <2>1, <2>2, <2>3 DEF Attempts
  <2>. QED  BY <2>1, <2>5, <2>6, TypesStay DEF Trying, Working
<1>4. CASE Settles
  <2>. DEFINE c == child'[run.n][run.a]
  <2>1. run' \in Runner /\ Keeps /\ run.a \in Attempts /\ run.n \in 1 .. MaxIter
        /\ c.used \in Nat /\ Settle(c) /\ c \in Child
    BY <1>4, SettlesFact DEF Settles
  <2>2. \A b \in Attempts : b < run.a => child'[run.n][b].st = "failed"
    <3>. SUFFICES ASSUME NEW b \in Attempts, b < run.a
                  PROVE  child'[run.n][b].st = "failed"
      OBVIOUS
    <3>1. child[run.n][b].st = "failed"
      BY <1>4 DEF Trying, Settles, Working
    <3>. QED  BY <2>1, <3>1, ChildMoves
  <2>3. c.st \in {"done", "failed"} \/ ctx # ""
    <3>0. run.pc = "child" => Me.st = "open"
      BY DEF Trying
    <3>1. CASE /\ run.pc = "child"
               /\ \E d \in Child : /\ d.st \in {"done", "failed"} /\ d.used = Me.used
                                   /\ child' = [child EXCEPT ![run.n][run.a] = d]
      <4>1. child \in [1 .. MaxIter -> [Attempts -> Child]]
        BY DEF Core
      <4>2. PICK d \in Child : /\ d.st \in {"done", "failed"}
                               /\ child' = [child EXCEPT ![run.n][run.a] = d]
        BY <3>1
      <4>3. child'[run.n][run.a] = d
        BY <2>1, <4>1, <4>2
      <4>. QED  BY <4>2, <4>3
    <3>2. CASE /\ run.pc \in {"open", "child"} /\ child' = child
               /\ run.pc = "open" => Me.st \in {"done", "failed"}
               /\ run.pc = "child" => ctx # ""
      BY <3>2 DEF Me
    <3>. QED  BY <1>4, <3>1, <3>2 DEF Settles
  <2>4. Me' = child'[run.n][run'.a]
    BY <2>1 DEF Me, Keeps
  <2>. HIDE DEF c
  <2>5. CASE c.st = "done" /\ run'.pc = "judge" /\ run'.a = run.a
    BY <2>1, <2>2, <2>4, <2>5, TypesStay DEF Trying, Keeps, c
  <2>6. CASE c.st # "done" /\ ctx # "" /\ run'.pc = "cancel" /\ run'.a = run.a
    BY <2>1, <2>2, <2>6, TypesStay DEF Trying, Keeps, c
  <2>7. CASE /\ c.st # "done" /\ ctx = "" /\ run.a < spec.attempts
             /\ run'.pc = "open" /\ run'.a = run.a + 1
    <3>1. \A b \in Attempts : b < run.a + 1 => b < run.a \/ b = run.a
      BY <2>1, SpecFacts DEF Attempts
    <3>. QED  BY <2>1, <2>2, <2>3, <2>7, <3>1, TypesStay DEF Trying, Keeps, c
  <2>8. CASE /\ c.st # "done" /\ ctx = "" /\ run.a = spec.attempts
             /\ run'.pc = "fail" /\ run'.a = run.a
    BY <2>1, <2>2, <2>3, <2>4, <2>8, TypesStay DEF Trying, Keeps, c
  <2>. QED  BY <2>1, <2>5, <2>6, <2>7, <2>8, SettleFact
<1>5. CASE Rests
  BY <1>5, TypesStay DEF Rests, Trying, Me
<1>. QED  BY <1>1, <1>2, <1>3, <1>4, <1>5 DEF Move

\* A skipped slot, or an iteration, comes to the end of the records.
LEMMA SkipsRecord ==
  ASSUME Core, Place, Skips
  PROVE  /\ Count' = Count + 1 /\ sr'.iterations[Count + 1] = SkippedRec(NextSlot(From))
         /\ \A n \in 1 .. Count : sr'.iterations[n] = sr.iterations[n]
         /\ sr'.at = now /\ sr'.epoch = sr.epoch
         /\ sr'.lastTick = IF NextSlot(From) > sr.lastTick THEN NextSlot(From) ELSE sr.lastTick
<1>. DEFINE it == SkippedRec(NextSlot(From))
<1>1. it \in Iteration /\ it.n = Count + 1 /\ it.n <= MaxIter /\ it.skipped
      /\ sr' = FoldIteration(sr, it) /\ it.tick = NextSlot(From)
  BY SkipsFact DEF SkippedRec, Skips
<1>. HIDE DEF it
<1>2. /\ Count' = Count + 1 /\ sr'.iterations[Count + 1] = it
      /\ \A n \in 1 .. Count : sr'.iterations[n] = sr.iterations[n]
      /\ sr'.at = now /\ sr'.epoch = sr.epoch
      /\ sr'.lastTick = IF it.tick > sr.lastTick THEN it.tick ELSE sr.lastTick
  BY <1>1, AppendFact
<1>. QED  BY <1>1, <1>2 DEF it

LEMMA RecordsRecord ==
  ASSUME Core, Place, Records
  PROVE  /\ Count' = Count + 1
         /\ \A n \in 1 .. Count : sr'.iterations[n] = sr.iterations[n]
         /\ sr'.at = now /\ sr'.epoch = sr.epoch
         /\ sr'.lastTick = IF run.tick > sr.lastTick THEN run.tick ELSE sr.lastTick
         /\ \E reason \in {"completed", "error", "canceled"}, score \in {0, 1} :
              /\ sr'.iterations[Count + 1] = Rec(reason, score)
              /\ run.pc = "judge" => run'.pc = "decide" /\ reason = "completed"
              /\ run.pc = "fail" => run'.pc = "failed" /\ reason = "error"
              /\ run.pc = "cancel" => run'.pc = "canceled" /\ reason = "canceled"
<1>1. PICK reason \in {"completed", "error", "canceled"}, score \in {0, 1} :
        /\ Rec(reason, score) \in Iteration
        /\ sr' = FoldIteration(sr, Rec(reason, score))
        /\ run.pc = "judge" => run'.pc = "decide" /\ reason = "completed"
        /\ run.pc = "fail" => run'.pc = "failed" /\ reason = "error"
        /\ run.pc = "cancel" => run'.pc = "canceled" /\ reason = "canceled"
  BY RecordsFact
<1>. DEFINE it == Rec(reason, score)
<1>2. it \in Iteration /\ it.n = Count + 1 /\ it.n <= MaxIter /\ it.a \in Attempts
      /\ sr' = FoldIteration(sr, it) /\ it.tick = run.tick
  BY <1>1, RecordsFact DEF Rec
<1>. HIDE DEF it
<1>3. /\ Count' = Count + 1 /\ sr'.iterations[Count + 1] = it
      /\ \A n \in 1 .. Count : sr'.iterations[n] = sr.iterations[n]
      /\ sr'.at = now /\ sr'.epoch = sr.epoch
      /\ sr'.lastTick = IF it.tick > sr.lastTick THEN it.tick ELSE sr.lastTick
  BY <1>2, AppendFact
<1>. QED  BY <1>1, <1>2, <1>3 DEF it

\* No other move writes a record.
Silent == Leaves \/ Enters \/ Drains \/ Waits \/ Starts \/ Halts \/ Works \/ Settles
          \/ GoesOn \/ Rests
LEMMA SilentFact ==
  ASSUME Silent
  PROVE  sr'.iterations = sr.iterations /\ Count' = Count /\ sr'.at = sr.at
<1>1. sr'.iterations = sr.iterations /\ sr'.at = sr.at
  BY DEF Silent, Leaves, Enters, Drains, Same, Waits, Starts, Halts, Works, Settles, GoesOn, Rests
<1>. QED  BY <1>1 DEF Count

LEMMA BareStays ==
  ASSUME Core, Place, Trying, spec' = spec, Move
  PROVE  /\ \A n \in 1 .. MaxIter :
              Bare(n) /\ (n # run.n \/ run.pc \notin {"open", "child"})
                => \A a \in Attempts' : child'[n][a].st = "none"
         /\ child' = child => \A n : ~Bare(n) => ~ \A a \in Attempts' : child'[n][a].st = "none"
BY ChildMoves, TypesStay DEF Bare

LEMMA FreshStays ==
  ASSUME Core, Place, Trying, Fresh, spec' = spec, Move
  PROVE  Fresh'
<1>. DEFINE BareNext(n) == \A a \in Attempts' : child'[n][a].st = "none"
<1>. USE FoldFacts, RunFacts
<1>0. /\ \A n \in 1 .. MaxIter :
           Bare(n) /\ (n # run.n \/ run.pc \notin {"open", "child"}) => BareNext(n)
      /\ child' = child => \A n : ~Bare(n) => ~BareNext(n)
  BY BareStays
<1>00. SUFFICES
         /\ \A n \in 1 .. MaxIter :
              \/ n > Count' + 1
              \/ /\ n = Count' + 1
                 /\ run'.pc \in Recorded \/ (run'.pc \in Between /\ run'.inFlight # n)
              \/ n <= Count' /\ sr'.iterations[n].skipped
              => BareNext(n)
         /\ run'.pc \in Between /\ run'.inFlight = run'.n
              => run'.pc = "boundary" /\ ~BareNext(run'.n)
  BY DEF Fresh, Bare
<1>000. MaxIter \in Nat
  BY SeriesAssumption
<1>. HIDE DEF BareNext
<1>1. CASE Leaves
  <2>1. run'.pc \in Away /\ child' = child
    BY <1>1 DEF Leaves
  <2>2. \A n \in 1 .. MaxIter : Bare(n) => BareNext(n)
    BY <2>1, TypesStay DEF Bare, BareNext
  <2>. QED  BY <1>1, <2>1, <2>2, SilentFact DEF Silent, Fresh, Away, Between, Recorded
<1>2. CASE Enters
  <2>1. /\ run'.pc = "boundary" /\ run'.n = Count + 1
        /\ run'.inFlight = IF HasChildJournal(Count + 1) THEN Count + 1 ELSE 0
        /\ run.pc \in Away /\ child' = child
    BY <1>2, EntersFact DEF Enters
  <2>2. run.pc \notin {"open", "child"}
    BY <2>1 DEF Away
  <2>3. \A n \in 1 .. MaxIter : n = Count + 1 /\ run'.inFlight # n => Bare(n)
    <3>1. run'.inFlight # Count + 1 => ~HasChildJournal(Count + 1)
      BY <2>1
    <3>2. \A n \in 1 .. MaxIter : ~HasChildJournal(n) => Bare(n)
      BY <1>000 DEF HasChildJournal, Bare
    <3>. QED  BY <3>1, <3>2
  <2>4. run'.inFlight = run'.n => ~Bare(run'.n)
    BY <2>1 DEF HasChildJournal, Bare
  <2>. QED  BY <1>0, <1>2, <2>1, <2>2, <2>3, <2>4, SilentFact
            DEF Silent, Fresh, Between, Recorded
<1>3. CASE Drains
  BY <1>0, <1>3, SilentFact DEF Silent, Drains, Fresh, Between, Recorded
<1>4. CASE Waits
  <2>1. run'.pc = "wait" /\ run'.n = run.n /\ run'.inFlight = run.inFlight
        /\ run.pc = "boundary" /\ run.n # run.inFlight
    BY <1>4, WaitsFact DEF Waits
  <2>. QED  BY <1>0, <1>4, <2>1, SilentFact DEF Silent, Fresh, Between, Recorded
<1>5. CASE Skips
  <2>1. /\ run'.pc = "boundary" /\ run'.n = run.n + 1 /\ run'.inFlight = run.inFlight
        /\ run.pc = "boundary" /\ run.n # run.inFlight /\ run.n = Count + 1
        /\ run.inFlight <= run.n /\ child' = child
    BY <1>5, SkipsFact DEF Skips, Place, Away
  <2>2. \A n \in 1 .. MaxIter : n >= Count + 1 => Bare(n)
    BY <2>1 DEF Fresh, Between
  <2>3. \A n \in 1 .. MaxIter : n <= Count /\ sr'.iterations[n].skipped => Bare(n)
    <3>1. \A n \in 1 .. Count : sr'.iterations[n] = sr.iterations[n]
      BY <1>5, SkipsRecord
    <3>2. \A n \in 1 .. MaxIter : n <= Count /\ sr.iterations[n].skipped => Bare(n)
      BY DEF Fresh
    <3>3. \A n \in 1 .. MaxIter : n <= Count => n \in 1 .. Count
      OBVIOUS
    <3>. QED  BY <3>1, <3>2, <3>3
  <2>4. \A n \in 1 .. MaxIter : Bare(n) => BareNext(n)
    BY <1>0, <2>1
  <2>5. Count' = Count + 1
    BY <1>5, SkipsRecord
  <2>6. run'.pc \notin Recorded /\ run'.inFlight # run'.n
    BY <2>1 DEF Recorded
  <2>7. \A n \in 1 .. MaxIter : n > Count + 1 \/ (n <= Count + 1 /\ sr'.iterations[n].skipped)
                                 => Bare(n)
    <3>1. \A n \in 1 .. MaxIter : n > Count + 1 => n >= Count + 1
      OBVIOUS
    <3>2. \A n \in 1 .. MaxIter : n <= Count + 1 => n <= Count \/ n >= Count + 1
      OBVIOUS
    <3>. QED  BY <2>2, <2>3, <3>1, <3>2
  <2>8. ASSUME NEW n \in 1 .. MaxIter,
               \/ n > Count' + 1
               \/ n = Count' + 1
               \/ n <= Count' /\ sr'.iterations[n].skipped
        PROVE  BareNext(n)
    <3>1. n > Count + 1 \/ (n <= Count + 1 /\ sr'.iterations[n].skipped)
      BY <2>5, <2>8
    <3>. QED  BY <2>4, <2>7, <3>1
  <2>. QED  BY <2>6, <2>8
<1>6. CASE Starts
  <2>1. run'.pc = "open" /\ run.pc \in {"boundary", "wait"}
    BY <1>6, StartsFact DEF Starts
  <2>. QED  BY <1>0, <1>6, <2>1, SilentFact DEF Silent, Fresh, Between, Recorded
<1>7. CASE Halts
  <2>1. run'.pc = "pausing" /\ run'.n = run.n /\ run'.inFlight = run.inFlight /\ run.pc = "wait"
    BY <1>7, HaltsFact DEF Halts
  <2>. QED  BY <1>0, <1>7, <2>1, SilentFact DEF Silent, Fresh, Between, Recorded
<1>8. CASE Works \/ Settles
  <2>1. run'.pc \in Working /\ run.n = Count + 1
    <3>1. CASE Works
      BY <3>1, WorksFact DEF Works, Place, Working
    <3>2. CASE Settles
      <4>. DEFINE c == child'[run.n][run.a]
      <4>1. c.used \in Nat /\ Settle(c) /\ run.a \in Attempts
        BY <3>2, SettlesFact DEF Settles
      <4>. HIDE DEF c
      <4>. QED  BY <3>2, <4>1, SettleFact DEF Settles, Place, Working
    <3>. QED  BY <1>8, <3>1, <3>2
  <2>2. sr'.iterations = sr.iterations /\ Count' = Count
    BY <1>8, SilentFact DEF Silent
  <2>3. run'.pc \notin Between /\ run'.pc \notin Recorded
    BY <2>1 DEF Between, Recorded, Working
  <2>4. \A n \in 1 .. MaxIter : n > Count + 1 \/ (n <= Count /\ sr.iterations[n].skipped)
                                 => Bare(n) /\ n # run.n
    BY <2>1 DEF Fresh
  <2>. QED  BY <1>0, <2>2, <2>3, <2>4
<1>9. CASE Records
  <2>1. /\ run'.pc \in Recorded /\ run.pc \in {"judge", "fail", "cancel"}
    BY <1>9, RecordsFact
  <2>2. Count' = Count + 1 /\ ~sr'.iterations[Count + 1].skipped
        /\ \A n \in 1 .. Count : sr'.iterations[n] = sr.iterations[n]
    BY <1>9, RecordsRecord DEF Rec
  <2>3. \A n \in 1 .. MaxIter : Bare(n) => BareNext(n)
    BY <1>0, <2>1
  <2>4. \A n \in 1 .. MaxIter : n > Count + 1 \/ (n <= Count /\ sr.iterations[n].skipped)
                                 => Bare(n)
    BY DEF Fresh
  <2>5. run'.pc \notin Between
    BY <2>1 DEF Between, Recorded
  <2>6. \A n \in 1 .. MaxIter :
          n > Count + 1 \/ (n <= Count + 1 /\ sr'.iterations[n].skipped) => Bare(n)
    <3>. SUFFICES ASSUME NEW n \in 1 .. MaxIter,
                         n > Count + 1 \/ (n <= Count + 1 /\ sr'.iterations[n].skipped)
                  PROVE  Bare(n)
      OBVIOUS
    <3>1. n > Count + 1 \/ n = Count + 1 \/ n \in 1 .. Count
      OBVIOUS
    <3>2. CASE n \in 1 .. Count
      <4>1. sr'.iterations[n] = sr.iterations[n]
        BY <2>2, <3>2
      <4>. QED  BY <2>4, <3>2, <4>1
    <3>. QED  BY <2>2, <2>4, <3>1, <3>2
  <2>. QED  BY <2>2, <2>3, <2>5, <2>6
<1>10. CASE GoesOn
  <2>1. /\ run.pc \in Recorded /\ run.n = Count /\ run.inFlight <= run.n
        /\ run'.pc = "boundary" /\ run'.n = run.n + 1 /\ run'.inFlight = run.inFlight
    BY <1>10, GoesOnFact DEF GoesOn, Place, Away, Recorded
  <2>2. \A n \in 1 .. MaxIter : Bare(n) => BareNext(n)
    BY <1>0, <2>1 DEF Recorded
  <2>3. sr'.iterations = sr.iterations /\ Count' = Count
    BY <1>10, SilentFact DEF Silent
  <2>4. \A n \in 1 .. MaxIter : n > Count \/ (n <= Count /\ sr.iterations[n].skipped)
                                 => Bare(n)
    BY <2>1 DEF Fresh
  <2>5. run'.inFlight # run'.n /\ run'.pc \notin Recorded
    BY <2>1 DEF Recorded
  <2>6. \A n \in 1 .. MaxIter : n > Count + 1 \/ n = Count + 1 => n > Count
    OBVIOUS
  <2>. QED  BY <2>2, <2>3, <2>4, <2>5, <2>6
<1>11. CASE Rests
  <2>1. run' = run /\ child' = child
    BY <1>11 DEF Rests
  <2>2. \A n \in 1 .. MaxIter : Bare(n) => BareNext(n)
    BY <2>1, TypesStay DEF Bare, BareNext
  <2>3. sr'.iterations = sr.iterations /\ Count' = Count
    BY <1>11, SilentFact DEF Silent
  <2>. QED  BY <1>0, <2>1, <2>2, <2>3 DEF Fresh
<1>. QED  BY <1>1, <1>2, <1>3, <1>4, <1>5, <1>6, <1>7, <1>8, <1>9, <1>10, <1>11 DEF Move

-----------------------------------------------------------------------------
(* What is spent.                                                          *)

Used(n) == [a \in Attempts |-> child[n][a].used]

\* The runner, and then the record, bill the attempts up to theirs once; after
\* the attempt that settled a recorded iteration there is no other.
Billing ==
  /\ run.pc \in Between => run.spent = 0
  /\ run.pc \in {"open", "child"} => run.spent = Total(Used(run.n), run.a - 1)
  /\ run.pc \in {"judge", "fail", "cancel"} => run.spent = Total(Used(run.n), run.a)
Billed(it, n) ==
  /\ it.skipped => it.usage = 0
  /\ it.skipped <=> it.reason = "overlap"
  /\ ~it.skipped => it.usage = Total(Used(n), it.a)
  /\ ~it.skipped /\ it.reason # "canceled"
       => \A b \in Attempts : b > it.a => child[n][b].st = "none"
Bills == \A n \in 1 .. Count : Billed(sr.iterations[n], n)

LEMMA UsedStays ==
  ASSUME Core, Place, Trying, Move, NEW n \in 1 .. MaxIter, NEW a \in Attempts,
         child'[n][a].used # child[n][a].used
  PROVE  Works /\ n = run.n /\ a = run.a
<1>1. child'[n][a] # child[n][a]
  OBVIOUS
<1>2. n = run.n /\ a = run.a /\ (Works \/ Settles)
  BY <1>1, ChildMoves
<1>3. ~Settles
  BY <1>2, SettlesFact DEF Me
<1>. QED  BY <1>2, <1>3

LEMMA UsedTotal ==
  ASSUME spec' = spec, NEW n, NEW k \in 0 .. spec.attempts, spec.attempts \in Nat,
         \A a \in 1 .. k : child'[n][a].used = child[n][a].used
  PROVE  Total([a \in Attempts' |-> child'[n][a].used], k) = Total(Used(n), k)
<1>. DEFINE f == [a \in Attempts' |-> child'[n][a].used]
<1>1. \A a \in 1 .. k : f[a] = Used(n)[a]
  BY DEF Used, Attempts
<1>2. k \in Nat
  OBVIOUS
<1>. HIDE DEF f
<1>3. Total(f, k) = Total(Used(n), k)
  BY <1>1, <1>2, TotalSame
<1>. QED  BY <1>3 DEF f

LEMMA BillingStays ==
  ASSUME Core, Place, Trying, Billing, spec' = spec, Move
  PROVE  Billing'
<1>. USE RunFacts, SpecFacts
<1>1. CASE Leaves \/ Enters \/ Waits \/ Skips \/ Halts \/ Records \/ GoesOn
  <2>1. /\ run'.pc \notin {"open", "child", "judge", "fail", "cancel"}
        /\ run'.pc \in Between => run'.spent = 0
    BY <1>1, EntersFact, WaitsFact, SkipsFact, HaltsFact, RecordsFact, GoesOnFact
       DEF Leaves, Waits, Skips, Halts, Billing, Away, Between, Recorded
  <2>. QED  BY <2>1 DEF Billing
<1>2. CASE Drains \/ Rests
  <2>1. run' = run /\ child' = child
    BY <1>2 DEF Drains, Rests
  <2>2. \A n : Used(n)' = Used(n)
    BY <2>1, TypesStay DEF Used
  <2>. QED  BY <2>1, <2>2 DEF Billing, Used
<1>3. CASE Starts
  <2>1. run'.pc = "open" /\ run'.a = 1 /\ run'.spent = run.spent /\ run.spent = 0
    BY <1>3, StartsFact DEF Starts, Billing, Between
  <2>2. \A f : Total(f, 0) = 0
    BY TotalUnfolds
  <2>3. run'.a - 1 = 0
    BY <2>1
  <2>. QED  BY <2>1, <2>2, <2>3 DEF Billing, Between
<1>4. CASE Works
  <2>1. /\ run'.pc = "child" /\ run'.a = run.a /\ run'.n = run.n /\ run'.spent = run.spent
        /\ run.pc = "open" /\ run.n \in 1 .. MaxIter /\ run.a \in Attempts
    BY <1>4, WorksFact DEF Works, Keeps, Place, Working
  <2>2. \A a \in 1 .. run.a - 1 : child'[run.n][a].used = child[run.n][a].used
    BY <2>1, UsedStays DEF Attempts
  <2>. DEFINE k == run.a - 1
  <2>3. k \in 0 .. spec.attempts
    BY <2>1 DEF Attempts
  <2>. HIDE DEF k
  <2>4. Total([a \in Attempts' |-> child'[run.n][a].used], k) = Total(Used(run.n), k)
    BY <2>2, <2>3, UsedTotal DEF k
  <2>. QED  BY <2>1, <2>4 DEF Billing, Used, Between, k
<1>5. CASE Settles
  <2>. DEFINE c == child'[run.n][run.a]
  <2>1. /\ c.used \in Nat /\ c.used = Me.used /\ Settle(c) /\ run.a \in Attempts
        /\ run.n \in 1 .. MaxIter /\ run.pc \in {"open", "child"}
    BY <1>5, SettlesFact DEF Settles
  <2>. HIDE DEF c
  <2>2. /\ run'.n = run.n /\ run'.spent = run.spent + Me.used
        /\ \/ run'.pc \in {"judge", "cancel", "fail"} /\ run'.a = run.a
           \/ run'.pc = "open" /\ run'.a = run.a + 1
    BY <2>1, SettleFact DEF Keeps
  <2>3. run.spent = Total(Used(run.n), run.a - 1)
    BY <2>1 DEF Billing
  <2>4. Total(Used(run.n), run.a) = Total(Used(run.n), run.a - 1) + Me.used
    <3>1. run.a - 1 \in Nat /\ (run.a - 1) + 1 = run.a
      BY <2>1 DEF Attempts
    <3>2. Used(run.n)[run.a] = Me.used
      BY <2>1 DEF Used, Me
    <3>. DEFINE k == run.a - 1
    <3>3. Total(Used(run.n), k + 1) = Total(Used(run.n), k) + Used(run.n)[k + 1]
      BY <3>1, TotalUnfolds
    <3>. QED  BY <3>1, <3>2, <3>3
  <2>5. Total([a \in Attempts' |-> child'[run.n][a].used], run.a) = Total(Used(run.n), run.a)
    <3>1. \A a \in 1 .. run.a : child'[run.n][a].used = child[run.n][a].used
      <4>. SUFFICES ASSUME NEW a \in 1 .. run.a,
                           child'[run.n][a].used # child[run.n][a].used
                    PROVE  FALSE
        OBVIOUS
      <4>1. a \in Attempts
        BY <2>1 DEF Attempts
      <4>2. Works
        BY <2>1, <4>1, UsedStays
      <4>3. a = run.a
        BY <2>1, <4>1, UsedStays
      <4>. QED  BY <2>1, <4>3, SettlesFact, <1>5 DEF Me
    <3>2. run.a \in 0 .. spec.attempts
      BY <2>1 DEF Attempts
    <3>. QED  BY <3>1, <3>2, UsedTotal
  <2>6. run'.a = run.a + 1 => run'.a - 1 = run.a
    BY <2>1 DEF Attempts
  <2>7. run'.spent = Total([a \in Attempts' |-> child'[run'.n][a].used], run.a)
    BY <2>2, <2>3, <2>4, <2>5
  <2>8. CASE run'.pc \in {"judge", "cancel", "fail"} /\ run'.a = run.a
    BY <2>7, <2>8 DEF Billing, Used, Between
  <2>9. CASE run'.pc = "open" /\ run'.a = run.a + 1
    BY <2>6, <2>7, <2>9 DEF Billing, Used, Between
  <2>. QED  BY <2>2, <2>8, <2>9
<1>. QED  BY <1>1, <1>2, <1>3, <1>4, <1>5 DEF Move

\* What was billed for a record stays so: its children do not change any more.
LEMMA BillStays ==
  ASSUME Core, Place, Trying, spec' = spec, Move, NEW n \in 1 .. Count,
         NEW it \in Iteration, ~it.skipped => it.a \in Attempts, Billed(it, n)
  PROVE  Billed(it, n)'
<1>1. n \in 1 .. MaxIter /\ (run.pc \in {"open", "child"} => n # run.n)
  BY FoldFacts, SeriesAssumption DEF Core, Place, Working
<1>2. \A a \in Attempts : child'[n][a] = child[n][a]
  BY <1>1, ChildMoves
<1>3. CASE it.skipped
  BY <1>3 DEF Billed
<1>4. CASE ~it.skipped
  <2>1. it.a \in 0 .. spec.attempts /\ spec.attempts \in Nat
    BY <1>4, SpecFacts DEF Attempts
  <2>2. \A a \in 1 .. it.a : child'[n][a].used = child[n][a].used
    BY <1>2, <2>1 DEF Attempts
  <2>3. Total([a \in Attempts' |-> child'[n][a].used], it.a) = Total(Used(n), it.a)
    BY <2>1, <2>2, UsedTotal
  <2>. QED  BY <1>2, <1>4, <2>3, TypesStay DEF Billed, Used
<1>. QED  BY <1>3, <1>4

LEMMA BillsStay ==
  ASSUME Core, Place, Trying, Attempted, Billing, Bills, spec' = spec, Move
  PROVE  Bills'
<1>0. Count \in Nat /\ DOMAIN sr.iterations = 1 .. Count
  BY FoldFacts
<1>1. ASSUME NEW n \in 1 .. Count, sr'.iterations[n] = sr.iterations[n]
      PROVE  Billed(sr.iterations[n], n)'
  <2>1. PICK it \in Iteration : it = sr.iterations[n]
    BY FoldFacts
  <2>2. Billed(it, n) /\ (~it.skipped => it.a \in Attempts)
    BY <2>1 DEF Bills, Core
  <2>3. Billed(it, n)'
    BY <2>2, BillStays
  <2>. QED  BY <1>1, <2>1, <2>3 DEF Billed
<1>2. CASE Silent
  <2>1. sr'.iterations = sr.iterations /\ Count' = Count
    BY <1>2, SilentFact
  <2>. QED  BY <1>1, <2>1 DEF Bills
<1>3. CASE Skips
  <2>1. /\ Count' = Count + 1 /\ sr'.iterations[Count + 1] = SkippedRec(NextSlot(From))
        /\ \A n \in 1 .. Count : sr'.iterations[n] = sr.iterations[n]
    BY <1>3, SkipsRecord
  <2>2. ASSUME NEW n \in 1 .. Count', n = Count + 1
        PROVE  Billed(sr.iterations[n], n)'
    BY <2>1, <2>2 DEF Billed, SkippedRec
  <2>3. \A n \in 1 .. Count' : n = Count + 1 \/ n \in 1 .. Count
    BY <1>0, <2>1
  <2>. QED  BY <1>1, <2>1, <2>2, <2>3 DEF Bills
<1>4. CASE Records
  <2>1. PICK reason \in {"completed", "error", "canceled"}, score \in {0, 1} :
          /\ sr'.iterations[Count + 1] = Rec(reason, score)
          /\ run.pc = "judge" => reason = "completed"
          /\ run.pc = "fail" => reason = "error"
          /\ run.pc = "cancel" => reason = "canceled"
    BY <1>4, RecordsRecord
  <2>2. /\ Count' = Count + 1
        /\ \A n \in 1 .. Count : sr'.iterations[n] = sr.iterations[n]
    BY <1>4, RecordsRecord
  <2>3. /\ run.pc \in {"judge", "fail", "cancel"} /\ run.n = Count + 1
        /\ run.n \in 1 .. MaxIter /\ run.a \in Attempts /\ child' = child
    BY <1>4, RecordsFact DEF Records
  <2>4. run.spent = Total(Used(run.n), run.a)
    BY <2>3 DEF Billing
  <2>5. reason # "canceled" => \A b \in Attempts : b > run.a => child[run.n][b].st = "none"
    <3>. SUFFICES ASSUME reason # "canceled", NEW b \in Attempts, b > run.a,
                         child[run.n][b].st # "none"
                  PROVE  FALSE
      OBVIOUS
    <3>1. child[run.n][run.a].st = "failed"
      BY <2>3 DEF Attempted
    <3>2. run.pc = "fail" /\ run.a = spec.attempts
      BY <2>1, <2>3, <3>1 DEF Trying, Me
    <3>. QED  BY <3>2, SpecFacts DEF Attempts
  <2>6. ASSUME NEW n \in 1 .. Count', n = Count + 1
        PROVE  Billed(sr.iterations[n], n)'
    <3>1. /\ sr'.iterations[n] = Rec(reason, score) /\ n = run.n
          /\ [a \in Attempts' |-> child'[n][a].used] = Used(run.n)
      BY <2>1, <2>3, <2>6, TypesStay DEF Used
    <3>2. /\ Rec(reason, score).skipped = FALSE /\ Rec(reason, score).reason = reason
          /\ Rec(reason, score).usage = run.spent /\ Rec(reason, score).a = run.a
      BY DEF Rec
    <3>. QED  BY <2>3, <2>4, <2>5, <3>1, <3>2, TypesStay DEF Billed, Used
  <2>7. \A n \in 1 .. Count' : n = Count + 1 \/ n \in 1 .. Count
    BY <1>0, <2>2
  <2>. QED  BY <1>1, <2>2, <2>6, <2>7 DEF Bills
<1>. QED  BY <1>2, <1>3, <1>4 DEF Move, Silent

\* The spend that is recorded is that of all attempts.
LEMMA BillsAreExact ==
  ASSUME Core, Attempted, Fresh, Bills
  PROVE  /\ SpendIsExact /\ InFlightIsRun
         /\ spec.attempts = 1 =>
              \A n \in 1 .. Count : sr.iterations[n].usage = UsageOf(n)
<1>1. ASSUME NEW n \in 1 .. Count
      PROVE  /\ sr.iterations[n].skipped => \A a \in Attempts : child[n][a].st = "none"
             /\ sr.iterations[n].reason # "canceled" \/ spec.attempts = 1
                  => sr.iterations[n].usage = UsageOf(n)
  <2>. DEFINE it == sr.iterations[n]
  <2>0. /\ n \in 1 .. MaxIter /\ Billed(it, n) /\ spec.attempts \in Nat
        /\ ~it.skipped => it.a \in Attempts
    BY FoldFacts, SeriesAssumption, SpecFacts DEF Core, Bills
  <2>1. it.skipped => \A a \in Attempts : child[n][a].st = "none"
    BY <2>0 DEF Fresh, Bare
  <2>2. UsageOf(n) = Total(Used(n), spec.attempts)
    BY DEF UsageOf, Used
  <2>3. \A a \in 1 .. spec.attempts :
          Used(n)[a] \in Nat /\ (child[n][a].st = "none" => Used(n)[a] = 0)
    BY <2>0, ChildFacts DEF Used, Attempts, Attempted
  <2>. HIDE DEF it
  <2>4. CASE it.skipped
    <3>1. Total(Used(n), spec.attempts) = Total(Used(n), 0)
      <4>1. \A a \in 1 .. spec.attempts : Used(n)[a] \in Nat /\ (a > 0 => Used(n)[a] = 0)
        BY <2>1, <2>3, <2>4 DEF Attempts
      <4>2. 0 \in 0 .. spec.attempts
        BY <2>0
      <4>. QED  BY <2>0, <4>1, <4>2, TotalRest
    <3>. QED  BY <2>0, <2>1, <2>2, <2>4, <3>1, TotalUnfolds DEF Billed, it
  <2>5. CASE ~it.skipped /\ (it.reason # "canceled" \/ spec.attempts = 1)
    <3>1. \A a \in Attempts : a > it.a => child[n][a].st = "none"
      BY <2>0, <2>5 DEF Billed, Attempts
    <3>2. Total(Used(n), spec.attempts) = Total(Used(n), it.a)
      <4>1. \A a \in 1 .. spec.attempts : Used(n)[a] \in Nat /\ (a > it.a => Used(n)[a] = 0)
        BY <2>3, <3>1 DEF Attempts
      <4>2. it.a \in 0 .. spec.attempts
        BY <2>0, <2>5 DEF Attempts
      <4>. QED  BY <2>0, <4>1, <4>2, TotalRest
    <3>. QED  BY <2>0, <2>1, <2>2, <2>5, <3>2 DEF Billed, it
  <2>6. CASE ~it.skipped /\ ~ (it.reason # "canceled" \/ spec.attempts = 1)
    BY <2>6 DEF it
  <2>. QED  BY <2>4, <2>5, <2>6
<1>2. DOMAIN sr.iterations = 1 .. Count
  BY FoldFacts
<1>. QED  BY <1>1, <1>2 DEF SpendIsExact, InFlightIsRun

-----------------------------------------------------------------------------
(* The budget.                                                             *)

\* What the iteration that is not recorded yet has used.
Open == IF Count < MaxIter THEN child[Count + 1][1].used ELSE 0

\* The allowance of a child is what the records leave of the cap, and with what
\* the open iteration has used they stay below it.
Budget ==
  spec.cap > 0 /\ spec.onFailure # "retry" =>
    /\ run.pc \in {"open", "child"} => run.allowance = spec.cap - SpentTokens(sr)
    /\ SpentTokens(sr) + Open <= spec.cap

LEMMA SpentSame ==
  ASSUME sr'.iterations = sr.iterations
  PROVE  SpentTokens(sr)' = SpentTokens(sr)
BY DEF SpentTokens, Ran

LEMMA SpentGrows ==
  ASSUME Core, NEW it \in Iteration, sr'.iterations \in Seq(Iteration), Count' = Count + 1,
         sr'.iterations[Count + 1] = it,
         \A n \in 1 .. Count : sr'.iterations[n] = sr.iterations[n]
  PROVE  SpentTokens(sr)' = SpentTokens(sr) + (IF it.skipped THEN 0 ELSE it.usage)
<1>. DEFINE f == [n \in DOMAIN sr.iterations |->
                    IF n \in Ran(sr) THEN sr.iterations[n].usage ELSE 0]
            g == [n \in DOMAIN sr'.iterations |->
                    IF n \in Ran(sr') THEN sr'.iterations[n].usage ELSE 0]
<1>1. /\ Count \in Nat /\ DOMAIN sr.iterations = 1 .. Count
      /\ DOMAIN sr'.iterations = 1 .. Count + 1
  BY FoldFacts DEF Count
<1>2. SpentTokens(sr) = Total(f, Count) /\ SpentTokens(sr)' = Total(g, Count + 1)
  BY DEF SpentTokens, Count, Ran
<1>3. \A n \in 1 .. Count : f[n] = g[n]
  BY <1>1 DEF Ran
<1>4. g[Count + 1] = IF it.skipped THEN 0 ELSE it.usage
  BY <1>1 DEF Ran
<1>. HIDE DEF f, g
<1>5. Total(f, Count) = Total(g, Count)
  BY <1>1, <1>3, TotalSame
<1>6. Total(g, Count + 1) = Total(g, Count) + g[Count + 1]
  BY <1>1, TotalUnfolds
<1>. QED  BY <1>2, <1>4, <1>5, <1>6

LEMMA OpenType ==
  ASSUME Core
  PROVE  Open \in Nat /\ SpentTokens(sr) \in Nat
<1>1. Count < MaxIter => Count + 1 \in 1 .. MaxIter
  BY FoldFacts, SeriesAssumption
<1>. QED  BY <1>1, ChildFacts, SpecFacts, SpentType DEF Open

LEMMA BudgetStays ==
  ASSUME Core, Core', Place, Trying, Attempted, Fresh, Billing, Budget, spec' = spec, Move
  PROVE  Budget'
<1>. SUFFICES ASSUME spec.cap > 0, spec.onFailure # "retry"
              PROVE  /\ run'.pc \in {"open", "child"}
                          => run'.allowance = spec.cap - SpentTokens(sr)'
                     /\ SpentTokens(sr)' + Open' <= spec.cap
  BY DEF Budget
<1>0. /\ spec.cap \in Nat /\ spec.attempts = 1 /\ Attempts = {1} /\ Attempts' = {1}
      /\ MaxIter \in Nat /\ Count \in Nat /\ SpentTokens(sr) \in Nat /\ Open \in Nat
  BY SpecFacts, TypesStay, SeriesAssumption, FoldFacts, OpenType DEF Attempts
<1>1. /\ run.pc \in {"open", "child"} => run.allowance = spec.cap - SpentTokens(sr)
      /\ SpentTokens(sr) + Open <= spec.cap
  BY DEF Budget
<1>2. CASE Silent /\ ~Works
  <2>1. Count' = Count /\ SpentTokens(sr)' = SpentTokens(sr)
    BY <1>2, SilentFact, SpentSame
  <2>2. Open' = Open
    <3>1. Count < MaxIter => Count + 1 \in 1 .. MaxIter
      BY <1>0
    <3>2. Count < MaxIter => child'[Count + 1][1].used = child[Count + 1][1].used
      BY <1>0, <1>2, <3>1, UsedStays
    <3>. QED  BY <2>1, <3>2 DEF Open
  <2>3. run'.pc \in {"open", "child"} => run'.allowance = spec.cap - SpentTokens(sr)
    <3>1. CASE Leaves \/ Enters \/ Waits \/ Halts \/ GoesOn
      BY <3>1, EntersFact, WaitsFact, HaltsFact, GoesOnFact DEF Leaves, Away
    <3>2. CASE Drains \/ Rests
      BY <1>1, <3>2 DEF Drains, Rests
    <3>3. CASE Starts
      <4>1. PICK tick \in Nat, last \in Nat, left \in Nat :
              /\ run' = [run EXCEPT !.tick = tick, !.lastTick = last, !.due = 0, !.a = 1,
                                    !.allowance = left, !.pc = "open"]
              /\ left = spec.cap - SpentTokens(sr)
        BY <3>3 DEF Starts
      <4>. QED  BY <4>1 DEF Core, Runner
    <3>4. CASE Settles
      BY <1>1, <3>4, SettlesFact DEF Settles, Keeps
    <3>. QED  BY <1>2, <3>1, <3>2, <3>3, <3>4 DEF Silent
  <2>. QED  BY <1>1, <2>1, <2>2, <2>3
<1>3. CASE Works
  <2>1. /\ run'.pc = "child" /\ run'.allowance = run.allowance /\ run.pc = "open"
        /\ run.n = Count + 1 /\ run.n \in 1 .. MaxIter /\ run.a = 1
    BY <1>0, <1>3, WorksFact DEF Works, Keeps, Place, Working
  <2>2. Count' = Count /\ SpentTokens(sr)' = SpentTokens(sr)
    BY <1>3, SilentFact, SpentSame DEF Silent
  <2>3. PICK u \in Nat :
          /\ child' = [child EXCEPT ![run.n][run.a] = [Me EXCEPT !.st = "open", !.used = u]]
          /\ u = Me.used \/ (u = Me.used + 1 /\ Me.used < Limit)
    BY <1>3 DEF Works
  <2>4. Open' = u /\ Open = Me.used /\ Me.used \in Nat
    <3>1. child \in [1 .. MaxIter -> [Attempts -> Child]]
      BY DEF Core
    <3>2. child'[run.n][1] = [Me EXCEPT !.st = "open", !.used = u]
      BY <1>0, <2>1, <2>3, <3>1
    <3>3. [Me EXCEPT !.st = "open", !.used = u].used = u /\ Me.used \in Nat
      BY <1>0, <2>1, <3>1 DEF Me, Child
    <3>. QED  BY <1>0, <2>1, <2>2, <3>2, <3>3 DEF Open, Me
  <2>5. Limit = spec.cap - SpentTokens(sr)
    BY <1>1, <2>1 DEF Limit
  <2>. QED  BY <1>0, <1>1, <2>1, <2>2, <2>3, <2>4, <2>5
<1>4. ASSUME Skips \/ Records PROVE Open' = 0
  <2>1. Count' = Count + 1 /\ child' = child
    BY <1>4, SkipsRecord, RecordsRecord DEF Skips, Records
  <2>2. CASE Count + 1 < MaxIter
    <3>1. Count + 2 \in 1 .. MaxIter /\ Count + 2 > Count + 1
      BY <1>0, <2>2
    <3>2. child[Count + 2][1].used = 0
      BY <1>0, <3>1 DEF Fresh, Bare, Attempted
    <3>3. (Count + 1) + 1 = Count + 2
      BY <1>0
    <3>. QED  BY <2>1, <2>2, <3>2, <3>3 DEF Open
  <2>. QED  BY <2>1, <2>2 DEF Open
<1>5. CASE Skips
  <2>1. run'.pc = "boundary"
    BY <1>5, SkipsFact
  <2>2. PICK it \in Iteration : it = SkippedRec(NextSlot(From))
    BY <1>5, SkipsFact
  <2>3. it.skipped
    BY <2>2 DEF SkippedRec
  <2>4. SpentTokens(sr)' = SpentTokens(sr)
    <3>1. sr'.iterations \in Seq(Iteration)
      BY TypesStay DEF Core, Fold
    <3>2. SpentTokens(sr)' = SpentTokens(sr) + 0
      BY <1>5, <2>2, <2>3, <3>1, SkipsRecord, SpentGrows
    <3>. QED  BY <1>0, <3>2
  <2>. QED  BY <1>0, <1>1, <1>4, <1>5, <2>1, <2>4
<1>6. CASE Records
  <2>1. /\ run'.pc \in Recorded /\ run.n = Count + 1 /\ run.n \in 1 .. MaxIter /\ run.a = 1
        /\ run.pc \in {"judge", "fail", "cancel"}
    BY <1>0, <1>6, RecordsFact
  <2>2. PICK it \in Iteration : /\ ~it.skipped /\ it.usage = run.spent
                                /\ sr'.iterations[Count + 1] = it
    <3>1. PICK reason \in {"completed", "error", "canceled"}, score \in {0, 1} :
            sr'.iterations[Count + 1] = Rec(reason, score)
      BY <1>6, RecordsRecord
    <3>2. Rec(reason, score) \in Iteration
      BY <1>6, RecordsFact, RecType
    <3>. QED  BY <3>1, <3>2 DEF Rec
  <2>3. run.spent = Open
    <3>1. run.spent = Total(Used(run.n), 1)
      BY <2>1 DEF Billing
    <3>2. Total(Used(run.n), 0 + 1) = Total(Used(run.n), 0) + Used(run.n)[0 + 1]
      BY TotalUnfolds
    <3>3. Total(Used(run.n), 0) = 0
      BY TotalUnfolds
    <3>4. Used(run.n)[1] = Open
      BY <1>0, <2>1 DEF Used, Open
    <3>. QED  BY <1>0, <3>1, <3>2, <3>3, <3>4
  <2>4. SpentTokens(sr)' = SpentTokens(sr) + Open
    <3>1. sr'.iterations \in Seq(Iteration)
      BY TypesStay DEF Core, Fold
    <3>. QED  BY <1>6, <2>2, <2>3, <3>1, RecordsRecord, SpentGrows
  <2>. QED  BY <1>0, <1>1, <1>4, <1>6, <2>1, <2>4 DEF Recorded
<1>. QED  BY <1>2, <1>3, <1>5, <1>6 DEF Move, Silent

\* The whole tree stays within the cap.
LEMMA BudgetHolds ==
  ASSUME Core, Attempted, Fresh, Bills, Budget
  PROVE  BudgetKept
<1>. SUFFICES ASSUME spec.cap > 0, spec.onFailure # "retry"
              PROVE  TreeUsage <= spec.cap
  BY DEF BudgetKept
<1>0. /\ spec.cap \in Nat /\ spec.attempts = 1 /\ Attempts = {1}
      /\ MaxIter \in Nat /\ Count \in 0 .. MaxIter /\ SpentTokens(sr) + Open <= spec.cap
      /\ SpentTokens(sr) \in Nat /\ Open \in Nat
  BY SpecFacts, SeriesAssumption, FoldFacts, OpenType DEF Attempts, Budget, Core
<1>. DEFINE f == [n \in 1 .. MaxIter |-> UsageOf(n)]
            g == [n \in DOMAIN sr.iterations |->
                    IF n \in Ran(sr) THEN sr.iterations[n].usage ELSE 0]
<1>1. TreeUsage = Total(f, MaxIter) /\ SpentTokens(sr) = Total(g, Count)
  BY DEF TreeUsage, SpentTokens, Count
<1>2. \A n \in 1 .. MaxIter : f[n] = child[n][1].used /\ f[n] \in Nat
  <2>. SUFFICES ASSUME NEW n \in 1 .. MaxIter
                PROVE  UsageOf(n) = child[n][1].used /\ child[n][1].used \in Nat
    OBVIOUS
  <2>1. UsageOf(n) = Total(Used(n), 0 + 1)
    BY <1>0 DEF UsageOf, Used
  <2>2. Total(Used(n), 0 + 1) = Total(Used(n), 0) + Used(n)[0 + 1] /\ Total(Used(n), 0) = 0
    BY TotalUnfolds
  <2>3. Used(n)[1] = child[n][1].used /\ child[n][1].used \in Nat
    BY <1>0, ChildFacts DEF Used
  <2>. QED  BY <2>1, <2>2, <2>3
<1>3. \A n \in 1 .. Count : f[n] = g[n]
  <2>. SUFFICES ASSUME NEW n \in 1 .. Count
                PROVE  UsageOf(n) = IF n \in Ran(sr) THEN sr.iterations[n].usage ELSE 0
    BY <1>0, FoldFacts
  <2>1. sr.iterations[n].usage = UsageOf(n)
    BY <1>0, BillsAreExact
  <2>2. sr.iterations[n].skipped => sr.iterations[n].usage = 0
    BY DEF Bills, Billed
  <2>3. DOMAIN sr.iterations = 1 .. Count
    BY FoldFacts
  <2>. QED  BY <2>1, <2>2, <2>3 DEF Ran
<1>. HIDE DEF f, g
<1>4. Total(f, Count) = SpentTokens(sr)
  BY <1>0, <1>1, <1>3, TotalSame
<1>5. CASE Count = MaxIter
  BY <1>0, <1>1, <1>4, <1>5
<1>6. CASE Count < MaxIter
  <2>0. Count + 1 \in 0 .. MaxIter /\ Count \in Nat /\ Count + 1 \in 1 .. MaxIter
    BY <1>0, <1>6
  <2>1. \A k \in 1 .. MaxIter : k > Count + 1 => f[k] = 0
    BY <1>0, <1>2 DEF Fresh, Bare, Attempted
  <2>2. Total(f, MaxIter) = Total(f, Count + 1)
    BY <1>0, <1>2, <2>0, <2>1, TotalRest
  <2>3. Total(f, Count + 1) = Total(f, Count) + f[Count + 1]
    BY <2>0, TotalUnfolds
  <2>4. f[Count + 1] = Open
    BY <1>2, <1>6, <2>0 DEF Open
  <2>. QED  BY <1>0, <1>1, <1>4, <2>2, <2>3, <2>4
<1>. QED  BY <1>0, <1>5, <1>6

-----------------------------------------------------------------------------
(* The pace.                                                               *)

\* The last record leaves a pace, unless the series was resumed since.
Pace == DeclaredPace(child[Count][sr.iterations[Count].a].intent)
Owed == /\ spec.schedule = "self_paced" /\ Count > 0
        /\ sr.iterations[Count].reason = "completed"
        /\ sr.iterations[Count].epoch = sr.epoch

Dated ==
  /\ sr.at <= now
  /\ \A n \in 1 .. Count : sr.iterations[n].epoch <= sr.epoch
  /\ run.pc = "decide" => /\ sr.iterations[Count].reason = "completed"
                          /\ sr.iterations[Count].a = run.a
  /\ run.pc = "failed" => sr.iterations[Count].reason = "error"
Pacing ==
  Owed =>
    /\ run.pc = "boundary" => run.pace = Pace
    /\ run.pc = "wait" => run.due >= sr.at + Pace
    /\ run.pc = "open" => now >= sr.at + Pace \/ ~Bare(run.n)

LEMMA MoveTime ==
  ASSUME Core, Core', Move
  PROVE  now \in Nat /\ now' \in Nat /\ now <= now' /\ sr.at \in Nat
<1>1. now \in Nat /\ now' \in Nat /\ sr.at \in Nat
  BY TimeFacts, SeriesAssumption, FoldFacts DEF Core
<1>2. now' = now \/ now <= now'
  BY DEF Move, Leaves, Enters, Drains, Waits, Skips, Starts, Halts, Works, Settles, Records,
         GoesOn, Rests
<1>. QED  BY <1>1, <1>2

LEMMA DatedStays ==
  ASSUME Core, Core', Place, Dated, Move
  PROVE  Dated'
<1>0. /\ now \in Nat /\ now' \in Nat /\ now <= now' /\ sr.at \in Nat /\ Count \in Nat
      /\ sr.epoch \in Nat /\ \A n \in 1 .. Count : sr.iterations[n].epoch \in Nat
  BY MoveTime, FoldFacts DEF Iteration
<1>1. CASE Silent
  <2>1. sr'.iterations = sr.iterations /\ Count' = Count /\ sr'.at = sr.at
    BY <1>1, SilentFact
  <2>2. sr'.epoch = sr.epoch \/ sr'.epoch = sr.epoch + 1
    BY <1>1 DEF Silent, Leaves, Enters, Drains, Same, Waits, Starts, Halts, Works, Settles,
       GoesOn, Rests
  <2>3. run'.pc \in {"decide", "failed"} => run' = run
    <3>1. CASE Leaves \/ Enters \/ Waits \/ Starts \/ Halts \/ Works \/ GoesOn
      BY <3>1, EntersFact, WaitsFact, StartsFact, HaltsFact, WorksFact, GoesOnFact
         DEF Leaves, Away
    <3>2. CASE Settles
      <4>. DEFINE c == child'[run.n][run.a]
      <4>1. c.used \in Nat /\ Settle(c) /\ run.a \in Attempts
        BY <3>2, SettlesFact DEF Settles
      <4>. HIDE DEF c
      <4>. QED  BY <4>1, SettleFact
    <3>3. CASE Drains \/ Rests
      BY <3>3 DEF Drains, Rests
    <3>. QED  BY <1>1, <3>1, <3>2, <3>3 DEF Silent
  <2>4. \A n \in 1 .. Count : sr.iterations[n].epoch <= sr'.epoch
    BY <1>0, <2>2 DEF Dated
  <2>. QED  BY <1>0, <2>1, <2>3, <2>4 DEF Dated
<1>2. CASE Skips
  <2>1. /\ Count' = Count + 1 /\ sr'.iterations[Count + 1] = SkippedRec(NextSlot(From))
        /\ \A n \in 1 .. Count : sr'.iterations[n] = sr.iterations[n]
        /\ sr'.at = now /\ sr'.epoch = sr.epoch /\ now' = now
    BY <1>2, SkipsRecord DEF Skips
  <2>2. run'.pc = "boundary"
    BY <1>2, SkipsFact
  <2>3. SkippedRec(NextSlot(From)).epoch = sr.epoch
    BY DEF SkippedRec
  <2>4. \A n \in 1 .. Count + 1 : n = Count + 1 \/ n \in 1 .. Count
    BY <1>0
  <2>5. \A n \in 1 .. Count + 1 : sr'.iterations[n].epoch <= sr.epoch
    BY <1>0, <2>1, <2>3, <2>4 DEF Dated
  <2>. QED  BY <1>0, <2>1, <2>2, <2>5 DEF Dated
<1>3. CASE Records
  <2>1. PICK reason \in {"completed", "error", "canceled"}, score \in {0, 1} :
          /\ sr'.iterations[Count + 1] = Rec(reason, score)
          /\ run.pc = "judge" => run'.pc = "decide" /\ reason = "completed"
          /\ run.pc = "fail" => run'.pc = "failed" /\ reason = "error"
          /\ run.pc = "cancel" => run'.pc = "canceled" /\ reason = "canceled"
    BY <1>3, RecordsRecord
  <2>2. /\ Count' = Count + 1
        /\ \A n \in 1 .. Count : sr'.iterations[n] = sr.iterations[n]
        /\ sr'.at = now /\ sr'.epoch = sr.epoch /\ now' = now
    BY <1>3, RecordsRecord DEF Records
  <2>3. run.pc \in {"judge", "fail", "cancel"} /\ run'.a = run.a
    BY <1>3, RecordsFact
  <2>4. /\ Rec(reason, score).epoch = sr.epoch /\ Rec(reason, score).reason = reason
        /\ Rec(reason, score).a = run.a
    BY DEF Rec
  <2>5. \A n \in 1 .. Count + 1 : n = Count + 1 \/ n \in 1 .. Count
    BY <1>0
  <2>6. \A n \in 1 .. Count + 1 : sr'.iterations[n].epoch <= sr.epoch
    BY <1>0, <2>1, <2>2, <2>4, <2>5 DEF Dated
  <2>. QED  BY <1>0, <2>1, <2>2, <2>3, <2>4, <2>6 DEF Dated
<1>. QED  BY <1>1, <1>2, <1>3 DEF Move, Silent

LEMMA PaceIsType ==
  ASSUME Core, Owed, Bills
  PROVE  /\ Count \in 1 .. MaxIter /\ sr.iterations[Count].a \in Attempts
         /\ ~sr.iterations[Count].skipped
         /\ Pace \in Nat /\ Pace > 0
<1>1. Count \in 1 .. MaxIter /\ Count \in 1 .. Count
  BY FoldFacts, SeriesAssumption DEF Owed, Core
<1>2. sr.iterations[Count].reason = "completed"
  BY DEF Owed
<1>3. ~sr.iterations[Count].skipped
  <2>1. Billed(sr.iterations[Count], Count)
    BY <1>1 DEF Bills
  <2>. QED  BY <1>2, <2>1 DEF Billed
<1>4. sr.iterations[Count].a \in Attempts
  BY <1>1, <1>3 DEF Core
<1>. QED  BY <1>1, <1>3, <1>4, ChildFacts, PaceType DEF Pace

LEMMA PacingStays ==
  ASSUME Core, Core', Place, Trying, Trying', Attempted, Fresh, Bills, Dated, Pacing,
         spec' = spec, Move
  PROVE  Pacing'
<1>. SUFFICES ASSUME Owed' PROVE
        /\ run'.pc = "boundary" => run'.pace = Pace'
        /\ run'.pc = "wait" => run'.due >= sr'.at + Pace'
        /\ run'.pc = "open" => \/ now' >= sr'.at + Pace'
                               \/ ~ \A a \in Attempts' : child'[run'.n][a].st = "none"
  BY DEF Pacing, Bare
<1>0. /\ now \in Nat /\ now' \in Nat /\ now <= now' /\ sr.at \in Nat /\ sr.at <= now
      /\ spec.schedule = "self_paced" /\ Count \in Nat
  BY MoveTime, FoldFacts DEF Dated, Owed
<1>1. CASE Records \/ Leaves \/ Halts \/ Works
  BY <1>1, RecordsFact, HaltsFact, WorksFact DEF Leaves, Away, Recorded
<1>2. ~Skips
  BY <1>0 DEF Skips, Timeline
<1>. SUFFICES ASSUME Silent
     PROVE /\ run'.pc = "boundary" => run'.pace = Pace'
           /\ run'.pc = "wait" => run'.due >= sr'.at + Pace'
           /\ run'.pc = "open" => \/ now' >= sr'.at + Pace'
                                  \/ ~ \A a \in Attempts' : child'[run'.n][a].st = "none"
  BY <1>1, <1>2 DEF Silent, Move
<1>3. sr'.iterations = sr.iterations /\ Count' = Count /\ sr'.at = sr.at
  BY SilentFact
<1>4. Count > 0 => sr.iterations[Count].epoch <= sr.epoch
  BY <1>0 DEF Dated
<1>5. sr'.epoch = sr.epoch
  <2>1. CASE sr'.epoch = sr.epoch + 1
    <3>1. Count > 0 /\ sr.iterations[Count].epoch = sr.epoch + 1
      BY <1>3, <2>1 DEF Owed
    <3>2. sr.epoch \in Nat
      BY FoldFacts
    <3>. QED  BY <1>4, <3>1, <3>2
  <2>. QED  BY <2>1 DEF Silent, Leaves, Enters, Drains, Same, Waits, Starts, Halts, Works,
               Settles, GoesOn, Rests
<1>6. Owed
  BY <1>0, <1>3, <1>5 DEF Owed
<1>7. /\ Count \in 1 .. MaxIter /\ sr.iterations[Count].a \in Attempts
      /\ ~sr.iterations[Count].skipped /\ Pace \in Nat /\ Pace > 0
  BY <1>6, PaceIsType
<1>8. Pace' = Pace
  <2>1. run.pc \in {"open", "child"} => Count # run.n
    BY <1>0 DEF Place, Working
  <2>2. child'[Count][sr.iterations[Count].a] = child[Count][sr.iterations[Count].a]
    BY <1>7, <2>1, ChildMoves
  <2>. QED  BY <1>3, <2>2 DEF Pace, DeclaredPace
<1>. HIDE DEF Pace
<1>9. /\ run.pc = "boundary" => run.pace = Pace
      /\ run.pc = "wait" => run.due >= sr.at + Pace
      /\ run.pc = "open" => now >= sr.at + Pace \/ ~Bare(run.n)
  BY <1>6 DEF Pacing
<1>10. CASE Enters
  <2>1. run'.pc = "boundary" /\ (sr' = sr => run'.pace = ResumedPace(LastCompleted, FALSE))
    BY <1>10, EntersFact
  <2>2. sr' = sr
    <3>1. sr'.epoch # sr.epoch + 1
      BY <1>5, FoldFacts
    <3>. QED  BY <1>10, <3>1 DEF Enters
  <2>3. LastCompleted = Count
    <3>1. DOMAIN sr.iterations = 1 .. Count
      BY FoldFacts
    <3>2. Count \in Ran(sr) /\ Ran(sr) \subseteq 1 .. Count
      BY <1>0, <1>7, <3>1 DEF Ran
    <3>. QED  BY <1>0, <3>2, LastFact
  <2>4. ResumedPace(LastCompleted, FALSE) = Pace
    BY <1>0, <1>7, <2>3 DEF ResumedPace, Pace
  <2>. QED  BY <1>8, <2>1, <2>2, <2>4
<1>11. CASE Drains \/ Rests
  <2>1. run' = run /\ child' = child
    BY <1>11 DEF Drains, Rests
  <2>. QED  BY <1>0, <1>3, <1>7, <1>8, <1>9, <2>1, TypesStay DEF Bare
<1>12. CASE Waits
  <2>1. PICK due \in Nat, last \in Nat :
          /\ run' = [run EXCEPT !.due = due, !.lastTick = last, !.pc = "wait"]
          /\ due = now + run.pace
    BY <1>0, <1>12 DEF Waits, Timeline
  <2>2. run.pace = Pace
    BY <1>9, <1>12 DEF Waits
  <2>3. run'.due = due /\ run'.pc = "wait"
    BY <2>1 DEF Core, Runner
  <2>. QED  BY <1>0, <1>3, <1>7, <1>8, <2>1, <2>2, <2>3
<1>13. CASE Starts
  <2>1. run'.pc = "open" /\ run'.n = run.n /\ child' = child /\ now' = now
    BY <1>13, StartsFact DEF Starts
  <2>2. run.n = Count + 1
    BY <1>13 DEF Starts, Place, Between
  <2>3. CASE run.pc = "boundary" /\ run.n = run.inFlight
    BY <2>1, <2>3, TypesStay DEF Fresh, Between, Bare
  <2>4. CASE run.pc = "boundary" /\ (run.n = 1 \/ run.pace = 0)
    BY <1>0, <1>7, <1>9, <2>2, <2>4
  <2>5. CASE run.pc = "wait" /\ now >= run.due
    <3>1. run.due \in Nat
      BY RunFacts
    <3>. QED  BY <1>0, <1>3, <1>7, <1>8, <1>9, <2>1, <2>5, <3>1
  <2>. QED  BY <1>0, <1>13, <2>3, <2>4, <2>5 DEF Starts
<1>14. CASE Settles
  <2>1. run'.n = run.n /\ run.a \in Attempts /\ run.n \in 1 .. MaxIter
    BY <1>14, SettlesFact DEF Keeps
  <2>2. /\ run'.pc \in {"judge", "cancel", "open", "fail"}
        /\ run'.pc = "open" => run'.a = run.a + 1
    <3>. DEFINE c == child'[run.n][run.a]
    <3>1. c.used \in Nat /\ Settle(c)
      BY <1>14, SettlesFact DEF Settles
    <3>. HIDE DEF c
    <3>. QED  BY <2>1, <3>1, SettleFact
  <2>3. run'.pc = "open" => child'[run.n][run.a].st = "failed"
    <3>1. run.a < run.a + 1
      BY <2>1, SpecFacts DEF Attempts
    <3>. QED  BY <2>1, <2>2, <3>1, TypesStay DEF Trying, Working
  <2>. QED  BY <2>1, <2>2, <2>3, TypesStay
<1>15. CASE GoesOn
  <2>1. run'.pc = "boundary" /\ run.pc \in {"decide", "failed"}
        /\ (run.pc = "decide" => run'.pace = DeclaredPace(Me.intent))
    BY <1>0, <1>15, GoesOnFact DEF GoesOn
  <2>2. run.n = Count
    BY <2>1 DEF Place, Recorded
  <2>3. run.pc = "decide" /\ sr.iterations[Count].a = run.a
    BY <1>6, <2>1 DEF Dated, Owed
  <2>4. DeclaredPace(Me.intent) = Pace
    BY <2>2, <2>3 DEF Me, Pace
  <2>. QED  BY <1>8, <2>1, <2>3, <2>4
<1>. QED  BY <1>1, <1>10, <1>11, <1>12, <1>13, <1>14, <1>15 DEF Silent

\* No step launches a child before its pace.
LEMMA PaceStep ==
  ASSUME Core, Place, Trying, Attempted, Pacing, Move
  PROVE  PaceHonoured
<1>. SUFFICES ASSUME NEW n \in 2 .. MaxIter, spec.schedule = "self_paced",
                     child[n][1].st = "none", child'[n][1].st # "none",
                     sr.iterations[n - 1].reason = "completed",
                     sr.iterations[n - 1].epoch = sr.epoch
              PROVE  now >= sr.at + DeclaredPace(child[n - 1][sr.iterations[n - 1].a].intent)
  BY DEF PaceHonoured
<1>0. n \in 1 .. MaxIter /\ 1 \in Attempts /\ Count \in Nat
  BY SpecFacts, FoldFacts
<1>1. n = run.n /\ run.a = 1 /\ run.pc \in {"open", "child"}
  BY <1>0, ChildMoves
<1>2. run.pc = "open"
  BY <1>1 DEF Trying, Me
<1>3. n = Count + 1 /\ n - 1 = Count /\ Count > 0
  BY <1>0, <1>1 DEF Place, Working
<1>4. Owed
  BY <1>3 DEF Owed
<1>5. Bare(run.n)
  <2>. SUFFICES ASSUME NEW a \in Attempts, child[n][a].st # "none" PROVE FALSE
    BY <1>1 DEF Bare
  <2>1. a # 1 /\ 1 < a
    BY SpecFacts DEF Attempts
  <2>2. child[n][1].st = "failed"
    BY <1>0, <2>1 DEF Attempted
  <2>. QED  BY <2>2
<1>. QED  BY <1>2, <1>3, <1>4, <1>5 DEF Pacing, Pace

-----------------------------------------------------------------------------
(* The slots of a cadence that skips.                                      *)

\* The last record, the fold and the runner agree on the slot reached.
Slots ==
  Timeline /\ spec.overlap = "skip" =>
    /\ Count > 0 => sr.lastTick > 0
    /\ Count > 0 /\ sr.iterations[Count].epoch = sr.epoch
         => sr.iterations[Count].tick = sr.lastTick
    /\ Count = 0 => sr.lastTick <= now
    /\ run.pc \in {"boundary"} \cup Recorded => run.lastTick = sr.lastTick
    /\ run.pc = "wait" => /\ run.due > 0 /\ run.due >= sr.lastTick
                          /\ Count > 0 => run.due = NextSlot(sr.lastTick)
    /\ run.pc \in Working => /\ run.lastTick = run.tick
                             /\ run.tick > 0 /\ run.tick >= sr.lastTick
                             /\ Count > 0 => run.tick = NextSlot(sr.lastTick)

LEMMA SlotsStay ==
  ASSUME Core, Core', Place, Dated, Slots, spec' = spec, Move
  PROVE  Slots'
<1>. SUFFICES ASSUME Timeline, spec.overlap = "skip" PROVE
        /\ Count' > 0 => sr'.lastTick > 0
        /\ Count' > 0 /\ sr'.iterations[Count'].epoch = sr'.epoch
             => sr'.iterations[Count'].tick = sr'.lastTick
        /\ Count' = 0 => sr'.lastTick <= now'
        /\ run'.pc \in {"boundary"} \cup Recorded => run'.lastTick = sr'.lastTick
        /\ run'.pc = "wait" => /\ run'.due > 0 /\ run'.due >= sr'.lastTick
                               /\ Count' > 0 => run'.due = NextSlot(sr'.lastTick)
        /\ run'.pc \in Working => /\ run'.lastTick = run'.tick
                                  /\ run'.tick > 0 /\ run'.tick >= sr'.lastTick
                                  /\ Count' > 0 => run'.tick = NextSlot(sr'.lastTick)
  BY DEF Slots, Timeline, NextSlot, Working, Recorded
<1>0. /\ now \in Nat /\ now' \in Nat /\ now <= now' /\ Count \in Nat /\ now >= 1
      /\ sr.lastTick \in Nat /\ sr.epoch \in Nat
      /\ run.tick \in Nat /\ run.due \in Nat /\ run.lastTick \in Nat
      /\ spec.every > 0 /\ spec.schedule \in {"interval", "cron"}
  BY MoveTime, FoldFacts, TimeFacts, RunFacts DEF Timeline
<1>1. /\ Count > 0 => sr.lastTick > 0
      /\ Count > 0 /\ sr.iterations[Count].epoch = sr.epoch
           => sr.iterations[Count].tick = sr.lastTick
      /\ Count = 0 => sr.lastTick <= now
      /\ run.pc \in {"boundary"} \cup Recorded => run.lastTick = sr.lastTick
      /\ run.pc = "wait" => /\ run.due > 0 /\ run.due >= sr.lastTick
                            /\ Count > 0 => run.due = NextSlot(sr.lastTick)
      /\ run.pc \in Working => /\ run.lastTick = run.tick
                               /\ run.tick > 0 /\ run.tick >= sr.lastTick
                               /\ Count > 0 => run.tick = NextSlot(sr.lastTick)
  BY DEF Slots
<1>2. \A t \in Nat : NextSlot(t) \in Nat /\ NextSlot(t) > t
  BY <1>0, SlotIsLater
<1>. HIDE DEF NextSlot
<1>3. CASE Leaves
  <2>1. run'.pc \in Away /\ sr'.iterations = sr.iterations /\ Count' = Count
        /\ sr'.lastTick = sr.lastTick /\ sr'.epoch = sr.epoch
    BY <1>3, SilentFact DEF Silent, Leaves, Same
  <2>. QED  BY <1>0, <1>1, <2>1 DEF Away, Recorded, Working
<1>4. CASE Enters
  <2>1. /\ run'.pc = "boundary" /\ run'.lastTick = sr'.lastTick
        /\ sr'.iterations = sr.iterations /\ Count' = Count
    BY <1>4, EntersFact, SilentFact DEF Silent
  <2>2. CASE sr' = sr
    BY <1>0, <1>1, <2>1, <2>2 DEF Recorded, Working
  <2>3. CASE sr'.lastTick = now /\ sr'.epoch = sr.epoch + 1
    <3>1. Count > 0 => sr.iterations[Count].epoch # sr.epoch + 1
      <4>1. Count > 0 => sr.iterations[Count].epoch <= sr.epoch
        BY <1>0 DEF Dated
      <4>. QED  BY <1>0, <4>1
    <3>. QED  BY <1>0, <2>1, <2>3, <3>1 DEF Recorded, Working
  <2>. QED  BY <1>4, <2>2, <2>3 DEF Enters
<1>5. CASE Drains \/ Rests
  <2>1. run' = run /\ sr'.iterations = sr.iterations /\ Count' = Count
        /\ sr'.lastTick = sr.lastTick /\ sr'.epoch = sr.epoch
    BY <1>5, SilentFact DEF Silent, Drains, Rests, Same
  <2>. QED  BY <1>0, <1>1, <2>1
<1>6. CASE Waits
  <2>1. PICK due \in Nat, last \in Nat :
          /\ run' = [run EXCEPT !.due = due, !.lastTick = last, !.pc = "wait"]
          /\ last = From /\ due = NextSlot(last) /\ due > now
    BY <1>0, <1>6 DEF Waits
  <2>2. run'.due = due /\ run'.pc = "wait"
    BY <2>1 DEF Core, Runner
  <2>3. sr' = sr /\ Count' = Count /\ run.lastTick = sr.lastTick
    BY <1>1, <1>6, SilentFact DEF Silent, Waits
  <2>4. (sr.lastTick > 0 => last = sr.lastTick) /\ last >= sr.lastTick
    BY <1>0, <2>1, <2>3 DEF From
  <2>5. due > last
    BY <1>2, <2>1
  <2>. QED  BY <1>0, <1>1, <1>6, <2>1, <2>2, <2>3, <2>4, <2>5 DEF Recorded, Working, Waits
<1>7. CASE Skips
  <2>1. /\ Count' = Count + 1 /\ sr'.iterations[Count + 1] = SkippedRec(NextSlot(From))
        /\ sr'.epoch = sr.epoch /\ run'.pc = "boundary" /\ run'.lastTick = NextSlot(From)
        /\ sr'.lastTick = IF NextSlot(From) > sr.lastTick THEN NextSlot(From) ELSE sr.lastTick
        /\ From \in Nat
    BY <1>7, SkipsRecord, SkipsFact
  <2>2. run.lastTick = sr.lastTick
    BY <1>1, <1>7 DEF Skips
  <2>3. From >= sr.lastTick /\ NextSlot(From) > From /\ NextSlot(From) \in Nat
    BY <1>0, <1>2, <2>1, <2>2 DEF From
  <2>4. sr'.lastTick = NextSlot(From) /\ sr'.lastTick > 0
    BY <1>0, <2>1, <2>3
  <2>5. SkippedRec(NextSlot(From)).tick = NextSlot(From)
    BY DEF SkippedRec
  <2>. QED  BY <1>0, <2>1, <2>4, <2>5 DEF Recorded, Working
<1>8. CASE Starts
  <2>1. PICK tick \in Nat, last \in Nat, left \in Nat :
          /\ run' = [run EXCEPT !.tick = tick, !.lastTick = last, !.due = 0, !.a = 1,
                                !.allowance = left, !.pc = "open"]
          /\ \/ /\ run.pc = "boundary" /\ run.n = run.inFlight
                /\ tick = ConsumedSlotAfter(run.lastTick)
                /\ last = IF tick = 0 THEN run.lastTick ELSE tick
             \/ /\ run.pc = "boundary"
                /\ spec.schedule = "interval" /\ run.n = 1
                /\ tick = now /\ last = now
             \/ /\ run.pc = "wait" /\ now >= run.due
                /\ tick = run.due /\ last = run.due
    BY <1>8 DEF Starts
  <2>2. run'.tick = tick /\ run'.lastTick = last /\ run'.pc = "open"
    <3>. DEFINE p == [run EXCEPT !.tick = tick, !.lastTick = last, !.due = 0]
    <3>1. p \in Runner /\ p.tick = tick /\ p.lastTick = last
      BY DEF Core, Runner
    <3>2. run' = [p EXCEPT !.a = 1, !.allowance = left, !.pc = "open"]
      BY <2>1
    <3>. HIDE DEF p
    <3>. QED  BY <3>1, <3>2 DEF Runner
  <2>3. sr' = sr /\ Count' = Count /\ (run.pc \in {"boundary", "wait"} => run.n = Count + 1)
    BY <1>8, SilentFact DEF Silent, Starts, Place, Between
  <2>4. /\ last = tick /\ tick > 0 /\ tick >= sr.lastTick
        /\ Count > 0 => tick = NextSlot(sr.lastTick)
    <3>1. CASE /\ run.pc = "boundary" /\ run.n = run.inFlight
               /\ tick = ConsumedSlotAfter(run.lastTick)
               /\ last = IF tick = 0 THEN run.lastTick ELSE tick
      <4>1. run.lastTick = sr.lastTick
        BY <1>1, <3>1
      <4>2. CASE spec.schedule = "interval"
        <5>1. tick = IF sr.lastTick = 0 THEN now ELSE NextSlot(sr.lastTick)
          BY <1>0, <3>1, <4>1, <4>2 DEF ConsumedSlotAfter
        <5>2. NextSlot(sr.lastTick) > sr.lastTick
          BY <1>0, <1>2
        <5>. QED  BY <1>0, <1>1, <3>1, <5>1, <5>2
      <4>3. CASE spec.schedule = "cron"
        <5>1. tick = NextSlot(IF sr.lastTick = 0 THEN now - 1 ELSE sr.lastTick)
          BY <3>1, <4>1, <4>3 DEF ConsumedSlotAfter
        <5>. DEFINE t == IF sr.lastTick = 0 THEN now - 1 ELSE sr.lastTick
        <5>2. t \in Nat /\ t >= sr.lastTick
          BY <1>0
        <5>. HIDE DEF t
        <5>3. NextSlot(t) > t /\ NextSlot(t) \in Nat
          BY <1>2, <5>2
        <5>4. tick = NextSlot(t)
          BY <5>1 DEF t
        <5>5. sr.lastTick > 0 => t = sr.lastTick
          BY DEF t
        <5>. QED  BY <1>0, <1>1, <3>1, <5>2, <5>3, <5>4, <5>5
      <4>. QED  BY <1>0, <4>2, <4>3
    <3>2. CASE run.pc = "boundary" /\ run.n = 1 /\ tick = now /\ last = now
      BY <1>0, <1>1, <2>3, <3>2
    <3>3. CASE run.pc = "wait" /\ tick = run.due /\ last = run.due
      BY <1>1, <3>3
    <3>. QED  BY <2>1, <3>1, <3>2, <3>3
  <2>. QED  BY <1>0, <1>1, <2>2, <2>3, <2>4 DEF Recorded, Working
<1>9. CASE Halts
  <2>1. run'.pc = "pausing" /\ sr' = sr /\ Count' = Count
    BY <1>9, HaltsFact, SilentFact DEF Silent, Halts
  <2>. QED  BY <1>0, <1>1, <2>1 DEF Recorded, Working
<1>10. CASE Works \/ Settles
  <2>1. /\ run'.lastTick = run.lastTick /\ run'.tick = run.tick /\ run.pc \in Working
        /\ sr' = sr /\ Count' = Count
    BY <1>10, WorksFact, SettlesFact, SilentFact DEF Silent, Works, Settles, Keeps, Working
  <2>2. run'.pc \in Working
    <3>1. CASE Settles
      <4>. DEFINE c == child'[run.n][run.a]
      <4>1. c.used \in Nat /\ Settle(c) /\ run.a \in Attempts
        BY <3>1, SettlesFact DEF Settles
      <4>. HIDE DEF c
      <4>. QED  BY <4>1, SettleFact DEF Working
    <3>. QED  BY <1>10, <3>1, WorksFact DEF Working
  <2>. QED  BY <1>0, <1>1, <2>1, <2>2 DEF Recorded, Working
<1>11. CASE Records
  <2>1. /\ Count' = Count + 1 /\ sr'.epoch = sr.epoch
        /\ sr'.lastTick = IF run.tick > sr.lastTick THEN run.tick ELSE sr.lastTick
        /\ run'.pc \in Recorded /\ run'.lastTick = run.lastTick
        /\ run.pc \in {"judge", "fail", "cancel"}
    BY <1>11, RecordsRecord, RecordsFact DEF Keeps
  <2>2. sr'.iterations[Count + 1].tick = run.tick
    BY <1>11, RecordsRecord DEF Rec
  <2>3. run.lastTick = run.tick /\ run.tick > 0 /\ run.tick >= sr.lastTick
    BY <1>1, <2>1 DEF Working
  <2>. QED  BY <1>0, <2>1, <2>2, <2>3 DEF Recorded, Working
<1>12. CASE GoesOn
  <2>1. /\ run'.pc = "boundary" /\ run'.lastTick = run.lastTick /\ run.pc \in Recorded
        /\ sr' = sr /\ Count' = Count
    BY <1>12, GoesOnFact, SilentFact DEF Silent, GoesOn, Recorded
  <2>. QED  BY <1>0, <1>1, <2>1 DEF Recorded, Working
<1>. QED  BY <1>3, <1>4, <1>5, <1>6, <1>7, <1>8, <1>9, <1>10, <1>11, <1>12 DEF Move

\* A record takes the slot after the last.
LEMMA GapStays ==
  ASSUME Core, Core', Place, Slots, SkipLeavesNoGap, spec' = spec, Move
  PROVE  SkipLeavesNoGap'
<1>. SUFFICES ASSUME Timeline, spec.overlap = "skip",
                     NEW n \in 2 .. Len(sr'.iterations),
                     sr'.iterations[n - 1].epoch = sr'.iterations[n].epoch
              PROVE  sr'.iterations[n].tick = NextSlot(sr'.iterations[n - 1].tick)
  BY DEF SkipLeavesNoGap, Timeline, NextSlot
<1>0. Count \in Nat /\ n \in 2 .. Count'
  BY FoldFacts DEF Count
<1>1. ASSUME NEW m \in 2 .. Count, sr.iterations[m - 1].epoch = sr.iterations[m].epoch
      PROVE  sr.iterations[m].tick = NextSlot(sr.iterations[m - 1].tick)
  BY <1>1 DEF SkipLeavesNoGap, Timeline, Count
<1>2. CASE Silent
  BY <1>0, <1>1, <1>2, SilentFact
<1>3. CASE Skips \/ Records
  <2>1. /\ Count' = Count + 1 /\ \A m \in 1 .. Count : sr'.iterations[m] = sr.iterations[m]
        /\ run.n = Count + 1
    BY <1>3, SkipsRecord, SkipsFact, RecordsRecord, RecordsFact
  <2>2. CASE n \in 2 .. Count
    <3>1. n \in 1 .. Count /\ n - 1 \in 1 .. Count
      BY <1>0, <2>2
    <3>2. sr'.iterations[n] = sr.iterations[n] /\ sr'.iterations[n - 1] = sr.iterations[n - 1]
      BY <2>1, <3>1
    <3>. QED  BY <1>1, <2>2, <3>2
  <2>3. CASE n = Count + 1
    <3>0. Count > 0 /\ Count \in 1 .. Count /\ n - 1 = Count
      BY <1>0, <2>3
    <3>1. sr'.iterations[n].epoch = sr.epoch
      <4>1. CASE Skips
        <5>1. sr'.iterations[Count + 1] = SkippedRec(NextSlot(From))
          BY <4>1, SkipsRecord
        <5>. QED  BY <2>3, <5>1 DEF SkippedRec
      <4>2. CASE Records
        BY <2>3, <4>2, RecordsRecord DEF Rec
      <4>. QED  BY <1>3, <4>1, <4>2
    <3>2. sr.iterations[Count].epoch = sr.epoch /\ sr'.iterations[n - 1] = sr.iterations[Count]
      BY <2>1, <3>0, <3>1
    <3>3. sr.iterations[Count].tick = sr.lastTick /\ sr.lastTick > 0
      BY <3>0, <3>2 DEF Slots
    <3>4. sr'.iterations[n].tick = NextSlot(sr.lastTick)
      <4>1. CASE Skips
        <5>1. sr'.iterations[Count + 1] = SkippedRec(NextSlot(From))
          BY <4>1, SkipsRecord
        <5>2. run.lastTick = sr.lastTick
          BY <4>1 DEF Skips, Slots
        <5>3. From = sr.lastTick
          BY <3>3, <5>2 DEF From
        <5>. QED  BY <2>3, <5>1, <5>3 DEF SkippedRec
      <4>2. CASE Records
        <5>1. sr'.iterations[Count + 1].tick = run.tick
          BY <4>2, RecordsRecord DEF Rec
        <5>2. run.tick = NextSlot(sr.lastTick)
          BY <3>0, <4>2, RecordsFact DEF Slots, Working
        <5>. QED  BY <2>3, <5>1, <5>2
      <4>. QED  BY <1>3, <4>1, <4>2
    <3>. QED  BY <3>2, <3>3, <3>4
  <2>. QED  BY <1>0, <2>1, <2>2, <2>3
<1>. QED  BY <1>2, <1>3 DEF Move, Silent

-----------------------------------------------------------------------------
(* The end, and cancellations.                                             *)

\* What the daemon, a user and the clock leave alone.
LEMMA DaemonLeaves ==
  ASSUME [Next]_vars, ~RunnerStep, ~ConfirmFinish
  PROVE  sr' = sr /\ child' = child /\ timers' = timers
<1>1. CASE \/ HostStep \/ \E k \in Controls : CheckControl(k) \/ AcceptControl(k)
           \/ UserStop \/ Shutdown \/ Crash \/ Tick
  BY <1>1 DEF HostStep, HubFinish, Deregister, BootSweepDrives, ReviveDrive, Exit, Boot, Die,
     CheckControl, AcceptControl, UserStop, Shutdown, Crash, Tick, durable
<1>2. CASE UNCHANGED vars
  BY <1>2 DEF vars
<1>. QED  BY <1>1, <1>2 DEF Next

\* The runner of an ended series only settles controls.
LEMMA EndedStep ==
  ASSUME Known, [Next]_vars
  PROVE  EndedIsFinal
<1>. SUFFICES ASSUME sr.ended # ""
              PROVE  /\ sr'.ended = sr.ended /\ sr'.iterations = sr.iterations
                     /\ child' = child /\ timers' \subseteq timers
  BY DEF EndedIsFinal
<1>1. run.pc \in {"off", "resume", "ended", "returned"}
  BY DEF Known, Rest, Away
<1>2. CASE ~RunnerStep /\ ~ConfirmFinish
  BY <1>2, DaemonLeaves
<1>3. CASE RunnerStep \/ ConfirmFinish
  <2>1. ResumeSeries \/ DrainEnded
    BY <1>1, <1>3, ReturnsHere, TicksHere, EntersHere, IteratesHere, DecidesHere, StaysHere
       DEF RunnerStep, Working, AwaitSeriesResume, At
  <2>2. CASE ResumeSeries
    BY <2>2 DEF ResumeSeries
  <2>3. CASE DrainEnded
    <3>1. child' = child /\ timers' = timers
      BY <2>3 DEF DrainEnded
    <3>2. CASE queue # <<>> /\ sr' = Applied(Head(queue))
      BY <3>1, <3>2, AppliedFact, HeadFact DEF Known
    <3>. QED  BY <2>3, <3>1, <3>2 DEF DrainEnded
  <2>. QED  BY <2>1, <2>2, <2>3
<1>. QED  BY <1>2, <1>3

LEMMA OnlyUserStep ==
  ASSUME Known, [Next]_vars
  PROVE  OnlyUserCancels
<1>. SUFFICES ASSUME LoopMode, sr.ended = "", sr'.ended = "cancelled"
              PROVE  ctx = "stop"
  BY DEF OnlyUserCancels
<1>1. RunnerStep \/ ConfirmFinish
  BY DaemonLeaves
<1>2. Folds
  BY <1>1, StepFolds
<1>3. ASSUME queue # <<>> PROVE sr' # Applied(Head(queue))
  BY <1>3, AppliedFact, HeadFact DEF Known
<1>4. ASSUME NEW it \in Iteration, it.n = Count + 1, it.n <= MaxIter,
             ~it.skipped => it.a \in Attempts
      PROVE  sr' # FoldIteration(sr, it)
  BY <1>4, AppendFact DEF Known
<1>5. ASSUME NEW reason \in Ends, FinishSeries(reason) PROVE reason = "cancelled"
  BY <1>5, FinishFact DEF Known
<1>. QED  BY <1>2, <1>3, <1>4, <1>5 DEF Folds

-----------------------------------------------------------------------------
(* The invariant holds.                                                    *)

SeriesInv ==
  /\ Known /\ Switches /\ Attempted /\ Trying /\ Fresh /\ Billing /\ Bills /\ Budget
  /\ Dated /\ Pacing /\ Slots /\ SkipLeavesNoGap

LEMMA SeriesInit == Init => SeriesInv
<1>. SUFFICES ASSUME Init PROVE SeriesInv
  OBVIOUS
<1>s. spec \in Specs
  BY Zenon DEF Init
<1>a. /\ sr = [iterations |-> <<>>, lastTick |-> 0, paused |-> FALSE, ended |-> "",
               handled |-> {}, epoch |-> 0, at |-> 0]
      /\ child = [n \in 1 .. MaxIter |-> [a \in Attempts |-> NoChild]]
      /\ run = [Off EXCEPT !.pc = "boundary", !.n = 1]
  BY Zenon DEF Init
<1>q. mailbox = <<>> /\ queue = <<>> /\ timers = {}
  BY Zenon DEF Init
<1>b. /\ ctx \in {"", "stop", "shutdown"} /\ checked \in Controls \cup {""}
      /\ hub \in {"none", "live", "done"} /\ daemon \in {"up", "stopping", "down"}
  BY Zenon DEF Init
<1>h. hub = "live"
  BY Zenon DEF Init
<1>c. now = 1 /\ faults = 0 /\ slot = -1
  BY Zenon DEF Init
<1>0. /\ spec \in DriverSpec /\ spec.attempts \in Nat \ {0} /\ spec.cap \in Nat
      /\ MaxIter \in Nat /\ MaxIter > 0 /\ MaxTime \in Nat /\ MaxTime > 0
      /\ MaxFaults \in Nat
  BY <1>s, SeriesAssumption DEF DriverSpec
<1>p. ~sr.paused /\ ~ (sr.ended # "")
  BY <1>a
<1>1. /\ sr \in Fold /\ sr.lastTick = 0
      /\ sr.handled \subseteq DOMAIN mailbox /\ sr.epoch = 0 /\ sr.at = 0 /\ Count = 0
  <2>1. <<>> \in Seq(Iteration) /\ Len(<<>>) = 0 /\ "" \in Ends /\ {} \in SUBSET Nat
    BY DEF Ends
  <2>. QED  BY <1>a, <2>1 DEF Fold, Count
<1>2. /\ run \in Runner /\ run.pc = "boundary" /\ run.n = 1 /\ run.a = 0
      /\ run.lastTick = 0 /\ run.inFlight = 0 /\ run.spent = 0
  BY <1>a DEF Off, Runner, Labels
<1>3. /\ child \in [1 .. MaxIter -> [Attempts -> Child]]
      /\ \A n \in 1 .. MaxIter : \A a \in Attempts :
            child[n][a].st = "none" /\ child[n][a].used = 0
  <2>1. NoChild \in Child /\ NoChild.st = "none" /\ NoChild.used = 0
    BY DEF NoChild, Child, Intents, NoIntent
  <2>. QED  BY <1>a, <2>1
<1>4. Core
  BY <1>s, <1>c, <1>0, <1>1, <1>2, <1>3 DEF Core
<1>5. Sides
  <2>1. /\ mailbox \in Seq(Controls) /\ queue \in Seq(DOMAIN mailbox)
        /\ timers \in SUBSET Nat
    BY <1>q
  <2>2. faults \in 0 .. MaxFaults /\ slot \in Nat \cup {-1}
    BY <1>c, <1>0
  <2>3. sr.handled \subseteq DOMAIN mailbox
    BY <1>1
  <2>. QED  BY <1>b, <2>1, <2>2, <2>3, Zenon DEF Sides
<1>6. Hosted /\ Place
  BY <1>h, <1>0, <1>1, <1>2 DEF Hosted, Place, Away, Between, Working, Recorded
<1>15. Rest
  BY <1>p, <1>2 DEF Rest
<1>7. Attempted /\ Trying
  BY <1>2, <1>3 DEF Attempted, Trying, Working
<1>14. Switches
  BY Zenon DEF Init, Switches
<1>8. Fresh
  BY <1>2, <1>3 DEF Fresh, Bare, Between
<1>9. Billing /\ Bills
  BY <1>1, <1>2 DEF Billing, Bills, Between
<1>10. Budget
  <2>1. Open = 0
    <3>1. 1 \in Attempts
      BY <1>0 DEF Attempts
    <3>. QED  BY <1>0, <1>1, <1>3, <3>1 DEF Open
  <2>2. SpentTokens(sr) = 0
    BY <1>1, TotalUnfolds DEF SpentTokens, Count
  <2>. QED  BY <1>0, <1>2, <2>1, <2>2 DEF Budget
<1>11. Dated /\ Pacing
  BY <1>c, <1>1, <1>2 DEF Dated, Pacing, Owed
<1>12. Slots
  BY <1>c, <1>1, <1>2 DEF Slots, Working, Recorded
<1>13. SkipLeavesNoGap
  BY <1>1 DEF Count, SkipLeavesNoGap
<1>. QED  BY <1>4, <1>5, <1>6, <1>7, <1>8, <1>9, <1>10, <1>11, <1>12, <1>13, <1>14, <1>15
          DEF SeriesInv, Known

LEMMA SeriesStays ==
  ASSUME SeriesInv, [Next]_vars
  PROVE  SeriesInv'
<1>. USE DEF SeriesInv
<1>1. Core /\ Place /\ Rest
  BY DEF Known
<1>2. spec' = spec /\ Move
  BY SpecStays, StepIsMove
<1>3. Core' /\ Place' /\ Rest'
  BY <1>1, <1>2, CoreStays, PlaceStays, RestStays
<1>4. Known'
  BY <1>3, SidesStay, HostedStays DEF Known
<1>5. Switches'
  BY SwitchesStay
<1>6. Attempted' /\ Trying' /\ Fresh'
  BY <1>1, <1>2, AttemptedStays, TryingStays, FreshStays
<1>7. Billing' /\ Bills'
  BY <1>1, <1>2, BillingStays, BillsStay
<1>8. Budget'
  BY <1>1, <1>2, <1>3, BudgetStays
<1>9. Dated' /\ Pacing'
  BY <1>1, <1>2, <1>3, <1>6, DatedStays, PacingStays
<1>10. Slots' /\ SkipLeavesNoGap'
  BY <1>1, <1>2, <1>3, SlotsStay, GapStays
<1>. QED  BY <1>4, <1>5, <1>6, <1>7, <1>8, <1>9, <1>10

LEMMA InvTypes == SeriesInv => SeriesTypeOK
<1>. SUFFICES ASSUME SeriesInv PROVE SeriesTypeOK
  OBVIOUS
<1>1. Core /\ Sides /\ Switches
  BY DEF SeriesInv, Known
<1>. QED  BY <1>1, FoldFacts DEF SeriesTypeOK, Core, Sides, Switches, Count

LEMMA InvExact == SeriesInv => SeriesIsExact
<1>. SUFFICES ASSUME SeriesInv PROVE SeriesIsExact
  OBVIOUS
<1>1. Core /\ Rest
  BY DEF SeriesInv, Known
<1>2. InFlightIsRun /\ SpendIsExact
  BY <1>1, BillsAreExact DEF SeriesInv
<1>3. BudgetKept
  BY <1>1, BudgetHolds DEF SeriesInv
<1>4. PausedRunsNothing
  BY <1>1 DEF Rest, Away, PausedRunsNothing
<1>. QED  BY <1>2, <1>3, <1>4 DEF SeriesIsExact, SeriesInv

LEMMA StepKeepsItsWord ==
  ASSUME SeriesInv, [Next]_vars
  PROVE  PaceHonoured /\ EndedIsFinal /\ OnlyUserCancels
<1>1. Core /\ Place
  BY DEF SeriesInv, Known
<1>2. Move
  BY StepIsMove DEF SeriesInv
<1>. QED  BY <1>1, <1>2, PaceStep, EndedStep, OnlyUserStep DEF SeriesInv

\* The invariant is inductive: every step of the runner is one of twelve moves,
\* and no step of the daemon, a user or the clock touches what a move keeps.
THEOREM Invariance == Spec => []SeriesInv
BY SeriesInit, SeriesStays, PTL DEF Spec

\* The variables keep their types, and iteration n of a series is its n-th
\* record, whatever crashes and resumes came between (series.go, RunSeries).
THEOREM TypeCorrect == Spec => []SeriesTypeOK
BY Invariance, InvTypes, PTL

\* What the journal of a series says is exact: no work is written off as a
\* skipped slot, every attempt is billed once, the tree stays within its cap,
\* a paused series runs nothing, and no slot is missing (series.go, drive).
THEOREM Exact == Spec => []SeriesIsExact
BY Invariance, InvExact, PTL

\* A declared pace is waited for across restarts, nothing follows the end of a
\* series, and only a user's stop cancels a cadenced one (series.go, drive and
\* seriesCancelTerminal).
THEOREM KeepsItsWord == Spec => SeriesKeepsItsWord
<1>1. ASSUME SeriesInv, [Next]_vars
      PROVE  [PaceHonoured /\ EndedIsFinal /\ OnlyUserCancels]_vars
  BY <1>1, StepKeepsItsWord
<1>. QED  BY <1>1, Invariance, PTL DEF Spec, SeriesKeepsItsWord
=============================================================================
