------------------------------ MODULE Timeline ------------------------------
(***************************************************************************)
(* The thread a session page draws (src/webui/frontend/src/timeline.ts).   *)
(*                                                                         *)
(* foldEvents replays the journal into a list of items.  It is one pass    *)
(* with mutable maps, so the model runs it one event per step: an action   *)
(* is the arrival of one journal event, guarded by when the runtime writes *)
(* it (the variables under "runtime"), with the case of foldEvents that    *)
(* handles it as its effect.  What the page then computes from the items   *)
(* (completedTurnDurations, suppressEchoedChips, mergeAdjacentChips,       *)
(* foldWork, foldRuns) are operators, so that an invariant is about every  *)
(* journal the runtime can write, at every poll.                           *)
(*                                                                         *)
(* An item is known by `key`, the seq of the event that pushed it; one     *)
(* event is one tick, so the key is its time stamp as well.  `tag` is the  *)
(* class of a chip and the category of a tool.                             *)
(***************************************************************************)
EXTENDS Integers, Sequences, FiniteSets, SequencesExt

CONSTANTS Acts,        \* tool activities
          Category,    \* Category[a]: toolCategory of a's tool
          Replayable,  \* activities whose tool is idempotent
          Journaled,   \* the one-chip event types that occur
          Journals     \* bounds, one of which a journal keeps

(* A bound is a record: "acts" are the activities of the journal, "events",  *)
(* "inputs", "asides" (one-chip events, barriers, waits) and "retries" how    *)
(* many of each it has; "faults" says whether calls and tools may fail, and   *)
(* the process die.                                                           *)
ASSUME TimelineAssumption ==
    /\ Category \in [Acts -> STRING] /\ Replayable \subseteq Acts
    /\ \A b \in Journals :
         /\ {b.events, b.inputs, b.asides, b.retries} \subseteq Nat
         /\ b.acts \subseteq Acts /\ b.faults \in BOOLEAN

VARIABLES
    \* foldEvents
    n,          \* events folded; the seq of the last one
    items,      \* the item list
    toolOf,     \* toolByActivity: the key of the activity's item, 0 if none
    failures,   \* llmFailures: a sequence of notices in journal order
    anchor,     \* anchorByItem: the messages a barrier names, with its side
    approvals,  \* the approvals map: id -> "open", "approve", "deny"
    status, lastType,
    \* runtime
    phase,      \* "idle", "ready", "gen", "said"
    gen,        \* generations started
    llm,        \* the model call of this generation
    running,    \* foreground activities that execute now
    backing,    \* background activities that execute now
    again,      \* activities whose next attempt is due
    inputs,     \* keys of the human inputs, in order
    pushed,     \* history: keys and kinds of every item ever pushed
    rerun,      \* history: some activity was started again after a crash
    done,       \* history: generations whose model call completed
    lastRetry,  \* history: key of the last retry
    retries, asides,
    bound       \* the bounds of this journal; they never change

foldVars == <<n, items, toolOf, failures, anchor, approvals, status, lastType>>
runVars == <<phase, gen, llm, running, backing, again, inputs>>
history == <<rerun, done, lastRetry, retries, asides>>
vars == <<foldVars, runVars, pushed, history, bound>>

Work == {"subagent_completed", "generation_discarded", "goal_check_missed",
         "malformed_tool_call", "spawn_requested", "child_revived", "forwarded"}
System == {"mode_changed", "spec_changed", "goal_updated"}
GoalEcho == {"goal_paused", "goal_cancelled", "goal_achieved", "goal_exhausted",
             "goal_check_passed"}
LimitEcho == {"limit_exceeded"}
Plain == {"goal_resumed", "session_closed", "actor_crashed", "interrupted",
          "series_started", "series_iteration", "series_paused",
          "series_resumed", "series_ended"}
Cuts == {"interrupted", "limit_exceeded"}
Compact == {"context_compacted"}
Raw == {"session_started", "unknown_event"}

(***************************************************************************)
(* Items.                                                                  *)
(***************************************************************************)
Kinds == {"user", "peer", "runtime", "assistant", "turn", "tool", "chip",
          "compact", "sys", "retried"}

Item(kind, tag, text) ==
    [kind |-> kind, key |-> n + 1, tag |-> tag, text |-> text, st |-> "",
     bg |-> FALSE, msg |-> <<>>, side |-> "", times |-> 1, kids |-> <<>>]

\* The class of the chip an event pushes.
ChipTag(e) == CASE e \in Work -> "work"
                [] e \in System -> "system"
                [] e \in GoalEcho -> "goal"
                [] e \in LimitEcho -> "limit"
                [] OTHER -> "plain"

OneChip(e) == CASE e \in Compact -> Item("compact", "", e)
                [] e \in Raw -> Item("sys", "", e)
                [] OTHER -> Item("chip", ChipTag(e), e)

\* The status line after the event, which most events leave alone.
StatusAfter(e) ==
    CASE e \in {"generation_started", "waiting_resolved", "series_started",
                "series_resumed"} -> "running"
      [] e = "series_paused" -> "paused"
      [] e = "series_ended" -> "done"
      [] e = "session_closed" -> "closed"
      [] e = "actor_crashed" -> "crashed"
      [] e = "waiting_input" -> "waiting: input"
      [] e = "waiting_approval" -> "waiting: approval"
      [] OTHER -> status

\* An item and whatever a retried block holds.
Unfold(it) == IF it.kind = "retried" THEN it.kids ELSE <<it>>
Flat(s) == FlattenSeq([i \in DOMAIN s |-> Unfold(s[i])])

\* The items with one field set in the item of this key, wherever it sits.  The
\* maps of foldEvents hold references, so it may be in a retried block.
Touch(s, key, field, value) ==
    LET one(it) == IF it.key = key /\ it.kind # "retried" THEN [it EXCEPT ![field] = value] ELSE it
    IN [i \in DOMAIN s |->
          IF s[i].kind = "retried"
          THEN [s[i] EXCEPT !.kids = [j \in DOMAIN @ |-> one(@[j])]]
          ELSE one(s[i])]

SideOf(msg) == IF \E b \in anchor : b.msg = msg
               THEN (CHOOSE b \in anchor : b.msg = msg).side ELSE ""

\* What foldEvents settles once the whole journal is in: the chip of a failure
\* that was recovered says so, the last other one is the session's failure.
Recovery(key) == IF \E i \in DOMAIN failures : failures[i].seq = key
                 THEN (CHOOSE f \in Range(failures) : f.seq = key).recovery ELSE ""
Folded == LET say(it) == IF it.text = "llm_failed"
                         THEN [it EXCEPT !.text = @ \o Recovery(it.key)] ELSE it
          IN [i \in DOMAIN items |->
                [say(items[i]) EXCEPT !.kids = [j \in DOMAIN @ |-> say(@[j])]]]
Standing == {i \in DOMAIN failures : failures[i].recovery = "no"}
Failure == IF Standing = {} THEN [seq |-> 0, gen |-> 0, final |-> FALSE, recovery |-> "no"]
           ELSE failures[CHOOSE i \in Standing : \A j \in Standing : j <= i]
ToolRunning == \E i \in DOMAIN items : /\ items[i].kind = "tool"
                                       /\ items[i].st = "running"
                                       /\ ~items[i].bg
Active == ToolRunning \/ lastType = "generation_started"

(***************************************************************************)
(* completedTurnDurations: the answers that close a measured turn, with    *)
(* the measured span.                                                      *)
(***************************************************************************)
Opens(it) == it.kind \in {"user", "runtime"}

Durations(s, active) ==
    LET start == [user |-> 0, gen |-> 0, final |-> 0, out |-> {}]
        flush(a) ==
            LET from == IF a.gen # 0 THEN a.gen ELSE a.user
            IN IF from # 0 /\ a.final # 0
               THEN [start EXCEPT !.out = a.out \cup
                        {[key |-> a.final, from |-> from, ms |-> a.final - from]}]
               ELSE [start EXCEPT !.out = a.out]
        step(a, it) ==
            CASE Opens(it) -> [flush(a) EXCEPT !.user = it.key]
              [] it.kind = "turn" /\ a.gen = 0 -> [a EXCEPT !.gen = it.key]
              [] it.kind = "assistant" /\ (a.gen # 0 \/ a.user # 0) ->
                    [a EXCEPT !.final = it.key]
              [] OTHER -> a
        end == FoldLeft(step, start, s)
    IN IF active THEN end.out ELSE flush(end).out

(***************************************************************************)
(* What the page feeds to foldWork: echoed chips suppressed, sys and       *)
(* runtime rows hidden, equal neighbours among the chips merged (a hidden  *)
(* turn marker does not separate them).                                    *)
(***************************************************************************)
SuppressEchoedChips(s, chrome) ==
    LET echoed(it) == it.kind = "chip" /\ it.tag \in chrome
    IN SelectSeq(s, LAMBDA it : ~echoed(it))

MergeAdjacentChips(s) ==
    LET start == [out |-> <<>>, last |-> 0]
        step(a, it) ==
            IF it.kind = "turn" THEN [a EXCEPT !.out = Append(@, it)]
            ELSE IF it.kind # "chip"
                 THEN [out |-> Append(a.out, it), last |-> 0]
            ELSE IF a.last # 0 /\ a.out[a.last].text = it.text
                               /\ a.out[a.last].tag = it.tag
                 THEN [a EXCEPT !.out[a.last].times = @ + 1]
            ELSE [out |-> Append(a.out, it), last |-> Len(a.out) + 1]
    IN FoldLeft(step, start, s).out

FoldInput(chrome) ==
    MergeAdjacentChips(SelectSeq(SuppressEchoedChips(Folded, chrome),
                                 LAMBDA it : it.kind \notin {"sys", "runtime"}))

(***************************************************************************)
(* foldWork: the work of each turn goes behind one disclosure.  A node is  *)
(* an item or a fold of items; `from` and `to` are the work span of a      *)
(* fold, 0 when undated.                                                   *)
(***************************************************************************)
FoldNode(kids, settled, from, to) ==
    [kind |-> "fold", kids |-> kids, settled |-> settled, from |-> from, to |-> to]

IsSystem(it) == it.kind = "chip" /\ it.tag = "system"
Foldable(it) == it.kind = "tool" \/ (it.kind = "chip" /\ it.tag \in {"work", "system"})
Dated(it) == \/ it.kind \in {"assistant", "tool"}
             \/ it.kind = "chip" /\ it.text \in (GoalEcho \ {"goal_paused"}) \cup LimitEcho


\* flush: nothing to fold, or plumbing only (which waits for the next turn's
\* fold), leaves the buffer as it is.
Flush(a, settled, force) ==
    IF \/ a.buf = <<>> /\ ~settled
       \/ /\ ~settled /\ ~force
          /\ \A i \in DOMAIN a.buf : IsSystem(a.buf[i])
    THEN a
    ELSE [a EXCEPT !.out = Append(@, FoldNode(a.buf, settled, a.from, a.to)),
                   !.buf = <<>>, !.from = 0, !.to = 0]

\* Where the live tail begins: after the last human message that has no
\* settled answer yet, while the session works.
TailStart(s, settledKeys, active) ==
    LET users == {i \in DOMAIN s : s[i].kind = "user"}
        last == CHOOSE i \in users : \A j \in users : j <= i
    IN IF active /\ users # {} /\ ~\E i \in last .. Len(s) :
                                      s[i].kind = "assistant" /\ s[i].key \in settledKeys
       THEN last + 1 ELSE Len(s) + 1

\* Mutant: narration folds only when the answer comes right after it.
FinalNext(s, i, settledKeys) ==
    i < Len(s) /\ s[i + 1].kind = "assistant" /\ s[i + 1].key \in settledKeys

FinalAhead(s, i, settledKeys) ==
    \E j \in i + 1 .. Len(s) :
        /\ s[j].kind = "assistant" /\ s[j].key \in settledKeys
        /\ \A k \in i + 1 .. j : s[k].kind # "user"

Buffered(a, it) == [a EXCEPT !.buf = Append(@, it)]
Shown(a, it) == [a EXCEPT !.out = Append(@, it)]

\* The live tail is flat, but for plumbing.
InTail(a, it) == IF IsSystem(it) THEN Buffered(a, it) ELSE Shown(Flush(a, FALSE, TRUE), it)

\* Before it: what opens a turn, settles one, is work of one, or stands between two.
\* `answered` is up after an answer until the next turn is under way.
InTurn(a, it, settled, ahead) ==
    CASE it.kind = "user" ->
           Shown([Flush(a, FALSE, FALSE) EXCEPT !.from = 0, !.to = 0, !.answered = FALSE], it)
      [] it.kind = "assistant" /\ settled ->
           Shown([Flush(a, TRUE, FALSE) EXCEPT !.answered = TRUE], it)
      [] it.kind = "assistant" /\ ~settled /\ ahead ->
           Buffered([a EXCEPT !.answered = FALSE], it)
      [] IsSystem(it) -> Buffered(a, it)
      [] Foldable(it) /\ ~IsSystem(it) /\ (it.kind = "tool" \/ ~a.answered) ->
           Buffered([a EXCEPT !.answered = @ /\ it.kind # "tool"], it)
      [] it.kind = "chip" /\ it.tag = "work" /\ a.answered -> Shown(Flush(a, FALSE, FALSE), it)
      [] OTHER -> Shown([Flush(a, FALSE, FALSE) EXCEPT !.answered = FALSE], it)

FoldWork(s, settledKeys, active) ==
    LET tail == TailStart(s, settledKeys, active)
        start == [out |-> <<>>, buf |-> <<>>, answered |-> FALSE, from |-> 0, to |-> 0]
        date(a, it) == [a EXCEPT !.from = IF @ = 0 THEN it.key ELSE @, !.to = it.key]
        place(a, it, i) ==
            IF i >= tail THEN InTail(a, it)
            ELSE InTurn(a, it, it.key \in settledKeys, FinalAhead(s, i, settledKeys))
        step(a, i) ==
            IF s[i].kind = "turn" THEN date(a, s[i])
            ELSE place(IF Dated(s[i]) THEN date(a, s[i]) ELSE a, s[i], i)
    IN Flush(FoldLeft(step, start, [i \in DOMAIN s |-> i]), FALSE, TRUE).out

(***************************************************************************)
(* foldRuns: the activity rows of an open fold.  Prose and audit wait for  *)
(* the step they introduce; a change of category after prose starts a new  *)
(* row; anything else is a row of its own.                                 *)
(***************************************************************************)
FoldRuns(kids) ==
    LET start == [runs |-> <<>>, cur |-> <<>>, cat |-> "", spoke |-> FALSE, wait |-> <<>>]
        close(a) == [a EXCEPT !.runs = IF a.cur = <<>> THEN @ ELSE Append(@, a.cur),
                              !.cur = <<>>, !.cat = "", !.spoke = FALSE]
        settle(a) == IF a.cur = <<>> THEN a
                     ELSE [a EXCEPT !.cur = @ \o a.wait, !.wait = <<>>]
        spill(a) == IF a.wait = <<>> THEN a
                    ELSE [a EXCEPT !.runs = Append(@, a.wait), !.wait = <<>>]
        claim(a, it) == [a EXCEPT !.cur = (@ \o a.wait) \o <<it>>, !.wait = <<>>,
                                  !.cat = it.tag, !.spoke = FALSE]
        step(a, it) ==
            CASE it.kind = "tool" ->
                   claim(IF a.cur # <<>> /\ a.spoke /\ a.cat # it.tag THEN close(a) ELSE a, it)
              [] it.kind \in {"chip", "assistant"} ->
                   [a EXCEPT !.wait = Append(@, it),
                             !.spoke = @ \/ it.kind = "assistant"]
              [] OTHER -> LET b == spill(close(settle(a)))
                          IN [b EXCEPT !.runs = Append(@, <<it>>)]
    IN spill(close(settle(FoldLeft(step, start, kids)))).runs

(***************************************************************************)
(* One event.  Fold(e) is what every case of foldEvents does; Push adds    *)
(* the item of the event, which the history remembers.                     *)
(***************************************************************************)
NoApproval == [x \in {} |-> ""]

Init ==
    /\ n = 0 /\ items = <<>> /\ toolOf = [a \in Acts |-> 0]
    /\ failures = <<>> /\ anchor = {} /\ approvals = NoApproval
    /\ status = "-" /\ lastType = ""
    /\ phase = "idle" /\ gen = 0 /\ llm = "none"
    /\ running = {} /\ backing = {} /\ again = {} /\ inputs = <<>>
    /\ pushed = {} /\ rerun = FALSE /\ done = {} /\ lastRetry = 0
    /\ retries = 0 /\ asides = 0 /\ bound \in Journals

Fold(e) == /\ n < bound.events /\ n' = n + 1
           /\ lastType' = (IF e \in {"generation_started", "assistant_message"} THEN e ELSE "other")
           /\ status' = StatusAfter(e)
Push(s, it) == /\ items' = Append(s, it)
               /\ pushed' = pushed \cup {[key |-> it.key, kind |-> it.kind]}
NoPush == UNCHANGED <<items, pushed>>

Steady == phase \in {"idle", "ready"} \/ (phase = "said" /\ running = {} /\ again = {})
Quiet == UNCHANGED history
Aside == /\ asides < bound.asides /\ asides' = asides + 1
               /\ UNCHANGED <<rerun, done, lastRetry, retries>>

(***************************************************************************)
(* Inputs.  A retry is journaled only by a session at rest, and re-sends   *)
(* the last human input; the block it supersedes folds into one row, which *)
(* absorbs the row of an earlier retry just above it.                      *)
(***************************************************************************)
LastHuman == IF inputs = <<>> THEN 0 ELSE Last(inputs)
OriginalAt == CHOOSE i \in DOMAIN items : items[i].kind = "user" /\ items[i].key = LastHuman

\* Mutant: the row of an earlier retry stays above the new one.
SupersededBelow ==
    LET at == OriginalAt
    IN [before |-> SubSeq(items, 1, at - 1), block |-> Flat(SubSeq(items, at, Len(items)))]
\* Mutant: the row of an earlier retry is nested instead of opened.
SupersededNested ==
    LET at == OriginalAt
        from == IF at > 1 /\ items[at - 1].kind = "retried" THEN at - 1 ELSE at
    IN [before |-> SubSeq(items, 1, from - 1), block |-> SubSeq(items, from, Len(items))]

Superseded ==
    LET at == OriginalAt
        from == IF at > 1 /\ items[at - 1].kind = "retried" THEN at - 1 ELSE at
    IN [before |-> SubSeq(items, 1, from - 1),
        block |-> Flat(SubSeq(items, from, Len(items)))]

Bubble(kind, msg) == [Item(kind, "", "") EXCEPT !.msg = msg, !.side = SideOf(msg)]
UserItem == Bubble("user", <<"user", Len(inputs) + 1>>)

HumanInput ==
    /\ Steady /\ Len(inputs) < bound.inputs /\ Fold("input_received")
    /\ Push(items, UserItem)
    /\ inputs' = Append(inputs, n + 1) /\ phase' = "ready"
    /\ UNCHANGED <<toolOf, failures, anchor, approvals, gen, llm, running, backing, again>>
    /\ Quiet

RetryInput ==
    /\ phase = "idle" /\ LastHuman # 0 /\ retries < bound.retries /\ Fold("input_received")
    /\ LET row == [Item("retried", "", "") EXCEPT !.kids = Superseded.block]
       IN Push(Append(Superseded.before, row), UserItem)
    /\ failures' = [i \in DOMAIN failures |-> [failures[i] EXCEPT !.recovery = "manual"]]
    /\ inputs' = Append(inputs, n + 1) /\ phase' = "ready"
    /\ retries' = retries + 1 /\ lastRetry' = n + 1
    /\ UNCHANGED <<toolOf, anchor, approvals, gen, llm, running, backing, again,
                   rerun, done, asides>>

\* Team mail is a bubble of another session; an input of a program (a goal's
\* continuation, say) is a runtime row.
OtherInput(kind) ==
    /\ Steady /\ Len(inputs) > 0 /\ Aside /\ Fold("input_received")
    /\ Push(items, Item(kind, "", "")) /\ phase' = "ready"
    /\ UNCHANGED <<toolOf, failures, anchor, approvals, gen, llm, running, backing,
                   again, inputs>>

(***************************************************************************)
(* A generation: started, its model call with the runtime's own retries,   *)
(* the message.  The call is an activity without a card, so its start and  *)
(* completion are sys rows and its failures are notices with a chip.       *)
(***************************************************************************)
GenerationStarted ==
    /\ phase \in {"ready", "said"} /\ Steady /\ Fold("generation_started")
    /\ Push(items, Item("turn", "", ""))
    /\ gen' = gen + 1 /\ phase' = "gen" /\ llm' = "none"
    /\ UNCHANGED <<toolOf, failures, anchor, approvals, running, backing, again, inputs>>
    /\ Quiet

CallStarted ==
    /\ phase = "gen" /\ llm \in {"none", "failed"} /\ Fold("activity_started")
    /\ Push(items, Item("sys", "", "")) /\ llm' = "running"
    /\ UNCHANGED <<toolOf, failures, anchor, approvals, phase, gen, running, backing,
                   again, inputs>>
    /\ Quiet

CallFailed(final) ==
    /\ llm = "running" /\ bound.faults /\ Fold("activity_failed")
    /\ Push(items, Item("chip", "work", "llm_failed"))
    /\ failures' = Append(failures, [seq |-> n + 1, gen |-> gen, final |-> final,
                                     recovery |-> "no"])
    /\ llm' = "failed" /\ phase' = IF final THEN "idle" ELSE "gen"
    /\ UNCHANGED <<toolOf, anchor, approvals, gen, running, backing, again, inputs>>
    /\ Quiet

\* Mutant: a completion recovers only the newest failed attempt of its call.
CallCompletedNewest ==
    /\ llm = "running" /\ Fold("activity_completed")
    /\ Push(items, Item("sys", "", ""))
    /\ failures' = [i \in DOMAIN failures |->
                      IF i = Len(failures) /\ failures[i].gen = gen
                         /\ failures[i].recovery = "no"
                      THEN [failures[i] EXCEPT !.recovery = "automatic"] ELSE failures[i]]
    /\ llm' = "done" /\ done' = done \cup {gen}
    /\ UNCHANGED <<toolOf, anchor, approvals, phase, gen, running, backing, again, inputs,
                   rerun, lastRetry, retries, asides>>

CallCompleted ==
    /\ llm = "running" /\ Fold("activity_completed")
    /\ Push(items, Item("sys", "", ""))
    /\ failures' = [i \in DOMAIN failures |->
                      IF failures[i].gen = gen /\ failures[i].recovery = "no"
                      THEN [failures[i] EXCEPT !.recovery = "automatic"] ELSE failures[i]]
    /\ llm' = "done" /\ done' = done \cup {gen}
    /\ UNCHANGED <<toolOf, anchor, approvals, phase, gen, running, backing, again, inputs,
                   rerun, lastRetry, retries, asides>>

\* A message without text pushes nothing; with calls the turn goes on.
AssistantMessage(text, calls) ==
    /\ phase = "gen" /\ llm = "done" /\ Fold("assistant_message")
    /\ IF text THEN Push(items, Bubble("assistant", <<"assistant", gen>>)) ELSE NoPush
    /\ phase' = (IF calls THEN "said" ELSE "idle") /\ llm' = "none"
    /\ UNCHANGED <<toolOf, failures, anchor, approvals, gen, running, backing, again, inputs>>
    /\ Quiet

\* A barrier precedes the human input it names, and follows the answer.
Barrier(side) ==
    /\ Aside /\ Fold("checkpoint_barrier")
    /\ LET msg == IF side = "before_user" THEN <<"user", Len(inputs) + 1>>
                  ELSE <<"assistant", gen>>
           key == Last(items).key
       IN /\ IF side = "before_user" THEN Steady
             ELSE phase = "idle" /\ lastType = "assistant_message"
                                 /\ items # <<>> /\ Last(items).kind = "assistant"
          /\ anchor' = {b \in anchor : b.msg # msg} \cup {[msg |-> msg, side |-> side]}
          /\ items' = IF side = "before_user" THEN items
                      ELSE Touch(items, key, "side", side)
    /\ UNCHANGED <<toolOf, failures, approvals, runVars, pushed>>

(***************************************************************************)
(* Tools.  An attempt that failed for now, and a replayable tool that was  *)
(* running when the process died, are started again under the same id.     *)
(***************************************************************************)
ToolStarted(a, bg) ==
    /\ Fold("activity_started") /\ (bg => a \notin Replayable)
    /\ \/ phase = "said" /\ toolOf[a] = 0 /\ Quiet
       \/ a \in again /\ ~bg /\ Quiet
       \/ /\ a \in running \cap Replayable /\ ~bg /\ ~rerun /\ bound.faults
          /\ rerun' = TRUE /\ UNCHANGED <<done, lastRetry, retries, asides>>
    /\ Push(items, [Item("tool", Category[a], a) EXCEPT !.st = "running", !.bg = bg])
    /\ toolOf' = [toolOf EXCEPT ![a] = n + 1]
    /\ running' = IF bg THEN running ELSE running \cup {a}
    /\ backing' = IF bg THEN backing \cup {a} ELSE backing
    /\ again' = again \ {a}
    /\ UNCHANGED <<failures, anchor, approvals, phase, gen, llm, inputs>>

ToolBackgrounded(a) ==
    /\ a \in running \ Replayable /\ Fold("activity_backgrounded")
    /\ Push(Touch(items, toolOf[a], "bg", TRUE),
            Item("chip", "work", "backgrounded"))
    /\ running' = running \ {a} /\ backing' = backing \cup {a}
    /\ UNCHANGED <<toolOf, failures, anchor, approvals, phase, gen, llm, again, inputs>>
    /\ Quiet

\* activity_completed, activity_failed and activity_cancelled of a tool; only
\* the wording of its card tells them apart.  A failure may not be final.
ToolEnded(a, retry) ==
    /\ a \in running \cup backing /\ Fold("activity_ended")
    /\ retry => a \in running /\ again = {} /\ bound.faults
    /\ items' = Touch(items, toolOf[a], "st", "ended")
    /\ running' = running \ {a} /\ backing' = backing \ {a}
    /\ again' = IF retry THEN again \cup {a} ELSE again
    /\ UNCHANGED <<toolOf, failures, anchor, approvals, phase, gen, llm, inputs, pushed>>
    /\ Quiet

(***************************************************************************)
(* Waits, approvals, and the events that push one row.                     *)
(***************************************************************************)
Waiting(e) ==
    /\ Aside /\ Fold(e) /\ NoPush
    /\ \/ e = "waiting_input" /\ phase = "idle" /\ status # "waiting: input"
       \/ e = "waiting_approval" /\ \E p \in DOMAIN approvals : approvals[p] = "open"
       \/ e = "waiting_resolved" /\ status = "waiting: approval"
    /\ UNCHANGED <<toolOf, failures, anchor, approvals, runVars>>

ApprovalRequested ==
    /\ phase = "said" /\ Aside /\ Fold("approval_requested") /\ NoPush
    /\ approvals' = approvals @@ (n + 1) :> "open"
    /\ UNCHANGED <<toolOf, failures, anchor, runVars>>

\* An approved call shows itself, so its audit folds; a denial stays in view.
ApprovalResponded(decision) ==
    /\ Fold("approval_responded")
    /\ \E p \in DOMAIN approvals :
         /\ approvals[p] = "open"
         /\ approvals' = [approvals EXCEPT ![p] = decision]
    /\ Push(items, Item("chip", IF decision = "deny" THEN "plain" ELSE "work", decision))
    /\ UNCHANGED <<toolOf, failures, anchor, runVars>>
    /\ Quiet

OneRow(e) ==
    /\ Aside /\ Fold(e) /\ Push(items, OneChip(e))
    /\ UNCHANGED <<toolOf, failures, anchor, approvals, runVars>>

\* An interrupt or a limit ends the turn where it stands.
TurnCut(e) ==
    /\ phase \in {"gen", "said"} /\ running = {} /\ llm # "running"
    /\ Aside /\ Fold(e) /\ Push(items, OneChip(e))
    /\ phase' = "idle" /\ again' = {} /\ llm' = "none"
    /\ UNCHANGED <<toolOf, failures, anchor, approvals, gen, running, backing, inputs>>

\* goal_attached: noted under the last human message when that is its text,
\* a chip of plumbing otherwise.
GoalAttached(noted) ==
    /\ Aside /\ Fold("goal_attached") /\ (noted => LastHuman # 0)
    /\ IF noted THEN NoPush ELSE Push(items, Item("chip", "system", "goal_attached"))
    /\ UNCHANGED <<toolOf, failures, anchor, approvals, runVars>>

Event ==
    \/ HumanInput \/ RetryInput
    \/ \E k \in {"peer", "runtime"} : OtherInput(k)
    \/ GenerationStarted \/ CallStarted \/ CallCompleted
    \/ \E f \in BOOLEAN : CallFailed(f)
    \/ \E t, c \in BOOLEAN : AssistantMessage(t, c)
    \/ \E s \in {"before_user", "after_assistant"} : Barrier(s)
    \/ \E a \in bound.acts, bg \in BOOLEAN : ToolStarted(a, bg)
    \/ \E a \in bound.acts : ToolBackgrounded(a)
    \/ \E a \in bound.acts, r \in BOOLEAN : ToolEnded(a, r)
    \/ \E e \in {"waiting_input", "waiting_approval", "waiting_resolved"} : Waiting(e)
    \/ ApprovalRequested
    \/ \E d \in {"approve", "deny"} : ApprovalResponded(d)
    \/ \E e \in Journaled \ Cuts : OneRow(e)
    \/ \E e \in Journaled \cap Cuts : TurnCut(e)
    \/ \E b \in BOOLEAN : GoalAttached(b)

Next == Event /\ UNCHANGED bound
Spec == Init /\ [][Next]_vars

-----------------------------------------------------------------------------
(***************************************************************************)
(* Properties.                                                             *)
(***************************************************************************)

\* Every variable of the fold has its shape, a retried row holds no other
\* retried row, and an activity points at an item of its own.
TypeOK ==
    /\ bound \in Journals /\ n \in 0 .. bound.events /\ gen \in Nat /\ phase \in {"idle", "ready", "gen", "said"}
    /\ llm \in {"none", "running", "failed", "done"}
    /\ running \cap backing = {} /\ again \cap (running \cup backing) = {}
    /\ \A i \in DOMAIN items :
         /\ items[i].kind \in Kinds /\ items[i].key \in 1 .. n
         /\ \A j \in DOMAIN items[i].kids : items[i].kids[j].kind \in Kinds \ {"retried"}
    /\ \A a \in Acts : toolOf[a] # 0 =>
         \E it \in Range(Flat(items)) : it.key = toolOf[a] /\ it.text = a

Keys(s) == [i \in DOMAIN s |-> s[i].key]

\* A retry folds, it never drops: the thread with its retried rows opened is
\* exactly what the journal pushed, in journal order, each row once, and the
\* rows of a chain of retries are one.
ThreadIsJournal ==
    LET flat == Flat(items)
    IN /\ {[key |-> it.key, kind |-> it.kind] : it \in Range(flat)} = pushed
       /\ \A i, j \in DOMAIN flat : i < j => flat[i].key < flat[j].key
       /\ \A i \in 1 .. Len(items) - 1 :
            ~(items[i].kind = "retried" /\ items[i + 1].kind = "retried")

Chrome == SUBSET {"goal", "limit"}
SettledKeys == {d.key : d \in Durations(items, Active)}
Nodes(chrome) == LET in == FoldInput(chrome)
                     settled == SettledKeys
                     active == Active
                 IN FoldWork(in, settled, active)
Opened(nodes) == FlattenSeq([i \in DOMAIN nodes |->
                     IF nodes[i].kind = "fold" THEN nodes[i].kids ELSE <<nodes[i]>>])
Prose(s) == SelectSeq(s, LAMBDA it : it.kind # "turn" /\ ~IsSystem(it))
Plumbing(s) == SelectSeq(s, IsSystem)

\* Whatever the chrome says for the thread, folding neither loses, doubles nor
\* reorders what the reader is shown; plumbing may move to the next turn's
\* fold, but is never dropped and never a row of its own in the thread; and
\* the activity rows of a fold are its children again, in order.
FoldKeepsAll ==
    \A chrome \in Chrome :
      LET in == FoldInput(chrome)
          nodes == Nodes(chrome)
      IN /\ Keys(Prose(Opened(nodes))) = Keys(Prose(in))
         /\ Keys(Plumbing(Opened(nodes))) = Keys(Plumbing(in))
         /\ \A i \in DOMAIN nodes :
              IF nodes[i].kind = "fold"
              THEN FlattenSeq(FoldRuns(nodes[i].kids)) = nodes[i].kids
              ELSE ~IsSystem(nodes[i])

\* Of two tools of a fold with no other between them: the agent spoke between
\* them and turned to another kind of work; they stand in one activity row.
Turned(kids, i, j) ==
    /\ kids[i].tag # kids[j].tag
    /\ \E k \in i + 1 .. j - 1 : kids[k].kind = "assistant"
InOneRow(kids, i, j) ==
    \E run \in Range(FoldRuns(kids)) : {kids[i], kids[j]} \subseteq Range(run)
Neighbours(kids) ==
    {p \in (DOMAIN kids) \X (DOMAIN kids) :
        /\ p[1] < p[2] /\ kids[p[1]].kind = "tool" /\ kids[p[2]].kind = "tool"
        /\ \A k \in p[1] + 1 .. p[2] - 1 : kids[k].kind # "tool"}

\* A settled turn is one fold: between a human message and the answer that
\* settled it, when nothing but work and narration happened, the reader finds
\* one fold and nothing else; and in a fold the activity rows part exactly
\* where the agent spoke and then turned to another kind of work.
OneTurnOneFold ==
    LET nodes == Nodes({})
        in == FoldInput({})
        settled == SettledKeys
        plain(i, j) == \A k \in i + 1 .. j - 1 :
                         in[k].kind \in {"turn", "tool", "assistant"} \/ Foldable(in[k])
        at(key) == CHOOSE i \in DOMAIN nodes : nodes[i].kind \notin {"fold", "retried"} /\ nodes[i].key = key
    IN /\ \A i, j \in DOMAIN in :
            /\ i < j /\ in[i].kind = "user" /\ in[j].kind = "assistant"
            /\ in[j].key \in settled
            /\ \A k \in i + 1 .. j - 1 : in[k].key \notin settled
            /\ plain(i, j)
            => at(in[j].key) = at(in[i].key) + 2 /\ nodes[at(in[j].key) - 1].settled
       /\ \A f \in DOMAIN nodes : nodes[f].kind = "fold" =>
            \A p \in Neighbours(nodes[f].kids) :
              InOneRow(nodes[f].kids, p[1], p[2]) <=> ~Turned(nodes[f].kids, p[1], p[2])

\* The time the thread claims is real: no two measured turns overlap, a fold's
\* span starts after the human message above it, and spans of folds follow
\* one another.
SpansAreReal ==
    LET nodes == Nodes({})
        ds == Durations(items, Active)
        folds == {i \in DOMAIN nodes : nodes[i].kind = "fold" /\ nodes[i].from # 0}
    IN /\ \A d, e \in ds : d # e => d.key < e.from \/ e.key < d.from
       /\ \A i \in folds :
            /\ nodes[i].from <= nodes[i].to
            /\ \A j \in folds : i < j => nodes[i].to < nodes[j].from
            /\ \A j \in 1 .. i - 1 : nodes[j].kind = "user" => nodes[j].key < nodes[i].from

\* The folds of the thread are the turns of the session, told whole and dated.
FoldsAreTurns == FoldKeepsAll /\ OneTurnOneFold /\ SpansAreReal

\* The failure the page raises is the one that stands: when the last model
\* call gave up, it is that one; no failure stands whose call completed after
\* all, or which the user has retried past.
FailureStands ==
    /\ phase = "idle" /\ llm = "failed" =>
         Failure.seq # 0 /\ Failure.final /\ Failure.gen = gen
    /\ \A i \in Standing : failures[i].gen \notin done /\ failures[i].seq > lastRetry

\* A session that runs a foreground tool reads as active, and one that reads
\* as active is mid-work, as long as no crash made a tool start twice.
ActiveCovers ==
    /\ running # {} => Active
    /\ Active /\ ~rerun => running # {} \/ phase = "gen"

\* The thread is right about what it says of the session: ActiveCovers,
\* FailureStands, and a message is a place to continue from exactly when a
\* barrier names it, whichever of the two the journal holds first.
ThreadIsTruthful ==
    /\ ActiveCovers /\ FailureStands
    /\ \A it \in Range(Flat(items)) : it.msg # <<>> => it.side = SideOf(it.msg)

\* "active = the session is genuinely mid-work: a tool is still running, or a
\* generation step was just started" (timeline.ts, Folded.active).
ActiveIsMidWork == Active => running # {} \/ phase = "gen"
=============================================================================
