---------------------------- MODULE SessionInbox ----------------------------
(***************************************************************************)
(* How an accepted command reaches the conversation of one session: the    *)
(* durable mailbox, the daemon's hub (pumpCommands and its channels), the  *)
(* tree router's peer channel, and the loop that journals what it takes    *)
(* out (internal/agent/conversation.go, Resume's mailbox replay).          *)
(*                                                                          *)
(* A command is a model value whose content the cast gives; it is          *)
(* carried through queues by its sequence number, its place in the mailbox  *)
(* (CommandLog shows when sequences are dense and unique).  `journal`     *)
(* keeps the facts that settle commands; `mark` and `waiting` are folds of   *)
(* it.  They survive a crash with `log`; every queue is memory.             *)
(***************************************************************************)
EXTENDS Integers, Sequences, FiniteSets, Functions

CONSTANTS Casts,       \* the commands senders may send, with what they are
          InboxCap,    \* capacities of the channels
          PeerCap,
          WordCap,     \* ... of revokes, promotes and answers
          MaxSteps,    \* generations of a turn, max_generation_steps
          MaxCrashes   \* bound: crashes and teardowns of the host

Kind == {"input", "revoke", "promote", "answer"}
Channel == {"inbox", "peer", "revokes", "promotes", "answers"}

(* A cast is a record: "kindOf" gives each command its kind, "targetOf" what *)
(* a revoke or a promote names; "steer" are inputs delivered in steer mode,  *)
(* "peer" inputs another tree member sends through the router, "vetoed"      *)
(* inputs a user_prompt_submit hook blocks.  "asks" bounds the questions the *)
(* model asks.                                                               *)
ASSUME SessionInboxAssumption ==
  /\ \A k \in Casts :
       LET cmd == DOMAIN k.kindOf IN
         /\ k.kindOf \in [cmd -> Kind] /\ k.targetOf \in [cmd -> cmd]
         /\ k.steer \subseteq cmd /\ k.vetoed \subseteq cmd
         /\ k.peer \subseteq {c \in cmd : k.kindOf[c] = "input"}
         /\ k.asks \in Nat
  /\ MaxSteps \in Nat /\ MaxCrashes \in Nat

VARIABLES
  log,               \* inbox.jsonl: accepted commands, in sequence
  journal, mark,     \* what was settled and how; ConsumedInputSeq
  waiting, asks,     \* the park; questions asked so far
  pc,                \* where the host of the session stands
  armed,             \* the hub has been given the pending commands
  hub, chan,         \* the hub's queue, and the channels to the loop
  deferred, flush,   \* ds.deferredInputs; inputs being journaled right now
  replay, upto,      \* Resume's mailbox replay, and how much of log it read
  revoked,           \* revokedTargets
  steps, crashes,
  cast               \* who sends what; it never changes

durables == <<log, journal, mark, waiting, asks>>
queues == <<hub, chan, deferred, flush, replay, upto, revoked>>
vars == <<log, journal, mark, waiting, asks, pc, armed, hub, chan, deferred,
          flush, replay, upto, revoked, steps, crashes, cast>>

Cmd      == DOMAIN cast.kindOf
KindOf   == cast.kindOf
TargetOf == cast.targetOf
Steer    == cast.steer
FromPeer == cast.peer
Vetoed   == cast.vetoed
MaxAsks  == cast.asks

Fact == [kind : {"received", "revoked", "rejected", "answered"}, cmd : Cmd,
         seq : Nat]
Empty == [q \in Channel |-> <<>>]

Init ==
  /\ cast \in Casts
  /\ log = <<>> /\ journal = <<>> /\ mark = 0 /\ waiting = "none" /\ asks = 0
  /\ pc = "turn" /\ armed = TRUE
  /\ hub = <<>> /\ chan = Empty /\ deferred = <<>> /\ flush = <<>>
  /\ replay = <<>> /\ upto = 0 /\ revoked = {} /\ steps = 0 /\ crashes = 0

IsKind(i, kind) == KindOf[log[i]] = kind
Targets(seqs) == {TargetOf[log[i]] : i \in seqs}
\* Mutant: one past the end.
SeqsFrom_PastEnd(lo) == [k \in 1..(Len(log) - lo + 1) |-> lo + k]
SeqsFrom(lo) == [k \in 1..(Len(log) - lo) |-> lo + k]
Settled == {f.cmd : f \in Range(journal)}
Higher(i) == IF i > mark THEN i ELSE mark
Record(kind, i) ==
  journal' = Append(journal, [kind |-> kind, cmd |-> log[i], seq |-> i])

-----------------------------------------------------------------------------
(* Senders: the daemon's handlers and TreeRouter.Send                       *)

\* The command is persisted and, under the same commandMu, queued on the hub;
\* a session without a live hub keeps it in the mailbox only.
Send(c) ==
  /\ c \notin Range(log) \cup FromPeer
  /\ pc # "down" => armed
  /\ KindOf[c] \in {"revoke", "promote"} => TargetOf[c] \in Range(log)
  /\ log' = Append(log, c)
  /\ hub' = IF pc = "down" THEN hub ELSE Append(hub, Len(log) + 1)
  /\ UNCHANGED <<journal, mark, waiting, asks, pc, armed, chan, deferred, flush,
                 replay, upto, revoked, steps, crashes>>

\* A tree member's message is persisted, then offered to the port of a driving
\* loop without blocking: a full port, or none, drops the wake.
PeerSend(c) ==
  /\ c \in FromPeer \ Range(log)
  /\ log' = Append(log, c)
  /\ chan' = IF pc \notin {"down", "replay"} /\ Len(chan["peer"]) < PeerCap
             THEN [chan EXCEPT !["peer"] = Append(@, Len(log) + 1)] ELSE chan
  /\ UNCHANGED <<journal, mark, waiting, asks, pc, armed, hub, deferred, flush,
                 replay, upto, revoked, steps, crashes>>

\* pumpCommands: one goroutine moves the head of the queue to its channel.
ChannelOf(i) ==
  CASE IsKind(i, "input") -> "inbox" [] IsKind(i, "revoke") -> "revokes"
    [] IsKind(i, "promote") -> "promotes" [] IsKind(i, "answer") -> "answers"
Cap(q) == CASE q = "inbox" -> InboxCap [] q = "peer" -> PeerCap [] OTHER -> WordCap

Pump ==
  /\ hub # <<>>
  /\ LET q == ChannelOf(Head(hub))
     IN Len(chan[q]) < Cap(q) /\ chan' = [chan EXCEPT ![q] = Append(@, Head(hub))]
  /\ hub' = Tail(hub)
  /\ UNCHANGED <<durables, pc, armed, deferred, flush, replay, upto, revoked,
                 steps, crashes>>

-----------------------------------------------------------------------------
(* journalInput                                                             *)


\* Mutant: withdrawals still in their channel are not folded in first.
JournalInput_LateRevokes(i, ch) ==
  /\ chan' = ch
  /\ IF i <= mark
     THEN UNCHANGED <<journal, mark, revoked>>
     ELSE /\ revoked' = revoked \ {log[i]}
          /\ Record(IF log[i] \in revoked THEN "revoked" ELSE "received", i)
          /\ mark' = i


\* A sequence at or below the high-water mark is a duplicate and is dropped.
\* Otherwise the withdrawals that have arrived are folded in, and the input is
\* consumed as revoked, vetoed by the hook, or received.  (Forwarding to another
\* member of the tree, and what the input's content becomes, are left out.)
JournalInput(i, ch) ==
  IF i <= mark
  THEN chan' = ch /\ UNCHANGED <<journal, mark, revoked>>
  ELSE LET known == revoked \cup Targets(Range(ch["revokes"]))
           kind == CASE log[i] \in known -> "revoked"
                     [] log[i] \in Vetoed \ known -> "rejected"
                     [] OTHER -> "received"
       IN /\ chan' = [ch EXCEPT !["revokes"] = <<>>]
          /\ revoked' = known \ {log[i]}
          /\ Record(kind, i)
          /\ mark' = i

\* The loop is committed to journaling these inputs, in this order, before it
\* does anything else; each append is a crash point.
JournalNext ==
  /\ flush # <<>>
  /\ JournalInput(Head(flush), chan)
  /\ flush' = Tail(flush)
  /\ UNCHANGED <<log, waiting, asks, pc, armed, hub, deferred, replay, upto,
                 steps, crashes>>

-----------------------------------------------------------------------------
(* The drive loop                                                           *)

At(label) == pc = label /\ flush = <<>>
Goto(label) == pc' = label

Promoted(seqs) ==
  \E i \in seqs, j \in 1..Len(log) :
    IsKind(j, "promote") /\ TargetOf[log[j]] = log[i]


\* drainSteer: what the inbox holds is set aside for the idle, unless one of
\* the inputs is a steer or was promoted: then the whole backlog goes first.
DrainSteer ==
  /\ At("turn")
  /\ LET batch == chan["inbox"]
         steer == \/ \E i \in Range(batch) : log[i] \in Steer
                  \/ Promoted(Range(deferred \o batch))
     IN /\ flush' = IF steer THEN deferred \o batch ELSE <<>>
        /\ deferred' = IF steer THEN <<>> ELSE deferred \o batch
  /\ chan' = [chan EXCEPT !["inbox"] = <<>>, !["promotes"] = <<>>]
  /\ Goto("step")
  /\ UNCHANGED <<durables, armed, hub, replay, upto, revoked, steps, crashes>>

\* One generation, and back to the safe boundary; max_generation_steps bounds
\* a turn.
Generate ==
  /\ At("step") /\ steps < MaxSteps
  /\ steps' = steps + 1 /\ Goto("turn")
  /\ UNCHANGED <<durables, armed, queues, crashes>>

\* The model calls ask_user: the question is parked in the journal.
Ask ==
  /\ At("step") /\ steps < MaxSteps /\ asks < MaxAsks
  /\ asks' = asks + 1 /\ waiting' = "ask" /\ Goto("asking")
  /\ UNCHANGED <<log, journal, mark, armed, queues, steps, crashes>>

\* The turn ends, or is truncated: the loop stands by for input.
EndTurn ==
  /\ At("step")
  /\ waiting' = "input" /\ Goto("idle")
  /\ UNCHANGED <<log, journal, mark, asks, armed, queues, steps, crashes>>

\* Mutant: what was set aside is flushed at a parked question only.
FlushDeferred_AskOnly ==
  /\ At("asking") /\ deferred # <<>>
  /\ flush' = deferred /\ deferred' = <<>>
  /\ UNCHANGED <<durables, pc, armed, hub, chan, replay, upto, revoked, steps,
                 crashes>>

\* flushDeferred, at the idle and at a parked question.
FlushDeferred ==
  /\ At("idle") \/ At("asking")
  /\ deferred # <<>>
  /\ flush' = deferred /\ deferred' = <<>>
  /\ Goto(IF pc = "idle" THEN "drain" ELSE "asking")
  /\ UNCHANGED <<durables, armed, hub, chan, replay, upto, revoked, steps,
                 crashes>>

Take(q) ==
  /\ chan[q] # <<>>
  /\ chan' = [chan EXCEPT ![q] = Tail(@)]

\* awaitInput's select takes an input from either channel, drainQueued goes on
\* taking, in any order, for as long as there is one.
TakeInput(q) ==
  /\ \/ At("idle") /\ deferred = <<>>
     \/ At("drain")
  /\ Take(q) /\ flush' = <<Head(chan[q])>>
  /\ Goto("drain")
  /\ UNCHANGED <<durables, armed, hub, deferred, replay, upto, revoked, steps,
                 crashes>>

\* Nothing is left: the idle is resolved and the next turn starts.
ResolveIdle ==
  /\ At("drain") /\ chan["inbox"] = <<>> /\ chan["peer"] = <<>>
  /\ waiting' = "none" /\ steps' = 0 /\ Goto("turn")
  /\ UNCHANGED <<log, journal, mark, asks, armed, queues, crashes>>

-----------------------------------------------------------------------------
(* awaitAnswer: a parked question                                           *)

Answer(i) ==
  /\ Record("answered", i)
  /\ mark' = Higher(i)
  /\ waiting' = "none"

CanAnswer == At("asking") /\ deferred = <<>>

\* The first input of the inbox answers the question.
AskReply ==
  /\ CanAnswer /\ Take("inbox") /\ Answer(Head(chan["inbox"]))
  /\ Goto("turn")
  /\ UNCHANGED <<log, asks, armed, hub, deferred, flush, replay, upto, revoked,
                 steps, crashes>>

\* So does a structured answer, if it fits the question.
AskAnswered ==
  /\ CanAnswer /\ Take("answers")
  /\ \/ Answer(Head(chan["answers"])) /\ Goto("turn")
     \/ UNCHANGED <<journal, mark, waiting, pc>>
  /\ UNCHANGED <<log, asks, armed, hub, deferred, flush, replay, upto, revoked,
                 steps, crashes>>

\* A tree message is journaled and leaves the question open.
AskPeer ==
  /\ CanAnswer /\ Take("peer") /\ flush' = <<Head(chan["peer"])>>
  /\ UNCHANGED <<durables, pc, armed, hub, deferred, replay, upto, revoked,
                 steps, crashes>>

-----------------------------------------------------------------------------
(* Crash, re-hosting and Resume                                             *)

\* The host dies or is torn down: the queues and the channels are gone.
Crash ==
  /\ pc # "down" /\ crashes < MaxCrashes /\ crashes' = crashes + 1
  /\ Goto("down") /\ armed' = FALSE
  /\ hub' = <<>> /\ chan' = Empty /\ deferred' = <<>> /\ flush' = <<>>
  /\ replay' = <<>> /\ upto' = 0 /\ revoked' = {}
  /\ UNCHANGED <<durables, steps>>

\* hostResume starts Resume, which reads the mailbox past the mark.
Host ==
  /\ pc = "down" /\ Goto("replay")
  /\ replay' = SeqsFrom(mark) /\ upto' = Len(log)
  /\ UNCHANGED <<durables, armed, hub, chan, deferred, flush, revoked, steps,
                 crashes>>

\* pendingCommands: inputs past the mark, and every command for which no fact
\* of the listed types carries its id: withdrawals, promotions and answers
\* leave none.
PendingCommand(i) == IsKind(i, "input") => i > mark

\* Beside it, replayPendingCommands hands the hub what is pending; commandMu
\* keeps new commands out meanwhile.
Ascending(S) ==
  {s \in [1..Cardinality(S) -> S] :
     Range(s) = S /\ \A i, j \in DOMAIN s : i < j => s[i] < s[j]}
ReplayPending ==
  /\ pc # "down" /\ ~armed /\ armed' = TRUE
  /\ \E s \in Ascending({i \in 1..Len(log) : PendingCommand(i)}) :
       hub' = hub \o s
  /\ UNCHANGED <<durables, pc, chan, deferred, flush, replay, upto, revoked,
                 steps, crashes>>

ReplayRevoked ==
  Targets({i \in (1..upto) : IsKind(i, "revoke")})

\* One command of the replay: a withdrawn input is consumed as revoked, a
\* parked question takes the first input or answer, other inputs are journaled.
ReplayNext ==
  /\ pc = "replay" /\ replay # <<>> /\ replay' = Tail(replay)
  /\ LET i == Head(replay)
     IN \/ /\ IsKind(i, "input") /\ log[i] \in ReplayRevoked
           /\ Record("revoked", i) /\ mark' = Higher(i)
           /\ UNCHANGED <<waiting, chan, revoked>>
        \/ /\ IsKind(i, "input") /\ log[i] \notin ReplayRevoked
           /\ waiting = "ask" /\ Answer(i)
           /\ UNCHANGED <<chan, revoked>>
        \/ /\ IsKind(i, "input") /\ log[i] \notin ReplayRevoked
           /\ waiting # "ask" /\ JournalInput(i, chan)
           /\ UNCHANGED waiting
        \/ /\ IsKind(i, "answer") /\ waiting = "ask" /\ Answer(i)
           /\ UNCHANGED <<chan, revoked>>
        \/ /\ ~IsKind(i, "input")
           /\ UNCHANGED <<journal, mark, waiting, chan, revoked>>
  /\ UNCHANGED <<log, asks, pc, armed, hub, deferred, flush, upto, steps,
                 crashes>>

\* The drive loop starts where the fold says the session stood; an idle that
\* was resolved in all but name is resolved now.
ReplayDone ==
  /\ pc = "replay" /\ replay = <<>>
  /\ \/ waiting = "none" /\ Goto("turn") /\ UNCHANGED <<waiting, steps>>
     \/ waiting = "ask" /\ Goto("asking") /\ UNCHANGED <<waiting, steps>>
     \/ waiting = "input" /\ Goto("idle") /\ UNCHANGED <<waiting, steps>>
     \/ waiting = "input" /\ Goto("turn") /\ waiting' = "none" /\ steps' = 0
  /\ UNCHANGED <<log, journal, mark, asks, armed, queues, crashes>>

LoopStep ==
  \/ JournalNext \/ DrainSteer \/ Generate \/ Ask \/ EndTurn \/ FlushDeferred
  \/ \E q \in {"inbox", "peer"} : TakeInput(q)
  \/ ResolveIdle \/ AskReply \/ AskAnswered \/ AskPeer \/ ReplayNext \/ ReplayDone
HostStep == Host \/ ReplayPending

Step ==
  \/ \E c \in Cmd : Send(c) \/ PeerSend(c)
  \/ Pump \/ LoopStep \/ HostStep \/ Crash

Next == Step /\ UNCHANGED cast

Spec == Init /\ [][Next]_vars

-----------------------------------------------------------------------------
(* Properties                                                               *)

TypeOK ==
  /\ log \in Seq(Cmd) /\ journal \in Seq(Fact)
  /\ mark \in 0..Len(log) /\ waiting \in {"none", "input", "ask"}
  /\ pc \in {"turn", "step", "idle", "drain", "asking", "down", "replay"}
  /\ armed \in BOOLEAN
  /\ chan \in [Channel -> Seq(Nat)]
  /\ \A s \in {hub, deferred, flush, replay} \cup Range(chan) :
       s \in Seq(Nat) /\ Range(s) \subseteq 1..Len(log)
  /\ revoked \subseteq Cmd /\ upto \in 0..Len(log)
  /\ asks \in 0..MaxAsks /\ steps \in 0..MaxSteps /\ crashes \in 0..MaxCrashes

\* An accepted input is settled in the journal or still ahead of the high-water
\* mark, where a resume replays it: a crash does not lose an input, and nor
\* does the order in which the loop takes inputs (journalInput, drainSteer).
NoneSwallowed ==
  \A i \in 1..Len(log) :
    IsKind(i, "input") /\ i <= mark => log[i] \in Settled

\* A command takes effect at most once, though a re-hosted session gets it from
\* the replay and from its hub ("seq dedup = effectively once").
EffectivelyOnce ==
  \A j, k \in DOMAIN journal : journal[j].cmd = journal[k].cmd => j = k

\* What is settled is behind the mark, so that no resume replays it.
SettledBehindMark == \A f \in Range(journal) : f.seq <= mark

\* A withdrawal that reached the loop before its input did is honoured: the
\* input neither enters the conversation nor answers a question
\* (drainRevokes, Resume's mailbox replay).
WithdrawnStaysOut ==
  \A j \in DOMAIN journal' \ DOMAIN journal :
    journal'[j].kind \in {"received", "answered"} =>
      /\ journal'[j].cmd \notin revoked \cup Targets(Range(chan["revokes"]))
      /\ pc = "replay" => journal'[j].cmd \notin ReplayRevoked

\* What the loop journals it settles, once and for good.  Whatever the kinds, a
\* settled command is behind the mark.  An accepted input is not skipped,
\* unless tree messages or structured answers overtake it; none is used twice,
\* unless questions take inputs as well (the README says what happens then).
OneChannel(k) ==
  k.peer = {} /\ \A c \in DOMAIN k.kindOf : k.kindOf[c] # "answer"
SettlesRight ==
  /\ SettledBehindMark
  /\ OneChannel(cast) => NoneSwallowed
  /\ MaxAsks = 0 => EffectivelyOnce

\* Every accepted input is settled in the end, through crashes and re-hosting.
\* A question, a tree message or a structured answer may stand in its way; and
\* so may, for as long as nothing else reaches the loop, a side channel that is
\* full: the one pump waits to put a withdrawal or a promotion there, with the
\* input behind it in its queue (the README says what happens then).
Plain(k) == OneChannel(k) /\ k.asks = 0
Awaited == UNION {{c \in DOMAIN k.kindOf : k.kindOf[c] = "input"} :
                  k \in {k \in Casts : Plain(k)}}
Owed(c) == Plain(cast) /\ c \in Range(log) /\ KindOf[c] = "input"
BehindFullSide(c) ==
  /\ \E i \in Range(hub) : log[i] = c
  /\ ChannelOf(Head(hub)) \in {"revokes", "promotes"}
  /\ Len(chan[ChannelOf(Head(hub))]) = WordCap
EveryInputSettled ==
  \A c \in Awaited : Owed(c) ~> (c \in Settled \/ []BehindFullSide(c))
=============================================================================
