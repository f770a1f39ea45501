------------------------------ MODULE Hosting -------------------------------
(***************************************************************************)
(* The daemon as the host of one session (internal/daemon/daemon.go and     *)
(* timers.go): the registry of running hubs, handlers that look a hub up    *)
(* and post to it later, the goroutine that runs a loop and tears its hub   *)
(* down, the checks that host a session again, shutdown, crash and boot.    *)
(*                                                                          *)
(* What a loop does with a command is in SessionInbox; here it settles one  *)
(* it knows.  `accepted`, `handled` and `closed` are durable (the mailbox   *)
(* and folds of the journal).  A section under commandMu is one step.  No   *)
(* mark keeps a root from being hosted: only a killed child has one.        *)
(***************************************************************************)
EXTENDS Integers, FiniteSets

CONSTANTS Input,      \* commands that are inputs
          Close,      \* commands that are close controls
          Slots,      \* bound: hubs that are referred to at one time
          MaxRestarts \* bound: crashes and shutdowns of the daemon

Command == Input \cup Close
Slot == 1..Slots
NoSlot == 0
Phase == {"none", "live", "ended", "finished", "checking", "hosting"}

VARIABLES
  accepted, handled, \* commands in the mailbox; settled by the journal
  closed,            \* the journal ends with a close mark
  daemon,            \* "up", "cancelled" (ctx is done), "stopping", "down"
  failed,            \* the session is in Server.failed
  run,               \* [Slot -> hub and its goroutine]
  registered,        \* Server.runs[id], or NoSlot
  hubOf,             \* [Input -> the hub its handler found], while it has one
  client,            \* [Input -> "idle", "host" or "post"]: handleSend
  waiters,           \* hubs whose end a reviveAcceptedAfter waits for
  sweep,             \* the boot sweeps: "scan", "host", "done"
  restarts

durable == <<accepted, handled, closed>>
memory == <<daemon, failed, run, registered, hubOf, client, waiters, sweep>>
vars == <<durable, memory, restarts>>

Fresh == [phase |-> "none", resumed |-> FALSE, knows |-> {}]

\* A session that was submitted to this daemon (handleRun) is live.
Init ==
  /\ accepted = {} /\ handled = {} /\ closed = FALSE
  /\ daemon = "up" /\ failed = FALSE
  /\ registered = 1
  /\ run = [s \in Slot |->
              IF s = registered THEN [Fresh EXCEPT !.phase = "live"] ELSE Fresh]
  /\ hubOf = [c \in Input |-> NoSlot] /\ client = [c \in Input |-> "idle"]
  /\ waiters = {} /\ sweep = "done" /\ restarts = 0

Pending == accepted \ handled
Posting(s) == run[s].phase \in {"live", "ended"}   \* ~hub.done

-----------------------------------------------------------------------------
(* Hosting                                                                  *)

Free(r) == {s \in Slot : /\ r[s].phase = "none" /\ s \notin waiters
                         /\ \A c \in Input : hubOf[c] # s}

Refused == daemon = "stopping" \/ registered # NoSlot

\* hostResume, where the hubs are r: a new hub is given the pending commands,
\* which Resume reads too.
HostIn(r, known) ==
  IF Refused
  THEN run' = r /\ UNCHANGED registered
  ELSE \E s \in Free(r) :
         /\ \A t \in Free(r) : s <= t
         /\ registered' = s
         /\ run' = [r EXCEPT ![s] = [phase |-> "live", resumed |-> TRUE,
                                     knows |-> known]]
Host == HostIn(run, Pending)

Running == daemon # "down"
Serving == daemon \in {"up", "cancelled"}   \* handlers are still started

-----------------------------------------------------------------------------
(* handleSend, and acceptAndDeliver for a control                           *)

\* handleSend looks the hub up; without one, an earlier failed resume is
\* forgotten and the session is hosted.
Lookup(c) ==
  /\ Serving /\ client[c] = "idle" /\ c \notin accepted
  /\ IF registered # NoSlot
     THEN /\ client' = [client EXCEPT ![c] = "post"]
          /\ hubOf' = [hubOf EXCEPT ![c] = registered] /\ UNCHANGED failed
     ELSE /\ client' = [client EXCEPT ![c] = "host"]
          /\ failed' = FALSE /\ UNCHANGED hubOf
  /\ UNCHANGED <<durable, daemon, run, registered, waiters, sweep, restarts>>

\* The second lookup refuses the input when nothing is hosted.
HostAndLookup(c) ==
  /\ Running /\ client[c] = "host"
  /\ Host
  /\ client' = [client EXCEPT ![c] =
                  IF registered' = NoSlot THEN "idle" ELSE "post"]
  /\ hubOf' = [hubOf EXCEPT ![c] = registered']
  /\ UNCHANGED <<durable, daemon, failed, waiters, sweep, restarts>>

\* Mutant: an input that cannot be posted is left to the next hosting.
Deliver_NoRevive(c, s) ==
  /\ run' = IF s # NoSlot /\ Posting(s)
            THEN [run EXCEPT ![s].knows = @ \cup {c}] ELSE run
  /\ UNCHANGED waiters

\* postCommand, and reviveAcceptedAfter when the hub is done.
Deliver(c, s) ==
  IF s # NoSlot /\ Posting(s)
  THEN run' = [run EXCEPT ![s].knows = @ \cup {c}] /\ UNCHANGED waiters
  ELSE waiters' = waiters \cup {s} /\ UNCHANGED run

\* The input is persisted and posted under commandMu, to the hub found before.
Post(c) ==
  /\ Running /\ client[c] = "post"
  /\ accepted' = accepted \cup {c}
  /\ Deliver(c, hubOf[c])
  /\ client' = [client EXCEPT ![c] = "idle"]
  /\ hubOf' = [hubOf EXCEPT ![c] = NoSlot]
  /\ UNCHANGED <<handled, closed, daemon, failed, registered, sweep, restarts>>

\* A control is persisted, its session hosted and it is posted, all under
\* commandMu; hosting replays the mailbox it is in.
Control(c) ==
  /\ Serving /\ c \notin accepted
  /\ accepted' = accepted \cup {c}
  /\ IF registered # NoSlot
     THEN Deliver(c, registered) /\ UNCHANGED <<failed, registered>>
     ELSE /\ failed' = FALSE /\ HostIn(run, Pending \cup {c})
          /\ waiters' = waiters \cup ({registered'} \cap {NoSlot})
  /\ UNCHANGED <<handled, closed, daemon, hubOf, client, sweep, restarts>>

\* The hub an acknowledged input could not be posted to is gone.
Revive(s) ==
  /\ Running /\ s \in waiters /\ (registered = NoSlot \/ registered # s)
  /\ waiters' = waiters \ {s}
  /\ Host
  /\ UNCHANGED <<durable, daemon, failed, hubOf, client, sweep, restarts>>

ReviveCancelled(s) ==
  /\ daemon \in {"cancelled", "stopping"} /\ s \in waiters
  /\ waiters' = waiters \ {s}
  /\ UNCHANGED <<durable, daemon, failed, run, registered, hubOf, client, sweep,
                 restarts>>

-----------------------------------------------------------------------------
(* The goroutine of a hub                                                   *)

To(s, phase) == run' = [run EXCEPT ![s].phase = phase]
Ends(s) == run' = [run EXCEPT ![s].phase = "ended", ![s].knows = {}]

\* The loop settles a command it knows; the turn an input starts lifts the
\* close mark, a close ends the loop with pending inputs or without.
Handle(s, c) ==
  /\ run[s].phase = "live" /\ c \in run[s].knows \cap Pending
  /\ handled' = handled \cup {c}
  /\ closed' = (c \in Close)
  /\ IF c \in Close THEN Ends(s) ELSE UNCHANGED run
  /\ UNCHANGED <<accepted, daemon, failed, registered, hubOf, client, waiters,
                 sweep, restarts>>

\* Resume returns an error: it cannot open the session, a turn failed for good,
\* a user stopped it (a mark in the journal), or the daemon's ctx is done.
Break(s) ==
  /\ run[s].phase = "live" /\ Ends(s)
  /\ failed' = (failed \/ run[s].resumed)
  /\ \/ UNCHANGED closed
     \/ closed' = TRUE /\ daemon = "up"
  /\ UNCHANGED <<accepted, handled, daemon, registered, hubOf, client, waiters,
                 sweep, restarts>>

\* hub.finish: the hub takes no more posts, the pump has stopped.
Finish(s) ==
  /\ run[s].phase = "ended" /\ To(s, "finished")
  /\ UNCHANGED <<durable, daemon, failed, registered, hubOf, client, waiters,
                 sweep, restarts>>

Deregister(s) ==
  /\ run[s].phase = "finished" /\ To(s, "checking")
  /\ registered' = NoSlot
  /\ UNCHANGED <<durable, daemon, failed, hubOf, client, waiters, sweep,
                 restarts>>

\* Mutant: a failed resume is tried again.
MayRehost_Failed == daemon = "up" /\ Pending \cap Input # {}

\* rehostIfPendingInput
MayRehost == daemon = "up" /\ ~failed /\ Pending \cap Input # {}
Check(s) ==
  /\ run[s].phase = "checking"
  /\ IF MayRehost THEN To(s, "hosting") ELSE run' = [run EXCEPT ![s] = Fresh]
  /\ UNCHANGED <<durable, daemon, failed, registered, hubOf, client, waiters,
                 sweep, restarts>>

\* Rehosting, if nobody was faster; runsWG.Done.
Rehost(s) ==
  /\ run[s].phase = "hosting"
  /\ HostIn([run EXCEPT ![s] = Fresh], Pending)
  /\ UNCHANGED <<durable, daemon, failed, hubOf, client, waiters, sweep,
                 restarts>>

-----------------------------------------------------------------------------
(* Timers, boot, shutdown and crash                                         *)

\* sweepTimers: the timer of an idle session is due; a failed one is skipped.
TimerDue ==
  /\ daemon \in {"up", "cancelled"} /\ ~closed /\ ~failed
  /\ Host
  /\ UNCHANGED <<durable, daemon, failed, hubOf, client, waiters, sweep,
                 restarts>>

\* The boot sweeps scan once: for pending commands, and for sessions whose
\* host died in a turn (which may have left none).
Scan ==
  /\ Running /\ sweep = "scan"
  /\ \/ sweep' = "host" /\ (Pending # {} \/ ~closed)
     \/ sweep' = "done" /\ Pending = {}
  /\ UNCHANGED <<durable, daemon, failed, run, registered, hubOf, client,
                 waiters, restarts>>

SweepHost ==
  /\ Running /\ sweep = "host" /\ sweep' = "done"
  /\ Host
  /\ UNCHANGED <<durable, daemon, failed, hubOf, client, waiters, restarts>>

Gone ==
  /\ daemon' = "down" /\ failed' = FALSE /\ registered' = NoSlot
  /\ run' = [s \in Slot |-> Fresh]
  /\ hubOf' = [c \in Input |-> NoSlot] /\ client' = [c \in Input |-> "idle"]
  /\ waiters' = {} /\ sweep' = "scan"
  /\ UNCHANGED durable

Crash ==
  /\ Running /\ restarts < MaxRestarts /\ restarts' = restarts + 1
  /\ Gone

\* ListenAndServe: the context is done; the listener closes and `stopping` is
\* set; it returns when the hosts (runsWG) and the handlers (wg) are.
Cancel ==
  /\ daemon = "up" /\ restarts < MaxRestarts /\ restarts' = restarts + 1
  /\ daemon' = "cancelled"
  /\ UNCHANGED <<durable, failed, run, registered, hubOf, client, waiters,
                 sweep>>

Stopping ==
  /\ daemon = "cancelled" /\ daemon' = "stopping"
  /\ UNCHANGED <<durable, failed, run, registered, hubOf, client, waiters,
                 sweep, restarts>>

Exit ==
  /\ daemon = "stopping" /\ \A s \in Slot : run[s].phase = "none"
  /\ \A c \in Input : client[c] = "idle"
  /\ Gone /\ UNCHANGED restarts

Boot ==
  /\ daemon = "down" /\ daemon' = "up"
  /\ UNCHANGED <<durable, failed, run, registered, hubOf, client, waiters,
                 sweep, restarts>>

-----------------------------------------------------------------------------
Handler == \E c \in Input : HostAndLookup(c) \/ Post(c)
Settle == \E s \in Slot, c \in Command : Handle(s, c)
Teardown(s) == Finish(s) \/ Deregister(s) \/ Check(s) \/ Rehost(s)
Background ==
  \/ \E s \in Slot : Teardown(s)
  \/ \E s \in Slot \cup {NoSlot} : Revive(s)
  \/ Scan \/ SweepHost \/ Stopping \/ Exit \/ Boot

Next ==
  \/ \E c \in Input : Lookup(c)
  \/ \E c \in Close : Control(c)
  \/ Handler \/ Settle \/ Background
  \/ \E s \in Slot : Break(s)
  \/ \E s \in Slot \cup {NoSlot} : ReviveCancelled(s)
  \/ TimerDue \/ Crash \/ Cancel

Spec == Init /\ [][Next]_vars

\* Handlers, hosts, waiters and sweeps are goroutines; a live loop takes what
\* it was given, and ends once the daemon's context is done.
CancelledLoop ==
  daemon \in {"cancelled", "stopping"} /\ \E s \in Slot : Break(s)
FairSpec ==
  /\ Spec
  /\ WF_vars(Handler) /\ WF_vars(Settle) /\ WF_vars(Background)
  /\ WF_vars(CancelledLoop)

-----------------------------------------------------------------------------
(* Properties                                                               *)

TypeOK ==
  /\ handled \subseteq accepted /\ accepted \subseteq Command
  /\ closed \in BOOLEAN
  /\ daemon \in {"up", "cancelled", "stopping", "down"} /\ failed \in BOOLEAN
  /\ run \in [Slot ->
                [phase : Phase, resumed : BOOLEAN, knows : SUBSET Command]]
  /\ registered \in Slot \cup {NoSlot}
  /\ hubOf \in [Input -> Slot \cup {NoSlot}]
  /\ client \in [Input -> {"idle", "host", "post"}]
  /\ waiters \subseteq Slot \cup {NoSlot}
  /\ sweep \in {"scan", "host", "done"} /\ restarts \in 0..MaxRestarts

\* One loop works on the session at a time, whoever hosts it: the loop that
\* runs, or has not yet let go of the journal, is the one in the registry
\* (hostResumeCommandLocked, handleRun).
OneLoop ==
  \A s \in Slot :
    run[s].phase \in {"live", "ended", "finished"} <=> s = registered

\* An accepted input is never left in a session that nobody hosts: in a daemon
\* that stays up, after no failed resume, a loop is live, or a teardown, a
\* waiter, a handler or a sweep is still to look for it (rehostIfPendingInput,
\* reviveAcceptedAfter).
StillToLook ==
  \/ \E s \in Slot :
       run[s].phase \in {"ended", "finished", "checking", "hosting"}
  \/ waiters # {} \/ sweep # "done"
  \/ \E d \in Input : client[d] = "host"
Live == \E s \in Slot : run[s].phase = "live"
Watched == daemon = "up" /\ ~failed
InputIsHosted == Watched /\ Pending \cap Input # {} => Live \/ StillToLook

\* More: the loop that is live knows of it ("A user's message must simply become
\* the next turn", rehostIfPendingInput).
InputHasKeeper ==
  Watched => \A c \in Pending \cap Input :
               \/ \E s \in Slot : c \in run[s].knows
               \/ StillToLook

\* A shutdown ends: nothing is hosted again and again while it waits.
ShutdownEnds == daemon = "cancelled" ~> daemon = "down"

\* A session that cannot be resumed is not hosted for ever: the automatic
\* paths stop at the first failure (sweepTimers, rehostIfPendingInput).
NoRetryStorm == <>[][registered' \in {registered, NoSlot}]_vars
=============================================================================
