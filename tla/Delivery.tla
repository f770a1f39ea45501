------------------------------ MODULE Delivery ------------------------------
(***************************************************************************)
(* The delivery of commands to one session, in its two halves: what the    *)
(* loop and its hub do with accepted commands (SessionInbox), and how the  *)
(* daemon keeps a loop running for them (Hosting).  A behaviour moves in   *)
(* one half: each abstracts the other (Hosting's loop settles what it      *)
(* knows, SessionInbox's host is up or down).                              *)
(***************************************************************************)
EXTENDS SessionInbox

CONSTANTS Input, Close, Slots, MaxRestarts   \* those of Hosting
ASSUME HostingAssumption == Slots \in Nat \ {0} /\ MaxRestarts \in Nat

VARIABLES accepted, handled, closed, daemon, failed, run, registered, hubOf,
          client, waiters, sweep, restarts
host == <<accepted, handled, closed, daemon, failed, run, registered, hubOf,
          client, waiters, sweep, restarts>>
Daemon == INSTANCE Hosting

VARIABLE half
everything == <<vars, host, half>>

DeliveryInit ==
  /\ Init /\ Daemon!Init /\ half \in {"inbox", "hosting"}
  /\ half = "hosting" => cast = CHOOSE k \in Casts : TRUE
OnInbox(step) == half = "inbox" /\ step /\ UNCHANGED <<host, half>>
OnHost(step) == half = "hosting" /\ step /\ UNCHANGED <<vars, half>>
DeliveryNext == OnInbox(Next) \/ OnHost(Daemon!Next)
DeliverySpec == DeliveryInit /\ [][DeliveryNext]_everything

\* The pump and the loop are goroutines that run whenever they can, and the
\* daemon hosts a session with pending input again (boot sweep, teardown).
Fair(step) == OnInbox(step /\ UNCHANGED cast)
FairDelivery ==
  /\ DeliverySpec
  /\ WF_everything(Fair(Pump)) /\ WF_everything(Fair(LoopStep))
  /\ WF_everything(Fair(HostStep))
  /\ WF_everything(OnHost(Daemon!Handler))
  /\ WF_everything(OnHost(Daemon!Settle))
  /\ WF_everything(OnHost(Daemon!Background))
  /\ WF_everything(OnHost(Daemon!CancelledLoop))

-----------------------------------------------------------------------------
\* The variables of both halves have their types.
DeliveryTypeOK == TypeOK /\ Daemon!TypeOK

\* What the loop journals it settles right, and no input withdrawn in time is
\* received; one loop works at a time, and a session with an accepted input is
\* not left unhosted.
InputsSettleRight ==
  [][/\ SettlesRight' /\ (MaxAsks = 0 => WithdrawnStaysOut)
     /\ (Daemon!OneLoop /\ Daemon!InputIsHosted)']_everything

\* Every accepted input is settled in the end, through crashes and re-hosting;
\* the daemon's shutdown ends, and a session that cannot be resumed is given up.
InputsSettle ==
  /\ EveryInputSettled
  /\ Daemon!ShutdownEnds
  /\ Daemon!NoRetryStorm
=============================================================================
