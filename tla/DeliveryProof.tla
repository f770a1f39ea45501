--------------------------- MODULE DeliveryProof ---------------------------
(***************************************************************************)
(* Commands are settled right, whoever sends whichever: the types of        *)
(* Delivery, and InputsSettleRight, for every set of casts, all capacities, *)
(* bounds and numbers of crashes.                                          *)
(*                                                                         *)
(* The daemon's half comes first.  One loop works on a session at a time,  *)
(* and a session with an accepted input is not left unhosted, for any      *)
(* number of commands, hubs and restarts: OneLoop and InputIsHosted are    *)
(* inductive, given the types and that a daemon that is down will scan     *)
(* when it boots.                                                          *)
(***************************************************************************)
EXTENDS Delivery, SequenceTheorems, FiniteSetTheorems, TLAPS

-----------------------------------------------------------------------------
(* The daemon: one loop at a time, no accepted input left unhosted           *)

\* A daemon that boots looks for pending commands (Server.ListenAndServe).
WillScan == daemon = "down" => sweep = "scan"
HostInv ==
  Daemon!TypeOK /\ Daemon!OneLoop /\ Daemon!InputIsHosted /\ WillScan

Hub == [phase : Daemon!Phase, resumed : BOOLEAN, knows : SUBSET Daemon!Command]
Working == {"live", "ended", "finished"}

LEMMA NoHub == Daemon!NoSlot \notin Daemon!Slot /\ 1 \in Daemon!Slot
BY HostingAssumption DEF Daemon!Slot, Daemon!NoSlot

LEMMA FreshHub == Daemon!Fresh \in Hub /\ Daemon!Fresh.phase = "none"
BY DEF Daemon!Fresh, Hub, Daemon!Phase

LEMMA HostInit == Daemon!Init => HostInv
<1>. SUFFICES ASSUME Daemon!Init PROVE HostInv
  OBVIOUS
<1>. USE NoHub, FreshHub
<1>1. registered = 1
  BY DEF Daemon!Init
<1>2. \A s \in Daemon!Slot :
        /\ run[s] \in Hub
        /\ run[s].phase = IF s = 1 THEN "live" ELSE "none"
  BY <1>1 DEF Daemon!Init, Daemon!Fresh, Hub, Daemon!Phase
<1>3. run \in [Daemon!Slot -> Hub]
  BY <1>2 DEF Daemon!Init
<1>4. restarts \in 0..MaxRestarts
  BY HostingAssumption DEF Daemon!Init
<1>5. Daemon!TypeOK
  BY <1>3, <1>4, <1>1 DEF Daemon!TypeOK, Daemon!Init, Hub, Daemon!Command
<1>6. Daemon!OneLoop
  BY <1>1, <1>2 DEF Daemon!OneLoop
<1>7. Daemon!InputIsHosted /\ WillScan
  BY DEF Daemon!Init, Daemon!InputIsHosted, Daemon!Pending, WillScan
<1>. QED  BY <1>5, <1>6, <1>7 DEF HostInv

\* Hosting where the hubs are r, with no working hub but the registered one:
\* either it is refused, or one more hub works and is the registered one.
LEMMA Hosting ==
  ASSUME NEW r \in [Daemon!Slot -> Hub], NEW known \in SUBSET Daemon!Command,
         registered \in Daemon!Slot \cup {Daemon!NoSlot},
         \A s \in Daemon!Slot : r[s].phase \in Working <=> s = registered,
         Daemon!HostIn(r, known)
  PROVE  /\ run' \in [Daemon!Slot -> Hub]
         /\ registered' \in Daemon!Slot \cup {Daemon!NoSlot}
         /\ \A s \in Daemon!Slot : run'[s].phase \in Working <=> s = registered'
         /\ registered' # Daemon!NoSlot
              \/ (registered' = registered /\ daemon = "stopping")
         /\ \/ registered' = registered /\ run' = r
            \/ run'[registered'].phase = "live"
<1>1. CASE Daemon!Refused
  BY <1>1 DEF Daemon!HostIn, Daemon!Refused
<1>2. CASE ~Daemon!Refused
  <2>1. PICK s \in Daemon!Free(r) :
          /\ registered' = s
          /\ run' = [r EXCEPT ![s] = [phase |-> "live", resumed |-> TRUE,
                                      knows |-> known]]
    BY <1>2 DEF Daemon!HostIn
  <2>2. s \in Daemon!Slot /\ r[s].phase = "none"
    BY <2>1 DEF Daemon!Free
  <2>3. registered = Daemon!NoSlot
    BY <1>2 DEF Daemon!Refused
  <2>4. /\ run' \in [Daemon!Slot -> Hub] /\ run'[s].phase = "live"
        /\ \A t \in Daemon!Slot \ {s} : run'[t] = r[t]
    BY <2>1, <2>2 DEF Hub, Daemon!Phase
  <2>5. \A t \in Daemon!Slot : run'[t].phase \in Working <=> t = s
    BY <2>3, <2>4, NoHub DEF Working
  <2>. QED  BY <2>1, <2>2, <2>4, <2>5, NoHub
<1>. QED  BY <1>1, <1>2

\* The hubs of the session: one works, the registered one.
Hubs == /\ run \in [Daemon!Slot -> Hub]
        /\ registered \in Daemon!Slot \cup {Daemon!NoSlot}
        /\ \A s \in Daemon!Slot : run[s].phase \in Working <=> s = registered

LEMMA HubsAre == Hubs <=> /\ run \in [Daemon!Slot -> Hub]
                          /\ registered \in Daemon!Slot \cup {Daemon!NoSlot}
                          /\ Daemon!OneLoop
BY DEF Hubs, Daemon!OneLoop, Working

\* The steps that host: of handlers, waiters, the boot sweep, timers, teardown.
Hosts == \/ \E c \in Input : Daemon!HostAndLookup(c)
         \/ \E s \in Daemon!Slot : Daemon!Rehost(s)
         \/ \E s \in Daemon!Slot \cup {Daemon!NoSlot} : Daemon!Revive(s)
         \/ Daemon!SweepHost \/ Daemon!TimerDue
\* ... and a control, that may host.
Controls == \E c \in Close : Daemon!Control(c)
\* The steps that leave the hubs be, but for what they know.
Leaves == \/ \E c \in Input : Daemon!Lookup(c) \/ Daemon!Post(c)
          \/ \E s \in Daemon!Slot \cup {Daemon!NoSlot} : Daemon!ReviveCancelled(s)
          \/ Daemon!Scan \/ Daemon!Stopping \/ Daemon!Boot \/ Daemon!Cancel
\* The steps of the goroutine of a hub.
Runs == \/ \E s \in Daemon!Slot : Daemon!Finish(s) \/ Daemon!Deregister(s)
                                  \/ Daemon!Check(s) \/ Daemon!Break(s)
        \/ Daemon!Settle
\* The daemon is gone.
Goes == Daemon!Crash \/ Daemon!Exit

LEMMA Steps == Daemon!Next => Hosts \/ Controls \/ Leaves \/ Runs \/ Goes
BY DEF Daemon!Next, Daemon!Handler, Daemon!Background, Daemon!Teardown, Hosts,
   Controls, Leaves, Runs, Goes

LEMMA HostingKeeps ==
  ASSUME Daemon!TypeOK, Hubs, Hosts \/ Controls
  PROVE  /\ Hubs'
         /\ registered' = Daemon!NoSlot => daemon' = "stopping"
<1>. USE NoHub, FreshHub DEF Working
<1>0. Daemon!Pending \in SUBSET Daemon!Command
  BY DEF Daemon!TypeOK, Daemon!Pending
<1>00. daemon' = daemon
  BY DEF Hosts, Controls, Daemon!HostAndLookup, Daemon!Rehost, Daemon!Revive,
     Daemon!SweepHost, Daemon!TimerDue, Daemon!Control
<1>1. CASE Hosts
  <2>1. CASE \E s \in Daemon!Slot : Daemon!Rehost(s)
    <3>. PICK s \in Daemon!Slot : Daemon!Rehost(s)
      BY <2>1
    <3>. DEFINE r == [run EXCEPT ![s] = Daemon!Fresh]
    <3>1. r \in [Daemon!Slot -> Hub] /\ Daemon!HostIn(r, Daemon!Pending)
      BY DEF Hubs, Daemon!Rehost
    <3>2. \A t \in Daemon!Slot : r[t].phase \in Working <=> t = registered
      BY DEF Hubs, Daemon!Rehost
    <3>. HIDE DEF r
    <3>. QED  BY <3>1, <3>2, <1>0, <1>00, Hosting DEF Hubs
  <2>2. CASE ~\E s \in Daemon!Slot : Daemon!Rehost(s)
    <3>1. Daemon!HostIn(run, Daemon!Pending)
      BY <1>1, <2>2 DEF Hosts, Daemon!HostAndLookup, Daemon!Revive,
         Daemon!SweepHost, Daemon!TimerDue, Daemon!Host
    <3>. QED  BY <3>1, <1>0, <1>00, Hosting DEF Hubs
  <2>. QED  BY <2>1, <2>2
<1>2. CASE Controls
  <2>. PICK c \in Close : Daemon!Control(c)
    BY <1>2 DEF Controls
  <2>1. CASE registered # Daemon!NoSlot
    BY <2>1 DEF Daemon!Control, Daemon!Deliver, Hubs, Hub, Daemon!Command
  <2>2. CASE registered = Daemon!NoSlot
    <3>1. Daemon!HostIn(run, Daemon!Pending \cup {c})
      BY <2>2 DEF Daemon!Control
    <3>2. Daemon!Pending \cup {c} \in SUBSET Daemon!Command
      BY <1>0 DEF Daemon!Command
    <3>. QED  BY <3>1, <3>2, <1>00, Hosting DEF Hubs
  <2>. QED  BY <2>1, <2>2
<1>. QED  BY <1>1, <1>2

LEMMA HubsStay ==
  ASSUME Daemon!TypeOK, Hubs, Daemon!Next
  PROVE  Hubs'
<1>. USE NoHub, FreshHub DEF Working
<1>1. CASE Hosts \/ Controls
  BY <1>1, HostingKeeps
<1>3. CASE Leaves
  <2>1. CASE \E c \in Input : Daemon!Post(c)
    <3>. PICK c \in Input : Daemon!Post(c)
      BY <2>1
    <3>1. hubOf[c] \in Daemon!Slot \cup {Daemon!NoSlot} /\ c \in Daemon!Command
      BY DEF Daemon!TypeOK, Daemon!Command
    <3>. QED  BY <3>1 DEF Daemon!Post, Daemon!Deliver, Hubs, Hub
  <2>2. CASE ~\E c \in Input : Daemon!Post(c)
    <3>1. run' = run /\ registered' = registered
      BY <1>3, <2>2 DEF Leaves, Daemon!Lookup, Daemon!ReviveCancelled,
         Daemon!Scan, Daemon!Stopping, Daemon!Boot, Daemon!Cancel
    <3>. QED  BY <3>1 DEF Hubs
  <2>. QED  BY <2>1, <2>2
<1>4. CASE Runs
  <2>1. CASE \E s \in Daemon!Slot : Daemon!Finish(s)
    BY <2>1 DEF Daemon!Finish, Daemon!To, Hubs, Hub, Daemon!Phase
  <2>2. CASE \E s \in Daemon!Slot : Daemon!Deregister(s)
    BY <2>2 DEF Daemon!Deregister, Daemon!To, Hubs, Hub, Daemon!Phase
  <2>3. CASE \E s \in Daemon!Slot : Daemon!Check(s)
    BY <2>3 DEF Daemon!Check, Daemon!To, Hubs, Hub, Daemon!Phase
  <2>4. CASE \E s \in Daemon!Slot : Daemon!Break(s)
    <3>. PICK s \in Daemon!Slot : Daemon!Break(s)
      BY <2>4
    <3>1. /\ run[s].phase = "live" /\ registered' = registered
          /\ run' = [run EXCEPT ![s].phase = "ended", ![s].knows = {}]
      BY DEF Daemon!Break, Daemon!Ends
    <3>. QED  BY <3>1 DEF Hubs, Hub, Daemon!Phase
  <2>5. CASE Daemon!Settle
    BY <2>5 DEF Daemon!Settle, Daemon!Handle, Daemon!Ends, Hubs, Hub,
       Daemon!Phase
  <2>. QED  BY <1>4, <2>1, <2>2, <2>3, <2>4, <2>5 DEF Runs
<1>5. CASE Goes
  BY <1>5 DEF Goes, Daemon!Crash, Daemon!Exit, Daemon!Gone, Hubs
<1>. QED  BY <1>1, <1>3, <1>4, <1>5, Steps

\* The types of the variables Hubs does not speak of.
Others ==
  /\ handled \subseteq accepted /\ accepted \subseteq Daemon!Command
  /\ daemon \in {"up", "cancelled", "stopping", "down"}
  /\ hubOf \in [Input -> Daemon!Slot \cup {Daemon!NoSlot}]
  /\ client \in [Input -> {"idle", "host", "post"}]
  /\ waiters \subseteq Daemon!Slot \cup {Daemon!NoSlot}
  /\ sweep \in {"scan", "host", "done"} /\ restarts \in 0..MaxRestarts

Switches == closed \in BOOLEAN /\ failed \in BOOLEAN

LEMMA TypesAre == Hubs => (Daemon!TypeOK <=> Others /\ Switches)
BY DEF Hubs, Hub, Others, Switches, Daemon!TypeOK

LEMMA SwitchesStay ==
  ASSUME Switches, Daemon!Next
  PROVE  Switches'
<1>. USE DEF Switches
<1>1. CASE Hosts \/ Controls
  BY <1>1, Zenon DEF Hosts, Controls, Daemon!HostAndLookup, Daemon!Rehost,
     Daemon!Revive, Daemon!SweepHost, Daemon!TimerDue, Daemon!Control,
     Daemon!durable
<1>2. CASE Leaves
  BY <1>2, Zenon DEF Leaves, Daemon!Lookup, Daemon!Post,
     Daemon!ReviveCancelled, Daemon!Scan, Daemon!Stopping, Daemon!Boot,
     Daemon!Cancel, Daemon!durable
<1>3. CASE Runs
  <2>1. CASE Daemon!Settle
    <3>. PICK s \in Daemon!Slot, c \in Daemon!Command : Daemon!Handle(s, c)
      BY <2>1 DEF Daemon!Settle
    <3>1. closed' = (c \in Close) /\ failed' = failed
      BY Zenon DEF Daemon!Handle
    <3>2. closed' = TRUE \/ closed' = FALSE
      BY <3>1, SMT
    <3>. QED  BY <3>1, <3>2, Zenon
  <2>2. CASE \E s \in Daemon!Slot : Daemon!Break(s)
    <3>. PICK s \in Daemon!Slot : Daemon!Break(s)
      BY <2>2
    <3>1. /\ failed' = (failed \/ run[s].resumed)
          /\ closed' = closed \/ closed' = TRUE
      BY Zenon DEF Daemon!Break
    <3>2. failed' = TRUE \/ failed' = FALSE
      BY <3>1, SMT
    <3>. QED  BY <3>1, <3>2, Zenon
  <2>. QED  BY <1>3, <2>1, <2>2, Zenon DEF Runs, Daemon!Finish,
            Daemon!Deregister, Daemon!Check, Daemon!durable
<1>4. CASE Goes
  BY <1>4, Zenon DEF Goes, Daemon!Crash, Daemon!Exit, Daemon!Gone,
     Daemon!durable
<1>. QED  BY <1>1, <1>2, <1>3, <1>4, Steps

LEMMA OthersStay ==
  ASSUME Others, Hubs, Hubs', Daemon!Next
  PROVE  Others'
<1>. USE NoHub DEF Others
<1>1. CASE Hosts
  <2>1. CASE \E c \in Input : Daemon!HostAndLookup(c)
    BY <2>1 DEF Daemon!HostAndLookup, Daemon!durable, Hubs
  <2>2. CASE \E s \in Daemon!Slot \cup {Daemon!NoSlot} : Daemon!Revive(s)
    BY <2>2 DEF Daemon!Revive, Daemon!durable
  <2>3. CASE \E s \in Daemon!Slot : Daemon!Rehost(s)
    BY <2>3 DEF Daemon!Rehost, Daemon!durable
  <2>4. CASE Daemon!SweepHost \/ Daemon!TimerDue
    BY <2>4 DEF Daemon!SweepHost, Daemon!TimerDue, Daemon!durable
  <2>. QED  BY <1>1, <2>1, <2>2, <2>3, <2>4 DEF Hosts
<1>2. CASE Controls
  <2>. PICK c \in Close : Daemon!Control(c)
    BY <1>2 DEF Controls
  <2>1. c \in Daemon!Command
    BY DEF Daemon!Command
  <2>2. waiters' \subseteq Daemon!Slot \cup {Daemon!NoSlot}
    BY DEF Daemon!Control, Daemon!Deliver, Hubs
  <2>. QED  BY <2>1, <2>2 DEF Daemon!Control
<1>3. CASE Leaves
  <2>1. CASE \E c \in Input : Daemon!Post(c)
    BY <2>1 DEF Daemon!Post, Daemon!Deliver, Daemon!Command
  <2>2. CASE \E c \in Input : Daemon!Lookup(c)
    BY <2>2 DEF Daemon!Lookup, Daemon!durable, Hubs
  <2>3. CASE \E s \in Daemon!Slot \cup {Daemon!NoSlot} : Daemon!ReviveCancelled(s)
    BY <2>3 DEF Daemon!ReviveCancelled, Daemon!durable
  <2>4. CASE Daemon!Scan \/ Daemon!Stopping \/ Daemon!Boot
    BY <2>4 DEF Daemon!Scan, Daemon!Stopping, Daemon!Boot, Daemon!durable
  <2>5. CASE Daemon!Cancel
    BY <2>5, HostingAssumption DEF Daemon!Cancel, Daemon!durable
  <2>. QED  BY <1>3, <2>1, <2>2, <2>3, <2>4, <2>5 DEF Leaves
<1>4. CASE Runs
  <2>1. CASE Daemon!Settle
    BY <2>1 DEF Daemon!Settle, Daemon!Handle, Daemon!Pending
  <2>. QED  BY <1>4, <2>1 DEF Runs, Daemon!Finish, Daemon!Deregister,
            Daemon!Check, Daemon!Break, Daemon!durable
<1>5. CASE Goes
  BY <1>5, HostingAssumption DEF Goes, Daemon!Crash, Daemon!Exit, Daemon!Gone,
     Daemon!durable
<1>. QED  BY <1>1, <1>2, <1>3, <1>4, <1>5, Steps

LEMMA ScansStay ==
  ASSUME Others, WillScan, Daemon!Next
  PROVE  WillScan'
<1>. USE DEF WillScan
<1>1. CASE Hosts \/ Controls
  BY <1>1 DEF Hosts, Controls, Daemon!HostAndLookup, Daemon!Rehost,
     Daemon!Revive, Daemon!SweepHost, Daemon!TimerDue, Daemon!Control,
     Daemon!Running
<1>2. CASE Leaves
  BY <1>2 DEF Leaves, Daemon!Lookup, Daemon!Post, Daemon!ReviveCancelled,
     Daemon!Scan, Daemon!Stopping, Daemon!Boot, Daemon!Cancel, Daemon!Running
<1>3. CASE Runs \/ Goes
  BY <1>3 DEF Runs, Goes, Daemon!Finish, Daemon!Deregister, Daemon!Check,
     Daemon!Break, Daemon!Settle, Daemon!Handle, Daemon!Crash, Daemon!Exit,
     Daemon!Gone
<1>. QED  BY <1>1, <1>2, <1>3, Steps

\* The session stays hosted while an input waits, or somebody is to look.
LEMMA HostedStays ==
  ASSUME Daemon!TypeOK, Hubs, Hubs', Others, WillScan, Daemon!Next
  PROVE  Daemon!InputIsHosted'
<1>. SUFFICES ASSUME daemon' = "up", ~failed', (Daemon!Pending \cap Input # {})'
              PROVE  (Daemon!Live \/ Daemon!StillToLook)'
  BY DEF Daemon!InputIsHosted, Daemon!Watched
<1>1. CASE registered' # Daemon!NoSlot
  <2>1. registered' \in Daemon!Slot /\ run'[registered'].phase \in Working
    BY <1>1 DEF Hubs
  <2>. QED  BY <2>1 DEF Daemon!Live, Daemon!StillToLook, Working
<1>2. CASE registered' = Daemon!NoSlot
  <2>1. CASE Hosts \/ Controls
    BY <1>2, <2>1, HostingKeeps DEF Hubs
  <2>2. CASE Leaves
    <3>1. CASE \E c \in Input : Daemon!Post(c)
      <4>. PICK c \in Input : Daemon!Post(c)
        BY <3>1
      <4>1. hubOf[c] \in Daemon!Slot => run[hubOf[c]].phase \notin Working
        BY <1>2, NoHub DEF Daemon!Post, Hubs
      <4>2. waiters' # {}
        BY <4>1 DEF Daemon!Post, Daemon!Deliver, Daemon!Posting, Others, Working
      <4>. QED  BY <4>2 DEF Daemon!StillToLook
    <3>2. CASE \E c \in Input : Daemon!Lookup(c)
      BY <3>2, <1>2 DEF Daemon!Lookup, Daemon!StillToLook, Others
    <3>3. CASE Daemon!Boot
      BY <3>3 DEF Daemon!Boot, WillScan, Daemon!StillToLook
    <3>4. CASE Daemon!Scan
      BY <3>4 DEF Daemon!Scan, Daemon!durable, Daemon!Pending, Daemon!StillToLook
    <3>. QED  BY <2>2, <3>1, <3>2, <3>3, <3>4 DEF Leaves, Daemon!ReviveCancelled,
              Daemon!Stopping, Daemon!Cancel
  <2>3. CASE Runs
    <3>1. CASE Daemon!Settle
      BY <3>1, <1>2, NoHub DEF Daemon!Settle, Daemon!Handle, Hubs, Working
    <3>2. CASE \E s \in Daemon!Slot : Daemon!Check(s)
      <4>. PICK s \in Daemon!Slot : Daemon!Check(s)
        BY <3>2
      <4>1. Daemon!MayRehost
        BY DEF Daemon!Check, Daemon!MayRehost, Daemon!durable, Daemon!Pending
      <4>2. run'[s].phase = "hosting"
        BY <4>1 DEF Daemon!Check, Daemon!To, Hubs, Hub
      <4>. QED  BY <4>2 DEF Daemon!StillToLook
    <3>3. CASE \E s \in Daemon!Slot : Daemon!Finish(s) \/ Daemon!Deregister(s)
      BY <3>3 DEF Daemon!Finish, Daemon!Deregister, Daemon!To, Hubs, Hub,
         Daemon!StillToLook
    <3>4. CASE \E s \in Daemon!Slot : Daemon!Break(s)
      BY <3>4 DEF Daemon!Break, Daemon!Ends, Hubs, Hub, Daemon!StillToLook
    <3>. QED  BY <2>3, <3>1, <3>2, <3>3, <3>4 DEF Runs
  <2>4. CASE Goes
    BY <2>4 DEF Goes, Daemon!Crash, Daemon!Exit, Daemon!Gone
  <2>. QED  BY <2>1, <2>2, <2>3, <2>4, Steps
<1>. QED  BY <1>1, <1>2

LEMMA HostStay ==
  ASSUME HostInv, [Daemon!Next]_host
  PROVE  HostInv'
<1>1. Hubs /\ Others /\ Switches
  BY HubsAre, TypesAre DEF HostInv, Daemon!TypeOK, Hub
<1>2. CASE Daemon!Next
  <2>1. Hubs' /\ Others' /\ Switches'
    BY <1>1, <1>2, HubsStay, OthersStay, SwitchesStay DEF HostInv
  <2>2. WillScan' /\ Daemon!InputIsHosted'
    BY <1>1, <1>2, <2>1, ScansStay, HostedStays DEF HostInv
  <2>3. Daemon!TypeOK' /\ Daemon!OneLoop'
    BY <2>1 DEF Hubs, Hub, Others, Switches, Daemon!TypeOK, Daemon!OneLoop, Working
  <2>. QED  BY <2>2, <2>3 DEF HostInv
<1>3. CASE UNCHANGED host
  BY <1>3 DEF host, HostInv, WillScan, Daemon!TypeOK, Daemon!OneLoop,
     Daemon!InputIsHosted, Daemon!Watched, Daemon!Pending, Daemon!Live,
     Daemon!StillToLook
<1>. QED  BY <1>2, <1>3

-----------------------------------------------------------------------------
(* Sequences of sequence numbers: their order and what they hold            *)

Ascends(s) == \A i, j \in 1..Len(s) : i < j => s[i] < s[j]
Below(s, t) == \A i \in 1..Len(s), j \in 1..Len(t) : s[i] < t[j]
Has(s, x) == \E i \in 1..Len(s) : s[i] = x

LEMMA EmptyQueue ==
  ASSUME NEW s \in Seq(Nat)
  PROVE  /\ <<>> \in Seq(Nat) /\ Len(<<>>) = 0
         /\ Ascends(<<>>) /\ Below(<<>>, s) /\ Below(s, <<>>)
         /\ \A x : ~Has(<<>>, x)
BY DEF Ascends, Below, Has

LEMMA OneInQueue ==
  ASSUME NEW x \in Nat
  PROVE  /\ <<x>> \in Seq(Nat) /\ Len(<<x>>) = 1 /\ <<x>>[1] = x
         /\ Ascends(<<x>>) /\ Has(<<x>>, x)
BY DEF Ascends, Has

LEMMA TailOfQueue ==
  ASSUME NEW s \in Seq(Nat), s # <<>>
  PROVE  /\ Tail(s) \in Seq(Nat) /\ Len(s) \in Nat /\ Len(Tail(s)) = Len(s) - 1
         /\ Len(s) >= 1 /\ Head(s) = s[1] /\ Head(s) \in Nat
         /\ \A i \in 1..(Len(s) - 1) : Tail(s)[i] = s[i + 1]
OBVIOUS

LEMMA TailOrder ==
  ASSUME NEW s \in Seq(Nat), s # <<>>
  PROVE  /\ Ascends(s) => Ascends(Tail(s)) /\ Below(<<Head(s)>>, Tail(s))
         /\ \A t \in Seq(Nat) :
              /\ Below(s, t) => Below(Tail(s), t) /\ Below(<<Head(s)>>, t)
              /\ Below(t, s) => Below(t, Tail(s)) /\ Below(t, <<Head(s)>>)
         /\ \A x : Has(s, x) => x = Head(s) \/ Has(Tail(s), x)
<1>. USE TailOfQueue
<1>1. Ascends(s) => Ascends(Tail(s)) /\ Below(<<Head(s)>>, Tail(s))
  BY DEF Ascends, Below
<1>2. ASSUME NEW t \in Seq(Nat)
      PROVE  /\ Below(s, t) => Below(Tail(s), t) /\ Below(<<Head(s)>>, t)
             /\ Below(t, s) => Below(t, Tail(s)) /\ Below(t, <<Head(s)>>)
  BY DEF Below
<1>3. ASSUME NEW x, Has(s, x)
      PROVE  x = Head(s) \/ Has(Tail(s), x)
  <2>. PICK i \in 1..Len(s) : s[i] = x
    BY <1>3 DEF Has
  <2>1. i = 1 \/ (i - 1 \in 1..(Len(s) - 1) /\ Tail(s)[i - 1] = s[i])
    OBVIOUS
  <2>. QED  BY <2>1 DEF Has
<1>. QED  BY <1>1, <1>2, <1>3

LEMMA AppendToQueue ==
  ASSUME NEW s \in Seq(Nat), NEW x \in Nat
  PROVE  /\ Append(s, x) \in Seq(Nat) /\ Len(Append(s, x)) = Len(s) + 1
         /\ Len(s) \in Nat
         /\ \A i \in 1..Len(s) : Append(s, x)[i] = s[i]
         /\ Append(s, x)[Len(s) + 1] = x
OBVIOUS

LEMMA AppendOrder ==
  ASSUME NEW s \in Seq(Nat), NEW x \in Nat
  PROVE  /\ Ascends(s) /\ Below(s, <<x>>) => Ascends(Append(s, x))
         /\ \A t \in Seq(Nat) :
              /\ Below(s, t) /\ Below(<<x>>, t) => Below(Append(s, x), t)
              /\ Below(t, s) /\ Below(t, <<x>>) => Below(t, Append(s, x))
         /\ \A y : Has(s, y) \/ y = x => Has(Append(s, x), y)
<1>. USE AppendToQueue
<1>1. Ascends(s) /\ Below(s, <<x>>) => Ascends(Append(s, x))
  BY DEF Ascends, Below
<1>2. ASSUME NEW t \in Seq(Nat)
      PROVE  /\ Below(s, t) /\ Below(<<x>>, t) => Below(Append(s, x), t)
             /\ Below(t, s) /\ Below(t, <<x>>) => Below(t, Append(s, x))
  <2>. DEFINE c == Append(s, x)
  <2>1. /\ \A i \in 1..Len(c) : (i \in 1..Len(s) /\ c[i] = s[i]) \/ c[i] = x
        /\ 1 \in 1..Len(<<x>>) /\ <<x>>[1] = x
    BY OneInQueue
  <2>. HIDE DEF c
  <2>2. Below(s, t) /\ Below(<<x>>, t) => Below(c, t)
    BY <2>1 DEF Below
  <2>3. Below(t, s) /\ Below(t, <<x>>) => Below(t, c)
    BY <2>1 DEF Below
  <2>. QED  BY <2>2, <2>3 DEF c
<1>3. \A y : Has(s, y) \/ y = x => Has(Append(s, x), y)
  BY DEF Has
<1>. QED  BY <1>1, <1>2, <1>3

LEMMA ConcatOrder ==
  ASSUME NEW s \in Seq(Nat), NEW t \in Seq(Nat)
  PROVE  /\ s \o t \in Seq(Nat)
         /\ Ascends(s) /\ Ascends(t) /\ Below(s, t) => Ascends(s \o t)
         /\ \A u \in Seq(Nat) :
              /\ Below(s, u) /\ Below(t, u) => Below(s \o t, u)
              /\ Below(u, s) /\ Below(u, t) => Below(u, s \o t)
         /\ \A x : Has(s, x) \/ Has(t, x) <=> Has(s \o t, x)
<1>. DEFINE c == s \o t
<1>1. /\ c \in Seq(Nat) /\ Len(c) = Len(s) + Len(t)
      /\ Len(s) \in Nat /\ Len(t) \in Nat
      /\ \A i \in 1..Len(s) : c[i] = s[i] /\ i \in 1..Len(c)
      /\ \A i \in 1..Len(t) : c[Len(s) + i] = t[i] /\ Len(s) + i \in 1..Len(c)
      /\ \A i \in 1..Len(c) :
           i \in 1..Len(s) \/ (i - Len(s) \in 1..Len(t) /\ c[i] = t[i - Len(s)])
  BY ConcatProperties, LenProperties
<1>2. \A i \in 1..Len(s) : s[i] \in Nat
  BY ElementOfSeq
<1>3. \A i \in 1..Len(t) : t[i] \in Nat
  BY ElementOfSeq
<1>. HIDE DEF c
<1>4. Ascends(s) /\ Ascends(t) /\ Below(s, t) => Ascends(c)
  <2>. SUFFICES ASSUME Ascends(s), Ascends(t), Below(s, t),
                       NEW i \in 1..Len(c), NEW j \in 1..Len(c), i < j
                PROVE  c[i] < c[j]
    BY DEF Ascends
  <2>1. CASE i \in 1..Len(s) /\ j \in 1..Len(s)
    <3>1. c[i] = s[i] /\ c[j] = s[j]
      BY <2>1, <1>1
    <3>. QED  BY <2>1, <3>1 DEF Ascends
  <2>2. CASE i \in 1..Len(s) /\ j \notin 1..Len(s)
    <3>1. c[i] = s[i] /\ j - Len(s) \in 1..Len(t) /\ c[j] = t[j - Len(s)]
      BY <2>2, <1>1
    <3>. QED  BY <2>2, <3>1 DEF Below
  <2>3. CASE i \notin 1..Len(s)
    <3>1. j \notin 1..Len(s)
      BY <2>3, <1>1
    <3>2. /\ i - Len(s) \in 1..Len(t) /\ c[i] = t[i - Len(s)]
          /\ j - Len(s) \in 1..Len(t) /\ c[j] = t[j - Len(s)]
          /\ i - Len(s) < j - Len(s)
      BY <2>3, <3>1, <1>1
    <3>. QED  BY <3>2 DEF Ascends
  <2>. QED  BY <2>1, <2>2, <2>3
<1>5. ASSUME NEW u \in Seq(Nat)
      PROVE  /\ Below(s, u) /\ Below(t, u) => Below(c, u)
             /\ Below(u, s) /\ Below(u, t) => Below(u, c)
  <2>1. ASSUME Below(s, u), Below(t, u), NEW i \in 1..Len(c), NEW j \in 1..Len(u)
        PROVE  c[i] < u[j]
    <3>1. CASE i \in 1..Len(s)
      BY <3>1, <2>1, <1>1 DEF Below
    <3>2. CASE i \notin 1..Len(s)
      BY <3>2, <2>1, <1>1 DEF Below
    <3>. QED  BY <3>1, <3>2
  <2>2. ASSUME Below(u, s), Below(u, t), NEW i \in 1..Len(c), NEW j \in 1..Len(u)
        PROVE  u[j] < c[i]
    <3>1. CASE i \in 1..Len(s)
      BY <3>1, <2>2, <1>1 DEF Below
    <3>2. CASE i \notin 1..Len(s)
      BY <3>2, <2>2, <1>1 DEF Below
    <3>. QED  BY <3>1, <3>2
  <2>. QED  BY <2>1, <2>2 DEF Below
<1>6. \A x : Has(s, x) \/ Has(t, x) => Has(c, x)
  BY <1>1 DEF Has
<1>7. ASSUME NEW x, Has(c, x)
      PROVE  Has(s, x) \/ Has(t, x)
  <2>. PICK i \in 1..Len(c) : c[i] = x
    BY <1>7 DEF Has
  <2>1. CASE i \in 1..Len(s)
    BY <2>1, <1>1 DEF Has
  <2>2. CASE i \notin 1..Len(s)
    BY <2>2, <1>1 DEF Has
  <2>. QED  BY <2>1, <2>2
<1>. QED  BY <1>1, <1>4, <1>5, <1>6, <1>7 DEF c

-----------------------------------------------------------------------------
(* Types                                                                    *)

\* A queue of places in a mailbox of n commands.
Queue(s, n) == s \in Seq(Nat) /\ \A k \in 1..Len(s) : s[k] \in 1..n

LEMMA Queues ==
  ASSUME NEW n \in Nat
  PROVE  /\ Queue(<<>>, n)
         /\ \A x \in 1..n : Queue(<<x>>, n)
         /\ \A s : Queue(s, n) /\ s # <<>> =>
                     Queue(Tail(s), n) /\ Head(s) \in 1..n
         /\ \A s : \A x \in 1..n : Queue(s, n) => Queue(Append(s, x), n)
         /\ \A s, t : Queue(s, n) /\ Queue(t, n) => Queue(s \o t, n)
         /\ \A s : \A m \in Nat : Queue(s, n) /\ m >= n => Queue(s, m)
<1>1. Queue(<<>>, n) /\ \A x \in 1..n : Queue(<<x>>, n)
  BY DEF Queue
<1>2. ASSUME NEW s, Queue(s, n), s # <<>>
      PROVE  Queue(Tail(s), n) /\ Head(s) \in 1..n
  BY <1>2, TailOfQueue DEF Queue
<1>3. ASSUME NEW s, NEW x \in 1..n, Queue(s, n)
      PROVE  Queue(Append(s, x), n)
  <2>1. x \in Nat /\ s \in Seq(Nat)
    BY <1>3 DEF Queue
  <2>. DEFINE c == Append(s, x)
  <2>2. /\ c \in Seq(Nat)
        /\ \A i \in 1..Len(c) : (i \in 1..Len(s) /\ c[i] = s[i]) \/ c[i] = x
    BY <2>1
  <2>. HIDE DEF c
  <2>3. Queue(c, n)
    BY <1>3, <2>2 DEF Queue
  <2>. QED  BY <2>3 DEF c
<1>4. ASSUME NEW s, NEW t, Queue(s, n), Queue(t, n)
      PROVE  Queue(s \o t, n)
  <2>1. s \in Seq(Nat) /\ t \in Seq(Nat)
    BY <1>4 DEF Queue
  <2>2. \A x : Has(s \o t, x) => Has(s, x) \/ Has(t, x)
    BY <2>1, ConcatOrder
  <2>3. \A k \in 1..Len(s \o t) : Has(s \o t, (s \o t)[k])
    BY DEF Has
  <2>4. \A x : Has(s, x) \/ Has(t, x) => x \in 1..n
    BY <1>4 DEF Has, Queue
  <2>5. s \o t \in Seq(Nat)
    BY <2>1, ConcatOrder
  <2>. QED  BY <2>2, <2>3, <2>4, <2>5 DEF Queue
<1>5. ASSUME NEW s, NEW m \in Nat, Queue(s, n), m >= n
      PROVE  Queue(s, m)
  BY <1>5 DEF Queue
<1>. QED  BY <1>1, <1>2, <1>3, <1>4, <1>5

Logs == /\ log \in Seq(Cmd) /\ journal \in Seq(Fact) /\ mark \in 0..Len(log)
        /\ upto \in 0..Len(log) /\ revoked \subseteq Cmd
Memories ==
  /\ Queue(hub, Len(log)) /\ Queue(deferred, Len(log)) /\ Queue(flush, Len(log))
  /\ Queue(replay, Len(log)) /\ chan \in [Channel -> Seq(Nat)]
  /\ \A q \in Channel : Queue(chan[q], Len(log))
Counts == /\ waiting \in {"none", "input", "ask"}
          /\ pc \in {"turn", "step", "idle", "drain", "asking", "down", "replay"}
          /\ asks \in 0..MaxAsks /\ steps \in 0..MaxSteps
          /\ crashes \in 0..MaxCrashes
          /\ cast \in Casts
Types == Logs /\ Memories /\ Counts /\ armed \in BOOLEAN

LEMMA TypesAreOK == Types => TypeOK
<1>. SUFFICES ASSUME Types PROVE TypeOK
  OBVIOUS
<1>1. \A s : Queue(s, Len(log)) => s \in Seq(Nat) /\ Range(s) \subseteq 1..Len(log)
  BY DEF Queue, Range
<1>2. \A s \in {hub, deferred, flush, replay} \cup Range(chan) :
        Queue(s, Len(log))
  BY DEF Types, Memories, Range
<1>. QED  BY <1>1, <1>2 DEF Types, Logs, Memories, Counts, TypeOK

LEMMA CastIs ==
  ASSUME cast \in Casts
  PROVE  /\ KindOf \in [Cmd -> Kind] /\ TargetOf \in [Cmd -> Cmd]
         /\ MaxAsks \in Nat /\ FromPeer \subseteq Cmd
         /\ MaxSteps \in Nat /\ MaxCrashes \in Nat
BY SessionInboxAssumption DEF KindOf, Cmd, TargetOf, MaxAsks, FromPeer

\* What an input becomes when it is journaled.
LEMMA Journaled ==
  ASSUME Logs, cast \in Casts, NEW i \in 1..Len(log), NEW ch \in [Channel -> Seq(Nat)],
         \A q \in Channel : Queue(ch[q], Len(log)),
         JournalInput(i, ch)
  PROVE  /\ journal' \in Seq(Fact) /\ mark' \in 0..Len(log) /\ revoked' \subseteq Cmd
         /\ chan' \in [Channel -> Seq(Nat)]
         /\ \A q \in Channel : chan'[q] = ch[q] \/ chan'[q] = <<>>
         /\ chan'["inbox"] = ch["inbox"] /\ chan'["peer"] = ch["peer"]
         /\ chan'["answers"] = ch["answers"]
         /\ \/ i <= mark /\ journal' = journal /\ mark' = mark
            \/ /\ i > mark /\ mark' = i
               /\ \E f \in Fact :
                    /\ journal' = Append(journal, f)
                    /\ f.seq = i /\ f.cmd = log[i] /\ f.kind # "answered"
                    /\ f.kind = "received" =>
                         log[i] \notin revoked \cup Targets(Range(ch["revokes"]))
<1>0. log[i] \in Cmd /\ Len(log) \in Nat /\ i \in Nat /\ mark \in Nat
  BY DEF Logs
<1>1. CASE i <= mark
  BY <1>0, <1>1 DEF JournalInput, Logs
<1>2. CASE i > mark
  <2>. DEFINE known == revoked \cup Targets(Range(ch["revokes"]))
              kind == CASE log[i] \in known -> "revoked"
                        [] log[i] \in Vetoed \ known -> "rejected"
                        [] OTHER -> "received"
              f == [kind |-> kind, cmd |-> log[i], seq |-> i]
  <2>1. Targets(Range(ch["revokes"])) \subseteq Cmd
    <3>1. \A k \in Range(ch["revokes"]) : log[k] \in Cmd
      <4>. DEFINE r == ch["revokes"]
      <4>1. r \in Seq(Nat) /\ \A k \in 1..Len(r) : r[k] \in 1..Len(log)
        BY DEF Queue, Channel
      <4>. HIDE DEF r
      <4>2. \A k \in Range(r) : k \in 1..Len(log)
        BY <4>1 DEF Range
      <4>. QED  BY <4>2 DEF r, Logs
    <3>. QED  BY <3>1, CastIs DEF Targets
  <2>2. /\ chan' = [ch EXCEPT !["revokes"] = <<>>]
        /\ revoked' = known \ {log[i]} /\ mark' = i
        /\ journal' = Append(journal, f)
    BY <1>0, <1>2 DEF JournalInput, Record
  <2>3. kind \in {"received", "revoked", "rejected"}
        /\ (kind = "received" => log[i] \notin known)
    <3>. HIDE DEF known
    <3>1. CASE log[i] \in known
      BY <3>1
    <3>2. CASE log[i] \in Vetoed \ known
      BY <3>2
    <3>3. CASE log[i] \notin known /\ log[i] \notin Vetoed
      BY <3>3
    <3>. QED  BY <3>1, <3>2, <3>3
  <2>. HIDE DEF kind
  <2>4. f \in Fact /\ f.seq = i /\ f.cmd = log[i] /\ f.kind = kind
    BY <1>0, <2>3 DEF Fact
  <2>5. revoked' \subseteq Cmd
    BY <2>1, <2>2 DEF Logs
  <2>6. journal' \in Seq(Fact) /\ mark' \in 0..Len(log)
    BY <2>2, <2>4, <1>0 DEF Logs
  <2>7. /\ chan' \in [Channel -> Seq(Nat)]
        /\ \A q \in Channel : chan'[q] = ch[q] \/ chan'[q] = <<>>
        /\ chan'["inbox"] = ch["inbox"] /\ chan'["peer"] = ch["peer"]
        /\ chan'["answers"] = ch["answers"]
    BY <2>2 DEF Channel
  <2>. HIDE DEF f
  <2>. QED  BY <2>2, <2>3, <2>4, <2>5, <2>6, <2>7, <1>2
<1>. QED  BY <1>0, <1>1, <1>2

LEMMA CountsStay ==
  ASSUME Counts, Next
  PROVE  Counts'
<1>. USE CastIs DEF Counts, MaxAsks
<1>0. cast' = cast /\ Step
  BY DEF Next
<1>1. CASE \E c \in Cmd : Send(c) \/ PeerSend(c)
  BY <1>0, <1>1 DEF Send, PeerSend
<1>2. CASE Pump \/ HostStep \/ Crash
  BY <1>0, <1>2 DEF Pump, HostStep, Host, ReplayPending, Crash, durables, Goto
<1>3. CASE LoopStep
  <2>1. CASE JournalNext \/ DrainSteer \/ Generate \/ Ask \/ EndTurn \/ FlushDeferred
    BY <1>0, <2>1 DEF JournalNext, DrainSteer, Generate, Ask, EndTurn,
       FlushDeferred, durables, queues, Goto
  <2>2. CASE \/ \E q \in {"inbox", "peer"} : TakeInput(q)
             \/ ResolveIdle \/ AskReply \/ AskAnswered \/ AskPeer
    BY <1>0, <2>2 DEF TakeInput, ResolveIdle, AskReply, AskAnswered, AskPeer,
       durables, queues, Goto, Answer
  <2>3. CASE ReplayNext
    BY <1>0, <2>3 DEF ReplayNext, Answer
  <2>4. CASE ReplayDone
    BY <1>0, <2>4 DEF ReplayDone, durables, queues, Goto
  <2>. QED  BY <1>3, <2>1, <2>2, <2>3, <2>4 DEF LoopStep
<1>. QED  BY <1>0, <1>1, <1>2, <1>3 DEF Step

LEMMA ArmedStays ==
  ASSUME armed \in BOOLEAN, Next
  PROVE  armed' \in BOOLEAN
<1>1. armed' = armed \/ armed' = TRUE \/ armed' = FALSE
  BY Zenon DEF Next, Step, Send, PeerSend, Pump, HostStep, Host, ReplayPending,
     Crash, LoopStep, JournalNext, DrainSteer, Generate, Ask, EndTurn,
     FlushDeferred, TakeInput, ResolveIdle, AskReply, AskAnswered, AskPeer,
     ReplayNext, ReplayDone, durables, queues
<1>. QED  BY <1>1

\* A fact is recorded of the i-th command, and the mark does not fall.
LEMMA Recorded ==
  ASSUME Logs, NEW i \in 1..Len(log), NEW kind \in {"revoked", "answered"},
         Record(kind, i), mark' = Higher(i)
  PROVE  /\ journal' \in Seq(Fact) /\ mark' \in 0..Len(log)
         /\ \E f \in Fact : /\ journal' = Append(journal, f)
                            /\ f.seq = i /\ f.cmd = log[i] /\ f.kind = kind
<1>0. log[i] \in Cmd /\ Len(log) \in Nat /\ i \in Nat /\ mark \in Nat
  BY DEF Logs
<1>. DEFINE f == [kind |-> kind, cmd |-> log[i], seq |-> i]
<1>1. f \in Fact /\ f.seq = i /\ f.cmd = log[i] /\ f.kind = kind
  BY <1>0 DEF Fact
<1>2. journal' = Append(journal, f)
  BY DEF Record
<1>3. mark' \in 0..Len(log)
  BY <1>0 DEF Higher, Logs
<1>. HIDE DEF f
<1>. QED  BY <1>1, <1>2, <1>3 DEF Logs

\* The i-th command is taken out: a duplicate of what the mark has passed is
\* dropped, or its fact is recorded.
Asked == waiting = "ask" \/ pc = "asking"
Replayed(i) == pc = "replay" /\ replay # <<>> /\ i = Head(replay)
Withdrawn(i) == \/ log[i] \in revoked \cup Targets(Range(chan["revokes"]))
                \/ pc = "replay" /\ flush = <<>> /\ log[i] \in ReplayRevoked
Takes(i) ==
  \/ i <= mark /\ journal' = journal /\ mark' = mark
  \/ /\ mark' = Higher(i)
     /\ \E f \in Fact : /\ journal' = Append(journal, f)
                        /\ f.seq = i /\ f.cmd = log[i]
                        /\ f.kind = "answered" => Asked
                        /\ f.kind = "received" => ~Withdrawn(i)
     /\ i > mark \/ Asked \/ Replayed(i)
Journals(i) ==
  /\ i \in 1..Len(log) /\ Takes(i)
  /\ journal' \in Seq(Fact) /\ mark' \in 0..Len(log) /\ revoked' \subseteq Cmd

\* What a queue holds are places in the mailbox.
LEMMA Held ==
  ASSUME Types
  PROVE  /\ Len(log) \in Nat /\ mark \in Nat /\ upto \in Nat
         /\ \A s : Queue(s, Len(log)) /\ s # <<>> =>
                     Queue(Tail(s), Len(log)) /\ Head(s) \in 1..Len(log)
<1>1. Len(log) \in Nat /\ mark \in Nat /\ upto \in Nat
  BY DEF Types, Logs
<1>. QED  BY <1>1, Queues

LEMMA JournalNextTakes ==
  ASSUME Types, JournalNext
  PROVE  Journals(Head(flush)) /\ chan'["inbox"] = chan["inbox"]
<1>1. Head(flush) \in 1..Len(log) /\ Len(log) \in Nat /\ mark \in Nat
  BY Held DEF JournalNext, Types, Memories
<1>2. JournalInput(Head(flush), chan) /\ flush # <<>>
  BY DEF JournalNext
<1>. DEFINE i == Head(flush)
<1>. HIDE DEF i
<1>3. i \in 1..Len(log) /\ JournalInput(i, chan)
  BY <1>1, <1>2 DEF i
<1>4. Journals(i) /\ chan'["inbox"] = chan["inbox"]
  BY <1>1, <1>2, <1>3, Journaled
     DEF Types, Memories, Counts, Journals, Takes, Higher, Withdrawn
<1>. QED  BY <1>4 DEF i

LEMMA AskTakes ==
  ASSUME Types, NEW q \in {"inbox", "answers"}, At("asking"), Take(q),
         Answer(Head(chan[q])), revoked' = revoked
  PROVE  Journals(Head(chan[q]))
<1>1. Head(chan[q]) \in 1..Len(log) /\ Len(log) \in Nat /\ mark \in Nat
  BY Held DEF Take, Types, Memories, Channel
<1>. DEFINE i == Head(chan[q])
<1>. HIDE DEF i
<1>2. i \in 1..Len(log) /\ Record("answered", i) /\ mark' = Higher(i)
  BY <1>1 DEF Answer, i
<1>3. pc = "asking"
  BY DEF At
<1>4. Journals(i)
  BY <1>2, <1>3, Recorded DEF Types, Journals, Takes, Asked, Logs
<1>. QED  BY <1>4 DEF i

LEMMA ReplayTakes ==
  ASSUME Types, ReplayNext
  PROVE  /\ \/ Journals(Head(replay))
            \/ /\ journal' = journal /\ mark' = mark /\ revoked' = revoked
               /\ ~IsKind(Head(replay), "input")
         /\ chan'["inbox"] = chan["inbox"]
<1>1. Head(replay) \in 1..Len(log) /\ Len(log) \in Nat /\ mark \in Nat
  BY Held DEF ReplayNext, Types, Memories
<1>. DEFINE i == Head(replay)
<1>2. Replayed(i)
  BY DEF ReplayNext, Replayed
<1>3. \/ IsKind(i, "input") /\ Record("revoked", i) /\ mark' = Higher(i)
           /\ UNCHANGED <<chan, revoked>>
      \/ waiting = "ask" /\ Answer(i) /\ UNCHANGED <<chan, revoked>>
      \/ log[i] \notin ReplayRevoked /\ JournalInput(i, chan)
      \/ ~IsKind(i, "input") /\ UNCHANGED <<journal, mark, chan, revoked>>
  BY DEF ReplayNext
<1>. HIDE DEF i
<1>0. i \in 1..Len(log)
  BY <1>1 DEF i
<1>4. CASE IsKind(i, "input") /\ Record("revoked", i) /\ mark' = Higher(i)
             /\ UNCHANGED <<chan, revoked>>
  <2>1. Journals(i)
    BY <1>0, <1>2, <1>4, Recorded DEF Types, Journals, Takes, Logs
  <2>. QED  BY <2>1, <1>4 DEF i
<1>5. CASE waiting = "ask" /\ Answer(i) /\ UNCHANGED <<chan, revoked>>
  <2>1. Journals(i)
    BY <1>0, <1>2, <1>5, Recorded
       DEF Types, Journals, Takes, Logs, Answer, Asked
  <2>. QED  BY <2>1, <1>5 DEF i
<1>6. CASE log[i] \notin ReplayRevoked /\ JournalInput(i, chan)
  <2>1. Journals(i) /\ chan'["inbox"] = chan["inbox"]
    BY <1>0, <1>1, <1>2, <1>6, Journaled
       DEF Types, Memories, Counts, Journals, Takes, Higher, Withdrawn
  <2>. QED  BY <2>1 DEF i
<1>7. CASE ~IsKind(i, "input") /\ UNCHANGED <<journal, mark, chan, revoked>>
  BY <1>7 DEF i
<1>. QED  BY <1>3, <1>4, <1>5, <1>6, <1>7

\* A step journals what it takes from one of four queues, or journals nothing.
Silent == journal' = journal /\ mark' = mark
LEMMA StepJournals ==
  ASSUME Types, Next
  PROVE  \/ Silent
         \/ JournalNext /\ Journals(Head(flush))
         \/ AskReply /\ Journals(Head(chan["inbox"]))
         \/ AskAnswered /\ Journals(Head(chan["answers"]))
         \/ ReplayNext /\ Journals(Head(replay))
<1>. USE DEF Silent
<1>0. Step
  BY DEF Next
<1>1. CASE (\E c \in Cmd : Send(c) \/ PeerSend(c)) \/ Pump \/ HostStep \/ Crash
  BY <1>1 DEF Send, PeerSend, Pump, HostStep, Host, ReplayPending, Crash,
     durables
<1>2. CASE \/ DrainSteer \/ Generate \/ Ask \/ EndTurn \/ FlushDeferred
           \/ \E q \in {"inbox", "peer"} : TakeInput(q)
           \/ ResolveIdle \/ AskPeer \/ ReplayDone
  BY <1>2 DEF DrainSteer, Generate, Ask, EndTurn, FlushDeferred, TakeInput,
     ResolveIdle, AskPeer, ReplayDone, durables
<1>3. CASE JournalNext
  BY <1>3, JournalNextTakes
<1>4. CASE AskReply
  BY <1>4, AskTakes DEF AskReply, CanAnswer
<1>5. CASE AskAnswered
  <2>1. At("asking") /\ Take("answers") /\ revoked' = revoked
        /\ (Answer(Head(chan["answers"])) \/ Silent)
    BY <1>5 DEF AskAnswered, CanAnswer
  <2>. QED  BY <1>5, <2>1, AskTakes
<1>6. CASE ReplayNext
  BY <1>6, ReplayTakes
<1>. QED  BY <1>0, <1>1, <1>2, <1>3, <1>4, <1>5, <1>6 DEF Step, LoopStep

LEMMA LogsStay ==
  ASSUME Types, Next
  PROVE  Logs'
<1>. USE DEF Logs
<1>0. cast' = cast /\ Cmd' = Cmd /\ Fact' = Fact /\ Step
  BY DEF Next, Cmd, Fact
<1>00. Len(log) \in Nat
  BY DEF Types
<1>1. CASE \E c \in Cmd : Send(c) \/ PeerSend(c)
  <2>. PICK c \in Cmd : Send(c) \/ PeerSend(c)
    BY <1>1
  <2>1. /\ log' = Append(log, c) /\ journal' = journal /\ mark' = mark
        /\ upto' = upto /\ revoked' = revoked
    BY DEF Send, PeerSend
  <2>2. log' \in Seq(Cmd) /\ Len(log') = Len(log) + 1
    BY <2>1 DEF Types
  <2>. QED  BY <2>1, <2>2, <1>0, <1>00 DEF Types
<1>2. CASE Pump \/ HostStep \/ Crash
  BY <1>0, <1>00, <1>2 DEF Pump, HostStep, Host, ReplayPending, Crash,
     durables, Types
<1>3. CASE LoopStep
  <2>1. log' = log /\ upto' = upto
    BY <1>3 DEF LoopStep, JournalNext, DrainSteer, Generate, Ask, EndTurn,
       FlushDeferred, TakeInput, ResolveIdle, AskReply, AskAnswered, AskPeer,
       ReplayNext, ReplayDone, durables, queues
  <2>2. \/ revoked' = revoked /\ Silent
        \/ \E i : Journals(i)
    <3>1. CASE \/ DrainSteer \/ Generate \/ Ask \/ EndTurn \/ FlushDeferred
               \/ \E q \in {"inbox", "peer"} : TakeInput(q)
               \/ ResolveIdle \/ AskPeer \/ ReplayDone
      BY <3>1 DEF DrainSteer, Generate, Ask, EndTurn, FlushDeferred,
         TakeInput, ResolveIdle, AskPeer, ReplayDone, durables, queues, Silent
    <3>2. CASE JournalNext
      BY <3>2, JournalNextTakes
    <3>3. CASE AskReply \/ AskAnswered
      BY <3>3, StepJournals DEF AskReply, AskAnswered
    <3>4. CASE ReplayNext
      BY <3>4, ReplayTakes DEF Silent
    <3>. QED  BY <1>3, <3>1, <3>2, <3>3, <3>4 DEF LoopStep
  <2>. QED  BY <1>0, <1>00, <2>1, <2>2 DEF Types, Silent, Journals
<1>. QED  BY <1>0, <1>1, <1>2, <1>3 DEF Step

\* What the mailbox is replayed from: to the loop, and to the hub.
LEMMA ReplaySequence ==
  ASSUME Types
  PROVE  /\ Queue(SeqsFrom(mark), Len(log))
         /\ Len(SeqsFrom(mark)) = Len(log) - mark
         /\ \A k \in 1..(Len(log) - mark) : SeqsFrom(mark)[k] = mark + k
<1>1. Len(log) \in Nat /\ mark \in 0..Len(log) /\ Len(log) - mark \in Nat
  BY DEF Types, Logs
<1>2. SeqsFrom(mark) = [k \in 1..(Len(log) - mark) |-> mark + k]
  BY DEF SeqsFrom
<1>3. SeqsFrom(mark) \in Seq(Nat) /\ Len(SeqsFrom(mark)) = Len(log) - mark
  BY <1>1, <1>2
<1>. QED  BY <1>1, <1>2, <1>3 DEF Queue

PendingSeqs == {i \in 1..Len(log) : PendingCommand(i)}
LEMMA PendingSequence ==
  ASSUME Types, NEW s \in Ascending(PendingSeqs)
  PROVE  /\ Queue(s, Len(log)) /\ Ascends(s)
         /\ \A i \in PendingSeqs : Has(s, i)
<1>1. Len(log) \in Nat
  BY Held
<1>2. IsFiniteSet(PendingSeqs)
  <2>1. IsFiniteSet(1..Len(log))
    BY <1>1, FS_Interval
  <2>2. PendingSeqs \in SUBSET (1..Len(log))
    BY DEF PendingSeqs
  <2>. QED  BY <2>1, <2>2, FS_Subset
<1>. DEFINE n == Cardinality(PendingSeqs)
<1>3. n \in Nat
  BY <1>2, FS_CardinalityType
<1>. HIDE DEF n
<1>4. /\ s \in [1..n -> PendingSeqs] /\ Range(s) = PendingSeqs
      /\ \A i, j \in DOMAIN s : i < j => s[i] < s[j]
  BY DEF Ascending, n
<1>5. PendingSeqs \subseteq Nat /\ PendingSeqs \subseteq 1..Len(log)
  BY <1>1 DEF PendingSeqs
<1>6. s \in Seq(Nat) /\ Len(s) = n
  <2>1. s \in [1..n -> Nat] /\ DOMAIN s = 1..n
    BY <1>4, <1>5
  <2>2. s \in Seq(Nat)
    BY <2>1, <1>3, SeqDef
  <2>3. DOMAIN s = 1..Len(s) /\ Len(s) \in Nat
    BY <2>2, LenProperties
  <2>. QED  BY <1>3, <2>1, <2>2, <2>3
<1>7. DOMAIN s = 1..Len(s)
  BY <1>4, <1>6
<1>. QED  BY <1>4, <1>5, <1>6, <1>7 DEF Queue, Ascends, Has, Range

LEMMA MemoriesStay ==
  ASSUME Types, Next
  PROVE  Memories'
<1>. USE Held DEF Memories
<1>. DEFINE N == Len(log)
<1>0. Memories /\ Step /\ N \in Nat
  BY DEF Types, Next
<1>00. /\ Queue(<<>>, N) /\ \A x \in 1..N : Queue(<<x>>, N)
       /\ \A s : \A x \in 1..N : Queue(s, N) => Queue(Append(s, x), N)
       /\ \A s, t : Queue(s, N) /\ Queue(t, N) => Queue(s \o t, N)
  BY <1>0, Queues
<1>000. \A s : Queue(s, N) => s \in Seq(Nat)
  BY DEF Queue
<1>1. CASE \E c \in Cmd : Send(c) \/ PeerSend(c)
  <2>. PICK c \in Cmd : Send(c) \/ PeerSend(c)
    BY <1>1
  <2>. DEFINE M == Len(log')
  <2>1. log' = Append(log, c) /\ log \in Seq(Cmd)
    BY DEF Send, PeerSend, Types, Logs
  <2>2. M = N + 1 /\ M \in Nat
    BY <2>1
  <2>3. /\ \A s : Queue(s, N) => Queue(s, M)
        /\ \A s : Queue(s, N) => Queue(Append(s, N + 1), M)
    BY <2>2, <1>0, Queues
  <2>4. deferred' = deferred /\ flush' = flush /\ replay' = replay
    BY DEF Send, PeerSend
  <2>. HIDE DEF M, N
  <2>5. CASE Send(c)
    <3>1. (hub' = hub \/ hub' = Append(hub, N + 1)) /\ chan' = chan
      BY <2>5 DEF Send, N
    <3>2. Queue(hub', M)
      BY <3>1, <2>3, <1>0 DEF N
    <3>. QED  BY <1>0, <2>3, <2>4, <3>1, <3>2 DEF N, M
  <2>6. CASE PeerSend(c)
    <3>1. /\ hub' = hub
          /\ \/ chan' = chan
             \/ chan' = [chan EXCEPT !["peer"] = Append(@, N + 1)]
      BY <2>6 DEF PeerSend, N
    <3>2. /\ chan' \in [Channel -> Seq(Nat)]
          /\ \A q \in Channel : chan'[q] = chan[q] \/ chan'[q] = Append(chan[q], N + 1)
      <4>1. Append(chan["peer"], N + 1) \in Seq(Nat)
        BY <1>0 DEF Channel, N
      <4>. QED  BY <3>1, <4>1, <1>0
    <3>3. \A q \in Channel : Queue(chan'[q], M)
      BY <3>2, <2>3, <1>0 DEF N
    <3>. QED  BY <1>0, <2>3, <2>4, <3>1, <3>2, <3>3 DEF N, M
  <2>. QED  BY <2>5, <2>6
<1>2. CASE Pump
  <2>1. PICK q \in Channel : /\ chan' = [chan EXCEPT ![q] = Append(@, Head(hub))]
                             /\ hub' = Tail(hub) /\ hub # <<>>
    <3>1. ChannelOf(Head(hub)) \in Channel
      <4>1. Head(hub) \in 1..N
        BY <1>0, <1>2 DEF Pump
      <4>2. KindOf[log[Head(hub)]] \in Kind
        BY <4>1, CastIs DEF Types, Logs, Counts
      <4>. QED  BY <4>2 DEF ChannelOf, Channel, Kind, IsKind
    <3>. QED  BY <3>1, <1>2 DEF Pump
  <2>2. log' = log /\ deferred' = deferred /\ flush' = flush /\ replay' = replay
    BY <1>2 DEF Pump, durables
  <2>3. Queue(Append(chan[q], Head(hub)), N) /\ Queue(Tail(hub), N)
    BY <2>1, <1>0, <1>00
  <2>4. /\ chan' \in [Channel -> Seq(Nat)]
        /\ \A r \in Channel : Queue(chan'[r], N)
    BY <2>1, <2>3, <1>0, <1>000
  <2>. QED  BY <2>1, <2>2, <2>3, <2>4, <1>0
<1>3. CASE HostStep \/ Crash
  <2>1. CASE Host
    BY <2>1, <1>0, ReplaySequence DEF Host, durables
  <2>2. CASE ReplayPending
    <3>1. PICK s \in Ascending(PendingSeqs) : hub' = hub \o s
      BY <2>2 DEF ReplayPending, PendingSeqs
    <3>2. Queue(hub', N)
      BY <3>1, PendingSequence, <1>0, <1>00
    <3>. QED  BY <2>2, <3>2, <1>0 DEF ReplayPending, durables
  <2>3. CASE Crash
    BY <2>3, <1>00 DEF Crash, durables, Empty
  <2>. QED  BY <1>3, <2>1, <2>2, <2>3 DEF HostStep
<1>4. CASE LoopStep
  <2>0. log' = log /\ hub' = hub
    BY <1>4 DEF LoopStep, JournalNext, DrainSteer, Generate, Ask, EndTurn,
       FlushDeferred, TakeInput, ResolveIdle, AskReply, AskAnswered, AskPeer,
       ReplayNext, ReplayDone, durables, queues
  <2>1. CASE Generate \/ Ask \/ EndTurn \/ FlushDeferred \/ ResolveIdle \/ ReplayDone
    BY <2>0, <2>1, <1>0, <1>00 DEF Generate, Ask, EndTurn, FlushDeferred,
       ResolveIdle, ReplayDone, queues
  <2>2. CASE DrainSteer
    <3>1. /\ chan' = [chan EXCEPT !["inbox"] = <<>>, !["promotes"] = <<>>]
          /\ flush' \in {<<>>, deferred \o chan["inbox"]}
          /\ deferred' \in {<<>>, deferred \o chan["inbox"]}
          /\ replay' = replay
      BY <2>2 DEF DrainSteer
    <3>2. Queue(flush', N) /\ Queue(deferred', N)
      BY <3>1, <1>0, <1>00 DEF Channel
    <3>3. chan' \in [Channel -> Seq(Nat)] /\ \A r \in Channel : Queue(chan'[r], N)
      BY <3>1, <1>0, <1>00, <1>000
    <3>. QED  BY <2>0, <3>1, <3>2, <3>3, <1>0
  <2>3. CASE \/ \E q \in {"inbox", "peer"} : TakeInput(q)
             \/ AskReply \/ AskAnswered \/ AskPeer
    <3>1. PICK q \in Channel : Take(q)
                 /\ (flush' = flush \/ flush' = <<Head(chan[q])>>)
                 /\ deferred' = deferred /\ replay' = replay
      BY <2>3 DEF TakeInput, AskReply, AskAnswered, AskPeer, CanAnswer, Channel
    <3>2. Queue(Tail(chan[q]), N) /\ Head(chan[q]) \in 1..N
      BY <3>1, <1>0 DEF Take
    <3>3. chan' \in [Channel -> Seq(Nat)] /\ \A r \in Channel : Queue(chan'[r], N)
      BY <3>1, <3>2, <1>0, <1>000 DEF Take
    <3>. QED  BY <2>0, <3>1, <3>2, <3>3, <1>0, <1>00
  <2>4. CASE JournalNext
    <3>1. Head(flush) \in 1..N /\ Queue(Tail(flush), N)
      BY <2>4, <1>0 DEF JournalNext
    <3>2. /\ chan' \in [Channel -> Seq(Nat)]
          /\ \A q \in Channel : chan'[q] = chan[q] \/ chan'[q] = <<>>
      BY <2>4, <3>1, <1>0, Journaled DEF JournalNext, Types, Counts
    <3>. QED  BY <2>0, <2>4, <3>1, <3>2, <1>0, <1>00 DEF JournalNext
  <2>5. CASE ReplayNext
    <3>1. Head(replay) \in 1..N /\ Queue(Tail(replay), N)
      BY <2>5, <1>0 DEF ReplayNext
    <3>2. /\ chan' \in [Channel -> Seq(Nat)]
          /\ \A q \in Channel : chan'[q] = chan[q] \/ chan'[q] = <<>>
      <4>1. chan' = chan \/ JournalInput(Head(replay), chan)
        BY <2>5 DEF ReplayNext
      <4>. QED  BY <3>1, <4>1, <1>0, Journaled DEF Types, Counts
    <3>. QED  BY <2>0, <2>5, <3>1, <3>2, <1>0, <1>00 DEF ReplayNext
  <2>. QED  BY <1>4, <2>1, <2>2, <2>3, <2>4, <2>5 DEF LoopStep
<1>. QED  BY <1>0, <1>1, <1>2, <1>3, <1>4 DEF Step

LEMMA TypesStay ==
  ASSUME Types, Next
  PROVE  Types'
BY LogsStay, MemoriesStay, CountsStay, ArmedStays DEF Types

-----------------------------------------------------------------------------
(* Facts, and the phases of the host                                        *)

\* Each fact is of the command its sequence names, behind the mark; a command
\* is accepted once.
Facts == \A j \in 1..Len(journal) :
           /\ journal[j].seq \in 1..Len(log) /\ journal[j].seq <= mark
           /\ journal[j].cmd = log[journal[j].seq]
Distinct == \A i, j \in 1..Len(log) : log[i] = log[j] => i = j

LEMMA AppendedFact ==
  ASSUME Types, NEW f \in Fact
  PROVE  /\ Len(journal) \in Nat /\ Len(Append(journal, f)) = Len(journal) + 1
         /\ \A j \in 1..Len(journal) : Append(journal, f)[j] = journal[j]
         /\ Append(journal, f)[Len(journal) + 1] = f
BY DEF Types, Logs

LEMMA MailboxGrows ==
  ASSUME Types, Next
  PROVE  \/ log' = log
         \/ /\ Silent
            /\ \E c \in Cmd : /\ log' = Append(log, c) /\ c \notin Range(log)
                              /\ Len(log') = Len(log) + 1 /\ log'[Len(log) + 1] = c
                              /\ \A i \in 1..Len(log) : log'[i] = log[i]
<1>1. CASE \E c \in Cmd : Send(c) \/ PeerSend(c)
  <2>. PICK c \in Cmd : Send(c) \/ PeerSend(c)
    BY <1>1
  <2>1. log' = Append(log, c) /\ c \notin Range(log) /\ Silent
    BY DEF Send, PeerSend, Silent
  <2>. QED  BY <2>1 DEF Types, Logs
<1>2. CASE ~\E c \in Cmd : Send(c) \/ PeerSend(c)
  BY <1>2 DEF Next, Step, Pump, HostStep, Host, ReplayPending, Crash,
     LoopStep, JournalNext, DrainSteer, Generate, Ask, EndTurn, FlushDeferred,
     TakeInput, ResolveIdle, AskReply, AskAnswered, AskPeer, ReplayNext,
     ReplayDone, durables
<1>. QED  BY <1>1, <1>2

\* What a step does to journal and mark, whatever it takes.
LEMMA JournalGrows ==
  ASSUME Types, Next
  PROVE  \/ Silent
         \/ \E i \in 1..Len(log) : Journals(i) /\ log' = log
<1>1. JournalNext \/ AskReply \/ AskAnswered \/ ReplayNext => log' = log
  BY DEF JournalNext, AskReply, AskAnswered, ReplayNext
<1>. QED  BY <1>1, StepJournals DEF Journals

LEMMA FactsStay ==
  ASSUME Types, Facts, Distinct, Next
  PROVE  Facts' /\ Distinct'
<1>0. Len(log) \in Nat /\ mark \in Nat /\ Len(journal) \in Nat
  BY Held DEF Types, Logs
<1>1. CASE log' # log
  <2>. PICK c \in Cmd : /\ log' = Append(log, c) /\ c \notin Range(log)
                        /\ Len(log') = Len(log) + 1 /\ log'[Len(log) + 1] = c
                        /\ \A i \in 1..Len(log) : log'[i] = log[i]
    BY <1>1, MailboxGrows
  <2>1. Silent
    BY <1>1, MailboxGrows
  <2>2. \A i \in 1..Len(log) : log[i] # c
    BY DEF Range, Types, Logs
  <2>3. Distinct'
    BY <1>0, <2>2 DEF Distinct
  <2>4. Facts'
    <3>1. \A j \in 1..Len(journal) :
            /\ journal[j].seq \in 1..(Len(log) + 1) /\ journal[j].seq <= mark
            /\ journal[j].cmd = log'[journal[j].seq]
      BY <1>0 DEF Facts
    <3>. QED  BY <2>1, <3>1 DEF Facts, Silent
  <2>. QED  BY <2>3, <2>4
<1>2. CASE log' = log /\ Silent
  BY <1>2 DEF Facts, Distinct, Silent
<1>3. CASE log' = log /\ ~Silent
  <2>. PICK i \in 1..Len(log) : Journals(i)
    BY <1>3, JournalGrows
  <2>1. mark' = Higher(i) /\ mark' >= i /\ mark' >= mark
    BY <1>0, <1>3 DEF Journals, Takes, Silent, Higher
  <2>. PICK f \in Fact : journal' = Append(journal, f) /\ f.seq = i /\ f.cmd = log[i]
    BY <1>3 DEF Journals, Takes, Silent
  <2>2. ASSUME NEW j \in 1..(Len(journal) + 1)
        PROVE  /\ journal'[j].seq \in 1..Len(log) /\ journal'[j].seq <= mark'
               /\ journal'[j].cmd = log[journal'[j].seq]
    <3>1. CASE j = Len(journal) + 1
      BY <1>0, <2>1, <3>1, AppendedFact
    <3>2. CASE j \in 1..Len(journal)
      <4>1. journal'[j] = journal[j]
        BY <3>2, AppendedFact
      <4>2. /\ journal[j].seq \in 1..Len(log) /\ journal[j].seq <= mark
            /\ journal[j].cmd = log[journal[j].seq]
        BY <3>2 DEF Facts
      <4>3. mark' \in Nat
        BY <1>0, <2>1 DEF Higher
      <4>. QED  BY <1>0, <2>1, <4>1, <4>2, <4>3
    <3>. QED  BY <1>0, <3>1, <3>2
  <2>3. Facts'
    BY <1>3, <2>2, AppendedFact DEF Facts
  <2>. QED  BY <1>3, <2>3 DEF Distinct
<1>. QED  BY <1>1, <1>2, <1>3

\* Where the host stands, and what it may hold there.
Phases ==
  /\ pc # "replay" => replay = <<>>
  /\ pc \in {"replay", "down"} => flush = <<>> /\ deferred = <<>>
  /\ pc = "drain" => deferred = <<>>
  /\ pc = "down" => ~armed
  /\ MaxAsks = 0 => ~Asked

LEMMA PhasesStay ==
  ASSUME Types, Phases, Next
  PROVE  Phases'
<1>. USE DEF Phases, Asked
<1>0. Step /\ MaxAsks' = MaxAsks /\ MaxAsks \in Nat /\ asks \in Nat
  BY CastIs DEF Next, MaxAsks, Types, Counts
<1>1. CASE (\E c \in Cmd : Send(c) \/ PeerSend(c)) \/ Pump \/ HostStep \/ Crash
  BY <1>0, <1>1 DEF Send, PeerSend, Pump, HostStep, Host, ReplayPending, Crash,
     durables, Goto
<1>2. CASE LoopStep
  <2>1. CASE JournalNext \/ DrainSteer
    BY <1>0, <2>1 DEF JournalNext, DrainSteer, durables, Goto, At
  <2>2. CASE Generate \/ Ask \/ EndTurn \/ FlushDeferred \/ ResolveIdle
    BY <1>0, <2>2 DEF Generate, Ask, EndTurn, FlushDeferred, ResolveIdle,
       durables, queues, Goto, At
  <2>3. CASE (\E q \in {"inbox", "peer"} : TakeInput(q)) \/ AskPeer
    BY <1>0, <2>3 DEF TakeInput, AskPeer, durables, Goto, At, CanAnswer
  <2>4. CASE AskReply \/ AskAnswered \/ ReplayNext
    BY <1>0, <2>4 DEF AskReply, AskAnswered, ReplayNext, Answer, Goto, At,
       CanAnswer
  <2>5. CASE ReplayDone
    BY <1>0, <2>5 DEF ReplayDone, durables, queues, Goto
  <2>. QED  BY <1>2, <2>1, <2>2, <2>3, <2>4, <2>5 DEF LoopStep
<1>. QED  BY <1>0, <1>1, <1>2 DEF Step

\* The replay goes through the mailbox as Resume read it, ahead of the mark.
Replays ==
  pc = "replay" =>
    /\ Len(replay) <= upto /\ mark <= upto - Len(replay)
    /\ \A k \in 1..Len(replay) : replay[k] = upto - Len(replay) + k

LEMMA ReplaysStay ==
  ASSUME Types, Phases, Replays, Next
  PROVE  Replays'
<1>. SUFFICES ASSUME pc' = "replay" PROVE Replays'
  BY DEF Replays
<1>0. Step /\ Len(log) \in Nat /\ mark \in Nat /\ upto \in Nat
  BY Held DEF Next
<1>1. CASE Host
  <2>1. replay' = SeqsFrom(mark) /\ upto' = Len(log) /\ mark' = mark
    BY <1>1 DEF Host, durables
  <2>2. mark <= Len(log)
    BY DEF Types, Logs
  <2>3. Len(replay') = Len(log) - mark
    BY <2>1, ReplaySequence
  <2>4. \A k \in 1..Len(replay') : replay'[k] = upto' - Len(replay') + k
    BY <1>0, <2>1, <2>3, ReplaySequence
  <2>. QED  BY <1>0, <2>1, <2>2, <2>3, <2>4 DEF Replays
<1>2. CASE ReplayNext
  <2>1. /\ replay \in Seq(Nat) /\ replay # <<>> /\ replay' = Tail(replay)
        /\ upto' = upto /\ pc = "replay"
    BY <1>2 DEF ReplayNext, Types, Memories, Queue
  <2>2. mark' = mark \/ mark' = Higher(Head(replay))
    BY <1>2, ReplayTakes DEF Journals, Takes
  <2>3. Head(replay) = upto - Len(replay) + 1
    BY <2>1, TailOfQueue DEF Replays
  <2>4. mark' <= upto - (Len(replay) - 1)
    BY <1>0, <2>1, <2>2, <2>3, TailOfQueue DEF Replays, Higher
  <2>5. /\ Len(replay') = Len(replay) - 1 /\ Len(replay) \in Nat
        /\ \A i \in 1..(Len(replay) - 1) : replay'[i] = replay[i + 1]
        /\ Len(replay) >= 1
    BY <2>1, TailOfQueue
  <2>6. ASSUME NEW k \in 1..(Len(replay) - 1)
        PROVE  replay'[k] = upto - (Len(replay) - 1) + k
    <3>1. k + 1 \in 1..Len(replay) /\ replay'[k] = replay[k + 1]
      BY <2>5
    <3>2. replay[k + 1] = upto - Len(replay) + (k + 1)
      BY <2>1, <3>1 DEF Replays
    <3>. QED  BY <1>0, <2>5, <3>1, <3>2
  <2>7. Len(replay') <= upto
    BY <1>0, <2>1, <2>5 DEF Replays
  <2>. QED  BY <2>1, <2>4, <2>5, <2>6, <2>7 DEF Replays
<1>3. CASE UNCHANGED <<pc, replay, upto, mark>>
  BY <1>3 DEF Replays
<1>. QED  BY <1>0, <1>1, <1>2, <1>3 DEF Step, LoopStep, Phases, Send, PeerSend,
          Pump, HostStep, ReplayPending, Crash, JournalNext, DrainSteer,
          Generate, Ask, EndTurn, FlushDeferred, TakeInput, ResolveIdle,
          AskReply, AskAnswered, AskPeer, ReplayDone, durables, queues, Goto, At

-----------------------------------------------------------------------------
(* What is settled                                                          *)

\* Without questions, the journal settles commands in the order they came.
InOrder == MaxAsks = 0 =>
             \A j, k \in 1..Len(journal) :
               j < k => journal[j].seq < journal[k].seq

\* What is taken was not settled, unless a question is answered.
LEMMA TakenIsNew ==
  ASSUME Types, Phases, Replays, NEW i \in 1..Len(log), Takes(i), ~Silent,
         MaxAsks = 0
  PROVE  i > mark
<1>1. CASE Replayed(i)
  <2>1. replay \in Seq(Nat) /\ replay # <<>> /\ pc = "replay" /\ i = Head(replay)
    BY <1>1 DEF Replayed, Types, Memories, Queue
  <2>2. i = upto - Len(replay) + 1 /\ mark <= upto - Len(replay)
    BY <2>1, TailOfQueue DEF Replays
  <2>. QED  BY <2>1, <2>2, Held, TailOfQueue
<1>. QED  BY <1>1 DEF Takes, Phases, Silent

LEMMA InOrderStays ==
  ASSUME Types, Facts, Phases, Replays, InOrder, Next
  PROVE  InOrder'
<1>. SUFFICES ASSUME MaxAsks = 0 PROVE InOrder'
  BY DEF InOrder, MaxAsks, Next
<1>1. CASE Silent
  BY <1>1 DEF InOrder, Silent
<1>2. CASE ~Silent
  <2>. PICK i \in 1..Len(log) : Journals(i)
    BY <1>2, JournalGrows
  <2>1. i > mark
    BY <1>2, TakenIsNew DEF Journals
  <2>. PICK f \in Fact : journal' = Append(journal, f) /\ f.seq = i
    BY <1>2 DEF Journals, Takes, Silent
  <2>2. \A j \in 1..Len(journal) : journal[j].seq < i /\ journal[j].seq \in Nat
    BY <2>1, Held DEF Facts
  <2>3. ASSUME NEW j \in 1..(Len(journal) + 1), NEW k \in 1..(Len(journal) + 1),
               j < k
        PROVE  journal'[j].seq < journal'[k].seq
    <3>1. j \in 1..Len(journal) /\ journal'[j] = journal[j]
      BY <2>3, AppendedFact
    <3>2. CASE k = Len(journal) + 1
      BY <2>2, <3>1, <3>2, AppendedFact
    <3>3. CASE k \in 1..Len(journal)
      BY <2>3, <3>1, <3>3, AppendedFact DEF InOrder
    <3>. QED  BY <3>2, <3>3, AppendedFact
  <2>. QED  BY <2>3, AppendedFact DEF InOrder
<1>. QED  BY <1>1, <1>2

\* The inputs past the mark that a queue still holds come in order.
Pipeline ==
  /\ Ascends(flush) /\ Ascends(deferred) /\ Ascends(chan["inbox"]) /\ Ascends(hub)
  /\ Below(flush, deferred) /\ Below(flush, chan["inbox"]) /\ Below(flush, hub)
  /\ Below(deferred, chan["inbox"]) /\ Below(deferred, hub)
  /\ Below(chan["inbox"], hub)
Holds(i) ==
  Has(flush, i) \/ Has(deferred, i) \/ Has(chan["inbox"], i) \/ Has(hub, i)
Nothing == /\ flush = <<>> /\ deferred = <<>> /\ chan["inbox"] = <<>> /\ hub = <<>>
Ahead(i) == IsKind(i, "input") /\ i > mark

\* With one channel for what settles commands, the queues hold all that is
\* ahead once the hub has been given it, in order; a replay passes none by.
Queued ==
  OneChannel(cast) =>
    /\ chan["peer"] = <<>> /\ chan["answers"] = <<>>
    /\ Pipeline
    /\ ~armed => Nothing
    /\ armed => \A i \in 1..Len(log) : Ahead(i) => Holds(i)
Passed ==
  OneChannel(cast) /\ pc = "replay" =>
    \A i \in 1..(upto - Len(replay)) : IsKind(i, "input") => i <= mark

NoAnswers == \A i \in 1..Len(log) : ~IsKind(i, "answer")
LEMMA NoAnswersAre ==
  ASSUME Types, OneChannel(cast)
  PROVE  NoAnswers /\ FromPeer = {}
BY DEF NoAnswers, IsKind, OneChannel, Types, Logs, Cmd, KindOf, FromPeer

\* The places of the mailbox, as the lemmas about queues take them.
LEMMA QueuesAre ==
  ASSUME Types
  PROVE  /\ flush \in Seq(Nat) /\ deferred \in Seq(Nat) /\ hub \in Seq(Nat)
         /\ chan["inbox"] \in Seq(Nat) /\ Queue(hub, Len(log))
         /\ Queue(flush, Len(log)) /\ Queue(deferred, Len(log))
         /\ Queue(chan["inbox"], Len(log))
BY DEF Types, Memories, Channel, Queue

LEMMA KindsStay ==
  ASSUME Types, Next
  PROVE  /\ \A i \in 1..Len(log) : \A k : IsKind(i, k)' = IsKind(i, k)
         /\ OneChannel(cast)' = OneChannel(cast)
<1>1. cast' = cast /\ KindOf' = KindOf
  BY DEF Next, KindOf
<1>2. \A i \in 1..Len(log) : log'[i] = log[i]
  BY MailboxGrows
<1>. QED  BY <1>1, <1>2 DEF IsKind, OneChannel

\* What a queue holds lies at or past its head.
LEMMA HeadIsFirst ==
  ASSUME Types, Pipeline, NEW j \in Nat, Holds(j)
  PROVE  /\ flush # <<>> => Head(flush) <= j
         /\ flush = <<>> /\ deferred = <<>> /\ chan["inbox"] # <<>>
              => Head(chan["inbox"]) <= j
<1>. USE QueuesAre
<1>0. \A s, t \in Seq(Nat) : Below(s, t) /\ s # <<>> /\ Has(t, j) => Head(s) < j
  BY TailOfQueue DEF Below, Has
<1>1. ASSUME NEW s \in Seq(Nat), s # <<>>, Ascends(s), Has(s, j)
      PROVE  Head(s) <= j
  <2>. PICK k \in 1..Len(s) : s[k] = j
    BY <1>1 DEF Has
  <2>1. Len(s) \in Nat /\ 1 \in 1..Len(s) /\ Head(s) = s[1] /\ s[1] \in Nat
    BY <1>1, TailOfQueue
  <2>2. CASE k = 1
    BY <2>1, <2>2
  <2>3. CASE k > 1
    BY <1>1, <2>1, <2>3 DEF Ascends
  <2>. QED  BY <2>1, <2>2, <2>3
<1>2. \A s \in Seq(Nat) : s # <<>> => Head(s) \in Nat
  BY TailOfQueue
<1>3. ASSUME flush # <<>> PROVE Head(flush) <= j
  BY <1>0, <1>1, <1>2, <1>3 DEF Pipeline, Holds
<1>4. ASSUME flush = <<>>, deferred = <<>>, chan["inbox"] # <<>>
      PROVE  Head(chan["inbox"]) <= j
  BY <1>0, <1>1, <1>2, <1>4, EmptyQueue DEF Pipeline, Holds
<1>. QED  BY <1>3, <1>4

\* What is taken out is the first of what is ahead.
LEMMA TakenIsNext ==
  ASSUME Types, Phases, Replays, Queued, Passed, OneChannel(cast), Next, ~Silent
  PROVE  \E i \in 1..Len(log) :
           /\ Journals(i) /\ log' = log
           /\ \A j \in 1..Len(log) : Ahead(j) => i <= j
<1>0. Len(log) \in Nat /\ mark \in Nat /\ upto \in Nat
  BY Held
<1>1. CASE JournalNext /\ Journals(Head(flush))
  <2>1. armed /\ flush # <<>>
    BY <1>1 DEF JournalNext, Queued, Nothing
  <2>2. \A j \in 1..Len(log) : Ahead(j) => Head(flush) <= j
    BY <2>1, <1>0, HeadIsFirst DEF Queued
  <2>. QED  BY <1>1, <2>2 DEF JournalNext, Journals
<1>2. CASE AskReply /\ Journals(Head(chan["inbox"]))
  <2>1. chan["inbox"] # <<>> /\ flush = <<>> /\ deferred = <<>>
    BY <1>2 DEF AskReply, CanAnswer, Take, At
  <2>2. armed
    BY <2>1 DEF Queued, Nothing
  <2>3. \A j \in 1..Len(log) : Ahead(j) => Head(chan["inbox"]) <= j
    BY <2>1, <2>2, <1>0, HeadIsFirst DEF Queued
  <2>. QED  BY <1>2, <2>3 DEF AskReply, Journals
<1>3. CASE AskAnswered
  BY <1>3 DEF AskAnswered, Take, Queued
<1>4. CASE ReplayNext /\ Journals(Head(replay))
  <2>1. replay \in Seq(Nat) /\ replay # <<>> /\ pc = "replay"
    BY <1>4 DEF ReplayNext, Types, Memories, Queue
  <2>2. Head(replay) = upto - Len(replay) + 1 /\ Len(replay) \in Nat
    BY <2>1, TailOfQueue DEF Replays
  <2>3. \A j \in 1..Len(log) : Ahead(j) => Head(replay) <= j
    BY <1>0, <2>1, <2>2 DEF Passed, Ahead
  <2>. QED  BY <1>4, <2>3 DEF ReplayNext, Journals
<1>. QED  BY <1>1, <1>2, <1>3, <1>4, StepJournals

Swallowed == OneChannel(cast) => NoneSwallowed
LEMMA SwallowedStays ==
  ASSUME Types, Facts, Phases, Replays, Queued, Passed, Swallowed, Next
  PROVE  Swallowed'
<1>. SUFFICES ASSUME OneChannel(cast) PROVE NoneSwallowed'
  BY KindsStay DEF Swallowed
<1>0. Len(log) \in Nat /\ mark \in Nat /\ mark <= Len(log) /\ Len(journal) \in Nat
      /\ Len(log') >= Len(log) /\ Len(log') \in Nat
  BY MailboxGrows, Held DEF Types, Logs
<1>1. CASE Silent
  <2>1. Settled' = Settled /\ mark' = mark
    BY <1>1 DEF Settled, Range, Silent
  <2>2. \A i \in 1..Len(log) : log'[i] = log[i]
    BY MailboxGrows
  <2>3. ASSUME NEW i \in 1..Len(log'), IsKind(i, "input")', i <= mark
        PROVE  log'[i] \in Settled
    <3>1. i \in 1..Len(log)
      BY <1>0, <2>3
    <3>. QED  BY <2>2, <2>3, <3>1, KindsStay DEF Swallowed, NoneSwallowed
  <2>. QED  BY <2>1, <2>3 DEF NoneSwallowed
<1>2. CASE ~Silent
  <2>. PICK i \in 1..Len(log) :
         /\ Journals(i) /\ log' = log
         /\ \A j \in 1..Len(log) : Ahead(j) => i <= j
    BY <1>2, TakenIsNext
  <2>. PICK f \in Fact : journal' = Append(journal, f) /\ f.cmd = log[i]
    BY <1>2 DEF Journals, Takes, Silent
  <2>1. mark' = Higher(i)
    BY <1>2 DEF Journals, Takes, Silent
  <2>2. Settled \subseteq Settled' /\ log[i] \in Settled'
    <3>1. DOMAIN journal = 1..Len(journal)
          /\ DOMAIN journal' = 1..(Len(journal) + 1)
      BY AppendedFact DEF Types, Logs
    <3>. QED  BY <3>1, AppendedFact DEF Settled, Range
  <2>3. ASSUME NEW j \in 1..Len(log), IsKind(j, "input"), j <= mark'
        PROVE  log[j] \in Settled'
    <3>1. CASE j <= mark
      BY <2>2, <2>3, <3>1 DEF Swallowed, NoneSwallowed
    <3>2. CASE j > mark
      <4>1. i <= j
        BY <2>3, <3>2 DEF Ahead
      <4>2. j = i
        BY <1>0, <2>1, <2>3, <3>2, <4>1 DEF Higher
      <4>. QED  BY <2>2, <4>2
    <3>. QED  BY <1>0, <3>1, <3>2
  <2>4. \A j \in 1..Len(log) : IsKind(j, "input")' = IsKind(j, "input")
    BY KindsStay
  <2>. QED  BY <2>3, <2>4 DEF NoneSwallowed
<1>. QED  BY <1>1, <1>2

LEMMA PassedStays ==
  ASSUME Types, Phases, Replays, Passed, Next
  PROVE  Passed'
<1>. SUFFICES ASSUME OneChannel(cast), pc' = "replay",
                     NEW i \in 1..(upto' - Len(replay')), IsKind(i, "input")'
              PROVE  i <= mark'
  BY KindsStay DEF Passed
<1>0. /\ Step /\ Len(log) \in Nat /\ mark \in Nat /\ upto \in Nat
      /\ upto <= Len(log) /\ mark' \in Nat /\ mark' >= mark
  <2>1. mark' = mark \/ \E k \in 1..Len(log) : mark' = Higher(k)
    BY JournalGrows DEF Silent, Journals, Takes
  <2>. QED  BY <2>1, Held DEF Next, Higher, Types, Logs
<1>1. CASE Host
  <2>1. upto' - Len(replay') = mark
    BY <1>0, <1>1, ReplaySequence DEF Host
  <2>. QED  BY <1>0, <2>1
<1>2. CASE ReplayNext
  <2>1. /\ replay \in Seq(Nat) /\ replay # <<>> /\ replay' = Tail(replay)
        /\ upto' = upto /\ pc = "replay"
    BY <1>2 DEF ReplayNext, Types, Memories, Queue
  <2>2. /\ Head(replay) = upto - Len(replay) + 1
        /\ Len(replay') = Len(replay) - 1 /\ Len(replay) \in Nat
        /\ Len(replay) >= 1 /\ Len(replay) <= upto
    BY <2>1, TailOfQueue DEF Replays
  <2>3. i \in 1..Len(log) /\ i \in 1..(upto - Len(replay) + 1)
    BY <1>0, <2>1, <2>2
  <2>4. IsKind(i, "input")
    BY <2>3, KindsStay
  <2>5. CASE i = Head(replay)
    <3>1. Journals(i)
      BY <1>2, <2>4, <2>5, ReplayTakes
    <3>. QED  BY <1>0, <3>1 DEF Journals, Takes, Higher
  <2>6. CASE i # Head(replay)
    <3>1. i \in 1..(upto - Len(replay))
      BY <1>0, <2>2, <2>3, <2>6
    <3>2. i <= mark
      BY <2>1, <2>4, <3>1 DEF Passed
    <3>. QED  BY <1>0, <3>2
  <2>. QED  BY <2>5, <2>6
<1>3. CASE pc = "replay" /\ UNCHANGED <<replay, upto>>
  <2>1. i \in 1..(upto - Len(replay)) /\ i \in 1..Len(log)
    <3>1. Len(replay) \in Nat
      BY DEF Types, Memories, Queue
    <3>. QED  BY <1>0, <1>3, <3>1
  <2>2. i <= mark
    BY <1>3, <2>1, KindsStay DEF Passed
  <2>. QED  BY <1>0, <2>1, <2>2
<1>. QED  BY <1>0, <1>1, <1>2, <1>3 DEF Step, LoopStep, Phases, Send, PeerSend,
          Pump, HostStep, ReplayPending, Crash, JournalNext, DrainSteer,
          Generate, Ask, EndTurn, FlushDeferred, TakeInput, ResolveIdle,
          AskReply, AskAnswered, AskPeer, ReplayDone, durables, queues, Goto, At

\* The queues stay in order when one of them is handed on.
LEMMA QueuedStays ==
  ASSUME Types, Phases, Queued, Next
  PROVE  Queued'
<1>. SUFFICES ASSUME OneChannel(cast) PROVE Queued'
  BY KindsStay DEF Queued
<1>. USE QueuesAre
<1>0. /\ Step /\ Len(log) \in Nat /\ mark \in Nat /\ NoAnswers /\ FromPeer = {}
      /\ chan["peer"] = <<>> /\ chan["answers"] = <<>> /\ Pipeline
      /\ (~armed => Nothing)
      /\ (armed => \A i \in 1..Len(log) : Ahead(i) => Holds(i))
  BY Held, NoAnswersAre DEF Next, Queued
<1>00. mark' \in Nat /\ mark' >= mark
  <2>1. mark' = mark \/ \E k \in 1..Len(log) : mark' = Higher(k)
    BY JournalGrows DEF Silent, Journals, Takes
  <2>. QED  BY <1>0, <2>1 DEF Higher
<1>000. ASSUME NEW i \in 1..Len(log), Ahead(i)'
        PROVE  Ahead(i)
  BY <1>0, <1>00, <1>000, KindsStay DEF Ahead
<1>1. CASE \E c \in Cmd : Send(c) \/ PeerSend(c)
  <2>. PICK c \in Cmd : Send(c)
    BY <1>0, <1>1 DEF PeerSend
  <2>. DEFINE n == Len(log) + 1
  <2>1. /\ UNCHANGED <<chan, flush, deferred, armed, mark>>
        /\ (hub' = hub /\ ~armed) \/ (hub' = Append(hub, n) /\ armed)
    BY DEF Send, Phases
  <2>2. Len(log') = n /\ n \in Nat
    BY DEF Send, Types, Logs
  <2>3. \A s : Queue(s, Len(log)) => Below(s, <<n>>)
    BY <1>0 DEF Queue, Below
  <2>. HIDE DEF n
  <2>4. CASE hub' = hub /\ ~armed
    BY <1>0, <2>1, <2>4 DEF Queued, Nothing, Pipeline
  <2>5. CASE hub' = Append(hub, n) /\ armed
    <3>1. Pipeline'
      BY <1>0, <2>1, <2>2, <2>3, <2>5, AppendOrder DEF Pipeline
    <3>2. ASSUME NEW i \in 1..n, Ahead(i)'
          PROVE  Holds(i)'
      <4>1. CASE i = n
        BY <4>1, <2>2, <2>5, AppendOrder DEF Holds
      <4>2. CASE i # n
        <5>1. i \in 1..Len(log)
          BY <1>0, <4>2 DEF n
        <5>2. Holds(i)
          BY <1>0, <1>000, <2>5, <3>2, <5>1
        <5>. QED  BY <2>1, <2>2, <2>5, <5>2, AppendOrder DEF Holds
      <4>. QED  BY <4>1, <4>2
    <3>. QED  BY <1>0, <2>1, <2>2, <2>5, <3>1, <3>2 DEF Queued
  <2>. QED  BY <2>1, <2>4, <2>5
<1>2. CASE Pump
  <2>1. /\ hub # <<>> /\ hub' = Tail(hub) /\ log' = log /\ mark' = mark
        /\ UNCHANGED <<flush, deferred, armed>> /\ Head(hub) \in 1..Len(log)
    BY <1>2, Held DEF Pump, durables
  <2>2. armed
    BY <1>0, <2>1 DEF Nothing
  <2>3. ~IsKind(Head(hub), "answer")
    BY <1>0, <2>1 DEF NoAnswers
  <2>4. CASE IsKind(Head(hub), "input")
    <3>1. ChannelOf(Head(hub)) = "inbox"
      BY <2>4 DEF ChannelOf, IsKind
    <3>2. /\ chan'["inbox"] = Append(chan["inbox"], Head(hub))
          /\ chan'["peer"] = <<>> /\ chan'["answers"] = <<>>
      BY <1>0, <1>2, <3>1 DEF Pump, Types, Memories, Channel
    <3>3. Pipeline'
      <4>1. /\ Ascends(Tail(hub)) /\ Below(<<Head(hub)>>, Tail(hub))
            /\ Tail(hub) \in Seq(Nat) /\ Head(hub) \in Nat
        BY <1>0, <2>1, TailOrder, TailOfQueue DEF Pipeline
      <4>2. \A t \in {flush, deferred, chan["inbox"]} :
              Below(t, Tail(hub)) /\ Below(t, <<Head(hub)>>)
        BY <1>0, <2>1, TailOrder DEF Pipeline
      <4>3. Below(chan'["inbox"], Tail(hub)) /\ Ascends(chan'["inbox"])
        <5>1. chan["inbox"] \in Seq(Nat) /\ Ascends(chan["inbox"])
          BY <1>0 DEF Pipeline
        <5>2. Below(chan["inbox"], Tail(hub)) /\ Below(chan["inbox"], <<Head(hub)>>)
          BY <4>2
        <5>. QED  BY <3>2, <4>1, <5>1, <5>2, AppendOrder
      <4>4. \A t \in {flush, deferred} : Below(t, chan'["inbox"])
        BY <1>0, <3>2, <4>1, <4>2, AppendOrder DEF Pipeline
      <4>. QED  BY <1>0, <2>1, <4>1, <4>2, <4>3, <4>4 DEF Pipeline
    <3>4. ASSUME NEW i \in 1..Len(log), Ahead(i)'
          PROVE  Holds(i)'
      <4>1. Holds(i)
        BY <1>0, <1>000, <2>2, <3>4
      <4>2. Head(hub) \in Nat
            /\ (Has(hub, i) => i = Head(hub) \/ Has(Tail(hub), i))
        BY <2>1, TailOrder, TailOfQueue
      <4>3. Has(chan["inbox"], i) \/ i = Head(hub) => Has(chan'["inbox"], i)
        BY <3>2, <4>2, AppendOrder
      <4>. QED  BY <2>1, <4>1, <4>2, <4>3 DEF Holds
    <3>. QED  BY <2>1, <2>2, <3>2, <3>3, <3>4 DEF Queued
  <2>5. CASE ~IsKind(Head(hub), "input")
    <3>1. ChannelOf(Head(hub)) \in {"revokes", "promotes"}
      <4>1. KindOf[log[Head(hub)]] \in Kind
        <5>1. KindOf \in [Cmd -> Kind]
          BY CastIs DEF Types, Counts
        <5>2. log[Head(hub)] \in Cmd
          BY <2>1 DEF Types, Logs
        <5>. QED  BY <5>1, <5>2
      <4>. QED  BY <2>3, <2>5, <4>1 DEF ChannelOf, IsKind, Kind
    <3>2. /\ chan'["inbox"] = chan["inbox"]
          /\ chan'["peer"] = <<>> /\ chan'["answers"] = <<>>
      BY <1>0, <1>2, <3>1 DEF Pump, Types, Memories, Channel
    <3>3. Pipeline'
      BY <1>0, <2>1, <3>2, TailOrder, TailOfQueue DEF Pipeline
    <3>4. ASSUME NEW i \in 1..Len(log), Ahead(i)'
          PROVE  Holds(i)'
      <4>1. Holds(i) /\ i # Head(hub)
        BY <1>0, <1>000, <2>2, <2>5, <3>4 DEF Ahead
      <4>. QED  BY <2>1, <3>2, <4>1, TailOrder DEF Holds
    <3>. QED  BY <2>1, <2>2, <3>2, <3>3, <3>4 DEF Queued
  <2>. QED  BY <2>4, <2>5
<1>3. CASE HostStep \/ Crash
  <2>1. CASE Host
    BY <1>0, <2>1 DEF Host, durables, Phases, Queued, Nothing, Pipeline
  <2>2. CASE ReplayPending
    <3>1. PICK s \in Ascending(PendingSeqs) : hub' = hub \o s
      BY <2>2 DEF ReplayPending, PendingSeqs
    <3>2. s \in Seq(Nat) /\ Ascends(s) /\ \A i \in PendingSeqs : Has(s, i)
      BY <3>1, PendingSequence DEF Queue
    <3>3. Nothing /\ UNCHANGED <<chan, flush, deferred, mark, log>> /\ armed'
      BY <1>0, <2>2 DEF ReplayPending, durables
    <3>4. Ascends(hub') /\ hub' \in Seq(Nat) /\ \A i \in PendingSeqs : Has(hub', i)
      BY <3>1, <3>2, <3>3, ConcatOrder, EmptyQueue DEF Nothing
    <3>5. Pipeline'
      BY <3>3, <3>4, EmptyQueue DEF Pipeline, Nothing
    <3>6. ASSUME NEW i \in 1..Len(log), Ahead(i)'
          PROVE  Holds(i)'
      <4>1. i \in PendingSeqs
        BY <1>000, <3>6 DEF Ahead, PendingSeqs, PendingCommand
      <4>. QED  BY <3>4, <4>1 DEF Holds
    <3>. QED  BY <1>0, <3>3, <3>5, <3>6 DEF Queued
  <2>3. CASE Crash
    <3>1. Nothing' /\ ~armed' /\ chan' = Empty
      BY <2>3 DEF Crash, Nothing, Empty, Channel
    <3>2. Pipeline'
      BY <3>1, EmptyQueue DEF Nothing, Pipeline
    <3>. QED  BY <3>1, <3>2 DEF Queued, Empty, Channel
  <2>. QED  BY <1>3, <2>1, <2>2, <2>3 DEF HostStep
<1>4. CASE LoopStep
  <2>0. log' = log /\ hub' = hub /\ armed' = armed
    BY <1>4 DEF LoopStep, JournalNext, DrainSteer, Generate, Ask, EndTurn,
       FlushDeferred, TakeInput, ResolveIdle, AskReply, AskAnswered, AskPeer,
       ReplayNext, ReplayDone, durables, queues
  <2>1. CASE Generate \/ Ask \/ EndTurn \/ ResolveIdle \/ ReplayDone \/ ReplayNext
    <3>1. UNCHANGED <<flush, deferred>> /\ chan'["inbox"] = chan["inbox"]
          /\ chan'["peer"] = chan["peer"] /\ chan'["answers"] = chan["answers"]
      <4>1. CASE ReplayNext
        <5>1. Head(replay) \in 1..Len(log)
              /\ (chan' = chan \/ JournalInput(Head(replay), chan))
          BY <4>1, Held DEF ReplayNext, Types, Memories
        <5>. QED  BY <4>1, <5>1, Journaled
                  DEF ReplayNext, Types, Memories, Counts
      <4>. QED  BY <2>1, <4>1 DEF Generate, Ask, EndTurn, ResolveIdle,
                ReplayDone, queues
    <3>2. \A i \in 1..Len(log) : Holds(i)' = Holds(i)
      BY <2>0, <3>1 DEF Holds
    <3>. QED  BY <1>0, <1>000, <2>0, <3>1, <3>2 DEF Queued, Pipeline, Nothing
  <2>2. CASE DrainSteer \/ FlushDeferred
    <3>. DEFINE all == deferred \o chan["inbox"]
    <3>1. /\ all \in Seq(Nat) /\ Ascends(all) /\ Below(all, hub)
          /\ \A x : Has(deferred, x) \/ Has(chan["inbox"], x) => Has(all, x)
      BY <1>0, ConcatOrder DEF Pipeline
    <3>2. flush = <<>> /\ mark' = mark
      BY <2>2 DEF DrainSteer, FlushDeferred, At, durables
    <3>. HIDE DEF all
    <3>3. CASE FlushDeferred
      <4>1. flush' = deferred /\ deferred' = <<>> /\ chan' = chan
        BY <3>3 DEF FlushDeferred
      <4>2. Pipeline'
        BY <1>0, <2>0, <4>1, EmptyQueue DEF Pipeline
      <4>3. \A i \in 1..Len(log) : Holds(i) => Holds(i)'
        BY <2>0, <3>2, <4>1, EmptyQueue DEF Holds
      <4>. QED  BY <1>0, <1>000, <2>0, <4>1, <4>2, <4>3 DEF Queued, Nothing
    <3>4. CASE DrainSteer
      <4>1. /\ \/ flush' = all /\ deferred' = <<>>
               \/ flush' = <<>> /\ deferred' = all
            /\ chan' = [chan EXCEPT !["inbox"] = <<>>, !["promotes"] = <<>>]
        BY <3>4 DEF DrainSteer, all
      <4>2. /\ chan'["inbox"] = <<>> /\ chan'["peer"] = <<>>
            /\ chan'["answers"] = <<>>
        BY <1>0, <4>1 DEF Types, Memories, Channel
      <4>3. Pipeline'
        BY <1>0, <2>0, <3>1, <4>1, <4>2, EmptyQueue DEF Pipeline
      <4>4. \A i \in 1..Len(log) : Holds(i) => Holds(i)'
        BY <2>0, <3>1, <3>2, <4>1, EmptyQueue DEF Holds
      <4>5. ~armed => all = <<>>
        BY <1>0 DEF Nothing, all
      <4>. QED  BY <1>0, <1>000, <2>0, <4>1, <4>2, <4>3, <4>4, <4>5
                DEF Queued, Nothing
    <3>. QED  BY <2>2, <3>3, <3>4
  <2>3. CASE \E q \in {"inbox", "peer"} : TakeInput(q)
    <3>1. /\ chan["inbox"] # <<>> /\ flush' = <<Head(chan["inbox"])>>
          /\ chan' = [chan EXCEPT !["inbox"] = Tail(@)]
          /\ flush = <<>> /\ deferred = <<>> /\ deferred' = deferred /\ mark' = mark
      BY <1>0, <2>3 DEF TakeInput, Take, At, durables, Phases
    <3>. DEFINE s == chan["inbox"]
    <3>2. /\ chan'["inbox"] = Tail(s) /\ chan'["peer"] = <<>>
          /\ chan'["answers"] = <<>> /\ armed
      BY <1>0, <3>1 DEF Types, Memories, Channel, Nothing
    <3>3. /\ Ascends(Tail(s)) /\ Below(<<Head(s)>>, Tail(s)) /\ Below(Tail(s), hub)
          /\ Below(<<Head(s)>>, hub) /\ Tail(s) \in Seq(Nat) /\ Head(s) \in Nat
          /\ \A x : Has(s, x) => x = Head(s) \/ Has(Tail(s), x)
      BY <1>0, <3>1, TailOrder, TailOfQueue DEF Pipeline
    <3>. HIDE DEF s
    <3>4. Ascends(<<Head(s)>>) /\ Has(<<Head(s)>>, Head(s)) /\ flush' = <<Head(s)>>
          /\ <<Head(s)>> \in Seq(Nat)
      BY <3>1, <3>3, OneInQueue DEF s
    <3>5. Pipeline'
      BY <1>0, <2>0, <3>1, <3>2, <3>3, <3>4, EmptyQueue DEF Pipeline
    <3>6. \A i \in 1..Len(log) : Holds(i) => Holds(i)'
      BY <2>0, <3>1, <3>2, <3>3, <3>4, EmptyQueue DEF Holds, s
    <3>. QED  BY <1>0, <1>000, <2>0, <3>2, <3>5, <3>6 DEF Queued
  <2>4. CASE AskAnswered \/ AskPeer
    BY <1>0, <2>4 DEF AskAnswered, AskPeer, Take
  <2>5. CASE AskReply
    <3>. DEFINE s == chan["inbox"]
    <3>1. /\ s # <<>> /\ flush = <<>> /\ deferred = <<>>
          /\ UNCHANGED <<flush, deferred>> /\ mark' = Higher(Head(s))
          /\ chan' = [chan EXCEPT !["inbox"] = Tail(@)]
      BY <2>5 DEF AskReply, CanAnswer, Take, At, Answer
    <3>2. /\ chan'["inbox"] = Tail(s) /\ chan'["peer"] = <<>>
          /\ chan'["answers"] = <<>> /\ armed
      BY <1>0, <3>1 DEF Types, Memories, Channel, Nothing
    <3>3. /\ Ascends(Tail(s)) /\ Below(Tail(s), hub)
          /\ Tail(s) \in Seq(Nat) /\ Head(s) \in Nat
          /\ \A x : Has(s, x) => x = Head(s) \/ Has(Tail(s), x)
      BY <1>0, <3>1, TailOrder, TailOfQueue DEF Pipeline
    <3>. HIDE DEF s
    <3>4. Pipeline'
      BY <1>0, <2>0, <3>1, <3>2, <3>3, EmptyQueue DEF Pipeline
    <3>5. ASSUME NEW i \in 1..Len(log), Ahead(i)'
          PROVE  Holds(i)'
      <4>1. Holds(i) /\ i # Head(s)
        BY <1>0, <1>000, <3>1, <3>2, <3>3, <3>5 DEF Ahead, Higher
      <4>. QED  BY <2>0, <3>1, <3>2, <3>3, <4>1 DEF Holds, s
    <3>. QED  BY <2>0, <3>2, <3>4, <3>5 DEF Queued
  <2>6. CASE JournalNext
    <3>1. /\ flush # <<>> /\ flush' = Tail(flush) /\ deferred' = deferred
          /\ JournalInput(Head(flush), chan) /\ Head(flush) \in 1..Len(log)
          /\ Journals(Head(flush)) /\ armed
      BY <1>0, <2>6, Held, JournalNextTakes DEF JournalNext, Nothing
    <3>2. /\ chan'["inbox"] = chan["inbox"] /\ chan'["peer"] = <<>>
          /\ chan'["answers"] = <<>>
      BY <1>0, <3>1, Journaled DEF Types, Memories, Counts
    <3>3. /\ Tail(flush) \in Seq(Nat) /\ Ascends(Tail(flush))
          /\ \A t \in {deferred, chan["inbox"], hub} : Below(Tail(flush), t)
          /\ \A x : Has(flush, x) => x = Head(flush) \/ Has(Tail(flush), x)
      BY <1>0, <3>1, TailOrder, TailOfQueue DEF Pipeline
    <3>4. Pipeline'
      BY <1>0, <2>0, <3>1, <3>2, <3>3 DEF Pipeline
    <3>5. ASSUME NEW i \in 1..Len(log), Ahead(i)'
          PROVE  Holds(i)'
      <4>1. Holds(i)
        BY <1>0, <1>000, <3>1, <3>5
      <4>2. mark' >= Head(flush)
        BY <1>0, <3>1 DEF Journals, Takes, Higher
      <4>3. i # Head(flush)
        BY <1>00, <3>1, <3>5, <4>2 DEF Ahead
      <4>. QED  BY <2>0, <3>1, <3>2, <3>3, <4>1, <4>3 DEF Holds
    <3>. QED  BY <2>0, <3>1, <3>2, <3>4, <3>5 DEF Queued
  <2>. QED  BY <1>4, <2>1, <2>2, <2>3, <2>4, <2>5, <2>6 DEF LoopStep
<1>. QED  BY <1>0, <1>1, <1>2, <1>3, <1>4 DEF Step

-----------------------------------------------------------------------------
(* The theorems                                                             *)

InboxInv == /\ Types /\ Facts /\ Distinct /\ Phases /\ Replays
            /\ InOrder /\ Queued /\ Passed /\ Swallowed

LEMMA InboxInit == Init => InboxInv
<1>. SUFFICES ASSUME Init PROVE InboxInv
  OBVIOUS
<1>. USE EmptyQueue DEF Init
<1>0. cast \in Casts /\ MaxAsks \in Nat /\ MaxSteps \in Nat /\ MaxCrashes \in Nat
  BY CastIs
<1>1. Logs /\ Counts /\ armed \in BOOLEAN
  BY <1>0 DEF Logs, Counts
<1>2. Queue(<<>>, 0) /\ Empty \in [Channel -> Seq(Nat)]
      /\ \A q \in Channel : Empty[q] = <<>>
  BY DEF Queue, Empty
<1>3. Memories
  BY <1>2 DEF Memories
<1>4. Types
  BY <1>1, <1>3 DEF Types
<1>5. Facts /\ Distinct /\ Phases /\ Replays /\ InOrder /\ Passed /\ Swallowed
  BY DEF Facts, Distinct, Phases, Replays, InOrder, Passed, Swallowed,
     NoneSwallowed, Asked
<1>6. Queued
  BY <1>2 DEF Queued, Pipeline, Nothing, Channel
<1>. QED  BY <1>4, <1>5, <1>6 DEF InboxInv

LEMMA InboxStays ==
  ASSUME InboxInv, [Next]_vars
  PROVE  InboxInv'
<1>1. CASE Next
  BY <1>1, TypesStay, FactsStay, PhasesStay, ReplaysStay, InOrderStays,
     QueuedStays, PassedStays, SwallowedStays DEF InboxInv
<1>2. CASE UNCHANGED vars
  <2>1. Types' = Types
    BY <1>2 DEF vars, Types, Logs, Memories, Counts, Cmd, Fact, MaxAsks, Queue
  <2>2. /\ Facts' = Facts /\ Distinct' = Distinct /\ Phases' = Phases
        /\ Replays' = Replays /\ InOrder' = InOrder
    BY <1>2 DEF vars, Facts, Distinct, Phases, Replays, InOrder, Asked, MaxAsks
  <2>3. Queued' = Queued /\ Passed' = Passed /\ Swallowed' = Swallowed
    BY <1>2 DEF vars, Queued, Passed, Swallowed, NoneSwallowed, OneChannel,
       Pipeline, Nothing, Ahead, Holds, IsKind, KindOf, Settled, Range,
       Ascends, Below, Has, Cmd
  <2>. QED  BY <2>1, <2>2, <2>3 DEF InboxInv
<1>. QED  BY <1>1, <1>2

\* What the invariant says of the journal.
LEMMA InvSettlesRight == InboxInv => SettlesRight
<1>. SUFFICES ASSUME InboxInv PROVE SettlesRight
  OBVIOUS
<1>. USE DEF InboxInv
<1>1. DOMAIN journal = 1..Len(journal) /\ Len(journal) \in Nat
  BY DEF Types, Logs
<1>2. SettledBehindMark
  BY <1>1 DEF SettledBehindMark, Facts, Range
<1>3. OneChannel(cast) => NoneSwallowed
  BY DEF Swallowed
<1>4. ASSUME MaxAsks = 0, NEW j \in 1..Len(journal), NEW k \in 1..Len(journal),
             journal[j].cmd = journal[k].cmd
      PROVE  j = k
  <2>1. journal[j].seq = journal[k].seq /\ journal[j].seq \in 1..Len(log)
    BY <1>4 DEF Facts, Distinct
  <2>2. ~(j < k) /\ ~(k < j)
    BY <1>4, <2>1 DEF InOrder
  <2>. QED  BY <2>2
<1>. QED  BY <1>1, <1>2, <1>3, <1>4 DEF SettlesRight, EffectivelyOnce

\* An input that the loop knows to be withdrawn is not used.
LEMMA InvWithdrawn ==
  ASSUME InboxInv, [Next]_vars, MaxAsks = 0
  PROVE  WithdrawnStaysOut
<1>. USE DEF InboxInv
<1>0. DOMAIN journal = 1..Len(journal) /\ Len(journal) \in Nat
  BY DEF Types, Logs
<1>1. CASE Silent \/ UNCHANGED vars
  BY <1>1 DEF Silent, vars, WithdrawnStaysOut
<1>2. CASE Next /\ ~Silent
  <2>. PICK i \in 1..Len(log) : Journals(i)
    BY <1>2, JournalGrows
  <2>. PICK f \in Fact :
         /\ journal' = Append(journal, f) /\ f.seq = i /\ f.cmd = log[i]
         /\ f.kind = "answered" => Asked
         /\ f.kind = "received" => ~Withdrawn(i)
    BY <1>2 DEF Journals, Takes, Silent
  <2>1. f.kind # "answered"
    BY DEF Phases
  <2>2. DOMAIN journal' = 1..(Len(journal) + 1)
        /\ journal'[Len(journal) + 1] = f
    BY <1>0, AppendedFact
  <2>3. DOMAIN journal' \ DOMAIN journal = {Len(journal) + 1}
    BY <1>0, <2>2
  <2>4. pc = "replay" => flush = <<>>
    BY DEF Phases
  <2>. QED  BY <2>1, <2>2, <2>3, <2>4 DEF WithdrawnStaysOut, Withdrawn
<1>. QED  BY <1>1, <1>2

Inv == InboxInv /\ HostInv

LEMMA StepOfHalf ==
  ASSUME [DeliveryNext]_everything
  PROVE  [Next]_vars /\ [Daemon!Next]_host
BY DEF DeliveryNext, OnInbox, OnHost, everything

\* The inductive invariant of the delivery of commands: the pipeline of queues
\* is in order and whole, replays pass nothing by, and one loop works.
THEOREM Invariance == DeliverySpec => []Inv
<1>1. DeliveryInit => Inv
  BY InboxInit, HostInit DEF DeliveryInit, Inv
<1>2. Inv /\ [DeliveryNext]_everything => Inv'
  BY StepOfHalf, InboxStays, HostStay DEF Inv
<1>. QED  BY <1>1, <1>2, PTL DEF DeliverySpec

\* The variables of mailbox, loop and daemon have their types, whoever sends.
THEOREM TypeCorrect == DeliverySpec => []DeliveryTypeOK
<1>1. Inv => DeliveryTypeOK
  BY TypesAreOK DEF Inv, InboxInv, HostInv, DeliveryTypeOK
<1>. QED  BY <1>1, Invariance, PTL

\* Commands are settled right (journalInput, the hub's channels, Resume's
\* replay, the daemon's re-hosting): none is skipped, used twice or used after
\* its withdrawal was known, by one loop at a time, which is not left out.
THEOREM SettlingIsRight == DeliverySpec => InputsSettleRight
<1>1. Inv /\ Inv' /\ [DeliveryNext]_everything =>
        [/\ SettlesRight' /\ (MaxAsks = 0 => WithdrawnStaysOut)
         /\ (Daemon!OneLoop /\ Daemon!InputIsHosted)']_everything
  <2>. SUFFICES ASSUME Inv, Inv', [DeliveryNext]_everything
                PROVE  /\ SettlesRight' /\ (MaxAsks = 0 => WithdrawnStaysOut)
                       /\ (Daemon!OneLoop /\ Daemon!InputIsHosted)'
    OBVIOUS
  <2>1. MaxAsks = 0 => WithdrawnStaysOut
    BY StepOfHalf, InvWithdrawn DEF Inv
  <2>2. (InboxInv => SettlesRight)'
    BY InvSettlesRight, PTL
  <2>. QED  BY <2>1, <2>2 DEF Inv, HostInv
<1>. QED  BY <1>1, Invariance, PTL DEF DeliverySpec, InputsSettleRight
=============================================================================
