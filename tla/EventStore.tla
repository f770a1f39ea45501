----------------------------- MODULE EventStore -----------------------------
(***************************************************************************)
(* internal/store/eventstore.go: the journal of one session, an            *)
(* append-only JSONL file written under an exclusive flock, with a          *)
(* fixed-width index file that is only a cache.                             *)
(*                                                                          *)
(* The disk is `log` (complete lines), `tail` (a partial last line, if any) *)
(* and `index`.  `durable` lines of the log, and `indexDisk` of the index,  *)
(* were there at the last fsync; a power loss may take the rest.  A line is *)
(* its sequence number and the fact it carries, an offset is a number of    *)
(* lines, and a rolling hash is the prefix it was computed from (SHA-256    *)
(* is taken as injective).                                                  *)
(***************************************************************************)
EXTENDS Integers, Sequences, FiniteSets

CONSTANTS Proc,       \* processes that may open the session for writing
          MaxFacts,   \* bound: appends attempted
          MaxFaults   \* bound: crashes, power losses and I/O errors

ASSUME BoundsAreNat == MaxFacts \in Nat /\ MaxFaults \in Nat

NoProc == "none"      \* flock free, or an empty lock file
DeadPid == "dead"     \* the lock file names a process that is gone

ASSUME ProcsAreNamed == NoProc \notin Proc /\ DeadPid \notin Proc

Line == [seq : Nat, fact : Nat]
Glued == [seq |-> 0, fact |-> 0]     \* a line glued onto a torn tail: no JSON
Record == [seq : Nat, off : Nat, hash : Seq(Line)]
NoRecord == [seq |-> 0, off |-> 0, hash |-> <<>>]  \* origin; also zeroed bytes

VARIABLES
  log, tail, durable,       \* events.jsonl
  index, indexDisk,         \* events.idx, and its content at its last fsync
  lock, pidFile,            \* the flock, and what the lock file says
  st,                       \* where each process stands in the store's methods
  handle,                   \* each process's EventStore value
  acked,                    \* history: envelopes Append has returned
  minted, faults            \* facts handed to Append, faults so far

disk == <<log, tail, durable, index, indexDisk>>
vars == <<log, tail, durable, index, indexDisk, lock, pidFile, st, handle,
          acked, minted, faults>>

Stage == {"closed", "locked", "scanning", "open", "written", "synced",
          "closing"}
Handle == [seq : Nat, off : Nat, hash : Seq(Line), broken : BOOLEAN,
           indexed : BOOLEAN]
Closed == [seq |-> 0, off |-> 0, hash |-> <<>>, broken |-> FALSE,
           indexed |-> FALSE]

Init ==
  /\ log = <<>> /\ tail = "none" /\ durable = 0
  /\ index = <<>> /\ indexDisk = <<>>
  /\ lock = NoProc /\ pidFile = NoProc
  /\ st = [p \in Proc |-> "closed"]
  /\ handle = [p \in Proc |-> Closed]
  /\ acked = {} /\ minted = 0 /\ faults = 0

Goto(p, stage) == st' = [st EXCEPT ![p] = stage]
SetHandle(p, h) == handle' = [handle EXCEPT ![p] = h]
Fault == faults < MaxFaults /\ faults' = faults + 1

-----------------------------------------------------------------------------
(* OpenEventStore                                                           *)


\* acquireLock: the flock, then the truncation of the lock file.
AcquireLock(p) ==
  /\ st[p] = "closed" /\ lock = NoProc
  /\ lock' = p /\ pidFile' = NoProc
  /\ Goto(p, "locked")
  /\ UNCHANGED <<disk, handle, acked, minted, faults>>

Previous(i) == IF i > 1 THEN index[i - 1] ELSE NoRecord

\* validateLastIndexedLine: record i ends exactly one complete line, of its
\* own seq, and extends the rolling hash of the record before it.
ValidRecord(i) ==
  LET last == index[i]
      prev == Previous(i)
  IN /\ last.seq = i
     /\ i > 1 => prev.seq = i - 1
     /\ last.off = prev.off + 1
     /\ last.off <= Len(log)
     /\ log[last.off].seq = last.seq
     /\ last.hash = Append(prev.hash, log[last.off])

\* Mutant: the rolling hash is not taken over from the last record.
CheckIndex_HashForgotten(p) ==
  /\ st[p] = "locked"
  /\ pidFile' = p
  /\ LET n == Len(index)
         good == n > 0 /\ ValidRecord(n)
         last == IF good THEN index[n] ELSE NoRecord
     IN /\ index' = IF good THEN index ELSE <<>>
        /\ SetHandle(p, [Closed EXCEPT !.seq = last.seq, !.off = last.off,
                                       !.indexed = TRUE])
  /\ Goto(p, "scanning")
  /\ UNCHANGED <<log, tail, durable, indexDisk, lock, acked, minted, faults>>

\* reconcileEventIndex up to the scan: the pid has been written; an index
\* whose last record does not describe the log is emptied.
CheckIndex(p) ==
  /\ st[p] = "locked"
  /\ pidFile' = p
  /\ LET n == Len(index)
         good == n > 0 /\ ValidRecord(n)
         last == IF good THEN index[n] ELSE NoRecord
     IN /\ index' = IF good THEN index ELSE <<>>
        /\ SetHandle(p,
             [seq |-> last.seq, off |-> last.off, hash |-> last.hash,
              broken |-> FALSE, indexed |-> TRUE])
  /\ Goto(p, "scanning")
  /\ UNCHANGED <<log, tail, durable, indexDisk, lock, acked, minted, faults>>

NextLine(p) == log[handle[p].off + 1]
Readable(p) == NextLine(p).seq = handle[p].seq + 1

\* scanLogTail: one more complete line, indexed as it is read.
ScanLine(p) ==
  /\ st[p] = "scanning" /\ handle[p].off < Len(log) /\ Readable(p)
  /\ LET rec == [seq |-> handle[p].seq + 1, off |-> handle[p].off + 1,
                 hash |-> Append(handle[p].hash, NextLine(p))]
     IN /\ index' = Append(index, rec)
        /\ SetHandle(p, [handle[p] EXCEPT !.seq = rec.seq, !.off = rec.off,
                                          !.hash = rec.hash])
  /\ UNCHANGED <<log, tail, durable, indexDisk, lock, pidFile, st, acked,
                 minted, faults>>



\* The scan met the end of the log or a torn tail: the index is fsynced and
\* the tail is truncated.
FinishOpen(p) ==
  /\ st[p] = "scanning" /\ handle[p].off = Len(log)
  /\ indexDisk' = index /\ tail' = "none"
  /\ Goto(p, "open")
  /\ UNCHANGED <<log, durable, index, lock, pidFile, handle, acked, minted,
                 faults>>

\* Every error return of OpenEventStore after acquireLock closes the lock
\* file, which frees the flock, and leaves the pid in it.
AbandonOpen(p) ==
  /\ lock' = NoProc
  /\ Goto(p, "closed")
  /\ SetHandle(p, Closed)
  /\ UNCHANGED <<disk, pidFile, acked, minted>>

\* A corrupt or non-contiguous line refuses the open; so does an I/O error
\* while the files are opened, indexed or truncated.
FailOpen(p) ==
  /\ st[p] = "scanning" /\ AbandonOpen(p)
  /\ IF handle[p].off < Len(log) /\ ~Readable(p) THEN UNCHANGED faults ELSE Fault

-----------------------------------------------------------------------------
(* Append, under the store's mutex: one append of a process at a time       *)

CanAppend(p) == st[p] = "open" /\ ~handle[p].broken /\ minted < MaxFacts

\* A write after a partial line does not start a line of its own.
WrittenLine(p) ==
  IF tail = "none" THEN [seq |-> handle[p].seq + 1, fact |-> minted + 1]
                   ELSE Glued

\* seq++, then the whole line reaches the file.
AppendWrite(p) ==
  /\ CanAppend(p)
  /\ log' = Append(log, WrittenLine(p)) /\ tail' = "none"
  /\ minted' = minted + 1
  /\ SetHandle(p, [handle[p] EXCEPT !.seq = @ + 1])
  /\ Goto(p, "written")
  /\ UNCHANGED <<durable, index, indexDisk, lock, pidFile, acked, faults>>


\* The write fails, perhaps half way; seq stays advanced and the store is
\* latched broken.
AppendWriteFails(p) ==
  /\ CanAppend(p) /\ Fault
  /\ tail' \in {tail, "torn"}
  /\ minted' = minted + 1
  /\ SetHandle(p, [handle[p] EXCEPT !.seq = @ + 1, !.broken = TRUE])
  /\ UNCHANGED <<log, durable, index, indexDisk, lock, pidFile, st, acked>>

\* Mutant: the fsync is skipped.
AppendSync_Skipped(p) ==
  /\ st[p] = "written"
  /\ SetHandle(p, [handle[p] EXCEPT !.off = @ + 1,
                                    !.hash = Append(@, log[Len(log)])])
  /\ Goto(p, "synced")
  /\ UNCHANGED <<disk, lock, pidFile, acked, minted, faults>>

AppendSync(p) ==
  /\ st[p] = "written"
  /\ durable' = Len(log)
  /\ SetHandle(p, [handle[p] EXCEPT !.off = @ + 1,
                                    !.hash = Append(@, log[Len(log)])])
  /\ Goto(p, "synced")
  /\ UNCHANGED <<log, tail, index, indexDisk, lock, pidFile, acked, minted,
                 faults>>

Envelope(p) == [seq |-> handle[p].seq, fact |-> log[Len(log)].fact]

\* Mutant: an fsync error is logged and the envelope returned all the same.
AppendSyncFails_Ignored(p) ==
  /\ st[p] = "written" /\ Fault
  /\ acked' = acked \cup {Envelope(p)}
  /\ SetHandle(p, [handle[p] EXCEPT !.off = @ + 1,
                                    !.hash = Append(@, log[Len(log)])])
  /\ Goto(p, "open")
  /\ UNCHANGED <<disk, lock, pidFile, minted>>

AppendSyncFails(p) ==
  /\ st[p] = "written" /\ Fault
  /\ SetHandle(p, [handle[p] EXCEPT !.broken = TRUE])
  /\ Goto(p, "open")
  /\ UNCHANGED <<disk, lock, pidFile, acked, minted>>

Ack(p) ==
  /\ acked' = acked \cup {Envelope(p)}
  /\ Goto(p, "open")
  /\ UNCHANGED <<log, tail, durable, indexDisk, lock, pidFile, minted>>

\* The cache gets its record and Append returns the envelope.
AppendReturn(p) ==
  /\ st[p] = "synced"
  /\ index' = IF handle[p].indexed
              THEN Append(index, [seq |-> handle[p].seq, off |-> handle[p].off,
                                  hash |-> handle[p].hash])
              ELSE index
  /\ Ack(p)
  /\ UNCHANGED <<handle, faults>>

\* The cache cannot be written: it is given up until the next open, and the
\* append still succeeds.
AppendIndexFails(p) ==
  /\ st[p] = "synced" /\ handle[p].indexed /\ Fault
  /\ SetHandle(p, [handle[p] EXCEPT !.indexed = FALSE])
  /\ UNCHANGED index
  /\ Ack(p)

-----------------------------------------------------------------------------
(* Close                                                                    *)

CloseScrub(p) ==
  /\ st[p] = "open"
  /\ pidFile' = NoProc
  /\ SetHandle(p, Closed)
  /\ Goto(p, "closing")
  /\ UNCHANGED <<disk, lock, acked, minted, faults>>

CloseRelease(p) ==
  /\ st[p] = "closing"
  /\ lock' = NoProc
  /\ Goto(p, "closed")
  /\ UNCHANGED <<disk, pidFile, handle, acked, minted, faults>>

-----------------------------------------------------------------------------
(* What the code survives                                                   *)

\* Mutant: a pid file instead of a flock: the dead holder still blocks.
Forget_StaleLock(procs) ==
  /\ st' = [p \in Proc |-> IF p \in procs THEN "closed" ELSE st[p]]
  /\ handle' = [p \in Proc |-> IF p \in procs THEN Closed ELSE handle[p]]
  /\ lock' = IF lock \in procs THEN DeadPid ELSE lock
  /\ pidFile' = IF pidFile \in procs THEN DeadPid ELSE pidFile
  /\ UNCHANGED <<acked, minted>>

\* The kernel drops the flock of a dead process; its pid stays in the file.
Forget(procs) ==
  /\ st' = [p \in Proc |-> IF p \in procs THEN "closed" ELSE st[p]]
  /\ handle' = [p \in Proc |-> IF p \in procs THEN Closed ELSE handle[p]]
  /\ lock' = IF lock \in procs THEN NoProc ELSE lock
  /\ pidFile' = IF pidFile \in procs THEN DeadPid ELSE pidFile
  /\ UNCHANGED <<acked, minted>>

\* A process is killed, perhaps inside the write of a line; the files stay.
Crash(p) ==
  /\ Fault /\ Forget({p})
  /\ tail' \in IF CanAppend(p) THEN {tail, "torn"} ELSE {tail}
  /\ UNCHANGED <<log, durable, index, indexDisk>>

\* Power loss: each file keeps what its last fsync covered and any part of
\* what came after, so an index record may be old, new or zeroed bytes.
RecordsAt(i) ==
  {NoRecord} \cup (IF i <= Len(index) THEN {index[i]} ELSE {})
             \cup (IF i <= Len(indexDisk) THEN {indexDisk[i]} ELSE {})

SurvivingIndex(n) ==
  {f \in [1..n -> UNION {RecordsAt(i) : i \in 1..n}] :
     \A i \in 1..n : f[i] \in RecordsAt(i)}

PowerLoss ==
  /\ Fault /\ Forget(Proc)
  /\ \E k \in durable..Len(log) : log' = SubSeq(log, 1, k)
  /\ tail' \in {"none", "torn"}
  /\ IF index = indexDisk THEN index' = index
     ELSE \E n \in {Len(index), Len(indexDisk)} : index' \in SurvivingIndex(n)
  /\ indexDisk' = index'
  /\ UNCHANGED durable

Next ==
  \/ \E p \in Proc :
       \/ AcquireLock(p) \/ CheckIndex(p) \/ ScanLine(p) \/ FinishOpen(p)
       \/ FailOpen(p)
       \/ AppendWrite(p) \/ AppendWriteFails(p) \/ AppendSync(p)
       \/ AppendSyncFails(p) \/ AppendReturn(p) \/ AppendIndexFails(p)
       \/ CloseScrub(p) \/ CloseRelease(p) \/ Crash(p)
  \/ PowerLoss

Spec == Init /\ [][Next]_vars

-----------------------------------------------------------------------------
(* Properties                                                               *)

TypeOK ==
  /\ log \in Seq(Line) /\ tail \in {"none", "torn"} /\ durable \in Nat
  /\ index \in Seq(Record) /\ indexDisk \in Seq(Record)
  /\ lock \in Proc \cup {NoProc} /\ pidFile \in Proc \cup {NoProc, DeadPid}
  /\ st \in [Proc -> Stage] /\ handle \in [Proc -> Handle]
  /\ acked \subseteq Line /\ minted \in Nat /\ faults \in Nat

\* An envelope that Append returned is in the fsynced part of the journal, at
\* its own sequence number, whatever crashed or failed since: "fsync precedes
\* ack" (Append, OpenEventStore).
AckedDurable ==
  \A e \in acked : e.seq \in 1..durable /\ e.seq <= Len(log) /\ log[e.seq] = e

\* Sequence numbers are dense and no line was ever glued onto a torn tail, so
\* that every open and every lock-free reader can fold the file.
JournalReadable == \A i \in 1..Len(log) : log[i].seq = i

\* An open, unbroken store agrees with the file: its next append continues the
\* journal, and its cursor is the true prefix hash (the snapshots rely on it).
HandleExact ==
  \A p \in Proc : st[p] = "open" /\ ~handle[p].broken =>
    /\ handle[p].seq = Len(log) /\ handle[p].off = Len(log)
    /\ handle[p].hash = log /\ tail = "none"

\* A record of the index that passes the validation of ReadEventsAfter is a true
\* cursor of the journal, even after a power loss mixed old and new records:
\* the tail read from it is the tail a full read would give.
ValidCursorExact ==
  \A i \in 1..Len(index) :
    ValidRecord(i) => index[i].off = i /\ index[i].hash = SubSeq(log, 1, i)

\* HasLiveWriter of a process that signals a recorded pid.
HasLiveWriter == pidFile \in Proc

\* A process that has the store open is always seen by the lock-free probe, so
\* that nobody takes a running session for a stranded one (HasLiveWriter).
HostSeen ==
  \A p \in Proc : st[p] \in {"scanning", "open", "written", "synced"} =>
    HasLiveWriter /\ pidFile = p

\* What the files and the handles say of the journal is true: readable lines,
\* exact handles, true cursors, a visible host.
FilesAreTrue == JournalReadable /\ HandleExact /\ ValidCursorExact /\ HostSeen

\* HasLiveWriter: "the recorded pid is the last successful opener's, which the
\* kernel-released flock guarantees is the current holder for a live session".
RecordedPidHoldsLock == HasLiveWriter => lock = pidFile

\* What a reader saw acknowledged never changes: the journal only grows past
\* the last acknowledged envelope, and what is cut was never acknowledged.
AckedPrefixStable ==
  [][\A e \in acked : e.seq <= Len(log') /\ log'[e.seq] = log[e.seq]]_vars

\* The detailed store implements the abstract journal.
J == INSTANCE Journal WITH Payload <- 1..MaxFacts, facts <- log, acked <- acked
ImplementsJournal == J!Spec
=============================================================================
