-------------------------- MODULE EventStoreProof --------------------------
(***************************************************************************)
(* The journal's safety, for any number of processes, appends and faults.   *)
(*                                                                          *)
(* Acknowledged envelopes survive because (a) only the holder of the flock  *)
(* writes, (b) its handle agrees with the file until the store is latched   *)
(* broken, so that every complete line carries its own position, and (c)    *)
(* nothing is acknowledged beyond the last fsync.  The handle agrees with   *)
(* the file because the index record it starts from is honest: a record is  *)
(* the true prefix of the journal as far as the journal reaches.            *)
(***************************************************************************)
EXTENDS EventStore, SequenceTheorems, TLAPS

-----------------------------------------------------------------------------
(* Prefixes of a sequence                                                    *)

Prefix(s, n) == SubSeq(s, 1, n)

\* A prefix is a sequence of the same elements, of the length asked for.
LEMMA PrefixProperties ==
  ASSUME NEW S, NEW s \in Seq(S), NEW n \in 0..Len(s)
  PROVE  /\ Prefix(s, n) \in Seq(S) /\ Len(Prefix(s, n)) = n
         /\ \A i \in 1..n : Prefix(s, n)[i] = s[i]
<1>1. \A i \in 1..n : s[i] \in S
  BY ElementOfSeq, LenProperties, n \in 0..Len(s)
<1>. QED  BY <1>1, SubSeqProperties, LenProperties DEF Prefix

\* A prefix of what was there does not see what is appended.
LEMMA PrefixOfAppend ==
  ASSUME NEW S, NEW s \in Seq(S), NEW e \in S, NEW n \in 0..Len(s)
  PROVE  Prefix(Append(s, e), n) = Prefix(s, n)
<1>1. Len(s) \in Nat  BY LenProperties
<1>. DEFINE t == Append(s, e)
<1>2. /\ t \in Seq(S) /\ n \in 0..Len(t)
      /\ \A i \in 1..Len(s) : t[i] = s[i]
  BY <1>1, AppendProperties
<1>. HIDE DEF t
<1>3. /\ Prefix(t, n) \in Seq(S) /\ Len(Prefix(t, n)) = n
      /\ \A i \in 1..n : Prefix(t, n)[i] = t[i]
  BY PrefixProperties, <1>2
<1>4. /\ Prefix(s, n) \in Seq(S) /\ Len(Prefix(s, n)) = n
      /\ \A i \in 1..n : Prefix(s, n)[i] = s[i]
  BY PrefixProperties
<1>5. \A i \in 1..n : t[i] = s[i]
  BY <1>1, <1>2
<1>6. Prefix(t, n) = Prefix(s, n)  BY <1>3, <1>4, <1>5, SeqEqual
<1>. QED  BY <1>6 DEF t

\* The next element makes a prefix the next prefix.
LEMMA PrefixExtend ==
  ASSUME NEW S, NEW s \in Seq(S), NEW n \in 0..Len(s), n < Len(s)
  PROVE  Append(Prefix(s, n), s[n + 1]) = Prefix(s, n + 1)
<1>1. Len(s) \in Nat /\ n + 1 \in 1..Len(s)  BY LenProperties
<1>2. s[n + 1] \in S  BY <1>1, ElementOfSeq
<1>3. /\ Prefix(s, n) \in Seq(S) /\ Len(Prefix(s, n)) = n
      /\ \A i \in 1..n : Prefix(s, n)[i] = s[i]
  BY PrefixProperties
<1>4. /\ Prefix(s, n + 1) \in Seq(S) /\ Len(Prefix(s, n + 1)) = n + 1
      /\ \A i \in 1..(n + 1) : Prefix(s, n + 1)[i] = s[i]
  BY <1>1, PrefixProperties
<1>5. /\ Append(Prefix(s, n), s[n + 1]) \in Seq(S)
      /\ Len(Append(Prefix(s, n), s[n + 1])) = n + 1
      /\ \A i \in 1..n : Append(Prefix(s, n), s[n + 1])[i] = s[i]
      /\ Append(Prefix(s, n), s[n + 1])[n + 1] = s[n + 1]
  BY <1>2, <1>3, AppendProperties
<1>6. \A i \in 1..(n + 1) :
         Append(Prefix(s, n), s[n + 1])[i] = Prefix(s, n + 1)[i]
  BY <1>4, <1>5
<1>. QED  BY <1>4, <1>5, <1>6, SeqEqual

\* A prefix of a prefix is a prefix.
LEMMA PrefixOfPrefix ==
  ASSUME NEW S, NEW s \in Seq(S), NEW k \in 0..Len(s), NEW n \in 0..k
  PROVE  Prefix(Prefix(s, k), n) = Prefix(s, n)
<1>1. Len(s) \in Nat /\ n \in 0..Len(s)  BY LenProperties
<1>2. /\ Prefix(s, k) \in Seq(S) /\ Len(Prefix(s, k)) = k
      /\ \A i \in 1..k : Prefix(s, k)[i] = s[i]
  BY PrefixProperties
<1>3. /\ Prefix(s, n) \in Seq(S) /\ Len(Prefix(s, n)) = n
      /\ \A i \in 1..n : Prefix(s, n)[i] = s[i]
  BY <1>1, PrefixProperties
<1>4. /\ Prefix(Prefix(s, k), n) \in Seq(S) /\ Len(Prefix(Prefix(s, k), n)) = n
      /\ \A i \in 1..n : Prefix(Prefix(s, k), n)[i] = Prefix(s, k)[i]
  BY <1>2, PrefixProperties
<1>5. \A i \in 1..n : Prefix(Prefix(s, k), n)[i] = Prefix(s, n)[i]
  BY <1>1, <1>2, <1>3, <1>4
<1>. QED  BY <1>3, <1>4, <1>5, SeqEqual

\* The whole sequence is its longest prefix, the empty one its shortest.
LEMMA PrefixEnds ==
  ASSUME NEW S, NEW s \in Seq(S)
  PROVE  Prefix(s, Len(s)) = s /\ Prefix(s, 0) = <<>>
BY SubSeqFull, SubSeqEmpty, LenProperties DEF Prefix

-----------------------------------------------------------------------------
(* The inductive invariant                                                  *)

\* The processes inside the store's methods hold the flock; past acquireLock
\* their pid is in the lock file.
LockInv ==
  \A p \in Proc :
    /\ st[p] # "closed" <=> lock = p
    /\ st[p] \in {"scanning", "open", "written", "synced"} => pidFile = p

\* During the scan the handle is a prefix of the journal and the index covers
\* exactly that prefix.
ScanInv(p) ==
  /\ handle[p].seq = handle[p].off /\ handle[p].off <= Len(log)
  /\ handle[p].hash = Prefix(log, handle[p].off)
  /\ Len(index) = handle[p].off
  /\ ~handle[p].broken

\* Lines the handle has accounted for: all but the one being appended.
Accounted(p) == IF st[p] = "written" THEN Len(log) - 1 ELSE Len(log)
Indexed(p) == IF st[p] = "open" THEN Len(log) ELSE Len(log) - 1

\* An unbroken open store agrees with the file.
AgreeInv(p) ==
  /\ handle[p].seq = Len(log) /\ handle[p].off = Accounted(p)
  /\ handle[p].hash = Prefix(log, Accounted(p))
  /\ tail = "none"
  /\ handle[p].indexed => Len(index) = Indexed(p)

HandleOK(p) ==
  /\ st[p] = "scanning" => ScanInv(p)
  /\ st[p] \in {"open", "written", "synced"} =>
       /\ Len(index) <= Len(log) /\ Len(indexDisk) <= Len(log)
       /\ ~handle[p].broken => AgreeInv(p)
  /\ st[p] \in {"written", "synced"} => ~handle[p].broken /\ Len(log) > 0
  /\ st[p] = "synced" => durable = Len(log)

HandleInv == \A p \in Proc : HandleOK(p)

\* A record stands at its own ordinal, or is zeroed bytes; as far as the
\* journal reaches, its hash is the journal's prefix.
HonestRecord(rec, i, journal) ==
  \/ rec = NoRecord
  \/ /\ rec.seq = i /\ rec.off = i
     /\ i <= Len(journal) => rec.hash = Prefix(journal, i)

IndexInv ==
  /\ \A i \in 1..Len(index) : HonestRecord(index[i], i, log)
  /\ \A i \in 1..Len(indexDisk) : HonestRecord(indexDisk[i], i, log)

IInv ==
  /\ TypeOK /\ durable <= Len(log) /\ LockInv
  /\ JournalReadable /\ AckedDurable /\ HandleInv /\ IndexInv

-----------------------------------------------------------------------------
(* Types                                                                    *)

LEMMA InitTypeOK == Init => TypeOK
BY BoundsAreNat, EmptySeq DEF Init, TypeOK, Closed, Handle, Stage, Line

\* A power loss leaves an index of records.
LEMMA SurvivingIndexType ==
  ASSUME TypeOK, NEW n \in Nat, NEW f \in SurvivingIndex(n)
  PROVE  /\ f \in Seq(Record) /\ Len(f) = n
         /\ \A i \in 1..n :
              \/ f[i] = NoRecord
              \/ i \in 1..Len(index) /\ f[i] = index[i]
              \/ i \in 1..Len(indexDisk) /\ f[i] = indexDisk[i]
<1>1. \A i \in 1..n :
         \/ f[i] = NoRecord
         \/ i \in 1..Len(index) /\ f[i] = index[i]
         \/ i \in 1..Len(indexDisk) /\ f[i] = indexDisk[i]
  BY DEF SurvivingIndex, RecordsAt
<1>2. NoRecord \in Record
  BY EmptySeq DEF NoRecord, Record
<1>3. \A i \in 1..n : f[i] \in Record
  BY <1>1, <1>2, ElementOfSeq DEF TypeOK
<1>4. f = [i \in 1..n |-> f[i]]
  BY DEF SurvivingIndex
<1>5. f \in [1..n -> Record]
  BY <1>3, <1>4
<1>6. f \in Seq(Record)
  BY <1>5, SeqDef
<1>7. Len(f) = n
  BY <1>5, <1>6, LenProperties
<1>. QED  BY <1>1, <1>6, <1>7

LEMMA StepTypeOK == IInv /\ [Next]_vars => TypeOK'
<1>. SUFFICES ASSUME IInv, [Next]_vars PROVE TypeOK'
  OBVIOUS
<1>. USE DEF TypeOK, SetHandle, Goto
<1>a. TypeOK /\ HandleInv  BY DEF IInv
<1>b. \A p \in Proc : handle[p] \in Handle  BY <1>a
<1>c. Stage = Stage \cup {"closed", "locked", "scanning", "open", "written",
                          "synced", "closing"}  BY DEF Stage
<1>d. Closed \in Handle  BY EmptySeq DEF Closed, Handle
<1>e. Len(log) \in Nat /\ Len(index) \in Nat /\ Len(indexDisk) \in Nat
  BY <1>a, LenProperties
<1>0. CASE UNCHANGED vars  BY <1>0, <1>a DEF vars
<1>1. ASSUME NEW p \in Proc, AcquireLock(p) PROVE TypeOK'
  BY <1>1, <1>a, <1>c DEF AcquireLock, disk
<1>2. ASSUME NEW p \in Proc, CheckIndex(p) PROVE TypeOK'
  <2>. DEFINE good == Len(index) > 0 /\ ValidRecord(Len(index))
              last == IF good THEN index[Len(index)] ELSE NoRecord
              h == [seq |-> last.seq, off |-> last.off, hash |-> last.hash,
                    broken |-> FALSE, indexed |-> TRUE]
  <2>1. last \in Record
    <3>1. NoRecord \in Record  BY EmptySeq DEF NoRecord, Record
    <3>2. CASE good  BY <3>2, <1>a, <1>e, ElementOfSeq
    <3>. QED  BY <3>1, <3>2
  <2>2. /\ index' = (IF good THEN index ELSE <<>>)
        /\ handle' = [handle EXCEPT ![p] = h]
    BY <1>2 DEF CheckIndex
  <2>. HIDE DEF good, last
  <2>3. h \in Handle  BY <2>1 DEF Record, Handle
  <2>. HIDE DEF h
  <2>4. index' \in Seq(Record)  BY <2>2, <1>a, EmptySeq
  <2>5. handle' \in [Proc -> Handle]  BY <2>2, <2>3, <1>a
  <2>. QED  BY <1>2, <1>a, <1>c, <2>4, <2>5 DEF CheckIndex
<1>3. ASSUME NEW p \in Proc, ScanLine(p) PROVE TypeOK'
  <2>1. NextLine(p) \in Line
    BY <1>3, <1>a, <1>b, <1>e, ElementOfSeq DEF ScanLine, NextLine, Handle
  <2>. DEFINE rec == [seq |-> handle[p].seq + 1, off |-> handle[p].off + 1,
                      hash |-> Append(handle[p].hash, NextLine(p))]
              h == [handle[p] EXCEPT !.seq = rec.seq, !.off = rec.off,
                                     !.hash = rec.hash]
  <2>2. rec \in Record  BY <2>1, <1>b, AppendProperties DEF Handle, Record
  <2>3. index' = Append(index, rec) /\ handle' = [handle EXCEPT ![p] = h]
    BY <1>3 DEF ScanLine
  <2>. HIDE DEF rec
  <2>4. h \in Handle  BY <2>2, <1>b DEF Record, Handle
  <2>. HIDE DEF h
  <2>5. index' \in Seq(Record)  BY <2>2, <2>3, <1>a, AppendProperties
  <2>6. handle' \in [Proc -> Handle]  BY <2>3, <2>4, <1>a
  <2>. QED  BY <1>3, <1>a, <2>5, <2>6 DEF ScanLine
<1>4. ASSUME NEW p \in Proc, FinishOpen(p) PROVE TypeOK'
  BY <1>4, <1>a, <1>c DEF FinishOpen
<1>5. ASSUME NEW p \in Proc, FailOpen(p) PROVE TypeOK'
  BY <1>5, <1>a, <1>c, <1>d DEF FailOpen, AbandonOpen, Fault, disk
<1>6. ASSUME NEW p \in Proc, AppendWrite(p) PROVE TypeOK'
  <2>1. WrittenLine(p) \in Line
    BY <1>a, <1>b DEF WrittenLine, Glued, Line, Handle
  <2>2. log' \in Seq(Line)  BY <1>6, <1>a, <2>1, AppendProperties DEF AppendWrite
  <2>3. [handle[p] EXCEPT !.seq = @ + 1] \in Handle  BY <1>b DEF Handle
  <2>4. handle' \in [Proc -> Handle]  BY <1>6, <1>a, <2>3 DEF AppendWrite
  <2>. QED  BY <1>6, <1>a, <1>c, <2>2, <2>4 DEF AppendWrite
<1>7. ASSUME NEW p \in Proc, AppendWriteFails(p) PROVE TypeOK'
  <2>. DEFINE h == [handle[p] EXCEPT !.seq = @ + 1]
  <2>1. h \in Handle  BY <1>b DEF Handle
  <2>2. handle' = [handle EXCEPT ![p] = [h EXCEPT !.broken = TRUE]]
    BY <1>7 DEF AppendWriteFails
  <2>. HIDE DEF h
  <2>3. [h EXCEPT !.broken = TRUE] \in Handle  BY <2>1 DEF Handle
  <2>4. handle' \in [Proc -> Handle]  BY <1>a, <2>2, <2>3
  <2>. QED  BY <1>7, <1>a, <2>4 DEF AppendWriteFails, Fault
<1>8. ASSUME NEW p \in Proc, AppendSync(p) PROVE TypeOK'
  <2>1. log[Len(log)] \in Line
    BY <1>8, <1>a, <1>e, ElementOfSeq DEF AppendSync, HandleInv, HandleOK
  <2>2. Append(handle[p].hash, log[Len(log)]) \in Seq(Line)
    BY <2>1, <1>b, AppendProperties DEF Handle
  <2>. DEFINE hash == Append(handle[p].hash, log[Len(log)])
              h == [handle[p] EXCEPT !.off = @ + 1]
  <2>3. h \in Handle /\ h.hash = handle[p].hash  BY <1>b DEF Handle
  <2>4. handle' = [handle EXCEPT ![p] = [h EXCEPT !.hash = hash]]
    BY <1>8, <2>3 DEF AppendSync
  <2>. HIDE DEF h, hash
  <2>5. [h EXCEPT !.hash = hash] \in Handle  BY <2>2, <2>3 DEF Handle, hash
  <2>6. handle' \in [Proc -> Handle]  BY <1>a, <2>4, <2>5
  <2>. QED  BY <1>8, <1>a, <1>c, <1>e, <2>6 DEF AppendSync
<1>9. ASSUME NEW p \in Proc, AppendSyncFails(p) PROVE TypeOK'
  <2>1. [handle[p] EXCEPT !.broken = TRUE] \in Handle  BY <1>b DEF Handle
  <2>2. handle' \in [Proc -> Handle]  BY <1>9, <1>a, <2>1 DEF AppendSyncFails
  <2>. QED  BY <1>9, <1>a, <1>c, <2>2 DEF AppendSyncFails, Fault, disk
<1>10. ASSUME NEW p \in Proc, st[p] = "synced" PROVE Envelope(p) \in Line
  <2>1. log[Len(log)] \in Line
    BY <1>10, <1>a, <1>e, ElementOfSeq DEF HandleInv, HandleOK
  <2>. QED  BY <2>1, <1>b DEF Envelope, Line, Handle
<1>11. ASSUME NEW p \in Proc, AppendReturn(p) PROVE TypeOK'
  <2>. DEFINE rec == [seq |-> handle[p].seq, off |-> handle[p].off,
                      hash |-> handle[p].hash]
  <2>1. rec \in Record  BY <1>b DEF Handle, Record
  <2>2. index' = IF handle[p].indexed THEN Append(index, rec) ELSE index
    BY <1>11 DEF AppendReturn
  <2>. HIDE DEF rec
  <2>3. index' \in Seq(Record)  BY <2>1, <2>2, <1>a, AppendProperties
  <2>4. Envelope(p) \in Line  BY <1>10, <1>11 DEF AppendReturn
  <2>. QED  BY <1>11, <1>a, <1>c, <2>3, <2>4 DEF AppendReturn, Ack
<1>12. ASSUME NEW p \in Proc, AppendIndexFails(p) PROVE TypeOK'
  <2>1. [handle[p] EXCEPT !.indexed = FALSE] \in Handle  BY <1>b DEF Handle
  <2>2. handle' \in [Proc -> Handle]  BY <1>12, <1>a, <2>1 DEF AppendIndexFails
  <2>3. Envelope(p) \in Line  BY <1>10, <1>12 DEF AppendIndexFails
  <2>. QED  BY <1>12, <1>a, <1>c, <2>2, <2>3 DEF AppendIndexFails, Ack, Fault
<1>13. ASSUME NEW p \in Proc, CloseScrub(p) \/ CloseRelease(p) PROVE TypeOK'
  BY <1>13, <1>a, <1>c, <1>d DEF CloseScrub, CloseRelease, disk
<1>14. ASSUME NEW procs, Forget(procs)
       PROVE  /\ st' \in [Proc -> Stage] /\ handle' \in [Proc -> Handle]
              /\ lock' \in Proc \cup {NoProc}
              /\ pidFile' \in Proc \cup {NoProc, DeadPid}
              /\ acked' \subseteq Line /\ minted' \in Nat
  <2>1. "closed" \in Stage  BY DEF Stage
  <2>. QED  BY <1>14, <1>a, <1>b, <1>d, <2>1 DEF Forget
<1>15. ASSUME NEW p \in Proc, Crash(p) PROVE TypeOK'
  <2>1. tail' \in {"none", "torn"}  BY <1>15, <1>a DEF Crash
  <2>. QED  BY <1>14, <1>15, <1>a, <2>1 DEF Crash, Fault
<1>16. CASE PowerLoss
  <2>1. log' \in Seq(Line)
    <3>1. PICK k \in durable..Len(log) : log' = SubSeq(log, 1, k)
      BY <1>16 DEF PowerLoss
    <3>2. k \in 0..Len(log)  BY <3>1, <1>a, <1>e
    <3>. QED  BY <3>1, <3>2, <1>a, PrefixProperties DEF Prefix
  <2>2. index' \in Seq(Record)
    <3>1. CASE index = indexDisk  BY <3>1, <1>16, <1>a DEF PowerLoss
    <3>2. CASE index # indexDisk
      <4>1. PICK n \in {Len(index), Len(indexDisk)} : index' \in SurvivingIndex(n)
        BY <3>2, <1>16 DEF PowerLoss
      <4>. QED  BY <4>1, <1>a, <1>e, SurvivingIndexType
    <3>. QED  BY <3>1, <3>2
  <2>3. Forget(Proc)  BY <1>16 DEF PowerLoss
  <2>. QED  BY <1>14, <1>16, <1>a, <2>1, <2>2, <2>3 DEF PowerLoss, Fault
<1>. QED
  BY <1>0, <1>1, <1>2, <1>3, <1>4, <1>5, <1>6, <1>7, <1>8, <1>9, <1>11, <1>12,
     <1>13, <1>15, <1>16 DEF Next

-----------------------------------------------------------------------------
(* The lock, the journal, the handles, the index                            *)

\* Only the holder of the flock is anywhere in the store's methods.
LEMMA OthersClosed ==
  ASSUME LockInv, NEW p \in Proc, st[p] # "closed", NEW q \in Proc, q # p
  PROVE  st[q] = "closed"
BY DEF LockInv

\* Which field an action changes, and for whom.
LEMMA PointUpdates ==
  ASSUME TypeOK, NEW p \in Proc
  PROVE  /\ \A stage : Goto(p, stage) =>
              /\ st'[p] = stage
              /\ \A q \in Proc \ {p} : st'[q] = st[q]
         /\ \A h : SetHandle(p, h) =>
              /\ handle'[p] = h
              /\ \A q \in Proc \ {p} : handle'[q] = handle[q]
BY DEF TypeOK, Goto, SetHandle

LEMMA StepLockInv == IInv /\ [Next]_vars => LockInv'
<1>. SUFFICES ASSUME IInv, [Next]_vars PROVE LockInv'
  OBVIOUS
<1>a. TypeOK /\ LockInv  BY DEF IInv
<1>b. \A p \in Proc : p # NoProc /\ p # DeadPid  BY ProcsAreNamed
<1>0. CASE UNCHANGED vars  BY <1>0, <1>a DEF vars, LockInv
<1>1. ASSUME NEW p \in Proc, AcquireLock(p) PROVE LockInv'
  BY <1>1, <1>a, <1>b DEF AcquireLock, Goto, TypeOK, LockInv
<1>2. ASSUME NEW p \in Proc, CheckIndex(p) PROVE LockInv'
  BY <1>2, <1>a, <1>b DEF CheckIndex, Goto, TypeOK, LockInv
<1>3. ASSUME NEW p \in Proc, ScanLine(p) PROVE LockInv'
  BY <1>3, <1>a DEF ScanLine, LockInv
<1>4. ASSUME NEW p \in Proc, FinishOpen(p) PROVE LockInv'
  BY <1>4, <1>a DEF FinishOpen, Goto, TypeOK, LockInv
<1>5. ASSUME NEW p \in Proc, FailOpen(p) PROVE LockInv'
  BY <1>5, <1>a, <1>b DEF FailOpen, AbandonOpen, Goto, TypeOK, LockInv
<1>6. ASSUME NEW p \in Proc,
             \/ AppendWrite(p) \/ AppendWriteFails(p) \/ AppendSync(p)
             \/ AppendSyncFails(p)
      PROVE  LockInv'
  BY <1>6, <1>a
  DEF AppendWrite, AppendWriteFails, AppendSync, AppendSyncFails, CanAppend,
      Goto, TypeOK, LockInv
<1>7. ASSUME NEW p \in Proc, AppendReturn(p) \/ AppendIndexFails(p)
      PROVE  LockInv'
  BY <1>7, <1>a DEF AppendReturn, AppendIndexFails, Ack, Goto, TypeOK, LockInv
<1>8. ASSUME NEW p \in Proc, CloseScrub(p) PROVE LockInv'
  BY <1>8, <1>a DEF CloseScrub, Goto, TypeOK, LockInv
<1>9. ASSUME NEW p \in Proc, CloseRelease(p) PROVE LockInv'
  BY <1>9, <1>a, <1>b DEF CloseRelease, Goto, TypeOK, LockInv
<1>10. ASSUME NEW procs, Forget(procs) PROVE LockInv'
  BY <1>10, <1>a, <1>b DEF Forget, TypeOK, LockInv
<1>. QED
  BY <1>0, <1>1, <1>2, <1>3, <1>4, <1>5, <1>6, <1>7, <1>8, <1>9, <1>10
  DEF Next, Crash, PowerLoss

\* The journal's part of the invariant.
JournalInv == durable <= Len(log) /\ JournalReadable /\ AckedDurable

\* Appending the line after the last keeps the journal readable.
LEMMA GrowJournal ==
  ASSUME TypeOK, JournalInv, NEW line \in Line, line.seq = Len(log) + 1,
         log' = Append(log, line), durable' = durable, acked' = acked
  PROVE  JournalInv'
<1>1. Len(log) \in Nat  BY LenProperties DEF TypeOK
<1>2. /\ Len(log') = Len(log) + 1
      /\ \A i \in 1..Len(log) : log'[i] = log[i]
      /\ log'[Len(log) + 1] = line
  BY AppendProperties DEF TypeOK
<1>. QED
  BY <1>1, <1>2 DEF JournalInv, JournalReadable, AckedDurable, TypeOK, Line

\* Cutting lines past the last fsync loses nothing acknowledged.
LEMMA CutJournal ==
  ASSUME TypeOK, JournalInv, NEW k \in durable..Len(log),
         log' = SubSeq(log, 1, k), durable' = durable, acked' = acked
  PROVE  JournalInv'
<1>1. Len(log) \in Nat /\ k \in 0..Len(log)
  BY LenProperties DEF TypeOK
<1>2. Len(log') = k /\ \A i \in 1..k : log'[i] = log[i]
  BY <1>1, PrefixProperties DEF TypeOK, Prefix
<1>. QED
  BY <1>1, <1>2 DEF JournalInv, JournalReadable, AckedDurable, TypeOK, Line

LEMMA StepJournalInv == IInv /\ [Next]_vars => JournalInv'
<1>. SUFFICES ASSUME IInv, [Next]_vars PROVE JournalInv'
  OBVIOUS
<1>a. TypeOK /\ HandleInv /\ JournalInv  BY DEF IInv, JournalInv
<1>b. Len(log) \in Nat  BY <1>a, LenProperties DEF TypeOK
<1>0. ASSUME UNCHANGED <<log, durable, acked>> PROVE JournalInv'
  BY <1>0, <1>a DEF JournalInv, JournalReadable, AckedDurable
<1>1. ASSUME NEW p \in Proc, AppendWrite(p) PROVE JournalInv'
  <2>1. st[p] = "open" /\ ~handle[p].broken  BY <1>1 DEF AppendWrite, CanAppend
  <2>2. AgreeInv(p)  BY <2>1, <1>a DEF HandleInv, HandleOK
  <2>3. WrittenLine(p) = [seq |-> Len(log) + 1, fact |-> minted + 1]
    BY <2>2 DEF WrittenLine, AgreeInv
  <2>4. WrittenLine(p) \in Line /\ WrittenLine(p).seq = Len(log) + 1
    BY <2>3, <1>a, <1>b DEF Line, TypeOK
  <2>. QED  BY <1>1, <1>a, <2>4, GrowJournal DEF AppendWrite
<1>2. ASSUME NEW p \in Proc, AppendSync(p) PROVE JournalInv'
  BY <1>2, <1>a, <1>b
  DEF AppendSync, JournalInv, JournalReadable, AckedDurable, TypeOK
<1>3. ASSUME NEW p \in Proc, st[p] = "synced", Ack(p) PROVE JournalInv'
  <2>1. durable = Len(log) /\ handle[p].seq = Len(log) /\ Len(log) > 0
    BY <1>3, <1>a DEF HandleInv, HandleOK, AgreeInv
  <2>2. log[Len(log)] \in Line /\ log[Len(log)].seq = Len(log)
    BY <2>1, <1>a, <1>b, ElementOfSeq DEF JournalInv, JournalReadable, TypeOK
  <2>3. Envelope(p) = log[Len(log)] /\ Envelope(p).seq = Len(log)
    BY <2>1, <2>2 DEF Envelope, Line
  <2>. QED
    BY <1>3, <1>a, <1>b, <2>1, <2>3
    DEF Ack, JournalInv, JournalReadable, AckedDurable, TypeOK
<1>4. CASE PowerLoss
  BY <1>4, <1>a, CutJournal DEF PowerLoss, Forget
<1>5. ASSUME NEW p \in Proc,
             \/ AcquireLock(p) \/ CheckIndex(p) \/ ScanLine(p) \/ FinishOpen(p)
             \/ FailOpen(p) \/ AppendWriteFails(p) \/ AppendSyncFails(p)
             \/ CloseScrub(p) \/ CloseRelease(p) \/ Crash(p)
      PROVE  UNCHANGED <<log, durable, acked>>
  BY <1>5
  DEF AcquireLock, CheckIndex, ScanLine, FinishOpen, FailOpen, AbandonOpen,
      AppendWriteFails, AppendSyncFails, CloseScrub, CloseRelease, Crash,
      Forget, disk
<1>. QED
  BY <1>0, <1>1, <1>2, <1>3, <1>4, <1>5 DEF Next, vars, AppendReturn,
     AppendIndexFails

\* The records of an index stay honest while the journal grows past them and
\* while it is cut.
LEMMA HonestGrow ==
  ASSUME NEW s \in Seq(Line), NEW line \in Line, NEW rec,
         NEW i \in 1..Len(s), HonestRecord(rec, i, s)
  PROVE  HonestRecord(rec, i, Append(s, line))
<1>1. Len(s) \in Nat /\ i \in 0..Len(s)  BY LenProperties
<1>2. Prefix(Append(s, line), i) = Prefix(s, i)  BY <1>1, PrefixOfAppend
<1>. QED  BY <1>1, <1>2 DEF HonestRecord

LEMMA HonestCut ==
  ASSUME NEW s \in Seq(Line), NEW k \in 0..Len(s), NEW rec,
         NEW i \in Nat \ {0}, HonestRecord(rec, i, s)
  PROVE  HonestRecord(rec, i, Prefix(s, k))
<1>1. Len(s) \in Nat /\ Len(Prefix(s, k)) = k
  BY LenProperties, PrefixProperties
<1>2. i <= k => i \in 0..k  BY <1>1
<1>3. i <= k => Prefix(Prefix(s, k), i) = Prefix(s, i)
  BY <1>2, PrefixOfPrefix
<1>. QED  BY <1>1, <1>3 DEF HonestRecord

LEMMA StepIndexInv == IInv /\ [Next]_vars => IndexInv'
<1>. SUFFICES ASSUME IInv, [Next]_vars PROVE IndexInv'
  OBVIOUS
<1>a. TypeOK /\ HandleInv /\ JournalInv /\ IndexInv
  BY DEF IInv, JournalInv
<1>b. /\ log \in Seq(Line) /\ Len(log) \in Nat
      /\ index \in Seq(Record) /\ Len(index) \in Nat
      /\ indexDisk \in Seq(Record) /\ Len(indexDisk) \in Nat
  BY <1>a, LenProperties DEF TypeOK
<1>0. ASSUME UNCHANGED <<log, index, indexDisk>> PROVE IndexInv'
  BY <1>0, <1>a DEF IndexInv, HonestRecord
<1>1. ASSUME NEW p \in Proc, CheckIndex(p) PROVE IndexInv'
  <2>1. index' = index \/ index' = <<>>
    BY <1>1 DEF CheckIndex
  <2>2. Len(<<>>) = 0  OBVIOUS
  <2>. QED  BY <1>1, <1>a, <2>1, <2>2 DEF CheckIndex, IndexInv, HonestRecord
<1>2. ASSUME NEW rec \in Record, index' = Append(index, rec),
             HonestRecord(rec, Len(index) + 1, log), UNCHANGED <<log, indexDisk>>
      PROVE  IndexInv'
  <2>1. /\ Len(index') = Len(index) + 1
        /\ \A i \in 1..Len(index) : index'[i] = index[i]
        /\ index'[Len(index) + 1] = rec
    BY <1>2, <1>b, AppendProperties
  <2>2. \A i \in 1..Len(index') : HonestRecord(index'[i], i, log)
    BY <1>2, <1>a, <1>b, <2>1 DEF IndexInv
  <2>. QED  BY <1>2, <1>a, <2>2 DEF IndexInv, HonestRecord
<1>3. ASSUME NEW p \in Proc, ScanLine(p) PROVE IndexInv'
  <2>. DEFINE rec == [seq |-> handle[p].seq + 1, off |-> handle[p].off + 1,
                      hash |-> Append(handle[p].hash, NextLine(p))]
  <2>1. ScanInv(p) /\ handle[p].off < Len(log)
    BY <1>3, <1>a DEF ScanLine, HandleInv, HandleOK
  <2>2. handle[p] \in Handle  BY <1>a DEF TypeOK
  <2>3. handle[p].off \in 0..Len(log) /\ handle[p].off \in Nat
    BY <1>b, <2>1, <2>2 DEF Handle
  <2>4. Append(handle[p].hash, NextLine(p)) = Prefix(log, handle[p].off + 1)
    BY <1>b, <2>1, <2>3, PrefixExtend DEF ScanInv, NextLine
  <2>5. Prefix(log, handle[p].off + 1) \in Seq(Line)
    BY <1>b, <2>1, <2>3, PrefixProperties
  <2>6. rec \in Record /\ HonestRecord(rec, Len(index) + 1, log)
    BY <2>1, <2>3, <2>4, <2>5 DEF ScanInv, HonestRecord, Record
  <2>. QED  BY <1>2, <1>3, <2>6 DEF ScanLine
<1>4. ASSUME NEW p \in Proc, FinishOpen(p) PROVE IndexInv'
  BY <1>4, <1>a DEF FinishOpen, IndexInv, HonestRecord
<1>5. ASSUME NEW p \in Proc, AppendWrite(p) PROVE IndexInv'
  <2>1. Len(index) <= Len(log) /\ Len(indexDisk) <= Len(log)
    BY <1>5, <1>a DEF AppendWrite, CanAppend, HandleInv, HandleOK
  <2>2. WrittenLine(p) \in Line
    BY <1>a DEF WrittenLine, Glued, Line, TypeOK, Handle
  <2>. QED
    BY <1>5, <1>a, <1>b, <2>1, <2>2, HonestGrow DEF AppendWrite, IndexInv
<1>6. ASSUME NEW p \in Proc, AppendReturn(p) PROVE IndexInv'
  <2>. DEFINE rec == [seq |-> handle[p].seq, off |-> handle[p].off,
                      hash |-> handle[p].hash]
  <2>1. CASE ~handle[p].indexed
    BY <1>0, <1>6, <2>1 DEF AppendReturn, Ack
  <2>2. CASE handle[p].indexed
    <3>1. st[p] = "synced" /\ AgreeInv(p)
      BY <1>6, <1>a DEF AppendReturn, HandleInv, HandleOK
    <3>2. /\ Len(index) + 1 = Len(log)
          /\ handle[p].seq = Len(log) /\ handle[p].off = Len(log)
          /\ handle[p].hash = Prefix(log, Len(log))
      BY <1>b, <2>2, <3>1 DEF AgreeInv, Accounted, Indexed
    <3>3. rec \in Record  BY <1>a DEF TypeOK, Handle, Record
    <3>4. HonestRecord(rec, Len(index) + 1, log)  BY <3>2 DEF HonestRecord
    <3>. QED  BY <1>2, <1>6, <2>2, <3>3, <3>4 DEF AppendReturn, Ack
  <2>. QED  BY <2>1, <2>2
<1>7. CASE PowerLoss
  <2>1. PICK k \in durable..Len(log) : log' = SubSeq(log, 1, k)
    BY <1>7 DEF PowerLoss
  <2>2. k \in 0..Len(log)  BY <1>a, <1>b, <2>1 DEF TypeOK
  <2>3. \A i \in Nat : HonestRecord(NoRecord, i, log')
    BY DEF HonestRecord
  <2>4. /\ \A i \in 1..Len(index) : HonestRecord(index[i], i, log')
        /\ \A i \in 1..Len(indexDisk) : HonestRecord(indexDisk[i], i, log')
    BY <1>a, <1>b, <2>1, <2>2, HonestCut DEF IndexInv, Prefix
  <2>5. \A i \in 1..Len(index') : HonestRecord(index'[i], i, log')
    <3>1. CASE index = indexDisk
      BY <1>7, <2>4, <3>1 DEF PowerLoss
    <3>2. CASE index # indexDisk
      <4>1. PICK n \in {Len(index), Len(indexDisk)} : index' \in SurvivingIndex(n)
        BY <3>2, <1>7 DEF PowerLoss
      <4>2. /\ Len(index') = n /\ n \in Nat
            /\ \A i \in 1..n :
                 \/ index'[i] = NoRecord
                 \/ i \in 1..Len(index) /\ index'[i] = index[i]
                 \/ i \in 1..Len(indexDisk) /\ index'[i] = indexDisk[i]
        BY <4>1, <1>a, <1>b, SurvivingIndexType
      <4>3. ASSUME NEW i \in 1..n PROVE HonestRecord(index'[i], i, log')
        BY <2>3, <2>4, <4>2
      <4>. QED  BY <4>2, <4>3
    <3>. QED  BY <3>1, <3>2
  <2>6. indexDisk' = index'  BY <1>7 DEF PowerLoss
  <2>. QED  BY <2>5, <2>6 DEF IndexInv
<1>8. ASSUME NEW p \in Proc,
             \/ AcquireLock(p) \/ FailOpen(p) \/ AppendWriteFails(p)
             \/ AppendSync(p) \/ AppendSyncFails(p) \/ AppendIndexFails(p)
             \/ CloseScrub(p) \/ CloseRelease(p) \/ Crash(p)
      PROVE  UNCHANGED <<log, index, indexDisk>>
  BY <1>8
  DEF AcquireLock, FailOpen, AbandonOpen, AppendWriteFails, AppendSync,
      AppendSyncFails, AppendIndexFails, Ack, CloseScrub, CloseRelease, Crash,
      disk
<1>. QED
  BY <1>0, <1>1, <1>3, <1>4, <1>5, <1>6, <1>7, <1>8 DEF Next, vars

\* A process that acts alone need only restore its own part.
LEMMA OnlyActorMoves ==
  ASSUME IInv, NEW p \in Proc, st[p] # "closed" \/ lock = NoProc,
         \A q \in Proc \ {p} : st'[q] = st[q], HandleOK(p)'
  PROVE  HandleInv'
<1>1. \A q \in Proc \ {p} : st[q] = "closed"
  BY ProcsAreNamed DEF IInv, LockInv
<1>2. \A q \in Proc \ {p} : HandleOK(q)'
  BY <1>1 DEF HandleOK
<1>. QED  BY <1>2 DEF HandleInv

LEMMA StepHandleInv == IInv /\ [Next]_vars => HandleInv'
<1>. SUFFICES ASSUME IInv, [Next]_vars PROVE HandleInv'
  OBVIOUS
<1>a. TypeOK /\ HandleInv /\ JournalInv /\ IndexInv /\ LockInv
  BY DEF IInv, JournalInv
<1>b. /\ log \in Seq(Line) /\ Len(log) \in Nat
      /\ index \in Seq(Record) /\ Len(index) \in Nat
      /\ indexDisk \in Seq(Record) /\ Len(indexDisk) \in Nat
  BY <1>a, LenProperties DEF TypeOK
<1>c. \A p \in Proc : HandleOK(p) /\ handle[p] \in Handle
  BY <1>a DEF HandleInv, TypeOK
<1>0. CASE UNCHANGED vars
  BY <1>0, <1>a
  DEF vars, HandleInv, HandleOK, ScanInv, AgreeInv, Accounted, Indexed
<1>1. ASSUME NEW p \in Proc, AcquireLock(p) PROVE HandleInv'
  <2>1. st'[p] = "locked" /\ \A q \in Proc \ {p} : st'[q] = st[q]
    BY <1>1, <1>a, PointUpdates DEF AcquireLock
  <2>2. HandleOK(p)'  BY <2>1 DEF HandleOK
  <2>. QED  BY <1>1, <2>1, <2>2, OnlyActorMoves DEF AcquireLock
<1>2. ASSUME NEW p \in Proc, CheckIndex(p) PROVE HandleInv'
  <2>. DEFINE n == Len(index)
              good == n > 0 /\ ValidRecord(n)
              last == IF good THEN index[n] ELSE NoRecord
  <2>1. /\ handle'[p] = [seq |-> last.seq, off |-> last.off, hash |-> last.hash,
                         broken |-> FALSE, indexed |-> TRUE]
        /\ index' = (IF good THEN index ELSE <<>>)
        /\ st'[p] = "scanning" /\ \A q \in Proc \ {p} : st'[q] = st[q]
        /\ log' = log
    BY <1>2, <1>a, PointUpdates DEF CheckIndex
  <2>2. ScanInv(p)'
    <3>1. CASE good
      <4>1. index[n].seq = n /\ index[n].off <= Len(log) /\ n \in 1..Len(index)
        BY <1>b, <3>1 DEF ValidRecord
      <4>2. HonestRecord(index[n], n, log)
        BY <1>a, <4>1 DEF IndexInv
      <4>3. index[n].off = n /\ index[n].hash = Prefix(log, n)
        BY <4>1, <4>2 DEF HonestRecord, NoRecord
      <4>. QED  BY <2>1, <3>1, <4>1, <4>3 DEF ScanInv
    <3>2. CASE ~good
      <4>1. last = NoRecord /\ index' = <<>>  BY <2>1, <3>2
      <4>2. Prefix(log, 0) = <<>> /\ Len(<<>>) = 0  BY <1>b, PrefixEnds
      <4>. QED  BY <1>b, <2>1, <4>1, <4>2 DEF ScanInv, NoRecord
    <3>. QED  BY <3>1, <3>2
  <2>3. HandleOK(p)'  BY <2>1, <2>2 DEF HandleOK
  <2>. QED  BY <1>2, <2>1, <2>3, OnlyActorMoves DEF CheckIndex
<1>3. ASSUME NEW p \in Proc, ScanLine(p) PROVE HandleInv'
  <2>. DEFINE off == handle[p].off
              rec == [seq |-> handle[p].seq + 1, off |-> off + 1,
                      hash |-> Append(handle[p].hash, NextLine(p))]
              h == [handle[p] EXCEPT !.seq = rec.seq, !.off = rec.off,
                                     !.hash = rec.hash]
  <2>1. ScanInv(p) /\ off < Len(log) /\ off \in 0..Len(log)
    BY <1>3, <1>b, <1>c DEF ScanLine, HandleOK, ScanInv, Handle
  <2>2. handle'[p] = h /\ index' = Append(index, rec) /\ log' = log /\ st' = st
    BY <1>3, <1>a, PointUpdates DEF ScanLine
  <2>3. rec.hash = Prefix(log, off + 1)
    BY <1>b, <2>1, PrefixExtend DEF ScanInv, NextLine
  <2>4. rec \in Record
    <3>1. off + 1 \in 0..Len(log) /\ handle[p].seq = off  BY <1>b, <2>1 DEF ScanInv
    <3>2. Prefix(log, off + 1) \in Seq(Line)  BY <1>b, <3>1, PrefixProperties
    <3>3. off + 1 \in Nat /\ handle[p].seq + 1 \in Nat  BY <1>b, <2>1, <3>1
    <3>. QED  BY <2>3, <3>2, <3>3 DEF Record
  <2>5. Len(index') = off + 1
    <3>. HIDE DEF rec
    <3>1. Len(index') = Len(index) + 1  BY <1>b, <2>2, <2>4, AppendProperties
    <3>. QED  BY <2>1, <3>1 DEF ScanInv
  <2>6. /\ h.seq = off + 1 /\ h.off = off + 1 /\ h.hash = Prefix(log, off + 1)
        /\ h.broken = FALSE
    BY <1>c, <2>1, <2>3 DEF ScanInv, Handle
  <2>. HIDE DEF h, rec
  <2>7. ScanInv(p)'  BY <1>b, <2>1, <2>2, <2>5, <2>6 DEF ScanInv
  <2>8. HandleOK(p)'  BY <1>3, <2>2, <2>7 DEF ScanLine, HandleOK
  <2>. QED  BY <1>3, <2>2, <2>8, OnlyActorMoves DEF ScanLine
<1>4. ASSUME NEW p \in Proc, FinishOpen(p) PROVE HandleInv'
  <2>1. st'[p] = "open" /\ \A q \in Proc \ {p} : st'[q] = st[q]
    BY <1>4, <1>a, PointUpdates DEF FinishOpen
  <2>2. ScanInv(p) /\ handle[p].off = Len(log)
    BY <1>4, <1>c DEF FinishOpen, HandleOK
  <2>3. HandleOK(p)'
    BY <1>4, <1>b, <2>1, <2>2
    DEF FinishOpen, HandleOK, ScanInv, AgreeInv, Accounted, Indexed
  <2>. QED  BY <1>4, <2>1, <2>3, OnlyActorMoves DEF FinishOpen
<1>5. ASSUME NEW p \in Proc,
             FailOpen(p) \/ CloseScrub(p) \/ CloseRelease(p)
      PROVE  HandleInv'
  <2>1. /\ st[p] # "closed" /\ st'[p] \in {"closed", "closing"}
        /\ \A q \in Proc \ {p} : st'[q] = st[q]
    BY <1>5, <1>a, PointUpdates
    DEF FailOpen, AbandonOpen, CloseScrub, CloseRelease
  <2>2. HandleOK(p)'  BY <2>1 DEF HandleOK
  <2>. QED  BY <2>1, <2>2, OnlyActorMoves
<1>6. ASSUME NEW p \in Proc, AppendWrite(p) PROVE HandleInv'
  <2>1. /\ st[p] = "open" /\ st'[p] = "written"
        /\ \A q \in Proc \ {p} : st'[q] = st[q]
        /\ handle'[p] = [handle[p] EXCEPT !.seq = @ + 1]
        /\ log' = Append(log, WrittenLine(p)) /\ tail' = "none"
        /\ UNCHANGED <<index, indexDisk>> /\ ~handle[p].broken
    BY <1>6, <1>a, PointUpdates DEF AppendWrite, CanAppend
  <2>2. /\ AgreeInv(p) /\ Len(index) <= Len(log) /\ Len(indexDisk) <= Len(log)
        /\ handle[p].off = Len(log) /\ handle[p].hash = Prefix(log, Len(log))
        /\ handle[p].indexed => Len(index) = Len(log)
    BY <2>1, <1>c DEF HandleOK, AgreeInv, Accounted, Indexed
  <2>3. WrittenLine(p) \in Line
    BY <1>a, <1>c DEF WrittenLine, Glued, Line, TypeOK, Handle
  <2>4. Len(log') = Len(log) + 1 /\ log' \in Seq(Line)
    BY <1>b, <2>1, <2>3, AppendProperties
  <2>5. Prefix(log', Len(log)) = Prefix(log, Len(log))
    <3>1. log \in Seq(Line) /\ Len(log) \in 0..Len(log)  BY <1>a, LenProperties DEF TypeOK
    <3>2. Prefix(Append(log, WrittenLine(p)), Len(log)) = Prefix(log, Len(log))
      BY <2>3, <3>1, PrefixOfAppend
    <3>. QED  BY <2>1, <3>2
  <2>6. /\ handle'[p].seq = Len(log) + 1 /\ handle'[p].off = Len(log)
        /\ handle'[p].hash = handle[p].hash
        /\ handle'[p].indexed = handle[p].indexed
        /\ handle'[p].broken = FALSE
    BY <1>c, <2>1, <2>2 DEF AgreeInv, Handle
  <2>7. AgreeInv(p)'
    BY <1>b, <2>1, <2>2, <2>4, <2>5, <2>6 DEF AgreeInv, Accounted, Indexed
  <2>8. HandleOK(p)'  BY <1>b, <2>1, <2>2, <2>4, <2>6, <2>7 DEF HandleOK
  <2>. QED  BY <2>1, <2>8, OnlyActorMoves
<1>7. ASSUME NEW p \in Proc, AppendWriteFails(p) \/ AppendSyncFails(p)
      PROVE  HandleInv'
  <2>1. /\ st[p] \in {"open", "written"} /\ st'[p] = "open"
        /\ \A q \in Proc \ {p} : st'[q] = st[q]
        /\ UNCHANGED <<log, index, indexDisk>>
    BY <1>7, <1>a, PointUpdates
    DEF AppendWriteFails, AppendSyncFails, CanAppend, disk
  <2>2. handle'[p].broken = TRUE
    <3>1. CASE AppendWriteFails(p)
      <4>. DEFINE h == [handle[p] EXCEPT !.seq = @ + 1]
      <4>1. h \in Handle  BY <1>c DEF Handle
      <4>2. handle'[p] = [h EXCEPT !.broken = TRUE]
        BY <3>1, <1>a, PointUpdates DEF AppendWriteFails
      <4>. HIDE DEF h
      <4>. QED  BY <4>1, <4>2 DEF Handle
    <3>2. CASE AppendSyncFails(p)
      BY <3>2, <1>a, <1>c, PointUpdates DEF AppendSyncFails, Handle
    <3>. QED  BY <1>7, <3>1, <3>2
  <2>3. HandleOK(p)'  BY <1>c, <2>1, <2>2 DEF HandleOK
  <2>. QED  BY <2>1, <2>3, OnlyActorMoves
<1>8. ASSUME NEW p \in Proc, AppendSync(p) PROVE HandleInv'
  <2>. DEFINE hash == Append(handle[p].hash, log[Len(log)])
              h == [handle[p] EXCEPT !.off = @ + 1, !.hash = hash]
  <2>1. /\ st[p] = "written" /\ st'[p] = "synced"
        /\ \A q \in Proc \ {p} : st'[q] = st[q]
        /\ handle'[p] = h /\ durable' = Len(log)
        /\ UNCHANGED <<log, tail, index, indexDisk>>
    BY <1>8, <1>a, PointUpdates DEF AppendSync
  <2>2. /\ AgreeInv(p) /\ ~handle[p].broken /\ Len(log) > 0
        /\ Len(index) <= Len(log) /\ Len(indexDisk) <= Len(log)
        /\ handle[p].off = Len(log) - 1
        /\ handle[p].hash = Prefix(log, Len(log) - 1)
        /\ handle[p].indexed => Len(index) = Len(log) - 1
    BY <2>1, <1>c DEF HandleOK, AgreeInv, Accounted, Indexed
  <2>3. hash = Prefix(log, Len(log))
    <3>1. Len(log) - 1 \in 0..Len(log) /\ Len(log) - 1 < Len(log)
          /\ (Len(log) - 1) + 1 = Len(log)
      BY <1>b, <2>2
    <3>. QED  BY <1>b, <2>2, <3>1, PrefixExtend
  <2>4. /\ h.seq = Len(log) /\ h.off = Len(log) /\ h.hash = Prefix(log, Len(log))
        /\ h.broken = FALSE /\ h.indexed = handle[p].indexed
    BY <1>b, <1>c, <2>2, <2>3 DEF AgreeInv, Handle
  <2>. HIDE DEF h, hash
  <2>5. AgreeInv(p)'
    BY <2>1, <2>2, <2>4 DEF AgreeInv, Accounted, Indexed
  <2>6. HandleOK(p)'  BY <2>1, <2>2, <2>4, <2>5 DEF HandleOK
  <2>. QED  BY <2>1, <2>6, OnlyActorMoves
<1>9. ASSUME NEW p \in Proc, AppendReturn(p) PROVE HandleInv'
  <2>. DEFINE rec == [seq |-> handle[p].seq, off |-> handle[p].off,
                      hash |-> handle[p].hash]
  <2>1. /\ st[p] = "synced" /\ st'[p] = "open"
        /\ \A q \in Proc \ {p} : st'[q] = st[q]
        /\ UNCHANGED <<log, tail, durable, indexDisk, handle>>
        /\ index' = IF handle[p].indexed THEN Append(index, rec) ELSE index
    BY <1>9, <1>a, PointUpdates DEF AppendReturn, Ack
  <2>2. /\ AgreeInv(p) /\ ~handle[p].broken /\ Len(log) > 0
        /\ Len(index) <= Len(log) /\ Len(indexDisk) <= Len(log)
        /\ handle[p].off = Len(log)
        /\ handle[p].hash = Prefix(log, Len(log))
        /\ handle[p].indexed => Len(index) = Len(log) - 1
    BY <2>1, <1>c DEF HandleOK, AgreeInv, Accounted, Indexed
  <2>3. rec \in Record  BY <1>c DEF Handle, Record
  <2>4. /\ Len(index') <= Len(log)
        /\ handle[p].indexed => Len(index') = Len(log)
    BY <1>b, <2>1, <2>2, <2>3, AppendProperties
  <2>5. AgreeInv(p)'
    BY <2>1, <2>2, <2>4 DEF AgreeInv, Accounted, Indexed
  <2>6. HandleOK(p)'  BY <2>1, <2>2, <2>4, <2>5 DEF HandleOK
  <2>. QED  BY <2>1, <2>6, OnlyActorMoves
<1>10. ASSUME NEW p \in Proc, AppendIndexFails(p) PROVE HandleInv'
  <2>1. /\ st[p] = "synced" /\ st'[p] = "open"
        /\ \A q \in Proc \ {p} : st'[q] = st[q]
        /\ UNCHANGED <<log, tail, durable, index, indexDisk>>
        /\ handle'[p] = [handle[p] EXCEPT !.indexed = FALSE]
    BY <1>10, <1>a, PointUpdates DEF AppendIndexFails, Ack
  <2>2. /\ AgreeInv(p) /\ ~handle[p].broken /\ Len(log) > 0
        /\ Len(index) <= Len(log) /\ Len(indexDisk) <= Len(log)
        /\ handle[p].off = Len(log) /\ handle[p].hash = Prefix(log, Len(log))
    BY <2>1, <1>c DEF HandleOK, AgreeInv, Accounted
  <2>3. /\ handle'[p].seq = handle[p].seq /\ handle'[p].off = handle[p].off
        /\ handle'[p].hash = handle[p].hash /\ handle'[p].indexed = FALSE
    BY <1>c, <2>1 DEF Handle
  <2>4. AgreeInv(p)'
    BY <2>1, <2>2, <2>3 DEF AgreeInv, Accounted
  <2>5. HandleOK(p)'  BY <2>1, <2>2, <2>4 DEF HandleOK
  <2>. QED  BY <2>1, <2>5, OnlyActorMoves
<1>11. ASSUME NEW p \in Proc, Crash(p) PROVE HandleInv'
  <2>1. st'[p] = "closed" /\ \A q \in Proc \ {p} : st'[q] = st[q]
    BY <1>11, <1>a DEF Crash, Forget, TypeOK
  <2>2. \A q \in Proc \ {p} : handle'[q] = handle[q]
    BY <1>11, <1>a DEF Crash, Forget, TypeOK
  <2>3. HandleOK(p)'  BY <2>1 DEF HandleOK
  <2>4. CASE st[p] # "closed"
    BY <2>1, <2>3, <2>4, OnlyActorMoves
  <2>5. CASE st[p] = "closed"
    <3>1. UNCHANGED <<log, durable, index, indexDisk>> /\ tail' = tail
      BY <1>11, <2>5 DEF Crash, CanAppend
    <3>2. \A q \in Proc \ {p} : HandleOK(q)'
      BY <1>c, <2>1, <2>2, <3>1
      DEF HandleOK, ScanInv, AgreeInv, Accounted, Indexed
    <3>. QED  BY <2>3, <3>2 DEF HandleInv
  <2>. QED  BY <2>4, <2>5
<1>12. CASE PowerLoss
  <2>1. \A p \in Proc : st'[p] = "closed"
    BY <1>12 DEF PowerLoss, Forget
  <2>. QED  BY <2>1 DEF HandleInv, HandleOK
<1>. QED
  BY <1>0, <1>1, <1>2, <1>3, <1>4, <1>5, <1>6, <1>7, <1>8, <1>9, <1>10, <1>11,
     <1>12 DEF Next

-----------------------------------------------------------------------------
(* Results                                                                  *)

LEMMA InitIInv == Init => IInv
<1>. SUFFICES ASSUME Init PROVE IInv
  OBVIOUS
<1>1. TypeOK  BY InitTypeOK
<1>2. Len(<<>>) = 0  OBVIOUS
<1>. QED
  BY <1>1, <1>2, ProcsAreNamed
  DEF Init, IInv, LockInv, JournalReadable, AckedDurable, HandleInv, HandleOK,
      IndexInv

\* The inductive invariant holds in every reachable state, whatever the number
\* of processes, appends, crashes, power losses and I/O errors.
THEOREM Invariance == Spec => []IInv
<1>1. IInv /\ [Next]_vars => IInv'
  BY StepTypeOK, StepLockInv, StepJournalInv, StepHandleInv, StepIndexInv
  DEF IInv, JournalInv
<1>. QED  BY InitIInv, <1>1, PTL DEF Spec

\* Every variable keeps its type.
THEOREM TypeCorrect == Spec => []TypeOK
<1>1. IInv => TypeOK  BY DEF IInv
<1>. QED  BY Invariance, <1>1, PTL

\* An envelope Append returned is in the fsynced journal at its own seq, for
\* good: fsync precedes ack, and nothing after it can overwrite the line.
THEOREM AckedSurvive == Spec => []AckedDurable
<1>1. IInv => AckedDurable  BY DEF IInv
<1>. QED  BY Invariance, <1>1, PTL

\* The journal never holds a glued line, a gap or a repeated seq.
THEOREM AlwaysReadable == Spec => []JournalReadable
<1>1. IInv => JournalReadable  BY DEF IInv
<1>. QED  BY Invariance, <1>1, PTL

\* An open, unbroken store's seq, offset and hash are those of the file.
THEOREM HandleAgrees == Spec => []HandleExact
<1>1. IInv => HandleExact
  <2>. SUFFICES ASSUME IInv, NEW p \in Proc, st[p] = "open", ~handle[p].broken
                PROVE  /\ handle[p].seq = Len(log) /\ handle[p].off = Len(log)
                       /\ handle[p].hash = log /\ tail = "none"
    BY DEF HandleExact
  <2>1. AgreeInv(p)  BY DEF IInv, HandleInv, HandleOK
  <2>2. Prefix(log, Len(log)) = log  BY PrefixEnds DEF IInv, TypeOK
  <2>. QED  BY <2>1, <2>2 DEF AgreeInv, Accounted
<1>. QED  BY Invariance, <1>1, PTL

\* A cursor that passes ReadEventsAfter's validation is the true one, so that a
\* snapshot resumed from it continues with exactly the lines that follow it.
THEOREM CursorsAreTrue == Spec => []ValidCursorExact
<1>1. IInv => ValidCursorExact
  <2>. SUFFICES ASSUME IInv, NEW i \in 1..Len(index), ValidRecord(i)
                PROVE  index[i].off = i /\ index[i].hash = SubSeq(log, 1, i)
    BY DEF ValidCursorExact
  <2>1. HonestRecord(index[i], i, log)  BY DEF IInv, IndexInv
  <2>2. index[i].seq = i /\ index[i].off <= Len(log)  BY DEF ValidRecord
  <2>3. i # 0  BY LenProperties DEF IInv, TypeOK
  <2>. QED  BY <2>1, <2>2, <2>3 DEF HonestRecord, NoRecord, Prefix
<1>. QED  BY Invariance, <1>1, PTL

\* A running host is never taken for a dead one by the lock-free probe.
THEOREM HostAlwaysSeen == Spec => []HostSeen
<1>1. IInv => HostSeen  BY DEF IInv, LockInv, HostSeen, HasLiveWriter
<1>. QED  BY Invariance, <1>1, PTL

\* The four together: no reader of the session's files is ever misled.
THEOREM FilesTellTheTruth == Spec => []FilesAreTrue
<1>1. JournalReadable /\ HandleExact /\ ValidCursorExact /\ HostSeen => FilesAreTrue
  BY DEF FilesAreTrue
<1>. QED  BY AlwaysReadable, HandleAgrees, CursorsAreTrue, HostAlwaysSeen, <1>1, PTL

\* No step rewrites or cuts what was acknowledged.
THEOREM AckedStable == Spec => AckedPrefixStable
<1>1. IInv /\ IInv' /\ [Next]_vars =>
        \A e \in acked : e.seq <= Len(log') /\ log'[e.seq] = log[e.seq]
  <2>. SUFFICES ASSUME IInv, IInv', [Next]_vars, NEW e \in acked
                PROVE  e.seq <= Len(log') /\ log'[e.seq] = log[e.seq]
    OBVIOUS
  <2>1. log[e.seq] = e  BY DEF IInv, AckedDurable
  <2>2. e \in acked'
    BY DEF Next, vars, AcquireLock, CheckIndex, ScanLine, FinishOpen, FailOpen,
       AbandonOpen, AppendWrite, AppendWriteFails, AppendSync, AppendSyncFails,
       AppendReturn, AppendIndexFails, Ack, CloseScrub, CloseRelease, Crash,
       PowerLoss, Forget
  <2>3. e.seq <= Len(log') /\ log'[e.seq] = e
    BY <2>2 DEF IInv, AckedDurable
  <2>. QED  BY <2>1, <2>3
<1>. QED  BY Invariance, <1>1, PTL DEF Spec, AckedPrefixStable

\* Every behaviour of the store is one of the abstract journal: each step
\* extends it, acknowledges its last fact, loses an unacknowledged suffix, or
\* is invisible.
THEOREM Refinement == Spec => ImplementsJournal
<1>. USE DEF J!Next, J!Extend, J!Acknowledge, J!Lose
<1>1. Init => J!Init  BY DEF Init, J!Init
<1>2. IInv /\ [Next]_vars => [J!Next]_<<log, acked>>
  <2>. SUFFICES ASSUME IInv, [Next]_vars PROVE [J!Next]_<<log, acked>>
    OBVIOUS
  <2>a. TypeOK /\ HandleInv /\ JournalInv  BY DEF IInv, JournalInv
  <2>b. log \in Seq(Line) /\ Len(log) \in Nat
    BY <2>a, LenProperties DEF TypeOK
  <2>1. ASSUME NEW p \in Proc, AppendWrite(p) PROVE J!Next
    <3>1. AgreeInv(p)
      BY <2>a, <2>1 DEF AppendWrite, CanAppend, HandleInv, HandleOK
    <3>2. WrittenLine(p) = [seq |-> Len(log) + 1, fact |-> minted + 1]
      BY <3>1 DEF WrittenLine, AgreeInv
    <3>3. minted + 1 \in 1..MaxFacts
      BY <2>a, <2>1, BoundsAreNat DEF TypeOK, AppendWrite, CanAppend
    <3>. QED  BY <2>1, <3>2, <3>3 DEF AppendWrite
  <2>2. ASSUME NEW p \in Proc, st[p] = "synced", Ack(p), log' = log
        PROVE  J!Next
    <3>1. handle[p].seq = Len(log) /\ Len(log) > 0
      BY <2>a, <2>2 DEF HandleInv, HandleOK, AgreeInv
    <3>2. log[Len(log)] \in Line /\ log[Len(log)].seq = Len(log)
      BY <2>a, <2>b, <3>1, ElementOfSeq DEF JournalInv, JournalReadable
    <3>3. Envelope(p) = log[Len(log)] /\ log # <<>>
      BY <2>b, <3>1, <3>2 DEF Envelope, Line
    <3>. QED  BY <2>2, <3>3 DEF Ack
  <2>3. CASE PowerLoss
    <3>1. PICK k \in durable..Len(log) : log' = SubSeq(log, 1, k)
      BY <2>3 DEF PowerLoss
    <3>2. k \in 0..Len(log) /\ \A e \in acked : e.seq <= k
      BY <2>a, <2>b, <3>1 DEF TypeOK, JournalInv, AckedDurable, Line
    <3>. QED  BY <2>3, <3>1, <3>2 DEF PowerLoss, Forget
  <2>4. ASSUME NEW p \in Proc,
               \/ AcquireLock(p) \/ CheckIndex(p) \/ ScanLine(p)
               \/ FinishOpen(p) \/ FailOpen(p) \/ AppendWriteFails(p)
               \/ AppendSync(p) \/ AppendSyncFails(p) \/ CloseScrub(p)
               \/ CloseRelease(p) \/ Crash(p)
        PROVE  UNCHANGED <<log, acked>>
    BY <2>4
    DEF AcquireLock, CheckIndex, ScanLine, FinishOpen, FailOpen, AbandonOpen,
        AppendWriteFails, AppendSync, AppendSyncFails, CloseScrub,
        CloseRelease, Crash, Forget, disk
  <2>5. ASSUME NEW p \in Proc, AppendReturn(p) \/ AppendIndexFails(p)
        PROVE  J!Next
    <3>1. st[p] = "synced" /\ Ack(p) /\ log' = log
      BY <2>5 DEF AppendReturn, AppendIndexFails, Ack
    <3>. QED  BY <2>2, <3>1
  <2>6. CASE UNCHANGED vars  BY <2>6 DEF vars
  <2>. HIDE DEF J!Next
  <2>. QED  BY <2>1, <2>3, <2>4, <2>5, <2>6 DEF Next
<1>. QED  BY <1>1, <1>2, Invariance, PTL DEF Spec, J!Spec, ImplementsJournal
=============================================================================
