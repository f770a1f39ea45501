-------------------------- MODULE CommandLogProof --------------------------
(***************************************************************************)
(* Proofs about the mailbox (CommandLog), for every set of commands, of     *)
(* drafts and of payloads, every bound and every plan of faults, of a       *)
(* mailbox that one process serves.                                         *)
(***************************************************************************)
EXTENDS CommandLog, SequenceTheorems, TLAPS

\* A write puts one entry behind the others.
LEMMA ReachesProperties ==
  ASSUME TypeOK, NEW line \in Line, NEW end \in {"newline", "bare", "part"},
         Reaches(line, end)
  PROVE  /\ lines' \in Seq(Line) /\ ends' \in Seq({"newline", "bare", "part"})
         /\ Len(lines') = Len(lines) + 1 /\ Len(ends') = Len(lines')
         /\ lines'[Len(lines) + 1] = line /\ ends'[Len(lines) + 1] = end
         /\ \A i \in 1..Len(lines) : lines'[i] = lines[i] /\ ends'[i] = ends[i]
BY AppendProperties DEF Reaches, TypeOK

\* What is cut behind its n-th element.
LEMMA CutProperties ==
  ASSUME NEW S, NEW s \in Seq(S), NEW n \in 0..Len(s)
  PROVE  /\ SubSeq(s, 1, n) \in Seq(S) /\ Len(SubSeq(s, 1, n)) = n
         /\ \A i \in 1..n : SubSeq(s, 1, n)[i] = s[i]
<1>1. \A i \in 1..n : s[i] \in S
  BY ElementOfSeq, LenProperties, n \in 0..Len(s)
<1>. QED  BY <1>1, SubSeqProperties, LenProperties

OneProcess == \A p, q \in Proc : p = q

-----------------------------------------------------------------------------
(* The inductive invariant                                                  *)

Busy(p) == call[p].stage # "idle"
Dead == Released \ Received
DraftAt(i) == DraftOf[lines[i].id]

\* What the plan of faults leaves of the file for ever, and what stands in it.
Kept == IF "drop" \in plan THEN durable ELSE Len(lines)
Held(r) == \E i \in 1..Kept : lines[i] = r /\ Latest(i)
Mild == ~("drop" \in plan /\ plan \cap {"kill", "tear"} # {})

\* A file nobody has an index of is durable; kills between steps leave whole
\* lines.
FileInv ==
  /\ durable <= Len(lines)
  /\ "drop" \in plan /\ Mild =>
       \A p \in Proc : cache[p].loaded \/ durable = Len(lines)
  /\ plan \subseteq {"kill"} => \A i \in 1..Len(lines) : ends[i] = "newline"

\* A call that has written has its line at the end of the file.
CallInv ==
  \A p \in Proc : Busy(p) =>
    /\ cache[p].loaded /\ seeded /\ Prior(p, call[p].line.id) = {}
    /\ Len(lines) > 0
    /\ lines[Len(lines)] = call[p].line
    /\ call[p].stage = "synced" => durable = Len(lines)

\* The receipts given out are those of the index, and are found again in the
\* part of the file that stays.
ReceiptInv ==
  /\ \A r \in acked : Held(r)
  /\ \A p \in Proc : cache[p].loaded =>
       /\ acked \subseteq cache[p].receipts
       /\ \A r \in cache[p].receipts : Held(r)
       /\ \A r, s \in cache[p].receipts : r.id = s.id => r = s
  /\ ReceiptStable

\* Under kills alone: the lines are numbered upwards, each command has one, and
\* of the first sends of a draft all but the last have been given up.
LinesInv ==
  \A i, j \in 1..Len(lines) : i < j =>
    /\ lines[i].seq < lines[j].seq
    /\ lines[i].id \in Cmd => lines[i].id # lines[j].id
    /\ /\ lines[i].id \in Cmd /\ lines[j].id \in Cmd
       /\ DraftAt(i) \in Draft /\ DraftAt(i) = DraftAt(j)
       => lines[i].id \in Dead

\* The index knows every line but the one that is being appended.
CacheInv ==
  \A p \in Proc : cache[p].loaded =>
    \A i \in 1..Len(lines) :
      \/ Busy(p) /\ i = Len(lines)
      \/ /\ lines[i].seq <= cache[p].last
         /\ lines[i].id \in Cmd =>
              /\ lines[i] \in cache[p].receipts
              /\ DraftAt(i) \in Draft =>
                   lines[i].id \in Dead \cup cache[p].claims[DraftAt(i)]

\* The mark is the seq of a line, and the inputs up to it are the settled ones.
MarkInv ==
  /\ ~seeded => lines = <<>>
  /\ seeded => mark = 0 \/ \E i \in 1..Len(lines) : lines[i].seq = mark
SettleInv ==
  /\ \A f \in facts : f.id \in Cmd /\ \E i \in 1..Len(lines) : lines[i].id = f.id
  /\ \A i \in 1..Len(lines) :
       lines[i].id \in Input =>
         (lines[i].seq <= mark <=> lines[i].id \in SettledIds)
  /\ EffectivelyOnce

IInv ==
  /\ TypeOK /\ FileInv /\ CallInv
  /\ Mild => ReceiptInv
  /\ Killed => LinesInv /\ CacheInv /\ MarkInv /\ SettleInv

-----------------------------------------------------------------------------
(* Types                                                                    *)

LEMMA InitTypeOK == Init => TypeOK
BY CommandsAreNamed DEF Init, TypeOK, Index, NotLoaded, Idle, Line, Receipt, Fact

\* Each action's new line, index entry and claims have their types.
LEMMA Typed ==
  ASSUME TypeOK, NEW p \in Proc
  PROVE  /\ \A d \in Draft : Settle(cache[p].claims)[d] \subseteq Cmd
         /\ Settle(cache[p].claims) \in [Draft -> SUBSET Cmd]
         /\ \A c \in Cmd : SettledFor(p, c) \in [Draft -> SUBSET Cmd]
         /\ \A c \in Cmd : WithClaim(cache[p].claims, c) \in [Draft -> SUBSET Cmd]
         /\ \A c \in Cmd, b \in Body :
              NewLine(p, c, b) \in Receipt /\ NewLine(p, c, b) \in Line
<1>1. cache[p] \in Index  BY DEF TypeOK
<1>2. Settle(cache[p].claims) \in [Draft -> SUBSET Cmd]
  BY <1>1 DEF Index, Settle
<1>3. \A c \in Cmd : SettledFor(p, c) \in [Draft -> SUBSET Cmd]
  BY <1>1, <1>2 DEF SettledFor, Index
<1>4. \A c \in Cmd : WithClaim(cache[p].claims, c) \in [Draft -> SUBSET Cmd]
  BY <1>1 DEF WithClaim, Index
<1>5. ASSUME NEW c \in Cmd, NEW b \in Body
      PROVE  NewLine(p, c, b) \in Receipt /\ NewLine(p, c, b) \in Line
  BY <1>1 DEF NewLine, Receipt, Line, Index
<1>. QED  BY <1>2, <1>3, <1>4, <1>5

LEMMA StepTypeOK == TypeOK /\ [Next]_vars => TypeOK'
<1>. SUFFICES ASSUME TypeOK, [Next]_vars PROVE TypeOK'
  OBVIOUS
<1>. USE DEF TypeOK
<1>1. CASE UNCHANGED vars
  BY <1>1 DEF vars
<1>. SUFFICES ASSUME Step, plan' = plan PROVE TypeOK'
  BY <1>1 DEF Next
<1>a. \A p \in Proc : cache[p] \in Index  OBVIOUS
<1>b. NotLoaded \in Index /\ Idle.stage = "idle" /\ Idle.line \in Line
  BY DEF NotLoaded, Index, Idle, Line
<1>c. ASSUME NEW p \in Proc, Leave(p)
      PROVE  /\ call' \in [Proc -> [stage : {"idle", "written", "synced"},
                                    line : Line]]
             /\ \A q \in Proc : call'[q].stage # "idle" => call'[q].line \in Receipt
  <2>1. Idle \in [stage : {"idle", "written", "synced"}, line : Line]
    BY DEF Idle, Line
  <2>. QED  BY <1>b, <1>c, <2>1 DEF Leave
<1>e. ASSUME NEW line \in Line, Breaks(line)
      PROVE  /\ lines' \in Seq(Line) /\ ends' \in Seq({"newline", "bare", "part"})
             /\ Len(ends') = Len(lines')
  BY <1>e, ReachesProperties DEF Breaks
<1>2. ASSUME NEW p \in Proc, Load(p)  PROVE TypeOK'
  <2>. DEFINE R == {lines[i] : i \in {j \in 1..Len(lines) :
                            Latest(j) /\ lines[j].id \in Cmd}}
              C == Settle([d \in Draft |-> {lines[i].id :
                         i \in {j \in 1..Len(lines) : Claims(j, d)}}])
  <2>1. \A i \in 1..Len(lines) : lines[i] \in Line
    OBVIOUS
  <2>2. R \subseteq Receipt
    BY <2>1, CommandsAreNamed DEF Line, Receipt
  <2>3. C \in [Draft -> SUBSET Cmd]
    BY <2>1 DEF Settle, Claims
  <2>4. PICK last \in {0} \cup {lines[i].seq : i \in 1..Len(lines)} :
         SetCache(p, [loaded |-> TRUE, last |-> last, receipts |-> R,
                      claims |-> C])
    BY <1>2 DEF Load
  <2>5. last \in Nat
    BY <2>1 DEF Line, Receipt
  <2>. HIDE DEF R, C
  <2>6. cache' \in [Proc -> Index]
    BY <2>2, <2>3, <2>4, <2>5 DEF SetCache, Index
  <2>. QED  BY <1>2, <2>6 DEF Load, file, journal
<1>3. ASSUME NEW p \in Proc, Sync(p)  PROVE TypeOK'
  <2>1. Len(lines) \in Nat  BY LenProperties
  <2>. QED  BY <1>3, <2>1 DEF Sync, Enter, journal
<1>4. ASSUME NEW p \in Proc, SyncFails(p)  PROVE TypeOK'
  BY <1>4, <1>c DEF SyncFails, Fault, file, journal
<1>5. ASSUME NEW p \in Proc, Return(p)  PROVE TypeOK'
  <2>1. call[p].line \in Receipt /\ call[p].line.id \in Cmd
    BY <1>5 DEF Return, Receipt
  <2>2. cache' \in [Proc -> Index]
    <3>. DEFINE w == WithClaim(cache[p].claims, call[p].line.id)
                i == [cache[p] EXCEPT !.last = call[p].line.seq,
                                      !.receipts = @ \cup {call[p].line},
                                      !.claims = w]
    <3>1. w \in [Draft -> SUBSET Cmd]
      BY <2>1, Typed
    <3>2. cache' = [cache EXCEPT ![p] = i]
      BY <1>5 DEF Return, SetCache
    <3>. HIDE DEF w
    <3>3. i \in Index
      BY <1>a, <2>1, <3>1 DEF Index, Receipt
    <3>. HIDE DEF i
    <3>. QED  BY <1>a, <3>2, <3>3
  <2>. QED  BY <1>5, <1>c, <2>1, <2>2 DEF Return, file, journal
<1>6. ASSUME NEW p \in Proc, Seed(p)  PROVE TypeOK'
  <2>. DEFINE e == [seq |-> mark, id |-> NoCmd, body |-> NoBody]
  <2>1. e \in Line  BY DEF Line
  <2>2. /\ lines' \in Seq(Line) /\ ends' \in Seq({"newline", "bare", "part"})
        /\ Len(ends') = Len(lines') /\ durable' \in Nat
    BY <1>6, <2>1, ReachesProperties, LenProperties DEF Seed
  <2>3. cache' \in [Proc -> Index]
    BY <1>6, <1>a DEF Seed, SetCache, Index
  <2>. QED  BY <1>6, <2>2, <2>3 DEF Seed, journal
<1>7. ASSUME NEW procs, Forget(procs)
      PROVE  /\ cache' \in [Proc -> Index]
             /\ call' \in [Proc -> [stage : {"idle", "written", "synced"},
                                    line : Line]]
             /\ \A p \in Proc : call'[p].stage # "idle" => call'[p].line \in Receipt
  BY <1>7, <1>b DEF Forget, Idle
<1>8. ASSUME NEW p \in Proc, Kill(p)  PROVE TypeOK'
  BY <1>7, <1>8 DEF Kill, Fault, file, journal
<1>9. ASSUME NEW p \in Proc, NEW c \in Cmd, NEW b \in Body, Tear(p, c, b)
      PROVE TypeOK'
  BY <1>e, <1>7, <1>9, Typed DEF Tear, Fault, journal
<1>10. ASSUME NEW p \in Proc, NEW c \in Cmd, RefuseDraft(p, c)  PROVE TypeOK'
  <2>1. cache' \in [Proc -> Index]
    BY <1>10, <1>a, Typed DEF RefuseDraft, SetCache, Index
  <2>. QED  BY <1>10, <2>1 DEF RefuseDraft, file, journal
<1>11. ASSUME NEW p \in Proc, NEW c \in Cmd, NEW b \in Body, WriteFails(p, c, b)
       PROVE TypeOK'
  <2>1. cache' \in [Proc -> Index]
    BY <1>11, <1>a, Typed DEF WriteFails, SetCache, Index
  <2>. QED  BY <1>e, <1>11, <2>1, Typed DEF WriteFails, Fault, journal
<1>12. ASSUME NEW p \in Proc, NEW c \in Cmd, NEW b \in Body, Retry(p, c, b)
       PROVE TypeOK'
  <2>1. cache[p].receipts \subseteq Receipt  BY <1>a DEF Index
  <2>. QED  BY <1>12, <2>1 DEF Retry, Prior, file, journal
<1>13. ASSUME NEW p \in Proc, NEW c \in Cmd, NEW b \in Body, Write(p, c, b)
       PROVE TypeOK'
  <2>1. cache' \in [Proc -> Index]
    BY <1>13, <1>a, Typed DEF Write, SetCache, Index
  <2>2. /\ lines' \in Seq(Line) /\ ends' \in Seq({"newline", "bare", "part"})
        /\ Len(ends') = Len(lines')
    BY <1>13, ReachesProperties, Typed DEF Write
  <2>3. NewLine(p, c, b) \in Line /\ NewLine(p, c, b) \in Receipt
    BY Typed
  <2>. QED  BY <1>13, <2>1, <2>2, <2>3 DEF Write, Enter, journal
<1>14. CASE ConsumeInput
  <2>1. PICK i \in 1..Len(lines) :
          /\ Pending(i)
          /\ \E kind \in {"received", "revoked", "rejected"} :
               facts' = facts \cup {Settling(i, kind)}
          /\ mark' = IF lines[i].seq > mark THEN lines[i].seq ELSE mark
    BY <1>14 DEF ConsumeInput
  <2>2. lines[i] \in Line /\ lines[i].id \in Cmd /\ lines[i].seq \in Nat
    BY <2>1 DEF Pending, Line, Receipt
  <2>. QED  BY <1>14, <2>1, <2>2 DEF ConsumeInput, Settling, Fact, file
<1>15. CASE HandleCommand
  <2>1. PICK i \in 1..Len(lines) :
          Pending(i) /\ facts' = facts \cup {Settling(i, "handled")}
    BY <1>15 DEF HandleCommand
  <2>2. lines[i] \in Line /\ lines[i].id \in Cmd /\ lines[i].seq \in Nat
    BY <2>1 DEF Pending, Line, Receipt
  <2>. QED  BY <1>15, <2>1, <2>2 DEF HandleCommand, Settling, Fact, file
<1>16. CASE Drop
  <2>1. PICK k \in durable..Len(lines) :
          /\ lines' = SubSeq(lines, 1, k) /\ durable' = k
          /\ \/ ends' = SubSeq(ends, 1, k)
             \/ k > durable /\ \E end \in {"bare", "part"} :
                  ends' = [SubSeq(ends, 1, k) EXCEPT ![k] = end]
    BY <1>16 DEF Drop
  <2>2. k \in 0..Len(lines)  BY <2>1, LenProperties
  <2>3. lines' \in Seq(Line) /\ Len(lines') = k
    BY <2>1, <2>2, CutProperties
  <2>4. /\ SubSeq(ends, 1, k) \in Seq({"newline", "bare", "part"})
        /\ Len(SubSeq(ends, 1, k)) = k
    BY <2>2, CutProperties
  <2>5. ends' \in Seq({"newline", "bare", "part"}) /\ Len(ends') = k
    <3>1. CASE ends' = SubSeq(ends, 1, k)
      BY <2>4, <3>1
    <3>2. ASSUME NEW end \in {"newline", "bare", "part"}, k > durable,
                 ends' = [SubSeq(ends, 1, k) EXCEPT ![k] = end]
          PROVE  ends' \in Seq({"newline", "bare", "part"}) /\ Len(ends') = k
      <4>1. k \in 1..Len(SubSeq(ends, 1, k))  BY <2>1, <2>2, <2>4, <3>2
      <4>. QED  BY <2>4, <3>2, <4>1, ExceptSeq
    <3>. QED  BY <2>1, <3>1, <3>2
  <2>. QED  BY <1>16, <1>7, <2>1, <2>2, <2>3, <2>5 DEF Drop, Fault, journal
<1>. QED
  BY <1>2, <1>3, <1>4, <1>5, <1>6, <1>8, <1>9, <1>10, <1>11, <1>12, <1>13,
     <1>14, <1>15, <1>16 DEF Step

-----------------------------------------------------------------------------
(* The file and the calls                                                   *)

\* A process other than the one at work does not exist.
LEMMA StepFileInv ==
  ASSUME OneProcess, TypeOK, FileInv, Step, plan' = plan
  PROVE  FileInv'
<1>1. Len(lines) \in Nat /\ durable \in Nat  BY LenProperties DEF TypeOK
<1>. USE DEF FileInv, Mild
<1>a. ASSUME NEW line \in Line, NEW end \in {"newline", "bare", "part"},
             Reaches(line, end), durable' \in {durable, Len(lines')},
             plan \subseteq {"kill"} => end = "newline",
             "drop" \in plan /\ Mild /\ durable' = durable =>
               \A p \in Proc : cache'[p].loaded
      PROVE  FileInv'
  <2>1. /\ Len(lines') = Len(lines) + 1 /\ ends'[Len(lines) + 1] = end
        /\ \A i \in 1..Len(lines) : ends'[i] = ends[i]
    BY <1>a, ReachesProperties
  <2>2. durable' <= Len(lines')  BY <1>1, <1>a, <2>1
  <2>3. ASSUME plan' \subseteq {"kill"}, NEW i \in 1..Len(lines')
        PROVE  ends'[i] = "newline"
    BY <1>1, <1>a, <2>1, <2>3
  <2>. QED  BY <1>a, <2>2, <2>3
<1>b. ASSUME NEW line \in Line, Breaks(line), UNCHANGED durable,
             ~(plan \subseteq {"kill"}),
             "drop" \in plan /\ Mild => \A p \in Proc : cache'[p].loaded
      PROVE  FileInv'
  BY <1>a, <1>b DEF Breaks
<1>2. ASSUME NEW p \in Proc, Load(p)  PROVE FileInv'
  <2>1. cache'[p].loaded  BY <1>2 DEF Load, SetCache, TypeOK
  <2>. QED  BY <1>2, <2>1 DEF OneProcess, Load, file
<1>3. ASSUME NEW p \in Proc, Sync(p)  PROVE FileInv'
  BY <1>1, <1>3 DEF Sync
<1>4. ASSUME NEW p \in Proc, SyncFails(p)  PROVE FileInv'
  BY <1>4 DEF SyncFails, file
<1>5. ASSUME NEW p \in Proc, Return(p)  PROVE FileInv'
  <2>1. cache'[p].loaded = cache[p].loaded
    BY <1>5 DEF Return, SetCache, TypeOK, Index
  <2>. QED  BY <1>5, <2>1 DEF OneProcess, Return, file
<1>6. ASSUME NEW p \in Proc, Seed(p)  PROVE FileInv'
  <2>1. [seq |-> mark, id |-> NoCmd, body |-> NoBody] \in Line
    BY DEF TypeOK, Line
  <2>2. durable' = durable => durable = Len(lines')  BY <1>6 DEF Seed
  <2>3. Len(lines') > durable  BY <1>1, <1>6, <2>1, ReachesProperties DEF Seed
  <2>. QED  BY <1>1, <1>6, <1>a, <2>1, <2>2, <2>3 DEF Seed
<1>7. ASSUME NEW p \in Proc, Kill(p)  PROVE FileInv'
  BY <1>7 DEF Kill, Fault, file
<1>8. ASSUME NEW p \in Proc, NEW c \in Cmd, NEW b \in Body, Tear(p, c, b)
      PROVE FileInv'
  BY <1>8, <1>b, Typed DEF Tear, Fault
<1>9. ASSUME NEW p \in Proc, NEW c \in Cmd, RefuseDraft(p, c)  PROVE FileInv'
  <2>1. cache'[p].loaded
    BY <1>9 DEF RefuseDraft, CanCall, SetCache, TypeOK, Index
  <2>. QED  BY <1>9, <2>1 DEF OneProcess, RefuseDraft, file
<1>10. ASSUME NEW p \in Proc, NEW c \in Cmd, NEW b \in Body, WriteFails(p, c, b)
       PROVE FileInv'
  <2>1. cache'[p].loaded
    BY <1>10 DEF WriteFails, CanWrite, CanCall, SetCache, TypeOK, Index
  <2>. QED  BY <1>10, <1>b, <2>1, Typed DEF OneProcess, WriteFails, Fault
<1>11. ASSUME NEW p \in Proc, NEW c \in Cmd, NEW b \in Body, Retry(p, c, b)
       PROVE FileInv'
  BY <1>11 DEF Retry, file
<1>12. ASSUME NEW p \in Proc, NEW c \in Cmd, NEW b \in Body, Write(p, c, b)
       PROVE FileInv'
  <2>1. cache'[p].loaded
    BY <1>12 DEF Write, CanWrite, CanCall, SetCache, TypeOK, Index
  <2>. QED  BY <1>12, <1>a, <2>1, Typed DEF OneProcess, Write
<1>13. CASE ConsumeInput
  BY <1>13 DEF ConsumeInput, file
<1>14. CASE HandleCommand
  BY <1>14 DEF HandleCommand, file
<1>15. CASE Drop
  <2>1. PICK k \in durable..Len(lines) :
          lines' = SubSeq(lines, 1, k) /\ durable' = k
    BY <1>15 DEF Drop
  <2>2. Len(lines') = k
    BY <1>1, <2>1, CutProperties DEF TypeOK
  <2>3. ~(plan \subseteq {"kill"})  BY <1>15 DEF Drop, Fault
  <2>. QED  BY <2>1, <2>2, <2>3
<1>. QED
  BY <1>2, <1>3, <1>4, <1>5, <1>6, <1>7, <1>8, <1>9, <1>10, <1>11, <1>12,
     <1>13, <1>14, <1>15 DEF Step

LEMMA StepCallInv ==
  ASSUME OneProcess, TypeOK, TypeOK', FileInv, CallInv, Step
  PROVE  CallInv'
<1>1. Len(lines) \in Nat /\ durable \in Nat  BY LenProperties DEF TypeOK
<1>. USE DEF CallInv, Busy, Prior
<1>2. ASSUME NEW p \in Proc, Load(p)  PROVE CallInv'
  BY <1>2 DEF OneProcess, Load
<1>3. ASSUME NEW p \in Proc, Sync(p)  PROVE CallInv'
  BY <1>3 DEF OneProcess, Sync, Enter, TypeOK
<1>4. ASSUME NEW p \in Proc, Leave(p)  PROVE CallInv'
  BY <1>4 DEF OneProcess, Leave, Idle, TypeOK
<1>5. ASSUME NEW p \in Proc, Seed(p)  PROVE CallInv'
  BY <1>5 DEF OneProcess, Seed
<1>6. ASSUME NEW p \in Proc, Forget({p})  PROVE CallInv'
  BY <1>6 DEF OneProcess, Forget, Idle
<1>7. ASSUME NEW p \in Proc, NEW c \in Cmd, RefuseDraft(p, c)  PROVE CallInv'
  BY <1>7 DEF OneProcess, RefuseDraft, CanCall
<1>8. ASSUME NEW p \in Proc, NEW c \in Cmd, NEW b \in Body, WriteFails(p, c, b)
      PROVE CallInv'
  BY <1>8 DEF OneProcess, WriteFails, CanWrite, CanCall
<1>9. ASSUME NEW p \in Proc, NEW c \in Cmd, NEW b \in Body, Retry(p, c, b)
      PROVE CallInv'
  BY <1>9 DEF Retry, file
<1>10. ASSUME NEW p \in Proc, NEW c \in Cmd, NEW b \in Body, Write(p, c, b)
       PROVE CallInv'
  <2>. DEFINE e == NewLine(p, c, b)
  <2>1. /\ Len(lines') = Len(lines) + 1
        /\ lines'[Len(lines')] = e
    BY <1>10, Typed, ReachesProperties DEF Write
  <2>2. e = NewLine(p, c, b)  OBVIOUS
  <2>3. /\ cache'[p].loaded /\ cache'[p].receipts = cache[p].receipts
    BY <1>10 DEF Write, CanWrite, CanCall, SetCache, TypeOK, Index
  <2>4. /\ call'[p].stage = "written" /\ call'[p].line = NewLine(p, c, b)
        /\ NewLine(p, c, b).id = c
    BY <1>10 DEF Write, Enter, TypeOK, NewLine
  <2>5. seeded' /\ Prior(p, c) = {}
    BY <1>10 DEF Write, CanWrite, CanCall
  <2>. HIDE DEF e
  <2>. QED  BY <1>1, <2>1, <2>2, <2>3, <2>4, <2>5 DEF OneProcess
<1>11. CASE ConsumeInput
  BY <1>11 DEF ConsumeInput, file
<1>12. CASE HandleCommand
  BY <1>12 DEF HandleCommand, file
<1>13. CASE Drop
  BY <1>13 DEF Drop, Forget, Idle
<1>. QED
  BY <1>2, <1>3, <1>4, <1>5, <1>6, <1>7, <1>8, <1>9, <1>10, <1>11, <1>12, <1>13
  DEF Step, SyncFails, Return, Kill, Tear

-----------------------------------------------------------------------------
(* Receipts                                                                 *)

\* What stands in the kept part of the file stays there, if the step leaves
\* that part alone and writes no further line of the same command.
LEMMA HeldStays ==
  ASSUME NEW r, Held(r), Kept \in Nat, Kept' \in Nat, Kept <= Kept',
         \A i \in 1..Kept : lines'[i] = lines[i],
         \A j \in 1..Len(lines') :
            \/ j \in 1..Len(lines) /\ lines'[j] = lines[j]
            \/ lines'[j].id # r.id
  PROVE  Held(r)'
<1>1. PICK i \in 1..Kept : lines[i] = r /\ Latest(i)
  BY DEF Held
<1>2. i \in 1..Kept' /\ lines'[i] = r  BY <1>1
<1>3. Latest(i)'
  BY <1>1, <1>2 DEF Latest
<1>. QED  BY <1>2, <1>3 DEF Held

LEMMA StepReceiptInv ==
  ASSUME OneProcess, TypeOK, TypeOK', FileInv, FileInv', CallInv, Mild,
         ReceiptInv, Step, plan' = plan
  PROVE  ReceiptInv'
<1>1. /\ Len(lines) \in Nat /\ durable \in Nat
      /\ Len(lines') \in Nat /\ durable' \in Nat
  BY LenProperties DEF TypeOK
<1>2. /\ Kept \in Nat /\ Kept' \in Nat
      /\ Kept <= Len(lines) /\ Kept' <= Len(lines')
  BY <1>1 DEF Kept, FileInv
<1>3. ASSUME UNCHANGED file, NEW r, Held(r)  PROVE Held(r)'
  BY <1>3 DEF file, Held, Kept, Latest
<1>4. ASSUME UNCHANGED <<file, cache, acked>>  PROVE ReceiptInv'
  BY <1>3, <1>4 DEF ReceiptInv, ReceiptStable
<1>5. ASSUME NEW p \in Proc, NEW r, Held(r), NEW e \in Line, e.id # r.id,
             NEW end \in {"newline", "bare", "part"}, Reaches(e, end),
             durable <= durable'
      PROVE  Held(r)'
  <2>1. /\ Len(lines') = Len(lines) + 1
        /\ \A i \in 1..Len(lines) : lines'[i] = lines[i]
        /\ lines'[Len(lines) + 1] = e
    BY <1>5, ReachesProperties
  <2>2. Kept <= Kept'
    BY <1>1, <1>5, <2>1 DEF Kept
  <2>3. \A i \in 1..Kept : lines'[i] = lines[i]
    BY <1>1, <1>2, <2>1
  <2>4. \A j \in 1..Len(lines') :
            \/ j \in 1..Len(lines) /\ lines'[j] = lines[j]
            \/ lines'[j].id # r.id
    BY <1>1, <1>5, <2>1
  <2>. QED  BY <1>2, <1>5, <2>2, <2>3, <2>4, HeldStays
<1>6. ASSUME UNCHANGED <<file, acked>>, NEW p \in Proc,
             cache'[p].loaded = cache[p].loaded,
             cache'[p].receipts = cache[p].receipts
      PROVE  ReceiptInv'
  BY <1>3, <1>6 DEF ReceiptInv, ReceiptStable, OneProcess
<1>7. ASSUME NEW p \in Proc, Load(p)  PROVE ReceiptInv'
  <2>. DEFINE R == {lines[i] : i \in {j \in 1..Len(lines) :
                            Latest(j) /\ lines[j].id \in Cmd}}
  <2>1. cache'[p].receipts = R
    BY <1>7 DEF Load, SetCache, TypeOK
  <2>2. UNCHANGED <<file, acked>>  BY <1>7 DEF Load
  <2>3. Kept = Len(lines)
    BY <1>7, <1>2 DEF Load, Kept, FileInv
  <2>4. \A r \in R : Held(r)
    BY <2>3 DEF Held
  <2>5. acked \subseteq R
    <3>. SUFFICES ASSUME NEW r \in acked PROVE r \in R  OBVIOUS
    <3>1. PICK i \in 1..Kept : lines[i] = r /\ Latest(i)
      BY <2>3 DEF ReceiptInv, Held
    <3>2. r.id \in Cmd  BY DEF TypeOK, Receipt
    <3>. QED  BY <2>3, <3>1, <3>2
  <2>6. \A r, s \in R : r.id = s.id => r = s
    <3>. SUFFICES ASSUME NEW i \in 1..Len(lines), NEW j \in 1..Len(lines),
                         Latest(i), Latest(j), lines[i].id = lines[j].id
                  PROVE  i = j
      OBVIOUS
    <3>. QED  BY <1>1 DEF Latest
  <2>. HIDE DEF R
  <2>. QED
    BY <1>3, <2>1, <2>2, <2>4, <2>5, <2>6 DEF OneProcess, ReceiptInv, ReceiptStable
<1>8. ASSUME NEW p \in Proc, Sync(p)  PROVE ReceiptInv'
  <2>1. Kept <= Kept'  BY <1>1, <1>8 DEF Sync, Kept, FileInv
  <2>2. ASSUME NEW r, Held(r)  PROVE Held(r)'
    BY <1>2, <1>8, <2>1, <2>2, HeldStays DEF Sync
  <2>. QED  BY <1>8, <2>2 DEF Sync, ReceiptInv, ReceiptStable
<1>9. ASSUME NEW p \in Proc, SyncFails(p)  PROVE ReceiptInv'
  BY <1>4, <1>9 DEF SyncFails
<1>10. ASSUME NEW p \in Proc, Return(p)  PROVE ReceiptInv'
  <2>. DEFINE line == call[p].line
  <2>1. /\ cache'[p].loaded /\ cache[p].loaded
        /\ cache'[p].receipts = cache[p].receipts \cup {line}
        /\ acked' = acked \cup {line} /\ UNCHANGED file
    BY <1>10 DEF Return, CallInv, Busy, SetCache, TypeOK, Index
  <2>2. Kept = Len(lines)
    BY <1>10 DEF Return, CallInv, Busy, Kept
  <2>3. Held(line)
    <3>1. /\ Len(lines) > 0
          /\ lines[Len(lines)] = line
      BY <1>10 DEF Return, CallInv, Busy
    <3>2. Len(lines) \in 1..Kept /\ Latest(Len(lines))
      BY <1>1, <2>2, <3>1 DEF Latest
    <3>. QED  BY <3>1, <3>2 DEF Held
  <2>4. \A r \in cache[p].receipts : r.id # line.id
    BY <1>10 DEF Return, CallInv, Busy, Prior
  <2>. HIDE DEF line
  <2>. QED
    BY <1>3, <2>1, <2>3, <2>4 DEF OneProcess, ReceiptInv, ReceiptStable
<1>11. ASSUME NEW p \in Proc, Seed(p)  PROVE ReceiptInv'
  <2>. DEFINE e == [seq |-> mark, id |-> NoCmd, body |-> NoBody]
  <2>1. e \in Line /\ e.id \notin Cmd
    BY CommandsAreNamed DEF TypeOK, Line
  <2>2. Reaches(e, "newline") /\ durable <= durable'
    BY <1>1, <1>11, <2>1, ReachesProperties DEF Seed, FileInv
  <2>3. /\ cache'[p].receipts = cache[p].receipts
        /\ cache'[p].loaded = cache[p].loaded
    BY <1>11 DEF Seed, SetCache, TypeOK, Index
  <2>4. ASSUME NEW r \in Receipt, Held(r)  PROVE Held(r)'
    <3>1. e.id # r.id  BY <2>1 DEF Receipt
    <3>. HIDE DEF e
    <3>. QED  BY <1>5, <2>1, <2>2, <2>4, <3>1
  <2>5. acked \subseteq Receipt /\ cache[p].receipts \subseteq Receipt
    BY DEF TypeOK, Index
  <2>. QED
    BY <1>11, <2>3, <2>4, <2>5 DEF Seed, OneProcess, ReceiptInv, ReceiptStable
<1>a. ASSUME NEW p \in Proc, NEW c \in Cmd, NEW b \in Body, CanWrite(p, c),
             \/ Breaks(NewLine(p, c, b))
             \/ Reaches(NewLine(p, c, b), "newline"),
             UNCHANGED durable
      PROVE  /\ \A r \in acked : Held(r)'
             /\ \A r \in cache[p].receipts : Held(r)'
  <2>. DEFINE e == NewLine(p, c, b)
  <2>1. e \in Line /\ e.id = c
    BY Typed DEF NewLine
  <2>2. cache[p].loaded /\ Prior(p, c) = {}
    BY <1>a DEF CanWrite, CanCall
  <2>3. acked \subseteq cache[p].receipts
    BY <2>2 DEF ReceiptInv
  <2>4. ASSUME NEW r \in cache[p].receipts  PROVE Held(r)'
    <3>1. Held(r)  BY <2>2 DEF ReceiptInv
    <3>2. e.id # r.id  BY <2>1, <2>2 DEF Prior
    <3>3. CASE UNCHANGED <<lines, ends>>
      BY <1>3, <1>a, <3>1, <3>3 DEF file
    <3>4. ASSUME NEW end \in {"newline", "bare", "part"}, Reaches(e, end)
          PROVE  Held(r)'
      <4>. HIDE DEF e
      <4>. QED  BY <1>1, <1>5, <1>a, <2>1, <3>1, <3>2, <3>4
    <3>. QED  BY <1>a, <3>3, <3>4 DEF Breaks
  <2>. QED  BY <2>3, <2>4
<1>12. ASSUME NEW p \in Proc, Kill(p)  PROVE ReceiptInv'
  <2>1. ~cache'[p].loaded  BY <1>12 DEF Kill, Forget, NotLoaded
  <2>. QED
    BY <1>3, <1>12, <2>1 DEF Kill, OneProcess, ReceiptInv, ReceiptStable
<1>b. ASSUME NEW p \in Proc, NEW c \in Cmd, NEW b \in Body, Tear(p, c, b)
      PROVE  ReceiptInv'
  <2>1. ~cache'[p].loaded  BY <1>b DEF Tear, Forget, NotLoaded
  <2>2. \A r \in acked : Held(r)'  BY <1>a, <1>b DEF Tear
  <2>. QED  BY <1>b, <2>1, <2>2 DEF Tear, OneProcess, ReceiptInv, ReceiptStable
<1>13. ASSUME NEW p \in Proc, NEW c \in Cmd, RefuseDraft(p, c)
       PROVE  ReceiptInv'
  <2>1. /\ cache'[p].receipts = cache[p].receipts
        /\ cache'[p].loaded = cache[p].loaded
    BY <1>13 DEF RefuseDraft, SetCache, TypeOK, Index
  <2>. QED  BY <1>6, <1>13, <2>1 DEF RefuseDraft
<1>14. ASSUME NEW p \in Proc, NEW c \in Cmd, NEW b \in Body, WriteFails(p, c, b)
       PROVE  ReceiptInv'
  <2>1. /\ cache'[p].receipts = cache[p].receipts
        /\ cache'[p].loaded = cache[p].loaded
    BY <1>14 DEF WriteFails, SetCache, TypeOK, Index
  <2>2. /\ \A r \in acked : Held(r)'
        /\ \A r \in cache[p].receipts : Held(r)'
    BY <1>a, <1>14 DEF WriteFails
  <2>. QED
    BY <1>14, <2>1, <2>2 DEF WriteFails, OneProcess, ReceiptInv, ReceiptStable
<1>15. ASSUME NEW p \in Proc, NEW c \in Cmd, NEW b \in Body, Retry(p, c, b)
       PROVE  ReceiptInv'
  BY <1>3, <1>15 DEF Retry, CanCall, Prior, OneProcess, ReceiptInv, ReceiptStable
<1>16. ASSUME NEW p \in Proc, NEW c \in Cmd, NEW b \in Body, Write(p, c, b)
       PROVE  ReceiptInv'
  <2>1. /\ cache'[p].receipts = cache[p].receipts
        /\ cache'[p].loaded = cache[p].loaded
    BY <1>16 DEF Write, SetCache, TypeOK, Index
  <2>2. /\ \A r \in acked : Held(r)'
        /\ \A r \in cache[p].receipts : Held(r)'
    BY <1>a, <1>16 DEF Write
  <2>. QED
    BY <1>16, <2>1, <2>2 DEF Write, OneProcess, ReceiptInv, ReceiptStable
<1>17. CASE ConsumeInput
  BY <1>4, <1>17 DEF ConsumeInput
<1>18. CASE HandleCommand
  BY <1>4, <1>18 DEF HandleCommand
<1>19. CASE Drop
  <2>1. PICK k \in durable..Len(lines) :
          lines' = SubSeq(lines, 1, k) /\ durable' = k
    BY <1>19 DEF Drop
  <2>2. /\ Len(lines') = k
        /\ \A i \in 1..k : lines'[i] = lines[i]
    BY <1>1, <2>1, CutProperties DEF TypeOK
  <2>3. Kept <= Kept' /\ \A i \in 1..Kept : lines'[i] = lines[i]
    BY <1>1, <1>19, <2>1, <2>2 DEF Drop, Fault, Kept
  <2>4. ASSUME NEW r, Held(r)  PROVE Held(r)'
    <3>1. \A j \in 1..Len(lines') : j \in 1..Len(lines) /\ lines'[j] = lines[j]
      BY <1>1, <2>1, <2>2
    <3>. QED  BY <1>2, <2>3, <2>4, <3>1, HeldStays
  <2>5. \A p \in Proc : ~cache'[p].loaded
    BY <1>19 DEF Drop, Forget, NotLoaded
  <2>. QED  BY <1>19, <2>4, <2>5 DEF Drop, ReceiptInv, ReceiptStable
<1>. QED
  BY <1>7, <1>8, <1>9, <1>10, <1>11, <1>12, <1>13, <1>14, <1>15, <1>16, <1>17,
     <1>18, <1>19, <1>b DEF Step

-----------------------------------------------------------------------------
(* Under kills alone                                                        *)

KilledInv == LinesInv /\ CacheInv /\ MarkInv /\ SettleInv

\* The actions that are left, and what they find.
LEMMA KilledSteps ==
  ASSUME Killed, Step
  PROVE  \/ \E p \in Proc :
               \/ Load(p) \/ Sync(p) \/ Return(p) \/ Seed(p) \/ Kill(p)
               \/ \E c \in Cmd :
                    \/ RefuseDraft(p, c)
                    \/ \E b \in Body : Retry(p, c, b) \/ Write(p, c, b) \/ Tear(p, c, b)
         \/ ConsumeInput \/ HandleCommand
<1>1. ASSUME NEW p \in Proc, SyncFails(p)  PROVE FALSE
  BY <1>1 DEF SyncFails, Fault, Killed
<1>2. ASSUME NEW p \in Proc, NEW c \in Cmd, NEW b \in Body, WriteFails(p, c, b)
      PROVE FALSE
  BY <1>2 DEF WriteFails, Fault, Killed
<1>3. ~Drop
  BY DEF Drop, Fault, Killed
<1>. QED  BY <1>1, <1>2, <1>3 DEF Step

\* A new line comes after all others, is of a new command, and only the given
\* up sends of its draft are before it.
LEMMA NewLineIsNew ==
  ASSUME OneProcess, TypeOK, CallInv, KilledInv,
         NEW p \in Proc, NEW c \in Cmd, NEW b \in Body, CanWrite(p, c),
         NEW i \in 1..Len(lines)
  PROVE  /\ lines[i].seq < NewLine(p, c, b).seq
         /\ mark < NewLine(p, c, b).seq
         /\ lines[i].id # c
         /\ lines[i].id \in Cmd /\ DraftAt(i) \in Draft /\ DraftAt(i) = DraftOf[c]
              => lines[i].id \in Dead
<1>1. /\ ~Busy(p) /\ cache[p].loaded /\ seeded
      /\ Prior(p, c) = {} /\ ~Claimed(p, c)
  BY DEF CanWrite, CanCall, Busy
<1>2. \A j \in 1..Len(lines) :
        /\ lines[j].seq <= cache[p].last
        /\ lines[j].id \in Cmd =>
              /\ lines[j] \in cache[p].receipts
              /\ DraftAt(j) \in Draft =>
                   lines[j].id \in Dead \cup cache[p].claims[DraftAt(j)]
  BY <1>1 DEF KilledInv, CacheInv
<1>3. cache[p].last \in Nat /\ mark \in Nat /\ lines[i].seq \in Nat
  BY DEF TypeOK, Index, Line, Receipt
<1>4. NewLine(p, c, b).seq = cache[p].last + 1  BY DEF NewLine
<1>5. mark <= cache[p].last
  BY <1>1, <1>2, <1>3 DEF KilledInv, MarkInv
<1>6. lines[i].id # c
  BY <1>1, <1>2 DEF Prior
<1>7. ASSUME lines[i].id \in Cmd, DraftAt(i) \in Draft, DraftAt(i) = DraftOf[c]
      PROVE  lines[i].id \in Dead
  <2>1. SettledFor(p, c)[DraftOf[c]] = cache[p].claims[DraftOf[c]] \ Dead
    BY <1>7 DEF SettledFor, Settle, Dead
  <2>2. cache[p].claims[DraftOf[c]] \ Dead \subseteq {c}
    BY <1>1, <1>7, <2>1 DEF Claimed
  <2>. QED  BY <1>2, <1>6, <1>7, <2>2
<1>. QED  BY <1>2, <1>3, <1>4, <1>5, <1>6, <1>7

\* What is settled was not settled before, and the given up stay given up.
LEMMA SettlesOnce ==
  ASSUME TypeOK, KilledInv, ConsumeInput \/ HandleCommand
  PROVE  \E i \in 1..Len(lines), kind \in {"received", "revoked", "rejected", "handled"} :
           /\ facts' = facts \cup {Settling(i, kind)}
           /\ lines[i].id \in Cmd /\ lines[i].id \notin SettledIds
           /\ \/ /\ lines[i].id \notin Input /\ mark' = mark
              \/ /\ lines[i].id \in Input /\ mark' = lines[i].seq
                 /\ mark < lines[i].seq
                 /\ \A j \in 1..(i - 1) : lines[j].id \in Input => lines[j].seq <= mark
           /\ Dead \subseteq Dead'
<1>1. PICK i \in 1..Len(lines), kind \in {"received", "revoked", "rejected", "handled"} :
        /\ facts' = facts \cup {Settling(i, kind)} /\ Pending(i)
        /\ \/ lines[i].id \notin Input /\ mark' = mark
           \/ /\ lines[i].id \in Input
              /\ mark' = IF lines[i].seq > mark THEN lines[i].seq ELSE mark
              /\ \A j \in 1..(i - 1) : lines[j].id \in Input => ~Pending(j)
  BY DEF ConsumeInput, HandleCommand
<1>2. \A j \in 1..Len(lines) : lines[j].seq \in Nat
  BY DEF TypeOK, Line, Receipt
<1>3. lines[i].id \in Cmd /\ lines[i].id \notin SettledIds
  BY <1>1, <1>2 DEF Pending, KilledInv, SettleInv, TypeOK
<1>4. CASE lines[i].id \in Input
  <2>1. mark' = lines[i].seq /\ mark < lines[i].seq
    BY <1>1, <1>2, <1>4 DEF Pending, TypeOK
  <2>2. \A j \in 1..(i - 1) : lines[j].id \in Input => lines[j].seq <= mark
    BY <1>1, <1>2, <1>4, CommandsAreNamed, LenProperties DEF Pending, TypeOK
  <2>. QED  BY <1>1, <1>3, <1>4, <2>1, <2>2 DEF Dead, Received, Released, Settling, SettledIds
<1>5. CASE lines[i].id \notin Input
  BY <1>1, <1>3, <1>5 DEF Dead, Received, Released, Settling, SettledIds
<1>. QED  BY <1>4, <1>5

LEMMA StepKilledInv ==
  ASSUME OneProcess, TypeOK, CallInv, ReceiptInv, Killed, KilledInv, Step,
         plan' = plan
  PROVE  KilledInv'
<1>1. Len(lines) \in Nat /\ \A j \in 1..Len(lines) : lines[j].seq \in Nat
  BY LenProperties DEF TypeOK, Line, Receipt
<1>. USE DEF KilledInv
<1>2. ASSUME UNCHANGED <<lines, facts>>  PROVE LinesInv'
  BY <1>2 DEF LinesInv, Dead, Received, Released, DraftAt
<1>3. ASSUME UNCHANGED <<lines, facts, mark, seeded>>
      PROVE  MarkInv' /\ SettleInv'
  BY <1>3 DEF MarkInv, SettleInv, SettledIds, EffectivelyOnce
<1>4. ASSUME NEW p \in Proc, Load(p)  PROVE KilledInv'
  <2>. DEFINE R == {lines[i] : i \in {j \in 1..Len(lines) :
                            Latest(j) /\ lines[j].id \in Cmd}}
              C == [d \in Draft |-> {lines[i].id :
                         i \in {j \in 1..Len(lines) : Claims(j, d)}}]
  <2>1. UNCHANGED <<file, facts, mark, seeded, call>> /\ ~Busy(p)
    BY <1>4 DEF Load, file, journal, Busy
  <2>2. PICK last \in {0} \cup {lines[i].seq : i \in 1..Len(lines)} :
          /\ \A i \in 1..Len(lines) : lines[i].seq <= last
          /\ SetCache(p, [loaded |-> TRUE, last |-> last, receipts |-> R,
                          claims |-> Settle(C)])
    BY <1>4 DEF Load
  <2>3. ASSUME NEW i \in 1..Len(lines), lines[i].id \in Cmd
        PROVE  /\ lines[i] \in R
               /\ DraftAt(i) \in Draft =>
                    lines[i].id \in Dead \cup Settle(C)[DraftAt(i)]
    <3>1. Latest(i)  BY <1>1, <2>3 DEF LinesInv, Latest
    <3>2. ASSUME DraftAt(i) \in Draft, lines[i].id \notin Dead
          PROVE  lines[i].id \in C[DraftAt(i)]
      <4>1. Claims(i, DraftAt(i))
        BY <1>1, <2>3, <3>2 DEF LinesInv, Claims, DraftAt
      <4>. QED  BY <3>2, <4>1
    <3>. QED  BY <2>3, <3>1, <3>2 DEF Settle, Dead
  <2>. HIDE DEF R, C
  <2>4. /\ cache'[p].last = last /\ cache'[p].receipts = R
        /\ cache'[p].claims = Settle(C)
    BY <2>2 DEF SetCache, TypeOK
  <2>5. Dead' = Dead /\ \A i \in 1..Len(lines) : DraftAt(i)' = DraftAt(i)
    BY <2>1 DEF Dead, Received, Released, DraftAt, file
  <2>6. CacheInv'
    BY <2>1, <2>2, <2>3, <2>4, <2>5 DEF CacheInv, OneProcess, file
  <2>. QED  BY <1>2, <1>3, <2>1, <2>6 DEF file
<1>5. ASSUME NEW p \in Proc, Sync(p)  PROVE KilledInv'
  <2>1. UNCHANGED <<lines, cache, facts, mark, seeded>> /\ Busy(p) /\ Busy(p)'
    BY <1>5 DEF Sync, Enter, Busy, TypeOK, journal
  <2>2. CacheInv'
    BY <2>1 DEF CacheInv, OneProcess, Dead, Received, Released, DraftAt
  <2>. QED  BY <1>2, <1>3, <2>1, <2>2 DEF LinesInv
<1>6. ASSUME NEW p \in Proc, Return(p)  PROVE KilledInv'
  <2>. DEFINE line == call[p].line
              d == DraftOf[line.id]
  <2>1. /\ UNCHANGED <<file, facts, mark, seeded>> /\ Busy(p) /\ ~Busy(p)'
        /\ cache[p].loaded /\ line.id \in Cmd
    BY <1>6 DEF Return, Leave, Idle, Busy, CallInv, TypeOK, journal, Receipt
  <2>2. Len(lines) \in 1..Len(lines) /\ lines[Len(lines)] = line
    BY <1>1, <2>1 DEF CallInv
  <2>3. /\ cache'[p].loaded /\ cache'[p].last = line.seq
        /\ cache'[p].receipts = cache[p].receipts \cup {line}
        /\ cache'[p].claims = WithClaim(cache[p].claims, line.id)
    BY <1>6, <2>1 DEF Return, SetCache, TypeOK, Index
  <2>4. Dead' = Dead /\ \A i \in 1..Len(lines) : DraftAt(i)' = DraftAt(i)
    BY <2>1 DEF Dead, Received, Released, DraftAt, file
  <2>5. ASSUME NEW i \in 1..Len(lines)
        PROVE  /\ lines[i].seq <= cache'[p].last
               /\ lines[i].id \in Cmd =>
                    /\ lines[i] \in cache'[p].receipts
                    /\ DraftAt(i) \in Draft =>
                         lines[i].id \in Dead \cup cache'[p].claims[DraftAt(i)]
    <3>1. CASE i = Len(lines)
      <4>1. DraftAt(i) \in Draft => cache'[p].claims[DraftAt(i)] = {line.id}
        BY <2>2, <2>3, <3>1 DEF WithClaim, DraftAt
      <4>. QED  BY <1>1, <2>2, <2>3, <3>1, <4>1
    <3>2. CASE i # Len(lines)
      <4>1. /\ i < Len(lines) /\ lines[i].seq < line.seq
            /\ lines[i].id \in Cmd => lines[i] \in cache[p].receipts
        BY <1>1, <2>1, <2>2, <3>2 DEF LinesInv, CacheInv
      <4>2. ASSUME lines[i].id \in Cmd, DraftAt(i) \in Draft, DraftAt(i) = d
            PROVE  lines[i].id \in Dead
        BY <2>1, <2>2, <4>1, <4>2 DEF LinesInv, DraftAt
      <4>3. ASSUME lines[i].id \in Cmd, DraftAt(i) \in Draft, DraftAt(i) # d
            PROVE  lines[i].id \in Dead \cup cache'[p].claims[DraftAt(i)]
        <5>1. cache'[p].claims[DraftAt(i)] = cache[p].claims[DraftAt(i)]
          BY <2>3, <4>3 DEF WithClaim
        <5>. QED  BY <2>1, <3>2, <4>3, <5>1 DEF CacheInv
      <4>. QED  BY <1>1, <2>2, <2>3, <4>1, <4>2, <4>3
    <3>. QED  BY <3>1, <3>2
  <2>6. CacheInv'
    BY <2>1, <2>4, <2>5 DEF CacheInv, OneProcess, file
  <2>. QED  BY <1>2, <1>3, <2>1, <2>6 DEF file, LinesInv, OneProcess
<1>7. ASSUME NEW p \in Proc, Seed(p)  PROVE KilledInv'
  <2>. DEFINE e == [seq |-> mark, id |-> NoCmd, body |-> NoBody]
  <2>1. ~seeded /\ lines = <<>> /\ seeded' /\ UNCHANGED <<facts, mark>>
    BY <1>7 DEF Seed, MarkInv, journal
  <2>2. lines' = <<e>>  BY <1>7, <2>1 DEF Seed, Reaches
  <2>3. /\ Len(lines') = 1 /\ lines'[1] = e /\ e.seq = mark
        /\ e.id = NoCmd /\ NoCmd \notin Cmd
        /\ NoCmd \notin Input
    BY <2>2, CommandsAreNamed DEF NoCmd
  <2>. HIDE DEF e
  <2>4. /\ cache'[p].loaded = cache[p].loaded
        /\ cache[p].loaded => mark <= cache'[p].last
    BY <1>7 DEF Seed, SetCache, TypeOK, Index
  <2>5. facts = {}  BY <2>1 DEF SettleInv
  <2>6. LinesInv'
    BY <2>1, <2>3 DEF LinesInv
  <2>7. CacheInv'
    BY <2>3, <2>4 DEF CacheInv, OneProcess
  <2>8. MarkInv' /\ SettleInv'
    BY <2>1, <2>3, <2>5 DEF MarkInv, SettleInv, EffectivelyOnce
  <2>. QED  BY <2>6, <2>7, <2>8
<1>8. ASSUME NEW p \in Proc, Forget({p}), UNCHANGED <<lines, facts, mark, seeded>>
      PROVE  KilledInv'
  <2>1. \A q \in Proc : ~cache'[q].loaded
    BY <1>8 DEF Forget, NotLoaded, OneProcess
  <2>. QED  BY <1>2, <1>3, <1>8, <2>1 DEF CacheInv
<1>9. ASSUME NEW p \in Proc, NEW c \in Cmd, RefuseDraft(p, c)
      PROVE  KilledInv'
  <2>1. /\ UNCHANGED <<file, facts, mark, seeded, call>>
        /\ cache[p].loaded /\ cache'[p].loaded /\ ~Busy(p)
        /\ cache'[p].last = cache[p].last
        /\ cache'[p].receipts = cache[p].receipts
        /\ cache'[p].claims = SettledFor(p, c)
    BY <1>9 DEF RefuseDraft, CanCall, SetCache, TypeOK, Index, journal, Busy
  <2>2. Dead' = Dead /\ \A i \in 1..Len(lines) : DraftAt(i)' = DraftAt(i)
    BY <2>1 DEF Dead, Received, Released, DraftAt, file
  <2>3. \A d \in Draft : cache[p].claims[d] \subseteq Dead \cup SettledFor(p, c)[d]
    BY DEF SettledFor, Settle, Dead
  <2>4. CacheInv'
    BY <2>1, <2>2, <2>3 DEF CacheInv, OneProcess, file
  <2>. QED  BY <1>2, <1>3, <2>1, <2>4 DEF file, LinesInv, OneProcess
<1>10. ASSUME NEW p \in Proc, NEW c \in Cmd, NEW b \in Body, Retry(p, c, b)
       PROVE  KilledInv'
  <2>1. UNCHANGED <<file, facts, mark, seeded, call, cache>>
    BY <1>10 DEF Retry, journal
  <2>2. CacheInv'
    BY <2>1 DEF CacheInv, file, Busy, Dead, Received, Released, DraftAt
  <2>. QED  BY <1>2, <1>3, <2>1, <2>2 DEF file, LinesInv
<1>a. ASSUME NEW p \in Proc, NEW c \in Cmd, NEW b \in Body, CanWrite(p, c),
             NEW end \in {"newline", "bare", "part"},
             Reaches(NewLine(p, c, b), end), UNCHANGED <<facts, mark, seeded>>
      PROVE  LinesInv' /\ MarkInv' /\ SettleInv'
  <2>. DEFINE e == NewLine(p, c, b)
  <2>1. UNCHANGED <<facts, mark, seeded>> /\ seeded
    BY <1>a DEF CanWrite, CanCall
  <2>2. e \in Line /\ e.id = c
    BY Typed DEF NewLine
  <2>3. /\ Len(lines') = Len(lines) + 1
        /\ \A i \in 1..Len(lines) : lines'[i] = lines[i]
        /\ lines'[Len(lines) + 1] = e
    BY <1>a, <2>2, ReachesProperties
  <2>4. Dead' = Dead
    BY <2>1 DEF Dead, Received, Released
  <2>5. \A i \in 1..Len(lines) :
          /\ lines[i].seq < e.seq /\ mark < e.seq /\ lines[i].id # c
          /\ lines[i].id \in Cmd /\ DraftAt(i) \in Draft /\ DraftAt(i) = DraftOf[c]
               => lines[i].id \in Dead
    BY <1>a, NewLineIsNew
  <2>6. \A i \in 1..Len(lines) : DraftAt(i)' = DraftAt(i)
    BY <2>3 DEF DraftAt
  <2>7. \A i : i = Len(lines) + 1 => DraftAt(i)' = DraftOf[c]
    BY <2>2, <2>3 DEF DraftAt
  <2>. HIDE DEF e
  <2>8. LinesInv'
    <3>2. ASSUME NEW i \in 1..Len(lines'), NEW j \in 1..Len(lines'), i < j
          PROVE  /\ lines'[i].seq < lines'[j].seq
                 /\ lines'[i].id \in Cmd => lines'[i].id # lines'[j].id
                 /\ /\ lines'[i].id \in Cmd /\ lines'[j].id \in Cmd
                    /\ DraftAt(i)' \in Draft /\ DraftAt(i)' = DraftAt(j)'
                    => lines'[i].id \in Dead
      <4>1. CASE j = Len(lines) + 1
        BY <1>1, <2>2, <2>3, <2>5, <2>6, <2>7, <3>2, <4>1
      <4>2. CASE j # Len(lines) + 1
        BY <1>1, <2>3, <2>6, <3>2, <4>2 DEF LinesInv
      <4>. QED  BY <4>1, <4>2
    <3>. QED  BY <2>4, <3>2 DEF LinesInv
  <2>9. MarkInv'
    BY <1>1, <2>1, <2>3 DEF MarkInv
  <2>10. SettleInv'
    <3>1. c \notin SettledIds
      BY <2>5 DEF SettleInv, SettledIds
    <3>2. ~(e.seq <= mark)
      <4>1. e.seq \in Nat /\ mark \in Nat  BY <2>2 DEF Line, Receipt, TypeOK
      <4>2. mark < e.seq
        <5>1. CASE Len(lines) = 0
          <6>1. mark = 0  BY <2>1, <5>1 DEF MarkInv
          <6>2. e.seq = cache[p].last + 1 /\ cache[p].last \in Nat
            BY DEF e, NewLine, TypeOK, Index
          <6>. QED  BY <6>1, <6>2
        <5>2. CASE Len(lines) # 0
          BY <1>1, <2>5, <5>2
        <5>. QED  BY <5>1, <5>2
      <4>. QED  BY <4>1, <4>2
    <3>3. \A f \in facts : f.id \in Cmd /\ \E i \in 1..Len(lines') : lines'[i].id = f.id
      <4>. SUFFICES ASSUME NEW f \in facts
                    PROVE  f.id \in Cmd /\ \E i \in 1..Len(lines') : lines'[i].id = f.id
        OBVIOUS
      <4>1. PICK i \in 1..Len(lines) : lines[i].id = f.id
        BY DEF SettleInv
      <4>2. i \in 1..Len(lines') /\ lines'[i].id = f.id
        BY <1>1, <2>3, <4>1
      <4>. QED  BY <4>2 DEF SettleInv
    <3>4. ASSUME NEW i \in 1..Len(lines'), lines'[i].id \in Input
          PROVE  lines'[i].seq <= mark <=> lines'[i].id \in SettledIds
      <4>1. CASE i \in 1..Len(lines)
        BY <2>3, <3>4, <4>1 DEF SettleInv
      <4>2. CASE i \notin 1..Len(lines)
        <5>1. i = Len(lines) + 1  BY <1>1, <2>3, <4>2
        <5>. QED  BY <2>2, <2>3, <3>1, <3>2, <5>1
      <4>. QED  BY <4>1, <4>2
    <3>. QED  BY <2>1, <3>3, <3>4 DEF SettleInv, SettledIds, EffectivelyOnce
  <2>. QED  BY <2>8, <2>9, <2>10
<1>11. ASSUME NEW p \in Proc, NEW c \in Cmd, NEW b \in Body, Write(p, c, b)
       PROVE  KilledInv'
  <2>1. /\ CanWrite(p, c) /\ Reaches(NewLine(p, c, b), "newline")
        /\ UNCHANGED <<facts, mark, seeded>>
    BY <1>11 DEF Write, journal
  <2>2. NewLine(p, c, b) \in Line
    BY Typed
  <2>3. /\ Len(lines') = Len(lines) + 1
        /\ \A i \in 1..Len(lines) : lines'[i] = lines[i]
    BY <2>1, <2>2, ReachesProperties
  <2>4. Dead' = Dead
    BY <2>1 DEF Dead, Received, Released
  <2>6. \A i \in 1..Len(lines) : DraftAt(i)' = DraftAt(i)
    BY <2>3 DEF DraftAt
  <2>5. CacheInv'
    <3>1. /\ cache[p].loaded /\ ~Busy(p) /\ Busy(p)'
          /\ cache'[p].last = cache[p].last
          /\ cache'[p].receipts = cache[p].receipts
          /\ cache'[p].claims = SettledFor(p, c)
      BY <1>11 DEF Write, CanWrite, CanCall, Enter, Busy, SetCache, TypeOK, Index
    <3>2. \A d \in Draft : cache[p].claims[d] \subseteq Dead \cup SettledFor(p, c)[d]
      BY DEF SettledFor, Settle, Dead
    <3>3. ASSUME NEW i \in 1..Len(lines'), i # Len(lines')
          PROVE  /\ lines'[i].seq <= cache'[p].last
                 /\ lines'[i].id \in Cmd =>
                      /\ lines'[i] \in cache'[p].receipts
                      /\ DraftAt(i)' \in Draft =>
                           lines'[i].id \in Dead \cup cache'[p].claims[DraftAt(i)']
      <4>1. i \in 1..Len(lines)  BY <1>1, <2>3, <3>3
      <4>. QED  BY <2>3, <2>6, <3>1, <3>2, <4>1 DEF CacheInv
    <3>. QED  BY <2>4, <3>1, <3>3 DEF CacheInv, OneProcess
  <2>. QED  BY <1>a, <2>1, <2>5
<1>b. ASSUME NEW p \in Proc, NEW c \in Cmd, NEW b \in Body, Tear(p, c, b)
      PROVE  KilledInv'
  <2>1. /\ CanWrite(p, c) /\ Breaks(NewLine(p, c, b)) /\ Forget({p})
        /\ UNCHANGED <<facts, mark, seeded>>
    BY <1>b DEF Tear, journal
  <2>2. CASE UNCHANGED <<lines, ends>>
    BY <1>8, <2>1, <2>2
  <2>3. ASSUME NEW end \in {"newline", "bare", "part"},
               Reaches(NewLine(p, c, b), end)
        PROVE  KilledInv'
    <3>1. LinesInv' /\ MarkInv' /\ SettleInv'
      BY <1>a, <2>1, <2>3
    <3>2. \A q \in Proc : ~cache'[q].loaded
      BY <2>1 DEF Forget, NotLoaded, OneProcess
    <3>. QED  BY <3>1, <3>2 DEF CacheInv
  <2>. QED  BY <2>1, <2>2, <2>3 DEF Breaks
<1>12. ASSUME ConsumeInput \/ HandleCommand  PROVE KilledInv'
  <2>1. UNCHANGED <<file, cache, call, seeded>>
    BY <1>12 DEF ConsumeInput, HandleCommand
  <2>2. PICK i \in 1..Len(lines), kind \in {"received", "revoked", "rejected", "handled"} :
           /\ facts' = facts \cup {Settling(i, kind)}
           /\ lines[i].id \in Cmd /\ lines[i].id \notin SettledIds
           /\ \/ /\ lines[i].id \notin Input /\ mark' = mark
              \/ /\ lines[i].id \in Input /\ mark' = lines[i].seq
                 /\ mark < lines[i].seq
                 /\ \A j \in 1..(i - 1) : lines[j].id \in Input => lines[j].seq <= mark
           /\ Dead \subseteq Dead'
    BY <1>12, SettlesOnce
  <2>3. \A j \in 1..Len(lines) : DraftAt(j)' = DraftAt(j)
    BY <2>1 DEF DraftAt, file
  <2>4. LinesInv'
    BY <2>1, <2>2, <2>3 DEF LinesInv, file
  <2>5. CacheInv'
    BY <2>1, <2>2, <2>3 DEF CacheInv, file, Busy
  <2>6. MarkInv'
    <3>1. mark' = mark \/ mark' = lines[i].seq
      BY <2>2
    <3>. QED  BY <2>1, <3>1 DEF MarkInv, file
  <2>7. SettledIds' = SettledIds \cup {lines[i].id}
    <3>1. facts' = facts \cup {Settling(i, kind)}  BY <2>2
    <3>2. Settling(i, kind).id = lines[i].id  BY DEF Settling
    <3>. QED  BY <3>1, <3>2 DEF SettledIds
  <2>8. ASSUME NEW j \in 1..Len(lines), lines[j].id \in Input
        PROVE  lines[j].seq <= mark' <=> lines[j].id \in SettledIds'
    <3>1. lines[j].seq <= mark <=> lines[j].id \in SettledIds
      BY <2>8 DEF SettleInv
    <3>2. mark \in Nat  BY DEF TypeOK
    <3>3. CASE lines[i].id \notin Input
      BY <2>2, <2>7, <2>8, <3>1, <3>3
    <3>4. CASE lines[i].id \in Input
      <4>1. CASE j < i
        BY <1>1, <2>2, <2>7, <2>8, <3>1, <3>2, <3>4, <4>1
      <4>2. CASE j = i
        BY <1>1, <2>2, <2>7, <3>4, <4>2
      <4>3. CASE i < j
        <5>1. lines[i].seq < lines[j].seq /\ lines[i].id # lines[j].id
          BY <2>2, <4>3 DEF LinesInv
        <5>. QED  BY <1>1, <2>2, <2>7, <3>1, <3>2, <3>4, <5>1
      <4>. QED  BY <4>1, <4>2, <4>3
    <3>. QED  BY <3>3, <3>4
  <2>9. SettleInv'
    <3>1. Settling(i, kind).id = lines[i].id  BY DEF Settling
    <3>2. EffectivelyOnce'
      BY <2>2, <3>1 DEF SettleInv, EffectivelyOnce, SettledIds
    <3>. QED  BY <2>1, <2>2, <2>8, <3>1, <3>2 DEF SettleInv, file
  <2>. QED  BY <2>4, <2>5, <2>6, <2>9
<1>. QED
  BY <1>4, <1>5, <1>6, <1>7, <1>8, <1>9, <1>10, <1>11, <1>12, <1>b, KilledSteps
  DEF Kill, journal, file

-----------------------------------------------------------------------------
(* The theorems                                                             *)

LEMMA InitIInv == Init => IInv
<1>. SUFFICES ASSUME Init PROVE IInv
  OBVIOUS
<1>1. TypeOK  BY InitTypeOK
<1>2. \A p \in Proc : ~cache[p].loaded /\ ~Busy(p)
  BY DEF Init, NotLoaded, Idle, Busy
<1>3. Len(lines) = 0 /\ durable = 0  BY DEF Init
<1>4. FileInv /\ CallInv  BY <1>2, <1>3 DEF FileInv, CallInv
<1>5. ReceiptInv  BY <1>2 DEF Init, ReceiptInv, ReceiptStable
<1>6. LinesInv /\ CacheInv /\ SettleInv
  BY <1>2, <1>3 DEF Init, LinesInv, CacheInv, SettleInv, EffectivelyOnce
<1>7. MarkInv
  <2>1. seeded => mark = 0  BY DEF Init
  <2>2. lines = <<>>  BY DEF Init
  <2>. QED  BY <2>1, <2>2 DEF MarkInv
<1>. QED  BY <1>1, <1>4, <1>5, <1>6, <1>7 DEF IInv

LEMMA StepIInv == OneProcess /\ IInv /\ [Next]_vars => IInv'
<1>. SUFFICES ASSUME OneProcess, IInv, [Next]_vars PROVE IInv'
  OBVIOUS
<1>1. TypeOK'  BY StepTypeOK DEF IInv
<1>2. CASE UNCHANGED vars
  BY <1>1, <1>2 DEF vars, IInv, FileInv, CallInv, ReceiptInv, ReceiptStable,
       LinesInv, CacheInv, MarkInv, SettleInv, EffectivelyOnce, SettledIds,
       Busy, Prior, Dead, Received, Released, DraftAt, Kept, Held, Latest,
       Mild, Killed
<1>3. CASE Step /\ plan' = plan
  <2>1. FileInv' /\ CallInv'
    BY <1>1, <1>3, StepFileInv, StepCallInv DEF IInv
  <2>2. ASSUME Mild  PROVE ReceiptInv'
    BY <1>1, <1>3, <2>1, <2>2, StepReceiptInv DEF IInv
  <2>3. ASSUME Killed  PROVE KilledInv'
    <3>1. ReceiptInv  BY <2>3 DEF IInv, Killed, Mild
    <3>. QED  BY <1>3, <2>3, <3>1, StepKilledInv DEF IInv, KilledInv
  <2>4. (Mild' <=> Mild) /\ (Killed' <=> Killed)
    BY <1>3 DEF Mild, Killed
  <2>. QED  BY <1>1, <2>1, <2>2, <2>3, <2>4 DEF IInv, KilledInv
<1>. QED  BY <1>2, <1>3 DEF Next

\* A mailbox one process serves keeps the inductive invariant (AppendCommand,
\* loadInboxIndex).
THEOREM Invariance == OneProcess => (Spec => []IInv)
<1>. SUFFICES ASSUME OneProcess PROVE Spec => []IInv
  OBVIOUS
<1>1. Init => IInv  BY InitIInv
<1>2. IInv /\ [Next]_vars => IInv'  BY StepIInv
<1>. QED  BY <1>1, <1>2, PTL DEF Spec

\* The variables have their types, with any number of processes.
THEOREM TypeCorrect == Spec => []TypeOK
<1>1. Init => TypeOK  BY InitTypeOK
<1>2. TypeOK /\ [Next]_vars => TypeOK'  BY StepTypeOK
<1>. QED  BY <1>1, <1>2, PTL DEF Spec

\* A kill between two steps of AppendCommand leaves the file readable, and no
\* kill, inside the write too, takes an accepted command out of a readable file
\* or hides it behind the high-water mark (AppendCommand, ReadCommands).
THEOREM NothingSwallowed == OneProcess => (Spec => []KilledSwallowsNone)
<1>1. IInv => KilledSwallowsNone
  <2>1. IInv /\ plan \subseteq {"kill"} => Readable
    BY DEF IInv, FileInv, Readable
  <2>2. ASSUME IInv, Killed, NEW r \in acked, r.id \notin SettledIds
        PROVE  \E i \in 1..Len(lines) : lines[i] = r /\ Pending(i)
    <3>1. Held(r) /\ Kept = Len(lines)
      BY <2>2 DEF IInv, Killed, Mild, ReceiptInv, Kept
    <3>2. PICK i \in 1..Len(lines) : lines[i] = r
      BY <3>1 DEF Held
    <3>3. r.id \in Cmd /\ r.seq \in Nat /\ mark \in Nat
      BY <2>2 DEF IInv, TypeOK, Receipt
    <3>4. r.id \in Input => r.seq > mark
      BY <2>2, <3>2, <3>3 DEF IInv, SettleInv
    <3>. QED  BY <2>2, <3>2, <3>3, <3>4 DEF Pending
  <2>. QED  BY <2>1, <2>2 DEF KilledSwallowsNone, NoneSwallowed
<1>. QED  BY <1>1, Invariance, PTL

\* A command is settled once, its retries get one receipt, a fork's draft is sent
\* once (settleDraftClaims), whatever the plan of faults leaves of it.
THEOREM SettlingIsOnce == OneProcess => (Spec => []SettledOnce)
<1>1. IInv => SettledOnce
  <2>1. IInv /\ Mild => ReceiptStable  BY DEF IInv, ReceiptInv
  <2>2. IInv /\ Killed => EffectivelyOnce  BY DEF IInv, SettleInv
  <2>3. IInv /\ Killed => DraftOnce
    <3>. SUFFICES ASSUME IInv, Killed, NEW f \in facts, NEW g \in facts,
                         f.kind = "received", g.kind = "received",
                         DraftOf[f.id] \in Draft, DraftOf[g.id] = DraftOf[f.id]
                  PROVE  f.id = g.id
      BY DEF DraftOnce
    <3>1. PICK i, j \in 1..Len(lines) : lines[i].id = f.id /\ lines[j].id = g.id
      BY DEF IInv, SettleInv
    <3>2. f.id \notin Dead /\ g.id \notin Dead
      BY DEF Dead, Received
    <3>3. f.id \in Cmd /\ g.id \in Cmd
      BY DEF IInv, SettleInv
    <3>4. ~(i < j) /\ ~(j < i)
      BY <3>1, <3>2, <3>3 DEF IInv, LinesInv, DraftAt
    <3>5. i = j
      BY <3>1, <3>4, LenProperties DEF IInv, TypeOK
    <3>. QED  BY <3>1, <3>5
  <2>. QED  BY <2>1, <2>2, <2>3 DEF SettledOnce, Mild
<1>. QED  BY <1>1, Invariance, PTL
=============================================================================
