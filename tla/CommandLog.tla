----------------------------- MODULE CommandLog -----------------------------
(***************************************************************************)
(* internal/store/inbox.go: the durable mailbox of one session, an         *)
(* append-only JSONL file of commands that is fsynced before the sender    *)
(* is acknowledged, and the index of it that each process loads once and   *)
(* keeps.  The session's journal is the other side: it settles commands,   *)
(* inputs by their sequence number, other commands by their id.            *)
(*                                                                          *)
(* A payload is a member of Body, its SHA-256 is the payload itself.        *)
(* `lines` has an entry for every write that left bytes in the file, whole   *)
(* or not, and `ends` says what it left: the line with its newline, the line *)
(* without it ("bare"), or a part of the line.  The next write goes on where *)
(* the last one stopped.  `durable` entries were there at the last fsync.    *)
(* inboxMu makes an append atomic within a process; nothing does between     *)
(* processes.                                                               *)
(***************************************************************************)
EXTENDS Integers, Sequences, FiniteSets

CONSTANTS Proc,        \* processes that call the package
          Cmd,         \* command ids
          Input,       \* the ids whose commands are of kind input
          Body,        \* payloads
          Draft,       \* fork drafts
          DraftOf,     \* the draft an input is the first send of, or NoDraft
          Inherited,   \* high-water mark a fork's journal starts with
          Plans,       \* sets of kinds of faults, one of which may occur
          MaxLines,    \* bound: lines of the file
          MaxFaults    \* bound: faults

NoCmd == "seed"        \* a line without a command id
NoDraft == "no draft"
NoBody == "no body"
FaultKinds == {"kill", "tear", "drop", "write", "sync"}

ASSUME CommandsAreNamed ==
  /\ NoCmd \notin Cmd /\ Input \subseteq Cmd
  /\ NoDraft \notin Draft /\ DraftOf \in [Cmd -> Draft \cup {NoDraft}]
  /\ \A c \in Cmd : DraftOf[c] \in Draft => c \in Input
  /\ Inherited \in Nat /\ MaxLines \in Nat /\ MaxFaults \in Nat
  /\ \A P \in Plans : P \subseteq FaultKinds

Receipt == [seq : Nat, id : Cmd, body : Body]
Line == Receipt \cup [seq : Nat, id : {NoCmd}, body : {NoBody}]
Fact == [kind : {"received", "revoked", "rejected", "handled"}, id : Cmd,
         seq : Nat]

VARIABLES
  lines, ends, durable,   \* inbox.jsonl
  cache,                  \* each process's inboxCache entry of this session
  call,                   \* the AppendCommand each process is inside of
  facts, mark,            \* journal: what it settled, ConsumedInputSeq
  seeded,                 \* the mailbox is open for business
  acked,                  \* history: receipts AppendCommand has returned
  plan, faults            \* the kinds of faults of this behaviour, their number

file == <<lines, ends, durable>>
journal == <<facts, mark>>
vars == <<lines, ends, durable, cache, call, facts, mark, seeded, acked,
          plan, faults>>

Index == [loaded : BOOLEAN, last : Nat, receipts : SUBSET Receipt,
          claims : [Draft -> SUBSET Cmd]]
NotLoaded == [loaded |-> FALSE, last |-> 0, receipts |-> {},
              claims |-> [d \in Draft |-> {}]]
Idle == [stage |-> "idle", line |-> [seq |-> 0, id |-> NoCmd, body |-> NoBody]]

Init ==
  /\ lines = <<>> /\ ends = <<>> /\ durable = 0
  /\ cache = [p \in Proc |-> NotLoaded] /\ call = [p \in Proc |-> Idle]
  /\ facts = {} /\ mark = Inherited /\ seeded = (Inherited = 0)
  /\ acked = {} /\ plan \in Plans /\ faults = 0

SetCache(p, i) == cache' = [cache EXCEPT ![p] = i]
Enter(p, stage, line) ==
  call' = [call EXCEPT ![p] = [stage |-> stage, line |-> line]]
Leave(p) == call' = [call EXCEPT ![p] = Idle]
Fault(kind) == kind \in plan /\ faults < MaxFaults /\ faults' = faults + 1

-----------------------------------------------------------------------------
(* Reading                                                                  *)

\* ReadCommands refuses the whole file for one line it cannot decode: a part of
\* a line, or a bare line that another was written behind.  Its scanner does
\* return a last line that lacks nothing but its newline.
Readable ==
  \A i \in 1..Len(lines) : ends[i] = "newline" \/ (ends[i] = "bare" /\ i = Len(lines))

\* The journal's receipts that free a draft: a consumed one is never freed.
Received == {f.id : f \in {g \in facts : g.kind = "received"}}
Released == {f.id : f \in {g \in facts : g.kind \in {"revoked", "rejected"}}}
Settle(claims) == [d \in Draft |-> claims[d] \ (Released \ Received)]

\* The last line of each command, and the last claim on each draft.
Latest(i) == \A j \in (i + 1)..Len(lines) : lines[j].id # lines[i].id
Claims(i, d) ==
  /\ lines[i].id \in Cmd /\ DraftOf[lines[i].id] = d
  /\ \A j \in (i + 1)..Len(lines) :
       lines[j].id \in Cmd => DraftOf[lines[j].id] # d

\* Mutant: receipts are not rebuilt, so a retry after a restart is new.
Load_ForgetReceipts(p) ==
  /\ call[p].stage = "idle" /\ ~cache[p].loaded /\ Readable
  /\ \E last \in {0} \cup {lines[i].seq : i \in 1..Len(lines)} :
       /\ \A i \in 1..Len(lines) : lines[i].seq <= last
       /\ SetCache(p, [NotLoaded EXCEPT !.loaded = TRUE, !.last = last])
  /\ UNCHANGED <<file, call, journal, seeded, acked, faults>>

\* loadInboxIndex: one scan of the file, kept for the life of the process.
Load(p) ==
  /\ call[p].stage = "idle" /\ ~cache[p].loaded /\ Readable
  /\ \E last \in {0} \cup {lines[i].seq : i \in 1..Len(lines)} :
       /\ \A i \in 1..Len(lines) : lines[i].seq <= last
       /\ SetCache(p, [loaded |-> TRUE, last |-> last,
            receipts |-> {lines[i] : i \in {j \in 1..Len(lines) :
                            Latest(j) /\ lines[j].id \in Cmd}},
            claims |-> Settle([d \in Draft |-> {lines[i].id :
                         i \in {j \in 1..Len(lines) : Claims(j, d)}}])])
  /\ UNCHANGED <<file, call, journal, seeded, acked, faults>>

-----------------------------------------------------------------------------
(* AppendCommand                                                            *)

Prior(p, c) == {r \in cache[p].receipts : r.id = c}
CanCall(p) == call[p].stage = "idle" /\ cache[p].loaded /\ seeded

\* An exact retry gets the receipt of the first acceptance; the same id with
\* another payload is refused and changes nothing.
Retry(p, c, b) ==
  /\ CanCall(p)
  /\ \E r \in Prior(p, c) : r.body = b /\ acked' = acked \cup {r}
  /\ UNCHANGED <<file, cache, call, journal, seeded, faults>>

\* The claims as settleDraftClaims leaves them, for an input with a draft.
SettledFor(p, c) ==
  IF DraftOf[c] \in Draft THEN Settle(cache[p].claims) ELSE cache[p].claims

Claimed(p, c) ==
  DraftOf[c] \in Draft /\ SettledFor(p, c)[DraftOf[c]] \ {c} # {}

\* A draft with an unsettled or consumed first send refuses another.
RefuseDraft(p, c) ==
  /\ CanCall(p) /\ Prior(p, c) = {} /\ Claimed(p, c)
  /\ SetCache(p, [cache[p] EXCEPT !.claims = SettledFor(p, c)])
  /\ UNCHANGED <<file, call, journal, seeded, acked, faults>>

CanWrite(p, c) ==
  CanCall(p) /\ Prior(p, c) = {} /\ ~Claimed(p, c) /\ Len(lines) < MaxLines

NewLine(p, c, b) == [seq |-> cache[p].last + 1, id |-> c, body |-> b]
Reaches(line, end) == lines' = Append(lines, line) /\ ends' = Append(ends, end)

\* A new command gets the next sequence and its line reaches the file.
Write(p, c, b) ==
  /\ CanWrite(p, c)
  /\ Reaches(NewLine(p, c, b), "newline")
  /\ SetCache(p, [cache[p] EXCEPT !.claims = SettledFor(p, c)])
  /\ Enter(p, "written", NewLine(p, c, b))
  /\ UNCHANGED <<durable, journal, seeded, acked, faults>>

\* What a write that did not complete leaves.
Breaks(line) ==
  \/ UNCHANGED <<lines, ends>>
  \/ \E end \in {"bare", "part"} : Reaches(line, end)

\* The write fails, perhaps half way: the error is returned, nothing else.
WriteFails(p, c, b) ==
  /\ CanWrite(p, c) /\ Fault("write")
  /\ Breaks(NewLine(p, c, b))
  /\ SetCache(p, [cache[p] EXCEPT !.claims = SettledFor(p, c)])
  /\ UNCHANGED <<durable, call, journal, seeded, acked>>

Sync(p) ==
  /\ call[p].stage = "written"
  /\ durable' = Len(lines)
  /\ Enter(p, "synced", call[p].line)
  /\ UNCHANGED <<lines, ends, cache, journal, seeded, acked, faults>>

\* fsync or close reports an error: it is returned, and the index does not
\* learn of the line.
SyncFails(p) ==
  /\ call[p].stage \in {"written", "synced"} /\ Fault("sync")
  /\ Leave(p)
  /\ UNCHANGED <<file, cache, journal, seeded, acked>>

WithClaim(claims, c) ==
  [d \in Draft |-> IF d = DraftOf[c] THEN {c} ELSE claims[d]]

\* Mutant: a receipt is returned for an append that was never made.
Return_Unguarded(p) ==
  /\ acked' = acked \cup {call[p].line}
  /\ Leave(p)
  /\ UNCHANGED <<file, cache, journal, seeded, faults>>

\* The index learns of the line and the receipt is returned.
Return(p) ==
  /\ call[p].stage = "synced"
  /\ LET line == call[p].line
     IN /\ SetCache(p, [cache[p] EXCEPT !.last = line.seq,
                                        !.receipts = @ \cup {line},
                                        !.claims = WithClaim(@, line.id)])
        /\ acked' = acked \cup {line}
  /\ Leave(p)
  /\ UNCHANGED <<file, journal, seeded, faults>>

-----------------------------------------------------------------------------
(* SeedInboxWatermark, before the fork's mailbox is open for business       *)

\* Mutant: a fork's mailbox starts empty.
Seed_Skipped(p) ==
  /\ ~seeded /\ seeded' = TRUE
  /\ UNCHANGED <<file, cache, call, journal, acked, faults>>

Seed(p) ==
  /\ ~seeded /\ seeded' = TRUE
  /\ Reaches([seq |-> mark, id |-> NoCmd, body |-> NoBody], "newline")
  /\ durable' = Len(lines')
  /\ SetCache(p, IF cache[p].loaded /\ mark > cache[p].last
                 THEN [cache[p] EXCEPT !.last = mark] ELSE cache[p])
  /\ UNCHANGED <<call, journal, acked, faults>>

-----------------------------------------------------------------------------
(* The consumer: the session's loop, replaying or fed in file order         *)

SettledIds == {f.id : f \in facts}

\* Inputs are told apart by sequence alone, other commands by id.
Pending(i) ==
  /\ lines[i].id \in Cmd
  /\ IF lines[i].id \in Input THEN lines[i].seq > mark
                             ELSE lines[i].id \notin SettledIds

Settling(i, kind) == [kind |-> kind, id |-> lines[i].id, seq |-> lines[i].seq]

\* The first pending input is journaled as received, revoked or vetoed by a
\* hook; each of the three advances the high-water mark.
ConsumeInput ==
  /\ Readable
  /\ \E i \in 1..Len(lines) :
       /\ Pending(i) /\ lines[i].id \in Input
       /\ \A j \in 1..(i - 1) : lines[j].id \in Input => ~Pending(j)
       /\ \E kind \in {"received", "revoked", "rejected"} :
            facts' = facts \cup {Settling(i, kind)}
       /\ mark' = IF lines[i].seq > mark THEN lines[i].seq ELSE mark
  /\ UNCHANGED <<file, cache, call, seeded, acked, faults>>

\* Any other command is settled by a fact that carries its id.
HandleCommand ==
  /\ Readable
  /\ \E i \in 1..Len(lines) :
       /\ Pending(i) /\ lines[i].id \notin Input
       /\ facts' = facts \cup {Settling(i, "handled")}
  /\ UNCHANGED <<file, cache, call, mark, seeded, acked, faults>>

-----------------------------------------------------------------------------
(* What the file must survive                                               *)

Forget(procs) ==
  /\ cache' = [p \in Proc |-> IF p \in procs THEN NotLoaded ELSE cache[p]]
  /\ call' = [p \in Proc |-> IF p \in procs THEN Idle ELSE call[p]]

\* A process dies between two steps.
Kill(p) ==
  /\ Fault("kill") /\ Forget({p})
  /\ UNCHANGED <<file, journal, seeded, acked>>

\* A process dies inside the write of a line.
Tear(p, c, b) ==
  /\ Fault("tear") /\ CanWrite(p, c)
  /\ Forget({p}) /\ Breaks(NewLine(p, c, b))
  /\ UNCHANGED <<durable, journal, seeded, acked>>

\* Power loss takes bytes from the end of what was never fsynced: whole entries,
\* and of the last one left its newline or more.  What is left is on the disk.
Drop ==
  /\ Fault("drop") /\ Forget(Proc)
  /\ \E k \in durable..Len(lines) :
       /\ lines' = SubSeq(lines, 1, k) /\ durable' = k
       /\ \/ ends' = SubSeq(ends, 1, k)
          \/ \E end \in {"bare", "part"} :
               /\ k > durable
               /\ ends[k] = "part" => end = "part"
               /\ ends' = [SubSeq(ends, 1, k) EXCEPT ![k] = end]
  /\ UNCHANGED <<journal, seeded, acked>>

Step ==
  \/ \E p \in Proc :
       \/ Load(p) \/ Sync(p) \/ SyncFails(p) \/ Return(p) \/ Seed(p)
       \/ Kill(p)
       \/ \E c \in Cmd :
            \/ RefuseDraft(p, c)
            \/ \E b \in Body :
                 Retry(p, c, b) \/ Write(p, c, b) \/ WriteFails(p, c, b) \/ Tear(p, c, b)
  \/ ConsumeInput \/ HandleCommand \/ Drop

Next == Step /\ UNCHANGED plan
Spec == Init /\ [][Next]_vars

-----------------------------------------------------------------------------
(* Properties                                                               *)

TypeOK ==
  /\ lines \in Seq(Line) /\ ends \in Seq({"newline", "bare", "part"})
  /\ Len(ends) = Len(lines) /\ durable \in Nat
  /\ cache \in [Proc -> Index]
  /\ call \in [Proc -> [stage : {"idle", "written", "synced"}, line : Line]]
  /\ \A p \in Proc : call[p].stage # "idle" => call[p].line \in Receipt
  /\ facts \subseteq Fact /\ mark \in Nat /\ seeded \in BOOLEAN
  /\ acked \subseteq Receipt /\ plan \in Plans /\ faults \in Nat

\* A command the sender was told is accepted is settled in the journal, or is
\* in the file where a replay finds it: it is never hidden behind a
\* high-water mark that passed it (AppendCommand, Resume's mailbox replay).
NoneSwallowed ==
  \A r \in acked :
    r.id \in SettledIds \/ \E i \in 1..Len(lines) : lines[i] = r /\ Pending(i)

\* A command is settled at most once, however often its sender retries it and
\* the process restarts ("at-least-once + seq dedup = effectively once").
EffectivelyOnce == \A f, g \in facts : f.id = g.id => f = g

\* A fork's draft becomes at most one message, though several commands try to
\* send it and each may be revoked or vetoed (settleDraftClaims).
DraftOnce ==
  \A f, g \in facts :
    /\ f.kind = "received" /\ g.kind = "received"
    /\ DraftOf[f.id] \in Draft /\ DraftOf[g.id] = DraftOf[f.id]
    => f.id = g.id

\* "Exact command-id retries return the original receipt": two answers to one
\* command id name one sequence and one payload.
ReceiptStable == \A r, s \in acked : r.id = s.id => r = s

\* "The ack means durable": the line of an accepted command was fsynced.
AckedDurable ==
  \A r \in acked : \E i \in 1..Len(lines) : i <= durable /\ lines[i] = r

\* A resume can read the file back: "a resume replays exactly the entries the
\* journal has not seen".
MailboxReadable == Readable

Killed == plan \subseteq {"kill", "tear"}

\* A kill between two steps of AppendCommand leaves a file that can be read, in
\* which no accepted command hides behind the high-water mark.  A kill inside its
\* write may leave one that cannot (MailboxReadable is then false, and every
\* later command is accepted into it); as long as the file can be read, a line
\* torn just before its newline and acknowledged to a retry included, no
\* accepted command is missing or hidden in it.
KilledSwallowsNone ==
  /\ plan \subseteq {"kill"} => Readable
  /\ Killed /\ Readable => NoneSwallowed

\* A command is settled once and answered with one receipt, and a draft is sent
\* once.  That kills keep all of it, and that errors and a power loss keep the
\* receipts, is what the code promises; after an error a sequence can be given
\* out twice, and a kill before a power loss lets a retry be acknowledged for a
\* line that was never fsynced.
SettledOnce ==
  /\ ("drop" \in plan /\ plan \cap {"kill", "tear"} # {}) \/ ReceiptStable
  /\ Killed => EffectivelyOnce /\ DraftOnce
=============================================================================
