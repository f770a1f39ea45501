---------------------------- MODULE SessionPage ----------------------------
(***************************************************************************)
(* The remote state of a session page                                      *)
(* (src/webui/frontend/src/features/session/useSessionDataController.ts).  *)
(*                                                                         *)
(* Everything the page knows comes over calls that are answered in any     *)
(* order: a poll of the journal every second (one at a time), an inspect   *)
(* pass every 2.5 s (no guard: passes overlap), one call per click, and a  *)
(* stream of live events.  A click is issued, served and landed by three   *)
(* actions, a poll is served as it is issued and landed later: the server  *)
(* may have moved on meanwhile.  Inspect passes overlap without bound, so  *)
(* the model does not count them: one lands with what is true now or, late,*)
(* with what was true at some moment since the page loaded.            *)
(* A fault makes the page see an error, before or after   *)
(* the server has acted.                                                   *)
(*                                                                         *)
(* The server (journal, mailbox, open question, waiting children, forks)   *)
(* is external: it does what the page's calls rely on.  The ps call that   *)
(* heads a pass only delays its inspect.  Usage, progress, artifacts and   *)
(* images are data nothing below tells apart; the goal has a module of its *)
(* own (GoalBar).                                                          *)
(***************************************************************************)
EXTENDS Integers, Sequences, FiniteSets, SequencesExt

CONSTANTS Texts,      \* what a message says: two messages may say the same
          Kids,       \* approvals children may wait for (positive numbers)
          Items,      \* messages one can continue from
          MaxSteps     \* clicks, spontaneous server steps, faults and late passes

ASSUME SessionPageAssumption ==
    MaxSteps \in Nat /\ Texts # {}

VARIABLES
    \* server
    journal,      \* events: [type, text]
    mail,         \* accepted messages not yet consumed
    ask, questions,   \* the open question (0: none), the questions so far
    child,        \* approvals children wait for
    forks,        \* forks[i]: the request ids that made a fork of item i
    exists,
    stream,       \* live events on their way
    calls,        \* polls and clicks on their way
    past,         \* what late passes may answer: [ask, kids, rows]
    \* page
    events, cursor, eventsReady, pending, typing, sseApprovals, kidsShown,
    resolvedLocal, askQuestions, queued, gone,
    continueRequests, \* in memory: item -> request id, 0 if none
    \* browser
    storedIds,       \* sessionStorage: item -> request id, 0 if none
    \* history and quotas
    mustShow,         \* sends that must stay visible: id -> text
    withdrawn,    \* ids revoked by the user
    decided,      \* approvals whose decision the page saw accepted
    steps,        \* what has been spent of MaxSteps
    faulty        \* the page has seen a fault

remoteVars == <<journal, mail, ask, questions, child, forks, exists>>
pageVars == <<events, cursor, eventsReady, pending, typing, sseApprovals,
              kidsShown, resolvedLocal, askQuestions, queued, gone,
              continueRequests>>
history == <<mustShow, withdrawn, decided>>
quotas == <<steps, faulty>>
vars == <<remoteVars, stream, calls, pageVars, storedIds, past, history, quotas>>

(***************************************************************************)
(* Calls.                                                                  *)
(***************************************************************************)
PageCall(kind, slot, arg, text) ==
    [kind |-> kind, slot |-> slot, arg |-> arg, text |-> text, st |-> "out",
     evs |-> <<>>]
Issue(c) == calls' = calls \union {c}
Answered(c, st) == (calls \ {c}) \union {[c EXCEPT !.st = st]}
Polls(cs) == {c \in cs : c.kind = "events"}
EventsAfter(from) ==
    [PageCall("events", 0, 0, "") EXCEPT
        !.st = IF exists THEN "ok" ELSE "gone",
        !.evs = SubSeq(journal, from + 1, Len(journal))]

\* What `ar queue` lists: accepted, unconsumed, not steered.
Rows == LET waiting == SelectSeq(mail, LAMBDA m : ~m.steer)
        IN  [i \in DOMAIN waiting |->
                [id |-> waiting[i].id, revoked |-> waiting[i].revoked]]
Seen == [ask |-> ask, kids |-> child, rows |-> Rows]
Remember == past' = IF steps' = MaxSteps THEN {} ELSE past \union {Seen'}
Spend == steps < MaxSteps /\ steps' = steps + 1
Trouble == Spend /\ faulty' = TRUE
Event(type, text) == [type |-> type, text |-> text]

NoPlace == [i \in Items |-> 0]

Init == /\ journal = <<>> /\ mail = <<>> /\ ask = 0 /\ questions = 0 /\ child = {}
        /\ forks = [i \in Items |-> {}] /\ exists = TRUE
        /\ stream = <<>>
        /\ calls = {EventsAfter(0)} /\ past = {Seen}
        /\ events = <<>> /\ cursor = 0 /\ eventsReady = FALSE /\ pending = <<>>
        /\ typing = FALSE /\ sseApprovals = {} /\ kidsShown = {}
        /\ resolvedLocal = {} /\ askQuestions = 0 /\ queued = <<>> /\ gone = FALSE
        /\ continueRequests = NoPlace /\ storedIds = NoPlace
        /\ mustShow = <<>> /\ withdrawn = {} /\ decided = {}
        /\ steps = 0 /\ faulty = FALSE

(***************************************************************************)
(* The journal poll.                                                       *)
(***************************************************************************)
\* The timer: a poll already on its way keeps its slot (pollBusy).
Poll == /\ ~gone /\ Polls(calls) = {}
        /\ Issue(EventsAfter(cursor))
        /\ UNCHANGED <<remoteVars, stream, pageVars, storedIds, past, history, quotas>>

\* A poll some handler asks for: nothing when one is on its way.
AlsoPoll(cs) == IF gone \/ Polls(cs) # {} THEN cs
                ELSE cs \union {EventsAfter(cursor)}

\* Mutant: every row with that text leaves.
MatchAll(rows, e) ==
    IF e.type \notin {"input", "answered"} THEN rows
    ELSE SelectSeq(rows, LAMBDA r : r.text /= e.text)

\* The first pending row with the text of a delivered message leaves.
Match(rows, e) ==
    LET hit == {i \in DOMAIN rows : rows[i].text = e.text}
    IN  IF e.type \notin {"input", "answered"} \/ hit = {} THEN rows
        ELSE RemoveAt(rows, CHOOSE i \in hit : \A j \in hit : i <= j)
LandEvents(c) ==
    /\ c.kind = "events" /\ c.st # "out"
    /\ calls' = calls \ {c}
    /\ IF c.st = "ok"
       THEN /\ pending' = FoldLeft(Match, pending, c.evs)
            /\ events' = events \o c.evs
            /\ cursor' = cursor + Len(c.evs)
            /\ eventsReady' = TRUE
            /\ typing' = (typing /\ \A i \in DOMAIN c.evs :
                                        c.evs[i].type # "assistant")
            /\ UNCHANGED gone
       ELSE /\ gone' = (gone \/ c.st = "gone")
            /\ UNCHANGED <<pending, events, cursor, eventsReady, typing>>
    /\ UNCHANGED <<remoteVars, stream, sseApprovals, kidsShown, resolvedLocal,
                   askQuestions, queued, continueRequests, storedIds, past, history,
                   quotas>>

(***************************************************************************)
(* The inspect pass: ps, inspect, then the queue, each awaited.            *)
(***************************************************************************)
Pass == UNCHANGED <<remoteVars, stream, calls, events, cursor, eventsReady,
                    pending, typing, sseApprovals, resolvedLocal,
                    continueRequests, storedIds, past, history>>

LandInspect(seen) ==
    /\ askQuestions' = seen.ask /\ kidsShown' = seen.kids
    /\ Pass /\ UNCHANGED <<queued, gone>>
\* Mutant: rows are applied once, and then kept.
LandQueueOnce(rows) ==
    /\ queued' = (IF queued = <<>> THEN rows ELSE queued)
    /\ Pass /\ UNCHANGED <<askQuestions, kidsShown, gone>>
LandQueue(rows) ==
    /\ queued' = rows
    /\ Pass /\ UNCHANGED <<askQuestions, kidsShown, gone>>

InspectPass == /\ ~gone /\ UNCHANGED quotas
               /\ \/ exists /\ LandInspect(Seen)
                  \/ /\ ~exists /\ gone' = TRUE
                     /\ Pass /\ UNCHANGED <<queued, askQuestions, kidsShown>>
QueuePass == ~gone /\ exists /\ LandQueue(Rows) /\ UNCHANGED quotas
LatePass == /\ Spend /\ UNCHANGED faulty
            /\ \E seen \in past : LandInspect(seen) \/ LandQueue(seen.rows)
\* A pass whose queue fails shows no rows (a failed inspect changes nothing).
QueueFails == ~gone /\ Trouble /\ LandQueue(<<>>)

(***************************************************************************)
(* Messages.                                                               *)
(***************************************************************************)
Drop(rows, id) ==
    FoldLeft(LAMBDA kept, r : IF r.id = id THEN kept ELSE Append(kept, r), <<>>, rows)
Owe(id, t) == [i \in DOMAIN mustShow \union {id} |-> IF i = id THEN t ELSE mustShow[i]]
Settle(id) == [i \in DOMAIN mustShow \ {id} |-> mustShow[i]]

\* Mutant: a row is numbered by its place.
NextPlace == Len(pending) + 1
NextId == steps + 1
Send(t, delivery) ==
    LET id == NextId IN
    /\ Spend /\ ~gone
    /\ pending' = Append(pending, [id |-> id, text |-> t])
    \* slot: whether the form of a question was up when the call was made
    /\ Issue(PageCall(delivery, IF askQuestions > 0 THEN 1 ELSE 0, id, t))
    /\ mustShow' = Owe(id, t)
    /\ UNCHANGED <<remoteVars, stream, events, cursor, eventsReady, typing,
                   sseApprovals, kidsShown, resolvedLocal, askQuestions, queued,
                   gone, continueRequests, storedIds, past, withdrawn, decided,
                   faulty>>

Sends == {"send", "steer", "queueSend"}
LandSend(c) ==
    /\ c.kind \in Sends /\ c.st # "out"
    /\ LET over == c.st # "ok" \/ c.slot = 1 \/ c.kind = "queueSend"
       IN  /\ pending' = (IF over THEN Drop(pending, c.arg) ELSE pending)
           /\ mustShow' = (IF over THEN Settle(c.arg) ELSE mustShow)
    \* the queue a queued message then fetches is one more QueuePass
    /\ calls' = calls \ {c}
    /\ UNCHANGED <<remoteVars, stream, events, cursor, eventsReady, typing,
                   sseApprovals, kidsShown, resolvedLocal, askQuestions, queued,
                   gone, continueRequests, storedIds, past, withdrawn, decided, quotas>>

(***************************************************************************)
(* One click, one call: the question, the queue, approvals, continue.      *)
(***************************************************************************)
Click(kind, arg, text) ==
    /\ Spend /\ ~gone
    /\ Issue(PageCall(kind, steps + 1, arg, text))
    /\ UNCHANGED <<remoteVars, stream, pageVars, storedIds, past, history, faulty>>
Answer(t) == askQuestions > 0 /\ Click("answer", askQuestions, t)
SkipAsk == askQuestions > 0 /\ Click("skip", askQuestions, "")
SteerQueued == \E i \in DOMAIN queued :
                  ~queued[i].revoked /\ Click("promote", queued[i].id, "")
WithdrawQueued == \E i \in DOMAIN queued :
                  ~queued[i].revoked /\ Click("unqueue", queued[i].id, "")

\* Asks of children: seen on the stream, or in the last inspect.
OpenApprovals == (sseApprovals \union kidsShown) \ resolvedLocal
DecideApproval(k) == k \in OpenApprovals /\ Click("approve", k, "")

\* Mutant: sessionStorage is written, and never read.
RequestIdUnread(i) == IF continueRequests[i] # 0 THEN continueRequests[i]
                      ELSE steps + 1
\* The request id of an item is made once, and survives a reload.
RequestId(i) == IF continueRequests[i] # 0 THEN continueRequests[i]
                ELSE IF storedIds[i] # 0 THEN storedIds[i] ELSE steps + 1
ContinueFromMessage(i) ==
    LET id == RequestId(i) IN
    /\ Spend /\ ~gone
    /\ continueRequests' = [continueRequests EXCEPT ![i] = id]
    /\ storedIds' = [storedIds EXCEPT ![i] = id]
    /\ Issue(PageCall("continue", steps + 1, id, i))
    /\ UNCHANGED <<remoteVars, stream, events, cursor, eventsReady, pending,
                   typing, sseApprovals, kidsShown, resolvedLocal, askQuestions,
                   queued, gone, past, history, faulty>>

\* A failed click is a toast and changes nothing.
LandClick(c) ==
    /\ c.kind \in {"answer", "skip", "promote", "unqueue", "approve", "continue"}
    /\ c.st # "out"
    /\ LET ok(kind) == c.st = "ok" /\ c.kind = kind
           rest == calls \ {c}
       IN  /\ calls' = (IF ok("answer") \/ ok("skip") \/ ok("promote")
                        THEN AlsoPoll(rest) ELSE rest)
           /\ askQuestions' = (IF ok("answer") \/ ok("skip") THEN 0
                               ELSE askQuestions)
           /\ queued' = (IF ok("unqueue")
                         THEN [i \in DOMAIN queued |->
                                 [queued[i] EXCEPT !.revoked =
                                    @ \/ queued[i].id = c.arg]]
                         ELSE queued)
           /\ withdrawn' = (IF ok("unqueue") THEN withdrawn \union {c.arg}
                            ELSE withdrawn)
           /\ resolvedLocal' = (IF ok("approve") THEN resolvedLocal \union {c.arg}
                                ELSE resolvedLocal)
           /\ decided' = (IF ok("approve") THEN decided \union {c.arg}
                          ELSE decided)
    /\ UNCHANGED <<remoteVars, stream, events, cursor, eventsReady, pending,
                   typing, sseApprovals, kidsShown, gone, continueRequests,
                   storedIds, past, mustShow, quotas>>

(***************************************************************************)
(* The stream.                                                             *)
(***************************************************************************)
\* A live event is a delta of text, a discard, or a child's approval.
Delta == 0
Discard == -1
StreamMessage ==
    /\ stream # <<>> /\ ~gone
    /\ stream' = Tail(stream)
    /\ LET e == Head(stream)
       IN  /\ typing' = ((e = Delta \/ typing) /\ e # Discard)
           /\ sseApprovals' = sseApprovals \union ({e} \intersect Kids)
    /\ UNCHANGED <<remoteVars, calls, events, cursor, eventsReady, pending,
                   kidsShown, resolvedLocal, askQuestions, queued, gone,
                   continueRequests, storedIds, past, history, quotas>>

(***************************************************************************)
(* The server, as the calls need it.                                       *)
(***************************************************************************)
\* A message answers the open question, or is accepted into the mailbox.
ServeSend(c) ==
    /\ c.st = "out" /\ c.kind \in Sends /\ exists
    /\ (IF ask > 0 /\ c.kind # "queueSend"
        THEN /\ journal' = Append(journal, Event("answered", c.text))
             /\ ask' = 0
             /\ calls' = Answered(c, "answered")
             /\ UNCHANGED mail
        ELSE /\ mail' = Append(mail, [id |-> c.arg, text |-> c.text,
                                      steer |-> c.kind = "steer",
                                      revoked |-> FALSE])
             /\ calls' = Answered(c, "ok")
             /\ UNCHANGED <<journal, ask>>)
    /\ UNCHANGED <<questions, child, forks, exists, stream, pageVars, storedIds, history,
                   quotas>>
    /\ Remember

ServeClick(c) ==
    /\ c.st = "out" /\ exists
    /\ \/ /\ c.kind \in {"answer", "skip"} /\ ask > 0
          /\ ask' = 0
          /\ journal' = (IF c.kind = "answer"
                         THEN Append(journal, Event("answered", c.text))
                         ELSE journal)
          /\ UNCHANGED <<mail, child, forks>>
       \/ /\ c.kind \in {"unqueue", "promote"}
          /\ mail' = [i \in DOMAIN mail |->
                        IF mail[i].id # c.arg THEN mail[i]
                        ELSE IF c.kind = "unqueue"
                             THEN [mail[i] EXCEPT !.revoked = TRUE]
                             ELSE [mail[i] EXCEPT !.steer = TRUE]]
          /\ UNCHANGED <<journal, ask, child, forks>>
       \/ /\ c.kind = "approve" /\ c.arg \in child
          /\ child' = child \ {c.arg}
          /\ UNCHANGED <<journal, mail, ask, forks>>
       \/ /\ c.kind = "continue"
          /\ forks' = [forks EXCEPT ![c.text] = @ \union {c.arg}]
          /\ UNCHANGED <<journal, mail, ask, child>>
    /\ calls' = Answered(c, "ok")
    /\ UNCHANGED <<questions, exists, stream, pageVars, storedIds, history, quotas>>
    /\ Remember

\* No such session; no such question or approval any more.
Refuse(c) ==
    /\ c.st = "out"
    /\ \/ ~exists
       \/ c.kind \in {"answer", "skip"} /\ ask = 0
       \/ c.kind = "approve" /\ c.arg \notin child
    /\ calls' = Answered(c, IF exists THEN "failed" ELSE "gone")
    /\ UNCHANGED <<remoteVars, stream, pageVars, storedIds, past, history, quotas>>

\* The network: the page sees an error, whether or not the server has acted.
Fault(c) ==
    /\ c.st \in {"out", "ok", "answered"} /\ Trouble
    /\ calls' = Answered(c, "failed")
    /\ UNCHANGED <<remoteVars, stream, pageVars, storedIds, past, history>>

\* The loop takes the next message: a steered one first.
Consume ==
    /\ mail # <<>> /\ exists
    /\ LET first == {i \in DOMAIN mail : mail[i].steer}
           i == IF first = {} THEN 1 ELSE CHOOSE j \in first : \A k \in first : j <= k
       IN  /\ mail' = RemoveAt(mail, i)
           /\ journal' = (IF mail[i].revoked THEN journal
                          ELSE Append(journal, Event("input", mail[i].text)))
    /\ UNCHANGED <<ask, questions, child, forks, exists, stream, calls, pageVars,
                   storedIds, history, quotas>>
    /\ Remember

Server ==
    /\ Spend /\ exists
    /\ \/ /\ ask = 0 /\ ask' = questions + 1 /\ questions' = questions + 1
          /\ UNCHANGED <<journal, child, exists, stream>>
       \/ \E e \in {Delta, Discard} :
          /\ stream' = Append(stream, e)
          /\ UNCHANGED <<journal, ask, questions, child, exists>>
       \/ /\ journal' = Append(journal, Event("assistant", ""))
          /\ UNCHANGED <<ask, questions, child, exists, stream>>
       \/ \E k \in Kids \ child :
          /\ child' = child \union {k} /\ stream' = Append(stream, k)
          /\ UNCHANGED <<journal, ask, questions, exists>>
       \/ \E k \in child :   \* answered elsewhere, or the child has ended
          /\ child' = child \ {k}
          /\ UNCHANGED <<journal, ask, questions, exists, stream>>
    /\ UNCHANGED <<mail, forks, calls, pageVars, storedIds, history, faulty>>
    /\ Remember

Vanish == /\ exists /\ Trouble
          /\ exists' = FALSE
          /\ UNCHANGED <<journal, mail, ask, questions, child, forks, stream, calls,
                         pageVars, storedIds, past, history>>

\* A reload: the page starts over, sessionStorage stays, calls are dropped.
Reload ==
    /\ Trouble
    /\ calls' = {EventsAfter(0)} /\ past' = {Seen} /\ stream' = <<>>
    /\ events' = <<>> /\ cursor' = 0 /\ eventsReady' = FALSE /\ pending' = <<>>
    /\ typing' = FALSE /\ sseApprovals' = {} /\ kidsShown' = {}
    /\ resolvedLocal' = {} /\ askQuestions' = 0 /\ queued' = <<>> /\ gone' = FALSE
    /\ continueRequests' = NoPlace
    /\ mustShow' = <<>> /\ withdrawn' = {} /\ decided' = {}
    /\ UNCHANGED <<remoteVars, storedIds>>

Land == \E c \in calls : LandSend(c) \/ LandClick(c)
Serve == \E c \in calls : ServeSend(c) \/ ServeClick(c) \/ Refuse(c)
User == \/ \E t \in Texts : Answer(t) \/ \E d \in Sends : Send(t, d)
        \/ SkipAsk \/ SteerQueued \/ WithdrawQueued
        \/ \E k \in Kids : DecideApproval(k)
        \/ \E i \in Items : ContinueFromMessage(i)

Next == \/ Poll \/ \E c \in calls : LandEvents(c)
        \/ InspectPass \/ QueuePass \/ LatePass \/ QueueFails
        \/ Land \/ Serve \/ StreamMessage \/ Consume
        \/ User \/ Server \/ Vanish \/ Reload \/ \E c \in calls : Fault(c)

\* The timers run, every call is answered (the server bounds each with a
\* timeout) and the answer is handled, the stream flows, the loop consumes.
Fairness ==
    /\ WF_vars(Poll) /\ WF_vars(\E c \in calls : LandEvents(c))
    /\ WF_vars(InspectPass) /\ WF_vars(QueuePass)
    /\ WF_vars(Serve) /\ WF_vars(Land)
    /\ WF_vars(StreamMessage) /\ WF_vars(Consume)
Spec == Init /\ [][Next]_vars /\ Fairness

(***************************************************************************)
(* Properties.                                                             *)
(***************************************************************************)
\* The types: rows are known by distinct ids, calls by kind and slot.
TypeOK ==
    /\ exists \in BOOLEAN /\ gone \in BOOLEAN /\ typing \in BOOLEAN
    /\ ask \in 0..questions /\ askQuestions \in 0..questions
    /\ child \subseteq Kids /\ sseApprovals \subseteq Kids
    /\ \A i, j \in DOMAIN pending : i # j => pending[i].id # pending[j].id
    /\ \A i \in DOMAIN pending : pending[i].text \in Texts
    /\ \A i, j \in DOMAIN mail : i # j => mail[i].id # mail[j].id
    /\ \A c \in calls : c.st \in {"out", "ok", "answered", "failed", "gone"}

\* The page's events are the journal from its start, each once and in order,
\* and the cursor stands after the last, whatever overlapped, failed or was
\* asked for twice (the poll callback: pollBusy, cursor).
EventsFollowJournal ==
    /\ IsPrefix(events, journal)
    /\ cursor = Len(events)

Count(rows, t) == Cardinality({i \in DOMAIN rows : rows[i].text = t})
\* A message that was sent and not refused stays on the page: for each text,
\* as many rows or journaled messages as there are sends the page must still
\* show (setPending in poll and send: rows leave by text there, by id here).
NothingSentVanishes ==
    \A t \in Texts :
        Cardinality({i \in DOMAIN mustShow : mustShow[i] = t}) <=
            Count(pending, t) + Count(events, t)

\* Nothing that happened or was sent is missing from the page.
NothingIsLost == EventsFollowJournal /\ NothingSentVanishes

\* Continuing from a message makes one fork however often it is clicked, fails
\* or is tried again after a reload (continuationRequestID); and an approval
\* the page saw decided is not asked again by a late inspect or stream event.
ClicksAreOnce ==
    /\ \A i \in Items : Cardinality(forks[i]) <= 1
    /\ decided \intersect OpenApprovals = {}

\* When the server is quiet the page agrees with it for good: no late answer
\* of an older pass, no optimistic edit and no failed call outlives the polls;
\* and no message is left pending, unless a call failed or a message was
\* withdrawn (rows leave by text: see the README).
PageCatchesUp ==
    <>[](\/ ~exists
         \/ /\ eventsReady /\ events = journal
            /\ askQuestions = ask /\ kidsShown = child /\ queued = Rows
            /\ faulty \/ withdrawn # {} \/ pending = <<>>)

\* What SessionFeature.tsx says of the approval stack: "Open approvals =
\* journal asks not yet resolved + SSE-only child asks", and its status line
\* that a live turn is one with "a pending approval": once nothing waits, the
\* page stops asking.
ApprovalsCatchUp == <>[](~exists \/ OpenApprovals \subseteq child)
=============================================================================
