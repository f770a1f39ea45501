------------------------------ MODULE ForkDraft ------------------------------
(***************************************************************************)
(* The composer of a session that continues from a message: the draft the  *)
(* fork begins with, seeded into the input once, edited, and sent under a  *)
(* request id that outlives a retry and a reload                           *)
(* (src/webui/frontend/src/features/composer/ComposerController.tsx and    *)
(* features/session/SessionFeature.tsx), against the mailbox that accepts  *)
(* one send of a draft (module CommandLog, Append).                        *)
(*                                                                         *)
(* The user never empties the input; attachments are part of the text.  A  *)
(* call whose page is left lands before it is left, or not at all.         *)
(***************************************************************************)
EXTENDS Integers, FiniteSets

CONSTANT DraftSteps  \* clicks, edits, reloads, losses and releases
ASSUME DraftAssumption == DraftSteps \in Nat

VARIABLES
    text, forkSeeded, handledSeedRelease, requestId, nextId, sending,  \* the composer
    forkSeed, seedReleasedAt,                                       \* what the page has read
    receipts, claim, consumed, releases,                            \* the mailbox, the journal
    taken,   \* history: an answer has emptied what was seeded since the click
    dropped, \* history: the ids given up for the release of another send
    draftSteps
composerVars == <<text, forkSeeded, handledSeedRelease, requestId>>
serverVars == <<receipts, claim, consumed, releases>>
draftVars == <<composerVars, nextId, sending, forkSeed, seedReleasedAt, serverVars, taken, dropped,
               draftSteps>>

DraftSpend == draftSteps < DraftSteps /\ draftSteps' = draftSteps + 1
DraftFree == UNCHANGED draftSteps
NoCall == [at |-> "none", id |-> 0, text |-> "", typed |-> FALSE, seeded |-> FALSE]

(***************************************************************************)
(* The page.                                                               *)
(***************************************************************************)
\* The two effects of the seed the page now has.
SeedEffects ==
    LET released == forkSeed' /\ seedReleasedAt' # 0 /\ handledSeedRelease # seedReleasedAt'
        seeds == forkSeed' /\ (released \/ ~forkSeeded)
    IN /\ handledSeedRelease' = IF released THEN seedReleasedAt' ELSE handledSeedRelease
       /\ text' = IF seeds THEN "seed" ELSE text
       /\ forkSeeded' = forkSeed'
       /\ requestId' = IF released \/ (~forkSeed' /\ forkSeeded) THEN 0 ELSE requestId
       /\ sending' = [sending EXCEPT !.seeded = sending # NoCall /\ (@ \/ seeds)]
       /\ taken' = (taken /\ ~seeds)
       /\ dropped' = IF released /\ (claim = requestId \/ \A r \in receipts : r.id # requestId)
                     THEN dropped \union {requestId} ELSE dropped
\* Events come to the page.
PollDraft ==
    /\ <<forkSeed, seedReleasedAt>> # <<~consumed, releases>>
    /\ forkSeed' = ~consumed /\ seedReleasedAt' = releases
    /\ SeedEffects /\ DraftFree
    /\ UNCHANGED <<nextId, serverVars>>
\* The input and the request id are kept in the tab's storage.
ReloadDraft ==
    /\ DraftSpend
    /\ forkSeeded' = FALSE /\ handledSeedRelease' = 0 /\ sending' = NoCall
    /\ forkSeed' = FALSE /\ seedReleasedAt' = 0
    /\ UNCHANGED <<text, requestId, nextId, serverVars, taken, dropped>>
\* A send on its way does not lock the input.
Edit ==
    /\ DraftSpend /\ forkSeed /\ text' \in {"seed", "edit"}
    /\ sending' = [sending EXCEPT !.typed = sending # NoCall]
    /\ taken' = FALSE
    /\ UNCHANGED <<forkSeeded, handledSeedRelease, requestId, nextId, forkSeed,
                   seedReleasedAt, serverVars, dropped>>
forkSendRequestID == IF requestId # 0 THEN requestId ELSE nextId
\* doSubmit with a seed.
SendDraft ==
    /\ DraftSpend /\ forkSeed /\ text # "" /\ sending = NoCall
    /\ requestId' = forkSendRequestID
    /\ nextId' = IF requestId' = nextId THEN nextId + 1 ELSE nextId
    /\ sending' = [at |-> "out", id |-> requestId', text |-> text, typed |-> FALSE, seeded |-> FALSE]
    /\ UNCHANGED <<text, forkSeeded, handledSeedRelease, forkSeed, seedReleasedAt, serverVars,
                   taken, dropped>>
TextAfter == IF sending.at = "ok" THEN "" ELSE text
Answered ==
    /\ sending.at \in {"ok", "failed"}
    /\ sending' = NoCall /\ text' = TextAfter /\ DraftFree
    /\ taken' = (sending.at = "ok" /\ sending.seeded)
    /\ UNCHANGED <<forkSeeded, handledSeedRelease, requestId, nextId, forkSeed, seedReleasedAt,
                   serverVars, dropped>>

(***************************************************************************)
(* The server: Append of the mailbox, and the loop.                        *)
(***************************************************************************)
Known == \E r \in receipts : r.id = sending.id
Accepts == ~Known /\ claim = 0
Recognised == [id |-> sending.id, text |-> sending.text] \in receipts
\* An answer may be lost, and so may the call.
AppendSend(reaches, returns) ==
    /\ sending.at = "out"
    /\ IF reaches /\ returns THEN DraftFree ELSE DraftSpend
    /\ IF reaches /\ Accepts
       THEN /\ receipts' = receipts \union {[id |-> sending.id, text |-> sending.text]}
            /\ claim' = sending.id
       ELSE UNCHANGED <<receipts, claim>>
    /\ sending' = [sending EXCEPT !.at = IF reaches /\ returns /\ (Accepts \/ Recognised)
                                   THEN "ok" ELSE "failed"]
    /\ UNCHANGED <<composerVars, nextId, forkSeed, seedReleasedAt, consumed, releases, taken, dropped>>
\* The loop takes the claimed send, or a hook rejects it, or it is withdrawn.
Consume ==
    /\ claim # 0 /\ ~consumed /\ consumed' = TRUE /\ DraftFree
    /\ UNCHANGED <<composerVars, nextId, sending, forkSeed, seedReleasedAt, receipts, claim, releases,
                   taken, dropped>>
Release ==
    /\ claim # 0 /\ ~consumed /\ DraftSpend
    /\ claim' = 0 /\ releases' = releases + 1
    /\ UNCHANGED <<composerVars, nextId, sending, forkSeed, seedReleasedAt, receipts, consumed,
                   taken, dropped>>

DraftInit ==
    /\ text = "" /\ forkSeeded = FALSE /\ handledSeedRelease = 0 /\ requestId = 0
    /\ nextId = 1 /\ sending = NoCall /\ forkSeed = FALSE /\ seedReleasedAt = 0
    /\ receipts = {} /\ claim = 0 /\ consumed = FALSE /\ releases = 0
    /\ taken = FALSE /\ dropped = {} /\ draftSteps = 0
DraftServer == Consume \/ \E reaches, returns \in BOOLEAN : AppendSend(reaches, returns)
DraftNext ==
    \/ PollDraft \/ ReloadDraft \/ Edit \/ SendDraft \/ Answered \/ DraftServer \/ Release

(***************************************************************************)
(* Properties.                                                             *)
(***************************************************************************)
DraftTypeOK ==
    /\ text \in {"", "seed", "edit"} /\ requestId \in 0..nextId
    /\ forkSeed => forkSeeded
    /\ claim # 0 => \E r \in receipts : r.id = claim

\* ComposerController.tsx: however often it is sent, lost, rejected, withdrawn
\* and read again after a reload, in the end the draft is in the conversation or
\* in the input, unless an answer came after its send's release was read: it
\* empties the input that was seeded again, until somebody types.
DraftStays == consumed \/ text # "" \/ taken

\* ComposerController.tsx: a send that was accepted and is sent again unchanged
\* is recognised, and never refused as another send of the draft, unless its id
\* was dropped for the release of another send, which a page that was reloaded
\* takes for a new one.
RetryIsRecognised ==
    sending.at = "out" /\ claim # 0 /\ ~consumed
        => \/ Recognised \/ claim \in dropped
           \/ \E r \in receipts : r.id = claim /\ r.text # sending.text

\* ComposerController.tsx, doSubmit: the input is emptied only when the mailbox
\* has what was sent, however its calls end; what was typed or seeded since the
\* click goes with it.
DraftErasesSent ==
    text # "" /\ text' = ""
        => /\ sending.at = "ok" /\ Recognised
           /\ text = sending.text \/ sending.typed \/ sending.seeded

\* Without the exceptions: late answers, reloads and typing break them.
DraftStaysAlways == <>[](consumed \/ text # "")
RetryHasItsId == [](sending.at = "out" /\ claim # 0 /\ ~consumed => sending.id = claim)
DraftKeepsTyped == [][text # "" /\ text' = "" => text = sending.text]_draftVars
\* sessionSpecs.ts: "switching sessions and reloading this tab keeps what you
\* were typing": an edit leaves when it is sent, replaced by the user, or when
\* its send was released.
EditsSurvive ==
    [][text = "edit" /\ text' # "edit" /\ draftSteps' = draftSteps
        => sending.at = "ok" \/ (seedReleasedAt' > seedReleasedAt /\ forkSeed)]_draftVars
=============================================================================
