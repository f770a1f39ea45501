CONSTANTS
    Acts <- MCActs
    Category <- MCCategory
    Replayable <- MCReplayable
    Journaled <- MCJournaled
    Journals <- MCJournals
SPECIFICATION Spec
INVARIANTS
    TypeOK
    ThreadIsJournal
    FoldsAreTurns
    ThreadIsTruthful
CHECK_DEADLOCK FALSE
