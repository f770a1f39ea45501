\* One daemon serves the mailbox: it is killed between any two steps, inside a
\* write too, or its writes and fsyncs fail and it is killed inside a write or
\* power is lost.
CONSTANTS
  Proc = {"daemon"}
  Cmd = {"first", "second", "third", "control"}
  Input = {"first", "second", "third"}
  Body = {"x", "y"}
  Draft = {"draft"}
  DraftOf <- MCDraftOf
  Inherited = 1
  Plans = {{"kill"}, {"kill", "tear"}, {"tear", "write", "sync"}, {"write", "sync", "drop"}}
  MaxLines = 4
  MaxFaults = 2
SPECIFICATION Spec
INVARIANTS TypeOK KilledSwallowsNone SettledOnce
CHECK_DEADLOCK FALSE
