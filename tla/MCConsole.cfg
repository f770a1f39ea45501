SPECIFICATION Spec
CONSTANTS
  Sessions = {s1, s2, s3}
  Nobody = Nobody
  FirstPage = 1
  OlderPage = 1
  Burst = 1
  OlderPagesFail = FALSE
  ListSteps = 4
  Projects = {p1, p2}
  OtherRenames = FALSE
  OptSteps = 4
  Chats = {"s1", "s2"}
  NavSteps = 4
  Series = {a, b}
  None = None
  SchedSteps = 5
  Repos = {r1, r2}
  Folders = {f1}
  Scratch = Scratch
  HomeSteps = 6
  DraftSteps = 9
  Together = 2
  PostureSteps = 4
  Newest = 3
  RailDirs = {f, g}
  NoDir = NoDir
  Cap = 1
  Legacy = FALSE
  RailSteps = 2
INVARIANTS TypeOK PageIsTrue RailIsTrue
PROPERTIES UserIsHeeded ConsoleCatchesUp
CHECK_DEADLOCK FALSE
