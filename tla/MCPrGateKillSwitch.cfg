\* One event, PR_CI_MODE set to off while its request waits.
SPECIFICATION Spec
CONSTANTS
  p1 = p1  alice = alice  rtx = rtx  woa = woa  ann = ann  ben = ben
  PRs = {p1}
  Authors = {alice}
  AuthorOf <- OneAuthor
  Actions = {"synchronize"}
  Modes = {"off", "live"}
  Pipelines = {rtx}
  Reviewers = {ann}
  Unknown = Unknown
  None = None
  MaxHead = 1
  MaxRuns = 1
  MaxReruns = 0
PROPERTY KillSwitchStops
CHECK_DEADLOCK FALSE
