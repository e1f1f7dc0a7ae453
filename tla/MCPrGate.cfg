\* One PR, two reviewers, two events (some about labels), one re-run.
SPECIFICATION Spec
CONSTANTS
  p1 = p1  alice = alice  rtx = rtx  woa = woa  ann = ann  ben = ben
  PRs = {p1}
  Authors = {alice}
  AuthorOf <- OneAuthor
  Actions = {"synchronize", "labeled"}
  Modes = {"off", "live"}
  Pipelines = {rtx, woa}
  Reviewers = {ann, ben}
  Unknown = Unknown
  None = None
  MaxHead = 2
  MaxRuns = 2
  MaxReruns = 1
SYMMETRY Symmetries
INVARIANTS TypeOK BuildsWhatWasApproved BuildsAreAudited NeverGoesBack
CHECK_DEADLOCK FALSE
