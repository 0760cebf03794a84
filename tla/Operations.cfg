SPECIFICATION FairSpec
CONSTANTS
  old = old
  new = new
  other = other
  more = more
  c1 = c1
  r1 = r1
  w1 = w1
  w2 = w2
  h1 = h1
  h2 = h2
  NoTask = NoTask
  NoRow = NoRow
  NoRoot = NoRoot
  Tasks = {old, new, other, more}
  Age <- MCAge
  Titles = {"named", "other", "more", "elsewhere", "nowhere"}
  Title <- MCTitle
  Roots = {r1}
  Consolidations = {c1}
  RootOf <- MCRootOf
  Outcomes <- MCOutcomes
  Workers = {w1, w2}
  Requests = {h1, h2}
  MaxAttempts = 2
  ClaimBound = 2
  Loads <- MCLoads
INVARIANTS
  TypeOK
  CompletedRunIsAnswered
  AnsweredIsOnBoard
  FallbackOncePerClaim
PROPERTIES
  DoneIsKept
  AnswerIsDelivered
CHECK_DEADLOCK FALSE
