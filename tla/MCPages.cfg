SPECIFICATION PagesSpec
CHECK_DEADLOCK FALSE
SYMMETRY PagesSymmetry
CONSTANTS
  me = me
  member = member
  stranger = stranger
  o1 = o1
  p1 = p1
  p2 = p2
  q1 = q1
  q2 = q2
  i1 = i1
  j1 = j1
  j2 = j2
  c1 = c1
  c2 = c2
  Jobs = {j1, j2}
  Calls = {c1, c2}
  PageSize = 1
  NoJob = NoJob
  DefaultLimit = 2
  MaxLimit = 3
  MaxTotal = 7
  MaxMoves = 3
  People = {me, member, stranger}
  Orgs = {o1}
  Role <- Roles
  NoRole = NoRole
  ProjectIds = {p1, p2}
  QueueIds = {q1, q2}
  JobIds = {i1}
  None = None
  Me = me
  Fetches = {c1, c2}
  MaxClicks = 3
  MaxAttempt = 6
  PowerOfTwo <- Powers
  BaseDelays = {0, 1, 9, 10, 40}
  MaxDelays = {0, 5, 30, 300}
INVARIANTS
  PageTypeOK ShownIsCurrent   DrawerShowsItsJob
  EveryRowOnce
  ProjectsTypeOK QueuesPageTypeOK QueuesAreOfProject QueuesMadeByAdmins
PROPERTIES
   RetriesBackOff
