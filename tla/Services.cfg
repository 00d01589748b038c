SPECIFICATION Spec
CONSTANTS
  editor = editor
  viewer = viewer
  pj = pj
  none = none
  Users = {editor, viewer}
  Projects = {pj}
  NoProject = none
  Statuses = {"todo", "done"}
  Rights <- Grants
  Members <- BothIn
  Seeds <- OneSeed
  Threads = {h1, h2}
  FieldSets <- Payloads
  MaxRequests = 2
  Reader = viewer
  PageSize = 1
  MaxTasks = 2
  MaxTime = 1
  ann = ann
  an = an
  Names = {ann, an}
  Slug <- OneSlug
  BoardThreads = {t1, t2}
  MaxBoardTasks = 1
  Runs = {r1}
  Executions = {e1, e2}
  Providers = {qwen, openai, other}
  Unnamed = unnamed
  Adapters = {qwen, openai}
  Primary = qwen
  FallbackModel = openai
  EnableFallback = TRUE
  MaxRetries = 2
  People = {a, b}
  Founder = a
  Viewers = {b}
  Moderators = {b}
  Grantees = {}
  Desks = {d1, d2}
  Askers = {x, y}
  Company = company
  Insiders = {x}
  Lines = {l1, l2}
  UserLimit = 1
  CompanyLimit = 1
  MaxPosts = 3
  Stores = {1, 2}
  Local = media
  Documents = {f1, f2}
  Kinds = {"project", "department", "chat"}
  QuotaScopes = {"organization"}
  Sizes = {1}
  Limits = {1}
  NoLimit = unlimited
  Hands = {s1, s2}
  MaxRequestsOn = 3
  Persons = {root, adam}
  Roots = {root}
  Firms = {1}
  Everywhere = everywhere
  RoleSets <- OneRole
  Clerks = {k1, k2}
  MaxChanges = 4
  ProjectIds = {pr}
  Wishes = {wh}
  Visibilities = {unset, shown}
  Unset = unset
  Helms = {m1, m2}
  MaxRounds = 3
  EventKinds = {wanted, unwanted}
  Wanted = {wanted}
  Pens = {pen1, pen2}
  FeedPage = 1
  MaxEvents = 3
  MaxTick = 1
INVARIANTS AllTyped   BoardsInOrder RunTold OwnerRemains  AnswersStand DefaultSettles RowHasObject RootsStay  
PROPERTIES RunSettles QuotaKept PromotedStay
CHECK_DEADLOCK FALSE
