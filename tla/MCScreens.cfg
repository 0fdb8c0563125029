SPECIFICATION ScreensSpec
CONSTANTS
  Kinds = {"workspaces", "projects", "diagrams", "members", "admins", "webhooks", "providers"}
  Rows = {r1, r2}
  Self = r1
  Flights = {s1, s2}
  MaxRequests = 2
  Named <- MCNamed
  MaxTurns = 2
  Documents <- MCDocuments
  HeaderLike = {"graph"}
  FrameIds = {"f1", "f2", "f3"}
  Links = {"l1"}
  Asks = {"a1"}
  MaxAsks = 3
  CommentIds = {"c1", "c2", "c3"}
  Staff = {"me", "other"}
  Posts = {m1, m2}
  MaxPosts = 3
  DockRuns = {1, 2}
  DockCalls = {k1, k2}
  HistoryCalls = {h1, h2}
  MaxSnapshots = 2
  MaxDialogs = 2
  Files = {"drawing", "flowchart"}
  Formats = {"excalidraw", "mermaid"}
  Valid <- MCValid
  TransferCalls = {k1, k2}
  MaxTransfers = 4
  AssetIds = {"a1", "a2"}
  Homes = {"h1", "h2"}
  Contents = {"photo", "raw"}
  Completions = {k1, k2}
  MaxUploads = 2
CHECK_DEADLOCK FALSE
INVARIANTS
  PageShowsServer
  RoundTrips
  EditorShowsServer
  NoCommentHidden
  UndoTargetsLastApplied
  RestoredOncePerDialog
  ImportsWhatWasShown
  AcknowledgedImagesExist
PROPERTIES
  NoNewDanglingReference
  AppliesThePreview
