SPECIFICATION ServicesSpec
CONSTANTS
  Endpoints = {e1}
  Deliveries = {dl1}
  Workers = {wk1, wk2}
  MaxAttempts = 3
  JobRetries = 1
  MaxDeaths = 1
  Tabs = {"c1"}
  Peers = {"u2"}
  Conns = {k1, k2}
  StaleSweeps = 1
  MaxBreaks = 1
  Users = {u1, u2}
  Workspaces = {w1, w2}
  Requests = {q1, q2}
  OidcWorkspace = w1
  MaxOidcLogins = 1
  Founded = TRUE
  GivenRoles = {"org_admin", "viewer"}
  Projects = {p1}
  Diagrams = {d1}
  Calls = {c1, c2}
  AuthTabs = {t1, t2}
  MaxTokens = 3
  MaxEndings = 1
  Emails = {"lower"}
  Configs = {g1, g2}
  Scopes = {"global"}
  Writers = {x1, x2}
  Sections = {"overview", "flows"}
  Headed = {2}
  MaxVersions = 3
  Jobs = {j1, j2}
  MaxJobs = 2
  PageLimit = 1
CHECK_DEADLOCK FALSE
INVARIANTS
  HeldOrOrphaned
  SubscriptionsExact
  QuietUnlessConnected
  AdministratorsRemain
  ListsAgreeWithLookups
  FoundedOnce
  RefreshKeepsSession
  OneCurrentVersion
PROPERTIES
  DeliveriesSettle
  GhostsVanish
  WriteConverges
