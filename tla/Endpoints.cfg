CONSTANTS
  Apps = {"a", "b"}
  Apis = {"p"}
  Scopes = {"openid", "s"}
  Bundles = {"admins", "g"}
  Priorities = {0, 1}
  Conditions <- MCConditions
  Submissions <- MCSubmissions
  Tokens <- MCTokens
  Calls = {r1, r2}
  MaxEdits = 2
  MaxDepth = 2
  MaxNodes = 4
  Documents = {"d1", "d2"}
  Wishes = {{"s"}, {"t"}}
  AdmissionPolicies = {"consent_required", "admin_approved"}
  Visits = {r1, r2}
  DocumentTtls = {0, 1}
  MetadataRetention = 0
  MaxVisits = 5
  MaxDays = 1
  Sites = {"home", "mirror", "loop"}
  PublicSites = {"home", "mirror"}
  JwksUri = "home"
  Assertions <- MCAssertions
  Logins = {r1, r2}
  MaxRedirects = 1
  MaxLifetime = 2
  ClockTolerance = 2
  MaxLogins = 4
  MaxSeconds = 3
  MaxSecrets = 2
  People = {"u1", "u2"}
  Keys = {"k1"}
  Ceremonies = {c1, c2}
  Responses = {r1, r2}
  CeremonyTtl = 0
  RecentAuth = 0
  MaxCount = 2
  MaxInstant = 1
  MaxArrivals = 5
  Visitors = {"u1"}
  Browsing = {s0, s1, s2}
  Queries = {"q1", "q2"}
  Tabs = {r1, r2}
  ProofTtl = 1
  MaxMoment = 1
  MaxTabs = 3
  MaxMishaps = 2
SPECIFICATION Spec
CONSTRAINT LaterInTurn
SYMMETRY Interchangeable
INVARIANTS EndpointsTypeOK ResolutionAgrees RestsOnCurrent AgreedToDocument BlockStands AuthenticationHolds CeremoniesHold ReauthenticationHolds
PROPERTIES OnlyDenialsWiden
CHECK_DEADLOCK FALSE
