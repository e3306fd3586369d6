SPECIFICATION Spec
CONSTANTS
  Handlers = {h1, h2}
  Tokens = {t1, t2}
  NoToken = NoToken
  Principals = {alice, bob}
  Owner <- OwnTokens
  Expiry <- OneExpires
  NoExpiry = NoExpiry
  Headers <- MCHeaders
  ScopingHeaders = {currency}
  Values <- MCValues
  Clean <- MCClean
  Paths <- MCPaths
  Words <- MCWords
  Queries = {page}
  NoQuery = NoQuery
  SkippedPaths <- MCSkipped
  PublicPaths <- MCPublic
  Calls <- MixedCalls
  DefaultTTL = 2
  Deadline = 0
  RedisLag = 1
  RedisMayFail = TRUE
  Overlapping = TRUE
  NoBody = NoBody
  MaxTime = 3
  MaxVersion = 1
  t1 = t1
  t2 = t2
  alice = alice
  bob = bob
  currency = currency
  serviceName = serviceName
  absent = absent
  usd = usd
  euro = euro
  cards = cards
  all = all
  points = points
  page = page
SYMMETRY Interchangeable
INVARIANTS StalenessIsBounded HitWithinCredential CacheInv
PROPERTIES OnlyItsTokenInvalidates InvalidationReachesEveryScope
