SPECIFICATION FairSpec
CONSTANTS
  Handlers = {h1, h2}
  Sessions = {s1}
  NoJti = NoJti
  Ordinary = Ordinary
  Calls <- HttpCalls
  RevokedTTL = 2
  FetchTimeout = 1
  CacheLife = 2
  NoEntry = NoEntry
  Nobody = Nobody
  MaxTime = 4
INVARIANTS WindowIsBounded RevocationInv
PROPERTIES NothingKnownIsForgotten KeepsThePromise EveryCallIsDecided
