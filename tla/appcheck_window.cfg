SPECIFICATION Spec
CONSTANTS
  Handlers = {h1, h2}
  Devices = {phone}
  phone = phone
  misspelt = misspelt
  Calls <- LoginCalls
  Settings = {misspelt, "enforce_auth"}
  Unset = Unset
  Fallback = "off"
  ModeTTL = 2
  FetchTimeout = 1
  NoLogin = NoLogin
  MaxTime = 3
SYMMETRY Interchangeable
INVARIANTS AppCheckInv ModeIsRecent GrpcSessionsAreAttested
PROPERTY LastGoodOrFallback
