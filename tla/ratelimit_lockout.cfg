SPECIFICATION FairSpec
CONSTANTS
  Handlers = {h1, h2}
  Users = {alice}
  NoUser = NoUser
  Addresses = {}
  NoAddress = NoAddress
  Anonymous = Anonymous
  alice = alice
  Calls <- OneUser
  Limit = 2
  Window = 2
  Lag = 1
PROPERTY EveryoneIsServedAgain
