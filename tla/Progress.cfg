\* Two users and chown, under the fairness of the handlers.
SPECIFICATION FairSpec
CONSTANTS
  ann = ann  bob = bob  cat = cat
  bike = bike  lamp = lamp  sofa = sofa  book = book
  Users = {ann, bob}
  Items = {bike, lamp}
  Deals = {d1, d2}
  Requests = {r1, r2}
  NoUser = NoUser  NoItem = NoItem  NoDeal = NoDeal  NoRequest = NoRequest
  BareLock = BareLock
  InitHolder <- PairHolder
  InitLock   <- PairLock
  InitWishes <- PairWishes
  Calls = {"chown", "approve", "withdraw", "time"}
  RootItems = {bike, lamp}
  MaxFaults = 0
  LatePatch = FALSE
CHECK_DEADLOCK FALSE
PROPERTY ConfirmedCompletes
PROPERTY CancelledReleases
PROPERTY JoinGetsLock
