\* Two deals that compete for items, their offers edited and one request cut off; the service against Barter.
SPECIFICATION Spec
CONSTANTS
  ann = ann  bob = bob  cat = cat
  bike = bike  lamp = lamp  sofa = sofa  book = book
  Users = {ann, bob, cat}
  Items = {bike, lamp, sofa, book}
  Deals = {d1, d2}
  Requests = {r1, r2}
  NoUser = NoUser  NoItem = NoItem  NoDeal = NoDeal  NoRequest = NoRequest
  BareLock = BareLock
  InitHolder <- EditHolder
  InitLock   <- EditLock
  InitWishes <- EditWishes
  Calls = {"deal", "join", "approve", "withdraw", "patch"}
  RootItems = {bike, lamp}
  MaxFaults = 1
  LatePatch = FALSE
SYMMETRY DealSymmetry
CHECK_DEADLOCK FALSE
INVARIANT ExclusiveClaim
INVARIANT AcceptedIsLocked
INVARIANT OffererHolds
INVARIANT OneClaimPerItem
INVARIANT ChainOrder
PROPERTY TransferOnlyAgreed
PROPERTY StatusLifecycle
INVARIANT TransfersPossible
PROPERTY KeepsBargains
