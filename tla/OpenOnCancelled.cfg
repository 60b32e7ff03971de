\* A deal is cancelled between its creation and its first proposal.
SPECIFICATION Spec
CONSTANTS
  ann = ann  bob = bob  cat = cat
  bike = bike  lamp = lamp  sofa = sofa  book = book
  Users = {ann, bob, cat}
  Items = {bike, lamp, sofa}
  Deals = {d1, d2}
  Requests = {r1, r2}
  NoUser = NoUser  NoItem = NoItem  NoDeal = NoDeal  NoRequest = NoRequest
  BareLock = BareLock
  InitHolder <- RingHolder
  InitLock   <- RingLock
  InitWishes <- RingWishes
  Calls = {"deal", "join", "approve"}
  RootItems = {bike}
  MaxFaults = 0
  LatePatch = FALSE
SYMMETRY DealSymmetry
CHECK_DEADLOCK FALSE
INVARIANT NoOpenProposalOnCancelled
