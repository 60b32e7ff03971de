\* The root is taken out of a closed chain: a rival over the same root cancels the deal
\* when it is about to be confirmed.
SPECIFICATION Spec
CONSTANTS
  ann = ann  bob = bob  cat = cat
  bike = bike  lamp = lamp  sofa = sofa  book = book
  Users = {ann, bob, cat}
  Items = {bike, lamp, sofa, book}
  Deals = {d1, d2}
  Requests = {r1, r2}
  NoUser = NoUser  NoItem = NoItem  NoDeal = NoDeal  NoRequest = NoRequest
  BareLock = BareLock
  InitHolder <- EditHolder
  InitLock   <- EditLock
  InitWishes <- EditWishes
  Calls = {"deal", "join", "approve", "patch"}
  RootItems = {bike}
  MaxFaults = 0
  LatePatch = TRUE
SYMMETRY DealSymmetry
CHECK_DEADLOCK FALSE
PROPERTY AgreedByAll
