\* An edit publishes the locks of page load.
SPECIFICATION Spec
CONSTANTS
  ann = ann  bob = bob  cat = cat
  bike = bike  lamp = lamp  sofa = sofa  book = book
  Users = {ann, bob}
  NoUser = NoUser  Gone = Gone  Live = Live
  DefaultUser = ann
  Base = {bike, lamp}
  Extra = {book}
  First = bike
  Author <- PairAuthor
  Place  <- PairPlace
  Ops = {"edit"}
  MaxSelect = 1  MaxDeals = 1  MaxLinks = 3  MaxPending = 2  MaxLate = 1
INVARIANT LocksFollowDeals
