\* One confirmation accepts the part of others.
SPECIFICATION Spec
CONSTANTS
  ann = ann  bob = bob  cat = cat
  bike = bike  lamp = lamp  sofa = sofa  book = book
  Users = {ann, bob, cat}
  NoUser = NoUser  Gone = Gone  Live = Live
  DefaultUser = ann
  Base = {bike, lamp, sofa}
  Extra = {}
  First = bike
  Author <- RingAuthor
  Place  <- RingPlace
  Ops = {}
  MaxSelect = 1  MaxDeals = 2  MaxLinks = 3  MaxPending = 1  MaxLate = 1
PROPERTY EveryoneConfirmsOwnPart
