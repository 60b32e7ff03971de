\* Everything the pages offer: deals, items created, edited, deleted, resets, reloads.
SPECIFICATION Spec
CONSTANTS
  ann = ann  bob = bob  cat = cat
  bike = bike  lamp = lamp  sofa = sofa  book = book
  Users = {ann, bob}
  NoUser = NoUser  Gone = Gone  Live = Live
  DefaultUser = ann
  Base = {bike, lamp}
  Extra = {book}
  First = bike
  Author <- PairAuthor
  Place  <- PairPlace
  Ops = {"create", "edit", "delete", "reset"}
  MaxSelect = 1  MaxDeals = 1  MaxLinks = 3  MaxPending = 2  MaxLate = 0
INVARIANT TypeOK
INVARIANT ReloadLosesNothing
PROPERTY LocksSetWithDeals
PROPERTY DealsMoveForward
