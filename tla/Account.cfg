\* Logins, registrations, settings and wishes, with calls in flight.
SPECIFICATION Spec
CONSTANTS
  ann = ann  annsName = annsName  skis = skis
  Accounts = {ann, newcomer}
  BuiltIn = {ann}
  Names = {annsName, newName}
  BuiltInName <- KnownNames
  Wishes = {skis}
  BuiltInWishes <- KnownWishes
  NoUser = NoUser  NoToken = NoToken  NoRecord = NoRecord  NoWish = NoWish
  NoList = NoList  NoForm = NoForm  Blank = Blank  NullText = NullText
  MaxErrands = 2
  QuickReturn = FALSE
INVARIANT TypeOK
INVARIANT TokenIsUsers
INVARIANT SessionStored
INVARIANT AccountsKept
INVARIANT WishesShown
PROPERTY ButtonsComeBack
