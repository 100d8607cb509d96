CONSTANTS
  Row = {1, 2, 3}
  MaxWrites = 2
  MaxTask = 2
  MaxHand = 2
  MaxPage = 2
  Id = {1, 2, 3, 4}
  MaxChanges = 2
  MaxFold = 1
  Slash = {"/plugins", "/p", "/shop", "/pub"}
  Seed <- MCSeed
  Path <- MCPath
  PluginsPath <- MCPluginsPath
  PublicPath <- MCPublicPath
  Address <- MCAddress
  Codes = {}
  Null = Null
  None = None
  Gone = Gone
SPECIFICATION MCSpec
CHECK_DEADLOCK FALSE
INVARIANTS
  OwnWriteListed
  SentForItsRow
  OpensAsListed
  CreatedOnce
  TypedIsKept
  ShowsItsRow
  PageOfTheList
  MenusAsGranted
  ToggledOffGone
  SearchesAgree
  NewGroupsOpen
