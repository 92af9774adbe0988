CONSTANTS
  Events = {1, 2, 3, 4}
  Times = {1, 2}
  GroupOf <- MCGroupOf
  WithoutUnit <- MCWithoutUnit
  Limit = 1
  StoreLimit = 2
  MaxChanges = 2
  MaxWalks = 1
  AnyStatus = AnyStatus
  NoCursor = NoCursor
  Rows = {1, 2, 3}
  Overlap = 1
  Window = 2
  PageSize = 1
  MaxPages = 2
  MaxRows = 2
  SeenLimit = 2
  LiveBounds <- MCLiveBounds
  ann = ann
  bob = bob
  Organizations = {ann, bob}
  InitialMine <- MCMine
  InitialMember <- MCMember
  NotMember = NotMember
  Nothing = Nothing
  SettingsBounds <- MCSettingsBounds
  Given = {1, 2}
  Fresh = {3, 4}
  HomeOf <- MCHomeOf
  Environments = {1, 2}
  EnvironmentsOf <- MCEnvironmentsOf
  Demo = Demo
  Nil = Nil
  GateBounds <- MCGateBounds
SPECIFICATION Spec
INVARIANTS ListedOnce SettledIsListed MissedIsReported ShownOnce LinkIsOfOrganization RouteIsOfProject SetupReusesOrganization
CHECK_DEADLOCK FALSE
