SPECIFICATION FairSpec
CONSTANTS
  m1 = m1
  m2 = m2
  board = board
  Modules = {m1}
  Boards = {board}
  BoardOf <- OneBoard
  TurnMin = 1
  TurnMax = 2
  SustainFor = 2
  ReportEvery = 2
  ExpectedEvery = 2
  RemoveAfter = 8
  TickMax = 2
  MaxCrashes = 1
  MaxFails = 2
  Tolerated = 1
INVARIANTS UnitBusyJustified
PROPERTIES SwitchOnlyWhenHeld BusyBoardNoticed FreeUnitSettles
