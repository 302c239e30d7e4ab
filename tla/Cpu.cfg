SPECIFICATION Spec
CONSTANTS
  m1 = m1
  m2 = m2
  board = board
  Modules = {m1, m2}
  Boards = {board}
  BoardOf <- OneBoard
  TurnMin = 1
  TurnMax = 2
  SustainFor = 1
  ReportEvery = 2
  ExpectedEvery = 2
  RemoveAfter = 7
  TickMax = 1
  MaxCrashes = 0
  MaxFails = 0
  Tolerated = 1
SYMMETRY Symmetry
INVARIANTS LossesTolerated
