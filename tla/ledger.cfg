CONSTANTS
  heavy = heavy
  test = test
  expressBuild = expressBuild
  expressTest = expressTest
  NoOp = NoOp
  Ops = {heavy, expressBuild, expressTest}
  Weight <- MCWeight
  Express <- MCExpress
  Parkable = {heavy}
  Pressured = {expressBuild}
  Crashable = {expressBuild}
  Cancellable = {}
  Priority = {expressTest}
  Unattended = {heavy}
  Sequences <- MCSequences
  Capacity = 4
  Ceilings = {2, 4}
  Overcommit = 1
  MaxBypasses = 2
  ScanLimit = 3
  Lookahead = {expressBuild, expressTest}
SPECIFICATION Spec
INVARIANTS TypeOK LedgerValid CommandCovered CapacityCeiling DrainResidue
PROPERTIES PinOrderKept Implements
