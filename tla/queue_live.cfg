CONSTANTS
  heavy = heavy
  test = test
  expressBuild = expressBuild
  expressTest = expressTest
  NoOp = NoOp
  Ops = {heavy, test, expressBuild}
  Weight <- MCWeight
  Express <- MCExpress
  Parkable = {}
  Pressured = {}
  Crashable = {}
  Cancellable = {expressBuild}
  Priority = {}
  Unattended = {}
  Sequences = {}
  Capacity = 4
  Ceilings = {4}
  Overcommit = 1
  MaxBypasses = 1
  ScanLimit = 3
  Lookahead = {test, expressBuild}
SPECIFICATION FairSpec
PROPERTIES Served
