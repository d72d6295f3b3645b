CONSTANTS
  w1 = w1
  w2 = w2
  Wrappers = {w1, w2}
  BlockSamples = 2
  ReleaseSamples = 2
  Interval = 2
  StaleAfter = 2
  MaxLag = 1
  Failing <- MCNoneFail
  Views = {"red", "warm", "cool", "memory"}
SPECIFICATION FairSpec
INVARIANTS SustainedEvidence DecisionsSound
PROPERTIES LatchReleases
