CONSTANTS
  w1 = w1
  w2 = w2
  Wrappers = {w1, w2}
  BlockSamples = 2
  ReleaseSamples = 2
  Interval = 1
  StaleAfter = 1
  MaxLag = 1
  Failing <- MCSomeFail
  Views = {"red", "cool"}
SPECIFICATION Spec
INVARIANTS LatchCoherent DeferredVisible
