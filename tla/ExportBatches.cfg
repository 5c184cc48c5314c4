\* Two requests at a time for the batches of one range, which may stop between their commits.
SPECIFICATION ExportSpec
CONSTANTS
  w1 = w1
  w2 = w2
  r1 = r1
  k1 = k1
  k2 = k2
  None = None
  Workers <- TwoWorkers
  Ranges <- OneRange
  BatchIds <- TwoBatches
  MaxPosted = 2
SYMMETRY Alike
INVARIANTS
  ExportTypeOK
  OneCurrent
  ReplacementsAgree
PROPERTIES
  PastIsKept
