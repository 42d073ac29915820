SPECIFICATION FairSpec
CONSTANTS
  Main = main
  NULL = NULL
  Workers = {w1, w2}
  Keys = {1, 2}
  Encodable = {1, 2}
  Decodable = {1}
  Meddling = {"clear", "close"}
  Passes = 3
INVARIANTS
  IInv
  OnlySuccesses
  RecordedAtReturn
  AtLeastOnce
PROPERTIES
  PassEnds
CHECK_DEADLOCK FALSE
