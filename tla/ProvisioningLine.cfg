SPECIFICATION FairSpec
CONSTANTS
  n1 = n1
  n2 = n2
  w1 = w1
  w2 = w2
  Nodes = {n1, n2}
  Workers = {w1, w2}
  NoNode = NoNode
  On <- TwoWorkers
  Rank <- InOrder
  Limit = 1
  FDB = {}
  Late = {}
  AddsFail = FALSE
  NodePrompt = TRUE
  MaxAdds = 1
  MaxLag = 1
  MaxFaults = 1
  Env = {"delete", "leave"}
INVARIANTS CapHolds
PROPERTIES LineMoves
CHECK_DEADLOCK FALSE
