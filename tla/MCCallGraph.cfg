CONSTANTS
  f1 = f1
  f2 = f2
  Files = {f1, f2}
  MaxCalls = 3
  Items <- FourItems
  Includes <- OneHeader
  Programs <- SmallPrograms
SPECIFICATION FairSpec
INVARIANTS NodesBelongToRoot GraphIsNeighbourhood
PROPERTIES GraphOpens
CHECK_DEADLOCK FALSE
