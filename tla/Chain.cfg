CONSTANTS
  Step = {"feed", "new", "census", "gate"}
  Plan <- MCPlan
  PhaseOf <- MCPhaseOf
  Gate = "gate"
  Floored = {"feed"}
  TailRun = {"census"}
  Cached = {"feed"}
  EnrichOnly = {"feed"}
  Floor = 2
  Scopes = {"world"}
  Prints = {p1}
  MaxCount = 2
  MaxRuns = 3
  None = None
  Unparsable = Unparsable
SPECIFICATION ChainSpec
INVARIANTS GatePassesNoNewDamage
PROPERTIES SafeMeansWhole PassesInOrder
