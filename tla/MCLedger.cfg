SPECIFICATION Spec
CONSTANTS
  Plans = {p1, p2}
  Actions = {a1, a2}
  Referenced = {a1, a2}
  Batches <- MCBatches
  Results <- MCResults
  MaxLog = 5
  MaxFaults = 1
SYMMETRY Symmetry
INVARIANTS
  TypeOK
  LogExplainsTables
PROPERTIES
  TablesAheadOfLog
  FinishedPlansStayFinished
CHECK_DEADLOCK FALSE
