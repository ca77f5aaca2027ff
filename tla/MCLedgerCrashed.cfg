SPECIFICATION Spec
CONSTANTS
  Plans = {p1}
  Actions = {a1, a2}
  Referenced = {a1}
  Batches <- MCBatches
  Results <- MCResults
  MaxLog = 4
  MaxFaults = 1
INVARIANT InterruptedPlanIsOffered
CHECK_DEADLOCK FALSE
