SPECIFICATION Spec
CONSTANTS
  calm = calm
  bold = bold
  wild = wild
  Answers = {calm, bold, wild}
  Profiles = {desktop}
  DemoProfile = demoProfile
  Preset <- MCPreset
  Actions = {a1, a2}
  Rebooting = {bold, calm}
  Risky = {bold, wild}
  None = None
  MaxLaunches = 2
INVARIANTS TypeOK AppliedOnce RunsWhatWasReviewed ResultIsTrue
PROPERTIES ExecutionEnds
CHECK_DEADLOCK FALSE
