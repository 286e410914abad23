CONSTANTS
  p1 = p1
  p2 = p2
  claude = claude
  codex = codex
  s1 = s1
  s2 = s2
  m1 = m1
  m2 = m2
  Procs = {p1, p2}
  Providers = {claude, codex}
  Sessions = {s1, s2}
  Messages = {m1, m2}
  ProviderOf <- MCProviderOf
  SessionOf <- MCSessionOf
  Commands <- MCCommands
  MaxText = 2
  MaxChanges = 1
  MaxRuns = 2
  FirstDirs <- MCFirstDirs
SPECIFICATION Spec
SYMMETRY MCSymmetry
INVARIANTS TypeOK ManifestHasDocs ModelNeedsConsent HintsWork
PROPERTIES UninstallCanResume StrangersSurvive LiveVectorsSurvive
CHECK_DEADLOCK FALSE
