CONSTANTS
  p1 = p1
  p2 = p2
  laptop = laptop
  box = box
  hA = hA
  hB = hB
  f1 = f1
  f2 = f2
  f3 = f3
  claude = claude
  codex = codex
  ab = ab
  abc = abc
  NoHost = NoHost
  Procs = {p1, p2}
  Names = {laptop, box}
  Hosts = {hA, hB}
  Files = {f1, f2, f3}
  Providers = {claude, codex}
  Ids = {ab, abc}
  ProviderOf <- MCProviderOf
  IdOf <- MCIdOf
  Starts <- MCStarts
  Enabled = {claude, codex}
  Exposed = {claude}
  MaxSources = 1
  Commands <- MCCommands
  FirstConfigs <- MCFirstConfigs
  FirstCaches <- MCFirstCaches
  MaxChanges = 1
  MaxRuns = 3
SPECIFICATION Spec
SYMMETRY MCSymmetry
INVARIANTS TypeOK RegistryLoads HealthyCachesAreOwn NothingUnreported SelectorsAreUnambiguous
CHECK_DEADLOCK FALSE
