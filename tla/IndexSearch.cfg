SPECIFICATION Spec
CONSTANTS
  a = a  b = b  s1 = s1  s2 = s2  s3 = s3  f1 = f1  f2 = f2  n1 = n1
  Procs = {p1}
  Providers <- TwoProviders
  Sessions = {s1, s2, s3}
  Files <- TwoFiles
  Notes = {n1}
  ProviderOf <- SharedProviders
  FileOf <- SharedFile
  NoteRef <- NoteOnS1
  Enabled <- TwoProviders
  Exposed <- OnlyA
  Jobs <- AllJobs
  NoSession = NoSession
  MaxClock = 3
  Interrupts = FALSE
INVARIANTS SearchIsFresh
PROPERTIES Converges
