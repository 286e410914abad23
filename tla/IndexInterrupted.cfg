SPECIFICATION Spec
CONSTANTS
  a = a  b = b  s1 = s1  s2 = s2  s3 = s3  f1 = f1  f2 = f2  n1 = n1
  Procs = {p1}
  Providers <- TwoProviders
  Sessions = {s1, s2, s3}
  Files <- TwoFiles
  Notes = {}
  ProviderOf <- SharedProviders
  FileOf <- SharedFile
  NoteRef <- NoNotes
  Enabled <- TwoProviders
  Exposed <- OnlyA
  Jobs <- AllJobs
  NoSession = NoSession
  MaxClock = 3
  Interrupts = TRUE
INVARIANTS TypeOK NeverStaleUnnoticed
PROPERTIES ForcedRunRepairs
