SPECIFICATION Spec
CONSTANTS
  a = a  b = b  s1 = s1  s2 = s2  s3 = s3  f1 = f1  f2 = f2  n1 = n1
  Procs = {p1, p2}
  Providers <- TwoProviders
  Sessions = {s1, s2}
  Files <- TwoFiles
  Notes = {n1}
  ProviderOf <- OwnProviders
  FileOf <- OwnFiles
  NoteRef <- NoteOnS1
  Enabled <- TwoProviders
  Exposed <- OnlyA
  Jobs <- SomeJobs
  NoSession = NoSession
  MaxClock = 2
  Interrupts = FALSE
INVARIANT ManifestMatchesDocs
PROPERTIES ImplementsIndexCache CommitsStayInScope NotesConverge
