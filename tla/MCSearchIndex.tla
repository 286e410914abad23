--------------------------- MODULE MCSearchIndex ---------------------------
(***************************************************************************)
(* Small instances of SearchIndex: two providers, of which MCP sees one;   *)
(* either two sessions in files of their own, or two sessions sharing one  *)
(* file (an SQLite-backed provider) and a third of the other provider.     *)
(***************************************************************************)
EXTENDS SearchIndex, TLC

CONSTANTS a, b, s1, s2, s3, f1, f2, n1

TwoProviders == {a, b}
OnlyA == {a}
TwoFiles == {f1, f2}

OwnFiles == (s1 :> f1) @@ (s2 :> f2)
OwnProviders == (s1 :> a) @@ (s2 :> b)

SharedFile == (s1 :> f1) @@ (s2 :> f1) @@ (s3 :> f2)
SharedProviders == (s1 :> a) @@ (s2 :> a) @@ (s3 :> b)

NoNotes == [n \in {} |-> s1]
NoteOnS1 == n1 :> s1

\* One command of every kind that contends for the index, over all providers,
\* and the provider-scoped ones for provider a.
SomeJobs ==
  {j \in AllJobs : j.scope = Enabled \/ j.kind = "reindex"
                     \/ (j.kind = "index" /\ j.first = "clear_providers" /\ j.scope = {a})}
============================================================================
