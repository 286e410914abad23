----------------------------- MODULE MCIndexDir -----------------------------
(***************************************************************************)
(* Instances of IndexDir: two processes, two providers with one session    *)
(* each and one message per session.                                       *)
(***************************************************************************)
EXTENDS IndexDir, TLC

CONSTANTS p1, p2, claude, codex, s1, s2, m1, m2

MCProviderOf == s1 :> claude @@ s2 :> codex
MCSessionOf == m1 :> s1 @@ m2 :> s2

MCCommands ==
  OtherCommands \cup
  {Command("index", Providers, FALSE, FALSE), Command("index", Providers, TRUE, FALSE),
   Command("index", Providers, FALSE, TRUE), Command("index", {claude}, FALSE, FALSE)}

Built == {"sentinel", "meta", "manifest"}
MCFirstDirs ==
  {{}, {"sentinel", "manifest"}, Built \cup {"leftover"}, Built \cup {"consent", "vectors"}}

MCSymmetry == Permutations({p1, p2})
=============================================================================
