---------------------------- MODULE MCFederation ----------------------------
(***************************************************************************)
(* Instances of Federation: two processes, a registry with room for one    *)
(* source, and three files, two of which hold the same session.            *)
(***************************************************************************)
EXTENDS Federation, TLC

CONSTANTS p1, p2, laptop, box, hA, hB, f1, f2, f3, claude, codex, ab, abc

MCProviderOf == f1 :> claude @@ f2 :> claude @@ f3 :> codex
MCIdOf == f1 :> ab @@ f2 :> ab @@ f3 :> abc
MCStarts == {<<ab, ab>>, <<abc, abc>>, <<ab, abc>>}

On(n, h) == [name |-> n, host |-> h]
Prefix(source, id) ==
  [source |-> source, provider |-> Anywhere, id |-> id, exact |-> FALSE]

MCCommands ==
  {Command("add", {On(laptop, hB)}, {}), Command("add", {On(box, hB)}, {}),
   Command("remove", {On(laptop, hA)}, {}), Command("pull", Sources, {}),
   Command("try", {On(laptop, hA)}, {}), Command("mcp", {}, {}),
   Command("show", {}, {Reference([source |-> Local, file |-> f1])}),
   Command("show", {}, {Prefix(laptop, ab)})}

MCFirstConfigs == {{}, {On(laptop, hA)}}
MCFirstCaches ==
  {laptop :> NoHost @@ box :> NoHost, laptop :> hA @@ box :> NoHost, laptop :> hB @@ box :> NoHost}
MCSymmetry == Permutations({p1, p2})
=============================================================================
