------------------------------ MODULE MCTuiApp -----------------------------
(***************************************************************************)
(* Small instance of TuiApp.  Of the query, one character finds sessions 3 *)
(* and 1 (session 1 with hybrid search) and two characters do not parse;   *)
(* session 2 has no tool calls, and session 3 cannot be loaded.            *)
(***************************************************************************)
EXTENDS TuiApp, TLC

SomeHits == [lexical |-> <<<<3, 1>>, Failed>>, hybrid |-> <<<<1>>, Failed>>]
SomeRows == <<"project", "starred", "tool">>
NothingHidden == [q \in {} |-> {}]
SomeProject == <<{2}>>
SomeHaving == [m \in {"none", "user", "assistant", "tool"} \X BOOLEAN |-> {1, 3}]
SomeReadable == {1, 2}
============================================================================
