--------------------------- MODULE MCSearchPaging ---------------------------
(***************************************************************************)
(* A small instance of SearchPaging: a few hits in a fixed order among     *)
(* equals, the last of which may belong to a provider that is not read.    *)
(***************************************************************************)
EXTENDS SearchPaging, MCAlgorithms

CONSTANTS h1, h2, h3, h4

Three == {h1, h2, h3}
Four == {h1, h2, h3, h4}
RankThree == (h1 :> 1) @@ (h2 :> 2) @@ (h3 :> 3)
RankFour == RankThree @@ (h4 :> 4)
OneHidden == {h4}
NoneHidden == {}
=============================================================================
