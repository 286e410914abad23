---------------------------- MODULE IndexCache -----------------------------
(***************************************************************************)
(* What the search index promises: a cache of the session sources and      *)
(* notes.  Each entry pairs the version of its documents with the version  *)
(* that vouches for them, and a transaction replaces any number of entries *)
(* at once.  Documents and manifest are one atomic value here; the program *)
(* keeps them in two stores that it writes one after the other.            *)
(***************************************************************************)
EXTENDS Naturals

CONSTANTS Items, MaxClock

VARIABLES
  now,     \* logical time of the last change outside the index
  entry    \* [docs, fp] per item, both 0 for an item that is not indexed

Absent == [docs |-> 0, fp |-> 0]
Indexed(t) == {e \in [docs : 1 .. t, fp : 1 .. t] : e.fp <= e.docs}
Entries(t) == {Absent} \cup Indexed(t)

Init == now = 1 /\ entry = [i \in Items |-> Absent]

\* A source or a note changes.
Change == now < MaxClock /\ now' = now + 1 /\ UNCHANGED entry

\* A transaction evicts entries and indexes others at versions seen by now.
Transaction ==
  /\ entry' \in [Items -> Entries(now)]
  /\ UNCHANGED now

Next == Change \/ Transaction
Spec == Init /\ [][Next]_<<now, entry>>
============================================================================
