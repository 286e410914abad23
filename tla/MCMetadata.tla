----------------------------- MODULE MCMetadata -----------------------------
(***************************************************************************)
(* An instance of Metadata: a session, one of its turns and a remote       *)
(* namesake; the turn has a note.                                          *)
(***************************************************************************)
EXTENDS Metadata, TLC

CONSTANTS p1, p2, ui, here, laptop, s1, hit, miss, review

Ref(source, n) == [source |-> source, session |-> s1, turn |-> n]
MCRefs == {Ref(here, 0), Ref(here, 1), Ref(laptop, 0)}
MCAlike == {<<s1, s1>>}
MCFirstNotes == {[id |-> 1, ref |-> Ref(here, 1), body |-> hit]}
MCSymmetry == Permutations({p1, p2})
=============================================================================
