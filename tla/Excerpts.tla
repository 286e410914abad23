------------------------------ MODULE Excerpts ------------------------------
(***************************************************************************)
(* What the commands that read one or two loaded conversations make of     *)
(* their turns: the window around a cited turn (show), the slice of an     *)
(* export, and the comparison of two sessions (diff).  A turn is given by  *)
(* the key that diff compares: its role and the beginning of its first     *)
(* text.  Turns are numbered from 1, as their users number them.           *)
(***************************************************************************)
EXTENDS Integers, Sequences, Subsequences

Error == [ok |-> FALSE]
Larger(a, b) == IF a >= b THEN a ELSE b
Smaller(a, b) == IF a <= b THEN a ELSE b

-----------------------------------------------------------------------------
(* One conversation of total turns.                                        *)

CitationWindow(turn, context, total) ==
    IF turn = 0 \/ turn > total THEN Error
    ELSE [ok |-> TRUE, from |-> Larger(1, turn - context), target |-> turn,
          to |-> Smaller(total, turn + context)]

\* "A:B", ":B", "A:" or "A"; a bound that is not given is -1.
TurnRange(spec, total) ==
    LET from == IF spec.from = -1 THEN 1 ELSE spec.from
        to == Smaller(total, IF spec.to = -1 THEN total ELSE spec.to)
    IN  IF total = 0 \/ spec.from = 0 \/ spec.to = 0 \/ from > total \/ to < from
        THEN Error
        ELSE [ok |-> TRUE, from |-> from, to |-> to]

-----------------------------------------------------------------------------
(* Two conversations.                                                      *)

\* A corner is a place in each of the two: what follows is still to be compared.
Corners(left, right) == (1 .. Len(left) + 1) \X (1 .. Len(right) + 1)

\* The length of a longest common subsequence of what follows a corner.
Common(left, right) ==
    LET common[p \in Corners(left, right)] ==
            IF p[1] > Len(left) \/ p[2] > Len(right) THEN 0
            ELSE IF left[p[1]] = right[p[2]] THEN 1 + common[<<p[1] + 1, p[2] + 1>>]
            ELSE Larger(common[<<p[1] + 1, p[2]>>], common[<<p[1], p[2] + 1>>])
    IN  common

Op(kind, left, right) == [kind |-> kind, left |-> left, right |-> right]

\* The walk along them from a corner: a deletion comes before the insertion that
\* replaces it.
Edits(left, right) ==
    LET common == Common(left, right)
        Deletes(p) ==
            /\ p[1] <= Len(left)
            /\ p[2] > Len(right) \/ common[<<p[1] + 1, p[2]>>] >= common[<<p[1], p[2] + 1>>]
        edits[p \in Corners(left, right)] ==
            IF p[1] > Len(left) /\ p[2] > Len(right) THEN <<>>
            ELSE IF p[1] <= Len(left) /\ p[2] <= Len(right) /\ left[p[1]] = right[p[2]]
            THEN <<Op("same", p[1], p[2])>> \o edits[<<p[1] + 1, p[2] + 1>>]
            ELSE IF Deletes(p)
            THEN <<Op("delete", p[1], 0)>> \o edits[<<p[1] + 1, p[2]>>]
            ELSE <<Op("insert", 0, p[2])>> \o edits[<<p[1], p[2] + 1>>]
    IN  edits
LcsDiff(left, right) == Edits(left, right)[<<1, 1>>]

\* Sessions whose table would be too large are not compared.
Diff(left, right, maxCells) ==
    IF (Len(left) + 1) * (Len(right) + 1) > maxCells THEN Error
    ELSE [ok |-> TRUE, ops |-> LcsDiff(left, right)]

\* The changes with their context; those whose contexts meet share a hunk.
WithHunk(hunks, from, to) ==
    IF hunks # <<>> /\ from <= hunks[Len(hunks)].to + 1
    THEN [hunks EXCEPT ![Len(hunks)].to = Larger(@, to)]
    ELSE Append(hunks, [from |-> from, to |-> to])
Hunks(ops, context) ==
    LET upto[k \in 0 .. Len(ops)] ==
            IF k = 0 THEN <<>>
            ELSE IF ops[k].kind = "same" THEN upto[k - 1]
            ELSE WithHunk(upto[k - 1], Larger(1, k - context), Smaller(Len(ops), k + context))
    IN  upto[Len(ops)]

\* The command; its exit code tells a difference from none.
DiffCommand(left, right, context, maxCells) ==
    LET diff == Diff(left, right, maxCells)
    IN  IF ~diff.ok THEN Error
        ELSE [ok |-> TRUE, hunks |-> Hunks(diff.ops, context),
              exit |-> IF \E k \in DOMAIN diff.ops : diff.ops[k].kind # "same"
                       THEN "OK" ELSE "EMPTY"]

-----------------------------------------------------------------------------
(* What they promise.                                                      *)

\* A window holds its turn, the turns within the context of it and no other.
WindowIsExact(turn, context, total) ==
    LET window == CitationWindow(turn, context, total)
    IN  /\ window.ok <=> turn \in 1 .. total
        /\ window.ok =>
            window.from .. window.to =
                {t \in 1 .. total : t - turn <= context /\ turn - t <= context}

\* A range that is accepted is not empty, lies in the conversation and leaves out
\* only what its bounds exclude; one that is refused selects nothing or names 0.
RangeIsExact(spec, total) ==
    LET range == TurnRange(spec, total)
        meant == {t \in 1 .. total : /\ spec.from = -1 \/ t >= spec.from
                                     /\ spec.to = -1 \/ t <= spec.to}
    IN  /\ range.ok => range.from .. range.to = meant
        /\ range.ok <=> meant # {} /\ spec.from # 0 /\ spec.to # 0

\* A comparison accounts for every turn of both sides in order, pairs only equal
\* ones, and pairs as many as can be paired in order.
OfKind(ops, kinds) == Picked(ops, {k \in DOMAIN ops : ops[k].kind \in kinds})
Subsequences(s) == {Picked(s, places) : places \in SUBSET DOMAIN s}
DiffIsMinimal(left, right) ==
    LET ops == LcsDiff(left, right)
        gone == OfKind(ops, {"same", "delete"})
        come == OfKind(ops, {"same", "insert"})
        same == OfKind(ops, {"same"})
    IN  /\ Len(gone) = Len(left) /\ \A k \in DOMAIN gone : gone[k].left = k
        /\ Len(come) = Len(right) /\ \A k \in DOMAIN come : come[k].right = k
        /\ \A k \in DOMAIN same : left[same[k].left] = right[same[k].right]
        /\ \A s \in Subsequences(left) \cap Subsequences(right) : Len(s) <= Len(same)

\* Hunks show every change with its context, nothing else, and nothing twice.
HunksAreExact(ops, context) ==
    LET hunks == Hunks(ops, context)
        near == {k \in DOMAIN ops : \E c \in DOMAIN ops :
                    ops[c].kind # "same" /\ c - k <= context /\ k - c <= context}
    IN  /\ UNION {hunks[h].from .. hunks[h].to : h \in DOMAIN hunks} = near
        /\ \A h \in 1 .. Len(hunks) - 1 : hunks[h].to + 1 < hunks[h + 1].from

\* The exit code says "nothing" exactly for equal conversations.
ExitIsRight(left, right, context, maxCells) ==
    LET diff == DiffCommand(left, right, context, maxCells)
    IN  diff.ok => ((diff.exit = "EMPTY") <=> left = right)
=============================================================================
