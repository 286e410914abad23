---------------------------- MODULE MCAlgorithms ----------------------------
(* The pure algorithms over all small inputs, evaluated with every run whose *)
(* module extends this one.                                                  *)
EXTENDS Excerpts, Reports, HybridRanking

Upto(n, S) == UNION {[1 .. k -> S] : k \in 0 .. n}

\* Every turn, context and range around conversations of up to four turns.
ASSUME ExcerptsAreExact ==
    \A total \in 0 .. 4, a \in 0 .. 6, b \in 0 .. 6 :
        /\ WindowIsExact(a, b, total)
        /\ RangeIsExact([from |-> a - 1, to |-> b - 1], total)

\* All pairs of conversations of up to four turns of two kinds.
ASSUME DiffsAreMinimal ==
    \A left, right \in Upto(4, {"u", "a"}) :
        /\ DiffIsMinimal(left, right)
        /\ \A context \in 0 .. 2 : HunksAreExact(LcsDiff(left, right), context)
        /\ ExitIsRight(left, right, 1, 16)

\* All discoveries of up to three sessions of two projects; a session may end
\* before it starts, when its records are not in the order of their times.
SomeSessions ==
    {[project |-> p, start |-> s, end |-> s + d] : p \in 1 .. 2, s \in 2 .. 4, d \in {-1, 0, 2}}
ASSUME ThreadsAreRight ==
    \A sessions \in Upto(3, SomeSessions), gap \in 0 .. 1 :
        /\ ThreadsAreComponents(sessions, gap)
        /\ \A limit \in 1 .. 2 : LimitKeepsTheNewest(sessions, gap, limit)
        /\ Len(sessions) < 3 =>
            \A next \in SomeSessions : ThreadIdsStay(sessions, gap, next)

\* Two priced models, one the prefix of the other's name, and two without a price.
Prices == <<1>> :> 1 @@ <<1, 2>> :> 2
Counts(n) == [input |-> n, output |-> 1, cached |-> 0, none |-> FALSE]
Reported ==
    {[model |-> m, project |-> p, usage |-> u, listed |-> 2, loaded |-> l, start |-> 1, end |-> 1] :
        m \in {<<>>, <<1, 1>>, <<1, 2, 3>>}, p \in 1 .. 2,
        u \in {NoUsage, Counts(1), Counts(2)}, l \in {Unreadable, 1}}
\* Discoveries of two sessions of any kind and of three that load.
ASSUME ReportsAddUp ==
    \A sessions \in Upto(2, Reported) \cup [1 .. 3 -> {s \in Reported : s.loaded = 1 /\ s.usage # Counts(2)}] :
        /\ UsageAddsUp(sessions, "project", Prices, 99)
        /\ ReportAddsUp(sessions, 1, 1, Prices, 99)
        /\ UsageAndProjectAgree(sessions, 1, Prices, 99)
\* Counters of three values, so that two sessions fill them.
ASSUME SumsSaturate ==
    \A sessions \in Upto(3, {s \in Reported : s.loaded = 1 /\ s.model = <<>> /\ s.project = 1}) :
        \A S, T \in SUBSET DOMAIN sessions : WiderNeverShrinks(sessions, S, T, Prices, 3)

\* Three messages, one of them perhaps gone or filtered out; any subset of the
\* rest in the index's answer in any order, any vectors stored.
Orders(S) == {s \in [1 .. Cardinality(S) -> S] : IsInjective(s)}
ASSUME FusionIsSound ==
    \A passing \in {1 .. 3, {1, 3}}, pool \in 1 .. 3 :
        \A found, stored \in SUBSET (1 .. 3) : \A similar \in [stored -> 1 .. 3] :
            \A lexical \in Orders(found \cap passing) :
                /\ \A w \in 0 .. Weights :
                    /\ HitsPass(lexical, similar, passing, w, pool, 60, 65535)
                    /\ LargePoolMissesNothing(lexical, similar, passing, w, 60, 65535)
                    /\ w > 0 => AgreementDecides(lexical, similar, passing, w, pool, 60, 65535)
                /\ SemanticOnly(lexical, similar, passing, pool, 60, 65535)
=============================================================================
