------------------------------- MODULE Threads ------------------------------
(***************************************************************************)
(* Threads of related work: the sessions of one project that follow each   *)
(* other without a long gap.  A session is a record of its project, its    *)
(* start and its end (its start when none is recorded); it is known by its *)
(* place in the discovery.  Providers, branches and summaries of a thread, *)
(* and the clustering by a language model, are left out.                   *)
(***************************************************************************)
EXTENDS Integers, SequencesExt, Subsequences

StartsEarlier(sessions) ==
    {p \in (DOMAIN sessions) \X (DOMAIN sessions) :
        \/ sessions[p[1]].start < sessions[p[2]].start
        \/ sessions[p[1]].start = sessions[p[2]].start /\ p[1] < p[2]}

\* The sessions of a project, oldest first, in discovery order where they tie.
Group(sessions, project) ==
    InOrder({i \in DOMAIN sessions : sessions[i].project = project}, StartsEarlier(sessions))

\* A thread is named for its project and its first session.
MakeThread(sessions, members) ==
    LET ends == {sessions[members[k]].end : k \in DOMAIN members}
    IN  [id |-> <<sessions[members[1]].project, members[1]>>,
         members |-> members,
         start |-> sessions[members[1]].start,
         end |-> CHOOSE e \in ends : \A f \in ends : f <= e]

\* For each session of a group, where its thread begins and how far it reaches by
\* then.  A session joins the thread when it starts within the gap of the latest
\* end so far, and opens the next one otherwise.
Walk(sessions, group, gap) ==
    LET walk[k \in DOMAIN group] ==
            LET s == sessions[group[k]]
                last == walk[k - 1]
            IN  IF k > 1 /\ s.start - last.end <= gap
                THEN [first |-> last.first, end |-> IF s.end > last.end THEN s.end ELSE last.end]
                ELSE [first |-> k, end |-> s.end]
    IN  walk

ThreadsOfGroup(sessions, group, gap) ==
    LET walk == Walk(sessions, group, gap)
    IN  {Picked(group, {k \in DOMAIN group : walk[k].first = walk[f].first}) : f \in DOMAIN group}

\* Newest first, by project where they tie, and in the order of the walk within one.
Newer(threads) ==
    {p \in threads \X threads :
        \/ p[1].start > p[2].start
        \/ /\ p[1].start = p[2].start
           /\ \/ p[1].id[1] < p[2].id[1]
              \/ p[1].id[1] = p[2].id[1] /\ p[1].id[2] < p[2].id[2]}

Cluster(sessions, gap, minSessions) ==
    LET of == UNION {ThreadsOfGroup(sessions, Group(sessions, sessions[i].project), gap) :
                        i \in DOMAIN sessions}
        large == {members \in of : Len(members) >= minSessions}
        threads == {MakeThread(sessions, members) : members \in large}
    IN  InOrder(threads, Newer(threads))

\* The command: a negative gap is refused, no thread is empty, 0 is no limit.
ThreadsCommand(sessions, gapHours, minSessions, limit) ==
    LET threads == Cluster(sessions, gapHours, IF minSessions = 0 THEN 1 ELSE minSessions)
    IN  IF gapHours < 0 THEN [ok |-> FALSE, threads |-> <<>>]
        ELSE [ok |-> TRUE,
              threads |-> IF limit > 0 /\ Len(threads) > limit
                          THEN SubSeq(threads, 1, limit) ELSE threads]

-----------------------------------------------------------------------------
(* What they promise.                                                      *)

\* Sessions are linked when the later starts within the gap of the earlier's end.
Linked(sessions, gap, i, j) ==
    /\ sessions[i].project = sessions[j].project
    /\ \E a, b \in {i, j} : /\ <<a, b>> \in StartsEarlier(sessions)
                            /\ sessions[b].start - sessions[a].end <= gap

\* Threads are the connected components of the links: no link leaves a thread,
\* and no thread falls into parts that nothing links.
ThreadsAreComponents(sessions, gap) ==
    LET threads == Cluster(sessions, gap, 1)
        Of(t) == Range(threads[t].members)
    IN  /\ UNION {Of(t) : t \in DOMAIN threads} = DOMAIN sessions
        /\ \A t, u \in DOMAIN threads : t # u =>
            \A i \in Of(t), j \in Of(u) : ~Linked(sessions, gap, i, j)
        /\ \A t \in DOMAIN threads : \A part \in (SUBSET Of(t)) \ {{}, Of(t)} :
            \E i \in part, j \in Of(t) \ part : Linked(sessions, gap, i, j)

\* A session that starts after all others leaves every thread its name.
ThreadIdsStay(sessions, gap, next) ==
    LET Ids(s) == {t.id : t \in Range(Cluster(s, gap, 1))}
    IN  (\A i \in DOMAIN sessions : sessions[i].start < next.start)
            => Ids(sessions) \subseteq Ids(Append(sessions, next))

\* The newest threads are shown, whatever the limit.
LimitKeepsTheNewest(sessions, gap, limit) ==
    LET all == ThreadsCommand(sessions, gap, 1, 0).threads
        some == ThreadsCommand(sessions, gap, 1, limit).threads
    IN  \A t \in Range(some), u \in Range(all) \ Range(some) : t.start >= u.start
=============================================================================
