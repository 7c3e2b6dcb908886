------------------------------- MODULE Topology -------------------------------
(***************************************************************************)
(* WimshTopologySimple: distances, neighbourhoods and next hops derived      *)
(* from the links that the scenario declares.  A topology is a set of        *)
(* ordered pairs; connect always adds a pair and its inverse.                *)
(***************************************************************************)
EXTENDS Naturals, FiniteSets

CONSTANTS N,          \* number of nodes, which are 0 .. N-1
          Infinity    \* the distance of nodes with no path (UINT_MAX/2)

ASSUME SizeAssumption == N \in Nat \ {0} /\ Infinity \in Nat /\ Infinity >= N

Id == 0 .. N - 1

\* connect(i, j): the links in both directions.
Connect(link, i, j) == link \cup {<<i, j>>, <<j, i>>}

\* bellmanFord: all-pairs shortest paths; relax[k] is what the loop has after
\* trying the intermediate nodes below k.  path[i, j] is the node before j on
\* the way from i.
bellmanFord(link) ==
    LET start == [i, j \in Id |-> IF <<i, j>> \in link THEN 1
                                  ELSE IF i = j THEN 0 ELSE Infinity]
        relax[k \in 0 .. N] ==
            IF k = 0
            THEN [dist |-> start, path |-> [i, j \in Id |-> IF start[i, j] > 0 THEN i ELSE 0]]
            ELSE LET w == relax[k - 1]
                     d == w.dist
                     shorter(i, j) == d[i, j] > d[i, k - 1] + d[k - 1, j]
                 IN [dist |-> [i, j \in Id |-> IF shorter(i, j) THEN d[i, k - 1] + d[k - 1, j] ELSE d[i, j]],
                     path |-> [i, j \in Id |-> IF shorter(i, j) THEN w.path[k - 1, j] ELSE w.path[i, j]]]
    IN relax[N]

\* neighbors(x, nhops): the nodes exactly nhops away (nHopsNeighbors_).
neighbors(dist, x, nhops) == {j \in Id : dist[x, j] = nhops}

\* getNextHop: back along the path until a node that i has a link to.
getNextHop(link, path) ==
    LET hop[i, j \in Id] == IF i # j /\ <<i, path[i, j]>> \notin link
                            THEN hop[i, path[i, j]] ELSE path[i, j]
    IN hop

\* getDestinationVect for a destination that is no neighbour: the neighbours
\* of src that reach dst with src disconnected, with their distances.
getDestinationVect(link, src, dst) ==
    LET rest  == {l \in link : src \notin {l[1], l[2]}}
        w     == bellmanFord(rest)
        along == getNextHop(link, w.path)
        hop(n) == IF <<n, dst>> \in rest THEN dst ELSE along[n, dst]
    IN {[hop |-> n, hops |-> w.dist[n, dst]] :
            n \in {m \in neighbors(bellmanFord(link).dist, src, 1) :
                     hop(m) # src /\ w.dist[m, dst] < Infinity}}

\* Mutant: any neighbour with a path is as good.
AnyNextHop(link, i, j) ==
    IF <<i, j>> \in link THEN {j} ELSE {e.hop : e \in getDestinationVect(link, i, j)}

\* The next hops from i to j among which recompute draws one.
nextHops(link, i, j) ==
    IF <<i, j>> \in link THEN {j}
    ELSE LET nhi == getDestinationVect(link, i, j)
         IN {e.hop : e \in {e \in nhi : \A f \in nhi : e.hops <= f.hops}}

\* Reference definition: the nodes that can be reached in at most d steps.
Ball(link, i) ==
    LET ball[d \in 0 .. N] == IF d = 0 THEN {i}
                              ELSE ball[d - 1] \cup {j \in Id : \E k \in ball[d - 1] : <<k, j>> \in link}
    IN ball
=============================================================================
