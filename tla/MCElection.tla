------------------------------ MODULE MCElection ------------------------------
(* Small meshes of coordinators, with the topology, neighbourhoods and        *)
(* pseudo-random order of the code.                                           *)
EXTENDS Election, Topology, Smear

\* Four nodes: hidden terminals up to three hops apart, and a triangle.
Edges(pairs) == UNION {Connect({}, p[1], p[2]) : p \in pairs}
Chain  == Edges({<<0, 3>>, <<3, 1>>, <<1, 2>>})
Paw    == Edges({<<0, 1>>, <<1, 2>>, <<0, 2>>, <<2, 3>>})
Graphs == {Chain, Paw}

BothTypes == {"XMTAWARE", "XMTUNAWARE"}

\* What recompute derives from each topology, once.
Routing == [link \in Meshes |->
               LET dist == bellmanFord(link).dist
               IN [one |-> [i \in Id |-> neighbors(dist, i, 1)],
                   two |-> [i \in Id |-> neighbors(dist, i, 2)]]]

MCOneHop(link, i) == Routing[link].one[i]
MCTwoHop(link, i) == Routing[link].two[i]

\* The order of the slots, tabulated.
Order == [n \in Id, x \in 0 .. Period - 1 |-> <<smear_val1(n, x), smear_val2(n, x)>>]
MCSmear1(n, x) == Order[n, x][1]
MCSmear2(n, x) == Order[n, x][2]

FirstById == [n \in Id |-> n]
AllZero   == [n \in Id |-> 0]
ZeroOne   == [n \in Id |-> n % 2]

\* Node 1 has long messages to send, and relays what it hears of others.
LongMessages == [n \in Id |-> IF n = 1 THEN {0, 1} ELSE {0}]

-----------------------------------------------------------------------------
\* Every way to connect the nodes; recompute gives up (abort) on the others.
Connected ==
    {link \in {Edges(pairs) : pairs \in SUBSET {p \in Id \X Id : p[1] < p[2]}} :
        \A i \in Id : Ball(link, i)[N] = Id}

\* bellmanFord returns the number of hops, for every pair of nodes.
Measured ==
    {link \in Connected :
        LET dist == bellmanFord(link).dist
        IN \A i, j, d \in Id : j \in Ball(link, i)[d] <=> dist[i, j] <= d}

\* Whichever of the shortest ways recompute draws, at each node, an SDU comes
\* nearer to its destination with every hop: nextHop_ has no loops.
Routed ==
    {link \in Connected :
        LET dist == bellmanFord(link).dist
        IN \A i, j \in Id : i # j =>
              LET hops == nextHops(link, i, j)
              IN /\ hops # {}
                 /\ \A h \in hops : h \in neighbors(dist, i, 1) /\ dist[h, j] = dist[i, j] - 1}

RoutesLead == Connected \cup {mesh} \subseteq Measured \cap Routed
=============================================================================
