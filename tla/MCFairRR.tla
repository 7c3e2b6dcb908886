------------------------------- MODULE MCFairRR -------------------------------
(* Small meshes for FairRR: topologies, and the traffic their nodes estimate. *)
EXTENDS FairRR

CONSTANTS n1, n2, n3, n4

Nodes == {n1, n2, n3, n4}
Chain == [n \in Nodes |-> CASE n = n1 -> {n2} [] n = n2 -> {n1, n3}
                            [] n = n3 -> {n2, n4} [] n = n4 -> {n3}]

\* flows: a set of <<source, destination, service, bytes per frame>>.
Traffic(nbr, flows) ==
    [x \in DOMAIN nbr |-> [y \in nbr[x] |-> [s \in Service |->
        LET f == {t \in flows : t[1] = x /\ t[2] = y /\ t[3] = s}
        IN IF f = {} THEN 0 ELSE (CHOOSE t \in f : TRUE)[4]]]]

\* One flow away from n3 and two into n2 from both sides.
BestEffort == Traffic(Chain, {<<n1, n2, "BE", 1>>, <<n3, n4, "BE", 3>>, <<n3, n2, "BE", 1>>})

\* UGS on the same links, and nrtPS and best effort beside it.
Mixed == Traffic(Chain, {<<n1, n2, "UGS", 1>>, <<n3, n2, "UGS", 1>>, <<n3, n4, "UGS", 3>>,
                         <<n1, n2, "NRTPS", 3>>, <<n3, n4, "NRTPS", 3>>, <<n3, n2, "BE", 3>>})

\* A flow of best effort and one of UGS, opposite ways on a link.
BothWays == Traffic(Chain, {<<n1, n2, "BE", 1>>, <<n2, n1, "UGS", 1>>})
=============================================================================
