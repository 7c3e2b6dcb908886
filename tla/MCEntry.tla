------------------------------ MODULE MCEntry ------------------------------
(* Four nodes: a triangle a, b, c and d next to c.  One node enters by each  *)
(* procedure, with and without losses, and two nodes enter at a time.        *)
EXTENDS Entry

MCNodes == {"a", "b", "c", "d"}
MCneighbors == [a |-> <<"b", "c">>, b |-> <<"a", "c">>, c |-> <<"a", "b", "d">>, d |-> <<"c">>]

Setup(enter, lossy) ==
    [procedure |-> [n \in MCNodes |-> IF n \in DOMAIN enter THEN enter[n] ELSE "none"],
     sponsor |-> "c", lossy |-> lossy]

MCSetups ==
    {Setup([a |-> p], l) : p \in {"scan", "sponsor", "link"}, l \in BOOLEAN}
    \cup {Setup([c |-> "link"], l) : l \in BOOLEAN}
    \cup {Setup([a |-> "sponsor", b |-> p], FALSE) : p \in {"sponsor", "link"}}
    \cup {Setup([a |-> "link", c |-> "link"], TRUE), Setup([a |-> "link", d |-> "link"], FALSE)}

=============================================================================
