----------------------------- MODULE ControlAccess -----------------------------
(***************************************************************************)
(* What the coordinators promise to the other components: control slots are *)
(* handed out without a master, and a node that has used one waits out its  *)
(* holdoff time.  Two nodes that a third one could hear at once use the same *)
(* slot only if one of them took it misled: what it knew of the other came, *)
(* from neighbour to neighbour, out of a message that was dated late.       *)
(***************************************************************************)
EXTENDS Naturals

CONSTANTS Node,
          Meshes,        \* the neighbourhoods the mesh may have
          OneHop(_, _),  \* OneHop(mesh, n): the nodes that hear n
          Near(_, _),    \* Near(mesh, n): the nodes at most two hops from n
          Holdoff(_)     \* the least number of slots between two of a node

VARIABLES mesh,      \* the topology, which does not change
          wait,      \* wait[n]: slots from now to the next slot of n
          doubtful,  \* doubtful[n]: the nodes of which n has been told late
          misled     \* misled[n]: those among them when n took its slot

vars == <<mesh, wait, doubtful, misled>>

Init == /\ mesh \in Meshes
        /\ wait \in [Node -> Nat]
        /\ \A n \in Node : \A m \in Near(mesh, n) : wait[m] # wait[n]
        /\ doubtful = [n \in Node |-> {}]
        /\ misled = doubtful

\* n uses its slot and takes a later one, that nobody around it holds whom it
\* knows rightly and who knew n rightly.  Who hears it hears of n and of
\* neighbours of n: a message dated late casts doubt on all it tells, any
\* other one passes the doubts of n on.
Use(n) == /\ wait[n] = 0
          /\ wait' = [wait EXCEPT ![n] = wait'[n]]
          /\ wait'[n] \in Nat
          /\ wait'[n] >= Holdoff(n)
          /\ \A m \in Near(mesh, n) \ doubtful[n] : wait[m] = wait'[n] => n \in misled[m]
          /\ misled' = [misled EXCEPT ![n] = doubtful[n]]
          /\ \E told \in {doubtful[n], {n} \cup OneHop(mesh, n)} :
                \A m \in Node :
                   IF m \in OneHop(mesh, n) THEN doubtful'[m] \subseteq doubtful[m] \cup told
                                            ELSE doubtful'[m] = doubtful[m]
          /\ UNCHANGED mesh

\* A slot is over: with it, doubts may vanish.
Tick == /\ \A n \in Node : wait[n] > 0
        /\ wait' = [n \in Node |-> wait[n] - 1]
        /\ \A n \in Node : doubtful'[n] \subseteq doubtful[n]
        /\ UNCHANGED <<mesh, misled>>

Next == Tick \/ \E n \in Node : Use(n)

Spec == Init /\ [][Next]_vars
=============================================================================
