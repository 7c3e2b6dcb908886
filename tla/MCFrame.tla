------------------------------ MODULE MCFrame ------------------------------
(* One node whose minislots are marked for sending to a or b, for receiving    *)
(* on another channel, for UGS of another node, and for an uncoordinated       *)
(* MSH-DSCH.                                                                   *)
EXTENDS Frame

Confirm(dst, channel, service) ==
    [kind |-> "confirm", dst |-> dst, channel |-> channel, service |-> service]

SomeGrants == {Confirm("a", 0, "BE"), Confirm("a", 0, "nrtPS"), Confirm("b", 1, "UGS"),
               [kind |-> "listen", channel |-> 1], [kind |-> "serve", service |-> "UGS"],
               [kind |-> "cancel"], [kind |-> "undsch", dst |-> "b"]}

Coordinator(type, starts, dsch, ncfg, grants) ==
    [type |-> type, dsch0 |-> starts, ncfg0 |-> starts, dsch |-> dsch, ncfg |-> ncfg,
     marks |-> grants, slot |-> 2, first |-> 1, frames |-> 2, period |-> 4]

\* Elections with several outcomes and no grants, or with one and two grants;
\* coordinators without elections.
SomeConfigs == {Coordinator("STANDARD", {0, 1, 4}, {1, 2, 3, 5}, {3, 4}, 0),
                Coordinator("STANDARD", {4}, {4}, {3}, 2),
                Coordinator("FIXED", {2}, {2}, {0}, 1), Coordinator("MOVING", {2}, {2}, {0}, 1)}
=============================================================================
