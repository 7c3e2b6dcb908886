---------------------------- MODULE MCDataPlane ----------------------------
(* Two flows of one service, the second with a CRC, and one of another. *)
EXTENDS DataPlane

CONSTANTS f, g, h

ThreeFlows == {f, g, h}
Services   == (f :> 1) @@ (g :> 1) @@ (h :> 2)
Weights    == (f :> 1) @@ (g :> 2) @@ (h :> 1)
Headers    == (f :> 2) @@ (g :> 4) @@ (h :> 2)
Lengths    == (f :> {1, 5}) @@ (g :> {2}) @@ (h :> {1})
Config(sharing, max, flows, watched, lossy, timeout) ==
    [sharing |-> sharing, maxBufSize |-> max, flows |-> flows, watched |-> watched,
     lossy |-> lossy, timeout |-> timeout]

\* Three flows without losses, each way to share the buffer; two with losses.
SomeConfigs == {Config("SHARED", 9, Flow, f, FALSE, FALSE),
                Config("PER_LINK", 7, Flow, g, FALSE, TRUE),
                Config("PER_FLOW", 7, {f, h}, f, FALSE, FALSE),
                Config("SHARED", 7, {f}, f, TRUE, TRUE)}
=============================================================================
