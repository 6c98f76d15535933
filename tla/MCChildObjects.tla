--------------------------- MODULE MCChildObjects ---------------------------
(***************************************************************************)
(* Small instances of ChildObjects for TLC.                                 *)
(***************************************************************************)
EXTENDS ChildObjects

AppSpec(valid, hosts, scaled, n, keys) ==
    [valid |-> valid, hosts |-> hosts, scaled |-> scaled, content |-> n, keys |-> keys]

Routed == AppSpec(TRUE, TRUE, TRUE, 1, {"lb"})
Hidden == AppSpec(TRUE, FALSE, FALSE, 2, {})
Invalid == AppSpec(FALSE, TRUE, TRUE, 2, {})
JustRouted == {Routed}

ThreeSpecs == {Routed, Hidden, Invalid}
TwoObjects == <<"networkpolicy", "service">>
=============================================================================
