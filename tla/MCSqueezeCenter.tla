--------------------------- MODULE MCSqueezeCenter ---------------------------
(* A small instance of SqueezeCenter for TLC. *)
EXTENDS SqueezeCenterProperties, TLC

CONSTANTS A, B, d1, d2, d3

MCHosts == A :> {<<>>, <<d1, d2>>} @@ B :> {<<d3>>}
MCServerLists == {<<A, B>>, <<B>>}

MCMisread == {-1}
MCShown == {[mode |-> "play", power |-> TRUE, remote |-> TRUE]}

Anyone(playing) == [any |-> TRUE, playing |-> playing]
Named(d, playing) == [any |-> FALSE, playing |-> playing, name |-> d]
MCPlayerOrders == {<<Named(d2, TRUE), Anyone(FALSE)>>, <<Anyone(TRUE)>>}
=============================================================================
