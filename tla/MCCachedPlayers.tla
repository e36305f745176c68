-------------------------- MODULE MCCachedPlayers --------------------------
(* A small instance of CachedPlayers for TLC. *)
EXTENDS CachedPlayersProperties, TLC

CONSTANTS s1, s2

MCText == {"Aria", "Bach", "Casals", "Dies Irae"}

(* A track with all fields, and one of which only the title is known *)
Aria == [track |-> "Aria", artist |-> "Bach", album |-> "Casals"]
Dies == [track |-> "Dies Irae", artist |-> Nothing, album |-> Nothing]
MCTrack == {Aria, Dies}

MCTracksOf == s1 :> MCTrack @@ s2 :> {Aria}
=============================================================================
