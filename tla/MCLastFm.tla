------------------------------ MODULE MCLastFm ------------------------------
(* Small instances of LastFm for TLC. *)
EXTENDS LastFmProperties

(* The shortest interval there is, and one that is no multiple of the tick *)
MCInterval == {10, 25}
=============================================================================
