--------------------- MODULE PlayerSelectionProperties ---------------------
(* What a pass over the players promises to the rest of cb_timeout. *)
EXTENDS PlayerSelection

(* Every variable stays in its type. *)
TypeOK ==
    /\ bus \in BOOLEAN
    /\ library \in Installed \cup {Nobody}
    /\ choice \in Player \cup {"auto"}
    /\ steady \in Player \cup {Nobody}
    /\ phase \in {"idle", "asking", "done"}
    /\ asked \in 0 .. Len(Order)
    /\ b \in BOOLEAN
    /\ ti \in TrackInfo

Done == phase = "done"
(* A player is announced as playing or paused; cb_timeout announces        *)
(* nothing for a status that is no STATUS_ constant.                       *)
Announced == Done /\ b /\ ti.status \in Active

(* However the other players come, go and fail while they are asked, a     *)
(* player that plays and answers throughout the pass makes the             *)
(* auto-detection announce one that is active; unless dcop prints a number *)
(* that is no status, which ends the search like one that is.              *)
OddAmarok == b /\ ti.player = "Amarok 1.x.x" /\ ti.status = "ODD"
PlayingIsFound ==
    Done /\ choice = "auto" /\ steady # Nobody => Announced \/ OddAmarok

(* Who may fail with a status that is not STATUS_OFF; who may succeed with *)
(* the status as it was found; and who leaves no status that was found,    *)
(* unless it is what they succeed with.                                    *)
FailsActive == {"Banshee", "XMMS2", "iTunes"}
KeepsStatus == {"Amarok 1.x.x", "XMMS2", "MPD", "Windows Media Player", "iTunes",
                "Last.fm"}
Resets == {"Amarok 1.x.x", "QuodLibet", "Exaile", "MPRIS", "Winamp", "Foobar2000"}

(* Nothing in cb_timeout keeps the ones from the others, but the order of  *)
(* g_players does: on Unix, with libxmmsclient or without, and on Windows. *)
ASSUME SeparationAssumption ==
    \A i, j \in DOMAIN Order :
        i < j /\ Order[i] \in FailsActive /\ Order[j] \in KeepsStatus =>
            \E k \in DOMAIN Order : i < k /\ k < j /\ Order[k] \in Resets

(* With a session bus, the status announced is one that the player asked   *)
(* last has set: what a failed player left in ti->status is overwritten    *)
(* before anybody relies on it.  The two users of the xmms_remote_*        *)
(* pointers may stand in for each other.                                   *)
StatusIsOwn ==
    Announced /\ bus => \/ ti.by = ti.player
                        \/ {ti.by, ti.player} \subseteq Legacy

(* The players that fill in fields and then are off or fail *)
Leaver == {"MOC", "SqueezeCenter", "XMMS2", "MPD",
           "Winamp", "Windows Media Player", "iTunes"}

(* A field that is announced belongs to the player announced, or to one    *)
(* that was passed over after it had written the TrackInfo; no other       *)
(* player leaves anything behind.                                          *)
LeftByLeavers ==
    Announced => \A f \in Field :
                    ti.holds[f] \in {Nobody, ti.by, ti.player} \cup Leaver

-----------------------------------------------------------------------------
(* lastfm.c:160 promises of PREF_LASTFM_QUIET: "Unless another track is    *)
(* scrobbled after the interval is elapsed, we will assume the off state   *)
(* for the player."  A player that is off is one that succeeds with        *)
(* STATUS_OFF, for which cb_timeout announces PREF_OFF, the "Status to Set *)
(* When Player is off:" (actions.c:65).  get_lastfm_info fails with it.    *)
SilenceIsOff == Done /\ ti.by = "Last.fm" /\ ti.status = "OFF" => b
=============================================================================
