------------------------------ MODULE Polling ------------------------------
(***************************************************************************)
(* One player's track_func as cb_timeout (musictracker.c) calls it: what   *)
(* the modules of the players that keep something between two polls have   *)
(* in common.  A poll is a Begin, any steps of the track_func that wait    *)
(* for another process, and a Return.                                       *)
(***************************************************************************)
CONSTANTS
    Text,           \* titles, names of artists and of albums
    Nothing,        \* the empty string
    Track,          \* the tracks the players play: a text for each field
    Nobody          \* no player

VARIABLES
    bus,            \* dbus_g_bus_get() finds a session bus
    phase,          \* whether the track_func has been called and returned
    answer          \* what it returned, and the TrackInfo it filled

Field == {"track", "artist", "album"}
Fields == [Field -> Text \cup {Nothing}]
NoFields == [f \in Field |-> Nothing]

ASSUME TextAssumption == Nothing \notin Text
ASSUME TrackAssumption == Track \subseteq Fields

Active == {"PAUSED", "NORMAL"}
Status == Active \cup {"OFF"}

(* by is who set the status *)
Answer == [b : BOOLEAN, by : {"player", Nobody}, status : Status,
           fields : Fields]

(* b = TRUE, memset(&ti, 0, ...) and ti.status = STATUS_OFF *)
Unanswered == [b |-> TRUE, by |-> Nobody, status |-> "OFF",
               fields |-> NoFields]

(* The main loop runs no other callback of the plugin in mid-poll *)
MainLoop == phase # "asking"

(* The TrackInfo of the poll before is filled again *)
Begin_Unset ==
    MainLoop /\ phase' = "asking" /\ answer' = [answer EXCEPT !.b = TRUE]

Begin == MainLoop /\ phase' = "asking" /\ answer' = Unanswered

(* The track_func has left the TrackInfo alone, or set all of it *)
Fail == phase' = "done" /\ answer' = [Unanswered EXCEPT !.b = FALSE]

Return(r, s, F) ==
    /\ phase' = "done"
    /\ answer' = [b |-> r, by |-> "player", status |-> s, fields |-> F]

PollingTypeOK ==
    /\ bus \in BOOLEAN
    /\ phase \in {"idle", "asking", "done"}
    /\ answer \in Answer
=============================================================================
