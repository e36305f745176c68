-------------------------- MODULE PlayerSelection --------------------------
(***************************************************************************)
(* How cb_timeout (musictracker.c) finds out what is playing: it asks the  *)
(* player the user selected, or with "Auto-detect" every entry of          *)
(* g_players in turn, all of them filling the same struct TrackInfo.       *)
(*                                                                         *)
(* A pass is one callback of Pidgin's main loop, but the players are other *)
(* processes, which go on while it asks them one by one: a pass is a       *)
(* sequence of steps, and what a player answers at its step is free within *)
(* what its track_func lets through.  A string field of the TrackInfo is   *)
(* abstracted to the player whose data it holds.                           *)
(*                                                                         *)
(* An operator X_Variant is X with a mistake its author could have made;   *)
(* nothing uses it.                                                        *)
(***************************************************************************)
EXTENDS Sequences, Naturals

CONSTANTS
    Order,          \* the names in g_players, as this build orders them
    Installed,      \* which of libxmms.so and libaudacious.so can be loaded
    Nobody          \* no player: the author of an empty field

VARIABLES
    bus,            \* dbus_g_bus_get() finds a session bus
    library,        \* whose functions the xmms_remote_* pointers are
    choice,         \* PREF_PLAYER
    steady,         \* a player that plays and answers all through this pass
    phase,          \* what cb_timeout is doing
    asked,          \* i, the number of players this pass has asked
    b,              \* what the last track_func returned
    ti              \* the TrackInfo all of them fill

vars == <<bus, library, choice, steady, phase, asked, b, ti>>

Player == {Order[i] : i \in DOMAIN Order}

(* The two players that are reached through one set of function pointers *)
Legacy == {"XMMS", "Audacious < 1.4"}

(* Those that need the session bus *)
BusPlayer == {"Audacious >= 1.4", "Rhythmbox", "Banshee", "Vagalume",
              "QuodLibet", "Exaile", "Listen", "MPRIS", "Songbird"}

(* All that some build of g_players names *)
KnownPlayer ==
    Legacy \cup BusPlayer
    \cup {"Amarok 1.x.x", "MOC", "SqueezeCenter", "XMMS2", "MPD", "Last.fm"}
    \cup {"Winamp", "Windows Media Player", "iTunes", "Messenger compatible",
          "Foobar2000"}

ASSUME OrderAssumption ==
    /\ Len(Order) \in Nat \ {0}
    /\ DOMAIN Order = 1 .. Len(Order)
    /\ Order[Len(Order)] = "Last.fm"
    /\ \A i, j \in DOMAIN Order : Order[i] = Order[j] => i = j
ASSUME NamesAssumption ==
    /\ Player \subseteq KnownPlayer
    /\ Nobody \notin KnownPlayer
ASSUME InstalledAssumption == Installed \subseteq Legacy

-----------------------------------------------------------------------------
Field == {"track", "artist", "album"}
Active == {"PAUSED", "NORMAL"}
Status == Active \cup {"OFF", "ODD"}

Author == Player \cup Legacy \cup {Nobody}

(* by is the player that set status; player is what %r expands to.  "ODD"  *)
(* stands for every number that is no STATUS_ constant.                    *)
TrackInfo == [status : Status, by : Author, player : Player \cup {Nobody},
              holds : [Field -> Author]]

(* Without the memset() the strings hold what the stack held *)
Blank_Unset == [status |-> "OFF", by |-> Nobody, player |-> Nobody,
                holds |-> [f \in Field |-> "garbage"]]

(* memset(&ti, 0, ...) and ti.status = STATUS_OFF *)
Blank == [status |-> "OFF", by |-> Nobody, player |-> Nobody,
          holds |-> [f \in Field |-> Nobody]]

(* What a track_func does to the TrackInfo: it sets the status; writes the *)
(* fields F and leaves the others as it found them; or writes every field, *)
(* an empty string where it has nothing to say (those outside F).          *)
Says(t, p, s) ==
    [status |-> s, by |-> p, player |-> t.player, holds |-> t.holds]
Filled(t, h) ==
    [status |-> t.status, by |-> t.by, player |-> t.player, holds |-> h]
Writes(t, p, F) ==
    Filled(t, [f \in Field |-> IF f \in F THEN p ELSE t.holds[f]])
Replaces(t, p, F) ==
    Filled(t, [f \in Field |-> IF f \in F THEN p ELSE Nobody])

(* return TRUE and return FALSE *)
True(T) == {[b |-> TRUE, ti |-> t] : t \in T}
False(T) == {[b |-> FALSE, ti |-> t] : t \in T}

SaysOneOf(t, p, S) == {Says(t, p, s) : s \in S}
WritesSome(T, p) == {Writes(t, p, F) : t \in T, F \in SUBSET Field}
ReplacesSome(T, p) == {Replaces(t, p, F) : t \in T, F \in SUBSET Field}

-----------------------------------------------------------------------------
(* Each operator below is the set of outcomes of one track_func that finds *)
(* the TrackInfo t.                                                        *)

(* The library l is called for status, and for a title that the delimiter  *)
(* splits into three fields or not at all.  (Its FALSE on a delimiter that *)
(* is not one character cannot happen: cb_xmms_sep_changed stores no such  *)
(* delimiter.)                                                             *)
XmmsControl(t, l) ==
    IF l = Nobody
    THEN False({t})
    ELSE True({Says(t, l, "OFF")} \cup
              {Writes(u, l, F) : u \in SaysOneOf(t, l, Active), F \in {{}, Field}})

(* The fields are fetched before the status is looked at *)
Audacious_FieldsFirst(t, p) ==
    False({t})
    \cup IF bus THEN True(WritesSome(SaysOneOf(t, p, Active \cup {"OFF"}), p))
                ELSE {}

Audacious(t, p) ==
    False({t})
    \cup IF bus THEN True({Says(t, p, "OFF")}
                          \cup WritesSome(SaysOneOf(t, p, Active), p))
                ELSE {}

(* sscanf() leaves the status alone when dcop printed no number, and       *)
(* stores any number it did print.                                         *)
Amarok(t, p) ==
    LET Heard == {t} \cup SaysOneOf(t, p, Status)
        Stopped == {u \in Heard : u.status = "OFF"}
    IN  False({Says(t, p, "OFF")})
        \cup True({Says(t, p, "OFF")} \cup Stopped
                  \cup WritesSome(Heard \ Stopped, p))

Rhythmbox(t, p) ==
    False({t})
    \cup IF bus THEN True({Says(t, p, "OFF")}
                          \cup WritesSome(SaysOneOf(t, p, Active), p))
                ELSE {}

(* The new interface has set the status before it asks for the track *)
Banshee(t, p) ==
    False({t})
    \cup IF bus THEN False(SaysOneOf(t, p, Active \cup {"OFF"}))
                     \cup True({Says(t, p, "OFF")}
                               \cup WritesSome(SaysOneOf(t, p, Active), p))
                ELSE {}

(* A copy of the cache that dbus_handler keeps, cleared when stopped *)
Vagalume(t, p) ==
    False({t})
    \cup IF bus THEN True({Replaces(Says(t, p, "OFF"), p, {})}
                          \cup ReplacesSome({Says(t, p, "NORMAL")}, p))
                ELSE {}

QuodLibet(t, p) ==
    IF ~bus THEN False({t})
    ELSE True({Says(t, p, "OFF")} \cup ReplacesSome(SaysOneOf(t, p, Active), p))

Exaile(t, p) ==
    IF ~bus THEN False({t})
    ELSE True({Says(t, p, "OFF")} \cup WritesSome(SaysOneOf(t, p, Active), p))

(* All three fields are written before the state is looked at *)
Moc(t, p) ==
    False({t}) \cup True(ReplacesSome(SaysOneOf(t, p, Active \cup {"OFF"}), p))

Listen(t, p) ==
    False({t})
    \cup IF bus THEN True(SaysOneOf(t, p, {"OFF", "PAUSED", "NORMAL"})
                          \cup {Writes(Says(t, p, "NORMAL"), p, Field)})
                ELSE {}

(* A remote stream only has a title; the fields of a player that is        *)
(* stopped or switched off are copied all the same.                        *)
SqueezeCenter(t, p) ==
    LET Heard == SaysOneOf(t, p, Active \cup {"OFF"})
    IN  False({t}) \cup True({Writes(u, p, {"track"}) : u \in Heard}
                             \cup ReplacesSome(Heard, p))

(* Status, then the media info of the current entry, also when stopped,    *)
(* then the play time; each may fail, and a state the switch does not know *)
(* leaves the status alone.                                                *)
Xmms2(t, p) ==
    LET Heard == {t} \cup SaysOneOf(t, p, Active \cup {"OFF"})
    IN  False(WritesSome(Heard, p)) \cup True(WritesSome(Heard, p))

(* The status is not reset, so that one found active ends the search *)
Mpris_StatusKept(t, p) ==
    IF ~bus THEN False({t})
    ELSE {[b |-> t.status # "OFF", ti |-> t]}
         \cup True(ReplacesSome(SaysOneOf(t, p, Active), p))

(* STATUS_OFF, then a whole struct of the first service that is active *)
Mpris(t, p) ==
    IF ~bus THEN False({t})
    ELSE False({Says(t, p, "OFF")})
         \cup True(ReplacesSome(SaysOneOf(t, p, Active), p))

Songbird(t, p) ==
    False({t})
    \cup IF bus THEN True({Says(t, p, "OFF")}
                          \cup WritesSome(SaysOneOf(t, p, Active), p))
                ELSE {}

(* The current song is stored, also of a stopped server, and the status    *)
(* last; either may fail to arrive.                                        *)
Mpd(t, p) ==
    False({t} \cup WritesSome({t}, p))
    \cup True(WritesSome({t} \cup SaysOneOf(t, p, Active \cup {"OFF"}), p))

(* The feed has no album.  Without a user name, or with no line fetched,   *)
(* the status stays as it was found.                                       *)
LastFm(t, p) ==
    LET Line == Writes(t, p, {"track", "artist"})
    IN  False({t, Says(Line, p, "OFF")})
        \cup {[b |-> t.status = "NORMAL", ti |-> t]}
        \cup True({Says(Line, p, "NORMAL")})

-----------------------------------------------------------------------------
(* The players of the Windows build *)

(* The fields are read whatever the state; a window title stands in for a  *)
(* track of which nothing is known.                                        *)
Winamp(t, p) ==
    LET Heard == SaysOneOf(t, p, Active \cup {"OFF"})
        Untold == {u \in Heard : \A f \in Field : u.holds[f] = Nobody}
    IN  True(Heard \cup ReplacesSome(Heard, p)
             \cup {Writes(u, p, {"track"}) : u \in Untold})

WindowsMediaPlayer(t, p) ==
    False({t})
    \cup True(WritesSome({t} \cup SaysOneOf(t, p, Active \cup {"OFF"}), p))

(* Only "playing" and "stopped" set the status before the track is asked *)
ITunes(t, p) ==
    LET Heard == {t} \cup SaysOneOf(t, p, Active)
    IN  False(Heard) \cup True({Says(t, p, "OFF")} \cup WritesSome(Heard, p))

(* A copy of what the last WM_COPYDATA message left, if that was a track *)
MessengerCompatible(t, p) ==
    False({t}) \cup True(ReplacesSome({Says(t, p, "NORMAL")}, p))

(* A missing window is taken for an answer, but not for STATUS_OFF *)
Foobar2000_NoWindow(t, p) ==
    True({t, Says(t, p, "OFF"), Says(t, p, "NORMAL"),
          Writes(Says(t, p, "NORMAL"), p, Field)})

Foobar2000(t, p) ==
    True({Says(t, p, "OFF"), Says(t, p, "NORMAL"),
          Writes(Says(t, p, "NORMAL"), p, Field)})

-----------------------------------------------------------------------------
(* What g_players[i].track_func does, l being what the pointers hold *)
Outcomes(t, p, l) ==
    CASE p \in Legacy -> XmmsControl(t, l)
      [] p = "Audacious >= 1.4" -> Audacious(t, p)
      [] p = "Amarok 1.x.x" -> Amarok(t, p)
      [] p = "Rhythmbox" -> Rhythmbox(t, p)
      [] p = "Banshee" -> Banshee(t, p)
      [] p = "Vagalume" -> Vagalume(t, p)
      [] p = "QuodLibet" -> QuodLibet(t, p)
      [] p = "Exaile" -> Exaile(t, p)
      [] p = "MOC" -> Moc(t, p)
      [] p = "Listen" -> Listen(t, p)
      [] p = "SqueezeCenter" -> SqueezeCenter(t, p)
      [] p = "XMMS2" -> Xmms2(t, p)
      [] p = "MPRIS" -> Mpris(t, p)
      [] p = "Songbird" -> Songbird(t, p)
      [] p = "Winamp" -> Winamp(t, p)
      [] p = "Windows Media Player" -> WindowsMediaPlayer(t, p)
      [] p = "iTunes" -> ITunes(t, p)
      [] p = "Messenger compatible" -> MessengerCompatible(t, p)
      [] p = "Foobar2000" -> Foobar2000(t, p)
      [] p = "MPD" -> Mpd(t, p)
      [] p = "Last.fm" -> LastFm(t, p)

(* A player that plays and answers: its own track, or some of it *)
Plays(r, p) == r.b /\ r.ti.status = "NORMAL" /\ r.ti.by = p

Answers(t, p, l) ==
    IF p = steady THEN {r \in Outcomes(t, p, l) : Plays(r, p)}
                  ELSE Outcomes(t, p, l)

(* xmmsctrl_init(): dlopen() replaces the pointers when it succeeds, and   *)
(* leaves those of the other library when it fails.                        *)
LibraryFor(p) == IF p \in Legacy \cap Installed THEN p ELSE library

(* Those that can be reached at all *)
Reachable == {p \in Player : /\ p \in BusPlayer => bus
                             /\ p \in Legacy => p \in Installed}

-----------------------------------------------------------------------------
Init ==
    /\ bus \in BOOLEAN
    /\ library = Nobody
    /\ choice \in Player \cup {"auto"}
    /\ steady = Nobody
    /\ phase = "idle"
    /\ asked = 0
    /\ b = TRUE
    /\ ti = Blank

(* cb_player_changed(): only between two passes, for a pass never returns  *)
(* to the main loop.                                                       *)
PlayerChanged(c) ==
    /\ phase # "asking"
    /\ phase' = "idle"
    /\ choice' = c
    /\ steady' = Nobody /\ asked' = 0 /\ b' = TRUE /\ ti' = Blank
    /\ UNCHANGED <<bus, library>>

Begin(p) ==
    /\ phase # "asking"
    /\ phase' = "asking"
    /\ steady' = p
    /\ asked' = 0 /\ b' = TRUE /\ ti' = Blank
    /\ UNCHANGED <<bus, library, choice>>

(* The TrackInfo has the name of the player before it is asked *)
Ask(p) ==
    /\ library' = LibraryFor(p)
    /\ \E r \in Answers([ti EXCEPT !.player = p], p, library') :
          b' = r.b /\ ti' = r.ti

AskChosen ==
    /\ phase = "asking"
    /\ choice # "auto"
    /\ phase' = "done"
    /\ Ask(choice)
    /\ UNCHANGED <<bus, choice, steady, asked>>

(* The first answer settles it *)
Unsettled_Answered(r, t) == ~r \/ t.player = Nobody

(* What the loop of the auto-detection goes on for *)
Unsettled(r, t) == ~r \/ t.status = "OFF"

AskNext ==
    /\ phase = "asking"
    /\ choice = "auto"
    /\ asked < Len(Order)
    /\ Unsettled(b, ti)
    /\ asked' = asked + 1
    /\ Ask(Order[asked'])
    /\ UNCHANGED <<bus, choice, steady, phase>>

StopAsking ==
    /\ phase = "asking"
    /\ choice = "auto"
    /\ asked = Len(Order) \/ ~Unsettled(b, ti)
    /\ phase' = "done"
    /\ UNCHANGED <<bus, library, choice, steady, asked, b, ti>>

Next ==
    \/ \E c \in Player \cup {"auto"} : PlayerChanged(c)
    \/ \E p \in Reachable \cup {Nobody} : Begin(p)
    \/ AskChosen
    \/ AskNext
    \/ StopAsking

Spec == Init /\ [][Next]_vars
=============================================================================
