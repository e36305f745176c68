------------------------- MODULE MCPlayerSelection -------------------------
(* g_players as the builds for Unix and for Windows order it. *)
EXTENDS PlayerSelectionProperties

MCUnix ==
    <<"XMMS", "Audacious < 1.4", "Audacious >= 1.4", "Amarok 1.x.x",
      "Rhythmbox", "Banshee", "Vagalume", "QuodLibet", "Exaile", "MOC",
      "Listen", "SqueezeCenter", "XMMS2", "MPRIS", "Songbird", "MPD",
      "Last.fm">>

MCWindows ==
    <<"Winamp", "Windows Media Player", "iTunes", "Messenger compatible",
      "Foobar2000", "MPD", "Last.fm">>

MCBoth == {"XMMS", "Audacious < 1.4"}
MCNoLibrary == {}
=============================================================================
