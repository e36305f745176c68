--------------------------- MODULE MCMusicTracker ---------------------------
(* Small instances of MusicTracker for TLC. *)
EXTENDS MusicTrackerProperties, TLC

CONSTANTS clean, dirty, masked, busy, lunch

(* filter() replaces the listed word in "dirty" and leaves "masked" *)
MCMask == clean :> clean @@ dirty :> masked @@ masked :> masked
            @@ NoTrack :> NoTrack

Off == [status |-> "OFF", track |-> NoTrack]
MCReport == {Failed, Off, [status |-> "PAUSED", track |-> clean]}
              \cup [status : {"NORMAL"}, track : {clean, dirty}]
MCReportSmall == {Failed, Off} \cup [status : {"NORMAL"}, track : {clean, dirty}]
MCReportOdd == MCReport \cup {[status |-> "ODD", track |-> clean]}

User1(m) == [by |-> "user", body |-> m]
AllTo(x) == [a \in Account |-> x]

(* The buddy list offers a general message, a general message under an     *)
(* away status with a substatus for some accounts, and a status without    *)
(* any message.                                                            *)
MCSavedStatus ==
    {[active |-> AllTo("available"), message |-> User1(busy),
      sub |-> AllTo(NoSub)],
     [active |-> AllTo("away"), message |-> User1(busy),
      sub |-> [a \in Account |-> IF a \in TuneAccount THEN User1(lunch)
                                                      ELSE NullMessage]]}
MCSavedStatusBare == MCSavedStatus \cup
    {[active |-> [a \in Account |-> IF a \in TuneAccount THEN "bare"
                                                         ELSE "none"],
      message |-> NullMessage, sub |-> AllTo(NoSub)]}

(* init_plugin(): the "off" format is empty, the others are not *)
DefaultFormat == [s \in Status |-> s # "OFF"]
MCStartPrefs ==
    [disabled : {FALSE}, filter : BOOLEAN, away : BOOLEAN,
     tuneOnly : BOOLEAN, format : {DefaultFormat}]
MCDefaultPrefs ==
    [disabled : {FALSE}, filter : {FALSE}, away : {FALSE},
     tuneOnly : {FALSE}, format : {DefaultFormat}]

MCStartCustom == [disabled : BOOLEAN, format : {FALSE},
                  broken : {"no", "yes"}]
MCDefaultCustom == [disabled : {FALSE}, format : {FALSE}, broken : {"unset"}]
=============================================================================
