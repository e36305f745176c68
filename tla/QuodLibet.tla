----------------------------- MODULE QuodLibet -----------------------------
(***************************************************************************)
(* The Quod Libet reader (quodlibet.c).  The song is asked for at each     *)
(* poll; whether it is paused, only the player's signals tell.             *)
(*                                                                         *)
(* An operator X_Variant is X with a mistake its author could have made;   *)
(* nothing uses it.                                                        *)
(***************************************************************************)
EXTENDS Polling, Sequences, Naturals

CONSTANT MaxPauses      \* bound: signals that wait on the connection

VARIABLES
    quodLibet,      \* the player: Absent, or its song, whether it is paused
                    \* and whether it has told us so
    pauses,         \* the signals that wait: the g_state they stand for
    connected,      \* the static of that name
    gState          \* g_state

quodLibetVars == <<quodLibet, pauses, connected, gState>>
vars == <<bus, phase, answer, quodLibetVars>>

Absent == [on |-> FALSE]
Process == {Absent} \cup [on : {TRUE}, song : Track, state : Active,
                          told : BOOLEAN]

-----------------------------------------------------------------------------
Starts(t, s) ==
    /\ ~quodLibet.on
    /\ quodLibet' = [on |-> TRUE, song |-> t, state |-> s, told |-> FALSE]
    /\ UNCHANGED <<bus, phase, answer, pauses, connected, gState>>

Quits ==
    /\ quodLibet.on
    /\ quodLibet' = Absent
    /\ UNCHANGED <<bus, phase, answer, pauses, connected, gState>>

NextSong(t) ==
    /\ quodLibet.on
    /\ quodLibet' = [quodLibet EXCEPT !.song = t]
    /\ UNCHANGED <<bus, phase, answer, pauses, connected, gState>>

(* The signals Paused and Unpaused *)
Pauses(s) ==
    /\ quodLibet.on /\ quodLibet.state # s
    /\ Len(pauses) < MaxPauses
    /\ quodLibet' = [quodLibet EXCEPT !.state = s, !.told = connected]
    /\ pauses' = IF connected THEN Append(pauses, s) ELSE pauses
    /\ UNCHANGED <<bus, phase, answer, connected, gState>>

Environment ==
    \/ \E t \in Track, s \in Active : Starts(t, s)
    \/ Quits
    \/ \E t \in Track : NextSong(t)
    \/ \E s \in Active : Pauses(s)

-----------------------------------------------------------------------------
(* Each signal is taken for a change *)
StateAfter_Toggled(s) == IF gState = "NORMAL" THEN "PAUSED" ELSE "NORMAL"

(* cb_quodlibet_paused(), with the state given when it was connected *)
StateAfter(s) == s

SignalArrives ==
    /\ MainLoop
    /\ pauses # <<>>
    /\ gState' = StateAfter(Head(pauses))
    /\ pauses' = Tail(pauses)
    /\ UNCHANGED <<bus, phase, answer, quodLibet, connected>>

Ask ==
    /\ Begin
    /\ UNCHANGED <<bus, quodLibetVars>>

(* get_quodlibet_info(): the signals are connected once, when the player   *)
(* is first found; only then is it asked for its song.                     *)
NotRunning ==
    /\ phase = "asking"
    /\ ~bus \/ ~quodLibet.on
    /\ IF bus THEN Return(TRUE, "OFF", NoFields) ELSE Fail
    /\ UNCHANGED <<bus, quodLibetVars>>

CurrentSong(got) ==
    /\ phase = "asking"
    /\ bus /\ quodLibet.on
    /\ connected' = TRUE
    /\ IF got THEN Return(TRUE, gState, quodLibet.song)
              ELSE Return(TRUE, "OFF", NoFields)
    /\ UNCHANGED <<bus, quodLibet, pauses, gState>>

-----------------------------------------------------------------------------
Init ==
    /\ quodLibet = Absent
    /\ pauses = <<>>
    /\ connected = FALSE
    /\ gState = "NORMAL"

Poll == Ask \/ NotRunning \/ \E got \in BOOLEAN : CurrentSong(got)

Next == Environment \/ SignalArrives \/ Poll

TypeOK ==
    /\ quodLibet \in Process
    /\ pauses \in Seq(Active)
    /\ connected \in BOOLEAN
    /\ gState \in Active

-----------------------------------------------------------------------------
(* Once it has told us, what is announced agrees with the player as soon   *)
(* as the waiting signals are in.                                          *)
PauseIsHeard ==
    quodLibet.on /\ quodLibet.told =>
        quodLibet.state = IF pauses = <<>> THEN gState ELSE pauses[Len(pauses)]
=============================================================================
