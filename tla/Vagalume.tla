----------------------------- MODULE Vagalume -----------------------------
(***************************************************************************)
(* The Vagalume reader (vagalume.c): a copy of what the player last        *)
(* notified, corrected by a check on the first poll and every 60 seconds   *)
(* after it.  The connection to the session bus is shared with the readers *)
(* of the other players, whose messages arrive on it too.                  *)
(*                                                                         *)
(* An operator X_Variant is X with a mistake its author could have made;   *)
(* nothing uses it.                                                        *)
(***************************************************************************)
EXTENDS Polling, Sequences, Naturals

CONSTANT MaxMessages    \* bound: messages that wait on the connection

VARIABLES
    vagalume,       \* the player: Absent, or the track it plays, if any
    requested,      \* it has been asked for a notification
    inbox,          \* the messages that wait on the connection
    initialized,    \* the static of that name, and the 60-second timer
    running,        \* the static of that name
    cached,         \* cached_track: [status, fields]
    checking        \* check_and_fill_cache() waits for a message

vagalumeVars ==
    <<vagalume, requested, inbox, initialized, running, cached, checking>>
vars == <<bus, phase, answer, vagalumeVars>>

Absent == [on |-> FALSE]
Process == {Absent} \cup [on : {TRUE}, plays : Track \cup {NoFields}]

Playing(t) == [kind |-> "playing", track |-> t]
Message ==
    [kind : {"playing"}, track : Track]
        \cup [kind : {"stopped", "closing", "starting", "foreign"}]

Clean == [status |-> "OFF", fields |-> NoFields]

-----------------------------------------------------------------------------
(* The player, and the others on the bus.  The match rule lets its         *)
(* notifications through once the reader is initialized.                   *)
Notifies(m) ==
    /\ Len(inbox) < MaxMessages
    /\ inbox' = IF bus /\ initialized THEN Append(inbox, m) ELSE inbox

Starts ==
    /\ ~vagalume.on
    /\ vagalume' = [on |-> TRUE, plays |-> NoFields]
    /\ Notifies([kind |-> "starting"])
    /\ UNCHANGED <<bus, phase, answer, requested, initialized, running, cached,
                   checking>>

Plays(t) ==
    /\ vagalume.on /\ vagalume.plays # t
    /\ vagalume' = [vagalume EXCEPT !.plays = t]
    /\ Notifies(Playing(t))
    /\ UNCHANGED <<bus, phase, answer, requested, initialized, running, cached,
                   checking>>

Stops ==
    /\ vagalume.on /\ vagalume.plays # NoFields
    /\ vagalume' = [vagalume EXCEPT !.plays = NoFields]
    /\ Notifies([kind |-> "stopped"])
    /\ UNCHANGED <<bus, phase, answer, requested, initialized, running, cached,
                   checking>>

Closes ==
    /\ vagalume.on
    /\ vagalume' = Absent /\ requested' = FALSE
    /\ Notifies([kind |-> "closing"])
    /\ UNCHANGED <<bus, phase, answer, initialized, running, cached, checking>>

IsKilled ==
    /\ vagalume.on
    /\ vagalume' = Absent /\ requested' = FALSE
    /\ UNCHANGED <<bus, phase, answer, inbox, initialized, running, cached,
                   checking>>

ForeignMessage ==
    /\ Notifies([kind |-> "foreign"])
    /\ UNCHANGED <<bus, phase, answer, vagalume, requested, initialized,
                   running, cached, checking>>

(* The answer to a request is a notification like any other *)
Responds ==
    /\ vagalume.on /\ requested
    /\ requested' = FALSE
    /\ Notifies(IF vagalume.plays = NoFields THEN [kind |-> "stopped"]
                ELSE Playing(vagalume.plays))
    /\ UNCHANGED <<bus, phase, answer, vagalume, initialized, running, cached,
                   checking>>

Environment ==
    \/ Starts \/ Stops \/ Closes \/ IsKilled \/ ForeignMessage
    \/ \E t \in Track : Plays(t)

-----------------------------------------------------------------------------
(* A notification that the player stopped is no reason to forget the track *)
CachedAfter_KeepStopped(c, m) ==
    CASE m.kind = "playing" -> [status |-> "NORMAL", fields |-> m.track]
      [] m.kind \in {"closing", "starting"} -> Clean
      [] m.kind \in {"foreign", "stopped"} -> c

(* dbus_handler() *)
CachedAfter(c, m) ==
    CASE m.kind = "playing" -> [status |-> "NORMAL", fields |-> m.track]
      [] m.kind \in {"stopped", "closing", "starting"} -> Clean
      [] m.kind = "foreign" -> c

RunningAfter(r, m) == m.kind = "starting" \/ (r /\ m.kind # "closing")

(* The main loop dispatches the oldest message *)
Dispatch ==
    /\ MainLoop /\ ~checking
    /\ inbox # <<>>
    /\ inbox' = Tail(inbox)
    /\ cached' = CachedAfter(cached, Head(inbox))
    /\ running' = RunningAfter(running, Head(inbox))
    /\ UNCHANGED <<bus, phase, answer, vagalume, requested, initialized,
                   checking>>

Orphaned_Running ==
    /\ running' = running
    /\ cached' = Clean
    /\ UNCHANGED <<requested, inbox, checking>>

(* check_and_fill_cache() finds no owner of the name *)
Orphaned ==
    /\ running' = FALSE
    /\ cached' = Clean
    /\ UNCHANGED <<requested, inbox, checking>>

(* It asks for a notification.  dbus_connection_read_write_dispatch() then *)
(* waits for a message if none is there;                                   *)
Request ==
    /\ inbox = <<>>
    /\ running' = TRUE
    /\ requested' = TRUE
    /\ checking' = TRUE
    /\ UNCHANGED <<inbox, cached>>

(* but a message that is there it dispatches at once, and what is popped   *)
(* after it is the next one, or none.                                      *)
RequestLate ==
    /\ inbox # <<>>
    /\ requested' = TRUE
    /\ LET c == CachedAfter(cached, Head(inbox))
           r == RunningAfter(TRUE, Head(inbox))
           popped == Tail(inbox)
       IN  IF popped = <<>>
           THEN inbox' = <<>> /\ running' = FALSE /\ cached' = Clean
           ELSE /\ inbox' = Tail(popped)
                /\ running' = RunningAfter(r, Head(popped))
                /\ cached' = CachedAfter(c, Head(popped))
    /\ UNCHANGED checking

CheckAndFillCache ==
    \/ ~vagalume.on /\ Orphaned
    \/ vagalume.on /\ Request
    \/ vagalume.on /\ RequestLate

(* dbus_connection_pop_message(): whatever has come first is handled *)
Taken ==
    /\ checking /\ inbox # <<>>
    /\ checking' = FALSE
    /\ inbox' = Tail(inbox)
    /\ cached' = CachedAfter(cached, Head(inbox))
    /\ running' = RunningAfter(running, Head(inbox))
    /\ UNCHANGED <<bus, phase, answer, vagalume, requested, initialized>>

(* "If there is no reply, probably Vagalume is not running" *)
TimedOut ==
    /\ checking /\ inbox = <<>>
    /\ checking' = FALSE
    /\ running' = FALSE
    /\ cached' = Clean
    /\ UNCHANGED <<bus, phase, answer, vagalume, requested, inbox, initialized>>

(* The 60-second timer *)
Timer ==
    /\ MainLoop /\ ~checking
    /\ initialized /\ bus
    /\ CheckAndFillCache
    /\ UNCHANGED <<bus, phase, answer, vagalume, initialized>>

(* get_vagalume_info() *)
Ask ==
    /\ ~checking
    /\ Begin
    /\ UNCHANGED <<bus, vagalumeVars>>

(* initialize_plugin(); without a bus no name has an owner *)
Initialize ==
    /\ phase = "asking" /\ ~initialized
    /\ initialized' = TRUE
    /\ IF bus THEN CheckAndFillCache ELSE Orphaned
    /\ UNCHANGED <<bus, phase, answer, vagalume>>

Answers ==
    /\ phase = "asking" /\ initialized /\ ~checking
    /\ IF running THEN Return(TRUE, cached.status, cached.fields) ELSE Fail
    /\ UNCHANGED <<bus, vagalumeVars>>

-----------------------------------------------------------------------------
Init ==
    /\ vagalume = Absent
    /\ requested = FALSE
    /\ inbox = <<>>
    /\ initialized = FALSE
    /\ running = FALSE
    /\ cached = Clean
    /\ checking = FALSE

Poll == Ask \/ Initialize \/ Answers

Next ==
    \/ Environment
    \/ Responds
    \/ Dispatch
    \/ Timer
    \/ Taken
    \/ TimedOut
    \/ Poll

TypeOK ==
    /\ vagalume \in Process
    /\ requested \in BOOLEAN
    /\ inbox \in Seq(Message)
    /\ initialized \in BOOLEAN
    /\ running \in BOOLEAN
    /\ cached \in {Clean} \cup [status : {"NORMAL"}, fields : Track]
    /\ checking \in BOOLEAN
=============================================================================
