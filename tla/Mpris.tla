------------------------------- MODULE Mpris -------------------------------
(***************************************************************************)
(* The MPRIS reader (mpris.c): a table of every media player that has been *)
(* on the bus, with the TrackInfo that its signals and the answers to a    *)
(* poll have left there.                                                   *)
(*                                                                         *)
(* A poll makes blocking calls to one service after the other.  Signals    *)
(* that arrive meanwhile wait on the connection and are handled after it,  *)
(* though they may be older than the answers it got.                       *)
(*                                                                         *)
(* An operator X_Variant is X with a mistake its author could have made;   *)
(* nothing uses it.                                                        *)
(***************************************************************************)
EXTENDS Polling, Sequences, Naturals

CONSTANTS
    Service,        \* the names org.mpris.* that come and go on the bus
    NoGetStatus,    \* services without that method (BMPx 0.40)
    Code,           \* the status numbers that services send
    TracksOf,       \* the tracks that each of them plays
    MaxSignals      \* bound: signals that wait on the connection

VARIABLES
    service,        \* the players: Absent, or the status and track of one
                    \* and whether we were told of its last change of status
    signals,        \* the signals that wait on the connection
    players,        \* the table
    unchecked,      \* the services the foreach of this poll has still to ask
    current,        \* the one it is asking
    found           \* the one whose TrackInfo it has copied

mprisVars == <<service, signals, players, unchecked, current, found>>
vars == <<bus, phase, answer, mprisVars>>

Absent == [on |-> FALSE]
Present == [on : {TRUE}, code : Code, track : Track, told : BOOLEAN]

Known == DOMAIN players

(* mpris_status_signal_int_cb(), and the one for a struct of four numbers *)
StatusOf(code) ==
    CASE code = 0 -> "NORMAL" [] code = 1 -> "PAUSED" [] OTHER -> "OFF"

StatusSignal(s, c) == [from |-> s, kind |-> "StatusChange", code |-> c]
TrackSignal(s, t) == [from |-> s, kind |-> "TrackChange", track |-> t]
Signal == [from : Service, kind : {"StatusChange"}, code : Code]
            \cup [from : Service, kind : {"TrackChange"}, track : Track]

(* The title is looked up under the wrong name *)
WithTrack_NoTitle(p, t) ==
    [p EXCEPT !.fields = [f \in Field |-> IF t[f] # Nothing /\ f # "track"
                                          THEN t[f] ELSE @[f]]]

(* mpris_track_signal_cb(): fields that the metadata do not have stay *)
WithTrack(p, t) ==
    [p EXCEPT !.fields = [f \in Field |-> IF t[f] # Nothing THEN t[f] ELSE @[f]]]
WithStatus(p, c) == [p EXCEPT !.status = StatusOf(c)]

(* The memory is not cleared *)
NewPlayer_Unset ==
    [status |-> "OFF", fields |-> [f \in Field |-> "garbage"]]

(* player_new() *)
NewPlayer == [status |-> "OFF", fields |-> NoFields]

(* A new record for every name *)
Unlisted_Again == {s \in Service : service[s].on}

(* The names that ListNames returns and the table does not have *)
Unlisted == {s \in Service : service[s].on} \ Known

Listed(new) ==
    [s \in Known \cup new |-> IF s \in new THEN NewPlayer ELSE players[s]]

-----------------------------------------------------------------------------
(* The services and the bus *)
Appears(s, c, t) ==
    /\ ~service[s].on
    /\ service' = [service EXCEPT ![s] = [on |-> TRUE, code |-> c, track |-> t,
                                          told |-> FALSE]]
    /\ UNCHANGED <<bus, phase, answer, signals, players, unchecked, current,
                   found>>

(* A service that is killed says nothing *)
Vanishes(s) ==
    /\ service[s].on
    /\ service' = [service EXCEPT ![s] = Absent]
    /\ UNCHANGED <<bus, phase, answer, signals, players, unchecked, current,
                   found>>

(* Signals reach us only when player_new() has connected them *)
Emits(s, m) ==
    /\ Len(signals) < MaxSignals
    /\ signals' = IF s \in Known THEN Append(signals, m) ELSE signals

ChangesStatus(s, c) ==
    /\ service[s].on /\ service[s].code # c
    /\ Emits(s, StatusSignal(s, c))
    /\ service' = [service EXCEPT ![s].code = c, ![s].told = s \in Known]
    /\ UNCHANGED <<bus, phase, answer, players, unchecked, current, found>>

ChangesTrack(s, t) ==
    /\ service[s].on /\ service[s].track # t
    /\ Emits(s, TrackSignal(s, t))
    /\ service' = [service EXCEPT ![s].track = t]
    /\ UNCHANGED <<bus, phase, answer, players, unchecked, current, found>>

Environment ==
    \E s \in Service :
        \/ \E c \in Code, t \in TracksOf[s] : Appears(s, c, t)
        \/ Vanishes(s)
        \/ \E c \in Code : ChangesStatus(s, c)
        \/ \E t \in TracksOf[s] : ChangesTrack(s, t)

-----------------------------------------------------------------------------
(* The main loop handles the oldest signal *)
Handled(p, m) == IF m.kind = "StatusChange" THEN WithStatus(p, m.code)
                                            ELSE WithTrack(p, m.track)

SignalArrives ==
    /\ MainLoop
    /\ signals # <<>>
    /\ players' = [players EXCEPT ![Head(signals).from] =
                                     Handled(@, Head(signals))]
    /\ signals' = Tail(signals)
    /\ UNCHANGED <<bus, phase, answer, service, unchecked, current, found>>

(* get_mpris_info() up to the foreach; ListNames may fail *)
List(got) ==
    /\ Begin
    /\ players' = IF bus /\ got THEN Listed(Unlisted) ELSE players
    /\ unchecked' = DOMAIN players'
    /\ current' = Nobody /\ found' = Nobody
    /\ UNCHANGED <<bus, service, signals>>

(* mpris_app_running(): services that are gone stay in the table *)
Running(s) == service[s].on

(* mpris_check_player() up to GetStatus, whose answer may not come: then   *)
(* the status stays what the last signal or answer made it                 *)
CheckStatus(s, got) ==
    /\ phase = "asking"
    /\ current = Nobody /\ found = Nobody
    /\ s \in unchecked
    /\ got => service[s].on /\ s \notin NoGetStatus
    /\ unchecked' = unchecked \ {s}
    /\ current' = IF Running(s) THEN s ELSE Nobody
    /\ players' = IF got THEN [players EXCEPT ![s] = WithStatus(@, service[s].code)]
                         ELSE players
    /\ UNCHANGED <<bus, phase, answer, service, signals, found>>

(* GetMetadata, which may not answer either, and the rest of the function *)
CheckMetadata(got) ==
    /\ phase = "asking"
    /\ current # Nobody
    /\ got => service[current].on
    /\ current' = Nobody
    /\ players' = IF got
                  THEN [players EXCEPT ![current] =
                            WithTrack(@, service[current].track)]
                  ELSE players
    /\ found' = IF players[current].status # "OFF" THEN current ELSE Nobody
    /\ UNCHANGED <<bus, phase, answer, service, signals, unchecked>>

(* That the services were asked is an answer *)
Answers_Always ==
    IF ~bus THEN Fail
    ELSE IF found = Nobody THEN Return(TRUE, "OFF", NoFields)
    ELSE Return(TRUE, players[found].status, players[found].fields)

(* return ti->status != STATUS_OFF, ti being a copy of the table's         *)
Answers ==
    IF ~bus THEN Fail
    ELSE IF found = Nobody THEN Return(FALSE, "OFF", NoFields)
    ELSE Return(TRUE, players[found].status, players[found].fields)

Finish ==
    /\ phase = "asking"
    /\ current = Nobody
    /\ unchecked = {} \/ found # Nobody
    /\ Answers
    /\ unchecked' = {}
    /\ UNCHANGED <<bus, service, signals, players, current, found>>

-----------------------------------------------------------------------------
Init ==
    /\ service = [s \in Service |-> Absent]
    /\ signals = <<>>
    /\ players = [s \in {} |-> NewPlayer]
    /\ unchecked = {}
    /\ current = Nobody
    /\ found = Nobody

Poll ==
    \/ \E got \in BOOLEAN : List(got)
    \/ \E s \in Service, got \in BOOLEAN : CheckStatus(s, got)
    \/ \E got \in BOOLEAN : CheckMetadata(got)
    \/ Finish

(* The bus and the services asked answer what they can *)
PollAnswered ==
    \/ List(TRUE)
    \/ \E s \in Service : CheckStatus(s, service[s].on /\ s \notin NoGetStatus)
    \/ CheckMetadata(current # Nobody /\ service[current].on)
    \/ Finish

Next ==
    \/ Environment
    \/ SignalArrives
    \/ Poll

TypeOK ==
    /\ service \in [Service -> {Absent} \cup Present]
    /\ signals \in Seq(Signal)
    /\ Known \subseteq Service
    /\ players \in [Known -> [status : Status, fields : Fields]]
    /\ unchecked \subseteq Known
    /\ current \in Known \cup {Nobody}
    /\ found \in Known \cup {Nobody}

-----------------------------------------------------------------------------
(* Where a change of status of s waits on the connection *)
Waiting(s) == {i \in DOMAIN signals :
                   signals[i].from = s /\ signals[i].kind = "StatusChange"}

(* The status that the table will have once the waiting signals are in is  *)
(* that of the last of them, or is there already.                          *)
WillBe(s, status) ==
    IF Waiting(s) = {}
    THEN players[s].status = status
    ELSE \A i \in Waiting(s) : (\A j \in Waiting(s) : j <= i) =>
             StatusOf(signals[i].code) = status

(* However signals and the answers to polls overtake each other, once the  *)
(* service has told us of a change of status, the table agrees with it as  *)
(* soon as what waits has been handled.                                    *)
StatusIsHeard ==
    \A s \in Known : service[s].on /\ service[s].told =>
                        WillBe(s, StatusOf(service[s].code))

(* What the last poll announced is right: a service on the bus, its status *)
(* and all fields its track has; and it announced nothing only if none     *)
(* that can be asked for its status was active.                            *)
AnswerIsRight ==
    IF found # Nobody
    THEN /\ service[found].on
         /\ answer.b
         /\ found \notin NoGetStatus \/ service[found].told =>
                answer.status = StatusOf(service[found].code)
         /\ \A f \in Field :
                service[found].track[f] \in {Nothing, answer.fields[f]}
    ELSE \A s \in Service : service[s].on /\ s \notin NoGetStatus =>
                StatusOf(service[s].code) = "OFF"
=============================================================================
