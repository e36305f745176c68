--------------------------- MODULE SqueezeCenter ---------------------------
(***************************************************************************)
(* The SqueezeCenter reader (squeezecenter.c): one connection, made in     *)
(* turn to the servers of a list, and an array of the players that the     *)
(* server has.  A poll is a series of commands, each sent and waited for   *)
(* up to ten seconds in all; a reply is whatever line comes next.          *)
(*                                                                         *)
(* Lines arrive whole.  What a status line says of the music is abstracted *)
(* to the player it is about.  Memory behind the array may be read: what   *)
(* is there is any record, unless the program is ended by it.              *)
(*                                                                         *)
(* An operator X_Variant is X with a mistake its author could have made;   *)
(* nothing uses it.                                                        *)
(***************************************************************************)
EXTENDS Polling, Sequences, Integers, FiniteSetsExt

CONSTANTS
    Server,         \* hosts, with their ports
    Device,         \* SqueezeCenter players, each with an id and a name
    Hosts,          \* for each server, the sequences of players it may have
    ServerLists,    \* values of PREF_SQUEEZECENTER_SERVER, split
    PlayerOrders,   \* values of PREF_SQUEEZECENTER_PLAYERS, split
    Shown,          \* what the players are told to be doing
    Misread,        \* numbers that a line which is no count may have
    MaxLate         \* bound: commands given up that may yet be answered

ASSUME HostsAssumption ==
    /\ Hosts \in [Server -> SUBSET Seq(Device)]
    /\ Device \subseteq Text
ASSUME ServerListsAssumption == ServerLists \subseteq Seq(Server) \ {<<>>}

VARIABLES
    up,             \* the servers that run
    hosted,         \* the players of each
    servers, order, \* the two preferences
    sock,           \* the socket: its peer and its state
    sent,           \* commands the peer has not answered
    inbox,          \* its replies that have not been read
    version,        \* whether connection->version is known
    players,        \* connection->players, the number
    playersArray,   \* connection->players_array
    fetched,        \* pi, the array that get_players() is filling
    last,           \* the static of that name, a place in the list
    step,           \* where the poll is
    failed          \* history: a command failed, and the connection was kept

environment == <<up, hosted>>
prefs == <<servers, order>>
connection == <<sock, sent, inbox, version>>
table == <<players, playersArray, fetched>>
vars == <<bus, phase, answer, environment, prefs, connection, table, last,
          step, failed>>

NoSocket == [state |-> "closed"]
Socket == {NoSocket} \cup [to : Server, state : {"pending", "open", "broken"}]

(* mode, power and remote of a player; a new record has no mode *)
Show == [mode : {"none", "stop", "pause", "play"}, power : BOOLEAN,
         remote : BOOLEAN]
Blank == [mode |-> "none", power |-> FALSE, remote |-> FALSE]

(* from is the player whose status the record holds *)
Someone == Device \cup {Nothing}
ASSUME ShownAssumption == Shown \subseteq Show
ASSUME MisreadAssumption == Misread \subseteq Int

Record == [id : Someone, name : Someone, from : Someone, show : Show]
NewRecord(d) == [id |-> d, name |-> Nothing, from |-> Nothing, show |-> Blank]

At(kind, i) == [kind |-> kind, i |-> i, waits |-> FALSE]
Idle == At("none", 0)
Kind == {"login", "version", "count", "id", "name", "status"}
Step == [kind : Kind \cup {"none", "connect", "check", "select",
                         "lost"}, i : Nat,
         waits : BOOLEAN]

(* A segment of the order: '#' and '*' are for any player, '!' and '#' for *)
(* one that plays.                                                         *)
Segment == [any : {TRUE}, playing : BOOLEAN]
            \cup [any : {FALSE}, playing : BOOLEAN, name : Device]
ASSUME OrdersAssumption == PlayerOrders \subseteq Seq(Segment)

Fits(g, p) ==
    /\ g.playing => p.show.mode = "play"
    /\ IF g.any THEN p.show.power ELSE g.name \in {p.name, p.id}

(* get_squeezecenter_status(): the first that fits the first segment that  *)
(* one fits, or else the last player; of those in the array                *)
Fitting(k) == {i \in DOMAIN playersArray :
                  i <= players /\ Fits(order[k], playersArray[i])}
Met == {k \in DOMAIN order : Fitting(k) # {}}
Chosen == IF Met = {} THEN players ELSE Min(Fitting(Min(Met)))

(* What may be found behind the array, if players were counted that are    *)
(* not in it, and the first segment is not met in it.                      *)
Stray ==
    IF players > Len(playersArray) /\ 1 \notin Met
    THEN [id : {Nothing}, name : {Nothing}, from : Someone, show : Show]
    ELSE {}
Candidates ==
    {playersArray[i] : i \in {Chosen} \cap DOMAIN playersArray} \cup Stray

-----------------------------------------------------------------------------
(* The servers, the network and the user *)
PeerIs(s) == sock # NoSocket /\ sock.to = s
Broken == IF sock = NoSocket THEN sock ELSE [sock EXCEPT !.state = "broken"]

(* A server that is gone may take the connection down, or leave it silent; *)
(* one that is back knows nothing of the connection.                       *)
GoesDown(s) ==
    /\ s \in up /\ up' = up \ {s}
    /\ sock' \in IF PeerIs(s) /\ sock.state = "open" THEN {sock, Broken}
                                                     ELSE {sock}
    /\ sent' = IF PeerIs(s) THEN <<>> ELSE sent
    /\ UNCHANGED <<bus, phase, answer, hosted, prefs, inbox, version, table,
                   last, step, failed>>

ComesUp(s) ==
    /\ s \notin up /\ up' = up \cup {s}
    /\ sock' = IF PeerIs(s) /\ sock.state = "open" THEN Broken ELSE sock
    /\ UNCHANGED <<bus, phase, answer, hosted, prefs, sent, inbox, version,
                   table, last, step, failed>>

PlayersComeAndGo(s, D) ==
    /\ hosted' = [hosted EXCEPT ![s] = D]
    /\ UNCHANGED <<bus, phase, answer, up, prefs, connection, table, last,
                   step, failed>>

(* The connect() that do_connect_fail() has started *)
Connects ==
    /\ sock # NoSocket /\ sock.state = "pending"
    /\ sock' = [sock EXCEPT !.state = IF sock.to \in up THEN "open" ELSE "broken"]
    /\ UNCHANGED <<bus, phase, answer, environment, prefs, sent, inbox,
                   version, table, last, step, failed>>

Reply(c) ==
    LET D == hosted[sock.to]
        AtPlace == IF c.i \in DOMAIN D THEN D[c.i] ELSE Nothing
        Registered == {d \in Device : \E k \in DOMAIN D : D[k] = d}
    IN  CASE c.kind \in {"login", "version"} -> {[kind |-> c.kind]}
          [] c.kind = "count" -> {[kind |-> "count", n |-> Len(D)]}
          [] c.kind \in {"id", "name"} -> {[kind |-> c.kind, of |-> AtPlace]}
          [] c.kind = "status" /\ c.of \in Registered ->
                [kind : {"status"}, of : {c.of}, show : Shown]
          [] OTHER -> {[kind |-> "echo"]}

ServerAnswers ==
    /\ sock # NoSocket /\ sock.state = "open" /\ sock.to \in up
    /\ sent # <<>>
    /\ sent' = Tail(sent)
    /\ \E r \in Reply(Head(sent)) : inbox' = Append(inbox, r)
    /\ UNCHANGED <<bus, phase, answer, environment, prefs, sock, version,
                   table, last, step, failed>>

(* squeezecenter_disconnect() *)
Disconnect == sock' = NoSocket /\ sent' = <<>> /\ inbox' = <<>>

(* cb_squeezecenter_changed(), for the one preference and for the other *)
ServersChanged(l) ==
    /\ MainLoop /\ l # servers
    /\ servers' = l
    /\ Disconnect
    /\ UNCHANGED <<bus, phase, answer, environment, order, version, table,
                   last, step, failed>>

OrderChanged(o) ==
    /\ MainLoop /\ o # order
    /\ order' = o
    /\ UNCHANGED <<bus, phase, answer, environment, servers, connection, table,
                   last, step, failed>>

Environment ==
    \/ \E s \in Server : GoesDown(s) \/ ComesUp(s)
    \/ \E s \in Server : \E D \in Hosts[s] : PlayersComeAndGo(s, D)
    \/ \E l \in ServerLists : ServersChanged(l)
    \/ \E o \in PlayerOrders : OrderChanged(o)

-----------------------------------------------------------------------------
(* get_squeezecenter_info() starts with get_squeezecenter_connection() *)
Ask ==
    /\ Begin
    /\ step' = At("connect", 0)
    /\ UNCHANGED <<bus, environment, prefs, connection, table, last, failed>>

FindsConnection ==
    /\ step.kind = "connect" /\ sock # NoSocket
    /\ step' = At("check", 0)
    /\ UNCHANGED <<bus, phase, answer, environment, prefs, connection, table,
                   last, failed>>

(* Only the greeting is to be made again *)
ClearConnection_KeepCount == version' = FALSE /\ players' = players

(* squeezecenter_connect() has done these before it can fail *)
ClearConnection == version' = FALSE /\ players' = 0

(* The list is taken to go on *)
LastAfter_Always(k) == k

(* Only the end of the list moves the place *)
LastAfter_Stays(k) == IF k = Len(servers) THEN 0 ELSE last

(* *last: the next poll goes on behind this place *)
LastAfter(k) == IF k = Len(servers) THEN 0 ELSE k

(* An entry behind the last one tried gets a socket, which connect() may   *)
(* already have failed for, and those between got none.                    *)
Opens(k) ==
    /\ step.kind = "connect" /\ sock = NoSocket
    /\ k \in DOMAIN servers /\ k > last
    /\ ClearConnection
    /\ \E state \in {"pending", "broken"} :
          sock' = [to |-> servers[k], state |-> state]
    /\ sent' = <<>> /\ inbox' = <<>>
    /\ last' = LastAfter(k)
    /\ step' = At("check", 0)
    /\ failed' = FALSE
    /\ UNCHANGED <<bus, phase, answer, environment, prefs, playersArray, fetched>>

(* No host was found, or the list has become too short for last *)
OpensNone ==
    /\ step.kind = "connect" /\ sock = NoSocket
    /\ Fail
    /\ IF last < Len(servers) THEN ClearConnection ELSE UNCHANGED <<version, players>>
    /\ last' = 0
    /\ step' = Idle
    /\ UNCHANGED <<bus, environment, prefs, sock, sent, inbox, playersArray,
                   fetched, failed>>

(* squeezecenter_connected(), for which the error of a connect() that      *)
(* failed at once is none                                                  *)
Start == At(IF version THEN "count" ELSE "login", 0)

Check ==
    /\ step.kind = "check"
    /\ \/ sock.state = "pending" /\ Fail /\ step' = Idle
          /\ UNCHANGED <<sock, sent, inbox>>
       \/ sock.state = "broken" /\ Fail /\ step' = Idle /\ Disconnect
       \/ sock.state # "pending" /\ step' = Start
          /\ UNCHANGED <<phase, answer, sock, sent, inbox>>
    /\ UNCHANGED <<bus, environment, prefs, version, table, last, failed>>

-----------------------------------------------------------------------------
InArray == step.kind = "status" => step.i \in DOMAIN playersArray

(* squeezecenter_command() sends the command, with an id from wherever, *)
Ids == IF step.kind # "status" THEN {Nothing}
       ELSE IF InArray THEN {playersArray[step.i].id} ELSE Someone
Commands == {[kind |-> step.kind, i |-> step.i, of |-> id] : id \in Ids}

(* Without any array the program ends before it sends, see Overrun.        *)
MaySend ==
    /\ step.kind \in Kind /\ ~step.waits
    /\ InArray \/ playersArray # <<>>

Send ==
    /\ MaySend
    /\ sock.state = "open"
    /\ \E c \in Commands :
          sent' = IF sock.to \in up THEN Append(sent, c) ELSE sent
    /\ step' = [step EXCEPT !.waits = TRUE]
    /\ UNCHANGED <<bus, phase, answer, environment, prefs, sock, inbox,
                   version, table, last, failed>>

(* Memory that is not the array's may not be there to be read: the program *)
(* ends, and what it had is gone.                                          *)
Overrun ==
    /\ step.kind = "status" /\ ~step.waits /\ ~InArray
    /\ step' = At("lost", 0)
    /\ Disconnect /\ version' = FALSE
    /\ players' = 0 /\ playersArray' = <<>> /\ fetched' = <<>>
    /\ last' = 0
    /\ UNCHANGED <<bus, phase, answer, environment, prefs, failed>>

(* What follows a failed command: a connection that fails early is closed; *)
(* an array not fetched is not missed, nor is a status.                    *)
NextStatus(i) == IF i < players THEN At("status", i + 1) ELSE At("select", 0)

GivesUpPoll == Disconnect /\ Fail /\ step' = Idle /\ UNCHANGED failed

CommandFails ==
    /\ IF step.kind \in {"login", "version", "count"}
       THEN GivesUpPoll
       ELSE /\ failed' = TRUE
            /\ step' = IF step.kind = "status" THEN NextStatus(step.i)
                                               ELSE At("status", 1)
            /\ UNCHANGED <<phase, answer, sock, sent, inbox>>
    /\ fetched' = <<>>
    /\ UNCHANGED <<bus, environment, prefs, version, players, playersArray,
                   last>>

CannotSend ==
    /\ MaySend
    /\ sock.state = "broken"
    /\ CommandFails

(* and waits for a line *)
TimesOut ==
    /\ step.waits /\ inbox = <<>> /\ sock.state = "open"
    /\ Len(sent) <= MaxLate
    /\ CommandFails

IsCutOff ==
    /\ step.waits /\ inbox = <<>> /\ sock.state = "broken"
    /\ CommandFails

-----------------------------------------------------------------------------
(* recv() returns all that has come by then, one line or several; most     *)
(* callers look at the beginning of it.                                    *)
Receives(k, lines) ==
    /\ step.waits /\ step.kind = k
    /\ lines \in 1 .. Len(inbox)
    /\ inbox' = SubSeq(inbox, lines + 1, Len(inbox))

(* squeezecenter_do_login() *)
LoginReply(n) ==
    /\ step.waits /\ step.kind = "login"
    /\ n \in 1 .. Len(inbox)
    /\ IF \E j \in 1 .. n : inbox[j].kind = "login"
       THEN /\ Receives("login", n)
            /\ step' = At("version", 0)
            /\ UNCHANGED <<phase, answer, sock, sent, failed>>
       ELSE GivesUpPoll
    /\ UNCHANGED <<bus, environment, prefs, version, table, last>>

(* squeezecenter_get_version() *)
VersionReply(n) ==
    /\ Receives("version", n)
    /\ version' = TRUE
    /\ step' = At("count", 0)
    /\ UNCHANGED <<bus, phase, answer, environment, prefs, sock, sent, table,
                   last, failed>>

(* squeezecenter_get_player_count(); another line may have any number at   *)
(* that place, or none.                                                    *)
Counts == Misread \cup UNION {{Len(D) : D \in Hosts[s]} : s \in Server}

CountReply(n, count) ==
    /\ Receives("count", n)
    /\ IF inbox[1].kind = "count" THEN count = inbox[1].n ELSE count \in Counts
    /\ players' = count
    /\ IF count <= 0 THEN Fail /\ step' = Idle
       ELSE /\ UNCHANGED <<phase, answer>>
            /\ step' = At(IF playersArray = <<>> \/ count # players
                          THEN "id" ELSE "status", 1)
    /\ fetched' = <<>>
    /\ UNCHANGED <<bus, environment, prefs, sock, sent, version, playersArray,
                   last, failed>>

CountUnreadable(n) ==
    /\ step.waits /\ step.kind = "count"
    /\ n \in 1 .. Len(inbox)
    /\ inbox[1].kind # "count"
    /\ GivesUpPoll
    /\ UNCHANGED <<bus, environment, prefs, version, table, last>>

(* squeezecenter_get_player_id() and squeezecenter_get_player_name() take  *)
(* all that came for the answer, which is no id or name if it is more than *)
(* one line.  (With such an id the status command would be two lines, too; *)
(* here it is one.)                                                        *)
Told(n) ==
    IF n = 1 /\ inbox[1].kind = step.kind THEN inbox[1].of ELSE Nothing

IdReply(n) ==
    /\ Receives("id", n)
    /\ fetched' = Append(fetched, NewRecord(Told(n)))
    /\ step' = At("name", step.i)
    /\ UNCHANGED <<bus, phase, answer, environment, prefs, sock, sent, version,
                   players, playersArray, last, failed>>

(* The new array replaces the old one when it is complete *)
NameReply(n) ==
    /\ Receives("name", n)
    /\ LET filled == [fetched EXCEPT ![step.i].name = Told(n)]
       IN  IF step.i < players
           THEN /\ fetched' = filled
                /\ step' = At("id", step.i + 1)
                /\ UNCHANGED playersArray
           ELSE /\ fetched' = <<>>
                /\ step' = At("status", 1)
                /\ playersArray' = filled
    /\ UNCHANGED <<bus, phase, answer, environment, prefs, sock, sent, version,
                   players, last, failed>>

(* squeezecenter_get_player_current_status() goes through the first line   *)
(* that is one of these, and gives up at what stands behind it.  A record  *)
(* that is not in the array is written to where it is thought to be.       *)
WithStatus(p, r) == [p EXCEPT !.name = r.of, !.from = r.of, !.show = r.show]

StatusReply(n) ==
    /\ Receives("status", n)
    /\ LET told == {j \in 1 .. n : inbox[j].kind = "status"}
       IN  playersArray' =
              IF told = {} \/ ~InArray THEN playersArray
              ELSE [playersArray EXCEPT ![step.i] = WithStatus(@, inbox[Min(told)])]
    /\ step' = NextStatus(step.i)
    /\ UNCHANGED <<bus, phase, answer, environment, prefs, sock, sent, version,
                   players, fetched, last, failed>>

(* squeezecenter_status_to_musictracker() *)
StatusOf(p) ==
    CASE p.show.mode = "play" /\ (p.show.power \/ p.show.remote) -> "NORMAL"
      [] p.show.mode = "pause" /\ (p.show.power \/ p.show.remote) -> "PAUSED"
      [] OTHER -> "OFF"
FieldsOf(p) ==
    [f \in Field |-> IF p.show.remote /\ f # "track" THEN Nothing ELSE p.from]

Select ==
    /\ step.kind = "select"
    /\ \E p \in Candidates : Return(TRUE, StatusOf(p), FieldsOf(p))
    /\ step' = Idle
    /\ UNCHANGED <<bus, environment, prefs, connection, table, last, failed>>

-----------------------------------------------------------------------------
Init ==
    /\ bus = TRUE                      \* no matter for this player
    /\ phase = "idle" /\ answer = Unanswered
    /\ up = Server
    /\ hosted \in {h \in [Server -> UNION {Hosts[s] : s \in Server}] :
                      \A s \in Server : h[s] \in Hosts[s]}
    /\ servers \in ServerLists /\ order \in PlayerOrders
    /\ sock = NoSocket /\ sent = <<>> /\ inbox = <<>> /\ version = FALSE
    /\ players = 0 /\ playersArray = <<>> /\ fetched = <<>>
    /\ last = 0
    /\ step = Idle
    /\ failed = FALSE

ReceiveLines ==
    \E n \in 1 .. Len(inbox) :
        \/ LoginReply(n) \/ VersionReply(n)
        \/ \E count \in Counts : CountReply(n, count)
        \/ CountUnreadable(n)
        \/ IdReply(n) \/ NameReply(n) \/ StatusReply(n)

Poll ==
    \/ Ask
    \/ FindsConnection
    \/ \E k \in DOMAIN servers : Opens(k)
    \/ OpensNone
    \/ Check
    \/ Send \/ Overrun \/ CannotSend \/ IsCutOff
    \/ ReceiveLines
    \/ Select

Next == Environment \/ Connects \/ ServerAnswers \/ Poll \/ TimesOut

(* Every variable stays in its type; last is a place in some list. *)
TypeOK ==
    /\ PollingTypeOK
    /\ up \subseteq Server
    /\ \A s \in Server : hosted[s] \in Hosts[s]
    /\ servers \in ServerLists /\ order \in PlayerOrders
    /\ sock \in Socket
    /\ Len(sent) + Len(inbox) \in Nat
    /\ version \in BOOLEAN
    /\ players \in Int
    /\ playersArray \in Seq(Record) /\ fetched \in Seq(Record)
    /\ last \in UNION {0 .. Len(l) - 1 : l \in ServerLists}
    /\ step \in Step
    /\ failed \in BOOLEAN

Spec == Init /\ [][Next]_vars

(* The main loop polls again and again, a connect() comes to an end, and   *)
(* so does every wait.                                                     *)
FairSpec ==
    /\ Spec
    /\ WF_vars(Poll)
    /\ WF_vars(TimesOut)
    /\ WF_vars(Connects)
    /\ WF_vars(ServerAnswers)
=============================================================================
