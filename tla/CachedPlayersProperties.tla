---------------------- MODULE CachedPlayersProperties ----------------------
(* What the copies kept of players promise. *)
EXTENDS CachedPlayers

(* Every variable stays in its type. *)
TypeOK ==
    /\ PollingTypeOK
    /\ choice \in Cached
    /\ M!TypeOK /\ V!TypeOK /\ Q!TypeOK /\ C!TypeOK

(* However signals and the answers to polls overtake each other, once an   *)
(* MPRIS service has told us of a change of status, the table agrees with  *)
(* it as soon as what waits on the connection has been handled.            *)
StatusIsHeard == M!StatusIsHeard

(* The same of Quod Libet's g_state, for which there are only signals.     *)
PauseIsHeard == Q!PauseIsHeard

(* What the Messenger window has to announce is the track of the last      *)
(* message, which was in a known form and said that the player plays, and  *)
(* nothing of the messages before it.                                      *)
OnlyLastMessage == C!OnlyLastMessage

-----------------------------------------------------------------------------
(* The outcome of a poll as PlayerSelection sees it: a field that is not   *)
(* empty holds data of the player.                                         *)
PollsAnswer ==
    [status |-> answer.status,
     by |-> IF answer.by = Nobody THEN Nobody ELSE choice,
     player |-> IF phase = "done" THEN choice ELSE Nobody,
     holds |-> [f \in Field |-> IF answer.fields[f] = Nothing THEN Nobody
                                                              ELSE choice]]

Selection == INSTANCE PlayerSelection WITH
    Order <- <<"MPRIS", "Vagalume", "QuodLibet", "Messenger compatible",
               "Last.fm">>,
    Installed <- {}, library <- Nobody, steady <- Nobody, asked <- 0,
    b <- answer.b, ti <- PollsAnswer

(* The detailed players do what PlayerSelection lets their track_func do:  *)
(* a poll starts from an empty TrackInfo and ends in one of the outcomes   *)
(* stated there, and nothing else happens between polls that they can see. *)
ImplementsSelection == Selection!Spec

-----------------------------------------------------------------------------
(* The players and the bus come to rest, and calls are answered in time *)
MprisRests == <>[][M!PollAnswered \/ M!SignalArrives]_vars

(* Then the MPRIS poll comes to announce a service that is on the bus, its *)
(* status and its track, or nothing because none plays; what services that *)
(* have gone left in the table, or late signals, is overcome.              *)
MprisConverges ==
    MprisRests /\ bus => <>[](choice = "MPRIS" /\ phase = "done" => M!AnswerIsRight)

VagalumeRests == <>[][~V!Environment]_vars
AnswersInTime == <>[][~V!TimedOut]_vars

(* A Vagalume that keeps its state, and answers a request within the time  *)
(* that is waited for it, comes to be announced with its track, although   *)
(* a check may take another message for its answer.                        *)
VagalumeConverges ==
    VagalumeRests /\ AnswersInTime /\ bus =>
        <>[](choice = "Vagalume" /\ phase = "done" /\ vagalume.on =>
                /\ answer.b
                /\ answer.fields = vagalume.plays
                /\ answer.status = "NORMAL" <=> vagalume.plays # NoFields)

(* vagalume.c:258 explains the timer by this: if Vagalume is killed, the   *)
(* plugin comes to know, answers or none.                                  *)
KillIsNoticed ==
    VagalumeRests =>
        <>[](choice = "Vagalume" /\ phase = "done" /\ ~vagalume.on => ~answer.b)
=============================================================================
