----------------------- MODULE SqueezeCenterProperties -----------------------
(* What the SqueezeCenter reader promises. *)
EXTENDS SqueezeCenter

-----------------------------------------------------------------------------
(* The players that some server may have *)
PlayersOf(s) == UNION {{D[k] : k \in DOMAIN D} : D \in Hosts[s]}

(* Polling the array, or having announced one of its players *)
UsesArray ==
    \/ step.kind \in {"status", "select", "lost"}
    \/ phase = "done" /\ answer.b /\ sock # NoSocket

(* Until a command fails and the connection is kept, the array that is     *)
(* used is one of this connection's server: it has as many records as      *)
(* players were counted, and each holds the status of its own player.      *)
(* Replies must be for the commands that take them, and nothing of the     *)
(* server before may be left.                                              *)
ArrayIsOurs ==
    UsesArray /\ ~failed =>
        /\ step.kind # "lost"
        /\ Len(playersArray) = players
        /\ \A i \in 1 .. players :
              LET p == playersArray[i]
              IN  /\ p.id \in PlayersOf(sock.to) \cup {Nothing}
                  /\ p.from \in {p.id, Nothing}

-----------------------------------------------------------------------------
ASSUME NobodyAssumption == Nobody \notin {"player", "SqueezeCenter"}

(* The outcome of a poll as PlayerSelection sees it *)
PollsAnswer ==
    [status |-> answer.status,
     by |-> IF answer.by = Nobody THEN Nobody ELSE "SqueezeCenter",
     player |-> IF phase = "done" THEN "SqueezeCenter" ELSE Nobody,
     holds |-> [f \in Field |-> IF answer.fields[f] = Nothing
                                THEN Nobody ELSE "SqueezeCenter"]]

Selection == INSTANCE PlayerSelection WITH
    Order <- <<"SqueezeCenter", "Last.fm">>,
    Installed <- {}, library <- Nobody, steady <- Nobody, asked <- 0,
    choice <- "SqueezeCenter", b <- answer.b, ti <- PollsAnswer

(* However connecting, the commands and their replies go, a poll does to   *)
(* the TrackInfo what PlayerSelection lets it do.                          *)
ImplementsSelection == Selection!Spec

-----------------------------------------------------------------------------
Succeeds(s) ==
    sock' # NoSocket => sock'.to = s /\ (s \in up => sock'.state = "pending")

(* From some time on s runs, has players, and is slow or loses connections *)
(* no more, and the other servers of the list are down; hosts are found    *)
(* and can be reached; and the user is content.                            *)
OnlyServer(s) ==
    /\ <>[](s \in up /\ hosted[s] # <<>> /\ up = {s})
    /\ <>[][~Environment]_vars
    /\ <>[][~(TimesOut /\ sock.to = s)]_vars
    /\ <>[][sock = NoSocket /\ last < Len(servers) =>
                ~OpensNone /\ Succeeds(servers[last + 1])]_vars
    /\ <>[](\E k \in DOMAIN servers : servers[k] = s)

(* Then s comes to be connected to, whatever its place in the list and the *)
(* server that was connected to before, and polls come to be answered --   *)
(* unless a reply that was late has put all others out of step, or a poll  *)
(* that left the array has ended the program.                              *)
ServerIsReached ==
    \A s \in Server :
        OnlyServer(s) =>
            <>[](\/ step.kind = "lost"
                 \/ /\ PeerIs(s)
                    /\ phase = "done" => answer.b \/ failed)
=============================================================================
