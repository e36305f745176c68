--------------------------- MODULE CachedPlayers ---------------------------
(***************************************************************************)
(* The four players of which the plugin keeps a copy between two polls,    *)
(* when the user has selected one of them: cb_timeout (musictracker.c)     *)
(* calls that one's track_func and no other.  Whatever its signals and     *)
(* failures do to the copy, a poll must end as PlayerSelection says that   *)
(* it can.                                                                 *)
(***************************************************************************)
EXTENDS Polling, Sequences, Naturals

CONSTANTS
    Cached,                                     \* those the user may select
    Service, NoGetStatus, Code, TracksOf,         \* see Mpris
    MaxSignals, MaxMessages, MaxPauses          \* bounds of the players

VARIABLES
    choice,                                     \* PREF_PLAYER
    service, signals, players, unchecked, current, found,
    vagalume, requested, inbox, initialized, running, cached, checking,
    quodLibet, pauses, connected, gState,
    window, swap, msnti, last

M == INSTANCE Mpris
V == INSTANCE Vagalume
Q == INSTANCE QuodLibet
C == INSTANCE MessengerCompatible

mprisVars == <<service, signals, players, unchecked, current, found>>
vagalumeVars ==
    <<vagalume, requested, inbox, initialized, running, cached, checking>>
quodLibetVars == <<quodLibet, pauses, connected, gState>>
messengerVars == <<window, swap, msnti, last>>
vars == <<bus, phase, answer, choice, mprisVars, vagalumeVars, quodLibetVars,
          messengerVars>>

ASSUME NoGetStatusAssumption == NoGetStatus \subseteq Service
ASSUME TracksOfAssumption == TracksOf \in [Service -> SUBSET Track]
ASSUME ServiceAssumption == Nobody \notin Service
ASSUME NobodyAssumption == Nobody \notin Cached \cup {"player"}
ASSUME CachedAssumption ==
    Cached \subseteq {"MPRIS", "Vagalume", "QuodLibet", "Messenger compatible"}

Init ==
    /\ bus \in BOOLEAN
    /\ phase = "idle"
    /\ answer = Unanswered
    /\ choice \in Cached
    /\ M!Init /\ V!Init /\ Q!Init /\ C!Init

(* Each player's step leaves the others' copies alone *)
MprisOnly ==
    /\ choice = "MPRIS"
    /\ UNCHANGED <<choice, vagalumeVars, quodLibetVars, messengerVars>>
VagalumeOnly ==
    /\ choice = "Vagalume"
    /\ UNCHANGED <<choice, mprisVars, quodLibetVars, messengerVars>>
QuodLibetOnly ==
    /\ choice = "QuodLibet"
    /\ UNCHANGED <<choice, mprisVars, vagalumeVars, messengerVars>>
MessengerOnly ==
    /\ choice = "Messenger compatible"
    /\ UNCHANGED <<choice, mprisVars, vagalumeVars, quodLibetVars>>

Next ==
    \/ MprisOnly /\ M!Next
    \/ VagalumeOnly /\ V!Next
    \/ QuodLibetOnly /\ Q!Next
    \/ MessengerOnly /\ C!Next

Spec == Init /\ [][Next]_vars

(* The timers and the connection are sources of one main loop, which       *)
(* serves each of them again and again; a blocking call ends.              *)
MprisFairness ==
    /\ SF_vars(MprisOnly /\ M!Poll)
    /\ SF_vars(MprisOnly /\ M!SignalArrives)
VagalumeFairness ==
    /\ SF_vars(VagalumeOnly /\ V!Poll)
    /\ SF_vars(VagalumeOnly /\ V!Dispatch)
    /\ SF_vars(VagalumeOnly /\ V!Timer)
    /\ WF_vars(VagalumeOnly /\ (V!Taken \/ V!TimedOut))
    /\ WF_vars(VagalumeOnly /\ V!Responds)

(* Each is needed only where its player may be selected *)
FairMpris == Spec /\ MprisFairness
FairCaches == Spec /\ VagalumeFairness
=============================================================================
