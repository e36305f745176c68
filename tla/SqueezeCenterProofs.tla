------------------------- MODULE SqueezeCenterProofs -------------------------
(***************************************************************************)
(* For any servers, players, preferences and bounds, and however           *)
(* connections and commands fail: SqueezeCenter keeps its types, its array *)
(* stays that of the server it is connected to, and it implements          *)
(* PlayerSelection.                                                        *)
(***************************************************************************)
EXTENDS SqueezeCenterProperties, InductionLemmas

Us == "SqueezeCenter"

(* What the track_func is given, and what it makes of it.                  *)
Asked == [status |-> "OFF", by |-> Nobody, player |-> Us,
          holds |-> [f \in Field |-> Nobody]]
Answered(s, F) ==
    [status |-> s, by |-> Us, player |-> Us,
     holds |-> [f \in Field |-> IF F[f] = Nothing THEN Nobody ELSE Us]]

LEMMA SameSelection ==
    Selection!Field = Field /\ Selection!Active = Active
  BY DEF Selection!Field, Field, Selection!Active, Active

-----------------------------------------------------------------------------
(* The steps that PlayerSelection sees                                     *)

Kinds == Kind \cup {"none", "connect", "check", "select", "lost"}

(* Only commands wait for a reply.                                         *)
Place == {s \in Step : s.waits => s.kind \in Kind}

(* A poll that is under way has touched nothing yet.                       *)
AskedInv ==
    /\ step \in Place
    /\ step.kind # "none" => phase = "asking"
    /\ phase = "asking" => answer = Unanswered

Begins == Begin /\ bus' = bus /\ step' \in Place
Fails == phase = "asking" /\ Fail /\ step' = Idle /\ bus' = bus
Returns ==
    /\ phase = "asking" /\ step.kind = "select"
    /\ step' = Idle /\ bus' = bus
    /\ \E p \in Candidates : Return(TRUE, StatusOf(p), FieldsOf(p))
GoesOn ==
    /\ phase = "asking" /\ step' \in Place
    /\ UNCHANGED <<bus, phase, answer>>
Hides == UNCHANGED <<bus, phase, answer, step>>

LEMMA AtStep ==
  ASSUME NEW k \in Kinds, NEW i \in Nat
  PROVE  At(k, i) \in Place
  BY DEF At, Step, Place, Kinds

LEMMA IdleStep == Idle \in Place /\ Idle.kind = "none"
  <1>1. "none" \in Kinds /\ 0 \in Nat
    BY DEF Kinds
  <1>2. Idle \in Place
    BY <1>1, AtStep DEF Idle
  <1> QED
    BY <1>2 DEF Idle, At

LEMMA StepSteps ==
  ASSUME step \in Place
  PROVE  /\ Start \in Place
         /\ step.kind \in Kind => [step EXCEPT !.waits = TRUE] \in Place
         /\ step.i \in Nat
         /\ At("name", step.i) \in Place
         /\ At("id", step.i + 1) \in Place
         /\ NextStatus(step.i) \in Place
  <1>1. step.i \in Nat /\ step.i + 1 \in Nat
    BY DEF Step, Place
  <1>2. step.kind \in Kind => [step EXCEPT !.waits = TRUE] \in Place
    BY DEF Step, Place
  <1>3. {"name", "id", "status", "select", "count", "login"} \subseteq Kinds
    BY DEF Kinds, Kind
  <1>4. Start \in Place
    BY <1>3, AtStep DEF Start
  <1>5. NextStatus(step.i) \in Place
    <2>1. At("status", step.i + 1) \in Place /\ At("select", 0) \in Place
      BY <1>1, <1>3, AtStep
    <2> QED
      BY <2>1 DEF NextStatus
  <1> QED
    BY <1>1, <1>2, <1>3, <1>4, <1>5, AtStep

LEMMA FixedSteps ==
    /\ \A k \in Kinds : At(k, 0) \in Place
    /\ At("id", 1) \in Place /\ At("status", 1) \in Place
    /\ \A k \in {"connect", "check", "lost", "version", "count"} : At(k, 0) \in Place
  <1>1. {"id", "status", "connect", "check", "lost", "version", "count"} \subseteq Kinds
    BY DEF Kinds, Kind
  <1> QED
    BY <1>1, AtStep

(* A command that fails ends the poll or is passed over.                   *)
LEMMA FailedCommand ==
  ASSUME AskedInv, step.kind # "none", CommandFails
  PROVE  Fails \/ GoesOn
  <1>1. CASE step.kind \in {"login", "version", "count"}
    BY <1>1 DEF CommandFails, GivesUpPoll, AskedInv, Fails
  <1>2. CASE step.kind \notin {"login", "version", "count"}
    <2>1. /\ UNCHANGED <<bus, phase, answer>>
          /\ step' = NextStatus(step.i) \/ step' = At("status", 1)
      BY <1>2 DEF CommandFails
    <2> QED
      BY <2>1, StepSteps, FixedSteps DEF AskedInv, GoesOn
  <1> QED
    BY <1>1, <1>2

LEMMA RepliesStep ==
  ASSUME AskedInv, step.kind # "none", ReceiveLines
  PROVE  Fails \/ GoesOn
  <1> USE DEF AskedInv
  <1>1. ASSUME NEW n \in 1 .. Len(inbox), LoginReply(n)
        PROVE  Fails \/ GoesOn
    BY <1>1, FixedSteps DEF LoginReply, GivesUpPoll, Fails, GoesOn
  <1>2. ASSUME NEW n \in 1 .. Len(inbox), VersionReply(n)
        PROVE  GoesOn
    BY <1>2, FixedSteps DEF VersionReply, GoesOn
  <1>3. ASSUME NEW n \in 1 .. Len(inbox), NEW c \in Counts, CountReply(n, c)
        PROVE  Fails \/ GoesOn
    BY <1>3, FixedSteps DEF CountReply, Fails, GoesOn
  <1>4. ASSUME NEW n \in 1 .. Len(inbox), CountUnreadable(n)
        PROVE  Fails
    BY <1>4 DEF CountUnreadable, GivesUpPoll, Fails
  <1>5. ASSUME NEW n \in 1 .. Len(inbox), IdReply(n)
        PROVE  GoesOn
    BY <1>5, StepSteps DEF IdReply, GoesOn
  <1>6. ASSUME NEW n \in 1 .. Len(inbox), NameReply(n)
        PROVE  GoesOn
    BY <1>6, StepSteps, FixedSteps DEF NameReply, GoesOn
  <1>7. ASSUME NEW n \in 1 .. Len(inbox), StatusReply(n)
        PROVE  GoesOn
    BY <1>7, StepSteps DEF StatusReply, GoesOn
  <1> QED
    BY <1>1, <1>2, <1>3, <1>4, <1>5, <1>6, <1>7 DEF ReceiveLines

LEMMA StepKinds ==
  ASSUME AskedInv, Next
  PROVE  Begins \/ Fails \/ Returns \/ GoesOn \/ Hides
  <1> USE DEF AskedInv
  <1>1. CASE Environment \/ Connects \/ ServerAnswers
    BY <1>1 DEF Environment, GoesDown, ComesUp, PlayersComeAndGo, ServersChanged,
       OrderChanged, Connects, ServerAnswers, Hides
  <1>2. CASE Ask
    BY <1>2, FixedSteps DEF Ask, Begins
  <1>3. CASE FindsConnection
    BY <1>3, FixedSteps DEF FindsConnection, GoesOn
  <1>4. ASSUME NEW k \in DOMAIN servers, Opens(k)
        PROVE  GoesOn
    BY <1>4, FixedSteps DEF Opens, GoesOn
  <1>5. CASE OpensNone
    BY <1>5 DEF OpensNone, Fails
  <1>6. CASE Check
    BY <1>6, StepSteps DEF Check, Fails, GoesOn
  <1>7. CASE Send
    BY <1>7, StepSteps DEF Send, MaySend, GoesOn, Kind
  <1>8. CASE Overrun
    BY <1>8, FixedSteps DEF Overrun, GoesOn
  <1>9. CASE CannotSend
    BY <1>9, FailedCommand DEF CannotSend, MaySend, Kind
  <1>10. CASE TimesOut \/ IsCutOff
    BY <1>10, FailedCommand DEF TimesOut, IsCutOff, Place, Kind
  <1>11. CASE ReceiveLines
    <2>1. step.waits
      BY <1>11 DEF ReceiveLines, LoginReply, VersionReply, CountReply,
         CountUnreadable, IdReply, NameReply, StatusReply, Receives
    <2> QED
      BY <1>11, <2>1, RepliesStep DEF Place, Kind
  <1>12. CASE Select
    BY <1>12 DEF Select, Returns
  <1> QED
    BY <1>1, <1>2, <1>3, <1>4, <1>5, <1>6, <1>7, <1>8, <1>9, <1>10, <1>11,
       <1>12 DEF Next, Poll
LEMMA AskedInvariance == Spec => []AskedInv
  <1>1. Init => AskedInv
    BY IdleStep DEF Init, AskedInv
  <1>2. AskedInv /\ [Next]_vars => AskedInv'
    <2> SUFFICES ASSUME AskedInv, [Next]_vars
                 PROVE  AskedInv'
      OBVIOUS
    <2>1. CASE Begins
      BY <2>1 DEF Begins, Begin, AskedInv
    <2>2. CASE Fails \/ Returns
      BY <2>2, IdleStep DEF Fails, Returns, Fail, Return, AskedInv
    <2>3. CASE GoesOn \/ Hides
      BY <2>3 DEF GoesOn, Hides, AskedInv
    <2>4. CASE UNCHANGED vars
      BY <2>4 DEF vars, AskedInv
    <2> QED
      BY <2>1, <2>2, <2>3, <2>4, StepKinds
  <1> QED
    BY <1>1, <1>2, PTL DEF Spec

-----------------------------------------------------------------------------
(* Types                                                                   *)

Line == [kind : {"login", "version", "echo"}]
          \cup [kind : {"count"}, n : Nat]
          \cup [kind : {"id", "name"}, of : Someone]
          \cup [kind : {"status"}, of : Device, show : Shown]
Request == [kind : Kind, i : Nat, of : Someone]

PrefsOK ==
    /\ servers \in ServerLists /\ order \in PlayerOrders
    /\ last \in UNION {0 .. Len(l) - 1 : l \in ServerLists}
HostsOK ==
    /\ up \subseteq Server
    /\ hosted \in [Server -> Seq(Device)]
    /\ \A s \in Server : hosted[s] \in Hosts[s]
LinesOK ==
    /\ sock \in Socket /\ version \in BOOLEAN /\ failed \in BOOLEAN
    /\ sent \in Seq(Request) /\ inbox \in Seq(Line)
TableOK ==
    /\ players \in Int
    /\ playersArray \in Seq(Record) /\ fetched \in Seq(Record)

(* A walk over the array has players to count.                             *)
WalkInv ==
    /\ step.kind \in {"id", "name", "status", "select"} => players > 0
    /\ step.kind = "status" => step.i \in 1 .. players
    /\ phase = "done" /\ answer.b => players > 0

TypeInv ==
    /\ PollingTypeOK /\ AskedInv /\ PrefsOK /\ HostsOK /\ LinesOK /\ TableOK
    /\ WalkInv

LEMMA TypeInvIsType == TypeInv => TypeOK
  <1> SUFFICES ASSUME TypeInv
               PROVE  TypeOK
    OBVIOUS
  <1>1. Len(sent) \in Nat /\ Len(inbox) \in Nat
    BY LenProperties DEF TypeInv, LinesOK
  <1> QED
    BY <1>1 DEF TypeInv, TypeOK, AskedInv, Place, PrefsOK, HostsOK, LinesOK,
       TableOK

LEMMA HostsKept ==
  ASSUME HostsOK, [Next]_vars
  PROVE  HostsOK'
  <1>1. ASSUME NEW s \in Server, NEW D \in Hosts[s], PlayersComeAndGo(s, D)
        PROVE  HostsOK'
    <2>1. D \in Seq(Device)
      BY HostsAssumption
    <2> QED
      BY <1>1, <2>1 DEF PlayersComeAndGo, HostsOK
  <1>2. CASE \E s \in Server : GoesDown(s) \/ ComesUp(s)
    BY <1>2 DEF GoesDown, ComesUp, HostsOK
  <1>3. CASE UNCHANGED environment
    BY <1>3 DEF environment, HostsOK
  <1> QED
    BY <1>1, <1>2, <1>3
      DEF Next, TimesOut, Environment, GoesDown, ComesUp,
          PlayersComeAndGo, ServersChanged, OrderChanged, Connects,
          ServerAnswers, Poll, Ask, Begin, FindsConnection, Opens,
          OpensNone, Check, Send, Overrun, CannotSend, IsCutOff,
          CommandFails, Select, ReceiveLines, LoginReply, VersionReply,
          CountReply, CountUnreadable, IdReply, NameReply, StatusReply,
          Receives, vars

LEMMA PrefsKept ==
  ASSUME PrefsOK, [Next]_vars
  PROVE  PrefsOK'
  <1> USE DEF PrefsOK
  <1>0. /\ servers \in Seq(Server) /\ servers # <<>>
        /\ Len(servers) \in Nat \ {0} /\ DOMAIN servers = 1 .. Len(servers)
        /\ last \in Nat
    <2>1. servers \in Seq(Server) /\ servers # <<>>
      BY ServerListsAssumption
    <2>2. \A l \in ServerLists : Len(l) \in Nat
      BY ServerListsAssumption, LenProperties
    <2> QED
      BY <2>1, <2>2, LenProperties, EmptySeq
  <1>1. ASSUME NEW k \in DOMAIN servers, Opens(k)
        PROVE  PrefsOK'
    <2>1. last' \in 0 .. Len(servers) - 1
      BY <1>0, <1>1 DEF Opens, LastAfter
    <2> QED
      BY <1>1, <2>1 DEF Opens, prefs
  <1>2. CASE OpensNone \/ Overrun
    <2>1. last' \in 0 .. Len(servers) - 1
      BY <1>0, <1>2 DEF OpensNone, Overrun
    <2> QED
      BY <1>2, <2>1 DEF OpensNone, Overrun, prefs
  <1>3. CASE \/ \E l \in ServerLists : ServersChanged(l)
             \/ \E o \in PlayerOrders : OrderChanged(o)
    BY <1>3 DEF ServersChanged, OrderChanged
  <1>4. CASE UNCHANGED <<prefs, last>>
    BY <1>4 DEF prefs
  <1> QED
    BY <1>1, <1>2, <1>3, <1>4
      DEF Next, TimesOut, Environment, GoesDown, ComesUp,
          PlayersComeAndGo, ServersChanged, OrderChanged, Connects,
          ServerAnswers, Poll, Ask, Begin, FindsConnection, Opens,
          OpensNone, Check, Send, Overrun, CannotSend, IsCutOff,
          CommandFails, Select, ReceiveLines, LoginReply, VersionReply,
          CountReply, CountUnreadable, IdReply, NameReply, StatusReply,
          Receives, vars, prefs

LEMMA SocketTypes ==
  ASSUME sock \in Socket, sock # NoSocket
  PROVE  /\ sock.to \in Server /\ sock.state \in {"pending", "open", "broken"}
         /\ \A t \in {"pending", "open", "broken"} :
                [sock EXCEPT !.state = t] \in Socket
  BY DEF Socket

LEMMA ReplyTypes ==
  ASSUME HostsOK, sock.to \in Server, NEW c \in Request
  PROVE  Reply(c) \subseteq Line
  <1> DEFINE D == hosted[sock.to]
  <1>1. /\ D \in Seq(Device) /\ Len(D) \in Nat
        /\ \A i \in DOMAIN D : D[i] \in Device
    BY LenProperties, ElementOfSeq DEF HostsOK
  <1>2. (IF c.i \in DOMAIN D THEN D[c.i] ELSE Nothing) \in Someone
    BY <1>1 DEF Someone
  <1>3. CASE c.kind \in {"login", "version"}
    BY <1>3 DEF Reply, Line
  <1>4. CASE c.kind = "count"
    BY <1>1, <1>4 DEF Reply, Line
  <1>5. CASE c.kind \in {"id", "name"}
    BY <1>2, <1>5 DEF Reply, Line
  <1>6. CASE c.kind = "status"
    BY <1>6 DEF Reply, Line
  <1> QED
    BY <1>3, <1>4, <1>5, <1>6 DEF Request, Kind

LEMMA ReceivedTypes ==
  ASSUME LinesOK, NEW k, NEW n, Receives(k, n)
  PROVE  /\ inbox' \in Seq(Line)
         /\ \A j \in 1 .. Len(inbox) : inbox[j] \in Line
         /\ n \in 1 .. Len(inbox) /\ Len(inbox) \in Nat \ {0}
  <1>1. inbox \in Seq(Line) /\ Len(inbox) \in Nat
    BY LenProperties DEF LinesOK
  <1>2. \A j \in 1 .. Len(inbox) : inbox[j] \in Line
    BY <1>1, ElementOfSeq
  <1>3. n \in 1 .. Len(inbox) /\ Len(inbox) \in Nat \ {0}
    BY <1>1 DEF Receives
  <1>4. SubSeq(inbox, n + 1, Len(inbox)) \in Seq(Line)
    <2>1. \A j \in (n + 1) .. Len(inbox) : inbox[j] \in Line
      BY <1>2, <1>3
    <2>2. n + 1 \in Int /\ Len(inbox) \in Int
      BY <1>3
    <2> QED
      BY <2>1, <2>2, SubSeqProperties, Zenon
  <1> QED
    BY <1>2, <1>3, <1>4 DEF Receives

LEMMA DisconnectTypes ==
  ASSUME Disconnect
  PROVE  sock' \in Socket /\ sent' \in Seq(Request) /\ inbox' \in Seq(Line)
  BY EmptySeq DEF Disconnect, Socket

LEMMA LinesKept ==
  ASSUME LinesOK, HostsOK, TableOK, PrefsOK, step \in Step, [Next]_vars
  PROVE  LinesOK'
  <1> USE DEF LinesOK
  <1>0. /\ <<>> \in Seq(Request) /\ <<>> \in Seq(Line)
        /\ Broken \in Socket
        /\ \A s \in Server, t \in {"pending", "open", "broken"} :
               [to |-> s, state |-> t] \in Socket
    BY SocketTypes, EmptySeq DEF Broken, Socket
  <1>1. ASSUME NEW s \in Server, GoesDown(s) \/ ComesUp(s)
        PROVE  LinesOK'
    BY <1>0, <1>1 DEF GoesDown, ComesUp
  <1>2. CASE Connects
    BY <1>2, SocketTypes DEF Connects
  <1>3. CASE ServerAnswers
    <2>1. sock.to \in Server /\ sent # <<>> /\ sent \in Seq(Request)
      BY <1>3, SocketTypes DEF ServerAnswers
    <2>2. Head(sent) \in Request /\ Tail(sent) \in Seq(Request)
      BY <2>1, HeadTailProperties
    <2>3. Reply(Head(sent)) \subseteq Line
      BY <2>1, <2>2, ReplyTypes
    <2>4. inbox' \in Seq(Line)
      BY <1>3, <2>3 DEF ServerAnswers
    <2> QED
      BY <1>3, <2>2, <2>4 DEF ServerAnswers
  <1>4. ASSUME NEW l \in ServerLists, ServersChanged(l)
        PROVE  LinesOK'
    BY <1>4, DisconnectTypes DEF ServersChanged
  <1>5. ASSUME NEW k \in DOMAIN servers, Opens(k)
        PROVE  LinesOK'
    <2>1. servers[k] \in Server
      BY ServerListsAssumption, ElementOfSeq, LenProperties DEF PrefsOK
    <2>2. sock' \in Socket
      BY <1>0, <1>5, <2>1 DEF Opens
    <2> QED
      BY <1>0, <1>5, <2>2 DEF Opens, ClearConnection
  <1>6. CASE Check
    BY <1>6, DisconnectTypes DEF Check
  <1>7. CASE Send
    <2>1. Ids \subseteq Someone
      <3>1. ASSUME step.kind = "status", InArray
            PROVE  playersArray[step.i] \in Record
        BY <3>1, ElementOfSeq, LenProperties DEF InArray, TableOK
      <3> QED
        BY <3>1 DEF Record, Ids, Someone
    <2>2. Commands \subseteq Request
      BY <1>7, <2>1 DEF Commands, Request, Send, MaySend, Step
    <2> QED
      BY <1>7, <2>2 DEF Send
  <1>8. CASE CommandFails
    BY <1>8, DisconnectTypes DEF CommandFails, GivesUpPoll
  <1>9. ASSUME NEW n \in 1 .. Len(inbox), LoginReply(n)
        PROVE  LinesOK'
    BY <1>9, ReceivedTypes, DisconnectTypes DEF LoginReply, GivesUpPoll
  <1>10. ASSUME NEW n \in 1 .. Len(inbox), NEW count \in Counts,
                \/ VersionReply(n) \/ CountReply(n, count)
                \/ IdReply(n) \/ NameReply(n) \/ StatusReply(n)
         PROVE  LinesOK'
    BY <1>10, ReceivedTypes DEF VersionReply, CountReply, IdReply, NameReply,
       StatusReply
  <1>11. ASSUME NEW n \in 1 .. Len(inbox),
                \/ VersionReply(n)
                \/ IdReply(n) \/ NameReply(n) \/ StatusReply(n)
         PROVE  LinesOK'
    BY <1>11, ReceivedTypes DEF VersionReply, IdReply, NameReply, StatusReply
  <1>12. ASSUME NEW n \in 1 .. Len(inbox), CountUnreadable(n)
         PROVE  LinesOK'
    BY <1>12, DisconnectTypes DEF CountUnreadable, GivesUpPoll
  <1>13. CASE OpensNone
    BY <1>13 DEF OpensNone, ClearConnection
  <1>14. CASE UNCHANGED <<connection, failed>>
    BY <1>14 DEF connection
  <1>15. CASE Overrun
    BY <1>15, DisconnectTypes DEF Overrun
  <1> QED
    BY <1>1, <1>2, <1>3, <1>4, <1>5, <1>6, <1>7, <1>8, <1>9, <1>10, <1>11,
       <1>12, <1>13, <1>14, <1>15
       DEF Next, Environment, PlayersComeAndGo, OrderChanged, Poll, Ask,
           FindsConnection, CannotSend, IsCutOff, TimesOut,
           ReceiveLines, Select, vars, connection

LEMMA ToldTypes ==
  ASSUME LinesOK, step.kind \in {"id", "name"}, NEW n, Receives(step.kind, n)
  PROVE  Told(n) \in Someone
  <1>1. inbox[1] \in Line
    BY ReceivedTypes
  <1>2. inbox[1].kind = step.kind => inbox[1].of \in Someone
    BY <1>1 DEF Line
  <1>3. Told(n) = Nothing \/ (inbox[1].kind = step.kind /\ Told(n) = inbox[1].of)
    BY Zenon DEF Told
  <1> QED
    BY <1>2, <1>3 DEF Someone

LEMMA CountTypes == Counts \subseteq Int
  <1>1. ASSUME NEW s \in Server, NEW D \in Hosts[s]
        PROVE  Len(D) \in Int
    <2>1. D \in Seq(Device)
      BY HostsAssumption
    <2> QED
      BY <2>1, LenProperties
  <1>2. \A c \in Counts :
            c \in Misread \/ \E s \in Server : \E D \in Hosts[s] : c = Len(D)
    BY Zenon DEF Counts
  <1> QED
    BY <1>1, <1>2, MisreadAssumption

(* A status reply fills the record it was asked for, if it is one.         *)
LEMMA StatusTable ==
  ASSUME TableOK, LinesOK, NEW n, StatusReply(n)
  PROVE  /\ TableOK' /\ UNCHANGED <<players, fetched>>
         /\ Len(playersArray') = Len(playersArray)
         /\ \/ UNCHANGED playersArray
            \/ \E j \in 1 .. n :
                  /\ inbox[j].kind = "status"
                  /\ playersArray' = [playersArray EXCEPT ![step.i] =
                                         WithStatus(playersArray[step.i], inbox[j])]
  <1> USE DEF TableOK
  <1>0. /\ n \in Nat \ {0} /\ n <= Len(inbox) /\ Len(inbox) \in Nat
        /\ \A j \in 1 .. Len(inbox) : inbox[j] \in Line
        /\ UNCHANGED <<players, fetched>>
    BY ReceivedTypes DEF StatusReply
  <1> DEFINE told == {j \in 1 .. n : inbox[j].kind = "status"}
  <1>1. CASE told = {} \/ ~InArray
    BY <1>0, <1>1 DEF StatusReply
  <1>2. CASE told # {} /\ InArray
    <2>0. told \in SUBSET Nat
      BY <1>0
    <2>1. Min(told) \in told
      <3> HIDE DEF told
      <3> QED
        BY <1>2, <2>0, Least
    <2> DEFINE j == Min(told)
    <2>2. /\ j \in 1 .. n /\ inbox[j].kind = "status" /\ inbox[j] \in Line
          /\ playersArray' = [playersArray EXCEPT ![step.i] =
                                 WithStatus(playersArray[step.i], inbox[j])]
      BY <1>0, <1>2, <2>1 DEF StatusReply
    <2> HIDE DEF j
    <2>3. inbox[j].of \in Someone /\ inbox[j].show \in Show
      BY <2>2, ShownAssumption DEF Line, Someone
    <2>4. playersArray' \in Seq(Record) /\ Len(playersArray') = Len(playersArray)
      <3>1. CASE step.i \in 1 .. Len(playersArray)
        <4>1. playersArray[step.i] \in Record
          BY <3>1, ElementOfSeq
        <4>2. WithStatus(playersArray[step.i], inbox[j]) \in Record
          BY <2>3, <4>1 DEF Record, WithStatus
        <4> QED
          BY <2>2, <3>1, <4>2, ExceptSeq
      <3>2. CASE step.i \notin 1 .. Len(playersArray)
        <4>1. step.i \notin DOMAIN playersArray
          BY <3>2, LenProperties
        <4>2. playersArray' = playersArray
          BY <2>2, <4>1, LenProperties
        <4> QED
          BY <4>2
      <3> QED
        BY <3>1, <3>2
    <2> QED
      BY <1>0, <2>2, <2>4
  <1> QED
    BY <1>1, <1>2

LEMMA TableKept ==
  ASSUME TableOK, LinesOK, step \in Step, [Next]_vars
  PROVE  TableOK'
  <1> USE DEF TableOK
  <1>1. CASE OpensNone \/ \E k \in DOMAIN servers : Opens(k)
    <2>1. players' \in {0, players} /\ UNCHANGED <<playersArray, fetched>>
      BY <1>1 DEF OpensNone, Opens, ClearConnection
    <2> QED
      BY <2>1
  <1>7. CASE CommandFails
    <2>1. fetched' = <<>> /\ UNCHANGED <<players, playersArray>>
      BY <1>7 DEF CommandFails
    <2> QED
      BY <2>1, EmptySeq
  <1>2. ASSUME NEW n \in 1 .. Len(inbox), NEW count \in Counts,
               CountReply(n, count)
        PROVE  TableOK'
    BY <1>2, CountTypes, EmptySeq DEF CountReply
  <1>3. ASSUME NEW n \in 1 .. Len(inbox), IdReply(n)
        PROVE  TableOK'
    <2>1. Told(n) \in Someone
      BY <1>3, ToldTypes DEF IdReply, Receives
    <2>2. NewRecord(Told(n)) \in Record
      BY <2>1 DEF NewRecord, Record, Someone, Show, Blank
    <2> QED
      BY <1>3, <2>2 DEF IdReply
  <1>4. ASSUME NEW n \in 1 .. Len(inbox), NameReply(n)
        PROVE  TableOK'
    <2>1. Told(n) \in Someone
      BY <1>4, ToldTypes DEF NameReply, Receives
    <2> DEFINE filled == [fetched EXCEPT ![step.i].name = Told(n)]
    <2>2. filled \in Seq(Record)
      <3>1. CASE step.i \in 1 .. Len(fetched)
        <4>1. fetched[step.i] \in Record
          BY <3>1, ElementOfSeq
        <4>2. [fetched[step.i] EXCEPT !.name = Told(n)] \in Record
          BY <2>1, <4>1 DEF Record
        <4> QED
          BY <3>1, <4>2, ExceptSeq
      <3>2. CASE step.i \notin 1 .. Len(fetched)
        <4>1. step.i \notin DOMAIN fetched
          BY <3>2, LenProperties
        <4>2. filled = fetched
          BY <4>1, LenProperties
        <4> QED
          BY <4>2
      <3> QED
        BY <3>1, <3>2
    <2> HIDE DEF filled
    <2>3. UNCHANGED players /\ {playersArray', fetched'} \subseteq {playersArray, filled, <<>>}
      BY <1>4 DEF NameReply, filled
    <2> QED
      BY <2>2, <2>3, EmptySeq
  <1>5. ASSUME NEW n \in 1 .. Len(inbox), StatusReply(n)
        PROVE  TableOK'
    BY <1>5, StatusTable
  <1>6. CASE UNCHANGED table
    BY <1>6 DEF table
  <1>8. CASE Overrun
    BY <1>8, EmptySeq DEF Overrun
  <1> QED
    BY <1>1, <1>2, <1>3, <1>4, <1>5, <1>6, <1>7, <1>8
      DEF Next, TimesOut, Environment, GoesDown, ComesUp,
          PlayersComeAndGo, ServersChanged, OrderChanged, Connects,
          ServerAnswers, Poll, Ask, Begin, FindsConnection, Opens,
          OpensNone, Check, Send, Overrun, CannotSend, IsCutOff,
          Select, ReceiveLines, LoginReply, VersionReply,
          CountUnreadable, IdReply, NameReply, StatusReply,
          Receives, vars, table

LEMMA NextStatusWalks ==
  ASSUME TypeInv, step.kind = "status"
  PROVE  \/ NextStatus(step.i) = At("status", step.i + 1) /\ step.i + 1 \in 1 .. players
         \/ NextStatus(step.i) = At("select", 0)
  <1>1. step.i \in Nat /\ players \in Int
    BY DEF TypeInv, AskedInv, Place, Step, TableOK
  <1> QED
    BY <1>1 DEF NextStatus

LEMMA WalkKept ==
  ASSUME TypeInv, TableOK', [Next]_vars
  PROVE  WalkInv'
  <1> USE DEF WalkInv
  <1>0. /\ WalkInv /\ step \in Step /\ (step.waits => step.kind \in Kind)
        /\ players \in Int /\ players' \in Int /\ step.i \in Nat
    BY DEF TypeInv, AskedInv, Place, Step, TableOK
  <1> DEFINE Ends == step' = Idle /\ phase' = "done" /\ answer'.b = FALSE
             Goes(K) == phase' = phase /\ answer' = answer /\ step'.kind \in K
  <1>1. ASSUME Ends
        PROVE  WalkInv'
    BY <1>1 DEF Idle, At
  <1>2. CASE Environment \/ Connects \/ ServerAnswers
    BY <1>0, <1>2
      DEF Environment, GoesDown, ComesUp, PlayersComeAndGo,
          ServersChanged, OrderChanged, Connects, ServerAnswers, table
  <1>3. CASE Ask
    BY <1>3 DEF Ask, Begin, At
  <1>4. CASE FindsConnection
    BY <1>0, <1>4 DEF FindsConnection, At, table
  <1>5. ASSUME NEW k \in DOMAIN servers, Opens(k)
        PROVE  WalkInv'
    BY <1>5, StepKinds DEF Opens, At, TypeInv, AskedInv
  <1>6. CASE OpensNone
    BY <1>6, <1>1 DEF OpensNone, Fail
  <1>7. CASE Check
    <2>1. CASE step' = Start /\ UNCHANGED <<phase, answer>>
      BY <1>0, <1>7, <2>1 DEF Check, Start, At, table
    <2>2. CASE Fail /\ step' = Idle
      BY <2>2, <1>1 DEF Fail
    <2> QED
      BY <1>7, <2>1, <2>2 DEF Check
  <1>8. CASE Send
    <2>1. /\ step' = [step EXCEPT !.waits = TRUE]
          /\ UNCHANGED <<phase, answer, players>>
      BY <1>8 DEF Send, table
    <2>2. step'.kind = step.kind /\ step'.i = step.i
      BY <1>0, <2>1 DEF Step
    <2> QED
      BY <1>0, <2>1, <2>2
  <1>9. ASSUME CommandFails, step.kind \in Kind
        PROVE  WalkInv'
    <2>1. CASE step.kind \in {"login", "version", "count"}
      <3>1. GivesUpPoll
        BY <1>9, <2>1 DEF CommandFails
      <3> QED
        BY <1>1, <3>1 DEF GivesUpPoll, Fail
    <2>2. CASE step.kind \in {"id", "name"}
      <3>1. /\ step' = At("status", 1) /\ players > 0
            /\ UNCHANGED <<phase, answer, players>>
        BY <1>0, <1>9, <2>2 DEF CommandFails
      <3> QED
        BY <1>0, <3>1 DEF At
    <2>3. CASE step.kind = "status"
      <3>1. /\ step' = NextStatus(step.i)
            /\ UNCHANGED <<phase, answer, players>>
        BY <1>9, <2>3 DEF CommandFails
      <3> QED
        BY <1>0, <1>9, <2>3, <3>1, NextStatusWalks DEF At
    <2> QED
      BY <1>9, <2>1, <2>2, <2>3 DEF Kind
  <1>10. CASE CannotSend
    BY <1>9, <1>10 DEF CannotSend, MaySend
  <1>11. CASE TimesOut \/ IsCutOff
    BY <1>0, <1>9, <1>11 DEF TimesOut, IsCutOff
  <1>12. ASSUME NEW n \in 1 .. Len(inbox), LoginReply(n)
         PROVE  WalkInv'
    <2>1. CASE step' = At("version", 0) /\ UNCHANGED <<phase, answer>>
      BY <1>0, <1>12, <2>1 DEF LoginReply, At, table
    <2>2. CASE GivesUpPoll
      BY <1>1, <2>2 DEF GivesUpPoll, Fail
    <2> QED
      BY <1>12, <2>1, <2>2 DEF LoginReply
  <1>13. ASSUME NEW n \in 1 .. Len(inbox), VersionReply(n)
         PROVE  WalkInv'
    BY <1>0, <1>13 DEF VersionReply, At, table
  <1>14. ASSUME NEW n \in 1 .. Len(inbox), NEW count \in Counts,
                CountReply(n, count)
         PROVE  WalkInv'
    <2>1. CASE Fail /\ step' = Idle
      BY <1>1, <2>1 DEF Fail
    <2>2. CASE ~(count <= 0)
      <3>1. /\ step' \in {At("id", 1), At("status", 1)} /\ players' > 0
            /\ UNCHANGED <<phase, answer>>
        BY <1>0, <1>14, <2>2, CountTypes DEF CountReply
      <3>2. phase = "asking"
        BY <1>14 DEF CountReply, Receives, TypeInv, AskedInv
      <3> QED
        BY <1>0, <3>1, <3>2 DEF At
    <2> QED
      BY <1>14, <2>1, <2>2 DEF CountReply
  <1>15. ASSUME NEW n \in 1 .. Len(inbox), CountUnreadable(n)
         PROVE  WalkInv'
    BY <1>1, <1>15 DEF CountUnreadable, GivesUpPoll, Fail
  <1>16. ASSUME NEW n \in 1 .. Len(inbox), IdReply(n)
         PROVE  WalkInv'
    BY <1>0, <1>16 DEF IdReply, Receives, At
  <1>17. ASSUME NEW n \in 1 .. Len(inbox), NameReply(n)
         PROVE  WalkInv'
    <2>1. /\ step' \in {At("id", step.i + 1), At("status", 1)}
          /\ players > 0 /\ UNCHANGED <<phase, answer, players>>
      BY <1>0, <1>17 DEF NameReply, Receives
    <2> QED
      BY <1>0, <2>1 DEF At
  <1>18. ASSUME NEW n \in 1 .. Len(inbox), StatusReply(n)
         PROVE  WalkInv'
    <2>1. /\ step.kind = "status" /\ step.waits
          /\ step' = NextStatus(step.i) /\ UNCHANGED <<phase, answer>>
      BY <1>18 DEF StatusReply, Receives
    <2>2. UNCHANGED players
      BY <1>18 DEF StatusReply
    <2> QED
      BY <1>0, <2>1, <2>2, NextStatusWalks DEF At
  <1>19. CASE Select
    BY <1>0, <1>19 DEF Select, Return, Idle, At, table
  <1>21. CASE Overrun
    BY <1>0, <1>21 DEF Overrun, At, TypeInv, AskedInv
  <1>20. CASE UNCHANGED vars
    BY <1>0, <1>20 DEF vars, table
  <1> QED
    BY <1>2, <1>3, <1>4, <1>5, <1>6, <1>7, <1>8, <1>10, <1>11, <1>12, <1>13,
       <1>14, <1>15, <1>16, <1>17, <1>18, <1>19, <1>20, <1>21
       DEF Next, Poll, ReceiveLines

(* What is announced is a record, if it is one from behind the array.      *)
LEMMA CandidateTypes ==
  ASSUME TableOK
  PROVE  Candidates \subseteq Record
  <1>1. \A i \in DOMAIN playersArray : playersArray[i] \in Record
    BY ElementOfSeq, LenProperties DEF TableOK
  <1>2. Stray \subseteq Record
    BY DEF Stray, Record, Someone
  <1> QED
    BY <1>1, <1>2 DEF Candidates

LEMMA PollingKept ==
  ASSUME TypeInv, [Next]_vars
  PROVE  PollingTypeOK'
  <1> USE DEF PollingTypeOK
  <1>0. NoFields \in Fields /\ \A r \in BOOLEAN : [Unanswered EXCEPT !.b = r] \in Answer
    BY DEF NoFields, Fields, Unanswered, Answer, Status
  <1>1. CASE Begins
    BY <1>0, <1>1 DEF Begins, Begin, TypeInv, Unanswered, Answer, Status
  <1>2. CASE Fails
    BY <1>0, <1>2 DEF Fails, Fail, TypeInv
  <1>3. CASE Returns
    <2>1. PICK p \in Candidates : Return(TRUE, StatusOf(p), FieldsOf(p))
      BY <1>3 DEF Returns
    <2>2. p \in Record
      BY CandidateTypes DEF TypeInv
    <2>3. FieldsOf(p) \in Fields
      <3>1. p.from \in Text \cup {Nothing}
        BY <2>2, HostsAssumption DEF Record, Someone
      <3> QED
        BY <3>1 DEF FieldsOf, Fields
    <2>4. StatusOf(p) \in Status
      BY DEF StatusOf, Status, Active
    <2>5. answer' \in Answer
      BY <2>1, <2>3, <2>4 DEF Return, Answer
    <2> QED
      BY <1>3, <2>1, <2>5 DEF Returns, Return, TypeInv
  <1>4. CASE GoesOn \/ Hides \/ UNCHANGED vars
    BY <1>4 DEF GoesOn, Hides, vars, TypeInv
  <1> QED
    BY <1>1, <1>2, <1>3, <1>4, StepKinds DEF TypeInv

LEMMA TypeInvariance == Spec => []TypeInv
  <1>1. Init => TypeInv
    <2> SUFFICES ASSUME Init
                 PROVE  TypeInv
      OBVIOUS
    <2>1. AskedInv
      BY IdleStep DEF Init, AskedInv
    <2>2. PrefsOK
      <3>1. servers \in Seq(Server) /\ servers # <<>>
        BY ServerListsAssumption DEF Init
      <3>2. 0 \in 0 .. Len(servers) - 1
        BY <3>1, EmptySeq, LenProperties
      <3> QED
        BY <3>2 DEF Init, PrefsOK
    <2>3. HostsOK
      BY HostsAssumption DEF Init, HostsOK
    <2>4. LinesOK /\ TableOK
      <3>1. <<>> \in Seq(Request) /\ <<>> \in Seq(Line) /\ <<>> \in Seq(Record)
        BY EmptySeq
      <3>2. LinesOK
        BY <3>1 DEF Init, LinesOK, Socket
      <3>3. TableOK
        BY <3>1 DEF Init, TableOK
      <3> QED
        BY <3>2, <3>3
    <2>5. WalkInv
      BY DEF Init, WalkInv, Idle, At
    <2>6. PollingTypeOK
      BY DEF Init, PollingTypeOK, Unanswered, Answer, Status, NoFields, Fields
    <2> QED
      BY <2>1, <2>2, <2>3, <2>4, <2>5, <2>6 DEF TypeInv
  <1>2. TypeInv /\ AskedInv' /\ [Next]_vars => TypeInv'
    BY HostsKept, PrefsKept, LinesKept, TableKept, WalkKept, PollingKept
       DEF TypeInv, AskedInv, Place
  <1> QED
    BY <1>1, <1>2, AskedInvariance, PTL DEF Spec

(* Whatever replies come late, are of another command or never come, and   *)
(* whatever stands behind the array when a poll runs over its end, every   *)
(* variable keeps its type.                                                *)
THEOREM TypeCorrect == Spec => []TypeOK
  BY TypeInvariance, TypeInvIsType, PTL

-----------------------------------------------------------------------------
(* Replies in step, and the array that they fill                           *)

IsReplyTo(c, r, s) ==
    \/ c.kind = "status" /\ r.kind = "echo"
    \/ /\ r.kind = c.kind
       /\ r.kind \in {"id", "name"} => r.of \in PlayersOf(s) \cup {Nothing}
       /\ r.kind = "status" => r.of = c.of

(* The command of the step, for a player in the array *)
Command ==
    [kind |-> step.kind, i |-> step.i,
     of |-> IF step.kind = "status" THEN playersArray[step.i].id ELSE Nothing]

Silence == sent = <<>> /\ inbox = <<>>
IsAsked == step.waits /\ sent = <<Command>> /\ inbox = <<>>
IsAnswered ==
    /\ step.waits /\ sent = <<>>
    /\ \E r \in Line : inbox = <<r>> /\ IsReplyTo(Command, r, sock.to)

(* Until a command fails and the connection is kept, no more is on its way *)
(* than the command that is waited for, or its reply.                      *)
InStep ==
    /\ sock = NoSocket => Silence
    /\ step.kind \notin {"none", "connect", "lost"} => sock # NoSocket
    /\ ~failed => Silence \/ IsAsked \/ IsAnswered

Ours(A) ==
    \A i \in 1 .. Len(A) :
        /\ A[i].id \in PlayersOf(sock.to) \cup {Nothing}
        /\ A[i].from \in {A[i].id, Nothing}

(* A number that is positive was counted on this connection, and so was    *)
(* the array fetched, but while it is just being fetched.                  *)
Fetching ==
    /\ step.i \in 1 .. players
    /\ Len(fetched) = IF step.kind = "id" THEN step.i - 1 ELSE step.i
    /\ Ours(fetched)
Fetched == Len(playersArray) = players /\ Ours(playersArray)

ArrayInv ==
    ~failed =>
        /\ step.kind # "lost"
        /\ step.kind \in {"id", "name"} => Fetching
        /\ step.kind \notin {"id", "name"} /\ sock # NoSocket /\ players > 0
              => Fetched

OursInv == TypeInv /\ InStep /\ ArrayInv

LEMMA Quiet ==
  ASSUME InStep, ~failed, ~step.waits
  PROVE  Silence
  BY DEF InStep, IsAsked, IsAnswered

LEMMA ReplyFits ==
  ASSUME HostsOK, sock.to \in Server, NEW c \in Request, NEW r \in Reply(c)
  PROVE  IsReplyTo(c, r, sock.to)
  <1> DEFINE D == hosted[sock.to]
  <1>1. (IF c.i \in DOMAIN D THEN D[c.i] ELSE Nothing)
            \in PlayersOf(sock.to) \cup {Nothing}
    <2>1. D \in Hosts[sock.to]
      BY DEF HostsOK
    <2> QED
      BY <2>1 DEF PlayersOf
  <1>2. CASE c.kind \in {"login", "version", "count"}
    BY <1>2 DEF Reply, IsReplyTo
  <1>3. CASE c.kind \in {"id", "name"}
    BY <1>1, <1>3 DEF Reply, IsReplyTo
  <1>4. CASE c.kind = "status"
    BY <1>4 DEF Reply, IsReplyTo
  <1> QED
    BY <1>2, <1>3, <1>4 DEF Request, Kind

(* In step, what is received is the one reply to the command.              *)
LEMMA ReceivedInStep ==
  ASSUME TypeInv, InStep, ~failed, NEW k, NEW n, Receives(k, n)
  PROVE  /\ n = 1 /\ Len(inbox) = 1 /\ inbox[1] \in Line
         /\ IsReplyTo(Command, inbox[1], sock.to)
         /\ sent = <<>> /\ inbox' = <<>>
  <1>1. n \in 1 .. Len(inbox) /\ Len(inbox) \in Nat \ {0}
    BY ReceivedTypes DEF TypeInv
  <1>2. inbox # <<>>
    BY <1>1, EmptySeq
  <1>3. IsAnswered
    BY <1>2 DEF InStep, Silence, IsAsked
  <1>4. PICK r \in Line : inbox = <<r>> /\ IsReplyTo(Command, r, sock.to)
    BY <1>3 DEF IsAnswered
  <1>5. Len(inbox) = 1 /\ inbox[1] = r
    BY <1>4
  <1>6. SubSeq(inbox, n + 1, Len(inbox)) = <<>>
    BY <1>1, <1>5, SubSeqEmpty
  <1> QED
    BY <1>1, <1>3, <1>4, <1>5, <1>6 DEF IsAnswered, Receives

(* Until then no poll leaves the array.                                    *)
LEMMA StaysInArray ==
  ASSUME OursInv, ~failed
  PROVE  /\ InArray
         /\ step.kind = "status" =>
               /\ step.i \in 1 .. Len(playersArray) /\ players > 0
               /\ sock # NoSocket /\ Fetched
  <1> SUFFICES ASSUME step.kind = "status"
               PROVE  /\ step.i \in DOMAIN playersArray
                      /\ step.i \in 1 .. Len(playersArray) /\ players > 0
                      /\ sock # NoSocket /\ Fetched
    BY DEF InArray
  <1>1. sock # NoSocket /\ players > 0 /\ step.i \in 1 .. players
    BY DEF OursInv, InStep, TypeInv, WalkInv
  <1>2. Fetched
    BY <1>1 DEF OursInv, ArrayInv
  <1>3. DOMAIN playersArray = 1 .. Len(playersArray)
    BY LenProperties DEF OursInv, TypeInv, TableOK
  <1> QED
    BY <1>1, <1>2, <1>3 DEF Fetched

LEMMA InStepKept ==
  ASSUME OursInv, TypeInv', [Next]_vars
  PROVE  InStep'
  <1> USE DEF InStep, Silence
  <1>0. /\ InStep /\ step \in Step /\ (step.waits => step.kind \in Kind)
        /\ (step.kind # "none" => phase = "asking")
        /\ sock \in Socket
    BY DEF OursInv, TypeInv, AskedInv, Place, LinesOK
  <1>1. ASSUME sock # NoSocket => sock' # NoSocket /\ sock'.to = sock.to,
               sock = NoSocket => sock' = NoSocket,
               sent' \in {sent, <<>>}, inbox' = inbox,
               UNCHANGED <<step, playersArray, failed>>
        PROVE  InStep'
    BY <1>0, <1>1 DEF IsAsked, IsAnswered, Command
  <1>2. ASSUME NEW s \in Server, GoesDown(s) \/ ComesUp(s)
        PROVE  InStep'
    <2>1. sock # NoSocket =>
            /\ Broken # NoSocket /\ Broken.to = sock.to
      BY <1>0 DEF Broken, Socket, NoSocket
    <2> QED
      BY <1>1, <1>2, <2>1 DEF GoesDown, ComesUp, PeerIs, table
  <1>3. CASE Connects
    <2>1. sock' # NoSocket /\ sock'.to = sock.to /\ sock # NoSocket
      BY <1>0, <1>3 DEF Connects, Socket, NoSocket
    <2> QED
      BY <1>1, <1>3, <2>1 DEF Connects, table
  <1>4. CASE \/ \E s \in Server : \E D \in Hosts[s] : PlayersComeAndGo(s, D)
             \/ \E o \in PlayerOrders : OrderChanged(o)
             \/ UNCHANGED vars
    BY <1>1, <1>4 DEF PlayersComeAndGo, OrderChanged, vars, connection, table
  <1>5. CASE ServerAnswers
    <2>1. /\ sock # NoSocket /\ sent # <<>> /\ sent' = Tail(sent)
          /\ UNCHANGED <<sock, step, playersArray, failed>>
      BY <1>5 DEF ServerAnswers, table
    <2>2. ASSUME ~failed
          PROVE  IsAnswered'
      <3>1. step.waits /\ sent = <<Command>> /\ inbox = <<>>
        BY <1>0, <2>1, <2>2 DEF IsAsked, IsAnswered
      <3>2. Command \in Request
        <4>1. Command = sent[1] /\ 1 \in 1 .. Len(sent)
          BY <3>1
        <4> QED
          BY <4>1, ElementOfSeq DEF OursInv, TypeInv, LinesOK
      <3>3. PICK r \in Reply(Command) : inbox' = Append(inbox, r)
        BY <1>5, <3>1 DEF ServerAnswers
      <3>4. r \in Line /\ IsReplyTo(Command, r, sock.to)
        BY <1>0, <2>1, <3>2, ReplyTypes, ReplyFits, SocketTypes DEF OursInv, TypeInv
      <3>5. inbox' = <<r>> /\ sent' = <<>>
        BY <2>1, <3>1, <3>3
      <3> QED
        BY <2>1, <3>1, <3>4, <3>5 DEF IsAnswered, Command
    <2> QED
      BY <1>0, <2>1, <2>2
  <1>6. ASSUME Disconnect, step'.kind = "none"
        PROVE  InStep'
    BY <1>6 DEF Disconnect
  <1>7. ASSUME NEW l \in ServerLists, ServersChanged(l)
        PROVE  InStep'
    BY <1>0, <1>6, <1>7 DEF ServersChanged, MainLoop
  <1>8. Idle.kind = "none"
    BY IdleStep
  <1>9. ASSUME NEW k \in DOMAIN servers, Opens(k)
        PROVE  InStep'
    <2>1. sock' # NoSocket /\ sent' = <<>> /\ inbox' = <<>>
      BY <1>9 DEF Opens, NoSocket
    <2> QED
      BY <2>1
  <1>10. ASSUME ~step.waits, UNCHANGED <<sock, sent, inbox, failed>>,
                step'.kind \in {"none", "connect"} \/ sock # NoSocket
         PROVE  InStep'
    BY <1>0, <1>10, Quiet
  <1>20. CASE Overrun
    BY <1>20 DEF Overrun, Disconnect, At
  <1>11. CASE Ask \/ FindsConnection \/ OpensNone \/ Select
    <2>1. UNCHANGED <<sock, sent, inbox, failed>>
      BY <1>11 DEF Ask, FindsConnection, OpensNone, Select, connection
    <2>2. ~step.waits
      <3>1. CASE Ask
        BY <1>0, <3>1 DEF Ask, Begin, MainLoop, Kind
      <3> QED
        BY <1>0, <1>11, <3>1 DEF FindsConnection, OpensNone, Select, Kind
    <2>3. CASE Ask
      BY <1>10, <2>1, <2>2, <2>3 DEF Ask, At
    <2>4. CASE OpensNone
      BY <1>8, <1>10, <2>1, <2>2, <2>4 DEF OpensNone
    <2>5. CASE FindsConnection \/ Select
      <3>1. sock # NoSocket
        BY <1>0, <2>5 DEF FindsConnection, Select
      <3> QED
        BY <1>10, <2>1, <2>2, <3>1
    <2> QED
      BY <1>11, <2>3, <2>4, <2>5
  <1>12. CASE Check
    <2>1. ~step.waits /\ sock # NoSocket
      BY <1>0, <1>12 DEF Check, Kind
    <2> QED
      BY <1>6, <1>8, <1>10, <1>12, <2>1 DEF Check
  <1>13. CASE Send
    <2>1. /\ step' = [step EXCEPT !.waits = TRUE] /\ ~step.waits
          /\ step.kind \in Kind
          /\ ~failed => sent' \in {Append(sent, Command), sent}
          /\ UNCHANGED <<sock, inbox, playersArray, failed>>
      <3>1. InArray => Commands = {Command}
        BY DEF Commands, Ids, Command
      <3>2. ~failed => InArray
        BY StaysInArray
      <3> QED
        BY <1>13, <3>1, <3>2 DEF Send, MaySend, table
    <2>2. step'.waits /\ step'.kind = step.kind /\ step'.i = step.i
      BY <1>0, <2>1 DEF Step
    <2>3. Command' = Command
      BY <2>1, <2>2 DEF Command
    <2>4. sock # NoSocket
      BY <1>0, <2>1 DEF Kind
    <2>5. ~failed => Silence' \/ IsAsked'
      <3> SUFFICES ASSUME ~failed
                   PROVE  Silence' \/ IsAsked'
        OBVIOUS
      <3>1. sent = <<>> /\ inbox = <<>>
        BY <1>0, <2>1, Quiet
      <3>2. Append(sent, Command) = <<Command>>
        BY <3>1
      <3> QED
        BY <2>1, <2>2, <2>3, <3>1, <3>2 DEF IsAsked
    <2> QED
      BY <2>1, <2>4, <2>5
  <1>14. ASSUME CommandFails, step.kind \in Kind
         PROVE  InStep'
    <2>1. CASE step.kind \in {"login", "version", "count"}
      <3>1. GivesUpPoll
        BY <1>14, <2>1 DEF CommandFails
      <3> QED
        BY <1>6, <1>8, <3>1 DEF GivesUpPoll
    <2>2. CASE step.kind \notin {"login", "version", "count"}
      <3>1. failed' = TRUE /\ UNCHANGED <<sock, sent, inbox>>
        BY <1>14, <2>2 DEF CommandFails
      <3>2. sock # NoSocket
        BY <1>0, <1>14 DEF Kind
      <3> QED
        BY <3>1, <3>2
    <2> QED
      BY <2>1, <2>2
  <1>15. CASE CannotSend \/ TimesOut \/ IsCutOff
    BY <1>0, <1>14, <1>15 DEF CannotSend, MaySend, TimesOut, IsCutOff
  <1>16. ASSUME NEW k, NEW n, Receives(k, n), UNCHANGED <<sock, sent, failed>>
         PROVE  InStep'
    <2>1. sock # NoSocket
      BY <1>0, <1>16 DEF Receives, Kind
    <2>2. ~failed => sent' = <<>> /\ inbox' = <<>>
      BY <1>16, ReceivedInStep DEF OursInv
    <2> QED
      BY <1>16, <2>1, <2>2
  <1>17. ASSUME NEW n \in 1 .. Len(inbox), LoginReply(n) \/ CountUnreadable(n)
         PROVE  InStep'
    <2>1. CASE GivesUpPoll
      BY <1>6, <1>8, <2>1 DEF GivesUpPoll
    <2>2. CASE Receives("login", n) /\ UNCHANGED <<sock, sent, failed>>
      BY <1>16, <2>2
    <2> QED
      BY <1>17, <2>1, <2>2 DEF LoginReply, CountUnreadable
  <1>18. ASSUME NEW n \in 1 .. Len(inbox), NEW count \in Counts, CountReply(n, count)
         PROVE  InStep'
    BY <1>16, <1>18 DEF CountReply
  <1>19. ASSUME NEW n \in 1 .. Len(inbox),
                VersionReply(n) \/ IdReply(n) \/ NameReply(n) \/ StatusReply(n)
         PROVE  InStep'
    <2>1. \E k : Receives(k, n) /\ UNCHANGED <<sock, sent, failed>>
      BY <1>19 DEF VersionReply, IdReply, NameReply, StatusReply
    <2> QED
      BY <1>16, <2>1
  <1> QED
    BY <1>2, <1>3, <1>4, <1>5, <1>7, <1>9, <1>11, <1>12, <1>13, <1>15, <1>17,
       <1>18, <1>19, <1>20 DEF Next, Environment, Poll, ReceiveLines

LEMMA ArrayKept ==
  ASSUME OursInv, TypeInv', InStep', [Next]_vars
  PROVE  ArrayInv'
  <1> USE DEF ArrayInv
  <1>0. /\ ArrayInv /\ InStep /\ TypeInv
        /\ step \in Step /\ (step.waits => step.kind \in Kind)
        /\ step.i \in Nat /\ players \in Int
        /\ (step.kind # "none" => phase = "asking")
        /\ playersArray \in Seq(Record) /\ Len(playersArray) \in Nat
        /\ DOMAIN playersArray = 1 .. Len(playersArray)
        /\ fetched \in Seq(Record) /\ Len(fetched) \in Nat
    BY LenProperties DEF OursInv, TypeInv, AskedInv, Place, Step, TableOK
  <1>1. ASSUME UNCHANGED <<step, table, failed>>,
               sock # NoSocket => sock' # NoSocket /\ sock'.to = sock.to,
               sock = NoSocket => sock' = NoSocket
        PROVE  ArrayInv'
    <2>1. step.kind \in {"id", "name"} => sock # NoSocket
      BY <1>0 DEF InStep
    <2> QED
      BY <1>0, <1>1, <2>1 DEF table, Fetching, Fetched, Ours
  <1>2. ASSUME NEW s \in Server, GoesDown(s) \/ ComesUp(s)
        PROVE  ArrayInv'
    <2>1. sock # NoSocket => Broken # NoSocket /\ Broken.to = sock.to
      BY DEF OursInv, TypeInv, LinesOK, Broken, Socket, NoSocket
    <2> QED
      BY <1>1, <1>2, <2>1 DEF GoesDown, ComesUp, PeerIs
  <1>3. CASE Connects
    <2>1. sock' # NoSocket /\ sock'.to = sock.to /\ sock # NoSocket
      BY <1>3 DEF Connects, OursInv, TypeInv, LinesOK, Socket, NoSocket
    <2> QED
      BY <1>1, <1>3, <2>1 DEF Connects
  <1>4. CASE \/ \E s \in Server : \E D \in Hosts[s] : PlayersComeAndGo(s, D)
             \/ \E o \in PlayerOrders : OrderChanged(o)
             \/ ServerAnswers \/ UNCHANGED vars
    BY <1>1, <1>4 DEF PlayersComeAndGo, OrderChanged, ServerAnswers, vars, connection
  <1>5. ASSUME step'.kind \in {"none", "connect"}, sock' = NoSocket
        PROVE  ArrayInv'
    BY <1>5
  <1>6. Idle.kind = "none"
    BY IdleStep
  <1>7. ASSUME NEW l \in ServerLists, ServersChanged(l)
        PROVE  ArrayInv'
    BY <1>0, <1>5, <1>7 DEF ServersChanged, MainLoop, Disconnect
  <1>8. ASSUME NEW k \in DOMAIN servers, Opens(k)
        PROVE  ArrayInv'
    BY <1>8 DEF Opens, ClearConnection, At
  <1>9. ASSUME step.kind \notin {"id", "name"},
               step'.kind \notin {"id", "name", "lost"},
               UNCHANGED <<sock, players, playersArray, failed>>
        PROVE  ArrayInv'
    BY <1>0, <1>9 DEF Fetched, Ours
  <1>10. CASE OpensNone
    BY <1>5, <1>6, <1>10 DEF OpensNone
  <1>11. CASE Ask
    <2>1. step.kind = "none"
      BY <1>0, <1>11 DEF Ask, Begin, MainLoop
    <2> QED
      BY <1>9, <1>11, <2>1 DEF Ask, At, connection, table
  <1>12. CASE FindsConnection
    BY <1>9, <1>12 DEF FindsConnection, At, connection, table
  <1>13. CASE Check
    <2>1. CASE Disconnect /\ step' = Idle
      BY <1>5, <1>6, <2>1 DEF Disconnect
    <2>2. CASE UNCHANGED sock /\ step' \in {Idle, Start}
      BY <1>6, <1>9, <1>13, <2>2 DEF Check, Start, At, table
    <2> QED
      BY <1>13, <2>1, <2>2 DEF Check
  <1>14. CASE Send
    <2>1. step' = [step EXCEPT !.waits = TRUE] /\ UNCHANGED <<sock, table, failed>>
      BY <1>14 DEF Send
    <2>2. step'.kind = step.kind /\ step'.i = step.i
      BY <1>0, <2>1 DEF Step
    <2> QED
      BY <1>0, <2>1, <2>2 DEF table, Fetching, Fetched, Ours
  <1>15. CASE Overrun
    <2>1. ~InArray /\ failed' = failed
      BY <1>15 DEF Overrun
    <2> QED
      BY <2>1, StaysInArray
  <1>16. ASSUME CommandFails, step.kind \in Kind
         PROVE  ArrayInv'
    <2>1. CASE step.kind \in {"login", "version", "count"}
      <3>1. GivesUpPoll
        BY <1>16, <2>1 DEF CommandFails
      <3> QED
        BY <1>5, <1>6, <3>1 DEF GivesUpPoll, Disconnect
    <2>2. CASE step.kind \notin {"login", "version", "count"}
      BY <1>16, <2>2 DEF CommandFails
    <2> QED
      BY <2>1, <2>2
  <1>17. CASE CannotSend \/ TimesOut \/ IsCutOff
    BY <1>0, <1>16, <1>17 DEF CannotSend, MaySend, TimesOut, IsCutOff
  <1>18. ASSUME NEW n \in 1 .. Len(inbox), LoginReply(n) \/ CountUnreadable(n)
         PROVE  ArrayInv'
    <2>1. CASE GivesUpPoll
      BY <1>5, <1>6, <2>1 DEF GivesUpPoll, Disconnect
    <2>2. CASE LoginReply(n) /\ ~GivesUpPoll
      BY <1>9, <2>2 DEF LoginReply, At, table
    <2> QED
      BY <1>18, <2>1, <2>2 DEF CountUnreadable
  <1>19. ASSUME NEW n \in 1 .. Len(inbox), VersionReply(n)
         PROVE  ArrayInv'
    BY <1>9, <1>19 DEF VersionReply, Receives, At, table
  <1>20. ASSUME NEW n \in 1 .. Len(inbox), NEW count \in Counts, CountReply(n, count)
         PROVE  ArrayInv'
    <2>1. /\ UNCHANGED <<sock, playersArray, failed>> /\ fetched' = <<>>
          /\ players' = count /\ step.kind = "count"
      BY <1>20 DEF CountReply, Receives
    <2>2. CASE count <= 0
      <3>1. step' = Idle /\ ~(players' > 0)
        BY <1>20, <2>1, <2>2, CountTypes DEF CountReply
      <3> QED
        BY <1>6, <3>1
    <2>3. CASE step' = At("id", 1) /\ ~(count <= 0)
      <3>1. Ours(fetched)' /\ Len(fetched') = 0
        BY <2>1 DEF Ours
      <3>2. count \in Int
        BY CountTypes
      <3> QED
        BY <2>1, <2>3, <3>1, <3>2 DEF At, Fetching
    <2>4. CASE step' = At("status", 1) /\ count = players
      BY <1>0, <2>1, <2>4 DEF At, Fetched, Ours
    <2> QED
      BY <1>20, <2>2, <2>3, <2>4 DEF CountReply
  <1>21. ASSUME NEW n \in 1 .. Len(inbox), IdReply(n)
         PROVE  ArrayInv'
    <2>1. /\ step.kind = "id" /\ step'.kind = "name" /\ step'.i = step.i
          /\ fetched' = Append(fetched, NewRecord(Told(n)))
          /\ UNCHANGED <<sock, players, failed>>
      BY <1>21 DEF IdReply, Receives, At
    <2>2. ASSUME ~failed
          PROVE  Fetching'
      <3>1. IsReplyTo(Command, inbox[1], sock.to)
        BY <1>0, <1>21, <2>2, ReceivedInStep DEF IdReply
      <3>2. Told(n) \in PlayersOf(sock.to) \cup {Nothing}
        BY <2>1, <3>1 DEF IsReplyTo, Command, Told
      <3>3. /\ Len(fetched') = Len(fetched) + 1
            /\ \A i \in 1 .. Len(fetched) : fetched'[i] = fetched[i]
            /\ fetched'[Len(fetched) + 1] = NewRecord(Told(n))
        BY <1>0, <2>1
      <3>4. Ours(fetched)'
        BY <1>0, <2>1, <2>2, <3>2, <3>3 DEF Fetching, Ours, NewRecord
      <3> QED
        BY <1>0, <2>1, <2>2, <3>3, <3>4 DEF Fetching
    <2> QED
      BY <2>1, <2>2
  <1>22. ASSUME NEW n \in 1 .. Len(inbox), NameReply(n)
         PROVE  ArrayInv'
    <2> DEFINE filled == [fetched EXCEPT ![step.i].name = Told(n)]
    <2>1. /\ step.kind = "name" /\ UNCHANGED <<sock, players, failed>>
      BY <1>22 DEF NameReply, Receives
    <2>2. ASSUME ~failed
          PROVE  Len(filled) = Len(fetched) /\ Ours(filled)
      <3>1. step.i \in 1 .. Len(fetched)
        BY <1>0, <2>1, <2>2 DEF Fetching
      <3>2. fetched[step.i] \in Record /\ Told(n) \in Someone
        BY <1>0, <1>22, <3>1, ElementOfSeq, ToldTypes DEF NameReply, Receives, TypeInv
      <3> DEFINE p == [fetched[step.i] EXCEPT !.name = Told(n)]
      <3>3. p \in Record /\ p.id = fetched[step.i].id /\ p.from = fetched[step.i].from
        BY <3>2 DEF Record
      <3>4. filled = [fetched EXCEPT ![step.i] = p]
        OBVIOUS
      <3> HIDE DEF p, filled
      <3>5. /\ Len(filled) = Len(fetched)
            /\ \A j \in 1 .. Len(fetched) :
                  filled[j] = IF j = step.i THEN p ELSE fetched[j]
        BY <1>0, <3>1, <3>3, <3>4, ExceptSeq
      <3> QED
        BY <1>0, <2>1, <2>2, <3>3, <3>5 DEF Fetching, Ours
    <2> HIDE DEF filled
    <2>3. CASE step.i < players
      <3>1. step' = At("id", step.i + 1) /\ fetched' = filled
        BY <1>22, <2>3 DEF NameReply, filled
      <3> QED
        BY <1>0, <2>1, <2>2, <2>3, <3>1 DEF At, Fetching, Ours
    <2>4. CASE ~(step.i < players)
      <3>1. step' = At("status", 1) /\ playersArray' = filled
        BY <1>22, <2>4 DEF NameReply, filled
      <3> QED
        BY <1>0, <2>1, <2>2, <2>4, <3>1 DEF At, Fetching, Fetched, Ours
    <2> QED
      BY <2>3, <2>4
  <1>23. ASSUME NEW n \in 1 .. Len(inbox), StatusReply(n)
         PROVE  ArrayInv'
    <2>1. /\ step.kind = "status" /\ step.waits
          /\ step' = NextStatus(step.i) /\ UNCHANGED <<sock, failed>>
      BY <1>23 DEF StatusReply, Receives
    <2>2. /\ UNCHANGED <<players, fetched>>
          /\ Len(playersArray') = Len(playersArray)
          /\ \/ UNCHANGED playersArray
             \/ \E j \in 1 .. n :
                   /\ inbox[j].kind = "status"
                   /\ playersArray' = [playersArray EXCEPT ![step.i] =
                                          WithStatus(playersArray[step.i], inbox[j])]
      BY <1>0, <1>23, StatusTable DEF TypeInv
    <2>3. step'.kind \in {"status", "select"}
      BY <2>1 DEF NextStatus, At
    <2>4. CASE UNCHANGED playersArray
      BY <1>9, <2>1, <2>2, <2>3, <2>4
    <2>5. CASE ~failed /\ playersArray' # playersArray
      <3>1. PICK j \in 1 .. n :
                   /\ inbox[j].kind = "status"
                   /\ playersArray' = [playersArray EXCEPT ![step.i] =
                                          WithStatus(playersArray[step.i], inbox[j])]
        BY <2>2, <2>5
      <3>2. n = 1 /\ IsReplyTo(Command, inbox[1], sock.to)
        BY <1>0, <1>23, <2>5, ReceivedInStep DEF StatusReply
      <3>3. j = 1
        BY <3>1, <3>2
      <3>4. inbox[1].of = playersArray[step.i].id
        BY <2>1, <3>1, <3>2, <3>3 DEF IsReplyTo, Command
      <3>5. /\ step.i \in 1 .. Len(playersArray) /\ players > 0
            /\ sock # NoSocket /\ Fetched
        BY <2>1, <2>5, StaysInArray
      <3>6. playersArray[step.i] \in Record
        BY <1>0, <3>5, ElementOfSeq
      <3> DEFINE p == WithStatus(playersArray[step.i], inbox[1])
      <3>7. p.id = playersArray[step.i].id /\ p.from = p.id
        BY <3>4, <3>6 DEF WithStatus, Record
      <3> HIDE DEF p
      <3>8. \A i \in 1 .. Len(playersArray) :
                playersArray'[i] = IF i = step.i THEN p ELSE playersArray[i]
        BY <1>0, <3>1, <3>3 DEF p
      <3>9. Fetched
        BY <3>5
      <3>10. Fetched'
        BY <2>1, <2>2, <3>5, <3>7, <3>8, <3>9 DEF Fetched, Ours
      <3> QED
        BY <2>3, <3>10
    <2> QED
      BY <2>1, <2>3, <2>4, <2>5
  <1>24. CASE Select
    BY <1>6, <1>9, <1>24 DEF Select, connection, table
  <1> QED
    BY <1>2, <1>3, <1>4, <1>7, <1>8, <1>10, <1>11, <1>12, <1>13, <1>14, <1>15,
       <1>17, <1>18, <1>19, <1>20, <1>21, <1>22, <1>23, <1>24
       DEF Next, Environment, Poll, ReceiveLines

LEMMA OursInvariance == Spec => []OursInv
  <1>1. Init => InStep /\ ArrayInv
    <2> SUFFICES ASSUME Init
                 PROVE  InStep /\ ArrayInv
      OBVIOUS
    <2>1. step.kind = "none" /\ sock = NoSocket /\ Silence
      BY IdleStep DEF Init, Silence
    <2> QED
      BY <2>1 DEF InStep, ArrayInv
  <1>2. OursInv /\ TypeInv' /\ [Next]_vars => InStep' /\ ArrayInv'
    BY InStepKept, ArrayKept
  <1>3. OursInv <=> TypeInv /\ InStep /\ ArrayInv
    BY DEF OursInv
  <1> QED
    BY <1>1, <1>2, <1>3, TypeInvariance, PTL DEF Spec

(* For any servers, and however their players come and go, commands time   *)
(* out and connections break: until a command has failed whose connection  *)
(* is kept, replies are in step with the commands, and the array that is   *)
(* polled or announced is of the server that is connected to.              *)
THEOREM ArrayStaysOurs == Spec => []ArrayIsOurs
  <1>1. OursInv => ArrayIsOurs
    <2> SUFFICES ASSUME OursInv, UsesArray, ~failed
                 PROVE  /\ step.kind # "lost" /\ Len(playersArray) = players
                        /\ Ours(playersArray)
      BY DEF ArrayIsOurs, Ours
    <2>1. step.kind # "lost"
      BY DEF OursInv, ArrayInv
    <2>2. sock # NoSocket /\ step.kind \notin {"id", "name"} /\ players > 0
      BY <2>1 DEF UsesArray, OursInv, InStep, TypeInv, WalkInv, AskedInv
    <2> QED
      BY <2>1, <2>2 DEF OursInv, ArrayInv, Fetched
  <1> QED
    BY <1>1, OursInvariance, PTL

-----------------------------------------------------------------------------
(* What the steps are in PlayerSelection                                   *)

LEMMA AskedAnswers ==
  ASSUME phase = "asking", answer = Unanswered, phase' = "done", bus' = bus,
         [b |-> answer'.b, ti |-> PollsAnswer']
            \in Selection!SqueezeCenter(Asked, Us)
  PROVE  Selection!Next
  <1>1. [PollsAnswer EXCEPT !.player = Us] = Asked
    <2>1. PollsAnswer = [status |-> "OFF", by |-> Nobody, player |-> Nobody,
                         holds |-> [f \in Field |-> Nobody]]
      BY DEF PollsAnswer, Unanswered, NoFields
    <2> HIDE DEF Field
    <2> QED
      BY <2>1 DEF Asked
  <1>2. Selection!LibraryFor(Us) = Nobody
    BY DEF Selection!LibraryFor
  <1>3. Us # Nobody
    BY NobodyAssumption DEF Us
  <1>4. Selection!Answers(Asked, Us, Nobody) = Selection!SqueezeCenter(Asked, Us)
    BY <1>3 DEF Selection!Answers, Selection!Outcomes, Selection!Legacy, Us
  <1>5. Selection!Ask(Us)
    <2> DEFINE r == [b |-> answer'.b, ti |-> PollsAnswer']
    <2>1. /\ r \in Selection!Answers([PollsAnswer EXCEPT !.player = Us], Us, Nobody)
          /\ answer'.b = r.b /\ PollsAnswer' = r.ti
      BY <1>1, <1>4
    <2> QED
      BY <1>2, <2>1 DEF Selection!Ask
  <1> QED
    BY <1>5 DEF Selection!Next, Selection!AskChosen, Us

LEMMA BeginStep ==
  ASSUME Begins
  PROVE  Selection!Next
  <1>1. PollsAnswer' = Selection!Blank /\ answer'.b = TRUE
    BY SameSelection DEF Begins, Begin, PollsAnswer, Selection!Blank,
       Unanswered, NoFields, Field
  <1>2. Selection!Begin(Nobody)
    BY <1>1 DEF Selection!Begin, Begins, Begin, MainLoop
  <1> QED
    BY <1>2 DEF Selection!Next

LEMMA FailStep ==
  ASSUME AskedInv, Fails
  PROVE  Selection!Next
  <1>1. PollsAnswer' = Asked /\ answer'.b = FALSE
    BY DEF Fails, Fail, PollsAnswer, Asked, Unanswered, NoFields, Field, Us
  <1>2. [b |-> answer'.b, ti |-> PollsAnswer']
            \in Selection!SqueezeCenter(Asked, Us)
    BY <1>1 DEF Selection!SqueezeCenter, Selection!False
  <1> QED
    BY <1>2, AskedAnswers DEF AskedInv, Fails, Fail

LEMMA ReturnStep ==
  ASSUME AskedInv, Returns
  PROVE  Selection!Next
  <1>1. PICK p \in Candidates : Return(TRUE, StatusOf(p), FieldsOf(p))
    BY DEF Returns
  <1> DEFINE s == StatusOf(p)
             F == FieldsOf(p)
             G == {f \in Field : F[f] # Nothing}
  <1>2. s \in Active \cup {"OFF"}
    BY DEF StatusOf, Active
  <1>3. PollsAnswer' = Answered(s, F) /\ answer'.b = TRUE
    BY <1>1, NobodyAssumption DEF Return, PollsAnswer, Answered, Field, Us
  <1> HIDE DEF s, F
  <1>4. Answered(s, F) = Selection!Replaces(Selection!Says(Asked, Us, s), Us, G)
    BY SameSelection DEF Answered, Asked, Selection!Replaces, Selection!Says,
       Selection!Filled
  <1>5. PollsAnswer' \in Selection!ReplacesSome(
            Selection!SaysOneOf(Asked, Us, Selection!Active \cup {"OFF"}), Us)
    BY <1>2, <1>3, <1>4, SameSelection
       DEF Selection!ReplacesSome, Selection!SaysOneOf
  <1>6. [b |-> answer'.b, ti |-> PollsAnswer']
            \in Selection!SqueezeCenter(Asked, Us)
    BY <1>3, <1>5 DEF Selection!SqueezeCenter, Selection!True
  <1> QED
    BY <1>1, <1>6, AskedAnswers DEF AskedInv, Returns, Return

(* The SqueezeCenter reader implements what PlayerSelection says of its    *)
(* track_func, however its connection, the commands and the replies go: so *)
(* what is proved of PlayerSelection holds of it.                          *)
THEOREM RefinesSelection == Spec => ImplementsSelection
  <1>1. Init => Selection!Init
    <2>1. Us \in Selection!Player
      <3> DEFINE O == <<"SqueezeCenter", "Last.fm">>
      <3>1. O[1] = Us /\ 1 \in DOMAIN O
        BY DEF Us
      <3>2. Selection!Player = {O[i] : i \in DOMAIN O}
        BY DEF Selection!Player
      <3> HIDE DEF O
      <3> QED
        BY <3>1, <3>2
    <2>2. Init => PollsAnswer = Selection!Blank /\ answer.b = TRUE
      BY SameSelection DEF Init, PollsAnswer, Selection!Blank, Unanswered,
         NoFields, Field
    <2> QED
      BY <2>1, <2>2 DEF Init, Selection!Init, Us
  <1>2. AskedInv /\ [Next]_vars => [Selection!Next]_(Selection!vars)
    <2> SUFFICES ASSUME AskedInv, [Next]_vars
                 PROVE  [Selection!Next]_(Selection!vars)
      OBVIOUS
    <2>1. CASE Hides \/ GoesOn \/ UNCHANGED vars
      BY <2>1 DEF Hides, GoesOn, vars, Selection!vars, PollsAnswer
    <2> QED
      BY <2>1, StepKinds, BeginStep, FailStep, ReturnStep
  <1> QED
    BY <1>1, <1>2, AskedInvariance, PTL
       DEF Spec, ImplementsSelection, Selection!Spec
=============================================================================
