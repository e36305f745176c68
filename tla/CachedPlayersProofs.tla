------------------------ MODULE CachedPlayersProofs ------------------------
(***************************************************************************)
(* Theorems about CachedPlayers, for any services, tracks and bounds.      *)
(***************************************************************************)
EXTENDS CachedPlayersProperties, TLAPS

(* What Polling defines reaches the players under names of their own.      *)
LEMMA SamePolling ==
    /\ M!Active = Active /\ V!Active = Active /\ Q!Active = Active
    /\ M!Status = Status
    /\ M!Fields = Fields /\ C!Fields = Fields
    /\ M!NoFields = NoFields /\ V!NoFields = NoFields
    /\ Q!NoFields = NoFields /\ C!NoFields = NoFields
    /\ M!Unanswered = Unanswered /\ V!Unanswered = Unanswered
    /\ Q!Unanswered = Unanswered /\ C!Unanswered = Unanswered
  BY DEF Active, M!Active, V!Active, Q!Active, Status, M!Status, Field,
     M!Field, V!Field, Q!Field, C!Field, Fields, M!Fields, C!Fields, NoFields,
     M!NoFields, V!NoFields, Q!NoFields, C!NoFields, Unanswered, M!Unanswered,
     V!Unanswered, Q!Unanswered, C!Unanswered

LEMMA PollingTypes ==
    /\ Track \subseteq Fields
    /\ NoFields \in Fields
    /\ Active \subseteq Status
    /\ Unanswered \in Answer
  BY TrackAssumption DEF Fields, NoFields, Unanswered, Answer, Status, Active

(* A track_func that returns leaves an answer of the type.                 *)
LEMMA ReturnType ==
  ASSUME NEW r \in BOOLEAN, NEW s \in Status, NEW F \in Fields,
         answer' = [b |-> r, by |-> "player", status |-> s, fields |-> F]
  PROVE  answer' \in Answer
  BY DEF Answer

LEMMA FailType ==
  ASSUME answer' = [Unanswered EXCEPT !.b = FALSE]
  PROVE  answer' \in Answer
  BY PollingTypes DEF Answer

-----------------------------------------------------------------------------
(* QuodLibet *)
LEMMA QuodLibetOn ==
  ASSUME Q!TypeOK, quodLibet.on
  PROVE  quodLibet \in [on : {TRUE}, song : Track, state : Active,
                        told : BOOLEAN]
  <1>1. quodLibet # Q!Absent
    BY DEF Q!Absent
  <1> QED
    BY <1>1, SamePolling DEF Q!TypeOK, Q!Process

LEMMA QuodLibetEnvironment ==
  ASSUME Q!TypeOK, Q!Environment
  PROVE  /\ Q!TypeOK'
         /\ UNCHANGED <<bus, phase, answer>>
  <1> USE DEF Q!TypeOK, Active, Q!Active, Q!Process, Q!Absent
  <1>1. ASSUME NEW t \in Track, NEW s \in Q!Active, Q!Starts(t, s)
        PROVE  Q!TypeOK' /\ UNCHANGED <<bus, phase, answer>>
    BY <1>1 DEF Q!Starts
  <1>2. CASE Q!Quits
    BY <1>2 DEF Q!Quits
  <1>3. ASSUME NEW t \in Track, Q!NextSong(t)
        PROVE  Q!TypeOK' /\ UNCHANGED <<bus, phase, answer>>
    BY <1>3 DEF Q!NextSong
  <1>4. ASSUME NEW s \in Q!Active, Q!Pauses(s)
        PROVE  Q!TypeOK' /\ UNCHANGED <<bus, phase, answer>>
    <2>1. quodLibet' \in [on : {TRUE}, song : Track, state : Q!Active,
                          told : BOOLEAN]
      <3>1. quodLibet \in [on : {TRUE}, song : Track, state : Q!Active,
                           told : BOOLEAN]
        BY <1>4, QuodLibetOn DEF Q!Pauses
      <3>2. connected \in BOOLEAN
        OBVIOUS
      <3>3. CASE connected = TRUE
        BY <1>4, <3>1, <3>3 DEF Q!Pauses
      <3>4. CASE connected = FALSE
        BY <1>4, <3>1, <3>4 DEF Q!Pauses
      <3> QED
        BY <3>2, <3>3, <3>4
    <2>2. pauses' \in Seq(Q!Active)
      BY <1>4 DEF Q!Pauses
    <2> QED
      BY <1>4, <2>1, <2>2 DEF Q!Pauses
  <1> QED
    BY <1>1, <1>2, <1>3, <1>4 DEF Q!Environment

LEMMA QuodLibetStep ==
  ASSUME PollingTypeOK, Q!TypeOK, Q!Next
  PROVE  (PollingTypeOK /\ Q!TypeOK)'
  <1> USE DEF PollingTypeOK
  <1>1. CASE Q!Environment
    BY <1>1, QuodLibetEnvironment
  <1>2. CASE Q!SignalArrives
    BY <1>2 DEF Q!SignalArrives, Q!StateAfter, Q!TypeOK
  <1>3. CASE Q!Ask
    BY <1>3, SamePolling, PollingTypes DEF Q!Ask, Q!Begin, Q!quodLibetVars,
       Q!TypeOK
  <1>4. CASE Q!NotRunning
    <2>1. answer' \in Answer
      BY <1>4, SamePolling, PollingTypes, ReturnType, FailType
         DEF Q!NotRunning, Q!Fail, Q!Return, Status
    <2> QED
      BY <1>4, <2>1 DEF Q!NotRunning, Q!Fail, Q!Return, Q!quodLibetVars, Q!TypeOK
  <1>5. ASSUME NEW got \in BOOLEAN, Q!CurrentSong(got)
        PROVE  (PollingTypeOK /\ Q!TypeOK)'
    <2>1. quodLibet.song \in Track
      <3>1. quodLibet.on
        BY <1>5 DEF Q!CurrentSong
      <3> QED
        BY <3>1, QuodLibetOn
    <2>2. answer' \in Answer
      BY <1>5, <2>1, SamePolling, PollingTypes, ReturnType
         DEF Q!CurrentSong, Q!Return, Q!TypeOK, Status
    <2> QED
      BY <1>5, <2>2 DEF Q!CurrentSong, Q!Return, Q!TypeOK
  <1> QED
    BY <1>1, <1>2, <1>3, <1>4, <1>5 DEF Q!Next, Q!Poll

-----------------------------------------------------------------------------
(* Messenger compatible *)
LEMMA FieldsOfType ==
  ASSUME NEW m \in C!Message, NEW a \in Text \cup {Nothing}, m.form \in C!Form
  PROVE  C!FieldsOf(m, a) \in Fields
  <1>1. m.of \in Fields
    BY SamePolling, PollingTypes DEF C!Message, C!Form
  <1>2. /\ [m.of EXCEPT !.album = a] \in Fields
        /\ [m.of EXCEPT !.album = Nothing] \in Fields
    BY <1>1 DEF Fields, Field
  <1> QED
    BY <1>1, <1>2 DEF C!FieldsOf, C!Form

LEMMA ProcessedType ==
  ASSUME NEW ti \in [status : {"OFF", "NORMAL"}, fields : Fields],
         NEW m \in C!Message, NEW a \in Text \cup {Nothing}
  PROVE  C!Processed(ti, m, a) \in [status : {"OFF", "NORMAL"}, fields : Fields]
  <1> DEFINE F == IF m.form \in C!Form THEN C!FieldsOf(m, a) ELSE ti.fields
  <1>1. F \in Fields
    BY FieldsOfType
  <1>2. C!Swapped(F) \in Fields
    BY <1>1 DEF C!Swapped, Fields, Field
  <1> QED
    BY <1>1, <1>2 DEF C!Processed

LEMMA MessengerStep ==
  ASSUME PollingTypeOK, C!TypeOK, C!Next
  PROVE  (PollingTypeOK /\ C!TypeOK)'
  <1> USE DEF PollingTypeOK
  <1>1. ASSUME NEW m \in C!Message, NEW a \in Text \cup {Nothing},
               C!Receives(m, a)
        PROVE  (PollingTypeOK /\ C!TypeOK)'
    BY <1>1, ProcessedType, SamePolling DEF C!Receives, C!TypeOK
  <1>2. CASE C!SwapToggled
    BY <1>2 DEF C!SwapToggled, C!TypeOK
  <1>3. CASE C!Ask
    BY <1>3, SamePolling, PollingTypes DEF C!Ask, C!Begin, C!messengerVars,
       C!TypeOK
  <1>4. CASE C!Answers
    <2>1. msnti' \in [status : {"OFF", "NORMAL"}, fields : Fields]
      BY <1>4, SamePolling, PollingTypes DEF C!Answers, C!TypeOK
    <2>2. answer' \in Answer
      BY <1>4, <2>1, SamePolling, PollingTypes, ReturnType, FailType
         DEF C!Answers, C!Fail, C!Return, Status, Active
    <2> QED
      BY <1>4, <2>1, <2>2, SamePolling DEF C!Answers, C!Fail, C!Return, C!TypeOK
  <1> QED
    BY <1>1, <1>2, <1>3, <1>4 DEF C!Next, C!Poll

-----------------------------------------------------------------------------
(* Vagalume *)
LEMMA VagalumeCache ==
  ASSUME NEW c \in {V!Clean} \cup [status : {"NORMAL"}, fields : Track],
         NEW r \in BOOLEAN, NEW m \in V!Message
  PROVE  /\ V!CachedAfter(c, m) \in {V!Clean}
                \cup [status : {"NORMAL"}, fields : Track]
         /\ V!RunningAfter(r, m) \in BOOLEAN
  BY DEF V!CachedAfter, V!RunningAfter, V!Message

LEMMA HeadTail ==
  ASSUME NEW S, NEW q \in Seq(S), q # <<>>
  PROVE  Head(q) \in S /\ Tail(q) \in Seq(S)
  OBVIOUS

LEMMA VagalumeNotifies ==
  ASSUME V!TypeOK, NEW m \in V!Message, V!Notifies(m)
  PROVE  inbox' \in Seq(V!Message)
  BY DEF V!TypeOK, V!Notifies

LEMMA VagalumePlaying ==
  ASSUME NEW t \in Track
  PROVE  V!Playing(t) \in V!Message
  BY DEF V!Playing, V!Message

LEMMA VagalumeOn ==
  ASSUME V!TypeOK, vagalume.on
  PROVE  vagalume \in [on : {TRUE}, plays : Track \cup {NoFields}]
  <1>1. vagalume # V!Absent
    BY DEF V!Absent
  <1> QED
    BY <1>1, SamePolling DEF V!TypeOK, V!Process

LEMMA VagalumeProcess ==
  /\ V!Absent \in V!Process
  /\ \A t \in Track \cup {V!NoFields} : [on |-> TRUE, plays |-> t] \in V!Process
  BY DEF V!Process

LEMMA VagalumeEnvironment ==
  ASSUME V!TypeOK, V!Environment \/ V!Responds
  PROVE  V!TypeOK' /\ UNCHANGED <<bus, phase, answer, cached, running>>
  <1> USE VagalumeProcess, VagalumeNotifies DEF V!TypeOK
  <1>1. CASE V!Starts
    BY <1>1 DEF V!Starts, V!Message
  <1>2. CASE V!Stops
    BY <1>2, VagalumeOn, SamePolling DEF V!Stops, V!Message, V!Process
  <1>3. CASE V!Closes
    BY <1>3 DEF V!Closes, V!Message
  <1>4. CASE V!IsKilled
    BY <1>4 DEF V!IsKilled
  <1>5. CASE V!ForeignMessage
    BY <1>5 DEF V!ForeignMessage, V!Message
  <1>6. ASSUME NEW t \in Track, V!Plays(t)
        PROVE  V!TypeOK' /\ UNCHANGED <<bus, phase, answer, cached, running>>
    BY <1>6, VagalumeOn, VagalumePlaying, SamePolling DEF V!Plays, V!Process
  <1>7. CASE V!Responds
    <2>1. vagalume.plays \in Track \cup {V!NoFields}
      BY <1>7, VagalumeOn, SamePolling DEF V!Responds
    <2> DEFINE m == IF vagalume.plays = V!NoFields THEN [kind |-> "stopped"]
                    ELSE V!Playing(vagalume.plays)
    <2>2. m \in V!Message
      BY <2>1, VagalumePlaying DEF V!Message
    <2> QED
      BY <1>7, <2>2 DEF V!Responds
  <1> QED
    BY <1>1, <1>2, <1>3, <1>4, <1>5, <1>6, <1>7 DEF V!Environment

(* What a check leaves, whether or not it had to wait.                     *)
LEMMA VagalumeCheck ==
  ASSUME V!TypeOK, V!CheckAndFillCache
  PROVE  /\ requested' \in BOOLEAN /\ inbox' \in Seq(V!Message)
         /\ running' \in BOOLEAN /\ checking' \in BOOLEAN
         /\ cached' \in {V!Clean} \cup [status : {"NORMAL"}, fields : Track]
  <1> USE DEF V!TypeOK
  <1>1. CASE V!Orphaned
    BY <1>1 DEF V!Orphaned
  <1>2. CASE V!Request
    BY <1>2 DEF V!Request
  <1>3. CASE V!RequestLate
    <2> DEFINE c == V!CachedAfter(cached, Head(inbox))
               r == V!RunningAfter(TRUE, Head(inbox))
               popped == Tail(inbox)
    <2>1. Head(inbox) \in V!Message /\ popped \in Seq(V!Message)
      BY <1>3, HeadTail DEF V!RequestLate
    <2>2. /\ c \in {V!Clean} \cup [status : {"NORMAL"}, fields : Track]
          /\ r \in BOOLEAN
      BY <2>1, VagalumeCache
    <2>3. CASE popped = <<>>
      <3>1. /\ inbox' = <<>> /\ running' = FALSE /\ cached' = V!Clean
            /\ requested' = TRUE /\ checking' = checking
        BY <1>3, <2>3 DEF V!RequestLate
      <3>2. inbox' \in Seq(V!Message)
        BY <3>1
      <3> QED
        BY <3>1, <3>2
    <2>4. CASE popped # <<>>
      <3>1. Head(popped) \in V!Message /\ Tail(popped) \in Seq(V!Message)
        BY <2>1, <2>4, HeadTail
      <3>2. /\ inbox' = Tail(popped)
            /\ running' = V!RunningAfter(r, Head(popped))
            /\ cached' = V!CachedAfter(c, Head(popped))
            /\ requested' = TRUE /\ checking' = checking
        BY <1>3, <2>4 DEF V!RequestLate
      <3> HIDE DEF c, r, popped
      <3> QED
        BY <2>2, <3>1, <3>2, VagalumeCache
    <2> QED
      BY <2>3, <2>4
  <1> QED
    BY <1>1, <1>2, <1>3 DEF V!CheckAndFillCache

LEMMA VagalumeStep ==
  ASSUME PollingTypeOK, V!TypeOK, V!Next
  PROVE  (PollingTypeOK /\ V!TypeOK)'
  <1> USE DEF PollingTypeOK
  <1>1. CASE V!Environment \/ V!Responds
    BY <1>1, VagalumeEnvironment
  <1>2. CASE V!Dispatch
    BY <1>2, VagalumeCache, HeadTail DEF V!Dispatch, V!TypeOK
  <1>3. CASE V!Timer
    BY <1>3, VagalumeCheck DEF V!Timer, V!TypeOK
  <1>4. CASE V!Taken
    BY <1>4, VagalumeCache, HeadTail DEF V!Taken, V!TypeOK
  <1>5. CASE V!TimedOut
    BY <1>5 DEF V!TimedOut, V!TypeOK
  <1>6. CASE V!Ask
    BY <1>6, SamePolling, PollingTypes DEF V!Ask, V!Begin, V!vagalumeVars,
       V!TypeOK
  <1>7. CASE V!Initialize
    <2>1. CASE V!CheckAndFillCache
      BY <1>7, <2>1, VagalumeCheck DEF V!Initialize, V!TypeOK
    <2>2. CASE V!Orphaned
      BY <1>7, <2>2 DEF V!Initialize, V!Orphaned, V!TypeOK
    <2> QED
      BY <1>7, <2>1, <2>2 DEF V!Initialize
  <1>8. CASE V!Answers
    <2>1. cached.status \in Status /\ cached.fields \in Fields
      <3>1. CASE cached = V!Clean
        BY <3>1, SamePolling, PollingTypes DEF V!Clean, Status
      <3>2. CASE cached \in [status : {"NORMAL"}, fields : Track]
        BY <3>2, PollingTypes DEF Status, Active
      <3> QED
        BY <3>1, <3>2 DEF V!TypeOK
    <2>2. answer' \in Answer
      <3>1. CASE running
        BY <1>8, <2>1, <3>1, ReturnType DEF V!Answers, V!Return
      <3>2. CASE ~running
        BY <1>8, <3>2, SamePolling, FailType DEF V!Answers, V!Fail
      <3> QED
        BY <3>1, <3>2
    <2> QED
      BY <1>8, <2>2 DEF V!Answers, V!Fail, V!Return, V!vagalumeVars, V!TypeOK
  <1> QED
    BY <1>1, <1>2, <1>3, <1>4, <1>5, <1>6, <1>7, <1>8 DEF V!Next, V!Poll

-----------------------------------------------------------------------------
(* MPRIS *)
Copy == [status : Status, fields : Fields]

LEMMA MprisOn ==
  ASSUME M!TypeOK, NEW s \in Service, service[s].on
  PROVE  service[s] \in [on : {TRUE}, code : Code, track : Track, told : BOOLEAN]
  <1>1. service[s] # M!Absent
    BY DEF M!Absent
  <1> QED
    BY <1>1 DEF M!TypeOK, M!Present

LEMMA CopyTypes ==
  ASSUME NEW p \in Copy
  PROVE  /\ \A t \in Track : M!WithTrack(p, t) \in Copy
         /\ \A c \in Code : M!WithStatus(p, c) \in Copy
         /\ M!NewPlayer \in Copy
  <1>1. ASSUME NEW t \in Track
        PROVE  M!WithTrack(p, t) \in Copy
    <2>1. t \in Fields
      BY PollingTypes
    <2>2. [f \in M!Field |-> IF t[f] # Nothing THEN t[f] ELSE p.fields[f]] \in Fields
      BY <2>1 DEF Copy, Fields, Field, M!Field
    <2> QED
      BY <2>2 DEF M!WithTrack, Copy
  <1>2. ASSUME NEW c \in Code
        PROVE  M!WithStatus(p, c) \in Copy
    <2>1. M!StatusOf(c) \in Status
      BY DEF M!StatusOf, Status, Active
    <2> QED
      BY <2>1 DEF M!WithStatus, Copy
  <1>3. M!NewPlayer \in Copy
    BY SamePolling, PollingTypes DEF M!NewPlayer, Copy, Status
  <1> QED
    BY <1>1, <1>2, <1>3

(* The parts of the type that the table and the poll make up               *)
TableOK ==
    /\ M!Known \subseteq Service
    /\ players \in [M!Known -> Copy]
    /\ unchecked \subseteq M!Known
    /\ current \in M!Known \cup {Nobody}
    /\ found \in M!Known \cup {Nobody}

LEMMA MprisTypes ==
  M!TypeOK <=> /\ service \in [Service -> {M!Absent} \cup M!Present]
               /\ signals \in Seq(M!Signal)
               /\ TableOK
  BY SamePolling DEF M!TypeOK, TableOK, Copy

LEMMA MprisTypesAfter ==
  M!TypeOK' <=> /\ service' \in [Service -> {M!Absent} \cup M!Present]
                /\ signals' \in Seq(M!Signal)
                /\ TableOK'
  BY SamePolling DEF M!TypeOK, TableOK, Copy, M!Known

LEMMA MprisEnvironment ==
  ASSUME M!TypeOK, M!Environment
  PROVE  M!TypeOK' /\ UNCHANGED <<bus, phase, answer>>
  <1> USE DEF M!TypeOK, M!Present
  <1> DEFINE Kept == UNCHANGED <<bus, phase, answer, players, unchecked, current, found>>
  <1>1. ASSUME NEW s \in Service, NEW c \in Code, NEW t \in TracksOf[s],
               M!Appears(s, c, t)
        PROVE  M!TypeOK' /\ Kept
    BY <1>1, TracksOfAssumption DEF M!Appears, M!Known
  <1>2. ASSUME NEW s \in Service, M!Vanishes(s)
        PROVE  M!TypeOK' /\ Kept
    BY <1>2 DEF M!Vanishes, M!Known
  <1>3. ASSUME NEW s \in Service, NEW c \in Code, M!ChangesStatus(s, c)
        PROVE  M!TypeOK' /\ Kept
    <2>1. M!StatusSignal(s, c) \in M!Signal
      BY DEF M!StatusSignal, M!Signal
    <2>2. signals' \in Seq(M!Signal)
      BY <1>3, <2>1 DEF M!ChangesStatus, M!Emits
    <2>3. service[s] \in M!Present
      BY <1>3, MprisOn DEF M!ChangesStatus
    <2>4. (s \in M!Known) \in BOOLEAN
      OBVIOUS
    <2>5. [service[s] EXCEPT !.code = c, !.told = (s \in M!Known)] \in M!Present
      BY <2>3, <2>4
    <2>6. service' = [service EXCEPT ![s] =
                        [service[s] EXCEPT !.code = c, !.told = (s \in M!Known)]]
      BY <1>3 DEF M!ChangesStatus
    <2>7. service' \in [Service -> {M!Absent} \cup M!Present]
      BY <2>5, <2>6
    <2> QED
      BY <1>3, <2>2, <2>7 DEF M!ChangesStatus, M!Known
  <1>4. ASSUME NEW s \in Service, NEW t \in TracksOf[s], M!ChangesTrack(s, t)
        PROVE  M!TypeOK' /\ Kept
    <2>0. t \in Track
      BY TracksOfAssumption
    <2>1. M!TrackSignal(s, t) \in M!Signal
      BY <2>0 DEF M!TrackSignal, M!Signal
    <2>2. signals' \in Seq(M!Signal)
      BY <1>4, <2>1 DEF M!ChangesTrack, M!Emits
    <2>3. service[s] \in M!Present
      BY <1>4, MprisOn DEF M!ChangesTrack
    <2>4. service' \in [Service -> {M!Absent} \cup M!Present]
      BY <1>4, <2>0, <2>3 DEF M!ChangesTrack
    <2> QED
      BY <1>4, <2>2, <2>4 DEF M!ChangesTrack, M!Known
  <1> QED
    BY <1>1, <1>2, <1>3, <1>4 DEF M!Environment

LEMMA MprisPoll ==
  ASSUME M!TypeOK, PollingTypeOK, M!Poll
  PROVE  (PollingTypeOK /\ M!TypeOK)'
  <1> USE DEF PollingTypeOK, TableOK
  <1>0. /\ service \in [Service -> {M!Absent} \cup M!Present]
        /\ signals \in Seq(M!Signal)
        /\ TableOK
    BY MprisTypes
  <1>1. ASSUME NEW got \in BOOLEAN, M!List(got)
        PROVE  (PollingTypeOK /\ M!TypeOK)'
    <2>1. M!Listed(M!Unlisted) \in [M!Known \cup M!Unlisted -> Copy]
      <3>1. M!NewPlayer \in Copy
        BY SamePolling, PollingTypes DEF M!NewPlayer, Copy, Status
      <3> QED
        BY <1>0, <3>1 DEF M!Listed
    <2>2. players' \in [DOMAIN players' -> Copy] /\ DOMAIN players' \subseteq Service
      BY <1>0, <1>1, <2>1 DEF M!List, M!Unlisted, M!Known
    <2>3. TableOK' /\ UNCHANGED <<service, signals>>
      BY <1>1, <2>2 DEF M!List, M!Known
    <2>4. PollingTypeOK'
      BY <1>1, SamePolling, PollingTypes DEF M!List, M!Begin
    <2> QED
      BY <1>0, <2>3, <2>4, MprisTypesAfter
  <1>2. ASSUME NEW s \in Service, NEW got \in BOOLEAN, M!CheckStatus(s, got)
        PROVE  (PollingTypeOK /\ M!TypeOK)'
    <2>1. s \in M!Known /\ players[s] \in Copy
      BY <1>0, <1>2 DEF M!CheckStatus
    <2>2. players' \in [M!Known -> Copy]
      <3>1. CASE got
        <4>1. service[s].code \in Code
          BY <1>2, <3>1, MprisOn DEF M!CheckStatus
        <4>2. M!WithStatus(players[s], service[s].code) \in Copy
          BY <2>1, <4>1, CopyTypes
        <4> QED
          BY <1>0, <1>2, <3>1, <4>2 DEF M!CheckStatus
      <3>2. CASE ~got
        BY <1>0, <1>2, <3>2 DEF M!CheckStatus
      <3> QED
        BY <3>1, <3>2
    <2>3. M!Known' = M!Known
      BY <2>2 DEF M!Known
    <2>4. TableOK'
      BY <1>0, <1>2, <2>1, <2>2, <2>3 DEF M!CheckStatus
    <2> QED
      BY <1>0, <1>2, <2>4, MprisTypesAfter DEF M!CheckStatus
  <1>3. ASSUME NEW got \in BOOLEAN, M!CheckMetadata(got)
        PROVE  (PollingTypeOK /\ M!TypeOK)'
    <2>1. current \in M!Known /\ current \in Service /\ players[current] \in Copy
      BY <1>0, <1>3 DEF M!CheckMetadata
    <2>2. players' \in [M!Known -> Copy]
      <3>1. CASE got
        <4>1. service[current].track \in Track
          BY <1>3, <2>1, <3>1, MprisOn DEF M!CheckMetadata
        <4>2. M!WithTrack(players[current], service[current].track) \in Copy
          BY <2>1, <4>1, CopyTypes
        <4> QED
          BY <1>0, <1>3, <3>1, <4>2 DEF M!CheckMetadata
      <3>2. CASE ~got
        BY <1>0, <1>3, <3>2 DEF M!CheckMetadata
      <3> QED
        BY <3>1, <3>2
    <2>3. M!Known' = M!Known
      BY <2>2 DEF M!Known
    <2>4. TableOK'
      BY <1>0, <1>3, <2>1, <2>2, <2>3 DEF M!CheckMetadata
    <2> QED
      BY <1>0, <1>3, <2>4, MprisTypesAfter DEF M!CheckMetadata
  <1>4. CASE M!Finish
    <2>1. answer' \in Answer /\ phase' = "done"
      <3>1. CASE ~bus
        BY <1>4, <3>1, SamePolling, FailType DEF M!Finish, M!Answers, M!Fail
      <3>2. CASE bus /\ found = Nobody
        BY <1>4, <3>2, SamePolling, PollingTypes, ReturnType
           DEF M!Finish, M!Answers, M!Return, Status
      <3>3. CASE bus /\ found # Nobody
        <4>1. players[found] \in Copy
          BY <1>0, <3>3
        <4> QED
          BY <1>4, <3>3, <4>1, ReturnType DEF M!Finish, M!Answers, M!Return, Copy
      <3> QED
        BY <3>1, <3>2, <3>3
    <2>2. TableOK' /\ UNCHANGED <<bus, service, signals>>
      BY <1>0, <1>4 DEF M!Finish, M!Known
    <2> QED
      BY <1>0, <2>1, <2>2, MprisTypesAfter
  <1> QED
    BY <1>1, <1>2, <1>3, <1>4 DEF M!Poll

(* Whoever has sent us a signal is in the table: signals are connected     *)
(* only when the record is made.                                           *)
SignalsAreOfKnown == \A i \in DOMAIN signals : signals[i].from \in M!Known

LEMMA MprisSignal ==
  ASSUME M!TypeOK, SignalsAreOfKnown, M!SignalArrives
  PROVE  M!TypeOK' /\ UNCHANGED <<bus, phase, answer>>
  <1> USE DEF TableOK
  <1>0. /\ service \in [Service -> {M!Absent} \cup M!Present]
        /\ signals \in Seq(M!Signal)
        /\ TableOK
    BY MprisTypes
  <1> DEFINE m == Head(signals)
  <1>1. m \in M!Signal /\ Tail(signals) \in Seq(M!Signal) /\ m.from \in M!Known
    BY <1>0, HeadTail DEF M!SignalArrives, SignalsAreOfKnown
  <1>2. players[m.from] \in Copy
    BY <1>0, <1>1
  <1>3. M!Handled(players[m.from], m) \in Copy
    <2>1. CASE m.kind = "StatusChange"
      BY <1>1, <1>2, <2>1, CopyTypes DEF M!Handled, M!Signal
    <2>2. CASE m.kind # "StatusChange"
      BY <1>1, <1>2, <2>2, CopyTypes DEF M!Handled, M!Signal
    <2> QED
      BY <2>1, <2>2
  <1>4. players' \in [M!Known -> Copy]
    BY <1>0, <1>1, <1>3 DEF M!SignalArrives
  <1>5. M!Known' = M!Known
    BY <1>4 DEF M!Known
  <1>6. TableOK'
    BY <1>0, <1>4, <1>5 DEF M!SignalArrives
  <1> QED
    BY <1>0, <1>1, <1>6, MprisTypesAfter DEF M!SignalArrives

(* They stay so: nothing is taken from the table.                          *)
LEMMA SignalsStayOfKnown ==
  ASSUME M!TypeOK, M!TypeOK', SignalsAreOfKnown, M!Next
  PROVE  SignalsAreOfKnown'
  <1> USE DEF SignalsAreOfKnown, M!TypeOK
  <1>0. signals \in Seq(M!Signal) /\ DOMAIN signals = 1 .. Len(signals)
    OBVIOUS
  <1>1. ASSUME NEW s \in Service, NEW m \in M!Signal, m.from = s,
               M!Emits(s, m), players' = players
        PROVE  SignalsAreOfKnown'
    <2>1. CASE s \in M!Known
      <3>1. signals' = Append(signals, m)
        BY <1>1, <2>1 DEF M!Emits
      <3>2. ASSUME NEW i \in DOMAIN signals' PROVE signals'[i].from \in M!Known
        BY <1>0, <1>1, <2>1, <3>1, <3>2
      <3> QED
        BY <1>1, <3>2 DEF M!Known
    <2>2. CASE s \notin M!Known
      BY <1>1, <2>2 DEF M!Emits, M!Known
    <2> QED
      BY <2>1, <2>2
  <1>2. CASE M!Environment
    <2>1. ASSUME NEW s \in Service, NEW c \in Code, M!ChangesStatus(s, c)
          PROVE  SignalsAreOfKnown'
      BY <1>1, <2>1 DEF M!ChangesStatus, M!StatusSignal, M!Signal
    <2>2. ASSUME NEW s \in Service, NEW t \in TracksOf[s], M!ChangesTrack(s, t)
          PROVE  SignalsAreOfKnown'
      <3>1. t \in Track
        BY TracksOfAssumption
      <3> QED
        BY <1>1, <2>2, <3>1 DEF M!ChangesTrack, M!TrackSignal, M!Signal
    <2>3. CASE UNCHANGED <<signals, players>>
      BY <2>3 DEF M!Known
    <2> QED
      BY <1>2, <2>1, <2>2, <2>3 DEF M!Environment, M!Appears, M!Vanishes
  <1>3. CASE M!SignalArrives
    <2>1. signals # <<>> /\ signals' = Tail(signals) /\ M!Known' = M!Known
      BY <1>3 DEF M!SignalArrives, M!Known
    <2>2. ASSUME NEW i \in DOMAIN signals'
          PROVE  i + 1 \in DOMAIN signals /\ signals'[i] = signals[i + 1]
      BY <1>0, <2>1, <2>2
    <2> QED
      BY <2>1, <2>2
  <1>4. CASE M!Poll
    <2>1. signals' = signals /\ M!Known \subseteq M!Known'
      BY <1>4 DEF M!Poll, M!List, M!Listed, M!CheckStatus, M!CheckMetadata,
         M!Finish, M!Known
    <2> QED
      BY <2>1
  <1> QED
    BY <1>2, <1>3, <1>4 DEF M!Next

LEMMA MprisStep ==
  ASSUME PollingTypeOK, M!TypeOK, SignalsAreOfKnown, M!Next
  PROVE  (PollingTypeOK /\ M!TypeOK /\ SignalsAreOfKnown)'
  <1>1. (PollingTypeOK /\ M!TypeOK)'
    BY MprisEnvironment, MprisSignal, MprisPoll DEF M!Next, PollingTypeOK
  <1> QED
    BY <1>1, SignalsStayOfKnown

-----------------------------------------------------------------------------
(* The whole *)
TypeInv == TypeOK /\ SignalsAreOfKnown

LEMMA MprisKept ==
  ASSUME UNCHANGED mprisVars
  PROVE  /\ M!TypeOK => M!TypeOK'
         /\ SignalsAreOfKnown => SignalsAreOfKnown'
  BY DEF mprisVars, M!TypeOK, M!Known, SignalsAreOfKnown

LEMMA VagalumeKept ==
  ASSUME UNCHANGED vagalumeVars
  PROVE  V!TypeOK => V!TypeOK'
  BY DEF vagalumeVars, V!TypeOK

LEMMA QuodLibetKept ==
  ASSUME UNCHANGED quodLibetVars
  PROVE  Q!TypeOK => Q!TypeOK'
  BY DEF quodLibetVars, Q!TypeOK

LEMMA MessengerKept ==
  ASSUME UNCHANGED messengerVars
  PROVE  C!TypeOK => C!TypeOK'
  BY DEF messengerVars, C!TypeOK

LEMMA TypeInit ==
  ASSUME Init
  PROVE  TypeInv
  <1>1. PollingTypeOK
    BY PollingTypes DEF Init, PollingTypeOK
  <1>2. M!TypeOK /\ SignalsAreOfKnown
    <2>1. M!Known = {} /\ players \in [M!Known -> [status : M!Status, fields : M!Fields]]
      BY DEF Init, M!Init, M!Known
    <2>2. signals = <<>> /\ signals \in Seq(M!Signal) /\ DOMAIN signals = {}
      BY DEF Init, M!Init
    <2>3. service \in [Service -> {M!Absent} \cup M!Present]
      BY DEF Init, M!Init
    <2> QED
      BY <2>1, <2>2, <2>3 DEF Init, M!Init, M!TypeOK, SignalsAreOfKnown
  <1>3. V!TypeOK
    <2>1. inbox \in Seq(V!Message)
      BY DEF Init, V!Init
    <2> QED
      BY <2>1 DEF Init, V!Init, V!TypeOK, V!Process
  <1>4. Q!TypeOK
    <2>1. pauses \in Seq(Q!Active) /\ gState \in Q!Active
      BY SamePolling DEF Init, Q!Init, Active
    <2> QED
      BY <2>1 DEF Init, Q!Init, Q!TypeOK, Q!Process
  <1>5. C!TypeOK
    BY SamePolling, PollingTypes DEF Init, C!Init, C!TypeOK, C!Message
  <1> QED
    BY <1>1, <1>2, <1>3, <1>4, <1>5 DEF Init, TypeInv, TypeOK

LEMMA TypeStep ==
  ASSUME TypeInv, [Next]_vars
  PROVE  TypeInv'
  <1> USE DEF TypeInv, TypeOK
  <1>1. CASE MprisOnly /\ M!Next
    BY <1>1, MprisStep, VagalumeKept, QuodLibetKept, MessengerKept DEF MprisOnly
  <1>2. CASE VagalumeOnly /\ V!Next
    BY <1>2, VagalumeStep, MprisKept, QuodLibetKept, MessengerKept
       DEF VagalumeOnly
  <1>3. CASE QuodLibetOnly /\ Q!Next
    BY <1>3, QuodLibetStep, MprisKept, VagalumeKept, MessengerKept
       DEF QuodLibetOnly
  <1>4. CASE MessengerOnly /\ C!Next
    BY <1>4, MessengerStep, MprisKept, VagalumeKept, QuodLibetKept
       DEF MessengerOnly
  <1>5. CASE UNCHANGED vars
    BY <1>5, MprisKept, VagalumeKept, QuodLibetKept, MessengerKept
       DEF vars, PollingTypeOK
  <1> QED
    BY <1>1, <1>2, <1>3, <1>4, <1>5 DEF Next

LEMMA TypeInvariance == Spec => []TypeInv
  BY TypeInit, TypeStep, PTL DEF Spec

(* Every variable stays in its type: no signal, answer or message makes a  *)
(* reader write outside its table, and whatever a track_func returns is a  *)
(* TrackInfo (the readers of mpris.c, vagalume.c, quodlibet.c and          *)
(* msn-compat.c).                                                          *)
THEOREM TypeCorrect == Spec => []TypeOK
  <1>1. TypeInv => TypeOK
    BY DEF TypeInv
  <1> QED
    BY <1>1, TypeInvariance, PTL
-----------------------------------------------------------------------------
(* What the copies hold *)
LEMMA PauseStep ==
  ASSUME Q!TypeOK, PauseIsHeard, Q!Next
  PROVE  PauseIsHeard'
  <1> USE DEF PauseIsHeard, Q!PauseIsHeard, Q!TypeOK
  <1>1. CASE UNCHANGED <<pauses, gState>>
    <2>1. CASE UNCHANGED quodLibet
      BY <1>1, <2>1
    <2>2. ASSUME NEW t \in Track, NEW s \in Q!Active, Q!Starts(t, s)
          PROVE  PauseIsHeard'
      BY <2>2 DEF Q!Starts
    <2>3. CASE Q!Quits
      BY <2>3 DEF Q!Quits, Q!Absent
    <2>4. ASSUME NEW t \in Track, Q!NextSong(t)
          PROVE  PauseIsHeard'
      BY <2>4, QuodLibetOn DEF Q!NextSong
    <2>5. ASSUME NEW s \in Q!Active, Q!Pauses(s)
          PROVE  PauseIsHeard'
      <3>1. pauses' = pauses /\ ~connected
        BY <1>1, <2>5 DEF Q!Pauses
      <3>2. quodLibet' = [quodLibet EXCEPT !.state = s, !.told = FALSE]
        BY <2>5, <3>1 DEF Q!Pauses
      <3> QED
        BY <2>5, <3>2, QuodLibetOn DEF Q!Pauses
    <2> QED
      BY <2>1, <2>2, <2>3, <2>4, <2>5 DEF Q!Next, Q!Environment, Q!SignalArrives,
         Q!Poll, Q!Ask, Q!NotRunning, Q!CurrentSong, Q!quodLibetVars
  <1>2. ASSUME NEW s \in Q!Active, Q!Pauses(s)
        PROVE  PauseIsHeard'
    <2>1. CASE connected
      <3>1. pauses' = Append(pauses, s) /\ pauses' # <<>>
            /\ pauses'[Len(pauses')] = s
        BY <1>2, <2>1 DEF Q!Pauses
      <3>2. quodLibet'.state = s
        BY <1>2, QuodLibetOn DEF Q!Pauses
      <3> QED
        BY <3>1, <3>2
    <2>2. CASE ~connected
      BY <1>1, <1>2, <2>2 DEF Q!Pauses
    <2> QED
      BY <2>1, <2>2
  <1>3. CASE Q!SignalArrives
    <2>1. /\ pauses # <<>> /\ pauses' = Tail(pauses) /\ gState' = Head(pauses)
          /\ quodLibet' = quodLibet
      BY <1>3 DEF Q!SignalArrives, Q!StateAfter
    <2>2. CASE pauses' = <<>>
      <3>0. Len(pauses') = Len(pauses) - 1 /\ gState' = pauses[1]
        BY <2>1
      <3>1. Len(pauses') = 0
        BY <2>2
      <3>2. Len(pauses) \in Nat
        OBVIOUS
      <3>3. Len(pauses) = 1
        BY <3>0, <3>1, <3>2
      <3>4. gState' = pauses[Len(pauses)]
        BY <3>0, <3>3, Zenon
      <3> QED
        BY <2>1, <2>2, <3>4
    <2>3. CASE pauses' # <<>>
      <3>1. pauses'[Len(pauses')] = pauses[Len(pauses)]
        BY <2>1, <2>3
      <3> QED
        BY <2>1, <2>3, <3>1
    <2> QED
      BY <2>2, <2>3
  <1> QED
    BY <1>1, <1>2, <1>3 DEF Q!Next, Q!Environment, Q!Starts, Q!Quits, Q!NextSong,
       Q!Poll, Q!Ask, Q!NotRunning, Q!CurrentSong, Q!quodLibetVars

LEMMA MessageStep ==
  ASSUME C!TypeOK, OnlyLastMessage, C!Next
  PROVE  OnlyLastMessage'
  <1> USE DEF OnlyLastMessage, C!OnlyLastMessage, C!TypeOK
  <1>1. ASSUME NEW m \in C!Message, NEW a \in Text \cup {Nothing},
               C!Receives(m, a), msnti'.status = "NORMAL"
        PROVE  /\ m.form \in C!Form /\ m.enabled
               /\ {msnti'.fields.track, msnti'.fields.artist}
                    = {m.of.track, m.of.artist}
    <2> DEFINE F == C!FieldsOf(m, a)
    <2>1. m.form \in C!Form /\ m.enabled
      BY <1>1 DEF C!Receives, C!Processed
    <2>2. msnti'.fields = IF swap THEN C!Swapped(F) ELSE F
      BY <1>1, <2>1 DEF C!Receives, C!Processed
    <2>3. F \in Fields /\ m.of \in Fields
      BY <2>1, FieldsOfType, SamePolling, PollingTypes DEF C!Message, C!Form
    <2>4. F.track = m.of.track /\ F.artist = m.of.artist
      BY <2>1, <2>3 DEF C!FieldsOf, C!Form, Fields, Field
    <2>5. C!Swapped(F).track = F.artist /\ C!Swapped(F).artist = F.track
      BY <2>3 DEF C!Swapped, Fields, Field
    <2> QED
      BY <2>1, <2>2, <2>4, <2>5
  <1>2. CASE C!SwapToggled \/ C!Ask
    BY <1>2 DEF C!SwapToggled, C!Ask, C!messengerVars
  <1>3. CASE C!Answers
    BY <1>3 DEF C!Answers
  <1> QED
    BY <1>1, <1>2, <1>3 DEF C!Next, C!Poll, C!Receives

(* What a status signal or an answer to GetStatus leaves of service s: if  *)
(* it has told us of its last change, it is in the table, and its status   *)
(* is there or will be when what waits is in.                              *)
Heard(s) ==
    service[s].on /\ service[s].told =>
        s \in M!Known /\ M!WillBe(s, M!StatusOf(service[s].code))

HeardInv == \A s \in Service : Heard(s)

(* Nothing that Heard speaks of has changed.                               *)
LEMMA HeardKept ==
  ASSUME NEW s \in Service, Heard(s), s \in M!Known => s \in M!Known',
         UNCHANGED <<service[s].on, service[s].told, service[s].code, signals>>,
         s \in M!Known => UNCHANGED players[s].status
  PROVE  Heard(s)'
  <1>1. M!Waiting(s)' = M!Waiting(s)
    BY DEF M!Waiting
  <1> SUFFICES ASSUME service[s].on, service[s].told
               PROVE  /\ s \in M!Known'
                      /\ M!WillBe(s, M!StatusOf(service[s].code))'
    BY DEF Heard
  <1>2. s \in M!Known /\ M!WillBe(s, M!StatusOf(service[s].code))
    BY DEF Heard
  <1>3. M!StatusOf(service[s].code)' = M!StatusOf(service[s].code)
    BY DEF M!StatusOf
  <1> QED
    BY <1>1, <1>2, <1>3 DEF M!WillBe, M!StatusOf

(* A signal that is no change of the status of s joins the queue.          *)
LEMMA HeardAppended ==
  ASSUME M!TypeOK, NEW s \in Service, Heard(s), NEW m \in M!Signal,
         m.from # s \/ m.kind # "StatusChange",
         signals' = Append(signals, m), UNCHANGED players,
         UNCHANGED <<service[s].on, service[s].told, service[s].code>>
  PROVE  Heard(s)'
  <1>1. signals \in Seq(M!Signal)
    BY DEF M!TypeOK
  <1>2. /\ DOMAIN signals' = 1 .. (Len(signals) + 1)
        /\ DOMAIN signals = 1 .. Len(signals)
        /\ Len(signals) \in Nat
        /\ signals'[Len(signals) + 1] = m
        /\ \A i \in DOMAIN signals : signals'[i] = signals[i]
    BY <1>1
  <1>3. M!Waiting(s)' = M!Waiting(s)
    BY <1>2 DEF M!Waiting
  <1>4. \A i \in M!Waiting(s) : signals'[i] = signals[i]
    BY <1>2 DEF M!Waiting
  <1> QED
    BY <1>3, <1>4 DEF Heard, M!WillBe, M!Known, M!StatusOf

LEMMA HeardChange ==
  ASSUME M!TypeOK, HeardInv, NEW s \in Service, NEW c \in Code,
         M!ChangesStatus(s, c)
  PROVE  HeardInv'
  <1> SUFFICES ASSUME NEW x \in Service PROVE Heard(x)'
    BY DEF HeardInv
  <1>0. /\ signals \in Seq(M!Signal) /\ Len(signals) \in Nat
        /\ DOMAIN service = Service
        /\ service[s] \in [on : {TRUE}, code : Code, track : Track, told : BOOLEAN]
    <2>1. service[s].on
      BY DEF M!ChangesStatus
    <2>2. service[s] \in [on : {TRUE}, code : Code, track : Track, told : BOOLEAN]
      BY <2>1, MprisOn
    <2>3. signals \in Seq(M!Signal) /\ DOMAIN service = Service
      BY DEF M!TypeOK
    <2>4. Len(signals) \in Nat
      BY <2>3
    <2> QED
      BY <2>2, <2>3, <2>4, Zenon
  <1> DEFINE new == s \in M!Known
             m == M!StatusSignal(s, c)
  <1>1. service' = [service EXCEPT ![s] =
                        [service[s] EXCEPT !.code = c, !.told = new]]
    BY DEF M!ChangesStatus
  <1>2. service'[s].code = c /\ service'[s].told = new
    <2> HIDE DEF new
    <2> QED
      BY <1>0, <1>1
  <1>3. UNCHANGED players /\ signals' = IF new THEN Append(signals, m) ELSE signals
    BY DEF M!ChangesStatus, M!Emits
  <1>4. m \in M!Signal
    BY DEF M!StatusSignal, M!Signal
  <1>5. CASE x = s /\ new
    <2>1. /\ signals' = Append(signals, m)
          /\ DOMAIN signals' = 1 .. (Len(signals) + 1)
          /\ signals'[Len(signals) + 1] = m
      BY <1>0, <1>3, <1>4, <1>5
    <2>2. Len(signals) + 1 \in M!Waiting(s)'
      BY <1>0, <2>1 DEF M!Waiting, M!StatusSignal
    <2>3. ASSUME NEW i \in M!Waiting(s)', \A j \in M!Waiting(s)' : j <= i
          PROVE  signals'[i].code = c
      <3>1. i \in 1 .. (Len(signals) + 1) /\ Len(signals) + 1 <= i
        BY <2>1, <2>2, <2>3 DEF M!Waiting
      <3>2. i = Len(signals) + 1
        BY <1>0, <3>1
      <3> QED
        BY <2>1, <3>2 DEF M!StatusSignal
    <2> QED
      BY <1>2, <1>3, <1>5, <2>2, <2>3 DEF Heard, M!WillBe, M!Known, M!StatusOf
  <1>6. CASE x = s /\ ~new
    BY <1>2, <1>6 DEF Heard
  <1>7. CASE x # s
    <2>1. service'[x] = service[x] /\ Heard(x)
      BY <1>0, <1>1, <1>7 DEF HeardInv
    <2>2. CASE new
      <3>1. signals' = Append(signals, m) /\ m.from # x
        BY <1>3, <1>7, <2>2 DEF M!StatusSignal
      <3> QED
        BY <1>3, <1>4, <2>1, <3>1, HeardAppended
    <2>3. CASE ~new
      BY <1>3, <2>1, <2>3, HeardKept DEF M!Known
    <2> QED
      BY <2>2, <2>3
  <1> QED
    BY <1>5, <1>6, <1>7

LEMMA HeardEnvironment ==
  ASSUME M!TypeOK, HeardInv, M!Environment
  PROVE  HeardInv'
  <1>0. DOMAIN service = Service
    BY DEF M!TypeOK
  <1>1. ASSUME NEW s \in Service, NEW c \in Code, NEW t \in TracksOf[s],
               M!Appears(s, c, t)
        PROVE  HeardInv'
    <2>1. ASSUME NEW x \in Service PROVE Heard(x)'
      <3>1. CASE x = s
        BY <1>0, <1>1, <3>1 DEF M!Appears, Heard
      <3>2. CASE x # s
        BY <1>0, <1>1, <3>2, HeardKept DEF M!Appears, HeardInv, M!Known
      <3> QED
        BY <3>1, <3>2
    <2> QED
      BY <2>1 DEF HeardInv
  <1>2. ASSUME NEW s \in Service, M!Vanishes(s)
        PROVE  HeardInv'
    <2>1. ASSUME NEW x \in Service PROVE Heard(x)'
      <3>1. CASE x = s
        BY <1>0, <1>2, <3>1 DEF M!Vanishes, Heard, M!Absent
      <3>2. CASE x # s
        BY <1>0, <1>2, <3>2, HeardKept DEF M!Vanishes, HeardInv, M!Known
      <3> QED
        BY <3>1, <3>2
    <2> QED
      BY <2>1 DEF HeardInv
  <1>3. ASSUME NEW s \in Service, NEW c \in Code, M!ChangesStatus(s, c)
        PROVE  HeardInv'
    BY <1>3, HeardChange
  <1>4. ASSUME NEW s \in Service, NEW t \in TracksOf[s], M!ChangesTrack(s, t)
        PROVE  HeardInv'
    <2>1. ASSUME NEW x \in Service PROVE Heard(x)'
      <3> DEFINE m == M!TrackSignal(s, t)
      <3>0. m \in M!Signal /\ m.kind # "StatusChange"
        BY TracksOfAssumption DEF M!TrackSignal, M!Signal
      <3>1. UNCHANGED <<service[x].on, service[x].told, service[x].code>>
        <4>1. CASE x = s
          <5>1. service[s] \in [on : {TRUE}, code : Code, track : Track,
                                told : BOOLEAN]
            BY <1>4, MprisOn DEF M!ChangesTrack
          <5> QED
            BY <1>0, <1>4, <4>1, <5>1 DEF M!ChangesTrack
        <4>2. CASE x # s
          BY <1>0, <1>4, <4>2 DEF M!ChangesTrack
        <4> QED
          BY <4>1, <4>2
      <3>2. Heard(x) /\ UNCHANGED players
        BY <1>4 DEF HeardInv, M!ChangesTrack
      <3>3. CASE s \in M!Known
        <4>1. signals' = Append(signals, m)
          BY <1>4, <3>3 DEF M!ChangesTrack, M!Emits
        <4> QED
          BY <3>0, <3>1, <3>2, <4>1, HeardAppended
      <3>4. CASE s \notin M!Known
        <4>1. signals' = signals
          BY <1>4, <3>4 DEF M!ChangesTrack, M!Emits
        <4> QED
          BY <3>1, <3>2, <4>1, HeardKept DEF M!Known
      <3> QED
        BY <3>3, <3>4
    <2> QED
      BY <2>1 DEF HeardInv
  <1> QED
    BY <1>1, <1>2, <1>3, <1>4 DEF M!Environment

(* The oldest signal is handled: if it was the last change of status of    *)
(* its service that waited, the table has its status now.                  *)
LEMMA HeardArrival ==
  ASSUME M!TypeOK, SignalsAreOfKnown, HeardInv, M!SignalArrives
  PROVE  HeardInv'
  <1> SUFFICES ASSUME NEW x \in Service, Heard(x), service[x].on, service[x].told
               PROVE  x \in M!Known' /\ M!WillBe(x, M!StatusOf(service[x].code))'
    BY DEF HeardInv, Heard, M!SignalArrives, M!StatusOf
  <1> DEFINE m == signals[1]
             isLast == m.from = x /\ m.kind = "StatusChange"
  <1>1. /\ signals \in Seq(M!Signal) /\ Len(signals) \in Nat \ {0}
        /\ DOMAIN signals = 1 .. Len(signals)
        /\ DOMAIN signals' = 1 .. (Len(signals) - 1)
        /\ \A i \in DOMAIN signals' : signals'[i] = signals[i + 1]
        /\ Head(signals) = m
    BY DEF M!TypeOK, M!SignalArrives
  <1>2. /\ x \in M!Known /\ M!WillBe(x, M!StatusOf(service[x].code))
        /\ m.from \in M!Known /\ m \in M!Signal
    BY <1>1 DEF Heard, SignalsAreOfKnown
  <1>3. /\ players \in [M!Known -> Copy]
        /\ players' = [players EXCEPT ![m.from] = M!Handled(players[m.from], m)]
    BY <1>1, MprisTypes DEF M!SignalArrives, TableOK
  <1>4. x \in M!Known'
    BY <1>2, <1>3 DEF M!Known
  <1>5. \A i : i \in M!Waiting(x)' <=> i \in Nat \ {0} /\ i + 1 \in M!Waiting(x)
    BY <1>1 DEF M!Waiting
  <1>6. 1 \in M!Waiting(x) <=> isLast
    BY <1>1 DEF M!Waiting
  <1>7. M!Waiting(x) \subseteq Nat \ {0} /\ M!Waiting(x)' \subseteq Nat \ {0}
    BY <1>1 DEF M!Waiting
  <1>8. CASE M!Waiting(x)' = {}
    <2>1. M!Waiting(x) \subseteq {1}
      <3>1. ASSUME NEW i \in M!Waiting(x), i # 1 PROVE FALSE
        <4>1. i - 1 \in Nat \ {0} /\ (i - 1) + 1 = i
          BY <1>7, <3>1
        <4> QED
          BY <1>5, <1>8, <3>1, <4>1
      <3> QED
        BY <3>1
    <2>2. CASE isLast
      <3>1. M!StatusOf(m.code) = M!StatusOf(service[x].code)
        BY <1>2, <1>6, <2>1, <2>2 DEF M!WillBe
      <3>2. players'[x].status = M!StatusOf(m.code)
        BY <1>2, <1>3, <2>2 DEF M!Handled, M!WithStatus, Copy
      <3> QED
        BY <1>4, <1>8, <3>1, <3>2 DEF M!WillBe, M!SignalArrives, M!StatusOf
    <2>3. CASE ~isLast
      <3>1. M!Waiting(x) = {}
        BY <1>6, <2>1, <2>3
      <3>2. players'[x].status = players[x].status
        <4>1. CASE m.from = x
          BY <1>2, <1>3, <2>3, <4>1 DEF M!Handled, M!WithTrack, Copy
        <4>2. CASE m.from # x
          BY <1>2, <1>3, <4>2
        <4> QED
          BY <4>1, <4>2
      <3> QED
        BY <1>2, <1>4, <1>8, <3>1, <3>2 DEF M!WillBe, M!SignalArrives, M!StatusOf
    <2> QED
      BY <2>2, <2>3
  <1>9. CASE M!Waiting(x)' # {}
    <2>1. ASSUME NEW i \in M!Waiting(x)', \A j \in M!Waiting(x)' : j <= i
          PROVE  M!StatusOf(signals'[i].code) = M!StatusOf(service[x].code)
      <3>1. i + 1 \in M!Waiting(x) /\ i \in Nat \ {0}
        BY <1>5, <2>1
      <3>2. ASSUME NEW j \in M!Waiting(x) PROVE j <= i + 1
        <4>1. CASE j = 1
          BY <3>1, <4>1
        <4>2. CASE j # 1
          <5>1. j \in Nat /\ j - 1 \in Nat \ {0} /\ (j - 1) + 1 = j
            BY <1>7, <4>2
          <5>2. j - 1 <= i
            BY <1>5, <2>1, <5>1
          <5> QED
            BY <3>1, <5>1, <5>2
        <4> QED
          BY <4>1, <4>2
      <3>3. signals'[i] = signals[i + 1]
        BY <1>1, <2>1 DEF M!Waiting
      <3> QED
        BY <1>2, <3>1, <3>2, <3>3 DEF M!WillBe
    <2> QED
      BY <1>4, <1>9, <2>1 DEF M!WillBe, M!SignalArrives, M!StatusOf
  <1> QED
    BY <1>8, <1>9

LEMMA HeardPoll ==
  ASSUME M!TypeOK, HeardInv, M!Poll
  PROVE  HeardInv'
  <1> SUFFICES ASSUME NEW x \in Service, Heard(x) PROVE Heard(x)'
    BY DEF HeardInv
  <1>0. players \in [M!Known -> Copy]
    BY MprisTypes DEF TableOK
  <1>1. ASSUME NEW got \in BOOLEAN, M!List(got)
        PROVE  Heard(x)'
    <2>1. \A s \in M!Known : s \in M!Known' /\ players'[s] = players[s]
      BY <1>1 DEF M!List, M!Listed, M!Unlisted, M!Known
    <2> QED
      BY <1>1, <2>1, HeardKept DEF M!List
  <1>2. ASSUME NEW s \in Service, NEW got \in BOOLEAN, M!CheckStatus(s, got)
        PROVE  Heard(x)'
    <2>1. UNCHANGED <<service, signals>> /\ M!Known' = M!Known
      BY <1>2 DEF M!CheckStatus, M!Known
    <2>2. CASE got /\ x = s /\ x \in M!Known
      <3>1. players'[x].status = M!StatusOf(service[x].code)
        BY <1>0, <1>2, <2>2 DEF M!CheckStatus, M!WithStatus, Copy
      <3>2. M!Waiting(x)' = M!Waiting(x)
        BY <2>1 DEF M!Waiting
      <3> QED
        BY <2>1, <2>2, <3>1, <3>2 DEF Heard, M!WillBe, M!StatusOf
    <2>3. CASE ~(got /\ x = s /\ x \in M!Known)
      <3>1. x \in M!Known => players'[x] = players[x]
        BY <1>0, <1>2, <2>3 DEF M!CheckStatus
      <3> QED
        BY <2>1, <3>1, HeardKept
    <2> QED
      BY <2>2, <2>3
  <1>3. ASSUME NEW got \in BOOLEAN, M!CheckMetadata(got)
        PROVE  Heard(x)'
    <2>1. UNCHANGED <<service, signals>> /\ M!Known' = M!Known
      BY <1>3 DEF M!CheckMetadata, M!Known
    <2>2. x \in M!Known => players'[x].status = players[x].status
      BY <1>0, <1>3 DEF M!CheckMetadata, M!WithTrack, Copy
    <2> QED
      BY <2>1, <2>2, HeardKept
  <1>4. CASE M!Finish
    BY <1>4, HeardKept DEF M!Finish, M!Known
  <1> QED
    BY <1>1, <1>2, <1>3, <1>4 DEF M!Poll

LEMMA HeardStep ==
  ASSUME M!TypeOK, SignalsAreOfKnown, HeardInv, M!Next
  PROVE  HeardInv'
  BY HeardEnvironment, HeardArrival, HeardPoll DEF M!Next

(* The inductive invariant: the types are needed for what Tail, Append and *)
(* the updates of records return, HeardInv adds to StatusIsHeard that only *)
(* services in the table have told us anything.                            *)
CopyInv == TypeInv /\ PauseIsHeard /\ OnlyLastMessage /\ HeardInv

LEMMA CopyInvariance == Spec => []CopyInv
  <1>1. Init => CopyInv
    <2>1. Init => ~quodLibet.on /\ msnti.status # "NORMAL"
      BY DEF Init, Q!Init, Q!Absent, C!Init
    <2>2. Init => PauseIsHeard /\ OnlyLastMessage
      BY <2>1 DEF PauseIsHeard, OnlyLastMessage, Q!PauseIsHeard,
         C!OnlyLastMessage
    <2>3. Init => HeardInv
      BY DEF Init, M!Init, M!Absent, HeardInv, Heard
    <2> QED
      BY <2>2, <2>3, TypeInit DEF CopyInv
  <1>2. CopyInv /\ [Next]_vars => CopyInv'
    <2> SUFFICES ASSUME CopyInv, [Next]_vars PROVE CopyInv'
      OBVIOUS
    <2>1. TypeInv'
      BY TypeStep DEF CopyInv
    <2>2. PauseIsHeard'
      <3>1. CASE UNCHANGED quodLibetVars
        BY <3>1 DEF CopyInv, quodLibetVars, PauseIsHeard, Q!PauseIsHeard
      <3> QED
        BY <3>1, PauseStep DEF CopyInv, TypeInv, TypeOK, Next, MprisOnly,
           VagalumeOnly, QuodLibetOnly, MessengerOnly, vars
    <2>3. OnlyLastMessage'
      <3>1. CASE UNCHANGED messengerVars
        BY <3>1 DEF CopyInv, messengerVars, OnlyLastMessage, C!OnlyLastMessage
      <3> QED
        BY <3>1, MessageStep DEF CopyInv, TypeInv, TypeOK, Next, MprisOnly,
           VagalumeOnly, QuodLibetOnly, MessengerOnly, vars
    <2>4. HeardInv'
      <3>1. CASE UNCHANGED mprisVars
        BY <3>1, HeardKept DEF CopyInv, mprisVars, HeardInv, M!Known
      <3> QED
        BY <3>1, HeardStep DEF CopyInv, TypeInv, TypeOK, Next, MprisOnly,
           VagalumeOnly, QuodLibetOnly, MessengerOnly, vars
    <2> QED
      BY <2>1, <2>2, <2>3, <2>4 DEF CopyInv
  <1> QED
    BY <1>1, <1>2, PTL DEF Spec

(* g_state (quodlibet.c), which only the signals Paused and Unpaused set,  *)
(* agrees with a player that has told us of its last change as soon as the *)
(* signals that wait are in, however many there are.                       *)
THEOREM PausesHeard == Spec => []PauseIsHeard
  <1>1. CopyInv => PauseIsHeard
    BY DEF CopyInv
  <1> QED
    BY <1>1, CopyInvariance, PTL

(* The table of mpris.c agrees, once what waits on the connection is in,   *)
(* with every service that has told us of a change of its status: a signal *)
(* that is older than the answer it overtook does no lasting harm, and a   *)
(* service that comes back does not inherit what it was told before.       *)
THEOREM StatusesHeard == Spec => []StatusIsHeard
  <1>1. CopyInv => StatusIsHeard
    BY DEF CopyInv, TypeInv, TypeOK, M!TypeOK, HeardInv, Heard, StatusIsHeard,
       M!StatusIsHeard
  <1> QED
    BY <1>1, CopyInvariance, PTL

(* process_message() (msn-compat.c) leaves nothing of an earlier message   *)
(* that would be announced, whatever the texts and the preference are.     *)
THEOREM MessagesForgotten == Spec => []OnlyLastMessage
  <1>1. CopyInv => OnlyLastMessage
    BY DEF CopyInv
  <1> QED
    BY <1>1, CopyInvariance, PTL
-----------------------------------------------------------------------------
(* The refinement of PlayerSelection *)

(* What a track_func is given there.                                       *)
Asked == [status |-> "OFF", by |-> Nobody, player |-> choice,
          holds |-> [f \in Field |-> Nobody]]

(* And what it makes of that by returning the fields F.                    *)
Answered(s, F) ==
    [status |-> s, by |-> choice, player |-> choice,
     holds |-> [f \in Field |-> IF F[f] = Nothing THEN Nobody ELSE choice]]

LEMMA SameSelection ==
    Selection!Field = Field /\ Selection!Active = Active
  BY DEF Selection!Field, Field, Selection!Active, Active

LEMMA AnswerFailed ==
  ASSUME answer' = [Unanswered EXCEPT !.b = FALSE], phase' = "done",
         choice' = choice
  PROVE  PollsAnswer' = Asked /\ answer'.b = FALSE
  BY NobodyAssumption DEF PollsAnswer, Asked, Unanswered, NoFields, Field

LEMMA AnswerReturned ==
  ASSUME NEW r, NEW s, NEW F,
         answer' = [b |-> r, by |-> "player", status |-> s, fields |-> F],
         phase' = "done", choice' = choice
  PROVE  PollsAnswer' = Answered(s, F) /\ answer'.b = r
  BY NobodyAssumption DEF PollsAnswer, Answered, Field

(* Answered is one of the ways to replace all fields, and with no fields   *)
(* the way that leaves them as they were given.                            *)
LEMMA AnsweredReplaces ==
  ASSUME NEW s, NEW F
  PROVE  \E G \in SUBSET Field :
            /\ Answered(s, F)
                = Selection!Replaces(Selection!Says(Asked, choice, s), choice, G)
            /\ F = NoFields => G = {}
  <1> DEFINE G == {f \in Field : F[f] # Nothing}
  <1>1. Answered(s, F)
            = Selection!Replaces(Selection!Says(Asked, choice, s), choice, G)
    BY SameSelection DEF Answered, Asked, Selection!Replaces, Selection!Says,
       Selection!Filled
  <1>2. F = NoFields => G = {}
    BY DEF NoFields
  <1> QED
    BY <1>1, <1>2

LEMMA AnsweredSays ==
  ASSUME NEW s
  PROVE  Answered(s, NoFields) = Selection!Says(Asked, choice, s)
  BY DEF Answered, Asked, NoFields, Selection!Says

(* A track_func that returns in one of the outcomes stated for it is a     *)
(* step AskChosen.                                                         *)
LEMMA AskedStep ==
  ASSUME choice \in Cached, phase = "asking", answer = Unanswered,
         phase' = "done", UNCHANGED <<bus, choice>>,
         [b |-> answer'.b, ti |-> PollsAnswer']
            \in Selection!Outcomes(Asked, choice, Nobody)
  PROVE  Selection!Next
  <1>1. choice # "auto" /\ choice # Nobody
    BY CachedAssumption, NobodyAssumption
  <1>2. [PollsAnswer EXCEPT !.player = choice] = Asked
    <2>1. PollsAnswer = [status |-> "OFF", by |-> Nobody, player |-> Nobody,
                         holds |-> [f \in Field |-> Nobody]]
      BY DEF PollsAnswer, Unanswered, NoFields
    <2> HIDE DEF Field
    <2> QED
      BY <2>1 DEF Asked
  <1>3. Selection!LibraryFor(choice) = Nobody
    BY DEF Selection!LibraryFor
  <1>4. Selection!Answers(Asked, choice, Nobody)
            = Selection!Outcomes(Asked, choice, Nobody)
    BY <1>1 DEF Selection!Answers
  <1>5. Selection!Ask(choice)
    <2> DEFINE r == [b |-> answer'.b, ti |-> PollsAnswer']
    <2>1. /\ r \in Selection!Answers([PollsAnswer EXCEPT !.player = choice],
                                     choice, Nobody)
          /\ answer'.b = r.b /\ PollsAnswer' = r.ti
      BY <1>2, <1>4
    <2> QED
      BY <1>3, <2>1 DEF Selection!Ask
  <1> QED
    BY <1>1, <1>5 DEF Selection!Next, Selection!AskChosen

LEMMA BeginStep ==
  ASSUME phase # "asking", phase' = "asking", answer' = Unanswered,
         UNCHANGED <<bus, choice>>
  PROVE  Selection!Next
  <1>1. PollsAnswer' = Selection!Blank /\ answer'.b = TRUE
    BY SameSelection DEF PollsAnswer, Selection!Blank, Unanswered, NoFields, Field
  <1>2. Selection!Begin(Nobody)
    BY <1>1 DEF Selection!Begin
  <1> QED
    BY <1>2 DEF Selection!Next

LEMMA HiddenStep ==
  ASSUME UNCHANGED <<bus, choice, phase, answer>>
  PROVE  UNCHANGED Selection!vars
  BY DEF Selection!vars, PollsAnswer

LEMMA MprisImplements ==
  ASSUME choice = "MPRIS", choice \in Cached, PollingTypeOK, M!TypeOK,
         M!Next, UNCHANGED choice,
         phase = "asking" => answer = Unanswered,
         phase = "asking" /\ found # Nobody => players[found].status \in Active
  PROVE  Selection!Next \/ UNCHANGED Selection!vars
  <1>1. ASSUME NEW got \in BOOLEAN, M!List(got)
        PROVE  Selection!Next
    BY <1>1, BeginStep, SamePolling DEF M!List, M!Begin, M!MainLoop
  <1>2. CASE M!Finish
    <2>1. phase = "asking" /\ phase' = "done" /\ UNCHANGED bus
      BY <1>2 DEF M!Finish, M!Answers, M!Fail, M!Return
    <2>2. [b |-> answer'.b, ti |-> PollsAnswer']
            \in Selection!Mpris(Asked, choice)
      <3>1. CASE ~bus
        <4>1. PollsAnswer' = Asked /\ answer'.b = FALSE
          BY <1>2, <2>1, <3>1, AnswerFailed, SamePolling
             DEF M!Finish, M!Answers, M!Fail
        <4> QED
          BY <3>1, <4>1 DEF Selection!Mpris, Selection!False
      <3>2. CASE bus /\ found = Nobody
        <4>1. PollsAnswer' = Answered("OFF", NoFields) /\ answer'.b = FALSE
          BY <1>2, <2>1, <3>2, AnswerReturned, SamePolling
             DEF M!Finish, M!Answers, M!Return
        <4> QED
          BY <3>2, <4>1, AnsweredSays DEF Selection!Mpris, Selection!False
      <3>3. CASE bus /\ found # Nobody
        <4> DEFINE s == players[found].status
                   F == players[found].fields
        <4>1. PollsAnswer' = Answered(s, F) /\ answer'.b = TRUE
          BY <1>2, <2>1, <3>3, AnswerReturned
             DEF M!Finish, M!Answers, M!Return
        <4>2. s \in Selection!Active
          BY <2>1, <3>3, SameSelection
        <4> HIDE DEF s, F
        <4>3. PICK G \in SUBSET Field :
                Answered(s, F) =
                    Selection!Replaces(Selection!Says(Asked, choice, s), choice, G)
          BY AnsweredReplaces
        <4>4. PollsAnswer' \in Selection!ReplacesSome(
                    Selection!SaysOneOf(Asked, choice, Selection!Active), choice)
          BY <4>1, <4>2, <4>3, SameSelection
             DEF Selection!ReplacesSome, Selection!SaysOneOf
        <4> QED
          BY <3>3, <4>1, <4>4 DEF Selection!Mpris, Selection!True
      <3> QED
        BY <3>1, <3>2, <3>3
    <2>3. Selection!Outcomes(Asked, choice, Nobody) = Selection!Mpris(Asked, choice)
      BY DEF Selection!Outcomes, Selection!Legacy
    <2> QED
      BY <2>1, <2>2, <2>3, AskedStep
  <1>3. CASE UNCHANGED <<bus, choice, phase, answer>>
    BY <1>3, HiddenStep
  <1> QED
    BY <1>1, <1>2, <1>3 DEF M!Next, M!Environment, M!Appears, M!Vanishes,
       M!ChangesStatus, M!ChangesTrack, M!SignalArrives, M!Poll, M!CheckStatus,
       M!CheckMetadata

(* A whole struct of an active player is copied.                           *)
LEMMA CopyReplaces ==
  ASSUME NEW s \in Active, NEW F, PollsAnswer' = Answered(s, F)
  PROVE  PollsAnswer' \in Selection!ReplacesSome(
                            Selection!SaysOneOf(Asked, choice, {s}), choice)
  BY AnsweredReplaces, SameSelection DEF Selection!ReplacesSome, Selection!SaysOneOf

LEMMA VagalumeImplements ==
  ASSUME choice = "Vagalume", choice \in Cached, PollingTypeOK, V!TypeOK,
         V!Next, UNCHANGED choice,
         phase = "asking" => answer = Unanswered,
         running => bus
  PROVE  Selection!Next \/ UNCHANGED Selection!vars
  <1>1. CASE V!Ask
    BY <1>1, BeginStep, SamePolling DEF V!Ask, V!Begin, V!MainLoop
  <1>2. CASE V!Answers
    <2>1. phase = "asking" /\ phase' = "done" /\ UNCHANGED bus
      BY <1>2 DEF V!Answers, V!Fail, V!Return
    <2>2. [b |-> answer'.b, ti |-> PollsAnswer']
            \in Selection!Vagalume(Asked, choice)
      <3>1. CASE ~running
        <4>1. PollsAnswer' = Asked /\ answer'.b = FALSE
          BY <1>2, <2>1, <3>1, AnswerFailed, SamePolling DEF V!Answers, V!Fail
        <4> QED
          BY <4>1 DEF Selection!Vagalume, Selection!False
      <3>2. CASE running
        <4> DEFINE s == cached.status
                   F == cached.fields
        <4>1. PollsAnswer' = Answered(s, F) /\ answer'.b = TRUE
          BY <1>2, <2>1, <3>2, AnswerReturned DEF V!Answers, V!Return
        <4>2. (s = "OFF" /\ F = NoFields) \/ s = "NORMAL"
          BY SamePolling DEF V!TypeOK, V!Clean
        <4> HIDE DEF s, F
        <4>3. CASE s = "OFF" /\ F = NoFields
          <5>1. PollsAnswer' = Selection!Replaces(
                                Selection!Says(Asked, choice, "OFF"), choice, {})
            BY <4>1, <4>3, AnsweredReplaces
          <5> QED
            BY <3>2, <4>1, <5>1 DEF Selection!Vagalume, Selection!True
        <4>4. CASE s = "NORMAL"
          <5>1. PollsAnswer' \in Selection!ReplacesSome(
                    Selection!SaysOneOf(Asked, choice, {"NORMAL"}), choice)
            BY <4>1, <4>4, CopyReplaces DEF Active
          <5>2. Selection!SaysOneOf(Asked, choice, {"NORMAL"})
                    = {Selection!Says(Asked, choice, "NORMAL")}
            BY DEF Selection!SaysOneOf
          <5> QED
            BY <3>2, <4>1, <5>1, <5>2 DEF Selection!Vagalume, Selection!True
        <4> QED
          BY <4>2, <4>3, <4>4
      <3> QED
        BY <3>1, <3>2
    <2>3. Selection!Outcomes(Asked, choice, Nobody)
            = Selection!Vagalume(Asked, choice)
      BY DEF Selection!Outcomes, Selection!Legacy
    <2> QED
      BY <2>1, <2>2, <2>3, AskedStep
  <1>3. CASE UNCHANGED <<bus, choice, phase, answer>>
    BY <1>3, HiddenStep
  <1> QED
    BY <1>1, <1>2, <1>3, VagalumeEnvironment DEF V!Next, V!Environment, V!Starts,
       V!Stops, V!Closes, V!IsKilled, V!ForeignMessage, V!Plays, V!Responds,
       V!Dispatch, V!Timer, V!Taken, V!TimedOut, V!Poll, V!Initialize

LEMMA QuodLibetImplements ==
  ASSUME choice = "QuodLibet", choice \in Cached, PollingTypeOK, Q!TypeOK,
         Q!Next, UNCHANGED choice,
         phase = "asking" => answer = Unanswered
  PROVE  Selection!Next \/ UNCHANGED Selection!vars
  <1>0. Selection!Outcomes(Asked, choice, Nobody)
            = Selection!QuodLibet(Asked, choice)
    BY DEF Selection!Outcomes, Selection!Legacy
  <1>1. CASE Q!Ask
    BY <1>1, BeginStep, SamePolling DEF Q!Ask, Q!Begin, Q!MainLoop, Q!quodLibetVars
  <1>2. CASE Q!NotRunning
    <2>1. phase = "asking" /\ phase' = "done" /\ UNCHANGED bus
      BY <1>2 DEF Q!NotRunning, Q!Fail, Q!Return
    <2>2. [b |-> answer'.b, ti |-> PollsAnswer']
            \in Selection!QuodLibet(Asked, choice)
      <3>1. CASE ~bus
        <4>1. PollsAnswer' = Asked /\ answer'.b = FALSE
          BY <1>2, <2>1, <3>1, AnswerFailed, SamePolling DEF Q!NotRunning, Q!Fail
        <4> QED
          BY <3>1, <4>1 DEF Selection!QuodLibet, Selection!False
      <3>2. CASE bus
        <4>1. PollsAnswer' = Answered("OFF", NoFields) /\ answer'.b = TRUE
          BY <1>2, <2>1, <3>2, AnswerReturned, SamePolling
             DEF Q!NotRunning, Q!Return
        <4> QED
          BY <3>2, <4>1, AnsweredSays DEF Selection!QuodLibet, Selection!True
      <3> QED
        BY <3>1, <3>2
    <2> QED
      BY <1>0, <2>1, <2>2, AskedStep
  <1>3. ASSUME NEW got \in BOOLEAN, Q!CurrentSong(got)
        PROVE  Selection!Next
    <2>1. phase = "asking" /\ phase' = "done" /\ UNCHANGED bus /\ bus
      BY <1>3 DEF Q!CurrentSong, Q!Return
    <2>2. [b |-> answer'.b, ti |-> PollsAnswer']
            \in Selection!QuodLibet(Asked, choice)
      <3>1. CASE ~got
        <4>1. PollsAnswer' = Answered("OFF", NoFields) /\ answer'.b = TRUE
          BY <1>3, <2>1, <3>1, AnswerReturned, SamePolling
             DEF Q!CurrentSong, Q!Return
        <4> QED
          BY <2>1, <4>1, AnsweredSays DEF Selection!QuodLibet, Selection!True
      <3>2. CASE got
        <4>1. /\ PollsAnswer' = Answered(gState, quodLibet.song)
              /\ answer'.b = TRUE
          BY <1>3, <2>1, <3>2, AnswerReturned DEF Q!CurrentSong, Q!Return
        <4>2. gState \in Active
          BY SamePolling DEF Q!TypeOK
        <4>3. PollsAnswer' \in Selection!ReplacesSome(
                    Selection!SaysOneOf(Asked, choice, Selection!Active), choice)
          BY <4>1, <4>2, CopyReplaces, SameSelection
             DEF Selection!ReplacesSome, Selection!SaysOneOf
        <4> QED
          BY <2>1, <4>1, <4>3 DEF Selection!QuodLibet, Selection!True
      <3> QED
        BY <3>1, <3>2
    <2> QED
      BY <1>0, <2>1, <2>2, AskedStep
  <1>4. CASE UNCHANGED <<bus, choice, phase, answer>>
    BY <1>4, HiddenStep
  <1> QED
    BY <1>1, <1>2, <1>3, <1>4 DEF Q!Next, Q!Environment, Q!Starts, Q!Quits,
       Q!NextSong, Q!Pauses, Q!SignalArrives, Q!Poll

LEMMA MessengerImplements ==
  ASSUME choice = "Messenger compatible", choice \in Cached, PollingTypeOK,
         C!TypeOK, C!Next, UNCHANGED choice,
         phase = "asking" => answer = Unanswered
  PROVE  Selection!Next \/ UNCHANGED Selection!vars
  <1>1. CASE C!Ask
    BY <1>1, BeginStep, SamePolling DEF C!Ask, C!Begin, C!MainLoop, C!messengerVars
  <1>2. CASE C!Answers
    <2>1. phase = "asking" /\ phase' = "done" /\ UNCHANGED bus
      BY <1>2 DEF C!Answers, C!Fail, C!Return
    <2>2. [b |-> answer'.b, ti |-> PollsAnswer']
            \in Selection!MessengerCompatible(Asked, choice)
      <3>1. CASE msnti'.status # "NORMAL"
        <4>1. PollsAnswer' = Asked /\ answer'.b = FALSE
          BY <1>2, <2>1, <3>1, AnswerFailed, SamePolling DEF C!Answers, C!Fail
        <4> QED
          BY <4>1 DEF Selection!MessengerCompatible, Selection!False
      <3>2. CASE msnti'.status = "NORMAL"
        <4> DEFINE F == msnti'.fields
        <4>1. PollsAnswer' = Answered("NORMAL", F) /\ answer'.b = TRUE
          BY <1>2, <2>1, <3>2, AnswerReturned DEF C!Answers, C!Return
        <4> HIDE DEF F
        <4>2. PollsAnswer' \in Selection!ReplacesSome(
                    Selection!SaysOneOf(Asked, choice, {"NORMAL"}), choice)
          BY <4>1, CopyReplaces DEF Active
        <4>3. Selection!SaysOneOf(Asked, choice, {"NORMAL"})
                = {Selection!Says(Asked, choice, "NORMAL")}
          BY DEF Selection!SaysOneOf
        <4> QED
          BY <4>1, <4>2, <4>3 DEF Selection!MessengerCompatible, Selection!True
      <3> QED
        BY <3>1, <3>2
    <2>3. Selection!Outcomes(Asked, choice, Nobody)
            = Selection!MessengerCompatible(Asked, choice)
      BY DEF Selection!Outcomes, Selection!Legacy
    <2> QED
      BY <2>1, <2>2, <2>3, AskedStep
  <1>3. CASE UNCHANGED <<bus, choice, phase, answer>>
    BY <1>3, HiddenStep
  <1> QED
    BY <1>1, <1>2, <1>3 DEF C!Next, C!Receives, C!SwapToggled, C!Poll

(* In mid-poll the TrackInfo has not been touched, what the foreach has    *)
(* stopped at is active, and without a bus nothing has come from Vagalume. *)
AskedInv == phase = "asking" => answer = Unanswered
FoundInv ==
    choice = "MPRIS" /\ phase = "asking" /\ found # Nobody =>
        players[found].status \in Active
BusInv == ~bus => ~running /\ ~checking /\ inbox = <<>>

SelectionInv == TypeInv /\ AskedInv /\ FoundInv /\ BusInv

LEMMA AskedKept ==
  ASSUME AskedInv, [Next]_vars
  PROVE  AskedInv'
  <1> USE DEF AskedInv
  <1>1. CASE phase' = "asking" /\ phase # "asking"
    BY <1>1, SamePolling DEF Next, vars, M!Next, V!Next, Q!Next, C!Next,
       M!Environment, M!Appears, M!Vanishes, M!ChangesStatus, M!ChangesTrack,
       M!SignalArrives, M!Poll, M!List, M!Begin, M!CheckStatus, M!CheckMetadata,
       M!Finish, M!Answers, M!Fail, M!Return,
       V!Environment, V!Starts, V!Stops, V!Closes, V!IsKilled, V!ForeignMessage,
       V!Plays, V!Responds, V!Dispatch, V!Timer, V!Taken, V!TimedOut, V!Poll,
       V!Ask, V!Begin, V!Initialize, V!Answers, V!Fail, V!Return,
       Q!Environment, Q!Starts, Q!Quits, Q!NextSong, Q!Pauses, Q!SignalArrives,
       Q!Poll, Q!Ask, Q!Begin, Q!NotRunning, Q!CurrentSong, Q!Fail, Q!Return,
       C!Receives, C!SwapToggled, C!Poll, C!Ask, C!Begin, C!Answers, C!Fail,
       C!Return
  <1>2. CASE phase' = "asking" /\ phase = "asking"
    <2>1. answer' = answer
      BY <1>2 DEF Next, vars, M!Next, V!Next, Q!Next, C!Next,
         M!Environment, M!Appears, M!Vanishes, M!ChangesStatus, M!ChangesTrack,
         M!SignalArrives, M!Poll, M!List, M!Begin, M!MainLoop, M!CheckStatus,
         M!CheckMetadata, M!Finish, M!Answers, M!Fail, M!Return,
         V!Environment, V!Starts, V!Stops, V!Closes, V!IsKilled,
         V!ForeignMessage, V!Plays, V!Responds, V!Dispatch, V!Timer, V!Taken,
         V!TimedOut, V!Poll, V!Ask, V!Begin, V!MainLoop, V!Initialize,
         V!Answers, V!Fail, V!Return,
         Q!Environment, Q!Starts, Q!Quits, Q!NextSong, Q!Pauses,
         Q!SignalArrives, Q!Poll, Q!Ask, Q!Begin, Q!MainLoop, Q!NotRunning,
         Q!CurrentSong, Q!Fail, Q!Return,
         C!Receives, C!SwapToggled, C!Poll, C!Ask, C!Begin, C!MainLoop,
         C!Answers, C!Fail, C!Return
    <2> QED
      BY <1>2, <2>1, SamePolling DEF Unanswered, NoFields, Field
  <1> QED
    BY <1>1, <1>2

LEMMA FoundKept ==
  ASSUME TypeInv, FoundInv, [Next]_vars
  PROVE  FoundInv'
  <1> USE DEF FoundInv
  <1>1. CASE UNCHANGED <<choice, phase, found, players>>
    BY <1>1 DEF Active
  <1>2. CASE MprisOnly /\ M!Next
    <2>0. M!TypeOK
      BY DEF TypeInv, TypeOK
    <2>1. ASSUME NEW got \in BOOLEAN, M!List(got)
          PROVE  FoundInv'
      BY <2>1 DEF M!List
    <2>2. ASSUME NEW s \in Service, NEW got \in BOOLEAN, M!CheckStatus(s, got)
          PROVE  FoundInv'
      BY <2>2 DEF M!CheckStatus
    <2>3. ASSUME NEW got \in BOOLEAN, M!CheckMetadata(got), found' # Nobody
          PROVE  players'[found'].status \in Active
      <3>1. /\ found' = current /\ players[current].status # "OFF"
            /\ current \in M!Known
        BY <2>0, <2>3 DEF M!CheckMetadata, M!TypeOK
      <3>2. players[current] \in Copy
        BY <2>0, <3>1, MprisTypes DEF TableOK
      <3>3. players'[current].status = players[current].status
        BY <2>0, <2>3, <3>1, <3>2 DEF M!CheckMetadata, M!WithTrack, Copy, M!TypeOK
      <3> QED
        BY <3>1, <3>2, <3>3 DEF Copy, Status
    <2>4. CASE phase' # "asking"
      BY <2>4
    <2> QED
      BY <1>1, <1>2, <2>1, <2>2, <2>3, <2>4 DEF M!Next, M!Environment,
         M!Appears, M!Vanishes, M!ChangesStatus, M!ChangesTrack, M!SignalArrives,
         M!MainLoop, M!Poll, M!Finish, M!Answers, M!Fail, M!Return, MprisOnly
  <1>3. CASE choice' # "MPRIS"
    BY <1>3
  <1> QED
    BY <1>1, <1>2, <1>3 DEF Next, VagalumeOnly, QuodLibetOnly, MessengerOnly, vars,
       mprisVars

LEMMA BusKept ==
  ASSUME TypeInv, BusInv, [Next]_vars
  PROVE  BusInv'
  <1> USE DEF BusInv
  <1>1. CASE VagalumeOnly /\ V!Next
    <2>0. bus' = bus
      BY <1>1 DEF V!Next, V!Environment, V!Starts, V!Stops, V!Closes, V!IsKilled,
         V!ForeignMessage, V!Plays, V!Responds, V!Dispatch, V!Timer, V!Taken,
         V!TimedOut, V!Poll, V!Ask, V!Initialize, V!Answers
    <2> SUFFICES ASSUME ~bus
                 PROVE  ~running' /\ ~checking' /\ inbox' = <<>>
      BY <2>0
    <2>1. ASSUME NEW m, V!Notifies(m)
          PROVE  inbox' = <<>>
      BY <2>1 DEF V!Notifies
    <2>2. CASE V!Environment \/ V!Responds
      <3>1. inbox' = <<>>
        BY <2>1, <2>2 DEF V!Environment, V!Starts, V!Stops, V!Closes, V!IsKilled,
           V!ForeignMessage, V!Plays, V!Responds
      <3>2. UNCHANGED <<running, checking>>
        BY <2>2 DEF V!Environment, V!Starts, V!Stops, V!Closes, V!IsKilled,
           V!ForeignMessage, V!Plays, V!Responds
      <3> QED
        BY <3>1, <3>2
    <2>3. CASE V!Dispatch \/ V!Taken \/ V!TimedOut \/ V!Timer
      BY <2>3 DEF V!Dispatch, V!Taken, V!TimedOut, V!Timer
    <2>4. CASE V!Poll
      BY <2>4 DEF V!Poll, V!Ask, V!Initialize, V!Orphaned, V!Answers,
         V!vagalumeVars
    <2> QED
      BY <1>1, <2>2, <2>3, <2>4 DEF V!Next
  <1>2. CASE UNCHANGED <<bus, vagalumeVars>>
    BY <1>2 DEF vagalumeVars
  <1> QED
    BY <1>1, <1>2 DEF Next, vars, MprisOnly, QuodLibetOnly, MessengerOnly,
       M!Next, M!Environment, M!Appears, M!Vanishes, M!ChangesStatus,
       M!ChangesTrack, M!SignalArrives, M!Poll, M!List, M!CheckStatus,
       M!CheckMetadata, M!Finish,
       Q!Next, Q!Environment, Q!Starts, Q!Quits, Q!NextSong, Q!Pauses,
       Q!SignalArrives, Q!Poll, Q!Ask, Q!NotRunning, Q!CurrentSong,
       C!Next, C!Receives, C!SwapToggled, C!Poll, C!Ask, C!Answers

LEMMA SelectionInvariance == Spec => []SelectionInv
  <1>1. Init => SelectionInv
    BY TypeInit DEF Init, V!Init, SelectionInv, AskedInv, FoundInv, BusInv
  <1>2. SelectionInv /\ [Next]_vars => SelectionInv'
    BY TypeStep, AskedKept, FoundKept, BusKept DEF SelectionInv
  <1> QED
    BY <1>1, <1>2, PTL DEF Spec

(* The readers that keep a copy implement what PlayerSelection says of     *)
(* their track_func, and nothing else of what happens to the copies can be *)
(* seen there: so what is proved of PlayerSelection holds of them.         *)
THEOREM RefinesSelection == Spec => ImplementsSelection
  <1>1. Init => Selection!Init
    <2>1. Init => choice \in Selection!Player
      <3>1. ASSUME choice \in Cached
            PROVE  choice \in Selection!Player
        <4> DEFINE O == <<"MPRIS", "Vagalume", "QuodLibet",
                          "Messenger compatible", "Last.fm">>
        <4>1. /\ O[1] = "MPRIS" /\ O[2] = "Vagalume" /\ O[3] = "QuodLibet"
              /\ O[4] = "Messenger compatible"
              /\ 1 \in DOMAIN O /\ 2 \in DOMAIN O /\ 3 \in DOMAIN O
              /\ 4 \in DOMAIN O
          OBVIOUS
        <4>2. Selection!Player = {O[i] : i \in DOMAIN O}
          BY DEF Selection!Player
        <4> HIDE DEF O
        <4> QED
          BY <3>1, <4>1, <4>2, CachedAssumption
      <3> QED
        BY <3>1 DEF Init
    <2>2. Init => PollsAnswer = Selection!Blank /\ answer.b = TRUE
      BY SameSelection DEF Init, PollsAnswer, Selection!Blank, Unanswered,
         NoFields, Field
    <2> QED
      BY <2>1, <2>2 DEF Init, Selection!Init
  <1>2. SelectionInv /\ [Next]_vars => [Selection!Next]_(Selection!vars)
    <2> SUFFICES ASSUME SelectionInv, [Next]_vars
                 PROVE  [Selection!Next]_(Selection!vars)
      OBVIOUS
    <2> USE DEF SelectionInv, TypeInv, TypeOK
    <2>1. CASE MprisOnly /\ M!Next
      BY <2>1, MprisImplements DEF MprisOnly, AskedInv, FoundInv
    <2>2. CASE VagalumeOnly /\ V!Next
      BY <2>2, VagalumeImplements DEF VagalumeOnly, AskedInv, BusInv
    <2>3. CASE QuodLibetOnly /\ Q!Next
      BY <2>3, QuodLibetImplements DEF QuodLibetOnly, AskedInv
    <2>4. CASE MessengerOnly /\ C!Next
      BY <2>4, MessengerImplements DEF MessengerOnly, AskedInv
    <2>5. CASE UNCHANGED vars
      BY <2>5, HiddenStep DEF vars
    <2> QED
      BY <2>1, <2>2, <2>3, <2>4, <2>5 DEF Next
  <1> QED
    BY <1>1, <1>2, SelectionInvariance, PTL
       DEF Spec, ImplementsSelection, Selection!Spec
=============================================================================
