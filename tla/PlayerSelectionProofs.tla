----------------------- MODULE PlayerSelectionProofs -----------------------
(* What a pass over the players guarantees, for any order of g_players     *)
(* without repetition that ends with Last.fm.                              *)
EXTENDS PlayerSelectionProperties, TLAPS

-----------------------------------------------------------------------------
(* What a track_func leaves in the TrackInfo                               *)

(* u is t with another status, and fields of p or empty ones.              *)
Touched(t, p, u) ==
    /\ u \in TrackInfo
    /\ u.player = t.player
    /\ \A f \in Field : u.holds[f] \in {t.holds[f], Nobody, p}

(* u has no field that t did not have.                                     *)
Spared(t, u) == \A f \in Field : u.holds[f] \in {t.holds[f], Nobody}

(* A status that is no STATUS_ constant was there before. *)
Even(t, u) == u.status = "ODD" => t.status = "ODD"

(* Who is passed over has touched only the status, unless it is a leaver;  *)
(* and only Amarok comes up with a number that is no status.               *)
Left(t, p, r) ==
    /\ r.b \in BOOLEAN
    /\ Touched(t, p, r.ti)
    /\ Even(t, r.ti) \/ (p = "Amarok 1.x.x" /\ r.b)
    /\ Unsettled(r.b, r.ti) => p \in Leaver \cup {"Last.fm"} \/ Spared(t, r.ti)

LEMMA SaysTouches ==
    ASSUME NEW t \in TrackInfo, NEW p \in Author, NEW s \in Status
    PROVE  /\ Touched(t, p, Says(t, p, s))
           /\ Says(t, p, s).status = s
           /\ Says(t, p, s).holds = t.holds
  BY DEF Touched, Says, TrackInfo

LEMMA WritesTouches ==
    ASSUME NEW t \in TrackInfo, NEW p \in Author, NEW F \in SUBSET Field
    PROVE  /\ Touched(t, p, Writes(t, p, F))
           /\ Writes(t, p, F).status = t.status
           /\ Touched(t, p, Replaces(t, p, F))
           /\ Replaces(t, p, F).status = t.status
           /\ Spared(t, Replaces(t, p, {}))
<1>1. /\ [f \in Field |-> IF f \in F THEN p ELSE t.holds[f]] \in [Field -> Author]
      /\ [f \in Field |-> IF f \in F THEN p ELSE Nobody] \in [Field -> Author]
  BY DEF TrackInfo, Author
<1>2. /\ Touched(t, p, Writes(t, p, F))
      /\ Touched(t, p, Replaces(t, p, F))
  BY <1>1 DEF Touched, Writes, Replaces, Filled, TrackInfo
<1> QED
  BY <1>2 DEF Writes, Replaces, Filled, Spared

LEMMA TouchedTwice ==
    ASSUME NEW t, NEW p, NEW u, NEW v, Touched(t, p, u), Touched(u, p, v)
    PROVE  Touched(t, p, v)
  BY DEF Touched

(* The sets that the outcomes are made of. *)
LEMMA SaysOneOfTouches ==
    ASSUME NEW t \in TrackInfo, NEW p \in Author, NEW S \in SUBSET Status,
           NEW u \in SaysOneOf(t, p, S)
    PROVE  Touched(t, p, u) /\ Spared(t, u) /\ u.status \in S /\ u \in TrackInfo
<1>1. PICK s \in S : u = Says(t, p, s)
  BY DEF SaysOneOf
<1> QED
  BY <1>1, SaysTouches DEF Spared, Touched

LEMMA WritesSomeTouches ==
    ASSUME NEW t, NEW p \in Author, NEW T, NEW u,
           \A v \in T : v \in TrackInfo /\ Touched(t, p, v),
           u \in WritesSome(T, p) \/ u \in ReplacesSome(T, p)
    PROVE  Touched(t, p, u) /\ \E v \in T : u.status = v.status
<1>1. CASE u \in WritesSome(T, p)
  <2>1. PICK v \in T, F \in SUBSET Field : u = Writes(v, p, F)
    BY <1>1 DEF WritesSome
  <2> QED
    BY <2>1, WritesTouches, TouchedTwice
<1>2. CASE u \in ReplacesSome(T, p)
  <2>1. PICK v \in T, F \in SUBSET Field : u = Replaces(v, p, F)
    BY <1>2 DEF ReplacesSome
  <2> QED
    BY <2>1, WritesTouches, TouchedTwice
<1> QED
  BY <1>1, <1>2

LEMMA UntouchedLeft ==
    ASSUME NEW t \in TrackInfo, NEW p
    PROVE  Touched(t, p, t) /\ Spared(t, t) /\ Even(t, t)
  BY DEF Touched, Spared, Even

(* What most track_funcs do: they touch only the status, or they fill in   *)
(* fields and are active.                                                  *)
Constants == Active \cup {"OFF"}
Noted(t, p) == {t} \cup SaysOneOf(t, p, Constants)
FilledIn(t, p) ==
    LET Heard == SaysOneOf(t, p, Active)
    IN  WritesSome(Heard, p) \cup ReplacesSome(Heard, p)
Usual(t, p) ==
    False(Noted(t, p)) \cup True(Noted(t, p) \cup FilledIn(t, p))
    \cup True({Replaces(Says(t, p, "OFF"), p, {})})

LEMMA Returned ==
    ASSUME NEW T, NEW r
    PROVE  /\ r \in True(T) => r.b = TRUE /\ r.ti \in T
           /\ r \in False(T) => r.b = FALSE /\ r.ti \in T
  BY DEF True, False

LEMMA UsualLeaves ==
    ASSUME NEW t \in TrackInfo, NEW p \in Author, NEW r \in Usual(t, p)
    PROVE  Left(t, p, r)
<1>1. ASSUME NEW u \in Noted(t, p)
      PROVE  Touched(t, p, u) /\ Spared(t, u) /\ Even(t, u)
  <2>1. Constants \subseteq Status /\ "ODD" \notin Constants
    BY DEF Constants, Status, Active
  <2> QED
    BY <1>1, <2>1, UntouchedLeft, SaysOneOfTouches DEF Noted, Even
<1>2. ASSUME NEW u \in FilledIn(t, p)
      PROVE  Touched(t, p, u) /\ u.status \in Active
  <2>1. Active \subseteq Status
    BY DEF Status
  <2>2. \A v \in SaysOneOf(t, p, Active) :
            v \in TrackInfo /\ Touched(t, p, v) /\ v.status \in Active
    BY <2>1, SaysOneOfTouches
  <2> DEFINE Heard == SaysOneOf(t, p, Active)
  <2>3. u \in WritesSome(Heard, p) \/ u \in ReplacesSome(Heard, p)
    BY <1>2 DEF FilledIn
  <2>4. \A v \in Heard : v \in TrackInfo /\ Touched(t, p, v)
    BY <2>2
  <2>5. \A v \in Heard : v.status \in Active
    BY <2>2
  <2> HIDE DEF Heard
  <2>6. Touched(t, p, u) /\ \E v \in Heard : u.status = v.status
    BY <2>3, <2>4, WritesSomeTouches
  <2> QED
    BY <2>5, <2>6
<1>3. /\ Touched(t, p, Replaces(Says(t, p, "OFF"), p, {}))
      /\ Spared(t, Replaces(Says(t, p, "OFF"), p, {}))
      /\ Even(t, Replaces(Says(t, p, "OFF"), p, {}))
  <2> DEFINE u == Says(t, p, "OFF")
  <2>1. "OFF" \in Status
    BY DEF Status
  <2>2. Touched(t, p, u) /\ u.holds = t.holds /\ u.status = "OFF"
    BY <2>1, SaysTouches
  <2>3. u \in TrackInfo
    BY <2>2 DEF Touched
  <2> HIDE DEF u
  <2>4. /\ Touched(u, p, Replaces(u, p, {})) /\ Spared(u, Replaces(u, p, {}))
        /\ Replaces(u, p, {}).status = u.status
    BY <2>3, WritesTouches
  <2>5. Touched(t, p, Replaces(u, p, {}))
    BY <2>2, <2>4, TouchedTwice
  <2>6. Spared(t, Replaces(u, p, {}))
    BY <2>2, <2>4 DEF Spared
  <2>7. Even(t, Replaces(u, p, {}))
    BY <2>2, <2>4 DEF Even
  <2> QED
    BY <2>5, <2>6, <2>7 DEF u
<1>4. r.b \in BOOLEAN
  BY Returned DEF Usual
<1>5. CASE r.ti \in FilledIn(t, p) /\ r.b
  BY <1>2, <1>4, <1>5 DEF Left, Unsettled, Active, Even
<1>6. CASE r.ti \in Noted(t, p) \cup {Replaces(Says(t, p, "OFF"), p, {})}
  <2>1. Touched(t, p, r.ti) /\ Spared(t, r.ti) /\ Even(t, r.ti)
    BY <1>1, <1>3, <1>6
  <2> QED
    BY <1>4, <2>1 DEF Left, Even
<1>7. \/ r.ti \in FilledIn(t, p) /\ r.b
      \/ r.ti \in Noted(t, p) \cup {Replaces(Says(t, p, "OFF"), p, {})}
  <2> DEFINE A == Noted(t, p)
             B == Noted(t, p) \cup FilledIn(t, p)
             D == {Replaces(Says(t, p, "OFF"), p, {})}
  <2>1. r \in False(A) \/ r \in True(B) \/ r \in True(D)
    BY DEF Usual
  <2>2. r.ti \in A \/ (r.b /\ r.ti \in B) \/ r.ti \in D
    BY <2>1, Returned
  <2> QED
    BY <2>2
<1> QED
  BY <1>5, <1>6, <1>7

LEMMA UsualPlayers ==
    ASSUME NEW t, NEW p
    PROVE  /\ Audacious(t, p) \subseteq Usual(t, p)
           /\ Rhythmbox(t, p) \subseteq Usual(t, p)
           /\ Banshee(t, p) \subseteq Usual(t, p)
           /\ Vagalume(t, p) \subseteq Usual(t, p)
           /\ QuodLibet(t, p) \subseteq Usual(t, p)
           /\ Exaile(t, p) \subseteq Usual(t, p)
           /\ Listen(t, p) \subseteq Usual(t, p)
           /\ Mpris(t, p) \subseteq Usual(t, p)
           /\ Songbird(t, p) \subseteq Usual(t, p)
           /\ MessengerCompatible(t, p) \subseteq Usual(t, p)
           /\ Foobar2000(t, p) \subseteq Usual(t, p)
           /\ p # Nobody => XmmsControl(t, p) \subseteq Usual(t, p)
<1> DEFINE Heard == SaysOneOf(t, p, Active)
<1>1. /\ t \in Noted(t, p)
      /\ \A s \in Constants : Says(t, p, s) \in Noted(t, p)
      /\ \A S \in SUBSET Constants : SaysOneOf(t, p, S) \subseteq Noted(t, p)
      /\ \A s \in Active : Says(t, p, s) \in Heard
      /\ {Says(t, p, "NORMAL")} \subseteq Heard
  BY DEF Noted, SaysOneOf, Active
<1>2. /\ WritesSome(Heard, p) \subseteq FilledIn(t, p)
      /\ ReplacesSome(Heard, p) \subseteq FilledIn(t, p)
      /\ ReplacesSome({Says(t, p, "NORMAL")}, p) \subseteq FilledIn(t, p)
      /\ \A u \in Heard, F \in SUBSET Field : Writes(u, p, F) \in FilledIn(t, p)
  BY <1>1 DEF FilledIn, WritesSome, ReplacesSome
<1>3. /\ \A u \in Noted(t, p) : {u} \subseteq Noted(t, p)
      /\ \A U \in SUBSET Noted(t, p) : False(U) \subseteq Usual(t, p)
      /\ \A U \in SUBSET (Noted(t, p) \cup FilledIn(t, p)) :
            True(U) \subseteq Usual(t, p)
      /\ True({Replaces(Says(t, p, "OFF"), p, {})}) \subseteq Usual(t, p)
  BY DEF Usual, True, False
<1>4. /\ Active \subseteq Constants /\ Active \cup {"OFF"} \subseteq Constants
      /\ {"OFF", "PAUSED", "NORMAL"} \subseteq Constants
      /\ "OFF" \in Constants /\ "NORMAL" \in Active
  BY DEF Constants, Active
<1> HIDE DEF Heard
<1>5. /\ Audacious(t, p) \subseteq Usual(t, p)
      /\ Rhythmbox(t, p) \subseteq Usual(t, p)
      /\ Songbird(t, p) \subseteq Usual(t, p)
  <2>1. /\ False({t}) \subseteq Usual(t, p)
        /\ True({Says(t, p, "OFF")} \cup WritesSome(Heard, p)) \subseteq Usual(t, p)
    BY <1>1, <1>2, <1>3, <1>4
  <2> QED
    BY <2>1 DEF Audacious, Rhythmbox, Songbird, Heard
<1>6. Banshee(t, p) \subseteq Usual(t, p)
  <2>1. /\ False({t}) \subseteq Usual(t, p)
        /\ False(SaysOneOf(t, p, Active \cup {"OFF"})) \subseteq Usual(t, p)
        /\ True({Says(t, p, "OFF")} \cup WritesSome(Heard, p)) \subseteq Usual(t, p)
    BY <1>1, <1>2, <1>3, <1>4
  <2> QED
    BY <2>1 DEF Banshee, Heard
<1>7. Vagalume(t, p) \subseteq Usual(t, p)
  <2> DEFINE Off == {Replaces(Says(t, p, "OFF"), p, {})}
             On == ReplacesSome({Says(t, p, "NORMAL")}, p)
  <2>1. True(Off \cup On) = True(Off) \cup True(On)
    BY DEF True
  <2>2. /\ False({t}) \subseteq Usual(t, p)
        /\ True(Off) \subseteq Usual(t, p) /\ True(On) \subseteq Usual(t, p)
    BY <1>1, <1>2, <1>3
  <2> QED
    BY <2>1, <2>2 DEF Vagalume
<1>8. /\ QuodLibet(t, p) \subseteq Usual(t, p)
      /\ Exaile(t, p) \subseteq Usual(t, p)
      /\ Mpris(t, p) \subseteq Usual(t, p)
  <2>1. /\ False({t}) \subseteq Usual(t, p)
        /\ False({Says(t, p, "OFF")}) \subseteq Usual(t, p)
        /\ True({Says(t, p, "OFF")} \cup ReplacesSome(Heard, p))
            \subseteq Usual(t, p)
        /\ True({Says(t, p, "OFF")} \cup WritesSome(Heard, p))
            \subseteq Usual(t, p)
        /\ True(ReplacesSome(Heard, p)) \subseteq Usual(t, p)
    BY <1>1, <1>2, <1>3, <1>4
  <2> QED
    BY <2>1 DEF QuodLibet, Exaile, Mpris, Heard
<1>9. Listen(t, p) \subseteq Usual(t, p)
  <2>1. /\ False({t}) \subseteq Usual(t, p)
        /\ True(SaysOneOf(t, p, {"OFF", "PAUSED", "NORMAL"})
                \cup {Writes(Says(t, p, "NORMAL"), p, Field)}) \subseteq Usual(t, p)
    BY <1>1, <1>2, <1>3, <1>4
  <2> QED
    BY <2>1 DEF Listen
<1>10. MessengerCompatible(t, p) \subseteq Usual(t, p)
  <2>1. /\ False({t}) \subseteq Usual(t, p)
        /\ True(ReplacesSome({Says(t, p, "NORMAL")}, p)) \subseteq Usual(t, p)
    BY <1>1, <1>2, <1>3
  <2> QED
    BY <2>1 DEF MessengerCompatible
<1>11. Foobar2000(t, p) \subseteq Usual(t, p)
  <2>1. {Says(t, p, "OFF"), Says(t, p, "NORMAL"),
         Writes(Says(t, p, "NORMAL"), p, Field)}
            \subseteq Noted(t, p) \cup FilledIn(t, p)
    BY <1>1, <1>2, <1>4
  <2> QED
    BY <1>3, <2>1 DEF Foobar2000
<1>12. ASSUME p # Nobody
       PROVE  XmmsControl(t, p) \subseteq Usual(t, p)
  <2> DEFINE U == {Says(t, p, "OFF")} \cup
                    {Writes(u, p, F) : u \in SaysOneOf(t, p, Active), F \in {{}, Field}}
  <2>1. U \subseteq Noted(t, p) \cup FilledIn(t, p)
    BY <1>1, <1>2, <1>4 DEF Heard
  <2>2. True(U) \subseteq Usual(t, p)
    BY <1>3, <2>1
  <2> QED
    BY <1>12, <2>2 DEF XmmsControl
<1> QED
  BY <1>5, <1>6, <1>7, <1>8, <1>9, <1>10, <1>11, <1>12

LEMMA AmarokLeaves ==
    ASSUME NEW t \in TrackInfo, NEW p \in Author, NEW r \in Amarok(t, p)
    PROVE  p = "Amarok 1.x.x" => Left(t, p, r)
<1> DEFINE Heard == {t} \cup SaysOneOf(t, p, Status)
           Stopped == {u \in Heard : u.status = "OFF"}
           Off == Says(t, p, "OFF")
           On == WritesSome(Heard \ Stopped, p)
<1>1. \A u \in Heard : u \in TrackInfo /\ Touched(t, p, u) /\ Spared(t, u)
  BY UntouchedLeft, SaysOneOfTouches
<1>2. Touched(t, p, Off) /\ Spared(t, Off) /\ Even(t, Off)
  <2>1. "OFF" \in Status
    BY DEF Status
  <2>2. Touched(t, p, Off) /\ Off.status = "OFF" /\ Off.holds = t.holds
    BY <2>1, SaysTouches
  <2> QED
    BY <2>2 DEF Spared, Even
<1>3. r \in False({Off}) \/ r \in True({Off} \cup Stopped \cup On)
  BY DEF Amarok
<1>4. r.b \in BOOLEAN /\ (r.ti \in {Off} \cup Stopped \/ (r.ti \in On /\ r.b))
  <2> DEFINE T == {Off} \cup Stopped \cup On
  <2> HIDE DEF Off, Stopped, On
  <2>1. CASE r \in False({Off})
    <3>1. r.b = FALSE /\ r.ti \in {Off}
      BY <2>1, Returned
    <3> QED
      BY <3>1
  <2>2. CASE r \in True(T)
    <3>1. r.b = TRUE /\ r.ti \in T
      <4> HIDE DEF T
      <4> QED
        BY <2>2, Returned
    <3> QED
      BY <3>1
  <2> QED
    BY <1>3, <2>1, <2>2
<1>5. CASE r.ti \in {Off} \cup Stopped
  <2>1. \A u \in Stopped : u.status = "OFF" /\ u \in Heard
    OBVIOUS
  <2> HIDE DEF Stopped, Heard, Off
  <2>2. Touched(t, p, r.ti) /\ Spared(t, r.ti) /\ Even(t, r.ti)
    BY <1>1, <1>2, <1>5, <2>1 DEF Even
  <2> QED
    BY <1>4, <2>2 DEF Left, Even
<1>6. CASE r.ti \in On /\ r.b
  <2>1. /\ \A v \in Heard \ Stopped : v \in TrackInfo /\ Touched(t, p, v)
        /\ \A v \in Heard \ Stopped : v.status # "OFF"
    BY <1>1
  <2> DEFINE T == Heard \ Stopped
  <2>4. /\ r.ti \in WritesSome(T, p)
        /\ \A v \in T : v \in TrackInfo /\ Touched(t, p, v)
    BY <1>6, <2>1
  <2> HIDE DEF T
  <2>2. Touched(t, p, r.ti) /\ \E v \in T : r.ti.status = v.status
    BY <2>4, WritesSomeTouches
  <2>3. r.ti.status # "OFF"
    BY <2>1, <2>2 DEF T
  <2> QED
    BY <1>4, <1>6, <2>2, <2>3 DEF Left, Unsettled
<1> QED
  BY <1>4, <1>5, <1>6

(* What a leaver may do, and the feed. *)
AllTouched(t, p) == {u \in TrackInfo : Touched(t, p, u) /\ Even(t, u)}

LEMMA LeaversLeave ==
    ASSUME NEW t \in TrackInfo, NEW p \in Author,
           p \in Leaver \cup {"Last.fm"}, NEW r,
           r \in False(AllTouched(t, p)) \/ r \in True(AllTouched(t, p))
    PROVE  Left(t, p, r)
<1>1. r.b \in BOOLEAN /\ r.ti \in AllTouched(t, p)
  <2> DEFINE U == AllTouched(t, p)
  <2> HIDE DEF U
  <2>1. r \in False(U) \/ r \in True(U)
    BY DEF U
  <2>2. r.b \in BOOLEAN /\ r.ti \in U
    BY <2>1, Returned
  <2> QED
    BY <2>2 DEF U
<1>2. Touched(t, p, r.ti) /\ Even(t, r.ti)
  BY <1>1 DEF AllTouched
<1> QED
  BY <1>1, <1>2 DEF Left

LEMMA LeaverPlayers ==
    ASSUME NEW t \in TrackInfo, NEW p \in Author
    PROVE  /\ Moc(t, p) \subseteq False(AllTouched(t, p)) \cup True(AllTouched(t, p))
           /\ SqueezeCenter(t, p)
                \subseteq False(AllTouched(t, p)) \cup True(AllTouched(t, p))
           /\ Xmms2(t, p) \subseteq False(AllTouched(t, p)) \cup True(AllTouched(t, p))
           /\ Mpd(t, p) \subseteq False(AllTouched(t, p)) \cup True(AllTouched(t, p))
           /\ Winamp(t, p) \subseteq False(AllTouched(t, p)) \cup True(AllTouched(t, p))
           /\ WindowsMediaPlayer(t, p)
                \subseteq False(AllTouched(t, p)) \cup True(AllTouched(t, p))
           /\ ITunes(t, p) \subseteq False(AllTouched(t, p)) \cup True(AllTouched(t, p))
           /\ LastFm(t, p) \subseteq False(AllTouched(t, p))
                \cup True(AllTouched(t, p)) \cup {[b |-> t.status = "NORMAL", ti |-> t]}
<1> DEFINE All == AllTouched(t, p)
           Heard == SaysOneOf(t, p, Active \cup {"OFF"})
<1>1. t \in All
  BY UntouchedLeft DEF AllTouched
<1>2. \A s \in Constants : Says(t, p, s) \in All
  <2>1. Constants \subseteq Status /\ "ODD" \notin Constants
    BY DEF Constants, Active, Status
  <2>2. \A s \in Status : Touched(t, p, Says(t, p, s)) /\ Says(t, p, s).status = s
    BY SaysTouches
  <2> QED
    BY <2>1, <2>2 DEF AllTouched, Touched, Even
<1>3. Active \cup {"OFF"} \subseteq Constants /\ Active \subseteq Constants
      /\ "OFF" \in Constants /\ "NORMAL" \in Constants
      /\ Constants \subseteq Status /\ "ODD" \notin Constants
  BY DEF Constants, Active, Status
<1>4. Heard \subseteq All /\ SaysOneOf(t, p, Active) \subseteq All
  BY <1>2, <1>3 DEF SaysOneOf
<1>5. \A u \in All, F \in SUBSET Field :
        Writes(u, p, F) \in All /\ Replaces(u, p, F) \in All
  <2> SUFFICES ASSUME NEW u \in All, NEW F \in SUBSET Field
               PROVE  Writes(u, p, F) \in All /\ Replaces(u, p, F) \in All
    OBVIOUS
  <2>1. u \in TrackInfo /\ Touched(t, p, u) /\ Even(t, u)
    BY DEF AllTouched
  <2>2. /\ Touched(u, p, Writes(u, p, F)) /\ Writes(u, p, F).status = u.status
        /\ Touched(u, p, Replaces(u, p, F)) /\ Replaces(u, p, F).status = u.status
    BY <2>1, WritesTouches
  <2>3. Touched(t, p, Writes(u, p, F)) /\ Touched(t, p, Replaces(u, p, F))
    BY <2>1, <2>2, TouchedTwice
  <2> QED
    BY <2>1, <2>2, <2>3 DEF AllTouched, Touched, Even
<1>6. \A T \in SUBSET All :
        WritesSome(T, p) \subseteq All /\ ReplacesSome(T, p) \subseteq All
  BY <1>5 DEF WritesSome, ReplacesSome
<1>7. \A T \in SUBSET All : True(T) \subseteq True(All) /\ False(T) \subseteq False(All)
  BY DEF True, False
<1> HIDE DEF All
<1>8. Moc(t, p) \subseteq False(All) \cup True(All)
  BY <1>1, <1>4, <1>6, <1>7 DEF Moc, Heard
<1>9. SqueezeCenter(t, p) \subseteq False(All) \cup True(All)
  <2>1. {Writes(u, p, {"track"}) : u \in Heard} \cup ReplacesSome(Heard, p) \subseteq All
    BY <1>4, <1>5, <1>6 DEF Field
  <2>2. {t} \subseteq All
    BY <1>1
  <2> QED
    BY <1>7, <2>1, <2>2 DEF SqueezeCenter, Heard
<1>10. Xmms2(t, p) \subseteq False(All) \cup True(All)
  <2>1. {t} \cup Heard \subseteq All
    BY <1>1, <1>4
  <2> QED
    BY <1>6, <1>7, <2>1 DEF Xmms2, Heard
<1>11. Mpd(t, p) \subseteq False(All) \cup True(All)
  <2>1. {t} \cup Heard \subseteq All /\ {t} \subseteq All
    BY <1>1, <1>4
  <2>2. {t} \cup WritesSome({t}, p) \subseteq All
    BY <1>6, <2>1
  <2> QED
    BY <1>6, <1>7, <2>1, <2>2 DEF Mpd, Heard
<1>12. Winamp(t, p) \subseteq False(All) \cup True(All)
  <2> DEFINE Untold == {u \in Heard : \A f \in Field : u.holds[f] = Nobody}
  <2>1. Heard \cup ReplacesSome(Heard, p) \cup {Writes(u, p, {"track"}) : u \in Untold}
            \subseteq All
    BY <1>4, <1>5, <1>6 DEF Field
  <2> QED
    BY <1>7, <2>1 DEF Winamp, Heard
<1>13. WindowsMediaPlayer(t, p) \subseteq False(All) \cup True(All)
  <2>1. {t} \cup Heard \subseteq All /\ {t} \subseteq All
    BY <1>1, <1>4
  <2> QED
    BY <1>6, <1>7, <2>1 DEF WindowsMediaPlayer, Heard
<1>14. ITunes(t, p) \subseteq False(All) \cup True(All)
  <2> DEFINE Told == {t} \cup SaysOneOf(t, p, Active)
  <2>1. Told \subseteq All
    BY <1>1, <1>4
  <2>2. {Says(t, p, "OFF")} \cup WritesSome(Told, p) \subseteq All
    BY <1>2, <1>3, <1>6, <2>1
  <2> QED
    BY <1>7, <2>1, <2>2 DEF ITunes
<1>15. LastFm(t, p) \subseteq False(All) \cup True(All)
                                \cup {[b |-> t.status = "NORMAL", ti |-> t]}
  <2> DEFINE Line == Writes(t, p, {"track", "artist"})
  <2>1. Line \in All /\ Line \in TrackInfo
    BY <1>1, <1>5 DEF Field, All, AllTouched
  <2>2. \A s \in Constants : Says(Line, p, s) \in All
    BY <1>3, <2>1, SaysTouches, TouchedTwice DEF All, AllTouched, Touched, Even
  <2>3. {t, Says(Line, p, "OFF")} \subseteq All /\ {Says(Line, p, "NORMAL")} \subseteq All
    BY <1>1, <1>3, <2>2
  <2> QED
    BY <1>7, <2>3 DEF LastFm
<1> QED
  BY <1>8, <1>9, <1>10, <1>11, <1>12, <1>13, <1>14, <1>15 DEF All

(* Every track_func leaves the TrackInfo so; l is the library loaded. *)
LEMMA OutcomesLeave ==
    ASSUME NEW t \in TrackInfo, NEW p \in Player, NEW l \in Legacy \cup {Nobody},
           NEW r \in Outcomes(t, p, l)
    PROVE  \E q \in Author :
                Left(t, q, r) /\ (q = p \/ (q \in Legacy /\ r.ti.by = q))
<1>1. p \in KnownPlayer /\ p \in Author /\ l \in Author
  BY NamesAssumption DEF Author
<1>2. CASE p \in Legacy
  <2>1. r \in XmmsControl(t, l)
    BY <1>2 DEF Outcomes, Legacy
  <2>2. CASE l = Nobody
    <3>1. r.b = FALSE /\ r.ti = t
      BY <2>1, <2>2 DEF XmmsControl, False
    <3> QED
      BY <1>1, <3>1, UntouchedLeft DEF Left, Touched, Even
  <2>3. CASE l # Nobody
    <3>1. Left(t, l, r)
      BY <1>1, <2>1, <2>3, UsualPlayers, UsualLeaves
    <3>2. r.ti.by = l
      BY <2>1, <2>3 DEF XmmsControl, True, SaysOneOf, Says, Writes, Filled
    <3> QED
      BY <1>1, <2>3, <3>1, <3>2
  <2> QED
    BY <2>2, <2>3
<1>3. CASE p \in BusPlayer \cup {"Messenger compatible", "Foobar2000"}
  <2>1. r \in Usual(t, p)
    BY <1>3, UsualPlayers DEF Outcomes, Legacy, BusPlayer
  <2> QED
    BY <1>1, <2>1, UsualLeaves
<1>4. CASE p = "Amarok 1.x.x"
  <2>1. r \in Amarok(t, p)
    BY <1>4 DEF Outcomes, Legacy
  <2> QED
    BY <1>1, <1>4, <2>1, AmarokLeaves
<1>5. CASE p \in Leaver
  <2>1. r \in False(AllTouched(t, p)) \cup True(AllTouched(t, p))
    BY <1>1, <1>5, LeaverPlayers DEF Outcomes, Legacy, Leaver
  <2> QED
    BY <1>1, <1>5, <2>1, LeaversLeave
<1>6. CASE p = "Last.fm"
  <2>1. r \in LastFm(t, p)
    BY <1>6 DEF Outcomes, Legacy
  <2>2. CASE r = [b |-> t.status = "NORMAL", ti |-> t]
    <3>1. r.ti = t /\ r.b = (t.status = "NORMAL")
      BY <2>2
    <3>2. r.b \in BOOLEAN
      BY <3>1
    <3> QED
      BY <1>1, <1>6, <3>1, <3>2, UntouchedLeft DEF Left, Even
  <2>3. CASE r \in False(AllTouched(t, p)) \cup True(AllTouched(t, p))
    BY <1>1, <1>6, <2>3, LeaversLeave
  <2> QED
    BY <1>1, <2>1, <2>2, <2>3, LeaverPlayers
<1> QED
  BY <1>1, <1>2, <1>3, <1>4, <1>5, <1>6 DEF KnownPlayer, Leaver

-----------------------------------------------------------------------------
(* The TrackInfo of a pass                                                 *)

(* What the players passed over have left. *)
Leftover(t) == \A f \in Field : t.holds[f] \in {Nobody} \cup Leaver

(* What is announced of one that is settled. *)
Mixture(t) ==
    \A f \in Field : t.holds[f] \in {Nobody, t.by, t.player} \cup Leaver

(* While the search goes on the TrackInfo has only leftovers. *)
Passing ==
    phase = "asking" =>
       /\ Unsettled(b, ti) /\ asked < Len(Order) => Leftover(ti)
       /\ ~Unsettled(b, ti) => Mixture(ti)
       /\ choice # "auto" => Unsettled(b, ti) /\ asked < Len(Order)

PassInv == TypeOK /\ Passing /\ LeftByLeavers

LEMMA BlankType == Blank \in TrackInfo /\ Leftover(Blank) /\ Unsettled(TRUE, Blank)
  BY DEF Blank, TrackInfo, Leftover, Unsettled, Author, Status

LEMMA AskLeaves ==
    ASSUME NEW p \in Player, TypeOK, Leftover(ti), Ask(p)
    PROVE  /\ library' \in Installed \cup {Nobody}
           /\ b' \in BOOLEAN /\ ti' \in TrackInfo
           /\ Unsettled(b', ti') /\ p # "Last.fm" => Leftover(ti')
           /\ ~Unsettled(b', ti') => Mixture(ti')
<1> DEFINE t == [ti EXCEPT !.player = p]
<1>1. t \in TrackInfo /\ t.player = p /\ Leftover(t)
  BY DEF TypeOK, TrackInfo, Leftover
<1>2. library' \in Installed \cup {Nobody}
  BY DEF Ask, LibraryFor, TypeOK
<1>3. PICK r \in Outcomes(t, p, library') : b' = r.b /\ ti' = r.ti
  BY DEF Ask, Answers
<1> HIDE DEF t
<1>4. library' \in Legacy \cup {Nobody}
  BY <1>2, InstalledAssumption
<1>5. PICK q \in Author : Left(t, q, r) /\ (q = p \/ (q \in Legacy /\ r.ti.by = q))
  BY <1>1, <1>3, <1>4, OutcomesLeave
<1>6. b' \in BOOLEAN /\ Touched(t, q, ti')
  BY <1>3, <1>5 DEF Left
<1>7. ti' \in TrackInfo /\ ti'.player = p
  BY <1>1, <1>6 DEF Touched
<1>8. ASSUME Unsettled(b', ti'), p # "Last.fm"
      PROVE  Leftover(ti')
  <2>1. q \in Leaver \/ Spared(t, ti')
    BY <1>3, <1>5, <1>8 DEF Left, Legacy
  <2> QED
    BY <1>1, <1>6, <2>1 DEF Leftover, Touched, Spared
<1>9. Mixture(ti')
  <2>1. q \in {ti'.by, ti'.player}
    BY <1>3, <1>5, <1>7
  <2> QED
    BY <1>1, <1>6, <2>1 DEF Leftover, Touched, Mixture
<1> QED
  BY <1>2, <1>6, <1>7, <1>8, <1>9

LEMMA AskOdd ==
    ASSUME NEW p \in Player, TypeOK, ti.status # "ODD", Ask(p)
    PROVE  ti'.status = "ODD" => OddAmarok'
<1> DEFINE t == [ti EXCEPT !.player = p]
<1>1. t \in TrackInfo /\ t.player = p /\ t.status = ti.status
  BY DEF TypeOK, TrackInfo
<1>2. library' \in Legacy \cup {Nobody}
  BY InstalledAssumption DEF Ask, LibraryFor, TypeOK
<1>3. PICK r \in Outcomes(t, p, library') : b' = r.b /\ ti' = r.ti
  BY DEF Ask, Answers
<1> HIDE DEF t
<1>4. PICK q \in Author : Left(t, q, r) /\ (q = p \/ (q \in Legacy /\ r.ti.by = q))
  BY <1>1, <1>2, <1>3, OutcomesLeave
<1>5. ti'.status = "ODD" => q = "Amarok 1.x.x" /\ b'
  BY <1>1, <1>3, <1>4 DEF Left, Even
<1>6. ti'.player = p
  BY <1>1, <1>3, <1>4 DEF Left, Touched
<1> QED
  BY <1>4, <1>5, <1>6 DEF OddAmarok, Legacy

LEMMA PassInit == Init => PassInv
  BY BlankType, OrderAssumption
  DEF Init, PassInv, TypeOK, Passing, LeftByLeavers, Announced, Done

LEMMA PassStep == PassInv /\ [Next]_vars => PassInv'
<1> SUFFICES ASSUME PassInv, [Next]_vars
             PROVE  PassInv'
  OBVIOUS
<1> USE OrderAssumption DEF PassInv
<1>1. ASSUME NEW c \in Player \cup {"auto"}, PlayerChanged(c)
      PROVE  PassInv'
  BY <1>1, BlankType
  DEF PlayerChanged, TypeOK, Passing, LeftByLeavers, Announced, Done
<1>2. ASSUME NEW p \in Reachable \cup {Nobody}, Begin(p)
      PROVE  PassInv'
  <2>1. TypeOK'
    BY <1>2, BlankType DEF Begin, TypeOK, Reachable
  <2>2. phase' = "asking" /\ asked' = 0 /\ b' = TRUE /\ ti' = Blank
    BY <1>2 DEF Begin
  <2>3. 0 < Len(Order)
    OBVIOUS
  <2>4. Leftover(ti') /\ Unsettled(b', ti')
    BY <2>2, BlankType
  <2>5. Passing' /\ LeftByLeavers'
    BY <2>2, <2>3, <2>4
    DEF Passing, LeftByLeavers, Announced, Done, Unsettled, Leftover
  <2> QED
    BY <2>1, <2>5
<1>3. CASE AskChosen
  <2>1. Leftover(ti) /\ choice \in Player
    BY <1>3 DEF AskChosen, Passing, TypeOK
  <2>2. Ask(choice)
    BY <1>3 DEF AskChosen
  <2>3. TypeOK'
    BY <1>3, <2>1, <2>2, AskLeaves DEF AskChosen, TypeOK
  <2>4. ~Unsettled(b', ti') => Mixture(ti')
    BY <2>1, <2>2, AskLeaves
  <2>5. Passing' /\ LeftByLeavers'
    BY <1>3, <2>4
    DEF AskChosen, Passing, LeftByLeavers, Announced, Active, Done, Unsettled, Mixture
  <2> QED
    BY <2>3, <2>5
<1>4. CASE AskNext
  <2> DEFINE p == Order[asked']
  <2>1. /\ asked \in Nat /\ asked' = asked + 1 /\ asked' \in 1 .. Len(Order)
        /\ Leftover(ti)
    BY <1>4 DEF AskNext, Passing, TypeOK
  <2>2. p \in Player
    BY <2>1 DEF Player
  <2>3. asked' < Len(Order) => p # "Last.fm"
    BY <2>1
  <2>4. Ask(p)
    BY <1>4 DEF AskNext
  <2> HIDE DEF p
  <2>5. /\ library' \in Installed \cup {Nobody}
        /\ b' \in BOOLEAN /\ ti' \in TrackInfo
        /\ Unsettled(b', ti') /\ p # "Last.fm" => Leftover(ti')
        /\ ~Unsettled(b', ti') => Mixture(ti')
    BY <2>1, <2>2, <2>4, AskLeaves
  <2>6. TypeOK'
    BY <1>4, <2>1, <2>5 DEF AskNext, TypeOK
  <2>7. Passing' /\ LeftByLeavers'
    BY <1>4, <2>3, <2>5 DEF AskNext, Passing, LeftByLeavers, Announced, Active, Done
  <2> QED
    BY <2>6, <2>7
<1>5. CASE StopAsking
  BY <1>5
  DEF StopAsking, TypeOK, Passing, LeftByLeavers, Announced, Active, Done, Unsettled,
      Mixture
<1>6. CASE UNCHANGED vars
  BY <1>6
  DEF vars, TypeOK, Passing, LeftByLeavers, Announced, Done, Unsettled,
      Leftover, Mixture
<1> QED
  BY <1>1, <1>2, <1>3, <1>4, <1>5, <1>6 DEF Next

(* Whatever 21 track_funcs do in whatever order, what they leave is a      *)
(* TrackInfo, and the library is one that is installed.                    *)
THEOREM TypeCorrect == Spec => []TypeOK
<1>1. PassInv => TypeOK
  BY DEF PassInv
<1> QED
  BY <1>1, PassInit, PassStep, PTL DEF Spec

(* What is announced is of the player announced or of one of the seven     *)
(* that write the TrackInfo before they are passed over, in any order of   *)
(* g_players that has Last.fm last.                                        *)
THEOREM OthersLeaveNothing == Spec => []LeftByLeavers
<1>1. PassInv => LeftByLeavers
  BY DEF PassInv
<1> QED
  BY <1>1, PassInit, PassStep, PTL DEF Spec

-----------------------------------------------------------------------------
(* The search                                                              *)

(* While the auto-detection runs, either it is settled or a steady player  *)
(* is still to be asked.                                                   *)
Searching ==
    phase = "asking" /\ choice = "auto" /\ steady # Nobody =>
        \/ ~Unsettled(b, ti)
        \/ \E i \in 1 .. Len(Order) : i > asked /\ Order[i] = steady

(* What is no status is Amarok's, and settles the search. *)
OddSettles == phase = "asking" /\ ti.status = "ODD" => OddAmarok

SearchInv == PassInv /\ Searching /\ OddSettles /\ PlayingIsFound

LEMMA SearchInit == Init => SearchInv
  BY PassInit
  DEF Init, Blank, SearchInv, Searching, OddSettles, PlayingIsFound, Done

LEMMA SearchStep == SearchInv /\ [Next]_vars => SearchInv'
<1> SUFFICES ASSUME SearchInv, [Next]_vars
             PROVE  SearchInv'
  OBVIOUS
<1> USE OrderAssumption DEF SearchInv
<1> DEFINE Found == Searching /\ OddSettles /\ PlayingIsFound
<1>1. PassInv' /\ TypeOK
  BY PassStep DEF PassInv
<1>2. SUFFICES Found'
  BY <1>1
<1>3. ASSUME NEW c \in Player \cup {"auto"}, PlayerChanged(c)
      PROVE  Found'
  BY <1>3 DEF PlayerChanged, Searching, OddSettles, PlayingIsFound, Done
<1>4. ASSUME NEW p \in Reachable \cup {Nobody}, Begin(p)
      PROVE  Found'
  <2>1. p # Nobody => \E i \in 1 .. Len(Order) : i > 0 /\ Order[i] = p
    <3>1. p # Nobody => \E i \in DOMAIN Order : Order[i] = p
      BY DEF Reachable, Player
    <3> QED
      BY <3>1
  <2>2. phase' = "asking" /\ asked' = 0 /\ ti' = Blank /\ steady' = p
    BY <1>4 DEF Begin
  <2> QED
    BY <2>1, <2>2 DEF Searching, OddSettles, PlayingIsFound, Done, Blank
<1>5. CASE AskChosen
  BY <1>5 DEF AskChosen, Searching, OddSettles, PlayingIsFound, Done
<1>6. CASE AskNext
  <2>1. asked \in Nat /\ asked' = asked + 1 /\ asked' \in DOMAIN Order
    BY <1>1, <1>6 DEF AskNext, TypeOK
  <2> DEFINE p == Order[asked']
  <2>2. p \in Player /\ Ask(p)
    BY <1>6, <2>1 DEF AskNext, Player
  <2>3. p = steady => ~Unsettled(b', ti')
    BY <2>2 DEF Ask, Answers, Plays, Unsettled
  <2>4. Searching'
    BY <1>6, <2>1, <2>3 DEF AskNext, Searching
  <2>5. ti.status # "ODD"
    BY <1>6 DEF AskNext, OddSettles, OddAmarok, Unsettled
  <2> HIDE DEF p
  <2>10. OddSettles'
    BY <1>1, <2>2, <2>5, AskOdd DEF OddSettles
  <2>11. PlayingIsFound'
    BY <1>6 DEF AskNext, PlayingIsFound, Done
  <2> QED
    BY <2>4, <2>10, <2>11
<1>7. CASE StopAsking
  <2>1. asked = Len(Order) => ~ \E i \in 1 .. Len(Order) : i > asked
    OBVIOUS
  <2>2. choice = "auto" /\ steady # Nobody => b /\ ti.status # "OFF"
    BY <1>7, <2>1 DEF StopAsking, Searching, Unsettled
  <2>3. ti.status \in Active \cup {"OFF", "ODD"}
    BY <1>1 DEF TypeOK, TrackInfo, Status
  <2>4. PlayingIsFound'
    BY <1>7, <2>2, <2>3
    DEF StopAsking, OddSettles, PlayingIsFound, Announced, Done, OddAmarok
  <2> QED
    BY <1>7, <2>4 DEF StopAsking, Searching, OddSettles
<1>8. CASE UNCHANGED vars
  BY <1>8 DEF vars, Searching, OddSettles, PlayingIsFound, Announced, Done,
              OddAmarok, Unsettled
<1> QED
  BY <1>3, <1>4, <1>5, <1>6, <1>7, <1>8 DEF Next

(* The auto-detection announces a player that plays or is paused while     *)
(* some player plays, however many others it asks before and whatever they *)
(* answer, if it is not a number of Amarok's that is no status.            *)
THEOREM NoPlayingMissed == Spec => []PlayingIsFound
<1>1. SearchInv => PlayingIsFound
  BY DEF SearchInv
<1> QED
  BY <1>1, SearchInit, SearchStep, PTL DEF Spec

-----------------------------------------------------------------------------
(* Whose status it is                                                      *)

(* Set by p; set by p or as it was in t.                                   *)
By(p, T) == \A u \in T : u.by = p
AsIn(t, p, T) == \A u \in T : u.by = p \/ u.status = t.status

LEMMA SaidBy ==
    ASSUME NEW t, NEW p, NEW S
    PROVE  By(p, SaysOneOf(t, p, S)) /\ \A s : By(p, {Says(t, p, s)})
  BY DEF By, SaysOneOf, Says

LEMMA WritingKeeps ==
    ASSUME NEW u, NEW p, NEW F
    PROVE  /\ Writes(u, p, F).by = u.by /\ Writes(u, p, F).status = u.status
           /\ Replaces(u, p, F).by = u.by /\ Replaces(u, p, F).status = u.status
  BY DEF Writes, Replaces, Filled

LEMMA WrittenBy ==
    ASSUME NEW t, NEW p, NEW T
    PROVE  /\ By(p, T) => By(p, WritesSome(T, p)) /\ By(p, ReplacesSome(T, p))
           /\ AsIn(t, p, T) => AsIn(t, p, WritesSome(T, p))
<1>1. ASSUME By(p, T)
      PROVE  By(p, WritesSome(T, p)) /\ By(p, ReplacesSome(T, p))
  BY <1>1, WritingKeeps DEF By, WritesSome, ReplacesSome
<1>2. ASSUME AsIn(t, p, T)
      PROVE  AsIn(t, p, WritesSome(T, p))
  BY <1>2, WritingKeeps DEF AsIn, WritesSome
<1> QED
  BY <1>1, <1>2

LEMMA ByBoth ==
    ASSUME NEW t, NEW p, NEW T, NEW U
    PROVE  /\ By(p, T) /\ By(p, U) => By(p, T \cup U)
           /\ AsIn(t, p, T) /\ AsIn(t, p, U) => AsIn(t, p, T \cup U)
           /\ By(p, T) => AsIn(t, p, T)
           /\ AsIn(t, p, {t})
  BY DEF By, AsIn

(* What can be said of the status that a track_func leaves.                *)
Honest(t, p, q, r) ==
    /\ r.b => \/ r.ti.status = "OFF" \/ r.ti.by = q
              \/ p \in KeepsStatus /\ r.ti.status = t.status
    /\ ~r.b => \/ r.ti.status = "OFF" \/ p \in FailsActive
               \/ p \notin Resets /\ r.ti.status = t.status

LEMMA HonestSuccess ==
    ASSUME NEW t, NEW p, NEW q, NEW T, NEW r, r \in True(T),
           By(q, T) \/ (p = q /\ p \in KeepsStatus /\ AsIn(t, p, T))
    PROVE  Honest(t, p, q, r)
<1>1. r.b = TRUE /\ r.ti \in T
  BY Returned
<1> QED
  BY <1>1 DEF Honest, By, AsIn

LEMMA HonestFailure ==
    ASSUME NEW t, NEW p, NEW q, NEW T, NEW r, r \in False(T),
           \/ p \in FailsActive
           \/ \A u \in T : u.status = "OFF"
           \/ p \notin Resets /\ \A u \in T : u.status = t.status
    PROVE  Honest(t, p, q, r)
<1>1. r.b = FALSE /\ r.ti \in T
  BY Returned
<1> QED
  BY <1>1 DEF Honest

(* Who fails with what was found and succeeds with a status of his own     *)
LEMMA HonestPlayers ==
    ASSUME NEW t, NEW p, NEW r, bus, p \notin Resets,
           \/ r \in Audacious(t, p) \/ r \in Rhythmbox(t, p) \/ r \in Vagalume(t, p)
           \/ r \in Moc(t, p) \/ r \in Listen(t, p) \/ r \in SqueezeCenter(t, p)
           \/ r \in Songbird(t, p) \/ r \in MessengerCompatible(t, p)
    PROVE  Honest(t, p, p, r)
<1> DEFINE Heard == SaysOneOf(t, p, Active)
           Off == {Says(t, p, "OFF")}
           All == SaysOneOf(t, p, Active \cup {"OFF"})
<1>1. /\ By(p, Heard) /\ By(p, Off) /\ By(p, All) /\ By(p, {Says(t, p, "NORMAL")})
      /\ By(p, SaysOneOf(t, p, {"OFF", "PAUSED", "NORMAL"}))
  BY SaidBy
<1>2. /\ By(p, WritesSome(Heard, p)) /\ By(p, ReplacesSome(All, p))
      /\ By(p, ReplacesSome({Says(t, p, "NORMAL")}, p))
      /\ By(p, {Replaces(Says(t, p, "OFF"), p, {})})
      /\ By(p, {Writes(Says(t, p, "NORMAL"), p, Field)})
      /\ By(p, {Writes(u, p, {"track"}) : u \in All})
  <2>1. /\ By(p, WritesSome(Heard, p)) /\ By(p, ReplacesSome(All, p))
        /\ By(p, ReplacesSome({Says(t, p, "NORMAL")}, p))
    <3> HIDE DEF Heard, All
    <3> QED
      BY <1>1, WrittenBy
  <2>2. /\ By(p, {Replaces(Says(t, p, "OFF"), p, {})})
        /\ By(p, {Writes(Says(t, p, "NORMAL"), p, Field)})
    BY WritingKeeps DEF By, Says
  <2>3. By(p, {Writes(u, p, {"track"}) : u \in All})
    <3> HIDE DEF All
    <3> QED
      BY <1>1, WritingKeeps DEF By
  <2> QED
    BY <2>1, <2>2, <2>3
<1>3. /\ By(p, Off \cup WritesSome(Heard, p))
      /\ By(p, {Replaces(Says(t, p, "OFF"), p, {})}
                 \cup ReplacesSome({Says(t, p, "NORMAL")}, p))
      /\ By(p, SaysOneOf(t, p, {"OFF", "PAUSED", "NORMAL"})
                 \cup {Writes(Says(t, p, "NORMAL"), p, Field)})
      /\ By(p, {Writes(u, p, {"track"}) : u \in All} \cup ReplacesSome(All, p))
  <2> HIDE DEF Off, Heard, All
  <2> QED
    BY <1>1, <1>2, ByBoth
<1>4. \/ r \in False({t})
      \/ \E T : r \in True(T) /\ By(p, T)
  <2>1. CASE r \in Audacious(t, p) \/ r \in Rhythmbox(t, p) \/ r \in Songbird(t, p)
    <3>1. r \in False({t}) \/ r \in True(Off \cup WritesSome(Heard, p))
      BY <2>1 DEF Audacious, Rhythmbox, Songbird
    <3> QED
      BY <1>3, <3>1
  <2>2. CASE r \in Vagalume(t, p)
    <3> DEFINE T == {Replaces(Says(t, p, "OFF"), p, {})}
                      \cup ReplacesSome({Says(t, p, "NORMAL")}, p)
    <3>1. r \in False({t}) \/ r \in True(T)
      BY <2>2 DEF Vagalume
    <3> QED
      BY <1>3, <3>1
  <2>3. CASE r \in Moc(t, p)
    <3>1. r \in False({t}) \/ r \in True(ReplacesSome(All, p))
      BY <2>3 DEF Moc
    <3> QED
      BY <1>2, <3>1
  <2>4. CASE r \in Listen(t, p)
    <3> DEFINE T == SaysOneOf(t, p, {"OFF", "PAUSED", "NORMAL"})
                      \cup {Writes(Says(t, p, "NORMAL"), p, Field)}
    <3>1. r \in False({t}) \/ r \in True(T)
      BY <2>4 DEF Listen
    <3> QED
      BY <1>3, <3>1
  <2>5. CASE r \in SqueezeCenter(t, p)
    <3> DEFINE T == {Writes(u, p, {"track"}) : u \in All} \cup ReplacesSome(All, p)
    <3>1. r \in False({t}) \/ r \in True(T)
      BY <2>5 DEF SqueezeCenter
    <3> QED
      BY <1>3, <3>1
  <2>6. CASE r \in MessengerCompatible(t, p)
    <3> DEFINE T == ReplacesSome({Says(t, p, "NORMAL")}, p)
    <3>1. r \in False({t}) \/ r \in True(T)
      BY <2>6 DEF MessengerCompatible
    <3> QED
      BY <1>2, <3>1
  <2> QED
    BY <2>1, <2>2, <2>3, <2>4, <2>5, <2>6
<1>5. CASE r \in False({t})
  BY <1>5, HonestFailure
<1>6. CASE \E T : r \in True(T) /\ By(p, T)
  BY <1>6, HonestSuccess
<1> QED
  BY <1>4, <1>5, <1>6

(* Who always succeeds, or fails with STATUS_OFF                           *)
LEMMA HonestResetters ==
    ASSUME NEW t, NEW p, NEW r, bus,
           \/ r \in QuodLibet(t, p) \/ r \in Exaile(t, p) \/ r \in Mpris(t, p)
           \/ r \in Winamp(t, p) \/ r \in Foobar2000(t, p)
    PROVE  Honest(t, p, p, r)
<1> DEFINE Heard == SaysOneOf(t, p, Active)
           Off == {Says(t, p, "OFF")}
           All == SaysOneOf(t, p, Active \cup {"OFF"})
           Untold == {u \in All : \A f \in Field : u.holds[f] = Nobody}
           Titles == {Writes(u, p, {"track"}) : u \in Untold}
           Found == {Says(t, p, "OFF"), Says(t, p, "NORMAL"),
                     Writes(Says(t, p, "NORMAL"), p, Field)}
<1>1. By(p, Heard) /\ By(p, Off) /\ By(p, All)
  BY SaidBy
<1>2. By(p, Found)
  BY WritingKeeps DEF By, Says
<1>3. By(p, Titles)
  <2>1. \A u \in Untold : u.by = p
    <3> HIDE DEF All
    <3> QED
      BY <1>1 DEF By
  <2> HIDE DEF Untold
  <2> QED
    BY <2>1, WritingKeeps DEF By
<1>4. /\ By(p, Off \cup ReplacesSome(Heard, p)) /\ By(p, ReplacesSome(Heard, p))
      /\ By(p, Off \cup WritesSome(Heard, p))
      /\ By(p, All \cup ReplacesSome(All, p) \cup Titles)
  <2> HIDE DEF Off, Heard, All, Titles
  <2>1. /\ By(p, ReplacesSome(Heard, p)) /\ By(p, WritesSome(Heard, p))
        /\ By(p, ReplacesSome(All, p))
    BY <1>1, WrittenBy
  <2>2. By(p, All \cup ReplacesSome(All, p))
    BY <1>1, <2>1, ByBoth
  <2> QED
    BY <1>1, <1>3, <2>1, <2>2, ByBoth
<1>5. CASE r \in QuodLibet(t, p)
  <2>1. r \in True(Off \cup ReplacesSome(Heard, p))
    BY <1>5 DEF QuodLibet
  <2> QED
    BY <1>4, <2>1, HonestSuccess
<1>6. CASE r \in Exaile(t, p)
  <2>1. r \in True(Off \cup WritesSome(Heard, p))
    BY <1>6 DEF Exaile
  <2> QED
    BY <1>4, <2>1, HonestSuccess
<1>7. CASE r \in Mpris(t, p)
  <2>1. r \in False(Off) \/ r \in True(ReplacesSome(Heard, p))
    BY <1>7 DEF Mpris
  <2>2. \A u \in Off : u.status = "OFF"
    BY DEF Says
  <2> QED
    BY <1>4, <2>1, <2>2, HonestSuccess, HonestFailure
<1>8. CASE r \in Winamp(t, p)
  <2>1. r \in True(All \cup ReplacesSome(All, p) \cup Titles)
    BY <1>8 DEF Winamp
  <2> QED
    BY <1>4, <2>1, HonestSuccess
<1>9. CASE r \in Foobar2000(t, p)
  <2>1. r \in True(Found)
    BY <1>9 DEF Foobar2000
  <2> QED
    BY <1>2, <2>1, HonestSuccess
<1> QED
  BY <1>5, <1>6, <1>7, <1>8, <1>9

(* Who may succeed with what was found                                     *)
LEMMA HonestKeepers ==
    ASSUME NEW t, NEW p, NEW r, p \in KeepsStatus,
           \/ r \in Amarok(t, p)
           \/ r \in Mpd(t, p) /\ p \notin Resets
           \/ r \in WindowsMediaPlayer(t, p) /\ p \notin Resets
           \/ r \in Xmms2(t, p) /\ p \in FailsActive
           \/ r \in ITunes(t, p) /\ p \in FailsActive
    PROVE  Honest(t, p, p, r)
<1> DEFINE Off == {Says(t, p, "OFF")}
           All == {t} \cup SaysOneOf(t, p, Active \cup {"OFF"})
           Any == {t} \cup SaysOneOf(t, p, Status)
           Playing == {t} \cup SaysOneOf(t, p, Active)
           Stopped == {u \in Any : u.status = "OFF"}
           Rest == Any \ Stopped
<1>1. AsIn(t, p, Off) /\ AsIn(t, p, All) /\ AsIn(t, p, Any) /\ AsIn(t, p, Playing)
  BY SaidBy, ByBoth
<1>2. AsIn(t, p, Stopped) /\ AsIn(t, p, Rest)
  <2> HIDE DEF Any
  <2> QED
    BY <1>1 DEF AsIn
<1>3. /\ AsIn(t, p, Off \cup Stopped \cup WritesSome(Rest, p))
      /\ AsIn(t, p, WritesSome(All, p))
      /\ AsIn(t, p, Off \cup WritesSome(Playing, p))
  <2> HIDE DEF Off, Stopped, Rest, All, Playing
  <2>1. /\ AsIn(t, p, WritesSome(Rest, p)) /\ AsIn(t, p, WritesSome(All, p))
        /\ AsIn(t, p, WritesSome(Playing, p))
    BY <1>1, <1>2, WrittenBy
  <2>2. AsIn(t, p, Off \cup Stopped)
    BY <1>1, <1>2, ByBoth
  <2> QED
    BY <1>1, <2>1, <2>2, ByBoth
<1>4. CASE r \in Amarok(t, p)
  <2>1. r \in False(Off) \/ r \in True(Off \cup Stopped \cup WritesSome(Rest, p))
    BY <1>4 DEF Amarok
  <2>2. \A u \in Off : u.status = "OFF"
    BY DEF Says
  <2> HIDE DEF Off, Stopped, Rest
  <2> QED
    BY <1>3, <2>1, <2>2, HonestSuccess, HonestFailure
<1>5. CASE r \in Mpd(t, p) /\ p \notin Resets
  <2> DEFINE Kept == {t} \cup WritesSome({t}, p)
  <2>1. r \in False(Kept) \/ r \in True(WritesSome(All, p))
    BY <1>5 DEF Mpd
  <2>2. \A u \in Kept : u.status = t.status
    BY WritingKeeps DEF WritesSome
  <2> HIDE DEF All, Kept
  <2> QED
    BY <1>3, <1>5, <2>1, <2>2, HonestSuccess, HonestFailure
<1>6. CASE r \in WindowsMediaPlayer(t, p) /\ p \notin Resets
  <2>1. r \in False({t}) \/ r \in True(WritesSome(All, p))
    BY <1>6 DEF WindowsMediaPlayer
  <2>2. \A u \in {t} : u.status = t.status
    OBVIOUS
  <2> HIDE DEF All
  <2> QED
    BY <1>3, <1>6, <2>1, <2>2, HonestSuccess, HonestFailure
<1>7. CASE r \in Xmms2(t, p) /\ p \in FailsActive
  <2>1. r \in False(WritesSome(All, p)) \/ r \in True(WritesSome(All, p))
    BY <1>7 DEF Xmms2
  <2> HIDE DEF All
  <2> QED
    BY <1>3, <1>7, <2>1, HonestSuccess, HonestFailure
<1>8. CASE r \in ITunes(t, p) /\ p \in FailsActive
  <2>1. r \in False(Playing) \/ r \in True(Off \cup WritesSome(Playing, p))
    BY <1>8 DEF ITunes
  <2> HIDE DEF Off, Playing
  <2> QED
    BY <1>3, <1>8, <2>1, HonestSuccess, HonestFailure
<1> QED
  BY <1>4, <1>5, <1>6, <1>7, <1>8

LEMMA HonestBanshee ==
    ASSUME NEW t, NEW p, NEW r, bus, p \in FailsActive, p \notin Resets,
           r \in Banshee(t, p)
    PROVE  Honest(t, p, p, r)
<1> DEFINE T == {Says(t, p, "OFF")} \cup WritesSome(SaysOneOf(t, p, Active), p)
<1>1. By(p, T)
  BY SaidBy, WrittenBy, ByBoth
<1>2. \E U : r \in False(U) \/ r \in True(T)
  BY DEF Banshee
<1> HIDE DEF T
<1> QED
  BY <1>1, <1>2, HonestSuccess, HonestFailure

LEMMA HonestLastFm ==
    ASSUME NEW t, NEW p, NEW r, p \in KeepsStatus, p \notin Resets,
           r \in LastFm(t, p)
    PROVE  Honest(t, p, p, r)
<1> DEFINE line == Writes(t, p, {"track", "artist"})
<1>1. CASE r \in False({t, Says(line, p, "OFF")})
  <2>1. Says(line, p, "OFF").status = "OFF"
    BY DEF Says
  <2>2. r.b = FALSE /\ r.ti \in {t, Says(line, p, "OFF")}
    <3> HIDE DEF line
    <3> QED
      BY <1>1, Returned
  <2>3. r.ti.status = t.status \/ r.ti.status = "OFF"
    BY <2>1, <2>2
  <2> QED
    BY <2>2, <2>3 DEF Honest
<1>2. CASE r = [b |-> t.status = "NORMAL", ti |-> t]
  <2>1. r.ti.status = t.status
    BY <1>2
  <2> QED
    BY <2>1 DEF Honest
<1>3. CASE r \in True({Says(line, p, "NORMAL")})
  <2>1. By(p, {Says(line, p, "NORMAL")})
    BY DEF By, Says
  <2> QED
    BY <1>3, <2>1, HonestSuccess
<1> QED
  BY <1>1, <1>2, <1>3 DEF LastFm

LEMMA HonestLegacy ==
    ASSUME NEW t, NEW p, NEW l, NEW r, p \notin Resets, r \in XmmsControl(t, l)
    PROVE  Honest(t, p, l, r)
<1>1. CASE l = Nobody
  <2>1. r \in False({t})
    BY <1>1 DEF XmmsControl
  <2> QED
    BY <2>1, HonestFailure
<1>2. CASE l # Nobody
  <2> DEFINE T == {Writes(u, l, F) : u \in SaysOneOf(t, l, Active), F \in {{}, Field}}
  <2>1. By(l, T)
    BY SaidBy, WritingKeeps DEF By
  <2>2. By(l, {Says(t, l, "OFF")} \cup T)
    <3> HIDE DEF T
    <3> QED
      BY <2>1, SaidBy, ByBoth
  <2>3. r \in True({Says(t, l, "OFF")} \cup T)
    BY <1>2 DEF XmmsControl
  <2> HIDE DEF T
  <2> QED
    BY <2>2, <2>3, HonestSuccess
<1> QED
  BY <1>1, <1>2

(* Every track_func is honest, in its own name or, on the pointers that    *)
(* two share, in that of the other.                                        *)
LEMMA OutcomesHonest ==
    ASSUME NEW t, NEW p \in KnownPlayer, NEW l, NEW r \in Outcomes(t, p, l), bus
    PROVE  \/ Honest(t, p, p, r)
           \/ p \in Legacy /\ (r.b => l # Nobody) /\ Honest(t, p, l, r)
<1>1. CASE p \in Legacy
  <2>1. p \notin Resets
    BY <1>1 DEF Legacy, Resets
  <2>2. r \in XmmsControl(t, l)
    BY <1>1 DEF Outcomes, Legacy
  <2>3. Honest(t, p, l, r)
    BY <2>1, <2>2, HonestLegacy
  <2>4. r.b => l # Nobody
    <3>1. l = Nobody => r \in False({t})
      BY <2>2 DEF XmmsControl
    <3> QED
      BY <3>1, Returned
  <2> QED
    BY <1>1, <2>3, <2>4
<1>2. CASE p \in {"Audacious >= 1.4", "Rhythmbox", "Vagalume", "MOC", "Listen",
                  "SqueezeCenter", "Songbird", "Messenger compatible"}
  <2>1. p \notin Resets
    BY <1>2 DEF Resets
  <2>2. \/ r \in Audacious(t, p) \/ r \in Rhythmbox(t, p) \/ r \in Vagalume(t, p)
        \/ r \in Moc(t, p) \/ r \in Listen(t, p) \/ r \in SqueezeCenter(t, p)
        \/ r \in Songbird(t, p) \/ r \in MessengerCompatible(t, p)
    BY <1>2 DEF Outcomes, Legacy
  <2> QED
    BY <2>1, <2>2, HonestPlayers
<1>3. CASE p \in {"QuodLibet", "Exaile", "MPRIS", "Winamp", "Foobar2000"}
  <2>1. \/ r \in QuodLibet(t, p) \/ r \in Exaile(t, p) \/ r \in Mpris(t, p)
        \/ r \in Winamp(t, p) \/ r \in Foobar2000(t, p)
    BY <1>3 DEF Outcomes, Legacy
  <2> QED
    BY <2>1, HonestResetters
<1>4. CASE p \in {"Amarok 1.x.x", "MPD", "Windows Media Player", "XMMS2", "iTunes"}
  <2>1. p \in KeepsStatus
    BY <1>4 DEF KeepsStatus
  <2>2. \/ r \in Amarok(t, p)
        \/ r \in Mpd(t, p) /\ p = "MPD"
        \/ r \in WindowsMediaPlayer(t, p) /\ p = "Windows Media Player"
        \/ r \in Xmms2(t, p) /\ p = "XMMS2"
        \/ r \in ITunes(t, p) /\ p = "iTunes"
    BY <1>4 DEF Outcomes, Legacy
  <2>3. /\ "MPD" \notin Resets /\ "Windows Media Player" \notin Resets
        /\ "XMMS2" \in FailsActive /\ "iTunes" \in FailsActive
    BY DEF Resets, FailsActive
  <2> QED
    BY <2>1, <2>2, <2>3, HonestKeepers
<1>5. CASE p = "Banshee"
  <2>1. p \in FailsActive /\ p \notin Resets
    BY <1>5 DEF FailsActive, Resets
  <2>2. r \in Banshee(t, p)
    BY <1>5 DEF Outcomes, Legacy
  <2> QED
    BY <2>1, <2>2, HonestBanshee
<1>6. CASE p = "Last.fm"
  <2>1. p \in KeepsStatus /\ p \notin Resets
    BY <1>6 DEF KeepsStatus, Resets
  <2>2. r \in LastFm(t, p)
    BY <1>6 DEF Outcomes, Legacy
  <2> QED
    BY <2>1, <2>2, HonestLastFm
<1> QED
  BY <1>1, <1>2, <1>3, <1>4, <1>5, <1>6 DEF KnownPlayer, Legacy, BusPlayer

OwnStatus(t) == t.by = t.player \/ {t.by, t.player} \subseteq Legacy

(* A status that nobody stands for may have been left by the i-th player:  *)
(* it failed so, and nobody asked since has removed it.                    *)
LeftSince(i) ==
    Order[i] \in FailsActive /\ \A k \in i + 1 .. asked : Order[k] \notin Resets
Tainted == \E i \in 1 .. asked : LeftSince(i)

(* Of a search that is going on: no status, that of the last player asked, *)
(* or one left by somebody who failed.                                     *)
Accountable ==
    \/ ti.status = "OFF"
    \/ choice = "auto" /\ b /\ OwnStatus(ti)
    \/ choice = "auto" /\ ~b /\ Tainted

OwnInv ==
    /\ PassInv
    /\ bus => StatusIsOwn /\ (phase = "asking" => Accountable)

LEMMA OwnInit == Init => OwnInv
  BY PassInit DEF Init, OwnInv, StatusIsOwn, Announced, Done, Blank

(* After p has been asked.                                                 *)
LEMMA AskIsHonest ==
    ASSUME NEW p \in Player, TypeOK, Ask(p), bus
    PROVE  /\ b' => \/ ti'.status = "OFF" \/ OwnStatus(ti')
                    \/ p \in KeepsStatus /\ ti'.status = ti.status
           /\ ~b' => \/ ti'.status = "OFF" \/ p \in FailsActive
                     \/ p \notin Resets /\ ti'.status = ti.status
<1> DEFINE t == [ti EXCEPT !.player = p]
           l == library'
<1>1. t \in TrackInfo /\ t.player = p /\ t.status = ti.status
  BY DEF TypeOK, TrackInfo
<1>2. l \in Legacy \cup {Nobody}
  BY InstalledAssumption DEF Ask, LibraryFor, TypeOK
<1>3. PICK r \in Outcomes(t, p, l) : b' = r.b /\ ti' = r.ti
  BY DEF Ask, Answers
<1> HIDE DEF t, l
<1>4. PICK q \in Author : Left(t, q, r)
  BY <1>1, <1>2, <1>3, OutcomesLeave
<1>5. ti'.player = p
  BY <1>1, <1>3, <1>4 DEF Left, Touched
<1>6. p \in KnownPlayer
  BY NamesAssumption
<1>7. \/ Honest(t, p, p, r)
      \/ p \in Legacy /\ (r.b => l # Nobody) /\ Honest(t, p, l, r)
  BY <1>3, <1>6, OutcomesHonest
<1>8. CASE Honest(t, p, p, r)
  BY <1>1, <1>3, <1>5, <1>8 DEF Honest, OwnStatus
<1>9. CASE p \in Legacy /\ (r.b => l # Nobody) /\ Honest(t, p, l, r)
  BY <1>1, <1>2, <1>3, <1>5, <1>9 DEF Honest, OwnStatus
<1> QED
  BY <1>7, <1>8, <1>9

(* Whoever may succeed with a status that he found is asked after somebody *)
(* has removed what was left.                                              *)
LEMMA NoTaintBefore ==
    ASSUME NEW n \in DOMAIN Order, asked \in Nat, n = asked + 1,
           Order[n] \in KeepsStatus
    PROVE  ~Tainted
<1> SUFFICES ASSUME NEW i \in 1 .. asked, LeftSince(i)
             PROVE  FALSE
  BY DEF Tainted
<1>1. i \in DOMAIN Order /\ i < n
  BY OrderAssumption
<1>2. PICK k \in DOMAIN Order : i < k /\ k < n /\ Order[k] \in Resets
  BY <1>1, SeparationAssumption DEF LeftSince
<1>3. k \in i + 1 .. asked
  BY <1>2, OrderAssumption
<1> QED
  BY <1>2, <1>3 DEF LeftSince

(* What was left stays until somebody removes it.                          *)
LEMMA TaintStays ==
    ASSUME asked \in Nat, asked' = asked + 1, Tainted, Order[asked'] \notin Resets
    PROVE  Tainted'
<1>1. PICK i \in 1 .. asked : LeftSince(i)
  BY DEF Tainted
<1>2. i \in 1 .. asked'
  OBVIOUS
<1>3. ASSUME NEW k \in i + 1 .. asked'
      PROVE  Order[k] \notin Resets
  <2>1. k \in i + 1 .. asked \/ k = asked'
    OBVIOUS
  <2> QED
    BY <1>1, <2>1 DEF LeftSince
<1> QED
  BY <1>1, <1>2, <1>3 DEF Tainted, LeftSince

LEMMA OwnStep == OwnInv /\ [Next]_vars => OwnInv'
<1> SUFFICES ASSUME OwnInv, [Next]_vars
             PROVE  OwnInv'
  OBVIOUS
<1> DEFINE Own == bus => StatusIsOwn /\ (phase = "asking" => Accountable)
<1>1. PassInv' /\ TypeOK
  BY PassStep DEF OwnInv, PassInv
<1>2. SUFFICES Own'
  BY <1>1 DEF OwnInv
<1>3. ASSUME NEW c \in Player \cup {"auto"}, PlayerChanged(c)
      PROVE  Own'
  BY <1>3 DEF PlayerChanged, StatusIsOwn, Announced, Done
<1>4. ASSUME NEW p \in Reachable \cup {Nobody}, Begin(p)
      PROVE  Own'
  BY <1>4 DEF Begin, StatusIsOwn, Announced, Done, Accountable, Blank
<1>5. CASE AskChosen
  <2>1. bus => ti.status = "OFF"
    BY <1>5 DEF AskChosen, OwnInv, Accountable
  <2>2. choice \in Player /\ Ask(choice)
    BY <1>1, <1>5 DEF AskChosen, TypeOK
  <2>3. bus /\ b' => ti'.status = "OFF" \/ OwnStatus(ti')
    BY <1>1, <2>1, <2>2, AskIsHonest
  <2> QED
    BY <1>5, <2>3 DEF AskChosen, StatusIsOwn, Announced, Active, Done, OwnStatus
<1>6. CASE AskNext
  <2> SUFFICES ASSUME bus
               PROVE  Accountable' /\ phase' = "asking"
    BY <1>6 DEF AskNext, StatusIsOwn, Announced, Done
  <2> DEFINE p == Order[asked']
  <2>1. /\ asked \in Nat /\ asked' = asked + 1 /\ asked' \in DOMAIN Order
        /\ choice' = "auto" /\ phase' = "asking"
    BY <1>1, <1>6, OrderAssumption DEF AskNext, TypeOK
  <2>2. p \in Player /\ Ask(p)
    BY <1>6, <2>1 DEF AskNext, Player
  <2>3. ti.status = "OFF" \/ Tainted
    BY <1>6 DEF AskNext, OwnInv, Accountable, Unsettled
  <2>4. p \in KeepsStatus => ti.status = "OFF"
    BY <2>1, <2>3, NoTaintBefore
  <2>5. p \notin Resets => ti.status = "OFF" \/ Tainted'
    BY <2>1, <2>3, TaintStays
  <2>6. p \in FailsActive => Tainted'
    <3> SUFFICES ASSUME p \in FailsActive
                 PROVE  LeftSince(asked)'
      BY <2>1 DEF Tainted
    <3>1. asked' + 1 .. asked' = {}
      BY <2>1
    <3> QED
      BY <3>1 DEF LeftSince
  <2> HIDE DEF p
  <2>7. /\ b' => ti'.status = "OFF" \/ OwnStatus(ti')
        /\ ~b' => ti'.status = "OFF" \/ Tainted'
    BY <1>1, <2>2, <2>4, <2>5, <2>6, AskIsHonest
  <2> QED
    BY <2>1, <2>7 DEF Accountable, OwnStatus
<1>7. CASE StopAsking
  BY <1>7
  DEF StopAsking, OwnInv, Accountable, StatusIsOwn, Announced, Active, Done, OwnStatus
<1>8. CASE UNCHANGED vars
  BY <1>8
  DEF vars, OwnInv, Accountable, Tainted, LeftSince, StatusIsOwn, Announced, Done,
      OwnStatus
<1> QED
  BY <1>3, <1>4, <1>5, <1>6, <1>7, <1>8 DEF Next

(* In any order of g_players that separates those who fail with a status   *)
(* from those who succeed with one they found, the status announced has    *)
(* been set by the player announced.                                       *)
THEOREM StatusesAreOwn == Spec => []StatusIsOwn
<1>1. OwnInv /\ bus => StatusIsOwn
  BY DEF OwnInv
<1>2. OwnInv => StatusIsOwn
  BY <1>1 DEF StatusIsOwn
<1> QED
  BY <1>2, OwnInit, OwnStep, PTL DEF Spec
=============================================================================
