------------------------- MODULE MusicTrackerProofs -------------------------
(***************************************************************************)
(* Theorems about MusicTracker, for any accounts, tracks, formats and      *)
(* preferences.                                                            *)
(***************************************************************************)
EXTENDS MusicTrackerProperties, TLAPS

(* The texts and track informations that the operators are applied to *)
Info == TrackInfo \cup {NoInfo}

LEMMA MessageTypes ==
    /\ Empty \in Message /\ NullMessage \in Message
    /\ NoSub \notin Message
    /\ \A s \in Status \cup {"custom"}, t \in Triple :
         [by |-> s, body |-> t] \in Message
  BY DEF Message, Empty, NullMessage, NoSub, Status

LEMMA GenerateStatusType ==
  ASSUME NEW by \in Status \cup {"custom"}, NEW format \in BOOLEAN,
         NEW ti \in TrackInfo
  PROVE  GenerateStatus(by, format, ti) \in Message
  BY MessageTypes DEF GenerateStatus, TrackInfo

LEMMA SavedMessageType ==
  ASSUME TypeOK, NEW a \in Account
  PROVE  SavedMessage(a) \in Message
  BY MessageTypes DEF TypeOK, Saved, SavedMessage, UserText

LEMMA SetStatusType ==
  ASSUME TypeOK, NEW c \in Custom, NEW a \in Account,
         NEW text \in Message, NEW ti \in Info
  PROVE  SetStatus(c, a, text, ti) \in Presence
  <1>1. presence[a] \in Presence
    BY DEF TypeOK
  <1>2. OverrideText(c, text, ti) \in Message
    <2>1. CASE ti.status = "NORMAL"
      <3>1. ti \in TrackInfo
        BY <2>1 DEF Info, NoInfo
      <3> QED
        BY <3>1, GenerateStatusType DEF OverrideText
    <2>2. CASE ti.status # "NORMAL"
      BY <2>2 DEF OverrideText
    <2> QED
      BY <2>1, <2>2
  <1> DEFINE own == OverrideText(c, text, ti)
  <1>3. StatusText(a, own) \in Message
    BY <1>2, SavedMessageType DEF StatusText
  <1>4. TuneAfter(c, a, own, ti) \in Triple \cup {NoTune}
    BY <1>1 DEF TuneAfter, Presence, Info, TrackInfo, NoInfo, Triple
  <1> QED
    BY <1>1, <1>3, <1>4 DEF SetStatus, Presence

LEMMA SetUserstatusType ==
  ASSUME TypeOK, NEW text \in Message, NEW ti \in Info,
         SetUserstatus(text, ti)
  PROVE  presence' \in [Account -> Presence] /\ mostrecent' \in TrackInfo
  <1>1. ASSUME NEW a \in Account
        PROVE  Visited(a, text, ti) \in Presence
    BY SetStatusType DEF Visited, TypeOK
  <1>2. Stash(ti) \in TrackInfo
    BY DEF Stash, Info, TypeOK
  <1> QED
    BY <1>1, <1>2 DEF SetUserstatus

LEMMA SanitizedType ==
  ASSUME NEW answer \in Answer, answer.status \in Status
  PROVE  Sanitized(answer) \in TrackInfo
  <1>1. answer \in TrackInfo
    BY DEF Answer, Failed, Status, TrackInfo
  <1> QED
    BY <1>1, MaskAssumption DEF Sanitized, TrackInfo

LEMMA ActivatedType ==
  ASSUME NEW p \in Presence, NEW a \in Account, NEW s \in Saved
  PROVE  Activated(p, a, s) \in Presence
  <1>1. (IF s.sub[a] # NoSub THEN s.sub[a] ELSE s.message) \in Message
    BY MessageTypes DEF Saved, UserText
  <1>2. s.active[a] \in ActiveStatus
    BY DEF Saved
  <1> QED
    BY <1>1, <1>2 DEF Activated, Presence

LEMMA FreshType ==
  ASSUME NEW s \in AccountState
  PROVE  /\ Fresh(s) \in Presence
         /\ Fresh(s).account = s
         /\ Fresh(s).message = NullMessage
         /\ Fresh(s).tune = NoTune
  BY MessageTypes DEF Fresh, Presence, ActiveStatus

(* What a poll hands to the pass over the accounts: an empty text when it   *)
(* has no track, and otherwise a text about a track that the filter, if on, *)
(* has been through.                                                        *)
Consistent(text, ti) ==
    /\ ti = NoInfo => text = Empty
    /\ PluginText(text) => text.body = ti.track
    /\ prefs.filter => Mask[ti.track] = ti.track

LEMMA PollPass ==
  ASSUME TypeOK, Poll
  PROVE  \/ UNCHANGED <<presence, mostrecent>>
         \/ \E text \in Message, ti \in Info :
              SetUserstatus(text, ti) /\ Consistent(text, ti)
  <1>1. CASE player = Failed
    <2>1. SetUserstatus(Empty, NoInfo)
      BY <1>1 DEF Poll, Failed, Status
    <2>2. Consistent(Empty, NoInfo)
      BY MaskAssumption DEF Consistent, PluginText, Empty, NoInfo, Status
    <2> QED
      BY <2>1, <2>2, MessageTypes DEF Info
  <1>2. CASE player # Failed /\ player.status \in Status
    <2> DEFINE ti == Sanitized(player)
               text == GenerateStatus(ti.status, prefs.format[ti.status], ti)
    <2>1. ti \in TrackInfo
      BY <1>2, SanitizedType DEF TypeOK
    <2>2. prefs.format[ti.status] \in BOOLEAN
      BY <2>1 DEF TypeOK, Prefs, TrackInfo
    <2>3. text \in Message
      BY <2>1, <2>2, GenerateStatusType DEF TrackInfo
    <2>4. SetUserstatus(text, ti)
      BY <1>2 DEF Poll
    <2>5. ti # NoInfo
      BY <2>1 DEF TrackInfo, NoInfo, Status
    <2>6. PluginText(text) => text.body = ti.track
      BY DEF GenerateStatus, PluginText, Empty, Status
    <2>7. prefs.filter => Mask[ti.track] = ti.track
      <3>1. player \in TrackInfo
        BY <1>2 DEF TypeOK, Answer, Failed, Status, TrackInfo
      <3> QED
        BY <3>1, MaskAssumption DEF Sanitized, TrackInfo
    <2> QED
      BY <2>1, <2>3, <2>4, <2>5, <2>6, <2>7 DEF Info, Consistent
  <1>3. CASE player # Failed /\ player.status \notin Status
    BY <1>3 DEF Poll
  <1> QED
    BY <1>1, <1>2, <1>3

(* Every variable keeps its type, whatever the user and the players do.    *)
THEOREM TypeCorrect == Spec => []TypeOK
  <1>1. Init => TypeOK
    <2> SUFFICES ASSUME Init PROVE TypeOK
      OBVIOUS
    <2>1. presence \in [Account -> Presence]
      BY FreshType DEF Init, AccountState
    <2>2. saved \in Saved
      BY DEF Init, Saved, ActiveStatus
    <2>3. mostrecent \in TrackInfo
      BY DEF Init, TrackInfo, Status, Triple
    <2> QED
      BY <2>1, <2>2, <2>3, SetsAssumption DEF Init, TypeOK
  <1>2. TypeOK /\ [Next]_vars => TypeOK'
    <2> SUFFICES ASSUME TypeOK, [Next]_vars PROVE TypeOK'
      OBVIOUS
    <2>0. Empty \in Message /\ NoInfo \in Info
      BY MessageTypes DEF Info
    <2>1. CASE Poll
      <3>1. presence' \in [Account -> Presence] /\ mostrecent' \in TrackInfo
        BY <2>1, PollPass, SetUserstatusType DEF TypeOK
      <3> QED
        BY <2>1, <3>1 DEF Poll, TypeOK
    <2>2. CASE PluginLoad
      BY <2>2 DEF PluginLoad, TypeOK, Custom
    <2>3. CASE PluginUnload
      BY <2>0, <2>3, SetUserstatusType DEF PluginUnload, TypeOK
    <2>4. CASE ToggleStatus
      <3>1. presence' \in [Account -> Presence] /\ mostrecent' \in TrackInfo
        BY <2>0, <2>4, SetUserstatusType DEF ToggleStatus, TypeOK
      <3> QED
        BY <2>4, <3>1 DEF ToggleStatus, TypeOK, Prefs
    <2>5. CASE FilterToggled
      BY <2>5 DEF FilterToggled, TypeOK, Prefs
    <2>6. CASE MiscToggled
      BY <2>6 DEF MiscToggled, TypeOK, Prefs
    <2>7. ASSUME NEW s \in Status, FormatChanged(s) PROVE TypeOK'
      BY <2>7 DEF FormatChanged, TypeOK, Prefs
    <2>8. ASSUME NEW a \in Account, CustomToggled(a) PROVE TypeOK'
      <3>1. custom' \in [Account -> Custom]
        BY <2>8 DEF CustomToggled, TypeOK, Custom
      <3>2. SetStatus(custom'[a], a, Empty, NoInfo) \in Presence
        BY <2>0, <3>1, SetStatusType
      <3> QED
        BY <2>8, <3>1, <3>2 DEF CustomToggled, TypeOK
    <2>9. ASSUME NEW a \in Account, CustomEdited(a) PROVE TypeOK'
      BY <2>9 DEF CustomEdited, TypeOK, Custom
    <2>10. ASSUME NEW a \in Account, BrokenToggled(a) PROVE TypeOK'
      BY <2>10 DEF BrokenToggled, TypeOK, Custom
    <2>11. CASE PlayerChanges
      BY <2>11, SetsAssumption DEF PlayerChanges, TypeOK
    <2>12. ASSUME NEW s \in SavedStatus, StatusSelected(s) PROVE TypeOK'
      <3>1. s \in Saved
        BY SetsAssumption
      <3> QED
        BY <2>12, <3>1, ActivatedType DEF StatusSelected, TypeOK
    <2>13. ASSUME NEW a \in Account, NEW state \in AccountState,
                  AccountChanges(a, state)
           PROVE  TypeOK'
      <3>1. [presence[a] EXCEPT !.account = "on"] \in Presence
        BY DEF TypeOK, Presence, AccountState
      <3>2. Activated([presence[a] EXCEPT !.account = "on"], a, saved) \in Presence
        BY <3>1, ActivatedType DEF TypeOK
      <3>3. [presence[a] EXCEPT !.account = "off"] \in Presence
        BY DEF TypeOK, Presence, AccountState
      <3>4. Fresh("absent") \in Presence
        BY FreshType DEF AccountState
      <3> QED
        BY <2>13, <3>2, <3>3, <3>4 DEF AccountChanges, TypeOK, AccountState
    <2>14. CASE UNCHANGED vars
      BY <2>14 DEF vars, TypeOK
    <2> QED
      BY <2>1, <2>2, <2>3, <2>4, <2>5, <2>6, <2>7, <2>8, <2>9, <2>10, <2>11,
         <2>12, <2>13, <2>14 DEF Next, User, External
  <1> QED
    BY <1>1, <1>2, PTL DEF Spec

-----------------------------------------------------------------------------
(* One account's part of a pass over the accounts, whatever is written: an *)
(* active tune status agrees with the value that the pass will stash, and  *)
(* remains where a later pass can end it.                                  *)
LEMMA VisitedTune ==
  ASSUME TypeOK, TuneInv, run, NEW a \in Account,
         NEW text \in Message, NEW ti \in Info,
         Visited(a, text, ti).tune # NoTune
  PROVE  /\ ~prefs.disabled
         /\ Reached(a) /\ a \in TuneAccount /\ custom[a].broken = "no"
         /\ Stash(ti).status \in {"NORMAL", "PAUSED"}
         /\ Visited(a, text, ti).tune = Stash(ti).track
  <1> DEFINE own == OverrideText(custom[a], text, ti)
  <1>0. /\ presence[a] \in Presence
        /\ custom[a] \in Custom
        /\ mostrecent \in TrackInfo
        /\ custom[a].broken # "unset"
    BY DEF TypeOK, TuneInv
  <1>1. CASE Visited(a, text, ti).tune = presence[a].tune /\ ti = NoInfo
    BY <1>1 DEF TuneInv, Stash
  <1>2. CASE ~(~prefs.disabled /\ Reached(a))
    <2>1. Visited(a, text, ti) = presence[a]
      BY <1>2 DEF Visited, SetStatus, Reached
    <2> QED
      BY <1>2, <2>1 DEF TuneInv
  <1>3. CASE ~prefs.disabled /\ Reached(a)
             /\ ~(Visited(a, text, ti).tune = presence[a].tune /\ ti = NoInfo)
    <2>1. Visited(a, text, ti).tune = TuneAfter(custom[a], a, own, ti)
      BY <1>0, <1>3 DEF Visited, SetStatus, Reached, Presence
    <2>2. CASE ~TuneHandled(custom[a], a, own, ti)
      <3>1. Visited(a, text, ti).tune = presence[a].tune
        BY <2>1, <2>2 DEF TuneAfter
      <3>2. ti # NoInfo
        BY <3>1, <1>3
      <3> QED
        BY <2>2, <3>1, <3>2 DEF TuneHandled, TuneInv
    <2>3. CASE TuneHandled(custom[a], a, own, ti)
               /\ ~TrackInfoChanged(ti, mostrecent)
      <3>1. ti.status = mostrecent.status /\ ti.track = mostrecent.track
        BY <2>3 DEF TrackInfoChanged
      <3>2. ti # NoInfo
        BY <1>0, <3>1 DEF NoInfo, TrackInfo, Status
      <3>3. Visited(a, text, ti).tune = presence[a].tune
        BY <2>1, <2>3 DEF TuneAfter
      <3> QED
        BY <3>1, <3>2, <3>3 DEF Stash, TuneInv
    <2>4. CASE TuneHandled(custom[a], a, own, ti)
               /\ TrackInfoChanged(ti, mostrecent)
      <3>1. ti.status \in {"NORMAL", "PAUSED"}
            /\ Visited(a, text, ti).tune = ti.track
        BY <2>1, <2>4 DEF TuneAfter
      <3>2. ti # NoInfo
        BY <3>1 DEF NoInfo
      <3>3. a \in TuneAccount /\ custom[a].broken = "no"
        BY <1>0, <2>4 DEF TuneHandled, Custom
      <3> QED
        BY <1>3, <3>1, <3>2, <3>3 DEF Stash
    <2> QED
      BY <2>2, <2>3, <2>4
  <1> QED
    BY <1>1, <1>2, <1>3

(* A pass with the empty text and no track ends every tune status. *)
LEMMA ClearingEndsTunes ==
  ASSUME TypeOK, TuneInv, run, NEW a \in Account
  PROVE  ~prefs.disabled => Visited(a, Empty, NoInfo).tune = NoTune
  <1> SUFFICES ASSUME ~prefs.disabled
               PROVE  Visited(a, Empty, NoInfo).tune = NoTune
    OBVIOUS
  <1>0. presence[a] \in Presence /\ mostrecent \in TrackInfo
    BY DEF TypeOK
  <1>1. CASE Reached(a) /\ a \in TuneAccount /\ custom[a].broken # "yes"
    <2>1. OverrideText(custom[a], Empty, NoInfo) = Empty
      BY DEF OverrideText, NoInfo
    <2>2. TuneHandled(custom[a], a, Empty, NoInfo)
      BY <1>1 DEF TuneHandled
    <2>3. TrackInfoChanged(NoInfo, mostrecent)
      BY <1>0 DEF TrackInfoChanged, NoInfo, TrackInfo, Status
    <2>4. TuneAfter(custom[a], a, Empty, NoInfo) = NoTune
      BY <2>2, <2>3 DEF TuneAfter
    <2> QED
      BY <1>0, <1>1, <2>1, <2>4 DEF Visited, SetStatus, Reached, Presence
  <1>2. CASE ~(Reached(a) /\ a \in TuneAccount /\ custom[a].broken # "yes")
    <2>1. presence[a].tune = NoTune
      BY <1>2 DEF TuneInv
    <2>2. CASE ~Reached(a)
      BY <2>1, <2>2 DEF Visited, SetStatus, Reached
    <2>3. CASE Reached(a)
      <3>1. \A text : ~TuneHandled(custom[a], a, text, NoInfo)
        BY <1>2, <2>3 DEF TuneHandled
      <3>2. \A text : TuneAfter(custom[a], a, text, NoInfo) = NoTune
        BY <2>1, <3>1 DEF TuneAfter
      <3> QED
        BY <1>0, <2>3, <3>2 DEF Visited, SetStatus, Reached, Presence
    <2> QED
      BY <2>2, <2>3
  <1> QED
    BY <1>1, <1>2

LEMMA VisitedAccount ==
  ASSUME TypeOK, NEW a \in Account, NEW text \in Message, NEW ti \in Info
  PROVE  /\ Visited(a, text, ti).account = presence[a].account
         /\ Visited(a, text, ti).active = presence[a].active
  BY DEF TypeOK, Visited, SetStatus, Presence

LEMMA ClearedAccount ==
  ASSUME TypeOK
  PROVE  \A a \in Account :
            Visited(a, Empty, NoInfo).account = presence[a].account
  <1> SUFFICES ASSUME NEW a \in Account
               PROVE  Visited(a, Empty, NoInfo).account = presence[a].account
    OBVIOUS
  <1>1. Empty \in Message /\ NoInfo \in Info
    BY MessageTypes DEF Info
  <1> QED
    BY <1>1, VisitedAccount

(* In an instance whose accounts and per-account switches stay as they     *)
(* are, TuneInv is inductive: a pass over the accounts keeps it, given the *)
(* preferences of the step.                                                *)
LEMMA PassKeepsTuneInv ==
  ASSUME TypeOK, TuneInv, run, run', UNCHANGED <<prefs, custom>>,
         NEW text \in Message, NEW ti \in Info, SetUserstatus(text, ti)
  PROVE  TuneInv'
  <1> SUFFICES ASSUME NEW a \in Account
               PROVE  /\ presence'[a].account # "absent"
                      /\ custom'[a].broken # "unset"
                      /\ presence'[a].tune # NoTune =>
                           /\ ~prefs'.disabled
                           /\ presence'[a].account = "on"
                           /\ ~custom'[a].disabled
                           /\ a \in TuneAccount /\ custom'[a].broken = "no"
                           /\ mostrecent'.status \in {"NORMAL", "PAUSED"}
                           /\ presence'[a].tune = mostrecent'.track
    BY DEF TuneInv, Reached
  <1>1. presence'[a] = Visited(a, text, ti) /\ mostrecent' = Stash(ti)
    BY DEF SetUserstatus
  <1>2. presence'[a].account = presence[a].account
    BY <1>1, VisitedAccount
  <1>3. presence[a].account # "absent" /\ custom[a].broken # "unset"
    BY DEF TuneInv
  <1> QED
    BY <1>1, <1>2, <1>3, VisitedTune DEF Reached

LEMMA TuneInvariant ==
  ASSUME Option \cap {"account", "custom disable", "broken"} = {}
  PROVE  Spec => []TuneInv
  <1>1. Init => TuneInv
    <2> SUFFICES ASSUME Init, NEW a \in Account
                 PROVE  presence[a].account # "absent" /\ presence[a].tune = NoTune
      BY DEF Init, TuneInv
    <2>1. "account" \notin Option
      OBVIOUS
    <2>2. presence[a] \in {Fresh("off"), Fresh("on")}
      BY <2>1 DEF Init
    <2> QED
      BY <2>2, FreshType DEF AccountState
  <1>2. TypeOK /\ TuneInv /\ [Next]_vars => TuneInv'
    <2> SUFFICES ASSUME TypeOK, TuneInv, [Next]_vars PROVE TuneInv'
      OBVIOUS
    <2>0. Empty \in Message /\ NoInfo \in Info
      BY MessageTypes DEF Info
    <2>1. CASE Poll
      <3>1. CASE UNCHANGED <<presence, mostrecent>>
        BY <2>1, <3>1 DEF Poll, TuneInv, Reached
      <3>2. ASSUME NEW text \in Message, NEW ti \in Info,
                   SetUserstatus(text, ti)
            PROVE  TuneInv'
        BY <2>1, <3>2, PassKeepsTuneInv DEF Poll
      <3> QED
        BY <2>1, <3>1, <3>2, PollPass
    <2>2. CASE PluginLoad
      <3>1. \A a \in Account : presence[a].tune = NoTune
        BY <2>2 DEF PluginLoad, TuneInv
      <3>2. \A a \in Account : custom'[a].broken # "unset"
        BY <2>2 DEF PluginLoad, TuneInv, TypeOK, Custom
      <3> QED
        BY <2>2, <3>1, <3>2 DEF PluginLoad, TuneInv
    <2>3. CASE PluginUnload
      <3>1. \A a \in Account : presence'[a] = Visited(a, Empty, NoInfo)
        BY <2>3 DEF PluginUnload, SetUserstatus
      <3>2. \A a \in Account : presence'[a].tune = NoTune
        <4>1. CASE ~prefs.disabled
          BY <2>3, <3>1, <4>1, ClearingEndsTunes DEF PluginUnload
        <4>2. CASE prefs.disabled
          BY <3>1, <4>2 DEF Visited, TuneInv
        <4> QED
          BY <4>1, <4>2
      <3>3. \A a \in Account : presence'[a].account = presence[a].account
        BY <3>1, ClearedAccount
      <3> QED
        BY <2>3, <3>2, <3>3 DEF PluginUnload, TuneInv
    <2>4. CASE ToggleStatus
      <3>1. \A a \in Account : presence'[a].tune = NoTune
        <4>1. CASE ~prefs.disabled
          BY <2>4, <4>1, ClearingEndsTunes DEF ToggleStatus, SetUserstatus
        <4>2. CASE prefs.disabled
          BY <2>4, <4>2 DEF ToggleStatus, TuneInv
        <4> QED
          BY <4>1, <4>2
      <3>2. \A a \in Account : presence'[a].account = presence[a].account
        BY <2>4, ClearedAccount DEF ToggleStatus, SetUserstatus
      <3> QED
        BY <2>4, <3>1, <3>2 DEF ToggleStatus, TuneInv
    <2>5. CASE FilterToggled
      BY <2>5 DEF FilterToggled, TuneInv, Reached, TypeOK, Prefs
    <2>6. CASE MiscToggled
      BY <2>6 DEF MiscToggled, TuneInv, Reached, TypeOK, Prefs
    <2>7. ASSUME NEW s \in Status, FormatChanged(s) PROVE TuneInv'
      BY <2>7 DEF FormatChanged, TuneInv, Reached, TypeOK, Prefs
    <2>8. ASSUME NEW a \in Account, CustomEdited(a) PROVE TuneInv'
      BY <2>8 DEF CustomEdited, TuneInv, Reached, TypeOK, Custom
    <2>9. CASE PlayerChanges
      BY <2>9 DEF PlayerChanges, TuneInv, Reached
    <2>10. ASSUME NEW s \in SavedStatus, StatusSelected(s) PROVE TuneInv'
      <3>1. \A a \in Account : /\ presence'[a].account = presence[a].account
                               /\ presence'[a].tune = presence[a].tune
        BY <2>10 DEF StatusSelected, Activated, TypeOK, Presence
      <3> QED
        BY <2>10, <3>1 DEF StatusSelected, TuneInv, Reached
    <2>11. CASE UNCHANGED vars
      BY <2>11 DEF vars, TuneInv, Reached
    <2> QED
      BY <2>1, <2>2, <2>3, <2>4, <2>5, <2>6, <2>7, <2>8, <2>9, <2>10, <2>11
         DEF Next, User, External, CustomToggled, BrokenToggled, AccountChanges
  <1> QED
    BY <1>1, <1>2, TypeCorrect, PTL DEF Spec

(* The tune statuses follow the stash, for any number of accounts and      *)
(* tracks and any formats, as long as no account is added, removed,        *)
(* switched, disabled for the plugin or marked broken in between.          *)
THEOREM TunesFollowStash ==
  ASSUME Option \cap {"account", "custom disable", "broken"} = {}
  PROVE  Spec => []TuneMatchesStash
  <1>1. TuneInv => TuneMatchesStash
    BY DEF TuneInv, TuneMatchesStash
  <1> QED
    BY <1>1, TuneInvariant, PTL

-----------------------------------------------------------------------------
LEMMA StatusTextOfEmpty ==
  ASSUME TypeOK, NEW a \in Account
  PROVE  ~PluginText(StatusText(a, Empty))
  BY DEF TypeOK, Saved, StatusText, SavedMessage, PluginText, UserText, Empty,
         NullMessage, NoSub, Status

LEMMA ActivatedMessage ==
  ASSUME NEW p \in Presence, NEW a \in Account, NEW s \in Saved
  PROVE  ~PluginText(Activated(p, a, s).message)
  BY DEF Saved, Activated, Presence, PluginText, UserText, NullMessage, NoSub,
         Status

(* After one account's part of a pass, the plugin's text is shown only if   *)
(* the account is one the plugin may write to.                              *)
LEMMA VisitedMessage ==
  ASSUME TypeOK, MessageInv, NEW a \in Account, presence[a].account = "on",
         NEW text \in Message, NEW ti \in Info, ti = NoInfo => text = Empty,
         PluginText(Visited(a, text, ti).message)
  PROVE  ~prefs.disabled /\ MessageFree(a)
  <1> DEFINE own == OverrideText(custom[a], text, ti)
  <1>0. presence[a] \in Presence
    BY DEF TypeOK
  <1>1. CASE Visited(a, text, ti).message = presence[a].message
    BY <1>1 DEF MessageInv
  <1>2. CASE Visited(a, text, ti).message # presence[a].message
    <2>1. ~prefs.disabled /\ ~custom[a].disabled
      BY <1>2 DEF Visited, SetStatus
    <2>2. WritesMessage(custom[a], a, own, ti)
      BY <1>0, <1>2, <2>1 DEF Visited, SetStatus, Presence
    <2>3. ~(own # Empty /\ ti = NoInfo)
      <3>1. OverrideText(custom[a], text, NoInfo) = text
        BY DEF OverrideText, NoInfo
      <3> QED
        BY <3>1
    <2> QED
      BY <2>1, <2>2, <2>3
         DEF WritesMessage, TuneHandled, MessageFree, Reached, AwayExempt,
             TuneExempt, TuneInCharge
  <1> QED
    BY <1>1, <1>2

(* A pass with the empty text leaves none of the plugin's text.             *)
LEMMA ClearingEndsTexts ==
  ASSUME TypeOK, MessageInv, ~prefs.disabled, NEW a \in Account,
         presence[a].account = "on"
  PROVE  ~PluginText(Visited(a, Empty, NoInfo).message)
  <1> SUFFICES ASSUME PluginText(Visited(a, Empty, NoInfo).message)
               PROVE  FALSE
    OBVIOUS
  <1>0. presence[a] \in Presence
    BY DEF TypeOK
  <1>1. OverrideText(custom[a], Empty, NoInfo) = Empty
    BY DEF OverrideText, NoInfo
  <1>2. ~PluginText(StatusText(a, Empty))
    BY StatusTextOfEmpty
  <1>3. Visited(a, Empty, NoInfo).message
          \in {presence[a].message, StatusText(a, Empty)}
    BY <1>0, <1>1 DEF Visited, SetStatus, Presence
  <1>4. Visited(a, Empty, NoInfo).message = presence[a].message
    BY <1>2, <1>3
  <1>5. MessageFree(a)
    BY <1>4 DEF MessageInv
  <1>6. WritesMessage(custom[a], a, Empty, NoInfo)
    BY <1>2, <1>4, <1>5
       DEF WritesMessage, TuneHandled, MessageFree, Reached, AwayExempt,
           TuneExempt, TuneInCharge, SupportsMessage, MessageChanged
  <1>7. Visited(a, Empty, NoInfo).message = StatusText(a, Empty)
    BY <1>0, <1>1, <1>5, <1>6
       DEF Visited, SetStatus, Presence, MessageFree, Reached
  <1> QED
    BY <1>2, <1>7

(* The messages that a status selection, an account's arrival or a start    *)
(* gives are the user's; the plugin's are written by polls only, and ended  *)
(* by the steps that stop the polls.                                        *)
LEMMA MessageInvariant ==
  ASSUME Option \cap {"custom disable", "broken", "misc"} = {}
  PROVE  Spec => []MessageInv
  <1>1. Init => MessageInv
    <2> SUFFICES ASSUME Init, NEW a \in Account
                 PROVE  ~PluginText(presence[a].message)
      BY DEF MessageInv
    <2>1. presence[a] \in {Fresh(s) : s \in AccountState}
      BY DEF Init, AccountState
    <2>a. \A s \in AccountState : Fresh(s).message = NullMessage
      BY FreshType
    <2>2. presence[a].message = NullMessage
      BY <2>1, <2>a
    <2>3. ~PluginText(NullMessage)
      BY DEF PluginText, NullMessage, Status
    <2> QED
      BY <2>2, <2>3
  <1>2. TypeOK /\ MessageInv /\ [Next]_vars => MessageInv'
    <2> SUFFICES ASSUME TypeOK, MessageInv, [Next]_vars,
                        NEW a \in Account, presence'[a].account = "on",
                        PluginText(presence'[a].message)
                 PROVE  run' /\ ~prefs'.disabled /\ MessageFree(a)'
      BY DEF MessageInv
    <2>0. Empty \in Message /\ NoInfo \in Info
      BY MessageTypes DEF Info
    <2> USE DEF MessageFree, Reached, AwayExempt, TuneExempt, TuneInCharge
    <2>1. CASE Poll
      <3>1. CASE UNCHANGED <<presence, mostrecent>>
        BY <2>1, <3>1 DEF Poll, MessageInv
      <3>2. ASSUME NEW text \in Message, NEW ti \in Info,
                   SetUserstatus(text, ti), Consistent(text, ti)
            PROVE  run' /\ ~prefs'.disabled /\ MessageFree(a)'
        <4>1. presence'[a] = Visited(a, text, ti)
          BY <3>2 DEF SetUserstatus
        <4>a. /\ Visited(a, text, ti).account = presence[a].account
              /\ Visited(a, text, ti).active = presence[a].active
          BY <3>2, VisitedAccount
        <4>2. presence[a].account = "on" /\ presence'[a].active = presence[a].active
          BY <4>1, <4>a
        <4>3. ~prefs.disabled /\ MessageFree(a)
          BY <3>2, <4>1, <4>2, VisitedMessage DEF Consistent
        <4> QED
          BY <2>1, <4>2, <4>3 DEF Poll
      <3> QED
        BY <2>1, <3>1, <3>2, PollPass
    <2>2. CASE PluginLoad
      BY <2>2 DEF PluginLoad, MessageInv
    <2>3. CASE PluginUnload
      <3>1. presence'[a] = Visited(a, Empty, NoInfo)
        BY <2>3 DEF PluginUnload, SetUserstatus
      <3>2. presence[a].account = "on"
        BY <3>1, ClearedAccount
      <3>3. prefs.disabled
        BY <3>1, <3>2, ClearingEndsTexts
      <3>4. presence'[a] = presence[a]
        BY <3>1, <3>3 DEF Visited
      <3> QED
        BY <3>2, <3>3, <3>4 DEF MessageInv
    <2>4. CASE ToggleStatus
      <3>1. CASE ~prefs.disabled
        <4>1. presence'[a] = Visited(a, Empty, NoInfo)
          BY <2>4, <3>1 DEF ToggleStatus, SetUserstatus
        <4>2. presence[a].account = "on"
          BY <4>1, ClearedAccount
        <4> QED
          BY <3>1, <4>1, <4>2, ClearingEndsTexts
      <3>2. CASE prefs.disabled
        BY <2>4, <3>2 DEF ToggleStatus, MessageInv
      <3> QED
        BY <3>1, <3>2
    <2>5. CASE FilterToggled
      BY <2>5 DEF FilterToggled, MessageInv, TypeOK, Prefs
    <2>6. ASSUME NEW s \in Status, FormatChanged(s)
          PROVE  run' /\ ~prefs'.disabled /\ MessageFree(a)'
      BY <2>6 DEF FormatChanged, MessageInv, TypeOK, Prefs
    <2>7. ASSUME NEW b \in Account, CustomEdited(b)
          PROVE  run' /\ ~prefs'.disabled /\ MessageFree(a)'
      BY <2>7 DEF CustomEdited, MessageInv, TypeOK, Custom
    <2>8. CASE PlayerChanges
      BY <2>8 DEF PlayerChanges, MessageInv
    <2>9. ASSUME NEW s \in SavedStatus, StatusSelected(s)
          PROVE  run' /\ ~prefs'.disabled /\ MessageFree(a)'
      <3>1. CASE presence[a].account = "on"
        <4>1. s \in Saved /\ presence[a] \in Presence
          BY SetsAssumption DEF TypeOK
        <4>2. presence'[a] = Activated(presence[a], a, s)
          BY <2>9, <3>1 DEF StatusSelected
        <4> QED
          BY <4>1, <4>2, ActivatedMessage
      <3>2. CASE presence[a].account # "on"
        BY <2>9, <3>2 DEF StatusSelected
      <3> QED
        BY <3>1, <3>2
    <2>10. ASSUME NEW b \in Account, NEW state \in AccountState,
                  AccountChanges(b, state)
           PROVE  run' /\ ~prefs'.disabled /\ MessageFree(a)'
      <3>1. CASE a # b
        <4>1. presence'[a] = presence[a]
          BY <2>10, <3>1 DEF AccountChanges, TypeOK
        <4> QED
          BY <2>10, <4>1 DEF AccountChanges, MessageInv
      <3>2. CASE a = b
        <4> DEFINE p == [presence[a] EXCEPT !.account = "on"]
        <4>1. presence[a] \in Presence /\ p \in Presence /\ saved \in Saved
          BY DEF TypeOK, Presence, AccountState
        <4>2. CASE state = "on"
          <5>1. presence'[a] = Activated(p, a, saved)
            BY <2>10, <3>2, <4>2 DEF AccountChanges, TypeOK
          <5> QED
            BY <4>1, <5>1, ActivatedMessage
        <4>3. CASE state = "off"
          BY <2>10, <3>2, <4>1, <4>3 DEF AccountChanges, TypeOK, Presence
        <4>4. CASE state = "absent"
          <5>1. presence'[a] = Fresh("absent")
            BY <2>10, <3>2, <4>4 DEF AccountChanges, TypeOK
          <5> QED
            BY <5>1, FreshType DEF AccountState
        <4> QED
          BY <4>2, <4>3, <4>4 DEF AccountState
      <3> QED
        BY <3>1, <3>2
    <2>11. CASE UNCHANGED vars
      BY <2>11 DEF vars, MessageInv
    <2> QED
      BY <2>1, <2>2, <2>3, <2>4, <2>5, <2>6, <2>7, <2>8, <2>9, <2>10, <2>11
         DEF Next, User, External, CustomToggled, BrokenToggled, MiscToggled
  <1> QED
    BY <1>1, <1>2, TypeCorrect, PTL DEF Spec

(* Deactivating or unloading the plugin leaves nothing of a player behind, *)
(* after any history of polls, failures, reloads, status selections and    *)
(* format edits, for any combination of the fixed preferences.             *)
THEOREM OffIsClean ==
  ASSUME Option \cap {"account", "custom disable", "broken", "misc"} = {}
  PROVE  Spec => []OffLeavesNothing
  <1>1. Option \cap {"account", "custom disable", "broken"} = {}
        /\ Option \cap {"custom disable", "broken", "misc"} = {}
    OBVIOUS
  <1>2. Spec => []TuneInv
    BY <1>1, TuneInvariant
  <1>3. Spec => []MessageInv
    BY <1>1, MessageInvariant
  <1>4. TuneInv /\ MessageInv => OffLeavesNothing
    BY DEF TuneInv, MessageInv, OffLeavesNothing
  <1> QED
    BY <1>2, <1>3, <1>4, PTL

(* An account exempt from status changing shows the user's own message;    *)
(* here accounts may also come, go and be switched on and off.             *)
THEOREM ExemptAccountsKeepOwn ==
  ASSUME Option \cap {"custom disable", "broken", "misc"} = {}
  PROVE  Spec => []ExemptKeepOwn
  <1>1. MessageInv => ExemptKeepOwn
    BY DEF MessageInv, ExemptKeepOwn, MessageFree, Reached
  <1> QED
    BY <1>1, MessageInvariant, PTL

-----------------------------------------------------------------------------
(* One account's part of a pass shows nothing unmasked, if the pass is      *)
(* given nothing unmasked.                                                  *)
FilteredPresence(p) ==
    /\ PluginText(p.message) => p.message.body = Mask[p.message.body]
    /\ p.tune # NoTune => p.tune = Mask[p.tune]

LEMMA VisitedFiltered ==
  ASSUME TypeOK, prefs.filter, NEW a \in Account,
         FilteredPresence(presence[a]),
         NEW text \in Message, NEW ti \in Info, Consistent(text, ti)
  PROVE  FilteredPresence(Visited(a, text, ti))
  <1> DEFINE own == OverrideText(custom[a], text, ti)
  <1>0. presence[a] \in Presence
    BY DEF TypeOK
  <1>1. CASE prefs.disabled \/ ~Reached(a)
    BY <1>1 DEF Visited, SetStatus, Reached
  <1>2. CASE ~prefs.disabled /\ Reached(a)
    <2>1. Visited(a, text, ti).message \in {presence[a].message, StatusText(a, own)}
      BY <1>0, <1>2 DEF Visited, SetStatus, Presence, Reached
    <2>2. Visited(a, text, ti).tune \in {presence[a].tune, ti.track, NoTune}
      BY <1>0, <1>2 DEF Visited, SetStatus, Presence, Reached, TuneAfter
    <2>3. PluginText(own) => own.body = ti.track
      BY DEF Consistent, OverrideText, GenerateStatus
    <2>4. PluginText(StatusText(a, own)) => StatusText(a, own).body = ti.track
      <3>1. CASE own = Empty
        BY <3>1, StatusTextOfEmpty
      <3>2. CASE own # Empty
        BY <2>3, <3>2 DEF StatusText
      <3> QED
        BY <3>1, <3>2
    <2>5. Mask[ti.track] = ti.track
      BY DEF Consistent
    <2> QED
      BY <2>1, <2>2, <2>4, <2>5 DEF FilteredPresence
  <1> QED
    BY <1>1, <1>2

(* The filter, while it is on, stands between every player and everything  *)
(* that is shown or kept to be sent, whatever else the user changes.       *)
THEOREM NothingUnfiltered ==
  ASSUME Option \cap {"filter"} = {}
  PROVE  Spec => []FilteredOnly
  <1> DEFINE Inv == prefs.filter =>
                      /\ mostrecent.track = Mask[mostrecent.track]
                      /\ \A a \in Account : FilteredPresence(presence[a])
  <1>1. Init => Inv
    <2> SUFFICES ASSUME Init
                 PROVE  /\ mostrecent.track = Mask[mostrecent.track]
                        /\ \A a \in Account : FilteredPresence(presence[a])
      OBVIOUS
    <2>1. mostrecent.track = Mask[mostrecent.track]
      BY MaskAssumption DEF Init
    <2>2. \A s \in AccountState : FilteredPresence(Fresh(s))
      <3>1. ~PluginText(NullMessage)
        BY DEF PluginText, NullMessage, Status
      <3> QED
        BY <3>1, FreshType DEF FilteredPresence
    <2>3. \A a \in Account : presence[a] \in {Fresh(s) : s \in AccountState}
      BY DEF Init, AccountState
    <2> QED
      BY <2>1, <2>2, <2>3
  <1>2. TypeOK /\ Inv /\ [Next]_vars => Inv'
    <2> SUFFICES ASSUME TypeOK, prefs.filter, prefs'.filter, Inv, [Next]_vars
                 PROVE  Inv'
      <3>1. [Next]_vars /\ TypeOK => prefs'.filter = prefs.filter
        BY DEF TypeOK, Prefs, Next, User, External, vars, Poll, PluginLoad,
               PluginUnload, ToggleStatus, FilterToggled, MiscToggled,
               FormatChanged, CustomToggled, CustomEdited, BrokenToggled,
               PlayerChanges, StatusSelected, AccountChanges
      <3> QED
        BY <3>1
    <2>0. Empty \in Message /\ NoInfo \in Info /\ Consistent(Empty, NoInfo)
      BY MessageTypes, MaskAssumption
         DEF Info, Consistent, PluginText, Empty, NoInfo, Status
    <2>1. ASSUME NEW text \in Message, NEW ti \in Info,
                 SetUserstatus(text, ti), Consistent(text, ti)
          PROVE  Inv'
      <3>1. \A a \in Account : presence'[a] = Visited(a, text, ti)
        BY <2>1 DEF SetUserstatus
      <3>2. \A a \in Account : FilteredPresence(Visited(a, text, ti))
        BY <2>1, VisitedFiltered
      <3>3. mostrecent'.track = Mask[mostrecent'.track]
        BY <2>1 DEF SetUserstatus, Stash, Consistent
      <3> QED
        BY <3>1, <3>2, <3>3 DEF FilteredPresence
    <2>2. CASE UNCHANGED <<presence, mostrecent>>
      BY <2>2 DEF FilteredPresence
    <2>3. ASSUME UNCHANGED mostrecent,
                 \A a \in Account : \/ presence'[a] = presence[a]
                                    \/ FilteredPresence(presence'[a])
          PROVE  Inv'
      BY <2>3 DEF FilteredPresence
    <2>4. CASE Poll
      BY <2>1, <2>2, <2>4, PollPass
    <2>5. CASE PluginUnload
      BY <2>0, <2>1, <2>5 DEF PluginUnload
    <2>6. CASE ToggleStatus
      BY <2>0, <2>1, <2>2, <2>6 DEF ToggleStatus
    <2>7. ASSUME NEW a \in Account, CustomToggled(a) PROVE Inv'
      <3>1. CASE custom'[a].disabled
        <4>1. presence'[a] = presence[a]
          BY <2>7, <3>1 DEF CustomToggled, SetStatus, TypeOK
        <4> QED
          BY <2>3, <2>7, <4>1 DEF CustomToggled, TypeOK
      <3>2. CASE ~custom'[a].disabled
        BY <2>3, <2>7, <3>2 DEF CustomToggled, TypeOK
      <3> QED
        BY <3>1, <3>2
    <2>8. ASSUME NEW p \in Presence, NEW a \in Account, NEW s \in Saved,
                 p.tune # NoTune => p.tune = Mask[p.tune]
          PROVE  FilteredPresence(Activated(p, a, s))
      <3>1. Activated(p, a, s).tune = p.tune
        BY DEF Activated, Presence
      <3> QED
        BY <2>8, <3>1, ActivatedMessage DEF FilteredPresence
    <2>9. ASSUME NEW s \in SavedStatus, StatusSelected(s) PROVE Inv'
      <3>1. ASSUME NEW a \in Account
            PROVE  presence'[a] = presence[a] \/ FilteredPresence(presence'[a])
        <4>1. s \in Saved /\ presence[a] \in Presence
          BY <2>9, SetsAssumption DEF TypeOK
        <4>2. FilteredPresence(Activated(presence[a], a, s))
          BY <2>8, <4>1 DEF FilteredPresence
        <4> QED
          BY <2>9, <4>2 DEF StatusSelected
      <3> QED
        BY <2>3, <2>9, <3>1 DEF StatusSelected
    <2>10. ASSUME NEW a \in Account, NEW state \in AccountState,
                  AccountChanges(a, state)
           PROVE  Inv'
      <3> DEFINE p == [presence[a] EXCEPT !.account = "on"]
      <3>1. /\ presence[a] \in Presence /\ p \in Presence /\ saved \in Saved
            /\ p.tune = presence[a].tune
        BY DEF TypeOK, Presence, AccountState
      <3>a. p.tune # NoTune => p.tune = Mask[p.tune]
        BY <2>8, <3>1 DEF FilteredPresence
      <3>2. FilteredPresence(Activated(p, a, saved))
        BY <2>8, <3>1, <3>a
      <3>3. FilteredPresence([presence[a] EXCEPT !.account = "off"])
        BY <3>1 DEF FilteredPresence, Presence
      <3>4. FilteredPresence(Fresh("absent"))
        <4>1. ~PluginText(NullMessage)
          BY DEF PluginText, NullMessage, Status
        <4> QED
          BY <4>1, FreshType DEF FilteredPresence, AccountState
      <3>5. FilteredPresence(presence'[a])
        BY <2>10, <3>2, <3>3, <3>4 DEF AccountChanges, TypeOK, AccountState
      <3> QED
        BY <2>3, <2>10, <3>5 DEF AccountChanges, TypeOK
    <2>11. CASE \/ PluginLoad \/ FilterToggled \/ MiscToggled \/ PlayerChanges
                \/ \E s \in Status : FormatChanged(s)
                \/ \E a \in Account : CustomEdited(a) \/ BrokenToggled(a)
                \/ UNCHANGED vars
      BY <2>2, <2>11 DEF PluginLoad, FilterToggled, MiscToggled, PlayerChanges,
                         FormatChanged, CustomEdited, BrokenToggled, vars
    <2> QED
      BY <2>4, <2>5, <2>6, <2>7, <2>9, <2>10, <2>11 DEF Next, User, External
  <1>3. Inv => FilteredOnly
    BY DEF FilteredOnly, FilteredPresence
  <1> QED
    BY <1>1, <1>2, <1>3, TypeCorrect, PTL DEF Spec

-----------------------------------------------------------------------------
(* What one step does to every account.                                    *)

(* A pass with the empty text and no track gives an account back the       *)
(* message its user chose, and ends its tune status.                       *)
LEMMA ClearingVisit ==
  ASSUME TypeOK, ~prefs.disabled, NEW a \in Account
  PROVE  /\ MessageFree(a) => Visited(a, Empty, NoInfo).message = Chosen(a)
         /\ Reached(a) /\ TuneInCharge(a) =>
              Visited(a, Empty, NoInfo).tune = NoTune
  <1>0. /\ presence[a] \in Presence /\ mostrecent \in TrackInfo
        /\ saved \in Saved
    BY DEF TypeOK
  <1>1. ASSUME Reached(a)
        PROVE  Visited(a, Empty, NoInfo) =
                 [presence[a] EXCEPT
                    !.tune = TuneAfter(custom[a], a, Empty, NoInfo),
                    !.message = IF WritesMessage(custom[a], a, Empty, NoInfo)
                                  THEN StatusText(a, Empty) ELSE @]
    <2>1. OverrideText(custom[a], Empty, NoInfo) = Empty
      BY DEF OverrideText, NoInfo
    <2> QED
      BY <1>1, <2>1 DEF Visited, SetStatus, Reached
  <1>2. TuneHandled(custom[a], a, Empty, NoInfo) <=> TuneInCharge(a)
    BY DEF TuneHandled, TuneInCharge
  <1>3. ASSUME MessageFree(a)
        PROVE  Visited(a, Empty, NoInfo).message = Chosen(a)
    <2>1. StatusText(a, Empty) = Chosen(a)
      <3>1. NullMessage \notin UserText /\ NoSub \notin UserText
            /\ NoSub # NullMessage
        BY DEF UserText, NullMessage, NoSub
      <3>2. /\ saved.sub[a] \in UserText \cup {NullMessage, NoSub}
            /\ saved.message \in UserText \cup {NullMessage}
        BY <1>0 DEF Saved
      <3> QED
        BY <3>1, <3>2 DEF StatusText, SavedMessage, Chosen
    <2>2. ~WritesMessage(custom[a], a, Empty, NoInfo) =>
             presence[a].message = StatusText(a, Empty)
      BY <1>2, <1>3 DEF WritesMessage, MessageFree, MessageChanged, TuneExempt,
                        AwayExempt, SupportsMessage
    <2>3. Reached(a)
      BY <1>3 DEF MessageFree
    <2>4. Visited(a, Empty, NoInfo).message =
             IF WritesMessage(custom[a], a, Empty, NoInfo)
               THEN StatusText(a, Empty) ELSE presence[a].message
      BY <1>0, <1>1, <2>3 DEF Presence
    <2> QED
      BY <2>1, <2>2, <2>4
  <1>4. ASSUME Reached(a), TuneInCharge(a)
        PROVE  Visited(a, Empty, NoInfo).tune = NoTune
    <2>1. TrackInfoChanged(NoInfo, mostrecent)
      BY <1>0 DEF TrackInfoChanged, NoInfo, TrackInfo, Status
    <2>2. TuneAfter(custom[a], a, Empty, NoInfo) = NoTune
      BY <1>2, <1>4, <2>1 DEF TuneAfter
    <2> QED
      BY <1>0, <1>1, <1>4, <2>2 DEF Presence
  <1> QED
    BY <1>3, <1>4

(* The steps that clear all make that pass, while nothing else has changed *)
(* what the pass reads.                                                    *)
LEMMA ClearsPasses ==
  ASSUME TypeOK, [Next]_vars, Clears, ~prefs.disabled
  PROVE  SetUserstatus(Empty, NoInfo)
  <1>1. ASSUME run, ~run'
        PROVE  SetUserstatus(Empty, NoInfo)
    <2>1. PluginUnload
      BY <1>1 DEF Next, Poll, PluginLoad, User, ToggleStatus, FilterToggled,
                  MiscToggled, FormatChanged, CustomToggled, CustomEdited,
                  BrokenToggled, External, PlayerChanges, StatusSelected,
                  AccountChanges, vars
    <2> QED
      BY <2>1 DEF PluginUnload
  <1>2. ASSUME prefs'.disabled
        PROVE  SetUserstatus(Empty, NoInfo)
    <2>1. prefs' # prefs /\ prefs'.disabled # prefs.disabled
      BY <1>2
    <2>2. ~FilterToggled /\ ~MiscToggled /\ ~(\E s \in Status : FormatChanged(s))
      BY <1>2 DEF FilterToggled, MiscToggled, FormatChanged, TypeOK, Prefs
    <2>3. ToggleStatus
      BY <2>1, <2>2 DEF Next, Poll, PluginLoad, PluginUnload, User,
                  CustomToggled, CustomEdited, BrokenToggled, External,
                  PlayerChanges, StatusSelected, AccountChanges, vars
    <2> QED
      BY <2>3 DEF ToggleStatus
  <1>3. ASSUME Poll, player = Failed
        PROVE  SetUserstatus(Empty, NoInfo)
    BY <1>3 DEF Poll, Failed, Status
  <1> QED
    BY <1>1, <1>2, <1>3 DEF Clears

(* Deactivating (action_toggle_status), unloading (plugin_unload) and a    *)
(* failed poll (cb_timeout) put back the message that the user chose, the  *)
(* account's own before the general one, on every account whose message is *)
(* the plugin's to write, and end its tune status: for any number of       *)
(* accounts, in whatever state the steps before have left them.            *)
THEOREM ClearingRestoresAll == Spec => ClearingRestores
  <1>1. TypeOK /\ [Next]_vars =>
          (Clears /\ ~prefs.disabled => \A a \in Account :
             /\ MessageFree(a) => presence'[a].message = Chosen(a)
             /\ Reached(a) /\ TuneInCharge(a) => presence'[a].tune = NoTune)
    <2> SUFFICES ASSUME TypeOK, [Next]_vars, Clears, ~prefs.disabled,
                        NEW a \in Account
                 PROVE  /\ MessageFree(a) => presence'[a].message = Chosen(a)
                        /\ Reached(a) /\ TuneInCharge(a) =>
                             presence'[a].tune = NoTune
      OBVIOUS
    <2>1. presence'[a] = Visited(a, Empty, NoInfo)
      BY ClearsPasses DEF SetUserstatus
    <2> QED
      BY <2>1, ClearingVisit
  <1> QED
    BY <1>1, TypeCorrect, PTL DEF Spec, ClearingRestores

(* A poll (cb_timeout) that sees another track than the last one stashed   *)
(* brings the tune status of every account it reaches up to date, however  *)
(* many it visits: set_status_tune compares each with the stash of before. *)
THEOREM TuneFollowsEveryChange == Spec => TuneFollowsChange
  <1>1. TypeOK /\ [Next]_vars =>
          (Poll /\ mostrecent' # mostrecent /\ ~prefs.disabled =>
             \A a \in Account : Reached(a) /\ TuneInCharge(a) =>
               presence'[a].tune = PollTune(a))
    <2> SUFFICES ASSUME TypeOK, Poll, mostrecent' # mostrecent, ~prefs.disabled,
                        NEW a \in Account, Reached(a), TuneInCharge(a)
                 PROVE  presence'[a].tune = PollTune(a)
      OBVIOUS
    <2> DEFINE ti == Sanitized(player)
               text == GenerateStatus(ti.status, prefs.format[ti.status], ti)
               own == OverrideText(custom[a], text, ti)
    <2>0. presence[a] \in Presence /\ mostrecent \in TrackInfo
      BY DEF TypeOK
    <2>1. player # Failed /\ player.status \in Status
      <3>1. player # Failed
        BY DEF Poll, SetUserstatus, Stash, Failed, Status
      <3>2. CASE player.status \notin Status
        BY <3>1, <3>2 DEF Poll
      <3> QED
        BY <3>1, <3>2
    <2>2. ti \in TrackInfo /\ ti # NoInfo
      BY <2>1, SanitizedType DEF TypeOK, TrackInfo, NoInfo, Status
    <2>3. SetUserstatus(text, ti)
      BY <2>1 DEF Poll
    <2>4. ti.status = player.status /\ ti.track = PollTrack
      <3>1. player \in TrackInfo
        BY <2>1 DEF TypeOK, Answer, Failed, Status, TrackInfo
      <3> QED
        BY <3>1 DEF Sanitized, PollTrack, TrackInfo
    <2>5. TrackInfoChanged(ti, mostrecent)
      <3>1. mostrecent' = ti
        BY <2>2, <2>3 DEF SetUserstatus, Stash
      <3> HIDE DEF ti
      <3> QED
        BY <2>0, <2>2, <3>1 DEF TrackInfoChanged, TrackInfo
    <2>6. own = PollText(a)
      <3> HIDE DEF ti
      <3>1. text = IF prefs.format[player.status]
                     THEN [by |-> player.status, body |-> PollTrack] ELSE Empty
        BY <2>4 DEF GenerateStatus
      <3> HIDE DEF text
      <3> QED
        BY <2>1, <2>4, <3>1 DEF OverrideText, GenerateStatus, PollText
    <2>7. TuneAfter(custom[a], a, own, ti) = PollTune(a)
      <3>1. TuneHandled(custom[a], a, own, ti)
        BY <2>2 DEF TuneHandled, TuneInCharge
      <3> HIDE DEF ti, own
      <3> QED
        BY <2>4, <2>5, <2>6, <3>1 DEF TuneAfter, PollTune, Playing
    <2>8. presence'[a] = Visited(a, text, ti)
      BY <2>3 DEF SetUserstatus
    <2>9. Visited(a, text, ti).tune = TuneAfter(custom[a], a, own, ti)
      <3>1. Visited(a, text, ti) =
               [presence[a] EXCEPT
                  !.tune = TuneAfter(custom[a], a, own, ti),
                  !.message = IF WritesMessage(custom[a], a, own, ti)
                                THEN StatusText(a, own) ELSE @]
        BY DEF Visited, SetStatus, Reached
      <3> HIDE DEF ti, text, own
      <3> QED
        BY <2>0, <3>1 DEF Presence
    <2> QED
      BY <2>7, <2>8, <2>9
  <1> QED
    BY <1>1, TypeCorrect, PTL DEF Spec, TuneFollowsChange
=============================================================================
