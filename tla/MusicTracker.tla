---------------------------- MODULE MusicTracker ----------------------------
(***************************************************************************)
(* The core of the plugin: the ten-second timer of musictracker.c, the     *)
(* status it computes, the accounts it writes that status to, and the user *)
(* actions of actions.c and preferences.c that interleave with the timer.  *)
(* All of it runs in Pidgin's GLib main loop, so every callback is one     *)
(* atomic step; only their order is free.                                  *)
(*                                                                         *)
(* A string is abstracted to what the properties tell apart: who wrote it  *)
(* and which track it names.  A track is the (track, artist, album) triple *)
(* of struct TrackInfo.                                                    *)
(*                                                                         *)
(* An operator X_Variant is X with a mistake its author could have made    *)
(* (several of them are bugs that the ChangeLog records); nothing uses it. *)
(* README.md says which property tells it from X.                          *)
(***************************************************************************)
EXTENDS FiniteSets

CONSTANTS
    Account,        \* accounts Pidgin may come to know
    TuneAccount,    \* those whose protocol has a PURPLE_STATUS_TUNE status
    XmppAccount,    \* those whose protocol name is "XMPP"
    Track,          \* triples a player may report
    NoTrack,        \* the triple of three empty strings
    NoTune,         \* an inactive PURPLE_STATUS_TUNE status
    Mask,           \* Mask[t]: the triple filter() leaves of t
    Report,         \* answers the selected player may give
    UserMessage,    \* bodies of the messages a user types
    SavedStatus,    \* statuses the user may select in the buddy list
    StartPrefs,     \* global preferences prefs.xml may hold at start-up
    StartCustom,    \* per-account preferences prefs.xml may hold at start-up
    Option          \* the user's controls that this instance exercises

VARIABLES
    run,            \* g_run: the plugin is loaded and its timer is set
    prefs,          \* the global preferences
    custom,         \* the per-account preferences
    presence,       \* per account: is it active, and what it shows
    saved,          \* purple_savedstatus_get_current()
    mostrecent,     \* mostrecent_ti
    player          \* what the player would answer now

vars == <<run, prefs, custom, presence, saved, mostrecent, player>>

-----------------------------------------------------------------------------
(* STATUS_OFF, STATUS_PAUSED and STATUS_NORMAL of musictracker.h *)
Status == {"OFF", "PAUSED", "NORMAL"}

Triple == Track \cup {NoTrack}

(* struct TrackInfo; NoInfo is the null pointer, Failed a track_func that  *)
(* returned FALSE, and "ODD" any status cb_timeout's switch does not know. *)
TrackInfo == [status : Status, track : Triple]
NoInfo == [status |-> "NULL", track |-> NoTrack]
Failed == [status |-> "FAILED", track |-> NoTrack]
Answer == [status : Status \cup {"ODD"}, track : Triple] \cup {Failed}

Message == [by : {"user"}, body : UserMessage]
             \cup [by : Status \cup {"custom"}, body : Triple]
             \cup [by : {"empty", "null"}, body : {NoTrack}]
Empty == [by |-> "empty", body |-> NoTrack]
NullMessage == [by |-> "null", body |-> NoTrack]
UserText == {m \in Message : m.by = "user"}

(* What the plugin wrote about a player, as opposed to what a user chose. *)
PluginText(m) == m.by \in Status \cup {"custom"}

(* The status an account has active: its primitive is away or not, it has  *)
(* a "message" attribute or not, or there is none at all.                  *)
ActiveStatus == {"available", "away", "bare", "none"}
SupportsMessage == {"available", "away"}

AccountState == {"absent", "off", "on"}

Prefs == [disabled : BOOLEAN, filter : BOOLEAN, away : BOOLEAN,
          tuneOnly : BOOLEAN, format : [Status -> BOOLEAN]]
Custom == [disabled : BOOLEAN, format : BOOLEAN,
           broken : {"unset", "yes", "no"}]
Presence == [account : AccountState, active : ActiveStatus,
             message : Message, tune : Triple \cup {NoTune}]
NoSub == [by |-> "nosub", body |-> NoTrack]
Saved == [active : [Account -> ActiveStatus],
          message : UserText \cup {NullMessage},
          sub : [Account -> UserText \cup {NullMessage, NoSub}]]

AllOptions == {"account", "custom disable", "custom format", "broken",
               "filter", "misc", "format", "toggle", "select"}

(* NoTrack and NoTune stand for strings and states no player's triple is.  *)
ASSUME TrackAssumption == NoTrack \notin Track /\ NoTune \notin Track
                            /\ NoTrack # NoTune
(* filter() masks a text until no listed word is left in it, so that what  *)
(* it returns is returned unchanged the next time.                         *)
ASSUME MaskAssumption == /\ Mask \in [Triple -> Triple]
                         /\ \A t \in Triple : Mask[Mask[t]] = Mask[t]
                         /\ Mask[NoTrack] = NoTrack
ASSUME SetsAssumption == /\ TuneAccount \subseteq Account
                         /\ XmppAccount \subseteq Account
                         /\ Report \subseteq Answer
                         /\ Failed \in Report
                         /\ SavedStatus \subseteq Saved
                         /\ StartPrefs \subseteq Prefs
                         /\ StartCustom \subseteq Custom
                         /\ Option \subseteq AllOptions

TypeOK ==
    /\ run \in BOOLEAN
    /\ prefs \in Prefs
    /\ custom \in [Account -> Custom]
    /\ presence \in [Account -> Presence]
    /\ saved \in Saved
    /\ mostrecent \in TrackInfo
    /\ player \in Answer

-----------------------------------------------------------------------------
(* generate_status(): an empty format gives the empty text *)
GenerateStatus(by, format, ti) ==
    IF format THEN [by |-> by, body |-> ti.track] ELSE Empty

(* message_changed(); its variant forgets that an account may have no      *)
(* message yet.                                                            *)
MessageChanged_NeverFromNull(one, two) == one # two /\ two # NullMessage
MessageChanged(one, two) == one # two

(* trackinfo_changed(): the status and the triple, nothing else, decide *)
TrackInfoChanged_StatusOnly(one, two) == one.status # two.status
TrackInfoChanged(one, two) ==
    one.status # two.status \/ one.track # two.track

(* The message the user selected for the account a: the account's own     *)
(* substatus before the general message; a null one is as good as none.    *)
SavedMessage_GeneralOnly(a) == saved.message
SavedMessage(a) ==
    IF saved.sub[a] # NoSub THEN saved.sub[a] ELSE saved.message
StatusText(a, text) ==
    IF text = Empty /\ SavedMessage(a) # NullMessage
      THEN SavedMessage(a)
      ELSE text

(* What set_status_tune() returns: is the tune status in charge of a? *)
TuneHandled(c, a, text, ti) ==
    /\ ~(text # Empty /\ ti = NoInfo)
    /\ a \in TuneAccount
    /\ c.broken # "yes"

(* The tune status that set_status_tune() leaves behind *)
TuneAfter(c, a, text, ti) ==
    IF ~TuneHandled(c, a, text, ti) \/ ~TrackInfoChanged(ti, mostrecent)
      THEN presence[a].tune
    ELSE IF text # Empty /\ ti.status \in {"NORMAL", "PAUSED"}
      THEN ti.track
    ELSE NoTune

(* The last part of set_status(): may the message of a be replaced? *)
WritesMessage_EvenAway(c, a, text, ti) ==
    /\ ~(TuneHandled(c, a, text, ti) /\ prefs.tuneOnly)
    /\ presence[a].active \in SupportsMessage
WritesMessage(c, a, text, ti) ==
    /\ ~(TuneHandled(c, a, text, ti) /\ prefs.tuneOnly)
    /\ presence[a].active # "none"
    /\ ~(prefs.away /\ presence[a].active = "away")
    /\ presence[a].active \in SupportsMessage
    /\ MessageChanged(StatusText(a, text), presence[a].message)

(* The account's own format, when it has one, replaces the common text *)
OverrideText(c, text, ti) ==
    IF ti.status = "NORMAL" /\ c.format
      THEN GenerateStatus("custom", TRUE, ti)
      ELSE text

(* set_status(): a's presence afterwards, given its preferences c *)
SetStatus(c, a, text, ti) ==
    LET own == OverrideText(c, text, ti)
    IN  IF c.disabled
          THEN presence[a]
          ELSE [presence[a] EXCEPT
                  !.tune = TuneAfter(c, a, own, ti),
                  !.message = IF WritesMessage(c, a, own, ti)
                                THEN StatusText(a, own) ELSE @]

(* set_userstatus_for_active_accounts(): the accounts that are switched on *)
(* get the text, unless the global switch is off; mostrecent_ti is stashed *)
(* last and whatever the switch says.  The variants stash before the       *)
(* accounts are visited, and only while the switch is on.                  *)
Visited(a, text, ti) ==
    IF ~prefs.disabled /\ presence[a].account = "on"
      THEN SetStatus(custom[a], a, text, ti)
      ELSE presence[a]
Stash_NullToo(ti) == ti
Stash(ti) == IF ti = NoInfo THEN mostrecent ELSE ti

SetUserstatus_StashFirst(text, ti) ==
    /\ presence' = [a \in Account |->
                      IF ti = NoInfo
                        THEN Visited(a, text, ti)
                        ELSE [Visited(a, text, ti) EXCEPT
                                !.tune = presence[a].tune]]
    /\ mostrecent' = Stash(ti)
SetUserstatus_StashIfEnabled(text, ti) ==
    /\ presence' = [a \in Account |-> Visited(a, text, ti)]
    /\ mostrecent' = IF prefs.disabled THEN mostrecent ELSE Stash(ti)
SetUserstatus(text, ti) ==
    /\ presence' = [a \in Account |-> Visited(a, text, ti)]
    /\ mostrecent' = Stash(ti)

(* cb_timeout() between the player's answer and the status: the fields are *)
(* trimmed, made valid UTF-8 and, if the filter is on, sanitised.          *)
Sanitized_Raw(answer) == answer
Sanitized(answer) ==
    [answer EXCEPT !.track = IF prefs.filter THEN Mask[@] ELSE @]

-----------------------------------------------------------------------------
Fresh(state) == [account |-> state, active |-> "available",
                 message |-> NullMessage, tune |-> NoTune]

Init ==
    /\ run = FALSE
    /\ prefs \in StartPrefs
    /\ custom \in [Account -> StartCustom]
    /\ presence \in [Account -> {Fresh("off"), Fresh("on")}
                       \cup {Fresh(s) : s \in IF "account" \in Option
                                                THEN {"absent"} ELSE {}}]
    /\ saved = [active |-> [a \in Account |-> "available"],
                message |-> NullMessage, sub |-> [a \in Account |-> NoSub]]
    /\ mostrecent = [status |-> "OFF", track |-> NoTrack]
    /\ player \in Report

(* cb_timeout() *)
Poll ==
    /\ run
    /\ CASE player = Failed -> SetUserstatus(Empty, NoInfo)
         [] player.status \in Status ->
              LET ti == Sanitized(player)
              IN  SetUserstatus(GenerateStatus(ti.status,
                                               prefs.format[ti.status], ti), ti)
         [] OTHER -> UNCHANGED <<presence, mostrecent>>
    /\ UNCHANGED <<run, prefs, custom, saved, player>>

(* plugin_load(): accounts Pidgin knows get the preferences they lack; an  *)
(* XMPP account is presumed to have a broken tune status.  mostrecent_ti   *)
(* keeps its value.                                                        *)
PluginLoad ==
    /\ ~run
    /\ run' = TRUE
    /\ custom' = [a \in Account |->
                    IF presence[a].account # "absent"
                         /\ custom[a].broken = "unset"
                      THEN [custom[a] EXCEPT
                              !.broken = IF a \in XmppAccount THEN "yes"
                                                              ELSE "no"]
                      ELSE custom[a]]
    /\ UNCHANGED <<prefs, presence, saved, mostrecent, player>>

(* plugin_unload() *)
PluginUnload ==
    /\ run
    /\ SetUserstatus(Empty, NoInfo)
    /\ run' = FALSE
    /\ UNCHANGED <<prefs, custom, saved, player>>

(* action_toggle_status(): the statuses are cleared before the switch is   *)
(* thrown; the variant throws it first.                                    *)
ToggleStatus_SwitchFirst ==
    /\ run /\ "toggle" \in Option
    /\ prefs' = [prefs EXCEPT !.disabled = ~@]
    /\ UNCHANGED <<run, custom, presence, saved, mostrecent, player>>
ToggleStatus ==
    /\ run /\ "toggle" \in Option
    /\ IF ~prefs.disabled
         THEN SetUserstatus(Empty, NoInfo)
         ELSE UNCHANGED <<presence, mostrecent>>
    /\ prefs' = [prefs EXCEPT !.disabled = ~@]
    /\ UNCHANGED <<run, custom, saved, player>>

(* cb_custom_toggled(): the preference is set first, set_status() reads it *)
CustomToggled(a) ==
    /\ run /\ "custom disable" \in Option
    /\ presence[a].account # "absent"
    /\ custom' = [custom EXCEPT ![a].disabled = ~@]
    /\ presence' = [presence EXCEPT
                      ![a] = IF custom'[a].disabled
                               THEN SetStatus(custom'[a], a, Empty, NoInfo)
                               ELSE @]
    /\ UNCHANGED <<run, prefs, saved, mostrecent, player>>

(* cb_custom_edited(): the account's format becomes or ceases to be empty *)
CustomEdited(a) ==
    /\ run /\ "custom format" \in Option
    /\ presence[a].account # "absent"
    /\ custom' = [custom EXCEPT ![a].format = ~@]
    /\ UNCHANGED <<run, prefs, presence, saved, mostrecent, player>>

(* cb_broken_nowlistening_toggled() *)
BrokenToggled(a) ==
    /\ run /\ "broken" \in Option
    /\ presence[a].account # "absent"
    /\ custom' = [custom EXCEPT ![a].broken = IF @ = "yes" THEN "no" ELSE "yes"]
    /\ UNCHANGED <<run, prefs, presence, saved, mostrecent, player>>

(* cb_filter_toggled() *)
FilterToggled ==
    /\ run /\ "filter" \in Option
    /\ prefs' = [prefs EXCEPT !.filter = ~@]
    /\ UNCHANGED <<run, custom, presence, saved, mostrecent, player>>

(* cb_misc_toggled(), for PREF_DISABLE_WHEN_AWAY or PREF_NOW_LISTENING_ONLY *)
MiscToggled ==
    /\ run /\ "misc" \in Option
    /\ \/ prefs' = [prefs EXCEPT !.away = ~@]
       \/ prefs' = [prefs EXCEPT !.tuneOnly = ~@]
    /\ UNCHANGED <<run, custom, presence, saved, mostrecent, player>>

(* cb_format_changed(), and action_off_status() for the format of "OFF" *)
FormatChanged(s) ==
    /\ run /\ "format" \in Option
    /\ prefs' = [prefs EXCEPT !.format[s] = ~@]
    /\ UNCHANGED <<run, custom, presence, saved, mostrecent, player>>

(* The player's state, as the track_func of PREF_PLAYER reports it *)
PlayerChanges ==
    /\ player' \in Report
    /\ UNCHANGED <<run, prefs, custom, presence, saved, mostrecent>>

(* libpurple gives a presence the status selected in the buddy list.  Only *)
(* the plugin ever touches the tune status.                                *)
Activated(p, a, s) ==
    [p EXCEPT !.active = s.active[a],
              !.message = IF s.sub[a] # NoSub THEN s.sub[a] ELSE s.message]

StatusSelected(s) ==
    /\ "select" \in Option
    /\ saved' = s
    /\ presence' = [a \in Account |->
                      IF presence[a].account = "on"
                        THEN Activated(presence[a], a, s) ELSE presence[a]]
    /\ UNCHANGED <<run, prefs, custom, mostrecent, player>>

(* The user adds, removes, enables or disables an account *)
AccountChanges(a, state) ==
    /\ "account" \in Option
    /\ presence[a].account # state
    /\ presence' = [presence EXCEPT
                      ![a] = CASE state = "absent" -> Fresh("absent")
                               [] state = "off" -> [@ EXCEPT !.account = "off"]
                               [] state = "on" ->
                                    Activated([@ EXCEPT !.account = "on"],
                                              a, saved)]
    /\ UNCHANGED <<run, prefs, custom, saved, mostrecent, player>>

User ==
    \/ ToggleStatus
    \/ FilterToggled
    \/ MiscToggled
    \/ \E s \in Status : FormatChanged(s)
    \/ \E a \in Account : \/ CustomToggled(a)
                          \/ CustomEdited(a)
                          \/ BrokenToggled(a)

External ==
    \/ PlayerChanges
    \/ \E s \in SavedStatus : StatusSelected(s)
    \/ \E a \in Account, state \in AccountState : AccountChanges(a, state)

Next == Poll \/ PluginLoad \/ PluginUnload \/ User \/ External

Spec == Init /\ [][Next]_vars

(* The GLib timer fires every INTERVAL for as long as the plugin is loaded. *)
FairSpec == Spec /\ WF_vars(Poll)
=============================================================================
