----------------------- MODULE MusicTrackerProperties -----------------------
(***************************************************************************)
(* What the core must do, stated over the steps of MusicTracker.           *)
(***************************************************************************)
EXTENDS MusicTracker

(* The accounts that set_status() is called for and does not turn away *)
Reached(a) == /\ presence[a].account = "on"
              /\ ~custom[a].disabled
TuneInCharge(a) == a \in TuneAccount /\ custom[a].broken # "yes"

(* The accounts whose message the plugin may replace: the two preferences  *)
(* that exempt an account do not apply, and its status carries a message.  *)
AwayExempt(a) == prefs.away /\ presence[a].active = "away"
TuneExempt(a) == prefs.tuneOnly /\ TuneInCharge(a)
MessageFree(a) == /\ Reached(a)
                  /\ ~AwayExempt(a)
                  /\ ~TuneExempt(a)
                  /\ presence[a].active \in SupportsMessage

(* What the user chose for the account a: its own message if it has one,   *)
(* else the general one, else nothing.                                     *)
Chosen(a) ==
    CASE saved.sub[a] \in UserText -> saved.sub[a]
      [] saved.sub[a] = NoSub /\ saved.message # NullMessage -> saved.message
      [] OTHER -> Empty

(* The text and the tune status that a poll of this player means for a *)
PollTrack == IF prefs.filter THEN Mask[player.track] ELSE player.track
PollText(a) ==
    CASE player = Failed -> Empty
      [] player.status = "NORMAL" /\ custom[a].format ->
           [by |-> "custom", body |-> PollTrack]
      [] OTHER ->
           IF prefs.format[player.status]
             THEN [by |-> player.status, body |-> PollTrack] ELSE Empty
Playing == player.status \in {"NORMAL", "PAUSED"}
PollMessage(a) == IF PollText(a) = Empty THEN Chosen(a) ELSE PollText(a)
PollTune(a) == IF Playing /\ PollText(a) # Empty
                 THEN PollTrack ELSE NoTune

-----------------------------------------------------------------------------
(* An active tune status names the track that mostrecent_ti holds: the     *)
(* early return of set_status_tune() when that track has not changed, and  *)
(* the stash at the end of set_userstatus_for_active_accounts(), keep the  *)
(* per-account and the global copy together across polls, failures,        *)
(* toggles and reloads.  (For instances whose accounts and per-account     *)
(* preferences do not change.)                                             *)
TuneMatchesStash ==
    \A a \in Account : presence[a].tune # NoTune =>
        /\ mostrecent.status \in {"NORMAL", "PAUSED"}
        /\ presence[a].tune = mostrecent.track

(* An account's message is the plugin's only while the plugin may write    *)
(* it: once status changing is off or the plugin is unloaded, whatever     *)
(* happened in between, no account in use is left with a player's text or  *)
(* tune.  (For instances whose exemptions do not change.)                  *)
OffLeavesNothing ==
    ~run \/ prefs.disabled =>
        \A a \in Account : presence[a].account = "on" =>
            /\ ~PluginText(presence[a].message)
            /\ presence[a].tune = NoTune

(* An account that is disabled for the plugin, away with "don't change     *)
(* status message when away", or left to its tune status shows the user's  *)
(* message, however it came to be exempt.  (As above.)                     *)
ExemptKeepOwn ==
    \A a \in Account :
        presence[a].account = "on"
          /\ (custom[a].disabled \/ AwayExempt(a) \/ TuneExempt(a))
        => ~PluginText(presence[a].message)

(* With the filter on, no unmasked track is shown by any account, in its   *)
(* message, its account-specific message or its tune status, or kept for   *)
(* /nowplaying to send.  (For instances where the filter is not toggled.)  *)
FilteredOnly ==
    prefs.filter =>
        /\ mostrecent.track = Mask[mostrecent.track]
        /\ \A a \in Account :
             /\ PluginText(presence[a].message) =>
                  presence[a].message.body = Mask[presence[a].message.body]
             /\ presence[a].tune # NoTune =>
                  presence[a].tune = Mask[presence[a].tune]

(* Inductive strengthenings of these, for MusicTrackerProofs.  A tune      *)
(* status can be active only where the next clearing step will end it.     *)
TuneInv ==
    \A a \in Account :
        /\ presence[a].account # "absent"
        /\ run => custom[a].broken # "unset"
        /\ presence[a].tune # NoTune =>
             /\ run /\ ~prefs.disabled
             /\ Reached(a) /\ a \in TuneAccount /\ custom[a].broken = "no"
             /\ mostrecent.status \in {"NORMAL", "PAUSED"}
             /\ presence[a].tune = mostrecent.track

(* The plugin's text can be shown only where the next clearing step will   *)
(* replace it.                                                             *)
MessageInv ==
    \A a \in Account :
        presence[a].account = "on" /\ PluginText(presence[a].message) =>
            run /\ ~prefs.disabled /\ MessageFree(a)

-----------------------------------------------------------------------------
(* The steps that take the plugin's text away *)
Clears == \/ run /\ ~run'
          \/ ~prefs.disabled /\ prefs'.disabled
          \/ Poll /\ player = Failed

(* Deactivating, unloading and a failed poll put back the message that the *)
(* user chose, the account's own before the general one, on every account  *)
(* whose message is the plugin's to write, and end its tune status.        *)
ClearingRestores ==
    [][Clears /\ ~prefs.disabled => \A a \in Account :
        /\ MessageFree(a) => presence'[a].message = Chosen(a)
        /\ Reached(a) /\ TuneInCharge(a) => presence'[a].tune = NoTune]_vars

(* A poll that sees another track than the last one stashed brings the     *)
(* tune status of every account it reaches up to date, the first account   *)
(* as well as the last: the stash is not replaced before the accounts.     *)
TuneFollowsChange ==
    [][Poll /\ mostrecent' # mostrecent /\ ~prefs.disabled =>
        \A a \in Account : Reached(a) /\ TuneInCharge(a) =>
            presence'[a].tune = PollTune(a)]_vars

(* The world around the timer comes to rest *)
Quiet == <>[][Poll]_vars

(* When the player and the user leave things alone, every account whose    *)
(* message the plugin may write comes to show what the player is doing, or *)
(* the user's own message when it is doing nothing, and keeps showing it.  *)
MessageConverges ==
    Quiet => <>[](run /\ ~prefs.disabled /\ player.status # "ODD" =>
                    \A a \in Account : MessageFree(a) =>
                        presence[a].message = PollMessage(a))

(* /nowplaying comes to know the current track, and does so too while      *)
(* status changing is deactivated.                                         *)
NowPlayingFollows ==
    Quiet => <>[](run /\ player.status \in Status =>
                    mostrecent = [status |-> player.status, track |-> PollTrack])

-----------------------------------------------------------------------------
(* A statement of the project's own documents, which the code does not     *)
(* keep.                                                                   *)

(* ChangeLog:116: disabling the plugin for an account clears the status it *)
(* set there.                                                              *)
CustomDisableClears ==
    [][\A a \in Account :
        ~custom[a].disabled /\ custom'[a].disabled =>
            ~PluginText(presence'[a].message)]_vars
=============================================================================
