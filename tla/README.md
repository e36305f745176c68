# Specifications of pidgin-musictracker

musictracker is a Pidgin plugin that asks a music player, every ten seconds,
what it is playing, and writes that into the status messages and the "tune"
statuses of the user's instant-messaging accounts. These TLA+ modules model the
C code under `src/src/`; TLC checks them on small instances, and TLAPS proves
the most important facts for all instances of the constants.

## 1. The system

Everything in the plugin is a callback of Pidgin's GLib main loop: there are no
threads. What makes it hard is that the callbacks (timers, a menu, a
preferences dialog, `/nowplaying`, loading and unloading, the arrival of
downloads, signals and window messages) interleave in any order, that each
decides by copies of state that the others change, and that the players are
other processes, which go on while they are asked.

| Component | Source | State it keeps | Operations | Modules |
|---|---|---|---|---|
| Status engine | `musictracker.c` | `mostrecent_ti`, `g_run`, the accounts' presence in libpurple | `cb_timeout`, `set_userstatus_for_active_accounts`, `set_status`, `set_status_tune`, `plugin_load`, `plugin_unload`, `/nowplaying` | `MusicTracker`, `PlayerSelection`, `Announcement` |
| Plugin menu | `actions.c` | the global switch, the "off" status | `action_toggle_status`, `action_off_status` | `MusicTracker` |
| Preferences dialog | `preferences.c` | the preferences | `cb_*_toggled`, `cb_*_edited`, `cb_format_changed`, `cb_player_changed` | `MusicTracker`, in part |
| Word filter | `filter.c` | the list and the mask character | `filter` | `Announcement`; its effect in `MusicTracker` |
| Text helpers | `utils.c` | none | `put_field`, `trim`, `capture`, `dbus_g_running`, `build_pref` | `TextHelpers`, `PlayerSelection`, in part |
| MPRIS | `mpris.c` | a table of services | poll, track, status and capability signals | `Mpris` |
| Vagalume | `vagalume.c` | a copy of the last notification | poll, message handler, 60-second timer | `Vagalume` |
| Quod Libet | `quodlibet.c` | whether it is paused | poll, two signals | `QuodLibet` |
| Messenger window | `msn-compat.c` | the last message | poll, `WM_COPYDATA`, a preference | `MessengerCompatible` |
| SqueezeCenter | `squeezecenter.c` | a connection, an array of players, a place in a list of servers | poll, two preferences | `SqueezeCenter`, in part |
| Last.fm | `lastfm.c` | a one-line buffer, the counter of a rate limit | `get_lastfm_info`, `lastfm_fetch`, two preference callbacks | `LastFm` |
| The players without state of their own | `xmmsctrl.c`, `audacious.c`, `amarok.c`, `rhythmbox.c`, `banshee.c`, `exaile.c`, `moc.c`, `listen.c`, `xmms2.c`, `dbusbird.c`, `mpd.c`, `winamp.c`, `wmp.c`, `itunes.cpp`, `foobar2000.c` | none (two share a loaded library) | one `track_func` each | `PlayerSelection` |
| Vendored code | `libmpdclient.*`, `disphelper.*`, `wa_ipc.h`, `iTunesCOMInterface*` | | | not modelled |

How they interact. `cb_timeout` calls the `track_func` of the selected player,
or of all in turn, with one `struct TrackInfo`; it trims, validates and filters
what they leave there, turns it into a text by the format of its status, and
passes both to `set_userstatus_for_active_accounts`, which calls `set_status`
for each account that is on. `set_status` substitutes the account's own format,
calls `set_status_tune`, which compares the track with the global
`mostrecent_ti`, and then decides whether to replace the message. A failed
poll, the menu's switch, unloading and the per-account switch call the same
functions with an empty text and a null TrackInfo, which "clears": an empty
text stands for the message the user selected.

What must hold, component by component:

* Status engine: the tune status and `mostrecent_ti` agree; deactivating and
  unloading leave nothing of the plugin's behind; exempt accounts keep the
  user's message; nothing unfiltered gets out; messages and `/nowplaying`
  follow the player once things rest.
* Player selection: the auto-detection announces something whenever a player
  plays, and what it announces is one player's status and track.
* Last.fm: downloads keep their distance; the buffer ends with the right user's
  feed whatever the order of replies.
* MPRIS, Vagalume, Quod Libet, the Messenger window: whatever overtakes what,
  the copy comes to agree with the player that filled it, and is forgotten when
  it must be.
* SqueezeCenter: the array that is polled and announced is of the server that is
  connected to, replies are taken for the commands they answer, and every server
  of the list gets its turn.
* Filter and formatting: masking ends, covers every listed word, in whatever
  case, and no other; substitution keeps lengths and order right; encoded texts arrive as meant.

## 2. Modules

| Module | What it holds |
|---|---|
| `MusicTracker` | the status engine with the menu, the dialog and libpurple around it |
| `PlayerSelection` | a pass of `cb_timeout` over `g_players`, one step per `track_func` |
| `LastFm` | the Last.fm reader, its downloads and the feed |
| `Polling` | a poll of one player's `track_func`, step by step; what the next five extend |
| `Mpris`, `Vagalume`, `QuodLibet`, `MessengerCompatible` | the players of which the plugin keeps a copy |
| `CachedPlayers` | the four of them, of which the user has selected one |
| `SqueezeCenter` | the connection to a list of servers and the array of players |
| `TextHelpers` | the string functions, as functions on sequences of characters |
| `Announcement` | a callback from the player's texts to the status text, one step per turn of each loop |
| `XProperties` | the properties of `X`, and for `MusicTracker` its inductive invariants |
| `XProofs` | the theorems about `X` |
| `InductionLemmas` | induction and recursion from the end of a text, from the least of a set of numbers; what the proofs about texts rest on |
| `MCX` | values of the constants for TLC |

How they are composed. `CachedPlayers` INSTANCEs the four readers and lets one
of them take steps. `CachedPlayers` and `SqueezeCenter` are detailed versions of
one entry of `PlayerSelection`, which says of each `track_func` only the set of
its outcomes: `ImplementsSelection` is `Selection!Spec` under a refinement
mapping (`PollsAnswer`) that forgets the texts and keeps whose they are. In
turn `PlayerSelection`'s outcome (a status and whether there is a track) is what
`MusicTracker` takes as its player's answer, and `Announcement`'s
`NothingListedIsShown` is, for masks that are in no listed word, the assumption
`MaskAssumption` of `MusicTracker` that filtering a second time changes nothing.

### MusicTracker

Each callback is one atomic action, because the main loop runs one to its end.
(The two dialogs run a nested main loop, but read their result only after it, so
they add no step in the middle of a callback.)

| Variable | In the code |
|---|---|
| `run` | `g_run`, and the timer `g_tid` |
| `prefs` | `PREF_DISABLED`, `PREF_FILTER_ENABLE`, `PREF_DISABLE_WHEN_AWAY`, `PREF_NOW_LISTENING_ONLY`, and of each of the three formats whether it is empty |
| `custom` | per account `PREF_CUSTOM_DISABLED`, whether `PREF_CUSTOM_FORMAT` is non-empty, `PREF_BROKEN_NOWLISTENING` (possibly not yet created) |
| `presence` | per account: absent, off or on; the kind of its active status; the message; the tune status |
| `saved` | `purple_savedstatus_get_current()`, with substatuses |
| `mostrecent` | `mostrecent_ti` |
| `player` | what the `track_func` would answer now |

| Action | In the code |
|---|---|
| `Poll` | `cb_timeout` from the player's answer on |
| `PluginLoad`, `PluginUnload` | `plugin_load`, `plugin_unload` |
| `ToggleStatus` | `action_toggle_status` |
| `CustomToggled`, `CustomEdited`, `BrokenToggled`, `FilterToggled`, `MiscToggled`, `FormatChanged` | the callbacks of those names in `preferences.c` (the last also `action_off_status`) |
| `PlayerChanges`, `StatusSelected`, `AccountChanges` | the player, the buddy list and the account manager (external) |

A text is abstracted to who wrote it (the user, the format of a status, the
account's own format, nobody) and the track it names: that is what the code's
comparisons and the properties tell apart. A track is the triple of title,
artist and album, the part of a TrackInfo that `trackinfo_changed` compares.
Not tracked: times, the player's name, the wording of formats.
`Activated` models what libpurple does when it puts a saved status on an
account: its message replaces the plugin's.

### PlayerSelection

`Begin`, then one `AskNext` per entry of `g_players` (or one `AskChosen`), then
`StopAsking`. One callback is split into steps because the players are other
processes: between two steps any of them may start, stop or fail, so an answer
is any outcome its `track_func` has a path for. Each `track_func` is an
operator from the TrackInfo it finds to the set of pairs (returned value,
TrackInfo it leaves); what it does when the bus is missing, when a call fails
half-way and when a state is unknown follows its code. A field is abstracted to
the player whose data it holds. `steady` names a player that plays and answers
throughout the pass, the case in which the user expects to see its track.
`library` is what the `xmms_remote_*` pointers were last loaded from; it
survives the passes.

`ti.status = "ODD"` is any number that is no `STATUS_` constant, which
`get_amarok_info` can store. It ends the search like an active status, but
`cb_timeout` announces nothing for it, so `Announced` does not count it.

### LastFm

| Variable | In the code |
|---|---|
| `user`, `interval` | `PREF_LASTFM`, `PREF_LASTFM_INTERVAL` |
| `count`, `line` | the statics `count` and `status` |
| `flight` | downloads that `purple_util_fetch_url_request` has not finished |
| `feed`, `recent` | the servers' first lines, and which of them `PREF_LASTFM_QUIET` counts as playing |
| `answer` | what the last poll returned |
| `charged`, `since` | history: what the last download was charged, and polls from it on |

The polls are those in which Last.fm is asked and no earlier player has written
the TrackInfo; what a status left there does to it is part of
`PlayerSelection`. `minimum_delta` is only traced and is left out. A poll
is due only while one of the `Slot`s is free: the bound on downloads that
overlap, two in the runs, enough for replies out of order.

### Polling and CachedPlayers

`phase` is "asking" while a `track_func` is under way; `answer` is what it has
returned and the TrackInfo it fills. The main loop runs no other callback of
the plugin meanwhile (`MainLoop`); the players go on. `bus` is whether there is
a session bus.

| Variable | In the code |
|---|---|
| `choice` | `PREF_PLAYER`, fixed |
| `service`, `signals` | MPRIS services on the bus, signals waiting on the connection |
| `players` | the table of `mpris.c` |
| `unchecked`, `current`, `found` | the foreach of a poll: whom it has to ask, asks, has copied |
| `vagalume`, `requested`, `inbox` | the player, the request it was sent, messages waiting on the connection |
| `initialized`, `running`, `cached` | the statics of `vagalume.c` |
| `checking` | `check_and_fill_cache` waits for a message |
| `quodLibet`, `pauses`, `connected`, `gState` | the player, signals waiting, the statics of `quodlibet.c` |
| `window`, `swap`, `msnti`, `last` | the window, `PREF_MSN_SWAP_ARTIST_TITLE`, the static; `last` is history: the last message |

| Action | In the code |
|---|---|
| `M!List`, `M!CheckStatus`, `M!CheckMetadata`, `M!Finish` | `get_mpris_info`, and `mpris_check_player` at each of its blocking calls |
| `M!SignalArrives` | the track and status signals |
| `V!Ask`, `V!Initialize`, `V!Answers` | `get_vagalume_info`, `initialize_plugin` |
| `V!Dispatch`, `V!Timer`, `V!Taken`, `V!TimedOut` | `dbus_handler`, the timer, and `check_and_fill_cache` with its two ends |
| `Q!Ask`, `Q!NotRunning`, `Q!CurrentSong`, `Q!SignalArrives` | `get_quodlibet_info`, `cb_quodlibet_paused` |
| `C!Ask`, `C!Answers`, `C!Receives`, `C!SwapToggled` | `get_msn_compat_info`, `process_message`, `cb_toggled` |
| `X!Environment`, `V!Responds` | the players (external) |

Signals are queued in order and reach the plugin only once it has connected
them. A blocking call may fail at any time, and its answer may be younger than
signals that still wait. Services that send their status as one number and as a
struct of four are the same here; those without `GetStatus` (BMPx 0.40) are in
`NoGetStatus`.

### SqueezeCenter

| Variable | In the code |
|---|---|
| `up`, `hosted` | the servers that run, the players of each (external) |
| `servers`, `order` | `PREF_SQUEEZECENTER_SERVER`, `PREF_SQUEEZECENTER_PLAYERS`, split |
| `sock`, `sent`, `inbox` | the socket; commands not answered; replies not read |
| `version`, `players`, `playersArray` | the members of `squeezecenter` of those names |
| `fetched` | `pi` in `get_players` |
| `last` | the static of that name |
| `step` | where the poll is: what it does, for which player, whether it waits for a reply |
| `failed` | history: a command failed and the connection was kept |

| Action | In the code |
|---|---|
| `Ask`, `FindsConnection`, `Opens`, `OpensNone`, `Check` | `get_squeezecenter_info` up to the first command: `get_squeezecenter_connection`, `squeezecenter_connect`, `squeezecenter_connected` |
| `Send`, `CannotSend`, `TimesOut`, `IsCutOff` | `squeezecenter_command` |
| `LoginReply` to `StatusReply` | the callers that read a reply |
| `Overrun` | an index beyond the array ends the program (`step.kind = "lost"`) |
| `Select` | the choice among the players and `squeezecenter_status_to_musictracker` |
| `ServersChanged`, `OrderChanged` | `cb_squeezecenter_changed` |
| `GoesDown`, `ComesUp`, `PlayersComeAndGo`, `Connects`, `ServerAnswers` | servers and network (external) |

A reply is whatever line comes next: after a command that was given up, late
replies are read by the commands that follow. `recv` may return several lines.
The count and the version are read at the beginning of them, the status is the
first line that is one, and for an id or a name all of them are taken, which is
none of any player. What a status line says of the music is abstracted to the
player it is about, with the mode, the power and whether it is a stream
(`Shown`).

The code tests no index against the length of the array. Beyond it a poll either
ends the program (`Overrun`) or goes on with what it finds there: it asks for any
id (`Ids`), and may announce a record of any content (`Stray`). What it writes
there is not followed.

### TextHelpers and Announcement

A text is a sequence of characters; an entity's name is one. `Announcement`
follows one field after the other through hearing (with the URL decoder of
`squeezecenter.c` and the XML decoder of `vagalume.c`), `trim`,
`utf8_validate`, `filter` and the substitutions of `generate_status`; each turn
of `filter`'s inner loop is a step, so that a loop that does not end is a
behaviour that does not end. A listed word is a text, not a regular expression;
it is compared with all case folded (`Lower`, for `PCRE_CASELESS`), while `\b`
is of the text as it is. A byte that is not UTF-8 may stand for any character of
the locale's encoding (`Convertible`), also one that cannot be printed or that
makes a listed word.
Minutes, seconds, the player's name and the music symbol are one character
each. `exact` records whether the assertion of `put_field` has held.

## 3. Runs

The next-state relations are covered between the passing runs, and none
deadlocks (`text` ends where the callback does).

| Run | Instance | Question |
|---|---|---|
| `core_settled` | 2 accounts with tune status; every start-up value of the exemptions and the filter; the user toggles, selects statuses and edits formats | `TypeOK`, `TuneMatchesStash`, `OffLeavesNothing`, `ExemptKeepOwn`, `FilteredOnly`; and, as one pass visits both accounts, whether both compare with the old stash: `TuneFollowsChange` |
| `core_steps` | 1 XMPP account that comes and goes, every preference but the filter and the common formats | what each clearing step leaves: `ClearingRestores` |
| `core_live` | 1 account, nearly all controls, a player status of unknown number, `FairSpec` | `MessageConverges`, `NowPlayingFollows` |
| `select_unix` | the 17 players of the Unix build, both libraries installed | `TypeOK`, `PlayingIsFound`, `StatusIsOwn`, `LeftByLeavers` |
| `select_windows` | the 7 players of the Windows build | `StatusIsOwn`, which depends on what each of these players leaves to the next |
| `lastfm` | 2 users, 2 scrobbles, 2 downloads, intervals of 10 and 25 s with a tick of 10 s, `FairSpec` | `TypeOK`, `CreditIsBounded`, `FetchesArePaced`, `AnswerFollowsFeed` |
| `mpris` | 2 services, one without `GetStatus`, one with two tracks of which one has a title only; status numbers 0 (plays) and 2 (stopped); 2 signals may wait; `FairMpris` | `TypeOK`, `StatusIsHeard`, `ImplementsSelection`, `MprisConverges` |
| `caches` | Vagalume, Quod Libet or the Messenger window, 2 tracks, 3 messages and 2 signals may wait; `FairCaches` | `PauseIsHeard`, `OnlyLastMessage`, `ImplementsSelection`, `VagalumeConverges`, `KillIsNoticed` |
| `squeezecenter` | server A with 0 or 2 players, B with 1; the lists A, B and B; two orders of players, all showing a stream that plays; a line that is no count may be read as -1; 1 command may be answered late; `FairSpec` (1.3 million states, the largest run) | `TypeOK`, `ArrayIsOurs`, `ImplementsSelection`, `ServerIsReached` |
| `text` | all titles of up to 3 of 7 characters that the functions treat differently, of up to 3 that differ in case, and of up to 3 that XML encodes or that name an entity; 4 formats, 6 filters, 3 encodings; `FairSpec` (0.9 million states) | `TextsArriveAsMeant`, `NothingListedIsShown`, `OnlyListedIsMasked`, `WritesWhatWasCounted`, `StatusIsExpansion`, `BarHasItsMark`, `CallbackEnds` |

Why the bounds are enough. An account's presence depends on no other account
but through the order of the visit and the stash, so two accounts show what one
pass can get wrong. Three tracks (clean, with a listed word, and what the filter
makes of that) are all that the comparisons tell apart, since the state holds
one track at a time besides the player's. Two users' messages tell the general
from the account's own. The players of `PlayerSelection` are all there, in the
order of the build; the outcomes are finite without any bound. For Last.fm, 25
is an interval that is no multiple of the tick, so that a remainder is carried
and several polls are limited, and 10 is the shortest there is; `count`, `since`
and `charged` are bounded by the interval and need no bound of their own. Two
MPRIS services let one be found before the other is asked, and two signals
(`MaxSignals`) suffice for one to be older and one younger than an answer;
a third status number would only repeat "playing". Three messages
(`MaxMessages`) fill the connection before, at and behind the one that a check
of Vagalume takes; two Quod Libet signals (`MaxPauses`) are a pause and its end.
Two servers are enough for a connection to another one than before, with arrays
of different lengths (2 and 1) and with none; one more player counted than there
are records is what it takes to leave the array; a stream hides the artist and
the album, so that the other outcomes of `StatusOf` are left to the theorem
`RefinesSelection`, as are more players; a command that is answered late
(`MaxLate`) puts all that follow out of step, and a second adds nothing. Titles
of three characters let a word stand at the beginning, at the end, alone and
inside another, an escape be cut off, and one masking make a word boundary for
the next, an entity name stand behind an encoded `&`, and case differ between
word and text; formats of four or five characters end in a field, in a percent sign
and in a letter. The masks are a sign, a letter that is in no listed word, one
that is in a listed word with others, and one that is a listed word, the last
two in another case than the word's.

The settled properties (`TuneMatchesStash`, `OffLeavesNothing`,
`ExemptKeepOwn`, and `FilteredOnly` of the filter's switch) are claims about
instances in which the exemptions stay as they are: what happens when the user
changes one while a track is shown is what `core_steps` and `core_live` are
about. In `core_settled` an account becomes exempt by going away only.

### Disagreements between the code and its documents

Each of these runs checks one statement of the repository's own and ends in a
counterexample.

| Run | Property | What the run shows |
|---|---|---|
| `doc_custom_disable` | `CustomDisableClears` | Disabling an account in the dialog does not clear its message (ChangeLog line 116 says it does): the preference is set before the clearing that reads it. |
| `doc_lastfm_off` | `SilenceIsOff` | When the last scrobble is too old, `get_lastfm_info` sets `STATUS_OFF` and returns `ti->status == STATUS_NORMAL` (lastfm.c:104), that is, it fails, and `cb_timeout` clears instead of announcing the "off" text. The preference's label promises that "we will assume the off state for the player" (lastfm.c:160). |

Weaknesses that the models show, or that were met on the way, and no run is
spent on:

* After a clear, the same track polled again leaves the tune status off: the
  clear ends the tune but not `mostrecent_ti`, by which `set_status_tune`
  returns early (musictracker.c:272).
* The "off" status is never set with auto-detection, whose pass goes on to the
  next player and fails at the end (musictracker.c:512, :519), although the
  dialog and the menu promise a status for a player that is off
  (preferences.c:279, actions.c:65).
* A number that Amarok prints and that is no status ends the auto-detection,
  hides all later players and announces nothing (musictracker.c:512, :554; the
  exception `OddAmarok` of `PlayingIsFound`).
* A Last.fm interval that is lowered counts only once the one charged before has
  been waited for (lastfm.c:63), unlike what its label says (lastfm.c:148).
* Fields left by a player that is stopped are announced with a later player's
  (musictracker.c:501).
* A tune status that is marked broken while active stays for ever
  (`BrokenToggled`, then the early return of `TuneHandled`); the flag gets its
  default only for the accounts known when the plugin is loaded
  (musictracker.c:630).
* `/nowplaying` goes on with the last track after the player has quit, or while
  polls fail (`Stash` of a null TrackInfo).
* Unloading leaves the message of an account that has become exempt meanwhile
  (`WritesMessage`).
* With only libaudacious.so installed, XMMS is announced when Audacious plays
  (`LibraryFor`).
* A message that `g_utf8_collate` takes for equal is not replaced, though it is
  another text (musictracker.c:145).
* The check of Vagalume pops whatever message comes first, also another
  player's, and takes none at all for the end of the player (vagalume.c:223;
  `Taken`, `RequestLate`); it is right again at the next notification or check.
* What is masked may make a word of what stands beside it
  (`MaskIsHarmless`): with the listed word "%s", which `\b` finds only behind a
  letter, and the mask "p", the title "\n%s" becomes "p%s", which is a listed word now, and the loop
  has gone past it. And if the mask is in a listed word (`MaskIsForeign`), one
  word's masking may make another: with the words "t" and "s s" and the mask
  "s", "s t" becomes "s s" and then "sss", though the text had no word "s s".
* In a Messenger message of six parts the album is what was on the stack
  (msn-compat.c:76; the `a` of `C!FieldsOf`).
* After a SqueezeCenter command that failed on a connection that is kept, the
  array may be shorter than the count, and is then read and written beyond its
  end (squeezecenter.c:823, :699): the program ends, or what happens to stand
  there is announced (`Overrun` and `Stray`). Late replies answer the wrong
  commands for as long as the connection lasts, so a player may get the status of
  another. `ArrayIsOurs` holds until then (`~failed`) and not after. The dialog
  reads the same array by the same count (squeezecenter.c:903).
* A SqueezeCenter player that takes another's place is asked for by the old id
  (squeezecenter.c:815).
* A field whose text has a percent sign and a field letter is substituted again
  (utils.c:110; the condition `Harmless`); a title that looks like an entity is
  unescaped twice (vagalume.c:88); a listed word that consists of mask
  characters only, in whatever case ("xxx" with the mask "X"), keeps the callback
  for ever (filter.c:34; the condition `Filterable`); a negative
  length puts the progress mark before the bar (musictracker.c:205); a text that
  grows when it is converted is copied into the old buffer
  (musictracker.c:474).
* `PREF_PLAYER` is an index into a list whose length depends on the build
  (musictracker.c:507); MPD's connection stays open when its status command
  fails (mpd.c:47).

### Variants

A definition named `X_Variant` is `X` with a mistake its author could have made;
putting it in the place of `X` makes a run fail. Several of them are bugs the
ChangeLog records as fixed.

| Variant | Broken property |
|---|---|
| `Stash_NullToo` | `TypeOK` (`core_settled`) |
| `TrackInfoChanged_StatusOnly` | `TuneMatchesStash` |
| `ToggleStatus_SwitchFirst` | `OffLeavesNothing` |
| `WritesMessage_EvenAway` | `ExemptKeepOwn` |
| `Sanitized_Raw` | `FilteredOnly` |
| `SetUserstatus_StashFirst` | `TuneFollowsChange` |
| `SavedMessage_GeneralOnly` | `ClearingRestores` |
| `MessageChanged_NeverFromNull` | `MessageConverges` |
| `SetUserstatus_StashIfEnabled` | `NowPlayingFollows` |
| `Blank_Unset` | `TypeOK` (`select_unix`) |
| `Unsettled_Answered` | `PlayingIsFound` |
| `Mpris_StatusKept` | `StatusIsOwn` (`select_unix`) |
| `Audacious_FieldsFirst` | `LeftByLeavers` |
| `Foobar2000_NoWindow` | `StatusIsOwn` (`select_windows`) |
| `Charge_Nothing` | `TypeOK` (`lastfm`) |
| `Charge_NoCredit` | `CreditIsBounded`, `FetchesArePaced` |
| `Received_KeepLine` | `AnswerFollowsFeed` |
| `NewPlayer_Unset` | `TypeOK` (`mpris`) |
| `Unlisted_Again` | `StatusIsHeard` |
| `Answers_Always` | `ImplementsSelection` (`mpris`) |
| `WithTrack_NoTitle` | `MprisConverges` |
| `StateAfter_Toggled` | `PauseIsHeard` |
| `Processed_Ignoring` | `OnlyLastMessage` |
| `Begin_Unset` | `ImplementsSelection` (`caches`), `ImplementsSelection` (`squeezecenter`) |
| `CachedAfter_KeepStopped` | `VagalumeConverges` |
| `Orphaned_Running` | `KillIsNoticed` |
| `LastAfter_Always` | `TypeOK` (`squeezecenter`) |
| `ClearConnection_KeepCount` | `ArrayIsOurs` |
| `LastAfter_Stays` | `ServerIsReached` |
| `Unescape_NotAmp` | `TextsArriveAsMeant` |
| `NextWord_Always` | `NothingListedIsShown` |
| `Found_Anywhere` | `OnlyListedIsMasked` |
| `CountFor_ToTheEnd` | `WritesWhatWasCounted` |
| `FieldAt_NotLast` | `StatusIsExpansion` |
| `Progress_Unbounded` | `BarHasItsMark` |
| `Masked_ButFirst` | `CallbackEnds` |

## 4. Fairness

* `MusicTracker`: `WF(Poll)` only. The GLib timer fires every `INTERVAL` while
  the plugin is loaded. Nothing is assumed of the user, the accounts or the
  player; the liveness properties are conditional on their coming to rest
  (`Quiet`).
* `LastFm`: `WF(Poll)` for the same timer while Last.fm is asked, and
  `WF(Answered)`, `WF(Fetched)` for each download: libpurple delivers every
  reply or gives it up, and the main loop goes on. `AnswerFollowsFeed` further
  assumes that from some time on no download fails.
* `CachedPlayers`: the poll, the connection and the 60-second timer are sources
  of one main loop, which serves each of them again and again, but not while
  another one's callback waits for an answer; each is disabled for a while by
  the others, hence `SF`. That a wait ends, with a message or by the time-out
  that libdbus is given, and that a Vagalume that was asked responds, is `WF`.
  `MprisConverges` and `VagalumeConverges` hold if the players come to rest and
  answer in time; `KillIsNoticed` needs no answers.
* `SqueezeCenter`: `WF(Poll)` for the timer and the steps of a poll,
  `WF(TimesOut)` for the ten seconds of `select`, `WF(Connects)` for TCP, and
  `WF(ServerAnswers)` for a server that runs. `ServerIsReached` is conditional on
  `OnlyServer`: one server of the list runs, has players and is not slow; and on
  the program's not having ended by leaving the array.
* `Announcement`: `WF(Next)`, a callback goes on. `CallbackEnds` is conditional on
  `Filterable`, that no listed word consists of mask characters only, in
  whatever case.
* `PlayerSelection` has no liveness property: each pass is a bounded loop.

## 5. Proofs

The theorems hold for all values of the constants that satisfy the modules'
named assumptions: any accounts, tracks, users' statuses and answers in the
core, any list of known players without repetition that ends with Last.fm, any
tick and any intervals of at least a tick (the spin button's lower bound), any
services, tracks and bounds of the copies, any servers, players, lists of
servers and orders of players (`PlayerOrders` being sequences of segments), any
alphabet, texts, formats, lists of words and masks. `Nobody` is in no case a
player. Every safety property and every action property that a passing run
checks is stated by a theorem; `PROJECT.json` lists which.

**Core** (`MusicTrackerProofs`). `TypeCorrect` is inductive as it stands.
`TunesFollowStash` is not: that an active tune names the track of
`mostrecent_ti` is preserved by a poll only because the poll's text reaches
every account whose tune is active, so the invariant `TuneInv` adds where a
tune can be active at all: on a loaded, activated plugin, in an account that is
on, not disabled and whose tune status is in charge. `OffIsClean` and
`ExemptAccountsKeepOwn` follow from `MessageInv`, that the plugin's text can be
shown only where the next clearing step will reach it (together with
`TuneInv` for the tune part). `NothingUnfiltered` needs the idempotence of
`Mask`. These four are stated under a hypothesis on `Option`, the controls that
the instance exercises: per-account switches (for some also accounts, the
exemptions or the filter's switch) that change while a track is shown break
them, as section 3 says. The two action properties need no such hypothesis:
`ClearingRestoresAll` and `TuneFollowsEveryChange` relate the two states of one
callback, and rest on the type invariant and on what one visit of `set_status`
does to one account.

**Player selection** (`PlayerSelectionProofs`). The invariant `Searching` says
that a search that is under way has either been settled or still has the steady
player ahead of it; its step rests on the definition of an answer of
a steady player, and on nothing about the other players. `NoPlayingMissed` needs
besides that what settles a search is announced. A status of unknown number is
not, so `OddSettles` says that only Amarok has such a one, when it succeeds: the
contract `Left`, below, has a conjunct (`Even`) that no other player makes one
(`AskOdd`). `TypeCorrect` and `OthersLeaveNothing` are the
invariant `PassInv`; it rests on `OutcomesLeave`, a contract that all
`track_func`s share (`Left`: what each may touch, by what it returns), shown by
one lemma for each kind of them.

`StatusesAreOwn` is a fact of the order of `g_players`. Three players may fail
with an active status in the TrackInfo (`FailsActive`), and six may succeed with
the status as they found it (`KeepsStatus`): were one of these asked next, it
would announce the status of the other, and nothing in `cb_timeout` would
notice. Six players remove what they find (`Resets`), and between each of the
first and each of the second that comes later, all builds have one of them
(`SeparationAssumption`, which TLC evaluates on the lists of both systems; in
the Unix list Quod Libet and Exaile follow Banshee, and MPRIS follows XMMS2; in
the Windows list Foobar2000 follows iTunes). The proof has a second
contract of all `track_func`s, `Honest`: which of the three each is
(`OutcomesHonest`). The invariant `OwnInv` says of a search that is under way
that there is no status, that it is the one of the last player asked, who
succeeded, or that somebody who failed has left it and nobody asked since
removes it (`Tainted`); by the assumption, none who keeps a status is asked
while that is so (`NoTaintBefore`).

**Last.fm** (`LastFmProofs`). `PacingInv` is the type invariant with
`CreditIsBounded`. The type invariant's bound `count < Tick` is what makes the
remainder carried over a download less than one tick. `DownloadsPaced` is the
action property, from `PacingInv` and the fact that only a fetching poll takes
a slot.

**Copies** (`CachedPlayersProofs`). `TypeCorrect` needs that signals are only of
services in the table (`SignalsAreOfKnown`), or handling one would make up a
record. `PausesHeard` and `MessagesForgotten` are inductive together with the
types (`CopyInv`). `StatusesHeard` is the invariant `HeardInv`: for each service,
the last status signal that waits, or if none does the record in the table,
is what the service said last. `RefinesSelection` is the refinement: a `Begin`
is the start of a pass, `Return` and `Fail` its one answer, everything else
stutters; its invariant `SelectionInv` adds that a poll that is under way has
touched nothing (`AskedInv`), that what the MPRIS foreach stopped at is active
(`FoundInv`), and that without a bus nothing has come from Vagalume (`BusInv`).

**SqueezeCenter** (`SqueezeCenterProofs`). `TypeCorrect` needs that a walk that is
under way has players to count (`WalkInv`), or the choice at its end would be of
nobody. It does not say that what is announced is in the array: the code tests no
index, and the count is replaced before the array. The types hold whatever stands
behind it. That nothing of it is announced holds until a command fails:
`ArrayStaysOurs`, from `OursInv`: as long as no command has failed on a
connection that was kept, at most the command that is waited for is on its way,
or its one reply (`InStep`), so what is received answers what was asked; the
array was counted and fetched on this connection, for the count is reset with
it (`ArrayInv`). `RefinesSelection` is the refinement, from `AskedInv` alone,
and holds after failures too.

**Texts** (`InductionLemmas`, `TextHelpersProofs`, `AnnouncementProofs`). The
string functions are recursive functions of a place in the text. That a
function with such a definition exists, and what it computes, is an induction,
which is done here without an induction theorem: if the places from which
something holds on are not all, the others have a greatest, and that is refuted
(`FromTheEnd`); existence is the same argument about functions on a final part
of the text (`RecursionFromTheEnd`). On that rest what each function returns
(`WrittenFrom`, `ReplacedFrom`, `DecodedFrom`, `FilledFrom`) and, for every text,

* `CountsWhatIsWritten`: the two passes of `put_field` agree on the length; hence
  `AssertionHolds`, with the types (`AnnouncementTypes`);
* `TextsArrive`: both encoders followed by the decoders are the identity on texts
  that do not look like an entity. For URLs (`UrlRoundTrip`) it follows from
  `ReadAsMeant`: if each piece of an encoded text is read as one character and the
  reader stops between pieces, the whole is read back. The XML decoder goes
  through the text once per entity; `OneEntityDecoded` says that this turns the
  text with the k-th entity and those behind it encoded into the one with those
  behind it only, whence `XmlRoundTrip` goes by stages, `&` first;
* `FilterHidesWords`: the invariant `FilterInv` says that the words before the one
  that is being masked are not in the text, in whatever case. The step is that
  masking makes no new word (`NoWordAppears`), which is where the mask has to be in
  no listed word and harmless to its neighbours (`MaskIsForeign`, `MaskIsHarmless`);
* `FilterMasksOnlyWords`: `MaskInv`, what differs from the text that the
  filter began with is the mask, and stands where that text had a listed word, in
  whatever case, or something unprintable; a word that is found in the masked
  text has no mask in it, so that it has been there from the beginning;
* `StatusIsTheFormat`: `ExpandInv`, the text before the i-th substitution is the
  format with the first i - 1 directives put in at once. The step
  (`OneMoreField`) compares two recursions that go at different paces; it needs
  that values have no percent sign, and that no two stand side by side in the
  format, or else the text would be read in other pairs (`Harmless`);
* `MarkOnTheBar`, by arithmetic.

Only model-checked, because the liveness of a specification under fairness is
beyond the prover: `MessageConverges`, `NowPlayingFollows`, `AnswerFollowsFeed`,
`MprisConverges`, `VagalumeConverges`, `KillIsNoticed`, `ServerIsReached` and
`CallbackEnds`.

## 6. Not modelled

* `libmpdclient.*`, `disphelper.*`, `wa_ipc.h`, `iTunesCOMInterface*`: vendored or
  generated code, modelled from its use. They are some 20,100 of the
  26,300 lines under `src/src/`. Of the 6,200 others the definitions stand for
  some 3,900; what is left is trace output, headers and the layout of dialogs.
* The widgets of the dialogs (`preferences.c`, and in `mpd.c`, `xmmsctrl.c`,
  `squeezecenter.c`, `lastfm.c`, `msn-compat.c`): their callbacks are modelled
  where they change what the plugin decides by.
* `build_pref`'s names letter by letter, and `wchar_to_utf8` of the Windows
  players.
* Listed words as regular expressions, and PCRE's and the locale's tables: a
  word is a text, and which characters are letters and which differ in case only
  are constants.
* Parsing inside the readers: a status line, a D-Bus dictionary, a regular
  expression's parts are the texts they are about.
* Memory: lifetime of libpurple's structures, buffers' sizes (but for the count
  of `put_field`), and what a late callback does once the plugin's code is
  unloaded.
* What stands behind the SqueezeCenter array: it is any record, and what is
  written there is not followed.

## 7. Plan

Done: the modules above with their runs, and the theorems of section 5.

Next, in this order:

1. A composition of `PlayerSelection` with `MusicTracker`: a pass implements
   `PlayerChanges` followed by `Poll` of the core.
2. The safety part of the liveness properties: what their conclusions,
   once reached, are kept by (`MprisConverges`, `VagalumeConverges`), as invariants
   of the specifications.
3. The widgets' remaining callbacks, should they come to matter for a property.
