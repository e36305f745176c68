------------------------------- MODULE LastFm -------------------------------
(***************************************************************************)
(* lastfm.c: the feed of recent tracks that get_lastfm_info reads through  *)
(* a buffer of one line.  A poll of the ten-second timer may start a       *)
(* download; its reply overwrites the buffer whenever the network delivers *)
(* it, several downloads may be on their way, and each carries what its    *)
(* server held when it answered.  The rate limit is a credit, counted in   *)
(* seconds of polling and not in time.                                     *)
(*                                                                         *)
(* The model is of polls while Last.fm is the player to ask.               *)
(***************************************************************************)
EXTENDS Integers

CONSTANTS
    Tick,           \* INTERVAL_SECONDS, the seconds between two polls
    Interval,       \* the values PREF_LASTFM_INTERVAL may have
    User,           \* the user names PREF_LASTFM may have
    NoUser,         \* "": no user name set
    Scrobble,       \* lines a feed may begin with: time, artist, track
    NoLine,         \* an empty buffer, or a first line with no such data
    Slot            \* bound: the downloads that may be on their way at once

VARIABLES
    user,           \* PREF_LASTFM
    interval,       \* PREF_LASTFM_INTERVAL
    count,          \* the static counter of get_lastfm_info
    line,           \* the static buffer "status"
    flight,         \* the downloads on their way
    feed,           \* what each user's feed begins with
    recent,         \* the scrobbles not older than PREF_LASTFM_QUIET
    answer,         \* what the last poll returned
    charged,        \* history: the interval the last download was charged
    since           \* history: polls from the last download on

prefs == <<user, interval>>
server == <<feed, recent>>
vars == <<user, interval, count, line, flight, feed, recent, answer,
          charged, since>>

ASSUME TickAssumption == Tick \in Nat \ {0}

(* The range of the spin button begins at INTERVAL_SECONDS *)
ASSUME IntervalAssumption ==
    /\ Interval \subseteq Nat
    /\ \A i \in Interval : i >= Tick

ASSUME NameAssumption == NoUser \notin User /\ NoLine \notin Scrobble

-----------------------------------------------------------------------------
Line == Scrobble \cup {NoLine}

(* A download: not used, asked of a user's feed, or answered with a line *)
Free == [state |-> "free", of |-> NoUser, line |-> NoLine]
Download ==
    [state : {"asked", "answered"}, of : User, line : Line] \cup {Free}

Init ==
    /\ user \in User \cup {NoUser}
    /\ interval \in Interval
    /\ count = 0
    /\ line = NoLine
    /\ flight = [s \in Slot |-> Free]
    /\ feed = [u \in User |-> NoLine]
    /\ recent = {}
    /\ answer = "FALSE"
    /\ charged = 0
    /\ since = 0

-----------------------------------------------------------------------------
(* get_lastfm_info() *)

(* The line in the buffer is a track that plays unless its time is further *)
(* in the past than the quiet interval.                                    *)
Result(l, fresh) == IF l \in fresh THEN "TRUE" ELSE "FALSE"

PollUnnamed ==
    /\ user = NoUser
    /\ answer' = "FALSE"
    /\ UNCHANGED <<prefs, count, line, flight, server, charged, since>>

(* "last.fm ratelimit" *)
PollLimited ==
    /\ user # NoUser
    /\ count < 0
    /\ count' = count + Tick
    /\ since' = since + 1
    /\ answer' = Result(line, recent)
    /\ UNCHANGED <<prefs, line, flight, server, charged>>

(* The counter is left alone by a download *)
Charge_Nothing(c, i) == c + Tick

(* The polls that passed are not credited *)
Charge_NoCredit(c, i) == c - i

(* The two assignments to count around a download *)
Charge(c, i) == c - i + Tick

PollFetching ==
    /\ user # NoUser
    /\ count >= 0
    /\ count' = Charge(count, interval)
    /\ since' = 1
    /\ charged' = interval
    /\ \E s \in Slot :
          /\ flight[s] = Free
          /\ flight' = [flight EXCEPT
                ![s] = [state |-> "asked", of |-> user, line |-> NoLine]]
    /\ answer' = Result(line, recent)
    /\ UNCHANGED <<prefs, line, server>>

Poll == PollUnnamed \/ PollLimited \/ PollFetching

-----------------------------------------------------------------------------
(* lastfm_fetch(), on a reply that came or on a download that failed *)

(* A failed download keeps the old line *)
Received_KeepLine(text) == IF text = NoLine THEN line ELSE text

(* The buffer is emptied, then filled with the first line of the reply *)
Received(text) == text

Fetched(s) ==
    /\ flight[s].state = "answered"
    /\ line' = Received(flight[s].line)
    /\ flight' = [flight EXCEPT ![s] = Free]
    /\ UNCHANGED <<prefs, count, server, answer, charged, since>>

FetchFailed(s) ==
    /\ flight[s] # Free
    /\ line' = Received(NoLine)
    /\ flight' = [flight EXCEPT ![s] = Free]
    /\ UNCHANGED <<prefs, count, server, answer, charged, since>>

-----------------------------------------------------------------------------
(* ws.audioscrobbler.com and the clock *)

Answered(s) ==
    /\ flight[s].state = "asked"
    /\ flight' = [flight EXCEPT
          ![s] = [state |-> "answered", of |-> flight[s].of,
                  line |-> feed[flight[s].of]]]
    /\ UNCHANGED <<prefs, count, line, server, answer, charged, since>>

(* A scrobble has a time of its own, so no earlier line equals it *)
Scrobbled(u, x) ==
    /\ x # line
    /\ \A v \in User : feed[v] # x
    /\ \A s \in Slot : flight[s].line # x
    /\ feed' = [feed EXCEPT ![u] = x]
    /\ recent' = recent \cup {x}
    /\ UNCHANGED <<prefs, count, line, flight, answer, charged, since>>

Ages(x) ==
    /\ x \in recent
    /\ recent' = recent \ {x}
    /\ UNCHANGED <<prefs, count, line, flight, feed, answer, charged, since>>

-----------------------------------------------------------------------------
(* cb_lastfm_changed(): neither the buffer nor the downloads change *)
UserChanged(u) ==
    /\ u # user
    /\ user' = u
    /\ UNCHANGED <<interval, count, line, flight, server, answer, charged,
                   since>>

(* cb_lastfm_interval_changed(): count is not recomputed *)
IntervalChanged(i) ==
    /\ i # interval
    /\ interval' = i
    /\ UNCHANGED <<user, count, line, flight, server, answer, charged, since>>

(* the same handler, for PREF_LASTFM_QUIET: scrobbles of some age count as *)
(* recent again, or no longer do                                           *)
QuietChanged(fresh) ==
    /\ fresh \subseteq recent \/ recent \subseteq fresh
    /\ fresh # recent
    /\ recent' = fresh
    /\ UNCHANGED <<prefs, count, line, flight, feed, answer, charged, since>>

Next ==
    \/ Poll
    \/ \E s \in Slot : Fetched(s) \/ FetchFailed(s) \/ Answered(s)
    \/ \E u \in User, x \in Scrobble : Scrobbled(u, x)
    \/ \E x \in Scrobble : Ages(x)
    \/ \E u \in User \cup {NoUser} : UserChanged(u)
    \/ \E i \in Interval : IntervalChanged(i)
    \/ \E fresh \in SUBSET Scrobble : QuietChanged(fresh)

Spec == Init /\ [][Next]_vars

(* The timer goes on, every server answers in the end, and every reply is  *)
(* delivered or given up.                                                  *)
Fairness ==
    /\ WF_vars(Poll)
    /\ \A s \in Slot : WF_vars(Answered(s)) /\ WF_vars(Fetched(s))

FairSpec == Spec /\ Fairness
=============================================================================
