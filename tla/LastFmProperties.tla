-------------------------- MODULE LastFmProperties --------------------------
(* What the reader of the Last.fm feed promises. *)
EXTENDS LastFm

(* Every variable stays in its type; the counter never saves up a second   *)
(* download.                                                               *)
TypeOK ==
    /\ user \in User \cup {NoUser}
    /\ interval \in Interval
    /\ count \in Int /\ count < Tick
    /\ line \in Line
    /\ flight \in [Slot -> Download]
    /\ feed \in [User -> Line]
    /\ recent \in SUBSET Scrobble
    /\ answer \in {"TRUE", "FALSE"}
    /\ charged \in Interval \cup {0}
    /\ since \in Nat

(* The counter is the polling done since the last download less the        *)
(* interval it was charged, up to one tick that earlier downloads have     *)
(* left over.                                                              *)
CreditIsBounded ==
    IF charged = 0 THEN count = 0 /\ since = 0
    ELSE /\ count >= Tick * since - charged
         /\ count < Tick * since - charged + Tick

(* Two downloads are apart, in polls, by the interval that was set at the  *)
(* first of them, to within one tick: neither more often nor less often,   *)
(* whatever the intervals set before it have left in the counter.          *)
Downloads == \E s \in Slot : flight[s] = Free /\ flight'[s] # Free
FetchesArePaced ==
    [][Downloads /\ charged # 0 =>
          /\ Tick * since - charged < Tick
          /\ charged - Tick * since < Tick]_vars

(* When the user keeps the name, the feed rests and no download fails, the *)
(* buffer comes to hold the line of that user's feed for good, and polls   *)
(* come to say whether it is recent: replies of other users' feeds and of  *)
(* earlier states of this one die out, in whatever order they arrive.  (A  *)
(* failed download looks like a fetched one if the reply had no data.)     *)
Rests == <>[][/\ user' = user
              /\ feed' = feed
              /\ \A s \in Slot : FetchFailed(s) => Fetched(s)]_vars
AnswerFollowsFeed ==
    Rests => \A u \in User, l \in Line :
        <>[](user = u /\ feed[u] = l) =>
            /\ <>[](line = l)
            /\ <>[](l \in recent) => <>[](answer = "TRUE")
            /\ <>[](l \notin recent) => <>[](answer = "FALSE")
=============================================================================
