---------------------------- MODULE LastFmProofs ----------------------------
(***************************************************************************)
(* TLAPS proofs about LastFm: however often the user changes the interval  *)
(* and whatever the network does, the rate limit's counter is an account   *)
(* of the polling since the last download.                                 *)
(***************************************************************************)
EXTENDS LastFmProperties, TLAPS

(* The limit's state is TypeOK and CreditIsBounded together: that a        *)
(* download leaves less than one tick over needs the counter below one     *)
(* tick before it, which is part of TypeOK.                                *)
PacingInv == TypeOK /\ CreditIsBounded

(* The first state has charged nothing. *)
LEMMA PacingInit == Init => PacingInv
<1> SUFFICES ASSUME Init
             PROVE  PacingInv
    OBVIOUS
<1> USE TickAssumption, IntervalAssumption
<1>1. TypeOK
    BY DEF Init, TypeOK, Line, Download, Free
<1>2. CreditIsBounded
    BY DEF Init, CreditIsBounded
<1> QED BY <1>1, <1>2 DEF PacingInv

(* A download charges the interval of the moment. *)
LEMMA FetchKeepsPacing ==
    ASSUME PacingInv, PollFetching
    PROVE  PacingInv'
<1> USE TickAssumption, IntervalAssumption
<1>1. /\ interval \in Interval /\ interval \in Nat /\ interval >= Tick
      /\ count \in Int /\ count >= 0 /\ count < Tick
      /\ Tick \in Nat \ {0}
    BY DEF PacingInv, TypeOK, PollFetching
<1>2. count' = count - interval + Tick /\ since' = 1 /\ charged' = interval
    BY DEF PollFetching, Charge
<1>3. count' \in Int /\ count' < Tick
    BY <1>1, <1>2
<1>4. CreditIsBounded'
    BY <1>1, <1>2 DEF CreditIsBounded
<1>5. flight' \in [Slot -> Download]
    <2>1. PICK s \in Slot : flight' = [flight EXCEPT
                ![s] = [state |-> "asked", of |-> user, line |-> NoLine]]
        BY DEF PollFetching
    <2>2. user \in User
        BY DEF PollFetching, PacingInv, TypeOK
    <2>3. [state |-> "asked", of |-> user, line |-> NoLine] \in Download
        BY <2>2 DEF Download, Line
    <2> QED BY <2>1, <2>3 DEF PacingInv, TypeOK
<1>6. answer' \in {"TRUE", "FALSE"}
    BY DEF PollFetching, Result
<1>7. TypeOK'
    BY <1>1, <1>2, <1>3, <1>5, <1>6
       DEF PacingInv, TypeOK, PollFetching, prefs, server
<1> QED BY <1>4, <1>7 DEF PacingInv

(* A limited poll counts on both sides of the account. *)
LEMMA LimitKeepsPacing ==
    ASSUME PacingInv, PollLimited
    PROVE  PacingInv'
<1> USE TickAssumption, IntervalAssumption
<1>1. /\ count \in Int /\ count < 0 /\ since \in Nat
      /\ Tick \in Nat \ {0} /\ charged \in Nat
    BY DEF PacingInv, TypeOK, PollLimited
<1>2. count' = count + Tick /\ since' = since + 1 /\ charged' = charged
    BY DEF PollLimited
<1>3. charged # 0
    BY <1>1 DEF PacingInv, CreditIsBounded
<1>4. Tick * (since + 1) = Tick * since + Tick /\ Tick * since \in Nat
    BY <1>1
<1>5. CreditIsBounded'
    BY <1>1, <1>2, <1>3, <1>4 DEF PacingInv, CreditIsBounded
<1>6. answer' \in {"TRUE", "FALSE"}
    BY DEF PollLimited, Result
<1>7. TypeOK'
    BY <1>1, <1>2, <1>6 DEF PacingInv, TypeOK, PollLimited, prefs, server
<1> QED BY <1>5, <1>7 DEF PacingInv

(* Every other step leaves the account alone. *)
LEMMA PacingStep == PacingInv /\ [Next]_vars => PacingInv'
<1> SUFFICES ASSUME PacingInv, [Next]_vars
             PROVE  PacingInv'
    OBVIOUS
<1> USE DEF PacingInv
<1>1. CASE UNCHANGED <<count, charged, since>>
    <2>1. CreditIsBounded'
        BY <1>1 DEF CreditIsBounded
    <2>2. count' \in Int /\ count' < Tick /\ since' \in Nat
          /\ charged' \in Interval \cup {0}
        BY <1>1 DEF TypeOK
    <2> SUFFICES TypeOK'
        BY <2>1
    <2>3. CASE PollUnnamed
        BY <2>2, <2>3 DEF TypeOK, PollUnnamed, prefs, server
    <2>4. ASSUME NEW s \in Slot, Fetched(s)
          PROVE  TypeOK'
        <3>1. flight[s].line \in Line
            BY <2>4 DEF TypeOK, Fetched, Download, Free
        <3> QED BY <2>2, <2>4, <3>1
            DEF TypeOK, Fetched, Received, prefs, server, Download
    <2>5. ASSUME NEW s \in Slot, FetchFailed(s)
          PROVE  TypeOK'
        BY <2>2, <2>5
           DEF TypeOK, FetchFailed, Received, prefs, server, Download, Line
    <2>6. ASSUME NEW s \in Slot, Answered(s)
          PROVE  TypeOK'
        <3>1. flight[s].of \in User /\ flight[s] \in Download
            BY <2>6 DEF TypeOK, Answered, Download, Free
        <3>2. [state |-> "answered", of |-> flight[s].of,
               line |-> feed[flight[s].of]] \in Download
            BY <3>1 DEF TypeOK, Download
        <3>3. flight' \in [Slot -> Download]
            BY <2>6, <3>2 DEF TypeOK, Answered
        <3> QED BY <2>2, <2>6, <3>3 DEF TypeOK, Answered, prefs, server
    <2>7. ASSUME NEW u \in User, NEW x \in Scrobble, Scrobbled(u, x)
          PROVE  TypeOK'
        BY <2>2, <2>7 DEF TypeOK, Scrobbled, prefs, Line
    <2>8. ASSUME NEW x \in Scrobble, Ages(x)
          PROVE  TypeOK'
        BY <2>2, <2>8 DEF TypeOK, Ages, prefs
    <2>9. ASSUME NEW u \in User \cup {NoUser}, UserChanged(u)
          PROVE  TypeOK'
        BY <2>2, <2>9 DEF TypeOK, UserChanged, server
    <2>10. ASSUME NEW i \in Interval, IntervalChanged(i)
           PROVE  TypeOK'
        BY <2>2, <2>10 DEF TypeOK, IntervalChanged, server
    <2>11. ASSUME NEW fresh \in SUBSET Scrobble, QuietChanged(fresh)
           PROVE  TypeOK'
        BY <2>2, <2>11 DEF TypeOK, QuietChanged, prefs
    <2>12. CASE UNCHANGED vars
        BY <2>2, <2>12 DEF TypeOK, vars
    <2>13. CASE PollLimited
        BY LimitKeepsPacing, <2>13
    <2>14. CASE PollFetching
        BY FetchKeepsPacing, <2>14
    <2> QED BY <2>3, <2>4, <2>5, <2>6, <2>7, <2>8, <2>9, <2>10, <2>11,
               <2>12, <2>13, <2>14 DEF Next, Poll
<1>2. CASE PollLimited
    BY LimitKeepsPacing, <1>2
<1>3. CASE PollFetching
    BY FetchKeepsPacing, <1>3
<1> QED
    BY <1>1, <1>2, <1>3
       DEF Next, Poll, PollUnnamed, Fetched, FetchFailed, Answered,
           Scrobbled, Ages, UserChanged, IntervalChanged, QuietChanged, vars

(* The rate limit's counter is right in every reachable state. *)
THEOREM CreditCorrect == Spec => []CreditIsBounded
<1>1. PacingInv => CreditIsBounded
    BY DEF PacingInv
<1> QED BY PacingInit, PacingStep, <1>1, PTL DEF Spec

(* Only a fetching poll takes a slot. *)
LEMMA OnlyPollsDownload ==
    ASSUME PacingInv, Next, Downloads
    PROVE  PollFetching
<1>1. PICK s \in Slot : flight[s] = Free /\ flight'[s] # Free
    BY DEF Downloads
<1>2. flight' # flight
    BY <1>1
<1>3. ASSUME NEW t \in Slot, Fetched(t) \/ FetchFailed(t)
      PROVE  FALSE
    <2>1. flight' = [flight EXCEPT ![t] = Free]
        BY <1>3 DEF Fetched, FetchFailed
    <2> QED BY <1>1, <2>1 DEF PacingInv, TypeOK
<1>4. ASSUME NEW t \in Slot, Answered(t)
      PROVE  FALSE
    <2>1. flight[t].state = "asked"
        BY <1>4 DEF Answered
    <2>2. t # s
        BY <1>1, <2>1 DEF Free
    <2>3. flight'[s] = flight[s]
        BY <1>4, <2>2 DEF Answered, PacingInv, TypeOK
    <2> QED BY <1>1, <2>3
<1> QED
    BY <1>2, <1>3, <1>4
       DEF Next, Poll, PollUnnamed, PollLimited, Scrobbled, Ages,
           UserChanged, IntervalChanged, QuietChanged

(* Two downloads are one charged interval apart, to within one tick. *)
THEOREM DownloadsPaced == Spec => FetchesArePaced
<1>1. ASSUME PacingInv, [Next]_vars
      PROVE  [Downloads /\ charged # 0 =>
                 /\ Tick * since - charged < Tick
                 /\ charged - Tick * since < Tick]_vars
    <2> SUFFICES ASSUME Next, Downloads, charged # 0
                 PROVE  /\ Tick * since - charged < Tick
                        /\ charged - Tick * since < Tick
        BY <1>1
    <2>1. PollFetching
        BY <1>1, OnlyPollsDownload
    <2>2. count >= 0 /\ count < Tick /\ count \in Int
        BY <1>1, <2>1 DEF PollFetching, PacingInv, TypeOK
    <2>3. Tick * since \in Int /\ charged \in Int /\ Tick \in Int
        BY <1>1, TickAssumption, IntervalAssumption DEF PacingInv, TypeOK
    <2> QED BY <1>1, <2>2, <2>3 DEF PacingInv, CreditIsBounded
<1> QED BY PacingInit, PacingStep, <1>1, PTL DEF Spec, FetchesArePaced

(* Every variable stays in its type; in particular the counter never saves *)
(* up more than one download.                                              *)
THEOREM TypeCorrect == Spec => []TypeOK
<1>1. PacingInv => TypeOK
    BY DEF PacingInv
<1> QED BY PacingInit, PacingStep, <1>1, PTL DEF Spec
=============================================================================
