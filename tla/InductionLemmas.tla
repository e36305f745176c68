-------------------------- MODULE InductionLemmas --------------------------
(***************************************************************************)
(* Facts about least and greatest numbers, and from them what the proofs   *)
(* about texts need: induction from the end of a text, and that a function *)
(* exists which is defined by what it is further on.                       *)
(***************************************************************************)
EXTENDS FiniteSetsExt, Sequences, TLAPS, WellFoundedInduction, SequenceTheorems

(* A set of numbers has a least.                                           *)
LEMMA LeastIs ==
  ASSUME NEW S \in SUBSET Nat, S # {}
  PROVE  \E x \in S : \A y \in S : x =< y
  <1> DEFINE R == {ss \in Nat \X Nat : ss[1] < ss[2]}
  <1>1. IsWellFoundedOn(R, Nat)
    BY NatLessThanWellFounded DEF OpToRel
  <1>2. PICK x \in S : \A y \in S : ~(<<y, x>> \in R)
    <2> HIDE DEF R
    <2> QED
      BY <1>1, WFMin
  <1>3. \A y \in S : y < x => <<y, x>> \in R
    <2> TAKE y \in S
    <2>1. <<y, x>> \in Nat \X Nat
      OBVIOUS
    <2>2. <<y, x>>[1] = y /\ <<y, x>>[2] = x
      OBVIOUS
    <2> QED
      BY <2>1, <2>2
  <1> HIDE DEF R
  <1>4. \A y \in S : ~(y < x)
    BY <1>2, <1>3
  <1>5. \A y \in S : x =< y
    BY <1>4
  <1> QED
    BY <1>5

LEMMA Least ==
  ASSUME NEW S \in SUBSET Nat, S # {}
  PROVE  Min(S) \in S /\ \A x \in S : Min(S) =< x
  BY LeastIs DEF Min

(* The greatest leaves the least distance to the bound.                    *)
LEMMA Greatest ==
  ASSUME NEW n \in Nat, NEW S \in SUBSET (0 .. n), S # {}
  PROVE  Max(S) \in S /\ \A x \in S : Max(S) >= x
  <1> DEFINE D == {n - x : x \in S}
  <1>1. D \in SUBSET Nat /\ D # {}
    OBVIOUS
  <1>2. Min(D) \in D /\ \A d \in D : Min(D) =< d
    <2> HIDE DEF D
    <2> QED
      BY <1>1, Least
  <1>3. PICK m \in S : Min(D) = n - m
    BY <1>2
  <1>4. \A x \in S : n - x \in D /\ x \in Nat
    OBVIOUS
  <1> HIDE DEF D
  <1>5. \A x \in S : n - m =< n - x
    BY <1>2, <1>3, <1>4
  <1>6. \A x \in S : m >= x
    BY <1>4, <1>5
  <1> QED
    BY <1>6 DEF Max

-----------------------------------------------------------------------------
(* What holds of a place if it holds of all behind it, holds of all.       *)
LEMMA FromTheEnd ==
  ASSUME NEW lo \in Nat, NEW n \in Nat, NEW Good,
         \A i \in lo .. n : (\A j \in (i + 1) .. n : j \in Good) => i \in Good
  PROVE  \A i \in lo .. n : i \in Good
  <1> DEFINE Bad == {i \in lo .. n : i \notin Good}
  <1> SUFFICES ASSUME Bad # {} PROVE FALSE
    OBVIOUS
  <1>1. Bad \in SUBSET (0 .. n)
    OBVIOUS
  <1>2. PICK m \in Bad : \A x \in Bad : m >= x
    <2> HIDE DEF Bad
    <2> QED
      BY <1>1, Greatest
  <1>3. \A j \in (m + 1) .. n : j \in Good
    BY <1>2
  <1> QED
    BY <1>2, <1>3

(* A function that is defined by its values further on exists: each value  *)
(* is a text, or a piece of text in front of the value at a later place.   *)
Continues(out, lo, n, stop, base, head, next) ==
    out = [i \in lo .. n |-> IF i \in stop THEN base[i]
                             ELSE head[i] \o out[next[i]]]

LEMMA RecursionFromTheEnd ==
  ASSUME NEW lo \in Nat, NEW n \in Nat, NEW stop, NEW base, NEW head, NEW next,
         \A i \in lo .. n : i \notin stop => next[i] \in (i + 1) .. n,
         lo =< n
  PROVE  \E out : Continues(out, lo, n, stop, base, head, next)
  <1> DEFINE Good == {i \in lo .. n :
                        \E out : Continues(out, i, n, stop, base, head, next)}
  <1>1. ASSUME NEW i \in lo .. n, \A j \in (i + 1) .. n : j \in Good
        PROVE  i \in Good
    <2>1. \E g : Continues(g, i + 1, n, stop, base, head, next)
      <3>1. CASE i = n
        <4>1. (i + 1) .. n = {}
          BY <3>1
        <4> DEFINE g == [j \in (i + 1) .. n |-> <<>>]
        <4>2. Continues(g, i + 1, n, stop, base, head, next)
          BY <4>1 DEF Continues
        <4> QED
          BY <4>2
      <3>2. CASE i # n
        <4>1. i + 1 \in (i + 1) .. n
          BY <3>2
        <4> QED
          BY <1>1, <4>1
      <3> QED
        BY <3>1, <3>2
    <2>2. PICK g : Continues(g, i + 1, n, stop, base, head, next)
      BY <2>1
    <2> DEFINE v == IF i \in stop THEN base[i] ELSE head[i] \o g[next[i]]
               out == [j \in i .. n |-> IF j = i THEN v ELSE g[j]]
    <2>3. \A j \in (i + 1) .. n : j \in i .. n /\ j # i /\ out[j] = g[j]
      OBVIOUS
    <2>4. ASSUME NEW j \in i .. n
          PROVE  out[j] = IF j \in stop THEN base[j] ELSE head[j] \o out[next[j]]
      <3>0. j \in lo .. n
        OBVIOUS
      <3>1. j \notin stop => next[j] \in (i + 1) .. n
        BY <3>0
      <3>2. CASE j = i
        BY <2>3, <3>1, <3>2
      <3>3. CASE j # i
        <4>1. j \in (i + 1) .. n
          BY <3>3
        <4>2. g[j] = IF j \in stop THEN base[j] ELSE head[j] \o g[next[j]]
          BY <2>2, <4>1 DEF Continues
        <4> HIDE DEF out
        <4> QED
          BY <2>3, <3>1, <4>1, <4>2
      <3> QED
        BY <3>2, <3>3
    <2>5. Continues(out, i, n, stop, base, head, next)
      <3>1. out = [j \in i .. n |-> out[j]]
        OBVIOUS
      <3> HIDE DEF out
      <3> QED
        BY <2>4, <3>1 DEF Continues
    <2> QED
      BY <2>5
  <1>2. lo \in Good
    <2>1. \A i \in lo .. n : i \in Good
      <3> HIDE DEF Good
      <3> QED
        BY <1>1, FromTheEnd
    <2> QED
      BY <2>1
  <1> QED
    BY <1>2

(* If the pieces are texts, so are the values.                             *)
LEMMA RecursionType ==
  ASSUME NEW lo \in Nat, NEW n \in Nat, NEW stop, NEW base, NEW head, NEW next,
         NEW S, NEW out, Continues(out, lo, n, stop, base, head, next),
         \A i \in lo .. n : IF i \in stop THEN base[i] \in Seq(S)
                            ELSE head[i] \in Seq(S) /\ next[i] \in (i + 1) .. n
  PROVE  \A i \in lo .. n : out[i] \in Seq(S)
  <1> DEFINE Good == {i \in lo .. n : out[i] \in Seq(S)}
  <1>1. ASSUME NEW i \in lo .. n, \A j \in (i + 1) .. n : j \in Good
        PROVE  i \in Good
    <2>1. out[i] = IF i \in stop THEN base[i] ELSE head[i] \o out[next[i]]
      BY DEF Continues
    <2>2. CASE i \in stop
      BY <2>1, <2>2
    <2>3. CASE i \notin stop
      <3>1. out[next[i]] \in Seq(S) /\ head[i] \in Seq(S)
        BY <1>1, <2>3
      <3>2. head[i] \o out[next[i]] \in Seq(S)
        BY <3>1, ConcatProperties
      <3> QED
        BY <2>1, <2>3, <3>2
    <2> QED
      BY <2>2, <2>3
  <1>2. \A i \in lo .. n : i \in Good
    <2> HIDE DEF Good
    <2> QED
      BY <1>1, FromTheEnd
  <1> QED
    BY <1>2
=============================================================================
