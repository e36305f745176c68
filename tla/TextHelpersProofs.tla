------------------------- MODULE TextHelpersProofs -------------------------
(***************************************************************************)
(* Theorems about the string functions, for any texts.  Each of them goes  *)
(* through a text once; what holds of what it makes of the end of a text   *)
(* is shown from there to its beginning.                                   *)
(***************************************************************************)
EXTENDS TextHelpers, InductionLemmas

(* Short texts are texts.                                                  *)
LEMMA OneCharacter ==
  ASSUME NEW T, NEW a \in T
  PROVE  <<a>> \in Seq(T) /\ Len(<<a>>) = 1 /\ <<a>>[1] = a
  OBVIOUS

LEMMA TwoCharacters ==
  ASSUME NEW T, NEW a \in T, NEW b \in T
  PROVE  /\ <<a, b>> \in Seq(T) /\ Len(<<a, b>>) = 2
         /\ <<a, b>>[1] = a /\ <<a, b>>[2] = b
  OBVIOUS

LEMMA ThreeCharacters ==
  ASSUME NEW T, NEW a \in T, NEW b \in T, NEW c \in T
  PROVE  /\ <<a, b, c>> \in Seq(T) /\ Len(<<a, b, c>>) = 3
         /\ <<a, b, c>>[1] = a /\ <<a, b, c>>[2] = b /\ <<a, b, c>>[3] = c
  OBVIOUS

LEMMA InFrontOfTwo ==
  ASSUME NEW T, NEW a \in T, NEW b \in T, NEW c \in T
  PROVE  <<a>> \o <<b, c>> = <<a, b, c>>
  <1> DEFINE s == <<a>> \o <<b, c>>
             t == <<a, b, c>>
             two == <<b, c>>
             one == <<a>>
  <1>1. one \in Seq(T) /\ Len(one) = 1 /\ one[1] = a
    BY OneCharacter
  <1>2. two \in Seq(T) /\ Len(two) = 2 /\ two[1] = b /\ two[2] = c
    BY TwoCharacters
  <1>3. t \in Seq(T) /\ Len(t) = 3 /\ t[1] = a /\ t[2] = b /\ t[3] = c
    BY ThreeCharacters
  <1>4. /\ one \o two \in Seq(T) /\ Len(one \o two) = Len(one) + Len(two)
        /\ \A i \in 1 .. Len(one) + Len(two) :
              (one \o two)[i] = IF i <= Len(one) THEN one[i] ELSE two[i - Len(one)]
    <2> HIDE DEF one, two
    <2> QED
      BY <1>1, <1>2, ConcatProperties
  <1>5. s = one \o two
    OBVIOUS
  <1> HIDE DEF one, two, s, t
  <1>6. \A i \in 1 .. 3 : s[i] = IF i <= 1 THEN one[i] ELSE two[i - 1]
    BY <1>1, <1>2, <1>4, <1>5
  <1>7. s[1] = a /\ s[2] = b /\ s[3] = c
    BY <1>1, <1>2, <1>6
  <1>8. s \in Seq(T) /\ Len(s) = 3
    BY <1>1, <1>2, <1>4, <1>5
  <1>9. \A i \in 1 .. Len(s) : s[i] = t[i]
    BY <1>3, <1>7, <1>8
  <1>10. s = t
    BY <1>3, <1>8, <1>9, SeqEqual
  <1> QED
    BY <1>10 DEF s, t

(* put_field(): what it writes from each place on.                         *)
WritesFrom(out, buf, id, field) ==
    \A i \in 0 .. Len(buf) :
        /\ i + 1 >= Len(buf) =>
              out[i] = <<IF i < Len(buf) THEN buf[i + 1] ELSE Nul>>
        /\ i + 1 < Len(buf) /\ FieldAt(buf, id, i) => out[i] = field \o out[i + 2]
        /\ i + 1 < Len(buf) /\ ~FieldAt(buf, id, i) =>
              out[i] = <<buf[i + 1]>> \o out[i + 1]

LEMMA WrittenFrom ==
  ASSUME NEW T, NEW buf \in Seq(T), NEW id, NEW field \in Seq(T), Nul \in T
  PROVE  \E out : /\ WritesFrom(out, buf, id, field)
                  /\ \A i \in 0 .. Len(buf) : out[i] \in Seq(T)
                  /\ Written(buf, id, field) = out[0]
  <1> DEFINE n == Len(buf)
             Body(out, i) ==
                 IF i + 1 >= Len(buf)
                 THEN <<IF i < Len(buf) THEN buf[i + 1] ELSE Nul>>
                 ELSE IF FieldAt(buf, id, i) THEN field \o out[i + 2]
                 ELSE <<buf[i + 1]>> \o out[i + 1]
             stop == {i \in 0 .. n : i + 1 >= n}
             base == [i \in 0 .. n |-> <<IF i < n THEN buf[i + 1] ELSE Nul>>]
             head == [i \in 0 .. n |-> IF FieldAt(buf, id, i) THEN field
                                       ELSE <<buf[i + 1]>>]
             next == [i \in 0 .. n |-> IF FieldAt(buf, id, i) THEN i + 2
                                       ELSE i + 1]
  <1>1. n \in Nat /\ \A i \in 1 .. n : buf[i] \in T
    BY LenProperties, ElementOfSeq
  <1>2. \A i \in 0 .. n : i \notin stop => next[i] \in (i + 1) .. n
    BY <1>1 DEF FieldAt
  <1>3. \A i \in 0 .. n : IF i \in stop THEN base[i] \in Seq(T)
                          ELSE head[i] \in Seq(T) /\ next[i] \in (i + 1) .. n
    BY <1>1, <1>2
  <1>4. ASSUME NEW out
        PROVE  Continues(out, 0, n, stop, base, head, next)
                  <=> out = [i \in 0 .. n |-> Body(out, i)]
    <2>1. ASSUME NEW i \in 0 .. n
          PROVE  (IF i \in stop THEN base[i] ELSE head[i] \o out[next[i]])
                    = Body(out, i)
      BY <1>1 DEF FieldAt
    <2>2. [i \in 0 .. n |-> IF i \in stop THEN base[i]
                           ELSE head[i] \o out[next[i]]]
            = [i \in 0 .. n |-> Body(out, i)]
      <3> HIDE DEF Body, stop, base, head, next
      <3> QED
        BY <2>1, Zenon
    <2> HIDE DEF Body, stop, base, head, next
    <2> QED
      BY <2>2 DEF Continues
  <1>5. \E out : Continues(out, 0, n, stop, base, head, next)
    <2>1. 0 \in Nat /\ n \in Nat /\ 0 =< n
      BY <1>1
    <2> HIDE DEF n, stop, base, head, next
    <2> QED
      BY <1>2, <2>1, RecursionFromTheEnd, Zenon
  <1> DEFINE W == CHOOSE out : out = [i \in 0 .. Len(buf) |-> Body(out, i)]
  <1>6. W = [i \in 0 .. n |-> Body(W, i)]
    <2> HIDE DEF Body, stop, base, head, next
    <2> QED
      BY <1>4, <1>5
  <1>7. Written(buf, id, field) = W[0]
    BY DEF Written
  <1>8. Continues(W, 0, n, stop, base, head, next)
    <2> HIDE DEF Body, W, stop, base, head, next
    <2> QED
      BY <1>4, <1>6
  <1>9. \A i \in 0 .. n : W[i] \in Seq(T)
    <2> HIDE DEF W, stop, base, head, next
    <2> QED
      BY <1>1, <1>3, <1>8, RecursionType
  <1>10. WritesFrom(W, buf, id, field)
    <2>1. \A i \in 0 .. n : W[i] = Body(W, i)
      <3> HIDE DEF Body, W
      <3> QED
        BY <1>6
    <2>2. ASSUME NEW i \in 0 .. n, NEW v, v = W[i]
          PROVE  /\ i + 1 >= Len(buf) =>
                       v = <<IF i < Len(buf) THEN buf[i + 1] ELSE Nul>>
                 /\ i + 1 < Len(buf) /\ FieldAt(buf, id, i) =>
                       v = field \o W[i + 2]
                 /\ i + 1 < Len(buf) /\ ~FieldAt(buf, id, i) =>
                       v = <<buf[i + 1]>> \o W[i + 1]
      <3>1. i + 1 >= Len(buf) <=> ~(i + 1 < Len(buf))
        BY <1>1
      <3>2. v = Body(W, i)
        BY <2>1, <2>2
      <3> HIDE DEF W, n
      <3> QED
        BY <3>1, <3>2, Zenon
    <2> HIDE DEF W
    <2> QED
      BY <2>2 DEF WritesFrom
  <1> HIDE DEF W
  <1> QED
    BY <1>7, <1>9, <1>10

(* The index of put_field() goes over a field and never beyond the end.    *)
LengthsFrom(out, buf, id, field) ==
    \A i \in 0 .. Len(buf) :
        /\ i + 1 >= Len(buf) => Len(out[i]) = 1
        /\ i + 1 < Len(buf) /\ FieldAt(buf, id, i) =>
              Len(out[i]) = Len(field) + Len(out[i + 2])
        /\ i + 1 < Len(buf) /\ ~FieldAt(buf, id, i) =>
              Len(out[i]) = 1 + Len(out[i + 1])

LEMMA WrittenLengths ==
  ASSUME NEW T, NEW buf \in Seq(T), NEW id, NEW field \in Seq(T), Nul \in T,
         NEW out, WritesFrom(out, buf, id, field),
         \A i \in 0 .. Len(buf) : out[i] \in Seq(T)
  PROVE  LengthsFrom(out, buf, id, field)
  <1> SUFFICES ASSUME NEW i \in 0 .. Len(buf)
               PROVE
        /\ i + 1 >= Len(buf) => Len(out[i]) = 1
        /\ i + 1 < Len(buf) /\ FieldAt(buf, id, i) =>
              Len(out[i]) = Len(field) + Len(out[i + 2])
        /\ i + 1 < Len(buf) /\ ~FieldAt(buf, id, i) =>
              Len(out[i]) = 1 + Len(out[i + 1])
    BY DEF LengthsFrom
  <1>1. Len(buf) \in Nat /\ Len(field) \in Nat
    BY LenProperties
  <1>2. CASE i + 1 >= Len(buf)
    <2>1. out[i] = <<IF i < Len(buf) THEN buf[i + 1] ELSE Nul>>
      BY <1>2 DEF WritesFrom
    <2> QED
      BY <1>2, <2>1
  <1>3. CASE i + 1 < Len(buf) /\ FieldAt(buf, id, i)
    <2>1. i + 2 \in 0 .. Len(buf)
      BY <1>1, <1>3
    <2>2. out[i] = field \o out[i + 2]
      BY <1>1, <1>3 DEF WritesFrom, FieldAt
    <2>3. Len(field \o out[i + 2]) = Len(field) + Len(out[i + 2])
      BY <2>1, ConcatProperties
    <2> QED
      BY <1>1, <1>3, <2>2, <2>3
  <1>4. CASE i + 1 < Len(buf) /\ ~FieldAt(buf, id, i)
    <2>1. i + 1 \in 0 .. Len(buf) /\ i + 1 \in 1 .. Len(buf)
      BY <1>1, <1>4
    <2>2. out[i] = <<buf[i + 1]>> \o out[i + 1]
      BY <1>1, <1>4 DEF WritesFrom, FieldAt
    <2>3. <<buf[i + 1]>> \in Seq(T) /\ Len(<<buf[i + 1]>>) = 1
      BY <2>1, ElementOfSeq
    <2>4. Len(<<buf[i + 1]>> \o out[i + 1]) = 1 + Len(out[i + 1])
      BY <2>1, <2>3, ConcatProperties
    <2> QED
      BY <1>1, <1>4, <2>2, <2>4
  <1> QED
    BY <1>1, <1>2, <1>3, <1>4

(* The two passes of put_field() agree, for any buffer, directive and      *)
(* field: what the first counts is what the second writes (utils.c:121).   *)
THEOREM CountsWhatIsWritten ==
  ASSUME NEW T, NEW buf \in Seq(T), NEW id, NEW field \in Seq(T), Nul \in T
  PROVE  CountFor(buf, id, field) = Len(Written(buf, id, field))
  <1>1. PICK out : /\ WritesFrom(out, buf, id, field)
                   /\ \A i \in 0 .. Len(buf) : out[i] \in Seq(T)
                   /\ Written(buf, id, field) = out[0]
    BY WrittenFrom
  <1> DEFINE n == Len(buf)
             Body(c, i) == IF i + 1 >= Len(buf) THEN 0
                           ELSE IF FieldAt(buf, id, i) THEN Len(field) + c[i + 2]
                           ELSE 1 + c[i + 1]
             length == [i \in 0 .. n |-> Len(out[i]) - 1]
             C == CHOOSE c : c = [i \in 0 .. Len(buf) |-> Body(c, i)]
  <1>2. n \in Nat /\ Len(field) \in Nat /\ \A i \in 0 .. n : Len(out[i]) \in Nat
    BY <1>1, LenProperties
  <1>3. LengthsFrom(out, buf, id, field)
    BY <1>1, WrittenLengths
  <1>4. length = [i \in 0 .. n |-> Body(length, i)]
    <2>1. ASSUME NEW i \in 0 .. n
          PROVE  length[i] = Body(length, i)
      <3>1. i + 1 < n => i + 1 \in 0 .. n /\ i + 2 \in 0 .. n
        BY <1>2
      <3>2. \A j \in 0 .. n : length[j] = Len(out[j]) - 1
        OBVIOUS
      <3> HIDE DEF length
      <3>3. CASE i + 1 >= n
        <4>1. Len(out[i]) = 1
          BY <1>3, <3>3 DEF LengthsFrom
        <4>2. Body(length, i) = 0
          BY <3>3
        <4>3. length[i] = Len(out[i]) - 1
          BY <3>2
        <4>4. length[i] = 0
          BY <4>1, <4>3
        <4> HIDE DEF Body
        <4> QED
          BY <4>2, <4>4
      <3>4. CASE i + 1 < n /\ FieldAt(buf, id, i)
        <4>1. Len(out[i]) = Len(field) + Len(out[i + 2])
          BY <1>3, <3>4 DEF LengthsFrom
        <4>2. Body(length, i) = Len(field) + length[i + 2]
          BY <1>2, <3>4
        <4>3. length[i] = Len(out[i]) - 1 /\ length[i + 2] = Len(out[i + 2]) - 1
          BY <1>2, <3>1, <3>2, <3>4
        <4>4. Len(out[i + 2]) \in Nat
          BY <1>2, <3>1, <3>4
        <4> HIDE DEF Body
        <4> QED
          BY <1>2, <4>1, <4>2, <4>3, <4>4
      <3>5. CASE i + 1 < n /\ ~FieldAt(buf, id, i)
        <4>1. Len(out[i]) = 1 + Len(out[i + 1])
          BY <1>3, <3>5 DEF LengthsFrom
        <4>2. Body(length, i) = 1 + length[i + 1]
          BY <1>2, <3>5
        <4>3. length[i] = Len(out[i]) - 1 /\ length[i + 1] = Len(out[i + 1]) - 1
          BY <1>2, <3>1, <3>2, <3>5
        <4>4. Len(out[i + 1]) \in Nat
          BY <1>2, <3>1, <3>5
        <4> HIDE DEF Body
        <4> QED
          BY <1>2, <4>1, <4>2, <4>3, <4>4
      <3> QED
        BY <1>2, <3>3, <3>4, <3>5
    <2>2. length = [i \in 0 .. n |-> length[i]]
      OBVIOUS
    <2>3. [i \in 0 .. n |-> length[i]] = [i \in 0 .. n |-> Body(length, i)]
      <3> HIDE DEF Body, length
      <3> QED
        BY <2>1, Zenon
    <2> HIDE DEF Body, length
    <2> QED
      BY <2>2, <2>3
  <1>5. C = [i \in 0 .. n |-> Body(C, i)]
    <2> HIDE DEF Body, length
    <2> QED
      BY <1>4
  <1>6. CountFor(buf, id, field) = C[0] + 1
    BY DEF CountFor
  <1> DEFINE Good == {i \in 0 .. n : C[i] = length[i]}
  <1>7. ASSUME NEW i \in 0 .. n, \A j \in (i + 1) .. n : j \in Good
        PROVE  i \in Good
    <2>1. C[i] = Body(C, i)
      <3> HIDE DEF Body, C
      <3> QED
        BY <1>5
    <2>2. length[i] = Body(length, i)
      <3> HIDE DEF Body, length
      <3> QED
        BY <1>4
    <2>3. i + 1 < n => /\ i + 1 \in (i + 1) .. n /\ i + 2 \in (i + 1) .. n
                       /\ C[i + 1] = length[i + 1] /\ C[i + 2] = length[i + 2]
      <3> HIDE DEF C, length
      <3> QED
        BY <1>2, <1>7
    <2>4. Body(C, i) = Body(length, i)
      <3> HIDE DEF C, length
      <3> QED
        BY <1>2, <2>3
    <2> HIDE DEF Body, C, length
    <2> QED
      BY <2>1, <2>2, <2>4
  <1>8. \A i \in 0 .. n : i \in Good
    <2> HIDE DEF Good
    <2> QED
      BY <1>2, <1>7, FromTheEnd
  <1>9. C[0] = Len(out[0]) - 1
    <2>1. 0 \in 0 .. n
      BY <1>2
    <2>2. C[0] = length[0]
      <3> HIDE DEF C, length
      <3> QED
        BY <1>8, <2>1
    <2> HIDE DEF C
    <2> QED
      BY <2>1, <2>2
  <1>10. Len(out[0]) \in Nat
    BY <1>2
  <1> HIDE DEF C, length
  <1> QED
    BY <1>1, <1>6, <1>9, <1>10

-----------------------------------------------------------------------------
(* str_replace(): what it makes of the text from each place on.            *)
ReplacesFrom(out, str, old, new) ==
    /\ out[Len(str) + 1] = <<>>
    /\ \A i \in 1 .. Len(str) :
          /\ StandsAt(str, old, i) => out[i] = new \o out[i + Len(old)]
          /\ ~StandsAt(str, old, i) => out[i] = <<str[i]>> \o out[i + 1]

LEMMA ReplacedFrom ==
  ASSUME NEW T, NEW str \in Seq(T), NEW old \in Seq(T), NEW new \in Seq(T),
         Len(old) >= 1
  PROVE  \E out : /\ ReplacesFrom(out, str, old, new)
                  /\ \A i \in 1 .. Len(str) + 1 : out[i] \in Seq(T)
                  /\ Replace(str, old, new) = out[1]
  <1> DEFINE n == Len(str) + 1
             Body(out, i) ==
                 IF i > Len(str) THEN <<>>
                 ELSE IF StandsAt(str, old, i) THEN new \o out[i + Len(old)]
                 ELSE <<str[i]>> \o out[i + 1]
             stop == {i \in 1 .. n : i > Len(str)}
             base == [i \in 1 .. n |-> <<>>]
             head == [i \in 1 .. n |-> IF StandsAt(str, old, i) THEN new
                                       ELSE <<str[i]>>]
             next == [i \in 1 .. n |-> IF StandsAt(str, old, i)
                                       THEN i + Len(old) ELSE i + 1]
  <1>1. /\ Len(str) \in Nat /\ Len(old) \in Nat \ {0}
        /\ \A i \in 1 .. Len(str) : str[i] \in T
    BY LenProperties, ElementOfSeq
  <1>2. \A i \in 1 .. n : i \notin stop => next[i] \in (i + 1) .. n
    BY <1>1 DEF StandsAt
  <1>3. \A i \in 1 .. n : IF i \in stop THEN base[i] \in Seq(T)
                          ELSE head[i] \in Seq(T) /\ next[i] \in (i + 1) .. n
    BY <1>1, <1>2, EmptySeq
  <1>4. ASSUME NEW out
        PROVE  Continues(out, 1, n, stop, base, head, next)
                  <=> out = [i \in 1 .. n |-> Body(out, i)]
    <2>1. ASSUME NEW i \in 1 .. n
          PROVE  (IF i \in stop THEN base[i] ELSE head[i] \o out[next[i]])
                    = Body(out, i)
      BY <1>1 DEF StandsAt
    <2>2. [i \in 1 .. n |-> IF i \in stop THEN base[i]
                           ELSE head[i] \o out[next[i]]]
            = [i \in 1 .. n |-> Body(out, i)]
      <3> HIDE DEF Body, stop, base, head, next
      <3> QED
        BY <2>1, Zenon
    <2> HIDE DEF Body, stop, base, head, next
    <2> QED
      BY <2>2 DEF Continues
  <1>5. \E out : Continues(out, 1, n, stop, base, head, next)
    <2>1. 1 \in Nat /\ n \in Nat /\ 1 =< n
      BY <1>1
    <2> HIDE DEF n, stop, base, head, next
    <2> QED
      BY <1>2, <2>1, RecursionFromTheEnd, Zenon
  <1> DEFINE R == CHOOSE out : out = [i \in 1 .. Len(str) + 1 |-> Body(out, i)]
  <1>6. R = [i \in 1 .. n |-> Body(R, i)]
    <2> HIDE DEF Body, stop, base, head, next
    <2> QED
      BY <1>4, <1>5
  <1>7. Replace(str, old, new) = R[1]
    BY DEF Replace
  <1>8. Continues(R, 1, n, stop, base, head, next)
    <2> HIDE DEF Body, R, stop, base, head, next
    <2> QED
      BY <1>4, <1>6
  <1>9. \A i \in 1 .. n : R[i] \in Seq(T)
    <2>1. 1 \in Nat /\ n \in Nat
      BY <1>1
    <2> HIDE DEF n, R, stop, base, head, next
    <2> QED
      BY <1>3, <1>8, <2>1, RecursionType
  <1>10. ReplacesFrom(R, str, old, new)
    <2>1. \A i \in 1 .. n : R[i] = Body(R, i)
      <3> HIDE DEF Body, R
      <3> QED
        BY <1>6
    <2>2. ASSUME NEW i \in 1 .. Len(str)
          PROVE  /\ StandsAt(str, old, i) => R[i] = new \o R[i + Len(old)]
                 /\ ~StandsAt(str, old, i) => R[i] = <<str[i]>> \o R[i + 1]
      <3>1. ~(i > Len(str)) /\ i \in 1 .. n
        BY <1>1
      <3>2. R[i] = Body(R, i)
        BY <2>1, <3>1
      <3> HIDE DEF R, n
      <3> QED
        BY <3>1, <3>2, Zenon
    <2>3. R[Len(str) + 1] = <<>>
      <3>1. Len(str) + 1 > Len(str) /\ Len(str) + 1 \in 1 .. n
        BY <1>1
      <3>2. R[Len(str) + 1] = Body(R, Len(str) + 1)
        <4> HIDE DEF Body, R
        <4> QED
          BY <2>1, <3>1
      <3> HIDE DEF R, n
      <3> QED
        BY <3>1, <3>2, Zenon
    <2> HIDE DEF R
    <2> QED
      BY <2>2, <2>3 DEF ReplacesFrom
  <1> HIDE DEF R
  <1> QED
    BY <1>7, <1>9, <1>10

(* urldecodestr(): the codes that stand at a place, *)
CodesAt(buf, Code, i) == {p \in DOMAIN Code : StandsAt(buf, <<"%">> \o p, i)}

(* and what it makes of the text from each place on.                       *)
DecodesFrom(out, buf, Code) ==
    /\ out[Len(buf) + 1] = <<>>
    /\ \A i \in 1 .. Len(buf) :
          /\ CodesAt(buf, Code, i) # {} =>
                out[i] = <<Code[CHOOSE p \in CodesAt(buf, Code, i) : TRUE]>> \o out[i + 3]
          /\ ~(CodesAt(buf, Code, i) # {}) =>
                out[i] = <<buf[i]>> \o out[i + 1]

LEMMA DecodedFrom ==
  ASSUME NEW T, NEW buf \in Seq(T), NEW Code, "%" \in T,
         \A p \in DOMAIN Code : p \in Seq(T) /\ Len(p) = 2 /\ Code[p] \in T
  PROVE  \E out : /\ DecodesFrom(out, buf, Code)
                  /\ \A i \in 1 .. Len(buf) + 1 : out[i] \in Seq(T)
                  /\ UrlDecode(buf, Code) = out[1]
  <1> DEFINE n == Len(buf) + 1
             Body(out, i) ==
                 IF i > Len(buf) THEN <<>>
                 ELSE IF CodesAt(buf, Code, i) # {}
                 THEN <<Code[CHOOSE p \in CodesAt(buf, Code, i) : TRUE]>> \o out[i + 3]
                 ELSE <<buf[i]>> \o out[i + 1]
             stop == {i \in 1 .. n : i > Len(buf)}
             base == [i \in 1 .. n |-> <<>>]
             head == [i \in 1 .. n |-> IF CodesAt(buf, Code, i) # {}
                                       THEN <<Code[CHOOSE p \in CodesAt(buf, Code, i) : TRUE]>>
                                       ELSE <<buf[i]>>]
             next == [i \in 1 .. n |-> IF CodesAt(buf, Code, i) # {}
                                       THEN i + 3 ELSE i + 1]
  <1>0. Len(buf) \in Nat /\ \A i \in 1 .. Len(buf) : buf[i] \in T
    BY LenProperties, ElementOfSeq
  <1>1. /\ Len(buf) \in Nat /\ \A i \in 1 .. Len(buf) : buf[i] \in T
        /\ \A i \in 1 .. n : CodesAt(buf, Code, i) # {} =>
               /\ i + 3 \in (i + 1) .. n
               /\ Code[CHOOSE p \in CodesAt(buf, Code, i) : TRUE] \in T
    <2>1. ASSUME NEW i \in 1 .. n, NEW p \in CodesAt(buf, Code, i)
          PROVE  i + 3 \in (i + 1) .. n /\ Code[p] \in T
      <3>1. p \in Seq(T) /\ Len(p) = 2 /\ Code[p] \in T
        BY DEF CodesAt
      <3>2. <<"%">> \in Seq(T) /\ Len(<<"%">>) = 1
        OBVIOUS
      <3>3. Len(<<"%">> \o p) = Len(<<"%">>) + Len(p)
        BY <3>1, <3>2, ConcatProperties, Zenon
      <3>4. i + 2 <= Len(buf)
        BY <3>1, <3>2, <3>3 DEF CodesAt, StandsAt
      <3> QED
        BY <1>0, <3>1, <3>4
    <2>2. ASSUME NEW i \in 1 .. n, CodesAt(buf, Code, i) # {}
          PROVE  (CHOOSE p \in CodesAt(buf, Code, i) : TRUE) \in CodesAt(buf, Code, i)
      BY <2>2
    <2> QED
      BY <1>0, <2>1, <2>2
  <1>2. \A i \in 1 .. n : i \notin stop => next[i] \in (i + 1) .. n
    BY <1>1
  <1>3. \A i \in 1 .. n : IF i \in stop THEN base[i] \in Seq(T)
                          ELSE head[i] \in Seq(T) /\ next[i] \in (i + 1) .. n
    BY <1>1, <1>2, EmptySeq
  <1>4. ASSUME NEW out
        PROVE  Continues(out, 1, n, stop, base, head, next)
                  <=> out = [i \in 1 .. n |-> Body(out, i)]
    <2>1. ASSUME NEW i \in 1 .. n
          PROVE  (IF i \in stop THEN base[i] ELSE head[i] \o out[next[i]])
                    = Body(out, i)
      BY <1>1
    <2>2. [i \in 1 .. n |-> IF i \in stop THEN base[i]
                           ELSE head[i] \o out[next[i]]]
            = [i \in 1 .. n |-> Body(out, i)]
      <3> HIDE DEF Body, stop, base, head, next
      <3> QED
        BY <2>1, Zenon
    <2> HIDE DEF Body, stop, base, head, next
    <2> QED
      BY <2>2 DEF Continues
  <1>5. \E out : Continues(out, 1, n, stop, base, head, next)
    <2>1. 1 \in Nat /\ n \in Nat /\ 1 =< n
      BY <1>1
    <2> HIDE DEF n, stop, base, head, next
    <2> QED
      BY <1>2, <2>1, RecursionFromTheEnd, Zenon
  <1> DEFINE R == CHOOSE out : out = [i \in 1 .. Len(buf) + 1 |-> Body(out, i)]
  <1>6. R = [i \in 1 .. n |-> Body(R, i)]
    <2> HIDE DEF Body, stop, base, head, next
    <2> QED
      BY <1>4, <1>5
  <1>7. UrlDecode(buf, Code) = R[1]
    BY DEF UrlDecode, CodesAt
  <1>8. Continues(R, 1, n, stop, base, head, next)
    <2> HIDE DEF Body, R, stop, base, head, next
    <2> QED
      BY <1>4, <1>6
  <1>9. \A i \in 1 .. n : R[i] \in Seq(T)
    <2>1. 1 \in Nat /\ n \in Nat
      BY <1>1
    <2> HIDE DEF n, R, stop, base, head, next
    <2> QED
      BY <1>3, <1>8, <2>1, RecursionType
  <1>10. DecodesFrom(R, buf, Code)
    <2>1. \A i \in 1 .. n : R[i] = Body(R, i)
      <3> HIDE DEF Body, R
      <3> QED
        BY <1>6
    <2>2. ASSUME NEW i \in 1 .. Len(buf)
          PROVE  /\ CodesAt(buf, Code, i) # {} =>
                       R[i] = <<Code[CHOOSE p \in CodesAt(buf, Code, i) : TRUE]>> \o R[i + 3]
                 /\ ~(CodesAt(buf, Code, i) # {}) =>
                       R[i] = <<buf[i]>> \o R[i + 1]
      <3>1. ~(i > Len(buf)) /\ i \in 1 .. n
        BY <1>1
      <3>2. R[i] = Body(R, i)
        BY <2>1, <3>1
      <3> HIDE DEF R, n
      <3> QED
        BY <3>1, <3>2, Zenon
    <2>3. R[Len(buf) + 1] = <<>>
      <3>1. Len(buf) + 1 > Len(buf) /\ Len(buf) + 1 \in 1 .. n
        BY <1>1
      <3>2. R[Len(buf) + 1] = Body(R, Len(buf) + 1)
        <4> HIDE DEF Body, R
        <4> QED
          BY <2>1, <3>1
      <3> HIDE DEF R, n
      <3> QED
        BY <3>1, <3>2, Zenon
    <2> HIDE DEF R
    <2> QED
      BY <2>2, <2>3 DEF DecodesFrom
  <1> HIDE DEF R
  <1> QED
    BY <1>7, <1>9, <1>10

-----------------------------------------------------------------------------
(* What the functions return are texts.                                    *)
LEMMA PartType ==
  ASSUME NEW T, NEW s \in Seq(T), NEW a \in Nat \ {0}, NEW b \in Int,
         b <= Len(s)
  PROVE  SubSeq(s, a, b) \in Seq(T)
  <1>1. Len(s) \in Nat /\ \A i \in 1 .. Len(s) : s[i] \in T
    BY LenProperties, ElementOfSeq
  <1>2. \A i \in a .. b : s[i] \in T
    BY <1>1
  <1> QED
    BY <1>2, SubSeqProperties

LEMMA TrimType ==
  ASSUME NEW T, NEW buf \in Seq(T)
  PROVE  Trim(buf) \in Seq(T)
  <1> DEFINE Kept == {i \in DOMAIN buf : buf[i] # " "}
  <1>1. Len(buf) \in Nat /\ DOMAIN buf = 1 .. Len(buf)
    BY LenProperties
  <1>2. CASE Kept = {}
    BY <1>2, EmptySeq DEF Trim
  <1>3. CASE Kept # {}
    <2>0. \A i \in Kept : i \in 1 .. Len(buf)
      BY <1>1
    <2>1. Kept \in SUBSET Nat /\ Kept \in SUBSET (0 .. Len(buf))
      <3> HIDE DEF Kept
      <3> QED
        BY <1>1, <2>0
    <2>2. Min(Kept) \in Kept /\ Max(Kept) \in Kept
      <3> HIDE DEF Kept
      <3> QED
        BY <1>1, <1>3, <2>1, Least, Greatest
    <2>3. Min(Kept) \in Nat \ {0} /\ Max(Kept) \in Int /\ Max(Kept) <= Len(buf)
      <3> HIDE DEF Kept
      <3> QED
        BY <1>1, <2>0, <2>2
    <2>4. SubSeq(buf, Min(Kept), Max(Kept)) \in Seq(T)
      BY <2>3, PartType
    <2> QED
      BY <1>3, <2>4 DEF Trim
  <1> QED
    BY <1>2, <1>3

(* What is left of a text that has been written: nothing is lost but what  *)
(* stands behind a Nul.                                                    *)
UpTo(w) ==
    LET out == Append(w, Nul)
    IN  SubSeq(out, 1, Min({j \in DOMAIN out : out[j] = Nul}) - 1)

LEMMA UpToNul ==
  ASSUME NEW T, Nul \notin T, NEW w \in Seq(T \cup {Nul})
  PROVE  \E m \in 1 .. Len(w) + 1 :
             /\ UpTo(w) \in Seq(T) /\ Len(UpTo(w)) = m - 1
             /\ \A j \in 1 .. m - 1 : w[j] # Nul /\ UpTo(w)[j] = w[j]
             /\ m <= Len(w) => w[m] = Nul
  <1> DEFINE A == T \cup {Nul}
             out == Append(w, Nul)
             Nuls == {j \in DOMAIN out : out[j] = Nul}
             m == Min(Nuls)
  <1>0. w \in Seq(A) /\ Nul \in A
    OBVIOUS
  <1>1. /\ out \in Seq(A) /\ Len(out) = Len(w) + 1 /\ Len(w) \in Nat
        /\ \A j \in 1 .. Len(w) : out[j] = w[j]
        /\ out[Len(w) + 1] = Nul
    <2> HIDE DEF A
    <2> QED
      BY <1>0, AppendProperties, LenProperties
  <1>2. DOMAIN out = 1 .. Len(w) + 1
    <2> HIDE DEF out, A
    <2> QED
      BY <1>1, LenProperties
  <1> HIDE DEF out
  <1>3. Nuls \in SUBSET Nat /\ Len(w) + 1 \in Nuls
    BY <1>1, <1>2
  <1>4. m \in Nuls /\ \A j \in Nuls : m =< j
    <2> HIDE DEF Nuls
    <2> QED
      BY <1>3, Least
  <1>5. m \in 1 .. Len(w) + 1 /\ out[m] = Nul
    BY <1>2, <1>4
  <1>6. \A j \in 1 .. m - 1 : w[j] # Nul
    <2> SUFFICES ASSUME NEW j \in 1 .. m - 1, w[j] = Nul PROVE FALSE
      OBVIOUS
    <2>1. j \in 1 .. Len(w) /\ j < m
      BY <1>1, <1>5
    <2>2. j \in Nuls
      BY <1>1, <1>2, <2>1
    <2> HIDE DEF Nuls
    <2> QED
      BY <1>4, <1>5, <2>1, <2>2
  <1>7. m <= Len(w) => w[m] = Nul
    <2> HIDE DEF m
    <2> QED
      BY <1>1, <1>5
  <1>8. \A j \in 1 .. m - 1 : out[j] = w[j] /\ out[j] \in T
    <2> HIDE DEF m
    <2> TAKE j \in 1 .. m - 1
    <2>1. j \in 1 .. Len(w)
      BY <1>1, <1>5
    <2>2. w[j] \in A
      <3> HIDE DEF A
      <3> QED
        BY <1>0, <2>1, ElementOfSeq
    <2> QED
      BY <1>1, <1>6, <2>1, <2>2
  <1>9. /\ SubSeq(out, 1, m - 1) \in Seq(T)
        /\ Len(SubSeq(out, 1, m - 1)) = m - 1
        /\ \A j \in 1 .. m - 1 : SubSeq(out, 1, m - 1)[j] = w[j]
    <2> HIDE DEF m
    <2>1. m - 1 \in Int /\ 1 \in Int /\ m - 1 - 1 + 1 = m - 1
      BY <1>1, <1>5
    <2>2. /\ SubSeq(out, 1, m - 1) \in Seq(T)
          /\ Len(SubSeq(out, 1, m - 1)) = IF 1 <= m - 1 THEN m - 1 - 1 + 1 ELSE 0
          /\ \A j \in 1 .. m - 1 - 1 + 1 : SubSeq(out, 1, m - 1)[j] = out[1 + j - 1]
      BY <1>8, <2>1, SubSeqProperties
    <2> QED
      BY <1>5, <1>8, <2>1, <2>2
  <1>10. UpTo(w) = SubSeq(out, 1, m - 1)
    BY DEF UpTo, out
  <1> HIDE DEF m
  <1> QED
    BY <1>5, <1>6, <1>7, <1>9, <1>10

LEMMA UpToConcat ==
  ASSUME NEW T, Nul \notin T, NEW a \in Seq(T), NEW w \in Seq(T \cup {Nul})
  PROVE  UpTo(a \o w) = a \o UpTo(w)
  <1> DEFINE A == T \cup {Nul}
             n == Len(a)
             aw == a \o w
  <1>1. /\ a \in Seq(A) /\ w \in Seq(A) /\ n \in Nat /\ Len(w) \in Nat
        /\ \A j \in 1 .. n : a[j] # Nul
    BY SeqMonotonic, LenProperties, ElementOfSeq
  <1>2. /\ aw \in Seq(A) /\ Len(aw) = n + Len(w)
        /\ \A j \in 1 .. n : aw[j] = a[j]
        /\ \A j \in 1 .. Len(w) : aw[n + j] = w[j]
    <2>1. /\ aw \in Seq(A) /\ Len(aw) = n + Len(w)
          /\ \A j \in 1 .. n + Len(w) : aw[j] = IF j <= n THEN a[j] ELSE w[j - n]
      <3> HIDE DEF A
      <3> QED
        BY <1>1, ConcatProperties
    <2> HIDE DEF aw, A
    <2>2. \A j \in 1 .. n : j \in 1 .. n + Len(w) /\ j <= n
      BY <1>1
    <2>4. ASSUME NEW j \in 1 .. Len(w) PROVE aw[n + j] = w[j]
      <3>1. n \in Nat /\ Len(w) \in Nat
        BY <1>1
      <3> HIDE DEF n
      <3>2. PICK x : x = n + j
        OBVIOUS
      <3>3. x \in 1 .. n + Len(w) /\ ~(x <= n) /\ x - n = j
        BY <3>1, <3>2
      <3>4. aw[x] = w[j]
        BY <2>1, <3>3
      <3> QED
        BY <3>2, <3>4, Zenon
    <2> QED
      BY <2>1, <2>2, <2>4
  <1> HIDE DEF aw
  <1>3. PICK m \in 1 .. Len(w) + 1 :
             /\ UpTo(w) \in Seq(T) /\ Len(UpTo(w)) = m - 1
             /\ \A j \in 1 .. m - 1 : w[j] # Nul /\ UpTo(w)[j] = w[j]
             /\ m <= Len(w) => w[m] = Nul
    BY UpToNul
  <1>4. PICK p \in 1 .. Len(aw) + 1 :
             /\ UpTo(aw) \in Seq(T) /\ Len(UpTo(aw)) = p - 1
             /\ \A j \in 1 .. p - 1 : aw[j] # Nul /\ UpTo(aw)[j] = aw[j]
             /\ p <= Len(aw) => aw[p] = Nul
    BY <1>2, UpToNul
  <1>5. p = n + m
    <2>1. CASE p <= n
      BY <1>1, <1>2, <1>4, <2>1
    <2>2. CASE n < p /\ p < n + m
      <3>1. p - n \in 1 .. m - 1 /\ p - n \in 1 .. Len(w) /\ p = n + (p - n)
        BY <1>1, <1>3, <2>2
      <3>2. aw[p] = w[p - n]
        BY <1>2, <3>1
      <3> QED
        BY <1>1, <1>2, <1>3, <1>4, <2>2, <3>1, <3>2
    <2>3. CASE n + m < p
      <3>1. m \in 1 .. Len(w) /\ n + m \in 1 .. p - 1
        BY <1>1, <1>2, <1>3, <2>3
      <3>2. w[m] = Nul
        BY <1>3, <3>1
      <3>3. aw[n + m] = w[m]
        BY <1>2, <3>1
      <3>4. aw[n + m] # Nul
        BY <1>4, <3>1
      <3> QED
        BY <3>2, <3>3, <3>4
    <2>4. p \in Nat /\ m \in Nat /\ n \in Nat
      BY <1>1, <1>2, <1>3, <1>4
    <2> HIDE DEF n
    <2> QED
      BY <2>1, <2>2, <2>3, <2>4
  <1>6. /\ a \o UpTo(w) \in Seq(T) /\ Len(a \o UpTo(w)) = n + (m - 1)
        /\ \A j \in 1 .. n + (m - 1) :
              (a \o UpTo(w))[j] = IF j <= n THEN a[j] ELSE UpTo(w)[j - n]
    <2>1. /\ a \o UpTo(w) \in Seq(T) /\ Len(a \o UpTo(w)) = Len(a) + Len(UpTo(w))
          /\ \A j \in 1 .. Len(a) + Len(UpTo(w)) :
                (a \o UpTo(w))[j] = IF j <= Len(a) THEN a[j] ELSE UpTo(w)[j - Len(a)]
      BY <1>3, ConcatProperties
    <2> QED
      BY <1>3, <2>1
  <1>7. ASSUME NEW j \in 1 .. Len(UpTo(aw))
        PROVE  UpTo(aw)[j] = (a \o UpTo(w))[j]
    <2>0. j \in 1 .. p - 1 /\ j \in 1 .. n + (m - 1)
      BY <1>1, <1>3, <1>4, <1>5
    <2>1. CASE j <= n
      <3>1. j \in 1 .. n
        BY <1>1, <2>0, <2>1
      <3> QED
        BY <1>2, <1>4, <1>6, <2>0, <2>1, <3>1
    <2>2. CASE n < j
      <3>1. j - n \in 1 .. m - 1 /\ j - n \in 1 .. Len(w) /\ j = n + (j - n) /\ ~(j <= n)
        BY <1>1, <1>3, <2>0, <2>2
      <3>2. aw[j] = w[j - n]
        BY <1>2, <3>1
      <3>3. (a \o UpTo(w))[j] = UpTo(w)[j - n]
        BY <1>6, <2>0, <3>1
      <3>4. UpTo(w)[j - n] = w[j - n]
        BY <1>3, <3>1
      <3>5. UpTo(aw)[j] = aw[j]
        BY <1>4, <2>0
      <3> QED
        BY <3>2, <3>3, <3>4, <3>5
    <2>3. j <= n \/ n < j
      BY <1>1, <2>0
    <2> QED
      BY <2>1, <2>2, <2>3, Zenon
  <1>8. Len(UpTo(aw)) = Len(a \o UpTo(w))
    BY <1>1, <1>3, <1>4, <1>5, <1>6
  <1>9. UpTo(aw) = a \o UpTo(w)
    BY <1>4, <1>6, <1>7, <1>8, SeqEqual
  <1> QED
    BY <1>9 DEF aw

LEMMA UpToShort ==
  ASSUME NEW T, Nul \notin T
  PROVE  UpTo(<<>>) = <<>> /\ UpTo(<<Nul>>) = <<>> /\ \A c \in T : UpTo(<<c>>) = <<c>>
  <1> DEFINE A == T \cup {Nul}
  <1>1. <<>> \in Seq(A) /\ <<Nul>> \in Seq(A) /\ Len(<<Nul>>) = 1 /\ <<Nul>>[1] = Nul
    BY EmptySeq, OneCharacter
  <1>2. UpTo(<<>>) = <<>>
    <2>1. PICK m \in 1 .. Len(<<>>) + 1 :
             /\ UpTo(<<>>) \in Seq(T) /\ Len(UpTo(<<>>)) = m - 1
             /\ \A j \in 1 .. m - 1 : <<>>[j] # Nul /\ UpTo(<<>>)[j] = <<>>[j]
             /\ m <= Len(<<>>) => <<>>[m] = Nul
      <3>1. <<>> \in Seq(T \cup {Nul})
        BY EmptySeq
      <3> QED
        BY <3>1, UpToNul
    <2>2. m = 1
      <3>1. Len(<<>>) + 1 = 1
        OBVIOUS
      <3> QED
        BY <3>1
    <2>3. UpTo(<<>>) \in Seq(T) /\ Len(UpTo(<<>>)) = 0
      BY <2>1, <2>2
    <2> QED
      BY <2>3, EmptySeq
  <1>3. UpTo(<<Nul>>) = <<>>
    <2>1. PICK m \in 1 .. Len(<<Nul>>) + 1 :
             /\ UpTo(<<Nul>>) \in Seq(T) /\ Len(UpTo(<<Nul>>)) = m - 1
             /\ \A j \in 1 .. m - 1 : <<Nul>>[j] # Nul /\ UpTo(<<Nul>>)[j] = <<Nul>>[j]
             /\ m <= Len(<<Nul>>) => <<Nul>>[m] = Nul
      <3>1. <<Nul>> \in Seq(T \cup {Nul})
        BY <1>1
      <3> QED
        BY <3>1, UpToNul
    <2>2. m = 1
      BY <1>1, <2>1
    <2>3. UpTo(<<Nul>>) \in Seq(T) /\ Len(UpTo(<<Nul>>)) = 0
      BY <2>1, <2>2
    <2> QED
      BY <2>3, EmptySeq
  <1>4. ASSUME NEW c \in T PROVE UpTo(<<c>>) = <<c>>
    <2>1. <<c>> \in Seq(T) /\ <<>> \in Seq(T \cup {Nul}) /\ <<c>> \o <<>> = <<c>>
      BY OneCharacter, EmptySeq, ConcatEmptySeq
    <2>2. UpTo(<<c>> \o <<>>) = <<c>> \o UpTo(<<>>)
      BY <2>1, UpToConcat
    <2> QED
      BY <1>2, <2>1, <2>2
  <1> QED
    BY <1>2, <1>3, <1>4

(* put_field(), seen as a string: each field becomes what it stands for.   *)
FillsFrom(out, buf, id, field) ==
    /\ out[Len(buf) + 1] = <<>>
    /\ \A i \in 1 .. Len(buf) :
          /\ FieldAt(buf, id, i - 1) => out[i] = field \o out[i + 2]
          /\ ~FieldAt(buf, id, i - 1) => out[i] = <<buf[i]>> \o out[i + 1]

LEMMA FilledFrom ==
  ASSUME NEW T, Nul \notin T, NEW buf \in Seq(T), NEW id, NEW field \in Seq(T)
  PROVE  \E out : /\ FillsFrom(out, buf, id, field)
                  /\ \A i \in 1 .. Len(buf) + 1 : out[i] \in Seq(T)
                  /\ PutField(buf, id, field) = out[1]
  <1> DEFINE A == T \cup {Nul}
             n == Len(buf)
  <1>1. buf \in Seq(A) /\ field \in Seq(A) /\ Nul \in A
    BY SeqMonotonic
  <1>2. n \in Nat /\ \A i \in 1 .. n : buf[i] \in T
    BY LenProperties, ElementOfSeq
  <1>3. PICK w : /\ WritesFrom(w, buf, id, field)
                 /\ \A i \in 0 .. n : w[i] \in Seq(A)
                 /\ Written(buf, id, field) = w[0]
    <2> HIDE DEF A
    <2> QED
      BY <1>1, WrittenFrom
  <1> DEFINE out == [i \in 1 .. n + 1 |-> UpTo(w[i - 1])]
  <1>4. \A i \in 1 .. n + 1 : out[i] = UpTo(w[i - 1]) /\ i - 1 \in 0 .. n
    BY <1>2
  <1> HIDE DEF out
  <1>5. \A i \in 1 .. n + 1 : out[i] \in Seq(T)
    <2> TAKE i \in 1 .. n + 1
    <2>1. w[i - 1] \in Seq(T \cup {Nul})
      BY <1>3, <1>4
    <2>2. UpTo(w[i - 1]) \in Seq(T)
      BY <2>1, UpToNul
    <2> QED
      BY <1>4, <2>2
  <1>6. out[n + 1] = <<>>
    <2>1. n \in 0 .. n /\ n + 1 >= n /\ ~(n < n) /\ n + 1 \in 1 .. n + 1 /\ n + 1 - 1 = n
      BY <1>2
    <2>2. w[n] = <<Nul>>
      BY <1>3, <2>1 DEF WritesFrom
    <2> QED
      BY <1>4, <2>1, <2>2, UpToShort
  <1>7. ASSUME NEW i \in 1 .. n, FieldAt(buf, id, i - 1)
        PROVE  out[i] = field \o out[i + 2]
    <2>1. /\ i - 1 + 1 < n /\ i - 1 \in 0 .. n /\ i - 1 + 2 = i + 1
          /\ i + 1 \in 0 .. n /\ i + 2 \in 1 .. n + 1 /\ i + 2 - 1 = i + 1
          /\ i \in 1 .. n + 1
      BY <1>2, <1>7 DEF FieldAt
    <2>2. w[i - 1] = field \o w[i + 1]
      BY <1>3, <1>7, <2>1 DEF WritesFrom
    <2>3. w[i + 1] \in Seq(T \cup {Nul})
      BY <1>3, <2>1
    <2>4. UpTo(field \o w[i + 1]) = field \o UpTo(w[i + 1])
      BY <2>3, UpToConcat
    <2>5. out[i] = UpTo(w[i - 1])
      BY <1>4, <2>1
    <2>6. out[i + 2] = UpTo(w[i + 1])
      BY <1>4, <2>1
    <2> QED
      BY <2>2, <2>4, <2>5, <2>6
  <1>8. ASSUME NEW i \in 1 .. n, ~FieldAt(buf, id, i - 1)
        PROVE  out[i] = <<buf[i]>> \o out[i + 1]
    <2>0. /\ i - 1 \in 0 .. n /\ i \in 1 .. n + 1 /\ i + 1 \in 1 .. n + 1
          /\ i + 1 - 1 = i /\ i - 1 + 1 = i /\ i \in 0 .. n
          /\ <<buf[i]>> \in Seq(T) /\ i - 1 < n
      BY <1>2
    <2>1. CASE i < n
      <3>1. w[i - 1] = <<buf[i]>> \o w[i]
        BY <1>3, <1>8, <2>0, <2>1 DEF WritesFrom
      <3>2. w[i] \in Seq(T \cup {Nul})
        BY <1>3, <2>0
      <3>3. UpTo(<<buf[i]>> \o w[i]) = <<buf[i]>> \o UpTo(w[i])
        BY <2>0, <3>2, UpToConcat
      <3>4. out[i] = UpTo(w[i - 1])
        BY <1>4, <2>0
      <3>5. out[i + 1] = UpTo(w[i])
        BY <1>4, <2>0
      <3> QED
        BY <3>1, <3>3, <3>4, <3>5
    <2>2. CASE i >= n
      <3>0. i = n /\ n - 1 + 1 >= n /\ n - 1 \in 0 .. n /\ n - 1 < n /\ n - 1 + 1 = n
        BY <1>2, <2>0, <2>2
      <3>1. w[i - 1] = <<buf[i]>> /\ i = n
        <4>1. w[n - 1] = <<IF n - 1 < n THEN buf[n - 1 + 1] ELSE Nul>>
          BY <1>3, <3>0 DEF WritesFrom
        <4> QED
          BY <3>0, <4>1
      <3>2. out[i] = <<buf[i]>>
        BY <1>2, <1>4, <2>0, <3>1, UpToShort
      <3>3. out[i + 1] = <<>>
        BY <1>6, <3>1
      <3>4. <<buf[i]>> \o <<>> = <<buf[i]>>
        BY <2>0, ConcatEmptySeq
      <3> QED
        BY <3>2, <3>3, <3>4
    <2> QED
      BY <1>2, <2>1, <2>2
  <1>9. PutField(buf, id, field) = out[1]
    <2>1. 1 \in 1 .. n + 1 /\ 1 - 1 = 0
      BY <1>2
    <2>2. PutField(buf, id, field) = UpTo(Written(buf, id, field))
      BY DEF PutField, UpTo
    <2> QED
      BY <1>3, <1>4, <2>1, <2>2
  <1>10. FillsFrom(out, buf, id, field)
    BY <1>6, <1>7, <1>8 DEF FillsFrom
  <1> QED
    BY <1>5, <1>9, <1>10

LEMMA PutFieldType ==
  ASSUME NEW T, Nul \notin T, NEW buf \in Seq(T), NEW id, NEW field \in Seq(T)
  PROVE  PutField(buf, id, field) \in Seq(T)
  <1>1. 1 \in 1 .. Len(buf) + 1
    BY LenProperties
  <1> QED
    BY <1>1, FilledFrom

LEMMA ReplaceType ==
  ASSUME NEW T, NEW str \in Seq(T), NEW old \in Seq(T), NEW new \in Seq(T),
         Len(old) >= 1
  PROVE  Replace(str, old, new) \in Seq(T)
  <1>1. 1 \in 1 .. Len(str) + 1
    BY LenProperties
  <1>2. PICK out : /\ \A i \in 1 .. Len(str) + 1 : out[i] \in Seq(T)
                   /\ Replace(str, old, new) = out[1]
    BY ReplacedFrom
  <1> QED
    BY <1>1, <1>2

LEMMA UrlDecodeType ==
  ASSUME NEW T, NEW buf \in Seq(T), NEW Code, "%" \in T,
         \A p \in DOMAIN Code : p \in Seq(T) /\ Len(p) = 2 /\ Code[p] \in T
  PROVE  UrlDecode(buf, Code) \in Seq(T)
  <1>1. 1 \in 1 .. Len(buf) + 1
    BY LenProperties
  <1> QED
    BY <1>1, DecodedFrom

-----------------------------------------------------------------------------
(* A part of a text, character for character                               *)
LEMMA StandsAtIs ==
  ASSUME NEW T, NEW buf \in Seq(T), NEW part \in Seq(T), NEW i \in Nat \ {0}
  PROVE  StandsAt(buf, part, i) <=>
             /\ i + Len(part) - 1 <= Len(buf)
             /\ \A m \in 1 .. Len(part) : buf[i + m - 1] = part[m]
  <1> DEFINE to == i + Len(part) - 1
  <1>1. Len(buf) \in Nat /\ Len(part) \in Nat /\ \A j \in 1 .. Len(buf) : buf[j] \in T
    BY LenProperties, ElementOfSeq
  <1> SUFFICES ASSUME to <= Len(buf)
               PROVE  SubSeq(buf, i, to) = part
                         <=> \A m \in 1 .. Len(part) : buf[i + m - 1] = part[m]
    BY DEF StandsAt
  <1>2. to \in Int /\ \A j \in i .. to : buf[j] \in T
    BY <1>1
  <1>3. /\ SubSeq(buf, i, to) \in Seq(T)
        /\ Len(SubSeq(buf, i, to)) = IF i <= to THEN to - i + 1 ELSE 0
        /\ \A m \in 1 .. to - i + 1 : SubSeq(buf, i, to)[m] = buf[i + m - 1]
    BY <1>2, SubSeqProperties
  <1>4. to - i + 1 = Len(part)
    BY <1>1
  <1>5. Len(SubSeq(buf, i, to)) = Len(part)
    BY <1>1, <1>3, <1>4
  <1>6. \A m \in 1 .. Len(part) : SubSeq(buf, i, to)[m] = buf[i + m - 1]
    <2> HIDE DEF to
    <2> QED
      BY <1>3, <1>4
  <1> HIDE DEF to
  <1>7. ASSUME \A m \in 1 .. Len(part) : buf[i + m - 1] = part[m]
        PROVE  SubSeq(buf, i, to) = part
    <2>1. \A m \in 1 .. Len(SubSeq(buf, i, to)) : SubSeq(buf, i, to)[m] = part[m]
      BY <1>5, <1>6, <1>7
    <2> QED
      BY <1>3, <1>5, <2>1, SeqEqual
  <1> QED
    BY <1>6, <1>7

LEMMA StandsThere ==
  ASSUME NEW T, NEW buf \in Seq(T), NEW part \in Seq(T), NEW i \in Nat \ {0},
         i + Len(part) - 1 <= Len(buf),
         \A m \in 1 .. Len(part) : buf[i + m - 1] = part[m]
  PROVE  StandsAt(buf, part, i)
  BY StandsAtIs

(* What a text is from place i on                                          *)
IsTail(s, text, i) ==
    /\ Len(s) = Len(text) - i + 1
    /\ \A m \in 1 .. Len(s) : s[m] = text[i + m - 1]

LEMMA WholeTail ==
  ASSUME NEW T, NEW s \in Seq(T), NEW text \in Seq(T)
  PROVE  /\ IsTail(text, text, 1)
         /\ IsTail(s, text, 1) => s = text
         /\ IsTail(<<>>, text, Len(text) + 1)
         /\ \A i \in 1 .. Len(text) + 1 : IsTail(<<>>, text, i) => i = Len(text) + 1
  <1>1. Len(text) \in Nat /\ Len(s) \in Nat /\ Len(<<>>) = 0
    BY LenProperties, EmptySeq
  <1>2. IsTail(text, text, 1)
    BY <1>1 DEF IsTail
  <1>3. ASSUME IsTail(s, text, 1) PROVE s = text
    <2>1. Len(s) = Len(text) /\ \A m \in 1 .. Len(s) : s[m] = text[m]
      BY <1>1, <1>3 DEF IsTail
    <2> QED
      BY <2>1, SeqEqual
  <1>4. /\ IsTail(<<>>, text, Len(text) + 1)
        /\ \A i \in 1 .. Len(text) + 1 : IsTail(<<>>, text, i) => i = Len(text) + 1
    BY <1>1 DEF IsTail
  <1> QED
    BY <1>2, <1>3, <1>4

LEMMA TailOfConcat ==
  ASSUME NEW T, NEW text \in Seq(T), NEW head \in Seq(T), NEW rest \in Seq(T),
         NEW i \in 1 .. Len(text) + 1, IsTail(head \o rest, text, i)
  PROVE  /\ i + Len(head) \in 1 .. Len(text) + 1
         /\ IsTail(rest, text, i + Len(head))
         /\ StandsAt(text, head, i)
  <1> DEFINE h == Len(head)
             s == head \o rest
  <1>1. /\ h \in Nat /\ Len(rest) \in Nat /\ Len(text) \in Nat
        /\ Len(s) = h + Len(rest)
        /\ \A m \in 1 .. h + Len(rest) : s[m] = IF m <= h THEN head[m] ELSE rest[m - h]
    BY LenProperties, ConcatProperties
  <1>2. /\ Len(s) = Len(text) - i + 1
        /\ \A m \in 1 .. Len(s) : s[m] = text[i + m - 1]
    BY DEF IsTail
  <1> HIDE DEF h, s
  <1>3. /\ i + h \in 1 .. Len(text) + 1 /\ Len(rest) = Len(text) - (i + h) + 1
        /\ i + h - 1 <= Len(text) /\ i \in Nat \ {0}
    <2>1. /\ h \in Nat /\ Len(rest) \in Nat /\ Len(text) \in Nat
          /\ h + Len(rest) = Len(text) - i + 1
      BY <1>1, <1>2
    <2> QED
      BY <2>1
  <1>4. \A m \in 1 .. Len(rest) : rest[m] = text[i + h + m - 1]
    <2> TAKE m \in 1 .. Len(rest)
    <2>1. PICK x \in 1 .. Len(s) : x = h + m
      BY <1>1
    <2>2. ~(x <= h) /\ x - h = m /\ i + x - 1 = i + h + m - 1
      BY <1>1, <2>1
    <2>3. s[x] = rest[x - h]
      BY <1>1, <2>2
    <2> QED
      BY <1>2, <2>2, <2>3
  <1>5. \A m \in 1 .. h : text[i + m - 1] = head[m]
    <2> TAKE m \in 1 .. h
    <2>1. m \in 1 .. Len(s) /\ m <= h
      BY <1>1
    <2>2. s[m] = head[m]
      BY <1>1, <2>1
    <2> QED
      BY <1>2, <2>1, <2>2
  <1>6. StandsAt(text, head, i)
    BY <1>3, <1>5, StandsThere DEF h
  <1> QED
    BY <1>3, <1>4, <1>6 DEF IsTail, h

LEMMA TailInFront ==
  ASSUME NEW T, NEW text \in Seq(T), NEW i \in 1 .. Len(text), NEW rest \in Seq(T),
         IsTail(rest, text, i + 1)
  PROVE  IsTail(<<text[i]>> \o rest, text, i)
  <1> DEFINE s == <<text[i]>> \o rest
  <1>1. /\ Len(rest) \in Nat /\ Len(text) \in Nat /\ text[i] \in T
        /\ Len(rest) = Len(text) - (i + 1) + 1
        /\ \A m \in 1 .. Len(rest) : rest[m] = text[i + 1 + m - 1]
    BY LenProperties, ElementOfSeq DEF IsTail
  <1>2. /\ <<text[i]>> \in Seq(T) /\ Len(<<text[i]>>) = 1 /\ <<text[i]>>[1] = text[i]
    BY <1>1, OneCharacter
  <1>3. /\ Len(s) = 1 + Len(rest)
        /\ \A m \in 1 .. 1 + Len(rest) :
              s[m] = IF m <= 1 THEN <<text[i]>>[m] ELSE rest[m - 1]
    BY <1>2, ConcatProperties
  <1> HIDE DEF s
  <1>4. Len(s) = Len(text) - i + 1
    BY <1>1, <1>3
  <1>5. \A m \in 1 .. Len(s) : s[m] = text[i + m - 1]
    <2> TAKE m \in 1 .. Len(s)
    <2>1. CASE m = 1
      BY <1>2, <1>3, <2>1
    <2>2. CASE m # 1
      <3>1. /\ m - 1 \in 1 .. Len(rest) /\ ~(m <= 1) /\ m \in 1 .. 1 + Len(rest)
            /\ i + 1 + (m - 1) - 1 = i + m - 1
        BY <1>1, <1>3, <2>2
      <3>2. s[m] = rest[m - 1]
        BY <1>3, <3>1
      <3> QED
        BY <1>1, <3>1, <3>2
    <2> QED
      BY <2>1, <2>2
  <1> QED
    BY <1>4, <1>5 DEF IsTail, s

(* A reader that turns each piece of a code back into its character turns  *)
(* the whole code back into the text: e is what the text is coded as from  *)
(* each place on, d is what the reader makes of the code from each place   *)
(* on.                                                                     *)
Codes(e, text, code) ==
    /\ e[Len(text) + 1] = <<>> /\ e[1] = code

Reads(d, e, text, code, T) ==
    /\ d[Len(code) + 1] = <<>>
    /\ \A i \in 1 .. Len(text) :
          \E piece \in Seq(T) :
              /\ piece # <<>> /\ e[i] = piece \o e[i + 1]
              /\ \A p \in 1 .. Len(code) :
                    StandsAt(code, piece, p) =>
                        d[p] = <<text[i]>> \o d[p + Len(piece)]

LEMMA ReadAsMeant ==
  ASSUME NEW T, NEW text \in Seq(T), NEW code \in Seq(T), NEW e, NEW d,
         \A i \in 1 .. Len(text) + 1 : e[i] \in Seq(T),
         \A p \in 1 .. Len(code) + 1 : d[p] \in Seq(T),
         Codes(e, text, code), Reads(d, e, text, code, T)
  PROVE  d[1] = text
  <1> DEFINE n == Len(text) + 1
             Good == {i \in 1 .. n :
                        \A p \in 1 .. Len(code) + 1 :
                            IsTail(e[i], code, p) => IsTail(d[p], text, i)}
  <1>1. Len(text) \in Nat /\ Len(code) \in Nat
    BY LenProperties
  <1>2. ASSUME NEW i \in 1 .. n, \A j \in (i + 1) .. n : j \in Good
        PROVE  i \in Good
    <2> SUFFICES ASSUME NEW p \in 1 .. Len(code) + 1, IsTail(e[i], code, p)
                 PROVE  IsTail(d[p], text, i)
      OBVIOUS
    <2>1. CASE i = n
      <3>1. e[i] = <<>>
        BY <2>1 DEF Codes
      <3>2. p = Len(code) + 1
        BY <3>1, WholeTail
      <3>3. d[p] = <<>>
        BY <3>2 DEF Reads
      <3> QED
        BY <2>1, <3>3, WholeTail
    <2>2. CASE i # n
      <3>1. i \in 1 .. Len(text) /\ i + 1 \in (i + 1) .. n /\ i + 1 \in 1 .. Len(text) + 1
        BY <1>1, <2>2
      <3>2. PICK piece \in Seq(T) :
              /\ piece # <<>> /\ e[i] = piece \o e[i + 1]
              /\ \A q \in 1 .. Len(code) :
                    StandsAt(code, piece, q) =>
                        d[q] = <<text[i]>> \o d[q + Len(piece)]
        BY <3>1 DEF Reads
      <3>3. e[i + 1] \in Seq(T) /\ IsTail(piece \o e[i + 1], code, p)
        BY <3>1, <3>2
      <3>4. /\ p + Len(piece) \in 1 .. Len(code) + 1
            /\ IsTail(e[i + 1], code, p + Len(piece))
            /\ StandsAt(code, piece, p)
        BY <3>3, TailOfConcat
      <3>5. p \in 1 .. Len(code)
        <4>1. Len(piece) \in Nat \ {0}
          BY <3>2, EmptySeq
        <4> QED
          BY <1>1, <3>4, <4>1
      <3>6. d[p] = <<text[i]>> \o d[p + Len(piece)]
        BY <3>2, <3>4, <3>5
      <3>7. IsTail(d[p + Len(piece)], text, i + 1)
        BY <1>2, <3>1, <3>4
      <3>8. d[p + Len(piece)] \in Seq(T)
        BY <3>4
      <3> QED
        BY <3>1, <3>6, <3>7, <3>8, TailInFront
    <2> QED
      BY <2>1, <2>2
  <1>3. \A i \in 1 .. n : i \in Good
    <2>1. 1 \in Nat /\ n \in Nat
      BY <1>1
    <2> HIDE DEF Good, n
    <2> QED
      BY <1>2, <2>1, FromTheEnd
  <1>4. 1 \in 1 .. n /\ 1 \in 1 .. Len(code) + 1
    BY <1>1
  <1>5. IsTail(e[1], code, 1)
    BY WholeTail DEF Codes
  <1>6. IsTail(d[1], text, 1) /\ d[1] \in Seq(T)
    BY <1>3, <1>4, <1>5
  <1> QED
    BY <1>6, WholeTail
=============================================================================
