------------------------- MODULE AnnouncementProofs -------------------------
(***************************************************************************)
(* Theorems about Announcement, for any texts, formats and filters.        *)
(***************************************************************************)
EXTENDS AnnouncementProperties, TextHelpersProofs

Text == Seq(Char)

LEMMA NamedCharacters ==
    /\ "%" \in Char /\ "2" \in Char /\ "5" \in Char /\ "0" \in Char
    /\ "&" \in Char /\ "amp;" \in Char /\ "lt;" \in Char /\ "gt;" \in Char
    /\ "apos;" \in Char /\ "quot;" \in Char /\ "<" \in Char /\ ">" \in Char
    /\ "'" \in Char /\ "\"" \in Char /\ " " \in Char /\ "?" \in Char
    /\ "R" \in Char /\ "D" \in Char /\ "C" \in Char /\ "M" \in Char
    /\ "|" \in Char /\ "-" \in Char
  BY CharAssumption DEF Named

-----------------------------------------------------------------------------
(* What a player's encoder makes of a text from each place on.             *)
EncodesFrom(out, text, encoding) ==
    /\ out[Len(text) + 1] = <<>>
    /\ \A i \in 1 .. Len(text) :
          /\ text[i] \in DOMAIN encoding =>
                out[i] = encoding[text[i]] \o out[i + 1]
          /\ ~(text[i] \in DOMAIN encoding) =>
                out[i] = <<text[i]>> \o out[i + 1]

LEMMA EncodedFrom ==
  ASSUME NEW T, NEW text \in Seq(T), NEW encoding,
         \A c \in DOMAIN encoding : encoding[c] \in Seq(T)
  PROVE  \E out : /\ EncodesFrom(out, text, encoding)
                  /\ \A i \in 1 .. Len(text) + 1 : out[i] \in Seq(T)
                  /\ Encoded(text, encoding) = out[1]
  <1> DEFINE n == Len(text) + 1
             Body(out, i) ==
                 IF i > Len(text) THEN <<>>
                 ELSE IF text[i] \in DOMAIN encoding
                 THEN encoding[text[i]] \o out[i + 1]
                 ELSE <<text[i]>> \o out[i + 1]
             stop == {i \in 1 .. n : i > Len(text)}
             base == [i \in 1 .. n |-> <<>>]
             head == [i \in 1 .. n |-> IF text[i] \in DOMAIN encoding
                                       THEN encoding[text[i]]
                                       ELSE <<text[i]>>]
             next == [i \in 1 .. n |-> IF text[i] \in DOMAIN encoding
                                       THEN i + 1 ELSE i + 1]
  <1>1. /\ Len(text) \in Nat /\ \A i \in 1 .. Len(text) : text[i] \in T
        /\ \A i \in 1 .. n : text[i] \in DOMAIN encoding =>
               encoding[text[i]] \in Seq(T)
    BY LenProperties, ElementOfSeq
  <1>2. \A i \in 1 .. n : i \notin stop => next[i] \in (i + 1) .. n
    BY <1>1
  <1>3. \A i \in 1 .. n : IF i \in stop THEN base[i] \in Seq(T)
                          ELSE head[i] \in Seq(T) /\ next[i] \in (i + 1) .. n
    BY <1>1, <1>2, EmptySeq
  <1>4. ASSUME NEW out
        PROVE  Continues(out, 1, n, stop, base, head, next)
                  <=> out = [i \in 1 .. n |-> Body(out, i)]
    <2>1. ASSUME NEW i \in 1 .. n
          PROVE  (IF i \in stop THEN base[i] ELSE head[i] \o out[next[i]])
                    = Body(out, i)
      BY <1>1
    <2>2. [i \in 1 .. n |-> IF i \in stop THEN base[i]
                           ELSE head[i] \o out[next[i]]]
            = [i \in 1 .. n |-> Body(out, i)]
      <3> HIDE DEF Body, stop, base, head, next
      <3> QED
        BY <2>1, Zenon
    <2> HIDE DEF Body, stop, base, head, next
    <2> QED
      BY <2>2 DEF Continues
  <1>5. \E out : Continues(out, 1, n, stop, base, head, next)
    <2>1. 1 \in Nat /\ n \in Nat /\ 1 =< n
      BY <1>1
    <2> HIDE DEF n, stop, base, head, next
    <2> QED
      BY <1>2, <2>1, RecursionFromTheEnd, Zenon
  <1> DEFINE R == CHOOSE out : out = [i \in 1 .. Len(text) + 1 |-> Body(out, i)]
  <1>6. R = [i \in 1 .. n |-> Body(R, i)]
    <2> HIDE DEF Body, stop, base, head, next
    <2> QED
      BY <1>4, <1>5
  <1>7. Encoded(text, encoding) = R[1]
    BY DEF Encoded
  <1>8. Continues(R, 1, n, stop, base, head, next)
    <2> HIDE DEF Body, R, stop, base, head, next
    <2> QED
      BY <1>4, <1>6
  <1>9. \A i \in 1 .. n : R[i] \in Seq(T)
    <2>1. 1 \in Nat /\ n \in Nat
      BY <1>1
    <2> HIDE DEF n, R, stop, base, head, next
    <2> QED
      BY <1>3, <1>8, <2>1, RecursionType
  <1>10. EncodesFrom(R, text, encoding)
    <2>1. \A i \in 1 .. n : R[i] = Body(R, i)
      <3> HIDE DEF Body, R
      <3> QED
        BY <1>6
    <2>2. ASSUME NEW i \in 1 .. Len(text)
          PROVE  /\ text[i] \in DOMAIN encoding =>
                       R[i] = encoding[text[i]] \o R[i + 1]
                 /\ ~(text[i] \in DOMAIN encoding) =>
                       R[i] = <<text[i]>> \o R[i + 1]
      <3>1. ~(i > Len(text)) /\ i \in 1 .. n
        BY <1>1
      <3>2. R[i] = Body(R, i)
        BY <2>1, <3>1
      <3> HIDE DEF R, n
      <3> QED
        BY <3>1, <3>2, Zenon
    <2>3. R[Len(text) + 1] = <<>>
      <3>1. Len(text) + 1 > Len(text) /\ Len(text) + 1 \in 1 .. n
        BY <1>1
      <3>2. R[Len(text) + 1] = Body(R, Len(text) + 1)
        <4> HIDE DEF Body, R
        <4> QED
          BY <2>1, <3>1
      <3> HIDE DEF R, n
      <3> QED
        BY <3>1, <3>2, Zenon
    <2> HIDE DEF R
    <2> QED
      BY <2>2, <2>3 DEF EncodesFrom
  <1> HIDE DEF R
  <1> QED
    BY <1>7, <1>9, <1>10

LEMMA EntityTexts ==
  ASSUME NEW k \in 1 .. 5
  PROVE  /\ <<"&", Entity[k][1]>> \in Text /\ <<Entity[k][2]>> \in Text
         /\ Len(<<"&", Entity[k][1]>>) = 2
         /\ <<"&", Entity[k][1]>>[1] = "&" /\ <<"&", Entity[k][1]>>[2] = Entity[k][1]
         /\ Entity[k][1] \in Char /\ Entity[k][2] \in Char
  <1>1. Entity[k][1] \in Char /\ Entity[k][2] \in Char
    <2>1. k = 1 \/ k = 2 \/ k = 3 \/ k = 4 \/ k = 5
      OBVIOUS
    <2>2. /\ Entity[1][1] = "amp;" /\ Entity[1][2] = "&"
          /\ Entity[2][1] = "lt;" /\ Entity[2][2] = "<"
          /\ Entity[3][1] = "gt;" /\ Entity[3][2] = ">"
          /\ Entity[4][1] = "apos;" /\ Entity[4][2] = "'"
          /\ Entity[5][1] = "quot;" /\ Entity[5][2] = "\""
      BY DEF Entity
    <2> QED
      BY <2>1, <2>2, NamedCharacters
  <1>2. "&" \in Char
    BY NamedCharacters
  <1>3. /\ <<"&", Entity[k][1]>> \in Seq(Char)
        /\ Len(<<"&", Entity[k][1]>>) = 2
        /\ <<"&", Entity[k][1]>>[1] = "&" /\ <<"&", Entity[k][1]>>[2] = Entity[k][1]
    BY <1>1, <1>2, TwoCharacters, Zenon
  <1>4. <<Entity[k][2]>> \in Seq(Char)
    BY <1>1, OneCharacter, Zenon
  <1> QED
    BY <1>1, <1>3, <1>4 DEF Text

LEMMA EntitiesDiffer ==
  ASSUME NEW j \in 1 .. 5, NEW k \in 1 .. 5
  PROVE  /\ Entity[j][1] # "&"
         /\ Entity[j][1] = Entity[k][1] \/ Entity[j][2] = Entity[k][2] => j = k
  <1>1. /\ j = 1 \/ j = 2 \/ j = 3 \/ j = 4 \/ j = 5
        /\ k = 1 \/ k = 2 \/ k = 3 \/ k = 4 \/ k = 5
    OBVIOUS
  <1>2. /\ Entity[1][1] = "amp;" /\ Entity[1][2] = "&"
        /\ Entity[2][1] = "lt;" /\ Entity[2][2] = "<"
        /\ Entity[3][1] = "gt;" /\ Entity[3][2] = ">"
        /\ Entity[4][1] = "apos;" /\ Entity[4][2] = "'"
        /\ Entity[5][1] = "quot;" /\ Entity[5][2] = "\""
    BY DEF Entity
  <1> QED
    BY <1>1, <1>2

LEMMA XmlEncodingIs ==
  ASSUME NEW k \in 1 .. 5
  PROVE  XmlEncoding[Entity[k][2]] = <<"&", Entity[k][1]>>
  <1> DEFINE j == CHOOSE x \in 1 .. 5 : Entity[x][2] = Entity[k][2]
  <1>1. j \in 1 .. 5 /\ Entity[j][2] = Entity[k][2]
    OBVIOUS
  <1>2. j = k
    <2> HIDE DEF j
    <2> QED
      BY <1>1, EntitiesDiffer
  <1>3. XmlEncoding[Entity[k][2]] = <<"&", Entity[j][1]>>
    BY DEF XmlEncoding
  <1> QED
    BY <1>2, <1>3

LEMMA UnescapedType ==
  ASSUME NEW str \in Text, NEW k \in 1 .. 5
  PROVE  Unescaped(str, k) \in Text
  <1>1. /\ <<"&", Entity[k][1]>> \in Seq(Char) /\ <<Entity[k][2]>> \in Seq(Char)
        /\ Len(<<"&", Entity[k][1]>>) >= 1 /\ str \in Seq(Char)
    BY EntityTexts DEF Text
  <1>2. Replace(str, <<"&", Entity[k][1]>>, <<Entity[k][2]>>) \in Seq(Char)
    BY <1>1, ReplaceType, Zenon
  <1> QED
    BY <1>2 DEF Unescaped, Text

LEMMA HeardType ==
  ASSUME NEW text \in Seq(Char), NEW encoding \in {"none", "url", "xml"}
  PROVE  Heard(text, encoding) \in Text
  <1>0. text \in Text /\ 1 \in 1 .. Len(text) + 1
    BY LenProperties DEF Text
  <1>1. CASE encoding = "none"
    BY <1>0, <1>1 DEF Heard
  <1>2. CASE encoding = "url"
    <2>1. \A c \in DOMAIN UrlEncoding : UrlEncoding[c] \in Seq(Char)
      <3> TAKE c \in DOMAIN UrlEncoding
      <3>1. <<"%", "2", "5">> \in Seq(Char) /\ <<"%", "2", "0">> \in Seq(Char)
        BY NamedCharacters, ThreeCharacters
      <3> QED
        BY <3>1 DEF UrlEncoding
    <2>2. Encoded(text, UrlEncoding) \in Seq(Char)
      BY <1>0, <2>1, EncodedFrom DEF Text
    <2>3. \A p \in DOMAIN UrlCode : /\ p \in Seq(Char) /\ Len(p) = 2
                                    /\ UrlCode[p] \in Char
      <3> TAKE p \in DOMAIN UrlCode
      <3>1. p \in {<<"2", "5">>, <<"2", "0">>}
        BY DEF UrlCode
      <3>2. p \in Seq(Char) /\ Len(p) = 2
        <4>1. /\ <<"2", "5">> \in Seq(Char) /\ Len(<<"2", "5">>) = 2
              /\ <<"2", "0">> \in Seq(Char) /\ Len(<<"2", "0">>) = 2
          BY NamedCharacters, TwoCharacters
        <4> QED
          BY <3>1, <4>1
      <3> QED
        BY <3>1, <3>2, NamedCharacters DEF UrlCode
    <2>4. UrlDecode(Encoded(text, UrlEncoding), UrlCode) \in Seq(Char)
      BY <2>2, <2>3, NamedCharacters, UrlDecodeType
    <2> QED
      BY <1>2, <2>4 DEF Heard, Text
  <1>3. CASE encoding = "xml"
    <2>1. \A c \in DOMAIN XmlEncoding : XmlEncoding[c] \in Seq(Char)
      <3>1. \A c \in DOMAIN XmlEncoding : \E k \in 1 .. 5 : c = Entity[k][2]
        BY DEF XmlEncoding
      <3>2. \A k \in 1 .. 5 : XmlEncoding[Entity[k][2]] \in Seq(Char)
        <4> TAKE k \in 1 .. 5
        <4>1. <<"&", Entity[k][1]>> \in Seq(Char)
          BY EntityTexts DEF Text
        <4> QED
          BY <4>1, XmlEncodingIs
      <3> QED
        BY <3>1, <3>2
    <2>2. Encoded(text, XmlEncoding) \in Text
      BY <1>0, <2>1, EncodedFrom DEF Text
    <2>3. Unescape(Encoded(text, XmlEncoding)) \in Text
      BY <2>2, UnescapedType DEF Unescape
    <2> QED
      BY <1>3, <2>3 DEF Heard
  <1> QED
    BY <1>1, <1>2, <1>3

-----------------------------------------------------------------------------
Steps == {"hear", "trim", "validate", "filter?", "filter", "format", "done"}

TypeInv ==
    /\ told \in [Field -> Text] /\ ti \in [Field -> Text] /\ valid \in [Field -> Text]
    /\ format \in Formats /\ filter \in Filters
    /\ status \in Text /\ exact
    /\ step \in [name : Steps, i : 1 .. 8, k : Nat \ {0}]
    /\ step.name \in {"validate", "filter"} => step.i \in 1 .. 3

LEMMA OrderType ==
    /\ Len(Order) = 3 /\ \A i \in 1 .. 3 : Order[i] \in Field
    /\ \A f \in Field : \E i \in 1 .. 3 : f = Order[i]
    /\ \A i, j \in 1 .. 3 : Order[i] = Order[j] => i = j
  <1>1. Order[1] = "track" /\ Order[2] = "artist" /\ Order[3] = "album" /\ Len(Order) = 3
    BY DEF Order
  <1>2. \A i \in 1 .. 3 : i = 1 \/ i = 2 \/ i = 3
    OBVIOUS
  <1> QED
    BY <1>1, <1>2 DEF Field

LEMMA DirectiveType ==
    /\ Len(Directive) = 8 /\ DOMAIN Directive = 1 .. 8
    /\ Directive[1] = "p" /\ Directive[2] = "a" /\ Directive[3] = "t"
    /\ Directive[4] = "r" /\ Directive[5] = "d" /\ Directive[6] = "c"
    /\ Directive[7] = "b" /\ Directive[8] = "m"
    /\ \A i \in 1 .. 8 : Directive[i] \in {"p", "a", "t", "r", "d", "c", "b", "m"}
  <1>1. \A i \in 1 .. 8 : \/ i = 1 \/ i = 2 \/ i = 3 \/ i = 4
                          \/ i = 5 \/ i = 6 \/ i = 7 \/ i = 8
    OBVIOUS
  <1>2. /\ Len(Directive) = 8 /\ DOMAIN Directive = 1 .. 8
        /\ Directive[1] = "p" /\ Directive[2] = "a" /\ Directive[3] = "t"
        /\ Directive[4] = "r" /\ Directive[5] = "d" /\ Directive[6] = "c"
        /\ Directive[7] = "b" /\ Directive[8] = "m"
    BY DEF Directive
  <1> QED
    BY <1>1, <1>2

LEMMA ChoiceTypes ==
  ASSUME format \in Formats, filter \in Filters
  PROVE  /\ format.text \in Text /\ format.elapsed \in Int /\ format.total \in Int
         /\ filter.on \in BOOLEAN /\ filter.words \in Seq(Text) /\ filter.mask \in Char
  BY FormatsAssumption, FiltersAssumption DEF Text

LEMMA ValueType ==
  ASSUME ti \in [Field -> Text], NEW i \in 1 .. 8
  PROVE  Value(Directive[i]) \in Text
  <1> DEFINE d == Directive[i]
  <1>1. \/ d = "p" \/ d = "a" \/ d = "t" \/ d = "r"
        \/ d = "d" \/ d = "c" \/ d = "b" \/ d = "m"
    BY DirectiveType
  <1>2. <<"R">> \in Text /\ <<"D">> \in Text /\ <<"C">> \in Text /\ <<"M">> \in Text
    BY NamedCharacters, OneCharacter DEF Text
  <1>3. Bar(format.elapsed, format.total) \in Text
    <2>1. Bar(format.elapsed, format.total) \in [1 .. 10 -> Char]
      BY NamedCharacters DEF Bar
    <2>2. \E n \in Nat : Bar(format.elapsed, format.total) \in [1 .. n -> Char]
      BY <2>1
    <2> QED
      BY <2>2, SeqDef DEF Text
  <1>4. ti.artist \in Text /\ ti.album \in Text /\ ti.track \in Text
    BY DEF Field
  <1> HIDE DEF d
  <1>5. Value(d) \in Text
    BY <1>1, <1>2, <1>3, <1>4 DEF Value
  <1> QED
    BY <1>5 DEF d

LEMMA FilledInText ==
  ASSUME NEW buf \in Text, NEW id, NEW field \in Text
  PROVE  /\ PutField(buf, id, field) \in Text
         /\ CountFor(buf, id, field) = Len(Written(buf, id, field))
  <1> DEFINE T == Char \cup {Nul}
  <1>0. Nul \notin Char
    BY CharAssumption
  <1>1. buf \in Seq(T) /\ field \in Seq(T) /\ Nul \in T
    BY SeqMonotonic DEF Text
  <1>2. CountFor(buf, id, field) = Len(Written(buf, id, field))
    <2> HIDE DEF T
    <2> QED
      BY <1>1, CountsWhatIsWritten
  <1>3. PutField(buf, id, field) \in Text
    BY <1>0, PutFieldType DEF Text
  <1> QED
    BY <1>2, <1>3

LEMMA TypeInvInit == Init => TypeInv
  <1> SUFFICES ASSUME Init PROVE TypeInv
    OBVIOUS
  <1>1. <<>> \in Text
    BY EmptySeq DEF Text
  <1>2. told \in [Field -> Text]
    BY <1>1, TextsAssumption DEF Init, Field, Text
  <1>3. ti \in [Field -> Text] /\ valid \in [Field -> Text] /\ status \in Text /\ exact
    BY <1>1 DEF Init
  <1>4. step \in [name : Steps, i : 1 .. 8, k : Nat \ {0}] /\ step.name = "hear"
    BY DEF Init, At, Steps
  <1> QED
    BY <1>2, <1>3, <1>4 DEF Init, TypeInv

(* A text of which characters are replaced *)
LEMMA Rewritten ==
  ASSUME NEW text \in Text, NEW r \in [DOMAIN text -> Char]
  PROVE  r \in Text /\ Len(r) = Len(text) /\ DOMAIN r = DOMAIN text
  <1>1. Len(text) \in Nat /\ DOMAIN text = 1 .. Len(text)
    BY LenProperties DEF Text
  <1>2. r \in Seq(Char)
    BY <1>1, SeqDef
  <1>3. DOMAIN r = 1 .. Len(r) /\ Len(r) \in Nat
    BY <1>2, LenProperties
  <1> QED
    BY <1>1, <1>2, <1>3 DEF Text

LEMMA CharactersOf ==
  ASSUME NEW text \in Text
  PROVE  /\ Len(text) \in Nat /\ DOMAIN text = 1 .. Len(text)
         /\ \A i \in DOMAIN text : text[i] \in Char
  BY LenProperties, ElementOfSeq DEF Text

(* Where the callback can go on.                                           *)
LEMMA NextFieldIs ==
  ASSUME NEW name \in {"validate", "filter"}, step.i \in 1 .. 3
  PROVE  /\ step.i < 3 => NextField(name) = At(name, step.i + 1, 1)
         /\ ~(step.i < 3) => NextField(name) = At(IF name = "validate" THEN "filter?"
                                                  ELSE "format", 1, 1)
         /\ NextField(name) \in [name : Steps, i : 1 .. 8, k : Nat \ {0}]
         /\ NextField(name).name \in {"validate", "filter"} =>
               NextField(name).i \in 1 .. 3
  <1>1. Len(Order) = 3
    BY OrderType
  <1>2. CASE step.i < 3
    <2>1. NextField(name) = At(name, step.i + 1, 1) /\ step.i + 1 \in 1 .. 3
      BY <1>1, <1>2 DEF NextField
    <2> QED
      BY <1>2, <2>1 DEF At, Steps
  <1>3. CASE ~(step.i < 3)
    <2>1. NextField(name) = At(IF name = "validate" THEN "filter?" ELSE "format", 1, 1)
      BY <1>1, <1>3 DEF NextField
    <2> QED
      BY <1>3, <2>1 DEF At, Steps
  <1> QED
    BY <1>2, <1>3

LEMMA MinInvalid ==
  ASSUME NEW text \in Text, InvalidIn(text) # {}
  PROVE  Min(InvalidIn(text)) \in DOMAIN text /\ text[Min(InvalidIn(text))] \in Invalid
  <1>1. InvalidIn(text) \in SUBSET Nat
    BY CharactersOf DEF InvalidIn
  <1>2. Min(InvalidIn(text)) \in InvalidIn(text)
    BY <1>1, Least
  <1> QED
    BY <1>2 DEF InvalidIn

LEMMA TypeInvStep == TypeInv /\ [Next]_vars => TypeInv'
  <1> SUFFICES ASSUME TypeInv, [Next]_vars PROVE TypeInv'
    OBVIOUS
  <1> DEFINE F == Order[step.i]
  <1>0. /\ format.text \in Text /\ filter.words \in Seq(Text) /\ filter.mask \in Char
        /\ filter.on \in BOOLEAN
    BY ChoiceTypes DEF TypeInv
  <1>1. ASSUME step.name \in {"validate", "filter"}
        PROVE  F \in Field /\ ti[F] \in Text
    BY <1>1, OrderType DEF TypeInv
  <1>2. ASSUME NEW e \in {"none", "url", "xml"}, Hear(e) PROVE TypeInv'
    <2>1. \A f \in Field : Heard(told[f], e) \in Text
      BY HeardType DEF TypeInv, Text
    <2>2. ti' \in [Field -> Text]
      BY <1>2, <2>1 DEF Hear
    <2>3. /\ step' \in [name : Steps, i : 1 .. 8, k : Nat \ {0}]
          /\ step'.name = "trim"
      BY <1>2 DEF Hear, At, Steps
    <2> QED
      BY <1>2, <2>2, <2>3 DEF Hear, TypeInv
  <1>3. CASE TrimFields
    <2>1. \A f \in Field : Trim(ti[f]) \in Text
      BY TrimType DEF TypeInv, Text
    <2>2. ti' \in [Field -> Text]
      BY <1>3, <2>1 DEF TrimFields
    <2>3. /\ step' \in [name : Steps, i : 1 .. 8, k : Nat \ {0}]
          /\ step'.i \in 1 .. 3
      BY <1>3 DEF TrimFields, At, Steps
    <2> QED
      BY <1>3, <2>2, <2>3 DEF TrimFields, TypeInv
  <1>4. CASE Converts
    <2>1. F \in Field /\ ti[F] \in Text
      BY <1>1, <1>4 DEF Converts
    <2>2. PICK locale \in [Invalid -> Convertible] :
             ti' = [ti EXCEPT ![F] =
                       [j \in DOMAIN ti[F] |-> IF ti[F][j] \in Invalid
                                               THEN locale[ti[F][j]] ELSE ti[F][j]]]
      BY <1>4 DEF Converts, Set
    <2> DEFINE r == [j \in DOMAIN ti[F] |-> IF ti[F][j] \in Invalid
                                           THEN locale[ti[F][j]] ELSE ti[F][j]]
    <2>3. r \in [DOMAIN ti[F] -> Char]
      BY <2>1, CharactersOf, CharAssumption
    <2>4. r \in Text
      <3> HIDE DEF r, F
      <3> QED
        BY <2>1, <2>3, Rewritten
    <2>5. ti' \in [Field -> Text]
      <3> HIDE DEF F
      <3> QED
        BY <2>1, <2>2, <2>4 DEF TypeInv
    <2> QED
      BY <1>4, <2>5 DEF Converts, TypeInv
  <1>5. CASE ReplacesByte
    <2>1. F \in Field /\ ti[F] \in Text /\ InvalidIn(ti[F]) # {}
      BY <1>1, <1>5 DEF ReplacesByte
    <2> DEFINE r == [ti[F] EXCEPT ![Min(InvalidIn(ti[F]))] = "?"]
    <2>2. ti' = [ti EXCEPT ![F] = r]
      BY <1>5 DEF ReplacesByte, Set
    <2>3. r \in [DOMAIN ti[F] -> Char]
      <3>1. Min(InvalidIn(ti[F])) \in DOMAIN ti[F]
        BY <2>1, MinInvalid
      <3>2. ti[F] \in [DOMAIN ti[F] -> Char]
        BY <2>1, LenProperties DEF Text
      <3> QED
        BY <3>1, <3>2, NamedCharacters
    <2>4. r \in Text
      <3> HIDE DEF r, F
      <3> QED
        BY <2>1, <2>3, Rewritten
    <2>5. ti' \in [Field -> Text]
      <3> HIDE DEF F, r
      <3> QED
        BY <2>1, <2>2, <2>4 DEF TypeInv
    <2>6. /\ step' \in [name : Steps, i : 1 .. 8, k : Nat \ {0}]
          /\ step'.i = step.i /\ step'.name = step.name
      BY <1>5 DEF ReplacesByte, TypeInv
    <2> QED
      BY <1>5, <2>5, <2>6 DEF ReplacesByte, TypeInv
  <1>6. CASE IsValid
    <2>1. step' = NextField("validate") /\ step.i \in 1 .. 3
      BY <1>6 DEF IsValid, TypeInv
    <2>2. /\ step' \in [name : Steps, i : 1 .. 8, k : Nat \ {0}]
          /\ step'.name \in {"validate", "filter"} => step'.i \in 1 .. 3
      BY <2>1, NextFieldIs
    <2> QED
      BY <1>6, <2>2 DEF IsValid, TypeInv
  <1>7. CASE SkipsFilter
    <2>1. step' \in [name : Steps, i : 1 .. 8, k : Nat \ {0}] /\ step'.name = "format"
      BY <1>7 DEF SkipsFilter, At, Steps
    <2> QED
      BY <1>7, <2>1 DEF SkipsFilter, TypeInv
  <1>8. CASE EntersFilter
    <2>1. step' \in [name : Steps, i : 1 .. 8, k : Nat \ {0}] /\ step'.i = 1
      BY <1>8 DEF EntersFilter, At, Steps
    <2> QED
      BY <1>8, <2>1 DEF EntersFilter, TypeInv
  <1>9. CASE MasksWord
    <2>1. F \in Field /\ ti[F] \in Text
      BY <1>1, <1>9 DEF MasksWord
    <2>2. PICK from, to : ti' = [ti EXCEPT ![F] = Masked(ti[F], from, to)]
      BY <1>9 DEF MasksWord, Set
    <2>3. Masked(ti[F], from, to) \in [DOMAIN ti[F] -> Char]
      BY <1>0, <2>1, CharactersOf DEF Masked
    <2>4. Masked(ti[F], from, to) \in Text
      BY <2>1, <2>3, Rewritten
    <2>5. ti' \in [Field -> Text]
      <3> HIDE DEF F
      <3> QED
        BY <2>1, <2>2, <2>4 DEF TypeInv
    <2> QED
      BY <1>9, <2>5 DEF MasksWord, TypeInv
  <1>10. CASE NextWord
    <2>1. /\ step' \in [name : Steps, i : 1 .. 8, k : Nat \ {0}]
          /\ step'.i = step.i /\ step'.name = step.name
      BY <1>10 DEF NextWord, TypeInv
    <2> QED
      BY <1>10, <2>1 DEF NextWord, TypeInv
  <1>11. CASE MasksUnprintable
    <2>1. F \in Field /\ ti[F] \in Text
      BY <1>1, <1>11 DEF MasksUnprintable
    <2> DEFINE r == [j \in DOMAIN ti[F] |->
                        IF ti[F][j] \in Unprintable THEN filter.mask ELSE ti[F][j]]
    <2>2. ti' = [ti EXCEPT ![F] = r]
      BY <1>11 DEF MasksUnprintable, Set
    <2>3. r \in [DOMAIN ti[F] -> Char]
      BY <1>0, <2>1, CharactersOf
    <2>4. r \in Text
      <3> HIDE DEF r, F
      <3> QED
        BY <2>1, <2>3, Rewritten
    <2>5. ti' \in [Field -> Text]
      <3> HIDE DEF F, r
      <3> QED
        BY <2>1, <2>2, <2>4 DEF TypeInv
    <2>6. step' = NextField("filter") /\ step.i \in 1 .. 3
      BY <1>11 DEF MasksUnprintable, TypeInv
    <2>7. /\ step' \in [name : Steps, i : 1 .. 8, k : Nat \ {0}]
          /\ step'.name \in {"validate", "filter"} => step'.i \in 1 .. 3
      BY <2>6, NextFieldIs
    <2> QED
      BY <1>11, <2>5, <2>7 DEF MasksUnprintable, TypeInv
  <1>12. CASE Substitute
    <2> DEFINE d == Directive[step.i]
               buf == IF step.i = 1 THEN format.text ELSE status
    <2>1. step.i \in 1 .. 8 /\ Len(Directive) = 8
      BY <1>12, DirectiveType DEF Substitute
    <2>2. Value(d) \in Text /\ buf \in Text
      BY <1>0, <2>1, ValueType DEF TypeInv
    <2>3. /\ status' = PutField(buf, d, Value(d))
          /\ exact' = (CountFor(buf, d, Value(d)) = Len(Written(buf, d, Value(d))))
      BY <1>12 DEF Substitute
    <2>4. status' \in Text /\ exact'
      <3> HIDE DEF d, buf
      <3> QED
        BY <2>2, <2>3, FilledInText
    <2>5. /\ step' \in [name : Steps, i : 1 .. 8, k : Nat \ {0}]
          /\ step'.name \in {"format", "done"}
      BY <1>12, <2>1 DEF Substitute, At, Steps
    <2> QED
      BY <1>12, <2>4, <2>5 DEF Substitute, TypeInv
  <1>13. CASE UNCHANGED vars
    BY <1>13 DEF vars, TypeInv
  <1> QED
    BY <1>2, <1>3, <1>4, <1>5, <1>6, <1>7, <1>8, <1>9, <1>10, <1>11, <1>12, <1>13
    DEF Next

(* The state is always what the program means by it: fields and status are *)
(* strings, also after the decoders, the trimming, the repair of broken    *)
(* bytes, the filter and the substitution, none of which reads or writes   *)
(* outside of a text.                                                      *)
THEOREM AnnouncementTypes == Spec => []TypeInv
  BY TypeInvInit, TypeInvStep, PTL DEF Spec

(* The assertion of put_field() (utils.c:121) never fails.                 *)
THEOREM AssertionHolds == Spec => []WritesWhatWasCounted
  <1>1. TypeInv => WritesWhatWasCounted
    BY DEF TypeInv, WritesWhatWasCounted
  <1> QED
    BY <1>1, AnnouncementTypes, PTL

(* The mark of the progress bar is on one of its ten places, for all       *)
(* lengths and positions that are not negative.                            *)
LEMMA MarkIsInside ==
  ASSUME NEW elapsed \in Nat, NEW total \in Nat
  PROVE  Progress(elapsed, total) \in 0 .. 9
  <1>1. CASE total = 0
    BY <1>1 DEF Progress
  <1>2. CASE total > 0
    <2>1. Tenths(elapsed, total) \in Nat
      <3>1. Tenths(elapsed, total) = (elapsed * 10) \div total
        BY <1>2 DEF Tenths
      <3>2. \A a \in Nat : (a * 10) \div total \in Nat
        BY <1>2
      <3> QED
        BY <3>1, <3>2
    <2> QED
      BY <1>2, <2>1 DEF Progress
  <1> QED
    BY <1>1, <1>2

THEOREM MarkOnTheBar == Spec => []BarHasItsMark
  <1>1. TypeInv => BarHasItsMark
    <2> SUFFICES ASSUME TypeInv, format.elapsed >= 0, format.total >= 0
                 PROVE  \E i \in 1 .. 10 : Bar(format.elapsed, format.total)[i] = "|"
      BY DEF BarHasItsMark
    <2>1. Progress(format.elapsed, format.total) \in 0 .. 9
      BY ChoiceTypes, MarkIsInside DEF TypeInv
    <2>2. PICK p \in 0 .. 9 : p = Progress(format.elapsed, format.total)
      BY <2>1
    <2>3. p + 1 \in 1 .. 10 /\ Bar(format.elapsed, format.total)[p + 1] = "|"
      BY <2>2 DEF Bar
    <2> QED
      BY <2>3
  <1> QED
    BY <1>1, AnnouncementTypes, PTL

-----------------------------------------------------------------------------
(* filter(): what is done stays done.  The fields before the one that is   *)
(* worked on are clean; in that one the words before the one that is       *)
(* looked for are gone.                                                    *)
NoWordBefore(text, n) ==
    \A m \in DOMAIN filter.words :
        m < n /\ filter.words[m] # <<>> => Found(text, filter.words[m]) = {}

Clean(text) ==
    /\ NoWordBefore(text, Len(filter.words) + 1)
    /\ \A i \in DOMAIN text : text[i] \notin Unprintable \cup Invalid

FilterInv ==
    /\ step.name = "validate" =>
          \A j \in 1 .. 3 : j < step.i => InvalidIn(ti[Order[j]]) = {}
    /\ step.name \in {"filter?", "filter"} /\ MaskIsHarmless =>
          \A f \in Field : InvalidIn(ti[f]) = {}
    /\ step.name = "filter" =>
          /\ filter.on
          /\ MaskIsForeign /\ MaskIsHarmless =>
                /\ NoWordBefore(ti[Order[step.i]], step.k)
                /\ \A j \in 1 .. 3 : j < step.i => Clean(ti[Order[j]])
    /\ Filtered /\ MaskIsForeign /\ MaskIsHarmless => \A f \in Field : Clean(ti[f])

(* What has been masked so far: listed words of the player's text, and     *)
(* where a masked piece begins or ends, a word of that text does.          *)
WordsMasked(text, from) ==
    \E M \in SUBSET (DOMAIN from) :
        /\ \A i \in M : text[i] = filter.mask /\ InWord(from, i)
        /\ \A i \in DOMAIN from \ M : text[i] = from[i]
        /\ \A i \in 1 .. Len(from) + 1 :
              ~(i \in M <=> i - 1 \in M) => Boundary(from, i)

AllMasked(text, from) ==
    \A i \in DOMAIN text :
        text[i] # from[i] => /\ text[i] = filter.mask
                             /\ from[i] \in Unprintable \/ InWord(from, i)

MaskInv ==
    /\ (step.name = "filter" \/ Filtered) => \A f \in Field : Len(ti[f]) = Len(valid[f])
    /\ MaskIsForeign =>
          /\ step.name = "filter" =>
                \A j \in 1 .. 3 :
                    LET text == ti[Order[j]]
                        from == valid[Order[j]]
                    IN  /\ j < step.i => AllMasked(text, from)
                        /\ j = step.i => WordsMasked(text, from)
                        /\ j > step.i => text = from
          /\ Filtered => \A f \in Field : AllMasked(ti[f], valid[f])

(* A word stands in a text, whatever the case. *)
LEMMA StandsFolded ==
  ASSUME NEW text \in Text, NEW word \in Text, NEW i \in Nat \ {0}
  PROVE  StandsAt(Folded(text), Folded(word), i) <=>
             /\ i + Len(word) - 1 <= Len(text)
             /\ \A m \in 1 .. Len(word) : Lower[text[i + m - 1]] = Lower[word[m]]
  <1>1. ASSUME NEW t \in Text
        PROVE  /\ Folded(t) \in Text /\ Len(Folded(t)) = Len(t)
               /\ \A j \in 1 .. Len(t) : Folded(t)[j] = Lower[t[j]]
    <2>1. Folded(t) \in [DOMAIN t -> Char]
      BY <1>1, CharactersOf, CharAssumption DEF Folded
    <2>2. \A j \in 1 .. Len(t) : Folded(t)[j] = Lower[t[j]]
      BY <1>1, CharactersOf DEF Folded
    <2> QED
      BY <1>1, <2>1, <2>2, Rewritten
  <1>2. /\ Folded(text) \in Seq(Char) /\ Len(Folded(text)) = Len(text)
        /\ Folded(word) \in Seq(Char) /\ Len(Folded(word)) = Len(word)
        /\ Len(text) \in Nat /\ Len(word) \in Nat
    BY <1>1, CharactersOf DEF Text
  <1>3. StandsAt(Folded(text), Folded(word), i) <=>
             /\ i + Len(word) - 1 <= Len(text)
             /\ \A m \in 1 .. Len(word) : Folded(text)[i + m - 1] = Folded(word)[m]
    <2>1. StandsAt(Folded(text), Folded(word), i) <=>
             /\ i + Len(Folded(word)) - 1 <= Len(Folded(text))
             /\ \A m \in 1 .. Len(Folded(word)) : Folded(text)[i + m - 1] = Folded(word)[m]
      BY <1>2, StandsAtIs
    <2> QED
      BY <1>2, <2>1
  <1>4. ASSUME i + Len(word) - 1 <= Len(text), NEW m \in 1 .. Len(word)
        PROVE  /\ Folded(text)[i + m - 1] = Lower[text[i + m - 1]]
               /\ Folded(word)[m] = Lower[word[m]]
    <2>1. i + m - 1 \in 1 .. Len(text)
      BY <1>2, <1>4
    <2> QED
      BY <1>1, <2>1
  <1> QED
    BY <1>3, <1>4

(* A mask that is no character of a word, at the places S of a text        *)
Foreign(word, mask) == \A m \in DOMAIN word : Lower[word[m]] # Lower[mask]

MaskedAt(text, masked, S, mask) ==
    \A i \in DOMAIN text : /\ i \in S => masked[i] = mask
                           /\ i \notin S => masked[i] = text[i]

(* At the edges of S no word begins or ends that did not before.           *)
EdgesKeep(text, masked, word, S) ==
    /\ \A i \in 1 .. Len(text) :
          i \notin S /\ i - 1 \in S /\ Lower[masked[i]] = Lower[word[1]]
          /\ Boundary(masked, i) => Boundary(text, i)
    /\ \A i \in 2 .. Len(text) + 1 :
          i - 1 \notin S /\ i \in S /\ Lower[masked[i - 1]] = Lower[word[Len(word)]]
          /\ Boundary(masked, i) => Boundary(text, i)

(* Where characters are replaced by a mask that is in no word, no word     *)
(* appears which was not there, if none does at the edges.                 *)
LEMMA NoWordAppears ==
  ASSUME NEW text \in Text, NEW masked \in Text, Len(masked) = Len(text),
         NEW word \in Text, word # <<>>, NEW S, NEW mask,
         Foreign(word, mask), MaskedAt(text, masked, S, mask),
         EdgesKeep(text, masked, word, S)
  PROVE  Found(masked, word) \subseteq Found(text, word)
  <1>1. /\ Len(text) \in Nat /\ DOMAIN text = 1 .. Len(text)
        /\ DOMAIN masked = 1 .. Len(text)
        /\ Len(word) \in Nat \ {0} /\ DOMAIN word = 1 .. Len(word)
    BY CharactersOf, EmptySeq DEF Text
  <1> SUFFICES ASSUME NEW j \in Found(masked, word) PROVE j \in Found(text, word)
    OBVIOUS
  <1>2. /\ j \in 1 .. Len(text) /\ StandsAt(Folded(masked), Folded(word), j)
        /\ Boundary(masked, j) /\ Boundary(masked, j + Len(word))
    BY <1>1 DEF Found
  <1>3. /\ j + Len(word) - 1 <= Len(text)
        /\ \A m \in 1 .. Len(word) : Lower[masked[j + m - 1]] = Lower[word[m]]
    <2>1. j \in Nat \ {0}
      BY <1>1, <1>2
    <2> QED
      BY <1>2, <2>1, StandsFolded
  <1>4. \A m \in 1 .. Len(word) : /\ j + m - 1 \in 1 .. Len(text)
                                  /\ j + m - 1 \notin S
                                  /\ text[j + m - 1] = masked[j + m - 1]
                                  /\ Lower[text[j + m - 1]] = Lower[word[m]]
    <2> TAKE m \in 1 .. Len(word)
    <2>1. j + m - 1 \in 1 .. Len(text)
      BY <1>1, <1>2, <1>3
    <2>2. j + m - 1 \notin S
      BY <1>1, <1>3, <2>1 DEF Foreign, MaskedAt
    <2> QED
      BY <1>1, <1>3, <2>1, <2>2 DEF MaskedAt
  <1>5. StandsAt(Folded(text), Folded(word), j)
    <2>1. j \in Nat \ {0}
      BY <1>1, <1>2
    <2>2. StandsAt(Folded(text), Folded(word), j) <=>
             /\ j + Len(word) - 1 <= Len(text)
             /\ \A m \in 1 .. Len(word) : Lower[text[j + m - 1]] = Lower[word[m]]
      BY <2>1, StandsFolded
    <2> QED
      BY <1>3, <1>4, <2>2, Zenon
  <1> DEFINE e == j + Len(word)
  <1>6. /\ j \notin S /\ Lower[masked[j]] = Lower[word[1]]
        /\ e - 1 \in 1 .. Len(text) /\ e - 1 \notin S
        /\ Lower[masked[e - 1]] = Lower[word[Len(word)]]
        /\ e \in 2 .. Len(text) + 1
    <2>1. /\ 1 \in 1 .. Len(word) /\ Len(word) \in 1 .. Len(word) /\ j + 1 - 1 = j
          /\ e - 1 = j + Len(word) - 1 /\ e \in 2 .. Len(text) + 1
      BY <1>1, <1>2, <1>3
    <2>2. j \notin S /\ Lower[masked[j]] = Lower[word[1]]
      BY <1>3, <1>4, <2>1
    <2> HIDE DEF e
    <2>3. /\ e - 1 \in 1 .. Len(text) /\ e - 1 \notin S
          /\ Lower[masked[e - 1]] = Lower[word[Len(word)]]
      BY <1>3, <1>4, <2>1
    <2> QED
      BY <2>1, <2>2, <2>3
  <1>7. ASSUME NEW i \in Int, i \notin S
        PROVE  IsLetter(masked, i) <=> IsLetter(text, i)
    BY <1>1, <1>7 DEF IsLetter, MaskedAt
  <1>8. Boundary(text, j)
    <2>1. CASE j - 1 \in S
      BY <1>2, <1>6, <2>1 DEF EdgesKeep
    <2>2. CASE j - 1 \notin S
      <3>1. j - 1 \in Int /\ j \in Int
        BY <1>1, <1>2
      <3>2. /\ IsLetter(masked, j - 1) <=> IsLetter(text, j - 1)
            /\ IsLetter(masked, j) <=> IsLetter(text, j)
        BY <1>6, <1>7, <2>2, <3>1
      <3> QED
        BY <1>2, <3>2 DEF Boundary, IsLetter
    <2> QED
      BY <2>1, <2>2
  <1>9. Boundary(text, e)
    <2>0. Boundary(masked, e) /\ e - 1 \in Int /\ e \in Int
      BY <1>1, <1>2
    <2> HIDE DEF e
    <2>1. CASE e \in S
      BY <1>6, <2>0, <2>1 DEF EdgesKeep
    <2>2. CASE e \notin S
      <3>1. /\ IsLetter(masked, e - 1) <=> IsLetter(text, e - 1)
            /\ IsLetter(masked, e) <=> IsLetter(text, e)
        BY <1>6, <1>7, <2>0, <2>2
      <3> QED
        BY <2>0, <3>1 DEF Boundary, IsLetter
    <2> QED
      BY <2>1, <2>2
  <1> QED
    BY <1>1, <1>2, <1>5, <1>8, <1>9 DEF Found

(* The place that filter() masks: a word by itself.                        *)
LEMMA HitIs ==
  ASSUME NEW text \in Text, NEW word \in Text, word # <<>>, Found(text, word) # {}
  PROVE  LET from == Min(Found(text, word))
             to == from + Len(word) - 1
         IN  /\ from \in 1 .. Len(text) /\ to \in from .. Len(text)
             /\ StandsAt(Folded(text), Folded(word), from)
             /\ \A i \in from .. to : Lower[text[i]] = Lower[word[i - from + 1]]
             /\ Boundary(text, from) /\ Boundary(text, to + 1)
  <1> DEFINE from == Min(Found(text, word))
             to == from + Len(word) - 1
  <1>1. /\ Len(text) \in Nat /\ DOMAIN text = 1 .. Len(text)
        /\ Len(word) \in Nat \ {0}
    BY CharactersOf, EmptySeq DEF Text
  <1>2. Found(text, word) \in SUBSET Nat
    BY <1>1 DEF Found
  <1>3. from \in Found(text, word)
    BY <1>2, Least
  <1> HIDE DEF from
  <1>4. /\ from \in 1 .. Len(text) /\ StandsAt(Folded(text), Folded(word), from)
        /\ Boundary(text, from) /\ Boundary(text, from + Len(word))
    BY <1>1, <1>3 DEF Found
  <1>5. /\ from + Len(word) - 1 <= Len(text)
        /\ \A m \in 1 .. Len(word) : Lower[text[from + m - 1]] = Lower[word[m]]
    BY <1>4, StandsFolded
  <1>6. to \in from .. Len(text) /\ to + 1 = from + Len(word)
    BY <1>1, <1>4, <1>5
  <1>7. ASSUME NEW i \in from .. to PROVE Lower[text[i]] = Lower[word[i - from + 1]]
    <2>1. i - from + 1 \in 1 .. Len(word) /\ from + (i - from + 1) - 1 = i
      BY <1>1, <1>4
    <2> DEFINE m == i - from + 1
    <2>2. Lower[text[from + m - 1]] = Lower[word[m]]
      BY <1>5, <2>1
    <2> QED
      BY <2>1, <2>2, Zenon
  <1> HIDE DEF to
  <1> QED
    BY <1>4, <1>6, <1>7 DEF from, to

LEMMA WordsAre ==
  ASSUME filter \in Filters
  PROVE  /\ DOMAIN filter.words = 1 .. Len(filter.words) /\ Len(filter.words) \in Nat
         /\ \A m \in DOMAIN filter.words :
               /\ filter.words[m] \in Text
               /\ filter.words[m] # <<>> => filter.words[m] \in Words
         /\ \A word \in Words : /\ word \in Text /\ word # <<>> /\ 1 \in DOMAIN word
                                /\ Len(word) \in DOMAIN word
  <1>1. filter.words \in Seq(Text)
    BY ChoiceTypes, FiltersAssumption DEF Text
  <1>2. DOMAIN filter.words = 1 .. Len(filter.words) /\ Len(filter.words) \in Nat
    BY <1>1, LenProperties
  <1>3. \A m \in DOMAIN filter.words : filter.words[m] \in Text
    BY <1>1, <1>2, ElementOfSeq
  <1>4. \A word \in Words : word \in Text /\ word # <<>>
    BY <1>3 DEF Words
  <1>5. \A word \in Words : 1 \in DOMAIN word /\ Len(word) \in DOMAIN word
    <2> TAKE word \in Words
    <2>1. Len(word) \in Nat \ {0} /\ DOMAIN word = 1 .. Len(word)
      BY <1>4, CharactersOf, EmptySeq DEF Text
    <2> QED
      BY <2>1
  <1> QED
    BY <1>2, <1>3, <1>4, <1>5 DEF Words

(* The masking of one word, *)
LEMMA MaskedIs ==
  ASSUME filter \in Filters, NEW text \in Text, NEW from, NEW to
  PROVE  /\ Masked(text, from, to) \in Text
         /\ Len(Masked(text, from, to)) = Len(text)
         /\ DOMAIN Masked(text, from, to) = DOMAIN text
         /\ \A i \in DOMAIN text :
               Masked(text, from, to)[i] =
                  IF i >= from /\ i <= to THEN filter.mask ELSE text[i]
  <1>1. Masked(text, from, to) \in [DOMAIN text -> Char]
    BY ChoiceTypes, FiltersAssumption, CharactersOf DEF Masked
  <1> QED
    BY <1>1, Rewritten DEF Masked

LEMMA WordMasked ==
  ASSUME filter \in Filters, MaskIsForeign, NEW text \in Text, NEW n,
         NoWordBefore(text, n), NEW hit \in Text, hit # <<>>, Found(text, hit) # {}
  PROVE  LET from == Min(Found(text, hit))
         IN  NoWordBefore(Masked(text, from, from + Len(hit) - 1), n)
  <1> DEFINE from == Min(Found(text, hit))
             to == from + Len(hit) - 1
             masked == Masked(text, from, to)
  <1>1. /\ from \in 1 .. Len(text) /\ to \in from .. Len(text)
        /\ Boundary(text, from) /\ Boundary(text, to + 1)
    BY HitIs
  <1> HIDE DEF from, to
  <1>2. /\ masked \in Text /\ Len(masked) = Len(text)
        /\ \A i \in DOMAIN text :
              masked[i] = IF i >= from /\ i <= to THEN filter.mask ELSE text[i]
        /\ DOMAIN text = 1 .. Len(text) /\ Len(text) \in Nat
    BY MaskedIs, CharactersOf
  <1> HIDE DEF masked
  <1> SUFFICES ASSUME NEW m \in DOMAIN filter.words, m < n, filter.words[m] # <<>>
               PROVE  Found(masked, filter.words[m]) = {}
    BY DEF NoWordBefore, masked, from, to
  <1> DEFINE word == filter.words[m]
             S == from .. to
  <1>3. /\ word \in Text /\ word # <<>>
        /\ Foreign(word, filter.mask)
    BY WordsAre DEF MaskIsForeign, Foreign
  <1>4. MaskedAt(text, masked, S, filter.mask)
    BY <1>1, <1>2 DEF MaskedAt
  <1>5. \A i \in 1 .. Len(text) :
             i \notin S /\ i - 1 \in S /\ Lower[masked[i]] = Lower[word[1]]
             /\ Boundary(masked, i) => Boundary(text, i)
    <2> TAKE i \in 1 .. Len(text)
    <2>1. i \notin S /\ i - 1 \in S => i = to + 1
      BY <1>1
    <2> QED
      BY <1>1, <2>1
  <1>6. \A i \in 2 .. Len(text) + 1 :
             i - 1 \notin S /\ i \in S /\ Lower[masked[i - 1]] = Lower[word[Len(word)]]
             /\ Boundary(masked, i) => Boundary(text, i)
    <2> TAKE i \in 2 .. Len(text) + 1
    <2>1. i - 1 \notin S /\ i \in S => i = from
      BY <1>1
    <2> QED
      BY <1>1, <2>1
  <1>7. Found(masked, word) \subseteq Found(text, word)
    <2> HIDE DEF S, word
    <2>1. EdgesKeep(text, masked, word, S)
      BY <1>5, <1>6 DEF EdgesKeep
    <2> QED
      BY <1>2, <1>3, <1>4, <2>1, NoWordAppears
  <1>8. Found(text, word) = {}
    BY DEF NoWordBefore
  <1> QED
    BY <1>7, <1>8

(* and of the characters that cannot be printed, bring no word to light.   *)
LEMMA UnprintableMasked ==
  ASSUME filter \in Filters, MaskIsForeign, MaskIsHarmless, NEW text \in Text,
         NEW n, NoWordBefore(text, n),
         NEW masked, masked = [j \in DOMAIN text |-> IF text[j] \in Unprintable
                                                     THEN filter.mask ELSE text[j]]
  PROVE  NoWordBefore(masked, n)
  <1> SUFFICES ASSUME NEW m \in DOMAIN filter.words, m < n, filter.words[m] # <<>>
               PROVE  Found(masked, filter.words[m]) = {}
    BY DEF NoWordBefore
  <1> DEFINE word == filter.words[m]
             S == {j \in DOMAIN text : text[j] \in Unprintable}
  <1>1. /\ word \in Text /\ word # <<>> /\ word \in Words
        /\ Foreign(word, filter.mask)
    BY WordsAre DEF MaskIsForeign, Foreign
  <1>2. DOMAIN text = 1 .. Len(text) /\ Len(text) \in Nat
    BY CharactersOf
  <1>3. masked \in Text /\ Len(masked) = Len(text) /\ DOMAIN masked = DOMAIN text
    <2>1. masked \in [DOMAIN text -> Char]
      BY ChoiceTypes, FiltersAssumption, CharactersOf
    <2> QED
      BY <2>1, Rewritten
  <1>4. MaskedAt(text, masked, S, filter.mask)
    BY DEF MaskedAt
  <1>5. \A i \in S : i \in DOMAIN text /\ text[i] \notin Letter
    BY CharAssumption
  <1>6. ASSUME filter.mask \in Letter, NEW c \in Char,
               Lower[c] \in {Lower[word[1]], Lower[word[Len(word)]]}
        PROVE  c \in Letter
    BY <1>1, <1>6 DEF MaskIsHarmless
  <1> HIDE DEF S, word
  <1>7. \A i \in 1 .. Len(text) :
             i \notin S /\ i - 1 \in S /\ Lower[masked[i]] = Lower[word[1]]
             /\ Boundary(masked, i) => Boundary(text, i)
    <2> SUFFICES ASSUME NEW i \in 1 .. Len(text), i \notin S, i - 1 \in S,
                        Lower[masked[i]] = Lower[word[1]], Boundary(masked, i)
                 PROVE  Boundary(text, i)
      OBVIOUS
    <2>1. /\ i \in DOMAIN text /\ masked[i] = text[i]
          /\ i - 1 \in DOMAIN text /\ masked[i - 1] = filter.mask
          /\ text[i - 1] \notin Letter
      BY <1>2, <1>4, <1>5 DEF MaskedAt
    <2>2. filter.mask \in Letter => masked[i] \in Letter
      BY <1>6, <2>1, CharactersOf
    <2> QED
      BY <1>3, <2>1, <2>2 DEF Boundary, IsLetter
  <1>8. \A i \in 2 .. Len(text) + 1 :
             i - 1 \notin S /\ i \in S /\ Lower[masked[i - 1]] = Lower[word[Len(word)]]
             /\ Boundary(masked, i) => Boundary(text, i)
    <2> SUFFICES ASSUME NEW i \in 2 .. Len(text) + 1, i - 1 \notin S, i \in S,
                        Lower[masked[i - 1]] = Lower[word[Len(word)]], Boundary(masked, i)
                 PROVE  Boundary(text, i)
      OBVIOUS
    <2>1. /\ i \in DOMAIN text /\ masked[i] = filter.mask /\ text[i] \notin Letter
          /\ i - 1 \in DOMAIN text /\ masked[i - 1] = text[i - 1]
      BY <1>2, <1>4, <1>5 DEF MaskedAt
    <2>2. filter.mask \in Letter => masked[i - 1] \in Letter
      BY <1>6, <2>1, CharactersOf
    <2> QED
      BY <1>3, <2>1, <2>2 DEF Boundary, IsLetter
  <1>9. Found(masked, word) \subseteq Found(text, word)
    <2>1. EdgesKeep(text, masked, word, S)
      BY <1>7, <1>8 DEF EdgesKeep
    <2> QED
      BY <1>1, <1>3, <1>4, <2>1, NoWordAppears
  <1>10. Found(text, word) = {}
    BY DEF NoWordBefore, word
  <1> QED
    BY <1>9, <1>10 DEF word

LEMMA FilterInvStep == TypeInv /\ FilterInv /\ [Next]_vars => FilterInv'
  <1> SUFFICES ASSUME TypeInv, FilterInv, [Next]_vars PROVE FilterInv'
    OBVIOUS
  <1> DEFINE F == Order[step.i]
             Good == MaskIsForeign /\ MaskIsHarmless
  <1>0. /\ filter' = filter /\ filter \in Filters
        /\ MaskIsForeign' = MaskIsForeign /\ MaskIsHarmless' = MaskIsHarmless
    <2>1. filter' = filter
      BY DEF Next, vars, Hear, TrimFields, Converts, ReplacesByte, IsValid, SkipsFilter,
         EntersFilter, MasksWord, NextWord, MasksUnprintable, Substitute
    <2> QED
      BY <2>1 DEF TypeInv, MaskIsForeign, MaskIsHarmless, Words
  <1>1. ASSUME step.name \in {"validate", "filter"}
        PROVE  /\ step.i \in 1 .. 3 /\ F \in Field /\ ti[F] \in Text
               /\ \A j \in 1 .. 3 : j # step.i => Order[j] # F /\ Order[j] \in Field
    BY <1>1, OrderType DEF TypeInv
  <1>2. ASSUME NEW e \in {"none", "url", "xml"}, Hear(e) PROVE FilterInv'
    BY <1>2 DEF Hear, At, FilterInv, Filtered
  <1>3. CASE TrimFields
    BY <1>3 DEF TrimFields, At, FilterInv, Filtered
  <1>4. CASE Converts \/ ReplacesByte
    <2>1. /\ step.name = "validate" /\ step'.name = "validate" /\ step'.i = step.i
      BY <1>4 DEF Converts, ReplacesByte, TypeInv
    <2>2. PICK r : ti' = [ti EXCEPT ![F] = r]
      BY <1>4 DEF Converts, ReplacesByte, Set
    <2>3. \A j \in 1 .. 3 : j < step.i => ti'[Order[j]] = ti[Order[j]]
      BY <1>1, <2>1, <2>2 DEF TypeInv
    <2> QED
      BY <2>1, <2>3 DEF FilterInv, Filtered
  <1>5. CASE IsValid
    <2>1. /\ step.name = "validate" /\ InvalidIn(ti[F]) = {} /\ ti' = ti
          /\ step' = NextField("validate")
      BY <1>5 DEF IsValid
    <2>2. \A j \in 1 .. 3 : j < step.i + 1 => InvalidIn(ti[Order[j]]) = {}
      <3> TAKE j \in 1 .. 3
      <3>1. j < step.i + 1 => j < step.i \/ j = step.i
        BY <1>1, <2>1
      <3> QED
        BY <2>1, <3>1 DEF FilterInv
    <2>3. CASE step.i < 3
      <3>1. step'.name = "validate" /\ step'.i = step.i + 1
        BY <1>1, <2>1, <2>3, NextFieldIs DEF At
      <3> QED
        BY <2>1, <2>2, <3>1 DEF FilterInv, Filtered
    <2>4. CASE ~(step.i < 3)
      <3>1. step'.name = "filter?"
        BY <1>1, <2>1, <2>4, NextFieldIs DEF At
      <3>2. \A f \in Field : InvalidIn(ti[f]) = {}
        BY <1>1, <2>1, <2>2, <2>4, OrderType
      <3> QED
        BY <2>1, <3>1, <3>2 DEF FilterInv, Filtered
    <2> QED
      BY <2>3, <2>4
  <1>6. CASE SkipsFilter
    BY <1>0, <1>6 DEF SkipsFilter, At, FilterInv, Filtered
  <1>7. CASE EntersFilter
    <2>1. /\ step.name = "filter?" /\ filter.on /\ ti' = ti
          /\ step'.name = "filter" /\ step'.i = 1 /\ step'.k = 1
      BY <1>7 DEF EntersFilter, At
    <2>2. \A m \in DOMAIN filter.words : ~(m < 1)
      BY <1>0, WordsAre
    <2> QED
      <3>1. MaskIsHarmless' => \A f \in Field : InvalidIn(ti'[f]) = {}
        BY <1>0, <2>1 DEF FilterInv
      <3>2. NoWordBefore(ti[Order[step.i]], step.k)'
        BY <1>0, <2>1, <2>2 DEF NoWordBefore
      <3>3. \A j \in 1 .. 3 : ~(j < step'.i)
        BY <2>1
      <3>4. filter'.on /\ step'.name = "filter"
        BY <1>0, <2>1
      <3> QED
        BY <3>1, <3>2, <3>3, <3>4 DEF FilterInv, Filtered
  <1>8. CASE MasksWord
    <2> DEFINE word == filter.words[step.k]
               from == Min(Found(ti[F], word))
               to == from + Len(word) - 1
    <2>1. /\ step.name = "filter" /\ step.k \in DOMAIN filter.words
          /\ word # <<>> /\ Found(ti[F], word) # {} /\ step' = step
          /\ ti' = [ti EXCEPT ![F] = Masked(ti[F], from, to)]
      BY <1>8 DEF MasksWord, Set
    <2>2. word \in Text
      BY <1>0, <2>1, WordsAre
    <2> HIDE DEF to, from, word, F
    <2>3. /\ ti'[F] = Masked(ti[F], from, to)
          /\ \A f \in Field : f # F => ti'[f] = ti[f]
      BY <1>1, <2>1 DEF TypeInv
    <2>4. Good => NoWordBefore(ti'[F], step.k)
      <3> SUFFICES ASSUME Good PROVE NoWordBefore(ti'[F], step.k)
        OBVIOUS
      <3>1. NoWordBefore(ti[F], step.k)
        BY <2>1 DEF FilterInv, F
      <3>2. NoWordBefore(Masked(ti[F], from, to), step.k)
        BY <1>0, <1>1, <2>1, <2>2, <3>1, WordMasked DEF from, to
      <3> QED
        BY <2>3, <3>2
    <2>5. MaskIsHarmless => InvalidIn(ti'[F]) = {}
      <3>1. MaskIsHarmless => InvalidIn(ti[F]) = {}
        BY <1>1, <2>1 DEF FilterInv
      <3>2. MaskIsHarmless => filter.mask \notin Invalid
        BY DEF MaskIsHarmless
      <3> QED
        BY <1>0, <1>1, <2>1, <2>3, <3>1, <3>2, MaskedIs DEF InvalidIn
    <2>6. \A f \in Field : MaskIsHarmless => InvalidIn(ti'[f]) = {}
      BY <2>1, <2>3, <2>5 DEF FilterInv
    <2>7. \A j \in 1 .. 3 : Good /\ j < step.i => Clean(ti'[Order[j]])
      <3> TAKE j \in 1 .. 3
      <3>1. j < step.i => ti'[Order[j]] = ti[Order[j]]
        BY <1>1, <2>1, <2>3
      <3> QED
        BY <2>1, <3>1 DEF FilterInv
    <2> QED
      BY <1>0, <2>1, <2>4, <2>6, <2>7 DEF FilterInv, Filtered, Clean, NoWordBefore, F
  <1>9. CASE NextWord
    <2>1. /\ step.name = "filter" /\ step.k \in DOMAIN filter.words /\ ti' = ti
          /\ filter.words[step.k] = <<>> \/ Found(ti[F], filter.words[step.k]) = {}
          /\ step'.name = "filter" /\ step'.i = step.i /\ step'.k = step.k + 1
      BY <1>9 DEF NextWord, TypeInv
    <2>2. NoWordBefore(ti[F], step.k) => NoWordBefore(ti[F], step.k + 1)
      <3> SUFFICES ASSUME NoWordBefore(ti[F], step.k), NEW m \in DOMAIN filter.words,
                          m < step.k + 1, filter.words[m] # <<>>
                   PROVE  Found(ti[F], filter.words[m]) = {}
        BY DEF NoWordBefore
      <3>1. m < step.k \/ m = step.k
        BY <1>0, <2>1, WordsAre
      <3> QED
        BY <2>1, <3>1 DEF NoWordBefore
    <2> QED
      BY <1>0, <2>1, <2>2 DEF FilterInv, Filtered, Clean, NoWordBefore
  <1>10. CASE MasksUnprintable
    <2> DEFINE masked == [j \in DOMAIN ti[F] |-> IF ti[F][j] \in Unprintable
                                               THEN filter.mask ELSE ti[F][j]]
    <2>1. /\ step.name = "filter" /\ step.k = Len(filter.words) + 1
          /\ ti' = [ti EXCEPT ![F] = masked] /\ step' = NextField("filter")
      BY <1>10 DEF MasksUnprintable, Set
    <2> HIDE DEF F
    <2>2. MaskIsHarmless => InvalidIn(masked) = {}
      <3>1. MaskIsHarmless => InvalidIn(ti[F]) = {}
        BY <1>1, <2>1 DEF FilterInv
      <3>2. MaskIsHarmless => filter.mask \notin Invalid
        BY DEF MaskIsHarmless
      <3> QED
        BY <3>1, <3>2 DEF InvalidIn
    <2>3. Good => Clean(masked)
      <3> SUFFICES ASSUME Good PROVE Clean(masked)
        OBVIOUS
      <3>1. NoWordBefore(ti[F], step.k)
        BY <2>1 DEF FilterInv, F
      <3>2. \E x : x = masked
        OBVIOUS
      <3>3. NoWordBefore(masked, Len(filter.words) + 1)
        BY <1>0, <1>1, <2>1, <3>1, <3>2, UnprintableMasked
      <3>4. \A i \in DOMAIN masked : masked[i] \notin Unprintable \cup Invalid
        BY <2>2 DEF MaskIsHarmless, InvalidIn
      <3> QED
        BY <3>3, <3>4 DEF Clean
    <2> HIDE DEF masked
    <2>4. ti'[F] = masked /\ \A f \in Field : f # F => ti'[f] = ti[f]
      BY <1>1, <2>1 DEF TypeInv
    <2>5. \A j \in 1 .. 3 : Good /\ j < step.i + 1 => Clean(ti'[Order[j]])
      <3> TAKE j \in 1 .. 3
      <3>1. j < step.i + 1 => j < step.i \/ j = step.i
        BY <1>1, <2>1
      <3>2. j < step.i => ti'[Order[j]] = ti[Order[j]]
        BY <1>1, <2>1, <2>4
      <3>3. j = step.i => Order[j] = F
        BY DEF F
      <3> QED
        BY <2>1, <2>3, <2>4, <3>1, <3>2, <3>3 DEF FilterInv
    <2>6. \A f \in Field : MaskIsHarmless => InvalidIn(ti'[f]) = {}
      BY <2>1, <2>2, <2>4 DEF FilterInv
    <2>7. CASE step.i < 3
      <3>1. step'.name = "filter" /\ step'.i = step.i + 1 /\ step'.k = 1
        BY <1>1, <2>1, <2>7, NextFieldIs DEF At
      <3>2. \A m \in DOMAIN filter.words : ~(m < 1)
        BY <1>0, WordsAre
      <3> QED
        BY <1>0, <2>1, <2>5, <2>6, <3>1, <3>2
        DEF FilterInv, Filtered, Clean, NoWordBefore
    <2>8. CASE ~(step.i < 3)
      <3>1. step'.name = "format"
        BY <1>1, <2>1, <2>8, NextFieldIs DEF At
      <3>2. Good => \A f \in Field : Clean(ti'[f])
        BY <1>1, <2>1, <2>5, <2>8, OrderType
      <3> QED
        BY <1>0, <2>1, <3>1, <3>2 DEF FilterInv, Filtered, Clean, NoWordBefore
    <2> QED
      BY <2>7, <2>8
  <1>11. CASE Substitute
    <2>1. /\ step.name = "format" /\ step'.name \in {"format", "done"} /\ ti' = ti
      BY <1>11 DEF Substitute, At
    <2> QED
      BY <1>0, <2>1 DEF FilterInv, Filtered, Clean, NoWordBefore
  <1>12. CASE UNCHANGED vars
    BY <1>0, <1>12 DEF vars, FilterInv, Filtered, Clean, NoWordBefore
  <1> QED
    BY <1>2, <1>3, <1>4, <1>5, <1>6, <1>7, <1>8, <1>9, <1>10, <1>11, <1>12 DEF Next

(* Behind the filter no listed word is left, in whatever case, and nothing *)
(* that cannot be printed, whatever the texts, the words and their order.  *)
THEOREM FilterHidesWords == Spec => []NothingListedIsShown
  <1>1. Init => FilterInv
    BY DEF Init, At, FilterInv, Filtered
  <1>2. TypeInv /\ FilterInv => NothingListedIsShown
    <2> SUFFICES ASSUME TypeInv, FilterInv, Filtered, MaskIsForeign, MaskIsHarmless,
                        NEW f \in Field
                 PROVE  \A i \in DOMAIN ti[f] :
                            ~InWord(ti[f], i) /\ ti[f][i] \notin Unprintable \cup Invalid
      BY DEF NothingListedIsShown
    <2>1. Clean(ti[f])
      BY DEF FilterInv
    <2>2. \A m \in DOMAIN filter.words : m < Len(filter.words) + 1
      BY WordsAre DEF TypeInv
    <2>3. \A word \in Words : Found(ti[f], word) = {}
      BY <2>1, <2>2 DEF Clean, NoWordBefore, Words
    <2>4. \A i : ~InWord(ti[f], i)
      BY <2>3 DEF InWord, Found
    <2> QED
      BY <2>1, <2>4 DEF Clean
  <1> QED
    BY <1>1, <1>2, AnnouncementTypes, FilterInvStep, PTL DEF Spec

-----------------------------------------------------------------------------
(* A text is masked from itself.                                           *)
LEMMA NothingMasked ==
  ASSUME NEW text \in Text
  PROVE  WordsMasked(text, text)
  <1>1. {} \in SUBSET (DOMAIN text)
    OBVIOUS
  <1> QED
    BY <1>1 DEF WordsMasked

(* A word that is found in what is left of the player's text was a word of *)
(* that text: the mask is in no word, and where a masked piece touches it  *)
(* a word ended or began there already.                                    *)
LEMMA OneMoreMasked ==
  ASSUME filter \in Filters, MaskIsForeign, NEW text \in Text, NEW from \in Text,
         Len(text) = Len(from), WordsMasked(text, from),
         NEW word \in Words, Found(text, word) # {}
  PROVE  LET hit == Min(Found(text, word))
         IN  WordsMasked(Masked(text, hit, hit + Len(word) - 1), from)
  <1> DEFINE hit == Min(Found(text, word))
             to == hit + Len(word) - 1
             masked == Masked(text, hit, to)
  <1>1. word \in Text /\ word # <<>> /\ Foreign(word, filter.mask)
    BY WordsAre DEF MaskIsForeign, Foreign
  <1>2. /\ DOMAIN from = 1 .. Len(from) /\ Len(from) \in Nat
        /\ DOMAIN text = 1 .. Len(from)
        /\ DOMAIN word = 1 .. Len(word) /\ Len(word) \in Nat \ {0}
    BY <1>1, CharactersOf, EmptySeq DEF Text
  <1>3. /\ hit \in 1 .. Len(from) /\ to \in hit .. Len(from)
        /\ StandsAt(Folded(text), Folded(word), hit)
        /\ \A i \in hit .. to : Lower[text[i]] = Lower[word[i - hit + 1]]
        /\ Boundary(text, hit) /\ Boundary(text, to + 1)
    BY <1>1, HitIs
  <1>4. to = hit + Len(word) - 1
    OBVIOUS
  <1>5. /\ DOMAIN masked = 1 .. Len(from)
        /\ \A i \in 1 .. Len(from) :
              masked[i] = IF i >= hit /\ i <= to THEN filter.mask ELSE text[i]
    BY <1>2, MaskedIs
  <1> HIDE DEF hit, to, masked
  <1>6. PICK M \in SUBSET (DOMAIN from) :
             /\ \A i \in M : text[i] = filter.mask /\ InWord(from, i)
             /\ \A i \in DOMAIN from \ M : text[i] = from[i]
             /\ \A i \in 1 .. Len(from) + 1 :
                   ~(i \in M <=> i - 1 \in M) => Boundary(from, i)
    BY DEF WordsMasked
  <1>7. \A i \in hit .. to : i \in 1 .. Len(from) /\ i \notin M /\ from[i] = text[i]
    <2> TAKE i \in hit .. to
    <2>1. i \in 1 .. Len(from) /\ i - hit + 1 \in DOMAIN word
      BY <1>2, <1>3, <1>4
    <2>2. text[i] # filter.mask
      BY <1>1, <1>3, <2>1 DEF Foreign
    <2> QED
      BY <1>2, <1>6, <2>1, <2>2
  <1>8. StandsAt(Folded(from), Folded(word), hit)
    <2>1. hit \in Nat \ {0}
      BY <1>2, <1>3
    <2>2. /\ hit + Len(word) - 1 <= Len(text)
          /\ \A m \in 1 .. Len(word) : Lower[text[hit + m - 1]] = Lower[word[m]]
      BY <1>1, <1>3, <2>1, StandsFolded
    <2>3. \A m \in 1 .. Len(word) : Lower[from[hit + m - 1]] = Lower[word[m]]
      <3> TAKE m \in 1 .. Len(word)
      <3>1. hit + m - 1 \in hit .. to
        BY <1>2, <1>3, <1>4
      <3> QED
        BY <1>7, <2>2, <3>1
    <2> QED
      BY <1>1, <2>1, <2>2, <2>3, StandsFolded
  <1>9. ASSUME NEW i \in Int, i \notin M
        PROVE  IsLetter(text, i) <=> IsLetter(from, i)
    BY <1>2, <1>6, <1>9 DEF IsLetter
  <1>10. Boundary(from, hit)
    <2>1. hit \notin M /\ hit \in Int /\ hit - 1 \in Int /\ hit \in 1 .. Len(from) + 1
      BY <1>2, <1>3, <1>7
    <2>2. CASE hit - 1 \in M
      BY <1>6, <2>1, <2>2
    <2>3. CASE hit - 1 \notin M
      <3>1. /\ IsLetter(text, hit - 1) <=> IsLetter(from, hit - 1)
            /\ IsLetter(text, hit) <=> IsLetter(from, hit)
        BY <1>9, <2>1, <2>3
      <3> QED
        BY <1>3, <3>1 DEF Boundary, IsLetter
    <2> QED
      BY <2>2, <2>3
  <1>11. Boundary(from, to + 1)
    <2>1. /\ to \notin M /\ to \in Int /\ to + 1 \in Int /\ to + 1 - 1 = to
          /\ to + 1 \in 1 .. Len(from) + 1
      BY <1>2, <1>3, <1>7
    <2>2. CASE to + 1 \in M
      BY <1>6, <2>1, <2>2
    <2>3. CASE to + 1 \notin M
      <3>1. /\ IsLetter(text, to) <=> IsLetter(from, to)
            /\ IsLetter(text, to + 1) <=> IsLetter(from, to + 1)
        BY <1>9, <2>1, <2>3
      <3> QED
        BY <1>3, <2>1, <3>1 DEF Boundary, IsLetter
    <2> QED
      BY <2>2, <2>3
  <1>12. \A i \in hit .. to : InWord(from, i)
    <2>1. hit + Len(word) = to + 1 /\ hit + Len(word) - 1 = to /\ hit \in DOMAIN from
      BY <1>2, <1>3, <1>4
    <2> QED
      BY <1>8, <1>10, <1>11, <2>1 DEF InWord
  <1> DEFINE N == M \cup (hit .. to)
  <1>13. N \in SUBSET (DOMAIN from)
    BY <1>2, <1>6, <1>7
  <1>14. \A i \in N : masked[i] = filter.mask /\ InWord(from, i)
    BY <1>2, <1>3, <1>5, <1>6, <1>12
  <1>15. \A i \in DOMAIN from \ N : masked[i] = from[i]
    BY <1>2, <1>3, <1>5, <1>6
  <1>16. ASSUME NEW i \in 1 .. Len(from) + 1, ~(i \in N <=> i - 1 \in N)
         PROVE  Boundary(from, i)
    <2>1. CASE i = hit \/ i = to + 1
      BY <1>10, <1>11, <2>1
    <2>2. CASE i # hit /\ i # to + 1
      <3>1. i \in hit .. to <=> i - 1 \in hit .. to
        BY <1>2, <1>3, <2>2
      <3>2. ~(i \in M <=> i - 1 \in M)
        BY <1>16, <3>1
      <3> QED
        BY <1>6, <3>2
    <2> QED
      BY <2>1, <2>2
  <1> HIDE DEF N
  <1>17. WordsMasked(masked, from)
    BY <1>13, <1>14, <1>15, <1>16 DEF WordsMasked
  <1> QED
    BY <1>17 DEF masked, to, hit

LEMMA MaskInvStep == TypeInv /\ MaskInv /\ [Next]_vars => MaskInv'
  <1> SUFFICES ASSUME TypeInv, MaskInv, [Next]_vars PROVE MaskInv'
    OBVIOUS
  <1> DEFINE F == Order[step.i]
  <1>0. /\ filter' = filter /\ filter \in Filters
        /\ MaskIsForeign' = MaskIsForeign /\ Words' = Words
    <2>1. filter' = filter
      BY DEF Next, vars, Hear, TrimFields, Converts, ReplacesByte, IsValid, SkipsFilter,
         EntersFilter, MasksWord, NextWord, MasksUnprintable, Substitute
    <2> QED
      BY <2>1 DEF TypeInv, MaskIsForeign, Words
  <1>1. ASSUME step.name = "filter"
        PROVE  /\ step.i \in 1 .. 3 /\ F \in Field /\ ti[F] \in Text /\ valid[F] \in Text
               /\ \A j \in 1 .. 3 : j # step.i => Order[j] # F /\ Order[j] \in Field
    BY <1>1, OrderType DEF TypeInv
  <1>a. ASSUME NEW f \in Field, AllMasked(ti'[f], valid'[f])
        PROVE  AllMasked(ti[f], valid[f])'
    BY <1>0, <1>a DEF AllMasked, InWord
  <1>b. ASSUME NEW j \in 1 .. 3, AllMasked(ti'[Order[j]], valid'[Order[j]])
        PROVE  AllMasked(ti[Order[j]], valid[Order[j]])'
    BY <1>0, <1>b DEF AllMasked, InWord
  <1>c. ASSUME NEW j \in 1 .. 3, WordsMasked(ti'[Order[j]], valid'[Order[j]])
        PROVE  WordsMasked(ti[Order[j]], valid[Order[j]])'
    BY <1>0, <1>c DEF WordsMasked, InWord
  <1>2. ASSUME NEW e \in {"none", "url", "xml"}, Hear(e) PROVE MaskInv'
    BY <1>2 DEF Hear, At, MaskInv, Filtered
  <1>3. CASE TrimFields
    BY <1>3 DEF TrimFields, At, MaskInv, Filtered
  <1>4. CASE Converts \/ ReplacesByte
    <2>1. step'.name = "validate"
      BY <1>4 DEF Converts, ReplacesByte, TypeInv
    <2> QED
      BY <2>1 DEF MaskInv, Filtered
  <1>5. CASE IsValid
    <2>1. step' = NextField("validate") /\ step.i \in 1 .. 3
      BY <1>5 DEF IsValid, TypeInv
    <2>2. step'.name \in {"validate", "filter?"}
      BY <2>1, NextFieldIs DEF At
    <2> QED
      BY <2>2 DEF MaskInv, Filtered
  <1>6. CASE SkipsFilter
    BY <1>0, <1>6 DEF SkipsFilter, At, MaskInv, Filtered
  <1>7. CASE EntersFilter
    <2>1. /\ ti' = ti /\ valid' = ti /\ step'.name = "filter" /\ step'.i = 1
      BY <1>7 DEF EntersFilter, At
    <2>2. \A j \in 1 .. 3 : ti[Order[j]] \in Text
      BY OrderType DEF TypeInv
    <2>3. \A j \in 1 .. 3 : WordsMasked(ti[Order[j]], ti[Order[j]])
      BY <2>2, NothingMasked
    <2>4. \A j \in 1 .. 3 : ~(j < 1)
      OBVIOUS
    <2> QED
      BY <1>0, <1>c, <2>1, <2>3, <2>4 DEF MaskInv, Filtered
  <1>8. CASE MasksWord
    <2> DEFINE word == filter.words[step.k]
               hit == Min(Found(ti[F], word))
               masked == Masked(ti[F], hit, hit + Len(word) - 1)
    <2>1. /\ step.name = "filter" /\ step.k \in DOMAIN filter.words
          /\ word # <<>> /\ Found(ti[F], word) # {} /\ step' = step
          /\ ti' = [ti EXCEPT ![F] = masked] /\ valid' = valid
      BY <1>8 DEF MasksWord, Set
    <2>2. word \in Words
      BY <1>0, <2>1, WordsAre
    <2>3. masked \in Text /\ Len(masked) = Len(ti[F])
      BY <1>0, <1>1, <2>1, MaskedIs
    <2>4. Len(ti[F]) = Len(valid[F])
      BY <1>1, <2>1 DEF MaskInv
    <2>5. MaskIsForeign => WordsMasked(masked, valid[F])
      <3>1. MaskIsForeign => WordsMasked(ti[F], valid[F])
        BY <1>1, <2>1 DEF MaskInv
      <3> HIDE DEF F, word
      <3> QED
        BY <1>0, <1>1, <2>1, <2>2, <2>4, <3>1, OneMoreMasked
    <2> HIDE DEF F, masked
    <2>6. ti'[F] = masked /\ \A f \in Field : f # F => ti'[f] = ti[f]
      BY <1>1, <2>1 DEF TypeInv
    <2>7. \A f \in Field : Len(ti'[f]) = Len(valid[f])
      BY <2>1, <2>3, <2>4, <2>6 DEF MaskInv
    <2>8. ASSUME MaskIsForeign, NEW j \in 1 .. 3
          PROVE  /\ j < step.i => AllMasked(ti'[Order[j]], valid[Order[j]])
                 /\ j = step.i => WordsMasked(ti'[Order[j]], valid[Order[j]])
                 /\ j > step.i => ti'[Order[j]] = valid[Order[j]]
      <3>1. CASE j = step.i
        <4>1. Order[j] = F
          BY <3>1 DEF F
        <4> QED
          BY <1>1, <2>1, <2>5, <2>6, <2>8, <3>1, <4>1
      <3>2. CASE j # step.i
        <4>1. ti'[Order[j]] = ti[Order[j]]
          BY <1>1, <2>1, <2>6, <3>2
        <4> QED
          BY <2>1, <2>8, <3>2, <4>1 DEF MaskInv
      <3> QED
        BY <3>1, <3>2
    <2> QED
      BY <1>0, <1>b, <1>c, <2>1, <2>7, <2>8 DEF MaskInv, Filtered
  <1>9. CASE NextWord
    <2>1. /\ step.name = "filter" /\ ti' = ti /\ valid' = valid
          /\ step'.name = "filter" /\ step'.i = step.i
      BY <1>9 DEF NextWord, TypeInv
    <2> QED
      BY <1>0, <1>b, <1>c, <2>1 DEF MaskInv, Filtered
  <1>10. CASE MasksUnprintable
    <2> DEFINE masked == [j \in DOMAIN ti[F] |-> IF ti[F][j] \in Unprintable
                                               THEN filter.mask ELSE ti[F][j]]
    <2>1. /\ step.name = "filter" /\ valid' = valid
          /\ ti' = [ti EXCEPT ![F] = masked] /\ step' = NextField("filter")
      BY <1>10 DEF MasksUnprintable, Set
    <2> HIDE DEF F
    <2>2. masked \in Text /\ Len(masked) = Len(ti[F]) /\ DOMAIN masked = DOMAIN ti[F]
      <3>1. masked \in [DOMAIN ti[F] -> Char]
        BY <1>0, <1>1, <2>1, ChoiceTypes, FiltersAssumption, CharactersOf
      <3> HIDE DEF masked
      <3> QED
        BY <1>1, <2>1, <3>1, Rewritten
    <2>3. Len(ti[F]) = Len(valid[F])
      BY <1>1, <2>1 DEF MaskInv
    <2>4. MaskIsForeign => AllMasked(masked, valid[F])
      <3> SUFFICES ASSUME MaskIsForeign, NEW i \in DOMAIN masked, masked[i] # valid[F][i]
                   PROVE  /\ masked[i] = filter.mask
                          /\ valid[F][i] \in Unprintable \/ InWord(valid[F], i)
        BY DEF AllMasked
      <3>1. WordsMasked(ti[F], valid[F])
        BY <1>1, <2>1 DEF MaskInv, F
      <3>2. PICK M \in SUBSET (DOMAIN valid[F]) :
               /\ \A x \in M : ti[F][x] = filter.mask /\ InWord(valid[F], x)
               /\ \A x \in DOMAIN valid[F] \ M : ti[F][x] = valid[F][x]
        BY <3>1 DEF WordsMasked
      <3>3. i \in DOMAIN valid[F] /\ i \in DOMAIN ti[F]
        BY <1>1, <2>1, <2>2, <2>3, CharactersOf
      <3>4. masked[i] = IF ti[F][i] \in Unprintable THEN filter.mask ELSE ti[F][i]
        BY <3>3
      <3> HIDE DEF masked
      <3> QED
        BY <3>2, <3>3, <3>4
    <2> HIDE DEF masked
    <2>5. ti'[F] = masked /\ \A f \in Field : f # F => ti'[f] = ti[f]
      BY <1>1, <2>1 DEF TypeInv
    <2>6. \A f \in Field : Len(ti'[f]) = Len(valid[f])
      BY <2>1, <2>2, <2>3, <2>5 DEF MaskInv
    <2>7. ASSUME MaskIsForeign, NEW j \in 1 .. 3
          PROVE  /\ j < step.i + 1 => AllMasked(ti'[Order[j]], valid[Order[j]])
                 /\ j > step.i => ti'[Order[j]] = valid[Order[j]]
      <3>1. CASE j = step.i
        <4>1. Order[j] = F
          BY <3>1 DEF F
        <4> QED
          BY <1>1, <2>1, <2>4, <2>5, <2>7, <3>1, <4>1
      <3>2. CASE j # step.i
        <4>1. ti'[Order[j]] = ti[Order[j]]
          BY <1>1, <2>1, <2>5, <3>2
        <4>2. j < step.i + 1 => j < step.i
          BY <1>1, <2>1, <3>2
        <4> QED
          BY <2>1, <2>7, <3>2, <4>1, <4>2 DEF MaskInv
      <3> QED
        BY <3>1, <3>2
    <2>8. CASE step.i < 3
      <3>1. step'.name = "filter" /\ step'.i = step.i + 1
        BY <1>1, <2>1, <2>8, NextFieldIs DEF At
      <3>2. \A j \in 1 .. 3 : j = step.i + 1 => j > step.i
        BY <1>1, <2>1
      <3>3. \A j \in 1 .. 3 : j > step.i + 1 => j > step.i
        BY <1>1, <2>1
      <3>4. \A j \in 1 .. 3 : WordsMasked(valid[Order[j]], valid[Order[j]])
        BY OrderType, NothingMasked DEF TypeInv
      <3>5. ASSUME MaskIsForeign, NEW j \in 1 .. 3
            PROVE  /\ j < step.i + 1 => AllMasked(ti'[Order[j]], valid[Order[j]])
                   /\ j = step.i + 1 => WordsMasked(ti'[Order[j]], valid[Order[j]])
                   /\ j > step.i + 1 => ti'[Order[j]] = valid[Order[j]]
        BY <2>7, <3>2, <3>3, <3>4, <3>5
      <3> QED
        BY <1>0, <1>b, <1>c, <2>1, <2>6, <3>1, <3>5 DEF MaskInv, Filtered
    <2>9. CASE ~(step.i < 3)
      <3>1. step'.name = "format"
        BY <1>1, <2>1, <2>9, NextFieldIs DEF At
      <3>2. MaskIsForeign => \A f \in Field : AllMasked(ti'[f], valid[f])
        <4> SUFFICES ASSUME MaskIsForeign, NEW f \in Field
                     PROVE  AllMasked(ti'[f], valid[f])
          OBVIOUS
        <4>1. PICK j \in 1 .. 3 : f = Order[j]
          BY OrderType
        <4>2. j < step.i + 1
          BY <1>1, <2>1, <2>9
        <4> QED
          BY <2>7, <4>1, <4>2
      <3> QED
        BY <1>0, <1>a, <2>1, <2>6, <3>1, <3>2 DEF MaskInv, Filtered
    <2> QED
      BY <2>8, <2>9
  <1>11. CASE Substitute
    <2>1. /\ step.name = "format" /\ step'.name \in {"format", "done"} /\ ti' = ti
          /\ valid' = valid
      BY <1>11 DEF Substitute, At
    <2> QED
      BY <1>0, <1>a, <2>1 DEF MaskInv, Filtered
  <1>12. CASE UNCHANGED vars
    BY <1>0, <1>a, <1>b, <1>c, <1>12 DEF vars, MaskInv, Filtered
  <1> QED
    BY <1>2, <1>3, <1>4, <1>5, <1>6, <1>7, <1>8, <1>9, <1>10, <1>11, <1>12 DEF Next

(* The filter masks nothing but whole listed words of the player's text,   *)
(* in whatever case, and what cannot be printed, in place (filter.c:34;    *)
(* ChangeLog, issue 51).                                                   *)
THEOREM FilterMasksOnlyWords == Spec => []OnlyListedIsMasked
  <1>1. Init => MaskInv
    BY DEF Init, At, MaskInv, Filtered
  <1>2. MaskInv => OnlyListedIsMasked
    BY DEF MaskInv, OnlyListedIsMasked, AllMasked
  <1> QED
    BY <1>1, <1>2, AnnouncementTypes, MaskInvStep, PTL DEF Spec

-----------------------------------------------------------------------------
(* The codes for a URL, and which character each stands for                *)
LEMMA UrlPiece ==
  ASSUME NEW q \in DOMAIN UrlCode
  PROVE  /\ q \in Seq(Char) /\ Len(q) = 2 /\ UrlCode[q] \in Char
         /\ <<"%">> \o q \in Seq(Char) /\ Len(<<"%">> \o q) = 3
         /\ (<<"%">> \o q)[1] = "%" /\ (<<"%">> \o q)[3] = q[2]
         /\ UrlCode[q] \in DOMAIN UrlEncoding /\ UrlEncoding[UrlCode[q]] = <<"%">> \o q
  <1>0. /\ "%" \in Char /\ "2" \in Char /\ "5" \in Char /\ "0" \in Char /\ " " \in Char
    BY NamedCharacters
  <1>1. CASE q = <<"2", "5">>
    <2>1. /\ q \in Seq(Char) /\ Len(q) = 2 /\ q[2] = "5"
      BY <1>0, <1>1, TwoCharacters
    <2>2. <<"%">> \o q = <<"%", "2", "5">>
      BY <1>0, <1>1, InFrontOfTwo
    <2>3. UrlCode[q] = "%"
      BY <1>1, <2>1 DEF UrlCode
    <2>4. "%" \in DOMAIN UrlEncoding /\ UrlEncoding["%"] = <<"%", "2", "5">>
      BY DEF UrlEncoding
    <2>5. /\ <<"%", "2", "5">> \in Seq(Char) /\ Len(<<"%", "2", "5">>) = 3
          /\ <<"%", "2", "5">>[1] = "%" /\ <<"%", "2", "5">>[3] = "5"
      BY <1>0, ThreeCharacters
    <2> QED
      BY <1>0, <2>1, <2>2, <2>3, <2>4, <2>5
  <1>2. CASE q = <<"2", "0">>
    <2>1. /\ q \in Seq(Char) /\ Len(q) = 2 /\ q[2] = "0"
      BY <1>0, <1>2, TwoCharacters
    <2>2. <<"%">> \o q = <<"%", "2", "0">>
      BY <1>0, <1>2, InFrontOfTwo
    <2>3. UrlCode[q] = " "
      BY <1>2, <2>1 DEF UrlCode
    <2>4. " " \in DOMAIN UrlEncoding /\ UrlEncoding[" "] = <<"%", "2", "0">>
      BY DEF UrlEncoding
    <2>5. /\ <<"%", "2", "0">> \in Seq(Char) /\ Len(<<"%", "2", "0">>) = 3
          /\ <<"%", "2", "0">>[1] = "%" /\ <<"%", "2", "0">>[3] = "0"
      BY <1>0, ThreeCharacters
    <2> QED
      BY <1>0, <2>1, <2>2, <2>3, <2>4, <2>5
  <1> QED
    BY <1>1, <1>2 DEF UrlCode

LEMMA UrlPieceFor ==
  ASSUME NEW c \in DOMAIN UrlEncoding
  PROVE  \E q \in DOMAIN UrlCode : UrlCode[q] = c
  <1>1. DOMAIN UrlCode = {<<"2", "5">>, <<"2", "0">>}
    BY DEF UrlCode
  <1>2. UrlCode[<<"2", "5">>] = "%" /\ UrlCode[<<"2", "0">>] = " "
    BY DEF UrlCode
  <1>3. c = "%" \/ c = " "
    BY DEF UrlEncoding
  <1> QED
    BY <1>1, <1>2, <1>3

LEMMA PartStands ==
  ASSUME NEW buf \in Text, NEW p \in 1 .. Len(buf), NEW part \in Text,
         StandsAt(buf, part, p)
  PROVE  \A m \in 1 .. Len(part) : buf[p + m - 1] = part[m]
  <1>1. p \in Nat \ {0} /\ buf \in Seq(Char) /\ part \in Seq(Char)
    BY CharactersOf DEF Text
  <1> QED
    BY <1>1, StandsAtIs

(* What a code that is read at p is told by, *)
LEMMA CodeStands ==
  ASSUME NEW buf \in Text, NEW p \in 1 .. Len(buf), NEW q \in DOMAIN UrlCode,
         StandsAt(buf, <<"%">> \o q, p)
  PROVE  buf[p] = "%" /\ buf[p + 3 - 1] = q[2]
  <1> DEFINE s == <<"%">> \o q
  <1>1. s \in Text /\ Len(s) = 3 /\ s[1] = "%" /\ s[3] = q[2]
    BY UrlPiece DEF Text
  <1>2. \A m \in 1 .. Len(s) : buf[p + m - 1] = s[m]
    BY <1>1, PartStands
  <1> HIDE DEF s
  <1>3. p + 1 - 1 = p /\ 1 \in 1 .. Len(s) /\ 3 \in 1 .. Len(s)
    BY <1>1, CharactersOf
  <1>4. buf[p + 1 - 1] = s[1] /\ buf[p + 3 - 1] = s[3]
    BY <1>2, <1>3
  <1> QED
    BY <1>1, <1>3, <1>4

(* so that no other is read there. *)
LEMMA CodeRead ==
  ASSUME NEW buf \in Text, NEW p \in 1 .. Len(buf), NEW code \in DOMAIN UrlCode,
         StandsAt(buf, <<"%">> \o code, p)
  PROVE  CodesAt(buf, UrlCode, p) = {code}
  <1>1. ASSUME NEW q \in DOMAIN UrlCode, StandsAt(buf, <<"%">> \o q, p)
        PROVE  q = code
    <2>1. buf[p + 3 - 1] = q[2]
      BY <1>1, CodeStands
    <2>2. buf[p + 3 - 1] = code[2]
      BY CodeStands
    <2>3. /\ q = <<"2", "5">> \/ q = <<"2", "0">>
          /\ code = <<"2", "5">> \/ code = <<"2", "0">>
      BY DEF UrlCode
    <2>4. <<"2", "5">>[2] # <<"2", "0">>[2]
      OBVIOUS
    <2>5. CASE q = <<"2", "5">>
      <3>1. code # <<"2", "0">>
        BY <2>1, <2>2, <2>4, <2>5
      <3> QED
        BY <2>3, <2>5, <3>1
    <2>6. CASE q = <<"2", "0">>
      <3>1. code # <<"2", "5">>
        BY <2>1, <2>2, <2>4, <2>6
      <3> QED
        BY <2>3, <2>6, <3>1
    <2> QED
      BY <2>3, <2>5, <2>6
  <1> QED
    BY <1>1 DEF CodesAt

LEMMA NoCodeRead ==
  ASSUME NEW buf \in Text, NEW p \in 1 .. Len(buf), buf[p] # "%"
  PROVE  CodesAt(buf, UrlCode, p) = {}
  BY CodeStands DEF CodesAt

(* What SqueezeCenter's plug-in encodes is decoded.                        *)
LEMMA UrlRoundTrip ==
  ASSUME NEW text \in Text
  PROVE  UrlDecode(Encoded(text, UrlEncoding), UrlCode) = text
  <1> DEFINE code == Encoded(text, UrlEncoding)
  <1>1. \A c \in DOMAIN UrlEncoding : UrlEncoding[c] \in Seq(Char)
    BY UrlPiece, UrlPieceFor
  <1>2. PICK e : /\ EncodesFrom(e, text, UrlEncoding)
                 /\ \A i \in 1 .. Len(text) + 1 : e[i] \in Seq(Char)
                 /\ code = e[1]
    BY <1>1, EncodedFrom DEF Text
  <1> HIDE DEF code
  <1>3. 1 \in 1 .. Len(text) + 1
    BY CharactersOf
  <1>4. code \in Text
    BY <1>2, <1>3 DEF Text
  <1>5. \A p \in DOMAIN UrlCode : p \in Seq(Char) /\ Len(p) = 2 /\ UrlCode[p] \in Char
    BY UrlPiece
  <1>6. PICK d : /\ DecodesFrom(d, code, UrlCode)
                 /\ \A p \in 1 .. Len(code) + 1 : d[p] \in Seq(Char)
                 /\ UrlDecode(code, UrlCode) = d[1]
    BY <1>4, <1>5, NamedCharacters, DecodedFrom DEF Text
  <1>7. Reads(d, e, text, code, Char)
    <2>1. d[Len(code) + 1] = <<>>
      BY <1>6 DEF DecodesFrom
    <2>2. ASSUME NEW i \in 1 .. Len(text)
          PROVE  \E piece \in Seq(Char) :
                    /\ piece # <<>> /\ e[i] = piece \o e[i + 1]
                    /\ \A p \in 1 .. Len(code) :
                          StandsAt(code, piece, p) =>
                              d[p] = <<text[i]>> \o d[p + Len(piece)]
      <3>1. CASE text[i] \in DOMAIN UrlEncoding
        <4>1. PICK q \in DOMAIN UrlCode : UrlCode[q] = text[i]
          BY <3>1, UrlPieceFor
        <4> DEFINE piece == <<"%">> \o q
        <4>2. /\ piece \in Seq(Char) /\ Len(piece) = 3 /\ piece # <<>>
              /\ UrlEncoding[text[i]] = piece
          <5>1. /\ piece \in Seq(Char) /\ Len(piece) = 3
                /\ UrlEncoding[text[i]] = piece
            BY <4>1, UrlPiece
          <5>2. piece # <<>>
            <6>1. Len(<<>>) = 0
              OBVIOUS
            <6>2. Len(piece) = 3
              BY <5>1
            <6> HIDE DEF piece
            <6> QED
              BY <6>1, <6>2
          <5> HIDE DEF piece
          <5> QED
            BY <5>1, <5>2
        <4> HIDE DEF piece
        <4>3. e[i] = piece \o e[i + 1]
          BY <1>2, <3>1, <4>2 DEF EncodesFrom
        <4>4. ASSUME NEW p \in 1 .. Len(code), StandsAt(code, piece, p)
              PROVE  d[p] = <<text[i]>> \o d[p + Len(piece)]
          <5>1. CodesAt(code, UrlCode, p) = {q}
            BY <1>4, <4>1, <4>4, CodeRead DEF piece
          <5>2. (CHOOSE x \in CodesAt(code, UrlCode, p) : TRUE) = q
            BY <5>1
          <5>3. d[p] = <<UrlCode[q]>> \o d[p + 3]
            BY <1>6, <5>1, <5>2 DEF DecodesFrom
          <5> QED
            BY <4>1, <4>2, <5>3
        <4> QED
          BY <4>2, <4>3, <4>4
      <3>2. CASE text[i] \notin DOMAIN UrlEncoding
        <4> DEFINE piece == <<text[i]>>
        <4>1. piece \in Seq(Char) /\ Len(piece) = 1 /\ piece[1] = text[i] /\ piece # <<>>
          BY CharactersOf, OneCharacter
        <4>2. text[i] # "%"
          BY <3>2 DEF UrlEncoding
        <4>3. e[i] = piece \o e[i + 1]
          BY <1>2, <3>2 DEF EncodesFrom
        <4> HIDE DEF piece
        <4>4. ASSUME NEW p \in 1 .. Len(code), StandsAt(code, piece, p)
              PROVE  d[p] = <<text[i]>> \o d[p + Len(piece)]
          <5>0. p \in Nat \ {0} /\ p + 1 - 1 = p
            BY <1>4, CharactersOf
          <5>1. code[p] = text[i]
            <6>1. \A m \in 1 .. Len(piece) : code[p + m - 1] = piece[m]
              BY <1>4, <4>1, <4>4, <5>0, StandsAtIs DEF Text
            <6>2. code[p + 1 - 1] = piece[1]
              BY <4>1, <6>1
            <6> QED
              BY <4>1, <5>0, <6>2
          <5>2. CodesAt(code, UrlCode, p) = {}
            BY <1>4, <4>2, <5>1, NoCodeRead
          <5>3. d[p] = <<code[p]>> \o d[p + 1]
            BY <1>6, <5>2 DEF DecodesFrom
          <5> QED
            BY <4>1, <5>1, <5>3
        <4> QED
          BY <4>1, <4>3, <4>4
      <3> QED
        BY <3>1, <3>2
    <2> QED
      BY <2>1, <2>2 DEF Reads
  <1>8. Codes(e, text, code)
    BY <1>2 DEF Codes, EncodesFrom
  <1>9. d[1] = text
    BY <1>2, <1>4, <1>6, <1>7, <1>8, ReadAsMeant DEF Text
  <1> QED
    BY <1>6, <1>9 DEF code

LEMMA FirstOfConcat ==
  ASSUME NEW head \in Seq(Char), Len(head) >= 1, NEW rest \in Seq(Char)
  PROVE  (head \o rest)[1] = head[1]
  <1>1. Len(head) \in Nat /\ Len(rest) \in Nat
    BY LenProperties
  <1>2. \A m \in 1 .. Len(head) + Len(rest) :
           (head \o rest)[m] = IF m <= Len(head) THEN head[m] ELSE rest[m - Len(head)]
    BY ConcatProperties
  <1>3. 1 \in 1 .. Len(head) + Len(rest) /\ 1 <= Len(head)
    BY <1>1
  <1> QED
    BY <1>2, <1>3

LEMMA TwoInOne ==
  ASSUME NEW a \in Char, NEW b \in Char
  PROVE  <<a>> \o <<b>> = <<a, b>>
  <1> DEFINE one == <<a>>
             two == <<b>>
             both == <<a, b>>
  <1>1. /\ one \in Seq(Char) /\ Len(one) = 1 /\ one[1] = a
        /\ two \in Seq(Char) /\ Len(two) = 1 /\ two[1] = b
    BY OneCharacter
  <1>2. both \in Seq(Char) /\ Len(both) = 2 /\ both[1] = a /\ both[2] = b
    BY TwoCharacters
  <1> HIDE DEF one, two, both
  <1>3. /\ one \o two \in Seq(Char) /\ Len(one \o two) = Len(one) + Len(two)
        /\ \A i \in 1 .. Len(one) + Len(two) :
              (one \o two)[i] = IF i <= Len(one) THEN one[i] ELSE two[i - Len(one)]
    BY <1>1, ConcatProperties
  <1>4. Len(one \o two) = 2 /\ (one \o two)[1] = a /\ (one \o two)[2] = b
    BY <1>1, <1>3
  <1>5. \A i \in 1 .. Len(one \o two) : (one \o two)[i] = both[i]
    <2> TAKE i \in 1 .. Len(one \o two)
    <2>1. i = 1 \/ i = 2
      BY <1>4
    <2> QED
      BY <1>2, <1>4, <2>1
  <1>6. one \o two = both
    BY <1>2, <1>3, <1>4, <1>5, SeqEqual
  <1> QED
    BY <1>6 DEF one, two, both

(* A text of which nothing is encoded stays as it is.                      *)
LEMMA NothingEncoded ==
  ASSUME NEW text \in Text, NEW encoding, \A c : c \notin DOMAIN encoding
  PROVE  Encoded(text, encoding) = text
  <1>1. PICK e : /\ EncodesFrom(e, text, encoding)
                 /\ \A i \in 1 .. Len(text) + 1 : e[i] \in Seq(Char)
                 /\ Encoded(text, encoding) = e[1]
    <2>1. \A c \in DOMAIN encoding : encoding[c] \in Seq(Char)
      OBVIOUS
    <2> QED
      BY <2>1, EncodedFrom DEF Text
  <1>2. text \in Seq(Char) /\ Len(text) \in Nat
    BY CharactersOf DEF Text
  <1> DEFINE n == Len(text) + 1
             Good == {i \in 1 .. n : IsTail(e[i], text, i)}
  <1>3. ASSUME NEW i \in 1 .. n, \A j \in (i + 1) .. n : j \in Good
        PROVE  i \in Good
    <2>1. CASE i = n
      BY <1>1, <1>2, <2>1, WholeTail DEF EncodesFrom
    <2>2. CASE i # n
      <3>1. i \in 1 .. Len(text) /\ i + 1 \in (i + 1) .. n /\ i + 1 \in 1 .. Len(text) + 1
        BY <1>2, <2>2
      <3>2. e[i] = <<text[i]>> \o e[i + 1]
        BY <1>1, <3>1 DEF EncodesFrom
      <3>3. IsTail(e[i + 1], text, i + 1) /\ e[i + 1] \in Seq(Char)
        BY <1>1, <1>3, <3>1
      <3> QED
        BY <1>2, <3>1, <3>2, <3>3, TailInFront
    <2> QED
      BY <2>1, <2>2
  <1>4. \A i \in 1 .. n : i \in Good
    <2>1. 1 \in Nat /\ n \in Nat
      BY <1>2
    <2> HIDE DEF Good, n
    <2> QED
      BY <1>3, <2>1, FromTheEnd
  <1>5. IsTail(e[1], text, 1) /\ e[1] \in Seq(Char)
    <2>1. 1 \in 1 .. n
      BY <1>2
    <2> QED
      BY <1>1, <1>4, <2>1
  <1> QED
    BY <1>1, <1>2, <1>5, WholeTail

(* Vagalume's text after k - 1 of the entities have been decoded           *)
FromEntity(k) == [c \in {Entity[j][2] : j \in k .. 5} |-> XmlEncoding[c]]

LEMMA FromEntityIs ==
  ASSUME NEW k \in 1 .. 6
  PROVE  /\ DOMAIN FromEntity(k) = {Entity[j][2] : j \in k .. 5}
         /\ \A j \in k .. 5 : FromEntity(k)[Entity[j][2]] = <<"&", Entity[j][1]>>
         /\ \A c \in DOMAIN FromEntity(k) :
               FromEntity(k)[c] \in Text /\ FromEntity(k)[c][1] = "&"
               /\ Len(FromEntity(k)[c]) = 2
  <1>1. DOMAIN FromEntity(k) = {Entity[j][2] : j \in k .. 5}
    BY DEF FromEntity
  <1>2. ASSUME NEW j \in k .. 5
        PROVE  FromEntity(k)[Entity[j][2]] = <<"&", Entity[j][1]>>
    <2>1. j \in 1 .. 5
      OBVIOUS
    <2>2. FromEntity(k)[Entity[j][2]] = XmlEncoding[Entity[j][2]]
      BY DEF FromEntity
    <2> QED
      BY <2>1, <2>2, XmlEncodingIs
  <1>3. \A j \in k .. 5 : /\ <<"&", Entity[j][1]>> \in Text
                          /\ Len(<<"&", Entity[j][1]>>) = 2
                          /\ <<"&", Entity[j][1]>>[1] = "&"
    BY EntityTexts
  <1> QED
    BY <1>1, <1>2, <1>3

(* What it means that a pair of characters stands in a text.               *)
LEMMA PairStands ==
  ASSUME NEW str \in Text, NEW q \in 1 .. Len(str), NEW pair \in Text,
         Len(pair) = 2, StandsAt(str, pair, q)
  PROVE  q + 1 <= Len(str) /\ str[q] = pair[1] /\ str[q + 1] = pair[2]
  <1>1. q \in Nat /\ q + 1 - 1 = q /\ q + 2 - 1 = q + 1
    OBVIOUS
  <1>2. q + Len(pair) - 1 <= Len(str)
    BY DEF StandsAt
  <1>3. \A m \in 1 .. Len(pair) : str[q + m - 1] = pair[m]
    BY PartStands
  <1>4. str[q + 1 - 1] = pair[1] /\ str[q + 2 - 1] = pair[2]
    BY <1>3
  <1> QED
    BY <1>1, <1>2, <1>4

(* What looks like no entity itself: entity k is decoded, and those after  *)
(* it are left as they are.                                                *)
LEMMA OneEntityDecoded ==
  ASSUME NEW text \in Text, NEW k \in 1 .. 5,
         \A i \in DOMAIN text, x \in Entities : ~StandsAt(text, x, i)
  PROVE  Unescaped(Encoded(text, FromEntity(k)), k) = Encoded(text, FromEntity(k + 1))
  <1> DEFINE name == Entity[k][1]
             char == Entity[k][2]
             old == <<"&", Entity[k][1]>>
             new == <<Entity[k][2]>>
             code == Encoded(text, FromEntity(k))
             n == Len(text) + 1
  <1>0. k + 1 \in 1 .. 6 /\ k \in 1 .. 6
    OBVIOUS
  <1>1. /\ old \in Seq(Char) /\ new \in Seq(Char) /\ Len(old) = 2
        /\ old[1] = "&" /\ old[2] = name /\ name \in Char /\ char \in Char
        /\ name # "&"
    <2>1. /\ old \in Text /\ new \in Text /\ Len(old) = 2
          /\ old[1] = "&" /\ old[2] = name /\ name \in Char /\ char \in Char
      BY EntityTexts
    <2>2. name # "&"
      BY EntitiesDiffer
    <2> QED
      BY <2>1, <2>2 DEF Text
  <1>a. ASSUME NEW j \in 1 .. 6
        PROVE  \A c \in DOMAIN FromEntity(j) : FromEntity(j)[c] \in Seq(Char)
    BY <1>a, FromEntityIs DEF Text
  <1>2. PICK e : /\ EncodesFrom(e, text, FromEntity(k))
                 /\ \A i \in 1 .. Len(text) + 1 : e[i] \in Seq(Char)
                 /\ code = e[1]
    BY <1>0, <1>a, EncodedFrom DEF Text
  <1>3. PICK g : /\ EncodesFrom(g, text, FromEntity(k + 1))
                 /\ \A i \in 1 .. Len(text) + 1 : g[i] \in Seq(Char)
                 /\ Encoded(text, FromEntity(k + 1)) = g[1]
    BY <1>0, <1>a, EncodedFrom DEF Text
  <1> HIDE DEF code, old, new, name, char
  <1>4. /\ 1 \in 1 .. n /\ n \in Nat /\ 1 \in Nat /\ Len(text) \in Nat
        /\ DOMAIN text = 1 .. Len(text) /\ text \in Seq(Char)
    BY CharactersOf DEF Text
  <1>5. code \in Seq(Char) /\ Len(code) \in Nat /\ code \in Text
    BY <1>2, <1>4, LenProperties DEF Text
  <1>6. PICK d : /\ ReplacesFrom(d, code, old, new)
                 /\ \A p \in 1 .. Len(code) + 1 : d[p] \in Seq(Char)
                 /\ Replace(code, old, new) = d[1]
    <2>1. Len(old) >= 1
      BY <1>1
    <2> QED
      BY <1>1, <1>5, <2>1, ReplacedFrom
  <1> DEFINE Good == {i \in 1 .. n : \A p \in 1 .. Len(code) + 1 :
                                        IsTail(e[i], code, p) => d[p] = g[i]}
  <1>7. ASSUME NEW i \in 1 .. n, \A j \in (i + 1) .. n : j \in Good
        PROVE  i \in Good
    <2> SUFFICES ASSUME NEW p \in 1 .. Len(code) + 1, IsTail(e[i], code, p)
                 PROVE  d[p] = g[i]
      OBVIOUS
    <2>1. CASE i = n
      <3>1. e[i] = <<>> /\ g[i] = <<>>
        BY <1>2, <1>3, <2>1 DEF EncodesFrom
      <3>2. p = Len(code) + 1
        BY <1>5, <3>1, WholeTail
      <3> QED
        BY <1>6, <3>1, <3>2 DEF ReplacesFrom
    <2>2. CASE i # n
      <3>1. i \in 1 .. Len(text) /\ i + 1 \in (i + 1) .. n /\ i + 1 \in 1 .. Len(text) + 1
        BY <1>4, <2>2
      <3>2. text[i] \in Char /\ e[i + 1] \in Seq(Char) /\ e[i] \in Seq(Char)
        BY <1>2, <1>4, <3>1, CharactersOf
      <3>3. ASSUME NEW q \in 1 .. Len(code) + 1, IsTail(e[i + 1], code, q)
            PROVE  d[q] = g[i + 1]
        BY <1>7, <3>1, <3>3
      <3>4. ASSUME NEW piece \in Seq(Char), Len(piece) \in {1, 2}, e[i] = piece \o e[i + 1]
            PROVE  /\ p + Len(piece) \in 1 .. Len(code) + 1
                   /\ p \in 1 .. Len(code) /\ StandsAt(code, piece, p)
                   /\ IsTail(e[i + 1], code, p + Len(piece))
                   /\ d[p + Len(piece)] = g[i + 1]
                   /\ \A m \in 1 .. Len(piece) : code[p + m - 1] = piece[m]
        <4>1. IsTail(piece \o e[i + 1], code, p)
          BY <3>4
        <4>2. /\ p + Len(piece) \in 1 .. Len(code) + 1
              /\ IsTail(e[i + 1], code, p + Len(piece))
              /\ StandsAt(code, piece, p)
          BY <1>5, <3>2, <4>1, TailOfConcat
        <4>3. p \in 1 .. Len(code) /\ p \in Nat \ {0}
          BY <1>5, <3>4, <4>2
        <4>4. \A m \in 1 .. Len(piece) : code[p + m - 1] = piece[m]
          BY <1>5, <3>4, <4>2, <4>3, PartStands DEF Text
        <4> QED
          BY <3>3, <4>2, <4>3, <4>4
      <3>5. ASSUME NEW q \in 1 .. Len(code), StandsAt(code, old, q)
            PROVE  q + 1 <= Len(code) /\ code[q] = "&" /\ code[q + 1] = name
        <4>1. q + 1 <= Len(code) /\ code[q] = old[1] /\ code[q + 1] = old[2]
          BY <1>1, <1>5, <3>5, PairStands DEF Text
        <4> QED
          BY <1>1, <4>1
      <3>6. CASE text[i] = char
        <4>1. e[i] = old \o e[i + 1]
          <5>1. text[i] \in DOMAIN FromEntity(k) /\ FromEntity(k)[text[i]] = old
            BY <1>0, <3>6, FromEntityIs DEF char, old
          <5> QED
            BY <1>2, <3>1, <5>1 DEF EncodesFrom
        <4>2. g[i] = new \o g[i + 1]
          <5>1. text[i] \notin DOMAIN FromEntity(k + 1)
            BY <1>0, <3>6, FromEntityIs, EntitiesDiffer DEF char
          <5>2. g[i] = <<text[i]>> \o g[i + 1]
            BY <1>3, <3>1, <5>1 DEF EncodesFrom
          <5> QED
            BY <3>6, <5>2 DEF new, char
        <4>3. p \in 1 .. Len(code) /\ StandsAt(code, old, p) /\ d[p + Len(old)] = g[i + 1]
          BY <1>1, <3>4, <4>1
        <4>4. d[p] = new \o d[p + Len(old)]
          BY <1>6, <4>3 DEF ReplacesFrom
        <4> QED
          BY <4>2, <4>3, <4>4
      <3>7. CASE text[i] \in DOMAIN FromEntity(k + 1)
        <4>1. PICK j \in k + 1 .. 5 : text[i] = Entity[j][2]
          BY <1>0, <3>7, FromEntityIs
        <4>2. j \in 1 .. 5 /\ j \in k .. 5 /\ j # k
          BY <4>1
        <4> DEFINE piece == <<"&", Entity[j][1]>>
                   other == Entity[j][1]
        <4>3. /\ piece \in Seq(Char) /\ Len(piece) = 2 /\ piece[1] = "&" /\ piece[2] = other
              /\ other # "&" /\ other # name /\ other \in Char /\ "&" \in Char
              /\ piece = <<"&">> \o <<other>>
          <5>1. /\ piece \in Seq(Char) /\ Len(piece) = 2 /\ piece[1] = "&"
                /\ piece[2] = other /\ other \in Char
            BY <4>2, EntityTexts DEF Text
          <5>2. other # "&" /\ other # name
            BY <4>2, EntitiesDiffer DEF name
          <5>3. "&" \in Char
            BY NamedCharacters
          <5>4. piece = <<"&">> \o <<other>>
            BY <5>1, <5>3, TwoInOne
          <5> QED
            BY <5>1, <5>2, <5>3, <5>4
        <4>4. e[i] = piece \o e[i + 1]
          <5>1. text[i] \in DOMAIN FromEntity(k) /\ FromEntity(k)[text[i]] = piece
            BY <1>0, <4>1, <4>2, FromEntityIs
          <5> QED
            BY <1>2, <3>1, <5>1 DEF EncodesFrom
        <4>5. g[i] = piece \o g[i + 1]
          <5>1. FromEntity(k + 1)[text[i]] = piece
            BY <1>0, <4>1, FromEntityIs
          <5> QED
            BY <1>3, <3>1, <3>7, <5>1 DEF EncodesFrom
        <4> HIDE DEF piece, other
        <4>6. /\ p \in 1 .. Len(code) /\ p + 1 \in 1 .. Len(code) /\ p + 1 + 1 = p + 2
              /\ code[p] = "&" /\ code[p + 1] = other /\ d[p + 2] = g[i + 1]
          <5>1. /\ p + Len(piece) \in 1 .. Len(code) + 1 /\ p \in 1 .. Len(code)
                /\ d[p + Len(piece)] = g[i + 1]
                /\ \A m \in 1 .. Len(piece) : code[p + m - 1] = piece[m]
            BY <3>4, <4>3, <4>4
          <5>2. code[p + 1 - 1] = piece[1] /\ code[p + 2 - 1] = piece[2]
            BY <4>3, <5>1
          <5>3. p + 1 - 1 = p /\ p + 2 - 1 = p + 1 /\ p + 1 \in 1 .. Len(code)
            BY <1>5, <4>3, <5>1
          <5> QED
            BY <4>3, <5>1, <5>2, <5>3
        <4>7. d[p] = <<"&">> \o d[p + 1] /\ d[p + 1] = <<other>> \o d[p + 2]
          <5>1. ~StandsAt(code, old, p) /\ ~StandsAt(code, old, p + 1)
            BY <3>5, <4>3, <4>6
          <5> QED
            BY <1>6, <4>6, <5>1 DEF ReplacesFrom
        <4>8. <<"&">> \o (<<other>> \o g[i + 1]) = (<<"&">> \o <<other>>) \o g[i + 1]
          <5>1. <<"&">> \in Seq(Char) /\ <<other>> \in Seq(Char) /\ g[i + 1] \in Seq(Char)
            BY <1>3, <3>1, <4>3, OneCharacter
          <5> QED
            BY <5>1, ConcatAssociative
        <4> QED
          BY <4>3, <4>5, <4>6, <4>7, <4>8
      <3>8. CASE text[i] \notin DOMAIN FromEntity(k)
        <4> DEFINE piece == <<text[i]>>
        <4>1. piece \in Seq(Char) /\ Len(piece) = 1 /\ piece[1] = text[i]
          BY <3>2, OneCharacter
        <4>2. e[i] = piece \o e[i + 1]
          BY <1>2, <3>1, <3>8 DEF EncodesFrom
        <4>3. g[i] = piece \o g[i + 1]
          <5>1. text[i] \notin DOMAIN FromEntity(k + 1)
            BY <1>0, <3>8, FromEntityIs
          <5> QED
            BY <1>3, <3>1, <5>1 DEF EncodesFrom
        <4> HIDE DEF piece
        <4>4. /\ p \in 1 .. Len(code) /\ code[p] = text[i] /\ d[p + 1] = g[i + 1]
              /\ IsTail(e[i + 1], code, p + 1)
          <5>1. /\ p \in 1 .. Len(code) /\ d[p + Len(piece)] = g[i + 1]
                /\ IsTail(e[i + 1], code, p + Len(piece))
                /\ \A m \in 1 .. Len(piece) : code[p + m - 1] = piece[m]
            BY <3>4, <4>1, <4>2
          <5>2. code[p + 1 - 1] = piece[1] /\ p + 1 - 1 = p
            BY <4>1, <5>1
          <5> QED
            BY <4>1, <5>1, <5>2
        <4>5. ~StandsAt(code, old, p)
          <5> SUFFICES ASSUME StandsAt(code, old, p) PROVE FALSE
            OBVIOUS
          <5>1. p + 1 <= Len(code) /\ text[i] = "&" /\ code[p + 1] = name
            BY <3>5, <4>4
          <5>2. Len(e[i + 1]) >= 1 /\ e[i + 1][1] = name
            <6>1. /\ Len(e[i + 1]) = Len(code) - (p + 1) + 1
                  /\ \A m \in 1 .. Len(e[i + 1]) : e[i + 1][m] = code[p + 1 + m - 1]
              BY <4>4 DEF IsTail
            <6>2. 1 \in 1 .. Len(e[i + 1]) /\ p + 1 + 1 - 1 = p + 1
              BY <1>5, <5>1, <6>1
            <6> QED
              BY <5>1, <6>1, <6>2
          <5>3. i + 1 \in 1 .. Len(text)
            <6>1. CASE i + 1 = n
              <7>1. e[i + 1] = <<>>
                BY <1>2, <6>1 DEF EncodesFrom
              <7> QED
                BY <5>2, <7>1, EmptySeq
            <6> QED
              BY <1>4, <3>1, <6>1
          <5>4. i + 1 + 1 \in 1 .. Len(text) + 1 /\ text[i + 1] \in Char
            BY <1>4, <5>3, CharactersOf
          <5>5. text[i + 1] \notin DOMAIN FromEntity(k)
            <6> SUFFICES ASSUME text[i + 1] \in DOMAIN FromEntity(k) PROVE FALSE
              OBVIOUS
            <6> DEFINE next == FromEntity(k)[text[i + 1]]
                       rest == e[i + 1 + 1]
            <6>1. next \in Seq(Char) /\ next[1] = "&" /\ Len(next) >= 1
              BY <1>0, FromEntityIs DEF Text
            <6>2. e[i + 1] = next \o rest /\ rest \in Seq(Char)
              BY <1>2, <5>3, <5>4 DEF EncodesFrom
            <6> HIDE DEF next, rest
            <6>3. (next \o rest)[1] = next[1]
              BY <6>1, <6>2, FirstOfConcat
            <6> QED
              BY <1>1, <5>2, <6>1, <6>2, <6>3
          <5>6. text[i + 1] = name
            <6> DEFINE next == <<text[i + 1]>>
                       rest == e[i + 1 + 1]
            <6>1. next \in Seq(Char) /\ next[1] = text[i + 1] /\ Len(next) >= 1
              BY <5>4, OneCharacter
            <6>2. e[i + 1] = next \o rest /\ rest \in Seq(Char)
              BY <1>2, <5>3, <5>4, <5>5 DEF EncodesFrom
            <6> HIDE DEF next, rest
            <6>3. (next \o rest)[1] = next[1]
              BY <6>1, <6>2, FirstOfConcat
            <6> QED
              BY <5>2, <6>1, <6>2, <6>3
          <5>7. StandsAt(text, old, i)
            <6>1. i \in Nat \ {0} /\ i + Len(old) - 1 <= Len(text)
              BY <1>1, <1>4, <5>3
            <6>2. \A m \in 1 .. Len(old) : text[i + m - 1] = old[m]
              <7> TAKE m \in 1 .. Len(old)
              <7>1. \/ m = 1 /\ i + m - 1 = i
                    \/ m = 2 /\ i + m - 1 = i + 1
                BY <1>1, <1>4
              <7> QED
                BY <1>1, <5>1, <5>6, <7>1
            <6> QED
              BY <1>1, <1>4, <6>1, <6>2, StandsThere
          <5>8. old \in Entities
            <6>1. DOMAIN Entity = 1 .. 5
              BY DEF Entity
            <6> QED
              BY <6>1 DEF Entities, old
          <5> QED
            BY <1>4, <3>1, <5>7, <5>8
        <4>6. d[p] = <<code[p]>> \o d[p + 1]
          BY <1>6, <4>4, <4>5 DEF ReplacesFrom
        <4> QED
          BY <4>3, <4>4, <4>6 DEF piece
      <3>9. \/ text[i] = char \/ text[i] \in DOMAIN FromEntity(k + 1)
            \/ text[i] \notin DOMAIN FromEntity(k)
        <4>1. \A j \in k .. 5 : j = k \/ j \in k + 1 .. 5
          OBVIOUS
        <4> QED
          BY <1>0, <4>1, FromEntityIs DEF char
      <3> QED
        BY <3>6, <3>7, <3>8, <3>9
    <2> QED
      BY <2>1, <2>2
  <1>8. \A i \in 1 .. n : i \in Good
    <2> HIDE DEF Good, n
    <2> QED
      BY <1>4, <1>7, FromTheEnd
  <1>9. IsTail(e[1], code, 1) /\ 1 \in 1 .. Len(code) + 1
    BY <1>2, <1>5, WholeTail
  <1>10. d[1] = g[1]
    BY <1>4, <1>8, <1>9
  <1>11. Unescaped(code, k) = Replace(code, old, new)
    BY DEF Unescaped, old, new
  <1> QED
    BY <1>3, <1>6, <1>10, <1>11 DEF code

(* What Vagalume encodes is decoded, ampersands first; what looks like     *)
(* another entity then would be decoded once more.                         *)
LEMMA XmlRoundTrip ==
  ASSUME NEW text \in Text,
         \A i \in DOMAIN text, x \in Entities : ~StandsAt(text, x, i)
  PROVE  Unescape(Encoded(text, XmlEncoding)) = text
  <1>1. XmlEncoding = FromEntity(1)
    BY DEF XmlEncoding, FromEntity
  <1>2. \A k \in 1 .. 5 : Unescaped(Encoded(text, FromEntity(k)), k)
                             = Encoded(text, FromEntity(k + 1))
    BY OneEntityDecoded
  <1>3. Unescape(Encoded(text, FromEntity(1))) = Encoded(text, FromEntity(6))
    <2>1. /\ Unescaped(Encoded(text, FromEntity(1)), 1) = Encoded(text, FromEntity(2))
          /\ Unescaped(Encoded(text, FromEntity(2)), 2) = Encoded(text, FromEntity(3))
          /\ Unescaped(Encoded(text, FromEntity(3)), 3) = Encoded(text, FromEntity(4))
          /\ Unescaped(Encoded(text, FromEntity(4)), 4) = Encoded(text, FromEntity(5))
          /\ Unescaped(Encoded(text, FromEntity(5)), 5) = Encoded(text, FromEntity(6))
      BY <1>2
    <2> QED
      BY <2>1 DEF Unescape
  <1>4. \A c : c \notin DOMAIN FromEntity(6)
    BY DEF FromEntity
  <1>5. Encoded(text, FromEntity(6)) = text
    BY <1>4, NothingEncoded
  <1> QED
    BY <1>1, <1>3, <1>5

LEMMA HeardAsMeant ==
  ASSUME NEW text \in Text, NEW encoding \in {"none", "url", "xml"},
         \A i \in DOMAIN text, e \in Entities : ~StandsAt(text, e, i)
  PROVE  Heard(text, encoding) = text
  <1>1. CASE encoding = "none"
    BY <1>1 DEF Heard
  <1>2. CASE encoding = "url"
    <2>1. Heard(text, encoding) = UrlDecode(Encoded(text, UrlEncoding), UrlCode)
      BY <1>2 DEF Heard
    <2> QED
      BY <2>1, UrlRoundTrip
  <1>3. CASE encoding = "xml"
    <2>1. Heard(text, encoding) = Unescape(Encoded(text, XmlEncoding))
      BY <1>3 DEF Heard
    <2> QED
      BY <2>1, XmlRoundTrip
  <1> QED
    BY <1>1, <1>2, <1>3

LEMMA ArrivalStep == TypeInv /\ TextsArriveAsMeant /\ [Next]_vars => TextsArriveAsMeant'
  <1> SUFFICES ASSUME TypeInv, TextsArriveAsMeant, [Next]_vars
               PROVE  TextsArriveAsMeant'
    OBVIOUS
  <1>1. ASSUME NEW encoding \in {"none", "url", "xml"}, Hear(encoding)
        PROVE  TextsArriveAsMeant'
    <2> SUFFICES ASSUME NEW f \in Field,
                        \A i \in DOMAIN told'[f], e \in Entities :
                            ~StandsAt(told'[f], e, i)
                 PROVE  ti'[f] = told'[f]
      BY DEF TextsArriveAsMeant
    <2>1. told' = told /\ ti'[f] = Heard(told[f], encoding)
      BY <1>1 DEF Hear
    <2>2. told[f] \in Text
      BY DEF TypeInv
    <2>3. \A i \in DOMAIN told[f], e \in Entities : ~StandsAt(told[f], e, i)
      BY <2>1
    <2> QED
      BY <2>1, <2>2, <2>3, HeardAsMeant
  <1>2. CASE TrimFields
    BY <1>2 DEF TrimFields, TextsArriveAsMeant, At
  <1>3. CASE IsValid
    <2>1. step.i \in 1 .. 3 /\ step' = NextField("validate")
      BY <1>3 DEF IsValid, TypeInv
    <2>2. step'.name # "trim"
      BY <2>1, OrderType DEF NextField, At
    <2> QED
      BY <2>2 DEF TextsArriveAsMeant
  <1>4. CASE MasksUnprintable
    <2>1. step.i \in 1 .. 3 /\ step' = NextField("filter")
      BY <1>4 DEF MasksUnprintable, TypeInv
    <2>2. step'.name # "trim"
      BY <2>1, OrderType DEF NextField, At
    <2> QED
      BY <2>2 DEF TextsArriveAsMeant
  <1>5. CASE Converts \/ ReplacesByte \/ MasksWord \/ NextWord
    <2>1. step \in [name : Steps, i : 1 .. 8, k : Nat \ {0}]
      BY DEF TypeInv
    <2>2. step'.name # "trim"
      <3>1. CASE Converts
        BY <3>1 DEF Converts
      <3>2. CASE ReplacesByte
        BY <2>1, <3>2 DEF ReplacesByte
      <3>3. CASE MasksWord
        BY <3>3 DEF MasksWord
      <3>4. CASE NextWord
        BY <2>1, <3>4 DEF NextWord
      <3> QED
        BY <1>5, <3>1, <3>2, <3>3, <3>4
    <2> QED
      BY <2>2 DEF TextsArriveAsMeant
  <1>6. CASE SkipsFilter \/ EntersFilter \/ Substitute
    BY <1>6 DEF SkipsFilter, EntersFilter, Substitute, TextsArriveAsMeant, At
  <1>7. CASE UNCHANGED vars
    BY <1>7 DEF vars, TextsArriveAsMeant
  <1> QED
    BY <1>1, <1>2, <1>3, <1>4, <1>5, <1>6, <1>7 DEF Next

(* What SqueezeCenter's plug-in encodes for a URL or Vagalume for XML      *)
(* arrives as the player means it, for all texts, unless they look like    *)
(* entities themselves: the decoders undo the encoders, whatever stands    *)
(* beside what is encoded.                                                 *)
THEOREM TextsArrive == Spec => []TextsArriveAsMeant
  <1>1. Init => TextsArriveAsMeant
    BY DEF Init, TextsArriveAsMeant, At
  <1> QED
    BY <1>1, AnnouncementTypes, ArrivalStep, PTL DEF Spec

-----------------------------------------------------------------------------
(* What a format becomes from each place on when fields are put in at once *)
Directs(text, i, values) ==
    text[i] = "%" /\ i < Len(text) /\ text[i + 1] \in DOMAIN values

ExpandsFrom(out, text, values) ==
    /\ out[Len(text) + 1] = <<>>
    /\ \A i \in 1 .. Len(text) :
          /\ Directs(text, i, values) => out[i] = values[text[i + 1]] \o out[i + 2]
          /\ ~Directs(text, i, values) => out[i] = <<text[i]>> \o out[i + 1]

LEMMA ExpandedFrom ==
  ASSUME NEW T, NEW text \in Seq(T), NEW values,
         \A d \in DOMAIN values : values[d] \in Seq(T)
  PROVE  \E out : /\ ExpandsFrom(out, text, values)
                  /\ \A i \in 1 .. Len(text) + 1 : out[i] \in Seq(T)
                  /\ ExpandedBy(text, values) = out[1]
  <1> DEFINE n == Len(text) + 1
             Body(out, i) ==
                 IF i > Len(text) THEN <<>>
                 ELSE IF text[i] = "%" /\ i < Len(text) /\ text[i + 1] \in DOMAIN values
                      THEN values[text[i + 1]] \o out[i + 2]
                      ELSE <<text[i]>> \o out[i + 1]
             stop == {i \in 1 .. n : i > Len(text)}
             base == [i \in 1 .. n |-> <<>>]
             head == [i \in 1 .. n |-> IF Directs(text, i, values) THEN values[text[i + 1]]
                                       ELSE <<text[i]>>]
             next == [i \in 1 .. n |-> IF Directs(text, i, values) THEN i + 2 ELSE i + 1]
  <1>1. Len(text) \in Nat /\ \A i \in 1 .. Len(text) : text[i] \in T
    BY LenProperties, ElementOfSeq
  <1>2. \A i \in 1 .. n : i \notin stop => next[i] \in (i + 1) .. n
    BY <1>1 DEF Directs
  <1>3. \A i \in 1 .. n : IF i \in stop THEN base[i] \in Seq(T)
                          ELSE head[i] \in Seq(T) /\ next[i] \in (i + 1) .. n
    <2> TAKE i \in 1 .. n
    <2>1. CASE i \in stop
      BY <2>1, EmptySeq
    <2>2. CASE i \notin stop
      <3>1. text[i] \in T
        BY <1>1, <2>2
      <3>2. head[i] \in Seq(T)
        BY <3>1, OneCharacter DEF Directs
      <3> QED
        BY <1>2, <2>2, <3>2
    <2> QED
      BY <2>1, <2>2
  <1>4. ASSUME NEW out
        PROVE  Continues(out, 1, n, stop, base, head, next)
                  <=> out = [i \in 1 .. n |-> Body(out, i)]
    <2>1. ASSUME NEW i \in 1 .. n
          PROVE  (IF i \in stop THEN base[i] ELSE head[i] \o out[next[i]])
                    = Body(out, i)
      BY <1>1 DEF Directs
    <2>2. [i \in 1 .. n |-> IF i \in stop THEN base[i]
                           ELSE head[i] \o out[next[i]]]
            = [i \in 1 .. n |-> Body(out, i)]
      <3> HIDE DEF Body, stop, base, head, next
      <3> QED
        BY <2>1, Zenon
    <2> HIDE DEF Body, stop, base, head, next
    <2> QED
      BY <2>2 DEF Continues
  <1>5. \E out : Continues(out, 1, n, stop, base, head, next)
    <2>1. 1 \in Nat /\ n \in Nat /\ 1 =< n
      BY <1>1
    <2> HIDE DEF n, stop, base, head, next
    <2> QED
      BY <1>2, <2>1, RecursionFromTheEnd, Zenon
  <1> DEFINE R == CHOOSE out : out = [i \in 1 .. Len(text) + 1 |-> Body(out, i)]
  <1>6. R = [i \in 1 .. n |-> Body(R, i)]
    <2> HIDE DEF Body, stop, base, head, next
    <2> QED
      BY <1>4, <1>5
  <1>7. ExpandedBy(text, values) = R[1]
    BY DEF ExpandedBy
  <1>8. Continues(R, 1, n, stop, base, head, next)
    <2> HIDE DEF Body, R, stop, base, head, next
    <2> QED
      BY <1>4, <1>6
  <1>9. \A i \in 1 .. n : R[i] \in Seq(T)
    <2>1. 1 \in Nat /\ n \in Nat
      BY <1>1
    <2> HIDE DEF R, n, stop, base, head, next
    <2> QED
      BY <1>3, <1>8, <2>1, RecursionType
  <1>10. ExpandsFrom(R, text, values)
    <2>1. \A i \in 1 .. n : R[i] = Body(R, i)
      <3> HIDE DEF Body, R
      <3> QED
        BY <1>6
    <2>2. R[Len(text) + 1] = <<>>
      <3>1. Len(text) + 1 > Len(text) /\ Len(text) + 1 \in 1 .. n
        BY <1>1
      <3>2. R[Len(text) + 1] = Body(R, Len(text) + 1)
        <4> HIDE DEF Body, R
        <4> QED
          BY <2>1, <3>1
      <3> HIDE DEF R, n
      <3> QED
        BY <3>1, <3>2, Zenon
    <2>3. ASSUME NEW i \in 1 .. Len(text)
          PROVE  /\ Directs(text, i, values) => R[i] = values[text[i + 1]] \o R[i + 2]
                 /\ ~Directs(text, i, values) => R[i] = <<text[i]>> \o R[i + 1]
      <3> HIDE DEF R
      <3>1. i \in 1 .. n /\ ~(i > Len(text))
        BY <1>1
      <3>2. R[i] = Body(R, i)
        BY <2>1, <3>1
      <3> QED
        BY <3>1, <3>2, Zenon DEF Directs
    <2> HIDE DEF R
    <2> QED
      BY <2>2, <2>3 DEF ExpandsFrom
  <1> HIDE DEF R
  <1> QED
    BY <1>7, <1>9, <1>10

(* No field at all leaves the text as it is.                               *)
LEMMA NothingExpanded ==
  ASSUME NEW text \in Text, NEW values, DOMAIN values = {}
  PROVE  ExpandedBy(text, values) = text
  <1>0. text \in Seq(Char)
    BY DEF Text
  <1>1. PICK d : /\ ExpandsFrom(d, text, values)
                 /\ \A i \in 1 .. Len(text) + 1 : d[i] \in Seq(Char)
                 /\ ExpandedBy(text, values) = d[1]
    BY <1>0, ExpandedFrom
  <1>2. Len(text) \in Nat
    BY CharactersOf
  <1> DEFINE n == Len(text) + 1
             Good == {i \in 1 .. n : IsTail(d[i], text, i)}
  <1>3. ASSUME NEW i \in 1 .. n, \A j \in (i + 1) .. n : j \in Good
        PROVE  i \in Good
    <2>1. CASE i = n
      BY <1>0, <1>1, <2>1, WholeTail DEF ExpandsFrom
    <2>2. CASE i # n
      <3>1. i \in 1 .. Len(text) /\ i + 1 \in (i + 1) .. n /\ i + 1 \in 1 .. Len(text) + 1
        BY <1>2, <2>2
      <3>2. d[i] = <<text[i]>> \o d[i + 1]
        BY <1>1, <3>1 DEF ExpandsFrom, Directs
      <3>3. IsTail(d[i + 1], text, i + 1) /\ d[i + 1] \in Seq(Char)
        BY <1>1, <1>3, <3>1
      <3> QED
        BY <1>0, <3>1, <3>2, <3>3, TailInFront
    <2> QED
      BY <2>1, <2>2
  <1>4. \A i \in 1 .. n : i \in Good
    <2>1. 1 \in Nat /\ n \in Nat
      BY <1>2
    <2> HIDE DEF Good, n
    <2> QED
      BY <1>3, <2>1, FromTheEnd
  <1>5. IsTail(d[1], text, 1) /\ d[1] \in Seq(Char)
    <2>1. 1 \in 1 .. n
      BY <1>2
    <2> QED
      BY <1>1, <1>4, <2>1
  <1> QED
    BY <1>0, <1>1, <1>5, WholeTail

(* put_field() copies what has no percent sign.                            *)
NoPercent(text) == \A i \in DOMAIN text : text[i] # "%"
TextsFrom(w, buf) == \A q \in 1 .. Len(buf) + 1 : w[q] \in Text
Copies(w, buf, part) ==
    \A p \in 1 .. Len(buf) + 1 :
        p + Len(part) \in 1 .. Len(buf) + 1 /\ StandsAt(buf, part, p) =>
            w[p] = part \o w[p + Len(part)]

LEMMA Copied ==
  ASSUME NEW buf \in Text, NEW id, NEW field \in Text, NEW w,
         FillsFrom(w, buf, id, field), TextsFrom(w, buf)
  PROVE  \A part \in Text : NoPercent(part) => Copies(w, buf, part)
  <1> SUFFICES ASSUME NEW part \in Text, NoPercent(part),
                      NEW p \in 1 .. Len(buf) + 1, p + Len(part) \in 1 .. Len(buf) + 1,
                      StandsAt(buf, part, p)
               PROVE  w[p] = part \o w[p + Len(part)]
    BY DEF Copies
  <1> DEFINE z == w[p + Len(part)]
             text == part \o z
             n == Len(part) + 1
             Good == {m \in 1 .. n : IsTail(w[p + m - 1], text, m)}
  <1>1. /\ Len(part) \in Nat /\ Len(buf) \in Nat /\ z \in Seq(Char)
        /\ part \in Seq(Char) /\ DOMAIN part = 1 .. Len(part)
        /\ \A m \in 1 .. Len(part) : part[m] \in Char
    BY CharactersOf DEF Text, TextsFrom
  <1>2. /\ text \in Seq(Char) /\ Len(text) = Len(part) + Len(z) /\ Len(z) \in Nat
        /\ \A m \in 1 .. Len(part) : text[m] = part[m]
    <2> HIDE DEF z
    <2>1. /\ text \in Seq(Char) /\ Len(text) = Len(part) + Len(z)
          /\ \A m \in 1 .. Len(part) + Len(z) :
                text[m] = IF m <= Len(part) THEN part[m] ELSE z[m - Len(part)]
      BY <1>1, ConcatProperties
    <2>2. Len(z) \in Nat
      BY <1>1, LenProperties
    <2> HIDE DEF text
    <2>3. \A m \in 1 .. Len(part) : m \in 1 .. Len(part) + Len(z) /\ m <= Len(part)
      BY <1>1, <2>2
    <2> QED
      BY <2>1, <2>2, <2>3
  <1>3. \A m \in 1 .. Len(part) : buf[p + m - 1] = part[m]
    <2>1. CASE p \in 1 .. Len(buf)
      BY <2>1, PartStands
    <2>2. CASE p = Len(buf) + 1
      BY <1>1, <2>2
    <2> QED
      BY <1>1, <2>1, <2>2
  <1>4. ASSUME NEW m \in 1 .. n, \A j \in (m + 1) .. n : j \in Good
        PROVE  m \in Good
    <2>1. CASE m = n
      <3>1. IsTail(text, text, 1)
        BY <1>2, WholeTail
      <3>2. IsTail(z, text, 1 + Len(part))
        <4> HIDE DEF z
        <4>1. 1 \in 1 .. Len(text) + 1
          BY <1>1, <1>2
        <4> QED
          BY <1>1, <1>2, <3>1, <4>1, TailOfConcat
      <3>3. p + m - 1 = p + Len(part) /\ 1 + Len(part) = m
        BY <1>1, <2>1
      <3> QED
        BY <3>2, <3>3
    <2>2. CASE m # n
      <3> HIDE DEF z
      <3>1. /\ m \in 1 .. Len(part) /\ m + 1 \in (m + 1) .. n /\ m + 1 \in 1 .. n
            /\ p + m - 1 \in 1 .. Len(buf) /\ p + (m + 1) - 1 = (p + m - 1) + 1
        BY <1>1, <2>2
      <3>2. PICK q \in 1 .. Len(buf) : q = p + m - 1
        BY <3>1
      <3>3. buf[q] = part[m] /\ buf[q] # "%" /\ text[m] = part[m]
        BY <1>1, <1>2, <1>3, <3>1, <3>2 DEF NoPercent
      <3>4. ~FieldAt(buf, id, q - 1)
        <4>1. q - 1 + 1 = q
          BY <3>2
        <4> QED
          BY <3>3, <4>1 DEF FieldAt
      <3>5. w[q] = <<buf[q]>> \o w[q + 1]
        BY <3>4 DEF FillsFrom
      <3> HIDE DEF text
      <3>6. IsTail(w[q + 1], text, m + 1)
        BY <1>4, <3>1, <3>2
      <3>7. w[q + 1] \in Seq(Char) /\ m \in 1 .. Len(text)
        <4>1. q + 1 \in 1 .. Len(buf) + 1 /\ m \in 1 .. Len(text)
          BY <1>1, <1>2, <3>1, <3>2
        <4> QED
          BY <4>1 DEF Text, TextsFrom
      <3>8. IsTail(<<text[m]>> \o w[q + 1], text, m)
        BY <1>2, <3>6, <3>7, TailInFront
      <3> QED
        BY <3>2, <3>3, <3>5, <3>8
    <2> QED
      BY <2>1, <2>2
  <1>5. \A m \in 1 .. n : m \in Good
    <2>1. 1 \in Nat /\ n \in Nat
      BY <1>1
    <2> HIDE DEF Good, n
    <2> QED
      BY <1>4, <2>1, FromTheEnd
  <1>6. IsTail(w[p], text, 1) /\ w[p] \in Seq(Char)
    <2>1. 1 \in 1 .. n /\ p + 1 - 1 = p
      BY <1>1
    <2> HIDE DEF text
    <2>2. IsTail(w[p + 1 - 1], text, 1)
      BY <1>5, <2>1
    <2> QED
      BY <2>1, <2>2 DEF Text, TextsFrom
  <1>7. w[p] = text
    <2> HIDE DEF text
    <2> QED
      BY <1>2, <1>6, WholeTail
  <1> QED
    BY <1>7

(* A format in which no percent sign follows another                       *)
Plain(text) == \A i \in 1 .. Len(text) : text[i] = "%" /\ i < Len(text) => text[i + 1] # "%"

(* One more field, with what it stands for                                 *)
With(more, values, d, field) ==
    /\ DOMAIN more = DOMAIN values \cup {d} /\ more[d] = field
    /\ \A c \in DOMAIN values : more[c] = values[c]

(* Where put_field() stands in a format that fields have been put in: at p *)
(* with what has become of the text from i on.                             *)
Keeps(x, y, w, buf, i) ==
    \A p \in 1 .. Len(buf) + 1 : IsTail(x[i], buf, p) => w[p] = y[i]

LEMMA KeepsStep ==
  ASSUME NEW text \in Text, NEW values, NEW more, NEW d, NEW field \in Text,
         NEW x, NEW y, NEW w, NEW buf \in Text,
         Plain(text), d # "%", d \notin DOMAIN values,
         With(more, values, d, field),
         \A c \in DOMAIN values : values[c] \in Text /\ NoPercent(values[c]),
         ExpandsFrom(x, text, values), ExpandsFrom(y, text, more),
         FillsFrom(w, buf, d, field),
         \A i \in 1 .. Len(text) + 1 : x[i] \in Text,
         \A p \in 1 .. Len(buf) + 1 : w[p] \in Text,
         NEW i \in 1 .. Len(text) + 1,
         \A j \in (i + 1) .. (Len(text) + 1) : Keeps(x, y, w, buf, j)
  PROVE  Keeps(x, y, w, buf, i)
  <1> SUFFICES ASSUME NEW p \in 1 .. Len(buf) + 1, IsTail(x[i], buf, p)
               PROVE  w[p] = y[i]
    BY DEF Keeps
  <1>0. /\ Len(text) \in Nat /\ Len(buf) \in Nat
        /\ \A j \in 1 .. Len(text) : text[j] \in Char
    BY CharactersOf
  (* what stands in front of the rest of x stands in buf at p *)
  <1>1. ASSUME NEW part \in Text, NEW j \in (i + 1) .. (Len(text) + 1),
               x[i] = part \o x[j]
        PROVE  /\ p + Len(part) \in 1 .. Len(buf) + 1
               /\ w[p + Len(part)] = y[j]
               /\ IsTail(x[j], buf, p + Len(part))
               /\ StandsAt(buf, part, p)
    <2>1. j \in 1 .. Len(text) + 1
      BY <1>0
    <2>2. /\ x[j] \in Seq(Char) /\ part \in Seq(Char) /\ buf \in Seq(Char)
          /\ IsTail(part \o x[j], buf, p)
      BY <1>1, <2>1 DEF Text
    <2>3. /\ p + Len(part) \in 1 .. Len(buf) + 1
          /\ IsTail(x[j], buf, p + Len(part))
          /\ StandsAt(buf, part, p)
      BY <2>2, TailOfConcat
    <2> QED
      BY <2>3 DEF Keeps
  (* a single character of it is read there *)
  <1>2. ASSUME NEW c \in Char, NEW j \in 1 .. Len(text), NEW q \in 1 .. Len(buf) + 1,
               x[j] = <<c>> \o x[j + 1], IsTail(x[j], buf, q)
        PROVE  /\ q \in 1 .. Len(buf) /\ buf[q] = c /\ q + 1 \in 1 .. Len(buf) + 1
               /\ IsTail(x[j + 1], buf, q + 1)
    <2> DEFINE part == <<c>>
    <2>1. part \in Seq(Char) /\ Len(part) = 1 /\ part[1] = c
      BY OneCharacter
    <2> HIDE DEF part
    <2>2. j + 1 \in 1 .. Len(text) + 1
      BY <1>0
    <2>3. /\ x[j + 1] \in Seq(Char) /\ buf \in Seq(Char)
          /\ IsTail(part \o x[j + 1], buf, q)
      BY <1>2, <2>2 DEF Text, part
    <2>4. /\ q + Len(part) \in 1 .. Len(buf) + 1
          /\ IsTail(x[j + 1], buf, q + Len(part))
          /\ StandsAt(buf, part, q)
      BY <2>1, <2>3, TailOfConcat
    <2>5. q \in 1 .. Len(buf) /\ q + 1 \in 1 .. Len(buf) + 1
      BY <1>0, <2>1, <2>4
    <2>6. \A m \in 1 .. Len(part) : buf[q + m - 1] = part[m]
      BY <2>1, <2>4, <2>5, PartStands DEF Text
    <2>7. 1 \in 1 .. Len(part) /\ q + 1 - 1 = q
      BY <2>1, <2>5
    <2>8. buf[q + 1 - 1] = part[1]
      BY <2>6, <2>7
    <2> QED
      BY <2>1, <2>4, <2>5, <2>7, <2>8
  <1>3. CASE i = Len(text) + 1
    <2>1. x[i] = <<>> /\ y[i] = <<>>
      BY <1>3 DEF ExpandsFrom
    <2>2. p = Len(buf) + 1
      BY <2>1, WholeTail DEF Text
    <2> QED
      BY <2>1, <2>2 DEF FillsFrom
  <1>4. CASE i \in 1 .. Len(text) /\ Directs(text, i, values)
    <2>1. i < Len(text) /\ text[i + 1] \in DOMAIN values /\ i + 2 \in (i + 1) .. (Len(text) + 1)
      BY <1>0, <1>4 DEF Directs
    <2>2. PICK part : part = values[text[i + 1]]
      OBVIOUS
    <2>3. part \in Text /\ NoPercent(part) /\ x[i] = part \o x[i + 2]
      BY <1>4, <2>1, <2>2 DEF ExpandsFrom
    <2>4. more[text[i + 1]] = part /\ Directs(text, i, more)
      BY <1>4, <2>1, <2>2 DEF With, Directs
    <2>5. y[i] = part \o y[i + 2]
      BY <1>4, <2>4 DEF ExpandsFrom
    <2>6. /\ p + Len(part) \in 1 .. Len(buf) + 1 /\ StandsAt(buf, part, p)
          /\ w[p + Len(part)] = y[i + 2]
      BY <1>1, <2>1, <2>3
    <2>7. w[p] = part \o w[p + Len(part)]
      <3>1. TextsFrom(w, buf)
        BY DEF TextsFrom
      <3>2. \A s \in Text : NoPercent(s) => Copies(w, buf, s)
        BY <3>1, Copied, Zenon
      <3>3. Copies(w, buf, part)
        BY <2>3, <3>2
      <3> QED
        BY <2>6, <3>3 DEF Copies
    <2> QED
      BY <2>5, <2>6, <2>7
  <1>5. CASE i \in 1 .. Len(text) /\ text[i] = "%" /\ i < Len(text) /\ text[i + 1] = d
    <2>1. ~Directs(text, i, values) /\ Directs(text, i, more)
      BY <1>5 DEF Directs, With
    <2>2. y[i] = field \o y[i + 2] /\ x[i] = <<text[i]>> \o x[i + 1]
      BY <1>5, <2>1 DEF ExpandsFrom, With
    <2>3. i + 1 \in 1 .. Len(text) /\ (i + 1) + 1 = i + 2
          /\ i + 2 \in (i + 1) .. (Len(text) + 1)
      BY <1>0, <1>5
    <2>4. ~Directs(text, i + 1, values)
      BY <1>5 DEF Directs
    <2>5. x[i + 1] = <<text[i + 1]>> \o x[i + 2]
      BY <2>3, <2>4 DEF ExpandsFrom
    <2>6. /\ p \in 1 .. Len(buf) /\ buf[p] = "%" /\ p + 1 \in 1 .. Len(buf) + 1
          /\ IsTail(x[i + 1], buf, p + 1)
      <3>1. text[i] \in Char
        BY <1>0, <1>5
      <3> QED
        BY <1>2, <1>5, <2>2, <3>1
    <2>7. /\ p + 1 \in 1 .. Len(buf) /\ buf[p + 1] = d /\ p + 2 \in 1 .. Len(buf) + 1
          /\ IsTail(x[i + 2], buf, p + 2)
      <3>1. text[i + 1] \in Char /\ x[i + 1] = <<text[i + 1]>> \o x[(i + 1) + 1]
        BY <1>0, <2>3, <2>5
      <3>2. /\ p + 1 \in 1 .. Len(buf) /\ buf[p + 1] = text[i + 1]
            /\ (p + 1) + 1 \in 1 .. Len(buf) + 1
            /\ IsTail(x[(i + 1) + 1], buf, (p + 1) + 1)
        <4>1. PICK j \in 1 .. Len(text) : j = i + 1
          BY <2>3
        <4>2. PICK q \in 1 .. Len(buf) + 1 : q = p + 1
          BY <2>6
        <4>3. text[j] \in Char /\ x[j] = <<text[j]>> \o x[j + 1] /\ IsTail(x[j], buf, q)
          BY <2>6, <3>1, <4>1, <4>2
        <4>4. /\ q \in 1 .. Len(buf) /\ buf[q] = text[j] /\ q + 1 \in 1 .. Len(buf) + 1
              /\ IsTail(x[j + 1], buf, q + 1)
          BY <1>2, <4>3
        <4> QED
          BY <4>1, <4>2, <4>4
      <3>3. (p + 1) + 1 = p + 2
        BY <2>6
      <3> QED
        BY <1>5, <2>3, <3>2, <3>3
    <2>8. FieldAt(buf, d, p - 1)
      <3>1. p - 1 + 1 = p /\ p - 1 + 2 = p + 1 /\ p - 1 + 1 < Len(buf)
        BY <1>0, <2>6, <2>7
      <3> QED
        BY <2>6, <2>7, <3>1 DEF FieldAt
    <2>9. w[p] = field \o w[p + 2]
      BY <2>6, <2>8 DEF FillsFrom
    <2>10. w[p + 2] = y[i + 2]
      BY <2>3, <2>7 DEF Keeps
    <2> QED
      BY <2>2, <2>9, <2>10
  <1>6. CASE /\ i \in 1 .. Len(text) /\ ~Directs(text, i, values)
             /\ ~(text[i] = "%" /\ i < Len(text) /\ text[i + 1] = d)
    <2>1. ~Directs(text, i, more)
      BY <1>6 DEF Directs, With
    <2>2. y[i] = <<text[i]>> \o y[i + 1] /\ x[i] = <<text[i]>> \o x[i + 1]
      BY <1>6, <2>1 DEF ExpandsFrom
    <2>3. text[i] \in Char /\ i + 1 \in (i + 1) .. (Len(text) + 1)
      BY <1>0, <1>6
    <2>4. /\ p \in 1 .. Len(buf) /\ buf[p] = text[i] /\ p + 1 \in 1 .. Len(buf) + 1
          /\ IsTail(x[i + 1], buf, p + 1)
      BY <1>2, <1>6, <2>2, <2>3
    <2>5. ~FieldAt(buf, d, p - 1)
      <3> SUFFICES ASSUME FieldAt(buf, d, p - 1) PROVE FALSE
        OBVIOUS
      <3>1. p < Len(buf) /\ buf[p] = "%" /\ buf[p + 1] = d
        <4>1. p - 1 + 1 = p /\ p - 1 + 2 = p + 1
          BY <2>4
        <4> QED
          BY <4>1 DEF FieldAt
      <3>2. CASE i = Len(text)
        <4>1. x[i + 1] = <<>>
          BY <3>2 DEF ExpandsFrom
        <4>2. p + 1 = Len(buf) + 1
          BY <2>4, <4>1, WholeTail DEF Text
        <4> QED
          BY <1>0, <2>4, <3>1, <4>2
      <3>3. CASE i # Len(text)
        <4>1. i < Len(text) /\ i + 1 \in 1 .. Len(text)
          BY <1>0, <1>6, <3>3
        <4>2. text[i] = "%" /\ text[i + 1] # "%" /\ text[i + 1] # d
          BY <1>6, <2>4, <3>1, <4>1 DEF Plain
        <4>3. ~Directs(text, i + 1, values)
          BY <4>2 DEF Directs
        <4>4. x[i + 1] = <<text[i + 1]>> \o x[(i + 1) + 1] /\ text[i + 1] \in Char
          BY <1>0, <4>1, <4>3 DEF ExpandsFrom
        <4>5. buf[p + 1] = text[i + 1]
          <5>1. PICK j \in 1 .. Len(text) : j = i + 1
            BY <4>1
          <5>2. PICK q \in 1 .. Len(buf) + 1 : q = p + 1
            BY <2>4
          <5>3. text[j] \in Char /\ x[j] = <<text[j]>> \o x[j + 1] /\ IsTail(x[j], buf, q)
            BY <2>4, <4>4, <5>1, <5>2
          <5>4. buf[q] = text[j]
            BY <1>2, <5>3
          <5> QED
            BY <5>1, <5>2, <5>4
        <4> QED
          BY <3>1, <4>2, <4>5
      <3> QED
        BY <3>2, <3>3
    <2>6. w[p] = <<buf[p]>> \o w[p + 1]
      BY <2>4, <2>5 DEF FillsFrom
    <2>7. w[p + 1] = y[i + 1]
      BY <2>3, <2>4 DEF Keeps
    <2> QED
      BY <2>2, <2>4, <2>6, <2>7
  <1> QED
    BY <1>0, <1>3, <1>4, <1>5, <1>6

(* put_field() puts one more field in, as if it had been put in at once    *)
(* with those before it: it meets the same directives as in the format.    *)
LEMMA OneMoreField ==
  ASSUME NEW text \in Text, NEW values, NEW more, NEW d, NEW field \in Text,
         Plain(text), d # "%", d \notin DOMAIN values, With(more, values, d, field),
         \A c \in DOMAIN values : values[c] \in Text /\ NoPercent(values[c])
  PROVE  PutField(ExpandedBy(text, values), d, field) = ExpandedBy(text, more)
  <1> DEFINE n == Len(text) + 1
             buf == ExpandedBy(text, values)
  <1>0. text \in Seq(Char) /\ field \in Seq(Char) /\ Len(text) \in Nat /\ Nul \notin Char
    BY CharactersOf, CharAssumption DEF Text
  <1>1. PICK x : /\ ExpandsFrom(x, text, values)
                 /\ \A i \in 1 .. Len(text) + 1 : x[i] \in Seq(Char)
                 /\ buf = x[1]
    <2>1. \A c \in DOMAIN values : values[c] \in Seq(Char)
      BY DEF Text
    <2> QED
      BY <1>0, <2>1, ExpandedFrom
  <1>2. PICK y : /\ ExpandsFrom(y, text, more)
                 /\ ExpandedBy(text, more) = y[1]
    <2>1. \A c \in DOMAIN more : more[c] \in Seq(Char)
      BY <1>0 DEF Text, With
    <2> QED
      BY <1>0, <2>1, ExpandedFrom
  <1> HIDE DEF buf
  <1>3. buf \in Seq(Char)
    BY <1>0, <1>1
  <1>4. PICK w : /\ FillsFrom(w, buf, d, field)
                 /\ \A p \in 1 .. Len(buf) + 1 : w[p] \in Seq(Char)
                 /\ PutField(buf, d, field) = w[1]
    BY <1>0, <1>3, FilledFrom
  <1> DEFINE Good == {i \in 1 .. n : Keeps(x, y, w, buf, i)}
  <1>5. ASSUME NEW i \in 1 .. n, \A j \in (i + 1) .. n : j \in Good
        PROVE  i \in Good
    <2>1. /\ \A j \in (i + 1) .. (Len(text) + 1) : Keeps(x, y, w, buf, j)
          /\ buf \in Text
          /\ \A j \in 1 .. Len(text) + 1 : x[j] \in Text
          /\ \A p \in 1 .. Len(buf) + 1 : w[p] \in Text
      BY <1>1, <1>3, <1>4, <1>5 DEF Text
    <2>2. Keeps(x, y, w, buf, i)
      BY <1>1, <1>2, <1>4, <2>1, KeepsStep, Zenon
    <2> QED
      BY <2>2
  <1>6. \A i \in 1 .. n : i \in Good
    <2>1. 1 \in Nat /\ n \in Nat
      BY <1>0
    <2> HIDE DEF Good, n
    <2> QED
      BY <1>5, <2>1, FromTheEnd
  <1>7. Keeps(x, y, w, buf, 1)
    <2>1. 1 \in 1 .. n
      BY <1>0
    <2> QED
      BY <1>6, <2>1
  <1>8. IsTail(x[1], buf, 1) /\ 1 \in 1 .. Len(buf) + 1
    BY <1>1, <1>3, WholeTail, LenProperties
  <1>9. w[1] = y[1]
    BY <1>7, <1>8 DEF Keeps
  <1> QED
    BY <1>2, <1>4, <1>9 DEF buf

-----------------------------------------------------------------------------
(* What generate_status() works on is the format with the fields so far.   *)
Buffer == IF step.i = 1 THEN format.text ELSE status

ExpandInv ==
    Harmless => /\ step.name = "format" =>
                      Buffer = ExpandedBy(format.text, Values(step.i - 1))
                /\ step.name = "done" => status = Expanded(format.text)

(* No directive is the percent sign, none is there twice, and the values   *)
(* have no percent sign if the track has none.                             *)
LEMMA DirectivesDiffer ==
  ASSUME NEW i \in 1 .. 8, NEW j \in 1 .. 8, i # j
  PROVE  Directive[i] # Directive[j]
  <1>1. /\ i = 1 \/ i = 2 \/ i = 3 \/ i = 4 \/ i = 5 \/ i = 6 \/ i = 7 \/ i = 8
        /\ j = 1 \/ j = 2 \/ j = 3 \/ j = 4 \/ j = 5 \/ j = 6 \/ j = 7 \/ j = 8
    OBVIOUS
  <1> QED
    BY <1>1, DirectiveType

LEMMA ValueNoPercent ==
  ASSUME TypeInv, Harmless, NEW i \in 1 .. 8
  PROVE  NoPercent(Value(Directive[i]))
  <1> DEFINE d == Directive[i]
  <1>1. \/ d = "p" \/ d = "a" \/ d = "t" \/ d = "r"
        \/ d = "d" \/ d = "c" \/ d = "b" \/ d = "m"
    BY DirectiveType
  <1>2. /\ NoPercent(<<"R">>) /\ NoPercent(<<"D">>)
        /\ NoPercent(<<"C">>) /\ NoPercent(<<"M">>)
    BY DEF NoPercent
  <1>3. NoPercent(Bar(format.elapsed, format.total))
    BY DEF NoPercent, Bar
  <1>4. NoPercent(ti.artist) /\ NoPercent(ti.album) /\ NoPercent(ti.track)
    BY DEF Harmless, Field, NoPercent
  <1> HIDE DEF d
  <1>5. NoPercent(Value(d))
    BY <1>1, <1>2, <1>3, <1>4 DEF Value
  <1> QED
    BY <1>5 DEF d

LEMMA FormatIsPlain ==
  ASSUME TypeInv, Harmless
  PROVE  Plain(format.text)
  <1> DEFINE text == format.text
             two == <<"%", "%">>
  <1>1. text \in Text
    BY ChoiceTypes DEF TypeInv
  <1>2. \A i \in DOMAIN text : ~StandsAt(text, two, i)
    BY DEF Harmless
  <1>3. two \in Text /\ Len(two) = 2 /\ two[1] = "%" /\ two[2] = "%"
    BY NamedCharacters, TwoCharacters DEF Text
  <1> HIDE DEF text, two
  <1> SUFFICES ASSUME NEW i \in 1 .. Len(text), text[i] = "%", i < Len(text),
                      text[i + 1] = "%"
               PROVE  FALSE
    BY DEF Plain, text
  <1>4. /\ i \in Nat \ {0} /\ i + Len(two) - 1 <= Len(text) /\ i \in DOMAIN text
        /\ \A m \in 1 .. Len(two) : text[i + m - 1] = two[m]
    <2>1. /\ i \in Nat \ {0} /\ i + 2 - 1 <= Len(text) /\ i \in DOMAIN text
          /\ i + 1 - 1 = i /\ i + 2 - 1 = i + 1
      BY <1>1, CharactersOf
    <2>2. \A m \in 1 .. 2 : m = 1 \/ m = 2
      OBVIOUS
    <2> QED
      BY <1>3, <2>1, <2>2
  <1>5. StandsAt(text, two, i)
    BY <1>1, <1>3, <1>4, StandsThere DEF Text
  <1> QED
    BY <1>2, <1>4, <1>5

(* One more of the fields                                                  *)
LEMMA FieldPutIn ==
  ASSUME TypeInv, Harmless, NEW i \in 1 .. 8
  PROVE  PutField(ExpandedBy(format.text, Values(i - 1)), Directive[i],
                  Value(Directive[i]))
            = ExpandedBy(format.text, Values(i))
  <1> DEFINE values == Values(i - 1)
             more == Values(i)
             d == Directive[i]
             field == Value(d)
  <1>1. DOMAIN values = {Directive[j] : j \in 1 .. i - 1} /\
        \A j \in 1 .. i - 1 : values[Directive[j]] = Value(Directive[j])
    BY DEF Values
  <1>2. DOMAIN more = {Directive[j] : j \in 1 .. i} /\
        \A j \in 1 .. i : more[Directive[j]] = Value(Directive[j])
    BY DEF Values
  <1>3. d # "%"
    BY DirectiveType
  <1>4. \A j \in 1 .. i - 1 : Directive[j] # d
    BY DirectivesDiffer
  <1>5. \A j \in 1 .. i : Value(Directive[j]) \in Text /\ NoPercent(Value(Directive[j]))
    BY ValueType, ValueNoPercent DEF TypeInv
  <1>6. format.text \in Text /\ field \in Text
    BY <1>5, ChoiceTypes DEF TypeInv
  <1> HIDE DEF values, more, field
  <1>7. With(more, values, d, field)
    <2>1. \A j \in 1 .. i : j = i \/ j \in 1 .. i - 1
      OBVIOUS
    <2>2. \A j \in 1 .. i - 1 : j \in 1 .. i
      OBVIOUS
    <2>3. DOMAIN more = DOMAIN values \cup {d}
      BY <1>1, <1>2, <2>1, <2>2
    <2>4. more[d] = field
      BY <1>2 DEF field
    <2>5. \A c \in DOMAIN values : more[c] = values[c]
      BY <1>1, <1>2, <2>2
    <2> QED
      BY <2>3, <2>4, <2>5 DEF With
  <1>8. \A c \in DOMAIN values : values[c] \in Text /\ NoPercent(values[c])
    <2>1. \A j \in 1 .. i - 1 : j \in 1 .. i
      OBVIOUS
    <2> QED
      BY <1>1, <1>5, <2>1
  <1>9. d \notin DOMAIN values
    BY <1>1, <1>4
  <1>10. Plain(format.text)
    BY FormatIsPlain
  <1> HIDE DEF d
  <1>11. PutField(ExpandedBy(format.text, values), d, field)
            = ExpandedBy(format.text, more)
    BY <1>3, <1>6, <1>7, <1>8, <1>9, <1>10, OneMoreField, Zenon
  <1> QED
    BY <1>11 DEF values, more, d, field

LEMMA ExpandInvStep == TypeInv /\ ExpandInv /\ [Next]_vars => ExpandInv'
  <1> SUFFICES ASSUME TypeInv, ExpandInv, [Next]_vars
               PROVE  ExpandInv'
    OBVIOUS
  (* no field has been put in when the callback comes to the format *)
  <1>1. ASSUME format' = format, step'.name = "format", step'.i = 1
        PROVE  ExpandInv'
    <2>1. DOMAIN (Values(step.i - 1)') = {}
      <3>1. 1 .. step'.i - 1 = {}
        BY <1>1
      <3> QED
        BY <3>1 DEF Values
    <2>2. format.text \in Text
      BY ChoiceTypes DEF TypeInv
    <2>3. ExpandedBy(format.text, Values(step.i - 1)') = format.text
      BY <2>1, <2>2, NothingExpanded
    <2>4. Buffer' = format.text
      BY <1>1 DEF Buffer
    <2>5. Buffer' = ExpandedBy(format.text, Values(step.i - 1))'
      BY <1>1, <2>3, <2>4
    <2> QED
      BY <1>1, <2>5 DEF ExpandInv
  <1>2. ASSUME step'.name \notin {"format", "done"}
        PROVE  ExpandInv'
    BY <1>2 DEF ExpandInv
  <1>3. CASE Substitute
    <2> DEFINE i == step.i
               d == Directive[i]
    <2>1. i \in 1 .. 8 /\ step.name = "format"
      BY <1>3, DirectiveType DEF Substitute
    <2>2. /\ status' = PutField(Buffer, d, Value(d))
          /\ step' = IF i < 8 THEN At("format", i + 1, 1) ELSE At("done", 1, 1)
          /\ format' = format /\ ti' = ti
      BY <1>3, DirectiveType DEF Substitute, Buffer
    <2>3. Harmless' = Harmless
      BY <2>2 DEF Harmless
    <2> SUFFICES ASSUME Harmless
                 PROVE  /\ step'.name = "format" =>
                              Buffer' = ExpandedBy(format.text, Values(step.i - 1))'
                        /\ step'.name = "done" => status' = Expanded(format.text)'
      BY <2>3 DEF ExpandInv
    <2>4. Buffer = ExpandedBy(format.text, Values(i - 1))
      BY <2>1 DEF ExpandInv
    <2>5. status' = ExpandedBy(format.text, Values(i))
      BY <2>1, <2>2, <2>4, FieldPutIn
    <2>6. ASSUME NEW k \in Nat PROVE Values(k)' = Values(k)
      BY <2>2 DEF Values, Value
    <2>7. CASE i < 8
      <3>1. /\ step'.name = "format" /\ step'.i = i + 1 /\ step'.i # 1
            /\ step'.i - 1 = i /\ i \in Nat
        BY <2>1, <2>2, <2>7 DEF At
      <3>2. Buffer' = status'
        BY <3>1 DEF Buffer
      <3>3. Values(step.i - 1)' = Values(i)
        <4>1. 1 .. step'.i - 1 = 1 .. i
          BY <3>1
        <4>2. ASSUME NEW c PROVE Value(c)' = Value(c)
          BY <2>2 DEF Value
        <4> HIDE DEF i
        <4> QED
          BY <4>1, <4>2 DEF Values
      <3>4. ExpandedBy(format.text, Values(step.i - 1))'
               = ExpandedBy(format.text, Values(i))
        BY <2>2, <3>3
      <3>5. step'.name # "done"
        BY <3>1
      <3> QED
        BY <2>5, <3>2, <3>4, <3>5
    <2>8. CASE ~(i < 8)
      <3>1. step'.name = "done" /\ i = 8 /\ Len(Directive) = 8
        BY <2>1, <2>2, <2>8, DirectiveType DEF At
      <3>2. Values(Len(Directive))' = Values(i)
        BY <2>6, <3>1
      <3>3. Expanded(format.text)' = ExpandedBy(format.text, Values(i))
        BY <2>2, <3>2 DEF Expanded
      <3> QED
        BY <2>5, <3>1, <3>3
    <2> QED
      BY <2>7, <2>8
  <1>4. CASE \E encoding \in {"none", "url", "xml"} : Hear(encoding)
    <2>1. step'.name = "trim"
      BY <1>4 DEF Hear, At
    <2> QED
      BY <1>2, <2>1
  <1>5. CASE TrimFields
    <2>1. step'.name = "validate"
      BY <1>5 DEF TrimFields, At
    <2> QED
      BY <1>2, <2>1
  <1>6. CASE IsValid
    <2>1. step.i \in 1 .. 3 /\ step' = NextField("validate")
      BY <1>6 DEF IsValid, TypeInv
    <2>2. step'.name \notin {"format", "done"}
      BY <2>1, OrderType DEF NextField, At
    <2> QED
      BY <1>2, <2>2
  <1>7. CASE MasksUnprintable
    <2>1. /\ step.i \in 1 .. 3 /\ step' = NextField("filter") /\ format' = format
      BY <1>7 DEF MasksUnprintable, TypeInv
    <2>2. \/ step'.name \notin {"format", "done"}
          \/ step'.name = "format" /\ step'.i = 1
      BY <2>1, OrderType DEF NextField, At
    <2> QED
      BY <1>1, <1>2, <2>1, <2>2
  <1>8. CASE Converts \/ ReplacesByte \/ MasksWord \/ NextWord \/ EntersFilter
    <2>1. step \in [name : Steps, i : 1 .. 8, k : Nat \ {0}]
      BY DEF TypeInv
    <2>2. step'.name \notin {"format", "done"}
      <3>1. CASE Converts
        BY <3>1 DEF Converts
      <3>2. CASE ReplacesByte
        BY <2>1, <3>2 DEF ReplacesByte
      <3>3. CASE MasksWord
        BY <3>3 DEF MasksWord
      <3>4. CASE NextWord
        BY <2>1, <3>4 DEF NextWord
      <3>5. CASE EntersFilter
        BY <3>5 DEF EntersFilter, At
      <3> QED
        BY <1>8, <3>1, <3>2, <3>3, <3>4, <3>5
    <2> QED
      BY <1>2, <2>2
  <1>9. CASE SkipsFilter
    <2>1. step'.name = "format" /\ step'.i = 1 /\ format' = format
      BY <1>9 DEF SkipsFilter, At
    <2> QED
      BY <1>1, <2>1
  <1>10. CASE UNCHANGED vars
    <2>1. /\ ti' = ti /\ format' = format /\ step' = step /\ status' = status
      BY <1>10 DEF vars
    <2>2. /\ Harmless' = Harmless /\ Buffer' = Buffer
          /\ Values(step.i - 1)' = Values(step.i - 1)
          /\ Values(Len(Directive))' = Values(Len(Directive))
      BY <2>1 DEF Harmless, Buffer, Values, Value
    <2> QED
      BY <2>1, <2>2 DEF ExpandInv, Expanded
  <1> QED
    BY <1>3, <1>4, <1>5, <1>6, <1>7, <1>8, <1>9, <1>10 DEF Next

(* Although each field goes through what those before it have put in the   *)
(* status, it is the format with all of them put in at once, for all       *)
(* formats and all texts of tracks without the percent signs that make     *)
(* the difference.                                                         *)
THEOREM StatusIsTheFormat == Spec => []StatusIsExpansion
  <1>1. Init => ExpandInv
    BY DEF Init, At, ExpandInv
  <1>2. ExpandInv => StatusIsExpansion
    BY DEF ExpandInv, StatusIsExpansion
  <1> QED
    BY <1>1, <1>2, AnnouncementTypes, ExpandInvStep, PTL DEF Spec
=============================================================================
