---------------------------- MODULE TextHelpers ----------------------------
(***************************************************************************)
(* The string functions of utils.c, squeezecenter.c and vagalume.c that    *)
(* the texts of players pass through.  A text is a sequence of characters; *)
(* Nul ends it in memory and is no part of it.                             *)
(*                                                                         *)
(* An operator X_Variant is X with a mistake its author could have made;   *)
(* nothing uses it.                                                        *)
(***************************************************************************)
EXTENDS FiniteSetsExt, Sequences, Integers

CONSTANT Nul

(* part stands in buf at i *)
StandsAt(buf, part, i) ==
    i + Len(part) - 1 <= Len(buf) /\ SubSeq(buf, i, i + Len(part) - 1) = part

(* trim(): from the first to the last character that is no blank *)
Trim(buf) ==
    LET Kept == {i \in DOMAIN buf : buf[i] # " "}
    IN  IF Kept = {} THEN <<>> ELSE SubSeq(buf, Min(Kept), Max(Kept))

-----------------------------------------------------------------------------
(* A field at the very end is not seen *)
FieldAt_NotLast(buf, id, i) ==
    i + 2 < Len(buf) /\ buf[i + 1] = "%" /\ buf[i + 2] = id

(* put_field() goes through the buffer twice, with an index from 0; what   *)
(* it looks for cannot begin at the last character:                        *)
FieldAt(buf, id, i) ==
    i + 1 < Len(buf) /\ buf[i + 1] = "%" /\ buf[i + 2] = id

(* The last character is looked at like all others *)
CountFor_ToTheEnd(buf, id, field) ==
    LET count[i \in 0 .. Len(buf)] ==
            IF i = Len(buf) THEN 0
            ELSE IF FieldAt(buf, id, i) THEN Len(field) + count[i + 2]
            ELSE 1 + count[i + 1]
    IN  count[0] + 1

(* the first time to count what it will write, *)
CountFor(buf, id, field) ==
    LET count[i \in 0 .. Len(buf)] ==
            IF i + 1 >= Len(buf) THEN 0
            ELSE IF FieldAt(buf, id, i) THEN Len(field) + count[i + 2]
            ELSE 1 + count[i + 1]
    IN  count[0] + 1

(* the second time to write it: the last character, or the Nul behind it,  *)
(* is copied without a look.                                               *)
Written(buf, id, field) ==
    LET out[i \in 0 .. Len(buf)] ==
            IF i + 1 >= Len(buf) THEN <<IF i < Len(buf) THEN buf[i + 1] ELSE Nul>>
            ELSE IF FieldAt(buf, id, i) THEN field \o out[i + 2]
            ELSE <<buf[i + 1]>> \o out[i + 1]
    IN  out[0]

(* What has been written is a string up to its first Nul.                  *)
PutField(buf, id, field) ==
    LET out == Append(Written(buf, id, field), Nul)
    IN  SubSeq(out, 1, Min({j \in DOMAIN out : out[j] = Nul}) - 1)

-----------------------------------------------------------------------------
(* urldecodestr(): two hexadecimal digits after a percent sign stand for   *)
(* the character that Code gives them; other percent signs for themselves. *)
UrlDecode(buf, Code) ==
    LET coded(i) == {p \in DOMAIN Code : StandsAt(buf, <<"%">> \o p, i)}
        out[i \in 1 .. Len(buf) + 1] ==
            IF i > Len(buf) THEN <<>>
            ELSE IF coded(i) # {}
                 THEN <<Code[CHOOSE p \in coded(i) : TRUE]>> \o out[i + 3]
                 ELSE <<buf[i]>> \o out[i + 1]
    IN  out[1]

(* str_replace(): each occurrence from the left, and on behind it *)
Replace(str, old, new) ==
    LET out[i \in 1 .. Len(str) + 1] ==
            IF i > Len(str) THEN <<>>
            ELSE IF StandsAt(str, old, i) THEN new \o out[i + Len(old)]
            ELSE <<str[i]>> \o out[i + 1]
    IN  out[1]

(* unescape_string(): an entity is & and a name *)
Entity == <<<<"amp;", "&">>, <<"lt;", "<">>, <<"gt;", ">">>, <<"apos;", "'">>,
            <<"quot;", "\"">>>>

Unescaped(str, k) == Replace(str, <<"&", Entity[k][1]>>, <<Entity[k][2]>>)

(* The ampersands are forgotten *)
Unescape_NotAmp(str) ==
    Unescaped(Unescaped(Unescaped(Unescaped(str, 2), 3), 4), 5)

Unescape(str) ==
    Unescaped(Unescaped(Unescaped(Unescaped(Unescaped(str, 1), 2), 3), 4), 5)
=============================================================================
