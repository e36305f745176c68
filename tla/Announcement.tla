---------------------------- MODULE Announcement ----------------------------
(***************************************************************************)
(* How a poll turns what a player told into a status text: cb_timeout      *)
(* (musictracker.c) from trim() to generate_status(), filter() with its    *)
(* loop, and, before it, the decoders of the two readers whose players     *)
(* encode their texts.  The steps are those of one callback; each turn of  *)
(* a loop is one, so that a loop that does not end shows.                  *)
(*                                                                         *)
(* An operator X_Variant is X with a mistake its author could have made;   *)
(* nothing uses it.                                                        *)
(***************************************************************************)
EXTENDS TextHelpers

CONSTANTS
    Letter,         \* the characters that \b takes for part of a word
    Unprintable,    \* characters that are replaced by the mask
    Invalid,        \* bytes that are not UTF-8
    Convertible,    \* what such a byte may stand for in the locale's encoding
    Char,           \* these and all other characters of texts
    Lower,          \* of the characters that differ in case only, the same one
    Titles, Artists,\* what players may tell
    Formats,        \* PREF_FORMAT, with the elapsed and the total seconds
    Filters         \* PREF_FILTER_ENABLE, PREF_FILTER, split, and PREF_MASK

(* The characters that this module and TextHelpers name *)
Named == {"%", "2", "5", "0", "&", "amp;", "lt;", "gt;", "apos;", "quot;", "<", ">",
          "'", "\"", " ", "?", "R", "D", "C", "M", "|", "-"}

ASSUME CharAssumption ==
    /\ Letter \cup Unprintable \cup Invalid \cup Named \subseteq Char
    /\ Nul \notin Char
    /\ Convertible \subseteq Char \ Invalid
    /\ Lower \in [Char -> Char]
    /\ Letter \cap (Unprintable \cup Invalid) = {}
    /\ "?" \notin Invalid
ASSUME TextsAssumption == Titles \cup Artists \subseteq Seq(Char)
ASSUME FormatsAssumption ==
    Formats \subseteq [text : Seq(Char), elapsed : Int, total : Int]
ASSUME FiltersAssumption ==
    Filters \subseteq [on : BOOLEAN, words : Seq(Seq(Char)), mask : Char]

Field == {"track", "artist", "album"}
Order == <<"track", "artist", "album">>

VARIABLES
    told,           \* what the player means, in each field
    format, filter, \* the choices above
    ti,             \* the TrackInfo
    step,           \* where the callback is
    status,         \* the text that generate_status() returns
    exact,          \* whether the assertion of put_field() has held
    valid           \* history: ti as filter() finds it

vars == <<told, format, filter, ti, step, status, exact, valid>>

At(name, i, k) == [name |-> name, i |-> i, k |-> k]
Set(f, text) == ti' = [ti EXCEPT ![f] = text]

-----------------------------------------------------------------------------
(* The players: most send plain texts, SqueezeCenter encodes them for a    *)
(* URL and Vagalume for XML.                                               *)
UrlCode == [p \in {<<"2", "5">>, <<"2", "0">>} |-> IF p[2] = "5" THEN "%" ELSE " "]
UrlEncoding == [c \in {"%", " "} |-> IF c = "%" THEN <<"%", "2", "5">>
                                                 ELSE <<"%", "2", "0">>]
XmlEncoding ==
    [c \in {Entity[k][2] : k \in 1 .. 5} |->
        <<"&", Entity[CHOOSE k \in 1 .. 5 : Entity[k][2] = c][1]>>]

Encoded(text, encoding) ==
    LET out[i \in 1 .. Len(text) + 1] ==
            IF i > Len(text) THEN <<>>
            ELSE IF text[i] \in DOMAIN encoding
                 THEN encoding[text[i]] \o out[i + 1]
                 ELSE <<text[i]>> \o out[i + 1]
    IN  out[1]

Heard(text, encoding) ==
    CASE encoding = "none" -> text
      [] encoding = "url" -> UrlDecode(Encoded(text, UrlEncoding), UrlCode)
      [] encoding = "xml" -> Unescape(Encoded(text, XmlEncoding))

Hear(encoding) ==
    /\ step.name = "hear"
    /\ ti' = [f \in Field |-> Heard(told[f], encoding)]
    /\ step' = At("trim", 1, 1)
    /\ UNCHANGED <<told, format, filter, status, exact, valid>>

TrimFields ==
    /\ step.name = "trim"
    /\ ti' = [f \in Field |-> Trim(ti[f])]
    /\ step' = At("validate", 1, 1)
    /\ UNCHANGED <<told, format, filter, status, exact, valid>>

-----------------------------------------------------------------------------
(* utf8_validate() of one field after the other *)
InvalidIn(text) == {i \in DOMAIN text : text[i] \in Invalid}

NextField(name) == IF step.i < Len(Order) THEN At(name, step.i + 1, 1)
                   ELSE IF name = "validate" THEN At("filter?", 1, 1)
                   ELSE At("format", 1, 1)

(* The text is all of the locale's encoding and read as that, *)
Converts ==
    /\ step.name = "validate"
    /\ InvalidIn(ti[Order[step.i]]) # {}
    /\ step.k = 1
    /\ \E locale \in [Invalid -> Convertible] :
          Set(Order[step.i],
              [j \in DOMAIN ti[Order[step.i]] |->
                  IF ti[Order[step.i]][j] \in Invalid
                  THEN locale[ti[Order[step.i]][j]] ELSE ti[Order[step.i]][j]])
    /\ UNCHANGED <<told, format, filter, step, status, exact, valid>>

(* or it cannot be converted, and its bytes are replaced from the left *)
ReplacesByte ==
    /\ step.name = "validate"
    /\ LET f == Order[step.i]
       IN  /\ InvalidIn(ti[f]) # {}
           /\ Set(f, [ti[f] EXCEPT ![Min(InvalidIn(ti[f]))] = "?"])
    /\ step' = [step EXCEPT !.k = 2]
    /\ UNCHANGED <<told, format, filter, status, exact, valid>>

IsValid ==
    /\ step.name = "validate"
    /\ InvalidIn(ti[Order[step.i]]) = {}
    /\ step' = NextField("validate")
    /\ UNCHANGED <<told, format, filter, ti, status, exact, valid>>

-----------------------------------------------------------------------------
(* The regular expression \b(word)\b, whatever the case: its \b is of the *)
(* text as it is, its word of the text with all case folded.               *)
Folded(text) == [j \in DOMAIN text |-> Lower[text[j]]]

IsLetter(text, i) == i \in DOMAIN text /\ text[i] \in Letter
Boundary(text, i) == IsLetter(text, i - 1) # IsLetter(text, i)

(* Also inside of other words *)
Found_Anywhere(text, word) ==
    {i \in DOMAIN text : StandsAt(Folded(text), Folded(word), i)}

Found(text, word) ==
    {i \in DOMAIN text :
        /\ StandsAt(Folded(text), Folded(word), i)
        /\ Boundary(text, i) /\ Boundary(text, i + Len(word))}

(* From the second letter on, for a hint of what it was *)
Masked_ButFirst(text, from, to) ==
    [i \in DOMAIN text |-> IF i > from /\ i <= to THEN filter.mask ELSE text[i]]

(* str[i] = mask, from one place to another *)
Masked(text, from, to) ==
    [i \in DOMAIN text |-> IF i >= from /\ i <= to THEN filter.mask ELSE text[i]]

SkipsFilter ==
    /\ step.name = "filter?" /\ ~filter.on
    /\ step' = At("format", 1, 1)
    /\ UNCHANGED <<told, format, filter, ti, status, exact, valid>>

EntersFilter ==
    /\ step.name = "filter?" /\ filter.on
    /\ valid' = ti
    /\ step' = At("filter", 1, 1)
    /\ UNCHANGED <<told, format, filter, ti, status, exact>>

(* One turn of filter()'s inner loop *)
MasksWord ==
    /\ step.name = "filter" /\ step.k \in DOMAIN filter.words
    /\ LET f == Order[step.i]
           word == filter.words[step.k]
           hits == Found(ti[f], word)
       IN  /\ word # <<>> /\ hits # {}
           /\ Set(f, Masked(ti[f], Min(hits), Min(hits) + Len(word) - 1))
    /\ UNCHANGED <<told, format, filter, step, status, exact, valid>>

(* Each word is looked for once *)
NextWord_Always ==
    /\ step.name = "filter" /\ step.k \in DOMAIN filter.words
    /\ step' = [step EXCEPT !.k = @ + 1]
    /\ UNCHANGED <<told, format, filter, ti, status, exact, valid>>

(* A word is done with; an empty one is skipped *)
NextWord ==
    /\ step.name = "filter" /\ step.k \in DOMAIN filter.words
    /\ LET word == filter.words[step.k]
       IN  word = <<>> \/ Found(ti[Order[step.i]], word) = {}
    /\ step' = [step EXCEPT !.k = @ + 1]
    /\ UNCHANGED <<told, format, filter, ti, status, exact, valid>>

(* Behind the words, the characters that cannot be printed *)
MasksUnprintable ==
    /\ step.name = "filter" /\ step.k = Len(filter.words) + 1
    /\ Set(Order[step.i],
           [j \in DOMAIN ti[Order[step.i]] |->
               IF ti[Order[step.i]][j] \in Unprintable
               THEN filter.mask ELSE ti[Order[step.i]][j]])
    /\ step' = NextField("filter")
    /\ UNCHANGED <<told, format, filter, status, exact, valid>>

-----------------------------------------------------------------------------
(* generate_status(): the mark of the progress bar, by place from 0 *)
Tenths(elapsed, total) ==
    IF total > 0 THEN (elapsed * 10) \div total ELSE (elapsed * (-10)) \div (-total)

(* A track that goes on beyond its length is forgotten *)
Progress_Unbounded(elapsed, total) ==
    IF total = 0 THEN 0 ELSE Tenths(elapsed, total)

Progress(elapsed, total) ==
    IF total = 0 THEN 0
    ELSE IF Tenths(elapsed, total) >= 10 THEN 9 ELSE Tenths(elapsed, total)

Bar(elapsed, total) ==
    [i \in 1 .. 10 |-> IF i = Progress(elapsed, total) + 1 THEN "|" ELSE "-"]

(* What the fields stand for, in the order of their substitution; minutes  *)
(* and seconds are one character each, the player's name and the music     *)
(* symbol too.                                                             *)
Directive == <<"p", "a", "t", "r", "d", "c", "b", "m">>

Value(d) ==
    CASE d = "p" -> ti.artist [] d = "a" -> ti.album [] d = "t" -> ti.track
      [] d = "r" -> <<"R">> [] d = "d" -> <<"D">> [] d = "c" -> <<"C">>
      [] d = "b" -> Bar(format.elapsed, format.total) [] d = "m" -> <<"M">>

Substitute ==
    /\ step.name = "format" /\ step.i \in DOMAIN Directive
    /\ LET d == Directive[step.i]
           buf == IF step.i = 1 THEN format.text ELSE status
       IN  /\ status' = PutField(buf, d, Value(d))
           /\ exact' = (CountFor(buf, d, Value(d)) = Len(Written(buf, d, Value(d))))
    /\ step' = IF step.i < Len(Directive) THEN At("format", step.i + 1, 1)
                                          ELSE At("done", 1, 1)
    /\ UNCHANGED <<told, format, filter, ti, valid>>

-----------------------------------------------------------------------------
Init ==
    /\ told \in [track : Titles, artist : Artists, album : {<<>>}]
    /\ format \in Formats /\ filter \in Filters
    /\ ti = [f \in Field |-> <<>>]
    /\ valid = [f \in Field |-> <<>>]
    /\ step = At("hear", 1, 1)
    /\ status = <<>>
    /\ exact = TRUE

Next ==
    \/ \E encoding \in {"none", "url", "xml"} : Hear(encoding)
    \/ TrimFields
    \/ Converts \/ ReplacesByte \/ IsValid
    \/ SkipsFilter \/ EntersFilter \/ MasksWord \/ NextWord \/ MasksUnprintable
    \/ Substitute

Spec == Init /\ [][Next]_vars

(* A callback goes on *)
FairSpec == Spec /\ WF_vars(Next)
=============================================================================
