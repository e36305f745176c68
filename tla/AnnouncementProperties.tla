----------------------- MODULE AnnouncementProperties -----------------------
(* What the way from a player's texts to a status text promises. *)
EXTENDS Announcement

(* A title that is encoded on its way is read as it was meant, unless it   *)
(* looks like an entity itself.                                            *)
Entities == {<<"&", e[1]>> : e \in {Entity[i] : i \in DOMAIN Entity}}

TextsArriveAsMeant ==
    step.name = "trim" =>
        \A f \in Field :
            (\A i \in DOMAIN told[f], e \in Entities : ~StandsAt(told[f], e, i))
                => ti[f] = told[f]

-----------------------------------------------------------------------------
Words == {filter.words[k] : k \in DOMAIN filter.words} \ {<<>>}

(* The callback has left filter() *)
Filtered == step.name \in {"format", "done"} /\ filter.on

(* The mask is a character of no listed word, in no case of it, *)
MaskIsForeign ==
    \A word \in Words : \A i \in DOMAIN word : Lower[word[i]] # Lower[filter.mask]

(* is a character that may be shown, and does not make a word of what      *)
(* stands beside it: if it is a letter, listed words begin and end with    *)
(* letters in every case, which do not become words beside another.        *)
MaskIsHarmless ==
    /\ filter.mask \notin Unprintable \cup Invalid
    /\ filter.mask \in Letter =>
          \A word \in Words, c \in Char :
              Lower[c] \in {Lower[word[1]], Lower[word[Len(word)]]} => c \in Letter

(* Place i of a text is in a listed word that stands by itself. *)
InWord(text, i) ==
    \E word \in Words, j \in DOMAIN text :
        /\ StandsAt(Folded(text), Folded(word), j) /\ i \in j .. j + Len(word) - 1
        /\ Boundary(text, j) /\ Boundary(text, j + Len(word))

(* Whatever the order of the list, and although each masking makes a new   *)
(* text in which an earlier word might appear, even if the mask is a       *)
(* letter: behind the filter no listed word is left that stands by itself, *)
(* in whatever case, and nothing that cannot be printed.                   *)
NothingListedIsShown ==
    Filtered /\ MaskIsForeign /\ MaskIsHarmless =>
        \A f \in Field :
            \A i \in DOMAIN ti[f] :
                ~InWord(ti[f], i) /\ ti[f][i] \notin Unprintable \cup Invalid

(* Only whole words are masked (ChangeLog, issue 51), character for        *)
(* character: what is part of no listed word of the player's text, whose   *)
(* case does not count, stays.                                             *)
OnlyListedIsMasked ==
    Filtered /\ MaskIsForeign =>
        \A f \in Field :
            /\ Len(ti[f]) = Len(valid[f])
            /\ \A i \in DOMAIN ti[f] :
                  ti[f][i] # valid[f][i] =>
                      /\ ti[f][i] = filter.mask
                      /\ valid[f][i] \in Unprintable \/ InWord(valid[f], i)

(* utils.c:121 asserts that put_field() wrote as much as it had counted. *)
WritesWhatWasCounted == exact

-----------------------------------------------------------------------------
(* The format with several fields put in at once *)
ExpandedBy(text, values) ==
    LET out[i \in 1 .. Len(text) + 1] ==
            IF i > Len(text) THEN <<>>
            ELSE IF text[i] = "%" /\ i < Len(text) /\ text[i + 1] \in DOMAIN values
                 THEN values[text[i + 1]] \o out[i + 2]
                 ELSE <<text[i]>> \o out[i + 1]
    IN  out[1]

(* The first k of the fields, and all *)
Values(k) == [d \in {Directive[j] : j \in 1 .. k} |-> Value(d)]
Expanded(text) == ExpandedBy(text, Values(Len(Directive)))

(* The fields are put in one after the other, and each goes through what   *)
(* those before it have put there.  Still the status is the format with    *)
(* all of them put in at once, if no field has a percent sign and none in  *)
(* the format follows another.                                             *)
Harmless ==
    /\ \A f \in Field : \A i \in DOMAIN ti[f] : ti[f][i] # "%"
    /\ \A i \in DOMAIN format.text : ~StandsAt(format.text, <<"%", "%">>, i)

StatusIsExpansion == step.name = "done" /\ Harmless => status = Expanded(format.text)

(* The bar has its one mark, also of a track that goes on longer than it   *)
(* should or has no length.  (A length below zero puts the mark outside.)  *)
BarHasItsMark ==
    format.elapsed >= 0 /\ format.total >= 0 =>
        \E i \in 1 .. 10 : Bar(format.elapsed, format.total)[i] = "|"

-----------------------------------------------------------------------------
(* The loops end, so that the timer callback returns to Pidgin -- if no    *)
(* word consists of the mask alone, in whatever case, of which masking     *)
(* would never be rid.                                                     *)
Filterable ==
    \A word \in Words : \E i \in DOMAIN word : Lower[word[i]] # Lower[filter.mask]

CallbackEnds == Filterable => <>(step.name = "done")
=============================================================================
