--------------------------- MODULE MCAnnouncement ---------------------------
(* A small instance of Announcement for TLC: all titles of up to three of  *)
(* the characters that some function treats differently.                   *)
EXTENDS AnnouncementProperties, SequencesExt

MCLetter == {"t", "s", "S", "p"}
MCUnprintable == {"\n"}
MCChar == MCLetter \cup MCUnprintable \cup Named \cup {"*", "#", "b", "c"}
MCConvertible == {"t", "S", "\n"}
MCLower == [c \in MCChar |-> IF c = "S" THEN "s" ELSE c]
MCTitles == BoundedSeq({"t", "s", "%", "&", " ", "\n", "#"}, 3)
                \cup BoundedSeq({"t", "s", "S", " "}, 3)
                \cup BoundedSeq({"&", "amp;", "<", "lt;"}, 3)
MCArtists == {<<>>, <<"s", " ", "t", "s">>}

Format(text, elapsed, total) == [text |-> text, elapsed |-> elapsed, total |-> total]
MCFormats == {Format(<<"%", "p", " ", "%", "t">>, 0, 0),
              Format(<<"%", "t", "t", "%">>, 3, 2),
              Format(<<"%", "%", "p", "t">>, 1, 20),
              Format(<<"%", "c", "%", "b">>, 3, -1)}

Filter(on, words, mask) == [on |-> on, words |-> words, mask |-> mask]
MCFilters == {Filter(FALSE, <<>>, "*"),
              Filter(TRUE, <<<<"s">>, <<>>, <<"t", "s">>>>, "*"),
              Filter(TRUE, <<<<"t", " ", "S">>, <<"s">>>>, "p"),
              Filter(TRUE, <<<<"%", "s">>, <<"t">>>>, "*"),
              Filter(TRUE, <<<<"t", "s">>>>, "S"),
              Filter(TRUE, <<<<"s">>>>, "S")}
=============================================================================
