------------------------ MODULE MessengerCompatible ------------------------
(***************************************************************************)
(* The window that poses as MSN Messenger's (msn-compat.c) and is sent a   *)
(* message by players that show their track there.                         *)
(*                                                                         *)
(* An operator X_Variant is X with a mistake its author could have made;   *)
(* nothing uses it.                                                        *)
(***************************************************************************)
EXTENDS Polling

VARIABLES
    window,         \* the static MSNWindow has been created
    swap,           \* PREF_MSN_SWAP_ARTIST_TITLE
    msnti,          \* the static of that name: [status, fields]
    last            \* history: what the last message meant, by itself

messengerVars == <<window, swap, msnti, last>>
vars == <<bus, phase, answer, messengerVars>>

(* A message says whether the player is playing, has one of three forms or *)
(* none, and names a track or has empty fields.                            *)
Form == {"seven parts", "six parts", "dash"}
Message == [form : Form, enabled : BOOLEAN, of : Track \cup {NoFields}]
            \cup [form : {"other"}]

Swapped(F) == [F EXCEPT !.artist = F.track, !.track = F.artist]

(* The texts that a form gives the fields.  Six parts leave the array      *)
(* album as it was on the stack, here a (and give capture() six parts for  *)
(* five strings, of which the last is stored nobody knows where).          *)
FieldsOf(m, a) ==
    CASE m.form = "seven parts" -> m.of
      [] m.form = "six parts" -> [m.of EXCEPT !.album = a]
      [] m.form = "dash" -> [m.of EXCEPT !.album = Nothing]

(* A message in no form is ignored *)
Processed_Ignoring(ti, m, a) ==
    LET F == FieldsOf(m, a)
    IN  IF m.form \notin Form THEN ti
        ELSE [status |-> IF m.enabled /\ F # NoFields THEN "NORMAL" ELSE "OFF",
              fields |-> IF swap THEN Swapped(F) ELSE F]

(* process_message(): a message in no form leaves the fields, and the swap *)
(* is made all the same.                                                   *)
Processed(ti, m, a) ==
    LET F == IF m.form \in Form THEN FieldsOf(m, a) ELSE ti.fields
        on == m.form \in Form /\ m.enabled /\ F # NoFields
    IN  [status |-> IF on THEN "NORMAL" ELSE "OFF",
         fields |-> IF swap THEN Swapped(F) ELSE F]

-----------------------------------------------------------------------------
(* WM_COPYDATA, which Windows delivers between two callbacks; a player that*)
(* finds no window of the class sends nothing.                             *)
Receives(m, a) ==
    /\ MainLoop
    /\ window
    /\ msnti' = Processed(msnti, m, a)
    /\ last' = m
    /\ UNCHANGED <<bus, phase, answer, window, swap>>

(* cb_toggled() *)
SwapToggled ==
    /\ MainLoop
    /\ swap' = ~swap
    /\ UNCHANGED <<bus, phase, answer, window, msnti, last>>

Ask ==
    /\ Begin
    /\ UNCHANGED <<bus, messengerVars>>

(* get_msn_compat_info() *)
Answers ==
    /\ phase = "asking"
    /\ window' = TRUE
    /\ msnti' = IF window THEN msnti ELSE [status |-> "OFF", fields |-> NoFields]
    /\ IF msnti'.status = "NORMAL"
       THEN Return(TRUE, msnti'.status, msnti'.fields) ELSE Fail
    /\ UNCHANGED <<bus, swap, last>>

-----------------------------------------------------------------------------
Init ==
    /\ window = FALSE
    /\ swap = FALSE
    /\ msnti = [status |-> "OFF", fields |-> NoFields]
    /\ last = [form |-> "other"]

Poll == Ask \/ Answers

Next ==
    \/ \E m \in Message, a \in Text \cup {Nothing} : Receives(m, a)
    \/ SwapToggled
    \/ Poll

TypeOK ==
    /\ window \in BOOLEAN
    /\ swap \in BOOLEAN
    /\ msnti \in [status : {"OFF", "NORMAL"}, fields : Fields]
    /\ last \in Message

-----------------------------------------------------------------------------
(* The window forgets: what it has to announce is the track of the last    *)
(* message, which was in a known form and said that the player plays, and  *)
(* nothing of the messages before it.                                      *)
OnlyLastMessage ==
    msnti.status = "NORMAL" =>
        /\ last.form \in Form /\ last.enabled
        /\ {msnti.fields.track, msnti.fields.artist} = {last.of.track, last.of.artist}
=============================================================================
