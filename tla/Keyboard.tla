------------------------------ MODULE Keyboard ------------------------------
(***************************************************************************)
(* The keyboard driver of keyboard.c: the interrupt handler irq1_c decodes *)
(* scan codes into a buffer of one character, which keyboard_getchar (and  *)
(* keyboard_consume_char, the same two statements) empties from the main   *)
(* program.  The interrupt can come between the two statements.            *)
(*                                                                         *)
(* The keyboard itself is external: a key sends its make code when pressed *)
(* and its break code when released, some keys with the prefix E0.         *)
(***************************************************************************)
EXTENDS Integers, Sequences

CONSTANTS Keys,       \* the keys somebody presses
          MaxStrokes  \* bound: presses

ASSUME KeyboardAssumption ==
  /\ Keys \subseteq {"A", "2", "Esc", "ShiftL", "ShiftR", "CtrlL", "CtrlR",
                     "Up", "KeypadEnter"}
  /\ MaxStrokes \in Nat

VARIABLES last_char, char_ready, shift_pressed, ctrl_pressed, extended,
          reader,       \* where keyboard_getchar is: "wait" or "cleared"
          wire,     \* scan codes the controller holds
          held,     \* keys that are down
          strokes,  \* presses so far
          trail,    \* history: the last key that moved, but for the modifiers
                    \* without prefix
          decoded,  \* history: how many characters irq1_c has stored
          got       \* history: which of them keyboard_getchar returned

kbd == <<last_char, char_ready, shift_pressed, ctrl_pressed, extended>>
device == <<wire, held, strokes, trail>>
history == <<decoded, got>>
kbvars == <<kbd, reader, device, history>>

KEY_UP == 1

Prefix == [code |-> "E0", release |-> FALSE]
Make(c) == [code |-> c, release |-> FALSE]
Break(c) == [code |-> c, release |-> TRUE]

\* The code of a key; right Ctrl, Up and keypad Enter share theirs with left
\* Ctrl, keypad 8 and Enter, behind the prefix.
Prefixed(k) == k \in {"CtrlR", "Up", "KeypadEnter"}

CodeOf(k) == CASE k \in {"CtrlL", "CtrlR"} -> "ctrl"
               [] k = "Up" -> "48"
               [] k = "KeypadEnter" -> "enter"
               [] OTHER -> k

Sends(k, sc) == IF Prefixed(k) THEN <<Prefix, sc>> ELSE <<sc>>

\* scancode_to_ascii and scancode_to_ascii_shift; "48" is beyond their end.
Plain == [c \in {"A", "2", "Esc", "enter"} |->
            CASE c = "A" -> 97 [] c = "2" -> 50 [] c = "enter" -> 10 [] OTHER -> 0]
Shifted == [c \in {"A", "2", "Esc", "enter"} |->
              CASE c = "A" -> 65 [] c = "2" -> 64 [] c = "enter" -> 10 [] OTHER -> 0]

\* The character of a press without prefix, 0 for none.
Decode(c) ==
  IF c \notin DOMAIN Plain THEN 0
  ELSE IF ctrl_pressed /\ ~shift_pressed /\ Plain[c] \in 97..122
  THEN Plain[c] - 96
  ELSE IF shift_pressed THEN Shifted[c] ELSE Plain[c]

\* The character of a press behind the prefix.
DecodeExtended(c) == IF c = "48" THEN KEY_UP ELSE 0

-----------------------------------------------------------------------------

KbInit ==
  /\ last_char = 0 /\ char_ready = FALSE
  /\ shift_pressed = FALSE /\ ctrl_pressed = FALSE /\ extended = FALSE
  /\ reader = "wait"
  /\ wire = <<>> /\ held = {} /\ strokes = 0 /\ trail = "none"
  /\ decoded = 0 /\ got = <<>>

Moved(k) == trail' = IF k \in {"ShiftL", "ShiftR", "CtrlL"} THEN trail ELSE k

Press(k) ==
  /\ strokes < MaxStrokes /\ k \notin held /\ wire = <<>>
  /\ wire' = Sends(k, Make(CodeOf(k)))
  /\ held' = held \cup {k}
  /\ strokes' = strokes + 1 /\ Moved(k)
  /\ UNCHANGED <<kbd, reader, history>>

Release(k) ==
  /\ k \in held /\ wire = <<>>
  /\ wire' = Sends(k, Break(CodeOf(k)))
  /\ held' = held \ {k} /\ Moved(k)
  /\ UNCHANGED <<kbd, reader, strokes, history>>

\* last_char = c; char_ready = 1, when the press means a character.
StoreChar(c) ==
  IF c = 0
  THEN UNCHANGED <<last_char, char_ready, history>>
  ELSE /\ last_char' = c /\ char_ready' = TRUE
       /\ decoded' = decoded + 1
       /\ UNCHANGED got

\* Mutant of Modifier: only the left Shift is let go.
Modifier_LeftOnly(sc) ==
  /\ IF sc.code \in {"ShiftL", "ShiftR"}
     THEN /\ shift_pressed' = (~sc.release \/ (sc.code = "ShiftR" /\ shift_pressed))
          /\ UNCHANGED ctrl_pressed
     ELSE /\ ctrl_pressed' = ~sc.release
          /\ UNCHANGED shift_pressed
  /\ UNCHANGED <<extended, last_char, char_ready, history>>

Modifier(sc) ==
  /\ IF sc.code \in {"ShiftL", "ShiftR"}
     THEN shift_pressed' = ~sc.release /\ UNCHANGED ctrl_pressed
     ELSE ctrl_pressed' = ~sc.release /\ UNCHANGED shift_pressed
  /\ UNCHANGED <<extended, last_char, char_ready, history>>

irq1_c ==
  /\ wire # <<>>
  /\ wire' = Tail(wire)
  /\ LET sc == Head(wire) IN
     \/ /\ sc = Prefix
        /\ extended' = TRUE
        /\ UNCHANGED <<last_char, char_ready, shift_pressed, ctrl_pressed, history>>
     \/ /\ sc.code \in {"ShiftL", "ShiftR", "ctrl"}
        /\ Modifier(sc)
     \/ /\ sc.code \notin {"E0", "ShiftL", "ShiftR", "ctrl"}
        /\ extended' = FALSE
        /\ IF sc.release
           THEN UNCHANGED <<last_char, char_ready, history>>
           ELSE StoreChar(IF extended THEN DecodeExtended(sc.code) ELSE Decode(sc.code))
        /\ UNCHANGED <<shift_pressed, ctrl_pressed>>
  /\ UNCHANGED <<reader, held, strokes, trail>>

\* while (!char_ready);
Spin ==
  /\ reader = "wait" /\ ~char_ready
  /\ UNCHANGED kbvars

\* Mutant of GetClear: the flag is not cleared.
GetClear_Keep ==
  /\ reader = "wait" /\ char_ready
  /\ reader' = "cleared"
  /\ UNCHANGED <<kbd, device, history>>

\* char_ready = 0;
GetClear ==
  /\ reader = "wait" /\ char_ready
  /\ char_ready' = FALSE
  /\ reader' = "cleared"
  /\ UNCHANGED <<last_char, shift_pressed, ctrl_pressed, extended, device, history>>

\* Mutant of GetReturn: the character is read before the flag is cleared, so
\* that one stored in between is lost.
GetReturn_Earlier ==
  /\ reader = "cleared"
  /\ got' = Append(got, IF char_ready THEN decoded - 1 ELSE decoded)
  /\ char_ready' = FALSE
  /\ reader' = "wait"
  /\ UNCHANGED <<last_char, shift_pressed, ctrl_pressed, extended, device, decoded>>

\* return last_char;
GetReturn ==
  /\ reader = "cleared"
  /\ got' = Append(got, decoded)
  /\ reader' = "wait"
  /\ UNCHANGED <<kbd, device, decoded>>

KbNext ==
  \/ \E k \in Keys : Press(k)
  \/ \E k \in Keys : Release(k)
  \/ irq1_c
  \/ Spin
  \/ GetClear
  \/ GetReturn

\* The program keeps calling keyboard_getchar, and an interrupt that is
\* pending is served: interrupts stay enabled after kmain's sti.
KbSpec == KbInit /\ [][KbNext]_kbvars /\ WF_kbvars(GetClear) /\ WF_kbvars(GetReturn)
             /\ WF_kbvars(irq1_c)

-----------------------------------------------------------------------------
(* Properties.                                                              *)

\* keyboard_getchar returns characters in the order they were typed, and none
\* more than twice: an interrupt between its two statements can make it
\* return the new character early and then again, but never an older one.
Delivery ==
  /\ \A i \in 1..Len(got) - 1 : got[i] =< got[i + 1]
  /\ \A i \in 1..Len(got) - 2 : got[i] < got[i + 2]

\* The newest character is never the one that gets lost: when nothing is
\* ready and the reader waits, it has returned the last character decoded.
NewestReturned ==
  reader = "wait" /\ ~char_ready /\ decoded > 0 =>
    Len(got) > 0 /\ got[Len(got)] = decoded

\* What keyboard_getchar returns, in whatever way irq1_c interrupts it: the
\* characters in their order, some of them left out, but never the newest.
ReadsInOrder == Delivery /\ NewestReturned

\* A modifier key that has been let go does not stay in force in irq1_c.
NoStuckModifier ==
  wire = <<>> =>
    /\ shift_pressed => held \cap {"ShiftL", "ShiftR"} # {}
    /\ ctrl_pressed => held \cap {"CtrlL", "CtrlR"} # {}

\* "reset extended flag on release of extended keys" (keyboard.c:112) misses
\* one of them: the flag outlives right Ctrl, which returns before it is
\* cleared, until the next other key, and nothing else leaves it set.  So at
\* most the first character typed after right Ctrl is lost to the prefix.
PrefixOnlyAfterRightCtrl == wire = <<>> => (extended <=> trail = "CtrlR")

\* The flags irq1_c keeps between codes say what the keys have done, in
\* whatever order keys that share a flag go down and up.
FlagsFollowKeys == NoStuckModifier /\ PrefixOnlyAfterRightCtrl

\* Whatever is typed, a program that keeps reading comes to have the newest
\* character; typing pauses now and then (after MaxStrokes presses here).
NewestArrives == decoded > 0 ~> (Len(got) > 0 /\ got[Len(got)] = decoded)

=============================================================================
