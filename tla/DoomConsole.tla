---------------------------- MODULE DoomConsole ----------------------------
(***************************************************************************)
(* Doom on the keyboard it really has: doom_get_key looks at char_ready    *)
(* and, when it is set, takes the character with keyboard_getchar.         *)
(***************************************************************************)
EXTENDS Keyboard, Doom

dcvars == <<kbvars, doomvars>>

DcInit == KbInit /\ DoomInit

Typing ==
  /\ \/ \E k \in Keys : Press(k) \/ Release(k)
     \/ irq1_c
  /\ UNCHANGED doomvars

\* doom_run, from the command line or the menu.
Play == doom_main /\ UNCHANGED kbvars

\* doom_get_key finds a character and begins to take it.
Take == playing /\ GetClear /\ UNCHANGED doomvars

\* It has it, and doom_main handles it.
Handle ==
  /\ playing /\ GetReturn
  /\ handle_key(last_char) /\ UNCHANGED keys

\* No character: doom_sleep(10), and round again.
Sleep == ~char_ready /\ reader = "wait" /\ doom_sleep /\ UNCHANGED kbvars

DcNext == Typing \/ Play \/ Take \/ Handle \/ Sleep

\* doom_main goes round its loop, and interrupts are served.
DcSpec ==
  /\ DcInit /\ [][DcNext]_dcvars
  /\ WF_dcvars(Take) /\ WF_dcvars(Handle) /\ WF_dcvars(irq1_c /\ UNCHANGED doomvars)

-----------------------------------------------------------------------------
\* "ESC exits" (doom_wrapper.c:271): when the code of an Esc press comes in
\* during a game, the game ends.
EscExits == (playing /\ wire = <<Make("Esc")>>) ~> ~playing
=============================================================================
