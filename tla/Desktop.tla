------------------------------ MODULE Desktop ------------------------------
(***************************************************************************)
(* The window manager of brickwm.c with the windows progman.c, term.c and  *)
(* fileman.c open in it.                                                   *)
(*                                                                         *)
(* One iteration of the loop of brickwm_run is PollMouse followed by       *)
(* PollKey; the mouse interrupt sets the buttons at any time in between.   *)
(* A window is its kind, which stands for its title and callbacks ("none"  *)
(* when use_count is 0), and its active flag.  Where windows lie is left   *)
(* out: a click may hit any part of any window, or none.  The editor and   *)
(* the game the program manager starts run to their end inside the click   *)
(* and touch no window.                                                    *)
(***************************************************************************)
EXTENDS Integers, FiniteSetsExt

CONSTANTS MAX_WINDOWS,
          MaxNest  \* bound: calls of the gui command inside each other

ASSUME DesktopAssumption == MAX_WINDOWS \in Nat \ {0} /\ MaxNest \in Nat

VARIABLES windows, window_count, dragging, drag_win,  \* of brickwm.c
          term_handle, term_active,                   \* of term.c
          command,       \* of term.c: what stands in cmdline
          mbuttons,      \* of mouse.c: is the left button down?
          pc,            \* the half of the iteration that comes next
          mb,            \* brickwm_run: the buttons this iteration looks at
          last_buttons,  \* ... and those of the iteration before
          depth,         \* brickwm_run called by the gui command of a terminal
          handed         \* history: slot drag_win has a new window since the grab

wm == <<windows, window_count>>
drag == <<dragging, drag_win, handed>>
term_c == <<term_handle, term_active, command>>
vars == <<wm, drag, term_c, mbuttons, pc, mb, last_buttons, depth>>

Slots == 0..(MAX_WINDOWS - 1)
None == -1
Kinds == {"progman", "terminal", "fileman"}
Lines == {"", "exit", "gui", "other"}  \* what cmdline may hold

Used(ws) == {i \in Slots : ws[i].kind # "none"}
Free(ws) == {i \in Slots : ws[i].kind = "none"}

\* progman_run
Init ==
  /\ windows = [i \in Slots |-> [kind |-> IF i = 0 THEN "progman" ELSE "none",
                                 active |-> i = 0]]
  /\ window_count = 1
  /\ dragging = FALSE /\ drag_win = None /\ handed = FALSE
  /\ term_handle = None /\ term_active = TRUE /\ command = ""
  /\ mbuttons = FALSE /\ pc = "mouse" /\ mb = FALSE /\ last_buttons = FALSE
  /\ depth = 0

-----------------------------------------------------------------------------
(* Windows.                                                                 *)

\* brickwm_create_window: the new window alone is active.
Opened(ws, i, k) ==
  [j \in Slots |-> [kind |-> IF j = i THEN k ELSE ws[j].kind, active |-> j = i]]

\* brickwm_close_window: the highest window left becomes active.
Closed(ws, h) ==
  LET left == [ws EXCEPT ![h].kind = "none"]
  IN  IF Used(left) = {} THEN left
      ELSE [left EXCEPT ![Max(Used(left))].active = TRUE]

\* Mutant of Close: closing twice counts twice.
Close_Again(ws, h) ==
  IF h = None THEN windows' = ws /\ UNCHANGED window_count
  ELSE windows' = Closed(ws, h) /\ window_count' = window_count - 1

Close(ws, h) ==
  IF h \in Used(ws)
  THEN windows' = Closed(ws, h) /\ window_count' = window_count - 1
  ELSE windows' = ws /\ UNCHANGED window_count

HasKeys(ws) == {i \in Used(ws) : ws[i].kind # "progman"}

focused_window ==
  LET act == {i \in HasKeys(windows) : windows[i].active}
  IN  IF act # {} THEN Max(act)
      ELSE IF HasKeys(windows) # {} THEN Max(HasKeys(windows)) ELSE None

-----------------------------------------------------------------------------
(* Mouse.                                                                   *)

irq12_c ==
  /\ mbuttons' = ~mbuttons
  /\ UNCHANGED <<wm, drag, term_c, pc, mb, last_buttons, depth>>

\* Bring to front (make active)
Activated(w) == [i \in Slots |-> [windows[i] EXCEPT !.active = (i = w)]]

FirstFree(ws) == IF Free(ws) = {} THEN None ELSE Min(Free(ws))

\* brickwm_create_window
Create(ws, k) ==
  LET i == FirstFree(ws)
  IN  IF i = None
      THEN windows' = ws /\ UNCHANGED <<window_count, handed>>
      ELSE /\ windows' = Opened(ws, i, k)
           /\ window_count' = window_count + 1
           /\ handed' = (handed \/ i = drag_win)

\* terminal_run
LaunchTerminal(ws) ==
  /\ Create(ws, "terminal")
  /\ term_active' = TRUE /\ command' = "" /\ term_handle' = FirstFree(ws)
  /\ UNCHANGED <<dragging, drag_win>>

\* fileman_run
LaunchFileman(ws) ==
  /\ Create(ws, "fileman")
  /\ UNCHANGED <<term_c, dragging, drag_win>>

\* progman_handle_click: an icon is hit or missed.
Launch(ws) ==
  \/ LaunchTerminal(ws)
  \/ LaunchFileman(ws)
  \/ windows' = ws /\ UNCHANGED <<window_count, drag, term_c>>

\* Mutant of Click: the client area of every window starts programs.
Click_AnyTitle(w) ==
  LET ws == Activated(w) IN
  \/ Close(ws, w) /\ UNCHANGED <<drag, term_c>>
  \/ /\ windows' = ws /\ dragging' = TRUE /\ drag_win' = w /\ handed' = FALSE
     /\ UNCHANGED <<window_count, term_c>>
  \/ Launch(ws)

\* The click handling of brickwm_run: the close button, the title bar, an
\* icon of the program manager, or the rest of window w.
Click(w) ==
  LET ws == Activated(w) IN
  \/ Close(ws, w) /\ UNCHANGED <<drag, term_c>>
  \/ /\ windows' = ws /\ dragging' = TRUE /\ drag_win' = w /\ handed' = FALSE
     /\ UNCHANGED <<window_count, term_c>>
  \/ windows[w].kind = "progman" /\ Launch(ws)
  \/ windows' = ws /\ UNCHANGED <<window_count, drag, term_c>>

Running == window_count > 0

\* Mutant of Release: the end of a drag is skipped when its window is gone.
Release_IfOpen ==
  /\ IF drag_win \in Used(windows) THEN dragging' = FALSE /\ drag_win' = None
     ELSE UNCHANGED <<dragging, drag_win>>
  /\ UNCHANGED handed

Release ==
  /\ dragging' = FALSE /\ drag_win' = None
  /\ UNCHANGED handed

\* Mutant of PollMouse: every look at a button that is down is a click.
PollMouse_Level ==
  /\ pc = "mouse" /\ Running
  /\ IF mbuttons
     THEN \/ \E w \in Used(windows) : Click(w)
          \/ UNCHANGED <<wm, drag, term_c>>
     ELSE /\ IF last_buttons /\ dragging THEN Release ELSE UNCHANGED drag
          /\ UNCHANGED <<wm, term_c>>
  /\ mb' = mbuttons /\ pc' = "keys"
  /\ UNCHANGED <<mbuttons, last_buttons, depth>>

PollMouse ==
  /\ pc = "mouse" /\ Running
  /\ \/ /\ mbuttons /\ ~last_buttons
        /\ \/ \E w \in Used(windows) : Click(w)
           \/ UNCHANGED <<wm, drag, term_c>>
     \/ /\ ~mbuttons /\ last_buttons /\ dragging
        /\ Release
        /\ UNCHANGED <<wm, term_c>>
     \/ /\ mbuttons = last_buttons \/ (~mbuttons /\ ~dragging)
        /\ UNCHANGED <<wm, drag, term_c>>
  /\ mb' = mbuttons /\ pc' = "keys"
  /\ UNCHANGED <<mbuttons, last_buttons, depth>>

-----------------------------------------------------------------------------
(* Keyboard.                                                                *)

\* Back at the top of the loop.
NextRound == last_buttons' = mb /\ UNCHANGED depth

\* term_handle_key of a character or a backspace: cmdline becomes l.
TermType(l) ==
  /\ command' = l
  /\ NextRound
  /\ UNCHANGED <<wm, drag, term_handle, term_active>>

\* term_handle_key('\n') without a command that matters here.
TermEnter ==
  /\ command \in {"", "other"}
  /\ command' = ""
  /\ NextRound
  /\ UNCHANGED <<wm, drag, term_handle, term_active>>

TermExit ==
  /\ command = "exit"
  /\ term_active' = FALSE
  /\ Close(windows, term_handle)
  /\ NextRound
  /\ UNCHANGED <<drag, term_handle, command>>

\* cmd_gui: brickwm_run starts again, with a last_buttons of its own.  It
\* returns only when no window is left, and then so does the loop below it.
TermGui ==
  /\ command = "gui" /\ depth < MaxNest
  /\ depth' = depth + 1 /\ last_buttons' = FALSE
  /\ UNCHANGED <<wm, drag, term_c>>

term_handle_key ==
  \/ term_active /\ ((\E l \in Lines : TermType(l)) \/ TermEnter \/ TermExit \/ TermGui)
  \/ ~term_active /\ NextRound /\ UNCHANGED <<wm, drag, term_c>>

\* No character, nobody to take it, or the file manager's business.
KeyElsewhere ==
  /\ NextRound
  /\ UNCHANGED <<wm, drag, term_c>>

TerminalFocused ==
  focused_window # None /\ windows[focused_window].kind = "terminal"

PollKey ==
  /\ pc = "keys"
  /\ pc' = "mouse"
  /\ KeyElsewhere \/ (TerminalFocused /\ term_handle_key)
  /\ UNCHANGED <<mbuttons, mb>>

Next == irq12_c \/ PollMouse \/ PollKey

Poll == PollMouse \/ PollKey

Spec == Init /\ [][Next]_vars /\ WF_vars(Poll)

-----------------------------------------------------------------------------
(* Properties.                                                              *)

\* The statics keep their ranges.
TypeOK ==
  /\ windows \in [Slots -> [kind : Kinds \cup {"none"}, active : BOOLEAN]]
  /\ window_count \in Int
  /\ dragging \in BOOLEAN /\ drag_win \in Slots \cup {None} /\ handed \in BOOLEAN
  /\ term_handle \in Slots \cup {None} /\ term_active \in BOOLEAN
  /\ command \in Lines
  /\ mbuttons \in BOOLEAN /\ mb \in BOOLEAN /\ last_buttons \in BOOLEAN
  /\ pc \in {"mouse", "keys"} /\ depth \in 0..MaxNest

\* window_count, which ends the loop, is the number of windows, whatever stale
\* handles brickwm_close_window is called with.
CountMatches == window_count = Cardinality(Used(windows))

\* What follows the mouse is the window that was grabbed, or nothing when that
\* was closed by a key meanwhile: its slot is not given to a new window before
\* the button is let go.  (In a loop the gui command started inside another
\* one, it may be: that loop takes a button held down for a new click.)
DragKeepsWindow == depth = 0 /\ dragging => ~handed

\* The program manager is in slot 0 or gone, and no exit typed in a terminal
\* closes it.
LauncherSafe ==
  /\ term_handle # 0
  /\ \A i \in Slots : windows[i].kind = "progman" => i = 0

\* The array of windows stays consistent, whatever is closed, opened and typed.
WindowsRight == CountMatches /\ LauncherSafe

\* A drag ends once the button stays up, also when its window was closed by a
\* key meanwhile.
DragEnds == <>[](~mbuttons /\ depth = 0) => <>[](~dragging \/ ~Running)

\* "Type 'exit' to close" (term.c:80): the window exit is typed in is closed.
ExitClosesTyper ==
  [][pc = "keys" /\ TerminalFocused /\ term_active /\ command = "exit"
       /\ term_active' = FALSE
       => focused_window \notin Used(windows')]_vars

=============================================================================
