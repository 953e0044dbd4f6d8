---------------------------- MODULE DesktopProofs ----------------------------
(***************************************************************************)
(* The desktop and its terminal.  What Desktop proves for every number of  *)
(* windows: types, the count of windows, the launcher and drags.  What     *)
(* TermIo proves for screens of every size: the grid shows the end of what *)
(* was printed, and the command line stands behind the prompt.             *)
(***************************************************************************)
EXTENDS Desktop, TermIo, Loops, FiniteSetTheorems, SequenceTheorems, TLAPS

\* Zenon proves a step that names no other prover.
USE ZenonT(60)

Array == [Slots -> [kind : Kinds \cup {"none"}, active : BOOLEAN]]

\* The loop that walks down the windows and stops at the first hit ends at one
\* that is hit.
LEMMA MaxOfSlots ==
  ASSUME NEW S \in SUBSET Slots, S # {}
  PROVE  Max(S) \in S
<1> DEFINE top == MAX_WINDOWS - 1
           T == {top - x : x \in S}
<1>1. top \in Nat
  BY DesktopAssumption, SMTT(60)
<1>2. S \subseteq 0..top
  BY DEF Slots
<1>3. T \in SUBSET Nat /\ T # {}
  <2>1. ASSUME NEW x \in S PROVE top - x \in Nat
    <3>1. x \in 0..top
      BY <1>2
    <3> HIDE DEF top
    <3> QED BY <3>1, <1>1, SMTT(60)
  <2>2. \A t \in T : t \in Nat
    BY <2>1
  <2>3. T # {}
    OBVIOUS
  <2> QED BY <2>2, <2>3
<1>4. Min(T) \in T /\ \A y \in T : Min(T) =< y
  <2> HIDE DEF T
  <2> QED BY <1>3, MinOfNats
<1>5. PICK x \in S : Min(T) = top - x
  BY <1>4
<1>6. \A y \in S : x >= y
  <2> SUFFICES ASSUME NEW y \in S PROVE x >= y
    OBVIOUS
  <2>1. top - x =< top - y
    BY <1>4, <1>5
  <2> QED BY <2>1, <1>1, <1>2, SMTT(60)
<1> QED BY <1>5, <1>6 DEF Max

\* The same for the loop of brickwm_create_window, which walks up.
LEMMA FirstFreeIsFree ==
  ASSUME NEW ws
  PROVE  FirstFree(ws) = None \/ FirstFree(ws) \in Free(ws)
<1>1. Free(ws) \in SUBSET Nat
  BY DesktopAssumption, SMTT(60) DEF Free, Slots
<1> QED BY <1>1, MinOfNats DEF FirstFree

\* No more windows are in use than there are slots.
LEMMA UsedFinite ==
  ASSUME NEW ws
  PROVE  IsFiniteSet(Used(ws)) /\ Cardinality(Used(ws)) \in Nat
<1>1. IsFiniteSet(Slots)
  BY DesktopAssumption, FS_Interval, SMTT(60) DEF Slots
<1>2. Used(ws) \subseteq Slots
  BY DEF Used
<1>3. IsFiniteSet(Used(ws))
  BY <1>1, <1>2, FS_Subset
<1> QED BY <1>3, FS_CardinalityType

\* brickwm_close_window keeps the array and the count in step, whatever handle
\* it is given, and gives no slot to another window.
LEMMA CloseKeeps ==
  ASSUME NEW ws \in Array, NEW h \in Slots \cup {None},
         window_count = Cardinality(Used(ws)), Close(ws, h)
  PROVE  /\ windows' \in Array
         /\ window_count' = Cardinality(Used(windows'))
         /\ \A i \in Slots : windows'[i].kind \in {ws[i].kind, "none"}
<1>1. CASE h \in Used(ws)
  <2> DEFINE left == [ws EXCEPT ![h].kind = "none"]
  <2>1. h \in Slots /\ windows' = Closed(ws, h) /\ window_count' = window_count - 1
    BY <1>1 DEF Close, Used
  <2>2. left \in Array /\ \A i \in Slots : left[i].kind = IF i = h THEN "none" ELSE ws[i].kind
    BY <2>1 DEF Array, Kinds
  <2>3. Used(left) = Used(ws) \ {h}
    BY <2>2 DEF Used
  <2>4. /\ windows' \in Array
        /\ \A i \in Slots : windows'[i].kind = left[i].kind
    <3>1. CASE Used(left) = {}
      BY <2>1, <2>2, <3>1 DEF Closed
    <3>2. CASE Used(left) # {}
      <4> DEFINE m == Max(Used(left))
      <4>1. m \in Slots
        <5>1. Used(left) \in SUBSET Slots
          BY DEF Used
        <5> QED BY <5>1, <3>2, MaxOfSlots DEF Used
      <4>2. windows' = [left EXCEPT ![m].active = TRUE]
        BY <2>1, <3>2 DEF Closed
      <4> HIDE DEF left, m
      <4> QED BY <4>1, <4>2, <2>2 DEF Array
    <3> QED BY <3>1, <3>2
  <2>5. Used(windows') = Used(ws) \ {h}
    BY <2>3, <2>4 DEF Used
  <2>6. Cardinality(Used(ws) \ {h}) = Cardinality(Used(ws)) - 1
    BY <1>1, UsedFinite, FS_RemoveElement
  <2> QED BY <2>1, <2>2, <2>4, <2>5, <2>6
<1>2. CASE h \notin Used(ws)
  BY <1>2 DEF Close
<1> QED BY <1>1, <1>2

\* brickwm_create_window keeps them in step as well, and puts a window of the
\* kind asked for into a free slot and nowhere else.
LEMMA CreateKeeps ==
  ASSUME NEW ws \in Array, NEW k \in Kinds,
         window_count = Cardinality(Used(ws)), handed \in BOOLEAN,
         Create(ws, k)
  PROVE  /\ windows' \in Array
         /\ window_count' = Cardinality(Used(windows'))
         /\ \A i \in Slots : windows'[i].kind \in {ws[i].kind, k}
         /\ handed' \in BOOLEAN
<1> DEFINE f == FirstFree(ws)
<1>1. CASE f = None
  BY <1>1 DEF Create
<1>2. CASE f # None
  <2>1. f \in Free(ws) /\ f \in Slots /\ f \notin Used(ws)
    BY <1>2, FirstFreeIsFree DEF Free, Used
  <2>2. /\ windows' = Opened(ws, f, k) /\ window_count' = window_count + 1
        /\ handed' = (handed \/ f = drag_win)
    BY <1>2 DEF Create
  <2> HIDE DEF f
  <2>3. windows' \in Array /\ \A i \in Slots : windows'[i].kind = IF i = f THEN k ELSE ws[i].kind
    BY <2>2 DEF Opened, Array
  <2>4. Used(windows') = Used(ws) \cup {f}
    BY <2>1, <2>3 DEF Used, Kinds
  <2>5. Cardinality(Used(ws) \cup {f}) = Cardinality(Used(ws)) + 1
    BY <2>1, UsedFinite, FS_AddElement
  <2>6. handed' \in BOOLEAN
    BY <2>2
  <2> QED BY <2>2, <2>3, <2>4, <2>5, <2>6
<1> QED BY <1>1, <1>2

\* Between two clicks a drag lasts only while the loop knows the button to be
\* down, so that no click, and no new window, falls into a drag.
DragKnown ==
  depth = 0 /\ dragging => IF pc = "mouse" THEN last_buttons ELSE mb

IInv == TypeOK /\ CountMatches /\ LauncherSafe /\ DragKnown /\ DragKeepsWindow

\* progman_run starts with its own window in slot 0 and no drag.
LEMMA InitHolds == Init => IInv
<1> SUFFICES ASSUME Init PROVE IInv
  OBVIOUS
<1>1. 0 \in Slots
  BY DesktopAssumption, SMTT(60) DEF Slots
<1>2. TypeOK
  <2>1. \A i \in Slots : [kind |-> IF i = 0 THEN "progman" ELSE "none", active |-> i = 0]
                          \in [kind : Kinds \cup {"none"}, active : BOOLEAN]
    BY DEF Kinds
  <2>2. windows \in Array
    BY <2>1 DEF Init, Array
  <2>3. /\ window_count = 1 /\ dragging = FALSE /\ drag_win = None /\ handed = FALSE
        /\ term_handle = None /\ term_active = TRUE /\ command = ""
        /\ mbuttons = FALSE /\ mb = FALSE /\ last_buttons = FALSE
        /\ pc = "mouse" /\ depth = 0
    BY DEF Init
  <2>4. depth \in 0..MaxNest /\ window_count \in Int
    <3>1. depth = 0 /\ window_count = 1
      BY DEF Init
    <3> QED BY <3>1, DesktopAssumption, SMTT(60)
  <2>5. /\ dragging \in BOOLEAN /\ drag_win \in Slots \cup {None} /\ handed \in BOOLEAN
        /\ term_handle \in Slots \cup {None} /\ term_active \in BOOLEAN
        /\ mbuttons \in BOOLEAN /\ mb \in BOOLEAN /\ last_buttons \in BOOLEAN
    BY <2>3
  <2>6. command \in Lines /\ pc \in {"mouse", "keys"}
    BY <2>3 DEF Lines
  <2> QED BY <2>2, <2>4, <2>5, <2>6 DEF TypeOK, Array
<1>3. CountMatches
  <2>1. Used(windows) = {0}
    BY <1>1 DEF Init, Used
  <2> QED BY <2>1, FS_Singleton DEF Init, CountMatches
<1>4. LauncherSafe
  <2>1. term_handle # 0
    <3>1. term_handle = None
      BY DEF Init
    <3> QED BY <3>1, SMTT(60) DEF None
  <2>2. \A i \in Slots : windows[i].kind = IF i = 0 THEN "progman" ELSE "none"
    BY DEF Init
  <2> QED BY <2>1, <2>2 DEF LauncherSafe
<1>5. DragKnown /\ DragKeepsWindow
  BY DEF Init, DragKnown, DragKeepsWindow
<1> QED BY <1>2, <1>3, <1>4, <1>5 DEF IInv

\* The mouse interrupt touches only the button.
LEMMA IrqKeeps == IInv /\ irq12_c => IInv'
<1> SUFFICES ASSUME IInv, irq12_c PROVE IInv'
  OBVIOUS
<1>1. mbuttons' \in BOOLEAN
  BY DEF irq12_c
<1> QED BY <1>1 DEF IInv, irq12_c, wm, drag, term_c, TypeOK, CountMatches,
  LauncherSafe, DragKnown, DragKeepsWindow, Used

\* What a click does, and how far it may go.
LEMMA ClickKeeps ==
  ASSUME TypeOK, CountMatches, LauncherSafe, NEW w \in Used(windows), Click(w)
  PROVE  /\ windows' \in Array /\ window_count' \in Int
         /\ CountMatches' /\ LauncherSafe'
         /\ dragging' \in BOOLEAN /\ drag_win' \in Slots \cup {None}
         /\ handed' \in BOOLEAN
         /\ term_handle' \in Slots \cup {None} /\ term_active' \in BOOLEAN
         /\ command' \in Lines
         /\ ~dragging => (dragging' => ~handed')
<1> DEFINE ws == Activated(w)
<1>1. w \in Slots /\ windows[w].kind # "none"
  BY DEF Used
<1>2. ws \in Array /\ \A i \in Slots : ws[i].kind = windows[i].kind
  BY DEF Activated, TypeOK, Array
<1>3. Used(ws) = Used(windows)
  BY <1>2 DEF Used
<1>4. window_count = Cardinality(Used(ws))
  BY <1>3 DEF CountMatches
<1>5. \A n : n = Cardinality(Used(windows')) => n \in Int
  BY UsedFinite, SMTT(60)
<1> DEFINE Nothing == windows' = ws /\ UNCHANGED <<window_count, drag, term_c>>
           Grab == /\ windows' = ws /\ UNCHANGED <<window_count, term_c>>
                   /\ dragging' = TRUE /\ drag_win' = w /\ handed' = FALSE
<1>6. \/ Close(ws, w) /\ UNCHANGED <<drag, term_c>>
      \/ Grab \/ Nothing
      \/ windows[w].kind = "progman" /\ (LaunchTerminal(ws) \/ LaunchFileman(ws))
  BY DEF Click, Launch
<1> HIDE DEF ws
<1>7. CASE Close(ws, w) /\ UNCHANGED <<drag, term_c>>
  <2>1. /\ windows' \in Array
        /\ window_count' = Cardinality(Used(windows'))
        /\ \A i \in Slots : windows'[i].kind \in {ws[i].kind, "none"}
    BY <1>1, <1>2, <1>4, <1>7, CloseKeeps
  <2>2. LauncherSafe'
    BY <2>1, <1>2, <1>7 DEF LauncherSafe, term_c
  <2> QED BY <2>1, <2>2, <1>5, <1>7 DEF TypeOK, drag, term_c, CountMatches
<1>8. CASE Grab \/ Nothing
  <2>1. windows' = ws /\ UNCHANGED <<window_count, term_c>>
    BY <1>8
  <2>2. CountMatches' /\ windows' \in Array /\ window_count' \in Int
    BY <1>2, <1>4, <2>1 DEF CountMatches, TypeOK
  <2>3. LauncherSafe'
    BY <1>2, <2>1 DEF LauncherSafe, term_c
  <2>4. term_handle' \in Slots \cup {None} /\ term_active' \in BOOLEAN /\ command' \in Lines
    BY <2>1 DEF TypeOK, term_c
  <2>5. CASE Grab
    BY <2>2, <2>3, <2>4, <2>5, <1>1
  <2>6. CASE Nothing
    BY <2>2, <2>3, <2>4, <2>6 DEF TypeOK, drag
  <2> QED BY <2>5, <2>6, <1>8
<1>9. ASSUME NEW k \in {"terminal", "fileman"}, windows[w].kind = "progman",
             Create(ws, k), UNCHANGED <<dragging, drag_win>>
      PROVE  /\ windows' \in Array /\ window_count' \in Int /\ CountMatches'
             /\ dragging' \in BOOLEAN /\ drag_win' \in Slots \cup {None}
             /\ handed' \in BOOLEAN
             /\ \A i \in Slots : windows'[i].kind = "progman" => i = 0
             /\ FirstFree(ws) # 0 /\ FirstFree(ws) \in Slots \cup {None}
  <2>1. k \in Kinds /\ handed \in BOOLEAN
    BY DEF Kinds, TypeOK
  <2>2. /\ windows' \in Array
        /\ window_count' = Cardinality(Used(windows'))
        /\ \A i \in Slots : windows'[i].kind \in {ws[i].kind, k}
        /\ handed' \in BOOLEAN
    BY <1>2, <1>4, <1>9, <2>1, CreateKeeps
  <2>3. \A i \in Slots : windows'[i].kind = "progman" => i = 0
    BY <2>2, <1>2 DEF LauncherSafe
  <2>4. w = 0
    BY <1>1, <1>9 DEF LauncherSafe
  <2>5. FirstFree(ws) # 0 /\ FirstFree(ws) \in Slots \cup {None}
    BY <1>1, <1>2, <2>4, FirstFreeIsFree, SMTT(60) DEF Free, None
  <2> QED BY <2>2, <2>3, <2>5, <1>5, <1>9 DEF CountMatches, TypeOK
<1>10. CASE windows[w].kind = "progman" /\ LaunchTerminal(ws)
  <2>1. /\ Create(ws, "terminal") /\ UNCHANGED <<dragging, drag_win>>
        /\ term_active' = TRUE /\ command' = "" /\ term_handle' = FirstFree(ws)
    BY <1>10 DEF LaunchTerminal
  <2>2. LauncherSafe'
    BY <1>9, <1>10, <2>1 DEF LauncherSafe
  <2>3. ~dragging => (dragging' => ~handed')
    BY <2>1
  <2> QED BY <1>9, <1>10, <2>1, <2>2, <2>3 DEF Lines
<1>11. CASE windows[w].kind = "progman" /\ LaunchFileman(ws)
  <2>1. Create(ws, "fileman") /\ UNCHANGED <<dragging, drag_win, term_c>>
    BY <1>11 DEF LaunchFileman
  <2>2. LauncherSafe'
    BY <1>9, <1>11, <2>1 DEF LauncherSafe, term_c
  <2>3. ~dragging => (dragging' => ~handed')
    BY <2>1
  <2> QED BY <1>9, <1>11, <2>1, <2>2, <2>3 DEF TypeOK, term_c
<1> QED BY <1>6, <1>7, <1>8, <1>10, <1>11

\* The mouse half of a round: release, drag or click.
LEMMA PollMouseKeeps == IInv /\ PollMouse => IInv'
<1> SUFFICES ASSUME IInv, PollMouse PROVE IInv'
  OBVIOUS
<1> USE DEF IInv
<1>1. /\ pc = "mouse" /\ pc' = "keys" /\ mb' = mbuttons
      /\ UNCHANGED <<mbuttons, last_buttons, depth>>
  BY DEF PollMouse
<1>2. mb' \in BOOLEAN /\ mbuttons' \in BOOLEAN /\ last_buttons' \in BOOLEAN
      /\ pc' \in {"mouse", "keys"} /\ depth' \in 0..MaxNest
  BY <1>1 DEF TypeOK
<1>3. CASE mbuttons /\ ~last_buttons /\ \E w \in Used(windows) : Click(w)
  <2>1. PICK w \in Used(windows) : Click(w)
    BY <1>3
  <2>2. /\ windows' \in Array /\ window_count' \in Int
        /\ CountMatches' /\ LauncherSafe'
        /\ dragging' \in BOOLEAN /\ drag_win' \in Slots \cup {None}
        /\ handed' \in BOOLEAN
        /\ term_handle' \in Slots \cup {None} /\ term_active' \in BOOLEAN
        /\ command' \in Lines
        /\ ~dragging => (dragging' => ~handed')
    BY <2>1, ClickKeeps
  <2>3. TypeOK'
    BY <1>2, <2>2 DEF TypeOK, Array
  <2>4. depth = 0 => ~dragging
    BY <1>1, <1>3 DEF DragKnown
  <2>5. DragKeepsWindow' /\ DragKnown'
    BY <1>1, <1>3, <2>2, <2>4 DEF DragKeepsWindow, DragKnown
  <2> QED BY <2>2, <2>3, <2>5
<1>4. CASE UNCHANGED <<wm, drag, term_c>> /\ (mbuttons \/ (~mbuttons /\ ~dragging) \/ mbuttons = last_buttons)
  <2>1. TypeOK'
    BY <1>2, <1>4 DEF TypeOK, wm, drag, term_c
  <2>2. CountMatches' /\ LauncherSafe'
    BY <1>4 DEF CountMatches, LauncherSafe, wm, term_c, Used
  <2>3. DragKeepsWindow' /\ DragKnown'
    BY <1>1, <1>4 DEF DragKeepsWindow, DragKnown, drag, TypeOK
  <2> QED BY <2>1, <2>2, <2>3
<1>5. CASE Release /\ UNCHANGED <<wm, term_c>>
  <2>1. TypeOK'
    BY <1>2, <1>5 DEF TypeOK, wm, term_c, Release
  <2>2. CountMatches' /\ LauncherSafe'
    BY <1>5 DEF CountMatches, LauncherSafe, wm, term_c, Used
  <2>3. DragKeepsWindow' /\ DragKnown'
    BY <1>5 DEF DragKeepsWindow, DragKnown, Release
  <2> QED BY <2>1, <2>2, <2>3
<1> QED BY <1>3, <1>4, <1>5 DEF PollMouse

\* The keyboard half of a round, commands of the terminal included.
LEMMA PollKeyKeeps == IInv /\ PollKey => IInv'
<1> SUFFICES ASSUME IInv, PollKey PROVE IInv'
  OBVIOUS
<1> USE DEF IInv
<1>1. pc = "keys" /\ pc' = "mouse" /\ UNCHANGED <<mbuttons, mb>>
  BY DEF PollKey
<1>2. mb' \in BOOLEAN /\ mbuttons' \in BOOLEAN /\ pc' \in {"mouse", "keys"}
  BY <1>1 DEF TypeOK
<1>3. ASSUME NextRound, UNCHANGED drag,
             windows' \in Array, window_count' = Cardinality(Used(windows')),
             \A i \in Slots : windows'[i].kind \in {windows[i].kind, "none"},
             UNCHANGED term_handle, term_active' \in BOOLEAN, command' \in Lines
      PROVE  IInv'
  <2>1. last_buttons' \in BOOLEAN /\ depth' = depth /\ last_buttons' = mb
    BY <1>3 DEF NextRound, TypeOK
  <2>2. window_count' \in Int
    BY <1>3, UsedFinite, SMTT(60)
  <2>3. TypeOK'
    BY <1>2, <1>3, <2>1, <2>2 DEF TypeOK, drag, Array
  <2>4. CountMatches' /\ LauncherSafe'
    BY <1>3 DEF CountMatches, LauncherSafe
  <2>5. DragKeepsWindow' /\ DragKnown'
    BY <1>1, <1>3, <2>1 DEF DragKeepsWindow, DragKnown, drag
  <2> QED BY <2>3, <2>4, <2>5
<1>4. windows \in Array /\ window_count = Cardinality(Used(windows))
  BY DEF TypeOK, Array, CountMatches
<1>5. ASSUME NextRound, UNCHANGED <<wm, drag, term_handle, term_active>>, command' \in Lines
      PROVE  IInv'
  BY <1>3, <1>4, <1>5 DEF wm, TypeOK
<1>6. CASE KeyElsewhere
  BY <1>5, <1>6 DEF KeyElsewhere, term_c, TypeOK
<1>7. CASE term_handle_key
  <2>1. CASE \E l \in Lines : TermType(l)
    BY <1>5, <2>1 DEF TermType
  <2>2. CASE TermEnter
    BY <1>5, <2>2 DEF TermEnter, Lines
  <2>3. CASE TermExit
    <3>1. /\ NextRound /\ UNCHANGED <<drag, term_handle, command>>
          /\ term_active' = FALSE /\ Close(windows, term_handle)
      BY <2>3 DEF TermExit
    <3>2. term_handle \in Slots \cup {None}
      BY DEF TypeOK
    <3>3. /\ windows' \in Array
          /\ window_count' = Cardinality(Used(windows'))
          /\ \A i \in Slots : windows'[i].kind \in {windows[i].kind, "none"}
      BY <1>4, <3>1, <3>2, CloseKeeps
    <3>4. term_active' \in BOOLEAN /\ command' \in Lines
      BY <3>1 DEF TypeOK
    <3> QED BY <1>3, <3>1, <3>3, <3>4
  <2>4. CASE TermGui
    <3>1. /\ depth' = depth + 1 /\ depth < MaxNest /\ last_buttons' = FALSE
          /\ UNCHANGED <<wm, drag, term_c>>
      BY <2>4 DEF TermGui
    <3>2. depth' \in 0..MaxNest /\ depth' # 0
      BY <3>1, DesktopAssumption, SMTT(60) DEF TypeOK
    <3>3. TypeOK'
      BY <1>2, <3>1, <3>2 DEF TypeOK, wm, drag, term_c
    <3>4. CountMatches' /\ LauncherSafe'
      BY <3>1 DEF CountMatches, LauncherSafe, wm, term_c, Used
    <3> QED BY <3>2, <3>3, <3>4 DEF DragKeepsWindow, DragKnown
  <2>5. CASE ~term_active /\ NextRound /\ UNCHANGED <<wm, drag, term_c>>
    BY <1>5, <2>5 DEF term_c, TypeOK
  <2> QED BY <1>7, <2>1, <2>2, <2>3, <2>4, <2>5 DEF term_handle_key
<1> QED BY <1>6, <1>7 DEF PollKey

\* A step that changes nothing.
LEMMA StutterKeeps == IInv /\ UNCHANGED vars => IInv'
BY SMTT(60) DEF IInv, vars, wm, drag, term_c, TypeOK, CountMatches, LauncherSafe,
  DragKnown, DragKeepsWindow, Used

\* The invariant holds throughout a session.
LEMMA AlwaysIInv == Spec => []IInv
<1>1. IInv /\ [Next]_vars => IInv'
  BY IrqKeeps, PollMouseKeeps, PollKeyKeeps, StutterKeeps DEF Next
<1> QED BY <1>1, InitHolds, PTL DEF Spec

\* Every static of the window manager and of the terminal keeps its range, for
\* every number of windows and of gui commands inside each other.
THEOREM DesktopTypeCorrect == Spec => []TypeOK
BY AlwaysIInv, PTL DEF IInv

\* window_count, which ends the loop of brickwm_run, always is the number of
\* windows in use, and an exit typed in a terminal never closes the program
\* manager, which keeps slot 0 for as long as it is there.
THEOREM WindowsAlwaysRight == Spec => []WindowsRight
<1>1. IInv => WindowsRight
  BY DEF IInv, WindowsRight
<1> QED BY <1>1, AlwaysIInv, PTL

\* The slot of a window that is being dragged is given to no other window.
THEOREM DragAlwaysKeepsWindow == Spec => []DragKeepsWindow
BY AlwaysIInv, PTL DEF IInv

-----------------------------------------------------------------------------
(* The terminal.                                                            *)

TRows == 0..TROWS - 1
TCols == 0..TCOLS - 1
Grids == [TRows -> [TCols -> Printable \cup {NUL}]]
Terms == [out : Grids, row : TRows, col : TCols]
TLines == Seq(Printable)

\* Papers whose lines fit: the last one of a printed paper has room for another
\* character, and may be full only before the printer goes to the next line.
WidePapers ==
  {p \in Seq(TLines) : p # <<>> /\ \A i \in 1..Len(p) : Len(p[i]) =< TCOLS}
Papers == {p \in WidePapers : Len(EndLine(p)) < TCOLS}

\* The first elements of a sequence that is not empty.
LEMMA ButLastFacts ==
  ASSUME NEW S, NEW s \in Seq(S), s # <<>>
  PROVE  /\ ButLast(s) \in Seq(S) /\ Len(ButLast(s)) = Len(s) - 1
         /\ \A i \in 1..Len(s) - 1 : ButLast(s)[i] = s[i]
         /\ Len(s) \in Nat \ {0} /\ EndLine(s) \in S
         /\ s = Append(ButLast(s), EndLine(s))
<1>1. PICK n \in Nat \ {0} : n = Len(s)
  BY EmptySeq
<1>2. \A i \in 1..n : s[i] \in S
  BY <1>1, ElementOfSeq
<1>3. \A i \in 1..n - 1 : s[i] \in S
  BY <1>2, SMTT(60)
<1>4. /\ SubSeq(s, 1, n - 1) \in Seq(S)
      /\ Len(SubSeq(s, 1, n - 1)) = IF 1 =< n - 1 THEN (n - 1) - 1 + 1 ELSE 0
      /\ \A i \in 1..(n - 1) - 1 + 1 : SubSeq(s, 1, n - 1)[i] = s[1 + i - 1]
  BY <1>3, SubSeqProperties, SMTT(60)
<1>5. PICK b \in Seq(S) : b = SubSeq(s, 1, n - 1)
  BY <1>4
<1>6. Len(b) = n - 1 /\ \A i \in 1..n - 1 : b[i] = s[i]
  BY <1>4, <1>5, SMTT(60)
<1>7. ButLast(s) = b /\ EndLine(s) = s[n]
  BY <1>1, <1>5 DEF ButLast, EndLine
<1>8. n \in 1..n /\ s[n] \in S
  BY <1>2, SMTT(60)
<1>9. s = Append(b, s[n])
  <2>0. Append(b, s[n]) \in Seq(S)
    BY <1>8, AppendProperties
  <2>1. PICK a \in Seq(S) : a = Append(b, s[n])
    BY <2>0
  <2>2. Len(a) = n /\ (\A i \in 1..n - 1 : a[i] = b[i]) /\ a[n] = s[n]
    BY <2>1, <1>6, <1>8, AppendProperties, SMTT(60)
  <2>3. \A i \in 1..n : a[i] = s[i]
    BY <2>2, <1>6, SMTT(60)
  <2> QED BY <2>1, <2>2, <2>3, <1>1, SeqEqual
<1> QED BY <1>1, <1>6, <1>7, <1>8, <1>9

\* The paper q is p with the last line replaced by l.
SwapsLast(q, p, l) ==
  /\ q \in Seq(TLines) /\ Len(q) = Len(p) /\ q # <<>> /\ EndLine(q) = l
  /\ (\A i \in 1..Len(p) - 1 : q[i] = p[i]) /\ q[Len(p)] = l

\* Replacing the last line.
LEMMA LastLineFacts ==
  ASSUME NEW p \in Seq(TLines), p # <<>>, NEW l \in TLines
  PROVE  SwapsLast(Append(ButLast(p), l), p, l)
<1> DEFINE q == Append(ButLast(p), l)
<1>1. PICK n \in Nat \ {0} : n = Len(p)
  BY EmptySeq
<1>2. PICK b \in Seq(TLines) : b = ButLast(p) /\ Len(b) = n - 1 /\ \A i \in 1..n - 1 : b[i] = p[i]
  BY <1>1, ButLastFacts
<1>3. /\ q \in Seq(TLines) /\ q # <<>> /\ Len(q) = n
      /\ (\A i \in 1..n - 1 : q[i] = b[i]) /\ q[n] = l
  BY <1>2, AppendProperties, SMTT(60)
<1> QED BY <1>1, <1>2, <1>3 DEF EndLine, SwapsLast

\* A line added.
LEMMA NewLineFacts ==
  ASSUME NEW p \in Seq(TLines), NEW q, q = Append(p, <<>>)
  PROVE  /\ q \in Seq(TLines) /\ Len(q) = Len(p) + 1 /\ q # <<>> /\ EndLine(q) = <<>>
         /\ (\A i \in 1..Len(p) : q[i] = p[i]) /\ q[Len(p) + 1] = <<>>
<1>1. <<>> \in TLines
  BY SMTT(60) DEF TLines
<1>2. Len(p) \in Nat
  BY SMTT(60)
<1> QED BY <1>1, <1>2, AppendProperties, SMTT(60) DEF EndLine

\* Going to the next line: the row below, or everything one row up.
LEMMA NewRow ==
  ASSUME NEW p \in WidePapers, NEW out \in Grids, NEW row \in TRows, ShowsRows(out, row, p),
         NEW q, q = Append(p, <<>>),
         NEW t, t = [out |-> out, row |-> row + 1, col |-> 0]
  PROVE  Scroll(t) \in Terms /\ q \in Papers /\ Shows(Scroll(t), q)
<1>1. PICK n \in Nat \ {0} : n = Len(p)
  BY EmptySeq DEF WidePapers
<1>2. /\ q \in Seq(TLines) /\ Len(q) = n + 1 /\ q # <<>> /\ EndLine(q) = <<>>
      /\ (\A i \in 1..n : q[i] = p[i]) /\ q[n + 1] = <<>>
  BY <1>1, NewLineFacts DEF WidePapers
<1>3. TROWS \in Nat \ {0} /\ TCOLS \in Nat \ {0} /\ Len(<<>>) = 0
  BY TermIoAssumption
<1>4. q \in Papers
  <2>1. \A i \in 1..n + 1 : i = n + 1 \/ i \in 1..n
    BY <1>1, SMTT(60)
  <2>2. \A i \in 1..n : Len(p[i]) =< TCOLS
    BY <1>1 DEF WidePapers
  <2>3. ASSUME NEW i \in 1..n + 1 PROVE Len(q[i]) =< TCOLS
    <3>1. CASE i = n + 1
      BY <3>1, <1>2, <1>3, SMTT(60)
    <3>2. CASE i \in 1..n
      BY <3>2, <2>2, <1>2
    <3> QED BY <2>1, <3>1, <3>2
  <2>4. q \in WidePapers
    BY <1>2, <2>3 DEF WidePapers
  <2>5. Len(EndLine(q)) < TCOLS
    BY <1>2, <1>3, SMTT(60)
  <2> QED BY <2>4, <2>5 DEF Papers
<1>5. row = (IF n > TROWS THEN TROWS ELSE n) - 1 /\ row \in 0..TROWS - 1
  BY <1>1 DEF ShowsRows, TRows
<1>6. \A r \in TRows, c \in TCols :
        out[r][c] = IF r =< row THEN CellOf(p[n - row + r], c) ELSE NUL
  BY <1>1 DEF ShowsRows, TRows, TCols
<1>7. \A c \in TCols : CellOf(<<>>, c) = NUL
  BY <1>3, SMTT(60) DEF CellOf, TCols
<1>8. CASE row + 1 < TROWS
  <2>1. Scroll(t) = t
    BY <1>8 DEF Scroll
  <2>2. row + 1 \in TRows /\ 0 \in TCols
    BY <1>3, <1>5, <1>8, SMTT(60) DEF TRows, TCols
  <2>3. t \in Terms
    BY <2>2 DEF Terms
  <2>4. row + 1 = (IF n + 1 > TROWS THEN TROWS ELSE n + 1) - 1
    BY <1>3, <1>5, <1>8, SMTT(60)
  <2>5. ASSUME NEW r \in TRows, NEW c \in TCols
        PROVE  out[r][c] = IF r =< row + 1 THEN CellOf(q[(n + 1) - (row + 1) + r], c) ELSE NUL
    <3>0. r \in 0..TROWS - 1
      BY DEF TRows
    <3>1. (n + 1) - (row + 1) + r = n - row + r
      BY <1>3, <1>5, <3>0, SMTT(60)
    <3>2. CASE r =< row
      <4>1. n - row + r \in 1..n /\ r =< row + 1
        BY <1>3, <1>5, <3>0, <3>2, SMTT(60)
      <4>2. q[n - row + r] = p[n - row + r]
        BY <4>1, <1>2
      <4> QED BY <3>1, <3>2, <4>1, <4>2, <1>6
    <3>3. CASE r = row + 1
      <4>1. n - row + r = n + 1 /\ r =< row + 1 /\ ~(r =< row)
        BY <1>3, <1>5, <3>3, SMTT(60)
      <4>2. q[n - row + r] = <<>>
        BY <4>1, <1>2
      <4> QED BY <3>1, <4>1, <4>2, <1>6, <1>7
    <3>4. CASE r > row + 1
      <4>1. ~(r =< row + 1) /\ ~(r =< row)
        BY <1>3, <1>5, <3>0, <3>4, SMTT(60)
      <4> QED BY <4>1, <1>6
    <3>5. r =< row \/ r = row + 1 \/ r > row + 1
      BY <1>3, <1>5, <3>0, SMTT(60)
    <3> QED BY <3>2, <3>3, <3>4, <3>5
  <2>6. ShowsRows(out, row + 1, q)
    BY <2>4, <2>5, <1>2 DEF ShowsRows, TRows, TCols
  <2>7. t.out = out /\ t.row = row + 1 /\ t.col = 0
    OBVIOUS
  <2> QED BY <2>1, <2>3, <2>6, <2>7, <1>2, <1>3, <1>4 DEF Shows
<1>9. CASE ~(row + 1 < TROWS)
  <2>0. row = TROWS - 1 /\ n >= TROWS
    BY <1>3, <1>5, <1>9, SMTT(60)
  <2> DEFINE up == [r \in TRows |-> IF r = TROWS - 1 THEN Blank ELSE out[r + 1]]
  <2>1. Scroll(t) = [out |-> up, row |-> row, col |-> 0]
    <3>1. t.out = out /\ t.row = row + 1 /\ t.col = 0
      OBVIOUS
    <3>2. Scroll(t) = [t EXCEPT !.row = t.row - 1, !.out = up]
      BY <3>1, <1>9 DEF Scroll, TRows
    <3>3. t.row - 1 = row
      BY <3>1, <1>5, SMTT(60)
    <3> HIDE DEF up
    <3> QED BY <3>2, <3>3
  <2>2. up \in Grids
    <3>1. Blank \in [TCols -> Printable \cup {NUL}]
      BY DEF Blank, TCols
    <3>2. \A r \in TRows : r # TROWS - 1 => r + 1 \in TRows
      BY <1>3, SMTT(60) DEF TRows
    <3> QED BY <3>1, <3>2 DEF Grids
  <2>3. Scroll(t) \in Terms
    <3>1. 0 \in TCols
      BY <1>3, SMTT(60) DEF TCols
    <3> HIDE DEF up
    <3> QED BY <2>1, <2>2, <3>1, SMTT(60) DEF Terms
  <2>4. row = (IF n + 1 > TROWS THEN TROWS ELSE n + 1) - 1
    BY <1>3, <2>0, SMTT(60)
  <2>5. ASSUME NEW r \in TRows, NEW c \in TCols
        PROVE  up[r][c] = IF r =< row THEN CellOf(q[(n + 1) - row + r], c) ELSE NUL
    <3>0. r \in 0..TROWS - 1
      BY DEF TRows
    <3>1. CASE r = TROWS - 1
      <4>1. (n + 1) - row + r = n + 1 /\ r =< row
        BY <2>0, <3>1, <1>3, SMTT(60)
      <4>2. q[(n + 1) - row + r] = <<>>
        BY <4>1, <1>2
      <4>3. up[r][c] = NUL
        BY <3>1 DEF Blank, TCols
      <4> QED BY <4>1, <4>2, <4>3, <1>7
    <3>2. CASE r # TROWS - 1
      <4>1. r + 1 \in TRows /\ r + 1 =< row /\ r =< row
        BY <2>0, <3>0, <3>2, <1>3, SMTT(60) DEF TRows
      <4>2. (n + 1) - row + r = n - row + (r + 1) /\ n - row + (r + 1) \in 1..n
        BY <2>0, <3>0, <3>2, <1>3, SMTT(60)
      <4>3. q[n - row + (r + 1)] = p[n - row + (r + 1)]
        BY <4>2, <1>2
      <4>4. up[r][c] = out[r + 1][c]
        BY <3>2
      <4>5. out[r + 1][c] = CellOf(p[n - row + (r + 1)], c)
        BY <4>1, <1>6
      <4> HIDE DEF up
      <4> QED BY <4>1, <4>2, <4>3, <4>4, <4>5
    <3> QED BY <3>1, <3>2
  <2> HIDE DEF up
  <2>6. ShowsRows(up, row, q)
    BY <2>4, <2>5, <1>2 DEF ShowsRows, TRows, TCols
  <2>7. Scroll(t).out = up /\ Scroll(t).row = row /\ Scroll(t).col = 0
    BY <2>1, SMTT(60)
  <2> QED BY <2>3, <2>6, <2>7, <1>2, <1>3, <1>4 DEF Shows
<1> QED BY <1>8, <1>9

\* Two lines show the same but for column col.
SameBut(col, l, line) == \A c \in TCols : c # col => CellOf(l, c) = CellOf(line, c)

PutCell(out, row, col, v) == [out EXCEPT ![row][col] = v]
SwapEnd(p, l) == Append(ButLast(p), l)
ShowsLine(out, row, p, l) ==
  out \in Grids /\ p \in WidePapers /\ ShowsRows(out, row, p) /\ EndLine(p) = l

\* A cell of the last row changes with the last line.
LEMMA LastRow ==
  ASSUME NEW p \in WidePapers, NEW out \in Grids, NEW row \in TRows, ShowsRows(out, row, p),
         NEW l \in TLines, Len(l) =< TCOLS,
         NEW col \in TCols, CellOf(l, col) \in Printable \cup {NUL}, SameBut(col, l, EndLine(p))
  PROVE  ShowsLine(PutCell(out, row, col, CellOf(l, col)), row, SwapEnd(p, l), l)
<1>q. PICK q : q = Append(ButLast(p), l) /\ SwapEnd(p, l) = q
  BY DEF SwapEnd
<1>v. PICK v \in Printable \cup {NUL} : v = CellOf(l, col)
  OBVIOUS
<1>o. PICK o : o = [out EXCEPT ![row][col] = v] /\ PutCell(out, row, col, CellOf(l, col)) = o
  BY <1>v DEF PutCell
<1>1. PICK n \in Nat \ {0} : n = Len(p)
  BY EmptySeq DEF WidePapers
<1>2. /\ q \in Seq(TLines) /\ Len(q) = n /\ q # <<>> /\ EndLine(q) = l
      /\ \A i \in 1..n : q[i] = IF i = n THEN l ELSE p[i]
  <2>1. p \in Seq(TLines) /\ p # <<>>
    BY DEF WidePapers
  <2>2. /\ q \in Seq(TLines) /\ Len(q) = n /\ q # <<>> /\ EndLine(q) = l
        /\ (\A i \in 1..n - 1 : q[i] = p[i]) /\ q[n] = l
    <3>1. SwapsLast(Append(ButLast(p), l), p, l)
      BY <2>1, LastLineFacts
    <3>2. SwapsLast(q, p, l)
      BY <3>1, <1>q
    <3> QED BY <1>1, <3>2 DEF SwapsLast
  <2> QED BY <1>1, <2>2, SMTT(60)
<1>3. TROWS \in Nat \ {0} /\ TCOLS \in Nat \ {0}
  BY TermIoAssumption
<1>4. q \in WidePapers
  <2>1. \A i \in 1..n : Len(p[i]) =< TCOLS
    BY <1>1 DEF WidePapers
  <2>2. ASSUME NEW i \in 1..n PROVE Len(q[i]) =< TCOLS
    BY <2>1, <1>2
  <2> QED BY <1>2, <2>2 DEF WidePapers
<1>5. row = (IF n > TROWS THEN TROWS ELSE n) - 1 /\ row \in 0..TROWS - 1
  BY <1>1 DEF ShowsRows, TRows
<1>6. \A r \in TRows, c \in TCols :
        out[r][c] = IF r =< row THEN CellOf(p[n - row + r], c) ELSE NUL
  BY <1>1 DEF ShowsRows, TRows, TCols
<1>7. /\ o \in Grids
      /\ \A r \in TRows, c \in TCols : o[r][c] = IF r = row /\ c = col THEN v ELSE out[r][c]
  BY <1>o, SMTT(60) DEF Grids
<1>8. ASSUME NEW r \in TRows, NEW c \in TCols
      PROVE  o[r][c] = IF r =< row THEN CellOf(q[n - row + r], c) ELSE NUL
  <2>0. r \in 0..TROWS - 1
    BY DEF TRows
  <2>1. CASE r = row
    <3>1. n - row + r = n /\ n \in 1..n /\ r =< row
      <4>1. row \in Int /\ n \in Nat \ {0}
        BY <1>3, <1>5, SMTT(60)
      <4> QED BY <4>1, <2>1, SMTT(60)
    <3>2. q[n - row + r] = l /\ p[n - row + r] = EndLine(p)
      BY <3>1, <1>1, <1>2 DEF EndLine
    <3>3. CASE c = col
      <4>1. o[r][c] = v
        BY <2>1, <3>3, <1>7
      <4> QED BY <1>v, <3>1, <3>2, <3>3, <4>1
    <3>4. CASE c # col
      <4>1. o[r][c] = out[r][c]
        BY <3>4, <1>7
      <4>2. out[r][c] = CellOf(EndLine(p), c)
        BY <3>1, <3>2, <1>6
      <4> QED BY <3>1, <3>2, <3>4, <4>1, <4>2 DEF SameBut
    <3> QED BY <3>3, <3>4
  <2>2. CASE r # row
    <3>1. o[r][c] = out[r][c]
      BY <2>2, <1>7
    <3>2. CASE r =< row
      <4>1. n - row + r \in 1..n /\ n - row + r # n
        BY <2>0, <2>2, <3>2, <1>3, <1>5, SMTT(60)
      <4>2. q[n - row + r] = p[n - row + r]
        BY <4>1, <1>2
      <4> QED BY <3>1, <3>2, <4>2, <1>6
    <3>3. CASE ~(r =< row)
      BY <3>1, <3>3, <1>6
    <3> QED BY <3>2, <3>3
  <2> QED BY <2>1, <2>2
<1>9. ShowsRows(o, row, q)
  BY <1>2, <1>5, <1>8 DEF ShowsRows, TRows, TCols
<1> QED BY <1>q, <1>o, <1>2, <1>4, <1>7, <1>9 DEF ShowsLine

TermAt(o, r, c) == [out |-> o, row |-> r, col |-> c]
ToRow(t, r) == [t EXCEPT !.row = r, !.col = 0]
ToRowAtEdge(t, r) == [t EXCEPT !.col = 0, !.row = r]
Erase(t, c) == [t EXCEPT !.col = c, !.out[t.row][c] = NUL]
PutNext(t, v, c) == [t EXCEPT !.out[t.row][t.col] = v, !.col = c]

\* What the assignments of term_io_putchar make of the terminal: the next row,
LEMMA RowUpdates ==
  ASSUME NEW o, NEW r, NEW c, NEW x
  PROVE  /\ ToRow(TermAt(o, r, c), x) = TermAt(o, x, 0)
         /\ ToRowAtEdge(TermAt(o, r, c), x) = TermAt(o, x, 0)
<1>0. PICK t : t = TermAt(o, r, c)
  OBVIOUS
<1>1. t = [out |-> o, row |-> r, col |-> c]
  BY <1>0 DEF TermAt
<1>2. ASSUME NEW u, u = [t EXCEPT !.row = x]
      PROVE  [u EXCEPT !.col = 0] = [out |-> o, row |-> x, col |-> 0]
  <2>1. u = [out |-> o, row |-> x, col |-> c]
    BY <1>1, <1>2
  <2> QED BY <2>1, SMTT(60)
<1>3. ASSUME NEW u, u = [t EXCEPT !.col = 0]
      PROVE  [u EXCEPT !.row = x] = [out |-> o, row |-> x, col |-> 0]
  <2>1. u = [out |-> o, row |-> r, col |-> 0]
    BY <1>1, <1>3
  <2> QED BY <2>1, SMTT(60)
<1>4. ToRow(t, x) = TermAt(o, x, 0)
  BY <1>2 DEF ToRow, TermAt
<1>5. ToRowAtEdge(t, x) = TermAt(o, x, 0)
  BY <1>3 DEF ToRowAtEdge, TermAt
<1> QED BY <1>0, <1>4, <1>5

\* and a cell together with the column.
LEMMA CellUpdates ==
  ASSUME NEW o, NEW r, NEW c, NEW x, NEW v
  PROVE  /\ Erase(TermAt(o, r, c), x) = TermAt(PutCell(o, r, x, NUL), r, x)
         /\ PutNext(TermAt(o, r, c), v, x) = TermAt(PutCell(o, r, c, v), r, x)
<1>0. PICK t : t = TermAt(o, r, c)
  OBVIOUS
<1>1. t = [out |-> o, row |-> r, col |-> c] /\ t.out = o /\ t.row = r /\ t.col = c
  BY <1>0 DEF TermAt
<1>4. ASSUME NEW u, u = [t EXCEPT !.col = x]
      PROVE  [u EXCEPT !.out[t.row][x] = NUL] = [out |-> PutCell(o, r, x, NUL), row |-> r, col |-> x]
  <2>1. u = [out |-> o, row |-> r, col |-> x]
    BY <1>1, <1>4
  <2>2. u.out = o
    BY <2>1
  <2>3. PICK z : z = PutCell(o, r, x, NUL)
    OBVIOUS
  <2>4. [u EXCEPT !.out = z] = [out |-> z, row |-> r, col |-> x]
    BY <2>1, SMTT(60)
  <2>5. [u EXCEPT !.out[t.row][x] = NUL] = [u EXCEPT !.out = z]
    BY <2>2, <2>3, <1>1 DEF PutCell
  <2> QED BY <2>3, <2>4, <2>5
<1>5. ASSUME NEW u, u = [t EXCEPT !.out[t.row][t.col] = v]
      PROVE  [u EXCEPT !.col = x] = [out |-> PutCell(o, r, c, v), row |-> r, col |-> x]
  <2>1. PICK z : z = PutCell(o, r, c, v)
    OBVIOUS
  <2>2. u = [t EXCEPT !.out = z]
    BY <2>1, <1>1, <1>5 DEF PutCell
  <2>3. u = [out |-> z, row |-> r, col |-> c]
    BY <2>2, <1>1
  <2>4. [u EXCEPT !.col = x] = [out |-> z, row |-> r, col |-> x]
    BY <2>3, SMTT(60)
  <2> QED BY <2>1, <2>4
<1>8. Erase(t, x) = TermAt(PutCell(o, r, x, NUL), r, x)
  BY <1>4 DEF Erase, TermAt
<1>9. PutNext(t, v, x) = TermAt(PutCell(o, r, c, v), r, x)
  BY <1>5 DEF PutNext, TermAt
<1> QED BY <1>0, <1>8, <1>9

\* One character more on the screen and on paper (term_io_putchar).
LEMMA PutShows ==
  ASSUME NEW t \in Terms, NEW p \in Papers, Shows(t, p), NEW c
  PROVE  /\ term_io_putchar(t, c) \in Terms /\ PrintOne(p, c) \in Papers
         /\ Shows(term_io_putchar(t, c), PrintOne(p, c))
<1>1. TROWS \in Nat \ {0} /\ TCOLS \in Nat \ {0}
  BY TermIoAssumption
<1>2. /\ NEWLINE # BACKSPACE /\ NEWLINE \notin Printable /\ BACKSPACE \notin Printable
      /\ NUL \notin Printable
  BY TermIoAssumption DEF NEWLINE, BACKSPACE, NUL
<1>3. PICK out \in Grids, row \in TRows, col \in TCols : t = TermAt(out, row, col)
  BY DEF Terms, TermAt
<1>4. t.out = out /\ t.row = row /\ t.col = col
  BY <1>3 DEF TermAt
<1>5. PICK line \in TLines : line = EndLine(p) /\ Len(line) = col
  <2>1. EndLine(p) \in TLines
    BY ButLastFacts DEF Papers, WidePapers
  <2> QED BY <2>1, <1>4 DEF Shows
<1>6. p \in WidePapers /\ p \in Seq(TLines) /\ p # <<>>
  BY DEF Papers, WidePapers
<1>7. ShowsRows(out, row, p)
  BY <1>4 DEF Shows
<1>8. row \in 0..TROWS - 1 /\ col \in 0..TCOLS - 1
  BY DEF TRows, TCols
<1>9. CASE c = NEWLINE
  <2>1. PrintOne(p, c) = Append(p, <<>>)
    BY <1>9, <1>2 DEF PrintOne
  <2> DEFINE u == TermAt(out, row + 1, 0)
  <2>2. term_io_putchar(t, c) = Scroll(u)
    <3>1. ToRow(t, t.row + 1) = u
      <4>1. ToRow(TermAt(out, row, col), row + 1) = u
        BY RowUpdates, SMTT(60)
      <4> QED BY <4>1, <1>3, <1>4
    <3> HIDE DEF u
    <3> QED BY <3>1, <1>9, <1>2 DEF term_io_putchar, ToRow
  <2>3. Scroll(u) \in Terms /\ Append(p, <<>>) \in Papers /\ Shows(Scroll(u), Append(p, <<>>))
    BY <1>6, <1>7, NewRow DEF TermAt
  <2> QED BY <2>1, <2>2, <2>3
<1>10. CASE c = BACKSPACE /\ col > 0
  <2> DEFINE l == ButLast(line)
             q == SwapEnd(p, l)
             o == PutCell(out, row, col - 1, NUL)
             u == TermAt(o, row, col - 1)
  <2>1. line # <<>> /\ col - 1 \in TCols
    BY <1>1, <1>5, <1>8, <1>10, SMTT(60) DEF TCols
  <2>2. l \in TLines /\ Len(l) = col - 1 /\ \A i \in 1..col - 1 : l[i] = line[i]
    BY <2>1, <1>5, ButLastFacts DEF TLines
  <2>3. PrintOne(p, c) = q
    BY <2>1, <1>5, <1>2, <1>10 DEF PrintOne, SwapEnd
  <2>4. term_io_putchar(t, c) = u
    <3>1. Erase(t, t.col - 1) = u
      <4>1. Erase(TermAt(out, row, col), col - 1) = u
        BY CellUpdates, SMTT(60)
      <4> QED BY <4>1, <1>3, <1>4
    <3>2. u.row = row /\ row < TROWS
      BY <1>1, <1>8, SMTT(60) DEF TermAt
    <3> HIDE DEF u
    <3>3. Scroll(u) = u
      BY <3>2 DEF Scroll
    <3>4. term_io_putchar(t, c) = Scroll(u)
      BY <3>1, <1>2, <1>4, <1>10 DEF term_io_putchar, Erase
    <3> QED BY <3>3, <3>4
  <2>5. NUL = CellOf(l, col - 1) /\ Len(l) =< TCOLS /\ Len(l) < TCOLS
    BY <2>2, <1>1, <1>8, SMTT(60) DEF CellOf
  <2>6. ASSUME NEW d \in TCols, d # col - 1 PROVE CellOf(l, d) = CellOf(line, d)
    <3>1. d < col - 1 \/ d >= col
      BY <2>6, <1>8, SMTT(60) DEF TCols
    <3>2. CASE d < col - 1
      <4>1. d + 1 \in 1..col - 1 /\ d < Len(l) /\ d < Len(line)
        BY <2>2, <3>2, <1>5, <1>8, SMTT(60) DEF TCols
      <4> QED BY <4>1, <2>2 DEF CellOf
    <3>3. CASE d >= col
      <4>1. ~(d < Len(l)) /\ ~(d < Len(line))
        BY <2>2, <3>3, <1>5, <1>8, SMTT(60) DEF TCols
      <4> QED BY <4>1 DEF CellOf
    <3> QED BY <3>1, <3>2, <3>3
  <2> HIDE DEF l
  <2>7. ShowsLine(o, row, q, l)
    <3>1. NUL \in Printable \cup {NUL}
      OBVIOUS
    <3>2. SameBut(col - 1, l, EndLine(p))
      BY <2>6, <1>5 DEF SameBut
    <3> QED BY <2>1, <2>2, <2>5, <3>1, <3>2, <1>6, <1>7, LastRow
  <2> HIDE DEF o, q
  <2>8. u \in Terms /\ u.out = o /\ u.row = row /\ u.col = col - 1
    BY <2>1, <2>7 DEF Terms, TermAt, ShowsLine
  <2> HIDE DEF u
  <2> QED BY <2>2, <2>3, <2>4, <2>5, <2>7, <2>8 DEF Shows, Papers, ShowsLine
<1>11. CASE c \in Printable
  <2> DEFINE l == Append(line, c)
             q == SwapEnd(p, l)
             o == PutCell(out, row, col, c)
             u == TermAt(o, row, col + 1)
  <2>1. /\ l \in TLines /\ Len(l) = col + 1 /\ (\A i \in 1..col : l[i] = line[i])
        /\ l[col + 1] = c
    BY <1>5, <1>11, AppendProperties, SMTT(60) DEF TLines
  <2>2. PutNext(t, c, t.col + 1) = u
    <3>1. PutNext(TermAt(out, row, col), c, col + 1) = u
      BY CellUpdates, SMTT(60)
    <3> QED BY <3>1, <1>3, <1>4
  <2>3. term_io_putchar(t, c) = Scroll(WrapRow(u))
    <3> HIDE DEF u
    <3> QED BY <2>2, <1>2, <1>11 DEF term_io_putchar, PutNext
  <2>4. c = CellOf(l, col) /\ Len(l) =< TCOLS
    BY <2>1, <1>1, <1>8, SMTT(60) DEF CellOf
  <2>5. ASSUME NEW d \in TCols, d # col PROVE CellOf(l, d) = CellOf(line, d)
    <3>1. d < col \/ d > col
      BY <2>5, <1>8, SMTT(60) DEF TCols
    <3>2. CASE d < col
      <4>1. d + 1 \in 1..col /\ d < Len(l) /\ d < Len(line)
        BY <2>1, <3>2, <1>5, <1>8, SMTT(60) DEF TCols
      <4> QED BY <4>1, <2>1 DEF CellOf
    <3>3. CASE d > col
      <4>1. ~(d < Len(l)) /\ ~(d < Len(line))
        BY <2>1, <3>3, <1>5, <1>8, SMTT(60) DEF TCols
      <4> QED BY <4>1 DEF CellOf
    <3> QED BY <3>1, <3>2, <3>3
  <2> HIDE DEF l
  <2>6. ShowsLine(o, row, q, l)
    <3>1. c \in Printable \cup {NUL}
      BY <1>11
    <3>2. SameBut(col, l, EndLine(p))
      BY <2>5, <1>5 DEF SameBut
    <3> QED BY <2>1, <2>4, <3>1, <3>2, <1>6, <1>7, LastRow
  <2> HIDE DEF o
  <2>7. u.out = o /\ u.row = row /\ u.col = col + 1
    BY DEF TermAt
  <2>8. CASE col + 1 < TCOLS
    <3>1. WrapRow(u) = u
      <4>1. ~(u.col >= TCOLS)
        BY <2>7, <2>8, <1>1, <1>8, SMTT(60)
      <4> HIDE DEF u
      <4> QED BY <4>1 DEF WrapRow
    <3>2. Scroll(u) = u
      <4>1. u.row < TROWS
        BY <2>7, <1>1, <1>8, SMTT(60)
      <4> HIDE DEF u
      <4> QED BY <4>1 DEF Scroll
    <3>3. PrintOne(p, c) = q
      <4>1. Len(line) < TCOLS - 1 /\ ~(Len(line) = TCOLS - 1)
        BY <2>8, <1>1, <1>5, <1>8, SMTT(60)
      <4> QED BY <4>1, <1>2, <1>5, <1>11 DEF PrintOne, SwapEnd, l
    <3>4. col + 1 \in TCols /\ Len(l) < TCOLS
      BY <2>1, <2>8, <1>1, <1>8, SMTT(60) DEF TCols
    <3>5. u \in Terms
      BY <3>4, <2>6 DEF Terms, TermAt, ShowsLine
    <3> HIDE DEF u, q
    <3> QED BY <3>1, <3>2, <3>3, <3>4, <3>5, <2>1, <2>3, <2>6, <2>7 DEF Shows, Papers, ShowsLine
  <2>9. CASE ~(col + 1 < TCOLS)
    <3> DEFINE w == TermAt(o, row + 1, 0)
    <3>1. WrapRow(u) = w
      <4>1. u.col >= TCOLS
        BY <2>7, <2>9, <1>1, <1>8, SMTT(60)
      <4>2. ToRowAtEdge(u, u.row + 1) = w
        <5>1. ToRowAtEdge(TermAt(o, row, col + 1), row + 1) = w
          BY RowUpdates, SMTT(60)
        <5> QED BY <5>1, <2>7
      <4> HIDE DEF u, w
      <4> QED BY <4>1, <4>2 DEF WrapRow, ToRowAtEdge
    <3>2. PrintOne(p, c) = Append(q, <<>>)
      <4>1. ~(Len(line) < TCOLS - 1) /\ Len(line) = TCOLS - 1
        BY <2>9, <1>1, <1>5, <1>8, SMTT(60)
      <4> QED BY <4>1, <1>2, <1>5, <1>11 DEF PrintOne, SwapEnd, l
    <3> HIDE DEF q
    <3>3. Scroll(w) \in Terms /\ Append(q, <<>>) \in Papers /\ Shows(Scroll(w), Append(q, <<>>))
      BY <2>6, NewRow DEF TermAt, ShowsLine
    <3> HIDE DEF w
    <3> QED BY <3>1, <3>2, <3>3, <2>3
  <2> QED BY <2>8, <2>9
<1>12. CASE ~(c = NEWLINE \/ (c = BACKSPACE /\ col > 0) \/ c \in Printable)
  <2>1. c = BACKSPACE => line = <<>>
    BY <1>5, <1>8, <1>12, SMTT(60) DEF TLines
  <2>2. PrintOne(p, c) = p
    BY <2>1, <1>5, <1>12 DEF PrintOne
  <2>3. Scroll(t) = t
    <3>1. t.row < TROWS
      BY <1>1, <1>4, <1>8, SMTT(60)
    <3> QED BY <3>1 DEF Scroll
  <2>4. term_io_putchar(t, c) = t
    BY <2>3, <1>4, <1>12 DEF term_io_putchar
  <2> QED BY <2>2, <2>4
<1> QED BY <1>9, <1>10, <1>11, <1>12

\* A screen and the paper it shows the end of.
Shown == {x \in Terms \X Papers : Shows(x[1], x[2])}

\* A string on the screen and on paper (term_io_print).
LEMMA PrintShows ==
  ASSUME NEW t \in Terms, NEW p \in Papers, Shows(t, p), NEW s, Len(s) \in Nat
  PROVE  /\ PrintAll(t, s) \in Terms /\ OnPaper(p, s) \in Papers
         /\ Shows(PrintAll(t, s), OnPaper(p, s))
<1>0. PICK N \in Nat : N = Len(s)
  OBVIOUS
<1> DEFINE g == [x \in (1..N) \X Shown |->
                   <<term_io_putchar(x[2][1], s[x[1]]), PrintOne(x[2][2], s[x[1]])>>]
           b == <<t, p>>
<1>1. b \in Shown /\ g \in LoopBodies(Shown, N)
  <2>1. ASSUME NEW i \in 1..N, NEW x \in Shown
        PROVE  <<term_io_putchar(x[1], s[i]), PrintOne(x[2], s[i])>> \in Shown
    <3>1. x[1] \in Terms /\ x[2] \in Papers /\ Shows(x[1], x[2])
      BY DEF Shown
    <3>2. /\ term_io_putchar(x[1], s[i]) \in Terms /\ PrintOne(x[2], s[i]) \in Papers
          /\ Shows(term_io_putchar(x[1], s[i]), PrintOne(x[2], s[i]))
      BY <3>1, PutShows
    <3> QED BY <3>2 DEF Shown
  <2>2. b \in Shown
    BY DEF Shown
  <2> QED BY <2>1, <2>2 DEF LoopBodies
<1>2. PICK f : IsLoop(f, Shown, N, b, g)
  <2> HIDE DEF b, g
  <2> QED BY <1>1, LoopExists
<1>3. f \in [0..N -> Shown] /\ f[0] = <<t, p>> /\ \A i \in 1..N : f[i] = g[<<i, f[i - 1]>>]
  BY <1>2 DEF IsLoop
<1>4. f[0][1] = t /\ f[0][2] = p
  BY <1>3, SMTT(60)
<1>5. \A i \in 1..N : /\ f[i][1] = term_io_putchar(f[i - 1][1], s[i])
                      /\ f[i][2] = PrintOne(f[i - 1][2], s[i])
  <2> TAKE i \in 1..N
  <2>1. i - 1 \in 0..N /\ f[i - 1] \in Shown
    BY <1>3, SMTT(60)
  <2>2. f[i] = <<term_io_putchar(f[i - 1][1], s[i]), PrintOne(f[i - 1][2], s[i])>>
    BY <2>1, <1>3
  <2> QED BY <2>2, SMTT(60)
<1> HIDE DEF b, g
<1>6. PrintAll(t, s) = f[N][1]
  <2> DEFINE Body(h) == [i \in 0..N |-> IF i = 0 THEN t ELSE term_io_putchar(h[i - 1], s[i])]
             F == CHOOSE h : h = Body(h)
             h1 == [i \in 0..N |-> f[i][1]]
  <2>1. h1 = Body(h1)
    <3>1. ASSUME NEW i \in 0..N
          PROVE  f[i][1] = IF i = 0 THEN t ELSE term_io_putchar(h1[i - 1], s[i])
      <4>1. CASE i = 0
        BY <4>1, <1>4
      <4>2. CASE i # 0
        <5>1. i \in 1..N /\ i - 1 \in 0..N
          BY <4>2, SMTT(60)
        <5> QED BY <5>1, <4>2, <1>5
      <4> QED BY <4>1, <4>2
    <3> QED BY <3>1
  <2>2. F = Body(F)
    <3> HIDE DEF Body, h1
    <3> QED BY <2>1
  <2>3. PrintAll(t, s) = F[N]
    BY <1>0 DEF PrintAll
  <2> HIDE DEF F, h1
  <2>4. F[0] = t /\ \A i \in 1..N : F[i] = term_io_putchar(F[i - 1], s[i])
    <3>1. 0 \in 0..N /\ \A i \in 1..N : i \in 0..N /\ i # 0
      BY SMTT(60)
    <3> QED BY <2>2, <3>1
  <2> DEFINE S == {i \in 0..N : F[i] = f[i][1]}
  <2>5. 0 \in S
    BY <2>4, <1>4, SMTT(60)
  <2>6. \A i \in 1..N : i - 1 \in S => i \in S
    <3>1. \A i \in 1..N : i \in 0..N
      BY SMTT(60)
    <3> QED BY <3>1, <2>4, <1>5
  <2>7. 0..N \subseteq S
    <3> HIDE DEF S
    <3> QED BY <2>5, <2>6, LoopInduction
  <2>8. N \in 0..N
    BY SMTT(60)
  <2> QED BY <2>3, <2>7, <2>8
<1>7. OnPaper(p, s) = f[N][2]
  <2> DEFINE Body(h) == [i \in 0..N |-> IF i = 0 THEN p ELSE PrintOne(h[i - 1], s[i])]
             F == CHOOSE h : h = Body(h)
             h2 == [i \in 0..N |-> f[i][2]]
  <2>1. h2 = Body(h2)
    <3>1. ASSUME NEW i \in 0..N
          PROVE  f[i][2] = IF i = 0 THEN p ELSE PrintOne(h2[i - 1], s[i])
      <4>1. CASE i = 0
        BY <4>1, <1>4
      <4>2. CASE i # 0
        <5>1. i \in 1..N /\ i - 1 \in 0..N
          BY <4>2, SMTT(60)
        <5> QED BY <5>1, <4>2, <1>5
      <4> QED BY <4>1, <4>2
    <3> QED BY <3>1
  <2>2. F = Body(F)
    <3> HIDE DEF Body, h2
    <3> QED BY <2>1
  <2>3. OnPaper(p, s) = F[N]
    BY <1>0 DEF OnPaper
  <2> HIDE DEF F, h2
  <2>4. F[0] = p /\ \A i \in 1..N : F[i] = PrintOne(F[i - 1], s[i])
    <3>1. 0 \in 0..N /\ \A i \in 1..N : i \in 0..N /\ i # 0
      BY SMTT(60)
    <3> QED BY <2>2, <3>1
  <2> DEFINE S == {i \in 0..N : F[i] = f[i][2]}
  <2>5. 0 \in S
    BY <2>4, <1>4, SMTT(60)
  <2>6. \A i \in 1..N : i - 1 \in S => i \in S
    <3>1. \A i \in 1..N : i \in 0..N
      BY SMTT(60)
    <3> QED BY <3>1, <2>4, <1>5
  <2>7. 0..N \subseteq S
    <3> HIDE DEF S
    <3> QED BY <2>5, <2>6, LoopInduction
  <2>8. N \in 0..N
    BY SMTT(60)
  <2> QED BY <2>3, <2>7, <2>8
<1>8. f[N] \in Shown
  BY <1>3, SMTT(60)
<1>9. f[N][1] \in Terms /\ f[N][2] \in Papers /\ Shows(f[N][1], f[N][2])
  BY <1>8 DEF Shown
<1> QED BY <1>6, <1>7, <1>9

\* f is what the lines of p from line k on come to, line by line.
TextRounds(f, p, k) ==
  /\ f \in [0..Len(p) -> TLines] /\ f[0] = <<>>
  /\ \A i \in 1..Len(p) : f[i] = IF i < k THEN <<>> ELSE f[i - 1] \o p[i]

\* There is such an f, and Text is its last value.
LEMMA TextIsLoop ==
  ASSUME NEW p \in Seq(TLines), NEW k \in Nat \ {0}
  PROVE  \E f : TextRounds(f, p, k) /\ Text(p, k) = f[Len(p)]
<1>0. PICK N \in Nat : N = Len(p)
  BY LenProperties
<1> DEFINE g == [x \in (1..N) \X TLines |-> IF x[1] < k THEN <<>> ELSE x[2] \o p[x[1]]]
           b == <<>>
<1>1. b \in TLines /\ g \in LoopBodies(TLines, N)
  <2>1. ASSUME NEW i \in 1..N, NEW x \in TLines
        PROVE  <<>> \in TLines /\ x \o p[i] \in TLines
    <3>1. p[i] \in TLines
      BY <1>0, ElementOfSeq
    <3> QED BY <3>1, ConcatProperties, SMTT(60) DEF TLines
  <2>2. b \in TLines
    BY SMTT(60) DEF TLines
  <2> HIDE DEF b
  <2> QED BY <2>1, <2>2 DEF LoopBodies
<1>2. PICK f : IsLoop(f, TLines, N, b, g)
  <2> HIDE DEF b, g
  <2> QED BY <1>1, LoopExists
<1>3. f \in [0..N -> TLines] /\ f[0] = <<>> /\ \A i \in 1..N : f[i] = g[<<i, f[i - 1]>>]
  BY <1>2 DEF IsLoop
<1>4. \A i \in 1..N : f[i] = IF i < k THEN <<>> ELSE f[i - 1] \o p[i]
  <2> TAKE i \in 1..N
  <2>1. i - 1 \in 0..N /\ f[i - 1] \in TLines
    BY <1>3, SMTT(60)
  <2> QED BY <2>1, <1>3
<1> HIDE DEF b, g
<1> DEFINE Body(h) == [i \in 0..N |-> IF i < k THEN <<>> ELSE h[i - 1] \o p[i]]
           F == CHOOSE h : h = Body(h)
<1>5. f = Body(f)
  <2>1. ASSUME NEW i \in 0..N PROVE f[i] = IF i < k THEN <<>> ELSE f[i - 1] \o p[i]
    <3>1. CASE i = 0
      <4>1. i < k
        BY <3>1, SMTT(60)
      <4> QED BY <4>1, <3>1, <1>3
    <3>2. CASE i # 0
      <4>1. i \in 1..N
        BY <3>2, SMTT(60)
      <4> QED BY <4>1, <1>4
    <3> QED BY <3>1, <3>2
  <2>2. f = [i \in 0..N |-> f[i]]
    BY <1>3
  <2> QED BY <2>1, <2>2
<1>6. F = Body(F)
  <2> HIDE DEF Body
  <2> QED BY <1>5
<1>7. Text(p, k) = F[N]
  BY <1>0 DEF Text
<1> HIDE DEF F
<1>8. F[0] = <<>> /\ \A i \in 1..N : F[i] = IF i < k THEN <<>> ELSE F[i - 1] \o p[i]
  <2>1. 0 \in 0..N /\ 0 < k /\ \A i \in 1..N : i \in 0..N
    BY SMTT(60)
  <2> QED BY <1>6, <2>1
<1> DEFINE S == {i \in 0..N : F[i] = f[i]}
<1>9. 0 \in S
  BY <1>3, <1>8, SMTT(60)
<1>10. \A i \in 1..N : i - 1 \in S => i \in S
  <2>1. \A i \in 1..N : i \in 0..N
    BY SMTT(60)
  <2> QED BY <2>1, <1>4, <1>8
<1>11. 0..N \subseteq S
  <2> HIDE DEF S
  <2> QED BY <1>9, <1>10, LoopInduction
<1>12. N \in 0..N
  BY SMTT(60)
<1>13. Text(p, k) = f[N]
  BY <1>7, <1>11, <1>12
<1> QED BY <1>0, <1>3, <1>4, <1>13 DEF TextRounds

\* A line more, and a text that begins behind the last line.
LEMMA TextFacts ==
  ASSUME NEW p \in Seq(TLines), NEW l \in TLines, NEW k \in 1..Len(p) + 1
  PROVE  /\ Text(p, k) \in TLines /\ Text(Append(p, l), k) = Text(p, k) \o l
         /\ k = Len(p) + 1 => Text(p, k) = <<>>
<1>0. PICK n \in Nat : n = Len(p)
  BY LenProperties
<1>1. PICK q \in Seq(TLines) : q = Append(p, l)
  BY AppendProperties
<1>2. Len(q) = n + 1 /\ (\A i \in 1..n : q[i] = p[i]) /\ q[n + 1] = l
  BY <1>0, <1>1, AppendProperties, SMTT(60)
<1>3. k \in Nat \ {0} /\ k \in 1..n + 1
  BY <1>0, SMTT(60)
<1>4. PICK f : TextRounds(f, p, k) /\ Text(p, k) = f[n]
  BY <1>0, <1>3, TextIsLoop
<1>5. PICK h : TextRounds(h, q, k) /\ Text(q, k) = h[n + 1]
  <2>1. \E h : TextRounds(h, q, k) /\ Text(q, k) = h[Len(q)]
    BY <1>3, TextIsLoop
  <2> QED BY <2>1, <1>2
<1>6. /\ f \in [0..n -> TLines] /\ f[0] = <<>>
      /\ \A i \in 1..n : f[i] = IF i < k THEN <<>> ELSE f[i - 1] \o p[i]
  BY <1>0, <1>4 DEF TextRounds
<1>7. /\ h[0] = <<>>
      /\ \A i \in 1..n + 1 : h[i] = IF i < k THEN <<>> ELSE h[i - 1] \o q[i]
  BY <1>2, <1>5 DEF TextRounds
<1> DEFINE S == {i \in 0..n : h[i] = f[i]}
<1>8. 0 \in S
  BY <1>6, <1>7, SMTT(60)
<1>9. \A i \in 1..n : i - 1 \in S => i \in S
  <2>1. \A i \in 1..n : i \in 0..n /\ i \in 1..n + 1
    BY SMTT(60)
  <2> QED BY <2>1, <1>2, <1>6, <1>7
<1>10. 0..n \subseteq S
  <2> HIDE DEF S
  <2> QED BY <1>8, <1>9, LoopInduction
<1>11. n \in 0..n /\ n + 1 \in 1..n + 1 /\ ~(n + 1 < k) /\ (n + 1) - 1 = n
  BY <1>3, SMTT(60)
<1>12. h[n] = f[n]
  BY <1>10, <1>11
<1>13. h[n + 1] = f[n] \o l
  BY <1>2, <1>7, <1>11, <1>12
<1>14. ASSUME k = n + 1 PROVE f[n] = <<>>
  <2>1. CASE n = 0
    BY <2>1, <1>6
  <2>2. CASE n # 0
    <3>1. n \in 1..n /\ n < k
      BY <2>2, <1>14, SMTT(60)
    <3> QED BY <3>1, <1>6
  <2> QED BY <2>1, <2>2
<1>15. f[n] \in TLines
  BY <1>6, <1>11
<1> QED BY <1>0, <1>1, <1>4, <1>5, <1>13, <1>14, <1>15

\* Appending behind a concatenation, and taking the last element off again.
LEMMA AppendFacts ==
  ASSUME NEW x \in TLines, NEW y \in TLines, NEW e \in Printable
  PROVE  x \o Append(y, e) = Append(x \o y, e) /\ ButLast(Append(x, e)) = x
<1> USE DEF TLines
<1>1. x \o Append(y, e) = Append(x \o y, e)
  <2>1. Append(y, e) = y \o <<e>> /\ <<e>> \in Seq(Printable) /\ x \o y \in Seq(Printable)
    BY AppendIsConcat, ConcatProperties, SMTT(60)
  <2>2. Append(x \o y, e) = (x \o y) \o <<e>>
    BY <2>1, AppendIsConcat
  <2>3. (x \o y) \o <<e>> = x \o (y \o <<e>>)
    BY <2>1, ConcatAssociative, SMTT(60)
  <2> QED BY <2>1, <2>2, <2>3
<1>2. PICK a \in Seq(Printable) : a = Append(x, e)
  BY AppendProperties
<1>3. a # <<>> /\ Len(a) = Len(x) + 1 /\ \A i \in 1..Len(x) : a[i] = x[i]
  BY <1>2, AppendProperties, SMTT(60)
<1>4. PICK n \in Nat : n = Len(x)
  BY LenProperties
<1>5. /\ ButLast(a) \in Seq(Printable) /\ Len(ButLast(a)) = n
      /\ \A i \in 1..n : ButLast(a)[i] = a[i]
  <2>1. Len(a) - 1 = n
    BY <1>3, <1>4, SMTT(60)
  <2> QED BY <2>1, <1>3, ButLastFacts
<1>6. ButLast(a) = x
  <2>1. \A i \in 1..n : ButLast(a)[i] = x[i]
    BY <1>3, <1>4, <1>5
  <2> QED BY <2>1, <1>4, <1>5, SeqEqual
<1> QED BY <1>1, <1>2, <1>6

\* What stands behind the first k characters.
Behind(x, k) == SubSeq(x, k + 1, Len(x))

\* It grows and shrinks with the line.
LEMMA BehindAppend ==
  ASSUME NEW x \in TLines, NEW k \in 0..Len(x), NEW e \in Printable
  PROVE  Behind(x, k) \in TLines /\ Behind(Append(x, e), k) = Append(Behind(x, k), e)
<1> USE DEF TLines
<1>1. PICK n \in Nat : n = Len(x)
  BY LenProperties
<1>2. PICK a \in Seq(Printable) : a = Append(x, e)
  BY AppendProperties
<1>3. Len(a) = n + 1 /\ (\A i \in 1..n : a[i] = x[i]) /\ a[n + 1] = e
  BY <1>1, <1>2, AppendProperties, SMTT(60)
<1>4. k \in 0..n
  BY <1>1
<1>5. \A i \in k + 1..n : x[i] \in Printable /\ a[i] \in Printable
  BY <1>1, <1>3, <1>4, ElementOfSeq, SMTT(60)
<1>6. \A i \in k + 1..n + 1 : a[i] \in Printable
  BY <1>3, <1>4, <1>5, SMTT(60)
<1>7. /\ SubSeq(x, k + 1, n) \in Seq(Printable)
      /\ Len(SubSeq(x, k + 1, n)) = n - k
      /\ \A i \in 1..n - k : SubSeq(x, k + 1, n)[i] = x[k + i]
  <2>1. /\ SubSeq(x, k + 1, n) \in Seq(Printable)
        /\ Len(SubSeq(x, k + 1, n)) = IF k + 1 =< n THEN n - (k + 1) + 1 ELSE 0
        /\ \A i \in 1..n - (k + 1) + 1 : SubSeq(x, k + 1, n)[i] = x[(k + 1) + i - 1]
    BY <1>4, <1>5, SubSeqProperties, SMTT(60)
  <2> QED BY <2>1, <1>4, SMTT(60)
<1>8. /\ SubSeq(a, k + 1, n + 1) \in Seq(Printable)
      /\ Len(SubSeq(a, k + 1, n + 1)) = n - k + 1
      /\ \A i \in 1..n - k + 1 : SubSeq(a, k + 1, n + 1)[i] = a[k + i]
  <2>1. /\ SubSeq(a, k + 1, n + 1) \in Seq(Printable)
        /\ Len(SubSeq(a, k + 1, n + 1)) = IF k + 1 =< n + 1 THEN (n + 1) - (k + 1) + 1 ELSE 0
        /\ \A i \in 1..(n + 1) - (k + 1) + 1 : SubSeq(a, k + 1, n + 1)[i] = a[(k + 1) + i - 1]
    BY <1>4, <1>6, SubSeqProperties, SMTT(60)
  <2>2. PICK w : w = SubSeq(a, k + 1, n + 1)
    OBVIOUS
  <2>3. Len(w) = n - k + 1
    BY <2>1, <2>2, <1>4, SMTT(60)
  <2>4. \A i \in 1..n - k + 1 : w[i] = a[k + i]
    BY <2>1, <2>2, <1>4, SMTT(60)
  <2> QED BY <2>1, <2>2, <2>3, <2>4
<1>9. PICK u \in Seq(Printable) : u = SubSeq(x, k + 1, n)
  BY <1>7
<1>10. PICK w \in Seq(Printable) : w = SubSeq(a, k + 1, n + 1)
  BY <1>8
<1>11. PICK z \in Seq(Printable) : z = Append(u, e)
  BY AppendProperties
<1>12. Len(z) = n - k + 1 /\ (\A i \in 1..n - k : z[i] = u[i]) /\ z[n - k + 1] = e
  BY <1>7, <1>9, <1>11, AppendProperties, SMTT(60)
<1>13. ASSUME NEW i \in 1..n - k + 1 PROVE w[i] = z[i]
  <2>1. w[i] = a[k + i]
    BY <1>8, <1>10
  <2>2. CASE i = n - k + 1
    <3>1. k + i = n + 1
      BY <2>2, <1>4, SMTT(60)
    <3> QED BY <2>1, <2>2, <3>1, <1>3, <1>12
  <2>3. CASE i # n - k + 1
    <3>1. i \in 1..n - k /\ k + i \in 1..n
      BY <2>3, <1>4, SMTT(60)
    <3>2. u[i] = x[k + i]
      BY <3>1, <1>7, <1>9
    <3> QED BY <2>1, <3>1, <3>2, <1>3, <1>12
  <2> QED BY <2>2, <2>3
<1>14. w = z
  BY <1>8, <1>10, <1>12, <1>13, SeqEqual
<1> QED BY <1>1, <1>2, <1>3, <1>9, <1>10, <1>11, <1>14 DEF Behind

\* What typing a character and a backspace do to the text from line k on.
LEMMA TextPut ==
  ASSUME NEW p \in Papers, NEW k \in 1..Len(p), NEW c
  PROVE  /\ Text(p, k) \in TLines /\ k \in 1..Len(PrintOne(p, c))
         /\ c \in Printable => Text(PrintOne(p, c), k) = Append(Text(p, k), c)
         /\ c = BACKSPACE /\ Len(EndLine(p)) > 0 =>
              \E e \in Printable : /\ Text(PrintOne(p, c), k) \in TLines
                                   /\ Text(p, k) = Append(Text(PrintOne(p, c), k), e)
<1>1. PICK n \in Nat \ {0} : n = Len(p)
  BY EmptySeq DEF Papers, WidePapers
<1>2. PICK q \in Seq(TLines), l \in TLines : /\ q = ButLast(p) /\ l = EndLine(p) /\ Len(q) = n - 1
                                             /\ p = Append(q, l)
  <2>1. p \in Seq(TLines) /\ p # <<>>
    BY DEF Papers, WidePapers
  <2>2. /\ ButLast(p) \in Seq(TLines) /\ Len(ButLast(p)) = Len(p) - 1 /\ EndLine(p) \in TLines
        /\ p = Append(ButLast(p), EndLine(p))
    BY <2>1, ButLastFacts
  <2> QED BY <2>2, <1>1
<1>3. PICK x \in TLines : x = Text(q, k)
  <2>1. k \in 1..Len(q) + 1
    BY <1>1, <1>2, SMTT(60)
  <2> QED BY <1>2, <2>1, TextFacts
<1>4. \A m \in TLines : Text(Append(q, m), k) = x \o m /\ Len(Append(q, m)) = n
  <2>1. k \in 1..Len(q) + 1
    BY <1>1, <1>2, SMTT(60)
  <2>2. \A m \in TLines : Len(Append(q, m)) = n
    BY <1>2, AppendProperties, SMTT(60)
  <2> QED BY <1>3, <2>1, <2>2, TextFacts
<1>5. Text(p, k) = x \o l /\ x \o l \in TLines
  BY <1>2, <1>4, ConcatProperties DEF TLines
<1>6. /\ NEWLINE # BACKSPACE /\ NEWLINE \notin Printable /\ BACKSPACE \notin Printable
  BY TermIoAssumption DEF NEWLINE, BACKSPACE
<1>7. TCOLS \in Nat \ {0} /\ Len(l) < TCOLS /\ Len(l) \in Nat
  BY <1>2, TermIoAssumption, SMTT(60) DEF Papers, TLines
<1>8. \A m \in Seq(TLines) : Len(m) = n => k \in 1..Len(m) /\ k \in 1..Len(Append(m, <<>>))
                                        /\ Text(Append(m, <<>>), k) = Text(m, k)
  <2> TAKE m \in Seq(TLines)
  <2> HAVE Len(m) = n
  <2>1. k \in 1..Len(m) /\ k \in 1..Len(m) + 1 /\ <<>> \in TLines
    BY <1>1, SMTT(60) DEF TLines
  <2>2. Text(m, k) \in TLines /\ Text(Append(m, <<>>), k) = Text(m, k) \o <<>>
    BY <2>1, TextFacts
  <2>3. Text(m, k) \o <<>> = Text(m, k)
    BY <2>2, ConcatEmptySeq DEF TLines
  <2>4. Len(Append(m, <<>>)) = Len(m) + 1
    BY <2>1, AppendProperties
  <2> QED BY <2>1, <2>2, <2>3, <2>4
<1>9. \A m \in TLines : Append(q, m) \in Seq(TLines)
  BY AppendProperties
<1>10. CASE c = NEWLINE
  <2>1. PrintOne(p, c) = Append(p, <<>>)
    BY <1>10, <1>6 DEF PrintOne
  <2>2. p \in Seq(TLines)
    BY DEF Papers, WidePapers
  <2> QED BY <2>1, <2>2, <1>1, <1>5, <1>6, <1>8, <1>10
<1>11. CASE c = BACKSPACE /\ l # <<>>
  <2>1. PICK m \in TLines, e \in Printable : m = ButLast(l) /\ l = Append(m, e)
    BY <1>11, ButLastFacts DEF TLines
  <2>2. PrintOne(p, c) = Append(q, m)
    BY <2>1, <1>2, <1>6, <1>11 DEF PrintOne
  <2>3. Text(PrintOne(p, c), k) = x \o m /\ x \o m \in TLines
    BY <2>2, <1>4, ConcatProperties DEF TLines
  <2>4. Text(p, k) = Append(x \o m, e)
    <3>1. x \o Append(m, e) = Append(x \o m, e)
      BY AppendFacts
    <3> QED BY <3>1, <2>1, <1>5
  <2>5. k \in 1..Len(PrintOne(p, c))
    BY <2>2, <1>1, <1>4
  <2> QED BY <2>3, <2>4, <2>5, <1>5, <1>6, <1>11
<1>12. CASE c \in Printable
  <2>1. PICK m \in TLines : m = Append(l, c)
    BY <1>12, AppendProperties DEF TLines
  <2>2. Text(Append(q, m), k) = Append(Text(p, k), c)
    <3>1. x \o Append(l, c) = Append(x \o l, c)
      BY <1>12, AppendFacts
    <3> QED BY <3>1, <2>1, <1>4, <1>5
  <2>3. PrintOne(p, c) = Append(q, m) \/ PrintOne(p, c) = Append(Append(q, m), <<>>)
    <3>1. Len(l) < TCOLS - 1 \/ Len(l) = TCOLS - 1
      BY <1>7, SMTT(60)
    <3>2. CASE Len(l) < TCOLS - 1
      <4>1. ~(Len(l) = TCOLS - 1)
        BY <3>2, <1>7, SMTT(60)
      <4>2. PrintOne(p, c) = Append(q, m)
        BY <3>2, <4>1, <2>1, <1>2, <1>6, <1>12 DEF PrintOne
      <4> QED BY <4>2
    <3>3. CASE Len(l) = TCOLS - 1
      <4>1. ~(Len(l) < TCOLS - 1)
        BY <3>3, <1>7, SMTT(60)
      <4>2. PrintOne(p, c) = Append(Append(q, m), <<>>)
        BY <3>3, <4>1, <2>1, <1>2, <1>6, <1>12 DEF PrintOne
      <4> QED BY <4>2
    <3> QED BY <3>1, <3>2, <3>3
  <2>4. k \in 1..Len(PrintOne(p, c)) /\ Text(PrintOne(p, c), k) = Text(Append(q, m), k)
    BY <2>3, <1>4, <1>8, <1>9
  <2> QED BY <2>2, <2>4, <1>5, <1>6, <1>12
<1>13. CASE ~(c = NEWLINE \/ (c = BACKSPACE /\ l # <<>>) \/ c \in Printable)
  <2>1. PrintOne(p, c) = p
    BY <1>2, <1>13 DEF PrintOne
  <2>2. c = BACKSPACE => ~(Len(EndLine(p)) > 0)
    <3>1. Len(<<>>) = 0
      BY EmptySeq
    <3> QED BY <3>1, <1>2, <1>13, SMTT(60)
  <2> QED BY <2>1, <2>2, <1>5, <1>13
<1> QED BY <1>10, <1>11, <1>12, <1>13

\* The inductive invariant: the grid shows the paper, the command line begins on
\* a line that is still there, and what stands behind its beginning is cmdline.
TypedSoFar == Text(paper, mark.line)

TermInv ==
  /\ term \in Terms /\ paper \in Papers /\ Shows(term, paper)
  /\ cmdline \in TLines /\ mark.line \in 1..Len(paper) /\ mark.col \in Nat
  /\ ~slipped => mark.col =< Len(TypedSoFar) /\ cmdline = Behind(TypedSoFar, mark.col)

\* A new command line behind whatever has been printed.
LEMMA FreshLine ==
  ASSUME NEW p \in Papers
  PROVE  /\ EndOf(p).line \in 1..Len(p) /\ EndOf(p).col \in Nat
         /\ EndOf(p).col =< Len(Text(p, EndOf(p).line))
         /\ <<>> = Behind(Text(p, EndOf(p).line), EndOf(p).col)
<1>1. PICK n \in Nat \ {0} : n = Len(p)
  BY EmptySeq DEF Papers, WidePapers
<1>2. PICK q \in Seq(TLines), l \in TLines : l = EndLine(p) /\ Len(q) = n - 1 /\ p = Append(q, l)
  <2>1. p \in Seq(TLines) /\ p # <<>>
    BY DEF Papers, WidePapers
  <2>2. /\ ButLast(p) \in Seq(TLines) /\ Len(ButLast(p)) = Len(p) - 1 /\ EndLine(p) \in TLines
        /\ p = Append(ButLast(p), EndLine(p))
    BY <2>1, ButLastFacts
  <2> QED BY <2>2, <1>1
<1>3. EndOf(p).line = n /\ EndOf(p).col = Len(l)
  BY <1>1, <1>2 DEF EndOf
<1>4. n \in 1..Len(q) + 1 /\ n = Len(q) + 1
  BY <1>2, SMTT(60)
<1>5. Text(p, n) = <<>> \o l
  <2>1. Text(q, n) = <<>> /\ Text(Append(q, l), n) = Text(q, n) \o l
    BY <1>4, TextFacts
  <2> QED BY <2>1, <1>2
<1>6. Text(p, n) = l
  BY <1>5, ConcatEmptySeq DEF TLines
<1>7. Len(l) \in Nat /\ Len(l) =< Len(l) /\ n \in 1..Len(p)
  BY <1>1, LenProperties, SMTT(60) DEF TLines
<1>8. SubSeq(l, Len(l) + 1, Len(l)) = <<>>
  BY <1>7, SubSeqEmpty, SMTT(60)
<1> QED BY <1>3, <1>6, <1>7, <1>8 DEF Behind

\* Begin establishes the invariant from any screen that shows its paper.
LEMMA BeginInv ==
  ASSUME NEW t \in Terms, NEW p \in Papers, Shows(t, p), NEW s, Len(s) \in Nat, Begin(t, p, s)
  PROVE  TermInv'
<1>1. term' \in Terms /\ paper' \in Papers /\ Shows(term', paper')
  BY PrintShows DEF Begin
<1>2. PICK u \in Papers : u = paper'
  BY <1>1
<1>3. /\ EndOf(u).line \in 1..Len(u) /\ EndOf(u).col \in Nat
      /\ EndOf(u).col =< Len(Text(u, EndOf(u).line))
      /\ <<>> = Behind(Text(u, EndOf(u).line), EndOf(u).col)
  BY FreshLine
<1>4. cmdline' = <<>> /\ mark' = EndOf(u) /\ cmdline' \in TLines
  BY <1>2, SMTT(60) DEF Begin, TLines
<1> QED BY <1>1, <1>2, <1>3, <1>4 DEF TermInv, TypedSoFar

\* The empty screen shows the empty paper.
LEMMA EmptyShows ==
  term_io_init \in Terms /\ << <<>> >> \in Papers /\ Shows(term_io_init, << <<>> >>)
<1>1. TROWS \in Nat \ {0} /\ TCOLS \in Nat \ {0} /\ Len(<<>>) = 0
  BY TermIoAssumption
<1> DEFINE o == [r \in 0..TROWS - 1 |-> Blank]
<1>2. o \in Grids
  BY DEF Grids, TRows, TCols, Blank
<1>3. \A r \in 0..TROWS - 1, c \in 0..TCOLS - 1 : o[r][c] = NUL
  BY DEF Blank
<1>4. term_io_init = TermAt(o, 0, 0)
  BY DEF term_io_init, TermAt
<1> HIDE DEF o
<1>5. term_io_init \in Terms /\ term_io_init.out = o /\ term_io_init.row = 0 /\ term_io_init.col = 0
  BY <1>1, <1>2, <1>4, SMTT(60) DEF TermAt, Terms, TRows, TCols
<1>6. PICK p : p = << <<>> >>
  OBVIOUS
<1>7. p \in Seq(TLines) /\ Len(p) = 1 /\ p[1] = <<>> /\ p # <<>>
  <2>1. <<>> \in TLines
    BY SMTT(60) DEF TLines
  <2> QED BY <1>6, <2>1, SMTT(60)
<1>8. EndLine(p) = <<>>
  BY <1>7 DEF EndLine
<1>9. p \in Papers
  <2>1. \A i \in 1..Len(p) : Len(p[i]) =< TCOLS
    <3> TAKE i \in 1..Len(p)
    <3>1. i = 1
      BY <1>7, SMTT(60)
    <3> QED BY <3>1, <1>1, <1>7, SMTT(60)
  <2>2. Len(EndLine(p)) < TCOLS
    BY <1>1, <1>8, SMTT(60)
  <2> QED BY <2>1, <2>2, <1>7 DEF Papers, WidePapers
<1>10. ShowsRows(o, 0, p)
  <2>1. 0 = (IF Len(p) > TROWS THEN TROWS ELSE Len(p)) - 1
    BY <1>1, <1>7, SMTT(60)
  <2>2. ASSUME NEW r \in 0..TROWS - 1, NEW c \in 0..TCOLS - 1
        PROVE  o[r][c] = IF r =< 0 THEN CellOf(p[Len(p) - 0 + r], c) ELSE NUL
    <3>1. CASE r =< 0
      <4>1. Len(p) - 0 + r = 1 /\ ~(c < Len(<<>>))
        BY <3>1, <1>1, <1>7, SMTT(60)
      <4>2. CellOf(p[Len(p) - 0 + r], c) = NUL
        BY <4>1, <1>7 DEF CellOf
      <4> QED BY <3>1, <4>2, <1>3
    <3>2. CASE ~(r =< 0)
      BY <3>2, <1>3
    <3> QED BY <3>1, <3>2
  <2> QED BY <2>1, <2>2 DEF ShowsRows
<1> QED BY <1>1, <1>5, <1>6, <1>8, <1>9, <1>10 DEF Shows

\* The strings that are printed have a length.
LEMMA StringLengths ==
  /\ Len(Greeting \o Prompt) \in Nat
  /\ \A s \in {<<>>, <<CHOOSE c \in Letters : TRUE, NEWLINE>>} :
       Len(<<NEWLINE>> \o s \o Prompt) \in Nat
<1> DEFINE d == CHOOSE c \in Letters : TRUE
           A == Printable \cup {NEWLINE} \cup {d}
<1>1. Printable \cup {NEWLINE} \subseteq A /\ NEWLINE \in A /\ d \in A /\ ">" \in A /\ " " \in A
  BY DEF Printable
<1> HIDE DEF d, A
<1>2. Prompt \in Seq(A) /\ <<NEWLINE>> \in Seq(A) /\ <<>> \in Seq(A) /\ <<d, NEWLINE>> \in Seq(A)
  <2>1. PICK a \in A, b \in A, nl \in A, x \in A : a = ">" /\ b = " " /\ nl = NEWLINE /\ x = d
    BY <1>1
  <2>2. <<a, b>> \in Seq(A) /\ <<nl>> \in Seq(A) /\ <<>> \in Seq(A) /\ <<x, nl>> \in Seq(A)
    BY SMTT(60)
  <2> QED BY <2>1, <2>2 DEF Prompt
<1>3. Greeting \in Seq(A)
  BY <1>1, TermIoAssumption, SeqMonotonic
<1>4. Len(Greeting \o Prompt) \in Nat
  BY <1>2, <1>3, ConcatProperties, LenProperties
<1>5. ASSUME NEW s \in Seq(A) PROVE Len(<<NEWLINE>> \o s \o Prompt) \in Nat
  <2>1. <<NEWLINE>> \o s \in Seq(A)
    BY <1>2, ConcatProperties
  <2>2. <<NEWLINE>> \o s \o Prompt \in Seq(A)
    BY <2>1, <1>2, ConcatProperties
  <2> QED BY <2>2, LenProperties
<1> QED BY <1>2, <1>4, <1>5 DEF d

\* A typed character is echoed behind the command line.
LEMMA KeyCharInv ==
  ASSUME TermInv, NEW c \in Letters, KeyChar(c)
  PROVE  TermInv'
<1>0. c \in Printable
  BY DEF Printable
<1>1. /\ term \in Terms /\ paper \in Papers /\ Shows(term, paper) /\ cmdline \in TLines
      /\ mark.line \in 1..Len(paper) /\ mark.col \in Nat
  BY DEF TermInv
<1>2. /\ term' = term_io_putchar(term, c) /\ paper' = PrintOne(paper, c)
      /\ cmdline' = Append(cmdline, c) /\ mark' = mark /\ slipped' = slipped
  BY DEF KeyChar, Echo
<1>3. term' \in Terms /\ paper' \in Papers /\ Shows(term', paper')
  BY <1>1, <1>2, PutShows
<1>4. PICK x \in TLines : x = TypedSoFar
  BY <1>1, TextPut DEF TypedSoFar
<1>5. TypedSoFar' = Append(x, c) /\ mark.line \in 1..Len(paper')
  BY <1>0, <1>1, <1>2, <1>4, TextPut DEF TypedSoFar
<1>6. cmdline' \in TLines
  BY <1>0, <1>1, <1>2, AppendProperties DEF TLines
<1>7. ASSUME ~slipped'
      PROVE  mark'.col =< Len(TypedSoFar') /\ cmdline' = Behind(TypedSoFar', mark'.col)
  <2>1. mark.col =< Len(x) /\ cmdline = Behind(x, mark.col)
    BY <1>2, <1>4, <1>7 DEF TermInv
  <2>2. mark.col \in 0..Len(x) /\ Len(x) \in Nat
    BY <2>1, <1>1, SMTT(60) DEF TLines
  <2>3. Behind(Append(x, c), mark.col) = Append(Behind(x, mark.col), c)
    BY <2>2, <1>0, BehindAppend
  <2>4. Len(Append(x, c)) = Len(x) + 1
    BY <1>0, AppendProperties DEF TLines
  <2>5. mark.col =< Len(Append(x, c))
    BY <2>2, <2>4, SMTT(60)
  <2> QED BY <2>1, <2>3, <2>5, <1>2, <1>5
<1> QED BY <1>1, <1>2, <1>3, <1>5, <1>6, <1>7 DEF TermInv

\* A backspace takes the last character from both, or slips.
LEMMA KeyBackspaceInv ==
  ASSUME TermInv, KeyBackspace
  PROVE  TermInv'
<1>1. /\ term \in Terms /\ paper \in Papers /\ Shows(term, paper) /\ cmdline \in TLines
      /\ mark.line \in 1..Len(paper) /\ mark.col \in Nat
  BY DEF TermInv
<1>2. /\ term' = term_io_putchar(term, BACKSPACE) /\ paper' = PrintOne(paper, BACKSPACE)
      /\ cmdline # <<>> /\ cmdline' = ButLast(cmdline) /\ mark' = mark
      /\ slipped' = (slipped \/ term.col = 0)
  BY DEF KeyBackspace, Echo
<1>3. term' \in Terms /\ paper' \in Papers /\ Shows(term', paper')
  BY <1>1, <1>2, PutShows
<1>4. PICK x \in TLines : x = TypedSoFar
  BY <1>1, TextPut DEF TypedSoFar
<1>5. mark.line \in 1..Len(paper')
  BY <1>1, <1>2, TextPut
<1>6. cmdline' \in TLines
  BY <1>1, <1>2, ButLastFacts DEF TLines
<1>7. ASSUME ~slipped'
      PROVE  mark'.col =< Len(TypedSoFar') /\ cmdline' = Behind(TypedSoFar', mark'.col)
  <2>1. ~slipped /\ term.col # 0
    BY <1>2, <1>7
  <2>2. mark.col =< Len(x) /\ cmdline = Behind(x, mark.col)
    BY <2>1, <1>4 DEF TermInv
  <2>3. Len(EndLine(paper)) > 0
    <3>1. term.col \in Nat
      BY <1>1, TermIoAssumption, SMTT(60) DEF Terms, TCols
    <3>2. term.col = Len(EndLine(paper))
      BY <1>1 DEF Shows
    <3> QED BY <2>1, <3>1, <3>2, SMTT(60)
  <2>4. PICK e \in Printable : TypedSoFar' \in TLines /\ x = Append(TypedSoFar', e)
    <3>1. \E e \in Printable :
            /\ Text(PrintOne(paper, BACKSPACE), mark.line) \in TLines
            /\ Text(paper, mark.line) = Append(Text(PrintOne(paper, BACKSPACE), mark.line), e)
      BY <2>3, <1>1, TextPut, SMTT(60)
    <3>2. TypedSoFar' = Text(PrintOne(paper, BACKSPACE), mark.line)
      BY <1>2 DEF TypedSoFar
    <3> QED BY <3>1, <3>2, <1>4 DEF TypedSoFar
  <2>5. PICK y \in TLines : y = TypedSoFar' /\ x = Append(y, e)
    BY <2>4
  <2>6. Len(x) = Len(y) + 1 /\ Len(y) \in Nat
    BY <2>5, AppendProperties, SMTT(60) DEF TLines
  <2>7. mark.col # Len(x)
    <3>1. ASSUME mark.col = Len(x) PROVE FALSE
      <4>1. Len(x) < Len(x) + 1 /\ Len(x) \in Int /\ Len(x) + 1 \in Int
        BY <2>6, SMTT(60)
      <4>2. SubSeq(x, Len(x) + 1, Len(x)) = <<>>
        BY <4>1, SubSeqEmpty
      <4> QED BY <2>2, <3>1, <4>2, <1>2 DEF Behind
    <3> QED BY <3>1
  <2>8. mark.col \in 0..Len(y) /\ mark.col =< Len(y)
    BY <2>2, <2>6, <2>7, <1>1, SMTT(60)
  <2>9. Behind(y, mark.col) \in TLines /\ Behind(x, mark.col) = Append(Behind(y, mark.col), e)
    BY <2>5, <2>8, BehindAppend
  <2>10. ButLast(Append(Behind(y, mark.col), e)) = Behind(y, mark.col)
    BY <2>9, AppendFacts
  <2> QED BY <2>2, <2>5, <2>8, <2>9, <2>10, <1>2
<1> QED BY <1>1, <1>2, <1>3, <1>5, <1>6, <1>7 DEF TermInv

\* Each step keeps the invariant.
LEMMA TermNextInv ==
  TermInv /\ [TermNext]_termvars => TermInv'
<1> SUFFICES ASSUME TermInv, [TermNext]_termvars PROVE TermInv'
  OBVIOUS
<1>1. CASE terminal_run
  BY <1>1, EmptyShows, StringLengths, BeginInv DEF terminal_run
<1>2. CASE \E c \in Letters : KeyChar(c)
  BY <1>2, KeyCharInv
<1>3. CASE KeyBackspace
  BY <1>3, KeyBackspaceInv
<1>4. CASE \E s \in {<<>>, <<CHOOSE c \in Letters : TRUE, NEWLINE>>} : KeyEnter(s)
  <2>1. PICK s \in {<<>>, <<CHOOSE c \in Letters : TRUE, NEWLINE>>} : KeyEnter(s)
    BY <1>4
  <2>2. Len(<<NEWLINE>> \o s \o Prompt) \in Nat
    BY StringLengths
  <2>3. Begin(term, paper, <<NEWLINE>> \o s \o Prompt)
    BY <2>1 DEF KeyEnter
  <2>4. term \in Terms /\ paper \in Papers /\ Shows(term, paper)
    BY DEF TermInv
  <2> QED BY <2>2, <2>3, <2>4, BeginInv
<1>5. CASE UNCHANGED termvars
  BY <1>5 DEF termvars, TermInv, TypedSoFar
<1> QED BY <1>1, <1>2, <1>3, <1>4, <1>5 DEF TermNext

\* What term_io_putchar leaves on the screen is the end of what was printed,
\* and what stands behind the prompt is the command line that term_handle_key
\* will execute until a backspace comes at the left edge, for screens of any
\* size, any characters and any amount of typing.
THEOREM ScreenAlwaysTells == TermSpec => []ScreenTells
<1>1. TermInit => TermInv
  <2> SUFFICES ASSUME TermInit PROVE TermInv
    OBVIOUS
  <2> DEFINE s == Greeting \o Prompt
  <2>1. /\ PrintAll(term_io_init, s) \in Terms /\ OnPaper(<< <<>> >>, s) \in Papers
        /\ Shows(PrintAll(term_io_init, s), OnPaper(<< <<>> >>, s))
    <3>1. Len(s) \in Nat
      BY StringLengths
    <3> HIDE DEF s
    <3> QED BY <3>1, EmptyShows, PrintShows
  <2>2. term \in Terms /\ paper \in Papers /\ Shows(term, paper)
    BY <2>1 DEF TermInit
  <2>3. /\ EndOf(paper).line \in 1..Len(paper) /\ EndOf(paper).col \in Nat
        /\ EndOf(paper).col =< Len(Text(paper, EndOf(paper).line))
        /\ <<>> = Behind(Text(paper, EndOf(paper).line), EndOf(paper).col)
    BY <2>2, FreshLine
  <2>4. cmdline = <<>> /\ mark = EndOf(paper) /\ cmdline \in TLines
    BY SMTT(60) DEF TermInit, TLines
  <2> QED BY <2>2, <2>3, <2>4 DEF TermInv, TypedSoFar
<1>2. TermInv => ScreenTells
  BY DEF TermInv, ScreenTells, SeenIsTyped, TypedSoFar, Behind
<1> QED BY <1>1, <1>2, TermNextInv, PTL DEF TermSpec

=============================================================================
