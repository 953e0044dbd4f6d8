------------------------------- MODULE TermIo -------------------------------
(***************************************************************************)
(* The terminal's text (term_io.c) and the command line typed into it      *)
(* (term.c).  All terminal windows show the same text; opening another one *)
(* clears it.  A command may print anything.  Closing and the commands     *)
(* exit and gui are in Desktop.                                            *)
(*                                                                         *)
(* paper is what a printer of the same width would have printed, line by   *)
(* line, and the specification the grid is compared with.                  *)
(***************************************************************************)
EXTENDS Integers, Sequences

CONSTANTS TROWS, TCOLS,    \* 30 and 75
          Letters,         \* printable characters
          LINE_MAX,        \* 255
          Greeting,        \* what terminal_run prints
          MaxPuts          \* bound: characters since the terminal was opened

NUL == "nul"
NEWLINE == "nl"
BACKSPACE == "bs"
Prompt == <<">", " ">>
Printable == Letters \cup {">", " "}

ASSUME TermIoAssumption ==
  /\ {TROWS, TCOLS, LINE_MAX} \subseteq Nat \ {0} /\ MaxPuts \in Nat
  /\ Printable \cap {NUL, NEWLINE, BACKSPACE} = {} /\ Greeting \in Seq(Printable \cup {NEWLINE})

VARIABLES term,      \* term_output with term_cursor_row and term_cursor_col
          cmdline,   \* the first cmdlen characters of cmdline
          paper,     \* history: see above
          mark,      \* history: where on paper the command line begins
          slipped,   \* history: a backspace came at the left edge
          puts       \* bound

termvars == <<term, cmdline, paper, mark, slipped, puts>>

Blank == [c \in 0..TCOLS - 1 |-> NUL]

term_io_init == [out |-> [r \in 0..TROWS - 1 |-> Blank], row |-> 0, col |-> 0]

\* Mutant of Scroll: the last row is not cleared.
Scroll_KeepLast(t) ==
  IF t.row < TROWS THEN t
  ELSE [t EXCEPT !.row = @ - 1,
                 !.out = [r \in 0..TROWS - 1 |-> t.out[IF r = TROWS - 1 THEN r ELSE r + 1]]]

\* One turn is enough: the row grows by one.
Scroll(t) ==
  IF t.row < TROWS THEN t
  ELSE [t EXCEPT !.row = @ - 1,
                 !.out = [r \in 0..TROWS - 1 |-> IF r = TROWS - 1 THEN Blank ELSE t.out[r + 1]]]

WrapRow(t) == IF t.col >= TCOLS THEN [t EXCEPT !.col = 0, !.row = @ + 1] ELSE t

\* Mutant of term_io_putchar: a backspace goes back over the left edge.
term_io_putchar_Back(t, c) ==
  Scroll(CASE c = NEWLINE -> [t EXCEPT !.row = @ + 1, !.col = 0]
           [] c = BACKSPACE /\ t.col > 0 ->
                [t EXCEPT !.col = @ - 1, !.out[t.row][t.col - 1] = NUL]
           [] c = BACKSPACE /\ t.col = 0 /\ t.row > 0 ->
                [t EXCEPT !.row = @ - 1, !.col = TCOLS - 1]
           [] c \in Printable ->
                WrapRow([t EXCEPT !.out[t.row][t.col] = c, !.col = @ + 1])
           [] OTHER -> t)

term_io_putchar(t, c) ==
  Scroll(CASE c = NEWLINE -> [t EXCEPT !.row = @ + 1, !.col = 0]
           [] c = BACKSPACE /\ t.col > 0 ->
                [t EXCEPT !.col = @ - 1, !.out[t.row][t.col - 1] = NUL]
           [] c \in Printable ->
                WrapRow([t EXCEPT !.out[t.row][t.col] = c, !.col = @ + 1])
           [] OTHER -> t)

EndLine(p) == p[Len(p)]
ButLast(s) == SubSeq(s, 1, Len(s) - 1)

\* The printer: a full line is followed by the next one.
PrintOne(p, c) ==
  LET line == EndLine(p) IN
  CASE c = NEWLINE -> Append(p, <<>>)
    [] c = BACKSPACE /\ line # <<>> -> Append(ButLast(p), ButLast(line))
    [] c \in Printable /\ Len(line) < TCOLS - 1 -> Append(ButLast(p), Append(line, c))
    [] c \in Printable /\ Len(line) = TCOLS - 1 ->
         Append(Append(ButLast(p), Append(line, c)), <<>>)
    [] OTHER -> p

\* term_io_print: one character behind the other; the same on paper.
PrintAll(t, s) ==
  LET shown[i \in 0..Len(s)] ==
        IF i = 0 THEN t ELSE term_io_putchar(shown[i - 1], s[i])
  IN  shown[Len(s)]

OnPaper(p, s) ==
  LET printed[i \in 0..Len(s)] ==
        IF i = 0 THEN p ELSE PrintOne(printed[i - 1], s[i])
  IN  printed[Len(s)]

EndOf(p) == [line |-> Len(p), col |-> Len(EndLine(p))]

\* Print s and begin a new command line behind it.
Begin(t, p, s) ==
  /\ term' = PrintAll(t, s) /\ paper' = OnPaper(p, s)
  /\ cmdline' = <<>> /\ mark' = EndOf(paper') /\ slipped' = FALSE

TermInit ==
  /\ term = PrintAll(term_io_init, Greeting \o Prompt)
  /\ paper = OnPaper(<< <<>> >>, Greeting \o Prompt)
  /\ cmdline = <<>> /\ mark = EndOf(paper) /\ slipped = FALSE /\ puts = 0

\* Another terminal is opened.
terminal_run ==
  /\ Begin(term_io_init, << <<>> >>, Greeting \o Prompt)
  /\ puts' = 0

-----------------------------------------------------------------------------
(* term_handle_key.                                                         *)

Echo(c) ==
  /\ puts < MaxPuts /\ puts' = puts + 1
  /\ term' = term_io_putchar(term, c) /\ paper' = PrintOne(paper, c)

KeyChar(c) ==
  /\ Len(cmdline) < LINE_MAX
  /\ cmdline' = Append(cmdline, c)
  /\ Echo(c)
  /\ UNCHANGED <<mark, slipped>>

KeyBackspace ==
  /\ cmdline # <<>>
  /\ cmdline' = ButLast(cmdline)
  /\ Echo(BACKSPACE)
  /\ slipped' = (slipped \/ term.col = 0)
  /\ UNCHANGED mark

\* Enter: the command, if any, prints s through put_char.
KeyEnter(s) ==
  /\ cmdline = <<>> => s = <<>>
  /\ puts + Len(s) < MaxPuts /\ puts' = puts + Len(s) + 1
  /\ Begin(term, paper, <<NEWLINE>> \o s \o Prompt)

TermNext ==
  \/ terminal_run \/ (\E c \in Letters : KeyChar(c)) \/ KeyBackspace
  \/ \E s \in {<<>>, <<CHOOSE c \in Letters : TRUE, NEWLINE>>} : KeyEnter(s)

TermSpec == TermInit /\ [][TermNext]_termvars

-----------------------------------------------------------------------------
\* What column c shows of a line.
CellOf(line, c) == IF c < Len(line) THEN line[c + 1] ELSE NUL

\* A grid out whose last row in use is row shows the end of the paper p, blank
\* beyond.
ShowsRows(out, row, p) ==
  /\ row = (IF Len(p) > TROWS THEN TROWS ELSE Len(p)) - 1
  /\ \A r \in 0..TROWS - 1, c \in 0..TCOLS - 1 :
       out[r][c] = IF r =< row THEN CellOf(p[Len(p) - row + r], c) ELSE NUL

\* The grid shows the end of what has been printed: as many lines as fit, the
\* last of them with the cursor, blank beyond, through wrapping, scrolling and
\* backspaces (term_io_putchar).
Shows(t, p) == ShowsRows(t.out, t.row, p) /\ t.col = Len(EndLine(p))

\* The lines of p from line k on, put together.
Text(p, k) ==
  LET upTo[i \in 0..Len(p)] == IF i < k THEN <<>> ELSE upTo[i - 1] \o p[i]
  IN  upTo[Len(p)]

\* What stands behind the prompt is what Enter will execute, unless a backspace
\* came when the cursor was at the left edge: it takes the character from
\* cmdline (term.c:54) but not from the screen (term_io.c:35).
SeenIsTyped ==
  ~slipped =>
    LET typed == Text(paper, mark.line) IN
    cmdline = SubSeq(typed, mark.col + 1, Len(typed))

\* The terminal shows what was printed and what was typed.
ScreenTells == Shows(term, paper) /\ SeenIsTyped
=============================================================================
