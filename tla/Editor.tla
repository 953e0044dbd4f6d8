------------------------------- MODULE Editor -------------------------------
(***************************************************************************)
(* The text editor of editor.c: load_file, the editing keys of editor_open *)
(* and save_file.                                                          *)
(*                                                                         *)
(* lines is the array up to line_count; rows and columns count from 0 as   *)
(* in the code, so the line under the cursor is lines[cursor_row + 1].     *)
(* load_file and save_file run one iteration of their outer loop per step. *)
(* Their buffer is larger than any file (MAX_FILE_SIZE) and than all lines *)
(* together, so its own limits never apply.                                *)
(***************************************************************************)
EXTENDS Integers, Sequences

CONSTANTS MAX_LINES,     \* 128
          MAX_LINE_LEN,  \* 120
          EDIT_ROWS,     \* 22
          MAX_FILE_SIZE, \* of diskfs.c, 8192
          Chars,         \* printable characters
          NL, CR,        \* '\n' and '\r'
          Files,         \* contents the file may have before the editor runs
          MaxEdits       \* bound: keys that change the text

NoFile == <<>>  \* fs_read returns nothing for both a missing and an empty file

ASSUME EditorAssumption ==
  /\ {MAX_LINES, EDIT_ROWS} \subseteq Nat \ {0}
  /\ {MAX_LINE_LEN, MAX_FILE_SIZE, MaxEdits} \subseteq Nat
  /\ NL \notin Chars /\ CR \notin Chars /\ NL # CR
  /\ Files \subseteq Seq(Chars \cup {NL, CR})

VARIABLES lines, cursor_row, cursor_col, top_line, dirty,
          mode,   \* "closed", "loading", "editing" or "saving"
          at,     \* load_file: bytes read; save_file: rows written
          out,    \* save_file's buffer
          file,   \* what the file system holds
          base,   \* history: lines as last loaded or saved
          edits   \* bound

cursor == <<cursor_row, cursor_col, top_line>>
edvars == <<lines, cursor, dirty, mode, at, out, file, base, edits>>

Line == lines[cursor_row + 1]
Put(r, l) == [lines EXCEPT ![r + 1] = l]

Take(s, n) == SubSeq(s, 1, n)
Drop(s, n) == SubSeq(s, n + 1, Len(s))

EdInit ==
  /\ lines = << <<>> >> /\ cursor_row = 0 /\ cursor_col = 0 /\ top_line = 0
  /\ dirty = FALSE /\ mode = "closed" /\ at = 0 /\ out = <<>>
  /\ file \in Files
  /\ base = lines /\ edits = 0

-----------------------------------------------------------------------------
(* load_file                                                                *)

\* editor_open up to the loop of load_file: clear_editor_state.
Open ==
  /\ mode = "closed"
  /\ lines' = << <<>> >> /\ cursor_row' = 0 /\ cursor_col' = 0 /\ top_line' = 0
  /\ dirty' = FALSE /\ mode' = "loading" /\ at' = 0
  /\ UNCHANGED <<out, file, base, edits>>

\* A character is added to the last line while there is room.
Add(c) ==
  IF Len(lines[Len(lines)]) < MAX_LINE_LEN
  THEN [lines EXCEPT ![Len(lines)] = Append(@, c)]
  ELSE lines

\* Mutant of LoadByte: the last line is never used.
LoadByte_OneLess ==
  /\ mode = "loading" /\ at < Len(file)
  /\ at' = at + 1
  /\ LET c == file[at + 1] IN
       lines' = CASE c = CR -> lines
                  [] c = NL -> IF Len(lines) < MAX_LINES - 1
                               THEN Append(lines, <<>>) ELSE lines
                  [] OTHER  -> Add(c)
  /\ UNCHANGED <<cursor, dirty, mode, out, file, base, edits>>

\* One byte: CR is skipped, NL starts a line while there is room for one.
LoadByte ==
  /\ mode = "loading" /\ at < Len(file)
  /\ at' = at + 1
  /\ LET c == file[at + 1] IN
       lines' = CASE c = CR -> lines
                  [] c = NL -> IF Len(lines) < MAX_LINES
                               THEN Append(lines, <<>>) ELSE lines
                  [] OTHER  -> Add(c)
  /\ UNCHANGED <<cursor, dirty, mode, out, file, base, edits>>

LoadEnd ==
  /\ mode = "loading" /\ at = Len(file)
  /\ mode' = "editing"
  /\ base' = lines
  /\ UNCHANGED <<lines, cursor, dirty, at, out, file, edits>>

-----------------------------------------------------------------------------
(* The keys.  draw_editor, and with it ensure_cursor_visible, ends each.    *)

\* ensure_cursor_visible
Visible(row) ==
  IF row < top_line THEN row
  ELSE IF row >= top_line + EDIT_ROWS THEN row - EDIT_ROWS + 1 ELSE top_line

Place(row, col) ==
  cursor_row' = row /\ cursor_col' = col /\ top_line' = Visible(row)

Edit(ls) ==
  /\ lines' = ls /\ dirty' = TRUE
  /\ edits < MaxEdits /\ edits' = edits + 1
  /\ UNCHANGED <<mode, at, out, file, base>>

insert_char(c) ==
  /\ mode = "editing" /\ Len(Line) < MAX_LINE_LEN
  /\ Edit(Put(cursor_row, Take(Line, cursor_col) \o <<c>> \o Drop(Line, cursor_col)))
  /\ Place(cursor_row, cursor_col + 1)

\* The lines with row r replaced by the rows of ls.
Splice(r, ls) == Take(lines, r) \o ls \o Drop(lines, r + 1)

insert_newline ==
  /\ mode = "editing" /\ Len(lines) < MAX_LINES
  /\ Edit(Splice(cursor_row, <<Take(Line, cursor_col), Drop(Line, cursor_col)>>))
  /\ Place(cursor_row + 1, 0)

Min2(a, b) == IF a < b THEN a ELSE b

\* Mutant of Join: the line that goes up is dropped.
Join_Drop(r) == Take(lines, r + 1) \o Drop(lines, r + 2)

\* backspace_char at column 0: row r + 1 goes to the end of row r, as much of
\* it as fits, and the rows behind move up.
Join(r) ==
  LET prev == lines[r + 1]
      cur  == lines[r + 2]
  IN Take(lines, r)
       \o <<prev \o Take(cur, Min2(Len(cur), MAX_LINE_LEN - Len(prev)))>>
       \o Drop(lines, r + 2)

SymbolsWithout(l, col) == Take(l, col) \o Drop(l, col + 1)

backspace_char ==
  /\ mode = "editing"
  /\ \/ /\ cursor_col > 0
        /\ Edit(Put(cursor_row, SymbolsWithout(Line, cursor_col - 1)))
        /\ Place(cursor_row, cursor_col - 1)
     \/ /\ cursor_col = 0 /\ cursor_row > 0
        /\ Edit(Join(cursor_row - 1))
        /\ Place(cursor_row - 1, Len(lines[cursor_row]))

delete_char ==
  /\ mode = "editing"
  /\ \/ /\ cursor_col < Len(Line)
        /\ Edit(Put(cursor_row, SymbolsWithout(Line, cursor_col)))
        /\ Place(cursor_row, cursor_col)
     \/ /\ cursor_col >= Len(Line) /\ cursor_row < Len(lines) - 1
        /\ Edit(Join(cursor_row))
        /\ Place(cursor_row, Len(Line))

Clamp(x, lo, hi) == IF x < lo THEN lo ELSE IF x > hi THEN hi ELSE x

\* Mutant of move_cursor: the column is clamped to the line left behind.
move_cursor_OldLine(drow, dcol) ==
  /\ mode = "editing"
  /\ LET row == Clamp(cursor_row + drow, 0, Len(lines) - 1)
     IN  Place(row, Clamp(cursor_col + dcol, 0, Len(Line)))
  /\ UNCHANGED <<lines, dirty, mode, at, out, file, base, edits>>

move_cursor(drow, dcol) ==
  /\ mode = "editing"
  /\ LET row == Clamp(cursor_row + drow, 0, Len(lines) - 1)
     IN  Place(row, Clamp(cursor_col + dcol, 0, Len(lines[row + 1])))
  /\ UNCHANGED <<lines, dirty, mode, at, out, file, base, edits>>

\* Ctrl+Q
Quit ==
  /\ mode = "editing"
  /\ mode' = "closed"
  /\ UNCHANGED <<lines, cursor, dirty, at, out, file, base, edits>>

-----------------------------------------------------------------------------
(* save_file                                                                *)

SaveBegin ==
  /\ mode = "editing"
  /\ mode' = "saving" /\ at' = 0 /\ out' = <<>>
  /\ UNCHANGED <<lines, cursor, dirty, file, base, edits>>

SaveRow ==
  /\ mode = "saving" /\ at < Len(lines)
  /\ at' = at + 1
  /\ out' = out \o lines[at + 1] \o <<NL>>
  /\ UNCHANGED <<lines, cursor, dirty, mode, file, base, edits>>

\* Mutant of SaveEnd: dirty is reset whatever fs_write says.
SaveEnd_Always ==
  /\ mode = "saving" /\ at = Len(lines)
  /\ mode' = "editing" /\ dirty' = FALSE /\ out' = <<>>
  /\ \/ file' = out /\ base' = lines /\ Len(out) =< MAX_FILE_SIZE
     \/ UNCHANGED <<file, base>>
  /\ UNCHANGED <<lines, cursor, at, edits>>

\* fs_write refuses what is too large, and a new file when the table is full.
SaveEnd ==
  /\ mode = "saving" /\ at = Len(lines)
  /\ mode' = "editing" /\ out' = <<>>
  /\ \/ /\ Len(out) =< MAX_FILE_SIZE
        /\ file' = out /\ dirty' = FALSE /\ base' = lines
     \/ /\ Len(out) > MAX_FILE_SIZE \/ file = NoFile
        /\ UNCHANGED <<file, dirty, base>>
  /\ UNCHANGED <<lines, cursor, at, edits>>

EdNext ==
  \/ Open \/ LoadByte \/ LoadEnd
  \/ \E c \in Chars : insert_char(c)
  \/ insert_newline \/ backspace_char \/ delete_char
  \/ \E d \in {<<-1, 0>>, <<1, 0>>, <<0, -1>>, <<0, 1>>} : move_cursor(d[1], d[2])
  \/ Quit
  \/ SaveBegin \/ SaveRow \/ SaveEnd

EdSpec == EdInit /\ [][EdNext]_edvars

-----------------------------------------------------------------------------
(* Properties.                                                              *)

\* Lines and files keep their shape and limits.
EdTypeOK ==
  /\ lines \in Seq(Seq(Chars)) /\ Len(lines) \in 1..MAX_LINES
  /\ \A r \in 1..Len(lines) : Len(lines[r]) =< MAX_LINE_LEN
  /\ dirty \in BOOLEAN /\ mode \in {"closed", "loading", "editing", "saving"}
  /\ at \in Nat /\ edits \in Nat
  /\ out \in Seq(Chars \cup {NL}) /\ file \in Seq(Chars \cup {NL, CR})
  /\ cursor_row \in Nat /\ cursor_col \in Nat /\ top_line \in Nat

\* The cursor is on a line, within it or just behind its end, and on the
\* screen: the array accesses of every editing key rely on the first two.
CursorInText ==
  /\ cursor_row < Len(lines)
  /\ cursor_col =< Len(Line)
  /\ top_line =< cursor_row /\ cursor_row < top_line + EDIT_ROWS

\* Without the star of dirty nothing is lost by Ctrl+Q: the lines are those
\* that were loaded or successfully saved last.
DirtyHonest == mode \in {"editing", "saving"} /\ ~dirty => lines = base

\* No key leads the editor out of its arrays, or makes it forget that there is
\* something to save.
TextSafe == CursorInText /\ DirtyHonest

\* What save_file writes for ls.
Flat(ls) ==
  LET f[i \in 0..Len(ls)] == IF i = 0 THEN <<>> ELSE f[i - 1] \o ls[i] \o <<NL>>
  IN f[Len(ls)]

Overlong(r) == Len(lines[r + 1]) + Len(lines[r + 2]) > MAX_LINE_LEN

JoinsOverlong ==
  /\ Len(lines') < Len(lines)
  /\ Overlong(cursor_row')

\* An editing key changes the text at the cursor by one symbol, in or out,
\* and leaves the cursor behind it.  Joining two lines that do not fit into
\* one is the exception: the code drops what does not fit.
EditsOneSymbol ==
  [][mode = "editing" /\ lines' # lines /\ ~JoinsOverlong =>
       LET t == Flat(lines)
           u == Flat(lines')
           p == Len(Flat(Take(lines, cursor_row))) + cursor_col
           q == Len(Flat(Take(lines', cursor_row'))) + cursor_col'
       IN \/ /\ q = p + 1
             /\ Take(u, p) = Take(t, p) /\ Drop(u, p + 1) = Drop(t, p)
          \/ /\ q \in {p - 1, p}
             /\ Take(u, q) = Take(t, q) /\ Drop(u, q) = Drop(t, q + 1)]_edvars

\* A file without CR whose lines are within the limits.
Fits(f) ==
  /\ \A i \in 1..Len(f) : f[i] # CR
  /\ \A i, j \in 1..Len(f) :
       i =< j /\ (\A k \in i..j : f[k] # NL) => j - i < MAX_LINE_LEN
  /\ \A g \in [1..MAX_LINES -> 1..Len(f)] :
       /\ \A k \in 1..MAX_LINES : f[g[k]] = NL
       /\ \A k \in 1..MAX_LINES - 1 : g[k] < g[k + 1]
       => g[MAX_LINES] = Len(f)

\* Reopening a file the editor saved shows the lines that were saved, with an
\* empty one behind them.
ReopenShowsSaved ==
  [][LoadEnd /\ file = Flat(base) =>
       lines = IF Len(base) < MAX_LINES THEN Append(base, <<>>) ELSE base]_edvars

=============================================================================
