------------------------------ MODULE FileMan ------------------------------
(***************************************************************************)
(* The file manager window (fileman.c) on top of the file system without a *)
(* drive.  It shows a copy of the working directory, taken by              *)
(* refresh_entries, and shares the table and the working directory with    *)
(* the commands of the terminal, which run between two of its keys.        *)
(*                                                                         *)
(* A key that changes the table runs through several file system calls:    *)
(* stage says which comes next.  Typing into the prompt, a character at a  *)
(* time, is a choice of what the prompt ends up holding.  Sizes and colours*)
(* of the entries are only drawn.                                          *)
(***************************************************************************)
EXTENDS DiskFs

CONSTANT Visible   \* rows of the list that fit into the window

ASSUME FileManAssumption == Visible \in Nat \ {0} /\ ~AtaPresent

VARIABLES entries, entry_count,  \* the array, with what it held before behind
                                 \* the first entry_count
          selected, scroll_off,
          input_mode,  \* 0 none, 1 new file, 2 new directory, 3 rename
          input_buf,   \* the string in the prompt
          opened,      \* has fileman_run been called?
          stage,       \* "keys", "write" or "refresh"
          job,         \* rename: what is carried from the read to the write
          fresh,       \* history: no command since the last refresh
          asked        \* history: the entry the rename prompt was opened for

fmvars == <<entries, entry_count, selected, scroll_off, input_mode, input_buf,
            opened, stage, job, fresh, asked>>
list == <<entries, entry_count, selected, scroll_off, fresh>>
prompt == <<input_mode, input_buf, asked>>

NoJob == [data |-> Unset]

\* A stored name up to its terminator.
StringOf(raw) ==
  [j \in 1..Min({k \in Positions : raw[k] = Nul}) |-> raw[j - 1]]

RowOf(f) == [name |-> StringOf(f.name), is_dir |-> f.is_dir]

\* diskfs_get_entries: up the table, the entries of dir one behind the other.
Listing(t, dir) ==
  LET rows[i \in 0..MaxFiles] ==
        IF i = 0 THEN <<>>
        ELSE IF t[i - 1].used /\ t[i - 1].parent = dir
        THEN Append(rows[i - 1], RowOf(t[i - 1]))
        ELSE rows[i - 1]
  IN  rows[MaxFiles]

refresh_entries(t, dir) ==
  LET l == Listing(t, dir) IN
  /\ entries' = l \o SubSeq(entries, Len(l) + 1, Len(entries))
  /\ entry_count' = Len(l)
  /\ selected' = 0 /\ scroll_off' = 0
  /\ fresh' = TRUE

FmInit ==
  /\ Init
  /\ entries = <<>> /\ entry_count = 0 /\ selected = 0 /\ scroll_off = 0
  /\ input_mode = 0 /\ input_buf = <<>> /\ asked = <<>>
  /\ opened = FALSE /\ stage = "keys" /\ job = NoJob /\ fresh = FALSE

Shown == SubSeq(entries, 1, entry_count)
Chosen == entries[selected + 1]

\* The main loop is free, and the file manager may get a key.
Free == Ready /\ stage = "keys"
Key == Free /\ opened
Normal == Key /\ input_mode = 0

\* fileman_run, from the icon; the prompt is as an earlier window left it.
Open ==
  /\ Free
  /\ opened' = TRUE
  /\ refresh_entries(files, current_dir)
  /\ UNCHANGED <<vars, prompt, stage, job>>

-----------------------------------------------------------------------------
(* fileman_keypress without a prompt.                                       *)

KeyUp ==
  /\ Normal /\ selected > 0
  /\ selected' = selected - 1
  /\ scroll_off' = IF selected' < scroll_off THEN scroll_off - 1 ELSE scroll_off
  /\ UNCHANGED <<vars, entries, entry_count, prompt, opened, stage, job, fresh>>

\* Mutant of KeyDown: the list scrolls a row too late.
KeyDown_Late ==
  /\ Normal /\ selected < entry_count - 1
  /\ selected' = selected + 1
  /\ scroll_off' = IF selected' > scroll_off + Visible THEN scroll_off + 1
                   ELSE scroll_off
  /\ UNCHANGED <<vars, entries, entry_count, prompt, opened, stage, job, fresh>>

KeyDown ==
  /\ Normal /\ selected < entry_count - 1
  /\ selected' = selected + 1
  /\ scroll_off' = IF selected' >= scroll_off + Visible THEN scroll_off + 1
                   ELSE scroll_off
  /\ UNCHANGED <<vars, entries, entry_count, prompt, opened, stage, job, fresh>>

\* fs_cd of a name: nothing happens unless it is a directory here.
fs_cd(n) ==
  LET idx == find_file(files, n, current_dir) IN
  IF idx # NoSlot /\ files[idx].is_dir THEN CdInto(n) ELSE UNCHANGED vars

EnterDir ==
  /\ Normal /\ entry_count > 0 /\ Chosen.is_dir
  /\ fs_cd(Chosen.name)
  /\ refresh_entries(files', current_dir')
  /\ UNCHANGED <<prompt, opened, stage, job>>

\* fs_cd("..")
Upwards ==
  IF current_dir # Root /\ files[current_dir].parent >= 0 THEN CdUp
  ELSE UNCHANGED vars

\* Mutant of GoUp: the list is not read again.
GoUp_Stale ==
  /\ Normal
  /\ Upwards
  /\ UNCHANGED fmvars

\* 'u'
GoUp ==
  /\ Normal
  /\ Upwards
  /\ refresh_entries(files', current_dir')
  /\ UNCHANGED <<prompt, opened, stage, job>>

\* 'n' and 'd'
NewPrompt(mode) ==
  /\ Normal
  /\ input_mode' = mode /\ input_buf' = <<>>
  /\ UNCHANGED <<vars, list, opened, stage, job, asked>>

\* 'r'
RenamePrompt ==
  /\ Normal /\ entry_count > 0
  /\ input_mode' = 3 /\ input_buf' = Chosen.name /\ asked' = Chosen.name
  /\ UNCHANGED <<vars, list, opened, stage, job>>

\* Mutant of DeleteKey: the first row is 1.
DeleteKey_OffByOne ==
  /\ Normal /\ entry_count > 0
  /\ Delete(entries[IF selected = 0 THEN 1 ELSE selected].name)
  /\ stage' = "refresh"
  /\ UNCHANGED <<list, prompt, opened, job>>

DeleteKey ==
  /\ Normal /\ entry_count > 0
  /\ Delete(Chosen.name)
  /\ stage' = "refresh"
  /\ UNCHANGED <<list, prompt, opened, job>>

-----------------------------------------------------------------------------
(* fileman_keypress with a prompt.                                          *)

Type(n) ==
  /\ Key /\ input_mode # 0 /\ n # input_buf
  /\ input_buf' = n
  /\ UNCHANGED <<vars, list, input_mode, asked, opened, stage, job>>

ClosePrompt == input_mode' = 0 /\ input_buf' = <<>> /\ UNCHANGED asked

\* Enter for a new file or directory, or with nothing to do.
EnterNew ==
  /\ Key /\ input_mode # 0
  /\ \/ input_buf # <<>> /\ input_mode = 1 /\ Create(input_buf)
     \/ input_buf # <<>> /\ input_mode = 2 /\ Mkdir(input_buf)
     \/ (input_buf = <<>> \/ (input_mode = 3 /\ Chosen.is_dir)) /\ UNCHANGED vars
  /\ ClosePrompt
  /\ stage' = "refresh"
  /\ UNCHANGED <<list, opened, job>>

\* Enter for a rename: fs_read and fs_delete.  The bound leaves room for the
\* write.
EnterRename ==
  /\ Key /\ input_mode = 3 /\ input_buf # <<>> /\ ~Chosen.is_dir
  /\ budget["ops"] >= 2
  /\ LET idx == find_file(files, Chosen.name, current_dir) IN
       job' = [new  |-> input_buf,
               data |-> IF idx = NoSlot \/ files[idx].size = 0 THEN Unset
                        ELSE files[idx].bytes,
               sound |-> /\ Chosen.name = asked /\ idx # NoSlot
                         /\ find_file(files, input_buf, current_dir) \in {idx, NoSlot}]
  /\ Delete(Chosen.name)
  /\ ClosePrompt
  /\ stage' = "write"
  /\ UNCHANGED <<list, opened>>

\* Mutant of RenameWrite: the new file is always made empty.
RenameWrite_Empty ==
  /\ stage = "write" /\ Ready
  /\ Create(job.new)
  /\ stage' = "refresh"
  /\ UNCHANGED <<list, prompt, opened, job>>

\* fs_write or fs_create of the new name.
RenameWrite ==
  /\ stage = "write" /\ Ready
  /\ IF job.data = Unset THEN Create(job.new) ELSE Write(job.new, job.data)
  /\ stage' = "refresh"
  /\ UNCHANGED <<list, prompt, opened, job>>

\* The refresh_entries at the end.
Finish ==
  /\ stage = "refresh" /\ Ready
  /\ refresh_entries(files, current_dir)
  /\ stage' = "keys" /\ job' = NoJob
  /\ UNCHANGED <<vars, prompt, opened>>

-----------------------------------------------------------------------------

\* A command of a terminal, as far as it matters here.
Command ==
  \/ \E n \in Names : Create(n) \/ Mkdir(n) \/ Delete(n) \/ CdInto(n)
  \/ \E n \in Names, d \in Data : Write(n, d)
  \/ CdUp

Terminal ==
  /\ Free
  /\ Command
  /\ fresh' = FALSE
  /\ UNCHANGED <<entries, entry_count, selected, scroll_off, prompt, opened, stage, job>>

FmKey ==
  \/ KeyUp \/ KeyDown \/ EnterDir \/ GoUp \/ DeleteKey
  \/ \E mode \in {1, 2} : NewPrompt(mode)
  \/ RenamePrompt
  \/ \E n \in Names \cup {<<>>} : Type(n)
  \/ EnterNew \/ EnterRename \/ RenameWrite \/ Finish

FmNext ==
  \/ Open \/ Terminal \/ FmKey
  \/ ResumeWrite /\ UNCHANGED fmvars

FmSpec == FmInit /\ [][FmNext]_<<vars, fmvars>>

-----------------------------------------------------------------------------
(* Properties.                                                              *)

\* The selected row exists and is on the screen: no sequence of keys, and no
\* refresh with a shorter list, leaves selected behind the entries or outside
\* the rows drawn.
SelectionOK ==
  /\ selected = 0 \/ selected < entry_count
  /\ scroll_off =< selected /\ selected < scroll_off + Visible

\* Unless a command has run since, the list is the working directory: every
\* key that changes the table or the directory ends with a refresh.
ListCurrent == fresh /\ stage = "keys" => Shown = Listing(files, current_dir)

\* What the window shows is what the keys act on.
ListRight == SelectionOK /\ ListCurrent

\* What commands and prompts put into the table has a name of its own, under
\* which it is found; names are not longer than an entry holds.
NamesRight == NamesUnique /\ CreatedIsFound

\* With a current list the Delete key removes the selected entry and no other.
DeletesSelected ==
  [][fresh /\ stage = "keys" /\ input_mode = 0 /\ stage' = "refresh" =>
       Listing(files', current_dir') =
         SubSeq(Shown, 1, selected) \o SubSeq(Shown, selected + 2, Len(Shown))]_<<vars, fmvars>>

\* Renaming the file the prompt was opened for to a name that is free keeps its
\* contents: when the list is read again they are under the new name.  (The
\* prompt outlives the window and the selection does not, so that a rename may
\* be applied to another file; then nothing is promised.)
RenameKeepsData ==
  stage = "refresh" /\ Ready /\ job # NoJob /\ job.sound =>
    LET idx == find_file(files, job.new, current_dir) IN
    /\ idx # NoSlot /\ ~files[idx].is_dir
    /\ IF job.data = Unset THEN files[idx].size = 0
       ELSE files[idx].bytes = job.data /\ files[idx].size = SizeOf[job.data]

=============================================================================
