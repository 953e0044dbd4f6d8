------------------------------- MODULE DiskFs -------------------------------
(***************************************************************************)
(* The file system of falastin-os: the table files[] in RAM, the working   *)
(* directory, and the image of the table that diskfs_save writes to the    *)
(* ATA disk one sector at a time (diskfs.c, fs.c, the outcomes of ata.c).  *)
(*                                                                         *)
(* Commands run one at a time on the main loop.  What interleaves with     *)
(* them is the disk: every sector write may be refused, may be accepted    *)
(* and then not reach the medium, or may be the last thing before the      *)
(* power goes; and every sector read at boot may fail.                     *)
(*                                                                         *)
(* Layout on disk.  A File is 8240 bytes: the name and the data first,     *)
(* then size, used, is_dir and parent in its last 16 bytes.  8240 is       *)
(* 16 * 512 + 48, so the sector that holds the trailing fields of slot k-1 *)
(* also holds the name and the first data bytes of slot k, and more data   *)
(* sectors of slot k follow.  A save is modelled by the steps              *)
(*     0           the superblock                                          *)
(*     2k + 1      trailing fields of slot k-1, name and first data of k   *)
(*     2k + 2      the other data sectors of slot k                        *)
(*     2N + 1      trailing fields of the last slot (N = MaxFiles)         *)
(* With 64 slots a sector ends exactly between slots 31 and 32, and the    *)
(* names of slots 21 and 53 span two sectors: there the code takes one     *)
(* step more, still with the name in front of the trailing fields.         *)
(***************************************************************************)
EXTENDS Integers, Sequences, FiniteSetsExt

CONSTANTS
  MaxFiles,       \* MAX_FILES, the number of slots of files[]
  MaxFilename,    \* MAX_FILENAME, the bytes of a name, terminator included
  MaxFileSize,    \* MAX_FILE_SIZE
  Chars,          \* the characters of names
  Slash,          \* '/', the name of the root
  Nul,            \* the terminator '\0'
  Names,          \* the names commands are called with: sequences of Chars
  Data,           \* the contents commands write
  SizeOf,         \* the length of each content, in [Data -> Nat]
  Unset, Torn, Pattern, \* data bytes never written, half written, of rawtest
  RawSlot,        \* the slot whose data sector 300 holds (slot 6 in the code)
  AtaPresent,     \* ata_drive_present()
  MaxOps,         \* bound: commands that may change the table
  MaxCrashes,     \* bound: power failures and reboots
  MaxFaults       \* bound: writes that return -1 or are lost, boots during
                  \* which a read returns -1, and runs of rawtest together

ASSUME ConstantsAssumption ==
  /\ MaxFiles \in Nat \ {0}
  /\ MaxFilename \in Nat \ {0, 1}
  /\ MaxFileSize \in Nat
  /\ Slash \in Chars /\ Nul \notin Chars
  /\ Names \subseteq Seq(Chars)
  /\ SizeOf \in [Data -> Nat]
  /\ {Unset, Torn, Pattern} \cap Data = {}
  /\ RawSlot \in 0..(MaxFiles - 1)
  /\ AtaPresent \in BOOLEAN
  /\ {MaxOps, MaxCrashes, MaxFaults} \subseteq Nat

VARIABLES
  files,       \* files[]: slot -> File
  current_dir, \* the slot of the working directory
  disk,        \* the medium: superblock valid?, leading and trailing fields
  saving,      \* Idle, or the step of diskfs_save that comes next
  pending,     \* the write diskfs_write goes on with once its create is saved
  stray,       \* history: has diskfs_write written to files[-1]?
  last,        \* history: the last command that returned, and what
  lastSaved,   \* history: the table whose save last ran to the end
  everSaved,   \* history: has any save run to the end?
  tornFormat,  \* history: was a disk without a root directory loaded?
  orphaned,    \* history: was a directory deleted that was not empty?
  budget       \* what is left of each bound

vars == <<files, current_dir, disk, saving, pending, stray, last, lastSaved,
          everSaved, tornFormat, orphaned, budget>>

history == <<stray, last, everSaved, tornFormat, orphaned>>

Slots == 0..(MaxFiles - 1)
Root == 0
NoSlot == -1
Positions == 0..(MaxFilename - 1)
LastStep == 2 * MaxFiles + 1
Idle == -1
NoWrite == [name |-> <<>>, data |-> Unset]
NoTable == <<>>
FaultKinds == {"writeErrors", "lost", "readErrors", "rawTests"}
Costs == {"ops", "crashes", "faults"} \cup FaultKinds

Bytes == Data \cup {Unset, Torn, Pattern}
RawName == [Positions -> Chars \cup {Nul}]
Sizes == {SizeOf[d] : d \in Data} \cup {0}
LeadPart == [name : RawName, bytes : Bytes]
TrailPart == [size : Sizes, used : BOOLEAN, is_dir : BOOLEAN,
              parent : Slots \cup {NoSlot}]
File == [name : RawName, bytes : Bytes, size : Sizes, used : BOOLEAN,
         is_dir : BOOLEAN, parent : Slots \cup {NoSlot}]

-----------------------------------------------------------------------------
(* Names.  A name in a slot is a byte array; a name of a command a string.  *)

CharAt(n, j) == IF j < Len(n) THEN n[j + 1] ELSE Nul

\* The comparison loop of find_file: equal up to a common terminator.
Matches(n, raw) ==
  \A j \in Positions :
    (\A k \in 0..(j - 1) : raw[k] # Nul) => CharAt(n, j) = raw[j]

\* Mutant of CopyName: the last character of the name is not copied.
CopyName_Short(n, raw) ==
  [j \in Positions |-> IF j < Len(n) - 1 /\ j < MaxFilename - 1 THEN n[j + 1]
                       ELSE Nul]

\* The copy loop of diskfs_create and diskfs_mkdir: no terminator is stored
\* behind a name shorter than the array, so older bytes stay behind it.
CopyName(n, raw) ==
  [j \in Positions |-> IF j = MaxFilename - 1 THEN Nul
                       ELSE IF j < Len(n) THEN n[j + 1]
                       ELSE raw[j]]

\* Mutant of Hits: the lookup does not compare the parent.
Hits_AnyDir(t, n, dir) == {i \in Slots : t[i].used /\ Matches(n, t[i].name)}

Hits(t, n, dir) ==
  {i \in Slots : t[i].used /\ t[i].parent = dir /\ Matches(n, t[i].name)}

find_file(t, n, dir) ==
  IF Hits(t, n, dir) = {} THEN NoSlot ELSE Min(Hits(t, n, dir))

FreeSlots(t) == {i \in Slots : ~t[i].used}

find_free(t) == IF FreeSlots(t) = {} THEN NoSlot ELSE Min(FreeSlots(t))

\* The assignments diskfs_create and diskfs_mkdir make to a free slot.
Entry(t, slot, n, isDir) ==
  [t EXCEPT ![slot] = [name |-> CopyName(n, t[slot].name),
                       bytes |-> t[slot].bytes, size |-> 0, used |-> TRUE,
                       is_dir |-> isDir, parent |-> current_dir]]

-----------------------------------------------------------------------------
(* The table as boot leaves it.                                             *)

BlankName == [j \in Positions |-> Nul]

BlankDisk ==
  [sb   |-> FALSE,
   head |-> [s \in Slots |-> [name |-> BlankName, bytes |-> Unset]],
   tail |-> [s \in Slots |-> [size |-> 0, used |-> FALSE, is_dir |-> FALSE,
                              parent |-> 0]]]

\* Mutant of TableOn: the last sector is not read.
TableOn_NoLastSector(d) ==
  [s \in Slots |->
     [name |-> d.head[s].name, bytes |-> d.head[s].bytes,
      size |-> d.tail[s].size, used |-> d.tail[s].used /\ s < MaxFiles - 1,
      is_dir |-> d.tail[s].is_dir, parent |-> d.tail[s].parent]]

TableOn(d) ==
  [s \in Slots |->
     [name |-> d.head[s].name, bytes |-> d.head[s].bytes,
      size |-> d.tail[s].size, used |-> d.tail[s].used,
      is_dir |-> d.tail[s].is_dir, parent |-> d.tail[s].parent]]

\* "Fresh init" of diskfs_init.  Only name[0] is cleared: the rest of a name
\* is what an interrupted diskfs_load left in the slot.  (So are the data
\* bytes, which nothing reads while size is 0.)
FreshTable(names) ==
  [s \in Slots |->
     [name   |-> IF s = Root THEN [names[s] EXCEPT ![0] = Slash, ![1] = Nul]
                             ELSE [names[s] EXCEPT ![0] = Nul],
      bytes  |-> Unset, size |-> 0, used |-> s = Root, is_dir |-> s = Root,
      parent |-> NoSlot]]

\* The names in RAM when the read of step r fails: those of the steps before.
NamesLoadedBefore(r) ==
  [s \in Slots |-> IF 2 * s + 1 < r THEN disk.head[s].name ELSE BlankName]

StartSave == saving' = IF AtaPresent THEN 0 ELSE Idle

Ready == saving = Idle /\ pending = NoWrite

Spend(costs) ==
  /\ \A c \in costs : budget[c] > 0
  /\ budget' = [c \in Costs |->
                  IF c \in costs THEN budget[c] - 1 ELSE budget[c]]

Return(op, n, r) ==
  last' = [op |-> op, name |-> n, dir |-> current_dir, ret |-> r]

Init ==
  /\ files = FreshTable([s \in Slots |-> BlankName])
  /\ current_dir = Root
  /\ disk = BlankDisk
  /\ saving = IF AtaPresent THEN 0 ELSE Idle
  /\ pending = NoWrite
  /\ stray = FALSE
  /\ last = [op |-> "boot", name |-> <<>>, dir |-> Root, ret |-> 0]
  /\ lastSaved = NoTable
  /\ everSaved = FALSE
  /\ tornFormat = FALSE /\ orphaned = FALSE
  /\ budget = [c \in Costs |-> CASE c = "ops" -> MaxOps
                                 [] c = "crashes" -> MaxCrashes
                                 [] OTHER -> MaxFaults]

-----------------------------------------------------------------------------
(* Commands.                                                                *)

Refuse(op, n) ==
  /\ Return(op, n, -1)
  /\ UNCHANGED <<files, saving>>

\* Mutant of MakeEntry: no test whether the name exists.
MakeEntry_Again(op, n, isDir) ==
  /\ Ready
  /\ Spend({"ops"})
  /\ LET slot == find_free(files) IN
       IF slot = NoSlot
       THEN Refuse(op, n)
       ELSE /\ files' = Entry(files, slot, n, isDir)
            /\ Return(op, n, 0)
            /\ StartSave
  /\ UNCHANGED <<current_dir, disk, pending, stray, lastSaved, everSaved,
                 tornFormat, orphaned>>

MakeEntry(op, n, isDir) ==
  /\ Ready
  /\ Spend({"ops"})
  /\ LET slot == find_free(files) IN
       IF find_file(files, n, current_dir) # NoSlot \/ slot = NoSlot
       THEN Refuse(op, n)
       ELSE /\ files' = Entry(files, slot, n, isDir)
            /\ Return(op, n, 0)
            /\ StartSave
  /\ UNCHANGED <<current_dir, disk, pending, stray, lastSaved, everSaved,
                 tornFormat, orphaned>>

Create(n) == MakeEntry("create", n, FALSE)

Mkdir(n) == MakeEntry("mkdir", n, TRUE)

\* The part of diskfs_write behind the lookup.  With idx = -1 the bytes go to
\* files[-1], memory in front of the table that is not the file system's.
WriteAt(idx, n, d) ==
  IF SizeOf[d] > MaxFileSize
  THEN /\ Refuse("write", n)
       /\ UNCHANGED stray
  ELSE /\ files' = IF idx = NoSlot THEN files
                   ELSE [files EXCEPT ![idx].bytes = d,
                                      ![idx].size = SizeOf[d]]
       /\ stray' = (stray \/ idx = NoSlot)
       /\ Return("write", n, 0)
       /\ StartSave

Write(n, d) ==
  /\ Ready
  /\ Spend({"ops"})
  /\ LET idx == find_file(files, n, current_dir)
         slot == find_free(files)
     IN \/ /\ idx # NoSlot
           /\ WriteAt(idx, n, d)
           /\ UNCHANGED pending
        \/ /\ idx = NoSlot /\ slot = NoSlot
           /\ Refuse("write", n)
           /\ UNCHANGED <<pending, stray>>
        \/ /\ idx = NoSlot /\ slot # NoSlot
           /\ files' = Entry(files, slot, n, FALSE)
           /\ pending' = [name |-> n, data |-> d]
           /\ StartSave
           /\ UNCHANGED <<stray, last>>
  /\ UNCHANGED <<current_dir, disk, lastSaved, everSaved, tornFormat, orphaned>>

\* diskfs_write after the diskfs_create it called has returned.
ResumeWrite ==
  /\ saving = Idle /\ pending # NoWrite
  /\ WriteAt(find_file(files, pending.name, current_dir),
             pending.name, pending.data)
  /\ pending' = NoWrite
  /\ UNCHANGED <<current_dir, disk, lastSaved, everSaved, tornFormat, orphaned, budget>>

Children(t, dir) == {s \in Slots : t[s].used /\ t[s].parent = dir}

\* diskfs_delete takes files and directories alike.
Delete(n) ==
  /\ Ready
  /\ Spend({"ops"})
  /\ LET idx == find_file(files, n, current_dir) IN
       IF idx = NoSlot
       THEN Refuse("delete", n) /\ UNCHANGED orphaned
       ELSE /\ files' = [files EXCEPT ![idx].used = FALSE]
            /\ Return("delete", n, 0)
            /\ StartSave
            /\ orphaned' = (orphaned \/ Children(files, idx) # {})
  /\ UNCHANGED <<current_dir, disk, pending, stray, lastSaved, everSaved,
                 tornFormat>>

CdRoot ==
  /\ Ready
  /\ current_dir' = Root
  /\ UNCHANGED <<files, disk, saving, pending, history, lastSaved, budget>>

CdUp ==
  /\ Ready
  /\ current_dir # Root
  /\ files[current_dir].parent >= 0
  /\ current_dir' = files[current_dir].parent
  /\ UNCHANGED <<files, disk, saving, pending, history, lastSaved, budget>>

CdInto(n) ==
  /\ Ready
  /\ LET idx == find_file(files, n, current_dir) IN
       /\ idx # NoSlot /\ files[idx].is_dir
       /\ current_dir' = idx
  /\ UNCHANGED <<files, disk, saving, pending, history, lastSaved, budget>>

\* The sync command.
Sync ==
  /\ Ready
  /\ Spend({"ops"})
  /\ StartSave
  /\ Return("sync", <<>>, 0)
  /\ UNCHANGED <<files, current_dir, disk, pending, stray, lastSaved,
                 everSaved, tornFormat, orphaned>>

\* The rawtest command overwrites sector 300, a data sector of RawSlot.
RawTest ==
  /\ Ready /\ AtaPresent
  /\ Spend({"faults", "rawTests"})
  /\ disk' = [disk EXCEPT !.head[RawSlot].bytes = Pattern]
  /\ UNCHANGED <<files, current_dir, saving, pending, history, lastSaved>>

-----------------------------------------------------------------------------
(* The disk.                                                                *)

TrailOf(f) ==
  [size |-> f.size, used |-> f.used, is_dir |-> f.is_dir, parent |-> f.parent]

\* Mutant of WriteStep: the trailing fields of a slot go out before its name.
WriteStep_TrailFirst(d, k, t) ==
  [sb   |-> d.sb \/ k = 0,
   head |-> [s \in Slots |->
     IF k = 2 * s + 2 THEN [name |-> t[s].name, bytes |-> t[s].bytes]
                      ELSE d.head[s]],
   tail |-> [s \in Slots |-> IF k = 2 * s + 1 THEN TrailOf(t[s]) ELSE d.tail[s]]]

\* Mutant of WriteStep: the data of a slot are cleared before they are written.
WriteStep_Clear(d, k, t) ==
  [sb   |-> d.sb \/ k = 0,
   head |-> [s \in Slots |->
     IF k = 2 * s + 1 THEN [name |-> t[s].name, bytes |-> Torn]
     ELSE IF k = 2 * s + 2
     THEN [name |-> d.head[s].name, bytes |-> t[s].bytes]
     ELSE d.head[s]],
   tail |-> [s \in Slots |-> IF k = 2 * s + 3 THEN TrailOf(t[s]) ELSE d.tail[s]]]

\* Mutant of WriteStep: the trailing fields of slot 0 are left out.
WriteStep_SkipRoot(d, k, t) ==
  [sb   |-> d.sb \/ k = 0,
   head |-> [s \in Slots |->
     IF k = 2 * s + 2 THEN [name |-> t[s].name, bytes |-> t[s].bytes]
                      ELSE d.head[s]],
   tail |-> [s \in Slots |->
     IF k = 2 * s + 3 /\ s # Root THEN TrailOf(t[s]) ELSE d.tail[s]]]

\* What step k of diskfs_save leaves on the medium.
WriteStep(d, k, t) ==
  [sb   |-> d.sb \/ k = 0,
   head |-> [s \in Slots |->
     IF k = 2 * s + 1
     THEN [name  |-> t[s].name,
           bytes |-> IF t[s].bytes = d.head[s].bytes THEN t[s].bytes ELSE Torn]
     ELSE IF k = 2 * s + 2
     THEN [name |-> d.head[s].name, bytes |-> t[s].bytes]
     ELSE d.head[s]],
   tail |-> [s \in Slots |-> IF k = 2 * s + 3 THEN TrailOf(t[s]) ELSE d.tail[s]]]

\* Mutant of Advance: the sector count is rounded down.
Advance_RoundDown ==
  IF saving = LastStep - 1
  THEN /\ saving' = Idle
       /\ lastSaved' = files
       /\ everSaved' = TRUE
  ELSE /\ saving' = saving + 1
       /\ UNCHANGED <<lastSaved, everSaved>>

\* ata_write_sector returned 0: go on, or print "Filesystem saved."
Advance ==
  IF saving = LastStep
  THEN /\ saving' = Idle
       /\ lastSaved' = files
       /\ everSaved' = TRUE
  ELSE /\ saving' = saving + 1
       /\ UNCHANGED <<lastSaved, everSaved>>

SaveStep ==
  /\ saving # Idle
  /\ disk' = WriteStep(disk, saving, files)
  /\ Advance
  /\ UNCHANGED <<files, current_dir, pending, stray, last, tornFormat, orphaned, budget>>

\* ata_write_sector returned -1: diskfs_save gives up where it is.
SaveError ==
  /\ saving # Idle
  /\ Spend({"faults", "writeErrors"})
  /\ saving' = Idle
  /\ lastSaved' = NoTable
  /\ UNCHANGED <<files, current_dir, disk, pending, history>>

\* The drive took the data but did not write it; nobody reads its status.
LostWrite ==
  /\ saving # Idle
  /\ Spend({"faults", "lost"})
  /\ Advance
  /\ UNCHANGED <<files, current_dir, disk, pending, stray, last, tornFormat, orphaned>>

-----------------------------------------------------------------------------
(* Power failure or reboot, and diskfs_init.                                *)

IsRoot(f) == f.used /\ f.is_dir /\ f.parent = NoSlot

Restart(cost) ==
  /\ Spend(cost)
  /\ current_dir' = Root
  /\ pending' = NoWrite
  /\ Return("boot", <<>>, 0)
  /\ UNCHANGED <<disk, stray, everSaved, orphaned>>

BootLoaded ==
  /\ AtaPresent /\ disk.sb
  /\ Restart({"crashes"})
  /\ files' = TableOn(disk)
  /\ saving' = Idle
  /\ lastSaved' = TableOn(disk)
  /\ tornFormat' = (tornFormat \/ ~IsRoot(disk.tail[Root]))

Format(names) ==
  /\ files' = FreshTable(names)
  /\ StartSave
  /\ lastSaved' = NoTable
  /\ UNCHANGED tornFormat

\* No drive, or no valid superblock.
BootUnformatted ==
  /\ ~AtaPresent \/ ~disk.sb
  /\ Restart({"crashes"})
  /\ Format([s \in Slots |-> BlankName])

\* The read of step r failed: diskfs_load returns 0, and diskfs_init formats.
BootReadError(r) ==
  /\ AtaPresent /\ disk.sb
  /\ Restart({"crashes", "faults", "readErrors"})
  /\ Format(NamesLoadedBefore(r))

Next ==
  \/ \E n \in Names : Create(n)
  \/ \E n \in Names : Mkdir(n)
  \/ \E n \in Names, d \in Data : Write(n, d)
  \/ ResumeWrite
  \/ \E n \in Names : Delete(n)
  \/ CdRoot
  \/ CdUp
  \/ \E n \in Names : CdInto(n)
  \/ Sync
  \/ RawTest
  \/ SaveStep
  \/ SaveError
  \/ LostWrite
  \/ BootLoaded
  \/ BootUnformatted
  \/ \E r \in 0..LastStep : BootReadError(r)

Spec == Init /\ [][Next]_vars

-----------------------------------------------------------------------------
(* Properties.                                                              *)

\* Every variable stays in its type: in particular parents and the working
\* directory are slots of files[], so no lookup leaves the table.
TypeOK ==
  /\ files \in [Slots -> File]
  /\ current_dir \in Slots
  /\ disk \in [sb : BOOLEAN, head : [Slots -> LeadPart],
             tail : [Slots -> TrailPart]]
  /\ saving \in {Idle} \cup 0..LastStep
  /\ pending \in [name : Names, data : Data] \cup {NoWrite}
  /\ stray \in BOOLEAN
  /\ last \in [op : {"boot", "create", "mkdir", "write", "delete", "sync"},
               name : Names \cup {<<>>}, dir : Slots, ret : {0, -1}]
  /\ lastSaved \in [Slots -> File] \cup {NoTable}
  /\ everSaved \in BOOLEAN
  /\ tornFormat \in BOOLEAN /\ orphaned \in BOOLEAN
  /\ budget \in [Costs -> Nat]

\* A is the path from the working directory up to the root: directories in
\* use, each one's parent on the path, none the parent of two others, and
\* the working directory nobody's parent.  (In a finite table these facts
\* leave no room for a cycle through the working directory.)
PathToRoot(A) ==
  /\ Root \in A /\ current_dir \in A
  /\ \A s \in A : files[s].used /\ files[s].is_dir
  /\ files[Root].parent = NoSlot
  /\ \A s \in A \ {Root} : files[s].parent \in A
  /\ \A s \in A : files[s].parent # current_dir
  /\ \A s, t \in A : files[s].parent = files[t].parent => s = t

\* The working directory and every directory above it are live directories,
\* so diskfs_cd("..") always climbs towards the root: diskfs_delete cannot
\* remove what the user stands in, whatever is deleted, reused, torn by a
\* crash or lost on the disk.  The one exception is a disk whose very first
\* save was cut short behind the superblock (tornFormat).
WorkDirOK == tornFormat \/ \E A \in SUBSET Slots : PathToRoot(A)


\* Has a fault of kind k happened?
Had(k) == budget[k] < MaxFaults

\* Once a save has run to the end and reached the disk, no crash makes
\* diskfs_load accept a disk without a root directory.
FormatSafe == [][everSaved /\ ~Had("lost") => tornFormat' = tornFormat]_vars

\* Every entry but the root is in a directory that exists, in whatever order
\* entries are made and deleted and slots reused, and whenever the power goes.
\* What breaks it is deleting a directory that is not empty ("Delete handles
\* directory check", commands.c:312, but diskfs_delete has none) and a save
\* that errors of the disk left incomplete.
NoOrphans ==
  \/ orphaned \/ tornFormat \/ \E k \in FaultKinds \ {"rawTests"} : Had(k)
  \/ \A s \in Slots \ {Root} : files[s].used =>
       /\ files[s].parent \in Slots
       /\ files[files[s].parent].used /\ files[files[s].parent].is_dir

\* The directory tree a table stands for: slots in use, names, kinds, parents.
TreeOf(t) ==
  {<<s, t[s].name, t[s].is_dir, t[s].parent>> : s \in {u \in Slots : t[u].used}}

\* diskfs_save is atomic for the tree although it writes sector by sector:
\* with the disk in step before a command, the tree a crash leaves on disk is
\* the one before or the one after the command.  It holds because used lies
\* behind the name in the record, hence in a later sector.  (A write the drive
\* drops without saying so breaks it.)
TreeAtomic ==
  lastSaved # NoTable /\ ~Had("lost") =>
    TreeOf(TableOn(disk)) \in {TreeOf(lastSaved), TreeOf(files)}

\* A crash inside diskfs_save never harms a file the command did not change
\* (rawtest does: it writes into the data of RawSlot).
OtherFilesIntact ==
  lastSaved # NoTable /\ ~Had("lost") =>
    \A s \in Slots : /\ files[s] = lastSaved[s]
                     /\ Had("rawTests") => s # RawSlot
                     => TableOn(disk)[s] = files[s]

UsedFiles(t) == {<<s, t[s]>> : s \in {u \in Slots : t[u].used}}

\* What the last complete save wrote is what the next boot finds: testfs and
\* checkfs call it persistence.  It does not survive a lost write, rawtest, or
\* a boot during which one sector cannot be read.
SavedSurvivesReboot ==
  [][/\ budget'.crashes < budget.crashes
     /\ Ready /\ lastSaved = files
     /\ ~(Had("lost") \/ Had("rawTests")) /\ budget'.readErrors = budget.readErrors
     => UsedFiles(files') = UsedFiles(files)]_vars

\* When "Filesystem saved." has been printed and nothing has changed since,
\* the disk holds the table, unless a write was lost or rawtest ran.
SavedMeansOnDisk ==
  Ready /\ lastSaved = files /\ ~(Had("lost") \/ Had("rawTests"))
    => disk.sb /\ TableOn(disk) = files

\* What diskfs_save leaves on the disk, complete or cut short by a crash: the
\* tree before or after the command, the files the command did not change as
\* they were, and all of the table when it said so.
SaveAtomic == TreeAtomic /\ OtherFilesIntact /\ SavedMeansOnDisk

\* touch, mkdir and write: the entry a successful command made can be looked
\* up, in its directory, under the name the command was given, so that
\* diskfs_write, which looks it up again, never writes in front of the table.
CreatedIsFound ==
  /\ ~stray
  /\ Ready /\ last.op \in {"create", "mkdir", "write"} /\ last.ret = 0
       => find_file(files, last.name, last.dir) # NoSlot

\* "File already exists" keeps names unique: two entries of one directory
\* never read as the same name.
NamesUnique ==
  \A i, j \in {s \in Slots : files[s].used} :
    /\ files[i].parent = files[j].parent
    /\ \A p \in Positions : (\A q \in 0..(p - 1) : files[i].name[q] # Nul)
                            => files[i].name[p] = files[j].name[p]
    => i = j

=============================================================================
