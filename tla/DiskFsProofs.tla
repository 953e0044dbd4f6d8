---------------------------- MODULE DiskFsProofs ----------------------------
(***************************************************************************)
(* Proofs about DiskFs, for every number of slots, every name length, every *)
(* set of names and every number of faults.                                 *)
(***************************************************************************)
EXTENDS DiskFs, Loops, TLAPS

\* Zenon proves a step that names no other prover.
USE ZenonT(60)

\* find_file returns -1 or a slot in use in the directory it was asked about.
LEMMA FindFile ==
  ASSUME NEW t, NEW n, NEW dir, find_file(t, n, dir) # NoSlot
  PROVE  LET i == find_file(t, n, dir)
         IN  i \in Slots /\ t[i].used /\ t[i].parent = dir
<1>1. Hits(t, n, dir) # {} /\ Hits(t, n, dir) \in SUBSET Nat
  BY ConstantsAssumption, SMTT(60) DEF find_file, Hits, Slots
<1>2. find_file(t, n, dir) \in Hits(t, n, dir)
  BY <1>1, MinOfNats DEF find_file
<1> QED BY <1>2 DEF Hits

\* find_free returns -1 or a slot that is not in use.
LEMMA FindFree ==
  ASSUME NEW t, find_free(t) # NoSlot
  PROVE  find_free(t) \in Slots /\ ~t[find_free(t)].used
<1>1. FreeSlots(t) # {} /\ FreeSlots(t) \in SUBSET Nat
  BY ConstantsAssumption, SMTT(60) DEF find_free, FreeSlots, Slots
<1>2. find_free(t) \in FreeSlots(t)
  BY <1>1, MinOfNats DEF find_free
<1> QED BY <1>2 DEF FreeSlots

-----------------------------------------------------------------------------
(* Types.                                                                   *)

\* The copy loop of diskfs_create keeps the name a byte array.
LEMMA CopyNameType ==
  ASSUME NEW n \in Seq(Chars), NEW raw \in RawName
  PROVE  CopyName(n, raw) \in RawName
<1>1. ASSUME NEW j \in Positions, j < Len(n)
      PROVE  n[j + 1] \in Chars
  BY <1>1, ConstantsAssumption, SMTT(60) DEF Positions
<1> QED BY <1>1, ConstantsAssumption DEF CopyName, RawName

\* A new entry leaves the table a table.
LEMMA EntryType ==
  ASSUME NEW t \in [Slots -> File], NEW slot \in Slots, NEW n \in Seq(Chars),
         NEW isDir \in BOOLEAN, current_dir \in Slots
  PROVE  Entry(t, slot, n, isDir) \in [Slots -> File]
<1>1. CopyName(n, t[slot].name) \in RawName
  BY CopyNameType DEF File
<1>2. 0 \in Sizes
  BY DEF Sizes
<1> QED BY <1>1, <1>2 DEF Entry, File

\* "Fresh init" makes a table, whatever bytes the names still hold.
LEMMA FreshTableType ==
  ASSUME NEW names \in [Slots -> RawName]
  PROVE  FreshTable(names) \in [Slots -> File]
<1>1. ASSUME NEW s \in Slots
      PROVE  /\ [names[s] EXCEPT ![0] = Slash, ![1] = Nul] \in RawName
             /\ [names[s] EXCEPT ![0] = Nul] \in RawName
  BY ConstantsAssumption DEF RawName, Positions
<1>2. 0 \in Sizes /\ Unset \in Bytes
  BY DEF Sizes, Bytes
<1> QED BY <1>1, <1>2 DEF FreshTable, File

\* So is what diskfs_load reads.
LEMMA TableOnType == TypeOK => TableOn(disk) \in [Slots -> File]
BY DEF TypeOK, TableOn, File, LeadPart, TrailPart

\* The name bytes a failed load leaves behind are names.
LEMMA LoadedNamesType ==
  ASSUME TypeOK, NEW r
  PROVE  NamesLoadedBefore(r) \in [Slots -> RawName]
<1>1. BlankName \in RawName
  BY DEF BlankName, RawName
<1>2. \A s \in Slots : disk.head[s].name \in RawName
  BY DEF TypeOK, LeadPart
<1> QED BY <1>1, <1>2 DEF NamesLoadedBefore

\* One step of diskfs_save keeps the medium well formed.
LEMMA WriteStepType ==
  ASSUME TypeOK, NEW k
  PROVE  WriteStep(disk, k, files) \in [sb : BOOLEAN, head : [Slots -> LeadPart],
                                        tail : [Slots -> TrailPart]]
<1> DEFINE d == WriteStep(disk, k, files)
<1>1. d.head \in [Slots -> LeadPart]
  BY DEF TypeOK, WriteStep, LeadPart, File, Bytes
<1>2. d.tail \in [Slots -> TrailPart]
  BY DEF TypeOK, WriteStep, TrailOf, TrailPart, File
<1>3. d.sb \in BOOLEAN
  BY DEF TypeOK, WriteStep
<1>4. d = [sb |-> d.sb, head |-> d.head, tail |-> d.tail]
  BY DEF WriteStep
<1> QED BY <1>1, <1>2, <1>3, <1>4

\* Every command that saves leaves the save idle or at its first step.
LEMMA StartSaveType ==
  StartSave => saving' \in {Idle} \cup 0..LastStep
BY ConstantsAssumption, SMTT(60) DEF StartSave, LastStep

\* Budgets stay naturals.
LEMMA SpendType ==
  ASSUME TypeOK, NEW costs, Spend(costs)
  PROVE  budget' \in [Costs -> Nat]
BY SMTT(60) DEF TypeOK, Spend

\* The state before the first boot is well typed.
LEMMA InitTypeOK == Init => TypeOK
<1> SUFFICES ASSUME Init PROVE TypeOK
  OBVIOUS
<1>1. BlankName \in RawName
  BY DEF BlankName, RawName
<1>2. files \in [Slots -> File]
  BY <1>1, FreshTableType DEF Init
<1>3. disk \in [sb : BOOLEAN, head : [Slots -> LeadPart],
                tail : [Slots -> TrailPart]]
  BY <1>1, ConstantsAssumption, SMTT(60)
   DEF Init, BlankDisk, LeadPart, TrailPart, Bytes, Sizes, Slots
<1>4. budget \in [Costs -> Nat]
  BY ConstantsAssumption DEF Init, Costs
<1>5. Root \in Slots
  BY ConstantsAssumption, SMTT(60) DEF Slots, Root
<1>6. saving \in {Idle} \cup 0..LastStep
  BY ConstantsAssumption, SMTT(60) DEF Init, LastStep
<1>7. last \in [op : {"boot"}, name : {<<>>}, dir : Slots, ret : {0}]
  BY <1>5 DEF Init
<1> QED BY <1>2, <1>3, <1>4, <1>5, <1>6, <1>7 DEF Init, TypeOK

\* The part of diskfs_write behind the lookup keeps the types.
LEMMA WriteAtType ==
  ASSUME TypeOK, NEW idx \in Slots \cup {NoSlot}, NEW n \in Names,
         NEW d \in Data, WriteAt(idx, n, d)
  PROVE  /\ files' \in [Slots -> File]
         /\ stray' \in BOOLEAN
         /\ saving' \in {Idle} \cup 0..LastStep
         /\ last' \in [op : {"write"}, name : Names, dir : Slots, ret : {0, -1}]
<1>1. SizeOf[d] \in Sizes /\ d \in Bytes
  BY DEF Sizes, Bytes
<1>2. files' \in [Slots -> File]
  BY <1>1, SMTT(60) DEF TypeOK, WriteAt, Refuse, File
<1>3. saving' \in {Idle} \cup 0..LastStep
  BY StartSaveType DEF TypeOK, WriteAt, Refuse
<1>4. stray' \in BOOLEAN
  BY DEF TypeOK, WriteAt
<1>5. last' \in [op : {"write"}, name : Names, dir : Slots, ret : {0, -1}]
  BY SMTT(60) DEF TypeOK, WriteAt, Refuse, Return
<1> QED BY <1>2, <1>3, <1>4, <1>5

\* diskfs_create and diskfs_mkdir keep the types.
LEMMA MakeEntryType ==
  ASSUME TypeOK, NEW op \in {"create", "mkdir"}, NEW n \in Names,
         NEW isDir \in BOOLEAN, MakeEntry(op, n, isDir)
  PROVE  TypeOK'
<1>1. files' \in [Slots -> File]
  <2>1. n \in Seq(Chars)
    BY ConstantsAssumption
  <2> QED BY <2>1, FindFree, EntryType, SMTT(60) DEF TypeOK, MakeEntry, Refuse
<1>2. saving' \in {Idle} \cup 0..LastStep
  BY StartSaveType DEF TypeOK, MakeEntry, Refuse
<1>3. budget' \in [Costs -> Nat]
  BY SpendType DEF MakeEntry
<1>4. last' \in [op : {"create", "mkdir"}, name : Names, dir : Slots,
                 ret : {0, -1}]
  BY SMTT(60) DEF TypeOK, MakeEntry, Refuse, Return
<1> QED BY <1>1, <1>2, <1>3, <1>4 DEF TypeOK, MakeEntry

\* diskfs_write keeps the types, whether it finds the file or creates it.
LEMMA WriteType ==
  ASSUME TypeOK, NEW n \in Names, NEW d \in Data, Write(n, d)
  PROVE  TypeOK'
<1> DEFINE idx == find_file(files, n, current_dir)
           slot == find_free(files)
<1>1. budget' \in [Costs -> Nat]
  BY SpendType DEF Write
<1>2. CASE idx # NoSlot
  <2>1. WriteAt(idx, n, d) /\ pending' = pending /\ idx \in Slots
    BY <1>2, FindFile DEF Write
  <2> QED BY <2>1, <1>1, WriteAtType DEF TypeOK, Write
<1>3. CASE idx = NoSlot /\ slot = NoSlot
  <2>1. Refuse("write", n) /\ UNCHANGED <<pending, stray>>
    BY <1>3 DEF Write
  <2> QED BY <2>1, <1>1 DEF TypeOK, Write, Refuse, Return
<1>4. CASE idx = NoSlot /\ slot # NoSlot
  <2>1. /\ files' = Entry(files, slot, n, FALSE)
        /\ pending' = [name |-> n, data |-> d]
        /\ StartSave
        /\ UNCHANGED <<stray, last>>
    BY <1>4 DEF Write
  <2>2. files' \in [Slots -> File]
    <3>1. n \in Seq(Chars)
      BY ConstantsAssumption
    <3> QED BY <3>1, <1>4, <2>1, FindFree, EntryType DEF TypeOK
  <2>3. pending' \in [name : Names, data : Data] /\ saving' \in {Idle} \cup 0..LastStep
    BY <2>1, StartSaveType
  <2> QED BY <2>1, <2>2, <2>3, <1>1 DEF TypeOK, Write
<1> QED BY <1>2, <1>3, <1>4

\* diskfs_delete keeps the types.
LEMMA DeleteType ==
  ASSUME TypeOK, NEW n \in Names, Delete(n)
  PROVE  TypeOK'
<1> DEFINE idx == find_file(files, n, current_dir)
<1>1. files' \in [Slots -> File]
  <2>1. CASE idx = NoSlot
    BY <2>1 DEF TypeOK, Delete, Refuse
  <2>2. CASE idx # NoSlot
    <3>1. files' = [files EXCEPT ![idx].used = FALSE] /\ idx \in Slots
      BY <2>2, FindFile DEF Delete
    <3> HIDE DEF idx
    <3>2. [files[idx] EXCEPT !.used = FALSE] \in File
      <4>1. files[idx] \in File
        BY <3>1 DEF TypeOK
      <4> QED BY <4>1 DEF File
    <3>3. files' = [files EXCEPT ![idx] = [files[idx] EXCEPT !.used = FALSE]]
      BY <3>1 DEF TypeOK
    <3> QED BY <3>2, <3>3 DEF TypeOK
  <2> QED BY <2>1, <2>2
<1>2. saving' \in {Idle} \cup 0..LastStep
  BY StartSaveType DEF TypeOK, Delete, Refuse
<1>3. budget' \in [Costs -> Nat]
  BY SpendType DEF Delete
<1>4. last' \in [op : {"delete"}, name : Names, dir : Slots, ret : {0, -1}]
  BY SMTT(60) DEF TypeOK, Delete, Refuse, Return
<1> QED BY <1>1, <1>2, <1>3, <1>4 DEF TypeOK, Delete

\* A boot keeps the types, whatever the disk holds.
LEMMA BootType ==
  ASSUME TypeOK, NEW cost, Restart(cost), files' \in [Slots -> File],
         lastSaved' \in {NoTable, files'}, tornFormat' \in BOOLEAN,
         saving' \in {Idle} \cup 0..LastStep
  PROVE  TypeOK'
<1>1. budget' \in [Costs -> Nat]
  BY SpendType DEF Restart
<1>2. Root \in Slots
  BY ConstantsAssumption, SMTT(60) DEF Root, Slots
<1> QED BY <1>1, <1>2 DEF TypeOK, Restart, Return, NoWrite

\* Every step keeps the types.
LEMMA NextTypeOK == TypeOK /\ [Next]_vars => TypeOK'
<1> SUFFICES ASSUME TypeOK, [Next]_vars PROVE TypeOK'
  OBVIOUS
<1>1. ASSUME NEW n \in Names, Create(n) \/ Mkdir(n) PROVE TypeOK'
  BY <1>1, MakeEntryType DEF Create, Mkdir
<1>2. ASSUME NEW n \in Names, NEW d \in Data, Write(n, d) PROVE TypeOK'
  BY <1>2, WriteType
<1>3. CASE ResumeWrite
  <2>1. pending.name \in Names /\ pending.data \in Data
    BY <1>3 DEF TypeOK, ResumeWrite
  <2>2. find_file(files, pending.name, current_dir) \in Slots \cup {NoSlot}
    BY FindFile
  <2>3. WriteAt(find_file(files, pending.name, current_dir), pending.name,
                pending.data)
    BY <1>3 DEF ResumeWrite
  <2> QED BY <1>3, <2>1, <2>2, <2>3, WriteAtType DEF TypeOK, ResumeWrite
<1>4. ASSUME NEW n \in Names, Delete(n) PROVE TypeOK'
  BY <1>4, DeleteType
<1>5. CASE CdRoot \/ CdUp
  BY <1>5, ConstantsAssumption, SMTT(60)
   DEF TypeOK, CdRoot, CdUp, history, Root, Slots, NoSlot, File
<1>6. ASSUME NEW n \in Names, CdInto(n) PROVE TypeOK'
  <2>1. current_dir' \in Slots
    BY <1>6, FindFile DEF CdInto
  <2> QED BY <1>6, <2>1, SMTT(60) DEF TypeOK, CdInto, history
<1>7. CASE Sync
  <2>1. budget' \in [Costs -> Nat]
    BY <1>7, SpendType DEF Sync
  <2> QED BY <1>7, <2>1, StartSaveType DEF TypeOK, Sync, Return
<1>8. CASE RawTest
  <2>1. budget' \in [Costs -> Nat]
    BY <1>8, SpendType DEF RawTest
  <2>2. disk' \in [sb : BOOLEAN, head : [Slots -> LeadPart],
                   tail : [Slots -> TrailPart]]
    <3>1. RawSlot \in Slots /\ Pattern \in Bytes
      BY ConstantsAssumption DEF Slots, Bytes
    <3>2. [disk.head EXCEPT ![RawSlot].bytes = Pattern] \in [Slots -> LeadPart]
      BY <3>1, SMTT(60) DEF TypeOK, LeadPart
    <3>3. disk' = [disk EXCEPT !.head =
                     [disk.head EXCEPT ![RawSlot].bytes = Pattern]]
      BY <1>8 DEF TypeOK, RawTest
    <3> QED BY <3>2, <3>3 DEF TypeOK
  <2>3. UNCHANGED <<files, current_dir, saving, pending, history, lastSaved>>
    BY <1>8 DEF RawTest
  <2> QED BY <2>1, <2>2, <2>3, SMTT(60) DEF TypeOK, history
<1>9. CASE SaveStep \/ LostWrite
  <2>1. disk' \in [sb : BOOLEAN, head : [Slots -> LeadPart],
                   tail : [Slots -> TrailPart]]
    BY <1>9, WriteStepType DEF TypeOK, SaveStep, LostWrite
  <2>2. budget' \in [Costs -> Nat]
    BY <1>9, SpendType DEF TypeOK, SaveStep, LostWrite
  <2>3. Advance /\ saving # Idle
    BY <1>9 DEF SaveStep, LostWrite
  <2>4. lastSaved' \in {lastSaved, files} /\ everSaved' \in BOOLEAN
    BY <2>3 DEF TypeOK, Advance
  <2>5. saving' \in {Idle} \cup 0..LastStep
    <3>1. LastStep \in Nat /\ saving \in 0..LastStep
      BY <2>3, ConstantsAssumption, SMTT(60) DEF TypeOK, LastStep
    <3>2. saving' = Idle \/ (saving # LastStep /\ saving' = saving + 1)
      BY <2>3 DEF Advance
    <3> QED BY <3>1, <3>2, SMTT(60)
  <2> QED BY <1>9, <2>1, <2>2, <2>4, <2>5 DEF TypeOK, SaveStep, LostWrite
<1>10. CASE SaveError
  <2>1. budget' \in [Costs -> Nat]
    BY <1>10, SpendType DEF SaveError
  <2> QED BY <1>10, <2>1, SMTT(60) DEF TypeOK, SaveError, history
<1>11. CASE BootLoaded
  <2>1. files' \in [Slots -> File]
    BY <1>11, TableOnType DEF BootLoaded
  <2>2. tornFormat' \in BOOLEAN
    BY <1>11 DEF TypeOK, BootLoaded
  <2> QED BY <1>11, <2>1, <2>2, BootType DEF BootLoaded
<1>12. CASE BootUnformatted
  <2>1. [s \in Slots |-> BlankName] \in [Slots -> RawName]
    BY DEF BlankName, RawName
  <2>2. files' \in [Slots -> File]
    BY <1>12, <2>1, FreshTableType DEF BootUnformatted, Format
  <2>3. tornFormat' \in BOOLEAN
    BY <1>12 DEF TypeOK, BootUnformatted, Format
  <2> QED BY <1>12, <2>2, <2>3, BootType, StartSaveType
      DEF BootUnformatted, Format
<1>13. ASSUME NEW r \in 0..LastStep, BootReadError(r) PROVE TypeOK'
  <2>1. files' \in [Slots -> File]
    BY <1>13, LoadedNamesType, FreshTableType DEF BootReadError, Format
  <2>2. tornFormat' \in BOOLEAN
    BY <1>13 DEF TypeOK, BootReadError, Format
  <2> QED BY <1>13, <2>1, <2>2, BootType, StartSaveType
      DEF BootReadError, Format
<1>14. CASE UNCHANGED vars
  BY <1>14, SMTT(60) DEF TypeOK, vars
<1> QED BY <1>1, <1>2, <1>3, <1>4, <1>5, <1>6, <1>7, <1>8, <1>9, <1>10,
         <1>11, <1>12, <1>13, <1>14 DEF Next

\* Parents and the working directory are slots of files[] in every reachable
\* state, so no index of diskfs.c other than the -1 of a failed lookup leaves
\* the table.
THEOREM TypeCorrect == Spec => []TypeOK
BY InitTypeOK, NextTypeOK, PTL DEF Spec

-----------------------------------------------------------------------------
(* The working directory.  With the types, WorkDirOK is inductive: the path *)
(* A carries enough to see that no command touches a directory on it.       *)

\* A path survives every change of the table that leaves its directories in
\* use, directories, and below the same parents.
LEMMA PathKept ==
  ASSUME NEW A \in SUBSET Slots, PathToRoot(A), current_dir' = current_dir,
         \A s \in A : /\ files'[s].used = files[s].used
                      /\ files'[s].is_dir = files[s].is_dir
                      /\ files'[s].parent = files[s].parent
  PROVE  PathToRoot(A)'
BY SMTT(60) DEF PathToRoot

\* diskfs_create and diskfs_mkdir write into a slot that was not in use.
LEMMA EntryKeepsPath ==
  ASSUME TypeOK, NEW A \in SUBSET Slots, PathToRoot(A), NEW n, NEW isDir,
         current_dir' = current_dir, find_free(files) # NoSlot,
         files' = Entry(files, find_free(files), n, isDir)
  PROVE  PathToRoot(A)'
<1> DEFINE slot == find_free(files)
<1>1. slot \in Slots /\ ~files[slot].used
  BY FindFree
<1>2. slot \notin A
  BY <1>1 DEF PathToRoot
<1>3. \A s \in A : files'[s] = files[s]
  BY <1>1, <1>2 DEF TypeOK, Entry
<1> QED BY <1>3, PathKept

\* diskfs_delete removes a child of the working directory, and the working
\* directory is nobody's parent on the path.
LEMMA DeleteKeepsPath ==
  ASSUME TypeOK, NEW A \in SUBSET Slots, PathToRoot(A), NEW n, Delete(n)
  PROVE  PathToRoot(A)'
<1> DEFINE idx == find_file(files, n, current_dir)
<1>1. CASE idx = NoSlot
  BY <1>1, PathKept DEF Delete, Refuse
<1>2. CASE idx # NoSlot
  <2>1. idx \in Slots /\ files[idx].parent = current_dir
    BY <1>2, FindFile, SMTT(60)
  <2>2. idx \notin A
    BY <2>1 DEF PathToRoot
  <2>3. \A s \in A : files'[s] = files[s]
    BY <1>2, <2>1, <2>2 DEF TypeOK, Delete
  <2> QED BY <2>3, PathKept DEF Delete
<1> QED BY <1>1, <1>2

\* diskfs_write changes data and size only.
LEMMA WriteAtKeepsPath ==
  ASSUME TypeOK, NEW A \in SUBSET Slots, PathToRoot(A),
         NEW idx \in Slots \cup {NoSlot}, NEW n, NEW d, WriteAt(idx, n, d),
         current_dir' = current_dir
  PROVE  PathToRoot(A)'
<1>1. \A s \in Slots : /\ files'[s].used = files[s].used
                       /\ files'[s].is_dir = files[s].is_dir
                       /\ files'[s].parent = files[s].parent
  <2>1. files \in [Slots -> File]
    BY DEF TypeOK
  <2>2. CASE files' = files
    BY <2>2
  <2>3. CASE /\ idx \in Slots
             /\ files' = [files EXCEPT ![idx].bytes = d, ![idx].size = SizeOf[d]]
    BY <2>1, <2>3 DEF File
  <2> QED BY <2>2, <2>3 DEF WriteAt, Refuse
<1> QED BY <1>1, PathKept

\* diskfs_write removes no directory from a path to the root.
LEMMA WriteKeepsPath ==
  ASSUME TypeOK, NEW A \in SUBSET Slots, PathToRoot(A), NEW n, NEW d,
         Write(n, d)
  PROVE  PathToRoot(A)'
<1> DEFINE idx == find_file(files, n, current_dir)
           slot == find_free(files)
<1>1. CASE idx # NoSlot
  BY <1>1, FindFile, WriteAtKeepsPath DEF Write
<1>2. CASE idx = NoSlot /\ slot = NoSlot
  BY <1>2, PathKept DEF Write, Refuse
<1>3. CASE idx = NoSlot /\ slot # NoSlot
  BY <1>3, EntryKeepsPath DEF Write
<1> QED BY <1>1, <1>2, <1>3

\* diskfs_cd("..") drops the end of the path.
LEMMA CdUpPath ==
  ASSUME TypeOK, NEW A \in SUBSET Slots, PathToRoot(A), CdUp
  PROVE  \E B \in SUBSET Slots : PathToRoot(B)'
<1>1. PICK cd \in A : cd = current_dir
  BY DEF PathToRoot
<1>2. PICK up \in A : up = files[cd].parent /\ up = current_dir'
  BY <1>1 DEF PathToRoot, CdUp
<1>3. cd # Root /\ up # cd /\ files' = files
  BY <1>1, <1>2 DEF PathToRoot, CdUp
<1>4. PathToRoot(A \ {cd})'
  BY <1>1, <1>2, <1>3 DEF PathToRoot
<1> QED BY <1>4

\* diskfs_cd(path) extends it by a live directory that was not on it.
LEMMA CdIntoPath ==
  ASSUME TypeOK, NEW A \in SUBSET Slots, PathToRoot(A), NEW n, CdInto(n)
  PROVE  \E B \in SUBSET Slots : PathToRoot(B)'
<1>1. PICK i \in Slots : i = find_file(files, n, current_dir)
  BY FindFile DEF CdInto
<1>2. /\ files[i].used /\ files[i].parent = current_dir
      /\ files[i].is_dir /\ current_dir' = i /\ files' = files
  BY <1>1, FindFile, SMTT(60) DEF CdInto
<1>3. i \notin A /\ i # NoSlot /\ i # Root
  BY <1>2, SMTT(60) DEF PathToRoot, Slots, NoSlot
<1>4. PathToRoot(A \cup {i})'
  <2>1. \A s \in A : files[s].parent # i
    BY <1>3, SMTT(60) DEF PathToRoot
  <2> QED BY <1>2, <1>3, <2>1 DEF PathToRoot
<1> QED BY <1>4

\* At boot the path is the root alone.
LEMMA BootPath ==
  ASSUME current_dir' = Root, IsRoot(files'[Root])
  PROVE  \E B \in SUBSET Slots : PathToRoot(B)'
<1>1. PathToRoot({Root})'
  BY SMTT(60) DEF PathToRoot, IsRoot, NoSlot, Root
<1>2. {Root} \in SUBSET Slots
  BY ConstantsAssumption, SMTT(60) DEF Root, Slots
<1> QED BY <1>1, <1>2

\* Formatting makes a root.
LEMMA FreshRoot ==
  ASSUME NEW names PROVE IsRoot(FreshTable(names)[Root])
<1>1. Root \in Slots
  BY ConstantsAssumption, SMTT(60) DEF Root, Slots
<1> QED BY <1>1 DEF IsRoot, FreshTable

\* At the start the working directory is the root.
LEMMA InitWorkDirOK == Init => WorkDirOK
<1> SUFFICES ASSUME Init PROVE PathToRoot({Root}) /\ {Root} \in SUBSET Slots
  BY DEF WorkDirOK
<1>1. IsRoot(files[Root]) /\ current_dir = Root
  BY FreshRoot DEF Init
<1> QED BY <1>1, ConstantsAssumption, SMTT(60) DEF PathToRoot, IsRoot, NoSlot, Root, Slots

\* Every step leaves the working directory connected to the root.
LEMMA NextWorkDirOK == TypeOK /\ WorkDirOK /\ [Next]_vars => WorkDirOK'
<1> SUFFICES ASSUME TypeOK, WorkDirOK, [Next]_vars PROVE WorkDirOK'
  OBVIOUS
<1>1. CASE BootLoaded
  <2>1. tornFormat' \/ IsRoot(files'[Root])
    BY <1>1, ConstantsAssumption, SMTT(60)
     DEF BootLoaded, IsRoot, TableOn, Root, Slots, TypeOK
  <2> QED BY <1>1, <2>1, BootPath DEF WorkDirOK, BootLoaded, Restart
<1>2. CASE BootUnformatted
  BY <1>2, FreshRoot, BootPath DEF WorkDirOK, BootUnformatted, Format, Restart
<1>3. ASSUME NEW r \in 0..LastStep, BootReadError(r) PROVE WorkDirOK'
  BY <1>3, FreshRoot, BootPath DEF WorkDirOK, BootReadError, Format, Restart
<1>4. CASE ~(BootLoaded \/ BootUnformatted \/ \E r \in 0..LastStep : BootReadError(r))
  <2>1. tornFormat' = tornFormat
    BY <1>4 DEF Next, vars, history, Create, Mkdir, MakeEntry, Write,
       ResumeWrite, Delete, CdRoot, CdUp, CdInto, Sync, RawTest, SaveStep,
       SaveError, LostWrite
  <2>2. CASE tornFormat
    BY <2>1, <2>2 DEF WorkDirOK
  <2>3. CASE ~tornFormat
    <3>1. PICK A \in SUBSET Slots : PathToRoot(A)
      BY <2>3 DEF WorkDirOK
    <3>2. ASSUME NEW n \in Names, Create(n) \/ Mkdir(n) PROVE PathToRoot(A)'
      <4>1. PICK isDir : MakeEntry("create", n, isDir) \/ MakeEntry("mkdir", n, isDir)
        BY <3>2 DEF Create, Mkdir
      <4>2. CASE files' = files
        BY <3>1, <4>1, <4>2, PathKept DEF MakeEntry
      <4>3. CASE files' # files
        BY <3>1, <4>1, <4>3, EntryKeepsPath DEF MakeEntry, Refuse
      <4> QED BY <4>2, <4>3
    <3>3. ASSUME NEW n \in Names, NEW d \in Data, Write(n, d)
          PROVE  PathToRoot(A)'
      BY <3>1, <3>3, WriteKeepsPath
    <3>4. CASE ResumeWrite
      BY <3>1, <3>4, FindFile, WriteAtKeepsPath DEF ResumeWrite, WorkDirOK
    <3>5. ASSUME NEW n \in Names, Delete(n) PROVE PathToRoot(A)'
      BY <3>1, <3>5, DeleteKeepsPath
    <3>6. CASE CdRoot
      <4>1. IsRoot(files'[Root])
        BY <3>1, <3>6 DEF PathToRoot, CdRoot, IsRoot
      <4> QED BY <3>6, <4>1, BootPath DEF CdRoot, WorkDirOK
    <3>7. CASE CdUp
      BY <3>1, <3>7, CdUpPath DEF WorkDirOK
    <3>8. ASSUME NEW n \in Names, CdInto(n) PROVE WorkDirOK'
      BY <3>1, <3>8, CdIntoPath DEF WorkDirOK
    <3>9. CASE \/ Sync \/ RawTest \/ SaveStep \/ SaveError \/ LostWrite
               \/ UNCHANGED vars
      BY <3>1, <3>9, PathKept
      DEF vars, Sync, RawTest, SaveStep, SaveError, LostWrite, WorkDirOK
    <3>10. \/ WorkDirOK'
           \/ \E n \in Names : Create(n) \/ Mkdir(n) \/ Delete(n)
           \/ \E n \in Names, d \in Data : Write(n, d)
           \/ ResumeWrite
           \/ Sync \/ RawTest \/ SaveStep \/ SaveError \/ LostWrite
           \/ UNCHANGED vars
      BY <1>4, <3>6, <3>7, <3>8 DEF Next
    <3>11. WorkDirOK' \/ PathToRoot(A)'
      BY <3>2, <3>3, <3>4, <3>5, <3>9, <3>10
    <3> QED BY <3>11 DEF WorkDirOK
  <2> QED BY <2>2, <2>3
<1> QED BY <1>1, <1>2, <1>3, <1>4

\* Wherever the commands lead and whatever the disk does, the working
\* directory is reached from a live root through live directories, unless the
\* first save of a new disk was cut short: what diskfs_delete, diskfs_cd and
\* diskfs_init rely on without a check of their own.
THEOREM WorkDirAlwaysOK == Spec => []WorkDirOK
<1>1. Init => TypeOK /\ WorkDirOK
  BY InitTypeOK, InitWorkDirOK
<1>2. TypeOK /\ WorkDirOK /\ [Next]_vars => (TypeOK /\ WorkDirOK)'
  BY NextTypeOK, NextWorkDirOK
<1> QED BY <1>1, <1>2, PTL DEF Spec


-----------------------------------------------------------------------------
(* Saving.                                                                  *)

\* What the save in progress has already written is the table's.
Written ==
  \A s \in Slots :
    /\ saving > 2 * s + 1 => disk.head[s].name = files[s].name
    /\ saving > 2 * s + 2 => disk.head[s].bytes = files[s].bytes
    /\ saving > 2 * s + 3 => disk.tail[s] = TrailOf(files[s])

\* rawtest has written into the data of slot s.
Spoilt(s) == Had("rawTests") /\ s = RawSlot

\* What it has not written yet is as the last complete save left it.
Unwritten ==
  \A s \in Slots :
    /\ saving =< 2 * s + 1 =>
         /\ disk.head[s].name = lastSaved[s].name
         /\ disk.head[s].bytes = lastSaved[s].bytes \/ Spoilt(s)
    /\ saving = 2 * s + 2 /\ files[s].bytes = lastSaved[s].bytes =>
         disk.head[s].bytes = files[s].bytes \/ Spoilt(s)
    /\ saving =< 2 * s + 3 => disk.tail[s] = TrailOf(lastSaved[s])

\* A command changes one slot, and the name only of a slot that was free.
OneChange ==
  \E c \in Slots :
    /\ \A s \in Slots \ {c} : files[s] = lastSaved[s]
    /\ files[c].name = lastSaved[c].name \/ ~lastSaved[c].used

\* The inductive invariant behind SaveAtomic.
SaveInv ==
  /\ saving # Idle \/ lastSaved # NoTable => AtaPresent
  /\ \A k \in FaultKinds : budget[k] =< MaxFaults
  /\ saving # Idle /\ ~Had("lost") => (saving > 0 => disk.sb) /\ Written
  /\ lastSaved # NoTable /\ saving = Idle => files = lastSaved
  /\ lastSaved # NoTable /\ ~Had("lost") => disk.sb /\ Unwritten /\ OneChange

\* What was spent stays spent.
LEMMA Spending ==
  ASSUME TypeOK, SaveInv, NEW costs, Spend(costs) \/ UNCHANGED budget
  PROVE  /\ \A k \in FaultKinds : budget'[k] =< budget[k] /\ budget'[k] =< MaxFaults
         /\ \A k \in FaultKinds : Had(k) => Had(k)'
<1>1. \A k \in FaultKinds : budget[k] \in Nat /\ k \in Costs
  BY DEF TypeOK, Costs
<1>2. \A k \in FaultKinds : budget'[k] =< budget[k]
  BY <1>1, SMTT(60) DEF Spend
<1>3. \A k \in FaultKinds : budget'[k] \in Int
  BY <1>1, SMTT(60) DEF Spend
<1> QED BY <1>1, <1>2, <1>3, ConstantsAssumption, SMTT(60) DEF SaveInv, Had

\* A fault that is spent has happened.
LEMMA FaultHad ==
  ASSUME TypeOK, SaveInv, NEW costs, NEW k \in FaultKinds, k \in costs, Spend(costs)
  PROVE  Had(k)'
<1>1. k \in Costs
  BY DEF Costs
<1>2. budget[k] \in Nat /\ budget[k] =< MaxFaults
  BY <1>1 DEF TypeOK, SaveInv
<1>3. budget'[k] = budget[k] - 1
  BY <1>1 DEF Spend
<1> QED BY <1>2, <1>3, ConstantsAssumption, SMTT(60) DEF Had

\* Every step spends something or nothing.
LEMMA EachStepSpends ==
  ASSUME [Next]_vars
  PROVE  \E costs : Spend(costs) \/ UNCHANGED budget
BY DEF Next, vars, Create, Mkdir, MakeEntry, Write, ResumeWrite, Delete, CdRoot,
   CdUp, CdInto, Sync, RawTest, SaveStep, SaveError, LostWrite, BootLoaded,
   BootUnformatted, BootReadError, Restart

\* A table is not the empty sequence.
LEMMA TableIsOne ==
  ASSUME NEW t \in [Slots -> File] PROVE t # NoTable
<1>1. 0 \in DOMAIN t
  BY ConstantsAssumption, SMTT(60) DEF Slots
<1>2. 0 \notin DOMAIN NoTable
  BY SMTT(60) DEF NoTable
<1> QED BY <1>1, <1>2

\* A command that changes at most one slot, and the save that follows it.
LEMMA CommandKeeps ==
  ASSUME TypeOK, SaveInv, saving = Idle, NEW costs, Spend(costs) \/ UNCHANGED budget,
         UNCHANGED <<disk, lastSaved>>,
         \/ UNCHANGED <<files, saving>>
         \/ /\ StartSave
            /\ \E c \in Slots :
                 /\ \A s \in Slots \ {c} : files'[s] = files[s]
                 /\ files'[c].name = files[c].name \/ ~files[c].used
  PROVE  SaveInv'
<1>1. /\ \A k \in FaultKinds : budget'[k] =< MaxFaults
      /\ Had("lost") => Had("lost")'
      /\ Had("rawTests") => Had("rawTests")'
  BY Spending DEF FaultKinds
<1>2. CASE UNCHANGED <<files, saving>>
  BY <1>1, <1>2 DEF SaveInv, Written, Unwritten, OneChange, Spoilt, Idle
<1>3. CASE /\ StartSave
           /\ \E c \in Slots :
                 /\ \A s \in Slots \ {c} : files'[s] = files[s]
                 /\ files'[c].name = files[c].name \/ ~files[c].used
  <2>0. lastSaved # NoTable => AtaPresent /\ files = lastSaved
    BY DEF SaveInv
  <2>1. (saving' # Idle \/ lastSaved' # NoTable => AtaPresent)
    BY <1>3, <2>0 DEF StartSave
  <2>2. (saving' = Idle /\ ~AtaPresent) \/ (saving' = 0 /\ AtaPresent)
    BY <1>3 DEF StartSave
  <2>3. Written'
    BY <2>2, SMTT(60) DEF Written, Idle, Slots
  <2>4. ~(saving' > 0)
    BY <2>2, SMTT(60) DEF Idle
  <2>5. lastSaved' # NoTable => saving' # Idle
    BY <2>0, <2>2, SMTT(60) DEF Idle
  <2>6. ASSUME lastSaved' # NoTable, ~Had("lost")' PROVE disk'.sb /\ Unwritten' /\ OneChange'
    <3>1. disk.sb /\ Unwritten /\ files = lastSaved /\ saving' = 0
      BY <2>6, <1>1, <2>0, <2>2 DEF SaveInv
    <3>2. OneChange'
      BY <1>3, <3>1 DEF OneChange
    <3>3. Unwritten'
      BY <3>1, <1>1, SMTT(60) DEF Unwritten, Spoilt, Idle, Slots
    <3> QED BY <3>1, <3>2, <3>3
  <2> QED BY <1>1, <2>1, <2>3, <2>4, <2>5, <2>6 DEF SaveInv
<1> QED BY <1>2, <1>3

\* diskfs_create and diskfs_mkdir change a slot that was free.
LEMMA EntryChanges ==
  ASSUME TypeOK, NEW n, NEW isDir, find_free(files) # NoSlot,
         files' = Entry(files, find_free(files), n, isDir)
  PROVE  \E c \in Slots :
           /\ \A s \in Slots \ {c} : files'[s] = files[s]
           /\ files'[c].name = files[c].name \/ ~files[c].used
<1>1. PICK c \in Slots : c = find_free(files) /\ ~files[c].used
  BY FindFree
<1>2. \A s \in Slots \ {c} : files'[s] = files[s]
  BY <1>1 DEF Entry, TypeOK
<1> QED BY <1>1, <1>2

\* diskfs_write changes data and size of one slot.
LEMMA WriteAtChanges ==
  ASSUME TypeOK, NEW idx \in Slots \cup {NoSlot}, NEW n, NEW d, WriteAt(idx, n, d)
  PROVE  \/ UNCHANGED <<files, saving>>
         \/ /\ StartSave
            /\ \E c \in Slots :
                 /\ \A s \in Slots \ {c} : files'[s] = files[s]
                 /\ files'[c].name = files[c].name \/ ~files[c].used
<1>1. CASE SizeOf[d] > MaxFileSize
  BY <1>1 DEF WriteAt, Refuse
<1>2. CASE ~(SizeOf[d] > MaxFileSize) /\ idx = NoSlot
  <2>1. StartSave /\ files' = files /\ Root \in Slots
    BY <1>2, ConstantsAssumption, SMTT(60) DEF WriteAt, Root, Slots
  <2> QED BY <2>1
<1>3. CASE ~(SizeOf[d] > MaxFileSize) /\ idx # NoSlot
  <2>1. /\ StartSave /\ idx \in Slots
        /\ files' = [files EXCEPT ![idx].bytes = d, ![idx].size = SizeOf[d]]
    BY <1>3 DEF WriteAt
  <2>2. \A s \in Slots \ {idx} : files'[s] = files[s]
    BY <2>1 DEF TypeOK
  <2>3. files'[idx].name = files[idx].name
    BY <2>1, SMTT(60) DEF TypeOK, File
  <2> QED BY <2>1, <2>2, <2>3
<1> QED BY <1>1, <1>2, <1>3

\* diskfs_delete changes used of one slot.
LEMMA DeleteChanges ==
  ASSUME TypeOK, NEW n, Delete(n)
  PROVE  \/ UNCHANGED <<files, saving>>
         \/ /\ StartSave
            /\ \E c \in Slots :
                 /\ \A s \in Slots \ {c} : files'[s] = files[s]
                 /\ files'[c].name = files[c].name \/ ~files[c].used
<1>1. CASE find_file(files, n, current_dir) = NoSlot
  BY <1>1 DEF Delete, Refuse
<1>2. CASE find_file(files, n, current_dir) # NoSlot
  <2>1. PICK c \in Slots : c = find_file(files, n, current_dir)
    BY <1>2, FindFile
  <2>2. StartSave /\ files' = [files EXCEPT ![c].used = FALSE]
    BY <1>2, <2>1 DEF Delete
  <2>3. \A s \in Slots \ {c} : files'[s] = files[s]
    BY <2>2 DEF TypeOK
  <2>4. files'[c].name = files[c].name
    BY <2>2, SMTT(60) DEF TypeOK, File
  <2> QED BY <2>2, <2>3, <2>4
<1> QED BY <1>1, <1>2

\* All commands.
LEMMA CommandsKeep ==
  ASSUME TypeOK, SaveInv,
         \/ \E n \in Names : Create(n) \/ Mkdir(n) \/ Delete(n) \/ CdInto(n)
         \/ \E n \in Names, d \in Data : Write(n, d)
         \/ ResumeWrite \/ CdRoot \/ CdUp \/ Sync
  PROVE  SaveInv'
<1> DEFINE Changes == \/ UNCHANGED <<files, saving>>
                     \/ /\ StartSave
                        /\ \E c \in Slots :
                             /\ \A s \in Slots \ {c} : files'[s] = files[s]
                             /\ files'[c].name = files[c].name \/ ~files[c].used
<1>1. ASSUME NEW n \in Names, Create(n) \/ Mkdir(n) PROVE SaveInv'
  <2>1. PICK isDir : MakeEntry("create", n, isDir) \/ MakeEntry("mkdir", n, isDir)
    BY <1>1 DEF Create, Mkdir
  <2>2. Changes
    BY <2>1, EntryChanges DEF MakeEntry, Refuse
  <2>3. saving = Idle /\ Spend({"ops"}) /\ UNCHANGED <<disk, lastSaved>>
    BY <2>1 DEF MakeEntry, Ready
  <2> QED BY <2>2, <2>3, CommandKeeps
<1>2. ASSUME NEW n \in Names, NEW d \in Data, Write(n, d) PROVE SaveInv'
  <2>1. saving = Idle /\ Spend({"ops"}) /\ UNCHANGED <<disk, lastSaved>>
    BY <1>2 DEF Write, Ready
  <2>2. Changes
    <3>1. CASE find_file(files, n, current_dir) # NoSlot
      BY <1>2, <3>1, FindFile, WriteAtChanges DEF Write
    <3>2. CASE find_file(files, n, current_dir) = NoSlot
      BY <1>2, <3>2, EntryChanges DEF Write, Refuse
    <3> QED BY <3>1, <3>2
  <2> QED BY <2>1, <2>2, CommandKeeps
<1>3. CASE ResumeWrite
  <2>1. saving = Idle /\ UNCHANGED <<disk, lastSaved, budget>>
    BY <1>3 DEF ResumeWrite
  <2>2. find_file(files, pending.name, current_dir) \in Slots \cup {NoSlot}
    BY FindFile
  <2>3. Changes
    BY <1>3, <2>2, WriteAtChanges DEF ResumeWrite
  <2> QED BY <2>1, <2>3, CommandKeeps
<1>4. ASSUME NEW n \in Names, Delete(n) PROVE SaveInv'
  <2>1. saving = Idle /\ Spend({"ops"}) /\ UNCHANGED <<disk, lastSaved>>
    BY <1>4 DEF Delete, Ready
  <2>2. Changes
    BY <1>4, DeleteChanges
  <2> QED BY <2>1, <2>2, CommandKeeps
<1>5. CASE CdRoot \/ CdUp \/ \E n \in Names : CdInto(n)
  <2>1. saving = Idle /\ UNCHANGED <<disk, lastSaved, budget, files, saving>>
    BY <1>5 DEF CdRoot, CdUp, CdInto, Ready
  <2> QED BY <2>1, CommandKeeps
<1>6. CASE Sync
  <2>1. saving = Idle /\ Spend({"ops"}) /\ UNCHANGED <<disk, lastSaved, files>> /\ StartSave
    BY <1>6 DEF Sync, Ready
  <2>2. Root \in Slots
    BY ConstantsAssumption, SMTT(60) DEF Root, Slots
  <2> QED BY <2>1, <2>2, CommandKeeps
<1> QED BY <1>1, <1>2, <1>3, <1>4, <1>5, <1>6

\* A sector is written: what was written stays so, and what was not is either
\* written now or left alone.
LEMMA SaveStepKeeps ==
  ASSUME TypeOK, SaveInv, SaveStep
  PROVE  SaveInv'
<1>0. /\ saving \in 0..LastStep /\ LastStep = 2 * MaxFiles + 1 /\ MaxFiles \in Nat
      /\ \A s \in Slots : s \in Nat /\ s =< MaxFiles - 1
  BY ConstantsAssumption, SMTT(60) DEF TypeOK, SaveStep, Idle, LastStep, Slots
<1>1. /\ AtaPresent /\ (\A k \in FaultKinds : budget'[k] =< MaxFaults)
      /\ (Had("lost")' <=> Had("lost")) /\ (Had("rawTests")' <=> Had("rawTests"))
      /\ files' = files
  BY DEF SaveInv, SaveStep, Had
<1>2. ASSUME NEW s \in Slots
      PROVE  /\ saving = 2 * s + 1 =>
                  /\ disk'.head[s].name = files[s].name
                  /\ files[s].bytes = disk.head[s].bytes => disk'.head[s].bytes = files[s].bytes
             /\ saving = 2 * s + 2 =>
                  disk'.head[s].name = disk.head[s].name /\ disk'.head[s].bytes = files[s].bytes
             /\ saving # 2 * s + 1 /\ saving # 2 * s + 2 => disk'.head[s] = disk.head[s]
             /\ disk'.tail[s] = IF saving = 2 * s + 3 THEN TrailOf(files[s]) ELSE disk.tail[s]
  <2>1. saving = 2 * s + 2 => saving # 2 * s + 1
    BY <1>0, SMTT(60)
  <2>2. /\ disk'.head[s] =
             IF saving = 2 * s + 1
             THEN [name  |-> files[s].name,
                   bytes |-> IF files[s].bytes = disk.head[s].bytes
                             THEN files[s].bytes ELSE Torn]
             ELSE IF saving = 2 * s + 2
             THEN [name |-> disk.head[s].name, bytes |-> files[s].bytes]
             ELSE disk.head[s]
        /\ disk'.tail[s] = IF saving = 2 * s + 3 THEN TrailOf(files[s]) ELSE disk.tail[s]
    BY DEF SaveStep, WriteStep
  <2>3. CASE saving = 2 * s + 1
    BY <2>1, <2>2, <2>3, SMTT(60)
  <2>4. CASE saving = 2 * s + 2
    BY <2>1, <2>2, <2>4, SMTT(60)
  <2>5. CASE saving # 2 * s + 1 /\ saving # 2 * s + 2
    BY <2>2, <2>5
  <2> QED BY <2>3, <2>4, <2>5
<1>3. disk'.sb = (disk.sb \/ saving = 0)
  BY DEF SaveStep, WriteStep
<1>4. CASE saving = LastStep
  <2>1. saving' = Idle /\ lastSaved' = files
    BY <1>4 DEF SaveStep, Advance
  <2>2. ASSUME ~Had("lost") PROVE disk'.sb /\ Unwritten' /\ OneChange'
    <3>1. disk.sb /\ Written
      BY <2>2, <1>0, <1>4, SMTT(60) DEF SaveInv, SaveStep
    <3>2. \A s \in Slots : /\ disk'.head[s].name = files[s].name
                           /\ disk'.head[s].bytes = files[s].bytes
                           /\ disk'.tail[s] = TrailOf(files[s])
      <4> SUFFICES ASSUME NEW s \in Slots
                   PROVE  /\ disk'.head[s].name = files[s].name
                          /\ disk'.head[s].bytes = files[s].bytes
                          /\ disk'.tail[s] = TrailOf(files[s])
        OBVIOUS
      <4>1. /\ saving > 2 * s + 2 /\ saving # 2 * s + 2 /\ saving > 2 * s + 1 /\ saving # 2 * s + 1
            /\ saving = 2 * s + 3 \/ saving > 2 * s + 3
        BY <1>0, <1>4, SMTT(60)
      <4>2. disk.head[s].name = files[s].name /\ disk.head[s].bytes = files[s].bytes
        BY <3>1, <4>1 DEF Written
      <4>3. disk'.head[s] = disk.head[s]
        BY <1>2, <4>1
      <4>4. disk'.tail[s] = TrailOf(files[s])
        BY <1>2, <3>1, <4>1 DEF Written
      <4> QED BY <4>2, <4>3, <4>4
    <3>3. Unwritten'
      BY <3>2, <2>1, <1>1 DEF Unwritten
    <3>4. OneChange'
      BY <2>1, <1>1, ConstantsAssumption DEF OneChange, Slots
    <3> QED BY <3>1, <3>3, <3>4, <1>3
  <2> QED BY <1>1, <2>1, <2>2 DEF SaveInv
<1>5. CASE saving # LastStep
  <2>1. saving' = saving + 1 /\ lastSaved' = lastSaved
    BY <1>5 DEF SaveStep, Advance
  <2>2. saving' # Idle /\ saving # Idle
    BY <2>1, <1>0, SMTT(60) DEF Idle
  <2>3. ASSUME ~Had("lost") PROVE disk'.sb /\ Written'
    <3>1. Written /\ (saving > 0 => disk.sb)
      BY <2>2, <2>3 DEF SaveInv
    <3>2. disk'.sb
      <4>1. saving = 0 \/ saving > 0
        BY <1>0, SMTT(60)
      <4> QED BY <3>1, <4>1, <1>3
    <3>3. ASSUME NEW s \in Slots
          PROVE  /\ saving + 1 > 2 * s + 1 => disk'.head[s].name = files[s].name
                 /\ saving + 1 > 2 * s + 2 => disk'.head[s].bytes = files[s].bytes
                 /\ saving + 1 > 2 * s + 3 => disk'.tail[s] = TrailOf(files[s])
      <4>1. /\ saving > 2 * s + 1 => disk.head[s].name = files[s].name
            /\ saving > 2 * s + 2 => disk.head[s].bytes = files[s].bytes
            /\ saving > 2 * s + 3 => disk.tail[s] = TrailOf(files[s])
        BY <3>1 DEF Written
      <4>2. /\ saving + 1 > 2 * s + 1 => saving > 2 * s + 1 \/ saving = 2 * s + 1
            /\ saving + 1 > 2 * s + 2 => saving > 2 * s + 2 \/ saving = 2 * s + 2
            /\ saving + 1 > 2 * s + 3 => saving > 2 * s + 3 \/ saving = 2 * s + 3
            /\ saving > 2 * s + 1 => saving # 2 * s + 1
            /\ saving > 2 * s + 2 => saving # 2 * s + 2 /\ saving # 2 * s + 1
        BY <1>0, SMTT(60)
      <4>3. saving + 1 > 2 * s + 1 => disk'.head[s].name = files[s].name
        BY <4>1, <4>2, <1>2
      <4>4. saving + 1 > 2 * s + 2 => disk'.head[s].bytes = files[s].bytes
        BY <4>1, <4>2, <1>2
      <4>5. saving + 1 > 2 * s + 3 => disk'.tail[s] = TrailOf(files[s])
        BY <4>1, <4>2, <1>2
      <4> QED BY <4>3, <4>4, <4>5
    <3> QED BY <3>2, <3>3, <2>1, <1>1 DEF Written
  <2>4. ASSUME ~Had("lost"), lastSaved # NoTable PROVE Unwritten' /\ OneChange'
    <3>1. Unwritten /\ OneChange
      BY <2>4 DEF SaveInv
    <3>2. ASSUME NEW s \in Slots
          PROVE  /\ saving + 1 =< 2 * s + 1 =>
                      /\ disk'.head[s].name = lastSaved[s].name
                      /\ disk'.head[s].bytes = lastSaved[s].bytes \/ Spoilt(s)
                 /\ saving + 1 = 2 * s + 2 /\ files[s].bytes = lastSaved[s].bytes =>
                      disk'.head[s].bytes = files[s].bytes \/ Spoilt(s)
                 /\ saving + 1 =< 2 * s + 3 => disk'.tail[s] = TrailOf(lastSaved[s])
      <4>1. /\ saving =< 2 * s + 1 =>
                 /\ disk.head[s].name = lastSaved[s].name
                 /\ disk.head[s].bytes = lastSaved[s].bytes \/ Spoilt(s)
            /\ saving =< 2 * s + 3 => disk.tail[s] = TrailOf(lastSaved[s])
        BY <3>1 DEF Unwritten
      <4>2. /\ saving + 1 =< 2 * s + 1 =>
                 saving =< 2 * s + 1 /\ saving # 2 * s + 1 /\ saving # 2 * s + 2
            /\ saving + 1 = 2 * s + 2 => saving = 2 * s + 1 /\ saving =< 2 * s + 1
            /\ saving + 1 =< 2 * s + 3 => saving =< 2 * s + 3 /\ saving # 2 * s + 3
        BY <1>0, SMTT(60)
      <4>3. saving + 1 =< 2 * s + 1 =>
              /\ disk'.head[s].name = lastSaved[s].name
              /\ disk'.head[s].bytes = lastSaved[s].bytes \/ Spoilt(s)
        BY <4>1, <4>2, <1>2
      <4>4. saving + 1 = 2 * s + 2 /\ files[s].bytes = lastSaved[s].bytes =>
              disk'.head[s].bytes = files[s].bytes \/ Spoilt(s)
        BY <4>1, <4>2, <1>2
      <4>5. saving + 1 =< 2 * s + 3 => disk'.tail[s] = TrailOf(lastSaved[s])
        BY <4>1, <4>2, <1>2
      <4> QED BY <4>3, <4>4, <4>5
    <3>3. \A s \in Slots : Spoilt(s)' <=> Spoilt(s)
      BY <1>1 DEF Spoilt
    <3>4. Unwritten'
      BY <3>2, <3>3, <2>1, <1>1 DEF Unwritten
    <3>5. OneChange'
      BY <3>1, <2>1, <1>1 DEF OneChange
    <3> QED BY <3>4, <3>5
  <2> QED BY <1>1, <2>1, <2>2, <2>3, <2>4 DEF SaveInv
<1> QED BY <1>4, <1>5

\* rawtest, a write refused and a write lost.
LEMMA FaultsKeep ==
  ASSUME TypeOK, SaveInv, RawTest \/ SaveError \/ LostWrite
  PROVE  SaveInv'
<1>1. CASE RawTest
  <2>1. /\ \A k \in FaultKinds : budget'[k] =< MaxFaults
        /\ Had("lost") => Had("lost")'
    BY <1>1, Spending DEF RawTest, FaultKinds
  <2>2. Had("rawTests")'
    BY <1>1, FaultHad DEF RawTest, FaultKinds
  <2>3. saving = Idle /\ UNCHANGED <<saving, files, lastSaved>>
    BY <1>1 DEF RawTest, Ready
  <2>4. /\ disk'.sb = disk.sb /\ disk'.tail = disk.tail
        /\ \A s \in Slots : /\ disk'.head[s].name = disk.head[s].name
                            /\ s # RawSlot => disk'.head[s].bytes = disk.head[s].bytes
    <3>1. disk' = [disk EXCEPT !.head = [disk.head EXCEPT ![RawSlot].bytes = Pattern]]
      BY <1>1 DEF RawTest, TypeOK
    <3>2. disk'.sb = disk.sb /\ disk'.tail = disk.tail
      BY <3>1 DEF TypeOK
    <3>3. disk'.head = [disk.head EXCEPT ![RawSlot].bytes = Pattern]
      BY <3>1 DEF TypeOK
    <3> QED BY <3>2, <3>3, SMTT(60) DEF TypeOK, LeadPart
  <2>5. ASSUME lastSaved # NoTable, ~Had("lost") PROVE disk'.sb /\ Unwritten' /\ OneChange'
    <3>1. disk.sb /\ Unwritten /\ OneChange
      BY <2>5 DEF SaveInv
    <3>2. OneChange'
      BY <3>1, <2>3 DEF OneChange
    <3>3. ASSUME NEW s \in Slots
          PROVE  saving =< 2 * s + 1 /\ saving =< 2 * s + 3 /\ saving # 2 * s + 2
      BY <2>3, ConstantsAssumption, SMTT(60) DEF Idle, Slots
    <3>4. \A s \in Slots : /\ disk.head[s].name = lastSaved[s].name
                           /\ disk.head[s].bytes = lastSaved[s].bytes \/ Spoilt(s)
                           /\ disk.tail[s] = TrailOf(lastSaved[s])
      BY <3>1, <3>3 DEF Unwritten
    <3>5. saving' = saving /\ files' = files /\ lastSaved' = lastSaved
      BY <2>3
    <3>6. \A s \in Slots : /\ disk'.head[s].name = lastSaved'[s].name
                           /\ disk'.head[s].bytes = lastSaved'[s].bytes \/ Spoilt(s)'
                           /\ disk'.tail[s] = TrailOf(lastSaved[s])'
      BY <3>4, <3>5, <2>2, <2>4 DEF Spoilt, TrailOf
    <3>7. \A s \in Slots : saving' # 2 * s + 2
      BY <3>3, <3>5
    <3>8. Unwritten'
      BY <3>6, <3>7 DEF Unwritten
    <3> QED BY <3>1, <3>2, <3>8, <2>4
  <2> QED BY <2>1, <2>3, <2>5 DEF SaveInv
<1>2. CASE SaveError
  <2>1. \A k \in FaultKinds : budget'[k] =< MaxFaults
    BY <1>2, Spending DEF SaveError
  <2> QED BY <1>2, <2>1 DEF SaveError, SaveInv
<1>3. CASE LostWrite
  <2>1. \A k \in FaultKinds : budget'[k] =< MaxFaults
    BY <1>3, Spending DEF LostWrite
  <2>2. Had("lost")'
    BY <1>3, FaultHad DEF LostWrite, FaultKinds
  <2>3. AtaPresent /\ files' = files
    BY <1>3 DEF SaveInv, LostWrite
  <2>4. CASE saving = LastStep
    <3>1. lastSaved' = files
      BY <1>3, <2>4 DEF LostWrite, Advance
    <3> QED BY <2>1, <2>2, <2>3, <3>1 DEF SaveInv
  <2>5. CASE saving # LastStep
    <3>1. saving' = saving + 1 /\ saving \in 0..LastStep
      BY <1>3, <2>5 DEF LostWrite, Advance, TypeOK
    <3>2. saving' # Idle
      BY <3>1, SMTT(60) DEF Idle
    <3> QED BY <2>1, <2>2, <2>3, <3>2 DEF SaveInv
  <2> QED BY <2>4, <2>5
<1> QED BY <1>1, <1>2, <1>3

\* A boot takes the disk as it is, or begins anew.
LEMMA BootKeeps ==
  ASSUME TypeOK, SaveInv, BootLoaded \/ BootUnformatted \/ \E r \in 0..LastStep : BootReadError(r)
  PROVE  SaveInv'
<1>1. \A k \in FaultKinds : budget'[k] =< MaxFaults
  BY Spending DEF BootLoaded, BootUnformatted, BootReadError, Restart
<1>2. CASE BootLoaded
  <2>1. /\ AtaPresent /\ disk.sb /\ disk' = disk /\ saving' = Idle
        /\ files' = TableOn(disk) /\ lastSaved' = TableOn(disk)
    BY <1>2 DEF BootLoaded, Restart
  <2>2. \A s \in Slots : /\ disk.head[s].name = TableOn(disk)[s].name
                         /\ disk.head[s].bytes = TableOn(disk)[s].bytes
                         /\ disk.tail[s] = TrailOf(TableOn(disk)[s])
    <3>1. \A s \in Slots : disk.tail[s] \in TrailPart
      BY DEF TypeOK
    <3> QED BY <3>1 DEF TableOn, TrailOf, TrailPart
  <2>3. Unwritten'
    BY <2>1, <2>2 DEF Unwritten
  <2>4. OneChange'
    BY <2>1, ConstantsAssumption DEF OneChange, Slots
  <2> QED BY <1>1, <2>1, <2>3, <2>4 DEF SaveInv
<1>3. CASE BootUnformatted \/ \E r \in 0..LastStep : BootReadError(r)
  <2>1. StartSave /\ lastSaved' = NoTable
    BY <1>3 DEF BootUnformatted, BootReadError, Format
  <2>2. saving' = Idle \/ (saving' = 0 /\ AtaPresent)
    BY <2>1 DEF StartSave
  <2>3. Written' /\ ~(saving' > 0)
    BY <2>2, SMTT(60) DEF Written, Idle, Slots
  <2> QED BY <1>1, <2>1, <2>2, <2>3 DEF SaveInv
<1> QED BY <1>2, <1>3

\* Every step keeps what the save relies on.
LEMMA NextSaveInv == TypeOK /\ SaveInv /\ [Next]_vars => SaveInv'
<1> SUFFICES ASSUME TypeOK, SaveInv, [Next]_vars PROVE SaveInv'
  OBVIOUS
<1>1. CASE UNCHANGED vars
  BY <1>1 DEF vars, SaveInv, Written, Unwritten, OneChange, Spoilt, Had
<1> QED BY <1>1, CommandsKeep, SaveStepKeeps, FaultsKeep, BootKeeps DEF Next

\* The first save begins with the first boot.
LEMMA InitSaveInv == Init => SaveInv
<1> SUFFICES ASSUME Init PROVE SaveInv
  OBVIOUS
<1>1. \A k \in FaultKinds : budget[k] = MaxFaults
  BY DEF Init, FaultKinds, Costs
<1>2. saving = Idle \/ (saving = 0 /\ AtaPresent)
  BY DEF Init
<1>3. Written /\ ~(saving > 0)
  BY <1>2, SMTT(60) DEF Written, Idle, Slots
<1>4. lastSaved = NoTable
  BY DEF Init
<1>5. \A k \in FaultKinds : budget[k] =< MaxFaults
  BY <1>1, ConstantsAssumption, SMTT(60)
<1> QED BY <1>2, <1>3, <1>4, <1>5 DEF SaveInv

\* Tables that agree on the fields of the entries in use have the same tree.
LEMMA SameTree ==
  ASSUME NEW t, NEW u,
         \A s \in Slots : /\ t[s].used <=> u[s].used
                          /\ t[s].used => /\ t[s].name = u[s].name
                                          /\ t[s].is_dir = u[s].is_dir
                                          /\ t[s].parent = u[s].parent
  PROVE  TreeOf(t) = TreeOf(u)
<1>1. {s \in Slots : t[s].used} = {s \in Slots : u[s].used}
  OBVIOUS
<1>2. \A s \in {v \in Slots : u[v].used} :
        <<s, t[s].name, t[s].is_dir, t[s].parent>>
          = <<s, u[s].name, u[s].is_dir, u[s].parent>>
  OBVIOUS
<1> QED BY <1>1, <1>2 DEF TreeOf

\* What the disk holds of a slot is the table's or the last save's, part by
\* part, as the save gets to it.
LEMMA OnDisk ==
  ASSUME TypeOK, SaveInv, lastSaved # NoTable, ~Had("lost"), NEW s \in Slots
  PROVE  /\ saving > 2 * s + 1 => disk.head[s].name = files[s].name
         /\ ~(saving > 2 * s + 1) => disk.head[s].name = lastSaved[s].name
         /\ saving > 2 * s + 3 => disk.tail[s] = TrailOf(files[s])
         /\ ~(saving > 2 * s + 3) => disk.tail[s] = TrailOf(lastSaved[s])
         /\ files[s].bytes = lastSaved[s].bytes /\ ~Spoilt(s) =>
              disk.head[s].bytes = files[s].bytes
<1>1. saving \in Int /\ s \in Nat
  BY ConstantsAssumption, SMTT(60) DEF TypeOK, Idle, LastStep, Slots
<1>2. Unwritten
  BY DEF SaveInv
<1>3. saving # Idle => Written
  BY DEF SaveInv
<1>4. /\ saving > 2 * s + 1 => saving # Idle
      /\ saving > 2 * s + 2 => saving # Idle
      /\ saving > 2 * s + 3 => saving # Idle
      /\ ~(saving > 2 * s + 1) => saving =< 2 * s + 1
      /\ ~(saving > 2 * s + 3) => saving =< 2 * s + 3
      /\ saving =< 2 * s + 1 \/ saving = 2 * s + 2 \/ saving > 2 * s + 2
  BY <1>1, SMTT(60) DEF Idle
<1>5. /\ saving > 2 * s + 1 => disk.head[s].name = files[s].name
      /\ saving > 2 * s + 2 => disk.head[s].bytes = files[s].bytes
      /\ saving > 2 * s + 3 => disk.tail[s] = TrailOf(files[s])
  BY <1>3, <1>4 DEF Written
<1>6. /\ saving =< 2 * s + 1 =>
           /\ disk.head[s].name = lastSaved[s].name
           /\ disk.head[s].bytes = lastSaved[s].bytes \/ Spoilt(s)
      /\ saving = 2 * s + 2 /\ files[s].bytes = lastSaved[s].bytes =>
           disk.head[s].bytes = files[s].bytes \/ Spoilt(s)
      /\ saving =< 2 * s + 3 => disk.tail[s] = TrailOf(lastSaved[s])
  BY <1>2 DEF Unwritten
<1> QED BY <1>4, <1>5, <1>6

\* The tree on disk turns from the old one to the new one with the sector that
\* holds the trailing fields of the changed slot.
LEMMA TreeIsAtomic == TypeOK /\ SaveInv => TreeAtomic
<1> SUFFICES ASSUME TypeOK, SaveInv, lastSaved # NoTable, ~Had("lost")
             PROVE  \/ TreeOf(TableOn(disk)) = TreeOf(lastSaved)
                    \/ TreeOf(TableOn(disk)) = TreeOf(files)
  BY DEF TreeAtomic
<1>1. PICK c \in Slots :
        /\ \A s \in Slots \ {c} : files[s] = lastSaved[s]
        /\ files[c].name = lastSaved[c].name \/ ~lastSaved[c].used
  BY DEF SaveInv, OneChange
<1>2. \A s \in Slots : /\ TableOn(disk)[s].name = disk.head[s].name
                       /\ TableOn(disk)[s].used = disk.tail[s].used
                       /\ TableOn(disk)[s].is_dir = disk.tail[s].is_dir
                       /\ TableOn(disk)[s].parent = disk.tail[s].parent
  BY DEF TableOn
<1>3. \A f : TrailOf(f).used = f.used /\ TrailOf(f).is_dir = f.is_dir
             /\ TrailOf(f).parent = f.parent
  BY DEF TrailOf
<1>4. \A s \in Slots \ {c} : disk.head[s].name = files[s].name /\ disk.tail[s] = TrailOf(files[s])
  BY <1>1, OnDisk
<1>5. CASE saving > 2 * c + 3
  <2>1. saving > 2 * c + 1
    BY <1>5, ConstantsAssumption, SMTT(60) DEF TypeOK, Idle, LastStep, Slots
  <2>2. \A s \in Slots : disk.head[s].name = files[s].name /\ disk.tail[s] = TrailOf(files[s])
    BY <1>4, <1>5, <2>1, OnDisk
  <2>3. \A s \in Slots : /\ TableOn(disk)[s].used <=> files[s].used
                         /\ TableOn(disk)[s].used =>
                              /\ TableOn(disk)[s].name = files[s].name
                              /\ TableOn(disk)[s].is_dir = files[s].is_dir
                              /\ TableOn(disk)[s].parent = files[s].parent
    BY <1>2, <1>3, <2>2, SMTT(60)
  <2> QED BY <2>3, SameTree
<1>6. CASE ~(saving > 2 * c + 3)
  <2>1. disk.tail[c] = TrailOf(lastSaved[c])
    BY <1>6, OnDisk
  <2>2. lastSaved[c].used => disk.head[c].name = lastSaved[c].name
    BY <1>1, OnDisk
  <2>3. \A s \in Slots : /\ disk.tail[s] = TrailOf(lastSaved[s])
                         /\ lastSaved[s].used => disk.head[s].name = lastSaved[s].name
    BY <1>1, <1>4, <2>1, <2>2
  <2>4. \A s \in Slots : /\ TableOn(disk)[s].used <=> lastSaved[s].used
                         /\ TableOn(disk)[s].used =>
                              /\ TableOn(disk)[s].name = lastSaved[s].name
                              /\ TableOn(disk)[s].is_dir = lastSaved[s].is_dir
                              /\ TableOn(disk)[s].parent = lastSaved[s].parent
    BY <1>2, <1>3, <2>3, SMTT(60)
  <2> QED BY <2>4, SameTree
<1> QED BY <1>5, <1>6

\* A slot the command left alone is on disk what it is in RAM.
LEMMA OthersAreIntact == TypeOK /\ SaveInv => OtherFilesIntact
<1> SUFFICES ASSUME TypeOK, SaveInv, lastSaved # NoTable, ~Had("lost"),
                    NEW s \in Slots, files[s] = lastSaved[s],
                    Had("rawTests") => s # RawSlot
             PROVE  TableOn(disk)[s] = files[s]
  BY DEF OtherFilesIntact
<1>1. ~Spoilt(s)
  BY DEF Spoilt
<1>2. disk.head[s].name = files[s].name /\ disk.head[s].bytes = files[s].bytes
      /\ disk.tail[s] = TrailOf(files[s])
  BY <1>1, OnDisk
<1>3. files[s] = [name |-> files[s].name, bytes |-> files[s].bytes,
                  size |-> files[s].size, used |-> files[s].used,
                  is_dir |-> files[s].is_dir, parent |-> files[s].parent]
  BY DEF TypeOK, File
<1>4. /\ disk.tail[s].size = files[s].size /\ disk.tail[s].used = files[s].used
      /\ disk.tail[s].is_dir = files[s].is_dir
      /\ disk.tail[s].parent = files[s].parent
  BY <1>2, SMTT(60) DEF TrailOf
<1>5. TableOn(disk)[s] =
        [name |-> disk.head[s].name, bytes |-> disk.head[s].bytes,
         size |-> disk.tail[s].size, used |-> disk.tail[s].used,
         is_dir |-> disk.tail[s].is_dir, parent |-> disk.tail[s].parent]
  BY DEF TableOn
<1> QED BY <1>2, <1>3, <1>4, <1>5

\* Both together, and the table once it is saved.
LEMMA SaveInvImplies == TypeOK /\ SaveInv => SaveAtomic
<1> SUFFICES ASSUME TypeOK, SaveInv PROVE SavedMeansOnDisk
  BY TreeIsAtomic, OthersAreIntact DEF SaveAtomic
<1> SUFFICES ASSUME lastSaved = files, ~Had("lost"), ~Had("rawTests")
             PROVE  disk.sb /\ TableOn(disk) = files
  BY DEF SavedMeansOnDisk
<1>1. lastSaved # NoTable
  BY TableIsOne DEF TypeOK
<1>2. \A s \in Slots : TableOn(disk)[s] = files[s]
  BY <1>1, OthersAreIntact DEF OtherFilesIntact
<1>3. TableOn(disk) = files
  BY <1>2 DEF TypeOK, TableOn
<1> QED BY <1>1, <1>3 DEF SaveInv

\* diskfs_save, sector by sector, is atomic for the directory tree, harms no
\* file the command did not touch, and leaves the whole table on the disk when
\* it says so: for every number of slots, commands, crashes and faults.
THEOREM SaveAlwaysAtomic == Spec => []SaveAtomic
<1>1. Init => TypeOK /\ SaveInv
  BY InitTypeOK, InitSaveInv
<1>2. TypeOK /\ SaveInv /\ [Next]_vars => (TypeOK /\ SaveInv)'
  BY NextTypeOK, NextSaveInv
<1> QED BY <1>1, <1>2, SaveInvImplies, PTL DEF Spec

\* From a saved table, a boot that can read every sector loads that table.
LEMMA BootFindsSaved ==
  ASSUME TypeOK, SaveInv, [Next]_vars,
         budget'.crashes < budget.crashes, Ready, lastSaved = files,
         ~Had("lost"), ~Had("rawTests"), budget'.readErrors = budget.readErrors
  PROVE  UsedFiles(files') = UsedFiles(files)
<1>1. lastSaved # NoTable
  BY TableIsOne DEF TypeOK
<1>2. AtaPresent /\ disk.sb /\ TableOn(disk) = files
  BY <1>1, SaveInvImplies DEF SaveInv, SaveAtomic, SavedMeansOnDisk
<1>3. "crashes" \in Costs /\ "readErrors" \in Costs /\ "crashes" \notin {"ops"}
      /\ budget["crashes"] \in Nat /\ budget["readErrors"] \in Nat
  BY DEF TypeOK, Costs, FaultKinds
<1>4. ASSUME NEW costs, Spend(costs) PROVE "crashes" \in costs /\ "readErrors" \notin costs
  BY <1>3, <1>4, SMTT(60) DEF Spend
<1>5. ~BootUnformatted /\ \A r \in 0..LastStep : ~BootReadError(r)
  BY <1>2, <1>4 DEF BootUnformatted, BootReadError, Restart
<1>6. /\ \A n \in Names : ~Create(n) /\ ~Mkdir(n) /\ ~Delete(n)
      /\ \A n \in Names, d \in Data : ~Write(n, d)
      /\ ~Sync /\ ~RawTest
  <2>1. ~Spend({"ops"}) /\ ~Spend({"faults", "rawTests"})
    <3>1. "crashes" \notin {"ops"} /\ "crashes" \notin {"faults", "rawTests"}
      OBVIOUS
    <3> QED BY <1>4, <3>1
  <2> QED BY <2>1 DEF Create, Mkdir, MakeEntry, Delete, Write, Sync, RawTest
<1>7. ~SaveStep /\ ~SaveError /\ ~LostWrite /\ ~ResumeWrite
  BY DEF Ready, SaveStep, SaveError, LostWrite, ResumeWrite
<1>8. budget' # budget
  BY <1>3, SMTT(60)
<1>9. /\ ~CdRoot /\ ~CdUp /\ ~UNCHANGED vars
      /\ \A n \in Names : ~CdInto(n)
  BY <1>8 DEF CdRoot, CdUp, CdInto, vars
<1>10. BootLoaded
  BY <1>5, <1>6, <1>7, <1>9 DEF Next
<1> QED BY <1>2, <1>10 DEF BootLoaded

\* What diskfs_save wrote to the end is what the next boot's diskfs_load finds.
THEOREM SavedAlwaysSurvives == Spec => SavedSurvivesReboot
<1>1. Init => TypeOK /\ SaveInv
  BY InitTypeOK, InitSaveInv
<1>2. TypeOK /\ SaveInv /\ [Next]_vars => (TypeOK /\ SaveInv)'
  BY NextTypeOK, NextSaveInv
<1>3. TypeOK /\ SaveInv /\ [Next]_vars =>
        [/\ budget'.crashes < budget.crashes
         /\ Ready /\ lastSaved = files
         /\ ~(Had("lost") \/ Had("rawTests")) /\ budget'.readErrors = budget.readErrors
         => UsedFiles(files') = UsedFiles(files)]_vars
  BY BootFindsSaved
<1> QED BY <1>1, <1>2, <1>3, PTL DEF Spec, SavedSurvivesReboot

\* The inductive invariant behind FormatSafe: once a save is complete, the
\* disk keeps a root.
RootInv ==
  everSaved /\ ~Had("lost") /\ ~tornFormat => IsRoot(disk.tail[Root])

\* A save writes a root: the table in RAM has one.
LEMMA SaveWritesRoot ==
  ASSUME TypeOK, WorkDirOK, SaveInv, RootInv, SaveStep
  PROVE  RootInv'
<1> SUFFICES ASSUME everSaved', ~Had("lost")', ~tornFormat'
             PROVE  IsRoot(disk.tail[Root])'
  BY DEF RootInv
<1>1. ~Had("lost") /\ ~tornFormat
  BY DEF SaveStep, Had
<1>2. Root \in Slots
  BY ConstantsAssumption, SMTT(60) DEF Root, Slots
<1>3. IsRoot(TrailOf(files[Root]))
  BY <1>1 DEF WorkDirOK, PathToRoot, IsRoot, TrailOf
<1>4. disk'.tail[Root] = IF saving = 3 THEN TrailOf(files[Root]) ELSE disk.tail[Root]
  BY <1>2, SMTT(60) DEF SaveStep, WriteStep, Root
<1>5. CASE everSaved
  BY <1>1, <1>3, <1>4, <1>5 DEF RootInv, IsRoot
<1>6. CASE ~everSaved
  <2>1. saving = LastStep
    BY <1>6 DEF SaveStep, Advance
  <2>2. saving = 3 \/ saving > 2 * Root + 3
    BY <2>1, ConstantsAssumption, SMTT(60) DEF LastStep, Root
  <2>3. Written
    BY <1>1 DEF SaveInv, SaveStep
  <2>4. saving > 2 * Root + 3 => disk.tail[Root] = TrailOf(files[Root])
    BY <1>2, <2>3 DEF Written
  <2> QED BY <1>3, <1>4, <2>2, <2>4 DEF IsRoot
<1> QED BY <1>5, <1>6

\* Nothing else writes the trailing fields of the root.
LEMMA NextRootInv ==
  TypeOK /\ WorkDirOK /\ SaveInv /\ RootInv /\ [Next]_vars => RootInv'
<1> SUFFICES ASSUME TypeOK, WorkDirOK, SaveInv, RootInv, [Next]_vars PROVE RootInv'
  OBVIOUS
<1>1. CASE SaveStep
  BY <1>1, SaveWritesRoot
<1>2. CASE LostWrite
  <2>1. Had("lost")'
    BY <1>2, FaultHad DEF LostWrite, FaultKinds
  <2> QED BY <2>1 DEF RootInv
<1>3. CASE ~(SaveStep \/ LostWrite)
  <2>1. everSaved' = everSaved /\ disk'.tail = disk.tail
    <3>1. CASE RawTest
      BY <3>1 DEF RawTest, history, TypeOK
    <3>2. CASE BootLoaded \/ BootUnformatted \/ \E r \in 0..LastStep : BootReadError(r)
      BY <3>2 DEF BootLoaded, BootUnformatted, BootReadError, Restart
    <3>3. CASE ~(RawTest \/ BootLoaded \/ BootUnformatted
                 \/ \E r \in 0..LastStep : BootReadError(r))
      BY <1>3, <3>3 DEF Next, vars, history, Create, Mkdir, MakeEntry, Write,
         ResumeWrite, Delete, CdRoot, CdUp, CdInto, Sync, SaveError
    <3> QED BY <3>1, <3>2, <3>3
  <2>2. Had("lost") => Had("lost")'
    BY EachStepSpends, Spending DEF FaultKinds
  <2>3. tornFormat => tornFormat'
    BY <1>3 DEF Next, vars, history, Create, Mkdir, MakeEntry, Write,
       ResumeWrite, Delete, CdRoot, CdUp, CdInto, Sync, RawTest, SaveError,
       BootLoaded, BootUnformatted, BootReadError, Restart, Format
  <2> QED BY <2>1, <2>2, <2>3 DEF RootInv, IsRoot
<1> QED BY <1>1, <1>2, <1>3

\* With a root on the disk, no step finds a disk without one.
LEMMA FormatStaysSafe ==
  ASSUME TypeOK, RootInv, [Next]_vars, everSaved, ~Had("lost")
  PROVE  tornFormat' = tornFormat
<1>1. CASE BootLoaded
  <2>1. tornFormat' = (tornFormat \/ ~IsRoot(disk.tail[Root])) /\ tornFormat \in BOOLEAN
    BY <1>1 DEF BootLoaded, TypeOK
  <2>2. ~tornFormat => IsRoot(disk.tail[Root])
    BY DEF RootInv
  <2> QED BY <2>1, <2>2
<1>2. CASE ~BootLoaded
  BY <1>2 DEF Next, vars, history, Create, Mkdir, MakeEntry, Write,
     ResumeWrite, Delete, CdRoot, CdUp, CdInto, Sync, RawTest, SaveError,
     SaveStep, LostWrite, BootUnformatted, BootReadError, Restart, Format
<1> QED BY <1>1, <1>2

\* Only the very first save of a disk can be cut short so that diskfs_load
\* accepts a file system without a root: after a complete one, no crash at any
\* sector of any later save does.
THEOREM FormatAlwaysSafe == Spec => FormatSafe
<1> DEFINE Inv == TypeOK /\ WorkDirOK /\ SaveInv /\ RootInv
<1>1. Init => Inv
  BY InitTypeOK, InitWorkDirOK, InitSaveInv DEF RootInv, Init
<1>2. Inv /\ [Next]_vars => Inv'
  BY NextTypeOK, NextWorkDirOK, NextSaveInv, NextRootInv
<1>3. Inv /\ [Next]_vars => [everSaved /\ ~Had("lost") => tornFormat' = tornFormat]_vars
  BY FormatStaysSafe
<1> QED BY <1>1, <1>2, <1>3, PTL DEF Spec, FormatSafe

-----------------------------------------------------------------------------
(* Orphans.                                                                 *)

\* Every entry of table t but the root is in a directory that exists.
Sound(t) ==
  \A s \in Slots \ {Root} : t[s].used =>
    /\ t[s].parent \in Slots
    /\ t[t[s].parent].used /\ t[t[s].parent].is_dir

\* What NoOrphans makes an exception for.
Excused ==
  orphaned \/ tornFormat \/ \E k \in FaultKinds \ {"rawTests"} : Had(k)

\* The inductive invariant behind NoOrphans: the table in RAM and the one last
\* saved are sound, and before the first save is complete both RAM and disk
\* hold at most the root.
OrphanInv ==
  Excused \/ /\ Sound(files)
             /\ lastSaved # NoTable => Sound(lastSaved)
             /\ lastSaved = NoTable /\ AtaPresent =>
                  /\ saving # Idle
                  /\ \A s \in Slots \ {Root} : ~files[s].used /\ ~disk.tail[s].used

\* What it is to be in a tree.
LEMMA InTree ==
  ASSUME NEW t, NEW e
  PROVE  e \in TreeOf(t) <=>
           \E v \in Slots : t[v].used /\ e = <<v, t[v].name, t[v].is_dir, t[v].parent>>
BY DEF TreeOf

\* Soundness is a matter of the tree.
LEMMA SoundTree ==
  ASSUME NEW t, NEW u, Sound(t), TreeOf(u) = TreeOf(t)
  PROVE  Sound(u)
<1>1. ASSUME NEW s \in Slots, u[s].used
      PROVE  t[s].used /\ u[s].parent = t[s].parent
  <2>1. <<s, u[s].name, u[s].is_dir, u[s].parent>> \in TreeOf(u)
    BY <1>1, InTree
  <2>2. PICK v \in Slots : t[v].used /\ <<s, u[s].name, u[s].is_dir, u[s].parent>>
                             = <<v, t[v].name, t[v].is_dir, t[v].parent>>
    BY <2>1, InTree, SMTT(60)
  <2> QED BY <2>2
<1>2. ASSUME NEW s \in Slots, t[s].used
      PROVE  u[s].used /\ u[s].is_dir = t[s].is_dir
  <2>1. <<s, t[s].name, t[s].is_dir, t[s].parent>> \in TreeOf(t)
    BY <1>2, InTree
  <2>2. PICK v \in Slots : u[v].used /\ <<s, t[s].name, t[s].is_dir, t[s].parent>>
                             = <<v, u[v].name, u[v].is_dir, u[v].parent>>
    BY <2>1, InTree, SMTT(60)
  <2> QED BY <2>2
<1> QED BY <1>1, <1>2 DEF Sound

\* A new entry in a directory that exists, in a slot nothing was in.
LEMMA AddedSound ==
  ASSUME NEW t, NEW u, NEW i \in Slots, NEW dir \in Slots, Sound(t),
         ~t[i].used, t[dir].used, t[dir].is_dir,
         \A s \in Slots \ {i} : u[s] = t[s], u[i].parent = dir
  PROVE  Sound(u)
<1>1. u[dir] = t[dir]
  OBVIOUS
<1>2. ASSUME NEW s \in Slots \ {Root}, s # i, u[s].used
      PROVE  /\ u[s].parent \in Slots
             /\ u[u[s].parent].used /\ u[u[s].parent].is_dir
  <2>1. u[s] = t[s]
    BY <1>2
  <2>2. /\ t[s].parent \in Slots /\ t[t[s].parent].used
        /\ t[t[s].parent].is_dir
    BY <1>2, <2>1 DEF Sound
  <2>3. u[t[s].parent] = t[t[s].parent]
    BY <2>2
  <2> QED BY <2>1, <2>2, <2>3
<1> QED BY <1>1, <1>2 DEF Sound

\* diskfs_create and diskfs_mkdir put the entry into the working directory.
LEMMA EntrySound ==
  ASSUME TypeOK, Sound(files), NEW A \in SUBSET Slots, PathToRoot(A),
         NEW n, NEW isDir, find_free(files) # NoSlot,
         files' = Entry(files, find_free(files), n, isDir)
  PROVE  Sound(files')
<1>1. PICK i \in Slots : i = find_free(files) /\ ~files[i].used
  BY FindFree
<1>2. PICK dir \in Slots : dir = current_dir /\ files[dir].used /\ files[dir].is_dir
  BY DEF PathToRoot
<1>3. (\A s \in Slots \ {i} : files'[s] = files[s]) /\ files'[i].parent = dir
  BY <1>1, <1>2 DEF TypeOK, Entry
<1> QED BY <1>1, <1>2, <1>3, AddedSound

\* diskfs_write changes no field that matters to soundness.
LEMMA WriteAtSound ==
  ASSUME TypeOK, Sound(files), NEW idx \in Slots \cup {NoSlot}, NEW n, NEW d,
         WriteAt(idx, n, d)
  PROVE  Sound(files')
<1>1. \A s \in Slots : /\ files'[s].used = files[s].used
                       /\ files'[s].is_dir = files[s].is_dir
                       /\ files'[s].parent = files[s].parent
  <2>1. files \in [Slots -> File]
    BY DEF TypeOK
  <2>2. CASE files' = files
    BY <2>2
  <2>3. CASE /\ idx \in Slots
             /\ files' = [files EXCEPT ![idx].bytes = d, ![idx].size = SizeOf[d]]
    BY <2>1, <2>3 DEF File
  <2> QED BY <2>2, <2>3 DEF WriteAt, Refuse
<1> QED BY <1>1 DEF Sound

\* Deleting an entry nothing is in leaves the table sound.
LEMMA DeleteSound ==
  ASSUME TypeOK, Sound(files), NEW n, Delete(n), ~orphaned'
  PROVE  Sound(files')
<1>1. CASE find_file(files, n, current_dir) = NoSlot
  BY <1>1 DEF Delete, Refuse
<1>2. CASE find_file(files, n, current_dir) # NoSlot
  <2>1. PICK i \in Slots : i = find_file(files, n, current_dir)
    BY <1>2, FindFile
  <2>2. files' = [files EXCEPT ![i].used = FALSE] /\ Children(files, i) = {}
    BY <1>2, <2>1 DEF Delete
  <2>3. /\ \A s \in Slots \ {i} : files'[s] = files[s]
        /\ ~files'[i].used
    BY <2>2 DEF TypeOK, File
  <2>4. \A s \in Slots : files[s].used => files[s].parent # i
    BY <2>2 DEF Children
  <2> QED BY <2>3, <2>4 DEF Sound
<1> QED BY <1>1, <1>2

\* An excuse stays one.
LEMMA ExcusedStays ==
  ASSUME TypeOK, SaveInv, [Next]_vars, Excused
  PROVE  Excused'
<1>1. \A k \in FaultKinds : Had(k) => Had(k)'
  BY EachStepSpends, Spending
<1>2. tornFormat => tornFormat'
  BY DEF Next, vars, history, Create, Mkdir, MakeEntry, Write,
     ResumeWrite, Delete, CdRoot, CdUp, CdInto, Sync, RawTest, SaveError,
     SaveStep, LostWrite, BootLoaded, BootUnformatted, BootReadError, Restart, Format
<1>3. orphaned => orphaned'
  BY DEF Next, vars, history, Create, Mkdir, MakeEntry, Write,
     ResumeWrite, Delete, CdRoot, CdUp, CdInto, Sync, RawTest, SaveError,
     SaveStep, LostWrite, BootLoaded, BootUnformatted, BootReadError, Restart
<1> QED BY <1>1, <1>2, <1>3 DEF Excused

\* The commands leave a sound table sound.
LEMMA CommandsSound ==
  ASSUME TypeOK, Sound(files), NEW A \in SUBSET Slots, PathToRoot(A), ~orphaned',
         \/ \E n \in Names : Create(n) \/ Mkdir(n) \/ Delete(n) \/ CdInto(n)
         \/ \E n \in Names, d \in Data : Write(n, d)
         \/ ResumeWrite \/ CdRoot \/ CdUp \/ Sync \/ RawTest
  PROVE  Sound(files')
<1>1. ASSUME NEW n \in Names, Create(n) \/ Mkdir(n) PROVE Sound(files')
  <2>1. PICK isDir : MakeEntry("create", n, isDir) \/ MakeEntry("mkdir", n, isDir)
    BY <1>1 DEF Create, Mkdir
  <2>2. CASE files' = files
    BY <2>2
  <2>3. CASE files' # files
    <3>1. find_free(files) # NoSlot /\ files' = Entry(files, find_free(files), n, isDir)
      BY <2>1, <2>3 DEF MakeEntry, Refuse
    <3> QED BY <3>1, EntrySound
  <2> QED BY <2>2, <2>3
<1>2. ASSUME NEW n \in Names, NEW d \in Data, Write(n, d) PROVE Sound(files')
  <2>1. CASE find_file(files, n, current_dir) # NoSlot
    BY <1>2, <2>1, FindFile, WriteAtSound DEF Write
  <2>2. CASE find_file(files, n, current_dir) = NoSlot /\ find_free(files) = NoSlot
    BY <1>2, <2>2 DEF Write, Refuse
  <2>3. CASE find_file(files, n, current_dir) = NoSlot /\ find_free(files) # NoSlot
    BY <1>2, <2>3, EntrySound DEF Write
  <2> QED BY <2>1, <2>2, <2>3
<1>3. CASE ResumeWrite
  BY <1>3, FindFile, WriteAtSound DEF ResumeWrite
<1>4. ASSUME NEW n \in Names, Delete(n) PROVE Sound(files')
  BY <1>4, DeleteSound
<1>5. CASE (\E n \in Names : CdInto(n)) \/ CdRoot \/ CdUp \/ Sync \/ RawTest
  BY <1>5 DEF CdInto, CdRoot, CdUp, Sync, RawTest
<1> QED BY <1>1, <1>2, <1>3, <1>4, <1>5

\* So does every other step, with what it leaves on disk.
LEMMA NextOrphanInv ==
  TypeOK /\ WorkDirOK /\ SaveInv /\ OrphanInv /\ [Next]_vars => OrphanInv'
<1> SUFFICES ASSUME TypeOK, WorkDirOK, SaveInv, OrphanInv, [Next]_vars, ~Excused'
             PROVE  /\ Sound(files')
                    /\ lastSaved' # NoTable => Sound(lastSaved')
                    /\ lastSaved' = NoTable /\ AtaPresent =>
                         /\ saving' # Idle
                         /\ \A s \in Slots \ {Root} : ~files'[s].used /\ ~disk'.tail[s].used
  BY DEF OrphanInv, Sound
<1>1. ~Excused
  BY ExcusedStays
<1>2. /\ Sound(files)
      /\ lastSaved # NoTable => Sound(lastSaved)
      /\ lastSaved = NoTable /\ AtaPresent =>
           /\ saving # Idle
           /\ \A s \in Slots \ {Root} : ~files[s].used /\ ~disk.tail[s].used
  BY <1>1 DEF OrphanInv
<1>3. ~tornFormat /\ ~orphaned' /\ ~Had("lost")
  BY <1>1 DEF Excused, FaultKinds
<1>4. PICK A \in SUBSET Slots : PathToRoot(A)
  BY <1>3 DEF WorkDirOK
<1>5. CASE \/ \E n \in Names : Create(n) \/ Mkdir(n) \/ Delete(n) \/ CdInto(n)
           \/ \E n \in Names, d \in Data : Write(n, d)
           \/ ResumeWrite \/ CdRoot \/ CdUp \/ Sync \/ RawTest
  <2>1. Sound(files')
    BY <1>2, <1>3, <1>4, <1>5, CommandsSound
  <2>2. saving = Idle /\ lastSaved' = lastSaved
    BY <1>5 DEF Create, Mkdir, MakeEntry, Delete, CdInto, Write, ResumeWrite,
       CdRoot, CdUp, Sync, RawTest, Ready
  <2> QED BY <1>2, <2>1, <2>2
<1>6. CASE SaveStep
  <2>1. files' = files /\ (lastSaved' = files \/ (lastSaved' = lastSaved /\ saving' # Idle))
    <3>1. saving \in Nat
      BY <1>6, SMTT(60) DEF SaveStep, TypeOK
    <3>2. saving + 1 # Idle
      BY <3>1, SMTT(60) DEF Idle
    <3> QED BY <1>6, <3>2 DEF SaveStep, Advance
  <2>2. files # NoTable
    BY TableIsOne DEF TypeOK
  <2>3. \A s \in Slots : disk'.tail[s] = TrailOf(files[s]) \/ disk'.tail[s] = disk.tail[s]
    BY <1>6 DEF SaveStep, WriteStep
  <2>4. \A s \in Slots : TrailOf(files[s]).used = files[s].used
    BY DEF TrailOf
  <2> QED BY <1>2, <2>1, <2>2, <2>3, <2>4
<1>7. CASE SaveError \/ LostWrite \/ \E r \in 0..LastStep : BootReadError(r)
  <2>1. \E costs : \E k \in FaultKinds \ {"rawTests"} : k \in costs /\ Spend(costs)
    BY <1>7 DEF SaveError, LostWrite, BootReadError, Restart, FaultKinds
  <2>2. \E k \in FaultKinds \ {"rawTests"} : Had(k)'
    BY <2>1, FaultHad
  <2> QED BY <2>2 DEF Excused
<1>8. CASE BootLoaded
  <2>1. files' = TableOn(disk) /\ lastSaved' = TableOn(disk) /\ AtaPresent
    BY <1>8 DEF BootLoaded
  <2>2. TableOn(disk) # NoTable
    BY TableOnType, TableIsOne
  <2>3. CASE lastSaved # NoTable
    <3>1. TreeOf(TableOn(disk)) = TreeOf(lastSaved) \/ TreeOf(TableOn(disk)) = TreeOf(files)
      BY <1>3, <2>3, TreeIsAtomic DEF TreeAtomic
    <3>2. Sound(TableOn(disk))
      BY <1>2, <2>3, <3>1, SoundTree
    <3> QED BY <2>1, <2>2, <3>2
  <2>4. CASE lastSaved = NoTable
    <3>1. \A s \in Slots \ {Root} : ~TableOn(disk)[s].used
      BY <1>2, <2>1, <2>4 DEF TableOn
    <3> QED BY <2>1, <2>2, <3>1 DEF Sound
  <2> QED BY <2>3, <2>4
<1>9. CASE BootUnformatted
  <2>1. \A s \in Slots \ {Root} : ~files'[s].used
    BY <1>9 DEF BootUnformatted, Format, FreshTable
  <2>2. lastSaved' = NoTable /\ disk' = disk /\ (AtaPresent => saving' # Idle)
    BY <1>9, SMTT(60) DEF BootUnformatted, Format, Restart, StartSave, Idle
  <2>3. AtaPresent => lastSaved = NoTable
    BY <1>3, <1>9 DEF SaveInv, BootUnformatted
  <2> QED BY <1>2, <2>1, <2>2, <2>3 DEF Sound
<1>10. CASE UNCHANGED vars
  BY <1>2, <1>10 DEF vars
<1> QED BY <1>5, <1>6, <1>7, <1>8, <1>9, <1>10 DEF Next

\* With an empty disk there is only the root.
LEMMA InitOrphanInv == Init => OrphanInv
<1> SUFFICES ASSUME Init PROVE OrphanInv
  OBVIOUS
<1>1. \A s \in Slots \ {Root} : ~files[s].used /\ ~disk.tail[s].used
  BY DEF Init, FreshTable, BlankDisk
<1>2. lastSaved = NoTable /\ (AtaPresent => saving # Idle)
  BY SMTT(60) DEF Init, Idle
<1> QED BY <1>1, <1>2 DEF OrphanInv, Sound

\* No order of commands, reuse of slots or power failure leaves an entry in a
\* directory that does not exist.
THEOREM NeverOrphans == Spec => []NoOrphans
<1> DEFINE Inv == TypeOK /\ WorkDirOK /\ SaveInv /\ OrphanInv
<1>1. Init => Inv
  BY InitTypeOK, InitWorkDirOK, InitSaveInv, InitOrphanInv
<1>2. Inv /\ [Next]_vars => Inv'
  BY NextTypeOK, NextWorkDirOK, NextSaveInv, NextOrphanInv
<1>3. Inv => NoOrphans
  BY DEF OrphanInv, NoOrphans, Excused, Sound
<1> QED BY <1>1, <1>2, <1>3, PTL DEF Spec

=============================================================================
