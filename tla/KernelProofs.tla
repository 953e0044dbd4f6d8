---------------------------- MODULE KernelProofs ----------------------------
(***************************************************************************)
(* ata.c implements SectorDisk, for any number of polls and any drive that *)
(* keeps to the protocol, however late its answers come.  The heap, for    *)
(* every arena, header, alignment and word size.                           *)
(***************************************************************************)
EXTENDS Heap, Ata, Loops, TLAPS

\* Zenon proves a step that names no other prover.
USE ZenonT(60)

-----------------------------------------------------------------------------
(* The disk driver.                                                         *)

\* What the drive has in hand fits its state, and an answer nobody waited for
\* is one to a read or a write.
DriveInv ==
  /\ err => st = "ready"
  /\ st \in {"ready", "absent"} => cmd = "none"
  /\ st = "busy" => cmd # "none"
  /\ st = "give" => cmd \in {"read", "identify"}
  /\ st = "give" /\ cmd = "read" => fifo = sectors[reg]
  /\ st = "take" => cmd = "write"
  /\ cmd = "store" => fifo \in Data
  /\ late => cmd \in {"read", "write"}

\* The drive works on the command of the call, or has failed it.
Own == ~late /\ cmd = op /\ reg = lba
Failed == st = "ready" /\ err

\* Where a call can be.  Until ata_init has found a drive there is nothing but
\* its identify command.
PlaceInv ==
  /\ op = "identify" => ata_pc \in {"boot", "status", "bsy", "drq", "data", "idle"}
  /\ op = "read" => ata_pc \in {"idle", "bsy", "cmd", "drq", "data"}
  /\ op = "write" => ata_pc \in {"idle", "bsy", "cmd", "drq", "data", "flush", "wait"}
  /\ ata_pc # "idle" => (ata_present <=> op # "identify")
  /\ ~ata_present => ~late /\ cmd \in {"none", "identify"}
  /\ ata_present => cmd # "identify"

\* What the call knows of the drive at each place.
CallInv ==
  /\ ata_pc = "boot" => st \in {"absent", "ready"}
  /\ ata_pc = "status" => st = "absent" \/ Own \/ Failed
  /\ ata_pc = "bsy" /\ op = "identify" => Own \/ Failed
  /\ ata_pc \in {"idle", "bsy", "flush", "wait"} /\ ~late =>
       cmd \in {"none", "identify", "store", "flush"}
  /\ ata_pc = "cmd" => st \in {"ready", "give", "take"} /\ (late \/ st = "ready")
  /\ ata_pc = "drq" => Own \/ Failed \/ (late /\ st \in {"give", "take"})
  /\ ata_pc = "data" => st \in {"give", "take"} /\ (Own \/ late)

AtaInv == AtaTypeOK /\ DriveInv /\ PlaceInv /\ CallInv

\* At boot no command has been sent.
LEMMA AtaInitHolds == AtaInit => AtaInv
<1> SUFFICES ASSUME AtaInit PROVE AtaInv
  OBVIOUS
<1>1. AtaTypeOK
  <2>1. timeout \in 1..Polls /\ calls \in Nat /\ ret \in {0, -1}
    BY AtaAssumption, SMTT(60) DEF AtaInit
  <2>2. /\ ata_present \in BOOLEAN /\ err \in BOOLEAN /\ late \in BOOLEAN
        /\ ata_pc \in {"boot", "status", "idle", "bsy", "cmd", "drq", "data", "flush", "wait"}
        /\ op \in {"identify", "read", "write"}
        /\ st \in {"absent", "ready", "busy", "give", "take"}
        /\ cmd \in {"none", "identify", "read", "write", "store", "flush"}
    BY DEF AtaInit
  <2>3. /\ lba \in Lbas /\ reg \in Lbas /\ data \in Data
        /\ buffer \in Data \cup {Junk} /\ fifo \in Data \cup {Junk}
        /\ sectors \in [Lbas -> Data]
    BY DEF AtaInit
  <2> QED BY <2>1, <2>2, <2>3 DEF AtaTypeOK
<1>2. DriveInv /\ PlaceInv /\ CallInv
  BY DEF AtaInit, DriveInv, PlaceInv, CallInv
<1> QED BY <1>1, <1>2 DEF AtaInv

\* The steps of the driver before a call has data.
LEMMA EarlySteps ==
  ASSUME AtaInv, ata_init \/ IdentifyStatus \/ ata_poll_bsy \/ SendCommand \/ ata_poll_drq
  PROVE  AtaInv'
<1> USE DEF AtaInv, ata_driver, drive
<1>1. CASE ata_init
  BY <1>1 DEF ata_init, Command, AtaTypeOK, DriveInv, PlaceInv, CallInv, Own, Failed
<1>2. CASE IdentifyStatus
  BY <1>2, AtaAssumption, SMTT(60)
   DEF IdentifyStatus, Return, AtaTypeOK, DriveInv, PlaceInv, CallInv, Own, Failed
<1>3. CASE ata_poll_bsy
  BY <1>3, AtaAssumption, SMTT(60)
   DEF ata_poll_bsy, BSY, Return, AtaTypeOK, DriveInv, PlaceInv, CallInv, Own, Failed
<1>4. CASE SendCommand
  <2>1. AtaTypeOK'
    <3>1. timeout' \in 1..Polls /\ UNCHANGED <<calls, ret>>
      BY <1>4, AtaAssumption, SMTT(60) DEF SendCommand
    <3>2. late' \in BOOLEAN /\ err' \in BOOLEAN
      BY <1>4 DEF SendCommand, Command, AtaTypeOK
    <3> QED BY <1>4, <3>1, <3>2 DEF SendCommand, Command, AtaTypeOK
  <2>2. DriveInv'
    BY <1>4 DEF SendCommand, Command, AtaTypeOK, DriveInv, PlaceInv, CallInv
  <2>3. PlaceInv' /\ CallInv'
    BY <1>4 DEF SendCommand, Command, AtaTypeOK, DriveInv, PlaceInv, CallInv, Own, Failed
  <2> QED BY <2>1, <2>2, <2>3
<1>5. CASE ata_poll_drq
  <2>1. AtaTypeOK'
    <3>1. timeout' \in 1..Polls
      BY <1>5, AtaAssumption, SMTT(60) DEF ata_poll_drq, AtaTypeOK
    <3>2. late' \in BOOLEAN
      BY <1>5 DEF ata_poll_drq, AtaTypeOK
    <3>3. ret' \in {0, -1} /\ ata_pc' \in {"idle", "drq", "data"}
      BY <1>5 DEF ata_poll_drq, Return, AtaTypeOK
    <3> QED BY <1>5, <3>1, <3>2, <3>3, SMTT(60) DEF ata_poll_drq, AtaTypeOK
  <2>2. DriveInv' /\ PlaceInv' /\ CallInv'
    <3>1. CASE err
      BY <1>5, <3>1, SMTT(60)
       DEF ata_poll_drq, Return, AtaTypeOK, DriveInv, PlaceInv, CallInv
    <3>2. CASE ~err /\ DRQ
      BY <1>5, <3>2, SMTT(60)
       DEF ata_poll_drq, DRQ, AtaTypeOK, DriveInv, PlaceInv, CallInv, Own, Failed
    <3>3. CASE ~err /\ ~DRQ
      <4>1. Own /\ st = "busy"
        BY <1>5, <3>3 DEF ata_poll_drq, DRQ, AtaTypeOK, DriveInv, PlaceInv, CallInv, Own, Failed
      <4> QED BY <1>5, <3>3, <4>1, SMTT(60)
         DEF ata_poll_drq, Return, AtaTypeOK, DriveInv, PlaceInv, CallInv, Own, Failed
    <3> QED BY <3>1, <3>2, <3>3
  <2> QED BY <2>1, <2>2
<1> QED BY <1>1, <1>2, <1>3, <1>4, <1>5

\* The steps that pass data, and those behind them.
LEMMA LateSteps ==
  ASSUME AtaInv, ReadData \/ WriteData \/ FlushCache \/ WaitFlush
  PROVE  AtaInv'
<1> USE DEF AtaInv, ata_driver, drive
<1>1. CASE ReadData
  <2>1. AtaTypeOK'
    BY <1>1 DEF ReadData, Return, AtaTypeOK
  <2>2. DriveInv' /\ PlaceInv' /\ CallInv'
    BY <1>1 DEF ReadData, Return, AtaTypeOK, DriveInv, PlaceInv, CallInv, Own
  <2> QED BY <2>1, <2>2
<1>2. CASE WriteData
  <2>1. AtaTypeOK'
    BY <1>2 DEF WriteData, AtaTypeOK
  <2>2. DriveInv' /\ PlaceInv' /\ CallInv'
    BY <1>2 DEF WriteData, AtaTypeOK, DriveInv, PlaceInv, CallInv, Own
  <2> QED BY <2>1, <2>2
<1>3. CASE FlushCache
  <2>1. AtaTypeOK'
    <3>1. timeout' \in 1..Polls /\ UNCHANGED <<calls, ret>>
      BY <1>3, AtaAssumption, SMTT(60) DEF FlushCache
    <3>2. err' \in BOOLEAN
      BY <1>3 DEF FlushCache, AtaTypeOK
    <3> QED BY <1>3, <3>1, <3>2, SMTT(60) DEF FlushCache, AtaTypeOK
  <2>2. DriveInv' /\ PlaceInv' /\ CallInv'
    BY <1>3 DEF FlushCache, AtaTypeOK, DriveInv, PlaceInv, CallInv
  <2> QED BY <2>1, <2>2
<1>4. CASE WaitFlush
  <2>1. AtaTypeOK'
    <3>1. timeout' \in 1..Polls /\ ret' \in {0, -1} /\ ata_pc' \in {"idle", "wait"}
      BY <1>4, AtaAssumption, SMTT(60) DEF WaitFlush, Return, AtaTypeOK
    <3> QED BY <1>4, <3>1, SMTT(60) DEF WaitFlush, AtaTypeOK
  <2>2. DriveInv' /\ PlaceInv' /\ CallInv'
    BY <1>4 DEF WaitFlush, Return, AtaTypeOK, DriveInv, PlaceInv, CallInv
  <2> QED BY <2>1, <2>2
<1> QED BY <1>1, <1>2, <1>3, <1>4

\* A new call, or none.
LEMMA CallSteps ==
  ASSUME AtaInv, ata_read_sector \/ ata_write_sector \/ NoCall \/ UNCHANGED atavars
  PROVE  AtaInv'
<1> USE DEF AtaInv, ata_driver, drive
<1>1. ASSUME NEW o \in {"read", "write"}, NEW l \in Lbas, NEW d \in Data, Call(o, l, d)
      PROVE  AtaInv'
  <2>1. AtaTypeOK'
    BY <1>1, AtaAssumption, SMTT(60) DEF Call, AtaTypeOK
  <2>2. DriveInv' /\ PlaceInv' /\ CallInv'
    BY <1>1 DEF Call, AtaTypeOK, DriveInv, PlaceInv, CallInv, Own
  <2> QED BY <2>1, <2>2
<1>2. CASE NoCall \/ UNCHANGED atavars
  BY <1>2, SMTT(60) DEF NoCall, atavars, AtaTypeOK, DriveInv, PlaceInv, CallInv, Own, Failed
<1> QED BY <1>1, <1>2 DEF ata_read_sector, ata_write_sector, AtaTypeOK

\* The drive answers, at any time.
LEMMA DriveSteps ==
  ASSUME AtaInv, DriveFails \/ DriveReady
  PROVE  AtaInv'
<1> USE DEF AtaInv, ata_driver, drive
<1>1. CASE DriveFails
  BY <1>1 DEF DriveFails, AtaTypeOK, DriveInv, PlaceInv, CallInv, Own, Failed
<1>2. CASE DriveReady
  <2>1. AtaTypeOK'
    <3>1. sectors' \in [Lbas -> Data]
      BY <1>2 DEF DriveReady, AtaTypeOK, DriveInv
    <3>2. fifo' \in Data \cup {Junk}
      BY <1>2 DEF DriveReady, AtaTypeOK
    <3> QED BY <1>2, <3>1, <3>2, SMTT(60) DEF DriveReady, AtaTypeOK
  <2>2. DriveInv' /\ PlaceInv' /\ CallInv'
    BY <1>2 DEF DriveReady, AtaTypeOK, DriveInv, PlaceInv, CallInv, Own, Failed
  <2> QED BY <2>1, <2>2
<1> QED BY <1>1, <1>2

\* The invariant holds throughout.
LEMMA AtaInvariance == AtaSpec => []AtaInv
<1>1. AtaInv /\ [AtaNext]_atavars => AtaInv'
  BY EarlySteps, LateSteps, CallSteps, DriveSteps DEF AtaNext, DriverStep
<1> QED BY <1>1, AtaInitHolds, PTL DEF AtaSpec

\* The registers, polls and buffers of driver and drive keep their ranges.
THEOREM AtaTypeCorrect == AtaSpec => []AtaTypeOK
<1>1. AtaInv => AtaTypeOK
  BY DEF AtaInv
<1> QED BY <1>1, AtaInvariance, PTL

-----------------------------------------------------------------------------
(* The refinement.  Every step of driver or drive is one of SectorDisk, or    *)
(* leaves its variables alone.                                               *)

Same == UNCHANGED Disk!diskvars

\* Polling, commands and the flush are not seen from outside, and a call that
\* is refused or given up leaves the disk and the buffer alone.
LEMMA EarlyRefines ==
  ASSUME AtaInv, ata_init \/ IdentifyStatus \/ ata_poll_bsy \/ SendCommand \/ ata_poll_drq
  PROVE  Disk!DiskNext \/ Same
<1> USE DEF AtaInv, ata_driver, drive
<1>1. CASE ata_init
  BY <1>1 DEF ata_init, Command, AtaTypeOK, DriveInv, PlaceInv, CallInv, InCall, Same, Disk!diskvars
<1>2. CASE IdentifyStatus
  BY <1>2 DEF IdentifyStatus, Return, AtaTypeOK, PlaceInv, InCall, Same, Disk!diskvars
<1>3. CASE ata_poll_bsy
  <2>1. CASE ata_pc' # "idle" \/ op = "identify"
    BY <1>3, <2>1, SMTT(60) DEF ata_poll_bsy, Return, AtaTypeOK, PlaceInv, InCall, Same, Disk!diskvars
  <2>2. CASE ata_pc' = "idle" /\ op # "identify"
    <3>1. Disk!DoRefuse
      BY <1>3, <2>2 DEF ata_poll_bsy, Return, InCall, Disk!DoRefuse, Disk!DoReturn, Disk!None
    <3> QED BY <3>1 DEF Disk!DiskNext
  <2> QED BY <2>1, <2>2
<1>4. CASE SendCommand
  BY <1>4, SMTT(60) DEF SendCommand, Command, AtaTypeOK, DriveInv, PlaceInv, CallInv, InCall, Same, Disk!diskvars
<1>5. CASE ata_poll_drq
  <2>1. CASE ata_pc' # "idle" \/ op = "identify"
    BY <1>5, <2>1, SMTT(60) DEF ata_poll_drq, Return, AtaTypeOK, PlaceInv, InCall, Same, Disk!diskvars
  <2>2. CASE ata_pc' = "idle" /\ op # "identify" /\ err
    <3>0. ata_pc = "drq" /\ ret' = -1 /\ UNCHANGED <<op, buffer, drive, late>>
      BY <1>5, <2>2 DEF ata_poll_drq, Return
    <3>1. Disk!DoRefuse
      BY <2>2, <3>0 DEF InCall, Disk!DoRefuse, Disk!DoReturn, Disk!None
    <3> QED BY <3>1 DEF Disk!DiskNext
  <2>3. CASE ata_pc' = "idle" /\ op # "identify" /\ ~err
    <3>1. Own /\ st = "busy" /\ late' /\ op \in {"read", "write"}
      BY <1>5, <2>3 DEF ata_poll_drq, DRQ, AtaTypeOK, DriveInv, PlaceInv, CallInv, Own, Failed
    <3>2. Disk!DoGiveUp
      BY <1>5, <2>3, <3>1
      DEF ata_poll_drq, Return, Own, InCall, Disk!DoGiveUp, Disk!DoReturn, Disk!None
    <3> QED BY <3>2 DEF Disk!DiskNext
  <2> QED BY <2>1, <2>2, <2>3
<1> QED BY <1>1, <1>2, <1>3, <1>4, <1>5

\* Data passes once, to the call that is there, and a write returns.
LEMMA LateRefines ==
  ASSUME AtaInv, ReadData \/ WriteData \/ FlushCache \/ WaitFlush
  PROVE  Disk!DiskNext \/ Same
<1> USE DEF AtaInv, ata_driver, drive
<1>1. CASE ReadData /\ op = "identify"
  BY <1>1 DEF ReadData, Return, AtaTypeOK, DriveInv, PlaceInv, CallInv, Own, InCall,
    Same, Disk!diskvars
<1>2. CASE ReadData /\ op = "read"
  <2>1. st = "give" => cmd = "read" /\ fifo = sectors[reg]
    BY <1>2 DEF ReadData, AtaTypeOK, DriveInv, PlaceInv, CallInv
  <2>2. st # "give" => late /\ cmd = "write"
    BY <1>2 DEF ReadData, AtaTypeOK, DriveInv, PlaceInv, CallInv, Own
  <2>3. ~late => reg = lba
    BY <1>2 DEF ReadData, CallInv, Own
  <2>4. st \in {"give", "take"}
    BY <1>2 DEF ReadData, CallInv
  <2>5. Disk!DoRead
    BY <1>2, <2>1, <2>2, <2>3, <2>4
    DEF ReadData, Return, AtaTypeOK, InCall, Disk!DoRead, Disk!DoReturn, Disk!None
  <2> QED BY <2>5 DEF Disk!DiskNext
<1>3. CASE WriteData
  <2>1. st = "take" => cmd = "write"
    BY DEF DriveInv
  <2>2. st # "take" => late /\ cmd = "read"
    BY <1>3 DEF WriteData, AtaTypeOK, DriveInv, PlaceInv, CallInv, Own
  <2>3. ~late => reg = lba
    BY <1>3 DEF WriteData, CallInv, Own
  <2>4. st \in {"give", "take"}
    BY <1>3 DEF WriteData, CallInv
  <2>5. /\ InCall /\ (ata_pc \in {"flush", "wait"}) = FALSE
        /\ InCall' /\ (ata_pc' \in {"flush", "wait"}) = TRUE
        /\ op = "write" /\ UNCHANGED <<op, lba, data, ret, buffer, reg, sectors>>
    BY <1>3, SMTT(60) DEF WriteData, InCall
  <2>6. CASE st = "take"
    <3>1. /\ st' = "busy" /\ cmd' = "store" /\ fifo' = data /\ ~late'
      BY <1>3, <2>6 DEF WriteData
    <3>2. Disk!DoTake
      BY <2>1, <2>3, <2>5, <2>6, <3>1 DEF Disk!DoTake, Disk!None
    <3> QED BY <3>2 DEF Disk!DiskNext
  <2>7. CASE st = "give"
    <3>1. UNCHANGED <<drive, late>>
      BY <1>3, <2>7 DEF WriteData
    <3>2. Disk!DoTake
      BY <2>2, <2>5, <2>7, <3>1 DEF Disk!DoTake, Disk!None
    <3> QED BY <3>2 DEF Disk!DiskNext
  <2> QED BY <2>4, <2>6, <2>7
<1>4. CASE FlushCache
  BY <1>4, SMTT(60) DEF FlushCache, AtaTypeOK, DriveInv, PlaceInv, InCall, Same, Disk!diskvars
<1>5. CASE WaitFlush
  <2>1. CASE ata_pc' # "idle"
    BY <1>5, <2>1 DEF WaitFlush, Return, InCall, Same, Disk!diskvars
  <2>2. CASE ata_pc' = "idle"
    <3>1. Disk!DoWritten
      BY <1>5, <2>2 DEF WaitFlush, Return, AtaTypeOK, PlaceInv, InCall,
        Disk!DoWritten, Disk!DoReturn, Disk!None
    <3> QED BY <3>1 DEF Disk!DiskNext
  <2> QED BY <2>1, <2>2
<1>6. op = "write" \/ op = "read" \/ op = "identify"
  BY DEF AtaTypeOK
<1> QED BY <1>1, <1>2, <1>3, <1>4, <1>5, <1>6 DEF ReadData

\* A call begins, or is refused at once when there is no drive.
LEMMA CallRefines ==
  ASSUME AtaInv, ata_read_sector \/ ata_write_sector \/ NoCall \/ UNCHANGED atavars
  PROVE  Disk!DiskNext \/ Same
<1> USE DEF AtaInv, ata_driver, drive
<1>1. ASSUME NEW o \in {"read", "write"}, NEW l \in Lbas, NEW d \in Data, Call(o, l, d)
      PROVE  Disk!DiskNext
  <2>1. CASE ata_present
    <3>0. /\ ata_pc = "idle" /\ ata_pc' = "bsy"
          /\ op' = o /\ lba' = l /\ data' = d
          /\ UNCHANGED <<ret, buffer, drive, late>>
      BY <1>1, <2>1 DEF Call
    <3>1. ~InCall /\ InCall' /\ (ata_pc' \in {"flush", "wait"}) = FALSE
      BY <3>0, SMTT(60) DEF InCall
    <3>2. Disk!DoBegin(o, l, d)
      BY <3>0, <3>1 DEF Disk!DoBegin, Disk!Asked, Disk!None
    <3> QED BY <3>2 DEF Disk!DiskNext
  <2>2. CASE ~ata_present
    <3>1. Disk!DoRefuse
      BY <1>1, <2>2 DEF Call, InCall, Disk!DoRefuse, Disk!DoReturn, Disk!None
    <3> QED BY <3>1 DEF Disk!DiskNext
  <2> QED BY <2>1, <2>2
<1>2. CASE NoCall \/ UNCHANGED atavars
  <2>1. UNCHANGED <<op, lba, data, ret, buffer, ata_pc, st, cmd, reg, fifo, sectors, late>>
    BY <1>2 DEF NoCall, atavars
  <2>2. InCall' = InCall
    BY <2>1 DEF InCall
  <2> QED BY <2>1, <2>2 DEF Same, Disk!diskvars
<1> QED BY <1>1, <1>2 DEF ata_read_sector, ata_write_sector, AtaTypeOK

\* What was handed over is stored or lost, and an answer nobody waits for may
\* fail to come.
LEMMA DriveRefines ==
  ASSUME AtaInv, DriveFails \/ DriveReady
  PROVE  Disk!DiskNext \/ Same
<1> USE DEF AtaInv, ata_driver, drive
<1>1. CASE cmd = "store"
  <2>1. st = "busy" /\ ~late
    BY <1>1 DEF DriveFails, DriveReady, DriveInv
  <2>2. /\ UNCHANGED <<op, lba, data, ret, buffer, ata_pc>> /\ ~late' /\ cmd' = "none"
        /\ sectors' = [sectors EXCEPT ![reg] = fifo] \/ UNCHANGED sectors
    <3>1. CASE DriveFails
      BY <2>1, <3>1 DEF DriveFails
    <3>2. CASE DriveReady
      <4>1. /\ cmd' = "none" /\ sectors' = [sectors EXCEPT ![reg] = fifo]
            /\ UNCHANGED <<ata_driver, ata_pc, ret, buffer, late>>
        BY <1>1, <3>2, SMTT(60) DEF DriveReady
      <4> QED BY <2>1, <4>1
    <3> QED BY <3>1, <3>2
  <2>3. InCall' = InCall
    BY <2>2 DEF InCall
  <2>4. [op |-> "store", lba |-> reg, data |-> fifo].lba = reg
        /\ [op |-> "store", lba |-> reg, data |-> fifo].data = fifo
        /\ [op |-> "store", lba |-> reg, data |-> fifo] # [op |-> "none"]
    BY SMTT(60)
  <2>5. Disk!DoStore
    BY <1>1, <2>1, <2>2, <2>3, <2>4 DEF Disk!DoStore, Disk!None
  <2> QED BY <2>5 DEF Disk!DiskNext
<1>2. CASE cmd # "store" /\ DriveFails /\ late
  <2>1. Disk!DoForget
    BY <1>2 DEF DriveFails, DriveInv, InCall, Disk!DoForget, Disk!None
  <2> QED BY <2>1 DEF Disk!DiskNext
<1>3. CASE cmd # "store" /\ DriveFails /\ ~late
  BY <1>3 DEF DriveFails, InCall, Same, Disk!diskvars
<1>4. CASE cmd # "store" /\ DriveReady
  BY <1>4 DEF DriveReady, DriveInv, InCall, Same, Disk!diskvars
<1> QED BY <1>1, <1>2, <1>3, <1>4

\* ata.c implements SectorDisk: an answer is taken by the call it belongs to,
\* or, once, by the first call after one that timed out; a write that returned
\* 0 has handed its data over, and nothing else changes a sector.
THEOREM ImplementsSectorDisk == AtaSpec => IsSectorDisk
<1>1. AtaInit => Disk!DiskInit
  BY DEF AtaInit, InCall, Disk!DiskInit, Disk!None
<1>2. AtaInv /\ [AtaNext]_atavars => [Disk!DiskNext]_Disk!diskvars
  BY EarlyRefines, LateRefines, CallRefines, DriveRefines DEF AtaNext, DriverStep, Same
<1> QED BY <1>1, <1>2, AtaInvariance, PTL DEF AtaSpec, IsSectorDisk, Disk!DiskSpec

-----------------------------------------------------------------------------
(* The heap.                                                                *)

\* The sizes, without what HeapAssumption says of alignment.
LEMMA Sizes ==
  /\ HEAP_SIZE \in Nat /\ MIN_SPLIT \in Nat /\ HEADER_SIZE \in Nat
  /\ 0 < HEADER_SIZE /\ HEADER_SIZE =< HEAP_SIZE
BY HeapAssumption, SMTT(60)

WellFormed(h) ==
  /\ DOMAIN h \subseteq Addresses
  /\ h \in [DOMAIN h -> Block]
  /\ Tiles(h)

\* The rounding of malloc yields a natural number.
LEMMA AlignType ==
  ASSUME NEW n \in Nat
  PROVE  align(n) \in Nat
<1>1. (n + ALIGN - 1) % WORD \in Nat
  BY HeapAssumption, SMTT(60)
<1> DEFINE x == (n + ALIGN - 1) % WORD
<1> HIDE DEF x
<1>2. x % ALIGN \in 0..(ALIGN - 1) /\ x % ALIGN =< x
  BY <1>1, HeapAssumption, SMTT(60) DEF x
<1> QED BY <1>1, <1>2, SMTT(60) DEF align, x

\* Headers and ends of blocks lie in the arena.
LEMMA Bounds ==
  ASSUME NEW h, WellFormed(h), NEW z \in DOMAIN h
  PROVE  /\ z \in Nat /\ h[z].size \in Nat
         /\ z =< HEAP_SIZE - HEADER_SIZE
         /\ End(h, z) \in Nat /\ End(h, z) =< HEAP_SIZE /\ z < End(h, z)
<1>1. z \in Nat /\ z =< HEAP_SIZE - HEADER_SIZE /\ h[z].size \in Nat
  BY Sizes, SMTT(60) DEF WellFormed, Addresses, Block
<1>2. End(h, z) \in Addresses \cup {HEAP_SIZE}
  BY DEF WellFormed, Tiles
<1>3. z < End(h, z)
  BY <1>1, Sizes, SMTT(60) DEF End
<1> QED BY <1>1, <1>2, <1>3, Sizes, SMTT(60) DEF Addresses

\* A block that malloc takes, split or whole, leaves the arena tiled.
LEMMA TakeWellFormed ==
  ASSUME NEW h, WellFormed(h), NEW a \in DOMAIN h, NEW n \in Nat,
         h[a].size >= n
  PROVE  WellFormed(TakeBlock(h, a, n))
<1> DEFINE rest == a + HEADER_SIZE + n
           g == TakeBlock(h, a, n)
<1> SUFFICES WellFormed(g)
  OBVIOUS
<1>0. \A z \in DOMAIN h : /\ z \in Nat /\ h[z].size \in Nat
                          /\ z =< HEAP_SIZE - HEADER_SIZE
                          /\ End(h, z) \in Nat /\ End(h, z) =< HEAP_SIZE
  BY Bounds
<1>1. CASE h[a].size >= n + HEADER_SIZE + MIN_SPLIT
  <2>1. g = [x \in DOMAIN h \cup {rest} |->
               IF x = a THEN [size |-> n, free |-> FALSE]
               ELSE IF x = rest
               THEN [size |-> h[a].size - n - HEADER_SIZE, free |-> TRUE]
               ELSE h[x]]
    BY <1>1 DEF TakeBlock
  <2>2. DOMAIN g = DOMAIN h \cup {rest}
    BY <2>1
  <2>3. /\ a \in Nat /\ h[a].size \in Nat
        /\ End(h, a) =< HEAP_SIZE /\ rest \in Addresses
        /\ rest \notin DOMAIN h /\ rest # a
    <3>1. /\ a < rest /\ rest + HEADER_SIZE =< End(h, a) /\ rest < End(h, a)
          /\ rest \in Nat
      BY <1>0, <1>1, Sizes, SMTT(60) DEF End
    <3>2. rest \notin DOMAIN h
      BY <1>0, <3>1, SMTT(60) DEF WellFormed, Tiles
    <3> QED BY <1>0, <3>1, <3>2, Sizes, SMTT(60) DEF Addresses
  <2>4. g \in [DOMAIN g -> Block]
    BY <1>1, <2>1, <2>2, <2>3, Sizes, SMTT(60) DEF WellFormed, Block, Addresses
  <2>5. /\ End(g, a) = rest /\ End(g, rest) = End(h, a)
        /\ \A x \in DOMAIN h \ {a} : End(g, x) = End(h, x)
    BY <2>1, <2>3, Sizes, SMTT(60) DEF End
  <2>6. \A x, y \in DOMAIN g : x < y => End(g, x) =< y
    <3> SUFFICES ASSUME NEW x \in DOMAIN g, NEW y \in DOMAIN g, x < y
                 PROVE  End(g, x) =< y
      OBVIOUS
    <3>1. x \in Nat /\ y \in Nat
      BY <1>0, <2>2, <2>3, SMTT(60) DEF Addresses
    <3>2. CASE x = a
      BY <2>2, <2>3, <2>5, <3>1, <3>2, Sizes, SMTT(60) DEF WellFormed, Tiles, End
    <3>3. CASE x = rest
      <4>1. y \in DOMAIN h /\ a < y
        BY <2>2, <2>3, <3>1, <3>3, Sizes, SMTT(60)
      <4> QED BY <2>5, <3>3, <4>1 DEF WellFormed, Tiles
    <3>4. CASE x \in DOMAIN h \ {a} /\ y = rest
      <4>1. rest < End(h, a) /\ a < rest
        BY <1>0, <1>1, Sizes, SMTT(60) DEF End
      <4>2. ~(a < x)
        BY <1>0, <2>3, <3>1, <3>4, <4>1, Sizes, SMTT(60) DEF WellFormed, Tiles
      <4>3. x < a
        BY <1>0, <3>1, <3>4, <4>2, SMTT(60)
      <4>4. End(h, x) =< a
        BY <3>4, <4>3 DEF WellFormed, Tiles
      <4> QED BY <1>0, <2>5, <3>1, <3>4, <4>1, <4>4, SMTT(60)
    <3>5. CASE x \in DOMAIN h \ {a} /\ y \in DOMAIN h
      BY <2>2, <2>3, <2>5, <3>1, <3>5, Sizes DEF WellFormed, Tiles, End
    <3> QED BY <2>2, <3>2, <3>3, <3>4, <3>5
  <2>7. \A x \in DOMAIN g : End(g, x) \in DOMAIN g \cup {HEAP_SIZE}
    BY <2>2, <2>5 DEF WellFormed, Tiles
  <2>8. \A y \in DOMAIN g \ {0} : \E x \in DOMAIN g : End(g, x) = y
    <3> SUFFICES ASSUME NEW y \in DOMAIN g, y # 0
                 PROVE  \E x \in DOMAIN g : End(g, x) = y
      OBVIOUS
    <3>1. CASE y = rest
      BY <2>2, <2>5, <3>1
    <3>2. CASE y \in DOMAIN h
      <4>1. PICK x \in DOMAIN h : End(h, x) = y
        BY <3>2 DEF WellFormed, Tiles
      <4> QED BY <2>2, <2>5, <4>1
    <3> QED BY <2>2, <3>1, <3>2
  <2> HIDE DEF g
  <2> QED BY <2>2, <2>3, <2>4, <2>6, <2>7, <2>8 DEF WellFormed, Tiles
<1>2. CASE ~(h[a].size >= n + HEADER_SIZE + MIN_SPLIT)
  <2>1. g = [h EXCEPT ![a] = [size |-> h[a].size, free |-> FALSE]]
    BY <1>2 DEF TakeBlock
  <2>2. DOMAIN g = DOMAIN h /\ g \in [DOMAIN g -> Block]
    BY <2>1, SMTT(60) DEF WellFormed, Block
  <2>3. \A x \in DOMAIN h : End(g, x) = End(h, x)
    BY <2>1, SMTT(60) DEF End, WellFormed
  <2> HIDE DEF g
  <2> QED BY <2>2, <2>3 DEF WellFormed, Tiles
<1> QED BY <1>1, <1>2

\* malloc makes no new pair of free neighbours: what is behind a split block
\* was not free.
LEMMA TakeNoFreePair ==
  ASSUME NEW h, WellFormed(h), NoFreePair(h), NEW a \in DOMAIN h,
         h[a].free, NEW n \in Nat, h[a].size >= n
  PROVE  NoFreePair(TakeBlock(h, a, n))
<1> DEFINE rest == a + HEADER_SIZE + n
           g == TakeBlock(h, a, n)
<1> SUFFICES ASSUME NEW x \in DOMAIN g, NEW y \in DOMAIN g,
                    g[x].free, g[y].free, End(g, x) = y
             PROVE  FALSE
  BY DEF NoFreePair
<1>0. \A z \in DOMAIN h : /\ z \in Nat /\ h[z].size \in Nat
                          /\ End(h, z) \in Nat /\ End(h, z) =< HEAP_SIZE
  BY Bounds
<1>1. CASE h[a].size >= n + HEADER_SIZE + MIN_SPLIT
  <2>1. g = [z \in DOMAIN h \cup {rest} |->
               IF z = a THEN [size |-> n, free |-> FALSE]
               ELSE IF z = rest
               THEN [size |-> h[a].size - n - HEADER_SIZE, free |-> TRUE]
               ELSE h[z]]
    BY <1>1 DEF TakeBlock
  <2>2. x # a /\ y # a /\ a # rest
    BY <1>0, <2>1, Sizes, SMTT(60)
  <2>3. End(g, rest) = End(h, a) /\ \A z \in DOMAIN h \ {a, rest} : End(g, z) = End(h, z)
    BY <1>0, <2>1, <2>2, Sizes, SMTT(60) DEF End
  <2>4. rest < End(h, a) /\ a < rest /\ rest \in Nat
    BY <1>0, <1>1, Sizes, SMTT(60) DEF End
  <2>5. CASE x = rest
    <3>1. y # rest
      BY <1>0, <2>3, <2>4, <2>5, SMTT(60)
    <3>2. y \in DOMAIN h /\ h[y].free
      BY <2>1, <2>2, <3>1
    <3> QED BY <2>3, <2>5, <3>2 DEF NoFreePair
  <2>6. CASE x # rest /\ y = rest
    <3>1. x \in DOMAIN h /\ End(h, x) = rest
      BY <2>1, <2>2, <2>3, <2>6
    <3>2. x < End(h, x)
      BY <3>1, Bounds
    <3>3. ~(x < a) /\ ~(a < x)
      BY <1>0, <2>4, <3>1, <3>2, SMTT(60) DEF WellFormed, Tiles
    <3> QED BY <1>0, <2>2, <3>1, <3>3, SMTT(60)
  <2>7. CASE x # rest /\ y # rest
    <3>1. x \in DOMAIN h /\ y \in DOMAIN h /\ h[x].free /\ h[y].free
      BY <2>1, <2>2, <2>7
    <3> QED BY <2>2, <2>3, <2>7, <3>1 DEF NoFreePair
  <2> QED BY <2>5, <2>6, <2>7
<1>2. CASE ~(h[a].size >= n + HEADER_SIZE + MIN_SPLIT)
  <2>1. g = [h EXCEPT ![a] = [size |-> h[a].size, free |-> FALSE]]
    BY <1>2 DEF TakeBlock
  <2>2. /\ x \in DOMAIN h /\ y \in DOMAIN h /\ h[x].free /\ h[y].free
        /\ End(g, x) = End(h, x)
    BY <2>1, SMTT(60) DEF WellFormed, End
  <2> QED BY <2>2 DEF NoFreePair
<1> QED BY <1>1, <1>2

-----------------------------------------------------------------------------
(* merge_free.                                                              *)

\* Where a block that stays on the list ends after the merge.
LEMMA NextKeptFacts ==
  ASSUME NEW h, WellFormed(h), NEW a \in DOMAIN h
  PROVE  /\ NextKept(h, a) \in Kept(h) \cup {HEAP_SIZE}
         /\ NextKept(h, a) > a /\ NextKept(h, a) \in Nat
         /\ NextKept(h, a) =< HEAP_SIZE
         /\ \A b \in Kept(h) : b > a => NextKept(h, a) =< b
         /\ NextKept(h, a) >= End(h, a)
<1> DEFINE S == {b \in Kept(h) \cup {HEAP_SIZE} : b > a}
<1>1. /\ Kept(h) \subseteq DOMAIN h
      /\ \A b \in DOMAIN h : b \in Nat /\ b =< HEAP_SIZE
      /\ a \in Nat /\ a < HEAP_SIZE
  BY Bounds, Sizes, SMTT(60) DEF Kept
<1>2. S \in SUBSET Nat /\ HEAP_SIZE \in S
  BY <1>1, Sizes
<1>3. Min(S) \in S /\ \A y \in S : Min(S) =< y
  BY <1>2, MinOfNats
<1>4. NextKept(h, a) = Min(S)
  BY DEF NextKept
<1> HIDE DEF S
<1>5. NextKept(h, a) \in S
  BY <1>3, <1>4
<1>6. NextKept(h, a) \in Kept(h) \cup {HEAP_SIZE} /\ NextKept(h, a) > a
  BY <1>5 DEF S
<1>7. NextKept(h, a) >= End(h, a)
  <2>1. CASE NextKept(h, a) = HEAP_SIZE
    BY <2>1, Bounds, Sizes
  <2>2. CASE NextKept(h, a) \in Kept(h)
    <3>1. NextKept(h, a) \in DOMAIN h /\ a < NextKept(h, a)
      BY <2>2, <1>1, <1>6
    <3>2. End(h, a) =< NextKept(h, a)
      BY <3>1 DEF WellFormed, Tiles
    <3> QED BY <3>1, <3>2, <1>1, Bounds
  <2> QED BY <2>1, <2>2, <1>6
<1>8. \A b \in Kept(h) : b > a => NextKept(h, a) =< b
  BY <1>3, <1>4 DEF S
<1> QED BY <1>1, <1>2, <1>3, <1>4, <1>5, <1>6, <1>7, <1>8, Sizes

\* What merge_free does to the ends of blocks.
LEMMA MergeEnds ==
  ASSUME NEW h, WellFormed(h)
  PROVE  LET g == merge_free(h) IN
         /\ DOMAIN g = Kept(h) /\ Kept(h) \subseteq DOMAIN h
         /\ \A a \in Kept(h) : g[a].free <=> h[a].free
         /\ \A a \in Kept(h) : h[a].free => End(g, a) = NextKept(h, a)
         /\ \A a \in Kept(h) : ~h[a].free => g[a] = h[a] /\ End(g, a) = End(h, a)
         /\ \A a \in DOMAIN h : ~h[a].free => a \in Kept(h)
         /\ g \in [DOMAIN g -> Block]
<1> DEFINE g == merge_free(h)
<1>1. DOMAIN g = Kept(h) /\ Kept(h) \subseteq DOMAIN h
  BY DEF merge_free, Kept
<1>2. \A a \in Kept(h) : ~h[a].free => g[a] = h[a] /\ End(g, a) = End(h, a)
  BY DEF merge_free, End
<1>3. ASSUME NEW a \in Kept(h), h[a].free
      PROVE  /\ g[a] = [size |-> NextKept(h, a) - a - HEADER_SIZE, free |-> TRUE]
             /\ End(g, a) = NextKept(h, a)
             /\ g[a] \in Block /\ g[a].free
  <2>1. g[a] = [size |-> NextKept(h, a) - a - HEADER_SIZE, free |-> TRUE]
    BY <1>3 DEF merge_free
  <2>2. /\ a \in Nat /\ h[a].size \in Nat /\ NextKept(h, a) \in Nat
        /\ NextKept(h, a) >= End(h, a) /\ NextKept(h, a) =< HEAP_SIZE
    BY <1>1, NextKeptFacts, Bounds
  <2>3. End(g, a) = NextKept(h, a)
    BY <2>1, <2>2, Sizes, SMTT(60) DEF End
  <2>4. NextKept(h, a) - a - HEADER_SIZE \in 0..(HEAP_SIZE - HEADER_SIZE)
    BY <2>2, Sizes, SMTT(60) DEF End
  <2> HIDE DEF g
  <2>5. g[a].free
    BY <2>1, SMTT(60)
  <2> QED BY <2>1, <2>3, <2>4, <2>5, SMTT(60) DEF Block
<1>4. \A a \in Kept(h) : g[a] \in Block
  BY <1>1, <1>2, <1>3 DEF WellFormed
<1>5. ASSUME NEW a \in Kept(h) PROVE g[a].free <=> h[a].free
  <2>1. CASE h[a].free
    BY <1>3, <2>1
  <2>2. CASE ~h[a].free
    BY <1>2, <2>2
  <2> QED BY <2>1, <2>2
<1>6. \A a \in DOMAIN h : ~h[a].free => a \in Kept(h)
  BY DEF Kept, Absorbed
<1>7. g \in [DOMAIN g -> Block]
  BY <1>1, <1>4 DEF merge_free
<1> HIDE DEF g
<1> QED BY <1>1, <1>2, <1>3, <1>5, <1>6, <1>7 DEF g

\* The last block that stays on the list in front of b.
LEMMA LastKept ==
  ASSUME NEW h, WellFormed(h), NEW b \in Nat, NEW c \in Kept(h), c < b
  PROVE  \E m \in Kept(h) : m < b /\ \A k \in Kept(h) : k < b => k =< m
<1> DEFINE D == {b - k : k \in {j \in Kept(h) : j < b}}
<1>1. \A k \in Kept(h) : k \in Nat
  BY Bounds DEF Kept
<1>2. D \in SUBSET Nat /\ D # {}
  BY <1>1, SMTT(60)
<1>3. Min(D) \in D /\ \A y \in D : Min(D) =< y
  BY <1>2, MinOfNats
<1>4. PICK m \in Kept(h) : m < b /\ Min(D) = b - m
  BY <1>3
<1>5. ASSUME NEW k \in Kept(h), k < b PROVE k =< m
  <2>1. Min(D) =< b - k
    BY <1>3, <1>5
  <2> QED BY <1>1, <1>4, <2>1, SMTT(60)
<1> QED BY <1>4, <1>5

\* merge_free keeps the arena tiled and leaves no two free neighbours.
LEMMA MergeWellFormed ==
  ASSUME NEW h, WellFormed(h)
  PROVE  WellFormed(merge_free(h)) /\ NoFreePair(merge_free(h))
<1> DEFINE g == merge_free(h)
           K == Kept(h)
<1>1. /\ DOMAIN g = K /\ K \subseteq DOMAIN h
      /\ \A a \in K : g[a].free <=> h[a].free
      /\ \A a \in K : h[a].free => End(g, a) = NextKept(h, a)
      /\ \A a \in K : ~h[a].free => g[a] = h[a] /\ End(g, a) = End(h, a)
      /\ \A a \in DOMAIN h : ~h[a].free => a \in K
      /\ g \in [DOMAIN g -> Block]
  BY MergeEnds
<1> HIDE DEF g
<1>2. \A z \in DOMAIN h : z \in Nat /\ z < End(h, z) /\ End(h, z) \in Nat
  BY Bounds
<1>3. 0 \in K
  BY <1>2, SMTT(60) DEF WellFormed, Tiles, Kept, Absorbed
<1>4. ASSUME NEW a \in DOMAIN h, ~h[a].free
      PROVE  End(h, a) \in K \cup {HEAP_SIZE}
  <2> SUFFICES ASSUME End(h, a) \in DOMAIN h, NEW p \in DOMAIN h, h[p].free,
                      End(h, p) = End(h, a)
               PROVE  FALSE
    BY DEF WellFormed, Tiles, Kept, Absorbed
  <2>1. ~(p < a) /\ ~(a < p)
    BY <1>2, SMTT(60) DEF WellFormed, Tiles
  <2>2. p = a
    BY <1>2, <2>1, SMTT(60)
  <2> QED BY <1>4, <2>2
<1>5. \A a \in K : End(g, a) \in K \cup {HEAP_SIZE}
  BY <1>1, <1>4, NextKeptFacts, SMTT(60)
<1>6. \A a, b \in K : a < b => End(g, a) =< b
  <2> SUFFICES ASSUME NEW a \in K, NEW b \in K, a < b PROVE End(g, a) =< b
    OBVIOUS
  <2>0. a \in Nat /\ b \in Nat /\ a \in DOMAIN h /\ b \in DOMAIN h
    BY <1>1, <1>2
  <2>1. CASE h[a].free
    <3>1. NextKept(h, a) =< b
      BY <2>0, NextKeptFacts
    <3> QED BY <1>1, <2>1, <3>1
  <2>2. CASE ~h[a].free
    BY <1>1, <2>0, <2>2 DEF WellFormed, Tiles
  <2> QED BY <2>1, <2>2
<1>7. ASSUME NEW b \in K, b # 0
      PROVE  \E a \in K : End(g, a) = b
  <2>1. b \in Nat /\ 0 < b /\ b \in DOMAIN h
    BY <1>1, <1>2, <1>7, SMTT(60)
  <2>2. PICK m \in K : m < b /\ \A k \in K : k < b => k =< m
    BY <1>3, <2>1, LastKept
  <2>3. m \in DOMAIN h /\ m \in Nat
    BY <1>1, <1>2
  <2>4. CASE h[m].free
    <3>1. /\ NextKept(h, m) \in K \cup {HEAP_SIZE} /\ NextKept(h, m) > m
          /\ NextKept(h, m) =< b /\ NextKept(h, m) \in Nat
      BY <2>1, <2>2, <2>3, NextKeptFacts
    <3>2. b =< HEAP_SIZE - HEADER_SIZE
      BY <2>1, Bounds
    <3>3. NextKept(h, m) \in K
      BY <2>1, <3>1, <3>2, Sizes, SMTT(60)
    <3>4. NextKept(h, m) = b
      BY <2>1, <2>2, <2>3, <3>1, <3>3, SMTT(60)
    <3> QED BY <1>1, <2>2, <2>4, <3>4
  <2>5. CASE ~h[m].free
    <3>1. End(h, m) \in K \cup {HEAP_SIZE} /\ End(h, m) =< b /\ m < End(h, m)
      BY <1>2, <1>4, <2>1, <2>2, <2>3, <2>5 DEF WellFormed, Tiles
    <3>2. b =< HEAP_SIZE - HEADER_SIZE /\ End(h, m) \in Nat
      BY <2>1, <2>3, Bounds
    <3>3. End(h, m) = b
      BY <2>1, <2>2, <2>3, <3>1, <3>2, Sizes, SMTT(60)
    <3> QED BY <1>1, <2>2, <2>5, <3>3
  <2> QED BY <2>4, <2>5
<1>8. ASSUME NEW a \in K, NEW b \in K, g[a].free, g[b].free, End(g, a) = b
      PROVE  FALSE
  <2>1. /\ a \in DOMAIN h /\ b \in DOMAIN h /\ h[a].free /\ h[b].free
        /\ NextKept(h, a) = b /\ a \in Nat /\ b \in Nat
    BY <1>1, <1>2, <1>8
  <2>2. a < b
    BY <2>1, NextKeptFacts
  <2>3. PICK p \in DOMAIN h : End(h, p) = b
    BY <2>1, <2>2, SMTT(60) DEF WellFormed, Tiles
  <2>4. ~h[p].free
    BY <2>1, <2>3 DEF Kept, Absorbed
  <2>5. p \in K /\ p \in Nat /\ p < b
    BY <1>1, <1>2, <2>3, <2>4
  <2>6. ~(p > a)
    BY <2>1, <2>5, NextKeptFacts, SMTT(60)
  <2>7. p < a
    BY <2>1, <2>4, <2>5, <2>6, SMTT(60)
  <2>8. b =< a
    BY <2>1, <2>3, <2>7 DEF WellFormed, Tiles
  <2> QED BY <2>1, <2>2, <2>8, SMTT(60)
<1>9. WellFormed(g)
  BY <1>1, <1>3, <1>5, <1>6, <1>7 DEF WellFormed, Tiles
<1>10. NoFreePair(g)
  BY <1>1, <1>8 DEF NoFreePair
<1> QED BY <1>9, <1>10 DEF g

-----------------------------------------------------------------------------
(* malloc and free, seen from the blocks in use.                            *)

Good(h) == WellFormed(h) /\ NoFreePair(h)

\* The heap of heap_init.
Fresh == [a \in {0} |-> [size |-> HEAP_SIZE - HEADER_SIZE, free |-> TRUE]]

\* heap_init makes a good heap without blocks in use.
LEMMA FreshGood == Good(Fresh) /\ Live(Fresh) = {}
<1>1. DOMAIN Fresh = {0} /\ Fresh[0] = [size |-> HEAP_SIZE - HEADER_SIZE, free |-> TRUE]
  BY DEF Fresh
<1>2. End(Fresh, 0) = HEAP_SIZE /\ HEAP_SIZE # 0
  BY <1>1, Sizes, SMTT(60) DEF End
<1>3. Fresh \in [DOMAIN Fresh -> Block] /\ 0 \in Addresses
  BY <1>1, Sizes, SMTT(60) DEF Fresh, Block, Addresses
<1>4. Live(Fresh) = {}
  BY <1>1, SMTT(60) DEF Live
<1> HIDE DEF Fresh
<1> QED BY <1>1, <1>2, <1>3, <1>4, SMTT(60)
     DEF Good, WellFormed, Tiles, NoFreePair

\* malloc takes one block out of the free ones, large enough for the rounded
\* request, and touches no block in use.
LEMMA MallocFacts ==
  ASSUME NEW h, Good(h), NEW n \in Nat
  PROVE  LET m == malloc(h, n)
             a == m.ptr - HEADER_SIZE
         IN  /\ Good(m.heap) /\ m.ptr \in Int
             /\ m.ptr = Null => m.heap = h
             /\ m.ptr # Null => /\ a \in DOMAIN h /\ h[a].free
                                /\ Live(m.heap) = Live(h) \cup {a}
                                /\ \A x \in Live(h) : m.heap[x] = h[x]
                                /\ m.heap[a].size >= align(n)
<1>1. CASE n = 0 \/ FitsIn(h, align(n)) = {}
  BY <1>1, SMTT(60) DEF malloc, Null
<1>2. CASE ~(n = 0 \/ FitsIn(h, align(n)) = {})
  <2> DEFINE a == Min(FitsIn(h, align(n)))
             k == align(n)
             g == TakeBlock(h, a, k)
  <2>1. malloc(h, n) = [heap |-> g, ptr |-> a + HEADER_SIZE]
    BY <1>2 DEF malloc
  <2>2. FitsIn(h, k) \in SUBSET Nat /\ FitsIn(h, k) # {}
    BY <1>2, Bounds DEF FitsIn, Good
  <2>3. a \in FitsIn(h, k)
    BY <2>2, MinOfNats
  <2>4. k \in Nat
    BY AlignType
  <2> HIDE DEF a, k
  <2>5. a \in DOMAIN h /\ h[a].free /\ h[a].size >= k /\ a \in Nat
    BY <2>2, <2>3 DEF FitsIn
  <2>6. Good(g)
    BY <2>4, <2>5, TakeWellFormed, TakeNoFreePair DEF Good
  <2>7. /\ Live(g) = Live(h) \cup {a}
        /\ \A x \in Live(h) : g[x] = h[x]
        /\ g[a].size >= k
    <3> DEFINE rest == a + HEADER_SIZE + k
    <3>1. CASE h[a].size >= k + HEADER_SIZE + MIN_SPLIT
      <4>1. g = [x \in DOMAIN h \cup {rest} |->
                   IF x = a THEN [size |-> k, free |-> FALSE]
                   ELSE IF x = rest
                   THEN [size |-> h[a].size - k - HEADER_SIZE, free |-> TRUE]
                   ELSE h[x]]
        BY <3>1 DEF TakeBlock
      <4>2. rest < End(h, a) /\ a < rest /\ rest \in Nat
        <5>1. WellFormed(h) /\ h[a].size \in Nat
          BY <2>5, Bounds DEF Good
        <5> QED BY <2>4, <2>5, <3>1, <5>1, Sizes, SMTT(60) DEF End
      <4>3. rest \notin DOMAIN h
        BY <2>5, <4>2, Bounds, SMTT(60) DEF Good, WellFormed, Tiles
      <4> HIDE DEF g
      <4>4. \A x \in DOMAIN h \ {a} : g[x] = h[x]
        BY <4>1, <4>3
      <4>5. g[rest].free /\ ~g[a].free /\ g[a].size = k
        BY <2>5, <4>1, <4>2, SMTT(60)
      <4>6. DOMAIN g = DOMAIN h \cup {rest}
        BY <4>1
      <4> QED BY <2>4, <2>5, <4>3, <4>4, <4>5, <4>6, SMTT(60) DEF Live
    <3>2. CASE ~(h[a].size >= k + HEADER_SIZE + MIN_SPLIT)
      <4>1. g = [h EXCEPT ![a] = [size |-> h[a].size, free |-> FALSE]]
        BY <3>2 DEF TakeBlock
      <4> HIDE DEF g
      <4>2. /\ \A x \in DOMAIN h \ {a} : g[x] = h[x]
            /\ DOMAIN g = DOMAIN h /\ ~g[a].free /\ g[a].size = h[a].size
        BY <2>5, <4>1 DEF Good, WellFormed
      <4> QED BY <2>4, <2>5, <4>2 DEF Live
    <3> QED BY <3>1, <3>2
  <2>8. a + HEADER_SIZE # Null /\ a + HEADER_SIZE - HEADER_SIZE = a
    BY <2>5, Sizes, SMTT(60) DEF Null
  <2> HIDE DEF g
  <2>9. /\ malloc(h, n).heap = g /\ malloc(h, n).ptr # Null
        /\ malloc(h, n).ptr - HEADER_SIZE = a /\ malloc(h, n).ptr \in Int
    BY <2>1, <2>5, <2>8, Sizes, SMTT(60)
  <2>10. g[a].size >= align(n)
    BY <2>7 DEF k
  <2> QED BY <2>5, <2>6, <2>7, <2>9, <2>10
<1> QED BY <1>1, <1>2

\* free takes one block out of use and touches no other block in use.
LEMMA FreeFacts ==
  ASSUME NEW h, Good(h), NEW a \in Live(h)
  PROVE  LET g == free(h, a + HEADER_SIZE)
         IN  /\ Good(g)
             /\ Live(g) = Live(h) \ {a}
             /\ \A x \in Live(g) : g[x] = h[x]
<1> DEFINE f == [h EXCEPT ![a] = [size |-> h[a].size, free |-> TRUE]]
           g == merge_free(f)
<1>1. a \in DOMAIN h /\ a \in Nat
  BY Bounds DEF Live, Good
<1>2. free(h, a + HEADER_SIZE) = g
  <2> DEFINE p == a + HEADER_SIZE
  <2>1. p # Null /\ p - HEADER_SIZE = a
    BY <1>1, Sizes, SMTT(60) DEF Null
  <2> HIDE DEF p
  <2>2. free(h, p) = g
    BY <2>1 DEF free
  <2> QED BY <2>2 DEF p
<1>3. /\ DOMAIN f = DOMAIN h /\ f \in [DOMAIN f -> Block]
      /\ \A x \in DOMAIN h \ {a} : f[x] = h[x]
      /\ f[a].free /\ f[a].size = h[a].size
  BY <1>1 DEF Good, WellFormed, Block
<1> HIDE DEF f
<1>4. \A x \in DOMAIN h : End(f, x) = End(h, x)
  BY <1>3 DEF End
<1>5. WellFormed(f)
  BY <1>3, <1>4 DEF Good, WellFormed, Tiles
<1>6. Good(g)
  BY <1>5, MergeWellFormed DEF Good
<1>7. /\ DOMAIN g = Kept(f) /\ Kept(f) \subseteq DOMAIN f
      /\ \A x \in Kept(f) : g[x].free <=> f[x].free
      /\ \A x \in Kept(f) : ~f[x].free => g[x] = f[x]
      /\ \A x \in DOMAIN f : ~f[x].free => x \in Kept(f)
  BY <1>5, MergeEnds
<1> HIDE DEF g
<1>8. Live(g) = Live(h) \ {a}
  BY <1>3, <1>7 DEF Live
<1>9. \A x \in Live(g) : g[x] = h[x]
  BY <1>3, <1>7, <1>8 DEF Live
<1> QED BY <1>2, <1>6, <1>8, <1>9

-----------------------------------------------------------------------------
(* A heap is determined by its blocks in use.                               *)

SameLive(g, h) == Live(g) = Live(h) /\ \A x \in Live(h) : g[x] = h[x]

\* With maximal free blocks, whoever has the same blocks in use has the same
\* headers: a header beyond a common prefix is either in use or the end of a
\* block in use.
LEMMA SameHeaders ==
  ASSUME NEW g, NEW h, Good(g), Good(h), SameLive(g, h)
  PROVE  DOMAIN g \subseteq DOMAIN h
<1> DEFINE D == {x \in DOMAIN g \cup DOMAIN h : ~(x \in DOMAIN g /\ x \in DOMAIN h)}
<1> SUFFICES ASSUME D # {} PROVE FALSE
  OBVIOUS
<1>1. \A x \in DOMAIN g \cup DOMAIN h : x \in Nat
  BY Bounds DEF Good
<1>2. D \in SUBSET Nat
  BY <1>1
<1>3. PICK x \in D : \A y \in D : x =< y
  BY <1>2, MinOfNats
<1>4. ASSUME NEW u, NEW v, Good(u), Good(v), SameLive(u, v),
             x \in DOMAIN u, x \notin DOMAIN v,
             \A y \in DOMAIN u : y < x => y \in DOMAIN v
      PROVE  FALSE
  <2>1. x # 0 /\ x \in Nat
    BY <1>2, <1>4 DEF Good, WellFormed, Tiles
  <2>2. PICK p \in DOMAIN u : End(u, p) = x
    BY <1>4, <2>1 DEF Good, WellFormed, Tiles
  <2>3. p < x
    BY <1>4, <2>2, Bounds DEF Good
  <2>4. p \in DOMAIN v
    BY <1>4, <2>3
  <2>5. u[x].free
    BY <1>4 DEF SameLive, Live
  <2>6. ~u[p].free
    BY <1>4, <2>2, <2>5 DEF Good, NoFreePair
  <2>7. p \in Live(v) /\ u[p] = v[p]
    BY <1>4, <2>6 DEF SameLive, Live
  <2>8. End(v, p) = x
    BY <2>2, <2>7 DEF End
  <2>9. x # HEAP_SIZE
    BY <1>4, <2>1, Bounds, Sizes, SMTT(60) DEF Good
  <2> QED BY <1>4, <2>4, <2>8, <2>9 DEF Good, WellFormed, Tiles
<1>5. \A y \in DOMAIN g \cup DOMAIN h : y < x => y \in DOMAIN g /\ y \in DOMAIN h
  BY <1>1, <1>2, <1>3, SMTT(60)
<1>6. SameLive(h, g)
  BY DEF SameLive
<1>7. CASE x \in DOMAIN g
  BY <1>4, <1>5, <1>7
<1>8. CASE x \in DOMAIN h
  BY <1>4, <1>5, <1>6, <1>8
<1> QED BY <1>7, <1>8

\* A good heap is determined by its blocks in use.
LEMMA SameHeap ==
  ASSUME NEW g, NEW h, Good(g), Good(h), SameLive(g, h)
  PROVE  g = h
<1>1. SameLive(h, g)
  BY DEF SameLive
<1>2. DOMAIN g = DOMAIN h
  BY <1>1, SameHeaders
<1>3. ASSUME NEW x \in DOMAIN h PROVE g[x] = h[x]
  <2>1. CASE ~h[x].free
    BY <2>1 DEF SameLive, Live
  <2>2. CASE h[x].free
    <3>1. g[x].free
      BY <1>2, <2>2 DEF SameLive, Live
    <3>2. ASSUME NEW u, NEW v, Good(u), Good(v), DOMAIN u = DOMAIN v,
                 x \in DOMAIN u
          PROVE  End(u, x) =< End(v, x)
      <4>1. /\ x \in Nat /\ x < End(v, x) /\ End(v, x) \in Nat
            /\ End(u, x) \in Nat /\ End(u, x) =< HEAP_SIZE
        BY <3>2, Bounds DEF Good
      <4>2. End(v, x) \in DOMAIN u \cup {HEAP_SIZE}
        BY <3>2 DEF Good, WellFormed, Tiles
      <4> QED BY <3>2, <4>1, <4>2 DEF Good, WellFormed, Tiles
    <3>3. End(g, x) =< End(h, x) /\ End(h, x) =< End(g, x)
      BY <1>2, <3>2
    <3>4. x \in Nat /\ g[x].size \in Nat /\ h[x].size \in Nat
      BY <1>2, Bounds DEF Good
    <3>5. g[x].size = h[x].size
      BY <3>3, <3>4, Sizes, SMTT(60) DEF End
    <3>6. g[x] \in Block /\ h[x] \in Block
      BY <1>2 DEF Good, WellFormed
    <3> QED BY <2>2, <3>1, <3>5, <3>6, SMTT(60) DEF Block
  <2> QED BY <2>1, <2>2
<1>4. g = [x \in DOMAIN g |-> g[x]] /\ h = [x \in DOMAIN h |-> h[x]]
  BY DEF Good, WellFormed
<1> QED BY <1>2, <1>3, <1>4

-----------------------------------------------------------------------------
(* The heap command.  Null and pointers to blocks in use are treated alike: *)
(* the header "of" Null is no address.                                      *)

Off(p) == p - HEADER_SIZE
Held(h, p) == p = Null \/ Off(p) \in Live(h)

\* NULL is no block.
LEMMA NullOff ==
  ASSUME NEW h, Good(h) PROVE Off(Null) \notin Live(h)
BY Bounds, Sizes, SMTT(60) DEF Off, Null, Live, Good

\* malloc keeps the heap good and adds at most one block in use.
LEMMA MallocStep ==
  ASSUME NEW h, Good(h), NEW n \in Nat
  PROVE  LET m == malloc(h, n)
         IN  /\ Good(m.heap) /\ m.ptr \in Int
             /\ Held(m.heap, m.ptr)
             /\ Live(m.heap) \ {Off(m.ptr)} = Live(h)
             /\ Off(m.ptr) \notin Live(h)
             /\ \A x \in Live(h) : m.heap[x] = h[x]
<1> DEFINE m == malloc(h, n)
<1>1. CASE m.ptr = Null
  <2>1. m.heap = h /\ m.ptr \in Int
    BY <1>1, MallocFacts
  <2>2. Off(m.ptr) \notin Live(h)
    BY <1>1, NullOff
  <2> HIDE DEF m
  <2> QED BY <1>1, <2>1, <2>2 DEF Held, m
<1>2. CASE m.ptr # Null
  <2>1. /\ Off(m.ptr) \in DOMAIN h /\ h[Off(m.ptr)].free
        /\ Live(m.heap) = Live(h) \cup {Off(m.ptr)}
        /\ \A x \in Live(h) : m.heap[x] = h[x]
        /\ Good(m.heap) /\ m.ptr \in Int
    BY <1>2, MallocFacts DEF Off
  <2>2. Off(m.ptr) \notin Live(h)
    BY <2>1 DEF Live
  <2> HIDE DEF m
  <2> QED BY <2>1, <2>2 DEF Held, m
<1> QED BY <1>1, <1>2

\* free keeps the heap good and takes away the one block given back.
LEMMA FreeStep ==
  ASSUME NEW h, Good(h), NEW p \in Int, Held(h, p)
  PROVE  /\ Good(free(h, p))
         /\ Live(free(h, p)) = Live(h) \ {Off(p)}
         /\ \A x \in Live(free(h, p)) : free(h, p)[x] = h[x]
<1>1. CASE p = Null
  BY <1>1, NullOff DEF free
<1>2. CASE p # Null
  <2>1. Off(p) \in Live(h)
    BY <1>2 DEF Held
  <2>2. p = Off(p) + HEADER_SIZE
    BY Sizes, SMTT(60) DEF Off
  <2> QED BY <2>1, <2>2, FreeFacts, SMTT(60)
<1> QED BY <1>1, <1>2

\* The heap command gives back what it took, and so leaves the heap as it was.
LEMMA CmdHeapIdentity ==
  ASSUME NEW h, Good(h)
  PROVE  cmd_heap(h) = h
<1> DEFINE a == malloc(h, CmdSizes[1])
           b == malloc(a.heap, CmdSizes[2])
           c == malloc(b.heap, CmdSizes[3])
           f == free(c.heap, b.ptr)
           d == malloc(f, CmdSizes[4])
           g1 == free(d.heap, a.ptr)
           g2 == free(g1, c.ptr)
           g3 == free(g2, d.ptr)
<1>0. CmdSizes[1] \in Nat /\ CmdSizes[2] \in Nat /\ CmdSizes[3] \in Nat /\ CmdSizes[4] \in Nat
  BY HeapAssumption, SMTT(60)
<1>1. /\ Good(a.heap) /\ a.ptr \in Int /\ Held(a.heap, a.ptr)
      /\ Live(a.heap) \ {Off(a.ptr)} = Live(h) /\ Off(a.ptr) \notin Live(h)
      /\ \A x \in Live(h) : a.heap[x] = h[x]
  BY <1>0, MallocStep
<1>2. /\ Good(b.heap) /\ b.ptr \in Int /\ Held(b.heap, b.ptr)
      /\ Live(b.heap) \ {Off(b.ptr)} = Live(a.heap)
      /\ Off(b.ptr) \notin Live(a.heap)
      /\ \A x \in Live(a.heap) : b.heap[x] = a.heap[x]
  <2> HIDE DEF a
  <2> QED BY <1>0, <1>1, MallocStep
<1>3. /\ Good(c.heap) /\ c.ptr \in Int /\ Held(c.heap, c.ptr)
      /\ Live(c.heap) \ {Off(c.ptr)} = Live(b.heap)
      /\ Off(c.ptr) \notin Live(b.heap)
      /\ \A x \in Live(b.heap) : c.heap[x] = b.heap[x]
  <2> HIDE DEF b
  <2> QED BY <1>0, <1>2, MallocStep
<1>4. /\ Good(f) /\ Live(f) = Live(c.heap) \ {Off(b.ptr)}
      /\ \A x \in Live(f) : f[x] = c.heap[x]
  <2> HIDE DEF b, c
  <2>1. Held(c.heap, b.ptr)
    BY <1>2, <1>3 DEF Held
  <2> QED BY <1>2, <1>3, <2>1, FreeStep
<1>5. /\ Good(d.heap) /\ d.ptr \in Int /\ Held(d.heap, d.ptr)
      /\ Live(d.heap) \ {Off(d.ptr)} = Live(f) /\ Off(d.ptr) \notin Live(f)
      /\ \A x \in Live(f) : d.heap[x] = f[x]
  <2> HIDE DEF f
  <2> QED BY <1>0, <1>4, MallocStep
<1> HIDE DEF a, b, c, d, f
<1>6. /\ Good(g1) /\ Live(g1) = Live(d.heap) \ {Off(a.ptr)}
      /\ \A x \in Live(g1) : g1[x] = d.heap[x]
  <2>1. Held(d.heap, a.ptr)
    BY <1>1, <1>2, <1>3, <1>4, <1>5 DEF Held
  <2> QED BY <1>1, <1>5, <2>1, FreeStep
<1> HIDE DEF g1
<1>7. /\ Good(g2) /\ Live(g2) = Live(g1) \ {Off(c.ptr)}
      /\ \A x \in Live(g2) : g2[x] = g1[x]
  <2>1. Held(g1, c.ptr)
    <3>1. CASE c.ptr = Null
      BY <3>1 DEF Held
    <3>2. CASE c.ptr # Null
      <4>1. Off(c.ptr) \in Live(c.heap)
        BY <1>3, <3>2 DEF Held
      <4>2. Off(c.ptr) # Off(b.ptr)
        <5>1. CASE b.ptr = Null
          BY <1>3, <4>1, <5>1, NullOff
        <5>2. CASE b.ptr # Null
          BY <1>2, <1>3, <5>2 DEF Held
        <5> QED BY <5>1, <5>2
      <4>3. Off(c.ptr) # Off(a.ptr)
        <5>1. CASE a.ptr = Null
          BY <1>3, <4>1, <5>1, NullOff
        <5>2. CASE a.ptr # Null
          BY <1>1, <1>2, <1>3, <5>2 DEF Held
        <5> QED BY <5>1, <5>2
      <4> QED BY <1>4, <1>5, <1>6, <4>1, <4>2, <4>3 DEF Held
    <3> QED BY <3>1, <3>2
  <2> QED BY <1>3, <1>6, <2>1, FreeStep
<1> HIDE DEF g2
<1>8. /\ Good(g3) /\ Live(g3) = Live(g2) \ {Off(d.ptr)}
      /\ \A x \in Live(g3) : g3[x] = g2[x]
  <2>1. Held(g2, d.ptr)
    <3>1. CASE d.ptr = Null
      BY <3>1 DEF Held
    <3>2. CASE d.ptr # Null
      <4>1. Off(d.ptr) \in Live(d.heap)
        BY <1>5, <3>2 DEF Held
      <4>2. Off(d.ptr) # Off(a.ptr)
        <5>1. CASE a.ptr = Null
          BY <1>5, <4>1, <5>1, NullOff
        <5>2. CASE a.ptr # Null
          BY <1>1, <1>2, <1>3, <1>4, <1>5, <5>2 DEF Held
        <5> QED BY <5>1, <5>2
      <4>3. Off(d.ptr) # Off(c.ptr)
        <5>1. CASE c.ptr = Null
          BY <1>5, <4>1, <5>1, NullOff
        <5>2. CASE c.ptr # Null
          <6>1. CASE b.ptr = Null
            <7>1. Off(b.ptr) \notin Live(c.heap)
              BY <1>3, <6>1, NullOff
            <7> QED BY <1>3, <1>4, <1>5, <5>2, <7>1 DEF Held
          <6>2. CASE b.ptr # Null
            BY <1>2, <1>3, <1>4, <1>5, <5>2, <6>2 DEF Held
          <6> QED BY <6>1, <6>2
        <5> QED BY <5>1, <5>2
      <4> QED BY <1>6, <1>7, <4>1, <4>2, <4>3 DEF Held
    <3> QED BY <3>1, <3>2
  <2> QED BY <1>5, <1>7, <2>1, FreeStep
<1> HIDE DEF g3
<1>9. Live(g3) = Live(h)
  BY <1>1, <1>2, <1>3, <1>4, <1>5, <1>6, <1>7, <1>8
<1>10. ASSUME NEW x \in Live(h) PROVE g3[x] = h[x]
  BY <1>1, <1>2, <1>3, <1>4, <1>5, <1>6, <1>7, <1>8, <1>9, SMTT(60)
<1>11. g3 = h
  BY <1>8, <1>9, <1>10, SameHeap DEF SameLive
<1>12. cmd_heap(h) = g3
  BY DEF cmd_heap, a, b, c, d, f, g1, g2, g3
<1> QED BY <1>11, <1>12

-----------------------------------------------------------------------------
(* The specification.                                                       *)

\* The inductive invariant: before heap_init there is no block, afterwards the
\* arena is tiled and no two free blocks are neighbours; a request is on
\* record for exactly the pointers in use.
IInv ==
  /\ heap_ready \in BOOLEAN
  /\ ~heap_ready => heap = NoBlocks
  /\ heap_ready => Good(heap)
  /\ asked \in [Pointers -> Nat]

\* A pointer in use belongs to a block in use.
LEMMA PointerFacts ==
  ASSUME IInv, NEW p \in Pointers
  PROVE  heap_ready /\ p \in Int /\ Off(p) \in Live(heap) /\ Held(heap, p)
<1>1. PICK a \in Live(heap) : p = a + HEADER_SIZE
  BY DEF Pointers
<1>2. heap_ready
  BY <1>1 DEF IInv, NoBlocks, Live
<1>3. a \in Nat
  BY <1>1, <1>2, Bounds DEF IInv, Good, Live
<1> QED BY <1>1, <1>2, <1>3, Sizes, SMTT(60) DEF Off, Held

\* Pointers and headers in use correspond.
LEMMA PointerHeader ==
  ASSUME NEW h, Good(h), NEW p \in Int
  PROVE  p \in {a + HEADER_SIZE : a \in Live(h)} <=> Off(p) \in Live(h)
<1>1. \A a \in Live(h) : a \in Nat
  BY Bounds DEF Good, Live
<1>2. ASSUME p \in {a + HEADER_SIZE : a \in Live(h)} PROVE Off(p) \in Live(h)
  BY <1>1, <1>2, Sizes, SMTT(60) DEF Off
<1>3. ASSUME Off(p) \in Live(h)
      PROVE  p \in {a + HEADER_SIZE : a \in Live(h)}
  <2>1. p = Off(p) + HEADER_SIZE
    BY Sizes, SMTT(60) DEF Off
  <2> QED BY <1>3, <2>1
<1> QED BY <1>2, <1>3

\* The rounding of malloc does not lose bytes of a request that does not wrap.
LEMMA AlignBound ==
  ASSUME NEW n \in Nat, n =< Limit
  PROVE  align(n) >= n
<1> DEFINE x == (n + ALIGN - 1) % WORD
<1>1. n + ALIGN - 1 < WORD /\ n + ALIGN - 1 \in Nat /\ WORD \in Nat \ {0}
  BY HeapAssumption, SMTT(60) DEF Limit
<1>2. x = n + ALIGN - 1
  BY <1>1, SMTT(60)
<1> HIDE DEF x
<1>3. x \in Nat
  BY <1>1, <1>2
<1>4. x % ALIGN \in 0..(ALIGN - 1)
  BY <1>3, HeapAssumption, SMTT(60)
<1> QED BY <1>2, <1>4, HeapAssumption, SMTT(60) DEF align, x

\* Requests are naturals, the wrapped products of calloc included.
LEMMA RequestTypes ==
  /\ \A n \in Requests : n \in Nat
  /\ \A n \in Requests, c \in Counts : c * n \in Nat /\ (c * n) % WORD \in Nat
<1>1. \A n \in Requests, c \in Counts : c * n \in Nat
  BY HeapAssumption, SMTT(60)
<1>2. \A x \in Nat : x % WORD \in Nat
  BY HeapAssumption, SMTT(60)
<1> QED BY <1>1, <1>2, HeapAssumption, SMTT(60)

\* Before the first call there is no heap and no pointer.
LEMMA InitIInv == HeapInit => IInv
BY DEF HeapInit, IInv, Pointers, Live, NoBlocks

\* A malloc that succeeds adds one pointer, whose block is large enough for
\* the rounded request, and leaves the other blocks in use alone.
LEMMA GetFacts ==
  ASSUME IInv, heap_ready, NEW n \in Nat, NEW m, m = malloc(heap, n),
         m.ptr # Null
  PROVE  /\ Good(heap) /\ Good(m.heap) /\ m.ptr \in Int
         /\ m.ptr \notin Pointers
         /\ Live(m.heap) = Live(heap) \cup {Off(m.ptr)}
         /\ {a + HEADER_SIZE : a \in Live(m.heap)} = Pointers \cup {m.ptr}
         /\ \A p \in Pointers : m.heap[Off(p)] = heap[Off(p)]
         /\ m.heap[Off(m.ptr)].size >= align(n)
<1>1. Good(heap)
  BY DEF IInv
<1>2. /\ Good(m.heap) /\ m.ptr \in Int
      /\ heap[Off(m.ptr)].free
      /\ Live(m.heap) = Live(heap) \cup {Off(m.ptr)}
      /\ \A x \in Live(heap) : m.heap[x] = heap[x]
      /\ m.heap[Off(m.ptr)].size >= align(n)
  BY <1>1, MallocFacts DEF Off
<1>3. Off(m.ptr) \notin Live(heap)
  BY <1>2 DEF Live
<1>4. m.ptr \notin Pointers
  BY <1>3, PointerFacts
<1>5. {a + HEADER_SIZE : a \in Live(m.heap)} = Pointers \cup {Off(m.ptr) + HEADER_SIZE}
  BY <1>2 DEF Pointers
<1>6. Off(m.ptr) + HEADER_SIZE = m.ptr
  BY <1>2, Sizes, SMTT(60) DEF Off
<1>7. \A p \in Pointers : m.heap[Off(p)] = heap[Off(p)]
  BY <1>2, PointerFacts
<1> QED BY <1>1, <1>2, <1>4, <1>5, <1>6, <1>7

\* free of a pointer in use removes exactly that pointer.
LEMMA ReleaseFacts ==
  ASSUME NEW h, Good(h), NEW p \in Int, Off(p) \in Live(h)
  PROVE  LET P == {a + HEADER_SIZE : a \in Live(h)}
             Q == {a + HEADER_SIZE : a \in Live(free(h, p))}
         IN  /\ Good(free(h, p)) /\ Q = P \ {p}
             /\ \A q \in Q : free(h, p)[Off(q)] = h[Off(q)]
<1>1. /\ Good(free(h, p)) /\ Live(free(h, p)) = Live(h) \ {Off(p)}
      /\ \A x \in Live(free(h, p)) : free(h, p)[x] = h[x]
  BY FreeStep DEF Held
<1>2. \A a \in Live(h) : a \in Nat /\ Off(a + HEADER_SIZE) = a
  BY Bounds, Sizes, SMTT(60) DEF Good, Live, Off
<1>3. Off(p) + HEADER_SIZE = p
  BY Sizes, SMTT(60) DEF Off
<1> DEFINE g == free(h, p)
<1> HIDE DEF g
<1>4. {a + HEADER_SIZE : a \in Live(g)} = {a + HEADER_SIZE : a \in Live(h)} \ {p}
  BY <1>1, <1>2, <1>3, SMTT(60) DEF g
<1>5. \A q \in {a + HEADER_SIZE : a \in Live(g)} : g[Off(q)] = h[Off(q)]
  BY <1>1, <1>2 DEF g
<1> QED BY <1>1, <1>4, <1>5 DEF g

\* The refinement mapping, before and after a step.
LEMMA RegionFacts ==
  /\ DOMAIN Regions = Pointers /\ DOMAIN Regions' = Pointers'
  /\ \A p \in Pointers :
       Regions[p] = [len |-> heap[Off(p)].size, asked |-> asked[p]]
  /\ \A p \in Pointers' :
       Regions'[p] = [len |-> heap'[Off(p)].size, asked |-> asked'[p]]
BY DEF Regions, Off

\* Two blocks in use are disjoint regions.
LEMMA LiveDisjoint ==
  ASSUME NEW h, Good(h), NEW a \in Live(h), NEW b \in Live(h), a # b
  PROVE  A!Disjoint(a + HEADER_SIZE, h[a].size, b + HEADER_SIZE, h[b].size)
<1>1. /\ a \in Nat /\ b \in Nat /\ h[a].size \in Nat /\ h[b].size \in Nat
      /\ a \in DOMAIN h /\ b \in DOMAIN h
  BY Bounds DEF Good, Live
<1>2. a < b => a + HEADER_SIZE + h[a].size =< b
  BY <1>1 DEF Good, WellFormed, Tiles, End
<1>3. b < a => b + HEADER_SIZE + h[b].size =< a
  BY <1>1 DEF Good, WellFormed, Tiles, End
<1> QED BY <1>1, <1>2, <1>3, Sizes, SMTT(60) DEF A!Disjoint

\* A block that has just come into use is a region that appears, and the
\* blocks that were in use before are still in h, the heap malloc left.
LEMMA NewRegion ==
  ASSUME NEW h, Good(h), NEW p \in Int, Off(p) \in Live(h),
         IInv, heap_ready, p \notin Pointers, p \in Pointers',
         \A q \in Pointers : q \in Int /\ Off(q) \in Live(h)
                             /\ h[Off(q)] = heap[Off(q)],
         heap'[Off(p)] = h[Off(p)],
         NEW w \in Nat, asked'[p] = w, w =< Limit => h[Off(p)].size >= w
  PROVE  A!Appears(p)
<1>1. /\ Off(p) \in Nat /\ h[Off(p)].size \in Nat
      /\ End(h, Off(p)) =< HEAP_SIZE /\ p = Off(p) + HEADER_SIZE
  <2>1. p = Off(p) + HEADER_SIZE
    BY Sizes, SMTT(60) DEF Off
  <2> QED BY <2>1, Bounds DEF Good, Live
<1>2. Regions'[p].len = h[Off(p)].size /\ Regions'[p].asked = w
  BY RegionFacts, SMTT(60)
<1>3. p \in 0..HEAP_SIZE /\ p + h[Off(p)].size =< HEAP_SIZE
  <2> DEFINE a == Off(p)
             s == h[a].size
  <2>1. a \in Nat /\ s \in Nat /\ a + HEADER_SIZE + s =< HEAP_SIZE
        /\ p = a + HEADER_SIZE
    BY <1>1 DEF End
  <2> HIDE DEF a, s
  <2>2. p \in 0..HEAP_SIZE /\ p + s =< HEAP_SIZE
    BY <2>1, Sizes, SMTT(60)
  <2> QED BY <2>2 DEF s, a
<1>4. ASSUME NEW q \in Pointers
      PROVE  A!Disjoint(p, h[Off(p)].size, q, Regions[q].len)
  <2>1. Regions[q].len = h[Off(q)].size
    BY RegionFacts, SMTT(60)
  <2>2. q = Off(q) + HEADER_SIZE /\ p # q
    BY Sizes, SMTT(60) DEF Off
  <2>3. Off(q) # Off(p)
    BY <1>1, <2>2
  <2>4. A!Disjoint(Off(p) + HEADER_SIZE, h[Off(p)].size,
                   Off(q) + HEADER_SIZE, h[Off(q)].size)
    BY <2>3, LiveDisjoint
  <2> QED BY <1>1, <2>1, <2>2, <2>4
<1>5. A!Serves(Regions'[p])
  BY <1>1, <1>2 DEF A!Serves
<1> QED BY <1>2, <1>3, <1>4, <1>5, RegionFacts DEF A!Appears

Step == IInv' /\ [A!Next]_Regions

\* malloc and calloc: a region appears, or nothing changes.
LEMMA GetStep ==
  ASSUME IInv, NEW n \in Nat, NEW w \in Nat, w =< Limit => w = n, Get(n, w)
  PROVE  Step
<1> DEFINE m == malloc(heap, n)
<1>0. Good(heap) /\ heap_ready /\ heap_ready' /\ heap' = m.heap
  BY DEF Get, IInv
<1>1. CASE m.ptr = Null
  <2>1. heap' = heap /\ asked' = asked
    BY <1>0, <1>1, MallocFacts DEF Get
  <2>2. Regions' = Regions
    BY <2>1 DEF Regions, Pointers
  <2> QED BY <1>0, <2>1, <2>2 DEF Step, IInv, Pointers
<1>2. CASE m.ptr # Null
  <2> HIDE DEF m
  <2>1. /\ Good(m.heap) /\ m.ptr \in Int /\ m.ptr \notin Pointers
        /\ Live(m.heap) = Live(heap) \cup {Off(m.ptr)}
        /\ {a + HEADER_SIZE : a \in Live(m.heap)} = Pointers \cup {m.ptr}
        /\ \A p \in Pointers : m.heap[Off(p)] = heap[Off(p)]
        /\ m.heap[Off(m.ptr)].size >= align(n)
    BY <1>0, <1>2, GetFacts DEF m
  <2>2. Pointers' = Pointers \cup {m.ptr}
    BY <1>0, <2>1 DEF Pointers
  <2>3. asked' = [p \in DOMAIN asked \cup {m.ptr} |->
                    IF p = m.ptr THEN w ELSE asked[p]]
    BY <1>2 DEF Get, m
  <2>4. /\ asked' \in [Pointers' -> Nat] /\ asked'[m.ptr] = w
        /\ \A p \in Pointers : asked'[p] = asked[p]
    BY <2>1, <2>2, <2>3 DEF IInv
  <2>5. IInv'
    BY <1>0, <2>1, <2>4 DEF IInv
  <2>6. w =< Limit => m.heap[Off(m.ptr)].size >= w
    <3> SUFFICES ASSUME w =< Limit PROVE m.heap[Off(m.ptr)].size >= w
      OBVIOUS
    <3>1. align(n) >= n /\ align(n) \in Nat /\ w = n
      BY AlignBound, AlignType
    <3>2. m.heap[Off(m.ptr)].size \in Nat
      BY <2>1, Bounds DEF Good, Live
    <3> QED BY <2>1, <3>1, <3>2, SMTT(60)
  <2>7. \A q \in Pointers : q \in Int /\ Off(q) \in Live(m.heap)
    BY <2>1, PointerFacts
  <2>8. A!Appears(m.ptr)
    BY <1>0, <2>1, <2>2, <2>4, <2>6, <2>7, NewRegion
  <2>9. \A q \in Pointers : Regions'[q] = Regions[q]
    BY <1>0, <2>1, <2>2, <2>4, RegionFacts, SMTT(60)
  <2>10. A!Alloc(m.ptr)
    BY <2>2, <2>8, <2>9, RegionFacts DEF A!Alloc, A!Stay
  <2> QED BY <2>2, <2>5, <2>10, RegionFacts DEF Step, A!Next
<1> QED BY <1>1, <1>2

\* free: a region is released.
LEMMA ReleaseStep ==
  ASSUME IInv, NEW p \in Pointers, Free(p)
  PROVE  Step
<1>1. Good(heap) /\ heap_ready /\ p \in Int /\ Off(p) \in Live(heap)
  BY PointerFacts DEF IInv
<1>2. heap' = free(heap, p) /\ heap_ready'
      /\ asked' = [q \in DOMAIN asked \ {p} |-> asked[q]]
  BY <1>1 DEF Free
<1>3. /\ Good(heap') /\ Pointers' = Pointers \ {p}
      /\ \A q \in Pointers' : heap'[Off(q)] = heap[Off(q)]
  BY <1>1, <1>2, ReleaseFacts DEF Pointers
<1>4. asked' \in [Pointers' -> Nat] /\ \A q \in Pointers' : asked'[q] = asked[q]
  BY <1>2, <1>3 DEF IInv
<1>5. \A q \in Pointers' : Regions'[q] = Regions[q]
  BY <1>3, <1>4, RegionFacts
<1>6. A!Release(p)
  BY <1>3, <1>5, RegionFacts DEF A!Release, A!Stay
<1> QED BY <1>2, <1>3, <1>4, <1>6, RegionFacts DEF Step, IInv, A!Next

\* realloc within the block: the region serves another request.
LEMMA InPlaceStep ==
  ASSUME IInv, NEW p \in Pointers, NEW n \in Nat, ReallocInPlace(p, n)
  PROVE  Step
<1>1. /\ heap' = heap /\ heap_ready' = heap_ready /\ Pointers' = Pointers
      /\ asked' = [asked EXCEPT ![p] = n] /\ heap[Off(p)].size >= n
  BY DEF ReallocInPlace, Pointers, Off
<1>2. /\ asked' \in [Pointers' -> Nat] /\ asked'[p] = n
      /\ \A q \in Pointers \ {p} : asked'[q] = asked[q]
  BY <1>1 DEF IInv
<1>3. IInv'
  BY <1>1, <1>2 DEF IInv
<1>4. heap[Off(p)].size \in Nat
  BY PointerFacts, Bounds DEF IInv, Good, Live
<1>5. /\ \A q \in Pointers \ {p} : Regions'[q] = Regions[q]
      /\ Regions'[p].len = Regions[p].len
      /\ A!Serves(Regions'[p])
  BY <1>1, <1>2, <1>4, RegionFacts, SMTT(60) DEF A!Serves
<1>6. A!Resize(p)
  BY <1>1, <1>5, RegionFacts DEF A!Resize, A!Stay
<1> QED BY <1>3, <1>6, RegionFacts DEF Step, A!Next

\* realloc that moves: the new region appears while the old one is still out,
\* then the old one goes.
LEMMA MoveStep ==
  ASSUME IInv, NEW p \in Pointers, NEW n \in Nat, ReallocMove(p, n)
  PROVE  Step
<1> DEFINE m == malloc(heap, n)
<1>1. Good(heap) /\ heap_ready /\ p \in Int /\ Off(p) \in Live(heap)
  BY PointerFacts DEF IInv
<1>2. /\ m.ptr # Null /\ heap' = free(m.heap, p) /\ heap_ready'
      /\ n =< Limit /\ n > heap[Off(p)].size
      /\ asked' = [q \in (DOMAIN asked \ {p}) \cup {m.ptr} |->
                     IF q = m.ptr THEN n ELSE asked[q]]
  BY <1>1 DEF ReallocMove, Off
<1> HIDE DEF m
<1>3. /\ Good(m.heap) /\ m.ptr \in Int /\ m.ptr \notin Pointers
      /\ Live(m.heap) = Live(heap) \cup {Off(m.ptr)}
      /\ {a + HEADER_SIZE : a \in Live(m.heap)} = Pointers \cup {m.ptr}
      /\ \A q \in Pointers : m.heap[Off(q)] = heap[Off(q)]
      /\ m.heap[Off(m.ptr)].size >= align(n)
  BY <1>1, <1>2, GetFacts DEF m
<1>4. /\ Good(heap') /\ Pointers' = (Pointers \cup {m.ptr}) \ {p}
      /\ \A q \in Pointers' : heap'[Off(q)] = m.heap[Off(q)]
  <2> DEFINE h == m.heap
             g == free(h, p)
  <2>1. Good(h) /\ Off(p) \in Live(h)
    BY <1>1, <1>3
  <2> HIDE DEF h
  <2>2. /\ Good(g)
        /\ {a + HEADER_SIZE : a \in Live(g)} = {a + HEADER_SIZE : a \in Live(h)} \ {p}
        /\ \A q \in {a + HEADER_SIZE : a \in Live(g)} : g[Off(q)] = h[Off(q)]
    BY <1>1, <2>1, ReleaseFacts
  <2>3. heap' = g
    BY <1>2 DEF h
  <2>4. Pointers' = {a + HEADER_SIZE : a \in Live(g)}
    BY <2>3 DEF Pointers
  <2> HIDE DEF g
  <2> QED BY <1>3, <2>2, <2>3, <2>4 DEF h
<1>5. Pointers' = (Pointers \ {p}) \cup {m.ptr}
  BY <1>3, <1>4
<1>6. /\ asked' \in [Pointers' -> Nat] /\ asked'[m.ptr] = n
      /\ \A q \in Pointers \ {p} : asked'[q] = asked[q]
  BY <1>2, <1>3, <1>5 DEF IInv
<1>7. IInv'
  BY <1>2, <1>4, <1>6 DEF IInv
<1>8. m.heap[Off(m.ptr)].size >= n /\ m.heap[Off(m.ptr)].size \in Nat
  <2>1. align(n) >= n /\ align(n) \in Nat
    BY <1>2, AlignBound, AlignType
  <2>2. m.heap[Off(m.ptr)].size \in Nat
    BY <1>3, Bounds DEF Good, Live
  <2> QED BY <1>3, <2>1, <2>2, SMTT(60)
<1>9. \A q \in Pointers : q \in Int /\ Off(q) \in Live(m.heap)
  BY <1>3, PointerFacts
<1>10. A!Appears(m.ptr)
  BY <1>1, <1>3, <1>4, <1>5, <1>6, <1>8, <1>9, NewRegion
<1>11. ASSUME NEW q \in Pointers \ {p} PROVE Regions'[q] = Regions[q]
  <2>1. q \in Pointers /\ q \in Pointers'
    BY <1>5
  <2>2. heap'[Off(q)] = heap[Off(q)] /\ asked'[q] = asked[q]
    BY <2>1, <1>3, <1>4, <1>6
  <2>3. Regions[q] = [len |-> heap[Off(q)].size, asked |-> asked[q]]
        /\ Regions'[q] = [len |-> heap'[Off(q)].size, asked |-> asked'[q]]
    BY <2>1, RegionFacts
  <2> QED BY <2>2, <2>3
<1>12. Regions'[m.ptr].len >= Regions[p].len
  <2>1. heap[Off(p)].size \in Nat
    BY <1>1, Bounds DEF Good, Live
  <2>2. Regions[p].len = heap[Off(p)].size
    BY RegionFacts, SMTT(60)
  <2>3. Regions'[m.ptr].len = m.heap[Off(m.ptr)].size
    <3> DEFINE q == m.ptr
    <3>1. q \in Pointers' /\ heap'[Off(q)] = m.heap[Off(q)]
      BY <1>4, <1>5
    <3> HIDE DEF q
    <3>2. Regions'[q] = [len |-> heap'[Off(q)].size, asked |-> asked'[q]]
      BY <3>1, RegionFacts
    <3>3. Regions'[q].len = heap'[Off(q)].size
      BY <3>2, SMTT(60)
    <3> QED BY <3>1, <3>3 DEF q
  <2> QED BY <1>2, <1>8, <2>1, <2>2, <2>3, SMTT(60)
<1>13. A!Move(p, m.ptr)
  BY <1>5, <1>10, <1>11, <1>12, RegionFacts DEF A!Move, A!Stay
<1> QED BY <1>5, <1>7, <1>13, RegionFacts DEF Step, A!Next

\* Every step keeps the invariant and is a step or a stutter of Allocator.
LEMMA NextStep == IInv /\ [HeapNext]_heapvars => Step
<1> SUFFICES ASSUME IInv, [HeapNext]_heapvars PROVE Step
  OBVIOUS
<1>0. ASSUME IInv', Regions' = Regions PROVE Step
  BY <1>0 DEF Step
<1>1. CASE heap_init
  <2>1. heap' = Fresh /\ heap_ready' /\ asked' = asked /\ Live(heap) = {}
    BY <1>1 DEF heap_init, Fresh, IInv, NoBlocks, Live
  <2>2. Pointers' = {} /\ Pointers = {}
    BY <2>1, FreshGood DEF Pointers
  <2>3. IInv'
    BY <2>1, <2>2, FreshGood DEF IInv
  <2>4. Regions' = Regions
    BY <2>2 DEF Regions
  <2> QED BY <1>0, <2>3, <2>4
<1>2. ASSUME NEW n \in Requests, Malloc(n) PROVE Step
  BY <1>2, RequestTypes, GetStep DEF Malloc
<1>3. ASSUME NEW c \in Counts, NEW n \in Requests, Calloc(c, n) PROVE Step
  <2> DEFINE w == c * n
  <2>1. w \in Nat /\ w % WORD \in Nat
    BY RequestTypes
  <2>2. Get(w % WORD, w)
    BY <1>3 DEF Calloc
  <2> HIDE DEF w
  <2>3. w =< Limit => w = w % WORD
    BY <2>1, HeapAssumption, SMTT(60) DEF Limit
  <2> QED BY <2>1, <2>2, <2>3, GetStep
<1>4. ASSUME NEW p \in Pointers, Free(p) PROVE Step
  BY <1>4, ReleaseStep
<1>5. ASSUME NEW p \in Pointers, NEW n \in Requests, ReallocInPlace(p, n)
      PROVE  Step
  BY <1>5, RequestTypes, InPlaceStep
<1>6. ASSUME NEW p \in Pointers, NEW n \in Requests, ReallocMove(p, n)
      PROVE  Step
  BY <1>6, RequestTypes, MoveStep
<1>7. CASE CmdHeap
  <2>1. heap' = heap /\ heap_ready' = heap_ready /\ asked' = asked
    BY <1>7, CmdHeapIdentity DEF CmdHeap, IInv
  <2> QED BY <1>0, <2>1 DEF IInv, Regions, Pointers
<1>8. CASE UNCHANGED heapvars
  BY <1>0, <1>8 DEF heapvars, IInv, Regions, Pointers
<1> QED BY <1>1, <1>2, <1>3, <1>4, <1>5, <1>6, <1>7, <1>8 DEF HeapNext

\* The invariant implies what the runs check.
LEMMA IInvImplies ==
  IInv => HeapTypeOK /\ Tiling /\ NoFreeNeighbours /\ FreedMeansWhole
          /\ CmdHeapRestores
<1> SUFFICES ASSUME IInv
             PROVE  HeapTypeOK /\ Tiling /\ NoFreeNeighbours /\ FreedMeansWhole
                    /\ CmdHeapRestores
  OBVIOUS
<1>1. CASE ~heap_ready
  <2>1. DOMAIN heap = {} /\ heap \in [DOMAIN heap -> Block]
    BY <1>1 DEF IInv, NoBlocks
  <2> QED BY <1>1, <2>1 DEF IInv, HeapTypeOK, Tiling, NoFreeNeighbours,
          NoFreePair, FreedMeansWhole, CmdHeapRestores
<1>2. CASE heap_ready
  <2>1. Good(heap)
    BY <1>2 DEF IInv
  <2>2. FreedMeansWhole
    BY <2>1, FreshGood, SameHeap DEF FreedMeansWhole, SameLive, Fresh
  <2>3. CmdHeapRestores
    BY <2>1, CmdHeapIdentity DEF CmdHeapRestores
  <2> QED BY <2>1, <2>2, <2>3 DEF IInv, Good, WellFormed, HeapTypeOK, Tiling,
          NoFreeNeighbours
<1> QED BY <1>1, <1>2 DEF IInv

\* The invariant holds after every sequence of calls.
LEMMA Invariance == HeapSpec => []IInv
BY InitIInv, NextStep, PTL DEF HeapSpec, Step

\* Headers and sizes stay inside the arena, and every pointer in use has its
\* request on record.
THEOREM HeapTypeCorrect == HeapSpec => []HeapTypeOK
BY Invariance, IInvImplies, PTL

\* Whatever the order of calls, the blocks of malloc.c tile the arena, no two
\* neighbours are free, everything freed is one block again, and the heap
\* command restores any heap it is started on, for any four sizes.
THEOREM AlwaysWhole == HeapSpec => []HeapWhole
<1>1. IInv => HeapWhole
  BY IInvImplies DEF HeapWhole
<1> QED BY <1>1, Invariance, PTL

\* The calls of malloc.c implement Allocator: regions handed out are disjoint,
\* as large as asked for and left alone until given back.
THEOREM ImplementsAllocator == HeapSpec => IsAllocator
<1>1. HeapInit => A!Init
  BY DEF HeapInit, A!Init, Regions, Pointers, Live, NoBlocks
<1> QED BY <1>1, Invariance, NextStep, PTL DEF HeapSpec, A!Spec, IsAllocator, Step
=============================================================================
