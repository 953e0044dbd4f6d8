-------------------------------- MODULE Ata --------------------------------
(***************************************************************************)
(* The polling driver of ata.c and the drive it talks to.                  *)
(*                                                                         *)
(* The driver is one thread (interrupts do not touch it); ata_pc is the    *)
(* place in the call, and each port access that may be answered otherwise  *)
(* a moment later is a step.  The drive is external: it works on a command *)
(* for as long as it likes, fails it or not, and ignores commands and data *)
(* that come while it is busy or waiting to pass data.  The 256 words of a *)
(* sector pass in one step, the drive being idle until the last of them.   *)
(***************************************************************************)
EXTENDS Integers

CONSTANTS Lbas, Data,
          Junk,      \* what the data port holds when the drive offers nothing
          Polls,     \* 1000000: how often a status is read before giving up
          MaxCalls   \* bound: calls made

ASSUME AtaAssumption == Polls \in Nat \ {0} /\ MaxCalls \in Nat /\ Junk \notin Data

VARIABLES ata_present,
          ata_pc,        \* "boot", "idle" or the step of the call
          op, lba, data, \* the call's operation and arguments
          timeout,       \* polls left in the loop being run
          ret, buffer,   \* result of the last call, buffer of the last read
          st, err,       \* drive: "absent", "ready", "busy", "give", "take"
          cmd, reg,      \* drive: the command it works on and its address
          fifo,          \* drive: the sector passing through
          sectors,       \* what the drive holds
          calls,         \* bound
          late           \* history: the command in the drive belongs to a call
                         \* that has returned

ata_driver == <<ata_present, op, lba, data>>
drive == <<st, err, cmd, reg, fifo, sectors>>
atavars == <<ata_driver, ata_pc, timeout, ret, buffer, drive, calls, late>>

BSY == st \in {"busy", "absent"}
DRQ == st \in {"give", "take"}

AtaInit ==
  /\ ata_present = FALSE /\ ata_pc = "boot"
  /\ op = "identify" /\ lba \in Lbas /\ data \in Data
  /\ timeout = Polls /\ ret = 0 /\ buffer = Junk
  /\ st \in {"absent", "ready"} /\ err = FALSE
  /\ cmd = "none" /\ reg = lba /\ fifo = Junk
  /\ sectors \in [Lbas -> Data]
  /\ calls = 0 /\ late = FALSE

\* ata_init keeps the result of ata_identify in ata_present alone.
Return(r) == ata_pc' = "idle" /\ ret' = (IF op = "identify" THEN ret ELSE r)

-----------------------------------------------------------------------------
(* The driver.                                                              *)

\* outb(0x1F7, c): a drive with something in hand ignores it.
Command(c) ==
  IF st = "ready"
  THEN st' = "busy" /\ err' = FALSE /\ cmd' = c /\ reg' = lba /\ late' = FALSE
       /\ UNCHANGED <<fifo, sectors>>
  ELSE UNCHANGED <<drive, late>>

\* ata_identify up to the command; there is no wait before it.
ata_init ==
  /\ ata_pc = "boot"
  /\ Command("identify")
  /\ ata_pc' = "status"
  /\ UNCHANGED <<ata_driver, timeout, ret, buffer, calls>>

\* ata_identify: the first look at the status; 0xFF is an empty bus.
IdentifyStatus ==
  /\ ata_pc = "status"
  /\ IF st = "absent" THEN Return(-1) ELSE ata_pc' = "bsy" /\ UNCHANGED ret
  /\ timeout' = Polls
  /\ UNCHANGED <<ata_driver, buffer, drive, calls, late>>

Call(o, l, d) ==
  /\ ata_pc = "idle" /\ calls < MaxCalls
  /\ calls' = calls + 1
  /\ op' = o /\ lba' = l /\ data' = d
  /\ IF ata_present THEN ata_pc' = "bsy" /\ UNCHANGED ret ELSE UNCHANGED ata_pc /\ ret' = -1
  /\ timeout' = Polls
  /\ UNCHANGED <<ata_present, buffer, drive, late>>

ata_read_sector == \E l \in Lbas : Call("read", l, data)
ata_write_sector == \E l \in Lbas, d \in Data : Call("write", l, d)

\* One round of ata_poll_bsy, before the command (or, in ata_identify, after).
ata_poll_bsy ==
  /\ ata_pc = "bsy"
  /\ \/ /\ ~BSY
        /\ ata_pc' = IF op = "identify" THEN "drq" ELSE "cmd"
        /\ timeout' = Polls /\ UNCHANGED ret
     \/ /\ BSY /\ timeout > 1
        /\ timeout' = timeout - 1 /\ UNCHANGED <<ata_pc, ret>>
     \/ BSY /\ timeout = 1 /\ Return(-1) /\ UNCHANGED timeout
  /\ UNCHANGED <<ata_driver, buffer, drive, calls, late>>

SendCommand ==
  /\ ata_pc = "cmd"
  /\ Command(op)
  /\ ata_pc' = "drq" /\ timeout' = Polls
  /\ UNCHANGED <<ata_driver, ret, buffer, calls>>

\* Mutant of ata_poll_drq: it waits for ever.
ata_poll_drq_Forever ==
  /\ ata_pc = "drq"
  /\ \/ err /\ Return(-1)
     \/ ~err /\ DRQ /\ ata_pc' = "data" /\ UNCHANGED ret
  /\ UNCHANGED <<ata_driver, timeout, buffer, drive, calls, late>>

\* Mutant of ata_poll_drq: running out of polls counts as success.
ata_poll_drq_Lenient ==
  /\ ata_pc = "drq"
  /\ \/ err /\ Return(-1) /\ UNCHANGED timeout
     \/ /\ ~err /\ (DRQ \/ timeout = 1)
        /\ ata_pc' = "data" /\ UNCHANGED <<timeout, ret>>
     \/ /\ ~err /\ ~DRQ /\ timeout > 1
        /\ timeout' = timeout - 1 /\ UNCHANGED <<ata_pc, ret>>
  /\ UNCHANGED <<ata_driver, buffer, drive, calls, late>>

\* One round of ata_poll_drq.  It does not look at BSY.
ata_poll_drq ==
  /\ ata_pc = "drq"
  /\ \/ err /\ Return(-1) /\ UNCHANGED <<timeout, late>>
     \/ ~err /\ DRQ /\ ata_pc' = "data" /\ UNCHANGED <<timeout, ret, late>>
     \/ /\ ~err /\ ~DRQ /\ timeout > 1
        /\ timeout' = timeout - 1 /\ UNCHANGED <<ata_pc, ret, late>>
     \/ /\ ~err /\ ~DRQ /\ timeout = 1
        /\ Return(-1) /\ late' = (op # "identify")
        /\ UNCHANGED timeout
  /\ UNCHANGED <<ata_driver, buffer, drive, calls>>

\* 256 inw: a drive that waits for data has nothing to give.
ReadData ==
  /\ ata_pc = "data" /\ op \in {"read", "identify"}
  /\ IF st = "give"
     THEN /\ buffer' = (IF op = "read" THEN fifo ELSE buffer)
          /\ st' = "ready" /\ cmd' = "none" /\ late' = FALSE
          /\ UNCHANGED <<err, reg, fifo, sectors>>
     ELSE buffer' \in Data \cup {Junk} /\ UNCHANGED <<drive, late>>
  /\ Return(0)
  /\ ata_present' = (ata_present \/ op = "identify")
  /\ UNCHANGED <<op, lba, data, timeout, calls>>

\* 256 outw: a drive that offers data does not take any.
WriteData ==
  /\ ata_pc = "data" /\ op = "write"
  /\ IF st = "take"
     THEN /\ st' = "busy" /\ cmd' = "store" /\ fifo' = data /\ late' = FALSE
          /\ UNCHANGED <<err, reg, sectors>>
     ELSE UNCHANGED <<drive, late>>
  /\ ata_pc' = "flush"
  /\ UNCHANGED <<ata_driver, timeout, ret, buffer, calls>>

\* The cache flush is sent without a look at BSY.
FlushCache ==
  /\ ata_pc = "flush"
  /\ IF st = "ready"
     THEN st' = "busy" /\ err' = FALSE /\ cmd' = "flush" /\ UNCHANGED <<reg, fifo, sectors>>
     ELSE UNCHANGED drive
  /\ ata_pc' = "wait" /\ timeout' = Polls
  /\ UNCHANGED <<ata_driver, ret, buffer, calls, late>>

\* ata_poll_bsy after the flush, its result ignored.
WaitFlush ==
  /\ ata_pc = "wait"
  /\ \/ ~BSY /\ Return(0) /\ UNCHANGED timeout
     \/ BSY /\ timeout > 1 /\ timeout' = timeout - 1 /\ UNCHANGED <<ata_pc, ret>>
     \/ BSY /\ timeout = 1 /\ Return(0) /\ UNCHANGED timeout
  /\ UNCHANGED <<ata_driver, buffer, drive, calls, late>>

-----------------------------------------------------------------------------
(* The drive.                                                               *)

DriveFails ==
  /\ st = "busy"
  /\ st' = "ready" /\ err' = TRUE /\ cmd' = "none" /\ late' = FALSE
  /\ UNCHANGED <<ata_driver, ata_pc, timeout, ret, buffer, reg, fifo, sectors, calls>>

DriveReady ==
  /\ st = "busy"
  /\ \/ /\ cmd \in {"read", "identify"}
        /\ st' = "give" /\ fifo' = (IF cmd = "read" THEN sectors[reg] ELSE Junk)
        /\ UNCHANGED <<cmd, sectors>>
     \/ cmd = "write" /\ st' = "take" /\ UNCHANGED <<cmd, fifo, sectors>>
     \/ /\ cmd = "store"
        /\ st' = "ready" /\ cmd' = "none"
        /\ sectors' = [sectors EXCEPT ![reg] = fifo]
        /\ UNCHANGED fifo
     \/ cmd = "flush" /\ st' = "ready" /\ cmd' = "none" /\ UNCHANGED <<fifo, sectors>>
  /\ UNCHANGED <<ata_driver, ata_pc, timeout, ret, buffer, err, reg, calls, late>>

\* No call in progress: the rest of the system runs.
NoCall == ata_pc = "idle" /\ UNCHANGED atavars

-----------------------------------------------------------------------------
DriverStep ==
  \/ ata_init \/ IdentifyStatus \/ ata_poll_bsy \/ SendCommand \/ ata_poll_drq
  \/ ReadData \/ WriteData \/ FlushCache \/ WaitFlush

AtaNext ==
  \/ DriverStep \/ ata_read_sector \/ ata_write_sector \/ NoCall
  \/ DriveFails \/ DriveReady

\* Only the driver is fair: the drive may hang in any command.
AtaSpec == AtaInit /\ [][AtaNext]_atavars /\ WF_atavars(DriverStep)

-----------------------------------------------------------------------------
AtaTypeOK ==
  /\ ata_present \in BOOLEAN /\ err \in BOOLEAN /\ late \in BOOLEAN
  /\ ata_pc \in {"boot", "status", "idle", "bsy", "cmd", "drq", "data", "flush", "wait"}
  /\ op \in {"identify", "read", "write"}
  /\ lba \in Lbas /\ reg \in Lbas /\ data \in Data
  /\ timeout \in 1..Polls /\ calls \in Nat
  /\ ret \in {0, -1}
  /\ buffer \in Data \cup {Junk} /\ fifo \in Data \cup {Junk}
  /\ st \in {"absent", "ready", "busy", "give", "take"}
  /\ cmd \in {"none", "identify", "read", "write", "store", "flush"}
  /\ sectors \in [Lbas -> Data]

\* The call as a client of the driver sees it.
InCall == op # "identify" /\ ata_pc \notin {"boot", "idle"}

Disk == INSTANCE SectorDisk WITH
  got <- buffer,
  call <- IF InCall THEN [op |-> op, lba |-> lba, data |-> data,
                          taken |-> ata_pc \in {"flush", "wait"}]
          ELSE [op |-> "none"],
  queued <- IF st = "busy" /\ cmd = "store"
            THEN [op |-> "store", lba |-> reg, data |-> fifo] ELSE [op |-> "none"],
  owed <- IF late THEN [op |-> cmd, lba |-> reg] ELSE [op |-> "none"]

\* ata.c implements SectorDisk: a call that returns 0 has read or handed over
\* its sector, unless the drive still owed the answer to a call that timed out
\* at ata.c:66; then it is that answer which the call takes, once.
IsSectorDisk == Disk!DiskSpec

\* Every call returns, whatever the drive does: each wait gives up after its
\* polls (ata.c:56, :65), and the drive cannot prolong it.
AtaReturns == ata_pc \notin {"boot", "idle"} ~> ata_pc = "idle"
=============================================================================
