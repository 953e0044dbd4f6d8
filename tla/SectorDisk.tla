----------------------------- MODULE SectorDisk -----------------------------
(***************************************************************************)
(* What ata_read_sector and ata_write_sector promise, without ports,       *)
(* status bits and polling.                                                *)
(*                                                                         *)
(* A call is refused, or a read brings the sector and a write hands its    *)
(* data over.  Data handed over is stored later, perhaps after the call    *)
(* has returned, or lost: nobody is told.  A call that stops waiting for   *)
(* the drive leaves it owing an answer, and that answer is taken by the    *)
(* next call that comes: this is the price of a time-out.                  *)
(*                                                                         *)
(* DiskFs assumes a disk that never owes anything.                         *)
(***************************************************************************)
EXTENDS Integers

CONSTANTS Lbas, Data, Junk

VARIABLES sectors,  \* what the disk holds
          call,     \* the call in progress, or None
          queued,   \* data handed over and not stored yet, or None
          owed,     \* the command whose answer nobody waited for, or None
          ret, got  \* result of the last call, and the data of the last read

diskvars == <<sectors, call, queued, owed, ret, got>>

None == [op |-> "none"]
Asked(op, l, d) == [op |-> op, lba |-> l, data |-> d, taken |-> FALSE]

DiskInit ==
  /\ sectors \in [Lbas -> Data]
  /\ call = None /\ queued = None /\ owed = None
  /\ ret = 0 /\ got = Junk

DoBegin(op, l, d) ==
  /\ call = None
  /\ call' = Asked(op, l, d)
  /\ UNCHANGED <<sectors, queued, owed, ret, got>>

DoReturn(r) == call' = None /\ ret' = r

\* Refused, perhaps at once: the disk and what it owes are as before.
DoRefuse ==
  /\ call = None \/ ~call.taken
  /\ DoReturn(-1)
  /\ UNCHANGED <<sectors, queued, owed, got>>

\* The caller gives up on a command the drive has begun.
DoGiveUp ==
  /\ call # None /\ ~call.taken /\ queued = None /\ owed = None
  /\ owed' = [op |-> call.op, lba |-> call.lba]
  /\ DoReturn(-1)
  /\ UNCHANGED <<sectors, queued, got>>

\* The drive fails the command nobody waits for.
DoForget ==
  /\ owed # None
  /\ owed' = None
  /\ UNCHANGED <<sectors, call, queued, ret, got>>

DoRead ==
  /\ call.op = "read" /\ queued = None
  /\ \/ owed = None /\ got' = sectors[call.lba] /\ UNCHANGED owed
     \/ owed.op = "read" /\ got' = sectors[owed.lba] /\ owed' = None
     \/ owed.op = "write" /\ got' \in Data \cup {Junk} /\ UNCHANGED owed
  /\ DoReturn(0)
  /\ UNCHANGED <<sectors, queued>>

DoTake ==
  /\ call.op = "write" /\ ~call.taken /\ queued = None
  /\ call' = [op |-> "write", lba |-> call.lba, data |-> call.data, taken |-> TRUE]
  /\ \/ /\ owed = None
        /\ queued' = [op |-> "store", lba |-> call.lba, data |-> call.data]
        /\ UNCHANGED owed
     \/ /\ owed.op = "write"
        /\ queued' = [op |-> "store", lba |-> owed.lba, data |-> call.data]
        /\ owed' = None
     \/ owed.op = "read" /\ UNCHANGED <<queued, owed>>
  /\ UNCHANGED <<sectors, ret, got>>

DoWritten ==
  /\ call.op = "write" /\ call.taken
  /\ DoReturn(0)
  /\ UNCHANGED <<sectors, queued, owed, got>>

\* The drive stores what it was handed, or fails to.
DoStore ==
  /\ queued # None
  /\ queued' = None
  /\ \/ sectors' = [sectors EXCEPT ![queued.lba] = queued.data]
     \/ UNCHANGED sectors
  /\ UNCHANGED <<call, owed, ret, got>>

DiskNext ==
  \/ \E op \in {"read", "write"}, l \in Lbas, d \in Data : DoBegin(op, l, d)
  \/ DoRefuse \/ DoGiveUp \/ DoForget \/ DoRead \/ DoTake \/ DoWritten \/ DoStore

DiskSpec == DiskInit /\ [][DiskNext]_diskvars
=============================================================================
