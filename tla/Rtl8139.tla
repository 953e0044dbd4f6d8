------------------------------ MODULE Rtl8139 ------------------------------
(***************************************************************************)
(* The driver of rtl8139.c and the two buffers it shares with the card.    *)
(*                                                                         *)
(* Lengths are in words of 4 bytes.  A frame of n words lies in the ring   *)
(* as a header, which holds its length, and n - 1 words of contents.  In   *)
(* the mode rtl8139_init sets (RCR_WRAP) the card writes a frame in one    *)
(* piece, past the end of the ring if need be, and goes on at its own      *)
(* offset modulo the size of the ring.  The card is external and runs at   *)
(* any time; the driver's calls come one after the other.                  *)
(*                                                                         *)
(* Frames are numbered in the order in which they come or are sent.        *)
(***************************************************************************)
EXTENDS Integers

CONSTANTS RingWords,   \* RX_BUF_SIZE in words
          Sizes,       \* words a received frame takes, header included
          TxPolls,     \* 100000
          MaxFrames,   \* bound: frames received
          MaxSends     \* bound: frames sent

ASSUME RtlAssumption ==
  /\ RingWords \in Nat \ {0} /\ Sizes \subseteq 2..RingWords
  /\ TxPolls \in Nat \ {0} /\ {MaxFrames, MaxSends} \subseteq Nat

VARIABLES rtl_initialized,
          rx_buffer,           \* word -> what lies there
          rx_offset, capr,     \* driver's offset, and the one it told the card
          cbr,                 \* card: where it writes next
          arrived,             \* history: frames stored by the card
          delivered,           \* history: frames handed out in their order
          crossed,             \* history: a frame has crossed the end
          astray,              \* history: a frame was handed out of order
          tx_buffer,           \* number of the frame it holds (0: none)
          tx_pc, tx_polls,     \* rtl8139_send_packet: place, polls left
          tsd, half,           \* card: frame to be sent (0: none), and the frame
                               \* the first half of which has been fetched
          on_wire              \* history: the last frame on the wire

ring == <<rx_buffer, rx_offset, capr, cbr, arrived, delivered, crossed, astray>>
tx == <<tx_buffer, tx_pc, tx_polls, tsd, half, on_wire>>
rtlvars == <<rtl_initialized, ring, tx>>

Words == 0..(2 * RingWords - 1)
Zero == [header |-> FALSE, len |-> 0, frame |-> 0]

\* rx_buffer is cleared and both sides start at its beginning.
rtl8139_init ==
  /\ ~rtl_initialized
  /\ rtl_initialized' = TRUE
  /\ rx_buffer' = [w \in Words |-> Zero]
  /\ rx_offset' = 0 /\ capr' = 0
  /\ UNCHANGED <<cbr, arrived, delivered, crossed, astray, tx>>

RtlInit ==
  /\ rtl_initialized = FALSE
  /\ rx_buffer = [w \in Words |-> Zero]
  /\ rx_offset = 0 /\ capr = 0 /\ cbr = 0
  /\ arrived = 0 /\ delivered = 0 /\ crossed = FALSE /\ astray = FALSE
  /\ tx_buffer = 0 /\ tx_pc = "idle" /\ tx_polls = TxPolls
  /\ tsd = 0 /\ half = 0
  /\ on_wire = [asked |-> 0, first |-> 0, second |-> 0]

-----------------------------------------------------------------------------
(* Receiving.                                                               *)

\* Room between the card and what the driver said it has read; the card keeps
\* the two apart, so equal offsets mean that all is read.
Room == IF cbr = capr THEN RingWords ELSE (capr - cbr + RingWords) % RingWords

\* The card stores a frame.
CardStores(n) ==
  /\ rtl_initialized /\ arrived < MaxFrames
  /\ n < Room
  /\ rx_buffer' = [w \in Words |->
       IF w = cbr THEN [header |-> TRUE, len |-> n, frame |-> arrived + 1]
       ELSE IF w \in cbr..(cbr + n - 1)
            THEN [header |-> FALSE, len |-> 0, frame |-> arrived + 1]
            ELSE rx_buffer[w]]
  /\ arrived' = arrived + 1
  /\ crossed' = (crossed \/ cbr + n > RingWords)
  /\ cbr' = (cbr + n) % RingWords
  /\ UNCHANGED <<rtl_initialized, rx_offset, capr, delivered, astray, tx>>

\* Mutant of Advance: the header is not counted.
Advance_NoHeader(n) == IF rx_offset + n - 1 >= RingWords THEN 0 ELSE rx_offset + n - 1

\* The new rx_offset.
Advance(n) == IF rx_offset + n >= RingWords THEN 0 ELSE rx_offset + n

\* Where a header sends the driver.  A word that is no header is read as one
\* all the same: it may hold any length, and rx_offset has 16 bits.
Offsets(h) ==
  IF h.header THEN {Advance(h.len)} ELSE IF h = Zero THEN {} ELSE 0..(RingWords - 1)

\* A length below the header's own leaves the driver where it is.
rtl8139_receive_packet ==
  /\ rtl_initialized /\ cbr # rx_offset
  /\ LET h == rx_buffer[rx_offset]
         next == h.header /\ h.frame = delivered + 1
     IN  \/ ~h.header /\ UNCHANGED <<rx_offset, capr, delivered, astray>>
         \/ /\ rx_offset' \in Offsets(h) /\ capr' = rx_offset'
            /\ delivered' = IF next THEN delivered + 1 ELSE delivered
            /\ astray' = (astray \/ ~next)
  /\ UNCHANGED <<rtl_initialized, rx_buffer, cbr, arrived, crossed, tx>>

\* Nothing has come: the call returns 0.
ReceiveNothing ==
  /\ rtl_initialized /\ cbr = rx_offset
  /\ UNCHANGED rtlvars

-----------------------------------------------------------------------------
(* Sending.                                                                 *)

\* rtl8139_send_packet: the frame is copied into the buffer first.
SendCopy ==
  /\ rtl_initialized /\ tx_pc = "idle" /\ tx_buffer < MaxSends
  /\ tx_buffer' = tx_buffer + 1
  /\ tx_pc' = "wait" /\ tx_polls' = TxPolls
  /\ UNCHANGED <<rtl_initialized, ring, tsd, half, on_wire>>

\* The wait for the previous frame, given up after TxPolls looks.
SendWait ==
  /\ tx_pc = "wait"
  /\ \/ tsd # 0 /\ tx_polls > 1 /\ tx_polls' = tx_polls - 1 /\ UNCHANGED tx_pc
     \/ tsd # 0 /\ tx_polls = 1 /\ tx_pc' = "kick" /\ UNCHANGED tx_polls
     \/ tsd = 0 /\ tx_pc' = "kick" /\ UNCHANGED tx_polls
  /\ UNCHANGED <<rtl_initialized, ring, tx_buffer, tsd, half, on_wire>>

\* Mutant of SendKick: the descriptor is written for a frame not copied yet.
SendKick_Early ==
  /\ tx_pc = "kick"
  /\ tsd' = tx_buffer + 1 /\ half' = 0
  /\ tx_pc' = "idle"
  /\ UNCHANGED <<rtl_initialized, ring, tx_buffer, tx_polls, on_wire>>

\* The descriptor is written; a frame still being sent is abandoned.
SendKick ==
  /\ tx_pc = "kick"
  /\ tsd' = tx_buffer /\ half' = 0
  /\ tx_pc' = "idle"
  /\ UNCHANGED <<rtl_initialized, ring, tx_buffer, tx_polls, on_wire>>

\* The card fetches the frame from memory in two halves.
Fetch ==
  /\ tsd # 0
  /\ IF half = 0 THEN half' = tx_buffer /\ UNCHANGED <<tsd, on_wire>>
     ELSE /\ on_wire' = [asked |-> tsd, first |-> half, second |-> tx_buffer]
          /\ tsd' = 0 /\ half' = 0
  /\ UNCHANGED <<rtl_initialized, ring, tx_buffer, tx_pc, tx_polls>>

-----------------------------------------------------------------------------
RtlNext ==
  \/ rtl8139_init \/ rtl8139_receive_packet \/ ReceiveNothing
  \/ SendCopy \/ SendWait \/ SendKick
  \/ (\E n \in Sizes : CardStores(n)) \/ Fetch

RtlSpec == RtlInit /\ [][RtlNext]_rtlvars

RtlTypeOK ==
  /\ {rtl_initialized, crossed, astray} \subseteq BOOLEAN
  /\ \A w \in Words : rx_buffer[w].frame \in 0..arrived
  /\ {rx_offset, capr, cbr} \subseteq 0..(RingWords - 1)
  /\ arrived \in 0..MaxFrames /\ delivered \in 0..arrived
  /\ {tx_buffer, tsd, half} \subseteq 0..MaxSends
  /\ tx_pc \in {"idle", "wait", "kick"} /\ tx_polls \in 1..TxPolls

\* Frames are handed out in the order they came, none twice and none left
\* out, until one crosses the end of the ring (rtl8139.c:192).
InOrderUntilCrossing == astray => crossed

\* The card is told the end of the frame just read: "Tell hardware we consumed
\* up to here" (rtl8139.c:196).
ConsumedUpToHere ==
  [][delivered' # delivered =>
       capr' = (rx_offset + rx_buffer[rx_offset].len) % RingWords]_rtlvars

\* What goes out is the frame asked for or, where rtl8139.c:154 has overwritten
\* it meanwhile, the frame given next; never an older one, and never a newer
\* half before an older half.
SentIsNotOlder ==
  /\ {on_wire.first, on_wire.second} \subseteq {on_wire.asked, on_wire.asked + 1}
  /\ on_wire.first =< on_wire.second
=============================================================================
