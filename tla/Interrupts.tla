----------------------------- MODULE Interrupts -----------------------------
(***************************************************************************)
(* Interrupts: the gates of interrupts.c, the interrupt controllers as     *)
(* pic.c sets them up, the handlers of irq.asm, mouse.c and timer.c, and   *)
(* the part of kmain that brings them up.                                  *)
(*                                                                         *)
(* The keyboard and the mouse share one output buffer (port 0x60).  While  *)
(* mouse_init polls it every interrupt is masked, but an edge is           *)
(* remembered in irr; the controller may or may not forget it when the     *)
(* byte is taken first, so that after sti a handler may run without a byte *)
(* of its own and reads what is there.  Of the packets only the buttons    *)
(* are kept (mouse_byte is mouse_byte[0]): nothing depends on where the    *)
(* pointer is.  Of the controller's command byte only the two interrupt    *)
(* bits are kept.  The devices answer within the 100000 polls              *)
(* mouse_wait_data allows.                                                 *)
(***************************************************************************)
EXTENDS Integers, Sequences, FiniteSetsExt

CONSTANTS Packets,   \* what the mouse reports, three bytes each
          ScanCodes, \* what the keyboard sends
          MaxTick,   \* ticks is counted modulo MaxTick + 1 (2^32 in the code)
          MaxSleep   \* bound: ticks a timer_sleep asks for

ASSUME InterruptsAssumption ==
  /\ Packets \subseteq [1..3 -> 0..255] /\ ScanCodes \subseteq 0..255
  /\ MaxTick \in Nat /\ MaxSleep \in 0..MaxTick

VARIABLES irr, isr, mask,   \* the two 8259: requested, in service, masked
          obuf, port,       \* the byte in the output buffer; the one read last
          kq, mq,           \* bytes the keyboard (controller) and the mouse hold back
          int_enabled,      \* devices whose interrupt the command byte enables
          main,               \* where kmain, and then the main program, is
          handler, called,  \* the handler that runs, and whether its C part has
          ticks, target,    \* of timer.c
          ready,            \* sources that may ask again: see Pace
          mouse_byte, mouse_byte_idx, mbuttons,  \* of mouse.c
          phase,            \* history: bytes of the current packet read so far
          early             \* history: a key was pressed during mouse_init

pics == <<irr, isr, mask>>
kbc == <<obuf, port, kq, mq, int_enabled>>
timer == <<ticks, target>>
mouse == <<mouse_byte, mouse_byte_idx, mbuttons>>
cpu == <<main, handler, called, ready>>
irqvars == <<pics, kbc, timer, mouse, cpu, phase, early>>

IRQs == {0, 1, 2, 12}
None == -1
Empty == [src |-> "none", val |-> 0, pos |-> 0]

\* pos numbers the bytes of a packet; it is 0 for everything else.
Byte(src, val, pos) == [src |-> src, val |-> val, pos |-> pos]
CommandByte == Byte("kbd", 1, 0)
Ack == Byte("mouse", 250, 0)
Line(src) == IF src = "kbd" THEN 1 ELSE 12

\* The timer and the controller with the keyboard and the mouse.
Sources == {"timer", "kbc"}

Booting == {"cfg", "ack1", "ack2", "ack3", "unmask"}

\* init_idt, and mouse_init up to the command that asks for the command byte.
IrqInit ==
  /\ irr = {} /\ isr = {} /\ mask = IRQs
  /\ obuf = Empty /\ port = 0
  /\ kq = <<CommandByte>> /\ mq = <<>> /\ int_enabled = {"kbd"}
  /\ main = "cfg" /\ handler = None /\ called = FALSE
  /\ ticks = 0 /\ target = 0 /\ ready = Sources
  /\ mouse_byte = 0 /\ mouse_byte_idx = 0 /\ mbuttons = 0
  /\ phase = 0 /\ early = FALSE

-----------------------------------------------------------------------------
(* Devices.                                                                 *)

KeyPressed ==
  /\ kq = <<>>
  /\ \E c \in ScanCodes : kq' = <<Byte("kbd", c, 0)>>
  /\ early' = (early \/ main \in Booting \ {"unmask"})
  /\ UNCHANGED <<pics, obuf, port, mq, int_enabled, timer, mouse, cpu, phase>>

\* The mouse reports once 0xF4 has told it to.
MouseMoved ==
  /\ mq = <<>> /\ main \notin {"cfg", "ack1", "ack2"}
  /\ \E p \in Packets : mq' = [i \in 1..3 |-> Byte("mouse", p[i], i)]
  /\ UNCHANGED <<pics, obuf, port, kq, int_enabled, timer, mouse, cpu, phase, early>>

\* Bytes and ticks come milliseconds apart: between two of one source the main
\* program executes an instruction, unless it is halted.
Pace(s) == (s \in ready \/ main = "halted") /\ ready' = ready \ {s}

\* The controller moves the next byte into the output buffer.
LoadFrom(b) ==
  /\ obuf' = b
  /\ irr' = IF b.src \in int_enabled THEN irr \cup {Line(b.src)} ELSE irr

Load ==
  /\ obuf = Empty /\ Pace("kbc")
  /\ \/ kq # <<>> /\ LoadFrom(Head(kq)) /\ kq' = Tail(kq) /\ UNCHANGED mq
     \/ mq # <<>> /\ LoadFrom(Head(mq)) /\ mq' = Tail(mq) /\ UNCHANGED kq
  /\ UNCHANGED <<isr, mask, port, int_enabled, timer, mouse, main, handler, called, phase, early>>

Tick ==
  /\ Pace("timer")
  /\ irr' = irr \cup {0}
  /\ UNCHANGED <<isr, mask, kbc, timer, mouse, main, handler, called, phase, early>>

-----------------------------------------------------------------------------
(* Handlers.                                                                *)

InterruptsOn == main \notin Booting /\ handler = None

\* The input of the master a line arrives at, which is its priority.
Input(i) == IF i > 7 THEN 2 ELSE i

\* What the controllers present to the processor: the request of highest
\* priority, when nothing as high is in service.
Pending ==
  LET requests == irr \ mask IN
  {i \in requests : /\ Input(i) \notin mask
                    /\ \A j \in isr : Input(i) < Input(j)
                    /\ \A j \in requests : Input(i) =< Input(j)}

\* Gates 0x20, 0x21 and 0x2C are interrupt gates: interrupts are off until the
\* handler returns.
Interrupt(i) ==
  /\ InterruptsOn /\ i \in Pending
  /\ irr' = irr \ {i}
  /\ isr' = isr \cup {i, Input(i)}
  /\ handler' = i /\ called' = FALSE
  /\ main' = IF main = "halted" THEN "sleep" ELSE main
  /\ UNCHANGED <<mask, kbc, timer, mouse, ready, phase, early>>

\* inb(0x60): the byte that is there, or once more the last one.
Value == IF obuf = Empty THEN port ELSE obuf.val

Inb ==
  /\ port' = Value /\ obuf' = Empty
  /\ phase' = IF obuf.pos = 0 THEN phase ELSE obuf.pos % 3

irq0_c ==
  /\ handler = 0 /\ ~called /\ called' = TRUE
  /\ ticks' = (ticks + 1) % (MaxTick + 1)
  /\ UNCHANGED <<pics, kbc, target, mouse, main, handler, ready, phase, early>>

\* What becomes of the scan code is the subject of Keyboard.
irq1_reads ==
  /\ handler = 1 /\ ~called /\ called' = TRUE
  /\ Inb
  /\ UNCHANGED <<pics, kq, mq, int_enabled, timer, mouse, main, handler, ready, early>>

Bit3(v) == (v \div 8) % 2 = 1

\* Mutant of Packet: any byte starts a packet.
Packet_AnyFirst(v) ==
  /\ mouse_byte' = IF mouse_byte_idx = 0 THEN v ELSE mouse_byte
  /\ mouse_byte_idx' = (mouse_byte_idx + 1) % 3
  /\ mbuttons' = IF mouse_byte_idx = 2 THEN mouse_byte % 8 ELSE mbuttons

Packet(v) ==
  IF mouse_byte_idx = 0 /\ ~Bit3(v)
  THEN UNCHANGED mouse
  ELSE /\ mouse_byte' = IF mouse_byte_idx = 0 THEN v ELSE mouse_byte
       /\ mouse_byte_idx' = (mouse_byte_idx + 1) % 3
       /\ mbuttons' = IF mouse_byte_idx = 2 THEN mouse_byte % 8 ELSE mbuttons

irq12_c ==
  /\ handler = 12 /\ ~called /\ called' = TRUE
  /\ Inb
  /\ Packet(Value)
  /\ UNCHANGED <<pics, kq, mq, int_enabled, timer, main, handler, ready, early>>

\* 0x20 to a controller ends what it has in service.
Ended(lines) == isr \ (IF isr \cap lines = {} THEN {} ELSE {Min(isr \cap lines)})

\* Mutant of Eoi: only the master is told.
Eoi_MasterOnly ==
  /\ handler # None /\ called
  /\ isr' = Ended(0..7)
  /\ handler' = None /\ called' = FALSE
  /\ UNCHANGED <<irr, mask, kbc, timer, mouse, main, ready, phase, early>>

\* The end of a handler: irq12_handler tells both controllers, the others the
\* master.
Eoi ==
  /\ handler # None /\ called
  /\ isr' = Ended(0..7) \cap (IF handler = 12 THEN Ended(8..15) ELSE isr)
  /\ handler' = None /\ called' = FALSE
  /\ UNCHANGED <<irr, mask, kbc, timer, mouse, main, ready, phase, early>>

-----------------------------------------------------------------------------
(* The main program.                                                        *)

\* A byte mouse_init takes; the edge it came with may outlive it.
Poll ==
  /\ obuf # Empty
  /\ Inb
  /\ irr' \in {irr, irr \ {Line(obuf.src)}}

\* The command byte is read and written back with bit 1 set, and 0xF6 is sent.
ReadCommandByte ==
  /\ main = "cfg" /\ Poll
  /\ int_enabled' = {"mouse"} \cup (IF obuf.val % 2 = 1 THEN {"kbd"} ELSE {})
  /\ mq' = Append(mq, Ack)
  /\ main' = "ack1" /\ ready' = Sources
  /\ UNCHANGED <<isr, mask, kq, timer, mouse, handler, called, early>>

\* mouse_read of an acknowledgement, and the next command.
ReadAck(k) ==
  /\ main = k /\ Poll
  /\ main' = CASE k = "ack1" -> "ack2" [] k = "ack2" -> "ack3" [] OTHER -> "unmask"
  /\ mq' = IF k = "ack3" THEN mq ELSE Append(mq, Ack)
  /\ ready' = Sources
  /\ UNCHANGED <<isr, mask, kq, int_enabled, timer, mouse, handler, called, early>>

\* timer_init, pic_unmask_irq for the four lines, sti.
Unmask ==
  /\ main = "unmask"
  /\ mask' = mask \ {0, 1, 2, 12}
  /\ main' = "work" /\ ready' = Sources
  /\ UNCHANGED <<irr, isr, kbc, timer, mouse, handler, called, phase, early>>

\* The processor is at an instruction of the main program.
AtMain == InterruptsOn /\ Pending = {}

Work ==
  /\ main = "work" /\ AtMain /\ ready # Sources
  /\ ready' = Sources
  /\ UNCHANGED <<pics, kbc, timer, mouse, main, handler, called, phase, early>>

timer_sleep(n) ==
  /\ main = "work" /\ AtMain
  /\ target' = (ticks + n) % (MaxTick + 1)
  /\ main' = "sleep" /\ ready' = Sources
  /\ UNCHANGED <<pics, kbc, ticks, mouse, handler, called, phase, early>>

\* Mutant of Look: the tick that ends the wait must be met exactly.
Look_Exact ==
  /\ main = "sleep" /\ AtMain
  /\ main' = IF ticks # target THEN "hlt" ELSE "work"
  /\ ready' = Sources
  /\ UNCHANGED <<pics, kbc, timer, mouse, handler, called, phase, early>>

\* while (ticks < target)
Look ==
  /\ main = "sleep" /\ AtMain
  /\ main' = IF ticks < target THEN "hlt" ELSE "work"
  /\ ready' = Sources
  /\ UNCHANGED <<pics, kbc, timer, mouse, handler, called, phase, early>>

\* An interrupt between the look and the hlt does not end it.
Halt ==
  /\ main = "hlt" /\ AtMain
  /\ main' = "halted" /\ ready' = Sources
  /\ UNCHANGED <<pics, kbc, timer, mouse, handler, called, phase, early>>

Boot == ReadCommandByte \/ (\E k \in {"ack1", "ack2", "ack3"} : ReadAck(k)) \/ Unmask

Handle == (\E i \in {0, 1, 12} : Interrupt(i)) \/ irq0_c \/ irq1_reads \/ irq12_c \/ Eoi

Cpu == Boot \/ Handle \/ Work \/ Look \/ Halt

IrqNext ==
  \/ KeyPressed \/ MouseMoved \/ Load \/ Tick \/ Cpu
  \/ \E n \in 0..MaxSleep : timer_sleep(n)

\* The processor and the controller go on, and the timer keeps ticking; nobody
\* has to press a key or move the mouse.
IrqSpec == IrqInit /\ [][IrqNext]_irqvars /\ WF_irqvars(Cpu) /\ WF_irqvars(Load) /\ WF_irqvars(Tick)

-----------------------------------------------------------------------------
(* Properties.                                                              *)

\* The next byte irq12_c gets is the byte of the packet it takes it for.
Aligned == mouse_byte_idx = phase

\* "Synchronize: First byte of packet must have bit 3 = 1" (mouse.c:87): with
\* movements that do not look like a first byte themselves, the decoder ends
\* up in step with the mouse and stays so as long as the mouse keeps moving,
\* although an edge left over from mouse_init may have put it out of step.
Resync == []<>(phase = 1) /\ []<>(phase = 2) => <>[]Aligned

\* Every byte is taken out of the output buffer, so that no device is blocked
\* for good: no edge gets lost and each handler leaves both controllers ready.
\* (A key pressed during mouse_init may be taken for the command byte, which
\* turns the keyboard's interrupt off.)
BytesServed == obuf # Empty ~> (obuf = Empty \/ early)

\* timer_sleep returns, although a tick between the look at ticks and the hlt
\* goes unseen and ticks wraps around.  The exception is a sleep until the very
\* last tick: the next one wraps, and the wait is one whole round longer.
SleepReturns ==
  main \in {"sleep", "hlt", "halted"} /\ target # MaxTick ~> main = "work"
=============================================================================
