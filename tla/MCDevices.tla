----------------------------- MODULE MCDevices -----------------------------
(***************************************************************************)
(* The drivers for TLC: keyboard, interrupts with mouse and timer, disk.   *)
(* They share no variables, so a behaviour is one of the driver named by   *)
(* running, while the others are where they start.                         *)
(***************************************************************************)
EXTENDS Keyboard, Interrupts, Ata

VARIABLE running

\* The left button is held and the mouse moved by one.
OnePacket == {<<9, 1, 0>>}

DevInit ==
  /\ running \in {"keyboard", "interrupts", "ata"}
  /\ KbInit /\ IrqInit /\ AtaInit
  /\ running # "ata" =>
       /\ st = "absent" /\ data = (CHOOSE d \in Data : TRUE)
       /\ lba = (CHOOSE l \in Lbas : TRUE) /\ sectors = [l \in Lbas |-> data]

DevNext ==
  /\ UNCHANGED running
  /\ \/ running = "keyboard" /\ KbNext /\ UNCHANGED <<irqvars, atavars>>
     \/ running = "interrupts" /\ IrqNext /\ UNCHANGED <<kbvars, atavars>>
     \/ running = "ata" /\ AtaNext /\ UNCHANGED <<kbvars, irqvars>>

\* The fairness of the modules, for the driver that runs.
DevFair ==
  /\ WF_kbvars(running = "keyboard" /\ GetClear)
  /\ WF_kbvars(running = "keyboard" /\ GetReturn)
  /\ WF_kbvars(running = "keyboard" /\ irq1_c)
  /\ WF_irqvars(running = "interrupts" /\ Cpu)
  /\ WF_irqvars(running = "interrupts" /\ Load)
  /\ WF_irqvars(running = "interrupts" /\ Tick)
  /\ WF_atavars(running = "ata" /\ DriverStep)

DevSpec ==
  DevInit /\ [][DevNext]_<<running, kbvars, irqvars, atavars>> /\ DevFair
=============================================================================
