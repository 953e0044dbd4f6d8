----------------------------- MODULE MCNetwork -----------------------------
(***************************************************************************)
(* The network for TLC: the stack of net.c, DNS lookups, the timers of     *)
(* lwIP and the card's driver.  A behaviour is one of the part named by    *)
(* running, while the others are where they start; the variables the parts *)
(* would share are abstracted by each in its own way.                      *)
(***************************************************************************)
EXTENDS MCNet, Dns, MCTimers, Rtl8139

VARIABLE running

NwInit ==
  /\ running \in {"net", "dns", "timers", "card"}
  /\ Init /\ DnsInit /\ LwInit /\ RtlInit

NwNext ==
  /\ UNCHANGED running
  /\ \/ running = "net" /\ Next /\ UNCHANGED <<dnsvars, ltvars, rtlvars>>
     \/ running = "dns" /\ DnsNext /\ UNCHANGED <<vars, ltvars, rtlvars>>
     \/ running = "timers" /\ LwNext /\ UNCHANGED <<vars, dnsvars, rtlvars>>
     \/ running = "card" /\ RtlNext /\ UNCHANGED <<vars, dnsvars, ltvars>>

\* The fairness of the modules: what it is about is enabled only in the part
\* that runs.
NwSpec ==
  /\ NwInit /\ [][NwNext]_<<running, vars, dnsvars, ltvars, rtlvars>>
  /\ WF_vars(Main) /\ LwFair
=============================================================================
