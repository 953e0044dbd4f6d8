------------------------------ MODULE MCTimers ------------------------------
(***************************************************************************)
(* LwipTimeouts for TLC: two cyclic timers with different periods, and     *)
(* TCP's.                                                                  *)
(***************************************************************************)
EXTENDS LwipTimeouts, TLC

TwoTimers == <<"arp", "fine">>
Intervals == "arp" :> 3 @@ "fine" :> 2 @@ "tcp" :> 3
=============================================================================
