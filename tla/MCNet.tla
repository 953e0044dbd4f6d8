------------------------------- MODULE MCNet -------------------------------
(***************************************************************************)
(* Net for TLC: a host beside ourselves and the gateway, in another        *)
(* network; setip may make any of the three our address or the gateway's,  *)
(* so that any of the others becomes a host of our network or a far one.   *)
(***************************************************************************)
EXTENDS Net

MCIPs == {"our", "gw", "far"}
MCMACs == {"own", "m"}
MCMasks == {"m24"}
MCNetOf == [m \in MCMasks |-> [ip \in MCIPs |-> IF ip = "far" THEN 1 ELSE 0]]

ArpFrame(op, ip) ==
  [type |-> "arp", order |-> "host", op |-> op, ip |-> ip, mac |-> "m", to |-> "our"]
EchoFrame(ip) ==
  [type |-> "ip", order |-> "host", op |-> "echo", ip |-> ip, to |-> "our"]

MCFrames ==
  {ArpFrame("request", "gw"), ArpFrame("reply", "far"),
   EchoFrame("far"),
   [type |-> "dns", order |-> "net"]}

=============================================================================
