-------------------------------- MODULE Net --------------------------------
(***************************************************************************)
(* The network code of net.c and dns_simple.c with the commands that use   *)
(* it (commands.c) and the receive side of lwip_port.c.                    *)
(*                                                                         *)
(* Everything runs on the main loop, one command at a time, and receives   *)
(* by polling the ring of the network card: rx is the frames the card      *)
(* holds, oldest first.  A frame is the fields somebody looks at; "dns" is *)
(* the type of every frame parse_dns_response finds an address in.  order  *)
(* says how the ethertype is stored: net.c reads and writes it in host     *)
(* order, other hosts in network order.  ping and dns_resolve_simple sleep *)
(* between two looks, and the card goes on receiving meanwhile.            *)
(* net_handle_packet has no caller in this build; it is an action all the  *)
(* same, as the function a polling loop would call.  The card is present.  *)
(*                                                                         *)
(* The table is the sequence of the entries below arp_cache_count, all of  *)
(* which are valid.                                                        *)
(***************************************************************************)
EXTENDS Integers, Sequences

CONSTANTS IPs, Masks,
          NetOf,                \* NetOf[m][ip]: ip & m
          MACs, OurMac,         \* our_mac
          OurIp, GatewayIp, GatewayMac, Mask,  \* what net_init sets up
          ArpMax,               \* 16
          DnsRounds,            \* 30
          Frames,               \* frames that may arrive
          MaxRx,                \* bound: frames waiting in the card
          MaxArrivals           \* bound: frames arriving at all

ASSUME NetAssumption ==
  /\ NetOf \in [Masks -> [IPs -> Nat]] /\ Mask \in Masks
  /\ {OurMac, GatewayMac} \subseteq MACs
  /\ {OurIp, GatewayIp} \subseteq IPs /\ OurIp # GatewayIp
  /\ ArpMax \in Nat \ {0, 1} /\ {DnsRounds, MaxRx, MaxArrivals} \subseteq Nat

ASSUME FramesAssumption ==
  \A f \in Frames : f.type = "arp" => f.ip \in IPs /\ f.mac \in MACs

VARIABLES arp_cache, our_ip, gateway_ip, subnet_mask, lwip_ready,
          rx,       \* frames in the card
          arrivals, \* bound
          pc,       \* "idle", "ping", "dns", "lwip": where the main loop is
          target,   \* ping: the address pinged (OurIp outside ping)
          round,    \* dns_resolve_simple: i (0 outside it)
          sent,     \* history: the frame the last step sent
          told      \* history: the MAC last announced for each address

config == <<our_ip, gateway_ip, subnet_mask>>
table == <<arp_cache, config>>
vars == <<table, lwip_ready, rx, arrivals, pc, target, round, sent, told>>

NoMac == "none"
NoFrame == [type |-> "none"]

Arp(op, ip) == [type |-> op, ip |-> ip]
Silent == sent' = NoFrame

Echo(type, ip, mac) == [type |-> type, ip |-> ip, mac |-> mac]

-----------------------------------------------------------------------------
(* The table.                                                               *)

Rows(ip) == {i \in 1..Len(arp_cache) : arp_cache[i].ip = ip}

\* The first match.
arp_lookup(ip) ==
  IF Rows(ip) = {} THEN NoMac
  ELSE arp_cache[CHOOSE i \in Rows(ip) : \A j \in Rows(ip) : i =< j].mac

\* Mutant of Learnt: a known address is updated and, with room, gets another
\* entry.
Learnt_Append(ip, mac) ==
  LET t == [i \in 1..Len(arp_cache) |->
              IF i \in Rows(ip) THEN [ip |-> ip, mac |-> mac] ELSE arp_cache[i]]
  IN  IF Len(t) < ArpMax THEN Append(t, [ip |-> ip, mac |-> mac]) ELSE t

\* Mutant of Learnt: a known address keeps its MAC.
Learnt_Keep(ip, mac) ==
  IF Rows(ip) = {} /\ Len(arp_cache) < ArpMax
  THEN Append(arp_cache, [ip |-> ip, mac |-> mac]) ELSE arp_cache

\* arp_add_static, arp_handle_packet and arpset: the entry is updated where it
\* is, or appended while there is room.
Learnt(ip, mac) ==
  IF Rows(ip) # {}
  THEN [i \in 1..Len(arp_cache) |->
          IF i \in Rows(ip) THEN [ip |-> ip, mac |-> mac] ELSE arp_cache[i]]
  ELSE IF Len(arp_cache) < ArpMax
  THEN Append(arp_cache, [ip |-> ip, mac |-> mac]) ELSE arp_cache

Learn(ip, mac) ==
  /\ arp_cache' = Learnt(ip, mac)
  /\ told' = [told EXCEPT ![ip] = mac]

is_local_network(ip) == NetOf[subnet_mask][ip] = NetOf[subnet_mask][our_ip]

\* net_init
Init ==
  /\ our_ip = OurIp /\ gateway_ip = GatewayIp /\ subnet_mask = Mask
  /\ arp_cache = <<[ip |-> OurIp, mac |-> OurMac],
                   [ip |-> GatewayIp, mac |-> GatewayMac]>>
  /\ lwip_ready = FALSE /\ rx = <<>> /\ arrivals = 0
  /\ pc = "idle" /\ target = OurIp /\ round = 0
  /\ sent = NoFrame
  /\ told = [ip \in IPs |-> CASE ip = OurIp -> OurMac
                              [] ip = GatewayIp -> GatewayMac
                              [] OTHER -> NoMac]

\* The card stores a frame while it has room.
Arrive(f) ==
  /\ arrivals < MaxArrivals /\ Len(rx) < MaxRx
  /\ rx' = Append(rx, f) /\ arrivals' = arrivals + 1
  /\ Silent /\ UNCHANGED <<table, lwip_ready, pc, target, round, told>>

-----------------------------------------------------------------------------
(* Commands.                                                                *)

Idle == pc = "idle"
Stay == UNCHANGED <<pc, target, round>>
NoInput == UNCHANGED <<rx, arrivals>>

\* setip: net_set_static_ip
SetIp(ip, gw, mask) ==
  /\ Idle
  /\ our_ip' = ip /\ gateway_ip' = gw /\ subnet_mask' = mask
  /\ arp_cache' = <<[ip |-> ip, mac |-> OurMac]>>
  /\ told' = [told EXCEPT ![ip] = OurMac]
  /\ Stay /\ NoInput /\ Silent /\ UNCHANGED lwip_ready

\* arpset
ArpSet(ip, mac) ==
  /\ Idle
  /\ Learn(ip, mac)
  /\ Stay /\ NoInput /\ Silent /\ UNCHANGED <<config, lwip_ready>>

\* addarp, broadcast
AddArp(ip) ==
  /\ Idle
  /\ sent' = Arp("request", ip)
  /\ Stay /\ NoInput /\ UNCHANGED <<table, lwip_ready, told>>

NextHop(ip) == IF is_local_network(ip) THEN ip ELSE gateway_ip

\* ping up to the sleep.
Ping(ip) ==
  /\ Idle
  /\ LET mac == arp_lookup(NextHop(ip)) IN
       \/ /\ mac # NoMac
          /\ sent' = Echo("echo", ip, mac)
          /\ Stay
       \/ /\ mac = NoMac
          /\ sent' = Arp("request", NextHop(ip))
          /\ pc' = "ping" /\ target' = ip
          /\ UNCHANGED round
  /\ NoInput /\ UNCHANGED <<table, lwip_ready, told>>

\* The second look, 200 ms later.
PingAgain ==
  /\ pc = "ping"
  /\ pc' = "idle" /\ target' = OurIp
  /\ LET mac == arp_lookup(NextHop(target)) IN
       sent' = IF mac = NoMac THEN NoFrame ELSE Echo("echo", target, mac)
  /\ NoInput /\ UNCHANGED <<table, lwip_ready, round, told>>

\* icmp_send_reply
Reply(ip, mac) ==
  sent' = IF mac = NoMac THEN Arp("request", ip) ELSE Echo("reply", ip, mac)

\* loopback: an echo request from our_ip, handled without the card.
Loopback ==
  /\ Idle
  /\ LET mac == arp_lookup(our_ip) IN
       IF mac = NoMac THEN Silent ELSE Reply(our_ip, mac)
  /\ Stay /\ NoInput /\ UNCHANGED <<table, lwip_ready, told>>

\* rxcheck: up to 100 frames, more than the card holds, are thrown away.
RxCheck ==
  /\ Idle
  /\ rx' = <<>>
  /\ Stay /\ Silent /\ UNCHANGED <<table, lwip_ready, arrivals, told>>

-----------------------------------------------------------------------------
(* Receiving.                                                               *)

\* Mutant of HandleArp: the gateway is like any other host.
HandleArp_Gateway(f) ==
  /\ Learn(f.ip, f.mac)
  /\ sent' = IF f.op = "request" /\ f.to = our_ip
             THEN Echo("arp reply", f.ip, f.mac) ELSE NoFrame

\* arp_handle_packet
HandleArp(f) ==
  IF f.ip = gateway_ip
  THEN Silent /\ UNCHANGED <<arp_cache, told>>
  ELSE /\ Learn(f.ip, f.mac)
       /\ sent' = IF f.op = "request" /\ f.to = our_ip
                  THEN Echo("arp reply", f.ip, f.mac) ELSE NoFrame

\* ip_handle_packet and icmp_handle_packet
HandleIp(f) ==
  /\ IF f.to = our_ip /\ f.op = "echo" THEN Reply(f.ip, arp_lookup(f.ip))
     ELSE Silent
  /\ UNCHANGED <<arp_cache, told>>

\* Only an ethertype in host order is recognised.
HandleFrame(f) ==
  CASE f.order = "host" /\ f.type = "arp" -> HandleArp(f)
    [] f.order = "host" /\ f.type = "ip" -> HandleIp(f)
    [] OTHER -> Silent /\ UNCHANGED <<arp_cache, told>>

\* Mutant of net_handle_packet: also while ping sleeps.
net_handle_packet_InSleep ==
  /\ pc \in {"idle", "ping"} /\ rx # <<>>
  /\ rx' = Tail(rx)
  /\ HandleFrame(Head(rx))
  /\ Stay /\ UNCHANGED <<config, lwip_ready, arrivals>>

net_handle_packet ==
  /\ Idle /\ rx # <<>>
  /\ rx' = Tail(rx)
  /\ HandleFrame(Head(rx))
  /\ Stay /\ UNCHANGED <<config, lwip_ready, arrivals>>

\* browse, httpget: dns_resolve_simple up to its loop.
DnsQuery ==
  /\ Idle
  /\ pc' = "dns" /\ round' = 0
  /\ sent' = Echo("dns query", GatewayIp, GatewayMac)
  /\ NoInput /\ UNCHANGED <<table, lwip_ready, target, told>>

\* Mutant of DnsRound: a frame that is no answer costs no round.
DnsRound_Free ==
  /\ pc = "dns" /\ round < DnsRounds
  /\ IF rx # <<>> THEN rx' = Tail(rx) ELSE UNCHANGED rx
  /\ IF rx # <<>> /\ Head(rx).type = "dns"
     THEN pc' = "idle" /\ round' = 0
     ELSE UNCHANGED <<pc, round>>
  /\ Silent /\ UNCHANGED <<table, lwip_ready, arrivals, target, told>>

\* One round of the loop: any frame is taken, an answer with an address ends
\* the call, and everything else is dropped.
DnsRound ==
  /\ pc = "dns" /\ round < DnsRounds
  /\ IF rx # <<>> THEN rx' = Tail(rx) ELSE UNCHANGED rx
  /\ IF rx # <<>> /\ Head(rx).type = "dns"
     THEN pc' = "idle" /\ round' = 0
     ELSE round' = round + 1 /\ UNCHANGED pc
  /\ Silent /\ UNCHANGED <<table, lwip_ready, arrivals, target, told>>

DnsGiveUp ==
  /\ pc = "dns" /\ round = DnsRounds
  /\ pc' = "idle" /\ round' = 0
  /\ Silent /\ UNCHANGED <<table, lwip_ready, rx, arrivals, target, told>>

\* lwip; without memory for the netif it changes nothing.  What the command
\* does once the stack is up is the subject of LwipTimeouts.
LwipInit ==
  /\ Idle /\ ~lwip_ready
  /\ lwip_ready' \in {TRUE, lwip_ready}
  /\ Stay /\ NoInput /\ Silent /\ UNCHANGED <<table, told>>

\* lwip_poll: a frame goes to lwip_input_fn, or is dropped without a pbuf.
LwipPoll ==
  /\ Idle /\ lwip_ready /\ rx # <<>>
  /\ rx' = Tail(rx) /\ pc' \in {"lwip", "idle"}
  /\ Silent /\ UNCHANGED <<table, lwip_ready, arrivals, target, round, told>>

\* lwip_input_fn calls inp->input, which netif_add has set to lwip_input_fn.
LwipInput ==
  /\ pc = "lwip"
  /\ UNCHANGED vars

Main ==
  \/ PingAgain \/ DnsRound \/ DnsGiveUp \/ LwipInput

Command ==
  \/ \E ip, gw \in IPs, mask \in Masks : SetIp(ip, gw, mask)
  \/ \E ip \in IPs, mac \in MACs : ArpSet(ip, mac)
  \/ \E ip \in IPs : AddArp(ip) \/ Ping(ip)
  \/ Loopback \/ RxCheck \/ DnsQuery \/ LwipInit

Next ==
  \/ \E f \in Frames : Arrive(f)
  \/ Command \/ Main \/ LwipPoll \/ net_handle_packet

Spec == Init /\ [][Next]_vars /\ WF_vars(Main)

-----------------------------------------------------------------------------
(* Properties.                                                              *)

Entries == [ip : IPs, mac : MACs]

\* The table is a sequence of entries that fits into arp_cache[16], and the
\* other variables have the values the code gives them.
TypeOK ==
  /\ arp_cache \in Seq(Entries) /\ Len(arp_cache) \in 1..ArpMax
  /\ our_ip \in IPs /\ gateway_ip \in IPs /\ subnet_mask \in Masks
  /\ lwip_ready \in BOOLEAN
  /\ rx \in Seq(Frames) /\ Len(rx) =< MaxRx /\ arrivals \in 0..MaxArrivals
  /\ pc \in {"idle", "ping", "dns", "lwip"}
  /\ target \in IPs /\ round \in 0..DnsRounds
  /\ told \in [IPs -> MACs \cup {NoMac}]

\* An address has one entry at most, whatever arpset, setip and received
\* frames do to the table: what arp_lookup finds first is all there is.
OneEntryEach ==
  \A i, j \in 1..Len(arp_cache) : arp_cache[i].ip = arp_cache[j].ip => i = j

\* Every entry holds the MAC announced last for its address, by the setup, by
\* arpset or by an ARP frame that was not ignored: a lookup never returns an
\* address that has been replaced, over any number of setip commands.
TableFresh ==
  \A i \in 1..Len(arp_cache) : arp_cache[i].mac = told[arp_cache[i].ip]

\* The ARP table over any sequence of commands and frames: one entry for an
\* address, and in it what was announced last.
TableRight == OneEntryEach /\ TableFresh

\* A received frame never changes what the table says of the gateway, and
\* never adds it: after setip has dropped the gateway's entry only arpset
\* brings it back, and until then ping reaches no host outside the network.
GatewayPinned ==
  [][Len(rx') < Len(rx) => arp_lookup(gateway_ip)' = arp_lookup(gateway_ip)]_vars

\* The 200 ms ping waits for an ARP reply are in vain: no frame is looked at
\* while it sleeps, so that the second lookup fails like the first one and
\* no echo request is sent.
WaitInVain == pc = "ping" => arp_lookup(NextHop(target)) = NoMac

\* ping and dns_resolve_simple return, whatever arrives meanwhile.
CommandsReturn == pc \in {"ping", "dns"} ~> pc = "idle"

\* lwip_poll comes back from the input callback it was given, which lwIP says
\* passes a frame up the stack.
PollReturns == pc = "lwip" ~> pc = "idle"

=============================================================================
