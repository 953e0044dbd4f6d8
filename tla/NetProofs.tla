------------------------------ MODULE NetProofs ------------------------------
(****************************************************************************)
(* For every set of addresses, frames and bounds: the ARP table is a map    *)
(* that tells the address announced last, the gateway is not learnt, and    *)
(* ping waits in vain.  What a frame that goes out holds and the order in   *)
(* which frames are handed out, for any ring, frames, polls and pace of the *)
(* card.  Whose answer a lookup returns, for any names, rounds and delays.  *)
(****************************************************************************)
EXTENDS Net, Rtl8139, Dns, Loops, SequenceTheorems, TLAPS

\* Zenon proves a step that names no other prover.
USE ZenonT(60)

-----------------------------------------------------------------------------
(* The ARP table and ping.                                                  *)

Table == arp_cache \in Seq(Entries) /\ Len(arp_cache) \in 1..ArpMax

\* One step of learning: the table stays within its array, and every entry is
\* the new one or an old one of another address in its old place.
LEMMA LearntIs ==
  ASSUME Table, NEW ip \in IPs, NEW mac \in MACs
  PROVE  LET t == Learnt(ip, mac)
             new == [ip |-> ip, mac |-> mac]
         IN  /\ t \in Seq(Entries) /\ Len(t) \in 1..ArpMax
             /\ Len(arp_cache) =< Len(t)
             /\ \A i \in 1..Len(t) :
                  \/ i \in 1..Len(arp_cache) /\ arp_cache[i].ip = ip /\ t[i] = new
                  \/ i \in 1..Len(arp_cache) /\ arp_cache[i].ip # ip /\ t[i] = arp_cache[i]
                  \/ i = Len(arp_cache) + 1 /\ Rows(ip) = {} /\ t[i] = new
<1> DEFINE n == Len(arp_cache)
           new == [ip |-> ip, mac |-> mac]
           t == Learnt(ip, mac)
<1>1. n \in Nat /\ n \in 1..ArpMax /\ ArpMax \in Nat /\ new \in Entries
  BY NetAssumption, SMTT(60) DEF Table, Entries
<1>2. \A i \in 1..n : arp_cache[i] \in Entries
  BY SMTT(60) DEF Table
<1>3. CASE Rows(ip) # {}
  <2> DEFINE f(i) == IF i \in Rows(ip) THEN new ELSE arp_cache[i]
  <2>1. t = [i \in 1..n |-> f(i)]
    BY <1>3 DEF Learnt
  <2>2. \A i \in 1..n : f(i) \in Entries
    BY <1>1, <1>2
  <2>3. t \in Seq(Entries) /\ Len(t) = n
    <3> HIDE DEF f, n, t
    <3> QED BY <1>1, <2>1, <2>2, SeqDef, SMTT(60)
  <2>4. \A i \in 1..n : t[i] = f(i)
    BY <2>1
  <2>5. \A i \in 1..n : i \in Rows(ip) <=> arp_cache[i].ip = ip
    BY DEF Rows
  <2> HIDE DEF t, n, new
  <2>6. \A i \in 1..n : \/ arp_cache[i].ip = ip /\ t[i] = new
                        \/ arp_cache[i].ip # ip /\ t[i] = arp_cache[i]
    BY <2>4, <2>5
  <2> QED BY <1>1, <2>3, <2>6, SMTT(60) DEF t, n, new
<1>4. CASE Rows(ip) = {}
  <2>1. \A i \in 1..n : arp_cache[i].ip # ip
    BY <1>4 DEF Rows
  <2>2. CASE n < ArpMax
    <3>1. t = Append(arp_cache, new)
      BY <1>4, <2>2 DEF Learnt
    <3>2. t \in Seq(Entries) /\ Len(t) = n + 1 /\ t[n + 1] = new
          /\ \A i \in 1..n : t[i] = arp_cache[i]
      <4> HIDE DEF t, new
      <4> QED BY <1>1, <3>1, SMTT(60) DEF Table
    <3> HIDE DEF t, new, n
    <3>3. \A i \in 1..Len(t) : i \in 1..n \/ i = n + 1
      BY <1>1, <3>2, SMTT(60)
    <3> QED BY <1>1, <1>4, <2>1, <2>2, <3>2, <3>3, SMTT(60) DEF t, new, n
  <2>3. CASE ~(n < ArpMax)
    <3>1. t = arp_cache
      BY <1>4, <2>3 DEF Learnt
    <3> HIDE DEF t
    <3> QED BY <1>1, <2>1, <3>1, SMTT(60) DEF Table, t
  <2> QED BY <2>2, <2>3
<1> QED BY <1>3, <1>4

\* The table is well formed: within its array, a map, and up to date.
TableOK == Table /\ told \in [IPs -> MACs \cup {NoMac}] /\ OneEntryEach /\ TableFresh

\* Learning an address keeps the table a map that is up to date.
LEMMA LearnKeeps ==
  ASSUME TableOK, NEW ip \in IPs, NEW mac \in MACs, Learn(ip, mac)
  PROVE  TableOK'
<1> DEFINE n == Len(arp_cache)
           new == [ip |-> ip, mac |-> mac]
           t == Learnt(ip, mac)
<1>1. Table
  BY DEF TableOK
<1>2. /\ t \in Seq(Entries) /\ Len(t) \in 1..ArpMax
      /\ \A i \in 1..Len(t) :
           \/ i \in 1..n /\ arp_cache[i].ip = ip /\ t[i] = new
           \/ i \in 1..n /\ arp_cache[i].ip # ip /\ t[i] = arp_cache[i]
           \/ i = n + 1 /\ Rows(ip) = {} /\ t[i] = new
  BY <1>1, LearntIs
<1>3. arp_cache' = t /\ told' = [told EXCEPT ![ip] = mac]
  BY DEF Learn
<1>4. n \in Nat /\ \A i \in 1..n : arp_cache[i].ip \in IPs
  <2>1. n \in Nat /\ \A i \in 1..n : arp_cache[i] \in Entries
    BY <1>1, SMTT(60) DEF Table
  <2> HIDE DEF n
  <2> QED BY <2>1 DEF Entries
<1>5. Rows(ip) = {} => \A i \in 1..n : arp_cache[i].ip # ip
  BY DEF Rows
<1>6. \A i, j \in 1..n : arp_cache[i].ip = arp_cache[j].ip => i = j
  BY DEF TableOK, OneEntryEach
<1>7. \A i \in 1..n : arp_cache[i].mac = told[arp_cache[i].ip]
  BY DEF TableOK, TableFresh
<1>8. new.ip = ip /\ new.mac = mac
  OBVIOUS
<1> HIDE DEF t, new, n
<1>9. \A i, j \in 1..Len(t) : t[i].ip = t[j].ip => i = j
  <2> SUFFICES ASSUME NEW i \in 1..Len(t), NEW j \in 1..Len(t), t[i].ip = t[j].ip
               PROVE  i = j
    OBVIOUS
  <2>1. CASE i \in 1..n /\ j \in 1..n
    <3>1. arp_cache[i].ip = t[i].ip /\ arp_cache[j].ip = t[j].ip
      BY <1>2, <1>4, <1>8, <2>1, SMTT(60)
    <3> QED BY <3>1, <1>6, <2>1
  <2>2. CASE i = n + 1 \/ j = n + 1
    BY <1>2, <1>4, <1>5, <1>8, <2>2, SMTT(60)
  <2> QED BY <1>2, <2>1, <2>2
<1>10. told' \in [IPs -> MACs \cup {NoMac}]
  BY <1>3 DEF TableOK
<1>11. \A i \in 1..Len(t) : t[i].mac = told'[t[i].ip]
  <2> SUFFICES ASSUME NEW i \in 1..Len(t) PROVE t[i].mac = told'[t[i].ip]
    OBVIOUS
  <2>1. told' = [told EXCEPT ![ip] = mac] /\ told \in [IPs -> MACs \cup {NoMac}]
    BY <1>3 DEF TableOK
  <2>2. CASE t[i] = new
    BY <1>8, <2>1, <2>2
  <2>3. CASE i \in 1..n /\ arp_cache[i].ip # ip /\ t[i] = arp_cache[i]
    BY <1>4, <1>7, <2>1, <2>3
  <2> QED BY <1>2, <2>2, <2>3
<1> QED BY <1>2, <1>3, <1>9, <1>10, <1>11 DEF TableOK, Table, OneEntryEach, TableFresh

\* The variables the table is not made of.
RestOK ==
  /\ our_ip \in IPs /\ gateway_ip \in IPs /\ subnet_mask \in Masks
  /\ lwip_ready \in BOOLEAN
  /\ rx \in Seq(Frames) /\ Len(rx) =< MaxRx /\ arrivals \in 0..MaxArrivals
  /\ pc \in {"idle", "ping", "dns", "lwip"}
  /\ target \in IPs /\ round \in 0..DnsRounds

NetInv == TableOK /\ RestOK /\ WaitInVain

\* The limits are naturals.
LEMMA Bounds == ArpMax \in Nat /\ DnsRounds \in Nat /\ MaxRx \in Nat /\ MaxArrivals \in Nat
BY NetAssumption

\* An empty ring.
LEMMA NoFrames == <<>> \in Seq(Frames) /\ Len(<<>>) = 0 /\ 0 =< MaxRx
BY Bounds, SMTT(60)

\* net_init leaves a table of two rows, ourselves and the gateway.
LEMMA NetInitHolds == Init => NetInv
<1> SUFFICES ASSUME Init PROVE NetInv
  OBVIOUS
<1> DEFINE own == [ip |-> OurIp, mac |-> OurMac]
           gw == [ip |-> GatewayIp, mac |-> GatewayMac]
<1>1. arp_cache = <<own, gw>> /\ own \in Entries /\ gw \in Entries /\ OurIp # GatewayIp
  BY NetAssumption DEF Init, Entries
<1>2. Table /\ Len(arp_cache) = 2 /\ arp_cache[1] = own /\ arp_cache[2] = gw
  <2> HIDE DEF own, gw
  <2> QED BY <1>1, NetAssumption, SMTT(60) DEF Table
<1>3. told = [ip \in IPs |-> CASE ip = OurIp -> OurMac
                               [] ip = GatewayIp -> GatewayMac
                               [] OTHER -> NoMac]
  BY DEF Init
<1>4. /\ told \in [IPs -> MACs \cup {NoMac}]
      /\ told[OurIp] = OurMac /\ told[GatewayIp] = GatewayMac
  BY <1>1, <1>3, NetAssumption
<1>5. 1..2 = {1, 2}
  BY SMTT(60)
<1>6. OneEntryEach /\ TableFresh
  BY <1>1, <1>2, <1>4, <1>5, SMTT(60) DEF OneEntryEach, TableFresh
<1>7. RestOK /\ WaitInVain
  <2>1. /\ our_ip = OurIp /\ gateway_ip = GatewayIp /\ subnet_mask = Mask
        /\ rx = <<>> /\ arrivals = 0 /\ pc = "idle" /\ target = OurIp /\ round = 0
    BY DEF Init
  <2>2. lwip_ready \in BOOLEAN
    BY DEF Init
  <2>3. our_ip \in IPs /\ gateway_ip \in IPs /\ subnet_mask \in Masks /\ target \in IPs
    BY <2>1, NetAssumption
  <2>4. rx \in Seq(Frames) /\ Len(rx) =< MaxRx
    BY <2>1, NoFrames
  <2>5. arrivals \in 0..MaxArrivals /\ round \in 0..DnsRounds
    BY <2>1, Bounds, SMTT(60)
  <2> QED BY <2>1, <2>2, <2>3, <2>4, <2>5 DEF RestOK, WaitInVain
<1> QED BY <1>2, <1>4, <1>6, <1>7 DEF NetInv, TableOK

\* A step that leaves the table alone and does not begin a ping.
LEMMA TableUntouched ==
  ASSUME NetInv, RestOK', UNCHANGED <<table, told>>, pc' = "ping" => UNCHANGED <<pc, target>>
  PROVE  NetInv'
<1>1. TableOK'
  BY DEF NetInv, TableOK, Table, OneEntryEach, TableFresh, table
<1>2. WaitInVain'
  BY SMTT(60) DEF NetInv, WaitInVain, arp_lookup, Rows, NextHop, is_local_network, table, config
<1> QED BY <1>1, <1>2 DEF NetInv

\* Taking the oldest frame out of the card.
LEMMA TailOfFrames ==
  ASSUME RestOK, rx # <<>>
  PROVE  Head(rx) \in Frames /\ Tail(rx) \in Seq(Frames) /\ Len(Tail(rx)) =< MaxRx
         /\ Len(Tail(rx)) < Len(rx)
BY Bounds, SMTT(60) DEF RestOK

\* Commands and receiving: one step for each.
LEMMA CommandKeeps == NetInv /\ Command => NetInv'
<1> SUFFICES ASSUME NetInv, Command PROVE NetInv'
  OBVIOUS
<1> USE DEF NetInv
<1>1. ASSUME NEW ip \in IPs, NEW gw \in IPs, NEW mask \in Masks, SetIp(ip, gw, mask)
      PROVE  NetInv'
  <2> DEFINE own == [ip |-> ip, mac |-> OurMac]
  <2>1. arp_cache' = <<own>> /\ own \in Entries /\ told' = [told EXCEPT ![ip] = OurMac]
    BY <1>1, NetAssumption DEF SetIp, Entries
  <2>2. Table' /\ Len(arp_cache') = 1 /\ arp_cache'[1] = own
    <3> HIDE DEF own
    <3> QED BY <2>1, NetAssumption, SMTT(60) DEF Table
  <2>3. told' \in [IPs -> MACs \cup {NoMac}] /\ told'[ip] = OurMac
    BY <2>1, NetAssumption DEF TableOK
  <2>4. OneEntryEach' /\ TableFresh'
    BY <2>2, <2>3, SMTT(60) DEF OneEntryEach, TableFresh
  <2>5. RestOK' /\ pc' = "idle"
    BY <1>1 DEF SetIp, RestOK, Stay, NoInput, Idle
  <2> QED BY <2>2, <2>3, <2>4, <2>5 DEF TableOK, WaitInVain
<1>2. ASSUME NEW ip \in IPs, NEW mac \in MACs, ArpSet(ip, mac) PROVE NetInv'
  <2>1. TableOK'
    BY <1>2, LearnKeeps DEF ArpSet
  <2>2. RestOK' /\ pc' = "idle"
    BY <1>2 DEF ArpSet, RestOK, Stay, NoInput, Idle, config
  <2> QED BY <2>1, <2>2 DEF WaitInVain
<1>3. ASSUME NEW ip \in IPs, AddArp(ip) PROVE NetInv'
  BY <1>3, TableUntouched DEF AddArp, RestOK, Stay, NoInput, Idle, table, config
<1>4. ASSUME NEW ip \in IPs, Ping(ip) PROVE NetInv'
  <2>1. RestOK' /\ UNCHANGED <<table, told>>
    BY <1>4 DEF Ping, RestOK, Stay, NoInput, Idle, table, config
  <2>2. CASE pc' = "ping" /\ target' = ip /\ arp_lookup(NextHop(ip)) = NoMac
    <3>1. TableOK'
      BY <2>1 DEF TableOK, Table, OneEntryEach, TableFresh, table
    <3>2. WaitInVain'
      BY <2>1, <2>2 DEF WaitInVain, arp_lookup, Rows, NextHop, is_local_network, table, config
    <3> QED BY <2>1, <3>1, <3>2
  <2>3. CASE pc' = "idle"
    BY <2>1, <2>3, TableUntouched
  <2> QED BY <1>4, <2>2, <2>3 DEF Ping, Stay, Idle
<1>5. CASE Loopback
  BY <1>5, TableUntouched DEF Loopback, RestOK, Stay, NoInput, Idle, table, config
<1>6. CASE RxCheck
  <2>1. RestOK'
    <3>1. rx' \in Seq(Frames) /\ Len(rx') =< MaxRx
      BY <1>6, NoFrames DEF RxCheck
    <3> QED BY <1>6, <3>1 DEF RxCheck, RestOK, Stay, table, config
  <2> QED BY <1>6, <2>1, TableUntouched DEF RxCheck, Stay, Idle
<1>7. CASE DnsQuery
  <2>1. RestOK'
    <3>0. round' = 0
      BY <1>7 DEF DnsQuery
    <3>1. round' \in 0..DnsRounds
      BY <3>0, Bounds, SMTT(60)
    <3> QED BY <1>7, <3>1 DEF DnsQuery, RestOK, NoInput, table, config
  <2> QED BY <1>7, <2>1, TableUntouched DEF DnsQuery
<1>8. CASE LwipInit
  BY <1>8, TableUntouched DEF LwipInit, RestOK, Stay, NoInput, Idle, table, config
<1> QED BY <1>1, <1>2, <1>3, <1>4, <1>5, <1>6, <1>7, <1>8 DEF Command

\* net_handle_packet learns an address or leaves the table alone.
LEMMA HandleKeeps == NetInv /\ net_handle_packet => NetInv'
<1> SUFFICES ASSUME NetInv, net_handle_packet PROVE NetInv'
  OBVIOUS
<1> USE DEF NetInv
<1> DEFINE f == Head(rx)
<1>1. /\ rx # <<>> /\ rx' = Tail(rx) /\ HandleFrame(f) /\ pc' = "idle" /\ pc = "idle"
      /\ UNCHANGED <<config, lwip_ready, arrivals, target, round>>
  BY DEF net_handle_packet, Idle, Stay
<1>2. f \in Frames /\ Tail(rx) \in Seq(Frames) /\ Len(Tail(rx)) =< MaxRx
  BY <1>1, TailOfFrames
<1> HIDE DEF f
<1>3. RestOK'
  BY <1>1, <1>2 DEF RestOK, config
<1>4. CASE f.order = "host" /\ f.type = "arp" /\ f.ip # gateway_ip
  <2>1. Learn(f.ip, f.mac)
    BY <1>1, <1>4 DEF HandleFrame, HandleArp
  <2>2. f.ip \in IPs /\ f.mac \in MACs
    BY <1>2, <1>4, FramesAssumption
  <2>3. TableOK'
    BY <2>1, <2>2, LearnKeeps
  <2> QED BY <1>1, <1>3, <2>3 DEF WaitInVain
<1>5. CASE ~(f.order = "host" /\ f.type = "arp" /\ f.ip # gateway_ip)
  <2>1. UNCHANGED <<arp_cache, told>>
    BY <1>1, <1>5 DEF HandleFrame, HandleArp, HandleIp
  <2> QED BY <1>1, <1>3, <2>1, TableUntouched DEF table
<1> QED BY <1>4, <1>5

\* The rest of ping, of dns_resolve_simple and of lwip_input_fn.
LEMMA MainKeeps == NetInv /\ Main => NetInv'
<1> SUFFICES ASSUME NetInv, Main PROVE NetInv'
  OBVIOUS
<1> USE DEF NetInv
<1>1. CASE PingAgain
  <2>1. RestOK'
    BY <1>1, NetAssumption DEF PingAgain, RestOK, NoInput, table, config
  <2> QED BY <1>1, <2>1, TableUntouched DEF PingAgain
<1>2. CASE DnsRound
  <2>1. /\ pc = "dns" /\ pc' \in {"dns", "idle"}
        /\ UNCHANGED <<table, lwip_ready, arrivals, target, told>>
    BY <1>2 DEF DnsRound
  <2>2. rx' = rx \/ (rx # <<>> /\ rx' = Tail(rx))
    BY <1>2 DEF DnsRound
  <2>3. rx' \in Seq(Frames) /\ Len(rx') =< MaxRx
    BY <2>2, TailOfFrames DEF RestOK
  <2>4. round' \in 0..DnsRounds
    BY <1>2, Bounds, SMTT(60) DEF DnsRound, RestOK
  <2>5. RestOK'
    BY <2>1, <2>3, <2>4 DEF RestOK, table, config
  <2> QED BY <2>1, <2>5, TableUntouched
<1>3. CASE DnsGiveUp
  <2>1. RestOK'
    <3>1. round' \in 0..DnsRounds
      BY <1>3, Bounds, SMTT(60) DEF DnsGiveUp
    <3> QED BY <1>3, <3>1 DEF DnsGiveUp, RestOK, table, config
  <2> QED BY <1>3, <2>1, TableUntouched DEF DnsGiveUp
<1>4. CASE LwipInput
  BY <1>4, TableUntouched DEF LwipInput, vars, RestOK, table, config
<1> QED BY <1>1, <1>2, <1>3, <1>4 DEF Main

\* Arrivals, lwip_poll and steps that change nothing.
LEMMA OthersKeep ==
  NetInv /\ ((\E f \in Frames : Arrive(f)) \/ LwipPoll \/ UNCHANGED vars) => NetInv'
<1> SUFFICES ASSUME NetInv,
                    (\E f \in Frames : Arrive(f)) \/ LwipPoll \/ UNCHANGED vars
             PROVE  NetInv'
  OBVIOUS
<1> USE DEF NetInv
<1>1. ASSUME NEW f \in Frames, Arrive(f) PROVE NetInv'
  <2>1. /\ arrivals < MaxArrivals /\ Len(rx) < MaxRx
        /\ rx' = Append(rx, f) /\ arrivals' = arrivals + 1
        /\ UNCHANGED <<table, lwip_ready, pc, target, round, told>>
    BY <1>1 DEF Arrive
  <2>2. rx' \in Seq(Frames) /\ Len(rx') =< MaxRx /\ arrivals' \in 0..MaxArrivals
    BY <2>1, Bounds, SMTT(60) DEF RestOK
  <2>3. RestOK'
    BY <2>1, <2>2 DEF RestOK, table, config
  <2> QED BY <2>1, <2>3, TableUntouched
<1>2. CASE LwipPoll
  <2>1. /\ rx # <<>> /\ rx' = Tail(rx) /\ pc' \in {"lwip", "idle"}
        /\ UNCHANGED <<table, lwip_ready, arrivals, target, round, told>>
    BY <1>2 DEF LwipPoll
  <2>2. RestOK'
    BY <2>1, TailOfFrames DEF RestOK, table, config
  <2> QED BY <2>1, <2>2, TableUntouched
<1>3. CASE UNCHANGED vars
  BY <1>3, TableUntouched DEF vars, RestOK, table, config
<1> QED BY <1>1, <1>2, <1>3

\* Every step keeps the invariant.
LEMMA NextKeeps == NetInv /\ [Next]_vars => NetInv'
BY CommandKeeps, HandleKeeps, MainKeeps, OthersKeep DEF Next

\* The invariant holds throughout a session.
LEMMA AlwaysIInv == Spec => []NetInv
BY NetInitHolds, NextKeeps, PTL DEF Spec

\* The table stays within arp_cache[16] and every other variable within its
\* range, for all addresses, frames and bounds.
THEOREM NetTypeCorrect == Spec => []TypeOK
<1>1. NetInv => TypeOK
  BY DEF NetInv, TypeOK, TableOK, Table, RestOK
<1> QED BY <1>1, AlwaysIInv, PTL

\* No sequence of setip, arpset and received frames gives an address two
\* entries, and an entry tells the MAC announced last.
THEOREM TableAlwaysRight == Spec => []TableRight
<1>1. NetInv => TableRight
  BY DEF NetInv, TableOK, TableRight
<1> QED BY <1>1, AlwaysIInv, PTL

\* The second lookup of ping never finds what the first one did not.
THEOREM AlwaysWaitInVain == Spec => []WaitInVain
<1>1. NetInv => WaitInVain
  BY DEF NetInv
<1> QED BY <1>1, AlwaysIInv, PTL

\* Learning another address leaves the row and the answer of an address alone.
LEMMA LookupKept ==
  ASSUME Table, NEW ip \in IPs, NEW mac \in MACs, NEW gw \in IPs, gw # ip,
         arp_cache' = Learnt(ip, mac)
  PROVE  arp_lookup(gw)' = arp_lookup(gw)
<1> DEFINE n == Len(arp_cache)
           new == [ip |-> ip, mac |-> mac]
           t == Learnt(ip, mac)
           R == Rows(gw)
           least == CHOOSE i \in R : \A j \in R : i =< j
<1>1. /\ n =< Len(t) /\ n \in Nat /\ Len(t) \in Nat
      /\ \A i \in 1..Len(t) :
           \/ i \in 1..n /\ arp_cache[i].ip = ip /\ t[i] = new
           \/ i \in 1..n /\ arp_cache[i].ip # ip /\ t[i] = arp_cache[i]
           \/ i = n + 1 /\ Rows(ip) = {} /\ t[i] = new
  BY LearntIs, SMTT(60) DEF Table
<1>2. new.ip = ip /\ arp_cache' = t
  OBVIOUS
<1>3. R = {i \in 1..n : arp_cache[i].ip = gw}
  BY DEF Rows
<1>4. R' = {i \in 1..Len(t) : t[i].ip = gw}
  BY <1>2 DEF Rows
<1>5. \A i \in 1..n : i \in 1..Len(t)
  BY <1>1, SMTT(60)
<1>6. /\ {i \in 1..Len(t) : t[i].ip = gw} = R
      /\ \A i \in R : t[i] = arp_cache[i]
  <2> HIDE DEF n, new, t, R
  <2> QED BY <1>1, <1>2, <1>3, <1>5, SMTT(60)
<1>7. R' = R
  BY <1>4, <1>6
<1>8. arp_lookup(gw) = IF R = {} THEN NoMac ELSE arp_cache[least].mac
  BY DEF arp_lookup
<1>9. arp_lookup(gw)' = IF R = {} THEN NoMac ELSE t[least].mac
  BY <1>2, <1>7, SMTT(60) DEF arp_lookup
<1>10. R # {} => least \in R
  <2>1. R \subseteq Nat
    BY <1>3, <1>1, SMTT(60)
  <2> HIDE DEF R
  <2> QED BY <2>1, MinOfNats
<1> HIDE DEF R, t, least
<1> QED BY <1>6, <1>8, <1>9, <1>10, SMTT(60)

\* A received frame never changes what the table says of the gateway.
THEOREM GatewayAlwaysPinned == Spec => GatewayPinned
<1>1. ASSUME NetInv, [Next]_vars, Len(rx') < Len(rx)
      PROVE  arp_lookup(gateway_ip)' = arp_lookup(gateway_ip)
  <2>1. CASE UNCHANGED table
    BY <2>1, SMTT(60) DEF table, config, arp_lookup, Rows
  <2>2. CASE \E ip, gw \in IPs, mask \in Masks : SetIp(ip, gw, mask)
    BY <1>1, <2>2, SMTT(60) DEF SetIp, NoInput, NetInv, RestOK
  <2>3. CASE \E ip \in IPs, mac \in MACs : ArpSet(ip, mac)
    BY <1>1, <2>3, SMTT(60) DEF ArpSet, NoInput, NetInv, RestOK
  <2>4. CASE net_handle_packet
    <3> DEFINE f == Head(rx)
    <3>1. rx # <<>> /\ HandleFrame(f) /\ UNCHANGED config
      BY <2>4 DEF net_handle_packet
    <3>2. f \in Frames /\ gateway_ip \in IPs /\ gateway_ip' = gateway_ip /\ Table
      BY <1>1, <3>1, TailOfFrames DEF NetInv, RestOK, TableOK, config
    <3> HIDE DEF f
    <3>3. CASE f.order = "host" /\ f.type = "arp" /\ f.ip # gateway_ip
      <4>1. arp_cache' = Learnt(f.ip, f.mac)
        BY <3>1, <3>3 DEF HandleFrame, HandleArp, Learn
      <4>2. f.ip \in IPs /\ f.mac \in MACs
        BY <3>2, <3>3, FramesAssumption
      <4> DEFINE gw == gateway_ip
      <4>3. arp_lookup(gw)' = arp_lookup(gw)
        BY <3>2, <3>3, <4>1, <4>2, LookupKept
      <4> QED BY <4>3
    <3>4. CASE ~(f.order = "host" /\ f.type = "arp" /\ f.ip # gateway_ip)
      <4>1. UNCHANGED table
        BY <3>1, <3>4 DEF HandleFrame, HandleArp, HandleIp, table
      <4> QED BY <4>1, <2>1
    <3> QED BY <3>3, <3>4
  <2> QED BY <1>1, <2>1, <2>2, <2>3, <2>4
          DEF Next, Command, Main, Arrive, AddArp, Ping, Loopback, RxCheck, DnsQuery,
              LwipInit, PingAgain, DnsRound, DnsGiveUp, LwipInput, LwipPoll, vars
<1> QED BY <1>1, AlwaysIInv, PTL DEF Spec, GatewayPinned

-----------------------------------------------------------------------------
(* rtl8139_send_packet and the card.                                        *)

\* The inductive invariant.  A frame the card was asked to send is the one in
\* the buffer or, from the copy to the descriptor, the one before it; a half
\* that has been fetched is no newer than the buffer.
TxInv ==
  /\ tx_buffer \in Nat /\ tsd \in Nat /\ half \in Nat
  /\ tx_pc \in {"idle", "wait", "kick"}
  /\ tsd # 0 => tx_buffer = IF tx_pc = "idle" THEN tsd ELSE tsd + 1
  /\ half # 0 => tsd # 0 /\ half \in {tsd, tsd + 1} /\ half =< tx_buffer
  /\ SentIsNotOlder

\* Every step of driver and card keeps it; receiving leaves all of it alone.
LEMMA TxKept == TxInv /\ [RtlNext]_rtlvars => TxInv'
<1> SUFFICES ASSUME TxInv, [RtlNext]_rtlvars PROVE TxInv'
  OBVIOUS
<1>1. CASE SendCopy
  BY <1>1, SMTT(60) DEF SendCopy, TxInv, SentIsNotOlder
<1>2. CASE SendWait
  BY <1>2 DEF SendWait, TxInv, SentIsNotOlder
<1>3. CASE SendKick
  BY <1>3 DEF SendKick, TxInv, SentIsNotOlder
<1>4. CASE Fetch
  <2>1. CASE half = 0
    BY <1>4, <2>1, SMTT(60) DEF Fetch, TxInv, SentIsNotOlder
  <2>2. CASE half # 0
    BY <1>4, <2>2, SMTT(60) DEF Fetch, TxInv, SentIsNotOlder
  <2> QED BY <2>1, <2>2
<1>5. CASE \/ rtl8139_init \/ rtl8139_receive_packet \/ ReceiveNothing
           \/ (\E n \in Sizes : CardStores(n)) \/ UNCHANGED rtlvars
  <2>1. UNCHANGED <<tx_buffer, tx_pc, tsd, half, on_wire>>
    BY <1>5 DEF rtl8139_init, rtl8139_receive_packet, ReceiveNothing, CardStores, rtlvars, tx
  <2> QED BY <2>1 DEF TxInv, SentIsNotOlder
<1> QED BY <1>1, <1>2, <1>3, <1>4, <1>5 DEF RtlNext

\* Whatever the card's pace, and however often a wait is given up, a frame on
\* the wire is made of the frame asked for and at most the end of the next.
THEOREM NeverSendsOlder == RtlSpec => []SentIsNotOlder
<1>1. RtlInit => TxInv
  BY SMTT(60) DEF RtlInit, TxInv, SentIsNotOlder
<1>2. TxInv => SentIsNotOlder
  BY DEF TxInv
<1> QED BY <1>1, <1>2, TxKept, PTL DEF RtlSpec

-----------------------------------------------------------------------------
(* rtl8139_receive_packet and the ring it shares with the card.             *)

\* How far a word is ahead of the driver.
Dist(w) == IF w >= rx_offset THEN w - rx_offset ELSE w - rx_offset + RingWords

\* pos tells where the frames lie that have not been handed out, one behind
\* the other from the driver's offset to the card's.
Placed(pos) ==
  /\ pos[delivered + 1] = rx_offset /\ pos[arrived + 1] = cbr
  /\ \A f \in (delivered + 1)..arrived :
       LET h == rx_buffer[pos[f]] IN
       /\ h.header = TRUE /\ h.frame = f /\ h.len \in 1..RingWords
       /\ pos[f] + h.len =< RingWords
       /\ pos[f + 1] = IF pos[f] + h.len = RingWords THEN 0 ELSE pos[f] + h.len
       /\ \A g \in (f + 1)..(arrived + 1) : Dist(pos[f]) + h.len =< Dist(pos[g])

\* Ranges of the receiving side; before rtl8139_init nothing has come.
RingTypes ==
  /\ rx_offset \in 0..(RingWords - 1) /\ capr = rx_offset /\ cbr \in 0..(RingWords - 1)
  /\ arrived \in Nat /\ delivered \in Nat
  /\ rx_buffer \in [Words -> [header : BOOLEAN, len : Nat, frame : Nat]]
  /\ crossed \in BOOLEAN /\ astray \in BOOLEAN
  /\ rtl_initialized \in BOOLEAN
  /\ rtl_initialized = FALSE => rx_offset = 0 /\ cbr = 0 /\ arrived = 0

\* The inductive invariant.  InOrderUntilCrossing alone says nothing of where
\* the frames lie; until one crosses the end they lie one behind the other.
RxInv ==
  /\ RingTypes
  /\ crossed = FALSE =>
       /\ astray = FALSE /\ delivered =< arrived
       /\ \E pos \in [Nat -> 0..(RingWords - 1)] : Placed(pos)

\* The room the card finds is what lies between its offset and the driver's.
LEMMA RoomLeft == RingTypes => Room = RingWords - Dist(cbr)
<1> SUFFICES ASSUME RingTypes PROVE Room = RingWords - Dist(cbr)
  OBVIOUS
<1>1. \A x \in 0..(RingWords - 1) : x % RingWords = x
  BY RtlAssumption, SMTT(60)
<1>2. \A x \in RingWords..(2 * RingWords - 1) : x % RingWords = x - RingWords
  BY RtlAssumption, SMTT(60)
<1> QED BY <1>1, <1>2, RtlAssumption, SMTT(60) DEF Room, Dist, RingTypes

\* The ring is empty at first.
LEMMA RingStart == RtlInit => RxInv
<1> SUFFICES ASSUME RtlInit PROVE RxInv
  OBVIOUS
<1>1. RingTypes
  <2>1. Zero \in [header : BOOLEAN, len : Nat, frame : Nat]
    BY DEF Zero
  <2>2. rx_buffer \in [Words -> [header : BOOLEAN, len : Nat, frame : Nat]]
    BY <2>1 DEF RtlInit
  <2>3. /\ crossed \in BOOLEAN /\ astray \in BOOLEAN /\ rtl_initialized \in BOOLEAN
        /\ rx_offset = 0 /\ capr = rx_offset /\ cbr = 0
    BY DEF RtlInit
  <2>4. /\ rx_offset \in 0..(RingWords - 1) /\ cbr \in 0..(RingWords - 1)
        /\ arrived = 0 /\ arrived \in Nat /\ delivered \in Nat
    BY RtlAssumption, SMTT(60) DEF RtlInit
  <2> QED BY <2>2, <2>3, <2>4 DEF RingTypes
<1>2. Placed([i \in Nat |-> 0])
  BY RtlAssumption, SMTT(60) DEF RtlInit, Placed
<1>3. [i \in Nat |-> 0] \in [Nat -> 0..(RingWords - 1)]
  BY RtlAssumption, SMTT(60)
<1> QED BY <1>1, <1>2, <1>3, SMTT(60) DEF RxInv, RtlInit

\* Storing a frame keeps what lies in the ring in its place.
LEMMA StoreKeeps ==
  ASSUME RxInv, NEW n \in Sizes, CardStores(n)
  PROVE  RxInv'
<1> USE RtlAssumption
<1>n. n \in 2..RingWords
  OBVIOUS
<1>m. \A x \in 0..(RingWords - 1) : x % RingWords = x
  BY SMTT(60)
<1>r. RingWords % RingWords = 0
  BY SMTT(60)
<1>t. RingTypes'
  <2>1. rx_buffer' \in [Words -> [header : BOOLEAN, len : Nat, frame : Nat]]
    BY <1>n, SMTT(60) DEF CardStores, RxInv, RingTypes
  <2>2. cbr' \in 0..(RingWords - 1)
    BY <1>n, SMTT(60) DEF CardStores, RxInv, RingTypes
  <2> QED BY <2>1, <2>2, SMTT(60) DEF CardStores, RxInv, RingTypes
<1>1. CASE crossed' = TRUE
  BY <1>1, <1>t DEF RxInv
<1>2. CASE crossed' = FALSE
  <2>0. crossed = FALSE /\ astray' = FALSE /\ cbr + n =< RingWords
    <3>1. ~crossed /\ ~(cbr + n > RingWords)
      BY <1>2 DEF CardStores
    <3>2. crossed = FALSE /\ astray' = FALSE
      BY <3>1 DEF RxInv, RingTypes, CardStores
    <3> QED BY <3>1, <3>2, <1>n, SMTT(60) DEF RxInv, RingTypes
  <2>a. arrived \in Nat /\ delivered \in Nat /\ delivered =< arrived
    BY <2>0 DEF RxInv, RingTypes
  <2>1. PICK pos \in [Nat -> 0..(RingWords - 1)] : Placed(pos)
    BY <2>0 DEF RxInv
  <2>2. PICK end \in 0..(RingWords - 1) : end = IF cbr + n = RingWords THEN 0 ELSE cbr + n
    BY <2>0, <1>n, SMTT(60) DEF RxInv, RingTypes
  <2>3. cbr' = end
    BY <2>0, <2>2, <1>n, <1>m, <1>r DEF CardStores, RxInv, RingTypes
  <2>4. PICK new \in [Nat -> 0..(RingWords - 1)] :
          new[arrived + 2] = end /\ \A i \in Nat : i # arrived + 2 => new[i] = pos[i]
    <3> DEFINE F == [i \in Nat |-> IF i = arrived + 2 THEN end ELSE pos[i]]
    <3>1. F \in [Nat -> 0..(RingWords - 1)]
      BY <2>1, <2>2
    <3>2. arrived + 2 \in Nat
      BY SMTT(60) DEF RxInv, RingTypes
    <3>3. F[arrived + 2] = end /\ \A i \in Nat : i # arrived + 2 => F[i] = pos[i]
      BY <3>2
    <3> QED BY <3>1, <3>3
  <2>s. n < RingWords - Dist(cbr)
    BY RoomLeft DEF CardStores, RxInv
  <2>5. Dist(end) = Dist(cbr) + n
    BY <2>s, <2>2, <2>0, <1>n, SMTT(60) DEF RxInv, RingTypes, Dist
  <2>6. Placed(new)'
    <3>1. new[delivered + 1] = rx_offset /\ new[arrived + 2] = end
      BY <2>1, <2>4, <2>a, SMTT(60) DEF Placed
    <3>a. arrived \in Nat /\ delivered \in Nat /\ delivered =< arrived
      BY <2>a
    <3>2. ASSUME NEW f \in (delivered + 1)..arrived
          PROVE  rx_buffer'[pos[f]] = rx_buffer[pos[f]]
      <4>0. f \in Nat /\ pos[f] \in 0..(RingWords - 1) /\ pos[f] \in Words
        BY <3>a, SMTT(60) DEF Words
      <4>1. Dist(pos[f]) < Dist(cbr)
        BY <2>1, <4>0, <3>a, SMTT(60) DEF Placed, RxInv, RingTypes, Dist
      <4>2. pos[f] # cbr /\ pos[f] \notin cbr..(cbr + n - 1)
        BY <4>0, <4>1, <2>0, <2>s, <1>n, SMTT(60) DEF Dist, RxInv, RingTypes
      <4> QED BY <4>0, <4>2 DEF CardStores
    <3>3. arrived' = arrived + 1 /\ UNCHANGED <<rx_offset, delivered>>
      BY DEF CardStores
    <3>4. ASSUME NEW f \in (delivered + 1)..(arrived + 1)
          PROVE  LET h == rx_buffer'[new[f]] IN
                 /\ h.header = TRUE /\ h.frame = f /\ h.len \in 1..RingWords
                 /\ new[f] + h.len =< RingWords
                 /\ new[f + 1] = IF new[f] + h.len = RingWords THEN 0 ELSE new[f] + h.len
                 /\ \A g \in (f + 1)..(arrived + 2) : Dist(new[f]) + h.len =< Dist(new[g])
      <4>1. CASE f = arrived + 1
        <5>1. new[f] = cbr /\ new[f + 1] = end
          BY <4>1, <2>1, <2>4, <3>a, SMTT(60) DEF Placed
        <5>2. cbr \in Words
          BY SMTT(60) DEF RxInv, RingTypes, Words
        <5>3. rx_buffer'[cbr] = [header |-> TRUE, len |-> n, frame |-> arrived + 1]
          BY <5>2 DEF CardStores
        <5>4. \A g \in (f + 1)..(arrived + 2) : new[g] = end
          BY <4>1, <5>1, <3>a, SMTT(60)
        <5>5. \A g \in (f + 1)..(arrived + 2) : Dist(new[f]) + n =< Dist(new[g])
          BY <5>4, <5>1, <2>5, <1>n, SMTT(60) DEF Dist, RxInv, RingTypes
        <5> QED BY <5>1, <5>3, <5>5, <4>1, <2>0, <2>2, <1>n, SMTT(60)
      <4>2. CASE f \in (delivered + 1)..arrived
        <5>1. new[f] = pos[f] /\ new[f + 1] = pos[f + 1] /\ rx_buffer'[new[f]] = rx_buffer[pos[f]]
          BY <4>2, <2>4, <3>2, <3>a, SMTT(60)
        <5>2. \A g \in (f + 1)..(arrived + 1) : new[g] = pos[g]
          BY <2>4, <3>a, SMTT(60)
        <5>3. Dist(cbr) =< Dist(end)
          BY <2>5, <1>n, SMTT(60) DEF Dist, RxInv, RingTypes
        <5>4. PICK h : h = rx_buffer[pos[f]]
          OBVIOUS
        <5>5. /\ h.header = TRUE /\ h.frame = f /\ h.len \in 1..RingWords
              /\ pos[f] + h.len =< RingWords
              /\ pos[f + 1] = IF pos[f] + h.len = RingWords THEN 0 ELSE pos[f] + h.len
              /\ \A g \in (f + 1)..(arrived + 1) : Dist(pos[f]) + h.len =< Dist(pos[g])
          BY <2>1, <4>2, <5>4 DEF Placed
        <5>6. Dist(pos[f]) + h.len =< Dist(end)
          <6>1. Dist(pos[f]) + h.len =< Dist(cbr)
            <7>1. arrived + 1 \in (f + 1)..(arrived + 1) /\ pos[arrived + 1] = cbr
              BY <2>1, <4>2, <3>a, SMTT(60) DEF Placed
            <7> QED BY <7>1, <5>5
          <6>2. pos[f] \in 0..(RingWords - 1)
            BY <4>2, <3>a, SMTT(60)
          <6> QED BY <6>1, <6>2, <5>3, <5>5, <2>2, SMTT(60) DEF Dist, RxInv, RingTypes
        <5>7. \A g \in (f + 1)..(arrived + 2) : Dist(new[f]) + h.len =< Dist(new[g])
          <6> SUFFICES ASSUME NEW g \in (f + 1)..(arrived + 2) PROVE Dist(new[f]) + h.len =< Dist(new[g])
            OBVIOUS
          <6>1. CASE g = arrived + 2
            BY <6>1, <5>1, <5>6, <2>4
          <6>2. CASE g \in (f + 1)..(arrived + 1)
            BY <6>2, <5>1, <5>2, <5>5
          <6> QED BY <6>1, <6>2, <3>a, <4>2, SMTT(60)
        <5> QED BY <5>1, <5>4, <5>5, <5>7
      <4>3. f = arrived + 1 \/ f \in (delivered + 1)..arrived
        BY <3>a, SMTT(60)
      <4> QED BY <4>1, <4>2, <4>3
    <3>5. /\ (delivered' + 1)..arrived' = (delivered + 1)..(arrived + 1)
          /\ arrived' + 1 = arrived + 2 /\ delivered' + 1 = delivered + 1
      BY <3>3, <3>a, SMTT(60)
    <3>6. \A x : Dist(x)' = Dist(x)
      BY <3>3 DEF Dist
    <3>7. ASSUME NEW f \in (delivered' + 1)..arrived'
          PROVE  LET h == rx_buffer'[new[f]] IN
                 /\ h.header = TRUE /\ h.frame = f /\ h.len \in 1..RingWords
                 /\ new[f] + h.len =< RingWords
                 /\ new[f + 1] = IF new[f] + h.len = RingWords THEN 0 ELSE new[f] + h.len
                 /\ \A g \in (f + 1)..(arrived' + 1) : Dist(new[f])' + h.len =< Dist(new[g])'
      BY <3>4, <3>5, <3>6
    <3>8. new[delivered' + 1] = rx_offset' /\ new[arrived' + 1] = cbr'
      BY <3>1, <3>3, <3>5, <2>3
    <3> QED BY <3>7, <3>8 DEF Placed
  <2>7. delivered' =< arrived'
    BY <2>a, SMTT(60) DEF CardStores
  <2> QED BY <1>t, <2>0, <2>6, <2>7 DEF RxInv
<1> QED BY <1>1, <1>2, <1>t DEF RingTypes

\* Handing out a frame takes the first one off.
LEMMA ReceiveKeeps ==
  ASSUME RxInv, rtl8139_receive_packet
  PROVE  RxInv'
<1> USE RtlAssumption
<1>0. PICK h \in [header : BOOLEAN, len : Nat, frame : Nat] : h = rx_buffer[rx_offset]
  BY SMTT(60) DEF RxInv, RingTypes, Words
<1>t. RingTypes'
  <2>1. Offsets(h) \subseteq 0..(RingWords - 1)
    BY <1>0, SMTT(60) DEF Offsets, Advance, RxInv, RingTypes
  <2>2. rx_offset' \in 0..(RingWords - 1) /\ capr' = rx_offset'
    BY <1>0, <2>1 DEF rtl8139_receive_packet, RxInv, RingTypes
  <2>3. delivered' \in Nat
    BY SMTT(60) DEF rtl8139_receive_packet, RxInv, RingTypes
  <2>4. astray' \in BOOLEAN
    BY DEF rtl8139_receive_packet, RxInv, RingTypes
  <2>5. rtl_initialized' = TRUE /\ UNCHANGED <<rtl_initialized, rx_buffer, cbr, arrived, crossed>>
    BY DEF rtl8139_receive_packet, RxInv, RingTypes
  <2> QED BY <2>2, <2>3, <2>4, <2>5 DEF RxInv, RingTypes
<1>1. CASE crossed' = TRUE
  BY <1>1, <1>t DEF RxInv
<1>2. CASE crossed' = FALSE
  <2>0. crossed = FALSE /\ UNCHANGED <<rx_buffer, cbr, arrived>> /\ cbr # rx_offset
    BY <1>2 DEF rtl8139_receive_packet
  <2>a. arrived \in Nat /\ delivered \in Nat /\ delivered =< arrived /\ astray = FALSE
    BY <2>0 DEF RxInv, RingTypes
  <2>1. PICK pos \in [Nat -> 0..(RingWords - 1)] : Placed(pos)
    BY <2>0 DEF RxInv
  <2>2. delivered < arrived
    <3>1. delivered # arrived
      BY <2>0, <2>1 DEF Placed
    <3> QED BY <3>1, <2>a, SMTT(60)
  <2>3. /\ pos[delivered + 1] = rx_offset
        /\ h.header = TRUE /\ h.frame = delivered + 1 /\ h.len \in 1..RingWords
        /\ rx_offset + h.len =< RingWords
        /\ pos[delivered + 2] = IF rx_offset + h.len = RingWords THEN 0 ELSE rx_offset + h.len
        /\ \A g \in (delivered + 2)..(arrived + 1) : Dist(rx_offset) + h.len =< Dist(pos[g])
    <3>1. delivered + 1 \in (delivered + 1)..arrived /\ delivered + 1 + 1 = delivered + 2
      BY <2>2, <2>a, SMTT(60)
    <3> QED BY <3>1, <2>1, <1>0 DEF Placed
  <2>4. delivered' = delivered + 1 /\ astray' = FALSE /\ rx_offset' \in Offsets(h)
    BY <2>3, <2>a, <1>0 DEF rtl8139_receive_packet
  <2>5. rx_offset' = pos[delivered + 2]
    BY <2>3, <2>4, SMTT(60) DEF Offsets, Advance, RxInv, RingTypes
  <2>6. ASSUME NEW g \in (delivered + 2)..(arrived + 1)
        PROVE  Dist(pos[g])' = Dist(pos[g]) - h.len /\ Dist(pos[g]) \in Int
    <3>1. pos[g] \in 0..(RingWords - 1)
      BY <2>a, SMTT(60)
    <3>2. Dist(rx_offset) = 0 /\ Dist(rx_offset) + h.len =< Dist(pos[g])
      BY <2>3, SMTT(60) DEF Dist, RxInv, RingTypes
    <3> QED BY <3>1, <3>2, <2>3, <2>5, SMTT(60) DEF Dist, RxInv, RingTypes
  <2>7. Placed(pos)'
    <3>1. pos[delivered' + 1] = rx_offset' /\ pos[arrived' + 1] = cbr'
      BY <2>0, <2>1, <2>4, <2>5, <2>a, SMTT(60) DEF Placed
    <3>2. ASSUME NEW f \in (delivered' + 1)..arrived'
          PROVE  LET k == rx_buffer'[pos[f]] IN
                 /\ k.header = TRUE /\ k.frame = f /\ k.len \in 1..RingWords
                 /\ pos[f] + k.len =< RingWords
                 /\ pos[f + 1] = IF pos[f] + k.len = RingWords THEN 0 ELSE pos[f] + k.len
                 /\ \A g \in (f + 1)..(arrived' + 1) : Dist(pos[f])' + k.len =< Dist(pos[g])'
      <4>1. /\ f \in (delivered + 1)..arrived /\ f \in (delivered + 2)..(arrived + 1)
            /\ (f + 1)..(arrived' + 1) = (f + 1)..(arrived + 1)
            /\ \A g \in (f + 1)..(arrived + 1) : g \in (delivered + 2)..(arrived + 1)
        BY <2>0, <2>4, <2>a, SMTT(60)
      <4>2. PICK k : k = rx_buffer[pos[f]] /\ k = rx_buffer'[pos[f]]
        BY <2>0
      <4>3. /\ k.header = TRUE /\ k.frame = f /\ k.len \in 1..RingWords
            /\ pos[f] + k.len =< RingWords
            /\ pos[f + 1] = IF pos[f] + k.len = RingWords THEN 0 ELSE pos[f] + k.len
            /\ \A g \in (f + 1)..(arrived + 1) : Dist(pos[f]) + k.len =< Dist(pos[g])
        BY <2>1, <4>1, <4>2 DEF Placed
      <4>4. ASSUME NEW g \in (f + 1)..(arrived + 1)
            PROVE  Dist(pos[f])' + k.len =< Dist(pos[g])'
        <5>1. /\ Dist(pos[f])' = Dist(pos[f]) - h.len /\ Dist(pos[f]) \in Int
              /\ Dist(pos[g])' = Dist(pos[g]) - h.len /\ Dist(pos[g]) \in Int
              /\ Dist(pos[f]) + k.len =< Dist(pos[g])
          BY <2>6, <4>1, <4>3
        <5>2. k.len \in Int /\ h.len \in Int
          BY <2>3, <4>3, SMTT(60)
        <5> QED BY <5>1, <5>2, SMTT(60)
      <4> QED BY <4>1, <4>2, <4>3, <4>4
    <3> QED BY <3>1, <3>2 DEF Placed
  <2>8. delivered' =< arrived'
    BY <2>0, <2>2, <2>4, <2>a, SMTT(60)
  <2> QED BY <1>t, <2>4, <2>7, <2>8 DEF RxInv
<1> QED BY <1>1, <1>2, <1>t DEF RingTypes

\* Every step keeps the frames in their places.
LEMMA RxKept == RxInv /\ [RtlNext]_rtlvars => RxInv'
<1> SUFFICES ASSUME RxInv, [RtlNext]_rtlvars PROVE RxInv'
  OBVIOUS
<1>1. CASE rtl8139_init
  <2>1. /\ rx_buffer' = [w \in Words |-> Zero] /\ rx_offset' = 0 /\ capr' = 0 /\ cbr' = 0
        /\ arrived' = 0 /\ delivered' = delivered /\ crossed' = crossed /\ astray' = astray
        /\ rtl_initialized' = TRUE
    BY <1>1 DEF rtl8139_init, RxInv, RingTypes
  <2>2. RingTypes'
    BY <2>1, RtlAssumption, SMTT(60) DEF RxInv, RingTypes, Zero
  <2>3. ASSUME crossed' = FALSE PROVE astray' = FALSE /\ delivered' = 0 /\ delivered' =< arrived'
    BY <1>1, <2>1, <2>3, SMTT(60) DEF RxInv, RingTypes, rtl8139_init
  <2>4. ASSUME crossed' = FALSE PROVE Placed([i \in Nat |-> 0])'
    <3>0. delivered' = 0 /\ arrived' = 0
      BY <2>1, <2>3, <2>4
    <3>1. (\A f \in (delivered' + 1)..arrived' : FALSE) /\ arrived' + 1 = 1 /\ delivered' + 1 = 1
      BY <3>0, SMTT(60)
    <3>2. [i \in Nat |-> 0][1] = 0
      OBVIOUS
    <3> QED BY <2>1, <3>1, <3>2 DEF Placed
  <2>5. [i \in Nat |-> 0] \in [Nat -> 0..(RingWords - 1)]
    BY RtlAssumption, SMTT(60)
  <2> QED BY <2>2, <2>3, <2>4, <2>5 DEF RxInv
<1>2. CASE \/ ReceiveNothing \/ SendCopy \/ SendWait \/ SendKick \/ Fetch
           \/ UNCHANGED rtlvars
  <2>1. UNCHANGED <<rtl_initialized, ring>>
    BY <1>2 DEF ReceiveNothing, SendCopy, SendWait, SendKick, Fetch, rtlvars
  <2> QED BY <2>1, SMTT(60) DEF ring, RxInv, RingTypes, Placed, Dist
<1> QED BY <1>1, <1>2, StoreKeeps, ReceiveKeeps DEF RtlNext

\* Whatever the sizes of frames and ring, and whenever the card stores and the
\* driver asks, frames are handed out in the order they came, none twice and
\* none left out, until one crosses the end of the ring.
THEOREM AlwaysInOrder == RtlSpec => []InOrderUntilCrossing
<1>1. RxInv => InOrderUntilCrossing
  BY DEF RxInv, RingTypes, InOrderUntilCrossing
<1> QED BY <1>1, RingStart, RxKept, PTL DEF RtlSpec

-----------------------------------------------------------------------------
(* dns_resolve_simple.                                                      *)

\* The inductive invariant: since a clean start, all that can come from
\* questions or lies in the card is about the name looked up.
CleanInv ==
  /\ ring_frames \in Seq(Names \cup {NoName})
  /\ \A q \in questions : q.name \in Names
  /\ hostname \in Names \cup {NoName} /\ clean \in BOOLEAN
  /\ clean =>
       /\ \A q \in questions : q.name = hostname
       /\ \A i \in 1..Len(ring_frames) : ring_frames[i] \in {hostname, NoName}
       /\ resolved \in {hostname, NoName}

\* Taking a frame from the card leaves the others.
LEMMA FramesLeft ==
  ASSUME CleanInv, ring_frames # <<>>
  PROVE  /\ Tail(ring_frames) \in Seq(Names \cup {NoName})
         /\ Head(ring_frames) = ring_frames[1] /\ 1 \in 1..Len(ring_frames)
         /\ \A i \in 1..Len(Tail(ring_frames)) :
              i + 1 \in 1..Len(ring_frames) /\ Tail(ring_frames)[i] = ring_frames[i + 1]
BY SMTT(60) DEF CleanInv

\* A frame that arrives is stored behind the others or dropped.
LEMMA FrameCame ==
  ASSUME CleanInv, NEW n \in Names \cup {NoName}, Arrives(n), clean => n \in {hostname, NoName},
         UNCHANGED <<hostname, resolved, clean>>,
         questions' \subseteq questions
  PROVE  CleanInv'
<1>1. CASE ring_frames' = ring_frames
  BY <1>1 DEF CleanInv
<1>2. CASE ring_frames' = Append(ring_frames, n)
  <2>1. /\ ring_frames' \in Seq(Names \cup {NoName}) /\ Len(ring_frames') = Len(ring_frames) + 1
        /\ Len(ring_frames) \in Nat
        /\ ring_frames'[Len(ring_frames) + 1] = n
        /\ \A i \in 1..Len(ring_frames) : ring_frames'[i] = ring_frames[i]
    BY <1>2, SMTT(60) DEF CleanInv
  <2>2. \A i \in 1..Len(ring_frames') : i \in 1..Len(ring_frames) \/ i = Len(ring_frames) + 1
    BY <2>1, SMTT(60)
  <2> QED BY <2>1, <2>2 DEF CleanInv
<1> QED BY <1>1, <1>2 DEF Arrives

\* Every step keeps the invariant: a lookup that does not start clean promises
\* nothing, and one that does asks the only question there is.
LEMMA CleanKept == CleanInv /\ [DnsNext]_dnsvars => CleanInv'
<1> SUFFICES ASSUME CleanInv, [DnsNext]_dnsvars PROVE CleanInv'
  OBVIOUS
<1>1. ASSUME NEW n \in Names, dns_resolve_simple(n) PROVE CleanInv'
  <2>1. clean' => questions = {} /\ ring_frames = <<>>
    BY <1>1 DEF dns_resolve_simple
  <2>2. questions' = questions \cup {[name |-> n, number |-> lookups]} /\ hostname' = n
        /\ ring_frames' = ring_frames /\ resolved' = NoName /\ clean' \in BOOLEAN
    BY <1>1 DEF dns_resolve_simple
  <2> QED BY <2>1, <2>2, SMTT(60) DEF CleanInv
<1>2. CASE Lookup
  <2>1. CASE ring_frames = <<>>
    BY <1>2, <2>1 DEF Lookup, CleanInv
  <2>2. CASE ring_frames # <<>>
    <3>1. /\ ring_frames' = Tail(ring_frames)
          /\ resolved' \in {resolved, Head(ring_frames)}
          /\ UNCHANGED <<hostname, questions, clean>>
      BY <1>2, <2>2 DEF Lookup
    <3> QED BY <2>2, <3>1, FramesLeft DEF CleanInv
  <2> QED BY <2>1, <2>2
<1>3. CASE net_poll
  <2>1. ring_frames # <<>> /\ ring_frames' = Tail(ring_frames)
        /\ UNCHANGED <<hostname, questions, resolved, clean>>
    BY <1>3 DEF net_poll
  <2> QED BY <2>1, FramesLeft DEF CleanInv
<1>4. ASSUME NEW q \in questions, Answer(q) PROVE CleanInv'
  BY <1>4, FrameCame DEF Answer, CleanInv
<1>5. ASSUME NEW q \in questions, NoAnswer(q) PROVE CleanInv'
  BY <1>5 DEF NoAnswer, CleanInv
<1>6. CASE OtherFrame
  BY <1>6, FrameCame DEF OtherFrame
<1>7. CASE LookupFails \/ UNCHANGED dnsvars
  BY <1>7, SMTT(60) DEF LookupFails, dnsvars, CleanInv
<1> QED BY <1>1, <1>2, <1>3, <1>4, <1>5, <1>6, <1>7 DEF DnsNext

\* Whatever is answered late, twice or never: a lookup that starts with nothing
\* on its way returns the address of its own name, or none.
THEOREM AlwaysOwnAnswer == DnsSpec => []OwnAnswerWhenClean
<1>1. DnsInit => CleanInv
  <2> SUFFICES ASSUME DnsInit PROVE CleanInv
    OBVIOUS
  <2>1. ring_frames = <<>> /\ ring_frames \in Seq(Names \cup {NoName}) /\ Len(ring_frames) = 0
    BY SMTT(60) DEF DnsInit
  <2> QED BY <2>1, SMTT(60) DEF DnsInit, CleanInv
<1>2. CleanInv => OwnAnswerWhenClean
  BY DEF CleanInv, OwnAnswerWhenClean
<1> QED BY <1>1, <1>2, CleanKept, PTL DEF DnsSpec
==============================================================================
