---------------------------- MODULE LwipTimeouts ----------------------------
(***************************************************************************)
(* The timers of lwIP (timeouts.c) on the port's clock, as lwip_poll runs  *)
(* them from the loop of the desktop, and the pool their list elements     *)
(* come from (memp.c).                                                     *)
(*                                                                         *)
(* An element is free or in the list, and the same word of it links it to  *)
(* the next one in either: struct memp and struct sys_timeo both begin     *)
(* with their next pointer, and without overflow checks they begin at the  *)
(* same address.  sys_now is timer_ticks() * 10, here in ticks and modulo  *)
(* Wrap; the clock goes on between any two steps.  What the handlers do is *)
(* left out; the TCP timer restarts itself while there are connections.    *)
(* A list that does not end keeps its walker for ever: lw_pc is "hung".    *)
(***************************************************************************)
EXTENDS Integers, Sequences, FiniteSetsExt

CONSTANTS Timers,     \* the cyclic timers in the order of lwip_cyclic_timers
          Interval,   \* interval_ms of each of them, and of Tcp
          Tcp,        \* tcpip_tcp_timer
          PoolSize,   \* MEMP_NUM_SYS_TIMEOUT
          Wrap,       \* the clock is counted modulo Wrap (2^32)
          MaxGap,     \* ticks between two rounds of the desktop's loop
          MaxInits    \* bound: lwip commands

TimerSet == {Timers[i] : i \in 1..Len(Timers)}
All == TimerSet \cup {Tcp}

ASSUME TimeoutsAssumption ==
  /\ Timers \in Seq(TimerSet) /\ Tcp \notin TimerSet
  /\ \A i, j \in 1..Len(Timers) : Timers[i] = Timers[j] => i = j
  /\ Interval \in [All -> Nat \ {0}]
  /\ PoolSize \in Nat /\ Len(Timers) < PoolSize
  /\ {Wrap, MaxGap, MaxInits} \subseteq Nat
  /\ Wrap % 2 = 0
  /\ \A t \in All : Interval[t] + 3 * MaxGap =< Wrap \div 2

VARIABLES mem,                 \* the elements and the heads of their two lists
          tcp_timer_active,    \* tcpip_tcp_timer_active
          tcp_pcbs,            \* are there active or waiting connections?
          now,                 \* sys_now()
          lw_pc,               \* "off", "init", "idle", "check", "hung"
          todo,                \* sys_timeouts_init: the timers still to start
          snap,                \* sys_check_timeouts: its now
          gap, inits,          \* bounds
          left,                \* history: ticks until a timer is due, negative
                               \* when it is late (by Wrap \div 2 at most)
          fired                \* history: the timer called last

clock == <<now, gap, left>>
ltvars == <<mem, tcp_timer_active, tcp_pcbs, clock, lw_pc, todo, snap, inits, fired>>

Elements == 1..PoolSize
NULL == 0
NoTimer == "none"

\* Mutant of TIME_LESS_THAN: the clock's wrap is forgotten.
TIME_LESS_THAN_Plain(t, u) == t < u

\* TIME_LESS_THAN: the difference, as an unsigned number, is in the upper half.
TIME_LESS_THAN(t, u) == (t - u) % Wrap > Wrap \div 2 - 1

Mem(link, h, time, next_timeout, tab) ==
  [link |-> link, h |-> h, time |-> time, next_timeout |-> next_timeout, tab |-> tab]

\* The first elements of the list that begins with e, NULL behind its end
\* (link[NULL] is NULL).
Chain(m, e) ==
  LET c[i \in 0..PoolSize] ==
        IF i = 0 THEN e ELSE m.link[c[i - 1]]
  IN  c

LwInit ==
  /\ mem = Mem([e \in 0..PoolSize |-> NULL], [e \in Elements |-> NoTimer],
               [e \in Elements |-> 0], NULL, NULL)
  /\ tcp_timer_active = FALSE /\ tcp_pcbs = FALSE
  /\ now = 0 /\ gap = 0 /\ left = [t \in All |-> 0]
  /\ lw_pc = "off" /\ todo = <<>> /\ snap = 0
  /\ inits = 0 /\ fired = NoTimer

-----------------------------------------------------------------------------
(* The pool and the list.                                                   *)

\* memp_init_pool links all elements, the last one first; the timer list
\* keeps its head.
memp_init_pool(m) ==
  Mem([e \in 0..PoolSize |-> IF e = NULL THEN NULL ELSE e - 1], m.h, m.time,
      m.next_timeout, PoolSize)

memp_free(m, e) == Mem([m.link EXCEPT ![e] = m.tab], m.h, m.time, m.next_timeout, e)

Taken(m, t, hd) ==
  Mem([m.link EXCEPT ![m.tab] = NULL], [m.h EXCEPT ![m.tab] = hd],
      [m.time EXCEPT ![m.tab] = t], m.next_timeout, m.link[m.tab])

\* The places of list c behind which an element due at t may be put.
Places(m, c, t) ==
  {i \in 0..PoolSize :
     /\ c[i] # NULL
     /\ m.link[c[i]] = NULL \/ TIME_LESS_THAN(t, m.time[m.link[c[i]]])}

\* The list is empty or begins with a later timer.
InFront(m, t) == m.next_timeout = NULL \/ TIME_LESS_THAN(t, m.time[m.next_timeout])

\* sys_timeout_abs: an element is taken from the pool and put in its place,
\* behind those due at the same time.  An empty pool ends in an assertion
\* that stops the machine, a list without a place is walked for ever.
CanInsert(m, t, hd) ==
  /\ m.tab # NULL
  /\ LET n == Taken(m, t, hd) IN
       InFront(n, t) \/ Places(n, Chain(n, n.next_timeout), t) # {}

sys_timeout_abs(m, t, hd) ==
  LET e == m.tab
      n == Taken(m, t, hd)
      c == Chain(n, n.next_timeout)
      p == c[Min(Places(n, c, t))]
  IN  IF InFront(n, t)
      THEN Mem([n.link EXCEPT ![e] = n.next_timeout], n.h, n.time, e, n.tab)
      ELSE Mem([n.link EXCEPT ![e] = n.link[p], ![p] = e], n.h, n.time, n.next_timeout, n.tab)

\* Start timer hd at m, due d ticks from now, and be at pc afterwards.
Start(m, d, hd, pc) ==
  LET t == (now + d) % Wrap IN
  /\ IF CanInsert(m, t, hd)
     THEN mem' = sys_timeout_abs(m, t, hd) /\ lw_pc' = pc
     ELSE mem' = m /\ lw_pc' = "hung"
  /\ left' = [left EXCEPT ![hd] = d]

-----------------------------------------------------------------------------
(* The lwip command.                                                        *)

\* lwip_init_port as far as memp_init, which knows nothing of the timer list.
lwip_init_port ==
  /\ lw_pc \in {"off", "idle"} /\ inits < MaxInits
  /\ inits' = inits + 1
  /\ mem' = memp_init_pool(mem)
  /\ todo' = Timers /\ lw_pc' = "init"
  /\ UNCHANGED <<tcp_timer_active, tcp_pcbs, clock, snap, fired>>

\* One turn of the loop of sys_timeouts_init, in the order of the table.
sys_timeouts_init ==
  /\ lw_pc = "init" /\ todo # <<>>
  /\ Start(mem, Interval[Head(todo)], Head(todo), "init")
  /\ todo' = Tail(todo)
  /\ UNCHANGED <<tcp_timer_active, tcp_pcbs, now, gap, snap, inits, fired>>

\* netif_add and the rest; the stack is ready.
InitDone ==
  /\ lw_pc = "init" /\ todo = <<>>
  /\ lw_pc' = "idle" /\ gap' = 0
  /\ UNCHANGED <<mem, tcp_timer_active, tcp_pcbs, now, left, todo, snap, inits, fired>>

-----------------------------------------------------------------------------
(* lwip_poll.                                                               *)

\* lwip_poll, and sys_check_timeouts up to its loop.
lwip_poll ==
  /\ lw_pc = "idle"
  /\ lw_pc' = "check" /\ snap' = now /\ gap' = 0
  /\ UNCHANGED <<mem, tcp_timer_active, tcp_pcbs, now, left, todo, inits, fired>>

Earliest == mem.next_timeout
Expired == Earliest # NULL /\ ~TIME_LESS_THAN(snap, mem.time[Earliest])

\* No timer is due: sys_check_timeouts returns.
CheckDone ==
  /\ lw_pc = "check" /\ ~Expired
  /\ lw_pc' = "idle"
  /\ UNCHANGED <<mem, tcp_timer_active, tcp_pcbs, clock, todo, snap, inits, fired>>

\* The list without its first element, which goes back to the pool.
Popped ==
  memp_free(Mem(mem.link, mem.h, mem.time, mem.link[Earliest], mem.tab), Earliest)

\* Mutant of NextDue: no correction when the timer is late.
NextDue_Late(due, t) == (due + Interval[t] - now) % Wrap

\* lwip_cyclic_timer: ticks until the timer is due again, counted from when it
\* was due, or from now when that has passed already.
NextDue(due, t) ==
  IF TIME_LESS_THAN((due + Interval[t]) % Wrap, now) THEN Interval[t]
  ELSE (due + Interval[t] - now) % Wrap

\* Mutant of lwip_cyclic_timer: the timer is not started again.
lwip_cyclic_timer_Once ==
  /\ lw_pc = "check" /\ Expired
  /\ mem.h[Earliest] \in TimerSet
  /\ mem' = Popped /\ fired' = mem.h[Earliest]
  /\ UNCHANGED <<tcp_timer_active, tcp_pcbs, clock, lw_pc, todo, snap, inits>>

\* A cyclic timer is due: its handler, and the timer again.
lwip_cyclic_timer ==
  /\ lw_pc = "check" /\ Expired
  /\ LET t == mem.h[Earliest] IN
     /\ t \in TimerSet
     /\ Start(Popped, NextDue(mem.time[Earliest], t), t, "check")
     /\ fired' = t
  /\ UNCHANGED <<tcp_timer_active, tcp_pcbs, now, gap, todo, snap, inits>>

\* tcp_tmr may end the last connection; the timer goes on while there are some.
tcpip_tcp_timer ==
  /\ lw_pc = "check" /\ Expired /\ mem.h[Earliest] = Tcp
  /\ tcp_pcbs' \in {tcp_pcbs, FALSE}
  /\ IF tcp_pcbs'
     THEN Start(Popped, Interval[Tcp], Tcp, "check") /\ UNCHANGED tcp_timer_active
     ELSE mem' = Popped /\ tcp_timer_active' = FALSE /\ UNCHANGED <<lw_pc, left>>
  /\ fired' = Tcp
  /\ UNCHANGED <<now, gap, todo, snap, inits>>

\* TCP_REG and tcp_timer_needed: a connection is opened between two rounds.
tcp_timer_needed ==
  /\ lw_pc = "idle"
  /\ tcp_pcbs' = TRUE
  /\ IF tcp_timer_active THEN UNCHANGED <<mem, tcp_timer_active, lw_pc, left>>
     ELSE Start(mem, Interval[Tcp], Tcp, lw_pc) /\ tcp_timer_active' = TRUE
  /\ UNCHANGED <<now, gap, todo, snap, inits, fired>>

\* TCP_RMV: the last connection is closed; the timer finds out by itself.
TcpClosed ==
  /\ lw_pc = "idle" /\ tcp_pcbs
  /\ tcp_pcbs' = FALSE
  /\ UNCHANGED <<mem, tcp_timer_active, clock, lw_pc, todo, snap, inits, fired>>

\* The timers that must be in the list: the cyclic ones that have been started
\* and TCP's while it is marked active.
Wanted == (TimerSet \ {todo[i] : i \in 1..Len(todo)})
          \cup {t \in {Tcp} : tcp_timer_active}

\* irq0_c, at any time; while the desktop runs its loop comes round in time.
LwTick ==
  /\ lw_pc # "off" /\ gap < MaxGap
  /\ now' = (now + 1) % Wrap /\ gap' = gap + 1
  /\ left' = [t \in All |-> IF t \in Wanted THEN Max({left[t] - 1, -(Wrap \div 2)}) ELSE 0]
  /\ UNCHANGED <<mem, tcp_timer_active, tcp_pcbs, lw_pc, todo, snap, inits, fired>>

LwStep ==
  \/ sys_timeouts_init \/ InitDone \/ lwip_poll \/ CheckDone
  \/ lwip_cyclic_timer \/ tcpip_tcp_timer

LwNext ==
  \/ LwStep \/ lwip_init_port \/ LwTick \/ tcp_timer_needed \/ TcpClosed

\* The loop of the desktop goes round and the clock goes on.
LwFair ==
  /\ <>[](lw_pc \in {"init", "idle", "check"}) => []<><<LwStep>>_ltvars
  /\ WF_ltvars(LwTick)

LwSpec == LwInit /\ [][LwNext]_ltvars /\ LwFair

-----------------------------------------------------------------------------
(* Properties.                                                              *)

Listed == {e \in Elements : \E i \in 0..PoolSize : Chain(mem, Earliest)[i] = e}

\* The timer list ends, holds every timer that is wanted and no timer twice,
\* and is in the order in which they are really due, however the clock of
\* timeouts.c:73 has wrapped round since they were started.
TimersInOrder ==
  lw_pc \in {"idle", "check"} =>
    LET c == Chain(mem, Earliest) IN
    /\ c[PoolSize] = NULL
    /\ Cardinality(Listed) = Cardinality(Wanted)
    /\ {mem.h[e] : e \in Listed} = Wanted
    /\ \A i \in 0..(PoolSize - 1) :
         c[i] # NULL /\ c[i + 1] # NULL => left[mem.h[c[i]]] =< left[mem.h[c[i + 1]]]

\* No handler is called before its time, and a cyclic one that is not late by
\* a whole interval keeps its rhythm: it is due again one interval after it
\* was due (timeouts.c:228).
OnTime ==
  [][\A t \in TimerSet :
       mem.next_timeout # mem'.next_timeout /\ lw_pc = "check" /\ fired' = t
         /\ mem.h[Earliest] = t
       => /\ left[t] =< 0
          /\ left'[t] = IF left[t] + Interval[t] < 0 THEN Interval[t]
                        ELSE left[t] + Interval[t]]_ltvars

\* Every cyclic timer runs again and again: lwip_cyclic_timer starts it anew,
\* the pool has an element for it, and no other timer keeps it from its turn.
TimersRun == \A t \in TimerSet : lw_pc # "off" ~> fired = t

\* The command "lwip - Initialize lwIP TCP/IP stack" (commands.c:115) comes to
\* an end: no timer it starts sends sys_timeout_abs round the list for ever.
LwipReturns == [][lw_pc = "init" => lw_pc' # "hung"]_ltvars
=============================================================================
