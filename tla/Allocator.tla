----------------------------- MODULE Allocator ------------------------------
(***************************************************************************)
(* What callers of malloc, calloc, realloc and free rely on: regions of one *)
(* arena that are handed out and taken back.  While a region is out it is   *)
(* disjoint from the others, holds what was asked for, and stays put.       *)
(***************************************************************************)
EXTENDS Integers

CONSTANTS Arena, \* the arena is 0..(Arena - 1)
          Limit  \* requests beyond Limit are not promised anything

VARIABLE live    \* start of a region handed out -> its length and request

Disjoint(p, l, q, m) == p + l =< q \/ q + m =< p

Serves(r) == r.len \in Nat /\ (r.asked =< Limit => r.len >= r.asked)

Init == DOMAIN live = {}

\* Region p appears inside the arena and beside every region already out.
Appears(p) ==
  /\ p \in 0..Arena /\ p \notin DOMAIN live
  /\ Serves(live'[p]) /\ p + live'[p].len =< Arena
  /\ \A q \in DOMAIN live : Disjoint(p, live'[p].len, q, live[q].len)

\* The regions of keep stay as they are.
Stay(keep) == \A q \in keep : live'[q] = live[q]

Alloc(p) ==
  /\ Appears(p)
  /\ DOMAIN live' = DOMAIN live \cup {p}
  /\ Stay(DOMAIN live)

Release(p) ==
  /\ DOMAIN live' = DOMAIN live \ {p}
  /\ Stay(DOMAIN live \ {p})

\* The region at p now serves another request, where it is.
Resize(p) ==
  /\ DOMAIN live' = DOMAIN live
  /\ Stay(DOMAIN live \ {p})
  /\ live'[p].len = live[p].len /\ Serves(live'[p])

\* The region at p is replaced by one at q that has room for its contents.
Move(p, q) ==
  /\ Appears(q)
  /\ DOMAIN live' = (DOMAIN live \ {p}) \cup {q}
  /\ Stay(DOMAIN live \ {p})
  /\ live'[q].len >= live[p].len

Next ==
  \/ \E p \in DOMAIN live' : Alloc(p)
  \/ \E p \in DOMAIN live : Release(p) \/ Resize(p)
  \/ \E p \in DOMAIN live, q \in DOMAIN live' : Move(p, q)

Spec == Init /\ [][Next]_live

=============================================================================
