-------------------------------- MODULE Dns --------------------------------
(***************************************************************************)
(* Whose answer dns_resolve_simple returns.  Net has the lookup among the  *)
(* other commands; here questions and answers carry the name they are      *)
(* about, which the code does not look at: every question has the same     *)
(* identifier and port, and parse_dns_response reads the first address of  *)
(* whatever frame comes.                                                   *)
(*                                                                         *)
(* The server and the network are external: a question is answered once,   *)
(* several times or never, after any delay.                                *)
(***************************************************************************)
EXTENDS Integers, Sequences

CONSTANTS Names, NoName,
          Rounds,     \* 30
          RingFrames, \* frames the card can hold
          MaxLookups  \* bound: lookups

ASSUME DnsAssumption ==
  NoName \notin Names /\ {Rounds, RingFrames, MaxLookups} \subseteq Nat \ {0}

VARIABLES dns_pc,      \* "idle" or "loop"
          hostname, dns_round, \* of dns_resolve_simple
          ring_frames, \* frames the card has received: the name each is about,
                       \* NoName for one that is no answer with an address
          questions,   \* questions that may still be answered
          lookups,     \* bound
          resolved,    \* the last result: NoName stands for 0
          clean        \* history: when it was asked no other answer was on its way

dnsvars == <<dns_pc, hostname, dns_round, ring_frames, questions, lookups, resolved, clean>>

DnsInit ==
  /\ dns_pc = "idle" /\ hostname = NoName /\ dns_round = 0
  /\ ring_frames = <<>> /\ questions = {} /\ lookups = 0
  /\ resolved = NoName /\ clean = TRUE

dns_resolve_simple(n) ==
  /\ dns_pc = "idle" /\ lookups < MaxLookups
  /\ dns_pc' = "loop" /\ hostname' = n /\ dns_round' = 0
  /\ lookups' = lookups + 1
  /\ questions' = questions \cup {[name |-> n, number |-> lookups]}
  /\ clean' = (questions = {} /\ ring_frames = <<>>)
  /\ resolved' = NoName
  /\ UNCHANGED ring_frames

\* Mutant of Lookup: what an earlier frame left in the buffer is parsed again.
Lookup_OldBuffer ==
  /\ dns_pc = "loop" /\ dns_round < Rounds
  /\ ring_frames' = IF ring_frames = <<>> THEN <<>> ELSE Tail(ring_frames)
  /\ \E n \in IF ring_frames = <<>> THEN Names ELSE {Head(ring_frames)} :
       \/ n = NoName /\ dns_round' = dns_round + 1 /\ UNCHANGED <<dns_pc, resolved>>
       \/ n # NoName /\ dns_pc' = "idle" /\ resolved' = n /\ UNCHANGED dns_round
  /\ UNCHANGED <<hostname, questions, lookups, clean>>

\* A round of its loop.
Lookup ==
  /\ dns_pc = "loop" /\ dns_round < Rounds
  /\ ring_frames' = IF ring_frames = <<>> THEN <<>> ELSE Tail(ring_frames)
  /\ IF ring_frames = <<>> \/ Head(ring_frames) = NoName
     THEN dns_round' = dns_round + 1 /\ UNCHANGED <<dns_pc, resolved>>
     ELSE dns_pc' = "idle" /\ resolved' = Head(ring_frames) /\ UNCHANGED dns_round
  /\ UNCHANGED <<hostname, questions, lookups, clean>>

LookupFails ==
  /\ dns_pc = "loop" /\ dns_round = Rounds
  /\ dns_pc' = "idle"
  /\ UNCHANGED <<hostname, dns_round, ring_frames, questions, lookups, resolved, clean>>

\* Another reader of the card takes a frame and has no use for it.
net_poll ==
  /\ dns_pc = "idle" /\ ring_frames # <<>>
  /\ ring_frames' = Tail(ring_frames)
  /\ UNCHANGED <<dns_pc, hostname, dns_round, questions, lookups, resolved, clean>>

\* A full ring drops the frame.
Arrives(n) ==
  ring_frames' = IF Len(ring_frames) < RingFrames THEN Append(ring_frames, n) ELSE ring_frames

Answer(q) ==
  /\ questions' \in {questions, questions \ {q}}
  /\ Arrives(q.name)
  /\ UNCHANGED <<dns_pc, hostname, dns_round, lookups, resolved, clean>>

OtherFrame ==
  /\ Len(ring_frames) < RingFrames /\ Arrives(NoName)
  /\ UNCHANGED <<dns_pc, hostname, dns_round, questions, lookups, resolved, clean>>

NoAnswer(q) ==
  /\ questions' = questions \ {q}
  /\ UNCHANGED <<dns_pc, hostname, dns_round, ring_frames, lookups, resolved, clean>>

DnsNext ==
  \/ (\E n \in Names : dns_resolve_simple(n)) \/ Lookup \/ LookupFails \/ net_poll
  \/ \E q \in questions : Answer(q) \/ NoAnswer(q)
  \/ OtherFrame

DnsSpec == DnsInit /\ [][DnsNext]_dnsvars

-----------------------------------------------------------------------------
\* The address returned is that of the name asked for, unless an answer to an
\* earlier lookup was still on its way, or in the card, when the question was
\* sent (dns_simple.c:141): only then can a late answer be mistaken for it.
OwnAnswerWhenClean == clean /\ resolved # NoName => resolved = hostname
=============================================================================
