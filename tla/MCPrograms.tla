----------------------------- MODULE MCPrograms -----------------------------
(***************************************************************************)
(* The heap and the programs for TLC: editor, snake, Doom, terminal text.  *)
(* They share no variables, as far as they are modelled,                   *)
(* so a behaviour is one of the part named by running, while the others    *)
(* are where they start.                                                   *)
(***************************************************************************)
EXTENDS Heap, Editor, Snake, Doom, TermIo

VARIABLE running

\* Sizes the heap command asks for: 2-byte alignment, 2-byte headers.
MCCmdSizes == <<6, 4, 3, 2>>

\* Files for an editor of three lines of two characters.
MCFiles ==
  { <<>>, <<"a">>, <<"a", "b", "a">>, <<"a", NL>>, <<"a", CR, NL, "b">>,
    <<NL, "a", NL>>, <<"a", NL, NL, "b", NL>>, <<NL, NL, NL, "a", "b">> }

\* The north-west corner of doom_map.
MCWalls ==
  ((0..7) \X {0}) \cup ({0} \X (0..5)) \cup ({2} \X {2, 3, 4})
  \cup ({3, 4, 5, 7} \X {2}) \cup {<<7, 3>>} \cup ((4..7) \X {4}) \cup {<<4, 5>>}

MCGreeting == <<"a", NEWLINE>>

PrInit ==
  /\ running \in {"heap", "editor", "snake", "doom", "terminal"}
  /\ HeapInit /\ EdInit /\ SnakeInit /\ DoomInit /\ TermInit
  /\ running # "editor" => file = <<>>
  /\ running # "snake" => food = <<0, 0>>

PrNext ==
  /\ UNCHANGED running
  /\ \/ /\ running = "heap" /\ HeapNext
        /\ UNCHANGED <<edvars, snakevars, doomvars, termvars>>
     \/ /\ running = "editor" /\ EdNext
        /\ UNCHANGED <<heapvars, snakevars, doomvars, termvars>>
     \/ /\ running = "snake" /\ SnakeNext
        /\ UNCHANGED <<heapvars, edvars, doomvars, termvars>>
     \/ /\ running = "doom" /\ DoomNext
        /\ UNCHANGED <<heapvars, edvars, snakevars, termvars>>
     \/ /\ running = "terminal" /\ TermNext
        /\ UNCHANGED <<heapvars, edvars, snakevars, doomvars>>

\* The game goes on by itself.
PrSpec ==
  /\ PrInit /\ [][PrNext]_<<running, heapvars, edvars, snakevars, doomvars, termvars>>
  /\ WF_snakevars(running = "snake" /\ Play)
=============================================================================
