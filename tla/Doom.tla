-------------------------------- MODULE Doom --------------------------------
(***************************************************************************)
(* The walk of doom_wrapper.c: one step is one round of the loop of        *)
(* doom_main that finds a character.  Positions are fixed-point numbers,   *)
(* angles degrees; >> rounds down, as \div does.  The player is static and *)
(* stays where it was when the game is left and played again.  What is     *)
(* drawn is left out: nothing is read back from it.                        *)
(***************************************************************************)
EXTENDS Integers

CONSTANTS FP_ONE,               \* 256
          MAP_W, MAP_H, Walls,  \* doom_map: its size and the cells that are '1'
          MOVE_STEP, TURN_STEP, \* 56 and 5
          MaxKeys               \* bound: keys of all games

ASSUME DoomAssumption ==
  /\ {FP_ONE, MAP_W, MAP_H, MOVE_STEP, TURN_STEP, MaxKeys} \subseteq Nat
  /\ FP_ONE > 0 /\ MOVE_STEP < FP_ONE
  /\ Walls \subseteq (0..MAP_W - 1) \X (0..MAP_H - 1)
  /\ MAP_W > 1 /\ MAP_H > 1 /\ <<1, 1>> \notin Walls

VARIABLES player_x, player_y, player_angle,
          playing,   \* doom_main runs
          keys       \* bound

doomvars == <<player_x, player_y, player_angle, playing, keys>>

ESC == 27
TurnLeft == {3, 97, 65}      \* KEY_LEFT, 'a', 'A'
TurnRight == {4, 100, 68}    \* KEY_RIGHT, 'd', 'D'
Forward == {1, 119, 87}      \* KEY_UP, 'w', 'W'
Backward == {2, 115, 83}     \* KEY_DOWN, 's', 'S'
StrafeLeft == {113, 81}      \* 'q', 'Q'
StrafeRight == {101, 69}     \* 'e', 'E'

wrap_angle(angle) == angle % 360

sin_fixed(angle) ==
  LET a == wrap_angle(angle)
      b == IF a >= 180 THEN a - 180 ELSE a
      c == IF b > 90 THEN 180 - b ELSE b
      y == (4 * c * (180 - c) * FP_ONE) \div (40500 - c * (180 - c))
  IN  IF a >= 180 THEN -y ELSE y

cos_fixed(angle) == sin_fixed(angle + 90)

Cell(x) == x \div FP_ONE

map_wall_at(x, y) ==
  \/ Cell(x) \notin 0..MAP_W - 1 \/ Cell(y) \notin 0..MAP_H - 1
  \/ <<Cell(x), Cell(y)>> \in Walls

\* Mutant of Walk: both coordinates are tried from where the player was.
Walk_FromOld(angle, amount) ==
  LET nx == player_x + (cos_fixed(angle) * amount) \div FP_ONE
      ny == player_y + (sin_fixed(angle) * amount) \div FP_ONE
  IN  /\ player_x' = IF map_wall_at(nx, player_y) THEN player_x ELSE nx
      /\ player_y' = IF map_wall_at(player_x, ny) THEN player_y ELSE ny

\* try_move once it has its direction: first along x, then along y.
Walk(angle, amount) ==
  LET nx == player_x + (cos_fixed(angle) * amount) \div FP_ONE
      ny == player_y + (sin_fixed(angle) * amount) \div FP_ONE
  IN  /\ player_x' = IF map_wall_at(nx, player_y) THEN player_x ELSE nx
      /\ player_y' = IF map_wall_at(player_x', ny) THEN player_y ELSE ny

try_move(forward, strafe) ==
  IF strafe = 0 THEN Walk(player_angle, forward)
  ELSE Walk(wrap_angle(player_angle + IF strafe > 0 THEN 90 ELSE -90), MOVE_STEP)

DoomInit ==
  /\ player_x = FP_ONE + FP_ONE \div 2 /\ player_y = FP_ONE + FP_ONE \div 2
  /\ player_angle = 0
  /\ playing = FALSE /\ keys = 0

\* doom_run and doom_main up to the loop.
doom_main ==
  /\ ~playing /\ playing' = TRUE
  /\ UNCHANGED <<player_x, player_y, player_angle, keys>>

\* handle_key, and the end of doom_main when it returns 0.
handle_key(c) ==
  /\ playing' = (c # ESC)
  /\ player_angle' = IF c \in TurnLeft THEN wrap_angle(player_angle - TURN_STEP)
                     ELSE IF c \in TurnRight THEN wrap_angle(player_angle + TURN_STEP)
                     ELSE player_angle
  /\ \/ c \in Forward /\ try_move(MOVE_STEP, 0)
     \/ c \in Backward /\ try_move(-MOVE_STEP, 0)
     \/ c \in StrafeLeft /\ try_move(0, -MOVE_STEP)
     \/ c \in StrafeRight /\ try_move(0, MOVE_STEP)
     \/ /\ c \notin Forward \cup Backward \cup StrafeLeft \cup StrafeRight
        /\ UNCHANGED <<player_x, player_y>>

\* doom_get_key returns one of chars.
Key(chars) ==
  /\ playing /\ keys < MaxKeys
  /\ \E c \in chars : handle_key(c)
  /\ keys' = keys + 1

\* No key: doom_sleep(10), and round again.
doom_sleep == playing /\ UNCHANGED doomvars

DoomNext == doom_main \/ Key({3, 4, 1, 2, 113, 101, 0, ESC}) \/ doom_sleep

DoomSpec == DoomInit /\ [][DoomNext]_doomvars

-----------------------------------------------------------------------------
Here == <<Cell(player_x), Cell(player_y)>>

\* The player never stands in a wall and never gets past one: a step ends in
\* the same cell or in a neighbour of it, and to go round a corner it passes
\* over the floor beside it (try_move, doom_wrapper.c:288).
NoWayThroughWalls ==
  [][/\ ~map_wall_at(player_x', player_y') /\ ~map_wall_at(player_x', player_y)
     /\ Here'[1] - Here[1] \in -1..1 /\ Here'[2] - Here[2] \in -1..1]_doomvars
=============================================================================
