---------------------------- MODULE ProgramProofs ---------------------------
(***************************************************************************)
(* The keyboard and the programs at it.  What the race between irq1_c and  *)
(* keyboard_getchar can and cannot do, and what the flags of irq1_c say of *)
(* the keys, for any amount of typing.  The walls of doom.c, for any map.  *)
(* The snake, for boards of any size.  The editor's cursor and dirty flag, *)
(* what its keys do to the text and what becomes of a saved text, for      *)
(* arrays of any size and files of any content.                            *)
(***************************************************************************)
EXTENDS Keyboard, Editor, Snake, Doom, SequenceTheorems, TLAPS

\* Zenon proves a step that names no other prover.
USE ZenonT(60)

-----------------------------------------------------------------------------
(* Doom.                                                                    *)

\* Two products with a positive factor in common compare as the others do.
LEMMA CancelFactor ==
  ASSUME NEW a \in Int, NEW b \in Int, NEW c \in Int, c > 0, a * c < b * c
  PROVE  a < b
<1> SUFFICES ASSUME a >= b PROVE FALSE
  BY SMTT(60)
<1>1. (a - b) * c >= 0
  BY SMTT(60)
<1> QED BY <1>1, SMTT(60)

\* >> and / of the code: the quotient rounded down.
LEMMA DivRounds ==
  ASSUME NEW a \in Int, NEW b \in Int, b > 0
  PROVE  a \div b \in Int /\ (a \div b) * b =< a /\ a < (a \div b + 1) * b
BY SMTT(60)

\* A quotient lies between m and n when the number lies between their products.
LEMMA DivBounds ==
  ASSUME NEW a \in Int, NEW b \in Int, b > 0, NEW m \in Int, NEW n \in Int,
         m * b =< a, a =< n * b
  PROVE  m =< a \div b /\ a \div b =< n
<1> DEFINE q == a \div b
<1>1. q \in Int /\ q * b =< a /\ a < (q + 1) * b
  BY DivRounds
<1> HIDE DEF q
<1>2. m * b < (q + 1) * b /\ q * b < (n + 1) * b
  <2>1. (n + 1) * b = n * b + b /\ n * b \in Int /\ m * b \in Int /\ q * b \in Int
        /\ (q + 1) * b \in Int
    BY <1>1, SMTT(60)
  <2> QED BY <2>1, <1>1, SMTT(60)
<1>3. m < q + 1 /\ q < n + 1
  BY <1>1, <1>2, CancelFactor, SMTT(60)
<1> QED BY <1>1, <1>3, SMTT(60) DEF q

\* sin_fixed: the approximation never exceeds one.
LEMMA SinBounds ==
  ASSUME NEW angle \in Int
  PROVE  sin_fixed(angle) \in -FP_ONE..FP_ONE
<1> DEFINE a == wrap_angle(angle)
           b == IF a >= 180 THEN a - 180 ELSE a
           c == IF b > 90 THEN 180 - b ELSE b
           d == 40500 - c * (180 - c)
           y == (4 * c * (180 - c) * FP_ONE) \div d
<1>0. FP_ONE \in Nat
  BY DoomAssumption
<1>1. a \in 0..359
  BY SMTT(60) DEF wrap_angle
<1>2. c \in 0..90
  BY <1>1, SMTT(60)
<1>3. sin_fixed(angle) = IF a >= 180 THEN -y ELSE y
  BY SMTT(60) DEF sin_fixed
<1> HIDE DEF a, c
<1>4. PICK p \in Int : p = c * (180 - c) /\ 0 =< p /\ p =< 8100
  <2>1. (90 - c) * (90 - c) >= 0 /\ c * (180 - c) >= 0
    BY <1>2, SMTT(60)
  <2>2. c * (180 - c) = 8100 - (90 - c) * (90 - c)
    BY <1>2, SMTT(60)
  <2> QED BY <2>1, <2>2, <1>2, SMTT(60)
<1>5. 4 * c * (180 - c) * FP_ONE = 4 * p * FP_ONE
  <2>1. 4 * c * (180 - c) = 4 * p
    BY <1>4, <1>2, SMTT(60)
  <2> QED BY <2>1
<1>6. /\ 40500 - p > 0 /\ 4 * p * FP_ONE \in Int
      /\ 0 * (40500 - p) =< 4 * p * FP_ONE
      /\ 4 * p * FP_ONE =< FP_ONE * (40500 - p)
  <2>1. p * FP_ONE \in Int /\ p * FP_ONE >= 0 /\ p * FP_ONE =< 8100 * FP_ONE
    BY <1>0, <1>4, SMTT(60)
  <2>2. 4 * p * FP_ONE = 4 * (p * FP_ONE) /\ FP_ONE * (40500 - p) = 40500 * FP_ONE - p * FP_ONE
    BY <1>0, <1>4, SMTT(60)
  <2> QED BY <2>1, <2>2, <1>0, <1>4, SMTT(60)
<1>7. (4 * p * FP_ONE) \div (40500 - p) \in Int
  BY <1>4, <1>6, SMTT(60)
<1>8. y = (4 * p * FP_ONE) \div (40500 - p)
  BY <1>4, <1>5, SMTT(60)
<1>9. 0 =< y /\ y =< FP_ONE /\ y \in Int
  <2>1. PICK n \in Int, e \in Int : n = 4 * p * FP_ONE /\ e = 40500 - p
    BY <1>4, <1>6, SMTT(60)
  <2>2. e > 0 /\ 0 * e =< n /\ n =< FP_ONE * e
    BY <2>1, <1>6, SMTT(60)
  <2>3. 0 =< n \div e /\ n \div e =< FP_ONE
    BY <2>2, <1>0, DivBounds, SMTT(60)
  <2>4. n \div e \in Int
    BY <2>2, DivRounds
  <2>5. y = n \div e
    BY <2>1, <1>8, SMTT(60)
  <2> HIDE DEF y
  <2> QED BY <2>3, <2>4, <2>5
<1> HIDE DEF y
<1> QED BY <1>0, <1>3, <1>9, SMTT(60)

\* A step of Walk is shorter than a cell.
LEMMA StepBounds ==
  ASSUME NEW s \in -FP_ONE..FP_ONE, NEW amount \in {MOVE_STEP, -MOVE_STEP}
  PROVE  (s * amount) \div FP_ONE \in -MOVE_STEP..MOVE_STEP
<1>0. FP_ONE \in Nat /\ FP_ONE > 0 /\ MOVE_STEP \in Nat
  BY DoomAssumption
<1>1. /\ s * amount \in Int /\ (-MOVE_STEP) * FP_ONE =< s * amount
      /\ s * amount =< MOVE_STEP * FP_ONE
  <2>1. /\ (FP_ONE - s) * MOVE_STEP >= 0 /\ (FP_ONE + s) * MOVE_STEP >= 0
    BY <1>0, SMTT(60)
  <2>2. /\ (FP_ONE - s) * MOVE_STEP = FP_ONE * MOVE_STEP - s * MOVE_STEP
        /\ (FP_ONE + s) * MOVE_STEP = FP_ONE * MOVE_STEP + s * MOVE_STEP
        /\ s * (-MOVE_STEP) = -(s * MOVE_STEP) /\ (-MOVE_STEP) * FP_ONE = -(FP_ONE * MOVE_STEP)
        /\ MOVE_STEP * FP_ONE = FP_ONE * MOVE_STEP
        /\ FP_ONE * MOVE_STEP \in Int /\ s * MOVE_STEP \in Int
    BY <1>0, SMTT(60)
  <2> QED BY <2>1, <2>2, SMTT(60)
<1>2. (s * amount) \div FP_ONE \in Int
  BY <1>0, <1>1, DivRounds, SMTT(60)
<1> QED BY <1>0, <1>1, <1>2, DivBounds, SMTT(60)

\* Moving by less than a cell changes the cell by at most one.
LEMMA CellStep ==
  ASSUME NEW x \in Int, NEW e \in -MOVE_STEP..MOVE_STEP
  PROVE  Cell(x) \in Int /\ Cell(x + e) - Cell(x) \in -1..1
<1>0. FP_ONE \in Nat /\ FP_ONE > 0 /\ MOVE_STEP \in Nat /\ MOVE_STEP < FP_ONE
  BY DoomAssumption
<1> DEFINE q == x \div FP_ONE
<1>1. q \in Int /\ q * FP_ONE =< x /\ x < (q + 1) * FP_ONE
  BY <1>0, DivRounds, SMTT(60)
<1>2. (x + e) \div FP_ONE \in Int /\ x + e \in Int
  BY <1>0, DivRounds, SMTT(60)
<1>3. Cell(x) = q /\ Cell(x + e) = (x + e) \div FP_ONE
  BY DEF Cell
<1> HIDE DEF q
<1>4. (q - 1) * FP_ONE =< x + e /\ x + e =< (q + 1) * FP_ONE + FP_ONE
  <2>1. (q - 1) * FP_ONE = q * FP_ONE - FP_ONE /\ q * FP_ONE \in Int
        /\ (q + 1) * FP_ONE \in Int
    BY <1>0, <1>1, SMTT(60)
  <2> QED BY <2>1, <1>0, <1>1, SMTT(60)
<1>5. x + e < (q + 2) * FP_ONE
  <2>1. (q + 2) * FP_ONE = (q + 1) * FP_ONE + FP_ONE /\ (q + 1) * FP_ONE \in Int
    BY <1>0, <1>1, SMTT(60)
  <2> QED BY <2>1, <1>0, <1>1, SMTT(60)
<1>6. q - 1 =< (x + e) \div FP_ONE
  <2> DEFINE r == (x + e) \div FP_ONE
  <2>1. r \in Int /\ x + e < (r + 1) * FP_ONE /\ (r + 1) * FP_ONE \in Int /\ (q - 1) * FP_ONE \in Int
    BY <1>0, <1>1, <1>2, DivRounds, SMTT(60)
  <2> HIDE DEF r
  <2>2. (q - 1) * FP_ONE < (r + 1) * FP_ONE
    BY <2>1, <1>2, <1>4, SMTT(60)
  <2>3. q - 1 < r + 1
    BY <2>1, <2>2, <1>0, <1>1, CancelFactor, SMTT(60)
  <2> QED BY <2>1, <2>3, <1>1, SMTT(60) DEF r
<1>7. (x + e) \div FP_ONE < q + 2
  <2> DEFINE r == (x + e) \div FP_ONE
  <2>1. r \in Int /\ r * FP_ONE =< x + e /\ r * FP_ONE \in Int /\ (q + 2) * FP_ONE \in Int
    BY <1>0, <1>1, <1>2, DivRounds, SMTT(60)
  <2> HIDE DEF r
  <2>2. r * FP_ONE < (q + 2) * FP_ONE
    BY <2>1, <1>2, <1>5, SMTT(60)
  <2>3. r < q + 2
    BY <2>1, <2>2, <1>0, <1>1, CancelFactor, SMTT(60)
  <2> QED BY <2>3 DEF r
<1> QED BY <1>1, <1>2, <1>3, <1>6, <1>7, SMTT(60)

\* Where the player is: a point of the floor.
DoomInv == player_x \in Int /\ player_y \in Int /\ player_angle \in Int
           /\ ~map_wall_at(player_x, player_y)

\* Walk: the player stays on the floor, and so does the corner it passes.
LEMMA WalkKeeps ==
  ASSUME DoomInv, NEW angle \in Int, NEW amount \in {MOVE_STEP, -MOVE_STEP}, Walk(angle, amount)
  PROVE  /\ player_x' \in Int /\ player_y' \in Int
         /\ ~map_wall_at(player_x', player_y') /\ ~map_wall_at(player_x', player_y)
         /\ Cell(player_x') - Cell(player_x) \in -1..1
         /\ Cell(player_y') - Cell(player_y) \in -1..1
<1>0. angle + 90 \in Int /\ MOVE_STEP \in Nat
  BY DoomAssumption, SMTT(60)
<1>1. PICK dx \in -MOVE_STEP..MOVE_STEP : dx = (cos_fixed(angle) * amount) \div FP_ONE
  BY <1>0, SinBounds, StepBounds DEF cos_fixed
<1>2. PICK dy \in -MOVE_STEP..MOVE_STEP : dy = (sin_fixed(angle) * amount) \div FP_ONE
  BY SinBounds, StepBounds
<1>3. player_x + dx \in Int /\ player_y + dy \in Int /\ 0 \in -MOVE_STEP..MOVE_STEP
      /\ player_x + 0 = player_x /\ player_y + 0 = player_y
  BY <1>0, SMTT(60) DEF DoomInv
<1>4. /\ player_x' = IF map_wall_at(player_x + dx, player_y) THEN player_x ELSE player_x + dx
      /\ player_y' = IF map_wall_at(player_x', player_y + dy) THEN player_y ELSE player_y + dy
  BY <1>1, <1>2 DEF Walk
<1>5. /\ Cell(player_x + dx) - Cell(player_x) \in -1..1 /\ Cell(player_x + 0) - Cell(player_x) \in -1..1
      /\ Cell(player_y + dy) - Cell(player_y) \in -1..1 /\ Cell(player_y + 0) - Cell(player_y) \in -1..1
  BY <1>3, CellStep DEF DoomInv
<1>6. player_x' \in Int /\ ~map_wall_at(player_x', player_y) /\ Cell(player_x') - Cell(player_x) \in -1..1
  BY <1>3, <1>4, <1>5 DEF DoomInv
<1>7. player_y' \in Int /\ ~map_wall_at(player_x', player_y') /\ Cell(player_y') - Cell(player_y) \in -1..1
  BY <1>3, <1>4, <1>5, <1>6 DEF DoomInv
<1> QED BY <1>6, <1>7

\* wrap_angle gives an angle.
LEMMA WrapInt ==
  ASSUME NEW a \in Int
  PROVE  wrap_angle(a) \in Int
BY SMTT(60) DEF wrap_angle

\* One step of the game, from the floor.
LEMMA DoomStep ==
  ASSUME DoomInv, DoomNext
  PROVE  /\ DoomInv' /\ ~map_wall_at(player_x', player_y)
         /\ Cell(player_x') - Cell(player_x) \in -1..1
         /\ Cell(player_y') - Cell(player_y) \in -1..1
<1>0. /\ MOVE_STEP \in Nat /\ TURN_STEP \in Nat
      /\ 90 \in Int /\ -90 \in Int /\ player_angle + 90 \in Int /\ player_angle + -90 \in Int
      /\ player_angle + TURN_STEP \in Int /\ player_angle - TURN_STEP \in Int
  BY DoomAssumption, SMTT(60) DEF DoomInv
<1>1. CASE UNCHANGED <<player_x, player_y, player_angle>>
  <2>1. Cell(player_x) \in Int /\ Cell(player_y) \in Int
    <3>1. 0 \in -MOVE_STEP..MOVE_STEP
      BY <1>0, SMTT(60)
    <3> QED BY <3>1, CellStep DEF DoomInv
  <2>2. Cell(player_x) - Cell(player_x) \in -1..1 /\ Cell(player_y) - Cell(player_y) \in -1..1
    BY <2>1, SMTT(60)
  <2> QED BY <1>1, <2>2 DEF DoomInv
<1>2. ASSUME NEW c, handle_key(c)
      PROVE  /\ DoomInv' /\ ~map_wall_at(player_x', player_y)
             /\ Cell(player_x') - Cell(player_x) \in -1..1
             /\ Cell(player_y') - Cell(player_y) \in -1..1
  <2>1. player_angle' \in Int
    BY <1>0, <1>2, WrapInt DEF handle_key, DoomInv
  <2>2. ASSUME NEW angle \in Int, NEW amount \in {MOVE_STEP, -MOVE_STEP}, Walk(angle, amount)
        PROVE  /\ DoomInv' /\ ~map_wall_at(player_x', player_y)
               /\ Cell(player_x') - Cell(player_x) \in -1..1
               /\ Cell(player_y') - Cell(player_y) \in -1..1
    BY <2>1, <2>2, WalkKeeps DEF DoomInv
  <2>3. CASE UNCHANGED <<player_x, player_y>>
    <3>1. Cell(player_x) \in Int /\ Cell(player_y) \in Int
      <4>1. 0 \in -MOVE_STEP..MOVE_STEP
        BY <1>0, SMTT(60)
      <4> QED BY <4>1, CellStep DEF DoomInv
    <3>2. Cell(player_x) - Cell(player_x) \in -1..1 /\ Cell(player_y) - Cell(player_y) \in -1..1
      BY <3>1, SMTT(60)
    <3> QED BY <2>1, <2>3, <3>2 DEF DoomInv
  <2>4. ASSUME NEW f \in {MOVE_STEP, -MOVE_STEP}, try_move(f, 0)
        PROVE  \E angle \in Int, amount \in {MOVE_STEP, -MOVE_STEP} : Walk(angle, amount)
    BY <2>4 DEF try_move, DoomInv
  <2>5. ASSUME NEW s, s # 0, try_move(0, s)
        PROVE  \E angle \in Int, amount \in {MOVE_STEP, -MOVE_STEP} : Walk(angle, amount)
    <3> DEFINE w == wrap_angle(player_angle + IF s > 0 THEN 90 ELSE -90)
    <3>1. w \in Int
      BY <1>0, WrapInt
    <3>2. Walk(w, MOVE_STEP)
      BY <2>5 DEF try_move
    <3> QED BY <3>1, <3>2
  <2>6. (MOVE_STEP # 0 /\ -MOVE_STEP # 0) \/ (MOVE_STEP = 0 /\ -MOVE_STEP = 0)
    BY <1>0, SMTT(60)
  <2>7. \/ (\E angle \in Int, amount \in {MOVE_STEP, -MOVE_STEP} : Walk(angle, amount))
        \/ UNCHANGED <<player_x, player_y>>
    BY <1>2, <2>4, <2>5, <2>6 DEF handle_key
  <2> QED BY <2>2, <2>3, <2>7
<1>3. CASE doom_main \/ doom_sleep
  BY <1>1, <1>3 DEF doom_main, doom_sleep, doomvars
<1> QED BY <1>2, <1>3 DEF DoomNext, Key

\* doom_wrapper.c, try_move: on a map of any shape and with any step shorter
\* than a cell, the player stays out of the walls and cannot pass one.
THEOREM WallsHold == DoomSpec => NoWayThroughWalls
<1>1. DoomInit => DoomInv
  <2>1. FP_ONE \in Nat /\ FP_ONE > 0
    BY DoomAssumption
  <2>2. Cell(FP_ONE + FP_ONE \div 2) = 1
    <3>1. PICK h \in Nat : h = FP_ONE \div 2 /\ h < FP_ONE
      BY <2>1, SMTT(60)
    <3>2. (FP_ONE + h) \div FP_ONE = 1
      <4>1. 1 * FP_ONE =< FP_ONE + h /\ FP_ONE + h < (1 + 1) * FP_ONE
        BY <2>1, <3>1, SMTT(60)
      <4>2. (FP_ONE + h) \div FP_ONE \in Int /\ ((FP_ONE + h) \div FP_ONE) * FP_ONE =< FP_ONE + h
            /\ FP_ONE + h < ((FP_ONE + h) \div FP_ONE + 1) * FP_ONE
        BY <2>1, <3>1, DivRounds, SMTT(60)
      <4> QED BY <2>1, <4>1, <4>2, CancelFactor, SMTT(60)
    <3> QED BY <3>1, <3>2 DEF Cell
  <2>3. ~map_wall_at(FP_ONE + FP_ONE \div 2, FP_ONE + FP_ONE \div 2)
    BY <2>2, DoomAssumption, SMTT(60) DEF map_wall_at
  <2>4. FP_ONE + FP_ONE \div 2 \in Int
    BY <2>1, SMTT(60)
  <2> QED BY <2>3, <2>4, SMTT(60) DEF DoomInit, DoomInv
<1>2. DoomInv /\ [DoomNext]_doomvars => DoomInv'
  <2>1. DoomInv /\ DoomNext => DoomInv'
    BY DoomStep
  <2>2. DoomInv /\ UNCHANGED doomvars => DoomInv'
    BY DEF DoomInv, doomvars
  <2> QED BY <2>1, <2>2
<1>3. DoomInv /\ [DoomNext]_doomvars =>
        [/\ ~map_wall_at(player_x', player_y') /\ ~map_wall_at(player_x', player_y)
         /\ Here'[1] - Here[1] \in -1..1 /\ Here'[2] - Here[2] \in -1..1]_doomvars
  <2>1. Here[1] = Cell(player_x) /\ Here[2] = Cell(player_y)
        /\ Here'[1] = Cell(player_x') /\ Here'[2] = Cell(player_y')
    BY DEF Here
  <2>2. DoomInv' => ~map_wall_at(player_x', player_y')
    BY DEF DoomInv
  <2> QED BY <2>1, <2>2, DoomStep
<1> QED BY <1>1, <1>2, <1>3, PTL DEF DoomSpec, NoWayThroughWalls

-----------------------------------------------------------------------------
(* The snake.                                                               *)

\* The inductive invariant behind OnePiece: what the cells and the food are,
\* and the shape of the snake.
SnakeTyped ==
  /\ snake \in Seq(Cells) /\ dir \in Steps /\ food \in Cells
  /\ score \in Nat /\ game_over \in BOOLEAN /\ turns \in Nat

\* How the direction asked for last relates to the cell behind the head, which
\* shows the direction moved in last.
NeckAhead ==
  ~game_over =>
    /\ turns = 0 => Plus(snake[2], dir) = snake[1]
    /\ turns = 1 => Plus(snake[1], dir) # snake[2]

SnakeInv == SnakeTyped /\ OnePiece /\ NeckAhead

\* A cell is a pair of natural numbers on the grid.
LEMMA CellPairs ==
  ASSUME NEW p \in Cells
  PROVE  p[1] \in Nat /\ p[2] \in Nat /\ p = <<p[1], p[2]>>
BY SnakeAssumption, SMTT(60) DEF Cells

\* The snake starts on three cells in a row, heading away from its tail.
LEMMA StartInOnePiece ==
  /\ SnakeStart \in Seq(Cells) /\ Len(SnakeStart) = 3
  /\ Range(SnakeStart) \subseteq Cells
  /\ \A i \in 1..2 : Plus(SnakeStart[i + 1], <<1, 0>>) = SnakeStart[i]
  /\ \A i, j \in 1..3 : SnakeStart[i] = SnakeStart[j] => i = j
<1> DEFINE x == GridW \div 2
           y == GridH \div 2
<1>1. /\ x \in 2..GridW - 1 /\ x - 1 \in 0..GridW - 1 /\ x - 2 \in 0..GridW - 1
      /\ y \in 0..GridH - 1
  BY SnakeAssumption, SMTT(60)
<1>2. SnakeStart = <<<<x, y>>, <<x - 1, y>>, <<x - 2, y>>>>
  BY <1>1, SMTT(60) DEF SnakeStart, Plus
<1> HIDE DEF x, y
<1>3. <<x, y>> \in Cells /\ <<x - 1, y>> \in Cells /\ <<x - 2, y>> \in Cells
  BY <1>1, SnakeAssumption, SMTT(60) DEF Cells
<1>4. SnakeStart \in Seq(Cells) /\ Len(SnakeStart) = 3
  BY <1>2, <1>3, SMTT(60)
<1>5. Range(SnakeStart) \subseteq Cells
  BY <1>4, RangeOfSeq
<1>6. \A i \in 1..2 : Plus(SnakeStart[i + 1], <<1, 0>>) = SnakeStart[i]
  <2>1. Plus(<<x - 1, y>>, <<1, 0>>) = <<x, y>> /\ Plus(<<x - 2, y>>, <<1, 0>>) = <<x - 1, y>>
    BY <1>1, SMTT(60) DEF Plus
  <2> QED BY <2>1, <1>2, SMTT(60)
<1>7. \A i, j \in 1..3 : SnakeStart[i] = SnakeStart[j] => i = j
  BY <1>1, <1>2, SMTT(60)
<1> QED BY <1>4, <1>5, <1>6, <1>7

\* Prepending a head to the snake, or to all of it but its last cell.
LEMMA AdvancedFacts ==
  ASSUME SnakeTyped, Len(snake) >= 3, NEW head \in Cells
  PROVE  /\ Advanced(head) \in Seq(Cells)
         /\ Len(Advanced(head)) = IF head = food THEN Len(snake) + 1 ELSE Len(snake)
         /\ Advanced(head)[1] = head
         /\ \A i \in 2..Len(Advanced(head)) : i - 1 \in 1..Len(snake) /\ Advanced(head)[i] = snake[i - 1]
<1> DEFINE front == SubSeq(snake, 1, Len(snake) - 1)
           rest == IF head = food THEN snake ELSE front
<1>1. Len(snake) \in Nat /\ snake \in Seq(Cells)
  BY LenProperties DEF SnakeTyped
<1>2. /\ front \in Seq(Cells) /\ Len(front) = Len(snake) - 1
      /\ \A i \in 1..Len(snake) - 1 : front[i] = snake[i]
  BY <1>1, SubSeqProperties, ElementOfSeq, SMTT(60)
<1>3. /\ rest \in Seq(Cells)
      /\ Len(rest) = IF head = food THEN Len(snake) ELSE Len(snake) - 1
      /\ \A i \in 1..Len(rest) : i \in 1..Len(snake) /\ rest[i] = snake[i]
  BY <1>1, <1>2, SMTT(60)
<1>4. Advanced(head) = <<head>> \o rest
  BY DEF Advanced
<1> HIDE DEF rest
<1>5. <<head>> \in Seq(Cells) /\ Len(<<head>>) = 1 /\ <<head>>[1] = head
  BY SMTT(60)
<1>6. /\ Advanced(head) \in Seq(Cells) /\ Len(Advanced(head)) = 1 + Len(rest)
      /\ \A i \in 1..1 + Len(rest) : Advanced(head)[i] = IF i <= 1 THEN <<head>>[i] ELSE rest[i - 1]
  BY <1>3, <1>4, <1>5, ConcatProperties, SMTT(60)
<1> QED BY <1>1, <1>3, <1>5, <1>6, SMTT(60)

\* What a turn can do to the direction: it stays or turns by a right angle.
LEMMA TurnedFacts ==
  ASSUME dir \in Steps, NEW k
  PROVE  /\ Turned(k) \in Steps
         /\ Turned(k) # dir => Turned(k) # <<0 - dir[1], 0 - dir[2]>>
BY SMTT(60) DEF Turned, Steps

\* Adding a step and not its opposite does not come back.
LEMMA ThereAndBack ==
  ASSUME NEW p \in Cells, NEW q \in Cells, NEW d \in Steps, NEW e \in Steps,
         Plus(q, d) = p
  PROVE  /\ Plus(p, d) # q
         /\ e # <<0 - d[1], 0 - d[2]>> => Plus(p, e) # q
BY CellPairs, SMTT(60) DEF Plus, Steps

\* A step of the snake: the shape and the neck survive a move, whichever of the
\* three things the move does.
LEMMA MoveKeeps ==
  ASSUME SnakeInv, NEW d \in Steps, dir' = d, turns' = 0, move_snake(d)
  PROVE  SnakeInv'
<1> DEFINE head == Plus(snake[1], d)
<1>0. /\ snake \in Seq(Cells) /\ Len(snake) \in Nat /\ Len(snake) >= 3 /\ Len(snake) = 3 + score
      /\ score \in Nat /\ food \in Cells /\ \A i \in 1..Len(snake) : snake[i] \in Cells
  BY LenProperties, ElementOfSeq, SMTT(60) DEF SnakeInv, SnakeTyped, OnePiece
<1>1. CASE game_over \/ Wall(head)
  <2>1. game_over' = TRUE /\ UNCHANGED <<snake, food, score>>
    BY <1>1 DEF move_snake
  <2>2. SnakeTyped' /\ NeckAhead'
    BY <2>1 DEF SnakeInv, SnakeTyped, NeckAhead
  <2>3. OnePiece'
    BY <2>1 DEF SnakeInv, OnePiece
  <2> QED BY <2>2, <2>3 DEF SnakeInv
<1>2. CASE ~(game_over \/ Wall(head))
  <2> DEFINE m == Advanced(head)
  <2>1. head \in Cells
    BY <1>2 DEF Wall
  <2>2. /\ ~game_over /\ snake' = m
        /\ IF head = food THEN score' = score + 1 /\ generate_food(m)
           ELSE UNCHANGED <<score, food>>
        /\ game_over' = Bites(m)
    BY <1>2 DEF move_snake
  <2>3. /\ m \in Seq(Cells) /\ m[1] = head
        /\ Len(m) = IF head = food THEN Len(snake) + 1 ELSE Len(snake)
        /\ \A i \in 2..Len(m) : i - 1 \in 1..Len(snake) /\ m[i] = snake[i - 1]
    BY <2>1, <1>0, AdvancedFacts DEF SnakeInv
  <2> HIDE DEF m
  <2>4. PICK n \in Nat : n = Len(m) /\ n >= 3 /\ score' \in Nat /\ n = 3 + score'
    BY <2>2, <2>3, <1>0, SMTT(60)
  <2>n. n \in Nat /\ n >= 3
    BY <2>4
  <2>5. food' \in Cells
    <3>1. generate_food(m) => food' \in Cells
      BY <1>0 DEF generate_food
    <3> QED BY <3>1, <2>2, <1>0
  <2>6. SnakeTyped'
    BY <2>2, <2>3, <2>4, <2>5 DEF SnakeTyped, Bites
  <2>7. Range(m) \subseteq Cells
    BY <2>3, RangeOfSeq
  <2>8. \A i \in 1..n - 1 : \E e \in Steps : Plus(m[i + 1], e) = m[i]
    <3> TAKE i \in 1..n - 1
    <3>1. CASE i = 1
      <4>1. 2 \in 2..n /\ i + 1 = 2
        BY <3>1, <2>n, SMTT(60)
      <4>2. m[2] = snake[1]
        BY <4>1, <2>3, <2>4, SMTT(60)
      <4> QED BY <3>1, <4>1, <4>2, <2>3
    <3>2. CASE i # 1
      <4>1. i \in 2..n /\ i + 1 \in 2..n /\ (i + 1) - 1 = i
        BY <3>2, <2>n, SMTT(60)
      <4>2. m[i] = snake[i - 1] /\ m[i + 1] = snake[i] /\ i \in 1..Len(snake)
        BY <4>1, <2>3, <2>4
      <4>3. i - 1 \in 1..Len(snake) - 1 /\ (i - 1) + 1 = i
        BY <4>1, <4>2, <1>0, SMTT(60)
      <4>4. \E e \in Steps : Plus(snake[(i - 1) + 1], e) = snake[i - 1]
        BY <4>3 DEF SnakeInv, OnePiece
      <4> QED BY <4>2, <4>3, <4>4
    <3> QED BY <3>1, <3>2
  <2>9. ~Bites(m) => \A i, j \in 1..n : m[i] = m[j] => i = j
    <3> SUFFICES ASSUME ~Bites(m), NEW i \in 1..n, NEW j \in 1..n, m[i] = m[j]
                 PROVE  i = j
      OBVIOUS
    <3>1. \A k \in 2..n : m[1] # m[k]
      BY <2>4 DEF Bites
    <3>2. \A a, b \in 1..Len(snake) : snake[a] = snake[b] => a = b
      BY <2>2 DEF SnakeInv, OnePiece
    <3>3. CASE i = 1 \/ j = 1
      BY <3>1, <3>3, <2>n, SMTT(60)
    <3>4. CASE i # 1 /\ j # 1
      <4>1. i \in 2..n /\ j \in 2..n
        BY <3>4, <2>n, SMTT(60)
      <4>a. \A k \in 2..n : k - 1 \in 1..Len(snake) /\ m[k] = snake[k - 1]
        BY <2>3, <2>4
      <4>2. i - 1 = j - 1
        BY <4>1, <4>a, <3>2
      <4> QED BY <4>2, <4>1, <2>n, SMTT(60)
    <3> QED BY <3>3, <3>4
  <2>10. OnePiece'
    BY <2>2, <2>4, <2>7, <2>8, <2>9 DEF OnePiece
  <2>11. NeckAhead'
    <3>1. 2 \in 2..n /\ 2 - 1 = 1
      BY <2>n, SMTT(60)
    <3>2. m[2] = snake[1]
      BY <3>1, <2>3, <2>4
    <3> QED BY <3>2, <2>2, <2>3, SMTT(60) DEF NeckAhead
  <2> QED BY <2>6, <2>10, <2>11 DEF SnakeInv
<1> QED BY <1>1, <1>2

\* A round that only turns the snake.
LEMMA TurnKeeps ==
  ASSUME SnakeInv, NEW k, dir' = Turned(k),
         turns' = (IF dir' = dir THEN turns ELSE turns + 1),
         UNCHANGED <<snake, food, score, game_over>>
  PROVE  SnakeInv'
<1>0. /\ snake \in Seq(Cells) /\ Len(snake) \in Nat /\ Len(snake) >= 3
      /\ dir \in Steps /\ turns \in Nat
      /\ snake[1] \in Cells /\ snake[2] \in Cells
  BY LenProperties, ElementOfSeq, SMTT(60) DEF SnakeInv, SnakeTyped, OnePiece
<1>1. dir' \in Steps /\ (dir' # dir => dir' # <<0 - dir[1], 0 - dir[2]>>)
  BY <1>0, TurnedFacts
<1>2. SnakeTyped'
  BY <1>0, <1>1, SMTT(60) DEF SnakeInv, SnakeTyped
<1>3. OnePiece'
  BY DEF SnakeInv, OnePiece
<1>4. NeckAhead'
  <2>1. CASE dir' = dir
    BY <2>1 DEF SnakeInv, NeckAhead
  <2>2. CASE dir' # dir
    <3>1. turns' # 0 /\ (turns' = 1 => turns = 0)
      BY <2>2, <1>0, SMTT(60)
    <3>2. turns = 0 /\ ~game_over => Plus(snake[2], dir) = snake[1]
      BY DEF SnakeInv, NeckAhead
    <3>3. turns = 0 /\ ~game_over => Plus(snake[1], dir') # snake[2]
      BY <3>2, <2>2, <1>0, <1>1, ThereAndBack
    <3> QED BY <3>1, <3>3 DEF NeckAhead
  <2> QED BY <2>1, <2>2
<1> QED BY <1>2, <1>3, <1>4 DEF SnakeInv

\* The invariant holds from the start and through every round.
LEMMA SnakeInvariant == SnakeSpec => []SnakeInv
<1>0. <<1, 0>> \in Steps
  BY DEF Steps
<1>1. ASSUME snake = SnakeStart, dir = <<1, 0>>, score = 0, game_over = FALSE, turns = 0,
             food \in Cells
      PROVE  SnakeInv
  <2>1. SnakeTyped
    BY <1>0, <1>1, StartInOnePiece DEF SnakeTyped
  <2>2. OnePiece
    <3>1. Len(snake) = 3 /\ Len(snake) - 1 = 2 /\ Len(snake) = 3 + score
      BY <1>1, StartInOnePiece, SMTT(60)
    <3> QED BY <3>1, <1>0, <1>1, StartInOnePiece DEF OnePiece
  <2>3. NeckAhead
    <3>1. 1 \in 1..2 /\ 1 + 1 = 2 /\ 0 # 1
      BY SMTT(60)
    <3> QED BY <3>1, <1>1, StartInOnePiece DEF NeckAhead
  <2> QED BY <2>1, <2>2, <2>3 DEF SnakeInv
<1>2. SnakeInit => SnakeInv
  BY <1>1 DEF SnakeInit
<1>3. SnakeInv /\ [SnakeNext]_snakevars => SnakeInv'
  <2> SUFFICES ASSUME SnakeInv, [SnakeNext]_snakevars PROVE SnakeInv'
    OBVIOUS
  <2>1. CASE Enter
    <3>1. food' \in Cells
      BY <2>1, StartInOnePiece DEF Enter, generate_food, SnakeInv, SnakeTyped
    <3>2. /\ snake' = SnakeStart /\ dir' = <<1, 0>> /\ score' = 0 /\ game_over' = FALSE
          /\ turns' = 0
      BY <2>1 DEF Enter
    <3>3. SnakeTyped'
      BY <1>0, <3>1, <3>2, StartInOnePiece DEF SnakeTyped
    <3>4. OnePiece'
      <4>1. Len(snake') = 3 /\ Len(snake') - 1 = 2 /\ Len(snake') = 3 + score'
        BY <3>2, StartInOnePiece, SMTT(60)
      <4> QED BY <4>1, <1>0, <3>2, StartInOnePiece DEF OnePiece
    <3>5. NeckAhead'
      <4>1. 1 \in 1..2 /\ 1 + 1 = 2 /\ 0 # 1
        BY SMTT(60)
      <4> QED BY <4>1, <3>2, StartInOnePiece DEF NeckAhead
    <3> QED BY <3>3, <3>4, <3>5 DEF SnakeInv
  <2>2. ASSUME NEW k \in GameKeys \cup {NoKey}, Round(k)
        PROVE  SnakeInv'
    <3>1. dir' = Turned(k)
      BY <2>2 DEF Round
    <3>2. CASE frame_delay + 1 < FrameDelay
      BY <3>1, <3>2, <2>2, TurnKeeps DEF Round
    <3>3. CASE ~(frame_delay + 1 < FrameDelay)
      <4>1. dir' \in Steps
        BY <3>1, TurnedFacts DEF SnakeInv, SnakeTyped
      <4>2. move_snake(dir') /\ turns' = 0
        BY <3>3, <2>2 DEF Round
      <4> QED BY <4>1, <4>2, MoveKeeps
    <3> QED BY <3>2, <3>3
  <2>3. CASE UNCHANGED snakevars
    BY <2>3 DEF snakevars, SnakeInv, SnakeTyped, OnePiece, NeckAhead
  <2> QED BY <2>1, <2>2, <2>3 DEF SnakeNext, Play
<1> QED BY <1>2, <1>3, PTL DEF SnakeSpec

\* snake.c: whatever keys are read and wherever the food falls, the snake stays
\* on the grid, in one piece, as long as its score says, and off itself while
\* the game lasts; on a grid of any size. (The model is the code up to a score
\* of 97: snake[100] has no room for more.)
THEOREM SnakeStaysWhole == SnakeSpec => []OnePiece
<1>1. SnakeInv => OnePiece
  BY DEF SnakeInv
<1> QED BY <1>1, SnakeInvariant, PTL

\* handle_input and move_snake: the snake bites its neck only when two turns
\* were read between two moves.
THEOREM OneTurnIsSafe == SnakeSpec => TurnBackTakesTwo
<1>1. SnakeInv /\ [SnakeNext]_snakevars =>
        [snake' # snake /\ game_over' /\ snake'[1] = snake'[3] =>
           turns + (IF dir' = dir THEN 0 ELSE 1) >= 2]_snakevars
  <2> SUFFICES ASSUME SnakeInv, SnakeNext, snake' # snake, game_over', snake'[1] = snake'[3],
                      ~(turns + (IF dir' = dir THEN 0 ELSE 1) >= 2)
               PROVE  FALSE
    OBVIOUS
  <2>0. /\ snake \in Seq(Cells) /\ Len(snake) \in Nat /\ Len(snake) >= 3
        /\ dir \in Steps /\ turns \in Nat
        /\ snake[1] \in Cells /\ snake[2] \in Cells
    BY LenProperties, ElementOfSeq, SMTT(60) DEF SnakeInv, SnakeTyped, OnePiece
  <2>1. ~Enter
    BY DEF Enter
  <2>2. PICK k \in GameKeys \cup {NoKey} : Round(k)
    BY <2>1 DEF SnakeNext, Play
  <2> DEFINE head == Plus(snake[1], dir')
  <2>3. dir' = Turned(k) /\ move_snake(dir')
    BY <2>2 DEF Round
  <2>4. dir' \in Steps /\ (dir' # dir => dir' # <<0 - dir[1], 0 - dir[2]>>)
    BY <2>0, <2>3, TurnedFacts
  <2>5. ~game_over /\ head \in Cells /\ snake' = Advanced(head)
    BY <2>3 DEF move_snake, Wall
  <2>6. snake'[1] = head /\ snake'[3] = snake[2]
    <3>1. /\ Len(Advanced(head)) = IF head = food THEN Len(snake) + 1 ELSE Len(snake)
          /\ Advanced(head)[1] = head
          /\ \A i \in 2..Len(Advanced(head)) : Advanced(head)[i] = snake[i - 1]
      BY <2>5, <2>0, AdvancedFacts DEF SnakeInv
    <3>2. 3 \in 2..Len(Advanced(head)) /\ 3 - 1 = 2
      BY <3>1, <2>0, SMTT(60)
    <3> QED BY <3>1, <3>2, <2>5
  <2>7. Plus(snake[1], dir') = snake[2]
    BY <2>6
  <2>8. CASE dir' = dir
    <3>1. turns = 0 \/ turns = 1
      BY <2>8, <2>0, SMTT(60)
    <3>2. turns = 0 => Plus(snake[2], dir) = snake[1]
      BY <2>5 DEF SnakeInv, NeckAhead
    <3>3. turns # 1
      BY <2>5, <2>7, <2>8 DEF SnakeInv, NeckAhead
    <3> QED BY <3>1, <3>2, <3>3, <2>0, <2>7, <2>8, ThereAndBack
  <2>9. CASE dir' # dir
    <3>1. turns = 0
      BY <2>9, <2>0, SMTT(60)
    <3>2. Plus(snake[2], dir) = snake[1]
      BY <3>1, <2>5 DEF SnakeInv, NeckAhead
    <3> QED BY <3>2, <2>0, <2>4, <2>7, <2>9, ThereAndBack
  <2> QED BY <2>8, <2>9
<1> QED BY <1>1, SnakeInvariant, PTL DEF SnakeSpec, TurnBackTakesTwo

-----------------------------------------------------------------------------
(* The editor.                                                              *)

\* What one row of the array may hold.
LineSet == {l \in Seq(Chars) : Len(l) =< MAX_LINE_LEN}

\* EditorAssumption in the form the provers use.
LEMMA Limits ==
  /\ MAX_LINES \in Nat /\ MAX_LINES >= 1 /\ EDIT_ROWS \in Nat /\ EDIT_ROWS >= 1
  /\ MAX_LINE_LEN \in Nat
BY EditorAssumption, SMTT(60)

\* The beginning and the end of a sequence, and three pieces put together.
LEMMA TakeFacts ==
  ASSUME NEW S, NEW s \in Seq(S), NEW n \in 0..Len(s)
  PROVE  /\ Take(s, n) \in Seq(S) /\ Len(Take(s, n)) = n
         /\ \A i \in 1..n : Take(s, n)[i] = s[i]
<1>1. \A i \in 1..n : s[i] \in S
  BY ElementOfSeq, LenProperties, SMTT(60)
<1>2. n \in Int /\ Len(s) \in Nat
  BY LenProperties, SMTT(60)
<1> QED BY <1>1, <1>2, SubSeqProperties, SMTT(60) DEF Take

\* What is left of a line behind the cursor.
LEMMA DropFacts ==
  ASSUME NEW S, NEW s \in Seq(S), NEW n \in 0..Len(s)
  PROVE  Drop(s, n) \in Seq(S) /\ Len(Drop(s, n)) = Len(s) - n
<1>1. Len(s) \in Nat /\ n \in Nat
  BY LenProperties, SMTT(60)
<1>2. \A i \in n + 1..Len(s) : s[i] \in S
  BY <1>1, ElementOfSeq, SMTT(60)
<1> QED BY <1>1, <1>2, SubSeqProperties, SMTT(60) DEF Drop

\* A part in the middle keeps its place, shifted by what precedes it.
LEMMA ConcatThree ==
  ASSUME NEW S, NEW a \in Seq(S), NEW b \in Seq(S), NEW c \in Seq(S)
  PROVE  /\ a \o b \o c \in Seq(S)
         /\ Len(a \o b \o c) = Len(a) + Len(b) + Len(c)
         /\ \A i \in 1..Len(b) : (a \o b \o c)[Len(a) + i] = b[i]
<1>1. /\ a \o b \in Seq(S) /\ Len(a \o b) = Len(a) + Len(b)
      /\ \A i \in 1..Len(a) + Len(b) :
           (a \o b)[i] = IF i <= Len(a) THEN a[i] ELSE b[i - Len(a)]
  BY ConcatProperties
<1>2. Len(a) \in Nat /\ Len(b) \in Nat /\ Len(c) \in Nat
  BY LenProperties
<1>3. \A i \in 1..Len(b) : (a \o b)[Len(a) + i] = b[i]
  <2> TAKE i \in 1..Len(b)
  <2>1. Len(a) + i \in 1..Len(a) + Len(b) /\ ~(Len(a) + i <= Len(a))
        /\ Len(a) + i - Len(a) = i
    BY <1>2, SMTT(60)
  <2> QED BY <1>1, <2>1, SMTT(60)
<1>4. /\ a \o b \o c \in Seq(S)
      /\ Len(a \o b \o c) = Len(a \o b) + Len(c)
      /\ \A i \in 1..Len(a \o b) + Len(c) :
           (a \o b \o c)[i] = IF i <= Len(a \o b) THEN (a \o b)[i]
                              ELSE c[i - Len(a \o b)]
  BY <1>1, ConcatProperties, SMTT(60)
<1>5. \A i \in 1..Len(b) : (a \o b \o c)[Len(a) + i] = (a \o b)[Len(a) + i]
  <2> TAKE i \in 1..Len(b)
  <2>1. Len(a) + i \in 1..Len(a \o b) + Len(c) /\ Len(a) + i <= Len(a \o b)
    BY <1>1, <1>2, SMTT(60)
  <2> QED BY <1>4, <2>1
<1> QED BY <1>1, <1>3, <1>4, <1>5

\* A line from which or into which one character is taken or put.
LEMMA LineEdits ==
  ASSUME NEW l \in LineSet, NEW col \in 0..Len(l)
  PROVE  /\ Len(l) < MAX_LINE_LEN =>
              \A c \in Chars :
                LET m == Take(l, col) \o <<c>> \o Drop(l, col)
                IN  m \in LineSet /\ Len(m) = Len(l) + 1
         /\ col < Len(l) => SymbolsWithout(l, col) \in LineSet
                            /\ Len(SymbolsWithout(l, col)) = Len(l) - 1
         /\ Take(l, col) \in LineSet /\ Drop(l, col) \in LineSet
<1>1. l \in Seq(Chars) /\ Len(l) \in Nat /\ Len(l) =< MAX_LINE_LEN /\ col \in Nat
  BY LenProperties, SMTT(60) DEF LineSet
<1>2. /\ Take(l, col) \in Seq(Chars) /\ Len(Take(l, col)) = col
      /\ Drop(l, col) \in Seq(Chars) /\ Len(Drop(l, col)) = Len(l) - col
  BY <1>1, TakeFacts, DropFacts
<1>3. ASSUME Len(l) < MAX_LINE_LEN, NEW c \in Chars
      PROVE  LET m == Take(l, col) \o <<c>> \o Drop(l, col)
             IN  m \in LineSet /\ Len(m) = Len(l) + 1
  <2>1. <<c>> \in Seq(Chars) /\ Len(<<c>>) = 1
    BY SMTT(60)
  <2> DEFINE a == Take(l, col)
             b == <<c>>
             d == Drop(l, col)
             m == a \o b \o d
  <2>2. m \in Seq(Chars) /\ Len(m) = Len(a) + Len(b) + Len(d)
    <3>1. a \in Seq(Chars) /\ b \in Seq(Chars) /\ d \in Seq(Chars)
      BY <1>2, <2>1
    <3> HIDE DEF a, b, d
    <3> QED BY <3>1, ConcatThree, SMTT(60)
  <2> HIDE DEF m
  <2>3. m \in LineSet /\ Len(m) = Len(l) + 1
    BY <1>1, <1>2, <1>3, <2>1, <2>2, Limits, SMTT(60) DEF LineSet
  <2> QED BY <2>3 DEF m
<1>4. ASSUME col < Len(l)
      PROVE  SymbolsWithout(l, col) \in LineSet /\ Len(SymbolsWithout(l, col)) = Len(l) - 1
  <2>1. col + 1 \in 0..Len(l)
    BY <1>1, <1>4, SMTT(60)
  <2>2. Drop(l, col + 1) \in Seq(Chars) /\ Len(Drop(l, col + 1)) = Len(l) - (col + 1)
    BY <1>1, <2>1, DropFacts
  <2>3. SymbolsWithout(l, col) \in Seq(Chars)
        /\ Len(SymbolsWithout(l, col)) = Len(Take(l, col)) + Len(Drop(l, col + 1))
    BY <1>2, <2>2, ConcatProperties DEF SymbolsWithout
  <2>4. Len(SymbolsWithout(l, col)) = Len(l) - 1
    <3> DEFINE k == Len(Take(l, col))
               j == Len(Drop(l, col + 1))
               n == Len(l)
    <3>1. k = col /\ j = n - (col + 1) /\ n \in Nat /\ col \in Nat
      BY <1>1, <1>2, <2>2
    <3>2. Len(SymbolsWithout(l, col)) = k + j
      BY <2>3
    <3> HIDE DEF k, j, n
    <3>3. k + j = n - 1
      BY <3>1, SMTT(60)
    <3> QED BY <3>2, <3>3 DEF n
  <2> QED BY <1>1, <2>3, <2>4, Limits, SMTT(60) DEF LineSet
<1>5. Take(l, col) \in LineSet /\ Drop(l, col) \in LineSet
  BY <1>1, <1>2, Limits, SMTT(60) DEF LineSet
<1> QED BY <1>3, <1>4, <1>5

-----------------------------------------------------------------------------
(* The invariant.                                                           *)

\* While a file is loaded the cursor waits at the beginning.
IInv ==
  /\ lines \in Seq(LineSet) /\ Len(lines) \in 1..MAX_LINES
  /\ dirty \in BOOLEAN /\ mode \in {"closed", "loading", "editing", "saving"}
  /\ at \in Nat /\ edits \in Nat
  /\ out \in Seq(Chars \cup {NL}) /\ file \in Seq(Chars \cup {NL, CR})
  /\ cursor_row \in Nat /\ cursor_col \in Nat /\ top_line \in Nat
  /\ CursorInText
  /\ mode = "loading" => cursor_row = 0 /\ cursor_col = 0
  /\ DirtyHonest

\* A key that leaves a text ls and puts the cursor at (row, col) within it.
LEMMA EditStep ==
  ASSUME IInv, mode = "editing", NEW ls, NEW row \in Nat, NEW col \in Nat,
         Edit(ls), Place(row, col),
         ls \in Seq(LineSet), Len(ls) \in 1..MAX_LINES,
         row < Len(ls), col =< Len(ls[row + 1])
  PROVE  IInv'
<1>1. /\ lines' = ls /\ dirty' = TRUE /\ edits' = edits + 1
      /\ mode' = mode /\ at' = at /\ out' = out /\ file' = file
      /\ cursor_row' = row /\ cursor_col' = col /\ top_line' = Visible(row)
  BY DEF Edit, Place
<1>2. top_line' \in Nat /\ top_line' =< row /\ row < top_line' + EDIT_ROWS
  BY <1>1, Limits, SMTT(60) DEF IInv, Visible
<1>3. CursorInText'
  BY <1>1, <1>2 DEF CursorInText, Line
<1> QED BY <1>1, <1>2, <1>3, SMTT(60) DEF IInv, DirtyHonest

\* The line under the cursor.
LEMMA LineFacts ==
  ASSUME IInv
  PROVE  /\ Line \in LineSet /\ Len(Line) \in Nat /\ Len(lines) \in Nat
         /\ cursor_row + 1 \in 1..Len(lines) /\ cursor_col \in 0..Len(Line)
         /\ cursor_row \in Nat
<1>1. Len(lines) \in Nat /\ cursor_row + 1 \in 1..Len(lines) /\ cursor_row \in Nat
  BY SMTT(60) DEF IInv, CursorInText
<1>2. Line \in LineSet
  BY <1>1, ElementOfSeq DEF Line, IInv
<1>3. Len(Line) \in Nat
  BY <1>2, LenProperties DEF LineSet
<1> QED BY <1>1, <1>2, <1>3, SMTT(60) DEF IInv, CursorInText

\* One line replaced.
LEMMA PutStep ==
  ASSUME IInv, mode = "editing", NEW l \in LineSet, NEW col \in Nat, col =< Len(l),
         Edit(Put(cursor_row, l)), Place(cursor_row, col)
  PROVE  IInv'
<1> DEFINE ls == Put(cursor_row, l)
<1>1. /\ ls \in Seq(LineSet) /\ Len(ls) = Len(lines)
      /\ ls[cursor_row + 1] = l
  BY LineFacts, ExceptSeq, SMTT(60) DEF Put, IInv
<1>2. Len(ls) \in 1..MAX_LINES /\ cursor_row < Len(ls) /\ cursor_row \in Nat
  BY <1>1, LineFacts, SMTT(60) DEF IInv
<1> HIDE DEF ls
<1>3. col =< Len(ls[cursor_row + 1])
  BY <1>1
<1> QED BY <1>1, <1>2, <1>3, EditStep DEF ls

\* Row r of s replaced by two rows.
LEMMA TwoForOne ==
  ASSUME NEW S, NEW s \in Seq(S), NEW r \in Nat, r < Len(s), NEW x \in S, NEW y \in S
  PROVE  LET t == Take(s, r) \o <<x, y>> \o Drop(s, r + 1)
         IN  t \in Seq(S) /\ Len(t) = Len(s) + 1 /\ t[r + 2] = y
<1> DEFINE a == Take(s, r)
           b == <<x, y>>
           d == Drop(s, r + 1)
           n == Len(s)
           t == a \o b \o d
<1>1. n \in Nat /\ r \in 0..n /\ r + 1 \in 0..n
  BY LenProperties, SMTT(60)
<1>2. a \in Seq(S) /\ Len(a) = r /\ d \in Seq(S) /\ Len(d) = n - (r + 1)
  BY <1>1, TakeFacts, DropFacts
<1>3. b \in Seq(S) /\ Len(b) = 2 /\ b[2] = y
  BY SMTT(60)
<1> HIDE DEF a, b, d, n
<1>5. /\ t \in Seq(S) /\ Len(t) = Len(a) + Len(b) + Len(d)
      /\ \A i \in 1..Len(b) : t[Len(a) + i] = b[i]
  <2>1. a \in Seq(S) /\ b \in Seq(S) /\ d \in Seq(S)
    BY <1>2, <1>3
  <2>2. t \in Seq(S) /\ Len(t) = Len(a) + Len(b) + Len(d)
    BY <2>1, ConcatThree, SMTT(60)
  <2>3. \A i \in 1..Len(b) : t[Len(a) + i] = b[i]
    BY <2>1, ConcatThree, SMTT(60)
  <2> QED BY <2>2, <2>3
<1> HIDE DEF t
<1>6. t[r + 2] = y
  BY <1>2, <1>3, <1>5, SMTT(60)
<1>7. Len(t) = r + 2 + (n - (r + 1))
  BY <1>2, <1>3, <1>5
<1>8. Len(t) = n + 1
  BY <1>1, <1>7, SMTT(60)
<1> QED BY <1>5, <1>6, <1>8 DEF a, b, d, n, t

\* Rows r and r + 1 of s replaced by one.
LEMMA OneForTwo ==
  ASSUME NEW S, NEW s \in Seq(S), NEW r \in Nat, r + 1 < Len(s), NEW x \in S
  PROVE  LET t == Take(s, r) \o <<x>> \o Drop(s, r + 2)
         IN  t \in Seq(S) /\ Len(t) = Len(s) - 1 /\ t[r + 1] = x
<1> DEFINE a == Take(s, r)
           b == <<x>>
           d == Drop(s, r + 2)
           n == Len(s)
           t == a \o b \o d
<1>1. n \in Nat /\ r \in 0..n /\ r + 2 \in 0..n
  BY LenProperties, SMTT(60)
<1>2. a \in Seq(S) /\ Len(a) = r /\ d \in Seq(S) /\ Len(d) = n - (r + 2)
  BY <1>1, TakeFacts, DropFacts
<1>3. b \in Seq(S) /\ Len(b) = 1 /\ b[1] = x
  BY SMTT(60)
<1> HIDE DEF a, b, d, n
<1>5. /\ t \in Seq(S) /\ Len(t) = Len(a) + Len(b) + Len(d)
      /\ \A i \in 1..Len(b) : t[Len(a) + i] = b[i]
  <2>1. a \in Seq(S) /\ b \in Seq(S) /\ d \in Seq(S)
    BY <1>2, <1>3
  <2>2. t \in Seq(S) /\ Len(t) = Len(a) + Len(b) + Len(d)
    BY <2>1, ConcatThree, SMTT(60)
  <2>3. \A i \in 1..Len(b) : t[Len(a) + i] = b[i]
    BY <2>1, ConcatThree, SMTT(60)
  <2> QED BY <2>2, <2>3
<1> HIDE DEF t
<1>6. t[r + 1] = x
  BY <1>2, <1>3, <1>5, SMTT(60)
<1>7. Len(t) = r + 1 + (n - (r + 2))
  BY <1>2, <1>3, <1>5
<1>8. Len(t) = n - 1
  BY <1>1, <1>7, SMTT(60)
<1> QED BY <1>5, <1>6, <1>8 DEF a, b, d, n, t

\* What becomes of two rows that are joined.
Joined(r) ==
  lines[r + 1] \o Take(lines[r + 2],
    Min2(Len(lines[r + 2]), MAX_LINE_LEN - Len(lines[r + 1])))

\* It is a row, and begins with the upper one.
LEMMA JoinedLine ==
  ASSUME IInv, NEW r \in Nat, r + 1 < Len(lines)
  PROVE  /\ Joined(r) \in LineSet /\ Len(lines[r + 1]) \in Nat
         /\ Len(lines[r + 1]) =< Len(Joined(r))
<1> DEFINE prev == lines[r + 1]
           cur  == lines[r + 2]
           k    == Min2(Len(cur), MAX_LINE_LEN - Len(prev))
           up   == Take(cur, k)
           x    == prev \o up
<1>1. Len(lines) \in Nat /\ lines \in Seq(LineSet) /\ Len(lines) =< MAX_LINES
  BY SMTT(60) DEF IInv
<1>2. prev \in LineSet /\ cur \in LineSet
  BY <1>1, ElementOfSeq, SMTT(60)
<1>3. /\ prev \in Seq(Chars) /\ Len(prev) \in Nat /\ Len(prev) =< MAX_LINE_LEN
      /\ cur \in Seq(Chars) /\ Len(cur) \in Nat
  BY <1>2, LenProperties DEF LineSet
<1>4. k \in 0..Len(cur) /\ Len(prev) + k =< MAX_LINE_LEN
  <2> DEFINE p == Len(prev)
             c == Len(cur)
  <2>1. p \in Nat /\ p =< MAX_LINE_LEN /\ c \in Nat
    BY <1>3
  <2> HIDE DEF p, c
  <2>2. /\ Min2(c, MAX_LINE_LEN - p) \in 0..c
        /\ p + Min2(c, MAX_LINE_LEN - p) =< MAX_LINE_LEN
    BY <2>1, Limits, SMTT(60) DEF Min2
  <2> QED BY <2>2 DEF p, c
<1>5. up \in Seq(Chars) /\ Len(up) = k
  BY <1>3, <1>4, TakeFacts
<1>6. x \in LineSet /\ Len(prev) =< Len(x)
  <2> HIDE DEF prev, up, k
  <2>1. x \in Seq(Chars) /\ Len(x) = Len(prev) + Len(up)
    BY <1>3, <1>5, ConcatProperties
  <2> HIDE DEF x
  <2> QED BY <1>3, <1>4, <1>5, <2>1, Limits, SMTT(60) DEF LineSet
<1> QED BY <1>3, <1>6 DEF Joined

\* Two rows joined, the cursor where the upper one ended.
LEMMA JoinStep ==
  ASSUME IInv, mode = "editing", NEW r \in Nat, r + 1 < Len(lines),
         Edit(Join(r)), Place(r, Len(lines[r + 1]))
  PROVE  IInv'
<1> DEFINE prev == lines[r + 1]
           x    == Joined(r)
           ls   == Join(r)
<1>1. Len(lines) \in Nat /\ lines \in Seq(LineSet) /\ Len(lines) =< MAX_LINES
  BY SMTT(60) DEF IInv
<1>2. x \in LineSet /\ Len(prev) \in Nat /\ Len(prev) =< Len(x)
  BY JoinedLine
<1>3. ls = Take(lines, r) \o <<x>> \o Drop(lines, r + 2)
  BY DEF Join, Joined
<1>4. ls \in Seq(LineSet) /\ Len(ls) = Len(lines) - 1 /\ ls[r + 1] = x
  <2> HIDE DEF x, ls
  <2> QED BY <1>1, <1>2, <1>3, OneForTwo, SMTT(60)
<1>5. Len(ls) \in 1..MAX_LINES /\ r < Len(ls)
  <2> HIDE DEF ls
  <2> QED BY <1>1, <1>4, Limits, SMTT(60)
<1> HIDE DEF x, ls
<1>6. Len(prev) =< Len(ls[r + 1])
  BY <1>2, <1>4
<1> HIDE DEF prev
<1>7. Edit(ls) /\ Place(r, Len(prev))
  BY DEF ls, prev
<1> QED BY <1>2, <1>4, <1>5, <1>6, <1>7, EditStep

\* A byte of the file goes to the last line, which keeps its limit.
LEMMA LoadStep ==
  ASSUME IInv, LoadByte
  PROVE  IInv'
<1> DEFINE c == file[at + 1]
           last == lines[Len(lines)]
<1>1. /\ mode = "loading" /\ at < Len(file) /\ at' = at + 1
      /\ cursor_row' = cursor_row /\ cursor_col' = cursor_col /\ top_line' = top_line
      /\ dirty' = dirty /\ mode' = mode /\ out' = out /\ file' = file /\ base' = base
      /\ edits' = edits
  BY DEF LoadByte, cursor
<1>2. /\ Len(lines) \in Nat /\ Len(lines) >= 1 /\ lines \in Seq(LineSet)
      /\ Len(lines) =< MAX_LINES
  BY SMTT(60) DEF IInv
<1>3. c \in Chars \cup {NL, CR}
  <2>1. at + 1 \in 1..Len(file) /\ file \in Seq(Chars \cup {NL, CR})
    BY <1>1, LenProperties, SMTT(60) DEF IInv
  <2> QED BY <2>1, ElementOfSeq
<1>4. last \in LineSet
  BY <1>2, ElementOfSeq, SMTT(60)
<1>5. \/ lines' = lines
      \/ Len(lines) < MAX_LINES /\ lines' = Append(lines, <<>>)
      \/ c \in Chars /\ Len(last) < MAX_LINE_LEN
         /\ lines' = [lines EXCEPT ![Len(lines)] = Append(last, c)]
  BY <1>3, SMTT(60) DEF LoadByte, Add
<1>6. lines' \in Seq(LineSet) /\ Len(lines') \in 1..MAX_LINES
  <2>1. CASE lines' = lines
    BY <1>2, <2>1, Limits, SMTT(60)
  <2>2. CASE Len(lines) < MAX_LINES /\ lines' = Append(lines, <<>>)
    <3>1. <<>> \in LineSet
      BY Limits, SMTT(60) DEF LineSet
    <3>2. lines' \in Seq(LineSet) /\ Len(lines') = Len(lines) + 1
      BY <1>2, <2>2, <3>1, AppendProperties
    <3> QED BY <1>2, <2>2, <3>2, Limits, SMTT(60)
  <2>3. CASE c \in Chars /\ Len(last) < MAX_LINE_LEN
             /\ lines' = [lines EXCEPT ![Len(lines)] = Append(last, c)]
    <3> DEFINE l == Append(last, c)
    <3>1. last \in Seq(Chars) /\ Len(last) \in Nat
      BY <1>4, LenProperties DEF LineSet
    <3> HIDE DEF last, c
    <3>2. l \in Seq(Chars) /\ Len(l) = Len(last) + 1
      BY <2>3, <3>1, AppendProperties
    <3> HIDE DEF l
    <3>3. l \in LineSet
      BY <2>3, <3>1, <3>2, Limits, SMTT(60) DEF LineSet
    <3>4. lines' = [lines EXCEPT ![Len(lines)] = l]
      BY <2>3 DEF l
    <3>5. lines' \in Seq(LineSet) /\ Len(lines') = Len(lines)
      BY <1>2, <3>3, <3>4, ExceptSeq, SMTT(60)
    <3> QED BY <1>2, <3>5, Limits, SMTT(60)
  <2> QED BY <1>5, <2>1, <2>2, <2>3
<1>7. Len(lines'[1]) \in Nat
  <2>1. lines'[1] \in LineSet
    BY <1>6, ElementOfSeq, SMTT(60)
  <2> QED BY <2>1, LenProperties DEF LineSet
<1>8. cursor_row = 0 /\ cursor_col = 0
  BY <1>1 DEF IInv
<1>9. CursorInText'
  BY <1>1, <1>6, <1>7, <1>8, SMTT(60) DEF CursorInText, Line, IInv
<1> QED BY <1>1, <1>6, <1>8, <1>9, SMTT(60) DEF IInv, DirtyHonest

\* A cursor key.
LEMMA MoveStep ==
  ASSUME IInv, NEW drow \in Int, NEW dcol \in Int, move_cursor(drow, dcol)
  PROVE  IInv'
<1> DEFINE row == Clamp(cursor_row + drow, 0, Len(lines) - 1)
           col == Clamp(cursor_col + dcol, 0, Len(lines[row + 1]))
<1>1. /\ Len(lines) \in Nat /\ Len(lines) >= 1 /\ lines \in Seq(LineSet)
      /\ cursor_row \in Nat /\ cursor_col \in Nat
  BY SMTT(60) DEF IInv
<1>2. row \in 0..Len(lines) - 1
  BY <1>1, SMTT(60) DEF Clamp
<1>3. Place(row, col) /\ mode = "editing"
      /\ UNCHANGED <<lines, dirty, mode, at, out, file, base, edits>>
  BY DEF move_cursor
<1> HIDE DEF row
<1>4. Len(lines[row + 1]) \in Nat
  <2>1. lines[row + 1] \in LineSet
    BY <1>1, <1>2, ElementOfSeq, SMTT(60)
  <2> QED BY <2>1, LenProperties DEF LineSet
<1>5. col \in 0..Len(lines[row + 1])
  BY <1>1, <1>4, SMTT(60) DEF Clamp
<1> HIDE DEF col
<1>6. cursor_row' = row /\ cursor_col' = col /\ top_line' = Visible(row)
  BY <1>3 DEF Place
<1>7. top_line' \in Nat /\ top_line' =< row /\ row < top_line' + EDIT_ROWS
  BY <1>2, <1>6, Limits, SMTT(60) DEF IInv, Visible
<1>8. CursorInText'
  BY <1>1, <1>2, <1>3, <1>4, <1>5, <1>6, <1>7, SMTT(60) DEF CursorInText, Line
<1> QED BY <1>2, <1>3, <1>4, <1>5, <1>6, <1>7, <1>8, SMTT(60) DEF IInv, DirtyHonest

\* The editor before it is opened.
LEMMA InitStep == EdInit => IInv
<1> SUFFICES ASSUME EdInit PROVE IInv
  OBVIOUS
<1>1. /\ lines = << <<>> >> /\ cursor_row = 0 /\ cursor_col = 0 /\ top_line = 0
      /\ dirty = FALSE /\ mode = "closed" /\ at = 0 /\ out = <<>> /\ file \in Files
      /\ edits = 0
  BY DEF EdInit
<1>2. <<>> \in LineSet
  BY Limits, SMTT(60) DEF LineSet
<1>3. lines \in Seq(LineSet) /\ Len(lines) = 1 /\ lines[1] = <<>>
  BY <1>1, <1>2, SMTT(60)
<1>4. Len(lines) \in 1..MAX_LINES
  BY <1>3, Limits, SMTT(60)
<1>5. CursorInText
  BY <1>1, <1>3, Limits, SMTT(60) DEF CursorInText, Line
<1>6. file \in Seq(Chars \cup {NL, CR}) /\ out \in Seq(Chars \cup {NL})
  BY <1>1, EditorAssumption, SMTT(60)
<1> QED BY <1>1, <1>3, <1>4, <1>5, <1>6 DEF IInv, DirtyHonest

\* Every step keeps the invariant.
LEMMA NextStep == IInv /\ [EdNext]_edvars => IInv'
<1> SUFFICES ASSUME IInv, [EdNext]_edvars PROVE IInv'
  OBVIOUS
<1>1. CASE Open
  <2>1. /\ lines' = << <<>> >> /\ cursor_row' = 0 /\ cursor_col' = 0 /\ top_line' = 0
        /\ dirty' = FALSE /\ mode' = "loading" /\ at' = 0 /\ out' = out
        /\ file' = file /\ edits' = edits
    BY <1>1 DEF Open
  <2>2. <<>> \in LineSet
    BY Limits, SMTT(60) DEF LineSet
  <2>3. lines' \in Seq(LineSet) /\ Len(lines') = 1 /\ lines'[1] = <<>>
    BY <2>1, <2>2, SMTT(60)
  <2>4. Len(lines') \in 1..MAX_LINES
    BY <2>3, Limits, SMTT(60)
  <2>5. CursorInText'
    BY <2>1, <2>3, Limits, SMTT(60) DEF CursorInText, Line
  <2> QED BY <2>1, <2>3, <2>4, <2>5 DEF IInv, DirtyHonest
<1>2. CASE LoadByte
  BY <1>2, LoadStep
<1>3. CASE LoadEnd
  BY <1>3 DEF LoadEnd, IInv, CursorInText, Line, DirtyHonest, cursor
<1>4. ASSUME NEW c \in Chars, insert_char(c) PROVE IInv'
  <2> DEFINE m == Take(Line, cursor_col) \o <<c>> \o Drop(Line, cursor_col)
  <2>1. /\ mode = "editing" /\ Len(Line) < MAX_LINE_LEN
        /\ Edit(Put(cursor_row, m)) /\ Place(cursor_row, cursor_col + 1)
    BY <1>4 DEF insert_char
  <2>2. m \in LineSet /\ Len(m) = Len(Line) + 1
    BY <2>1, LineFacts, LineEdits
  <2> HIDE DEF m
  <2>3. cursor_col + 1 \in Nat /\ cursor_col + 1 =< Len(m)
    BY <2>2, LineFacts, SMTT(60)
  <2> QED BY <2>1, <2>2, <2>3, PutStep
<1>5. CASE insert_newline
  <2> DEFINE a == Take(Line, cursor_col)
             d == Drop(Line, cursor_col)
             r == cursor_row
             ls == Splice(r, <<a, d>>)
  <2>1. /\ mode = "editing" /\ Len(lines) < MAX_LINES
        /\ Edit(ls) /\ Place(r + 1, 0)
    BY <1>5 DEF insert_newline
  <2>2. a \in LineSet /\ d \in LineSet
    BY LineFacts, LineEdits
  <2>3. r \in Nat /\ Len(lines) \in Nat /\ r < Len(lines)
    BY LineFacts, SMTT(60)
  <2>4. ls = Take(lines, r) \o <<a, d>> \o Drop(lines, r + 1)
    BY DEF Splice
  <2> HIDE DEF a, d, ls, r
  <2>5. ls \in Seq(LineSet) /\ Len(ls) = Len(lines) + 1 /\ ls[r + 2] = d
    BY <2>2, <2>3, <2>4, TwoForOne, SMTT(60) DEF IInv
  <2>6. /\ Len(ls) \in 1..MAX_LINES /\ r + 1 \in Nat /\ r + 1 < Len(ls)
        /\ 0 \in Nat /\ ls[(r + 1) + 1] = d
    BY <2>1, <2>3, <2>5, Limits, SMTT(60)
  <2>7. 0 =< Len(d)
    BY <2>2, LenProperties, SMTT(60) DEF LineSet
  <2> QED BY <2>1, <2>5, <2>6, <2>7, EditStep
<1>6. CASE backspace_char
  <2>1. CASE /\ cursor_col > 0
             /\ Edit(Put(cursor_row, SymbolsWithout(Line, cursor_col - 1)))
             /\ Place(cursor_row, cursor_col - 1)
    <3>1. /\ cursor_col - 1 \in 0..Len(Line) /\ cursor_col - 1 < Len(Line)
          /\ cursor_col - 1 \in Nat /\ Line \in LineSet
      BY <2>1, LineFacts, SMTT(60)
    <3> DEFINE k == cursor_col - 1
               m == SymbolsWithout(Line, k)
    <3>2. m \in LineSet /\ Len(m) = Len(Line) - 1
      BY <3>1, LineEdits
    <3> HIDE DEF m
    <3>3. k =< Len(m)
      BY <2>1, <3>1, <3>2, LineFacts, SMTT(60)
    <3> QED BY <1>6, <2>1, <3>1, <3>2, <3>3, PutStep DEF m, backspace_char
  <2>2. CASE /\ cursor_col = 0 /\ cursor_row > 0
             /\ Edit(Join(cursor_row - 1))
             /\ Place(cursor_row - 1, Len(lines[cursor_row]))
    <3> DEFINE r == cursor_row - 1
    <3>1. r \in Nat /\ r + 1 < Len(lines) /\ r + 1 = cursor_row
      BY <2>2, LineFacts, SMTT(60)
    <3>2. mode = "editing" /\ Edit(Join(r)) /\ Place(r, Len(lines[r + 1]))
      BY <1>6, <2>2, <3>1 DEF backspace_char
    <3> HIDE DEF r
    <3> QED BY <3>1, <3>2, JoinStep
  <2> QED BY <1>6, <2>1, <2>2 DEF backspace_char
<1>7. CASE delete_char
  <2>1. CASE /\ cursor_col < Len(Line)
             /\ Edit(Put(cursor_row, SymbolsWithout(Line, cursor_col)))
             /\ Place(cursor_row, cursor_col)
    <3> DEFINE m == SymbolsWithout(Line, cursor_col)
    <3>1. m \in LineSet /\ Len(m) = Len(Line) - 1
      BY <2>1, LineFacts, LineEdits
    <3> HIDE DEF m
    <3>2. cursor_col \in Nat /\ cursor_col =< Len(m)
      BY <2>1, <3>1, LineFacts, SMTT(60)
    <3> QED BY <1>7, <2>1, <3>1, <3>2, PutStep DEF m, delete_char
  <2>2. CASE /\ cursor_col >= Len(Line) /\ cursor_row < Len(lines) - 1
             /\ Edit(Join(cursor_row))
             /\ Place(cursor_row, Len(Line))
    <3>1. cursor_row \in Nat /\ cursor_row + 1 < Len(lines)
      BY <2>2, LineFacts, SMTT(60)
    <3>2. mode = "editing" /\ Place(cursor_row, Len(lines[cursor_row + 1]))
      BY <1>7, <2>2 DEF delete_char, Line
    <3> QED BY <2>2, <3>1, <3>2, JoinStep
  <2> QED BY <1>7, <2>1, <2>2 DEF delete_char
<1>8. ASSUME NEW d \in {<<-1, 0>>, <<1, 0>>, <<0, -1>>, <<0, 1>>},
             move_cursor(d[1], d[2])
      PROVE  IInv'
  <2>1. d[1] \in Int /\ d[2] \in Int
    BY SMTT(60)
  <2> QED BY <1>8, <2>1, MoveStep
<1>9. CASE Quit
  BY <1>9 DEF Quit, IInv, CursorInText, Line, DirtyHonest, cursor
<1>10. CASE SaveBegin
  BY <1>10, SMTT(60) DEF SaveBegin, IInv, CursorInText, Line, DirtyHonest, cursor
<1>11. CASE SaveRow
  <2> DEFINE l == lines[at + 1]
             C == Chars \cup {NL}
  <2>1. /\ mode = "saving" /\ at < Len(lines) /\ at' = at + 1
        /\ out' = out \o l \o <<NL>>
        /\ UNCHANGED <<lines, cursor_row, cursor_col, top_line, dirty, mode, file, base, edits>>
    BY <1>11 DEF SaveRow, cursor
  <2>2. l \in LineSet
    BY <2>1, ElementOfSeq, SMTT(60) DEF IInv
  <2>3. l \in Seq(C)
    <3>1. l \in Seq(Chars) /\ Len(l) \in Nat
      BY <2>2, LenProperties DEF LineSet
    <3> HIDE DEF l
    <3> QED BY <3>1, SMTT(60)
  <2>4. out \in Seq(C) /\ <<NL>> \in Seq(C)
    BY SMTT(60) DEF IInv
  <2> HIDE DEF l
  <2>5. out' \in Seq(C)
    <3> DEFINE n == <<NL>>
    <3>1. n \in Seq(C) /\ out' = out \o l \o n
      BY <2>1, <2>4
    <3> HIDE DEF n, C
    <3> QED BY <2>3, <2>4, <3>1, ConcatThree
  <2>6. CursorInText'
    BY <2>1 DEF IInv, CursorInText, Line
  <2> QED BY <2>1, <2>5, <2>6, SMTT(60) DEF IInv, DirtyHonest
<1>12. CASE SaveEnd
  <2>1. /\ mode' = "editing" /\ out' = <<>>
        /\ UNCHANGED <<lines, cursor_row, cursor_col, top_line, at, edits>>
        /\ \/ file' = out /\ dirty' = FALSE /\ base' = lines
           \/ UNCHANGED <<file, dirty, base>> /\ mode = "saving"
    BY <1>12 DEF SaveEnd, cursor
  <2>2. CursorInText'
    BY <2>1 DEF IInv, CursorInText, Line
  <2>3. file' \in Seq(Chars \cup {NL, CR}) /\ out' \in Seq(Chars \cup {NL})
    <3>1. out \in Seq(Chars \cup {NL, CR}) /\ file \in Seq(Chars \cup {NL, CR})
      BY SMTT(60) DEF IInv
    <3> QED BY <2>1, <3>1, SMTT(60)
  <2>4. DirtyHonest'
    BY <2>1 DEF IInv, DirtyHonest
  <2> QED BY <2>1, <2>2, <2>3, <2>4 DEF IInv
<1>13. CASE UNCHANGED edvars
  BY <1>13 DEF edvars, IInv, CursorInText, Line, DirtyHonest, cursor
<1> QED BY <1>1, <1>2, <1>3, <1>4, <1>5, <1>6, <1>7, <1>8, <1>9, <1>10, <1>11,
           <1>12, <1>13 DEF EdNext

\* The invariant holds throughout a session.
LEMMA Invariant == EdSpec => []IInv
BY InitStep, NextStep, PTL DEF EdSpec

\* The array of lines and every line in it keep within their limits whatever
\* file is loaded and whatever keys are pressed.
THEOREM EditorTypeCorrect == EdSpec => []EdTypeOK
<1>1. IInv => EdTypeOK
  <2> SUFFICES ASSUME IInv PROVE EdTypeOK
    OBVIOUS
  <2>1. \A r \in 1..Len(lines) : lines[r] \in LineSet
    BY ElementOfSeq DEF IInv
  <2>2. lines \in Seq(Seq(Chars))
    BY <2>1, SMTT(60) DEF IInv, LineSet
  <2> QED BY <2>1, <2>2 DEF EdTypeOK, IInv, LineSet
<1> QED BY <1>1, Invariant, PTL

\* The cursor stays within the text and on the screen, so that no key of
\* editor_open reads or writes beside the lines; and without the dirty mark the
\* text is the one loaded or saved last, failing saves included.
THEOREM TextAlwaysSafe == EdSpec => []TextSafe
<1>1. IInv => TextSafe
  BY DEF IInv, TextSafe
<1> QED BY <1>1, Invariant, PTL

-----------------------------------------------------------------------------
(* The keyboard.                                                            *)

\* The inductive invariant.  A return that is due (a character is ready, or
\* the flag has just been cleared) will append decoded: no character but the
\* last one returned can be that one already, and not even the last one when
\* the interrupt came in between.
KeyInv ==
  /\ decoded \in Nat /\ got \in Seq(Nat)
  /\ char_ready \in BOOLEAN /\ reader \in {"wait", "cleared"}
  /\ \A i \in 1..Len(got) : got[i] =< decoded
  /\ Delivery
  /\ NewestReturned
  /\ char_ready \/ reader = "cleared" =>
       /\ \A i \in 1..Len(got) - 1 : got[i] < decoded
       /\ char_ready /\ reader = "cleared" =>
            \A i \in 1..Len(got) : got[i] < decoded

\* Nothing has been typed or returned.
LEMMA InitKeyInv == KbInit => KeyInv
<1> SUFFICES ASSUME KbInit PROVE KeyInv
  OBVIOUS
<1>1. got = <<>> /\ Len(got) = 0 /\ got \in Seq(Nat)
  BY SMTT(60) DEF KbInit
<1>2. decoded = 0 /\ char_ready = FALSE /\ reader = "wait"
  BY DEF KbInit
<1>3. \A i \in 1..Len(got) : FALSE
  BY <1>1, SMTT(60)
<1>4. (\A i \in 1..Len(got) - 1 : FALSE) /\ (\A i \in 1..Len(got) - 2 : FALSE)
  BY <1>1, SMTT(60)
<1>5. Delivery /\ NewestReturned
  BY <1>2, <1>4, SMTT(60) DEF Delivery, NewestReturned
<1>6. ~(char_ready \/ reader = "cleared")
  BY <1>2
<1> QED BY <1>1, <1>2, <1>3, <1>5, <1>6 DEF KeyInv

\* A new character is newer than everything returned so far.
LEMMA StoreStep ==
  ASSUME KeyInv, NEW c, StoreChar(c), reader' = reader
  PROVE  KeyInv'
<1>1. CASE c = 0
  BY <1>1 DEF StoreChar, KeyInv, Delivery, NewestReturned, history
<1>2. CASE c # 0
  <2>1. decoded' = decoded + 1 /\ char_ready' = TRUE /\ got' = got
    BY <1>2 DEF StoreChar
  <2>2. \A i \in 1..Len(got) : got[i] \in Nat /\ got[i] < decoded'
    BY <2>1, SMTT(60) DEF KeyInv
  <2> QED BY <2>1, <2>2, SMTT(60) DEF KeyInv, Delivery, NewestReturned
<1> QED BY <1>1, <1>2

\* The second half of keyboard_getchar returns the newest character, which may
\* have been returned once before.
LEMMA ReturnStep ==
  ASSUME KeyInv, GetReturn
  PROVE  KeyInv'
<1>1. /\ reader = "cleared" /\ reader' = "wait" /\ char_ready' = char_ready
      /\ decoded' = decoded /\ got' = Append(got, decoded)
  BY DEF GetReturn, kbd
<1>2. /\ got' \in Seq(Nat) /\ Len(got') = Len(got) + 1 /\ Len(got) \in Nat
      /\ got'[Len(got) + 1] = decoded
      /\ \A i \in 1..Len(got) : got'[i] = got[i] /\ got[i] \in Nat
  BY <1>1, SMTT(60) DEF KeyInv
<1>3. \A i \in 1..Len(got') : got'[i] =< decoded'
  BY <1>1, <1>2, SMTT(60) DEF KeyInv
<1>4. Delivery'
  <2>1. \A i \in 1..Len(got') - 1 : got'[i] =< got'[i + 1]
    <3> SUFFICES ASSUME NEW i \in 1..Len(got) PROVE got'[i] =< got'[i + 1]
      BY <1>2, SMTT(60)
    <3>1. CASE i = Len(got)
      BY <1>2, <3>1 DEF KeyInv
    <3>2. CASE i \in 1..Len(got) - 1
      BY <1>2, <3>2, SMTT(60) DEF KeyInv, Delivery
    <3> QED BY <1>2, <3>1, <3>2, SMTT(60)
  <2>2. \A i \in 1..Len(got') - 2 : got'[i] < got'[i + 2]
    BY <1>1, <1>2, SMTT(60) DEF KeyInv, Delivery
  <2> QED BY <2>1, <2>2 DEF Delivery
<1>5. NewestReturned'
  BY <1>1, <1>2, SMTT(60) DEF NewestReturned
<1>6. char_ready' => \A i \in 1..Len(got') - 1 : got'[i] < decoded'
  BY <1>1, <1>2, SMTT(60) DEF KeyInv
<1> QED BY <1>1, <1>2, <1>3, <1>4, <1>5, <1>6 DEF KeyInv

\* Every step keeps the invariant.
LEMMA NextKeyInv == KeyInv /\ [KbNext]_kbvars => KeyInv'
<1> SUFFICES ASSUME KeyInv, [KbNext]_kbvars PROVE KeyInv'
  OBVIOUS
<1> USE DEF KeyInv, Delivery, NewestReturned
<1>1. ASSUME NEW k \in Keys, Press(k) PROVE KeyInv'
  BY <1>1 DEF Press, kbd, history
<1>2. ASSUME NEW k \in Keys, Release(k) PROVE KeyInv'
  BY <1>2 DEF Release, kbd, history
<1>3. CASE irq1_c
  <2>1. reader' = reader
    BY <1>3 DEF irq1_c
  <2>2. CASE UNCHANGED <<last_char, char_ready, history>>
    BY <2>1, <2>2 DEF history
  <2>3. CASE \E c : StoreChar(c)
    BY <2>1, <2>3, StoreStep
  <2> QED BY <1>3, <2>2, <2>3 DEF irq1_c, Modifier
<1>4. CASE GetClear
  BY <1>4 DEF GetClear, history
<1>5. CASE GetReturn
  BY <1>5, ReturnStep
<1>6. CASE Spin \/ UNCHANGED kbvars
  <2>1. UNCHANGED <<decoded, got, char_ready, reader>>
    BY <1>6 DEF Spin, kbvars, kbd, history
  <2> QED BY <2>1
<1> QED BY <1>1, <1>2, <1>3, <1>4, <1>5, <1>6 DEF KbNext

\* The invariant holds in every interleaving.
LEMMA KeyInvariance == KbSpec => []KeyInv
BY InitKeyInv, NextKeyInv, PTL DEF KbSpec

\* However interrupts and readers interleave, characters come in the order
\* they were typed, none more than twice, and a reader that finds the buffer
\* empty has returned the newest.
THEOREM AlwaysReadsInOrder == KbSpec => []ReadsInOrder
<1>1. KeyInv => ReadsInOrder
  BY DEF KeyInv, ReadsInOrder
<1> QED BY <1>1, KeyInvariance, PTL

-----------------------------------------------------------------------------
(* The flags between codes.                                                 *)

Shifts == {"ShiftL", "ShiftR"}
Ctrls == {"CtrlL", "CtrlR"}
Settled == extended <=> trail = "CtrlR"

\* Code sc of key k is what the controller holds last, its prefix taken or not.
Coming(k, sc) ==
  /\ sc \in {Make(CodeOf(k)), Break(CodeOf(k))}
  /\ sc.release <=> k \notin held
  /\ \/ /\ Prefixed(k) /\ trail = k
        /\ wire = <<Prefix, sc>> \/ (wire = <<sc>> /\ extended)
     \/ /\ ~Prefixed(k) /\ wire = <<sc>>
        /\ IF k \in {"ShiftL", "ShiftR", "CtrlL"} THEN Settled ELSE trail = k

\* A flag may outlive its key only while the release is on its way.
ShiftFollows ==
  shift_pressed => \/ held \cap Shifts # {}
                   \/ wire \in {<<Break("ShiftL")>>, <<Break("ShiftR")>>}

CtrlFollows ==
  ctrl_pressed => \/ held \cap Ctrls # {}
                  \/ wire \in {<<Break("ctrl")>>, <<Prefix, Break("ctrl")>>}

\* The inductive invariant behind FlagsFollowKeys: at rest the flag of the
\* prefix is settled, and otherwise one code of one key is being read.
FInv ==
  /\ (wire = <<>> /\ Settled) \/ (\E k \in Keys : \E sc : Coming(k, sc))
  /\ ShiftFollows /\ CtrlFollows

\* Codes tell keys apart, but for the two Ctrl keys, and none is the prefix.
LEMMA Codes ==
  ASSUME NEW k \in Keys
  PROVE  /\ CodeOf(k) # "E0"
         /\ CodeOf(k) \in {"ShiftL", "ShiftR"} => CodeOf(k) = k
         /\ k \in {"ShiftL", "ShiftR"} => CodeOf(k) = k
         /\ CodeOf(k) = "ctrl" <=> k \in {"CtrlL", "CtrlR"}
         /\ Prefixed(k) <=> k \in {"CtrlR", "Up", "KeypadEnter"}
BY KeyboardAssumption DEF CodeOf, Prefixed

\* No key has moved.
LEMMA InitFlags == KbInit => FInv
BY DEF KbInit, FInv, Settled, ShiftFollows, CtrlFollows

\* A key that moves sends its code, and a flag that loses its last key has the
\* release coming.
LEMMA KeyMoves ==
  ASSUME FInv, NEW k \in Keys, Press(k) \/ Release(k)
  PROVE  FInv'
<1> PICK sc : sc = IF k \in held THEN Break(CodeOf(k)) ELSE Make(CodeOf(k))
  OBVIOUS
<1>1. /\ wire = <<>> /\ wire' = Sends(k, sc) /\ Moved(k)
      /\ held' = IF k \in held THEN held \ {k} ELSE held \cup {k}
      /\ UNCHANGED <<extended, shift_pressed, ctrl_pressed>>
  BY DEF Press, Release, kbd
<1>2. Settled
  BY <1>1 DEF FInv, Coming
<1>3. Coming(k, sc)'
  <2>1. sc \in {Make(CodeOf(k)), Break(CodeOf(k))} /\ (sc.release <=> k \notin held')
    BY <1>1 DEF Make, Break
  <2>2. wire' = IF Prefixed(k) THEN <<Prefix, sc>> ELSE <<sc>>
    BY <1>1 DEF Sends
  <2>3. trail' = IF k \in {"ShiftL", "ShiftR", "CtrlL"} THEN trail ELSE k
    BY <1>1 DEF Moved
  <2>4. Prefixed(k) => trail' = k
    BY <2>3, Codes
  <2> QED BY <1>1, <1>2, <2>1, <2>2, <2>3, <2>4 DEF Coming, Settled
<1>4. ShiftFollows'
  <2>1. CASE k \in held /\ k \in Shifts
    BY <1>1, <2>1, Codes DEF ShiftFollows, Shifts, Sends
  <2>2. CASE ~(k \in held /\ k \in Shifts)
    BY <1>1, <2>2 DEF ShiftFollows, FInv
  <2> QED BY <2>1, <2>2
<1>5. CtrlFollows'
  <2>1. CASE k \in held /\ k \in Ctrls
    BY <1>1, <2>1, Codes DEF CtrlFollows, Ctrls, Sends
  <2>2. CASE ~(k \in held /\ k \in Ctrls)
    BY <1>1, <2>2 DEF CtrlFollows, FInv
  <2> QED BY <2>1, <2>2
<1> QED BY <1>3, <1>4, <1>5 DEF FInv

\* The handler takes the prefix, and then the code behind it.
LEMMA CodeTaken ==
  ASSUME FInv, irq1_c
  PROVE  FInv'
<1>0. PICK k \in Keys : \E sc : Coming(k, sc)
  BY DEF FInv, irq1_c
<1>1. PICK sc : Coming(k, sc)
  BY <1>0
<1>2. UNCHANGED <<held, trail>> /\ wire' = Tail(wire)
  BY DEF irq1_c
<1>3. /\ sc.code = CodeOf(k) /\ sc # Prefix
      /\ sc = IF sc.release THEN Break(sc.code) ELSE Make(sc.code)
  BY <1>1, Codes, SMTT(60) DEF Coming, Make, Break, Prefix
<1>4. CASE wire = <<Prefix, sc>>
  <2>1. wire' = <<sc>> /\ extended' = TRUE /\ UNCHANGED <<shift_pressed, ctrl_pressed>>
    BY <1>2, <1>4, SMTT(60) DEF irq1_c, Prefix
  <2>2. Prefixed(k) /\ trail = k
    BY <1>1, <1>3, <1>4 DEF Coming
  <2>3. Coming(k, sc)'
    BY <1>1, <1>2, <2>1, <2>2 DEF Coming
  <2>4. ShiftFollows'
    BY <1>2, <1>4, <2>1 DEF FInv, ShiftFollows
  <2>5. CtrlFollows'
    BY <1>2, <1>4, <2>1 DEF FInv, CtrlFollows
  <2> QED BY <2>3, <2>4, <2>5 DEF FInv
<1>5. CASE wire = <<sc>>
  <2>1. wire' = <<>> /\ Head(wire) = sc
    BY <1>2, <1>5, SMTT(60)
  <2>2. sc.release <=> k \notin held
    BY <1>1 DEF Coming
  <2>3. Settled'
    <3>1. CASE sc.code \in {"ShiftL", "ShiftR", "ctrl"}
      <4>1. extended' = extended
        BY <1>3, <2>1, <3>1 DEF irq1_c, Modifier, Prefix
      <4>2. Settled
        BY <1>1, <1>3, <1>5, <3>1, Codes DEF Coming, Settled
      <4> QED BY <1>2, <4>1, <4>2 DEF Settled
    <3>2. CASE sc.code \notin {"ShiftL", "ShiftR", "ctrl"}
      <4>1. extended' = FALSE
        BY <1>3, <2>1, <3>2, Codes DEF irq1_c
      <4>2. trail # "CtrlR"
        BY <1>1, <1>3, <3>2, Codes DEF Coming
      <4> QED BY <1>2, <4>1, <4>2 DEF Settled
    <3> QED BY <3>1, <3>2
  <2>4. ShiftFollows'
    <3>1. CASE sc.code \in {"ShiftL", "ShiftR"}
      <4>1. shift_pressed' = ~sc.release
        BY <1>3, <2>1, <3>1 DEF irq1_c, Modifier, Prefix
      <4> QED BY <1>2, <1>3, <2>2, <3>1, <4>1, Codes DEF ShiftFollows, Shifts
    <3>2. CASE sc.code \notin {"ShiftL", "ShiftR"}
      <4>1. shift_pressed' = shift_pressed
        BY <1>3, <2>1, <3>2 DEF irq1_c, Modifier, Prefix
      <4>2. wire \notin {<<Break("ShiftL")>>, <<Break("ShiftR")>>}
        BY <1>5, <3>2, SMTT(60) DEF Break
      <4> QED BY <1>2, <4>1, <4>2 DEF FInv, ShiftFollows
    <3> QED BY <3>1, <3>2
  <2>5. CtrlFollows'
    <3>1. CASE sc.code = "ctrl"
      <4>1. ctrl_pressed' = ~sc.release
        BY <1>3, <2>1, <3>1 DEF irq1_c, Modifier, Prefix
      <4> QED BY <1>2, <1>3, <2>2, <3>1, <4>1, Codes DEF CtrlFollows, Ctrls
    <3>2. CASE sc.code # "ctrl"
      <4>1. ctrl_pressed' = ctrl_pressed
        BY <1>3, <2>1, <3>2 DEF irq1_c, Modifier, Prefix
      <4>2. wire \notin {<<Break("ctrl")>>, <<Prefix, Break("ctrl")>>}
        BY <1>5, <3>2, SMTT(60) DEF Break
      <4> QED BY <1>2, <4>1, <4>2 DEF FInv, CtrlFollows
    <3> QED BY <3>1, <3>2
  <2> QED BY <2>1, <2>3, <2>4, <2>5 DEF FInv
<1> QED BY <1>1, <1>4, <1>5 DEF Coming

\* The steps of keyboard_getchar leave the keys and their flags alone.
LEMMA NextFlags == FInv /\ [KbNext]_kbvars => FInv'
<1> SUFFICES ASSUME FInv, [KbNext]_kbvars PROVE FInv'
  OBVIOUS
<1>1. ASSUME NEW k \in Keys, Press(k) \/ Release(k) PROVE FInv'
  BY <1>1, KeyMoves
<1>2. CASE irq1_c
  BY <1>2, CodeTaken
<1>3. CASE Spin \/ GetClear \/ GetReturn \/ UNCHANGED kbvars
  <2>1. UNCHANGED <<wire, held, trail, extended, shift_pressed, ctrl_pressed>>
    BY <1>3 DEF Spin, GetClear, GetReturn, kbvars, kbd, device
  <2> QED BY <2>1 DEF FInv, Coming, Settled, ShiftFollows, CtrlFollows
<1> QED BY <1>1, <1>2, <1>3 DEF KbNext

\* Whatever keys go down and up, and in whatever order: no modifier stays in
\* force without its key, and the prefix outlives no key but right Ctrl.
THEOREM FlagsAlwaysFollowKeys == KbSpec => []FlagsFollowKeys
<1>1. FInv => FlagsFollowKeys
  <2> SUFFICES ASSUME FInv, wire = <<>> PROVE FlagsFollowKeys
    BY DEF FlagsFollowKeys, NoStuckModifier, PrefixOnlyAfterRightCtrl
  <2>1. Settled
    BY DEF FInv, Coming
  <2>2. NoStuckModifier
    BY DEF FInv, ShiftFollows, CtrlFollows, Shifts, Ctrls, NoStuckModifier
  <2> QED BY <2>1, <2>2 DEF Settled, FlagsFollowKeys, PrefixOnlyAfterRightCtrl
<1> QED BY <1>1, InitFlags, NextFlags, PTL DEF KbSpec

-----------------------------------------------------------------------------
(* The editor's text: what save_file writes, for any number of lines.       *)

\* Pieces put together in another order are the same sequence.
Assoc(x, y, z) == (x \o y) \o z = x \o (y \o z)

\* Putting together is associative.
LEMMA Associative ==
  ASSUME NEW S, NEW x \in Seq(S), NEW y \in Seq(S), NEW z \in Seq(S)
  PROVE  Assoc(x, y, z)
BY ConcatAssociative, SMTT(60) DEF Assoc

\* What is written row by row is a loop.
Loop == INSTANCE Loops

\* The symbols of a file the editor writes.
Symbols == Chars \cup {NL}

\* Two pieces put together and taken apart again.
LEMMA Halves ==
  ASSUME NEW S, NEW a \in Seq(S), NEW b \in Seq(S)
  PROVE  Take(a \o b, Len(a)) = a /\ Drop(a \o b, Len(a)) = b
<1> DEFINE s == a \o b
<1>1. /\ s \in Seq(S) /\ Len(s) = Len(a) + Len(b)
      /\ \A i \in 1..Len(a) + Len(b) :
           s[i] = IF i <= Len(a) THEN a[i] ELSE b[i - Len(a)]
  BY ConcatProperties
<1>2. Len(a) \in Nat /\ Len(b) \in Nat
  BY LenProperties
<1> HIDE DEF s
<1>3. Take(s, Len(a)) = a
  <2>1. Len(a) \in 0..Len(s)
    BY <1>1, <1>2, SMTT(60)
  <2>2. /\ Take(s, Len(a)) \in Seq(S) /\ Len(Take(s, Len(a))) = Len(a)
        /\ \A i \in 1..Len(a) : Take(s, Len(a))[i] = s[i]
    BY <1>1, <2>1, TakeFacts
  <2>3. \A i \in 1..Len(a) : s[i] = a[i]
    BY <1>1, <1>2, SMTT(60)
  <2> QED BY <2>2, <2>3, SeqEqual
<1>4. Drop(s, Len(a)) = b
  <2> DEFINE d == Drop(s, Len(a))
  <2>1. \A i \in Len(a) + 1..Len(s) : s[i] \in S
    BY <1>1, <1>2, ElementOfSeq, SMTT(60)
  <2>2. /\ d \in Seq(S)
        /\ Len(d) = IF Len(a) + 1 <= Len(s) THEN Len(s) - (Len(a) + 1) + 1 ELSE 0
        /\ \A i \in 1..Len(s) - (Len(a) + 1) + 1 : d[i] = s[Len(a) + 1 + i - 1]
    <3>1. Len(a) + 1 \in Int /\ Len(s) \in Int
      BY <1>1, <1>2, SMTT(60)
    <3> QED BY <2>1, <3>1, SubSeqProperties, SMTT(60) DEF Drop
  <2> HIDE DEF d
  <2>3. Len(d) = Len(b)
    BY <1>1, <1>2, <2>2, SMTT(60)
  <2>4. \A i \in 1..Len(b) : d[i] = b[i]
    <3> TAKE i \in 1..Len(b)
    <3>1. /\ i \in 1..Len(s) - (Len(a) + 1) + 1 /\ Len(a) + 1 + i - 1 = Len(a) + i
          /\ Len(a) + i \in 1..Len(a) + Len(b) /\ ~(Len(a) + i <= Len(a))
          /\ Len(a) + i - Len(a) = i
      BY <1>1, <1>2, SMTT(60)
    <3>2. d[i] = s[Len(a) + i]
      BY <2>2, <3>1
    <3>3. s[Len(a) + i] = b[i]
      <4> DEFINE k == Len(a) + i
      <4>1. k \in 1..Len(a) + Len(b) /\ ~(k <= Len(a)) /\ k - Len(a) = i
        BY <3>1, SMTT(60)
      <4> HIDE DEF k
      <4>2. s[k] = b[k - Len(a)]
        BY <1>1, <4>1
      <4> QED BY <4>1, <4>2 DEF k
    <3> QED BY <3>2, <3>3
  <2>5. d = b
    BY <2>2, <2>3, <2>4, SeqEqual
  <2> QED BY <2>5 DEF d
<1> QED BY <1>3, <1>4 DEF s

\* A sequence taken apart and put together again.
LEMMA Parts ==
  ASSUME NEW S, NEW s \in Seq(S), NEW n \in 0..Len(s)
  PROVE  Take(s, n) \o Drop(s, n) = s
<1>1. /\ 1 \in 1..Len(s) + 1 /\ n \in 1 - 1..Len(s) /\ Len(s) \in n..Len(s)
  BY LenProperties, SMTT(60)
<1>2. SubSeq(s, 1, n) \o SubSeq(s, n + 1, Len(s)) = SubSeq(s, 1, Len(s))
  BY <1>1, ConcatAdjacentSubSeq
<1> QED BY <1>2, SubSeqFull DEF Take, Drop

\* f holds what save_file has written after each row.
Saves(f, ls) ==
  /\ f \in [0..Len(ls) -> Seq(Symbols)] /\ f[0] = <<>>
  /\ \A i \in 1..Len(ls) : f[i] = f[i - 1] \o ls[i] \o <<NL>>

\* A row and its end are symbols.
LEMMA RowSymbols ==
  ASSUME NEW s \in Seq(Symbols), NEW l \in LineSet
  PROVE  /\ l \in Seq(Symbols) /\ <<NL>> \in Seq(Symbols)
         /\ s \o l \o <<NL>> \in Seq(Symbols)
         /\ s \o l \o <<NL>> = s \o (l \o <<NL>>)
<1> DEFINE n == <<NL>>
<1>1. l \in Seq(Chars) /\ Chars \subseteq Symbols
  BY DEF LineSet, Symbols
<1>2. l \in Seq(Symbols)
  BY <1>1, SeqMonotonic
<1>3. n \in Seq(Symbols)
  BY SMTT(60) DEF Symbols
<1> HIDE DEF n
<1>4. s \o l \o n \in Seq(Symbols)
  BY <1>2, <1>3, ConcatProperties
<1>5. s \o l \o n = s \o (l \o n)
  <2>1. Assoc(s, l, n)
    BY <1>2, <1>3, Associative
  <2> QED BY <2>1 DEF Assoc
<1> QED BY <1>2, <1>3, <1>4, <1>5 DEF n

\* The length of one more row.
LEMMA RowLength ==
  ASSUME NEW s \in Seq(Symbols), NEW l \in LineSet
  PROVE  Len(s \o (l \o <<NL>>)) = Len(s) + (Len(l) + 1)
<1> DEFINE n == <<NL>>
<1>1. l \in Seq(Symbols) /\ n \in Seq(Symbols)
  BY RowSymbols
<1>2. Len(n) = 1
  BY SMTT(60)
<1> HIDE DEF n
<1>3. l \o n \in Seq(Symbols) /\ Len(l \o n) = Len(l) + Len(n)
  BY <1>1, ConcatProperties
<1>4. Len(s \o (l \o n)) = Len(s) + Len(l \o n)
  BY <1>3, ConcatProperties
<1> QED BY <1>2, <1>3, <1>4 DEF n

\* The text of any lines is what save_file has written after the last row.
LEMMA FlatSaves ==
  ASSUME NEW ls \in Seq(LineSet)
  PROVE  \E f : Saves(f, ls) /\ Flat(ls) = f[Len(ls)]
<1>0. PICK N \in Nat : N = Len(ls)
  BY LenProperties
<1> DEFINE T == Seq(Symbols)
           g == [x \in (1..N) \X T |-> x[2] \o ls[x[1]] \o <<NL>>]
<1>1. <<>> \in T /\ g \in Loop!LoopBodies(T, N)
  <2>1. ASSUME NEW i \in 1..N, NEW s \in T
        PROVE  s \o ls[i] \o <<NL>> \in T
    <3>1. ls[i] \in LineSet
      BY <1>0, ElementOfSeq
    <3> QED BY <3>1, RowSymbols
  <2>2. <<>> \in T
    BY EmptySeq
  <2> QED BY <2>1, <2>2 DEF Loop!LoopBodies
<1>2. PICK f : Loop!IsLoop(f, T, N, <<>>, g)
  <2> DEFINE b == <<>>
  <2>1. b \in T
    BY <1>1
  <2> HIDE DEF b, T, g
  <2>2. \E f : Loop!IsLoop(f, T, N, b, g)
    BY <1>1, <2>1, Loop!LoopExists
  <2> QED BY <2>2 DEF b
<1>3. f \in [0..N -> T] /\ f[0] = <<>> /\ \A i \in 1..N : f[i] = g[<<i, f[i - 1]>>]
  BY <1>2 DEF Loop!IsLoop
<1>4. ASSUME NEW i \in 1..N
      PROVE  f[i] = f[i - 1] \o ls[i] \o <<NL>>
  <2>1. i - 1 \in 0..N /\ f[i - 1] \in T
    BY <1>3, SMTT(60)
  <2>2. <<i, f[i - 1]>> \in (1..N) \X T
    BY <2>1
  <2>3. /\ <<i, f[i - 1]>>[1] = i /\ <<i, f[i - 1]>>[2] = f[i - 1]
    BY SMTT(60)
  <2> QED BY <1>3, <2>2, <2>3
<1> HIDE DEF g, T
<1> DEFINE Body(h) == [i \in 0..N |-> IF i = 0 THEN <<>> ELSE h[i - 1] \o ls[i] \o <<NL>>]
           F == CHOOSE h : h = Body(h)
<1>5. f = Body(f)
  <2>1. ASSUME NEW i \in 0..N
        PROVE  f[i] = IF i = 0 THEN <<>> ELSE f[i - 1] \o ls[i] \o <<NL>>
    <3>1. CASE i = 0
      BY <3>1, <1>3
    <3>2. CASE i # 0
      <4>1. i \in 1..N
        BY <3>2, SMTT(60)
      <4> QED BY <4>1, <3>2, <1>4
    <3> QED BY <3>1, <3>2
  <2> QED BY <2>1, <1>3
<1>6. F = Body(F)
  <2> HIDE DEF Body
  <2> QED BY <1>5
<1>7. Flat(ls) = F[N]
  BY <1>0 DEF Flat
<1> HIDE DEF F
<1>8. F[0] = <<>> /\ \A i \in 1..N : F[i] = F[i - 1] \o ls[i] \o <<NL>>
  <2>1. 0 \in 0..N /\ \A i \in 1..N : i \in 0..N /\ i # 0
    BY SMTT(60)
  <2> QED BY <1>6, <2>1
<1>9. 0..N \subseteq {i \in 0..N : F[i] = f[i]}
  <2> DEFINE S == {i \in 0..N : F[i] = f[i]}
  <2>1. 0 \in S
    BY <1>8, <1>3, SMTT(60)
  <2>2. ASSUME NEW i \in 1..N, i - 1 \in S PROVE i \in S
    <3>1. i \in 0..N
      BY SMTT(60)
    <3> QED BY <2>2, <3>1, <1>4, <1>8
  <2> HIDE DEF S
  <2>3. 0..N \subseteq S
    BY <2>1, <2>2, Loop!LoopInduction
  <2> QED BY <2>3 DEF S
<1>10. N \in 0..N
  BY SMTT(60)
<1>11. Flat(ls) = f[N]
  BY <1>7, <1>9, <1>10
<1> QED BY <1>0, <1>3, <1>4, <1>11 DEF Saves, T

\* A text is symbols; the rows before row k are what was written before it.
LEMMA FlatRows ==
  ASSUME NEW ls \in Seq(LineSet)
  PROVE  /\ Flat(ls) \in Seq(Symbols) /\ Len(Flat(ls)) \in Nat
         /\ Flat(Take(ls, 0)) = <<>>
         /\ \A k \in 1..Len(ls) :
              Flat(Take(ls, k)) = Flat(Take(ls, k - 1)) \o (ls[k] \o <<NL>>)
<1>0. PICK N \in Nat : N = Len(ls)
  BY LenProperties
<1>1. PICK f : Saves(f, ls) /\ Flat(ls) = f[Len(ls)]
  BY FlatSaves
<1>2. ASSUME NEW k \in 0..N PROVE Flat(Take(ls, k)) = f[k]
  <2> DEFINE t == Take(ls, k)
  <2>1. t \in Seq(LineSet) /\ Len(t) = k /\ \A i \in 1..k : t[i] = ls[i]
    BY <1>0, TakeFacts
  <2> HIDE DEF t
  <2>2. PICK g : Saves(g, t) /\ Flat(t) = g[Len(t)]
    BY <2>1, FlatSaves
  <2> DEFINE S == {i \in 0..k : g[i] = f[i]}
  <2>3. 0 \in S
    <3>1. 0 \in 0..k
      BY SMTT(60)
    <3> QED BY <1>1, <2>2, <3>1 DEF Saves
  <2>4. ASSUME NEW i \in 1..k, i - 1 \in S PROVE i \in S
    <3>1. i \in 0..k /\ i \in 1..N
      BY SMTT(60)
    <3>2. g[i] = g[i - 1] \o t[i] \o <<NL>>
      BY <2>1, <2>2 DEF Saves
    <3>3. f[i] = f[i - 1] \o ls[i] \o <<NL>>
      BY <1>0, <1>1, <3>1 DEF Saves
    <3>4. g[i - 1] = f[i - 1] /\ t[i] = ls[i]
      BY <2>1, <2>4
    <3> QED BY <3>1, <3>2, <3>3, <3>4
  <2> HIDE DEF S
  <2>5. k \in Nat /\ k \in 0..k
    BY SMTT(60)
  <2>6. 0..k \subseteq S
    BY <2>3, <2>4, <2>5, Loop!LoopInduction
  <2>7. g[k] = f[k]
    BY <2>5, <2>6 DEF S
  <2> QED BY <2>1, <2>2, <2>7 DEF t
<1>3. f \in [0..N -> Seq(Symbols)] /\ f[0] = <<>>
  BY <1>0, <1>1 DEF Saves
<1>4. Flat(ls) \in Seq(Symbols)
  <2>1. N \in 0..N
    BY SMTT(60)
  <2> QED BY <1>0, <1>1, <1>3, <2>1
<1>5. ASSUME NEW k \in 1..N
      PROVE  Flat(Take(ls, k)) = Flat(Take(ls, k - 1)) \o (ls[k] \o <<NL>>)
  <2>1. k - 1 \in 0..N /\ k \in 0..N
    BY SMTT(60)
  <2>2. f[k - 1] \in Seq(Symbols) /\ ls[k] \in LineSet
    BY <1>0, <1>3, <2>1, ElementOfSeq
  <2>3. f[k] = f[k - 1] \o ls[k] \o <<NL>>
    BY <1>0, <1>1 DEF Saves
  <2>4. f[k] = f[k - 1] \o (ls[k] \o <<NL>>)
    BY <2>2, <2>3, RowSymbols
  <2> QED BY <1>2, <2>1, <2>4
<1>6. Flat(Take(ls, 0)) = <<>>
  <2>1. 0 \in 0..N
    BY SMTT(60)
  <2> QED BY <1>2, <1>3, <2>1
<1> QED BY <1>0, <1>4, <1>5, <1>6, LenProperties

\* One more row.
LEMMA FlatOneMore ==
  ASSUME NEW a \in Seq(LineSet), NEW l \in LineSet
  PROVE  Flat(a \o <<l>>) = Flat(a) \o (l \o <<NL>>)
<1> DEFINE o == <<l>>
           s == a \o o
<1>1. o \in Seq(LineSet) /\ Len(o) = 1 /\ o[1] = l
  BY SMTT(60)
<1> HIDE DEF o
<1>2. Len(a) \in Nat
  BY LenProperties
<1>3. /\ s \in Seq(LineSet) /\ Len(s) = Len(a) + Len(o)
      /\ \A i \in 1..Len(a) + Len(o) : s[i] = IF i <= Len(a) THEN a[i] ELSE o[i - Len(a)]
  BY <1>1, ConcatProperties
<1>4. Take(s, Len(a)) = a
  BY <1>1, Halves
<1> HIDE DEF s
<1>5. Len(a) + 1 \in 1..Len(s) /\ Len(a) + 1 - 1 = Len(a) /\ Len(a) + 1 = Len(s)
      /\ s[Len(a) + 1] = l
  BY <1>1, <1>2, <1>3, SMTT(60)
<1>6. Take(s, Len(s)) = s
  BY <1>3, SubSeqFull DEF Take
<1>7. \A k \in 1..Len(s) : Flat(Take(s, k)) = Flat(Take(s, k - 1)) \o (s[k] \o <<NL>>)
  BY <1>3, FlatRows
<1>8. Flat(Take(s, Len(s))) = Flat(Take(s, Len(a))) \o (l \o <<NL>>)
  <2>1. PICK k \in 1..Len(s) : k = Len(s) /\ k - 1 = Len(a) /\ s[k] = l
    BY <1>5, SMTT(60)
  <2>2. Flat(Take(s, k)) = Flat(Take(s, k - 1)) \o (s[k] \o <<NL>>)
    BY <1>7
  <2> QED BY <2>1, <2>2
<1> QED BY <1>4, <1>6, <1>8 DEF s, o

\* The text of two pieces is their texts put together.
LEMMA FlatConcat ==
  ASSUME NEW a \in Seq(LineSet), NEW b \in Seq(LineSet)
  PROVE  Flat(a \o b) = Flat(a) \o Flat(b)
<1>0. PICK N \in Nat : N = Len(b)
  BY LenProperties
<1> DEFINE S == {k \in 0..N : Flat(a \o Take(b, k)) = Flat(a) \o Flat(Take(b, k))}
<1>1. Flat(a) \in Seq(Symbols)
  BY FlatRows
<1>2. 0 \in S
  <2>1. Take(b, 0) = <<>>
    BY SubSeqEmpty, SMTT(60) DEF Take
  <2>2. a \o <<>> = a
    BY ConcatEmptySeq
  <2>3. Flat(a) \o <<>> = Flat(a)
    BY <1>1, ConcatEmptySeq
  <2>4. Flat(Take(b, 0)) = <<>>
    BY FlatRows
  <2>5. 0 \in 0..N
    BY SMTT(60)
  <2> QED BY <2>1, <2>2, <2>3, <2>4, <2>5
<1>3. ASSUME NEW k \in 1..N, k - 1 \in S PROVE k \in S
  <2>1. k \in 0..N /\ k - 1 \in 0..N
    BY SMTT(60)
  <2> DEFINE t == Take(b, k - 1)
             l == b[k]
             o == <<l>>
             e == l \o <<NL>>
  <2>2. t \in Seq(LineSet) /\ l \in LineSet
    BY <1>0, <2>1, TakeFacts, ElementOfSeq
  <2>3. o \in Seq(LineSet)
    BY <2>2, SMTT(60)
  <2>4. Take(b, k) = t \o o
    <3>1. k \in 1..Len(b) /\ 1 \in 1..Len(b)
      BY <1>0, SMTT(60)
    <3> QED BY <3>1, SubSeqRecursiveSecond DEF Take
  <2>5. Flat(Take(b, k)) = Flat(t) \o e
    BY <1>0, FlatRows
  <2>6. e \in Seq(Symbols)
    BY <2>2, <1>1, RowSymbols, ConcatProperties
  <2>7. Flat(t) \in Seq(Symbols)
    BY <2>2, FlatRows
  <2>8. Flat(a \o t) = Flat(a) \o Flat(t)
    BY <1>3
  <2> HIDE DEF t, o, l, e
  <2>9. a \o Take(b, k) = (a \o t) \o o /\ a \o t \in Seq(LineSet)
    <3>1. (a \o t) \o o = a \o (t \o o)
      <4>1. Assoc(a, t, o)
        BY <2>2, <2>3, Associative
      <4> QED BY <4>1 DEF Assoc
    <3>2. a \o t \in Seq(LineSet)
      BY <2>2, ConcatProperties
    <3> QED BY <2>4, <3>1, <3>2
  <2>10. Flat((a \o t) \o o) = Flat(a \o t) \o e
    BY <2>2, <2>9, FlatOneMore DEF o, e
  <2>11. Flat(a) \o Flat(t) \o e = Flat(a) \o (Flat(t) \o e)
    <3>1. Assoc(Flat(a), Flat(t), e)
      BY <1>1, <2>6, <2>7, Associative
    <3> QED BY <3>1 DEF Assoc
  <2>12. Flat(a \o Take(b, k)) = Flat(a) \o Flat(Take(b, k))
    BY <2>5, <2>8, <2>9, <2>10, <2>11
  <2> QED BY <2>1, <2>12
<1> HIDE DEF S
<1>4. N \in 0..N
  BY SMTT(60)
<1>5. N \in S
  BY <1>2, <1>3, <1>4, Loop!LoopInduction
<1>6. Take(b, N) = b
  BY <1>0, SubSeqFull DEF Take
<1> QED BY <1>5, <1>6 DEF S

\* A sequence around its element r + 1.
LEMMA AroundOne ==
  ASSUME NEW S, NEW s \in Seq(S), NEW r \in Nat, r < Len(s)
  PROVE  /\ s = Take(s, r) \o <<s[r + 1]>> \o Drop(s, r + 1)
         /\ Take(s, r + 1) = Take(s, r) \o <<s[r + 1]>>
<1>1. Len(s) \in Nat
  BY LenProperties
<1>2. r + 1 \in 0..Len(s) /\ r + 1 \in 1..Len(s) /\ 1 \in 1..Len(s) /\ r + 1 - 1 = r
  BY <1>1, SMTT(60)
<1>3. r + 1 \in 1..r + 1 /\ r + 1 \in 1..Len(s)
  BY <1>2, SMTT(60)
<1>4. SubSeq(s, 1, r + 1) = SubSeq(s, 1, r + 1 - 1) \o <<s[r + 1]>>
  BY <1>2, <1>3, SubSeqRecursiveSecond, SMTT(60)
<1>5. Take(s, r + 1) = Take(s, r) \o <<s[r + 1]>>
  BY <1>2, <1>4 DEF Take
<1>6. Take(s, r + 1) \o Drop(s, r + 1) = s
  BY <1>2, Parts
<1> QED BY <1>5, <1>6

\* Two elements.
LEMMA TwoElements ==
  ASSUME NEW S, NEW x \in S, NEW y \in S
  PROVE  /\ <<x>> \in Seq(S) /\ <<y>> \in Seq(S) /\ <<x, y>> \in Seq(S)
         /\ Len(<<x>>) = 1 /\ Len(<<x, y>>) = 2
         /\ <<x>> \o <<y>> = <<x, y>>
<1> DEFINE b == <<x, y>>
           ox == <<x>>
           oy == <<y>>
           c == ox \o oy
<1>1. /\ b \in Seq(S) /\ Len(b) = 2 /\ b[1] = x /\ b[2] = y
      /\ Len(ox) = 1 /\ ox[1] = x /\ Len(oy) = 1 /\ oy[1] = y
  BY SMTT(60)
<1>2. ox \in Seq(S) /\ oy \in Seq(S)
  BY SMTT(60)
<1> HIDE DEF b, ox, oy
<1>3. /\ c \in Seq(S) /\ Len(c) = Len(ox) + Len(oy)
      /\ \A i \in 1..Len(ox) + Len(oy) :
           c[i] = IF i <= Len(ox) THEN ox[i] ELSE oy[i - Len(ox)]
  BY <1>2, ConcatProperties
<1> HIDE DEF c
<1>4. Len(b) = Len(c) /\ \A i \in 1..Len(b) : b[i] = c[i]
  BY <1>1, <1>3, SMTT(60)
<1>5. b = c
  BY <1>1, <1>3, <1>4, SeqEqual
<1> QED BY <1>1, <1>2, <1>5 DEF b, c, ox, oy

\* A sequence around the two elements behind the first r.
LEMMA AroundTwo ==
  ASSUME NEW S, NEW s \in Seq(S), NEW r \in Nat, r + 1 < Len(s)
  PROVE  s = Take(s, r) \o <<s[r + 1], s[r + 2]>> \o Drop(s, r + 2)
<1> DEFINE x == s[r + 1]
           y == s[r + 2]
           a == Take(s, r)
           d == Drop(s, r + 2)
           ox == <<x>>
           oy == <<y>>
<1>1. Len(s) \in Nat
  BY LenProperties
<1>2. /\ r + 1 \in Nat /\ r < Len(s) /\ r + 1 + 1 = r + 2 /\ r \in 0..Len(s)
      /\ r + 1 \in 1..Len(s) /\ r + 2 \in 1..Len(s)
  BY <1>1, SMTT(60)
<1>3. Take(s, r + 1) = a \o ox
  BY <1>2, AroundOne
<1>4. s = Take(s, r + 1) \o oy \o d
  BY <1>2, AroundOne
<1>5. a \in Seq(S) /\ x \in S /\ y \in S
  BY <1>2, TakeFacts, ElementOfSeq
<1> HIDE DEF x, y
<1>6. ox \in Seq(S) /\ oy \in Seq(S)
  BY <1>5, SMTT(60)
<1>8. ox \o oy = <<x, y>>
  BY <1>5, TwoElements
<1> HIDE DEF a, ox, oy
<1>7. a \o ox \o oy = a \o (ox \o oy)
  <2>1. Assoc(a, ox, oy)
    BY <1>5, <1>6, Associative
  <2> QED BY <2>1 DEF Assoc
<1> QED BY <1>3, <1>4, <1>7, <1>8 DEF a, x, y

\* A sequence with another element r + 1.
LEMMA AnotherOne ==
  ASSUME NEW S, NEW s \in Seq(S), NEW r \in Nat, r < Len(s), NEW x \in S
  PROVE  [s EXCEPT ![r + 1] = x] = Take(s, r) \o <<x>> \o Drop(s, r + 1)
<1> DEFINE e == [s EXCEPT ![r + 1] = x]
<1>1. Len(s) \in Nat /\ r + 1 \in 1..Len(s) /\ r \in 0..Len(s) /\ r + 1 \in 0..Len(s)
  BY LenProperties, SMTT(60)
<1>2. /\ e \in Seq(S) /\ Len(e) = Len(s)
      /\ \A j \in 1..Len(s) : e[j] = IF j = r + 1 THEN x ELSE s[j]
  BY <1>1, ExceptSeq, SMTT(60)
<1> HIDE DEF e
<1>3. e = Take(e, r) \o <<e[r + 1]>> \o Drop(e, r + 1)
  BY <1>2, AroundOne
<1>4. e[r + 1] = x
  BY <1>1, <1>2
<1>5. Take(e, r) = Take(s, r)
  <2>1. /\ Take(e, r) \in Seq(S) /\ Len(Take(e, r)) = r
        /\ Take(s, r) \in Seq(S) /\ Len(Take(s, r)) = r
        /\ \A i \in 1..r : Take(e, r)[i] = e[i]
        /\ \A i \in 1..r : Take(s, r)[i] = s[i]
    BY <1>1, <1>2, TakeFacts
  <2>2. \A i \in 1..r : i \in 1..Len(s) /\ i # r + 1
    BY <1>1, SMTT(60)
  <2>3. \A i \in 1..r : Take(e, r)[i] = Take(s, r)[i]
    BY <1>2, <2>1, <2>2
  <2> QED BY <2>1, <2>3, SeqEqual
<1>6. Drop(e, r + 1) = Drop(s, r + 1)
  <2> DEFINE n == Len(s)
             m == r + 1 + 1
  <2>1. n \in Int /\ m \in Int /\ \A i \in m..n : i \in 1..n /\ i # r + 1
    BY <1>1, SMTT(60)
  <2>2. \A i \in m..n : e[i] = s[i]
    BY <1>2, <2>1
  <2>3. \A i \in m..n : s[i] \in S /\ e[i] \in S
    BY <2>1, <2>2, ElementOfSeq
  <2>4. /\ SubSeq(e, m, n) \in Seq(S) /\ SubSeq(s, m, n) \in Seq(S)
        /\ Len(SubSeq(e, m, n)) = (IF m <= n THEN n - m + 1 ELSE 0)
        /\ Len(SubSeq(s, m, n)) = (IF m <= n THEN n - m + 1 ELSE 0)
        /\ \A i \in 1..n - m + 1 : SubSeq(e, m, n)[i] = e[m + i - 1]
        /\ \A i \in 1..n - m + 1 : SubSeq(s, m, n)[i] = s[m + i - 1]
    <3> HIDE DEF n, m
    <3> QED BY <2>1, <2>3, SubSeqProperties, SMTT(60)
  <2>5. \A i \in 1..Len(SubSeq(e, m, n)) : i \in 1..n - m + 1 /\ m + i - 1 \in m..n
    <3>1. Len(SubSeq(e, m, n)) = (IF m <= n THEN n - m + 1 ELSE 0)
      BY <2>4
    <3> HIDE DEF n, m
    <3> QED BY <2>1, <3>1, SMTT(60)
  <2>6. \A i \in 1..Len(SubSeq(e, m, n)) : SubSeq(e, m, n)[i] = SubSeq(s, m, n)[i]
    <3> HIDE DEF n, m
    <3> QED BY <2>2, <2>4, <2>5
  <2>7. SubSeq(e, m, n) = SubSeq(s, m, n)
    <3> HIDE DEF n, m
    <3> QED BY <2>4, <2>6, SeqEqual
  <2> QED BY <1>2, <2>7 DEF Drop
<1> QED BY <1>3, <1>4, <1>5, <1>6 DEF e

\* The beginning of three pieces put together.
LEMMA Beginnings ==
  ASSUME NEW S, NEW a \in Seq(S), NEW b \in Seq(S), NEW d \in Seq(S)
  PROVE  /\ Take(a \o b \o d, Len(a)) = a
         /\ Take(a \o b \o d, Len(a) + Len(b)) = a \o b
<1>1. a \o b \in Seq(S) /\ Len(a \o b) = Len(a) + Len(b) /\ b \o d \in Seq(S)
  BY ConcatProperties
<1>2. a \o b \o d = a \o (b \o d)
  <2>1. Assoc(a, b, d)
    BY Associative
  <2> QED BY <2>1 DEF Assoc
<1>3. Take(a \o (b \o d), Len(a)) = a
  BY <1>1, Halves
<1>4. Take((a \o b) \o d, Len(a \o b)) = a \o b
  BY <1>1, Halves
<1> QED BY <1>1, <1>2, <1>3, <1>4

\* Four pieces put together two by two.
Regroups(f, x, y, r) == f \o ((x \o y) \o r) = (f \o x) \o (y \o r)

\* That is the same sequence as well.
LEMMA FourParts ==
  ASSUME NEW S, NEW f \in Seq(S), NEW x \in Seq(S), NEW y \in Seq(S), NEW r \in Seq(S)
  PROVE  Regroups(f, x, y, r)
<1>1. y \o r \in Seq(S)
  BY ConcatProperties
<1>2. Assoc(x, y, r) /\ Assoc(f, x, y \o r)
  BY <1>1, Associative
<1> QED BY <1>2 DEF Assoc, Regroups

\* The text around one row.
LEMMA FlatAroundOne ==
  ASSUME NEW a \in Seq(LineSet), NEW l \in LineSet, NEW d \in Seq(LineSet)
  PROVE  Flat(a \o <<l>> \o d) = Flat(a) \o (l \o (<<NL>> \o Flat(d)))
<1> DEFINE o == <<l>>
           n == <<NL>>
           fa == Flat(a)
           fd == Flat(d)
<1>1. o \in Seq(LineSet)
  BY SMTT(60)
<1>2. fa \in Seq(Symbols) /\ fd \in Seq(Symbols)
  BY FlatRows
<1>3. l \in Seq(Symbols) /\ n \in Seq(Symbols)
  BY <1>2, RowSymbols
<1>4. Flat(a \o o) = fa \o (l \o n)
  BY FlatOneMore
<1> HIDE DEF o, n
<1>5. a \o o \in Seq(LineSet)
  BY <1>1, ConcatProperties
<1>6. Flat((a \o o) \o d) = (fa \o (l \o n)) \o fd
  BY <1>4, <1>5, FlatConcat
<1> HIDE DEF fa, fd
<1>7. fa \o (l \o n) \o fd = fa \o (l \o (n \o fd))
  <2>1. l \o n \in Seq(Symbols)
    BY <1>3, ConcatProperties
  <2>2. Assoc(fa, l \o n, fd) /\ Assoc(l, n, fd)
    BY <1>2, <1>3, <2>1, Associative
  <2> QED BY <2>2 DEF Assoc
<1> QED BY <1>6, <1>7 DEF o, n, fa, fd

\* The text t has the rows l and m between two others.
InTwoRows(t, before, l, m, behind) ==
  t = before \o (l \o (<<NL>> \o (m \o (<<NL>> \o behind))))

\* The text around two rows, and where they begin.
LEMMA FlatAroundTwo ==
  ASSUME NEW a \in Seq(LineSet), NEW l \in LineSet, NEW m \in LineSet,
         NEW d \in Seq(LineSet)
  PROVE  /\ InTwoRows(Flat(a \o <<l, m>> \o d), Flat(a), l, m, Flat(d))
         /\ Flat(Take(a \o <<l, m>> \o d, Len(a))) = Flat(a)
         /\ Flat(Take(a \o <<l, m>> \o d, Len(a) + 1)) = Flat(a) \o (l \o <<NL>>)
<1> DEFINE ol == <<l>>
           om == <<m>>
           lm == <<l, m>>
<1>1. ol \in Seq(LineSet) /\ om \in Seq(LineSet) /\ lm \in Seq(LineSet)
      /\ Len(ol) = 1 /\ ol \o om = lm
  BY TwoElements
<1>2. Flat(a \o ol) = Flat(a) \o (l \o <<NL>>)
  BY FlatOneMore
<1>3. Flat(a \o ol \o (om \o d)) = Flat(a) \o (l \o (<<NL>> \o Flat(om \o d)))
  <2>1. om \o d \in Seq(LineSet)
    BY <1>1, ConcatProperties
  <2> HIDE DEF om
  <2> QED BY <2>1, FlatAroundOne
<1>4. Flat(om \o d) = m \o (<<NL>> \o Flat(d))
  <2> DEFINE e == <<>>
             fm == m \o (<<NL>> \o Flat(d))
  <2>1. e \in Seq(LineSet)
    BY EmptySeq
  <2>2. Flat(Take(e, 0)) = <<>> /\ Take(e, 0) = <<>>
    <3>1. Take(e, 0) = <<>>
      BY SubSeqEmpty, SMTT(60) DEF Take
    <3> QED BY <2>1, <3>1, FlatRows
  <2>3. Flat(e \o om \o d) = Flat(e) \o fm
    <3> HIDE DEF e
    <3> QED BY <2>1, FlatAroundOne
  <2>4. e \o om = om
    BY <1>1, ConcatEmptySeq
  <2>5. fm \in Seq(Symbols)
    <3> DEFINE fd == Flat(d)
               n == <<NL>>
    <3>1. fd \in Seq(Symbols)
      BY FlatRows
    <3>2. m \in Seq(Symbols) /\ n \in Seq(Symbols)
      BY <3>1, RowSymbols
    <3> HIDE DEF fd, n
    <3>3. n \o fd \in Seq(Symbols)
      BY <3>1, <3>2, ConcatProperties
    <3>4. m \o (n \o fd) \in Seq(Symbols)
      BY <3>2, <3>3, ConcatProperties
    <3> QED BY <3>4 DEF n, fd
  <2>6. <<>> \o fm = fm
    BY <2>5, ConcatEmptySeq
  <2> QED BY <2>2, <2>3, <2>4, <2>6
<1> HIDE DEF ol, om, lm
<1>5. a \o lm = (a \o ol) \o om /\ a \o ol \in Seq(LineSet)
      /\ Len(a \o ol) = Len(a) + 1
  <2>1. (a \o ol) \o om = a \o (ol \o om)
    <3>1. ol \in Seq(LineSet) /\ om \in Seq(LineSet)
      BY <1>1
    <3>2. Assoc(a, ol, om)
      BY <3>1, Associative
    <3> QED BY <3>2 DEF Assoc
  <2>2. a \o ol \in Seq(LineSet) /\ Len(a \o ol) = Len(a) + Len(ol)
    BY <1>1, ConcatProperties
  <2> QED BY <1>1, <2>1, <2>2
<1>6. (a \o ol) \o om \o d = (a \o ol) \o (om \o d)
  <2>1. Assoc(a \o ol, om, d)
    BY <1>1, <1>5, Associative
  <2> QED BY <2>1 DEF Assoc
<1>7. Take((a \o ol) \o om \o d, Len(a \o ol)) = a \o ol
  <2> DEFINE b == a \o ol
  <2>1. b \in Seq(LineSet) /\ om \in Seq(LineSet)
    BY <1>1, <1>5
  <2> HIDE DEF b
  <2>2. Take(b \o om \o d, Len(b)) = b
    BY <2>1, Beginnings
  <2> QED BY <2>2 DEF b
<1>8. Take(a \o lm \o d, Len(a)) = a
  <2>1. lm \in Seq(LineSet)
    BY <1>1
  <2> HIDE DEF lm
  <2> QED BY <2>1, Beginnings
<1>9. Flat(a \o lm \o d) = Flat(a) \o (l \o (<<NL>> \o (m \o (<<NL>> \o Flat(d)))))
  BY <1>3, <1>4, <1>5, <1>6
<1>10. Flat(Take(a \o lm \o d, Len(a) + 1)) = Flat(a) \o (l \o <<NL>>)
  BY <1>2, <1>5, <1>7
<1> QED BY <1>8, <1>9, <1>10 DEF lm, InTwoRows

-----------------------------------------------------------------------------
(* One key, one symbol.                                                     *)

\* u is t with one symbol more, at place p.
Grown(t, u, p) == Take(u, p) = Take(t, p) /\ Drop(u, p + 1) = Drop(t, p)

\* A symbol between two pieces.
LEMMA OneIn ==
  ASSUME NEW S, NEW x \in Seq(S), NEW c \in S, NEW y \in Seq(S)
  PROVE  Grown(x \o y, x \o (<<c>> \o y), Len(x))
<1> DEFINE o == <<c>>
<1>1. o \in Seq(S) /\ Len(o) = 1
  BY SMTT(60)
<1> HIDE DEF o
<1>2. Take(x \o y, Len(x)) = x /\ Drop(x \o y, Len(x)) = y
  BY Halves
<1>3. o \o y \in Seq(S) /\ x \o o \in Seq(S) /\ Len(x \o o) = Len(x) + 1
  <2>1. o \o y \in Seq(S)
    BY <1>1, ConcatProperties
  <2>2. x \o o \in Seq(S) /\ Len(x \o o) = Len(x) + Len(o)
    BY <1>1, ConcatProperties
  <2> QED BY <1>1, <2>1, <2>2
<1>4. Take(x \o (o \o y), Len(x)) = x
  BY <1>3, Halves
<1>5. (x \o o) \o y = x \o (o \o y)
  <2>1. Assoc(x, o, y)
    BY <1>1, Associative
  <2> QED BY <2>1 DEF Assoc
<1>6. Drop((x \o o) \o y, Len(x \o o)) = y
  BY <1>3, Halves
<1> QED BY <1>2, <1>3, <1>4, <1>5, <1>6 DEF Grown, o

\* A symbol more in a row is a symbol more in the text.
LEMMA RowGrows ==
  ASSUME NEW a \in Seq(LineSet), NEW d \in Seq(LineSet),
         NEW x \in Seq(Chars), NEW c \in Chars, NEW y \in Seq(Chars),
         NEW l \in LineSet, l = x \o y, NEW m \in LineSet, m = x \o <<c>> \o y
  PROVE  Grown(Flat(a \o <<l>> \o d), Flat(a \o <<m>> \o d), Len(Flat(a)) + Len(x))
<1> DEFINE fa == Flat(a)
           r == <<NL>> \o Flat(d)
           o == <<c>>
<1>1. Flat(a \o <<l>> \o d) = fa \o (l \o r) /\ Flat(a \o <<m>> \o d) = fa \o (m \o r)
  BY FlatAroundOne
<1>2. fa \in Seq(Symbols) /\ r \in Seq(Symbols)
  <2> DEFINE n == <<NL>>
             fd == Flat(d)
  <2>1. fa \in Seq(Symbols) /\ fd \in Seq(Symbols)
    BY FlatRows
  <2>2. n \in Seq(Symbols)
    BY <2>1, RowSymbols
  <2> HIDE DEF n, fd
  <2>3. n \o fd \in Seq(Symbols)
    BY <2>1, <2>2, ConcatProperties
  <2> QED BY <2>1, <2>3 DEF n, fd
<1>3. x \in Seq(Symbols) /\ y \in Seq(Symbols) /\ c \in Symbols
  <2>1. Chars \subseteq Symbols
    BY DEF Symbols
  <2> QED BY <2>1, SeqMonotonic
<1>4. o \in Seq(Symbols)
  BY <1>3, SMTT(60)
<1> HIDE DEF fa, r, o
<1> DEFINE z == y \o r
           w == fa \o x
<1>5. z \in Seq(Symbols) /\ w \in Seq(Symbols) /\ Len(w) = Len(fa) + Len(x)
  BY <1>2, <1>3, ConcatProperties
<1>6. fa \o ((x \o y) \o r) = w \o z
  <2>1. Regroups(fa, x, y, r)
    BY <1>2, <1>3, FourParts
  <2> QED BY <2>1 DEF Regroups
<1>7. fa \o ((x \o o \o y) \o r) = w \o (o \o z)
  <2>1. fa \o ((x \o (o \o y)) \o r) = (fa \o x) \o ((o \o y) \o r)
    <3> DEFINE v == o \o y
    <3>1. v \in Seq(Symbols)
      BY <1>3, <1>4, ConcatProperties
    <3> HIDE DEF v
    <3>2. Regroups(fa, x, v, r)
      BY <1>2, <1>3, <3>1, FourParts
    <3> QED BY <3>2 DEF v, Regroups
  <2>2. x \o o \o y = x \o (o \o y)
    <3>1. Assoc(x, o, y)
      BY <1>3, <1>4, Associative
    <3> QED BY <3>1 DEF Assoc
  <2>3. (o \o y) \o r = o \o (y \o r)
    <3>1. Assoc(o, y, r)
      BY <1>2, <1>3, <1>4, Associative
    <3> QED BY <3>1 DEF Assoc
  <2> QED BY <2>1, <2>2, <2>3
<1> HIDE DEF z, w
<1>8. Grown(w \o z, w \o (<<c>> \o z), Len(w))
  BY <1>3, <1>5, OneIn
<1>9. Flat(a \o <<l>> \o d) = w \o z /\ Flat(a \o <<m>> \o d) = w \o (o \o z)
  BY <1>1, <1>6, <1>7 DEF o
<1> QED BY <1>5, <1>8, <1>9 DEF o, fa

\* So is a row divided in two.
LEMMA RowDivides ==
  ASSUME NEW a \in Seq(LineSet), NEW d \in Seq(LineSet),
         NEW x \in LineSet, NEW y \in LineSet, NEW l \in LineSet, l = x \o y
  PROVE  Grown(Flat(a \o <<l>> \o d), Flat(a \o <<x, y>> \o d), Len(Flat(a)) + Len(x))
<1> DEFINE fa == Flat(a)
           n == <<NL>>
           r == n \o Flat(d)
<1>1. Flat(a \o <<l>> \o d) = fa \o (l \o r) /\ Flat(a \o <<x, y>> \o d) = fa \o (x \o (n \o (y \o r)))
  <2>1. Flat(a \o <<l>> \o d) = fa \o (l \o r)
    BY FlatAroundOne
  <2>2. Flat(a \o <<x, y>> \o d) = fa \o (x \o (n \o (y \o r)))
    <3>1. InTwoRows(Flat(a \o <<x, y>> \o d), Flat(a), x, y, Flat(d))
      BY FlatAroundTwo
    <3> QED BY <3>1 DEF InTwoRows
  <2> QED BY <2>1, <2>2
<1>2. fa \in Seq(Symbols) /\ Flat(d) \in Seq(Symbols)
  BY FlatRows
<1>3. x \in Seq(Symbols) /\ y \in Seq(Symbols) /\ n \in Seq(Symbols)
  BY <1>2, RowSymbols
<1>4. r \in Seq(Symbols)
  <2> HIDE DEF n
  <2> QED BY <1>2, <1>3, ConcatProperties
<1> HIDE DEF fa, r, n
<1> DEFINE z == y \o r
           w == fa \o x
<1>5. z \in Seq(Symbols) /\ w \in Seq(Symbols) /\ Len(w) = Len(fa) + Len(x)
  BY <1>2, <1>3, <1>4, ConcatProperties
<1>6. fa \o ((x \o y) \o r) = w \o z
  <2>1. Regroups(fa, x, y, r)
    BY <1>2, <1>3, <1>4, FourParts
  <2> QED BY <2>1 DEF Regroups
<1>7. fa \o (x \o (n \o z)) = w \o (n \o z)
  <2>1. z \in Seq(Symbols)
    BY <1>5
  <2> HIDE DEF z
  <2>2. n \o z \in Seq(Symbols)
    BY <1>3, <2>1, ConcatProperties
  <2>3. Assoc(fa, x, n \o z)
    BY <1>2, <1>3, <2>2, Associative
  <2> QED BY <2>3 DEF Assoc
<1>8. NL \in Symbols
  BY DEF Symbols
<1>9. Grown(w \o z, w \o (<<NL>> \o z), Len(w))
  <2> HIDE DEF z, w
  <2> QED BY <1>5, <1>8, OneIn
<1>10. Flat(a \o <<l>> \o d) = w \o z /\ Flat(a \o <<x, y>> \o d) = w \o (n \o z)
  BY <1>1, <1>6, <1>7
<1> QED BY <1>5, <1>9, <1>10 DEF n, fa

\* The place of the cursor in the text.
PlaceOf(ls, row, col) == Len(Flat(Take(ls, row))) + col

\* The text u is t with a symbol more where the cursor was, or one less where
\* it is.
OneSymbol(t, u, p, q) ==
  \/ q = p + 1 /\ Grown(t, u, p)
  \/ q \in {p - 1, p} /\ Grown(u, t, q)

\* What a key did to the text.
OneSymbolStep ==
  OneSymbol(Flat(lines), Flat(lines'), PlaceOf(lines, cursor_row, cursor_col),
            PlaceOf(lines', cursor_row', cursor_col'))

\* The text around the line under the cursor, before and after it is replaced.
LEMMA PutParts ==
  ASSUME IInv, NEW m \in LineSet
  PROVE  \E a, d \in Seq(LineSet) :
           /\ lines = a \o <<Line>> \o d /\ Put(cursor_row, m) = a \o <<m>> \o d
           /\ Take(lines, cursor_row) = a /\ Take(Put(cursor_row, m), cursor_row) = a
<1> DEFINE r == cursor_row
           a == Take(lines, r)
           d == Drop(lines, r + 1)
           o == <<m>>
<1>1. /\ lines \in Seq(LineSet) /\ r \in Nat /\ r < Len(lines)
      /\ r \in 0..Len(lines) /\ r + 1 \in 0..Len(lines)
  BY LineFacts, SMTT(60) DEF IInv
<1>2. a \in Seq(LineSet) /\ Len(a) = r /\ d \in Seq(LineSet)
  BY <1>1, TakeFacts, DropFacts
<1>3. lines = a \o <<Line>> \o d
  BY <1>1, AroundOne DEF Line
<1>4. Put(r, m) = a \o o \o d
  BY <1>1, AnotherOne, SMTT(60) DEF Put
<1>5. o \in Seq(LineSet)
  BY SMTT(60)
<1>6. Take(a \o o \o d, Len(a)) = a
  <2> HIDE DEF a, d, o
  <2> QED BY <1>2, <1>5, Beginnings
<1>7. Take(Put(r, m), r) = a
  BY <1>2, <1>4, <1>6
<1> HIDE DEF d
<1> QED BY <1>2, <1>3, <1>4, <1>7

\* A line with a symbol more or less.
LEMMA SymbolOut ==
  ASSUME NEW l \in LineSet, NEW k \in Nat, k < Len(l)
  PROVE  /\ Take(l, k) \in Seq(Chars) /\ Drop(l, k + 1) \in Seq(Chars)
         /\ l[k + 1] \in Chars /\ Len(Take(l, k)) = k
         /\ l = Take(l, k) \o <<l[k + 1]>> \o Drop(l, k + 1)
         /\ SymbolsWithout(l, k) = Take(l, k) \o Drop(l, k + 1)
         /\ SymbolsWithout(l, k) \in LineSet
<1>1. l \in Seq(Chars) /\ Len(l) \in Nat
  BY LenProperties DEF LineSet
<1>2. k \in 0..Len(l) /\ k + 1 \in 0..Len(l) /\ k + 1 \in 1..Len(l)
  BY <1>1, SMTT(60)
<1>3. /\ Take(l, k) \in Seq(Chars) /\ Drop(l, k + 1) \in Seq(Chars)
      /\ Len(Take(l, k)) = k
  BY <1>1, <1>2, TakeFacts, DropFacts
<1>4. l[k + 1] \in Chars
  BY <1>1, <1>2, ElementOfSeq
<1>5. l = Take(l, k) \o <<l[k + 1]>> \o Drop(l, k + 1)
  BY <1>1, AroundOne
<1>6. SymbolsWithout(l, k) \in LineSet
  BY <1>2, LineEdits
<1> QED BY <1>3, <1>4, <1>5, <1>6 DEF SymbolsWithout

\* A character typed.
LEMMA TypedOne ==
  ASSUME IInv, NEW c \in Chars, insert_char(c)
  PROVE  OneSymbolStep
<1> DEFINE x == Take(Line, cursor_col)
           y == Drop(Line, cursor_col)
           m == x \o <<c>> \o y
<1>1. /\ Len(Line) < MAX_LINE_LEN /\ lines' = Put(cursor_row, m)
      /\ cursor_row' = cursor_row /\ cursor_col' = cursor_col + 1
  BY DEF insert_char, Edit, Place
<1>2. Line \in LineSet /\ cursor_col \in 0..Len(Line) /\ Line \in Seq(Chars)
  BY LineFacts DEF LineSet
<1>3. m \in LineSet
  BY <1>1, <1>2, LineEdits
<1>4. x \in Seq(Chars) /\ y \in Seq(Chars) /\ Len(x) = cursor_col
  BY <1>2, TakeFacts, DropFacts
<1>5. Line = x \o y
  BY <1>2, Parts
<1>6. PICK a, d \in Seq(LineSet) :
        /\ lines = a \o <<Line>> \o d /\ lines' = a \o <<m>> \o d
        /\ Take(lines, cursor_row) = a /\ Take(lines', cursor_row) = a
  BY <1>1, <1>3, PutParts
<1> DEFINE p == PlaceOf(lines, cursor_row, cursor_col)
           q == PlaceOf(lines', cursor_row', cursor_col')
<1>7. p = Len(Flat(a)) + cursor_col /\ q = Len(Flat(a)) + (cursor_col + 1)
  BY <1>1, <1>6 DEF PlaceOf
<1>8. Len(Flat(a)) \in Nat /\ cursor_col \in Nat
  BY FlatRows DEF IInv
<1>9. Grown(Flat(a \o <<Line>> \o d), Flat(a \o <<m>> \o d), Len(Flat(a)) + Len(x))
  <2> HIDE DEF x, y
  <2> QED BY <1>2, <1>3, <1>4, <1>5, RowGrows
<1>10. Grown(Flat(lines), Flat(lines'), p)
  BY <1>4, <1>6, <1>7, <1>9
<1> HIDE DEF p, q
<1>11. q = p + 1
  BY <1>7, <1>8, SMTT(60)
<1> QED BY <1>10, <1>11 DEF OneSymbolStep, OneSymbol, p, q

\* The character at column k of the line taken out, the cursor left there.
LEMMA TakenOne ==
  ASSUME IInv, NEW k \in Nat, k < Len(Line), cursor_col \in {k, k + 1},
         lines' = Put(cursor_row, SymbolsWithout(Line, k)),
         cursor_row' = cursor_row, cursor_col' = k
  PROVE  OneSymbolStep
<1> DEFINE x == Take(Line, k)
           y == Drop(Line, k + 1)
           c == Line[k + 1]
           m == SymbolsWithout(Line, k)
<1>1. Line \in LineSet
  BY LineFacts
<1>2. /\ x \in Seq(Chars) /\ y \in Seq(Chars) /\ c \in Chars /\ Len(x) = k
      /\ Line = x \o <<c>> \o y /\ m = x \o y /\ m \in LineSet
  BY <1>1, SymbolOut
<1>3. PICK a, d \in Seq(LineSet) :
        /\ lines = a \o <<Line>> \o d /\ lines' = a \o <<m>> \o d
        /\ Take(lines, cursor_row) = a /\ Take(lines', cursor_row) = a
  BY <1>2, PutParts
<1> DEFINE p == PlaceOf(lines, cursor_row, cursor_col)
           q == PlaceOf(lines', cursor_row', cursor_col')
<1>4. p = Len(Flat(a)) + cursor_col /\ q = Len(Flat(a)) + k
  BY <1>3 DEF PlaceOf
<1>5. Len(Flat(a)) \in Nat
  BY FlatRows
<1>6. Grown(Flat(a \o <<m>> \o d), Flat(a \o <<Line>> \o d), Len(Flat(a)) + Len(x))
  <2> HIDE DEF x, y, c, m
  <2> QED BY <1>1, <1>2, RowGrows
<1>7. Grown(Flat(lines'), Flat(lines), q)
  BY <1>2, <1>3, <1>4, <1>6
<1> HIDE DEF p, q
<1>8. q \in {p - 1, p}
  BY <1>4, <1>5, SMTT(60)
<1> QED BY <1>7, <1>8 DEF OneSymbolStep, OneSymbol, p, q

\* A line divided in two.
LEMMA BrokenOne ==
  ASSUME IInv, insert_newline
  PROVE  OneSymbolStep
<1> DEFINE x == Take(Line, cursor_col)
           y == Drop(Line, cursor_col)
           r == cursor_row
           a == Take(lines, r)
           d == Drop(lines, r + 1)
<1>1. /\ lines' = a \o <<x, y>> \o d
      /\ cursor_row' = r + 1 /\ cursor_col' = 0
  BY DEF insert_newline, Edit, Place, Splice
<1>2. Line \in LineSet /\ cursor_col \in 0..Len(Line) /\ Line \in Seq(Chars)
  BY LineFacts DEF LineSet
<1>3. x \in LineSet /\ y \in LineSet /\ Line = x \o y /\ Len(x) = cursor_col
  BY <1>2, LineEdits, Parts, TakeFacts
<1>4. /\ lines \in Seq(LineSet) /\ r \in Nat /\ r < Len(lines)
      /\ r \in 0..Len(lines) /\ r + 1 \in 0..Len(lines)
  BY LineFacts, SMTT(60) DEF IInv
<1>5. a \in Seq(LineSet) /\ Len(a) = r /\ d \in Seq(LineSet)
  BY <1>4, TakeFacts, DropFacts
<1>6. lines = a \o <<Line>> \o d
  BY <1>4, AroundOne DEF Line
<1> DEFINE p == PlaceOf(lines, cursor_row, cursor_col)
           q == PlaceOf(lines', cursor_row', cursor_col')
<1>7. p = Len(Flat(a)) + cursor_col
  BY DEF PlaceOf
<1>8. Flat(Take(lines', r + 1)) = Flat(a) \o (x \o <<NL>>)
  <2> HIDE DEF a, d, x, y
  <2>1. Flat(Take(a \o <<x, y>> \o d, Len(a) + 1)) = Flat(a) \o (x \o <<NL>>)
    BY <1>3, <1>5, FlatAroundTwo
  <2> QED BY <1>1, <1>5, <2>1
<1>9. Flat(a) \in Seq(Symbols) /\ Len(Flat(a)) \in Nat
  BY <1>5, FlatRows
<1>10. Len(Flat(a) \o (x \o <<NL>>)) = Len(Flat(a)) + (Len(x) + 1)
  <2> HIDE DEF a, x
  <2> QED BY <1>3, <1>9, RowLength
<1>11. q = Len(Flat(a)) + (cursor_col + 1) + 0
  BY <1>1, <1>3, <1>8, <1>10 DEF PlaceOf
<1>12. Grown(Flat(a \o <<Line>> \o d), Flat(a \o <<x, y>> \o d), Len(Flat(a)) + Len(x))
  <2> HIDE DEF x, y, a, d
  <2> QED BY <1>2, <1>3, <1>5, RowDivides
<1>13. Grown(Flat(lines), Flat(lines'), p)
  BY <1>1, <1>3, <1>6, <1>7, <1>12
<1> HIDE DEF p, q, a
<1>14. q = p + 1
  <2>1. cursor_col \in Nat
    BY DEF IInv
  <2> QED BY <2>1, <1>7, <1>9, <1>11, SMTT(60)
<1> QED BY <1>13, <1>14 DEF OneSymbolStep, OneSymbol, p, q

\* Two lines that fit into one joined, the cursor left where the first ended.
LEMMA JoinedOne ==
  ASSUME IInv, NEW r \in Nat, r + 1 < Len(lines), ~Overlong(r),
         lines' = Join(r), cursor_row' = r, cursor_col' = Len(lines[r + 1]),
         \/ cursor_row = r /\ cursor_col = Len(lines[r + 1])
         \/ cursor_row = r + 1 /\ cursor_col = 0
  PROVE  OneSymbolStep
<1> DEFINE x == lines[r + 1]
           y == lines[r + 2]
           l == x \o y
           a == Take(lines, r)
           d == Drop(lines, r + 2)
<1>1. /\ lines \in Seq(LineSet) /\ Len(lines) \in Nat /\ r + 1 \in 1..Len(lines)
      /\ r + 2 \in 1..Len(lines) /\ r \in 0..Len(lines) /\ r + 2 \in 0..Len(lines)
  BY SMTT(60) DEF IInv
<1>2. x \in LineSet /\ y \in LineSet
  BY <1>1, ElementOfSeq
<1>3. /\ x \in Seq(Chars) /\ y \in Seq(Chars) /\ Len(x) \in Nat /\ Len(y) \in Nat
  BY <1>2, LenProperties DEF LineSet
<1>4. Len(x) + Len(y) =< MAX_LINE_LEN
  <2>1. ~(Len(x) + Len(y) > MAX_LINE_LEN)
    BY DEF Overlong
  <2> HIDE DEF x, y
  <2> QED BY <1>3, <2>1, Limits, SMTT(60)
<1>5. Min2(Len(y), MAX_LINE_LEN - Len(x)) = Len(y)
  <2> HIDE DEF x, y
  <2> QED BY <1>3, <1>4, Limits, SMTT(60) DEF Min2
<1>6. Take(y, Len(y)) = y
  BY <1>3, SubSeqFull DEF Take
<1>7. lines' = a \o <<l>> \o d
  BY <1>5, <1>6 DEF Join
<1>8. l \in LineSet
  <2> HIDE DEF x, y
  <2>1. l \in Seq(Chars) /\ Len(l) = Len(x) + Len(y)
    BY <1>3, ConcatProperties
  <2> QED BY <1>4, <2>1 DEF LineSet
<1>9. a \in Seq(LineSet) /\ Len(a) = r /\ d \in Seq(LineSet)
  BY <1>1, TakeFacts, DropFacts
<1>10. lines = a \o <<x, y>> \o d
  BY <1>1, AroundTwo
<1>11. Take(lines', r) = a
  <2> DEFINE o == <<l>>
  <2>1. o \in Seq(LineSet)
    BY <1>8, SMTT(60)
  <2> HIDE DEF a, d, o
  <2>2. Take(a \o o \o d, Len(a)) = a
    BY <1>9, <2>1, Beginnings
  <2> QED BY <1>7, <1>9, <2>2 DEF o
<1> DEFINE p == PlaceOf(lines, cursor_row, cursor_col)
           q == PlaceOf(lines', cursor_row', cursor_col')
<1>12. q = Len(Flat(a)) + Len(x)
  BY <1>11 DEF PlaceOf
<1>13. Flat(a) \in Seq(Symbols) /\ Len(Flat(a)) \in Nat
  BY <1>9, FlatRows
<1>14. Flat(Take(lines, r + 1)) = Flat(a) \o (x \o <<NL>>)
  <2>1. Flat(Take(a \o <<x, y>> \o d, Len(a) + 1)) = Flat(a) \o (x \o <<NL>>)
    <3> HIDE DEF a, d, x, y
    <3> QED BY <1>2, <1>9, FlatAroundTwo
  <2> HIDE DEF a, d, x, y
  <2> QED BY <1>9, <1>10, <2>1
<1>15. Len(Flat(a) \o (x \o <<NL>>)) = Len(Flat(a)) + (Len(x) + 1)
  <2> HIDE DEF a, x
  <2> QED BY <1>2, <1>13, RowLength
<1>16. p = Len(Flat(a)) + Len(x) \/ p = Len(Flat(a)) + (Len(x) + 1) + 0
  BY <1>14, <1>15 DEF PlaceOf
<1>17. Grown(Flat(a \o <<l>> \o d), Flat(a \o <<x, y>> \o d), Len(Flat(a)) + Len(x))
  <2> HIDE DEF a, d, x, y
  <2> QED BY <1>2, <1>8, <1>9, RowDivides
<1>18. Grown(Flat(lines'), Flat(lines), q)
  <2> HIDE DEF a, d, x, y, q
  <2> QED BY <1>7, <1>10, <1>12, <1>17
<1> HIDE DEF p, q, a, x
<1>19. q \in {p - 1, p}
  BY <1>3, <1>12, <1>13, <1>16, SMTT(60)
<1> QED BY <1>18, <1>19 DEF OneSymbolStep, OneSymbol, p, q

\* A key that changes the text takes one symbol in or out.
LEMMA KeyChanges ==
  ASSUME IInv, EdNext, mode = "editing", lines' # lines, ~JoinsOverlong
  PROVE  OneSymbolStep
<1>1. ASSUME NEW c \in Chars, insert_char(c) PROVE OneSymbolStep
  BY <1>1, TypedOne
<1>2. CASE insert_newline
  BY <1>2, BrokenOne
<1>3. ASSUME NEW r \in Nat, r + 1 < Len(lines), lines' = Join(r), cursor_row' = r
      PROVE  ~Overlong(r)
  <2>1. /\ Len(lines) \in Nat /\ lines \in Seq(LineSet)
        /\ r \in 0..Len(lines) /\ r + 2 \in 0..Len(lines)
    BY <1>3, SMTT(60) DEF IInv
  <2> DEFINE a == Take(lines, r)
             d == Drop(lines, r + 2)
             l == Joined(r)
             o == <<l>>
  <2>2. /\ Len(a) = r /\ Len(d) = Len(lines) - (r + 2)
        /\ a \in Seq(LineSet) /\ d \in Seq(LineSet)
    BY <2>1, TakeFacts, DropFacts
  <2>3. lines' = a \o o \o d
    BY <1>3 DEF Join, Joined
  <2>4. l \in LineSet
    BY <1>3, JoinedLine
  <2> HIDE DEF l
  <2>5. o \in Seq(LineSet) /\ Len(o) = 1
    BY <2>4, SMTT(60)
  <2> HIDE DEF a, d, o
  <2>6. Len(lines') = Len(a) + Len(o) + Len(d)
    <3>1. Len(a \o o) = Len(a) + Len(o) /\ a \o o \in Seq(LineSet)
      BY <2>2, <2>5, ConcatProperties
    <3>2. Len((a \o o) \o d) = Len(a \o o) + Len(d)
      BY <2>2, <3>1, ConcatProperties
    <3> QED BY <2>3, <3>1, <3>2
  <2>7. Len(lines') < Len(lines)
    BY <2>1, <2>2, <2>5, <2>6, SMTT(60)
  <2> QED BY <1>3, <2>7 DEF JoinsOverlong
<1>4. CASE backspace_char
  <2>1. CASE cursor_col > 0
    <3> DEFINE k == cursor_col - 1
    <3>1. k \in Nat /\ k < Len(Line) /\ k + 1 = cursor_col /\ ~(cursor_col = 0)
      BY <2>1, LineFacts, SMTT(60)
    <3>2. /\ lines' = Put(cursor_row, SymbolsWithout(Line, k))
          /\ cursor_row' = cursor_row /\ cursor_col' = k
      BY <1>4, <3>1 DEF backspace_char, Edit, Place
    <3>3. cursor_col \in {k, k + 1}
      BY <3>1
    <3> HIDE DEF k
    <3> QED BY <3>1, <3>2, <3>3, TakenOne
  <2>2. CASE ~(cursor_col > 0)
    <3> DEFINE r == cursor_row - 1
    <3>1. /\ cursor_col = 0 /\ cursor_row > 0 /\ lines' = Join(r)
          /\ cursor_row' = r /\ cursor_col' = Len(lines[cursor_row])
      BY <1>4, <2>2 DEF backspace_char, Edit, Place
    <3>2. r \in Nat /\ r + 1 < Len(lines) /\ r + 1 = cursor_row
      BY <3>1, LineFacts, SMTT(60)
    <3>3. ~Overlong(r) /\ cursor_col' = Len(lines[r + 1])
      BY <1>3, <3>1, <3>2
    <3> HIDE DEF r
    <3> QED BY <3>1, <3>2, <3>3, JoinedOne
  <2> QED BY <2>1, <2>2
<1>5. CASE delete_char
  <2>1. CASE cursor_col < Len(Line)
    <3>1. cursor_col \in Nat /\ ~(cursor_col >= Len(Line))
      BY <2>1, LineFacts, SMTT(60)
    <3>2. /\ lines' = Put(cursor_row, SymbolsWithout(Line, cursor_col))
          /\ cursor_row' = cursor_row /\ cursor_col' = cursor_col
      BY <1>5, <3>1 DEF delete_char, Edit, Place
    <3>3. cursor_col \in {cursor_col, cursor_col + 1}
      OBVIOUS
    <3> QED BY <2>1, <3>1, <3>2, <3>3, TakenOne
  <2>2. CASE ~(cursor_col < Len(Line))
    <3>1. /\ cursor_row < Len(lines) - 1 /\ lines' = Join(cursor_row)
          /\ cursor_row' = cursor_row /\ cursor_col' = Len(Line)
      BY <1>5, <2>2 DEF delete_char, Edit, Place
    <3>2. /\ cursor_row \in Nat /\ cursor_row + 1 < Len(lines)
          /\ cursor_col = Len(Line)
      BY <2>2, <3>1, LineFacts, SMTT(60)
    <3>3. ~Overlong(cursor_row)
      BY <1>3, <3>1, <3>2
    <3>4. cursor_col = Len(lines[cursor_row + 1]) /\ cursor_col' = Len(lines[cursor_row + 1])
      BY <3>1, <3>2 DEF Line
    <3> QED BY <3>1, <3>2, <3>3, <3>4, JoinedOne
  <2> QED BY <2>1, <2>2
<1>6. CASE Open \/ LoadByte \/ LoadEnd \/ SaveRow \/ SaveEnd
  BY <1>6 DEF Open, LoadByte, LoadEnd, SaveRow, SaveEnd
<1>7. CASE Quit \/ SaveBegin
  BY <1>7 DEF Quit, SaveBegin
<1>8. ASSUME NEW e \in {<<-1, 0>>, <<1, 0>>, <<0, -1>>, <<0, 1>>},
             move_cursor(e[1], e[2])
      PROVE  FALSE
  BY <1>8 DEF move_cursor
<1> QED BY <1>1, <1>2, <1>4, <1>5, <1>6, <1>7, <1>8 DEF EdNext

\* Whatever the text and wherever the cursor, a key that changes the text
\* changes one symbol of it, at the cursor; only joining two lines that do not
\* fit into one does more.
THEOREM KeysEditOneSymbol == EdSpec => EditsOneSymbol
<1> DEFINE Act == mode = "editing" /\ lines' # lines /\ ~JoinsOverlong =>
       LET t == Flat(lines)
           u == Flat(lines')
           p == Len(Flat(Take(lines, cursor_row))) + cursor_col
           q == Len(Flat(Take(lines', cursor_row'))) + cursor_col'
       IN \/ /\ q = p + 1
             /\ Take(u, p) = Take(t, p) /\ Drop(u, p + 1) = Drop(t, p)
          \/ /\ q \in {p - 1, p}
             /\ Take(u, q) = Take(t, q) /\ Drop(u, q) = Drop(t, q + 1)
<1>1. IInv /\ [EdNext]_edvars => [Act]_edvars
  <2> SUFFICES ASSUME IInv, EdNext, mode = "editing", lines' # lines, ~JoinsOverlong
               PROVE  Act
    OBVIOUS
  <2>1. OneSymbolStep
    BY KeyChanges
  <2> QED BY <2>1 DEF OneSymbolStep, OneSymbol, PlaceOf, Grown
<1> QED BY <1>1, Invariant, PTL DEF EdSpec, EditsOneSymbol

-----------------------------------------------------------------------------
(* load_file reads back what save_file wrote.                               *)

\* The byte k of the text of b is the symbol at column c of row r, or ends it.
ByteIs(b, r, c, k) ==
  /\ k \in Nat /\ k < Len(Flat(b))
  /\ c < Len(b[r + 1]) => Flat(b)[k + 1] = b[r + 1][c + 1]
  /\ c = Len(b[r + 1]) => /\ Flat(b)[k + 1] = NL
                          /\ k + 1 = PlaceOf(b, r + 1, 0)

\* The symbol at a place of the text, and where the next row begins.
LEMMA FileAt ==
  ASSUME NEW b \in Seq(LineSet), NEW r \in Nat, r < Len(b),
         NEW c \in Nat, c =< Len(b[r + 1]), NEW k, k = PlaceOf(b, r, c)
  PROVE  ByteIs(b, r, c, k)
<1> DEFINE a == Take(b, r)
           l == b[r + 1]
           d == Drop(b, r + 1)
           n == <<NL>>
           fa == Flat(a)
           fd == Flat(d)
           w == n \o fd
           v == l \o w
           f == Flat(b)
<1>1. /\ Len(b) \in Nat /\ r \in 0..Len(b) /\ r + 1 \in 0..Len(b)
      /\ r + 1 \in 1..Len(b) /\ r + 1 - 1 = r
  BY LenProperties, SMTT(60)
<1>2. a \in Seq(LineSet) /\ d \in Seq(LineSet) /\ l \in LineSet
  BY <1>1, TakeFacts, DropFacts, ElementOfSeq
<1>3. b = a \o <<l>> \o d
  BY AroundOne
<1>4. f = fa \o v
  <2>1. Flat(a \o <<l>> \o d) = fa \o v
    <3> HIDE DEF a, l, d
    <3> QED BY <1>2, FlatAroundOne
  <2> HIDE DEF a, l, d, v
  <2> QED BY <1>3, <2>1
<1>5. fa \in Seq(Symbols) /\ fd \in Seq(Symbols) /\ f \in Seq(Symbols)
  BY <1>2, FlatRows
<1>6. l \in Seq(Symbols) /\ n \in Seq(Symbols)
  BY <1>2, <1>5, RowSymbols
<1>7. Len(n) = 1 /\ n[1] = NL
  BY SMTT(60)
<1>8. Flat(Take(b, r + 1)) = fa \o (l \o n)
  <2>1. PICK j \in 1..Len(b) : j = r + 1 /\ j - 1 = r
    BY <1>1, SMTT(60)
  <2>2. Flat(Take(b, j)) = Flat(Take(b, j - 1)) \o (b[j] \o <<NL>>)
    BY FlatRows
  <2> QED BY <2>1, <2>2
<1>9. Len(fa \o (l \o n)) = Len(fa) + (Len(l) + 1)
  <2> HIDE DEF fa, l
  <2> QED BY <1>2, <1>5, RowLength
<1>10. PlaceOf(b, r + 1, 0) = Len(fa) + (Len(l) + 1) + 0
  BY <1>8, <1>9 DEF PlaceOf
<1>11. k = Len(fa) + c
  BY DEF PlaceOf
<1> HIDE DEF a, l, d, n, fa, fd, f
<1>12. Len(fa) \in Nat /\ Len(l) \in Nat /\ Len(fd) \in Nat
  BY <1>5, <1>6, LenProperties
<1>13. /\ w \in Seq(Symbols) /\ Len(w) = Len(n) + Len(fd)
       /\ \A i \in 1..Len(n) + Len(fd) : w[i] = IF i <= Len(n) THEN n[i] ELSE fd[i - Len(n)]
  BY <1>5, <1>6, ConcatProperties
<1> HIDE DEF w
<1>14. /\ v \in Seq(Symbols) /\ Len(v) = Len(l) + Len(w)
       /\ \A i \in 1..Len(l) + Len(w) : v[i] = IF i <= Len(l) THEN l[i] ELSE w[i - Len(l)]
  <2>1. w \in Seq(Symbols)
    BY <1>13
  <2> QED BY <1>6, <2>1, ConcatProperties
<1> HIDE DEF v
<1>15. /\ Len(f) = Len(fa) + Len(v)
       /\ \A i \in 1..Len(fa) + Len(v) : f[i] = IF i <= Len(fa) THEN fa[i] ELSE v[i - Len(fa)]
  <2>1. v \in Seq(Symbols) /\ fa \in Seq(Symbols)
    BY <1>5, <1>14
  <2>2. /\ Len(fa \o v) = Len(fa) + Len(v)
        /\ \A i \in 1..Len(fa) + Len(v) :
             (fa \o v)[i] = IF i <= Len(fa) THEN fa[i] ELSE v[i - Len(fa)]
    BY <2>1, ConcatProperties
  <2> QED BY <1>4, <2>2
<1>16. w[1] = NL /\ Len(w) \in Nat /\ Len(w) >= 1
  BY <1>7, <1>12, <1>13, SMTT(60)
<1>17. c =< Len(l)
  BY DEF l
<1>18. k \in Nat /\ k < Len(f) /\ f[k + 1] = v[c + 1]
  <2>1. Len(f) = Len(fa) + Len(v) /\ Len(v) = Len(l) + Len(w)
    BY <1>14, <1>15
  <2>2. /\ k \in Nat /\ k < Len(f) /\ k + 1 \in 1..Len(fa) + Len(v)
        /\ ~(k + 1 <= Len(fa)) /\ k + 1 - Len(fa) = c + 1
    BY <1>11, <1>12, <1>16, <1>17, <2>1, SMTT(60)
  <2> QED BY <1>15, <2>2, SMTT(60)
<1>19. c < Len(l) => v[c + 1] = l[c + 1]
  <2>1. c < Len(l) => c + 1 \in 1..Len(l) + Len(w) /\ c + 1 <= Len(l)
    BY <1>12, <1>16, SMTT(60)
  <2> QED BY <1>14, <2>1
<1>20. c = Len(l) => v[c + 1] = NL
  <2>1. c = Len(l) => c + 1 \in 1..Len(l) + Len(w) /\ ~(c + 1 <= Len(l)) /\ c + 1 - Len(l) = 1
    BY <1>12, <1>16, SMTT(60)
  <2> QED BY <1>14, <1>16, <2>1, SMTT(60)
<1>21. c = Len(l) => k + 1 = PlaceOf(b, r + 1, 0)
  BY <1>10, <1>11, <1>12, SMTT(60)
<1> QED BY <1>18, <1>19, <1>20, <1>21 DEF l, f, ByteIs

\* The last row replaced.
LEMMA LastReplaced ==
  ASSUME NEW S, NEW a \in Seq(S), NEW y \in S, NEW x \in S
  PROVE  /\ Len(Append(a, y)) = Len(a) + 1 /\ Append(a, y)[Len(a) + 1] = y
         /\ [Append(a, y) EXCEPT ![Len(a) + 1] = x] = Append(a, x)
<1> DEFINE s == Append(a, y)
           t == Append(a, x)
           n == Len(a) + 1
           e == [s EXCEPT ![n] = x]
<1>1. /\ s \in Seq(S) /\ Len(s) = n /\ s[n] = y /\ \A i \in 1..Len(a) : s[i] = a[i]
  BY AppendProperties, SMTT(60)
<1>2. /\ t \in Seq(S) /\ Len(t) = n /\ t[n] = x /\ \A i \in 1..Len(a) : t[i] = a[i]
  BY AppendProperties, SMTT(60)
<1>3. Len(a) \in Nat /\ n \in 1..n /\ \A i \in 1..n : i = n \/ i \in 1..Len(a)
  BY LenProperties, SMTT(60)
<1> HIDE DEF s, t, n
<1>4. /\ e \in Seq(S) /\ Len(e) = n
      /\ \A j \in 1..n : e[j] = IF j = n THEN x ELSE s[j]
  BY <1>1, <1>3, ExceptSeq, SMTT(60)
<1> HIDE DEF e
<1>5. \A i \in 1..n : e[i] = t[i]
  BY <1>1, <1>2, <1>3, <1>4
<1>6. e = t
  BY <1>2, <1>4, <1>5, SeqEqual
<1> QED BY <1>1, <1>6 DEF s, t, n, e

\* k bytes of the text of b are read: row r up to column c.
Partly(b, r, c, k, ls) ==
  /\ r < Len(b) /\ c =< Len(b[r + 1]) /\ k = PlaceOf(b, r, c)
  /\ ls = Append(Take(b, r), Take(b[r + 1], c))

\* What the whole text of b is read as.
Reopened(b) == IF Len(b) < MAX_LINES THEN Append(b, <<>>) ELSE b

Reloaded(b, k, ls) ==
  \/ \E r, c \in Nat : Partly(b, r, c, k, ls)
  \/ k = Len(Flat(b)) /\ ls = Reopened(b)

\* The lines loaded or saved last are lines, and reading their text leads back
\* to them.
LoadInv ==
  /\ base \in Seq(LineSet) /\ Len(base) \in 1..MAX_LINES
  /\ mode = "loading" /\ file = Flat(base) => Reloaded(base, at, lines)

\* A byte of the text.
LEMMA ReloadByte ==
  ASSUME IInv, LoadInv, LoadByte, file = Flat(base)
  PROVE  Reloaded(base, at', lines')
<1>1. /\ mode = "loading" /\ at < Len(file) /\ at' = at + 1
      /\ lines' = CASE file[at + 1] = CR -> lines
                    [] file[at + 1] = NL -> IF Len(lines) < MAX_LINES
                                            THEN Append(lines, <<>>) ELSE lines
                    [] OTHER -> Add(file[at + 1])
  BY DEF LoadByte
<1>2. base \in Seq(LineSet) /\ Len(base) \in Nat /\ Len(base) =< MAX_LINES
  BY SMTT(60) DEF LoadInv
<1>3. Reloaded(base, at, lines) /\ at # Len(Flat(base))
  <2>1. at # Len(file)
    BY <1>1, LenProperties, SMTT(60) DEF IInv
  <2> QED BY <1>1, <2>1 DEF LoadInv
<1>4. PICK r, c \in Nat : Partly(base, r, c, at, lines)
  BY <1>3 DEF Reloaded
<1> DEFINE a == Take(base, r)
           l == base[r + 1]
           y == Take(l, c)
           ch == file[at + 1]
<1>5. /\ r < Len(base) /\ c =< Len(l) /\ at = PlaceOf(base, r, c)
      /\ lines = Append(a, y)
  BY <1>4 DEF Partly
<1>6. r \in 0..Len(base) /\ r + 1 \in 1..Len(base) /\ r + 1 \in 0..Len(base)
  BY <1>2, <1>5, SMTT(60)
<1>7. a \in Seq(LineSet) /\ Len(a) = r /\ l \in LineSet
  BY <1>2, <1>6, TakeFacts, ElementOfSeq
<1>8. l \in Seq(Chars) /\ Len(l) \in Nat /\ Len(l) =< MAX_LINE_LEN /\ c \in 0..Len(l)
  <2>1. l \in Seq(Chars) /\ Len(l) \in Nat /\ Len(l) =< MAX_LINE_LEN
    BY <1>7, LenProperties DEF LineSet
  <2> HIDE DEF l
  <2> QED BY <1>5, <2>1, SMTT(60)
<1>9. y \in LineSet /\ Len(y) = c
  BY <1>7, <1>8, LineEdits, TakeFacts
<1>10. Len(lines) = r + 1 /\ lines[r + 1] = y
  <2> HIDE DEF a, y
  <2>1. a \in Seq(LineSet) /\ y \in LineSet
    BY <1>7, <1>9
  <2>2. Len(Append(a, y)) = Len(a) + 1 /\ Append(a, y)[Len(a) + 1] = y
    BY <2>1, AppendProperties, SMTT(60)
  <2> QED BY <1>5, <1>7, <2>2
<1>11. ByteIs(base, r, c, at)
  BY <1>2, <1>5, FileAt
<1>12. CASE c < Len(l)
  <2>1. ch = l[c + 1]
    BY <1>12, <1>11 DEF ByteIs
  <2>2. /\ c + 1 \in 1..Len(l) /\ c + 1 \in 0..Len(l) /\ c < MAX_LINE_LEN
        /\ c + 1 =< Len(l) /\ c + 1 \in Nat
    BY <1>8, <1>12, Limits, SMTT(60)
  <2>3. ch \in Chars
    BY <1>8, <2>1, <2>2, ElementOfSeq
  <2>4. ch # CR /\ ch # NL
    BY <2>3, EditorAssumption
  <2> DEFINE z == Append(y, ch)
  <2>5. lines' = [lines EXCEPT ![r + 1] = z]
    <3>1. lines' = Add(ch)
      BY <1>1, <2>4
    <3> QED BY <1>9, <1>10, <2>2, <3>1 DEF Add
  <2>6. z = Take(l, c + 1)
    <3>1. Take(l, c + 1) = y \o <<l[c + 1]>>
      BY <1>8, <1>12, AroundOne
    <3>2. y \in Seq(Chars)
      BY <1>9 DEF LineSet
    <3> HIDE DEF y
    <3>3. Append(y, ch) = y \o <<ch>>
      BY <2>3, <3>2, AppendIsConcat
    <3> QED BY <2>1, <3>1, <3>3
  <2>7. z \in LineSet
    BY <1>7, <2>2, <2>6, LineEdits
  <2> HIDE DEF z
  <2>8. lines' = Append(a, z)
    <3> HIDE DEF a, y
    <3>1. [Append(a, y) EXCEPT ![Len(a) + 1] = z] = Append(a, z)
      BY <1>7, <1>9, <2>7, LastReplaced, SMTT(60)
    <3> QED BY <1>5, <1>7, <2>5, <3>1
  <2>9. at' = PlaceOf(base, r, c + 1)
    <3>1. at = Len(Flat(a)) + c /\ PlaceOf(base, r, c + 1) = Len(Flat(a)) + (c + 1)
      BY <1>5 DEF PlaceOf
    <3>2. Len(Flat(a)) \in Nat
      BY <1>7, FlatRows
    <3> HIDE DEF a
    <3> QED BY <1>1, <3>1, <3>2, SMTT(60)
  <2>10. Partly(base, r, c + 1, at', lines')
    BY <1>5, <2>2, <2>6, <2>8, <2>9 DEF Partly
  <2> QED BY <2>2, <2>10 DEF Reloaded
<1>13. CASE ~(c < Len(l))
  <2>1. c = Len(l)
    <3> HIDE DEF l
    <3> QED BY <1>8, <1>13, SMTT(60)
  <2>2. ch = NL /\ at + 1 = PlaceOf(base, r + 1, 0)
    BY <1>11, <2>1 DEF ByteIs
  <2>3. lines' = IF Len(lines) < MAX_LINES THEN Append(lines, <<>>) ELSE lines
    BY <1>1, <2>2, EditorAssumption
  <2>4. lines = Take(base, r + 1)
    <3>1. y = l
      BY <1>8, <2>1, SubSeqFull DEF Take
    <3>2. Append(a, l) = a \o <<l>>
      <4> HIDE DEF a, l
      <4> QED BY <1>7, AppendIsConcat
    <3>3. Take(base, r + 1) = a \o <<l>>
      BY <1>2, <1>5, AroundOne
    <3> QED BY <1>5, <3>1, <3>2, <3>3
  <2>5. CASE r + 1 < Len(base)
    <3>1. /\ Len(lines) < MAX_LINES /\ r + 1 \in Nat /\ r + 1 + 1 \in 1..Len(base)
          /\ 0 \in Nat
      BY <1>2, <1>10, <2>5, Limits, SMTT(60)
    <3>2. lines' = Append(Take(base, r + 1), <<>>)
      BY <2>3, <2>4, <3>1
    <3> DEFINE m == base[r + 1 + 1]
    <3>3. m \in LineSet
      BY <1>2, <3>1, ElementOfSeq
    <3>4. Take(m, 0) = <<>>
      BY SubSeqEmpty, SMTT(60) DEF Take
    <3>5. 0 =< Len(m)
      <4>1. Len(m) \in Nat
        BY <3>3, LenProperties DEF LineSet
      <4> HIDE DEF m
      <4> QED BY <4>1, SMTT(60)
    <3>6. Partly(base, r + 1, 0, at', lines')
      BY <1>1, <2>2, <2>5, <3>2, <3>4, <3>5 DEF Partly
    <3> QED BY <3>1, <3>6 DEF Reloaded
  <2>6. CASE ~(r + 1 < Len(base))
    <3>1. r + 1 = Len(base)
      BY <1>2, <1>5, <2>6, SMTT(60)
    <3>2. Take(base, r + 1) = base
      BY <1>2, <3>1, SubSeqFull DEF Take
    <3>3. lines' = Reopened(base)
      BY <2>3, <2>4, <3>2 DEF Reopened
    <3>4. at' = Len(Flat(base))
      <4>1. at' = Len(Flat(base)) + 0
        BY <1>1, <2>2, <3>2 DEF PlaceOf
      <4>2. Len(Flat(base)) \in Nat
        BY <1>2, FlatRows
      <4> QED BY <4>1, <4>2, SMTT(60)
    <3> QED BY <3>3, <3>4 DEF Reloaded
  <2> QED BY <2>5, <2>6
<1> QED BY <1>12, <1>13

\* Nothing is read yet.
LEMMA ReloadBegins ==
  ASSUME NEW b \in Seq(LineSet), Len(b) \in 1..MAX_LINES
  PROVE  Reloaded(b, 0, << <<>> >>)
<1>1. 0 \in Nat /\ 0 < Len(b) /\ 0 + 1 = 1 /\ 1 \in 1..Len(b)
  BY Limits, SMTT(60)
<1>2. b[1] \in LineSet
  BY <1>1, ElementOfSeq
<1>3. 0 =< Len(b[1])
  <2>1. Len(b[1]) \in Nat
    BY <1>2, LenProperties DEF LineSet
  <2> QED BY <2>1, SMTT(60)
<1>4. Take(b[1], 0) = <<>> /\ Take(b, 0) = <<>>
  BY SubSeqEmpty, SMTT(60) DEF Take
<1>5. Append(<<>>, <<>>) = << <<>> >>
  BY SMTT(60)
<1>6. 0 = PlaceOf(b, 0, 0)
  <2>1. Flat(Take(b, 0)) = <<>>
    BY FlatRows
  <2>2. Len(<<>>) + 0 = 0
    BY SMTT(60)
  <2> QED BY <2>1, <2>2 DEF PlaceOf
<1>7. Partly(b, 0, 0, 0, << <<>> >>)
  BY <1>1, <1>3, <1>4, <1>5, <1>6 DEF Partly
<1> QED BY <1>1, <1>7 DEF Reloaded

\* Every step keeps the invariant.
LEMMA LoadInvariant == EdSpec => []LoadInv
<1>1. EdInit /\ IInv => LoadInv
  BY DEF EdInit, IInv, LoadInv
<1>2. IInv /\ LoadInv /\ [EdNext]_edvars => LoadInv'
  <2> SUFFICES ASSUME IInv, LoadInv, [EdNext]_edvars PROVE LoadInv'
    OBVIOUS
  <2>1. CASE Open
    <3>1. /\ lines' = << <<>> >> /\ at' = 0 /\ base' = base
      BY <2>1 DEF Open
    <3>2. Reloaded(base, 0, << <<>> >>)
      BY ReloadBegins DEF LoadInv
    <3> QED BY <3>1, <3>2 DEF LoadInv
  <2>2. CASE LoadByte
    <3>1. file' = file /\ base' = base
      BY <2>2 DEF LoadByte
    <3>2. file = Flat(base) => Reloaded(base, at', lines')
      BY <2>2, ReloadByte
    <3> QED BY <3>1, <3>2 DEF LoadInv
  <2>3. CASE LoadEnd
    BY <2>3 DEF LoadEnd, LoadInv, IInv
  <2>4. ASSUME mode' # "loading", base' = base PROVE LoadInv'
    BY <2>4 DEF LoadInv
  <2>5. ASSUME NEW c \in Chars, insert_char(c) PROVE LoadInv'
    BY <2>4, <2>5 DEF insert_char, Edit
  <2>6. CASE insert_newline
    BY <2>4, <2>6 DEF insert_newline, Edit
  <2>7. CASE backspace_char
    BY <2>4, <2>7 DEF backspace_char, Edit
  <2>8. CASE delete_char
    BY <2>4, <2>8 DEF delete_char, Edit
  <2>9. ASSUME NEW e \in {<<-1, 0>>, <<1, 0>>, <<0, -1>>, <<0, 1>>},
               move_cursor(e[1], e[2])
        PROVE  LoadInv'
    BY <2>4, <2>9 DEF move_cursor
  <2>10. CASE Quit \/ SaveBegin \/ SaveRow
    BY <2>4, <2>10 DEF Quit, SaveBegin, SaveRow
  <2>11. CASE SaveEnd
    <3>1. mode' = "editing" /\ lines' = lines /\ (base' = lines \/ base' = base)
      BY <2>11 DEF SaveEnd
    <3> QED BY <3>1 DEF LoadInv, IInv
  <2>12. CASE UNCHANGED edvars
    BY <2>12 DEF edvars, LoadInv
  <2> QED BY <2>1, <2>2, <2>3, <2>5, <2>6, <2>7, <2>8, <2>9, <2>10, <2>11, <2>12 DEF EdNext
<1> QED BY <1>1, <1>2, Invariant, PTL DEF EdSpec

\* A text that save_file wrote is shown again line by line when it is opened,
\* with an empty line behind it where there is room: no line is lost, split or
\* joined on the way through the file.
THEOREM SavedIsShown == EdSpec => ReopenShowsSaved
<1>1. IInv /\ LoadInv /\ [EdNext]_edvars =>
        [LoadEnd /\ file = Flat(base) =>
           lines = IF Len(base) < MAX_LINES THEN Append(base, <<>>) ELSE base]_edvars
  <2> SUFFICES ASSUME LoadInv, LoadEnd, file = Flat(base)
               PROVE  lines = IF Len(base) < MAX_LINES THEN Append(base, <<>>) ELSE base
    OBVIOUS
  <2>1. mode = "loading" /\ at = Len(Flat(base))
    BY DEF LoadEnd
  <2>2. Reloaded(base, at, lines) /\ base \in Seq(LineSet)
    BY <2>1 DEF LoadInv
  <2>3. ASSUME NEW r \in Nat, NEW c \in Nat, Partly(base, r, c, at, lines)
        PROVE  FALSE
    <3>1. at \in Nat /\ at < Len(Flat(base))
      <4>1. ByteIs(base, r, c, at)
        BY <2>2, <2>3, FileAt DEF Partly
      <4> QED BY <4>1 DEF ByteIs
    <3> QED BY <2>1, <3>1, SMTT(60)
  <2> QED BY <2>2, <2>3 DEF Reloaded, Reopened
<1> QED BY <1>1, Invariant, LoadInvariant, PTL DEF EdSpec, ReopenShowsSaved

=============================================================================
