------------------------------- MODULE Snake -------------------------------
(***************************************************************************)
(* The game of snake.c under gamemode.c.  One step is one round of the     *)
(* loop of snake_run: at most one character is read, and every FrameDelay  *)
(* rounds the snake moves.  The keyboard interrupt only decides which      *)
(* character the next round finds.                                         *)
(*                                                                         *)
(* The codes handle_input compares with are scan codes, but it reads       *)
(* characters: the keys that steer are the letters H, P, K and M, and the  *)
(* one that leaves is KEY_UP (1).                                          *)
(*                                                                         *)
(* my_rand is any value, and what is drawn is left out.  snake[100] is     *)
(* taken to be long enough, as it is up to a score of 97.                  *)
(***************************************************************************)
EXTENDS Integers, Sequences, Functions

CONSTANTS GridW, GridH,   \* cells: 51 x 38 at 1024 x 768
          FrameDelay      \* 8

ASSUME SnakeAssumption ==
  /\ GridW \in Nat /\ GridW >= 4 /\ GridH \in Nat \ {0}
  /\ FrameDelay \in Nat \ {0}

VARIABLES snake, dir, food, score, game_over, frame_delay, game_active,
          key,    \* history: what the last round read
          turns   \* history: changes of direction since the last move

snakevars == <<snake, dir, food, score, game_over, frame_delay, game_active, key, turns>>

Cells == (0..GridW - 1) \X (0..GridH - 1)
Plus(p, q) == <<p[1] + q[1], p[2] + q[2]>>
Steps == {<<0, -1>>, <<0, 1>>, <<-1, 0>>, <<1, 0>>}

NoKey == "none"
GameKeys == {"exit", "H", "P", "K", "M"}

\* A cell the snake s is not on, drawn or found by the search that follows a
\* thousand draws; without one food stays where it is.
generate_food(s) ==
  LET empty == Cells \ Range(s) IN
  IF empty = {} THEN food' = food ELSE food' \in empty

\* Where the snake starts.
SnakeStart == LET c == <<GridW \div 2, GridH \div 2>> IN
         <<c, Plus(c, <<-1, 0>>), Plus(c, <<-2, 0>>)>>

\* Before the first game: the initialisers, but for the snake and the food,
\* which init_game sets before anything reads them.
SnakeInit ==
  /\ snake = SnakeStart /\ food \in Cells \ Range(SnakeStart) /\ dir = <<1, 0>>
  /\ score = 0 /\ game_over = FALSE /\ frame_delay = 0
  /\ game_active = FALSE /\ key = NoKey /\ turns = 0

\* snake: gamemode_enter up to the loop, with init_game.
Enter ==
  /\ ~game_active
  /\ game_active' = TRUE
  /\ snake' = SnakeStart /\ dir' = <<1, 0>>
  /\ score' = 0 /\ game_over' = FALSE /\ frame_delay' = 0
  /\ generate_food(SnakeStart)
  /\ key' = NoKey /\ turns' = 0

-----------------------------------------------------------------------------
(* A round of the game.                                                     *)

\* Mutant of Turned: a key may turn the snake round.
Turned_Any(k) ==
  CASE k = "H" -> <<0, -1>>
    [] k = "P" -> <<0, 1>>
    [] k = "K" -> <<-1, 0>>
    [] k = "M" -> <<1, 0>>
    [] OTHER -> dir

\* handle_input
Turned(k) ==
  CASE k = "H" /\ dir[2] = 0 -> <<0, -1>>
    [] k = "P" /\ dir[2] = 0 -> <<0, 1>>
    [] k = "K" /\ dir[1] = 0 -> <<-1, 0>>
    [] k = "M" /\ dir[1] = 0 -> <<1, 0>>
    [] OTHER -> dir

Wall(p) == p \notin Cells

\* The cells shift by one; the last one is dropped unless the food is eaten.
Advanced(head) == <<head>> \o IF head = food THEN snake
                                ELSE SubSeq(snake, 1, Len(snake) - 1)

\* Mutant of Bites: the head's neighbour at the tail is missed.
Bites_NotTail(s) == \E i \in 2..Len(s) - 1 : s[1] = s[i]

Bites(s) == \E i \in 2..Len(s) : s[1] = s[i]

\* Mutant of move_snake: a wall only stops the snake.
move_snake_Stops(d) ==
  LET head == Plus(snake[1], d) IN
  IF game_over \/ Wall(head)
  THEN UNCHANGED <<snake, food, score, game_over>>
  ELSE /\ snake' = Advanced(head)
       /\ IF head = food THEN score' = score + 1 /\ generate_food(Advanced(head))
          ELSE UNCHANGED <<score, food>>
       /\ game_over' = Bites(Advanced(head))

move_snake(d) ==
  LET head == Plus(snake[1], d) IN
  IF game_over \/ Wall(head)
  THEN game_over' = TRUE /\ UNCHANGED <<snake, food, score>>
  ELSE /\ snake' = Advanced(head)
       /\ IF head = food THEN score' = score + 1 /\ generate_food(Advanced(head))
          ELSE UNCHANGED <<score, food>>
       /\ game_over' = Bites(Advanced(head))

\* The key that leaves takes effect when the round is over.
Round(k) ==
  /\ game_active
  /\ key' = k
  /\ dir' = Turned(k)
  /\ game_active' = (k # "exit")
  /\ frame_delay' = (frame_delay + 1) % FrameDelay
  /\ IF frame_delay + 1 < FrameDelay
     THEN /\ turns' = IF dir' = dir THEN turns ELSE turns + 1
          /\ UNCHANGED <<snake, food, score, game_over>>
     ELSE move_snake(dir') /\ turns' = 0

Play == \E k \in GameKeys \cup {NoKey} : Round(k)

SnakeNext == Enter \/ Play

SnakeSpec == SnakeInit /\ [][SnakeNext]_snakevars /\ WF_snakevars(Play)

-----------------------------------------------------------------------------
(* Properties.                                                              *)

\* The cells of the snake are on the grid and follow each other, and while the
\* game lasts no two of them are the same: shifting the array, growing and
\* turning keep the snake in one piece and off itself.
OnePiece ==
  /\ Range(snake) \subseteq Cells /\ Len(snake) = 3 + score
  /\ \A i \in 1..Len(snake) - 1 : \E d \in Steps : Plus(snake[i + 1], d) = snake[i]
  /\ ~game_over => \A i, j \in 1..Len(snake) : snake[i] = snake[j] => i = j

\* One key never turns the snake round; two of them read between two moves do,
\* and it bites its neck: the test of the direction is against the direction
\* asked for last, not the direction moved in last.
TurnBackTakesTwo ==
  [][snake' # snake /\ game_over' /\ snake'[1] = snake'[3] =>
       turns + (IF dir' = dir THEN 0 ELSE 1) >= 2]_snakevars

\* Left alone the snake reaches a wall: with no more keys the game ends, and
\* cannot go on unattended.
LeftAloneEnds == <>[](key = NoKey /\ game_active) => <>[]game_over

=============================================================================
