-------------------------------- MODULE Snake --------------------------------
(***************************************************************************)
(* Snake: its rules, snake_core.c, and the app that turns it by a swipe or *)
(* by button A and puts down its food (snake_app.c).  A cell is <<x, y>>;  *)
(* the food lands in any free cell.                                        *)
(***************************************************************************)
EXTENDS Integers, Sequences, FiniteSets

CONSTANTS
  Grid,      \* SNAKE_GRID
  StartLen,  \* SNAKE_START_LEN
  MaxLen,    \* SNAKE_MAX_LEN
  Queue      \* SNAKE_TURN_QUEUE

Parameters ==
  /\ Grid \in Nat /\ 3 <= Grid /\ Queue \in Nat
  /\ StartLen \in 2..MaxLen /\ StartLen <= Grid \div 2 + 1
  /\ MaxLen \in Nat /\ MaxLen < Grid * Grid

VARIABLES
  body,   \* x and y, the head first
  dir,    \* dx and dy
  queue,  \* queue_dx and queue_dy
  food,   \* food_x and food_y
  wrap,   \* NEV_SET_SNAKE_WRAP when the run began
  state   \* "playing" or "over"

vars == <<body, dir, queue, food, wrap, state>>

Cells == (0..(Grid - 1)) \X (0..(Grid - 1))
Directions == {<<1, 0>>, <<-1, 0>>, <<0, 1>>, <<0, -1>>}
Back(d) == <<-d[1], -d[2]>>
On(b) == {b[i] : i \in DOMAIN b}
Free(b) == Cells \ On(b)

\* snake_core_reset and the first food.
Fresh == [i \in 1..StartLen |-> <<(Grid \div 2) - (i - 1), Grid \div 2>>]
Init ==
  /\ body = Fresh /\ dir = <<1, 0>> /\ queue = <<>>
  /\ food \in Free(Fresh)
  /\ wrap \in BOOLEAN
  /\ state = "playing"

Restart ==
  /\ state = "over"
  /\ body' = Fresh /\ dir' = <<1, 0>> /\ queue' = <<>>
  /\ food' \in Free(Fresh)
  /\ wrap' \in BOOLEAN
  /\ state' = "playing"

\* Mutant: a turn is held against where the snake is going, not where it will be.
TurnFromHeading(d) ==
  /\ state = "playing" /\ Len(queue) < Queue
  /\ d \notin {dir, Back(dir)}
  /\ queue' = Append(queue, d)
  /\ UNCHANGED <<body, dir, food, wrap, state>>

\* snake_core_turn: held against the last turn that will be in effect by then.
Last == IF queue = <<>> THEN dir ELSE queue[Len(queue)]
Turn(d) ==
  /\ state = "playing" /\ Len(queue) < Queue
  /\ d \notin {Last, Back(Last)}
  /\ queue' = Append(queue, d)
  /\ UNCHANGED <<body, dir, food, wrap, state>>

\* The next head, which may be off the grid.
Heading == IF queue = <<>> THEN dir ELSE Head(queue)
Ahead ==
  LET x == body[1][1] + Heading[1]
      y == body[1][2] + Heading[2]
  IN IF wrap THEN <<(x + Grid) % Grid, (y + Grid) % Grid>> ELSE <<x, y>>

Eats == Ahead = food
Grows == Eats /\ Len(body) < MaxLen
InTheWay == IF Grows THEN On(body) ELSE On(SubSeq(body, 1, Len(body) - 1))
Moved == <<Ahead>> \o (IF Grows THEN body ELSE SubSeq(body, 1, Len(body) - 1))

\* snake_core_step: off the grid, or into itself; where the tail was is free unless
\* the snake grows.  Fed, it gets new food, if there is a cell for it.
Dies == Ahead \notin Cells \/ Ahead \in InTheWay
Update ==
  /\ state = "playing"
  /\ dir' = Heading
  /\ queue' = IF queue = <<>> THEN queue ELSE Tail(queue)
  /\ IF Dies THEN state' = "over" /\ UNCHANGED <<body, food>>
     ELSE /\ body' = Moved
          /\ food' \in IF Eats /\ Free(Moved) # {} THEN Free(Moved) ELSE {food}
          /\ UNCHANGED state
  /\ UNCHANGED wrap

\* A swipe turns any way, button A left of the way it goes; both are turns.
Next == (\E d \in Directions : Turn(d)) \/ Update \/ Restart

-----------------------------------------------------------------------------

TypeOK ==
  /\ body \in Seq(Cells) /\ Len(body) \in StartLen..MaxLen
  /\ dir \in Directions /\ queue \in Seq(Directions) /\ Len(queue) <= Queue
  /\ food \in Cells
  /\ wrap \in BOOLEAN /\ state \in {"playing", "over"}

\* The snake never lies over itself, however it turned, grew or went round the edge.
NeverOverItself == Cardinality(On(body)) = Len(body)

\* No two turns, however quick, make a reversal: the snake is not killed by its own
\* neck (snake_core.h: a reversal is refused, not fatal).
NoReversal == state = "playing" => Ahead # body[2]

\* There is something to eat, where it can be reached.
FoodIsFree == state = "playing" => food \in Free(body)

SnakeIsFair == NeverOverItself /\ NoReversal /\ FoodIsFree
=============================================================================
