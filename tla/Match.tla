-------------------------------- MODULE Match --------------------------------
(***************************************************************************)
(* The tile puzzle: its rules, match_core.c, and the app that takes taps   *)
(* and runs a cascade one pass at a time (match_app.c).  Colours are drawn *)
(* freely.  A tile is drawn again 16 times at most and a board 64 times,   *)
(* and then stays as it is, whatever it is.  Scores and the clock are left *)
(* out: the round may end at any update.                                   *)
(***************************************************************************)
EXTENDS Integers, FiniteSets

CONSTANTS
  Rows,     \* MT_SIZE, as is Cols
  Cols,
  Colours,  \* 0..MT_COLORS - 1
  Run       \* MT_RUN

VARIABLES
  tile,       \* the board
  selected,   \* sel_r and sel_c, or NoCell
  resolving,  \* a cascade runs
  state,      \* "playing" or "over"
  gaveUp      \* history: it was given up drawing the board, or a tile of it

vars == <<tile, selected, resolving, state, gaveUp>>

Cells == (1..Rows) \X (1..Cols)
NoCell == <<0, 0>>
Boards == [Cells -> Colours]

\* A run of tiles, along a row or down a column.
Lines == {{<<r, c + k>> : k \in 0..(Run - 1)} : r \in 1..Rows, c \in 1..(Cols - Run + 1)}
         \union {{<<r + k, c>> : k \in 0..(Run - 1)} : r \in 1..(Rows - Run + 1), c \in 1..Cols}

\* mark_matches, match_core_has_match.
Marked(board) == UNION {l \in Lines : \A p, q \in l : board[p] = board[q]}
HasMatch(board) == Marked(board) # {}

\* match_core_adjacent, swap_cells, match_core_has_move.
Adjacent(p, q) == (p[1] = q[1] /\ p[2] - q[2] \in {1, -1})
                  \/ (p[2] = q[2] /\ p[1] - q[1] \in {1, -1})
Swapped(board, p, q) == [board EXCEPT ![p] = board[q], ![q] = board[p]]
HasMove(board) ==
  \E p, q \in Cells : Adjacent(p, q) /\ HasMatch(Swapped(board, p, q))

\* match_core_fill and reshuffle try for a board with no match on it and a move to make;
\* when they give up, it may be any.
Playable == {board \in Boards : ~HasMatch(board) /\ HasMove(board)}
Deals == tile' \in Boards /\ gaveUp' = (tile' \notin Playable)

Init ==
  /\ tile \in Boards /\ gaveUp = (tile \notin Playable)
  /\ selected = NoCell /\ resolving = FALSE /\ state = "playing"

\* match_start.
Restart ==
  /\ state = "over"
  /\ Deals
  /\ selected' = NoCell /\ resolving' = FALSE /\ state' = "playing"

\* Where a tile falls to when the marked ones are gone: as far as there are holes
\* below it in its column; what is then empty is drawn.
Holes(gone, p) == Cardinality({q \in gone : q[2] = p[2] /\ q[1] > p[1]})
Fallen(p, gone) == <<p[1] + Holes(gone, p), p[2]>>
Empty(gone) == Cells \ {Fallen(p, gone) : p \in Cells \ gone}
Collapsed(board, gone) ==
  LET from == [q \in Cells \ Empty(gone) |->
                 CHOOSE p \in Cells \ gone : Fallen(p, gone) = q]
  IN {[q \in Cells |-> IF q \in Empty(gone) THEN new[q] ELSE board[from[q]]] :
        new \in [Empty(gone) -> Colours]}

\* Mutant: a board left without a move by the last pass is handed to the player.
PassDead ==
  /\ state = "playing" /\ resolving
  /\ tile' \in Collapsed(tile, Marked(tile))
  /\ resolving' = HasMatch(tile')
  /\ gaveUp' = FALSE
  /\ UNCHANGED <<selected, state>>

\* run_cascade_step: one match_core_resolve, which reshuffles a board that neither
\* goes on nor has a move; a match that the reshuffle leaves starts no cascade.
Pass ==
  /\ state = "playing" /\ resolving
  /\ \E board \in Collapsed(tile, Marked(tile)) :
       /\ IF HasMatch(board) \/ HasMove(board) THEN tile' = board /\ gaveUp' = FALSE ELSE Deals
       /\ resolving' = HasMatch(board)
  /\ UNCHANGED <<selected, state>>

\* tile_clicked_cb, ignored while a cascade runs.
Tap(p) ==
  /\ state = "playing" /\ ~resolving
  /\ IF selected = NoCell \/ selected = p \/ ~Adjacent(selected, p)
           \/ ~HasMatch(Swapped(tile, selected, p))
     THEN /\ selected' = IF selected = p THEN NoCell ELSE p
          /\ UNCHANGED <<tile, resolving>>
     ELSE /\ tile' = Swapped(tile, selected, p)
          /\ selected' = NoCell
          /\ resolving' = TRUE
  /\ UNCHANGED <<state, gaveUp>>

\* match_update, when the ninety seconds are over: in the middle of a cascade, too.
TimeUp ==
  /\ state = "playing"
  /\ state' = "over"
  /\ UNCHANGED <<tile, selected, resolving, gaveUp>>

Next == Pass \/ (\E p \in Cells : Tap(p)) \/ TimeUp \/ Restart

-----------------------------------------------------------------------------

TypeOK ==
  /\ tile \in Boards
  /\ selected \in Cells \union {NoCell}
  /\ resolving \in BOOLEAN /\ state \in {"playing", "over"} /\ gaveUp \in BOOLEAN

\* Whenever a tap counts, the board holds no match that was not earned and has a move
\* to make, after however many passes and refills (match_app.c: "no free opening match,
\* no pointless swap, never a dead board"), but for a board that drawing was given up on,
\* until a pass has cleared it; and a cascade always has something to clear.
NeverADeadBoard ==
  state = "playing" => IF resolving THEN HasMatch(tile) /\ selected = NoCell
                       ELSE (~HasMatch(tile) /\ HasMove(tile)) \/ gaveUp
=============================================================================
