------------------------------ MODULE Invaders ------------------------------
(***************************************************************************)
(* The game of games/invaders/invaders.cpp: the formation of aliens, the   *)
(* player and the frames they are drawn in.                                *)
(*                                                                         *)
(* update() is called by the timer interrupt and handleInput() by the      *)
(* keyboard interrupt.  Handlers do not nest (InService of Kernel), so     *)
(* each call is one step.                                                  *)
(***************************************************************************)
EXTENDS Graphics, FiniteSets

CONSTANTS
  Rows, Columns,   \* of the formation: 5 and 12
  StepX, StepY,    \* distance of two aliens
  AlienSize,       \* width and height of an alien
  Descent,         \* how far the formation comes down
  PlayerWidth, PlayerHeight,
  PlayerY,         \* height of the screen - 64
  Speed,           \* of the player
  MaxY             \* bound: update() is not called with an alien below MaxY

ASSUME InvadersAssumption ==
  /\ {Rows, Columns, StepX, StepY, AlienSize, PlayerWidth, PlayerHeight} \subseteq Nat \ {0}
  /\ {Descent, PlayerY, Speed, MaxY} \subseteq Nat
  /\ PlayerWidth <= Width /\ Width + PlayerWidth < Word /\ Speed < Word
  /\ StepX * (Columns + 2) + AlienSize <= Width  \* the formation fits when it starts

VARIABLES
  aliens,      \* positions of m_aliens
  player,      \* x of m_player
  movingLeft, moveDown,  \* m_movingLeft, m_moveDownOnNextTurn
  memory,      \* of the framebuffer
  over         \* cells outside it that have been written

invadersVars == <<aliens, player, movingLeft, moveDown, memory, over>>

Crew == (1 .. Columns) \X (1 .. Rows)

AlienRect(p) == [x |-> p.x, y |-> p.y, w |-> AlienSize, h |-> AlienSize]
PlayerRect(x) == [x |-> x, y |-> PlayerY, w |-> PlayerWidth, h |-> PlayerHeight]

\* GameState::init(), over a screen that shows what the boot loader left there.
InvadersInit ==
  /\ aliens = [a \in Crew |-> [x |-> (a[1] + 2) * StepX, y |-> a[2] * StepY]]
  /\ player = Width \div 2
  /\ movingLeft = FALSE /\ moveDown = FALSE
  /\ memory = [c \in Cells |-> "left over"] /\ over = {}

Moved(p) == [x |-> (IF movingLeft THEN p.x + Word - 1 ELSE p.x + 1) % Word,
             y |-> p.y + IF moveDown THEN Descent ELSE 0]

AtBorderBelowZero(p) == p.x < 0 \/ (p.x + AlienSize) % Word > Width
AtBorder(p) == p.x <= 0 \/ (p.x + AlienSize) % Word > Width

\* Every alien at a border turns the formation round.
Turns(hits) == Cardinality(hits) % 2 = 1

\* The frame: clear, the player, then the aliens.
Draw(positions) ==
  \E ships \in {UNION {Filled(AlienRect(positions[a])) : a \in Crew}}, own \in {Filled(PlayerRect(player))} :
  /\ memory' = Paint(Paint(Paint(memory, Cleared, "black"), own, "player"), ships, "alien")
  /\ over' = over \cup ((Cleared \cup own \cup ships) \ Cells)

UpdateForgetsDescent ==
  LET next == [a \in Crew |-> Moved(aliens[a])]
      hits == {a \in Crew : AtBorder(next[a])} IN
  /\ \A a \in Crew : aliens[a].y <= MaxY
  /\ aliens' = next
  /\ movingLeft' = IF Turns(hits) THEN ~movingLeft ELSE movingLeft
  /\ moveDown' = FALSE
  /\ Draw(next)
  /\ UNCHANGED player
\* GameState::update(): `|| true` makes the formation move on every tick.
Update ==
  LET next == [a \in Crew |-> Moved(aliens[a])]
      hits == {a \in Crew : AtBorder(next[a])} IN
  /\ \A a \in Crew : aliens[a].y <= MaxY
  /\ aliens' = next
  /\ movingLeft' = IF Turns(hits) THEN ~movingLeft ELSE movingLeft
  /\ moveDown' = (hits # {})
  /\ Draw(next)
  /\ UNCHANGED player

\* max(x - 5, 0ul) on an unsigned x.
Leftwards(x) == (x + Word - Speed) % Word
RightwardsUnclamped(x) == x + Speed
Rightwards(x) == Lesser((x + Speed) % Word, Width - PlayerWidth)

\* GameState::handleInput(), with what isKeyPressed() says of A and D.
HandleInput(a, d) ==
  LET x == IF a THEN Leftwards(player) ELSE player IN
  /\ player' = IF d THEN Rightwards(x) ELSE x
  /\ UNCHANGED <<aliens, movingLeft, moveDown, memory, over>>

InvadersNext == Update \/ \E a, d \in BOOLEAN : HandleInput(a, d)

\* Ticks keep coming: TickServed of Kernel.
InvadersSpec == InvadersInit /\ [][InvadersNext]_invadersVars /\ WF_invadersVars(Update)

-----------------------------------------------------------------------------
\* The variables have their types.
InvadersTypeOK ==
  /\ aliens \in [Crew -> [x : 0 .. Word - 1, y : Nat]]
  /\ player \in 0 .. Word - 1
  /\ movingLeft \in BOOLEAN /\ moveDown \in BOOLEAN
  /\ memory \in [Cells -> {"left over", "black", "player", "alien"}]

\* The formation turns round at the borders: it never wraps to the other side of
\* the unsigned coordinates, and never goes more than one pixel over the right
\* border, though each alien of the column at the border turns it once more.
FormationTurns == \A a \in Crew : aliens[a].x + AlienSize <= Width + 1

\* The visible cells that a caller asked to fill.
Visible == {Pixel(x, y) : x \in 0 .. Width - 1, y \in 0 .. Height - 1}
Shown(rect) ==
  {Pixel(x, y) : x \in (rect.x .. rect.x + rect.w - 1) \cap 0 .. Width - 1,
                 y \in (rect.y .. rect.y + rect.h - 1) \cap 0 .. Height - 1}

\* Right after update() the screen shows the player and the aliens, each where it
\* is, and nothing else: nothing is left of an earlier frame.
FrameShown ==
  aliens' # aliens =>
    LET ships == UNION {Shown(AlienRect(aliens'[a])) : a \in Crew}
        Colored(color) == {c \in Visible : memory'[c] = color} IN
    /\ Colored("alien") = ships
    /\ Colored("player") = Shown(PlayerRect(player)) \ ships
    /\ Colored("left over") = {}
FrameShows == [][FrameShown]_invadersVars

\* The formation comes down to the player.
Invasion == <>(\E a \in Crew : aliens[a].y + AlienSize > PlayerY)

\* "Destination array is assumed to be at least sizeof(T) * n bytes long"
\* (memory.hpp): no mempattern() of a frame writes outside the framebuffer.
DestinationFits == over = {}
=============================================================================
