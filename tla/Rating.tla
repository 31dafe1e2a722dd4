------------------------------- MODULE Rating -------------------------------
(***************************************************************************)
(* Elo ratings (shared/logic/game_record/rating): the points a winner      *)
(* gains are lround(32 * (1 - 1 / (1 + 10^(-adv/400)))) where adv is how   *)
(* far the winner was ahead before the game.  The gain is a step function  *)
(* of adv that goes down from 32 to 0, one point at each of the advantages *)
(* in Thresholds.  lround rounds halves away from zero, so the loser loses *)
(* what the winner gains.                                                  *)
(***************************************************************************)
EXTENDS Integers, FiniteSets

DefaultRating == 1200

KFactor == 32

EloMatchRange == 100

Thresholds ==
    { -719, -523, -428, -364, -314, -273, -237, -205, -176, -149, -124,
      -100, -77, -54, -32, -10, 11, 33, 55, 78, 101, 125, 150, 177, 206,
      238, 274, 315, 365, 429, 524, 720 }

Gain(adv) == KFactor - Cardinality({t \in Thresholds : adv >= t})

UpdatedRating(rating, opponentRating, won) ==
    IF won THEN rating + Gain(rating - opponentRating)
    ELSE rating - Gain(opponentRating - rating)

=============================================================================
