------------------------------ MODULE MCScreen ------------------------------
EXTENDS Screen

CONSTANTS ann, bob

MCUser == {ann, bob}

EvenRating == ann :> DefaultRating @@ bob :> DefaultRating - 40
=============================================================================
