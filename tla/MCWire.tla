------------------------------- MODULE MCWire -------------------------------
EXTENDS Wire

\* Two columns and ten rows, so that ranks have one digit or two.
MCHeight == 10
MCWidth == 2

\* Ratings may be negative; progress is written in thousandths.
MCNumbers == (-3 .. 1240) \cup {4105}

a10 == <<0, 0>>
b10 == <<0, 1>>
b9 == <<1, 1>>
a9 == <<1, 0>>
b1 == <<9, 1>>

Command(player, kind, from, to) ==
    Message("CMD", [player |-> player, kind |-> kind, from |-> from, to |-> to])

Event(player, kind, from, to, isCapture, isJump) ==
    Message("MOVE", [player |-> player, kind |-> kind, from |-> from, to |-> to,
                     timeMs |-> 4105, isCapture |-> isCapture, isJump |-> isJump])

Ann == <<"Ann">>
Lee == <<"Bob", "Lee">>

Roster(white, black) == Message("ROSTER", [White |-> white, Black |-> black])

MCMessages ==
    << Command("White", "Queen", a9, b9), Command("Black", "Knight", a10, a10),
       Command("Black", "Bishop", b9, a10), Command("White", "Pawn", b1, b9),
       Event("White", "King", a9, a10, TRUE, FALSE),
       Event("Black", "Rook", b1, b1, FALSE, TRUE),
       Message("CAPTURE", [color |-> "Black", kind |-> "King"]),
       Message("ROLE", "White"), Message("ROLE", "Black"), Message("ROLE", "Spectator"),
       Message("LOGIN", [username |-> Lee, password |-> <<"", "x y">>]),
       Roster({[name |-> Lee, rating |-> 1240]}, {[name |-> Ann, rating |-> -3]}),
       Roster({[name |-> Ann, rating |-> 1200]}, {}), Roster({}, {}),
       Message("AUTHFAIL", <<"bad", "password">>), Message("ROOMERR", <<"">>),
       Message("JOIN", <<"AB12">>), Message("ROOM", <<"AB12">>),
       Message("OPPGONE", 20), Message("OPPBACK", NoBody), Message("NOMATCH", NoBody),
       Message("SEEK", NoBody), Message("CANCEL", NoBody), Message("CREATE", NoBody) >>

Piece(id, color, kind, cell, state) ==
    [id |-> id, color |-> color, kind |-> kind, cell |-> cell, state |-> state]

Board(pieces) == [width |-> 2, height |-> MCHeight, pieces |-> pieces]

MCStartBoard ==
    Board({Piece(1, "Black", "King", a10, "Idle"), Piece(2, "White", "Rook", b1, "Idle")})

Snapshot(over, pieces, motions, cooldowns) ==
    [over |-> over, board |-> Board(pieces), motions |-> motions, cooldowns |-> cooldowns]

MCSnapshots ==
    << Snapshot(FALSE, {Piece(1, "Black", "King", b10, "Airborne"),
                        Piece(2, "White", "Rook", a9, "Moving")},
                << [from |-> a9, to |-> a10, progress |-> 4567] >>, << >>),
       Snapshot(TRUE, {Piece(2, "White", "Rook", a9, "Resting"),
                       Piece(12, "White", "Pawn", b1, "Resting")},
                << >>, << [cell |-> a9, progress |-> 40], [cell |-> b1, progress |-> 9996] >>) >>

=============================================================================
