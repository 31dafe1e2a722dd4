------------------------------ MODULE MCLobby ------------------------------
EXTENDS LobbyProperties

CONSTANTS ann, bob

MCUser == {ann, bob}

\* A newcomer and a beaten veteran: within range of each other.
EvenRating == ann :> DefaultRating @@ bob :> DefaultRating - 40

\* Far apart: the Play queue never matches them.
UnevenRating == ann :> 1000 @@ bob :> 1400

\* Sound where the rooms are all contested or all not.
ConnectionsAndRooms == Permutations(Client) \cup Permutations(RoomId)

Connections == Permutations(Client)
=============================================================================
