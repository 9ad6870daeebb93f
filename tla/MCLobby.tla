------------------------------- MODULE MCLobby -------------------------------
(***************************************************************************)
(* Small lobbies: rooms of two or three seats, two or three users.         *)
(***************************************************************************)
EXTENDS LobbySafety, TLC

CONSTANTS ana, bea, cyd, bot1, bot2, bot3, s1, s2, s3

Wish(bots, takeover, replacement, quit) ==
  [bot_count |-> bots, allow_bot_takeover |-> takeover,
   allow_bot_replacement |-> replacement, quit_deletes_match |-> quit]

\* More bots than the bound allows; no bots but those who replace users; a table that
\* closes the seats of users who leave; one that ends when a user leaves.
AllWishes == {Wish(2, TRUE, TRUE, FALSE), Wish(0, FALSE, FALSE, FALSE),
              Wish(-1, FALSE, TRUE, FALSE), Wish(1, TRUE, TRUE, TRUE)}
NoWishes  == {}

\* Users and bots differ in their names only.
Alike == UNION {Permutations(S) : S \in {User, BotName}}
=============================================================================
