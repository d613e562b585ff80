-------------------------------- MODULE Link --------------------------------
(***************************************************************************)
(* The connection of the map server with the char server: bytes in order   *)
(* in both directions, until it breaks and all that is on it is lost.      *)
(* Without it nobody is on the map server: chrif_disconnect throws every   *)
(* player out, and logins go through the char server.                      *)
(***************************************************************************)
EXTENDS Trade

CONSTANT LinkCap  \* bound: messages on the link when a player adds one

ASSUME LinkAssumption == LinkCap \in Nat

VARIABLES
  linked,  \* char_fd >= 0 (inter_fd is another name of it)
  up,      \* map server to char server
  down,    \* char server to map server
  record   \* what the char server has stored of each player's status

link == <<linked, up, down, record>>

\* The map server asks, the char server answers.
Asks(m)      == up' = Append(up, m)
Answers(ms)  == down' = down \o ms

LinkHasRoom == Len(up) + Len(down) < LinkCap

\* Messages of the operations ops that player p is waiting for or with.
Pending(p, ops) ==
  LET all == up \o down IN {i \in DOMAIN all : all[i].op \in ops /\ all[i].by = p}

\* map_id2sd: a session from the moment its client connects; until the char
\* server has answered it is empty, and what is changed in it is overwritten.
Connecting(p) == Pending(p, {"auth", "authok"}) # {}
Found(p)      == p \notin away \/ Connecting(p)

InitLink(status) ==
  /\ linked = TRUE
  /\ up = <<>> /\ down = <<>>
  /\ record = status

=============================================================================
