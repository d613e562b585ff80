----------------------------- MODULE CharServer -----------------------------
(***************************************************************************)
(* How the char server passes an account on, src/src/char/char.c: it       *)
(* accepts a login, lets the player choose a character, names the map      *)
(* server that has the character's map, and vouches for the player there.  *)
(* Characters are their saved map and one number for everything else.      *)
(***************************************************************************)
EXTENDS LoginServer

CONSTANTS
  Seats,    \* connections the char server keeps for clients
  Homes,    \* where the characters are at first
  MaxValue  \* bound: changes to a character

ASSUME SeatAssumption == Seats \subseteq Nat \ {0} /\ MaxValue \in Nat
ASSUME HomeAssumption == Homes \in [Chars -> Maps]

VARIABLES
  seat,    \* session[fd] of clients: login_id1, found_char loaded, auth = 0
  auth,    \* auth_fifo: unused entries, for a map server (delflag 0) or for
           \* the return to character selection (delflag 2)
  online,  \* char_online_db: the map server entered for the account
  where,   \* last_point of each character as it is stored
  stored,  \* the rest of each character as it is stored
  up,      \* map servers to char server
  down,    \* char server to map servers
  mixed,   \* history: a connection got the answer meant for another
  crossed  \* history: a map server reported the account gone when the table
           \* named another, or sent it on when another login had an entry

chars == <<seat, auth, online, where, stored, mixed, crossed>>

Entry  == [id : Ids, char : Chars \cup {None}, use : {"map", "select"}]
Seat   == [id : Ids, ready : BOOLEAN, revoked : BOOLEAN]
NoSeat == [id |-> 0, ready |-> FALSE, revoked |-> FALSE]

TypeOKChar ==
  /\ seat \in [Seats -> Seat]
  /\ auth \subseteq Entry
  /\ online \in Maps \cup {None}
  /\ where \in [Chars -> Maps] /\ stored \in [Chars -> 0..MaxValue]
  /\ mixed \in BOOLEAN /\ crossed \in BOOLEAN

InitChar ==
  /\ seat = [f \in Seats |-> NoSeat]
  /\ auth = {} /\ online = None
  /\ where = Homes
  /\ stored = [c \in Chars |-> 0]
  /\ up = [m \in Maps |-> <<>>] /\ down = [m \in Maps |-> <<>>]
  /\ mixed = FALSE /\ crossed = FALSE

Taken == {f \in Seats : seat[f] # NoSeat}

\* mapif_sendall: 0x2b1a
KickAll == [m \in Maps |-> Append(down[m], [op |-> "kick"])]

\* Mutant: entries nobody used stay valid.
ForMapNone(entries) == {}

\* Entries of the account with delflag 0.
ForMap(entries) == {e \in entries : e.use = "map"}

-----------------------------------------------------------------------------
(* Clients *)

\* parse_char, 0x65
CharConnect(k) ==
  \E f \in Seats \ Taken :
    LET id   == client[k].id
        back == [id |-> id, char |-> None, use |-> "select"]
    IN  /\ client[k].at = "ticket"
        /\ client' = [client EXCEPT ![k].at = "char", ![k].fd = f]
        /\ seat' = [seat EXCEPT ![f] = [id |-> id, ready |-> back \in auth, revoked |-> FALSE]]
        /\ auth' = auth \ {back}
        /\ toLogin' = IF back \in auth THEN toLogin ELSE Append(toLogin, id)
        /\ UNCHANGED <<lastId, tickets, toChar, online, where, stored, mixed, crossed, up, down>>

\* Mutant: any map server is good enough.
Nowhere(m) == FALSE

Elsewhere(m) == online \notin {None, m}

\* parse_char, 0x66: not while the account is on another map server.
Select(k) ==
  \E c \in Chars :
    LET f == client[k].fd
        m == where[c]
    IN  /\ client[k].at = "char" /\ seat[f].ready
        /\ \A n \in Maps : Len(down[n]) < LinkCap
        /\ \/ /\ Elsewhere(m)
              /\ down' = KickAll
              /\ UNCHANGED <<client, auth>>
           \/ /\ ~Elsewhere(m)
              /\ auth' = (auth \ ForMap(auth)) \cup {[id |-> seat[f].id, char |-> c, use |-> "map"]}
              /\ client' = [client EXCEPT ![k].at = "go", ![k].map = m, ![k].char = c, ![k].fd = 0]
              /\ UNCHANGED down
        /\ UNCHANGED <<logins, seat, online, where, stored, mixed, crossed, up>>

\* The client of a seat has left it, or the seat is not or no longer accepted
\* and timed out.
CloseSeat(f) ==
  /\ f \in Taken
  /\ \/ seat[f].revoked \/ ~seat[f].ready
     \/ \A k \in Clients : ~(client[k].at = "char" /\ client[k].fd = f)
  /\ seat' = [seat EXCEPT ![f] = NoSeat]
  /\ client' = [k \in Clients |-> IF client[k].at = "char" /\ client[k].fd = f
                                  THEN Outside ELSE client[k]]
  /\ UNCHANGED <<logins, auth, online, where, stored, mixed, crossed, up, down>>

\* The ring of the char server has turned.
ForgetEntry ==
  /\ \E e \in auth : auth' = auth \ {e}
  /\ UNCHANGED <<client, logins, seat, online, where, stored, mixed, crossed, up, down>>

-----------------------------------------------------------------------------
(* parse_tologin *)

\* 0x2730
Revoke ==
  /\ seat' = [f \in Seats |-> IF f \in Taken THEN [seat[f] EXCEPT !.revoked = TRUE] ELSE NoSeat]
  /\ auth' = auth \ ForMap(auth)
  /\ down' = IF online # None THEN KickAll ELSE down
  /\ UNCHANGED mixed

\* 0x2713: to the first connection of the account, whichever asked.
Answer(msg) ==
  /\ seat' = IF Taken # {} /\ msg.ok
             THEN [seat EXCEPT ![Min(Taken)] = [id |-> msg.id, ready |-> TRUE, revoked |-> FALSE]]
             ELSE seat
  /\ mixed' = (mixed \/ (Taken # {} /\ msg.ok /\ seat[Min(Taken)].id # msg.id))
  /\ UNCHANGED <<auth, down>>

CharReceivesLogin ==
  /\ toChar # <<>>
  /\ \/ Head(toChar).op = "kick" /\ Revoke
     \/ Head(toChar).op = "answer" /\ Answer(Head(toChar))
  /\ toChar' = Tail(toChar)
  /\ UNCHANGED <<client, lastId, tickets, toLogin, online, where, stored, crossed, up>>

-----------------------------------------------------------------------------
(* parse_frommap *)

Reply(m, msg) == down' = [down EXCEPT ![m] = Append(@, msg)]

\* 0x2afc: the entry serves once; the character goes along.
Vouch(m, msg) ==
  LET entry == [id |-> msg.id, char |-> msg.char, use |-> "map"]
  IN  /\ msg.op = "auth"
      /\ auth' = auth \ {entry}
      /\ IF entry \in auth
         THEN /\ Reply(m, [op |-> "ok", char |-> msg.char, value |-> stored[msg.char], to |-> msg.to])
              /\ online' = m
         ELSE Reply(m, [op |-> "fail", to |-> msg.to]) /\ UNCHANGED online
      /\ UNCHANGED <<where, stored, crossed>>

\* 0x2b01, and 0x2b07 when it was the last save of a session.
Save(m, msg) ==
  /\ msg.op = "save"
  /\ where' = [where EXCEPT ![msg.char] = msg.map]
  /\ stored' = [stored EXCEPT ![msg.char] = msg.value]
  /\ IF msg.final > 0 THEN Reply(m, [op |-> "saved", final |-> msg.final, map |-> msg.map])
                      ELSE UNCHANGED down
  /\ UNCHANGED <<auth, online, crossed>>

\* 0x2b02 and 0x2b05: entries for where the player goes next.
SendOn(m, msg) ==
  /\ \/ /\ msg.op = "select"
        /\ auth' = auth \cup {[id |-> msg.id, char |-> None, use |-> "select"]}
        /\ Reply(m, [op |-> "selectok"])
        /\ UNCHANGED crossed
     \/ /\ msg.op = "move"
        /\ auth' = auth \cup {[id |-> msg.id, char |-> msg.char, use |-> "map"]}
        /\ Reply(m, [op |-> "moved", char |-> msg.char, map |-> msg.map])
        /\ crossed' = (crossed \/ \E e \in ForMap(auth) : e.id # msg.id)
  /\ UNCHANGED <<online, where, stored>>

\* 0x2b18: whatever server the table names.
Gone(m, msg) ==
  /\ msg.op = "gone"
  /\ online' = None
  /\ crossed' = (crossed \/ online \notin {None, m})
  /\ UNCHANGED <<auth, where, stored, down>>

CharReceivesMap(m) ==
  /\ up[m] # <<>>
  /\ LET msg == Head(up[m]) IN
       Vouch(m, msg) \/ Save(m, msg) \/ SendOn(m, msg) \/ Gone(m, msg)
  /\ up' = [up EXCEPT ![m] = Tail(@)]
  /\ UNCHANGED <<client, logins, seat, mixed>>

=============================================================================
