----------------------------- MODULE MapServer -----------------------------
(***************************************************************************)
(* The account on the map servers, src/src/map: connecting (clif.c, pc.c), *)
(* asking the char server (chrif.c), playing, saving, leaving for another  *)
(* map server or for character selection, and what becomes of a second     *)
(* connection of the account.  A map server has one table entry for the    *)
(* account, and the connections it refuses stay open for five seconds.     *)
(***************************************************************************)
EXTENDS CharServer

CONSTANTS
  Fds,      \* connections a map server keeps for clients
  MaxDrops  \* bound: links that break

ASSUME FdAssumption == Fds \subseteq Nat \ {0} /\ MaxDrops \in Nat

VARIABLES
  sess,      \* map_session_data of each connection
  idb,       \* id_db: the connection entered for the account, 0 without one
  doomed,    \* connections a clif_waitclose timer will close, by number
  latest,    \* history: the newest state of each character
  abandoned, \* history: the char server entered an account nobody plays
  drops

maps == <<sess, idb, doomed, latest, abandoned, drops>>

\* twin is new_fd: the later connection of the account, or -1 in that one.
Session == [char : Chars \cup {None}, id : Ids, auth : BOOLEAN, waiting : BOOLEAN,
            twin : {-1, 0} \cup Fds, val : 0..MaxValue, dest : Maps \cup {None}]
NoSession == [char |-> None, id |-> 0, auth |-> FALSE, waiting |-> FALSE,
              twin |-> 0, val |-> 0, dest |-> None]

Client == [at : Place, id : Ids, fd : {0} \cup Seats \cup Fds,
           map : Maps \cup {None}, char : Chars \cup {None}]

UpMessage ==
  [op : {"auth"}, id : Ids, char : Chars, to : {0} \cup Fds]
    \cup [op : {"save"}, char : Chars, value : 0..MaxValue, map : Maps, final : 0..3]
    \cup [op : {"select"}, id : Ids]
    \cup [op : {"move"}, id : Ids, char : Chars, map : Maps]
    \cup [op : {"gone"}]

DownMessage ==
  [op : {"kick", "selectok"}]
    \cup [op : {"ok"}, char : Chars, value : 0..MaxValue, to : {0} \cup Fds]
    \cup [op : {"fail"}, to : {0} \cup Fds]
    \cup [op : {"saved"}, final : 1..3, map : Maps]
    \cup [op : {"moved"}, char : Chars, map : Maps]

TypeOKMap ==
  /\ client \in [Clients -> Client]
  /\ up \in [Maps -> Seq(UpMessage)] /\ down \in [Maps -> Seq(DownMessage)]
  /\ sess \in [Maps -> [Fds -> Session]]
  /\ idb \in [Maps -> {0} \cup Fds]
  /\ doomed \in [Maps -> SUBSET Fds]
  /\ latest \in [Chars -> 0..MaxValue]
  /\ abandoned \in BOOLEAN /\ drops \in 0..MaxDrops

InitMap ==
  /\ sess = [m \in Maps |-> [f \in Fds |-> NoSession]]
  /\ idb = [m \in Maps |-> 0] /\ doomed = [m \in Maps |-> {}]
  /\ latest = [c \in Chars |-> 0]
  /\ abandoned = FALSE /\ drops = 0

Here(m) == {f \in Fds : sess[m][f] # NoSession}

\* Connections whose player is in the world.
Playing(m) == {f \in Fds : sess[m][f].auth /\ ~sess[m][f].waiting}

Attended(m, f) == \E k \in Clients : client[k].at = "map" /\ client[k].map = m /\ client[k].fd = f

Send(m, msgs) ==
  /\ Len(up[m]) < LinkCap
  /\ up' = [up EXCEPT ![m] = @ \o msgs]

-----------------------------------------------------------------------------
(* Connecting *)

\* clif_parse_WantToConnection
MapConnect(k) ==
  LET m     == client[k].map
      c     == client[k].char
      first == idb[m] = 0
      New(f) == [NoSession EXCEPT !.char = c, !.id = client[k].id, !.dest = m,
                                  !.twin = IF first THEN 0 ELSE -1]
  IN  /\ client[k].at = "go"
      /\ \E f \in Fds \ Here(m) :
           /\ sess' = [sess EXCEPT ![m] = IF first THEN [@ EXCEPT ![f] = New(f)]
                                          ELSE [@ EXCEPT ![f] = New(f), ![idb[m]].twin = f]]
           /\ idb' = IF first THEN [idb EXCEPT ![m] = f] ELSE idb
           /\ client' = [client EXCEPT ![k].at = "map", ![k].fd = f]
           /\ Send(m, <<[op |-> "auth", id |-> client[k].id, char |-> c, to |-> f]>>)
      /\ UNCHANGED <<logins, chars, down, doomed, latest, abandoned, drops>>

-----------------------------------------------------------------------------
(* chrif_parse: answers are for the entered connection, whichever asked. *)

Doom(m, fds) == doomed' = [doomed EXCEPT ![m] = @ \cup fds]

Twins(m, f) == {f} \cup ({sess[m][f].twin} \cap Here(m))

Unanswered(m) == UNCHANGED <<sess, doomed, mixed>>

(* pc_authok: neither of two connections gets in. Two things of it are not here:
   a last_point that is another server's by now sends the player on at once
   (pc.c:1490, 3108-3134), which in the model is MoveServer, the same steps, taken
   later or not at all; and sd->status is overwritten before the characters are
   compared (pc.c:1335, 1338), which tells only in states that are `mixed'. *)
Accept(m, msg) ==
  LET f == idb[m] IN
    /\ msg.op = "ok"
    /\ \/ /\ f = 0
          /\ Unanswered(m)
          /\ abandoned' = TRUE
       \/ /\ f # 0
          /\ mixed' = (mixed \/ msg.to # f)
          /\ \/ /\ sess[m][f].twin # 0
                /\ Doom(m, Twins(m, f))
                /\ abandoned' = (abandoned \/ ~sess[m][f].auth)
                /\ UNCHANGED sess
             \/ /\ sess[m][f].twin = 0 /\ sess[m][f].char # msg.char
                /\ Doom(m, {f})
                /\ abandoned' = (abandoned \/ ~sess[m][f].auth)
                /\ UNCHANGED sess
             \/ /\ sess[m][f].twin = 0 /\ sess[m][f].char = msg.char
                /\ sess' = [sess EXCEPT ![m][f] = [@ EXCEPT !.auth = TRUE, !.waiting = FALSE,
                                                            !.val = msg.value, !.dest = m]]
                /\ UNCHANGED <<doomed, abandoned>>
    /\ UNCHANGED <<client, up>>

\* pc_authfail; the refusal has half of the account number and may miss it.
Refuse(m, msg) ==
  LET f == idb[m] IN
    /\ msg.op = "fail"
    /\ \/ Unanswered(m)
       \/ /\ f # 0
          /\ IF sess[m][f].twin # 0
             THEN /\ Doom(m, {sess[m][f].twin})
                  /\ sess' = [sess EXCEPT ![m][f].twin = 0]
             ELSE Doom(m, {f}) /\ UNCHANGED sess
          /\ UNCHANGED mixed
    /\ UNCHANGED <<client, up, abandoned>>

\* chrif_saveack: the last save before character selection or another server.
Saved(m, msg) ==
  LET s == sess[m][idb[m]] IN
    /\ msg.op = "saved"
    /\ up' = CASE idb[m] # 0 /\ msg.final = 2 ->
                    [up EXCEPT ![m] = Append(@, [op |-> "select", id |-> s.id])]
               [] idb[m] # 0 /\ msg.final = 3 /\ s.dest # m ->
                    [up EXCEPT ![m] = Append(@, [op |-> "move", id |-> s.id, char |-> s.char, map |-> s.dest])]
               [] OTHER -> up
    /\ mixed' = (mixed \/ (idb[m] # 0 /\ msg.final = 2 /\ ~s.waiting))
    /\ UNCHANGED <<client, sess, doomed, abandoned>>

\* The client of connection f is told to go on.
SendClient(m, f, to) ==
  client' = [k \in Clients |-> IF client[k].at = "map" /\ client[k].map = m /\ client[k].fd = f
                               THEN to[k] ELSE client[k]]

\* clif_charselectok, clif_changemapserver
Proceed(m, msg) ==
  LET f == idb[m] IN
    /\ \/ /\ msg.op = "selectok"
          /\ SendClient(m, f, [k \in Clients |-> [client[k] EXCEPT !.at = "ticket", !.map = None, !.char = None, !.fd = 0]])
          /\ mixed' = (mixed \/ (f # 0 /\ ~sess[m][f].waiting))
       \/ /\ msg.op = "moved"
          /\ IF f # 0 /\ sess[m][f].auth /\ sess[m][f].char = msg.char
             THEN SendClient(m, f, [k \in Clients |-> [client[k] EXCEPT !.at = "go", !.map = msg.map, !.fd = 0]])
             ELSE UNCHANGED client
          /\ UNCHANGED mixed
    /\ UNCHANGED <<up, sess, doomed, abandoned>>

\* Mutant: the result of map_id2sd is not looked at.
EnteredOrNot(m) == {idb[m]}

\* map_id2sd
Entered(m) == {idb[m]} \ {0}

\* chrif_parse_chardisconnect_doublelogin
Kicked(m, msg) ==
  /\ msg.op = "kick"
  /\ Doom(m, Entered(m))
  /\ UNCHANGED <<client, up, sess, mixed, abandoned>>

MapReceives(m) ==
  /\ down[m] # <<>>
  /\ LET msg == Head(down[m]) IN
       Accept(m, msg) \/ Refuse(m, msg) \/ Saved(m, msg) \/ Proceed(m, msg) \/ Kicked(m, msg)
  /\ down' = [down EXCEPT ![m] = Tail(@)]
  /\ UNCHANGED <<logins, seat, auth, online, where, stored, crossed, idb, latest, drops>>

-----------------------------------------------------------------------------
(* Playing *)

\* Anything that changes the character.
Play(m, f) ==
  /\ f \in Playing(m) /\ Attended(m, f)
  /\ sess[m][f].val < MaxValue
  /\ sess' = [sess EXCEPT ![m][f].val = @ + 1]
  /\ latest' = [latest EXCEPT ![sess[m][f].char] = sess[m][f].val + 1]
  /\ UNCHANGED <<client, logins, chars, up, down, idb, doomed, abandoned, drops>>

\* Mutant: a session is saved again when its client is gone.
SaveOfAll(s, final) ==
  <<[op |-> "save", char |-> s.char, value |-> s.val, map |-> s.dest, final |-> final]>>

\* chrif_save does nothing for a session that was saved for the last time.
SaveOf(s, final) ==
  IF s.waiting THEN <<>>
  ELSE <<[op |-> "save", char |-> s.char, value |-> s.val, map |-> s.dest, final |-> final]>>

\* pc_autosave
Autosave(m) ==
  /\ \E f \in Playing(m) : Send(m, SaveOf(sess[m][f], 0))
  /\ UNCHANGED <<client, logins, chars, down, maps>>

\* clif_parse_Restart, and pc_setpos to a map of server n.
Leave(m, f, final, n) ==
  /\ f \in Playing(m) /\ Attended(m, f)
  /\ sess' = [sess EXCEPT ![m][f].waiting = TRUE, ![m][f].dest = n]
  /\ Send(m, SaveOf([sess[m][f] EXCEPT !.dest = n], final))
  /\ UNCHANGED <<client, logins, chars, down, idb, doomed, latest, abandoned, drops>>

Restart(m, f) == Leave(m, f, 2, m)

MoveServer(m, f) == \E n \in Maps \ {m} : Leave(m, f, 3, n)

\* clif_parse_QuitGame
QuitGame(m, f) ==
  /\ f \in Playing(m) /\ Attended(m, f)
  /\ Doom(m, {f})
  /\ UNCHANGED <<client, logins, chars, up, down, sess, idb, latest, abandoned, drops>>

-----------------------------------------------------------------------------
(* Leaving *)

\* Mutant: the char server is not told of those who were saved already.
LastWordsOfActive(s) ==
  IF ~s.auth \/ s.waiting THEN <<>>
  ELSE (IF s.twin # -1 THEN SaveOf(s, 1) ELSE <<>>) \o <<[op |-> "gone"]>>

\* Mutant: nor is it asked whether the connection was ever accepted.
LastWordsOfAll(s) ==
  (IF s.auth /\ s.twin # -1 THEN SaveOf(s, 1) ELSE <<>>) \o <<[op |-> "gone"]>>

\* map_quit: the later of two connections is not saved.
LastWords(s) ==
  IF ~s.auth THEN <<>>
  ELSE (IF s.twin # -1 THEN SaveOf(s, 1) ELSE <<>>) \o <<[op |-> "gone"]>>

\* History: an answer to the connection f comes too late.
NotTo(f, msg) == IF msg.op \in {"auth", "ok", "fail"} /\ msg.to = f THEN [msg EXCEPT !.to = 0] ELSE msg
NoneTo(f, queue) == [i \in DOMAIN queue |-> NotTo(f, queue[i])]

\* clif_disconnect, for the one who left, the one who timed out before being
\* accepted, and the one under a number for which a timer was started.
Close(m, f) ==
  LET s == sess[m][f] IN
    /\ s # NoSession
    /\ ~Attended(m, f) \/ ~s.auth \/ f \in doomed[m]
    /\ Len(up[m]) < LinkCap
    /\ up' = [up EXCEPT ![m] = NoneTo(f, @) \o LastWords(s)]
    /\ down' = [down EXCEPT ![m] = NoneTo(f, @)]
    /\ idb' = [idb EXCEPT ![m] = IF @ = f \/ (s.auth /\ s.twin # -1) THEN 0 ELSE @]
    /\ sess' = [sess EXCEPT ![m][f] = NoSession]
    /\ doomed' \in {doomed, [doomed EXCEPT ![m] = @ \ {f}]}
    /\ SendClient(m, f, [k \in Clients |-> Outside])
    /\ UNCHANGED <<logins, chars, latest, abandoned, drops>>

\* clif_waitclose when the connection is gone already.
TimerSpent(m) ==
  /\ \E f \in doomed[m] \ Here(m) : doomed' = [doomed EXCEPT ![m] = @ \ {f}]
  /\ UNCHANGED <<client, logins, chars, up, down, sess, idb, latest, abandoned, drops>>

GiveUp(k) ==
  /\ client[k].at # "out"
  /\ client' = [client EXCEPT ![k] = Outside]
  /\ UNCHANGED <<logins, chars, up, down, maps>>

\* chrif_disconnect and parse_map_disconnect: what was not stored is lost, and
\* players are disconnected, but not those who are waiting.  The link is
\* there again at once.
LinkBreaks(m) ==
  /\ drops < MaxDrops
  /\ drops' = drops + 1
  /\ up' = [up EXCEPT ![m] = <<>>] /\ down' = [down EXCEPT ![m] = <<>>]
  /\ sess' = [sess EXCEPT ![m] = [f \in Fds |-> IF f \in Playing(m) THEN NoSession ELSE @[f]]]
  /\ idb' = [idb EXCEPT ![m] = IF @ \in Playing(m) THEN 0 ELSE @]
  /\ client' = [k \in Clients |-> IF client[k].at = "map" /\ client[k].map = m /\ client[k].fd \in Playing(m)
                                  THEN Outside ELSE client[k]]
  /\ online' = IF online = m THEN None ELSE online
  /\ LET lost == {sess[m][f].char : f \in Playing(m)} \cup
                 {up[m][i].char : i \in {j \in DOMAIN up[m] : up[m][j].op = "save"}}
     IN  latest' = [c \in Chars |-> IF c \in lost THEN stored[c] ELSE latest[c]]
  /\ UNCHANGED <<logins, seat, auth, where, stored, mixed, crossed, doomed, abandoned>>

=============================================================================
