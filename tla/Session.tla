------------------------------ MODULE Session ------------------------------
(***************************************************************************)
(* One account on its way through the login server, the char server and    *)
(* the map servers: in, from map server to map server, back to character   *)
(* selection, out, and in again from another client before the first is    *)
(* gone.                                                                   *)
(***************************************************************************)
EXTENDS MapServer

vars == <<client, lastId, tickets, toLogin, toChar, seat, auth, online, where, stored, mixed,
          crossed, up, down, sess, idb, doomed, latest, abandoned, drops>>

Init == InitLogin /\ InitChar /\ InitMap

OnlyLogin == UNCHANGED <<chars, up, down, maps>>

LogIn   == (\E k \in Clients : Login(k)) /\ OnlyLogin
Forget  == (ForgetTicket /\ OnlyLogin) \/ (ForgetEntry /\ UNCHANGED maps)
MoveOn  == \E m \in Maps, f \in Fds : Restart(m, f) \/ MoveServer(m, f)
SaveOne == \E m \in Maps : Autosave(m)
StopIt  == \/ \E k \in Clients : GiveUp(k)
           \/ \E m \in Maps, f \in Fds : QuitGame(m, f)
Break   == \E m \in Maps : LinkBreaks(m)

Proceeds ==
  \/ LoginReceives /\ OnlyLogin
  \/ /\ \/ \E k \in Clients : CharConnect(k) \/ Select(k)
        \/ \E f \in Seats : CloseSeat(f)
        \/ CharReceivesLogin
        \/ \E m \in Maps : CharReceivesMap(m)
     /\ UNCHANGED maps
  \/ \E k \in Clients : MapConnect(k)
  \/ \E m \in Maps :
       \/ MapReceives(m) \/ TimerSpent(m)
       \/ \E f \in Fds : Play(m, f) \/ Close(m, f)

Next == Proceeds \/ LogIn \/ Forget \/ MoveOn \/ SaveOne \/ StopIt \/ Break

Spec == Init /\ [][Next]_vars

-----------------------------------------------------------------------------

\* The type invariant; clif_setwaitclose is called for connections only.
TypeOK == TypeOKLogin /\ TypeOKChar /\ TypeOKMap

Quiet(m) == up[m] = <<>> /\ down[m] = <<>>

\* An account is in the world at most once, over all map servers: the table
\* checked by 0x66, the entries cleared by 0x66 and 0x2730, waitingdisconnect
\* and the refusal of a second connection see to it together.  The exceptions
\* are what 0x2b18 and 0x2b05 do without a look at the table, and answers that
\* name only the account and are given to another of its connections.
OnePlayer ==
  ~mixed /\ ~crossed => \A m, n \in Maps : \A f \in Playing(m), g \in Playing(n) : m = n /\ f = g

\* Where the account plays is where char_online_db says it does, at any moment:
\* 0x2b18 comes from accepted connections only, and is ahead of what the next
\* connection asks.
OnlineNamesPlayer ==
  ~mixed /\ ~crossed => \A m \in Maps : Playing(m) # {} => online = m

\* Where char_online_db says the account plays, there is a connection of it:
\* otherwise 0x66 would refuse its other characters for good.  The exception
\* is an acceptance that found nobody to accept.
NoGhost ==
  ~abandoned => \A m \in Maps : Quiet(m) /\ online = m => Here(m) # {}

\* Whoever plays a character has everything that was done with it, on this
\* map server or another: the last save is ahead of the entry that lets the
\* player in elsewhere, and no save of an older session comes after it.
PlaysNewest ==
  ~mixed /\ ~crossed =>
    \A m \in Maps : \A f \in Playing(m) : sess[m][f].val = latest[sess[m][f].char]

=============================================================================
