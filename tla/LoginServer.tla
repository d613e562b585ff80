---------------------------- MODULE LoginServer ----------------------------
(***************************************************************************)
(* Logging in to one account, src/src/login/login.c, and the game clients  *)
(* that do.  Passwords, bans and the list of char servers are left out; so *)
(* are the other accounts, except that their entries push ours out of the  *)
(* rings of 256 authentications (Forget).  detect_multiple_login is on, as *)
(* it is by default.                                                       *)
(***************************************************************************)
EXTENDS Integers, Sequences, FiniteSets, FiniteSetsExt, SequencesExt

CONSTANTS
  Clients,   \* game clients used with the account
  Chars,     \* its characters
  Maps,      \* map servers
  None,      \* no map server, no character
  MaxLogins, \* bound: logins that succeed
  LinkCap    \* bound: messages between servers when somebody acts

ASSUME ClientAssumption == None \notin Chars \cup Maps
ASSUME LoginAssumption  == MaxLogins \in Nat /\ LinkCap \in Nat

VARIABLES
  client,  \* what each client is connected to and where it is to go next
  lastId,  \* login_id1 is random; here logins are numbered
  tickets, \* auth_fifo: login_id1 of unused entries
  toLogin, \* char server to login server: 0x2712
  toChar   \* login server to char server: 0x2730 (kick), 0x2713 (answer)

logins == <<lastId, tickets, toLogin, toChar>>

Ids   == 0..MaxLogins
Place == {"out", "ticket", "char", "go", "map"}
Outside == [at |-> "out", id |-> 0, fd |-> 0, map |-> None, char |-> None]

TypeOKLogin ==
  /\ lastId \in Ids /\ tickets \subseteq 1..MaxLogins
  /\ toLogin \in Seq(Ids)
  /\ toChar \in Seq([op : {"kick", "answer"}, id : Ids, ok : BOOLEAN])

InitLogin ==
  /\ client = [k \in Clients |-> Outside]
  /\ lastId = 0 /\ tickets = {}
  /\ toLogin = <<>> /\ toChar = <<>>

-----------------------------------------------------------------------------

\* login_authok: the char server is told to end what the account is doing;
\* the login succeeds unless an earlier one was never made use of.
Login(k) ==
  /\ client[k].at = "out"
  /\ lastId < MaxLogins
  /\ Len(toChar) < LinkCap
  /\ toChar' = Append(toChar, [op |-> "kick", id |-> 0, ok |-> FALSE])
  /\ \/ /\ tickets # {}
        /\ tickets' = {}
        /\ UNCHANGED <<client, lastId>>
     \/ /\ tickets = {}
        /\ tickets' = {lastId + 1}
        /\ lastId' = lastId + 1
        /\ client' = [client EXCEPT ![k].at = "ticket", ![k].id = lastId + 1]
  /\ UNCHANGED toLogin

\* parse_fromchar, 0x2712: an entry serves once.
LoginReceives ==
  /\ toLogin # <<>>
  /\ LET id == Head(toLogin) IN
       /\ tickets' = tickets \ {id}
       /\ toChar' = Append(toChar, [op |-> "answer", id |-> id, ok |-> id \in tickets])
  /\ toLogin' = Tail(toLogin)
  /\ UNCHANGED <<client, lastId>>

\* The ring of the login server has turned.
ForgetTicket ==
  /\ tickets # {}
  /\ tickets' = {}
  /\ UNCHANGED <<client, lastId, toLogin, toChar>>

=============================================================================
