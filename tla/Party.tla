------------------------------- MODULE Party -------------------------------
(***************************************************************************)
(* Parties: the lists of members on the char server                        *)
(* (src/src/char/int_party.c), the copies of them on the map server and    *)
(* what each session remembers (src/src/map/party.c).  A handler of the    *)
(* char server answers first to the player, then sends the whole list;     *)
(* anything may happen on the map server between the two.                  *)
(*                                                                         *)
(* Names, levels, the options for experience and items, messages and       *)
(* positions are left out.                                                 *)
(***************************************************************************)
EXTENDS Link

CONSTANTS
  PartySize,   \* MAX_PARTY
  MaxParties   \* bound: parties that are founded

ASSUME PartyAssumption == PartySize \in Nat \ {0} /\ MaxParties \in Nat

VARIABLES
  roll,     \* char server: the members of each party, by its id
  founded,  \* char server: party_newid
  copies,   \* map server: party_db
  sd,       \* map server: what each session knows of its party
  odd,      \* history: <<player, what happened to him>>
  skewed    \* history: parties whose copy may differ

parties == <<roll, founded, copies, sd, odd, skewed>>

Ids   == 1..MaxParties
Seats == 1..PartySize

\* struct party_member; here: sd is set, which only a map server does.
Row     == [who : Players \cup {None}, leader : BOOLEAN, on : BOOLEAN, here : BOOLEAN]
NoRow   == [who |-> None, leader |-> FALSE, on |-> FALSE, here |-> FALSE]
Absent  == <<>>
Nobody  == [i \in Seats |-> NoRow]
Lists   == [Seats -> Row] \cup {Absent}

\* window: the client shows an invitation that is not answered yet.
Session   == [party : {0} \cup Ids, creating : BOOLEAN, invite : {0} \cup Ids,
              window : BOOLEAN, sended : BOOLEAN]
NoSession == [party |-> 0, creating |-> FALSE, invite |-> 0, window |-> FALSE, sended |-> FALSE]

PartyOps     == {"create", "reqinfo", "add", "leave", "move", "lead"}
PartyAnswers == {"created", "info", "noinfo", "added", "left", "broken", "moved", "led"}
Reasons      == {"hurried", "gone", "early", "lost", "stale"}

PartyRequest == [op : PartyOps, by : Players, party : {0} \cup Ids, on : BOOLEAN]
PartyAnswer  == [op : PartyAnswers, by : Players \cup {None}, party : {0} \cup Ids, on : BOOLEAN,
                 old : Players \cup {None}, list : Lists]

TypeOKParty ==
  /\ roll \in [Ids -> Lists] /\ copies \in [Ids -> Lists]
  /\ founded \in 0..MaxParties
  /\ sd \in [Players -> Session]
  /\ odd \subseteq Players \X Reasons /\ skewed \subseteq Ids

InitParty ==
  /\ roll = [g \in Ids |-> Absent] /\ copies = [g \in Ids |-> Absent]
  /\ founded = 0
  /\ sd = [p \in Players |-> NoSession]
  /\ odd = {} /\ skewed = {}

\* The seats of p in a list; of None: the free ones.
SeatsOf(list, p) == {i \in DOMAIN list : list[i].who = p}
Listed(list, p)  == SeatsOf(list, p) # {}

Request(op, p, g, on) == [op |-> op, by |-> p, party |-> g, on |-> on]

Ordinary(p, why) == \A r \in why : <<p, r>> \notin odd

-----------------------------------------------------------------------------
(* What players do *)

\* History: p asks for a party when he has one, or may yet be given one.
Hurries(p) ==
  odd' = IF sd[p].party = 0 /\ Pending(p, {"create", "add", "created", "added"}) = {} THEN odd
         ELSE odd \cup {<<p, "hurried">>}

\* party_create.  Bound: one party for each player who founds any.
PartyCreate(p) ==
  /\ "found" \in can[p] /\ p \in online
  /\ sd[p].party = 0 /\ ~sd[p].creating
  /\ LinkHasRoom
  /\ founded + Cardinality(UNION {Pending(q, {"create"}) : q \in Players})
       < Cardinality({q \in Players : "found" \in can[q]})
  /\ sd' = [sd EXCEPT ![p].creating = TRUE]
  /\ Asks(Request("create", p, 0, TRUE))
  /\ Hurries(p)
  /\ UNCHANGED <<down, record, roll, founded, copies, skewed>>

\* The requester's own entry, if there is one, is a leader's.
MayLead(list, p) == \A i \in SeatsOf(list, p) : list[i].leader

\* party_invite.  Whether the invited player is creating a party is not
\* looked at.
PartyInvite(p) ==
  \E q \in Players \ away :
    LET list == copies[sd[p].party] IN
    /\ "party" \in can[p] /\ "party" \in can[q] /\ p \in online
    /\ sd[p].party # 0 /\ list # Absent
    /\ sd[q].party = 0 /\ sd[q].invite = 0
    /\ MayLead(list, p) /\ ~Listed(list, q) /\ Listed(list, None)
    /\ sd' = [sd EXCEPT ![q].invite = sd[p].party, ![q].window = TRUE]
    /\ UNCHANGED <<up, down, record, roll, founded, copies, odd, skewed>>

\* party_reply_invite: an invitation that is accepted stays until the answer
\* of the char server.
ReplyInvite(p) ==
  /\ p \in online /\ sd[p].window
  /\ \/ /\ sd[p].invite # 0 /\ LinkHasRoom
        /\ sd' = [sd EXCEPT ![p].window = FALSE]
        /\ Asks(Request("add", p, sd[p].invite, TRUE))
        /\ Hurries(p)
     \/ /\ sd' = [sd EXCEPT ![p].window = FALSE, ![p].invite = 0]
        /\ UNCHANGED <<up, odd>>
  /\ UNCHANGED <<down, record, roll, founded, copies, skewed>>

\* party_leave, party_removemember
PartyLeave(p) ==
  \E q \in Players :
    LET list == copies[sd[p].party] IN
    /\ "party" \in can[p] /\ p \in online /\ LinkHasRoom
    /\ sd[p].party # 0 /\ list # Absent
    /\ Listed(list, q)
    /\ q = p \/ MayLead(list, p)
    /\ Asks(Request("leave", q, sd[p].party, TRUE))
    /\ UNCHANGED <<down, record, parties>>

\* party_changeleader
ChangeLeader(p) ==
  \E q \in Players \ away :
    LET list == copies[sd[p].party] IN
    /\ "lead" \in can[p] /\ p \in online /\ LinkHasRoom
    /\ sd[p].party # 0 /\ list # Absent
    /\ \E i \in SeatsOf(list, p) : list[i].here /\ list[i].leader
    /\ sd[q].party = sd[p].party
    /\ \E i \in SeatsOf(list, q) : list[i].here
    /\ Asks(Request("lead", q, sd[p].party, TRUE))
    /\ UNCHANGED <<down, record, parties>>

-----------------------------------------------------------------------------
(* Coming and going *)

\* Mutant: nobody is checked.
UncheckedMembers(s, g, list) == {}

\* Mutant: members are looked for among those that are seated already.
UnseatedMembers(s, g, list) ==
  {q \in Players \ away : s[q].party = g /\ \A i \in SeatsOf(list, q) : ~list[i].here}

\* party_check_member: the sessions that believe in a party that does not
\* list them.
NotMembers(s, g, list) ==
  {q \in Players \ away : s[q].party = g /\ ~Listed(list, q)}

Expelled(s, qs) == [q \in Players |-> IF q \in qs THEN [s[q] EXCEPT !.party = 0] ELSE s[q]]

\* unit_remove_map: an invitation is refused.
Uninvited(p) == [sd EXCEPT ![p].invite = 0, ![p].window = FALSE]

\* party_send_logout
LogoutNotice(p) == IF sd[p].party = 0 THEN <<>> ELSE <<Request("move", p, sd[p].party, FALSE)>>

\* Mutant: the copies go on referring to a session that has ended.
RememberedStill(c, ps) == c

\* The entries that refer to the sessions of the players in ps.
Forgotten(c, ps) ==
  [g \in DOMAIN c |-> [i \in DOMAIN c[g] |->
     LET row == c[g][i] IN
     IF row.who \in ps /\ sd[row.who].party = g THEN [row EXCEPT !.here = FALSE] ELSE row]]

\* pc_authok: the party of the stored character; its list is asked for when
\* the map server does not have it.
PartyLogIn(p, g) ==
  /\ sd' = [sd EXCEPT ![p] = [NoSession EXCEPT !.party = g]]
  /\ IF g # 0 /\ copies[g] = Absent THEN Asks(Request("reqinfo", p, g, TRUE)) ELSE UNCHANGED up
  /\ UNCHANGED <<roll, founded, copies, odd, skewed>>

\* party_send_movemap: who arrives with a party he was not told of has the
\* members of it checked.  History: a member is taken for none because the
\* list with him is still under way, or was lost.
PartyArrive(p) ==
  LET g     == sd[p].party
      known == copies[g] # Absent /\ ~sd[p].sended
      not   == IF known THEN NotMembers(sd, g, copies[g]) ELSE {}
      early == {q \in not :
                  g \in skewed \/ \E m \in Range(down) : m.op = "info" /\ m.party = g}
  IN  \/ g = 0 /\ UNCHANGED <<up, parties>>
      \/ /\ g # 0 /\ LinkHasRoom
         /\ Asks(Request("move", p, g, TRUE))
         /\ sd' = IF known /\ p \notin not THEN [Expelled(sd, not) EXCEPT ![p].sended = TRUE]
                                           ELSE Expelled(sd, not)
         /\ odd' = odd \cup {<<q, "early">> : q \in early}
         /\ UNCHANGED <<roll, founded, copies, skewed>>

\* chrif_disconnect: the sessions end; the copies stay.  History: who loses
\* a message with the link, or has another party than was stored of him.
PartyBreak ==
  LET msgs == {m \in Range(up) : m.op \in PartyOps} \cup {m \in Range(down) : m.op \in PartyAnswers}
  IN  /\ sd' = [p \in Players |-> NoSession]
      /\ copies' = Forgotten(copies, Players)
      /\ odd' = odd \cup {<<p, "lost">> : p \in {m.by : m \in msgs} \ {None}}
                    \cup {<<p, "lost">> : p \in {q \in Players : record[q].party # sd[q].party}}
      /\ skewed' = skewed \cup ({m.party : m \in msgs} \ {0})
      /\ UNCHANGED <<roll, founded>>

-----------------------------------------------------------------------------
(* The char server *)

Answer(op, p, g) == [op |-> op, by |-> p, party |-> g, on |-> TRUE, old |-> None, list |-> Absent]
Info(g, list)    == [Answer("info", None, g) EXCEPT !.list = list]
Member(p, lead)  == [who |-> p, leader |-> lead, on |-> TRUE, here |-> FALSE]

\* mapif_parse_CreateParty: the name may be another party's.
CharCreate(m) ==
  /\ m.op = "create"
  /\ \/ LET g    == founded + 1
            list == [Nobody EXCEPT ![1] = Member(m.by, TRUE)]
        IN  /\ g \in Ids
            /\ founded' = g
            /\ roll' = [roll EXCEPT ![g] = list]
            /\ Answers(<<Answer("created", m.by, g), Info(g, list)>>)
     \/ /\ \E g \in Ids : roll[g] # Absent
        /\ Answers(<<Answer("created", m.by, 0)>>)
        /\ UNCHANGED <<roll, founded>>
  /\ UNCHANGED record

\* mapif_parse_PartyInfo
CharInfo(m) ==
  /\ m.op = "reqinfo"
  /\ Answers(IF roll[m.party] # Absent THEN <<Info(m.party, roll[m.party])>>
             ELSE <<Answer("noinfo", None, m.party)>>)
  /\ UNCHANGED <<record, roll, founded>>

\* Where p is entered: the first free seat, unless his own comes before it.
SeatFor(list, p) ==
  LET seats == SeatsOf(list, p) \cup SeatsOf(list, None) IN
  IF seats = {} THEN {} ELSE {Min(seats)} \ SeatsOf(list, p)

\* mapif_parse_PartyAddMember
CharAdd(m) ==
  LET g == m.party IN
  /\ m.op = "add"
  /\ \/ /\ SeatFor(roll[g], m.by) = {}
        /\ Answers(<<[Answer("added", m.by, g) EXCEPT !.on = FALSE]>>)
        /\ UNCHANGED roll
     \/ \E i \in SeatFor(roll[g], m.by) :
          LET list == [roll[g] EXCEPT ![i] = Member(m.by, FALSE)] IN
          /\ roll' = [roll EXCEPT ![g] = list]
          /\ Answers(<<Answer("added", m.by, g), Info(g, list)>>)
  /\ UNCHANGED <<record, founded>>

\* mapif_parse_PartyLeave: the stored character loses its party too, and the
\* last member takes the party with him.
CharLeave(m) ==
  LET g    == m.party
      list == [roll[g] EXCEPT ![Min(SeatsOf(roll[g], m.by))] = NoRow]
  IN  /\ m.op = "leave"
      /\ \/ /\ ~Listed(roll[g], m.by)
            /\ UNCHANGED <<down, record, roll>>
         \/ /\ Listed(roll[g], m.by)
            /\ record' = [record EXCEPT ![m.by].party = 0]
            /\ IF list = Nobody
               THEN /\ roll' = [roll EXCEPT ![g] = Absent]
                    /\ Answers(<<Answer("left", m.by, g), Answer("broken", None, g)>>)
               ELSE /\ roll' = [roll EXCEPT ![g] = list]
                    /\ Answers(<<Answer("left", m.by, g), Info(g, list)>>)
      /\ UNCHANGED founded

\* mapif_parse_PartyChangeMap
CharMove(m) ==
  LET g == m.party IN
  /\ m.op = "move"
  /\ \/ /\ ~Listed(roll[g], m.by)
        /\ UNCHANGED <<down, roll>>
     \/ /\ Listed(roll[g], m.by)
        /\ roll' = [roll EXCEPT ![g][Min(SeatsOf(roll[g], m.by))].on = m.on]
        /\ Answers(<<[Answer("moved", m.by, g) EXCEPT !.on = m.on]>>)
  /\ UNCHANGED <<record, founded>>

\* Mutant: the old leader stays one.
LedTogether(list, p) == [i \in DOMAIN list |-> [list[i] EXCEPT !.leader = @ \/ list[i].who = p]]

Led(list, p) == [i \in DOMAIN list |-> [list[i] EXCEPT !.leader = (list[i].who = p)]]

\* Who leads a list; None, and with him the free seats, when nobody does.
LeaderOf(list) ==
  LET leaders == {i \in DOMAIN list : list[i].leader} IN
  IF leaders = {} THEN None ELSE list[Max(leaders)].who

\* History: the old leader and the new one are named to the map server by
\* their accounts, which it looks for in its list.
Misled(list, p) ==
  LET old == LeaderOf(list) IN
  \/ Cardinality(SeatsOf(list, p)) # 1
  \/ ~Listed(list, old)
  \/ old # None /\ Cardinality(SeatsOf(list, old)) # 1

\* mapif_parse_PartyLeaderChange: somebody who is not listed any more is made
\* leader by nobody being one.
CharLead(m) ==
  LET g == m.party IN
  /\ m.op = "lead"
  /\ \/ roll[g] = Absent /\ UNCHANGED <<down, roll>>
     \/ /\ roll[g] # Absent
        /\ roll' = [roll EXCEPT ![g] = Led(@, m.by)]
        /\ Answers(<<[Answer("led", m.by, g) EXCEPT !.old = LeaderOf(roll[g])]>>)
  /\ UNCHANGED <<record, founded>>

CharReceivesParty ==
  /\ up # <<>>
  /\ LET m == Head(up) IN
       CharCreate(m) \/ CharInfo(m) \/ CharAdd(m) \/ CharLeave(m) \/ CharMove(m) \/ CharLead(m)
  /\ up' = Tail(up)
  /\ UNCHANGED <<copies, sd, odd>>
  /\ skewed' = IF Head(up).op = "lead" /\ Misled(roll[Head(up).party], Head(up).by)
               THEN skewed \cup {Head(up).party} ELSE skewed

-----------------------------------------------------------------------------
(* The map server *)

\* Which sessions a list's entries get: accounts with a session in this party.
Seated(s, g, list) ==
  [i \in DOMAIN list |->
     LET q == list[i].who IN
     [list[i] EXCEPT !.here = q # None /\ q \notin away /\ s[q].party = g]]

\* party_created: the new party has no members before its list comes.
MapCreated(m) ==
  LET p == m.by
      g == m.party
  IN  /\ m.op = "created"
      /\ LET new == Found(p) /\ g # 0 /\ copies[g] = Absent IN
           /\ copies' = IF new THEN [copies EXCEPT ![g] = Nobody] ELSE copies
           /\ sd' = IF p \in away THEN sd
                    ELSE [sd EXCEPT ![p].creating = FALSE, ![p].party = IF new THEN g ELSE @]
      /\ odd' = IF p \in away /\ g # 0 THEN odd \cup {<<p, "gone">>} ELSE odd
      /\ UNCHANGED up

\* party_recv_info: the first list of a party has its members checked.
MapInfo(m) ==
  LET g    == m.party
      s    == IF copies[g] = Absent THEN Expelled(sd, NotMembers(sd, g, m.list)) ELSE sd
      list == Seated(s, g, m.list)
  IN  /\ m.op = "info"
      /\ copies' = [copies EXCEPT ![g] = list]
      /\ sd' = [q \in Players |-> IF \E i \in SeatsOf(list, q) : list[i].here
                                  THEN [s[q] EXCEPT !.sended = TRUE] ELSE s[q]]
      /\ UNCHANGED <<up, odd>>

\* party_recv_noinfo
MapNoInfo(m) ==
  /\ m.op = "noinfo"
  /\ sd' = Expelled(sd, {q \in Players \ away : sd[q].party = m.party})
  /\ UNCHANGED <<up, copies, odd>>

\* A member who is gone when he is added leaves again.
AddedInVain(m) == IF m.on THEN Asks(Request("leave", m.by, m.party, TRUE)) ELSE UNCHANGED up

\* Mutant: who is refused keeps his invitation.
JoinedOnly(s, m) ==
  IF m.on THEN [s EXCEPT !.invite = 0, !.party = m.party, !.sended = FALSE] ELSE s

Joined(s, m) ==
  IF m.on THEN [s EXCEPT !.invite = 0, !.party = m.party, !.sended = FALSE]
          ELSE [s EXCEPT !.invite = 0]

\* party_member_added: nothing at all for a party that is gone.  A session that
\* is connecting takes the place of one that has left, and forgets the party.
MapAdded(m) ==
  /\ m.op = "added"
  /\ \/ /\ copies[m.party] = Absent
        /\ UNCHANGED <<up, sd, odd>>
     \/ /\ copies[m.party] # Absent /\ ~Found(m.by)
        /\ AddedInVain(m)
        /\ UNCHANGED <<sd, odd>>
     \/ /\ copies[m.party] # Absent /\ m.by \in away /\ Connecting(m.by)
        /\ odd' = IF m.on THEN odd \cup {<<m.by, "gone">>} ELSE odd
        /\ UNCHANGED <<up, sd>>
     \/ /\ copies[m.party] # Absent /\ m.by \notin away
        /\ sd' = [sd EXCEPT ![m.by] = Joined(@, m)]
        /\ UNCHANGED <<up, odd>>
  /\ UNCHANGED copies

\* party_member_leaved
MapLeft(m) ==
  /\ m.op = "left"
  /\ copies' = [copies EXCEPT ![m.party] =
       [i \in DOMAIN @ |-> IF @[i].who = m.by THEN [@[i] EXCEPT !.who = None, !.here = FALSE]
                                              ELSE @[i]]]
  /\ sd' = IF m.by \notin away /\ sd[m.by].party = m.party
           THEN [sd EXCEPT ![m.by].party = 0, ![m.by].sended = FALSE] ELSE sd
  /\ UNCHANGED <<up, odd>>

\* party_broken tells the members that are seated.  History: who has logged in
\* with this party and is not seated in it yet.
MapBroken(m) ==
  /\ m.op = "broken"
  /\ odd' = odd \cup {<<q, "stale">> : q \in NotMembers(sd, m.party, copies[m.party])}
  /\ sd' = [q \in Players |-> IF \E i \in SeatsOf(copies[m.party], q) : copies[m.party][i].here
                              THEN [sd[q] EXCEPT !.party = 0, !.sended = FALSE] ELSE sd[q]]
  /\ copies' = [copies EXCEPT ![m.party] = Absent]
  /\ UNCHANGED up

\* party_recv_movemap
MapMoved(m) ==
  LET list == copies[m.party] IN
  /\ m.op = "moved"
  /\ IF Listed(list, m.by)
     THEN copies' = [copies EXCEPT ![m.party] =
            Seated(sd, m.party, [list EXCEPT ![Min(SeatsOf(list, m.by))].on = m.on])]
     ELSE UNCHANGED copies
  /\ UNCHANGED <<up, sd, odd>>

\* party_leaderchanged; a party without a leader has number 0 for one, which
\* is the account of its free seats.
MapLed(m) ==
  LET list == copies[m.party]
      i    == Min(SeatsOf(list, m.old))
      j    == Min(SeatsOf(list, m.by))
  IN  /\ m.op = "led"
      /\ copies' = IF Listed(list, m.old) /\ Listed(list, m.by)
                   THEN [copies EXCEPT ![m.party] =
                           [[@ EXCEPT ![i].leader = FALSE] EXCEPT ![j].leader = TRUE]]
                   ELSE copies
      /\ UNCHANGED <<up, sd, odd>>

MapReceivesParty ==
  /\ down # <<>>
  /\ LET m == Head(down) IN
       MapCreated(m) \/ MapInfo(m) \/ MapNoInfo(m) \/ MapAdded(m) \/ MapLeft(m)
         \/ MapBroken(m) \/ MapMoved(m) \/ MapLed(m)
  /\ down' = Tail(down)
  /\ UNCHANGED <<record, roll, founded, skewed>>

-----------------------------------------------------------------------------
(* Properties *)

\* No message about parties is under way.
PartyQuiet == \A m \in Range(up \o down) : m.op \notin PartyOps \cup PartyAnswers

\* A player has at most one seat in all parties together, although it is the
\* session that knows of his party and the char server that lists him.
\* Excepted: who asks for a second party before the first answer (nothing in
\* party_create, party_invite and party_reply_invite looks for a request
\* under way), and who is not told of the party that lists him, for one of the
\* reasons named with KnowsParty.
OneParty ==
  \A p \in Players : Ordinary(p, Reasons) =>
    Cardinality({s \in Ids \X Seats : roll[s[1]] # Absent /\ roll[s[1]][s[2]].who = p}) <= 1

\* When no message is under way a player on a map knows the party that lists
\* him, and no other: joining, leaving, being expelled, parties that end, and
\* leaving the game in the middle of each are all told him, or found out when
\* he comes back.  Excepted are who asks for a second party before the first
\* answer ("hurried"); who is gone, or about to be logged in, when the answer
\* comes ("gone"); a member who is checked between the answer to him and the
\* list that names him ("early"); whose messages or latest party a broken link
\* loses ("lost"); and one who left a party, was saved with it when he quit,
\* and has logged in again but not arrived when it ends ("stale").
KnowsParty ==
  PartyQuiet => \A p \in online, g \in Ids \ skewed :
    Ordinary(p, Reasons) => (Listed(roll[g], p) <=> sd[p].party = g)

\* When no message is under way the map server's copy of a party is the list
\* of the char server: members, leader and who is online.  Excepted are
\* parties whose messages were lost, and those whose change of leader names,
\* as the old leader or as the new, somebody who has no seat or two.
CopiesAgree ==
  PartyQuiet => \A g \in Ids \ skewed : copies[g] # Absent =>
    [i \in DOMAIN copies[g] |-> [copies[g][i] EXCEPT !.here = FALSE]] = roll[g]

\* A copy refers to sessions that are there and in this party: what is sent to
\* a party goes to member[].sd without another look.
NoDangling ==
  \A g \in Ids : \A i \in DOMAIN copies[g] :
    LET row == copies[g][i] IN
    row.here /\ Ordinary(row.who, {"hurried"}) => row.who \notin away /\ sd[row.who].party = g

\* Who waits for an answer gets one: when no message is under way nobody is
\* creating a party, and an accepted invitation is gone, unless its party is.
RequestsEnd ==
  PartyQuiet => \A p \in online :
    /\ ~sd[p].creating
    /\ sd[p].invite # 0 => sd[p].window \/ copies[sd[p].invite] = Absent

=============================================================================
