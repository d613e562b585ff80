---------------------------- MODULE GuildStorage ----------------------------
(***************************************************************************)
(* The guild storage of one guild, shared by the members that play on      *)
(* several map servers.  The char server keeps the stored copy together    *)
(* with a lock (src/src/char/int_storage.c); every map server keeps a      *)
(* cache of the whole storage (src/src/map/storage.c) which its players    *)
(* edit while they hold the lock.  A map server and the char server talk   *)
(* over one TCP connection, a pair of FIFO channels that loses everything  *)
(* in flight when it drops (src/src/map/intif.c, src/src/map/chrif.c).     *)
(*                                                                         *)
(* Item slots are abstracted to the set of items the storage holds; the    *)
(* cards, the sort order and the packets to the game client are left out.  *)
(* 0x3819 and 0x381b, which the map server only logs, are left out too.    *)
(* The guild has other members, who do not play: it is never broken up.    *)
(***************************************************************************)
EXTENDS Integers, Sequences, FiniteSets

CONSTANTS
  Maps,      \* map servers
  Players,   \* accounts, each with one character of the guild
  Items,     \* what may lie in the storage
  Fds,       \* socket numbers the char server may give to a map server
  Barred,    \* game masters below gm_can_drop_lv: they may not open it
  Off,       \* "this account has no session"
  LinkCap,   \* bound: messages a link may hold when a player adds one
  MaxDrops   \* bound: connection losses and char server restarts

ASSUME MapsAssumption    == Off \notin Maps
ASSUME FdsAssumption     == Fds \subseteq Nat
ASSUME PlayersAssumption == Barred \subseteq Players
ASSUME NamesAssumption   == {"nobody", "gone"} \cap Players = {}
ASSUME BoundsAssumption  == LinkCap \in Nat /\ MaxDrops \in Nat

VARIABLES
  gs,        \* char server: the stored guild_storage, its lock included
  link,      \* socket of each map server's connection, NoFd when down
  up,        \* messages from each map server to the char server
  down,      \* messages from the char server to each map server
  known,     \* map servers that have the guild in guild_db
  cached,    \* map servers that have the storage in guild_storage_db
  cache,     \* their cached guild_storage
  sd,        \* map_session_data of each account
  enrolled,  \* the guild's members according to the char server
  drops      \* connection losses so far

vars == <<gs, link, up, down, known, cached, cache, sd, enrolled, drops>>

-----------------------------------------------------------------------------
(* Data *)

NoFd == -1

GStorage == [items : SUBSET Items, status : 0..1,
             lastFd : Fds \cup {NoFd}, dirty : BOOLEAN]

EmptyStorage == [items |-> {}, status |-> 0, lastFd |-> NoFd, dirty |-> FALSE]

\* guild: status.guild_id is this guild; flag: storage_flag is 2;
\* lockreq: gstorage_lockreq (1 script, 2 command); menu: menu_or_input, "cut"
\* when the NPC timeout ended the dialog; npcMenu: npc_menu.
Session == [at : Maps \cup {Off}, waiting : BOOLEAN, guild : BOOLEAN,
            flag : BOOLEAN, lockreq : 0..2,
            menu : {"none", "asked", "cut"}, npcMenu : 0..2]

NoSession == [at |-> Off, waiting |-> FALSE, guild |-> FALSE, flag |-> FALSE,
              lockreq |-> 0, menu |-> "none", npcMenu |-> 0]

UpMessage ==
  [type : {"trylock", "load"}, who : Players]
    \cup [type : {"unlock", "deadlock", "info"}]
    \cup [type : {"save"}, storage : GStorage]

DownMessage ==
  [type : {"ack"}, who : Players, flag : 0..2]
    \cup [type : {"load"}, who : Players, storage : GStorage]
    \cup [type : {"leaved"}, who : Players]
    \cup [type : {"checklock", "info"}]

Trylock(p)   == [type |-> "trylock", who |-> p]
LoadReq(p)   == [type |-> "load", who |-> p]
Save(s)      == [type |-> "save", storage |-> s]
Unlock       == [type |-> "unlock"]
Deadlock     == [type |-> "deadlock"]
Ack(p, f)    == [type |-> "ack", who |-> p, flag |-> f]
LoadReply(p) == [type |-> "load", who |-> p, storage |-> gs]
Leaved(p)    == [type |-> "leaved", who |-> p]
Checklock    == [type |-> "checklock"]
GuildInfo    == [type |-> "info"]  \* upwards the request, downwards the data

Connected == {m \in Maps : link[m] # NoFd}

\* A session that still takes its client's packets.
Playing(p) == sd[p].at # Off /\ ~sd[p].waiting

SendUp(m, msg) == up' = [up EXCEPT ![m] = Append(@, msg)]

TypeOK ==
  /\ gs \in GStorage
  /\ link \in [Maps -> Fds \cup {NoFd}]
  /\ up \in [Maps -> Seq(UpMessage)]
  /\ down \in [Maps -> Seq(DownMessage)]
  /\ known \subseteq Maps
  /\ cached \subseteq Maps
  /\ cache \in [Maps -> GStorage]
  /\ sd \in [Players -> Session]
  /\ enrolled \subseteq Players
  /\ drops \in Nat

Init ==
  /\ gs = EmptyStorage
  /\ link \in [Maps -> Fds]
  /\ \A m, n \in Maps : link[m] = link[n] => m = n
  /\ up = [m \in Maps |-> <<>>]
  /\ down = [m \in Maps |-> <<>>]
  /\ known = {}
  /\ cached = {}
  /\ cache = [m \in Maps |-> EmptyStorage]
  /\ sd = [p \in Players |-> NoSession]
  /\ enrolled = Players
  /\ drops = 0

-----------------------------------------------------------------------------
(* Char server: int_storage.c *)

\* Mutant: a held lock is granted again.
ReceiveTrylockRegrants(m) ==
  LET flag == IF gs.lastFd = link[m] THEN 1 ELSE 2 IN
  /\ Head(up[m]).type = "trylock"
  /\ gs' = [gs EXCEPT !.status = 1, !.lastFd = link[m]]
  /\ down' = [down EXCEPT ![m] = Append(@, Ack(Head(up[m]).who, flag))]

\* Mutant: the answer never asks for a reload.
ReceiveTrylockNoReload(m) ==
  /\ Head(up[m]).type = "trylock"
  /\ gs' = IF gs.status = 0 THEN [gs EXCEPT !.status = 1, !.lastFd = link[m]] ELSE gs
  /\ down' = [down EXCEPT ![m] = Append(@, Ack(Head(up[m]).who, 1 - gs.status))]

\* The storage is granted when it is free; the flag tells the map server to
\* reload it (2) unless the last grant went to the same socket (1).
ReceiveTrylock(m) ==
  LET p == Head(up[m]).who
      flag == IF gs.lastFd = link[m] THEN 1 ELSE 2
  IN  /\ Head(up[m]).type = "trylock"
      /\ \/ /\ gs.status = 0
            /\ gs' = [gs EXCEPT !.status = 1, !.lastFd = link[m]]
            /\ down' = [down EXCEPT ![m] = Append(@, Ack(p, flag))]
         \/ /\ gs.status # 0
            /\ down' = [down EXCEPT ![m] = Append(@, Ack(p, 0))]
            /\ UNCHANGED gs

\* Mutant: the lock counts its holders.
ReceiveUnlockCounts(m) ==
  /\ Head(up[m]).type \in {"unlock", "deadlock"}
  /\ gs' = [gs EXCEPT !.status = @ - 1]
  /\ UNCHANGED down

\* A deadlock release is a plain unlock.
ReceiveUnlock(m) ==
  /\ Head(up[m]).type \in {"unlock", "deadlock"}
  /\ gs' = [gs EXCEPT !.status = 0]
  /\ UNCHANGED down

ReceiveLoad(m) ==
  /\ Head(up[m]).type = "load"
  /\ down' = [down EXCEPT ![m] = Append(@, LoadReply(Head(up[m]).who))]
  /\ UNCHANGED gs

\* The whole structure is stored, its lock and last_fd included.
ReceiveSave(m) ==
  /\ Head(up[m]).type = "save"
  /\ gs' = Head(up[m]).storage
  /\ UNCHANGED down

ReceiveInfoRequest(m) ==
  /\ Head(up[m]).type = "info"
  /\ down' = [down EXCEPT ![m] = Append(@, GuildInfo)]
  /\ UNCHANGED gs

CharReceive(m) ==
  /\ up[m] # <<>>
  /\ \/ ReceiveTrylock(m)
     \/ ReceiveUnlock(m)
     \/ ReceiveLoad(m)
     \/ ReceiveSave(m)
     \/ ReceiveInfoRequest(m)
  /\ up' = [up EXCEPT ![m] = Tail(@)]
  /\ UNCHANGED <<link, known, cached, cache, sd, enrolled, drops>>

\* The hourly timer asks every map server whether a held lock is in use.  Bound:
\* a question is answered before the next one is asked, an hour later.
DeadlockTimer ==
  /\ gs.status = 1
  /\ gs.lastFd # NoFd
  /\ Connected # {}
  /\ \A m \in Maps : /\ \A i \in DOMAIN down[m] : down[m][i] # Checklock
                     /\ \A i \in DOMAIN up[m] : up[m][i] # Deadlock
  /\ down' = [m \in Maps |-> IF m \in Connected THEN Append(down[m], Checklock)
                                                ELSE down[m]]
  /\ UNCHANGED <<gs, link, up, known, cached, cache, sd, enrolled, drops>>

\* A member leaves or is expelled: the inter server tells every map server, and
\* sends them the guild's data without him.
GuildLeave(p) ==
  /\ p \in enrolled
  /\ enrolled' = enrolled \ {p}
  /\ down' = [m \in Maps |->
                IF m \in Connected THEN Append(Append(down[m], Leaved(p)), GuildInfo)
                                   ELSE down[m]]
  /\ UNCHANGED <<gs, link, up, known, cached, cache, sd, drops>>

-----------------------------------------------------------------------------
(* Map server: opening and closing, storage.c *)

\* storage_guild_storageopen with the cache that is left in `kept`.
StorageOpen(p, m, session, kept) ==
  /\ cached' = kept
  /\ \/ /\ ~session.guild \/ session.flag \/ p \in Barred
        /\ sd' = [sd EXCEPT ![p] = session]
        /\ cache' = IF m \in kept THEN cache ELSE [cache EXCEPT ![m] = EmptyStorage]
        /\ UNCHANGED up
     \/ /\ session.guild /\ ~session.flag /\ p \notin Barred
        /\ m \in kept
        /\ sd' = [sd EXCEPT ![p] = [session EXCEPT !.flag = TRUE]]
        /\ cache' = [cache EXCEPT ![m].status = 1]
        /\ UNCHANGED up
     \/ /\ session.guild /\ ~session.flag /\ p \notin Barred
        /\ m \notin kept
        /\ sd' = [sd EXCEPT ![p] = session]
        /\ cache' = [cache EXCEPT ![m] = EmptyStorage]
        /\ SendUp(m, LoadReq(p))

\* storage_guild_storageclose finds the cache by the guild of the session.
Closable(p) == sd[p].flag /\ sd[p].guild /\ sd[p].at \in cached

\* Mutant: the save follows the unlock.
StorageCloseUnlocksFirst(m) ==
  /\ up' = [up EXCEPT ![m] =
              IF cache[m].dirty THEN Append(Append(@, Unlock), Save(cache[m]))
                                ELSE Append(@, Unlock)]
  /\ cache' = [cache EXCEPT ![m].status = 0, ![m].dirty = FALSE]

\* Mutant: closing does not save.
StorageCloseUnsaved(m) ==
  /\ up' = [up EXCEPT ![m] = Append(@, Unlock)]
  /\ cache' = [cache EXCEPT ![m].status = 0, ![m].dirty = FALSE]

\* storage_guild_storageclose: save when dirty, then unlock.
StorageClose(m) ==
  /\ up' = [up EXCEPT ![m] =
              Append(IF cache[m].dirty THEN Append(@, Save(cache[m])) ELSE @, Unlock)]
  /\ cache' = [cache EXCEPT ![m].status = 0, ![m].dirty = FALSE]

-----------------------------------------------------------------------------
(* Map server: requests of the players *)

\* Bound: a player's request or an autosave waits until its link has room.
Roomy(m) == Len(up[m]) + Len(down[m]) < LinkCap

RequestByCommand(p) ==
  LET m == sd[p].at IN
  /\ Playing(p) /\ Roomy(m)
  /\ sd[p].guild /\ sd[p].lockreq = 0
  /\ sd' = [sd EXCEPT ![p].lockreq = 2]
  /\ SendUp(m, Trylock(p))
  /\ UNCHANGED <<gs, link, down, known, cached, cache, enrolled, drops>>

\* buildin_guildopenstorage, first run of the line.
RequestByScript(p) ==
  LET m == sd[p].at IN
  /\ Playing(p) /\ Roomy(m)
  /\ sd[p].menu = "none"
  /\ sd[p].guild /\ sd[p].lockreq = 0
  /\ sd' = [sd EXCEPT ![p].lockreq = 1, ![p].menu = "asked"]
  /\ SendUp(m, Trylock(p))
  /\ UNCHANGED <<gs, link, down, known, cached, cache, enrolled, drops>>

\* buildin_guildopenstorage, the line run again: npc_menu holds the answer.
GuildOpenStorage(p, session) ==
  LET m == session.at
      after == [session EXCEPT !.menu = "none", !.npcMenu = 0]
  IN  \/ /\ session.npcMenu = 0
         /\ sd' = [sd EXCEPT ![p] = after]
         /\ UNCHANGED <<up, cached, cache>>
      \/ /\ session.npcMenu # 0
         /\ StorageOpen(p, m, after, IF session.npcMenu = 2 /\ session.guild
                                       THEN cached \ {m} ELSE cached)

\* npc_timeout_timer ends the dialog but, because of the pending lock request,
\* leaves menu_or_input set.
NpcTimeout(p) ==
  /\ Playing(p)
  /\ sd[p].menu = "asked"
  /\ sd' = [sd EXCEPT ![p].menu = "cut"]
  /\ UNCHANGED <<gs, link, up, down, known, cached, cache, enrolled, drops>>

\* Another dialog after the timeout: it either reaches guildopenstorage, which
\* believes it is being rerun, or ends without it (npc_event_dequeue).
NextDialog(p) ==
  /\ Playing(p)
  /\ sd[p].menu = "cut"
  /\ \/ GuildOpenStorage(p, sd[p])
     \/ /\ sd' = [sd EXCEPT ![p].menu = "none"]
        /\ UNCHANGED <<up, cached, cache>>
  /\ UNCHANGED <<gs, link, down, known, enrolled, drops>>

\* storage_guild_storageadd and its cart variant.
StorageAdd(p, i) ==
  LET m == sd[p].at IN
  /\ Playing(p) /\ sd[p].menu # "asked"
  /\ sd[p].flag /\ sd[p].guild
  /\ m \in cached /\ cache[m].status = 1
  /\ i \notin cache[m].items
  /\ cache' = [cache EXCEPT ![m].items = @ \cup {i}, ![m].dirty = TRUE]
  /\ UNCHANGED <<gs, link, up, down, known, cached, sd, enrolled, drops>>

\* storage_guild_storageget and its cart variant.
StorageGet(p, i) ==
  LET m == sd[p].at IN
  /\ Playing(p) /\ sd[p].menu # "asked"
  /\ sd[p].flag /\ sd[p].guild
  /\ m \in cached /\ cache[m].status = 1
  /\ i \in cache[m].items
  /\ cache' = [cache EXCEPT ![m].items = @ \ {i}, ![m].dirty = TRUE]
  /\ UNCHANGED <<gs, link, up, down, known, cached, sd, enrolled, drops>>

CloseKafra(p) ==
  /\ Playing(p)
  /\ Closable(p)
  /\ StorageClose(sd[p].at)
  /\ sd' = [sd EXCEPT ![p].flag = FALSE]
  /\ UNCHANGED <<gs, link, down, known, cached, enrolled, drops>>

\* pc_autosave_sub: storage_guild_storagesave.
Autosave(p) ==
  LET m == sd[p].at IN
  /\ Playing(p) /\ Roomy(m)
  /\ Closable(p) /\ cache[m].dirty
  /\ SendUp(m, Save(cache[m]))
  /\ cache' = [cache EXCEPT ![m].dirty = FALSE]
  /\ UNCHANGED <<gs, link, down, known, cached, sd, enrolled, drops>>

\* unit_free on the way to the character selection, to another map server or
\* out of the game: the storage is closed, the session waits to be deleted.
Depart(p) ==
  /\ Playing(p)
  /\ \/ /\ Closable(p)
        /\ StorageClose(sd[p].at)
        /\ sd' = [sd EXCEPT ![p].waiting = TRUE, ![p].flag = FALSE]
     \/ /\ ~Closable(p)
        /\ sd' = [sd EXCEPT ![p].waiting = TRUE]
        /\ UNCHANGED <<up, cache>>
  /\ UNCHANGED <<gs, link, down, known, cached, enrolled, drops>>

\* map_quit of a session whose unit is already gone.
Quit(p) ==
  /\ sd[p].waiting
  /\ sd' = [sd EXCEPT ![p] = NoSession]
  /\ UNCHANGED <<gs, link, up, down, known, cached, cache, enrolled, drops>>

\* pc_authok asks for the guild's data unless the server has it.  Bound: it waits
\* until the link has room.
Login(p, m) ==
  /\ sd[p].at = Off
  /\ m \in Connected
  /\ sd' = [sd EXCEPT ![p] = [NoSession EXCEPT !.at = m, !.guild = p \in enrolled]]
  /\ \/ /\ p \in enrolled /\ m \notin known
        /\ Roomy(m)
        /\ SendUp(m, GuildInfo)
     \/ /\ p \notin enrolled \/ m \in known
        /\ UNCHANGED up
  /\ UNCHANGED <<gs, link, down, known, cached, cache, enrolled, drops>>

-----------------------------------------------------------------------------
(* Map server: messages of the char server, intif.c *)

\* The account of a message has a session on this map server.
Here(p, m) == sd[p].at = m

ReceiveAck(m) ==
  LET p == Head(down[m]).who
      flag == Head(down[m]).flag
      done == [sd[p] EXCEPT !.lockreq = 0]
      answered == [done EXCEPT !.npcMenu = flag]
  IN  /\ Head(down[m]).type = "ack"
      \* the player or the membership is gone: give the lock back
      /\ \/ /\ ~(Here(p, m) /\ sd[p].guild)
            /\ SendUp(m, Unlock)
            /\ UNCHANGED <<cached, cache, sd>>
      \* npc_scriptcont continues the script if its dialog is still on
         \/ /\ Here(p, m) /\ sd[p].guild /\ sd[p].lockreq = 1
            /\ \/ sd[p].menu = "asked" /\ GuildOpenStorage(p, answered)
               \/ /\ sd[p].menu # "asked"
                  /\ sd' = [sd EXCEPT ![p] = answered]
                  /\ UNCHANGED <<up, cached, cache>>
         \/ /\ Here(p, m) /\ sd[p].guild /\ sd[p].lockreq = 2
            /\ \/ /\ flag = 0
                  /\ sd' = [sd EXCEPT ![p] = done]
                  /\ UNCHANGED <<up, cached, cache>>
               \/ /\ flag # 0
                  /\ StorageOpen(p, m, done, IF flag = 2 THEN cached \ {m} ELSE cached)
      \* a new session of the account did not ask: give the lock back
         \/ /\ Here(p, m) /\ sd[p].guild /\ sd[p].lockreq = 0
            /\ SendUp(m, Unlock)
            /\ UNCHANGED <<cached, cache, sd>>

\* storage_guild_storageload: the reply overwrites the cache.  Nothing happens if
\* the player has the storage open, or if guild2storage does not find the guild.
ReceiveLoadReply(m) ==
  LET p == Head(down[m]).who IN
  /\ Head(down[m]).type = "load"
  /\ \/ /\ ~(Here(p, m) /\ ~sd[p].waiting)
        /\ SendUp(m, Unlock)
        /\ UNCHANGED <<cached, cache, sd>>
     \/ /\ Here(p, m) /\ ~sd[p].waiting
        /\ sd[p].flag \/ m \notin known
        /\ UNCHANGED <<up, cached, cache, sd>>
     \/ /\ Here(p, m) /\ ~sd[p].waiting /\ ~sd[p].flag
        /\ m \in known
        /\ cached' = cached \cup {m}
        /\ cache' = [cache EXCEPT ![m] = [Head(down[m]).storage EXCEPT !.status = 1]]
        /\ sd' = [sd EXCEPT ![p].flag = TRUE]
        /\ UNCHANGED up

\* Mutant: the cached storage_status tells whether the lock is in use.
ReceiveChecklockByStatus(m) ==
  /\ Head(down[m]).type = "checklock"
  /\ \/ /\ cache[m].status = 1 \/ m \notin known
        /\ UNCHANGED <<up, cache>>
     \/ /\ cache[m].status # 1 /\ m \in known
        /\ SendUp(m, Deadlock)
        /\ UNCHANGED cache
  /\ UNCHANGED <<cached, sd>>

\* storage_guild_checklock: the lock is released if nobody of the guild has it open
\* on this server.  A server without the guild in guild_db does not answer.
ReceiveChecklock(m) ==
  LET inUse == \E p \in Players : Here(p, m) /\ Playing(p) /\ sd[p].guild /\ sd[p].flag IN
  /\ Head(down[m]).type = "checklock"
  /\ \/ /\ inUse \/ m \notin known
        /\ UNCHANGED <<up, cache>>
     \/ /\ ~inUse /\ m \in known
        /\ cache' = [cache EXCEPT ![m].status = 0]
        /\ SendUp(m, Deadlock)
  /\ UNCHANGED <<cached, sd>>

\* guild_member_leaved: an open storage is closed before the guild is left.
ReceiveLeaved(m) ==
  LET p == Head(down[m]).who
      gone == [sd[p] EXCEPT !.guild = FALSE]
  IN  /\ Head(down[m]).type = "leaved"
      /\ \/ /\ Here(p, m) /\ Closable(p)
            /\ StorageClose(m)
            /\ sd' = [sd EXCEPT ![p] = [gone EXCEPT !.flag = FALSE]]
         \/ /\ Here(p, m) /\ ~Closable(p)
            /\ sd' = [sd EXCEPT ![p] = gone]
            /\ UNCHANGED <<up, cache>>
         \/ /\ ~Here(p, m)
            /\ UNCHANGED <<up, cache, sd>>
      /\ UNCHANGED cached

\* guild_recv_info: the guild is in guild_db for good.  guild_check_member finds no
\* session to correct: the notice of who left comes before the data without him.
ReceiveInfo(m) ==
  /\ Head(down[m]).type = "info"
  /\ known' = known \cup {m}
  /\ UNCHANGED <<up, cached, cache, sd>>

MapReceive(m) ==
  /\ down[m] # <<>>
  /\ \/ ReceiveInfo(m)
     \/ /\ \/ ReceiveAck(m)
           \/ ReceiveLoadReply(m)
           \/ ReceiveChecklock(m)
           \/ ReceiveLeaved(m)
        /\ UNCHANGED known
  /\ down' = [down EXCEPT ![m] = Tail(@)]
  /\ UNCHANGED <<gs, link, enrolled, drops>>

-----------------------------------------------------------------------------
(* Connections *)

\* What the map servers of S do when they lose the char server: every player is
\* cut off, but for sessions that wait to be deleted anyway, and the caches are
\* dropped (chrif_disconnect, storage_clear_cache).  Nothing can be saved any
\* more, and what was in flight is lost.
CutOff(S) ==
  /\ link' = [m \in Maps |-> IF m \in S THEN NoFd ELSE link[m]]
  /\ up' = [m \in Maps |-> IF m \in S THEN <<>> ELSE up[m]]
  /\ down' = [m \in Maps |-> IF m \in S THEN <<>> ELSE down[m]]
  /\ cached' = cached \ S
  /\ cache' = [m \in Maps |-> IF m \in S THEN EmptyStorage ELSE cache[m]]
  /\ sd' = [p \in Players |-> IF sd[p].at \in S /\ Playing(p) THEN NoSession
                                                               ELSE sd[p]]

Drop(m) ==
  /\ m \in Connected
  /\ drops < MaxDrops
  /\ drops' = drops + 1
  /\ CutOff({m})
  /\ UNCHANGED <<gs, known, enrolled>>

\* An orderly restart of the char server: the items are on disk, the lock and
\* the last socket are not.
CharRestart ==
  /\ drops < MaxDrops
  /\ drops' = drops + 1
  /\ CutOff(Maps)
  /\ gs' = [EmptyStorage EXCEPT !.items = gs.items]
  /\ UNCHANGED <<known, enrolled>>

\* The char server accepts on any socket number that is free again.
Connect(m) ==
  /\ m \notin Connected
  /\ \E fd \in Fds : /\ \A n \in Maps : link[n] # fd
                     /\ link' = [link EXCEPT ![m] = fd]
  /\ UNCHANGED <<gs, up, down, known, cached, cache, sd, enrolled, drops>>

-----------------------------------------------------------------------------
(* Specifications *)

\* A player with a request or a load on its way.
Settled(p) ==
  /\ sd[p].lockreq = 0
  /\ \A m \in Maps :
       /\ \A i \in DOMAIN up[m] : up[m][i] # LoadReq(p)
       /\ \A i \in DOMAIN down[m] :
            ~(down[m][i].type = "load" /\ down[m][i].who = p)

\* Steps of every environment.
CommonNext ==
  \/ \E m \in Maps : CharReceive(m) \/ MapReceive(m) \/ Drop(m) \/ Connect(m)
  \/ CharRestart
  \/ \E p \in Players :
       \/ RequestByCommand(p) \/ RequestByScript(p)
       \/ CloseKafra(p) \/ Autosave(p) \/ Quit(p)
       \/ \E i \in Items : StorageAdd(p, i) \/ StorageGet(p, i)
       \/ \E m \in Maps : Login(p, m)

\* Everything players may do between two rounds of the deadlock timer.
UntimedNext ==
  \/ CommonNext
  \/ \E p \in Players :
       Depart(p) \/ GuildLeave(p) \/ NpcTimeout(p) \/ NextDialog(p)

UntimedSpec == Init /\ [][UntimedNext]_vars

Next == UntimedNext \/ DeadlockTimer

Spec == Init /\ [][Next]_vars

\* The calm environment: between two rounds of the deadlock timer, members
\* stay in the guild and no player departs with a request under way.
CalmNext ==
  \/ CommonNext
  \/ \E p \in Players : Settled(p) /\ Depart(p)

CalmSpec == Init /\ [][CalmNext]_vars

\* The servers' loops run, the timer is rearmed and a lost connection is made
\* again; players owe nothing.
Fairness ==
  /\ \A m \in Maps : WF_vars(CharReceive(m)) /\ WF_vars(MapReceive(m)) /\ WF_vars(Connect(m))
  /\ WF_vars(DeadlockTimer)

FairSpec == Spec /\ Fairness

-----------------------------------------------------------------------------
(* Properties *)

\* At most one player has the guild storage open, on whichever map server.
MutualExclusion ==
  \A p, q \in Players : sd[p].flag /\ sd[q].flag => p = q

\* A player who opens the storage, from the cache or from a load, sees what the
\* char server has stored: no stale cache, no save still on its way.
OpensFresh ==
  [][\A p \in Players :
       ~sd[p].flag /\ sd'[p].flag => cache'[sd[p].at].items = gs.items]_vars

\* last_fd means what the comment at int_storage.c:183 says: while the lock is
\* free, the cache of the server it names is the stored storage, so that the
\* next grant to that server need not reload it.
LastFdIsCurrent ==
  \A m \in cached :
    /\ gs.status = 0 /\ gs.lastFd = link[m]
    /\ ~cache[m].dirty
    /\ \A i \in DOMAIN up[m] : up[m][i].type # "save"
    /\ \A i \in DOMAIN down[m] : down[m][i].type = "ack" => down[m][i].flag = 0
    => cache[m].items = gs.items

\* A deadlock is released only when no member uses the storage, as the comment
\* at storage.c:866 has it.
ReleasesOnlyUnused ==
  [][\A m \in Maps :
       Len(up'[m]) > Len(up[m]) /\ up'[m][Len(up'[m])] = Deadlock
         => \A p \in Players : ~(sd[p].flag /\ sd[p].guild)]_vars

\* The lock as an abstract storage sees it.  A granted lock belongs to its player
\* from the answer until the storage is closed.
Custody(p) ==
  \/ sd[p].flag
  \/ \E m \in Maps :
       \/ \E i \in DOMAIN up[m] : up[m][i] = LoadReq(p)
       \/ \E i \in DOMAIN down[m] :
            /\ down[m][i].type \in {"ack", "load"}
            /\ down[m][i].who = p
            /\ down[m][i].type = "ack" => down[m][i].flag # 0

\* The contents of the saves of a queue, in its order.
SavesIn(q) ==
  LET upTo[n \in 0..Len(q)] ==
        IF n = 0 THEN <<>>
        ELSE IF q[n].type = "save" THEN Append(upTo[n - 1], q[n].storage.items)
        ELSE upTo[n - 1]
  IN  upTo[Len(q)]

\* Contents saved and not stored yet.
SavesInFlight ==
  LET sends(m) == \E i \in DOMAIN up[m] : up[m][i].type = "save" IN
  IF \E m \in Maps : sends(m) THEN SavesIn(up[CHOOSE m \in Maps : sends(m)])
                              ELSE <<>>

Holder ==
  IF gs.status = 0 THEN "nobody"
  ELSE IF \E p \in Players : Custody(p) THEN CHOOSE p \in Players : Custody(p)
  ELSE "gone"

Content ==
  IF \E p \in Players : sd[p].flag
    THEN cache[sd[CHOOSE p \in Players : sd[p].flag].at].items
  ELSE LET saves == SavesInFlight
       IN  IF saves = <<>> THEN gs.items ELSE saves[Len(saves)]

Storage == INSTANCE LockedStorage
  WITH Nobody <- "nobody", Gone <- "gone", holder <- Holder,
       content <- Content, pending <- SavesInFlight, stored <- gs.items

\* The servers together implement the abstract storage: edits go to the current
\* content, one holder at a time, and none is lost but by a failure.
ImplementsLockedStorage == Storage!Spec

\* A held lock that nobody uses comes back: whatever was lost on the way (the
\* player, the dialog, the connection), the deadlock timer frees it as soon as a
\* map server has the guild's data.  If the answers to the first login of a member
\* were lost, none has, all are silent, and the lock stays until a member comes.
LockComesBack ==
  (gs.status = 1 /\ known # {}) ~> \/ gs.status = 0
                                  \/ \E p \in Players : sd[p].flag /\ sd[p].guild

=============================================================================
