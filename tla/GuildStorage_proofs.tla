------------------------ MODULE GuildStorage_proofs -------------------------
(***************************************************************************)
(* Proofs about GuildStorage, for any number of map servers, players and   *)
(* items: the types hold in every environment, and in the calm one at most *)
(* one player has the storage open.                                        *)
(***************************************************************************)
EXTENDS GuildStorage, TLAPS

-----------------------------------------------------------------------------
(* Types *)

\* What Head and Tail give for a queue that is not empty.
LEMMA QueueHead ==
  ASSUME NEW S, NEW q \in Seq(S), q # <<>>
  PROVE  /\ Head(q) \in S
         /\ Tail(q) \in Seq(S)
         /\ Len(q) \in Nat \ {0}
         /\ Head(q) = q[1]
  OBVIOUS

\* The messages the two sides build are messages of their channels.
LEMMA MessageTypes ==
  ASSUME NEW p \in Players, NEW s \in GStorage, NEW f \in 0..2, gs \in GStorage
  PROVE  /\ Trylock(p) \in UpMessage /\ LoadReq(p) \in UpMessage
         /\ Save(s) \in UpMessage /\ Unlock \in UpMessage /\ Deadlock \in UpMessage
         /\ Ack(p, f) \in DownMessage /\ LoadReply(p) \in DownMessage
         /\ Leaved(p) \in DownMessage /\ Checklock \in DownMessage
  BY DEF Trylock, LoadReq, Save, Unlock, Deadlock, Ack, LoadReply, Leaved,
         Checklock, UpMessage, DownMessage

\* The request for the guild's data and the data, which are no token.
LEMMA InfoType ==
  /\ GuildInfo \in UpMessage /\ GuildInfo \in DownMessage
  /\ GuildInfo.type = "info"
  BY DEF GuildInfo, UpMessage, DownMessage

\* The initial storage and the absent session are well typed.
LEMMA EmptyTypes == EmptyStorage \in GStorage /\ NoSession \in Session
  BY DEF EmptyStorage, NoSession, GStorage, Session

\* The parts of a message that its type announces.
LEMMA MessageParts ==
  /\ \A u \in UpMessage :
       /\ u.type \in {"trylock", "load"} => u.who \in Players
       /\ u.type = "save" => u.storage \in GStorage
  /\ \A d \in DownMessage :
       /\ d.type \in {"ack", "load", "leaved"} => d.who \in Players
       /\ d.type = "ack" => d.flag \in 0..2
       /\ d.type = "load" => d.storage \in GStorage
  BY DEF UpMessage, DownMessage

\* Sending keeps a family of queues well typed, and so does receiving.
LEMMA SendTypes ==
  ASSUME NEW S, NEW q \in [Maps -> Seq(S)], NEW m \in Maps, NEW x \in S
  PROVE  [q EXCEPT ![m] = Append(@, x)] \in [Maps -> Seq(S)]
  OBVIOUS

\* Records keep their type when a field changes.
LEMMA StorageFields ==
  /\ \A s \in GStorage : \A n \in 0..1 : [s EXCEPT !.status = n] \in GStorage
  /\ \A s \in GStorage : \A b \in BOOLEAN : [s EXCEPT !.dirty = b] \in GStorage
  /\ \A s \in GStorage : \A c \in SUBSET Items : [s EXCEPT !.items = c] \in GStorage
  /\ \A s \in GStorage : \A fd \in Fds \cup {NoFd} : [s EXCEPT !.lastFd = fd] \in GStorage
<1>1. ASSUME NEW s \in GStorage, NEW n \in 0..1
      PROVE  [s EXCEPT !.status = n] \in GStorage
  BY DEF GStorage
<1>2. ASSUME NEW s \in GStorage, NEW b \in BOOLEAN
      PROVE  [s EXCEPT !.dirty = b] \in GStorage
  BY DEF GStorage
<1>3. ASSUME NEW s \in GStorage, NEW c \in SUBSET Items
      PROVE  [s EXCEPT !.items = c] \in GStorage
  BY DEF GStorage
<1>4. ASSUME NEW s \in GStorage, NEW fd \in Fds \cup {NoFd}
      PROVE  [s EXCEPT !.lastFd = fd] \in GStorage
  BY SMTT(20) DEF GStorage
<1> QED
  BY <1>1, <1>2, <1>3, <1>4, Zenon

\* So do the two fields an edit or a close changes together.
LEMMA StorageEdits ==
  ASSUME NEW s \in GStorage
  PROVE  /\ [s EXCEPT !.status = 0, !.dirty = FALSE] \in GStorage
         /\ \A i \in Items :
              /\ [s EXCEPT !.items = @ \cup {i}, !.dirty = TRUE] \in GStorage
              /\ [s EXCEPT !.items = @ \ {i}, !.dirty = TRUE] \in GStorage
<1>0. 0 \in 0..1
  OBVIOUS
<1>1. [s EXCEPT !.status = 0] \in GStorage
  BY <1>0, StorageFields, Zenon
<1>2. [s EXCEPT !.status = 0, !.dirty = FALSE] \in GStorage
  BY <1>1, StorageFields, Zenon
<1>3. ASSUME NEW i \in Items
      PROVE  /\ [s EXCEPT !.items = @ \cup {i}, !.dirty = TRUE] \in GStorage
             /\ [s EXCEPT !.items = @ \ {i}, !.dirty = TRUE] \in GStorage
  <2>1. s.items \cup {i} \in SUBSET Items /\ s.items \ {i} \in SUBSET Items
    BY DEF GStorage
  <2>2. /\ [s EXCEPT !.items = s.items \cup {i}] \in GStorage
        /\ [s EXCEPT !.items = s.items \ {i}] \in GStorage
    BY <2>1, StorageFields, Zenon
  <2> QED
    BY <2>2, StorageFields, Zenon
<1> QED
  BY <1>2, <1>3

\* And a session keeps its type when one field changes.
LEMMA SessionFields ==
  ASSUME NEW s \in Session
  PROVE  /\ \A b \in BOOLEAN : /\ [s EXCEPT !.flag = b] \in Session
                               /\ [s EXCEPT !.waiting = b] \in Session
                               /\ [s EXCEPT !.guild = b] \in Session
         /\ \A n \in 0..2 : /\ [s EXCEPT !.lockreq = n] \in Session
                            /\ [s EXCEPT !.npcMenu = n] \in Session
         /\ \A menu \in {"none", "asked", "cut"} : [s EXCEPT !.menu = menu] \in Session
         /\ \A m \in Maps : [s EXCEPT !.at = m] \in Session
<1>1. ASSUME NEW b \in BOOLEAN
      PROVE  /\ [s EXCEPT !.flag = b] \in Session
             /\ [s EXCEPT !.waiting = b] \in Session
             /\ [s EXCEPT !.guild = b] \in Session
  BY DEF Session
<1>2. ASSUME NEW n \in 0..2
      PROVE  /\ [s EXCEPT !.lockreq = n] \in Session
             /\ [s EXCEPT !.npcMenu = n] \in Session
  BY DEF Session
<1>3. ASSUME NEW menu \in {"none", "asked", "cut"}
      PROVE  [s EXCEPT !.menu = menu] \in Session
  BY DEF Session
<1>4. ASSUME NEW m \in Maps
      PROVE  [s EXCEPT !.at = m] \in Session
  BY DEF Session
<1> QED
  BY <1>1, <1>2, <1>3, <1>4

\* Locking a cache keeps the caches well typed.
LEMMA CacheFields ==
  ASSUME NEW c \in [Maps -> GStorage], NEW m \in Maps, NEW n \in 0..1
  PROVE  [c EXCEPT ![m].status = n] \in [Maps -> GStorage]
  BY DEF GStorage

\* Opening and closing change the queue, the cache and the sessions only.
LEMMA OpenTypes ==
  ASSUME TypeOK, NEW p \in Players, NEW m \in Maps, NEW session \in Session,
         NEW kept \in SUBSET Maps, StorageOpen(p, m, session, kept)
  PROVE  /\ up' \in [Maps -> Seq(UpMessage)] /\ cached' \subseteq Maps
         /\ cache' \in [Maps -> GStorage] /\ sd' \in [Players -> Session]
<1>1. LoadReq(p) \in UpMessage
  BY DEF LoadReq, UpMessage
<1>2. /\ cache \in [Maps -> GStorage] /\ cache[m] \in GStorage
      /\ sd \in [Players -> Session] /\ up \in [Maps -> Seq(UpMessage)]
  BY DEF TypeOK
<1>3. [session EXCEPT !.flag = TRUE] \in Session
  BY SessionFields
<1>4. [cache EXCEPT ![m].status = 1] \in [Maps -> GStorage]
  <2>1. 1 \in 0..1
    OBVIOUS
  <2> QED
    BY <1>2, <2>1, CacheFields, Zenon
<1>5. sd' \in [Players -> Session]
  BY <1>2, <1>3 DEF StorageOpen
<1>6. cache' \in [Maps -> GStorage]
  BY <1>2, <1>4, EmptyTypes DEF StorageOpen
<1>7. up' \in [Maps -> Seq(UpMessage)]
  <2>1. [up EXCEPT ![m] = Append(@, LoadReq(p))] \in [Maps -> Seq(UpMessage)]
    BY <1>1, <1>2, SendTypes
  <2> QED
    BY <1>2, <2>1 DEF StorageOpen, SendUp
<1> QED
  BY <1>5, <1>6, <1>7 DEF StorageOpen

\* Closing sends a save and an unlock, and clears the cache's lock.
LEMMA CloseTypes ==
  ASSUME TypeOK, NEW m \in Maps, StorageClose(m)
  PROVE  /\ up' \in [Maps -> Seq(UpMessage)]
         /\ cache' \in [Maps -> GStorage]
<1>1. /\ cache \in [Maps -> GStorage] /\ cache[m] \in GStorage
      /\ up \in [Maps -> Seq(UpMessage)] /\ gs \in GStorage
  BY DEF TypeOK
<1>2. Unlock \in UpMessage /\ Save(cache[m]) \in UpMessage
  BY <1>1 DEF Unlock, Save, UpMessage
<1>3. cache' = [cache EXCEPT ![m] = [cache[m] EXCEPT !.status = 0, !.dirty = FALSE]]
  BY DEF StorageClose
<1>4. cache' \in [Maps -> GStorage]
  BY <1>1, <1>3, StorageEdits
<1> DEFINE q == IF cache[m].dirty THEN Append(up[m], Save(cache[m])) ELSE up[m]
<1>5. q \in Seq(UpMessage)
  BY <1>1, <1>2
<1>6. Append(q, Unlock) \in Seq(UpMessage)
  BY <1>2, <1>5
<1>7. up' = [up EXCEPT ![m] = Append(q, Unlock)]
  BY DEF StorageClose
<1> QED
  BY <1>1, <1>4, <1>6, <1>7

\* The same for a family of queues.
LEMMA TailTypes ==
  ASSUME NEW S, NEW q \in [Maps -> Seq(S)], NEW m \in Maps, q[m] # <<>>
  PROVE  /\ Head(q[m]) \in S
         /\ [q EXCEPT ![m] = Tail(@)] \in [Maps -> Seq(S)]
  OBVIOUS

\* Types when the char server handles a message.
LEMMA CharReceiveTypes ==
  ASSUME TypeOK, NEW m \in Maps, CharReceive(m)
  PROVE  TypeOK'
<1> DEFINE msg == Head(up[m])
<1>1. /\ gs \in GStorage /\ link \in [Maps -> Fds \cup {NoFd}]
      /\ up \in [Maps -> Seq(UpMessage)] /\ down \in [Maps -> Seq(DownMessage)]
  BY DEF TypeOK
<1>2. up[m] # <<>> /\ up' = [up EXCEPT ![m] = Tail(@)]
  BY DEF CharReceive
<1>3. msg \in UpMessage /\ up' \in [Maps -> Seq(UpMessage)]
  BY <1>1, <1>2, TailTypes
<1>4. gs' \in GStorage /\ down' \in [Maps -> Seq(DownMessage)]
  <2>1. CASE ReceiveTrylock(m)
    <3>1. msg.who \in Players
      BY <1>3, <2>1, MessageParts DEF ReceiveTrylock
    <3>2. \A f \in 0..2 : Ack(msg.who, f) \in DownMessage
      BY <3>1 DEF Ack, DownMessage
    <3>3. \A f \in 0..2 : [down EXCEPT ![m] = Append(@, Ack(msg.who, f))] \in [Maps -> Seq(DownMessage)]
      BY <1>1, <3>2, SendTypes
    <3>4. (IF gs.lastFd = link[m] THEN 1 ELSE 2) \in 0..2 /\ 0 \in 0..2 /\ 1 \in 0..1
      OBVIOUS
    <3>5. down' \in [Maps -> Seq(DownMessage)]
      <4>1. PICK f \in 0..2 : down' = [down EXCEPT ![m] = Append(@, Ack(msg.who, f))]
        BY <2>1, <3>4, Zenon DEF ReceiveTrylock
      <4> QED
        BY <3>3, <4>1, Zenon
    <3>6. [gs EXCEPT !.status = 1] \in GStorage
      BY <1>1, <3>4, StorageFields, Zenon
    <3> HIDE DEF msg
    <3>7. link[m] \in Fds \cup {NoFd}
      BY <1>1
    <3>8. [gs EXCEPT !.status = 1, !.lastFd = link[m]] \in GStorage
      BY <3>6, <3>7, StorageFields, Zenon
    <3> QED
      BY <1>1, <2>1, <3>5, <3>8 DEF ReceiveTrylock
  <2>2. CASE ReceiveUnlock(m)
    <3>1. 0 \in 0..1
      OBVIOUS
    <3>2. [gs EXCEPT !.status = 0] \in GStorage
      BY <1>1, <3>1, StorageFields, Zenon
    <3> QED
      BY <1>1, <2>2, <3>2 DEF ReceiveUnlock
  <2>3. CASE ReceiveLoad(m)
    <3>1. msg.who \in Players
      BY <1>3, <2>3, MessageParts DEF ReceiveLoad
    <3>2. LoadReply(msg.who) \in DownMessage
      BY <1>1, <3>1 DEF LoadReply, DownMessage
    <3> QED
      BY <1>1, <2>3, <3>2, SendTypes DEF ReceiveLoad
  <2>4. CASE ReceiveSave(m)
    BY <1>1, <1>3, <2>4, MessageParts DEF ReceiveSave
  <2>5. CASE ReceiveInfoRequest(m)
    BY <1>1, <2>5, InfoType, SendTypes DEF ReceiveInfoRequest
  <2> QED
    BY <2>1, <2>2, <2>3, <2>4, <2>5 DEF CharReceive
<1> QED
  BY <1>3, <1>4 DEF CharReceive, TypeOK

\* Sending one message to every connected map server.
LEMMA BroadcastTypes ==
  ASSUME TypeOK, NEW x \in DownMessage,
         down' = [n \in Maps |-> IF n \in Connected THEN Append(down[n], x) ELSE down[n]]
  PROVE  down' \in [Maps -> Seq(DownMessage)]
  BY DEF TypeOK

\* guildopenstorage run again.
LEMMA GuildOpenTypes ==
  ASSUME TypeOK, NEW p \in Players, NEW session \in Session,
         session.at \in Maps, GuildOpenStorage(p, session)
  PROVE  /\ up' \in [Maps -> Seq(UpMessage)] /\ cached' \subseteq Maps
         /\ cache' \in [Maps -> GStorage] /\ sd' \in [Players -> Session]
<1> DEFINE after == [session EXCEPT !.menu = "none", !.npcMenu = 0]
           m == session.at
           kept == IF session.npcMenu = 2 /\ session.guild THEN cached \ {m} ELSE cached
<1>1. 0 \in 0..2
  OBVIOUS
<1>2. [session EXCEPT !.menu = "none"] \in Session
  BY SessionFields
<1>3. after \in Session
  BY <1>1, <1>2, SessionFields, Zenon
<1>4. kept \in SUBSET Maps
  BY DEF TypeOK
<1>5. CASE session.npcMenu = 0
  BY <1>3, <1>5 DEF GuildOpenStorage, TypeOK
<1>6. CASE session.npcMenu # 0
  <2>1. StorageOpen(p, m, after, kept)
    BY <1>6 DEF GuildOpenStorage
  <2> QED
    BY <1>3, <1>4, <2>1, OpenTypes
<1> QED
  BY <1>5, <1>6

\* What a map server's handler leaves typed.
MapTypes ==
  /\ up \in [Maps -> Seq(UpMessage)]
  /\ cached \subseteq Maps
  /\ cache \in [Maps -> GStorage]
  /\ sd \in [Players -> Session]

\* Types when a map server takes the answer to a lock request.
LEMMA ReceiveAckTypes ==
  ASSUME TypeOK, NEW m \in Maps, down[m] # <<>>, ReceiveAck(m)
  PROVE  MapTypes'
<1> DEFINE p == Head(down[m]).who
           flag == Head(down[m]).flag
           done == [sd[p] EXCEPT !.lockreq = 0]
           answered == [done EXCEPT !.npcMenu = flag]
<1>1. /\ up \in [Maps -> Seq(UpMessage)] /\ down \in [Maps -> Seq(DownMessage)]
      /\ cached \subseteq Maps /\ cache \in [Maps -> GStorage]
      /\ sd \in [Players -> Session]
  BY DEF TypeOK
<1>2. p \in Players /\ flag \in 0..2
  <2>1. Head(down[m]) \in DownMessage /\ Head(down[m]).type = "ack"
    BY <1>1, TailTypes DEF ReceiveAck
  <2> QED
    BY <2>1, MessageParts
<1>3. sd[p] \in Session /\ 0 \in 0..2
  BY <1>1, <1>2
<1>4. done \in Session
  BY <1>3, SessionFields, Zenon
<1>5. answered \in Session
  BY <1>2, <1>4, SessionFields, Zenon
<1>6. [up EXCEPT ![m] = Append(@, Unlock)] \in [Maps -> Seq(UpMessage)]
  <2>1. Unlock \in UpMessage
    BY DEF Unlock, UpMessage
  <2> QED
    BY <1>1, <2>1, SendTypes
<1>7. CASE SendUp(m, Unlock) /\ UNCHANGED <<cached, cache, sd>>
  BY <1>1, <1>6, <1>7 DEF MapTypes, SendUp
<1>8. CASE \E s \in {done, answered} : /\ sd' = [sd EXCEPT ![p] = s]
                                       /\ UNCHANGED <<up, cached, cache>>
  <2>1. PICK s \in Session : /\ sd' = [sd EXCEPT ![p] = s]
                            /\ UNCHANGED <<up, cached, cache>>
    BY <1>4, <1>5, <1>8, Zenon
  <2>2. sd' \in [Players -> Session]
    BY <1>1, <1>2, <2>1
  <2> QED
    BY <1>1, <2>1, <2>2 DEF MapTypes
<1>9. CASE Here(p, m) /\ GuildOpenStorage(p, answered)
  <2>1. answered.at = m
    BY <1>3, <1>9, SMTT(20) DEF Here, Session
  <2> QED
    BY <1>2, <1>5, <1>9, <2>1, GuildOpenTypes DEF MapTypes
<1>10. CASE \E kept \in SUBSET Maps : StorageOpen(p, m, done, kept)
  BY <1>2, <1>4, <1>10, OpenTypes, SMTT(20) DEF MapTypes
<1>11. \/ SendUp(m, Unlock) /\ UNCHANGED <<cached, cache, sd>>
       \/ \E s \in {done, answered} : sd' = [sd EXCEPT ![p] = s] /\ UNCHANGED <<up, cached, cache>>
       \/ Here(p, m) /\ GuildOpenStorage(p, answered)
       \/ \E kept \in SUBSET Maps : StorageOpen(p, m, done, kept)
  <2>1. (IF flag = 2 THEN cached \ {m} ELSE cached) \in SUBSET Maps
    BY <1>1
  <2> HIDE DEF done, answered
  <2> QED
    BY <2>1 DEF ReceiveAck, done, answered
<1> QED
  BY <1>7, <1>8, <1>9, <1>10, <1>11

\* Types when it takes a loaded storage.
LEMMA ReceiveLoadReplyTypes ==
  ASSUME TypeOK, NEW m \in Maps, down[m] # <<>>, ReceiveLoadReply(m)
  PROVE  MapTypes'
<1> DEFINE p == Head(down[m]).who
           s == Head(down[m]).storage
<1>1. /\ up \in [Maps -> Seq(UpMessage)] /\ down \in [Maps -> Seq(DownMessage)]
      /\ cached \subseteq Maps /\ cache \in [Maps -> GStorage]
      /\ sd \in [Players -> Session]
  BY DEF TypeOK
<1>2. p \in Players /\ s \in GStorage
  <2>1. Head(down[m]) \in DownMessage /\ Head(down[m]).type = "load"
    BY <1>1, TailTypes DEF ReceiveLoadReply
  <2> QED
    BY <2>1, MessageParts
<1>3. [up EXCEPT ![m] = Append(@, Unlock)] \in [Maps -> Seq(UpMessage)]
  <2>1. Unlock \in UpMessage
    BY DEF Unlock, UpMessage
  <2> QED
    BY <1>1, <2>1, SendTypes
<1>4. [s EXCEPT !.status = 1] \in GStorage
  <2>1. 1 \in 0..1
    OBVIOUS
  <2> QED
    BY <1>2, <2>1, StorageFields, Zenon
<1>5. [sd[p] EXCEPT !.flag = TRUE] \in Session
  <2>1. sd[p] \in Session /\ TRUE \in BOOLEAN
    BY <1>1, <1>2
  <2> QED
    BY <2>1, SessionFields, Zenon
<1>6. [sd EXCEPT ![p].flag = TRUE] \in [Players -> Session]
  BY <1>1, <1>5
<1>7. [cache EXCEPT ![m] = [s EXCEPT !.status = 1]] \in [Maps -> GStorage]
  BY <1>1, <1>4
<1> QED
  BY <1>1, <1>3, <1>6, <1>7 DEF ReceiveLoadReply, MapTypes, SendUp

\* Types when it takes the question of the deadlock timer.
LEMMA ReceiveChecklockTypes ==
  ASSUME TypeOK, NEW m \in Maps, ReceiveChecklock(m)
  PROVE  MapTypes'
<1>1. [up EXCEPT ![m] = Append(@, Deadlock)] \in [Maps -> Seq(UpMessage)]
  <2>1. Deadlock \in UpMessage
    BY DEF Deadlock, UpMessage
  <2> QED
    BY <2>1, SendTypes DEF TypeOK
<1>2. [cache EXCEPT ![m].status = 0] \in [Maps -> GStorage]
  <2>1. 0 \in 0..1 /\ cache \in [Maps -> GStorage]
    BY DEF TypeOK
  <2> QED
    BY <2>1, CacheFields, Zenon
<1> QED
  BY <1>1, <1>2 DEF ReceiveChecklock, MapTypes, SendUp, TypeOK

\* Types when it learns that a member left.
LEMMA ReceiveLeavedTypes ==
  ASSUME TypeOK, NEW m \in Maps, down[m] # <<>>, ReceiveLeaved(m)
  PROVE  MapTypes'
<1> DEFINE p == Head(down[m]).who
           gone == [sd[p] EXCEPT !.guild = FALSE]
<1>1. p \in Players
  <2>1. Head(down[m]) \in DownMessage /\ Head(down[m]).type = "leaved"
    BY TailTypes DEF ReceiveLeaved, TypeOK
  <2> QED
    BY <2>1, MessageParts
<1>2. sd[p] \in Session /\ FALSE \in BOOLEAN
  BY <1>1 DEF TypeOK
<1>3. gone \in Session
  BY <1>2, SessionFields, Zenon
<1>4. [gone EXCEPT !.flag = FALSE] \in Session
  BY <1>2, <1>3, SessionFields, Zenon
<1>5. CASE StorageClose(m) /\ sd' = [sd EXCEPT ![p] = [gone EXCEPT !.flag = FALSE]]
  <2>1. up' \in [Maps -> Seq(UpMessage)] /\ cache' \in [Maps -> GStorage]
    BY <1>5, CloseTypes
  <2> QED
    BY <1>1, <1>4, <1>5, <2>1 DEF MapTypes, TypeOK, ReceiveLeaved
<1>6. CASE sd' = [sd EXCEPT ![p] = gone] /\ UNCHANGED <<up, cache>>
  BY <1>1, <1>3, <1>6 DEF MapTypes, TypeOK, ReceiveLeaved
<1>7. CASE UNCHANGED <<up, cache, sd>>
  BY <1>7 DEF MapTypes, TypeOK, ReceiveLeaved
<1> QED
  BY <1>5, <1>6, <1>7 DEF ReceiveLeaved

\* Together: types when a map server handles a message.
LEMMA MapReceiveTypes ==
  ASSUME TypeOK, NEW m \in Maps, MapReceive(m)
  PROVE  TypeOK'
<1>1. down[m] # <<>> /\ down' = [down EXCEPT ![m] = Tail(@)]
  BY DEF MapReceive
<1>2. down' \in [Maps -> Seq(DownMessage)]
  BY <1>1, TailTypes DEF TypeOK
<1>3. CASE ReceiveInfo(m)
  BY <1>2, <1>3 DEF MapReceive, ReceiveInfo, TypeOK
<1>4. CASE /\ ReceiveAck(m) \/ ReceiveLoadReply(m) \/ ReceiveChecklock(m) \/ ReceiveLeaved(m)
           /\ UNCHANGED known
  <2>1. MapTypes'
    BY <1>1, <1>4, ReceiveAckTypes, ReceiveLoadReplyTypes, ReceiveChecklockTypes,
       ReceiveLeavedTypes
  <2> QED
    BY <1>2, <1>4, <2>1 DEF MapTypes, MapReceive, TypeOK
<1> QED
  BY <1>3, <1>4 DEF MapReceive

\* The actions that start at a player.
PlayerNext(p) ==
  \/ RequestByCommand(p) \/ RequestByScript(p) \/ NpcTimeout(p) \/ NextDialog(p)
  \/ \E i \in Items : StorageAdd(p, i) \/ StorageGet(p, i)
  \/ CloseKafra(p) \/ Autosave(p) \/ Depart(p) \/ Quit(p)
  \/ \E m \in Maps : Login(p, m)

\* A session that is not away is on a map server.
LEMMA SessionAt ==
  ASSUME TypeOK, NEW p \in Players
  PROVE  /\ sd[p] \in Session
         /\ sd[p].at # Off => sd[p].at \in Maps
  BY DEF TypeOK, Session

\* Types when a member asks for the lock.
LEMMA RequestTypes ==
  ASSUME TypeOK, NEW p \in Players, RequestByCommand(p) \/ RequestByScript(p)
  PROVE  TypeOK'
<1> DEFINE m == sd[p].at
<1>1. sd[p] \in Session /\ m \in Maps /\ 1 \in 0..2 /\ 2 \in 0..2
  BY SessionAt DEF RequestByCommand, RequestByScript, Playing
<1>2. Trylock(p) \in UpMessage
  BY DEF Trylock, UpMessage
<1>3. [up EXCEPT ![m] = Append(@, Trylock(p))] \in [Maps -> Seq(UpMessage)]
  BY <1>1, <1>2, SendTypes DEF TypeOK
<1>4. [sd[p] EXCEPT !.lockreq = 2] \in Session /\ [sd[p] EXCEPT !.lockreq = 1] \in Session
  BY <1>1, SessionFields, Zenon
<1>5. [[sd[p] EXCEPT !.lockreq = 1] EXCEPT !.menu = "asked"] \in Session
  BY <1>4, SessionFields, Zenon
<1>6. \/ sd' = [sd EXCEPT ![p] = [sd[p] EXCEPT !.lockreq = 2]]
      \/ sd' = [sd EXCEPT ![p] = [[sd[p] EXCEPT !.lockreq = 1] EXCEPT !.menu = "asked"]]
  BY DEF RequestByCommand, RequestByScript
<1>7. sd' \in [Players -> Session]
  BY <1>4, <1>5, <1>6 DEF TypeOK
<1> QED
  BY <1>3, <1>7 DEF RequestByCommand, RequestByScript, SendUp, TypeOK

\* Types when a dialog times out or another one follows.
LEMMA DialogTypes ==
  ASSUME TypeOK, NEW p \in Players, NpcTimeout(p) \/ NextDialog(p)
  PROVE  TypeOK'
<1>1. sd[p] \in Session /\ sd[p].at \in Maps /\ "cut" \in {"none", "asked", "cut"}
  BY SessionAt DEF NpcTimeout, NextDialog, Playing
<1>2. [sd[p] EXCEPT !.menu = "cut"] \in Session /\ [sd[p] EXCEPT !.menu = "none"] \in Session
  BY <1>1, SessionFields
<1>3. CASE NpcTimeout(p)
  BY <1>2, <1>3 DEF NpcTimeout, TypeOK
<1>4. CASE NextDialog(p) /\ GuildOpenStorage(p, sd[p])
  BY <1>1, <1>4, GuildOpenTypes DEF NextDialog, TypeOK
<1>5. CASE NextDialog(p) /\ ~GuildOpenStorage(p, sd[p])
  BY <1>2, <1>5 DEF NextDialog, TypeOK
<1> QED
  BY <1>3, <1>4, <1>5

\* Types when an item is put in or taken out.
LEMMA EditTypes ==
  ASSUME TypeOK, NEW p \in Players, NEW i \in Items, StorageAdd(p, i) \/ StorageGet(p, i)
  PROVE  TypeOK'
<1> DEFINE m == sd[p].at
           s == cache[m]
<1>1. m \in Maps /\ s \in GStorage
  BY SessionAt DEF StorageAdd, StorageGet, Playing, TypeOK
<1>2. /\ [s EXCEPT !.items = @ \cup {i}, !.dirty = TRUE] \in GStorage
      /\ [s EXCEPT !.items = @ \ {i}, !.dirty = TRUE] \in GStorage
  BY <1>1, StorageEdits, Zenon
<1>3. \/ cache' = [cache EXCEPT ![m] = [s EXCEPT !.items = @ \cup {i}, !.dirty = TRUE]]
      \/ cache' = [cache EXCEPT ![m] = [s EXCEPT !.items = @ \ {i}, !.dirty = TRUE]]
  BY DEF StorageAdd, StorageGet
<1>4. cache' \in [Maps -> GStorage]
  BY <1>2, <1>3 DEF TypeOK
<1> QED
  BY <1>4 DEF StorageAdd, StorageGet, TypeOK

\* Types when the storage is closed or its holder departs.
LEMMA LeaveTypes ==
  ASSUME TypeOK, NEW p \in Players, CloseKafra(p) \/ Depart(p)
  PROVE  TypeOK'
<1>1. sd[p] \in Session /\ sd[p].at \in Maps /\ TRUE \in BOOLEAN /\ FALSE \in BOOLEAN
  BY SessionAt DEF CloseKafra, Depart, Playing
<1>2. [sd[p] EXCEPT !.flag = FALSE] \in Session /\ [sd[p] EXCEPT !.waiting = TRUE] \in Session
  BY <1>1, SessionFields, Zenon
<1>3. [[sd[p] EXCEPT !.waiting = TRUE] EXCEPT !.flag = FALSE] \in Session
  BY <1>1, <1>2, SessionFields, Zenon
<1>4. StorageClose(sd[p].at) => up' \in [Maps -> Seq(UpMessage)] /\ cache' \in [Maps -> GStorage]
  BY <1>1, CloseTypes
<1>5. up' \in [Maps -> Seq(UpMessage)] /\ cache' \in [Maps -> GStorage]
  BY <1>4 DEF CloseKafra, Depart, TypeOK
<1>6. \/ sd' = [sd EXCEPT ![p] = [sd[p] EXCEPT !.flag = FALSE]]
      \/ sd' = [sd EXCEPT ![p] = [sd[p] EXCEPT !.waiting = TRUE]]
      \/ sd' = [sd EXCEPT ![p] = [[sd[p] EXCEPT !.waiting = TRUE] EXCEPT !.flag = FALSE]]
  BY DEF CloseKafra, Depart
<1>7. sd' \in [Players -> Session]
  BY <1>2, <1>3, <1>6 DEF TypeOK
<1> QED
  BY <1>5, <1>7 DEF CloseKafra, Depart, TypeOK

\* Types when a dirty cache is saved.
LEMMA AutosaveTypes ==
  ASSUME TypeOK, NEW p \in Players, Autosave(p)
  PROVE  TypeOK'
<1> DEFINE m == sd[p].at
<1>1. m \in Maps /\ cache[m] \in GStorage /\ FALSE \in BOOLEAN
  BY SessionAt DEF Autosave, Playing, TypeOK
<1>2. Save(cache[m]) \in UpMessage
  BY <1>1 DEF Save, UpMessage
<1>3. [up EXCEPT ![m] = Append(@, Save(cache[m]))] \in [Maps -> Seq(UpMessage)]
  BY <1>1, <1>2, SendTypes DEF TypeOK
<1>4. [cache[m] EXCEPT !.dirty = FALSE] \in GStorage
  BY <1>1, StorageFields, Zenon
<1>5. [cache EXCEPT ![m].dirty = FALSE] \in [Maps -> GStorage]
  BY <1>4 DEF TypeOK
<1> QED
  BY <1>3, <1>5 DEF Autosave, SendUp, TypeOK

\* Types when a session is deleted or created.
LEMMA SessionTypes ==
  ASSUME TypeOK, NEW p \in Players, Quit(p) \/ \E m \in Maps : Login(p, m)
  PROVE  TypeOK'
<1>1. ASSUME NEW m \in Maps, NEW b \in BOOLEAN
      PROVE  [NoSession EXCEPT !.at = m, !.guild = b] \in Session
  <2>1. [NoSession EXCEPT !.at = m] \in Session
    BY EmptyTypes, SessionFields, Zenon
  <2> QED
    BY <2>1, SessionFields, Zenon
<1>2. NoSession \in Session
  BY EmptyTypes
<1>3. \E s \in Session : sd' = [sd EXCEPT ![p] = s]
  <2>1. CASE Quit(p)
    BY <1>2, <2>1 DEF Quit
  <2>2. CASE \E m \in Maps : Login(p, m)
    <3>1. PICK m \in Maps : Login(p, m)
      BY <2>2
    <3>2. (p \in enrolled) \in BOOLEAN
      OBVIOUS
    <3>3. [NoSession EXCEPT !.at = m, !.guild = p \in enrolled] \in Session
      BY <1>1, <3>2
    <3> QED
      BY <3>1, <3>3 DEF Login
  <2> QED
    BY <2>1, <2>2
<1>4. sd' \in [Players -> Session]
  BY <1>3 DEF TypeOK
<1>5. up' \in [Maps -> Seq(UpMessage)]
  <2>1. CASE UNCHANGED up
    BY <2>1 DEF TypeOK
  <2>2. ASSUME NEW m \in Maps, SendUp(m, GuildInfo)
        PROVE  up' \in [Maps -> Seq(UpMessage)]
    BY <2>2, InfoType, SendTypes DEF SendUp, TypeOK
  <2> QED
    BY <2>1, <2>2 DEF Quit, Login
<1> QED
  BY <1>4, <1>5 DEF Quit, Login, TypeOK

\* Together: types when a player does something.
LEMMA PlayerTypes ==
  ASSUME TypeOK, NEW p \in Players, PlayerNext(p)
  PROVE  TypeOK'
  BY RequestTypes, DialogTypes, EditTypes, LeaveTypes, AutosaveTypes, SessionTypes
     DEF PlayerNext

\* Types when a map server drops what the char server's loss undoes.
LEMMA CutOffTypes ==
  ASSUME TypeOK, NEW S \in SUBSET Maps, CutOff(S)
  PROVE  /\ link' \in [Maps -> Fds \cup {NoFd}]
         /\ up' \in [Maps -> Seq(UpMessage)] /\ down' \in [Maps -> Seq(DownMessage)]
         /\ MapTypes'
<1>1. <<>> \in Seq(UpMessage) /\ <<>> \in Seq(DownMessage)
  OBVIOUS
<1>2. link' \in [Maps -> Fds \cup {NoFd}]
  BY DEF CutOff, TypeOK
<1>3. up' \in [Maps -> Seq(UpMessage)]
  BY <1>1 DEF CutOff, TypeOK
<1>4. down' \in [Maps -> Seq(DownMessage)]
  BY <1>1 DEF CutOff, TypeOK
<1>5. cache' \in [Maps -> GStorage]
  BY EmptyTypes DEF CutOff, TypeOK
<1>6. sd' \in [Players -> Session]
  BY EmptyTypes DEF CutOff, TypeOK
<1>7. cached' \subseteq Maps
  BY DEF CutOff, TypeOK
<1> QED
  BY <1>2, <1>3, <1>4, <1>5, <1>6, <1>7 DEF MapTypes

\* Types when connections come and go.
LEMMA ConnectionTypes ==
  ASSUME TypeOK, CharRestart \/ \E m \in Maps : Drop(m) \/ Connect(m)
  PROVE  TypeOK'
<1>1. CASE CharRestart
  <2>1. gs.items \in SUBSET Items /\ EmptyStorage \in GStorage
    BY EmptyTypes DEF TypeOK, GStorage
  <2>2. [EmptyStorage EXCEPT !.items = gs.items] \in GStorage
    BY <2>1, StorageFields, Zenon
  <2>3. drops' \in Nat
    BY <1>1 DEF CharRestart, TypeOK
  <2> QED
    BY <1>1, <2>2, <2>3, CutOffTypes DEF CharRestart, MapTypes, TypeOK
<1>2. CASE \E m \in Maps : Drop(m)
  <2>1. PICK m \in Maps : Drop(m)
    BY <1>2
  <2>2. {m} \in SUBSET Maps
    OBVIOUS
  <2>3. drops' \in Nat
    BY <2>1 DEF Drop, TypeOK
  <2> QED
    BY <2>1, <2>2, <2>3, CutOffTypes DEF Drop, MapTypes, TypeOK
<1>3. CASE \E m \in Maps : Connect(m)
  BY <1>3 DEF Connect, TypeOK
<1> QED
  BY <1>1, <1>2, <1>3

\* The deadlock timer and a leaving member tell every connected map server.
LEMMA BroadcastsTypes ==
  ASSUME TypeOK, DeadlockTimer \/ \E p \in Players : GuildLeave(p)
  PROVE  TypeOK'
<1>1. CASE DeadlockTimer
  <2>1. Checklock \in DownMessage
    BY DEF Checklock, DownMessage
  <2>2. down' \in [Maps -> Seq(DownMessage)]
    BY <1>1, <2>1, BroadcastTypes DEF DeadlockTimer
  <2> QED
    BY <1>1, <2>2 DEF DeadlockTimer, TypeOK
<1>2. CASE \E p \in Players : GuildLeave(p)
  <2>1. PICK p \in Players : GuildLeave(p)
    BY <1>2
  <2>2. Leaved(p) \in DownMessage
    BY DEF Leaved, DownMessage
  <2>3. down' \in [Maps -> Seq(DownMessage)]
    <3>1. ASSUME NEW n \in Maps
          PROVE  Append(Append(down[n], Leaved(p)), GuildInfo) \in Seq(DownMessage)
      <4>1. down[n] \in Seq(DownMessage)
        BY DEF TypeOK
      <4>2. Append(down[n], Leaved(p)) \in Seq(DownMessage)
        BY <2>2, <4>1
      <4> QED
        BY <4>2, InfoType
    <3> QED
      BY <2>1, <3>1 DEF GuildLeave, TypeOK
  <2> QED
    BY <2>1, <2>3 DEF GuildLeave, TypeOK
<1> QED
  BY <1>1, <1>2

\* The types hold in every reachable state of every environment: with the
\* deadlock timer, members leaving and connections lost at any moment.
THEOREM TypeCorrect == Spec => []TypeOK
<1>1. Init => TypeOK
  <2> SUFFICES ASSUME Init PROVE TypeOK
    OBVIOUS
  <2>1. <<>> \in Seq(UpMessage) /\ <<>> \in Seq(DownMessage)
    OBVIOUS
  <2> QED
    BY <2>1, EmptyTypes DEF Init, TypeOK
<1>2. TypeOK /\ [Next]_vars => TypeOK'
  <2> SUFFICES ASSUME TypeOK, [Next]_vars PROVE TypeOK'
    OBVIOUS
  <2>1. CASE \E m \in Maps : CharReceive(m)
    BY <2>1, CharReceiveTypes
  <2>2. CASE \E m \in Maps : MapReceive(m)
    BY <2>2, MapReceiveTypes
  <2>3. CASE \E p \in Players : PlayerNext(p)
    BY <2>3, PlayerTypes
  <2>4. CASE CharRestart \/ \E m \in Maps : Drop(m) \/ Connect(m)
    BY <2>4, ConnectionTypes
  <2>5. CASE DeadlockTimer \/ \E p \in Players : GuildLeave(p)
    BY <2>5, BroadcastsTypes
  <2>6. CASE UNCHANGED vars
    BY <2>6 DEF vars, TypeOK
  <2> QED
    BY <2>1, <2>2, <2>3, <2>4, <2>5, <2>6
       DEF Next, UntimedNext, CommonNext, PlayerNext
<1> QED
  BY <1>1, <1>2, PTL DEF Spec

-----------------------------------------------------------------------------
(* Mutual exclusion in the calm environment                                *)
(*                                                                         *)
(* The lock is a token.  It is in an open session, or in a message that    *)
(* will open one or will unlock; there is one token at most, and none      *)
(* while the storage is unlocked.                                          *)

UpToken(m, i) ==
  /\ i \in DOMAIN up[m]
  /\ up[m][i].type \in {"load", "unlock", "deadlock"}

Grants(x) ==
  \/ x.type = "load"
  \/ x.type = "ack" /\ x.flag # 0

DownToken(m, i) ==
  /\ i \in DOMAIN down[m]
  /\ Grants(down[m][i])

UpTokenOnly ==
  \A m, n \in Maps : \A i, j \in Nat : UpToken(m, i) /\ UpToken(n, j) => m = n /\ i = j

DownTokenOnly ==
  \A m, n \in Maps : \A i, j \in Nat : DownToken(m, i) /\ DownToken(n, j) => m = n /\ i = j

OneToken ==
  /\ MutualExclusion
  /\ UpTokenOnly
  /\ DownTokenOnly
  /\ \A m, n \in Maps : \A i, j \in Nat : ~(UpToken(m, i) /\ DownToken(n, j))
  /\ \A p \in Players, m \in Maps : \A i \in Nat :
       sd[p].flag => ~UpToken(m, i) /\ ~DownToken(m, i)

NoToken ==
  /\ \A p \in Players : ~sd[p].flag
  /\ \A m \in Maps : \A i \in Nat : ~UpToken(m, i) /\ ~DownToken(m, i)

FreeMeansNoToken == gs.status = 0 => NoToken

\* A session that has the storage open can close it, and its cache is locked.
OpenIsClosable ==
  \A p \in Players : sd[p].flag => /\ Closable(p) /\ Playing(p)
                                   /\ cache[sd[p].at].status = 1

\* A save carries the lock: storing it does not unlock.
SavesAreLocked ==
  \A m \in Maps : \A i \in DOMAIN up[m] : up[m][i].type = "save" => up[m][i].storage.status = 1

\* A request or an answer is on its way only for a member who waits for it.
Asked(m, p) ==
  \/ \E i \in DOMAIN up[m] : up[m][i].type = "trylock" /\ up[m][i].who = p
  \/ \E i \in DOMAIN down[m] : down[m][i].type = "ack" /\ down[m][i].who = p

AskedWaits ==
  \A m \in Maps, p \in Players : Asked(m, p) => sd[p].at = m /\ sd[p].lockreq # 0

\* And no member waits for two answers.
AskedOnce ==
  \A m \in Maps :
    /\ \A i, j \in DOMAIN up[m] :
         /\ up[m][i].type = "trylock" /\ up[m][j].type = "trylock"
         /\ up[m][i].who = up[m][j].who
         => i = j
    /\ \A i, j \in DOMAIN down[m] :
         /\ down[m][i].type = "ack" /\ down[m][j].type = "ack"
         /\ down[m][i].who = down[m][j].who
         => i = j
    /\ \A i \in DOMAIN up[m], j \in DOMAIN down[m] :
         ~(/\ up[m][i].type = "trylock" /\ down[m][j].type = "ack"
           /\ up[m][i].who = down[m][j].who)

\* Nobody leaves the guild, and a session that departs waits for no answer.
Calm ==
  /\ enrolled = Players
  /\ \A p \in Players : /\ sd[p].at # Off => sd[p].guild
                        /\ sd[p].waiting => sd[p].lockreq = 0
  /\ \A m \in Maps : \A i \in DOMAIN down[m] : down[m][i].type \in {"ack", "load", "info"}

IInv ==
  /\ TypeOK
  /\ OneToken
  /\ FreeMeansNoToken
  /\ OpenIsClosable
  /\ SavesAreLocked
  /\ AskedWaits
  /\ AskedOnce
  /\ Calm

\* Where the messages are after one was taken from a queue.
LEMMA TailPlaces ==
  ASSUME NEW S, NEW q \in [Maps -> Seq(S)], NEW m \in Maps, q[m] # <<>>,
         NEW r, r = [q EXCEPT ![m] = Tail(@)],
         NEW n \in Maps, NEW i \in DOMAIN r[n]
  PROVE  /\ i \in Nat \ {0}
         /\ n = m => i + 1 \in DOMAIN q[n] /\ r[n][i] = q[n][i + 1]
         /\ n # m => i \in DOMAIN q[n] /\ r[n][i] = q[n][i]
<1>1. CASE n = m
  <2>1. r[n] = Tail(q[m])
    BY <1>1
  <2>2. q[m] \in Seq(S)
    OBVIOUS
  <2> QED
    BY <1>1, <2>1, <2>2
<1>2. CASE n # m
  <2>1. r[n] = q[n] /\ q[n] \in Seq(S)
    BY <1>2
  <2> QED
    BY <1>2, <2>1
<1> QED
  BY <1>1, <1>2

\* And after one was added to a queue.
LEMMA AppendPlaces ==
  ASSUME NEW S, NEW q \in [Maps -> Seq(S)], NEW m \in Maps, NEW x \in S,
         NEW r, r = [q EXCEPT ![m] = Append(@, x)],
         NEW n \in Maps, NEW i \in DOMAIN r[n]
  PROVE  /\ i \in Nat \ {0}
         /\ \/ i \in DOMAIN q[n] /\ r[n][i] = q[n][i]
            \/ n = m /\ i = Len(q[m]) + 1 /\ r[n][i] = x
<1>1. CASE n = m
  <2>1. r[n] = Append(q[m], x) /\ q[m] \in Seq(S)
    BY <1>1
  <2> QED
    BY <1>1, <2>1
<1>2. CASE n # m
  <2>1. r[n] = q[n] /\ q[n] \in Seq(S)
    BY <1>2
  <2> QED
    BY <1>2, <2>1
<1> QED
  BY <1>1, <1>2

\* The place behind the last message is free, the first one is the head.
LEMMA NoPlaceBeyond ==
  ASSUME NEW S, NEW q \in [Maps -> Seq(S)], NEW m \in Maps
  PROVE  /\ Len(q[m]) + 1 \notin DOMAIN q[m]
         /\ q[m] # <<>> => 1 \in DOMAIN q[m] /\ Head(q[m]) = q[m][1]
<1>1. q[m] \in Seq(S)
  OBVIOUS
<1> QED
  BY <1>1

\* All tokens are at one place.
OnlyUp(m, k) ==
  /\ \A p \in Players : ~sd[p].flag
  /\ \A n \in Maps : \A i \in Nat : /\ ~DownToken(n, i)
                                    /\ UpToken(n, i) => n = m /\ i = k

OnlyDown(m, k) ==
  /\ \A p \in Players : ~sd[p].flag
  /\ \A n \in Maps : \A i \in Nat : /\ ~UpToken(n, i)
                                    /\ DownToken(n, i) => n = m /\ i = k

OnlyFlag(p) ==
  /\ \A q \in Players : sd[q].flag => q = p
  /\ \A n \in Maps : \A i \in Nat : ~UpToken(n, i) /\ ~DownToken(n, i)

\* Tokens in one place are one token at most.
LEMMA OnlyMeansOne ==
  ASSUME NEW p \in Players, NEW m \in Maps, NEW k \in Nat,
         NoToken \/ OnlyUp(m, k) \/ OnlyDown(m, k) \/ OnlyFlag(p)
  PROVE  OneToken
  BY DEF NoToken, OnlyUp, OnlyDown, OnlyFlag, OneToken, MutualExclusion,
         UpTokenOnly, DownTokenOnly

\* And so are no tokens.
LEMMA NoneMeansOne == NoToken => OneToken
  BY DEF NoToken, OneToken, MutualExclusion, UpTokenOnly, DownTokenOnly

\* Conversely, a token that is somewhere is nowhere else.
LEMMA OneMeansOnly ==
  ASSUME OneToken
  PROVE  /\ \A m \in Maps, k \in Nat : UpToken(m, k) => OnlyUp(m, k)
         /\ \A m \in Maps, k \in Nat : DownToken(m, k) => OnlyDown(m, k)
         /\ \A p \in Players : sd[p].flag => OnlyFlag(p)
  BY DEF OnlyUp, OnlyDown, OnlyFlag, OneToken, MutualExclusion, UpTokenOnly, DownTokenOnly

\* A step that moves tokens only along their queues keeps at most one.
LEMMA MovedTokens ==
  ASSUME OneToken, NEW f \in [Maps -> 0..1], NEW g \in [Maps -> 0..1],
         \A n \in Maps : \A i \in Nat : UpToken(n, i)' => UpToken(n, i + f[n]),
         \A n \in Maps : \A i \in Nat : DownToken(n, i)' => DownToken(n, i + g[n]),
         \A p \in Players : sd'[p].flag => sd[p].flag
  PROVE  /\ OneToken'
         /\ NoToken => NoToken'
<1>1. \A n \in Maps : \A i \in Nat : i + f[n] \in Nat /\ i + g[n] \in Nat
  OBVIOUS
<1>2. MutualExclusion'
  BY DEF OneToken, MutualExclusion
<1>3. UpTokenOnly'
  <2> SUFFICES ASSUME NEW m \in Maps, NEW n \in Maps, NEW i \in Nat, NEW j \in Nat,
                      UpToken(m, i)', UpToken(n, j)'
               PROVE  m = n /\ i = j
    BY DEF UpTokenOnly
  <2>1. m = n /\ i + f[m] = j + f[n]
    BY <1>1 DEF OneToken, UpTokenOnly
  <2> QED
    BY <2>1
<1>4. DownTokenOnly'
  <2> SUFFICES ASSUME NEW m \in Maps, NEW n \in Maps, NEW i \in Nat, NEW j \in Nat,
                      DownToken(m, i)', DownToken(n, j)'
               PROVE  m = n /\ i = j
    BY DEF DownTokenOnly
  <2>1. m = n /\ i + g[m] = j + g[n]
    BY <1>1 DEF OneToken, DownTokenOnly
  <2> QED
    BY <2>1
<1>5. \A m, n \in Maps : \A i, j \in Nat : ~(UpToken(m, i)' /\ DownToken(n, j)')
  BY <1>1 DEF OneToken
<1>6. \A p \in Players, m \in Maps : \A i \in Nat :
        sd'[p].flag => ~UpToken(m, i)' /\ ~DownToken(m, i)'
  BY <1>1 DEF OneToken
<1>7. NoToken => NoToken'
  BY <1>1 DEF NoToken
<1> QED
  BY <1>2, <1>3, <1>4, <1>5, <1>6, <1>7 DEF OneToken

\* What the operations on the queues do to the tokens in them.
LEMMA UpTail ==
  ASSUME TypeOK, NEW m \in Maps, up[m] # <<>>, up' = [up EXCEPT ![m] = Tail(@)]
  PROVE  \A n \in Maps : \A i \in Nat :
           UpToken(n, i)' => i # 0 /\ UpToken(n, i + (IF n = m THEN 1 ELSE 0))
<1> SUFFICES ASSUME NEW n \in Maps, NEW i \in Nat, UpToken(n, i)'
             PROVE  i # 0 /\ UpToken(n, i + (IF n = m THEN 1 ELSE 0))
  OBVIOUS
<1>1. up \in [Maps -> Seq(UpMessage)]
  BY DEF TypeOK
<1>2. i \in DOMAIN up'[n]
  BY DEF UpToken
<1>3. /\ i \in Nat \ {0}
      /\ n = m => i + 1 \in DOMAIN up[n] /\ up'[n][i] = up[n][i + 1]
      /\ n # m => i \in DOMAIN up[n] /\ up'[n][i] = up[n][i]
  BY <1>1, <1>2, TailPlaces
<1> QED
  BY <1>3 DEF UpToken

\* The same for the queues to the map servers.
LEMMA DownTail ==
  ASSUME TypeOK, NEW m \in Maps, down[m] # <<>>, down' = [down EXCEPT ![m] = Tail(@)]
  PROVE  \A n \in Maps : \A i \in Nat :
           DownToken(n, i)' => i # 0 /\ DownToken(n, i + (IF n = m THEN 1 ELSE 0))
<1> SUFFICES ASSUME NEW n \in Maps, NEW i \in Nat, DownToken(n, i)'
             PROVE  i # 0 /\ DownToken(n, i + (IF n = m THEN 1 ELSE 0))
  OBVIOUS
<1>1. down \in [Maps -> Seq(DownMessage)]
  BY DEF TypeOK
<1>2. i \in DOMAIN down'[n]
  BY DEF DownToken
<1>3. /\ i \in Nat \ {0}
      /\ n = m => i + 1 \in DOMAIN down[n] /\ down'[n][i] = down[n][i + 1]
      /\ n # m => i \in DOMAIN down[n] /\ down'[n][i] = down[n][i]
  BY <1>1, <1>2, TailPlaces
<1> QED
  BY <1>3 DEF DownToken

\* A message that is sent to the char server is a token by its type.
LEMMA UpAppend ==
  ASSUME TypeOK, NEW m \in Maps, NEW x \in UpMessage, up' = [up EXCEPT ![m] = Append(@, x)]
  PROVE  \A n \in Maps : \A i \in Nat : UpToken(n, i)' =>
           \/ UpToken(n, i)
           \/ n = m /\ i = Len(up[m]) + 1 /\ x.type \in {"load", "unlock", "deadlock"}
<1> SUFFICES ASSUME NEW n \in Maps, NEW i \in Nat, UpToken(n, i)'
             PROVE  \/ UpToken(n, i)
                    \/ n = m /\ i = Len(up[m]) + 1 /\ x.type \in {"load", "unlock", "deadlock"}
  OBVIOUS
<1>1. up \in [Maps -> Seq(UpMessage)] /\ i \in DOMAIN up'[n]
  BY DEF TypeOK, UpToken
<1>2. \/ i \in DOMAIN up[n] /\ up'[n][i] = up[n][i]
      \/ n = m /\ i = Len(up[m]) + 1 /\ up'[n][i] = x
  BY <1>1, AppendPlaces
<1> QED
  BY <1>2 DEF UpToken

\* A message that is sent to a map server is one when it grants.
LEMMA DownAppend ==
  ASSUME TypeOK, NEW m \in Maps, NEW x \in DownMessage,
         down' = [down EXCEPT ![m] = Append(@, x)]
  PROVE  \A n \in Maps : \A i \in Nat : DownToken(n, i)' =>
           \/ DownToken(n, i)
           \/ n = m /\ i = Len(down[m]) + 1 /\ Grants(x)
<1> SUFFICES ASSUME NEW n \in Maps, NEW i \in Nat, DownToken(n, i)'
             PROVE  \/ DownToken(n, i)
                    \/ n = m /\ i = Len(down[m]) + 1 /\ Grants(x)
  OBVIOUS
<1>1. down \in [Maps -> Seq(DownMessage)] /\ i \in DOMAIN down'[n]
  BY DEF TypeOK, DownToken
<1>2. \/ i \in DOMAIN down[n] /\ down'[n][i] = down[n][i]
      \/ n = m /\ i = Len(down[m]) + 1 /\ down'[n][i] = x
  BY <1>1, AppendPlaces
<1> QED
  BY <1>2 DEF DownToken

\* Queues that stay keep their tokens.
LEMMA SameQueues ==
  /\ UNCHANGED up => \A n \in Maps : \A i \in Nat : UpToken(n, i)' => UpToken(n, i)
  /\ UNCHANGED down => \A n \in Maps : \A i \in Nat : DownToken(n, i)' => DownToken(n, i)
  BY DEF UpToken, DownToken

\* The first message of a queue.
LEMMA FirstToken ==
  ASSUME TypeOK, NEW m \in Maps
  PROVE  /\ up[m] # <<>> /\ Head(up[m]).type \in {"load", "unlock", "deadlock"} => UpToken(m, 1)
         /\ down[m] # <<>> /\ Grants(Head(down[m])) => DownToken(m, 1)
<1>1. up \in [Maps -> Seq(UpMessage)] /\ down \in [Maps -> Seq(DownMessage)]
  BY DEF TypeOK
<1> QED
  BY <1>1, NoPlaceBeyond DEF UpToken, DownToken

\* The lock and its tokens when the char server handles a message.
LEMMA CharReceiveTokens ==
  ASSUME IInv, NEW m \in Maps, CharReceive(m)
  PROVE  OneToken' /\ FreeMeansNoToken'
<1> DEFINE f == [n \in Maps |-> IF n = m THEN 1 ELSE 0]
           g == [n \in Maps |-> 0]
           msg == Head(up[m])
<1>1. /\ TypeOK /\ OneToken /\ FreeMeansNoToken
      /\ up[m] # <<>> /\ up' = [up EXCEPT ![m] = Tail(@)] /\ UNCHANGED sd
  BY DEF IInv, CharReceive
<1>2. f \in [Maps -> 0..1] /\ g \in [Maps -> 0..1] /\ gs \in GStorage
  BY <1>1 DEF TypeOK
<1>0. PICK k \in Nat : k = Len(down[m]) + 1
  <2>1. down[m] \in Seq(DownMessage)
    BY <1>1 DEF TypeOK
  <2> QED
    BY <2>1
<1>3. \A n \in Maps : \A i \in Nat : UpToken(n, i)' => i # 0 /\ UpToken(n, i + f[n])
  BY <1>1, UpTail
<1>4. \A p \in Players : sd'[p].flag => sd[p].flag
  BY <1>1
<1>5. msg \in UpMessage /\ msg = up[m][1] /\ 1 \in DOMAIN up[m]
  BY <1>1, TailTypes, NoPlaceBeyond DEF TypeOK
<1>6. UpToken(m, 1) => \A n \in Maps : \A i \in Nat : ~UpToken(n, i)'
  <2> SUFFICES ASSUME UpToken(m, 1), NEW n \in Maps, NEW i \in Nat, UpToken(n, i)'
               PROVE  FALSE
    OBVIOUS
  <2>1. i # 0 /\ UpToken(n, i + f[n]) /\ i + f[n] \in Nat
    BY <1>2, <1>3
  <2>2. n = m /\ i + f[n] = 1
    BY <1>1, <2>1 DEF OneToken, UpTokenOnly
  <2> QED
    BY <2>1, <2>2
<1>7. CASE ReceiveTrylock(m) /\ gs.status = 0
  <2>1. NoToken /\ gs' = [gs EXCEPT !.status = 1, !.lastFd = link[m]]
    BY <1>1, <1>7 DEF FreeMeansNoToken, ReceiveTrylock
  <2>2. gs'.status = 1
    BY <1>2, <2>1 DEF GStorage
  <2>3. \E x \in DownMessage : down' = [down EXCEPT ![m] = Append(@, x)]
    <3>1. msg.who \in Players
      BY <1>5, <1>7, MessageParts DEF ReceiveTrylock
    <3>2. \A a \in 0..2 : Ack(msg.who, a) \in DownMessage
      BY <3>1 DEF Ack, DownMessage
    <3>3. (IF gs.lastFd = link[m] THEN 1 ELSE 2) \in 0..2
      OBVIOUS
    <3> QED
      BY <1>7, <3>2, <3>3 DEF ReceiveTrylock
  <2>4. \A n \in Maps : \A i \in Nat : DownToken(n, i)' => n = m /\ i = k
    BY <1>0, <1>1, <2>1, <2>3, DownAppend DEF NoToken
  <2>5. OnlyDown(m, k)'
    BY <1>1, <1>2, <1>3, <2>1, <2>4 DEF OnlyDown, NoToken
  <2> QED
    BY <1>2, <2>2, <2>5, OnlyMeansOne DEF FreeMeansNoToken, OneToken, OnlyDown, MutualExclusion,
       UpTokenOnly, DownTokenOnly
<1>8. CASE ReceiveTrylock(m) /\ gs.status # 0
  <2>1. gs' = gs /\ down' = [down EXCEPT ![m] = Append(@, Ack(msg.who, 0))]
    BY <1>8 DEF ReceiveTrylock
  <2>2. Ack(msg.who, 0) \in DownMessage
    BY <1>5, <1>8, MessageParts DEF ReceiveTrylock, Ack, DownMessage
  <2>3. ~Grants(Ack(msg.who, 0))
    BY DEF Ack, Grants
  <2>4. \A n \in Maps : \A i \in Nat : DownToken(n, i)' => DownToken(n, i)
    BY <1>1, <2>1, <2>2, <2>3, DownAppend
  <2>5. \A n \in Maps : \A i \in Nat : g[n] = 0 /\ i + g[n] = i
    OBVIOUS
  <2>6. \A n \in Maps : \A i \in Nat : DownToken(n, i)' => DownToken(n, i + g[n])
    BY <2>4, <2>5, Zenon
  <2>7. OneToken'
    BY <1>1, <1>2, <1>3, <1>4, <2>6, MovedTokens
  <2> QED
    BY <1>8, <2>1, <2>7 DEF FreeMeansNoToken
<1>9. CASE ReceiveUnlock(m)
  <2>1. UpToken(m, 1) /\ UNCHANGED down
    BY <1>1, <1>9, FirstToken DEF ReceiveUnlock, Grants
  <2>2. OnlyUp(m, 1)
    BY <1>1, <2>1, OneMeansOnly
  <2>3. NoToken'
    BY <1>1, <1>6, <2>1, <2>2, SameQueues DEF NoToken, OnlyUp
  <2> QED
    BY <2>3 DEF FreeMeansNoToken, NoToken, OneToken, MutualExclusion, UpTokenOnly, DownTokenOnly
<1>10. CASE ReceiveLoad(m)
  <2>1. UpToken(m, 1) /\ UNCHANGED gs
        /\ down' = [down EXCEPT ![m] = Append(@, LoadReply(msg.who))]
    BY <1>1, <1>10, FirstToken DEF ReceiveLoad
  <2>2. OnlyUp(m, 1) /\ gs.status # 0
    BY <1>1, <2>1, OneMeansOnly DEF FreeMeansNoToken, NoToken
  <2>3. LoadReply(msg.who) \in DownMessage
    BY <1>2, <1>5, <1>10, MessageParts DEF ReceiveLoad, LoadReply, DownMessage
  <2>4. \A n \in Maps : \A i \in Nat : DownToken(n, i)' => n = m /\ i = k
    BY <1>0, <1>1, <2>1, <2>2, <2>3, DownAppend DEF OnlyUp
  <2>5. OnlyDown(m, k)'
    BY <1>1, <1>6, <2>1, <2>2, <2>4 DEF OnlyDown, OnlyUp
  <2> QED
    BY <1>2, <2>1, <2>2, <2>5 DEF FreeMeansNoToken, OneToken, OnlyDown, MutualExclusion,
       UpTokenOnly, DownTokenOnly
<1>11. CASE ReceiveSave(m)
  <2>1. UNCHANGED down /\ gs' = msg.storage /\ msg.type = "save"
    BY <1>11 DEF ReceiveSave
  <2>2. gs'.status = 1
    BY <1>5, <2>1 DEF IInv, SavesAreLocked
  <2>3. \A n \in Maps : \A i \in Nat : DownToken(n, i)' => DownToken(n, i + g[n])
    BY <2>1, SameQueues
  <2>4. OneToken'
    BY <1>1, <1>2, <1>3, <1>4, <2>3, MovedTokens
  <2> QED
    BY <2>2, <2>4 DEF FreeMeansNoToken
<1>12. CASE ReceiveInfoRequest(m)
  <2>1. gs' = gs /\ down' = [down EXCEPT ![m] = Append(@, GuildInfo)]
    BY <1>12 DEF ReceiveInfoRequest
  <2>2. ~Grants(GuildInfo)
    BY InfoType DEF Grants
  <2>3. \A n \in Maps : \A i \in Nat : DownToken(n, i)' => DownToken(n, i)
    BY <1>1, <2>1, <2>2, InfoType, DownAppend
  <2>4. \A n \in Maps : \A i \in Nat : g[n] = 0 /\ i + g[n] = i
    OBVIOUS
  <2>5. \A n \in Maps : \A i \in Nat : DownToken(n, i)' => DownToken(n, i + g[n])
    BY <2>3, <2>4, Zenon
  <2>6. OneToken' /\ (NoToken => NoToken')
    BY <1>1, <1>2, <1>3, <1>4, <2>5, MovedTokens
  <2> QED
    BY <1>1, <2>1, <2>6 DEF FreeMeansNoToken
<1> QED
  BY <1>7, <1>8, <1>9, <1>10, <1>11, <1>12 DEF CharReceive

\* The queues after the char server handled a message.
LEMMA CharReceiveQueues ==
  ASSUME TypeOK, NEW m \in Maps, CharReceive(m), NEW n \in Maps
  PROVE  /\ 1 \in DOMAIN up[m] /\ up[m][1] = Head(up[m])
         /\ \A i \in DOMAIN up'[n] :
              /\ i \in Nat \ {0}
              /\ n = m => i + 1 \in DOMAIN up[n] /\ up'[n][i] = up[n][i + 1]
              /\ n # m => i \in DOMAIN up[n] /\ up'[n][i] = up[n][i]
         /\ \A i \in DOMAIN down'[n] :
              \/ i \in DOMAIN down[n] /\ down'[n][i] = down[n][i]
              \/ /\ n = m /\ i = Len(down[m]) + 1
                 /\ \/ down'[n][i].type \in {"load", "info"}
                    \/ /\ down'[n][i].type = "ack" /\ down'[n][i].who = up[m][1].who
                       /\ up[m][1].type = "trylock"
<1>1. /\ up \in [Maps -> Seq(UpMessage)] /\ down \in [Maps -> Seq(DownMessage)]
      /\ up[m] # <<>> /\ up' = [up EXCEPT ![m] = Tail(@)] /\ gs \in GStorage
  BY DEF TypeOK, CharReceive
<1>2. 1 \in DOMAIN up[m] /\ up[m][1] = Head(up[m]) /\ Head(up[m]) \in UpMessage
  BY <1>1, NoPlaceBeyond, TailTypes
<1>3. ASSUME NEW i \in DOMAIN up'[n]
      PROVE  /\ i \in Nat \ {0}
             /\ n = m => i + 1 \in DOMAIN up[n] /\ up'[n][i] = up[n][i + 1]
             /\ n # m => i \in DOMAIN up[n] /\ up'[n][i] = up[n][i]
  BY <1>1, <1>3, TailPlaces
<1>4. ASSUME NEW i \in DOMAIN down'[n]
      PROVE  \/ i \in DOMAIN down[n] /\ down'[n][i] = down[n][i]
             \/ /\ n = m /\ i = Len(down[m]) + 1
                /\ \/ down'[n][i].type \in {"load", "info"}
                   \/ /\ down'[n][i].type = "ack" /\ down'[n][i].who = up[m][1].who
                      /\ up[m][1].type = "trylock"
  <2>1. CASE ReceiveTrylock(m)
    <3>1. Head(up[m]).who \in Players
      BY <1>2, <2>1, MessageParts DEF ReceiveTrylock
    <3>2. \E a \in 0..2 : down' = [down EXCEPT ![m] = Append(@, Ack(Head(up[m]).who, a))]
      <4>1. (IF gs.lastFd = link[m] THEN 1 ELSE 2) \in 0..2 /\ 0 \in 0..2
        OBVIOUS
      <4> QED
        BY <2>1, <4>1 DEF ReceiveTrylock
    <3>3. PICK a \in 0..2 : down' = [down EXCEPT ![m] = Append(@, Ack(Head(up[m]).who, a))]
      BY <3>2
    <3>4. /\ Ack(Head(up[m]).who, a) \in DownMessage
          /\ Ack(Head(up[m]).who, a).type = "ack"
          /\ Ack(Head(up[m]).who, a).who = Head(up[m]).who
      BY <3>1 DEF Ack, DownMessage
    <3>5. \/ i \in DOMAIN down[n] /\ down'[n][i] = down[n][i]
          \/ n = m /\ i = Len(down[m]) + 1 /\ down'[n][i] = Ack(Head(up[m]).who, a)
      BY <1>1, <1>4, <3>3, <3>4, AppendPlaces
    <3> QED
      BY <1>2, <2>1, <3>4, <3>5 DEF ReceiveTrylock
  <2>2. CASE ReceiveLoad(m)
    <3>1. /\ LoadReply(Head(up[m]).who) \in DownMessage
          /\ LoadReply(Head(up[m]).who).type = "load"
          /\ down' = [down EXCEPT ![m] = Append(@, LoadReply(Head(up[m]).who))]
      BY <1>1, <1>2, <2>2, MessageParts DEF ReceiveLoad, LoadReply, DownMessage
    <3>2. \/ i \in DOMAIN down[n] /\ down'[n][i] = down[n][i]
          \/ n = m /\ i = Len(down[m]) + 1 /\ down'[n][i] = LoadReply(Head(up[m]).who)
      BY <1>1, <1>4, <3>1, AppendPlaces
    <3> QED
      BY <3>1, <3>2
  <2>3. CASE ReceiveUnlock(m) \/ ReceiveSave(m)
    BY <1>4, <2>3 DEF ReceiveUnlock, ReceiveSave
  <2>4. CASE ReceiveInfoRequest(m)
    <3>1. down' = [down EXCEPT ![m] = Append(@, GuildInfo)]
      BY <2>4 DEF ReceiveInfoRequest
    <3>2. \/ i \in DOMAIN down[n] /\ down'[n][i] = down[n][i]
          \/ n = m /\ i = Len(down[m]) + 1 /\ down'[n][i] = GuildInfo
      BY <1>1, <1>4, <3>1, InfoType, AppendPlaces
    <3> QED
      BY <3>2, InfoType
  <2> QED
    BY <2>1, <2>2, <2>3, <2>4 DEF CharReceive
<1> QED
  BY <1>2, <1>3, <1>4

\* The char server's handlers keep the invariant.
LEMMA CharReceiveInv ==
  ASSUME IInv, NEW m \in Maps, CharReceive(m)
  PROVE  IInv'
<1>1. TypeOK /\ TypeOK' /\ OneToken' /\ FreeMeansNoToken'
  BY CharReceiveTypes, CharReceiveTokens DEF IInv
<1>2. UNCHANGED <<link, cached, cache, sd, enrolled, drops>>
  BY DEF CharReceive
<1>3. OpenIsClosable'
  BY <1>2 DEF IInv, OpenIsClosable, Closable, Playing
<1>4. SavesAreLocked'
  <2> SUFFICES ASSUME NEW n \in Maps, NEW i \in DOMAIN up'[n], up'[n][i].type = "save"
               PROVE  up'[n][i].storage.status = 1
    BY DEF SavesAreLocked
  <2>1. \E j \in DOMAIN up[n] : up'[n][i] = up[n][j]
    BY <1>1, CharReceiveQueues
  <2> QED
    BY <2>1 DEF IInv, SavesAreLocked
<1>5. ASSUME NEW n \in Maps, NEW p \in Players, Asked(n, p)'
      PROVE  Asked(n, p)
  <2>1. CASE \E i \in DOMAIN up'[n] : up'[n][i].type = "trylock" /\ up'[n][i].who = p
    BY <1>1, <2>1, CharReceiveQueues DEF Asked
  <2>2. CASE \E i \in DOMAIN down'[n] : down'[n][i].type = "ack" /\ down'[n][i].who = p
    BY <1>1, <2>2, CharReceiveQueues DEF Asked
  <2> QED
    BY <1>5, <2>1, <2>2 DEF Asked
<1>6. AskedWaits'
  BY <1>2, <1>5 DEF IInv, AskedWaits
<1>7. AskedOnce'
  <2> SUFFICES ASSUME NEW n \in Maps
               PROVE  /\ \A i, j \in DOMAIN up'[n] :
                           /\ up'[n][i].type = "trylock" /\ up'[n][j].type = "trylock"
                           /\ up'[n][i].who = up'[n][j].who
                           => i = j
                      /\ \A i, j \in DOMAIN down'[n] :
                           /\ down'[n][i].type = "ack" /\ down'[n][j].type = "ack"
                           /\ down'[n][i].who = down'[n][j].who
                           => i = j
                      /\ \A i \in DOMAIN up'[n], j \in DOMAIN down'[n] :
                           ~(/\ up'[n][i].type = "trylock" /\ down'[n][j].type = "ack"
                             /\ up'[n][i].who = down'[n][j].who)
    BY DEF AskedOnce
  <2>1. AskedOnce
    BY DEF IInv
  <2>2. ASSUME NEW i \in DOMAIN up'[n], NEW j \in DOMAIN up'[n],
               up'[n][i].type = "trylock", up'[n][j].type = "trylock",
               up'[n][i].who = up'[n][j].who
        PROVE  i = j
    <3>1. CASE n = m
      <4>1. /\ i \in Nat /\ i + 1 \in DOMAIN up[n] /\ up'[n][i] = up[n][i + 1]
            /\ j \in Nat /\ j + 1 \in DOMAIN up[n] /\ up'[n][j] = up[n][j + 1]
        BY <1>1, <3>1, CharReceiveQueues
      <4>2. i + 1 = j + 1
        BY <2>1, <2>2, <4>1 DEF AskedOnce
      <4> QED
        BY <4>1, <4>2
    <3>2. CASE n # m
      <4>1. /\ i \in DOMAIN up[n] /\ up'[n][i] = up[n][i]
            /\ j \in DOMAIN up[n] /\ up'[n][j] = up[n][j]
        BY <1>1, <3>2, CharReceiveQueues
      <4> QED
        BY <2>1, <2>2, <4>1 DEF AskedOnce
    <3> QED
      BY <3>1, <3>2
  <2>3. ASSUME NEW i \in DOMAIN down'[n], NEW j \in DOMAIN down'[n],
               down'[n][i].type = "ack", down'[n][j].type = "ack",
               down'[n][i].who = down'[n][j].who
        PROVE  i = j
    BY <1>1, <2>1, <2>3, CharReceiveQueues DEF AskedOnce
  <2>4. ASSUME NEW i \in DOMAIN up'[n], NEW j \in DOMAIN down'[n],
               up'[n][i].type = "trylock", down'[n][j].type = "ack",
               up'[n][i].who = down'[n][j].who
        PROVE  FALSE
    <3>1. PICK k \in DOMAIN up[n] : up'[n][i] = up[n][k] /\ (n = m => k # 1)
      <4>1. CASE n = m
        <5>1. i \in Nat \ {0} /\ i + 1 \in DOMAIN up[n] /\ up'[n][i] = up[n][i + 1]
          BY <1>1, <4>1, CharReceiveQueues
        <5> QED
          BY <5>1
      <4>2. CASE n # m
        BY <1>1, <4>2, CharReceiveQueues
      <4> QED
        BY <4>1, <4>2
    <3>2. CASE j \in DOMAIN down[n] /\ down'[n][j] = down[n][j]
      BY <2>1, <2>4, <3>1, <3>2 DEF AskedOnce
    <3>3. CASE n = m /\ down'[n][j].who = up[m][1].who /\ up[m][1].type = "trylock"
      <4>1. 1 \in DOMAIN up[m]
        BY <1>1, CharReceiveQueues
      <4> QED
        BY <2>1, <2>4, <3>1, <3>3, <4>1 DEF AskedOnce
    <3> QED
      BY <1>1, <2>4, <3>2, <3>3, CharReceiveQueues
  <2> QED
    BY <2>2, <2>3, <2>4
<1>8. Calm'
  <2>1. \A n \in Maps : \A i \in DOMAIN down'[n] : down'[n][i].type \in {"ack", "load", "info"}
    BY <1>1, CharReceiveQueues DEF IInv, Calm
  <2> QED
    BY <1>2, <2>1 DEF IInv, Calm
<1> QED
  BY <1>1, <1>3, <1>4, <1>6, <1>7, <1>8 DEF IInv

\* In the calm environment the answer finds its member where it was asked.
LEMMA AckFindsMember ==
  ASSUME IInv, NEW m \in Maps, down[m] # <<>>, Head(down[m]).type = "ack"
  PROVE  LET p == Head(down[m]).who
         IN  /\ p \in Players
             /\ Asked(m, p) /\ Here(p, m) /\ sd[p].guild /\ ~sd[p].waiting
             /\ sd[p].lockreq \in {1, 2} /\ sd[p] \in Session
<1> DEFINE p == Head(down[m]).who
<1>1. down \in [Maps -> Seq(DownMessage)] /\ sd \in [Players -> Session]
  BY DEF IInv, TypeOK
<1>2. 1 \in DOMAIN down[m] /\ Head(down[m]) = down[m][1] /\ Head(down[m]) \in DownMessage
  BY <1>1, NoPlaceBeyond, TailTypes
<1>3. p \in Players
  BY <1>2, MessageParts
<1>4. Asked(m, p)
  BY <1>2 DEF Asked
<1>5. sd[p].at = m /\ sd[p].lockreq # 0 /\ sd[p] \in Session
  BY <1>1, <1>3, <1>4 DEF IInv, AskedWaits
<1>6. sd[p].guild /\ ~sd[p].waiting
  BY <1>3, <1>5, MapsAssumption DEF IInv, Calm
<1>7. sd[p].lockreq \in {1, 2}
  BY <1>5, SMTT(20) DEF Session
<1>8. Here(p, m)
  <2>1. sd[p].at = m
    BY <1>5, Zenon
  <2> QED
    BY <2>1, Zenon DEF Here
<1> QED
  BY <1>3, <1>4, <1>5, <1>6, <1>7, <1>8, Zenon

\* What the cache becomes when an answer opens the storage.
KeptBy(m) == IF Head(down[m]).flag = 2 THEN cached \ {m} ELSE cached

\* What an answer does: a refusal is taken note of, a grant opens the storage
\* (or, when a script no longer waits for it, is taken note of as well).
LEMMA AckOutcome ==
  ASSUME IInv, NEW m \in Maps, down[m] # <<>>, ReceiveAck(m)
  PROVE  LET p == Head(down[m]).who
         IN  \E s \in Session :
               /\ s.at = m /\ s.flag = sd[p].flag /\ s.guild = sd[p].guild
               /\ s.waiting = sd[p].waiting /\ s.lockreq = 0
               /\ \/ /\ UNCHANGED <<up, cached, cache>> /\ sd' = [sd EXCEPT ![p] = s]
                     /\ \/ ~Grants(Head(down[m]))
                        \/ sd[p].lockreq = 1 /\ sd[p].menu # "asked"
                  \/ Grants(Head(down[m])) /\ StorageOpen(p, m, s, KeptBy(m))
<1> DEFINE p == Head(down[m]).who
           flag == Head(down[m]).flag
           done == [sd[p] EXCEPT !.lockreq = 0]
           answered == [done EXCEPT !.npcMenu = flag]
           after == [answered EXCEPT !.menu = "none"]
           finished == [after EXCEPT !.npcMenu = 0]
           Like(s) == /\ s \in Session /\ s.at = m /\ s.flag = sd[p].flag
                      /\ s.guild = sd[p].guild /\ s.waiting = sd[p].waiting /\ s.lockreq = 0
<1>1. /\ p \in Players /\ sd[p] \in Session /\ sd[p].guild /\ Here(p, m) /\ sd[p].at = m
      /\ sd[p].lockreq \in {1, 2} /\ Head(down[m]).type = "ack"
  <2>1. Head(down[m]).type = "ack"
    BY DEF ReceiveAck
  <2> QED
    BY <2>1, AckFindsMember DEF Here
<1>2. flag \in 0..2
  <2>1. Head(down[m]) \in DownMessage
    BY TailTypes DEF IInv, TypeOK
  <2> QED
    BY <1>1, <2>1, MessageParts
<1>3. Like(done)
  <2>1. done \in Session
    BY <1>1 DEF Session
  <2> QED
    BY <1>1, <2>1 DEF Session
<1>4. ASSUME NEW s \in Session, Like(s)
      PROVE  /\ \A n \in 0..2 : Like([s EXCEPT !.npcMenu = n])
             /\ Like([s EXCEPT !.menu = "none"])
  <2>1. /\ \A n \in 0..2 : [s EXCEPT !.npcMenu = n] \in Session
        /\ [s EXCEPT !.menu = "none"] \in Session
    BY SessionFields
  <2> QED
    BY <1>4, <2>1 DEF Session
<1> HIDE DEF Like
<1>5. done \in Session
  BY <1>1 DEF Session
<1>6. Like(answered) /\ answered \in Session
  BY <1>2, <1>3, <1>4, <1>5, SessionFields, Zenon
<1>7. Like(after) /\ after \in Session
  BY <1>4, <1>6 DEF Like
<1>8. Like(finished) /\ finished \in Session
  <2>1. 0 \in 0..2
    OBVIOUS
  <2>2. Like(finished)
    BY <1>4, <1>7, <2>1, Zenon
  <2> QED
    BY <2>2 DEF Like
<1>9. /\ answered.at = m /\ answered.npcMenu = flag
  <2>1. done.at = m /\ done \in Session
    BY <1>3, <1>5 DEF Like
  <2> QED
    BY <2>1 DEF Session
<1>10. (flag # 0 <=> Grants(Head(down[m]))) /\ KeptBy(m) = IF flag = 2 THEN cached \ {m} ELSE cached
  BY <1>1 DEF Grants, KeptBy
<1>11. CASE sd[p].lockreq = 1 /\ sd[p].menu = "asked" /\ GuildOpenStorage(p, answered)
  <2>1. answered.guild
    BY <1>1, <1>6 DEF Like
  <2>2. \/ flag = 0 /\ UNCHANGED <<up, cached, cache>> /\ sd' = [sd EXCEPT ![p] = finished]
        \/ flag # 0 /\ StorageOpen(p, m, finished, KeptBy(m))
    <3> HIDE DEF answered
    <3> QED
      BY <1>9, <1>10, <1>11, <2>1 DEF GuildOpenStorage
  <2> QED
    BY <1>8, <1>10, <2>2 DEF Like
<1>12. CASE /\ sd[p].lockreq = 1 /\ sd[p].menu # "asked"
            /\ sd' = [sd EXCEPT ![p] = answered] /\ UNCHANGED <<up, cached, cache>>
  BY <1>6, <1>12 DEF Like
<1>13. CASE flag = 0 /\ sd' = [sd EXCEPT ![p] = done] /\ UNCHANGED <<up, cached, cache>>
  BY <1>3, <1>10, <1>13 DEF Like
<1>14. CASE flag # 0 /\ StorageOpen(p, m, done, KeptBy(m))
  BY <1>3, <1>10, <1>14 DEF Like
<1>15. \/ sd[p].lockreq = 1 /\ sd[p].menu = "asked" /\ GuildOpenStorage(p, answered)
       \/ /\ sd[p].lockreq = 1 /\ sd[p].menu # "asked"
          /\ sd' = [sd EXCEPT ![p] = answered] /\ UNCHANGED <<up, cached, cache>>
       \/ flag = 0 /\ sd' = [sd EXCEPT ![p] = done] /\ UNCHANGED <<up, cached, cache>>
       \/ flag # 0 /\ StorageOpen(p, m, done, KeptBy(m))
  <2>1. Here(p, m) /\ sd[p].guild /\ sd[p].lockreq # 0
    <3>1. sd[p].lockreq \in {1, 2} => sd[p].lockreq # 0
      OBVIOUS
    <3> QED
      BY <1>1, <3>1, Zenon
  <2>2. \/ sd[p].lockreq = 1 /\ sd[p].menu = "asked" /\ GuildOpenStorage(p, answered)
        \/ /\ sd[p].lockreq = 1 /\ sd[p].menu # "asked"
           /\ sd' = [sd EXCEPT ![p] = answered] /\ UNCHANGED <<up, cached, cache>>
        \/ flag = 0 /\ sd' = [sd EXCEPT ![p] = done] /\ UNCHANGED <<up, cached, cache>>
        \/ flag # 0 /\ StorageOpen(p, m, done, IF flag = 2 THEN cached \ {m} ELSE cached)
    BY <2>1 DEF ReceiveAck
  <2> HIDE DEF done, answered, flag, p
  <2> QED
    BY <1>10, <2>2
<1> HIDE DEF flag, done, answered, after, finished
<1> QED
  BY <1>11, <1>12, <1>13, <1>14, <1>15

\* A step that takes messages only from the front of the down queues and adds no
\* request to the up queues.
Quiet(g) ==
  /\ \A n \in Maps : \A i \in DOMAIN up'[n] :
       \/ i \in DOMAIN up[n] /\ up'[n][i] = up[n][i]
       \/ /\ up'[n][i].type # "trylock"
          /\ up'[n][i].type = "save" => up'[n][i].storage.status = 1
  /\ \A n \in Maps : \A i \in DOMAIN down'[n] :
       i + g[n] \in DOMAIN down[n] /\ down'[n][i] = down[n][i + g[n]]

\* Such a step adds no question that waits for an answer, nor an open save.
LEMMA QuietKeeps ==
  ASSUME IInv, TypeOK', NEW g \in [Maps -> 0..1], Quiet(g)
  PROVE  /\ SavesAreLocked'
         /\ AskedOnce'
         /\ \A n \in Maps, p \in Players : Asked(n, p)' => Asked(n, p)
         /\ \A n \in Maps : \A i \in DOMAIN down'[n] : down'[n][i].type \in {"ack", "load", "info"}
<1>1. \A n \in Maps : \A i \in DOMAIN down'[n] : i \in Nat \ {0}
  <2>1. down' \in [Maps -> Seq(DownMessage)]
    BY DEF TypeOK
  <2>2. \A n \in Maps : down'[n] \in Seq(DownMessage)
    BY <2>1
  <2> QED
    BY <2>2
<1>2. SavesAreLocked'
  BY DEF Quiet, IInv, SavesAreLocked
<1>3. AskedOnce'
  <2> SUFFICES ASSUME NEW n \in Maps
               PROVE  /\ \A i, j \in DOMAIN up'[n] :
                           /\ up'[n][i].type = "trylock" /\ up'[n][j].type = "trylock"
                           /\ up'[n][i].who = up'[n][j].who
                           => i = j
                      /\ \A i, j \in DOMAIN down'[n] :
                           /\ down'[n][i].type = "ack" /\ down'[n][j].type = "ack"
                           /\ down'[n][i].who = down'[n][j].who
                           => i = j
                      /\ \A i \in DOMAIN up'[n], j \in DOMAIN down'[n] :
                           ~(/\ up'[n][i].type = "trylock" /\ down'[n][j].type = "ack"
                             /\ up'[n][i].who = down'[n][j].who)
    BY DEF AskedOnce
  <2>1. AskedOnce
    BY DEF IInv
  <2>2. \A i, j \in DOMAIN up'[n] :
           /\ up'[n][i].type = "trylock" /\ up'[n][j].type = "trylock"
           /\ up'[n][i].who = up'[n][j].who
           => i = j
    BY <2>1 DEF AskedOnce, Quiet
  <2>3. ASSUME NEW i \in DOMAIN down'[n], NEW j \in DOMAIN down'[n],
               down'[n][i].type = "ack", down'[n][j].type = "ack",
               down'[n][i].who = down'[n][j].who
        PROVE  i = j
    <3>1. /\ i + g[n] \in DOMAIN down[n] /\ down'[n][i] = down[n][i + g[n]]
          /\ j + g[n] \in DOMAIN down[n] /\ down'[n][j] = down[n][j + g[n]]
      BY <2>3 DEF Quiet
    <3>2. i + g[n] = j + g[n]
      BY <2>1, <2>3, <3>1 DEF AskedOnce
    <3> QED
      BY <1>1, <2>3, <3>2
  <2>4. \A i \in DOMAIN up'[n], j \in DOMAIN down'[n] :
          ~(/\ up'[n][i].type = "trylock" /\ down'[n][j].type = "ack"
            /\ up'[n][i].who = down'[n][j].who)
    BY <2>1 DEF AskedOnce, Quiet
  <2> QED
    BY <2>2, <2>3, <2>4
<1>4. ASSUME NEW n \in Maps, NEW p \in Players, Asked(n, p)'
      PROVE  Asked(n, p)
  BY <1>4 DEF Asked, Quiet
<1>5. \A n \in Maps : \A i \in DOMAIN down'[n] : down'[n][i].type \in {"ack", "load", "info"}
  BY DEF IInv, Calm, Quiet
<1> QED
  BY <1>2, <1>3, <1>4, <1>5

\* What is left to show of a quiet step.
LEMMA QuietInv ==
  ASSUME IInv, TypeOK', NEW g \in [Maps -> 0..1], Quiet(g),
         OneToken', FreeMeansNoToken', OpenIsClosable', UNCHANGED enrolled,
         \A p \in Players : /\ sd'[p].at # Off => sd'[p].guild
                            /\ sd'[p].waiting => sd'[p].lockreq = 0,
         \A n \in Maps, p \in Players :
           Asked(n, p) /\ Asked(n, p)' => sd'[p].at = n /\ sd'[p].lockreq # 0
  PROVE  IInv'
<1>1. AskedWaits'
  BY QuietKeeps DEF AskedWaits
<1>2. Calm'
  BY QuietKeeps DEF IInv, Calm
<1> QED
  BY <1>1, <1>2, QuietKeeps DEF IInv

\* A map server that takes an answer or a load adds no request.
LEMMA MapReceiveQuiet ==
  ASSUME IInv, NEW m \in Maps, down[m] # <<>>, down' = [down EXCEPT ![m] = Tail(@)],
         \/ UNCHANGED up
         \/ \E x \in UpMessage : /\ x.type \notin {"trylock", "save"}
                                 /\ up' = [up EXCEPT ![m] = Append(@, x)]
  PROVE  Quiet([n \in Maps |-> IF n = m THEN 1 ELSE 0])
<1>1. up \in [Maps -> Seq(UpMessage)] /\ down \in [Maps -> Seq(DownMessage)]
  BY DEF IInv, TypeOK
<1>2. ASSUME NEW n \in Maps, NEW i \in DOMAIN down'[n]
      PROVE  /\ i + (IF n = m THEN 1 ELSE 0) \in DOMAIN down[n]
             /\ down'[n][i] = down[n][i + (IF n = m THEN 1 ELSE 0)]
  <2>1. /\ i \in Nat \ {0}
        /\ n = m => i + 1 \in DOMAIN down[n] /\ down'[n][i] = down[n][i + 1]
        /\ n # m => i \in DOMAIN down[n] /\ down'[n][i] = down[n][i]
    BY <1>1, <1>2, TailPlaces
  <2> QED
    BY <2>1
<1>3. ASSUME NEW n \in Maps, NEW i \in DOMAIN up'[n]
      PROVE  \/ i \in DOMAIN up[n] /\ up'[n][i] = up[n][i]
             \/ up'[n][i].type \notin {"trylock", "save"}
  <2>1. CASE UNCHANGED up
    BY <1>3, <2>1
  <2>2. ASSUME NEW x \in UpMessage, x.type \notin {"trylock", "save"},
               up' = [up EXCEPT ![m] = Append(@, x)]
        PROVE  \/ i \in DOMAIN up[n] /\ up'[n][i] = up[n][i]
               \/ up'[n][i].type \notin {"trylock", "save"}
    <3>1. \/ i \in DOMAIN up[n] /\ up'[n][i] = up[n][i]
          \/ up'[n][i] = x
      BY <1>1, <1>3, <2>2, AppendPlaces
    <3> QED
      BY <2>2, <3>1
  <2> QED
    BY <2>1, <2>2
<1> QED
  BY <1>2, <1>3 DEF Quiet

\* Steps that leave the lock held and keep every token at one place.
LEMMA OnlyKeeps ==
  ASSUME TypeOK, TypeOK', UNCHANGED gs, gs.status # 0,
         NEW p \in Players, NEW m \in Maps, NEW k \in Nat,
         NoToken' \/ OnlyUp(m, k)' \/ OnlyDown(m, k)' \/ OnlyFlag(p)'
  PROVE  OneToken' /\ FreeMeansNoToken'
<1>1. OneToken'
  BY DEF NoToken, OnlyUp, OnlyDown, OnlyFlag, OneToken, MutualExclusion,
         UpTokenOnly, DownTokenOnly
<1> QED
  BY <1>1 DEF FreeMeansNoToken

\* A granted answer or a load is the only token.
LEMMA TakenToken ==
  ASSUME IInv, NEW m \in Maps, down[m] # <<>>, Grants(Head(down[m])),
         down' = [down EXCEPT ![m] = Tail(@)]
  PROVE  /\ gs.status # 0
         /\ \A p \in Players : ~sd[p].flag
         /\ \A n \in Maps : \A i \in Nat : ~UpToken(n, i) /\ ~DownToken(n, i)'
<1>1. TypeOK /\ OneToken /\ FreeMeansNoToken
  BY DEF IInv
<1>2. DownToken(m, 1)
  BY <1>1, FirstToken
<1>3. OnlyDown(m, 1)
  BY <1>1, <1>2, OneMeansOnly
<1>4. gs.status # 0
  BY <1>1, <1>2 DEF FreeMeansNoToken, NoToken
<1>5. ASSUME NEW n \in Maps, NEW i \in Nat, DownToken(n, i)'
      PROVE  FALSE
  <2>1. i # 0 /\ DownToken(n, i + (IF n = m THEN 1 ELSE 0))
    BY <1>1, <1>5, DownTail
  <2>2. n = m /\ i + (IF n = m THEN 1 ELSE 0) = 1
    BY <1>3, <2>1 DEF OnlyDown
  <2> QED
    BY <2>1, <2>2
<1> QED
  BY <1>3, <1>4, <1>5 DEF OnlyDown

\* What is left of a grant: the tokens are right, up holds at most a new request
\* to load, and no session but p's changed.
Opened(p, m, s) ==
  /\ OneToken' /\ FreeMeansNoToken' /\ OpenIsClosable'
  /\ \/ UNCHANGED up
     \/ up' = [up EXCEPT ![m] = Append(@, LoadReq(p))]
  /\ \A q \in Players :
       /\ q # p => sd'[q] = sd[q]
       /\ q = p => /\ sd'[q].at = s.at /\ sd'[q].guild = s.guild
                  /\ sd'[q].waiting = s.waiting /\ sd'[q].lockreq = s.lockreq

\* Opening the storage turns the token into an open session, into a request to
\* load or, when the session may not open, into nothing.
LEMMA OpenTokens ==
  ASSUME IInv, TypeOK', NEW m \in Maps, down[m] # <<>>, Grants(Head(down[m])),
         down' = [down EXCEPT ![m] = Tail(@)], UNCHANGED gs,
         NEW p \in Players, NEW s \in Session, s.flag = sd[p].flag, s.at = m, ~s.waiting,
         NEW kept \in SUBSET Maps, StorageOpen(p, m, s, kept)
  PROVE  Opened(p, m, s)
<1> USE DEF Opened
<1>1. /\ gs.status # 0 /\ \A q \in Players : ~sd[q].flag
      /\ \A n \in Maps : \A i \in Nat : ~UpToken(n, i) /\ ~DownToken(n, i)'
  BY TakenToken
<1>2. TypeOK /\ sd \in [Players -> Session] /\ cache \in [Maps -> GStorage]
      /\ up \in [Maps -> Seq(UpMessage)] /\ LoadReq(p) \in UpMessage
  BY MessageTypes DEF IInv, TypeOK, LoadReq, UpMessage
<1>3. PICK k \in Nat : k = Len(up[m]) + 1
  <2>1. up[m] \in Seq(UpMessage)
    BY <1>2
  <2> QED
    BY <2>1
<1>0. \A q \in Players :
        /\ q # p => sd'[q] = sd[q]
        /\ q = p => /\ sd'[q].at = s.at /\ sd'[q].guild = s.guild
                   /\ sd'[q].waiting = s.waiting /\ sd'[q].lockreq = s.lockreq
  <2>1. CASE sd' = [sd EXCEPT ![p] = s]
    BY <1>2, <2>1
  <2>2. CASE sd' = [sd EXCEPT ![p] = [s EXCEPT !.flag = TRUE]]
    <3>1. sd'[p] = [s EXCEPT !.flag = TRUE]
      BY <1>2, <2>2
    <3>2. \A q \in Players : q # p => sd'[q] = sd[q]
      BY <1>2, <2>2
    <3> QED
      BY <3>1, <3>2 DEF Session
  <2> QED
    BY <2>1, <2>2 DEF StorageOpen
<1>4. CASE sd' = [sd EXCEPT ![p] = s] /\ UNCHANGED up
  <2>1. \A q \in Players : ~sd'[q].flag
    BY <1>1, <1>2, <1>4
  <2>2. NoToken'
    BY <1>1, <1>4, <2>1, SameQueues DEF NoToken
  <2>3. OneToken' /\ FreeMeansNoToken'
    BY <1>1, <1>2, <2>2, <1>3, OnlyKeeps
  <2> QED
    BY <1>0, <1>4, <2>1, <2>3 DEF OpenIsClosable
<1>5. CASE /\ sd' = [sd EXCEPT ![p] = [s EXCEPT !.flag = TRUE]] /\ UNCHANGED up
           /\ cached' = kept /\ m \in kept /\ s.guild
           /\ cache' = [cache EXCEPT ![m].status = 1]
  <2>1. \A q \in Players : sd'[q].flag => q = p
    BY <1>1, <1>2, <1>5
  <2>2. OnlyFlag(p)'
    BY <1>1, <1>5, <2>1, SameQueues DEF OnlyFlag
  <2>3. OneToken' /\ FreeMeansNoToken'
    BY <1>1, <1>2, <2>2, <1>3, OnlyKeeps
  <2>4. /\ sd'[p].at = m /\ sd'[p].flag /\ sd'[p].guild /\ ~sd'[p].waiting
        /\ cache'[m].status = 1
    <3>1. sd'[p] = [s EXCEPT !.flag = TRUE]
      BY <1>2, <1>5
    <3>2. cache'[m] = [cache[m] EXCEPT !.status = 1] /\ cache[m] \in GStorage
      BY <1>2, <1>5
    <3> QED
      BY <3>1, <3>2, <1>5 DEF Session, GStorage
  <2>5. OpenIsClosable'
    BY <1>5, <2>1, <2>4, MapsAssumption DEF OpenIsClosable, Closable, Playing
  <2> QED
    BY <1>0, <1>5, <2>3, <2>5
<1>6. CASE /\ sd' = [sd EXCEPT ![p] = s]
           /\ up' = [up EXCEPT ![m] = Append(@, LoadReq(p))]
  <2>1. \A q \in Players : ~sd'[q].flag
    BY <1>1, <1>2, <1>6
  <2>2. OnlyUp(m, k)'
    BY <1>1, <1>2, <1>3, <1>6, <2>1, UpAppend DEF OnlyUp
  <2>3. OneToken' /\ FreeMeansNoToken'
    BY <1>1, <1>2, <2>2, OnlyKeeps
  <2> QED
    BY <1>0, <1>6, <2>1, <2>3 DEF OpenIsClosable
<1> QED
  BY <1>4, <1>5, <1>6 DEF StorageOpen, SendUp

\* An answer in the calm environment keeps the invariant.
LEMMA AckInv ==
  ASSUME IInv, TypeOK', NEW m \in Maps, down[m] # <<>>, ReceiveAck(m),
         down' = [down EXCEPT ![m] = Tail(@)], UNCHANGED <<gs, link, enrolled, drops>>
  PROVE  IInv'
<1> DEFINE g == [n \in Maps |-> IF n = m THEN 1 ELSE 0]
           f == [n \in Maps |-> 0]
<1>0. PICK p \in Players : p = Head(down[m]).who
  BY AckFindsMember DEF ReceiveAck
<1>1. PICK s \in Session :
        /\ s.at = m /\ s.flag = sd[p].flag /\ s.guild = sd[p].guild
        /\ s.waiting = sd[p].waiting /\ s.lockreq = 0
        /\ \/ UNCHANGED <<up, cached, cache>> /\ sd' = [sd EXCEPT ![p] = s]
           \/ /\ Grants(Head(down[m]))
              /\ \E kept \in SUBSET Maps : StorageOpen(p, m, s, kept)
  <2>1. KeptBy(m) \in SUBSET Maps
    BY DEF KeptBy, IInv, TypeOK
  <2> QED
    BY <1>0, <2>1, AckOutcome, Zenon
<1>2. /\ p \in Players /\ Asked(m, p) /\ sd[p].at = m /\ sd[p].guild /\ ~sd[p].waiting
      /\ Head(down[m]).type = "ack"
  <2>1. Head(down[m]).type = "ack"
    BY DEF ReceiveAck
  <2> QED
    BY <1>0, <2>1, AckFindsMember DEF Here
<1>3. /\ TypeOK /\ OneToken /\ FreeMeansNoToken /\ sd \in [Players -> Session]
      /\ f \in [Maps -> 0..1] /\ g \in [Maps -> 0..1]
  BY DEF IInv, TypeOK
<1>4. ASSUME UNCHANGED <<up, cached, cache>>, sd' = [sd EXCEPT ![p] = s]
      PROVE  OneToken' /\ FreeMeansNoToken' /\ OpenIsClosable'
  <2>1. \A q \in Players : sd'[q].flag => sd[q].flag
    BY <1>1, <1>2, <1>3, <1>4
  <2>2. \A n \in Maps : \A i \in Nat : UpToken(n, i)' => UpToken(n, i + f[n])
    BY <1>4, SameQueues
  <2>3. \A n \in Maps : \A i \in Nat : DownToken(n, i)' => DownToken(n, i + g[n])
    BY <1>3, DownTail
  <2>4. OneToken' /\ (NoToken => NoToken')
    BY <1>3, <2>1, <2>2, <2>3, MovedTokens
  <2>5. FreeMeansNoToken'
    BY <1>3, <2>4 DEF FreeMeansNoToken
  <2>6. ASSUME NEW q \in Players
        PROVE  /\ sd'[q].flag = sd[q].flag /\ sd'[q].guild = sd[q].guild
               /\ sd'[q].waiting = sd[q].waiting /\ sd'[q].at = sd[q].at
    BY <1>1, <1>2, <1>3, <1>4
  <2>7. OpenIsClosable'
    BY <1>4, <2>6 DEF IInv, OpenIsClosable, Closable, Playing
  <2> QED
    BY <2>4, <2>5, <2>7
<1>5. Opened(p, m, s)
  <2>1. CASE UNCHANGED <<up, cached, cache>> /\ sd' = [sd EXCEPT ![p] = s]
    BY <1>3, <1>4, <2>1 DEF Opened
  <2>2. CASE /\ Grants(Head(down[m]))
             /\ \E kept \in SUBSET Maps : StorageOpen(p, m, s, kept)
    <3>1. PICK kept \in SUBSET Maps : StorageOpen(p, m, s, kept)
      BY <2>2
    <3>2. s.flag = sd[p].flag /\ s.at = m /\ ~s.waiting /\ UNCHANGED gs
      BY <1>1, <1>2
    <3> QED
      BY <2>2, <3>1, <3>2, OpenTokens
  <2> QED
    BY <1>1, <2>1, <2>2
<1>6. LoadReq(p) \in UpMessage /\ LoadReq(p).type \notin {"trylock", "save"}
  BY <1>2 DEF LoadReq, UpMessage
<1>7. Quiet(g)
  BY <1>5, <1>6, MapReceiveQuiet DEF Opened
<1>8. ASSUME NEW q \in Players
      PROVE  /\ sd'[q].at = sd[q].at /\ sd'[q].guild = sd[q].guild
             /\ sd'[q].waiting = sd[q].waiting
             /\ IF q = p THEN sd'[q].lockreq = 0 ELSE sd'[q] = sd[q]
  BY <1>1, <1>2, <1>5 DEF Opened
<1>9. ASSUME NEW n \in Maps, Asked(n, p)'
       PROVE  FALSE
  <2>1. Asked(n, p)
    BY <1>2, <1>3, <1>7, <1>9, QuietKeeps
  <2>2. n = m
    BY <1>2, <2>1 DEF IInv, AskedWaits
  <2>3. /\ 1 \in DOMAIN down[m] /\ down[m][1] = Head(down[m])
        /\ down[m][1].type = "ack" /\ down[m][1].who = p
    BY <1>0, <1>2, <1>3, NoPlaceBeyond DEF TypeOK
  <2>4. CASE \E i \in DOMAIN up'[m] : up'[m][i].type = "trylock" /\ up'[m][i].who = p
    <3>1. \E i \in DOMAIN up[m] : up[m][i].type = "trylock" /\ up[m][i].who = p
      BY <1>7, <2>4 DEF Quiet
    <3> QED
      BY <2>3, <3>1 DEF IInv, AskedOnce
  <2>5. ASSUME NEW i \in DOMAIN down'[m], down'[m][i].type = "ack", down'[m][i].who = p
        PROVE  FALSE
    <3>1. i \in Nat \ {0} /\ i + 1 \in DOMAIN down[m] /\ down'[m][i] = down[m][i + 1]
      BY <1>3, <2>5, TailPlaces DEF TypeOK
    <3>2. i + 1 = 1
      BY <2>3, <2>5, <3>1 DEF IInv, AskedOnce
    <3> QED
      BY <3>1, <3>2
  <2> QED
    BY <1>9, <2>2, <2>4, <2>5 DEF Asked
<1>10. \A n \in Maps, q \in Players :
         Asked(n, q) /\ Asked(n, q)' => sd'[q].at = n /\ sd'[q].lockreq # 0
  BY <1>8, <1>9 DEF IInv, AskedWaits
<1>11. \A q \in Players : /\ sd'[q].at # Off => sd'[q].guild
                          /\ sd'[q].waiting => sd'[q].lockreq = 0
  BY <1>2, <1>8 DEF IInv, Calm
<1> QED
  BY <1>3, <1>5, <1>7, <1>10, <1>11, QuietInv DEF Opened

\* A load in the calm environment keeps the invariant.
LEMMA LoadReplyInv ==
  ASSUME IInv, TypeOK', NEW m \in Maps, down[m] # <<>>, ReceiveLoadReply(m),
         down' = [down EXCEPT ![m] = Tail(@)], UNCHANGED <<gs, link, enrolled, drops>>
  PROVE  IInv'
<1> DEFINE g == [n \in Maps |-> IF n = m THEN 1 ELSE 0]
<1>1. /\ TypeOK /\ sd \in [Players -> Session] /\ g \in [Maps -> 0..1]
      /\ up \in [Maps -> Seq(UpMessage)] /\ cache \in [Maps -> GStorage]
      /\ Head(down[m]) \in DownMessage /\ Head(down[m]).type = "load"
      /\ Unlock \in UpMessage /\ Unlock.type = "unlock"
  <2>1. TypeOK /\ Head(down[m]).type = "load"
    BY DEF IInv, ReceiveLoadReply
  <2>2. Head(down[m]) \in DownMessage
    BY <2>1, TailTypes DEF TypeOK
  <2>3. Unlock \in UpMessage /\ Unlock.type = "unlock"
    BY DEF Unlock, UpMessage
  <2> QED
    BY <2>1, <2>2, <2>3 DEF TypeOK
<1>2. PICK p \in Players : p = Head(down[m]).who /\ Head(down[m]).storage \in GStorage
  BY <1>1, MessageParts
<1>3. /\ gs.status # 0 /\ \A q \in Players : ~sd[q].flag
      /\ \A n \in Maps : \A i \in Nat : ~UpToken(n, i) /\ ~DownToken(n, i)'
  BY <1>1, TakenToken DEF Grants
<1>4. PICK k \in Nat : k = Len(up[m]) + 1
  <2>1. up[m] \in Seq(UpMessage)
    BY <1>1
  <2> QED
    BY <2>1
<1>5. CASE up' = [up EXCEPT ![m] = Append(@, Unlock)] /\ UNCHANGED <<cached, cache, sd>>
  <2>1. OnlyUp(m, k)'
    BY <1>1, <1>3, <1>4, <1>5, UpAppend DEF OnlyUp
  <2>2. OneToken' /\ FreeMeansNoToken'
    BY <1>1, <1>2, <1>3, <2>1, OnlyKeeps
  <2>3. OpenIsClosable'
    BY <1>3, <1>5 DEF OpenIsClosable
  <2>4. Quiet(g)
    BY <1>1, <1>5, MapReceiveQuiet
  <2>5. \A n \in Maps, q \in Players :
          Asked(n, q) /\ Asked(n, q)' => sd'[q].at = n /\ sd'[q].lockreq # 0
    BY <1>5 DEF IInv, AskedWaits
  <2>6. \A q \in Players : /\ sd'[q].at # Off => sd'[q].guild
                           /\ sd'[q].waiting => sd'[q].lockreq = 0
    BY <1>5 DEF IInv, Calm
  <2> QED
    BY <1>1, <2>2, <2>3, <2>4, <2>5, <2>6, QuietInv
<1>6. CASE /\ sd[p].at = m /\ ~sd[p].waiting
           /\ cached' = cached \cup {m}
           /\ cache' = [cache EXCEPT ![m] = [Head(down[m]).storage EXCEPT !.status = 1]]
           /\ sd' = [sd EXCEPT ![p].flag = TRUE]
           /\ UNCHANGED up
  <2>1. ASSUME NEW q \in Players
        PROVE  /\ sd'[q].at = sd[q].at /\ sd'[q].guild = sd[q].guild
               /\ sd'[q].waiting = sd[q].waiting /\ sd'[q].lockreq = sd[q].lockreq
               /\ IF q = p THEN sd'[q].flag ELSE sd'[q] = sd[q]
    <3>1. CASE q = p
      <4>1. sd'[q] = [sd[q] EXCEPT !.flag = TRUE] /\ sd[q] \in Session
        BY <1>1, <1>2, <1>6, <3>1
      <4> QED
        BY <3>1, <4>1 DEF Session
    <3>2. CASE q # p
      BY <1>1, <1>2, <1>6, <3>2
    <3> QED
      BY <3>1, <3>2
  <2>2. \A q \in Players : sd'[q].flag => q = p
    BY <1>3, <2>1
  <2>3. OnlyFlag(p)'
    BY <1>3, <1>6, <2>2, SameQueues DEF OnlyFlag
  <2>4. OneToken' /\ FreeMeansNoToken'
    BY <1>1, <1>2, <1>3, <1>4, <2>3, OnlyKeeps
  <2>5. cache'[m].status = 1
    <3>1. cache'[m] = [Head(down[m]).storage EXCEPT !.status = 1]
      BY <1>1, <1>6
    <3> QED
      BY <1>2, <3>1 DEF GStorage
  <2>6. OpenIsClosable'
    <3>1. sd[p].guild /\ p \in Players /\ m # Off
      BY <1>2, <1>6, MapsAssumption DEF IInv, Calm
    <3>2. (Closable(p) /\ Playing(p))'
      BY <1>6, <2>1, <3>1 DEF Closable, Playing
    <3>3. cache'[sd'[p].at].status = 1
      BY <1>6, <2>1, <2>5, <3>1
    <3> QED
      BY <2>2, <3>2, <3>3 DEF OpenIsClosable
  <2>7. Quiet(g)
    BY <1>1, <1>6, MapReceiveQuiet
  <2>8. \A n \in Maps, q \in Players :
          Asked(n, q) /\ Asked(n, q)' => sd'[q].at = n /\ sd'[q].lockreq # 0
    BY <2>1 DEF IInv, AskedWaits
  <2>9. \A q \in Players : /\ sd'[q].at # Off => sd'[q].guild
                           /\ sd'[q].waiting => sd'[q].lockreq = 0
    BY <2>1 DEF IInv, Calm
  <2> QED
    BY <1>1, <2>4, <2>6, <2>7, <2>8, <2>9, QuietInv
<1>7. CASE UNCHANGED <<up, cached, cache, sd>>
  <2>1. OnlyUp(m, k)'
    BY <1>1, <1>3, <1>7, SameQueues DEF OnlyUp
  <2>2. OneToken' /\ FreeMeansNoToken'
    BY <1>1, <1>2, <1>3, <2>1, OnlyKeeps
  <2>3. OpenIsClosable'
    BY <1>3, <1>7 DEF OpenIsClosable
  <2>4. Quiet(g)
    BY <1>1, <1>7, MapReceiveQuiet
  <2>5. \A n \in Maps, q \in Players :
          Asked(n, q) /\ Asked(n, q)' => sd'[q].at = n /\ sd'[q].lockreq # 0
    BY <1>7 DEF IInv, AskedWaits
  <2>6. \A q \in Players : /\ sd'[q].at # Off => sd'[q].guild
                           /\ sd'[q].waiting => sd'[q].lockreq = 0
    BY <1>7 DEF IInv, Calm
  <2> QED
    BY <1>1, <2>2, <2>3, <2>4, <2>5, <2>6, QuietInv
<1> QED
  BY <1>2, <1>3, <1>5, <1>6, <1>7 DEF ReceiveLoadReply, SendUp, Here

\* The guild's data concern neither the lock nor the sessions.
LEMMA InfoInv ==
  ASSUME IInv, TypeOK', NEW m \in Maps, down[m] # <<>>, ReceiveInfo(m),
         down' = [down EXCEPT ![m] = Tail(@)], UNCHANGED <<gs, link, enrolled, drops>>
  PROVE  IInv'
<1> DEFINE f == [n \in Maps |-> 0]
           g == [n \in Maps |-> IF n = m THEN 1 ELSE 0]
<1>1. /\ TypeOK /\ OneToken /\ FreeMeansNoToken /\ OpenIsClosable
      /\ UNCHANGED <<up, cached, cache, sd>>
      /\ f \in [Maps -> 0..1] /\ g \in [Maps -> 0..1]
  BY DEF IInv, ReceiveInfo
<1>2. \A n \in Maps : \A i \in Nat : UpToken(n, i)' => UpToken(n, i + f[n])
  <2>1. \A n \in Maps : \A i \in Nat : i + f[n] = i
    OBVIOUS
  <2> QED
    BY <1>1, <2>1, SameQueues, Zenon
<1>3. \A n \in Maps : \A i \in Nat : DownToken(n, i)' => DownToken(n, i + g[n])
  BY <1>1, DownTail
<1>4. OneToken' /\ (NoToken => NoToken')
  BY <1>1, <1>2, <1>3, MovedTokens
<1>5. FreeMeansNoToken'
  BY <1>1, <1>4 DEF FreeMeansNoToken
<1>6. OpenIsClosable'
  BY <1>1 DEF OpenIsClosable, Closable, Playing
<1>7. Quiet(g)
  BY <1>1, MapReceiveQuiet
<1>8. \A n \in Maps, q \in Players :
        Asked(n, q) /\ Asked(n, q)' => sd'[q].at = n /\ sd'[q].lockreq # 0
  BY <1>1 DEF IInv, AskedWaits
<1>9. \A q \in Players : /\ sd'[q].at # Off => sd'[q].guild
                         /\ sd'[q].waiting => sd'[q].lockreq = 0
  BY <1>1 DEF IInv, Calm
<1> QED
  BY <1>1, <1>4, <1>5, <1>6, <1>7, <1>8, <1>9, QuietInv

\* The map servers' handlers keep the invariant.
LEMMA MapReceiveInv ==
  ASSUME IInv, NEW m \in Maps, MapReceive(m)
  PROVE  IInv'
<1>1. TypeOK'
  BY MapReceiveTypes DEF IInv
<1>2. Head(down[m]).type \in {"ack", "load", "info"}
  <2>1. down \in [Maps -> Seq(DownMessage)] /\ down[m] # <<>>
    BY DEF IInv, TypeOK, MapReceive
  <2>2. 1 \in DOMAIN down[m] /\ Head(down[m]) = down[m][1]
    BY <2>1, NoPlaceBeyond
  <2> QED
    BY <2>2 DEF IInv, Calm
<1>3. ReceiveAck(m) \/ ReceiveLoadReply(m) \/ ReceiveInfo(m)
  BY <1>2 DEF MapReceive, ReceiveChecklock, ReceiveLeaved
<1> QED
  BY <1>1, <1>3, AckInv, LoadReplyInv, InfoInv DEF MapReceive

\* A step that takes no message and adds no token keeps at most one.
LEMMA NoNewTokens ==
  ASSUME IInv, UNCHANGED gs,
         \A n \in Maps : \A i \in Nat : UpToken(n, i)' => UpToken(n, i),
         \A n \in Maps : \A i \in Nat : DownToken(n, i)' => DownToken(n, i),
         \A p \in Players : sd'[p].flag => sd[p].flag
  PROVE  OneToken' /\ FreeMeansNoToken'
<1>1. OneToken'
  BY DEF IInv, OneToken, MutualExclusion, UpTokenOnly, DownTokenOnly
<1>2. NoToken => NoToken'
  BY DEF NoToken
<1> QED
  BY <1>1, <1>2 DEF IInv, FreeMeansNoToken

\* Messages added at the end of an up queue, and none taken, make a quiet step
\* when none of them is a request or a save without the lock.
LEMMA AddedQuiet ==
  ASSUME IInv, NEW m \in Maps, NEW x \in UpMessage, UNCHANGED down,
         up' = [up EXCEPT ![m] = Append(@, x)],
         x.type # "trylock", x.type = "save" => x.storage.status = 1
  PROVE  Quiet([n \in Maps |-> 0])
<1>1. up \in [Maps -> Seq(UpMessage)] /\ down \in [Maps -> Seq(DownMessage)]
  BY DEF IInv, TypeOK
<1>2. ASSUME NEW n \in Maps, NEW i \in DOMAIN up'[n]
      PROVE  \/ i \in DOMAIN up[n] /\ up'[n][i] = up[n][i]
             \/ up'[n][i] = x
  BY <1>1, <1>2, AppendPlaces
<1>3. ASSUME NEW n \in Maps, NEW i \in DOMAIN down'[n]
      PROVE  i + 0 \in DOMAIN down[n] /\ down'[n][i] = down[n][i + 0]
  <2>1. down[n] \in Seq(DownMessage)
    BY <1>1
  <2> QED
    BY <1>3, <2>1
<1> QED
  BY <1>2, <1>3 DEF Quiet

\* A step that leaves the queues alone is quiet.
LEMMA SameQuiet ==
  ASSUME IInv, UNCHANGED <<up, down>>
  PROVE  Quiet([n \in Maps |-> 0])
<1>1. ASSUME NEW n \in Maps, NEW i \in DOMAIN down'[n]
      PROVE  i + 0 \in DOMAIN down[n] /\ down'[n][i] = down[n][i + 0]
  <2>1. down[n] \in Seq(DownMessage)
    BY DEF IInv, TypeOK
  <2> QED
    BY <1>1, <2>1
<1> QED
  BY <1>1 DEF Quiet

\* A new request waits for its answer, and its member waited for none.
LEMMA RequestInv ==
  ASSUME IInv, NEW p \in Players, RequestByCommand(p) \/ RequestByScript(p)
  PROVE  IInv'
<1>1. PICK m \in Maps : m = sd[p].at
  BY SessionAt DEF IInv, RequestByCommand, RequestByScript, Playing
<1>2. /\ sd[p].lockreq = 0 /\ ~sd[p].waiting /\ sd[p].guild /\ sd[p] \in Session
      /\ up' = [up EXCEPT ![m] = Append(@, Trylock(p))]
      /\ UNCHANGED <<gs, link, down, cached, cache, enrolled, drops>>
      /\ up \in [Maps -> Seq(UpMessage)] /\ sd \in [Players -> Session]
  BY <1>1 DEF IInv, TypeOK, RequestByCommand, RequestByScript, Playing, SendUp
<1>3. TypeOK'
  BY RequestTypes DEF IInv
<1>4. ASSUME NEW q \in Players
      PROVE  /\ sd'[q].at = sd[q].at /\ sd'[q].flag = sd[q].flag
             /\ sd'[q].guild = sd[q].guild /\ sd'[q].waiting = sd[q].waiting
             /\ IF q = p THEN sd'[q].lockreq # 0 ELSE sd'[q] = sd[q]
  <2>1. CASE sd' = [sd EXCEPT ![p] = [sd[p] EXCEPT !.lockreq = 2]]
    BY <1>2, <2>1 DEF Session
  <2>2. CASE sd' = [sd EXCEPT ![p] = [sd[p] EXCEPT !.lockreq = 1, !.menu = "asked"]]
    <3>1. q # p => sd'[q] = sd[q]
      BY <1>2, <2>2
    <3>2. PICK t \in Session : t = [sd[p] EXCEPT !.lockreq = 1]
      <4>1. 1 \in 0..2
        OBVIOUS
      <4> QED
        BY <1>2, <4>1, SessionFields, Zenon
    <3>3. /\ t.lockreq = 1 /\ t.at = sd[p].at /\ t.flag = sd[p].flag
          /\ t.guild = sd[p].guild /\ t.waiting = sd[p].waiting
      BY <1>2, <3>2 DEF Session
    <3>4. sd'[p] = [t EXCEPT !.menu = "asked"]
      BY <1>2, <2>2, <3>2
    <3>5. /\ sd'[p].lockreq = t.lockreq /\ sd'[p].at = t.at /\ sd'[p].flag = t.flag
          /\ sd'[p].guild = t.guild /\ sd'[p].waiting = t.waiting
      BY <3>4 DEF Session
    <3> QED
      BY <3>1, <3>3, <3>5
  <2> QED
    BY <2>1, <2>2 DEF RequestByCommand, RequestByScript
<1>5. Trylock(p) \in UpMessage /\ Trylock(p).type = "trylock" /\ Trylock(p).who = p
  BY DEF Trylock, UpMessage
<1>6. ASSUME NEW n \in Maps, NEW i \in DOMAIN up'[n]
      PROVE  \/ i \in DOMAIN up[n] /\ up'[n][i] = up[n][i]
             \/ n = m /\ i = Len(up[m]) + 1 /\ up'[n][i] = Trylock(p)
  BY <1>2, <1>5, <1>6, AppendPlaces
<1>7. OneToken' /\ FreeMeansNoToken'
  <2>1. \A n \in Maps : \A i \in Nat : UpToken(n, i)' => UpToken(n, i)
    BY <1>2, <1>5, UpAppend DEF IInv
  <2> QED
    BY <1>2, <1>4, <2>1, SameQueues, NoNewTokens
<1>8. OpenIsClosable'
  BY <1>2, <1>4 DEF IInv, OpenIsClosable, Closable, Playing
<1>9. SavesAreLocked'
  BY <1>5, <1>6 DEF IInv, SavesAreLocked
<1>10. \A n \in Maps : ~Asked(n, p)
  BY <1>2 DEF IInv, AskedWaits
<1>11. ASSUME NEW n \in Maps, NEW q \in Players, Asked(n, q)'
       PROVE  Asked(n, q) \/ (n = m /\ q = p)
  <2>1. CASE \E i \in DOMAIN up'[n] : up'[n][i].type = "trylock" /\ up'[n][i].who = q
    BY <1>5, <1>6, <2>1 DEF Asked
  <2>2. CASE \E i \in DOMAIN down'[n] : down'[n][i].type = "ack" /\ down'[n][i].who = q
    BY <1>2, <2>2 DEF Asked
  <2> QED
    BY <1>11, <2>1, <2>2 DEF Asked
<1>12. AskedWaits'
  <2> SUFFICES ASSUME NEW n \in Maps, NEW q \in Players, Asked(n, q)'
               PROVE  sd'[q].at = n /\ sd'[q].lockreq # 0
    BY DEF AskedWaits
  <2>1. CASE q = p
    BY <1>1, <1>4, <1>10, <1>11, <2>1
  <2>2. CASE q # p
    BY <1>4, <1>11, <2>2 DEF IInv, AskedWaits
  <2> QED
    BY <2>1, <2>2
<1>13. AskedOnce'
  <2> SUFFICES ASSUME NEW n \in Maps
               PROVE  /\ \A i, j \in DOMAIN up'[n] :
                           /\ up'[n][i].type = "trylock" /\ up'[n][j].type = "trylock"
                           /\ up'[n][i].who = up'[n][j].who
                           => i = j
                      /\ \A i, j \in DOMAIN down'[n] :
                           /\ down'[n][i].type = "ack" /\ down'[n][j].type = "ack"
                           /\ down'[n][i].who = down'[n][j].who
                           => i = j
                      /\ \A i \in DOMAIN up'[n], j \in DOMAIN down'[n] :
                           ~(/\ up'[n][i].type = "trylock" /\ down'[n][j].type = "ack"
                             /\ up'[n][i].who = down'[n][j].who)
    BY DEF AskedOnce
  <2>1. ASSUME NEW i \in DOMAIN up[n], up[n][i].type = "trylock"
        PROVE  up[n][i].who # p
    BY <1>10, <2>1 DEF Asked
  <2>2. ASSUME NEW i \in DOMAIN down[n], down[n][i].type = "ack"
        PROVE  down[n][i].who # p
    BY <1>10, <2>2 DEF Asked
  <2>3. AskedOnce
    BY DEF IInv
  <2>4. \A i, j \in DOMAIN up'[n] :
          /\ up'[n][i].type = "trylock" /\ up'[n][j].type = "trylock"
          /\ up'[n][i].who = up'[n][j].who
          => i = j
    BY <1>5, <1>6, <2>1, <2>3 DEF AskedOnce
  <2>5. \A i, j \in DOMAIN down'[n] :
          /\ down'[n][i].type = "ack" /\ down'[n][j].type = "ack"
          /\ down'[n][i].who = down'[n][j].who
          => i = j
    BY <1>2, <2>3 DEF AskedOnce
  <2>6. \A i \in DOMAIN up'[n], j \in DOMAIN down'[n] :
          ~(/\ up'[n][i].type = "trylock" /\ down'[n][j].type = "ack"
            /\ up'[n][i].who = down'[n][j].who)
    BY <1>2, <1>5, <1>6, <2>2, <2>3 DEF AskedOnce
  <2> QED
    BY <2>4, <2>5, <2>6
<1>14. Calm'
  BY <1>2, <1>4 DEF IInv, Calm
<1> QED
  BY <1>3, <1>7, <1>8, <1>9, <1>12, <1>13, <1>14 DEF IInv

\* An edit changes neither the lock nor who may edit.
LEMMA EditInv ==
  ASSUME IInv, NEW p \in Players, NEW i \in Items, StorageAdd(p, i) \/ StorageGet(p, i)
  PROVE  IInv'
<1>1. TypeOK'
  BY EditTypes DEF IInv
<1>2. UNCHANGED <<gs, link, up, down, cached, sd, enrolled, drops>>
  BY DEF StorageAdd, StorageGet
<1>3. [n \in Maps |-> 0] \in [Maps -> 0..1]
  OBVIOUS
<1>4. OneToken' /\ FreeMeansNoToken'
  BY <1>2, SameQueues, NoNewTokens
<1>5. \A n \in Maps : cache'[n].status = cache[n].status
  <2>1. cache \in [Maps -> GStorage]
    BY DEF IInv, TypeOK
  <2>2. \E c \in SUBSET Items :
          cache' = [cache EXCEPT ![sd[p].at] = [[cache[sd[p].at] EXCEPT !.items = c] EXCEPT !.dirty = TRUE]]
    <3>1. cache[sd[p].at].items \in SUBSET Items
      <4>1. sd[p].at \in Maps
        BY SessionAt DEF StorageAdd, StorageGet, Playing, IInv
      <4>2. cache[sd[p].at] \in GStorage
        BY <2>1, <4>1
      <4> QED
        BY <4>2 DEF GStorage
    <3>2. /\ cache[sd[p].at].items \cup {i} \in SUBSET Items
          /\ cache[sd[p].at].items \ {i} \in SUBSET Items
      BY <3>1
    <3>3. CASE StorageAdd(p, i)
      <4>1. cache' = [cache EXCEPT ![sd[p].at] =
                        [[cache[sd[p].at] EXCEPT !.items = @ \cup {i}] EXCEPT !.dirty = TRUE]]
        BY <3>3, Zenon DEF StorageAdd
      <4> QED
        BY <3>2, <4>1, Zenon
    <3>4. CASE StorageGet(p, i)
      <4>1. cache' = [cache EXCEPT ![sd[p].at] =
                        [[cache[sd[p].at] EXCEPT !.items = @ \ {i}] EXCEPT !.dirty = TRUE]]
        BY <3>4, Zenon DEF StorageGet
      <4> QED
        BY <3>2, <4>1, Zenon
    <3> QED
      BY <3>3, <3>4
  <2>3. PICK c \in SUBSET Items :
          cache' = [cache EXCEPT ![sd[p].at] = [[cache[sd[p].at] EXCEPT !.items = c] EXCEPT !.dirty = TRUE]]
    BY <2>2
  <2> SUFFICES ASSUME NEW n \in Maps
               PROVE  cache'[n].status = cache[n].status
    OBVIOUS
  <2>4. PICK s \in GStorage : s = [cache[n] EXCEPT !.items = c]
    BY <2>1, StorageFields, Zenon
  <2>5. s.status = cache[n].status
    BY <2>1, <2>4 DEF GStorage
  <2>6. cache'[n] = cache[n] \/ cache'[n] = [s EXCEPT !.dirty = TRUE]
    BY <2>1, <2>3, <2>4
  <2> QED
    BY <2>5, <2>6 DEF GStorage
<1>6. OpenIsClosable'
  <2>1. \A q \in Players : sd[q].flag => sd[q].at \in Maps
    BY SessionAt DEF IInv, OpenIsClosable, Playing
  <2> QED
    BY <1>2, <1>5, <2>1 DEF IInv, OpenIsClosable, Closable, Playing
<1>7. \A n \in Maps, q \in Players :
        Asked(n, q) /\ Asked(n, q)' => sd'[q].at = n /\ sd'[q].lockreq # 0
  BY <1>2 DEF IInv, AskedWaits
<1>8. \A q \in Players : /\ sd'[q].at # Off => sd'[q].guild
                         /\ sd'[q].waiting => sd'[q].lockreq = 0
  BY <1>2 DEF IInv, Calm
<1>9. Quiet([n \in Maps |-> 0])
  BY <1>2, SameQuiet
<1> QED
  BY <1>1, <1>2, <1>3, <1>4, <1>6, <1>7, <1>8, <1>9, QuietInv

\* An autosave carries the lock its holder has.
LEMMA AutosaveInv ==
  ASSUME IInv, NEW p \in Players, Autosave(p)
  PROVE  IInv'
<1>1. PICK m \in Maps : m = sd[p].at
  BY SessionAt DEF IInv, Autosave, Playing
<1>2. /\ sd[p].flag /\ UNCHANGED <<gs, link, down, cached, sd, enrolled, drops>>
      /\ up' = [up EXCEPT ![m] = Append(@, Save(cache[m]))]
      /\ cache' = [cache EXCEPT ![m].dirty = FALSE]
      /\ cache \in [Maps -> GStorage] /\ cache[m].status = 1
  BY <1>1 DEF IInv, TypeOK, OpenIsClosable, Autosave, Closable, SendUp
<1>3. TypeOK'
  BY AutosaveTypes DEF IInv
<1>4. PICK x \in UpMessage : x = Save(cache[m])
  BY <1>2 DEF Save, UpMessage
<1>5. x.type = "save" /\ x.storage.status = 1
  BY <1>2, <1>4 DEF Save
<1>6. Quiet([n \in Maps |-> 0]) /\ [n \in Maps |-> 0] \in [Maps -> 0..1]
  <2>1. up' = [up EXCEPT ![m] = Append(@, x)] /\ UNCHANGED down
    BY <1>2, <1>4
  <2>2. Quiet([n \in Maps |-> 0])
    BY <1>5, <2>1, AddedQuiet
  <2> QED
    BY <2>2
<1>7. OneToken' /\ FreeMeansNoToken'
  <2>1. \A n \in Maps : \A i \in Nat : UpToken(n, i)' => UpToken(n, i)
    BY <1>2, <1>4, <1>5, UpAppend DEF IInv
  <2> QED
    BY <1>2, <2>1, SameQueues, NoNewTokens
<1>8. OpenIsClosable'
  <2>1. \A n \in Maps : cache'[n].status = cache[n].status
    BY <1>2 DEF GStorage
  <2>2. \A q \in Players : sd[q].flag => sd[q].at \in Maps
    BY SessionAt DEF IInv, OpenIsClosable, Playing
  <2> QED
    BY <1>2, <2>1, <2>2 DEF IInv, OpenIsClosable, Closable, Playing
<1>9. \A n \in Maps, q \in Players :
        Asked(n, q) /\ Asked(n, q)' => sd'[q].at = n /\ sd'[q].lockreq # 0
  BY <1>2 DEF IInv, AskedWaits
<1>10. \A q \in Players : /\ sd'[q].at # Off => sd'[q].guild
                          /\ sd'[q].waiting => sd'[q].lockreq = 0
  BY <1>2 DEF IInv, Calm
<1> QED
  BY <1>2, <1>3, <1>6, <1>7, <1>8, <1>9, <1>10, QuietInv

\* Closing turns the open session into the unlock that follows its save.
LEMMA StorageCloseTokens ==
  ASSUME IInv, NEW m \in Maps, StorageClose(m), UNCHANGED <<gs, down>>,
         NEW p \in Players, sd[p].flag, cache[m].status = 1,
         \A q \in Players : sd'[q].flag => sd[q].flag /\ q # p
  PROVE  OneToken' /\ FreeMeansNoToken' /\ Quiet([n \in Maps |-> 0])
<1>1. /\ TypeOK /\ cache[m] \in GStorage /\ up \in [Maps -> Seq(UpMessage)]
      /\ down \in [Maps -> Seq(DownMessage)] /\ up[m] \in Seq(UpMessage)
  BY DEF IInv, TypeOK
<1>2. OnlyFlag(p) /\ gs.status # 0
  BY OneMeansOnly DEF IInv, FreeMeansNoToken, NoToken
<1>a. PICK sv \in UpMessage : sv = Save(cache[m])
  BY <1>1 DEF Save, UpMessage
<1>b. PICK q \in Seq(UpMessage) : q = IF cache[m].dirty THEN Append(up[m], sv) ELSE up[m]
  <2>1. (IF cache[m].dirty THEN Append(up[m], sv) ELSE up[m]) \in Seq(UpMessage)
    BY <1>1
  <2> QED
    BY <2>1
<1>3. PICK k \in Nat : k = Len(q) + 1
  OBVIOUS
<1>4. ASSUME NEW n \in Maps, NEW i \in DOMAIN up'[n]
      PROVE  \/ i \in DOMAIN up[n] /\ up'[n][i] = up[n][i]
             \/ up'[n][i] = Save(cache[m])
             \/ n = m /\ i = k /\ up'[n][i] = Unlock
  <2>1. Unlock \in UpMessage
    BY DEF Unlock, UpMessage
  <2>2. up' = [up EXCEPT ![m] = Append(q, Unlock)]
    BY <1>a, <1>b DEF StorageClose
  <2>3. CASE n = m
    <3>1. up'[n] = Append(q, Unlock)
      BY <1>1, <2>2, <2>3
    <3>2. \/ i \in DOMAIN q /\ up'[n][i] = q[i]
          \/ i = k /\ up'[n][i] = Unlock
      BY <1>3, <1>4, <2>1, <3>1
    <3>3. i \in DOMAIN q => \/ i \in DOMAIN up[n] /\ q[i] = up[n][i]
                            \/ q[i] = sv
      BY <1>1, <1>b, <2>3
    <3> QED
      BY <1>a, <2>3, <3>2, <3>3
  <2>4. CASE n # m
    BY <1>1, <1>4, <2>2, <2>4
  <2> QED
    BY <2>3, <2>4
<1>5. /\ Save(cache[m]).type = "save" /\ Save(cache[m]).storage = cache[m]
      /\ Unlock.type = "unlock"
  BY DEF Save, Unlock
<1>6. \A n \in Maps : \A i \in Nat : ~DownToken(n, i)'
  BY <1>2, SameQueues DEF OnlyFlag
<1>7. ASSUME NEW n \in Maps, NEW i \in Nat, UpToken(n, i)'
      PROVE  n = m /\ i = k
  <2>1. i \in DOMAIN up'[n] /\ up'[n][i].type \in {"load", "unlock", "deadlock"}
    BY <1>7 DEF UpToken
  <2>2. ~(i \in DOMAIN up[n] /\ up'[n][i] = up[n][i])
    BY <1>2, <2>1 DEF OnlyFlag, UpToken
  <2> QED
    BY <1>4, <1>5, <2>1, <2>2
<1>8. \A r \in Players : ~sd'[r].flag
  BY <1>2 DEF OnlyFlag
<1>9. OnlyUp(m, k)'
  BY <1>6, <1>7, <1>8 DEF OnlyUp
<1>10. OneToken'
  BY <1>9 DEF OnlyUp, OneToken, MutualExclusion, UpTokenOnly, DownTokenOnly
<1>11. FreeMeansNoToken'
  BY <1>2 DEF FreeMeansNoToken
<1>12. ASSUME NEW n \in Maps, NEW i \in DOMAIN down'[n]
       PROVE  i + 0 \in DOMAIN down[n] /\ down'[n][i] = down[n][i + 0]
  <2>1. down[n] \in Seq(DownMessage)
    BY <1>1
  <2> QED
    BY <1>12, <2>1
<1>13. Quiet([n \in Maps |-> 0])
  BY <1>4, <1>5, <1>12 DEF Quiet
<1> QED
  BY <1>10, <1>11, <1>13

\* A member closes the storage or departs, with no answer under way.
LEMMA LeaveInv ==
  ASSUME IInv, NEW p \in Players, CloseKafra(p) \/ (Settled(p) /\ Depart(p))
  PROVE  IInv'
<1>1. TypeOK' /\ UNCHANGED <<gs, link, down, cached, enrolled, drops>>
  BY LeaveTypes DEF IInv, CloseKafra, Depart
<1>2. PICK m \in Maps : m = sd[p].at
  BY SessionAt DEF IInv, CloseKafra, Depart, Playing
<1>3. sd \in [Players -> Session] /\ cache \in [Maps -> GStorage] /\ sd[p] \in Session
  BY DEF IInv, TypeOK
<1>4. ASSUME NEW q \in Players
      PROVE  /\ q # p => sd'[q] = sd[q]
             /\ sd'[q].at = sd[q].at /\ sd'[q].guild = sd[q].guild
             /\ sd'[q].lockreq = sd[q].lockreq
             /\ sd'[q].flag => sd[q].flag
             /\ sd'[q].waiting => sd[q].waiting \/ (q = p /\ sd[p].lockreq = 0)
             /\ q = p /\ Closable(p) => ~sd'[q].flag
  <2>1. CASE sd' = [sd EXCEPT ![p] = [sd[p] EXCEPT !.flag = FALSE]] /\ CloseKafra(p)
    <3>1. sd'[p] = [sd[p] EXCEPT !.flag = FALSE]
      BY <1>3, <2>1
    <3>2. q # p => sd'[q] = sd[q]
      BY <1>3, <2>1
    <3> QED
      BY <1>3, <3>1, <3>2 DEF Session
  <2>2. CASE /\ sd' = [sd EXCEPT ![p] = [sd[p] EXCEPT !.waiting = TRUE, !.flag = FALSE]]
             /\ Settled(p)
    <3>1. PICK t \in Session : t = [sd[p] EXCEPT !.waiting = TRUE]
      <4>1. TRUE \in BOOLEAN
        OBVIOUS
      <4> QED
        BY <1>3, <4>1, SessionFields, Zenon
    <3>2. /\ t.at = sd[p].at /\ t.guild = sd[p].guild /\ t.lockreq = sd[p].lockreq
      BY <1>3, <3>1 DEF Session
    <3>3. sd'[p] = [t EXCEPT !.flag = FALSE]
      BY <1>3, <2>2, <3>1
    <3>4. /\ sd'[p].at = t.at /\ sd'[p].guild = t.guild /\ sd'[p].lockreq = t.lockreq
          /\ ~sd'[p].flag
      BY <3>3 DEF Session
    <3>5. q # p => sd'[q] = sd[q]
      BY <1>3, <2>2
    <3> QED
      BY <2>2, <3>2, <3>4, <3>5 DEF Settled
  <2>3. CASE /\ sd' = [sd EXCEPT ![p] = [sd[p] EXCEPT !.waiting = TRUE]]
             /\ Settled(p) /\ ~Closable(p)
    <3>1. sd'[p] = [sd[p] EXCEPT !.waiting = TRUE]
      BY <1>3, <2>3
    <3>2. q # p => sd'[q] = sd[q]
      BY <1>3, <2>3
    <3> QED
      BY <1>3, <2>3, <3>1, <3>2 DEF Session, Settled
  <2> QED
    BY <2>1, <2>2, <2>3 DEF CloseKafra, Depart
<1>5. \A q \in Players : /\ sd'[q].at # Off => sd'[q].guild
                         /\ sd'[q].waiting => sd'[q].lockreq = 0
  BY <1>4 DEF IInv, Calm
<1>6. \A n \in Maps, q \in Players :
        Asked(n, q) /\ Asked(n, q)' => sd'[q].at = n /\ sd'[q].lockreq # 0
  BY <1>4 DEF IInv, AskedWaits
<1>7. [n \in Maps |-> 0] \in [Maps -> 0..1]
  OBVIOUS
<1>8. CASE Closable(p)
  <2>1. StorageClose(m) /\ sd[p].flag /\ cache[m].status = 1
    BY <1>2, <1>8 DEF IInv, OpenIsClosable, CloseKafra, Depart, Closable
  <2>2. \A q \in Players : sd'[q].flag => sd[q].flag /\ q # p
    BY <1>4, <1>8
  <2>3. OneToken' /\ FreeMeansNoToken' /\ Quiet([n \in Maps |-> 0])
    BY <1>1, <2>1, <2>2, StorageCloseTokens
  <2>4. \A q \in Players : ~sd'[q].flag
    BY <2>1, <2>2 DEF IInv, OneToken, MutualExclusion
  <2>5. OpenIsClosable'
    BY <2>4 DEF OpenIsClosable
  <2> QED
    BY <1>1, <1>5, <1>6, <1>7, <2>3, <2>5, QuietInv
<1>9. CASE ~Closable(p)
  <2>1. UNCHANGED <<up, down, cache>> /\ ~sd[p].flag
    BY <1>1, <1>9 DEF IInv, OpenIsClosable, CloseKafra, Depart
  <2>2. OneToken' /\ FreeMeansNoToken'
    BY <1>1, <1>4, <2>1, SameQueues, NoNewTokens
  <2>3. OpenIsClosable'
    BY <1>1, <1>4, <2>1 DEF IInv, OpenIsClosable, Closable, Playing
  <2>4. Quiet([n \in Maps |-> 0])
    BY <2>1, SameQuiet
  <2> QED
    BY <1>1, <1>5, <1>6, <1>7, <2>2, <2>3, <2>4, QuietInv
<1> QED
  BY <1>8, <1>9

\* A session that is deleted or created waits for no answer.
LEMMA SessionInv ==
  ASSUME IInv, NEW p \in Players, Quit(p) \/ \E m \in Maps : Login(p, m)
  PROVE  IInv'
<1>1. /\ TypeOK' /\ UNCHANGED <<gs, link, down, cached, cache, enrolled, drops>>
      /\ UNCHANGED up \/ \E m \in Maps : up' = [up EXCEPT ![m] = Append(@, GuildInfo)]
  BY SessionTypes DEF IInv, Quit, Login, SendUp
<1>2. sd \in [Players -> Session] /\ sd[p] \in Session
  BY DEF IInv, TypeOK
<1>3. \A n \in Maps : ~Asked(n, p)
  BY MapsAssumption DEF IInv, AskedWaits, Calm, Quit, Login
<1>4. /\ \A q \in Players : q # p => sd'[q] = sd[q]
      /\ ~sd'[p].flag /\ ~sd'[p].waiting /\ (sd'[p].at # Off => sd'[p].guild)
  <2>1. CASE Quit(p)
    BY <1>2, <2>1 DEF Quit, NoSession
  <2>2. CASE \E m \in Maps : Login(p, m)
    <3>1. PICK m \in Maps : Login(p, m)
      BY <2>2
    <3>2. (p \in enrolled) = TRUE
      BY DEF IInv, Calm
    <3>3. PICK t \in Session : t = [NoSession EXCEPT !.at = m]
      BY EmptyTypes, SessionFields, Zenon
    <3>4. ~t.flag /\ ~t.waiting
      BY <3>3, EmptyTypes DEF Session, NoSession
    <3>5. sd' = [sd EXCEPT ![p] = [t EXCEPT !.guild = TRUE]]
      BY <3>1, <3>2, <3>3 DEF Login
    <3>6. sd'[p] = [t EXCEPT !.guild = TRUE] /\ \A q \in Players : q # p => sd'[q] = sd[q]
      BY <1>2, <3>5
    <3> QED
      BY <3>4, <3>6 DEF Session
  <2> QED
    BY <2>1, <2>2
<1>5. OneToken' /\ FreeMeansNoToken'
  <2>1. \A n \in Maps : \A i \in Nat : UpToken(n, i)' => UpToken(n, i)
    <3>1. CASE UNCHANGED up
      BY <3>1, SameQueues
    <3>2. ASSUME NEW m \in Maps, up' = [up EXCEPT ![m] = Append(@, GuildInfo)]
          PROVE  \A n \in Maps : \A i \in Nat : UpToken(n, i)' => UpToken(n, i)
      BY <3>2, InfoType, UpAppend DEF IInv
    <3> QED
      BY <1>1, <3>1, <3>2
  <2> QED
    BY <1>1, <1>4, <2>1, SameQueues, NoNewTokens
<1>6. OpenIsClosable'
  BY <1>1, <1>4 DEF IInv, OpenIsClosable, Closable, Playing
<1>7. Quiet([n \in Maps |-> 0]) /\ [n \in Maps |-> 0] \in [Maps -> 0..1]
  BY <1>1, InfoType, SameQuiet, AddedQuiet
<1>8. \A n \in Maps, q \in Players :
        Asked(n, q) /\ Asked(n, q)' => sd'[q].at = n /\ sd'[q].lockreq # 0
  BY <1>3, <1>4 DEF IInv, AskedWaits
<1>9. \A q \in Players : /\ sd'[q].at # Off => sd'[q].guild
                         /\ sd'[q].waiting => sd'[q].lockreq = 0
  BY <1>4 DEF IInv, Calm
<1> QED
  BY <1>1, <1>5, <1>6, <1>7, <1>8, <1>9, QuietInv

\* A lost connection takes every message and every open session of the server
\* with it.
LEMMA CutOffInv ==
  ASSUME IInv, TypeOK', NEW S \in SUBSET Maps, CutOff(S), UNCHANGED enrolled,
         UNCHANGED gs \/ S = Maps
  PROVE  IInv'
<1>1. /\ up \in [Maps -> Seq(UpMessage)] /\ down \in [Maps -> Seq(DownMessage)]
      /\ sd \in [Players -> Session] /\ cache \in [Maps -> GStorage]
  BY DEF IInv, TypeOK
<1>2. \A n \in Maps : /\ up'[n] = IF n \in S THEN <<>> ELSE up[n]
                      /\ down'[n] = IF n \in S THEN <<>> ELSE down[n]
  BY DEF CutOff
<1>3. \A n \in Maps : \A i \in DOMAIN up'[n] : n \notin S /\ i \in DOMAIN up[n] /\ up'[n] = up[n]
  BY <1>2
<1>4. \A n \in Maps : \A i \in DOMAIN down'[n] :
        n \notin S /\ i \in DOMAIN down[n] /\ down'[n] = down[n] /\ i + 0 = i
  <2> SUFFICES ASSUME NEW n \in Maps, NEW i \in DOMAIN down'[n]
               PROVE  n \notin S /\ i \in DOMAIN down[n] /\ down'[n] = down[n] /\ i + 0 = i
    OBVIOUS
  <2>1. n \notin S /\ down'[n] = down[n] /\ i \in DOMAIN down[n]
    BY <1>2
  <2>2. down[n] \in Seq(DownMessage)
    BY <1>1
  <2> QED
    BY <2>1, <2>2
<1>5. Quiet([n \in Maps |-> 0]) /\ [n \in Maps |-> 0] \in [Maps -> 0..1]
  BY <1>3, <1>4 DEF Quiet
<1>6. \A q \in Players : /\ sd'[q] = sd[q] \/ sd'[q] = NoSession
                         /\ sd[q].at \notin S => sd'[q] = sd[q]
                         /\ sd[q].at \in S /\ Playing(q) => sd'[q] = NoSession
  BY DEF CutOff
<1>7. ~NoSession.flag /\ ~NoSession.waiting /\ NoSession.at = Off
  BY DEF NoSession
<1>8. \A q \in Players : sd'[q].flag => sd[q].flag /\ sd[q].at \notin S /\ sd'[q] = sd[q]
  BY <1>6, <1>7 DEF IInv, OpenIsClosable
<1>9. /\ \A n \in Maps : \A i \in Nat : UpToken(n, i)' => n \notin S /\ UpToken(n, i)
      /\ \A n \in Maps : \A i \in Nat : DownToken(n, i)' => n \notin S /\ DownToken(n, i)
  BY <1>3, <1>4 DEF UpToken, DownToken
<1>10. OneToken' /\ FreeMeansNoToken'
  <2>1. CASE UNCHANGED gs
    BY <1>8, <1>9, <2>1, NoNewTokens
  <2>2. CASE S = Maps
    <3>1. \A q \in Players : ~sd'[q].flag
      <4>1. \A q \in Players : sd[q].flag => sd[q].at \in Maps
        BY SessionAt DEF IInv, OpenIsClosable, Playing
      <4> QED
        BY <1>8, <2>2, <4>1
    <3>2. NoToken'
      BY <1>9, <2>2, <3>1 DEF NoToken
    <3> QED
      BY <3>2 DEF FreeMeansNoToken, NoToken, OneToken, MutualExclusion, UpTokenOnly, DownTokenOnly
  <2> QED
    BY <2>1, <2>2
<1>11. OpenIsClosable'
  <2> SUFFICES ASSUME NEW q \in Players, sd'[q].flag
               PROVE  (Closable(q) /\ Playing(q))' /\ cache'[sd'[q].at].status = 1
    BY DEF OpenIsClosable
  <2>1. sd[q].flag /\ sd[q].at \notin S /\ sd'[q] = sd[q]
    BY <1>8
  <2>2. Closable(q) /\ Playing(q) /\ cache[sd[q].at].status = 1 /\ sd[q].at \in Maps
    BY <2>1, SessionAt DEF IInv, OpenIsClosable, Playing
  <2>3. cached' = cached \ S /\ cache'[sd[q].at] = cache[sd[q].at]
    BY <2>1, <2>2 DEF CutOff
  <2> QED
    BY <2>1, <2>2, <2>3 DEF Closable, Playing
<1>12. ASSUME NEW n \in Maps, NEW q \in Players, Asked(n, q), Asked(n, q)'
       PROVE  sd'[q].at = n /\ sd'[q].lockreq # 0
  <2>1. n \notin S
    BY <1>3, <1>4, <1>12 DEF Asked
  <2>2. sd[q].at = n /\ sd[q].lockreq # 0
    BY <1>12 DEF IInv, AskedWaits
  <2> QED
    BY <1>6, <2>1, <2>2
<1>13. \A q \in Players : /\ sd'[q].at # Off => sd'[q].guild
                          /\ sd'[q].waiting => sd'[q].lockreq = 0
  BY <1>6, <1>7 DEF IInv, Calm
<1> QED
  BY <1>5, <1>10, <1>11, <1>12, <1>13, QuietInv

\* Connections that come and go keep the invariant.
LEMMA ConnectionInv ==
  ASSUME IInv, CharRestart \/ \E m \in Maps : Drop(m) \/ Connect(m)
  PROVE  IInv'
<1>1. TypeOK'
  BY ConnectionTypes DEF IInv
<1>2. CASE CharRestart
  <2>1. Maps \in SUBSET Maps /\ CutOff(Maps) /\ UNCHANGED enrolled
    BY <1>2 DEF CharRestart
  <2> QED
    BY <1>1, <2>1, CutOffInv
<1>3. CASE \E m \in Maps : Drop(m)
  <2>1. PICK m \in Maps : Drop(m)
    BY <1>3
  <2>2. {m} \in SUBSET Maps /\ CutOff({m}) /\ UNCHANGED enrolled /\ UNCHANGED gs
    BY <2>1 DEF Drop
  <2> QED
    BY <1>1, <2>2, CutOffInv
<1>4. CASE \E m \in Maps : Connect(m)
  <2>1. UNCHANGED <<gs, up, down, cached, cache, sd, enrolled, drops>>
    BY <1>4 DEF Connect
  <2> QED
    BY <1>1, <2>1 DEF IInv, OneToken, MutualExclusion, UpTokenOnly, DownTokenOnly, UpToken,
       DownToken, FreeMeansNoToken, NoToken, OpenIsClosable, Closable, Playing,
       SavesAreLocked, AskedWaits, AskedOnce, Asked, Calm
<1> QED
  BY <1>2, <1>3, <1>4

\* The invariant holds initially.
LEMMA InitInv == Init => IInv
<1> SUFFICES ASSUME Init PROVE IInv
  OBVIOUS
<1>1. <<>> \in Seq(UpMessage) /\ <<>> \in Seq(DownMessage)
  OBVIOUS
<1>2. TypeOK
  BY <1>1, EmptyTypes DEF Init, TypeOK
<1>3. \A m \in Maps : up[m] = <<>> /\ down[m] = <<>>
  BY DEF Init
<1>4. \A p \in Players : sd[p] = NoSession
  BY DEF Init
<1>5. ~NoSession.flag /\ ~NoSession.waiting /\ NoSession.at = Off
  BY DEF NoSession
<1>6. NoToken
  BY <1>3, <1>4, <1>5 DEF NoToken, UpToken, DownToken
<1>7. OneToken /\ FreeMeansNoToken
  BY <1>6, NoneMeansOne DEF FreeMeansNoToken
<1>8. OpenIsClosable /\ SavesAreLocked
  BY <1>3, <1>4, <1>5 DEF OpenIsClosable, SavesAreLocked
<1>9. AskedWaits /\ AskedOnce
  BY <1>3 DEF AskedWaits, AskedOnce, Asked
<1>10. Calm
  BY <1>3, <1>4, <1>5 DEF Calm, Init
<1> QED
  BY <1>2, <1>7, <1>8, <1>9, <1>10 DEF IInv

\* Every step of the calm environment keeps it.
LEMMA StepInv == IInv /\ [CalmNext]_vars => IInv'
<1> SUFFICES ASSUME IInv, [CalmNext]_vars PROVE IInv'
  OBVIOUS
<1>1. CASE \E m \in Maps : CharReceive(m)
  BY <1>1, CharReceiveInv
<1>2. CASE \E m \in Maps : MapReceive(m)
  BY <1>2, MapReceiveInv
<1>3. CASE CharRestart \/ \E m \in Maps : Drop(m) \/ Connect(m)
  BY <1>3, ConnectionInv
<1>4. CASE \E p \in Players : RequestByCommand(p) \/ RequestByScript(p)
  BY <1>4, RequestInv
<1>5. CASE \E p \in Players : CloseKafra(p) \/ (Settled(p) /\ Depart(p))
  BY <1>5, LeaveInv
<1>6. CASE \E p \in Players : Autosave(p)
  BY <1>6, AutosaveInv
<1>7. CASE \E p \in Players, i \in Items : StorageAdd(p, i) \/ StorageGet(p, i)
  BY <1>7, EditInv
<1>8. CASE \E p \in Players : Quit(p) \/ \E m \in Maps : Login(p, m)
  BY <1>8, SessionInv
<1>9. CASE UNCHANGED vars
  BY <1>9 DEF vars, IInv, TypeOK, OneToken, MutualExclusion, UpTokenOnly, DownTokenOnly,
     UpToken, DownToken, FreeMeansNoToken, NoToken, OpenIsClosable, Closable, Playing,
     SavesAreLocked, AskedWaits, AskedOnce, Asked, Calm
<1> QED
  BY <1>1, <1>2, <1>3, <1>4, <1>5, <1>6, <1>7, <1>8, <1>9 DEF CalmNext, CommonNext

\* The lock works: as long as no member leaves the guild, nobody departs with a
\* request under way and the deadlock timer does not step in, no two players have
\* the storage open (storage_flag), on any number of map servers and through any
\* loss of connections.
THEOREM MutualExclusionHolds == CalmSpec => []MutualExclusion
<1>1. IInv => MutualExclusion
  BY DEF IInv, OneToken
<1> QED
  BY <1>1, InitInv, StepInv, PTL DEF CalmSpec

=============================================================================
