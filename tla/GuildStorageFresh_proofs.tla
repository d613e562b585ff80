---------------------- MODULE GuildStorageFresh_proofs ----------------------
(***************************************************************************)
(* Proofs about what a member sees who opens the guild storage, for any    *)
(* number of map servers, players and items and through any loss of        *)
(* connections: in the calm environment the cache that last_fd spares from *)
(* a reload is the stored storage, and whoever opens it, from the cache or *)
(* from a load, sees what the last holder left.                            *)
(***************************************************************************)
EXTENDS GuildStorage_proofs

-----------------------------------------------------------------------------
(* The messages of one queue to the char server *)

\* A message that comes with the lock: a request to load or a release.
IsLock(x) == x.type \in {"load", "unlock", "deadlock"}

\* What the char server will have stored once it took every save of the queue q,
\* when it has stored `base` now.
Upshot(q, base, c) ==
  /\ (\A i \in DOMAIN q : q[i].type # "save") => c = base
  /\ \A i \in DOMAIN q :
       /\ q[i].type = "save"
       /\ \A j \in DOMAIN q : i < j => q[j].type # "save"
       => q[i].storage.items = c

\* A save carries the socket of its server and, unless the storage is still open
\* there, the release of the lock is behind it.
Guarded(q, fd, open) ==
  \A i \in DOMAIN q : q[i].type = "save" =>
    /\ q[i].storage.lastFd = fd
    /\ open \/ \E j \in DOMAIN q : i < j /\ IsLock(q[j])

\* The places of a queue after its head was taken.
LEMMA RestOf ==
  ASSUME NEW S, NEW q \in Seq(S), q # <<>>
  PROVE  /\ 1 \in DOMAIN q /\ q[1] = Head(q)
         /\ \A i \in DOMAIN Tail(q) : i \in Nat /\ i + 1 \in DOMAIN q /\ Tail(q)[i] = q[i + 1]
         /\ \A i \in DOMAIN q : i \in Nat /\ (i # 1 => i > 1 /\ i - 1 \in DOMAIN Tail(q))
  OBVIOUS

\* And after a message was added.
LEMMA LongerBy ==
  ASSUME NEW S, NEW q \in Seq(S), NEW x \in S
  PROVE  /\ Append(q, x) \in Seq(S)
         /\ \A i \in DOMAIN q : /\ i \in Nat /\ i < Len(q) + 1
                                /\ i \in DOMAIN Append(q, x) /\ Append(q, x)[i] = q[i]
         /\ Len(q) + 1 \in DOMAIN Append(q, x) /\ Append(q, x)[Len(q) + 1] = x
         /\ \A i \in DOMAIN Append(q, x) : i \in Nat /\ (i \in DOMAIN q \/ i = Len(q) + 1)
         /\ Len(q) + 1 \notin DOMAIN q
  OBVIOUS

\* Storing a save changes what is stored, not what will be.
LEMMA UpshotTail ==
  ASSUME NEW q \in Seq(UpMessage), q # <<>>, NEW base, NEW c, Upshot(q, base, c)
  PROVE  /\ Head(q).type # "save" => Upshot(Tail(q), base, c)
         /\ Head(q).type = "save" => Upshot(Tail(q), Head(q).storage.items, c)
<1> DEFINE r == Tail(q)
<1>1. /\ 1 \in DOMAIN q /\ q[1] = Head(q)
      /\ \A i \in DOMAIN r : i \in Nat /\ i + 1 \in DOMAIN q /\ r[i] = q[i + 1]
      /\ \A i \in DOMAIN q : i \in Nat /\ (i # 1 => i > 1 /\ i - 1 \in DOMAIN r)
  BY RestOf
<1> HIDE DEF r
<1>2. ASSUME NEW i \in DOMAIN r, r[i].type = "save",
             \A j \in DOMAIN r : i < j => r[j].type # "save"
      PROVE  r[i].storage.items = c
  <2>1. ASSUME NEW j \in DOMAIN q, i + 1 < j
        PROVE  q[j].type # "save"
    <3>1. j \in Nat /\ i \in Nat /\ j - 1 \in DOMAIN r /\ i < j - 1 /\ (j - 1) + 1 = j
      BY <1>1, <2>1
    <3>2. r[j - 1] = q[(j - 1) + 1]
      BY <1>1, <3>1
    <3> QED
      BY <1>2, <3>1, <3>2
  <2>2. i + 1 \in DOMAIN q /\ r[i] = q[i + 1]
    BY <1>1
  <2> QED
    BY <1>2, <2>1, <2>2 DEF Upshot
<1>3. ASSUME \A i \in DOMAIN r : r[i].type # "save", NEW j \in DOMAIN q, j # 1
      PROVE  q[j].type # "save"
  <2>1. j \in Nat /\ j - 1 \in DOMAIN r /\ (j - 1) + 1 = j
    BY <1>1, <1>3
  <2>2. r[j - 1] = q[(j - 1) + 1]
    BY <1>1, <2>1
  <2> QED
    BY <1>3, <2>1, <2>2
<1>4. CASE Head(q).type # "save"
  <2>1. (\A i \in DOMAIN r : r[i].type # "save") => c = base
    BY <1>1, <1>3, <1>4 DEF Upshot
  <2> QED
    BY <1>2, <1>4, <2>1 DEF Upshot, r
<1>5. CASE Head(q).type = "save"
  <2>1. ASSUME \A i \in DOMAIN r : r[i].type # "save"
        PROVE  c = q[1].storage.items
    <3>1. \A j \in DOMAIN q : 1 < j => q[j].type # "save"
      BY <1>3, <2>1
    <3> QED
      BY <1>1, <1>5, <3>1 DEF Upshot
  <2> QED
    BY <1>1, <1>2, <1>5, <2>1 DEF Upshot, r
<1> QED
  BY <1>4, <1>5

\* Sending changes it only when a save is sent.
LEMMA UpshotAppend ==
  ASSUME NEW q \in Seq(UpMessage), NEW x \in UpMessage, NEW base, NEW c
  PROVE  /\ x.type # "save" /\ Upshot(q, base, c) => Upshot(Append(q, x), base, c)
         /\ x.type = "save" => Upshot(Append(q, x), base, x.storage.items)
<1> DEFINE r == Append(q, x)
           k == Len(q) + 1
<1>1. /\ \A i \in DOMAIN q : i \in Nat /\ i < k /\ i \in DOMAIN r /\ r[i] = q[i]
      /\ k \in DOMAIN r /\ r[k] = x
      /\ \A i \in DOMAIN r : i \in Nat /\ (i \in DOMAIN q \/ i = k)
  BY LongerBy
<1> HIDE DEF r, k
<1>2. ASSUME x.type # "save", Upshot(q, base, c)
      PROVE  Upshot(r, base, c)
  <2>1. (\A i \in DOMAIN r : r[i].type # "save") => c = base
    BY <1>1, <1>2 DEF Upshot
  <2>2. ASSUME NEW i \in DOMAIN r, r[i].type = "save",
               \A j \in DOMAIN r : i < j => r[j].type # "save"
        PROVE  r[i].storage.items = c
    <3>1. i \in DOMAIN q /\ r[i] = q[i]
      BY <1>1, <1>2, <2>2
    <3>2. \A j \in DOMAIN q : i < j => q[j].type # "save"
      BY <1>1, <2>2
    <3> QED
      BY <1>2, <2>2, <3>1, <3>2 DEF Upshot
  <2> QED
    BY <2>1, <2>2 DEF Upshot
<1>3. ASSUME x.type = "save"
      PROVE  Upshot(r, base, x.storage.items)
  <2>1. ASSUME NEW i \in DOMAIN r, \A j \in DOMAIN r : i < j => r[j].type # "save"
        PROVE  r[i] = x
    BY <1>1, <1>3, <2>1
  <2> QED
    BY <1>1, <1>3, <2>1 DEF Upshot
<1> QED
  BY <1>2, <1>3 DEF r

\* Taking a message leaves the saves behind it guarded.
LEMMA GuardedTail ==
  ASSUME NEW q \in Seq(UpMessage), q # <<>>, NEW fd, NEW open \in BOOLEAN, Guarded(q, fd, open)
  PROVE  Guarded(Tail(q), fd, open)
<1> DEFINE r == Tail(q)
<1>1. /\ \A i \in DOMAIN r : i \in Nat /\ i + 1 \in DOMAIN q /\ r[i] = q[i + 1]
      /\ \A i \in DOMAIN q : i \in Nat /\ (i # 1 => i > 1 /\ i - 1 \in DOMAIN r)
  BY RestOf
<1> HIDE DEF r
<1>2. ASSUME NEW i \in DOMAIN r, r[i].type = "save"
      PROVE  /\ r[i].storage.lastFd = fd
             /\ open \/ \E j \in DOMAIN r : i < j /\ IsLock(r[j])
  <2>1. i \in Nat /\ i + 1 \in DOMAIN q /\ r[i] = q[i + 1]
    BY <1>1
  <2>2. /\ r[i].storage.lastFd = fd
        /\ open \/ \E j \in DOMAIN q : i + 1 < j /\ IsLock(q[j])
    BY <1>2, <2>1 DEF Guarded
  <2>3. ASSUME NEW j \in DOMAIN q, i + 1 < j, IsLock(q[j])
        PROVE  \E k \in DOMAIN r : i < k /\ IsLock(r[k])
    <3>1. j \in Nat /\ j - 1 \in DOMAIN r /\ i < j - 1 /\ (j - 1) + 1 = j
      BY <1>1, <2>1, <2>3
    <3>2. r[j - 1] = q[(j - 1) + 1]
      BY <1>1, <3>1
    <3> QED
      BY <2>3, <3>1, <3>2
  <2> QED
    BY <2>2, <2>3
<1> QED
  BY <1>2 DEF Guarded, r

\* Sending keeps them guarded, when a release is sent by whoever closes.
LEMMA GuardedAppend ==
  ASSUME NEW q \in Seq(UpMessage), NEW x \in UpMessage, NEW fd,
         NEW open \in BOOLEAN, NEW still \in BOOLEAN, Guarded(q, fd, open),
         open => still \/ IsLock(x),
         x.type = "save" => still /\ x.storage.lastFd = fd
  PROVE  Guarded(Append(q, x), fd, still)
<1> DEFINE r == Append(q, x)
           k == Len(q) + 1
<1>1. /\ \A i \in DOMAIN q : i \in Nat /\ i < k /\ i \in DOMAIN r /\ r[i] = q[i]
      /\ k \in DOMAIN r /\ r[k] = x
      /\ \A i \in DOMAIN r : i \in Nat /\ (i \in DOMAIN q \/ i = k)
  BY LongerBy
<1> HIDE DEF r, k
<1>2. ASSUME NEW i \in DOMAIN r, r[i].type = "save"
      PROVE  /\ r[i].storage.lastFd = fd
             /\ still \/ \E j \in DOMAIN r : i < j /\ IsLock(r[j])
  <2>1. CASE i = k
    BY <1>1, <1>2, <2>1
  <2>2. CASE i \in DOMAIN q
    <3>1. /\ r[i].storage.lastFd = fd
          /\ open \/ \E j \in DOMAIN q : i < j /\ IsLock(q[j])
      BY <1>1, <1>2, <2>2 DEF Guarded
    <3>2. ASSUME NEW j \in DOMAIN q, i < j, IsLock(q[j])
          PROVE  \E l \in DOMAIN r : i < l /\ IsLock(r[l])
      BY <1>1, <3>2
    <3>3. open => still \/ \E l \in DOMAIN r : i < l /\ IsLock(r[l])
      BY <1>1, <2>2
    <3> QED
      BY <3>1, <3>2, <3>3
  <2> QED
    BY <1>1, <2>1, <2>2
<1> QED
  BY <1>2 DEF Guarded, r

-----------------------------------------------------------------------------
(* What one map server and its connection are like in the calm environment *)

OpenAt(m) == \E p \in Players : sd[p].flag /\ sd[p].at = m

Presence(m) == \E p \in Players : sd[p].at = m /\ Playing(p)

\* The lock is with this server: in an open session or in a message.
Locked(m) ==
  \/ OpenAt(m)
  \/ \E i \in Nat : UpToken(m, i) \/ DownToken(m, i)

\* An answer is on its way that makes the server drop its cache.
Reloads(m) == \E i \in DOMAIN down[m] : down[m][i].type = "ack" /\ down[m][i].flag = 2

\* A server without a connection has no cache, no messages and no players.
CutIsEmpty(m) ==
  link[m] = NoFd => /\ m \notin cached /\ up[m] = <<>> /\ down[m] = <<>>
                    /\ ~Presence(m)

\* last_fd names the server that has the lock,
LockIsLinked(m) == Locked(m) => gs.lastFd = link[m]

\* and a cache remembers the socket it was loaded over.
CacheIsLinked(m) == m \in cached => cache[m].lastFd = link[m]

DirtyIsOpen(m) == cache[m].dirty => OpenAt(m)

SavesAreGuarded(m) == Guarded(up[m], link[m], OpenAt(m))

LoadsAreCurrent(m) ==
  \A i \in DOMAIN down[m] : down[m][i].type = "load" => down[m][i].storage = gs

\* The cache of the server that last_fd names is what will be stored.
CacheIsFresh(m) ==
  m \in cached /\ gs.lastFd = link[m] /\ ~cache[m].dirty /\ ~Reloads(m)
    => Upshot(up[m], gs.items, cache[m].items)

ServerInv(m) ==
  /\ CutIsEmpty(m)
  /\ LockIsLinked(m)
  /\ CacheIsLinked(m)
  /\ DirtyIsOpen(m)
  /\ SavesAreGuarded(m)
  /\ LoadsAreCurrent(m)
  /\ CacheIsFresh(m)

LinksApart == \A m, n \in Maps : link[m] = link[n] /\ link[m] # NoFd => m = n

\* A script that asked for the lock still waits for the answer: without the NPC
\* timeout nothing ends its dialog.
ScriptWaits == \A p \in Players : sd[p].lockreq = 1 => sd[p].menu = "asked"

FInv ==
  /\ IInv
  /\ LinksApart
  /\ ScriptWaits
  /\ \A m \in Maps : ServerInv(m)

\* The lock is with one server at most.
LEMMA LockedApart ==
  ASSUME IInv, NEW m \in Maps, NEW n \in Maps, Locked(m), Locked(n)
  PROVE  m = n
  BY DEF IInv, OneToken, MutualExclusion, UpTokenOnly, DownTokenOnly, Locked, OpenAt

\* Without tokens it is with none.
LEMMA NoTokenNotLocked ==
  ASSUME NoToken, NEW m \in Maps
  PROVE  ~Locked(m)
  BY DEF NoToken, Locked, OpenAt

\* A save in a queue means that the lock is with its server, and that no answer
\* that grants the lock and no load is on its way.
LEMMA SaveIsLocked ==
  ASSUME FInv, NEW m \in Maps, NEW i \in DOMAIN up[m], up[m][i].type = "save"
  PROVE  /\ Locked(m) /\ gs.lastFd = link[m] /\ up[m][i].storage.lastFd = link[m]
         /\ \A n \in Maps : \A k \in Nat : ~DownToken(n, k)
<1>1. /\ up[m][i].storage.lastFd = link[m]
      /\ OpenAt(m) \/ \E j \in DOMAIN up[m] : i < j /\ IsLock(up[m][j])
  BY DEF FInv, ServerInv, SavesAreGuarded, Guarded
<1>2. up[m] \in Seq(UpMessage)
  BY DEF FInv, IInv, TypeOK
<1>3. ASSUME NEW j \in DOMAIN up[m], IsLock(up[m][j])
      PROVE  j \in Nat /\ UpToken(m, j)
  BY <1>2, <1>3 DEF IsLock, UpToken
<1>4. OpenAt(m) \/ \E j \in Nat : UpToken(m, j)
  BY <1>1, <1>3
<1>5. \A n \in Maps : \A k \in Nat : ~DownToken(n, k)
  BY <1>4 DEF FInv, IInv, OneToken, OpenAt
<1>6. Locked(m)
  BY <1>4 DEF Locked
<1> QED
  BY <1>1, <1>5, <1>6 DEF FInv, ServerInv, LockIsLinked

\* A step elsewhere leaves a server as it is, when it changes the stored storage
\* only while the lock is not with this server.
LEMMA Elsewhere ==
  ASSUME FInv, NEW n \in Maps, up'[n] = up[n], down'[n] = down[n], link'[n] = link[n],
         n \in cached' => n \in cached, cache'[n] = cache[n],
         OpenAt(n)' <=> OpenAt(n), Presence(n)' => Presence(n) \/ link[n] # NoFd,
         \/ gs' = gs
         \/ ~Locked(n) /\ gs'.items = gs.items /\ gs'.lastFd = gs.lastFd
         \/ ~Locked(n) /\ (n \in cached => gs'.lastFd # link[n])
  PROVE  ServerInv(n)'
<1>0. ServerInv(n)
  BY DEF FInv
<1>1. \A i \in Nat : (UpToken(n, i)' <=> UpToken(n, i)) /\ (DownToken(n, i)' <=> DownToken(n, i))
  BY DEF UpToken, DownToken
<1>2. Locked(n)' <=> Locked(n)
  BY <1>1 DEF Locked
<1>3. CutIsEmpty(n)'
  BY <1>0 DEF ServerInv, CutIsEmpty
<1>4. LockIsLinked(n)'
  BY <1>0, <1>2 DEF ServerInv, LockIsLinked
<1>5. CacheIsLinked(n)' /\ DirtyIsOpen(n)'
  BY <1>0 DEF ServerInv, CacheIsLinked, DirtyIsOpen
<1>6. SavesAreGuarded(n)'
  BY <1>0 DEF ServerInv, SavesAreGuarded, Guarded
<1>7. LoadsAreCurrent(n)'
  <2>1. CASE gs' = gs
    BY <1>0, <2>1 DEF ServerInv, LoadsAreCurrent
  <2>2. CASE ~Locked(n)
    <3>1. down[n] \in Seq(DownMessage)
      BY DEF FInv, IInv, TypeOK
    <3>2. \A i \in DOMAIN down[n] : i \in Nat /\ down[n][i].type # "load"
      BY <2>2, <3>1 DEF Locked, DownToken, Grants
    <3> QED
      BY <3>2 DEF LoadsAreCurrent
  <2> QED
    BY <2>1, <2>2
<1>8. CacheIsFresh(n)'
  BY <1>0 DEF ServerInv, CacheIsFresh, Reloads, Upshot
<1> QED
  BY <1>3, <1>4, <1>5, <1>6, <1>7, <1>8 DEF ServerInv

\* What the char server's handlers change, besides the queue they read.
LEMMA CharReceiveParts ==
  ASSUME FInv, NEW m \in Maps, CharReceive(m)
  PROVE  /\ UNCHANGED <<link, cached, cache, sd, enrolled, drops>>
         /\ up[m] \in Seq(UpMessage) /\ up[m] # <<>> /\ up'[m] = Tail(up[m])
         /\ Head(up[m]) = up[m][1] /\ 1 \in DOMAIN up[m] /\ Head(up[m]) \in UpMessage
         /\ down[m] \in Seq(DownMessage) /\ gs \in GStorage
         /\ \A n \in Maps : n # m => up'[n] = up[n] /\ down'[n] = down[n]
         /\ link[m] # NoFd
         /\ \A n \in Maps : n # m /\ n \in cached => link[n] # link[m]
<1>1. /\ UNCHANGED <<link, cached, cache, sd, enrolled, drops>>
      /\ up[m] # <<>> /\ up' = [up EXCEPT ![m] = Tail(@)]
  BY DEF CharReceive
<1>2. /\ up \in [Maps -> Seq(UpMessage)] /\ down \in [Maps -> Seq(DownMessage)] /\ gs \in GStorage
  BY DEF FInv, IInv, TypeOK
<1>3. up'[m] = Tail(up[m]) /\ up[m] \in Seq(UpMessage) /\ down[m] \in Seq(DownMessage)
  BY <1>1, <1>2
<1>4. \A n \in Maps : n # m => up'[n] = up[n] /\ down'[n] = down[n]
  BY <1>1, <1>2 DEF CharReceive, ReceiveTrylock, ReceiveUnlock, ReceiveLoad, ReceiveSave,
     ReceiveInfoRequest
<1>5. link[m] # NoFd
  BY <1>1 DEF FInv, ServerInv, CutIsEmpty
<1>6. \A n \in Maps : n # m /\ n \in cached => link[n] # link[m]
  BY <1>5 DEF FInv, LinksApart
<1>7. 1 \in DOMAIN up[m] /\ Head(up[m]) = up[m][1] /\ Head(up[m]) \in UpMessage
  BY <1>1, <1>2, NoPlaceBeyond, TailTypes
<1> QED
  BY <1>1, <1>2, <1>3, <1>4, <1>5, <1>6, <1>7

\* The other servers when the char server handles a message.
LEMMA CharReceiveElsewhere ==
  ASSUME FInv, NEW m \in Maps, CharReceive(m), NEW n \in Maps, n # m
  PROVE  ServerInv(n)'
<1>1. /\ UNCHANGED <<link, cached, cache, sd>> /\ up[m] # <<>> /\ gs \in GStorage
      /\ up'[n] = up[n] /\ down'[n] = down[n] /\ (n \in cached => link[n] # link[m])
      /\ Head(up[m]) = up[m][1] /\ 1 \in DOMAIN up[m]
  BY CharReceiveParts
<1>2. OpenAt(n)' <=> OpenAt(n)
  BY <1>1 DEF OpenAt
<1>3. Presence(n)' => Presence(n)
  BY <1>1 DEF Presence, Playing
<1>4. \/ gs' = gs
      \/ ~Locked(n) /\ gs'.items = gs.items /\ gs'.lastFd = gs.lastFd
      \/ ~Locked(n) /\ (n \in cached => gs'.lastFd # link[n])
  <2>1. CASE ReceiveTrylock(m) /\ gs.status = 0
    <3>1. ~Locked(n)
      BY <2>1, NoTokenNotLocked DEF FInv, IInv, FreeMeansNoToken
    <3>2. gs' = [gs EXCEPT !.status = 1, !.lastFd = link[m]]
      BY <2>1 DEF ReceiveTrylock
    <3>3. gs'.lastFd = link[m]
      BY <1>1, <3>2 DEF GStorage
    <3> QED
      BY <1>1, <3>1, <3>3
  <2>2. CASE (ReceiveTrylock(m) /\ gs.status # 0) \/ ReceiveLoad(m) \/ ReceiveInfoRequest(m)
    BY <2>2 DEF ReceiveTrylock, ReceiveLoad, ReceiveInfoRequest
  <2>3. CASE ReceiveUnlock(m)
    <3>1. Locked(m)
      BY <1>1, <2>3 DEF ReceiveUnlock, Locked, UpToken
    <3>2. ~Locked(n)
      BY <3>1, LockedApart DEF FInv
    <3>3. gs'.items = gs.items /\ gs'.lastFd = gs.lastFd
      BY <1>1, <2>3 DEF ReceiveUnlock, GStorage
    <3> QED
      BY <3>2, <3>3
  <2>4. CASE ReceiveSave(m)
    <3>1. up[m][1].type = "save" /\ gs' = up[m][1].storage
      BY <1>1, <2>4 DEF ReceiveSave
    <3>2. Locked(m) /\ gs'.lastFd = link[m]
      BY <1>1, <3>1, SaveIsLocked
    <3>3. ~Locked(n)
      BY <3>2, LockedApart DEF FInv
    <3> QED
      BY <1>1, <3>2, <3>3
  <2> QED
    BY <2>1, <2>2, <2>3, <2>4 DEF CharReceive
<1> QED
  BY <1>1, <1>2, <1>3, <1>4, Elsewhere

\* The server whose message it is.
LEMMA CharReceiveHere ==
  ASSUME FInv, NEW m \in Maps, CharReceive(m)
  PROVE  ServerInv(m)'
<1> DEFINE msg == Head(up[m])
<1>0. ServerInv(m)
  BY DEF FInv
<1>1. /\ UNCHANGED <<link, cached, cache, sd>>
      /\ up[m] \in Seq(UpMessage) /\ up[m] # <<>> /\ up'[m] = Tail(up[m])
      /\ msg = up[m][1] /\ 1 \in DOMAIN up[m] /\ msg \in UpMessage
      /\ down[m] \in Seq(DownMessage) /\ gs \in GStorage /\ link[m] # NoFd
      /\ down \in [Maps -> Seq(DownMessage)] /\ TypeOK
  BY CharReceiveParts DEF FInv, IInv, TypeOK
<1>2. OpenAt(m)' <=> OpenAt(m)
  BY <1>1 DEF OpenAt
<1>3. CutIsEmpty(m)' /\ CacheIsLinked(m)' /\ DirtyIsOpen(m)'
  BY <1>0, <1>1, <1>2 DEF ServerInv, CutIsEmpty, CacheIsLinked, DirtyIsOpen
<1>4. SavesAreGuarded(m)'
  <2>1. OpenAt(m) \in BOOLEAN
    BY DEF OpenAt
  <2>2. Guarded(Tail(up[m]), link[m], OpenAt(m))
    BY <1>0, <1>1, <2>1, GuardedTail DEF ServerInv, SavesAreGuarded
  <2>3. Guarded(up'[m], link'[m], OpenAt(m))
    BY <1>1, <2>2
  <2> QED
    BY <1>2, <2>3 DEF SavesAreGuarded, Guarded
<1>5. \A i \in Nat : UpToken(m, i)' => UpToken(m, i + 1)
  BY <1>1 DEF UpToken
<1>6. ASSUME down'[m] = down[m] \/ \E x \in DownMessage : down'[m] = Append(down[m], x) /\ ~Grants(x)
      PROVE  Locked(m)' => Locked(m)
  <2>1. ASSUME NEW i \in Nat, DownToken(m, i)'
        PROVE  DownToken(m, i)
    <3>1. CASE down'[m] = down[m]
      BY <2>1, <3>1 DEF DownToken
    <3>2. ASSUME NEW x \in DownMessage, down'[m] = Append(down[m], x), ~Grants(x)
          PROVE  DownToken(m, i)
      <4>1. i \in DOMAIN Append(down[m], x) /\ Grants(Append(down[m], x)[i])
        BY <2>1, <3>2 DEF DownToken
      <4>2. \/ i \in DOMAIN down[m] /\ Append(down[m], x)[i] = down[m][i]
            \/ Append(down[m], x)[i] = x
        BY <1>1, <4>1, LongerBy
      <4> QED
        BY <3>2, <4>1, <4>2 DEF DownToken
    <3> QED
      BY <1>6, <3>1, <3>2
  <2>2. \A i \in Nat : i + 1 \in Nat
    OBVIOUS
  <2> QED
    BY <1>2, <1>5, <2>1, <2>2 DEF Locked
<1>7. ASSUME msg.type # "save", gs'.items = gs.items, gs.lastFd = link[m],
             Reloads(m) => Reloads(m)'
      PROVE  CacheIsFresh(m)'
  <2>1. ASSUME m \in cached', ~cache'[m].dirty, ~Reloads(m)'
        PROVE  Upshot(up'[m], gs'.items, cache'[m].items)
    <3>1. Upshot(up[m], gs.items, cache[m].items)
      BY <1>0, <1>1, <1>7, <2>1 DEF ServerInv, CacheIsFresh
    <3>2. Upshot(Tail(up[m]), gs.items, cache[m].items)
      BY <1>1, <1>7, <3>1, UpshotTail
    <3> QED
      BY <1>1, <1>7, <3>2
  <2> QED
    BY <2>1 DEF CacheIsFresh
<1>8. ASSUME \E x \in DownMessage : down'[m] = Append(down[m], x)
      PROVE  Reloads(m) => Reloads(m)'
  BY <1>1, <1>8 DEF Reloads
<1>9. CASE ReceiveTrylock(m) /\ gs.status = 0
  <2> DEFINE flag == IF gs.lastFd = link[m] THEN 1 ELSE 2
             x == Ack(msg.who, flag)
  <2>1. /\ gs' = [gs EXCEPT !.status = 1, !.lastFd = link[m]]
        /\ down'[m] = Append(down[m], x) /\ msg.type = "trylock"
    BY <1>1, <1>9 DEF ReceiveTrylock
  <2>2. gs'.lastFd = link[m] /\ gs'.items = gs.items
    BY <1>1, <2>1 DEF GStorage
  <2>3. x \in DownMessage /\ x.type = "ack" /\ x.flag = flag
    <3>1. msg.who \in Players /\ flag \in 0..2
      BY <1>1, <2>1, MessageParts
    <3> QED
      BY <3>1 DEF Ack, DownMessage
  <2>4. LockIsLinked(m)'
    BY <1>1, <2>2 DEF LockIsLinked
  <2>5. LoadsAreCurrent(m)'
    <3>1. \A i \in DOMAIN down[m] : i \in Nat /\ down[m][i].type # "load"
      BY <1>1, <1>9 DEF FInv, IInv, FreeMeansNoToken, NoToken, DownToken, Grants
    <3>2. \A i \in DOMAIN down'[m] : down'[m][i].type # "load"
      BY <1>1, <2>1, <2>3, <3>1
    <3> QED
      BY <3>2 DEF LoadsAreCurrent
  <2>6. CASE gs.lastFd = link[m]
    <3>1. Reloads(m) => Reloads(m)'
      BY <1>8, <2>1, <2>3
    <3>2. CacheIsFresh(m)'
      BY <1>7, <2>1, <2>2, <2>6, <3>1
    <3> QED
      BY <1>3, <1>4, <2>4, <2>5, <3>2 DEF ServerInv
  <2>7. CASE gs.lastFd # link[m]
    <3>1. Len(down[m]) + 1 \in DOMAIN down'[m] /\ down'[m][Len(down[m]) + 1] = x
      BY <1>1, <2>1, <2>3
    <3>2. Reloads(m)'
      BY <2>3, <2>7, <3>1 DEF Reloads
    <3>3. CacheIsFresh(m)'
      BY <3>2 DEF CacheIsFresh
    <3> QED
      BY <1>3, <1>4, <2>4, <2>5, <3>3 DEF ServerInv
  <2> QED
    BY <2>6, <2>7
<1>10. ASSUME gs' = gs, msg.type # "save", Locked(m)' => Locked(m),
              Reloads(m) => Reloads(m)',
              \A i \in DOMAIN down'[m] : down'[m][i].type = "load" =>
                \/ i \in DOMAIN down[m] /\ down'[m][i] = down[m][i]
                \/ down'[m][i].storage = gs
       PROVE  ServerInv(m)'
  <2>1. LockIsLinked(m)'
    BY <1>0, <1>1, <1>10 DEF ServerInv, LockIsLinked
  <2>2. LoadsAreCurrent(m)'
    BY <1>0, <1>10 DEF ServerInv, LoadsAreCurrent
  <2>3. CacheIsFresh(m)'
    <3>1. CASE gs.lastFd = link[m]
      BY <1>7, <1>10, <3>1
    <3>2. CASE gs.lastFd # link[m]
      BY <1>1, <1>10, <3>2 DEF CacheIsFresh
    <3> QED
      BY <3>1, <3>2
  <2> QED
    BY <1>3, <1>4, <2>1, <2>2, <2>3 DEF ServerInv
<1>11. CASE ReceiveTrylock(m) /\ gs.status # 0
  <2>1. /\ gs' = gs /\ down'[m] = Append(down[m], Ack(msg.who, 0)) /\ msg.type = "trylock"
    BY <1>1, <1>11 DEF ReceiveTrylock
  <2> DEFINE x == Ack(msg.who, 0)
  <2>2. x \in DownMessage /\ x.type = "ack" /\ ~Grants(x)
    <3>1. msg.who \in Players
      BY <1>1, <2>1, MessageParts
    <3> QED
      BY <3>1 DEF Ack, DownMessage, Grants
  <2>3. \A i \in DOMAIN down'[m] : down'[m][i].type = "load" =>
          i \in DOMAIN down[m] /\ down'[m][i] = down[m][i]
    BY <1>1, <2>1, <2>2
  <2> QED
    BY <1>6, <1>8, <1>10, <2>1, <2>2, <2>3
<1>12. CASE ReceiveLoad(m)
  <2>1. gs' = gs /\ down'[m] = Append(down[m], LoadReply(msg.who)) /\ msg.type = "load"
    BY <1>1, <1>12 DEF ReceiveLoad
  <2> DEFINE x == LoadReply(msg.who)
  <2>2. x \in DownMessage /\ x.storage = gs
    <3>1. msg.who \in Players
      BY <1>1, <2>1, MessageParts
    <3> QED
      BY <1>1, <3>1 DEF LoadReply, DownMessage
  <2>3. \A i \in DOMAIN down'[m] :
          \/ i \in DOMAIN down[m] /\ down'[m][i] = down[m][i]
          \/ down'[m][i].storage = gs
    BY <1>1, <2>1, <2>2
  <2>4. Locked(m)
    BY <1>1, <2>1 DEF Locked, UpToken
  <2> QED
    BY <1>8, <1>10, <2>1, <2>2, <2>3, <2>4
<1>13. CASE ReceiveUnlock(m)
  <2>1. gs' = [gs EXCEPT !.status = 0] /\ down' = down /\ msg.type \in {"unlock", "deadlock"}
    BY <1>13 DEF ReceiveUnlock
  <2>2. gs'.lastFd = gs.lastFd /\ gs'.items = gs.items
    BY <1>1, <2>1 DEF GStorage
  <2>3. UpToken(m, 1)
    BY <1>1, <2>1 DEF UpToken
  <2>4. Locked(m) /\ gs.lastFd = link[m]
    BY <1>0, <2>3 DEF Locked, ServerInv, LockIsLinked
  <2>5. LockIsLinked(m)'
    BY <1>1, <2>2, <2>4 DEF LockIsLinked
  <2>6. LoadsAreCurrent(m)'
    <3>1. \A i \in Nat : ~DownToken(m, i)
      BY <2>3 DEF FInv, IInv, OneToken
    <3>2. \A i \in DOMAIN down'[m] : down'[m][i].type # "load"
      BY <1>1, <2>1, <3>1 DEF DownToken, Grants
    <3> QED
      BY <3>2 DEF LoadsAreCurrent
  <2>7. CacheIsFresh(m)'
    <3>1. Reloads(m) => Reloads(m)'
      BY <2>1 DEF Reloads
    <3>2. msg.type # "save"
      BY <2>1
    <3> QED
      BY <1>7, <2>2, <2>4, <3>1, <3>2
  <2> QED
    BY <1>3, <1>4, <2>5, <2>6, <2>7 DEF ServerInv
<1>14. CASE ReceiveSave(m)
  <2>1. gs' = msg.storage /\ down' = down /\ msg.type = "save"
    BY <1>14 DEF ReceiveSave
  <2>2. /\ gs.lastFd = link[m] /\ msg.storage.lastFd = link[m]
        /\ \A k \in Nat : ~DownToken(m, k)
    BY <1>1, <2>1, SaveIsLocked
  <2>3. LockIsLinked(m)'
    BY <1>1, <2>1, <2>2 DEF LockIsLinked
  <2>4. LoadsAreCurrent(m)'
    <3>1. \A i \in DOMAIN down'[m] : down'[m][i].type # "load"
      BY <1>1, <2>1, <2>2 DEF DownToken, Grants
    <3> QED
      BY <3>1 DEF LoadsAreCurrent
  <2>5. CacheIsFresh(m)'
    <3>1. ASSUME m \in cached', ~cache'[m].dirty, ~Reloads(m)'
          PROVE  Upshot(up'[m], gs'.items, cache'[m].items)
      <4>1. Upshot(up[m], gs.items, cache[m].items)
        BY <1>0, <1>1, <2>1, <2>2, <3>1 DEF ServerInv, CacheIsFresh, Reloads
      <4>2. Upshot(Tail(up[m]), msg.storage.items, cache[m].items)
        BY <1>1, <2>1, <4>1, UpshotTail
      <4> QED
        BY <1>1, <2>1, <4>2
    <3> QED
      BY <3>1 DEF CacheIsFresh
  <2> QED
    BY <1>3, <1>4, <2>3, <2>4, <2>5 DEF ServerInv
<1>15. CASE ReceiveInfoRequest(m)
  <2>1. gs' = gs /\ down'[m] = Append(down[m], GuildInfo) /\ msg.type = "info"
    BY <1>1, <1>15 DEF ReceiveInfoRequest
  <2> DEFINE x == GuildInfo
  <2>2. x \in DownMessage /\ x.type = "info" /\ ~Grants(x)
    BY InfoType DEF Grants
  <2>3. \A i \in DOMAIN down'[m] : down'[m][i].type = "load" =>
          i \in DOMAIN down[m] /\ down'[m][i] = down[m][i]
    BY <1>1, <2>1, <2>2
  <2> QED
    BY <1>6, <1>8, <1>10, <2>1, <2>2, <2>3
<1> QED
  BY <1>9, <1>11, <1>12, <1>13, <1>14, <1>15 DEF CharReceive

\* The char server's handlers keep the invariant.
LEMMA CharReceiveFresh ==
  ASSUME FInv, NEW m \in Maps, CharReceive(m)
  PROVE  FInv'
<1>1. IInv'
  BY CharReceiveInv DEF FInv
<1>2. UNCHANGED <<link, sd>>
  BY DEF CharReceive
<1>3. LinksApart' /\ ScriptWaits'
  BY <1>2 DEF FInv, LinksApart, ScriptWaits
<1>4. \A n \in Maps : ServerInv(n)'
  BY CharReceiveElsewhere, CharReceiveHere
<1> QED
  BY <1>1, <1>3, <1>4 DEF FInv

-----------------------------------------------------------------------------
(* Steps of one map server and its players *)

\* What is left to show of such a step about its own server.
LEMMA ServerFresh ==
  ASSUME FInv, NEW m \in Maps, gs' = gs, link'[m] = link[m], link[m] # NoFd,
         \/ down'[m] = down[m]
         \/ down[m] # <<>> /\ down'[m] = Tail(down[m]),
         Locked(m)' => gs.lastFd = link[m],
         m \in cached' => cache'[m].lastFd = link[m],
         cache'[m].dirty => OpenAt(m)',
         Guarded(up'[m], link[m], OpenAt(m)'),
         CacheIsFresh(m)'
  PROVE  ServerInv(m)'
<1>0. ServerInv(m)
  BY DEF FInv
<1>1. CutIsEmpty(m)'
  BY DEF CutIsEmpty
<1>2. LockIsLinked(m)' /\ CacheIsLinked(m)' /\ DirtyIsOpen(m)'
  BY DEF LockIsLinked, CacheIsLinked, DirtyIsOpen
<1>3. SavesAreGuarded(m)'
  BY DEF SavesAreGuarded
<1>4. LoadsAreCurrent(m)'
  <2>1. down[m] \in Seq(DownMessage)
    BY DEF FInv, IInv, TypeOK
  <2>2. ASSUME NEW i \in DOMAIN down'[m]
        PROVE  \E j \in DOMAIN down[m] : down'[m][i] = down[m][j]
    <3>1. CASE down'[m] = down[m]
      BY <2>2, <3>1
    <3>2. CASE down[m] # <<>> /\ down'[m] = Tail(down[m])
      BY <2>1, <2>2, <3>2, RestOf
    <3> QED
      BY <3>1, <3>2
  <2> QED
    BY <1>0, <2>2 DEF ServerInv, LoadsAreCurrent
<1> QED
  BY <1>1, <1>2, <1>3, <1>4 DEF ServerInv

\* And about the others.
LEMMA LocalFresh ==
  ASSUME FInv, IInv', NEW m \in Maps, UNCHANGED <<gs, link>>,
         \A n \in Maps : n # m => /\ up'[n] = up[n] /\ down'[n] = down[n]
                                  /\ cache'[n] = cache[n] /\ (n \in cached' => n \in cached),
         \A p \in Players : sd'[p] # sd[p] => sd[p].at \in {m, Off} /\ sd'[p].at \in {m, Off},
         \A p \in Players : sd'[p] # sd[p] /\ sd'[p].lockreq = 1 => sd'[p].menu = "asked",
         ServerInv(m)'
  PROVE  FInv'
<1>1. LinksApart'
  BY DEF FInv, LinksApart
<1>2. ScriptWaits'
  BY DEF FInv, ScriptWaits
<1>3. ASSUME NEW n \in Maps, n # m
      PROVE  ServerInv(n)'
  <2>1. \A p \in Players : sd[p].at = n \/ sd'[p].at = n => sd'[p] = sd[p]
    BY <1>3, MapsAssumption
  <2>2. OpenAt(n)' <=> OpenAt(n)
    BY <2>1 DEF OpenAt
  <2>3. Presence(n)' => Presence(n)
    BY <2>1 DEF Presence, Playing
  <2>4. up'[n] = up[n] /\ down'[n] = down[n] /\ cache'[n] = cache[n] /\ (n \in cached' => n \in cached)
    BY <1>3
  <2> QED
    BY <2>2, <2>3, <2>4, Elsewhere
<1> QED
  BY <1>1, <1>2, <1>3 DEF FInv

\* Queues that stay keep the lock with its server, unless it is opened.
LEMMA LockStays ==
  ASSUME NEW m \in Maps, OpenAt(m)' => OpenAt(m) \/ Locked(m),
         \A i \in Nat : UpToken(m, i)' => UpToken(m, i) \/ Locked(m),
         \A i \in Nat : DownToken(m, i)' => \E j \in Nat : DownToken(m, j)
  PROVE  Locked(m)' => Locked(m)
  BY DEF Locked

\* A member who plays is on a server that has its connection.
LEMMA PlayersServer ==
  ASSUME FInv, NEW p \in Players, Playing(p)
  PROVE  sd[p].at \in Maps /\ link[sd[p].at] # NoFd
<1>1. sd[p].at \in Maps
  BY SessionAt DEF FInv, IInv, Playing
<1>2. Presence(sd[p].at)
  BY DEF Presence
<1> QED
  BY <1>1, <1>2 DEF FInv, ServerInv, CutIsEmpty

\* A step that opens the storage for nobody.
OpensNothing == \A p \in Players : sd'[p].flag => sd[p].flag

\* A request neither moves the lock nor saves: the server keeps its invariant.
LEMMA AskFresh ==
  ASSUME FInv, NEW m \in Maps, NEW x \in UpMessage, x.type \in {"trylock", "info"},
         up'[m] = Append(up[m], x), down'[m] = down[m], cache'[m] = cache[m],
         link'[m] = link[m], link[m] # NoFd, UNCHANGED <<gs, cached>>,
         OpenAt(m)' <=> OpenAt(m)
  PROVE  ServerInv(m)'
<1>1. up[m] \in Seq(UpMessage) /\ ServerInv(m)
  BY DEF FInv, IInv, TypeOK
<1>2. Locked(m)' => Locked(m)
  <2>1. ASSUME NEW i \in Nat, UpToken(m, i)'
        PROVE  UpToken(m, i)
    <3>1. i \in DOMAIN Append(up[m], x) /\ Append(up[m], x)[i].type \in {"load", "unlock", "deadlock"}
      BY <2>1 DEF UpToken
    <3>2. \/ i \in DOMAIN up[m] /\ Append(up[m], x)[i] = up[m][i]
          \/ Append(up[m], x)[i] = x
      BY <1>1, <3>1, LongerBy
    <3> QED
      BY <3>1, <3>2 DEF UpToken
  <2>2. \A i \in Nat : DownToken(m, i)' => DownToken(m, i)
    BY DEF DownToken
  <2> QED
    BY <2>1, <2>2 DEF Locked
<1>3. Guarded(up'[m], link[m], OpenAt(m)')
  <2>1. OpenAt(m) \in BOOLEAN /\ Guarded(up[m], link[m], OpenAt(m))
    BY <1>1 DEF OpenAt, ServerInv, SavesAreGuarded
  <2>2. Guarded(Append(up[m], x), link[m], OpenAt(m))
    BY <1>1, <2>1, GuardedAppend
  <2> QED
    BY <2>2 DEF Guarded
<1>4. CacheIsFresh(m)'
  <2>1. ASSUME m \in cached', gs'.lastFd = link'[m], ~cache'[m].dirty, ~Reloads(m)'
        PROVE  Upshot(up'[m], gs'.items, cache'[m].items)
    <3>1. Upshot(up[m], gs.items, cache[m].items)
      BY <1>1, <2>1 DEF ServerInv, CacheIsFresh, Reloads
    <3>2. Upshot(Append(up[m], x), gs.items, cache[m].items)
      BY <1>1, <3>1, UpshotAppend
    <3> QED
      BY <3>2
  <2> QED
    BY <2>1 DEF CacheIsFresh
<1>5. /\ Locked(m) => gs.lastFd = link[m]
      /\ m \in cached => cache[m].lastFd = link[m]
      /\ cache[m].dirty => OpenAt(m)
  BY <1>1 DEF ServerInv, LockIsLinked, CacheIsLinked, DirtyIsOpen
<1> QED
  BY <1>2, <1>3, <1>4, <1>5, ServerFresh

\* A request for the lock changes nothing but the queue and the session.
LEMMA RequestFresh ==
  ASSUME FInv, NEW p \in Players, RequestByCommand(p) \/ RequestByScript(p)
  PROVE  FInv' /\ OpensNothing
<1>1. PICK m \in Maps : m = sd[p].at /\ link[m] # NoFd
  BY PlayersServer DEF RequestByCommand, RequestByScript
<1>2. /\ up' = [up EXCEPT ![m] = Append(@, Trylock(p))]
      /\ UNCHANGED <<gs, link, down, cached, cache>>
  BY <1>1 DEF RequestByCommand, RequestByScript, SendUp
<1>3. /\ up \in [Maps -> Seq(UpMessage)] /\ sd \in [Players -> Session] /\ sd[p] \in Session
      /\ up[m] \in Seq(UpMessage) /\ ServerInv(m)
  BY DEF FInv, IInv, TypeOK
<1>4. IInv'
  BY RequestInv DEF FInv
<1>5. /\ \A q \in Players : q # p => sd'[q] = sd[q]
      /\ sd'[p].at = sd[p].at /\ sd'[p].flag = sd[p].flag
      /\ sd'[p].lockreq = 1 => sd'[p].menu = "asked"
  <2>1. CASE RequestByCommand(p)
    <3>1. sd' = [sd EXCEPT ![p].lockreq = 2]
      BY <2>1 DEF RequestByCommand
    <3>2. sd'[p] = [sd[p] EXCEPT !.lockreq = 2] /\ \A q \in Players : q # p => sd'[q] = sd[q]
      BY <1>3, <3>1
    <3>3. sd'[p].lockreq = 2 /\ sd'[p].at = sd[p].at /\ sd'[p].flag = sd[p].flag
      BY <1>3, <3>2 DEF Session
    <3> QED
      BY <3>2, <3>3
  <2>2. CASE RequestByScript(p)
    <3>1. sd' = [sd EXCEPT ![p] = [sd[p] EXCEPT !.lockreq = 1, !.menu = "asked"]]
      BY <2>2 DEF RequestByScript
    <3>2. PICK t : t = [sd[p] EXCEPT !.lockreq = 1]
      OBVIOUS
    <3>3. t \in Session /\ t.at = sd[p].at /\ t.flag = sd[p].flag
      <4>1. 1 \in 0..2
        OBVIOUS
      <4>2. t \in Session
        BY <1>3, <3>2, <4>1, SessionFields, Zenon
      <4> QED
        BY <1>3, <3>2, <4>2 DEF Session
    <3>4. sd'[p] = [t EXCEPT !.menu = "asked"] /\ \A q \in Players : q # p => sd'[q] = sd[q]
      BY <1>3, <3>1, <3>2
    <3>5. sd'[p].menu = "asked" /\ sd'[p].at = t.at /\ sd'[p].flag = t.flag
      BY <3>3, <3>4 DEF Session
    <3> QED
      BY <3>3, <3>4, <3>5
  <2> QED
    BY <2>1, <2>2
<1>6. Trylock(p) \in UpMessage /\ Trylock(p).type = "trylock"
  BY DEF Trylock, UpMessage
<1>7. up'[m] = Append(up[m], Trylock(p))
  BY <1>2, <1>3
<1>8. OpenAt(m)' <=> OpenAt(m)
  BY <1>5 DEF OpenAt
<1>9. ServerInv(m)'
  BY <1>1, <1>2, <1>6, <1>7, <1>8, AskFresh
<1>10. \A n \in Maps : n # m => up'[n] = up[n]
  BY <1>2, <1>3
<1>11. OpensNothing
  BY <1>5 DEF OpensNothing
<1> QED
  BY <1>1, <1>2, <1>4, <1>5, <1>9, <1>10, <1>11, LocalFresh

\* An edit is made by whoever has the storage open.
LEMMA EditFresh ==
  ASSUME FInv, NEW p \in Players, NEW i \in Items, StorageAdd(p, i) \/ StorageGet(p, i)
  PROVE  FInv'
<1>1. PICK m \in Maps : m = sd[p].at /\ link[m] # NoFd
  BY PlayersServer DEF StorageAdd, StorageGet
<1>2. UNCHANGED <<gs, link, up, down, cached, sd>> /\ sd[p].flag
  BY DEF StorageAdd, StorageGet
<1>3. cache \in [Maps -> GStorage] /\ cache[m] \in GStorage /\ ServerInv(m)
  BY DEF FInv, IInv, TypeOK
<1>4. IInv'
  BY EditInv DEF FInv
<1>5. /\ \A n \in Maps : n # m => cache'[n] = cache[n]
      /\ cache'[m].dirty = TRUE /\ cache'[m].lastFd = cache[m].lastFd
  <2>1. PICK c : cache' = [cache EXCEPT ![m] = [cache[m] EXCEPT !.items = c, !.dirty = TRUE]]
    <3>1. CASE StorageAdd(p, i)
      BY <1>1, <3>1, Zenon DEF StorageAdd
    <3>2. CASE StorageGet(p, i)
      BY <1>1, <3>2, Zenon DEF StorageGet
    <3> QED
      BY <3>1, <3>2
  <2>2. cache'[m] = [cache[m] EXCEPT !.items = c, !.dirty = TRUE]
    BY <1>3, <2>1
  <2> QED
    BY <1>3, <2>1, <2>2 DEF GStorage
<1>6. OpenAt(m) /\ OpenAt(m)'
  BY <1>1, <1>2 DEF OpenAt
<1>7. Locked(m)' => Locked(m)
  BY <1>6 DEF Locked
<1>8. ServerInv(m)'
  <2>1. /\ Locked(m) => gs.lastFd = link[m]
        /\ m \in cached => cache[m].lastFd = link[m]
        /\ Guarded(up'[m], link[m], OpenAt(m)')
    BY <1>2, <1>3, <1>6 DEF ServerInv, LockIsLinked, CacheIsLinked, SavesAreGuarded, Guarded
  <2>2. CacheIsFresh(m)'
    BY <1>5 DEF CacheIsFresh
  <2> QED
    BY <1>1, <1>2, <1>5, <1>6, <1>7, <2>1, <2>2, ServerFresh
<1> QED
  BY <1>2, <1>4, <1>5, <1>8, LocalFresh

\* A save in between leaves the queue's last save with the contents of the cache.
LEMMA AutosaveFresh ==
  ASSUME FInv, NEW p \in Players, Autosave(p)
  PROVE  FInv'
<1>1. PICK m \in Maps : m = sd[p].at /\ link[m] # NoFd
  BY PlayersServer DEF Autosave
<1>2. /\ up' = [up EXCEPT ![m] = Append(@, Save(cache[m]))]
      /\ cache' = [cache EXCEPT ![m] = [cache[m] EXCEPT !.dirty = FALSE]]
      /\ UNCHANGED <<gs, link, down, cached, sd>> /\ sd[p].flag /\ m \in cached
  BY <1>1 DEF Autosave, SendUp, Closable
<1>3. /\ up \in [Maps -> Seq(UpMessage)] /\ cache \in [Maps -> GStorage]
      /\ cache[m] \in GStorage /\ up[m] \in Seq(UpMessage) /\ ServerInv(m)
  BY DEF FInv, IInv, TypeOK
<1>4. IInv'
  BY AutosaveInv DEF FInv
<1>5. /\ ~cache'[m].dirty /\ cache'[m].lastFd = cache[m].lastFd
      /\ cache'[m].items = cache[m].items
  BY <1>2, <1>3 DEF GStorage
<1> DEFINE x == Save(cache[m])
<1>6. x \in UpMessage /\ x.type = "save" /\ x.storage = cache[m]
  BY <1>3 DEF Save, UpMessage
<1>7. up'[m] = Append(up[m], x)
  BY <1>2, <1>3
<1> HIDE DEF x
<1>8. OpenAt(m) /\ OpenAt(m)'
  BY <1>1, <1>2 DEF OpenAt
<1>9. gs.lastFd = link[m] /\ cache[m].lastFd = link[m]
  BY <1>2, <1>3, <1>8 DEF ServerInv, LockIsLinked, CacheIsLinked, Locked
<1>10. Guarded(up'[m], link[m], OpenAt(m)')
  <2>1. Guarded(up[m], link[m], TRUE)
    BY <1>3, <1>8 DEF Guarded, ServerInv, SavesAreGuarded
  <2>2. Guarded(Append(up[m], x), link[m], TRUE)
    BY <1>3, <1>6, <1>9, <2>1, GuardedAppend
  <2> QED
    BY <1>7, <1>8, <2>2 DEF Guarded
<1>11. CacheIsFresh(m)'
  <2>1. Upshot(Append(up[m], x), gs.items, cache[m].items)
    BY <1>3, <1>6, UpshotAppend
  <2>2. Upshot(up'[m], gs'.items, cache'[m].items)
    BY <1>2, <1>5, <1>7, <2>1
  <2> QED
    BY <2>2 DEF CacheIsFresh
<1>12. ServerInv(m)'
  BY <1>1, <1>2, <1>5, <1>8, <1>9, <1>10, <1>11, ServerFresh
<1>13. \A n \in Maps : n # m => up'[n] = up[n] /\ cache'[n] = cache[n]
  BY <1>2, <1>3
<1> QED
  BY <1>2, <1>4, <1>12, <1>13, LocalFresh

\* Whoever closes saves what he changed and releases the lock behind it.
LEMMA StorageCloseFresh ==
  ASSUME FInv, NEW m \in Maps, StorageClose(m), OpenAt(m), m \in cached, link[m] # NoFd,
         UNCHANGED <<gs, link, down, cached>>
  PROVE  /\ ServerInv(m)'
         /\ \A n \in Maps : n # m => up'[n] = up[n] /\ cache'[n] = cache[n]
<1> DEFINE x == Save(cache[m])
           q == IF cache[m].dirty THEN Append(up[m], x) ELSE up[m]
<1>1. /\ up' = [up EXCEPT ![m] = Append(q, Unlock)]
      /\ cache' = [cache EXCEPT ![m] = [cache[m] EXCEPT !.status = 0, !.dirty = FALSE]]
  BY DEF StorageClose
<1>2. /\ up \in [Maps -> Seq(UpMessage)] /\ cache \in [Maps -> GStorage]
      /\ cache[m] \in GStorage /\ up[m] \in Seq(UpMessage) /\ ServerInv(m)
  BY DEF FInv, IInv, TypeOK
<1>3. x \in UpMessage /\ x.type = "save" /\ x.storage = cache[m]
  BY <1>2 DEF Save, UpMessage
<1>4. Unlock \in UpMessage /\ Unlock.type # "save" /\ IsLock(Unlock)
  BY DEF Unlock, UpMessage, IsLock
<1>5. q \in Seq(UpMessage)
  BY <1>2, <1>3
<1>6. up'[m] = Append(q, Unlock) /\ \A n \in Maps : n # m => up'[n] = up[n] /\ cache'[n] = cache[n]
  BY <1>1, <1>2
<1>7. /\ ~cache'[m].dirty /\ cache'[m].lastFd = cache[m].lastFd
      /\ cache'[m].items = cache[m].items
  <2>1. cache'[m] = [cache[m] EXCEPT !.status = 0, !.dirty = FALSE]
    BY <1>1, <1>2
  <2>2. PICK c : c = [cache[m] EXCEPT !.status = 0]
    OBVIOUS
  <2>3. c \in GStorage /\ c.lastFd = cache[m].lastFd /\ c.items = cache[m].items
    <3>1. 0 \in 0..1
      OBVIOUS
    <3>2. c \in GStorage
      BY <1>2, <2>2, <3>1, StorageFields, Zenon
    <3> QED
      BY <1>2, <2>2, <3>2 DEF GStorage
  <2>4. cache'[m] = [c EXCEPT !.dirty = FALSE]
    BY <2>1, <2>2
  <2> QED
    BY <2>3, <2>4 DEF GStorage
<1>8. gs.lastFd = link[m] /\ cache[m].lastFd = link[m]
  BY <1>2 DEF ServerInv, LockIsLinked, CacheIsLinked, Locked
<1>9. Guarded(up'[m], link[m], OpenAt(m)')
  <2>1. Guarded(up[m], link[m], TRUE)
    BY <1>2 DEF Guarded, ServerInv, SavesAreGuarded
  <2>2. Guarded(Append(up[m], x), link[m], TRUE)
    BY <1>2, <1>3, <1>8, <2>1, GuardedAppend
  <2>3. Guarded(q, link[m], TRUE)
    BY <2>1, <2>2
  <2> HIDE DEF q
  <2>4. Guarded(Append(q, Unlock), link[m], FALSE)
    BY <1>4, <1>5, <2>3, GuardedAppend
  <2> QED
    BY <1>6, <2>4 DEF Guarded
<1>10. CacheIsFresh(m)'
  <2>1. ASSUME ~Reloads(m)'
        PROVE  Upshot(up'[m], gs'.items, cache'[m].items)
    <3>1. CASE cache[m].dirty
      <4>1. Upshot(Append(up[m], x), gs.items, cache[m].items)
        BY <1>2, <1>3, UpshotAppend
      <4> QED
        BY <3>1, <4>1, <1>4, <1>5, <1>6, <1>7, UpshotAppend
    <3>2. CASE ~cache[m].dirty
      <4>1. Upshot(up[m], gs.items, cache[m].items)
        BY <1>2, <1>8, <2>1, <3>2 DEF ServerInv, CacheIsFresh, Reloads
      <4> QED
        BY <3>2, <4>1, <1>4, <1>5, <1>6, <1>7, UpshotAppend
    <3> QED
      BY <3>1, <3>2
  <2> QED
    BY <2>1 DEF CacheIsFresh
<1>11. ServerInv(m)'
  BY <1>7, <1>8, <1>9, <1>10, ServerFresh
<1> QED
  BY <1>6, <1>11

\* A member closes the storage or departs.
LEMMA LeaveFresh ==
  ASSUME FInv, NEW p \in Players, CloseKafra(p) \/ (Settled(p) /\ Depart(p))
  PROVE  FInv' /\ OpensNothing
<1>1. PICK m \in Maps : m = sd[p].at /\ link[m] # NoFd
  BY PlayersServer DEF CloseKafra, Depart
<1>2. UNCHANGED <<gs, link, down, cached>>
  BY DEF CloseKafra, Depart
<1>3. sd \in [Players -> Session] /\ sd[p] \in Session /\ ServerInv(m) /\ OpenIsClosable
  BY DEF FInv, IInv, TypeOK
<1>4. IInv'
  BY LeaveInv DEF FInv
<1>5. /\ \A q \in Players : q # p => sd'[q] = sd[q]
      /\ sd'[p].at = sd[p].at /\ sd'[p].lockreq = sd[p].lockreq /\ sd'[p].menu = sd[p].menu
      /\ ~Closable(p) => sd'[p].flag = sd[p].flag
      /\ sd'[p].flag => sd[p].flag
      /\ sd'[p].waiting \/ sd'[p].waiting = sd[p].waiting
  <2>1. CASE CloseKafra(p)
    <3>1. sd' = [sd EXCEPT ![p] = [sd[p] EXCEPT !.flag = FALSE]] /\ Closable(p)
      BY <2>1 DEF CloseKafra
    <3>2. sd'[p] = [sd[p] EXCEPT !.flag = FALSE] /\ \A q \in Players : q # p => sd'[q] = sd[q]
      BY <1>3, <3>1
    <3> QED
      BY <1>3, <3>1, <3>2 DEF Session
  <2>2. CASE Depart(p) /\ Closable(p)
    <3>1. sd' = [sd EXCEPT ![p] = [sd[p] EXCEPT !.waiting = TRUE, !.flag = FALSE]]
      BY <2>2 DEF Depart
    <3>2. PICK t : t = [sd[p] EXCEPT !.waiting = TRUE]
      OBVIOUS
    <3>3. /\ t \in Session /\ t.waiting = TRUE /\ t.at = sd[p].at
          /\ t.lockreq = sd[p].lockreq /\ t.menu = sd[p].menu
      BY <1>3, <3>2 DEF Session
    <3>4. sd'[p] = [t EXCEPT !.flag = FALSE] /\ \A q \in Players : q # p => sd'[q] = sd[q]
      BY <1>3, <3>1, <3>2
    <3> QED
      BY <2>2, <3>3, <3>4 DEF Session
  <2>3. CASE Depart(p) /\ ~Closable(p)
    <3>1. sd' = [sd EXCEPT ![p] = [sd[p] EXCEPT !.waiting = TRUE]]
      BY <2>3 DEF Depart
    <3>2. sd'[p] = [sd[p] EXCEPT !.waiting = TRUE] /\ \A q \in Players : q # p => sd'[q] = sd[q]
      BY <1>3, <3>1
    <3> QED
      BY <1>3, <3>2 DEF Session
  <2> QED
    BY <2>1, <2>2, <2>3
<1>6. OpensNothing
  BY <1>5 DEF OpensNothing
<1>7. CASE Closable(p)
  <2>1. StorageClose(m) /\ OpenAt(m) /\ m \in cached
    BY <1>1, <1>7 DEF CloseKafra, Depart, Closable, OpenAt
  <2>2. ServerInv(m)' /\ \A n \in Maps : n # m => up'[n] = up[n] /\ cache'[n] = cache[n]
    BY <1>1, <1>2, <2>1, StorageCloseFresh
  <2>3. \A q \in Players : sd'[q] # sd[q] /\ sd'[q].lockreq = 1 => sd'[q].menu = "asked"
    BY <1>5 DEF FInv, ScriptWaits
  <2> QED
    BY <1>1, <1>2, <1>4, <1>5, <1>6, <2>2, <2>3, LocalFresh
<1>8. CASE ~Closable(p)
  <2>1. UNCHANGED <<up, cache>>
    BY <1>8 DEF CloseKafra, Depart
  <2>2. \A n \in Maps : OpenAt(n)' <=> OpenAt(n)
    BY <1>5, <1>8 DEF OpenAt
  <2>3. \A n \in Maps : Presence(n)' => Presence(n)
    BY <1>5 DEF Presence, Playing
  <2>4. \A n \in Maps : ServerInv(n)'
    BY <1>2, <2>1, <2>2, <2>3, Elsewhere
  <2>5. LinksApart' /\ ScriptWaits'
    BY <1>2, <1>5 DEF FInv, LinksApart, ScriptWaits
  <2> QED
    BY <1>4, <1>6, <2>4, <2>5 DEF FInv
<1> QED
  BY <1>7, <1>8

\* A session that is deleted or created had, and has, nothing open; a new one may
\* ask for the guild's data.
LEMMA SessionFresh ==
  ASSUME FInv, NEW p \in Players, Quit(p) \/ \E m \in Maps : Login(p, m)
  PROVE  FInv' /\ OpensNothing
<1>1. UNCHANGED <<gs, link, down, cached, cache>>
  BY DEF Quit, Login
<1>2. sd \in [Players -> Session] /\ up \in [Maps -> Seq(UpMessage)]
  BY DEF FInv, IInv, TypeOK
<1>3. IInv'
  BY SessionInv DEF FInv
<1>4. ~sd[p].flag
  BY DEF FInv, IInv, OpenIsClosable, Playing, Quit, Login
<1>5. /\ \A q \in Players : q # p => sd'[q] = sd[q]
      /\ ~sd'[p].flag /\ sd'[p].lockreq = 0
      /\ \/ sd'[p].at = Off
         \/ sd'[p].at \in Maps /\ link[sd'[p].at] # NoFd
  <2>1. CASE Quit(p)
    BY <1>2, <2>1 DEF Quit, NoSession
  <2>2. CASE \E m \in Maps : Login(p, m)
    <3>1. PICK m \in Maps : Login(p, m) /\ link[m] # NoFd
      BY <2>2 DEF Login, Connected
    <3>2. (p \in enrolled) = TRUE
      BY DEF FInv, IInv, Calm
    <3>3. PICK t \in Session : t = [NoSession EXCEPT !.at = m]
      BY EmptyTypes, SessionFields, Zenon
    <3>4. ~t.flag /\ t.lockreq = 0 /\ t.at = m
      BY <3>3, EmptyTypes DEF Session, NoSession
    <3>5. sd' = [sd EXCEPT ![p] = [t EXCEPT !.guild = TRUE]]
      BY <3>1, <3>2, <3>3 DEF Login
    <3>6. sd'[p] = [t EXCEPT !.guild = TRUE] /\ \A q \in Players : q # p => sd'[q] = sd[q]
      BY <1>2, <3>5
    <3> QED
      BY <3>1, <3>4, <3>6 DEF Session
  <2> QED
    BY <2>1, <2>2
<1>6. \A n \in Maps : OpenAt(n)' <=> OpenAt(n)
  BY <1>4, <1>5 DEF OpenAt
<1>7. \A n \in Maps : Presence(n)' => Presence(n) \/ link[n] # NoFd
  BY <1>5 DEF Presence, Playing
<1>8. \A n \in Maps : ServerInv(n)'
  <2>1. CASE UNCHANGED up
    BY <1>1, <1>6, <1>7, <2>1, Elsewhere
  <2>2. ASSUME NEW m \in Maps, link[m] # NoFd, SendUp(m, GuildInfo)
        PROVE  \A n \in Maps : ServerInv(n)'
    <3>1. up'[m] = Append(up[m], GuildInfo) /\ \A n \in Maps : n # m => up'[n] = up[n]
      BY <1>2, <2>2 DEF SendUp
    <3>2. ServerInv(m)'
      BY <1>1, <1>6, <2>2, <3>1, InfoType, AskFresh
    <3>3. \A n \in Maps : n # m => ServerInv(n)'
      BY <1>1, <1>6, <1>7, <3>1, Elsewhere
    <3> QED
      BY <3>2, <3>3
  <2> QED
    BY <2>1, <2>2 DEF Quit, Login, Connected
<1>9. LinksApart' /\ ScriptWaits'
  BY <1>1, <1>5 DEF FInv, LinksApart, ScriptWaits
<1>10. OpensNothing
  BY <1>5 DEF OpensNothing
<1> QED
  BY <1>3, <1>8, <1>9, <1>10 DEF FInv

-----------------------------------------------------------------------------
(* Connections *)

\* Of a server that was cut off nothing is left but sessions that wait.
LEMMA CutOffFresh ==
  ASSUME FInv, NEW S \in SUBSET Maps, CutOff(S), UNCHANGED gs \/ S = Maps, IInv'
  PROVE  FInv'
<1>1. /\ sd \in [Players -> Session] /\ OpenIsClosable
      /\ \A p \in Players : sd'[p] = IF sd[p].at \in S /\ Playing(p) THEN NoSession ELSE sd[p]
      /\ cached' = cached \ S
  BY DEF FInv, IInv, TypeOK, CutOff
<1>2. \A n \in Maps : n \in S => /\ link'[n] = NoFd /\ up'[n] = <<>> /\ down'[n] = <<>>
                                 /\ cache'[n] = EmptyStorage
  BY DEF CutOff
<1>3. \A n \in Maps : n \notin S => /\ link'[n] = link[n] /\ up'[n] = up[n] /\ down'[n] = down[n]
                                    /\ cache'[n] = cache[n]
  BY DEF CutOff
<1>4. ~NoSession.flag /\ NoSession.at = Off /\ NoSession.lockreq = 0 /\ ~EmptyStorage.dirty
  BY DEF NoSession, EmptyStorage
<1>5. LinksApart'
  <2> SUFFICES ASSUME NEW m \in Maps, NEW n \in Maps, link'[m] = link'[n], link'[m] # NoFd
               PROVE  m = n
    BY DEF LinksApart
  <2>1. m \notin S /\ n \notin S
    BY <1>2
  <2> QED
    BY <1>3, <2>1 DEF FInv, LinksApart
<1>6. ScriptWaits'
  BY <1>1, <1>4 DEF FInv, ScriptWaits
<1>7. ASSUME NEW n \in Maps, n \notin S
      PROVE  ServerInv(n)'
  <2>1. \A p \in Players : sd[p].at = n \/ sd'[p].at = n => sd'[p] = sd[p]
    BY <1>1, <1>4, <1>7, MapsAssumption
  <2>2. OpenAt(n)' <=> OpenAt(n)
    BY <2>1 DEF OpenAt
  <2>3. Presence(n)' => Presence(n)
    BY <2>1 DEF Presence, Playing
  <2>4. gs' = gs /\ (n \in cached' => n \in cached)
    BY <1>1, <1>7
  <2> QED
    BY <1>3, <1>7, <2>2, <2>3, <2>4, Elsewhere
<1>8. ASSUME NEW n \in Maps, n \in S
      PROVE  ServerInv(n)'
  <2>1. ~OpenAt(n)'
    BY <1>1, <1>4, <1>8, MapsAssumption DEF OpenAt, OpenIsClosable
  <2>2. ~Presence(n)'
    BY <1>1, <1>4, <1>8, MapsAssumption DEF Presence, Playing
  <2>3. \A i \in Nat : i \notin DOMAIN up'[n] /\ i \notin DOMAIN down'[n]
    BY <1>2, <1>8
  <2>4. ~Locked(n)'
    BY <2>1, <2>3 DEF Locked, UpToken, DownToken
  <2>5. n \notin cached' /\ ~cache'[n].dirty /\ up'[n] = <<>> /\ down'[n] = <<>>
    BY <1>1, <1>2, <1>4, <1>8
  <2>6. SavesAreGuarded(n)' /\ LoadsAreCurrent(n)'
    BY <2>5 DEF SavesAreGuarded, Guarded, LoadsAreCurrent
  <2> QED
    BY <2>2, <2>4, <2>5, <2>6
       DEF ServerInv, CutIsEmpty, LockIsLinked, CacheIsLinked, DirtyIsOpen, CacheIsFresh
<1> QED
  BY <1>5, <1>6, <1>7, <1>8 DEF FInv

\* A new connection starts with nothing, on a socket of its own.
LEMMA ConnectFresh ==
  ASSUME FInv, NEW m \in Maps, Connect(m), IInv'
  PROVE  FInv'
<1>1. UNCHANGED <<gs, up, down, cached, cache, sd>> /\ link[m] = NoFd
  BY DEF Connect, Connected
<1>2. /\ \A n \in Maps : n # m => link'[n] = link[n] /\ link'[n] # link'[m]
  <2>1. PICK fd \in Fds : (\A n \in Maps : link[n] # fd) /\ link' = [link EXCEPT ![m] = fd]
    BY DEF Connect
  <2>2. link \in [Maps -> Fds \cup {NoFd}]
    BY DEF FInv, IInv, TypeOK
  <2> QED
    BY <2>1, <2>2
<1>3. LinksApart' /\ ScriptWaits'
  BY <1>1, <1>2 DEF FInv, LinksApart, ScriptWaits
<1>4. \A n \in Maps : (OpenAt(n)' <=> OpenAt(n)) /\ (Presence(n)' <=> Presence(n))
  BY <1>1 DEF OpenAt, Presence, Playing
<1>5. \A n \in Maps : n # m => ServerInv(n)'
  BY <1>1, <1>2, <1>4, Elsewhere
<1>6. ServerInv(m)'
  <2>1. /\ m \notin cached /\ up[m] = <<>> /\ down[m] = <<>> /\ ~Presence(m)
        /\ (cache[m].dirty => OpenAt(m))
    BY <1>1 DEF FInv, ServerInv, CutIsEmpty, DirtyIsOpen
  <2>2. ~OpenAt(m)
    BY <2>1 DEF FInv, IInv, OpenIsClosable, OpenAt, Presence
  <2>3. \A i \in Nat : i \notin DOMAIN up'[m] /\ i \notin DOMAIN down'[m]
    BY <1>1, <2>1
  <2>4. ~Locked(m)'
    BY <1>4, <2>2, <2>3 DEF Locked, UpToken, DownToken
  <2>5. SavesAreGuarded(m)' /\ LoadsAreCurrent(m)'
    BY <1>1, <2>1 DEF SavesAreGuarded, Guarded, LoadsAreCurrent
  <2> QED
    BY <1>1, <1>4, <2>1, <2>4, <2>5
       DEF ServerInv, CutIsEmpty, LockIsLinked, CacheIsLinked, DirtyIsOpen, CacheIsFresh
<1> QED
  BY <1>3, <1>5, <1>6 DEF FInv, IInv

\* Connections that come and go keep the invariant.
LEMMA ConnectionFresh ==
  ASSUME FInv, CharRestart \/ \E m \in Maps : Drop(m) \/ Connect(m)
  PROVE  FInv'
<1>1. IInv'
  BY ConnectionInv DEF FInv
<1>2. CASE CharRestart
  <2>1. Maps \in SUBSET Maps /\ CutOff(Maps)
    BY <1>2 DEF CharRestart
  <2> QED
    BY <1>1, <2>1, CutOffFresh
<1>3. ASSUME NEW m \in Maps, Drop(m)
      PROVE  FInv'
  <2>1. {m} \in SUBSET Maps /\ CutOff({m}) /\ UNCHANGED gs
    BY <1>3 DEF Drop
  <2> QED
    BY <1>1, <2>1, CutOffFresh
<1>4. ASSUME NEW m \in Maps, Connect(m)
      PROVE  FInv'
  BY <1>1, <1>4, ConnectFresh
<1> QED
  BY <1>2, <1>3, <1>4

-----------------------------------------------------------------------------
(* Answers and loads *)

\* Whoever opens the storage sees what the char server has stored.
OpenedFresh ==
  \A p \in Players : ~sd[p].flag /\ sd'[p].flag => cache'[sd[p].at].items = gs.items

\* A grant or a load that arrives is the only token, at the server that last_fd
\* names; no save is under way there and no other answer makes it reload.
LEMMA ArrivalFresh ==
  ASSUME FInv, NEW m \in Maps, down[m] # <<>>, Grants(Head(down[m])),
         down' = [down EXCEPT ![m] = Tail(@)]
  PROVE  /\ gs.lastFd = link[m] /\ link[m] # NoFd
         /\ \A i \in DOMAIN up[m] : up[m][i].type # "save"
         /\ \A p \in Players : ~sd[p].flag
         /\ ~cache[m].dirty
         /\ ~Reloads(m)'
         /\ (Head(down[m]).flag = 2 /\ Head(down[m]).type = "ack") \/ ~Reloads(m)
         /\ Head(down[m]).type = "load" => Head(down[m]).storage = gs
         /\ \A n \in Maps : n # m => down'[n] = down[n]
         /\ down'[m] = Tail(down[m])
<1>1. /\ TypeOK /\ ServerInv(m) /\ OneToken /\ IInv
      /\ down \in [Maps -> Seq(DownMessage)] /\ down[m] \in Seq(DownMessage)
  BY DEF FInv, IInv, TypeOK
<1>2. DownToken(m, 1) /\ 1 \in DOMAIN down[m] /\ Head(down[m]) = down[m][1]
  BY <1>1, FirstToken, NoPlaceBeyond
<1>3. OnlyDown(m, 1)
  BY <1>1, <1>2, OneMeansOnly
<1>4. Locked(m)
  BY <1>2 DEF Locked
<1>5. gs.lastFd = link[m] /\ link[m] # NoFd
  BY <1>1, <1>4 DEF ServerInv, LockIsLinked, CutIsEmpty
<1>6. \A i \in DOMAIN up[m] : up[m][i].type # "save"
  BY <1>2, SaveIsLocked
<1>7. \A p \in Players : ~sd[p].flag
  BY <1>3 DEF OnlyDown
<1>8. ~cache[m].dirty
  BY <1>1, <1>7 DEF ServerInv, DirtyIsOpen, OpenAt
<1>9. down'[m] = Tail(down[m]) /\ \A n \in Maps : n # m => down'[n] = down[n]
  BY <1>1
<1>10. ~Reloads(m)'
  <2> SUFFICES ASSUME NEW i \in DOMAIN down'[m], down'[m][i].type = "ack", down'[m][i].flag = 2
               PROVE  FALSE
    BY DEF Reloads
  <2>1. i \in Nat
    BY <1>1, <1>9, RestOf
  <2>2. DownToken(m, i)'
    BY <2>1 DEF DownToken, Grants
  <2> QED
    BY <1>1, <2>1, <2>2, TakenToken
<1>11. (Head(down[m]).flag = 2 /\ Head(down[m]).type = "ack") \/ ~Reloads(m)
  <2> SUFFICES ASSUME NEW i \in DOMAIN down[m], down[m][i].type = "ack", down[m][i].flag = 2
               PROVE  Head(down[m]).flag = 2 /\ Head(down[m]).type = "ack"
    BY DEF Reloads
  <2>1. i \in Nat
    BY <1>1
  <2>2. DownToken(m, i)
    BY <2>1 DEF DownToken, Grants
  <2>3. i = 1
    BY <1>3, <2>1, <2>2 DEF OnlyDown
  <2> QED
    BY <1>2, <2>3
<1>12. Head(down[m]).type = "load" => Head(down[m]).storage = gs
  BY <1>1, <1>2 DEF ServerInv, LoadsAreCurrent
<1> QED
  BY <1>5, <1>6, <1>7, <1>8, <1>9, <1>10, <1>11, <1>12

\* An answer: the cache is opened when it is current and dropped when it is not.
LEMMA AckFresh ==
  ASSUME FInv, IInv', NEW m \in Maps, down[m] # <<>>, ReceiveAck(m),
         down' = [down EXCEPT ![m] = Tail(@)], UNCHANGED <<gs, link, enrolled, drops>>
  PROVE  FInv' /\ OpenedFresh
<1>1. PICK p \in Players : p = Head(down[m]).who /\ sd[p].at = m
  BY AckFindsMember DEF FInv, ReceiveAck, Here
<1>2. PICK s \in Session :
        /\ s.at = m /\ s.flag = sd[p].flag /\ s.lockreq = 0
        /\ \/ /\ UNCHANGED <<up, cached, cache>> /\ sd' = [sd EXCEPT ![p] = s]
              /\ ~Grants(Head(down[m]))
           \/ Grants(Head(down[m])) /\ StorageOpen(p, m, s, KeptBy(m))
  <2>1. ~(sd[p].lockreq = 1 /\ sd[p].menu # "asked")
    BY DEF FInv, ScriptWaits
  <2> QED
    BY <1>1, <2>1, AckOutcome, Zenon DEF FInv
<1>3. /\ TypeOK /\ up \in [Maps -> Seq(UpMessage)] /\ cache \in [Maps -> GStorage]
      /\ sd \in [Players -> Session] /\ up[m] \in Seq(UpMessage) /\ cache[m] \in GStorage
      /\ down \in [Maps -> Seq(DownMessage)] /\ down[m] \in Seq(DownMessage)
      /\ ServerInv(m) /\ IInv /\ Head(down[m]).type = "ack"
  BY DEF FInv, IInv, TypeOK, ReceiveAck
<1>4. /\ down'[m] = Tail(down[m])
      /\ \A n \in Maps : n # m => down'[n] = down[n]
      /\ link[m] # NoFd
  BY <1>3 DEF ServerInv, CutIsEmpty
<1>5. CASE /\ UNCHANGED <<up, cached, cache>> /\ sd' = [sd EXCEPT ![p] = s]
           /\ ~Grants(Head(down[m]))
  <2>1. sd'[p] = s /\ \A q \in Players : q # p => sd'[q] = sd[q]
    BY <1>3, <1>5
  <2>2. OpenAt(m)' <=> OpenAt(m)
    BY <1>1, <1>2, <2>1 DEF OpenAt
  <2>3. \A i \in DOMAIN Tail(down[m]) :
          i \in Nat /\ i + 1 \in DOMAIN down[m] /\ Tail(down[m])[i] = down[m][i + 1]
    BY <1>3, RestOf
  <2>4. \A i \in Nat : i + 1 \in Nat
    OBVIOUS
  <2>5. \A i \in Nat : DownToken(m, i)' => DownToken(m, i + 1)
    BY <1>4, <2>3 DEF DownToken
  <2>6. \A i \in Nat : UpToken(m, i)' => UpToken(m, i)
    BY <1>5 DEF UpToken
  <2>7. Locked(m)' => Locked(m)
    BY <2>2, <2>4, <2>5, <2>6 DEF Locked
  <2>8. Reloads(m) => Reloads(m)'
    <3> SUFFICES ASSUME NEW i \in DOMAIN down[m], down[m][i].type = "ack", down[m][i].flag = 2
                 PROVE  Reloads(m)'
      BY DEF Reloads
    <3>1. i # 1
      BY <1>3, <1>5, NoPlaceBeyond DEF Grants
    <3>2. i - 1 \in DOMAIN Tail(down[m]) /\ i \in Nat
      BY <1>3, <3>1, RestOf
    <3>3. Tail(down[m])[i - 1] = down[m][(i - 1) + 1] /\ (i - 1) + 1 = i
      BY <2>3, <3>2
    <3> QED
      BY <1>4, <3>2, <3>3 DEF Reloads
  <2>9. ServerInv(m)'
    <3>1. /\ Locked(m) => gs.lastFd = link[m]
          /\ m \in cached => cache[m].lastFd = link[m]
          /\ cache[m].dirty => OpenAt(m)
          /\ Guarded(up'[m], link[m], OpenAt(m)')
      BY <1>3, <1>5, <2>2 DEF ServerInv, LockIsLinked, CacheIsLinked, DirtyIsOpen,
         SavesAreGuarded, Guarded
    <3>2. CacheIsFresh(m)'
      BY <1>3, <1>5, <2>8 DEF ServerInv, CacheIsFresh
    <3> QED
      BY <1>4, <1>5, <2>2, <2>7, <3>1, <3>2, ServerFresh
  <2>10. FInv'
    BY <1>1, <1>2, <1>4, <1>5, <2>1, <2>9, LocalFresh
  <2>11. OpenedFresh
    BY <1>2, <2>1 DEF OpenedFresh
  <2> QED
    BY <2>10, <2>11
<1>6. CASE Grants(Head(down[m])) /\ StorageOpen(p, m, s, KeptBy(m))
  <2>1. /\ gs.lastFd = link[m] /\ \A i \in DOMAIN up[m] : up[m][i].type # "save"
        /\ \A q \in Players : ~sd[q].flag
        /\ ~cache[m].dirty /\ ~Reloads(m)' /\ (Head(down[m]).flag = 2 \/ ~Reloads(m))
    BY <1>6, ArrivalFresh
  <2>2. m \in KeptBy(m) => /\ m \in cached /\ cache[m].items = gs.items
                           /\ cache[m].lastFd = link[m]
    <3> SUFFICES ASSUME m \in KeptBy(m)
                 PROVE  m \in cached /\ cache[m].items = gs.items /\ cache[m].lastFd = link[m]
      OBVIOUS
    <3>1. m \in cached /\ Head(down[m]).flag # 2
      BY DEF KeptBy
    <3>2. Upshot(up[m], gs.items, cache[m].items)
      BY <1>3, <2>1, <3>1 DEF ServerInv, CacheIsFresh
    <3>3. cache[m].items = gs.items
      BY <2>1, <3>2 DEF Upshot
    <3> QED
      BY <1>3, <3>1, <3>3 DEF ServerInv, CacheIsLinked
  <2>3. /\ cached' = KeptBy(m)
        /\ \/ UNCHANGED up
           \/ up' = [up EXCEPT ![m] = Append(@, LoadReq(p))]
        /\ \/ sd' = [sd EXCEPT ![p] = s]
           \/ sd' = [sd EXCEPT ![p] = [s EXCEPT !.flag = TRUE]] /\ m \in KeptBy(m)
        /\ \/ cache' = cache /\ m \in KeptBy(m)
           \/ cache' = [cache EXCEPT ![m] = [cache[m] EXCEPT !.status = 1]]
           \/ cache' = [cache EXCEPT ![m] = EmptyStorage] /\ m \notin KeptBy(m)
    BY <1>6 DEF StorageOpen, SendUp
  <2>4. /\ \A n \in Maps : n # m => cache'[n] = cache[n]
        /\ ~cache'[m].dirty
        /\ m \in KeptBy(m) => cache'[m].items = cache[m].items /\ cache'[m].lastFd = cache[m].lastFd
    <3>1. CASE cache' = cache
      BY <2>1, <3>1
    <3>2. CASE cache' = [cache EXCEPT ![m] = [cache[m] EXCEPT !.status = 1]]
      <4>1. cache'[m] = [cache[m] EXCEPT !.status = 1] /\ \A n \in Maps : n # m => cache'[n] = cache[n]
        BY <1>3, <3>2
      <4> QED
        BY <1>3, <2>1, <4>1 DEF GStorage
    <3>3. CASE cache' = [cache EXCEPT ![m] = EmptyStorage] /\ m \notin KeptBy(m)
      <4>1. ~EmptyStorage.dirty
        BY DEF EmptyStorage
      <4> QED
        BY <1>3, <3>3, <4>1
    <3> QED
      BY <2>3, <3>1, <3>2, <3>3
  <2>5. /\ \A q \in Players : q # p => sd'[q] = sd[q]
        /\ sd'[p].at = m /\ sd'[p].lockreq = 0
        /\ sd'[p].flag => m \in KeptBy(m)
    <3>1. CASE sd' = [sd EXCEPT ![p] = s]
      BY <1>2, <1>3, <2>1, <3>1
    <3>2. CASE sd' = [sd EXCEPT ![p] = [s EXCEPT !.flag = TRUE]] /\ m \in KeptBy(m)
      <4>1. sd'[p] = [s EXCEPT !.flag = TRUE] /\ \A q \in Players : q # p => sd'[q] = sd[q]
        BY <1>3, <3>2
      <4> QED
        BY <1>2, <3>2, <4>1 DEF Session
    <3> QED
      BY <2>3, <3>1, <3>2
  <2>6. /\ \A n \in Maps : n # m => up'[n] = up[n]
        /\ \A i \in DOMAIN up'[m] : up'[m][i].type # "save"
    <3>1. CASE UNCHANGED up
      BY <2>1, <3>1
    <3>2. CASE up' = [up EXCEPT ![m] = Append(@, LoadReq(p))]
      <4>1. LoadReq(p) \in UpMessage /\ LoadReq(p).type # "save"
        BY DEF LoadReq, UpMessage
      <4>2. up'[m] = Append(up[m], LoadReq(p)) /\ \A n \in Maps : n # m => up'[n] = up[n]
        BY <1>3, <3>2
      <4> QED
        BY <1>3, <2>1, <4>1, <4>2
    <3> QED
      BY <2>3, <3>1, <3>2
  <2>7. ServerInv(m)'
    <3>1. Guarded(up'[m], link[m], OpenAt(m)')
      BY <2>6 DEF Guarded
    <3>2. m \in cached' => cache'[m].lastFd = link[m]
      BY <2>2, <2>3, <2>4
    <3>3. CacheIsFresh(m)'
      BY <2>2, <2>3, <2>4, <2>6 DEF CacheIsFresh, Upshot
    <3> QED
      BY <1>4, <2>1, <2>4, <3>1, <3>2, <3>3, ServerFresh
  <2>8. \A n \in Maps : n # m /\ n \in cached' => n \in cached
    BY <2>3 DEF KeptBy
  <2>9. FInv'
    BY <1>1, <1>4, <2>4, <2>5, <2>6, <2>7, <2>8, LocalFresh
  <2>10. OpenedFresh
    BY <1>1, <2>2, <2>4, <2>5 DEF OpenedFresh
  <2> QED
    BY <2>9, <2>10
<1> QED
  BY <1>2, <1>5, <1>6

\* A load: what arrives is what is stored still.
LEMMA LoadReplyFresh ==
  ASSUME FInv, IInv', NEW m \in Maps, down[m] # <<>>, ReceiveLoadReply(m),
         down' = [down EXCEPT ![m] = Tail(@)], UNCHANGED <<gs, link, enrolled, drops>>
  PROVE  FInv' /\ OpenedFresh
<1>1. /\ TypeOK /\ up \in [Maps -> Seq(UpMessage)] /\ cache \in [Maps -> GStorage]
      /\ sd \in [Players -> Session] /\ up[m] \in Seq(UpMessage)
      /\ down \in [Maps -> Seq(DownMessage)] /\ gs \in GStorage /\ ServerInv(m)
  BY DEF FInv, IInv, TypeOK
<1>2. Head(down[m]) \in DownMessage /\ Head(down[m]).type = "load"
  BY <1>1, TailTypes DEF ReceiveLoadReply
<1>3. PICK p \in Players : p = Head(down[m]).who
  BY <1>2, MessageParts
<1>4. /\ gs.lastFd = link[m] /\ link[m] # NoFd
      /\ \A i \in DOMAIN up[m] : up[m][i].type # "save"
      /\ \A q \in Players : ~sd[q].flag
      /\ ~cache[m].dirty /\ ~Reloads(m)' /\ ~Reloads(m)
      /\ Head(down[m]).storage = gs
      /\ \A n \in Maps : n # m => down'[n] = down[n]
      /\ down'[m] = Tail(down[m])
  <2>1. Grants(Head(down[m])) /\ Head(down[m]).type # "ack"
    BY <1>2 DEF Grants
  <2> QED
    BY <1>2, <2>1, ArrivalFresh
<1>5. CASE up' = [up EXCEPT ![m] = Append(@, Unlock)] /\ UNCHANGED <<cached, cache, sd>>
  <2>1. Unlock \in UpMessage /\ Unlock.type # "save"
    BY DEF Unlock, UpMessage
  <2>2. up'[m] = Append(up[m], Unlock) /\ \A n \in Maps : n # m => up'[n] = up[n]
    BY <1>1, <1>5
  <2>3. \A i \in DOMAIN up'[m] : up'[m][i].type # "save"
    BY <1>1, <1>4, <2>1, <2>2
  <2>4. CacheIsFresh(m)'
    <3>1. m \in cached => Upshot(up[m], gs.items, cache[m].items)
      BY <1>1, <1>4 DEF ServerInv, CacheIsFresh
    <3>2. m \in cached => Upshot(Append(up[m], Unlock), gs.items, cache[m].items)
      BY <1>1, <2>1, <3>1, UpshotAppend
    <3>3. m \in cached' => Upshot(up'[m], gs'.items, cache'[m].items)
      BY <1>5, <2>2, <3>2
    <3> QED
      BY <3>3 DEF CacheIsFresh
  <2>5. ServerInv(m)'
    <3>1. Guarded(up'[m], link[m], OpenAt(m)')
      BY <2>3 DEF Guarded
    <3>2. m \in cached => cache[m].lastFd = link[m]
      BY <1>1 DEF ServerInv, CacheIsLinked
    <3> QED
      BY <1>4, <1>5, <2>4, <3>1, <3>2, ServerFresh
  <2>6. FInv'
    BY <1>4, <1>5, <2>2, <2>5, LocalFresh
  <2>7. OpenedFresh
    BY <1>5 DEF OpenedFresh
  <2> QED
    BY <2>6, <2>7
<1>6. CASE /\ cached' = cached \cup {m}
           /\ cache' = [cache EXCEPT ![m] = [gs EXCEPT !.status = 1]]
           /\ sd' = [sd EXCEPT ![p] = [sd[p] EXCEPT !.flag = TRUE]]
           /\ sd[p].at = m /\ UNCHANGED up
  <2>1. /\ cache'[m] = [gs EXCEPT !.status = 1] /\ sd'[p] = [sd[p] EXCEPT !.flag = TRUE]
        /\ \A n \in Maps : n # m => cache'[n] = cache[n]
        /\ \A q \in Players : q # p => sd'[q] = sd[q]
    BY <1>1, <1>6
  <2>2. cache'[m].items = gs.items /\ cache'[m].lastFd = gs.lastFd
    BY <1>1, <2>1 DEF GStorage
  <2>3. /\ sd'[p].flag /\ sd'[p].at = sd[p].at /\ sd'[p].lockreq = sd[p].lockreq
        /\ sd'[p].menu = sd[p].menu
    BY <1>1, <2>1 DEF Session
  <2>4. ServerInv(m)'
    <3>1. OpenAt(m)'
      BY <1>6, <2>3 DEF OpenAt
    <3>2. Guarded(up'[m], link[m], OpenAt(m)')
      BY <1>4, <1>6 DEF Guarded
    <3>3. CacheIsFresh(m)'
      BY <1>4, <1>6, <2>2 DEF CacheIsFresh, Upshot
    <3> QED
      BY <1>4, <2>2, <3>1, <3>2, <3>3, ServerFresh
  <2>5. FInv'
    <3>1. \A n \in Maps : n # m /\ n \in cached' => n \in cached
      BY <1>6
    <3>2. \A q \in Players : sd'[q] # sd[q] /\ sd'[q].lockreq = 1 => sd'[q].menu = "asked"
      <4>1. ScriptWaits
        BY DEF FInv
      <4>2. sd[p].lockreq = 1 => sd[p].menu = "asked"
        BY <4>1 DEF ScriptWaits
      <4>3. \A q \in Players : q # p => sd'[q] = sd[q]
        BY <2>1
      <4> QED
        BY <2>3, <4>2, <4>3
    <3> QED
      BY <1>4, <1>6, <2>1, <2>3, <2>4, <3>1, <3>2, LocalFresh
  <2>6. OpenedFresh
    BY <1>6, <2>1, <2>2 DEF OpenedFresh
  <2> QED
    BY <2>5, <2>6
<1>7. CASE UNCHANGED <<up, cached, cache, sd>>
  <2>1. OpenedFresh
    BY <1>7 DEF OpenedFresh
  <2>2. Guarded(up'[m], link[m], OpenAt(m)')
    BY <1>4, <1>7 DEF Guarded
  <2>3. m \in cached => cache[m].lastFd = link[m]
    BY <1>1 DEF ServerInv, CacheIsLinked
  <2>4. CacheIsFresh(m)'
    BY <1>1, <1>4, <1>7 DEF ServerInv, CacheIsFresh
  <2>5. ServerInv(m)'
    BY <1>4, <1>7, <2>2, <2>3, <2>4, ServerFresh
  <2> QED
    BY <1>4, <1>7, <2>1, <2>5, LocalFresh
<1>8. \/ up' = [up EXCEPT ![m] = Append(@, Unlock)] /\ UNCHANGED <<cached, cache, sd>>
      \/ UNCHANGED <<up, cached, cache, sd>>
      \/ /\ cached' = cached \cup {m}
         /\ cache' = [cache EXCEPT ![m] = [gs EXCEPT !.status = 1]]
         /\ sd' = [sd EXCEPT ![p] = [sd[p] EXCEPT !.flag = TRUE]]
         /\ sd[p].at = m /\ UNCHANGED up
  BY <1>3, <1>4 DEF ReceiveLoadReply, SendUp, Here
<1> QED
  BY <1>5, <1>6, <1>7, <1>8

\* The guild's data: the server only has them now.
LEMMA InfoFresh ==
  ASSUME FInv, IInv', NEW m \in Maps, down[m] # <<>>, ReceiveInfo(m),
         down' = [down EXCEPT ![m] = Tail(@)], UNCHANGED <<gs, link, enrolled, drops>>
  PROVE  FInv' /\ OpenedFresh
<1>1. UNCHANGED <<up, cached, cache, sd>> /\ Head(down[m]).type = "info"
  BY DEF ReceiveInfo
<1>2. /\ down \in [Maps -> Seq(DownMessage)] /\ down[m] \in Seq(DownMessage)
      /\ ServerInv(m)
  BY DEF FInv, IInv, TypeOK
<1>3. /\ down'[m] = Tail(down[m])
      /\ \A n \in Maps : n # m => down'[n] = down[n]
      /\ link[m] # NoFd
  BY <1>2 DEF ServerInv, CutIsEmpty
<1>4. OpenAt(m)' <=> OpenAt(m)
  BY <1>1 DEF OpenAt
<1>5. Locked(m)' => Locked(m)
  <2>1. \A i \in DOMAIN Tail(down[m]) :
          i \in Nat /\ i + 1 \in DOMAIN down[m] /\ Tail(down[m])[i] = down[m][i + 1]
    BY <1>2, RestOf
  <2>2. \A i \in Nat : DownToken(m, i)' => DownToken(m, i + 1)
    BY <1>3, <2>1 DEF DownToken
  <2>3. \A i \in Nat : i + 1 \in Nat /\ (UpToken(m, i)' => UpToken(m, i))
    BY <1>1 DEF UpToken
  <2> QED
    BY <1>4, <2>2, <2>3 DEF Locked
<1>6. Reloads(m) => Reloads(m)'
  <2> SUFFICES ASSUME NEW i \in DOMAIN down[m], down[m][i].type = "ack", down[m][i].flag = 2
               PROVE  Reloads(m)'
    BY DEF Reloads
  <2>1. i # 1
    BY <1>1, <1>2, NoPlaceBeyond
  <2>2. i - 1 \in DOMAIN Tail(down[m]) /\ i \in Nat
    BY <1>2, <2>1, RestOf
  <2>3. Tail(down[m])[i - 1] = down[m][i]
    BY <1>2, <2>2
  <2> QED
    BY <1>3, <2>2, <2>3 DEF Reloads
<1>7. ServerInv(m)'
  <2>1. /\ Locked(m) => gs.lastFd = link[m]
        /\ m \in cached => cache[m].lastFd = link[m]
        /\ cache[m].dirty => OpenAt(m)
        /\ Guarded(up'[m], link[m], OpenAt(m)')
    BY <1>1, <1>2, <1>4 DEF ServerInv, LockIsLinked, CacheIsLinked, DirtyIsOpen,
       SavesAreGuarded, Guarded
  <2>2. CacheIsFresh(m)'
    BY <1>1, <1>2, <1>6 DEF ServerInv, CacheIsFresh
  <2> QED
    BY <1>1, <1>3, <1>4, <1>5, <2>1, <2>2, ServerFresh
<1>8. OpenedFresh
  BY <1>1 DEF OpenedFresh
<1> QED
  BY <1>1, <1>3, <1>7, <1>8, LocalFresh

\* A map server that takes a message keeps the invariant and opens a fresh
\* storage or none.
LEMMA MapReceiveFresh ==
  ASSUME FInv, NEW m \in Maps, MapReceive(m)
  PROVE  FInv' /\ OpenedFresh
<1>1. /\ down[m] # <<>> /\ down' = [down EXCEPT ![m] = Tail(@)]
      /\ UNCHANGED <<gs, link, enrolled, drops>>
  BY DEF MapReceive
<1>2. IInv'
  BY MapReceiveInv DEF FInv
<1>3. Head(down[m]).type \in {"ack", "load", "info"}
  <2>1. down \in [Maps -> Seq(DownMessage)]
    BY DEF FInv, IInv, TypeOK
  <2>2. 1 \in DOMAIN down[m] /\ Head(down[m]) = down[m][1]
    BY <1>1, <2>1, NoPlaceBeyond
  <2> QED
    BY <2>2 DEF FInv, IInv, Calm
<1>4. ReceiveAck(m) \/ ReceiveLoadReply(m) \/ ReceiveInfo(m)
  BY <1>3 DEF MapReceive, ReceiveChecklock, ReceiveLeaved
<1> QED
  BY <1>1, <1>2, <1>4, AckFresh, LoadReplyFresh, InfoFresh

-----------------------------------------------------------------------------
(* The specification *)

\* The invariant holds initially.
LEMMA InitFresh == Init => FInv
<1> SUFFICES ASSUME Init PROVE FInv
  OBVIOUS
<1>1. IInv
  BY InitInv
<1>2. /\ \A m \in Maps : up[m] = <<>> /\ down[m] = <<>> /\ m \notin cached /\ ~cache[m].dirty
      /\ \A p \in Players : sd[p] = NoSession
      /\ link \in [Maps -> Fds]
  BY DEF Init, EmptyStorage
<1>3. ~NoSession.flag /\ NoSession.at = Off /\ NoSession.lockreq = 0
  BY DEF NoSession
<1>4. LinksApart /\ ScriptWaits
  BY <1>2, <1>3 DEF Init, LinksApart, ScriptWaits
<1>5. ASSUME NEW m \in Maps
      PROVE  ServerInv(m)
  <2>1. link[m] # NoFd
    BY <1>2, FdsAssumption DEF NoFd
  <2>2. ~OpenAt(m) /\ \A i \in Nat : ~UpToken(m, i) /\ ~DownToken(m, i)
    BY <1>2, <1>3 DEF OpenAt, UpToken, DownToken
  <2>3. ~Locked(m)
    BY <2>2 DEF Locked
  <2>4. SavesAreGuarded(m) /\ LoadsAreCurrent(m)
    BY <1>2 DEF SavesAreGuarded, Guarded, LoadsAreCurrent
  <2> QED
    BY <1>2, <2>1, <2>3, <2>4
       DEF ServerInv, CutIsEmpty, LockIsLinked, CacheIsLinked, DirtyIsOpen, CacheIsFresh
<1> QED
  BY <1>1, <1>4, <1>5 DEF FInv

\* Every step of the calm environment keeps it, and whoever opens the storage in
\* one sees what is stored.
LEMMA StepFresh == FInv /\ [CalmNext]_vars => FInv' /\ OpenedFresh
<1> SUFFICES ASSUME FInv, [CalmNext]_vars PROVE FInv' /\ OpenedFresh
  OBVIOUS
<1>0. sd \in [Players -> Session]
  BY DEF FInv, IInv, TypeOK
<1>1. CASE \E m \in Maps : MapReceive(m)
  BY <1>1, MapReceiveFresh
<1>2. CASE (\E m \in Maps : CharReceive(m)) \/ UNCHANGED vars
  <2>1. OpenedFresh
    BY <1>2 DEF CharReceive, vars, OpenedFresh
  <2>2. FInv'
    <3>1. CASE UNCHANGED vars
      <4>1. IInv'
        BY StepInv DEF FInv
      <4>2. \A n \in Maps : (OpenAt(n)' <=> OpenAt(n)) /\ (Presence(n)' <=> Presence(n))
        BY <3>1 DEF vars, OpenAt, Presence, Playing
      <4>3. \A n \in Maps : ServerInv(n)'
        BY <3>1, <4>2, Elsewhere DEF vars
      <4> QED
        BY <3>1, <4>1, <4>3 DEF vars, FInv, LinksApart, ScriptWaits
    <3> QED
      BY <1>2, <3>1, CharReceiveFresh
  <2> QED
    BY <2>1, <2>2
<1>3. CASE CharRestart \/ \E m \in Maps : Drop(m) \/ Connect(m)
  <2>1. ~NoSession.flag
    BY DEF NoSession
  <2>2. OpenedFresh
    BY <1>3, <2>1 DEF CharRestart, Drop, Connect, CutOff, OpenedFresh
  <2> QED
    BY <1>3, <2>2, ConnectionFresh
<1>4. ASSUME NEW p \in Players, RequestByCommand(p) \/ RequestByScript(p)
      PROVE  FInv' /\ OpenedFresh
  BY <1>4, RequestFresh DEF OpensNothing, OpenedFresh
<1>5. ASSUME NEW p \in Players, CloseKafra(p) \/ (Settled(p) /\ Depart(p))
      PROVE  FInv' /\ OpenedFresh
  BY <1>5, LeaveFresh DEF OpensNothing, OpenedFresh
<1>6. ASSUME NEW p \in Players,
             Autosave(p) \/ \E i \in Items : StorageAdd(p, i) \/ StorageGet(p, i)
      PROVE  FInv' /\ OpenedFresh
  <2>1. UNCHANGED sd
    BY <1>6 DEF Autosave, StorageAdd, StorageGet
  <2> QED
    BY <1>6, <2>1, AutosaveFresh, EditFresh DEF OpenedFresh
<1>7. ASSUME NEW p \in Players, Quit(p) \/ \E m \in Maps : Login(p, m)
      PROVE  FInv' /\ OpenedFresh
  BY <1>7, SessionFresh DEF OpensNothing, OpenedFresh
<1> QED
  BY <1>1, <1>2, <1>3, <1>4, <1>5, <1>6, <1>7 DEF CalmNext, CommonNext

\* What last_fd promises follows: while the lock is free nobody has the storage
\* open and no token is under way, so that the cache it names is current.
LEMMA FreshIsCurrent == FInv => LastFdIsCurrent
<1> SUFFICES ASSUME FInv, NEW m \in cached, gs.status = 0, gs.lastFd = link[m],
                    ~cache[m].dirty,
                    \A i \in DOMAIN up[m] : up[m][i].type # "save",
                    \A i \in DOMAIN down[m] : down[m][i].type = "ack" => down[m][i].flag = 0
             PROVE  cache[m].items = gs.items
  BY DEF LastFdIsCurrent
<1>1. m \in Maps
  BY DEF FInv, IInv, TypeOK
<1>2. ~Reloads(m)
  BY DEF Reloads
<1>3. Upshot(up[m], gs.items, cache[m].items)
  BY <1>1, <1>2 DEF FInv, ServerInv, CacheIsFresh
<1> QED
  BY <1>3 DEF Upshot

\* last_fd is current: as long as no member leaves the guild, nobody departs with
\* a request under way and the deadlock timer does not step in, the cache of the
\* map server that last_fd names is the stored storage whenever the lock is free
\* and its saves have arrived, so that int_storage.c may spare it the reload.
THEOREM LastFdIsCurrentHolds == CalmSpec => []LastFdIsCurrent
  BY InitFresh, StepFresh, FreshIsCurrent, PTL DEF CalmSpec

\* And so whoever opens the guild storage, from the cache or from a load, on any
\* map server and after any loss of connections, sees what is stored.
THEOREM OpensFreshHolds == CalmSpec => OpensFresh
<1>1. FInv /\ [CalmNext]_vars =>
        [\A p \in Players : ~sd[p].flag /\ sd'[p].flag => cache'[sd[p].at].items = gs.items]_vars
  BY StepFresh DEF OpenedFresh
<1> QED
  BY <1>1, InitFresh, StepFresh, PTL DEF CalmSpec, OpensFresh

=============================================================================
