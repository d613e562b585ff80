--------------------------- MODULE Session_proofs ---------------------------
(***************************************************************************)
(* The hand-off of a session, for any number of clients, logins,           *)
(* characters, map servers and connections: TypeOK, OnlineNamesPlayer,     *)
(* OnePlayer, NoGhost and PlaysNewest.  The invariant is IInv: Shape is    *)
(* what always holds, Paths and Names what holds until mixed or crossed.   *)
(* Unclaimed and Newest are added to it for the last two theorems.         *)
(***************************************************************************)
EXTENDS Session, SequenceTheorems, TLAPS

(* The messages between a map server and the char server form a ring: what *)
(* the map server gets next comes first, what it said last comes last, and *)
(* an answer stands where the question stood.                              *)

Message == UpMessage \cup DownMessage

Ring(m) == down[m] \o up[m]

Has(q, A)       == \E i \in DOMAIN q : q[i] \in A
Alone(q, A)     == \A i, j \in DOMAIN q : q[i] \in A /\ q[j] \in A => i = j
Before(q, A, B) == \A i, j \in DOMAIN q : q[i] \in A /\ q[j] \in B => i < j

\* What a session that leaves for good is waiting for, from its last save on.
Chain == {x \in Message : \/ x.op \in {"save", "saved"} /\ x.final \in {2, 3}
                          \/ x.op \in {"select", "selectok", "move", "moved"}}
Saves    == {x \in Message : x.op = "save"}
Partings == {x \in Message : x.op = "gone"}
\* An answered or unanswered question whether connection f may enter.
Asks(f)    == {x \in Message : x.op \in {"auth", "ok"} /\ x.to = f}
Answers(f) == {x \in Message : x.op = "ok" /\ x.to = f}
\* Login i asks, at connection f, for character c.
Auths(i)     == {x \in Message : x.op = "auth" /\ x.id = i}
AuthsTo(i, f) == {x \in Message : x.op = "auth" /\ x.id = i /\ x.to = f}
AuthsFor(i, c) == {x \in Message : x.op = "auth" /\ x.id = i /\ x.char = c}
Moves(i)     == {x \in Message : x.op = "move" /\ x.id = i}

Logins == 1..lastId

-----------------------------------------------------------------------------
(* Without exceptions *)

\* An account's entry is one of its connections, and the first of them.
EntryIsHere == \A m \in Maps : idb[m] # 0 => idb[m] \in Here(m) /\ sess[m][idb[m]].twin # -1

\* Only the entered connection is ever accepted.
AuthIsEntry == \A m \in Maps, f \in Fds : sess[m][f].auth => idb[m] = f

Sessions ==
  \A m \in Maps : \A f \in Here(m) :
    /\ sess[m][f].char \in Chars /\ sess[m][f].dest \in Maps /\ sess[m][f].id \in Logins
    /\ sess[m][f].waiting => sess[m][f].auth
    /\ sess[m][f].dest # m => sess[m][f].waiting

ClientSound(k) ==
  /\ client[k].at = "out" => client[k] = Outside
  /\ client[k].at # "out" => client[k].id \in Logins
  /\ client[k].at \in {"go", "map"} => client[k].map \in Maps /\ client[k].char \in Chars
  /\ client[k].at = "map" => client[k].fd \in Here(client[k].map)
  /\ client[k].at = "char" => client[k].fd \in Taken

Players == \A k \in Clients : ClientSound(k)

OneEach == \A k, l \in Clients : client[k].id = client[l].id /\ client[k].id # 0 => k = l

Letters ==
  \A m \in Maps :
    /\ \A f \in Fds : Has(Ring(m), Asks(f)) => f \in Here(m)
    /\ \A i \in Ids : Has(Ring(m), Auths(i)) \/ Has(Ring(m), Moves(i)) => i \in Logins

Shape == TypeOK /\ EntryIsHere /\ AuthIsEntry /\ Sessions /\ Players /\ OneEach /\ Letters

-----------------------------------------------------------------------------
(* Until a first mixed or crossed *)

Sound == ~mixed /\ ~crossed

SeatIsOwn == \A k \in Clients : client[k].at = "char" => seat[client[k].fd].id = client[k].id

\* An unanswered question is that of the client whose login it names.
AskedByOwner ==
  \A m \in Maps, k \in Clients, f \in {0} \cup Fds :
    Has(Ring(m), AuthsTo(client[k].id, f)) =>
      client[k].at = "map" /\ client[k].map = m /\ client[k].fd = f

AskedOnce ==
  \A m, n \in Maps, i \in Ids :
    /\ Alone(Ring(m), Auths(i))
    /\ Has(Ring(m), Auths(i)) /\ Has(Ring(n), Auths(i)) => m = n

AnsweredOnce ==
  \A m \in Maps, f \in Fds :
    /\ Alone(Ring(m), Asks(f))
    /\ sess[m][f].auth => ~Has(Ring(m), Asks(f))

\* The order of things
AsksLast ==
  \A m \in Maps : idb[m] # 0 =>
    /\ Before(Ring(m), Chain, Asks(idb[m]))
    /\ Before(Ring(m), Partings, Asks(idb[m]))
    /\ Before(Ring(m), Saves, Asks(idb[m]))

Order ==
  \A m \in Maps :
    /\ Alone(Ring(m), Chain)
    /\ Before(Ring(m), Saves, Partings)
    /\ Before(Ring(m), Saves \ Chain, Chain)
    /\ Playing(m) # {} => ~Has(Ring(m), Chain)
    /\ (\E f \in Fds : sess[m][f].auth) => ~Has(Ring(m), Partings)

\* A session that is not waiting in vain
Active(m, f) == sess[m][f].waiting => Has(Ring(m), Chain)

OwnerIsHere ==
  \A m \in Maps : \A f \in Here(m), k \in Clients :
    Active(m, f) /\ client[k].id = sess[m][f].id => client[k].at = "map" /\ client[k].map = m /\ client[k].fd = f

AsksForItself ==
  \A m, n \in Maps : \A f \in Here(m), g \in {0} \cup Fds :
    Active(m, f) /\ Has(Ring(n), AuthsTo(sess[m][f].id, g)) => n = m /\ g = f

MoverStays ==
  \A m \in Maps, i \in Ids :
    Has(Ring(m), Moves(i)) =>
      /\ \A n \in Maps : ~Has(Ring(n), Auths(i))
      /\ \A k \in Clients : client[k].id = i => client[k].at = "map" /\ client[k].map = m

\* The account is, or is about to be, in the world at m, or it is being saved.
Live(m) == idb[m] # 0 /\ \/ Has(Ring(m), Answers(idb[m]))
                         \/ sess[m][idb[m]].auth /\ Active(m, idb[m])
Busy(m) == Live(m) \/ Has(Ring(m), Saves)

BusyIsOnline == \A m \in Maps : Busy(m) => online = m

Attempt(i, c, m) ==
  \/ \E k \in Clients : client[k].at = "go" /\ client[k].id = i /\ client[k].char = c /\ client[k].map = m
  \/ Has(Ring(m), AuthsFor(i, c))

OneLogin == \A d, e \in ForMap(auth) : d.id = e.id

AttemptsFollow ==
  \A e \in ForMap(auth), m, n \in Maps : Attempt(e.id, e.char, m) /\ Busy(n) => n = m

-----------------------------------------------------------------------------
(* What can happen to a queue *)

\* The message x is taken out.
Loses(q, r, x) ==
  /\ \A A : Has(r, A) => Has(q, A)
  /\ \A A : Has(q, A) => Has(r, A) \/ x \in A
  /\ \A A : x \in A => Has(q, A)
  /\ \A A : Alone(q, A) => Alone(r, A) /\ (x \in A => ~Has(r, A))
  /\ \A A, B : Before(q, A, B) => Before(r, A, B)

\* The message x becomes y where it stands.
Turns(q, r, x, y) ==
  /\ \A A : Has(r, A) => Has(q, A) \/ y \in A
  /\ \A A : Has(q, A) => Has(r, A) \/ x \in A
  /\ \A A : (x \in A => Has(q, A)) /\ (y \in A => Has(r, A))
  /\ \A A : Alone(q, A) /\ (y \in A => x \in A) => Alone(r, A)
  /\ \A A : Alone(q, A) /\ y \notin A /\ x \in A => ~Has(r, A)
  /\ \A A, B : Before(q, A, B) /\ (y \in A => x \in A) /\ (y \in B => x \in B) => Before(r, A, B)

\* The message y comes last.
Gains(q, r, y) ==
  /\ \A A : Has(r, A) <=> Has(q, A) \/ y \in A
  /\ \A A : Alone(q, A) /\ (y \in A => ~Has(q, A)) => Alone(r, A)
  /\ \A A, B : Before(q, A, B) /\ (y \in A => y \notin B /\ ~Has(q, B)) => Before(r, A, B)

\* The message y comes in between.
LetsIn(q, r, y) ==
  /\ \A A : y \notin A => (Has(r, A) <=> Has(q, A))
  /\ \A A : Alone(q, A) /\ y \notin A => Alone(r, A)
  /\ \A A, B : Before(q, A, B) /\ y \notin A /\ y \notin B => Before(r, A, B)

LEMMA Without ==
  ASSUME NEW n \in Nat, NEW p \in 1..n, NEW q, DOMAIN q = 1..n, NEW r, DOMAIN r = 1..(n-1),
         \A i \in 1..(n-1) : r[i] = IF i < p THEN q[i] ELSE q[i+1]
  PROVE  Loses(q, r, q[p])
<1> DEFINE h(i) == IF i < p THEN i ELSE i + 1
<1>1. \A i \in DOMAIN r : h(i) \in DOMAIN q /\ h(i) # p /\ r[i] = q[h(i)]
  OBVIOUS
<1>2. \A i, j \in DOMAIN r : (h(i) = h(j) => i = j) /\ (h(i) < h(j) => i < j)
  OBVIOUS
<1>3. \A j \in DOMAIN q \ {p} : \E i \in DOMAIN r : r[i] = q[j]
  <2> TAKE j \in DOMAIN q \ {p}
  <2>1. CASE j < p
    BY <2>1, j \in DOMAIN r
  <2>2. CASE j > p
    BY <2>2, j - 1 \in DOMAIN r
  <2> QED BY <2>1, <2>2
<1> HIDE DEF h
<1>4. \A A : Has(r, A) => Has(q, A)
  BY <1>1 DEF Has
<1>5. \A A : Has(q, A) => Has(r, A) \/ q[p] \in A
  BY <1>3 DEF Has
<1>6. \A A : q[p] \in A => Has(q, A)
  BY p \in DOMAIN q DEF Has
<1>7. \A A : Alone(q, A) => Alone(r, A)
  BY <1>1, <1>2 DEF Alone
<1>8. \A A : Alone(q, A) /\ q[p] \in A => ~Has(r, A)
  BY <1>1, p \in DOMAIN q DEF Alone, Has
<1>9. \A A, B : Before(q, A, B) => Before(r, A, B)
  BY <1>1, <1>2 DEF Before
<1> QED BY <1>4, <1>5, <1>6, <1>7, <1>8, <1>9 DEF Loses

LEMMA Instead ==
  ASSUME NEW n \in Nat, NEW p \in 1..n, NEW y, NEW q, DOMAIN q = 1..n, NEW r, DOMAIN r = 1..n,
         \A i \in 1..n : r[i] = IF i = p THEN y ELSE q[i]
  PROVE  Turns(q, r, q[p], y)
<1>1. p \in DOMAIN q /\ p \in DOMAIN r /\ r[p] = y /\ \A i \in DOMAIN r : i \in DOMAIN q /\ (i # p => r[i] = q[i])
  OBVIOUS
<1>0. \A j \in DOMAIN q : j \in DOMAIN r
  OBVIOUS
<1>4. \A A : Has(r, A) => Has(q, A) \/ y \in A
  BY <1>1 DEF Has
<1>5. \A A : Has(q, A) => Has(r, A) \/ q[p] \in A
  BY <1>0, <1>1 DEF Has
<1>6. \A A : (q[p] \in A => Has(q, A)) /\ (y \in A => Has(r, A))
  BY <1>1 DEF Has
<1>7. \A A : Alone(q, A) /\ (y \in A => q[p] \in A) => Alone(r, A)
  BY <1>1 DEF Alone
<1>8. \A A : Alone(q, A) /\ y \notin A /\ q[p] \in A => ~Has(r, A)
  BY <1>1 DEF Alone, Has
<1>9. \A A, B : Before(q, A, B) /\ (y \in A => q[p] \in A) /\ (y \in B => q[p] \in B) => Before(r, A, B)
  BY <1>1 DEF Before
<1> QED BY <1>4, <1>5, <1>6, <1>7, <1>8, <1>9 DEF Turns

LEMMA AtTheEnd ==
  ASSUME NEW n \in Nat, NEW y, NEW q, DOMAIN q = 1..n, NEW r, DOMAIN r = 1..(n+1),
         \A i \in 1..(n+1) : r[i] = IF i = n + 1 THEN y ELSE q[i]
  PROVE  Gains(q, r, y)
<1>1. /\ n + 1 \in DOMAIN r /\ r[n+1] = y
      /\ \A i \in DOMAIN r : i = n + 1 \/ (i \in DOMAIN q /\ r[i] = q[i] /\ i < n + 1)
      /\ \A i \in DOMAIN q : i \in DOMAIN r /\ r[i] = q[i] /\ i # n + 1
  OBVIOUS
<1>2. \A A : Has(r, A) <=> Has(q, A) \/ y \in A
  BY <1>1 DEF Has
<1>3. \A A : Alone(q, A) /\ (y \in A => ~Has(q, A)) => Alone(r, A)
  BY <1>1 DEF Alone, Has
<1>4. \A A, B : Before(q, A, B) /\ (y \in A => y \notin B /\ ~Has(q, B)) => Before(r, A, B)
  BY <1>1 DEF Before, Has
<1> QED BY <1>2, <1>3, <1>4 DEF Gains

LEMMA InBetween ==
  ASSUME NEW n \in Nat, NEW p \in 1..(n+1), NEW y, NEW q, DOMAIN q = 1..n, NEW r, DOMAIN r = 1..(n+1),
         \A i \in 1..(n+1) : r[i] = IF i < p THEN q[i] ELSE IF i = p THEN y ELSE q[i-1]
  PROVE  LetsIn(q, r, y)
<1> DEFINE h(i) == IF i < p THEN i ELSE i - 1
<1>1. \A i \in DOMAIN r : i = p \/ (h(i) \in DOMAIN q /\ r[i] = q[h(i)])
  OBVIOUS
<1>2. \A i, j \in DOMAIN r \ {p} : (h(i) = h(j) => i = j) /\ (h(i) < h(j) => i < j)
  OBVIOUS
<1>3. \A j \in DOMAIN q : \E i \in DOMAIN r : r[i] = q[j]
  <2> TAKE j \in DOMAIN q
  <2>1. CASE j < p
    BY <2>1, j \in DOMAIN r
  <2>2. CASE j >= p
    BY <2>2, j + 1 \in DOMAIN r
  <2> QED BY <2>1, <2>2
<1>4. r[p] = y /\ p \in DOMAIN r
  OBVIOUS
<1> HIDE DEF h
<1>5. \A A : y \notin A => (Has(r, A) <=> Has(q, A))
  BY <1>1, <1>3, <1>4 DEF Has
<1>6. \A A : Alone(q, A) /\ y \notin A => Alone(r, A)
  BY <1>1, <1>2, <1>4 DEF Alone
<1>7. \A A, B : Before(q, A, B) /\ y \notin A /\ y \notin B => Before(r, A, B)
  BY <1>1, <1>2, <1>4 DEF Before
<1> QED BY <1>5, <1>6, <1>7 DEF LetsIn

-----------------------------------------------------------------------------
(* What is said *)

LEMMA UpFields ==
  ASSUME NEW x \in UpMessage
  PROVE  /\ x.op \in {"auth", "save", "select", "move", "gone"}
         /\ x.op = "auth" => x.id \in Ids /\ x.char \in Chars /\ x.to \in {0} \cup Fds
         /\ x.op = "save" => x.char \in Chars /\ x.value \in 0..MaxValue /\ x.map \in Maps /\ x.final \in 0..3
         /\ x.op = "select" => x.id \in Ids
         /\ x.op = "move" => x.id \in Ids /\ x.char \in Chars /\ x.map \in Maps
         /\ x \in Message
BY DEF UpMessage, Message

LEMMA DownFields ==
  ASSUME NEW x \in DownMessage
  PROVE  /\ x.op \in {"kick", "ok", "fail", "saved", "selectok", "moved"}
         /\ x.op = "ok" => x.char \in Chars /\ x.value \in 0..MaxValue /\ x.to \in {0} \cup Fds
         /\ x.op = "fail" => x.to \in {0} \cup Fds
         /\ x.op = "saved" => x.final \in 1..3 /\ x.map \in Maps
         /\ x.op = "moved" => x.char \in Chars /\ x.map \in Maps
         /\ x \in Message
BY DEF DownMessage, Message

LEMMA RingIs ==
  ASSUME NEW S, NEW d \in Seq(S), NEW u \in Seq(S)
  PROVE  /\ d \o u \in Seq(S) /\ DOMAIN (d \o u) = 1..(Len(d) + Len(u))
         /\ \A i \in 1..(Len(d) + Len(u)) :
              (d \o u)[i] = IF i <= Len(d) THEN d[i] ELSE u[i - Len(d)]
         /\ Len(d) \in Nat /\ Len(u) \in Nat
BY ConcatProperties, LenProperties

LEMMA TailIs ==
  ASSUME NEW S, NEW d \in Seq(S), d # <<>>
  PROVE  /\ Tail(d) \in Seq(S) /\ Len(Tail(d)) = Len(d) - 1 /\ Len(d) \in Nat \ {0}
         /\ Head(d) = d[1] /\ Head(d) \in S
         /\ \A i \in 1..(Len(d) - 1) : Tail(d)[i] = d[i+1]
BY HeadTailProperties, EmptySeq

\* The map server gets a message.
LEMMA ReceivedBelow ==
  ASSUME NEW S, NEW d \in Seq(S), NEW u \in Seq(S), d # <<>>
  PROVE  /\ Loses(d \o u, Tail(d) \o u, Head(d))
         /\ \A A, B : Before(d \o u, A, B) /\ Head(d) \in B => ~Has(d \o u, A)
<1> DEFINE q == d \o u
           r == Tail(d) \o u
<1>1. /\ Len(d) + Len(u) \in Nat /\ 1 \in 1..(Len(d) + Len(u))
      /\ DOMAIN q = 1..(Len(d) + Len(u)) /\ q[1] = Head(d)
  BY RingIs, TailIs
<1>2. DOMAIN r = 1..(Len(d) + Len(u) - 1)
  BY RingIs, TailIs
<1>3. \A i \in 1..(Len(d) + Len(u) - 1) : r[i] = IF i < 1 THEN q[i] ELSE q[i+1]
  <2> TAKE i \in 1..(Len(d) + Len(u) - 1)
  <2>0. Len(d) \in Nat \ {0} /\ Len(u) \in Nat /\ i \in 1..(Len(Tail(d)) + Len(u)) /\ i + 1 \in 1..(Len(d) + Len(u))
    BY RingIs, TailIs
  <2>1. r[i] = IF i <= Len(d) - 1 THEN Tail(d)[i] ELSE u[i - (Len(d) - 1)]
    BY <2>0, RingIs, TailIs
  <2>2. q[i+1] = IF i + 1 <= Len(d) THEN d[i+1] ELSE u[i + 1 - Len(d)]
    BY <2>0, RingIs
  <2> QED BY <2>0, <2>1, <2>2, TailIs
<1> HIDE DEF q, r
<1>4. Loses(q, r, q[1])
  BY <1>1, <1>2, <1>3, Without
<1>5. \A A, B : Before(q, A, B) /\ q[1] \in B => ~Has(q, A)
  BY <1>1 DEF Before, Has
<1> QED BY <1>1, <1>4, <1>5 DEF q, r

\* The char server gets a message and has no answer.
LEMMA ReceivedAbove ==
  ASSUME NEW S, NEW d \in Seq(S), NEW u \in Seq(S), u # <<>>
  PROVE  Loses(d \o u, d \o Tail(u), Head(u))
<1> DEFINE q == d \o u
           r == d \o Tail(u)
           p == Len(d) + 1
<1>1. /\ Len(d) + Len(u) \in Nat /\ p \in 1..(Len(d) + Len(u))
      /\ DOMAIN q = 1..(Len(d) + Len(u)) /\ q[p] = Head(u)
  BY RingIs, TailIs
<1>2. DOMAIN r = 1..(Len(d) + Len(u) - 1)
  BY RingIs, TailIs
<1>3. \A i \in 1..(Len(d) + Len(u) - 1) : r[i] = IF i < p THEN q[i] ELSE q[i+1]
  <2> TAKE i \in 1..(Len(d) + Len(u) - 1)
  <2>0. Len(d) \in Nat /\ Len(u) \in Nat \ {0} /\ i \in 1..(Len(d) + Len(Tail(u))) /\ i \in 1..(Len(d) + Len(u)) /\ i + 1 \in 1..(Len(d) + Len(u))
    BY RingIs, TailIs
  <2>1. r[i] = IF i <= Len(d) THEN d[i] ELSE Tail(u)[i - Len(d)]
    BY <2>0, RingIs, TailIs
  <2>2. q[i+1] = IF i + 1 <= Len(d) THEN d[i+1] ELSE u[i + 1 - Len(d)]
    BY <2>0, RingIs
  <2>3. q[i] = IF i <= Len(d) THEN d[i] ELSE u[i - Len(d)]
    BY <2>0, RingIs
  <2> QED BY <2>0, <2>1, <2>2, <2>3, TailIs
<1> HIDE DEF q, r
<1>4. Loses(q, r, q[p])
  BY <1>1, <1>2, <1>3, Without
<1> QED BY <1>1, <1>4 DEF q, r

\* The char server gets a message and answers.
LEMMA Answered ==
  ASSUME NEW S, NEW d \in Seq(S), NEW u \in Seq(S), u # <<>>, NEW y \in S
  PROVE  Turns(d \o u, Append(d, y) \o Tail(u), Head(u), y)
<1> DEFINE q == d \o u
           r == Append(d, y) \o Tail(u)
           n == Len(d) + Len(u)
           p == Len(d) + 1
<1>0. /\ Append(d, y) \in Seq(S) /\ Len(Append(d, y)) = p
      /\ \A i \in 1..p : Append(d, y)[i] = IF i = p THEN y ELSE d[i]
  BY AppendProperties, LenProperties
<1>1. /\ n \in Nat /\ p \in 1..n
      /\ DOMAIN q = 1..n /\ q[p] = Head(u)
  BY RingIs, TailIs
<1>2. DOMAIN r = 1..n
  BY <1>0, RingIs, TailIs
<1>3. \A i \in 1..n : r[i] = IF i = p THEN y ELSE q[i]
  <2> TAKE i \in 1..n
  <2>0. Len(d) \in Nat /\ Len(u) \in Nat \ {0} /\ i \in 1..(Len(d) + Len(u)) /\ i \in 1..(Len(Append(d, y)) + Len(Tail(u)))
    BY <1>0, RingIs, TailIs
  <2>1. r[i] = IF i <= p THEN Append(d, y)[i] ELSE Tail(u)[i - p]
    BY <1>0, <2>0, RingIs, TailIs
  <2>2. q[i] = IF i <= Len(d) THEN d[i] ELSE u[i - Len(d)]
    BY <2>0, RingIs
  <2> QED BY <1>0, <2>0, <2>1, <2>2, TailIs
<1> HIDE DEF q, r, n
<1>4. Turns(q, r, q[p], y)
  BY <1>1, <1>2, <1>3, Instead
<1> QED BY <1>1, <1>4 DEF q, r

\* The map server says something.
LEMMA Said ==
  ASSUME NEW S, NEW d \in Seq(S), NEW u \in Seq(S), NEW y \in S
  PROVE  Gains(d \o u, d \o Append(u, y), y)
<1> DEFINE q == d \o u
           r == d \o Append(u, y)
           n == Len(d) + Len(u)
<1>0. /\ Append(u, y) \in Seq(S) /\ Len(Append(u, y)) = Len(u) + 1
      /\ \A i \in 1..(Len(u) + 1) : Append(u, y)[i] = IF i = Len(u) + 1 THEN y ELSE u[i]
  BY AppendProperties, LenProperties
<1>1. n \in Nat /\ DOMAIN q = 1..n /\ DOMAIN r = 1..(n+1)
  BY <1>0, RingIs
<1>2. \A i \in 1..(n+1) : r[i] = IF i = n + 1 THEN y ELSE q[i]
  <2> TAKE i \in 1..(n+1)
  <2>0. Len(d) \in Nat /\ Len(u) \in Nat /\ i \in 1..(Len(d) + Len(Append(u, y)))
    BY <1>0, RingIs
  <2>1. r[i] = IF i <= Len(d) THEN d[i] ELSE Append(u, y)[i - Len(d)]
    BY <1>0, <2>0, RingIs
  <2>2. i # n + 1 => q[i] = IF i <= Len(d) THEN d[i] ELSE u[i - Len(d)]
    BY <2>0, RingIs
  <2> QED BY <1>0, <2>0, <2>1, <2>2
<1> HIDE DEF q, r, n
<1> QED BY <1>1, <1>2, AtTheEnd DEF q, r

\* The char server says something.
LEMMA LetIn ==
  ASSUME NEW S, NEW d \in Seq(S), NEW u \in Seq(S), NEW y \in S
  PROVE  LetsIn(d \o u, Append(d, y) \o u, y)
<1> DEFINE q == d \o u
           r == Append(d, y) \o u
           n == Len(d) + Len(u)
           p == Len(d) + 1
<1>0. /\ Append(d, y) \in Seq(S) /\ Len(Append(d, y)) = p
      /\ \A i \in 1..p : Append(d, y)[i] = IF i = p THEN y ELSE d[i]
  BY AppendProperties, LenProperties
<1>1. n \in Nat /\ p \in 1..(n+1) /\ DOMAIN q = 1..n /\ DOMAIN r = 1..(n+1)
  BY <1>0, RingIs
<1>2. \A i \in 1..(n+1) : r[i] = IF i < p THEN q[i] ELSE IF i = p THEN y ELSE q[i-1]
  <2> TAKE i \in 1..(n+1)
  <2>0. Len(d) \in Nat /\ Len(u) \in Nat /\ i \in 1..(Len(Append(d, y)) + Len(u))
    BY <1>0, RingIs
  <2>1. r[i] = IF i <= p THEN Append(d, y)[i] ELSE u[i - p]
    BY <1>0, <2>0, RingIs
  <2>2. i < p => q[i] = d[i]
    BY <2>0, RingIs
  <2>3. i > p => q[i-1] = u[i-1-Len(d)]
    BY <2>0, RingIs
  <2> QED BY <1>0, <2>0, <2>1, <2>2, <2>3
<1> HIDE DEF q, r, n
<1> QED BY <1>1, <1>2, InBetween DEF q, r

\* What the map servers alone say stands behind what only the char server says.
LEMMA NextAbove ==
  ASSUME NEW d \in Seq(DownMessage), NEW u \in Seq(UpMessage), u # <<>>
  PROVE  /\ \A A, B : A \cap DownMessage = {} /\ Before(d \o u, A, B) /\ Head(u) \in B => ~Has(d \o u, A)
         /\ \A A, B : B \cap UpMessage = {} /\ Before(d \o u, A, B) /\ Head(u) \in A => ~Has(d \o u, B)
<1>1. d \in Seq(Message) /\ u \in Seq(Message)
  BY SeqMonotonic DEF Message
<1>2. Len(d) \in Nat /\ Len(u) \in Nat \ {0} /\ DOMAIN (d \o u) = 1..(Len(d) + Len(u))
  BY <1>1, RingIs, TailIs
<1>3. \A i \in DOMAIN (d \o u) : IF i <= Len(d) THEN (d \o u)[i] \in DownMessage ELSE (d \o u)[i] \in UpMessage
  <2> TAKE i \in DOMAIN (d \o u)
  <2>1. (d \o u)[i] = IF i <= Len(d) THEN d[i] ELSE u[i - Len(d)]
    BY <1>1, <1>2, RingIs
  <2>2. i <= Len(d) => d[i] \in DownMessage
    BY <1>2, ElementOfSeq
  <2>3. i > Len(d) => u[i - Len(d)] \in UpMessage
    BY <1>2, ElementOfSeq
  <2> QED BY <1>2, <2>1, <2>2, <2>3
<1>4. Len(d) + 1 \in DOMAIN (d \o u) /\ (d \o u)[Len(d) + 1] = Head(u)
  BY <1>1, <1>2, RingIs, TailIs
<1>5. \A A, B : A \cap DownMessage = {} /\ Before(d \o u, A, B) /\ Head(u) \in B => ~Has(d \o u, A)
  BY <1>2, <1>3, <1>4 DEF Before, Has
<1>6. \A A, B : B \cap UpMessage = {} /\ Before(d \o u, A, B) /\ Head(u) \in A => ~Has(d \o u, B)
  BY <1>2, <1>3, <1>4 DEF Before, Has
<1> QED BY <1>5, <1>6

\* What NotTo leaves of a message.
LEMMA NotToFields ==
  ASSUME NEW f, NEW x
  PROVE  /\ x \in UpMessage => NotTo(f, x) \in UpMessage
         /\ x \in DownMessage => NotTo(f, x) \in DownMessage
         /\ x \in Message => /\ NotTo(f, x).op = x.op
                             /\ x.op = "auth" => NotTo(f, x).id = x.id /\ NotTo(f, x).char = x.char
                             /\ x.op = "ok" => NotTo(f, x).char = x.char /\ NotTo(f, x).value = x.value
                             /\ x.op \in {"auth", "ok"} => NotTo(f, x).to = IF x.to = f THEN 0 ELSE x.to
                             /\ x.op \notin {"auth", "ok", "fail"} => NotTo(f, x) = x
<1>1. ASSUME x \in [op : {"auth"}, id : Ids, char : Chars, to : {0} \cup Fds]
      PROVE  /\ NotTo(f, x) \in [op : {"auth"}, id : Ids, char : Chars, to : {0} \cup Fds]
             /\ NotTo(f, x).op = x.op /\ NotTo(f, x).id = x.id /\ NotTo(f, x).char = x.char
             /\ NotTo(f, x).to = IF x.to = f THEN 0 ELSE x.to
  BY <1>1 DEF NotTo
<1>2. ASSUME x \in [op : {"ok"}, char : Chars, value : 0..MaxValue, to : {0} \cup Fds]
      PROVE  /\ NotTo(f, x) \in [op : {"ok"}, char : Chars, value : 0..MaxValue, to : {0} \cup Fds]
             /\ NotTo(f, x).op = x.op /\ NotTo(f, x).value = x.value /\ NotTo(f, x).char = x.char
             /\ NotTo(f, x).to = IF x.to = f THEN 0 ELSE x.to
  BY <1>2 DEF NotTo
<1>3. ASSUME x \in [op : {"fail"}, to : {0} \cup Fds]
      PROVE  NotTo(f, x) \in [op : {"fail"}, to : {0} \cup Fds] /\ NotTo(f, x).op = x.op
  BY <1>3 DEF NotTo
<1>4. ASSUME x \in Message, x.op \notin {"auth", "ok", "fail"}
      PROVE  NotTo(f, x) = x
  BY <1>4 DEF NotTo
<1>5. CASE x \in Message
  <2>1. \/ x \in [op : {"auth"}, id : Ids, char : Chars, to : {0} \cup Fds]
        \/ x \in [op : {"ok"}, char : Chars, value : 0..MaxValue, to : {0} \cup Fds]
        \/ x \in [op : {"fail"}, to : {0} \cup Fds]
        \/ x.op \notin {"auth", "ok", "fail"}
    BY <1>5 DEF Message, UpMessage, DownMessage
  <2>2. CASE x \in [op : {"auth"}, id : Ids, char : Chars, to : {0} \cup Fds]
    BY <1>1, <2>2 DEF Message, UpMessage, DownMessage
  <2>3. CASE x \in [op : {"ok"}, char : Chars, value : 0..MaxValue, to : {0} \cup Fds]
    BY <1>2, <2>3 DEF Message, UpMessage, DownMessage
  <2>4. CASE x \in [op : {"fail"}, to : {0} \cup Fds]
    BY <1>3, <2>4 DEF Message, UpMessage, DownMessage
  <2>5. CASE x.op \notin {"auth", "ok", "fail"}
    BY <1>4, <1>5, <2>5 DEF Message
  <2> QED BY <2>1, <2>2, <2>3, <2>4, <2>5
<1>6. CASE x \notin Message
  BY <1>6 DEF Message
<1> QED BY <1>5, <1>6

\* What is on its way to a connection that is closed
Rewords(q, r, f) ==
  /\ \A A, B : Has(r, A) /\ (\A x \in Message : NotTo(f, x) \in A => x \in B) => Has(q, B)
  /\ \A A, B : Has(q, A) /\ (\A x \in Message : x \in A => NotTo(f, x) \in B) => Has(r, B)
  /\ \A A : Alone(q, A) /\ (\A x \in Message : NotTo(f, x) \in A => x \in A) => Alone(r, A)
  /\ \A A, B : /\ Before(q, A, B)
               /\ \A x \in Message : (NotTo(f, x) \in A => x \in A) /\ (NotTo(f, x) \in B => x \in B)
               => Before(r, A, B)

LEMMA NoneToIs ==
  ASSUME NEW f, NEW d \in Seq(DownMessage), NEW u \in Seq(UpMessage)
  PROVE  /\ NoneTo(f, d) \in Seq(DownMessage) /\ NoneTo(f, u) \in Seq(UpMessage)
         /\ Rewords(d \o u, NoneTo(f, d) \o NoneTo(f, u), f)
<1> DEFINE q == d \o u
           r == NoneTo(f, d) \o NoneTo(f, u)
<1>1. /\ Len(d) \in Nat /\ DOMAIN d = 1..Len(d) /\ \A i \in 1..Len(d) : d[i] \in DownMessage
      /\ Len(u) \in Nat /\ DOMAIN u = 1..Len(u) /\ \A i \in 1..Len(u) : u[i] \in UpMessage
      /\ d \in Seq(Message) /\ u \in Seq(Message)
  BY LenProperties, ElementOfSeq, SeqMonotonic DEF Message
<1>2. NoneTo(f, d) \in Seq(DownMessage) /\ Len(NoneTo(f, d)) = Len(d)
  BY <1>1, NotToFields DEF NoneTo
<1>3. NoneTo(f, u) \in Seq(UpMessage) /\ Len(NoneTo(f, u)) = Len(u)
  BY <1>1, NotToFields DEF NoneTo
<1>4. NoneTo(f, d) \in Seq(Message) /\ NoneTo(f, u) \in Seq(Message)
  BY <1>2, <1>3, SeqMonotonic DEF Message
<1>10. /\ \A j \in 1..Len(d) : NoneTo(f, d)[j] = NotTo(f, d[j])
       /\ \A j \in 1..Len(u) : NoneTo(f, u)[j] = NotTo(f, u[j])
  BY <1>1 DEF NoneTo
<1>5. DOMAIN q = DOMAIN r /\ \A i \in DOMAIN q : q[i] \in Message /\ r[i] = NotTo(f, q[i])
  <2>1. DOMAIN q = 1..(Len(d) + Len(u)) /\ DOMAIN r = 1..(Len(d) + Len(u))
    BY <1>1, <1>2, <1>3, <1>4, RingIs
  <2>2. ASSUME NEW i \in 1..(Len(d) + Len(u)) PROVE q[i] \in Message /\ r[i] = NotTo(f, q[i])
    <3>1. q[i] = IF i <= Len(d) THEN d[i] ELSE u[i - Len(d)]
      BY <1>1, RingIs
    <3>2. r[i] = IF i <= Len(d) THEN NoneTo(f, d)[i] ELSE NoneTo(f, u)[i - Len(d)]
      BY <1>1, <1>2, <1>3, <1>4, RingIs
    <3> HIDE DEF q, r
    <3>3. CASE i <= Len(d)
      BY <1>1, <1>10, <3>1, <3>2, <3>3 DEF Message
    <3>4. CASE i > Len(d)
      <4>1. i - Len(d) \in 1..Len(u)
        BY <1>1, <3>4
      <4>2. q[i] = u[i - Len(d)] /\ r[i] = NoneTo(f, u)[i - Len(d)]
        BY <1>1, <3>1, <3>2, <3>4
      <4> QED BY <1>1, <1>10, <4>1, <4>2 DEF Message
    <3> QED BY <1>1, <3>3, <3>4
  <2> QED BY <2>1, <2>2
<1> HIDE DEF q, r
<1>6. \A A, B : Has(r, A) /\ (\A x \in Message : NotTo(f, x) \in A => x \in B) => Has(q, B)
  BY <1>5 DEF Has
<1>7. \A A, B : Has(q, A) /\ (\A x \in Message : x \in A => NotTo(f, x) \in B) => Has(r, B)
  BY <1>5 DEF Has
<1>8. \A A : Alone(q, A) /\ (\A x \in Message : NotTo(f, x) \in A => x \in A) => Alone(r, A)
  BY <1>5 DEF Alone
<1>9. \A A, B : /\ Before(q, A, B)
                /\ \A x \in Message : (NotTo(f, x) \in A => x \in A) /\ (NotTo(f, x) \in B => x \in B)
                => Before(r, A, B)
  BY <1>5 DEF Before
<1> QED BY <1>2, <1>3, <1>6, <1>7, <1>8, <1>9 DEF Rewords, q, r

LEMMA ClosedClasses ==
  ASSUME NEW f \in Fds, NEW x \in Message
  PROVE  /\ NotTo(f, x) \in Chain <=> x \in Chain
         /\ NotTo(f, x) \in Saves <=> x \in Saves
         /\ NotTo(f, x) \in Partings <=> x \in Partings
         /\ \A i : NotTo(f, x) \in Auths(i) <=> x \in Auths(i)
         /\ \A i : NotTo(f, x) \in Moves(i) <=> x \in Moves(i)
         /\ \A i, c : NotTo(f, x) \in AuthsFor(i, c) <=> x \in AuthsFor(i, c)
         /\ \A g \in Fds : NotTo(f, x) \in Asks(g) <=> g # f /\ x \in Asks(g)
         /\ \A g \in Fds : NotTo(f, x) \in Answers(g) <=> g # f /\ x \in Answers(g)
         /\ \A i : \A g \in Fds : NotTo(f, x) \in AuthsTo(i, g) <=> g # f /\ x \in AuthsTo(i, g)
         /\ \A i : NotTo(f, x) \in AuthsTo(i, 0) => x \in AuthsTo(i, 0) \/ x \in AuthsTo(i, f)
<1> DEFINE y == NotTo(f, x)
<1>1. /\ y \in Message /\ y.op = x.op
      /\ x.op = "auth" => y.id = x.id /\ y.char = x.char
      /\ x.op \in {"auth", "ok"} => y.to = IF x.to = f THEN 0 ELSE x.to
      /\ x.op \notin {"auth", "ok", "fail"} => y = x
  BY NotToFields DEF Message
<1>2. 0 \notin Fds
  BY FdAssumption
<1> HIDE DEF y
<1>3. (y \in Chain <=> x \in Chain) /\ (y \in Saves <=> x \in Saves) /\ (y \in Partings <=> x \in Partings)
  BY <1>1 DEF Chain, Saves, Partings
<1>4. \A i, c : (y \in Auths(i) <=> x \in Auths(i)) /\ (y \in Moves(i) <=> x \in Moves(i)) /\ (y \in AuthsFor(i, c) <=> x \in AuthsFor(i, c))
  BY <1>1 DEF Auths, Moves, AuthsFor
<1>5. \A g \in Fds : (y \in Asks(g) <=> g # f /\ x \in Asks(g)) /\ (y \in Answers(g) <=> g # f /\ x \in Answers(g))
  BY <1>1, <1>2 DEF Asks, Answers
<1>6. \A i : \A g \in Fds : y \in AuthsTo(i, g) <=> g # f /\ x \in AuthsTo(i, g)
  BY <1>1, <1>2 DEF AuthsTo
<1>7. \A i : y \in AuthsTo(i, 0) => x \in AuthsTo(i, 0) \/ x \in AuthsTo(i, f)
  BY <1>1 DEF AuthsTo
<1> QED BY <1>3, <1>4, <1>5, <1>6, <1>7 DEF y

LEMMA RewordedHas ==
  ASSUME NEW f \in Fds, NEW q, NEW r, Rewords(q, r, f)
  PROVE  /\ Has(r, Chain) <=> Has(q, Chain)
         /\ Has(r, Saves) <=> Has(q, Saves)
         /\ Has(r, Partings) <=> Has(q, Partings)
         /\ \A i : Has(r, Auths(i)) <=> Has(q, Auths(i))
         /\ \A i : Has(r, Moves(i)) <=> Has(q, Moves(i))
         /\ \A i, c : Has(r, AuthsFor(i, c)) <=> Has(q, AuthsFor(i, c))
         /\ \A g \in Fds : Has(r, Asks(g)) <=> g # f /\ Has(q, Asks(g))
         /\ \A g \in Fds : Has(r, Answers(g)) <=> g # f /\ Has(q, Answers(g))
         /\ \A i : \A g \in Fds : Has(r, AuthsTo(i, g)) <=> g # f /\ Has(q, AuthsTo(i, g))
<1> USE ClosedClasses
<1>1. \A A : (\A x \in Message : NotTo(f, x) \in A <=> x \in A) => (Has(r, A) <=> Has(q, A))
  BY DEF Rewords
<1>2. \A A : (\A x \in Message : NotTo(f, x) \notin A) => ~Has(r, A)
  <2> TAKE A
  <2> HAVE \A x \in Message : NotTo(f, x) \notin A
  <2>1. Has(r, A) => Has(q, {})
    BY DEF Rewords
  <2> QED BY <2>1 DEF Has
<1>3. (Has(r, Chain) <=> Has(q, Chain)) /\ (Has(r, Saves) <=> Has(q, Saves)) /\ (Has(r, Partings) <=> Has(q, Partings))
  BY <1>1
<1>4. \A i : (Has(r, Auths(i)) <=> Has(q, Auths(i))) /\ (Has(r, Moves(i)) <=> Has(q, Moves(i)))
  BY <1>1
<1>5. \A i, c : Has(r, AuthsFor(i, c)) <=> Has(q, AuthsFor(i, c))
  BY <1>1
<1>6. \A g \in Fds : (Has(r, Asks(g)) <=> g # f /\ Has(q, Asks(g))) /\ (Has(r, Answers(g)) <=> g # f /\ Has(q, Answers(g)))
  BY <1>1, <1>2
<1>7. \A i : \A g \in Fds : Has(r, AuthsTo(i, g)) <=> g # f /\ Has(q, AuthsTo(i, g))
  BY <1>1, <1>2
<1> QED BY <1>3, <1>4, <1>5, <1>6, <1>7

LEMMA RewordedOrder ==
  ASSUME NEW f \in Fds, NEW q, NEW r, Rewords(q, r, f)
  PROVE  /\ Alone(q, Chain) => Alone(r, Chain)
         /\ \A i : Alone(q, Auths(i)) => Alone(r, Auths(i))
         /\ \A g \in Fds : Alone(q, Asks(g)) => Alone(r, Asks(g))
         /\ Before(q, Saves, Partings) => Before(r, Saves, Partings)
         /\ Before(q, Saves \ Chain, Chain) => Before(r, Saves \ Chain, Chain)
         /\ \A g \in Fds : /\ Before(q, Chain, Asks(g)) => Before(r, Chain, Asks(g))
                           /\ Before(q, Partings, Asks(g)) => Before(r, Partings, Asks(g))
                           /\ Before(q, Saves, Asks(g)) => Before(r, Saves, Asks(g))
         /\ \A i : Has(r, AuthsTo(i, 0)) => Has(q, AuthsTo(i, 0)) \/ Has(q, AuthsTo(i, f))
<1> USE ClosedClasses
<1>1. \A A : Alone(q, A) /\ (\A x \in Message : NotTo(f, x) \in A => x \in A) => Alone(r, A)
  BY DEF Rewords
<1>2. \A A, B : /\ Before(q, A, B)
                /\ \A x \in Message : NotTo(f, x) \in A => x \in A
                /\ \A x \in Message : NotTo(f, x) \in B => x \in B
                => Before(r, A, B)
  BY DEF Rewords
<1>3. /\ Alone(q, Chain) => Alone(r, Chain)
      /\ \A i : Alone(q, Auths(i)) => Alone(r, Auths(i))
      /\ \A g \in Fds : Alone(q, Asks(g)) => Alone(r, Asks(g))
  BY <1>1
<1>4. Before(q, Saves, Partings) => Before(r, Saves, Partings)
  BY <1>2
<1>5. Before(q, Saves \ Chain, Chain) => Before(r, Saves \ Chain, Chain)
  <2>1. \A x \in Message : NotTo(f, x) \in Saves \ Chain => x \in Saves \ Chain
    OBVIOUS
  <2> QED BY <1>2, <2>1
<1>6. \A g \in Fds : /\ Before(q, Chain, Asks(g)) => Before(r, Chain, Asks(g))
                     /\ Before(q, Partings, Asks(g)) => Before(r, Partings, Asks(g))
                     /\ Before(q, Saves, Asks(g)) => Before(r, Saves, Asks(g))
  BY <1>2
<1>7. \A i : Has(r, AuthsTo(i, 0)) => Has(q, AuthsTo(i, 0)) \/ Has(q, AuthsTo(i, f))
  <2> TAKE i
  <2>1. Has(r, AuthsTo(i, 0)) => Has(q, AuthsTo(i, 0) \cup AuthsTo(i, f))
    BY DEF Rewords
  <2> QED BY <2>1 DEF Has
<1> QED BY <1>3, <1>4, <1>5, <1>6, <1>7

-----------------------------------------------------------------------------
(* Types *)

Fine == TypeOK /\ EntryIsHere /\ Sessions /\ Players

LEMMA TypeInit == Init => TypeOK
<1> SUFFICES ASSUME Init PROVE TypeOK
  OBVIOUS
<1>1. TypeOKLogin
  BY LoginAssumption DEF Init, InitLogin, TypeOKLogin, Ids
<1>2. TypeOKChar
  <2>1. seat \in [Seats -> Seat]
    BY LoginAssumption DEF Init, InitChar, Seat, NoSeat, Ids
  <2>2. where \in [Chars -> Maps] /\ stored \in [Chars -> 0..MaxValue]
    BY SeatAssumption, HomeAssumption DEF Init, InitChar
  <2> QED BY <2>1, <2>2 DEF Init, InitChar, TypeOKChar
<1>3. TypeOKMap
  <2>1. client \in [Clients -> Client]
    BY LoginAssumption DEF Init, InitLogin, Outside, Client, Place, Ids
  <2>2. up \in [Maps -> Seq(UpMessage)] /\ down \in [Maps -> Seq(DownMessage)]
    BY DEF Init, InitChar
  <2>3. sess \in [Maps -> [Fds -> Session]]
    BY LoginAssumption, SeatAssumption DEF Init, InitMap, NoSession, Session, Ids
  <2>4. idb \in [Maps -> {0} \cup Fds] /\ doomed \in [Maps -> SUBSET Fds]
    BY DEF Init, InitMap
  <2>5. latest \in [Chars -> 0..MaxValue] /\ drops \in 0..MaxDrops
    BY SeatAssumption, FdAssumption DEF Init, InitMap
  <2> QED BY <2>1, <2>2, <2>3, <2>4, <2>5 DEF Init, InitMap, TypeOKMap
<1> QED BY <1>1, <1>2, <1>3 DEF TypeOK

LEMMA TypeLogin ==
  ASSUME Fine, NEW k \in Clients, Login(k), OnlyLogin
  PROVE  TypeOK'
<1>1. TypeOKLogin'
  BY LoginAssumption DEF Fine, Login, TypeOK, TypeOKLogin, Ids
<1>2. client' \in [Clients -> Client]
  <2>1. client[k] \in Client /\ client \in [Clients -> Client]
    BY DEF Fine, TypeOK, TypeOKMap
  <2>2. lastId < MaxLogins => lastId + 1 \in Ids
    BY LoginAssumption DEF Fine, TypeOK, TypeOKLogin, Ids
  <2>3. CASE UNCHANGED <<client, lastId>>
    BY <2>1, <2>3
  <2>4. CASE client' = [client EXCEPT ![k].at = "ticket", ![k].id = lastId + 1] /\ lastId < MaxLogins
    BY <2>1, <2>2, <2>4 DEF Client, Place
  <2> QED BY <2>3, <2>4 DEF Login
<1> QED BY <1>1, <1>2 DEF Fine, TypeOK, TypeOKChar, TypeOKMap, OnlyLogin, chars, maps

LEMMA TypeLoginReceives ==
  ASSUME Fine, LoginReceives, OnlyLogin
  PROVE  TypeOK'
<1>1. TypeOKLogin'
  <2>1. Head(toLogin) \in Ids /\ Tail(toLogin) \in Seq(Ids)
    BY HeadTailProperties DEF Fine, LoginReceives, TypeOK, TypeOKLogin
  <2>2. [op |-> "answer", id |-> Head(toLogin), ok |-> Head(toLogin) \in tickets] \in [op : {"kick", "answer"}, id : Ids, ok : BOOLEAN]
    BY <2>1
  <2> QED BY <2>1, <2>2, AppendProperties DEF Fine, LoginReceives, TypeOK, TypeOKLogin
<1> QED BY <1>1 DEF Fine, LoginReceives, TypeOK, TypeOKChar, TypeOKMap, OnlyLogin, chars, maps

LEMMA TypeForgetTicket ==
  ASSUME Fine, ForgetTicket, OnlyLogin
  PROVE  TypeOK'
BY DEF Fine, ForgetTicket, TypeOK, TypeOKLogin, TypeOKChar, TypeOKMap, OnlyLogin, chars, maps

LEMMA TypeForgetEntry ==
  ASSUME Fine, ForgetEntry, UNCHANGED maps
  PROVE  TypeOK'
BY DEF Fine, ForgetEntry, TypeOK, TypeOKLogin, TypeOKChar, TypeOKMap, logins, maps

LEMMA TypeCharConnect ==
  ASSUME Fine, NEW k \in Clients, CharConnect(k), UNCHANGED maps
  PROVE  TypeOK'
<1> PICK f \in Seats \ Taken : CharConnect(k)!(f)
  BY DEF CharConnect
<1>1. client[k] \in Client /\ client[k].id \in Ids
  BY DEF Fine, TypeOK, TypeOKMap, Client
<1>2. TypeOKLogin'
  BY <1>1, AppendProperties DEF Fine, TypeOK, TypeOKLogin
<1>3. client' \in [Clients -> Client]
  BY <1>1 DEF Fine, TypeOK, TypeOKMap, Client, Place
<1>4. seat' \in [Seats -> Seat]
  BY <1>1 DEF Fine, TypeOK, TypeOKChar, Seat
<1> QED BY <1>2, <1>3, <1>4 DEF Fine, TypeOK, TypeOKChar, TypeOKMap, maps

LEMMA KickDown ==
  ASSUME TypeOK
  PROVE  [op |-> "kick"] \in DownMessage /\ KickAll \in [Maps -> Seq(DownMessage)]
<1>1. [op |-> "kick"] \in DownMessage
  BY DEF DownMessage
<1> QED BY <1>1, AppendProperties DEF KickAll, TypeOK, TypeOKMap

LEMMA TypeSelect ==
  ASSUME Fine, NEW k \in Clients, Select(k), UNCHANGED maps
  PROVE  TypeOK'
<1> PICK c \in Chars : Select(k)!(c)
  BY DEF Select
<1> DEFINE f == client[k].fd
<1>1. client[k] \in Client /\ f \in Seats /\ where[c] \in Maps
  BY DEF Fine, Players, ClientSound, TypeOK, TypeOKMap, TypeOKChar, Client, Taken
<1>2. seat[f].id \in Ids
  BY <1>1 DEF Fine, TypeOK, TypeOKChar, Seat
<1>3. client' \in [Clients -> Client]
  <2>1. client \in [Clients -> Client]
    BY DEF Fine, TypeOK, TypeOKMap
  <2>2. CASE client' = [client EXCEPT ![k].at = "go", ![k].map = where[c], ![k].char = c, ![k].fd = 0]
    BY <1>1, <2>1, <2>2 DEF Client, Place
  <2> QED BY <2>1, <2>2
<1>4. auth' \subseteq Entry
  BY <1>1, <1>2 DEF Fine, TypeOK, TypeOKChar, Entry
<1>5. down' \in [Maps -> Seq(DownMessage)]
  BY KickDown DEF Fine, TypeOK, TypeOKMap
<1> QED BY <1>3, <1>4, <1>5 DEF Fine, TypeOK, TypeOKLogin, TypeOKChar, TypeOKMap, maps, logins

LEMMA TypeCloseSeat ==
  ASSUME Fine, NEW f \in Seats, CloseSeat(f), UNCHANGED maps
  PROVE  TypeOK'
<1>1. client' \in [Clients -> Client]
  BY LoginAssumption DEF Fine, CloseSeat, TypeOK, TypeOKMap, Client, Place, Outside, Ids
<1>2. seat' \in [Seats -> Seat]
  BY LoginAssumption DEF Fine, CloseSeat, TypeOK, TypeOKChar, NoSeat, Seat, Ids
<1> QED BY <1>1, <1>2 DEF Fine, CloseSeat, TypeOK, TypeOKLogin, TypeOKChar, TypeOKMap, maps, logins

LEMMA TypeCharReceivesLogin ==
  ASSUME Fine, CharReceivesLogin, UNCHANGED maps
  PROVE  TypeOK'
<1>1. Head(toChar) \in [op : {"kick", "answer"}, id : Ids, ok : BOOLEAN] /\ Tail(toChar) \in Seq([op : {"kick", "answer"}, id : Ids, ok : BOOLEAN])
  BY HeadTailProperties DEF Fine, CharReceivesLogin, TypeOK, TypeOKLogin
<1>2. TypeOKLogin'
  BY <1>1 DEF Fine, CharReceivesLogin, TypeOK, TypeOKLogin
<1>3. CASE Revoke
  <2>1. seat' \in [Seats -> Seat]
    <3>1. \A f \in Seats : seat[f] \in Seat /\ [seat[f] EXCEPT !.revoked = TRUE] \in Seat
      BY DEF Fine, TypeOK, TypeOKChar, Seat
    <3>2. NoSeat \in Seat
      BY LoginAssumption DEF NoSeat, Seat, Ids
    <3> QED BY <1>3, <3>1, <3>2 DEF Revoke
  <2>2. down' \in [Maps -> Seq(DownMessage)]
    BY <1>3, KickDown DEF Revoke, Fine, TypeOK, TypeOKMap
  <2> QED BY <1>2, <1>3, <2>1, <2>2 DEF Revoke, CharReceivesLogin, Fine, TypeOK, TypeOKChar, TypeOKMap, maps
<1>4. CASE Answer(Head(toChar))
  <2>1. seat' \in [Seats -> Seat]
    BY <1>1, <1>4 DEF Answer, Fine, TypeOK, TypeOKChar, Seat
  <2> QED BY <1>2, <1>4, <2>1 DEF Answer, CharReceivesLogin, Fine, TypeOK, TypeOKChar, TypeOKMap, maps
<1> QED BY <1>3, <1>4 DEF CharReceivesLogin

LEMMA UpHead ==
  ASSUME TypeOK, NEW m \in Maps, up[m] # <<>>
  PROVE  Head(up[m]) \in UpMessage /\ [up EXCEPT ![m] = Tail(@)] \in [Maps -> Seq(UpMessage)]
BY HeadTailProperties DEF TypeOK, TypeOKMap

LEMMA DownHead ==
  ASSUME TypeOK, NEW m \in Maps, down[m] # <<>>
  PROVE  Head(down[m]) \in DownMessage /\ [down EXCEPT ![m] = Tail(@)] \in [Maps -> Seq(DownMessage)]
BY HeadTailProperties DEF TypeOK, TypeOKMap

LEMMA ReplyType ==
  ASSUME TypeOK, NEW m \in Maps, NEW y \in DownMessage, Reply(m, y)
  PROVE  down' \in [Maps -> Seq(DownMessage)]
BY AppendProperties DEF TypeOK, TypeOKMap, Reply

LEMMA TypeCharReceivesMap ==
  ASSUME Fine, NEW m \in Maps, CharReceivesMap(m), UNCHANGED maps
  PROVE  TypeOK'
<1> DEFINE msg == Head(up[m])
<1>0. TypeOK /\ msg \in UpMessage /\ up' \in [Maps -> Seq(UpMessage)] /\ up[m] # <<>>
  BY UpHead DEF CharReceivesMap, Fine
<1> HIDE DEF msg
<1>1. CASE Vouch(m, msg)
  <2>1. msg.op = "auth" /\ msg.id \in Ids /\ msg.char \in Chars /\ msg.to \in {0} \cup Fds /\ stored[msg.char] \in 0..MaxValue
    BY <1>0, <1>1, UpFields DEF Vouch, TypeOK, TypeOKChar
  <2>2. /\ [op |-> "ok", char |-> msg.char, value |-> stored[msg.char], to |-> msg.to] \in DownMessage
        /\ [op |-> "fail", to |-> msg.to] \in DownMessage
    BY <2>1 DEF DownMessage
  <2>3. down' \in [Maps -> Seq(DownMessage)]
    BY <1>0, <1>1, <2>2, ReplyType DEF Vouch
  <2> QED BY <1>0, <1>1, <2>3 DEF Vouch, CharReceivesMap, TypeOK, TypeOKLogin, TypeOKChar, TypeOKMap, maps, logins
<1>2. CASE Save(m, msg)
  <2>1. msg.op = "save" /\ msg.char \in Chars /\ msg.value \in 0..MaxValue /\ msg.map \in Maps /\ msg.final \in 0..3
    BY <1>0, <1>2, UpFields DEF Save
  <2>2. msg.final > 0 => [op |-> "saved", final |-> msg.final, map |-> msg.map] \in DownMessage
    BY <2>1 DEF DownMessage
  <2>3. down' \in [Maps -> Seq(DownMessage)]
    <3>1. CASE msg.final > 0
      BY <1>0, <1>2, <2>2, <3>1, ReplyType DEF Save
    <3>2. CASE ~(msg.final > 0)
      BY <1>0, <1>2, <3>2 DEF Save, TypeOK, TypeOKMap
    <3> QED BY <3>1, <3>2
  <2> QED BY <1>0, <1>2, <2>1, <2>3 DEF Save, CharReceivesMap, TypeOK, TypeOKLogin, TypeOKChar, TypeOKMap, maps, logins
<1>3. CASE SendOn(m, msg)
  <2>1. /\ msg.op = "select" => msg.id \in Ids
        /\ msg.op = "move" => msg.id \in Ids /\ msg.char \in Chars /\ msg.map \in Maps
    BY <1>0, UpFields
  <2>2. /\ [op |-> "selectok"] \in DownMessage
        /\ msg.op = "move" => [op |-> "moved", char |-> msg.char, map |-> msg.map] \in DownMessage
    BY <2>1 DEF DownMessage
  <2>3. down' \in [Maps -> Seq(DownMessage)]
    BY <1>0, <1>3, <2>2, ReplyType DEF SendOn
  <2>4. auth' \subseteq Entry
    BY <1>0, <1>3, <2>1 DEF SendOn, TypeOK, TypeOKChar, Entry
  <2>5. crossed' \in BOOLEAN
    BY <1>0, <1>3 DEF SendOn, TypeOK, TypeOKChar
  <2> QED BY <1>0, <1>3, <2>3, <2>4, <2>5 DEF SendOn, CharReceivesMap, TypeOK, TypeOKLogin, TypeOKChar, TypeOKMap, maps, logins
<1>4. CASE Gone(m, msg)
  BY <1>0, <1>4 DEF Gone, CharReceivesMap, TypeOK, TypeOKLogin, TypeOKChar, TypeOKMap, maps, logins
<1> QED BY <1>1, <1>2, <1>3, <1>4 DEF CharReceivesMap, msg

LEMMA SendType ==
  ASSUME TypeOK, NEW m \in Maps, NEW msgs \in Seq(UpMessage), up' = [up EXCEPT ![m] = @ \o msgs]
  PROVE  up' \in [Maps -> Seq(UpMessage)]
BY ConcatProperties DEF TypeOK, TypeOKMap

LEMMA SaveType ==
  ASSUME NEW s \in Session, s.char \in Chars, s.dest \in Maps, NEW final \in 0..3
  PROVE  SaveOf(s, final) \in Seq(UpMessage)
<1>1. [op |-> "save", char |-> s.char, value |-> s.val, map |-> s.dest, final |-> final] \in UpMessage
  BY DEF UpMessage, Session
<1> QED BY <1>1 DEF SaveOf

LEMMA LastWordsType ==
  ASSUME NEW s \in Session, s.char \in Chars, s.dest \in Maps
  PROVE  LastWords(s) \in Seq(UpMessage)
<1>1. [op |-> "gone"] \in UpMessage
  BY DEF UpMessage
<1>2. <<[op |-> "gone"]>> \in Seq(UpMessage) /\ <<>> \in Seq(UpMessage)
  BY <1>1
<1>3. SaveOf(s, 1) \in Seq(UpMessage)
  BY SaveType
<1>4. (IF s.twin # -1 THEN SaveOf(s, 1) ELSE <<>>) \in Seq(UpMessage)
  BY <1>2, <1>3
<1> QED BY <1>2, <1>4, ConcatProperties DEF LastWords

LEMMA SessionFields ==
  ASSUME Fine, NEW m \in Maps, NEW f \in Fds
  PROVE  /\ sess[m][f] \in Session
         /\ sess[m][f].val \in 0..MaxValue /\ sess[m][f].id \in Ids /\ sess[m][f].twin \in {-1, 0} \cup Fds
         /\ f \in Here(m) => sess[m][f].char \in Chars /\ sess[m][f].dest \in Maps
         /\ f \in Here(m) <=> sess[m][f] # NoSession
         /\ sess[m][f].auth => f \in Here(m)
         /\ f \in Playing(m) => f \in Here(m)
<1>1. sess[m][f] \in Session
  BY DEF Fine, TypeOK, TypeOKMap
<1>2. sess[m][f].val \in 0..MaxValue /\ sess[m][f].id \in Ids /\ sess[m][f].twin \in {-1, 0} \cup Fds
  BY <1>1 DEF Session
<1>3. f \in Here(m) <=> sess[m][f] # NoSession
  BY DEF Here
<1>4. sess[m][f].auth => sess[m][f] # NoSession
  BY DEF NoSession
<1> QED BY <1>1, <1>2, <1>3, <1>4 DEF Fine, Sessions, Playing

LEMMA DoomType ==
  ASSUME TypeOK, NEW m \in Maps, NEW fds \in SUBSET Fds, Doom(m, fds)
  PROVE  doomed' \in [Maps -> SUBSET Fds]
BY DEF TypeOK, TypeOKMap, Doom

LEMMA EntryFields ==
  ASSUME Fine, NEW m \in Maps, idb[m] # 0
  PROVE  idb[m] \in Fds /\ idb[m] \in Here(m) /\ sess[m][idb[m]].twin \in {0} \cup Fds
<1>1. idb[m] \in Fds /\ idb[m] \in Here(m) /\ sess[m][idb[m]].twin # -1
  BY DEF Fine, TypeOK, TypeOKMap, EntryIsHere
<1> QED BY <1>1, SessionFields

LEMMA ClientFields ==
  ASSUME Fine, NEW k \in Clients
  PROVE  client \in [Clients -> Client] /\ client[k] \in Client /\ client[k].at \in Place /\ client[k].id \in Ids
BY DEF Fine, TypeOK, TypeOKMap, Client

LEMMA Rest ==
  ASSUME Fine, UNCHANGED <<logins, seat, where, stored>>,
         auth' = auth, online' = online, mixed' \in BOOLEAN, crossed' = crossed, drops' = drops,
         client' \in [Clients -> Client], up' \in [Maps -> Seq(UpMessage)], down' \in [Maps -> Seq(DownMessage)],
         sess' \in [Maps -> [Fds -> Session]], idb' \in [Maps -> {0} \cup Fds], doomed' \in [Maps -> SUBSET Fds],
         latest' \in [Chars -> 0..MaxValue], abandoned' \in BOOLEAN
  PROVE  TypeOK'
BY DEF Fine, TypeOK, TypeOKLogin, TypeOKChar, TypeOKMap, logins

Newcomer(c, i, n, t) == [NoSession EXCEPT !.char = c, !.id = i, !.dest = n, !.twin = t]

LEMMA NewSession ==
  ASSUME NEW c \in Chars \cup {None}, NEW i \in Ids, NEW n \in Maps \cup {None}, NEW t \in {-1, 0} \cup Fds,
         NEW s, s = Newcomer(c, i, n, t)
  PROVE  /\ s \in Session
         /\ s.char = c /\ s.id = i /\ s.dest = n /\ s.twin = t /\ ~s.auth /\ ~s.waiting
<1>1. NoSession \in Session /\ ~NoSession.auth /\ ~NoSession.waiting
  BY SeatAssumption, LoginAssumption DEF NoSession, Session, Ids
<1> QED BY <1>1 DEF Session, Newcomer

LEMMA TypeMapConnect ==
  ASSUME Fine, NEW k \in Clients, MapConnect(k)
  PROVE  TypeOK'
<1> DEFINE m == client[k].map
           c == client[k].char
           new(f) == Newcomer(c, client[k].id, m, IF idb[m] = 0 THEN 0 ELSE -1)
<1>1. PICK f \in Fds \ Here(m) :
        /\ sess' = [sess EXCEPT ![m] = IF idb[m] = 0 THEN [@ EXCEPT ![f] = new(f)]
                                       ELSE [@ EXCEPT ![f] = new(f), ![idb[m]].twin = f]]
        /\ idb' = IF idb[m] = 0 THEN [idb EXCEPT ![m] = f] ELSE idb
        /\ client' = [client EXCEPT ![k].at = "map", ![k].fd = f]
        /\ up' = [up EXCEPT ![m] = @ \o <<[op |-> "auth", id |-> client[k].id, char |-> c, to |-> f]>>]
  BY Zenon DEF MapConnect, Send, Newcomer
<1>2. client[k].at = "go" /\ UNCHANGED <<logins, chars, down, doomed, latest, abandoned, drops>>
  BY DEF MapConnect
<1>3. m \in Maps /\ c \in Chars /\ client[k].id \in Ids /\ client[k] \in Client /\ client \in [Clients -> Client]
  BY <1>2, ClientFields DEF Fine, Players, ClientSound
<1>4. client' \in [Clients -> Client]
  BY <1>1, <1>3 DEF Client, Place
<1>5. up' \in [Maps -> Seq(UpMessage)]
  <2>1. [op |-> "auth", id |-> client[k].id, char |-> c, to |-> f] \in UpMessage
    BY <1>3 DEF UpMessage
  <2>2. <<[op |-> "auth", id |-> client[k].id, char |-> c, to |-> f]>> \in Seq(UpMessage)
    BY <2>1
  <2> QED BY <1>1, <1>3, <2>2, SendType DEF Fine
<1>6. new(f) \in Session
  <2>1. c \in Chars \cup {None} /\ m \in Maps \cup {None} /\ (IF idb[m] = 0 THEN 0 ELSE -1) \in {-1, 0} \cup Fds
    BY <1>3
  <2> QED BY <1>3, <2>1, NewSession
<1> HIDE DEF new, c, m
<1>7. sess' \in [Maps -> [Fds -> Session]]
  <2>0. sess \in [Maps -> [Fds -> Session]]
    BY DEF Fine, TypeOK, TypeOKMap
  <2>1. CASE idb[m] = 0
    BY <1>1, <1>3, <1>6, <2>0, <2>1
  <2>2. CASE idb[m] # 0
    <3>1. idb[m] \in Fds /\ idb[m] # f
      BY <1>1, <1>3, <2>2, EntryFields
    <3>2. [sess[m][idb[m]] EXCEPT !.twin = f] \in Session
      <4>1. sess[m][idb[m]] \in Session /\ f \in Fds
        BY <1>3, <2>0, <3>1
      <4> QED BY <4>1 DEF Session
    <3>3. [sess[m] EXCEPT ![f] = new(f), ![idb[m]].twin = f] \in [Fds -> Session]
      BY <1>1, <1>3, <1>6, <2>0, <3>1, <3>2
    <3> QED BY <1>1, <2>0, <2>2, <3>3
  <2> QED BY <2>1, <2>2
<1>8. idb' \in [Maps -> {0} \cup Fds]
  BY <1>1 DEF Fine, TypeOK, TypeOKMap
<1> QED BY <1>2, <1>4, <1>5, <1>7, <1>8, Rest DEF Fine, TypeOK, TypeOKMap, TypeOKChar, chars

LEMMA TypeMapReceives ==
  ASSUME Fine, NEW m \in Maps, MapReceives(m)
  PROVE  TypeOK'
<1> DEFINE msg == Head(down[m])
           f   == idb[m]
<1>0. /\ TypeOK /\ msg \in DownMessage /\ down' \in [Maps -> Seq(DownMessage)]
      /\ UNCHANGED <<logins, seat, auth, online, where, stored, crossed, idb, latest, drops>>
      /\ sess \in [Maps -> [Fds -> Session]] /\ doomed \in [Maps -> SUBSET Fds]
      /\ client \in [Clients -> Client] /\ up \in [Maps -> Seq(UpMessage)]
      /\ idb \in [Maps -> {0} \cup Fds] /\ latest \in [Chars -> 0..MaxValue]
      /\ mixed \in BOOLEAN /\ abandoned \in BOOLEAN
  BY DownHead DEF MapReceives, Fine, TypeOK, TypeOKMap, TypeOKChar
<1> HIDE DEF msg
<1>e. f # 0 => /\ f \in Fds /\ sess[m][f] \in Session /\ sess[m][f].twin \in {0} \cup Fds
               /\ sess[m][f].char \in Chars /\ sess[m][f].id \in Ids /\ sess[m][f].dest \in Maps
  BY EntryFields, SessionFields
<1>1. CASE Accept(m, msg)
  <2>1. mixed' \in BOOLEAN /\ abandoned' \in BOOLEAN
    BY <1>0, <1>1 DEF Accept, Unanswered
  <2>2. doomed' \in [Maps -> SUBSET Fds]
    <3>1. f # 0 => {f} \in SUBSET Fds /\ Twins(m, f) \in SUBSET Fds
      BY <1>e DEF Twins, Here
    <3> QED BY <1>0, <1>1, <3>1, DoomType DEF Accept, Unanswered
  <2>3. sess' \in [Maps -> [Fds -> Session]]
    <3>1. CASE UNCHANGED sess
      BY <1>0, <3>1
    <3>2. CASE f # 0 /\ msg.op = "ok" /\ sess' = [sess EXCEPT ![m][f] = [@ EXCEPT !.auth = TRUE, !.waiting = FALSE, !.val = msg.value, !.dest = m]]
      <4>1. msg.value \in 0..MaxValue
        BY <1>0, <3>2, DownFields
      <4>2. [sess[m][f] EXCEPT !.auth = TRUE, !.waiting = FALSE, !.val = msg.value, !.dest = m] \in Session
        BY <1>e, <3>2, <4>1 DEF Session
      <4> QED BY <1>0, <1>e, <3>2, <4>2
    <3> QED BY <1>1, <3>1, <3>2 DEF Accept, Unanswered
  <2> QED BY <1>0, <1>1, <2>1, <2>2, <2>3, Rest DEF Accept
<1>2. CASE Refuse(m, msg)
  <2>1. mixed' \in BOOLEAN
    BY <1>0, <1>2 DEF Refuse, Unanswered
  <2>2. doomed' \in [Maps -> SUBSET Fds]
    <3>1. f # 0 => {f} \in SUBSET Fds /\ (sess[m][f].twin # 0 => {sess[m][f].twin} \in SUBSET Fds)
      BY <1>e
    <3> QED BY <1>0, <1>2, <3>1, DoomType DEF Refuse, Unanswered
  <2>3. sess' \in [Maps -> [Fds -> Session]]
    <3>1. CASE UNCHANGED sess
      BY <1>0, <3>1
    <3>2. CASE f # 0 /\ sess' = [sess EXCEPT ![m][f].twin = 0]
      <4>2. [sess[m][f] EXCEPT !.twin = 0] \in Session
        BY <1>e, <3>2 DEF Session
      <4> QED BY <1>0, <1>e, <3>2, <4>2
    <3> QED BY <1>2, <3>1, <3>2 DEF Refuse, Unanswered
  <2> QED BY <1>0, <1>2, <2>1, <2>2, <2>3, Rest DEF Refuse
<1>3. CASE Saved(m, msg)
  <2>1. up' \in [Maps -> Seq(UpMessage)]
    <3>1. f # 0 => /\ [op |-> "select", id |-> sess[m][f].id] \in UpMessage
                   /\ [op |-> "move", id |-> sess[m][f].id, char |-> sess[m][f].char, map |-> sess[m][f].dest] \in UpMessage
      BY <1>e DEF UpMessage
    <3>2. CASE up' = up
      BY <1>0, <3>2
    <3>3. CASE f # 0 /\ up' = [up EXCEPT ![m] = Append(@, [op |-> "select", id |-> sess[m][f].id])]
      BY <1>0, <3>1, <3>3, AppendProperties
    <3>4. CASE f # 0 /\ up' = [up EXCEPT ![m] = Append(@, [op |-> "move", id |-> sess[m][f].id, char |-> sess[m][f].char, map |-> sess[m][f].dest])]
      BY <1>0, <3>1, <3>4, AppendProperties
    <3> QED BY <1>3, <3>2, <3>3, <3>4 DEF Saved
  <2>2. mixed' \in BOOLEAN
    BY <1>0, <1>3 DEF Saved
  <2> QED BY <1>0, <1>3, <2>1, <2>2, Rest DEF Saved
<1>4. CASE Proceed(m, msg)
  <2>1. ASSUME NEW to, to \in [Clients -> Client], SendClient(m, f, to)
        PROVE  client' \in [Clients -> Client]
    BY <1>0, <2>1 DEF SendClient
  <2>2. client' \in [Clients -> Client]
    <3>1. [k \in Clients |-> [client[k] EXCEPT !.at = "ticket", !.map = None, !.char = None, !.fd = 0]] \in [Clients -> Client]
      <4>1. ASSUME NEW k \in Clients PROVE [client[k] EXCEPT !.at = "ticket", !.map = None, !.char = None, !.fd = 0] \in Client
        BY <1>0 DEF Client, Place
      <4> QED BY <4>1
    <3>2. msg.op = "moved" => [k \in Clients |-> [client[k] EXCEPT !.at = "go", !.map = msg.map, !.fd = 0]] \in [Clients -> Client]
      <4>1. ASSUME NEW k \in Clients, msg.op = "moved" PROVE [client[k] EXCEPT !.at = "go", !.map = msg.map, !.fd = 0] \in Client
        <5>1. msg.map \in Maps
          BY <1>0, <4>1, DownFields
        <5> QED BY <1>0, <5>1 DEF Client, Place
      <4> QED BY <4>1
    <3> QED BY <1>0, <1>4, <2>1, <3>1, <3>2 DEF Proceed
  <2>3. mixed' \in BOOLEAN
    BY <1>0, <1>4 DEF Proceed
  <2> QED BY <1>0, <1>4, <2>2, <2>3, Rest DEF Proceed
<1>5. CASE Kicked(m, msg)
  <2>1. doomed' \in [Maps -> SUBSET Fds]
    BY <1>0, <1>5 DEF Kicked, Doom, Entered
  <2> QED BY <1>0, <1>5, <2>1, Rest DEF Kicked
<1> QED BY <1>1, <1>2, <1>3, <1>4, <1>5 DEF MapReceives, msg

LEMMA TypePlay ==
  ASSUME Fine, NEW m \in Maps, NEW f \in Fds, Play(m, f)
  PROVE  TypeOK'
<1>0. /\ sess \in [Maps -> [Fds -> Session]] /\ sess[m][f] \in Session /\ sess[m][f].val \in 0..MaxValue
      /\ sess[m][f].char \in Chars /\ sess[m][f].val < MaxValue /\ f \in Playing(m)
      /\ latest \in [Chars -> 0..MaxValue]
  BY SessionFields DEF Play, Fine, TypeOK, TypeOKMap
<1>1. sess[m][f].val + 1 \in 0..MaxValue
  BY <1>0, SeatAssumption
<1>2. [sess[m][f] EXCEPT !.val = @ + 1] \in Session
  BY <1>0, <1>1 DEF Session
<1>3. sess' \in [Maps -> [Fds -> Session]]
  BY <1>0, <1>2 DEF Play
<1>4. latest' \in [Chars -> 0..MaxValue]
  BY <1>0, <1>1 DEF Play
<1> QED BY <1>3, <1>4, Rest DEF Play, Fine, TypeOK, TypeOKMap, TypeOKChar, chars

LEMMA TypeAutosave ==
  ASSUME Fine, NEW m \in Maps, Autosave(m)
  PROVE  TypeOK'
<1>1. PICK f \in Playing(m) : up' = [up EXCEPT ![m] = @ \o SaveOf(sess[m][f], 0)]
  BY DEF Autosave, Send
<1>2. f \in Fds /\ sess[m][f] \in Session /\ sess[m][f].char \in Chars /\ sess[m][f].dest \in Maps
  BY SessionFields DEF Playing
<1>3. SaveOf(sess[m][f], 0) \in Seq(UpMessage)
  BY <1>2, SaveType
<1>4. up' \in [Maps -> Seq(UpMessage)]
  BY <1>1, <1>3, SendType DEF Fine
<1> QED BY <1>4, Rest DEF Autosave, Fine, TypeOK, TypeOKMap, TypeOKChar, chars, maps

LEMMA Leaver ==
  ASSUME NEW s \in Session, NEW n \in Maps, NEW t, t = [s EXCEPT !.waiting = TRUE, !.dest = n]
  PROVE  /\ t \in Session /\ t.waiting /\ t.dest = n
         /\ t.char = s.char /\ t.id = s.id /\ t.auth = s.auth /\ t.twin = s.twin /\ t.val = s.val
BY DEF Session

LEMMA TypeLeave ==
  ASSUME Fine, NEW m \in Maps, NEW f \in Fds, NEW final \in 0..3, NEW n \in Maps, Leave(m, f, final, n)
  PROVE  TypeOK'
<1>0. /\ sess \in [Maps -> [Fds -> Session]] /\ sess[m][f] \in Session
      /\ sess[m][f].char \in Chars /\ f \in Playing(m)
  BY SessionFields DEF Leave, Fine, TypeOK, TypeOKMap
<1>1. sess' \in [Maps -> [Fds -> Session]]
  <2>1. [sess[m][f] EXCEPT !.waiting = TRUE, !.dest = n] \in Session
    BY <1>0, Leaver
  <2>2. sess' = [sess EXCEPT ![m][f].waiting = TRUE, ![m][f].dest = n]
    BY DEF Leave
  <2>3. [sess[m] EXCEPT ![f] = [sess[m][f] EXCEPT !.waiting = TRUE, !.dest = n]] \in [Fds -> Session]
    BY <1>0, <2>1
  <2>4. sess' = [sess EXCEPT ![m] = [sess[m] EXCEPT ![f] = [sess[m][f] EXCEPT !.waiting = TRUE, !.dest = n]]]
    BY <1>0, <2>2
  <2> QED BY <1>0, <2>3, <2>4
<1>2. up' \in [Maps -> Seq(UpMessage)]
  <2> DEFINE t == [sess[m][f] EXCEPT !.dest = n]
  <2>1. t \in Session /\ t.char \in Chars /\ t.dest \in Maps
    BY <1>0 DEF Session
  <2> HIDE DEF t
  <2>2. SaveOf(t, final) \in Seq(UpMessage)
    BY <2>1, SaveType
  <2>3. up' = [up EXCEPT ![m] = @ \o SaveOf(t, final)]
    BY DEF Leave, Send, t
  <2> QED BY <2>2, <2>3, SendType DEF Fine
<1> QED BY <1>1, <1>2, Rest DEF Leave, Fine, TypeOK, TypeOKMap, TypeOKChar, chars

LEMMA TypeQuitGame ==
  ASSUME Fine, NEW m \in Maps, NEW f \in Fds, QuitGame(m, f)
  PROVE  TypeOK'
<1>1. doomed' \in [Maps -> SUBSET Fds]
  <2>1. {f} \in SUBSET Fds
    OBVIOUS
  <2> QED BY <2>1, DoomType DEF QuitGame, Fine
<1> QED BY <1>1, Rest DEF QuitGame, Fine, TypeOK, TypeOKMap, TypeOKChar, chars

LEMMA OutsideType == Outside \in Client
BY LoginAssumption DEF Outside, Client, Place, Ids

LEMMA NoSessionType == NoSession \in Session
BY SeatAssumption, LoginAssumption DEF NoSession, Session, Ids

LEMMA SendClientOut ==
  ASSUME Fine, NEW m, NEW f, SendClient(m, f, [k \in Clients |-> Outside])
  PROVE  /\ client' \in [Clients -> Client]
         /\ \A k \in Clients : client'[k] = IF client[k].at = "map" /\ client[k].map = m /\ client[k].fd = f THEN Outside ELSE client[k]
BY OutsideType, ClientFields DEF SendClient

\* What becomes of the messages when connection f is closed.
ClosedUp(m, f) == NoneTo(f, up[m]) \o LastWords(sess[m][f])

LEMMA TypeClose ==
  ASSUME Fine, NEW m \in Maps, NEW f \in Fds, Close(m, f)
  PROVE  TypeOK'
<1>0. /\ sess \in [Maps -> [Fds -> Session]] /\ sess[m][f] \in Session
      /\ sess[m][f].char \in Chars /\ sess[m][f].dest \in Maps
      /\ up \in [Maps -> Seq(UpMessage)] /\ down \in [Maps -> Seq(DownMessage)]
      /\ doomed \in [Maps -> SUBSET Fds] /\ idb \in [Maps -> {0} \cup Fds]
  <2>1. f \in Here(m)
    BY DEF Close, Here
  <2> QED BY <2>1, SessionFields DEF Fine, TypeOK, TypeOKMap
<1>1. up' \in [Maps -> Seq(UpMessage)]
  <2>1. up[m] \in Seq(UpMessage) /\ down[m] \in Seq(DownMessage)
    BY <1>0
  <2>2. NoneTo(f, up[m]) \in Seq(UpMessage) /\ LastWords(sess[m][f]) \in Seq(UpMessage)
    BY <1>0, <2>1, NoneToIs, LastWordsType
  <2>3. NoneTo(f, up[m]) \o LastWords(sess[m][f]) \in Seq(UpMessage)
    BY <2>2, ConcatProperties
  <2> QED BY <1>0, <2>3 DEF Close
<1>2. down' \in [Maps -> Seq(DownMessage)]
  <2>1. up[m] \in Seq(UpMessage) /\ down[m] \in Seq(DownMessage)
    BY <1>0
  <2>2. NoneTo(f, down[m]) \in Seq(DownMessage)
    BY <2>1, NoneToIs
  <2> QED BY <1>0, <2>2 DEF Close
<1>3. sess' \in [Maps -> [Fds -> Session]]
  BY <1>0, NoSessionType DEF Close
<1>4. idb' \in [Maps -> {0} \cup Fds]
  BY <1>0 DEF Close
<1>5. doomed' \in [Maps -> SUBSET Fds]
  BY <1>0 DEF Close
<1>6. client' \in [Clients -> Client]
  BY SendClientOut DEF Close
<1> QED BY <1>1, <1>2, <1>3, <1>4, <1>5, <1>6, Rest DEF Close, Fine, TypeOK, TypeOKMap, TypeOKChar, chars

LEMMA TypeTimerSpent ==
  ASSUME Fine, NEW m \in Maps, TimerSpent(m)
  PROVE  TypeOK'
<1>1. doomed' \in [Maps -> SUBSET Fds]
  BY DEF TimerSpent, Fine, TypeOK, TypeOKMap
<1> QED BY <1>1, Rest DEF TimerSpent, Fine, TypeOK, TypeOKMap, TypeOKChar, chars

LEMMA TypeGiveUp ==
  ASSUME Fine, NEW k \in Clients, GiveUp(k)
  PROVE  TypeOK'
<1>1. client' \in [Clients -> Client]
  BY OutsideType DEF GiveUp, Fine, TypeOK, TypeOKMap
<1> QED BY <1>1, Rest DEF GiveUp, Fine, TypeOK, TypeOKMap, TypeOKChar, chars, maps

LEMMA TypeLinkBreaks ==
  ASSUME Fine, NEW m \in Maps, LinkBreaks(m)
  PROVE  TypeOK'
<1>0. /\ sess \in [Maps -> [Fds -> Session]]
      /\ up \in [Maps -> Seq(UpMessage)] /\ down \in [Maps -> Seq(DownMessage)]
      /\ idb \in [Maps -> {0} \cup Fds] /\ client \in [Clients -> Client]
      /\ stored \in [Chars -> 0..MaxValue] /\ latest \in [Chars -> 0..MaxValue]
  BY DEF Fine, TypeOK, TypeOKMap, TypeOKChar
<1>1. up' \in [Maps -> Seq(UpMessage)] /\ down' \in [Maps -> Seq(DownMessage)]
  BY <1>0 DEF LinkBreaks
<1>2. sess' \in [Maps -> [Fds -> Session]]
  <2>1. sess' = [sess EXCEPT ![m] = [f \in Fds |-> IF f \in Playing(m) THEN NoSession ELSE sess[m][f]]]
    BY DEF LinkBreaks
  <2>2. [f \in Fds |-> IF f \in Playing(m) THEN NoSession ELSE sess[m][f]] \in [Fds -> Session]
    BY <1>0, NoSessionType
  <2> QED BY <1>0, <2>1, <2>2
<1>3. idb' \in [Maps -> {0} \cup Fds]
  BY <1>0 DEF LinkBreaks
<1>4. client' \in [Clients -> Client]
  BY <1>0, OutsideType DEF LinkBreaks
<1>5. latest' \in [Chars -> 0..MaxValue]
  BY <1>0 DEF LinkBreaks
<1>6. drops' \in 0..MaxDrops
  <2>1. drops \in 0..MaxDrops /\ drops < MaxDrops /\ drops' = drops + 1
    BY DEF LinkBreaks, Fine, TypeOK, TypeOKMap
  <2> QED BY <2>1, FdAssumption
<1>7. online' \in Maps \cup {None}
  BY DEF LinkBreaks, Fine, TypeOK, TypeOKChar
<1> QED BY <1>1, <1>2, <1>3, <1>4, <1>5, <1>6, <1>7 DEF LinkBreaks, Fine, TypeOK, TypeOKLogin, TypeOKChar, TypeOKMap, logins

-----------------------------------------------------------------------------
(* Queues in which nothing new is said *)

TameHas(q, r) ==
  /\ Has(r, Chain) => Has(q, Chain)
  /\ Has(r, Saves) => Has(q, Saves)
  /\ Has(r, Partings) => Has(q, Partings)
  /\ \A i : Has(r, Auths(i)) => Has(q, Auths(i))
  /\ \A i : Has(r, Moves(i)) => Has(q, Moves(i))
  /\ \A i, c : Has(r, AuthsFor(i, c)) => Has(q, AuthsFor(i, c))
  /\ \A i, f : Has(r, AuthsTo(i, f)) => Has(q, AuthsTo(i, f))
  /\ \A f : Has(r, Asks(f)) => Has(q, Asks(f))

TameOrder(q, r) ==
  /\ Alone(q, Chain) => Alone(r, Chain)
  /\ \A i : Alone(q, Auths(i)) => Alone(r, Auths(i))
  /\ \A f : Alone(q, Asks(f)) => Alone(r, Asks(f))
  /\ Before(q, Saves, Partings) => Before(r, Saves, Partings)
  /\ Before(q, Saves \ Chain, Chain) => Before(r, Saves \ Chain, Chain)
  /\ \A f : /\ Before(q, Chain, Asks(f)) => Before(r, Chain, Asks(f))
            /\ Before(q, Partings, Asks(f)) => Before(r, Partings, Asks(f))
            /\ Before(q, Saves, Asks(f)) => Before(r, Saves, Asks(f))

Tame(q, r) == TameHas(q, r) /\ TameOrder(q, r)

NoNewAnswer(q, r) == \A f : Has(r, Answers(f)) => Has(q, Answers(f))

LEMMA SameIsTame ==
  ASSUME NEW q, NEW r, r = q
  PROVE  Tame(q, r) /\ NoNewAnswer(q, r)
BY DEF Tame, TameHas, TameOrder, NoNewAnswer

LEMMA LosesIsTame ==
  ASSUME NEW q, NEW r, NEW x, Loses(q, r, x)
  PROVE  Tame(q, r) /\ NoNewAnswer(q, r)
<1>1. \A A : Has(r, A) => Has(q, A)
  BY DEF Loses
<1>2. \A A : Alone(q, A) => Alone(r, A)
  BY DEF Loses
<1>3. \A A, B : Before(q, A, B) => Before(r, A, B)
  BY DEF Loses
<1>4. TameHas(q, r) /\ NoNewAnswer(q, r)
  BY <1>1 DEF TameHas, NoNewAnswer
<1>5. TameOrder(q, r)
  BY <1>2, <1>3 DEF TameOrder
<1> QED BY <1>4, <1>5 DEF Tame

LEMMA EmptyIsTame ==
  ASSUME NEW q
  PROVE  /\ Tame(q, <<>>) /\ NoNewAnswer(q, <<>>)
         /\ \A A : ~Has(<<>>, A)
<1>1. DOMAIN <<>> = {}
  OBVIOUS
<1>2. \A A : ~Has(<<>>, A)
  BY <1>1 DEF Has
<1>3. \A A : Alone(<<>>, A)
  BY <1>1 DEF Alone
<1>4. \A A, B : Before(<<>>, A, B)
  BY <1>1 DEF Before
<1> QED BY <1>2, <1>3, <1>4 DEF Tame, TameHas, TameOrder, NoNewAnswer

\* A message of no class, or of all classes of the one it replaces.
Silent(y) ==
  /\ y \notin Chain /\ y \notin Saves /\ y \notin Partings
  /\ \A i : y \notin Auths(i) /\ y \notin Moves(i)
  /\ \A i, c : y \notin AuthsFor(i, c)
  /\ \A i, f : y \notin AuthsTo(i, f)
  /\ \A f : y \notin Asks(f) /\ y \notin Answers(f)

LEMMA LetsInIsTame ==
  ASSUME NEW q, NEW r, NEW y, LetsIn(q, r, y), Silent(y)
  PROVE  Tame(q, r) /\ NoNewAnswer(q, r)
<1>1. \A A : y \notin A => (Has(r, A) => Has(q, A))
  BY DEF LetsIn
<1>2. \A A : Alone(q, A) /\ y \notin A => Alone(r, A)
  BY DEF LetsIn
<1>3. \A A, B : Before(q, A, B) /\ y \notin A /\ y \notin B => Before(r, A, B)
  BY DEF LetsIn
<1>4. TameHas(q, r)
  BY <1>1 DEF TameHas, Silent
<1>5. TameOrder(q, r)
  <2>1. Alone(q, Chain) => Alone(r, Chain)
    BY <1>2 DEF Silent
  <2>2. \A i : Alone(q, Auths(i)) => Alone(r, Auths(i))
    BY <1>2 DEF Silent
  <2>3. \A f : Alone(q, Asks(f)) => Alone(r, Asks(f))
    BY <1>2 DEF Silent
  <2>4. Before(q, Saves, Partings) => Before(r, Saves, Partings)
    BY <1>3 DEF Silent
  <2>5. Before(q, Saves \ Chain, Chain) => Before(r, Saves \ Chain, Chain)
    BY <1>3 DEF Silent
  <2>6. \A f : /\ Before(q, Chain, Asks(f)) => Before(r, Chain, Asks(f))
               /\ Before(q, Partings, Asks(f)) => Before(r, Partings, Asks(f))
               /\ Before(q, Saves, Asks(f)) => Before(r, Saves, Asks(f))
    BY <1>3 DEF Silent
  <2> QED BY <2>1, <2>2, <2>3, <2>4, <2>5, <2>6 DEF TameOrder
<1>6. NoNewAnswer(q, r)
  BY <1>1 DEF Silent, NoNewAnswer
<1> QED BY <1>4, <1>5, <1>6 DEF Tame

\* An answer says no more than the question did.
Echo(x, y) ==
  /\ y \in Chain => x \in Chain
  /\ y \notin Saves /\ y \notin Partings
  /\ \A i : y \notin Auths(i) /\ y \notin Moves(i)
  /\ \A i, c : y \notin AuthsFor(i, c)
  /\ \A i, f : y \notin AuthsTo(i, f)
  /\ \A f : y \in Asks(f) => x \in Asks(f)

LEMMA TurnsIsTame ==
  ASSUME NEW q, NEW r, NEW x, NEW y, Turns(q, r, x, y), Echo(x, y)
  PROVE  /\ Tame(q, r)
         /\ \A f : Has(r, Answers(f)) => Has(q, Answers(f)) \/ y \in Answers(f)
<1>1. \A A : (y \in A => x \in A) => (Has(r, A) => Has(q, A))
  BY DEF Turns
<1>2. \A A : Alone(q, A) /\ (y \in A => x \in A) => Alone(r, A)
  BY DEF Turns
<1>3. \A A, B : Before(q, A, B) /\ (y \in A => x \in A) /\ (y \in B => x \in B) => Before(r, A, B)
  BY DEF Turns
<1>4. TameHas(q, r)
  BY <1>1 DEF TameHas, Echo
<1>5. TameOrder(q, r)
  <2>1. Alone(q, Chain) => Alone(r, Chain)
    BY <1>2 DEF Echo
  <2>2. \A i : Alone(q, Auths(i)) => Alone(r, Auths(i))
    BY <1>2 DEF Echo
  <2>3. \A f : Alone(q, Asks(f)) => Alone(r, Asks(f))
    BY <1>2 DEF Echo
  <2>4. Before(q, Saves, Partings) => Before(r, Saves, Partings)
    BY <1>3 DEF Echo
  <2>5. Before(q, Saves \ Chain, Chain) => Before(r, Saves \ Chain, Chain)
    BY <1>3 DEF Echo
  <2>6. \A f : /\ Before(q, Chain, Asks(f)) => Before(r, Chain, Asks(f))
               /\ Before(q, Partings, Asks(f)) => Before(r, Partings, Asks(f))
               /\ Before(q, Saves, Asks(f)) => Before(r, Saves, Asks(f))
    BY <1>3 DEF Echo
  <2> QED BY <2>1, <2>2, <2>3, <2>4, <2>5, <2>6 DEF TameOrder
<1>6. \A f : Has(r, Answers(f)) => Has(q, Answers(f)) \/ y \in Answers(f)
  BY DEF Turns
<1> QED BY <1>4, <1>5, <1>6 DEF Tame

-----------------------------------------------------------------------------
(* The rings *)

LEMMA RingTypes ==
  ASSUME TypeOK, NEW m \in Maps
  PROVE  /\ down[m] \in Seq(DownMessage) /\ up[m] \in Seq(UpMessage)
         /\ down[m] \in Seq(Message) /\ up[m] \in Seq(Message)
<1>1. down[m] \in Seq(DownMessage) /\ up[m] \in Seq(UpMessage)
  BY DEF TypeOK, TypeOKMap
<1> QED BY <1>1, SeqMonotonic DEF Message

LEMMA SameRings ==
  ASSUME UNCHANGED <<up, down>>
  PROVE  \A m : Ring(m)' = Ring(m)
BY DEF Ring

LEMMA RingGivesBelow ==
  ASSUME TypeOK, NEW m \in Maps, down[m] # <<>>, down' = [down EXCEPT ![m] = Tail(@)], up' = up
  PROVE  /\ Loses(Ring(m), Ring(m)', Head(down[m]))
         /\ \A n \in Maps \ {m} : Ring(n)' = Ring(n)
<1>1. Ring(m)' = Tail(down[m]) \o up[m]
  BY DEF Ring, TypeOK, TypeOKMap
<1>2. \A n \in Maps \ {m} : Ring(n)' = Ring(n)
  BY DEF Ring, TypeOK, TypeOKMap
<1> QED BY <1>1, <1>2, RingTypes, ReceivedBelow DEF Ring

LEMMA RingGivesAbove ==
  ASSUME TypeOK, NEW m \in Maps, up[m] # <<>>, up' = [up EXCEPT ![m] = Tail(@)], down' = down
  PROVE  /\ Loses(Ring(m), Ring(m)', Head(up[m]))
         /\ \A n \in Maps \ {m} : Ring(n)' = Ring(n)
<1>1. Ring(m)' = down[m] \o Tail(up[m])
  BY DEF Ring, TypeOK, TypeOKMap
<1>2. \A n \in Maps \ {m} : Ring(n)' = Ring(n)
  BY DEF Ring, TypeOK, TypeOKMap
<1> QED BY <1>1, <1>2, RingTypes, ReceivedAbove DEF Ring

LEMMA RingAnswers ==
  ASSUME TypeOK, NEW m \in Maps, up[m] # <<>>, up' = [up EXCEPT ![m] = Tail(@)],
         NEW y \in DownMessage, Reply(m, y)
  PROVE  /\ Turns(Ring(m), Ring(m)', Head(up[m]), y)
         /\ \A n \in Maps \ {m} : Ring(n)' = Ring(n)
<1>1. Ring(m)' = Append(down[m], y) \o Tail(up[m])
  BY DEF Ring, TypeOK, TypeOKMap, Reply
<1>2. \A n \in Maps \ {m} : Ring(n)' = Ring(n)
  BY DEF Ring, TypeOK, TypeOKMap, Reply
<1>3. y \in Message
  BY DEF Message
<1> QED BY <1>1, <1>2, <1>3, RingTypes, Answered DEF Ring

LEMMA RingSays ==
  ASSUME TypeOK, NEW m \in Maps, NEW y \in UpMessage, up' = [up EXCEPT ![m] = @ \o <<y>>], down' = down
  PROVE  /\ Gains(Ring(m), Ring(m)', y)
         /\ \A n \in Maps \ {m} : Ring(n)' = Ring(n)
<1>1. Ring(m)' = down[m] \o (up[m] \o <<y>>)
  BY DEF Ring, TypeOK, TypeOKMap
<1>2. \A n \in Maps \ {m} : Ring(n)' = Ring(n)
  BY DEF Ring, TypeOK, TypeOKMap
<1>3. y \in Message
  BY DEF Message
<1>4. up[m] \o <<y>> = Append(up[m], y)
  BY <1>3, RingTypes, AppendIsConcat
<1> QED BY <1>1, <1>2, <1>3, <1>4, RingTypes, Said DEF Ring

\* The map server gets a message and goes on.
LEMMA RingGoesOn ==
  ASSUME TypeOK, NEW m \in Maps, down[m] # <<>>, down' = [down EXCEPT ![m] = Tail(@)],
         NEW y \in UpMessage, up' = [up EXCEPT ![m] = Append(@, y)]
  PROVE  /\ \E r : Loses(Ring(m), r, Head(down[m])) /\ Gains(r, Ring(m)', y)
         /\ \A n \in Maps \ {m} : Ring(n)' = Ring(n)
<1> DEFINE r == Tail(down[m]) \o up[m]
<1>1. Ring(m)' = Tail(down[m]) \o Append(up[m], y)
  BY DEF Ring, TypeOK, TypeOKMap
<1>2. \A n \in Maps \ {m} : Ring(n)' = Ring(n)
  BY DEF Ring, TypeOK, TypeOKMap
<1>3. y \in Message /\ Tail(down[m]) \in Seq(Message)
  BY RingTypes, HeadTailProperties DEF Message
<1>4. Loses(Ring(m), r, Head(down[m]))
  BY RingTypes, ReceivedBelow DEF Ring
<1>5. Gains(r, Ring(m)', y)
  BY <1>1, <1>3, RingTypes, Said
<1> QED BY <1>2, <1>4, <1>5

LEMMA KickIsSilent == Silent([op |-> "kick"])
BY DEF Silent, Chain, Saves, Partings, Auths, Moves, AuthsFor, AuthsTo, Asks, Answers

\* Kicks disturb nobody.
LEMMA RingKicked ==
  ASSUME TypeOK, up' = up, down' \in {down, KickAll}, NEW m \in Maps
  PROVE  LetsIn(Ring(m), Ring(m)', [op |-> "kick"]) \/ Ring(m)' = Ring(m)
<1>1. CASE down' = down
  BY <1>1 DEF Ring
<1>2. CASE down' = KickAll
  <2>1. Ring(m)' = Append(down[m], [op |-> "kick"]) \o up[m]
    BY <1>2 DEF Ring, KickAll
  <2>2. [op |-> "kick"] \in Message
    BY KickDown DEF Message
  <2> QED BY <2>1, <2>2, RingTypes, LetIn DEF Ring
<1> QED BY <1>1, <1>2

-----------------------------------------------------------------------------
(* Steps that leave the parts of the invariant alone *)

RingsTame == \A m \in Maps : Tame(Ring(m), Ring(m)')

\* A client that moved has another login, or was on no map server.
ClientsKeep ==
  \A k \in Clients : \/ client'[k] = client[k]
                     \/ client'[k].id \notin Logins
                     \/ client'[k].id = client[k].id /\ client[k].at # "map"

\* Sessions end, but none begins or is accepted.
SessionsKeep ==
  \A m \in Maps :
    /\ idb'[m] \in {0, idb[m]}
    /\ \A f \in Here(m)' : /\ f \in Here(m)
                           /\ sess'[m][f].auth = sess[m][f].auth
                           /\ sess'[m][f].waiting = sess[m][f].waiting
                           /\ sess'[m][f].id = sess[m][f].id

LEMMA SessionsOfKept ==
  ASSUME SessionsKeep, NEW m \in Maps
  PROVE  /\ \A f \in Fds : sess'[m][f].auth => sess[m][f].auth
         /\ Playing(m)' \subseteq Playing(m)
<1>1. \A f \in Fds : sess'[m][f].auth => f \in Here(m)'
  BY DEF Here, NoSession
<1>2. \A f \in Fds : sess'[m][f].auth => sess[m][f].auth
  BY <1>1 DEF SessionsKeep
<1>3. Playing(m)' \subseteq Playing(m)
  BY <1>1 DEF SessionsKeep, Playing
<1> QED BY <1>2, <1>3

LEMMA KeepsAskedByOwner ==
  ASSUME AskedByOwner, Fine, Letters, ClientsKeep, RingsTame
  PROVE  AskedByOwner'
<1> SUFFICES ASSUME NEW m \in Maps, NEW k \in Clients, NEW f \in {0} \cup Fds, Has(Ring(m)', AuthsTo(client'[k].id, f)),
                    client'[k].id \in Ids
             PROVE  client'[k].at = "map" /\ client'[k].map = m /\ client'[k].fd = f
  <2>1. ASSUME NEW q, NEW i, NEW f, Has(q, AuthsTo(i, f)) PROVE i \in Ids
    BY <2>1, UpFields, DownFields DEF Has, AuthsTo, Message
  <2> QED BY <2>1 DEF AskedByOwner
<1>1. Has(Ring(m), AuthsTo(client'[k].id, f))
  BY DEF RingsTame, Tame, TameHas
<1>2. Has(Ring(m), Auths(client'[k].id))
  BY <1>1 DEF Has, AuthsTo, Auths
<1>3. client'[k].id \in Logins
  BY <1>2 DEF Letters
<1>4. client'[k].id = client[k].id => client[k].at = "map" /\ client[k].map = m /\ client[k].fd = f
  BY <1>1 DEF AskedByOwner
<1> QED BY <1>3, <1>4 DEF ClientsKeep

LEMMA KeepsAskedOnce ==
  ASSUME AskedOnce, RingsTame
  PROVE  AskedOnce'
BY DEF AskedOnce, RingsTame, Tame, TameHas, TameOrder

LEMMA KeepsAnsweredOnce ==
  ASSUME AnsweredOnce, SessionsKeep, RingsTame
  PROVE  AnsweredOnce'
BY SessionsOfKept DEF AnsweredOnce, RingsTame, Tame, TameHas, TameOrder

LEMMA KeepsAsksLast ==
  ASSUME AsksLast, SessionsKeep, RingsTame
  PROVE  AsksLast'
BY DEF AsksLast, SessionsKeep, RingsTame, Tame, TameOrder

LEMMA KeepsOrder ==
  ASSUME Order, SessionsKeep, RingsTame
  PROVE  Order'
<1> SUFFICES ASSUME NEW m \in Maps
             PROVE  /\ Alone(Ring(m)', Chain)
                    /\ Before(Ring(m)', Saves, Partings)
                    /\ Before(Ring(m)', Saves \ Chain, Chain)
                    /\ Playing(m)' # {} => ~Has(Ring(m)', Chain)
                    /\ (\E f \in Fds : sess'[m][f].auth) => ~Has(Ring(m)', Partings)
  BY DEF Order
<1>1. Alone(Ring(m)', Chain) /\ Before(Ring(m)', Saves, Partings) /\ Before(Ring(m)', Saves \ Chain, Chain)
  BY DEF Order, RingsTame, Tame, TameOrder
<1>2. (Has(Ring(m)', Chain) => Has(Ring(m), Chain)) /\ (Has(Ring(m)', Partings) => Has(Ring(m), Partings))
  BY DEF RingsTame, Tame, TameHas
<1>3. Playing(m)' # {} => ~Has(Ring(m)', Chain)
  BY <1>2, SessionsOfKept DEF Order
<1>4. (\E f \in Fds : sess'[m][f].auth) => ~Has(Ring(m)', Partings)
  BY <1>2, SessionsOfKept DEF Order
<1> QED BY <1>1, <1>3, <1>4

LEMMA KeepsActive ==
  ASSUME SessionsKeep, RingsTame, NEW m \in Maps, NEW f \in Here(m)', Active(m, f)'
  PROVE  Active(m, f) /\ f \in Here(m) /\ sess'[m][f].id = sess[m][f].id
BY DEF SessionsKeep, RingsTame, Tame, TameHas, Active

LEMMA KeepsOwnerIsHere ==
  ASSUME OwnerIsHere, Fine, ClientsKeep, SessionsKeep, RingsTame
  PROVE  OwnerIsHere'
<1> SUFFICES ASSUME NEW m \in Maps, NEW f \in Here(m)', NEW k \in Clients, Active(m, f)', client'[k].id = sess'[m][f].id
             PROVE  client'[k].at = "map" /\ client'[k].map = m /\ client'[k].fd = f
  BY DEF OwnerIsHere
<1>1. Active(m, f) /\ f \in Here(m) /\ client'[k].id = sess[m][f].id
  BY KeepsActive
<1>2. client'[k].id \in Logins
  BY <1>1 DEF Fine, Sessions
<1>3. ASSUME client[k].id = sess[m][f].id PROVE client[k].at = "map" /\ client[k].map = m /\ client[k].fd = f
  BY <1>1, <1>3 DEF OwnerIsHere
<1> QED BY <1>1, <1>2, <1>3 DEF ClientsKeep

LEMMA KeepsAsksForItself ==
  ASSUME AsksForItself, SessionsKeep, RingsTame
  PROVE  AsksForItself'
<1> SUFFICES ASSUME NEW m \in Maps, NEW n \in Maps, NEW f \in Here(m)', NEW g \in {0} \cup Fds,
                    Active(m, f)', Has(Ring(n)', AuthsTo(sess'[m][f].id, g))
             PROVE  n = m /\ g = f
  BY DEF AsksForItself
<1>1. Active(m, f) /\ f \in Here(m) /\ sess'[m][f].id = sess[m][f].id
  BY KeepsActive
<1>2. Has(Ring(n), AuthsTo(sess[m][f].id, g))
  BY <1>1 DEF RingsTame, Tame, TameHas
<1> QED BY <1>1, <1>2 DEF AsksForItself

LEMMA KeepsMoverStays ==
  ASSUME MoverStays, Letters, ClientsKeep, RingsTame
  PROVE  MoverStays'
<1> SUFFICES ASSUME NEW m \in Maps, NEW i \in Ids, Has(Ring(m)', Moves(i))
             PROVE  /\ \A n \in Maps : ~Has(Ring(n)', Auths(i))
                    /\ \A k \in Clients : client'[k].id = i => client'[k].at = "map" /\ client'[k].map = m
  BY DEF MoverStays
<1>1. Has(Ring(m), Moves(i))
  BY DEF RingsTame, Tame, TameHas
<1>2. \A n \in Maps : ~Has(Ring(n)', Auths(i))
  BY <1>1 DEF MoverStays, RingsTame, Tame, TameHas
<1>3. i \in Logins
  BY <1>1 DEF Letters
<1>4. \A k \in Clients : client[k].id = i => client[k].at = "map" /\ client[k].map = m
  BY <1>1 DEF MoverStays
<1> QED BY <1>2, <1>3, <1>4 DEF ClientsKeep

LEMMA KeepsBusy ==
  ASSUME SessionsKeep, Fine, Fine', NEW m \in Maps, Tame(Ring(m), Ring(m)'), NoNewAnswer(Ring(m), Ring(m)'), Busy(m)'
  PROVE  Busy(m)
<1>1. CASE Has(Ring(m)', Saves)
  BY <1>1 DEF Busy, Tame, TameHas
<1>2. CASE Live(m)'
  <2>1. idb'[m] # 0 /\ idb'[m] = idb[m] /\ idb'[m] \in Here(m)'
    BY <1>2 DEF Live, SessionsKeep, Fine, EntryIsHere
  <2>2. CASE Has(Ring(m)', Answers(idb'[m]))
    BY <2>1, <2>2 DEF NoNewAnswer, Busy, Live
  <2>3. CASE sess'[m][idb'[m]].auth /\ Active(m, idb[m])'
    BY <2>1, <2>3 DEF SessionsKeep, Busy, Live, Active, Tame, TameHas
  <2> QED BY <1>2, <2>1, <2>2, <2>3 DEF Live
<1> QED BY <1>1, <1>2 DEF Busy

\* Nobody attempts what was not attempted.
AttemptsKeep == \A k \in Clients : client'[k].at = "go" => client'[k] = client[k]

LEMMA KeepsAttempt ==
  ASSUME AttemptsKeep, NEW m \in Maps, TameHas(Ring(m), Ring(m)'), NEW i, NEW c, Attempt(i, c, m)'
  PROVE  Attempt(i, c, m)
BY DEF AttemptsKeep, TameHas, Attempt

LEMMA KeepsOneLogin ==
  ASSUME OneLogin, ForMap(auth') \subseteq ForMap(auth)
  PROVE  OneLogin'
BY DEF OneLogin

LEMMA KeepsAttemptsFollow ==
  ASSUME AttemptsFollow, AttemptsKeep, RingsTame, ForMap(auth') \subseteq ForMap(auth),
         \A n \in Maps : Busy(n)' => Busy(n)
  PROVE  AttemptsFollow'
<1> SUFFICES ASSUME NEW e \in ForMap(auth'), NEW m \in Maps, NEW n \in Maps, Attempt(e.id, e.char, m)', Busy(n)'
             PROVE  n = m
  BY DEF AttemptsFollow
<1>1. Attempt(e.id, e.char, m)
  BY KeepsAttempt DEF RingsTame, Tame
<1> QED BY <1>1 DEF AttemptsFollow

-----------------------------------------------------------------------------
(* The invariant *)

Names == OneLogin /\ AttemptsFollow /\ BusyIsOnline

Paths == /\ SeatIsOwn /\ AskedByOwner /\ AskedOnce /\ AnsweredOnce /\ AsksLast /\ Order
         /\ OwnerIsHere /\ AsksForItself /\ MoverStays

IInv == Shape /\ (Sound => Paths /\ Names)

\* Nobody takes a seat or changes its login.
SeatsKeep ==
  \A k \in Clients : client'[k].at = "char" => client'[k] = client[k] /\ seat'[client[k].fd].id = seat[client[k].fd].id

LEMMA KeepsSeatIsOwn ==
  ASSUME SeatIsOwn, SeatsKeep
  PROVE  SeatIsOwn'
BY DEF SeatIsOwn, SeatsKeep

LEMMA KeepsPaths ==
  ASSUME Shape, Paths, SeatsKeep, ClientsKeep, SessionsKeep, RingsTame
  PROVE  Paths'
BY KeepsSeatIsOwn, KeepsAskedByOwner, KeepsAskedOnce, KeepsAnsweredOnce, KeepsAsksLast, KeepsOrder,
   KeepsOwnerIsHere, KeepsAsksForItself, KeepsMoverStays DEF Paths, Shape, Fine

LEMMA KeepsNames ==
  ASSUME Shape, Shape', Names, AttemptsKeep, SessionsKeep, RingsTame, ForMap(auth') \subseteq ForMap(auth),
         \A m \in Maps : NoNewAnswer(Ring(m), Ring(m)'), online' = online
  PROVE  Names'
<1>1. \A n \in Maps : Busy(n)' => Busy(n)
  BY KeepsBusy DEF Shape, Fine, RingsTame
<1>2. BusyIsOnline'
  BY <1>1 DEF Names, BusyIsOnline
<1> QED BY <1>1, <1>2, KeepsOneLogin, KeepsAttemptsFollow DEF Names

-----------------------------------------------------------------------------
(* Steps of the login server and of the char server *)

LEMMA KeepsShape ==
  ASSUME Shape, TypeOK', UNCHANGED <<sess, idb>>, lastId' \in {lastId, lastId + 1}, RingsTame
  PROVE  /\ EntryIsHere' /\ AuthIsEntry' /\ Sessions' /\ Letters'
         /\ Logins \subseteq Logins'
         /\ \A m : Here(m)' = Here(m)
<1>0. Logins \subseteq Logins'
  BY LoginAssumption DEF Logins, Shape, TypeOK, TypeOKLogin, Ids
<1>1. \A m : Here(m)' = Here(m)
  BY DEF Here
<1>2. EntryIsHere' /\ AuthIsEntry'
  BY <1>1 DEF Shape, EntryIsHere, AuthIsEntry
<1>3. Sessions'
  BY <1>0, <1>1 DEF Shape, Sessions
<1>4. Letters'
  BY <1>0, <1>1 DEF Shape, Letters, RingsTame, Tame, TameHas
<1> QED BY <1>0, <1>1, <1>2, <1>3, <1>4

LEMMA SessionsUnchanged ==
  ASSUME UNCHANGED <<sess, idb>>
  PROVE  SessionsKeep
BY DEF SessionsKeep, Here

LEMMA RingsUnchanged ==
  ASSUME UNCHANGED <<up, down>>
  PROVE  RingsTame /\ \A m \in Maps : NoNewAnswer(Ring(m), Ring(m)')
BY SameRings, SameIsTame DEF RingsTame

LEMMA RingsKicked ==
  ASSUME TypeOK, up' = up, down' \in {down, KickAll}
  PROVE  RingsTame /\ \A m \in Maps : NoNewAnswer(Ring(m), Ring(m)')
BY RingKicked, KickIsSilent, LetsInIsTame, SameIsTame DEF RingsTame

\* Steps in which no client does anything and no connection is touched
LEMMA Idle ==
  ASSUME IInv, TypeOK', UNCHANGED <<client, lastId, sess, idb, online>>, RingsTame,
         \A m \in Maps : NoNewAnswer(Ring(m), Ring(m)'),
         Sound' => Sound,
         ForMap(auth') \subseteq ForMap(auth),
         \A f \in Taken : f \in Taken' /\ (Sound' => seat'[f].id = seat[f].id)
  PROVE  IInv'
<1>1. Shape
  BY DEF IInv
<1>2. /\ EntryIsHere' /\ AuthIsEntry' /\ Sessions' /\ Letters' /\ Logins' = Logins
      /\ \A m : Here(m)' = Here(m)
  BY <1>1, KeepsShape DEF Logins
<1>3. Players'
  BY <1>1, <1>2 DEF Shape, Players, ClientSound
<1>4. OneEach'
  BY <1>1 DEF Shape, OneEach
<1>5. Shape'
  BY <1>2, <1>3, <1>4 DEF Shape
<1>6. ASSUME Sound' PROVE Paths' /\ Names'
  <2>1. Paths /\ Names
    BY <1>6 DEF IInv
  <2>2. SeatsKeep
    BY <1>1, <1>6 DEF SeatsKeep, Shape, Players, ClientSound
  <2>3. ClientsKeep /\ AttemptsKeep
    BY DEF ClientsKeep, AttemptsKeep
  <2> QED BY <1>1, <1>5, <2>1, <2>2, <2>3, SessionsUnchanged, KeepsPaths, KeepsNames
<1> QED BY <1>5, <1>6 DEF IInv

\* Steps of clients on their way, up to the choice of a character
LEMMA OnTheWay ==
  ASSUME IInv, TypeOK', UNCHANGED <<sess, idb, online>>, RingsTame,
         \A m \in Maps : NoNewAnswer(Ring(m), Ring(m)'),
         Sound' => Sound, lastId' \in {lastId, lastId + 1},
         ForMap(auth') \subseteq ForMap(auth),
         ClientsKeep, Players', OneEach',
         AttemptsKeep, SeatsKeep \/ SeatIsOwn'
  PROVE  IInv'
<1>1. Shape
  BY DEF IInv
<1>2. Shape'
  BY <1>1, KeepsShape DEF Shape
<1>3. ASSUME Sound' PROVE Paths' /\ Names'
  <2>1. Paths /\ Names
    BY <1>3 DEF IInv
  <2>2. Names'
    BY <1>1, <1>2, <2>1, SessionsUnchanged, KeepsNames
  <2>3. CASE SeatsKeep
    BY <1>1, <2>1, <2>2, <2>3, SessionsUnchanged, KeepsPaths
  <2>4. CASE SeatIsOwn'
    BY <1>1, <2>1, <2>2, <2>4, SessionsUnchanged, KeepsAskedByOwner, KeepsAskedOnce, KeepsAnsweredOnce,
       KeepsAsksLast, KeepsOrder, KeepsOwnerIsHere, KeepsAsksForItself, KeepsMoverStays DEF Paths, Shape, Fine
  <2> QED BY <2>3, <2>4
<1> QED BY <1>2, <1>3 DEF IInv

LEMMA ClientStaysSound ==
  ASSUME Players, NEW k \in Clients, client'[k] \in {client[k], Outside},
         Logins \subseteq Logins', Taken \subseteq Taken', \A m \in Maps : Here(m) \subseteq Here(m)'
  PROVE  ClientSound(k)'
<1>1. ClientSound(k)
  BY DEF Players
<1>2. CASE client'[k] = client[k]
  BY <1>1, <1>2 DEF ClientSound
<1>3. CASE client'[k] = Outside
  BY <1>3 DEF ClientSound, Outside
<1> QED BY <1>2, <1>3

LEMMA StepLogin ==
  ASSUME IInv, NEW k \in Clients, Login(k), OnlyLogin
  PROVE  IInv'
<1>1. Fine /\ Shape
  BY DEF IInv, Shape, Fine
<1>2. TypeOK'
  BY <1>1, TypeLogin
<1>3. UNCHANGED <<sess, idb, online, auth, seat, up, down, mixed, crossed>> /\ (Sound' => Sound)
  BY DEF OnlyLogin, chars, maps, Sound
<1>4. CASE UNCHANGED <<client, lastId>>
  <2>1. \A f \in Taken : f \in Taken' /\ seat'[f].id = seat[f].id
    BY <1>3 DEF Taken
  <2> QED BY <1>2, <1>3, <1>4, <2>1, RingsUnchanged, Idle
<1>5. CASE /\ client' = [client EXCEPT ![k].at = "ticket", ![k].id = lastId + 1]
           /\ lastId' = lastId + 1
  <2>1. /\ client[k] = Outside
        /\ client'[k].at = "ticket" /\ client'[k].id = lastId + 1
        /\ \A l \in Clients \ {k} : client'[l] = client[l]
    BY <1>1, <1>5, ClientFields DEF Login, Shape, Players, ClientSound, Client
  <2>2. lastId \in Nat /\ Logins' = 1..(lastId + 1) /\ Logins = 1..lastId
    BY <1>1, <1>5, LoginAssumption DEF Shape, TypeOK, TypeOKLogin, Ids, Logins
  <2>3. ClientsKeep /\ AttemptsKeep /\ SeatsKeep
    BY <1>3, <2>1, <2>2 DEF ClientsKeep, AttemptsKeep, SeatsKeep
  <2>4. OneEach'
    <3>1. \A l \in Clients : client[l].id # lastId + 1
      BY <1>1, <2>2 DEF Shape, Players, ClientSound, Outside
    <3> QED BY <1>1, <2>1, <3>1 DEF OneEach, Shape
  <2>5. Players'
    <3>1. \A m : Here(m)' = Here(m)
      BY <1>3 DEF Here
    <3>2. Taken' = Taken
      BY <1>3 DEF Taken
    <3> QED BY <1>1, <2>1, <2>2, <3>1, <3>2 DEF Players, ClientSound, Shape
  <2> QED BY <1>2, <1>3, <1>5, <2>3, <2>4, <2>5, RingsUnchanged, OnTheWay
<1> QED BY <1>4, <1>5 DEF Login

LEMMA StepForget ==
  ASSUME IInv, Forget
  PROVE  IInv'
<1>1. Fine
  BY DEF IInv, Shape, Fine
<1>2. TypeOK'
  BY <1>1, TypeForgetTicket, TypeForgetEntry DEF Forget
<1>3. /\ UNCHANGED <<client, lastId, sess, idb, online, up, down, seat, mixed, crossed>>
      /\ auth' \subseteq auth
  BY DEF Forget, ForgetTicket, ForgetEntry, OnlyLogin, chars, maps, logins
<1>4. ForMap(auth') \subseteq ForMap(auth) /\ (Sound' => Sound)
  BY <1>3 DEF ForMap, Sound
<1>5. \A f \in Taken : f \in Taken' /\ seat'[f].id = seat[f].id
  BY <1>3 DEF Taken
<1> QED BY <1>2, <1>3, <1>4, <1>5, RingsUnchanged, Idle

LEMMA StepLoginReceives ==
  ASSUME IInv, LoginReceives, OnlyLogin
  PROVE  IInv'
<1>1. Fine
  BY DEF IInv, Shape, Fine
<1>2. TypeOK'
  BY <1>1, TypeLoginReceives
<1>3. UNCHANGED <<client, lastId, sess, idb, online, up, down, seat, auth, mixed, crossed>>
  BY DEF LoginReceives, OnlyLogin, chars, maps
<1>4. ForMap(auth') \subseteq ForMap(auth) /\ (Sound' => Sound)
  BY <1>3 DEF ForMap, Sound
<1>5. \A f \in Taken : f \in Taken' /\ seat'[f].id = seat[f].id
  BY <1>3 DEF Taken
<1> QED BY <1>2, <1>3, <1>4, <1>5, RingsUnchanged, Idle

LEMMA StepCharConnect ==
  ASSUME IInv, NEW k \in Clients, CharConnect(k), UNCHANGED maps
  PROVE  IInv'
<1>1. Fine /\ Shape
  BY DEF IInv, Shape, Fine
<1>2. TypeOK'
  BY <1>1, TypeCharConnect
<1> PICK f \in Seats \ Taken : CharConnect(k)!(f)
  BY DEF CharConnect
<1>3. /\ UNCHANGED <<lastId, sess, idb, online, up, down, mixed, crossed>> /\ auth' \subseteq auth
      /\ client[k].at = "ticket" /\ client' = [client EXCEPT ![k].at = "char", ![k].fd = f]
      /\ seat' = [seat EXCEPT ![f] = [id |-> client[k].id, ready |-> [id |-> client[k].id, char |-> None, use |-> "select"] \in auth, revoked |-> FALSE]]
  BY DEF maps
<1>4. ForMap(auth') \subseteq ForMap(auth) /\ (Sound' => Sound)
  BY <1>3 DEF ForMap, Sound
<1>5. /\ client'[k].at = "char" /\ client'[k].fd = f /\ client'[k].id = client[k].id /\ client[k].id \in Logins
      /\ \A l \in Clients \ {k} : client'[l] = client[l]
  BY <1>1, <1>3, ClientFields DEF Client, Shape, Players, ClientSound
<1>6. /\ seat'[f].id = client[k].id /\ \A g \in Seats \ {f} : seat'[g] = seat[g]
      /\ Taken' = Taken \cup {f}
  <2>1. seat \in [Seats -> Seat] /\ client[k].id # 0
    BY <1>1, <1>5, LoginAssumption DEF Fine, TypeOK, TypeOKChar, TypeOKLogin, Logins, Ids
  <2> QED BY <1>3, <2>1 DEF Taken, NoSeat
<1>7. ClientsKeep /\ AttemptsKeep
  BY <1>3, <1>5 DEF ClientsKeep, AttemptsKeep
<1>8. SeatIsOwn => SeatIsOwn'
  <2>1. SUFFICES ASSUME SeatIsOwn, NEW l \in Clients, client'[l].at = "char"
                 PROVE  seat'[client'[l].fd].id = client'[l].id
    BY DEF SeatIsOwn
  <2>2. CASE l = k
    BY <1>5, <1>6, <2>2
  <2>3. CASE l # k
    <3>1. client'[l] = client[l] /\ client[l].fd \in Seats \ {f}
      BY <1>1, <1>5, <2>1, <2>3 DEF Shape, Players, ClientSound, Taken
    <3> QED BY <1>6, <2>1, <3>1 DEF SeatIsOwn
  <2> QED BY <2>2, <2>3
<1>9. OneEach'
  <2>1. \A l \in Clients : client'[l].id = client[l].id
    BY <1>5
  <2> QED BY <1>1, <2>1 DEF Shape, OneEach
<1>10. Players'
  <2>1. \A m : Here(m)' = Here(m)
    BY <1>3 DEF Here
  <2>2. Logins' = Logins
    BY <1>3 DEF Logins
  <2>3. SUFFICES ASSUME NEW l \in Clients
                 PROVE  ClientSound(l)'
    BY DEF Players
  <2>4. CASE l = k
    BY <1>5, <1>6, <2>2, <2>4 DEF ClientSound
  <2>5. CASE l # k
    <3>1. client'[l] = client[l]
      BY <1>5, <2>5
    <3> QED BY <1>1, <1>6, <2>1, <2>2, <3>1, ClientStaysSound DEF Shape
  <2> QED BY <2>4, <2>5
<1>11. CASE Sound
  BY <1>2, <1>3, <1>4, <1>7, <1>8, <1>9, <1>10, <1>11, RingsUnchanged, OnTheWay DEF IInv, Paths
<1>12. CASE ~Sound
  BY <1>1, <1>2, <1>3, <1>4, <1>9, <1>10, <1>12, RingsUnchanged, KeepsShape DEF IInv, Shape
<1> QED BY <1>11, <1>12

LEMMA StepCloseSeat ==
  ASSUME IInv, NEW f \in Seats, CloseSeat(f), UNCHANGED maps
  PROVE  IInv'
<1>1. Fine /\ Shape
  BY DEF IInv, Shape, Fine
<1>2. TypeOK'
  BY <1>1, TypeCloseSeat
<1>3. /\ UNCHANGED <<lastId, sess, idb, online, up, down, auth, mixed, crossed>>
      /\ seat' = [seat EXCEPT ![f] = NoSeat]
      /\ client' = [k \in Clients |-> IF client[k].at = "char" /\ client[k].fd = f THEN Outside ELSE client[k]]
  BY DEF CloseSeat, maps, logins
<1>4. ForMap(auth') \subseteq ForMap(auth) /\ (Sound' => Sound)
  BY <1>3 DEF ForMap, Sound
<1>5. \A k \in Clients : client'[k] = Outside \/ (client'[k] = client[k] /\ ~(client[k].at = "char" /\ client[k].fd = f))
  BY <1>3
<1>6. \A g \in Seats \ {f} : seat'[g] = seat[g] /\ (g \in Taken' <=> g \in Taken)
  BY <1>1, <1>3 DEF Fine, TypeOK, TypeOKChar, Taken
<1>7. ClientsKeep /\ AttemptsKeep /\ SeatsKeep
  <2>1. Outside.id \notin Logins /\ Outside.at = "out"
    BY DEF Outside, Logins
  <2>2. ClientsKeep /\ AttemptsKeep
    BY <1>5, <2>1 DEF ClientsKeep, AttemptsKeep
  <2>3. SeatsKeep
    BY <1>1, <1>5, <1>6, <2>1 DEF SeatsKeep, Shape, Players, ClientSound, Taken
  <2> QED BY <2>2, <2>3
<1>8. OneEach'
  BY <1>1, <1>5 DEF Shape, OneEach, Outside
<1>9. Players'
  <2>1. \A m : Here(m)' = Here(m)
    BY <1>3 DEF Here
  <2>2. Logins' = Logins
    BY <1>3 DEF Logins
  <2>3. ASSUME NEW k \in Clients, client'[k] = client[k], ~(client[k].at = "char" /\ client[k].fd = f)
        PROVE  client'[k].at = "char" => client'[k].fd \in Taken'
    BY <1>1, <1>6, <2>3 DEF Players, ClientSound, Shape, Taken
  <2>4. Outside.at = "out"
    BY DEF Outside
  <2> QED BY <1>1, <1>5, <2>1, <2>2, <2>3, <2>4 DEF Players, ClientSound, Shape
<1> QED BY <1>2, <1>3, <1>4, <1>7, <1>8, <1>9, RingsUnchanged, OnTheWay

LEMMA StepCharReceivesLogin ==
  ASSUME IInv, CharReceivesLogin, UNCHANGED maps
  PROVE  IInv'
<1>1. Fine
  BY DEF IInv, Shape, Fine
<1>2. TypeOK'
  BY <1>1, TypeCharReceivesLogin
<1>3. UNCHANGED <<client, lastId, sess, idb, online, up, crossed>>
  BY DEF CharReceivesLogin, maps
<1>4. CASE Revoke
  <2>1. /\ auth' \subseteq auth /\ down' \in {down, KickAll} /\ mixed' = mixed
        /\ \A f \in Taken : seat'[f] = [seat[f] EXCEPT !.revoked = TRUE]
    BY <1>4 DEF Revoke, Taken
  <2>2. \A f \in Taken : f \in Taken' /\ seat'[f].id = seat[f].id
    <3> TAKE f \in Taken
    <3>1. seat[f] \in Seat /\ f \in Seats
      BY <1>1 DEF Fine, TypeOK, TypeOKChar, Taken
    <3>2. seat'[f].revoked /\ seat'[f].id = seat[f].id
      BY <2>1, <3>1 DEF Seat
    <3> QED BY <3>1, <3>2 DEF Taken, NoSeat
  <2>3. ForMap(auth') \subseteq ForMap(auth) /\ (Sound' => Sound)
    BY <1>3, <2>1 DEF ForMap, Sound
  <2> QED BY <1>1, <1>2, <1>3, <2>1, <2>2, <2>3, RingsKicked, Idle DEF Fine
<1>5. CASE Answer(Head(toChar))
  <2> DEFINE msg == Head(toChar)
             new == [id |-> msg.id, ready |-> TRUE, revoked |-> FALSE]
  <2>1. /\ UNCHANGED <<auth, down>>
        /\ seat' = IF Taken # {} /\ msg.ok THEN [seat EXCEPT ![Min(Taken)] = new] ELSE seat
        /\ mixed' = (mixed \/ (Taken # {} /\ msg.ok /\ seat[Min(Taken)].id # msg.id))
    BY <1>5 DEF Answer
  <2>2. \A f \in Taken : f \in Taken' /\ (Sound' => seat'[f].id = seat[f].id)
    <3> TAKE f \in Taken
    <3>1. f \in Seats /\ seat \in [Seats -> Seat] /\ seat[f] # NoSeat
      BY <1>1 DEF Fine, TypeOK, TypeOKChar, Taken
    <3>2. new # NoSeat /\ new.id = msg.id
      BY DEF NoSeat
    <3> HIDE DEF new
    <3>3. seat'[f] \in {seat[f], new}
      BY <2>1, <3>1
    <3>4. seat'[f] # NoSeat
      BY <3>1, <3>2, <3>3
    <3>5. Sound' => seat'[f].id = seat[f].id
      <4>1. CASE Taken # {} /\ msg.ok /\ Min(Taken) = f
        BY <2>1, <3>1, <3>2, <4>1 DEF Sound
      <4>2. CASE ~(Taken # {} /\ msg.ok /\ Min(Taken) = f)
        BY <2>1, <3>1, <4>2
      <4> QED BY <4>1, <4>2
    <3> QED BY <3>1, <3>4, <3>5 DEF Taken
  <2>3. ForMap(auth') \subseteq ForMap(auth) /\ (Sound' => Sound)
    BY <1>3, <2>1 DEF ForMap, Sound
  <2> QED BY <1>2, <1>3, <2>1, <2>2, <2>3, RingsUnchanged, Idle
<1> QED BY <1>4, <1>5 DEF CharReceivesLogin


-----------------------------------------------------------------------------
(* The choice of a character, and steps that concern one connection alone *)

LEMMA Calm ==
  ASSUME IInv, Shape', Sound' => Sound, ClientsKeep, AttemptsKeep, SeatsKeep, SessionsKeep, RingsTame,
         \A m \in Maps : NoNewAnswer(Ring(m), Ring(m)'), ForMap(auth') \subseteq ForMap(auth), online' = online
  PROVE  IInv'
BY KeepsPaths, KeepsNames DEF IInv

\* One session changes.
Touched(m, f, t) ==
  sess'[m][f] = t /\ \A n \in Maps, g \in Fds : n # m \/ g # f => sess'[n][g] = sess[n][g]

LEMMA TouchedSession ==
  ASSUME Shape, UNCHANGED <<idb, lastId>>, NEW m \in Maps, NEW f \in Here(m), NEW t \in Session,
         Touched(m, f, t),
         t.char = sess[m][f].char, t.id = sess[m][f].id, t.dest \in Maps,
         t.auth => idb[m] = f, idb[m] = f => t.twin # -1,
         t.waiting => t.auth, t.dest # m => t.waiting
  PROVE  /\ EntryIsHere' /\ AuthIsEntry' /\ Sessions'
         /\ \A n \in Maps : Here(n)' = Here(n)
         /\ (t.auth = sess[m][f].auth /\ t.waiting = sess[m][f].waiting => SessionsKeep)
<1>0. /\ sess \in [Maps -> [Fds -> Session]] /\ f \in Fds /\ sess[m][f].char \in Chars
      /\ sess[m][f].id \in Logins
  BY DEF Shape, TypeOK, TypeOKMap, Here, Sessions
<1>1. /\ sess'[m][f] = t
      /\ \A n \in Maps, g \in Fds : n # m \/ g # f => sess'[n][g] = sess[n][g]
  BY DEF Touched
<1>2. t # NoSession
  BY <1>0, ClientAssumption DEF NoSession
<1>3. \A n \in Maps : Here(n)' = Here(n)
  BY <1>0, <1>1, <1>2 DEF Here
<1>4. EntryIsHere'
  BY <1>1, <1>3 DEF Shape, EntryIsHere, Here
<1>5. AuthIsEntry'
  BY <1>1 DEF Shape, AuthIsEntry
<1>6. Sessions'
  <2>1. Logins' = Logins
    BY DEF Logins
  <2>2. SUFFICES ASSUME NEW n \in Maps, NEW g \in Here(n)
                 PROVE  /\ sess'[n][g].char \in Chars /\ sess'[n][g].dest \in Maps /\ sess'[n][g].id \in Logins
                        /\ sess'[n][g].waiting => sess'[n][g].auth
                        /\ sess'[n][g].dest # n => sess'[n][g].waiting
    BY <1>3, <2>1 DEF Sessions
  <2>3. CASE n = m /\ g = f
    BY <1>0, <1>1, <2>3
  <2>4. CASE n # m \/ g # f
    BY <1>1, <2>4 DEF Here, Shape, Sessions
  <2> QED BY <2>3, <2>4
<1>7. t.auth = sess[m][f].auth /\ t.waiting = sess[m][f].waiting => SessionsKeep
  <2> SUFFICES ASSUME t.auth = sess[m][f].auth, t.waiting = sess[m][f].waiting, NEW n \in Maps, NEW g \in Here(n)
               PROVE  /\ sess'[n][g].auth = sess[n][g].auth
                      /\ sess'[n][g].waiting = sess[n][g].waiting
                      /\ sess'[n][g].id = sess[n][g].id
    BY <1>3 DEF SessionsKeep
  <2>1. g \in Fds
    BY DEF Here
  <2> QED BY <1>1, <2>1
<1> QED BY <1>3, <1>4, <1>5, <1>6, <1>7

LEMMA LettersKept ==
  ASSUME Letters, Logins \subseteq Logins', RingsTame, \A n \in Maps : Here(n) \subseteq Here(n)'
  PROVE  Letters'
BY DEF Letters, RingsTame, Tame, TameHas

LEMMA PlayersKept ==
  ASSUME Players, UNCHANGED <<client, lastId>>, Taken \subseteq Taken', \A n \in Maps : Here(n) \subseteq Here(n)'
  PROVE  Players'
<1>1. Logins' = Logins
  BY DEF Logins
<1> QED BY <1>1, ClientStaysSound DEF Players

LEMMA PlayingIs ==
  ASSUME Shape, NEW m \in Maps, NEW f \in Playing(m)
  PROVE  /\ f \in Fds /\ f \in Here(m) /\ idb[m] = f /\ f # 0 /\ sess[m][f].auth /\ ~sess[m][f].waiting
         /\ sess[m][f].dest = m /\ sess[m][f].twin # -1 /\ sess[m][f] \in Session
<1>1. f \in Fds /\ sess[m][f].auth /\ ~sess[m][f].waiting
  BY DEF Playing
<1>2. f \in Here(m) /\ sess[m][f] \in Session
  BY <1>1, SessionFields DEF Shape, Fine
<1> QED BY <1>1, <1>2, FdAssumption DEF Shape, AuthIsEntry, EntryIsHere, Sessions

LEMMA StepPlay ==
  ASSUME IInv, NEW m \in Maps, NEW f \in Fds, Play(m, f)
  PROVE  IInv'
<1>1. Fine /\ Shape
  BY DEF IInv, Shape, Fine
<1>2. TypeOK'
  BY <1>1, TypePlay
<1>3. UNCHANGED <<client, lastId, idb, seat, auth, online, up, down, mixed, crossed>>
  BY DEF Play, logins, chars
<1> DEFINE t == [sess[m][f] EXCEPT !.val = @ + 1]
<1>4. /\ f \in Playing(m) /\ sess[m][f] \in Session /\ sess[m][f].dest = m /\ idb[m] = f /\ f \in Here(m)
      /\ sess[m][f].twin # -1 /\ sess[m][f].auth /\ ~sess[m][f].waiting
  BY <1>1, PlayingIs DEF Play
<1>5. /\ t \in Session /\ t.char = sess[m][f].char /\ t.id = sess[m][f].id /\ t.dest = m /\ t.auth = sess[m][f].auth
      /\ t.waiting = sess[m][f].waiting /\ t.twin = sess[m][f].twin
  <2>1. sess[m][f].val + 1 \in 0..MaxValue
    BY <1>4, SeatAssumption DEF Play, Session
  <2> QED BY <1>4, <2>1 DEF Session
<1>6. Touched(m, f, t)
  BY <1>1 DEF Play, Fine, TypeOK, TypeOKMap, Touched
<1> HIDE DEF t
<1>7. EntryIsHere' /\ AuthIsEntry' /\ Sessions' /\ SessionsKeep /\ \A n \in Maps : Here(n)' = Here(n)
  BY <1>1, <1>3, <1>4, <1>5, <1>6, TouchedSession
<1>8. RingsTame /\ \A n \in Maps : NoNewAnswer(Ring(n), Ring(n)')
  BY <1>3, RingsUnchanged
<1>9. Players' /\ Letters' /\ OneEach'
  <2>1. Logins' = Logins /\ Taken' = Taken
    BY <1>3 DEF Logins, Taken
  <2>2. Players'
    BY <1>1, <1>3, <1>7, <2>1, PlayersKept DEF Shape
  <2>3. Letters'
    BY <1>1, <1>7, <1>8, <2>1, LettersKept DEF Shape
  <2> QED BY <1>1, <1>3, <2>2, <2>3 DEF Shape, OneEach
<1>11. ClientsKeep /\ AttemptsKeep /\ SeatsKeep
  BY <1>3 DEF ClientsKeep, AttemptsKeep, SeatsKeep
<1>12. Sound' => Sound
  BY <1>3 DEF Sound
<1> QED BY <1>2, <1>3, <1>7, <1>8, <1>9, <1>11, <1>12, Calm DEF Shape

LEMMA StepDoom ==
  ASSUME IInv, TypeOK', UNCHANGED <<client, logins, chars, up, down, sess, idb>>
  PROVE  IInv'
<1>1. UNCHANGED <<lastId, seat, auth, online, mixed, crossed>>
  BY DEF logins, chars
<1>2. /\ ForMap(auth') \subseteq ForMap(auth) /\ (Sound' => Sound)
      /\ \A f \in Taken : f \in Taken' /\ seat'[f].id = seat[f].id
  BY <1>1 DEF ForMap, Sound, Taken
<1> QED BY <1>1, <1>2, RingsUnchanged, Idle

LEMMA StepQuitGame ==
  ASSUME IInv, NEW m \in Maps, NEW f \in Fds, QuitGame(m, f)
  PROVE  IInv'
BY TypeQuitGame, StepDoom DEF IInv, Shape, Fine, QuitGame

LEMMA StepTimerSpent ==
  ASSUME IInv, NEW m \in Maps, TimerSpent(m)
  PROVE  IInv'
BY TypeTimerSpent, StepDoom DEF IInv, Shape, Fine, TimerSpent

LEMMA StepGiveUp ==
  ASSUME IInv, NEW k \in Clients, GiveUp(k)
  PROVE  IInv'
<1>1. Fine /\ Shape
  BY DEF IInv, Shape, Fine
<1>2. TypeOK'
  BY <1>1, TypeGiveUp
<1>3. /\ UNCHANGED <<lastId, sess, idb, online, up, down, auth, seat, mixed, crossed>>
      /\ client' = [client EXCEPT ![k] = Outside]
  BY DEF GiveUp, maps, logins, chars
<1>4. ForMap(auth') \subseteq ForMap(auth) /\ (Sound' => Sound)
  BY <1>3 DEF ForMap, Sound
<1>5. \A l \in Clients : client'[l] \in {client[l], Outside}
  BY <1>1, <1>3, ClientFields
<1>6. Outside.id \notin Logins /\ Outside.id = 0 /\ Outside.at = "out"
  BY DEF Outside, Logins
<1>7. ClientsKeep /\ AttemptsKeep /\ SeatsKeep
  BY <1>3, <1>5, <1>6 DEF ClientsKeep, AttemptsKeep, SeatsKeep
<1>8. OneEach'
  BY <1>1, <1>5, <1>6 DEF Shape, OneEach
<1>9. Players'
  <2>1. \A m : Here(m)' = Here(m)
    BY <1>3 DEF Here
  <2>2. Logins' = Logins /\ Taken' = Taken
    BY <1>3 DEF Logins, Taken
  <2> QED BY <1>1, <1>5, <2>1, <2>2, ClientStaysSound DEF Players, Shape
<1> QED BY <1>2, <1>3, <1>4, <1>7, <1>8, <1>9, RingsUnchanged, OnTheWay

\* Who asks is at the map server it asks.
LEMMA Asker ==
  ASSUME Shape, AskedByOwner, NEW m \in Maps, NEW k \in Clients, Has(Ring(m), Auths(client[k].id))
  PROVE  client[k].at = "map" /\ client[k].map = m
<1>1. PICK j \in DOMAIN Ring(m) : Ring(m)[j] \in Auths(client[k].id)
  BY DEF Has
<1>2. /\ Ring(m)[j].to \in {0} \cup Fds
      /\ Ring(m)[j] \in AuthsTo(client[k].id, Ring(m)[j].to)
  BY <1>1, UpFields, DownFields DEF Message, Auths, AuthsTo
<1>3. Has(Ring(m), AuthsTo(client[k].id, Ring(m)[j].to))
  BY <1>1, <1>2 DEF Has
<1> QED BY <1>2, <1>3 DEF AskedByOwner

LEMMA ForIsOf ==
  ASSUME NEW q, NEW i, NEW c, Has(q, AuthsFor(i, c))
  PROVE  Has(q, Auths(i))
BY DEF Has, AuthsFor, Auths

LEMMA StepSelect ==
  ASSUME IInv, NEW k \in Clients, Select(k), UNCHANGED maps
  PROVE  IInv'
<1>1. Fine /\ Shape
  BY DEF IInv, Shape, Fine
<1>2. TypeOK'
  BY <1>1, TypeSelect
<1> DEFINE f == client[k].fd
<1> PICK c \in Chars : Select(k)!(c)
  BY DEF Select
<1> DEFINE m == where[c]
<1>3. /\ UNCHANGED <<lastId, seat, online, up, sess, idb, mixed, crossed>>
      /\ client[k].at = "char" /\ (Sound' => Sound)
  BY DEF logins, maps, Sound
<1>4. CASE Elsewhere(m) /\ down' = KickAll /\ UNCHANGED <<client, auth>>
  <2>1. /\ ForMap(auth') \subseteq ForMap(auth)
        /\ \A g \in Taken : g \in Taken' /\ seat'[g].id = seat[g].id
    BY <1>3, <1>4 DEF ForMap, Taken
  <2> QED BY <1>1, <1>2, <1>3, <1>4, <2>1, RingsKicked, Idle DEF Fine
<1>5. CASE /\ ~Elsewhere(m)
           /\ auth' = (auth \ ForMap(auth)) \cup {[id |-> seat[f].id, char |-> c, use |-> "map"]}
           /\ client' = [client EXCEPT ![k].at = "go", ![k].map = m, ![k].char = c, ![k].fd = 0]
           /\ UNCHANGED down
  <2> DEFINE entry == [id |-> seat[f].id, char |-> c, use |-> "map"]
  <2>1. /\ client'[k].at = "go" /\ client'[k].map = m /\ client'[k].char = c /\ client'[k].id = client[k].id
        /\ m \in Maps /\ \A l \in Clients \ {k} : client'[l] = client[l]
        /\ client[k].id \in Logins
    BY <1>1, <1>3, <1>5, ClientFields DEF Client, Fine, TypeOK, TypeOKChar, Players, ClientSound
  <2>2. ForMap(auth') = {entry} /\ entry.id = seat[f].id /\ entry.char = c
    BY <1>5 DEF ForMap
  <2> HIDE DEF entry
  <2>3. \A n \in Maps : Ring(n)' = Ring(n) /\ Tame(Ring(n), Ring(n)') /\ NoNewAnswer(Ring(n), Ring(n)')
    BY <1>3, <1>5, SameRings, SameIsTame
  <2>4. /\ EntryIsHere' /\ AuthIsEntry' /\ Sessions' /\ Letters' /\ Logins' = Logins
        /\ \A n : Here(n)' = Here(n)
    BY <1>1, <1>2, <1>3, <2>3, KeepsShape DEF RingsTame, Logins
  <2>5. Players'
    <3>1. Taken' = Taken
      BY <1>3 DEF Taken
    <3>2. ClientSound(k)'
      BY <2>1, <2>4 DEF ClientSound
    <3>3. \A l \in Clients \ {k} : ClientSound(l)'
      BY <1>1, <2>1, <2>4, <3>1, ClientStaysSound DEF Shape
    <3> QED BY <3>2, <3>3 DEF Players
  <2>6. OneEach'
    <3>1. \A l \in Clients : client'[l].id = client[l].id
      BY <2>1
    <3> QED BY <1>1, <3>1 DEF Shape, OneEach
  <2>7. Shape'
    BY <1>2, <2>4, <2>5, <2>6 DEF Shape
  <2>8. ASSUME Sound' PROVE Paths' /\ Names'
    <3>1. Paths /\ Names
      BY <1>3, <2>8 DEF IInv
    <3>2. ClientsKeep /\ SeatsKeep
      BY <1>3, <2>1 DEF ClientsKeep, SeatsKeep
    <3>3. Paths'
      BY <1>1, <1>3, <2>3, <3>1, <3>2, KeepsPaths, SessionsUnchanged DEF RingsTame
    <3>4. \A n \in Maps : Busy(n)' => Busy(n)
      BY <1>1, <1>3, <2>3, <2>7, SessionsUnchanged, KeepsBusy DEF Shape, Fine
    <3>5. OneLogin' /\ BusyIsOnline'
      BY <1>3, <2>2, <3>1, <3>4 DEF Names, OneLogin, BusyIsOnline
    <3>6. AttemptsFollow'
      <4>1. SUFFICES ASSUME NEW e \in ForMap(auth'), NEW n1 \in Maps, NEW n2 \in Maps,
                            Attempt(e.id, e.char, n1)', Busy(n2)'
                     PROVE  n2 = n1
        BY DEF AttemptsFollow
      <4>2. online = n2 /\ n2 = m
        BY <1>5, <3>1, <3>4, <4>1, ClientAssumption DEF Names, BusyIsOnline, Elsewhere
      <4>3. e.id = client[k].id
        BY <1>3, <2>2, <3>1 DEF Paths, SeatIsOwn
      <4>4. ~Has(Ring(n1), Auths(client[k].id))
        BY <1>1, <1>3, <3>1, Asker DEF Paths
      <4>5. ~Has(Ring(n1)', AuthsFor(e.id, e.char))
        BY <2>3, <4>3, <4>4, ForIsOf
      <4>6. PICK l \in Clients : client'[l].at = "go" /\ client'[l].id = e.id /\ client'[l].map = n1
        BY <4>1, <4>5 DEF Attempt
      <4>7. l = k
        <5>1. client[l].id = client[k].id /\ client[k].id # 0
          BY <2>1, <4>3, <4>6 DEF Logins
        <5> QED BY <1>1, <5>1 DEF Shape, OneEach
      <4> QED BY <2>1, <4>2, <4>6, <4>7
    <3> QED BY <3>3, <3>5, <3>6 DEF Names
  <2> QED BY <2>7, <2>8 DEF IInv
<1> QED BY <1>4, <1>5

-----------------------------------------------------------------------------
(* Steps of the char server that answer a map server *)

LEMMA OtherRings ==
  ASSUME NEW m \in Maps, Tame(Ring(m), Ring(m)'), \A n \in Maps \ {m} : Ring(n)' = Ring(n)
  PROVE  /\ RingsTame
         /\ NoNewAnswer(Ring(m), Ring(m)') => \A n \in Maps : NoNewAnswer(Ring(n), Ring(n)')
BY SameIsTame DEF RingsTame

LEMMA Idle1 ==
  ASSUME IInv, TypeOK', NEW m \in Maps, CharReceivesMap(m), UNCHANGED maps, online' = online, crossed' = crossed,
         ForMap(auth') \subseteq ForMap(auth),
         Tame(Ring(m), Ring(m)'), NoNewAnswer(Ring(m), Ring(m)'), \A n \in Maps \ {m} : Ring(n)' = Ring(n)
  PROVE  IInv'
<1>1. UNCHANGED <<client, lastId, sess, idb, seat, mixed>>
  BY DEF CharReceivesMap, logins, maps
<1>2. (Sound' => Sound) /\ \A f \in Taken : f \in Taken' /\ seat'[f].id = seat[f].id
  BY <1>1 DEF Sound, Taken
<1> QED BY <1>1, <1>2, OtherRings, Idle

LEMMA HeadAbove ==
  ASSUME TypeOK, NEW m \in Maps, up[m] # <<>>
  PROVE  \A A : Head(up[m]) \in A => Has(Ring(m), A)
<1>1. Loses(down[m] \o up[m], down[m] \o Tail(up[m]), Head(up[m]))
  BY RingTypes, ReceivedAbove
<1> QED BY <1>1 DEF Loses, Ring

LEMMA StepVouch ==
  ASSUME IInv, NEW m \in Maps, CharReceivesMap(m), UNCHANGED maps, Vouch(m, Head(up[m]))
  PROVE  IInv'
<1> DEFINE msg   == Head(up[m])
           entry == [id |-> msg.id, char |-> msg.char, use |-> "map"]
<1>1. Fine /\ Shape /\ TypeOK
  BY DEF IInv, Shape, Fine
<1>2. TypeOK'
  BY <1>1, TypeCharReceivesMap
<1>3. /\ UNCHANGED <<client, lastId, sess, idb, seat, mixed, crossed>> /\ auth' = auth \ {entry}
      /\ up[m] # <<>> /\ up' = [up EXCEPT ![m] = Tail(@)]
      /\ msg \in UpMessage /\ msg.op = "auth"
      /\ (Sound' => Sound) /\ ForMap(auth') \subseteq ForMap(auth)
  BY <1>1, UpHead DEF CharReceivesMap, logins, maps, Vouch, Sound, ForMap
<1>4. msg.id \in Ids /\ msg.char \in Chars /\ msg.to \in {0} \cup Fds /\ msg \in Auths(msg.id)
      /\ msg \in AuthsFor(msg.id, msg.char) /\ msg \in Asks(msg.to)
  BY <1>3, UpFields DEF Auths, AuthsFor, Asks
<1>5. entry.id = msg.id /\ entry.char = msg.char /\ entry.use = "map"
  OBVIOUS
<1>6. CASE entry \in auth
  <2> DEFINE y == [op |-> "ok", char |-> msg.char, value |-> stored[msg.char], to |-> msg.to]
  <2>1. Reply(m, y) /\ online' = m
    BY <1>6 DEF Vouch
  <2>2. y \in DownMessage /\ y.op = "ok" /\ y.to = msg.to
    BY <1>1, <1>4 DEF TypeOK, TypeOKChar, DownMessage
  <2> HIDE DEF y, entry, msg
  <2>3. Echo(msg, y)
    BY <1>4, <2>2 DEF Echo, Chain, Saves, Partings, Auths, AuthsTo, AuthsFor, Asks, Moves
  <2>4. Turns(Ring(m), Ring(m)', msg, y) /\ \A n \in Maps \ {m} : Ring(n)' = Ring(n)
    BY <1>1, <1>3, <2>1, <2>2, RingAnswers DEF msg
  <2>5. RingsTame
    BY <2>3, <2>4, TurnsIsTame, OtherRings
  <2>6. SessionsKeep
    BY <1>3, SessionsUnchanged
  <2>7. Shape'
    <3>1. EntryIsHere' /\ AuthIsEntry' /\ Sessions' /\ Letters' /\ \A n : Here(n)' = Here(n)
      BY <1>1, <1>2, <1>3, <2>5, KeepsShape
    <3>2. Players'
      BY <1>1, <1>3, <3>1, PlayersKept DEF Shape, Taken
    <3> QED BY <1>1, <1>2, <1>3, <3>1, <3>2 DEF Shape, OneEach
  <2>8. ASSUME Sound' PROVE Paths' /\ Names'
    <3>1. Paths /\ Names
      BY <1>3, <2>8 DEF IInv
    <3>2. Paths'
      <4>1. ClientsKeep /\ SeatsKeep
        BY <1>3 DEF ClientsKeep, SeatsKeep
      <4> QED BY <1>1, <2>5, <2>6, <3>1, <4>1, KeepsPaths
    <3>3. /\ Has(Ring(m), Auths(msg.id)) /\ Has(Ring(m), AuthsFor(msg.id, msg.char))
      BY <1>1, <1>3, <1>4, HeadAbove DEF msg
    <3>4. entry \in ForMap(auth)
      BY <1>5, <1>6 DEF ForMap
    <3>5. \A n \in Maps : Busy(n) => n = m
      <4>1. Attempt(entry.id, entry.char, m)
        BY <1>5, <3>3 DEF Attempt
      <4> QED BY <3>1, <3>4, <4>1 DEF Names, AttemptsFollow
    <3>6. \A n \in Maps : Busy(n)' => n = m
      <4> SUFFICES ASSUME NEW n \in Maps \ {m}, Busy(n)' PROVE FALSE
        OBVIOUS
      <4>1. Busy(n)
        BY <1>3, <2>4 DEF Busy, Live, Active
      <4> QED BY <3>5, <4>1
    <3>7. BusyIsOnline'
      BY <2>1, <3>6 DEF BusyIsOnline
    <3>8. OneLogin'
      BY <1>3, <3>1, KeepsOneLogin DEF Names
    <3>9. AttemptsFollow'
      <4>1. SUFFICES ASSUME NEW e \in ForMap(auth'), NEW n \in Maps, Attempt(e.id, e.char, n)'
                     PROVE  n = m
        BY <3>6 DEF AttemptsFollow
      <4>2. e.id = msg.id
        BY <1>3, <1>5, <3>1, <3>4 DEF Names, OneLogin
      <4>3. CASE Has(Ring(n)', AuthsFor(e.id, e.char))
        <5>1. Has(Ring(n), Auths(msg.id))
          BY <2>5, <4>2, <4>3, ForIsOf DEF RingsTame, Tame, TameHas
        <5> QED BY <1>4, <3>1, <3>3, <5>1 DEF Paths, AskedOnce
      <4>4. CASE ~Has(Ring(n)', AuthsFor(e.id, e.char))
        <5>1. PICK k \in Clients : client[k].at = "go" /\ client[k].id = msg.id
          BY <1>3, <4>1, <4>2, <4>4 DEF Attempt
        <5> QED BY <1>1, <3>1, <3>3, <5>1, Asker DEF Paths
      <4> QED BY <4>3, <4>4
    <3> QED BY <3>2, <3>7, <3>8, <3>9 DEF Names
  <2> QED BY <2>7, <2>8 DEF IInv
<1>7. CASE entry \notin auth
  <2> DEFINE y == [op |-> "fail", to |-> msg.to]
  <2>1. Reply(m, y) /\ online' = online
    BY <1>7 DEF Vouch
  <2>2. y \in DownMessage /\ y.op = "fail"
    BY <1>1, <1>4 DEF DownMessage
  <2> HIDE DEF y, entry, msg
  <2>3. Echo(msg, y) /\ \A f : y \notin Answers(f)
    BY <2>2 DEF Echo, Chain, Saves, Partings, Auths, AuthsTo, AuthsFor, Asks, Moves, Answers
  <2>4. Turns(Ring(m), Ring(m)', msg, y) /\ \A n \in Maps \ {m} : Ring(n)' = Ring(n)
    BY <1>1, <1>3, <2>1, <2>2, RingAnswers DEF msg
  <2>5. Tame(Ring(m), Ring(m)') /\ NoNewAnswer(Ring(m), Ring(m)')
    BY <2>3, <2>4, TurnsIsTame DEF NoNewAnswer
  <2> QED BY <1>2, <1>3, <2>1, <2>4, <2>5, Idle1
<1> QED BY <1>6, <1>7

LEMMA StepSave ==
  ASSUME IInv, NEW m \in Maps, CharReceivesMap(m), UNCHANGED maps, Save(m, Head(up[m]))
  PROVE  IInv'
<1> DEFINE msg == Head(up[m])
<1>1. Fine /\ TypeOK
  BY DEF IInv, Shape, Fine
<1>2. TypeOK'
  BY <1>1, TypeCharReceivesMap
<1>3. /\ UNCHANGED <<online, crossed, auth>>
      /\ up[m] # <<>> /\ up' = [up EXCEPT ![m] = Tail(@)]
      /\ msg \in UpMessage /\ msg.op = "save"
      /\ ForMap(auth') \subseteq ForMap(auth)
  BY <1>1, UpHead DEF CharReceivesMap, Save, ForMap
<1>4. CASE msg.final > 0
  <2> DEFINE y == [op |-> "saved", final |-> msg.final, map |-> msg.map]
  <2>1. Reply(m, y)
    BY <1>4 DEF Save
  <2>2. y \in DownMessage /\ y.op = "saved" /\ y.final = msg.final
    BY <1>3, <1>4, UpFields DEF DownMessage
  <2>0. msg \in Message
    BY <1>3, UpFields
  <2> HIDE DEF y, msg
  <2>3. Echo(msg, y) /\ \A f : y \notin Answers(f)
    BY <1>3, <2>0, <2>2 DEF Echo, Chain, Saves, Partings, Auths, AuthsTo, AuthsFor, Asks, Moves, Answers
  <2>4. Turns(Ring(m), Ring(m)', msg, y) /\ \A n \in Maps \ {m} : Ring(n)' = Ring(n)
    BY <1>1, <1>3, <2>1, <2>2, RingAnswers DEF msg
  <2>5. Tame(Ring(m), Ring(m)') /\ NoNewAnswer(Ring(m), Ring(m)')
    BY <2>3, <2>4, TurnsIsTame DEF NoNewAnswer
  <2> QED BY <1>2, <1>3, <2>4, <2>5, Idle1
<1>5. CASE ~(msg.final > 0)
  <2>1. down' = down
    BY <1>5 DEF Save
  <2>2. Loses(Ring(m), Ring(m)', msg) /\ \A n \in Maps \ {m} : Ring(n)' = Ring(n)
    BY <1>1, <1>3, <2>1, RingGivesAbove
  <2> QED BY <1>2, <1>3, <2>2, LosesIsTame, Idle1
<1> QED BY <1>4, <1>5

LEMMA StepSendOn ==
  ASSUME IInv, NEW m \in Maps, CharReceivesMap(m), UNCHANGED maps, SendOn(m, Head(up[m]))
  PROVE  IInv'
<1> DEFINE msg == Head(up[m])
<1>1. Fine /\ Shape /\ TypeOK
  BY DEF IInv, Shape, Fine
<1>2. TypeOK'
  BY <1>1, TypeCharReceivesMap
<1>3. /\ UNCHANGED <<client, lastId, sess, idb, seat, mixed, online>>
      /\ up[m] # <<>> /\ up' = [up EXCEPT ![m] = Tail(@)]
      /\ msg \in UpMessage /\ msg \in Message
  BY <1>1, UpHead, UpFields DEF CharReceivesMap, SendOn, logins, maps
<1>4. CASE msg.op = "select"
  <2> DEFINE y == [op |-> "selectok"]
  <2>1. /\ auth' = auth \cup {[id |-> msg.id, char |-> None, use |-> "select"]}
        /\ Reply(m, y) /\ crossed' = crossed
    BY <1>4 DEF SendOn
  <2>2. y \in DownMessage /\ y.op = "selectok"
    BY DEF DownMessage
  <2>6. ForMap(auth') \subseteq ForMap(auth)
    BY <2>1 DEF ForMap
  <2> HIDE DEF y, msg
  <2>3. Echo(msg, y) /\ \A f : y \notin Answers(f)
    BY <1>3, <1>4, <2>2 DEF Echo, Chain, Saves, Partings, Auths, AuthsTo, AuthsFor, Asks, Moves, Answers
  <2>4. Turns(Ring(m), Ring(m)', msg, y) /\ \A n \in Maps \ {m} : Ring(n)' = Ring(n)
    BY <1>1, <1>3, <2>1, <2>2, RingAnswers DEF msg
  <2>5. Tame(Ring(m), Ring(m)') /\ NoNewAnswer(Ring(m), Ring(m)')
    BY <2>3, <2>4, TurnsIsTame DEF NoNewAnswer
  <2> QED BY <1>2, <1>3, <2>1, <2>4, <2>5, <2>6, Idle1
<1>5. CASE msg.op = "move"
  <2> DEFINE y   == [op |-> "moved", char |-> msg.char, map |-> msg.map]
             new == [id |-> msg.id, char |-> msg.char, use |-> "map"]
  <2>1. /\ auth' = auth \cup {new}
        /\ Reply(m, y) /\ crossed' = (crossed \/ \E e \in ForMap(auth) : e.id # msg.id)
    BY <1>5 DEF SendOn
  <2>2. y \in DownMessage /\ y.op = "moved"
    BY <1>3, <1>5, UpFields DEF DownMessage
  <2>6. /\ \A e \in ForMap(auth') : e \in ForMap(auth) \/ e.id = msg.id
        /\ Sound' => Sound /\ \A e \in ForMap(auth) : e.id = msg.id
    <3>1. new.id = msg.id
      OBVIOUS
    <3> HIDE DEF new, msg
    <3>2. \A e \in ForMap(auth') : e \in ForMap(auth) \/ e.id = msg.id
      BY <2>1, <3>1 DEF ForMap
    <3>3. ASSUME Sound' PROVE Sound /\ \A e \in ForMap(auth) : e.id = msg.id
      BY <1>3, <2>1, <3>3 DEF Sound
    <3> QED BY <3>2, <3>3
  <2> HIDE DEF y, new, msg
  <2>3. Echo(msg, y) /\ \A f : y \notin Answers(f)
    BY <1>3, <1>5, <2>2 DEF Echo, Chain, Saves, Partings, Auths, AuthsTo, AuthsFor, Asks, Moves, Answers
  <2>4. Turns(Ring(m), Ring(m)', msg, y) /\ \A n \in Maps \ {m} : Ring(n)' = Ring(n)
    BY <1>1, <1>3, <2>1, <2>2, RingAnswers DEF msg
  <2>5. Tame(Ring(m), Ring(m)') /\ NoNewAnswer(Ring(m), Ring(m)')
    BY <2>3, <2>4, TurnsIsTame DEF NoNewAnswer
  <2>7. RingsTame /\ \A n \in Maps : NoNewAnswer(Ring(n), Ring(n)')
    BY <2>4, <2>5, OtherRings
  <2>8. Shape'
    <3>1. EntryIsHere' /\ AuthIsEntry' /\ Sessions' /\ Letters' /\ \A n : Here(n)' = Here(n)
      BY <1>1, <1>2, <1>3, <2>7, KeepsShape
    <3>2. Players'
      BY <1>1, <1>3, <3>1, PlayersKept DEF Shape, Taken
    <3> QED BY <1>1, <1>2, <1>3, <3>1, <3>2 DEF Shape, OneEach
  <2>9. ASSUME Sound' PROVE Paths' /\ Names'
    <3>1. Paths /\ Names
      BY <2>6, <2>9 DEF IInv
    <3>2. Paths'
      <4>1. ClientsKeep /\ SeatsKeep
        BY <1>3 DEF ClientsKeep, SeatsKeep
      <4> QED BY <1>1, <1>3, <2>7, <3>1, <4>1, KeepsPaths, SessionsUnchanged
    <3>3. \A e \in ForMap(auth') : e.id = msg.id
      BY <2>6, <2>9
    <3>4. OneLogin'
      BY <3>3 DEF OneLogin
    <3>5. Has(Ring(m), Moves(msg.id)) /\ msg.id \in Ids
      <4>1. msg \in Moves(msg.id)
        BY <1>3, <1>5 DEF Moves
      <4>2. msg.id \in Ids
        BY <1>3, <1>5, UpFields
      <4> QED BY <1>1, <1>3, <4>1, <4>2, HeadAbove DEF msg
    <3>6. \A n \in Maps : \A c : ~Attempt(msg.id, c, n)
      BY <3>1, <3>5, ForIsOf DEF Paths, MoverStays, Attempt
    <3>7. AttemptsFollow'
      <4>1. SUFFICES ASSUME NEW e \in ForMap(auth'), NEW n \in Maps, Attempt(e.id, e.char, n)'
                     PROVE  FALSE
        BY DEF AttemptsFollow
      <4>2. AttemptsKeep
        BY <1>3 DEF AttemptsKeep
      <4>3. Attempt(e.id, e.char, n)
        BY <2>7, <4>1, <4>2, KeepsAttempt DEF RingsTame, Tame
      <4> QED BY <3>3, <3>6, <4>3
    <3>8. BusyIsOnline'
      <4>1. \A n \in Maps : Busy(n)' => Busy(n)
        BY <1>1, <1>3, <2>7, <2>8, KeepsBusy, SessionsUnchanged DEF Shape, Fine, RingsTame
      <4> QED BY <1>3, <3>1, <4>1 DEF BusyIsOnline, Names
    <3> QED BY <3>2, <3>4, <3>7, <3>8 DEF Names
  <2> QED BY <2>8, <2>9 DEF IInv
<1> QED BY <1>4, <1>5 DEF SendOn

\* Who is reported gone is gone, and all was saved.
LEMMA NobodyLeft ==
  ASSUME IInv, Sound, NEW m \in Maps, up[m] # <<>>, Head(up[m]) \in Partings
  PROVE  ~Busy(m)
<1>1. TypeOK /\ Shape /\ AsksLast /\ Order /\ AnsweredOnce
  BY DEF IInv, Shape, Paths
<1>2. down[m] \in Seq(DownMessage) /\ up[m] \in Seq(UpMessage)
  BY <1>1, RingTypes
<1>3. Has(Ring(m), Partings)
  BY <1>1, HeadAbove
<1>4. ~Has(Ring(m), Saves)
  <2>1. Saves \cap DownMessage = {}
    BY DownFields DEF Saves
  <2> QED BY <1>1, <1>2, <2>1, NextAbove DEF Order, Ring
<1>5. idb[m] # 0 => ~Has(Ring(m), Answers(idb[m]))
  <2> HAVE idb[m] # 0
  <2>1. Answers(idb[m]) \cap UpMessage = {}
    BY UpFields DEF Answers
  <2>2. Before(Ring(m), Partings, Answers(idb[m]))
    BY <1>1 DEF AsksLast, Before, Answers, Asks
  <2> QED BY <1>2, <2>1, <2>2, NextAbove DEF Ring
<1>6. idb[m] # 0 => ~sess[m][idb[m]].auth
  BY <1>1, <1>3 DEF Order, Shape, EntryIsHere, Here
<1> QED BY <1>4, <1>5, <1>6 DEF Busy, Live

LEMMA StepGone ==
  ASSUME IInv, NEW m \in Maps, CharReceivesMap(m), UNCHANGED maps, Gone(m, Head(up[m]))
  PROVE  IInv'
<1>1. Fine /\ Shape /\ TypeOK
  BY DEF IInv, Shape, Fine
<1>2. TypeOK'
  BY <1>1, TypeCharReceivesMap
<1>3. /\ UNCHANGED <<client, lastId, sess, idb, seat, mixed, auth, down>> /\ online' = None
      /\ crossed' = (crossed \/ online \notin {None, m})
      /\ up[m] # <<>> /\ up' = [up EXCEPT ![m] = Tail(@)]
      /\ Head(up[m]) \in UpMessage /\ Head(up[m]) \in Partings
  BY <1>1, UpHead, UpFields DEF CharReceivesMap, Gone, logins, maps, Partings
<1>4. Loses(Ring(m), Ring(m)', Head(up[m])) /\ \A n \in Maps \ {m} : Ring(n)' = Ring(n)
  BY <1>1, <1>3, RingGivesAbove
<1>5. RingsTame /\ \A n \in Maps : NoNewAnswer(Ring(n), Ring(n)')
  BY <1>4, LosesIsTame, OtherRings
<1>6. Shape'
  <2>1. EntryIsHere' /\ AuthIsEntry' /\ Sessions' /\ Letters' /\ \A n : Here(n)' = Here(n)
    BY <1>1, <1>2, <1>3, <1>5, KeepsShape
  <2>2. Players'
    BY <1>1, <1>3, <2>1, PlayersKept DEF Shape, Taken
  <2> QED BY <1>1, <1>2, <1>3, <2>1, <2>2 DEF Shape, OneEach
<1>7. ASSUME Sound' PROVE Paths' /\ Names'
  <2>1. Sound /\ online \in {None, m}
    BY <1>3, <1>7 DEF Sound
  <2>2. Paths /\ Names
    BY <2>1 DEF IInv
  <2>3. Paths'
    <3>1. ClientsKeep /\ SeatsKeep
      BY <1>3 DEF ClientsKeep, SeatsKeep
    <3> QED BY <1>1, <1>3, <1>5, <2>2, <3>1, KeepsPaths, SessionsUnchanged
  <2>4. \A n \in Maps : ~Busy(n)'
    <3>1. \A n \in Maps : Busy(n)' => Busy(n)
      BY <1>1, <1>3, <1>5, <1>6, KeepsBusy, SessionsUnchanged DEF Shape, Fine, RingsTame
    <3>2. \A n \in Maps : Busy(n) => n = m
      BY <2>1, <2>2, ClientAssumption DEF Names, BusyIsOnline
    <3>3. ~Busy(m)
      BY <1>3, <2>1, NobodyLeft
    <3> QED BY <3>1, <3>2, <3>3
  <2> QED BY <1>3, <2>2, <2>3, <2>4 DEF Names, OneLogin, BusyIsOnline, AttemptsFollow
<1> QED BY <1>6, <1>7 DEF IInv

LEMMA StepCharReceivesMap ==
  ASSUME IInv, NEW m \in Maps, CharReceivesMap(m), UNCHANGED maps
  PROVE  IInv'
BY StepVouch, StepSave, StepSendOn, StepGone DEF CharReceivesMap

-----------------------------------------------------------------------------
(* A client connects to a map server *)

Asking(k, f) == [op |-> "auth", id |-> client[k].id, char |-> client[k].char, to |-> f]

\* What MapConnect(k) does, at connection f of map server m
Connects(k, m, f) ==
  /\ m \in Maps /\ f \in Fds /\ f \notin Here(m)
  /\ client[k].at = "go" /\ client[k].map = m /\ client[k].id \in Logins /\ client[k].char \in Chars
  /\ client'[k].at = "map" /\ client'[k].map = m /\ client'[k].fd = f
  /\ client'[k].id = client[k].id /\ client'[k].char = client[k].char
  /\ \A l \in Clients \ {k} : client'[l] = client[l]
  /\ Asking(k, f) \in UpMessage /\ up' = [up EXCEPT ![m] = @ \o <<Asking(k, f)>>]
  /\ UNCHANGED <<lastId, seat, auth, online, mixed, crossed, down>>
  /\ idb'[m] = IF idb[m] = 0 THEN f ELSE idb[m]
  /\ \A n \in Maps \ {m} : idb'[n] = idb[n]
  /\ sess'[m][f].char = client[k].char /\ sess'[m][f].id = client[k].id /\ sess'[m][f].dest = m
  /\ ~sess'[m][f].auth /\ ~sess'[m][f].waiting /\ (idb[m] = 0 => sess'[m][f].twin # -1)
  /\ \A n \in Maps, g \in Fds : n # m \/ g # f =>
       /\ sess'[n][g].char = sess[n][g].char /\ sess'[n][g].id = sess[n][g].id
       /\ sess'[n][g].auth = sess[n][g].auth /\ sess'[n][g].waiting = sess[n][g].waiting
       /\ sess'[n][g].dest = sess[n][g].dest /\ sess'[n][g].val = sess[n][g].val
       /\ sess[n][g].twin # -1 => sess'[n][g].twin # -1
  /\ Here(m)' = Here(m) \cup {f} /\ \A n \in Maps \ {m} : Here(n)' = Here(n)

LEMMA ConnectsIs ==
  ASSUME Fine, NEW k \in Clients, MapConnect(k), NEW m, m = client[k].map
  PROVE  \E f \in Fds : Connects(k, m, f)
<1> DEFINE c == client[k].char
           new(f) == Newcomer(c, client[k].id, m, IF idb[m] = 0 THEN 0 ELSE -1)
<1>1. PICK f \in Fds \ Here(m) :
        /\ sess' = [sess EXCEPT ![m] = IF idb[m] = 0 THEN [@ EXCEPT ![f] = new(f)]
                                       ELSE [@ EXCEPT ![f] = new(f), ![idb[m]].twin = f]]
        /\ idb' = IF idb[m] = 0 THEN [idb EXCEPT ![m] = f] ELSE idb
        /\ client' = [client EXCEPT ![k].at = "map", ![k].fd = f]
        /\ up' = [up EXCEPT ![m] = @ \o <<[op |-> "auth", id |-> client[k].id, char |-> c, to |-> f]>>]
  BY Zenon DEF MapConnect, Send, Newcomer
<1>2. client[k].at = "go" /\ UNCHANGED <<logins, chars, down, doomed, latest, abandoned, drops>>
  BY DEF MapConnect
<1>3. m \in Maps /\ c \in Chars /\ client[k].id \in Logins /\ client[k].id \in Ids /\ client[k] \in Client /\ client \in [Clients -> Client]
  BY <1>2, ClientFields DEF Fine, Players, ClientSound
<1>4. /\ client'[k].at = "map" /\ client'[k].map = m /\ client'[k].fd = f
      /\ client'[k].id = client[k].id /\ client'[k].char = c
      /\ \A l \in Clients \ {k} : client'[l] = client[l]
  BY <1>1, <1>3 DEF Client
<1>5. Asking(k, f) \in UpMessage /\ up' = [up EXCEPT ![m] = @ \o <<Asking(k, f)>>]
  BY <1>1, <1>3 DEF UpMessage, Asking
<1> DEFINE s == new(f)
<1>6. /\ s \in Session /\ s.char = c /\ s.id = client[k].id /\ s.dest = m /\ ~s.auth /\ ~s.waiting
      /\ s.twin = (IF idb[m] = 0 THEN 0 ELSE -1)
  <2>1. c \in Chars \cup {None} /\ m \in Maps \cup {None} /\ (IF idb[m] = 0 THEN 0 ELSE -1) \in {-1, 0} \cup Fds
    BY <1>3
  <2> QED BY <1>3, <2>1, NewSession
<1> HIDE DEF new, c
<1>0. sess \in [Maps -> [Fds -> Session]] /\ idb \in [Maps -> {0} \cup Fds] /\ f \in Fds /\ f # 0
  BY FdAssumption DEF Fine, TypeOK, TypeOKMap
<1>7. /\ sess'[m][f] = s
      /\ idb'[m] = IF idb[m] = 0 THEN f ELSE idb[m]
      /\ \A n \in Maps \ {m} : idb'[n] = idb[n] /\ sess'[n] = sess[n]
      /\ \A g \in Fds : g # f /\ (idb[m] = 0 \/ g # idb[m]) => sess'[m][g] = sess[m][g]
  <2>1. CASE idb[m] = 0
    BY <1>0, <1>1, <1>3, <2>1
  <2>2. CASE idb[m] # 0
    <3>1. idb[m] \in Fds /\ idb[m] # f
      BY <1>1, <1>3, <2>2, EntryFields
    <3> QED BY <1>0, <1>1, <1>3, <2>2, <3>1
  <2> QED BY <2>1, <2>2
<1>8. idb[m] # 0 => idb[m] \in Here(m) /\ sess'[m][idb[m]] = [sess[m][idb[m]] EXCEPT !.twin = f]
  <2> HAVE idb[m] # 0
  <2>1. idb[m] \in Here(m) /\ idb[m] \in Fds /\ idb[m] # f
    BY <1>1, <1>3, EntryFields
  <2> QED BY <1>0, <1>1, <1>3, <2>1
<1> HIDE DEF s
<1>9. ASSUME NEW g \in Fds, idb[m] # 0, g = idb[m]
      PROVE  /\ sess'[m][g].char = sess[m][g].char /\ sess'[m][g].id = sess[m][g].id
             /\ sess'[m][g].auth = sess[m][g].auth /\ sess'[m][g].waiting = sess[m][g].waiting
             /\ sess'[m][g].dest = sess[m][g].dest /\ sess'[m][g].val = sess[m][g].val /\ sess'[m][g].twin = f
             /\ sess[m][g].char \in Chars
  <2>1. sess[m][g] \in Session /\ sess'[m][g] = [sess[m][g] EXCEPT !.twin = f] /\ sess[m][g].char \in Chars
    BY <1>0, <1>3, <1>8, <1>9, SessionFields
  <2> QED BY <2>1 DEF Session
<1>10. \A n \in Maps, g \in Fds : n # m \/ g # f =>
         /\ sess'[n][g].char = sess[n][g].char /\ sess'[n][g].id = sess[n][g].id
         /\ sess'[n][g].auth = sess[n][g].auth /\ sess'[n][g].waiting = sess[n][g].waiting
         /\ sess'[n][g].dest = sess[n][g].dest /\ sess'[n][g].val = sess[n][g].val
         /\ sess[n][g].twin # -1 => sess'[n][g].twin # -1
         /\ g \in Here(n) <=> sess'[n][g] # NoSession
  <2> TAKE n \in Maps, g \in Fds
  <2> HAVE n # m \/ g # f
  <2>1. CASE n = m /\ idb[m] # 0 /\ g = idb[m]
    <3>1. sess'[n][g] # NoSession /\ g \in Here(n)
      BY <1>8, <1>9, <2>1, ClientAssumption DEF NoSession
    <3>2. f # -1
      BY <1>0, FdAssumption
    <3> QED BY <1>9, <2>1, <3>1, <3>2
  <2>2. CASE ~(n = m /\ idb[m] # 0 /\ g = idb[m])
    BY <1>7, <2>2 DEF Here
  <2> QED BY <2>1, <2>2
<1>11. Here(m)' = Here(m) \cup {f} /\ \A n \in Maps \ {m} : Here(n)' = Here(n)
  <2>1. s # NoSession
    BY <1>3, <1>6, ClientAssumption DEF NoSession
  <2> QED BY <1>0, <1>3, <1>7, <1>10, <2>1 DEF Here
<1>12. UNCHANGED <<lastId, seat, auth, online, mixed, crossed, down>>
  BY <1>2 DEF logins, chars
<1>13. /\ sess'[m][f].char = client[k].char /\ sess'[m][f].id = client[k].id /\ sess'[m][f].dest = m
       /\ ~sess'[m][f].auth /\ ~sess'[m][f].waiting /\ (idb[m] = 0 => sess'[m][f].twin # -1)
  BY <1>6, <1>7 DEF c
<1>14. client[k].char \in Chars /\ client'[k].char = client[k].char /\ f \notin Here(m)
  BY <1>1, <1>3, <1>4 DEF c
<1>15. \A n \in Maps \ {m} : idb'[n] = idb[n]
  BY <1>7
<1>16. Connects(k, m, f)
  BY <1>0, <1>2, <1>3, <1>4, <1>5, <1>7, <1>10, <1>11, <1>12, <1>13, <1>14, <1>15 DEF Connects
<1> QED BY <1>0, <1>16

LEMMA ConnectsShape ==
  ASSUME Shape, TypeOK', NEW k \in Clients, NEW m, NEW f, Connects(k, m, f)
  PROVE  Shape' /\ Gains(Ring(m), Ring(m)', Asking(k, f)) /\ \A n \in Maps \ {m} : Ring(n)' = Ring(n)
<1>0. f # 0 /\ f # -1 /\ m \in Maps /\ f \in Fds /\ Logins' = Logins
  BY FdAssumption DEF Connects, Logins
<1>1. Gains(Ring(m), Ring(m)', Asking(k, f)) /\ \A n \in Maps \ {m} : Ring(n)' = Ring(n)
  BY RingSays DEF Connects, Shape
<1>2. EntryIsHere'
  BY <1>0 DEF Connects, Shape, EntryIsHere, Here
<1>3. AuthIsEntry'
  <2>1. SUFFICES ASSUME NEW n \in Maps, NEW g \in Fds, sess'[n][g].auth PROVE idb'[n] = g
    BY DEF AuthIsEntry
  <2>2. sess[n][g].auth
    BY <2>1 DEF Connects
  <2>3. g \in Here(n)
    BY <2>2 DEF Here, NoSession
  <2>4. g # 0 /\ idb[n] = g
    BY <2>2, FdAssumption DEF Shape, AuthIsEntry
  <2> QED BY <2>4 DEF Connects
<1>4. Sessions'
  <2>1. SUFFICES ASSUME NEW n \in Maps, NEW g \in Here(n)'
                 PROVE  /\ sess'[n][g].char \in Chars /\ sess'[n][g].dest \in Maps /\ sess'[n][g].id \in Logins
                        /\ sess'[n][g].waiting => sess'[n][g].auth
                        /\ sess'[n][g].dest # n => sess'[n][g].waiting
    BY <1>0 DEF Sessions
  <2>2. CASE n = m /\ g = f
    BY <2>2 DEF Connects
  <2>3. CASE n # m \/ g # f
    <3>1. g \in Here(n) /\ g \in Fds
      BY <2>3 DEF Connects, Here
    <3> QED BY <2>3, <3>1 DEF Connects, Shape, Sessions
  <2> QED BY <2>2, <2>3
<1>5. \A n \in Maps : Here(n) \subseteq Here(n)'
  BY DEF Connects
<1>6. Players'
  <2>1. ClientSound(k)'
    BY <1>0 DEF Connects, ClientSound
  <2>2. Taken' = Taken
    BY DEF Connects, Taken
  <2>3. \A l \in Clients \ {k} : ClientSound(l)'
    BY <1>0, <1>5, <2>2, ClientStaysSound DEF Connects, Shape
  <2> QED BY <2>1, <2>3 DEF Players
<1>7. OneEach'
  <2>1. \A l \in Clients : client'[l].id = client[l].id
    BY DEF Connects
  <2> QED BY <2>1 DEF Shape, OneEach
<1>8. Letters'
  <2>1. \A n \in Maps : \A A : Has(Ring(n)', A) => Has(Ring(n), A) \/ (n = m /\ Asking(k, f) \in A)
    BY <1>1 DEF Gains
  <2>2. \A g \in Fds : Asking(k, f) \in Asks(g) => g = f
    BY DEF Asking, Asks
  <2>3. \A i : Asking(k, f) \notin Moves(i) /\ (Asking(k, f) \in Auths(i) => i = client[k].id)
    BY DEF Asking, Auths, Moves
  <2>4. f \in Here(m)' /\ client[k].id \in Logins
    BY DEF Connects
  <2> QED BY <1>0, <1>5, <2>1, <2>2, <2>3, <2>4 DEF Letters, Shape
<1> QED BY <1>1, <1>2, <1>3, <1>4, <1>6, <1>7, <1>8 DEF Shape

\* Where a client that is on its way to a map server is not yet mentioned.
LEMMA OnItsWay ==
  ASSUME Shape, Paths, NEW k \in Clients, client[k].at = "go"
  PROVE  /\ client[k].id \in Ids
         /\ \A n \in Maps : ~Has(Ring(n), Auths(client[k].id)) /\ ~Has(Ring(n), Moves(client[k].id))
         /\ \A n \in Maps : \A g \in Here(n) : Active(n, g) => sess[n][g].id # client[k].id
<1>1. client[k].id \in Ids
  BY ClientFields DEF Shape, Fine
<1>2. \A n \in Maps : ~Has(Ring(n), Auths(client[k].id))
  BY Asker DEF Paths
<1>3. \A n \in Maps : ~Has(Ring(n), Moves(client[k].id))
  BY <1>1 DEF Paths, MoverStays
<1>4. \A n \in Maps : \A g \in Here(n) : Active(n, g) => sess[n][g].id # client[k].id
  BY DEF Paths, OwnerIsHere
<1> QED BY <1>1, <1>2, <1>3, <1>4

LEMMA ConnectsPaths ==
  ASSUME Shape, Paths, NEW k \in Clients, NEW m, NEW f, Connects(k, m, f),
         Gains(Ring(m), Ring(m)', Asking(k, f)), \A n \in Maps \ {m} : Ring(n)' = Ring(n)
  PROVE  Paths'
<1> DEFINE y == Asking(k, f)
           i == client[k].id
<1>0. /\ m \in Maps /\ f \in Fds /\ f \notin Here(m) /\ y \in Message /\ i \in Logins
      /\ y.op = "auth" /\ y.id = i /\ y.char = client[k].char /\ y.to = f /\ f # 0
      /\ client[k].at = "go"
  BY UpFields, FdAssumption DEF Connects, Asking
<1> HIDE DEF y, i
<1>1. /\ y \notin Chain /\ y \notin Saves /\ y \notin Partings /\ y \notin Saves \ Chain
      /\ \A j : (y \in Auths(j) => j = i) /\ y \notin Moves(j)
      /\ \A j, g : y \in AuthsTo(j, g) => j = i /\ g = f
      /\ \A g : y \in Asks(g) => g = f
      /\ \A g : y \notin Answers(g)
  BY <1>0 DEF Chain, Saves, Partings, Auths, Moves, AuthsTo, Asks, Answers
<1>2. \A n \in Maps : \A A : Has(Ring(n)', A) => Has(Ring(n), A) \/ (n = m /\ y \in A)
  BY DEF Gains, y
<1>3. \A n \in Maps : \A A : y \notin A => (Has(Ring(n)', A) <=> Has(Ring(n), A))
  BY DEF Gains, y
<1>4. /\ i \in Ids
      /\ \A n \in Maps : ~Has(Ring(n), Auths(i)) /\ ~Has(Ring(n), Moves(i))
      /\ \A n \in Maps : \A g \in Here(n) : Active(n, g) => sess[n][g].id # i
  BY <1>0, OnItsWay DEF i
<1>5. ~Has(Ring(m), Asks(f))
  BY <1>0 DEF Shape, Letters
<1>6. \A n \in Maps : \A A : Alone(Ring(n), A) /\ (n = m /\ y \in A => ~Has(Ring(n), A)) => Alone(Ring(n)', A)
  <2> TAKE n \in Maps
  <2> TAKE A
  <2>1. CASE n = m
    BY <2>1 DEF Gains, y
  <2>2. CASE n # m
    BY <2>2
  <2> QED BY <2>1, <2>2
<1>7. \A n \in Maps : \A A, B : Before(Ring(n), A, B) /\ y \notin A => Before(Ring(n)', A, B)
  <2> TAKE n \in Maps
  <2> TAKE A, B
  <2>1. CASE n = m
    BY <2>1 DEF Gains, y
  <2>2. CASE n # m
    BY <2>2
  <2> QED BY <2>1, <2>2
<1>8. /\ client'[k].at = "map" /\ client'[k].map = m /\ client'[k].fd = f /\ client'[k].id = i
      /\ \A l \in Clients \ {k} : client'[l] = client[l]
      /\ \A l \in Clients : client'[l].id = client[l].id
      /\ \A l \in Clients : client[l].id = i => l = k
  <2>1. \A l \in Clients : client[l].id = i => l = k
    BY <1>0 DEF Shape, OneEach, i, Logins
  <2> QED BY <2>1 DEF Connects, i
<1>9. \A n \in Maps, g \in Fds : sess'[n][g].auth => sess[n][g].auth /\ (n # m \/ g # f)
  BY DEF Connects
<1>10. SeatIsOwn'
  BY <1>8 DEF Paths, SeatIsOwn, Connects
<1>11. AskedByOwner'
  <2>1. SUFFICES ASSUME NEW n \in Maps, NEW l \in Clients, NEW g \in {0} \cup Fds, Has(Ring(n)', AuthsTo(client'[l].id, g))
                 PROVE  client'[l].at = "map" /\ client'[l].map = n /\ client'[l].fd = g
    BY DEF AskedByOwner
  <2>2. CASE n = m /\ y \in AuthsTo(client'[l].id, g)
    BY <1>1, <1>8, <2>2
  <2>3. CASE Has(Ring(n), AuthsTo(client[l].id, g))
    <3>1. client[l].at = "map" /\ client[l].map = n /\ client[l].fd = g
      BY <2>3 DEF Paths, AskedByOwner
    <3> QED BY <1>0, <1>8, <3>1
  <2> QED BY <1>2, <1>8, <2>1, <2>2, <2>3
<1>12. AskedOnce'
  <2>1. SUFFICES ASSUME NEW n1 \in Maps, NEW n2 \in Maps, NEW j \in Ids
                 PROVE  /\ Alone(Ring(n1)', Auths(j))
                        /\ Has(Ring(n1)', Auths(j)) /\ Has(Ring(n2)', Auths(j)) => n1 = n2
    BY DEF AskedOnce
  <2>2. Alone(Ring(n1)', Auths(j))
    BY <1>1, <1>4, <1>6 DEF Paths, AskedOnce
  <2>3. Has(Ring(n1)', Auths(j)) /\ Has(Ring(n2)', Auths(j)) => n1 = n2
    BY <1>1, <1>2, <1>4 DEF Paths, AskedOnce
  <2> QED BY <2>2, <2>3
<1>13. AnsweredOnce'
  <2>1. SUFFICES ASSUME NEW n \in Maps, NEW g \in Fds
                 PROVE  /\ Alone(Ring(n)', Asks(g))
                        /\ sess'[n][g].auth => ~Has(Ring(n)', Asks(g))
    BY DEF AnsweredOnce
  <2>2. Alone(Ring(n)', Asks(g))
    BY <1>1, <1>5, <1>6 DEF Paths, AnsweredOnce
  <2>3. sess'[n][g].auth => ~Has(Ring(n)', Asks(g))
    BY <1>1, <1>2, <1>9 DEF Paths, AnsweredOnce
  <2> QED BY <2>2, <2>3
<1>14. AsksLast'
  <2>1. SUFFICES ASSUME NEW n \in Maps, idb'[n] # 0
                 PROVE  /\ Before(Ring(n)', Chain, Asks(idb'[n]))
                        /\ Before(Ring(n)', Partings, Asks(idb'[n]))
                        /\ Before(Ring(n)', Saves, Asks(idb'[n]))
    BY DEF AsksLast
  <2>2. CASE idb'[n] = idb[n]
    BY <1>1, <1>7, <2>1, <2>2 DEF Paths, AsksLast
  <2>3. CASE n = m /\ idb'[n] = f
    <3>1. \A A : Before(Ring(m), A, Asks(f))
      BY <1>5 DEF Has, Before
    <3> QED BY <1>0, <1>1, <1>7, <2>3, <3>1
  <2> QED BY <2>2, <2>3 DEF Connects
<1>15. Order'
  <2>1. SUFFICES ASSUME NEW n \in Maps
                 PROVE  /\ Alone(Ring(n)', Chain)
                        /\ Before(Ring(n)', Saves, Partings)
                        /\ Before(Ring(n)', Saves \ Chain, Chain)
                        /\ Playing(n)' # {} => ~Has(Ring(n)', Chain)
                        /\ (\E g \in Fds : sess'[n][g].auth) => ~Has(Ring(n)', Partings)
    BY DEF Order
  <2>2. Alone(Ring(n)', Chain) /\ Before(Ring(n)', Saves, Partings) /\ Before(Ring(n)', Saves \ Chain, Chain)
    BY <1>1, <1>6, <1>7 DEF Paths, Order
  <2>3. Playing(n)' \subseteq Playing(n)
    BY <1>9 DEF Playing, Connects
  <2>4. Playing(n)' # {} => ~Has(Ring(n)', Chain)
    BY <1>1, <1>3, <2>3 DEF Paths, Order
  <2>5. (\E g \in Fds : sess'[n][g].auth) => ~Has(Ring(n)', Partings)
    BY <1>1, <1>3, <1>9 DEF Paths, Order
  <2> QED BY <2>2, <2>4, <2>5
<1>16. \A n \in Maps : \A g \in Here(n)' : n # m \/ g # f =>
         /\ g \in Here(n) /\ sess'[n][g].id = sess[n][g].id
         /\ Active(n, g)' <=> Active(n, g)
  <2> SUFFICES ASSUME NEW n \in Maps, NEW g \in Here(n)', n # m \/ g # f
               PROVE  /\ g \in Here(n) /\ sess'[n][g].id = sess[n][g].id
                      /\ Active(n, g)' <=> Active(n, g)
    OBVIOUS
  <2>1. g \in Here(n) /\ g \in Fds
    BY DEF Connects, Here
  <2>2. sess'[n][g].id = sess[n][g].id /\ sess'[n][g].waiting = sess[n][g].waiting
    BY <2>1 DEF Connects
  <2>3. Active(n, g)' <=> Active(n, g)
    BY <1>1, <1>3, <2>2 DEF Active
  <2> QED BY <2>1, <2>2, <2>3
<1>17. sess'[m][f].id = i
  BY DEF Connects, i
<1>18. OwnerIsHere'
  <2>1. SUFFICES ASSUME NEW n \in Maps, NEW g \in Here(n)', NEW l \in Clients, Active(n, g)', client'[l].id = sess'[n][g].id
                 PROVE  client'[l].at = "map" /\ client'[l].map = n /\ client'[l].fd = g
    BY DEF OwnerIsHere
  <2>2. CASE n = m /\ g = f
    BY <1>8, <1>17, <2>1, <2>2
  <2>3. CASE n # m \/ g # f
    <3>1. client[l].at = "map" /\ client[l].map = n /\ client[l].fd = g
      BY <1>8, <1>16, <2>1, <2>3 DEF Paths, OwnerIsHere
    <3> QED BY <1>0, <1>8, <3>1
  <2> QED BY <2>2, <2>3
<1>19. AsksForItself'
  <2>1. SUFFICES ASSUME NEW n1 \in Maps, NEW n2 \in Maps, NEW h \in Here(n1)', NEW g \in {0} \cup Fds,
                        Active(n1, h)', Has(Ring(n2)', AuthsTo(sess'[n1][h].id, g))
                 PROVE  n2 = n1 /\ g = h
    BY DEF AsksForItself
  <2>2. \A n \in Maps : \A j, g2 : Has(Ring(n), AuthsTo(j, g2)) => Has(Ring(n), Auths(j))
    BY DEF Has, AuthsTo, Auths
  <2>3. CASE n1 = m /\ h = f
    BY <1>1, <1>2, <1>4, <1>17, <2>1, <2>2, <2>3
  <2>4. CASE n1 # m \/ h # f
    <3>1. h \in Here(n1) /\ Active(n1, h) /\ sess'[n1][h].id = sess[n1][h].id
      BY <1>16, <2>1, <2>4
    <3>2. Has(Ring(n2), AuthsTo(sess[n1][h].id, g))
      BY <1>1, <1>2, <1>4, <2>1, <3>1
    <3> QED BY <3>1, <3>2 DEF Paths, AsksForItself
  <2> QED BY <2>3, <2>4
<1>20. MoverStays'
  <2>1. SUFFICES ASSUME NEW n \in Maps, NEW j \in Ids, Has(Ring(n)', Moves(j))
                 PROVE  /\ \A n2 \in Maps : ~Has(Ring(n2)', Auths(j))
                        /\ \A l \in Clients : client'[l].id = j => client'[l].at = "map" /\ client'[l].map = n
    BY DEF MoverStays
  <2>2. Has(Ring(n), Moves(j)) /\ j # i
    BY <1>1, <1>2, <1>4, <2>1
  <2>3. \A n2 \in Maps : ~Has(Ring(n2)', Auths(j))
    BY <1>1, <1>2, <2>2 DEF Paths, MoverStays
  <2>4. \A l \in Clients : client'[l].id = j => client'[l].at = "map" /\ client'[l].map = n
    BY <1>8, <2>2 DEF Paths, MoverStays
  <2> QED BY <2>3, <2>4
<1> QED BY <1>10, <1>11, <1>12, <1>13, <1>14, <1>15, <1>18, <1>19, <1>20 DEF Paths

LEMMA ConnectsNames ==
  ASSUME Shape, Names, NEW k \in Clients, NEW m, NEW f, Connects(k, m, f),
         Gains(Ring(m), Ring(m)', Asking(k, f)), \A n \in Maps \ {m} : Ring(n)' = Ring(n)
  PROVE  Names'
<1> DEFINE y == Asking(k, f)
<1>0. /\ m \in Maps /\ f \in Fds /\ f \notin Here(m) /\ f # 0
      /\ y.op = "auth" /\ y.id = client[k].id /\ y.char = client[k].char
  BY FdAssumption DEF Connects, Asking
<1> HIDE DEF y
<1>1. \A n \in Maps : \A A : Has(Ring(n)', A) => Has(Ring(n), A) \/ (n = m /\ y \in A)
  BY DEF Gains, y
<1>2. \A g : y \notin Saves /\ y \notin Chain /\ y \notin Answers(g)
  BY <1>0 DEF Saves, Chain, Answers
<1>3. ~Has(Ring(m), Answers(f))
  <2>1. ~Has(Ring(m), Asks(f))
    BY <1>0 DEF Shape, Letters
  <2> QED BY <2>1 DEF Has, Answers, Asks
<1>4. \A n \in Maps : Busy(n)' => Busy(n)
  <2> SUFFICES ASSUME NEW n \in Maps, Busy(n)' PROVE Busy(n)
    OBVIOUS
  <2>1. CASE Has(Ring(n)', Saves)
    BY <1>1, <1>2, <2>1 DEF Busy
  <2>2. CASE Live(n)' /\ n = m /\ idb[m] = 0
    <3>1. idb'[m] = f /\ ~sess'[m][f].auth
      BY <2>2 DEF Connects
    <3>2. Has(Ring(m)', Answers(f))
      BY <2>2, <3>1 DEF Live
    <3> QED BY <1>0, <1>1, <1>2, <1>3, <3>2
  <2>3. CASE Live(n)' /\ ~(n = m /\ idb[m] = 0)
    <3>1. idb'[n] = idb[n] /\ idb[n] # 0
      BY <2>3 DEF Connects, Live
    <3>2. idb[n] \in Fds /\ (n # m \/ idb[n] # f)
      BY <1>0, <3>1 DEF Shape, EntryIsHere, Here
    <3>3. sess'[n][idb[n]].auth = sess[n][idb[n]].auth /\ sess'[n][idb[n]].waiting = sess[n][idb[n]].waiting
      BY <3>2 DEF Connects
    <3>4. CASE Has(Ring(n)', Answers(idb[n]))
      BY <1>1, <1>2, <3>1, <3>4 DEF Busy, Live
    <3>5. CASE sess'[n][idb[n]].auth /\ Active(n, idb[n])'
      <4>1. Active(n, idb[n])
        BY <1>1, <1>2, <3>1, <3>3, <3>5 DEF Active
      <4> QED BY <3>1, <3>3, <3>5, <4>1 DEF Busy, Live
    <3> QED BY <2>3, <3>1, <3>4, <3>5 DEF Live
  <2> QED BY <2>1, <2>2, <2>3 DEF Busy
<1>5. \A n \in Maps : \A j, c : Attempt(j, c, n)' => Attempt(j, c, n)
  <2> SUFFICES ASSUME NEW n \in Maps, NEW j, NEW c, Attempt(j, c, n)' PROVE Attempt(j, c, n)
    OBVIOUS
  <2>1. ASSUME NEW l \in Clients, client'[l].at = "go", client'[l].id = j, client'[l].char = c, client'[l].map = n
        PROVE  Attempt(j, c, n)
    <3>1. client'[l] = client[l]
      BY <2>1 DEF Connects
    <3> QED BY <2>1, <3>1 DEF Attempt
  <2>2. CASE Has(Ring(n), AuthsFor(j, c))
    BY <2>2 DEF Attempt
  <2>3. CASE n = m /\ y \in AuthsFor(j, c)
    <3>1. client[k].id = j /\ client[k].char = c
      BY <1>0, <2>3 DEF AuthsFor
    <3> QED BY <2>3, <3>1 DEF Attempt, Connects
  <2> QED BY <1>1, <2>1, <2>2, <2>3 DEF Attempt
<1>6. auth' = auth /\ online' = online
  BY DEF Connects
<1>7. OneLogin'
  BY <1>6 DEF Names, OneLogin
<1>8. BusyIsOnline'
  BY <1>4, <1>6 DEF Names, BusyIsOnline
<1>9. AttemptsFollow'
  BY <1>4, <1>5, <1>6 DEF Names, AttemptsFollow
<1> QED BY <1>7, <1>8, <1>9 DEF Names

LEMMA StepMapConnect ==
  ASSUME IInv, NEW k \in Clients, MapConnect(k)
  PROVE  IInv'
<1>1. Fine /\ Shape
  BY DEF IInv, Shape, Fine
<1>2. TypeOK'
  BY <1>1, TypeMapConnect
<1>4. \E m : m = client[k].map
  OBVIOUS
<1>5. PICK m : m = client[k].map
  BY <1>4
<1>6. PICK f \in Fds : Connects(k, m, f)
  BY <1>1, <1>5, ConnectsIs
<1>7. Shape' /\ Gains(Ring(m), Ring(m)', Asking(k, f)) /\ \A n \in Maps \ {m} : Ring(n)' = Ring(n)
  BY <1>1, <1>2, <1>6, ConnectsShape
<1>8. Sound' => Sound
  BY <1>6 DEF Connects, Sound
<1>9. ASSUME Sound' PROVE Paths' /\ Names'
  BY <1>1, <1>6, <1>7, <1>8, <1>9, ConnectsPaths, ConnectsNames DEF IInv
<1> QED BY <1>7, <1>9 DEF IInv

-----------------------------------------------------------------------------
(* A map server gets a message *)

LEMMA Hears ==
  ASSUME Fine, NEW m \in Maps, MapReceives(m)
  PROVE  /\ UNCHANGED <<logins, lastId, seat, auth, online, crossed, idb>>
         /\ down[m] # <<>> /\ down' = [down EXCEPT ![m] = Tail(@)]
         /\ Head(down[m]) \in DownMessage /\ Head(down[m]) \in Message
         /\ Logins' = Logins /\ Taken' = Taken /\ ForMap(auth') = ForMap(auth)
         /\ (mixed => mixed') => (Sound' => Sound)
BY DownHead, DownFields DEF MapReceives, logins, Fine, Logins, Taken, ForMap, Sound

LEMMA Heard ==
  ASSUME IInv, TypeOK', NEW m \in Maps, MapReceives(m), up' = up
  PROVE  /\ Loses(Ring(m), Ring(m)', Head(down[m])) /\ \A n \in Maps \ {m} : Ring(n)' = Ring(n)
         /\ RingsTame /\ \A n \in Maps : NoNewAnswer(Ring(n), Ring(n)')
<1>1. Fine /\ TypeOK
  BY DEF IInv, Shape, Fine
<1>2. Loses(Ring(m), Ring(m)', Head(down[m])) /\ \A n \in Maps \ {m} : Ring(n)' = Ring(n)
  BY <1>1, Hears, RingGivesBelow
<1> QED BY <1>2, LosesIsTame, OtherRings

LEMMA HeardOnly ==
  ASSUME IInv, TypeOK', NEW m \in Maps, MapReceives(m), up' = up, client' = client, mixed => mixed',
         EntryIsHere', AuthIsEntry', Sessions', SessionsKeep, \A n \in Maps : Here(n)' = Here(n)
  PROVE  IInv'
<1>1. Fine /\ Shape
  BY DEF IInv, Shape, Fine
<1>2. RingsTame /\ \A n \in Maps : NoNewAnswer(Ring(n), Ring(n)')
  BY Heard
<1>3. UNCHANGED <<lastId, seat, online>> /\ Logins' = Logins /\ Taken' = Taken /\ ForMap(auth') = ForMap(auth) /\ (Sound' => Sound)
  BY <1>1, Hears
<1>4. Players' /\ Letters' /\ OneEach'
  BY <1>1, <1>2, <1>3, PlayersKept, LettersKept DEF Shape, OneEach
<1>5. ClientsKeep /\ AttemptsKeep /\ SeatsKeep
  BY <1>3 DEF ClientsKeep, AttemptsKeep, SeatsKeep
<1> QED BY <1>2, <1>3, <1>4, <1>5, Calm DEF Shape

LEMMA HeardInVain ==
  ASSUME IInv, TypeOK', NEW m \in Maps, MapReceives(m), up' = up, client' = client, sess' = sess, mixed => mixed'
  PROVE  IInv'
<1>1. Fine /\ Shape /\ UNCHANGED <<lastId, idb>>
  BY Hears DEF IInv, Shape, Fine
<1>2. RingsTame
  BY Heard
<1>3. EntryIsHere' /\ AuthIsEntry' /\ Sessions' /\ \A n : Here(n)' = Here(n)
  BY <1>1, <1>2, KeepsShape
<1> QED BY <1>1, <1>3, HeardOnly, SessionsUnchanged

LEMMA StepKicked ==
  ASSUME IInv, TypeOK', NEW m \in Maps, MapReceives(m), Kicked(m, Head(down[m]))
  PROVE  IInv'
BY HeardInVain DEF Kicked

LEMMA StepRefuse ==
  ASSUME IInv, TypeOK', NEW m \in Maps, MapReceives(m), Refuse(m, Head(down[m]))
  PROVE  IInv'
<1>1. Fine /\ Shape /\ UNCHANGED <<lastId, idb>>
  BY Hears DEF IInv, Shape, Fine
<1>2. up' = up /\ client' = client /\ mixed' = mixed
  BY DEF Refuse, Unanswered
<1>3. CASE sess' = sess
  BY <1>2, <1>3, HeardInVain
<1>4. CASE sess' # sess
  <2> DEFINE f == idb[m]
             t == [sess[m][f] EXCEPT !.twin = 0]
  <2>1. f # 0 /\ sess' = [sess EXCEPT ![m][f].twin = 0]
    BY <1>4 DEF Refuse, Unanswered
  <2>2. f \in Here(m) /\ f \in Fds /\ sess[m][f] \in Session
    BY <1>1, <2>1, EntryFields, SessionFields
  <2>3. t \in Session /\ t.char = sess[m][f].char /\ t.id = sess[m][f].id /\ t.dest = sess[m][f].dest
        /\ t.auth = sess[m][f].auth /\ t.waiting = sess[m][f].waiting /\ t.twin # -1
    BY <2>2 DEF Session
  <2>4. Touched(m, f, t)
    BY <1>1, <2>1, <2>2 DEF Touched, Fine, TypeOK, TypeOKMap
  <2>5. /\ sess[m][f].dest \in Maps /\ (sess[m][f].waiting => sess[m][f].auth) /\ (sess[m][f].dest # m => sess[m][f].waiting)
    BY <1>1, <2>2 DEF Shape, Sessions
  <2> HIDE DEF t
  <2>6. EntryIsHere' /\ AuthIsEntry' /\ Sessions' /\ SessionsKeep /\ \A n \in Maps : Here(n)' = Here(n)
    BY <1>1, <2>2, <2>3, <2>4, <2>5, TouchedSession
  <2> QED BY <1>2, <2>6, HeardOnly
<1> QED BY <1>3, <1>4

\* The entered connection is accepted: what it asked is answered, and nothing
\* of an older session is on its way any more.
LEMMA AcceptedIs ==
  ASSUME IInv, Sound, NEW m \in Maps, MapReceives(m), up' = up, idb[m] # 0, Head(down[m]) \in Answers(idb[m])
  PROVE  /\ \A A \in {Chain, Partings, Saves, Asks(idb[m])} : ~Has(Ring(m)', A)
         /\ ~sess[m][idb[m]].auth /\ Busy(m)
<1>1. Fine /\ TypeOK /\ AsksLast /\ AnsweredOnce /\ idb[m] \in Fds
  BY EntryFields DEF IInv, Shape, Paths, Fine
<1>2. down[m] # <<>> /\ down[m] \in Seq(Message) /\ up[m] \in Seq(Message) /\ down' = [down EXCEPT ![m] = Tail(@)]
  BY <1>1, RingTypes, Hears
<1>3. Loses(Ring(m), Ring(m)', Head(down[m]))
  BY <1>1, <1>2, RingGivesBelow
<1>4. Head(down[m]) \in Asks(idb[m])
  BY DEF Answers, Asks
<1>5. Has(Ring(m), Asks(idb[m])) /\ Has(Ring(m), Answers(idb[m]))
  BY <1>3, <1>4 DEF Loses
<1>6. \A A : Before(Ring(m), A, Asks(idb[m])) => ~Has(Ring(m), A)
  BY <1>2, <1>4, ReceivedBelow DEF Ring
<1>7. ~Has(Ring(m)', Chain) /\ ~Has(Ring(m)', Partings) /\ ~Has(Ring(m)', Saves)
  BY <1>1, <1>3, <1>6 DEF AsksLast, Loses
<1>8. ~Has(Ring(m)', Asks(idb[m]))
  BY <1>1, <1>3, <1>4 DEF AnsweredOnce, Loses
<1>9. ~sess[m][idb[m]].auth
  BY <1>1, <1>5 DEF AnsweredOnce
<1>10. Busy(m)
  BY <1>5 DEF Busy, Live
<1> QED BY <1>7, <1>8, <1>9, <1>10

LEMMA AcceptedPaths ==
  ASSUME IInv, Sound, NEW m \in Maps, MapReceives(m), up' = up, idb[m] # 0, Head(down[m]) \in Answers(idb[m]),
         UNCHANGED <<client, seat, idb>>, RingsTame, \A n \in Maps \ {m} : Ring(n)' = Ring(n),
         \A n \in Maps : Here(n)' = Here(n), sess'[m][idb[m]].id = sess[m][idb[m]].id,
         \A n \in Maps, g \in Fds : n # m \/ g # idb[m] => sess'[n][g] = sess[n][g]
  PROVE  Paths' /\ \A n \in Maps : Busy(n)' => Busy(n)
<1>1. Shape /\ Paths
  BY DEF IInv
<1>2. /\ ~Has(Ring(m)', Chain) /\ ~Has(Ring(m)', Partings) /\ ~Has(Ring(m)', Saves) /\ ~Has(Ring(m)', Asks(idb[m]))
      /\ ~sess[m][idb[m]].auth /\ Busy(m)
  BY AcceptedIs
<1>3. ClientsKeep /\ SeatsKeep
  BY DEF ClientsKeep, SeatsKeep
<1>4. SeatIsOwn' /\ AskedByOwner' /\ AskedOnce' /\ MoverStays'
  BY <1>1, <1>3, KeepsSeatIsOwn, KeepsAskedByOwner, KeepsAskedOnce, KeepsMoverStays DEF Paths, Shape, Fine
<1>5. AnsweredOnce'
  <2>1. SUFFICES ASSUME NEW n \in Maps, NEW g \in Fds
                 PROVE  /\ Alone(Ring(n)', Asks(g))
                        /\ sess'[n][g].auth => ~Has(Ring(n)', Asks(g))
    BY DEF AnsweredOnce
  <2>2. Alone(Ring(n)', Asks(g))
    BY <1>1 DEF Paths, AnsweredOnce, RingsTame, Tame, TameOrder
  <2>3. sess'[n][g].auth => ~Has(Ring(n)', Asks(g))
    BY <1>1, <1>2 DEF Paths, AnsweredOnce, RingsTame, Tame, TameHas
  <2> QED BY <2>2, <2>3
<1>6. AsksLast'
  BY <1>1 DEF Paths, AsksLast, RingsTame, Tame, TameOrder
<1>7. Order'
  <2>1. SUFFICES ASSUME NEW n \in Maps
                 PROVE  /\ Alone(Ring(n)', Chain)
                        /\ Before(Ring(n)', Saves, Partings)
                        /\ Before(Ring(n)', Saves \ Chain, Chain)
                        /\ Playing(n)' # {} => ~Has(Ring(n)', Chain)
                        /\ (\E g \in Fds : sess'[n][g].auth) => ~Has(Ring(n)', Partings)
    BY DEF Order
  <2>2. Alone(Ring(n)', Chain) /\ Before(Ring(n)', Saves, Partings) /\ Before(Ring(n)', Saves \ Chain, Chain)
    BY <1>1 DEF Paths, Order, RingsTame, Tame, TameOrder
  <2>3. CASE n = m
    BY <1>2, <2>2, <2>3
  <2>4. CASE n # m
    <3>1. Playing(n)' = Playing(n)
      BY <2>4 DEF Playing
    <3> QED BY <1>1, <2>2, <2>4, <3>1 DEF Paths, Order
  <2> QED BY <2>3, <2>4
<1>8. \A n \in Maps : \A g \in Here(n)' : Active(n, g)' => g \in Here(n) /\ Active(n, g) /\ sess'[n][g].id = sess[n][g].id
  <2> SUFFICES ASSUME NEW n \in Maps, NEW g \in Here(n), Active(n, g)'
               PROVE  Active(n, g) /\ sess'[n][g].id = sess[n][g].id
    OBVIOUS
  <2>1. CASE n = m /\ g = idb[m]
    <3>1. ~sess[m][idb[m]].waiting
      BY <1>1, <1>2, <2>1 DEF Shape, Sessions
    <3> QED BY <2>1, <3>1 DEF Active
  <2>2. CASE n # m \/ g # idb[m]
    <3>1. sess'[n][g] = sess[n][g]
      BY <2>2 DEF Here
    <3> QED BY <3>1 DEF Active, RingsTame, Tame, TameHas
  <2> QED BY <2>1, <2>2
<1>9. OwnerIsHere'
  BY <1>1, <1>8 DEF Paths, OwnerIsHere
<1>10. AsksForItself'
  <2>1. SUFFICES ASSUME NEW n1 \in Maps, NEW n2 \in Maps, NEW h \in Here(n1)', NEW g \in {0} \cup Fds,
                        Active(n1, h)', Has(Ring(n2)', AuthsTo(sess'[n1][h].id, g))
                 PROVE  n2 = n1 /\ g = h
    BY DEF AsksForItself
  <2>2. Has(Ring(n2), AuthsTo(sess[n1][h].id, g))
    BY <1>8, <2>1 DEF RingsTame, Tame, TameHas
  <2> QED BY <1>1, <1>8, <2>1, <2>2 DEF Paths, AsksForItself
<1>11. \A n \in Maps : Busy(n)' => Busy(n)
  <2> TAKE n \in Maps
  <2>1. CASE n = m
    BY <1>2, <2>1
  <2>2. CASE n # m
    <3>1. idb[n] # 0 => sess'[n][idb[n]] = sess[n][idb[n]]
      BY <1>1, <2>2 DEF Shape, EntryIsHere, Here
    <3> QED BY <2>2, <3>1 DEF Busy, Live, Active
  <2> QED BY <2>1, <2>2
<1> QED BY <1>4, <1>5, <1>6, <1>7, <1>9, <1>10, <1>11 DEF Paths

LEMMA StepAccept ==
  ASSUME IInv, TypeOK', NEW m \in Maps, MapReceives(m), Accept(m, Head(down[m]))
  PROVE  IInv'
<1> DEFINE msg == Head(down[m])
           f   == idb[m]
<1>1. Fine /\ Shape /\ UNCHANGED <<lastId, idb>>
  BY Hears DEF IInv, Shape, Fine
<1>2. up' = up /\ client' = client /\ (mixed => mixed')
  <2>1. mixed' = mixed \/ mixed' = (mixed \/ msg.to # f)
    BY DEF Accept, Unanswered
  <2>2. mixed => mixed'
    BY <2>1
  <2> QED BY <2>2 DEF Accept
<1>3. CASE sess' = sess
  BY <1>2, <1>3, HeardInVain
<1>4. CASE sess' # sess
  <2> DEFINE t == [sess[m][f] EXCEPT !.auth = TRUE, !.waiting = FALSE, !.val = msg.value, !.dest = m]
  <2>1. /\ f # 0 /\ msg.op = "ok" /\ mixed' = (mixed \/ msg.to # f) /\ sess[m][f].twin = 0
        /\ sess' = [sess EXCEPT ![m][f] = t]
    BY <1>4 DEF Accept, Unanswered
  <2>2. f \in Here(m) /\ f \in Fds /\ sess[m][f] \in Session /\ msg.value \in 0..MaxValue /\ msg \in Message
    BY <1>1, <2>1, EntryFields, SessionFields, Hears, DownFields
  <2>3. t \in Session /\ t.char = sess[m][f].char /\ t.id = sess[m][f].id /\ t.dest = m
        /\ t.auth /\ ~t.waiting /\ t.twin = 0
    BY <2>1, <2>2 DEF Session
  <2>4. Touched(m, f, t)
    BY <1>1, <2>1, <2>2 DEF Touched, Fine, TypeOK, TypeOKMap
  <2> HIDE DEF t
  <2>5. EntryIsHere' /\ AuthIsEntry' /\ Sessions' /\ \A n \in Maps : Here(n)' = Here(n)
    BY <1>1, <2>1, <2>2, <2>3, <2>4, TouchedSession
  <2>6. RingsTame /\ \A n \in Maps \ {m} : Ring(n)' = Ring(n)
    BY <1>2, Heard
  <2>7. UNCHANGED <<seat, online>> /\ Logins' = Logins /\ Taken' = Taken /\ ForMap(auth') = ForMap(auth) /\ (Sound' => Sound)
    BY <1>1, <1>2, Hears
  <2>8. Shape'
    <3>1. Players' /\ Letters' /\ OneEach'
      BY <1>1, <1>2, <2>5, <2>6, <2>7, PlayersKept, LettersKept DEF Shape, OneEach
    <3> QED BY <2>5, <3>1 DEF Shape
  <2>9. ASSUME Sound' PROVE Paths' /\ Names'
    <3>1. msg \in Answers(f)
      BY <2>1, <2>2, <2>9 DEF Sound, Answers
    <3>2. sess'[m][f].id = sess[m][f].id /\ \A n \in Maps, g \in Fds : n # m \/ g # f => sess'[n][g] = sess[n][g]
      BY <2>3, <2>4 DEF Touched
    <3>3. Paths' /\ \A n \in Maps : Busy(n)' => Busy(n)
      BY <1>1, <1>2, <2>1, <2>5, <2>6, <2>7, <2>9, <3>1, <3>2, AcceptedPaths
    <3>4. Names
      BY <2>7, <2>9 DEF IInv
    <3>5. AttemptsKeep
      BY <1>2 DEF AttemptsKeep
    <3>6. OneLogin' /\ AttemptsFollow'
      BY <2>6, <2>7, <3>3, <3>4, <3>5, KeepsOneLogin, KeepsAttemptsFollow DEF Names
    <3>7. BusyIsOnline'
      BY <2>7, <3>3, <3>4 DEF Names, BusyIsOnline
    <3> QED BY <3>3, <3>6, <3>7 DEF Names
  <2> QED BY <2>8, <2>9 DEF IInv
<1> QED BY <1>3, <1>4

-----------------------------------------------------------------------------
(* A map server goes on after a last save *)

\* What a session that leaves asks for next
NextOf(y, i) == y.op = "select" \/ (y.op = "move" /\ y.id = i)

LEMMA SavedIs ==
  ASSUME IInv, NEW m \in Maps, MapReceives(m), Saved(m, Head(down[m])), up' # up
  PROVE  LET f == idb[m] IN
         /\ f # 0 /\ Head(down[m]) \in Chain
         /\ \E y \in UpMessage : NextOf(y, sess[m][f].id) /\ up' = [up EXCEPT ![m] = Append(@, y)]
         /\ Sound' => Sound /\ sess[m][f].waiting
<1> DEFINE msg == Head(down[m])
           f   == idb[m]
           s   == sess[m][f]
           sel == [op |-> "select", id |-> s.id]
           mov == [op |-> "move", id |-> s.id, char |-> s.char, map |-> s.dest]
<1>1. Fine /\ Shape
  BY DEF IInv, Shape, Fine
<1>2. /\ msg.op = "saved" /\ f # 0
      /\ \/ msg.final = 2 /\ up' = [up EXCEPT ![m] = Append(@, sel)]
         \/ msg.final = 3 /\ s.dest # m /\ up' = [up EXCEPT ![m] = Append(@, mov)]
      /\ mixed' = (mixed \/ (f # 0 /\ msg.final = 2 /\ ~s.waiting))
  BY DEF Saved
<1>3. msg \in Message /\ crossed' = crossed
  BY <1>1, Hears
<1>4. f \in Here(m) /\ s.char \in Chars /\ s.dest \in Maps /\ s.id \in Ids /\ (s.dest # m => s.waiting)
  BY <1>1, <1>2, EntryFields, SessionFields DEF Shape, Sessions
<1>5. sel \in UpMessage /\ mov \in UpMessage /\ NextOf(sel, s.id) /\ NextOf(mov, s.id)
  BY <1>4 DEF UpMessage, NextOf
<1> HIDE DEF sel, mov, s, msg
<1>6. msg \in Chain
  BY <1>2, <1>3 DEF Chain
<1>7. \E y \in UpMessage : NextOf(y, s.id) /\ up' = [up EXCEPT ![m] = Append(@, y)]
  BY <1>2, <1>5
<1>8. Sound' => Sound /\ s.waiting
  BY <1>2, <1>3, <1>4 DEF Sound
<1> QED BY <1>2, <1>6, <1>7, <1>8 DEF s, msg

LEMMA StepSaved ==
  ASSUME IInv, TypeOK', NEW m \in Maps, MapReceives(m), Saved(m, Head(down[m]))
  PROVE  IInv'
<1> DEFINE msg == Head(down[m])
           f   == idb[m]
           i   == sess[m][f].id
<1>1. Fine /\ Shape /\ TypeOK /\ UNCHANGED <<lastId, idb, seat, online, client, sess>>
      /\ down[m] # <<>> /\ down' = [down EXCEPT ![m] = Tail(@)]
      /\ Logins' = Logins /\ Taken' = Taken /\ ForMap(auth') = ForMap(auth)
  BY Hears DEF IInv, Shape, Fine, Saved
<1>2. CASE up' = up
  <2>1. mixed => mixed'
    BY DEF Saved
  <2> QED BY <1>1, <1>2, <2>1, HeardInVain
<1>3. CASE up' # up
  <2>1. f # 0 /\ msg \in Chain /\ (Sound' => Sound /\ sess[m][f].waiting)
    BY <1>3, SavedIs
  <2>2. PICK y \in UpMessage : NextOf(y, i) /\ up' = [up EXCEPT ![m] = Append(@, y)]
    BY <1>3, SavedIs
  <2>0. \E j : j = i
    OBVIOUS
  <2>3. PICK j : j = i
    BY <2>0
  <2>4. f \in Here(m) /\ f \in Fds /\ j \in Logins /\ j \in Ids
    BY <1>1, <2>1, <2>3, EntryFields, SessionFields DEF Shape, Sessions
  <2>5. PICK r : Loses(Ring(m), r, msg) /\ Gains(r, Ring(m)', y)
    BY <1>1, <2>2, RingGoesOn
  <2>6. \A n \in Maps \ {m} : Ring(n)' = Ring(n)
    BY <1>1, <2>2, RingGoesOn
  <2>7. /\ y \notin Saves /\ y \notin Partings /\ y \notin Saves \ Chain /\ y \in Chain
        /\ \A l : y \notin Auths(l) /\ (y \in Moves(l) => l = j)
        /\ \A l, g : y \notin AuthsTo(l, g) /\ y \notin AuthsFor(l, g)
        /\ \A g : y \notin Asks(g) /\ y \notin Answers(g)
    BY <2>2, <2>3, UpFields DEF NextOf, Saves, Partings, Chain, Auths, AuthsTo, AuthsFor, Asks, Answers, Moves
  <2> HIDE DEF msg, f, i
  <2>8. \A n \in Maps : \A A : Has(Ring(n)', A) => Has(Ring(n), A) \/ (n = m /\ y \in A)
    BY <2>5, <2>6 DEF Loses, Gains
  <2>9. \A n \in Maps : \A A : Alone(Ring(n), A) /\ y \notin A => Alone(Ring(n)', A)
    <3> TAKE n \in Maps
    <3> TAKE A
    <3>1. CASE n = m
      BY <2>5, <3>1 DEF Loses, Gains
    <3>2. CASE n # m
      BY <2>6, <3>2
    <3> QED BY <3>1, <3>2
  <2>10. \A n \in Maps : \A A, B : Before(Ring(n), A, B) /\ y \notin A => Before(Ring(n)', A, B)
    <3> TAKE n \in Maps
    <3> TAKE A, B
    <3>1. CASE n = m
      BY <2>5, <3>1 DEF Loses, Gains
    <3>2. CASE n # m
      BY <2>6, <3>2
    <3> QED BY <3>1, <3>2
  <2>11. EntryIsHere' /\ AuthIsEntry' /\ Sessions' /\ \A n : Here(n)' = Here(n)
    <3>1. \A n : Here(n)' = Here(n)
      BY <1>1 DEF Here
    <3> QED BY <1>1, <3>1 DEF Shape, EntryIsHere, AuthIsEntry, Sessions
  <2>12. Letters'
    <3>1. SUFFICES ASSUME NEW n \in Maps
                   PROVE  /\ \A g \in Fds : Has(Ring(n)', Asks(g)) => g \in Here(n)
                          /\ \A l \in Ids : Has(Ring(n)', Auths(l)) \/ Has(Ring(n)', Moves(l)) => l \in Logins
      BY <1>1, <2>11 DEF Letters
    <3>2. \A g \in Fds : Has(Ring(n)', Asks(g)) => g \in Here(n)
      BY <1>1, <2>7, <2>8 DEF Shape, Letters
    <3>3. \A l \in Ids : Has(Ring(n)', Auths(l)) \/ Has(Ring(n)', Moves(l)) => l \in Logins
      BY <1>1, <2>4, <2>7, <2>8 DEF Shape, Letters
    <3> QED BY <3>2, <3>3
  <2>13. Shape'
    <3>1. Players' /\ OneEach'
      BY <1>1, <2>11, PlayersKept DEF Shape, OneEach
    <3> QED BY <2>11, <2>12, <3>1 DEF Shape
  <2>14. ASSUME Sound' PROVE Paths' /\ Names'
    <3>1. Paths /\ Names /\ sess[m][f].waiting /\ sess[m][f].auth
      BY <1>1, <2>1, <2>4, <2>14 DEF IInv, Shape, Sessions
    <3>2. Has(Ring(m), Chain) /\ ~Has(r, Chain)
      BY <2>1, <2>5, <3>1 DEF Loses, Paths, Order
    <3>3. Active(m, f)
      BY <3>2 DEF Active
    <3>4. \A n \in Maps : \A g : Active(n, g)' => Active(n, g)
      BY <1>1, <2>8, <3>2 DEF Active
    <3>5. \A A, B : B \cap Chain = {} /\ Before(Ring(m), A, B) /\ ~Has(Ring(m), B) => Before(Ring(m)', A, B)
      <4> TAKE A, B
      <4> HAVE B \cap Chain = {} /\ Before(Ring(m), A, B) /\ ~Has(Ring(m), B)
      <4>1. y \notin B /\ ~Has(r, B) /\ Before(r, A, B)
        BY <2>5, <2>7 DEF Loses
      <4> QED BY <2>5, <4>1 DEF Gains
    <3>6. SeatIsOwn' /\ AskedByOwner' /\ AskedOnce'
      <4>1. SeatIsOwn'
        BY <1>1, <3>1 DEF Paths, SeatIsOwn
      <4>2. AskedByOwner'
        <5> SUFFICES ASSUME NEW n \in Maps, NEW k \in Clients, NEW g \in {0} \cup Fds, Has(Ring(n)', AuthsTo(client[k].id, g))
                     PROVE  client[k].at = "map" /\ client[k].map = n /\ client[k].fd = g
          BY <1>1 DEF AskedByOwner
        <5>1. Has(Ring(n), AuthsTo(client[k].id, g))
          BY <2>7, <2>8
        <5> QED BY <3>1, <5>1 DEF Paths, AskedByOwner
      <4>3. AskedOnce'
        BY <2>7, <2>8, <2>9, <3>1 DEF Paths, AskedOnce
      <4> QED BY <4>1, <4>2, <4>3
    <3>7. AnsweredOnce'
      BY <1>1, <2>7, <2>8, <2>9, <3>1 DEF Paths, AnsweredOnce
    <3>8. AsksLast'
      <4>1. SUFFICES ASSUME NEW n \in Maps, idb[n] # 0
                     PROVE  /\ Before(Ring(n)', Chain, Asks(idb[n]))
                            /\ Before(Ring(n)', Partings, Asks(idb[n]))
                            /\ Before(Ring(n)', Saves, Asks(idb[n]))
        BY <1>1 DEF AsksLast
      <4>2. /\ Before(Ring(n), Chain, Asks(idb[n])) /\ Before(Ring(n), Partings, Asks(idb[n]))
            /\ Before(Ring(n), Saves, Asks(idb[n]))
        BY <3>1, <4>1 DEF Paths, AsksLast
      <4>3. Before(Ring(n)', Partings, Asks(idb[n])) /\ Before(Ring(n)', Saves, Asks(idb[n]))
        BY <2>7, <2>10, <4>2
      <4>4. Before(Ring(n)', Chain, Asks(idb[n]))
        <5>1. CASE n = m
          <6>1. Asks(f) \cap Chain = {}
            BY DEF Asks, Chain
          <6>2. ~Has(Ring(m), Asks(f))
            BY <2>4, <3>1 DEF Paths, AnsweredOnce
          <6> QED BY <3>5, <4>2, <5>1, <6>1, <6>2 DEF f
        <5>2. CASE n # m
          BY <2>6, <4>2, <5>2
        <5> QED BY <5>1, <5>2
      <4> QED BY <4>3, <4>4
    <3>9. Order'
      <4>1. SUFFICES ASSUME NEW n \in Maps
                     PROVE  /\ Alone(Ring(n)', Chain)
                            /\ Before(Ring(n)', Saves, Partings)
                            /\ Before(Ring(n)', Saves \ Chain, Chain)
                            /\ Playing(n)' # {} => ~Has(Ring(n)', Chain)
                            /\ (\E g \in Fds : sess'[n][g].auth) => ~Has(Ring(n)', Partings)
        BY DEF Order
      <4>2. Before(Ring(n)', Saves, Partings) /\ Before(Ring(n)', Saves \ Chain, Chain)
        BY <2>7, <2>10, <3>1 DEF Paths, Order
      <4>3. (\E g \in Fds : sess'[n][g].auth) => ~Has(Ring(n)', Partings)
        BY <1>1, <2>7, <2>8, <3>1 DEF Paths, Order
      <4>4. CASE n = m
        <5>1. Alone(r, Chain)
          BY <2>5, <3>1 DEF Loses, Paths, Order
        <5>2. Alone(Ring(m)', Chain)
          BY <2>5, <3>2, <5>1 DEF Gains
        <5>3. Playing(m)' = {}
          BY <1>1, <3>1 DEF Playing, Shape, AuthIsEntry, f
        <5> QED BY <4>2, <4>3, <4>4, <5>2, <5>3
      <4>5. CASE n # m
        <5>1. Playing(n)' = Playing(n) /\ Ring(n)' = Ring(n)
          BY <1>1, <2>6, <4>5 DEF Playing
        <5> QED BY <3>1, <4>2, <4>3, <5>1 DEF Paths, Order
      <4> QED BY <4>4, <4>5
    <3>10. OwnerIsHere'
      BY <1>1, <2>11, <3>1, <3>4 DEF Paths, OwnerIsHere
    <3>11. AsksForItself'
      BY <1>1, <2>7, <2>8, <2>11, <3>1, <3>4 DEF Paths, AsksForItself
    <3>12. MoverStays'
      <4>1. SUFFICES ASSUME NEW n \in Maps, NEW l \in Ids, Has(Ring(n)', Moves(l))
                     PROVE  /\ \A n2 \in Maps : ~Has(Ring(n2)', Auths(l))
                            /\ \A k \in Clients : client[k].id = l => client[k].at = "map" /\ client[k].map = n
        BY <1>1 DEF MoverStays
      <4>2. CASE Has(Ring(n), Moves(l))
        BY <2>7, <2>8, <3>1, <4>2 DEF Paths, MoverStays
      <4>3. CASE n = m /\ l = j
        <5>1. \A n2 \in Maps, g \in {0} \cup Fds : Has(Ring(n2), AuthsTo(j, g)) => n2 = m /\ g = f
          BY <2>3, <2>4, <3>1, <3>3 DEF Paths, AsksForItself, i
        <5>2. ~Has(Ring(m), AuthsTo(j, f))
          <6>1. ~Has(Ring(m), Asks(f))
            BY <2>4, <3>1 DEF Paths, AnsweredOnce
          <6> QED BY <6>1 DEF Has, AuthsTo, Asks
        <5>3. \A n2 \in Maps : ~Has(Ring(n2), Auths(j))
          <6> SUFFICES ASSUME NEW n2 \in Maps, Has(Ring(n2), Auths(j)) PROVE FALSE
            OBVIOUS
          <6>1. PICK p \in DOMAIN Ring(n2) : Ring(n2)[p] \in Auths(j)
            BY DEF Has
          <6>2. /\ Ring(n2)[p].to \in {0} \cup Fds
                /\ Ring(n2)[p] \in AuthsTo(j, Ring(n2)[p].to)
            BY <6>1, UpFields, DownFields DEF Message, Auths, AuthsTo
          <6>3. Has(Ring(n2), AuthsTo(j, Ring(n2)[p].to))
            BY <6>1, <6>2 DEF Has
          <6> QED BY <5>1, <5>2, <6>2, <6>3
        <5>4. \A n2 \in Maps : ~Has(Ring(n2)', Auths(j))
          BY <2>7, <2>8, <5>3
        <5>5. \A k \in Clients : client[k].id = j => client[k].at = "map" /\ client[k].map = m
          BY <2>3, <2>4, <3>1, <3>3 DEF Paths, OwnerIsHere, i
        <5> QED BY <4>3, <5>4, <5>5
      <4> QED BY <2>7, <2>8, <4>1, <4>2, <4>3
    <3>13. \A n \in Maps : Busy(n)' => Busy(n)
      BY <1>1, <2>7, <2>8, <3>4 DEF Busy, Live
    <3>14. \A n \in Maps : \A l, c : Attempt(l, c, n)' => Attempt(l, c, n)
      BY <1>1, <2>7, <2>8 DEF Attempt
    <3>15. Names'
      <4>1. OneLogin'
        BY <1>1, <3>1 DEF Names, OneLogin
      <4>2. BusyIsOnline'
        BY <1>1, <3>1, <3>13 DEF Names, BusyIsOnline
      <4>3. AttemptsFollow'
        BY <1>1, <3>1, <3>13, <3>14 DEF Names, AttemptsFollow
      <4> QED BY <4>1, <4>2, <4>3 DEF Names
    <3> QED BY <3>6, <3>7, <3>8, <3>9, <3>10, <3>11, <3>12, <3>15 DEF Paths
  <2> QED BY <2>13, <2>14 DEF IInv
<1> QED BY <1>2, <1>3

\* The client of connection f goes on.
GoesOn(m, f) ==
  \A k \in Clients :
    \/ client'[k] = client[k]
    \/ /\ client[k].at = "map" /\ client[k].map = m /\ client[k].fd = f
       /\ client'[k].id = client[k].id
       /\ client'[k].at = "ticket" \/ (client'[k].at = "go" /\ client'[k].map \in Maps /\ client'[k].char \in Chars)

LEMMA GoesOnShape ==
  ASSUME IInv, TypeOK', NEW m \in Maps, MapReceives(m), UNCHANGED <<up, sess>>, NEW f, GoesOn(m, f)
  PROVE  Shape'
<1>1. Fine /\ Shape /\ UNCHANGED <<lastId, idb>> /\ Logins' = Logins /\ Taken' = Taken
  BY Hears DEF IInv, Shape, Fine
<1>2. RingsTame
  BY Heard
<1>3. EntryIsHere' /\ AuthIsEntry' /\ Sessions' /\ Letters' /\ \A n : Here(n)' = Here(n)
  BY <1>1, <1>2, KeepsShape
<1>4. Players'
  <2> SUFFICES ASSUME NEW k \in Clients PROVE ClientSound(k)'
    BY DEF Players
  <2>1. CASE client'[k] = client[k]
    BY <1>1, <1>3, <2>1, ClientStaysSound DEF Shape
  <2>2. CASE client'[k] # client[k]
    BY <1>1, <1>3, <2>2 DEF GoesOn, Shape, Players, ClientSound
  <2> QED BY <2>1, <2>2
<1>5. OneEach'
  <2>1. \A k \in Clients : client'[k].id = client[k].id
    BY DEF GoesOn
  <2> QED BY <1>1, <2>1 DEF Shape, OneEach
<1> QED BY <1>3, <1>4, <1>5 DEF Shape

LEMMA GoesOnPaths ==
  ASSUME IInv, Sound, NEW m \in Maps, MapReceives(m), UNCHANGED <<up, sess>>, TypeOK',
         idb[m] # 0, sess[m][idb[m]].waiting, Head(down[m]) \in Chain, GoesOn(m, idb[m])
  PROVE  Paths' /\ ~Has(Ring(m)', Chain)
<1>1. Fine /\ Shape /\ Paths /\ UNCHANGED <<lastId, idb, seat>>
  BY Hears DEF IInv, Shape, Fine
<1>2. RingsTame /\ SessionsKeep
  BY <1>1, Heard, SessionsUnchanged
<1>3. ~Has(Ring(m)', Chain)
  BY <1>1, Heard DEF Paths, Order, Loses
<1>4. idb[m] \in Fds /\ sess[m][idb[m]].auth
  BY <1>1, EntryFields DEF Shape, Sessions
<1>5. ~Has(Ring(m), Asks(idb[m]))
  BY <1>1, <1>4 DEF Paths, AnsweredOnce
<1>6. SeatsKeep
  BY <1>1 DEF SeatsKeep, GoesOn
<1>7. SeatIsOwn' /\ AskedOnce' /\ AnsweredOnce' /\ AsksLast' /\ Order' /\ AsksForItself'
  BY <1>1, <1>2, <1>6, KeepsSeatIsOwn, KeepsAskedOnce, KeepsAnsweredOnce, KeepsAsksLast, KeepsOrder, KeepsAsksForItself DEF Paths
<1>8. AskedByOwner'
  <2>1. SUFFICES ASSUME NEW n \in Maps, NEW k \in Clients, NEW g \in {0} \cup Fds, Has(Ring(n)', AuthsTo(client'[k].id, g))
                 PROVE  client'[k].at = "map" /\ client'[k].map = n /\ client'[k].fd = g
    BY DEF AskedByOwner
  <2>2. client'[k].id = client[k].id
    BY DEF GoesOn
  <2>3. Has(Ring(n), AuthsTo(client[k].id, g))
    BY <1>2, <2>1, <2>2 DEF RingsTame, Tame, TameHas
  <2>4. client[k].at = "map" /\ client[k].map = n /\ client[k].fd = g
    BY <1>1, <2>3 DEF Paths, AskedByOwner
  <2>5. Has(Ring(n), Asks(g))
    BY <2>3 DEF Has, AuthsTo, Asks
  <2>6. ~(n = m /\ g = idb[m])
    BY <1>5, <2>5
  <2> QED BY <2>4, <2>6 DEF GoesOn
<1>9. OwnerIsHere'
  <2>1. SUFFICES ASSUME NEW n \in Maps, NEW g \in Here(n)', NEW k \in Clients, Active(n, g)', client'[k].id = sess'[n][g].id
                 PROVE  client'[k].at = "map" /\ client'[k].map = n /\ client'[k].fd = g
    BY DEF OwnerIsHere
  <2>2. g \in Here(n) /\ Active(n, g) /\ client[k].id = sess[n][g].id
    BY <1>2, <2>1, KeepsActive DEF GoesOn
  <2>3. client[k].at = "map" /\ client[k].map = n /\ client[k].fd = g
    BY <1>1, <2>2 DEF Paths, OwnerIsHere
  <2>4. ~(n = m /\ g = idb[m])
    BY <1>3, <2>1 DEF Active
  <2> QED BY <2>3, <2>4 DEF GoesOn
<1>10. MoverStays'
  <2>1. SUFFICES ASSUME NEW n \in Maps, NEW i \in Ids, Has(Ring(n)', Moves(i))
                 PROVE  /\ \A n2 \in Maps : ~Has(Ring(n2)', Auths(i))
                        /\ \A k \in Clients : client'[k].id = i => client'[k].at = "map" /\ client'[k].map = n
    BY DEF MoverStays
  <2>2. n # m
    <3>1. Has(Ring(n)', Chain)
      BY <2>1 DEF Has, Moves, Chain
    <3> QED BY <1>3, <3>1
  <2>3. Has(Ring(n), Moves(i))
    BY <1>2, <2>1 DEF RingsTame, Tame, TameHas
  <2>4. \A n2 \in Maps : ~Has(Ring(n2)', Auths(i))
    BY <1>1, <1>2, <2>3 DEF Paths, MoverStays, RingsTame, Tame, TameHas
  <2>5. \A k \in Clients : client[k].id = i => client[k].at = "map" /\ client[k].map = n
    BY <1>1, <2>3 DEF Paths, MoverStays
  <2> QED BY <2>2, <2>4, <2>5 DEF GoesOn
<1> QED BY <1>3, <1>7, <1>8, <1>9, <1>10 DEF Paths

\* Nobody is busy once the session that moves has what it waited for.
LEMMA NobodyBusy ==
  ASSUME IInv, Sound, NEW m \in Maps, MapReceives(m), UNCHANGED <<up, sess>>, TypeOK', Shape',
         idb[m] # 0, sess[m][idb[m]].waiting, Head(down[m]) \in Chain, ~Has(Ring(m)', Chain)
  PROVE  \A n \in Maps : ~Busy(n)'
<1>1. Fine /\ TypeOK /\ Shape /\ Paths /\ Names /\ UNCHANGED <<lastId, idb, seat>>
  BY Hears DEF IInv, Shape, Fine
<1>2. down[m] # <<>> /\ down[m] \in Seq(Message) /\ up[m] \in Seq(Message)
  BY <1>1, RingTypes, Hears
<1>3. Loses(Ring(m), Ring(m)', Head(down[m])) /\ RingsTame /\ \A n \in Maps : NoNewAnswer(Ring(n), Ring(n)')
  BY Heard
<1>4. idb[m] \in Fds /\ sess[m][idb[m]].auth
  BY <1>1, EntryFields DEF Shape, Sessions
<1>5. ~Has(Ring(m)', Saves)
  <2>1. ~Has(Ring(m), Saves \ Chain)
    BY <1>1, <1>2, ReceivedBelow DEF Ring, Paths, Order
  <2>2. ~Has(Ring(m)', Saves \ Chain)
    BY <1>3, <2>1 DEF Loses
  <2> QED BY <2>2 DEF Has
<1>6. ~Has(Ring(m)', Answers(idb[m]))
  <2>1. ~Has(Ring(m), Asks(idb[m]))
    BY <1>1, <1>4 DEF Paths, AnsweredOnce
  <2>2. ~Has(Ring(m), Answers(idb[m]))
    BY <2>1 DEF Has, Answers, Asks
  <2> QED BY <1>3, <2>2 DEF NoNewAnswer
<1>7. ~Busy(m)'
  <2>1. ~Active(m, idb[m])'
    BY <1>1 DEF Active
  <2> QED BY <1>1, <1>5, <1>6, <2>1 DEF Busy, Live
<1>8. \A n \in Maps : Busy(n)' => Busy(n)
  BY <1>1, <1>3, KeepsBusy, SessionsUnchanged DEF Shape, Fine, RingsTame
<1>9. Busy(m)
  <2>1. Has(Ring(m), Chain)
    BY <1>3 DEF Loses
  <2> QED BY <1>4, <2>1 DEF Busy, Live, Active
<1>10. \A n \in Maps : Busy(n) => n = m
  BY <1>1, <1>9 DEF Names, BusyIsOnline
<1> QED BY <1>7, <1>8, <1>10

LEMMA StepProceed ==
  ASSUME IInv, TypeOK', NEW m \in Maps, MapReceives(m), Proceed(m, Head(down[m]))
  PROVE  IInv'
<1> DEFINE msg == Head(down[m])
           f   == idb[m]
           tick(k) == [client[k] EXCEPT !.at = "ticket", !.map = None, !.char = None, !.fd = 0]
           going(k) == [client[k] EXCEPT !.at = "go", !.map = msg.map, !.fd = 0]
<1>1. Fine /\ Shape /\ UNCHANGED <<lastId, idb, seat, online, up, sess>> /\ ForMap(auth') = ForMap(auth)
      /\ msg \in Message /\ msg \in DownMessage /\ crossed' = crossed
  BY Hears DEF IInv, Shape, Fine, Proceed
<1>2. RingsTame /\ \A n \in Maps : NoNewAnswer(Ring(n), Ring(n)')
  BY Heard, <1>1
<1>3. \A k \in Clients : client[k] \in Client
  BY <1>1, ClientFields
<1>4. CASE msg.op = "selectok"
  <2>1. /\ client' = [k \in Clients |-> IF client[k].at = "map" /\ client[k].map = m /\ client[k].fd = f THEN tick(k) ELSE client[k]]
        /\ mixed' = (mixed \/ (f # 0 /\ ~sess[m][f].waiting))
    BY <1>4 DEF Proceed, SendClient
  <2>2. \A k \in Clients : tick(k).at = "ticket" /\ tick(k).id = client[k].id
    BY <1>3 DEF Client
  <2>3. GoesOn(m, f)
    BY <2>1, <2>2 DEF GoesOn
  <2>4. AttemptsKeep
    BY <2>1, <2>2 DEF AttemptsKeep
  <2>5. Shape'
    BY <1>1, <2>3, GoesOnShape
  <2>6. ASSUME Sound' PROVE Paths' /\ Names'
    <3>1. Sound /\ (f # 0 => sess[m][f].waiting)
      BY <1>1, <2>1, <2>6 DEF Sound
    <3>2. Names'
      BY <1>1, <1>2, <2>4, <2>5, <3>1, KeepsNames, SessionsUnchanged DEF IInv
    <3>3. CASE f = 0
      <4>1. client' = client
        <5>1. \A k \in Clients : client'[k] = client[k]
          <6> TAKE k \in Clients
          <6>1. client[k].at = "map" => client[k].fd # 0
            BY <1>1, FdAssumption DEF Shape, Players, ClientSound, Here
          <6> QED BY <2>1, <3>3, <6>1
        <5>2. client \in [Clients -> Client] /\ client' \in [Clients -> Client]
          BY <1>1 DEF Fine, TypeOK, TypeOKMap
        <5> QED BY <5>1, <5>2
      <4>2. ClientsKeep /\ SeatsKeep
        BY <1>1, <4>1 DEF ClientsKeep, SeatsKeep
      <4> QED BY <1>1, <1>2, <3>1, <3>2, <4>2, KeepsPaths, SessionsUnchanged DEF IInv
    <3>4. CASE f # 0
      <4>1. msg \in Chain
        BY <1>1, <1>4 DEF Chain
      <4> QED BY <1>1, <2>3, <3>1, <3>2, <3>4, <4>1, GoesOnPaths
    <3> QED BY <3>3, <3>4
  <2> QED BY <2>5, <2>6 DEF IInv
<1>5. CASE msg.op = "moved" /\ client' = client
  <2>1. mixed' = mixed
    BY <1>5 DEF Proceed
  <2> QED BY <1>1, <1>5, <2>1, HeardInVain
<1>6. CASE msg.op = "moved" /\ client' # client
  <2>1. /\ client' = [k \in Clients |-> IF client[k].at = "map" /\ client[k].map = m /\ client[k].fd = f THEN going(k) ELSE client[k]]
        /\ mixed' = mixed /\ f # 0 /\ sess[m][f].auth
    BY <1>6 DEF Proceed, SendClient
  <2>2. \A k \in Clients : going(k).at = "go" /\ going(k).id = client[k].id /\ going(k).map = msg.map /\ going(k).char = client[k].char
    BY <1>3 DEF Client
  <2>3. GoesOn(m, f)
    <3>1. msg.map \in Maps
      BY <1>1, <1>6, DownFields
    <3>2. \A k \in Clients : client[k].at = "map" => client[k].char \in Chars
      BY <1>1 DEF Shape, Players, ClientSound
    <3> QED BY <2>1, <2>2, <3>1, <3>2 DEF GoesOn
  <2>4. Shape'
    BY <1>1, <2>3, GoesOnShape
  <2>5. ASSUME Sound' PROVE Paths' /\ Names'
    <3>1. Sound /\ msg \in Chain
      BY <1>1, <1>6, <2>1, <2>5 DEF Sound, Chain
    <3>2. sess[m][f].waiting
      <4>1. Has(Ring(m), Chain)
        BY <1>1, <3>1, Heard DEF Loses
      <4>2. f \in Fds /\ Playing(m) = {}
        BY <1>1, <2>1, <3>1, <4>1, EntryFields DEF IInv, Paths, Order
      <4> QED BY <2>1, <4>2 DEF Playing
    <3>3. Paths' /\ ~Has(Ring(m)', Chain)
      BY <1>1, <2>1, <2>3, <3>1, <3>2, GoesOnPaths
    <3>4. \A n \in Maps : ~Busy(n)'
      BY <1>1, <2>1, <2>4, <3>1, <3>2, <3>3, NobodyBusy
    <3>5. OneLogin
      BY <3>1 DEF IInv, Names
    <3> QED BY <1>1, <3>3, <3>4, <3>5 DEF Names, OneLogin, BusyIsOnline, AttemptsFollow
  <2> QED BY <2>4, <2>5 DEF IInv
<1> QED BY <1>4, <1>5, <1>6 DEF Proceed

LEMMA StepMapReceives ==
  ASSUME IInv, NEW m \in Maps, MapReceives(m)
  PROVE  IInv'
<1>1. TypeOK'
  BY TypeMapReceives DEF IInv, Shape, Fine
<1> QED BY <1>1, StepAccept, StepRefuse, StepSaved, StepProceed, StepKicked DEF MapReceives

-----------------------------------------------------------------------------
(* Saving and leaving *)

SaveMessage(s, final) == [op |-> "save", char |-> s.char, value |-> s.val, map |-> s.dest, final |-> final]

LEMMA SaveMessageIs ==
  ASSUME NEW s \in Session, s.char \in Chars, s.dest \in Maps, NEW final \in 0..3, NEW y, y = SaveMessage(s, final)
  PROVE  /\ y \in UpMessage /\ y \in Saves /\ (y \in Chain <=> final \in {2, 3}) /\ y \notin Partings
         /\ \A i : y \notin Auths(i) /\ y \notin Moves(i)
         /\ \A i, f : y \notin AuthsTo(i, f) /\ y \notin AuthsFor(i, f)
         /\ \A f : y \notin Asks(f) /\ y \notin Answers(f)
<1>1. /\ y \in UpMessage /\ y.op = "save" /\ y.final = final
  BY DEF UpMessage, Session, SaveMessage
<1>2. y \in Message
  BY <1>1, UpFields
<1> QED BY <1>1, <1>2 DEF Saves, Chain, Partings, Auths, Moves, AuthsTo, AuthsFor, Asks, Answers

\* While a player is in the world, nothing says that the session ends.
LEMMA PlayingAlone ==
  ASSUME IInv, Sound, NEW m \in Maps, NEW f \in Playing(m)
  PROVE  /\ ~Has(Ring(m), Chain) /\ ~Has(Ring(m), Partings) /\ ~Has(Ring(m), Asks(f)) /\ Busy(m)
         /\ \A g \in Here(m) : ~sess[m][g].waiting
<1>1. Shape /\ Paths
  BY DEF IInv
<1>2. f \in Fds /\ f \in Here(m) /\ idb[m] = f /\ f # 0 /\ sess[m][f].auth /\ ~sess[m][f].waiting
  BY <1>1, PlayingIs
<1>3. ~Has(Ring(m), Chain) /\ ~Has(Ring(m), Partings) /\ ~Has(Ring(m), Asks(f))
  BY <1>1, <1>2 DEF Paths, Order, AnsweredOnce
<1>4. Busy(m)
  BY <1>2 DEF Busy, Live, Active
<1>5. \A g \in Here(m) : ~sess[m][g].waiting
  BY <1>1, <1>2 DEF Shape, Sessions, AuthIsEntry, Here
<1> QED BY <1>3, <1>4, <1>5

\* A session in the world is saved, and then leaves if it is for the last time.
LEMMA SavedPaths ==
  ASSUME IInv, Sound, NEW m \in Maps, NEW f \in Playing(m), NEW y \in UpMessage,
         Gains(Ring(m), Ring(m)', y), \A n \in Maps \ {m} : Ring(n)' = Ring(n),
         y \in Saves, y \notin Partings,
         \A i : y \notin Auths(i) /\ y \notin Moves(i),
         \A i, g : y \notin AuthsTo(i, g) /\ y \notin AuthsFor(i, g),
         \A g : y \notin Asks(g) /\ y \notin Answers(g),
         UNCHANGED <<client, seat, idb, auth, online>>,
         \A n \in Maps : Here(n)' = Here(n) /\ Playing(n)' \subseteq Playing(n),
         y \in Chain => Playing(m)' = {},
         \A n \in Maps : n # m => sess'[n] = sess[n],
         \A g \in Fds : sess'[m][g].auth = sess[m][g].auth /\ sess'[m][g].id = sess[m][g].id
  PROVE  Paths' /\ Names'
<1>1. Shape /\ Paths /\ Names
  BY DEF IInv
<1>2. ~Has(Ring(m), Chain) /\ ~Has(Ring(m), Partings) /\ ~Has(Ring(m), Asks(f)) /\ Busy(m)
      /\ \A g \in Here(m) : ~sess[m][g].waiting
  BY PlayingAlone
<1>3. idb[m] = f /\ f \in Fds /\ f # 0
  BY <1>1, PlayingIs
<1>4. \A n \in Maps : \A A : Has(Ring(n)', A) => Has(Ring(n), A) \/ (n = m /\ y \in A)
  BY DEF Gains
<1>5. \A n \in Maps : \A A : Alone(Ring(n), A) /\ (n = m /\ y \in A => ~Has(Ring(n), A)) => Alone(Ring(n)', A)
  <2> TAKE n \in Maps
  <2> TAKE A
  <2>1. CASE n = m
    BY <2>1 DEF Gains
  <2>2. CASE n # m
    BY <2>2
  <2> QED BY <2>1, <2>2
<1>6. \A n \in Maps : \A A, B : Before(Ring(n), A, B) /\ (n = m /\ y \in A => y \notin B /\ ~Has(Ring(n), B)) => Before(Ring(n)', A, B)
  <2> TAKE n \in Maps
  <2> TAKE A, B
  <2>1. CASE n = m
    BY <2>1 DEF Gains
  <2>2. CASE n # m
    BY <2>2
  <2> QED BY <2>1, <2>2
<1>7. \A n \in Maps, g \in Fds : sess'[n][g].auth = sess[n][g].auth /\ sess'[n][g].id = sess[n][g].id
  BY DEF Gains
<1>8. \A n \in Maps : \A g \in Here(n) : Active(n, g)' => Active(n, g)
  <2> TAKE n \in Maps
  <2> TAKE g \in Here(n)
  <2>1. CASE n = m
    BY <1>2, <2>1 DEF Active
  <2>2. CASE n # m
    BY <2>2 DEF Active
  <2> QED BY <2>1, <2>2
<1>9. SeatIsOwn' /\ AskedOnce'
  <2>1. SeatIsOwn'
    BY <1>1 DEF Paths, SeatIsOwn
  <2>2. AskedOnce'
    BY <1>1, <1>4, <1>5 DEF Paths, AskedOnce
  <2> QED BY <2>1, <2>2
<1>10. AskedByOwner'
  <2> SUFFICES ASSUME NEW n \in Maps, NEW k \in Clients, NEW g \in {0} \cup Fds, Has(Ring(n)', AuthsTo(client[k].id, g))
               PROVE  client[k].at = "map" /\ client[k].map = n /\ client[k].fd = g
    BY DEF AskedByOwner
  <2>1. Has(Ring(n), AuthsTo(client[k].id, g))
    BY <1>4
  <2> QED BY <1>1, <2>1 DEF Paths, AskedByOwner
<1>11. AnsweredOnce'
  BY <1>1, <1>4, <1>5, <1>7 DEF Paths, AnsweredOnce
<1>12. AsksLast'
  <2>1. SUFFICES ASSUME NEW n \in Maps, idb[n] # 0
                 PROVE  /\ Before(Ring(n)', Chain, Asks(idb[n]))
                        /\ Before(Ring(n)', Partings, Asks(idb[n]))
                        /\ Before(Ring(n)', Saves, Asks(idb[n]))
    BY DEF AsksLast
  <2>2. n = m => ~Has(Ring(n), Asks(idb[n]))
    BY <1>2, <1>3
  <2> QED BY <1>1, <1>6, <2>1, <2>2 DEF Paths, AsksLast
<1>13. Order'
  <2>1. SUFFICES ASSUME NEW n \in Maps
                 PROVE  /\ Alone(Ring(n)', Chain)
                        /\ Before(Ring(n)', Saves, Partings)
                        /\ Before(Ring(n)', Saves \ Chain, Chain)
                        /\ Playing(n)' # {} => ~Has(Ring(n)', Chain)
                        /\ (\E g \in Fds : sess'[n][g].auth) => ~Has(Ring(n)', Partings)
    BY DEF Order
  <2>2. Alone(Ring(n)', Chain)
    BY <1>1, <1>2, <1>5 DEF Paths, Order
  <2>3. Before(Ring(n)', Saves, Partings)
    BY <1>1, <1>2, <1>6 DEF Paths, Order
  <2>4. Before(Ring(n)', Saves \ Chain, Chain)
    <3>1. y \in Saves \ Chain => y \notin Chain
      OBVIOUS
    <3> QED BY <1>1, <1>2, <1>6, <3>1 DEF Paths, Order
  <2>5. Playing(n)' # {} => ~Has(Ring(n)', Chain)
    BY <1>1, <1>4 DEF Paths, Order
  <2>6. (\E g \in Fds : sess'[n][g].auth) => ~Has(Ring(n)', Partings)
    BY <1>1, <1>4, <1>7 DEF Paths, Order
  <2> QED BY <2>2, <2>3, <2>4, <2>5, <2>6
<1>14. OwnerIsHere'
  <2>1. SUFFICES ASSUME NEW n \in Maps, NEW g \in Here(n), NEW k \in Clients, Active(n, g)', client[k].id = sess'[n][g].id
                 PROVE  client[k].at = "map" /\ client[k].map = n /\ client[k].fd = g
    BY DEF OwnerIsHere
  <2>2. g \in Fds
    BY DEF Here
  <2> QED BY <1>1, <1>7, <1>8, <2>1, <2>2 DEF Paths, OwnerIsHere
<1>15. AsksForItself'
  <2>1. SUFFICES ASSUME NEW n1 \in Maps, NEW n2 \in Maps, NEW h \in Here(n1), NEW g \in {0} \cup Fds,
                        Active(n1, h)', Has(Ring(n2)', AuthsTo(sess'[n1][h].id, g))
                 PROVE  n2 = n1 /\ g = h
    BY DEF AsksForItself
  <2>2. h \in Fds
    BY DEF Here
  <2>3. Has(Ring(n2), AuthsTo(sess[n1][h].id, g))
    BY <1>4, <1>7, <2>1, <2>2
  <2> QED BY <1>1, <1>8, <2>1, <2>3 DEF Paths, AsksForItself
<1>16. MoverStays'
  BY <1>1, <1>4 DEF Paths, MoverStays
<1>17. \A n \in Maps : Busy(n)' => Busy(n)
  <2> TAKE n \in Maps
  <2>1. CASE n = m
    BY <1>2, <2>1
  <2>2. CASE n # m
    BY <2>2 DEF Busy, Live, Active
  <2> QED BY <2>1, <2>2
<1>18. \A n \in Maps : \A j, c : Attempt(j, c, n)' => Attempt(j, c, n)
  BY <1>4 DEF Attempt
<1>19. OneLogin' /\ BusyIsOnline' /\ AttemptsFollow'
  BY <1>1, <1>17, <1>18 DEF Names, OneLogin, BusyIsOnline, AttemptsFollow
<1> QED BY <1>9, <1>10, <1>11, <1>12, <1>13, <1>14, <1>15, <1>16, <1>19 DEF Paths, Names

LEMMA SavedLetters ==
  ASSUME Letters, Logins' = Logins, \A n \in Maps : Here(n)' = Here(n),
         NEW m \in Maps, NEW y, Gains(Ring(m), Ring(m)', y), \A n \in Maps \ {m} : Ring(n)' = Ring(n),
         \A i : y \notin Auths(i) /\ y \notin Moves(i), \A g : y \notin Asks(g)
  PROVE  Letters'
<1>1. \A n \in Maps : \A A : Has(Ring(n)', A) => Has(Ring(n), A) \/ (n = m /\ y \in A)
  BY DEF Gains
<1> QED BY <1>1 DEF Letters

LEMMA StepAutosave ==
  ASSUME IInv, NEW m \in Maps, Autosave(m)
  PROVE  IInv'
<1>1. Fine /\ Shape /\ TypeOK
  BY DEF IInv, Shape, Fine
<1>2. TypeOK'
  BY <1>1, TypeAutosave
<1>3. PICK f \in Playing(m) : up' = [up EXCEPT ![m] = @ \o SaveOf(sess[m][f], 0)]
  BY DEF Autosave, Send
<1>4. UNCHANGED <<client, lastId, seat, auth, online, mixed, crossed, down, sess, idb>>
  BY DEF Autosave, logins, chars, maps
<1>5. f \in Here(m) /\ ~sess[m][f].waiting /\ sess[m][f] \in Session /\ sess[m][f].char \in Chars /\ sess[m][f].dest \in Maps
  BY <1>1, PlayingIs, SessionFields
<1> DEFINE y == SaveMessage(sess[m][f], 0)
<1>6. /\ y \in UpMessage /\ y \in Saves /\ y \notin Chain /\ y \notin Partings
      /\ \A i : y \notin Auths(i) /\ y \notin Moves(i)
      /\ \A i, g : y \notin AuthsTo(i, g) /\ y \notin AuthsFor(i, g)
      /\ \A g : y \notin Asks(g) /\ y \notin Answers(g)
  BY <1>5, SaveMessageIs
<1>7. up' = [up EXCEPT ![m] = @ \o <<y>>]
  BY <1>3, <1>5 DEF SaveOf, SaveMessage
<1> HIDE DEF y
<1>8. Gains(Ring(m), Ring(m)', y) /\ \A n \in Maps \ {m} : Ring(n)' = Ring(n)
  BY <1>1, <1>4, <1>6, <1>7, RingSays
<1>9. \A n : Here(n)' = Here(n) /\ Playing(n)' = Playing(n)
  BY <1>4 DEF Here, Playing
<1>10. Logins' = Logins /\ Taken' = Taken /\ (Sound' => Sound)
  BY <1>4 DEF Logins, Taken, Sound
<1>11. Shape'
  <2>1. EntryIsHere' /\ AuthIsEntry' /\ Sessions'
    BY <1>1, <1>4, <1>9, <1>10 DEF Shape, EntryIsHere, AuthIsEntry, Sessions
  <2>2. Players' /\ OneEach'
    BY <1>1, <1>4, <1>9, <1>10, PlayersKept DEF Shape, OneEach
  <2>3. Letters'
    BY <1>1, <1>6, <1>8, <1>9, <1>10, SavedLetters DEF Shape
  <2> QED BY <1>2, <2>1, <2>2, <2>3 DEF Shape
<1>12. ASSUME Sound' PROVE Paths' /\ Names'
  BY <1>4, <1>6, <1>8, <1>9, <1>10, <1>12, SavedPaths
<1> QED BY <1>11, <1>12 DEF IInv

LEMMA StepLeave ==
  ASSUME IInv, NEW m \in Maps, NEW f \in Fds, NEW final \in {2, 3}, NEW n \in Maps, Leave(m, f, final, n)
  PROVE  IInv'
<1>1. Fine /\ Shape /\ TypeOK
  BY DEF IInv, Shape, Fine
<1>2. TypeOK'
  BY <1>1, TypeLeave
<1>3. /\ UNCHANGED <<client, lastId, seat, auth, online, mixed, crossed, down, idb>> /\ f \in Playing(m)
      /\ up' = [up EXCEPT ![m] = @ \o SaveOf([sess[m][f] EXCEPT !.dest = n], final)]
      /\ sess' = [sess EXCEPT ![m][f].waiting = TRUE, ![m][f].dest = n]
  BY DEF Leave, Send, logins, chars
<1>4. /\ f \in Here(m) /\ ~sess[m][f].waiting /\ sess[m][f].auth /\ sess[m][f] \in Session /\ sess[m][f].char \in Chars
      /\ idb[m] = f /\ sess[m][f].twin # -1
  BY <1>1, <1>3, PlayingIs, SessionFields
<1> DEFINE t == [sess[m][f] EXCEPT !.waiting = TRUE, !.dest = n]
           u == [sess[m][f] EXCEPT !.dest = n]
           y == SaveMessage(u, final)
<1>5. /\ t \in Session /\ t.waiting /\ t.dest = n
      /\ t.char = sess[m][f].char /\ t.id = sess[m][f].id /\ t.auth = sess[m][f].auth /\ t.twin = sess[m][f].twin
  BY <1>4 DEF Session
<1>6. u \in Session /\ u.char \in Chars /\ u.dest \in Maps /\ u.waiting = sess[m][f].waiting
  BY <1>4 DEF Session
<1>7. Touched(m, f, t)
  <2>1. sess \in [Maps -> [Fds -> Session]]
    BY <1>1 DEF TypeOK, TypeOKMap
  <2>2. sess' = [sess EXCEPT ![m] = [sess[m] EXCEPT ![f] = t]]
    BY <1>3, <2>1
  <2> HIDE DEF t
  <2> QED BY <2>1, <2>2 DEF Touched
<1> HIDE DEF t, u
<1>8. up' = [up EXCEPT ![m] = @ \o <<y>>]
  BY <1>3, <1>4, <1>6 DEF SaveOf, SaveMessage, u
<1>9. /\ y \in UpMessage /\ y \in Saves /\ y \notin Partings
      /\ \A i : y \notin Auths(i) /\ y \notin Moves(i)
      /\ \A i, g : y \notin AuthsTo(i, g) /\ y \notin AuthsFor(i, g)
      /\ \A g : y \notin Asks(g) /\ y \notin Answers(g)
  BY <1>6, SaveMessageIs
<1> HIDE DEF y
<1>10. Gains(Ring(m), Ring(m)', y) /\ \A l \in Maps \ {m} : Ring(l)' = Ring(l)
  BY <1>1, <1>3, <1>8, <1>9, RingSays
<1>11. Logins' = Logins /\ Taken' = Taken /\ (Sound' => Sound)
  BY <1>3 DEF Logins, Taken, Sound
<1>12. EntryIsHere' /\ AuthIsEntry' /\ Sessions' /\ \A l \in Maps : Here(l)' = Here(l)
  BY <1>1, <1>3, <1>4, <1>5, <1>7, TouchedSession
<1>13. Shape'
  <2>1. Players' /\ OneEach'
    BY <1>1, <1>3, <1>11, <1>12, PlayersKept DEF Shape, OneEach
  <2>2. Letters'
    BY <1>1, <1>9, <1>10, <1>11, <1>12, SavedLetters DEF Shape
  <2> QED BY <1>2, <1>12, <2>1, <2>2 DEF Shape
<1>14. ASSUME Sound' PROVE Paths' /\ Names'
  <2>1. \A g \in Fds : sess'[m][g].auth = sess[m][g].auth /\ sess'[m][g].id = sess[m][g].id
    BY <1>5, <1>7 DEF Touched
  <2>2. \A l \in Maps : l # m => sess'[l] = sess[l]
    BY <1>1, <1>3 DEF TypeOK, TypeOKMap
  <2>3. Playing(m)' = {}
    <3>1. \A g \in Fds : sess[m][g].auth => g = f
      BY <1>1, <1>4 DEF Shape, AuthIsEntry
    <3>2. sess'[m][f].waiting
      BY <1>5, <1>7 DEF Touched
    <3> QED BY <2>1, <3>1, <3>2 DEF Playing
  <2>4. \A l \in Maps : Playing(l)' \subseteq Playing(l)
    BY <2>2, <2>3 DEF Playing
  <2> QED BY <1>3, <1>9, <1>10, <1>11, <1>12, <1>14, <2>1, <2>2, <2>3, <2>4, SavedPaths
<1> QED BY <1>13, <1>14 DEF IInv

-----------------------------------------------------------------------------
(* The link breaks *)

LEMMA BreaksIs ==
  ASSUME Fine, NEW m \in Maps, LinkBreaks(m)
  PROVE  /\ Ring(m)' = <<>> /\ \A n \in Maps \ {m} : Ring(n)' = Ring(n) /\ Here(n)' = Here(n)
         /\ \A n \in Maps \ {m} : sess'[n] = sess[n] /\ idb'[n] = idb[n]
         /\ \A f \in Fds : sess'[m][f] = IF f \in Playing(m) THEN NoSession ELSE sess[m][f]
         /\ idb'[m] = IF idb[m] \in Playing(m) THEN 0 ELSE idb[m]
         /\ Here(m)' = Here(m) \ Playing(m) /\ Playing(m)' = {}
         /\ \A k \in Clients : client'[k] = IF client[k].at = "map" /\ client[k].map = m /\ client[k].fd \in Playing(m)
                                            THEN Outside ELSE client[k]
         /\ online' = IF online = m THEN None ELSE online
         /\ UNCHANGED <<seat, auth, mixed, crossed, lastId>>
<1>1. /\ sess \in [Maps -> [Fds -> Session]] /\ idb \in [Maps -> {0} \cup Fds]
      /\ up \in [Maps -> Seq(UpMessage)] /\ down \in [Maps -> Seq(DownMessage)]
  BY DEF Fine, TypeOK, TypeOKMap
<1>2. /\ up' = [up EXCEPT ![m] = <<>>] /\ down' = [down EXCEPT ![m] = <<>>]
      /\ sess' = [sess EXCEPT ![m] = [f \in Fds |-> IF f \in Playing(m) THEN NoSession ELSE sess[m][f]]]
      /\ idb' = [idb EXCEPT ![m] = IF idb[m] \in Playing(m) THEN 0 ELSE idb[m]]
  BY DEF LinkBreaks
<1>3. /\ \A k \in Clients : client'[k] = IF client[k].at = "map" /\ client[k].map = m /\ client[k].fd \in Playing(m)
                                         THEN Outside ELSE client[k]
      /\ online' = IF online = m THEN None ELSE online
      /\ UNCHANGED <<seat, auth, mixed, crossed, lastId>>
  BY DEF LinkBreaks, logins
<1>4. Ring(m)' = <<>> /\ \A n \in Maps \ {m} : Ring(n)' = Ring(n)
  BY <1>1, <1>2 DEF Ring
<1>5. /\ \A n \in Maps \ {m} : sess'[n] = sess[n] /\ idb'[n] = idb[n]
      /\ \A f \in Fds : sess'[m][f] = IF f \in Playing(m) THEN NoSession ELSE sess[m][f]
      /\ idb'[m] = IF idb[m] \in Playing(m) THEN 0 ELSE idb[m]
  BY <1>1, <1>2
<1>6. \A n \in Maps \ {m} : Here(n)' = Here(n)
  BY <1>5 DEF Here
<1>7. Here(m)' = Here(m) \ Playing(m)
  BY <1>5 DEF Here
<1>8. Playing(m)' = {}
  <2>1. ~NoSession.auth
    BY DEF NoSession
  <2> QED BY <1>5, <2>1 DEF Playing
<1> QED BY <1>3, <1>4, <1>5, <1>6, <1>7, <1>8

LEMMA BreaksShape ==
  ASSUME Shape, NEW m \in Maps, LinkBreaks(m)
  PROVE  Shape'
<1>0. Fine /\ TypeOK'
  BY TypeLinkBreaks DEF Shape, Fine
<1>1. /\ Ring(m)' = <<>> /\ \A n \in Maps \ {m} : Ring(n)' = Ring(n) /\ Here(n)' = Here(n)
      /\ \A n \in Maps \ {m} : sess'[n] = sess[n] /\ idb'[n] = idb[n]
      /\ \A f \in Fds : sess'[m][f] = IF f \in Playing(m) THEN NoSession ELSE sess[m][f]
      /\ idb'[m] = IF idb[m] \in Playing(m) THEN 0 ELSE idb[m]
      /\ Here(m)' = Here(m) \ Playing(m)
      /\ \A k \in Clients : client'[k] = IF client[k].at = "map" /\ client[k].map = m /\ client[k].fd \in Playing(m)
                                         THEN Outside ELSE client[k]
      /\ UNCHANGED <<seat, lastId>>
  BY <1>0, BreaksIs
<1>2. Logins' = Logins /\ Taken' = Taken
  BY <1>1 DEF Logins, Taken
<1>3. ~NoSession.auth
  BY DEF NoSession
<1>4. EntryIsHere'
  BY <1>1 DEF Shape, EntryIsHere, Here
<1>5. AuthIsEntry'
  <2> SUFFICES ASSUME NEW n \in Maps, NEW f \in Fds, sess'[n][f].auth PROVE idb'[n] = f
    BY DEF AuthIsEntry
  <2>1. sess[n][f].auth /\ (n = m => f \notin Playing(m))
    BY <1>1, <1>3
  <2>2. idb[n] = f
    BY <2>1 DEF Shape, AuthIsEntry
  <2> QED BY <1>1, <2>1, <2>2
<1>6. Sessions'
  <2> SUFFICES ASSUME NEW n \in Maps, NEW f \in Here(n)'
               PROVE  /\ sess'[n][f].char \in Chars /\ sess'[n][f].dest \in Maps /\ sess'[n][f].id \in Logins
                      /\ sess'[n][f].waiting => sess'[n][f].auth
                      /\ sess'[n][f].dest # n => sess'[n][f].waiting
    BY <1>2 DEF Sessions
  <2>1. f \in Here(n) /\ f \in Fds /\ sess'[n][f] = sess[n][f]
    BY <1>1 DEF Here
  <2> QED BY <2>1 DEF Shape, Sessions
<1>7. Players'
  <2> SUFFICES ASSUME NEW k \in Clients PROVE ClientSound(k)'
    BY DEF Players
  <2>0. ClientSound(k)
    BY DEF Shape, Players
  <2>1. CASE client'[k] = Outside
    BY <2>1 DEF ClientSound, Outside
  <2>2. CASE client'[k] = client[k]
    <3>1. client[k].at = "map" => client[k].fd \in Here(client[k].map)'
      <4>1. client[k].at = "map" => ~(client[k].map = m /\ client[k].fd \in Playing(m)) \/ client[k] = Outside
        BY <1>1, <2>2
      <4>2. Outside.at = "out"
        BY DEF Outside
      <4> QED BY <1>1, <2>0, <4>1, <4>2 DEF ClientSound
    <3> QED BY <1>2, <2>0, <2>2, <3>1 DEF ClientSound
  <2> QED BY <1>1, <2>1, <2>2
<1>8. OneEach'
  <2>1. Outside.id = 0
    BY DEF Outside
  <2>2. \A k \in Clients : client'[k].id # 0 => client'[k] = client[k]
    BY <1>1, <2>1
  <2> QED BY <2>2 DEF Shape, OneEach
<1>9. Letters'
  <2>1. \A A : ~Has(Ring(m)', A)
    BY <1>1, EmptyIsTame
  <2>2. \A n \in Maps : n = m \/ (Ring(n)' = Ring(n) /\ Here(n)' = Here(n))
    BY <1>1
  <2> QED BY <1>2, <2>1, <2>2 DEF Shape, Letters
<1> QED BY <1>0, <1>4, <1>5, <1>6, <1>7, <1>8, <1>9 DEF Shape

LEMMA StepLinkBreaks ==
  ASSUME IInv, NEW m \in Maps, LinkBreaks(m)
  PROVE  IInv'
<1>0. Shape /\ Fine /\ Shape' /\ Fine'
  BY BreaksShape DEF IInv, Shape, Fine
<1>1. /\ Ring(m)' = <<>> /\ \A n \in Maps \ {m} : Ring(n)' = Ring(n) /\ Here(n)' = Here(n)
      /\ \A n \in Maps \ {m} : sess'[n] = sess[n] /\ idb'[n] = idb[n]
      /\ \A f \in Fds : sess'[m][f] = IF f \in Playing(m) THEN NoSession ELSE sess[m][f]
      /\ idb'[m] = IF idb[m] \in Playing(m) THEN 0 ELSE idb[m]
      /\ Here(m)' = Here(m) \ Playing(m) /\ Playing(m)' = {}
      /\ \A k \in Clients : client'[k] = IF client[k].at = "map" /\ client[k].map = m /\ client[k].fd \in Playing(m)
                                         THEN Outside ELSE client[k]
      /\ online' = IF online = m THEN None ELSE online
      /\ UNCHANGED <<seat, auth, mixed, crossed, lastId>>
  BY <1>0, BreaksIs
<1>2. SUFFICES ASSUME Sound' PROVE Paths' /\ Names'
  BY <1>0 DEF IInv
<1>3. Paths /\ Names
  BY <1>1, <1>2 DEF IInv, Sound
<1>4. \A n \in Maps : Tame(Ring(n), Ring(n)') /\ NoNewAnswer(Ring(n), Ring(n)')
  <2> TAKE n \in Maps
  <2>1. Ring(n)' = <<>> \/ Ring(n)' = Ring(n)
    BY <1>1
  <2> QED BY <2>1, EmptyIsTame, SameIsTame
<1>5. RingsTame
  BY <1>4 DEF RingsTame
<1>6. \A k \in Clients : client'[k] = Outside \/ client'[k] = client[k]
  BY <1>1
<1>7. ClientsKeep /\ SeatsKeep /\ AttemptsKeep
  <2>1. Outside.at = "out" /\ Outside.id = 0 /\ 0 \notin Logins
    BY <1>0 DEF Outside, Logins, Shape, TypeOK, TypeOKLogin
  <2>2. 0 \notin Logins'
    BY <1>1, <2>1 DEF Logins
  <2> QED BY <1>1, <1>6, <2>1, <2>2 DEF ClientsKeep, SeatsKeep, AttemptsKeep
<1>8. SessionsKeep
  <2> SUFFICES ASSUME NEW n \in Maps
               PROVE  /\ idb'[n] \in {0, idb[n]}
                      /\ \A f \in Here(n)' : /\ f \in Here(n)
                                             /\ sess'[n][f].auth = sess[n][f].auth
                                             /\ sess'[n][f].waiting = sess[n][f].waiting
                                             /\ sess'[n][f].id = sess[n][f].id
    BY DEF SessionsKeep
  <2> QED BY <1>1 DEF Here
<1>9. Paths'
  BY <1>0, <1>3, <1>5, <1>7, <1>8, KeepsPaths
<1>10. \A n \in Maps : Busy(n)' => Busy(n)
  BY <1>0, <1>4, <1>8, KeepsBusy
<1>11. ~Busy(m)'
  <2>1. \A A : ~Has(Ring(m)', A)
    BY <1>1, EmptyIsTame
  <2>2. SUFFICES ASSUME NEW g \in Fds, sess'[m][g].auth, ~sess'[m][g].waiting, idb'[m] = g PROVE FALSE
    <3>1. idb'[m] \in {0} \cup Fds
      BY <1>0 DEF Shape, TypeOK, TypeOKMap
    <3> QED BY <2>1, <3>1 DEF Busy, Live, Active
  <2> QED BY <1>1, <2>2 DEF Playing
<1>12. BusyIsOnline'
  BY <1>1, <1>3, <1>10, <1>11 DEF Names, BusyIsOnline
<1>13. ForMap(auth') \subseteq ForMap(auth)
  BY <1>1
<1> QED BY <1>3, <1>5, <1>7, <1>9, <1>10, <1>12, <1>13, KeepsOneLogin, KeepsAttemptsFollow DEF Names

-----------------------------------------------------------------------------
(* A connection is closed *)

Parting == [op |-> "gone"]

LEMMA PartingIs ==
  /\ Parting \in UpMessage /\ Parting \in Partings /\ Parting \notin Saves /\ Parting \notin Chain
  /\ \A i : Parting \notin Auths(i) /\ Parting \notin Moves(i)
  /\ \A i, g : Parting \notin AuthsTo(i, g) /\ Parting \notin AuthsFor(i, g)
  /\ \A g : Parting \notin Asks(g) /\ Parting \notin Answers(g)
<1>1. Parting \in UpMessage /\ Parting.op = "gone"
  BY DEF Parting, UpMessage
<1>2. Parting \in Message
  BY <1>1, UpFields
<1> QED BY <1>1, <1>2 DEF Partings, Saves, Chain, Auths, Moves, AuthsTo, AuthsFor, Asks, Answers

LEMMA LastWordsAre ==
  ASSUME NEW s, s.auth => s.twin # -1, NEW u \in Seq(UpMessage), SaveMessage(s, 1) \in UpMessage
  PROVE  u \o LastWords(s) = IF ~s.auth THEN u
                             ELSE IF s.waiting THEN Append(u, Parting)
                             ELSE Append(Append(u, SaveMessage(s, 1)), Parting)
<1> DEFINE x == SaveMessage(s, 1)
<1>1. Parting \in UpMessage
  BY PartingIs
<1>2. CASE ~s.auth
  BY <1>2 DEF LastWords
<1>3. CASE s.auth /\ s.waiting
  <2>1. LastWords(s) = <<>> \o <<Parting>>
    BY <1>3 DEF LastWords, SaveOf, Parting
  <2>2. LastWords(s) = <<Parting>>
    BY <1>1, <2>1
  <2> QED BY <1>1, <1>3, <2>2
<1>4. CASE s.auth /\ ~s.waiting
  <2>1. LastWords(s) = <<x>> \o <<Parting>>
    BY <1>4 DEF LastWords, SaveOf, SaveMessage, Parting
  <2> HIDE DEF x
  <2>2. x \in UpMessage
    BY DEF x
  <2>3. <<x>> \in Seq(UpMessage) /\ <<Parting>> \in Seq(UpMessage)
    BY <1>1, <2>2
  <2>4. u \o (<<x>> \o <<Parting>>) = (u \o <<x>>) \o <<Parting>>
    BY <2>3, ConcatAssociative
  <2>5. u \o <<x>> = Append(u, x) /\ Append(u, x) \in Seq(UpMessage)
    BY <2>2
  <2>6. Append(u, x) \o <<Parting>> = Append(Append(u, x), Parting)
    BY <1>1, <2>5
  <2> QED BY <1>4, <2>1, <2>4, <2>5, <2>6 DEF x
<1> QED BY <1>2, <1>3, <1>4

\* What comes to the ring of a map server that closes connection f.
ClosedHas(q, r, f, entered, playing) ==
  /\ Has(r, Chain) => Has(q, Chain)
  /\ Has(r, Saves) => Has(q, Saves) \/ playing
  /\ Has(r, Partings) => Has(q, Partings) \/ entered
  /\ \A i : Has(r, Auths(i)) => Has(q, Auths(i))
  /\ \A i : Has(r, Moves(i)) => Has(q, Moves(i))
  /\ \A i, c : Has(r, AuthsFor(i, c)) => Has(q, AuthsFor(i, c))
  /\ \A g \in Fds : Has(r, Asks(g)) => g # f /\ Has(q, Asks(g))
  /\ \A g \in Fds : Has(r, Answers(g)) => g # f /\ Has(q, Answers(g))
  /\ \A i : \A g \in Fds : Has(r, AuthsTo(i, g)) => g # f /\ Has(q, AuthsTo(i, g))
  /\ \A i : Has(r, AuthsTo(i, 0)) => Has(q, AuthsTo(i, 0)) \/ Has(q, AuthsTo(i, f))

ClosedOrder(q, r, entered, playing) ==
  /\ Alone(q, Chain) => Alone(r, Chain)
  /\ \A i : Alone(q, Auths(i)) => Alone(r, Auths(i))
  /\ \A g \in Fds : Alone(q, Asks(g)) => Alone(r, Asks(g))
  /\ Before(q, Saves, Partings) /\ (playing => ~Has(q, Partings)) => Before(r, Saves, Partings)
  /\ Before(q, Saves \ Chain, Chain) /\ (playing => ~Has(q, Chain)) => Before(r, Saves \ Chain, Chain)
  /\ ~entered => \A g \in Fds : /\ Before(q, Chain, Asks(g)) => Before(r, Chain, Asks(g))
                                /\ Before(q, Partings, Asks(g)) => Before(r, Partings, Asks(g))
                                /\ Before(q, Saves, Asks(g)) => Before(r, Saves, Asks(g))

LEMMA ClosedSilently ==
  ASSUME NEW f \in Fds, NEW q, NEW r, Rewords(q, r, f)
  PROVE  ClosedHas(q, r, f, FALSE, FALSE) /\ ClosedOrder(q, r, FALSE, FALSE)
<1>1. ClosedHas(q, r, f, FALSE, FALSE)
  BY RewordedHas, RewordedOrder DEF ClosedHas
<1>2. ClosedOrder(q, r, FALSE, FALSE)
  BY RewordedOrder DEF ClosedOrder
<1> QED BY <1>1, <1>2

LEMMA ClosedWithParting ==
  ASSUME NEW f \in Fds, NEW q, NEW r, NEW playing \in BOOLEAN, NEW t,
         ClosedHas(q, r, f, FALSE, playing), ClosedOrder(q, r, playing, playing), Gains(r, t, Parting)
  PROVE  ClosedHas(q, t, f, TRUE, playing) /\ ClosedOrder(q, t, TRUE, playing)
<1>1. \A A : Has(t, A) => Has(r, A) \/ Parting \in A
  BY DEF Gains
<1>2. \A A : Alone(r, A) /\ Parting \notin A => Alone(t, A)
  BY DEF Gains
<1>3. \A A, B : Before(r, A, B) /\ Parting \notin A => Before(t, A, B)
  BY DEF Gains
<1>4. ClosedHas(q, t, f, TRUE, playing)
  BY <1>1, PartingIs DEF ClosedHas
<1>5. Parting \notin Saves \ Chain
  BY PartingIs
<1>6. ClosedOrder(q, t, TRUE, playing)
  BY <1>2, <1>3, <1>5, PartingIs DEF ClosedOrder
<1> QED BY <1>4, <1>6

LEMMA ClosedWithSave ==
  ASSUME NEW f \in Fds, NEW q, NEW r, NEW t, NEW x,
         x \in Saves, x \notin Chain, x \notin Partings,
         \A i : x \notin Auths(i) /\ x \notin Moves(i),
         \A i, g : x \notin AuthsTo(i, g) /\ x \notin AuthsFor(i, g),
         \A g : x \notin Asks(g) /\ x \notin Answers(g),
         Rewords(q, r, f), Gains(r, t, x)
  PROVE  ClosedHas(q, t, f, FALSE, TRUE) /\ ClosedOrder(q, t, TRUE, TRUE)
<1>1. \A A : Has(t, A) => Has(r, A) \/ x \in A
  BY DEF Gains
<1>2. \A A : Alone(r, A) /\ x \notin A => Alone(t, A)
  BY DEF Gains
<1>3. \A A, B : Before(r, A, B) /\ x \notin B /\ ~Has(r, B) => Before(t, A, B)
  BY DEF Gains
<1>4. ClosedHas(q, r, f, FALSE, FALSE) /\ ClosedOrder(q, r, FALSE, FALSE)
  BY ClosedSilently
<1>5. (Has(r, Partings) => Has(q, Partings)) /\ (Has(r, Chain) => Has(q, Chain))
  BY <1>4 DEF ClosedHas
<1>6. ClosedHas(q, t, f, FALSE, TRUE)
  BY <1>1, <1>4 DEF ClosedHas
<1>7. ClosedOrder(q, t, TRUE, TRUE)
  BY <1>2, <1>3, <1>4, <1>5 DEF ClosedOrder
<1> QED BY <1>6, <1>7

LEMMA ClosesRing ==
  ASSUME Shape, NEW m \in Maps, NEW f \in Fds, Close(m, f)
  PROVE  /\ ClosedHas(Ring(m), Ring(m)', f, sess[m][f].auth, sess[m][f].auth /\ ~sess[m][f].waiting)
         /\ ClosedOrder(Ring(m), Ring(m)', sess[m][f].auth, sess[m][f].auth /\ ~sess[m][f].waiting)
         /\ \A n \in Maps \ {m} : Ring(n)' = Ring(n)
<1>1. /\ up \in [Maps -> Seq(UpMessage)] /\ down \in [Maps -> Seq(DownMessage)] /\ Fine
      /\ up[m] \in Seq(UpMessage) /\ down[m] \in Seq(DownMessage)
  BY DEF Shape, Fine, TypeOK, TypeOKMap
<1>2. /\ f \in Here(m) /\ sess[m][f] \in Session /\ sess[m][f].char \in Chars /\ sess[m][f].dest \in Maps
      /\ sess[m][f].auth \in BOOLEAN /\ sess[m][f].waiting \in BOOLEAN
      /\ sess[m][f].auth => sess[m][f].twin # -1
  <2>1. f \in Here(m)
    BY DEF Close, Here
  <2>2. sess[m][f].auth => sess[m][f].twin # -1
    BY FdAssumption DEF Shape, AuthIsEntry, EntryIsHere
  <2> QED BY <1>1, <2>1, <2>2, SessionFields DEF Session
<1> DEFINE x == SaveMessage(sess[m][f], 1)
           u == NoneTo(f, up[m])
           d == NoneTo(f, down[m])
<1>3. /\ x \in UpMessage /\ x \in Saves /\ x \notin Chain /\ x \notin Partings
      /\ \A i : x \notin Auths(i) /\ x \notin Moves(i)
      /\ \A i, g : x \notin AuthsTo(i, g) /\ x \notin AuthsFor(i, g)
      /\ \A g : x \notin Asks(g) /\ x \notin Answers(g)
  BY <1>2, SaveMessageIs
<1>4. u \in Seq(UpMessage) /\ d \in Seq(DownMessage) /\ Rewords(Ring(m), d \o u, f)
  BY <1>1, NoneToIs DEF Ring
<1>5. /\ up' = [up EXCEPT ![m] = u \o LastWords(sess[m][f])]
      /\ down' = [down EXCEPT ![m] = d]
  BY DEF Close
<1> HIDE DEF u, d
<1>6. u \o LastWords(sess[m][f]) = IF ~sess[m][f].auth THEN u
                                   ELSE IF sess[m][f].waiting THEN Append(u, Parting)
                                   ELSE Append(Append(u, x), Parting)
  BY <1>2, <1>3, <1>4, LastWordsAre
<1> HIDE DEF x
<1>7. Ring(m)' = d \o (u \o LastWords(sess[m][f])) /\ \A n \in Maps \ {m} : Ring(n)' = Ring(n)
  BY <1>1, <1>5 DEF Ring
<1>8. x \in Message /\ Parting \in Message /\ d \in Seq(Message) /\ u \in Seq(Message) /\ Append(u, x) \in Seq(Message)
  <2>1. x \in Message /\ Parting \in Message
    BY <1>3, PartingIs, UpFields
  <2>2. d \in Seq(Message) /\ u \in Seq(Message)
    BY <1>4, SeqMonotonic DEF Message
  <2> QED BY <2>1, <2>2
<1>9. CASE ~sess[m][f].auth
  <2>1. Rewords(Ring(m), Ring(m)', f)
    BY <1>4, <1>6, <1>7, <1>9
  <2>2. sess[m][f].auth = FALSE /\ (sess[m][f].auth /\ ~sess[m][f].waiting) = FALSE
    BY <1>2, <1>9
  <2> QED BY <1>7, <2>1, <2>2, ClosedSilently
<1>10. CASE sess[m][f].auth /\ sess[m][f].waiting
  <2>1. Gains(d \o u, Ring(m)', Parting)
    BY <1>6, <1>7, <1>8, <1>10, Said
  <2>2. ClosedHas(Ring(m), d \o u, f, FALSE, FALSE) /\ ClosedOrder(Ring(m), d \o u, FALSE, FALSE)
    BY <1>4, ClosedSilently
  <2>3. sess[m][f].auth = TRUE /\ (sess[m][f].auth /\ ~sess[m][f].waiting) = FALSE
    BY <1>2, <1>10
  <2>4. ClosedHas(Ring(m), Ring(m)', f, TRUE, FALSE) /\ ClosedOrder(Ring(m), Ring(m)', TRUE, FALSE)
    BY <2>1, <2>2, ClosedWithParting
  <2> QED BY <1>7, <2>3, <2>4
<1>11. CASE sess[m][f].auth /\ ~sess[m][f].waiting
  <2>1. Gains(d \o u, d \o Append(u, x), x)
    BY <1>8, Said
  <2>2. Gains(d \o Append(u, x), Ring(m)', Parting)
    BY <1>6, <1>7, <1>8, <1>11, Said
  <2>3. ClosedHas(Ring(m), d \o Append(u, x), f, FALSE, TRUE) /\ ClosedOrder(Ring(m), d \o Append(u, x), TRUE, TRUE)
    BY <1>3, <1>4, <2>1, ClosedWithSave
  <2>4. sess[m][f].auth = TRUE /\ (sess[m][f].auth /\ ~sess[m][f].waiting) = TRUE
    BY <1>2, <1>11
  <2>5. ClosedHas(Ring(m), Ring(m)', f, TRUE, TRUE) /\ ClosedOrder(Ring(m), Ring(m)', TRUE, TRUE)
    BY <2>2, <2>3, ClosedWithParting
  <2> QED BY <1>7, <2>4, <2>5
<1> QED BY <1>9, <1>10, <1>11

LEMMA ClosesIs ==
  ASSUME Shape, NEW m \in Maps, NEW f \in Fds, Close(m, f)
  PROVE  /\ f \in Here(m) /\ (sess[m][f].auth => idb[m] = f)
         /\ \A n \in Maps \ {m} : sess'[n] = sess[n] /\ idb'[n] = idb[n] /\ Here(n)' = Here(n)
         /\ \A g \in Fds : sess'[m][g] = IF g = f THEN NoSession ELSE sess[m][g]
         /\ idb'[m] = IF idb[m] = f THEN 0 ELSE idb[m]
         /\ Here(m)' = Here(m) \ {f} /\ ~sess'[m][f].auth
         /\ \A k \in Clients : client'[k] = IF client[k].at = "map" /\ client[k].map = m /\ client[k].fd = f
                                            THEN Outside ELSE client[k]
         /\ UNCHANGED <<seat, auth, online, mixed, crossed, lastId>>
<1>1. sess \in [Maps -> [Fds -> Session]] /\ idb \in [Maps -> {0} \cup Fds] /\ Fine
  BY DEF Shape, Fine, TypeOK, TypeOKMap
<1>2. f \in Here(m) /\ (sess[m][f].auth => idb[m] = f)
  BY DEF Shape, AuthIsEntry, Close, Here
<1>3. /\ sess' = [sess EXCEPT ![m][f] = NoSession]
      /\ idb' = [idb EXCEPT ![m] = IF idb[m] = f \/ (sess[m][f].auth /\ sess[m][f].twin # -1) THEN 0 ELSE idb[m]]
      /\ SendClient(m, f, [k \in Clients |-> Outside])
      /\ UNCHANGED <<seat, auth, online, mixed, crossed, lastId>>
  BY DEF Close, logins, chars
<1>4. /\ \A n \in Maps \ {m} : sess'[n] = sess[n] /\ idb'[n] = idb[n]
      /\ \A g \in Fds : sess'[m][g] = IF g = f THEN NoSession ELSE sess[m][g]
      /\ idb'[m] = IF idb[m] = f THEN 0 ELSE idb[m]
  BY <1>1, <1>2, <1>3
<1>5. ~NoSession.auth
  BY DEF NoSession
<1>6. Here(m)' = Here(m) \ {f} /\ \A n \in Maps \ {m} : Here(n)' = Here(n)
  BY <1>4 DEF Here
<1> QED BY <1>1, <1>2, <1>3, <1>4, <1>5, <1>6, SendClientOut

\* No client has the number of a login that is over.
LEMMA NobodyIsZero ==
  ASSUME Shape
  PROVE  Outside.id = 0 /\ Outside.at = "out" /\ 0 \notin Logins /\ 0 \notin Fds
BY FdAssumption DEF Outside, Logins, Shape, TypeOK, TypeOKLogin

LEMMA ClosesShape ==
  ASSUME Shape, NEW m \in Maps, NEW f \in Fds, Close(m, f)
  PROVE  Shape'
<1>0. Fine /\ TypeOK'
  BY TypeClose DEF Shape, Fine
<1>1. /\ f \in Here(m) /\ (sess[m][f].auth => idb[m] = f)
      /\ \A n \in Maps \ {m} : sess'[n] = sess[n] /\ idb'[n] = idb[n] /\ Here(n)' = Here(n)
      /\ \A g \in Fds : sess'[m][g] = IF g = f THEN NoSession ELSE sess[m][g]
      /\ idb'[m] = IF idb[m] = f THEN 0 ELSE idb[m]
      /\ Here(m)' = Here(m) \ {f} /\ ~sess'[m][f].auth
      /\ \A k \in Clients : client'[k] = IF client[k].at = "map" /\ client[k].map = m /\ client[k].fd = f
                                         THEN Outside ELSE client[k]
      /\ UNCHANGED <<seat, lastId>>
  BY ClosesIs
<1>2. Logins' = Logins /\ Taken' = Taken
  BY <1>1 DEF Logins, Taken
<1>4. EntryIsHere'
  BY <1>1 DEF Shape, EntryIsHere, Here
<1>5. AuthIsEntry'
  <2> SUFFICES ASSUME NEW n \in Maps, NEW g \in Fds, sess'[n][g].auth PROVE idb'[n] = g
    BY DEF AuthIsEntry
  <2>1. sess[n][g].auth /\ (n = m => g # f)
    BY <1>1
  <2>2. idb[n] = g
    BY <2>1 DEF Shape, AuthIsEntry
  <2> QED BY <1>1, <2>1, <2>2
<1>6. Sessions'
  <2> SUFFICES ASSUME NEW n \in Maps, NEW g \in Here(n)'
               PROVE  /\ sess'[n][g].char \in Chars /\ sess'[n][g].dest \in Maps /\ sess'[n][g].id \in Logins
                      /\ sess'[n][g].waiting => sess'[n][g].auth
                      /\ sess'[n][g].dest # n => sess'[n][g].waiting
    BY <1>2 DEF Sessions
  <2>1. g \in Here(n) /\ g \in Fds /\ sess'[n][g] = sess[n][g]
    BY <1>1 DEF Here
  <2> QED BY <2>1 DEF Shape, Sessions
<1>7. Players'
  <2> SUFFICES ASSUME NEW k \in Clients PROVE ClientSound(k)'
    BY DEF Players
  <2>0. ClientSound(k)
    BY DEF Shape, Players
  <2>1. CASE client'[k] = Outside
    BY <2>1 DEF ClientSound, Outside
  <2>2. CASE client'[k] = client[k]
    <3>1. client[k].at = "map" => client[k].fd \in Here(client[k].map)'
      <4>1. client[k].at = "map" => ~(client[k].map = m /\ client[k].fd = f) \/ client[k] = Outside
        BY <1>1, <2>2
      <4> QED BY <1>1, <2>0, <4>1, NobodyIsZero DEF ClientSound
    <3> QED BY <1>2, <2>0, <2>2, <3>1 DEF ClientSound
  <2> QED BY <1>1, <2>1, <2>2
<1>8. OneEach'
  <2>1. \A k \in Clients : client'[k].id # 0 => client'[k] = client[k]
    BY <1>1, NobodyIsZero
  <2> QED BY <2>1 DEF Shape, OneEach
<1>9. Letters'
  <2>1. /\ \A g \in Fds : Has(Ring(m)', Asks(g)) => g # f /\ Has(Ring(m), Asks(g))
        /\ \A i : Has(Ring(m)', Auths(i)) => Has(Ring(m), Auths(i))
        /\ \A i : Has(Ring(m)', Moves(i)) => Has(Ring(m), Moves(i))
        /\ \A n \in Maps \ {m} : Ring(n)' = Ring(n)
    BY ClosesRing DEF ClosedHas
  <2> SUFFICES ASSUME NEW n \in Maps
               PROVE  /\ \A g \in Fds : Has(Ring(n)', Asks(g)) => g \in Here(n)'
                      /\ \A i \in Ids : Has(Ring(n)', Auths(i)) \/ Has(Ring(n)', Moves(i)) => i \in Logins
    BY <1>2 DEF Letters
  <2>2. CASE n = m
    BY <1>1, <2>1, <2>2 DEF Shape, Letters
  <2>3. CASE n # m
    BY <1>1, <2>1, <2>3 DEF Shape, Letters
  <2> QED BY <2>2, <2>3
<1> QED BY <1>0, <1>4, <1>5, <1>6, <1>7, <1>8, <1>9 DEF Shape

LEMMA ClosesPaths ==
  ASSUME Shape, Paths, NEW m \in Maps, NEW f \in Fds, Close(m, f)
  PROVE  /\ SeatIsOwn' /\ AskedByOwner' /\ AskedOnce' /\ AnsweredOnce' /\ AsksLast' /\ Order'
         /\ \A n \in Maps : \A h \in Here(n)' : Active(n, h)' => Active(n, h)
<1>0. /\ f \in Here(m) /\ (sess[m][f].auth => idb[m] = f)
      /\ \A n \in Maps \ {m} : sess'[n] = sess[n] /\ idb'[n] = idb[n] /\ Here(n)' = Here(n)
      /\ \A g \in Fds : sess'[m][g] = IF g = f THEN NoSession ELSE sess[m][g]
      /\ idb'[m] = IF idb[m] = f THEN 0 ELSE idb[m]
      /\ Here(m)' = Here(m) \ {f} /\ ~sess'[m][f].auth
      /\ \A k \in Clients : client'[k] = IF client[k].at = "map" /\ client[k].map = m /\ client[k].fd = f
                                         THEN Outside ELSE client[k]
      /\ UNCHANGED seat
  BY ClosesIs
<1> DEFINE entered == sess[m][f].auth
           playing == sess[m][f].auth /\ ~sess[m][f].waiting
<1>1. /\ ClosedHas(Ring(m), Ring(m)', f, entered, playing)
      /\ ClosedOrder(Ring(m), Ring(m)', entered, playing)
      /\ \A n \in Maps \ {m} : Ring(n)' = Ring(n)
  BY ClosesRing
<1>2. /\ playing => ~Has(Ring(m), Chain)
      /\ entered => ~Has(Ring(m), Partings) /\ \A g \in Fds : ~sess'[m][g].auth
  <2>1. playing => f \in Playing(m)
    BY DEF Playing
  <2>2. entered => \A g \in Fds : ~sess'[m][g].auth
    BY <1>0 DEF Shape, AuthIsEntry
  <2> QED BY <2>1, <2>2 DEF Paths, Order
<1> HIDE DEF entered, playing
<1>3. SeatIsOwn'
  BY <1>0, NobodyIsZero DEF Paths, SeatIsOwn
<1>4. AskedByOwner'
  <2>1. SUFFICES ASSUME NEW n \in Maps, NEW k \in Clients, NEW g \in {0} \cup Fds, Has(Ring(n)', AuthsTo(client'[k].id, g))
                 PROVE  client'[k].at = "map" /\ client'[k].map = n /\ client'[k].fd = g
    BY DEF AskedByOwner
  <2>2. client'[k] = client[k]
    <3>1. SUFFICES ASSUME client'[k] = Outside PROVE FALSE
      BY <1>0
    <3>2. Has(Ring(n)', Auths(0))
      BY <2>1, <3>1, NobodyIsZero DEF Has, AuthsTo, Auths
    <3>3. Has(Ring(n), Auths(0))
      <4>1. CASE n = m
        BY <1>1, <3>2, <4>1 DEF ClosedHas
      <4>2. CASE n # m
        BY <1>1, <3>2, <4>2
      <4> QED BY <4>1, <4>2
    <3>4. 0 \in Ids
      BY LoginAssumption DEF Ids
    <3> QED BY <3>3, <3>4, NobodyIsZero DEF Shape, Letters
  <2>3. CASE n # m
    <3>1. Has(Ring(n), AuthsTo(client[k].id, g))
      BY <1>1, <2>1, <2>2, <2>3
    <3> QED BY <2>2, <3>1 DEF Paths, AskedByOwner
  <2>4. CASE n = m /\ Has(Ring(n), AuthsTo(client[k].id, g))
    BY <2>2, <2>4 DEF Paths, AskedByOwner
  <2>5. CASE n = m /\ g = 0 /\ Has(Ring(m), AuthsTo(client[k].id, f))
    <3>0. AskedByOwner
      BY DEF Paths
    <3>1. client[k].at = "map" /\ client[k].map = m /\ client[k].fd = f
      BY <2>5, <3>0 DEF AskedByOwner
    <3> QED BY <1>0, <2>2, <3>1, NobodyIsZero
  <2> QED BY <1>1, <2>1, <2>2, <2>3, <2>4, <2>5 DEF ClosedHas
<1>5. AskedOnce'
  <2>0. \A i : /\ Has(Ring(m)', Auths(i)) => Has(Ring(m), Auths(i))
               /\ Alone(Ring(m), Auths(i)) => Alone(Ring(m)', Auths(i))
    <3>1. \A i : Has(Ring(m)', Auths(i)) => Has(Ring(m), Auths(i))
      BY <1>1 DEF ClosedHas
    <3>2. \A i : Alone(Ring(m), Auths(i)) => Alone(Ring(m)', Auths(i))
      BY <1>1 DEF ClosedOrder
    <3> QED BY <3>1, <3>2
  <2>1. \A n \in Maps : \A i : /\ Has(Ring(n)', Auths(i)) => Has(Ring(n), Auths(i))
                               /\ Alone(Ring(n), Auths(i)) => Alone(Ring(n)', Auths(i))
    <3> TAKE n \in Maps
    <3> TAKE i
    <3>1. CASE n = m
      BY <2>0, <3>1
    <3>2. CASE n # m
      BY <1>1, <3>2
    <3> QED BY <3>1, <3>2
  <2> QED BY <2>1 DEF Paths, AskedOnce
<1>6. AnsweredOnce'
  <2> SUFFICES ASSUME NEW n \in Maps, NEW g \in Fds
               PROVE  Alone(Ring(n)', Asks(g)) /\ (sess'[n][g].auth => ~Has(Ring(n)', Asks(g)))
    BY DEF AnsweredOnce
  <2>1. CASE n = m
    BY <1>0, <1>1, <2>1 DEF Paths, AnsweredOnce, ClosedHas, ClosedOrder
  <2>2. CASE n # m
    BY <1>0, <1>1, <2>2 DEF Paths, AnsweredOnce
  <2> QED BY <2>1, <2>2
<1>7. AsksLast'
  <2>1. SUFFICES ASSUME NEW n \in Maps, idb'[n] # 0
                 PROVE  /\ Before(Ring(n)', Chain, Asks(idb'[n]))
                        /\ Before(Ring(n)', Partings, Asks(idb'[n]))
                        /\ Before(Ring(n)', Saves, Asks(idb'[n]))
    BY DEF AsksLast
  <2>2. /\ Before(Ring(n), Chain, Asks(idb[n])) /\ Before(Ring(n), Partings, Asks(idb[n])) /\ Before(Ring(n), Saves, Asks(idb[n]))
        /\ idb'[n] = idb[n] /\ idb[n] \in Fds
    BY <1>0, <2>1 DEF Paths, AsksLast, Shape, TypeOK, TypeOKMap
  <2>3. CASE n = m
    <3>1. ~entered
      BY <1>0, <2>1, <2>2, <2>3 DEF entered
    <3> QED BY <1>1, <2>2, <2>3, <3>1 DEF ClosedOrder
  <2>4. CASE n # m
    BY <1>1, <2>2, <2>4
  <2> QED BY <2>3, <2>4
<1>8. Order'
  <2>0. \A n \in Maps, g \in Fds : sess'[n][g].auth => sess'[n][g] = sess[n][g]
    BY <1>0
  <2>1. \A n \in Maps : Playing(n)' \subseteq Playing(n)
    BY <2>0 DEF Playing
  <2> SUFFICES ASSUME NEW n \in Maps
               PROVE  /\ Alone(Ring(n)', Chain)
                      /\ Before(Ring(n)', Saves, Partings)
                      /\ Before(Ring(n)', Saves \ Chain, Chain)
                      /\ Playing(n)' # {} => ~Has(Ring(n)', Chain)
                      /\ (\E g \in Fds : sess'[n][g].auth) => ~Has(Ring(n)', Partings)
    BY DEF Order
  <2>2. /\ Alone(Ring(n), Chain) /\ Before(Ring(n), Saves, Partings) /\ Before(Ring(n), Saves \ Chain, Chain)
        /\ Playing(n) # {} => ~Has(Ring(n), Chain)
        /\ (\E g \in Fds : sess[n][g].auth) => ~Has(Ring(n), Partings)
    BY DEF Paths, Order
  <2>3. CASE n = m
    <3>1. playing => entered
      BY DEF playing, entered
    <3>2. Alone(Ring(n)', Chain) /\ Before(Ring(n)', Saves, Partings) /\ Before(Ring(n)', Saves \ Chain, Chain)
      BY <1>1, <1>2, <2>2, <2>3, <3>1 DEF ClosedOrder
    <3>3. Playing(n)' # {} => ~Has(Ring(n)', Chain)
      BY <1>1, <2>1, <2>2, <2>3 DEF ClosedHas
    <3>4. (\E g \in Fds : sess'[n][g].auth) => ~Has(Ring(n)', Partings)
      BY <1>1, <1>2, <2>0, <2>2, <2>3 DEF ClosedHas
    <3> QED BY <3>2, <3>3, <3>4
  <2>4. CASE n # m
    BY <1>0, <1>1, <2>1, <2>2, <2>4
  <2> QED BY <2>3, <2>4
<1>9. \A n \in Maps : \A h \in Here(n)' : Active(n, h)' => Active(n, h)
  <2> TAKE n \in Maps
  <2> TAKE h \in Here(n)'
  <2>1. sess'[n][h] = sess[n][h]
    BY <1>0 DEF Here
  <2>2. Has(Ring(n)', Chain) => Has(Ring(n), Chain)
    <3>1. CASE n = m
      BY <1>1, <3>1 DEF ClosedHas
    <3>2. CASE n # m
      BY <1>1, <3>2
    <3> QED BY <3>1, <3>2
  <2> QED BY <2>1, <2>2 DEF Active
<1> QED BY <1>3, <1>4, <1>5, <1>6, <1>7, <1>8, <1>9

LEMMA ClosesOwners ==
  ASSUME Shape, Paths, NEW m \in Maps, NEW f \in Fds, Close(m, f)
  PROVE  OwnerIsHere' /\ AsksForItself' /\ MoverStays'
<1>0. /\ \A n \in Maps : Here(n)' = IF n = m THEN Here(n) \ {f} ELSE Here(n)
      /\ \A n \in Maps : \A h \in Here(n)' : h \in Here(n) /\ h \in Fds /\ sess'[n][h] = sess[n][h]
      /\ \A k \in Clients : client'[k] \in {client[k], Outside}
  BY ClosesIs DEF Here
<1>1. /\ ClosedHas(Ring(m), Ring(m)', f, sess[m][f].auth, sess[m][f].auth /\ ~sess[m][f].waiting)
      /\ \A n \in Maps \ {m} : Ring(n)' = Ring(n)
  BY ClosesRing
<1>2. \A n \in Maps : \A h \in Here(n)' : Active(n, h)' => Active(n, h)
  BY ClosesPaths
<1>3. \A k \in Clients : client'[k].id \in Logins => client'[k] = client[k]
  BY <1>0, NobodyIsZero
<1>4. OwnerIsHere'
  <2>1. SUFFICES ASSUME NEW n \in Maps, NEW h \in Here(n)', NEW k \in Clients, Active(n, h)', client'[k].id = sess'[n][h].id
                 PROVE  client'[k].at = "map" /\ client'[k].map = n /\ client'[k].fd = h
    BY DEF OwnerIsHere
  <2>2. h \in Here(n) /\ sess'[n][h] = sess[n][h] /\ sess[n][h].id \in Logins
    BY <1>0 DEF Shape, Sessions
  <2>3. client'[k] = client[k] /\ client[k].id = sess[n][h].id
    BY <1>3, <2>1, <2>2
  <2> QED BY <1>2, <2>1, <2>2, <2>3 DEF Paths, OwnerIsHere
<1>5. AsksForItself'
  <2>1. SUFFICES ASSUME NEW n1 \in Maps, NEW n2 \in Maps, NEW h \in Here(n1)', NEW g \in {0} \cup Fds,
                        Active(n1, h)', Has(Ring(n2)', AuthsTo(sess'[n1][h].id, g))
                 PROVE  n2 = n1 /\ g = h
    BY DEF AsksForItself
  <2>2. h \in Here(n1) /\ sess'[n1][h].id = sess[n1][h].id /\ Active(n1, h)
    BY <1>0, <1>2, <2>1
  <2>3. CASE Has(Ring(n2), AuthsTo(sess[n1][h].id, g))
    BY <2>2, <2>3 DEF Paths, AsksForItself
  <2>4. CASE n2 = m /\ Has(Ring(m), AuthsTo(sess[n1][h].id, f))
    <3>1. n1 = m /\ h = f
      BY <2>2, <2>4 DEF Paths, AsksForItself
    <3> QED BY <1>0, <3>1
  <2> QED BY <1>1, <2>1, <2>2, <2>3, <2>4 DEF ClosedHas
<1>6. MoverStays'
  <2>1. SUFFICES ASSUME NEW n \in Maps, NEW i \in Ids, Has(Ring(n)', Moves(i))
                 PROVE  /\ \A n2 \in Maps : ~Has(Ring(n2)', Auths(i))
                        /\ \A k \in Clients : client'[k].id = i => client'[k].at = "map" /\ client'[k].map = n
    BY DEF MoverStays
  <2>2. \A n2 \in Maps : (Has(Ring(n2)', Auths(i)) => Has(Ring(n2), Auths(i))) /\ (Has(Ring(n2)', Moves(i)) => Has(Ring(n2), Moves(i)))
    <3> TAKE n2 \in Maps
    <3>1. CASE n2 = m
      BY <1>1, <3>1 DEF ClosedHas
    <3>2. CASE n2 # m
      BY <1>1, <3>2
    <3> QED BY <3>1, <3>2
  <2>3. Has(Ring(n), Moves(i)) /\ i \in Logins
    BY <2>1, <2>2 DEF Shape, Letters
  <2> QED BY <1>3, <2>2, <2>3 DEF Paths, MoverStays
<1> QED BY <1>4, <1>5, <1>6

LEMMA StepClose ==
  ASSUME IInv, NEW m \in Maps, NEW f \in Fds, Close(m, f)
  PROVE  IInv'
<1>0. Shape /\ Shape'
  BY ClosesShape DEF IInv
<1>1. /\ (sess[m][f].auth => idb[m] = f)
      /\ \A n \in Maps \ {m} : sess'[n] = sess[n] /\ idb'[n] = idb[n]
      /\ \A g \in Fds : sess'[m][g] = IF g = f THEN NoSession ELSE sess[m][g]
      /\ idb'[m] = IF idb[m] = f THEN 0 ELSE idb[m]
      /\ \A k \in Clients : client'[k] = IF client[k].at = "map" /\ client[k].map = m /\ client[k].fd = f
                                         THEN Outside ELSE client[k]
      /\ UNCHANGED <<auth, online, mixed, crossed>>
  BY <1>0, ClosesIs
<1>2. /\ ClosedHas(Ring(m), Ring(m)', f, sess[m][f].auth, sess[m][f].auth /\ ~sess[m][f].waiting)
      /\ \A n \in Maps \ {m} : Ring(n)' = Ring(n)
  BY <1>0, ClosesRing
<1>3. SUFFICES ASSUME Sound' PROVE Paths' /\ Names'
  BY <1>0 DEF IInv
<1>4. Paths /\ Names /\ Sound
  BY <1>1, <1>3 DEF IInv, Sound
<1>5. Paths'
  BY <1>0, <1>4, ClosesPaths, ClosesOwners DEF Paths
<1>6. \A n \in Maps : Busy(n)' => Busy(n)
  <2>1. SUFFICES ASSUME NEW n \in Maps, Busy(n)' PROVE Busy(n)
    OBVIOUS
  <2>2. CASE Has(Ring(n)', Saves)
    <3>1. CASE n = m /\ sess[m][f].auth /\ ~sess[m][f].waiting
      <4>1. f \in Playing(m)
        BY <3>1 DEF Playing
      <4> QED BY <1>4, <3>1, <4>1, PlayingAlone
    <3>2. CASE n = m /\ ~(sess[m][f].auth /\ ~sess[m][f].waiting)
      BY <1>2, <2>2, <3>2 DEF Busy, ClosedHas
    <3>3. CASE n # m
      BY <1>2, <2>2, <3>3 DEF Busy
    <3> QED BY <3>1, <3>2, <3>3
  <2>3. CASE Live(n)'
    <3>0. idb'[n] # 0
      BY <2>3 DEF Live
    <3>1. idb'[n] \in Here(n)' /\ idb'[n] = idb[n] /\ idb[n] \in Fds /\ (n = m => idb[n] # f)
      BY <1>0, <1>1, <3>0 DEF Shape, EntryIsHere, TypeOK, TypeOKMap
    <3>2. CASE Has(Ring(n)', Answers(idb'[n]))
      <4>1. Has(Ring(n), Answers(idb[n]))
        <5>1. CASE n = m
          BY <1>2, <3>1, <3>2, <5>1 DEF ClosedHas
        <5>2. CASE n # m
          BY <1>2, <3>1, <3>2, <5>2
        <5> QED BY <5>1, <5>2
      <4> QED BY <3>0, <3>1, <4>1 DEF Busy, Live
    <3>3. Has(Ring(n)', Answers(idb'[n])) \/ (sess'[n][idb'[n]].auth /\ (sess'[n][idb'[n]].waiting => Has(Ring(n)', Chain)))
      BY <2>3 DEF Live, Active
    <3>4. CASE sess'[n][idb'[n]].auth /\ (sess'[n][idb'[n]].waiting => Has(Ring(n)', Chain))
      <4>1. sess'[n][idb[n]] = sess[n][idb[n]]
        BY <1>1, <3>1
      <4>2. PICK j : j = idb[n]
        OBVIOUS
      <4>3. Active(n, j)' => Active(n, j)
        BY <1>0, <1>4, <3>1, <4>2, ClosesPaths
      <4>4. Active(n, j)'
        BY <3>1, <3>4, <4>1, <4>2 DEF Active
      <4> QED BY <3>0, <3>1, <3>4, <4>1, <4>2, <4>3, <4>4 DEF Busy, Live
    <3> QED BY <3>2, <3>3, <3>4
  <2> QED BY <2>1, <2>2, <2>3 DEF Busy
<1>7. \A n \in Maps : \A i, c : Attempt(i, c, n)' => Attempt(i, c, n)
  <2>1. \A n \in Maps : \A i, c : Has(Ring(n)', AuthsFor(i, c)) => Has(Ring(n), AuthsFor(i, c))
    <3> TAKE n \in Maps
    <3> TAKE i, c
    <3>1. CASE n = m
      BY <1>2, <3>1 DEF ClosedHas
    <3>2. CASE n # m
      BY <1>2, <3>2
    <3> QED BY <3>1, <3>2
  <2>2. \A k \in Clients : client'[k].at = "go" => client'[k] = client[k]
    BY <1>0, <1>1, NobodyIsZero
  <2> QED BY <2>1, <2>2 DEF Attempt
<1>8. Names'
  <2>1. OneLogin' /\ BusyIsOnline'
    BY <1>1, <1>4, <1>6 DEF Names, OneLogin, BusyIsOnline
  <2>2. AttemptsFollow'
    BY <1>1, <1>4, <1>6, <1>7 DEF Names, AttemptsFollow
  <2> QED BY <2>1, <2>2 DEF Names
<1> QED BY <1>5, <1>8

-----------------------------------------------------------------------------
(* The invariant holds *)

LEMMA InitIInv == Init => IInv
<1> SUFFICES ASSUME Init PROVE IInv
  OBVIOUS
<1>1. /\ client = [k \in Clients |-> Outside] /\ lastId = 0 /\ seat = [f \in Seats |-> NoSeat] /\ auth = {} /\ online = None
      /\ up = [m \in Maps |-> <<>>] /\ down = [m \in Maps |-> <<>>]
      /\ sess = [m \in Maps |-> [f \in Fds |-> NoSession]] /\ idb = [m \in Maps |-> 0]
  BY DEF Init, InitLogin, InitChar, InitMap
<1>2. \A m \in Maps : Ring(m) = <<>> /\ Here(m) = {} /\ Playing(m) = {}
  BY <1>1 DEF Ring, Here, Playing, NoSession
<1>3. \A m \in Maps : \A A : ~Has(Ring(m), A)
  BY <1>2, EmptyIsTame
<1>4. \A m \in Maps : \A A, B : Alone(Ring(m), A) /\ Before(Ring(m), A, B)
  BY <1>3 DEF Has, Alone, Before
<1>5. \A m \in Maps, f \in Fds : ~sess[m][f].auth
  BY <1>1 DEF NoSession
<1>6. \A k \in Clients : client[k].at = "out" /\ client[k].id = 0 /\ client[k] = Outside
  BY <1>1 DEF Outside
<1>7. Shape
  <2>1. EntryIsHere /\ AuthIsEntry /\ Sessions /\ Letters
    BY <1>1, <1>2, <1>3, <1>5 DEF EntryIsHere, AuthIsEntry, Sessions, Letters
  <2>2. Players /\ OneEach
    BY <1>6 DEF Players, ClientSound, OneEach
  <2> QED BY TypeInit, <2>1, <2>2 DEF Shape
<1>8. Paths
  <2>1. SeatIsOwn /\ AskedByOwner /\ AskedOnce /\ MoverStays
    BY <1>3, <1>4, <1>6 DEF SeatIsOwn, AskedByOwner, AskedOnce, MoverStays
  <2>2. AnsweredOnce /\ AsksLast /\ Order
    BY <1>3, <1>4 DEF AnsweredOnce, AsksLast, Order
  <2>3. OwnerIsHere /\ AsksForItself
    BY <1>2 DEF OwnerIsHere, AsksForItself
  <2> QED BY <2>1, <2>2, <2>3 DEF Paths
<1>9. Names
  <2>1. \A m \in Maps : ~Busy(m)
    BY <1>1, <1>3 DEF Busy, Live
  <2> QED BY <1>1, <2>1 DEF Names, OneLogin, AttemptsFollow, BusyIsOnline, ForMap
<1> QED BY <1>7, <1>8, <1>9 DEF IInv

LEMMA StepStutter ==
  ASSUME IInv, UNCHANGED vars
  PROVE  IInv'
<1>1. UNCHANGED <<client, lastId, sess, idb, online, up, down, auth, seat, mixed, crossed>>
  BY DEF vars
<1>2. TypeOK'
  BY DEF IInv, Shape, TypeOK, TypeOKLogin, TypeOKChar, TypeOKMap, vars
<1>3. RingsTame /\ \A m \in Maps : NoNewAnswer(Ring(m), Ring(m)')
  BY <1>1, RingsUnchanged
<1>4. (Sound' => Sound) /\ ForMap(auth') \subseteq ForMap(auth) /\ Taken' = Taken
  BY <1>1 DEF Sound, Taken
<1> QED BY <1>1, <1>2, <1>3, <1>4, Idle

\* The step of the invariant, one line per action.
LEMMA NextIInv ==
  ASSUME IInv, [Next]_vars
  PROVE  IInv'
<1>1. CASE UNCHANGED vars
  BY <1>1, StepStutter
<1>2. CASE Proceeds
  <2>1. CASE LoginReceives /\ OnlyLogin
    BY <2>1, StepLoginReceives
  <2>2. ASSUME NEW k \in Clients, CharConnect(k), UNCHANGED maps PROVE IInv'
    BY <2>2, StepCharConnect
  <2>3. ASSUME NEW k \in Clients, Select(k), UNCHANGED maps PROVE IInv'
    BY <2>3, StepSelect
  <2>4. ASSUME NEW f \in Seats, CloseSeat(f), UNCHANGED maps PROVE IInv'
    BY <2>4, StepCloseSeat
  <2>5. CASE CharReceivesLogin /\ UNCHANGED maps
    BY <2>5, StepCharReceivesLogin
  <2>6. ASSUME NEW m \in Maps, CharReceivesMap(m), UNCHANGED maps PROVE IInv'
    BY <2>6, StepCharReceivesMap
  <2>7. ASSUME NEW k \in Clients, MapConnect(k) PROVE IInv'
    BY <2>7, StepMapConnect
  <2>8. ASSUME NEW m \in Maps, MapReceives(m) \/ TimerSpent(m) PROVE IInv'
    BY <2>8, StepMapReceives, StepTimerSpent
  <2>9. ASSUME NEW m \in Maps, NEW f \in Fds, Play(m, f) \/ Close(m, f) PROVE IInv'
    BY <2>9, StepPlay, StepClose
  <2> QED BY <1>2, <2>1, <2>2, <2>3, <2>4, <2>5, <2>6, <2>7, <2>8, <2>9 DEF Proceeds
<1>3. CASE LogIn
  BY <1>3, StepLogin DEF LogIn
<1>4. CASE Forget
  BY <1>4, StepForget
<1>5. CASE MoveOn
  <2>1. ASSUME NEW m \in Maps, NEW f \in Fds, Restart(m, f) PROVE IInv'
    BY <2>1, StepLeave DEF Restart
  <2>2. ASSUME NEW m \in Maps, NEW f \in Fds, MoveServer(m, f) PROVE IInv'
    BY <2>2, StepLeave DEF MoveServer
  <2> QED BY <1>5, <2>1, <2>2 DEF MoveOn
<1>6. CASE SaveOne
  BY <1>6, StepAutosave DEF SaveOne
<1>7. CASE StopIt
  BY <1>7, StepGiveUp, StepQuitGame DEF StopIt
<1>8. CASE Break
  BY <1>8, StepLinkBreaks DEF Break
<1> QED BY <1>1, <1>2, <1>3, <1>4, <1>5, <1>6, <1>7, <1>8 DEF Next

LEMMA Invariant == Spec => []IInv
BY InitIInv, NextIInv, PTL DEF Spec

-----------------------------------------------------------------------------
(* What follows *)

\* Every variable keeps to its type: the entries of auth_fifo and of the id_db
\* are of logins and connections that exist, char_online_db names a map server,
\* and clif_setwaitclose is called for connections only.
THEOREM TypeCorrect == Spec => []TypeOK
<1>1. IInv => TypeOK
  BY DEF IInv, Shape
<1> QED BY <1>1, Invariant, PTL

LEMMA PlayedIsOnline ==
  ASSUME IInv, Sound, NEW m \in Maps, Playing(m) # {}
  PROVE  online = m
<1>1. PICK f \in Playing(m) : TRUE
  OBVIOUS
<1> QED BY <1>1, PlayingAlone DEF IInv, Names, BusyIsOnline

\* Where the account plays is where char_online_db says it does, at any
\* moment, for any number of clients, logins, map servers and connections:
\* 0x2b18 of an old session is ahead of what lets the next one in.
THEOREM TableNamesPlayer == Spec => []OnlineNamesPlayer
<1>1. IInv => OnlineNamesPlayer
  BY PlayedIsOnline DEF OnlineNamesPlayer, Sound
<1> QED BY <1>1, Invariant, PTL

LEMMA OnlyOnePlays ==
  ASSUME IInv, Sound, NEW m \in Maps, NEW n \in Maps, NEW f \in Playing(m), NEW g \in Playing(n)
  PROVE  m = n /\ f = g
<1>1. m = n
  BY PlayedIsOnline
<1>2. idb[m] = f /\ idb[n] = g
  BY PlayingIs DEF IInv
<1> QED BY <1>1, <1>2

\* The account is in the world at most once, over all map servers: 0x66 sends
\* nobody to a map server while another has the account (parse_char), and
\* pc_authok refuses a second connection and dooms the first.
THEOREM OnlyOne == Spec => []OnePlayer
<1>1. IInv => OnePlayer
  BY OnlyOnePlays DEF OnePlayer, Sound
<1> QED BY <1>1, Invariant, PTL

-----------------------------------------------------------------------------
(* No ghosts: wherever the table names a map server, a connection there is   *)
(* accepted, or an acceptance or a parting is under way.                     *)

Owed == {x \in Message : x.op \in {"ok", "gone"}}

Claimed(m) == Has(Ring(m), Owed) \/ \E f \in Fds : sess[m][f].auth

Unclaimed == ~abandoned => \A m \in Maps : online = m => Claimed(m)

LEMMA KeepsClaims ==
  ASSUME Unclaimed, abandoned' = abandoned, online' \in {online, None}, \A m \in Maps : online' = m /\ Claimed(m) => Claimed(m)'
  PROVE  Unclaimed'
<1>1. None \notin Maps
  BY ClientAssumption
<1> QED BY <1>1 DEF Unclaimed

\* Steps that leave the table, and who is accepted, alone
LEMMA ClaimsSame ==
  ASSUME Unclaimed, UNCHANGED <<abandoned, online>>,
         \A m \in Maps : \A f \in Fds : sess[m][f].auth => sess'[m][f].auth,
         \A m \in Maps : Has(Ring(m), Owed) => Has(Ring(m)', Owed)
  PROVE  Unclaimed'
<1>1. \A m \in Maps : Claimed(m) => Claimed(m)'
  BY DEF Claimed
<1> QED BY <1>1, KeepsClaims

LEMMA HasInFront ==
  ASSUME NEW S, NEW d \in Seq(S), NEW u \in Seq(S), NEW w \in Seq(S), NEW A, Has(d \o u, A)
  PROVE  Has(d \o (u \o w), A)
<1>1. PICK i \in 1..(Len(d) + Len(u)) : (d \o u)[i] \in A
  BY RingIs DEF Has
<1>2. u \o w \in Seq(S) /\ Len(u \o w) = Len(u) + Len(w) /\ Len(u) \in Nat /\ Len(w) \in Nat /\ Len(d) \in Nat
      /\ \A j \in 1..Len(u) : (u \o w)[j] = u[j]
  BY RingIs, ConcatProperties
<1>3. i \in 1..(Len(d) + Len(u \o w)) /\ i \in DOMAIN (d \o (u \o w))
  BY <1>2, RingIs
<1>4. (d \o (u \o w))[i] = (d \o u)[i]
  BY <1>2, <1>3, RingIs
<1> QED BY <1>1, <1>3, <1>4 DEF Has

\* What a map server says more leaves what it said.
LEMMA ClaimsSaid ==
  ASSUME Shape, NEW m \in Maps, NEW w \in Seq(UpMessage), up' = [up EXCEPT ![m] = @ \o w], down' = down, NEW n \in Maps,
         Has(Ring(n), Owed)
  PROVE  Has(Ring(n)', Owed)
<1>1. TypeOK /\ up \in [Maps -> Seq(UpMessage)]
  BY DEF Shape, TypeOK, TypeOKMap
<1>2. CASE n = m
  <2>1. Ring(m)' = down[m] \o (up[m] \o w)
    BY <1>1 DEF Ring
  <2>2. down[m] \in Seq(Message) /\ up[m] \in Seq(Message) /\ w \in Seq(Message)
    BY <1>1, RingTypes, SeqMonotonic DEF Message
  <2> QED BY <1>2, <2>1, <2>2, HasInFront DEF Ring
<1>3. CASE n # m
  BY <1>1, <1>3 DEF Ring
<1> QED BY <1>2, <1>3

LEMMA OwedOrNot ==
  /\ \A x : x \in Owed => x.op \in {"ok", "gone"}
  /\ \A x \in Message : x.op \in {"ok", "gone"} => x \in Owed
BY DEF Owed

LEMMA GhostChar ==
  ASSUME Shape, Unclaimed, NEW m \in Maps, CharReceivesMap(m), UNCHANGED maps
  PROVE  Unclaimed'
<1> DEFINE msg == Head(up[m])
<1>1. /\ TypeOK /\ up[m] # <<>> /\ up' = [up EXCEPT ![m] = Tail(@)] /\ UNCHANGED <<sess, abandoned>> /\ up[m] \in Seq(UpMessage)
      /\ msg \in UpMessage
  BY UpHead DEF Shape, CharReceivesMap, maps, TypeOK, TypeOKMap
<1>2. ASSUME msg.op # "gone", online' = online, down' = down PROVE Unclaimed'
  <2>1. Loses(Ring(m), Ring(m)', msg) /\ \A n \in Maps \ {m} : Ring(n)' = Ring(n)
    BY <1>1, <1>2, RingGivesAbove
  <2>2. msg \notin Owed
    BY <1>1, <1>2, UpFields, OwedOrNot
  <2>3. \A n \in Maps : Has(Ring(n), Owed) => Has(Ring(n)', Owed)
    BY <2>1, <2>2 DEF Loses
  <2> QED BY <1>1, <1>2, <2>3, ClaimsSame
<1>3. ASSUME msg.op # "gone", online' = online, NEW y \in DownMessage, Reply(m, y) PROVE Unclaimed'
  <2>1. Turns(Ring(m), Ring(m)', msg, y) /\ \A n \in Maps \ {m} : Ring(n)' = Ring(n)
    BY <1>1, <1>3, RingAnswers
  <2>2. msg \notin Owed
    BY <1>1, <1>3, UpFields, OwedOrNot
  <2>3. \A n \in Maps : Has(Ring(n), Owed) => Has(Ring(n)', Owed)
    BY <2>1, <2>2 DEF Turns
  <2> QED BY <1>1, <1>3, <2>3, ClaimsSame
<1>4. CASE Vouch(m, msg) /\ online' = m
  <2> DEFINE y == [op |-> "ok", char |-> msg.char, value |-> stored[msg.char], to |-> msg.to]
             e == [id |-> msg.id, char |-> msg.char, use |-> "map"]
  <2>1. msg.op = "auth" /\ msg.char \in Chars /\ msg.to \in {0} \cup Fds /\ stored[msg.char] \in 0..MaxValue
    BY <1>1, <1>4, UpFields DEF Vouch, TypeOK, TypeOKChar
  <2>2. CASE e \in auth
    <3>1. y \in DownMessage /\ y.op = "ok"
      BY <2>1 DEF DownMessage
    <3>2. Reply(m, y)
      BY <1>4, <2>2 DEF Vouch
    <3> HIDE DEF y
    <3>3. Turns(Ring(m), Ring(m)', msg, y)
      BY <1>1, <3>1, <3>2, RingAnswers
    <3>4. Has(Ring(m)', Owed)
      BY <3>1, <3>3, DownFields, OwedOrNot DEF Turns
    <3> QED BY <1>4, <3>4 DEF Unclaimed, Claimed
  <2>3. CASE e \notin auth
    <3>1. [op |-> "fail", to |-> msg.to] \in DownMessage
      BY <2>1 DEF DownMessage
    <3>2. Reply(m, [op |-> "fail", to |-> msg.to]) /\ online' = online
      BY <1>4, <2>3 DEF Vouch
    <3> QED BY <1>3, <2>1, <3>1, <3>2
  <2> QED BY <2>2, <2>3
<1>5. CASE Vouch(m, msg) /\ online' # m
  <2>1. msg.op = "auth" /\ msg.to \in {0} \cup Fds
    BY <1>1, <1>5, UpFields DEF Vouch
  <2>2. [op |-> "fail", to |-> msg.to] \in DownMessage
    BY <2>1 DEF DownMessage
  <2>3. Reply(m, [op |-> "fail", to |-> msg.to]) /\ online' = online
    BY <1>5 DEF Vouch
  <2> QED BY <1>3, <2>1, <2>2, <2>3
<1>6. CASE Save(m, msg)
  <2>1. msg.op = "save" /\ online' = online /\ msg.final \in 0..3 /\ msg.map \in Maps
    BY <1>1, <1>6, UpFields DEF Save
  <2>2. CASE msg.final > 0
    <3>1. [op |-> "saved", final |-> msg.final, map |-> msg.map] \in DownMessage
      BY <2>1, <2>2 DEF DownMessage
    <3> QED BY <1>3, <1>6, <2>1, <2>2, <3>1 DEF Save
  <2>3. CASE ~(msg.final > 0)
    BY <1>2, <1>6, <2>1, <2>3 DEF Save
  <2> QED BY <2>2, <2>3
<1>7. CASE SendOn(m, msg)
  <2>1. msg.op \in {"select", "move"} /\ online' = online
    BY <1>7 DEF SendOn
  <2>2. [op |-> "selectok"] \in DownMessage
    BY DEF DownMessage
  <2>3. msg.op = "move" => [op |-> "moved", char |-> msg.char, map |-> msg.map] \in DownMessage
    BY <1>1, UpFields DEF DownMessage
  <2> QED BY <1>3, <1>7, <2>1, <2>2, <2>3 DEF SendOn
<1>8. CASE Gone(m, msg)
  <2>1. online' = None /\ None \notin Maps
    BY <1>8, ClientAssumption DEF Gone
  <2> QED BY <2>1 DEF Unclaimed
<1> QED BY <1>4, <1>5, <1>6, <1>7, <1>8 DEF CharReceivesMap

LEMMA GhostMap ==
  ASSUME IInv, Unclaimed, NEW m \in Maps, MapReceives(m)
  PROVE  Unclaimed'
<1> DEFINE msg == Head(down[m])
<1>1. /\ TypeOK /\ Fine /\ down[m] # <<>> /\ down' = [down EXCEPT ![m] = Tail(@)] /\ UNCHANGED <<online, idb>>
      /\ msg \in DownMessage /\ msg \in Message /\ sess \in [Maps -> [Fds -> Session]]
  BY DownHead, DownFields DEF IInv, Shape, Fine, MapReceives, TypeOK, TypeOKMap
<1>2. ASSUME msg \notin Owed, up' = up
      PROVE  \A n \in Maps : Has(Ring(n), Owed) => Has(Ring(n)', Owed)
  <2>1. Loses(Ring(m), Ring(m)', msg) /\ \A n \in Maps \ {m} : Ring(n)' = Ring(n)
    BY <1>1, <1>2, RingGivesBelow
  <2> QED BY <1>2, <2>1 DEF Loses
<1>3. CASE Accept(m, msg)
  <2>1. SUFFICES ASSUME ~abandoned', online = m PROVE Claimed(m)'
    <3>1. Loses(Ring(m), Ring(m)', msg) /\ \A n \in Maps \ {m} : Ring(n)' = Ring(n)
      BY <1>1, <1>3, RingGivesBelow DEF Accept
    <3>2. \A n \in Maps \ {m} : sess'[n] = sess[n]
      BY <1>1, <1>3 DEF Accept, Unanswered
    <3>3. \A n \in Maps \ {m} : Claimed(n) => Claimed(n)'
      BY <3>1, <3>2 DEF Claimed
    <3>4. abandoned => abandoned'
      BY <1>1, <1>3 DEF Accept, Unanswered, TypeOK, TypeOKMap
    <3> QED BY <1>1, <3>3, <3>4 DEF Unclaimed
  <2>2. idb[m] # 0 /\ idb[m] \in Fds
    BY <1>1, <1>3, <2>1 DEF Accept, TypeOK, TypeOKMap
  <2>3. sess'[m][idb[m]].auth
    <3>1. \/ sess[m][idb[m]].auth /\ sess' = sess
          \/ sess' = [sess EXCEPT ![m][idb[m]] = [@ EXCEPT !.auth = TRUE, !.waiting = FALSE, !.val = msg.value, !.dest = m]]
      BY <1>3, <2>1, <2>2 DEF Accept
    <3> DEFINE t == [sess[m][idb[m]] EXCEPT !.auth = TRUE, !.waiting = FALSE, !.val = msg.value, !.dest = m]
    <3>2. t.auth
      BY <1>1, <2>2 DEF Session
    <3>3. sess' = [sess EXCEPT ![m][idb[m]] = t] => sess'[m][idb[m]] = t
      BY <1>1, <2>2
    <3> QED BY <3>1, <3>2, <3>3
  <2> QED BY <2>2, <2>3 DEF Claimed
<1>4. CASE Refuse(m, msg)
  <2>1. msg \notin Owed /\ up' = up /\ abandoned' = abandoned
    BY <1>4, OwedOrNot DEF Refuse
  <2>2. \A n \in Maps : \A f \in Fds : sess[n][f].auth => sess'[n][f].auth
    <3>1. sess' = sess \/ sess' = [sess EXCEPT ![m][idb[m]].twin = 0]
      BY <1>4 DEF Refuse, Unanswered
    <3> QED BY <1>1, <3>1 DEF Session
  <2> QED BY <1>1, <1>2, <2>1, <2>2, ClaimsSame
<1>5. CASE Saved(m, msg)
  <2>1. msg \notin Owed /\ sess' = sess /\ abandoned' = abandoned
    BY <1>5, OwedOrNot DEF Saved
  <2>2. CASE up' = up
    BY <1>1, <1>2, <2>1, <2>2, ClaimsSame
  <2>3. CASE up' # up
    <3>1. PICK y \in UpMessage : up' = [up EXCEPT ![m] = Append(@, y)]
      BY <1>5, <2>3, SavedIs
    <3>2. (\E r : Loses(Ring(m), r, msg) /\ Gains(r, Ring(m)', y)) /\ \A n \in Maps \ {m} : Ring(n)' = Ring(n)
      BY <1>1, <3>1, RingGoesOn
    <3>3. \A n \in Maps : Has(Ring(n), Owed) => Has(Ring(n)', Owed)
      BY <2>1, <3>2 DEF Loses, Gains
    <3> QED BY <1>1, <2>1, <3>3, ClaimsSame
  <2> QED BY <2>2, <2>3
<1>6. CASE Proceed(m, msg) \/ Kicked(m, msg)
  <2>1. msg \notin Owed /\ up' = up /\ sess' = sess /\ abandoned' = abandoned
    BY <1>6, OwedOrNot DEF Proceed, Kicked
  <2> QED BY <1>1, <1>2, <2>1, ClaimsSame
<1> QED BY <1>3, <1>4, <1>5, <1>6 DEF MapReceives

LEMMA GhostClose ==
  ASSUME Shape, Unclaimed, NEW m \in Maps, NEW f \in Fds, Close(m, f)
  PROVE  Unclaimed'
<1>1. /\ \A n \in Maps \ {m} : sess'[n] = sess[n]
      /\ \A g \in Fds : sess'[m][g] = IF g = f THEN NoSession ELSE sess[m][g]
      /\ UNCHANGED <<online, abandoned>>
  <2>1. abandoned' = abandoned
    BY DEF Close
  <2> QED BY <2>1, ClosesIs
<1>2. Claimed(m) => Claimed(m)'
  <2>1. /\ up \in [Maps -> Seq(UpMessage)] /\ down \in [Maps -> Seq(DownMessage)] /\ Fine
        /\ up[m] \in Seq(UpMessage) /\ down[m] \in Seq(DownMessage) /\ f \in Here(m)
    BY DEF Shape, Fine, TypeOK, TypeOKMap, Close, Here
  <2>2. /\ sess[m][f] \in Session /\ sess[m][f].char \in Chars /\ sess[m][f].dest \in Maps
        /\ sess[m][f].auth => sess[m][f].twin # -1
    BY <2>1, SessionFields, FdAssumption DEF Shape, AuthIsEntry, EntryIsHere
  <2> DEFINE u == NoneTo(f, up[m])
             d == NoneTo(f, down[m])
             x == SaveMessage(sess[m][f], 1)
  <2>3. u \in Seq(UpMessage) /\ d \in Seq(DownMessage) /\ Rewords(Ring(m), d \o u, f)
    BY <2>1, NoneToIs DEF Ring
  <2>4. Ring(m)' = d \o (u \o LastWords(sess[m][f]))
    BY <2>1 DEF Ring, Close
  <2>5. x \in UpMessage /\ Parting \in UpMessage
    BY <2>2, SaveMessageIs, PartingIs
  <2>6. u \o LastWords(sess[m][f]) = IF ~sess[m][f].auth THEN u
                                     ELSE IF sess[m][f].waiting THEN Append(u, Parting)
                                     ELSE Append(Append(u, x), Parting)
    BY <2>2, <2>3, <2>5, LastWordsAre
  <2>7. u \in Seq(Message) /\ d \in Seq(Message) /\ Parting \in Message /\ Append(u, x) \in Seq(Message)
    <3>1. x \in Message /\ Parting \in Message
      BY <2>5, UpFields
    <3>2. u \in Seq(Message) /\ d \in Seq(Message)
      BY <2>3, SeqMonotonic DEF Message
    <3> QED BY <3>1, <3>2
  <2> HIDE DEF u, d, x
  <2>8. CASE sess[m][f].auth
    <3>1. \E w \in Seq(Message) : Ring(m)' = d \o Append(w, Parting)
      BY <2>4, <2>6, <2>7, <2>8
    <3>2. Has(Ring(m)', Owed)
      <4>1. PICK w \in Seq(Message) : Ring(m)' = d \o Append(w, Parting)
        BY <3>1
      <4>2. Gains(d \o w, Ring(m)', Parting)
        BY <2>7, <4>1, Said
      <4>3. Parting \in Owed
        BY <2>7, OwedOrNot DEF Parting
      <4> QED BY <4>2, <4>3 DEF Gains
    <3> QED BY <3>2 DEF Claimed
  <2>9. CASE ~sess[m][f].auth
    <3>1. Rewords(Ring(m), Ring(m)', f)
      BY <2>3, <2>4, <2>6, <2>9
    <3>2. \A z \in Message : z \in Owed => NotTo(f, z) \in Owed
      BY NotToFields, OwedOrNot DEF Message
    <3>3. Has(Ring(m), Owed) => Has(Ring(m)', Owed)
      BY <3>1, <3>2 DEF Rewords
    <3>4. \A g \in Fds : sess[m][g].auth => sess'[m][g].auth
      BY <1>1, <2>9
    <3> QED BY <3>3, <3>4 DEF Claimed
  <2> QED BY <2>8, <2>9
<1>3. \A n \in Maps \ {m} : Claimed(n) => Claimed(n)'
  <2>1. \A n \in Maps \ {m} : Ring(n)' = Ring(n)
    BY ClosesRing
  <2> QED BY <1>1, <2>1 DEF Claimed
<1> QED BY <1>1, <1>2, <1>3, KeepsClaims

LEMMA GhostBreaks ==
  ASSUME Shape, Unclaimed, NEW m \in Maps, LinkBreaks(m)
  PROVE  Unclaimed'
<1>1. /\ \A n \in Maps \ {m} : Ring(n)' = Ring(n) /\ sess'[n] = sess[n]
      /\ online' = IF online = m THEN None ELSE online
      /\ abandoned' = abandoned
  BY BreaksIs DEF LinkBreaks, Shape, Fine
<1>2. \A n \in Maps \ {m} : Claimed(n) => Claimed(n)'
  BY <1>1 DEF Claimed
<1>3. None # m
  BY ClientAssumption
<1> QED BY <1>1, <1>2, <1>3, KeepsClaims

LEMMA GhostSays ==
  ASSUME Shape, Unclaimed, NEW m \in Maps, NEW w \in Seq(UpMessage), up' = [up EXCEPT ![m] = @ \o w],
         UNCHANGED <<down, online, abandoned>>, \A n \in Maps : \A f \in Fds : sess[n][f].auth => sess'[n][f].auth
  PROVE  Unclaimed'
BY ClaimsSaid, ClaimsSame

LEMMA GhostStill ==
  ASSUME Shape, Unclaimed, UNCHANGED <<up, online, abandoned>>, down' \in {down, KickAll},
         \A n \in Maps : \A f \in Fds : sess[n][f].auth => sess'[n][f].auth
  PROVE  Unclaimed'
<1>1. [op |-> "kick"] \notin Owed
  BY OwedOrNot
<1>2. \A n \in Maps : Has(Ring(n), Owed) => Has(Ring(n)', Owed)
  <2> TAKE n \in Maps
  <2>1. LetsIn(Ring(n), Ring(n)', [op |-> "kick"]) \/ Ring(n)' = Ring(n)
    BY RingKicked DEF Shape
  <2> QED BY <1>1, <2>1 DEF LetsIn
<1> QED BY <1>2, ClaimsSame

LEMMA GhostOthers ==
  ASSUME Shape, Unclaimed, NEW m \in Maps
  PROVE  /\ \A k \in Clients : MapConnect(k) => Unclaimed'
         /\ \A f \in Fds : Play(m, f) => Unclaimed'
         /\ Autosave(m) => Unclaimed'
         /\ \A f \in Fds, final \in {2, 3}, n \in Maps : Leave(m, f, final, n) => Unclaimed'
<1>1. Fine /\ sess \in [Maps -> [Fds -> Session]]
  BY DEF Shape, Fine, TypeOK, TypeOKMap
<1>2. ASSUME NEW k \in Clients, MapConnect(k) PROVE Unclaimed'
  <2> DEFINE h == client[k].map
             c == client[k].char
             new(f) == Newcomer(c, client[k].id, h, IF idb[h] = 0 THEN 0 ELSE -1)
  <2>1. PICK f \in Fds \ Here(h) :
          /\ sess' = [sess EXCEPT ![h] = IF idb[h] = 0 THEN [@ EXCEPT ![f] = new(f)]
                                         ELSE [@ EXCEPT ![f] = new(f), ![idb[h]].twin = f]]
          /\ up' = [up EXCEPT ![h] = @ \o <<[op |-> "auth", id |-> client[k].id, char |-> c, to |-> f]>>]
    BY <1>2, Zenon DEF MapConnect, Send, Newcomer
  <2>2. h \in Maps /\ c \in Chars /\ client[k].id \in Ids /\ UNCHANGED <<down, online, abandoned>>
    BY <1>1, <1>2, ClientFields DEF MapConnect, Fine, Players, ClientSound, chars
  <2>3. [op |-> "auth", id |-> client[k].id, char |-> c, to |-> f] \in UpMessage
    BY <2>2 DEF UpMessage
  <2>4. \A n \in Maps : \A g \in Fds : sess[n][g].auth => sess'[n][g].auth
    <3>1. ~sess[h][f].auth
      BY <1>1, <2>1, <2>2, SessionFields
    <3> HIDE DEF h, new
    <3>2. idb[h] # 0 => idb[h] \in Fds
      BY <1>1, <2>2, EntryFields
    <3>3. \A g \in Fds : sess[h][g].auth => sess'[h][g].auth
      <4>1. CASE idb[h] = 0
        BY <1>1, <2>1, <2>2, <3>1, <4>1
      <4>2. CASE idb[h] # 0
        <5>1. sess'[h] = [sess[h] EXCEPT ![f] = new(f), ![idb[h]].twin = f]
          BY <1>1, <2>1, <2>2, <4>2
        <5>2. sess[h] \in [Fds -> Session]
          BY <1>1, <2>2
        <5>3. ASSUME NEW g \in Fds, sess[h][g].auth PROVE sess'[h][g].auth
          <6>1. g # f
            BY <3>1, <5>3
          <6>2. sess[h][g] \in Session
            BY <5>2
          <6>3. sess'[h][g] = sess[h][g] \/ sess'[h][g] = [sess[h][g] EXCEPT !.twin = f]
            BY <3>2, <4>2, <5>1, <5>2, <6>1
          <6> QED BY <5>3, <6>2, <6>3 DEF Session
        <5> QED BY <5>3
      <4> QED BY <4>1, <4>2
    <3> QED BY <1>1, <2>1, <3>3
  <2> HIDE DEF h
  <2>5. <<[op |-> "auth", id |-> client[k].id, char |-> c, to |-> f]>> \in Seq(UpMessage)
    BY <2>3
  <2> QED BY <2>1, <2>2, <2>4, <2>5, GhostSays
<1>3. ASSUME NEW f \in Fds, Play(m, f) PROVE Unclaimed'
  <2>1. sess' = [sess EXCEPT ![m][f].val = sess[m][f].val + 1] /\ UNCHANGED <<up, down, online, abandoned>>
    BY <1>3 DEF Play, chars
  <2>2. \A n \in Maps : \A g \in Fds : sess[n][g].auth => sess'[n][g].auth
    BY <1>1, <2>1 DEF Session
  <2> QED BY <2>1, <2>2, GhostStill
<1>4. ASSUME Autosave(m) PROVE Unclaimed'
  <2>1. PICK f \in Playing(m) : up' = [up EXCEPT ![m] = @ \o SaveOf(sess[m][f], 0)]
    BY <1>4 DEF Autosave, Send
  <2>2. SaveOf(sess[m][f], 0) \in Seq(UpMessage) /\ UNCHANGED <<down, online, abandoned, sess>>
    BY <1>1, <1>4, PlayingIs, SessionFields, SaveType DEF Autosave, chars, maps
  <2> QED BY <2>1, <2>2, GhostSays
<1>5. ASSUME NEW f \in Fds, NEW final \in {2, 3}, NEW n \in Maps, Leave(m, f, final, n) PROVE Unclaimed'
  <2>1. /\ f \in Playing(m) /\ sess' = [sess EXCEPT ![m][f].waiting = TRUE, ![m][f].dest = n]
        /\ up' = [up EXCEPT ![m] = @ \o SaveOf([sess[m][f] EXCEPT !.dest = n], final)]
        /\ UNCHANGED <<down, online, abandoned>>
    BY <1>5 DEF Leave, Send, chars
  <2>2. [sess[m][f] EXCEPT !.dest = n] \in Session /\ [sess[m][f] EXCEPT !.dest = n].char \in Chars /\ [sess[m][f] EXCEPT !.dest = n].dest \in Maps
    <3>1. sess[m][f] \in Session /\ sess[m][f].char \in Chars
      BY <1>1, <2>1, PlayingIs, SessionFields
    <3> QED BY <3>1 DEF Session
  <2>3. SaveOf([sess[m][f] EXCEPT !.dest = n], final) \in Seq(UpMessage)
    <3>1. final \in 0..3
      OBVIOUS
    <3> DEFINE s == [sess[m][f] EXCEPT !.dest = n]
    <3>2. s \in Session /\ s.char \in Chars /\ s.dest \in Maps
      BY <2>2
    <3> HIDE DEF s
    <3>3. SaveOf(s, final) \in Seq(UpMessage)
      BY <3>1, <3>2, SaveType
    <3> QED BY <3>3 DEF s
  <2>4. \A l \in Maps : \A g \in Fds : sess[l][g].auth => sess'[l][g].auth
    BY <1>1, <2>1 DEF Session
  <2> QED BY <2>1, <2>3, <2>4, GhostSays
<1> QED BY <1>2, <1>3, <1>4, <1>5

LEMMA InitUnclaimed == Init => Unclaimed
BY ClientAssumption DEF Init, InitChar, Unclaimed

LEMMA NextUnclaimed ==
  ASSUME IInv, Unclaimed, [Next]_vars
  PROVE  Unclaimed'
<1>0. Shape
  BY DEF IInv
<1>1. ASSUME UNCHANGED <<up, down, online, abandoned, sess>> PROVE Unclaimed'
  BY <1>0, <1>1, GhostStill
<1>2. CASE UNCHANGED vars
  BY <1>1, <1>2 DEF vars
<1>3. CASE Proceeds
  <2>1. CASE LoginReceives /\ OnlyLogin
    BY <1>1, <2>1 DEF OnlyLogin, chars, maps
  <2>2. ASSUME NEW k \in Clients, CharConnect(k), UNCHANGED maps PROVE Unclaimed'
    BY <1>1, <2>2 DEF CharConnect, maps
  <2>3. ASSUME NEW k \in Clients, Select(k), UNCHANGED maps PROVE Unclaimed'
    BY <1>0, <2>3, GhostStill DEF Select, maps
  <2>4. ASSUME NEW f \in Seats, CloseSeat(f), UNCHANGED maps PROVE Unclaimed'
    BY <1>1, <2>4 DEF CloseSeat, maps
  <2>5. CASE CharReceivesLogin /\ UNCHANGED maps
    BY <1>0, <2>5, GhostStill DEF CharReceivesLogin, Revoke, Answer, maps
  <2>6. ASSUME NEW m \in Maps, CharReceivesMap(m), UNCHANGED maps PROVE Unclaimed'
    BY <1>0, <2>6, GhostChar
  <2>7. ASSUME NEW k \in Clients, MapConnect(k) PROVE Unclaimed'
    <3>1. client[k].map \in Maps
      BY <1>0, <2>7 DEF Shape, Players, ClientSound, MapConnect
    <3> QED BY <1>0, <2>7, <3>1, GhostOthers
  <2>8. ASSUME NEW m \in Maps, MapReceives(m) PROVE Unclaimed'
    BY <2>8, GhostMap
  <2>9. ASSUME NEW m \in Maps, TimerSpent(m) PROVE Unclaimed'
    BY <1>1, <2>9 DEF TimerSpent, chars
  <2>10. ASSUME NEW m \in Maps, NEW f \in Fds, Play(m, f) \/ Close(m, f) PROVE Unclaimed'
    BY <1>0, <2>10, GhostOthers, GhostClose
  <2> QED BY <1>3, <2>1, <2>2, <2>3, <2>4, <2>5, <2>6, <2>7, <2>8, <2>9, <2>10 DEF Proceeds
<1>4. CASE LogIn
  BY <1>1, <1>4 DEF LogIn, OnlyLogin, chars, maps
<1>5. CASE Forget
  BY <1>1, <1>5 DEF Forget, OnlyLogin, ForgetEntry, chars, maps
<1>6. CASE MoveOn
  <2>1. ASSUME NEW m \in Maps, NEW f \in Fds, Restart(m, f) PROVE Unclaimed'
    BY <1>0, <2>1, GhostOthers DEF Restart
  <2>2. ASSUME NEW m \in Maps, NEW f \in Fds, MoveServer(m, f) PROVE Unclaimed'
    BY <1>0, <2>2, GhostOthers DEF MoveServer
  <2> QED BY <1>6, <2>1, <2>2 DEF MoveOn
<1>7. CASE SaveOne
  BY <1>0, <1>7, GhostOthers DEF SaveOne
<1>8. CASE StopIt
  BY <1>1, <1>8 DEF StopIt, GiveUp, QuitGame, chars, maps
<1>9. CASE Break
  BY <1>0, <1>9, GhostBreaks DEF Break
<1> QED BY <1>2, <1>3, <1>4, <1>5, <1>6, <1>7, <1>8, <1>9 DEF Next

\* Where char_online_db says the account plays, there is a connection of it
\* as soon as no message is under way: the entry is made when the answer to
\* 0x2afc is sent, and a connection that was accepted says 0x2b18 when it is
\* closed, also one that was saved before, for any number of clients, logins,
\* servers and connections.
THEOREM NoGhosts == Spec => []NoGhost
<1>1. ASSUME IInv, Unclaimed PROVE NoGhost
  <2> SUFFICES ASSUME ~abandoned, NEW m \in Maps, Quiet(m), online = m PROVE Here(m) # {}
    BY DEF NoGhost
  <2>1. Ring(m) = <<>>
    BY DEF Ring, Quiet
  <2>2. ~Has(Ring(m), Owed)
    BY <2>1, EmptyIsTame
  <2>3. PICK f \in Fds : sess[m][f].auth
    BY <1>1, <2>2 DEF Unclaimed, Claimed
  <2> QED BY <1>1, <2>3, SessionFields DEF IInv, Shape, Fine
<1>2. Spec => []Unclaimed
  <2>1. IInv /\ Unclaimed /\ [Next]_vars => Unclaimed'
    BY NextUnclaimed
  <2> QED BY <2>1, InitUnclaimed, Invariant, PTL DEF Spec
<1> QED BY <1>1, <1>2, Invariant, PTL

-----------------------------------------------------------------------------
(* The newest state of a character is with the player, or in the last save   *)
(* under way, or else in the file.                                           *)

Played(c) == \E m \in Maps : \E f \in Playing(m) : sess[m][f].char = c

\* Saves of character c, and those that bring v or something else
SavesOf(c)  == {x \in Message : x.op = "save" /\ x.char = c}
Older(c, v) == {x \in SavesOf(c) : x.value # v}
Newer(c, v) == {x \in SavesOf(c) : x.value = v}

\* Answers that let connection f in with something else than what l says
Stale(f, l) == {x \in Answers(f) : x.value # l[x.char]}

Followed(q, A, B) == \A i \in DOMAIN q : q[i] \in A => \E j \in DOMAIN q : i < j /\ q[j] \in B

SavedLast(q, c, v) == Followed(q, Older(c, v), Newer(c, v))

PlayedNewest   == \A m \in Maps : \A f \in Playing(m) : sess[m][f].val = latest[sess[m][f].char]
SavedNewest    == \A m \in Maps, c \in Chars : ~Played(c) => SavedLast(up[m], c, latest[c])
StoredNewest   == \A c \in Chars : ~Played(c) /\ (\A m \in Maps : ~Has(up[m], SavesOf(c))) => stored[c] = latest[c]
AnsweredNewest == \A m \in Maps : idb[m] # 0 => ~Has(down[m], Stale(idb[m], latest))

Newest == PlayedNewest /\ SavedNewest /\ StoredNewest /\ AnsweredNewest

LEMMA TailKeeps ==
  ASSUME NEW S, NEW d \in Seq(S), d # <<>>
  PROVE  /\ \A A : Has(Tail(d), A) => Has(d, A)
         /\ \A A : Has(d, A) => Head(d) \in A \/ Has(Tail(d), A)
         /\ \A A, B : Followed(d, A, B) => Followed(Tail(d), A, B)
         /\ \A A, B : Followed(d, A, B) /\ Head(d) \in A => Has(Tail(d), B)
         /\ \A A : Head(d) \in A => Has(d, A)
<1> DEFINE t == Tail(d)
           n == Len(d)
<1>1. /\ n \in Nat \ {0} /\ DOMAIN d = 1..n /\ DOMAIN t = 1..(n-1) /\ Head(d) = d[1]
      /\ \A i \in 1..(n-1) : t[i] = d[i+1]
  BY TailIs
<1> HIDE DEF t, n
<1>2. \A i \in DOMAIN t : i + 1 \in DOMAIN d /\ t[i] = d[i+1]
  BY <1>1
<1>3. \A j \in DOMAIN d : j > 1 => j - 1 \in DOMAIN t /\ t[j-1] = d[j]
  BY <1>1
<1>4. 1 \in DOMAIN d /\ d[1] = Head(d) /\ \A j \in DOMAIN d : j \in Nat /\ (j = 1 \/ j > 1)
  BY <1>1
<1>5. \A A : Has(t, A) => Has(d, A)
  BY <1>2 DEF Has
<1>6. \A A : Has(d, A) => Head(d) \in A \/ Has(t, A)
  BY <1>3, <1>4 DEF Has
<1>7. ASSUME NEW A, NEW B, Followed(d, A, B) PROVE Followed(t, A, B)
  <2> SUFFICES ASSUME NEW i \in DOMAIN t, t[i] \in A PROVE \E j \in DOMAIN t : i < j /\ t[j] \in B
    BY DEF Followed
  <2>1. PICK j \in DOMAIN d : i + 1 < j /\ d[j] \in B
    BY <1>2, <1>7 DEF Followed
  <2>2. j - 1 \in DOMAIN t /\ t[j-1] \in B /\ i < j - 1
    <3>1. i \in Nat /\ j \in Nat
      BY <1>1
    <3> QED BY <1>3, <2>1, <3>1
  <2> QED BY <2>2
<1>8. ASSUME NEW A, NEW B, Followed(d, A, B), Head(d) \in A PROVE Has(t, B)
  <2>1. PICK j \in DOMAIN d : 1 < j /\ d[j] \in B
    BY <1>4, <1>8 DEF Followed
  <2> QED BY <1>3, <1>4, <2>1 DEF Has
<1>9. \A A : Head(d) \in A => Has(d, A)
  BY <1>4 DEF Has
<1> QED BY <1>5, <1>6, <1>7, <1>8, <1>9 DEF t

LEMMA AppendKeeps ==
  ASSUME NEW S, NEW d \in Seq(S), NEW y \in S
  PROVE  /\ \A A : Has(Append(d, y), A) <=> Has(d, A) \/ y \in A
         /\ \A A, B : Followed(d, A, B) /\ y \notin A => Followed(Append(d, y), A, B)
         /\ \A A, B : y \in B /\ y \notin A => Followed(Append(d, y), A, B)
<1> DEFINE t == Append(d, y)
           n == Len(d)
<1>1. /\ n \in Nat /\ DOMAIN d = 1..n /\ DOMAIN t = 1..(n+1)
      /\ \A i \in 1..(n+1) : t[i] = IF i = n + 1 THEN y ELSE d[i]
  OBVIOUS
<1> HIDE DEF t, n
<1>2. \A i \in DOMAIN d : i \in DOMAIN t /\ t[i] = d[i] /\ i < n + 1
  BY <1>1
<1>3. \A i \in DOMAIN t : i = n + 1 \/ (i \in DOMAIN d /\ t[i] = d[i] /\ i < n + 1)
  BY <1>1
<1>4. n + 1 \in DOMAIN t /\ t[n+1] = y
  BY <1>1
<1>5. \A A : Has(t, A) <=> Has(d, A) \/ y \in A
  BY <1>2, <1>3, <1>4 DEF Has
<1>6. \A A, B : Followed(d, A, B) /\ y \notin A => Followed(t, A, B)
  BY <1>2, <1>3, <1>4 DEF Followed
<1>7. \A A, B : y \in B /\ y \notin A => Followed(t, A, B)
  BY <1>3, <1>4 DEF Followed
<1> QED BY <1>5, <1>6, <1>7 DEF t

LEMMA NothingFollows ==
  ASSUME NEW q, NEW c, NEW v, ~Has(q, SavesOf(c))
  PROVE  SavedLast(q, c, v)
BY DEF Has, SavedLast, Followed, Older

LEMMA NoneToKeeps ==
  ASSUME NEW f \in Fds, NEW d \in Seq(DownMessage), NEW u \in Seq(UpMessage)
  PROVE  /\ \A c : Has(u, SavesOf(c)) => Has(NoneTo(f, u), SavesOf(c))
         /\ \A c, v : SavedLast(u, c, v) => SavedLast(NoneTo(f, u), c, v)
         /\ \A g \in Fds : \A l : g # f /\ Has(NoneTo(f, d), Stale(g, l)) => Has(d, Stale(g, l))
<1>1. /\ \A i \in DOMAIN u : u[i] \in Message /\ NoneTo(f, u)[i] = NotTo(f, u[i])
      /\ \A i \in DOMAIN d : d[i] \in Message /\ NoneTo(f, d)[i] = NotTo(f, d[i])
      /\ DOMAIN NoneTo(f, u) = DOMAIN u /\ DOMAIN NoneTo(f, d) = DOMAIN d
  BY DEF NoneTo, Message
<1>2. \A x \in Message : \A c : x \in SavesOf(c) <=> NotTo(f, x) \in SavesOf(c)
  BY NotToFields DEF SavesOf, Message
<1>3. \A x \in Message : \A c : x \in SavesOf(c) => NotTo(f, x) = x
  BY NotToFields DEF SavesOf
<1>4. \A x \in Message : \A c, v : (x \in Older(c, v) <=> NotTo(f, x) \in Older(c, v)) /\ (x \in Newer(c, v) <=> NotTo(f, x) \in Newer(c, v))
  BY <1>2, <1>3 DEF Older, Newer
<1>5. ASSUME NEW g \in Fds, NEW l, g # f, NEW x \in Message, NotTo(f, x) \in Stale(g, l) PROVE x \in Stale(g, l)
  <2>1. NotTo(f, x).op = "ok" /\ NotTo(f, x).to = g /\ NotTo(f, x).value # l[NotTo(f, x).char] /\ NotTo(f, x) \in Message
    BY <1>5 DEF Stale, Answers
  <2>2. x.op = "ok" /\ NotTo(f, x).char = x.char /\ NotTo(f, x).value = x.value /\ NotTo(f, x).to = IF x.to = f THEN 0 ELSE x.to
    BY <2>1, NotToFields
  <2>3. x.to = g
    BY <2>1, <2>2, FdAssumption
  <2> QED BY <2>1, <2>2, <2>3 DEF Stale, Answers
<1>6. \A c : Has(u, SavesOf(c)) => Has(NoneTo(f, u), SavesOf(c))
  BY <1>1, <1>2 DEF Has
<1>7. \A c, v : SavedLast(u, c, v) => SavedLast(NoneTo(f, u), c, v)
  BY <1>1, <1>4 DEF SavedLast, Followed
<1>8. \A g \in Fds : \A l : g # f /\ Has(NoneTo(f, d), Stale(g, l)) => Has(d, Stale(g, l))
  BY <1>1, <1>5 DEF Has
<1> QED BY <1>6, <1>7, <1>8

\* What is in one of the two queues is in the ring.
LEMMA RingHas ==
  ASSUME TypeOK, NEW m \in Maps
  PROVE  \A A : Has(up[m], A) \/ Has(down[m], A) => Has(Ring(m), A)
<1>1. PICK d : d = down[m]
  OBVIOUS
<1>2. PICK u : u = up[m]
  OBVIOUS
<1>3. PICK n : n = Len(d)
  OBVIOUS
<1>4. PICK k : k = Len(u)
  OBVIOUS
<1>5. d \in Seq(Message) /\ u \in Seq(Message)
  BY <1>1, <1>2, RingTypes
<1>6. /\ DOMAIN (d \o u) = 1..(n + k) /\ n \in Nat /\ k \in Nat /\ DOMAIN d = 1..n /\ DOMAIN u = 1..k
      /\ \A i \in 1..(n + k) : (d \o u)[i] = IF i <= n THEN d[i] ELSE u[i - n]
  BY <1>3, <1>4, <1>5, RingIs
<1>7. PICK r : r = d \o u
  OBVIOUS
<1>8. /\ DOMAIN r = 1..(n + k) /\ n \in Nat /\ k \in Nat /\ DOMAIN d = 1..n /\ DOMAIN u = 1..k
      /\ \A i \in 1..(n + k) : r[i] = IF i <= n THEN d[i] ELSE u[i - n]
  BY <1>6, <1>7
<1>9. \A i \in DOMAIN d : i \in DOMAIN r /\ r[i] = d[i]
  BY <1>8
<1>10. \A i \in DOMAIN u : i + n \in DOMAIN r /\ r[i + n] = u[i]
  BY <1>8
<1>11. Ring(m) = r
  BY <1>1, <1>2, <1>7 DEF Ring
<1>12. \A A : Has(d, A) \/ Has(u, A) => Has(r, A)
  BY <1>9, <1>10 DEF Has
<1> QED BY <1>1, <1>2, <1>11, <1>12

LEMMA SavesOfIs ==
  /\ \A c, v : SavesOf(c) \subseteq Saves /\ Older(c, v) \subseteq SavesOf(c) /\ Newer(c, v) \subseteq SavesOf(c)
  /\ \A f, l : Stale(f, l) \subseteq Answers(f)
BY DEF SavesOf, Saves, Older, Newer, Stale

\* A map server the table does not name has nobody in the world and saves nothing.
LEMMA OfflineIsIdle ==
  ASSUME IInv, Sound, NEW m \in Maps, online # m
  PROVE  /\ Playing(m) = {} /\ \A c : ~Has(up[m], SavesOf(c))
         /\ idb[m] # 0 => ~Has(down[m], Answers(idb[m]))
<1>1. ~Busy(m) /\ TypeOK
  BY DEF IInv, Names, BusyIsOnline, Shape
<1>2. Playing(m) = {}
  BY PlayedIsOnline
<1>3. ~Has(Ring(m), Saves) /\ (idb[m] # 0 => ~Has(Ring(m), Answers(idb[m])))
  BY <1>1 DEF Busy, Live
<1>4. \A c : Has(up[m], SavesOf(c)) => Has(up[m], Saves)
  BY SavesOfIs DEF Has
<1> QED BY <1>1, <1>2, <1>3, <1>4, RingHas

-----------------------------------------------------------------------------
(* Steps *)

NewestKeeps(c) ==
  \/ /\ ~Played(c)
     /\ \A m \in Maps : Has(up[m], SavesOf(c)) => Has(up'[m], SavesOf(c))
     /\ \A m \in Maps : SavedLast(up[m], c, latest[c]) => SavedLast(up'[m], c, latest[c])
  \/ /\ \E m \in Maps : Has(up'[m], SavesOf(c))
     /\ \A m \in Maps : SavedLast(up'[m], c, latest[c])

LEMMA NewestStays ==
  ASSUME Newest, UNCHANGED <<latest, stored>>, PlayedNewest', AnsweredNewest',
         \A c \in Chars : Played(c)' \/ NewestKeeps(c)
  PROVE  Newest'
<1>1. SavedNewest'
  BY DEF Newest, SavedNewest, NewestKeeps
<1>2. StoredNewest'
  BY DEF Newest, StoredNewest, NewestKeeps
<1> QED BY <1>1, <1>2 DEF Newest

\* Whoever plays goes on playing.
PlayersStay ==
  \A m \in Maps :
    /\ Playing(m)' = Playing(m)
    /\ \A f \in Playing(m) : sess'[m][f].char = sess[m][f].char /\ sess'[m][f].val = sess[m][f].val

\* No save is stored, nor said.
UpQuiet ==
  \A m \in Maps, c \in Chars :
    /\ Has(up[m], SavesOf(c)) => Has(up'[m], SavesOf(c))
    /\ \A v : SavedLast(up[m], c, v) => SavedLast(up'[m], c, v)

LEMMA NewestCalm ==
  ASSUME Newest, UNCHANGED <<latest, stored>>, PlayersStay, AnsweredNewest', UpQuiet
  PROVE  Newest'
<1>1. PlayedNewest'
  BY DEF Newest, PlayedNewest, PlayersStay
<1>2. \A c \in Chars : Played(c) => Played(c)'
  BY DEF Played, PlayersStay
<1>3. \A c \in Chars : ~Played(c) => NewestKeeps(c)
  BY DEF NewestKeeps, UpQuiet
<1> QED BY <1>1, <1>2, <1>3, NewestStays

LEMMA StillPlaying ==
  ASSUME sess' = sess
  PROVE  PlayersStay
BY DEF PlayersStay, Playing

\* No answer that would let somebody in with something old arrives.
NoNewStale == \A m \in Maps : \A f : Has(down'[m], Stale(f, latest)) => Has(down[m], Stale(f, latest))

LEMMA AnswersStay ==
  ASSUME AnsweredNewest, UNCHANGED <<idb, latest>>, NoNewStale
  PROVE  AnsweredNewest'
BY DEF AnsweredNewest, NoNewStale

LEMMA NotOkNotStale ==
  ASSUME NEW y, y.op # "ok"
  PROVE  \A f, l : y \notin Stale(f, l)
BY DEF Stale, Answers

LEMMA DownKicked ==
  ASSUME TypeOK, down' \in {down, KickAll}
  PROVE  NoNewStale
<1> SUFFICES ASSUME NEW m \in Maps, NEW f, Has(down'[m], Stale(f, latest))
             PROVE  Has(down[m], Stale(f, latest))
  BY DEF NoNewStale
<1> PICK d : d = down[m]
  OBVIOUS
<1> PICK y : y = [op |-> "kick"]
  OBVIOUS
<1>1. d \in Seq(DownMessage) /\ y \in DownMessage /\ y.op # "ok"
  BY RingTypes, KickDown
<1>2. down'[m] \in {d, Append(d, y)}
  BY DEF KickAll
<1>3. \A A : Has(Append(d, y), A) <=> Has(d, A) \/ y \in A
  BY <1>1, AppendKeeps
<1> QED BY <1>1, <1>2, <1>3, NotOkNotStale

LEMMA DownTail ==
  ASSUME TypeOK, NEW m \in Maps, down[m] # <<>>, down' = [down EXCEPT ![m] = Tail(@)]
  PROVE  NoNewStale
<1> SUFFICES ASSUME NEW n \in Maps, NEW f, Has(down'[n], Stale(f, latest))
             PROVE  Has(down[n], Stale(f, latest))
  BY DEF NoNewStale
<1> PICK d : d = down[m]
  OBVIOUS
<1>1. d \in Seq(DownMessage) /\ d # <<>> /\ down'[m] = Tail(d) /\ (n # m => down'[n] = down[n])
  BY RingTypes DEF TypeOK, TypeOKMap
<1>2. \A A : Has(Tail(d), A) => Has(d, A)
  BY <1>1, TailKeeps
<1> QED BY <1>1, <1>2

LEMMA DownReply ==
  ASSUME TypeOK, NEW m \in Maps, NEW y \in DownMessage, Reply(m, y)
  PROVE  /\ \A n \in Maps : \A A : Has(down'[n], A) => Has(down[n], A) \/ (n = m /\ y \in A)
         /\ y.op # "ok" => NoNewStale
<1>1. \A n \in Maps : \A A : Has(down'[n], A) => Has(down[n], A) \/ (n = m /\ y \in A)
  <2> TAKE n \in Maps
  <2> TAKE A
  <2> PICK d : d = down[m]
    OBVIOUS
  <2>1. d \in Seq(DownMessage) /\ down'[m] = Append(d, y) /\ (n # m => down'[n] = down[n])
    BY RingTypes DEF TypeOK, TypeOKMap, Reply
  <2>2. Has(Append(d, y), A) <=> Has(d, A) \/ y \in A
    BY <2>1, AppendKeeps
  <2> QED BY <2>1, <2>2
<1> QED BY <1>1, NotOkNotStale DEF NoNewStale

LEMMA NotSaveNotOf ==
  ASSUME NEW y, y.op # "save"
  PROVE  \A c, v : y \notin SavesOf(c) /\ y \notin Older(c, v) /\ y \notin Newer(c, v)
BY DEF SavesOf, Older, Newer

LEMMA UpTail ==
  ASSUME TypeOK, NEW m \in Maps, up[m] # <<>>, up' = [up EXCEPT ![m] = Tail(@)], Head(up[m]).op # "save"
  PROVE  UpQuiet
<1> SUFFICES ASSUME NEW n \in Maps, NEW c \in Chars
             PROVE  /\ Has(up[n], SavesOf(c)) => Has(up'[n], SavesOf(c))
                    /\ \A v : SavedLast(up[n], c, v) => SavedLast(up'[n], c, v)
  BY DEF UpQuiet
<1> PICK d : d = up[m]
  OBVIOUS
<1>1. d \in Seq(UpMessage) /\ d # <<>> /\ up'[m] = Tail(d) /\ (n # m => up'[n] = up[n])
  BY RingTypes DEF TypeOK, TypeOKMap
<1>2. Head(d) \notin SavesOf(c)
  BY NotSaveNotOf
<1>3. Has(d, SavesOf(c)) => Has(Tail(d), SavesOf(c))
  BY <1>1, <1>2, TailKeeps
<1>4. \A v : SavedLast(d, c, v) => SavedLast(Tail(d), c, v)
  BY <1>1, TailKeeps DEF SavedLast
<1> QED BY <1>1, <1>3, <1>4

LEMMA UpAppend ==
  ASSUME TypeOK, NEW m \in Maps, NEW y \in UpMessage, up' = [up EXCEPT ![m] = Append(@, y)], y.op # "save"
  PROVE  UpQuiet
<1> SUFFICES ASSUME NEW n \in Maps, NEW c \in Chars
             PROVE  /\ Has(up[n], SavesOf(c)) => Has(up'[n], SavesOf(c))
                    /\ \A v : SavedLast(up[n], c, v) => SavedLast(up'[n], c, v)
  BY DEF UpQuiet
<1> PICK d : d = up[m]
  OBVIOUS
<1>1. d \in Seq(UpMessage) /\ up'[m] = Append(d, y) /\ (n # m => up'[n] = up[n])
  BY RingTypes DEF TypeOK, TypeOKMap
<1>2. \A v : y \notin SavesOf(c) /\ y \notin Older(c, v)
  BY NotSaveNotOf
<1>3. Has(d, SavesOf(c)) => Has(Append(d, y), SavesOf(c))
  BY <1>1, AppendKeeps
<1>4. \A v : SavedLast(d, c, v) => SavedLast(Append(d, y), c, v)
  BY <1>1, <1>2, AppendKeeps DEF SavedLast
<1> QED BY <1>1, <1>3, <1>4

LEMMA UpSame ==
  ASSUME up' = up
  PROVE  UpQuiet
BY DEF UpQuiet

LEMMA NewestQuiet ==
  ASSUME TypeOK, Newest, UNCHANGED <<up, sess, idb, latest, stored>>, down' \in {down, KickAll}
  PROVE  Newest'
BY StillPlaying, NewestCalm, UpSame, DownKicked, AnswersStay DEF Newest

LEMMA NewestHeard ==
  ASSUME IInv, Newest, NEW m \in Maps, MapReceives(m), PlayersStay, UpQuiet
  PROVE  Newest'
<1>1. TypeOK
  BY DEF IInv, Shape
<1>2. UNCHANGED <<idb, latest, stored>> /\ down[m] # <<>> /\ down' = [down EXCEPT ![m] = Tail(@)]
  BY DEF MapReceives
<1> QED BY <1>1, <1>2, DownTail, AnswersStay, NewestCalm DEF Newest

LEMMA NewestAside ==
  ASSUME IInv, Newest, LogIn \/ Forget \/ StopIt
  PROVE  Newest'
<1>1. CASE LogIn \/ Forget
  BY <1>1, NewestQuiet DEF LogIn, Forget, OnlyLogin, ForgetEntry, chars, maps, IInv, Shape
<1>2. CASE StopIt
  BY <1>2, NewestQuiet DEF StopIt, GiveUp, QuitGame, chars, maps, IInv, Shape
<1> QED BY <1>1, <1>2

LEMMA NewestOfChar ==
  ASSUME IInv, Newest, UNCHANGED maps,
         \/ \E k \in Clients : CharConnect(k) \/ Select(k)
         \/ \E f \in Seats : CloseSeat(f)
         \/ CharReceivesLogin
  PROVE  Newest'
<1>1. UNCHANGED <<up, sess, idb, latest, stored>> /\ down' \in {down, KickAll}
  BY DEF CharConnect, Select, CloseSeat, CharReceivesLogin, Revoke, Answer, maps
<1> QED BY <1>1, NewestQuiet DEF IInv, Shape

LEMMA NewestRefuse ==
  ASSUME IInv, Newest, NEW m \in Maps, MapReceives(m), Refuse(m, Head(down[m]))
  PROVE  Newest'
<1>1. Fine /\ up' = up /\ sess \in [Maps -> [Fds -> Session]]
  BY DEF Refuse, IInv, Shape, Fine, TypeOK, TypeOKMap
<1>2. CASE sess' = sess
  BY <1>1, <1>2, StillPlaying, UpSame, NewestHeard
<1>3. CASE sess' # sess
  <2>1. PICK f : f = idb[m]
    OBVIOUS
  <2>2. f # 0 /\ sess' = [sess EXCEPT ![m][f].twin = 0] /\ f \in Fds
    BY <1>1, <1>3, <2>1, EntryFields DEF Refuse, Unanswered
  <2>3. \A n \in Maps, g \in Fds : /\ sess'[n][g].auth = sess[n][g].auth /\ sess'[n][g].waiting = sess[n][g].waiting
                                   /\ sess'[n][g].char = sess[n][g].char /\ sess'[n][g].val = sess[n][g].val
    <3> TAKE n \in Maps, g \in Fds
    <3>1. CASE n = m /\ g = f
      <4>1. sess[m][f] \in Session /\ sess'[m][f] = [sess[m][f] EXCEPT !.twin = 0]
        BY <1>1, <2>2
      <4> QED BY <3>1, <4>1 DEF Session
    <3>2. CASE n # m \/ g # f
      <4>1. sess'[n][g] = sess[n][g]
        BY <1>1, <2>2, <3>2
      <4> QED BY <4>1
    <3> QED BY <3>1, <3>2
  <2>4. PlayersStay
    BY <2>3 DEF PlayersStay, Playing
  <2> QED BY <1>1, <2>4, UpSame, NewestHeard
<1> QED BY <1>2, <1>3

LEMMA NewestSaved ==
  ASSUME IInv, Newest, NEW m \in Maps, MapReceives(m), Saved(m, Head(down[m]))
  PROVE  Newest'
<1>1. TypeOK /\ PlayersStay
  BY StillPlaying DEF Saved, IInv, Shape
<1>2. CASE up' = up
  BY <1>1, <1>2, UpSame, NewestHeard
<1>3. CASE up' # up
  <2>1. PICK y \in UpMessage : NextOf(y, sess[m][idb[m]].id) /\ up' = [up EXCEPT ![m] = Append(@, y)]
    BY <1>3, SavedIs
  <2>2. y.op # "save"
    BY <2>1 DEF NextOf
  <2> QED BY <1>1, <2>1, <2>2, UpAppend, NewestHeard
<1> QED BY <1>2, <1>3

LEMMA NewestOnward ==
  ASSUME IInv, Newest, NEW m \in Maps, MapReceives(m), Proceed(m, Head(down[m])) \/ Kicked(m, Head(down[m]))
  PROVE  Newest'
<1>1. UNCHANGED <<up, sess>>
  BY DEF Proceed, Kicked
<1> QED BY <1>1, StillPlaying, UpSame, NewestHeard

LEMMA NewestAccept ==
  ASSUME IInv, Sound', Newest, NEW m \in Maps, MapReceives(m), Accept(m, Head(down[m]))
  PROVE  Newest'
<1> PICK msg : msg = Head(down[m])
  OBVIOUS
<1> PICK f : f = idb[m]
  OBVIOUS
<1>1. Fine /\ TypeOK /\ sess \in [Maps -> [Fds -> Session]] /\ up' = up
  BY DEF IInv, Shape, Fine, TypeOK, TypeOKMap, Accept
<1>2. CASE sess' = sess
  BY <1>1, <1>2, StillPlaying, UpSame, NewestHeard
<1>3. CASE sess' # sess
  <2> DEFINE t == [sess[m][f] EXCEPT !.auth = TRUE, !.waiting = FALSE, !.val = msg.value, !.dest = m]
  <2>1. /\ f # 0 /\ msg.op = "ok" /\ mixed' = (mixed \/ msg.to # f)
        /\ sess[m][f].char = msg.char /\ sess' = [sess EXCEPT ![m][f] = t]
    BY <1>3 DEF Accept, Unanswered
  <2>2. f \in Fds /\ sess[m][f] \in Session
    BY <1>1, <2>1, EntryFields
  <2>3. t.auth /\ ~t.waiting /\ t.val = msg.value /\ t.char = msg.char
    BY <2>1, <2>2 DEF Session
  <2>4. sess'[m][f] = t /\ \A n \in Maps, g \in Fds : n # m \/ g # f => sess'[n][g] = sess[n][g]
    BY <1>1, <2>1, <2>2
  <2> HIDE DEF t
  <2>5. UNCHANGED <<idb, latest, stored>> /\ down[m] # <<>> /\ down' = [down EXCEPT ![m] = Tail(@)] /\ msg \in Message
    BY <1>1, Hears DEF MapReceives
  <2>6. AnsweredNewest'
    BY <1>1, <2>5, DownTail, AnswersStay DEF Newest
  <2>7. msg.value = latest[msg.char]
    <3>1. msg \in Answers(f)
      BY <2>1, <2>5 DEF Sound, Answers
    <3>2. ~Has(down[m], Stale(f, latest))
      BY <2>1 DEF Newest, AnsweredNewest
    <3>3. \A A : Head(down[m]) \in A => Has(down[m], A)
      BY <1>1, <2>5, RingTypes, TailKeeps
    <3> QED BY <3>1, <3>2, <3>3 DEF Stale
  <2>8. \A n \in Maps : \A g \in Playing(n)' : (n = m /\ g = f) \/ (g \in Playing(n) /\ sess'[n][g] = sess[n][g])
    BY <2>4 DEF Playing
  <2>9. PlayedNewest'
    BY <2>3, <2>4, <2>5, <2>7, <2>8 DEF Newest, PlayedNewest
  <2>10. \A c \in Chars : Played(c) => Played(c)'
    <3> SUFFICES ASSUME NEW c \in Chars, NEW n \in Maps, NEW g \in Playing(n), sess[n][g].char = c
                 PROVE  g \in Playing(n)' /\ sess'[n][g].char = c
      BY DEF Played
    <3>1. CASE n = m /\ g = f
      BY <2>1, <2>2, <2>3, <2>4, <3>1 DEF Playing
    <3>2. CASE n # m \/ g # f
      BY <2>4, <3>2 DEF Playing
    <3> QED BY <3>1, <3>2
  <2>11. \A c \in Chars : ~Played(c) => NewestKeeps(c)
    BY <1>1 DEF NewestKeeps
  <2> QED BY <2>5, <2>6, <2>9, <2>10, <2>11, NewestStays
<1> QED BY <1>2, <1>3

LEMMA NewestMapReceives ==
  ASSUME IInv, Sound', Newest, NEW m \in Maps, MapReceives(m)
  PROVE  Newest'
BY NewestAccept, NewestRefuse, NewestSaved, NewestOnward DEF MapReceives

-----------------------------------------------------------------------------
(* The char server stores and vouches *)

LEMMA PlayerIsBusy ==
  ASSUME IInv, Sound, NEW m \in Maps, ~Busy(m)
  PROVE  Playing(m) = {} /\ \A c : ~Has(up[m], SavesOf(c))
<1>1. Playing(m) = {}
  BY PlayingAlone
<1>2. TypeOK /\ ~Has(Ring(m), Saves)
  BY DEF IInv, Shape, Busy
<1>3. \A c : Has(up[m], SavesOf(c)) => Has(up[m], Saves)
  BY SavesOfIs DEF Has
<1> QED BY <1>1, <1>2, <1>3, RingHas

\* Who asks to be let in as the entered connection, with an entry, finds what
\* is stored up to date.
LEMMA VouchedNewest ==
  ASSUME IInv, Sound, Newest, NEW m \in Maps, up[m] # <<>>, NEW msg, msg = Head(up[m]), msg.op = "auth",
         [id |-> msg.id, char |-> msg.char, use |-> "map"] \in auth, msg.to = idb[m], idb[m] # 0
  PROVE  stored[msg.char] = latest[msg.char]
<1>1. Shape /\ TypeOK /\ Paths /\ Names
  BY DEF IInv, Shape
<1>2. msg \in UpMessage /\ msg \in Message /\ msg.char \in Chars
  BY <1>1, UpHead, UpFields
<1>3. msg \in AuthsFor(msg.id, msg.char) /\ msg \in Asks(idb[m])
  BY <1>2 DEF AuthsFor, Asks
<1>4. \A A : msg \in A => Has(Ring(m), A)
  BY <1>1, HeadAbove
<1>5. \A n \in Maps : Busy(n) => n = m
  <2>1. PICK e : e = [id |-> msg.id, char |-> msg.char, use |-> "map"]
    OBVIOUS
  <2>2. e \in ForMap(auth) /\ e.id = msg.id /\ e.char = msg.char
    BY <2>1 DEF ForMap
  <2>3. Attempt(e.id, e.char, m)
    BY <1>3, <1>4, <2>2 DEF Attempt
  <2> QED BY <1>1, <2>2, <2>3 DEF Names, AttemptsFollow
<1>6. \A n \in Maps \ {m} : Playing(n) = {} /\ \A c : ~Has(up[n], SavesOf(c))
  BY <1>5, PlayerIsBusy
<1>7. Playing(m) = {}
  <2> SUFFICES ASSUME NEW f \in Playing(m) PROVE FALSE
    OBVIOUS
  <2>1. idb[m] = f /\ ~Has(Ring(m), Asks(f))
    BY <1>1, PlayingIs, PlayingAlone
  <2> QED BY <1>3, <1>4, <2>1
<1>8. \A c : ~Has(up[m], SavesOf(c))
  <2>1. Saves \cap DownMessage = {}
    BY DownFields DEF Saves
  <2>2. Before(Ring(m), Saves, Asks(idb[m]))
    BY <1>1 DEF Paths, AsksLast
  <2>3. down[m] \in Seq(DownMessage) /\ up[m] \in Seq(UpMessage)
    BY <1>1, RingTypes
  <2>4. ~Has(Ring(m), Saves)
    BY <1>3, <2>1, <2>2, <2>3, NextAbove DEF Ring
  <2>5. \A c : Has(up[m], SavesOf(c)) => Has(up[m], Saves)
    BY SavesOfIs DEF Has
  <2> QED BY <1>1, <2>4, <2>5, RingHas
<1>9. ~Played(msg.char)
  BY <1>6, <1>7 DEF Played
<1> QED BY <1>2, <1>6, <1>8, <1>9 DEF Newest, StoredNewest

LEMMA NewestVouch ==
  ASSUME IInv, Sound, Newest, NEW m \in Maps, CharReceivesMap(m), UNCHANGED maps, Vouch(m, Head(up[m]))
  PROVE  Newest'
<1> PICK msg : msg = Head(up[m])
  OBVIOUS
<1>1. TypeOK
  BY DEF IInv, Shape
<1>2. /\ UNCHANGED <<sess, idb, latest, stored>> /\ msg.op = "auth" /\ msg \in UpMessage
      /\ up[m] # <<>> /\ up' = [up EXCEPT ![m] = Tail(@)]
  BY <1>1, UpHead DEF CharReceivesMap, Vouch, maps
<1>3. UpQuiet /\ PlayersStay
  BY <1>1, <1>2, UpTail, StillPlaying
<1>4. msg.char \in Chars /\ msg.to \in {0} \cup Fds
  BY <1>2, UpFields
<1>5. AnsweredNewest'
  <2>1. CASE [id |-> msg.id, char |-> msg.char, use |-> "map"] \in auth
    <3>1. PICK y : y = [op |-> "ok", char |-> msg.char, value |-> stored[msg.char], to |-> msg.to]
      OBVIOUS
    <3>2. Reply(m, y)
      BY <2>1, <3>1 DEF Vouch
    <3>3. y \in DownMessage /\ y.char = msg.char /\ y.value = stored[msg.char] /\ y.to = msg.to
      BY <1>1, <1>4, <3>1 DEF DownMessage, TypeOK, TypeOKChar
    <3>4. SUFFICES ASSUME NEW n \in Maps, idb[n] # 0, Has(down'[n], Stale(idb[n], latest))
                   PROVE  FALSE
      BY <1>2 DEF AnsweredNewest
    <3>5. ~Has(down[n], Stale(idb[n], latest))
      BY <3>4 DEF Newest, AnsweredNewest
    <3>6. n = m /\ y \in Stale(idb[n], latest)
      BY <1>1, <3>2, <3>3, <3>4, <3>5, DownReply
    <3>7. y.to = idb[m] /\ y.value # latest[y.char]
      BY <3>6 DEF Stale, Answers
    <3>8. stored[msg.char] = latest[msg.char]
      BY <1>2, <2>1, <3>3, <3>4, <3>6, <3>7, VouchedNewest
    <3> QED BY <3>3, <3>7, <3>8
  <2>2. CASE [id |-> msg.id, char |-> msg.char, use |-> "map"] \notin auth
    <3>1. PICK y : y = [op |-> "fail", to |-> msg.to]
      OBVIOUS
    <3>2. Reply(m, y)
      BY <2>2, <3>1 DEF Vouch
    <3>3. y \in DownMessage /\ y.op # "ok"
      BY <1>4, <3>1 DEF DownMessage
    <3> QED BY <1>1, <1>2, <3>2, <3>3, DownReply, AnswersStay DEF Newest
  <2> QED BY <2>1, <2>2
<1> QED BY <1>2, <1>3, <1>5, NewestCalm

LEMMA NewestSendOn ==
  ASSUME IInv, Newest, NEW m \in Maps, CharReceivesMap(m), UNCHANGED maps,
         SendOn(m, Head(up[m])) \/ Gone(m, Head(up[m]))
  PROVE  Newest'
<1> PICK msg : msg = Head(up[m])
  OBVIOUS
<1>1. TypeOK
  BY DEF IInv, Shape
<1>2. /\ UNCHANGED <<sess, idb, latest, stored>> /\ msg.op # "save" /\ msg \in UpMessage
      /\ up[m] # <<>> /\ up' = [up EXCEPT ![m] = Tail(@)]
  BY <1>1, UpHead DEF CharReceivesMap, SendOn, Gone, maps
<1>3. UpQuiet /\ PlayersStay
  BY <1>1, <1>2, UpTail, StillPlaying
<1>4. NoNewStale
  <2>1. CASE Gone(m, msg)
    BY <1>1, <2>1, DownKicked DEF Gone
  <2>2. CASE SendOn(m, msg) /\ msg.op = "select"
    <3>1. PICK y : y = [op |-> "selectok"]
      OBVIOUS
    <3>2. Reply(m, y) /\ y \in DownMessage /\ y.op # "ok"
      BY <2>2, <3>1 DEF SendOn, DownMessage
    <3> QED BY <1>1, <3>2, DownReply
  <2>3. CASE SendOn(m, msg) /\ msg.op = "move"
    <3>1. PICK y : y = [op |-> "moved", char |-> msg.char, map |-> msg.map]
      OBVIOUS
    <3>2. Reply(m, y)
      BY <2>3, <3>1 DEF SendOn
    <3>3. y \in DownMessage /\ y.op # "ok"
      BY <1>2, <2>3, <3>1, UpFields DEF DownMessage
    <3> QED BY <1>1, <3>2, <3>3, DownReply
  <2> QED BY <2>1, <2>2, <2>3 DEF SendOn
<1> QED BY <1>2, <1>3, <1>4, AnswersStay, NewestCalm DEF Newest

LEMMA NewestSave ==
  ASSUME IInv, Newest, NEW m \in Maps, CharReceivesMap(m), UNCHANGED maps, Save(m, Head(up[m]))
  PROVE  Newest'
<1> PICK msg : msg = Head(up[m])
  OBVIOUS
<1> PICK u : u = up[m]
  OBVIOUS
<1>1. TypeOK
  BY DEF IInv, Shape
<1>2. /\ UNCHANGED <<sess, idb, latest>> /\ msg.op = "save" /\ msg \in UpMessage
      /\ up[m] # <<>> /\ up' = [up EXCEPT ![m] = Tail(@)]
      /\ stored' = [stored EXCEPT ![msg.char] = msg.value]
  BY <1>1, UpHead DEF CharReceivesMap, Save, maps
<1>3. msg \in Message /\ msg.char \in Chars /\ msg.final \in 0..3 /\ msg.map \in Maps
  BY <1>2, UpFields
<1>4. u \in Seq(UpMessage) /\ u # <<>> /\ up'[m] = Tail(u) /\ Head(u) = msg /\ \A n \in Maps \ {m} : up'[n] = up[n]
  BY <1>1, <1>2, RingTypes DEF TypeOK, TypeOKMap
<1>5. AnsweredNewest'
  <2>1. CASE msg.final > 0
    <3>1. PICK y : y = [op |-> "saved", final |-> msg.final, map |-> msg.map]
      OBVIOUS
    <3>2. Reply(m, y)
      BY <2>1, <3>1 DEF Save
    <3>3. y \in DownMessage /\ y.op # "ok"
      BY <1>3, <2>1, <3>1 DEF DownMessage
    <3> QED BY <1>1, <1>2, <3>2, <3>3, DownReply, AnswersStay DEF Newest
  <2>2. CASE ~(msg.final > 0)
    <3>1. down' = down
      BY <2>2 DEF Save
    <3> QED BY <1>1, <1>2, <3>1, DownKicked, AnswersStay DEF Newest
  <2> QED BY <2>1, <2>2
<1>6. PlayedNewest' /\ \A c \in Chars : Played(c)' = Played(c)
  BY <1>2 DEF Newest, PlayedNewest, Playing, Played
<1>7. SavedNewest'
  <2>1. \A n \in Maps, c \in Chars : SavedLast(up[n], c, latest[c]) => SavedLast(up'[n], c, latest[c])
    <3>1. \A c \in Chars : SavedLast(u, c, latest[c]) => SavedLast(Tail(u), c, latest[c])
      BY <1>4, TailKeeps DEF SavedLast
    <3> QED BY <1>4, <3>1
  <2> QED BY <1>2, <1>6, <2>1 DEF Newest, SavedNewest
<1>8. StoredNewest'
  <2> SUFFICES ASSUME NEW c \in Chars, ~Played(c), \A n \in Maps : ~Has(up'[n], SavesOf(c))
               PROVE  stored'[c] = latest[c]
    BY <1>2, <1>6 DEF StoredNewest
  <2>1. stored \in [Chars -> 0..MaxValue]
    BY <1>1 DEF TypeOK, TypeOKChar
  <2>2. ~Has(Tail(u), SavesOf(c)) /\ \A n \in Maps \ {m} : ~Has(up[n], SavesOf(c))
    BY <1>4
  <2>3. CASE c = msg.char
    <3>1. SavedLast(u, c, latest[c])
      BY DEF Newest, SavedNewest
    <3>2. ~Has(Tail(u), Newer(c, latest[c]))
      BY <2>2, SavesOfIs DEF Has
    <3>3. msg \notin Older(c, latest[c])
      BY <1>4, <3>1, <3>2, TailKeeps DEF SavedLast
    <3>4. msg.value = latest[c]
      BY <1>2, <1>3, <2>3, <3>3 DEF Older, SavesOf
    <3> QED BY <1>2, <2>1, <2>3, <3>4
  <2>4. CASE c # msg.char
    <3>1. msg \notin SavesOf(c)
      BY <2>4 DEF SavesOf
    <3>2. ~Has(u, SavesOf(c))
      BY <1>4, <2>2, <3>1, TailKeeps
    <3>3. stored[c] = latest[c]
      BY <2>2, <3>2 DEF Newest, StoredNewest
    <3> QED BY <1>2, <2>1, <2>4, <3>3
  <2> QED BY <2>3, <2>4
<1> QED BY <1>5, <1>6, <1>7, <1>8 DEF Newest

LEMMA NewestCharReceivesMap ==
  ASSUME IInv, Sound, Newest, NEW m \in Maps, CharReceivesMap(m), UNCHANGED maps
  PROVE  Newest'
BY NewestVouch, NewestSave, NewestSendOn DEF CharReceivesMap

-----------------------------------------------------------------------------
(* Coming and playing *)

LEMMA NewestMapConnect ==
  ASSUME IInv, Newest, NEW k \in Clients, MapConnect(k)
  PROVE  Newest'
<1> PICK m : m = client[k].map
  OBVIOUS
<1>1. Fine /\ Shape /\ TypeOK
  BY DEF IInv, Shape, Fine
<1> PICK f \in Fds : Connects(k, m, f)
  BY <1>1, ConnectsIs
<1> PICK y : y = Asking(k, f)
  OBVIOUS
<1>2. /\ m \in Maps /\ f \notin Here(m) /\ down' = down /\ y \in UpMessage /\ up' = [up EXCEPT ![m] = @ \o <<y>>]
      /\ idb'[m] = IF idb[m] = 0 THEN f ELSE idb[m]
      /\ \A n \in Maps \ {m} : idb'[n] = idb[n]
      /\ ~sess'[m][f].auth
      /\ \A n \in Maps, g \in Fds : n # m \/ g # f =>
           /\ sess'[n][g].char = sess[n][g].char /\ sess'[n][g].auth = sess[n][g].auth
           /\ sess'[n][g].waiting = sess[n][g].waiting /\ sess'[n][g].val = sess[n][g].val
  BY DEF Connects
<1>3. UNCHANGED <<latest, stored>> /\ y.op # "save"
  BY DEF MapConnect, chars, Asking
<1>4. UpQuiet
  <2>1. up' = [up EXCEPT ![m] = Append(@, y)]
    <3>1. up[m] \in Seq(UpMessage)
      BY <1>1, <1>2, RingTypes
    <3>2. \A q \in Seq(UpMessage) : q \o <<y>> = Append(q, y)
      BY <1>2
    <3> QED BY <1>2, <3>1, <3>2
  <2> QED BY <1>1, <1>2, <1>3, <2>1, UpAppend
<1>5. PlayersStay
  <2>1. f \notin Playing(m) /\ f \notin Playing(m)'
    BY <1>1, <1>2, PlayingIs DEF Playing
  <2> QED BY <1>2, <2>1 DEF PlayersStay, Playing
<1>6. AnsweredNewest'
  <2>1. ~Has(down[m], Asks(f))
    BY <1>1, <1>2, RingHas DEF Shape, Letters
  <2>2. \A l : ~Has(down[m], Stale(f, l))
    BY <2>1 DEF Has, Stale, Answers, Asks
  <2> QED BY <1>2, <1>3, <2>2 DEF Newest, AnsweredNewest
<1> QED BY <1>3, <1>4, <1>5, <1>6, NewestCalm

\* Nobody else plays, nothing else is under way.
LEMMA ElsewhereIdle ==
  ASSUME IInv, Sound, NEW m \in Maps, NEW f \in Playing(m)
  PROVE  /\ Playing(m) = {f} /\ idb[m] = f /\ ~Has(down[m], Asks(f))
         /\ \A n \in Maps \ {m} : /\ Playing(n) = {} /\ \A c : ~Has(up[n], SavesOf(c))
                                  /\ idb[n] # 0 => ~Has(down[n], Answers(idb[n]))
         /\ \A c : Played(c) <=> sess[m][f].char = c
<1>1. Shape /\ TypeOK /\ online = m
  BY PlayedIsOnline DEF IInv, Shape
<1>2. Playing(m) = {f} /\ idb[m] = f
  BY <1>1, OnlyOnePlays, PlayingIs
<1>3. ~Has(Ring(m), Asks(f))
  BY PlayingAlone
<1>4. ~Has(down[m], Asks(f))
  BY <1>1, <1>3, RingHas
<1>5. \A n \in Maps \ {m} : /\ Playing(n) = {} /\ \A c : ~Has(up[n], SavesOf(c))
                            /\ idb[n] # 0 => ~Has(down[n], Answers(idb[n]))
  BY <1>1, OfflineIsIdle
<1>6. \A c : Played(c) <=> sess[m][f].char = c
  BY <1>2, <1>5 DEF Played
<1> QED BY <1>2, <1>4, <1>5, <1>6

\* Nobody who could be let in waits for an answer while somebody plays.
LEMMA NoAnswers ==
  ASSUME IInv, Sound, NEW m \in Maps, NEW f \in Playing(m)
  PROVE  \A n \in Maps : \A l : idb[n] # 0 => ~Has(down[n], Stale(idb[n], l))
<1>1. idb[m] = f /\ ~Has(down[m], Asks(f)) /\ \A n \in Maps \ {m} : idb[n] # 0 => ~Has(down[n], Answers(idb[n]))
  BY ElsewhereIdle
<1>2. \A q, g, l : Has(q, Stale(g, l)) => Has(q, Answers(g)) /\ Has(q, Asks(g))
  BY DEF Has, Stale, Answers, Asks
<1> QED BY <1>1, <1>2

LEMMA NewestPlay ==
  ASSUME IInv, Sound, Newest, NEW m \in Maps, NEW f \in Fds, Play(m, f)
  PROVE  Newest'
<1> PICK c : c = sess[m][f].char
  OBVIOUS
<1>1. Shape /\ TypeOK /\ f \in Playing(m)
  BY DEF IInv, Shape, Play
<1>2. /\ UNCHANGED <<up, down, idb, stored>> /\ latest' = [latest EXCEPT ![c] = sess[m][f].val + 1]
      /\ sess' = [sess EXCEPT ![m][f].val = @ + 1]
  BY DEF Play, chars
<1>3. /\ Playing(m) = {f} /\ \A n \in Maps \ {m} : Playing(n) = {}
      /\ \A d : Played(d) <=> c = d
  BY <1>1, ElsewhereIdle
<1>4. sess[m][f] \in Session /\ sess \in [Maps -> [Fds -> Session]] /\ latest \in [Chars -> 0..MaxValue] /\ c \in Chars
  BY <1>1, PlayingIs DEF TypeOK, TypeOKMap, Shape, Sessions
<1>5. /\ sess'[m][f].val = sess[m][f].val + 1 /\ sess'[m][f].char = c /\ sess'[m][f].auth /\ ~sess'[m][f].waiting
      /\ \A n \in Maps, g \in Fds : n # m \/ g # f => sess'[n][g] = sess[n][g]
  <2>1. sess'[m][f] = [sess[m][f] EXCEPT !.val = @ + 1]
    BY <1>2, <1>4
  <2>2. sess[m][f].auth /\ ~sess[m][f].waiting
    BY <1>1 DEF Playing
  <2> QED BY <1>2, <1>4, <2>1, <2>2 DEF Session
<1>6. Playing(m)' = {f} /\ \A n \in Maps \ {m} : Playing(n)' = {}
  <2>1. \A n \in Maps : \A g \in Fds : n # m \/ g # f => ~(sess[n][g].auth /\ ~sess[n][g].waiting)
    BY <1>3 DEF Playing
  <2>2. \A n \in Maps : \A g \in Fds : n # m \/ g # f => ~(sess'[n][g].auth /\ ~sess'[n][g].waiting)
    BY <1>5, <2>1
  <2> QED BY <1>5, <2>2 DEF Playing
<1>7. latest'[c] = sess[m][f].val + 1 /\ \A d \in Chars \ {c} : latest'[d] = latest[d]
  BY <1>2, <1>4
<1>8. PlayedNewest'
  BY <1>5, <1>6, <1>7 DEF PlayedNewest
<1>9. Played(c)'
  BY <1>5, <1>6 DEF Played
<1>10. SavedNewest'
  <2> SUFFICES ASSUME NEW n \in Maps, NEW d \in Chars, ~Played(d)'
               PROVE  SavedLast(up[n], d, latest'[d])
    BY <1>2 DEF SavedNewest
  <2>1. d # c /\ ~Played(d)
    BY <1>3, <1>9
  <2> QED BY <1>7, <2>1 DEF Newest, SavedNewest
<1>11. StoredNewest'
  <2> SUFFICES ASSUME NEW d \in Chars, ~Played(d)', \A n \in Maps : ~Has(up[n], SavesOf(d))
               PROVE  stored[d] = latest'[d]
    BY <1>2 DEF StoredNewest
  <2>1. d # c /\ ~Played(d)
    BY <1>3, <1>9
  <2> QED BY <1>7, <2>1 DEF Newest, StoredNewest
<1>12. AnsweredNewest'
  BY <1>1, <1>2, NoAnswers DEF AnsweredNewest
<1> QED BY <1>8, <1>10, <1>11, <1>12 DEF Newest

-----------------------------------------------------------------------------
(* Saving and leaving *)

LEMMA AppendSave ==
  ASSUME NEW q \in Seq(UpMessage), NEW y \in UpMessage, y.op = "save"
  PROVE  /\ \A c : c # y.char => /\ Has(q, SavesOf(c)) => Has(Append(q, y), SavesOf(c))
                                 /\ \A v : SavedLast(q, c, v) => SavedLast(Append(q, y), c, v)
         /\ Has(Append(q, y), SavesOf(y.char)) /\ SavedLast(Append(q, y), y.char, y.value)
<1>1. y \in Message
  BY UpFields
<1>2. \A c, v : c # y.char => y \notin SavesOf(c) /\ y \notin Older(c, v)
  BY DEF SavesOf, Older
<1>3. y \in SavesOf(y.char) /\ y \in Newer(y.char, y.value) /\ y \notin Older(y.char, y.value)
  BY <1>1 DEF SavesOf, Older, Newer
<1>4. /\ \A A : Has(Append(q, y), A) <=> Has(q, A) \/ y \in A
      /\ \A A, B : Followed(q, A, B) /\ y \notin A => Followed(Append(q, y), A, B)
      /\ \A A, B : y \in B /\ y \notin A => Followed(Append(q, y), A, B)
  BY AppendKeeps
<1> QED BY <1>2, <1>3, <1>4 DEF SavedLast

LEMMA AppendOther ==
  ASSUME NEW q \in Seq(UpMessage), NEW y \in UpMessage, y.op # "save"
  PROVE  \A c : /\ Has(q, SavesOf(c)) => Has(Append(q, y), SavesOf(c))
                /\ \A v : SavedLast(q, c, v) => SavedLast(Append(q, y), c, v)
<1>1. \A c, v : y \notin Older(c, v)
  BY NotSaveNotOf
<1>2. /\ \A A : Has(Append(q, y), A) <=> Has(q, A) \/ y \in A
      /\ \A A, B : Followed(q, A, B) /\ y \notin A => Followed(Append(q, y), A, B)
  BY AppendKeeps
<1> QED BY <1>1, <1>2 DEF SavedLast

\* What a player did is in the save that is sent.
LEMMA PlayersSave ==
  ASSUME IInv, Newest, NEW m \in Maps, NEW f \in Playing(m), NEW final \in 0..3, NEW s \in Session,
         s.char = sess[m][f].char, s.val = sess[m][f].val, s.dest \in Maps, NEW y, y = SaveMessage(s, final)
  PROVE  /\ y \in UpMessage /\ y.op = "save" /\ y.char = sess[m][f].char /\ y.char \in Chars /\ y.value = latest[y.char]
<1>1. sess[m][f].char \in Chars
  BY PlayingIs DEF IInv, Shape, Sessions
<1>2. y \in UpMessage
  BY <1>1, SaveMessageIs
<1>3. y.op = "save" /\ y.char = s.char /\ y.value = s.val
  BY DEF SaveMessage
<1> QED BY <1>1, <1>2, <1>3 DEF Newest, PlayedNewest

LEMMA NewestAutosave ==
  ASSUME IInv, Sound, Newest, NEW m \in Maps, Autosave(m)
  PROVE  Newest'
<1>1. Shape /\ TypeOK
  BY DEF IInv, Shape
<1>2. PICK f \in Playing(m) : up' = [up EXCEPT ![m] = @ \o SaveOf(sess[m][f], 0)]
  BY DEF Autosave, Send
<1>3. UNCHANGED <<sess, idb, down, latest, stored>>
  BY DEF Autosave, chars, maps
<1> PICK y : y = SaveMessage(sess[m][f], 0)
  OBVIOUS
<1> PICK u : u = up[m]
  OBVIOUS
<1>4. y \in UpMessage /\ y.op = "save" /\ y.char = sess[m][f].char
  BY <1>1, PlayingIs, PlayersSave
<1>5. u \in Seq(UpMessage) /\ up'[m] = Append(u, y) /\ \A n \in Maps \ {m} : up'[n] = up[n]
  <2>1. SaveOf(sess[m][f], 0) = <<y>>
    BY <1>1, PlayingIs DEF SaveOf, SaveMessage
  <2>2. u \in Seq(UpMessage) /\ up \in [Maps -> Seq(UpMessage)]
    BY <1>1 DEF TypeOK, TypeOKMap
  <2>3. u \o <<y>> = Append(u, y)
    BY <1>4, <2>2
  <2> QED BY <1>2, <2>1, <2>2, <2>3
<1>6. PlayersStay /\ \A c : Played(c)' = Played(c)
  BY <1>3, StillPlaying DEF Played, Playing
<1>7. PlayedNewest'
  BY <1>3, <1>6 DEF Newest, PlayedNewest, PlayersStay
<1>8. AnsweredNewest'
  BY <1>1, <1>3, DownKicked, AnswersStay DEF Newest
<1>9. Played(y.char)
  BY <1>4 DEF Played
<1>10. ASSUME NEW c \in Chars, ~Played(c) PROVE NewestKeeps(c)
  <2>1. c # y.char
    BY <1>9, <1>10
  <2>2. (Has(u, SavesOf(c)) => Has(Append(u, y), SavesOf(c))) /\ \A v : SavedLast(u, c, v) => SavedLast(Append(u, y), c, v)
    BY <1>4, <1>5, <2>1, AppendSave
  <2> QED BY <1>5, <1>10, <2>2 DEF NewestKeeps
<1> QED BY <1>3, <1>6, <1>7, <1>8, <1>10, NewestStays

\* The only player leaves, and saves.
LEMMA NewestLeaves ==
  ASSUME IInv, Sound, Newest, NEW m \in Maps, NEW f \in Playing(m), NEW c, c = sess[m][f].char,
         UNCHANGED <<latest, stored>>, AnsweredNewest',
         \A n \in Maps : Playing(n)' = {},
         Has(up'[m], SavesOf(c)), SavedLast(up'[m], c, latest[c]),
         \A d : d # c => /\ Has(up[m], SavesOf(d)) => Has(up'[m], SavesOf(d))
                         /\ \A v : SavedLast(up[m], d, v) => SavedLast(up'[m], d, v),
         \A n \in Maps \ {m} : up'[n] = up[n]
  PROVE  Newest'
<1>1. PlayedNewest'
  BY DEF PlayedNewest
<1>2. /\ \A n \in Maps \ {m} : ~Has(up[n], SavesOf(c))
      /\ \A d : Played(d) <=> c = d
  BY ElsewhereIdle
<1>3. NewestKeeps(c)
  BY <1>2, NothingFollows DEF NewestKeeps
<1>4. \A d \in Chars \ {c} : NewestKeeps(d)
  BY <1>2 DEF NewestKeeps
<1> QED BY <1>1, <1>3, <1>4, NewestStays

LEMMA NewestLeave ==
  ASSUME IInv, Sound, Newest, NEW m \in Maps, NEW f \in Fds, NEW final \in {2, 3}, NEW n \in Maps, Leave(m, f, final, n)
  PROVE  Newest'
<1>1. Shape /\ TypeOK
  BY DEF IInv, Shape
<1>2. /\ UNCHANGED <<down, idb, latest, stored>> /\ f \in Playing(m)
      /\ up' = [up EXCEPT ![m] = @ \o SaveOf([sess[m][f] EXCEPT !.dest = n], final)]
      /\ sess' = [sess EXCEPT ![m][f].waiting = TRUE, ![m][f].dest = n]
  BY DEF Leave, Send, chars
<1>3. sess[m][f] \in Session /\ ~sess[m][f].waiting /\ sess \in [Maps -> [Fds -> Session]] /\ up \in [Maps -> Seq(UpMessage)]
  BY <1>1, <1>2, PlayingIs DEF TypeOK, TypeOKMap
<1> PICK s : s = [sess[m][f] EXCEPT !.dest = n]
  OBVIOUS
<1> PICK y : y = SaveMessage(s, final)
  OBVIOUS
<1> PICK u : u = up[m]
  OBVIOUS
<1>4. s \in Session /\ s.char = sess[m][f].char /\ s.val = sess[m][f].val /\ s.dest = n /\ ~s.waiting
  BY <1>3 DEF Session
<1>5. y \in UpMessage /\ y.op = "save" /\ y.char = sess[m][f].char /\ y.value = latest[y.char]
  <2>1. s.char \in Chars
    BY <1>1, <1>2, <1>4, PlayingIs DEF Shape, Sessions
  <2>2. y \in UpMessage
    <3>1. final \in 0..3 /\ s.dest \in Maps /\ s.val \in 0..MaxValue
      BY <1>4 DEF Session
    <3> QED BY <2>1, <3>1 DEF SaveMessage, UpMessage
  <2>3. y.op = "save" /\ y.char = s.char /\ y.value = s.val
    BY DEF SaveMessage
  <2>4. sess[m][f].val = latest[sess[m][f].char]
    BY <1>2 DEF Newest, PlayedNewest
  <2> QED BY <1>4, <2>2, <2>3, <2>4
<1>6. u \in Seq(UpMessage) /\ up'[m] = Append(u, y) /\ \A l \in Maps \ {m} : up'[l] = up[l]
  <2>1. SaveOf(s, final) = <<y>>
    BY <1>4 DEF SaveOf, SaveMessage
  <2>2. u \in Seq(UpMessage)
    BY <1>3
  <2>3. u \o <<y>> = Append(u, y)
    BY <1>5, <2>2
  <2>4. up' = [up EXCEPT ![m] = u \o <<y>>]
    BY <1>2, <2>1
  <2> QED BY <1>3, <2>2, <2>3, <2>4
<1>7. AnsweredNewest'
  BY <1>2, NoAnswers DEF AnsweredNewest
<1>8. \A l \in Maps : Playing(l)' = {}
  <2>1. Playing(m) = {f} /\ \A l \in Maps \ {m} : Playing(l) = {}
    BY <1>2, ElsewhereIdle
  <2>2. sess'[m][f].waiting /\ \A l \in Maps, g \in Fds : l # m \/ g # f => sess'[l][g] = sess[l][g]
    <3>1. PICK t : t = [sess[m][f] EXCEPT !.waiting = TRUE, !.dest = n]
      OBVIOUS
    <3>2. sess' = [sess EXCEPT ![m] = [sess[m] EXCEPT ![f] = t]]
      BY <1>2, <1>3, <3>1
    <3>3. t.waiting
      BY <1>3, <3>1 DEF Session
    <3> QED BY <1>3, <3>2, <3>3
  <2>3. \A l \in Maps, g \in Fds : l # m \/ g # f => ~(sess[l][g].auth /\ ~sess[l][g].waiting)
    BY <2>1 DEF Playing
  <2> QED BY <2>2, <2>3 DEF Playing
<1>9. /\ \A d : d # y.char => /\ Has(u, SavesOf(d)) => Has(Append(u, y), SavesOf(d))
                              /\ \A v : SavedLast(u, d, v) => SavedLast(Append(u, y), d, v)
      /\ Has(Append(u, y), SavesOf(y.char)) /\ SavedLast(Append(u, y), y.char, y.value)
  BY <1>5, <1>6, AppendSave
<1>10. PICK c : c = sess[m][f].char
  OBVIOUS
<1>11. /\ Has(up'[m], SavesOf(c)) /\ SavedLast(up'[m], c, latest[c])
       /\ \A d : d # c => /\ Has(up[m], SavesOf(d)) => Has(up'[m], SavesOf(d))
                          /\ \A v : SavedLast(up[m], d, v) => SavedLast(up'[m], d, v)
  BY <1>5, <1>6, <1>9, <1>10
<1>12. f \in Playing(m) /\ UNCHANGED <<latest, stored>>
  BY <1>2
<1>13. \A l \in Maps \ {m} : up'[l] = up[l]
  BY <1>6
<1> QED BY <1>7, <1>8, <1>10, <1>11, <1>12, <1>13, NewestLeaves

LEMMA NewestClose ==
  ASSUME IInv, Sound, Newest, NEW m \in Maps, NEW f \in Fds, Close(m, f)
  PROVE  Newest'
<1>1. Fine /\ Shape /\ TypeOK
  BY DEF IInv, Shape, Fine
<1>2. /\ f \in Here(m) /\ (sess[m][f].auth => idb[m] = f)
      /\ \A n \in Maps \ {m} : sess'[n] = sess[n] /\ idb'[n] = idb[n]
      /\ \A g \in Fds : sess'[m][g] = IF g = f THEN NoSession ELSE sess[m][g]
      /\ idb'[m] = IF idb[m] = f THEN 0 ELSE idb[m]
  BY <1>1, ClosesIs
<1>3. UNCHANGED <<latest, stored>>
  BY DEF Close, chars
<1> PICK u : u = up[m]
  OBVIOUS
<1> PICK d : d = down[m]
  OBVIOUS
<1> PICK s : s = sess[m][f]
  OBVIOUS
<1> PICK w : w = NoneTo(f, u)
  OBVIOUS
<1>4. /\ u \in Seq(UpMessage) /\ d \in Seq(DownMessage) /\ w \in Seq(UpMessage)
      /\ up'[m] = w \o LastWords(s) /\ down'[m] = NoneTo(f, d)
      /\ \A n \in Maps \ {m} : up'[n] = up[n] /\ down'[n] = down[n]
  <2>1. up \in [Maps -> Seq(UpMessage)] /\ down \in [Maps -> Seq(DownMessage)]
    BY <1>1 DEF TypeOK, TypeOKMap
  <2>2. u \in Seq(UpMessage) /\ d \in Seq(DownMessage)
    BY <2>1
  <2>3. w \in Seq(UpMessage)
    BY <2>2, NoneToIs
  <2> QED BY <2>1, <2>2, <2>3 DEF Close
<1>5. s \in Session /\ s.char \in Chars /\ s.dest \in Maps /\ (s.auth => s.twin # -1)
  <2>1. s.auth => s.twin # -1
    BY <1>2, FdAssumption, <1>1 DEF Shape, EntryIsHere
  <2> QED BY <1>1, <1>2, <2>1, SessionFields
<1> PICK y : y = SaveMessage(s, 1)
  OBVIOUS
<1>6. y \in UpMessage
  BY <1>5, SaveMessageIs
<1>7. w \o LastWords(s) = IF ~s.auth THEN w
                          ELSE IF s.waiting THEN Append(w, Parting)
                          ELSE Append(Append(w, y), Parting)
  BY <1>4, <1>5, <1>6, LastWordsAre
<1>8. /\ \A c : Has(u, SavesOf(c)) => Has(w, SavesOf(c))
      /\ \A c, v : SavedLast(u, c, v) => SavedLast(w, c, v)
      /\ \A g \in Fds : \A l : g # f /\ Has(NoneTo(f, d), Stale(g, l)) => Has(d, Stale(g, l))
  BY <1>4, NoneToKeeps
<1>9. AnsweredNewest'
  <2> SUFFICES ASSUME NEW n \in Maps, idb'[n] # 0, Has(down'[n], Stale(idb'[n], latest))
               PROVE  FALSE
    BY <1>3 DEF AnsweredNewest
  <2>1. idb'[n] = idb[n] /\ ~Has(down[n], Stale(idb[n], latest)) /\ idb[n] \in Fds
    BY <1>1, <1>2, EntryFields DEF Newest, AnsweredNewest
  <2>2. CASE n = m
    BY <1>2, <1>4, <1>8, <2>1, <2>2
  <2>3. CASE n # m
    BY <1>4, <2>1, <2>3
  <2> QED BY <2>2, <2>3
<1>10. Parting \in UpMessage /\ Parting.op # "save"
  BY PartingIs DEF Parting
<1>11. ~NoSession.auth
  BY DEF NoSession
<1>12. CASE f \notin Playing(m)
  <2>1. PlayersStay
    <3>1. f \notin Playing(m)'
      BY <1>2, <1>11 DEF Playing
    <3> QED BY <1>2, <1>12, <3>1 DEF PlayersStay, Playing
  <2>2. UpQuiet
    <3>1. up'[m] = w \/ up'[m] = Append(w, Parting)
      BY <1>4, <1>7, <1>12 DEF Playing
    <3>2. \A c : /\ Has(w, SavesOf(c)) => Has(Append(w, Parting), SavesOf(c))
                 /\ \A v : SavedLast(w, c, v) => SavedLast(Append(w, Parting), c, v)
      BY <1>4, <1>10, AppendOther
    <3> QED BY <1>4, <1>8, <3>1, <3>2 DEF UpQuiet
  <2> QED BY <1>3, <1>9, <2>1, <2>2, NewestCalm
<1>13. CASE f \in Playing(m)
  <2>1. s.auth /\ ~s.waiting /\ s.dest \in Maps
    BY <1>5, <1>13 DEF Playing
  <2>2. y.op = "save" /\ y.char = s.char /\ y.value = latest[y.char]
    BY <1>5, <1>13, PlayersSave
  <2>3. up'[m] = Append(Append(w, y), Parting) /\ Append(w, y) \in Seq(UpMessage)
    BY <1>4, <1>6, <1>7, <2>1
  <2>4. /\ \A c : c # y.char => /\ Has(w, SavesOf(c)) => Has(Append(w, y), SavesOf(c))
                                /\ \A v : SavedLast(w, c, v) => SavedLast(Append(w, y), c, v)
        /\ Has(Append(w, y), SavesOf(y.char)) /\ SavedLast(Append(w, y), y.char, y.value)
    BY <1>4, <1>6, <2>2, AppendSave
  <2>5. \A c : /\ Has(Append(w, y), SavesOf(c)) => Has(up'[m], SavesOf(c))
               /\ \A v : SavedLast(Append(w, y), c, v) => SavedLast(up'[m], c, v)
    BY <1>10, <2>3, AppendOther
  <2>6. \A n \in Maps : Playing(n)' = {}
    <3>1. Playing(m) = {f} /\ \A n \in Maps \ {m} : Playing(n) = {}
      BY <1>13, ElsewhereIdle
    <3> QED BY <1>2, <1>11, <3>1 DEF Playing
  <2>7. Has(up'[m], SavesOf(y.char)) /\ SavedLast(up'[m], y.char, latest[y.char])
    BY <2>2, <2>4, <2>5
  <2>8. \A c : c # y.char => /\ Has(up[m], SavesOf(c)) => Has(up'[m], SavesOf(c))
                             /\ \A v : SavedLast(up[m], c, v) => SavedLast(up'[m], c, v)
    BY <1>8, <2>4, <2>5
  <2> QED BY <1>3, <1>4, <1>9, <1>13, <2>2, <2>6, <2>7, <2>8, NewestLeaves
<1> QED BY <1>12, <1>13

LEMMA NewestLinkBreaks ==
  ASSUME IInv, Sound, Newest, NEW m \in Maps, LinkBreaks(m)
  PROVE  Newest'
<1>1. Fine /\ TypeOK
  BY DEF IInv, Shape, Fine
<1>2. /\ \A n \in Maps \ {m} : sess'[n] = sess[n] /\ idb'[n] = idb[n]
      /\ \A f \in Fds : sess'[m][f] = IF f \in Playing(m) THEN NoSession ELSE sess[m][f]
      /\ idb'[m] = IF idb[m] \in Playing(m) THEN 0 ELSE idb[m]
      /\ Playing(m)' = {}
  BY <1>1, BreaksIs
<1>3. \A n \in Maps \ {m} : Playing(n)' = Playing(n)
  BY <1>2 DEF Playing
<1>4. /\ up'[m] = <<>> /\ down'[m] = <<>> /\ \A n \in Maps \ {m} : up'[n] = up[n] /\ down'[n] = down[n]
      /\ stored' = stored
  BY <1>1 DEF LinkBreaks, TypeOK, TypeOKMap
<1> PICK lost : lost = {sess[m][f].char : f \in Playing(m)} \cup
                       {up[m][i].char : i \in {j \in DOMAIN up[m] : up[m][j].op = "save"}}
  OBVIOUS
<1>5. latest' = [c \in Chars |-> IF c \in lost THEN stored[c] ELSE latest[c]]
  BY DEF LinkBreaks
<1>6. ASSUME NEW c \in Chars, c \notin lost
      PROVE  ~Has(up[m], SavesOf(c)) /\ \A f \in Playing(m) : sess[m][f].char # c
  <2>1. \A i \in DOMAIN up[m] : up[m][i].op = "save" => up[m][i].char \in lost
    OBVIOUS
  <2>2. \A f \in Playing(m) : sess[m][f].char \in lost
    OBVIOUS
  <2> QED BY <1>6, <2>1, <2>2 DEF Has, SavesOf
<1>7. \A A : ~Has(<<>>, A)
  BY EmptyIsTame
<1>8. CASE online = m
  <2>1. \A n \in Maps \ {m} : /\ Playing(n) = {} /\ \A c : ~Has(up[n], SavesOf(c))
                              /\ idb[n] # 0 => ~Has(down[n], Answers(idb[n]))
    BY <1>8, OfflineIsIdle
  <2>2. PlayedNewest'
    BY <1>2, <1>3, <2>1 DEF PlayedNewest
  <2>3. \A n \in Maps : \A c : ~Has(up'[n], SavesOf(c))
    BY <1>4, <1>7, <2>1
  <2>4. SavedNewest'
    BY <2>3, NothingFollows DEF SavedNewest
  <2>5. StoredNewest'
    <3> SUFFICES ASSUME NEW c \in Chars PROVE stored'[c] = latest'[c]
      BY DEF StoredNewest
    <3>1. CASE c \in lost
      BY <1>4, <1>5, <3>1
    <3>2. CASE c \notin lost
      <4>1. ~Played(c) /\ \A n \in Maps : ~Has(up[n], SavesOf(c))
        BY <1>6, <2>1, <3>2 DEF Played
      <4> QED BY <1>4, <1>5, <3>2, <4>1 DEF Newest, StoredNewest
    <3> QED BY <3>1, <3>2
  <2>6. AnsweredNewest'
    <3> SUFFICES ASSUME NEW n \in Maps, idb'[n] # 0, Has(down'[n], Stale(idb'[n], latest'))
                 PROVE  FALSE
      BY DEF AnsweredNewest
    <3>1. n # m
      BY <1>4, <1>7
    <3>2. Has(down[n], Answers(idb[n])) /\ idb[n] # 0
      BY <1>2, <1>4, <3>1 DEF Has, Stale
    <3> QED BY <2>1, <3>1, <3>2
  <2> QED BY <2>2, <2>4, <2>5, <2>6 DEF Newest
<1>9. CASE online # m
  <2>1. Playing(m) = {} /\ \A c : ~Has(up[m], SavesOf(c))
    BY <1>9, OfflineIsIdle
  <2>2. lost = {}
    <3>1. \A i \in DOMAIN up[m] : up[m][i].op # "save"
      <4> SUFFICES ASSUME NEW i \in DOMAIN up[m], up[m][i].op = "save" PROVE FALSE
        OBVIOUS
      <4>1. up[m] \in Seq(UpMessage)
        BY <1>1, RingTypes
      <4>2. up[m][i] \in Message
        BY <4>1, UpFields
      <4>3. up[m][i] \in SavesOf(up[m][i].char)
        BY <4>2 DEF SavesOf
      <4> QED BY <2>1, <4>3 DEF Has
    <3> QED BY <2>1, <3>1
  <2>3. latest' = latest
    BY <1>1, <1>5, <2>2 DEF TypeOK, TypeOKMap
  <2>4. PlayersStay
    BY <1>2, <1>3, <2>1 DEF PlayersStay
  <2>5. UpQuiet
    <3>1. \A c, v : SavedLast(<<>>, c, v)
      BY <1>7, NothingFollows
    <3> QED BY <1>4, <2>1, <3>1 DEF UpQuiet
  <2>6. AnsweredNewest'
    <3>1. \A n \in Maps : idb'[n] = idb[n]
      BY <1>1, <1>2, <2>1
    <3> QED BY <1>4, <1>7, <2>3, <3>1 DEF Newest, AnsweredNewest
  <2> QED BY <1>4, <2>3, <2>4, <2>5, <2>6, NewestCalm
<1> QED BY <1>8, <1>9

-----------------------------------------------------------------------------
(* The newest state is never lost *)

LEMMA InitNewest == Init => Newest
<1> SUFFICES ASSUME Init PROVE Newest
  OBVIOUS
<1>1. /\ up = [m \in Maps |-> <<>>] /\ down = [m \in Maps |-> <<>>] /\ sess = [m \in Maps |-> [f \in Fds |-> NoSession]]
      /\ stored = [c \in Chars |-> 0] /\ latest = [c \in Chars |-> 0]
  BY DEF Init, InitLogin, InitChar, InitMap
<1>2. \A m \in Maps : Playing(m) = {}
  BY <1>1 DEF Playing, NoSession
<1>3. \A m \in Maps : \A A : ~Has(up[m], A) /\ ~Has(down[m], A)
  BY <1>1, EmptyIsTame
<1>4. SavedNewest
  BY <1>3, NothingFollows DEF SavedNewest
<1> QED BY <1>1, <1>2, <1>3, <1>4 DEF Newest, PlayedNewest, StoredNewest, AnsweredNewest

\* What was mixed or crossed stays so.
LEMMA SoundBefore ==
  ASSUME IInv, [Next]_vars, Sound'
  PROVE  Sound
<1>1. CASE UNCHANGED vars
  BY <1>1 DEF vars, Sound
<1>2. ASSUME UNCHANGED <<mixed, crossed>> PROVE Sound
  BY <1>2 DEF Sound
<1>3. CASE Proceeds
  <2>1. CASE LoginReceives /\ OnlyLogin
    BY <1>2, <2>1 DEF OnlyLogin, chars
  <2>2. ASSUME NEW k \in Clients, CharConnect(k) PROVE Sound
    BY <1>2, <2>2 DEF CharConnect
  <2>3. ASSUME NEW k \in Clients, Select(k) PROVE Sound
    BY <1>2, <2>3 DEF Select
  <2>4. ASSUME NEW f \in Seats, CloseSeat(f) PROVE Sound
    BY <1>2, <2>4 DEF CloseSeat
  <2>5. CASE CharReceivesLogin
    <3>1. crossed' = crossed
      BY <2>5 DEF CharReceivesLogin
    <3>2. mixed => mixed'
      BY <2>5 DEF CharReceivesLogin, Revoke, Answer
    <3> QED BY <3>1, <3>2 DEF Sound
  <2>6. ASSUME NEW m \in Maps, CharReceivesMap(m) PROVE Sound
    <3>1. mixed' = mixed
      BY <2>6 DEF CharReceivesMap
    <3>2. crossed => crossed'
      BY <2>6 DEF CharReceivesMap, Vouch, Save, SendOn, Gone
    <3> QED BY <3>1, <3>2 DEF Sound
  <2>7. ASSUME NEW k \in Clients, MapConnect(k) PROVE Sound
    BY <1>2, <2>7 DEF MapConnect, chars
  <2>8. ASSUME NEW m \in Maps, MapReceives(m) PROVE Sound
    <3>1. crossed' = crossed
      BY <2>8 DEF MapReceives
    <3>2. mixed => mixed'
      BY <2>8 DEF MapReceives, Accept, Refuse, Saved, Proceed, Kicked, Unanswered
    <3> QED BY <3>1, <3>2 DEF Sound
  <2>9. ASSUME NEW m \in Maps, TimerSpent(m) PROVE Sound
    BY <1>2, <2>9 DEF TimerSpent, chars
  <2>10. ASSUME NEW m \in Maps, NEW f \in Fds, Play(m, f) PROVE Sound
    BY <1>2, <2>10 DEF Play, chars
  <2>11. ASSUME NEW m \in Maps, NEW f \in Fds, Close(m, f) PROVE Sound
    BY <1>2, <2>11 DEF Close, chars
  <2> QED BY <1>3, <2>1, <2>2, <2>3, <2>4, <2>5, <2>6, <2>7, <2>8, <2>9, <2>10, <2>11 DEF Proceeds
<1>4. CASE LogIn
  BY <1>2, <1>4 DEF LogIn, OnlyLogin, chars
<1>5. CASE Forget
  BY <1>2, <1>5 DEF Forget, ForgetEntry, OnlyLogin, chars
<1>6. ASSUME NEW m \in Maps, NEW f \in Fds, NEW final \in {2, 3}, NEW n \in Maps, Leave(m, f, final, n) PROVE Sound
  BY <1>2, <1>6 DEF Leave, chars
<1>7. CASE MoveOn
  BY <1>6, <1>7 DEF MoveOn, Restart, MoveServer
<1>8. CASE SaveOne
  BY <1>2, <1>8 DEF SaveOne, Autosave, chars
<1>9. CASE StopIt
  <2>1. ASSUME NEW k \in Clients, GiveUp(k) PROVE Sound
    BY <1>2, <2>1 DEF GiveUp, chars
  <2>2. ASSUME NEW m \in Maps, NEW f \in Fds, QuitGame(m, f) PROVE Sound
    BY <1>2, <2>2 DEF QuitGame, chars
  <2> QED BY <1>9, <2>1, <2>2 DEF StopIt
<1>10. CASE Break
  BY <1>2, <1>10 DEF Break, LinkBreaks
<1> QED BY <1>1, <1>3, <1>4, <1>5, <1>7, <1>8, <1>9, <1>10 DEF Next

LEMMA NextNewest ==
  ASSUME IInv, Newest, [Next]_vars, Sound, Sound'
  PROVE  Newest'
<1>1. CASE UNCHANGED vars
  <2>1. UNCHANGED <<up, down, sess, idb, latest, stored>>
    BY <1>1 DEF vars
  <2> QED BY <2>1, NewestQuiet DEF IInv, Shape
<1>2. CASE Proceeds
  <2>1. CASE LoginReceives /\ OnlyLogin
    <3>1. UNCHANGED <<up, down, sess, idb, latest, stored>>
      BY <2>1 DEF OnlyLogin, chars, maps
    <3> QED BY <3>1, NewestQuiet DEF IInv, Shape
  <2>2. ASSUME NEW k \in Clients, CharConnect(k) \/ Select(k), UNCHANGED maps PROVE Newest'
    BY <2>2, NewestOfChar
  <2>3. ASSUME NEW f \in Seats, CloseSeat(f), UNCHANGED maps PROVE Newest'
    BY <2>3, NewestOfChar
  <2>4. CASE CharReceivesLogin /\ UNCHANGED maps
    BY <2>4, NewestOfChar
  <2>5. ASSUME NEW m \in Maps, CharReceivesMap(m), UNCHANGED maps PROVE Newest'
    BY <2>5, NewestCharReceivesMap
  <2>6. ASSUME NEW k \in Clients, MapConnect(k) PROVE Newest'
    BY <2>6, NewestMapConnect
  <2>7. ASSUME NEW m \in Maps, MapReceives(m) PROVE Newest'
    BY <2>7, NewestMapReceives
  <2>8. ASSUME NEW m \in Maps, TimerSpent(m) PROVE Newest'
    BY <2>8, NewestQuiet DEF TimerSpent, chars, IInv, Shape
  <2>9. ASSUME NEW m \in Maps, NEW f \in Fds, Play(m, f) \/ Close(m, f) PROVE Newest'
    BY <2>9, NewestPlay, NewestClose
  <2> QED BY <1>2, <2>1, <2>2, <2>3, <2>4, <2>5, <2>6, <2>7, <2>8, <2>9 DEF Proceeds
<1>3. CASE LogIn \/ Forget \/ StopIt
  BY <1>3, NewestAside
<1>4. CASE MoveOn
  <2>1. ASSUME NEW m \in Maps, NEW f \in Fds, Restart(m, f) PROVE Newest'
    BY <2>1, NewestLeave DEF Restart
  <2>2. ASSUME NEW m \in Maps, NEW f \in Fds, MoveServer(m, f) PROVE Newest'
    BY <2>2, NewestLeave DEF MoveServer
  <2> QED BY <1>4, <2>1, <2>2 DEF MoveOn
<1>5. CASE SaveOne
  BY <1>5, NewestAutosave DEF SaveOne
<1>6. CASE Break
  BY <1>6, NewestLinkBreaks DEF Break
<1> QED BY <1>1, <1>2, <1>3, <1>4, <1>5, <1>6 DEF Next

\* Whoever plays a character has everything that was done with it, wherever it
\* was done: chrif_save is ahead of 0x2b02, 0x2b05 and 0x2b18 of the session
\* that ends, so that parse_map_auth answers the next one with the newest
\* state, and no session saves again once another may enter.
THEOREM NewestIsPlayed == Spec => []PlaysNewest
<1> DEFINE Inv == IInv /\ (Sound => Newest)
<1>1. Init => Inv
  BY InitIInv, InitNewest
<1>2. Inv /\ [Next]_vars => Inv'
  BY NextIInv, NextNewest, SoundBefore
<1>3. Inv => PlaysNewest
  BY DEF PlaysNewest, Newest, PlayedNewest, Sound
<1> QED BY <1>1, <1>2, <1>3, PTL DEF Spec
=============================================================================
