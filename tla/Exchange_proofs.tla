--------------------------- MODULE Exchange_proofs ---------------------------
(***************************************************************************)
(* Proofs about the exchange, for any number of players, goods and parties *)
(* and any bounds: partners are mutual, nobody trades with a shop open,    *)
(* and who leaves the map leaves nothing open.                             *)
(***************************************************************************)
EXTENDS Exchange, SequenceTheorems, TLAPS

-----------------------------------------------------------------------------
(* The inductive invariant *)

\* A trade has its five parts, whatever is on offer.
IsDeal(d) ==
  /\ d = [partner |-> d.partner, mode |-> d.mode, locked |-> d.locked,
          offer |-> d.offer, seen |-> d.seen]
  /\ d.partner \in Players \cup {None} /\ d.locked \in 0..2

Shape ==
  /\ DOMAIN deal = Players /\ DOMAIN store = Players /\ DOMAIN append = Players
  /\ \A p \in Players : IsDeal(deal[p])
  /\ online \subseteq Players /\ away \subseteq Players \ online

\* Who has no partner has nothing on offer and no window open.
Single == \A p \in Players : Partner(p) = None => deal[p] = NoDeal

Mutual ==
  \A p \in Players : Partner(p) # None => Partner(p) # p /\ Partner(Partner(p)) = p

\* What a player saw when he pressed "trade" is what his partner still offers,
\* and can offer nothing else.
SeenStands ==
  \A p \in Players : Partner(p) # None /\ deal[p].seen # NoOffer =>
    deal[p].seen = deal[Partner(p)].offer /\ deal[Partner(p)].locked >= 1

ShopsApart == \A p \in Players : store[p] # "none" => Partner(p) = None

GoneApart == \A p \in Players \ online : Partner(p) = None

\* The trades are right, as long as crossed is not set.
DealsRight == Single /\ Mutual /\ SeenStands /\ ShopsApart /\ GoneApart

\* Whatever happened: who is gone has no shop and nothing attached.
GoneBare ==
  \A p \in Players \ online : store[p] = "none" /\ append[p] = NoAppend /\ p \notin mailing

-----------------------------------------------------------------------------
(* Logging in over the link *)

IsSeq(s) == \E S : s \in Seq(S)

\* Nobody is asked for, or answered for, twice at a time, nor while he has a
\* session.
AuthsRight ==
  /\ IsSeq(up) /\ IsSeq(down)
  /\ \A i \in 1..Len(up) : up[i].op = "auth" =>
       /\ up[i].by \in away
       /\ \A j \in 1..Len(up) : up[j].op = "auth" /\ up[j].by = up[i].by => j = i
       /\ \A k \in 1..Len(down) : down[k].op = "authok" => down[k].by # up[i].by
  /\ \A i \in 1..Len(down) : down[i].op = "authok" =>
       /\ down[i].by \in away
       /\ \A j \in 1..Len(down) : down[j].op = "authok" /\ down[j].by = down[i].by => j = i

\* Messages that are not about logging in.
Plain(ms) == IsSeq(ms) /\ \A i \in 1..Len(ms) : ms[i].op \notin {"auth", "authok"}

Grows(s, t)   == \E ms : Plain(ms) /\ t = s \o ms
Shrinks(s, t) == s # <<>> /\ t = Tail(s)

LEMMA SeqParts ==
  ASSUME NEW s, IsSeq(s)
  PROVE  /\ Len(s) \in Nat
         /\ s # <<>> => /\ Len(s) >= 1 /\ Head(s) = s[1] /\ IsSeq(Tail(s))
                        /\ Len(Tail(s)) = Len(s) - 1
                        /\ \A i \in 1..(Len(s) - 1) : Tail(s)[i] = s[i + 1]
<1>1. PICK S : s \in Seq(S)
  BY DEF IsSeq
<1>2. Len(s) \in Nat
  BY <1>1
<1>3. ASSUME s # <<>>
      PROVE  /\ Len(s) >= 1 /\ Head(s) = s[1] /\ IsSeq(Tail(s))
             /\ Len(Tail(s)) = Len(s) - 1
             /\ \A i \in 1..(Len(s) - 1) : Tail(s)[i] = s[i + 1]
  <2>1. Len(s) >= 1 /\ Head(s) = s[1]
    BY <1>1, <1>3
  <2>2. Tail(s) \in Seq(S) /\ Len(Tail(s)) = Len(s) - 1
        /\ \A i \in 1..(Len(s) - 1) : Tail(s)[i] = s[i + 1]
    BY <1>1, <1>3
  <2> QED
    BY <2>1, <2>2 DEF IsSeq
<1> QED
  BY <1>2, <1>3

LEMMA Joins ==
  ASSUME NEW s, NEW t, IsSeq(s), IsSeq(t)
  PROVE  /\ IsSeq(s \o t) /\ Len(s \o t) = Len(s) + Len(t)
         /\ \A i \in 1..Len(s) : (s \o t)[i] = s[i]
         /\ \A i \in 1..(Len(s) + Len(t)) : i > Len(s) => (s \o t)[i] = t[i - Len(s)]
<1>1. PICK S : s \in Seq(S)
  BY DEF IsSeq
<1>2. PICK T : t \in Seq(T)
  BY DEF IsSeq
<1> DEFINE U == S \cup T
<1>3. s \in Seq(U) /\ t \in Seq(U)
  BY <1>1, <1>2
<1>4. s \o t \in Seq(U)
  BY <1>3
<1>5. IsSeq(s \o t)
  BY <1>4 DEF IsSeq
<1> QED
  BY <1>3, <1>5

LEMMA OneMessage ==
  ASSUME NEW m
  PROVE  IsSeq(<<m>>) /\ Len(<<m>>) = 1 /\ <<m>>[1] = m
<1>1. <<m>> \in Seq({m})
  OBVIOUS
<1> QED
  BY <1>1 DEF IsSeq

LEMMA Appends ==
  ASSUME NEW s, IsSeq(s), NEW m
  PROVE  Append(s, m) = s \o <<m>>
<1>1. PICK S : s \in Seq(S)
  BY DEF IsSeq
<1> DEFINE U == S \cup {m}
<1>2. s \in Seq(U) /\ <<m>> \in Seq(U) /\ m \in U
  BY <1>1
<1> QED
  BY <1>2

LEMMA GrowsByNothing == ASSUME NEW s, IsSeq(s) PROVE Grows(s, s)
<1>1. PICK S : s \in Seq(S)
  BY DEF IsSeq
<1>2. s = s \o <<>>
  BY <1>1, ConcatEmptySeq
<1>3. IsSeq(<<>>) /\ Len(<<>>) = 0
  BY EmptySeq DEF IsSeq
<1>4. Plain(<<>>)
  BY <1>3 DEF Plain
<1> QED
  BY <1>2, <1>4 DEF Grows

LEMMA GrowsByOne ==
  ASSUME NEW s, IsSeq(s), NEW m, m.op \notin {"auth", "authok"}
  PROVE  Grows(s, Append(s, m)) /\ Grows(s, s \o <<m>>)
<1>1. Plain(<<m>>)
  BY OneMessage DEF Plain
<1> QED
  BY <1>1, Appends DEF Grows

LEMMA TwoAtOnce ==
  ASSUME NEW s, IsSeq(s), NEW m, NEW n
  PROVE  (s \o <<m>>) \o <<n>> = s \o <<m, n>>
<1>1. PICK S : s \in Seq(S)
  BY DEF IsSeq
<1> DEFINE U == S \cup {m, n}
           t == <<m>> \o <<n>>
<1>2. s \in Seq(U) /\ <<m>> \in Seq(U) /\ <<n>> \in Seq(U) /\ <<m, n>> \in Seq(U)
  BY <1>1
<1>3. (s \o <<m>>) \o <<n>> = s \o t
  BY <1>2, ConcatAssociative
<1>4. t = <<m, n>>
  <2>1. t \in Seq(U) /\ <<m, n>> \in Seq(U)
    BY <1>2
  <2>2. Len(t) = 2 /\ t[1] = m /\ t[2] = n
    BY OneMessage, Joins
  <2>3. Len(<<m, n>>) = 2 /\ <<m, n>>[1] = m /\ <<m, n>>[2] = n
    OBVIOUS
  <2> HIDE DEF t, U
  <2>4. \A i \in 1..2 : t[i] = <<m, n>>[i]
    BY <2>2, <2>3
  <2> QED
    BY <2>1, <2>2, <2>3, <2>4, SeqEqual
<1> QED
  BY <1>3, <1>4

LEMMA GrowsByTwo ==
  ASSUME NEW s, IsSeq(s), NEW m, m.op \notin {"auth", "authok"}, NEW n, n.op \notin {"auth", "authok"}
  PROVE  Grows(s, (s \o <<m>>) \o <<n>>) /\ Grows(s, s \o <<m, n>>)
<1>1. Plain(<<m, n>>)
  <2>1. <<m, n>> \in Seq({m, n})
    OBVIOUS
  <2>2. Len(<<m, n>>) = 2 /\ <<m, n>>[1] = m /\ <<m, n>>[2] = n
    OBVIOUS
  <2>3. \A i \in 1..2 : i = 1 \/ i = 2
    OBVIOUS
  <2> QED
    BY <2>1, <2>2, <2>3 DEF Plain, IsSeq
<1>2. (s \o <<m>>) \o <<n>> = s \o <<m, n>>
  BY TwoAtOnce
<1>3. Grows(s, s \o <<m, n>>)
  BY <1>1 DEF Grows
<1> QED
  BY <1>2, <1>3

\* What is already under way about logging in stays right, unless the one it
\* is about has a session now.
LEMMA AuthsKept ==
  ASSUME AuthsRight,
         \/ away \subseteq away'
         \/ /\ \A i \in 1..Len(up) : up[i].op = "auth" => up[i].by \in away'
            /\ \A i \in 1..Len(down') : down'[i].op = "authok" => down'[i].by \in away',
         Grows(up, up') \/ Shrinks(up, up'), Grows(down, down') \/ Shrinks(down, down')
  PROVE  AuthsRight'
<1> DEFINE Shifted(s, t, d) ==
      \A i \in 1..Len(t) : t[i].op \in {"auth", "authok"} => i + d \in 1..Len(s) /\ s[i + d] = t[i]
<1>1. ASSUME NEW s, NEW t, IsSeq(s), Grows(s, t)
      PROVE  IsSeq(t) /\ Shifted(s, t, 0)
  <2>1. PICK ms : Plain(ms) /\ t = s \o ms
    BY <1>1 DEF Grows
  <2>2. IsSeq(ms) /\ \A i \in 1..Len(ms) : ms[i].op \notin {"auth", "authok"}
    BY <2>1 DEF Plain
  <2>3. IsSeq(t) /\ Len(t) = Len(s) + Len(ms) /\ Len(s) \in Nat /\ Len(ms) \in Nat
    BY <1>1, <2>1, <2>2, Joins, SeqParts
  <2>4. ASSUME NEW i \in 1..Len(t), t[i].op \in {"auth", "authok"}
        PROVE  i + 0 \in 1..Len(s) /\ s[i + 0] = t[i]
    <3>1. i <= Len(s) \/ (t[i] = ms[i - Len(s)] /\ i - Len(s) \in 1..Len(ms))
      BY <1>1, <2>1, <2>2, <2>3, Joins
    <3>2. i \in 1..Len(s) /\ i + 0 = i
      BY <2>2, <2>3, <2>4, <3>1
    <3> QED
      BY <1>1, <2>1, <2>2, <3>2, Joins
  <2> QED
    BY <2>3, <2>4
<1>2. ASSUME NEW s, NEW t, IsSeq(s), Shrinks(s, t)
      PROVE  IsSeq(t) /\ Shifted(s, t, 1)
  BY <1>2, SeqParts DEF Shrinks
<1>3. IsSeq(up) /\ IsSeq(down)
  BY DEF AuthsRight
<1>4. PICK d \in {0, 1} : Shifted(up, up', d)
  BY <1>1, <1>2, <1>3
<1>5. PICK e \in {0, 1} : Shifted(down, down', e)
  BY <1>1, <1>2, <1>3
<1>6. IsSeq(up') /\ IsSeq(down')
  BY <1>1, <1>2, <1>3
<1>7. ASSUME NEW i \in 1..Len(up'), up'[i].op = "auth"
      PROVE  /\ up'[i].by \in away'
             /\ \A j \in 1..Len(up') : up'[j].op = "auth" /\ up'[j].by = up'[i].by => j = i
             /\ \A k \in 1..Len(down') : down'[k].op = "authok" => down'[k].by # up'[i].by
  <2>1. i + d \in 1..Len(up) /\ up[i + d] = up'[i]
    BY <1>4, <1>7
  <2>2. up'[i].by \in away'
    BY <1>7, <2>1 DEF AuthsRight
  <2>3. ASSUME NEW j \in 1..Len(up'), up'[j].op = "auth", up'[j].by = up'[i].by
        PROVE  j = i
    <3>1. j + d \in 1..Len(up) /\ up[j + d] = up'[j]
      BY <1>4, <2>3
    <3>2. j + d = i + d
      BY <1>7, <2>1, <2>3, <3>1 DEF AuthsRight
    <3> QED
      BY <3>2
  <2>4. ASSUME NEW k \in 1..Len(down'), down'[k].op = "authok"
        PROVE  down'[k].by # up'[i].by
    <3>1. k + e \in 1..Len(down) /\ down[k + e] = down'[k]
      BY <1>5, <2>4
    <3> QED
      BY <1>7, <2>1, <2>4, <3>1 DEF AuthsRight
  <2> QED
    BY <2>2, <2>3, <2>4
<1>8. ASSUME NEW i \in 1..Len(down'), down'[i].op = "authok"
      PROVE  /\ down'[i].by \in away'
             /\ \A j \in 1..Len(down') : down'[j].op = "authok" /\ down'[j].by = down'[i].by => j = i
  <2>1. i + e \in 1..Len(down) /\ down[i + e] = down'[i]
    BY <1>5, <1>8
  <2>2. down'[i].by \in away'
    BY <1>8, <2>1 DEF AuthsRight
  <2>3. ASSUME NEW j \in 1..Len(down'), down'[j].op = "authok", down'[j].by = down'[i].by
        PROVE  j = i
    <3>1. j + e \in 1..Len(down) /\ down[j + e] = down'[j]
      BY <1>5, <2>3
    <3>2. j + e = i + e
      BY <1>8, <2>1, <2>3, <3>1 DEF AuthsRight
    <3> QED
      BY <3>2
  <2> QED
    BY <2>2, <2>3
<1> QED
  BY <1>6, <1>7, <1>8 DEF AuthsRight

LEMMA NotConnecting ==
  ASSUME AuthsRight, NEW p, ~Connecting(p)
  PROVE  /\ \A i \in 1..Len(up) : up[i].op = "auth" => up[i].by # p
         /\ \A i \in 1..Len(down) : down[i].op = "authok" => down[i].by # p
<1> DEFINE all == up \o down
<1>1. IsSeq(up) /\ IsSeq(down) /\ IsSeq(all)
  BY Joins DEF AuthsRight
<1>2. Len(up) \in Nat /\ Len(down) \in Nat /\ DOMAIN all = 1..(Len(up) + Len(down))
  <2>1. Len(all) = Len(up) + Len(down)
    BY <1>1, Joins
  <2>2. DOMAIN all = 1..Len(all)
    BY <1>1 DEF IsSeq
  <2> QED
    BY <1>1, <2>1, <2>2, SeqParts
<1>3. \A i \in DOMAIN all : all[i].op \in {"auth", "authok"} => all[i].by # p
  BY DEF Connecting, Pending
<1>4. ASSUME NEW i \in 1..Len(up), up[i].op = "auth"
      PROVE  up[i].by # p
  <2>1. i \in DOMAIN all /\ all[i] = up[i]
    BY <1>1, <1>2, Joins
  <2> QED
    BY <1>3, <1>4, <2>1
<1>5. ASSUME NEW i \in 1..Len(down), down[i].op = "authok"
      PROVE  down[i].by # p
  <2> DEFINE j == i + Len(up)
  <2>1. j \in 1..(Len(up) + Len(down)) /\ j > Len(up) /\ j - Len(up) = i
    BY <1>2
  <2>2. all[j] = down[i]
    BY <1>1, <2>1, Joins
  <2> QED
    BY <1>2, <1>3, <1>5, <2>1, <2>2
<1> QED
  BY <1>4, <1>5

LEMMA AuthReqRight == ASSUME AuthsRight, NEW p, AuthReq(p) PROVE AuthsRight'
<1> DEFINE m == [op |-> "auth", by |-> p]
<1>1. /\ p \in away /\ ~Connecting(p) /\ up' = Append(up, m)
      /\ UNCHANGED <<away, down>>
  BY DEF AuthReq, Asks
<1>2. IsSeq(up) /\ IsSeq(down) /\ Len(up) \in Nat
  BY SeqParts DEF AuthsRight
<1>3. /\ IsSeq(up') /\ Len(up') = Len(up) + 1
      /\ \A i \in 1..Len(up) : up'[i] = up[i]
      /\ up'[Len(up) + 1] = m
  <2>1. up' = up \o <<m>>
    BY <1>1, <1>2, Appends
  <2>2. IsSeq(<<m>>) /\ Len(<<m>>) = 1 /\ <<m>>[1] = m
    BY OneMessage
  <2>3. Len(up) + 1 \in 1..(Len(up) + Len(<<m>>)) /\ Len(up) + 1 > Len(up) /\ Len(up) + 1 - Len(up) = 1
    BY <1>2, <2>2
  <2>4. up'[Len(up) + 1] = <<m>>[1]
    BY <1>2, <2>1, <2>2, <2>3, Joins
  <2> QED
    BY <1>2, <2>1, <2>2, <2>4, Joins
<1>4. /\ \A i \in 1..Len(up) : up[i].op = "auth" => up[i].by # p
      /\ \A i \in 1..Len(down) : down[i].op = "authok" => down[i].by # p
  BY <1>1, NotConnecting
<1>5. ASSUME NEW i \in 1..Len(up'), up'[i].op = "auth"
      PROVE  /\ up'[i].by \in away'
             /\ \A j \in 1..Len(up') : up'[j].op = "auth" /\ up'[j].by = up'[i].by => j = i
             /\ \A k \in 1..Len(down') : down'[k].op = "authok" => down'[k].by # up'[i].by
  <2>1. CASE i = Len(up) + 1
    BY <1>1, <1>2, <1>3, <1>4, <2>1
  <2>2. CASE i \in 1..Len(up)
    BY <1>1, <1>2, <1>3, <1>4, <1>5, <2>2 DEF AuthsRight
  <2> QED
    BY <1>2, <1>3, <2>1, <2>2
<1> QED
  BY <1>1, <1>2, <1>3, <1>5 DEF AuthsRight

LEMMA AuthRight == ASSUME AuthsRight, Auth PROVE AuthsRight'
<1> DEFINE p == Head(up).by
           m == [op |-> "authok", by |-> p, party |-> record[p].party]
<1>1. /\ up # <<>> /\ Head(up).op = "auth" /\ up' = Tail(up)
      /\ down' = down \o <<m>> /\ UNCHANGED away
  BY DEF Auth, Answers
<1>2. IsSeq(up) /\ IsSeq(down) /\ Len(up) \in Nat /\ Len(down) \in Nat
  BY SeqParts DEF AuthsRight
<1>3. /\ Len(up) >= 1 /\ Head(up) = up[1] /\ IsSeq(up') /\ Len(up') = Len(up) - 1
      /\ \A i \in 1..(Len(up) - 1) : up'[i] = up[i + 1]
  BY <1>1, <1>2, SeqParts
<1>4. /\ IsSeq(down') /\ Len(down') = Len(down) + 1
      /\ \A i \in 1..Len(down) : down'[i] = down[i]
      /\ down'[Len(down) + 1] = m
  <2>1. IsSeq(<<m>>) /\ Len(<<m>>) = 1 /\ <<m>>[1] = m
    BY OneMessage
  <2>2. Len(down) + 1 \in 1..(Len(down) + Len(<<m>>)) /\ Len(down) + 1 > Len(down)
        /\ Len(down) + 1 - Len(down) = 1
    BY <1>2, <2>1
  <2>3. down'[Len(down) + 1] = <<m>>[1]
    BY <1>1, <1>2, <2>1, <2>2, Joins
  <2> QED
    BY <1>1, <1>2, <2>1, <2>3, Joins
<1>5. /\ p \in away
      /\ \A i \in 1..(Len(up) - 1) : up'[i].op = "auth" => up'[i].by # p
      /\ \A i \in 1..Len(down) : down[i].op = "authok" => down[i].by # p
  <2>1. up[1].op = "auth" /\ up[1].by = p /\ 1 \in 1..Len(up)
    BY <1>1, <1>2, <1>3
  <2>2. \A i \in 1..(Len(up) - 1) : i + 1 \in 1..Len(up) /\ i + 1 # 1
    BY <1>2
  <2> QED
    BY <1>3, <2>1, <2>2 DEF AuthsRight
<1>6. ASSUME NEW i \in 1..Len(up'), up'[i].op = "auth"
      PROVE  /\ up'[i].by \in away'
             /\ \A j \in 1..Len(up') : up'[j].op = "auth" /\ up'[j].by = up'[i].by => j = i
             /\ \A k \in 1..Len(down') : down'[k].op = "authok" => down'[k].by # up'[i].by
  <2>1. i + 1 \in 1..Len(up) /\ up'[i] = up[i + 1] /\ up'[i].by # p
    BY <1>2, <1>3, <1>5, <1>6
  <2>2. \A j \in 1..Len(up') : j + 1 \in 1..Len(up) /\ up'[j] = up[j + 1]
    BY <1>2, <1>3
  <2>3. ASSUME NEW j \in 1..Len(up'), up'[j].op = "auth", up'[j].by = up'[i].by
        PROVE  j + 1 = i + 1
    <3>1. /\ j + 1 \in 1..Len(up) /\ up[j + 1].op = "auth" /\ up[j + 1].by = up[i + 1].by
          /\ up[i + 1].op = "auth"
      BY <1>6, <2>1, <2>2, <2>3
    <3> QED
      BY <2>1, <3>1 DEF AuthsRight
  <2>4. ASSUME NEW k \in 1..Len(down'), down'[k].op = "authok"
        PROVE  down'[k].by # up'[i].by
    <3>1. k = Len(down) + 1 \/ k \in 1..Len(down)
      BY <1>2, <1>4
    <3>2. CASE k = Len(down) + 1
      BY <1>4, <2>1, <3>2
    <3>3. CASE k \in 1..Len(down)
      <4>1. down[k].op = "authok" /\ up[i + 1].op = "auth" /\ down'[k].by = down[k].by
        BY <1>4, <1>6, <2>1, <2>4, <3>3
      <4> QED
        BY <2>1, <3>3, <4>1 DEF AuthsRight
    <3> QED
      BY <3>1, <3>2, <3>3
  <2>5. up'[i].by \in away'
    <3>1. up[i + 1].op = "auth"
      BY <1>6, <2>1
    <3>2. up[i + 1].by \in away
      BY <2>1, <3>1 DEF AuthsRight
    <3> QED
      BY <1>1, <2>1, <3>2
  <2>6. i \in Nat /\ \A j \in 1..Len(up') : j \in Nat
    OBVIOUS
  <2>7. \A j \in 1..Len(up') : up'[j].op = "auth" /\ up'[j].by = up'[i].by => j = i
    BY <2>3, <2>6
  <2> QED
    BY <2>4, <2>5, <2>7
<1>7. ASSUME NEW i \in 1..Len(down'), down'[i].op = "authok"
      PROVE  /\ down'[i].by \in away'
             /\ \A j \in 1..Len(down') : down'[j].op = "authok" /\ down'[j].by = down'[i].by => j = i
  <2>1. \A j \in 1..Len(down') : j = Len(down) + 1 \/ j \in 1..Len(down)
    BY <1>2, <1>4
  <2>2. CASE i = Len(down) + 1
    <3>1. down'[i].by = p /\ p \in away'
      BY <1>1, <1>4, <1>5, <2>2
    <3>2. ASSUME NEW j \in 1..Len(down'), down'[j].op = "authok", down'[j].by = p
          PROVE  j = i
      BY <1>4, <1>5, <2>1, <2>2, <3>2
    <3> QED
      BY <3>1, <3>2
  <2>3. CASE i \in 1..Len(down)
    BY <1>1, <1>4, <1>5, <1>7, <2>1, <2>3 DEF AuthsRight
  <2> QED
    BY <2>1, <2>2, <2>3
<1> QED
  BY <1>3, <1>4, <1>6, <1>7 DEF AuthsRight

LEMMA LogInRight == ASSUME AuthsRight, NEW p, LogIn(p) PROVE AuthsRight' /\ p \in away
<1>1. /\ down # <<>> /\ Head(down).op = "authok" /\ Head(down).by = p /\ down' = Tail(down)
      /\ away' = away \ {p}
  BY DEF LogIn
<1>2. Grows(up, up') /\ IsSeq(up) /\ IsSeq(down)
  <2>1. IsSeq(up) /\ IsSeq(down)
    BY DEF AuthsRight
  <2>2. up' = up \/ \E g : up' = Append(up, Request("reqinfo", p, g, TRUE))
    BY DEF LogIn, PartyLogIn, Asks
  <2> QED
    BY <2>1, <2>2, GrowsByNothing, GrowsByOne DEF Request
<1>3. /\ Len(down) \in Nat /\ Len(down) >= 1 /\ down[1].op = "authok" /\ down[1].by = p
      /\ Len(down') = Len(down) - 1
      /\ \A i \in 1..(Len(down) - 1) : down'[i] = down[i + 1]
  BY <1>1, <1>2, SeqParts
<1>4. p \in away /\ \A i \in 1..Len(up) : up[i].op = "auth" => up[i].by \in away'
  <2>1. 1 \in 1..Len(down)
    BY <1>3
  <2> QED
    BY <1>1, <1>3, <2>1 DEF AuthsRight
<1>5. ASSUME NEW i \in 1..Len(down'), down'[i].op = "authok"
      PROVE  down'[i].by \in away'
  <2>1. i + 1 \in 1..Len(down) /\ 1 \in 1..Len(down) /\ i + 1 # 1 /\ down'[i] = down[i + 1]
    BY <1>3
  <2>2. down'[i].by \in away /\ down'[i].by # p
    BY <1>3, <1>5, <2>1 DEF AuthsRight
  <2> QED
    BY <1>1, <2>2
<1>6. Shrinks(down, down')
  BY <1>1 DEF Shrinks
<1> QED
  BY <1>2, <1>4, <1>5, <1>6, AuthsKept

-----------------------------------------------------------------------------

LEMMA AuthsKeptSilently ==
  ASSUME AuthsRight, away' = away, up' = up \/ Shrinks(up, up'), down' = down \/ Shrinks(down, down')
  PROVE  AuthsRight'
<1>1. IsSeq(up) /\ IsSeq(down)
  BY DEF AuthsRight
<1> QED
  BY <1>1, GrowsByNothing, AuthsKept

\* A handler of the map server, or a player, adds at most one message.
LEMMA AuthsKeptAsking ==
  ASSUME AuthsRight, NEW m, m.op \notin {"auth", "authok"},
         up' = up \/ up' = Append(up, m), down' = down \/ Shrinks(down, down'), away' = away
  PROVE  AuthsRight'
<1>1. IsSeq(up) /\ IsSeq(down)
  BY DEF AuthsRight
<1>2. Grows(up, up')
  BY <1>1, GrowsByNothing, GrowsByOne
<1>3. Grows(down, down') \/ Shrinks(down, down')
  BY <1>1, GrowsByNothing
<1> QED
  BY <1>2, <1>3, AuthsKept

\* A handler of the char server answers with up to two.
LEMMA AuthsKeptAnswering ==
  ASSUME AuthsRight, Shrinks(up, up'), away' = away,
         NEW m, m.op \notin {"auth", "authok"}, NEW n, n.op \notin {"auth", "authok"},
         down' = down \/ down' = down \o <<m>> \/ down' = down \o <<m, n>>
  PROVE  AuthsRight'
<1>1. IsSeq(down)
  BY DEF AuthsRight
<1>2. Grows(down, down')
  BY <1>1, GrowsByNothing, GrowsByOne, GrowsByTwo
<1> QED
  BY <1>2, AuthsKept

LEMMA MailAuths ==
  ASSUME AuthsRight, MailNext
  PROVE  AuthsRight'
<1>0. away' = away
  BY DEF MailNext, present
<1>1. ASSUME NEW p \in Players, SetAppend(p) \/ MailWinOpen(p)
      PROVE  AuthsRight'
  BY <1>0, <1>1, AuthsKeptSilently DEF SetAppend, MailWinOpen, link
<1>2. ASSUME NEW p \in Players, CheckMail(p)
      PROVE  AuthsRight'
  <2>1. down' = down
    BY <1>2 DEF CheckMail
  <2>2. \/ up' = up
        \/ \E q, load : up' = Append(up, [op |-> "send", by |-> p, to |-> q, num |-> 0, load |-> load])
        \/ \E q : up' = Append(up, [op |-> "check", by |-> p, to |-> q, num |-> 0, load |-> Nothing])
    BY <1>2 DEF CheckMail, SendMail, MailAsks, Asks
  <2> QED
    BY <1>0, <2>1, <2>2, AuthsKeptAsking, AuthsKeptSilently
<1>3. ASSUME NEW p \in Players, GetAppendReq(p) \/ DeleteReq(p)
      PROVE  AuthsRight'
  <2>1. down' = down
    BY <1>3 DEF GetAppendReq, DeleteReq
  <2>2. \E n : \E op \in {"get", "delete"} :
          up' = Append(up, [op |-> op, by |-> p, to |-> None, num |-> n, load |-> Nothing])
    BY <1>3 DEF GetAppendReq, DeleteReq, MailAsks, Asks
  <2> QED
    BY <1>0, <2>1, <2>2, AuthsKeptAsking
<1>4. CASE MapReceivesMail
  <2> DEFINE m == Head(down)
             sent(load) == [op |-> "send", by |-> m.by, to |-> m.to, num |-> 0, load |-> load]
             strip == [op |-> "strip", by |-> m.by, to |-> None, num |-> m.num, load |-> Nothing]
  <2>1. Shrinks(down, down')
    BY <1>4 DEF MapReceivesMail, Shrinks
  <2>2. TakeAttachment(m) \/ Checked(m) \/ SendRes(m)
    BY <1>4 DEF MapReceivesMail
  <2>3. CASE TakeAttachment(m)
    <3>1. up' = up \/ up' = Append(up, strip)
      BY <2>3 DEF TakeAttachment, Stripped, MailAsks, Asks
    <3>2. strip.op \notin {"auth", "authok"}
      OBVIOUS
    <3> HIDE DEF strip
    <3> QED
      BY <1>0, <2>1, <3>1, <3>2, AuthsKeptAsking
  <2>4. CASE Checked(m)
    <3>1. up' = up \/ \E load : up' = Append(up, sent(load))
      BY <2>4 DEF Checked, SendMail, MailAsks, Asks
    <3>2. ASSUME NEW load, up' = Append(up, sent(load))
          PROVE  AuthsRight'
      <4>1. sent(load).op \notin {"auth", "authok"}
        OBVIOUS
      <4> HIDE DEF sent
      <4> QED
        BY <1>0, <2>1, <3>2, <4>1, AuthsKeptAsking
    <3> QED
      BY <1>0, <2>1, <3>1, <3>2, AuthsKeptSilently
  <2>5. CASE SendRes(m)
    <3>1. up' = up
      BY <2>5 DEF SendRes
    <3> QED
      BY <1>0, <2>1, <3>1, AuthsKeptSilently
  <2> QED
    BY <2>2, <2>3, <2>4, <2>5
<1>5. CASE CharReceivesMail
  <2> DEFINE m == Head(up)
             reply(op, load) == [op |-> op, by |-> m.by, to |-> m.to, num |-> m.num, load |-> load]
  <2>1. Shrinks(up, up')
    BY <1>5 DEF CharReceivesMail, Shrinks
  <2>2. CharCheck(m) \/ CharSend(m) \/ CharGet(m) \/ CharStrip(m) \/ CharDelete(m)
    BY <1>5 DEF CharReceivesMail
  <2>3. ASSUME NEW op \in {"failed", "checked", "sent", "attachment"}, NEW load, MailAnswer(op, m, load)
        PROVE  AuthsRight'
    <3>1. down' = down \o <<reply(op, load)>>
      BY <2>3 DEF MailAnswer, Answers
    <3>2. reply(op, load).op \notin {"auth", "authok"}
      OBVIOUS
    <3> HIDE DEF reply
    <3> QED
      BY <1>0, <2>1, <3>1, <3>2, AuthsKeptAnswering
  <2>4. CASE down' = down
    BY <1>0, <2>1, <2>4, AuthsKeptSilently
  <2>5. \/ down' = down
        \/ \E load : \E op \in {"failed", "checked", "sent", "attachment"} : MailAnswer(op, m, load)
    BY <2>2 DEF CharCheck, CharSend, CharGet, CharStrip, CharDelete
  <2> QED
    BY <2>3, <2>4, <2>5
<1> QED
  BY <1>1, <1>2, <1>3, <1>4, <1>5 DEF MailNext

LEMMA AuthsKeptRequesting ==
  ASSUME AuthsRight, away' = away, down' = down \/ Shrinks(down, down'),
         NEW op \in PartyOps, NEW p, NEW g, NEW on, Asks(Request(op, p, g, on))
  PROVE  AuthsRight'
<1>1. Request(op, p, g, on).op \notin {"auth", "authok"}
  BY DEF Request, PartyOps
<1>2. up' = Append(up, Request(op, p, g, on))
  BY DEF Asks
<1> QED
  BY <1>1, <1>2, AuthsKeptAsking

LEMMA PartyAuths ==
  ASSUME AuthsRight, PartyNext
  PROVE  AuthsRight'
<1>0. away' = away
  BY DEF PartyNext, present
<1>1. ASSUME NEW p \in Players, PartyCreate(p)
      PROVE  AuthsRight'
  <2>1. down' = down /\ Asks(Request("create", p, 0, TRUE)) /\ "create" \in PartyOps
    BY <1>1 DEF PartyCreate, PartyOps
  <2> QED
    BY <1>0, <2>1, AuthsKeptRequesting
<1>2. ASSUME NEW p \in Players, PartyInvite(p)
      PROVE  AuthsRight'
  BY <1>0, <1>2, AuthsKeptSilently DEF PartyInvite
<1>3. ASSUME NEW p \in Players, ReplyInvite(p)
      PROVE  AuthsRight'
  <2>1. down' = down /\ "add" \in PartyOps /\ (up' = up \/ Asks(Request("add", p, sd[p].invite, TRUE)))
    BY <1>3 DEF ReplyInvite, PartyOps
  <2> QED
    BY <1>0, <2>1, AuthsKeptRequesting, AuthsKeptSilently
<1>4. ASSUME NEW p \in Players, PartyLeave(p) \/ ChangeLeader(p)
      PROVE  AuthsRight'
  <2>1. down' = down /\ \E op \in {"leave", "lead"}, q \in Players : Asks(Request(op, q, sd[p].party, TRUE))
    BY <1>4 DEF PartyLeave, ChangeLeader
  <2>2. {"leave", "lead"} \subseteq PartyOps
    BY DEF PartyOps
  <2> QED
    BY <1>0, <2>1, <2>2, AuthsKeptRequesting
<1>5. CASE MapReceivesParty
  <2> DEFINE m == Head(down)
  <2>1. Shrinks(down, down')
    BY <1>5 DEF MapReceivesParty, Shrinks
  <2>2. up' = up \/ Asks(Request("leave", m.by, m.party, TRUE))
    <3>1. \/ MapCreated(m) \/ MapInfo(m) \/ MapNoInfo(m) \/ MapAdded(m) \/ MapLeft(m)
          \/ MapBroken(m) \/ MapMoved(m) \/ MapLed(m)
      BY <1>5 DEF MapReceivesParty
    <3>2. MapAdded(m) => up' = up \/ Asks(Request("leave", m.by, m.party, TRUE))
      BY DEF MapAdded, AddedInVain
    <3>3. MapCreated(m) \/ MapInfo(m) \/ MapNoInfo(m) => up' = up
      BY DEF MapCreated, MapInfo, MapNoInfo
    <3>4. MapLeft(m) \/ MapBroken(m) \/ MapMoved(m) \/ MapLed(m) => up' = up
      BY DEF MapLeft, MapBroken, MapMoved, MapLed
    <3> HIDE DEF m
    <3> QED
      BY <3>1, <3>2, <3>3, <3>4
  <2>3. "leave" \in PartyOps
    BY DEF PartyOps
  <2> HIDE DEF m
  <2> QED
    BY <1>0, <2>1, <2>2, <2>3, AuthsKeptRequesting, AuthsKeptSilently
<1>6. CASE CharReceivesParty
  <2> DEFINE m == Head(up)
             Plainly(x) == x.op \notin {"auth", "authok"}
  <2>1. Shrinks(up, up')
    BY <1>6 DEF CharReceivesParty, Shrinks
  <2>2. \/ down' = down
        \/ \E x : Plainly(x) /\ down' = down \o <<x>>
        \/ \E x, y : Plainly(x) /\ Plainly(y) /\ down' = down \o <<x, y>>
    <3>1. CharCreate(m) \/ CharInfo(m) \/ CharAdd(m) \/ CharLeave(m) \/ CharMove(m) \/ CharLead(m)
      BY <1>6 DEF CharReceivesParty
    <3>2. ASSUME NEW op \in PartyAnswers, NEW p, NEW g
          PROVE  /\ Plainly(Answer(op, p, g))
                 /\ \A on : Plainly([Answer(op, p, g) EXCEPT !.on = on])
                 /\ \A old : Plainly([Answer(op, p, g) EXCEPT !.old = old])
                 /\ \A list : Plainly(Info(g, list))
      BY DEF Answer, Info, PartyAnswers
    <3>3. {"created", "noinfo", "added", "left", "broken", "moved", "led"} \subseteq PartyAnswers
      BY DEF PartyAnswers
    <3> HIDE DEF Plainly, m
    <3>4. CASE CharCreate(m)
      <4>1. \/ \E g, list : down' = down \o <<Answer("created", m.by, g), Info(g, list)>>
            \/ down' = down \o <<Answer("created", m.by, 0)>>
        BY <3>4 DEF CharCreate, Answers
      <4> QED
        BY <3>2, <3>3, <4>1
    <3>5. CASE CharInfo(m)
      <4>1. \/ down' = down \o <<Info(m.party, roll[m.party])>>
            \/ down' = down \o <<Answer("noinfo", None, m.party)>>
        BY <3>5 DEF CharInfo, Answers
      <4> QED
        BY <3>2, <3>3, <4>1
    <3>6. CASE CharAdd(m)
      <4>1. \/ down' = down \o <<[Answer("added", m.by, m.party) EXCEPT !.on = FALSE]>>
            \/ \E list : down' = down \o <<Answer("added", m.by, m.party), Info(m.party, list)>>
        BY <3>6 DEF CharAdd, Answers
      <4> QED
        BY <3>2, <3>3, <4>1
    <3>7. CASE CharLeave(m)
      <4>1. \/ down' = down
            \/ down' = down \o <<Answer("left", m.by, m.party), Answer("broken", None, m.party)>>
            \/ \E list : down' = down \o <<Answer("left", m.by, m.party), Info(m.party, list)>>
        BY <3>7 DEF CharLeave, Answers
      <4> QED
        BY <3>2, <3>3, <4>1
    <3>8. CASE CharMove(m)
      <4>1. down' = down \/ down' = down \o <<[Answer("moved", m.by, m.party) EXCEPT !.on = m.on]>>
        BY <3>8 DEF CharMove, Answers
      <4> QED
        BY <3>2, <3>3, <4>1
    <3>9. CASE CharLead(m)
      <4>1. down' = down \/ \E old : down' = down \o <<[Answer("led", m.by, m.party) EXCEPT !.old = old]>>
        BY <3>9 DEF CharLead, Answers
      <4> QED
        BY <3>2, <3>3, <4>1
    <3> QED
      BY <3>1, <3>4, <3>5, <3>6, <3>7, <3>8, <3>9
  <2>3. ASSUME NEW x, Plainly(x), down' = down \o <<x>>
        PROVE  AuthsRight'
    BY <1>0, <2>1, <2>3, AuthsKeptAnswering
  <2>4. ASSUME NEW x, NEW y, Plainly(x), Plainly(y), down' = down \o <<x, y>>
        PROVE  AuthsRight'
    BY <1>0, <2>1, <2>4, AuthsKeptAnswering
  <2> HIDE DEF Plainly
  <2> QED
    BY <1>0, <2>1, <2>2, <2>3, <2>4, AuthsKeptSilently
<1> QED
  BY <1>1, <1>2, <1>3, <1>4, <1>5, <1>6 DEF PartyNext

LEMMA QuitAuths ==
  ASSUME AuthsRight, NEW p, Quit(p)
  PROVE  AuthsRight'
<1> DEFINE notice == Request("move", p, sd[p].party, FALSE)
           save == SaveOf(p)
<1>1. IsSeq(up) /\ IsSeq(down)
  BY DEF AuthsRight
<1>2. IsSeq(<<>>) /\ Len(<<>>) = 0
  BY EmptySeq DEF IsSeq
<1>3. up' = (up \o LogoutNotice(p)) \o (IF Followed THEN <<save>> ELSE <<>>)
      /\ away \subseteq away' /\ down' = down
  BY DEF Quit, Closed
<1>4. up \o <<>> = up
  <2>1. PICK S : up \in Seq(S)
    BY <1>1 DEF IsSeq
  <2> QED
    BY <2>1, ConcatEmptySeq
<1>5. LogoutNotice(p) \in {<<>>, <<notice>>}
  BY DEF LogoutNotice
<1>6. up \o LogoutNotice(p) \in {up, up \o <<notice>>} /\ IsSeq(up \o LogoutNotice(p))
  BY <1>1, <1>4, <1>5, OneMessage, Joins
<1>7. (up \o LogoutNotice(p)) \o <<>> = up \o LogoutNotice(p)
  <2>1. PICK S : up \o LogoutNotice(p) \in Seq(S)
    BY <1>6 DEF IsSeq
  <2> QED
    BY <2>1, ConcatEmptySeq
<1>8. notice.op \notin {"auth", "authok"} /\ save.op \notin {"auth", "authok"}
  BY DEF Request, SaveOf
<1>9. up' \in {up, up \o <<notice>>, up \o <<save>>, (up \o <<notice>>) \o <<save>>}
  BY <1>3, <1>6, <1>7
<1> HIDE DEF notice, save
<1>10. Grows(up, up')
  BY <1>1, <1>8, <1>9, GrowsByNothing, GrowsByOne, GrowsByTwo
<1>11. Grows(down, down')
  BY <1>1, <1>3, GrowsByNothing
<1> QED
  BY <1>3, <1>10, <1>11, AuthsKept

LEMMA AuthsStep ==
  ASSUME AuthsRight, [Next]_vars
  PROVE  AuthsRight'
<1>1. ASSUME NEW p \in Players, Depart(p)
      PROVE  AuthsRight'
  BY <1>1, AuthsKeptSilently DEF Depart, Closed
<1>2. ASSUME NEW p \in Players, Autosave(p)
      PROVE  AuthsRight'
  <2>1. SaveOf(p).op \notin {"auth", "authok"}
    BY DEF SaveOf
  <2>2. up' = Append(up, SaveOf(p)) /\ down' = down /\ away' = away
    BY <1>2 DEF Autosave, Asks
  <2> QED
    BY <2>1, <2>2, AuthsKeptAsking
<1>3. ASSUME NEW p \in Players, Arrive(p)
      PROVE  AuthsRight'
  <2>1. down' = down /\ away' = away /\ "move" \in PartyOps
    BY <1>3 DEF Arrive, PartyOps
  <2>2. up' = up \/ Asks(Request("move", p, sd[p].party, TRUE))
    BY <1>3 DEF Arrive, PartyArrive
  <2> QED
    BY <2>1, <2>2, AuthsKeptRequesting, AuthsKeptSilently
<1>4. ASSUME NEW p \in Players, TradeNext(p) \/ LootNext(p) \/ VendingNext(p)
      PROVE  AuthsRight'
  BY <1>4, AuthsKeptSilently DEF TradeNext, LootNext, VendingNext, present, link
<1>5. ASSUME NEW p \in Players, BuyingNext(p) \/ BankNext(p)
      PROVE  AuthsRight'
  BY <1>5, AuthsKeptSilently DEF BuyingNext, BankNext, present, link
<1>6. CASE Saved
  BY <1>6, AuthsKeptSilently DEF Saved, Shrinks
<1>7. CASE LinkBreaks
  <2>1. up' = <<>> /\ down' = <<>>
    BY <1>7 DEF LinkBreaks
  <2>2. IsSeq(<<>>) /\ Len(<<>>) = 0
    BY EmptySeq DEF IsSeq
  <2> QED
    BY <2>1, <2>2 DEF AuthsRight
<1>8. CASE LinkReturns
  BY <1>8, AuthsKeptSilently DEF LinkReturns
<1>9. CASE UNCHANGED vars
  BY <1>9, AuthsKeptSilently DEF vars, link
<1> QED
  BY <1>1, <1>2, <1>3, <1>4, <1>5, <1>6, <1>7, <1>8, <1>9, QuitAuths, AuthReqRight, AuthRight,
     LogInRight, MailAuths, PartyAuths DEF Next

-----------------------------------------------------------------------------
(* Deals *)

\* Every player has a deal.
ShapeOfDeals(d) == DOMAIN d = Players /\ \A q \in Players : IsDeal(d[q])

LEMMA NoDealIsDeal == IsDeal(NoDeal) /\ NoDeal.partner = None /\ NoDeal.offer = NoOffer /\ NoDeal.seen = NoOffer
  BY DEF IsDeal, NoDeal

LEMMA DealsKept ==
  ASSUME Shape, DealsRight, \A q \in Players : deal'[q] = deal[q], online \subseteq online',
         \A q \in Players : store'[q] # "none" => store[q] # "none"
  PROVE  DealsRight'
<1>1. Single' /\ ShopsApart' /\ GoneApart'
  BY DEF DealsRight, Single, ShopsApart, GoneApart, Partner
<1>2. \A q \in Players : Partner(q)' = Partner(q) /\ (Partner(q) # None => Partner(q) \in Players)
  BY DEF Shape, IsDeal, Partner
<1>3. Mutual'
  BY <1>2 DEF DealsRight, Mutual
<1>4. SeenStands'
  BY <1>2 DEF DealsRight, SeenStands
<1> QED
  BY <1>1, <1>3, <1>4 DEF DealsRight

\* A trade that ends leaves the others as they are.
LEMMA EndShape ==
  ASSUME Shape, NEW p \in Players
  PROVE  ShapeOfDeals(Cancelled(deal, p)) /\ ShapeOfDeals(TradeEnded(p))
<1>1. ShapeOfDeals(deal)
  BY DEF Shape, ShapeOfDeals
<1>2. ShapeOfDeals(Cancelled(deal, p))
  BY <1>1, NoDealIsDeal DEF ShapeOfDeals, Cancelled
<1> QED
  BY <1>1, <1>2 DEF TradeEnded

LEMMA EndRight ==
  ASSUME Shape, DealsRight, NEW p \in Players,
         \/ \A q \in Players : deal'[q] = Cancelled(deal, p)[q]
         \/ \A q \in Players : deal'[q] = TradeEnded(p)[q],
         \A q \in Players \ {p} : store'[q] # "none" => store[q] # "none",
         Players \ online' \subseteq (Players \ online) \cup {p}
  PROVE  DealsRight'
<1> DEFINE over == {q \in Players : q = p \/ q = Partner(p)}
<1>1. /\ \A q \in Players : Partner(q) \in Players \cup {None}
      /\ \A q \in Players : q # None
      /\ \A q \in Players : Partner(q) # None => q \in online
  BY NoneAssumption DEF Shape, IsDeal, Partner, DealsRight, GoneApart
<1>2. Partner(p) # None => Partner(p) \in online /\ Partner(Partner(p)) = p /\ Partner(p) # p
  BY <1>1 DEF DealsRight, Mutual
<1>3. \A q \in Players : deal'[q] = IF q \in over THEN NoDeal ELSE deal[q]
  <2>1. CASE Partner(p) = None
    <3>1. deal[p] = NoDeal
      BY <2>1 DEF DealsRight, Single
    <3>2. over = {p}
      BY <1>1, <2>1
    <3>3. \A q \in Players : Cancelled(deal, p)[q] = IF q = p THEN NoDeal ELSE deal[q]
      BY <1>1, <2>1 DEF Cancelled, Partner
    <3> QED
      BY <2>1, <3>1, <3>2, <3>3 DEF TradeEnded
  <2>2. CASE Partner(p) # None
    BY <1>2, <2>2 DEF TradeEnded, Cancelled, Partner
  <2> QED
    BY <2>1, <2>2
<1>4. \A q \in Players : q \in over => Partner(q)' = None
  BY <1>3, NoDealIsDeal DEF Partner
<1>5. \A q \in Players : q \notin over => Partner(q)' = Partner(q)
  BY <1>3 DEF Partner
<1>6. \A q \in Players : q \notin over /\ Partner(q) # None => Partner(q) \in Players /\ Partner(q) \notin over
  BY <1>1, <1>2 DEF DealsRight, Mutual
<1> HIDE DEF over
<1>7. Single'
  BY <1>3, <1>4, <1>5 DEF DealsRight, Single
<1>8. Mutual'
  BY <1>4, <1>5, <1>6 DEF DealsRight, Mutual
<1>9. SeenStands'
  BY <1>3, <1>4, <1>5, <1>6 DEF DealsRight, SeenStands
<1>10. ShopsApart' /\ GoneApart'
  <2>1. p \in over
    BY DEF over
  <2> QED
    BY <1>4, <1>5, <2>1 DEF DealsRight, ShopsApart, GoneApart
<1> QED
  BY <1>7, <1>8, <1>9, <1>10 DEF DealsRight

\* An edit of one trade.
LEMMA Edited ==
  ASSUME Shape, NEW p \in Players, NEW e, IsDeal(e), deal' = [deal EXCEPT ![p] = e]
  PROVE  /\ ShapeOfDeals(deal')
         /\ \A r \in Players : deal'[r] = IF r = p THEN e ELSE deal[r]
BY DEF Shape, ShapeOfDeals

LEMMA OneField ==
  ASSUME NEW d, IsDeal(d)
  PROVE  /\ \A x \in Players \cup {None} : LET e == [d EXCEPT !.partner = x] IN
              /\ IsDeal(e) /\ e.partner = x /\ e.mode = d.mode /\ e.locked = d.locked
              /\ e.offer = d.offer /\ e.seen = d.seen
         /\ \A x : LET e == [d EXCEPT !.mode = x] IN
              /\ IsDeal(e) /\ e.partner = d.partner /\ e.mode = x /\ e.locked = d.locked
              /\ e.offer = d.offer /\ e.seen = d.seen
         /\ \A x \in 0..2 : LET e == [d EXCEPT !.locked = x] IN
              /\ IsDeal(e) /\ e.partner = d.partner /\ e.mode = d.mode /\ e.locked = x
              /\ e.offer = d.offer /\ e.seen = d.seen
         /\ \A x : LET e == [d EXCEPT !.offer = x] IN
              /\ IsDeal(e) /\ e.partner = d.partner /\ e.mode = d.mode /\ e.locked = d.locked
              /\ e.offer = x /\ e.seen = d.seen
         /\ \A x : LET e == [d EXCEPT !.seen = x] IN
              /\ IsDeal(e) /\ e.partner = d.partner /\ e.mode = d.mode /\ e.locked = d.locked
              /\ e.offer = d.offer /\ e.seen = x
<1>1. \A x \in Players \cup {None} : LET e == [d EXCEPT !.partner = x] IN
        /\ IsDeal(e) /\ e.partner = x /\ e.mode = d.mode /\ e.locked = d.locked
        /\ e.offer = d.offer /\ e.seen = d.seen
  BY DEF IsDeal
<1>2. \A x : LET e == [d EXCEPT !.mode = x] IN
        /\ IsDeal(e) /\ e.partner = d.partner /\ e.mode = x /\ e.locked = d.locked
        /\ e.offer = d.offer /\ e.seen = d.seen
  BY DEF IsDeal
<1>3. \A x \in 0..2 : LET e == [d EXCEPT !.locked = x] IN
        /\ IsDeal(e) /\ e.partner = d.partner /\ e.mode = d.mode /\ e.locked = x
        /\ e.offer = d.offer /\ e.seen = d.seen
  BY DEF IsDeal
<1>4. \A x : LET e == [d EXCEPT !.offer = x] IN
        /\ IsDeal(e) /\ e.partner = d.partner /\ e.mode = d.mode /\ e.locked = d.locked
        /\ e.offer = x /\ e.seen = d.seen
  BY DEF IsDeal
<1>5. \A x : LET e == [d EXCEPT !.seen = x] IN
        /\ IsDeal(e) /\ e.partner = d.partner /\ e.mode = d.mode /\ e.locked = d.locked
        /\ e.offer = d.offer /\ e.seen = x
  BY DEF IsDeal
<1> QED
  BY <1>1, <1>2, <1>3, <1>4, <1>5

LEMMA Confirming ==
  ASSUME NEW d, IsDeal(d), NEW x
  PROVE  LET e == [d EXCEPT !.locked = 2, !.seen = x] IN
           IsDeal(e) /\ e.partner = d.partner /\ e.locked = 2 /\ e.offer = d.offer /\ e.seen = x
<1>1. PICK c : c = [d EXCEPT !.locked = 2]
  OBVIOUS
<1>2. IsDeal(c) /\ c.partner = d.partner /\ c.locked = 2 /\ c.offer = d.offer
  BY <1>1 DEF IsDeal
<1>3. PICK e : e = [c EXCEPT !.seen = x]
  OBVIOUS
<1>4. IsDeal(e) /\ e.partner = d.partner /\ e.locked = 2 /\ e.offer = d.offer /\ e.seen = x
  BY <1>2, <1>3 DEF IsDeal
<1>5. e = [d EXCEPT !.locked = 2, !.seen = x]
  BY <1>1, <1>3, Zenon
<1> QED
  BY <1>4, <1>5

LEMMA Refusing ==
  ASSUME NEW d, IsDeal(d)
  PROVE  LET e == [d EXCEPT !.partner = None, !.mode = FALSE, !.locked = 0] IN
           /\ IsDeal(e) /\ e.partner = None /\ e.offer = d.offer /\ e.seen = d.seen
           /\ e.offer = NoOffer /\ e.seen = NoOffer => e = NoDeal
<1>1. PICK b : b = [d EXCEPT !.partner = None]
  OBVIOUS
<1>2. IsDeal(b) /\ b.partner = None /\ b.offer = d.offer /\ b.seen = d.seen
  BY <1>1 DEF IsDeal
<1>3. PICK c : c = [b EXCEPT !.mode = FALSE]
  OBVIOUS
<1>4. IsDeal(c) /\ c.partner = None /\ c.offer = d.offer /\ c.seen = d.seen /\ c.mode = FALSE
  BY <1>2, <1>3 DEF IsDeal
<1>5. PICK e : e = [c EXCEPT !.locked = 0]
  OBVIOUS
<1>6. /\ IsDeal(e) /\ e.partner = None /\ e.offer = d.offer /\ e.seen = d.seen
      /\ e.mode = FALSE /\ e.locked = 0
  BY <1>4, <1>5 DEF IsDeal
<1>7. e.offer = NoOffer /\ e.seen = NoOffer => e = NoDeal
  <2>1. e = [partner |-> e.partner, mode |-> e.mode, locked |-> e.locked,
             offer |-> e.offer, seen |-> e.seen]
    BY <1>6 DEF IsDeal
  <2> QED
    BY <1>6, <2>1 DEF NoDeal
<1>8. e = [d EXCEPT !.partner = None, !.mode = FALSE, !.locked = 0]
  BY <1>1, <1>3, <1>5, Zenon
<1> QED
  BY <1>6, <1>7, <1>8

\* A step of trade.c with the players where they were.
TradeGround == UNCHANGED <<online, away, store, mailing, append>>

LEMMA TradeShape ==
  ASSUME Shape, GoneBare, TradeGround, ShapeOfDeals(deal')
  PROVE  Shape' /\ GoneBare'
BY DEF Shape, GoneBare, TradeGround, ShapeOfDeals

\* The player changes his offer while it is open, or confirms.
LEMMA OfferRight ==
  ASSUME Shape, DealsRight, TradeGround, NEW p \in Players, Partner(p) # None,
         NEW e, IsDeal(e), e.partner = Partner(p), deal' = [deal EXCEPT ![p] = e],
         deal[p].locked < 1 \/ (e.offer = deal[p].offer /\ e.locked >= 1),
         e.seen = deal[p].seen
           \/ (e.seen = deal[Partner(p)].offer /\ deal[Partner(p)].locked >= 1)
  PROVE  DealsRight'
<1>1. \A r \in Players : deal'[r] = IF r = p THEN e ELSE deal[r]
  BY Edited
<1>2. /\ \A r \in Players : Partner(r)' = Partner(r)
      /\ \A r \in Players : Partner(r) # None => Partner(r) \in Players
      /\ \A r \in Players : deal[r].locked \in 0..2
  BY <1>1 DEF Partner, Shape, IsDeal
<1>3. Single' /\ ShopsApart' /\ GoneApart'
  BY <1>1, <1>2 DEF DealsRight, Single, ShopsApart, GoneApart, TradeGround
<1>4. Mutual'
  BY <1>2 DEF DealsRight, Mutual
<1>5. ASSUME NEW r \in Players, Partner(r) # None, deal'[r].seen # NoOffer
      PROVE  deal'[r].seen = deal'[Partner(r)].offer /\ deal'[Partner(r)].locked >= 1
  <2>1. CASE r = p
    BY <1>1, <1>2, <1>5, <2>1 DEF DealsRight, Mutual, SeenStands
  <2>2. CASE r # p /\ Partner(r) = p
    BY <1>1, <1>2, <1>5, <2>2 DEF DealsRight, SeenStands
  <2>3. CASE r # p /\ Partner(r) # p
    BY <1>1, <1>2, <1>5, <2>3 DEF DealsRight, SeenStands
  <2> QED
    BY <2>1, <2>2, <2>3
<1> QED
  BY <1>2, <1>3, <1>4, <1>5 DEF DealsRight, SeenStands

\* What a step has to keep.
Sound == Shape /\ GoneBare /\ (crossed \/ DealsRight)

LEMMA TradeEnds ==
  ASSUME Sound, TradeGround, NEW p \in Players, crossed => crossed',
         \/ deal' = Cancelled(deal, p)
         \/ deal' = TradeEnded(p)
         \/ Present(p) /\ deal' = [deal EXCEPT ![p] = NoDeal, ![Partner(p)] = NoDeal]
  PROVE  Sound'
<1>1. /\ ShapeOfDeals(deal')
      /\ \/ \A q \in Players : deal'[q] = Cancelled(deal, p)[q]
         \/ \A q \in Players : deal'[q] = TradeEnded(p)[q]
  <2>1. CASE Present(p) /\ deal' = [deal EXCEPT ![p] = NoDeal, ![Partner(p)] = NoDeal]
    <3>1. Partner(p) \in Players /\ Partner(p) \in online
      BY <2>1 DEF Sound, Shape, Present
    <3>2. /\ DOMAIN deal' = Players
          /\ \A q \in Players : deal'[q] = IF q = p \/ q = Partner(p) THEN NoDeal ELSE deal[q]
      BY <2>1, <3>1 DEF Sound, Shape
    <3> QED
      BY <3>1, <3>2, NoDealIsDeal DEF Sound, Shape, ShapeOfDeals, Cancelled, Partner
  <2> QED
    BY <2>1, EndShape DEF Sound
<1>2. Shape' /\ GoneBare'
  BY <1>1, TradeShape DEF Sound
<1>3. ~crossed => DealsRight'
  BY <1>1, EndRight DEF Sound, TradeGround
<1> QED
  BY <1>2, <1>3 DEF Sound

LEMMA RequestStep ==
  ASSUME Sound, TradeGround, NEW p \in Players, TradeRequest(p)
  PROVE  Sound'
<1>1. PICK q \in online \ {p} :
        /\ p \in online /\ Idle(p) /\ store[q] = "none" /\ Unasked(q)
        /\ deal' = [deal EXCEPT ![p].partner = q, ![q].partner = p]
        /\ crossed' = (crossed \/ Partner(p) # None)
  BY DEF TradeRequest
<1>2. q \in Players /\ p # q /\ p # None /\ q # None
  BY <1>1, NoneAssumption DEF Sound, Shape
<1>3. PICK e : e = [deal[p] EXCEPT !.partner = q]
  OBVIOUS
<1>4. PICK f : f = [deal[q] EXCEPT !.partner = p]
  OBVIOUS
<1>5. IsDeal(e) /\ e.partner = q /\ e.seen = deal[p].seen
  BY <1>2, <1>3 DEF Sound, Shape, IsDeal
<1>6. IsDeal(f) /\ f.partner = p /\ f.seen = deal[q].seen
  BY <1>2, <1>4 DEF Sound, Shape, IsDeal
<1>7. deal' = [deal EXCEPT ![p] = e, ![q] = f]
  BY <1>1, <1>2, <1>3, <1>4 DEF Sound, Shape
<1>8. /\ ShapeOfDeals(deal')
      /\ \A r \in Players : deal'[r] = IF r = p THEN e ELSE IF r = q THEN f ELSE deal[r]
  BY <1>2, <1>5, <1>6, <1>7 DEF Sound, Shape, ShapeOfDeals
<1>9. Shape' /\ GoneBare'
  BY <1>8, TradeShape DEF Sound
<1>10. ASSUME ~crossed'
       PROVE  DealsRight'
  <2>1. DealsRight /\ Partner(p) = None /\ Partner(q) = None
    BY <1>1, <1>10 DEF Sound, Unasked
  <2>2. deal[p].seen = NoOffer /\ deal[q].seen = NoOffer
    BY <1>2, <2>1, NoDealIsDeal DEF DealsRight, Single
  <2>3. \A r \in Players : r \notin {p, q} /\ Partner(r) # None =>
          Partner(r)' = Partner(r) /\ Partner(r) \in Players /\ Partner(r) \notin {p, q}
    <3>1. \A r \in Players : r # None /\ Partner(r) \in Players \cup {None}
      BY NoneAssumption DEF Sound, Shape, IsDeal, Partner
    <3>2. \A r \in Players : r \notin {p, q} => Partner(r)' = Partner(r)
      BY <1>8 DEF Partner
    <3> QED
      BY <2>1, <3>1, <3>2 DEF DealsRight, Mutual
  <2>4. Partner(p)' = q /\ Partner(q)' = p
    BY <1>2, <1>5, <1>6, <1>8 DEF Partner
  <2>5. \A r \in Players : r \notin {p, q} => deal'[r] = deal[r] /\ Partner(r)' = Partner(r)
    BY <1>8 DEF Partner
  <2>6. Single' /\ ShopsApart' /\ GoneApart'
    BY <1>1, <1>2, <2>1, <2>4, <2>5 DEF DealsRight, Single, ShopsApart, GoneApart, TradeGround, Idle
  <2>7. Mutual'
    BY <1>2, <2>1, <2>3, <2>4, <2>5 DEF DealsRight, Mutual
  <2>8. SeenStands'
    BY <1>5, <1>6, <1>8, <2>1, <2>2, <2>3, <2>5 DEF DealsRight, SeenStands
  <2> QED
    BY <2>6, <2>7, <2>8 DEF DealsRight
<1> QED
  BY <1>9, <1>10 DEF Sound

\* A player who has a partner on the map changes his own side of the trade.
LEMMA OfferStep ==
  ASSUME Sound, TradeGround, crossed' = crossed, NEW p \in Players, Present(p),
         NEW e, IsDeal(e), e.partner = Partner(p), deal' = [deal EXCEPT ![p] = e],
         deal[p].locked < 1 \/ (e.offer = deal[p].offer /\ e.locked >= 1),
         e.seen = deal[p].seen
           \/ (e.seen = deal[Partner(p)].offer /\ deal[Partner(p)].locked >= 1)
  PROVE  Sound'
<1>1. Partner(p) # None
  BY NoneAssumption DEF Sound, Shape, Present
<1>2. Shape' /\ GoneBare'
  BY Edited, TradeShape DEF Sound
<1>3. ~crossed => DealsRight'
  BY <1>1, OfferRight DEF Sound
<1> QED
  BY <1>2, <1>3 DEF Sound

LEMMA AddStep ==
  ASSUME Sound, TradeGround, NEW p \in Players, TradeAddZeny(p) \/ TradeAddItem(p)
  PROVE  Sound'
<1>1. Present(p) /\ deal[p].locked < 1 /\ crossed' = crossed
  BY DEF TradeAddZeny, TradeAddItem, OfferOpen
<1>2. \E x : deal' = [deal EXCEPT ![p] = [deal[p] EXCEPT !.offer = x]]
  <2>1. CASE TradeAddZeny(p)
    <3>1. PICK n : deal' = [deal EXCEPT ![p].offer.zeny = n]
      BY <2>1 DEF TradeAddZeny
    <3>2. PICK x : x = [deal[p].offer EXCEPT !.zeny = n]
      OBVIOUS
    <3> QED
      BY <3>1, <3>2, Zenon
  <2>2. CASE TradeAddItem(p)
    <3>1. PICK i, y : deal' = [deal EXCEPT ![p].offer.items[i] = y]
      BY <2>2 DEF TradeAddItem
    <3>2. PICK x : x = [deal[p].offer EXCEPT !.items[i] = y]
      OBVIOUS
    <3> QED
      BY <3>1, <3>2, Zenon
  <2> QED
    BY <2>1, <2>2
<1>3. PICK x : deal' = [deal EXCEPT ![p] = [deal[p] EXCEPT !.offer = x]]
  BY <1>2
<1>4. PICK e : e = [deal[p] EXCEPT !.offer = x]
  OBVIOUS
<1>5. IsDeal(e) /\ e.partner = Partner(p) /\ e.seen = deal[p].seen
  BY <1>4 DEF Sound, Shape, IsDeal, Partner
<1>6. deal' = [deal EXCEPT ![p] = e]
  BY <1>3, <1>4, Zenon
<1> QED
  BY <1>1, <1>5, <1>6, OfferStep

LEMMA OkStep ==
  ASSUME Sound, TradeGround, NEW p \in Players, TradeOk(p)
  PROVE  Sound'
<1>1. CASE Present(p) /\ deal' = [deal EXCEPT ![p].locked = 1]
  <2>1. PICK e : e = [deal[p] EXCEPT !.locked = 1]
    OBVIOUS
  <2>2. /\ IsDeal(e) /\ e.partner = Partner(p) /\ e.seen = deal[p].seen
        /\ e.offer = deal[p].offer /\ e.locked >= 1
    BY <2>1 DEF Sound, Shape, IsDeal, Partner
  <2>3. deal' = [deal EXCEPT ![p] = e]
    BY <1>1, <2>1, Zenon
  <2>4. crossed' = crossed
    BY DEF TradeOk
  <2> QED
    BY <1>1, <2>2, <2>3, <2>4, OfferStep
<1>2. CASE deal' = Cancelled(deal, p)
  BY <1>2, TradeEnds DEF TradeOk
<1> QED
  BY <1>1, <1>2 DEF TradeOk

LEMMA CommitStep ==
  ASSUME Sound, TradeGround, NEW p \in Players, TradeCommitFirst(p) \/ TradeCommit(p)
  PROVE  Sound'
<1>0. crossed' = crossed
  BY DEF TradeCommitFirst, TradeCommit
<1>1. CASE TradeCommitFirst(p)
  <2> DEFINE q == Partner(p)
  <2>1. /\ Present(p) /\ deal[q].locked >= 1
        /\ deal' = [deal EXCEPT ![p].locked = 2, ![p].seen = deal[q].offer]
    BY <1>1 DEF TradeCommitFirst, BothLocked
  <2>2. PICK d : d = deal[p]
    OBVIOUS
  <2>3. PICK x : x = deal[q].offer
    OBVIOUS
  <2>4. PICK e : e = [d EXCEPT !.locked = 2, !.seen = x]
    OBVIOUS
  <2>5. /\ IsDeal(e) /\ e.partner = q /\ e.seen = deal[q].offer
        /\ e.offer = deal[p].offer /\ e.locked = 2
    <3>1. IsDeal(d)
      BY <2>2 DEF Sound, Shape
    <3>2. LET f == [d EXCEPT !.locked = 2, !.seen = x] IN
            IsDeal(f) /\ f.partner = d.partner /\ f.locked = 2 /\ f.offer = d.offer /\ f.seen = x
      BY <3>1, Confirming
    <3> QED
      BY <2>2, <2>3, <2>4, <3>2, Zenon DEF Partner
  <2>6. deal' = [deal EXCEPT ![p] = e]
    BY <2>1, <2>2, <2>3, <2>4, Zenon
  <2> HIDE DEF q
  <2>7. e.locked >= 1 /\ q = Partner(p)
    BY <2>5 DEF q
  <2> QED
    BY <1>0, <2>1, <2>5, <2>6, <2>7, OfferStep
<1>2. CASE TradeCommit(p)
  <2>1. deal' = Cancelled(deal, p) \/ (Present(p) /\ deal' = [deal EXCEPT ![p] = NoDeal, ![Partner(p)] = NoDeal])
    BY <1>2 DEF TradeCommit, BothLocked
  <2> QED
    BY <1>0, <2>1, TradeEnds
<1> QED
  BY <1>1, <1>2

LEMMA AckStep ==
  ASSUME Sound, TradeGround, NEW p \in Players, TradeAck(p)
  PROVE  Sound'
<1> DEFINE q == Partner(p)
           Closed_(d) == [d EXCEPT !.partner = None, !.mode = FALSE, !.locked = 0]
           Opened(d) == [d EXCEPT !.mode = TRUE]
<1>1. /\ Present(p) /\ crossed' = (crossed \/ LeftOver(deal'))
      /\ \/ deal' = Cancelled(deal, p)
         \/ deal' = Cancelled(Cancelled(deal, q), p)
         \/ deal' = [deal EXCEPT ![p] = Closed_(@), ![q] = Closed_(@)]
         \/ deal' = [deal EXCEPT ![p].mode = TRUE, ![q].mode = TRUE]
  BY DEF TradeAck
<1>2. q \in Players /\ q \in online /\ q # None
  BY <1>1, NoneAssumption DEF Sound, Shape, Present
<1>3. ShapeOfDeals(deal)
  BY DEF Sound, Shape, ShapeOfDeals
<1>4. DealsRight => Partner(q) = p /\ q # p
  BY <1>2 DEF DealsRight, Mutual
<1>5. CASE deal' = Cancelled(deal, p)
  BY <1>1, <1>5, TradeEnds
<1>6. CASE deal' = Cancelled(Cancelled(deal, q), p)
  <2>1. PICK c : c = Cancelled(deal, q)
    OBVIOUS
  <2>2. ShapeOfDeals(c)
    BY <1>2, <2>1, EndShape DEF Sound
  <2>3. ShapeOfDeals(deal')
    BY <1>6, <2>1, <2>2, NoDealIsDeal DEF ShapeOfDeals, Cancelled
  <2>4. Shape' /\ GoneBare'
    BY <2>3, TradeShape DEF Sound
  <2>5. ASSUME ~crossed'
        PROVE  DealsRight'
    <3>1. DealsRight /\ q # p /\ Partner(q) = p
      BY <1>1, <1>4, <2>5 DEF Sound
    <3>2. p \in online
      BY DEF TradeAck
    <3>3. \A r \in Players : c[r] = IF r = p \/ r = q THEN NoDeal ELSE deal[r]
      BY <1>2, <2>1, <3>1, <3>2 DEF Cancelled, Partner
    <3>4. c[p].partner = None /\ None \notin online
      BY <3>3, NoDealIsDeal, NoneAssumption DEF Sound, Shape
    <3>5. \A r \in Players : deal'[r] = IF r = p THEN NoDeal ELSE c[r]
      BY <1>6, <2>1, <3>4 DEF Cancelled
    <3>6. \A r \in Players : Cancelled(deal, p)[r] = IF r = p \/ r = q THEN NoDeal ELSE deal[r]
      BY <1>2 DEF Cancelled, Partner
    <3>7. \A r \in Players : deal'[r] = Cancelled(deal, p)[r]
      BY <3>3, <3>5, <3>6
    <3> QED
      BY <3>1, <3>7, EndRight DEF Sound, TradeGround
  <2> QED
    BY <2>4, <2>5 DEF Sound
<1>7. CASE deal' = [deal EXCEPT ![p] = Closed_(@), ![q] = Closed_(@)]
  <2>1. PICK d : d = [deal EXCEPT ![p] = Closed_(@)]
    OBVIOUS
  <2>2. deal' = [d EXCEPT ![q] = Closed_(@)]
    BY <1>7, <2>1, Zenon
  <2>3. \A r \in Players : IsDeal(deal[r]) => IsDeal(Closed_(deal[r]))
    BY Refusing
  <2>4. ShapeOfDeals(d) /\ \A r \in Players : d[r] = IF r = p THEN Closed_(deal[p]) ELSE deal[r]
    BY <1>3, <2>1, <2>3 DEF ShapeOfDeals
  <2>5. \A r \in Players : IsDeal(d[r]) => IsDeal(Closed_(d[r]))
    BY Refusing
  <2>6. ShapeOfDeals(deal') /\ \A r \in Players : deal'[r] = IF r = q THEN Closed_(d[q]) ELSE d[r]
    BY <1>2, <2>2, <2>4, <2>5 DEF ShapeOfDeals
  <2>7. Shape' /\ GoneBare'
    BY <2>6, TradeShape DEF Sound
  <2>8. ASSUME ~crossed'
        PROVE  DealsRight'
    <3>1. DealsRight /\ q # p /\ Partner(q) = p /\ ~LeftOver(deal')
      BY <1>1, <1>4, <2>8 DEF Sound
    <3>2. /\ deal'[p] = Closed_(deal[p]) /\ deal'[q] = Closed_(deal[q])
          /\ \A r \in Players : r \notin {p, q} => deal'[r] = deal[r]
      BY <1>2, <2>4, <2>6, <3>1
    <3>3. \A r \in {p, q} : /\ deal'[r].partner = None /\ deal'[r].offer = deal[r].offer
                            /\ deal'[r].seen = deal[r].seen
                            /\ deal'[r].offer = NoOffer /\ deal'[r].seen = NoOffer => deal'[r] = NoDeal
      <4>1. \A e : IsDeal(e) => /\ Closed_(e).partner = None /\ Closed_(e).offer = e.offer
                                /\ Closed_(e).seen = e.seen
                                /\ Closed_(e).offer = NoOffer /\ Closed_(e).seen = NoOffer
                                     => Closed_(e) = NoDeal
        BY Refusing
      <4> HIDE DEF Closed_
      <4>2. IsDeal(deal[p]) /\ IsDeal(deal[q])
        BY <1>2, <1>3 DEF ShapeOfDeals
      <4> QED
        BY <3>2, <4>1, <4>2
    <3>4. \A r \in {p, q} : deal'[r].offer = NoOffer
      BY <1>2, <3>1, <3>3 DEF LeftOver
    <3>5. \A r \in {p, q} : deal'[r].seen = NoOffer
      <4>1. Partner(p) # None /\ Partner(q) # None
        BY <1>2, <3>1, NoneAssumption DEF Sound, Shape
      <4>2. deal[p].offer = NoOffer /\ deal[q].offer = NoOffer
        BY <3>3, <3>4
      <4>3. deal[p].seen = NoOffer /\ deal[q].seen = NoOffer
        BY <1>2, <3>1, <4>1, <4>2 DEF DealsRight, SeenStands
      <4> QED
        BY <3>3, <4>3
    <3>6. \A r \in Players : deal'[r] = Cancelled(deal, p)[r]
      BY <1>2, <3>2, <3>3, <3>4, <3>5 DEF Cancelled, Partner
    <3> QED
      BY <3>1, <3>6, EndRight DEF Sound, TradeGround
  <2> QED
    BY <2>7, <2>8 DEF Sound
<1>8. CASE deal' = [deal EXCEPT ![p].mode = TRUE, ![q].mode = TRUE]
  <2>1. PICK d : d = [deal EXCEPT ![p] = Opened(@)]
    OBVIOUS
  <2>2. deal' = [d EXCEPT ![q] = Opened(@)]
    BY <1>8, <2>1, Zenon
  <2>3. \A e : IsDeal(e) => /\ IsDeal(Opened(e)) /\ Opened(e).partner = e.partner
                            /\ Opened(e).locked = e.locked /\ Opened(e).offer = e.offer
                            /\ Opened(e).seen = e.seen
    <3> SUFFICES ASSUME NEW e, IsDeal(e)
                 PROVE  /\ IsDeal(Opened(e)) /\ Opened(e).partner = e.partner
                        /\ Opened(e).locked = e.locked /\ Opened(e).offer = e.offer
                        /\ Opened(e).seen = e.seen
      OBVIOUS
    <3>1. \A x : LET f == [e EXCEPT !.mode = x] IN
             /\ IsDeal(f) /\ f.partner = e.partner /\ f.mode = x /\ f.locked = e.locked
             /\ f.offer = e.offer /\ f.seen = e.seen
      BY OneField, Zenon
    <3> QED
      BY <3>1, Zenon
  <2>4. ShapeOfDeals(d) /\ \A r \in Players : d[r] = IF r = p THEN Opened(deal[p]) ELSE deal[r]
    BY <1>3, <2>1, <2>3 DEF ShapeOfDeals
  <2>5. ShapeOfDeals(deal') /\ \A r \in Players : deal'[r] = IF r = q THEN Opened(d[q]) ELSE d[r]
    BY <1>2, <2>2, <2>3, <2>4 DEF ShapeOfDeals
  <2>6. Shape' /\ GoneBare'
    BY <2>5, TradeShape DEF Sound
  <2>7. ASSUME ~crossed'
        PROVE  DealsRight'
    <3>1. DealsRight /\ q # p /\ Partner(q) = p
      BY <1>1, <1>4, <2>7 DEF Sound
    <3>2. \A r \in Players : /\ deal'[r].partner = deal[r].partner /\ deal'[r].locked = deal[r].locked
                             /\ deal'[r].offer = deal[r].offer /\ deal'[r].seen = deal[r].seen
                             /\ r \notin {p, q} => deal'[r] = deal[r]
      <4> HIDE DEF Opened
      <4>1. \A r \in Players : deal'[r] = IF r \in {p, q} THEN Opened(deal[r]) ELSE deal[r]
        BY <1>2, <2>4, <2>5, <3>1
      <4> QED
        BY <1>3, <2>3, <4>1 DEF ShapeOfDeals
    <3>3. Partner(p) # None /\ Partner(q) # None
      BY <1>2, <3>1, NoneAssumption DEF Sound, Shape
    <3>4. \A r \in Players : Partner(r)' = Partner(r) /\ (Partner(r) # None => Partner(r) \in Players)
      BY <3>2 DEF Partner, Sound, Shape, IsDeal
    <3>5. Single' /\ ShopsApart' /\ GoneApart'
      BY <3>1, <3>2, <3>3, <3>4 DEF DealsRight, Single, ShopsApart, GoneApart, TradeGround
    <3>6. Mutual' /\ SeenStands'
      BY <3>1, <3>2, <3>4 DEF DealsRight, Mutual, SeenStands
    <3> QED
      BY <3>5, <3>6 DEF DealsRight
  <2> QED
    BY <2>6, <2>7 DEF Sound
<1> QED
  BY <1>1, <1>5, <1>6, <1>7, <1>8

-----------------------------------------------------------------------------
(* Shops and mail *)

\* A step that opens nothing.
LEMMA CalmStep ==
  ASSUME Sound, UNCHANGED <<online, away, deal, crossed, append, mailing>>,
         DOMAIN store' = Players, \A q \in Players : store'[q] # "none" => store[q] # "none"
  PROVE  Sound'
<1>1. Shape' /\ GoneBare'
  BY DEF Sound, Shape, GoneBare
<1>2. ~crossed => DealsRight'
  BY DealsKept DEF Sound
<1> QED
  BY <1>1, <1>2 DEF Sound

LEMMA ShopOpens ==
  ASSUME Sound, UNCHANGED <<online, away, crossed, append, mailing>>, NEW p \in Players, p \in online,
         deal' = TradeEnded(p), DOMAIN store' = Players, \A q \in Players \ {p} : store'[q] = store[q]
  PROVE  Sound'
<1>1. ShapeOfDeals(deal')
  BY EndShape DEF Sound
<1>2. Shape' /\ GoneBare'
  BY <1>1 DEF Sound, Shape, GoneBare, ShapeOfDeals
<1>3. ~crossed => DealsRight'
  BY EndRight DEF Sound
<1> QED
  BY <1>2, <1>3 DEF Sound

LEMMA VendingStep ==
  ASSUME Sound, NEW p \in Players, VendingNext(p)
  PROVE  Sound'
<1>1. UNCHANGED <<online, away, append>>
  BY DEF VendingNext, present, mails
<1>2. DOMAIN store = Players
  BY DEF Sound, Shape
<1>3. CASE OpenVending(p)
  <2>1. /\ p \in online /\ deal' = TradeEnded(p) /\ UNCHANGED <<crossed, mailing>>
        /\ store' = store \/ store' = [store EXCEPT ![p] = "vending"]
    BY <1>3 DEF OpenVending
  <2>2. DOMAIN store' = Players /\ \A q \in Players \ {p} : store'[q] = store[q]
    BY <1>2, <2>1
  <2> QED
    BY <1>1, <2>1, <2>2, ShopOpens
<1>4. CASE CloseVending(p)
  <2>1. store' = [store EXCEPT ![p] = "none"] /\ UNCHANGED <<deal, crossed, mailing>>
    BY <1>4 DEF CloseVending, trades
  <2>2. DOMAIN store' = Players /\ \A q \in Players : store'[q] # "none" => store[q] # "none"
    BY <1>2, <2>1
  <2> QED
    BY <1>1, <2>1, <2>2, CalmStep
<1>5. CASE VendingListReq(p) \/ PurchaseReq(p) \/ PutItemToCart(p) \/ GetItemFromCart(p)
  <2>1. UNCHANGED <<store, deal, crossed, mailing>>
    BY <1>5 DEF VendingListReq, PurchaseReq, PutItemToCart, GetItemFromCart, trades
  <2> QED
    BY <1>1, <1>2, <2>1, CalmStep
<1> QED
  BY <1>3, <1>4, <1>5 DEF VendingNext

LEMMA BuyingStep ==
  ASSUME Sound, NEW p \in Players, BuyingNext(p)
  PROVE  Sound'
<1>1. UNCHANGED <<online, away, append>>
  BY DEF BuyingNext, present, mails
<1>2. DOMAIN store = Players
  BY DEF Sound, Shape
<1>3. CASE OpenStore(p)
  <2>1. /\ p \in online /\ UNCHANGED <<crossed, mailing>>
        /\ \/ deal' = TradeEnded(p) /\ (store' = store \/ store' = [store EXCEPT ![p] = "buying"])
           \/ deal' = deal /\ store' = store
    BY <1>3 DEF OpenStore
  <2>2. /\ DOMAIN store' = Players /\ \A q \in Players \ {p} : store'[q] = store[q]
        /\ deal' = TradeEnded(p) \/ (deal' = deal /\ store' = store)
    BY <1>2, <2>1
  <2> QED
    BY <1>1, <2>1, <2>2, ShopOpens, CalmStep
<1>4. CASE CloseStore(p)
  <2>1. store' = [store EXCEPT ![p] = "none"] /\ UNCHANGED <<deal, crossed, mailing>>
    BY <1>4 DEF CloseStore, trades
  <2>2. DOMAIN store' = Players /\ \A q \in Players : store'[q] # "none" => store[q] # "none"
    BY <1>2, <2>1
  <2> QED
    BY <1>1, <2>1, <2>2, CalmStep
<1>5. CASE Sell(p)
  <2>1. /\ \E o : store' = [store EXCEPT ![o] = "none"] \/ store' = [store EXCEPT ![o] = @]
        /\ UNCHANGED <<deal, crossed, mailing>>
    BY <1>5 DEF Sell, trades
  <2>2. DOMAIN store' = Players /\ \A q \in Players : store'[q] # "none" => store[q] # "none"
    BY <1>2, <2>1
  <2> QED
    BY <1>1, <2>1, <2>2, CalmStep
<1>6. CASE OpenStoreWindow(p) \/ StoreItemList(p)
  <2>1. UNCHANGED <<store, deal, crossed, mailing>>
    BY <1>6 DEF OpenStoreWindow, StoreItemList, trades
  <2> QED
    BY <1>1, <1>2, <2>1, CalmStep
<1> QED
  BY <1>3, <1>4, <1>5, <1>6 DEF BuyingNext

\* What is attached to a mail changes for one player, who is on the map or
\* has nothing attached afterwards.
LEMMA AttachStep ==
  ASSUME Sound, UNCHANGED <<online, away, deal, crossed, store>>, NEW p,
         DOMAIN append' = DOMAIN append,
         \A q \in Players \ {p} : append'[q] = append[q] /\ (q \in mailing' => q \in mailing),
         p \in Players => p \in online \/ (append'[p] = NoAppend /\ p \notin mailing')
  PROVE  Sound'
<1>1. Shape' /\ GoneBare'
  BY DEF Sound, Shape, GoneBare
<1>2. ~crossed => DealsRight'
  BY DealsKept DEF Sound
<1> QED
  BY <1>1, <1>2 DEF Sound

LEMMA DetachStep ==
  ASSUME Sound, UNCHANGED <<online, away, deal, crossed, store>>, NEW p, NEW flag, Detach(p, flag),
         flag = 0 \/ p \in online
  PROVE  Sound'
<1>1. append' = [append EXCEPT ![p] = Detached(@, flag)] /\ DOMAIN append = Players
  BY DEF Detach, Sound, Shape
<1>2. DOMAIN append' = DOMAIN append /\ \A q \in Players \ {p} : append'[q] = append[q]
  BY <1>1
<1>3. \A q \in Players \ {p} : q \in mailing' => q \in mailing
  BY DEF Detach
<1>4. ASSUME p \in Players, p \notin online
      PROVE  append'[p] = NoAppend /\ p \notin mailing'
  <2>1. append'[p] = NoAppend
    BY <1>1, <1>4 DEF Detached, NoAppend
  <2>2. append'[p].slot = 0 /\ append'[p].zeny = 0
    BY <2>1 DEF NoAppend
  <2> QED
    BY <2>1, <2>2 DEF Detach
<1> QED
  BY <1>2, <1>3, <1>4, AttachStep

LEMMA SendStep ==
  ASSUME Sound, UNCHANGED <<online, away, deal, crossed, store>>, NEW p, NEW q, SendMail(p, q)
  PROVE  Sound'
<1>1. /\ append' = [append EXCEPT ![p] = NoAppend] /\ mailing' = mailing \ {p}
      /\ DOMAIN append = Players
  BY DEF SendMail, Sound, Shape
<1>2. DOMAIN append' = DOMAIN append /\ \A r \in Players \ {p} : append'[r] = append[r]
  BY <1>1
<1>3. p \in Players => append'[p] = NoAppend
  BY <1>1
<1> QED
  BY <1>1, <1>2, <1>3, AttachStep

LEMMA MailStep ==
  ASSUME Sound, MailNext
  PROVE  Sound'
<1>1. UNCHANGED <<online, away>>
  BY DEF MailNext, present
<1>2. DOMAIN store = Players /\ DOMAIN append = Players
  BY DEF Sound, Shape
<1>3. ASSUME NEW p \in Players, SetAppend(p)
      PROVE  Sound'
  <2>1. /\ p \in online /\ mailing' = mailing \cup {p} /\ UNCHANGED <<deal, crossed, store>>
        /\ \/ \E n : append' = [append EXCEPT ![p].zeny = n]
           \/ \E t, n : append' = [append EXCEPT ![p].slot = t, ![p].amount = n]
    BY <1>3 DEF SetAppend, trades
  <2>2. DOMAIN append' = Players /\ \A q \in Players \ {p} : append'[q] = append[q]
    <3>1. CASE \E n : append' = [append EXCEPT ![p].zeny = n]
      BY <1>2, <3>1
    <3>2. CASE \E t, n : append' = [append EXCEPT ![p].slot = t, ![p].amount = n]
      <4>1. PICK t, n : append' = [append EXCEPT ![p].slot = t, ![p].amount = n]
        BY <3>2
      <4>2. PICK a : a = [append EXCEPT ![p].slot = t]
        OBVIOUS
      <4>3. append' = [a EXCEPT ![p].amount = n]
        BY <4>1, <4>2, Zenon
      <4>4. DOMAIN a = Players /\ \A q \in Players \ {p} : a[q] = append[q]
        BY <1>2, <4>2
      <4> QED
        BY <4>3, <4>4
    <3> QED
      BY <2>1, <3>1, <3>2
  <2> QED
    BY <1>1, <1>2, <2>1, <2>2, AttachStep
<1>4. ASSUME NEW p \in Players, MailWinOpen(p)
      PROVE  Sound'
  BY <1>1, <1>4, DetachStep DEF MailWinOpen, trades
<1>5. ASSUME NEW p \in Players, CheckMail(p)
      PROVE  Sound'
  <2>1. /\ UNCHANGED <<deal, crossed, store>>
        /\ \/ Detach(p, 0) \/ (\E q : SendMail(p, q)) \/ UNCHANGED <<append, mailing>>
    BY <1>5 DEF CheckMail, trades
  <2> QED
    BY <1>1, <1>2, <2>1, DetachStep, SendStep, CalmStep
<1>6. ASSUME NEW p \in Players, GetAppendReq(p) \/ DeleteReq(p)
      PROVE  Sound'
  <2>1. UNCHANGED <<deal, crossed, store, append, mailing>>
    BY <1>6 DEF GetAppendReq, DeleteReq, trades
  <2> QED
    BY <1>1, <1>2, <2>1, CalmStep
<1>7. CASE MapReceivesMail
  <2> DEFINE m == Head(down)
  <2>1. /\ UNCHANGED <<deal, crossed, store>>
        /\ TakeAttachment(m) \/ Checked(m) \/ SendRes(m)
    BY <1>7 DEF MapReceivesMail, trades
  <2>2. UNCHANGED <<append, mailing>> \/ SendMail(m.by, m.to) \/ Detach(m.by, 0)
    BY <2>1 DEF TakeAttachment, Checked, SendRes
  <2> QED
    BY <1>1, <1>2, <2>1, <2>2, DetachStep, SendStep, CalmStep
<1>8. CASE CharReceivesMail
  <2>1. UNCHANGED <<deal, crossed, store, append, mailing>>
    BY <1>8 DEF CharReceivesMail, trades
  <2> QED
    BY <1>1, <1>2, <2>1, CalmStep
<1> QED
  BY <1>3, <1>4, <1>5, <1>6, <1>7, <1>8 DEF MailNext

-----------------------------------------------------------------------------
(* Coming and going *)

LEMMA LeaveStep ==
  ASSUME Sound, NEW p \in Players, Closed(p),
         away' \subseteq Players \ online'
  PROVE  Sound'
<1>1. /\ online' = online \ {p} /\ deal' = TradeEnded(p) /\ crossed' = crossed
      /\ store' = [store EXCEPT ![p] = "none"] /\ Detach(p, 0)
  BY DEF Closed
<1>2. ShapeOfDeals(deal')
  BY <1>1, EndShape DEF Sound
<1>3. /\ append' = [append EXCEPT ![p] = NoAppend] /\ mailing' = mailing \ {p}
  <2>1. append' = [append EXCEPT ![p] = Detached(@, 0)] /\ DOMAIN append = Players
    BY <1>1 DEF Detach, Sound, Shape
  <2>2. \A a : Detached(a, 0) = NoAppend
    BY DEF Detached, NoAppend
  <2>3. append'[p] = NoAppend
    BY <2>1, <2>2
  <2>4. append'[p].slot = 0 /\ append'[p].zeny = 0
    BY <2>3 DEF NoAppend
  <2> QED
    BY <1>1, <2>1, <2>2, <2>4 DEF Detach
<1>4. DOMAIN store = Players /\ DOMAIN append = Players /\ online \subseteq Players
  BY DEF Sound, Shape
<1>5. /\ DOMAIN store' = Players /\ DOMAIN append' = Players
      /\ \A q \in Players : store'[q] = IF q = p THEN "none" ELSE store[q]
      /\ \A q \in Players : append'[q] = IF q = p THEN NoAppend ELSE append[q]
  BY <1>1, <1>3, <1>4
<1>6. Shape'
  BY <1>1, <1>2, <1>4, <1>5 DEF Shape, ShapeOfDeals
<1>7. GoneBare'
  BY <1>1, <1>3, <1>4, <1>5 DEF Sound, GoneBare
<1>8. ~crossed => DealsRight'
  BY <1>1, <1>5, EndRight DEF Sound
<1> QED
  BY <1>1, <1>6, <1>7, <1>8 DEF Sound

LEMMA LogInStep ==
  ASSUME Sound, AuthsRight, NEW p \in Players, LogIn(p)
  PROVE  Sound'
<1>1. p \in away /\ p \notin online
  BY LogInRight DEF Sound, Shape
<1>2. /\ UNCHANGED <<online, store, crossed>> /\ away' = away \ {p} /\ mailing' = mailing \ {p}
      /\ deal' = [deal EXCEPT ![p] = NoDeal] /\ append' = [append EXCEPT ![p] = NoAppend]
  BY DEF LogIn
<1>3. ShapeOfDeals(deal') /\ \A q \in Players : deal'[q] = IF q = p THEN NoDeal ELSE deal[q]
  <2>1. Shape /\ IsDeal(NoDeal)
    BY NoDealIsDeal DEF Sound
  <2> QED
    BY <1>2, <2>1, Edited, Zenon
<1>4. DOMAIN append' = Players /\ \A q \in Players : append'[q] = IF q = p THEN NoAppend ELSE append[q]
  BY <1>2 DEF Sound, Shape
<1>5. Shape' /\ GoneBare'
  BY <1>2, <1>3, <1>4 DEF Sound, Shape, ShapeOfDeals, GoneBare
<1>6. ASSUME DealsRight
      PROVE  DealsRight'
  <2>1. deal[p] = NoDeal
    BY <1>1, <1>6 DEF DealsRight, GoneApart, Single
  <2>2. \A q \in Players : deal'[q] = deal[q]
    BY <1>3, <2>1
  <2> QED
    BY <1>2, <1>6, <2>2, DealsKept DEF Sound
<1> QED
  BY <1>2, <1>5, <1>6 DEF Sound

LEMMA ArriveStep ==
  ASSUME Sound, NEW p \in Players, Arrive(p)
  PROVE  Sound'
<1>1. /\ p \notin online \cup away /\ online' = online \cup {p}
      /\ UNCHANGED <<away, store, mailing, deal, crossed, append>>
  BY DEF Arrive, trades, mails
<1>2. Shape' /\ GoneBare'
  BY <1>1 DEF Sound, Shape, GoneBare
<1>3. ~crossed => DealsRight'
  BY <1>1, DealsKept DEF Sound
<1> QED
  BY <1>1, <1>2, <1>3 DEF Sound

LEMMA BreakStep ==
  ASSUME Sound, LinkBreaks
  PROVE  Sound'
<1>1. /\ online' = {} /\ away' = Players /\ mailing' = {}
      /\ deal' = [p \in Players |-> NoDeal] /\ store' = [p \in Players |-> "none"]
      /\ append' = [p \in Players |-> NoAppend]
  BY DEF LinkBreaks
<1>2. Shape' /\ GoneBare'
  BY <1>1, NoDealIsDeal DEF Shape, GoneBare
<1>3. DealsRight'
  BY <1>1, NoDealIsDeal DEF DealsRight, Single, Mutual, SeenStands, ShopsApart, GoneApart, Partner
<1> QED
  BY <1>2, <1>3 DEF Sound

LEMMA SoundStep ==
  ASSUME Sound, AuthsRight, [Next]_vars
  PROVE  Sound'
<1>1. ASSUME NEW p \in Players, Depart(p) \/ Quit(p)
      PROVE  Sound'
  <2>1. Closed(p) /\ p \in online /\ online' = online \ {p} /\ away' \subseteq away \cup {p}
    BY <1>1 DEF Depart, Quit, Closed
  <2>2. away' \subseteq Players \ online'
    BY <2>1 DEF Sound, Shape
  <2> QED
    BY <2>1, <2>2, LeaveStep
<1>2. ASSUME NEW p \in Players, TradeNext(p)
      PROVE  Sound'
  <2>1. TradeGround
    BY <1>2 DEF TradeNext, TradeGround, present, mails
  <2>2. CASE TradeCancel(p)
    BY <2>1, <2>2, TradeEnds DEF TradeCancel
  <2> QED
    BY <1>2, <2>1, <2>2, RequestStep, AckStep, AddStep, OkStep, CommitStep DEF TradeNext
<1>3. ASSUME UNCHANGED <<online, away, store, deal, crossed, append, mailing>>
      PROVE  Sound'
  BY <1>3, CalmStep DEF Sound, Shape
<1>4. ASSUME NEW p \in Players, LootNext(p) \/ BankNext(p) \/ Autosave(p) \/ AuthReq(p)
      PROVE  Sound'
  <2>1. UNCHANGED <<online, away, store, deal, crossed, append, mailing>>
    BY <1>4 DEF LootNext, BankNext, Autosave, AuthReq, BankDeposit, BankWithdraw, present, trades, mails
  <2> QED
    BY <1>3, <2>1
<1>5. CASE PartyNext \/ Auth \/ Saved \/ LinkReturns \/ UNCHANGED vars
  <2>1. UNCHANGED <<online, away, store, deal, crossed, append, mailing>>
    BY <1>5 DEF PartyNext, Auth, Saved, LinkReturns, vars, present, trades, mails
  <2> QED
    BY <1>3, <2>1
<1> QED
  BY <1>1, <1>2, <1>4, <1>5, VendingStep, BuyingStep, MailStep, LogInStep, ArriveStep, BreakStep
     DEF Next

LEMMA InitSound == Init => Sound /\ AuthsRight
<1> SUFFICES ASSUME Init PROVE Sound /\ AuthsRight
  OBVIOUS
<1>1. /\ online = Players /\ away = {} /\ mailing = {} /\ up = <<>> /\ down = <<>>
      /\ deal = [p \in Players |-> NoDeal] /\ store = [p \in Players |-> "none"]
      /\ append = [p \in Players |-> NoAppend]
  BY DEF Init, InitGoods, InitTrade, InitMail, InitLink
<1>2. Shape /\ GoneBare
  BY <1>1, NoDealIsDeal DEF Shape, GoneBare
<1>3. DealsRight
  BY <1>1, NoDealIsDeal DEF DealsRight, Single, Mutual, SeenStands, ShopsApart, GoneApart, Partner
<1>4. IsSeq(<<>>) /\ Len(<<>>) = 0
  BY EmptySeq DEF IsSeq
<1>5. AuthsRight
  BY <1>1, <1>4 DEF AuthsRight
<1> QED
  BY <1>2, <1>3, <1>5 DEF Sound

LEMMA SpecSound == Spec => []Sound
<1>1. Sound /\ AuthsRight /\ [Next]_vars => (Sound /\ AuthsRight)'
  BY SoundStep, AuthsStep
<1> QED
  BY <1>1, InitSound, PTL DEF Spec

-----------------------------------------------------------------------------
(* What follows *)

\* In every state of the exchange, partners are each other's: no handler of
\* trade.c, and nothing that ends a trade from outside (a shop that opens, a
\* player who leaves), updates one side only, unless there was a second
\* invitation.
THEOREM SpecPartnersMutual == Spec => []PartnersMutual
<1>1. Sound => PartnersMutual
  BY DEF Sound, DealsRight, Mutual, PartnersMutual
<1> QED
  BY <1>1, SpecSound, PTL

\* A shop and a trade are never open at once: whichever comes second, a late
\* acceptance or a shop that opens late, ends or refuses the other.
THEOREM SpecNoDealInStore == Spec => []NoDealInStore
<1>1. Sound => NoDealInStore
  BY DEF Sound, DealsRight, ShopsApart, Single, NoDealInStore, NoDeal
<1> QED
  BY <1>1, SpecSound, PTL

\* Whoever leaves the map, by a warp, by logging out or because the char
\* server is lost, leaves no shop, no trade and nothing attached behind, and
\* nobody who believes to be trading with him.
THEOREM SpecGoneLeavesNothing == Spec => []GoneLeavesNothing
<1>1. ASSUME Sound, NEW p \in Players \ online
      PROVE  /\ store[p] = "none"
             /\ Detached(append[p], 0) = append[p] /\ p \notin mailing
             /\ crossed \/ (deal[p] = NoDeal /\ \A q \in Players : Partner(q) # p)
  <2>1. store[p] = "none" /\ append[p] = NoAppend /\ p \notin mailing
    BY <1>1 DEF Sound, GoneBare
  <2>2. Detached(NoAppend, 0) = NoAppend
    BY DEF Detached, NoAppend
  <2>3. ASSUME ~crossed
        PROVE  deal[p] = NoDeal /\ \A q \in Players : Partner(q) # p
    <3>1. Single /\ Mutual /\ Partner(p) = None /\ p # None
      BY <1>1, <2>3, NoneAssumption DEF Sound, DealsRight, GoneApart
    <3>2. deal[p] = NoDeal
      BY <3>1 DEF Single
    <3>3. ASSUME NEW q \in Players, Partner(q) = p
          PROVE  FALSE
      BY <3>1, <3>3, NoneAssumption DEF Mutual
    <3> QED
      BY <3>2, <3>3
  <2> QED
    BY <2>1, <2>2, <2>3
<1>2. Sound => GoneLeavesNothing
  BY <1>1 DEF GoneLeavesNothing
<1> QED
  BY <1>2, SpecSound, PTL

=============================================================================
