---------------------------- MODULE Party_proofs ----------------------------
(***************************************************************************)
(* Proofs about the parties of the exchange, for any number of players,    *)
(* parties and seats, and any load of the link: no copy of a party refers  *)
(* to a session that has ended or is in another party (NoDangling), and    *)
(* nobody waits for an answer for ever (RequestsEnd).                      *)
(***************************************************************************)
EXTENDS Exchange_proofs

-----------------------------------------------------------------------------
(* The inductive invariant *)

PartyTypes ==
  /\ founded \in 0..MaxParties
  /\ roll \in [Ids -> Lists] /\ copies \in [Ids -> Lists]
  /\ sd \in [Players -> Session]
  /\ DOMAIN record = Players

\* A message tells of a party that was founded; n is the number of those.
GoodUp(m, n) ==
  /\ m.op \in PartyOps =>
       m \in PartyRequest /\ m.party <= n /\ (m.op # "create" => m.party # 0)
  /\ m.op \in {"auth", "save"} => m.by \in Players
  /\ m.op = "save" => m.status.party \in 0..n

GoodDown(m, n) ==
  /\ m.op \in PartyAnswers =>
       /\ m.party \in {0} \cup Ids /\ m.party <= n /\ m.on \in BOOLEAN /\ m.list \in Lists
       /\ m.op # "created" => m.party # 0
       /\ m.op \in {"created", "added", "left", "moved", "led"} => m.by \in Players
       /\ m.op = "info" => m.list # Absent /\ \A i \in Seats : ~m.list[i].here
  /\ m.op = "authok" => m.by \in Players /\ m.party \in 0..n

Proper ==
  /\ IsSeq(up) /\ IsSeq(down)
  /\ \A i \in 1..Len(up) : GoodUp(up[i], founded)
  /\ \A i \in 1..Len(down) : GoodDown(down[i], founded)
  /\ \A g \in Ids : roll[g] # Absent => g <= founded
  /\ \A g \in Ids : \A i \in DOMAIN roll[g] : ~roll[g][i].here
  /\ \A p \in Players :
       sd[p].party <= founded /\ sd[p].invite <= founded /\ record[p].party \in 0..founded

\* Messages by which p enters a party, and the answers to them.
Entries        == {"create", "add", "created", "added"}
Entering(m, p) == m.op \in Entries /\ m.by = p

\* Whoever logs in has had the answers to what he asked for in his last session.
EntersFirst ==
  /\ \A i, j \in 1..Len(up) : i < j /\ up[i].op = "auth" => ~Entering(up[j], up[i].by)
  /\ \A i, j \in 1..Len(down) : i < j /\ down[i].op = "authok" => ~Entering(down[j], down[i].by)
  /\ \A i \in 1..Len(up), j \in 1..Len(down) : down[j].op = "authok" => ~Entering(up[i], down[j].by)

\* What makes the map server have a copy of party g, what ends it, and what
\* says that there is no such party.
Lists_(m, g) == m.op \in {"created", "info"} /\ m.party = g
Breaks(m, g) == m.op = "broken" /\ m.party = g
Denies(m, g) == m.op = "noinfo" /\ m.party = g
Asked(m, g)  == m.op = "reqinfo" /\ m.party = g

\* The last word about a party that is gone is that it is broken, and who asks
\* for it then finds no copy of it.
Ended ==
  /\ \A g \in Ids, i \in 1..Len(down) : Lists_(down[i], g) /\ roll[g] = Absent =>
       \E j \in 1..Len(down) : i < j /\ Breaks(down[j], g)
  /\ \A g \in Ids, i \in 1..Len(down) : Breaks(down[i], g) \/ Denies(down[i], g) =>
       /\ roll[g] = Absent
       /\ \A j \in 1..Len(down) : i < j => ~Lists_(down[j], g) /\ ~Breaks(down[j], g)
  /\ \A g \in Ids :
       /\ roll[g] = Absent /\ copies[g] # Absent
       /\ \/ \E i \in 1..Len(up) : Asked(up[i], g)
          \/ \E i \in 1..Len(down) : Denies(down[i], g)
       => \E j \in 1..Len(down) : Breaks(down[j], g)

Hurried(p) == <<p, "hurried">> \in odd

\* Who is not hurried enters one party at a time, and has none while he does.
OneEntry ==
  \A p \in Players : ~Hurried(p) =>
    /\ \A i, j \in 1..Len(up) : Entering(up[i], p) /\ Entering(up[j], p) => i = j
    /\ \A i, j \in 1..Len(down) : Entering(down[i], p) /\ Entering(down[j], p) => i = j
    /\ \A i \in 1..Len(up), j \in 1..Len(down) : ~(Entering(up[i], p) /\ Entering(down[j], p))
    /\ sd[p].party # 0 => /\ \A i \in 1..Len(up) : ~Entering(up[i], p)
                          /\ \A i \in 1..Len(down) : ~Entering(down[i], p)

\* NoDangling, of the entries of players.
Referred ==
  \A g \in Ids : \A i \in DOMAIN copies[g] :
    LET row == copies[g][i] IN
    row.here => row.who \in Players /\ (~Hurried(row.who) => row.who \notin away /\ sd[row.who].party = g)

\* Party g is gone, and the map server knows.
Over(g) ==
  /\ g <= founded /\ roll[g] = Absent /\ copies[g] = Absent
  /\ \A i \in 1..Len(down) : ~Lists_(down[i], g)

\* Who waits has a message under way, or waits for a party that is gone.
Waiting ==
  \A p \in Players \ away :
    /\ sd[p].creating => \/ \E i \in 1..Len(up) : up[i].op = "create" /\ up[i].by = p
                         \/ \E i \in 1..Len(down) : down[i].op = "created" /\ down[i].by = p
    /\ \A g \in Ids : sd[p].invite = g =>
         /\ copies[g] # Absent \/ Over(g)
         /\ \/ sd[p].window
            \/ Over(g)
            \/ \E i \in 1..Len(up) : up[i].op = "add" /\ up[i].by = p /\ up[i].party = g
            \/ \E i \in 1..Len(down) : down[i].op = "added" /\ down[i].by = p /\ down[i].party = g

PInv == PartyTypes /\ Proper /\ EntersFirst /\ Ended /\ OneEntry /\ Referred /\ Waiting

-----------------------------------------------------------------------------
(* What is taken from the link and put on it *)

\* t is s without its first k messages, and with those of a behind.
Moves(s, t, k, a) ==
  /\ Len(s) \in Nat /\ Len(t) \in Nat /\ Len(a) \in Nat /\ k \in Nat
  /\ IsSeq(t) /\ k <= Len(s)
  /\ Len(t) = Len(s) - k + Len(a)
  /\ \A i \in 1..(Len(s) - k) : t[i] = s[i + k]
  /\ \A i \in 1..Len(a) : t[Len(s) - k + i] = a[i]

LEMMA NoMessage == IsSeq(<<>>) /\ Len(<<>>) = 0
  BY EmptySeq DEF IsSeq

LEMMA TwoMessages ==
  ASSUME NEW m, NEW n
  PROVE  IsSeq(<<m, n>>) /\ Len(<<m, n>>) = 2 /\ <<m, n>>[1] = m /\ <<m, n>>[2] = n
<1>1. <<m, n>> \in Seq({m, n})
  OBVIOUS
<1> QED
  BY <1>1 DEF IsSeq

LEMMA MovesNot ==
  ASSUME NEW s, IsSeq(s)
  PROVE  Moves(s, s, 0, <<>>)
  BY NoMessage, SeqParts DEF Moves

LEMMA MovesTail ==
  ASSUME NEW s, IsSeq(s), s # <<>>
  PROVE  Moves(s, Tail(s), 1, <<>>) /\ Len(s) >= 1 /\ Head(s) = s[1]
  BY NoMessage, SeqParts DEF Moves

LEMMA MovesBehind ==
  ASSUME NEW s, IsSeq(s), NEW a, IsSeq(a)
  PROVE  Moves(s, s \o a, 0, a)
<1>1. Len(s) \in Nat /\ Len(a) \in Nat
  BY SeqParts
<1>2. /\ IsSeq(s \o a) /\ Len(s \o a) = Len(s) + Len(a)
      /\ \A i \in 1..Len(s) : (s \o a)[i] = s[i]
      /\ \A i \in 1..(Len(s) + Len(a)) : i > Len(s) => (s \o a)[i] = a[i - Len(s)]
  BY Joins
<1> DEFINE t == s \o a
<1>3. \A i \in 1..Len(a) : t[Len(s) - 0 + i] = a[i]
  <2> TAKE j \in 1..Len(a)
  <2>1. Len(s) + j \in 1..(Len(s) + Len(a)) /\ Len(s) + j > Len(s) /\ Len(s) + j - Len(s) = j
    BY <1>1
  <2>2. t[Len(s) + j] = a[j]
    BY <1>2, <2>1
  <2> QED
    BY <1>1, <2>2
<1> HIDE DEF t
<1>4. Len(t) = Len(s) - 0 + Len(a) /\ Len(t) \in Nat /\ \A i \in 1..(Len(s) - 0) : t[i] = s[i + 0]
  BY <1>1, <1>2 DEF t
<1>5. IsSeq(t)
  BY <1>2 DEF t
<1>6. Moves(s, t, 0, a)
  BY <1>1, <1>3, <1>4, <1>5 DEF Moves
<1> QED
  BY <1>6 DEF t

LEMMA MovesOne ==
  ASSUME NEW s, IsSeq(s), NEW m
  PROVE  Moves(s, Append(s, m), 0, <<m>>) /\ Moves(s, s \o <<m>>, 0, <<m>>)
<1>1. Append(s, m) = s \o <<m>>
  BY Appends
<1>2. Moves(s, s \o <<m>>, 0, <<m>>)
  BY OneMessage, MovesBehind
<1> QED
  BY <1>1, <1>2

\* Where the messages of t come from, and where those of s and a go.
View(s, t, k, a) ==
  /\ Len(s) \in Nat /\ Len(t) \in Nat /\ Len(a) \in Nat /\ k \in Nat
  /\ IsSeq(t) /\ k <= Len(s)
  /\ \A i \in 1..Len(t) :
       \/ i \in 1..(Len(s) - k) /\ i + k \in 1..Len(s) /\ t[i] = s[i + k]
       \/ i - (Len(s) - k) \in 1..Len(a) /\ t[i] = a[i - (Len(s) - k)]
  /\ \A i \in 1..Len(s) : i <= k \/ (i - k \in 1..Len(t) /\ t[i - k] = s[i])
  /\ \A i \in 1..Len(a) : Len(s) - k + i \in 1..Len(t) /\ t[Len(s) - k + i] = a[i]

LEMMA Comes ==
  ASSUME NEW s, NEW t, NEW k, NEW a, Moves(s, t, k, a)
  PROVE  View(s, t, k, a)
<1> USE DEF Moves
<1>1. ASSUME NEW i \in 1..Len(t)
      PROVE  \/ i \in 1..(Len(s) - k) /\ i + k \in 1..Len(s) /\ t[i] = s[i + k]
             \/ i - (Len(s) - k) \in 1..Len(a) /\ t[i] = a[i - (Len(s) - k)]
  <2>1. CASE i <= Len(s) - k
    BY <2>1
  <2>2. CASE i > Len(s) - k
    <3> DEFINE j == i - (Len(s) - k)
    <3>1. j \in 1..Len(a) /\ Len(s) - k + j = i
      BY <2>2
    <3> QED
      BY <3>1
  <2> QED
    BY <2>1, <2>2
<1>2. ASSUME NEW i \in 1..Len(s), ~(i <= k)
      PROVE  i - k \in 1..Len(t) /\ t[i - k] = s[i]
  <2>1. i - k \in 1..(Len(s) - k) /\ i - k + k = i /\ i - k \in 1..Len(t)
    BY <1>2
  <2> QED
    BY <2>1
<1>3. \A i \in 1..Len(a) : Len(s) - k + i \in 1..Len(t) /\ t[Len(s) - k + i] = a[i]
  OBVIOUS
<1> QED
  BY <1>1, <1>2, <1>3 DEF View

\* The messages of both directions in one step.
Flow(k, a, l, b) == Moves(up, up', k, a) /\ Moves(down, down', l, b)

LEMMA FlowFacts ==
  ASSUME NEW k, NEW a, NEW l, NEW b, Flow(k, a, l, b)
  PROVE  View(up, up', k, a) /\ View(down, down', l, b)
  BY Comes DEF Flow

\* The same without places.
Flows(s, t, k, a) ==
  /\ \A i \in 1..Len(s) : i <= k \/ \E j \in 1..Len(t) : t[j] = s[i]
  /\ \A i \in 1..Len(a) : \E j \in 1..Len(t) : t[j] = a[i]
  /\ \A i \in 1..Len(t) : \/ \E j \in 1..Len(s) : j > k /\ t[i] = s[j]
                          \/ \E j \in 1..Len(a) : t[i] = a[j]

LEMMA Survives ==
  ASSUME NEW s, NEW t, NEW k, NEW a, Moves(s, t, k, a)
  PROVE  Flows(s, t, k, a)
<1>1. View(s, t, k, a)
  BY Comes
<1>2. \A i \in 1..Len(s) : i <= k \/ \E j \in 1..Len(t) : t[j] = s[i]
  BY <1>1 DEF View
<1>3. \A i \in 1..Len(a) : \E j \in 1..Len(t) : t[j] = a[i]
  <2> TAKE i \in 1..Len(a)
  <2> DEFINE j == Len(s) - k + i
  <2>1. j \in 1..Len(t) /\ t[j] = a[i]
    BY <1>1 DEF View
  <2> QED
    BY <2>1
<1>4. \A i \in 1..Len(t) : \/ \E j \in 1..Len(s) : j > k /\ t[i] = s[j]
                           \/ \E j \in 1..Len(a) : t[i] = a[j]
  <2> TAKE i \in 1..Len(t)
  <2>1. CASE i \in 1..(Len(s) - k) /\ i + k \in 1..Len(s) /\ t[i] = s[i + k]
    <3>1. i + k > k
      BY <1>1, <2>1 DEF View
    <3> QED
      BY <2>1, <3>1
  <2> QED
    BY <1>1, <2>1 DEF View
<1> QED
  BY <1>2, <1>3, <1>4 DEF Flows

LEMMA FlowSets ==
  ASSUME NEW k, NEW a, NEW l, NEW b, Flow(k, a, l, b)
  PROVE  Flows(up, up', k, a) /\ Flows(down, down', l, b)
  BY Survives DEF Flow

-----------------------------------------------------------------------------
(* How the parts of the invariant are kept *)

LEMMA ProperKept ==
  ASSUME Proper, NEW k, NEW a, NEW l, NEW b, Flow(k, a, l, b),
         founded \in Nat, founded' \in Nat, founded <= founded',
         \A i \in 1..Len(a) : GoodUp(a[i], founded'),
         \A i \in 1..Len(b) : GoodDown(b[i], founded')
  PROVE  /\ IsSeq(up') /\ IsSeq(down')
         /\ \A i \in 1..Len(up') : GoodUp(up'[i], founded')
         /\ \A i \in 1..Len(down') : GoodDown(down'[i], founded')
<1>f. View(up, up', k, a) /\ View(down, down', l, b)
  BY FlowFacts
<1>1. ASSUME NEW m, GoodUp(m, founded)
      PROVE  GoodUp(m, founded')
  <2>1. m \in PartyRequest /\ m.party <= founded => m.party <= founded'
    BY DEF PartyRequest, Ids
  <2>2. m.status.party \in 0..founded => m.status.party \in 0..founded'
    OBVIOUS
  <2> QED
    BY <1>1, <2>1, <2>2 DEF GoodUp
<1>2. ASSUME NEW m, GoodDown(m, founded)
      PROVE  GoodDown(m, founded')
  <2>1. m.party \in {0} \cup Ids /\ m.party <= founded => m.party <= founded'
    BY DEF Ids
  <2>2. m.party \in 0..founded => m.party \in 0..founded'
    OBVIOUS
  <2> QED
    BY <1>2, <2>1, <2>2 DEF GoodDown
<1>3. ASSUME NEW i \in 1..Len(up')
      PROVE  GoodUp(up'[i], founded')
  <2>1. (\E j \in 1..Len(up) : up'[i] = up[j]) \/ \E j \in 1..Len(a) : up'[i] = a[j]
    BY <1>f DEF View
  <2> QED
    BY <1>1, <2>1 DEF Proper
<1>4. ASSUME NEW i \in 1..Len(down')
      PROVE  GoodDown(down'[i], founded')
  <2>1. (\E j \in 1..Len(down) : down'[i] = down[j]) \/ \E j \in 1..Len(b) : down'[i] = b[j]
    BY <1>f DEF View
  <2> QED
    BY <1>2, <2>1 DEF Proper
<1> QED
  BY <1>3, <1>4, <1>f DEF View

LEMMA EntersFirstKept ==
  ASSUME EntersFirst, NEW k, NEW a, NEW l, NEW b, Flow(k, a, l, b),
         \* who asks to enter is not being logged in
         \A i \in 1..Len(a) : a[i].op \in Entries =>
           /\ \A j \in 1..Len(up') : up'[j].op = "auth" => up'[j].by # a[i].by
           /\ \A j \in 1..Len(down') : down'[j].op = "authok" => down'[j].by # a[i].by,
         \A i \in 1..Len(b) : b[i].op \in Entries =>
           \A j \in 1..Len(down') : down'[j].op = "authok" => down'[j].by # b[i].by,
         \* who is logged in has no request under way
         \A i \in 1..Len(b) : b[i].op = "authok" => \A j \in 1..Len(up') : ~Entering(up'[j], b[i].by)
  PROVE  EntersFirst'
<1>f. View(up, up', k, a) /\ View(down, down', l, b)
  BY FlowFacts
<1>0. /\ Len(up) \in Nat /\ Len(down) \in Nat /\ k \in Nat /\ l \in Nat
      /\ Len(a) \in Nat /\ Len(b) \in Nat
  BY <1>f DEF View
<1>1. ASSUME NEW i \in 1..Len(up'), NEW j \in 1..Len(up'), i < j, up'[i].op = "auth",
             Entering(up'[j], up'[i].by)
      PROVE  FALSE
  <2>1. \/ j \in 1..(Len(up) - k) /\ j + k \in 1..Len(up) /\ up'[j] = up[j + k]
        \/ \E n \in 1..Len(a) : up'[j] = a[n]
    BY <1>f DEF View
  <2>2. CASE \E n \in 1..Len(a) : up'[j] = a[n]
    BY <1>1, <2>2 DEF Entering
  <2>3. CASE j \in 1..(Len(up) - k) /\ j + k \in 1..Len(up) /\ up'[j] = up[j + k]
    <3>1. i \in 1..(Len(up) - k) /\ i + k \in 1..Len(up) /\ up'[i] = up[i + k] /\ i + k < j + k
      <4>1. ~(i - (Len(up) - k) \in 1..Len(a))
        BY <1>0, <1>1, <2>3
      <4>2. i \in 1..(Len(up) - k) /\ i + k \in 1..Len(up) /\ up'[i] = up[i + k]
        BY <4>1, <1>f DEF View
      <4> QED
        BY <1>0, <1>1, <4>2
    <3> QED
      BY <1>1, <2>3, <3>1 DEF EntersFirst
  <2> QED
    BY <2>1, <2>2, <2>3
<1>2. ASSUME NEW i \in 1..Len(down'), NEW j \in 1..Len(down'), i < j, down'[i].op = "authok",
             Entering(down'[j], down'[i].by)
      PROVE  FALSE
  <2>1. \/ j \in 1..(Len(down) - l) /\ j + l \in 1..Len(down) /\ down'[j] = down[j + l]
        \/ \E n \in 1..Len(b) : down'[j] = b[n]
    BY <1>f DEF View
  <2>2. CASE \E n \in 1..Len(b) : down'[j] = b[n]
    BY <1>2, <2>2 DEF Entering
  <2>3. CASE j \in 1..(Len(down) - l) /\ j + l \in 1..Len(down) /\ down'[j] = down[j + l]
    <3>1. i \in 1..(Len(down) - l) /\ i + l \in 1..Len(down) /\ down'[i] = down[i + l] /\ i + l < j + l
      <4>1. ~(i - (Len(down) - l) \in 1..Len(b))
        BY <1>0, <1>2, <2>3
      <4>2. i \in 1..(Len(down) - l) /\ i + l \in 1..Len(down) /\ down'[i] = down[i + l]
        BY <4>1, <1>f DEF View
      <4> QED
        BY <1>0, <1>2, <4>2
    <3> QED
      BY <1>2, <2>3, <3>1 DEF EntersFirst
  <2> QED
    BY <2>1, <2>2, <2>3
<1>3. ASSUME NEW i \in 1..Len(up'), NEW j \in 1..Len(down'), down'[j].op = "authok",
             Entering(up'[i], down'[j].by)
      PROVE  FALSE
  <2>1. (\E n \in 1..Len(up) : up'[i] = up[n]) \/ \E n \in 1..Len(a) : up'[i] = a[n]
    BY <1>f DEF View
  <2>2. (\E n \in 1..Len(down) : down'[j] = down[n]) \/ \E n \in 1..Len(b) : down'[j] = b[n]
    BY <1>f DEF View
  <2>3. CASE \E n \in 1..Len(a) : up'[i] = a[n]
    BY <1>3, <2>3 DEF Entering
  <2>4. CASE \E n \in 1..Len(b) : down'[j] = b[n]
    BY <1>3, <2>4
  <2> QED
    BY <1>3, <2>1, <2>2, <2>3, <2>4 DEF EntersFirst
<1> QED
  BY <1>1, <1>2, <1>3 DEF EntersFirst

\* What a step does to the parties that are gone, in terms of what it takes
\* from the link and puts on it.
EndsWell(k, a, l, b) ==
  /\ l \in {0, 1}
  /\ \A g \in Ids :
       /\ roll'[g] = Absent /\ roll[g] # Absent =>
            \E i \in 1..Len(b) : Breaks(b[i], g) /\ \A j \in 1..Len(b) : ~Lists_(b[j], g)
       /\ roll'[g] # Absent /\ roll[g] = Absent => g > founded
       /\ \A i \in 1..Len(b) :
            /\ Lists_(b[i], g) => roll'[g] # Absent
            /\ Breaks(b[i], g) => /\ roll'[g] = Absent /\ roll[g] # Absent
                                  /\ \A j \in 1..Len(b) : i < j => ~Lists_(b[j], g) /\ ~Breaks(b[j], g)
            /\ Denies(b[i], g) => /\ roll'[g] = Absent /\ roll[g] = Absent
                                  /\ \E j \in 1..Len(up) : Asked(up[j], g)
                                  /\ \A j \in 1..Len(b) : i < j => ~Lists_(b[j], g) /\ ~Breaks(b[j], g)
       /\ \A i \in 1..Len(a) : Asked(a[i], g) => copies'[g] = Absent
       /\ copies'[g] # Absent /\ copies[g] = Absent => l = 1 /\ Lists_(down[1], g)
       /\ copies'[g] = Absent /\ copies[g] # Absent => l = 1 /\ Breaks(down[1], g)
       /\ l = 1 /\ Breaks(down[1], g) => copies'[g] = Absent

LEMMA EndedKept ==
  ASSUME Proper, founded \in Nat, Ended, NEW k, NEW a, NEW l, NEW b,
         Flow(k, a, l, b), EndsWell(k, a, l, b)
  PROVE  Ended'
<1>f. View(up, up', k, a) /\ View(down, down', l, b)
  BY FlowFacts
<1>0. /\ Len(up) \in Nat /\ Len(down) \in Nat /\ k \in Nat /\ l \in {0, 1}
      /\ Len(a) \in Nat /\ Len(b) \in Nat
  BY <1>f DEF EndsWell, View
<1>a. ASSUME NEW g \in Ids, NEW i \in 1..Len(down), Lists_(down[i], g) \/ Breaks(down[i], g) \/ Denies(down[i], g)
      PROVE  g <= founded
  BY <1>a DEF Proper, GoodDown, PartyAnswers, Lists_, Breaks, Denies
<1>b. ASSUME NEW g \in Ids, NEW i \in 1..Len(up), Asked(up[i], g)
      PROVE  g <= founded
  BY <1>b DEF Proper, GoodUp, PartyOps, Asked
<1>1. ASSUME NEW g \in Ids, NEW i \in 1..Len(down'), Lists_(down'[i], g), roll'[g] = Absent
      PROVE  \E j \in 1..Len(down') : i < j /\ Breaks(down'[j], g)
  <2>1. ~ \E n \in 1..Len(b) : down'[i] = b[n]
    BY <1>1 DEF EndsWell
  <2>2. i \in 1..(Len(down) - l) /\ i + l \in 1..Len(down) /\ down'[i] = down[i + l]
    BY <2>1, <1>f DEF View
  <2>3. CASE roll[g] = Absent
    <3>1. PICK j \in 1..Len(down) : i + l < j /\ Breaks(down[j], g)
      BY <1>1, <2>2, <2>3 DEF Ended
    <3>2. j - l \in 1..Len(down') /\ down'[j - l] = down[j] /\ i < j - l
      <4>1. ~(j <= l)
        BY <1>0, <2>2, <3>1
      <4>2. i < j - l
        BY <1>0, <2>2, <3>1
      <4> QED
        BY <4>1, <4>2, <1>f DEF View
    <3> QED
      BY <3>1, <3>2
  <2>4. CASE roll[g] # Absent
    <3>1. PICK n \in 1..Len(b) : Breaks(b[n], g)
      BY <1>1, <2>4 DEF EndsWell
    <3> DEFINE j == Len(down) - l + n
    <3>2. j \in 1..Len(down') /\ down'[j] = b[n]
      BY <1>f DEF View
    <3>3. i < j
      BY <1>0, <2>2
    <3> QED
      BY <3>1, <3>2, <3>3
  <2> QED
    BY <2>3, <2>4
<1>2. ASSUME NEW g \in Ids, NEW i \in 1..Len(down'), Breaks(down'[i], g) \/ Denies(down'[i], g)
      PROVE  /\ roll'[g] = Absent
             /\ \A j \in 1..Len(down') : i < j => ~Lists_(down'[j], g) /\ ~Breaks(down'[j], g)
  <2>1. CASE i \in 1..(Len(down) - l) /\ i + l \in 1..Len(down) /\ down'[i] = down[i + l]
    <3>1. /\ roll[g] = Absent
          /\ \A j \in 1..Len(down) : i + l < j => ~Lists_(down[j], g) /\ ~Breaks(down[j], g)
      BY <1>2, <2>1 DEF Ended
    <3>2. g <= founded
      BY <1>2, <1>a, <2>1
    <3>3. roll'[g] = Absent
      BY <3>1, <3>2 DEF EndsWell, Ids
    <3>4. ASSUME NEW j \in 1..Len(down'), i < j
          PROVE  ~Lists_(down'[j], g) /\ ~Breaks(down'[j], g)
      <4>1. CASE \E n \in 1..Len(b) : down'[j] = b[n]
        BY <3>1, <3>3, <4>1 DEF EndsWell
      <4>2. CASE j \in 1..(Len(down) - l) /\ j + l \in 1..Len(down) /\ down'[j] = down[j + l]
        <5>1. i + l < j + l
          BY <1>0, <2>1, <3>4
        <5> QED
          BY <3>1, <4>2, <5>1
      <4> QED
        BY <4>1, <4>2, <1>f DEF View
    <3> QED
      BY <3>3, <3>4
  <2>2. CASE i - (Len(down) - l) \in 1..Len(b) /\ down'[i] = b[i - (Len(down) - l)]
    <3> DEFINE n == i - (Len(down) - l)
    <3>1. /\ roll'[g] = Absent
          /\ \A j \in 1..Len(b) : n < j => ~Lists_(b[j], g) /\ ~Breaks(b[j], g)
      BY <1>2, <2>2 DEF EndsWell
    <3>2. ASSUME NEW j \in 1..Len(down'), i < j
          PROVE  ~Lists_(down'[j], g) /\ ~Breaks(down'[j], g)
      <4>1. ~(j \in 1..(Len(down) - l))
        BY <1>0, <2>2, <3>2
      <4>2. j - (Len(down) - l) \in 1..Len(b) /\ down'[j] = b[j - (Len(down) - l)]
        BY <4>1, <1>f DEF View
      <4>3. n < j - (Len(down) - l)
        BY <1>0, <2>2, <3>2
      <4> QED
        BY <3>1, <4>2, <4>3
    <3> QED
      BY <3>1, <3>2
  <2> QED
    BY <2>1, <2>2, <1>f DEF View
<1>3. ASSUME NEW g \in Ids, roll'[g] = Absent, copies'[g] # Absent,
             \/ \E i \in 1..Len(up') : Asked(up'[i], g)
             \/ \E i \in 1..Len(down') : Denies(down'[i], g)
      PROVE  \E j \in 1..Len(down') : Breaks(down'[j], g)
  <2>1. CASE roll[g] # Absent
    <3>1. PICK n \in 1..Len(b) : Breaks(b[n], g)
      BY <1>3, <2>1 DEF EndsWell
    <3> QED
      BY <3>1, <1>f DEF View
  <2>2. CASE roll[g] = Absent
    <3>1. \/ \E i \in 1..Len(up) : Asked(up[i], g)
          \/ \E i \in 1..Len(down) : Denies(down[i], g)
      <4>1. CASE \E i \in 1..Len(up') : Asked(up'[i], g)
        <5>1. ~ \E n \in 1..Len(a) : Asked(a[n], g)
          BY <1>3 DEF EndsWell
        <5> QED
          BY <4>1, <5>1, <1>f DEF View
      <4>2. CASE \E i \in 1..Len(down') : Denies(down'[i], g)
        <5>1. \A n \in 1..Len(b) : Denies(b[n], g) => \E i \in 1..Len(up) : Asked(up[i], g)
          BY DEF EndsWell
        <5> QED
          BY <4>2, <5>1, <1>f DEF View
      <4> QED
        BY <1>3, <4>1, <4>2
    <3>2. \E j \in 1..Len(down) : j > l /\ Breaks(down[j], g)
      <4>1. CASE copies[g] # Absent
        <5>1. PICK j \in 1..Len(down) : Breaks(down[j], g)
          BY <2>2, <3>1, <4>1 DEF Ended
        <5>2. ~(j = 1 /\ l = 1)
          BY <1>3, <5>1 DEF EndsWell
        <5> QED
          BY <1>0, <5>1, <5>2
      <4>2. CASE copies[g] = Absent
        <5>1. l = 1 /\ Lists_(down[1], g)
          BY <1>3, <4>2 DEF EndsWell
        <5>2. 1 \in 1..Len(down)
          BY <1>0, <5>1 DEF Flow, Moves
        <5>3. PICK j \in 1..Len(down) : 1 < j /\ Breaks(down[j], g)
          BY <2>2, <5>1, <5>2 DEF Ended
        <5> QED
          BY <5>1, <5>3
      <4> QED
        BY <4>1, <4>2
    <3>3. PICK j \in 1..Len(down) : j > l /\ Breaks(down[j], g)
      BY <3>2
    <3>4. ~(j <= l)
      BY <1>0, <3>3
    <3> QED
      BY <3>3, <3>4, <1>f DEF View
  <2> QED
    BY <2>1, <2>2
<1> QED
  BY <1>1, <1>2, <1>3 DEF Ended

LEMMA OneEntryKept ==
  ASSUME OneEntry, NEW k, NEW a, NEW l, NEW b, Flow(k, a, l, b), odd \subseteq odd',
         \* who asks to enter waits for nothing, or is hurried
         \A p \in Players : ~Hurried(p)' =>
           \A i \in 1..Len(a) : Entering(a[i], p) =>
             /\ \A j \in 1..Len(up) : ~Entering(up[j], p)
             /\ \A j \in 1..Len(down) : ~Entering(down[j], p)
             /\ Len(a) = 1 /\ Len(b) = 0 /\ sd'[p].party = 0,
         \* who is answered has asked
         \A p \in Players : \A i \in 1..Len(b) : Entering(b[i], p) =>
           /\ k = 1 /\ Entering(up[1], p)
           /\ \A j \in 1..Len(b) : Entering(b[j], p) => i = j,
         \* who gets a party has been answered
         \A p \in Players : ~Hurried(p)' /\ sd'[p].party # 0 =>
           \/ sd[p].party # 0
           \/ /\ \A i \in 1..Len(up') : ~Entering(up'[i], p)
              /\ \A i \in 1..Len(down') : ~Entering(down'[i], p)
  PROVE  OneEntry'
<1>f. View(up, up', k, a) /\ View(down, down', l, b)
  BY FlowFacts
<1>1. SUFFICES ASSUME NEW p \in Players, ~Hurried(p)'
               PROVE  /\ \A i, j \in 1..Len(up') : Entering(up'[i], p) /\ Entering(up'[j], p) => i = j
                      /\ \A i, j \in 1..Len(down') : Entering(down'[i], p) /\ Entering(down'[j], p) => i = j
                      /\ \A i \in 1..Len(up'), j \in 1..Len(down') :
                           ~(Entering(up'[i], p) /\ Entering(down'[j], p))
                      /\ sd'[p].party # 0 => /\ \A i \in 1..Len(up') : ~Entering(up'[i], p)
                                             /\ \A i \in 1..Len(down') : ~Entering(down'[i], p)
  BY DEF OneEntry
<1>2. ~Hurried(p)
  BY <1>1 DEF Hurried
<1>3. /\ \A i, j \in 1..Len(up) : Entering(up[i], p) /\ Entering(up[j], p) => i = j
      /\ \A i, j \in 1..Len(down) : Entering(down[i], p) /\ Entering(down[j], p) => i = j
      /\ \A i \in 1..Len(up), j \in 1..Len(down) : ~(Entering(up[i], p) /\ Entering(down[j], p))
      /\ sd[p].party # 0 => /\ \A i \in 1..Len(up) : ~Entering(up[i], p)
                            /\ \A i \in 1..Len(down) : ~Entering(down[i], p)
  BY <1>2 DEF OneEntry
<1>4. CASE \E n \in 1..Len(a) : Entering(a[n], p)
  <2>1. /\ \A j \in 1..Len(up) : ~Entering(up[j], p)
        /\ \A j \in 1..Len(down) : ~Entering(down[j], p)
        /\ Len(a) = 1 /\ Len(b) = 0 /\ sd'[p].party = 0
    BY <1>1, <1>4
  <2>2. \A j \in 1..Len(down') : ~Entering(down'[j], p)
    BY <1>f, <2>1 DEF View
  <2>3. \A i \in 1..Len(up') : Entering(up'[i], p) => i - (Len(up) - k) = 1
    BY <1>f, <2>1 DEF View
  <2>4. \A i, j \in 1..Len(up') : Entering(up'[i], p) /\ Entering(up'[j], p) => i = j
    BY <1>f, <2>3 DEF View
  <2> QED
    BY <2>1, <2>2, <2>4
<1>5. CASE /\ ~ \E n \in 1..Len(a) : Entering(a[n], p)
           /\ \E n \in 1..Len(b) : Entering(b[n], p)
  <2>1. PICK n \in 1..Len(b) : Entering(b[n], p)
    BY <1>5
  <2>2. k = 1 /\ Entering(up[1], p) /\ \A j \in 1..Len(b) : Entering(b[j], p) => n = j
    BY <2>1
  <2>3. 1 \in 1..Len(up)
    BY <1>f, <2>2 DEF View
  <2>4. /\ \A j \in 1..Len(down) : ~Entering(down[j], p)
        /\ \A j \in 1..Len(up) : Entering(up[j], p) => j = 1
        /\ sd[p].party = 0
    BY <1>3, <2>2, <2>3
  <2>5. \A i \in 1..Len(up') : ~Entering(up'[i], p)
    <3> TAKE i \in 1..Len(up')
    <3>1. CASE i \in 1..(Len(up) - k) /\ i + k \in 1..Len(up) /\ up'[i] = up[i + k]
      <4>1. i + k # 1
        BY <2>2, <3>1
      <4> QED
        BY <2>4, <3>1, <4>1
    <3>2. CASE \E j \in 1..Len(a) : up'[i] = a[j]
      BY <1>5, <3>2
    <3> QED
      BY <1>f, <3>1, <3>2 DEF View
  <2>6. \A i \in 1..Len(down') : Entering(down'[i], p) => i - (Len(down) - l) = n
    <3> TAKE i \in 1..Len(down')
    <3>1. CASE i + l \in 1..Len(down) /\ down'[i] = down[i + l]
      BY <2>4, <3>1
    <3>2. CASE i - (Len(down) - l) \in 1..Len(b) /\ down'[i] = b[i - (Len(down) - l)]
      BY <2>2, <3>2
    <3> QED
      BY <1>f, <3>1, <3>2 DEF View
  <2>7. \A i, j \in 1..Len(down') : Entering(down'[i], p) /\ Entering(down'[j], p) => i = j
    BY <1>f, <2>6 DEF View
  <2>8. sd'[p].party # 0 => \A i \in 1..Len(down') : ~Entering(down'[i], p)
    BY <1>1, <2>4
  <2> QED
    BY <2>5, <2>7, <2>8
<1>6. CASE /\ ~ \E n \in 1..Len(a) : Entering(a[n], p)
           /\ ~ \E n \in 1..Len(b) : Entering(b[n], p)
  <2>1. \A i \in 1..Len(up') : Entering(up'[i], p) =>
          i + k \in 1..Len(up) /\ up'[i] = up[i + k]
    BY <1>f, <1>6 DEF View
  <2>2. \A i \in 1..Len(down') : Entering(down'[i], p) =>
          i + l \in 1..Len(down) /\ down'[i] = down[i + l]
    BY <1>f, <1>6 DEF View
  <2>3. k \in Nat /\ l \in Nat
    BY <1>f DEF View
  <2>4. \A i, j \in 1..Len(up') : Entering(up'[i], p) /\ Entering(up'[j], p) => i = j
    <3> TAKE i, j \in 1..Len(up')
    <3> HAVE Entering(up'[i], p) /\ Entering(up'[j], p)
    <3>1. i + k = j + k
      BY <1>3, <2>1
    <3> QED
      BY <2>3, <3>1
  <2>5. \A i, j \in 1..Len(down') : Entering(down'[i], p) /\ Entering(down'[j], p) => i = j
    <3> TAKE i, j \in 1..Len(down')
    <3> HAVE Entering(down'[i], p) /\ Entering(down'[j], p)
    <3>1. i + l = j + l
      BY <1>3, <2>2
    <3> QED
      BY <2>3, <3>1
  <2>6. \A i \in 1..Len(up'), j \in 1..Len(down') : ~(Entering(up'[i], p) /\ Entering(down'[j], p))
    BY <1>3, <2>1, <2>2
  <2>7. sd'[p].party # 0 => /\ \A i \in 1..Len(up') : ~Entering(up'[i], p)
                            /\ \A i \in 1..Len(down') : ~Entering(down'[i], p)
    BY <1>1, <1>3, <2>1, <2>2
  <2> QED
    BY <2>4, <2>5, <2>6, <2>7
<1> QED
  BY <1>4, <1>5, <1>6

LEMMA OverKept ==
  ASSUME Proper, founded \in Nat, founded' \in Nat, founded <= founded', Ended,
         NEW k, NEW a, NEW l, NEW b, Flow(k, a, l, b), EndsWell(k, a, l, b), NEW g \in Ids
  PROVE  /\ Over(g) => Over(g)'
         /\ copies[g] # Absent => copies'[g] # Absent \/ Over(g)'
<1>f. View(up, up', k, a) /\ View(down, down', l, b)
  BY FlowFacts
<1>0. founded \in Nat /\ g \in Nat /\ l \in {0, 1}
  BY DEF EndsWell, Ids
<1>1. ASSUME g <= founded, roll[g] = Absent, copies'[g] = Absent,
             \A i \in 1..Len(down) : i > l => ~Lists_(down[i], g)
      PROVE  Over(g)'
  <2>1. roll'[g] = Absent
    BY <1>0, <1>1 DEF EndsWell
  <2>2. \A i \in 1..Len(b) : ~Lists_(b[i], g)
    BY <2>1 DEF EndsWell
  <2>3. ASSUME NEW i \in 1..Len(down'), Lists_(down'[i], g)
        PROVE  FALSE
    <3>1. i + l \in 1..Len(down) /\ down'[i] = down[i + l] /\ i + l > l
      BY <1>0, <1>f, <2>2, <2>3 DEF View
    <3> QED
      BY <1>1, <2>3, <3>1
  <2> QED
    BY <1>0, <1>1, <2>1, <2>3 DEF Over
<1>2. ASSUME Over(g)
      PROVE  Over(g)'
  <2>1. g <= founded /\ roll[g] = Absent /\ copies[g] = Absent
        /\ \A i \in 1..Len(down) : ~Lists_(down[i], g)
    BY <1>2 DEF Over
  <2>2. copies'[g] = Absent
    <3>1. l = 1 => 1 \in 1..Len(down)
      BY <1>f DEF View
    <3> QED
      BY <2>1, <3>1 DEF EndsWell
  <2> QED
    BY <1>1, <2>1, <2>2
<1>3. ASSUME copies[g] # Absent, copies'[g] = Absent
      PROVE  Over(g)'
  <2>1. l = 1 /\ Breaks(down[1], g) /\ 1 \in 1..Len(down)
    BY <1>3, <1>f DEF EndsWell, View
  <2>2. roll[g] = Absent /\ \A i \in 1..Len(down) : 1 < i => ~Lists_(down[i], g)
    BY <2>1 DEF Ended
  <2>3. g <= founded
    BY <2>1 DEF Proper, GoodDown, PartyAnswers, Breaks
  <2> QED
    BY <1>1, <1>3, <2>1, <2>2, <2>3
<1> QED
  BY <1>2, <1>3

\* What a step does to those who wait.
WaitsWell(k, a, l, b) ==
  /\ k \in {0, 1}
  /\ \A p \in Players \ away' : sd'[p].creating =>
       \/ /\ p \notin away /\ sd[p].creating
          /\ ~(l = 1 /\ down[1].op = "created" /\ down[1].by = p)
       \/ \E i \in 1..Len(a) : a[i].op = "create" /\ a[i].by = p
  /\ k = 1 /\ up[1].op = "create" =>
       \E i \in 1..Len(b) : b[i].op = "created" /\ b[i].by = up[1].by
  /\ \A p \in Players \ away', g \in Ids : sd'[p].invite = g =>
       \/ p \notin away /\ sd[p].invite = g
       \/ copies'[g] # Absent
  /\ \A p \in Players \ away', g \in Ids : sd'[p].invite = g /\ ~sd'[p].window =>
       \/ /\ p \notin away /\ sd[p].invite = g /\ ~sd[p].window
          /\ \/ ~(l = 1 /\ down[1].op = "added" /\ down[1].by = p /\ down[1].party = g)
             \/ copies[g] = Absent
       \/ \E i \in 1..Len(a) : a[i].op = "add" /\ a[i].by = p /\ a[i].party = g
  /\ k = 1 /\ up[1].op = "add" =>
       \E i \in 1..Len(b) : b[i].op = "added" /\ b[i].by = up[1].by /\ b[i].party = up[1].party

LEMMA WaitingKept ==
  ASSUME Proper, founded \in Nat, founded' \in Nat, founded <= founded', Ended, Waiting,
         NEW k, NEW a, NEW l, NEW b,
         Flow(k, a, l, b), EndsWell(k, a, l, b), WaitsWell(k, a, l, b)
  PROVE  Waiting'
<1>f. Flows(up, up', k, a) /\ Flows(down, down', l, b)
  BY FlowSets
<1>0. l \in {0, 1} /\ k \in {0, 1}
  BY DEF EndsWell, WaitsWell
<1>1. SUFFICES ASSUME NEW p \in Players, p \notin away'
               PROVE  /\ sd'[p].creating =>
                           \/ \E i \in 1..Len(up') : up'[i].op = "create" /\ up'[i].by = p
                           \/ \E i \in 1..Len(down') : down'[i].op = "created" /\ down'[i].by = p
                      /\ \A g \in Ids : sd'[p].invite = g =>
                           /\ copies'[g] # Absent \/ Over(g)'
                           /\ \/ sd'[p].window
                              \/ Over(g)'
                              \/ \E i \in 1..Len(up') : up'[i].op = "add" /\ up'[i].by = p /\ up'[i].party = g
                              \/ \E i \in 1..Len(down') : down'[i].op = "added" /\ down'[i].by = p /\ down'[i].party = g
  BY DEF Waiting
<1>5. ASSUME sd'[p].creating
      PROVE  \/ \E i \in 1..Len(up') : up'[i].op = "create" /\ up'[i].by = p
             \/ \E i \in 1..Len(down') : down'[i].op = "created" /\ down'[i].by = p
  <2>1. CASE \E i \in 1..Len(a) : a[i].op = "create" /\ a[i].by = p
    BY <1>f, <2>1 DEF Flows
  <2>2. CASE p \notin away /\ sd[p].creating /\ ~(l = 1 /\ down[1].op = "created" /\ down[1].by = p)
    <3>1. \/ \E i \in 1..Len(up) : up[i].op = "create" /\ up[i].by = p
          \/ \E i \in 1..Len(down) : down[i].op = "created" /\ down[i].by = p
      BY <2>2 DEF Waiting
    <3>2. CASE \E i \in 1..Len(up) : up[i].op = "create" /\ up[i].by = p
      <4>1. PICK i \in 1..Len(up) : up[i].op = "create" /\ up[i].by = p
        BY <3>2
      <4>2. CASE i <= k
        <5>1. i = 1 /\ k = 1
          BY <1>0, <4>2
        <5>2. \E n \in 1..Len(b) : b[n].op = "created" /\ b[n].by = p
          BY <4>1, <5>1 DEF WaitsWell
        <5>3. \E n \in 1..Len(down') : down'[n].op = "created" /\ down'[n].by = p
          BY <1>f, <5>2 DEF Flows
        <5> QED
          BY <5>3
      <4>3. CASE ~(i <= k)
        BY <1>f, <4>1, <4>3 DEF Flows
      <4> QED
        BY <4>2, <4>3
    <3>3. CASE \E i \in 1..Len(down) : down[i].op = "created" /\ down[i].by = p
      <4>1. PICK i \in 1..Len(down) : down[i].op = "created" /\ down[i].by = p
        BY <3>3
      <4>2. ~(i <= l)
        BY <1>0, <2>2, <4>1
      <4> QED
        BY <1>f, <4>1, <4>2 DEF Flows
    <3> QED
      BY <3>1, <3>2, <3>3
  <2> QED
    BY <1>1, <1>5, <2>1, <2>2 DEF WaitsWell
<1>6. ASSUME NEW g \in Ids, sd'[p].invite = g
      PROVE  /\ copies'[g] # Absent \/ Over(g)'
             /\ \/ sd'[p].window
                \/ Over(g)'
                \/ \E i \in 1..Len(up') : up'[i].op = "add" /\ up'[i].by = p /\ up'[i].party = g
                \/ \E i \in 1..Len(down') : down'[i].op = "added" /\ down'[i].by = p /\ down'[i].party = g
  <2>1. (Over(g) => Over(g)') /\ (copies[g] # Absent => copies'[g] # Absent \/ Over(g)')
    BY OverKept
  <2>2. copies'[g] # Absent \/ Over(g)'
    BY <1>1, <1>6, <2>1 DEF WaitsWell, Waiting
  <2>3. CASE \E i \in 1..Len(a) : a[i].op = "add" /\ a[i].by = p /\ a[i].party = g
    <3>1. \E i \in 1..Len(up') : up'[i].op = "add" /\ up'[i].by = p /\ up'[i].party = g
      BY <1>f, <2>3 DEF Flows
    <3> QED
      BY <2>2, <3>1
  <2>4. CASE /\ p \notin away /\ ~sd[p].window /\ sd[p].invite = g
             /\ \/ ~(l = 1 /\ down[1].op = "added" /\ down[1].by = p /\ down[1].party = g)
                \/ copies[g] = Absent
    <3>1. /\ copies[g] # Absent \/ Over(g)
          /\ \/ Over(g)
             \/ \E i \in 1..Len(up) : up[i].op = "add" /\ up[i].by = p /\ up[i].party = g
             \/ \E i \in 1..Len(down) : down[i].op = "added" /\ down[i].by = p /\ down[i].party = g
      BY <2>4 DEF Waiting
    <3>3. ASSUME ~Over(g), NEW i \in 1..Len(up), up[i].op = "add", up[i].by = p, up[i].party = g
          PROVE  \/ \E j \in 1..Len(up') : up'[j].op = "add" /\ up'[j].by = p /\ up'[j].party = g
                 \/ \E j \in 1..Len(down') : down'[j].op = "added" /\ down'[j].by = p /\ down'[j].party = g
      <4>1. CASE i <= k
        <5>1. i = 1 /\ k = 1
          BY <1>0, <4>1
        <5>2. \E n \in 1..Len(b) : b[n].op = "added" /\ b[n].by = p /\ b[n].party = g
          BY <3>3, <5>1 DEF WaitsWell
        <5> QED
          BY <1>f, <5>2 DEF Flows
      <4>2. CASE ~(i <= k)
        BY <1>f, <3>3, <4>2 DEF Flows
      <4> QED
        BY <4>1, <4>2
    <3>4. ASSUME ~Over(g), NEW i \in 1..Len(down), down[i].op = "added", down[i].by = p, down[i].party = g
          PROVE  \E j \in 1..Len(down') : down'[j].op = "added" /\ down'[j].by = p /\ down'[j].party = g
      <4>1. ~(i <= l)
        BY <1>0, <2>4, <3>1, <3>4
      <4> QED
        BY <1>f, <3>4, <4>1 DEF Flows
    <3>5. \/ Over(g)'
          \/ \E i \in 1..Len(up') : up'[i].op = "add" /\ up'[i].by = p /\ up'[i].party = g
          \/ \E i \in 1..Len(down') : down'[i].op = "added" /\ down'[i].by = p /\ down'[i].party = g
      <4>1. CASE Over(g)
        BY <2>1, <4>1
      <4>2. CASE ~Over(g)
        BY <3>1, <3>3, <3>4, <4>2
      <4> QED
        BY <4>1, <4>2
    <3> QED
      BY <2>2, <3>5
  <2> QED
    BY <1>1, <1>6, <2>2, <2>3, <2>4 DEF WaitsWell
<1> QED
  BY <1>5, <1>6

-----------------------------------------------------------------------------
(* Kinds of steps *)

\* Messages of the mail, and saves.
Foreign(m) == m.op \notin PartyOps \cup PartyAnswers \cup {"auth", "authok"}

\* A step that is about something else.
LEMMA IdleStep ==
  ASSUME PInv, UNCHANGED <<roll, founded, copies, sd, odd, away>>,
         NEW k \in {0, 1}, NEW a, NEW l \in {0, 1}, NEW b, Flow(k, a, l, b),
         k = 1 => Foreign(up[1]), l = 1 => Foreign(down[1]),
         \A i \in 1..Len(a) : Foreign(a[i]) /\ GoodUp(a[i], founded),
         \A i \in 1..Len(b) : Foreign(b[i]),
         DOMAIN record' = Players, \A p \in Players : record'[p].party \in 0..founded
  PROVE  PInv'
<1> USE DEF PInv
<1>0. founded \in Nat /\ founded' = founded
  BY DEF PartyTypes
<1>1. PartyTypes'
  BY DEF PartyTypes
<1>2. \A m : Foreign(m) => /\ m.op \notin Entries /\ m.op \notin {"auth", "authok"}
                           /\ \A g : ~Lists_(m, g) /\ ~Breaks(m, g) /\ ~Denies(m, g) /\ ~Asked(m, g)
  BY DEF Foreign, Entries, PartyOps, PartyAnswers, Lists_, Breaks, Denies, Asked
<1>3. Proper'
  <2>1. \A i \in 1..Len(b) : GoodDown(b[i], founded)
    BY DEF Foreign, GoodDown
  <2>2. /\ IsSeq(up') /\ IsSeq(down')
        /\ \A i \in 1..Len(up') : GoodUp(up'[i], founded')
        /\ \A i \in 1..Len(down') : GoodDown(down'[i], founded')
    BY <1>0, <2>1, ProperKept
  <2> QED
    BY <1>0, <2>2 DEF Proper
<1>4. EntersFirst'
  BY <1>2, EntersFirstKept
<1>5. EndsWell(k, a, l, b)
  BY <1>2 DEF EndsWell
<1>6. Ended'
  BY <1>0, <1>5, EndedKept
<1>7. OneEntry'
  BY <1>2, OneEntryKept DEF Entering
<1>8. Referred'
  BY DEF Referred, Hurried
<1>9. WaitsWell(k, a, l, b)
  <2>1. k = 1 => up[1].op # "create" /\ up[1].op # "add"
    BY <1>2 DEF Entries
  <2>2. l = 1 => down[1].op # "created" /\ down[1].op # "added"
    BY <1>2 DEF Entries
  <2>3. \A p \in Players \ away', g \in Ids : sd'[p].invite = g => p \notin away /\ sd[p].invite = g
    OBVIOUS
  <2> QED
    BY <2>1, <2>2 DEF WaitsWell
<1>10. Waiting'
  BY <1>0, <1>5, <1>9, WaitingKept
<1> QED
  BY <1>1, <1>3, <1>4, <1>6, <1>7, <1>8, <1>10

\* A step of a player on the map, or of one who comes there: it asks for
\* something, or not.
LEMMA PlayerStep ==
  ASSUME PInv, UNCHANGED <<roll, founded, copies, away, record>>, odd \subseteq odd',
         down' = down, NEW m, up' = up \/ up' = Append(up, m),
         GoodUp(m, founded), ~(m.op \in {"reqinfo", "auth"}),
         \* who asks to enter a party
         m.op \in Entries /\ up' # up =>
           /\ \A j \in 1..Len(up) : up[j].op = "auth" => up[j].by # m.by
           /\ \A j \in 1..Len(down) : down[j].op = "authok" => down[j].by # m.by
           /\ m.by \in Players
           /\ Hurried(m.by)' \/ /\ \A j \in 1..Len(up) : ~Entering(up[j], m.by)
                                /\ \A j \in 1..Len(down) : ~Entering(down[j], m.by)
                                /\ sd'[m.by].party = 0,
         \* what sessions know
         sd' \in [Players -> Session],
         \A p \in Players :
           /\ sd'[p].party <= founded /\ sd'[p].invite <= founded
           /\ sd'[p].party # 0 => sd[p].party # 0
           /\ sd'[p].creating => sd[p].creating \/ (m.op = "create" /\ m.by = p /\ up' # up)
           /\ \A g \in Ids : sd'[p].invite = g => sd[p].invite = g \/ copies[g] # Absent
           /\ \A g \in Ids : sd'[p].invite = g /\ ~sd'[p].window =>
                \/ sd[p].invite = g /\ ~sd[p].window
                \/ m.op = "add" /\ m.by = p /\ m.party = g /\ up' # up,
         Referred'
  PROVE  PInv'
<1> USE DEF PInv
<1>0. founded \in Nat /\ founded' = founded /\ IsSeq(up) /\ IsSeq(down)
  BY DEF PartyTypes, Proper
<1>1. PartyTypes'
  BY DEF PartyTypes
<1> DEFINE a == IF up' = up THEN <<>> ELSE <<m>>
<1>2. /\ Flow(0, a, 0, <<>>) /\ Len(<<>>) = 0 /\ Len(a) \in {0, 1}
      /\ \A i \in 1..Len(a) : a[i] = m /\ up' # up /\ i = 1 /\ Len(a) = 1
      /\ up' # up => Len(a) = 1 /\ a[1] = m
  <2>1. Moves(down, down', 0, <<>>) /\ Len(<<>>) = 0
    BY <1>0, MovesNot, NoMessage
  <2>2. CASE up' = up
    <3>1. a = <<>>
      BY <2>2
    <3>2. Moves(up, up', 0, a)
      BY <1>0, <2>2, <3>1, MovesNot
    <3> QED
      BY <2>1, <2>2, <3>1, <3>2 DEF Flow
  <2>3. CASE up' # up
    <3>1. a = <<m>>
      BY <2>3
    <3>2. Moves(up, up', 0, a)
      <4>1. Moves(up, Append(up, m), 0, <<m>>)
        BY <1>0, MovesOne
      <4> QED
        BY <2>3, <3>1, <4>1
    <3> QED
      BY <2>1, <2>3, <3>1, <3>2, OneMessage DEF Flow
  <2> QED
    BY <2>2, <2>3
<1> HIDE DEF a
<1>f. Flows(up, up', 0, a) /\ Flows(down, down', 0, <<>>)
  BY <1>2, FlowSets
<1>3. Proper'
  <2>1. /\ IsSeq(up') /\ IsSeq(down')
        /\ \A i \in 1..Len(up') : GoodUp(up'[i], founded')
        /\ \A i \in 1..Len(down') : GoodDown(down'[i], founded')
    BY <1>0, <1>2, ProperKept
  <2> QED
    BY <1>0, <2>1 DEF Proper
<1>4. EntersFirst'
  <2>1. ASSUME NEW i \in 1..Len(a), a[i].op \in Entries
        PROVE  /\ \A j \in 1..Len(up') : up'[j].op = "auth" => up'[j].by # a[i].by
               /\ \A j \in 1..Len(down') : down'[j].op = "authok" => down'[j].by # a[i].by
    <3>1. a[i] = m /\ up' # up /\ \A n \in 1..Len(a) : a[n].op # "auth"
      BY <1>2
    <3>2. /\ \A j \in 1..Len(up) : up[j].op = "auth" => up[j].by # m.by
          /\ \A j \in 1..Len(down) : down[j].op = "authok" => down[j].by # m.by
      BY <2>1, <3>1
    <3>3. ASSUME NEW j \in 1..Len(up'), up'[j].op = "auth"
          PROVE  up'[j].by # m.by
      <4>1. \E n \in 1..Len(up) : up'[j] = up[n]
        <5>1. ~ \E n \in 1..Len(a) : up'[j] = a[n]
          BY <3>1, <3>3
        <5>2. \/ \E n \in 1..Len(up) : n > 0 /\ up'[j] = up[n]
              \/ \E n \in 1..Len(a) : up'[j] = a[n]
          BY <1>f DEF Flows
        <5> QED
          BY <5>1, <5>2
      <4> QED
        BY <3>2, <3>3, <4>1
    <3> QED
      BY <3>1, <3>2, <3>3
  <2> QED
    BY <1>2, <2>1, EntersFirstKept
<1>5. EndsWell(0, a, 0, <<>>)
  BY <1>2 DEF EndsWell, Asked
<1>6. Ended'
  BY <1>0, <1>2, <1>5, EndedKept
<1>7. OneEntry'
  <2>1. \A p \in Players : ~Hurried(p)' =>
           \A i \in 1..Len(a) : Entering(a[i], p) =>
             /\ \A j \in 1..Len(up) : ~Entering(up[j], p)
             /\ \A j \in 1..Len(down) : ~Entering(down[j], p)
             /\ Len(a) = 1 /\ Len(<<>>) = 0 /\ sd'[p].party = 0
    BY <1>2 DEF Entering
  <2> QED
    BY <1>2, <2>1, OneEntryKept
<1>8. WaitsWell(0, a, 0, <<>>)
  BY <1>2 DEF WaitsWell
<1>9. Waiting'
  BY <1>0, <1>2, <1>5, <1>8, WaitingKept
<1> QED
  BY <1>1, <1>3, <1>4, <1>6, <1>7, <1>9

\* A step of the map server that takes message m from the link, and asks for
\* somebody to leave, or not.
LEMMA MapStep ==
  ASSUME PInv, UNCHANGED <<roll, founded, away, record>>, odd \subseteq odd',
         down # <<>>, down' = Tail(down), NEW m, m = Head(down), m.op # "authok",
         NEW r, up' = up \/ up' = Append(up, r), GoodUp(r, founded), r.op \notin Entries \cup {"reqinfo", "auth"},
         copies' \in [Ids -> Lists], sd' \in [Players -> Session],
         \A g \in Ids : /\ copies'[g] # Absent /\ copies[g] = Absent => Lists_(m, g)
                        /\ copies'[g] = Absent /\ copies[g] # Absent => Breaks(m, g)
                        /\ Breaks(m, g) => copies'[g] = Absent,
         \A p \in Players :
           /\ sd'[p].party <= founded /\ sd'[p].invite <= founded
           /\ sd'[p].party # 0 => sd[p].party # 0 \/ Entering(m, p)
           /\ p \notin away /\ sd'[p].creating => sd[p].creating /\ ~(m.op = "created" /\ m.by = p)
           /\ sd'[p].invite # 0 => sd'[p].invite = sd[p].invite
           /\ p \notin away /\ sd'[p].invite # 0 /\ ~sd'[p].window =>
                /\ ~sd[p].window
                /\ ~(m.op = "added" /\ m.by = p /\ m.party = sd[p].invite) \/ copies[sd[p].invite] = Absent,
         Referred'
  PROVE  PInv'
<1> USE DEF PInv
<1>0. founded \in Nat /\ founded' = founded /\ IsSeq(up) /\ IsSeq(down)
  BY DEF PartyTypes, Proper
<1>1. PartyTypes'
  BY DEF PartyTypes
<1> DEFINE a == IF up' = up THEN <<>> ELSE <<r>>
<1>2. /\ Flow(0, a, 1, <<>>) /\ Len(<<>>) = 0 /\ down[1] = m /\ 1 \in 1..Len(down)
      /\ \A i \in 1..Len(a) : a[i] = r
  <2>1. Moves(down, down', 1, <<>>) /\ Len(<<>>) = 0 /\ down[1] = m /\ 1 \in 1..Len(down)
    <3>1. Moves(down, Tail(down), 1, <<>>) /\ Len(down) >= 1 /\ Head(down) = down[1]
      BY <1>0, MovesTail
    <3> QED
      BY <3>1, NoMessage DEF Moves
  <2>2. CASE up' = up
    <3>1. a = <<>>
      BY <2>2
    <3>2. Moves(up, up', 0, a)
      BY <1>0, <2>2, <3>1, MovesNot
    <3> QED
      BY <2>1, <3>1, <3>2 DEF Flow
  <2>3. CASE up' # up
    <3>1. a = <<r>>
      BY <2>3
    <3>2. Moves(up, up', 0, a)
      <4>1. Moves(up, Append(up, r), 0, <<r>>)
        BY <1>0, MovesOne
      <4> QED
        BY <2>3, <3>1, <4>1
    <3>3. \A i \in 1..Len(a) : a[i] = r
      BY <3>1, OneMessage
    <3> QED
      BY <2>1, <3>2, <3>3 DEF Flow
  <2> QED
    BY <2>2, <2>3
<1> HIDE DEF a
<1>f. Flows(up, up', 0, a) /\ Flows(down, down', 1, <<>>)
  BY <1>2, FlowSets
<1>3. Proper'
  <2>1. /\ IsSeq(up') /\ IsSeq(down')
        /\ \A i \in 1..Len(up') : GoodUp(up'[i], founded')
        /\ \A i \in 1..Len(down') : GoodDown(down'[i], founded')
    BY <1>0, <1>2, ProperKept
  <2> QED
    BY <1>0, <2>1 DEF Proper
<1>4. EntersFirst'
  BY <1>2, EntersFirstKept DEF Entries
<1>5. EndsWell(0, a, 1, <<>>)
  BY <1>2 DEF EndsWell, Asked
<1>6. Ended'
  BY <1>0, <1>2, <1>5, EndedKept
<1>7. OneEntry'
  <2>1. \A i \in 1..Len(a), p \in Players : ~Entering(a[i], p)
    BY <1>2 DEF Entering, Entries
  <2>2. ASSUME NEW p \in Players, ~Hurried(p)', sd'[p].party # 0, sd[p].party = 0
        PROVE  /\ \A i \in 1..Len(up') : ~Entering(up'[i], p)
               /\ \A i \in 1..Len(down') : ~Entering(down'[i], p)
    <3>1. Entering(down[1], p) /\ ~Hurried(p)
      BY <1>2, <2>2 DEF Hurried
    <3>2. /\ \A i \in 1..Len(up) : ~Entering(up[i], p)
          /\ \A i \in 1..Len(down) : i > 1 => ~Entering(down[i], p)
      BY <1>2, <3>1 DEF OneEntry
    <3>3. \A i \in 1..Len(up') : ~Entering(up'[i], p)
      <4> TAKE i \in 1..Len(up')
      <4>1. (\E j \in 1..Len(up) : up'[i] = up[j]) \/ \E j \in 1..Len(a) : up'[i] = a[j]
        BY <1>f DEF Flows
      <4> QED
        BY <2>1, <3>2, <4>1
    <3>4. \A i \in 1..Len(down') : ~Entering(down'[i], p)
      BY <1>f, <1>2, <3>2 DEF Flows
    <3> QED
      BY <3>3, <3>4
  <2> QED
    BY <1>2, <2>1, <2>2, OneEntryKept
<1>8. WaitsWell(0, a, 1, <<>>)
  <2>1. ASSUME NEW p \in Players \ away', sd'[p].creating
        PROVE  p \notin away /\ sd[p].creating /\ ~(down[1].op = "created" /\ down[1].by = p)
    BY <1>2, <2>1
  <2>2. ASSUME NEW p \in Players \ away', NEW g \in Ids, sd'[p].invite = g
        PROVE  p \notin away /\ sd[p].invite = g
    BY <2>2 DEF Ids
  <2>3. ASSUME NEW p \in Players \ away', NEW g \in Ids, sd'[p].invite = g, ~sd'[p].window
        PROVE  /\ p \notin away /\ sd[p].invite = g /\ ~sd[p].window
               /\ ~(down[1].op = "added" /\ down[1].by = p /\ down[1].party = g) \/ copies[g] = Absent
    <3>1. p \notin away /\ sd[p].invite = g /\ sd'[p].invite # 0
      BY <2>2, <2>3 DEF Ids
    <3> QED
      BY <1>2, <2>3, <3>1
  <2> QED
    BY <2>1, <2>2, <2>3 DEF WaitsWell
<1>9. Waiting'
  BY <1>0, <1>2, <1>5, <1>8, WaitingKept
<1> QED
  BY <1>1, <1>3, <1>4, <1>6, <1>7, <1>9

\* A step of the char server that takes message m from the link, and answers
\* with x, or with x and y, or not.
CharWell(m, x, y, b) ==
  /\ UNCHANGED <<copies, sd, odd, away>>
  /\ up # <<>> /\ up' = Tail(up) /\ m = Head(up) /\ m.op # "auth"
  /\ b \in {<<>>, <<x>>, <<x, y>>} /\ down' = down \o b
  /\ founded' \in 0..MaxParties /\ founded <= founded'
  /\ GoodDown(x, founded') /\ GoodDown(y, founded') /\ x.op # "authok" /\ y.op # "authok"
  /\ roll' \in [Ids -> Lists]
  /\ \A g \in Ids : /\ roll'[g] # Absent => g <= founded'
                    /\ \A i \in DOMAIN roll'[g] : ~roll'[g][i].here
  /\ DOMAIN record' = Players /\ \A p \in Players : record'[p].party \in 0..founded'
  \* what is answered
  /\ b # <<>> /\ x.op \in Entries => Entering(m, x.by)
  /\ y.op \notin Entries /\ \A g \in Ids : ~Denies(y, g) /\ ~Breaks(x, g)
  /\ m.op = "create" => b # <<>> /\ x.op = "created" /\ x.by = m.by
  /\ m.op = "add" => b # <<>> /\ x.op = "added" /\ x.by = m.by /\ x.party = m.party
  /\ \A g \in Ids :
       /\ roll'[g] = Absent /\ roll[g] # Absent => b = <<x, y>> /\ Breaks(y, g) /\ ~Lists_(x, g)
       /\ roll'[g] # Absent /\ roll[g] = Absent => g > founded
       /\ b # <<>> /\ Lists_(x, g) => roll'[g] # Absent
       /\ b = <<x, y>> /\ Lists_(y, g) => roll'[g] # Absent
       /\ b = <<x, y>> /\ Breaks(y, g) => roll'[g] = Absent /\ roll[g] # Absent
       /\ b # <<>> /\ Denies(x, g) => b = <<x>> /\ roll'[g] = Absent /\ roll[g] = Absent /\ Asked(m, g)

LEMMA CharStep ==
  ASSUME PInv, NEW m, NEW x, NEW y, NEW b, CharWell(m, x, y, b)
  PROVE  PInv'
<1> USE DEF PInv, CharWell
<1>0. founded \in Nat /\ founded' \in Nat /\ IsSeq(up) /\ IsSeq(down)
  BY DEF PartyTypes, Proper
<1>1. PartyTypes'
  BY DEF PartyTypes
<1>2. /\ Flow(1, <<>>, 0, b) /\ Len(<<>>) = 0 /\ up[1] = m /\ 1 \in 1..Len(up)
  <2>1. Moves(up, up', 1, <<>>) /\ Len(<<>>) = 0 /\ up[1] = m /\ 1 \in 1..Len(up)
    <3>1. Moves(up, Tail(up), 1, <<>>) /\ Len(up) >= 1 /\ Head(up) = up[1]
      BY <1>0, MovesTail
    <3> QED
      BY <3>1, NoMessage DEF Moves
  <2>2. IsSeq(b)
    BY NoMessage, OneMessage, TwoMessages
  <2>3. Moves(down, down \o b, 0, b)
    BY <1>0, <2>2, MovesBehind
  <2> QED
    BY <2>1, <2>3 DEF Flow
<1>3. /\ Len(b) \in {0, 1, 2}
      /\ Len(b) >= 1 => b # <<>> /\ b[1] = x
      /\ Len(b) = 2 => b = <<x, y>> /\ b[2] = y
      /\ b # <<>> => Len(b) >= 1
      /\ b = <<x, y>> => Len(b) = 2
      /\ b = <<x>> => Len(b) = 1
  <2>0. /\ Len(<<>>) = 0 /\ Len(<<x>>) = 1 /\ <<x>>[1] = x
        /\ Len(<<x, y>>) = 2 /\ <<x, y>>[1] = x /\ <<x, y>>[2] = y
    BY NoMessage, OneMessage, TwoMessages
  <2>1. CASE b = <<>>
    BY <2>0, <2>1
  <2>2. CASE b = <<x>>
    BY <2>0, <2>2
  <2>3. CASE b = <<x, y>>
    BY <2>0, <2>3
  <2> QED
    BY <2>1, <2>2, <2>3
<1>4. \A i \in 1..Len(b) : \/ i = 1 /\ b[i] = x /\ b # <<>>
                           \/ i = 2 /\ b[i] = y /\ b = <<x, y>>
  <2> TAKE i \in 1..Len(b)
  <2>1. (i = 1 /\ Len(b) >= 1) \/ (i = 2 /\ Len(b) = 2)
    BY <1>3
  <2> QED
    BY <1>3, <2>1
<1>f. Flows(up, up', 1, <<>>) /\ Flows(down, down', 0, b)
  BY <1>2, FlowSets
<1>5. Proper'
  <2>1. \A i \in 1..Len(b) : GoodDown(b[i], founded')
    BY <1>4
  <2>2. /\ IsSeq(up') /\ IsSeq(down')
        /\ \A i \in 1..Len(up') : GoodUp(up'[i], founded')
        /\ \A i \in 1..Len(down') : GoodDown(down'[i], founded')
    BY <1>0, <1>2, <2>1, ProperKept
  <2>3. ASSUME NEW p \in Players
        PROVE  sd'[p].party <= founded' /\ sd'[p].invite <= founded'
    <3>1. sd[p].party <= founded /\ sd[p].invite <= founded
      BY DEF Proper
    <3>2. sd[p].party \in Nat /\ sd[p].invite \in Nat
      BY DEF PartyTypes, Session, Ids
    <3> QED
      BY <1>0, <3>1, <3>2
  <2>4. \A g \in Ids : /\ roll'[g] # Absent => g <= founded'
                      /\ \A i \in DOMAIN roll'[g] : ~roll'[g][i].here
    OBVIOUS
  <2> QED
    BY <2>2, <2>3, <2>4 DEF Proper
<1>6. EntersFirst'
  <2>1. ASSUME NEW i \in 1..Len(b), b[i].op \in Entries, NEW j \in 1..Len(down'), down'[j].op = "authok"
        PROVE  down'[j].by # b[i].by
    <3>1. Entering(up[1], b[i].by)
      BY <1>2, <1>4, <2>1
    <3>2. ~ \E n \in 1..Len(b) : down'[j] = b[n]
      BY <1>4, <2>1
    <3>3. \E n \in 1..Len(down) : down'[j] = down[n]
      BY <1>f, <3>2 DEF Flows
    <3> QED
      BY <1>2, <2>1, <3>1, <3>3 DEF EntersFirst
  <2>2. \A i \in 1..Len(b) : b[i].op # "authok"
    BY <1>4
  <2> QED
    BY <1>2, <2>1, <2>2, EntersFirstKept
<1>7. EndsWell(1, <<>>, 0, b)
  <2> SUFFICES ASSUME NEW g \in Ids
               PROVE  /\ roll'[g] = Absent /\ roll[g] # Absent =>
                           \E i \in 1..Len(b) : Breaks(b[i], g) /\ \A j \in 1..Len(b) : ~Lists_(b[j], g)
                      /\ roll'[g] # Absent /\ roll[g] = Absent => g > founded
                      /\ \A i \in 1..Len(b) :
                           /\ Lists_(b[i], g) => roll'[g] # Absent
                           /\ Breaks(b[i], g) => /\ roll'[g] = Absent /\ roll[g] # Absent
                                                 /\ \A j \in 1..Len(b) : i < j => ~Lists_(b[j], g) /\ ~Breaks(b[j], g)
                           /\ Denies(b[i], g) => /\ roll'[g] = Absent /\ roll[g] = Absent
                                                 /\ \E j \in 1..Len(up) : Asked(up[j], g)
                                                 /\ \A j \in 1..Len(b) : i < j => ~Lists_(b[j], g) /\ ~Breaks(b[j], g)
    BY <1>2 DEF EndsWell
  <2>1. ASSUME roll'[g] = Absent, roll[g] # Absent
        PROVE  \E i \in 1..Len(b) : Breaks(b[i], g) /\ \A j \in 1..Len(b) : ~Lists_(b[j], g)
    <3>0. b = <<x, y>> /\ Breaks(y, g) /\ ~Lists_(x, g)
      BY <2>1
    <3>1. 2 \in 1..Len(b) /\ Breaks(b[2], g)
      <4>1. Len(b) = 2 /\ b[2] = y
        BY <1>3, <3>0
      <4> QED
        BY <3>0, <4>1
    <3>2. \A j \in 1..Len(b) : ~Lists_(b[j], g)
      BY <1>4, <3>0 DEF Lists_, Breaks
    <3> QED
      BY <3>1, <3>2
  <2>2. ASSUME NEW i \in 1..Len(b)
        PROVE  /\ Lists_(b[i], g) => roll'[g] # Absent
               /\ Breaks(b[i], g) => /\ roll'[g] = Absent /\ roll[g] # Absent
                                     /\ \A j \in 1..Len(b) : i < j => ~Lists_(b[j], g) /\ ~Breaks(b[j], g)
               /\ Denies(b[i], g) => /\ roll'[g] = Absent /\ roll[g] = Absent
                                     /\ \E j \in 1..Len(up) : Asked(up[j], g)
                                     /\ \A j \in 1..Len(b) : i < j => ~Lists_(b[j], g) /\ ~Breaks(b[j], g)
    <3>1. CASE i = 1 /\ b[i] = x /\ b # <<>>
      <4>1. Denies(x, g) => Len(b) = 1 /\ Asked(up[1], g)
        BY <1>2, <1>3, <3>1
      <4> QED
        BY <1>2, <3>1, <4>1
    <3>2. CASE i = 2 /\ b[i] = y /\ b = <<x, y>>
      <4>1. \A j \in 1..Len(b) : ~(i < j)
        BY <1>3, <3>2
      <4> QED
        BY <3>2, <4>1
    <3> QED
      BY <1>4, <3>1, <3>2
  <2> QED
    BY <2>1, <2>2
<1>8. Ended'
  BY <1>0, <1>2, <1>7, EndedKept
<1>9. OneEntry'
  <2>1. \A p \in Players : \A i \in 1..Len(b) : Entering(b[i], p) =>
           /\ Entering(up[1], p)
           /\ \A j \in 1..Len(b) : Entering(b[j], p) => i = j
    BY <1>2, <1>4 DEF Entering
  <2> QED
    BY <1>2, <2>1, OneEntryKept
<1>10. Referred'
  BY DEF Referred, Hurried
<1>11. WaitsWell(1, <<>>, 0, b)
  <2>1. up[1].op = "create" => \E i \in 1..Len(b) : b[i].op = "created" /\ b[i].by = up[1].by
    <3> HAVE up[1].op = "create"
    <3>1. 1 \in 1..Len(b) /\ b[1] = x
      BY <1>2, <1>3
    <3> QED
      BY <1>2, <3>1
  <2>2. up[1].op = "add" =>
          \E i \in 1..Len(b) : b[i].op = "added" /\ b[i].by = up[1].by /\ b[i].party = up[1].party
    <3> HAVE up[1].op = "add"
    <3>1. 1 \in 1..Len(b) /\ b[1] = x
      BY <1>2, <1>3
    <3> QED
      BY <1>2, <3>1
  <2> QED
    BY <2>1, <2>2 DEF WaitsWell
<1>12. Waiting'
  BY <1>0, <1>2, <1>7, <1>11, WaitingKept
<1> QED
  BY <1>1, <1>5, <1>6, <1>8, <1>9, <1>10, <1>12


-----------------------------------------------------------------------------
(* Steps about something else *)

LEMMA MovesOrNot ==
  ASSUME NEW s, IsSeq(s), NEW m, NEW t, t = s \/ t = Append(s, m) \/ t = s \o <<m>>
  PROVE  \E a : Moves(s, t, 0, a) /\ \A i \in 1..Len(a) : a[i] = m
<1>1. CASE t = s
  BY <1>1, MovesNot, NoMessage
<1>2. CASE t # s
  <2>1. Moves(s, t, 0, <<m>>)
    BY <1>2, MovesOne
  <2>2. \A i \in 1..Len(<<m>>) : <<m>>[i] = m
    BY OneMessage
  <2> QED
    BY <2>1, <2>2
<1> QED
  BY <1>1, <1>2

\* The map server sends a message that is no concern of the parties, and may
\* have had one.
LEMMA IdleAsking ==
  ASSUME PInv, UNCHANGED <<roll, founded, copies, sd, odd, away, record>>,
         NEW m, Foreign(m), GoodUp(m, founded), up' = up \/ up' = Append(up, m),
         \/ down' = down
         \/ down # <<>> /\ down' = Tail(down) /\ Foreign(Head(down))
  PROVE  PInv'
<1>1. IsSeq(up) /\ IsSeq(down)
  BY DEF PInv, Proper
<1>2. PICK a : Moves(up, up', 0, a) /\ \A i \in 1..Len(a) : a[i] = m
  BY <1>1, MovesOrNot
<1>3. PICK l \in {0, 1} : Moves(down, down', l, <<>>) /\ (l = 1 => Foreign(down[1]))
  <2>1. CASE down' = down
    BY <1>1, <2>1, MovesNot
  <2>2. CASE down # <<>> /\ down' = Tail(down) /\ Foreign(Head(down))
    BY <1>1, <2>2, MovesTail
  <2> QED
    BY <2>1, <2>2
<1>4. Flow(0, a, l, <<>>)
  BY <1>2, <1>3 DEF Flow
<1>5. DOMAIN record' = Players /\ \A p \in Players : record'[p].party \in 0..founded
  BY DEF PInv, PartyTypes, Proper
<1>6. \A i \in 1..Len(a) : Foreign(a[i]) /\ GoodUp(a[i], founded)
  BY <1>2
<1>7. \A i \in 1..Len(<<>>) : Foreign(<<>>[i])
  BY NoMessage
<1> QED
  BY <1>3, <1>4, <1>5, <1>6, <1>7, IdleStep

\* The char server has had a message that is no concern of the parties.
LEMMA IdleAnswering ==
  ASSUME PInv, UNCHANGED <<roll, founded, copies, sd, odd, away>>,
         up # <<>>, up' = Tail(up), Foreign(Head(up)),
         NEW m, Foreign(m), down' = down \/ down' = down \o <<m>>,
         DOMAIN record' = Players, \A p \in Players : record'[p].party \in 0..founded
  PROVE  PInv'
<1>1. IsSeq(up) /\ IsSeq(down)
  BY DEF PInv, Proper
<1>2. PICK b : Moves(down, down', 0, b) /\ \A i \in 1..Len(b) : b[i] = m
  BY <1>1, MovesOrNot
<1>3. Moves(up, up', 1, <<>>) /\ Foreign(up[1])
  BY <1>1, MovesTail
<1>4. Flow(1, <<>>, 0, b)
  BY <1>2, <1>3 DEF Flow
<1>5. \A i \in 1..Len(b) : Foreign(b[i])
  BY <1>2
<1>6. \A i \in 1..Len(<<>>) : Foreign(<<>>[i]) /\ GoodUp(<<>>[i], founded)
  BY NoMessage
<1> QED
  BY <1>3, <1>4, <1>5, <1>6, IdleStep

LEMMA Unrelated ==
  ASSUME NEW m, m.op \in MailOps \cup MailAnswers
  PROVE  Foreign(m) /\ \A n : GoodUp(m, n)
  BY DEF Foreign, GoodUp, MailOps, MailAnswers, PartyOps, PartyAnswers

LEMMA StillStep ==
  ASSUME PInv, UNCHANGED <<roll, founded, copies, sd, odd, away, record, up, down>>
  PROVE  PInv'
<1> DEFINE m == [op |-> "check"]
<1>1. m.op \in MailOps \cup MailAnswers
  BY DEF MailOps
<1> HIDE DEF m
<1> QED
  BY <1>1, Unrelated, IdleAsking

LEMMA MailKeeps ==
  ASSUME PInv, MailNext
  PROVE  PInv'
<1>0. UNCHANGED <<roll, founded, copies, sd, odd, away>>
  BY DEF MailNext, present, parties
<1>1. ASSUME NEW p \in Players, SetAppend(p) \/ MailWinOpen(p)
      PROVE  PInv'
  BY <1>0, <1>1, StillStep DEF SetAppend, MailWinOpen, link
<1>2. ASSUME NEW p \in Players, CheckMail(p)
      PROVE  PInv'
  <2>1. down' = down /\ record' = record
    BY <1>2 DEF CheckMail
  <2>2. \/ up' = up
        \/ \E q, load : up' = Append(up, [op |-> "send", by |-> p, to |-> q, num |-> 0, load |-> load])
        \/ \E q : up' = Append(up, [op |-> "check", by |-> p, to |-> q, num |-> 0, load |-> Nothing])
    BY <1>2 DEF CheckMail, SendMail, MailAsks, Asks
  <2>3. {"send", "check"} \subseteq MailOps
    BY DEF MailOps
  <2> QED
    BY <1>0, <2>1, <2>2, <2>3, Unrelated, IdleAsking, StillStep
<1>3. ASSUME NEW p \in Players, GetAppendReq(p) \/ DeleteReq(p)
      PROVE  PInv'
  <2>1. down' = down /\ record' = record
    BY <1>3 DEF GetAppendReq, DeleteReq
  <2>2. \E n : \E op \in {"get", "delete"} :
          up' = Append(up, [op |-> op, by |-> p, to |-> None, num |-> n, load |-> Nothing])
    BY <1>3 DEF GetAppendReq, DeleteReq, MailAsks, Asks
  <2>3. {"get", "delete"} \subseteq MailOps
    BY DEF MailOps
  <2> QED
    BY <1>0, <2>1, <2>2, <2>3, Unrelated, IdleAsking
<1>4. CASE MapReceivesMail
  <2> DEFINE m == Head(down)
             sent(load) == [op |-> "send", by |-> m.by, to |-> m.to, num |-> 0, load |-> load]
             strip == [op |-> "strip", by |-> m.by, to |-> None, num |-> m.num, load |-> Nothing]
  <2>1. down # <<>> /\ down' = Tail(down) /\ record' = record
    BY <1>4 DEF MapReceivesMail
  <2>2. TakeAttachment(m) \/ Checked(m) \/ SendRes(m)
    BY <1>4 DEF MapReceivesMail
  <2>3. m.op \in MailAnswers
    BY <2>2 DEF TakeAttachment, Checked, SendRes, MailAnswers
  <2>4. up' = up \/ up' = Append(up, strip) \/ \E load : up' = Append(up, sent(load))
    <3>1. TakeAttachment(m) => up' = up \/ up' = Append(up, strip)
      BY DEF TakeAttachment, Stripped, MailAsks, Asks
    <3>2. Checked(m) => up' = up \/ \E load : up' = Append(up, sent(load))
      BY DEF Checked, SendMail, MailAsks, Asks
    <3>3. SendRes(m) => up' = up
      BY DEF SendRes
    <3> HIDE DEF strip, sent
    <3> QED
      BY <2>2, <3>1, <3>2, <3>3
  <2>5. strip.op \in MailOps /\ \A load : sent(load).op \in MailOps
    BY DEF MailOps
  <2>6. Foreign(m) /\ Foreign(strip) /\ GoodUp(strip, founded)
        /\ \A load : Foreign(sent(load)) /\ GoodUp(sent(load), founded)
    <3> HIDE DEF m, strip, sent
    <3> QED
      BY <2>3, <2>5, Unrelated
  <2> HIDE DEF strip, sent
  <2> QED
    BY <1>0, <2>1, <2>4, <2>6, IdleAsking
<1>5. CASE CharReceivesMail
  <2> DEFINE m == Head(up)
             reply(op, load) == [op |-> op, by |-> m.by, to |-> m.to, num |-> m.num, load |-> load]
  <2>1. up # <<>> /\ up' = Tail(up) /\ record' = record
    BY <1>5 DEF CharReceivesMail
  <2>2. CharCheck(m) \/ CharSend(m) \/ CharGet(m) \/ CharStrip(m) \/ CharDelete(m)
    BY <1>5 DEF CharReceivesMail
  <2>3. m.op \in MailOps
    BY <2>2 DEF CharCheck, CharSend, CharGet, CharStrip, CharDelete, MailOps
  <2>4. \/ down' = down
        \/ \E load : \E op \in MailAnswers : down' = down \o <<reply(op, load)>>
    <3>1. \/ down' = down
          \/ \E load : \E op \in {"failed", "checked", "sent", "attachment"} : MailAnswer(op, m, load)
      BY <2>2 DEF CharCheck, CharSend, CharGet, CharStrip, CharDelete
    <3>2. \A load, op : MailAnswer(op, m, load) => down' = down \o <<reply(op, load)>>
      BY DEF MailAnswer, Answers
    <3>3. {"failed", "checked", "sent", "attachment"} \subseteq MailAnswers
      BY DEF MailAnswers
    <3> HIDE DEF m, reply
    <3> QED
      BY <3>1, <3>2, <3>3
  <2>5. \A load : \A op \in MailAnswers : reply(op, load).op \in MailAnswers
    OBVIOUS
  <2>6. Foreign(m) /\ \A load : \A op \in MailAnswers : Foreign(reply(op, load))
    <3> HIDE DEF m, reply
    <3> QED
      BY <2>3, <2>5, Unrelated
  <2>7. DOMAIN record' = Players /\ \A p \in Players : record'[p].party \in 0..founded
    BY <2>1 DEF PInv, PartyTypes, Proper
  <2> HIDE DEF reply
  <2>8. CASE down' = down
    BY <1>0, <2>1, <2>6, <2>7, <2>8, IdleAnswering
  <2>9. ASSUME NEW load, NEW op \in MailAnswers, down' = down \o <<reply(op, load)>>
        PROVE  PInv'
    <3>1. Foreign(reply(op, load))
      BY <2>6
    <3> QED
      BY <1>0, <2>1, <2>6, <2>7, <2>9, <3>1, IdleAnswering
  <2> QED
    BY <2>4, <2>8, <2>9
<1> QED
  BY <1>1, <1>2, <1>3, <1>4, <1>5 DEF MailNext

LEMMA OthersKeep ==
  ASSUME PInv,
         \/ \E p \in Players : \/ TradeNext(p) \/ LootNext(p) \/ VendingNext(p)
                               \/ BuyingNext(p) \/ BankNext(p) \/ Autosave(p)
         \/ Saved \/ LinkReturns \/ UNCHANGED vars
  PROVE  PInv'
<1>1. ASSUME NEW p \in Players, TradeNext(p) \/ LootNext(p) \/ VendingNext(p)
      PROVE  PInv'
  BY <1>1, StillStep DEF TradeNext, LootNext, VendingNext, present, link, parties
<1>2. ASSUME NEW p \in Players, BuyingNext(p) \/ BankNext(p)
      PROVE  PInv'
  BY <1>2, StillStep DEF BuyingNext, BankNext, present, link, parties
<1>3. ASSUME NEW p \in Players, Autosave(p)
      PROVE  PInv'
  <2>1. up' = Append(up, SaveOf(p)) /\ UNCHANGED <<roll, founded, copies, sd, odd, away, record, down>>
    BY <1>3 DEF Autosave, Asks, parties
  <2>2. sd[p].party \in 0..founded
    BY DEF PInv, Proper, PartyTypes, Session, Ids
  <2>3. Foreign(SaveOf(p)) /\ GoodUp(SaveOf(p), founded)
    BY <2>2 DEF SaveOf, Status, Foreign, GoodUp, PartyOps, PartyAnswers
  <2> QED
    BY <2>1, <2>3, IdleAsking
<1>4. CASE Saved
  <2> DEFINE m == Head(up)
  <2>1. /\ up # <<>> /\ up' = Tail(up) /\ m.op = "save" /\ record' = [record EXCEPT ![m.by] = m.status]
        /\ UNCHANGED <<roll, founded, copies, sd, odd, away, down>>
    BY <1>4 DEF Saved, parties
  <2>2. IsSeq(up) /\ up[1] = m /\ 1 \in 1..Len(up)
    <3>1. IsSeq(up)
      BY DEF PInv, Proper
    <3>2. Len(up) \in Nat /\ Len(up) >= 1 /\ Head(up) = up[1]
      BY <2>1, <3>1, SeqParts
    <3> QED
      BY <3>1, <3>2
  <2>3. m.by \in Players /\ m.status.party \in 0..founded
    BY <2>1, <2>2 DEF PInv, Proper, GoodUp
  <2>4. Foreign(m)
    BY <2>1 DEF Foreign, PartyOps, PartyAnswers
  <2>5. DOMAIN record' = Players /\ \A p \in Players : record'[p].party \in 0..founded
    BY <2>1, <2>3 DEF PInv, Proper, PartyTypes
  <2> QED
    BY <2>1, <2>4, <2>5, IdleAnswering
<1>5. CASE LinkReturns \/ UNCHANGED vars
  BY <1>5, StillStep DEF LinkReturns, vars, link, parties
<1> QED
  BY <1>1, <1>2, <1>3, <1>4, <1>5

-----------------------------------------------------------------------------
(* Steps of players *)

\* Where the sessions stand and who is being logged in.
Ground == Shape /\ AuthsRight

LEMMA NonePending ==
  ASSUME IsSeq(up), IsSeq(down), NEW p, NEW ops, Pending(p, ops) = {}
  PROVE  /\ \A i \in 1..Len(up) : ~(up[i].op \in ops /\ up[i].by = p)
         /\ \A i \in 1..Len(down) : ~(down[i].op \in ops /\ down[i].by = p)
<1> DEFINE all == up \o down
<1>1. IsSeq(all)
  BY Joins
<1>2. Len(up) \in Nat /\ Len(down) \in Nat /\ DOMAIN all = 1..(Len(up) + Len(down))
  <2>1. Len(all) = Len(up) + Len(down)
    BY <1>1, Joins
  <2>2. DOMAIN all = 1..Len(all)
    BY <1>1 DEF IsSeq
  <2> QED
    BY <1>1, <2>1, <2>2, SeqParts
<1>3. \A i \in DOMAIN all : ~(all[i].op \in ops /\ all[i].by = p)
  BY DEF Pending
<1>4. ASSUME NEW i \in 1..Len(up)
      PROVE  ~(up[i].op \in ops /\ up[i].by = p)
  <2>1. i \in DOMAIN all /\ all[i] = up[i]
    BY <1>1, <1>2, Joins
  <2> QED
    BY <1>3, <2>1
<1>5. ASSUME NEW i \in 1..Len(down)
      PROVE  ~(down[i].op \in ops /\ down[i].by = p)
  <2> DEFINE j == i + Len(up)
  <2>1. j \in 1..(Len(up) + Len(down)) /\ j > Len(up) /\ j - Len(up) = i
    BY <1>2
  <2>2. all[j] = down[i]
    BY <1>1, <2>1, Joins
  <2> QED
    BY <1>2, <1>3, <2>1, <2>2
<1> QED
  BY <1>4, <1>5

\* Who hurries is remembered, and nothing is under way for who does not.
LEMMA Hurrying ==
  ASSUME PInv, NEW p, Hurries(p)
  PROVE  /\ odd \subseteq odd'
         /\ \/ Hurried(p)'
            \/ /\ \A j \in 1..Len(up) : ~Entering(up[j], p)
               /\ \A j \in 1..Len(down) : ~Entering(down[j], p)
               /\ sd[p].party = 0
<1>1. IsSeq(up) /\ IsSeq(down)
  BY DEF PInv, Proper
<1>2. CASE sd[p].party = 0 /\ Pending(p, Entries) = {}
  BY <1>1, <1>2, NonePending DEF Hurries, Entries, Entering
<1>3. CASE ~(sd[p].party = 0 /\ Pending(p, Entries) = {})
  BY <1>3 DEF Hurries, Hurried, Entries
<1> QED
  BY <1>2, <1>3

\* Who is on the map, or on the way there, is not being logged in.
LEMMA NotLoggingIn ==
  ASSUME Ground, NEW p, p \notin away
  PROVE  /\ \A j \in 1..Len(up) : up[j].op = "auth" => up[j].by # p
         /\ \A j \in 1..Len(down) : down[j].op = "authok" => down[j].by # p
  BY DEF Ground, AuthsRight

LEMMA AsksOne ==
  ASSUME PInv, NEW m, Asks(m)
  PROVE  up' # up /\ up' = Append(up, m)
<1>1. Moves(up, Append(up, m), 0, <<m>>) /\ Len(<<m>>) = 1
  BY MovesOne, OneMessage DEF PInv, Proper
<1>2. Len(Append(up, m)) = Len(up) + 1 /\ Len(up) \in Nat
  BY <1>1 DEF Moves
<1> QED
  BY <1>2 DEF Asks

\* The copies stay, and so do the parties the sessions know, but for some
\* that do not list them.
LEMMA ReferredStays ==
  ASSUME Referred, UNCHANGED <<copies, away>>, odd \subseteq odd',
         \A p \in Players, g \in Ids : sd[p].party = g /\ sd'[p].party # g => ~Listed(copies[g], p)
  PROVE  Referred'
<1> SUFFICES ASSUME NEW g \in Ids, NEW i \in DOMAIN copies[g], copies[g][i].here
             PROVE  LET p == copies[g][i].who IN
                    p \in Players /\ (~Hurried(p)' => p \notin away /\ sd'[p].party = g)
  BY DEF Referred
<1> DEFINE p == copies[g][i].who
<1>1. p \in Players /\ (~Hurried(p) => p \notin away /\ sd[p].party = g)
  BY DEF Referred
<1>2. Listed(copies[g], p)
  BY DEF Listed, SeatsOf
<1>3. ~Hurried(p)' => ~Hurried(p)
  BY DEF Hurried
<1> QED
  BY <1>1, <1>2, <1>3

LEMMA CreateKeeps ==
  ASSUME PInv, Ground, NEW p \in Players, PartyCreate(p), away' = away
  PROVE  PInv'
<1> DEFINE m == Request("create", p, 0, TRUE)
<1>1. /\ p \in online /\ sd[p].party = 0 /\ sd' = [sd EXCEPT ![p].creating = TRUE] /\ Hurries(p)
      /\ UNCHANGED <<down, record, roll, founded, copies>> /\ Asks(m)
  BY DEF PartyCreate
<1>2. up' # up /\ up' = Append(up, m)
  BY <1>1, AsksOne
<1>3. m.op = "create" /\ m.by = p /\ m.party = 0 /\ m \in PartyRequest
  BY DEF Request, PartyRequest, PartyOps
<1>4. founded \in Nat /\ sd \in [Players -> Session]
  BY DEF PInv, PartyTypes
<1> HIDE DEF m
<1>5. GoodUp(m, founded)
  BY <1>3, <1>4 DEF GoodUp
<1>6. p \notin away
  BY <1>1 DEF Ground, Shape
<1>7. /\ sd' \in [Players -> Session]
      /\ \A q \in Players : /\ sd'[q].party = sd[q].party /\ sd'[q].invite = sd[q].invite
                            /\ sd'[q].window = sd[q].window
                            /\ sd'[q].creating => sd[q].creating \/ q = p
  BY <1>1, <1>4 DEF Session
<1>8. odd \subseteq odd'
  BY <1>1, Hurrying
<1>9. Referred'
  BY <1>1, <1>7, <1>8, ReferredStays DEF PInv
<1>10. \A q \in Players : sd'[q].party <= founded /\ sd'[q].invite <= founded
  BY <1>7 DEF PInv, Proper
<1>11. /\ \A j \in 1..Len(up) : up[j].op = "auth" => up[j].by # p
       /\ \A j \in 1..Len(down) : down[j].op = "authok" => down[j].by # p
       /\ Hurried(p)' \/ /\ \A j \in 1..Len(up) : ~Entering(up[j], p)
                         /\ \A j \in 1..Len(down) : ~Entering(down[j], p)
                         /\ sd'[p].party = 0
  BY <1>1, <1>6, <1>7, Hurrying, NotLoggingIn
<1>12. ~(m.op \in {"reqinfo", "auth"})
  BY <1>3
<1>13. UNCHANGED <<roll, founded, copies, away, record>> /\ down' = down
  BY <1>1
<1>14. \A q \in Players :
        /\ sd'[q].party <= founded /\ sd'[q].invite <= founded
        /\ sd'[q].party # 0 => sd[q].party # 0
        /\ sd'[q].creating => sd[q].creating \/ (m.op = "create" /\ m.by = q /\ up' # up)
        /\ \A g \in Ids : sd'[q].invite = g => sd[q].invite = g \/ copies[g] # Absent
        /\ \A g \in Ids : sd'[q].invite = g /\ ~sd'[q].window => sd[q].invite = g /\ ~sd[q].window
  BY <1>2, <1>3, <1>7, <1>10
<1>15. sd' \in [Players -> Session]
  BY <1>7
<1> QED
  BY <1>2, <1>3, <1>5, <1>8, <1>9, <1>11, <1>12, <1>13, <1>14, <1>15, PlayerStep

LEMMA InviteKeeps ==
  ASSUME PInv, NEW p \in Players, PartyInvite(p), away' = away
  PROVE  PInv'
<1> DEFINE m == Request("check", p, 0, TRUE)
<1>1. PICK q \in Players \ away :
        /\ sd[p].party # 0 /\ copies[sd[p].party] # Absent
        /\ sd[q].invite = 0
        /\ sd' = [sd EXCEPT ![q].invite = sd[p].party, ![q].window = TRUE]
        /\ UNCHANGED <<up, down, record, roll, founded, copies, odd>>
  BY DEF PartyInvite
<1>2. m.op = "check"
  BY DEF Request
<1> HIDE DEF m
<1>3. founded \in Nat /\ sd \in [Players -> Session]
  BY DEF PInv, PartyTypes
<1>4. GoodUp(m, founded) /\ m.op \notin Entries /\ ~(m.op \in {"reqinfo", "auth"})
  BY <1>2 DEF GoodUp, PartyOps, Entries
<1>5. /\ sd' \in [Players -> Session]
      /\ \A x \in Players :
           /\ sd'[x].party = sd[x].party /\ sd'[x].creating = sd[x].creating
           /\ \/ sd'[x].invite = sd[x].invite /\ sd'[x].window = sd[x].window
              \/ sd'[x].invite = sd[p].party /\ sd'[x].window
  BY <1>1, <1>3 DEF Session
<1>6. Referred'
  BY <1>1, <1>5, ReferredStays DEF PInv
<1>7. \A x \in Players : sd[x].party <= founded /\ sd[x].invite <= founded
  BY DEF PInv, Proper
<1>8. \A x \in Players : sd'[x].party <= founded /\ sd'[x].invite <= founded
  BY <1>5, <1>7
<1> QED
  BY <1>1, <1>2, <1>4, <1>5, <1>6, <1>8, PlayerStep

LEMMA ReplyKeeps ==
  ASSUME PInv, Ground, NEW p \in Players, ReplyInvite(p), away' = away
  PROVE  PInv'
<1> DEFINE m == Request("add", p, sd[p].invite, TRUE)
<1>1. /\ p \in online /\ sd[p].window
      /\ UNCHANGED <<down, record, roll, founded, copies>>
  BY DEF ReplyInvite
<1>2. founded \in Nat /\ sd \in [Players -> Session]
  BY DEF PInv, PartyTypes
<1>3. p \notin away
  BY <1>1 DEF Ground, Shape
<1>4. \A x \in Players : sd[x].party <= founded /\ sd[x].invite <= founded
  BY DEF PInv, Proper
<1>5. CASE sd[p].invite # 0 /\ sd' = [sd EXCEPT ![p].window = FALSE] /\ Asks(m) /\ Hurries(p)
  <2>1. up' # up /\ up' = Append(up, m)
    BY <1>5, AsksOne
  <2>2. m.op = "add" /\ m.by = p /\ m.party = sd[p].invite /\ m \in PartyRequest
    BY <1>2 DEF Request, PartyRequest, PartyOps, Session
  <2> HIDE DEF m
  <2>3. GoodUp(m, founded) /\ ~(m.op \in {"reqinfo", "auth"})
    BY <1>4, <1>5, <2>2 DEF GoodUp
  <2>4. /\ sd' \in [Players -> Session]
        /\ \A x \in Players :
             /\ sd'[x].party = sd[x].party /\ sd'[x].creating = sd[x].creating
             /\ sd'[x].invite = sd[x].invite /\ (x = p \/ sd'[x].window = sd[x].window)
    BY <1>2, <1>5 DEF Session
  <2>5. odd \subseteq odd'
    BY <1>5, Hurrying
  <2>6. Referred'
    BY <1>1, <2>4, <2>5, ReferredStays DEF PInv
  <2>7. \A x \in Players : sd'[x].party <= founded /\ sd'[x].invite <= founded
    BY <1>4, <2>4
  <2>8. /\ \A j \in 1..Len(up) : up[j].op = "auth" => up[j].by # p
        /\ \A j \in 1..Len(down) : down[j].op = "authok" => down[j].by # p
        /\ Hurried(p)' \/ /\ \A j \in 1..Len(up) : ~Entering(up[j], p)
                          /\ \A j \in 1..Len(down) : ~Entering(down[j], p)
                          /\ sd'[p].party = 0
    BY <1>3, <1>5, <2>4, Hurrying, NotLoggingIn
  <2> QED
    BY <1>1, <2>1, <2>2, <2>3, <2>4, <2>5, <2>6, <2>7, <2>8, PlayerStep
<1>6. CASE sd' = [sd EXCEPT ![p].window = FALSE, ![p].invite = 0] /\ UNCHANGED <<up, odd>>
  <2> DEFINE n == Request("check", p, 0, TRUE)
  <2>1. n.op = "check"
    BY DEF Request
  <2> HIDE DEF n
  <2>2. GoodUp(n, founded) /\ n.op \notin Entries /\ ~(n.op \in {"reqinfo", "auth"})
    BY <2>1 DEF GoodUp, PartyOps, Entries
  <2>3. /\ sd' \in [Players -> Session]
        /\ \A x \in Players :
             /\ sd'[x].party = sd[x].party /\ sd'[x].creating = sd[x].creating
             /\ sd'[x].invite = 0 \/ (sd'[x].invite = sd[x].invite /\ sd'[x].window = sd[x].window)
    BY <1>2, <1>6 DEF Session
  <2>4. Referred'
    BY <1>1, <1>6, <2>3, ReferredStays DEF PInv
  <2>5. \A x \in Players : sd'[x].party <= founded /\ sd'[x].invite <= founded
    BY <1>2, <1>4, <2>3
  <2>6. 0 \notin Ids
    BY DEF Ids
  <2> QED
    BY <1>1, <1>6, <2>1, <2>2, <2>3, <2>4, <2>5, <2>6, PlayerStep
<1> QED
  BY <1>5, <1>6 DEF ReplyInvite

\* A session forgets a party, an invitation or what it was told, and perhaps
\* something is asked for that enters nobody.
LEMMA ForgetsStep ==
  ASSUME PInv, UNCHANGED <<roll, founded, copies, away, record, down>>, odd \subseteq odd',
         NEW m, up' = up \/ Asks(m), GoodUp(m, founded), m.op \notin Entries \cup {"reqinfo", "auth"},
         sd' \in [Players -> Session],
         \A p \in Players : /\ sd'[p].party \in {0, sd[p].party}
                            /\ sd'[p].party # sd[p].party =>
                                 \A g \in Ids : sd[p].party = g => ~Listed(copies[g], p)
                            /\ sd'[p].creating = sd[p].creating
                            /\ \/ sd'[p].invite = 0
                               \/ sd'[p].invite = sd[p].invite /\ sd'[p].window = sd[p].window
  PROVE  PInv'
<1>1. up' = up \/ up' = Append(up, m)
  BY DEF Asks
<1>2. m.op \notin Entries /\ ~(m.op \in {"reqinfo", "auth"})
  OBVIOUS
<1>3. Referred'
  BY ReferredStays DEF PInv
<1>4. founded \in Nat /\ 0 \notin Ids
  BY DEF PInv, PartyTypes, Ids
<1>5. \A p \in Players : sd[p].party <= founded /\ sd[p].invite <= founded
  BY DEF PInv, Proper
<1>6. \A p \in Players :
        /\ sd'[p].party <= founded /\ sd'[p].invite <= founded
        /\ sd'[p].party # 0 => sd[p].party # 0
        /\ sd'[p].creating => sd[p].creating
        /\ \A g \in Ids : sd'[p].invite = g => sd[p].invite = g
        /\ \A g \in Ids : sd'[p].invite = g /\ ~sd'[p].window => sd[p].invite = g /\ ~sd[p].window
  BY <1>4, <1>5
<1>7. UNCHANGED <<roll, founded, copies, away, record>> /\ down' = down
  OBVIOUS
<1> QED
  BY <1>1, <1>2, <1>3, <1>6, <1>7, PlayerStep

LEMMA LeaveKeeps ==
  ASSUME PInv, NEW p \in Players, PartyLeave(p) \/ ChangeLeader(p), away' = away
  PROVE  PInv'
<1>1. PICK op \in {"leave", "lead"}, q \in Players : Asks(Request(op, q, sd[p].party, TRUE))
  BY DEF PartyLeave, ChangeLeader
<1>2. UNCHANGED <<down, record, roll, founded, copies, sd, odd>> /\ sd[p].party # 0
  BY DEF PartyLeave, ChangeLeader, parties
<1> DEFINE m == Request(op, q, sd[p].party, TRUE)
<1>3. founded \in Nat /\ sd \in [Players -> Session] /\ sd[p].party <= founded
  BY DEF PInv, PartyTypes, Proper
<1>4. m \in PartyRequest /\ m.op = op /\ m.party = sd[p].party /\ op \in PartyOps
  BY <1>3 DEF Request, PartyRequest, PartyOps, Session
<1>5. GoodUp(m, founded) /\ m.op \notin Entries \cup {"reqinfo", "auth"}
  <2> HIDE DEF m
  <2> QED
    BY <1>2, <1>3, <1>4 DEF GoodUp, Entries
<1>6. up' = up \/ Asks(m)
  BY <1>1
<1> HIDE DEF m
<1> QED
  BY <1>2, <1>3, <1>5, <1>6, ForgetsStep

LEMMA DepartKeeps ==
  ASSUME PInv, NEW p \in Players, Depart(p)
  PROVE  PInv'
<1> DEFINE m == Request("check", p, 0, TRUE)
<1>1. /\ UNCHANGED <<roll, founded, copies, away, record, down, up, odd>>
      /\ sd' = [sd EXCEPT ![p].invite = 0, ![p].window = FALSE]
  BY DEF Depart, Closed, Uninvited
<1>2. m.op = "check"
  BY DEF Request
<1> HIDE DEF m
<1>3. GoodUp(m, founded) /\ m.op \notin Entries \cup {"reqinfo", "auth"}
  BY <1>2 DEF GoodUp, PartyOps, Entries
<1>4. sd \in [Players -> Session]
  BY DEF PInv, PartyTypes
<1>5. /\ sd' \in [Players -> Session]
      /\ \A x \in Players :
           /\ sd'[x].party = sd[x].party /\ sd'[x].creating = sd[x].creating
           /\ sd'[x].invite = 0 \/ (sd'[x].invite = sd[x].invite /\ sd'[x].window = sd[x].window)
  BY <1>1, <1>4 DEF Session
<1> QED
  BY <1>1, <1>3, <1>5, ForgetsStep

LEMMA ExpelledSession ==
  ASSUME NEW s \in [Players -> Session], NEW qs
  PROVE  /\ Expelled(s, qs) \in [Players -> Session]
         /\ \A q \in Players :
              LET t == Expelled(s, qs)[q] IN
              /\ t.party = IF q \in qs THEN 0 ELSE s[q].party
              /\ t.creating = s[q].creating /\ t.invite = s[q].invite
              /\ t.window = s[q].window /\ t.sended = s[q].sended
<1> SUFFICES ASSUME NEW q \in Players
             PROVE  LET t == Expelled(s, qs)[q] IN
                    /\ t \in Session
                    /\ t.party = IF q \in qs THEN 0 ELSE s[q].party
                    /\ t.creating = s[q].creating /\ t.invite = s[q].invite
                    /\ t.window = s[q].window /\ t.sended = s[q].sended
  BY DEF Expelled
<1>1. s[q] \in Session
  OBVIOUS
<1>2. Expelled(s, qs)[q] = IF q \in qs THEN [s[q] EXCEPT !.party = 0] ELSE s[q]
  BY DEF Expelled
<1> QED
  BY <1>1, <1>2 DEF Session

LEMMA ArriveKeeps ==
  ASSUME PInv, NEW p \in Players, Arrive(p)
  PROVE  PInv'
<1> DEFINE g     == sd[p].party
           m     == Request("move", p, g, TRUE)
           known == copies[g] # Absent /\ ~sd[p].sended
           not   == IF known THEN NotMembers(sd, g, copies[g]) ELSE {}
<1>0. UNCHANGED <<away, record, down>>
  BY DEF Arrive
<1>1. founded \in Nat /\ sd \in [Players -> Session] /\ g <= founded /\ g \in {0} \cup Ids /\ 0 \notin Ids
  BY DEF PInv, PartyTypes, Proper, Session, Ids
<1>2. CASE g = 0 /\ UNCHANGED <<up, parties>>
  BY <1>0, <1>2, StillStep DEF parties
<1>3. CASE /\ g # 0 /\ Asks(m)
           /\ sd' = IF known /\ p \notin not THEN [Expelled(sd, not) EXCEPT ![p].sended = TRUE]
                                             ELSE Expelled(sd, not)
           /\ odd \subseteq odd' /\ UNCHANGED <<roll, founded, copies>>
  <2>1. m \in PartyRequest /\ m.op = "move" /\ m.party = g /\ "move" \in PartyOps
    BY <1>1 DEF Request, PartyRequest, PartyOps
  <2>2. GoodUp(m, founded) /\ m.op \notin Entries \cup {"reqinfo", "auth"}
    <3> HIDE DEF m, g
    <3> QED
      BY <1>1, <1>3, <2>1 DEF GoodUp, Entries
  <2>3. /\ Expelled(sd, not) \in [Players -> Session]
        /\ \A q \in Players :
             LET t == Expelled(sd, not)[q] IN
             /\ t.party = IF q \in not THEN 0 ELSE sd[q].party
             /\ t.creating = sd[q].creating /\ t.invite = sd[q].invite
             /\ t.window = sd[q].window
    BY <1>1, ExpelledSession
  <2>4. \A q \in not : q \in Players /\ sd[q].party = g /\ ~Listed(copies[g], q)
    BY DEF NotMembers
  <2> HIDE DEF not, known, m
  <2> DEFINE s == Expelled(sd, not)
  <2>5. /\ sd' \in [Players -> Session]
        /\ \A q \in Players :
             LET t == sd'[q] IN
             /\ t.party = IF q \in not THEN 0 ELSE sd[q].party
             /\ t.creating = sd[q].creating /\ t.invite = sd[q].invite
             /\ t.window = sd[q].window
    <3> HIDE DEF s
    <3>1. CASE sd' = s
      BY <2>3, <3>1 DEF s
    <3>2. CASE sd' = [s EXCEPT ![p].sended = TRUE]
      <4>1. s \in [Players -> Session]
        BY <2>3 DEF s
      <4>2. /\ sd' \in [Players -> Session]
            /\ \A q \in Players : /\ sd'[q].party = s[q].party /\ sd'[q].creating = s[q].creating
                                  /\ sd'[q].invite = s[q].invite /\ sd'[q].window = s[q].window
        BY <3>2, <4>1 DEF Session
      <4> QED
        BY <2>3, <4>2 DEF s
    <3> QED
      BY <1>3, <3>1, <3>2 DEF s
  <2>6. \A q \in Players : /\ sd'[q].party \in {0, sd[q].party}
                           /\ sd'[q].party # sd[q].party =>
                                \A h \in Ids : sd[q].party = h => ~Listed(copies[h], q)
    BY <2>4, <2>5
  <2>7. up' = up \/ Asks(m)
    BY <1>3
  <2> HIDE DEF s, g
  <2> QED
    BY <1>0, <1>3, <2>2, <2>5, <2>6, <2>7, ForgetsStep
<1>4. Arrive(p) => \/ g = 0 /\ UNCHANGED <<up, parties>>
                   \/ /\ g # 0 /\ Asks(m)
                      /\ sd' = IF known /\ p \notin not THEN [Expelled(sd, not) EXCEPT ![p].sended = TRUE]
                                                        ELSE Expelled(sd, not)
                      /\ odd \subseteq odd' /\ UNCHANGED <<roll, founded, copies>>
  BY DEF Arrive, PartyArrive
<1> QED
  BY <1>2, <1>3, <1>4

-----------------------------------------------------------------------------
(* The handlers of the map server *)

LEMMA ListFacts ==
  /\ Nobody \in Lists /\ Nobody # Absent /\ \A i \in DOMAIN Nobody : ~Nobody[i].here
  /\ DOMAIN Absent = {}
  /\ \A list \in [Seats -> Row] : list # Absent /\ DOMAIN list = Seats
<1>1. 1 \in Seats
  BY PartyAssumption DEF Seats
<1>2. NoRow \in Row /\ ~NoRow.here
  BY DEF NoRow, Row
<1>3. DOMAIN Absent = {}
  BY DEF Absent
<1>4. Nobody \in [Seats -> Row] /\ \A i \in DOMAIN Nobody : ~Nobody[i].here
  BY <1>2 DEF Nobody
<1> QED
  BY <1>1, <1>3, <1>4 DEF Lists

LEMMA EmptyFunction ==
  ASSUME NEW f, DOMAIN f = {}, f = [i \in DOMAIN f |-> f[i]]
  PROVE  f = Absent
<1>1. f \in Seq({})
  <2>1. f \in [1..0 -> {}]
    OBVIOUS
  <2> QED
    BY <2>1, SeqDef
<1>2. Len(f) = 0
  BY <1>1
<1> QED
  BY <1>1, <1>2, EmptySeq DEF Absent

LEMMA AbsentMapped ==
  ASSUME NEW list \in Lists, NEW new \in Lists, DOMAIN new = DOMAIN list
  PROVE  new = Absent <=> list = Absent
<1>1. 1 \in Seats
  BY PartyAssumption DEF Seats
<1> QED
  BY <1>1, ListFacts DEF Lists

\* The message at the head of the link.
LEMMA AtHead ==
  ASSUME PInv, down # <<>>, NEW m, m = Head(down)
  PROVE  down[1] = m /\ 1 \in 1..Len(down) /\ GoodDown(m, founded) /\ founded \in Nat
<1>1. Len(down) \in Nat /\ Len(down) >= 1 /\ Head(down) = down[1]
  BY SeqParts DEF PInv, Proper
<1>2. 1 \in 1..Len(down) /\ founded \in Nat
  BY <1>1 DEF PInv, PartyTypes
<1> QED
  BY <1>1, <1>2 DEF PInv, Proper

LEMMA HeadAnswer ==
  ASSUME PInv, down # <<>>, NEW m, m = Head(down), m.op \in PartyAnswers
  PROVE  /\ m.party \in {0} \cup Ids /\ m.party <= founded /\ m.on \in BOOLEAN
         /\ m.op # "created" => m.party \in Ids
         /\ m.op \in {"created", "added", "left", "moved", "led"} => m.by \in Players
         /\ m.op = "info" => m.list \in [Seats -> Row]
<1>1. GoodDown(m, founded)
  BY AtHead
<1> QED
  BY <1>1 DEF GoodDown, Lists

\* Sessions forget, and nothing is added and nobody is created.
LEMMA MapForgets ==
  ASSUME PInv, UNCHANGED <<roll, founded, away, record, up>>, odd \subseteq odd',
         down # <<>>, down' = Tail(down), NEW m, m = Head(down),
         m.op \notin {"authok", "created", "added"},
         copies' \in [Ids -> Lists], sd' \in [Players -> Session],
         \A g \in Ids : /\ copies'[g] # Absent /\ copies[g] = Absent => Lists_(m, g)
                        /\ copies'[g] = Absent /\ copies[g] # Absent => Breaks(m, g)
                        /\ Breaks(m, g) => copies'[g] = Absent,
         \A p \in Players : /\ sd'[p].party \in {0, sd[p].party} /\ sd'[p].creating = sd[p].creating
                            /\ sd'[p].invite = sd[p].invite /\ sd'[p].window = sd[p].window,
         Referred'
  PROVE  PInv'
<1> DEFINE r == [op |-> "check"]
<1>1. r.op = "check"
  OBVIOUS
<1> HIDE DEF r
<1>2. GoodUp(r, founded) /\ r.op \notin Entries \cup {"reqinfo", "auth"}
  BY <1>1 DEF GoodUp, PartyOps, Entries
<1>3. founded \in Nat /\ \A p \in Players : sd[p].party <= founded /\ sd[p].invite <= founded
  BY DEF PInv, Proper, PartyTypes
<1>4. \A p \in Players :
        /\ sd'[p].party <= founded /\ sd'[p].invite <= founded
        /\ sd'[p].party # 0 => sd[p].party # 0
        /\ sd'[p].creating => sd[p].creating /\ ~(m.op = "created" /\ m.by = p)
        /\ sd'[p].invite # 0 => sd'[p].invite = sd[p].invite
        /\ sd'[p].invite # 0 /\ ~sd'[p].window => ~sd[p].window /\ ~(m.op = "added" /\ m.by = p)
  BY <1>3
<1>5. UNCHANGED <<roll, founded, away, record>> /\ up' = up /\ m.op # "authok"
  OBVIOUS
<1> QED
  BY <1>2, <1>4, <1>5, MapStep

LEMMA CreatedKeeps ==
  ASSUME PInv, UNCHANGED <<roll, founded, away, record>>,
         down # <<>>, down' = Tail(down), NEW m, m = Head(down), MapCreated(m)
  PROVE  PInv'
<1> DEFINE p == m.by
           g == m.party
           new == Found(p) /\ g # 0 /\ copies[g] = Absent
<1>1. /\ m.op = "created" /\ up' = up
      /\ copies' = IF new THEN [copies EXCEPT ![g] = Nobody] ELSE copies
      /\ sd' = IF p \in away THEN sd
               ELSE [sd EXCEPT ![p].creating = FALSE, ![p].party = IF new THEN g ELSE @]
      /\ odd \subseteq odd'
  BY DEF MapCreated
<1>2. p \in Players /\ g \in {0} \cup Ids /\ g <= founded
  BY <1>1, HeadAnswer DEF PartyAnswers
<1>3. copies \in [Ids -> Lists] /\ sd \in [Players -> Session] /\ founded \in Nat /\ 0 \notin Ids
  BY DEF PInv, PartyTypes, Ids
<1>4. \A q \in Players : sd[q].party <= founded /\ sd[q].invite <= founded
  BY DEF PInv, Proper
<1> HIDE DEF p, g, new
<1>5. /\ copies' \in [Ids -> Lists]
      /\ \A h \in Ids : copies'[h] # copies[h] => h = g /\ copies[h] = Absent /\ copies'[h] = Nobody
  BY <1>1, <1>2, <1>3, ListFacts DEF new
<1>6. /\ sd' \in [Players -> Session]
      /\ \A q \in Players :
           /\ sd'[q].invite = sd[q].invite /\ sd'[q].window = sd[q].window
           /\ sd'[q].party = sd[q].party \/ (q = p /\ sd'[q].party = g)
           /\ q \notin away /\ sd'[q].creating => sd[q].creating /\ q # p
  <2>1. CASE p \in away
    BY <1>1, <1>3, <2>1
  <2>2. CASE p \notin away
    <3>1. PICK x \in {g, sd[p].party} : sd' = [sd EXCEPT ![p].creating = FALSE, ![p].party = x]
      BY <1>1, <2>2
    <3>2. sd[p] \in Session /\ x \in {0} \cup Ids
      BY <1>2, <1>3 DEF Session
    <3> DEFINE t == [sd[p] EXCEPT !.creating = FALSE, !.party = x]
    <3>3. /\ t \in Session /\ t.party = x /\ t.creating = FALSE
          /\ t.invite = sd[p].invite /\ t.window = sd[p].window
      BY <3>2 DEF Session
    <3>4. sd'[p] = t /\ \A q \in Players : q # p => sd'[q] = sd[q]
      BY <1>2, <1>3, <3>1
    <3>5. DOMAIN sd' = Players /\ sd' = [q \in Players |-> sd'[q]]
      BY <1>3, <3>1
    <3> HIDE DEF t
    <3>6. sd' \in [Players -> Session]
      BY <1>3, <3>3, <3>4, <3>5
    <3> QED
      BY <1>2, <2>2, <3>1, <3>3, <3>4, <3>6
  <2> QED
    BY <2>1, <2>2
<1>7. \A h \in Ids : Lists_(m, h) <=> h = g
  BY <1>1 DEF Lists_, g
<1>8. \A h \in Ids : ~Breaks(m, h)
  BY <1>1 DEF Breaks
<1>9. ~Hurried(p) => sd[p].party = 0
  <2>1. down[1] = m /\ 1 \in 1..Len(down)
    BY AtHead
  <2>2. Entering(down[1], p)
    BY <1>1, <2>1 DEF Entering, Entries, p
  <2> QED
    BY <1>2, <2>1, <2>2 DEF PInv, OneEntry
<1>10. Referred'
  <2> SUFFICES ASSUME NEW h \in Ids, NEW i \in DOMAIN copies'[h], copies'[h][i].here
               PROVE  LET q == copies'[h][i].who IN
                      q \in Players /\ (<<q, "hurried">> \notin odd' => q \notin away /\ sd'[q].party = h)
    BY DEF Referred, Hurried
  <2>1. copies'[h] = copies[h]
    BY <1>5, ListFacts
  <2> DEFINE q == copies[h][i].who
  <2>2. q \in Players /\ (~Hurried(q) => q \notin away /\ sd[q].party = h)
    BY <2>1 DEF PInv, Referred
  <2>3. <<q, "hurried">> \notin odd' => ~Hurried(q)
    BY <1>1 DEF Hurried
  <2> QED
    BY <1>3, <1>6, <1>9, <2>1, <2>2, <2>3
<1> DEFINE r == [op |-> "check"]
<1>11. r.op = "check"
  OBVIOUS
<1> HIDE DEF r
<1>12. GoodUp(r, founded) /\ r.op \notin Entries \cup {"reqinfo", "auth"}
  BY <1>11 DEF GoodUp, PartyOps, Entries
<1>13. \A h \in Ids : /\ copies'[h] # Absent /\ copies[h] = Absent => Lists_(m, h)
                      /\ copies'[h] = Absent /\ copies[h] # Absent => Breaks(m, h)
                      /\ Breaks(m, h) => copies'[h] = Absent
  BY <1>5, <1>7, <1>8
<1>14. \A q \in Players :
         /\ sd'[q].party <= founded /\ sd'[q].invite <= founded
         /\ sd'[q].party # 0 => sd[q].party # 0 \/ Entering(m, q)
         /\ q \notin away /\ sd'[q].creating => sd[q].creating /\ ~(m.op = "created" /\ m.by = q)
         /\ sd'[q].invite # 0 => sd'[q].invite = sd[q].invite
         /\ sd'[q].invite # 0 /\ ~sd'[q].window => ~sd[q].window /\ ~(m.op = "added")
  BY <1>1, <1>2, <1>4, <1>6 DEF Entering, Entries, p
<1>15. m.op # "authok"
  BY <1>1
<1> QED
  BY <1>1, <1>5, <1>6, <1>10, <1>12, <1>13, <1>14, <1>15, MapStep

\* A list that is given sessions refers to those in its party.
LEMMA SeatedList ==
  ASSUME NEW list \in [Seats -> Row], NEW g \in Ids, NEW s
  PROVE  /\ Seated(s, g, list) \in [Seats -> Row]
         /\ \A i \in Seats : LET row == Seated(s, g, list)[i] IN
              row.who = list[i].who
              /\ (row.here => row.who \in Players /\ row.who \notin away /\ s[row.who].party = g)
<1> SUFFICES ASSUME NEW i \in Seats
             PROVE  LET row == Seated(s, g, list)[i] IN
                    row \in Row /\ row.who = list[i].who
                    /\ (row.here => row.who \in Players /\ row.who \notin away /\ s[row.who].party = g)
  BY DEF Seated
<1>1. list[i] \in Row
  OBVIOUS
<1> DEFINE q == list[i].who
<1>2. Seated(s, g, list)[i] = [list[i] EXCEPT !.here = q # None /\ q \notin away /\ s[q].party = g]
  BY DEF Seated
<1> QED
  BY <1>1, <1>2 DEF Row

LEMMA InfoKeeps ==
  ASSUME PInv, UNCHANGED <<roll, founded, away, record>>,
         down # <<>>, down' = Tail(down), NEW m, m = Head(down), MapInfo(m)
  PROVE  PInv'
<1> DEFINE g == m.party
           not == NotMembers(sd, g, m.list)
           s == IF copies[g] = Absent THEN Expelled(sd, not) ELSE sd
           list == Seated(s, g, m.list)
<1>1. /\ m.op = "info" /\ up' = up /\ odd' = odd
      /\ copies' = [copies EXCEPT ![g] = list]
      /\ sd' = [q \in Players |-> IF \E i \in SeatsOf(list, q) : list[i].here
                                  THEN [s[q] EXCEPT !.sended = TRUE] ELSE s[q]]
  BY DEF MapInfo
<1>2. g \in Ids /\ m.list \in [Seats -> Row]
  BY <1>1, HeadAnswer DEF PartyAnswers
<1>3. copies \in [Ids -> Lists] /\ sd \in [Players -> Session] /\ 0 \notin Ids
  BY DEF PInv, PartyTypes, Ids
<1>4. \A q \in not : q \in Players /\ sd[q].party = g
  BY DEF NotMembers
<1>5. /\ s \in [Players -> Session]
      /\ \A q \in Players :
           /\ s[q].party = sd[q].party \/ (s[q].party = 0 /\ sd[q].party = g)
           /\ s[q].creating = sd[q].creating /\ s[q].invite = sd[q].invite /\ s[q].window = sd[q].window
  <2> HIDE DEF not
  <2>1. CASE copies[g] = Absent
    BY <1>3, <1>4, <2>1, ExpelledSession
  <2>2. CASE copies[g] # Absent
    BY <1>3, <2>2
  <2> QED
    BY <2>1, <2>2
<1> HIDE DEF s, not
<1>6. /\ list \in [Seats -> Row]
      /\ \A i \in Seats : list[i].here =>
           list[i].who \in Players /\ list[i].who \notin away /\ s[list[i].who].party = g
  BY <1>2, SeatedList
<1> HIDE DEF g, list
<1>7. /\ sd' \in [Players -> Session]
      /\ \A q \in Players : /\ sd'[q].party = s[q].party /\ sd'[q].creating = s[q].creating
                            /\ sd'[q].invite = s[q].invite /\ sd'[q].window = s[q].window
  BY <1>1, <1>5 DEF Session
<1>8. /\ copies' \in [Ids -> Lists]
      /\ copies'[g] = list /\ list # Absent /\ \A h \in Ids : h # g => copies'[h] = copies[h]
  BY <1>1, <1>2, <1>3, <1>6, ListFacts DEF Lists
<1>9. Referred'
  <2> SUFFICES ASSUME NEW h \in Ids, NEW i \in DOMAIN copies'[h], copies'[h][i].here
               PROVE  LET q == copies'[h][i].who IN
                      q \in Players /\ (<<q, "hurried">> \notin odd' => q \notin away /\ sd'[q].party = h)
    BY DEF Referred, Hurried
  <2>1. CASE h = g
    BY <1>6, <1>7, <1>8, <2>1
  <2>2. CASE h # g
    <3>1. copies'[h] = copies[h]
      BY <1>8, <2>2
    <3>2. LET q == copies[h][i].who IN
          q \in Players /\ (~Hurried(q) => q \notin away /\ sd[q].party = h)
      BY <3>1 DEF PInv, Referred
    <3>3. \A q : <<q, "hurried">> \notin odd' => ~Hurried(q)
      BY <1>1 DEF Hurried
    <3> QED
      BY <1>5, <1>7, <2>2, <3>1, <3>2, <3>3
  <2> QED
    BY <2>1, <2>2
<1>10. \A h \in Ids : /\ copies'[h] # Absent /\ copies[h] = Absent => Lists_(m, h)
                      /\ copies'[h] = Absent /\ copies[h] # Absent => Breaks(m, h)
                      /\ Breaks(m, h) => copies'[h] = Absent
  BY <1>1, <1>8 DEF Lists_, Breaks, g
<1>11. \A q \in Players : /\ sd'[q].party \in {0, sd[q].party} /\ sd'[q].creating = sd[q].creating
                          /\ sd'[q].invite = sd[q].invite /\ sd'[q].window = sd[q].window
  BY <1>5, <1>7
<1> QED
  BY <1>1, <1>7, <1>8, <1>9, <1>10, <1>11, MapForgets

LEMMA NoInfoKeeps ==
  ASSUME PInv, UNCHANGED <<roll, founded, away, record>>,
         down # <<>>, down' = Tail(down), NEW m, m = Head(down), MapNoInfo(m)
  PROVE  PInv'
<1> DEFINE g == m.party
           out == {q \in Players \ away : sd[q].party = g}
<1>1. m.op = "noinfo" /\ sd' = Expelled(sd, out) /\ UNCHANGED <<up, copies, odd>>
  BY DEF MapNoInfo
<1>2. g \in Ids
  BY <1>1, HeadAnswer DEF PartyAnswers
<1>3. copies \in [Ids -> Lists] /\ sd \in [Players -> Session]
  BY DEF PInv, PartyTypes
<1>4. copies[g] = Absent
  <2>1. down[1] = m /\ 1 \in 1..Len(down) /\ Len(down) \in Nat
    BY AtHead, SeqParts DEF PInv, Proper
  <2>2. Denies(down[1], g)
    BY <1>1, <2>1 DEF Denies
  <2>3. roll[g] = Absent /\ \A j \in 1..Len(down) : 1 < j => ~Breaks(down[j], g)
    BY <1>2, <2>1, <2>2 DEF PInv, Ended
  <2>4. \A j \in 1..Len(down) : ~Breaks(down[j], g)
    BY <1>1, <2>1, <2>3 DEF Breaks
  <2> QED
    BY <1>2, <2>1, <2>2, <2>3, <2>4 DEF PInv, Ended
<1>5. /\ sd' \in [Players -> Session]
      /\ \A q \in Players : /\ sd'[q].party = IF q \in out THEN 0 ELSE sd[q].party
                            /\ sd'[q].creating = sd[q].creating
                            /\ sd'[q].invite = sd[q].invite /\ sd'[q].window = sd[q].window
  <2> HIDE DEF out
  <2> QED
    BY <1>1, <1>3, ExpelledSession
<1>6. \A q \in Players, h \in Ids : sd[q].party = h /\ sd'[q].party # h => ~Listed(copies[h], q)
  <2> SUFFICES ASSUME NEW q \in Players, NEW h \in Ids, sd[q].party = h, sd'[q].party # h
               PROVE  ~Listed(copies[h], q)
    OBVIOUS
  <2>1. h = g
    BY <1>5
  <2> QED
    BY <1>4, <2>1, ListFacts DEF Listed, SeatsOf
<1>7. Referred'
  BY <1>1, <1>6, ReferredStays DEF PInv
<1>8. \A h : ~Breaks(m, h)
  BY <1>1 DEF Breaks
<1>9. m.op \notin {"authok", "created", "added"}
  BY <1>1
<1>10. \A q \in Players : /\ sd'[q].party \in {0, sd[q].party} /\ sd'[q].creating = sd[q].creating
                          /\ sd'[q].invite = sd[q].invite /\ sd'[q].window = sd[q].window
  BY <1>5
<1> QED
  BY <1>1, <1>3, <1>5, <1>7, <1>8, <1>9, <1>10, MapForgets

LEMMA AddedKeeps ==
  ASSUME PInv, UNCHANGED <<roll, founded, away, record>>,
         down # <<>>, down' = Tail(down), NEW m, m = Head(down), MapAdded(m)
  PROVE  PInv'
<1> DEFINE p == m.by
           g == m.party
           r == Request("leave", p, g, TRUE)
<1>1. m.op = "added" /\ copies' = copies
  BY DEF MapAdded
<1>2. p \in Players /\ g \in Ids /\ g <= founded
  BY <1>1, HeadAnswer DEF PartyAnswers
<1>3. copies \in [Ids -> Lists] /\ sd \in [Players -> Session] /\ founded \in Nat /\ 0 \notin Ids
  BY DEF PInv, PartyTypes, Ids
<1>4. \A q \in Players : sd[q].party <= founded /\ sd[q].invite <= founded
  BY DEF PInv, Proper
<1>5. GoodUp(r, founded) /\ r.op \notin Entries \cup {"reqinfo", "auth"}
  <2>1. r \in PartyRequest /\ r.op = "leave" /\ r.party = g
    BY <1>2 DEF Request, PartyRequest, PartyOps
  <2> HIDE DEF r, g
  <2> QED
    BY <1>2, <1>3, <2>1 DEF GoodUp, Entries
<1>6. (up' = up \/ up' = Append(up, r)) /\ odd \subseteq odd'
  BY DEF MapAdded, AddedInVain, Asks
<1>7. \/ sd' = sd /\ (copies[g] = Absent \/ p \in away)
      \/ /\ p \notin away /\ copies[g] # Absent
         /\ sd' = [sd EXCEPT ![p] = Joined(@, m)]
  BY DEF MapAdded, Found
<1> HIDE DEF r, p, g
<1>8. /\ sd' \in [Players -> Session]
      /\ \A q \in Players :
           /\ sd'[q].party = sd[q].party \/ (q = p /\ sd'[q].party = g)
           /\ sd'[q].creating = sd[q].creating
           /\ sd'[q].invite = sd[q].invite \/ sd'[q].invite = 0
           /\ sd'[q].window = sd[q].window
           /\ q = p /\ q \notin away /\ copies[g] # Absent => sd'[q].invite = 0
  <2>1. CASE sd' = sd /\ (copies[g] = Absent \/ p \in away)
    BY <1>3, <2>1
  <2>2. CASE sd' = [sd EXCEPT ![p] = Joined(@, m)]
    <3> DEFINE t == Joined(sd[p], m)
    <3>1. sd[p] \in Session
      BY <1>2, <1>3
    <3>2. /\ t \in Session /\ t.party \in {g, sd[p].party} /\ t.creating = sd[p].creating
          /\ t.invite = 0 /\ t.window = sd[p].window
      BY <1>2, <3>1 DEF Joined, Session, g
    <3>3. sd' = [sd EXCEPT ![p] = t]
      BY <2>2
    <3> HIDE DEF t
    <3> QED
      BY <1>2, <1>3, <3>2, <3>3
  <2> QED
    BY <1>7, <2>1, <2>2
<1>9. ~Hurried(p) => sd[p].party = 0
  <2>1. down[1] = m /\ 1 \in 1..Len(down)
    BY AtHead
  <2>2. Entering(down[1], p)
    BY <1>1, <2>1 DEF Entering, Entries, p
  <2> QED
    BY <1>2, <2>1, <2>2 DEF PInv, OneEntry
<1>10. Referred'
  <2> SUFFICES ASSUME NEW h \in Ids, NEW i \in DOMAIN copies[h], copies[h][i].here
               PROVE  LET q == copies[h][i].who IN
                      q \in Players /\ (<<q, "hurried">> \notin odd' => q \notin away /\ sd'[q].party = h)
    BY <1>1 DEF Referred, Hurried
  <2> DEFINE q == copies[h][i].who
  <2>1. q \in Players /\ (~Hurried(q) => q \notin away /\ sd[q].party = h)
    BY DEF PInv, Referred
  <2>2. <<q, "hurried">> \notin odd' => ~Hurried(q)
    BY <1>6 DEF Hurried
  <2> QED
    BY <1>3, <1>8, <1>9, <2>1, <2>2
<1>11. \A h : ~Breaks(m, h)
  BY <1>1 DEF Breaks
<1>12. \A q \in Players :
         /\ sd'[q].party <= founded /\ sd'[q].invite <= founded
         /\ sd'[q].party # 0 => sd[q].party # 0 \/ Entering(m, q)
         /\ sd'[q].creating => sd[q].creating /\ ~(m.op = "created" /\ m.by = q)
         /\ sd'[q].invite # 0 => sd'[q].invite = sd[q].invite
         /\ q \notin away /\ sd'[q].invite # 0 /\ ~sd'[q].window =>
              /\ ~sd[q].window
              /\ ~(m.op = "added" /\ m.by = q /\ m.party = sd[q].invite) \/ copies[sd[q].invite] = Absent
  BY <1>1, <1>2, <1>3, <1>4, <1>8 DEF Entering, Entries, p, g
<1>13. m.op # "authok"
  BY <1>1
<1> QED
  BY <1>1, <1>3, <1>5, <1>6, <1>8, <1>10, <1>11, <1>12, <1>13, MapStep

LEMMA LeftKeeps ==
  ASSUME PInv, UNCHANGED <<roll, founded, away, record>>,
         down # <<>>, down' = Tail(down), NEW m, m = Head(down), MapLeft(m)
  PROVE  PInv'
<1> DEFINE p == m.by
           g == m.party
           list == [i \in DOMAIN copies[g] |->
                      IF copies[g][i].who = p THEN [copies[g][i] EXCEPT !.who = None, !.here = FALSE]
                                              ELSE copies[g][i]]
<1>1. /\ m.op = "left" /\ UNCHANGED <<up, odd>>
      /\ copies' = [copies EXCEPT ![g] = list]
      /\ sd' = IF p \notin away /\ sd[p].party = g
               THEN [sd EXCEPT ![p].party = 0, ![p].sended = FALSE] ELSE sd
  BY DEF MapLeft
<1>2. p \in Players /\ g \in Ids
  BY <1>1, HeadAnswer DEF PartyAnswers
<1>3. copies \in [Ids -> Lists] /\ sd \in [Players -> Session] /\ 0 \notin Ids
  BY DEF PInv, PartyTypes, Ids
<1>4. list \in Lists /\ DOMAIN list = DOMAIN copies[g]
      /\ \A i \in DOMAIN list : list[i].here =>
           copies[g][i].here /\ copies[g][i].who # p /\ list[i].who = copies[g][i].who
  <2>1. CASE copies[g] \in [Seats -> Row]
    <3>1. ASSUME NEW i \in Seats
          PROVE  /\ list[i] \in Row
                 /\ list[i].here =>
                      copies[g][i].here /\ copies[g][i].who # p /\ list[i].who = copies[g][i].who
      <4> DEFINE row == copies[g][i]
      <4>1. row \in Row
        BY <2>1
      <4>2. list[i] = IF row.who = p THEN [row EXCEPT !.who = None, !.here = FALSE] ELSE row
        BY <2>1
      <4> HIDE DEF row
      <4>3. [row EXCEPT !.who = None, !.here = FALSE] \in Row
            /\ ~[row EXCEPT !.who = None, !.here = FALSE].here
        BY <4>1 DEF Row
      <4>4. /\ list[i] \in Row
            /\ list[i].here => row.here /\ row.who # p /\ list[i].who = row.who
        <5> HIDE DEF list
        <5> QED
          BY <4>1, <4>2, <4>3
      <4> QED
        BY <4>4 DEF row
    <3>2. DOMAIN list = Seats /\ DOMAIN copies[g] = Seats
      BY <2>1
    <3>3. list \in [Seats -> Row]
      BY <3>1, <3>2
    <3> QED
      BY <3>1, <3>2, <3>3 DEF Lists
  <2>2. CASE copies[g] = Absent
    <3>1. DOMAIN copies[g] = {} /\ DOMAIN list = {}
      BY <2>2, ListFacts
    <3>2. list = Absent
      BY <2>2, <3>1, EmptyFunction
    <3> QED
      BY <3>1, <3>2 DEF Lists
  <2> QED
    BY <1>2, <1>3, <2>1, <2>2 DEF Lists
<1> HIDE DEF list, p, g
<1>5. /\ copies' \in [Ids -> Lists]
      /\ copies'[g] = list /\ \A h \in Ids : h # g => copies'[h] = copies[h]
  BY <1>1, <1>2, <1>3, <1>4
<1>6. list = Absent <=> copies[g] = Absent
  BY <1>2, <1>3, <1>4, AbsentMapped
<1>7. /\ sd' \in [Players -> Session]
      /\ \A q \in Players :
           /\ sd'[q].party = sd[q].party \/ (q = p /\ sd[q].party = g /\ sd'[q].party = 0)
           /\ sd'[q].creating = sd[q].creating
           /\ sd'[q].invite = sd[q].invite /\ sd'[q].window = sd[q].window
  <2>1. CASE sd' = sd
    BY <1>3, <2>1
  <2>2. CASE sd[p].party = g /\ sd' = [sd EXCEPT ![p].party = 0, ![p].sended = FALSE]
    BY <1>2, <1>3, <2>2 DEF Session
  <2> QED
    BY <1>1, <2>1, <2>2
<1>8. Referred'
  <2> SUFFICES ASSUME NEW h \in Ids, NEW i \in DOMAIN copies'[h], copies'[h][i].here
               PROVE  LET q == copies'[h][i].who IN
                      q \in Players /\ (<<q, "hurried">> \notin odd' => q \notin away /\ sd'[q].party = h)
    BY DEF Referred, Hurried
  <2>1. i \in DOMAIN copies[h] /\ copies[h][i].here /\ copies[h][i].who = copies'[h][i].who
        /\ (h = g => copies[h][i].who # p)
    BY <1>4, <1>5
  <2>2. LET q == copies[h][i].who IN
        q \in Players /\ (~Hurried(q) => q \notin away /\ sd[q].party = h)
    BY <2>1 DEF PInv, Referred
  <2>3. \A q : <<q, "hurried">> \notin odd' => ~Hurried(q)
    BY <1>1 DEF Hurried
  <2> QED
    BY <1>7, <2>1, <2>2, <2>3
<1>9. \A h : ~Breaks(m, h)
  BY <1>1 DEF Breaks
<1>10. \A h \in Ids : copies'[h] = Absent <=> copies[h] = Absent
  BY <1>5, <1>6
<1>11. \A q \in Players : /\ sd'[q].party \in {0, sd[q].party} /\ sd'[q].creating = sd[q].creating
                          /\ sd'[q].invite = sd[q].invite /\ sd'[q].window = sd[q].window
  BY <1>7
<1>12. m.op \notin {"authok", "created", "added"}
  BY <1>1
<1> QED
  BY <1>1, <1>5, <1>7, <1>8, <1>9, <1>10, <1>11, <1>12, MapForgets

LEMMA BrokenKeeps ==
  ASSUME PInv, UNCHANGED <<roll, founded, away, record>>,
         down # <<>>, down' = Tail(down), NEW m, m = Head(down), MapBroken(m)
  PROVE  PInv'
<1> DEFINE g == m.party
           out == {q \in Players : \E i \in SeatsOf(copies[g], q) : copies[g][i].here}
<1>1. /\ m.op = "broken" /\ up' = up /\ odd \subseteq odd'
      /\ copies' = [copies EXCEPT ![g] = Absent]
      /\ sd' = [q \in Players |-> IF q \in out THEN [sd[q] EXCEPT !.party = 0, !.sended = FALSE]
                                               ELSE sd[q]]
  BY DEF MapBroken
<1>2. g \in Ids
  BY <1>1, HeadAnswer DEF PartyAnswers
<1>3. copies \in [Ids -> Lists] /\ sd \in [Players -> Session]
  BY DEF PInv, PartyTypes
<1>4. \A q \in out : ~Hurried(q) => sd[q].party = g
  BY <1>2 DEF PInv, Referred, SeatsOf
<1>5. \A h \in Ids : \A i \in DOMAIN copies[h] : copies[h][i].who \in out =>
        copies[h][i].who \in Players
  OBVIOUS
<1> HIDE DEF g, out
<1>6. /\ copies' \in [Ids -> Lists]
      /\ copies'[g] = Absent /\ \A h \in Ids : h # g => copies'[h] = copies[h]
  BY <1>1, <1>2, <1>3 DEF Lists
<1>7. /\ sd' \in [Players -> Session]
      /\ \A q \in Players :
           /\ sd'[q].party = sd[q].party \/ (q \in out /\ sd'[q].party = 0)
           /\ sd'[q].creating = sd[q].creating
           /\ sd'[q].invite = sd[q].invite /\ sd'[q].window = sd[q].window
  BY <1>1, <1>3 DEF Session
<1>8. Referred'
  <2> SUFFICES ASSUME NEW h \in Ids, NEW i \in DOMAIN copies'[h], copies'[h][i].here
               PROVE  LET q == copies'[h][i].who IN
                      q \in Players /\ (<<q, "hurried">> \notin odd' => q \notin away /\ sd'[q].party = h)
    BY DEF Referred, Hurried
  <2>1. h # g /\ copies'[h] = copies[h]
    BY <1>6, ListFacts
  <2>2. LET q == copies[h][i].who IN
        q \in Players /\ (~Hurried(q) => q \notin away /\ sd[q].party = h)
    BY <2>1 DEF PInv, Referred
  <2>3. \A q : <<q, "hurried">> \notin odd' => ~Hurried(q)
    BY <1>1 DEF Hurried
  <2> QED
    BY <1>4, <1>7, <2>1, <2>2, <2>3
<1>9. \A h \in Ids : Breaks(m, h) <=> h = g
  BY <1>1 DEF Breaks, g
<1>10. \A h \in Ids : /\ copies'[h] # Absent /\ copies[h] = Absent => Lists_(m, h)
                      /\ copies'[h] = Absent /\ copies[h] # Absent => Breaks(m, h)
                      /\ Breaks(m, h) => copies'[h] = Absent
  BY <1>6, <1>9
<1>11. \A q \in Players : /\ sd'[q].party \in {0, sd[q].party} /\ sd'[q].creating = sd[q].creating
                          /\ sd'[q].invite = sd[q].invite /\ sd'[q].window = sd[q].window
  BY <1>7
<1>12. m.op \notin {"authok", "created", "added"}
  BY <1>1
<1> QED
  BY <1>1, <1>6, <1>7, <1>8, <1>10, <1>11, <1>12, MapForgets

\* A message about some rows of a party's list.
LEMMA RowsKeep ==
  ASSUME PInv, UNCHANGED <<roll, founded, away, record, up, odd, sd>>,
         down # <<>>, down' = Tail(down), NEW m, m = Head(down), m.op \in {"moved", "led"},
         NEW g \in Ids, copies[g] \in [Seats -> Row],
         NEW list \in [Seats -> Row], copies' = [copies EXCEPT ![g] = list],
         \A i \in Seats : list[i].here =>
           \/ copies[g][i].here /\ copies[g][i].who = list[i].who
           \/ list[i].who \in Players /\ list[i].who \notin away /\ sd[list[i].who].party = g
  PROVE  PInv'
<1>1. copies \in [Ids -> Lists] /\ sd \in [Players -> Session]
  BY DEF PInv, PartyTypes
<1>2. copies' \in [Ids -> Lists] /\ copies'[g] = list /\ \A h \in Ids : h # g => copies'[h] = copies[h]
  BY <1>1 DEF Lists
<1>3. list # Absent /\ copies[g] # Absent /\ DOMAIN list = Seats /\ DOMAIN copies[g] = Seats
  BY ListFacts
<1>4. \A h : ~Breaks(m, h)
  BY DEF Breaks
<1>5. Referred'
  <2> SUFFICES ASSUME NEW h \in Ids, NEW i \in DOMAIN copies'[h], copies'[h][i].here
               PROVE  LET q == copies'[h][i].who IN
                      q \in Players /\ (~Hurried(q) => q \notin away /\ sd[q].party = h)
    BY DEF Referred, Hurried
  <2>1. CASE h # g
    BY <1>2, <2>1 DEF PInv, Referred
  <2>2. CASE h = g /\ copies[g][i].here /\ copies[g][i].who = list[i].who
    BY <1>2, <1>3, <2>2 DEF PInv, Referred
  <2>3. CASE h = g /\ list[i].who \in Players /\ list[i].who \notin away /\ sd[list[i].who].party = g
    BY <1>2, <2>3
  <2> QED
    BY <1>2, <1>3, <2>1, <2>2, <2>3
<1>6. \A h \in Ids : copies'[h] = Absent <=> copies[h] = Absent
  BY <1>2, <1>3
<1>7. m.op \notin {"authok", "created", "added"}
  OBVIOUS
<1> QED
  BY <1>1, <1>2, <1>4, <1>5, <1>6, <1>7, MapForgets

LEMMA MovedKeeps ==
  ASSUME PInv, UNCHANGED <<roll, founded, away, record>>,
         down # <<>>, down' = Tail(down), NEW m, m = Head(down), MapMoved(m)
  PROVE  PInv'
<1> DEFINE g == m.party
           k == Min(SeatsOf(copies[g], m.by))
           moved == [copies[g] EXCEPT ![k].on = m.on]
           list == Seated(sd, g, moved)
<1>1. /\ m.op = "moved" /\ UNCHANGED <<up, sd, odd>>
      /\ copies' = IF Listed(copies[g], m.by) THEN [copies EXCEPT ![g] = list] ELSE copies
  BY DEF MapMoved
<1>2. g \in Ids /\ m.on \in BOOLEAN
  BY <1>1, HeadAnswer DEF PartyAnswers
<1> HIDE DEF k
<1>3. copies \in [Ids -> Lists] /\ sd \in [Players -> Session]
  BY DEF PInv, PartyTypes
<1>4. CASE ~Listed(copies[g], m.by)
  <2>1. copies' = copies /\ \A h : ~Breaks(m, h)
    BY <1>1, <1>4 DEF Breaks
  <2>2. Referred'
    BY <1>1, <2>1, ReferredStays DEF PInv
  <2>3. m.op \notin {"authok", "created", "added"}
    BY <1>1
  <2> QED
    BY <1>1, <1>3, <2>1, <2>2, <2>3, MapForgets
<1>5. CASE Listed(copies[g], m.by)
  <2>1. copies[g] \in [Seats -> Row]
    BY <1>2, <1>3, <1>5, ListFacts DEF Listed, SeatsOf, Lists
  <2>2. moved \in [Seats -> Row]
    BY <1>2, <2>1 DEF Row
  <2>3. /\ list \in [Seats -> Row]
        /\ \A i \in Seats : list[i].here =>
             list[i].who \in Players /\ list[i].who \notin away /\ sd[list[i].who].party = g
    <3> HIDE DEF moved, g
    <3> QED
      BY <1>2, <2>2, SeatedList
  <2>4. m.op \in {"moved", "led"} /\ copies' = [copies EXCEPT ![g] = list]
    BY <1>1, <1>5
  <2>5. UNCHANGED <<roll, founded, away, record, up, odd, sd>>
    BY <1>1
  <2>6. \A i \in Seats : list[i].here =>
           \/ copies[g][i].here /\ copies[g][i].who = list[i].who
           \/ list[i].who \in Players /\ list[i].who \notin away /\ sd[list[i].who].party = g
    BY <2>3
  <2> HIDE DEF list, g
  <2> QED
    BY <1>2, <2>1, <2>3, <2>4, <2>5, <2>6, RowsKeep
<1> QED
  BY <1>4, <1>5

LEMMA LedKeeps ==
  ASSUME PInv, UNCHANGED <<roll, founded, away, record>>,
         down # <<>>, down' = Tail(down), NEW m, m = Head(down), MapLed(m)
  PROVE  PInv'
<1> DEFINE g == m.party
           k == Min(SeatsOf(copies[g], m.old))
           n == Min(SeatsOf(copies[g], m.by))
           list == [[copies[g] EXCEPT ![k].leader = FALSE] EXCEPT ![n].leader = TRUE]
           both == Listed(copies[g], m.old) /\ Listed(copies[g], m.by)
<1>1. /\ m.op = "led" /\ UNCHANGED <<up, sd, odd>>
      /\ copies' = IF both THEN [copies EXCEPT ![g] = list] ELSE copies
  BY DEF MapLed
<1>2. g \in Ids
  BY <1>1, HeadAnswer DEF PartyAnswers
<1> HIDE DEF k, n
<1>3. copies \in [Ids -> Lists] /\ sd \in [Players -> Session]
  BY DEF PInv, PartyTypes
<1>4. CASE ~both
  <2>1. copies' = copies /\ \A h : ~Breaks(m, h)
    BY <1>1, <1>4 DEF Breaks
  <2>2. Referred'
    BY <1>1, <2>1, ReferredStays DEF PInv
  <2>3. m.op \notin {"authok", "created", "added"}
    BY <1>1
  <2> QED
    BY <1>1, <1>3, <2>1, <2>2, <2>3, MapForgets
<1>5. CASE both
  <2>1. copies[g] \in [Seats -> Row]
    BY <1>2, <1>3, <1>5, ListFacts DEF Listed, SeatsOf, Lists
  <2> DEFINE first == [copies[g] EXCEPT ![k].leader = FALSE]
  <2>2. /\ first \in [Seats -> Row]
        /\ \A i \in Seats : first[i].who = copies[g][i].who /\ first[i].here = copies[g][i].here
    BY <2>1 DEF Row
  <2>3. list = [first EXCEPT ![n].leader = TRUE]
    OBVIOUS
  <2> HIDE DEF first, list
  <2>4. /\ list \in [Seats -> Row]
        /\ \A i \in Seats : list[i].who = first[i].who /\ list[i].here = first[i].here
    BY <2>2, <2>3 DEF Row
  <2>5. m.op \in {"moved", "led"} /\ copies' = [copies EXCEPT ![g] = list]
    BY <1>1, <1>5
  <2>6. \A i \in Seats : list[i].here =>
           \/ copies[g][i].here /\ copies[g][i].who = list[i].who
           \/ list[i].who \in Players /\ list[i].who \notin away /\ sd[list[i].who].party = g
    BY <2>2, <2>4
  <2>7. UNCHANGED <<roll, founded, away, record, up, odd, sd>>
    BY <1>1
  <2> HIDE DEF g
  <2> QED
    BY <1>2, <2>1, <2>4, <2>5, <2>6, <2>7, RowsKeep
<1> QED
  BY <1>4, <1>5

LEMMA MapKeeps ==
  ASSUME PInv, MapReceivesParty, away' = away
  PROVE  PInv'
<1> DEFINE m == Head(down)
<1>1. /\ down # <<>> /\ down' = Tail(down) /\ UNCHANGED <<roll, founded, away, record>>
      /\ \/ MapCreated(m) \/ MapInfo(m) \/ MapNoInfo(m) \/ MapAdded(m) \/ MapLeft(m)
         \/ MapBroken(m) \/ MapMoved(m) \/ MapLed(m)
  BY DEF MapReceivesParty
<1>2. \E x : x = m
  OBVIOUS
<1> HIDE DEF m
<1>3. m = Head(down)
  BY DEF m
<1> QED
  BY <1>1, <1>3, CreatedKeeps, InfoKeeps, NoInfoKeeps, AddedKeeps, LeftKeeps, BrokenKeeps,
     MovedKeeps, LedKeeps

-----------------------------------------------------------------------------
(* The handlers of the char server *)

LEMMA HeadRequest ==
  ASSUME PInv, up # <<>>, NEW m, m = Head(up), m.op \in PartyOps
  PROVE  /\ m.by \in Players /\ m.party \in {0} \cup Ids /\ m.party <= founded /\ m.on \in BOOLEAN
         /\ m.op # "create" => m.party \in Ids
<1>1. Len(up) \in Nat /\ Len(up) >= 1 /\ Head(up) = up[1]
  BY SeqParts DEF PInv, Proper
<1>2. 1 \in 1..Len(up)
  BY <1>1
<1>3. GoodUp(m, founded)
  BY <1>1, <1>2 DEF PInv, Proper
<1> QED
  BY <1>3 DEF GoodUp, PartyRequest

\* An answer about party g that fits what n parties were founded.
Fitting(op, p, g, n) ==
  /\ op \in PartyAnswers \ {"info"} /\ g \in {0} \cup Ids /\ g <= n
  /\ op # "created" => g # 0
  /\ op \in {"created", "added", "left", "moved", "led"} => p \in Players

Tells(x, op, p, g, n) == GoodDown(x, n) /\ x.op = op /\ x.by = p /\ x.party = g

LEMMA ToldOf ==
  ASSUME NEW n, NEW op, NEW p, NEW g, Fitting(op, p, g, n), NEW x,
         x.op = op, x.by = p, x.party = g, x.on \in BOOLEAN, x.list = Absent
  PROVE  Tells(x, op, p, g, n)
BY DEF Fitting, Tells, GoodDown, PartyAnswers, Lists

LEMMA Answered ==
  ASSUME NEW n, NEW op, NEW p, NEW g, Fitting(op, p, g, n)
  PROVE  Tells(Answer(op, p, g), op, p, g, n)
<1> DEFINE x == Answer(op, p, g)
<1>1. x.op = op /\ x.by = p /\ x.party = g /\ x.on \in BOOLEAN /\ x.list = Absent
  BY DEF Answer
<1> HIDE DEF x
<1>2. Tells(x, op, p, g, n)
  BY <1>1, ToldOf
<1> QED
  BY <1>2 DEF x

LEMMA AnsweredOn ==
  ASSUME NEW n, NEW op, NEW p, NEW g, Fitting(op, p, g, n), NEW on \in BOOLEAN
  PROVE  Tells([Answer(op, p, g) EXCEPT !.on = on], op, p, g, n)
<1> DEFINE x == [Answer(op, p, g) EXCEPT !.on = on]
<1>1. x.op = op /\ x.by = p /\ x.party = g /\ x.on \in BOOLEAN /\ x.list = Absent
  BY DEF Answer
<1> HIDE DEF x
<1>2. Tells(x, op, p, g, n)
  BY <1>1, ToldOf
<1> QED
  BY <1>2 DEF x

LEMMA AnsweredOld ==
  ASSUME NEW n, NEW op, NEW p, NEW g, Fitting(op, p, g, n), NEW old
  PROVE  Tells([Answer(op, p, g) EXCEPT !.old = old], op, p, g, n)
<1> DEFINE x == [Answer(op, p, g) EXCEPT !.old = old]
<1>1. x.op = op /\ x.by = p /\ x.party = g /\ x.on \in BOOLEAN /\ x.list = Absent
  BY DEF Answer
<1> HIDE DEF x
<1>2. Tells(x, op, p, g, n)
  BY <1>1, ToldOf
<1> QED
  BY <1>2 DEF x

Listing(g, list, n) ==
  g \in Ids /\ g <= n /\ list \in [Seats -> Row] /\ \A i \in Seats : ~list[i].here

LEMMA Informed ==
  ASSUME NEW n, NEW g, NEW list, Listing(g, list, n)
  PROVE  LET x == Info(g, list) IN
         GoodDown(x, n) /\ x.op = "info" /\ x.party = g
<1> DEFINE x == Info(g, list)
<1>1. x.op = "info" /\ x.party = g /\ x.on \in BOOLEAN /\ x.list = list
  BY DEF Info, Answer
<1> HIDE DEF x
<1>2. GoodDown(x, n)
  BY <1>1, ListFacts DEF Listing, GoodDown, PartyAnswers, Lists, Ids
<1> QED
  BY <1>1, <1>2 DEF x

\* A message nobody looks at.
LEMMA Blank_ ==
  LET y == [op |-> "checked"] IN
  /\ y.op \notin Entries \cup {"authok"}
  /\ \A n : GoodDown(y, n)
  /\ \A g : ~Denies(y, g) /\ ~Breaks(y, g) /\ ~Lists_(y, g)
<1> DEFINE y == [op |-> "checked"]
<1>1. y.op = "checked"
  OBVIOUS
<1> HIDE DEF y
<1>2. /\ y.op \notin Entries \cup {"authok"}
      /\ \A n : GoodDown(y, n)
      /\ \A g : ~Denies(y, g) /\ ~Breaks(y, g) /\ ~Lists_(y, g)
  BY <1>1 DEF GoodDown, Denies, Breaks, Lists_, Entries, PartyAnswers
<1> QED
  BY <1>2 DEF y

\* The char server answers nothing.
LEMMA CharSilent ==
  ASSUME PInv, UNCHANGED <<copies, sd, odd, away, down, founded, record, roll>>,
         up # <<>>, up' = Tail(up), NEW m, m = Head(up), m.op \notin {"auth", "create", "add"}
  PROVE  PInv'
<1> DEFINE y == [op |-> "checked"]
<1>1. /\ y.op \notin Entries /\ y.op # "authok" /\ GoodDown(y, founded)
      /\ \A g : ~Denies(y, g) /\ ~Breaks(y, g) /\ ~Lists_(y, g)
  BY Blank_
<1> HIDE DEF y
<1>2. down \o <<>> = down
  <2>1. PICK S : down \in Seq(S)
    BY DEF PInv, Proper, IsSeq
  <2> QED
    BY <2>1, ConcatEmptySeq
<1>3. /\ founded \in 0..MaxParties /\ founded <= founded /\ roll \in [Ids -> Lists]
      /\ \A g \in Ids : /\ roll[g] # Absent => g <= founded
                        /\ \A i \in DOMAIN roll[g] : ~roll[g][i].here
      /\ DOMAIN record = Players /\ \A p \in Players : record[p].party \in 0..founded
  BY DEF PInv, PartyTypes, Proper
<1> DEFINE b == <<>>
<1>4. b \in {<<>>, <<y>>, <<y, y>>} /\ b # <<y, y>> /\ down' = down \o b
  BY <1>2, TwoMessages, NoMessage
<1>5. CharWell(m, y, y, b)
  BY <1>1, <1>3, <1>4 DEF CharWell
<1> QED
  BY <1>5, CharStep

\* The list of party g changes, and the char server answers with one message
\* or two.
Replies(m, x, y, g, list) ==
  /\ UNCHANGED <<copies, sd, odd, away, founded>>
  /\ up # <<>> /\ up' = Tail(up) /\ m = Head(up) /\ m.op \notin {"auth", "create"}
  /\ down' = down \o <<x>> \/ down' = down \o <<x, y>>
  /\ GoodDown(x, founded) /\ GoodDown(y, founded) /\ x.op # "authok" /\ y.op # "authok"
  /\ g \in Ids /\ roll[g] # Absent /\ roll' = [roll EXCEPT ![g] = list]
  /\ list \in [Seats -> Row] \cup {Absent} /\ \A i \in DOMAIN list : ~list[i].here
  /\ DOMAIN record' = Players /\ \A p \in Players : record'[p].party \in 0..founded
  /\ x.op \in Entries => m.op \in Entries /\ m.by = x.by
  /\ y.op \notin Entries /\ x.op \notin {"noinfo", "broken"} /\ y.op # "noinfo"
  /\ x.op \in {"created", "info"} => x.party = g /\ list # Absent
  /\ y.op = "info" => y.party = g /\ list # Absent
  /\ y.op = "broken" => y.party = g /\ list = Absent
  /\ list = Absent => down' = down \o <<x, y>> /\ y.op = "broken"
  /\ m.op = "add" => x.op = "added" /\ x.by = m.by /\ x.party = m.party

LEMMA CharReplies ==
  ASSUME PInv, NEW m, NEW x, NEW y, NEW g, NEW list, Replies(m, x, y, g, list)
  PROVE  PInv'
<1> USE DEF Replies
<1>1. PICK b \in {<<x>>, <<x, y>>} : /\ down' = down \o b
                                     /\ b = <<x, y>> => down' = down \o <<x, y>>
                                     /\ list = Absent => b = <<x, y>>
  OBVIOUS
<1>2. b \in {<<>>, <<x>>, <<x, y>>} /\ b # <<>>
  BY <1>1, OneMessage, TwoMessages, NoMessage
<1>3. /\ founded \in 0..MaxParties /\ founded <= founded /\ roll \in [Ids -> Lists]
      /\ \A h \in Ids : /\ roll[h] # Absent => h <= founded
                        /\ \A i \in DOMAIN roll[h] : ~roll[h][i].here
  BY DEF PInv, PartyTypes, Proper
<1>4. /\ roll' \in [Ids -> Lists] /\ roll'[g] = list
      /\ \A h \in Ids : h # g => roll'[h] = roll[h]
  BY <1>3 DEF Lists
<1>5. \A h \in Ids : /\ roll'[h] # Absent => h <= founded
                     /\ \A i \in DOMAIN roll'[h] : ~roll'[h][i].here
  BY <1>3, <1>4
<1>6. \A h : ~Denies(y, h) /\ ~Denies(x, h) /\ ~Breaks(x, h)
  BY DEF Denies, Breaks
<1>7. x.op \in Entries => Entering(m, x.by)
  BY DEF Entering
<1>8. \A h \in Ids :
        /\ roll'[h] = Absent /\ roll[h] # Absent => b = <<x, y>> /\ Breaks(y, h) /\ ~Lists_(x, h)
        /\ roll'[h] # Absent /\ roll[h] = Absent => h > founded
        /\ Lists_(x, h) => roll'[h] # Absent
        /\ Lists_(y, h) => roll'[h] # Absent
        /\ b = <<x, y>> /\ Breaks(y, h) => roll'[h] = Absent /\ roll[h] # Absent
  <2> SUFFICES ASSUME NEW h \in Ids
               PROVE  /\ roll'[h] = Absent /\ roll[h] # Absent => b = <<x, y>> /\ Breaks(y, h) /\ ~Lists_(x, h)
                      /\ roll'[h] # Absent /\ roll[h] = Absent => h > founded
                      /\ Lists_(x, h) => roll'[h] # Absent
                      /\ Lists_(y, h) => roll'[h] # Absent
                      /\ b = <<x, y>> /\ Breaks(y, h) => roll'[h] = Absent /\ roll[h] # Absent
    OBVIOUS
  <2>1. roll'[h] = IF h = g THEN list ELSE roll[h]
    BY <1>4
  <2>2. Lists_(x, h) => h = g /\ list # Absent
    BY DEF Lists_
  <2>3. Lists_(y, h) => h = g /\ list # Absent
    BY DEF Lists_, Entries
  <2>4. b = <<x, y>> /\ Breaks(y, h) => h = g /\ list = Absent
    BY <1>1 DEF Breaks
  <2>5. list = Absent => b = <<x, y>> /\ Breaks(y, g)
    BY <1>1 DEF Breaks
  <2> QED
    BY <2>1, <2>2, <2>3, <2>4, <2>5
<1>9. founded' \in 0..MaxParties /\ founded <= founded' /\ founded' = founded /\ m.op # "auth"
  BY <1>3
<1>10. UNCHANGED <<copies, sd, odd, away>>
  OBVIOUS
<1>11. /\ b # <<>> /\ x.op \in Entries => Entering(m, x.by)
       /\ m.op = "create" => b # <<>> /\ x.op = "created" /\ x.by = m.by
       /\ m.op = "add" => b # <<>> /\ x.op = "added" /\ x.by = m.by /\ x.party = m.party
       /\ \A h \in Ids : ~Denies(y, h) /\ ~Breaks(x, h)
  BY <1>2, <1>6, <1>7
<1>12. \A h \in Ids :
         /\ roll'[h] = Absent /\ roll[h] # Absent => b = <<x, y>> /\ Breaks(y, h) /\ ~Lists_(x, h)
         /\ roll'[h] # Absent /\ roll[h] = Absent => h > founded
         /\ b # <<>> /\ Lists_(x, h) => roll'[h] # Absent
         /\ b = <<x, y>> /\ Lists_(y, h) => roll'[h] # Absent
         /\ b = <<x, y>> /\ Breaks(y, h) => roll'[h] = Absent /\ roll[h] # Absent
         /\ b # <<>> /\ Denies(x, h) => b = <<x>> /\ roll'[h] = Absent /\ roll[h] = Absent /\ Asked(m, h)
  BY <1>6, <1>8
<1>13. \A h \in Ids : /\ roll'[h] # Absent => h <= founded'
                      /\ \A i \in DOMAIN roll'[h] : ~roll'[h][i].here
  BY <1>5, <1>9
<1>14. GoodDown(x, founded') /\ GoodDown(y, founded')
       /\ DOMAIN record' = Players /\ \A p \in Players : record'[p].party \in 0..founded'
  BY <1>9
<1>15. roll' \in [Ids -> Lists] /\ down' = down \o b
  BY <1>1, <1>4
<1> QED
  <2>1. CharWell(m, x, y, b)
    BY <1>2, <1>9, <1>10, <1>11, <1>12, <1>13, <1>14, <1>15 DEF CharWell
  <2> QED
    BY <2>1, CharStep

\* A list with one seat taken over.
LEMMA ReseatedList ==
  ASSUME NEW list \in Lists, list # Absent, \A i \in DOMAIN list : ~list[i].here,
         NEW i, NEW row \in Row, ~row.here
  PROVE  LET new == [list EXCEPT ![i] = row] IN
         new \in [Seats -> Row] /\ \A j \in Seats : ~new[j].here
<1>1. list \in [Seats -> Row]
  BY DEF Lists
<1> QED
  BY <1>1

LEMMA CharCreateKeeps ==
  ASSUME PInv, UNCHANGED <<copies, sd, odd, away>>,
         up # <<>>, up' = Tail(up), NEW m, m = Head(up), CharCreate(m)
  PROVE  PInv'
<1>1. m.op = "create" /\ record' = record /\ m.by \in Players
  BY HeadRequest DEF CharCreate, PartyOps
<1>2. /\ founded \in 0..MaxParties /\ roll \in [Ids -> Lists]
      /\ \A h \in Ids : /\ roll[h] # Absent => h <= founded
                        /\ \A i \in DOMAIN roll[h] : ~roll[h][i].here
      /\ DOMAIN record = Players /\ \A p \in Players : record[p].party \in 0..founded
  BY DEF PInv, PartyTypes, Proper
<1>3. 0 \notin Ids /\ MaxParties \in Nat
  BY PartyAssumption DEF Ids
<1>4. ASSUME NEW list, list = [Nobody EXCEPT ![1] = Member(m.by, TRUE)],
             founded + 1 \in Ids, founded' = founded + 1, roll' = [roll EXCEPT ![founded + 1] = list],
             down' = down \o <<Answer("created", m.by, founded + 1), Info(founded + 1, list)>>
      PROVE  PInv'
  <2> DEFINE g == founded + 1
  <2>1. list \in [Seats -> Row] /\ \A i \in Seats : ~list[i].here
    <3>1. Member(m.by, TRUE) \in Row /\ ~Member(m.by, TRUE).here
      BY <1>1 DEF Member, Row
    <3>2. \A i \in DOMAIN Nobody : ~Nobody[i].here
      BY ListFacts
    <3> QED
      BY <1>4, <3>1, <3>2, ListFacts, ReseatedList
  <2>2. g \in Ids /\ g \in 0..MaxParties /\ founded' = g /\ founded < g /\ founded \in Nat
    BY <1>2, <1>4 DEF Ids
  <2> DEFINE x == Answer("created", m.by, g)
             y == Info(g, list)
  <2>3. GoodDown(x, g) /\ x.op = "created" /\ x.by = m.by /\ x.party = g
    <3>1. Fitting("created", m.by, g, g)
      BY <1>1, <2>2, <1>3 DEF Fitting, PartyAnswers
    <3> HIDE DEF g
    <3> QED
      BY <3>1, Answered DEF Tells
  <2>4. GoodDown(y, g) /\ y.op = "info" /\ y.party = g
    <3>1. Listing(g, list, g)
      BY <2>1, <2>2 DEF Listing
    <3> HIDE DEF g
    <3> QED
      BY <3>1, Informed
  <2> DEFINE b == <<x, y>>
  <2>5. b \in {<<>>, <<x>>, <<x, y>>} /\ b # <<>> /\ b # <<x>> /\ down' = down \o b
    BY <1>4, OneMessage, TwoMessages, NoMessage
  <2>6. roll' = [roll EXCEPT ![g] = list]
    BY <1>4
  <2> HIDE DEF x, y, b, g
  <2>7. /\ roll' \in [Ids -> Lists] /\ roll'[g] = list /\ list # Absent /\ DOMAIN list = Seats
        /\ \A h \in Ids : h # g => roll'[h] = roll[h]
    BY <1>2, <2>1, <2>2, <2>6, ListFacts DEF Lists
  <2>8. \A h \in Ids : /\ roll'[h] # Absent => h <= founded'
                       /\ \A i \in DOMAIN roll'[h] : ~roll'[h][i].here
    <3> TAKE h \in Ids
    <3>1. CASE h = g
      BY <2>1, <2>2, <2>7, <3>1
    <3>2. CASE h # g
      BY <1>2, <2>2, <2>7, <3>2 DEF Ids
    <3> QED
      BY <3>1, <3>2
  <2>9. DOMAIN record' = Players /\ \A p \in Players : record'[p].party \in 0..founded'
    BY <1>1, <1>2, <2>2
  <2>10. \A h \in Ids :
           /\ roll'[h] = Absent => roll[h] = Absent
           /\ roll'[h] # Absent /\ roll[h] = Absent => h > founded
           /\ Lists_(x, h) \/ Lists_(y, h) => roll'[h] # Absent
           /\ ~Breaks(x, h) /\ ~Breaks(y, h) /\ ~Denies(x, h) /\ ~Denies(y, h)
    <3> TAKE h \in Ids
    <3>1. roll[g] = Absent
      BY <1>2, <2>2
    <3>2. (Lists_(x, h) \/ Lists_(y, h) => h = g)
          /\ ~Breaks(x, h) /\ ~Breaks(y, h) /\ ~Denies(x, h) /\ ~Denies(y, h)
      BY <2>3, <2>4 DEF Lists_, Breaks, Denies
    <3> QED
      BY <2>2, <2>7, <3>1, <3>2
  <2>11. Entering(m, m.by) /\ y.op \notin Entries /\ x.op # "authok" /\ y.op # "authok"
    BY <1>1, <2>3, <2>4 DEF Entering, Entries
  <2>12. founded <= founded' /\ founded' \in 0..MaxParties
    BY <2>2
  <2>13. CharWell(m, x, y, b)
    BY <1>1, <2>2, <2>3, <2>4, <2>5, <2>7, <2>8, <2>9, <2>10, <2>11, <2>12 DEF CharWell
  <2> QED
    BY <2>13, CharStep
<1>5. ASSUME down' = down \o <<Answer("created", m.by, 0)>>, UNCHANGED <<roll, founded>>
      PROVE  PInv'
  <2> DEFINE x == Answer("created", m.by, 0)
             y == [op |-> "checked"]
             b == <<x>>
  <2>1. GoodDown(x, founded) /\ x.op = "created" /\ x.by = m.by /\ x.party = 0
    <3>1. Fitting("created", m.by, 0, founded)
      BY <1>1, <1>2 DEF Fitting, PartyAnswers
    <3> QED
      BY <3>1, Answered DEF Tells
  <2>2. /\ y.op \notin Entries /\ y.op # "authok" /\ GoodDown(y, founded)
        /\ \A g : ~Denies(y, g) /\ ~Breaks(y, g) /\ ~Lists_(y, g)
    BY Blank_
  <2>3. b \in {<<>>, <<x>>, <<x, y>>} /\ b # <<>> /\ b # <<x, y>> /\ down' = down \o b
    BY <1>5, OneMessage, TwoMessages, NoMessage
  <2> HIDE DEF x, y, b
  <2>4. \A h \in Ids : ~Lists_(x, h) /\ ~Breaks(x, h) /\ ~Denies(x, h)
    BY <1>3, <2>1 DEF Lists_, Breaks, Denies
  <2>5. Entering(m, m.by) /\ x.op # "authok"
    BY <1>1, <2>1 DEF Entering, Entries
  <2>6. CharWell(m, x, y, b)
    BY <1>1, <1>2, <1>5, <2>1, <2>2, <2>3, <2>4, <2>5 DEF CharWell
  <2> QED
    BY <2>6, CharStep
<1> QED
  BY <1>4, <1>5 DEF CharCreate, Answers

LEMMA CharInfoKeeps ==
  ASSUME PInv, UNCHANGED <<copies, sd, odd, away>>,
         up # <<>>, up' = Tail(up), NEW m, m = Head(up), CharInfo(m)
  PROVE  PInv'
<1> DEFINE g == m.party
           z == [op |-> "checked"]
<1>1. m.op = "reqinfo" /\ UNCHANGED <<record, roll, founded>> /\ g \in Ids /\ g <= founded
  BY HeadRequest DEF CharInfo, PartyOps
<1>2. /\ founded \in 0..MaxParties /\ roll \in [Ids -> Lists]
      /\ \A h \in Ids : /\ roll[h] # Absent => h <= founded
                        /\ \A i \in DOMAIN roll[h] : ~roll[h][i].here
      /\ DOMAIN record = Players /\ \A p \in Players : record[p].party \in 0..founded
  BY DEF PInv, PartyTypes, Proper
<1>3. /\ z.op \notin Entries /\ z.op # "authok" /\ GoodDown(z, founded) /\ z.op = "checked"
      /\ \A h : ~Denies(z, h) /\ ~Breaks(z, h) /\ ~Lists_(z, h)
  BY Blank_
<1> HIDE DEF z
<1>4. CASE roll[g] # Absent
  <2> DEFINE x == Info(g, roll[g])
  <2>1. down' = down \o <<x>>
    BY <1>4 DEF CharInfo, Answers
  <2>2. roll[g] \in [Seats -> Row] /\ \A i \in Seats : ~roll[g][i].here
    BY <1>1, <1>2, <1>4, ListFacts DEF Lists
  <2>3. GoodDown(x, founded) /\ x.op = "info" /\ x.party = g
    <3>1. Listing(g, roll[g], founded)
      BY <1>1, <2>2 DEF Listing
    <3> HIDE DEF g
    <3> QED
      BY <3>1, Informed
  <2>4. roll' = [roll EXCEPT ![g] = roll[g]]
    BY <1>1, <1>2
  <2> HIDE DEF x
  <2>5. Replies(m, x, z, g, roll[g])
    BY <1>1, <1>2, <1>3, <1>4, <2>1, <2>2, <2>3, <2>4, ListFacts DEF Replies, Entries
  <2> QED
    BY <2>5, CharReplies
<1>5. CASE roll[g] = Absent
  <2> DEFINE x == Answer("noinfo", None, g)
             b == <<x>>
  <2>1. GoodDown(x, founded) /\ x.op = "noinfo" /\ x.party = g
    <3>1. Fitting("noinfo", None, g, founded)
      BY <1>1, <1>2 DEF Ids, Fitting, PartyAnswers
    <3> HIDE DEF g
    <3> QED
      BY <3>1, Answered DEF Tells
  <2>2. b \in {<<>>, <<x>>, <<x, z>>} /\ b # <<>> /\ b # <<x, z>> /\ down' = down \o b
    BY <1>5, OneMessage, TwoMessages, NoMessage DEF CharInfo, Answers
  <2> HIDE DEF x
  <2>3. \A h \in Ids : ~Lists_(x, h) /\ ~Breaks(x, h) /\ (Denies(x, h) => h = g)
    BY <2>1 DEF Lists_, Breaks, Denies
  <2>4. Asked(m, g) /\ x.op \notin Entries \cup {"authok"}
    BY <1>1, <2>1 DEF Asked, Entries
  <2>6. CharWell(m, x, z, b)
    BY <1>1, <1>2, <1>3, <1>5, <2>1, <2>2, <2>3, <2>4 DEF CharWell
  <2> QED
    BY <2>6, CharStep
<1> QED
  BY <1>4, <1>5

LEMMA CharAddKeeps ==
  ASSUME PInv, UNCHANGED <<copies, sd, odd, away>>,
         up # <<>>, up' = Tail(up), NEW m, m = Head(up), CharAdd(m)
  PROVE  PInv'
<1> DEFINE g == m.party
           z == [op |-> "checked"]
<1>1. /\ m.op = "add" /\ UNCHANGED <<record, founded>> /\ g \in Ids /\ g <= founded /\ m.by \in Players
      /\ g # 0
  BY HeadRequest DEF CharAdd, PartyOps, Ids
<1>2. /\ founded \in 0..MaxParties /\ roll \in [Ids -> Lists]
      /\ \A h \in Ids : /\ roll[h] # Absent => h <= founded
                        /\ \A i \in DOMAIN roll[h] : ~roll[h][i].here
      /\ DOMAIN record = Players /\ \A p \in Players : record[p].party \in 0..founded
  BY DEF PInv, PartyTypes, Proper
<1>3. /\ z.op \notin Entries /\ z.op # "authok" /\ GoodDown(z, founded) /\ z.op = "checked"
      /\ \A h : ~Denies(z, h) /\ ~Breaks(z, h) /\ ~Lists_(z, h)
  BY Blank_
<1> HIDE DEF z
<1>4. CASE down' = down \o <<[Answer("added", m.by, g) EXCEPT !.on = FALSE]>> /\ UNCHANGED roll
  <2> DEFINE x == [Answer("added", m.by, g) EXCEPT !.on = FALSE]
             b == <<x>>
  <2>1. GoodDown(x, founded) /\ x.op = "added" /\ x.party = g /\ x.by = m.by
    <3>1. Fitting("added", m.by, g, founded)
      BY <1>1 DEF Fitting, PartyAnswers
    <3>2. Tells(x, "added", m.by, g, founded)
      BY <3>1, AnsweredOn
    <3> QED
      BY <3>2 DEF Tells
  <2>2. b \in {<<>>, <<x>>, <<x, z>>} /\ b # <<>> /\ b # <<x, z>> /\ down' = down \o b
    BY <1>4, OneMessage, TwoMessages, NoMessage
  <2> HIDE DEF x
  <2>3. \A h \in Ids : ~Lists_(x, h) /\ ~Breaks(x, h) /\ ~Denies(x, h)
    BY <2>1 DEF Lists_, Breaks, Denies
  <2>4. Entering(m, x.by) /\ x.op # "authok"
    BY <1>1, <2>1 DEF Entering, Entries
  <2>5. \A h \in Ids :
          /\ roll'[h] = Absent /\ roll[h] # Absent => b = <<x, z>> /\ Breaks(z, h) /\ ~Lists_(x, h)
          /\ roll'[h] # Absent /\ roll[h] = Absent => h > founded
          /\ ~Lists_(x, h) /\ ~Lists_(z, h) /\ ~Breaks(z, h) /\ ~Denies(x, h)
          /\ ~Denies(z, h) /\ ~Breaks(x, h)
    BY <1>3, <1>4, <2>3
  <2>6. /\ x.by = m.by /\ x.party = m.party /\ m.op = "add" /\ x.op = "added"
        /\ z.op \notin Entries /\ z.op # "authok"
        /\ GoodDown(x, founded) /\ GoodDown(z, founded) /\ UNCHANGED <<record, founded, roll>>
    BY <1>1, <1>3, <1>4, <2>1
  <2> HIDE DEF b, g
  <2>7. CharWell(m, x, z, b)
    BY <1>2, <2>2, <2>4, <2>5, <2>6 DEF CharWell
  <2> QED
    BY <2>7, CharStep
<1>5. ASSUME NEW i \in SeatFor(roll[g], m.by), NEW list, list = [roll[g] EXCEPT ![i] = Member(m.by, FALSE)],
             roll' = [roll EXCEPT ![g] = list], down' = down \o <<Answer("added", m.by, g), Info(g, list)>>
      PROVE  PInv'
  <2> DEFINE x == Answer("added", m.by, g)
             y == Info(g, list)
  <2>1. GoodDown(x, founded) /\ x.op = "added" /\ x.party = g /\ x.by = m.by
    <3>1. Fitting("added", m.by, g, founded)
      BY <1>1 DEF Fitting, PartyAnswers
    <3> HIDE DEF g
    <3> QED
      BY <3>1, Answered DEF Tells
  <2>2. roll[g] # Absent /\ roll[g] \in Lists /\ \A j \in DOMAIN roll[g] : ~roll[g][j].here
    <3>1. SeatsOf(roll[g], m.by) \cup SeatsOf(roll[g], None) # {}
      BY <1>5 DEF SeatFor
    <3> QED
      BY <1>1, <1>2, <3>1, ListFacts DEF SeatsOf
  <2>3. Member(m.by, FALSE) \in Row /\ ~Member(m.by, FALSE).here
    BY <1>1 DEF Member, Row
  <2>4. list \in [Seats -> Row] /\ \A j \in Seats : ~list[j].here
    BY <1>5, <2>2, <2>3, ReseatedList
  <2>5. GoodDown(y, founded) /\ y.op = "info" /\ y.party = g
    <3>1. Listing(g, list, founded)
      BY <1>1, <2>4 DEF Listing
    <3> HIDE DEF g
    <3> QED
      BY <3>1, Informed
  <2>6. down' = down \o <<x, y>> /\ list # Absent /\ DOMAIN list = Seats
    BY <1>5, <2>4, ListFacts
  <2> HIDE DEF x, y
  <2>7. Replies(m, x, y, g, list)
    BY <1>1, <1>2, <1>5, <2>1, <2>2, <2>4, <2>5, <2>6 DEF Replies, Entries
  <2> QED
    BY <2>7, CharReplies
<1> QED
  BY <1>4, <1>5 DEF CharAdd, Answers

LEMMA CharLeaveKeeps ==
  ASSUME PInv, UNCHANGED <<copies, sd, odd, away>>,
         up # <<>>, up' = Tail(up), NEW m, m = Head(up), CharLeave(m)
  PROVE  PInv'
<1> DEFINE g == m.party
           k == Min(SeatsOf(roll[g], m.by))
           list == [roll[g] EXCEPT ![k] = NoRow]
           x == Answer("left", m.by, g)
           z == Answer("broken", None, g)
           y == Info(g, list)
<1>1. /\ m.op = "leave" /\ founded' = founded /\ g \in Ids /\ g <= founded /\ m.by \in Players
      /\ g # 0
  BY HeadRequest DEF CharLeave, PartyOps, Ids
<1>2. /\ founded \in 0..MaxParties /\ roll \in [Ids -> Lists]
      /\ \A h \in Ids : /\ roll[h] # Absent => h <= founded
                        /\ \A i \in DOMAIN roll[h] : ~roll[h][i].here
      /\ DOMAIN record = Players /\ \A p \in Players : record[p].party \in 0..founded
  BY DEF PInv, PartyTypes, Proper
<1>3. GoodDown(x, founded) /\ x.op = "left" /\ x.party = g /\ x.by = m.by
  <2>1. Fitting("left", m.by, g, founded)
    BY <1>1 DEF Fitting, PartyAnswers
  <2> HIDE DEF g
  <2> QED
    BY <2>1, Answered DEF Tells
<1>4. GoodDown(z, founded) /\ z.op = "broken" /\ z.party = g
  <2>1. Fitting("broken", None, g, founded)
    BY <1>1 DEF Fitting, PartyAnswers
  <2> HIDE DEF g
  <2> QED
    BY <2>1, Answered DEF Tells
<1>5. CASE UNCHANGED <<down, record, roll>>
  BY <1>1, <1>5, CharSilent
<1>6. ASSUME Listed(roll[g], m.by), record' = [record EXCEPT ![m.by].party = 0],
             \/ roll' = [roll EXCEPT ![g] = Absent] /\ down' = down \o <<x, z>>
             \/ roll' = [roll EXCEPT ![g] = list] /\ down' = down \o <<x, y>>
      PROVE  PInv'
  <2>1. DOMAIN record' = Players /\ \A p \in Players : record'[p].party \in 0..founded
    <3>1. DOMAIN record' = DOMAIN record
          /\ \A p \in Players : record'[p] = IF p = m.by THEN [record[p] EXCEPT !.party = 0] ELSE record[p]
      BY <1>2, <1>6
    <3>2. \A r : [r EXCEPT !.party = 0].party \in {0, r.party}
      OBVIOUS
    <3>3. 0 \in 0..founded
      BY <1>2
    <3> QED
      BY <1>2, <3>1, <3>2, <3>3
  <2>2. roll[g] # Absent /\ roll[g] \in Lists /\ \A j \in DOMAIN roll[g] : ~roll[g][j].here
    BY <1>1, <1>2, <1>6, ListFacts DEF Listed, SeatsOf
  <2>3. NoRow \in Row /\ ~NoRow.here
    BY DEF NoRow, Row
  <2>4. list \in [Seats -> Row] /\ \A j \in Seats : ~list[j].here
    BY <2>2, <2>3, ReseatedList
  <2>5. GoodDown(y, founded) /\ y.op = "info" /\ y.party = g
    <3>1. Listing(g, list, founded)
      BY <1>1, <2>4 DEF Listing
    <3> HIDE DEF list, g
    <3> QED
      BY <3>1, Informed
  <2>6. list # Absent /\ DOMAIN list = Seats /\ DOMAIN Absent = {}
    BY <2>4, ListFacts
  <2> HIDE DEF x, y, z, list
  <2>7. CASE roll' = [roll EXCEPT ![g] = Absent] /\ down' = down \o <<x, z>>
    <3>1. Replies(m, x, z, g, Absent)
      BY <1>1, <1>2, <1>3, <1>4, <2>1, <2>2, <2>6, <2>7 DEF Replies, Entries
    <3> QED
      BY <3>1, CharReplies
  <2>8. CASE roll' = [roll EXCEPT ![g] = list] /\ down' = down \o <<x, y>>
    <3>1. Replies(m, x, y, g, list)
      BY <1>1, <1>2, <1>3, <2>1, <2>2, <2>4, <2>5, <2>6, <2>8 DEF Replies, Entries
    <3> QED
      BY <3>1, CharReplies
  <2> QED
    BY <1>6, <2>7, <2>8
<1>7. \/ UNCHANGED <<down, record, roll>>
      \/ /\ Listed(roll[g], m.by) /\ record' = [record EXCEPT ![m.by].party = 0]
         /\ \/ roll' = [roll EXCEPT ![g] = Absent] /\ down' = down \o <<x, z>>
            \/ roll' = [roll EXCEPT ![g] = list] /\ down' = down \o <<x, y>>
  BY DEF CharLeave, Answers
<1> HIDE DEF x, y, z, list
<1> QED
  BY <1>5, <1>6, <1>7

LEMMA CharMoveKeeps ==
  ASSUME PInv, UNCHANGED <<copies, sd, odd, away>>,
         up # <<>>, up' = Tail(up), NEW m, m = Head(up), CharMove(m) \/ CharLead(m)
  PROVE  PInv'
<1> DEFINE g == m.party
           z == [op |-> "checked"]
<1>1. /\ m.op \in {"move", "lead"} /\ UNCHANGED <<record, founded>> /\ g \in Ids /\ g <= founded
      /\ m.by \in Players /\ g # 0 /\ m.on \in BOOLEAN
  BY HeadRequest DEF CharMove, CharLead, PartyOps, Ids
<1>2. /\ founded \in 0..MaxParties /\ roll \in [Ids -> Lists]
      /\ \A h \in Ids : /\ roll[h] # Absent => h <= founded
                        /\ \A i \in DOMAIN roll[h] : ~roll[h][i].here
      /\ DOMAIN record = Players /\ \A p \in Players : record[p].party \in 0..founded
  BY DEF PInv, PartyTypes, Proper
<1>3. /\ z.op \notin Entries /\ z.op # "authok" /\ GoodDown(z, founded) /\ z.op = "checked"
  BY Blank_
<1> HIDE DEF z
<1>4. CASE UNCHANGED <<down, roll>>
  BY <1>1, <1>4, CharSilent
<1>5. ASSUME NEW x, roll[g] # Absent, NEW list, roll' = [roll EXCEPT ![g] = list],
             roll[g] \in [Seats -> Row] => list \in [Seats -> Row]
                                           /\ \A i \in Seats : list[i].here = roll[g][i].here,
             \/ \E on \in BOOLEAN : x = [Answer("moved", m.by, g) EXCEPT !.on = on]
             \/ \E old : x = [Answer("led", m.by, g) EXCEPT !.old = old],
             down' = down \o <<x>>
      PROVE  PInv'
  <2>1. GoodDown(x, founded) /\ x.op \in {"moved", "led"}
    <3>1. Fitting("moved", m.by, g, founded) /\ Fitting("led", m.by, g, founded)
      BY <1>1 DEF Fitting, PartyAnswers
    <3>2. /\ \A on \in BOOLEAN :
               Tells([Answer("moved", m.by, g) EXCEPT !.on = on], "moved", m.by, g, founded)
          /\ \A old : Tells([Answer("led", m.by, g) EXCEPT !.old = old], "led", m.by, g, founded)
      <4> HIDE DEF g
      <4> QED
        BY <3>1, AnsweredOn, AnsweredOld
    <3>3. ASSUME NEW on \in BOOLEAN, x = [Answer("moved", m.by, g) EXCEPT !.on = on]
          PROVE  Tells(x, "moved", m.by, g, founded)
      BY <3>2, <3>3
    <3>4. ASSUME NEW old, x = [Answer("led", m.by, g) EXCEPT !.old = old]
          PROVE  Tells(x, "led", m.by, g, founded)
      BY <3>2, <3>4
    <3>5. Tells(x, "moved", m.by, g, founded) \/ Tells(x, "led", m.by, g, founded)
      BY <1>5, <3>3, <3>4
    <3> QED
      BY <3>5 DEF Tells
  <2>2. roll[g] \in [Seats -> Row] /\ \A j \in Seats : ~roll[g][j].here
    BY <1>1, <1>2, <1>5, ListFacts DEF Lists
  <2>3. list \in [Seats -> Row] /\ list # Absent /\ DOMAIN list = Seats /\ \A j \in Seats : ~list[j].here
    BY <1>5, <2>2, ListFacts
  <2>4. Replies(m, x, z, g, list)
    BY <1>1, <1>2, <1>3, <1>5, <2>1, <2>3 DEF Replies, Entries
  <2> QED
    BY <2>4, CharReplies
<1>6. CASE CharMove(m) /\ ~UNCHANGED <<down, roll>>
  <2> DEFINE k == Min(SeatsOf(roll[g], m.by))
             list == [roll[g] EXCEPT ![k].on = m.on]
             x == [Answer("moved", m.by, g) EXCEPT !.on = m.on]
  <2>1. Listed(roll[g], m.by) /\ roll' = [roll EXCEPT ![g] = list] /\ down' = down \o <<x>>
    BY <1>6 DEF CharMove, Answers
  <2>2. roll[g] # Absent
    BY <2>1, ListFacts DEF Listed, SeatsOf
  <2>3. roll[g] \in [Seats -> Row] => list \in [Seats -> Row]
                                      /\ \A i \in Seats : list[i].here = roll[g][i].here
    <3> HIDE DEF k
    <3> QED
      BY <1>1 DEF Row
  <2>4. \E on \in BOOLEAN : x = [Answer("moved", m.by, g) EXCEPT !.on = on]
    BY <1>1
  <2> HIDE DEF x, list, g
  <2> QED
    BY <1>5, <2>1, <2>2, <2>3, <2>4
<1>7. CASE CharLead(m) /\ ~UNCHANGED <<down, roll>>
  <2> DEFINE list == Led(roll[g], m.by)
             old == LeaderOf(roll[g])
             x == [Answer("led", m.by, g) EXCEPT !.old = old]
  <2>1. roll[g] # Absent /\ roll' = [roll EXCEPT ![g] = list] /\ down' = down \o <<x>>
    BY <1>7 DEF CharLead, Answers
  <2>2. roll[g] \in [Seats -> Row] => list \in [Seats -> Row]
                                      /\ \A i \in Seats : list[i].here = roll[g][i].here
    BY DEF Led, Row
  <2>3. \E o : x = [Answer("led", m.by, g) EXCEPT !.old = o]
    OBVIOUS
  <2> HIDE DEF x, list, g
  <2> QED
    BY <1>5, <2>1, <2>2, <2>3
<1> QED
  BY <1>4, <1>6, <1>7

LEMMA CharKeeps ==
  ASSUME PInv, CharReceivesParty, away' = away
  PROVE  PInv'
<1> DEFINE m == Head(up)
<1>1. /\ up # <<>> /\ up' = Tail(up) /\ UNCHANGED <<copies, sd, odd, away>>
      /\ CharCreate(m) \/ CharInfo(m) \/ CharAdd(m) \/ CharLeave(m) \/ CharMove(m) \/ CharLead(m)
  BY DEF CharReceivesParty
<1> HIDE DEF m
<1>2. m = Head(up)
  BY DEF m
<1> QED
  BY <1>1, <1>2, CharCreateKeeps, CharInfoKeeps, CharAddKeeps, CharLeaveKeeps, CharMoveKeeps

-----------------------------------------------------------------------------
(* Logging in, and leaving *)

LEMMA AuthReqKeeps ==
  ASSUME PInv, NEW p \in Players, AuthReq(p)
  PROVE  PInv'
<1> DEFINE m == [op |-> "auth", by |-> p]
<1> USE DEF PInv
<1>1. up' = Append(up, m) /\ UNCHANGED <<down, record, roll, founded, copies, sd, odd, away>>
  BY DEF AuthReq, Asks, parties
<1>2. m.op = "auth" /\ m.by = p
  OBVIOUS
<1> HIDE DEF m
<1>0. founded \in Nat /\ founded' = founded /\ IsSeq(up) /\ IsSeq(down)
  BY <1>1 DEF PartyTypes, Proper
<1> DEFINE a == <<m>>
<1>3. Flow(0, a, 0, <<>>) /\ Len(<<>>) = 0 /\ Len(a) = 1 /\ a[1] = m
  BY <1>0, <1>1, MovesOne, MovesNot, NoMessage, OneMessage DEF Flow
<1> HIDE DEF a
<1>4. \A i \in 1..Len(a) : a[i] = m
  BY <1>3
<1>5. /\ m.op \notin Entries /\ \A q : ~Entering(m, q)
      /\ \A g : ~Asked(m, g) /\ GoodUp(m, founded)
  BY <1>2 DEF Entering, Entries, Asked, GoodUp, PartyOps
<1>6. Proper'
  <2>1. /\ IsSeq(up') /\ IsSeq(down')
        /\ \A i \in 1..Len(up') : GoodUp(up'[i], founded')
        /\ \A i \in 1..Len(down') : GoodDown(down'[i], founded')
    BY <1>0, <1>3, <1>4, <1>5, ProperKept
  <2> QED
    BY <1>1, <2>1 DEF Proper
<1>7. EntersFirst'
  BY <1>3, <1>4, <1>5, EntersFirstKept
<1>8. EndsWell(0, a, 0, <<>>)
  BY <1>1, <1>3, <1>4, <1>5 DEF EndsWell
<1>9. Ended'
  BY <1>0, <1>3, <1>8, EndedKept
<1>10. OneEntry'
  BY <1>1, <1>3, <1>4, <1>5, OneEntryKept
<1>11. WaitsWell(0, a, 0, <<>>)
  BY <1>1 DEF WaitsWell
<1>12. Waiting'
  BY <1>0, <1>3, <1>8, <1>11, WaitingKept
<1> QED
  BY <1>1, <1>6, <1>7, <1>9, <1>10, <1>12 DEF PartyTypes, Referred, Hurried

LEMMA AuthKeeps ==
  ASSUME PInv, Auth
  PROVE  PInv'
<1> DEFINE p == Head(up).by
           m == [op |-> "authok", by |-> p, party |-> record[p].party]
<1> USE DEF PInv
<1>1. /\ up # <<>> /\ Head(up).op = "auth" /\ up' = Tail(up) /\ down' = down \o <<m>>
      /\ UNCHANGED <<record, roll, founded, copies, sd, odd, away>>
  BY DEF Auth, Answers, parties
<1>0. founded \in Nat /\ founded' = founded /\ IsSeq(up) /\ IsSeq(down)
  BY <1>1 DEF PartyTypes, Proper
<1>2. m.op = "authok" /\ m.by = p /\ m.party = record[p].party
  OBVIOUS
<1> HIDE DEF m
<1> DEFINE b == <<m>>
<1>3. Flow(1, <<>>, 0, b) /\ Len(<<>>) = 0 /\ Len(b) = 1 /\ b[1] = m /\ Head(up) = up[1] /\ 1 \in 1..Len(up)
  <2>1. Moves(up, Tail(up), 1, <<>>) /\ Len(up) >= 1 /\ Head(up) = up[1]
    BY <1>0, <1>1, MovesTail
  <2>2. Len(up) \in Nat
    BY <2>1 DEF Moves
  <2>3. Moves(down, down \o b, 0, b)
    BY <1>0, MovesOne
  <2> QED
    BY <1>1, <2>1, <2>2, <2>3, NoMessage, OneMessage DEF Flow
<1> HIDE DEF b
<1>4. up[1].op = "auth" /\ up[1].by = p /\ p \in Players
  BY <1>1, <1>3 DEF Proper, GoodUp
<1> HIDE DEF p
<1>5. \A i \in 1..Len(b) : b[i] = m
  BY <1>3
<1>6. /\ m.op \notin Entries /\ \A q : ~Entering(m, q)
      /\ \A g : ~Lists_(m, g) /\ ~Breaks(m, g) /\ ~Denies(m, g)
      /\ GoodDown(m, founded)
  BY <1>2, <1>4 DEF Proper, Entering, Entries, Lists_, Breaks, Denies, GoodDown, PartyAnswers
<1>f. Flows(up, up', 1, <<>>)
  BY <1>3, FlowSets
<1>7. Proper'
  <2>1. /\ IsSeq(up') /\ IsSeq(down')
        /\ \A i \in 1..Len(up') : GoodUp(up'[i], founded')
        /\ \A i \in 1..Len(down') : GoodDown(down'[i], founded')
    BY <1>0, <1>3, <1>5, <1>6, ProperKept
  <2> QED
    BY <1>1, <2>1 DEF Proper
<1>8. EntersFirst'
  <2>1. \A j \in 1..Len(up') : ~Entering(up'[j], p)
    <3>1. \A j \in 1..Len(up) : j > 1 => ~Entering(up[j], p)
      BY <1>3, <1>4 DEF EntersFirst
    <3> QED
      BY <1>f, <1>3, <3>1 DEF Flows
  <2> QED
    BY <1>2, <1>3, <1>5, <1>6, <2>1, EntersFirstKept
<1>9. EndsWell(1, <<>>, 0, b)
  BY <1>1, <1>3, <1>5, <1>6 DEF EndsWell
<1>10. Ended'
  BY <1>0, <1>3, <1>9, EndedKept
<1>11. OneEntry'
  BY <1>1, <1>3, <1>5, <1>6, OneEntryKept
<1>12. WaitsWell(1, <<>>, 0, b)
  BY <1>1, <1>4 DEF WaitsWell
<1>13. Waiting'
  BY <1>0, <1>3, <1>9, <1>12, WaitingKept
<1> QED
  BY <1>1, <1>7, <1>8, <1>10, <1>11, <1>13 DEF PartyTypes, Referred, Hurried

\* Nobody who is away, and has not hurried, is referred to.
LEMMA NotReferred ==
  ASSUME Referred, copies' = copies, odd' = odd, NEW p, away' = away \ {p}, p \in away,
         \A q \in Players : q # p => sd'[q] = sd[q]
  PROVE  Referred'
<1> SUFFICES ASSUME NEW g \in Ids, NEW i \in DOMAIN copies[g], copies[g][i].here
             PROVE  LET q == copies[g][i].who IN
                    q \in Players /\ (~Hurried(q) => q \notin away' /\ sd'[q].party = g)
  BY DEF Referred, Hurried
<1> QED
  BY DEF Referred

LEMMA LogInKeeps ==
  ASSUME PInv, AuthsRight, NEW p \in Players, LogIn(p)
  PROVE  PInv'
<1> DEFINE g == Head(down).party
           m == Request("reqinfo", p, g, TRUE)
           s == [NoSession EXCEPT !.party = g]
<1> USE DEF PInv
<1>1. /\ down # <<>> /\ Head(down).op = "authok" /\ Head(down).by = p /\ down' = Tail(down)
      /\ away' = away \ {p} /\ sd' = [sd EXCEPT ![p] = s]
      /\ \/ up' = up
         \/ g # 0 /\ copies[g] = Absent /\ up' = Append(up, m)
      /\ UNCHANGED <<record, roll, founded, copies, odd>>
  BY DEF LogIn, PartyLogIn, Asks
<1>0. /\ founded \in Nat /\ founded <= MaxParties /\ founded' = founded /\ IsSeq(up) /\ IsSeq(down)
      /\ MaxParties \in Nat
  BY <1>1, PartyAssumption DEF PartyTypes, Proper
<1>2. down[1] = Head(down) /\ 1 \in 1..Len(down) /\ p \in away
  BY <1>1, AtHead, LogInRight
<1>3. g \in 0..founded /\ g \in {0} \cup Ids
  <2>1. GoodDown(down[1], founded)
    BY <1>2 DEF Proper
  <2>2. g \in 0..founded
    BY <1>1, <1>2, <2>1 DEF GoodDown
  <2> QED
    BY <1>0, <2>2 DEF Ids
<1>4. s \in Session /\ s.party = g /\ s.invite = 0 /\ s.creating = FALSE
  BY <1>3 DEF NoSession, Session
<1> HIDE DEF s
<1>5. /\ sd' \in [Players -> Session] /\ sd'[p] = s
      /\ \A q \in Players : q # p => sd'[q] = sd[q]
  BY <1>1, <1>4 DEF PartyTypes
<1>6. g # 0 => m.op = "reqinfo" /\ m.party = g /\ GoodUp(m, founded)
  <2>1. m.op = "reqinfo" /\ m.party = g /\ m \in PartyRequest
    BY <1>3 DEF Request, PartyRequest, PartyOps
  <2> HIDE DEF m
  <2> QED
    BY <1>3, <2>1 DEF GoodUp
<1> DEFINE a == IF up' = up THEN <<>> ELSE <<m>>
<1> HIDE DEF m, g
<1>7. /\ Flow(0, a, 1, <<>>) /\ Len(<<>>) = 0
      /\ \A i \in 1..Len(a) : a[i] = m /\ g # 0 /\ copies[g] = Absent
  <2>1. Moves(down, down', 1, <<>>)
    BY <1>0, <1>1, MovesTail
  <2>2. CASE up' = up
    <3>1. a = <<>>
      BY <2>2
    <3>2. Moves(up, up', 0, a)
      BY <1>0, <2>2, <3>1, MovesNot
    <3> QED
      BY <2>1, <3>1, <3>2, NoMessage DEF Flow
  <2>3. CASE up' # up
    <3>1. a = <<m>> /\ g # 0 /\ copies[g] = Absent
      BY <1>1, <2>3
    <3>2. Moves(up, up', 0, a)
      <4>1. Moves(up, Append(up, m), 0, <<m>>)
        BY <1>0, MovesOne
      <4> QED
        BY <1>1, <2>3, <3>1, <4>1
    <3>3. \A i \in 1..Len(a) : a[i] = m
      BY <3>1, OneMessage
    <3> QED
      BY <2>1, <3>1, <3>2, <3>3, NoMessage DEF Flow
  <2> QED
    BY <2>2, <2>3
<1> HIDE DEF a
<1>f. Flows(up, up', 0, a) /\ Flows(down, down', 1, <<>>)
  BY <1>7, FlowSets
<1>8. \A i \in 1..Len(a) : /\ GoodUp(a[i], founded) /\ a[i].op \notin Entries
                           /\ a[i].op # "auth" /\ \A q : ~Entering(a[i], q)
                           /\ \A h : Asked(a[i], h) => copies[h] = Absent
  BY <1>6, <1>7 DEF Entering, Entries, Asked
<1>9. Proper'
  <2>1. /\ IsSeq(up') /\ IsSeq(down')
        /\ \A i \in 1..Len(up') : GoodUp(up'[i], founded')
        /\ \A i \in 1..Len(down') : GoodDown(down'[i], founded')
    BY <1>0, <1>7, <1>8, ProperKept
  <2>2. \A q \in Players : sd'[q].party <= founded /\ sd'[q].invite <= founded
    <3>1. s.party <= founded /\ s.invite <= founded
      BY <1>0, <1>3, <1>4
    <3> QED
      BY <1>5, <3>1 DEF Proper
  <2> QED
    BY <1>1, <2>1, <2>2 DEF Proper
<1>10. EntersFirst'
  BY <1>7, <1>8, EntersFirstKept
<1>11. EndsWell(0, a, 1, <<>>)
  <2>1. \A h : ~Lists_(down[1], h) /\ ~Breaks(down[1], h)
    BY <1>1, <1>2 DEF Lists_, Breaks
  <2> QED
    BY <1>1, <1>7, <1>8, <2>1 DEF EndsWell
<1>12. Ended'
  BY <1>0, <1>7, <1>11, EndedKept
<1>13. /\ \A i \in 1..Len(up') : ~Entering(up'[i], p)
       /\ \A i \in 1..Len(down') : ~Entering(down'[i], p)
  <2>1. down[1].op = "authok" /\ down[1].by = p
    BY <1>1, <1>2
  <2>2. /\ \A i \in 1..Len(up) : ~Entering(up[i], p)
        /\ \A i \in 1..Len(down) : 1 < i => ~Entering(down[i], p)
    BY <1>2, <2>1 DEF EntersFirst
  <2>3. \A i \in 1..Len(up') : ~Entering(up'[i], p)
    <3> TAKE i \in 1..Len(up')
    <3>1. (\E j \in 1..Len(up) : up'[i] = up[j]) \/ \E j \in 1..Len(a) : up'[i] = a[j]
      BY <1>f DEF Flows
    <3> QED
      BY <1>8, <2>2, <3>1
  <2>4. \A i \in 1..Len(down') : ~Entering(down'[i], p)
    BY <1>f, <1>7, <2>2 DEF Flows
  <2> QED
    BY <2>3, <2>4
<1>14. OneEntry'
  <2>1. \A q \in Players : ~Hurried(q)' /\ sd'[q].party # 0 =>
           \/ sd[q].party # 0
           \/ /\ \A i \in 1..Len(up') : ~Entering(up'[i], q)
              /\ \A i \in 1..Len(down') : ~Entering(down'[i], q)
    BY <1>5, <1>13
  <2>2. odd \subseteq odd' /\ \A i \in 1..Len(a) : \A q : ~Entering(a[i], q)
    BY <1>1, <1>8
  <2>3. \A q \in Players : \A i \in 1..Len(<<>>) : ~Entering(<<>>[i], q)
    BY <1>7
  <2> QED
    BY <1>7, <2>1, <2>2, <2>3, OneEntryKept
<1>15. Referred'
  BY <1>1, <1>2, <1>5, NotReferred
<1>16. WaitsWell(0, a, 1, <<>>)
  <2>1. \A q \in Players \ away' : \/ q = p
                                   \/ q \notin away /\ sd'[q] = sd[q]
    BY <1>1, <1>5
  <2>2. sd'[p].creating = FALSE /\ \A h \in Ids : sd'[p].invite # h
    BY <1>4, <1>5 DEF Ids
  <2>3. down[1].op \notin {"created", "added"}
    BY <1>1, <1>2
  <2> QED
    BY <2>1, <2>2, <2>3 DEF WaitsWell
<1>17. Waiting'
  BY <1>0, <1>7, <1>11, <1>16, WaitingKept
<1>18. PartyTypes'
  BY <1>1, <1>5 DEF PartyTypes
<1> QED
  BY <1>9, <1>10, <1>12, <1>14, <1>15, <1>17, <1>18

LEMMA ForgottenFacts ==
  ASSUME copies \in [Ids -> Lists], NEW ps
  PROVE  LET new == Forgotten(copies, ps) IN
         /\ new \in [Ids -> Lists]
         /\ \A g \in Ids :
              /\ new[g] = Absent <=> copies[g] = Absent
              /\ DOMAIN new[g] = DOMAIN copies[g]
              /\ \A i \in DOMAIN copies[g] :
                   /\ new[g][i].who = copies[g][i].who
                   /\ new[g][i].here => copies[g][i].here
                                        /\ ~(copies[g][i].who \in ps /\ sd[copies[g][i].who].party = g)
<1> DEFINE new == Forgotten(copies, ps)
           row(g, i) == IF copies[g][i].who \in ps /\ sd[copies[g][i].who].party = g
                        THEN [copies[g][i] EXCEPT !.here = FALSE] ELSE copies[g][i]
<1>1. /\ DOMAIN new = Ids /\ new = [g \in Ids |-> new[g]]
      /\ \A g \in Ids : new[g] = [i \in DOMAIN copies[g] |-> row(g, i)]
  BY DEF Forgotten
<1> HIDE DEF new
<1>2. ASSUME NEW g \in Ids
      PROVE  /\ new[g] \in Lists
             /\ DOMAIN new[g] = DOMAIN copies[g]
             /\ \A i \in DOMAIN copies[g] :
                  /\ new[g][i].who = copies[g][i].who
                  /\ new[g][i].here => copies[g][i].here
                                       /\ ~(copies[g][i].who \in ps /\ sd[copies[g][i].who].party = g)
  <2>1. DOMAIN new[g] = DOMAIN copies[g] /\ new[g] = [i \in DOMAIN new[g] |-> new[g][i]]
        /\ \A i \in DOMAIN copies[g] : new[g][i] = row(g, i)
    <3> HIDE DEF row
    <3>1. new[g] = [i \in DOMAIN copies[g] |-> row(g, i)]
      BY <1>1
    <3>2. DOMAIN new[g] = DOMAIN copies[g]
      BY <3>1
    <3>3. \A i \in DOMAIN copies[g] : new[g][i] = row(g, i)
      BY <3>1
    <3> QED
      BY <3>1, <3>2, <3>3
  <2>2. CASE copies[g] = Absent
    <3>1. DOMAIN copies[g] = {}
      BY <2>2, ListFacts
    <3>2. new[g] = Absent
      BY <2>1, <3>1, EmptyFunction
    <3> QED
      BY <2>1, <3>1, <3>2 DEF Lists
  <2>3. CASE copies[g] # Absent
    <3>1. copies[g] \in [Seats -> Row]
      BY <2>3 DEF Lists
    <3>2. ASSUME NEW i \in Seats
          PROVE  /\ row(g, i) \in Row /\ row(g, i).who = copies[g][i].who
                 /\ row(g, i).here => copies[g][i].here
                                      /\ ~(copies[g][i].who \in ps /\ sd[copies[g][i].who].party = g)
      <4>1. copies[g][i] \in Row
        BY <3>1
      <4> QED
        BY <4>1 DEF Row
    <3> HIDE DEF row
    <3>3. new[g] \in [Seats -> Row]
      BY <2>1, <3>1, <3>2
    <3> QED
      BY <2>1, <3>1, <3>2, <3>3 DEF Lists
  <2> QED
    BY <2>2, <2>3
<1>3. \A g \in Ids : new[g] = Absent <=> copies[g] = Absent
  BY <1>2, AbsentMapped
<1>4. new \in [Ids -> Lists]
  BY <1>1, <1>2
<1> QED
  BY <1>2, <1>3, <1>4 DEF new

\* What somebody who quits puts on the link.
Parts(s, m, n, t) == t \in {s, s \o <<m>>, s \o <<n>>, (s \o <<m>>) \o <<n>>}

LEMMA Parting ==
  ASSUME NEW s, IsSeq(s), NEW m, NEW n, NEW t, Parts(s, m, n, t)
  PROVE  \E a : Moves(s, t, 0, a) /\ \A i \in 1..Len(a) : a[i] \in {m, n}
<1>1. CASE t = s \/ t = s \o <<m>>
  <2>1. \E a : Moves(s, t, 0, a) /\ \A i \in 1..Len(a) : a[i] = m
    BY <1>1, MovesOrNot
  <2> QED
    BY <2>1
<1>3. CASE t = s \o <<n>>
  <2>1. Moves(s, s \o <<n>>, 0, <<n>>)
    BY OneMessage, MovesBehind
  <2>2. \A i \in 1..Len(<<n>>) : <<n>>[i] = n
    BY OneMessage
  <2> QED
    BY <1>3, <2>1, <2>2
<1>2. CASE t = (s \o <<m>>) \o <<n>>
  <2>1. t = s \o <<m, n>>
    BY <1>2, TwoAtOnce
  <2>2. Moves(s, s \o <<m, n>>, 0, <<m, n>>)
    BY TwoMessages, MovesBehind
  <2>3. \A i \in 1..Len(<<m, n>>) : <<m, n>>[i] \in {m, n}
    BY TwoMessages
  <2> QED
    BY <2>1, <2>2, <2>3
<1> QED
  BY <1>1, <1>2, <1>3 DEF Parts

LEMMA QuitKeeps ==
  ASSUME PInv, Ground, NEW p \in Players, Quit(p)
  PROVE  PInv'
<1> DEFINE notice == Request("move", p, sd[p].party, FALSE)
           save   == SaveOf(p)
           new    == Forgotten(copies, {p})
<1> USE DEF PInv
<1>1. /\ p \in online /\ away' = away \cup {p} /\ sd' = [sd EXCEPT ![p] = NoSession] /\ copies' = new
      /\ up' = (up \o LogoutNotice(p)) \o (IF Followed THEN <<save>> ELSE <<>>)
      /\ UNCHANGED <<down, record, roll, founded, odd>>
  BY DEF Quit, Closed
<1>2. /\ founded \in Nat /\ founded' = founded /\ IsSeq(up) /\ IsSeq(down)
      /\ sd \in [Players -> Session] /\ copies \in [Ids -> Lists] /\ 0 \notin Ids
      /\ sd[p].party <= founded /\ sd[p].party \in {0} \cup Ids
  BY <1>1 DEF PartyTypes, Proper, Session, Ids
<1>3. p \notin away
  BY <1>1 DEF Ground, Shape
<1>4. sd[p].party # 0 => GoodUp(notice, founded)
  <2>1. notice.op = "move" /\ notice.party = sd[p].party /\ notice \in PartyRequest
    BY <1>2 DEF Request, PartyRequest, PartyOps
  <2> HIDE DEF notice
  <2> QED
    BY <1>2, <2>1 DEF GoodUp
<1>5. GoodUp(save, founded)
  <2>1. sd[p].party \in 0..founded
    BY <1>2 DEF Ids
  <2> QED
    BY <2>1 DEF SaveOf, Status, GoodUp, PartyOps
<1>6. notice.op = "move" /\ save.op = "save"
  BY DEF Request, SaveOf
<1>7. \/ sd[p].party # 0 /\ up' \in {up \o <<notice>>, (up \o <<notice>>) \o <<save>>}
      \/ sd[p].party = 0 /\ up' \in {up, up \o <<save>>}
  <2>1. up \o <<>> = up
    <3>1. PICK S : up \in Seq(S)
      BY <1>2 DEF IsSeq
    <3> QED
      BY <3>1, ConcatEmptySeq
  <2>2. (up \o <<notice>>) \o <<>> = up \o <<notice>>
    <3>1. IsSeq(up \o <<notice>>)
      BY <1>2, OneMessage, Joins
    <3>2. PICK S : up \o <<notice>> \in Seq(S)
      BY <3>1 DEF IsSeq
    <3> QED
      BY <3>2, ConcatEmptySeq
  <2>3. LogoutNotice(p) = IF sd[p].party = 0 THEN <<>> ELSE <<notice>>
    BY DEF LogoutNotice
  <2> HIDE DEF notice, save
  <2> QED
    BY <1>1, <2>1, <2>2, <2>3
<1> HIDE DEF notice, save
<1>8. PICK a : /\ Moves(up, up', 0, a)
               /\ \A i \in 1..Len(a) : a[i].op \in {"move", "save"} /\ GoodUp(a[i], founded)
  <2>1. CASE sd[p].party # 0 /\ up' \in {up \o <<notice>>, (up \o <<notice>>) \o <<save>>}
    <3>2. Parts(up, notice, save, up')
      BY <2>1 DEF Parts
    <3>1. \E a : Moves(up, up', 0, a) /\ \A i \in 1..Len(a) : a[i] \in {notice, save}
      BY <1>2, <3>2, Parting
    <3> QED
      BY <1>4, <1>5, <1>6, <2>1, <3>1
  <2>2. CASE up' \in {up, up \o <<save>>}
    <3>1. \E a : Moves(up, up', 0, a) /\ \A i \in 1..Len(a) : a[i] = save
      BY <1>2, <2>2, MovesOrNot
    <3> QED
      BY <1>5, <1>6, <3>1
  <2> QED
    BY <1>7, <2>1, <2>2
<1>9. Flow(0, a, 0, <<>>) /\ Len(<<>>) = 0
  BY <1>1, <1>2, <1>8, MovesNot, NoMessage DEF Flow
<1>10. \A i \in 1..Len(a) : /\ a[i].op \notin Entries /\ \A q : ~Entering(a[i], q)
                             /\ \A g : ~Asked(a[i], g)
  BY <1>8 DEF Entering, Entries, Asked
<1>11. /\ new \in [Ids -> Lists]
       /\ \A g \in Ids :
            /\ new[g] = Absent <=> copies[g] = Absent
            /\ DOMAIN new[g] = DOMAIN copies[g]
            /\ \A i \in DOMAIN copies[g] :
                 /\ new[g][i].who = copies[g][i].who
                 /\ new[g][i].here => copies[g][i].here
                                      /\ ~(copies[g][i].who \in {p} /\ sd[copies[g][i].who].party = g)
  BY <1>2, ForgottenFacts
<1> HIDE DEF new
<1>12. /\ sd' \in [Players -> Session] /\ sd'[p] = NoSession
       /\ \A q \in Players : q # p => sd'[q] = sd[q]
  BY <1>1, <1>2 DEF NoSession, Session
<1>13. NoSession.party = 0 /\ NoSession.invite = 0 /\ NoSession.creating = FALSE
  BY DEF NoSession
<1>14. Proper'
  <2>1. /\ IsSeq(up') /\ IsSeq(down')
        /\ \A i \in 1..Len(up') : GoodUp(up'[i], founded')
        /\ \A i \in 1..Len(down') : GoodDown(down'[i], founded')
    BY <1>2, <1>8, <1>9, ProperKept
  <2>2. \A q \in Players : sd'[q].party <= founded /\ sd'[q].invite <= founded
    BY <1>2, <1>12, <1>13 DEF Proper
  <2> QED
    BY <1>1, <2>1, <2>2 DEF Proper
<1>15. EntersFirst'
  BY <1>9, <1>10, EntersFirstKept
<1>16. EndsWell(0, a, 0, <<>>)
  <2>1. \A g \in Ids : /\ copies'[g] = Absent <=> copies[g] = Absent
                       /\ roll'[g] = roll[g]
                       /\ \A i \in 1..Len(a) : ~Asked(a[i], g)
    BY <1>1, <1>10, <1>11
  <2> QED
    BY <1>9, <2>1 DEF EndsWell
<1>17. Ended'
  BY <1>2, <1>9, <1>16, EndedKept
<1>18. OneEntry'
  <2>1. \A q \in Players : sd'[q].party # 0 => sd[q].party # 0
    BY <1>12, <1>13
  <2>2. odd \subseteq odd' /\ \A i \in 1..Len(a) : \A q : ~Entering(a[i], q)
    BY <1>1, <1>10
  <2>3. \A q \in Players : \A i \in 1..Len(<<>>) : ~Entering(<<>>[i], q)
    BY <1>9
  <2> QED
    BY <1>9, <2>1, <2>2, <2>3, OneEntryKept
<1>19. Referred'
  <2>0. copies' = new /\ odd' = odd
    BY <1>1
  <2> SUFFICES ASSUME NEW g \in Ids, NEW i \in DOMAIN new[g], new[g][i].here
               PROVE  LET q == new[g][i].who IN
                      q \in Players /\ (~Hurried(q) => q \notin away' /\ sd'[q].party = g)
    BY <2>0 DEF Referred, Hurried
  <2> DEFINE q == copies[g][i].who
  <2>1. /\ i \in DOMAIN copies[g] /\ new[g][i].who = q /\ copies[g][i].here
        /\ ~(q = p /\ sd[q].party = g)
    BY <1>11
  <2>2. q \in Players /\ (~Hurried(q) => q \notin away /\ sd[q].party = g)
    BY <2>1 DEF Referred
  <2> QED
    BY <1>1, <1>12, <2>1, <2>2
<1>20. WaitsWell(0, a, 0, <<>>)
  <2>1. \A q \in Players \ away' : q # p /\ q \notin away /\ sd'[q] = sd[q]
    BY <1>1, <1>12
  <2> QED
    BY <2>1 DEF WaitsWell
<1>21. Waiting'
  BY <1>2, <1>9, <1>16, <1>20, WaitingKept
<1>22. PartyTypes'
  BY <1>1, <1>11, <1>12 DEF PartyTypes
<1> QED
  BY <1>14, <1>15, <1>17, <1>18, <1>19, <1>21, <1>22

LEMMA BreakKeeps ==
  ASSUME PInv, LinkBreaks
  PROVE  PInv'
<1> DEFINE new == Forgotten(copies, Players)
<1> USE DEF PInv
<1>1. /\ up' = <<>> /\ down' = <<>> /\ away' = Players
      /\ sd' = [p \in Players |-> NoSession] /\ copies' = new
      /\ odd \subseteq odd' /\ UNCHANGED <<record, roll, founded>>
  BY DEF LinkBreaks, PartyBreak
<1>2. founded \in Nat /\ copies \in [Ids -> Lists]
  BY DEF PartyTypes
<1>3. IsSeq(up') /\ Len(up') = 0 /\ IsSeq(down') /\ Len(down') = 0
  BY <1>1, NoMessage
<1>4. /\ new \in [Ids -> Lists]
      /\ \A g \in Ids :
           /\ new[g] = Absent <=> copies[g] = Absent
           /\ DOMAIN new[g] = DOMAIN copies[g]
           /\ \A i \in DOMAIN copies[g] :
                /\ new[g][i].who = copies[g][i].who
                /\ new[g][i].here => copies[g][i].here
                                     /\ ~(copies[g][i].who \in Players /\ sd[copies[g][i].who].party = g)
  BY <1>2, ForgottenFacts
<1> HIDE DEF new
<1>5. NoSession \in Session /\ NoSession.party = 0 /\ NoSession.invite = 0
  BY DEF NoSession, Session
<1>6. PartyTypes'
  BY <1>1, <1>4, <1>5 DEF PartyTypes
<1>7. Proper'
  BY <1>1, <1>2, <1>3, <1>5 DEF Proper
<1>8. EntersFirst' /\ Ended' /\ OneEntry' /\ Waiting'
  BY <1>1, <1>3, <1>5 DEF EntersFirst, Ended, OneEntry, Waiting
<1>9. Referred'
  <2> SUFFICES ASSUME NEW g \in Ids, NEW i \in DOMAIN new[g], new[g][i].here
               PROVE  LET q == new[g][i].who IN q \in Players /\ <<q, "hurried">> \in odd'
    BY <1>1 DEF Referred, Hurried
  <2> DEFINE q == copies[g][i].who
  <2>1. /\ i \in DOMAIN copies[g] /\ new[g][i].who = q /\ copies[g][i].here
        /\ ~(q \in Players /\ sd[q].party = g)
    BY <1>4
  <2>2. q \in Players /\ (~Hurried(q) => sd[q].party = g)
    BY <2>1 DEF Referred
  <2> QED
    BY <1>1, <2>1, <2>2 DEF Hurried
<1> QED
  BY <1>6, <1>7, <1>8, <1>9

-----------------------------------------------------------------------------
(* The invariant *)

LEMMA InitPInv == Init => PInv
<1> SUFFICES ASSUME Init PROVE PInv
  OBVIOUS
<1>1. /\ roll = [g \in Ids |-> Absent] /\ copies = [g \in Ids |-> Absent] /\ founded = 0
      /\ sd = [p \in Players |-> NoSession] /\ odd = {} /\ up = <<>> /\ down = <<>>
      /\ record = [p \in Players |-> Status(p)]
  BY DEF Init, InitParty, InitLink
<1>2. NoSession \in Session /\ NoSession.party = 0 /\ NoSession.invite = 0 /\ NoSession.creating = FALSE
  BY DEF NoSession, Session
<1>3. MaxParties \in Nat /\ Absent \in Lists /\ DOMAIN Absent = {} /\ 0 \notin Ids
  BY PartyAssumption, ListFacts DEF Lists, Ids
<1>4. \A p \in Players : record[p].party = 0
  BY <1>1, <1>2 DEF Status
<1>5. IsSeq(up) /\ Len(up) = 0 /\ IsSeq(down) /\ Len(down) = 0
  BY <1>1, NoMessage
<1>6. PartyTypes
  BY <1>1, <1>2, <1>3 DEF PartyTypes
<1>7. Proper
  BY <1>1, <1>2, <1>3, <1>4, <1>5 DEF Proper
<1>8. EntersFirst /\ Ended /\ OneEntry
  BY <1>1, <1>2, <1>5 DEF EntersFirst, Ended, OneEntry
<1>9. Referred /\ Waiting
  BY <1>1, <1>2, <1>3 DEF Referred, Waiting
<1> QED
  BY <1>6, <1>7, <1>8, <1>9 DEF PInv

LEMMA PInvStep ==
  ASSUME PInv, Ground, [Next]_vars
  PROVE  PInv'
<1>1. CASE PartyNext
  <2>1. away' = away
    BY <1>1 DEF PartyNext, present
  <2> QED
    BY <1>1, <2>1, CreateKeeps, InviteKeeps, ReplyKeeps, LeaveKeeps, MapKeeps, CharKeeps DEF PartyNext
<1>2. ASSUME NEW p \in Players, LogIn(p)
      PROVE  PInv'
  BY <1>2, LogInKeeps DEF Ground
<1> QED
  BY <1>1, <1>2, OthersKeep, MailKeeps, DepartKeeps, QuitKeeps, AuthReqKeeps, AuthKeeps, ArriveKeeps,
     BreakKeeps DEF Next

LEMMA SpecPInv == Spec => [](PInv /\ Ground)
<1>1. Sound /\ AuthsRight /\ PInv /\ [Next]_vars => (Sound /\ AuthsRight /\ PInv)'
  BY SoundStep, AuthsStep, PInvStep DEF Sound, Ground
<1>2. Init => Sound /\ AuthsRight /\ PInv
  BY InitSound, InitPInv
<1>3. Sound /\ AuthsRight /\ PInv => PInv /\ Ground
  BY DEF Sound, Ground
<1> QED
  BY <1>1, <1>2, <1>3, PTL DEF Spec

-----------------------------------------------------------------------------
(* What follows *)

\* In every state of the exchange, whatever number of players, parties and
\* messages there is, a copy of a party refers only to sessions that exist and
\* are in that party, so that whoever walks the copy (party_exp_share, or
\* party_send_xyhp_timer_sub) meets nobody else and no session that has ended.
\* Only who asks for a second party while he waits for the first is excepted.
THEOREM SpecNoDangling == Spec => []NoDangling
<1>1. PInv => NoDangling
  <2>1. \A p : Ordinary(p, {"hurried"}) <=> ~Hurried(p)
    BY DEF Ordinary, Hurried
  <2> QED
    BY <2>1 DEF PInv, Referred, NoDangling
<1> QED
  BY <1>1, SpecPInv, PTL

\* Whenever no message about parties is under way, nobody on a map is still
\* creating a party, and an invitation that was accepted is gone unless its
\* party is: no order of requests, expulsions, departures, logins and broken
\* links leaves a player waiting for an answer that does not come.
THEOREM SpecRequestsEnd == Spec => []RequestsEnd
<1>1. ASSUME PInv, Ground, PartyQuiet, NEW p \in online
      PROVE  /\ ~sd[p].creating
             /\ sd[p].invite # 0 => sd[p].window \/ copies[sd[p].invite] = Absent
  <2>1. /\ \A i \in 1..Len(up) : up[i].op \notin PartyOps \cup PartyAnswers
        /\ \A i \in 1..Len(down) : down[i].op \notin PartyOps \cup PartyAnswers
    <3> DEFINE all == up \o down
    <3>1. IsSeq(up) /\ IsSeq(down) /\ IsSeq(all)
      BY <1>1, Joins DEF PInv, Proper
    <3>2. Len(up) \in Nat /\ Len(down) \in Nat /\ DOMAIN all = 1..(Len(up) + Len(down))
      <4>1. Len(all) = Len(up) + Len(down)
        BY <3>1, Joins
      <4>2. DOMAIN all = 1..Len(all)
        BY <3>1 DEF IsSeq
      <4> QED
        BY <3>1, <4>1, <4>2, SeqParts
    <3>3. \A i \in DOMAIN all : all[i].op \notin PartyOps \cup PartyAnswers
      BY <1>1 DEF PartyQuiet, Range
    <3>4. ASSUME NEW i \in 1..Len(up)
          PROVE  up[i].op \notin PartyOps \cup PartyAnswers
      <4>1. i \in DOMAIN all /\ all[i] = up[i]
        BY <3>1, <3>2, Joins
      <4> QED
        BY <3>3, <4>1
    <3>5. ASSUME NEW i \in 1..Len(down)
          PROVE  down[i].op \notin PartyOps \cup PartyAnswers
      <4> DEFINE j == i + Len(up)
      <4>1. j \in 1..(Len(up) + Len(down)) /\ j > Len(up) /\ j - Len(up) = i
        BY <3>2
      <4>2. all[j] = down[i]
        BY <3>1, <4>1, Joins
      <4> QED
        BY <3>2, <3>3, <4>1, <4>2
    <3> QED
      BY <3>4, <3>5
  <2>2. p \in Players \ away
    BY <1>1 DEF Ground, Shape
  <2>3. ~sd[p].creating
    BY <1>1, <2>1, <2>2 DEF PInv, Waiting, PartyOps, PartyAnswers
  <2>4. ASSUME sd[p].invite # 0, ~sd[p].window
        PROVE  copies[sd[p].invite] = Absent
    <3>1. sd[p].invite \in Ids
      BY <1>1, <2>2, <2>4 DEF PInv, PartyTypes, Session
    <3>2. Over(sd[p].invite)
      BY <1>1, <2>1, <2>2, <2>4, <3>1 DEF PInv, Waiting, PartyOps, PartyAnswers
    <3> QED
      BY <3>2 DEF Over
  <2> QED
    BY <2>3, <2>4
<1>2. PInv /\ Ground => RequestsEnd
  BY <1>1 DEF RequestsEnd
<1> QED
  BY <1>2, SpecPInv, PTL

=============================================================================
