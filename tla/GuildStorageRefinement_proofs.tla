------------------- MODULE GuildStorageRefinement_proofs -------------------
(***************************************************************************)
(* Proof that in the calm environment the servers together are one storage *)
(* with one lock, LockedStorage, for any number of map servers, players    *)
(* and items and through any loss of connections.                          *)
(***************************************************************************)
EXTENDS GuildStorageFresh_proofs, SequenceTheorems, WellFoundedInduction

-----------------------------------------------------------------------------
(* The saves of a queue                                                    *)
(*                                                                         *)
(* SavesIn runs through the queue.  What is true of the empty run and kept *)
(* by each message is true of the whole run: otherwise there would be a    *)
(* first place where it fails.                                             *)

LEMMA FirstOf ==
  ASSUME NEW T, T \subseteq Nat, T # {}
  PROVE  \E x \in T : \A y \in T : x <= y
<1> DEFINE R == OpToRel(<, Nat)
<1>1. IsWellFoundedOn(R, Nat)
  BY NatLessThanWellFounded
<1>2. \A x, y \in Nat : <<y, x>> \in R <=> y < x
  BY DEF OpToRel
<1> HIDE DEF R
<1>3. PICK x \in T : \A y \in T : ~ (<<y, x>> \in R)
  BY <1>1, WFMin
<1>4. ASSUME NEW y \in T PROVE x <= y
  <2>1. x \in Nat /\ y \in Nat
    OBVIOUS
  <2>2. ~(y < x)
    BY <1>2, <1>3, <2>1
  <2> QED
    BY <2>1, <2>2
<1> QED
  BY <1>4

\* Places reached step by step are reached all.
LEMMA StepByStep ==
  ASSUME NEW N \in Nat, NEW S, 0 \in S, \A n \in 1..N : n - 1 \in S => n \in S
  PROVE  \A n \in 0..N : n \in S
<1> DEFINE T == (0..N) \ S
<1>1. SUFFICES ASSUME T # {} PROVE FALSE
  OBVIOUS
<1>2. T \subseteq Nat
  OBVIOUS
<1>3. PICK x \in T : \A y \in T : x <= y
  BY <1>1, <1>2, FirstOf
<1>4. x \in 1..N
  BY <1>3
<1>5. x - 1 \in 0..N /\ ~(x <= x - 1)
  BY <1>4
<1>6. x - 1 \in S
  BY <1>3, <1>5
<1> QED
  BY <1>3, <1>4, <1>6

Contents == SUBSET Items

\* f[n] are the contents of the saves among the first n messages.
Collects(f, q) ==
  f = [n \in 0..Len(q) |->
        IF n = 0 THEN <<>>
        ELSE IF q[n].type = "save" THEN Append(f[n - 1], q[n].storage.items)
        ELSE f[n - 1]]

LEMMA SaveParts ==
  ASSUME NEW q \in Seq(UpMessage), NEW n \in 1..Len(q), q[n].type = "save"
  PROVE  q[n].storage.items \in Contents
<1>1. q[n] \in UpMessage
  OBVIOUS
<1> QED
  BY <1>1 DEF UpMessage, GStorage, Contents

\* There is such a function, and SavesIn is its last value.
LEMMA CollectorExists ==
  ASSUME NEW q \in Seq(UpMessage)
  PROVE  \E f : Collects(f, q) /\ SavesIn(q) = f[Len(q)]
<1> DEFINE Part(n, f) ==
             f = [k \in 0..n |->
                   IF k = 0 THEN <<>>
                   ELSE IF q[k].type = "save" THEN Append(f[k - 1], q[k].storage.items)
                   ELSE f[k - 1]]
           S == {n \in 0..Len(q) : \E f : Part(n, f)}
<1>1. 0 \in S
  <2>1. Part(0, [k \in 0..0 |-> <<>>])
    OBVIOUS
  <2> HIDE DEF Part
  <2> QED
    BY <2>1
<1>2. ASSUME NEW n \in 1..Len(q), n - 1 \in S
      PROVE  n \in S
  <2>1. PICK f : Part(n - 1, f)
    <3> HIDE DEF Part
    <3> QED
      BY <1>2
  <2> DEFINE last == IF q[n].type = "save" THEN Append(f[n - 1], q[n].storage.items)
                                           ELSE f[n - 1]
             g == [k \in 0..n |-> IF k = n THEN last ELSE f[k]]
  <2>2. ASSUME NEW k \in 0..n
        PROVE  g[k] = IF k = 0 THEN <<>>
                      ELSE IF q[k].type = "save" THEN Append(g[k - 1], q[k].storage.items)
                      ELSE g[k - 1]
    <3>1. CASE k = n
      <4>1. g[n] = last /\ g[n - 1] = f[n - 1] /\ n # 0
        OBVIOUS
      <4> QED
        BY <3>1, <4>1
    <3>2. CASE k # n
      <4>1. k \in 0..(n - 1) /\ g[k] = f[k]
        BY <3>2
      <4>2. k # 0 => k - 1 \in 0..(n - 1) /\ g[k - 1] = f[k - 1]
        BY <3>2
      <4>3. f[k] = IF k = 0 THEN <<>>
                   ELSE IF q[k].type = "save" THEN Append(f[k - 1], q[k].storage.items)
                   ELSE f[k - 1]
        BY <2>1, <4>1
      <4> QED
        BY <4>1, <4>2, <4>3
    <3> QED
      BY <3>1, <3>2
  <2>3. Part(n, g)
    <3> HIDE DEF last
    <3>1. g = [k \in 0..n |-> g[k]]
      OBVIOUS
    <3> HIDE DEF g
    <3> QED
      BY <2>2, <3>1
  <2> HIDE DEF Part, g
  <2> QED
    BY <2>3
<1>3. Len(q) \in S
  <2>1. Len(q) \in Nat /\ Len(q) \in 0..Len(q)
    OBVIOUS
  <2> HIDE DEF S
  <2>2. \A n \in 0..Len(q) : n \in S
    BY <1>1, <1>2, <2>1, StepByStep
  <2> QED
    BY <2>1, <2>2
<1>4. \E f : Collects(f, q)
  BY <1>3 DEF Collects
<1> DEFINE f == CHOOSE f : Collects(f, q)
<1>5. Collects(f, q)
  BY <1>4
<1>6. SavesIn(q) = f[Len(q)]
  BY DEF SavesIn, Collects
<1> QED
  BY <1>5, <1>6

\* What SavesIn collects, message by message.
LEMMA Collected ==
  ASSUME NEW q \in Seq(UpMessage)
  PROVE  \E f \in [0..Len(q) -> Seq(Contents)] :
           /\ SavesIn(q) = f[Len(q)]
           /\ f[0] = <<>>
           /\ \A n \in 1..Len(q) :
                f[n] = IF q[n].type = "save" THEN Append(f[n - 1], q[n].storage.items)
                                             ELSE f[n - 1]
<1>1. PICK f : Collects(f, q) /\ SavesIn(q) = f[Len(q)]
  BY CollectorExists
<1>2. /\ f[0] = <<>>
      /\ \A n \in 1..Len(q) :
           f[n] = IF q[n].type = "save" THEN Append(f[n - 1], q[n].storage.items)
                                        ELSE f[n - 1]
  <2>1. \A n \in 0..Len(q) :
          f[n] = IF n = 0 THEN <<>>
                 ELSE IF q[n].type = "save" THEN Append(f[n - 1], q[n].storage.items)
                 ELSE f[n - 1]
    BY <1>1, Zenon DEF Collects
  <2>2. Len(q) \in Nat
    OBVIOUS
  <2> QED
    BY <2>1, <2>2
<1> DEFINE S == {n \in 0..Len(q) : f[n] \in Seq(Contents)}
<1>3. 0 \in S
  <2>1. <<>> \in Seq(Contents) /\ 0 \in 0..Len(q)
    OBVIOUS
  <2> QED
    BY <1>2, <2>1
<1>4. \A n \in 1..Len(q) : n - 1 \in S => n \in S
  <2> SUFFICES ASSUME NEW n \in 1..Len(q), f[n - 1] \in Seq(Contents)
               PROVE  f[n] \in Seq(Contents)
    OBVIOUS
  <2>1. q[n].type = "save" => q[n].storage.items \in Contents
    BY SaveParts
  <2>2. q[n].type = "save" => Append(f[n - 1], q[n].storage.items) \in Seq(Contents)
    BY <2>1
  <2> QED
    BY <1>2, <2>2
<1>5. \A n \in 0..Len(q) : n \in S
  <2>1. Len(q) \in Nat
    OBVIOUS
  <2> HIDE DEF S
  <2> QED
    BY <1>3, <1>4, <2>1, StepByStep
<1>6. f \in [0..Len(q) -> Seq(Contents)]
  BY <1>1, <1>5 DEF Collects
<1> QED
  BY <1>1, <1>2, <1>6

LEMMA AppendedTail ==
  ASSUME NEW S, NEW s \in Seq(S), NEW x \in S, s # <<>>
  PROVE  /\ Append(s, x) # <<>>
         /\ Head(Append(s, x)) = Head(s)
         /\ Tail(Append(s, x)) = Append(Tail(s), x)
<1>1. /\ Len(s) \in Nat /\ Len(s) # 0 /\ Tail(s) \in Seq(S) /\ Len(Tail(s)) = Len(s) - 1
      /\ Append(s, x) \in Seq(S) /\ Len(Append(s, x)) = Len(s) + 1
  OBVIOUS
<1>2. Append(s, x) # <<>> /\ Head(Append(s, x)) = Head(s)
  BY <1>1
<1> DEFINE a == Tail(Append(s, x))
           b == Append(Tail(s), x)
<1>3. a \in Seq(S) /\ b \in Seq(S) /\ Len(a) = Len(s) /\ Len(b) = Len(s)
  BY <1>1, <1>2
<1>4. ASSUME NEW i \in 1..Len(s)
      PROVE  a[i] = b[i]
  <2>1. a[i] = Append(s, x)[i + 1]
    BY <1>1, <1>2
  <2>2. CASE i = Len(s)
    BY <1>1, <2>1, <2>2
  <2>3. CASE i # Len(s)
    <3> DEFINE n == Len(s)
    <3>0. n \in Nat /\ Len(Tail(s)) = n - 1 /\ i \in 1..n /\ i # n
      BY <1>1, <2>3
    <3> HIDE DEF n, a, b
    <3>1. i \in 1..Len(Tail(s)) /\ i + 1 \in 1..n
      BY <3>0
    <3> USE DEF n, a, b
    <3>2. b[i] = Tail(s)[i]
      BY <1>1, <3>1
    <3>3. Tail(s)[i] = s[i + 1]
      BY <1>1, <3>1
    <3>4. Append(s, x)[i + 1] = s[i + 1]
      BY <1>1, <3>1
    <3> QED
      BY <2>1, <3>2, <3>3, <3>4
  <2> QED
    BY <2>2, <2>3
<1> HIDE DEF a, b
<1>5. a = b
  BY <1>3, <1>4, SeqEqual
<1> QED
  BY <1>2, <1>5 DEF a, b

\* The saves of an empty queue, of a queue that got a message,
LEMMA SavesOfEmpty == SavesIn(<<>>) = <<>>
<1>1. <<>> \in Seq(UpMessage) /\ Len(<<>>) = 0
  OBVIOUS
<1> QED
  BY <1>1, Collected

LEMMA SavesOfAppend ==
  ASSUME NEW q \in Seq(UpMessage), NEW x \in UpMessage
  PROVE  SavesIn(Append(q, x)) =
           IF x.type = "save" THEN Append(SavesIn(q), x.storage.items) ELSE SavesIn(q)
<1> DEFINE r == Append(q, x)
           k == Len(q) + 1
<1>1. /\ r \in Seq(UpMessage) /\ Len(r) = k /\ Len(q) \in Nat /\ r[k] = x
      /\ \A n \in 1..Len(q) : r[n] = q[n]
      /\ k \in 1..k /\ k - 1 = Len(q)
  OBVIOUS
<1>2. PICK f \in [0..Len(q) -> Seq(Contents)] :
        /\ SavesIn(q) = f[Len(q)]
        /\ f[0] = <<>>
        /\ \A n \in 1..Len(q) :
             f[n] = IF q[n].type = "save" THEN Append(f[n - 1], q[n].storage.items)
                                          ELSE f[n - 1]
  BY Collected
<1> HIDE DEF r
<1>3. PICK g \in [0..k -> Seq(Contents)] :
        /\ SavesIn(r) = g[k]
        /\ g[0] = <<>>
        /\ \A n \in 1..k :
             g[n] = IF r[n].type = "save" THEN Append(g[n - 1], r[n].storage.items)
                                          ELSE g[n - 1]
  BY <1>1, Collected
<1> DEFINE S == {n \in 0..Len(q) : g[n] = f[n]}
<1>4. 0 \in S
  BY <1>1, <1>2, <1>3
<1>5. ASSUME NEW n \in 1..Len(q), n - 1 \in S
      PROVE  n \in S
  <2>1. n \in 1..k /\ n \in 0..Len(q) /\ g[n - 1] = f[n - 1] /\ r[n] = q[n]
    BY <1>1, <1>5
  <2>2. g[n] = IF r[n].type = "save" THEN Append(g[n - 1], r[n].storage.items) ELSE g[n - 1]
    BY <1>3, <2>1
  <2>3. f[n] = IF q[n].type = "save" THEN Append(f[n - 1], q[n].storage.items) ELSE f[n - 1]
    BY <1>2
  <2>4. g[n] = f[n]
    BY <2>1, <2>2, <2>3
  <2> QED
    BY <2>1, <2>4
<1>6. Len(q) \in S
  <2> HIDE DEF S
  <2>1. \A n \in 0..Len(q) : n \in S
    BY <1>1, <1>4, <1>5, StepByStep
  <2> QED
    BY <1>1, <2>1
<1>7. g[k] = IF x.type = "save" THEN Append(f[Len(q)], x.storage.items) ELSE f[Len(q)]
  BY <1>1, <1>3, <1>6
<1> QED
  BY <1>2, <1>3, <1>7 DEF r

\* and of one whose first message was taken.
LEMMA SavesOfTail ==
  ASSUME NEW q \in Seq(UpMessage), q # <<>>
  PROVE  /\ Head(q).type # "save" => SavesIn(Tail(q)) = SavesIn(q)
         /\ Head(q).type = "save" => /\ SavesIn(q) # <<>>
                                     /\ Head(SavesIn(q)) = Head(q).storage.items
                                     /\ Tail(SavesIn(q)) = SavesIn(Tail(q))
<1> DEFINE r == Tail(q)
           k == Len(r)
           h == Head(q).storage.items
<1>1. /\ r \in Seq(UpMessage) /\ k \in Nat /\ Len(q) = k + 1 /\ Head(q) = q[1]
      /\ \A n \in 1..k : r[n] = q[n + 1]
  OBVIOUS
<1>2. PICK f \in [0..(k + 1) -> Seq(Contents)] :
        /\ SavesIn(q) = f[k + 1]
        /\ f[0] = <<>>
        /\ \A n \in 1..(k + 1) :
             f[n] = IF q[n].type = "save" THEN Append(f[n - 1], q[n].storage.items)
                                          ELSE f[n - 1]
  BY <1>1, Collected
<1> HIDE DEF r
<1>3. PICK g \in [0..k -> Seq(Contents)] :
        /\ SavesIn(r) = g[k]
        /\ g[0] = <<>>
        /\ \A n \in 1..k :
             g[n] = IF r[n].type = "save" THEN Append(g[n - 1], r[n].storage.items)
                                          ELSE g[n - 1]
  BY <1>1, Collected
<1>4. f[1] = IF Head(q).type = "save" THEN <<h>> ELSE <<>>
  <2>1. 1 \in 1..(k + 1) /\ 1 - 1 = 0 /\ Append(<<>>, h) = <<h>>
    BY <1>1
  <2> QED
    BY <1>1, <1>2, <2>1
<1>5. ASSUME NEW n \in 1..k
      PROVE  /\ n + 1 \in 1..(k + 1) /\ n \in 0..(k + 1) /\ n - 1 \in 0..k
             /\ f[n + 1] = IF r[n].type = "save" THEN Append(f[n], r[n].storage.items)
                                                 ELSE f[n]
             /\ g[n] = IF r[n].type = "save" THEN Append(g[n - 1], r[n].storage.items)
                                             ELSE g[n - 1]
  <2>1. n + 1 \in 1..(k + 1) /\ n \in 0..(k + 1) /\ n - 1 \in 0..k /\ (n + 1) - 1 = n
    BY <1>1
  <2> QED
    BY <1>1, <1>2, <1>3, <2>1
<1>6. ASSUME Head(q).type # "save"
      PROVE  SavesIn(r) = SavesIn(q)
  <2> DEFINE S == {n \in 0..k : f[n + 1] = g[n]}
  <2>1. 0 \in S
    BY <1>1, <1>3, <1>4, <1>6
  <2>2. ASSUME NEW n \in 1..k, n - 1 \in S
        PROVE  n \in S
    <3>1. f[n] = g[n - 1]
      BY <1>1, <2>2
    <3> QED
      BY <1>1, <1>5, <3>1
  <2>3. k \in S
    <3> HIDE DEF S
    <3>1. \A n \in 0..k : n \in S
      BY <1>1, <2>1, <2>2, StepByStep
    <3> QED
      BY <1>1, <3>1
  <2> QED
    BY <1>2, <1>3, <2>3
<1>7. ASSUME Head(q).type = "save"
      PROVE  /\ SavesIn(q) # <<>>
             /\ Head(SavesIn(q)) = h
             /\ Tail(SavesIn(q)) = SavesIn(r)
  <2> DEFINE S == {n \in 0..k : /\ f[n + 1] # <<>>
                                /\ Head(f[n + 1]) = h
                                /\ Tail(f[n + 1]) = g[n]}
  <2>1. 0 \in S
    <3>1. <<h>> # <<>> /\ Head(<<h>>) = h /\ Tail(<<h>>) = <<>>
      OBVIOUS
    <3>2. 0 + 1 = 1 /\ 0 \in 0..k
      BY <1>1
    <3> QED
      BY <1>3, <1>4, <1>7, <3>1, <3>2
  <2>2. ASSUME NEW n \in 1..k, n - 1 \in S
        PROVE  n \in S
    <3>1. f[n] # <<>> /\ Head(f[n]) = h /\ Tail(f[n]) = g[n - 1] /\ f[n] \in Seq(Contents)
      BY <1>1, <1>5, <2>2
    <3>2. CASE r[n].type = "save"
      <4> DEFINE x == r[n].storage.items
      <4>1. x \in Contents
        BY <1>1, <3>2, SaveParts
      <4> HIDE DEF x
      <4>2. \A s \in Seq(Contents) : s # <<>> =>
              /\ Append(s, x) # <<>>
              /\ Head(Append(s, x)) = Head(s)
              /\ Tail(Append(s, x)) = Append(Tail(s), x)
        BY <4>1, AppendedTail
      <4>3. f[n + 1] = Append(f[n], x) /\ g[n] = Append(g[n - 1], x)
        BY <1>5, <3>2 DEF x
      <4>4. /\ f[n + 1] # <<>> /\ Head(f[n + 1]) = Head(f[n])
            /\ Tail(f[n + 1]) = Append(Tail(f[n]), x)
        BY <3>1, <4>2, <4>3
      <4>5. Tail(f[n + 1]) = g[n]
        BY <3>1, <4>3, <4>4
      <4>6. n \in 0..k
        BY <1>1
      <4> QED
        BY <3>1, <4>4, <4>5, <4>6
    <3>3. CASE r[n].type # "save"
      BY <1>1, <1>5, <3>1, <3>3
    <3> QED
      BY <3>2, <3>3
  <2>3. k \in S
    <3> HIDE DEF S
    <3>1. \A n \in 0..k : n \in S
      BY <1>1, <2>1, <2>2, StepByStep
    <3> QED
      BY <1>1, <3>1
  <2> QED
    BY <1>2, <1>3, <2>3
<1> QED
  BY <1>6, <1>7 DEF r

\* Without saves there are none; otherwise the last one is the last.
LEMMA SavesUpshot ==
  ASSUME NEW q \in Seq(UpMessage)
  PROVE  LET s == SavesIn(q)
         IN  /\ s \in Seq(Contents)
             /\ s = <<>> <=> \A i \in DOMAIN q : q[i].type # "save"
             /\ \A base, c : Upshot(q, base, c) => c = IF s = <<>> THEN base ELSE s[Len(s)]
<1>1. Len(q) \in Nat /\ DOMAIN q = 1..Len(q) /\ Len(q) \in 0..Len(q)
  OBVIOUS
<1>2. PICK f \in [0..Len(q) -> Seq(Contents)] :
        /\ SavesIn(q) = f[Len(q)]
        /\ f[0] = <<>>
        /\ \A n \in 1..Len(q) :
             f[n] = IF q[n].type = "save" THEN Append(f[n - 1], q[n].storage.items)
                                          ELSE f[n - 1]
  BY Collected
<1> DEFINE Ends(n) ==
             \/ f[n] = <<>> /\ \A i \in 1..n : q[i].type # "save"
             \/ \E i \in 1..n : /\ q[i].type = "save"
                                /\ \A j \in 1..n : i < j => q[j].type # "save"
                                /\ f[n] # <<>> /\ f[n][Len(f[n])] = q[i].storage.items
           S == {n \in 0..Len(q) : Ends(n)}
<1>3. 0 \in S
  BY <1>1, <1>2
<1>4. ASSUME NEW n \in 1..Len(q), n - 1 \in S
      PROVE  n \in S
  <2>1. Ends(n - 1) /\ f[n - 1] \in Seq(Contents)
    BY <1>1, <1>4
  <2>2. CASE q[n].type = "save"
    <3>1. q[n].storage.items \in Contents
      BY <2>2, SaveParts
    <3>2. f[n] = Append(f[n - 1], q[n].storage.items)
      BY <1>2, <2>2
    <3>3. f[n] # <<>> /\ f[n][Len(f[n])] = q[n].storage.items
      BY <2>1, <3>1, <3>2
    <3>4. \A j \in 1..n : ~(n < j)
      OBVIOUS
    <3>5. Ends(n)
      BY <2>2, <3>3, <3>4
    <3> QED
      BY <3>5
  <2>3. CASE q[n].type # "save"
    <3>1. f[n] = f[n - 1] /\ n \in Nat
      BY <1>1, <1>2, <2>3
    <3>2. \A i \in 1..n : i \in 1..(n - 1) \/ i = n
      OBVIOUS
    <3>3. \A i \in 1..(n - 1) : i \in 1..n
      OBVIOUS
    <3>4. Ends(n)
      BY <2>1, <2>3, <3>1, <3>2, <3>3
    <3> QED
      BY <3>4
  <2> QED
    BY <2>2, <2>3
<1>5. Ends(Len(q))
  <2>1. Len(q) \in S
    <3> HIDE DEF S
    <3>1. \A n \in 0..Len(q) : n \in S
      BY <1>1, <1>3, <1>4, StepByStep
    <3> QED
      BY <1>1, <3>1
  <2> QED
    BY <2>1
<1>6. SavesIn(q) \in Seq(Contents)
  BY <1>1, <1>2
<1>7. SavesIn(q) = <<>> <=> \A i \in DOMAIN q : q[i].type # "save"
  BY <1>1, <1>2, <1>5
<1>8. ASSUME NEW base, NEW c, Upshot(q, base, c)
      PROVE  c = IF SavesIn(q) = <<>> THEN base ELSE SavesIn(q)[Len(SavesIn(q))]
  BY <1>1, <1>2, <1>5, <1>8 DEF Upshot
<1> QED
  BY <1>6, <1>7, <1>8

-----------------------------------------------------------------------------
(* The refinement mapping *)

\* Who has custody of the lock has one of the tokens.
LEMMA CustodyIsToken ==
  ASSUME TypeOK, NEW p \in Players
  PROVE  Custody(p) <=>
           \/ sd[p].flag
           \/ \E m \in Maps, i \in Nat :
                \/ UpToken(m, i) /\ up[m][i] = LoadReq(p)
                \/ DownToken(m, i) /\ down[m][i].who = p
<1>1. /\ up \in [Maps -> Seq(UpMessage)] /\ down \in [Maps -> Seq(DownMessage)]
      /\ LoadReq(p).type = "load"
  BY DEF TypeOK, LoadReq
<1>2. \A m \in Maps : DOMAIN up[m] \subseteq Nat /\ DOMAIN down[m] \subseteq Nat
  BY <1>1
<1> QED
  BY <1>1, <1>2 DEF Custody, UpToken, DownToken, Grants

\* So at most one player has it, and none without tokens.
LEMMA OneCustody ==
  ASSUME TypeOK, OneToken, NEW p \in Players, NEW q \in Players, Custody(p), Custody(q)
  PROVE  p = q
<1>1. \/ sd[p].flag
      \/ \E m \in Maps, i \in Nat : \/ UpToken(m, i) /\ up[m][i] = LoadReq(p)
                                    \/ DownToken(m, i) /\ down[m][i].who = p
  BY CustodyIsToken
<1>2. \/ sd[q].flag
      \/ \E m \in Maps, i \in Nat : \/ UpToken(m, i) /\ up[m][i] = LoadReq(q)
                                    \/ DownToken(m, i) /\ down[m][i].who = q
  BY CustodyIsToken
<1>3. CASE sd[p].flag
  BY <1>1, <1>2, <1>3 DEF OneToken, MutualExclusion
<1>4. ASSUME NEW m \in Maps, NEW i \in Nat, UpToken(m, i), up[m][i] = LoadReq(p)
      PROVE  p = q
  <2>1. ~sd[q].flag /\ \A n \in Maps, j \in Nat : /\ ~DownToken(n, j)
                                                  /\ UpToken(n, j) => n = m /\ i = j
    BY <1>4 DEF OneToken, UpTokenOnly
  <2>2. LoadReq(p) = LoadReq(q)
    BY <1>2, <1>4, <2>1
  <2> QED
    BY <2>2 DEF LoadReq
<1>5. ASSUME NEW m \in Maps, NEW i \in Nat, DownToken(m, i), down[m][i].who = p
      PROVE  p = q
  <2>1. ~sd[q].flag /\ \A n \in Maps, j \in Nat : /\ ~UpToken(n, j)
                                                  /\ DownToken(n, j) => n = m /\ i = j
    BY <1>5 DEF OneToken, DownTokenOnly
  <2> QED
    BY <1>2, <1>5, <2>1
<1> QED
  BY <1>1, <1>3, <1>4, <1>5

\* Who holds the lock: nobody, the one who has custody, or nobody in particular.
HolderIs ==
  /\ gs.status = 0 => Holder = "nobody"
  /\ gs.status # 0 => /\ \A p \in Players : Custody(p) => Holder = p
                      /\ (\A p \in Players : ~Custody(p)) => Holder = "gone"

HasSave(m) == \E i \in DOMAIN up[m] : up[m][i].type = "save"

\* The saves under way are those of one server.
SavesAre ==
  /\ \A m \in Maps : HasSave(m) => SavesInFlight = SavesIn(up[m])
  /\ (\A m \in Maps : ~HasSave(m)) => SavesInFlight = <<>>
  /\ SavesInFlight \in Seq(Contents)

\* What will be stored when they have arrived.
Latest == IF SavesInFlight = <<>> THEN gs.items ELSE SavesInFlight[Len(SavesInFlight)]

\* The content is the cache of the one who has it open, else what will be stored.
ContentIs ==
  /\ \A p \in Players : sd[p].flag => Content = cache[sd[p].at].items
  /\ (\A p \in Players : ~sd[p].flag) => Content = Latest

\* A queue has a message of S.
Has(q, S) == \E i \in DOMAIN q : q[i] \in S

GrantsTo(p) == {x \in DownMessage : Grants(x) /\ x.who = p}

\* Custody, queue by queue.
CustodyIs ==
  \A p \in Players :
    Custody(p) <=> \/ sd[p].flag
                   \/ \E m \in Maps : Has(up[m], {LoadReq(p)}) \/ Has(down[m], GrantsTo(p))

Mapped == CustodyIs /\ HolderIs /\ SavesAre /\ ContentIs

LEMMA IsMapped == FInv => Mapped
<1> SUFFICES ASSUME FInv PROVE Mapped
  OBVIOUS
<1>1. TypeOK /\ OneToken /\ MutualExclusion /\ up \in [Maps -> Seq(UpMessage)]
  BY DEF FInv, IInv, OneToken, TypeOK
<1>2. HolderIs
  <2>1. ASSUME gs.status # 0, NEW p \in Players, Custody(p)
        PROVE  Holder = p
    <3> DEFINE q == CHOOSE x \in Players : Custody(x)
    <3>1. q \in Players /\ Custody(q)
      BY <2>1
    <3>2. Holder = q
      BY <2>1 DEF Holder
    <3> HIDE DEF q
    <3> QED
      BY <1>1, <2>1, <3>1, <3>2, OneCustody
  <2> QED
    BY <2>1 DEF HolderIs, Holder
<1>3. SavesAre
  <2>1. ASSUME NEW m \in Maps, NEW n \in Maps, HasSave(m), HasSave(n)
        PROVE  m = n
    BY <2>1, SaveIsLocked, LockedApart DEF HasSave, FInv
  <2>2. ASSUME NEW m \in Maps, HasSave(m)
        PROVE  SavesInFlight = SavesIn(up[m]) /\ SavesInFlight \in Seq(Contents)
    <3> DEFINE n == CHOOSE x \in Maps : HasSave(x)
    <3>1. n \in Maps /\ HasSave(n)
      BY <2>2
    <3>2. SavesInFlight = SavesIn(up[n])
      BY <2>2 DEF SavesInFlight, HasSave
    <3> HIDE DEF n
    <3> QED
      BY <1>1, <2>1, <2>2, <3>1, <3>2, SavesUpshot
  <2>3. ASSUME \A m \in Maps : ~HasSave(m)
        PROVE  SavesInFlight = <<>>
    BY <2>3 DEF SavesInFlight, HasSave
  <2>4. <<>> \in Seq(Contents)
    OBVIOUS
  <2>5. SavesInFlight \in Seq(Contents)
    BY <2>2, <2>3, <2>4
  <2> QED
    BY <2>2, <2>3, <2>5 DEF SavesAre
<1>4. ContentIs
  <2>1. ASSUME NEW p \in Players, sd[p].flag
        PROVE  Content = cache[sd[p].at].items
    <3> DEFINE q == CHOOSE x \in Players : sd[x].flag
    <3>1. q \in Players /\ sd[q].flag
      BY <2>1
    <3>2. Content = cache[sd[q].at].items
      BY <2>1 DEF Content
    <3> HIDE DEF q
    <3>3. p = q
      BY <1>1, <2>1, <3>1 DEF MutualExclusion
    <3> QED
      BY <3>2, <3>3
  <2>2. ASSUME \A p \in Players : ~sd[p].flag
        PROVE  Content = Latest
    BY <2>2 DEF Content, Latest
  <2> QED
    BY <2>1, <2>2 DEF ContentIs
<1>5. CustodyIs
  <2>1. \A m \in Maps : \A i \in DOMAIN down[m] : down[m][i] \in DownMessage
    BY DEF FInv, IInv, TypeOK
  <2> QED
    BY <2>1 DEF CustodyIs, Custody, Has, GrantsTo, Grants
<1> QED
  BY <1>2, <1>3, <1>4, <1>5 DEF Mapped

LEMMA TailHas ==
  ASSUME NEW T, NEW q \in Seq(T), q # <<>>, NEW S
  PROVE  Has(q, S) <=> Head(q) \in S \/ Has(Tail(q), S)
<1>1. /\ 1 \in DOMAIN q /\ q[1] = Head(q)
      /\ \A i \in DOMAIN Tail(q) : i \in Nat /\ i + 1 \in DOMAIN q /\ Tail(q)[i] = q[i + 1]
      /\ \A i \in DOMAIN q : i \in Nat /\ (i # 1 => i > 1 /\ i - 1 \in DOMAIN Tail(q))
  BY RestOf
<1>2. \A i \in DOMAIN q : i # 1 => i - 1 \in DOMAIN Tail(q) /\ Tail(q)[i - 1] = q[i]
  BY <1>1
<1> QED
  BY <1>1, <1>2 DEF Has

LEMMA AppendHas ==
  ASSUME NEW T, NEW q \in Seq(T), NEW x \in T, NEW S
  PROVE  Has(Append(q, x), S) <=> x \in S \/ Has(q, S)
<1>1. /\ \A i \in DOMAIN q : i \in DOMAIN Append(q, x) /\ Append(q, x)[i] = q[i]
      /\ Len(q) + 1 \in DOMAIN Append(q, x) /\ Append(q, x)[Len(q) + 1] = x
      /\ \A i \in DOMAIN Append(q, x) : i \in DOMAIN q \/ i = Len(q) + 1
  BY LongerBy
<1> QED
  BY <1>1 DEF Has

\* The messages that tell a custody from none.
LEMMA TokenMessages ==
  ASSUME NEW p \in Players
  PROVE  /\ \A q \in Players : LoadReq(q) \in {LoadReq(p)} <=> q = p
         /\ \A x : x.type # "load" => x \notin {LoadReq(p)}
         /\ \A x : ~Grants(x) => x \notin GrantsTo(p)
         /\ \A x \in DownMessage : Grants(x) => (x \in GrantsTo(p) <=> x.who = p)
<1>1. LoadReq(p).type = "load" /\ \A q \in Players : LoadReq(q).who = q
  BY DEF LoadReq
<1> QED
  BY <1>1 DEF GrantsTo

\* What a step that is none of the abstract storage leaves alone.
Stutters == UNCHANGED <<Holder, Content, SavesInFlight, gs.items>>

LEMMA SameHolder ==
  ASSUME HolderIs, HolderIs', gs'.status = 0 <=> gs.status = 0,
         \A p \in Players : Custody(p)' <=> Custody(p)
  PROVE  Holder' = Holder
<1>1. CASE gs.status = 0
  BY <1>1 DEF HolderIs
<1>2. CASE gs.status # 0
  <2>1. CASE \E p \in Players : Custody(p)
    BY <1>2, <2>1 DEF HolderIs
  <2>2. CASE \A p \in Players : ~Custody(p)
    BY <1>2, <2>2 DEF HolderIs
  <2> QED
    BY <2>1, <2>2
<1> QED
  BY <1>1, <1>2

\* A queue that got or lost a message that is no save, or lost many.
SameSaves(q, r) ==
  \/ r = q
  \/ \E x \in UpMessage : x.type # "save" /\ r = Append(q, x)
  \/ q # <<>> /\ Head(q).type # "save" /\ r = Tail(q)
  \/ (\A i \in DOMAIN q : q[i].type # "save") /\ r = <<>>

LEMMA SameSavesIn ==
  ASSUME NEW q \in Seq(UpMessage), NEW r \in Seq(UpMessage), SameSaves(q, r)
  PROVE  SavesIn(r) = SavesIn(q)
<1>1. CASE \E x \in UpMessage : x.type # "save" /\ r = Append(q, x)
  BY <1>1, SavesOfAppend
<1>2. CASE q # <<>> /\ Head(q).type # "save" /\ r = Tail(q)
  BY <1>2, SavesOfTail
<1>3. CASE (\A i \in DOMAIN q : q[i].type # "save") /\ r = <<>>
  <2>1. SavesIn(q) = <<>>
    BY <1>3, SavesUpshot
  <2> QED
    BY <1>3, <2>1, SavesOfEmpty
<1> QED
  BY <1>1, <1>2, <1>3 DEF SameSaves

LEMMA HasSaveIs ==
  ASSUME TypeOK, NEW m \in Maps
  PROVE  HasSave(m) <=> SavesIn(up[m]) # <<>>
<1>1. up[m] \in Seq(UpMessage)
  BY DEF TypeOK
<1> QED
  BY <1>1, SavesUpshot DEF HasSave

LEMMA SameInFlight ==
  ASSUME TypeOK, TypeOK', SavesAre, SavesAre',
         \A m \in Maps : SameSaves(up[m], up'[m])
  PROVE  SavesInFlight' = SavesInFlight
<1>1. \A m \in Maps : up[m] \in Seq(UpMessage) /\ up'[m] \in Seq(UpMessage)
  BY DEF TypeOK
<1>2. \A m \in Maps : SavesIn(up'[m]) = SavesIn(up[m])
  BY <1>1, SameSavesIn
<1>3. \A m \in Maps : HasSave(m)' <=> HasSave(m)
  BY <1>1, <1>2, SavesUpshot DEF HasSave
<1>4. CASE \E m \in Maps : HasSave(m)
  BY <1>2, <1>3, <1>4 DEF SavesAre
<1>5. CASE \A m \in Maps : ~HasSave(m)
  BY <1>3, <1>5 DEF SavesAre
<1> QED
  BY <1>4, <1>5

\* Without new saves the content stays while the same sessions have the same
\* caches open.
LEMMA SameContent ==
  ASSUME ContentIs, ContentIs', SavesInFlight' = SavesInFlight, gs'.items = gs.items,
         \A p \in Players : sd'[p].flag <=> sd[p].flag,
         \A p \in Players : sd[p].flag => cache'[sd'[p].at].items = cache[sd[p].at].items
  PROVE  Content' = Content
<1>1. CASE \E p \in Players : sd[p].flag
  BY <1>1 DEF ContentIs
<1>2. CASE \A p \in Players : ~sd[p].flag
  <2>1. Latest' = Latest
    BY DEF Latest
  <2> QED
    BY <1>2, <2>1 DEF ContentIs
<1> QED
  BY <1>1, <1>2

\* Nothing changes in the abstract storage when the tokens stay, no save is sent
\* or stored and what is open stays open.
LEMMA NothingHappens ==
  ASSUME FInv, FInv', Mapped, Mapped',
         gs'.items = gs.items, gs'.status = 0 <=> gs.status = 0,
         \A m \in Maps : SameSaves(up[m], up'[m]),
         \A p \in Players, m \in Maps :
           /\ Has(up'[m], {LoadReq(p)}) <=> Has(up[m], {LoadReq(p)})
           /\ Has(down'[m], GrantsTo(p)) <=> Has(down[m], GrantsTo(p)),
         \A p \in Players : sd'[p].flag <=> sd[p].flag,
         \A p \in Players : sd[p].flag => cache'[sd'[p].at].items = cache[sd[p].at].items
  PROVE  Stutters
<1>1. TypeOK /\ TypeOK'
  BY DEF FInv, IInv
<1>2. SavesInFlight' = SavesInFlight
  BY <1>1, SameInFlight DEF Mapped
<1>3. Content' = Content
  BY <1>2, SameContent DEF Mapped
<1>4. \A p \in Players : Custody(p)' <=> Custody(p)
  BY DEF Mapped, CustodyIs
<1>5. Holder' = Holder
  BY <1>4, SameHolder DEF Mapped
<1> QED
  BY <1>2, <1>3, <1>5 DEF Stutters

\* While the storage is open, or its lock in a message, it is locked.
LEMMA TokenIsHeld ==
  ASSUME FInv
  PROVE  /\ gs.status \in 0..1
         /\ \A m \in Maps : Locked(m) => gs.status = 1
         /\ \A p \in Players : sd[p].flag => sd[p].at \in Maps /\ Locked(sd[p].at)
<1>1. gs.status \in 0..1
  BY DEF FInv, IInv, TypeOK, GStorage
<1>2. \A m \in Maps : Locked(m) => gs.status # 0
  BY NoTokenNotLocked DEF FInv, IInv, FreeMeansNoToken
<1>3. ASSUME NEW p \in Players, sd[p].flag
      PROVE  sd[p].at \in Maps /\ Locked(sd[p].at)
  <2>1. sd[p].at \in Maps
    BY <1>3 DEF FInv, IInv, OpenIsClosable, Closable, TypeOK
  <2> QED
    BY <1>3, <2>1 DEF Locked, OpenAt
<1> QED
  BY <1>1, <1>2, <1>3

\* The saves under way are those of the server the lock is with.
LEMMA SavesOfLocked ==
  ASSUME FInv, Mapped, NEW m \in Maps, Locked(m)
  PROVE  SavesInFlight = SavesIn(up[m])
<1>1. CASE HasSave(m)
  BY <1>1 DEF Mapped, SavesAre
<1>2. CASE ~HasSave(m)
  <2>1. ASSUME NEW n \in Maps, HasSave(n)
        PROVE  FALSE
    BY <1>2, <2>1, SaveIsLocked, LockedApart DEF HasSave, FInv
  <2>2. SavesInFlight = <<>>
    BY <2>1 DEF Mapped, SavesAre
  <2> QED
    BY <1>2, <2>2, HasSaveIs DEF FInv, IInv
<1> QED
  BY <1>1, <1>2

-----------------------------------------------------------------------------
(* Every step is one of the abstract storage or none *)

\* A release finds no save before it: the save that it guards has arrived.
LEMMA ReleaseIsLast ==
  ASSUME FInv, Mapped, NEW m \in Maps, up[m] # <<>>, Head(up[m]).type \in {"unlock", "deadlock"}
  PROVE  /\ gs.status = 1 /\ SavesInFlight = <<>>
         /\ Holder = "gone" /\ Content = gs.items
<1>1. TypeOK /\ OneToken /\ up[m] \in Seq(UpMessage) /\ Mapped
  BY DEF FInv, IInv, TypeOK
<1>2. 1 \in DOMAIN up[m] /\ up[m][1] = Head(up[m]) /\ DOMAIN up[m] \subseteq Nat
  BY <1>1
<1>3. UpToken(m, 1)
  BY <1>2 DEF UpToken
<1>4. OnlyUp(m, 1)
  BY <1>1, <1>3, OneMeansOnly
<1>5. Locked(m) /\ gs.status = 1
  BY <1>3, TokenIsHeld DEF Locked
<1>6. ~HasSave(m)
  <2> SUFFICES ASSUME NEW i \in DOMAIN up[m], up[m][i].type = "save"
               PROVE  FALSE
    BY DEF HasSave
  <2>1. ~OpenAt(m)
    BY <1>4 DEF OnlyUp, OpenAt
  <2>2. PICK j \in DOMAIN up[m] : i < j /\ IsLock(up[m][j])
    BY <2>1 DEF FInv, ServerInv, SavesAreGuarded, Guarded
  <2>3. j = 1
    BY <1>2, <1>4, <2>2 DEF OnlyUp, UpToken, IsLock
  <2> QED
    BY <1>1, <2>2, <2>3
<1>7. SavesInFlight = <<>>
  BY <1>1, <1>5, <1>6, SavesOfLocked, HasSaveIs
<1>8. \A p \in Players : ~sd[p].flag
  BY <1>4 DEF OnlyUp
<1>9. Content = gs.items
  BY <1>7, <1>8 DEF Mapped, ContentIs, Latest
<1>10. ASSUME NEW p \in Players
       PROVE  ~Custody(p)
  <2>1. LoadReq(p).type = "load"
    BY DEF LoadReq
  <2>2. ~ \E n \in Maps, i \in Nat : \/ UpToken(n, i) /\ up[n][i] = LoadReq(p)
                                     \/ DownToken(n, i) /\ down[n][i].who = p
    BY <1>2, <1>4, <2>1 DEF OnlyUp
  <2> QED
    BY <1>1, <1>8, <2>2, CustodyIsToken
<1>11. Holder = "gone"
  BY <1>5, <1>10 DEF Mapped, HolderIs
<1> QED
  BY <1>5, <1>7, <1>9, <1>11

LEMMA LastOfTail ==
  ASSUME NEW T, NEW s \in Seq(T), s # <<>>
  PROVE  s[Len(s)] = IF Tail(s) = <<>> THEN Head(s) ELSE Tail(s)[Len(Tail(s))]
<1> DEFINE n == Len(s)
<1>1. n \in Nat /\ n # 0 /\ Tail(s) \in Seq(T) /\ Len(Tail(s)) = n - 1 /\ Head(s) = s[1]
  OBVIOUS
<1>2. CASE n = 1
  <2> DEFINE t == Tail(s)
  <2>0. t \in Seq(T) /\ Len(t) = 0
    BY <1>1, <1>2
  <2> HIDE DEF t
  <2>1. t = <<>>
    BY <2>0, EmptySeq
  <2> USE DEF t
  <2> QED
    BY <1>1, <1>2, <2>1
<1>3. CASE n # 1
  <2>1. n - 1 \in 1..(n - 1) /\ (n - 1) + 1 = n /\ n - 1 # 0
    BY <1>1, <1>3
  <2>2. Tail(s)[n - 1] = s[n]
    BY <1>1, <2>1
  <2>3. Tail(s) # <<>>
    BY <1>1, <2>1
  <2> QED
    BY <1>1, <2>2, <2>3
<1> QED
  BY <1>2, <1>3

\* The char server's handlers: a grant acquires the lock, a release frees it, a
\* save is stored, and a refusal or a load moves no more than a message.
LEMMA CharReceiveMaps ==
  ASSUME FInv, FInv', Mapped, Mapped', NEW m \in Maps, CharReceive(m)
  PROVE  Storage!Next \/ Stutters
<1>1. /\ UNCHANGED <<link, cached, cache, sd, enrolled, drops>>
      /\ up[m] \in Seq(UpMessage) /\ up[m] # <<>> /\ up'[m] = Tail(up[m])
      /\ 1 \in DOMAIN up[m] /\ Head(up[m]) = up[m][1] /\ Head(up[m]) \in UpMessage
      /\ down[m] \in Seq(DownMessage) /\ gs \in GStorage
      /\ \A n \in Maps : n # m => up'[n] = up[n] /\ down'[n] = down[n]
  BY CharReceiveParts
<1>2. /\ TypeOK /\ TypeOK' /\ OneToken /\ down \in [Maps -> Seq(DownMessage)]
      /\ gs'.status \in 0..1
  BY DEF FInv, IInv, TypeOK, GStorage
<1>3. Head(up[m]).type # "save" => \A n \in Maps : SameSaves(up[n], up'[n])
  BY <1>1 DEF SameSaves
<1>4. \A p \in Players, n \in Maps :
        Head(up[m]).type # "load" =>
          (Has(up'[n], {LoadReq(p)}) <=> Has(up[n], {LoadReq(p)}))
  <2> SUFFICES ASSUME NEW p \in Players, Head(up[m]).type # "load"
               PROVE  Has(up'[m], {LoadReq(p)}) <=> Has(up[m], {LoadReq(p)})
    BY <1>1
  <2> QED
    BY <1>1, TailHas, TokenMessages
<1>5. CASE ReceiveTrylock(m)
  <2>0. Head(up[m]).type = "trylock" /\ Head(up[m]).who \in Players
    BY <1>1, <1>5, MessageParts DEF ReceiveTrylock
  <2>1. PICK p \in Players : p = Head(up[m]).who /\ Head(up[m]).type = "trylock"
    BY <2>0
  <2>2. CASE gs.status = 0
    <3>1. PICK flag \in {1, 2} :
            /\ gs' = [gs EXCEPT !.status = 1, !.lastFd = link[m]]
            /\ down' = [down EXCEPT ![m] = Append(@, Ack(p, flag))]
      BY <1>5, <2>1, <2>2 DEF ReceiveTrylock
    <3>2. gs'.items = gs.items /\ gs'.status = 1
      BY <1>1, <3>1 DEF GStorage
    <3>3. SavesInFlight' = SavesInFlight
      BY <1>2, <1>3, <2>1, SameInFlight DEF Mapped
    <3>4. Content' = Content
      BY <1>1, <3>2, <3>3, SameContent DEF Mapped
    <3>5. Custody(p)'
      <4>1. Ack(p, flag) \in DownMessage /\ Grants(Ack(p, flag)) /\ Ack(p, flag).who = p
        BY <2>1 DEF Ack, DownMessage, Grants
      <4>2. Has(down'[m], GrantsTo(p))
        BY <1>1, <1>2, <3>1, <4>1, AppendHas DEF GrantsTo
      <4> QED
        BY <2>1, <4>2 DEF Mapped, CustodyIs
    <3>6. Holder = "nobody" /\ Holder' = p
      BY <2>1, <2>2, <3>2, <3>5 DEF Mapped, HolderIs
    <3>7. Storage!Acquire(p)
      BY <3>2, <3>3, <3>4, <3>6 DEF Storage!Acquire
    <3> QED
      BY <2>1, <3>7 DEF Storage!Next
  <2>3. CASE gs.status # 0
    <3>1. gs' = gs /\ down' = [down EXCEPT ![m] = Append(@, Ack(p, 0))]
      BY <1>5, <2>1, <2>3 DEF ReceiveTrylock
    <3>2. Ack(p, 0) \in DownMessage /\ ~Grants(Ack(p, 0))
      BY <2>1 DEF Ack, DownMessage, Grants
    <3>3. \A q \in Players, n \in Maps :
            Has(down'[n], GrantsTo(q)) <=> Has(down[n], GrantsTo(q))
      BY <1>1, <1>2, <3>1, <3>2, AppendHas, TokenMessages
    <3> QED
      BY <1>1, <1>3, <1>4, <2>1, <3>1, <3>3, NothingHappens
  <2> QED
    BY <2>2, <2>3
<1>6. CASE ReceiveUnlock(m)
  <2>1. /\ Head(up[m]).type \in {"unlock", "deadlock"}
        /\ gs' = [gs EXCEPT !.status = 0] /\ UNCHANGED down
    BY <1>6 DEF ReceiveUnlock
  <2>2. gs'.items = gs.items /\ gs'.status = 0
    BY <1>1, <2>1 DEF GStorage
  <2>3. /\ gs.status = 1 /\ SavesInFlight = <<>>
        /\ Holder = "gone" /\ Content = gs.items
    BY <1>1, <2>1, ReleaseIsLast
  <2>4. SavesInFlight' = SavesInFlight
    BY <1>2, <1>3, <2>1, SameInFlight DEF Mapped
  <2>5. Content' = Content
    BY <1>1, <2>2, <2>4, SameContent DEF Mapped
  <2>6. Holder' = "nobody"
    BY <2>2 DEF Mapped, HolderIs
  <2>7. Storage!Release
    BY <2>2, <2>3, <2>4, <2>5, <2>6 DEF Storage!Release
  <2> QED
    BY <2>7 DEF Storage!Next
<1>7. CASE ReceiveLoad(m)
  <2>0. Head(up[m]).type = "load" /\ Head(up[m]).who \in Players
    BY <1>1, <1>7, MessageParts DEF ReceiveLoad
  <2>1. PICK p \in Players :
          /\ Head(up[m]).type = "load" /\ p = Head(up[m]).who
          /\ down' = [down EXCEPT ![m] = Append(@, LoadReply(p))] /\ gs' = gs
    BY <2>0, <1>7 DEF ReceiveLoad
  <2>2. Head(up[m]) = LoadReq(p)
    BY <1>1, <2>1 DEF UpMessage, LoadReq
  <2>3. SavesInFlight' = SavesInFlight
    BY <1>2, <1>3, <2>1, SameInFlight DEF Mapped
  <2>4. Content' = Content
    BY <1>1, <2>1, <2>3, SameContent DEF Mapped
  <2>5. Custody(p)
    <3>1. Has(up[m], {LoadReq(p)})
      BY <1>1, <2>2, TailHas
    <3> QED
      BY <2>1, <3>1 DEF Mapped, CustodyIs
  <2>6. Custody(p)'
    <3>1. LoadReply(p) \in DownMessage /\ Grants(LoadReply(p)) /\ LoadReply(p).who = p
      BY <1>1, <2>1 DEF LoadReply, DownMessage, Grants
    <3>2. Has(down'[m], GrantsTo(p))
      BY <1>1, <1>2, <2>1, <3>1, AppendHas DEF GrantsTo
    <3> QED
      BY <2>1, <3>2 DEF Mapped, CustodyIs
  <2>7. gs.status # 0
    BY <1>2, <2>1, <2>5, CustodyIsToken DEF FInv, IInv, FreeMeansNoToken, NoToken
  <2>8. Holder = p /\ Holder' = p
    BY <2>1, <2>5, <2>6, <2>7 DEF Mapped, HolderIs
  <2> QED
    BY <2>1, <2>3, <2>4, <2>8 DEF Stutters
<1>8. CASE ReceiveSave(m)
  <2>1. Head(up[m]).type = "save" /\ gs' = Head(up[m]).storage /\ UNCHANGED down
    BY <1>8 DEF ReceiveSave
  <2>2. gs'.status = 1
    BY <1>1, <2>1 DEF FInv, IInv, SavesAreLocked
  <2>3. Locked(m) /\ gs.status = 1
    BY <1>1, <2>1, SaveIsLocked, TokenIsHeld
  <2>5. SavesInFlight = SavesIn(up[m])
    BY <2>3, SavesOfLocked
  <2>6. SavesInFlight' = SavesIn(up'[m])
    <3>2. (HasSave(m) => SavesInFlight = SavesIn(up[m]))'
      BY DEF Mapped, SavesAre
    <3>3. CASE HasSave(m)'
      BY <3>2, <3>3
    <3>4. CASE ~HasSave(m)'
      <4>1. \A n \in Maps : n # m => ~HasSave(n)'
        BY <1>1, <2>1, <2>3, SaveIsLocked, LockedApart DEF HasSave, FInv
      <4>2. SavesInFlight' = <<>>
        BY <3>4, <4>1 DEF Mapped, SavesAre
      <4>3. SavesIn(up'[m]) = <<>>
        <5>1. up'[m] \in Seq(UpMessage)
          BY <1>2 DEF TypeOK
        <5> QED
          BY <3>4, <5>1, SavesUpshot DEF HasSave
      <4> QED
        BY <4>2, <4>3
    <3> QED
      BY <3>3, <3>4
  <2>7. /\ SavesInFlight # <<>> /\ Head(SavesInFlight) = gs'.items
        /\ Tail(SavesInFlight) = SavesInFlight'
    BY <1>1, <2>1, <2>5, <2>6, SavesOfTail
  <2>8. \A p \in Players : Custody(p)' <=> Custody(p)
    BY <1>1, <1>4, <2>1 DEF Mapped, CustodyIs
  <2>9. Holder' = Holder
    BY <2>2, <2>3, <2>8, SameHolder DEF Mapped
  <2>10. Content' = Content
    <3>1. CASE \E p \in Players : sd[p].flag
      BY <1>1, <3>1 DEF Mapped, ContentIs
    <3>2. CASE \A p \in Players : ~sd[p].flag
      <4>1. Content = SavesInFlight[Len(SavesInFlight)]
        BY <2>7, <3>2 DEF Mapped, ContentIs, Latest
      <4>2. Content' = IF SavesInFlight' = <<>> THEN gs'.items
                       ELSE SavesInFlight'[Len(SavesInFlight')]
        BY <1>1, <3>2 DEF Mapped, ContentIs, Latest
      <4>3. SavesInFlight \in Seq(Contents)
        BY DEF Mapped, SavesAre
      <4>4. SavesInFlight[Len(SavesInFlight)] =
              IF Tail(SavesInFlight) = <<>> THEN Head(SavesInFlight)
              ELSE Tail(SavesInFlight)[Len(Tail(SavesInFlight))]
        BY <2>7, <4>3, LastOfTail
      <4> QED
        BY <2>7, <4>1, <4>2, <4>4
    <3> QED
      BY <3>1, <3>2
  <2>11. Storage!Store
    BY <2>7, <2>9, <2>10 DEF Storage!Store
  <2> QED
    BY <2>11 DEF Storage!Next
<1>9. CASE ReceiveInfoRequest(m)
  <2>1. /\ Head(up[m]).type = "info" /\ gs' = gs
        /\ down' = [down EXCEPT ![m] = Append(@, GuildInfo)]
    BY <1>9 DEF ReceiveInfoRequest
  <2>2. GuildInfo \in DownMessage /\ ~Grants(GuildInfo)
    BY InfoType DEF Grants
  <2>3. \A q \in Players, n \in Maps :
          Has(down'[n], GrantsTo(q)) <=> Has(down[n], GrantsTo(q))
    BY <1>1, <1>2, <2>1, <2>2, AppendHas, TokenMessages
  <2> QED
    BY <1>1, <1>3, <1>4, <2>1, <2>3, NothingHappens
<1> QED
  BY <1>5, <1>6, <1>7, <1>8, <1>9 DEF CharReceive

\* A grant or a load that arrives finds the storage as it is stored, and is all
\* that its player has of the lock.
LEMMA GrantArrives ==
  ASSUME FInv, Mapped, NEW m \in Maps, down[m] # <<>>, Grants(Head(down[m])),
         NEW p \in Players, p = Head(down[m]).who
  PROVE  /\ gs.status # 0 /\ Holder = p /\ SavesInFlight = <<>> /\ Content = gs.items
         /\ \A q \in Players : ~sd[q].flag
         /\ \A n \in Maps : \A i \in Nat : ~UpToken(n, i)
<1>1. TypeOK /\ OneToken /\ down[m] \in Seq(DownMessage)
  BY DEF FInv, IInv, TypeOK
<1>2. DownToken(m, 1) /\ Head(down[m]) \in DownMessage
  BY <1>1, FirstToken, TailTypes DEF TypeOK
<1>3. OnlyDown(m, 1)
  BY <1>1, <1>2, OneMeansOnly
<1>4. Locked(m) /\ gs.status # 0
  BY <1>2, TokenIsHeld DEF Locked
<1>5. SavesInFlight = <<>>
  <2>1. ~HasSave(m)
    BY <1>2, SaveIsLocked DEF HasSave
  <2> QED
    BY <1>1, <1>4, <2>1, SavesOfLocked, HasSaveIs
<1>6. Content = gs.items
  BY <1>3, <1>5 DEF OnlyDown, Mapped, ContentIs, Latest
<1>7. Custody(p)
  <2>1. Has(down[m], GrantsTo(p))
    BY <1>1, <1>2, TailHas, TokenMessages
  <2> QED
    BY <2>1 DEF Mapped, CustodyIs
<1>8. Holder = p
  BY <1>4, <1>7 DEF Mapped, HolderIs
<1> QED
  BY <1>3, <1>4, <1>5, <1>6, <1>8 DEF OnlyDown

\* It opens the storage, is passed on as a request to load, or is given up: by a
\* release, or not at all when the player may not open it.
LEMMA GrantMaps ==
  ASSUME FInv, FInv', Mapped, Mapped', OpenedFresh,
         NEW m \in Maps, down[m] # <<>>, Grants(Head(down[m])),
         down' = [down EXCEPT ![m] = Tail(@)], UNCHANGED gs,
         NEW p \in Players, p = Head(down[m]).who,
         \/ UNCHANGED up /\ sd'[p].flag /\ sd'[p].at = sd[p].at
         \/ /\ up' = [up EXCEPT ![m] = Append(@, LoadReq(p))]
            /\ \A q \in Players : ~sd'[q].flag
         \/ /\ UNCHANGED up \/ up' = [up EXCEPT ![m] = Append(@, Unlock)]
            /\ \A q \in Players : ~sd'[q].flag
  PROVE  Storage!Next \/ Stutters
<1>1. /\ gs.status # 0 /\ Holder = p /\ SavesInFlight = <<>> /\ Content = gs.items
      /\ \A q \in Players : ~sd[q].flag
      /\ \A n \in Maps : \A i \in Nat : ~UpToken(n, i)
  BY GrantArrives
<1>2. TypeOK /\ TypeOK' /\ up \in [Maps -> Seq(UpMessage)] /\ IInv
  BY DEF FInv, IInv, TypeOK
<1>3. \A n \in Maps : \A i \in Nat : ~DownToken(n, i)'
  BY <1>2, TakenToken
<1>4. LoadReq(p) \in UpMessage /\ LoadReq(p).type # "save" /\ LoadReq(p).type = "load"
  BY DEF LoadReq, UpMessage
<1>5. Unlock \in UpMessage /\ Unlock.type # "save" /\ Unlock.type # "load"
  BY DEF Unlock, UpMessage
<1>6. \A n \in Maps : SameSaves(up[n], up'[n])
  BY <1>2, <1>4, <1>5 DEF SameSaves
<1>7. SavesInFlight' = <<>>
  BY <1>1, <1>2, <1>6, SameInFlight DEF Mapped
<1>8. Content' = gs.items
  <2>1. CASE sd'[p].flag /\ sd'[p].at = sd[p].at
    <3>1. Content' = cache'[sd'[p].at].items
      BY <2>1 DEF Mapped, ContentIs
    <3>2. cache'[sd[p].at].items = gs.items
      BY <1>1, <2>1 DEF OpenedFresh
    <3> QED
      BY <2>1, <3>1, <3>2
  <2>2. CASE \A q \in Players : ~sd'[q].flag
    BY <1>7, <2>2 DEF Mapped, ContentIs, Latest
  <2> QED
    BY <2>1, <2>2
<1>9. CASE Custody(p)'
  <2>1. Holder' = p
    BY <1>1, <1>9 DEF Mapped, HolderIs
  <2> QED
    BY <1>1, <1>7, <1>8, <2>1 DEF Stutters
<1>10. CASE ~Custody(p)'
  <2>1. ~sd'[p].flag
    BY <1>10 DEF Mapped, CustodyIs
  <2>2. ~(up' = [up EXCEPT ![m] = Append(@, LoadReq(p))])
    <3> SUFFICES ASSUME up' = [up EXCEPT ![m] = Append(@, LoadReq(p))]
                 PROVE  FALSE
      OBVIOUS
    <3>1. Has(up'[m], {LoadReq(p)})
      BY <1>2, <1>4, AppendHas
    <3> QED
      BY <1>10, <3>1 DEF Mapped, CustodyIs
  <2>3. /\ UNCHANGED up \/ up' = [up EXCEPT ![m] = Append(@, Unlock)]
        /\ \A q \in Players : ~sd'[q].flag
    BY <2>1, <2>2
  <2>4. ASSUME NEW q \in Players
        PROVE  ~Custody(q)'
    <3>1. \A n \in Maps : ~Has(up[n], {LoadReq(q)})
      <4>1. LoadReq(q).type = "load" /\ \A n \in Maps : DOMAIN up[n] \subseteq Nat
        BY <1>2 DEF LoadReq
      <4> QED
        BY <1>1, <4>1 DEF Has, UpToken
    <3>2. \A n \in Maps : ~Has(up'[n], {LoadReq(q)})
      <4>1. Unlock \notin {LoadReq(q)}
        BY <1>5, TokenMessages
      <4>2. \A n \in Maps : ~Has(Append(up[n], Unlock), {LoadReq(q)})
        <5>1. \A n \in Maps : up[n] \in Seq(UpMessage)
          BY <1>2
        <5> QED
          BY <1>5, <3>1, <4>1, <5>1, AppendHas
      <4>3. \A n \in Maps : up'[n] = up[n] \/ up'[n] = Append(up[n], Unlock)
        BY <1>2, <2>3
      <4> QED
        BY <3>1, <4>2, <4>3
    <3>3. \A n \in Maps : ~Has(down'[n], GrantsTo(q))
      <4>1. \A n \in Maps : DOMAIN down'[n] \subseteq Nat
        BY <1>2 DEF TypeOK
      <4> QED
        BY <1>3, <4>1 DEF Has, GrantsTo, DownToken
    <3> QED
      BY <2>3, <3>2, <3>3 DEF Mapped, CustodyIs
  <2>5. Holder' = "gone"
    BY <1>1, <2>4 DEF Mapped, HolderIs
  <2>6. Storage!Leave(p)
    BY <1>1, <1>7, <1>8, <2>5 DEF Storage!Leave
  <2> QED
    BY <2>6 DEF Storage!Next
<1> QED
  BY <1>9, <1>10

\* An answer.
LEMMA AckMaps ==
  ASSUME FInv, FInv', Mapped, Mapped', OpenedFresh, NEW m \in Maps, down[m] # <<>>,
         ReceiveAck(m), down' = [down EXCEPT ![m] = Tail(@)], UNCHANGED gs
  PROVE  Storage!Next \/ Stutters
<1>1. PICK p \in Players : p = Head(down[m]).who /\ sd[p].at = m
  BY AckFindsMember DEF FInv, ReceiveAck, Here
<1>2. PICK s \in Session :
        /\ s.at = m /\ s.flag = sd[p].flag
        /\ \/ /\ UNCHANGED <<up, cached, cache>> /\ sd' = [sd EXCEPT ![p] = s]
              /\ ~Grants(Head(down[m]))
           \/ Grants(Head(down[m])) /\ StorageOpen(p, m, s, KeptBy(m))
  <2>1. ~(sd[p].lockreq = 1 /\ sd[p].menu # "asked")
    BY DEF FInv, ScriptWaits
  <2> QED
    BY <1>1, <2>1, AckOutcome, Zenon DEF FInv
<1>3. /\ sd \in [Players -> Session] /\ down \in [Maps -> Seq(DownMessage)]
      /\ down[m] \in Seq(DownMessage)
  BY DEF FInv, IInv, TypeOK
<1>4. CASE /\ UNCHANGED <<up, cached, cache>> /\ sd' = [sd EXCEPT ![p] = s]
           /\ ~Grants(Head(down[m]))
  <2>1. \A q \in Players : sd'[q].flag = sd[q].flag /\ sd'[q].at = sd[q].at
    BY <1>1, <1>2, <1>3, <1>4
  <2>2. \A q \in Players, n \in Maps :
          Has(down'[n], GrantsTo(q)) <=> Has(down[n], GrantsTo(q))
    BY <1>3, <1>4, TailHas, TokenMessages
  <2>3. \A n \in Maps : SameSaves(up[n], up'[n])
    BY <1>4 DEF SameSaves
  <2> QED
    BY <1>4, <2>1, <2>2, <2>3, NothingHappens
<1>5. CASE Grants(Head(down[m])) /\ StorageOpen(p, m, s, KeptBy(m))
  <2>1. \A q \in Players : ~sd[q].flag
    BY <1>1, <1>5, GrantArrives
  <2>2. PICK t \in {s, [s EXCEPT !.flag = TRUE]} :
          /\ sd' = [sd EXCEPT ![p] = t]
          /\ \/ t = [s EXCEPT !.flag = TRUE] /\ UNCHANGED up
             \/ t = s /\ UNCHANGED up
             \/ t = s /\ up' = [up EXCEPT ![m] = Append(@, LoadReq(p))]
    BY <1>5, <1>3 DEF StorageOpen, SendUp
  <2>3. sd'[p] = t /\ \A q \in Players : q # p => sd'[q] = sd[q]
    BY <1>3, <2>2
  <2>4. CASE t = [s EXCEPT !.flag = TRUE] /\ UNCHANGED up
    <3>1. t.flag /\ t.at = m
      BY <1>2, <2>4 DEF Session
    <3>2. UNCHANGED up /\ sd'[p].flag /\ sd'[p].at = sd[p].at
      BY <1>1, <2>3, <2>4, <3>1
    <3> QED
      BY <1>1, <1>5, <3>2, GrantMaps
  <2>5. CASE t = s
    <3>1. \A q \in Players : ~sd'[q].flag
      BY <1>2, <2>1, <2>3, <2>5
    <3>2. CASE UNCHANGED up
      BY <1>1, <1>5, <3>1, <3>2, GrantMaps
    <3>3. CASE up' = [up EXCEPT ![m] = Append(@, LoadReq(p))]
      BY <1>1, <1>5, <3>1, <3>3, GrantMaps
    <3> QED
      BY <2>2, <3>2, <3>3
  <2> QED
    BY <2>2, <2>4, <2>5
<1> QED
  BY <1>2, <1>4, <1>5

\* A load.
LEMMA LoadReplyMaps ==
  ASSUME FInv, FInv', Mapped, Mapped', OpenedFresh, NEW m \in Maps, down[m] # <<>>,
         ReceiveLoadReply(m), down' = [down EXCEPT ![m] = Tail(@)], UNCHANGED gs
  PROVE  Storage!Next \/ Stutters
<1>1. sd \in [Players -> Session] /\ down[m] \in Seq(DownMessage)
  BY DEF FInv, IInv, TypeOK
<1>2. Head(down[m]) \in DownMessage /\ Head(down[m]).type = "load"
  BY <1>1, TailTypes DEF ReceiveLoadReply, FInv, IInv, TypeOK
<1>3. Grants(Head(down[m]))
  BY <1>2 DEF Grants
<1>4. PICK p \in Players : p = Head(down[m]).who
  BY <1>2, MessageParts
<1>5. \A q \in Players : ~sd[q].flag
  BY <1>3, <1>4, GrantArrives
<1>6. CASE up' = [up EXCEPT ![m] = Append(@, Unlock)] /\ UNCHANGED sd
  BY <1>3, <1>4, <1>5, <1>6, GrantMaps
<1>7. CASE UNCHANGED up /\ sd' = [sd EXCEPT ![p].flag = TRUE]
  <2>1. sd'[p].flag /\ sd'[p].at = sd[p].at
    BY <1>1, <1>7 DEF Session
  <2> QED
    BY <1>3, <1>4, <1>7, <2>1, GrantMaps
<1>8. CASE UNCHANGED <<up, sd>>
  BY <1>3, <1>4, <1>5, <1>8, GrantMaps
<1> QED
  BY <1>4, <1>5, <1>6, <1>7, <1>8 DEF ReceiveLoadReply, SendUp

\* The guild's data.
LEMMA InfoMaps ==
  ASSUME FInv, FInv', Mapped, Mapped', NEW m \in Maps, down[m] # <<>>,
         ReceiveInfo(m), down' = [down EXCEPT ![m] = Tail(@)], UNCHANGED gs
  PROVE  Stutters
<1>1. UNCHANGED <<up, cache, sd>> /\ ~Grants(Head(down[m]))
  BY DEF ReceiveInfo, Grants
<1>2. down \in [Maps -> Seq(DownMessage)] /\ down[m] \in Seq(DownMessage)
  BY DEF FInv, IInv, TypeOK
<1>3. \A q \in Players, n \in Maps :
        Has(down'[n], GrantsTo(q)) <=> Has(down[n], GrantsTo(q))
  BY <1>1, <1>2, TailHas, TokenMessages
<1>4. \A n \in Maps : SameSaves(up[n], up'[n])
  BY <1>1 DEF SameSaves
<1> QED
  BY <1>1, <1>3, <1>4, NothingHappens

LEMMA MapReceiveMaps ==
  ASSUME FInv, FInv', Mapped, Mapped', OpenedFresh, NEW m \in Maps, MapReceive(m)
  PROVE  Storage!Next \/ Stutters
<1>1. /\ down[m] # <<>> /\ down' = [down EXCEPT ![m] = Tail(@)] /\ UNCHANGED gs
  BY DEF MapReceive
<1>2. Head(down[m]).type \in {"ack", "load", "info"}
  <2>1. down \in [Maps -> Seq(DownMessage)]
    BY DEF FInv, IInv, TypeOK
  <2>2. 1 \in DOMAIN down[m] /\ Head(down[m]) = down[m][1]
    BY <1>1, <2>1, NoPlaceBeyond
  <2> QED
    BY <2>2 DEF FInv, IInv, Calm
<1>3. ReceiveAck(m) \/ ReceiveLoadReply(m) \/ ReceiveInfo(m)
  BY <1>2 DEF MapReceive, ReceiveChecklock, ReceiveLeaved
<1> QED
  BY <1>1, <1>3, AckMaps, LoadReplyMaps, InfoMaps

\* A message that neither saves nor asks for a load leaves both as they are.
LEMMA AskKeeps ==
  ASSUME TypeOK, NEW x \in UpMessage, x.type \notin {"save", "load"},
         \A n \in Maps : up'[n] = up[n] \/ up'[n] = Append(up[n], x)
  PROVE  \A n \in Maps :
           /\ SameSaves(up[n], up'[n])
           /\ \A q \in Players : Has(up'[n], {LoadReq(q)}) <=> Has(up[n], {LoadReq(q)})
<1>1. \A n \in Maps : SameSaves(up[n], up'[n])
  BY DEF SameSaves
<1>2. ASSUME NEW q \in Players, NEW n \in Maps
      PROVE  Has(up'[n], {LoadReq(q)}) <=> Has(up[n], {LoadReq(q)})
  <2>1. x \notin {LoadReq(q)} /\ up[n] \in Seq(UpMessage)
    BY TokenMessages DEF TypeOK
  <2> QED
    BY <2>1, AppendHas
<1> QED
  BY <1>1, <1>2

\* A request for the lock.
LEMMA RequestMaps ==
  ASSUME FInv, FInv', Mapped, Mapped', NEW p \in Players,
         RequestByCommand(p) \/ RequestByScript(p)
  PROVE  Stutters
<1> DEFINE m == sd[p].at
<1>1. /\ up' = [up EXCEPT ![m] = Append(@, Trylock(p))]
      /\ UNCHANGED <<gs, link, down, cached, cache, enrolled, drops>>
  BY DEF RequestByCommand, RequestByScript, SendUp
<1>2. /\ up \in [Maps -> Seq(UpMessage)] /\ sd \in [Players -> Session]
  BY DEF FInv, IInv, TypeOK
<1>3. \A q \in Players : sd'[q].flag = sd[q].flag /\ sd'[q].at = sd[q].at
  <2>1. CASE sd' = [sd EXCEPT ![p].lockreq = 2]
    BY <1>2, <2>1 DEF Session
  <2>2. CASE sd' = [sd EXCEPT ![p].lockreq = 1, ![p].menu = "asked"]
    BY <1>2, <2>2 DEF Session
  <2> QED
    BY <2>1, <2>2 DEF RequestByCommand, RequestByScript
<1>4. Trylock(p) \in UpMessage /\ Trylock(p).type \notin {"save", "load"}
  BY DEF Trylock, UpMessage
<1> HIDE DEF m
<1>5. \A n \in Maps : up'[n] = up[n] \/ up'[n] = Append(up[n], Trylock(p))
  BY <1>1, <1>2
<1>6. TypeOK
  BY DEF FInv, IInv
<1> QED
  BY <1>1, <1>3, <1>4, <1>5, <1>6, AskKeeps, NothingHappens

\* Whoever has the storage open holds it, and sees its content.
LEMMA OpenHolds ==
  ASSUME FInv, Mapped, NEW p \in Players, sd[p].flag
  PROVE  /\ sd[p].at \in Maps /\ gs.status = 1
         /\ Holder = p /\ Content = cache[sd[p].at].items
         /\ SavesInFlight = SavesIn(up[sd[p].at])
         /\ ~cache[sd[p].at].dirty => Content = Latest
<1> DEFINE m == sd[p].at
<1>1. m \in Maps /\ Locked(m) /\ gs.status = 1
  BY TokenIsHeld
<1>2. Holder = p
  <2>1. Custody(p)
    BY DEF Mapped, CustodyIs
  <2> QED
    BY <1>1, <2>1 DEF Mapped, HolderIs
<1>3. Content = cache[m].items
  BY DEF Mapped, ContentIs
<1>4. SavesInFlight = SavesIn(up[m])
  BY <1>1, SavesOfLocked
<1>5. ASSUME ~cache[m].dirty
      PROVE  Content = Latest
  <2>1. m \in cached /\ gs.lastFd = link[m]
    BY <1>1 DEF FInv, IInv, OpenIsClosable, Closable, ServerInv, LockIsLinked
  <2>2. ~Reloads(m)
    <3>1. down[m] \in Seq(DownMessage) /\ OneToken
      BY <1>1 DEF FInv, IInv, TypeOK
    <3>2. DOMAIN down[m] \subseteq Nat
      BY <3>1
    <3> QED
      BY <1>1, <3>1, <3>2 DEF Reloads, OneToken, DownToken, Grants
  <2>3. Upshot(up[m], gs.items, cache[m].items)
    BY <1>1, <1>5, <2>1, <2>2 DEF FInv, ServerInv, CacheIsFresh
  <2>4. up[m] \in Seq(UpMessage)
    BY <1>1 DEF FInv, IInv, TypeOK
  <2> QED
    BY <1>3, <1>4, <2>3, <2>4, SavesUpshot DEF Latest
<1> QED
  BY <1>1, <1>2, <1>3, <1>4, <1>5

\* Putting something in and taking it out.
LEMMA EditMaps ==
  ASSUME FInv, FInv', Mapped, Mapped', NEW p \in Players, NEW i \in Items,
         StorageAdd(p, i) \/ StorageGet(p, i)
  PROVE  Storage!Next
<1>1. /\ sd[p].flag /\ UNCHANGED <<gs, link, up, down, cached, sd, enrolled, drops>>
  BY DEF StorageAdd, StorageGet
<1>2. sd[p].at \in Maps /\ Holder = p
  BY <1>1, OpenHolds
<1>3. Content' \in SUBSET Items
  <2>1. Content' = cache'[sd[p].at].items
    BY <1>1 DEF Mapped, ContentIs
  <2>2. cache'[sd[p].at] \in GStorage
    BY <1>2 DEF FInv, IInv, TypeOK
  <2> QED
    BY <2>1, <2>2 DEF GStorage
<1>4. TypeOK /\ TypeOK' /\ \A m \in Maps : SameSaves(up[m], up'[m])
  BY <1>1 DEF FInv, IInv, SameSaves
<1>5. SavesInFlight' = SavesInFlight
  BY <1>4, SameInFlight DEF Mapped
<1>6. \A q \in Players : Custody(q)' <=> Custody(q)
  BY <1>1 DEF Mapped, CustodyIs
<1>7. Holder' = Holder
  BY <1>1, <1>6, SameHolder DEF Mapped
<1>8. Storage!Edit(p)
  BY <1>1, <1>2, <1>3, <1>5, <1>7 DEF Storage!Edit
<1> QED
  BY <1>8 DEF Storage!Next

\* The save that one who has the storage open sends.
LEMMA SavedInFlight ==
  ASSUME FInv, Mapped, Mapped', FInv', NEW p \in Players, sd[p].flag,
         NEW m \in Maps, m = sd[p].at,
         up'[m] = Append(up[m], Save(cache[m]))
           \/ up'[m] = Append(Append(up[m], Save(cache[m])), Unlock)
  PROVE  SavesInFlight' = Append(SavesInFlight, Content)
<1>1. /\ up[m] \in Seq(UpMessage) /\ cache[m] \in GStorage /\ up'[m] \in Seq(UpMessage)
  BY DEF FInv, IInv, TypeOK
<1>2. SavesInFlight = SavesIn(up[m]) /\ Content = cache[m].items
  BY OpenHolds
<1>3. /\ Save(cache[m]) \in UpMessage /\ Save(cache[m]).type = "save"
      /\ Save(cache[m]).storage = cache[m]
      /\ Unlock \in UpMessage /\ Unlock.type # "save"
  BY <1>1 DEF Save, Unlock, UpMessage
<1> DEFINE x == Save(cache[m])
           q == Append(up[m], x)
<1>4. q \in Seq(UpMessage) /\ SavesIn(q) = Append(SavesIn(up[m]), cache[m].items)
  <2>1. x \in UpMessage /\ x.type = "save" /\ x.storage.items = cache[m].items
    BY <1>3
  <2>2. up[m] \in Seq(UpMessage)
    BY <1>1
  <2> HIDE DEF x
  <2>3. SavesIn(q) = Append(SavesIn(up[m]), x.storage.items)
    BY <2>1, <2>2, SavesOfAppend
  <2>4. q \in Seq(UpMessage)
    BY <2>1, <2>2
  <2> QED
    BY <2>1, <2>3, <2>4
<1>5. SavesIn(Append(q, Unlock)) = SavesIn(q)
  <2> HIDE DEF q
  <2> QED
    BY <1>3, <1>4, SavesOfAppend
<1>6. SavesIn(up'[m]) = Append(SavesIn(up[m]), cache[m].items)
  BY <1>4, <1>5
<1>7. SavesIn(up'[m]) # <<>>
  <2>1. SavesIn(up[m]) \in Seq(Contents)
    BY <1>1, SavesUpshot
  <2>2. cache[m].items \in Contents
    BY <1>1 DEF GStorage, Contents
  <2>3. \A t \in Seq(Contents), c \in Contents : Append(t, c) # <<>>
    OBVIOUS
  <2> QED
    BY <1>6, <2>1, <2>2, <2>3
<1>8. HasSave(m)'
  BY <1>1, <1>7, SavesUpshot DEF HasSave
<1>9. SavesInFlight' = SavesIn(up'[m])
  BY <1>8 DEF Mapped, SavesAre
<1> QED
  BY <1>2, <1>6, <1>9

\* An autosave.
LEMMA AutosaveMaps ==
  ASSUME FInv, FInv', Mapped, Mapped', NEW p \in Players, Autosave(p)
  PROVE  Storage!Next
<1> DEFINE m == sd[p].at
<1>1. /\ sd[p].flag /\ UNCHANGED <<gs, link, down, cached, sd, enrolled, drops>>
      /\ up' = [up EXCEPT ![m] = Append(@, Save(cache[m]))]
      /\ cache' = [cache EXCEPT ![m].dirty = FALSE]
  BY DEF Autosave, Closable, SendUp
<1>2. m \in Maps /\ Holder = p /\ gs.status = 1 /\ Content = cache[m].items
  BY <1>1, OpenHolds
<1>3. /\ up \in [Maps -> Seq(UpMessage)] /\ cache \in [Maps -> GStorage]
  BY DEF FInv, IInv, TypeOK
<1>4. SavesInFlight' = Append(SavesInFlight, Content)
  BY <1>1, <1>2, <1>3, SavedInFlight
<1>5. Content' = Content
  <2>1. cache'[m].items = cache[m].items
    BY <1>1, <1>2, <1>3 DEF GStorage
  <2>2. Content' = cache'[m].items
    BY <1>1 DEF Mapped, ContentIs
  <2> QED
    BY <1>2, <2>1, <2>2
<1>6. Holder' = p
  <2>1. Custody(p)'
    BY <1>1 DEF Mapped, CustodyIs
  <2> QED
    BY <1>1, <1>2, <2>1 DEF Mapped, HolderIs
<1>7. Storage!Save(p)
  BY <1>1, <1>2, <1>4, <1>5, <1>6 DEF Storage!Save
<1> QED
  BY <1>7 DEF Storage!Next

\* Closing the storage.
LEMMA CloseMaps ==
  ASSUME FInv, FInv', Mapped, Mapped', NEW p \in Players, Closable(p),
         StorageClose(sd[p].at), UNCHANGED <<gs, down>>,
         ~sd'[p].flag, \A q \in Players : q # p => sd'[q].flag = sd[q].flag
  PROVE  Storage!Next
<1> DEFINE m == sd[p].at
           q == IF cache[m].dirty THEN Append(up[m], Save(cache[m])) ELSE up[m]
<1>1. sd[p].flag
  BY DEF Closable
<1>2. /\ m \in Maps /\ Holder = p /\ gs.status = 1 /\ Content = cache[m].items
      /\ SavesInFlight = SavesIn(up[m])
      /\ ~cache[m].dirty => Content = Latest
  BY <1>1, OpenHolds
<1>3. /\ up \in [Maps -> Seq(UpMessage)] /\ cache \in [Maps -> GStorage] /\ TypeOK /\ OneToken
      /\ TypeOK' /\ down \in [Maps -> Seq(DownMessage)]
  BY DEF FInv, IInv, TypeOK
<1>4. up' = [up EXCEPT ![m] = Append(q, Unlock)]
  BY DEF StorageClose
<1>5. up'[m] = Append(q, Unlock) /\ \A n \in Maps : n # m => up'[n] = up[n]
  BY <1>2, <1>3, <1>4
<1>6. OnlyFlag(p)
  BY <1>1, <1>3, OneMeansOnly
<1>7. \A x \in Players : ~sd'[x].flag
  BY <1>6 DEF OnlyFlag
<1>8. Unlock \in UpMessage /\ Unlock.type \notin {"save", "load"}
  BY DEF Unlock, UpMessage
<1>9. ASSUME cache[m].dirty
      PROVE  SavesInFlight' = Append(SavesInFlight, Content) /\ Content = Latest'
  <2>1. SavesInFlight' = Append(SavesInFlight, Content)
    BY <1>1, <1>2, <1>5, <1>9, SavedInFlight
  <2>2. SavesInFlight \in Seq(Contents) /\ Content \in Contents
    BY <1>2, <1>3 DEF Mapped, SavesAre, GStorage, Contents
  <2>3. SavesInFlight' # <<>> /\ SavesInFlight'[Len(SavesInFlight')] = Content
    BY <2>1, <2>2
  <2> QED
    BY <2>1, <2>3 DEF Latest
<1>10. ASSUME ~cache[m].dirty
       PROVE  SavesInFlight' = SavesInFlight /\ Content = Latest'
  <2>1. \A n \in Maps : SameSaves(up[n], up'[n])
    BY <1>5, <1>8, <1>10 DEF SameSaves
  <2>2. SavesInFlight' = SavesInFlight
    BY <1>3, <2>1, SameInFlight DEF Mapped
  <2> QED
    BY <1>2, <1>10, <2>2 DEF Latest
<1>11. SavesInFlight' \in {SavesInFlight, Append(SavesInFlight, Content)} /\ Content = Latest'
  BY <1>9, <1>10
<1>12. Content' = Content
  BY <1>7, <1>11 DEF Mapped, ContentIs
<1>13. ASSUME NEW x \in Players
       PROVE  ~Custody(x)'
  <2>1. LoadReq(x).type = "load" /\ \A n \in Maps : DOMAIN up[n] \subseteq Nat /\ DOMAIN down[n] \subseteq Nat
    BY <1>3 DEF LoadReq
  <2>2. \A n \in Maps : ~Has(up[n], {LoadReq(x)}) /\ ~Has(down[n], GrantsTo(x))
    BY <1>6, <2>1 DEF OnlyFlag, Has, GrantsTo, UpToken, DownToken
  <2>3. /\ Save(cache[m]) \in UpMessage /\ up[m] \in Seq(UpMessage)
        /\ Save(cache[m]) \notin {LoadReq(x)} /\ Unlock \notin {LoadReq(x)}
    BY <1>2, <1>3, <1>8, TokenMessages DEF Save, UpMessage
  <2>4. q \in Seq(UpMessage) /\ ~Has(q, {LoadReq(x)})
    <3>1. Append(up[m], Save(cache[m])) \in Seq(UpMessage)
      BY <2>3
    <3>2. up[m] \in Seq(UpMessage) /\ ~Has(up[m], {LoadReq(x)})
      BY <1>2, <2>2, <2>3
    <3>3. ~Has(Append(up[m], Save(cache[m])), {LoadReq(x)})
      BY <2>3, <3>2, AppendHas
    <3> QED
      BY <3>1, <3>2, <3>3
  <2>5. ~Has(Append(q, Unlock), {LoadReq(x)})
    <3> HIDE DEF q
    <3> QED
      BY <1>8, <2>3, <2>4, AppendHas
  <2>6. \A n \in Maps : ~Has(up'[n], {LoadReq(x)})
    BY <1>5, <2>2, <2>5
  <2> QED
    BY <1>7, <2>2, <2>6 DEF Mapped, CustodyIs
<1>14. Holder' = "gone"
  BY <1>2, <1>13 DEF Mapped, HolderIs
<1>15. Storage!Leave(p)
  BY <1>2, <1>11, <1>12, <1>14 DEF Storage!Leave, Latest
<1> QED
  BY <1>15 DEF Storage!Next

\* Closing the window, and departing.
LEMMA LeaveMaps ==
  ASSUME FInv, FInv', Mapped, Mapped', NEW p \in Players,
         CloseKafra(p) \/ Depart(p)
  PROVE  Storage!Next \/ Stutters
<1>1. sd \in [Players -> Session] /\ UNCHANGED <<gs, down>>
  BY DEF FInv, IInv, TypeOK, CloseKafra, Depart
<1>2. CASE Closable(p)
  <2>1. StorageClose(sd[p].at)
    BY <1>2 DEF CloseKafra, Depart
  <2>2. ~sd'[p].flag /\ \A q \in Players : q # p => sd'[q] = sd[q]
    <3>1. CASE sd' = [sd EXCEPT ![p].flag = FALSE]
      BY <1>1, <3>1 DEF Session
    <3>2. CASE sd' = [sd EXCEPT ![p].waiting = TRUE, ![p].flag = FALSE]
      BY <1>1, <3>2 DEF Session
    <3> QED
      BY <1>2, <3>1, <3>2 DEF CloseKafra, Depart
  <2> QED
    BY <1>1, <1>2, <2>1, <2>2, CloseMaps
<1>3. CASE ~Closable(p)
  <2>1. UNCHANGED <<up, cache>> /\ sd' = [sd EXCEPT ![p].waiting = TRUE]
    BY <1>3 DEF CloseKafra, Depart
  <2>2. \A q \in Players : sd'[q].flag = sd[q].flag /\ sd'[q].at = sd[q].at
    BY <1>1, <2>1 DEF Session
  <2> QED
    BY <1>1, <2>1, <2>2, NothingHappens DEF SameSaves
<1> QED
  BY <1>2, <1>3

\* Sessions that end or begin.
LEMMA SessionMaps ==
  ASSUME FInv, FInv', Mapped, Mapped', NEW p \in Players,
         Quit(p) \/ \E m \in Maps : Login(p, m)
  PROVE  Stutters
<1>1. /\ sd \in [Players -> Session] /\ up \in [Maps -> Seq(UpMessage)] /\ TypeOK
      /\ UNCHANGED <<gs, down, cache>>
  BY DEF FInv, IInv, TypeOK, Quit, Login
<1>2. ~sd[p].flag
  BY DEF FInv, IInv, OpenIsClosable, Playing, Quit, Login
<1>3. ~sd'[p].flag /\ \A q \in Players : q # p => sd'[q] = sd[q]
  <2>1. CASE Quit(p)
    BY <1>1, <2>1 DEF Quit, NoSession
  <2>2. ASSUME NEW m \in Maps, Login(p, m)
        PROVE  ~sd'[p].flag /\ \A q \in Players : q # p => sd'[q] = sd[q]
    BY <1>1, <2>2 DEF Login, NoSession
  <2> QED
    BY <2>1, <2>2
<1>4. \A q \in Players : /\ sd'[q].flag <=> sd[q].flag
                         /\ sd[q].flag => sd'[q].at = sd[q].at
  BY <1>2, <1>3
<1>5. \A n \in Maps : up'[n] = up[n] \/ up'[n] = Append(up[n], GuildInfo)
  <2>1. UNCHANGED up \/ \E m \in Maps : SendUp(m, GuildInfo)
    BY DEF Quit, Login
  <2> QED
    BY <1>1, <2>1 DEF SendUp
<1>6. GuildInfo \in UpMessage /\ GuildInfo.type \notin {"save", "load"}
  BY InfoType
<1> QED
  BY <1>1, <1>4, <1>5, <1>6, AskKeeps, NothingHappens

\* A held lock is not free in the abstract storage either.
LEMMA HeldIsHeld ==
  ASSUME Mapped, gs.status # 0
  PROVE  Holder # "nobody"
<1>1. CASE \E p \in Players : Custody(p)
  BY <1>1, NamesAssumption DEF Mapped, HolderIs
<1>2. CASE \A p \in Players : ~Custody(p)
  BY <1>2 DEF Mapped, HolderIs
<1> QED
  BY <1>1, <1>2

\* What is left when the servers of S are cut off.
LEMMA CutOffLeaves ==
  ASSUME FInv, NEW S \in SUBSET Maps, CutOff(S)
  PROVE  /\ \A m \in S : up'[m] = <<>> /\ down'[m] = <<>>
         /\ \A m \in Maps \ S : up'[m] = up[m] /\ down'[m] = down[m] /\ cache'[m] = cache[m]
         /\ \A p \in Players : /\ sd'[p].flag <=> sd[p].flag /\ sd[p].at \notin S
                               /\ sd'[p].flag => sd'[p].at = sd[p].at
<1>1. ASSUME NEW p \in Players, sd[p].flag
      PROVE  Playing(p)
  BY <1>1 DEF FInv, IInv, OpenIsClosable
<1>2. ~NoSession.flag
  BY DEF NoSession
<1>3. \A p \in Players : sd'[p] = IF sd[p].at \in S /\ Playing(p) THEN NoSession ELSE sd[p]
  BY DEF CutOff
<1>4. \A p \in Players : /\ sd'[p].flag <=> sd[p].flag /\ sd[p].at \notin S
                         /\ sd'[p].flag => sd'[p].at = sd[p].at
  BY <1>1, <1>2, <1>3
<1> QED
  BY <1>4 DEF CutOff

\* A message that gives custody is a token.
LEMMA HasIsLocked ==
  ASSUME TypeOK, NEW p \in Players, NEW m \in Maps,
         Has(up[m], {LoadReq(p)}) \/ Has(down[m], GrantsTo(p))
  PROVE  Locked(m)
<1>1. DOMAIN up[m] \subseteq Nat /\ DOMAIN down[m] \subseteq Nat /\ LoadReq(p).type = "load"
  BY DEF TypeOK, LoadReq
<1> QED
  BY <1>1 DEF Has, GrantsTo, Locked, UpToken, DownToken

LEMMA NothingInEmpty == \A S : ~Has(<<>>, S)
  BY DEF Has

\* A connection is lost: where the lock was, with what was saved and not stored.
LEMMA DropMaps ==
  ASSUME FInv, FInv', Mapped, Mapped', NEW m \in Maps, CutOff({m}), UNCHANGED gs
  PROVE  Storage!Next \/ Stutters
<1>1. /\ up'[m] = <<>> /\ down'[m] = <<>>
      /\ \A n \in Maps : n # m => up'[n] = up[n] /\ down'[n] = down[n] /\ cache'[n] = cache[n]
      /\ \A p \in Players : /\ sd'[p].flag <=> sd[p].flag /\ sd[p].at # m
                            /\ sd'[p].flag => sd'[p].at = sd[p].at
  BY CutOffLeaves
<1>2. TypeOK /\ IInv
  BY DEF FInv, IInv
<1>3. \A p \in Players : sd[p].flag => sd[p].at \in Maps /\ Locked(sd[p].at)
  BY TokenIsHeld
<1>4. CASE ~Locked(m)
  <2>1. \A n \in Maps : SameSaves(up[n], up'[n])
    BY <1>1, <1>4, SaveIsLocked DEF SameSaves
  <2>2. \A p \in Players, n \in Maps :
          /\ Has(up'[n], {LoadReq(p)}) <=> Has(up[n], {LoadReq(p)})
          /\ Has(down'[n], GrantsTo(p)) <=> Has(down[n], GrantsTo(p))
    BY <1>1, <1>2, <1>4, HasIsLocked, NothingInEmpty
  <2>3. \A p \in Players : sd[p].flag => sd[p].at \in Maps /\ sd[p].at # m
    BY <1>3, <1>4
  <2>4. \A p \in Players : sd'[p].flag <=> sd[p].flag
    BY <1>1, <2>3
  <2>5. \A p \in Players : sd[p].flag => cache'[sd'[p].at].items = cache[sd[p].at].items
    BY <1>1, <2>3, <2>4
  <2> QED
    BY <2>1, <2>2, <2>4, <2>5, NothingHappens
<1>5. CASE Locked(m)
  <2>1. gs.status = 1
    BY <1>5, TokenIsHeld
  <2>2. \A n \in Maps : n # m => ~Locked(n)
    BY <1>2, <1>5, LockedApart
  <2>3. \A p \in Players : ~sd'[p].flag
    BY <1>1, <1>3, <2>2
  <2>4. \A n \in Maps : ~HasSave(n)'
    <3>1. \A n \in Maps : n # m => ~HasSave(n)
      BY <2>2, SaveIsLocked DEF HasSave
    <3> QED
      BY <1>1, <3>1 DEF HasSave
  <2>5. SavesInFlight' = <<>>
    BY <2>4 DEF Mapped, SavesAre
  <2>6. Content' = gs.items
    BY <2>3, <2>5 DEF Mapped, ContentIs, Latest
  <2>7. ASSUME NEW p \in Players
        PROVE  ~Custody(p)'
    <3>1. \A n \in Maps : ~Has(up'[n], {LoadReq(p)}) /\ ~Has(down'[n], GrantsTo(p))
      BY <1>1, <1>2, <2>2, HasIsLocked, NothingInEmpty
    <3> QED
      BY <2>3, <3>1 DEF Mapped, CustodyIs
  <2>8. Holder' = "gone"
    BY <2>1, <2>7 DEF Mapped, HolderIs
  <2>9. Holder # "nobody"
    BY <2>1, HeldIsHeld
  <2>10. Storage!Fail
    BY <2>5, <2>6, <2>8, <2>9 DEF Storage!Fail
  <2> QED
    BY <2>10 DEF Storage!Next
<1> QED
  BY <1>4, <1>5

\* The char server restarts and frees the lock.
LEMMA RestartMaps ==
  ASSUME FInv, FInv', Mapped, Mapped', CharRestart
  PROVE  Storage!Next \/ Stutters
<1>1. CutOff(Maps) /\ gs'.items = gs.items /\ gs'.status = 0
  BY DEF CharRestart, EmptyStorage
<1>2. /\ \A m \in Maps : up'[m] = <<>> /\ down'[m] = <<>>
      /\ \A p \in Players : sd'[p].flag => sd[p].flag /\ sd[p].at \notin Maps
  BY <1>1, CutOffLeaves
<1>3. \A p \in Players : ~sd'[p].flag
  BY <1>2, TokenIsHeld
<1>4. SavesInFlight' = <<>>
  BY <1>2 DEF Mapped, SavesAre, HasSave
<1>5. Content' = gs.items
  BY <1>1, <1>3, <1>4 DEF Mapped, ContentIs, Latest
<1>6. Holder' = "nobody"
  BY <1>1 DEF Mapped, HolderIs
<1>7. CASE gs.status = 0
  <2>1. NoToken
    BY <1>7 DEF FInv, IInv, FreeMeansNoToken
  <2>2. \A m \in Maps : ~HasSave(m)
    BY <2>1, SaveIsLocked, NoTokenNotLocked DEF HasSave
  <2>3. SavesInFlight = <<>>
    BY <2>2 DEF Mapped, SavesAre
  <2>4. Content = gs.items
    BY <2>1, <2>3 DEF NoToken, Mapped, ContentIs, Latest
  <2>5. Holder = "nobody"
    BY <1>7 DEF Mapped, HolderIs
  <2> QED
    BY <1>1, <1>4, <1>5, <1>6, <2>3, <2>4, <2>5 DEF Stutters
<1>8. CASE gs.status # 0
  <2>1. Holder # "nobody"
    BY <1>8, HeldIsHeld
  <2>2. Storage!Fail
    BY <1>1, <1>4, <1>5, <1>6, <2>1 DEF Storage!Fail
  <2> QED
    BY <2>2 DEF Storage!Next
<1> QED
  BY <1>7, <1>8

\* A connection is made again.
LEMMA ConnectMaps ==
  ASSUME FInv, FInv', Mapped, Mapped', NEW m \in Maps, Connect(m)
  PROVE  Stutters
<1>1. UNCHANGED <<gs, up, down, cache, sd>>
  BY DEF Connect
<1> QED
  BY <1>1, NothingHappens DEF SameSaves

-----------------------------------------------------------------------------
(* The specification *)

LEMMA StepMaps ==
  ASSUME FInv, FInv', Mapped, Mapped', OpenedFresh, [CalmNext]_vars
  PROVE  Storage!Next \/ Stutters
<1>1. CASE \E m \in Maps : CharReceive(m)
  BY <1>1, CharReceiveMaps
<1>2. CASE \E m \in Maps : MapReceive(m)
  BY <1>2, MapReceiveMaps
<1>3. CASE CharRestart
  BY <1>3, RestartMaps
<1>4. CASE \E m \in Maps : Drop(m)
  BY <1>4, DropMaps DEF Drop
<1>5. CASE \E m \in Maps : Connect(m)
  BY <1>5, ConnectMaps
<1>6. CASE \E p \in Players : RequestByCommand(p) \/ RequestByScript(p)
  BY <1>6, RequestMaps
<1>7. CASE \E p \in Players : CloseKafra(p) \/ (Settled(p) /\ Depart(p))
  BY <1>7, LeaveMaps
<1>8. CASE \E p \in Players : Autosave(p)
  BY <1>8, AutosaveMaps
<1>9. CASE \E p \in Players, i \in Items : StorageAdd(p, i) \/ StorageGet(p, i)
  BY <1>9, EditMaps
<1>10. CASE \E p \in Players : Quit(p) \/ \E m \in Maps : Login(p, m)
  BY <1>10, SessionMaps
<1>11. CASE UNCHANGED vars
  BY <1>11, NothingHappens DEF vars, SameSaves
<1> QED
  BY <1>1, <1>2, <1>3, <1>4, <1>5, <1>6, <1>7, <1>8, <1>9, <1>10, <1>11
     DEF CalmNext, CommonNext

LEMMA InitMaps == Init /\ Mapped => Storage!Init
<1> SUFFICES ASSUME Init, Mapped PROVE Storage!Init
  OBVIOUS
<1>1. /\ gs.status = 0 /\ gs.items = {} /\ \A p \in Players : ~sd[p].flag
      /\ \A m \in Maps : ~HasSave(m)
  BY DEF Init, EmptyStorage, NoSession, HasSave
<1>2. SavesInFlight = <<>>
  BY <1>1 DEF Mapped, SavesAre
<1>3. Holder = "nobody" /\ Content = {}
  BY <1>1, <1>2 DEF Mapped, HolderIs, ContentIs, Latest
<1> QED
  BY <1>1, <1>2, <1>3 DEF Storage!Init

\* The servers together implement the abstract storage: in the calm environment
\* the lock has one holder at a time, edits go to the current content, saves are
\* stored in the order in which they were sent, the lock comes free only when the
\* last of them has arrived, and no edit is lost but by a failure.
THEOREM StorageIsLocked == CalmSpec => ImplementsLockedStorage
<1>1. CalmSpec => [](FInv /\ Mapped)
  BY InitFresh, StepFresh, IsMapped, PTL DEF CalmSpec
<1>2. Init => Storage!Init
  BY InitFresh, IsMapped, InitMaps
<1>3. FInv /\ Mapped /\ FInv' /\ Mapped' /\ [CalmNext]_vars =>
        [Storage!Next]_<<Holder, Content, SavesInFlight, gs.items>>
  BY StepFresh, StepMaps DEF Stutters
<1> QED
  BY <1>1, <1>2, <1>3, PTL DEF CalmSpec, ImplementsLockedStorage, Storage!Spec

=============================================================================
