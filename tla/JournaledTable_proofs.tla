------------------------ MODULE JournaledTable_proofs -----------------------
(***************************************************************************)
(* Theorems about JournaledTable, for any keys, values and bounds.         *)
(*                                                                         *)
(* TypeCorrect: every reachable state is well typed.  ScanCorrect: the     *)
(* loop over the journal keeps, for every key, what a restart takes for    *)
(* its newest chunk.                                                       *)
(*                                                                         *)
(* FlushedSurvives: if flushes are at least a second apart, then in every  *)
(* environment, the crash in the gap included, a serving server's flushed  *)
(* records are what a start would find.  The argument follows one flush:   *)
(* each chunk goes to a position that no key relies on, with a timestamp   *)
(* that no chunk in the file has, so the key's previous chunk stays the    *)
(* newest until the stdio buffer is written out, and the new one is the    *)
(* newest from then on.                                                    *)
(*                                                                         *)
(* TableIsDurable: the table implements DurableTable when there is no      *)
(* crash in the gap.  This needs the same facts while a sync or a stop     *)
(* closes the journal, where a second chunk of one second may be written,  *)
(* and one more: the newest chunk of a record that still waits is out of   *)
(* everybody's reach, so that a crash never finds an older one.            *)
(***************************************************************************)
EXTENDS JournaledTable, SequenceTheorems, WellFoundedInduction, TLAPS

Content == Chunk \cup {Broken}

\* Only keys with a waiting record are visited by a flush.
TodoWaits == \A k \in todo : buf[k] # Clean

\* A server that is down knows no journal.
Forgotten ==
  job = "down" => /\ \A k \in Keys : buf[k] = Clean /\ idx[k] = 0
                  /\ free = {} /\ tail = Broken /\ todo = {}

\* How far each job can be.
Phases ==
  /\ job \in {"down", "serve"} => step = "idle"
  /\ job = "flush" => step = "flushing"
  /\ job = "leave" => step \in {"renamed", "flushing", "flushed"}
  /\ job = "start" => step \in {"gap", "renamed"}

TInv == TypeOK /\ TodoWaits /\ Forgotten /\ Phases

-----------------------------------------------------------------------------
(* The file *)

\* Writing the stdio buffer out changes one chunk at most (fseek and fflush in
\* journal_flush_sub and journal_flush).
LEMMA WrittenContent ==
  ASSUME TypeOK
  PROVE  /\ Written \in Seq(Content)
         /\ Len(Written) = Len(chunks)
         /\ \A i \in 1..Len(chunks) :
              Written[i] = IF tail # Broken /\ i = idx[tail.key] THEN tail ELSE chunks[i]
<1>1. chunks \in Seq(Content) /\ tail \in Content
  BY DEF TypeOK, Content
<1>2. CASE tail = Broken
  BY <1>1, <1>2 DEF Written
<1>3. CASE tail # Broken
  <2>1. tail.key \in Keys /\ idx[tail.key] \in 0..Len(chunks)
    BY <1>3 DEF TypeOK, Chunk
  <2>2. Written = [chunks EXCEPT ![idx[tail.key]] = tail]
    BY <1>3 DEF Written
  <2>3. CASE idx[tail.key] = 0
    <3>1. Written = chunks
      BY <1>1, <2>2, <2>3
    <3>2. QED
      BY <1>1, <3>1, <2>3
  <2>4. CASE idx[tail.key] # 0
    <3>1. idx[tail.key] \in 1..Len(chunks)
      BY <1>1, <2>1, <2>4
    <3>2. QED
      BY <1>1, <1>3, <2>2, <3>1, ExceptSeq
  <2>5. QED
    BY <2>3, <2>4
<1>4. QED
  BY <1>2, <1>3

\* A chunk on its way to position pos disturbs no other position, and what it
\* leaves there is either broken or what was there before.
LEMMA TornContent ==
  ASSUME TypeOK, NEW pos \in Position, NEW c \in Torn(pos)
  PROVE  /\ c \in Seq(Content)
         /\ Len(c) = IF free = {} THEN Len(chunks) + 1 ELSE Len(chunks)
         /\ pos \in 1..Len(c)
         /\ \A i \in 1..Len(c) :
              \/ c[i] = Broken
              \/ i \in 1..Len(chunks) /\ c[i] = Written[i]
         /\ \A i \in 1..Len(chunks) : i # pos => c[i] = Written[i]
<1> DEFINE room == IF pos \in DOMAIN chunks THEN Written ELSE Append(Written, Broken)
<1>1. /\ Written \in Seq(Content) /\ Len(Written) = Len(chunks) /\ Len(chunks) \in Nat
      /\ DOMAIN chunks = 1..Len(chunks)
  BY WrittenContent DEF TypeOK
<1>2. /\ free = {} => pos = Len(chunks) + 1
      /\ free # {} => pos \in 1..Len(chunks)
  BY DEF Position, TypeOK
<1>3. Broken \in Content
  BY DEF Content
<1>4. /\ room \in Seq(Content)
      /\ Len(room) = IF free = {} THEN Len(chunks) + 1 ELSE Len(chunks)
      /\ pos \in 1..Len(room)
      /\ \A i \in 1..Len(chunks) : room[i] = Written[i]
      /\ \A i \in 1..Len(room) : i \in 1..Len(chunks) \/ room[i] = Broken
  <2>1. CASE free = {}
    <3>1. room = Append(Written, Broken)
      BY <1>1, <1>2, <2>1
    <3>2. QED
      BY <1>1, <1>2, <1>3, <2>1, <3>1
  <2>2. CASE free # {}
    BY <1>1, <1>2, <2>2
  <2>3. QED
    BY <2>1, <2>2
<1>5. c = room \/ c = [room EXCEPT ![pos] = Broken]
  BY DEF Torn
<1> HIDE DEF room
<1>6. CASE c = room
  BY <1>1, <1>4, <1>6
<1>7. CASE c = [room EXCEPT ![pos] = Broken]
  <2>1. /\ c \in Seq(Content) /\ Len(c) = Len(room)
        /\ \A i \in 1..Len(room) : c[i] = IF i = pos THEN Broken ELSE room[i]
    BY <1>3, <1>4, <1>7, ExceptSeq
  <2>2. QED
    BY <1>1, <1>4, <2>1
<1>8. QED
  BY <1>5, <1>6, <1>7

-----------------------------------------------------------------------------
(* Types *)

\* The natural numbers are well ordered.
LEMMA LeastNatural ==
  ASSUME NEW T, T \subseteq Nat, T # {}
  PROVE  \E x \in T : \A y \in T : x <= y
<1> DEFINE R == OpToRel(<, Nat)
<1>1. IsWellFoundedOn(R, Nat)
  BY NatLessThanWellFounded
<1>2. \A x, y \in Nat : <<y, x>> \in R <=> y < x
  BY DEF OpToRel
<1> HIDE DEF R
<1>3. PICK x \in T : \A y \in T : ~ (<<y, x>> \in R)
  BY <1>1, WFMin
<1>4. ASSUME NEW y \in T
      PROVE  x <= y
  <2>1. x \in Nat /\ y \in Nat
    OBVIOUS
  <2>2. ~ (y < x)
    BY <1>2, <1>3, <2>1, Zenon
  <2>3. QED
    BY <2>1, <2>2
<1>5. QED
  BY <1>4

\* The chunk of several that is kept.
Best(c, S, i) ==
  /\ i \in S
  /\ \A j \in S : \/ c[j].time < c[i].time
                  \/ c[j].time = c[i].time /\ i <= j

BestOf(c, S) == IF S = {} THEN 0 ELSE CHOOSE i \in S : Best(c, S, i)

\* Of any chunks, one is kept.
LEMMA BestExists ==
  ASSUME NEW c \in Seq(Content), NEW S \in SUBSET (DOMAIN c), \A i \in S : c[i] # Broken, S # {}
  PROVE  \E i \in S : Best(c, S, i)
<1> DEFINE Bounds == {u \in Nat : \A i \in S : c[i].time <= u}
<1>1. S \subseteq Nat /\ \A i \in S : c[i].time \in 0..MaxClock
  BY DEF Content, Chunk
<1>2. MaxClock \in Bounds
  BY <1>1, BoundsAssumption
<1>3. PICK u \in Bounds : \A w \in Bounds : u <= w
  BY <1>2, LeastNatural
<1> DEFINE Latest == {i \in S : c[i].time = u}
<1>4. Latest # {}
  <2> SUFFICES ASSUME \A i \in S : c[i].time # u PROVE FALSE
    OBVIOUS
  <2>1. u # 0
    BY <1>1, <1>3
  <2>2. u - 1 \in Bounds
    BY <1>1, <1>3, <2>1
  <2>3. QED
    BY <1>3, <2>2
<1>5. PICK i \in Latest : \A j \in Latest : i <= j
  BY <1>1, <1>4, LeastNatural
<1>6. i \in S /\ c[i].time = u
  BY <1>5
<1>7. ASSUME NEW j \in S
      PROVE  c[j].time < c[i].time \/ (c[j].time = c[i].time /\ i <= j)
  <2>1. c[j].time <= u /\ c[j].time \in Nat /\ u \in Nat
    BY <1>1, <1>3
  <2>2. c[j].time = u => i <= j
    BY <1>5
  <2>3. QED
    BY <1>6, <2>1, <2>2
<1>8. QED
  BY <1>6, <1>7 DEF Best

LEMMA BestIs ==
  ASSUME NEW c \in Seq(Content), NEW S \in SUBSET (DOMAIN c), \A i \in S : c[i] # Broken
  PROVE  /\ S # {} => Best(c, S, BestOf(c, S))
         /\ \A i \in S : Best(c, S, i) => BestOf(c, S) = i
         /\ BestOf(c, S) = 0 <=> S = {}
<1>1. \A i \in S : i \in Nat /\ i # 0 /\ c[i].time \in Nat
  BY DEF Content, Chunk
<1>2. S # {} => Best(c, S, BestOf(c, S)) /\ BestOf(c, S) \in S
  BY BestExists DEF BestOf
<1>3. \A i, j \in S : Best(c, S, i) /\ Best(c, S, j) => i = j
  BY <1>1 DEF Best
<1>4. QED
  BY <1>1, <1>2, <1>3 DEF BestOf

\* A key with a chunk in the file has one that the scan of journal_load keeps.
LEMMA KeptExists ==
  ASSUME TypeOK, NEW k \in Keys, ChunksOf(k) # {}
  PROVE  Kept(k) \in ChunksOf(k)
<1>1. chunks \in Seq(Content) /\ ChunksOf(k) \in SUBSET (DOMAIN chunks)
  BY DEF TypeOK, Content, ChunksOf
<1>2. PICK i \in ChunksOf(k) : Best(chunks, ChunksOf(k), i)
  BY <1>1, BestExists DEF ChunksOf
<1>3. QED
  BY <1>2 DEF Kept, Best

\* What a start comes up with is a table.
LEMMA RecoveredType ==
  ASSUME TypeOK
  PROVE  Recovered \in Table
<1> SUFFICES ASSUME NEW k \in Keys
             PROVE  (IF ChunksOf(k) = {} THEN text[k] ELSE chunks[Kept(k)].value) \in Record
  BY DEF Recovered, Table
<1>1. CASE ChunksOf(k) = {}
  BY <1>1 DEF TypeOK, Table
<1>2. CASE ChunksOf(k) # {}
  BY <1>2, KeptExists DEF ChunksOf, TypeOK, Chunk
<1>3. QED
  BY <1>1, <1>2

\* A visit of the running flush, successful or not, keeps the types.
LEMMA VisitType ==
  ASSUME TInv, NEW k \in todo, NEW pos \in Position,
         chunks' \in Torn(pos),
         idx' = [idx EXCEPT ![k] = pos],
         free' \subseteq (free \ {pos}) \cup ({idx[k]} \ {0}),
         todo' = todo \ {k}
  PROVE  /\ chunks' \in Seq(Content)
         /\ idx' \in [Keys -> 0..Len(chunks')]
         /\ free' \subseteq 1..Len(chunks')
         /\ todo' \subseteq Keys
<1>1. /\ chunks' \in Seq(Content)
      /\ Len(chunks') = IF free = {} THEN Len(chunks) + 1 ELSE Len(chunks)
      /\ pos \in 1..Len(chunks')
  BY TornContent DEF TInv
<1>2. /\ k \in Keys
      /\ idx \in [Keys -> 0..Len(chunks)]
      /\ free \subseteq 1..Len(chunks)
      /\ Len(chunks) \in Nat
  BY DEF TInv, TypeOK
<1>3. idx' \in [Keys -> 0..Len(chunks')]
  BY <1>1, <1>2
<1>4. free' \subseteq 1..Len(chunks')
  BY <1>1, <1>2
<1>5. QED
  BY <1>1, <1>3, <1>4 DEF TInv, TypeOK

\* A flush starts at a time that the bound allows, with the waiting keys to visit.
LEMMA BeginType ==
  ASSUME TypeOK, NEW cache, NEW t \in Int, BeginFlush(cache, t),
         t \in PacedTime \/ t \in clock..MaxClock
  PROVE  /\ clock' \in 0..MaxClock
         /\ step' = "flushing"
         /\ todo' \subseteq Keys
         /\ \A l \in todo' : cache[l] # Clean
BY BoundsAssumption DEF TypeOK, BeginFlush, PacedTime

\* journal_write keeps the types, with and without a cache.
LEMMA JournalWriteType ==
  ASSUME TInv, NEW k \in Keys, NEW v \in Record, JournalWrite(k, v), job = "serve"
  PROVE  (TypeOK /\ TodoWaits)'
<1>1. table' \in Table /\ buf' \in [Keys -> Record \cup {Clean}]
  BY DEF TInv, TypeOK, JournalWrite, Table
<1>2. buf'[k] # Clean /\ \A l \in Keys : buf[l] # Clean => buf'[l] # Clean
  BY ValuesAssumption DEF TInv, TypeOK, JournalWrite, Record
<1>3. UNCHANGED <<disk, idx, free, tail, fails>>
  BY DEF JournalWrite
<1>4. CASE Cached
  BY <1>1, <1>2, <1>3, <1>4 DEF TInv, TypeOK, TodoWaits, JournalWrite, disk
<1>5. CASE ~Cached
  <2>1. PICK t \in PacedTime : BeginFlush([buf EXCEPT ![k] = v], t)
    BY <1>5 DEF JournalWrite
  <2>2. t \in Int
    BY BoundsAssumption DEF PacedTime, TInv, TypeOK
  <2>3. /\ clock' \in 0..MaxClock
        /\ step' = "flushing"
        /\ todo' \subseteq Keys
        /\ \A l \in todo' : buf'[l] # Clean
    BY <2>1, <2>2, BeginType DEF JournalWrite, TInv
  <2>4. job' = "flush"
    BY <1>5 DEF JournalWrite
  <2>5. QED
    BY <1>1, <1>3, <2>3, <2>4 DEF TInv, TypeOK, TodoWaits, disk, Jobs, Steps
<1>6. QED
  BY <1>4, <1>5

\* Every step keeps the types, and a flush visits waiting keys only.
LEMMA TypeStep ==
  ASSUME TInv, [Next]_vars
  PROVE  (TypeOK /\ TodoWaits)'
<1> USE DEF TInv
<1>1. ASSUME NEW k \in Keys, NEW v \in Values, Save(k, v)
      PROVE  (TypeOK /\ TodoWaits)'
  BY <1>1, JournalWriteType DEF Save, Record
<1>2. ASSUME NEW k \in Keys, Delete(k)
      PROVE  (TypeOK /\ TodoWaits)'
  BY <1>2, JournalWriteType DEF Delete, Record
<1>3. ASSUME NEW k \in Keys, WriteChunk(k)
      PROVE  (TypeOK /\ TodoWaits)'
  <2>1. PICK pos \in Position :
          /\ chunks' \in Torn(pos)
          /\ idx' = [idx EXCEPT ![k] = pos]
          /\ free' = (free \ {pos}) \cup ({idx[k]} \ {0})
    BY <1>3 DEF WriteChunk, Unused
  <2>2. k \in todo /\ todo' = todo \ {k}
    BY <1>3 DEF WriteChunk
  <2>3. /\ chunks' \in Seq(Content)
        /\ idx' \in [Keys -> 0..Len(chunks')]
        /\ free' \subseteq 1..Len(chunks')
        /\ todo' \subseteq Keys
    BY <2>1, <2>2, VisitType
  <2>4. tail' \in Chunk
    BY <1>3 DEF WriteChunk, TypeOK, TodoWaits, Chunk
  <2>5. buf' \in [Keys -> Record \cup {Clean}] /\ \A l \in todo' : buf'[l] # Clean
    BY <1>3 DEF WriteChunk, TypeOK, TodoWaits
  <2>6. QED
    BY <1>3, <2>3, <2>4, <2>5 DEF WriteChunk, TypeOK, TodoWaits, Content
<1>4. ASSUME NEW k \in Keys, FailChunk(k)
      PROVE  (TypeOK /\ TodoWaits)'
  <2>1. PICK pos \in Position :
          /\ chunks' \in Torn(pos)
          /\ idx' = [idx EXCEPT ![k] = pos]
          /\ free' = free \ {pos}
    BY <1>4 DEF FailChunk
  <2>2. k \in todo /\ todo' = todo \ {k}
    BY <1>4 DEF FailChunk
  <2>3. /\ chunks' \in Seq(Content)
        /\ idx' \in [Keys -> 0..Len(chunks')]
        /\ free' \subseteq 1..Len(chunks')
        /\ todo' \subseteq Keys
    BY <2>1, <2>2, VisitType
  <2>4. fails' \in 0..MaxFails
    BY <1>4, BoundsAssumption DEF FailChunk, TypeOK
  <2>5. QED
    BY <1>4, <2>3, <2>4 DEF FailChunk, TypeOK, TodoWaits, Content
<1>5. CASE FlushTimer
  <2>1. PICK t \in PacedTime : BeginFlush(buf, t)
    BY <1>5 DEF FlushTimer
  <2>2. t \in Int
    BY BoundsAssumption DEF PacedTime, TypeOK
  <2>3. /\ clock' \in 0..MaxClock
        /\ step' = "flushing"
        /\ todo' \subseteq Keys
        /\ \A l \in todo' : buf[l] # Clean
    BY <2>1, <2>2, BeginType
  <2>4. QED
    BY <1>5, <2>3 DEF FlushTimer, TypeOK, TodoWaits, disk, Jobs, Steps
<1>6. CASE EndFlush
  <2>1. Written \in Seq(Content) /\ Len(Written) = Len(chunks)
    BY WrittenContent
  <2>2. QED
    BY <1>6, <2>1 DEF EndFlush, TypeOK, TodoWaits, Content, Jobs, Steps
<1>7. CASE Sync \/ RenameText \/ DeleteJournal
  BY <1>7 DEF Sync, RenameText, DeleteJournal, TypeOK, TodoWaits, memory, disk, Jobs, Steps
<1>8. CASE SyncFails \/ QuitUnsynced
  <2>1. fails' \in 0..MaxFails
    BY <1>8, BoundsAssumption DEF SyncFails, QuitUnsynced, TypeOK
  <2>2. QED
    BY <1>8, <2>1 DEF SyncFails, QuitUnsynced, TypeOK, TodoWaits, memory, disk, Jobs, Steps
<1>9. CASE FinalFlush
  <2>1. PICK t \in clock..MaxClock : BeginFlush(buf, t)
    BY <1>9 DEF FinalFlush
  <2>2. t \in Int
    BY BoundsAssumption DEF TypeOK
  <2>3. /\ clock' \in 0..MaxClock
        /\ step' = "flushing"
        /\ todo' \subseteq Keys
        /\ \A l \in todo' : buf[l] # Clean
    BY <2>1, <2>2, BeginType
  <2>4. QED
    BY <1>9, <2>3 DEF FinalFlush, TypeOK, TodoWaits, disk, Jobs, Steps
<1>10. ASSUME JournalInit, chunks' = <<>>
       PROVE  /\ chunks' \in Seq(Content)
              /\ buf' \in [Keys -> Record \cup {Clean}]
              /\ idx' \in [Keys -> 0..Len(chunks')]
              /\ free' \subseteq 1..Len(chunks')
              /\ tail' \in Content
              /\ todo' = {}
  BY <1>10 DEF JournalInit, Content
<1>11. CASE RemoveJournal \/ JournalCreate
  <2>1. JournalInit /\ chunks' = <<>> /\ clock' = 0
    BY <1>11 DEF RemoveJournal, JournalCreate
  <2>2. job' \in Jobs /\ step' \in Steps /\ journal' \in {"none", "blank", "ready"}
    BY <1>11 DEF RemoveJournal, JournalCreate, TypeOK, Jobs, Steps
  <2>3. UNCHANGED <<table, text, fails>>
    BY <1>11 DEF RemoveJournal, JournalCreate
  <2>4. QED
    BY <1>10, <2>1, <2>2, <2>3, BoundsAssumption DEF TypeOK, TodoWaits, Content
<1>12. CASE Crash \/ CrashInGap
  <2>1. Forget /\ text' \in Table /\ UNCHANGED <<journal, chunks>>
    BY <1>12 DEF Crash, CrashInGap, disk, TypeOK, NoRecords, Table, Record
  <2>2. QED
    BY <2>1, BoundsAssumption
       DEF Forget, JournalInit, TypeOK, TodoWaits, NoRecords, Table, Record, Jobs, Steps
<1>13. CASE Start
  <2>1. table' \in Table
    BY <1>13, RecoveredType DEF Start
  <2>2. UNCHANGED <<text, buf, idx, free, tail, todo, clock, fails>>
    BY <1>13 DEF Start
  <2>3. CASE UNCHANGED <<journal, chunks>>
    BY <1>13, <2>1, <2>2, <2>3 DEF Start, TypeOK, TodoWaits, Jobs, Steps
  <2>4. CASE journal' = "blank" /\ chunks' = <<>> /\ job' = "serve" /\ UNCHANGED step
    <3>1. idx' \in [Keys -> 0..Len(chunks')] /\ free' = {}
      BY <1>13, <2>2, <2>4 DEF Start, TypeOK, Forgotten
    <3>2. QED
      BY <2>1, <2>2, <2>4, <3>1 DEF TypeOK, TodoWaits, Jobs, Steps
  <2>5. QED
    BY <1>13, <2>3, <2>4 DEF Start
<1>14. CASE UNCHANGED vars
  BY <1>14 DEF TypeOK, TodoWaits, vars, memory, disk
<1>15. QED
  BY <1>1, <1>2, <1>3, <1>4, <1>5, <1>6, <1>7, <1>8, <1>9, <1>11, <1>12, <1>13, <1>14
     DEF Next, SafeNext

\* Every step keeps the jobs in their phases, and what is down has forgotten.
LEMMA PhaseStep ==
  ASSUME TInv, [Next]_vars
  PROVE  Forgotten' /\ Phases'
<1> USE DEF TInv, Forgotten, Phases
<1>1. ASSUME NEW k \in Keys, NEW v, JournalWrite(k, v), job = "serve"
      PROVE  job' \in {"serve", "flush"} /\ Phases'
  BY <1>1 DEF JournalWrite, BeginFlush
<1>2. CASE \E k \in Keys : (\E v \in Values : Save(k, v)) \/ Delete(k)
  BY <1>1, <1>2 DEF Save, Delete
<1>3. CASE \E k \in Keys : WriteChunk(k) \/ FailChunk(k)
  BY <1>3 DEF WriteChunk, FailChunk
<1>4. CASE FlushTimer \/ EndFlush \/ FinalFlush
  BY <1>4 DEF FlushTimer, EndFlush, FinalFlush, BeginFlush
<1>5. CASE Sync \/ SyncFails \/ QuitUnsynced \/ RenameText
  BY <1>5 DEF Sync, SyncFails, QuitUnsynced, RenameText, memory, disk
<1>6. CASE RemoveJournal \/ JournalCreate
  BY <1>6 DEF RemoveJournal, JournalCreate, JournalInit
<1>7. CASE Crash \/ CrashInGap
  BY <1>7 DEF Crash, CrashInGap, Forget, JournalInit
<1>8. CASE Start \/ DeleteJournal
  BY <1>8 DEF Start, DeleteJournal, memory
<1>9. CASE UNCHANGED vars
  BY <1>9 DEF vars, memory, disk
<1>10. QED
  BY <1>2, <1>3, <1>4, <1>5, <1>6, <1>7, <1>8, <1>9 DEF Next, SafeNext

\* The initial state is well typed.
LEMMA TypeInit == Init => TInv
<1> SUFFICES ASSUME Init
             PROVE  TInv
  OBVIOUS
<1>1. chunks \in Seq(Chunk \cup {Broken}) /\ Len(chunks) = 0
  BY DEF Init
<1>2. QED
  BY <1>1, BoundsAssumption
     DEF Init, TInv, TypeOK, TodoWaits, Forgotten, Phases, NoRecords, Table, Record, Jobs, Steps

\* The types hold in every reachable state, crashes and failures of the file system
\* included: positions lie in the file, the queue of unused positions never holds
\* the -1 of a key without a chunk (the guard of journal_flush_sub), and so on.
THEOREM TypeCorrect == Spec => []TypeOK
<1>1. Init => TInv
  BY TypeInit
<1>2. TInv /\ [Next]_vars => TInv'
  BY TypeStep, PhaseStep DEF TInv
<1>3. TInv => TypeOK
  BY DEF TInv
<1>4. QED
  BY <1>1, <1>2, <1>3, PTL DEF Spec

-----------------------------------------------------------------------------
(* The scan of journal_load *)

\* The equation of Scan, for one position.
Scanned(s, n) ==
  IF n = 0 THEN [k \in Keys |-> 0]
  ELSE LET dat == s[n - 1]
           jhd == chunks[n]
       IN  IF jhd = Broken THEN dat
           ELSE IF dat[jhd.key] # 0 /\ ~Replaces(jhd, chunks[dat[jhd.key]]) THEN dat
           ELSE [dat EXCEPT ![jhd.key] = n]

Scanning(s) == [n \in 0..Len(chunks) |-> Scanned(s, n)]

\* The chunks of a key among the first n.
Read(k, n) == {i \in 1..n : chunks[i] # Broken /\ chunks[i].key = k}

\* Reading one more chunk.
LEMMA ReadMore ==
  ASSUME TypeOK, NEW n \in 1..Len(chunks), NEW k \in Keys
  PROVE  LET kept == BestOf(chunks, Read(k, n - 1))
         IN  BestOf(chunks, Read(k, n)) =
               IF chunks[n] = Broken \/ chunks[n].key # k \/ (kept # 0 /\ ~Replaces(chunks[n], chunks[kept]))
               THEN kept ELSE n
<1> DEFINE R    == Read(k, n - 1)
           T    == Read(k, n)
           kept == BestOf(chunks, R)
<1>1. /\ R \in SUBSET (DOMAIN chunks) /\ \A i \in R : chunks[i] # Broken
      /\ T \in SUBSET (DOMAIN chunks) /\ \A i \in T : chunks[i] # Broken
      /\ chunks \in Seq(Content)
  BY DEF Read, TypeOK, Content
<1>2. \A i \in T : i \in Nat /\ i <= n /\ chunks[i].time \in Nat
  BY <1>1 DEF TypeOK, Chunk, Read
<1>3. \A i \in R : i < n /\ i \in T
  BY DEF Read
<1>4. T = IF chunks[n] = Broken \/ chunks[n].key # k THEN R ELSE R \cup {n}
  BY DEF Read, TypeOK
<1>5. /\ R # {} => Best(chunks, R, kept) /\ kept \in R
      /\ kept = 0 <=> R = {}
  BY <1>1, BestIs DEF Best
<1> HIDE DEF R, T
<1>6. CASE chunks[n] = Broken \/ chunks[n].key # k
  BY <1>4, <1>6 DEF R, T
<1>7. CASE chunks[n] # Broken /\ chunks[n].key = k
  <2>1. T = R \cup {n} /\ n \in T
    BY <1>4, <1>7
  <2>2. CASE kept # 0 /\ ~Replaces(chunks[n], chunks[kept])
    <3>1. Best(chunks, R, kept) /\ kept \in R /\ kept \in T
      BY <1>3, <1>5, <2>2
    <3>2. chunks[n].time <= chunks[kept].time /\ kept < n
      <4>1. chunks[n].time \in Nat /\ chunks[kept].time \in Nat /\ kept < n
        BY <1>2, <1>3, <2>1, <3>1
      <4>2. ~(chunks[n].time > chunks[kept].time)
        BY <2>2 DEF Replaces
      <4> HIDE DEF kept
      <4>3. QED
        BY <4>1, <4>2
    <3> HIDE DEF kept
    <3>3. Best(chunks, T, kept)
      BY <1>2, <2>1, <3>1, <3>2 DEF Best
    <3>4. BestOf(chunks, T) = kept
      BY <1>1, <3>1, <3>3, BestIs
    <3>5. QED
      BY <1>7, <2>2, <3>4 DEF kept, R, T
  <2>3. CASE kept # 0 /\ Replaces(chunks[n], chunks[kept])
    <3>1. Best(chunks, R, kept) /\ kept \in R /\ kept \in T
      BY <1>3, <1>5, <2>3
    <3>2. chunks[n].time > chunks[kept].time
      BY <2>3 DEF Replaces
    <3> HIDE DEF kept
    <3>3. Best(chunks, T, n)
      BY <1>2, <2>1, <3>1, <3>2 DEF Best
    <3>4. BestOf(chunks, T) = n
      BY <1>1, <2>1, <3>3, BestIs
    <3>5. QED
      BY <1>7, <2>3, <3>4 DEF kept, R, T
  <2>4. CASE kept = 0
    <3>1. R = {}
      BY <1>5, <2>4
    <3>2. Best(chunks, T, n)
      BY <1>2, <2>1, <3>1 DEF Best
    <3>3. BestOf(chunks, T) = n
      BY <1>1, <2>1, <3>2, BestIs
    <3>4. QED
      BY <1>7, <2>4, <3>3 DEF kept, R, T
  <2>5. QED
    BY <2>2, <2>3, <2>4
<1>8. QED
  BY <1>6, <1>7

\* What the loop has found after n chunks.
LEMMA ScanIs ==
  ASSUME TypeOK
  PROVE  \A n \in 0..Len(chunks) : Scan[n] = [k \in Keys |-> BestOf(chunks, Read(k, n))]
<1> DEFINE found(n) == [k \in Keys |-> BestOf(chunks, Read(k, n))]
           g        == [n \in 0..Len(chunks) |-> found(n)]
<1>0. Len(chunks) \in Nat
  BY DEF TypeOK
<1>1. found(0) = [k \in Keys |-> 0]
  BY DEF Read, BestOf
<1>2. ASSUME NEW s, NEW n \in 1..Len(chunks), s[n - 1] = found(n - 1)
      PROVE  Scanned(s, n) = found(n)
  <2> DEFINE dat == s[n - 1]
             jhd == chunks[n]
  <2>0. n # 0 /\ dat = found(n - 1)
    BY <1>0, <1>2
  <2>1. Scanned(s, n) = IF jhd = Broken THEN dat
                        ELSE IF dat[jhd.key] # 0 /\ ~Replaces(jhd, chunks[dat[jhd.key]]) THEN dat
                        ELSE [dat EXCEPT ![jhd.key] = n]
    BY <2>0, Zenon DEF Scanned
  <2>2. \A k \in Keys : found(n)[k] = BestOf(chunks, Read(k, n)) /\ dat[k] = BestOf(chunks, Read(k, n - 1))
    BY <2>0
  <2>3. jhd # Broken => jhd.key \in Keys
    BY DEF TypeOK, Chunk
  <2>4. ASSUME NEW k \in Keys
        PROVE  found(n)[k] =
          IF jhd = Broken \/ jhd.key # k \/ (dat[k] # 0 /\ ~Replaces(jhd, chunks[dat[k]]))
          THEN dat[k] ELSE n
    <3>1. BestOf(chunks, Read(k, n)) =
            IF chunks[n] = Broken \/ chunks[n].key # k
               \/ (BestOf(chunks, Read(k, n - 1)) # 0 /\ ~Replaces(chunks[n], chunks[BestOf(chunks, Read(k, n - 1))]))
            THEN BestOf(chunks, Read(k, n - 1)) ELSE n
      BY ReadMore
    <3> HIDE DEF found, dat
    <3>2. QED
      BY <2>2, <3>1, Zenon
  <2>5. DOMAIN dat = Keys /\ DOMAIN found(n) = Keys /\ dat = [k \in Keys |-> dat[k]]
        /\ found(n) = [k \in Keys |-> found(n)[k]]
    BY <2>0
  <2> HIDE DEF found, dat, jhd
  <2>6. CASE jhd = Broken
    <3>1. \A k \in Keys : found(n)[k] = dat[k]
      BY <2>4, <2>6
    <3>2. QED
      BY <2>1, <2>5, <2>6, <3>1
  <2>7. CASE jhd # Broken /\ dat[jhd.key] # 0 /\ ~Replaces(jhd, chunks[dat[jhd.key]])
    <3>1. \A k \in Keys : found(n)[k] = dat[k]
      BY <2>4, <2>7
    <3>2. QED
      BY <2>1, <2>5, <2>7, <3>1
  <2>8. CASE jhd # Broken /\ ~(dat[jhd.key] # 0 /\ ~Replaces(jhd, chunks[dat[jhd.key]]))
    <3>1. \A k \in Keys : found(n)[k] = IF k = jhd.key THEN n ELSE dat[k]
      BY <2>4, <2>8
    <3>2. Scanned(s, n) = [dat EXCEPT ![jhd.key] = n]
      BY <2>1, <2>8
    <3>3. [dat EXCEPT ![jhd.key] = n] = [k \in Keys |-> IF k = jhd.key THEN n ELSE dat[k]]
      BY <2>3, <2>5, <2>8
    <3>4. QED
      BY <2>5, <3>1, <3>2, <3>3
  <2>9. QED
    BY <2>6, <2>7, <2>8
<1> HIDE DEF found
<1>3. g = Scanning(g)
  <2>1. ASSUME NEW n \in 0..Len(chunks) PROVE g[n] = Scanned(g, n)
    <3>1. CASE n = 0
      BY <1>1, <3>1 DEF Scanned
    <3>2. CASE n # 0
      <4>1. n \in 1..Len(chunks) /\ n - 1 \in 0..Len(chunks)
        BY <1>0, <3>2
      <4>2. g[n] = found(n) /\ g[n - 1] = found(n - 1)
        BY <4>1
      <4> HIDE DEF g
      <4>3. QED
        BY <1>2, <4>1, <4>2
    <3>3. QED
      BY <3>1, <3>2
  <2>2. QED
    BY <2>1 DEF Scanning
<1>4. Scan = Scanning(Scan)
  <2>1. Scan = CHOOSE s : s = Scanning(s)
    BY DEF Scan, Scanning, Scanned
  <2> HIDE DEF g
  <2>2. QED
    BY <1>3, <2>1
<1>5. \A n \in 0..Len(chunks) : Scan[n] = Scanned(Scan, n)
  <2>1. \A n \in 0..Len(chunks) : Scanning(Scan)[n] = Scanned(Scan, n)
    BY DEF Scanning
  <2>2. QED
    BY <1>4, <2>1, Zenon
<1> DEFINE Bad == {n \in 0..Len(chunks) : Scan[n] # found(n)}
<1>6. Bad = {}
  <2> SUFFICES ASSUME Bad # {} PROVE FALSE
    OBVIOUS
  <2>1. PICK n \in Bad : \A m \in Bad : n <= m
    <3>1. Bad \subseteq Nat
      BY <1>0
    <3> HIDE DEF Bad
    <3>2. QED
      BY <3>1, LeastNatural
  <2>2. n # 0
    BY <1>1, <1>5, <2>1 DEF Scanned
  <2>3. n \in 1..Len(chunks) /\ n - 1 \in 0..Len(chunks) /\ n - 1 \notin Bad
    BY <1>0, <2>1, <2>2
  <2>4. Scan[n - 1] = found(n - 1)
    BY <2>3
  <2>5. Scan[n] = found(n)
    BY <1>2, <1>5, <2>3, <2>4
  <2>6. QED
    BY <2>1, <2>5
<1>7. QED
  BY <1>6 DEF found

\* The loop of journal_load keeps the newest intact chunk of every key, of several
\* from one second the first in the file, for files of any length.
THEOREM ScanCorrect == Spec => []ScanFindsNewest
<1>1. ASSUME TypeOK PROVE ScanFindsNewest
  <2> SUFFICES ASSUME NEW k \in Keys
               PROVE  Scan[Len(chunks)][k] = IF ChunksOf(k) = {} THEN 0 ELSE Kept(k)
    BY DEF ScanFindsNewest
  <2>1. Len(chunks) \in 0..Len(chunks) /\ DOMAIN chunks = 1..Len(chunks)
    BY <1>1 DEF TypeOK
  <2>2. Scan[Len(chunks)][k] = BestOf(chunks, Read(k, Len(chunks)))
    BY <1>1, <2>1, ScanIs
  <2>3. Read(k, Len(chunks)) = ChunksOf(k)
    BY <2>1 DEF Read, ChunksOf
  <2>4. ChunksOf(k) # {} => BestOf(chunks, ChunksOf(k)) = Kept(k)
    BY DEF BestOf, Kept, Best
  <2>5. QED
    BY <2>2, <2>3, <2>4 DEF BestOf
<1>2. QED
  BY <1>1, TypeCorrect, PTL

-----------------------------------------------------------------------------
(* Flushed records *)

Running == job \in {"serve", "flush"}

Intact(i) == i \in DOMAIN chunks /\ chunks[i] # Broken

\* The chunk of k that the stdio buffer still holds.
Pending(k) == tail # Broken /\ tail.key = k

\* A waiting record is the key's record.
CacheCurrent == Running => \A k \in Keys : buf[k] # Clean => buf[k] = table[k]

\* No two keys rely on one position, nor a key on an unused one.
PlacesApart ==
  Running => /\ \A k, l \in Keys : idx[k] # 0 /\ idx[k] = idx[l] => k = l
             /\ \A k \in Keys : idx[k] \notin free

\* Chunks are not from the future.
TimesPast == Running => \A i \in DOMAIN chunks : Intact(i) => chunks[i].time <= clock

\* What the stdio buffer holds is the last record that was written.
TailCurrent ==
  Running /\ tail # Broken =>
    /\ job = "flush"
    /\ tail.time = clock
    /\ tail.value = table[tail.key]
    /\ idx[tail.key] # 0
    /\ buf[tail.key] = Clean

\* A chunk from the running flush is of a key that the flush is done with.
OnlyOnce ==
  job = "flush" => \A i \in DOMAIN chunks :
    Intact(i) /\ chunks[i].time = clock => /\ buf[chunks[i].key] = Clean
                                           /\ ~Pending(chunks[i].key)

\* The record of k is in the file: in its newest chunk, or in the text if there
\* is no chunk of k.
Settled(k) ==
  \/ /\ idx[k] = 0
     /\ \A i \in DOMAIN chunks : Intact(i) => chunks[i].key # k
     /\ text[k] = table[k]
  \/ /\ idx[k] # 0
     /\ Intact(idx[k])
     /\ chunks[idx[k]].key = k
     /\ chunks[idx[k]].value = table[k]
     /\ \A j \in DOMAIN chunks : Intact(j) /\ j # idx[k] /\ chunks[j].key = k
                                   => chunks[j].time < chunks[idx[k]].time

FilesCurrent ==
  Running => \A k \in Keys : buf[k] = Clean /\ ~Pending(k) => Settled(k)

\* From the renaming of the text to the new journal, the text is the table.
TextSaved == job \in {"sync", "quit", "start"} /\ step # "gap" => text = table

FInv == /\ CacheCurrent /\ PlacesApart /\ TimesPast /\ TailCurrent
        /\ OnlyOnce /\ FilesCurrent /\ TextSaved

IInv == TInv /\ FInv

\* A settled record is what a start would find.
LEMMA SettledRecovered ==
  ASSUME TypeOK, NEW k \in Keys, Settled(k)
  PROVE  Recovered[k] = table[k]
<1>1. CASE idx[k] = 0
  <2>1. ChunksOf(k) = {}
    BY <1>1 DEF Settled, ChunksOf, Intact
  <2>2. QED
    BY <1>1, <2>1 DEF Settled, Recovered
<1>2. CASE idx[k] # 0
  <2>1. /\ idx[k] \in ChunksOf(k)
        /\ chunks[idx[k]].value = table[k]
        /\ \A j \in ChunksOf(k) : j # idx[k] => chunks[j].time < chunks[idx[k]].time
    BY <1>2 DEF Settled, ChunksOf, Intact
  <2>2. \A j \in ChunksOf(k) : j \in Nat /\ chunks[j].time \in Nat
    BY DEF TypeOK, ChunksOf, Chunk
  <2>3. Kept(k) = idx[k]
    <3> DEFINE First(i) ==
          \A j \in ChunksOf(k) : \/ chunks[j].time < chunks[i].time
                                 \/ chunks[j].time = chunks[i].time /\ i <= j
    <3>1. First(idx[k])
      BY <2>1, <2>2
    <3>2. \A i \in ChunksOf(k) : First(i) => i = idx[k]
      BY <2>1, <2>2
    <3>3. QED
      BY <2>1, <3>1, <3>2 DEF Kept
  <2>4. QED
    BY <2>1, <2>3 DEF Recovered
<1>3. QED
  BY <1>1, <1>2

\* The invariant gives the property: nothing is in the stdio buffer of a server
\* that waits for packets.
LEMMA FlushedFromInv ==
  ASSUME IInv
  PROVE  FlushedIsSafe
<1> SUFFICES ASSUME job = "serve", NEW k \in Keys, buf[k] = Clean
             PROVE  Recovered[k] = table[k]
  BY DEF FlushedIsSafe
<1>1. tail = Broken
  BY DEF IInv, FInv, TailCurrent, Running
<1>2. Settled(k)
  BY <1>1 DEF IInv, FInv, FilesCurrent, Running, Pending
<1>3. QED
  BY <1>2, SettledRecovered DEF IInv, TInv

\* Steps outside flushes that leave the running state, or stay outside it.
LEMMA QuietStep ==
  ASSUME FInv, ~Running', TextSaved'
  PROVE  FInv'
BY DEF FInv, CacheCurrent, PlacesApart, TimesPast, TailCurrent, OnlyOnce, FilesCurrent, Running

\* The record of k is in the chunks c, which a step is about to leave in the file.
FoundIn(c, k) ==
  \/ /\ idx[k] = 0
     /\ \A i \in DOMAIN c : c[i] # Broken => c[i].key # k
     /\ text[k] = table[k]
  \/ /\ idx[k] # 0
     /\ idx[k] \in DOMAIN c
     /\ c[idx[k]] # Broken
     /\ c[idx[k]].key = k
     /\ c[idx[k]].value = table[k]
     /\ \A j \in DOMAIN c : c[j] # Broken /\ j # idx[k] /\ c[j].key = k
                              => c[j].time < c[idx[k]].time

\* What a flush leaves in the file when it writes at pos: the stdio buffer is
\* written out, and pos may be broken.
Left(c, pos) ==
  /\ c \in Seq(Content)
  /\ \A i \in DOMAIN c : \/ c[i] = Broken
                         \/ i \in 1..Len(chunks) /\ c[i] = Written[i]
  /\ \A i \in 1..Len(chunks) : i # pos => i \in DOMAIN c /\ c[i] = Written[i]

\* Chunks in the file afterwards are from earlier flushes, or of keys whose record
\* has been written.
LEMMA LeftTimes ==
  ASSUME IInv, job = "flush", NEW pos, NEW c, Left(c, pos), NEW i \in DOMAIN c, c[i] # Broken
  PROVE  /\ c[i] \in Chunk
         /\ c[i].time <= clock
         /\ c[i].time = clock => buf[c[i].key] = Clean
<1>1. i \in 1..Len(chunks) /\ c[i] = Written[i]
  BY DEF Left
<1>2. c[i] = IF tail # Broken /\ i = idx[tail.key] THEN tail ELSE chunks[i]
  BY <1>1, WrittenContent DEF IInv, TInv
<1>3. CASE tail # Broken /\ c[i] = tail
  BY <1>3 DEF IInv, TInv, FInv, TailCurrent, Running, TypeOK, Chunk
<1>4. CASE c[i] = chunks[i]
  BY <1>1, <1>4 DEF IInv, TInv, FInv, TimesPast, OnlyOnce, Running, TypeOK, Intact
<1>5. QED
  BY <1>2, <1>3, <1>4

\* Records that were written stay findable, be they in the file or still in the
\* stdio buffer, unless the key relies on pos.
LEMMA LeftFound ==
  ASSUME IInv, job = "flush", NEW pos, NEW c, Left(c, pos),
         NEW k \in Keys, buf[k] = Clean, idx[k] # pos
  PROVE  FoundIn(c, k)
<1>1. \A i \in 1..Len(chunks) :
        Written[i] = IF tail # Broken /\ i = idx[tail.key] THEN tail ELSE chunks[i]
  BY WrittenContent DEF IInv, TInv
<1>2. \A i \in DOMAIN c : c[i] # Broken => i \in 1..Len(chunks) /\ c[i] = Written[i]
  BY DEF Left
<1>3. idx[k] # 0 => /\ idx[k] \in 1..Len(chunks)
                    /\ idx[k] \in DOMAIN c
                    /\ c[idx[k]] = Written[idx[k]]
  BY DEF Left, IInv, TInv, TypeOK
<1>4. CASE Pending(k)
  <2>1. /\ tail # Broken /\ tail.key = k /\ tail.time = clock
        /\ tail.value = table[k] /\ idx[k] # 0
    BY <1>4 DEF IInv, FInv, TailCurrent, Running, Pending
  <2>2. c[idx[k]] = tail
    BY <1>1, <1>3, <2>1
  <2>3. ASSUME NEW j \in DOMAIN c, c[j] # Broken, j # idx[k], c[j].key = k
        PROVE  c[j].time < c[idx[k]].time
    <3>1. c[j] = chunks[j] /\ j \in DOMAIN chunks
      BY <1>1, <1>2, <2>1, <2>3 DEF IInv, TInv, TypeOK
    <3>2. c[j].time \in Nat /\ c[j].time <= clock /\ clock \in Nat
      BY <2>3, LeftTimes DEF Chunk, IInv, TInv, TypeOK
    <3>3. c[j].time # clock
      BY <1>4, <2>3, <3>1 DEF IInv, FInv, OnlyOnce, Intact
    <3>4. QED
      BY <2>1, <2>2, <3>2, <3>3
  <2>4. QED
    BY <1>3, <2>1, <2>2, <2>3 DEF FoundIn
<1>5. CASE ~Pending(k)
  <2>1. Settled(k)
    BY <1>5 DEF IInv, FInv, FilesCurrent, Running
  <2>2. ASSUME NEW j \in DOMAIN c, c[j] # Broken, c[j].key = k
        PROVE  Intact(j) /\ c[j] = chunks[j]
    BY <1>1, <1>2, <1>5, <2>2 DEF Pending, Intact, IInv, TInv, TypeOK
  <2>3. CASE idx[k] = 0
    BY <2>1, <2>2, <2>3 DEF Settled, FoundIn, Intact
  <2>4. CASE idx[k] # 0
    <3>1. tail # Broken => idx[tail.key] # idx[k]
      BY <1>5, <2>4 DEF Pending, IInv, TInv, FInv, PlacesApart, Running, TypeOK, Chunk
    <3>2. c[idx[k]] = chunks[idx[k]]
      BY <1>1, <1>3, <2>4, <3>1
    <3>3. QED
      BY <1>3, <2>1, <2>2, <2>4, <3>2 DEF Settled, FoundIn, Intact
  <2>5. QED
    BY <2>3, <2>4
<1>6. QED
  BY <1>4, <1>5

\* A visit moves its key to a position that nothing relies on.
LEMMA MoveApart ==
  ASSUME IInv, job = "flush", NEW k \in Keys, NEW pos \in Position,
         idx' = [idx EXCEPT ![k] = pos],
         free' \subseteq (free \ {pos}) \cup ({idx[k]} \ {0})
  PROVE  /\ \A l \in Keys : idx[l] # pos
         /\ \A l, m \in Keys : idx'[l] # 0 /\ idx'[l] = idx'[m] => l = m
         /\ \A l \in Keys : idx'[l] \notin free'
<1>1. \A l \in Keys : idx[l] # pos
  BY DEF IInv, TInv, FInv, PlacesApart, Running, TypeOK, Position
<1>2. \A l \in Keys : idx'[l] = IF l = k THEN pos ELSE idx[l]
  BY DEF IInv, TInv, TypeOK
<1>3. ASSUME NEW l \in Keys, NEW m \in Keys, idx'[l] # 0, idx'[l] = idx'[m]
      PROVE  l = m
  BY <1>1, <1>2, <1>3 DEF IInv, FInv, PlacesApart, Running
<1>4. ASSUME NEW l \in Keys
      PROVE  idx'[l] \notin free'
  BY <1>1, <1>2 DEF IInv, FInv, PlacesApart, Running
<1>5. QED
  BY <1>1, <1>3, <1>4

\* What a write at pos leaves, as Torn has it.
LEMMA TornLeft ==
  ASSUME TypeOK, NEW pos \in Position, NEW c \in Torn(pos)
  PROVE  Left(c, pos)
BY TornContent DEF Left, TypeOK

\* A successful visit: the chunk of the key goes to an unused position while what
\* the other keys rely on stays (journal_flush_sub).
LEMMA WriteChunkInv ==
  ASSUME IInv, NEW k \in Keys, WriteChunk(k), job = "flush"
  PROVE  FInv'
<1>1. PICK pos \in Position : /\ chunks' \in Torn(pos)
                              /\ idx' = [idx EXCEPT ![k] = pos]
                              /\ free' = (free \ {pos}) \cup ({idx[k]} \ {0})
  BY DEF WriteChunk, Unused
<1>2. PICK c \in Torn(pos) : chunks' = c
  BY <1>1
<1>3. Left(c, pos)
  BY TornLeft DEF IInv, TInv
<1>4. /\ k \in todo /\ buf[k] # Clean
      /\ buf' = [buf EXCEPT ![k] = Clean]
      /\ tail' = [key |-> k, value |-> buf[k], time |-> clock]
      /\ UNCHANGED <<table, text, clock, job, step>>
  BY DEF WriteChunk, IInv, TInv, TodoWaits
<1>5. /\ \A l \in Keys : idx[l] # pos
      /\ \A l, m \in Keys : idx'[l] # 0 /\ idx'[l] = idx'[m] => l = m
      /\ \A l \in Keys : idx'[l] \notin free'
  BY <1>1, MoveApart
<1>6. /\ \A l \in Keys : buf'[l] = IF l = k THEN Clean ELSE buf[l]
      /\ \A l \in Keys : idx'[l] = IF l = k THEN pos ELSE idx[l]
  BY <1>1, <1>4 DEF IInv, TInv, TypeOK
<1>7. tail' # Broken /\ tail'.key = k /\ pos # 0
  BY <1>1, <1>4, BrokenAssumption DEF IInv, TInv, TypeOK, Chunk, Position
<1>8. CacheCurrent'
  BY <1>4, <1>6 DEF IInv, FInv, CacheCurrent, Running
<1>9. PlacesApart'
  BY <1>5 DEF PlacesApart
<1>10. TimesPast' /\ OnlyOnce'
  <2> SUFFICES ASSUME NEW i \in DOMAIN c, c[i] # Broken
               PROVE  /\ c[i].time <= clock
                      /\ c[i].time = clock => /\ buf'[c[i].key] = Clean
                                              /\ c[i].key # k
    BY <1>2, <1>4, <1>7 DEF TimesPast, OnlyOnce, Intact, Pending
  <2>1. /\ c[i].key \in Keys /\ c[i].time <= clock
        /\ c[i].time = clock => buf[c[i].key] = Clean
    BY <1>3, LeftTimes DEF Chunk
  <2>2. QED
    BY <1>4, <1>6, <2>1
<1>11. TailCurrent'
  BY <1>4, <1>6, <1>7 DEF TailCurrent, IInv, FInv, CacheCurrent, Running
<1>12. FilesCurrent'
  <2> SUFFICES ASSUME NEW l \in Keys, buf'[l] = Clean, ~Pending(l)'
               PROVE  Settled(l)'
    BY DEF FilesCurrent
  <2>1. l # k
    BY <1>7 DEF Pending
  <2>2. FoundIn(c, l)
    BY <1>3, <1>5, <1>6, <2>1, LeftFound
  <2>3. idx'[l] = idx[l] /\ table' = table /\ text' = text
    BY <1>4, <1>6, <2>1
  <2>4. QED
    BY <1>2, <2>2, <2>3 DEF FoundIn, Settled, Intact
<1>13. TextSaved'
  BY <1>4 DEF TextSaved
<1>14. QED
  BY <1>8, <1>9, <1>10, <1>11, <1>12, <1>13 DEF FInv

\* A failed visit: the record stays in the cache, so nothing relies on the position
\* that the key has moved to.
LEMMA FailChunkInv ==
  ASSUME IInv, NEW k \in Keys, FailChunk(k), job = "flush"
  PROVE  FInv'
<1>1. PICK pos \in Position : /\ chunks' \in Torn(pos)
                              /\ idx' = [idx EXCEPT ![k] = pos]
                              /\ free' = free \ {pos}
  BY DEF FailChunk
<1>2. PICK c \in Torn(pos) : chunks' = c
  BY <1>1
<1>3. Left(c, pos)
  BY TornLeft DEF IInv, TInv
<1>4. /\ k \in todo /\ buf[k] # Clean
      /\ tail' = Broken
      /\ UNCHANGED <<buf, table, text, clock, job, step>>
  BY DEF FailChunk, IInv, TInv, TodoWaits
<1>5. /\ \A l \in Keys : idx[l] # pos
      /\ \A l, m \in Keys : idx'[l] # 0 /\ idx'[l] = idx'[m] => l = m
      /\ \A l \in Keys : idx'[l] \notin free'
  BY <1>1, MoveApart
<1>6. \A l \in Keys : idx'[l] = IF l = k THEN pos ELSE idx[l]
  BY <1>1 DEF IInv, TInv, TypeOK
<1>7. CacheCurrent' /\ PlacesApart' /\ TailCurrent' /\ TextSaved'
  BY <1>4, <1>5 DEF IInv, FInv, CacheCurrent, PlacesApart, TailCurrent, TextSaved, Running
<1>8. TimesPast' /\ OnlyOnce'
  <2> SUFFICES ASSUME NEW i \in DOMAIN c, c[i] # Broken
               PROVE  /\ c[i].time <= clock
                      /\ c[i].time = clock => buf'[c[i].key] = Clean
    BY <1>2, <1>4 DEF TimesPast, OnlyOnce, Intact, Pending
  <2>1. QED
    BY <1>3, <1>4, LeftTimes
<1>9. FilesCurrent'
  <2> SUFFICES ASSUME NEW l \in Keys, buf'[l] = Clean
               PROVE  Settled(l)'
    BY DEF FilesCurrent
  <2>1. l # k /\ buf[l] = Clean
    BY <1>4
  <2>2. FoundIn(c, l)
    BY <1>3, <1>5, <2>1, LeftFound
  <2>3. idx'[l] = idx[l] /\ table' = table /\ text' = text
    BY <1>4, <1>6, <2>1
  <2>4. QED
    BY <1>2, <2>2, <2>3 DEF FoundIn, Settled, Intact
<1>10. QED
  BY <1>7, <1>8, <1>9 DEF FInv

\* The end of a flush: the last chunk is complete, and its key is settled.
LEMMA EndFlushInv ==
  ASSUME IInv, EndFlush, job = "flush"
  PROVE  FInv'
<1>1. PICK c : c = Written
  OBVIOUS
<1>2. Left(c, -1)
  BY <1>1, WrittenContent DEF Left, IInv, TInv, TypeOK
<1>3. /\ chunks' = c /\ tail' = Broken /\ job' = "serve"
      /\ UNCHANGED <<table, text, buf, idx, free, clock>>
  BY <1>1 DEF EndFlush
<1>4. CacheCurrent' /\ PlacesApart' /\ TailCurrent' /\ TextSaved' /\ OnlyOnce'
  BY <1>3 DEF IInv, FInv, CacheCurrent, PlacesApart, TailCurrent, TextSaved, OnlyOnce, Running
<1>5. TimesPast'
  BY <1>2, <1>3, LeftTimes DEF TimesPast, Intact
<1>6. FilesCurrent'
  <2> SUFFICES ASSUME NEW l \in Keys, buf[l] = Clean
               PROVE  Settled(l)'
    BY <1>3 DEF FilesCurrent
  <2>1. idx[l] # -1
    BY DEF IInv, TInv, TypeOK
  <2>2. FoundIn(c, l)
    BY <1>2, <2>1, LeftFound
  <2>3. QED
    BY <1>3, <2>2 DEF FoundIn, Settled, Intact
<1>7. QED
  BY <1>4, <1>5, <1>6 DEF FInv

\* A flush of a waiting server begins in a second that no chunk is from.
LEMMA BeginInv ==
  ASSUME IInv, job = "serve", Pace > 0, NEW cache, NEW t \in PacedTime, BeginFlush(cache, t),
         UNCHANGED chunks, job' = "flush"
  PROVE  TimesPast' /\ OnlyOnce'
<1>1. /\ clock' = t /\ t > clock /\ t \in Nat /\ clock \in Nat
  BY BoundsAssumption DEF BeginFlush, PacedTime, IInv, TInv, TypeOK
<1>2. \A i \in DOMAIN chunks : Intact(i) => chunks[i].time \in Nat /\ chunks[i].time <= clock
  BY DEF IInv, TInv, FInv, TimesPast, Running, TypeOK, Intact, Chunk
<1>3. \A i \in DOMAIN chunks : Intact(i) => chunks[i].time <= t /\ chunks[i].time # t
  BY <1>1, <1>2
<1>4. QED
  BY <1>1, <1>3 DEF TimesPast, OnlyOnce, Intact

\* A write makes its record wait and leaves the others as they are.
LEMMA JournalWriteInv ==
  ASSUME IInv, Pace > 0, job = "serve",
         NEW k \in Keys, NEW v \in Record, JournalWrite(k, v)
  PROVE  FInv'
<1>1. /\ table' = [table EXCEPT ![k] = v]
      /\ buf' = [buf EXCEPT ![k] = v]
      /\ UNCHANGED <<text, chunks, idx, free, tail>>
      /\ job' \in {"serve", "flush"}
  BY DEF JournalWrite, disk
<1>2. /\ v # Clean /\ tail = Broken
      /\ \A l \in Keys : table'[l] = IF l = k THEN v ELSE table[l]
      /\ \A l \in Keys : buf'[l] = IF l = k THEN v ELSE buf[l]
  BY <1>1, ValuesAssumption
     DEF IInv, TInv, FInv, TailCurrent, Running, TypeOK, Table, Record
<1>3. CacheCurrent'
  BY <1>2 DEF IInv, FInv, CacheCurrent, Running
<1>4. PlacesApart' /\ TailCurrent' /\ TextSaved'
  BY <1>1, <1>2 DEF IInv, FInv, PlacesApart, TailCurrent, TextSaved, Running
<1>5. TimesPast' /\ OnlyOnce'
  <2>1. CASE Cached
    BY <2>1 DEF JournalWrite, IInv, FInv, TimesPast, OnlyOnce, Running, disk, Intact
  <2>2. CASE ~Cached
    <3>1. PICK t \in PacedTime : BeginFlush([buf EXCEPT ![k] = v], t)
      BY <2>2 DEF JournalWrite
    <3>2. job' = "flush"
      BY <2>2 DEF JournalWrite
    <3>3. QED
      BY <1>1, <3>1, <3>2, BeginInv
  <2>3. QED
    BY <2>1, <2>2
<1>6. FilesCurrent'
  <2> SUFFICES ASSUME NEW l \in Keys, buf'[l] = Clean
               PROVE  Settled(l)'
    BY DEF FilesCurrent
  <2>1. l # k /\ buf[l] = Clean
    BY <1>2
  <2>2. Settled(l)
    BY <1>2, <2>1 DEF IInv, FInv, FilesCurrent, Running, Pending
  <2>3. table'[l] = table[l]
    BY <1>2, <2>1
  <2>4. QED
    BY <1>1, <2>2, <2>3 DEF Settled, Intact
<1>7. QED
  BY <1>3, <1>4, <1>5, <1>6 DEF FInv

\* The flush timer changes neither the records nor the file.
LEMMA FlushTimerInv ==
  ASSUME IInv, Pace > 0, FlushTimer
  PROVE  FInv'
<1>1. /\ job = "serve" /\ job' = "flush"
      /\ UNCHANGED <<text, chunks, table, buf, idx, free, tail>>
  BY DEF FlushTimer, disk
<1>2. TimesPast' /\ OnlyOnce'
  BY <1>1, BeginInv DEF FlushTimer
<1>3. tail = Broken
  BY <1>1 DEF IInv, FInv, TailCurrent, Running
<1>4. CacheCurrent' /\ PlacesApart' /\ TailCurrent' /\ TextSaved' /\ FilesCurrent'
  BY <1>1, <1>3 DEF IInv, FInv, CacheCurrent, PlacesApart, TailCurrent, TextSaved,
                    FilesCurrent, Running, Settled, Pending, Intact
<1>5. QED
  BY <1>2, <1>4 DEF FInv

\* A new journal starts from a text that holds the table.
LEMMA FreshInv ==
  ASSUME chunks' = <<>>, text' = table', free' = {}, tail' = Broken,
         job' # "flush", \A k \in Keys : idx'[k] = 0 /\ buf'[k] = Clean,
         TextSaved'
  PROVE  FInv'
<1>1. DOMAIN chunks' = {}
  OBVIOUS
<1>2. CacheCurrent' /\ PlacesApart' /\ TimesPast' /\ TailCurrent' /\ OnlyOnce'
  BY <1>1 DEF CacheCurrent, PlacesApart, TimesPast, TailCurrent, OnlyOnce
<1>3. FilesCurrent'
  BY <1>1 DEF FilesCurrent, Settled
<1>4. QED
  BY <1>2, <1>3 DEF FInv

\* Without a chunk in the file, a start comes up with the text.
LEMMA StartFromText ==
  ASSUME TypeOK, \A k \in Keys : ChunksOf(k) = {}
  PROVE  Recovered = text
BY DEF Recovered, TypeOK, Table

\* The invariant of flushed records is inductive.
LEMMA FilesStep ==
  ASSUME IInv, Pace > 0, [Next]_vars
  PROVE  FInv'
<1> USE DEF IInv, TInv
<1>1. ASSUME NEW k \in Keys, NEW v \in Values, Save(k, v)
      PROVE  FInv'
  BY <1>1, JournalWriteInv DEF Save, Record
<1>2. ASSUME NEW k \in Keys, Delete(k)
      PROVE  FInv'
  BY <1>2, JournalWriteInv DEF Delete, Record
<1>3. ASSUME NEW k \in Keys, WriteChunk(k) \/ FailChunk(k)
      PROVE  FInv'
  <2>1. CASE job = "flush"
    BY <1>3, <2>1, WriteChunkInv, FailChunkInv
  <2>2. CASE job # "flush"
    <3>1. ~Running' /\ TextSaved'
      BY <1>3, <2>2 DEF WriteChunk, FailChunk, Running, FInv, TextSaved, Phases
    <3>2. QED
      BY <3>1, QuietStep
  <2>3. QED
    BY <2>1, <2>2
<1>4. CASE FlushTimer
  BY <1>4, FlushTimerInv
<1>5. CASE EndFlush
  <2>1. CASE job = "flush"
    BY <1>5, <2>1, EndFlushInv
  <2>2. CASE job # "flush"
    <3>1. ~Running' /\ TextSaved'
      BY <1>5, <2>2 DEF EndFlush, Running, FInv, TextSaved, Phases
    <3>2. QED
      BY <3>1, QuietStep
  <2>3. QED
    BY <2>1, <2>2
<1>6. CASE Sync \/ QuitUnsynced \/ RenameText
  <2>1. ~Running' /\ TextSaved'
    BY <1>6 DEF Sync, QuitUnsynced, RenameText, Running, FInv, TextSaved, Phases, memory, disk
  <2>2. QED
    BY <2>1, QuietStep
<1>7. CASE FinalFlush
  <2>1. ~Running' /\ TextSaved'
    BY <1>7 DEF FinalFlush, BeginFlush, Running, FInv, TextSaved, disk
  <2>2. QED
    BY <2>1, QuietStep
<1>8. CASE RemoveJournal
  <2>1. ~Running' /\ TextSaved'
    BY <1>8 DEF RemoveJournal, Running, FInv, TextSaved, Phases
  <2>2. QED
    BY <2>1, QuietStep
<1>9. CASE JournalCreate
  <2>1. text = table
    BY <1>9 DEF JournalCreate, FInv, TextSaved, Phases, TypeOK, Jobs
  <2>2. TextSaved'
    BY <1>9, <2>1 DEF JournalCreate, TextSaved
  <2>3. QED
    BY <1>9, <2>1, <2>2, FreshInv DEF JournalCreate, JournalInit
<1>10. CASE Crash \/ CrashInGap
  <2>1. ~Running' /\ TextSaved'
    BY <1>10 DEF Crash, CrashInGap, Forget, Running, TextSaved
  <2>2. QED
    BY <2>1, QuietStep
<1>11. CASE Start
  <2>1. CASE \E k \in Keys : ChunksOf(k) # {}
    <3>1. ~Running' /\ TextSaved'
      BY <1>11, <2>1 DEF Start, Running, TextSaved
    <3>2. QED
      BY <3>1, QuietStep
  <2>2. CASE \A k \in Keys : ChunksOf(k) = {}
    <3>1. /\ chunks' = <<>> /\ job' = "serve" /\ table' = text
          /\ UNCHANGED <<text, buf, idx, free, tail>>
      BY <1>11, <2>2, StartFromText DEF Start
    <3>2. /\ free' = {} /\ tail' = Broken
          /\ \A k \in Keys : idx'[k] = 0 /\ buf'[k] = Clean
      BY <1>11, <3>1 DEF Start, Forgotten
    <3>3. TextSaved'
      BY <3>1 DEF TextSaved
    <3>4. QED
      BY <3>1, <3>2, <3>3, FreshInv
  <2>3. QED
    BY <2>1, <2>2
<1>12. CASE DeleteJournal
  <2>1. ~Running' /\ TextSaved'
    BY <1>12 DEF DeleteJournal, Running, TextSaved
  <2>2. QED
    BY <2>1, QuietStep
<1>13. CASE SyncFails \/ UNCHANGED vars
  <2>1. UNCHANGED <<table, text, chunks, buf, idx, free, tail, clock, job, step>>
    BY <1>13 DEF SyncFails, vars, memory, disk
  <2>2. QED
    BY <2>1 DEF FInv, CacheCurrent, PlacesApart, TimesPast, TailCurrent, OnlyOnce, FilesCurrent,
                TextSaved, Running, Settled, Pending, Intact
<1>14. QED
  BY <1>1, <1>2, <1>3, <1>4, <1>5, <1>6, <1>7, <1>8, <1>9, <1>10, <1>11, <1>12, <1>13
     DEF Next, SafeNext

\* If flushes are at least one second apart, then in every environment (crashes at
\* any step, the gap of lock_fclose included, and failing writes) a record that has
\* left the journal's cache of a serving server is what a start would find.  The
\* condition on Pace is needed: journal.c:442 does not let a chunk replace another
\* one from the same second.
THEOREM FlushedSurvives ==
  ASSUME Pace > 0
  PROVE  Spec => []FlushedIsSafe
<1>1. Init => IInv
  <2> SUFFICES ASSUME Init
               PROVE  IInv
    OBVIOUS
  <2>1. TInv
    BY TypeInit
  <2>2. ~Running /\ job = "down" /\ text = table
    BY DEF Init, Running
  <2>3. QED
    BY <2>1, <2>2 DEF IInv, FInv, CacheCurrent, PlacesApart, TimesPast, TailCurrent,
                      OnlyOnce, FilesCurrent, TextSaved
<1>2. IInv /\ [Next]_vars => IInv'
  <2> SUFFICES ASSUME IInv, [Next]_vars
               PROVE  IInv'
    OBVIOUS
  <2>1. TInv'
    BY TypeStep, PhaseStep DEF IInv, TInv
  <2>2. FInv'
    BY FilesStep
  <2>3. QED
    BY <2>1, <2>2 DEF IInv
<1>3. IInv => FlushedIsSafe
  BY FlushedFromInv
<1>4. QED
  BY <1>1, <1>2, <1>3, PTL DEF Spec

-----------------------------------------------------------------------------
(* The durable table *)

\* The server has a table that it edits or is about to leave.
Live == job \notin {"down", "start"}

Of(c, k)       == {i \in DOMAIN c : c[i] # Broken /\ c[i].key = k}
First(c, k, i) == Best(c, Of(c, k), i)

\* What a start would find in a file and a text.
Found(c, t) == [k \in Keys |-> IF Of(c, k) = {} THEN t[k] ELSE c[BestOf(c, Of(c, k))].value]

\* The record of a clean key is in the file, in a chunk that is as new as any.
KnownIn(c, k) ==
  \/ idx[k] = 0 /\ Of(c, k) = {}
  \/ /\ idx[k] \in Of(c, k) /\ c[idx[k]].value = table[k]
     /\ \A j \in Of(c, k) : c[j].time <= c[idx[k]].time

\* Nobody will write over the newest chunk of k.
GuardedIn(c, k) ==
  \A i : First(c, k, i) => i \notin free /\ \A l \in Keys : l # k => idx[l] # i

CacheLive == \A k \in Keys : buf[k] # Clean => buf[k] = table[k]

ApartLive ==
  /\ \A k, l \in Keys : idx[k] # 0 /\ idx[k] = idx[l] => k = l
  /\ \A k \in Keys : idx[k] \notin free

TimesLive == \A k \in Keys : \A i \in Of(chunks, k) : chunks[i].time <= clock

TailLive ==
  tail # Broken =>
    /\ step = "flushing"
    /\ tail.time = clock
    /\ tail.value = table[tail.key]
    /\ idx[tail.key] # 0
    /\ buf[tail.key] = Clean

\* Two chunks of a key from one second: only the last flush of a sync can write
\* the second one, which holds the key's record.
PairsIn(c, k) ==
  \A i, j \in Of(c, k) : i # j /\ c[i].time = c[j].time =>
    ~Running /\ buf[k] = Clean /\ ~Pending(k) /\ idx[k] \in {i, j}

RecordsLive ==
  \A k \in Keys : /\ PairsIn(chunks, k)
                  /\ buf[k] = Clean /\ ~Pending(k) => KnownIn(chunks, k)
                  /\ buf[k] # Clean => GuardedIn(chunks, k)

LInv == CacheLive /\ ApartLive /\ TimesLive /\ TailLive /\ RecordsLive

\* From the renaming of the text to the new journal, the text is the table; a server
\* that starts has the table that it has found.
TextLive ==
  /\ job \in {"sync", "quit", "leave", "start"} /\ step # "gap" => text = table
  /\ job = "start" => table = Recovered

\* The invariant of the durable table.
DInv == IInv /\ (Live => LInv) /\ TextLive

-----------------------------------------------------------------------------

LEMMA RecoveredIs == Recovered = Found(chunks, text) /\ Recovered' = Found(chunks', text')
<1>1. ASSUME NEW k \in Keys
      PROVE  /\ Of(chunks, k) = ChunksOf(k)
             /\ ChunksOf(k) # {} => BestOf(chunks, ChunksOf(k)) = Kept(k)
  BY DEF ChunksOf, Of, BestOf, Best, Kept
<1>2. ASSUME NEW k \in Keys
      PROVE  /\ Of(chunks', k) = ChunksOf(k)'
             /\ ChunksOf(k)' # {} => BestOf(chunks', ChunksOf(k)') = Kept(k)'
  BY DEF ChunksOf, Of, BestOf, Best, Kept
<1>3. Recovered = Found(chunks, text)
  BY <1>1, Zenon DEF Recovered, Found
<1>4. Recovered' = Found(chunks', text')
  BY <1>2, Zenon DEF Recovered, Found
<1>5. QED
  BY <1>3, <1>4

\* What is found is in the newest chunk.
LEMMA FoundIs ==
  ASSUME NEW c \in Seq(Content), NEW t, NEW k \in Keys
  PROVE  /\ Of(c, k) = {} => Found(c, t)[k] = t[k]
         /\ Of(c, k) # {} => \E i \in Of(c, k) : First(c, k, i) /\ Found(c, t)[k] = c[i].value
         /\ \A i : First(c, k, i) => i \in Of(c, k) /\ Found(c, t)[k] = c[i].value
<1> DEFINE S == Of(c, k)
<1>1. S \in SUBSET (DOMAIN c) /\ \A i \in S : c[i] # Broken
  BY DEF Of
<1>2. Found(c, t)[k] = IF S = {} THEN t[k] ELSE c[BestOf(c, S)].value
  BY DEF Found
<1>3. S # {} => Best(c, S, BestOf(c, S)) /\ BestOf(c, S) \in S
  BY <1>1, BestIs DEF Best
<1>4. \A i : Best(c, S, i) => i \in S /\ BestOf(c, S) = i
  BY <1>1, BestIs DEF Best
<1>5. QED
  BY <1>2, <1>3, <1>4 DEF First, Best

\* What is in the file after a visit, chunk by chunk.
LEMMA LeftIs ==
  ASSUME DInv, Live, NEW pos, NEW c, Left(c, pos), \A l \in Keys : idx[l] # pos
  PROVE  /\ c \in Seq(Content)
         /\ \A i \in DOMAIN c : c[i] # Broken =>
              /\ i \in DOMAIN chunks
              /\ c[i] = chunks[i] \/ (tail # Broken /\ i = idx[tail.key] /\ c[i] = tail)
         /\ \A i \in DOMAIN chunks : i # pos /\ ~(tail # Broken /\ i = idx[tail.key]) =>
              i \in DOMAIN c /\ c[i] = chunks[i]
         /\ tail # Broken => /\ tail.key \in Keys /\ idx[tail.key] \in DOMAIN c
                             /\ c[idx[tail.key]] = tail
<1>1. \A i \in 1..Len(chunks) :
        Written[i] = IF tail # Broken /\ i = idx[tail.key] THEN tail ELSE chunks[i]
  BY WrittenContent DEF DInv, IInv, TInv
<1>2. DOMAIN chunks = 1..Len(chunks) /\ Len(chunks) \in Nat
  BY DEF DInv, IInv, TInv, TypeOK
<1>3. c \in Seq(Content) /\ \A i \in DOMAIN c : c[i] # Broken => i \in 1..Len(chunks) /\ c[i] = Written[i]
  BY DEF Left
<1>4. \A i \in 1..Len(chunks) : i # pos => i \in DOMAIN c /\ c[i] = Written[i]
  BY DEF Left
<1>5. tail # Broken => tail.key \in Keys /\ idx[tail.key] \in 1..Len(chunks) /\ idx[tail.key] # pos
  BY <1>2 DEF DInv, LInv, TailLive, IInv, TInv, TypeOK, Chunk
<1>6. QED
  BY <1>1, <1>2, <1>3, <1>4, <1>5

\* Chunks have a time.
LEMMA OfTimes ==
  ASSUME NEW c \in Seq(Content), NEW k
  PROVE  \A i \in Of(c, k) : i \in Nat /\ c[i] \in Chunk /\ c[i].time \in Nat
BY DEF Of, Content, Chunk

LEMMA LeftTimesLive ==
  ASSUME DInv, Live, NEW pos, NEW c, Left(c, pos), \A l \in Keys : idx[l] # pos, NEW k \in Keys
  PROVE  \A i \in Of(c, k) : c[i].time <= clock
<1> SUFFICES ASSUME NEW i \in Of(c, k) PROVE c[i].time <= clock
  OBVIOUS
<1>1. i \in DOMAIN chunks /\ (c[i] = chunks[i] \/ (tail # Broken /\ c[i] = tail))
  BY LeftIs DEF Of
<1>2. CASE c[i] = chunks[i]
  BY <1>1, <1>2 DEF DInv, LInv, TimesLive, Of
<1>3. CASE tail # Broken /\ c[i] = tail
  BY <1>3 DEF DInv, LInv, TailLive, IInv, TInv, TypeOK
<1>4. QED
  BY <1>1, <1>2, <1>3

\* The newest chunk of a key whose record waits stays, and stays the newest.
LEMMA LeftDirty ==
  ASSUME DInv, Live, NEW pos, NEW c, Left(c, pos), pos \in free \/ pos \notin DOMAIN chunks,
         \A l \in Keys : idx[l] # pos, NEW k \in Keys, buf[k] # Clean
  PROVE  /\ Found(c, text)[k] = Recovered[k]
         /\ GuardedIn(c, k)
         /\ \A i, j \in Of(c, k) : i # j => c[i].time # c[j].time
<1> DEFINE A == Of(chunks, k)
           B == Of(c, k)
<1>1. chunks \in Seq(Content) /\ c \in Seq(Content)
  BY LeftIs DEF DInv, IInv, TInv, TypeOK, Content
<1>2. tail # Broken => tail.key # k
  BY DEF DInv, LInv, TailLive
<1>3. \A i \in B : i \in A /\ c[i] = chunks[i]
  BY <1>2, LeftIs DEF Of
<1>4. GuardedIn(chunks, k) /\ PairsIn(chunks, k)
  BY DEF DInv, LInv, RecordsLive
<1>5. \A i : First(chunks, k, i) => i \in B /\ First(c, k, i)
  <2> SUFFICES ASSUME NEW i, First(chunks, k, i) PROVE i \in B /\ First(c, k, i)
    OBVIOUS
  <2>1. i \in A /\ i \in DOMAIN chunks /\ i \notin free
    BY <1>4 DEF First, Best, GuardedIn, Of
  <2>2. i # pos
    BY <2>1
  <2>3. tail # Broken => tail.key \in Keys /\ idx[tail.key] # i
    BY <1>2, <1>4, LeftIs DEF GuardedIn
  <2>4. i \in DOMAIN c /\ c[i] = chunks[i]
    BY <2>1, <2>2, <2>3, LeftIs
  <2>5. i \in B
    BY <2>1, <2>4 DEF Of
  <2>6. QED
    BY <1>3, <2>4, <2>5 DEF First, Best
<1>6. Recovered = Found(chunks, text)
  BY RecoveredIs
<1>7. Found(c, text)[k] = Found(chunks, text)[k]
  <2>1. CASE A = {}
    <3>1. B = {}
      BY <1>3, <2>1
    <3>2. QED
      BY <1>1, <2>1, <3>1, FoundIs
  <2>2. CASE A # {}
    <3>1. PICK i \in A : First(chunks, k, i) /\ Found(chunks, text)[k] = chunks[i].value
      BY <1>1, <2>2, FoundIs
    <3>2. i \in B /\ First(c, k, i) /\ c[i] = chunks[i]
      BY <1>3, <1>5, <3>1
    <3>3. QED
      BY <1>1, <3>1, <3>2, FoundIs
  <2>3. QED
    BY <2>1, <2>2
<1>8. GuardedIn(c, k)
  <2> SUFFICES ASSUME NEW i, First(c, k, i) PROVE First(chunks, k, i)
    BY <1>4 DEF GuardedIn
  <2>1. A # {} /\ i \in B
    BY <1>3 DEF First, Best
  <2>2. PICK j \in A : First(chunks, k, j)
    BY <1>1, <2>1, FoundIs
  <2>3. j \in B /\ First(c, k, j)
    BY <1>5, <2>2
  <2>4. c[i].time \in Nat /\ c[j].time \in Nat /\ i \in Nat /\ j \in Nat
    BY <1>1, <2>1, <2>3, OfTimes
  <2>5. i = j
    BY <2>1, <2>3, <2>4 DEF First, Best
  <2>6. QED
    BY <2>2, <2>5
<1>9. \A i, j \in B : i # j => c[i].time # c[j].time
  BY <1>3, <1>4 DEF PairsIn
<1>10. QED
  BY <1>6, <1>7, <1>8, <1>9

\* The record of a key that was written stays known, and a start finds it or what it
\* would have found before.
LEMMA LeftClean ==
  ASSUME DInv, Live, NEW pos, NEW c, Left(c, pos),
         \A l \in Keys : idx[l] # pos, NEW k \in Keys, buf[k] = Clean
  PROVE  /\ Found(c, text)[k] \in {Recovered[k], table[k]}
         /\ KnownIn(c, k)
         /\ \A i, j \in Of(c, k) : i # j /\ c[i].time = c[j].time =>
              idx[k] \in {i, j} /\ (Running => Pending(k) /\ \E x \in DOMAIN chunks : Intact(x) /\ chunks[x].key = k /\ chunks[x].time = clock)
<1> DEFINE A == Of(chunks, k)
           B == Of(c, k)
           p == idx[k]
<1>1. chunks \in Seq(Content) /\ c \in Seq(Content) /\ clock \in Nat
  BY LeftIs DEF DInv, IInv, TInv, TypeOK, Content
<1>2. PairsIn(chunks, k)
  BY DEF DInv, LInv, RecordsLive
<1>3. Recovered = Found(chunks, text)
  BY RecoveredIs
<1>4. /\ \A i \in A : i \in Nat /\ chunks[i].time \in Nat /\ chunks[i].time <= clock
      /\ \A i \in B : i \in Nat /\ c[i].time \in Nat /\ c[i].time <= clock
  BY <1>1, OfTimes, LeftTimesLive DEF DInv, LInv, TimesLive
<1>5. CASE Pending(k)
  <2>1. /\ tail # Broken /\ tail.key = k /\ p \in B /\ c[p] = tail /\ tail.time = clock /\ tail.value = table[k]
    BY <1>5, LeftIs DEF Pending, DInv, LInv, TailLive, Of
  <2>2. \A i \in B : i # p => i \in A /\ c[i] = chunks[i]
    BY <2>1, LeftIs DEF Of
  <2>3. \A i, j \in A : i # j => chunks[i].time # chunks[j].time
    BY <1>2, <1>5 DEF PairsIn
  <2>4. KnownIn(c, k)
    BY <1>4, <2>1 DEF KnownIn
  <2>5. ASSUME NEW i \in B, NEW j \in B, i # j, c[i].time = c[j].time
        PROVE  p \in {i, j} /\ \E x \in DOMAIN chunks : Intact(x) /\ chunks[x].key = k /\ chunks[x].time = clock
    <3>1. p \in {i, j}
      BY <2>2, <2>3, <2>5
    <3>2. PICK x \in A : chunks[x].time = clock
      BY <2>1, <2>2, <2>5, <3>1
    <3>3. QED
      BY <3>1, <3>2 DEF Of, Intact
  <2>6. PICK f \in B : First(c, k, f) /\ Found(c, text)[k] = c[f].value
    BY <1>1, <2>1, FoundIs
  <2>7. CASE f = p
    BY <2>1, <2>4, <2>5, <2>6, <2>7, <1>5
  <2>8. CASE f # p
    <3>1. f \in A /\ c[f] = chunks[f]
      BY <2>2, <2>8
    <3>2. c[f].time >= clock
      BY <1>4, <2>1, <2>6 DEF First, Best
    <3>3. ASSUME NEW j \in A PROVE chunks[j].time < chunks[f].time \/ (chunks[j].time = chunks[f].time /\ f <= j)
      <4>1. chunks[f].time = clock /\ chunks[j].time <= clock /\ chunks[j].time \in Nat /\ f \in Nat
        BY <1>1, <1>4, <3>1, <3>2
      <4>2. j # f => chunks[j].time # clock
        BY <2>3, <3>1, <4>1
      <4>3. QED
        BY <1>1, <4>1, <4>2
    <3>4. First(chunks, k, f)
      BY <3>1, <3>3 DEF First, Best
    <3>5. Recovered[k] = chunks[f].value
      BY <1>1, <1>3, <3>4, FoundIs
    <3>6. QED
      BY <2>4, <2>5, <2>6, <3>1, <3>5, <1>5
  <2>9. QED
    BY <2>7, <2>8
<1>6. CASE ~Pending(k)
  <2>1. KnownIn(chunks, k)
    BY <1>6 DEF DInv, LInv, RecordsLive
  <2>2. \A i \in B : i \in A /\ c[i] = chunks[i]
    BY <1>6, LeftIs DEF Of, Pending
  <2>3. \A i, j \in B : i # j /\ c[i].time = c[j].time => p \in {i, j} /\ ~Running
    BY <1>2, <2>2 DEF PairsIn
  <2>4. CASE p = 0 /\ A = {}
    <3>1. B = {}
      BY <2>2, <2>4
    <3>2. Found(c, text)[k] = text[k] /\ Recovered[k] = text[k]
      BY <1>1, <1>3, <2>4, <3>1, FoundIs
    <3>3. KnownIn(c, k)
      BY <2>4, <3>1 DEF KnownIn
    <3>4. QED
      BY <2>3, <3>2, <3>3
  <2>5. CASE p \in A /\ chunks[p].value = table[k] /\ \A j \in A : chunks[j].time <= chunks[p].time
    <3>1. p \in DOMAIN chunks /\ p # pos /\ p # 0
      BY <1>4, <2>5 DEF Of, DInv, IInv, TInv, TypeOK
    <3>2. ~(tail # Broken /\ p = idx[tail.key])
      BY <1>6, <3>1, LeftIs DEF DInv, LInv, ApartLive, Pending
    <3>3. p \in DOMAIN c /\ c[p] = chunks[p] /\ p \in B
      BY <2>5, <3>1, <3>2, LeftIs DEF Of
    <3>4. KnownIn(c, k)
      BY <2>2, <2>5, <3>3 DEF KnownIn
    <3>5. PICK f \in B : First(c, k, f) /\ Found(c, text)[k] = c[f].value
      BY <1>1, <3>3, FoundIs
    <3>6. CASE f = p
      BY <2>3, <2>5, <3>3, <3>4, <3>5, <3>6
    <3>7. CASE f # p
      <4>1. f \in A /\ c[f] = chunks[f] /\ chunks[f].time = chunks[p].time /\ f <= p
        BY <1>4, <2>2, <2>5, <3>3, <3>5 DEF First, Best
      <4>2. ASSUME NEW j \in A
            PROVE  chunks[j].time < chunks[f].time \/ (chunks[j].time = chunks[f].time /\ f <= j)
        <5>1. chunks[j].time <= chunks[f].time
          BY <2>5, <4>1
        <5>2. CASE chunks[j].time = chunks[f].time /\ j # f
          <6>1. p \in {f, j}
            BY <1>2, <4>1, <5>2 DEF PairsIn
          <6>2. QED
            BY <3>7, <4>1, <5>2, <6>1
        <5>3. QED
          BY <1>4, <4>1, <5>1, <5>2
      <4>3. First(chunks, k, f)
        BY <4>1, <4>2 DEF First, Best
      <4>4. Recovered[k] = chunks[f].value
        BY <1>1, <1>3, <4>3, FoundIs
      <4>5. QED
        BY <2>3, <3>4, <3>5, <4>1, <4>4
    <3>8. QED
      BY <3>6, <3>7
  <2>6. QED
    BY <2>1, <2>4, <2>5 DEF KnownIn
<1>7. QED
  BY <1>5, <1>6

\* A visit, successful or not, or the end of a flush: what a start would find is
\* what it would have found before, or the present record.
LEMMA VisitFound ==
  ASSUME DInv, Live, NEW pos, NEW c, Left(c, pos), pos \in free \/ pos \notin DOMAIN chunks,
         \A l \in Keys : idx[l] # pos, chunks' = c, UNCHANGED text
  PROVE  \A k \in Keys : Recovered'[k] \in {Recovered[k], table[k]}
<1>1. Recovered' = Found(c, text)
  BY RecoveredIs
<1>2. QED
  BY <1>1, LeftDirty, LeftClean

\* Positions for new chunks are unused.
LEMMA PositionFree ==
  ASSUME DInv, Live, NEW pos \in Position
  PROVE  /\ pos \in free \/ pos \notin DOMAIN chunks
         /\ \A l \in Keys : idx[l] # pos
         /\ pos # 0 /\ pos \in Nat
BY DEF DInv, IInv, TInv, LInv, ApartLive, TypeOK, Position

\* What a visit does to the key that moves.
LEMMA MoveApartLive ==
  ASSUME DInv, Live, NEW k \in Keys, NEW pos \in Position,
         idx' = [idx EXCEPT ![k] = pos],
         free' \subseteq (free \ {pos}) \cup ({idx[k]} \ {0})
  PROVE  ApartLive'
<1>1. \A l \in Keys : idx[l] # pos
  BY PositionFree
<1>2. \A l \in Keys : idx'[l] = IF l = k THEN pos ELSE idx[l]
  BY DEF DInv, IInv, TInv, TypeOK
<1>3. ASSUME NEW l \in Keys, NEW m \in Keys, idx'[l] # 0, idx'[l] = idx'[m]
      PROVE  l = m
  BY <1>1, <1>2, <1>3 DEF DInv, LInv, ApartLive
<1>4. ASSUME NEW l \in Keys
      PROVE  idx'[l] \notin free'
  BY <1>1, <1>2 DEF DInv, LInv, ApartLive
<1>5. QED
  BY <1>3, <1>4 DEF ApartLive

\* The newest chunk of a waiting key is not disturbed by another key that moves.
LEMMA GuardedMove ==
  ASSUME DInv, Live, NEW k \in Keys, NEW pos \in Position, NEW c, Left(c, pos),
         idx' = [idx EXCEPT ![k] = pos],
         free' \subseteq (free \ {pos}) \cup ({idx[k]} \ {0}),
         NEW x \in Keys, buf[x] # Clean, x = k => free' \subseteq free, chunks' = c
  PROVE  GuardedIn(chunks, x)'
<1>1. GuardedIn(c, x) /\ GuardedIn(chunks, x)
  BY PositionFree, LeftDirty DEF DInv, LInv, RecordsLive
<1>2. \A l \in Keys : idx'[l] = IF l = k THEN pos ELSE idx[l]
  BY DEF DInv, IInv, TInv, TypeOK
<1>3. \A i : First(c, x, i) => i \in Nat /\ i # pos
  <2>1. c \in Seq(Content)
    BY PositionFree, LeftIs
  <2>2. ASSUME NEW i, First(c, x, i), i = pos PROVE FALSE
    <3>1. i \in DOMAIN chunks
      BY <2>2, PositionFree, LeftIs DEF First, Best, Of
    <3>2. QED
      BY <1>1, <2>2, <3>1, PositionFree DEF GuardedIn
  <2>3. QED
    BY <2>1, <2>2, OfTimes DEF First, Best
<1>4. \A i : First(c, x, i) => i \notin free' /\ \A l \in Keys : l # x => idx'[l] # i
  BY <1>1, <1>2, <1>3 DEF GuardedIn
<1>5. QED
  BY <1>4 DEF GuardedIn

LEMMA WriteChunkLive ==
  ASSUME DInv, Live, NEW k \in Keys, WriteChunk(k)
  PROVE  LInv' /\ \A x \in Keys : Recovered'[x] \in {Recovered[x], table[x]}
<1>1. PICK pos \in Position : /\ chunks' \in Torn(pos)
                              /\ idx' = [idx EXCEPT ![k] = pos]
                              /\ free' = (free \ {pos}) \cup ({idx[k]} \ {0})
  BY DEF WriteChunk, Unused
<1>2. PICK c \in Torn(pos) : chunks' = c
  BY <1>1
<1>3. Left(c, pos)
  BY TornLeft DEF DInv, IInv, TInv
<1>4. /\ k \in todo /\ buf[k] # Clean
      /\ buf' = [buf EXCEPT ![k] = Clean]
      /\ tail' = [key |-> k, value |-> buf[k], time |-> clock]
      /\ step = "flushing"
      /\ UNCHANGED <<table, text, clock, job, step>>
  BY DEF WriteChunk, DInv, IInv, TInv, TodoWaits
<1>5. /\ \A l \in Keys : idx[l] # pos
      /\ pos \in free \/ pos \notin DOMAIN chunks
      /\ pos # 0
  BY PositionFree
<1>6. /\ \A l \in Keys : buf'[l] = IF l = k THEN Clean ELSE buf[l]
      /\ \A l \in Keys : idx'[l] = IF l = k THEN pos ELSE idx[l]
  BY <1>1, <1>4 DEF DInv, IInv, TInv, TypeOK
<1>7. tail' # Broken /\ tail'.key = k
  BY <1>4, BrokenAssumption DEF DInv, IInv, TInv, TypeOK, Chunk
<1>8. CacheLive'
  BY <1>4, <1>6 DEF DInv, LInv, CacheLive
<1>9. ApartLive'
  BY <1>1, MoveApartLive
<1>10. TimesLive'
  BY <1>2, <1>3, <1>4, <1>5, LeftTimesLive DEF TimesLive
<1>11. TailLive'
  BY <1>4, <1>5, <1>6, <1>7 DEF TailLive, DInv, LInv, CacheLive
<1>12. ASSUME NEW x \in Keys
       PROVE  /\ PairsIn(chunks, x)'
              /\ buf'[x] = Clean /\ ~Pending(x)' => KnownIn(chunks, x)'
              /\ buf'[x] # Clean => GuardedIn(chunks, x)'
  <2>1. Running' = Running /\ (Pending(x)' <=> x = k)
    BY <1>4, <1>7 DEF Running, Pending
  <2>2. CASE buf[x] # Clean
    <3>1. \A i, j \in Of(c, x) : i # j => c[i].time # c[j].time
      BY <1>3, <1>5, <2>2, LeftDirty
    <3>2. PairsIn(chunks, x)'
      BY <1>2, <3>1 DEF PairsIn
    <3>3. CASE x = k
      BY <1>6, <2>1, <3>2, <3>3
    <3>4. CASE x # k
      <4>1. free' \subseteq (free \ {pos}) \cup ({idx[k]} \ {0})
        BY <1>1
      <4>2. GuardedIn(chunks, x)'
        BY <1>1, <1>2, <1>3, <2>2, <3>4, <4>1, GuardedMove
      <4>3. QED
        BY <1>6, <2>2, <3>2, <3>4, <4>2
    <3>5. QED
      BY <3>3, <3>4
  <2>3. CASE buf[x] = Clean
    <3>1. x # k
      BY <1>4, <2>3
    <3>2. /\ KnownIn(c, x)
          /\ \A i, j \in Of(c, x) : i # j /\ c[i].time = c[j].time =>
               /\ idx[x] \in {i, j}
               /\ Running => Pending(x) /\ \E y \in DOMAIN chunks : Intact(y) /\ chunks[y].key = x /\ chunks[y].time = clock
      BY <1>3, <1>5, <2>3, LeftClean
    <3>3. Running => job = "flush"
      BY <1>4 DEF Running, DInv, IInv, TInv, Phases
    <3>4. \A i, j \in Of(c, x) : i # j /\ c[i].time = c[j].time => ~Running
      BY <3>2, <3>3 DEF DInv, IInv, FInv, OnlyOnce
    <3>5. PairsIn(chunks, x)'
      BY <1>2, <1>6, <2>1, <2>3, <3>1, <3>2, <3>4 DEF PairsIn
    <3>6. KnownIn(chunks, x)'
      BY <1>2, <1>4, <1>6, <3>1, <3>2 DEF KnownIn
    <3>7. QED
      BY <1>6, <2>3, <3>1, <3>5, <3>6
  <2>4. QED
    BY <2>2, <2>3
<1>13. RecordsLive'
  BY <1>12 DEF RecordsLive
<1>14. \A x \in Keys : Recovered'[x] \in {Recovered[x], table[x]}
  BY <1>2, <1>3, <1>4, <1>5, VisitFound
<1>15. QED
  BY <1>8, <1>9, <1>10, <1>11, <1>13, <1>14 DEF LInv

LEMMA FailChunkLive ==
  ASSUME DInv, Live, NEW k \in Keys, FailChunk(k)
  PROVE  LInv' /\ \A x \in Keys : Recovered'[x] \in {Recovered[x], table[x]}
<1>1. PICK pos \in Position : /\ chunks' \in Torn(pos)
                              /\ idx' = [idx EXCEPT ![k] = pos]
                              /\ free' = free \ {pos}
  BY DEF FailChunk
<1>2. PICK c \in Torn(pos) : chunks' = c
  BY <1>1
<1>3. Left(c, pos)
  BY TornLeft DEF DInv, IInv, TInv
<1>4. /\ k \in todo /\ buf[k] # Clean
      /\ tail' = Broken
      /\ step = "flushing"
      /\ UNCHANGED <<buf, table, text, clock, job, step>>
  BY DEF FailChunk, DInv, IInv, TInv, TodoWaits
<1>5. /\ \A l \in Keys : idx[l] # pos
      /\ pos \in free \/ pos \notin DOMAIN chunks
      /\ pos # 0
  BY PositionFree
<1>6. \A l \in Keys : idx'[l] = IF l = k THEN pos ELSE idx[l]
  BY <1>1 DEF DInv, IInv, TInv, TypeOK
<1>7. CacheLive' /\ TailLive'
  BY <1>4 DEF DInv, LInv, CacheLive, TailLive
<1>8. ApartLive'
  BY <1>1, MoveApartLive
<1>9. TimesLive'
  BY <1>2, <1>3, <1>4, <1>5, LeftTimesLive DEF TimesLive
<1>10. ASSUME NEW x \in Keys
       PROVE  /\ PairsIn(chunks, x)'
              /\ buf'[x] = Clean /\ ~Pending(x)' => KnownIn(chunks, x)'
              /\ buf'[x] # Clean => GuardedIn(chunks, x)'
  <2>1. Running' = Running /\ ~Pending(x)'
    BY <1>4 DEF Running, Pending
  <2>2. CASE buf[x] # Clean
    <3>1. \A i, j \in Of(c, x) : i # j => c[i].time # c[j].time
      BY <1>3, <1>5, <2>2, LeftDirty
    <3>2. PairsIn(chunks, x)'
      BY <1>2, <3>1 DEF PairsIn
    <3>3. free' \subseteq (free \ {pos}) \cup ({idx[k]} \ {0}) /\ free' \subseteq free
      BY <1>1
    <3>4. GuardedIn(chunks, x)'
      BY <1>1, <1>2, <1>3, <2>2, <3>3, GuardedMove
    <3>5. QED
      BY <1>4, <2>2, <3>2, <3>4
  <2>3. CASE buf[x] = Clean
    <3>1. x # k
      BY <1>4, <2>3
    <3>2. /\ KnownIn(c, x)
          /\ \A i, j \in Of(c, x) : i # j /\ c[i].time = c[j].time =>
               /\ idx[x] \in {i, j}
               /\ Running => Pending(x) /\ \E y \in DOMAIN chunks : Intact(y) /\ chunks[y].key = x /\ chunks[y].time = clock
      BY <1>3, <1>5, <2>3, LeftClean
    <3>3. Running => job = "flush"
      BY <1>4 DEF Running, DInv, IInv, TInv, Phases
    <3>4. \A i, j \in Of(c, x) : i # j /\ c[i].time = c[j].time => ~Running
      BY <3>2, <3>3 DEF DInv, IInv, FInv, OnlyOnce
    <3>5. PairsIn(chunks, x)'
      BY <1>2, <1>4, <1>6, <2>1, <2>3, <3>1, <3>2, <3>4 DEF PairsIn
    <3>6. KnownIn(chunks, x)'
      BY <1>2, <1>4, <1>6, <3>1, <3>2 DEF KnownIn
    <3>7. QED
      BY <1>4, <2>3, <3>5, <3>6
  <2>4. QED
    BY <2>2, <2>3
<1>11. RecordsLive'
  BY <1>10 DEF RecordsLive
<1>12. \A x \in Keys : Recovered'[x] \in {Recovered[x], table[x]}
  BY <1>2, <1>3, <1>4, <1>5, VisitFound
<1>13. QED
  BY <1>7, <1>8, <1>9, <1>11, <1>12 DEF LInv

LEMMA EndFlushLive ==
  ASSUME DInv, Live, EndFlush
  PROVE  LInv' /\ \A x \in Keys : Recovered'[x] \in {Recovered[x], table[x]}
<1>1. PICK c : c = Written
  OBVIOUS
<1>2. Left(c, -1)
  BY <1>1, WrittenContent DEF Left, DInv, IInv, TInv, TypeOK
<1>3. /\ chunks' = c /\ tail' = Broken /\ step = "flushing"
      /\ UNCHANGED <<table, text, buf, idx, free, clock>>
      /\ Running' => job = "flush"
  BY <1>1 DEF EndFlush, Running, DInv, IInv, TInv, Phases
<1>4. (\A l \in Keys : idx[l] # -1) /\ -1 \notin DOMAIN chunks
  BY DEF DInv, IInv, TInv, TypeOK
<1>5. CacheLive' /\ TailLive' /\ ApartLive'
  BY <1>3 DEF DInv, LInv, CacheLive, TailLive, ApartLive
<1>6. TimesLive'
  BY <1>2, <1>3, <1>4, LeftTimesLive DEF TimesLive
<1>7. ASSUME NEW x \in Keys
      PROVE  /\ PairsIn(chunks, x)'
             /\ buf'[x] = Clean => KnownIn(chunks, x)'
             /\ buf'[x] # Clean => GuardedIn(chunks, x)'
  <2>1. ~Pending(x)'
    BY <1>3 DEF Pending
  <2>2. CASE buf[x] # Clean
    <3>1. GuardedIn(c, x) /\ \A i, j \in Of(c, x) : i # j => c[i].time # c[j].time
      BY <1>2, <1>4, <2>2, LeftDirty
    <3>2. PairsIn(chunks, x)'
      BY <1>3, <3>1 DEF PairsIn
    <3>3. GuardedIn(chunks, x)'
      BY <1>3, <3>1 DEF GuardedIn
    <3>4. QED
      BY <1>3, <2>2, <3>2, <3>3
  <2>3. CASE buf[x] = Clean
    <3>1. /\ KnownIn(c, x)
          /\ \A i, j \in Of(c, x) : i # j /\ c[i].time = c[j].time =>
               /\ idx[x] \in {i, j}
               /\ Running => Pending(x) /\ \E y \in DOMAIN chunks : Intact(y) /\ chunks[y].key = x /\ chunks[y].time = clock
      BY <1>2, <1>4, <2>3, LeftClean
    <3>2. \A i, j \in Of(c, x) : i # j /\ c[i].time = c[j].time => ~Running'
      BY <1>3, <3>1 DEF DInv, IInv, FInv, OnlyOnce, Running
    <3>3. PairsIn(chunks, x)'
      BY <1>3, <2>1, <2>3, <3>1, <3>2 DEF PairsIn
    <3>4. KnownIn(chunks, x)'
      BY <1>3, <3>1 DEF KnownIn
    <3>5. QED
      BY <1>3, <2>3, <3>3, <3>4
  <2>4. QED
    BY <2>2, <2>3
<1>8. RecordsLive'
  BY <1>7 DEF RecordsLive
<1>9. \A x \in Keys : Recovered'[x] \in {Recovered[x], table[x]}
  BY <1>2, <1>3, <1>4, VisitFound
<1>10. QED
  BY <1>5, <1>6, <1>8, <1>9 DEF LInv

-----------------------------------------------------------------------------

\* A journal without chunks.
LEMMA EmptyLive ==
  ASSUME chunks' = <<>>, free' = {}, tail' = Broken,
         \A k \in Keys : idx'[k] = 0 /\ buf'[k] = Clean
  PROVE  LInv'
<1>1. \A k : Of(chunks, k)' = {}
  BY DEF Of
<1>2. CacheLive' /\ ApartLive' /\ TimesLive' /\ TailLive'
  BY <1>1 DEF CacheLive, ApartLive, TimesLive, TailLive
<1>3. RecordsLive'
  BY <1>1 DEF RecordsLive, PairsIn, KnownIn
<1>4. QED
  BY <1>2, <1>3 DEF LInv

\* A step that changes neither records nor chunks.
LEMMA SameLive ==
  ASSUME DInv, Live, UNCHANGED <<table, chunks, buf, idx, free, tail>>, tail = Broken,
         clock' \in Nat, clock' >= clock, Running' => Running
  PROVE  LInv'
<1>1. \A k : Of(chunks, k)' = Of(chunks, k)
  BY DEF Of
<1>2. TimesLive'
  <2> SUFFICES ASSUME NEW k \in Keys, NEW i \in Of(chunks, k) PROVE chunks[i].time <= clock'
    BY <1>1 DEF TimesLive
  <2>1. chunks \in Seq(Content) /\ clock \in Nat
    BY DEF DInv, IInv, TInv, TypeOK, Content
  <2>2. chunks[i].time \in Nat /\ chunks[i].time <= clock
    BY <2>1, OfTimes DEF DInv, LInv, TimesLive
  <2>3. QED
    BY <2>1, <2>2
<1>3. CacheLive' /\ ApartLive' /\ TailLive'
  BY DEF DInv, LInv, CacheLive, ApartLive, TailLive
<1>4. ASSUME NEW k \in Keys
      PROVE  /\ PairsIn(chunks, k)'
             /\ buf'[k] = Clean /\ ~Pending(k)' => KnownIn(chunks, k)'
             /\ buf'[k] # Clean => GuardedIn(chunks, k)'
  <2>1. /\ PairsIn(chunks, k)
        /\ buf[k] = Clean => KnownIn(chunks, k)
        /\ buf[k] # Clean => GuardedIn(chunks, k)
    BY DEF DInv, LInv, RecordsLive, Pending
  <2>2. PairsIn(chunks, k)'
    BY <1>1, <2>1 DEF PairsIn, Pending
  <2>3. buf[k] = Clean => KnownIn(chunks, k)'
    BY <1>1, <2>1 DEF KnownIn
  <2>4. buf[k] # Clean => GuardedIn(chunks, k)'
    BY <1>1, <2>1 DEF GuardedIn, First
  <2>5. QED
    BY <2>2, <2>3, <2>4
<1>5. QED
  BY <1>2, <1>3, <1>4 DEF LInv, RecordsLive

\* A write: the newest chunk of its key is where the key relies on.
LEMMA JournalWriteLive ==
  ASSUME DInv, job = "serve", NEW k \in Keys, NEW v \in Record, JournalWrite(k, v)
  PROVE  LInv'
<1>1. /\ table' = [table EXCEPT ![k] = v]
      /\ buf' = [buf EXCEPT ![k] = v]
      /\ UNCHANGED <<text, chunks, idx, free, tail>>
      /\ job' \in {"serve", "flush"}
  BY DEF JournalWrite, disk
<1>2. clock' \in Nat /\ clock' >= clock
  BY BoundsAssumption DEF JournalWrite, BeginFlush, PacedTime, DInv, IInv, TInv, TypeOK
<1>3. Live /\ LInv /\ step = "idle" /\ tail = Broken /\ Running /\ Running'
  BY <1>1 DEF Live, DInv, IInv, TInv, LInv, TailLive, Phases, Running
<1>4. /\ v # Clean
      /\ \A l \in Keys : table'[l] = IF l = k THEN v ELSE table[l]
      /\ \A l \in Keys : buf'[l] = IF l = k THEN v ELSE buf[l]
  BY <1>1, ValuesAssumption DEF DInv, IInv, TInv, TypeOK, Table, Record
<1>5. \A x : Of(chunks, x)' = Of(chunks, x)
  BY <1>1 DEF Of
<1>6. chunks \in Seq(Content) /\ clock \in Nat
  BY DEF DInv, IInv, TInv, TypeOK, Content
<1>7. TimesLive'
  <2> SUFFICES ASSUME NEW x \in Keys, NEW i \in Of(chunks, x) PROVE chunks[i].time <= clock'
    BY <1>1, <1>5 DEF TimesLive
  <2>1. chunks[i].time \in Nat /\ chunks[i].time <= clock
    BY <1>3, <1>6, OfTimes DEF LInv, TimesLive
  <2>2. QED
    BY <1>2, <1>6, <2>1
<1>8. CacheLive' /\ ApartLive' /\ TailLive'
  BY <1>1, <1>3, <1>4 DEF LInv, CacheLive, ApartLive, TailLive
<1>9. ASSUME NEW x \in Keys
      PROVE  /\ PairsIn(chunks, x)'
             /\ buf'[x] = Clean /\ ~Pending(x)' => KnownIn(chunks, x)'
             /\ buf'[x] # Clean => GuardedIn(chunks, x)'
  <2>1. /\ PairsIn(chunks, x)
        /\ buf[x] = Clean => KnownIn(chunks, x)
        /\ buf[x] # Clean => GuardedIn(chunks, x)
    BY <1>3 DEF LInv, RecordsLive, Pending
  <2>2. PairsIn(chunks, x)'
    BY <1>1, <1>3, <1>5, <2>1 DEF PairsIn
  <2>3. GuardedIn(chunks, x) => GuardedIn(chunks, x)'
    BY <1>1, <1>5 DEF GuardedIn, First
  <2>4. CASE x = k
    <3>1. CASE buf[k] # Clean
      BY <1>4, <2>1, <2>2, <2>3, <2>4, <3>1
    <3>2. CASE buf[k] = Clean
      <4>1. KnownIn(chunks, x)
        BY <2>1, <2>4, <3>2
      <4>2. ASSUME NEW i, First(chunks, x, i) PROVE i = idx[x] /\ idx[x] # 0
        <5>1. i \in Of(chunks, x)
          BY <4>2 DEF First, Best
        <5>2. idx[x] \in Of(chunks, x) /\ \A j \in Of(chunks, x) : chunks[j].time <= chunks[idx[x]].time
          BY <4>1, <5>1 DEF KnownIn
        <5>3. chunks[i].time = chunks[idx[x]].time
          BY <1>6, <4>2, <5>1, <5>2, OfTimes DEF First, Best
        <5>4. i = idx[x]
          BY <1>3, <2>1, <5>1, <5>2, <5>3 DEF PairsIn
        <5>5. QED
          BY <1>6, <5>2, <5>4 DEF Of
      <4>3. GuardedIn(chunks, x)
        BY <1>3, <4>2 DEF GuardedIn, LInv, ApartLive
      <4>4. QED
        BY <1>4, <2>2, <2>3, <2>4, <4>3
    <3>3. QED
      BY <3>1, <3>2
  <2>5. CASE x # k
    <3>1. buf[x] = Clean => KnownIn(chunks, x)'
      BY <1>1, <1>4, <1>5, <2>1, <2>5 DEF KnownIn
    <3>2. QED
      BY <1>4, <2>1, <2>2, <2>3, <2>5, <3>1
  <2>6. QED
    BY <2>4, <2>5
<1>10. QED
  BY <1>7, <1>8, <1>9 DEF LInv, RecordsLive

-----------------------------------------------------------------------------

\* The table as its users see it, or a restart would.
Now == IF job = "down" THEN Recovered ELSE table

\* The durable table takes the step that the server takes, or none.
Maps == Durable!Next \/ UNCHANGED <<Now, Recovered>>

LEMMA Functions ==
  ASSUME DInv
  PROVE  DOMAIN Now = Keys /\ Now = [k \in Keys |-> Now[k]] /\ Recovered = [k \in Keys |-> Recovered[k]]
BY DEF Now, Recovered, DInv, IInv, TInv, TypeOK, Table

\* Catching up, some keys at a time.
LEMMA StoreMaps ==
  ASSUME DInv, UNCHANGED Now, \A k \in Keys : Recovered'[k] \in {Recovered[k], Now[k]}
  PROVE  Durable!Next
<1> DEFINE S == {k \in Keys : Recovered'[k] # Recovered[k]}
<1>1. Recovered' = [k \in Keys |-> Recovered'[k]]
  BY RecoveredIs DEF Found
<1>2. \A k \in Keys : Recovered'[k] = IF k \in S THEN Now[k] ELSE Recovered[k]
  OBVIOUS
<1>3. Recovered' = [k \in Keys |-> IF k \in S THEN Now[k] ELSE Recovered[k]]
  BY <1>1, <1>2
<1>4. S \in SUBSET Keys
  OBVIOUS
<1> HIDE DEF S
<1>5. Durable!Store(S)
  BY <1>3 DEF Durable!Store, Now
<1>6. QED
  BY <1>4, <1>5 DEF Durable!Next

\* What is left of the invariant's step once IInv' is known.
Extra == (Live => LInv) /\ TextLive

\* Without a chunk in the file, a start would find the text.
LEMMA EmptyFound ==
  ASSUME chunks' = <<>>, text' \in Table
  PROVE  Recovered' = text'
<1>1. \A k \in Keys : Of(chunks', k) = {}
  BY DEF Of
<1>2. Recovered' = [k \in Keys |-> text'[k]]
  BY <1>1, RecoveredIs DEF Found
<1>3. QED
  BY <1>2 DEF Table

\* A step that leaves the disk alone does not change what a start would find.
LEMMA SameFound ==
  ASSUME UNCHANGED <<chunks, text>>
  PROVE  Recovered' = Recovered
BY RecoveredIs

\* An edit is a write.
LEMMA WriteMaps ==
  ASSUME DInv, job = "serve", NEW k \in Keys, NEW v \in Record, JournalWrite(k, v)
  PROVE  Extra' /\ Maps
<1>1. /\ table' = [table EXCEPT ![k] = v]
      /\ UNCHANGED <<chunks, text>>
      /\ job' \in {"serve", "flush"}
  BY DEF JournalWrite, disk
<1>2. Extra'
  BY <1>1, JournalWriteLive DEF Extra, TextLive
<1>3. Recovered' = Recovered
  BY <1>1, SameFound
<1>4. Durable!Write(k)
  BY <1>1, <1>3 DEF Durable!Write, Record
<1>5. QED
  BY <1>2, <1>4 DEF Maps, Durable!Next

\* The visits and the end of a flush catch up with the table.
LEMMA FlushMaps ==
  ASSUME DInv, (\E k \in Keys : WriteChunk(k) \/ FailChunk(k)) \/ EndFlush
  PROVE  Extra' /\ Maps
<1>1. /\ step = "flushing" /\ UNCHANGED <<table, text>>
      /\ step' # "gap" /\ (job' = job \/ job' = "serve")
  BY DEF WriteChunk, FailChunk, EndFlush
<1>2. Live /\ job \notin {"down", "start"} /\ job' \notin {"down", "start"}
  BY <1>1 DEF Live, DInv, IInv, TInv, Phases
<1>3. LInv' /\ \A x \in Keys : Recovered'[x] \in {Recovered[x], table[x]}
  BY <1>2, WriteChunkLive, FailChunkLive, EndFlushLive
<1>4. TextLive'
  BY <1>1, <1>2 DEF TextLive, DInv
<1>5. Now = table /\ Now' = table
  BY <1>1, <1>2 DEF Now
<1>6. Durable!Next
  BY <1>3, <1>5, StoreMaps
<1>7. QED
  BY <1>3, <1>4, <1>6 DEF Extra, Maps

\* What touches neither the records nor the disk is a stutter.
LEMMA QuietMaps ==
  ASSUME DInv, IInv', FlushTimer \/ FinalFlush \/ Sync \/ SyncFails
  PROVE  Extra' /\ Maps
<1>1. UNCHANGED <<table, text, chunks, buf, idx, free, tail>>
  BY DEF FlushTimer, FinalFlush, Sync, SyncFails, memory, disk
<1>2. /\ Live /\ job # "down" /\ job' \notin {"down", "start"}
      /\ Running' => Running
      /\ step # "flushing"
      /\ job' \in {"sync", "quit", "leave"} /\ step' # "gap" => job' = job /\ step # "gap"
  BY DEF FlushTimer, FinalFlush, Sync, SyncFails, Live, Running, DInv, IInv, TInv, Phases
<1>3. tail = Broken
  BY <1>2 DEF DInv, LInv, TailLive
<1>4. clock' \in Nat /\ clock' >= clock
  <2>1. clock \in Nat
    BY DEF DInv, IInv, TInv, TypeOK
  <2>2. clock' = clock \/ clock' \in PacedTime \/ clock' \in clock..MaxClock
    BY DEF FlushTimer, FinalFlush, Sync, SyncFails, BeginFlush
  <2>3. QED
    BY <2>1, <2>2, BoundsAssumption DEF PacedTime
<1>5. LInv'
  BY <1>1, <1>2, <1>3, <1>4, SameLive
<1>6. TextLive'
  BY <1>1, <1>2 DEF TextLive, DInv
<1>7. Now' = Now /\ Recovered' = Recovered
  BY <1>1, <1>2, SameFound DEF Now
<1>8. QED
  BY <1>5, <1>6, <1>7 DEF Extra, Maps

\* With the new text, every key without a chunk catches up.
LEMMA RenameMaps ==
  ASSUME DInv, RenameText
  PROVE  Extra' /\ Maps
<1>1. /\ step = "gap" /\ text' = table /\ step' = "renamed"
      /\ UNCHANGED <<table, chunks, buf, idx, free, tail, clock, job>>
  BY DEF RenameText, memory
<1>2. job # "down" /\ job \in {"sync", "quit", "start"} /\ ~Running' /\ clock \in Nat
  BY <1>1 DEF DInv, IInv, TInv, Phases, TypeOK, Jobs, Running
<1>3. chunks \in Seq(Content)
  BY DEF DInv, IInv, TInv, TypeOK, Content
<1>4. ASSUME NEW k \in Keys
      PROVE  Recovered'[k] = IF Of(chunks, k) = {} THEN table[k] ELSE Recovered[k]
  BY <1>1, RecoveredIs DEF Found
<1>5. (Live => LInv)'
  <2> SUFFICES ASSUME Live' PROVE LInv'
    OBVIOUS
  <2>1. Live
    BY <1>1 DEF Live
  <2>2. tail = Broken
    BY <1>1, <2>1 DEF DInv, LInv, TailLive
  <2>3. QED
    BY <1>1, <1>2, <2>1, <2>2, SameLive DEF Running
<1>6. job = "start" => table = Recovered'
  <2> SUFFICES ASSUME job = "start" PROVE table = Recovered'
    OBVIOUS
  <2>1. table = Recovered
    BY DEF DInv, TextLive
  <2>2. \A k \in Keys : Recovered'[k] = Recovered[k]
    BY <1>4, <2>1
  <2>3. Recovered' = [k \in Keys |-> Recovered'[k]] /\ Recovered = [k \in Keys |-> Recovered[k]]
    BY RecoveredIs DEF Found
  <2>4. QED
    BY <2>1, <2>2, <2>3
<1>7. TextLive'
  BY <1>1, <1>6 DEF TextLive
<1>8. Now = table /\ Now' = table
  BY <1>1, <1>2 DEF Now
<1>9. Durable!Next
  BY <1>4, <1>8, StoreMaps
<1>10. QED
  BY <1>5, <1>7, <1>9 DEF Extra, Maps

\* The journal goes, or a new one comes, when the text is the table.
LEMMA RenewMaps ==
  ASSUME DInv, RemoveJournal \/ JournalCreate
  PROVE  Extra' /\ Maps
<1>1. /\ chunks' = <<>> /\ UNCHANGED <<table, text>> /\ JournalInit
      /\ step # "gap" /\ step # "idle" /\ step # "flushing"
      /\ job' # "start"
  BY DEF RemoveJournal, JournalCreate, DInv, IInv, TInv, Phases
<1>2. job \in {"sync", "quit", "leave", "start"}
  BY <1>1 DEF DInv, IInv, TInv, Phases, TypeOK, Jobs
<1>3. text = table /\ text \in Table
  BY <1>1, <1>2 DEF DInv, TextLive, IInv, TInv, TypeOK
<1>4. Recovered' = table
  BY <1>1, <1>3, EmptyFound
<1>5. LInv'
  BY <1>1, EmptyLive DEF JournalInit
<1>6. TextLive'
  BY <1>1, <1>3 DEF TextLive
<1>7. Now = table /\ Now' = table
  BY <1>1, <1>2, <1>4 DEF Now
<1>8. Durable!Next
  BY <1>4, <1>7, StoreMaps
<1>9. QED
  BY <1>5, <1>6, <1>8 DEF Extra, Maps

\* A crash falls back to what a start would find.
LEMMA CrashMaps ==
  ASSUME DInv, Crash
  PROVE  Extra' /\ Maps
<1>1. job' = "down" /\ UNCHANGED <<chunks, text>>
  BY DEF Crash, Forget, disk
<1>2. Recovered' = Recovered
  BY <1>1, SameFound
<1>3. Durable!Crash
  BY <1>1, <1>2 DEF Durable!Crash
<1>4. Extra'
  BY <1>1 DEF Extra, Live, TextLive
<1>5. QED
  BY <1>3, <1>4 DEF Maps, Durable!Next

\* A start shows the users what it has found.
LEMMA StartMaps ==
  ASSUME DInv, Start \/ DeleteJournal
  PROVE  Extra' /\ Maps
<1>1. job = "down" /\ Now = Recovered
  BY DEF Start, DeleteJournal, Now
<1>2. CASE DeleteJournal
  <2>1. job' = "down" /\ UNCHANGED <<chunks, text>>
    BY <1>1, <1>2 DEF DeleteJournal
  <2>2. Recovered' = Recovered
    BY <2>1, SameFound
  <2>3. Now' = Recovered'
    BY <2>1 DEF Now
  <2>4. Extra'
    BY <2>1 DEF Extra, Live, TextLive
  <2>5. QED
    BY <1>1, <2>2, <2>3, <2>4 DEF Maps
<1>3. CASE Start /\ \E k \in Keys : ChunksOf(k) # {}
  <2>1. /\ job' = "start" /\ step' = "gap" /\ table' = Recovered
        /\ UNCHANGED <<chunks, text>>
    BY <1>3 DEF Start
  <2>2. Recovered' = Recovered
    BY <2>1, SameFound
  <2>3. Now' = table'
    BY <2>1 DEF Now
  <2>4. Extra'
    BY <2>1, <2>2 DEF Extra, Live, TextLive
  <2>5. QED
    BY <1>1, <2>1, <2>2, <2>3, <2>4 DEF Maps
<1>4. CASE Start /\ \A k \in Keys : ChunksOf(k) = {}
  <2>1. /\ job' = "serve" /\ table' = Recovered /\ chunks' = <<>>
        /\ UNCHANGED <<text, buf, idx, free, tail>>
    BY <1>4 DEF Start
  <2>2. Recovered = text /\ text \in Table
    BY <1>4, StartFromText DEF DInv, IInv, TInv, TypeOK
  <2>3. Recovered' = text
    BY <2>1, <2>2, EmptyFound
  <2>4. Now' = table'
    BY <2>1 DEF Now
  <2>5. /\ free' = {} /\ tail' = Broken
        /\ \A k \in Keys : idx'[k] = 0 /\ buf'[k] = Clean
    BY <1>1, <2>1 DEF DInv, IInv, TInv, Forgotten
  <2>6. LInv'
    BY <2>1, <2>5, EmptyLive
  <2>7. Extra'
    BY <2>1, <2>6 DEF Extra, TextLive
  <2>8. QED
    BY <1>1, <2>1, <2>2, <2>3, <2>4, <2>7 DEF Maps
<1>5. QED
  BY <1>2, <1>3, <1>4

\* Every step keeps the invariant and is a step of the durable table or none.
LEMMA DurableStep ==
  ASSUME DInv, Pace > 0, [SafeNext]_vars
  PROVE  DInv' /\ Maps
<1>1. IInv'
  <2>1. [Next]_vars
    BY DEF Next
  <2>2. TInv'
    BY <2>1, TypeStep, PhaseStep DEF DInv, IInv, TInv
  <2>3. FInv'
    BY <2>1, FilesStep DEF DInv
  <2>4. QED
    BY <2>2, <2>3 DEF IInv
<1> SUFFICES Extra' /\ Maps
  BY <1>1 DEF DInv, Extra
<1>2. ASSUME NEW k \in Keys, NEW v \in Values, Save(k, v)
      PROVE  Extra' /\ Maps
  BY <1>2, WriteMaps DEF Save, Record
<1>3. ASSUME NEW k \in Keys, Delete(k)
      PROVE  Extra' /\ Maps
  BY <1>3, WriteMaps DEF Delete, Record
<1>4. CASE (\E k \in Keys : WriteChunk(k) \/ FailChunk(k)) \/ EndFlush
  BY <1>4, FlushMaps
<1>5. CASE FlushTimer \/ FinalFlush \/ Sync \/ SyncFails
  BY <1>1, <1>5, QuietMaps
<1>6. CASE RenameText
  BY <1>6, RenameMaps
<1>7. CASE RemoveJournal \/ JournalCreate
  BY <1>7, RenewMaps
<1>8. CASE Crash
  BY <1>8, CrashMaps
<1>9. CASE Start \/ DeleteJournal
  BY <1>9, StartMaps
<1>10. CASE UNCHANGED vars
  <2>1. UNCHANGED <<table, text, chunks, buf, idx, free, tail, todo, clock, job, step>>
    BY <1>10 DEF vars, memory, disk
  <2>2. Recovered' = Recovered
    BY <2>1, SameFound
  <2>3. Now' = Now
    BY <2>1, <2>2 DEF Now
  <2>4. TextLive'
    BY <2>1, <2>2 DEF TextLive, DInv
  <2>5. LInv => LInv'
    BY <2>1 DEF LInv, CacheLive, ApartLive, TimesLive, TailLive, RecordsLive, Of, PairsIn, KnownIn,
                GuardedIn, First, Best, Running, Pending
  <2>6. QED
    BY <2>1, <2>2, <2>3, <2>4, <2>5 DEF Extra, Maps, Live, DInv
<1>11. QED
  BY <1>2, <1>3, <1>4, <1>5, <1>6, <1>7, <1>8, <1>9, <1>10 DEF SafeNext

\* If flushes are at least one second apart, text files can be written and the server
\* does not die in the gap of lock_fclose, then the table, its text and its journal
\* together are a durable table: whatever is torn, failed, left over or not yet
\* removed, no write, flush, sync or restart, and no crash in the middle of one,
\* brings back an older record than the last durable one.
THEOREM TableIsDurable ==
  ASSUME Pace > 0
  PROVE  SafeSpec => ImplementsDurableTable
<1>1. Init => DInv /\ Durable!Init
  <2> SUFFICES ASSUME Init
               PROVE  DInv /\ Durable!Init
    OBVIOUS
  <2>1. TInv
    BY TypeInit
  <2>2. job = "down" /\ text = table /\ text = NoRecords /\ chunks = <<>>
    BY DEF Init
  <2>3. FInv
    BY <2>2 DEF FInv, CacheCurrent, PlacesApart, TimesPast, TailCurrent, OnlyOnce, FilesCurrent,
                TextSaved, Running
  <2>4. DInv
    BY <2>1, <2>2, <2>3 DEF DInv, IInv, Live, TextLive
  <2>5. \A k \in Keys : Of(chunks, k) = {}
    BY <2>2 DEF Of
  <2>6. Recovered = [k \in Keys |-> None]
    BY <2>2, <2>5, RecoveredIs DEF Found, NoRecords
  <2>7. QED
    BY <2>2, <2>4, <2>6 DEF Durable!Init
<1>2. DInv /\ [SafeNext]_vars => DInv' /\ [Durable!Next]_<<Now, Recovered>>
  BY DurableStep DEF Maps
<1>3. QED
  BY <1>1, <1>2, PTL DEF SafeSpec, ImplementsDurableTable, Durable!Spec, Now

=============================================================================
