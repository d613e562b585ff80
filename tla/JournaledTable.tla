--------------------------- MODULE JournaledTable ---------------------------
(***************************************************************************)
(* One table of the char server kept in a text file, with its journal: the *)
(* personal storages (src/src/char/txt/storagedb_txt.c) over the journal   *)
(* (src/src/common/journal.c) and the file replacement of                  *)
(* src/src/common/lock.c, as compiled with TXT_JOURNAL.                    *)
(*                                                                         *)
(* An edit changes the table in memory and waits in the journal's cache.   *)
(* A flush writes every waiting record into a chunk of the journal file,   *)
(* never over the chunk that holds the key's previous record.  A sync      *)
(* writes the whole table as text and starts an empty journal.  At start   *)
(* the text is read, the newest chunk of every key is rolled forward over  *)
(* it, and the result is written back.                                     *)
(*                                                                         *)
(* The server is one thread; what makes this hard is that the process may  *)
(* die between any two effects on the disk.  Its stdio buffers die with    *)
(* it; what the operating system was given does not (fsync is not called,  *)
(* a crash of the machine is not modelled).                                *)
(*                                                                         *)
(* A record is one value.  None is both an account without a storage and   *)
(* an empty one: storage_tostr writes no line for it, and loading makes an *)
(* empty storage for an account that has none.  A chunk whose checksum is  *)
(* wrong, a torn one or a hole, is Broken.                                 *)
(***************************************************************************)
EXTENDS Integers, Sequences

CONSTANTS
  Keys,      \* accounts
  Values,    \* contents of a storage that has some
  None,      \* no storage, or an empty one
  Clean,     \* "nothing in the journal's cache"
  Broken,    \* a chunk that fails its checksum
  Cached,    \* storage_journal_cache_interval is positive
  Pace,      \* seconds of the wall clock between two flushes, at least
  MaxClock,  \* bound: flushes are within so many seconds of the last sync
  MaxFails   \* bound: failures of the file system

ASSUME ValuesAssumption == None \notin Values /\ Clean \notin Values /\ Clean # None
ASSUME CachedAssumption == Cached \in BOOLEAN
ASSUME BoundsAssumption == Pace \in Nat /\ MaxClock \in Nat /\ MaxFails \in Nat

VARIABLES
  table,    \* storage_db
  text,     \* the text file; in the "gap" there is none, and this is the old one
  journal,  \* the journal file: "none", "blank" (empty, no header) or "ready"
  chunks,   \* the chunks in the journal file, from position 1 on
  buf,      \* the record of a key that waits in the journal's cache
  idx,      \* the position of the key's last chunk, 0 for -1
  free,     \* unusedchunk_queue
  tail,     \* the chunk whose last bytes are still in the stdio buffer, or Broken
  todo,     \* keys that the running flush has not visited
  clock,    \* time() of the last flush, counted from the creation of the journal
  job,      \* what the server is doing
  step,     \* how far that has got
  fails     \* failures of the file system so far

memory == <<table, buf, idx, free, tail, todo>>
disk == <<text, journal, chunks>>
vars == <<memory, disk, clock, job, step, fails>>

-----------------------------------------------------------------------------
(* Data *)

Record == Values \cup {None}

Table == [Keys -> Record]

NoRecords == [k \in Keys |-> None]

\* journal_header and the data, for a chunk that passes its checksum.
Chunk == [key : Keys, value : Record, time : 0..MaxClock]

ASSUME BrokenAssumption == Broken \notin Chunk

\* "serve": waiting for packets and timers; "flush": the flush timer, or a write
\* without cache; "sync": the periodic sync; "quit" and then "leave": inter_sync
\* and storagedb_final of do_final; "start": the sync after a roll-forward.
Jobs == {"down", "serve", "flush", "sync", "quit", "leave", "start"}

\* "gap": the old text file is removed, the new one not yet renamed; "renamed": the
\* text is complete, the journal is still open; "flushing"; "flushed": the journal
\* is closed; "removed".
Steps == {"idle", "gap", "renamed", "flushing", "flushed", "removed"}

TypeOK ==
  /\ table \in Table
  /\ text \in Table
  /\ journal \in {"none", "blank", "ready"}
  /\ chunks \in Seq(Chunk \cup {Broken})
  /\ buf \in [Keys -> Record \cup {Clean}]
  /\ idx \in [Keys -> 0..Len(chunks)]
  /\ free \subseteq 1..Len(chunks)
  /\ tail \in Chunk \cup {Broken}
  /\ todo \subseteq Keys
  /\ clock \in 0..MaxClock
  /\ job \in Jobs
  /\ step \in Steps
  /\ fails \in 0..MaxFails

\* journal_init_ and numdb_init: no record is cached, no position is known.
JournalInit ==
  /\ buf' = [k \in Keys |-> Clean]
  /\ idx' = [k \in Keys |-> 0]
  /\ free' = {}
  /\ tail' = Broken
  /\ todo' = {}

\* The first start, with an empty text file.
Init ==
  /\ table = NoRecords
  /\ text = NoRecords
  /\ journal = "none"
  /\ chunks = <<>>
  /\ buf = [k \in Keys |-> Clean]
  /\ idx = [k \in Keys |-> 0]
  /\ free = {}
  /\ tail = Broken
  /\ todo = {}
  /\ clock = 0
  /\ job = "down"
  /\ step = "idle"
  /\ fails = 0

-----------------------------------------------------------------------------
(* Loading: journal_load and journal_rollforward *)

\* Mutant: a chunk of the same second replaces an earlier one.
ReplacesEqual(jhd, dat) == jhd.time >= dat.time

\* A chunk of a known key replaces the one found before only when its timestamp
\* (in seconds) is later; the ticks compared with it then differ as well.
Replaces(jhd, dat) == jhd.time > dat.time

\* The position of the chunk kept for each key after reading n chunks.
Scan[n \in 0..Len(chunks)] ==
  IF n = 0 THEN [k \in Keys |-> 0]
  ELSE LET dat == Scan[n - 1]
           jhd == chunks[n]
       IN  IF jhd = Broken THEN dat
           ELSE IF dat[jhd.key] # 0 /\ ~Replaces(jhd, chunks[dat[jhd.key]]) THEN dat
           ELSE [dat EXCEPT ![jhd.key] = n]

ChunksOf(k) == {i \in DOMAIN chunks : chunks[i] # Broken /\ chunks[i].key = k}

\* The position that the whole scan keeps for a key: the newest chunk and, of
\* several from the same second, the first in the file.
Kept(k) ==
  CHOOSE i \in ChunksOf(k) :
    \A j \in ChunksOf(k) : \/ chunks[j].time < chunks[i].time
                           \/ chunks[j].time = chunks[i].time /\ i <= j

\* The table that a start now would come up with.
Recovered ==
  [k \in Keys |-> IF ChunksOf(k) = {} THEN text[k] ELSE chunks[Kept(k)].value]

-----------------------------------------------------------------------------
(* Edits and flushes *)

\* journal_flush begins, with what waits in the cache and one timestamp for all.
BeginFlush(cache, t) ==
  /\ clock' = t
  /\ todo' = {k \in Keys : cache[k] # Clean}
  /\ step' = "flushing"

\* Paced: at least Pace seconds after the last flush.
PacedTime == (clock + Pace)..MaxClock

\* journal_write; without a cache timer it flushes at once.
JournalWrite(k, v) ==
  /\ table' = [table EXCEPT ![k] = v]
  /\ buf' = [buf EXCEPT ![k] = v]
  /\ IF Cached
       THEN UNCHANGED <<todo, clock, job, step>>
       ELSE /\ job' = "flush"
            /\ \E t \in PacedTime : BeginFlush([buf EXCEPT ![k] = v], t)
  /\ UNCHANGED <<disk, idx, free, tail, fails>>

\* storagedb_txt_save.
Save(k, v) ==
  /\ job = "serve"
  /\ JournalWrite(k, v)

\* storagedb_txt_delete.
Delete(k) ==
  /\ job = "serve"
  /\ table[k] # None
  /\ JournalWrite(k, None)

\* journal_flush_timer.
FlushTimer ==
  /\ job = "serve"
  /\ Cached
  /\ job' = "flush"
  /\ \E t \in PacedTime : BeginFlush(buf, t)
  /\ UNCHANGED <<disk, table, buf, idx, free, tail, fails>>

\* The file once the stdio buffer has been written out, by an fseek or fflush.
Written ==
  IF tail = Broken THEN chunks ELSE [chunks EXCEPT ![idx[tail.key]] = tail]

\* The position of the next chunk: an unused one if there is one (their order in
\* the queue is left open), else one at the end of the file.
Position == IF free # {} THEN free ELSE {Len(chunks) + 1}

\* The file while a chunk is written at pos: nothing of it has got there yet, or a
\* part has.  The rest is in the stdio buffer.
Torn(pos) ==
  LET room == IF pos \in DOMAIN chunks THEN Written ELSE Append(Written, Broken)
  IN  {room, [room EXCEPT ![pos] = Broken]}

\* Mutant: a position of -1 is put into the queue as well.
UnusedAnyway(k, pos) == (free \ {pos}) \cup {idx[k]}

\* Mutant: the position stays in the queue.
UnusedStill(k, pos) == free \cup ({idx[k]} \ {0})

\* The queue once k has moved to pos.
Unused(k, pos) == (free \ {pos}) \cup ({idx[k]} \ {0})

\* Mutant: the key's chunk is overwritten where it is.
WriteChunkInPlace(k) ==
  /\ step = "flushing" /\ k \in todo
  /\ \E pos \in IF idx[k] # 0 THEN {idx[k]} ELSE Position :
       /\ chunks' \in Torn(pos)
       /\ idx' = [idx EXCEPT ![k] = pos]
       /\ free' = free \ {pos}
  /\ tail' = [key |-> k, value |-> buf[k], time |-> clock]
  /\ buf' = [buf EXCEPT ![k] = Clean]
  /\ todo' = todo \ {k}
  /\ journal' = "ready"
  /\ UNCHANGED <<table, text, clock, job, step, fails>>

\* journal_flush_sub for a waiting record: the fseek writes out what was buffered
\* (with the first chunk, the file header), then the record goes to a new position
\* and the old one becomes unused.
WriteChunk(k) ==
  /\ step = "flushing" /\ k \in todo
  /\ \E pos \in Position :
       /\ chunks' \in Torn(pos)
       /\ idx' = [idx EXCEPT ![k] = pos]
       /\ free' = Unused(k, pos)
  /\ tail' = [key |-> k, value |-> buf[k], time |-> clock]
  /\ buf' = [buf EXCEPT ![k] = Clean]
  /\ todo' = todo \ {k}
  /\ journal' = "ready"
  /\ UNCHANGED <<table, text, clock, job, step, fails>>

\* The same when fwrite fails: the record stays in the cache, the key has already
\* moved to the new position, and the old one is not queued.
FailChunk(k) ==
  /\ step = "flushing" /\ k \in todo
  /\ fails < MaxFails
  /\ fails' = fails + 1
  /\ \E pos \in Position :
       /\ chunks' \in Torn(pos)
       /\ idx' = [idx EXCEPT ![k] = pos]
       /\ free' = free \ {pos}
  /\ tail' = Broken
  /\ todo' = todo \ {k}
  /\ journal' = "ready"
  /\ UNCHANGED <<table, text, buf, clock, job, step>>

\* fflush; journal_final then closes the file.
EndFlush ==
  /\ step = "flushing" /\ todo = {}
  /\ chunks' = Written
  /\ tail' = Broken
  /\ journal' = "ready"
  /\ \/ job = "flush" /\ job' = "serve" /\ step' = "idle"
     \/ job # "flush" /\ step' = "flushed" /\ UNCHANGED job
  /\ UNCHANGED <<table, text, buf, idx, free, todo, clock, fails>>

-----------------------------------------------------------------------------
(* Synchronisation: storagedb_txt_sync *)

\* The text is complete in a temporary file and the old text is removed
\* (lock_fopen, the loop, and lock_fclose up to its remove).
Sync ==
  /\ job = "serve"
  /\ job' \in {"sync", "quit"}
  /\ step' = "gap"
  /\ UNCHANGED <<memory, disk, clock, fails>>

\* lock_fopen fails and storagedb_txt_sync returns; do_final goes on with
\* storagedb_final.
SyncFails ==
  /\ job = "serve"
  /\ fails < MaxFails
  /\ fails' = fails + 1
  /\ UNCHANGED <<memory, disk, clock, job, step>>

QuitUnsynced ==
  /\ job = "serve"
  /\ fails < MaxFails
  /\ fails' = fails + 1
  /\ job' = "leave"
  /\ step' = "renamed"
  /\ UNCHANGED <<memory, disk, clock>>

\* The rename of lock_fclose.
RenameText ==
  /\ step = "gap"
  /\ text' = table
  /\ step' = "renamed"
  /\ UNCHANGED <<memory, journal, chunks, clock, job, fails>>

\* journal_final of a journal in its writing mode: flush, close, remove.
FinalFlush ==
  /\ step = "renamed" /\ job \in {"sync", "quit", "leave"}
  /\ \E t \in clock..MaxClock : BeginFlush(buf, t)
  /\ UNCHANGED <<disk, table, buf, idx, free, tail, job, fails>>

RemoveJournal ==
  /\ step = "flushed"
  /\ journal' = "none"
  /\ chunks' = <<>>
  /\ JournalInit
  /\ \/ job = "leave" /\ job' = "down" /\ step' = "idle"
     \/ job # "leave" /\ step' = "removed" /\ UNCHANGED job
  /\ clock' = 0
  /\ UNCHANGED <<table, text, fails>>

\* journal_create truncates the file; the header it writes is still in the stdio
\* buffer.  The journal opened for a roll-forward is closed without being removed.
JournalCreate ==
  /\ \/ step = "removed"
     \/ step = "renamed" /\ job = "start"
  /\ journal' = "blank"
  /\ chunks' = <<>>
  /\ JournalInit
  /\ clock' = 0
  /\ \/ job = "quit" /\ job' = "leave" /\ step' = "renamed"
     \/ job # "quit" /\ job' = "serve" /\ step' = "idle"
  /\ UNCHANGED <<table, text, fails>>

-----------------------------------------------------------------------------
(* Crash and restart *)

\* What the process had in memory is gone.
Forget ==
  /\ table' = NoRecords
  /\ JournalInit
  /\ clock' = 0
  /\ job' = "down"
  /\ step' = "idle"
  /\ UNCHANGED fails

Crash ==
  /\ job # "down" /\ step # "gap"
  /\ Forget
  /\ UNCHANGED disk

\* The moment that the comment at lock.c:60 calls the worst: no text file is left.
CrashInGap ==
  /\ step = "gap"
  /\ Forget
  /\ text' = NoRecords
  /\ UNCHANGED <<journal, chunks>>

\* storagedb_txt_read.  journal_load aborts the server when the file has no header.
\* Without a chunk there is nothing to roll forward and a new journal is created;
\* else the table is synced, here up to the removal of the old text.
Start ==
  /\ job = "down"
  /\ journal # "blank"
  /\ table' = Recovered
  /\ \/ /\ \A k \in Keys : ChunksOf(k) = {}
        /\ journal' = "blank"
        /\ chunks' = <<>>
        /\ job' = "serve"
        /\ UNCHANGED step
     \/ /\ \E k \in Keys : ChunksOf(k) # {}
        /\ job' = "start"
        /\ step' = "gap"
        /\ UNCHANGED <<journal, chunks>>
  /\ UNCHANGED <<text, buf, idx, free, tail, todo, clock, fails>>

\* What the documentation tells the operator to do then.
DeleteJournal ==
  /\ job = "down"
  /\ journal = "blank"
  /\ journal' = "none"
  /\ UNCHANGED <<memory, text, chunks, clock, job, step, fails>>

-----------------------------------------------------------------------------
(* Specifications *)

\* The environment the journal is made for: text files can be written, and the
\* server does not die in the gap of lock_fclose.
SafeNext ==
  \/ \E k \in Keys : \/ \E v \in Values : Save(k, v)
                     \/ Delete(k) \/ WriteChunk(k) \/ FailChunk(k)
  \/ FlushTimer \/ EndFlush
  \/ Sync \/ SyncFails \/ RenameText \/ FinalFlush \/ RemoveJournal \/ JournalCreate
  \/ Crash \/ Start \/ DeleteJournal

SafeSpec == Init /\ [][SafeNext]_vars

Next == SafeNext \/ CrashInGap \/ QuitUnsynced

Spec == Init /\ [][Next]_vars

-----------------------------------------------------------------------------
(* Properties *)

\* What has left the journal's cache survives a crash: while the server serves,
\* a start would find every record that no longer waits for a flush, whatever
\* chunks are torn, unused or left over from failures (doc/journal.txt:13-15).
FlushedIsSafe ==
  job = "serve" => \A k \in Keys : buf[k] = Clean => Recovered[k] = table[k]

\* The loop of journal_load keeps, of all chunks in the file, the newest intact one
\* of every key, and the first in the file of several from one second.
ScanFindsNewest ==
  \A k \in Keys : Scan[Len(chunks)][k] = IF ChunksOf(k) = {} THEN 0 ELSE Kept(k)

Durable == INSTANCE DurableTable
  WITH now <- IF job = "down" THEN Recovered ELSE table, safe <- Recovered

\* The table, its text file and its journal together are a durable table: no write,
\* flush, sync or restart, and no crash in the middle of one, ever brings back an
\* older record than the last durable one.
ImplementsDurableTable == Durable!Spec

\* After a crash the server starts by itself and rolls the journal forward
\* (doc/journal.txt:53-55).
StartsAlone == job = "down" => journal # "blank"

\* A journal is about to be removed only when the text holds everything, which is
\* why it may be removed (doc/journal.txt:48-51).
RemovesOnlySaved == step = "flushed" => text = table

=============================================================================
