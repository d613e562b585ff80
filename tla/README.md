# Auriga in TLA+

A verification development for Auriga, a set of three servers (login, char,
map) for an online game: TLA+ models of its protocols and persistence, checked
with TLC on small instances, and theorems about them checked with TLAPS for all
values of the constants. Source paths below are relative to `src/src/`.

## 1. The system

```
 game client ──► login server ──► char server ◄──► map server(s) ◄── game client
                  accounts         characters,       the running game,
                                   guilds, parties,  one process per group
                                   storages, mail    of maps
```

Each server is one thread: `core.c` runs timers, then handles the packets that
have arrived. What is concurrent is the servers with each other, over TCP
connections that deliver in order until they drop, and what each process leaves
on disk when it dies.

| component | state it keeps | operations | hard behaviours | what makes it correct |
|---|---|---|---|---|
| guild storage (`char/int_storage.c`, `map/storage.c`) | char server: the stored items, `storage_status` (the lock), `last_fd`. Map server: a cache, `storage_flag`, `gstorage_lockreq` of each session | request, grant, load, open, edit, save, close, unlock, deadlock check | lock held over three round trips; a player who leaves meanwhile; a cache that is believed current; a holder that vanishes | one player has it open; who opens it sees the stored items; nothing is lost but by a failure; the lock comes back |
| inter-server link (`map/intif.c`, `map/chrif.c`, `char/inter.c`) | sockets, queues | messages, loss, reconnection, restart | everything in flight is lost; socket numbers are given again | as above |
| text databases and journal (`char/txt/*.c`, `common/journal.c`, `common/lock.c`) | the table in memory, the text file, the journal file and its cache | save, delete, flush, sync, shutdown, roll-forward | a crash between any two disk effects; failing writes; timestamps in seconds | what has been flushed survives; roll-forward finds the newest record; an orderly end loses nothing |
| session hand-off (`login/login.c`, `char/char.c`, `map/chrif.c`, `map/clif.c`, `map/pc.c`) | an `auth_fifo` at the login server and one at the char server, the online table, one `id_db` entry per account and map server | login, character selection, entry, change of map server, return to selection, double login, saves, going offline | late messages about an old session; answers that name only the account; a table that wraps around; links that break | one player per account; the online table names the server that has him; nobody is locked out by an entry that stays; a character is played with everything that was done with it |
| goods (`map/pc.c`) | inventory, cart and zeny of each session | add, delete, pay, get | a check that looks at less than the call it is made for | what all the exchanges below rest on |
| player trade (`map/trade.c`) | `trade.partner`, the offer and two confirmation flags of each session; no record of the trade itself | request, answer, add, confirm, cancel, commit | two players' steps in any order; goods that change after they were offered | partners are mutual; goods are conserved; what changes hands is what both confirmed |
| vending and buying stores (`map/vending.c`, `map/buyingstore.c`) | a list and an id per shop | open, look, buy or sell, close | two customers of one shop; a shop closed and opened again between a look and a purchase | what is listed is there; the price that was shown is paid; goods are conserved |
| mail (`map/mail.c`, `char/int_mail.c`) | what is attached in the session, the box on the char server | attach, send, ask for the attachment, delete | an attachment in flight when the link breaks; a second request before the first answer; a full box | an attachment is in one place |
| bank (`map/bank.c`) | a deposit | deposit, withdraw | none of its own | zeny is conserved |
| party (`char/int_party.c`, `map/party.c`) | the list on the char server, its copy on the map server, `party_id` and the open invitation in each session | found, invite, answer, leave, expel, new leader, arrive, log out | the answer and the list are two messages; requests nobody looks for; a player who is gone when he is added | one party per player; he knows it; copies agree; nothing refers to a session that has ended |
| guild membership (`char/int_guild.c`, `map/guild.c`) | as the party | as the party | as the party | as the party |
| timers (`common/timer.c`) | `timer_data`, a sorted heap of slots, a list of free slots | add, delete, postpone, run, repeat | ticks of 32 bits that wrap around; slots used again; calls that set and delete timers | called in order, none lost, none early, none for an owner who deleted it |
| NPC dialogs (`map/npc.c`, `map/script.c`) | the position of a script, `menu_or_input` | run, wait, continue, time out | answers to a dialog that is over | an answer continues the dialog that asked |

Components without a row of their own (combat, client protocol, sockets,
memory, SQL, converters, ...) are listed in `PROJECT.json` with the reason why
they are left out: numeric game rules, packet layouts, pure I/O, or code of
third parties. Everything in the code that is hard to test stands there under
`hazards`, each at its line, with the properties that would catch it.

## 2. Modules

| module | what it is |
|---|---|
| `LockedStorage` | abstract: one storage with one lock; the holder edits, saves are stored in order, the lock is released only when the stored copy has caught up |
| `GuildStorage` | the guild storage of one guild as the servers keep it: char server, map servers, their FIFO links, sessions, failures |
| `MCGuildStorage` | its instances for TLC |
| `GuildStorage_proofs` | theorems `TypeCorrect`, `MutualExclusionHolds` |
| `GuildStorageFresh_proofs` | extends it: theorems `LastFdIsCurrentHolds`, `OpensFreshHolds` |
| `GuildStorageRefinement_proofs` | extends that: theorem `StorageIsLocked` |
| `DurableTable` | abstract: a table and a durable copy that catches up with it; a crash falls back to the durable copy |
| `JournaledTable` | one table of the char server with its text file and its journal, a crash between any two disk effects |
| `MCJournaledTable` | its instances for TLC |
| `JournaledTable_proofs` | theorems `TypeCorrect`, `ScanCorrect`, `FlushedSurvives`, `TableIsDurable` |
| `Goods` | inventories, carts and zeny, and the functions of `pc.c` on them |
| `Trade` | extends `Goods`: `trade.c` |
| `Vending`, `BuyingStore` | extend `Trade`, `Vending`: shops that sell from a cart, shops that buy |
| `Bank` | extends `Trade`: deposits |
| `Link` | extends `Trade`: the connection of the map server with the char server, and what that has stored of each player |
| `Mail`, `Party` | extend `Link`: attachments; party lists and their copies |
| `Exchange` | composes the eight above with players who warp, quit and log in and a link that breaks; the properties |
| `MCExchange` | sixteen scenes for TLC |
| `Exchange_proofs` | theorems `SpecPartnersMutual`, `SpecNoDealInStore`, `SpecGoneLeavesNothing` |
| `Party_proofs` | extends it: theorems `SpecNoDangling`, `SpecRequestsEnd` |
| `LoginServer`, `CharServer`, `MapServer` | one account on each kind of server, each module extending the one before |
| `Session` | composes them; the properties |
| `MCSession` | four scenes for TLC |
| `Session_proofs` | theorems `TypeCorrect`, `TableNamesPlayer`, `OnlyOne`, `NoGhosts`, `NewestIsPlayed` |
| `Alarms` | abstract: alarms that are set, cancelled, postponed and ring |
| `Timer` | `timer.c` and the owners of timers |
| `MCTimer` | its instance for TLC |
| `Timer_proofs` | theorems `SpecSlotsKept`, `SpecHandlesAreOwn`, `SpecTypeOK`, `SpecHeapSorted`, `SpecCalledInOrder`, `SpecSearchAgrees`, `SpecImplementsAlarms` |

Definitions whose comment begins with "Mutant:" are wrong variants of the next
definition. They are in no specification; each shows that one property can
fail (section 7).

### GuildStorage and the code

* `gs` is the stored `struct guild_storage` with `storage_status` and
  `last_fd`; `link[m]` is the socket of map server m at the char server;
  `up`/`down` are the bytes of its connection as queues of messages: 0x3018 to
  0x301c for the storage, 0x3031 for the guild's data; 0x3818, 0x381a and 0x381c,
  the notice 0x3834 of a leaving member, and the data, 0x3831.
* `known` are the map servers that have the guild in `guild_db`. A server asks for
  the data at the first login of a member (`pc.c:1511`), gets them also when a
  member leaves, and keeps them for good. It matters because
  `storage_guild_checklock` says nothing for a guild it does not know. The
  sessions that `guild_db` refers to (`member[].sd`) are those who play: the
  answer that sets them is on the FIFO link before any grant. Other broadcasts of
  the data (a level, a skill, a new member) and a castle's request for its
  owner's (`guild.c:2172`) are left out: they only let a server know sooner.
* `cached`/`cache` are a map server's `guild_storage_db`; `sd[p]` is the
  session of account p: `state.storage_flag` (`flag`),
  `state.gstorage_lockreq`, `npc_menu` and the dialog's `menu_or_input`
  (`menu`). The cached storage carries its own copy of `storage_status`, as
  the code's does.
* One action per handler: `CharReceive` (`int_storage.c`), `MapReceive`
  (`intif.c`, `storage.c`, `guild.c`), the player's `RequestByCommand`,
  `RequestByScript`, `StorageAdd`, `StorageGet`, `CloseKafra`, `Autosave`,
  `Depart`, `Quit`, `Login`, the dialog's `NpcTimeout` and `NextDialog`, the
  char server's `DeadlockTimer`, and `Drop`, `Connect`, `CharRestart` for
  failures. `StorageOpen`, `StorageClose` and `GuildOpenStorage` are the
  functions that several handlers call.
* Data: item slots are the set of items in the storage. Amounts, cards,
  sorting, the limit of 1000 slots and the messages to the game client are left
  out; so are 0x3819 and 0x381b, which the map server only logs.

Three environments: `Next` has everything; `UntimedNext` leaves out the
deadlock timer; `CalmNext` also leaves out members who leave the guild, dialogs
that time out, and players who depart while a request or a load of theirs is
under way. The promises of `LockedStorage` hold in the calm environment; the
violation runs show what each of the other steps breaks.

### JournaledTable and the code

* `table` is `storage_db`, `text` the text file, `chunks` the journal file
  after its header; `journal` tells whether there is a file and whether its
  header is on disk. `buf`, `idx`, `free` are the journal's cache, each key's
  last position and `unusedchunk_queue`; `tail` is what is still in the stdio
  buffer.
* `job` is what the server does and `step` how far that is: the server is one
  thread, so nothing interleaves with a flush or a sync except the death of the
  process (`Crash`, possible after every step).
* `WriteChunk` is one visit of `journal_flush_sub`. Its `fseek` writes out the
  rest of the previous chunk; the new chunk then reaches the disk not at all or
  in part (`Torn`), and its rest stays in `tail` until the next `fseek` or
  `fflush`. These are the states of the file that a crash can find.
* `Sync`, `RenameText`, `FinalFlush` ..., `RemoveJournal`, `JournalCreate` are
  the steps of `storagedb_txt_sync`, also those of shutdown (where
  `storagedb_txt_final` closes the fresh journal again: job "leave") and of the
  sync after a roll-forward (job "start": `journal_final` does not remove a
  journal that was opened for loading, `fopen` truncates it).
* `Kept` says which chunk of a key the load loop keeps; `Scan` is the loop.
* Time is the second of the last flush. A later time than the next allowed one
  is possible too, and only comparisons matter, so counting from the creation of
  the journal loses nothing; no chunk outlives it.

### Exchange and the code

* A session is spread over variables: `inv`, `cart`, `zeny` (`status`), `deal`
  (`trade`, `state.deal_mode`, `state.deal_locked`), `store` (`state.store`),
  `mailing` (`state.mail_appending`), `append` (`mail_append`), `vend` and
  `bstore` with their ids, `deposit`, and `sd` (`party_id`, `party_invite`,
  `party_creating`, `party_sended`). A trade has no record of its own; this is
  the hazard that `PartnersMutual` is about.
* `online` are the players on a map (`bl.prev`), `away` those without a session;
  the others are between two maps, where sessions can be found but not acted on.
* One action per handler, in the module of its file. `Exchange` adds `Depart`
  (`unit_remove_map`), `Quit` (`map_quit`), `Autosave`, `Saved`, `AuthReq`,
  `Auth`, `LogIn` (`pc_authok`), `Arrive` (`clif_parse_LoadEndAck`), `LinkBreaks`
  (`chrif_disconnect`) and `LinkReturns`.
* `up` and `down` are the bytes of the link, one queue for mail, parties, saves
  and authentications: that a save stays behind a "strip" matters
  (`AttachmentTakenOnce`). `record` is the status stored of each player; `box`,
  `rates`, `roll`, `founded` are the char server's mail boxes and parties;
  `copies` is the map server's `party_db`.
* A kind of goods is a nameid with its cards; `NameOf` gives the nameid alone,
  which is all `pc_checkadditem` compares. Slots are kept because trades, shops
  and mails name goods by slot.
* `shown` is what a customer's window shows, `seen` what was on offer when a
  player confirmed, `crossed`, `hasty`, `taken`, `odd`, `skewed` record what the
  exceptions of the properties name. No guard reads them.
* `can` says what each player of a scene does at all. A "careless" one sends
  packets in situations where the game client shows no button: an invitation to
  somebody while he has one open, offers without a window.

### Session and the code

* `client` is where each game client of the account is; `tickets` the login
  server's `auth_fifo`, `auth` the char server's (`use` is its `delflag`), `seat`
  the char server's connections of clients, `online` its `char_online_db`,
  `where`/`stored` the stored character.
* `sess[m][f]` is the `map_session_data` of connection f at map server m
  (`twin` is `new_fd`, `waiting` is `state.waitingdisconnect`, `dest` the map),
  `idb[m]` the account's entry in `id_db`, `doomed[m]` the connections a
  `clif_waitclose` timer will close *by number*.
* Login ids are numbered; their randomness is left out. Other accounts appear
  as `Forget`: entries pushed out of a ring of 256.
* `latest` is the newest state of each character wherever it was made. Three
  variables record the events that the properties except: `mixed`, that an answer
  which names only the account was given to another of its connections than the
  one that asked (at the char server or at a map server); `crossed`, that 0x2b18
  or 0x2b05 was believed against the online table; `abandoned`, that an
  acceptance found nobody to accept.

### Timer and the code

* `data` is `timer_data`, `heap` is `timer_heap`, `free` is `free_timer_list`,
  `look` the tick `do_timer` was called with and `running` the timer whose
  function it has called; both are counted from `now`, so that they stay small
  while ticks wrap around. `left` is the true time until a timer is due. The
  code has no such thing, and no guard uses it but the two bounds.
* Owners stand for the rest of the server: they act between two runs of
  `do_timer` and inside the calls it makes, and forget an id when the timer
  calls them, as the code's users do (`sd->invincible_timer = -1`).
* `Bisect` is the halving loop that `push_timer_heap` and `search_timer_heap`
  share. The actions use `Place` and `Withdrawn`, which say where the loops
  should arrive; `SearchAgrees` checks that they do.

## 3. Runs

| run | instance | result |
|---|---|---|
| `guild_calm` | `CalmSpec`; 2 map servers, 2 members, 1 item, 2 sockets, 1 connection loss or restart; 1,090,000 states | holds: `MutualExclusion`, `LastFdIsCurrent`, `OpensFresh`, `ImplementsLockedStorage` |
| `guild_all` | `FairSpec`; 1 map server, 1 member, no items, 2 losses, the full environment | holds: `TypeOK`, `LockComesBack` |
| `guild_reload` | `UntimedSpec`; 2 map servers, 1 member | violates `LastFdIsCurrent` |
| `guild_refusal` | `UntimedSpec`; 2 map servers, 2 members | violates `MutualExclusion` |
| `guild_timer` | `Spec`; 2 map servers, 2 members | violates `ReleasesOnlyUnused` |
| `journal_safe` | `SafeSpec`; 2 keys, 2 values, 3 seconds, 1 failing operation | holds: `TypeOK`, `FlushedIsSafe`, `ScanFindsNewest`, `ImplementsDurableTable` |
| `journal_second` | `SafeSpec` without cache, flushes in the same second | violates `FlushedIsSafe` |
| `journal_blank` | `SafeSpec`, 1 key | violates `StartsAlone` |
| `journal_unsynced` | `Spec`, 1 key, 1 failing operation | violates `RemovesOnlySaved` |
| `exchange` | `Spec` of `Exchange` from sixteen scenes; 398,082 states | holds: `TypeOK` and the sixteen properties below |
| `session` | `MCSpec`, four scenes; 2 clients, 2 characters, 2 map servers; 1,265,366 states | holds: `TypeOK`, `OnePlayer`, `OnlineNamesPlayer`, `NoGhost`, `PlaysNewest` |
| `timers` | `Spec` of `Timer`; 2 owners, a clock of 9 ticks; about 635,600 states | holds: `TypeOK`, `SlotsKept`, `HandlesAreOwn`, `HeapSorted`, `SearchAgrees`, `CalledInOrder`, `ImplementsAlarms`, `DueIsCalled` |

What the violations say about the code (`findings` in `PROJECT.json` quotes the
lines):

1. *guild_reload.* A grant that asks for a reload finds its player gone. The
   map server gives the lock back but keeps its old cache, and `last_fd` names
   it: its next grant opens the stale cache.
2. *guild_refusal.* The answer to a request of a player who is gone unlocks the
   storage even when the answer was a refusal, that is, while somebody else has
   it open. A second member can open it.
3. *guild_timer.* Every map server answers the deadlock check for itself; one
   that does not see the user releases the lock.
4. *journal_second.* Timestamps count seconds and a chunk replaces another only
   if its second is later. Without a cache (interval 0), two writes in one
   second suffice for the roll-forward to bring the older one back; with the
   default interval of 1000 ms it takes a flush that was late.
5. *journal_blank.* A server that dies in the first one or two seconds after a
   journal was created (at start, and at every sync) leaves an empty file and
   does not start again until the operator deletes it.
6. *journal_unsynced.* If the text cannot be written at shutdown, the journal
   is removed all the same.

What the properties of `exchange` say, with the scenes that reach their cases:

| property | statement | scenes |
|---|---|---|
| `PartnersMutual`, `NoDealInStore` | partners are each other's; no trade beside a shop; both but for a second invitation | Barter, Reckless, Hawker |
| `ExchangeAsAgreed` | both bags and purses change by what both saw when they confirmed | Barter, Finder, FullBags |
| `ShopIsBacked`, `PurchaseAsShown`, `SaleAsShown` | what is listed is in the cart; what was shown is what is paid | Shop, Stall, Hawker, Store |
| `ItemsNotCreated`, `ItemsNotLost`, `ZenyConserved` | goods and zeny over all bags, carts, deposits, boxes and messages change only in the ways that are named | all |
| `AttachmentTakenOnce` | who waits for the answer gets an attachment once, whatever the link does | Post |
| `GoneLeavesNothing` | who is off the map has nothing open and no partner | Barter, Shop, Sender, Post |
| `OneParty`, `KnowsParty`, `RequestsEnd` | one seat; the session and the list agree; requests are answered | Founders, Fickle, Guests, Crowd, Severed |
| `CopiesAgree`, `NoDangling` | the two servers' lists agree; a copy refers to live sessions of the party | Guests, Crowd, Severed |

What the properties of `session` say, each but for the events it names:

| property | statement | except |
|---|---|---|
| `OnePlayer` | the account plays at most once, over all map servers | `mixed`, `crossed` |
| `OnlineNamesPlayer` | the online table names the map server where it plays, also while messages are under way | `mixed`, `crossed` |
| `NoGhost` | while the table names a map server and no message is under way, a connection is there | `abandoned` |
| `PlaysNewest` | whoever plays a character plays its newest state | `mixed`, `crossed` |

* `LinkCap` limits what a link holds when a *player* adds a message; handlers
  always answer. Three messages (two in `guild_all`) let the request for the
  guild's data, a save, an unlock and a request of another player be under way
  together with the answers they cause.
* `MaxDrops` = 1 in `guild_calm` lets a connection drop (and the socket number
  be given to the other server) or the char server restart at any moment;
  `guild_all` has two.
* The deadlock timer runs every hour; it asks again only when its last question
  has been answered. Without this bound questions could pile up.
* Two members are what it takes for one to hold and one to ask; a second map
  server for all that needs two caches. One item makes two contents, so a stale
  or lost one shows. A member who may not open the storage (`Barred`) is in no
  run: a grant to him leaks the lock as the loss of a holder does, and three
  members take too long. The theorems of section 5 hold for any `Barred`.
* Two keys are what the reuse of a chunk by another key needs, two values what
  an older record needs to differ. Three seconds let a chunk be written, freed
  and reused between two syncs; `RemoveJournal` and `JournalCreate` set the
  clock back, so the behaviours are not limited in length.
* `MaxFails` = 1: a failing `fwrite` in one flush and its repetition in the next.

* `exchange`: what a scene needs and no more. Three players where a third can
  interfere, two slots so that a bag can be full and a slot offered twice, three
  kinds of which two share a nameid, stacks of three, weight four. A tax of half
  makes a lost zeny visible, two shops let one be opened again. `BoxSize` = 1 with
  `MaxMails` = 2 makes a box overflow; `LinkCap` = 2 lets two requests of players
  race. Parties have two seats, so three players overfill one, and each
  player with "found" founds one. Larger instances of three scenes were checked
  once: Guests in which both can quit (211,000 states), Founders who also warp
  and quit (558,000), Founders with a third player (106,000).
* `session`: two clients, two characters on different map servers, two
  connections each. A scene starts either outside or with one client in the
  world, and has a budget for each kind of step that could be repeated for ever
  (logins, moves, saves, stops, a broken link, a turned ring); everything that
  merely goes on is free. `MaxValue` = 1: a character that was changed once can be
  told from one that was not.
* `timers`: nine ticks are the fewest for which `2 * (MaxStall + MaxDelay) < Mod`
  holds with delays and stalls of two, so that timers wait on both sides of the
  wrap, and `Low`, `High` are where the fix of `top_timer_heap` applies. The
  three slots exceed the owners by one: a deleted timer keeps its slot.

Symmetry is used for map servers, members, keys and values in the safety runs;
none is used in the liveness runs, nor where scenes name their players. Deadlock checking is off: players owe
nothing, so the system may stop in any quiet state.

### Fairness

`FairSpec` assumes weak fairness of the servers' receive loops (each server
handles what has arrived, `core.c`), of the hourly timer
(`guild_storage_deadlock_timer` is an interval timer) and of reconnection
(`check_connect_char_server` is one too). Nothing is assumed of players: a member
may keep the storage open for ever, which is why `LockComesBack` asks only
that a held lock is released *or* in use. Losses are bounded, so the link is up
eventually. `LockComesBack` also asks that some map server has the guild's data:
a member logs in on a fresh server, his request for the data and his request for
the lock are answered, and the link loses both answers and cuts him off. The lock
is held, and as no server knows the guild none answers the timer
(`storage.c:855`); it stays held until a member logs in, which nobody has to do.
Without this premise TLC finds such a behaviour. The journal has no liveness property: whether a crashed server is
started again is the operator's affair.

`Timer` assumes weak fairness of `DoTimer`, `Expire`, `Finish` and `Return`: the
main loop calls `do_timer` again and again (`core.c:449-457`), its loop goes on
while timers are due, and the functions it calls return. Owners and the clock
are free. `DueIsCalled` excepts an owner who postpones his timer for ever.
`Exchange` and `Session` assume no fairness and have safety properties only.

## 4. Refinement

The runs check each of these on small instances; the theorems of section 5 prove
them for all, the first in the calm environment, the second in that of
`SafeSpec`, where they are claimed.

`GuildStorage` implements `LockedStorage` under: `stored` is the char server's
items; `pending` the saves on a link; `holder` the player who has *custody*,
from the grant (or load) on its way to him until he closes, else `Gone` while
the lock is held and `Nobody` when it is free; `content` the holder's cache,
else the last save, else what is stored. So: nobody acquires a held lock, nobody
edits without it, saves arrive in order, and the lock is not free before the
last save has arrived.

`JournaledTable` implements `DurableTable` under: `now` is the table in memory
(of a server that is down: what a start would find), `safe` is what a start
would find at this moment. So: no step, and no crash in the middle of one, takes
a key back behind its last durable record.

`Timer` implements `Alarms` under: `alarm[o]` is what is left and the period of
the timer that o remembers (no alarm while a timer that does not repeat calls
him); `ringing` is the owner `do_timer` has called, and whether the timer will
start again. So slots, marks, the heap and ticks that wrap around cannot be
seen by those who use timers.

## 5. Theorems

Assumptions are the named `ASSUME`s of the modules, on constants only: `Off` is
not a map server, sockets are naturals, the marks `"nobody"` and `"gone"` for a
storage without a holder are no players, `None`, `Clean`, `Broken` are not
records or chunks, the bounds are naturals. All sets may be of any size.

* `GuildStorage_proofs!TypeCorrect` (`Spec => []TypeOK`): the full environment.
  The type invariant is inductive; the proof has one case per action and uses
  that a queue's head has the parts that its type announces.
* `GuildStorage_proofs!MutualExclusionHolds` (`CalmSpec => []MutualExclusion`).
  `MutualExclusion` is not inductive: what matters is what may *become* an open
  storage or a free lock. The invariant `IInv` counts tokens. A token is a
  granting answer, a load request, a load reply, an open session or an unlock;
  `OneToken` says there is at most one in the whole system, `FreeMeansNoToken`
  that there is none while the lock is free. To keep these it needs
  `OpenIsClosable` (an open session finds its cache, so that closing does send
  the unlock), `SavesAreLocked` (a save that arrives stores a held lock, and
  comes from the token's holder), `AskedWaits` and `AskedOnce` (every request
  under way has a session that waits for it, so that an answer is neither
  refused by an unlock nor used twice), and `Calm` (the messages the calm
  environment does not send). The guild's data are no token. Each handler gets a lemma that says where its
  token goes.
* `GuildStorageFresh_proofs!LastFdIsCurrentHolds` and `OpensFreshHolds`
  (`CalmSpec => []LastFdIsCurrent`, `CalmSpec => OpensFresh`): the cache that
  the char server's `last_fd` spares from a reload is what the storage will be,
  and whoever opens it sees that. `FInv` adds to `IInv` what each map server's
  part looks like (`ServerInv`). A server without a link has neither a cache
  nor messages, so a socket number given again cannot name an old cache; a
  cache is dirty only while somebody has it open; a save carries the socket of
  its server and, unless the storage is still open there, the release of the
  lock is behind it (`Guarded`); `last_fd` names the server that has the lock;
  a load under way carries what is stored; and the cache of the server that
  `last_fd` names is what the char server will have stored once it took every
  save of its queue (`Upshot`). The last is the heart: the lock may be free
  only when no save is under way, because `Guarded` puts each before its
  release.
* `GuildStorageRefinement_proofs!StorageIsLocked` (`CalmSpec =>
  ImplementsLockedStorage`), from the two invariants above. `Mapped` says of the
  refinement mapping, whose `CHOOSE`s and case distinctions are awkward to
  compute with, what its four values are in any state of `FInv`: who has custody,
  who is the holder, which saves are under way, what the content is. Then there
  is a lemma per handler: the answer that grants is `Acquire`, a move of an item
  `Edit`, a save during a session `Save`, a save that arrives `Store`; closing, a
  grant to somebody who may not use it and a load that reaches nobody are
  `Leave`; an unlock that arrives is `Release`; the loss of the holder's link and
  a restart of the char server are `Fail`. Everything else is a stutter
  (`NothingHappens`). `SavesIn` runs through a queue with a recursive function;
  what it does with an added and a removed message is proved with the least place
  where it would fail (`StepByStep`) in the place of an induction.
* `JournaledTable_proofs!TypeCorrect` (`Spec => []TypeOK`), by an invariant that
  adds the order of the steps and that a server that is down remembers nothing.
* `JournaledTable_proofs!FlushedSurvives` (`Pace > 0` implies
  `Spec => []FlushedIsSafe`), in every environment. The invariant: each key
  whose record has left the cache is `Settled` (its position holds its record,
  and every other chunk of it is older) or is the one whose chunk is in the
  stdio buffer; no two keys rely on one position and none on an unused one
  (`PlacesApart`); chunks of the running flush are of keys that it has done
  (`OnlyOnce`). `Pace > 0` is used once, where a flush begins: no chunk has its
  timestamp yet. That the kept chunk exists rests on the well-ordering of the
  naturals (`LeastNatural`, `KeptExists`).
* `JournaledTable_proofs!ScanCorrect` (`Spec => []ScanFindsNewest`), in every
  environment: the loop of the roll-forward, which reads chunk after chunk and
  keeps one per key, finds the chunk that `Kept` defines. `ReadMore` is what one
  more chunk does to that definition; `ScanIs` is the whole loop, again by the
  first place that would be wrong.
* `JournaledTable_proofs!TableIsDurable` (`Pace > 0` implies `SafeSpec =>
  ImplementsDurableTable`). `DInv` adds to the invariant of `FlushedSurvives`
  that the cache agrees with the table, that no chunk is newer than the clock,
  that two chunks of one key and one second exist only once the last flush of a
  sync has written the second (`PairsIn`), and that the newest chunk of a key
  that has a change in the cache is neither in the queue of unused positions
  nor another key's (`GuardedIn`). The last is what makes each crash harmless:
  what a start would find of a key is overwritten only by something newer of
  the same key. `TextLive` does the same for the text file, from its renaming
  to the new journal. `FlushedIsSafe` alone would not do: it speaks of records
  that left the cache, the refinement also of those which are still there.

* `Timer_proofs!SpecSlotsKept` and `SpecHandlesAreOwn`, for any owners, slots and
  clock. The invariant `IInv` is `Typed`, `Placed` (each slot in use is in one
  place), `InCall` (what the slot of the running timer may look like, also after
  its owner deleted it) and `Owned` (ids and owners match). `Placed` alone is not
  inductive: `Finish` gives a slot back only if nothing else has it.
* `Timer_proofs!SpecTypeOK`, `SpecHeapSorted`, `SpecCalledInOrder`, from
  `WindowAssumption`: `2 * (MaxStall + MaxDelay) < Mod`, and the range that
  `top_timer_heap` fixes is wider than the longest delay. The real constants
  satisfy it for waits of up to some days. `Timed` adds to `IInv` that each tick
  is `now + left` modulo the clock (`Clocked`), that `left` stays in its window
  (`Ranges`) and that the heap is sorted by `left`. `DiffTrue` is the heart: in
  that window the signed difference is the true one.
* `Timer_proofs!SpecSearchAgrees`, from the same invariant: the halving loops
  of `push_timer_heap` and of the search for a timer find, in every heap
  that can be, the place their definitions without a loop name. The loop is a
  recursive function of the two bounds; its value is determined because the
  distance of the bounds shrinks, and an interval of least length with a wrong
  answer is the contradiction.
* `Timer_proofs!SpecImplementsAlarms`: the refinement of section 4, a
  lemma per action, from the above and `Rings` (who is ringing remembers his
  timer or has deleted it).
* `Session_proofs`, for any number of clients, logins, characters, map servers
  and connections, in the whole of `Session`. The heart is a picture of a link:
  answers that are under way to a map server, followed by what it has said that
  is under way to the char server, form one queue, `Ring(m)`. The map server
  takes from its front and adds at its end; the char server replaces a message
  by its answer *where it stands*, or removes it. So everything about order can
  be said with three predicates, `Has`, `Alone` and `Before`, and each handler
  loses, turns or gains one message (`Loses`, `Turns`, `Gains`). The invariant
  `IInv` has three parts:
  - `Shape`, what always holds: types (`TypeCorrect`), `EntryIsHere` and
    `AuthIsEntry` (the entry in `id_db` is the account's first connection, and
    only that one is ever accepted), that sessions, clients and messages refer
    to what exists.
  - `Paths`, until `mixed` or `crossed`: a question whether a connection may
    enter is asked by the client whose login it names (`AskedByOwner`), once
    (`AskedOnce`, `AnsweredOnce`), and stands behind all that an older session of
    the account has said (`AsksLast`); what a session says when it ends comes in
    order (`Order`); a session that is not yet given up still has its client
    (`OwnerIsHere`, `AsksForItself`, `MoverStays`).
  - `Names`: whatever may become a player - an answer to the entered connection,
    an accepted session that is not waiting in vain, a save under way - is at
    the map server that the table names (`BusyIsOnline`), and an entry of
    `auth_fifo` for a map server cannot be used at another one meanwhile
    (`OneLogin`, `AttemptsFollow`).

  `OnePlayer` (`OnlyOne`) and `OnlineNamesPlayer` (`TableNamesPlayer`) follow from
  `Names`. For `NoGhost` (`NoGhosts`), `Unclaimed` is added: while the table names
  m, an accepted session is there, or an acceptance or a 0x2b18 is in `Ring(m)`.
  For `PlaysNewest` (`NewestIsPlayed`), `Newest`: of a character that is not
  played, the last save under way brings the newest state (`SavedNewest`) or else
  the file has it (`StoredNewest`), and no answer that lets a player in is older
  (`AnsweredNewest`).

  The attempt to prove `OnePlayer` as it stood found it false of the code for
  more logins than the run has: the last two observations on sessions in
  section 6. `mixed` names them now; in exchange `OnlineNamesPlayer` holds at any
  moment, and was stated before only for links without messages.

* `Exchange_proofs!SpecPartnersMutual`, `SpecNoDealInStore`,
  `SpecGoneLeavesNothing`, for any number of players, goods and parties and any
  bounds, in the whole of `Exchange`. The invariant `Sound` says in every state
  that who is gone has no shop and nothing attached (`GoneBare`), and, until
  there was a second invitation or a refusal with goods on offer, that partners
  are mutual, that who has a shop or is gone has no partner, and two things the
  properties do not mention: who has no partner has a blank deal (`Single`), and
  what somebody saw when he confirmed is still his partner's offer
  (`SeenStands`). A refusal clears the two partner fields but no offers, so it
  keeps `Single` only if the offers are blank. `AuthsRight` is the second part
  of the invariant: over the FIFO link, at most one login of a player is under
  way, and only of one who is away; otherwise `pc_authok` could blank the
  session of somebody who is trading. The only assumption is that `None` is no
  player.
* `Party_proofs!SpecNoDangling` and `SpecRequestsEnd`, for any number of players,
  parties and seats and any load of the link, in the whole of `Exchange`. Neither
  is inductive: what a copy may point to, and who may wait, depends on every
  message under way. The invariant `PInv`, on top of `Sound` and `AuthsRight`, is:
  - `PartyTypes` and `Proper`: messages tell of parties that were founded, and
    what the char server stores or sends names no session.
  - `EntersFirst`: no answer that makes somebody a member is behind his login, so
    a new session never gets the answers to the one before it.
  - `OneEntry`: who is not hurried enters one party at a time, and has none
    meanwhile. This is what keeps `sd[p].party` from changing under a seat that
    refers to p.
  - `Referred`: `NoDangling`, and that only seats of players refer to sessions.
  - `Ended`: the last word about a party that is gone is that it is broken, and
    "no such party" reaches a map server that has no copy any more, or is about
    to lose it. Without it a copy might come back after the end of its party, or
    go while somebody is accepted into it.
  - `Waiting`: who creates a party, or has accepted an invitation, has the request
    or its answer under way, or the party is over and the map server knows.

  Each message is taken from one queue, is answered by messages at the end of
  the other, or is lost with the link; `Flow` is what all steps have in common,
  and a lemma per part of `PInv` (`ProperKept`, `EntersFirstKept`, `EndedKept`,
  `OneEntryKept`, `WaitingKept`) says what a handler has to show of the messages
  it adds. Then there is one lemma per handler.

Only model-checked: `LockComesBack` and `DueIsCalled` (liveness under fairness,
out of the prover's reach), and the remaining properties of `Exchange`. Its
conservation laws are sums over folds and would need induction over data; its
`TypeOK` and `ShopIsBacked` need invariants of inventories, carts and lists of
goods, of which little is more than arithmetic; `OneParty` and `KnowsParty` name
five reasons of exception, and `CopiesAgree` compares a list with what all messages
on their way would make of it: each needs an invariant of the size of `PInv`.

## 6. What is not modelled

* Guild storage: the break-up of a guild (when the last member leaves,
  `int_guild.c:689`; `guilddb_delete` deletes the storage too,
  `guilddb_txt.c:580`): the guild of the model has members who do not play. Also
  the guild's castles, the personal storage's
  own protocol, the limits of slots and weight, the inventory on the other side
  of a move (it is saved with the character), bytes of a dropped connection that
  arrive after it was replaced, the death of a map server process, clients that
  send packets no client sends.
* Journal: crashes of the machine (`fsync` is not called, so nothing can be
  promised), checksums that match by accident, a clock that is set back, a
  journal that lives longer than the 24 days of a tick difference, a full disk
  that shows only when the stdio buffer is written out, a truncated text after a
  failing `fclose` (`lock.c:57`), and a sync after a roll-forward that cannot
  write. `QuitUnsynced` and `CrashInGap` are in `Spec` but not in `SafeSpec`:
  after them no refinement can hold.
* `gstoragedb_txt_save` writes into the journal of the *personal* storages
  (`storagedb_txt.c:416`); the model has one table with a journal of its own.

* Goods and exchanges: equipment (which does not stack), bound items, the
  distance between players and open storages (left open at each test of them),
  what the client is shown, the texts, dates and read flags of mail, notices of
  new mail. `MAX_AMOUNT`, weight and purse limits are modelled.
* Parties: names, levels, options for experience and items, positions, the
  second call of `party_send_movemap` at a level-up (`pc.c:4737`), the booking of
  parties, parties over several map servers.
* Session: passwords and bans, several char servers, the creation and deletion
  of characters, a link that stays down, more than one account. `Accept` leaves
  out two things that `pc_authok` does. It calls `pc_setpos` with the stored
  `last_point` (`pc.c:1490`); if that is a map of another server by now, the
  player is saved and sent on at once (`pc.c:3108-3134`). The model lets him in,
  and sends him on with `MoveServer`, whose steps these are. This arises when a
  second client chose the character before the first one's hand-over was stored;
  the run reaches it in its first scene, but there no second move is left to send
  him on. With two moves in that scene all properties hold as well (9,644,028
  states; too many to be run each time). And `pc_authok` overwrites
  `sd->status` before it compares the character (`pc.c:1335`, `1338`); the two
  differ only when the answer was meant for another connection, that is, once
  `mixed` holds.
* Timers: the cache of `gettick`, the growth of the arrays, data freed at exit.
* Other components: see `PROJECT.json`. Combat, skills, status changes, monsters
  and the client protocol are most of the lines of the repository; they are
  formulas, tables and packet layouts run to completion by one thread, and the
  interleavings they add are those of the handlers that are modelled.

The exceptions that a property names are events, and from such an event on it says
nothing of what the event touched. So of some hazards only the other cases are
covered, and the event itself is stated below instead of excluded: the second
invitation of `trade.c:72` (`crossed`), the late report of `char.c:2845` and the
misgiven answer of `pc.c:1318` (`crossed`, `mixed`), an acceptance that finds
nobody (`abandoned`), two answers to one player (`hurried`), the check before the
list (`early`) and the leader who left meanwhile (`skewed`).

Observations, each found as a counterexample and now an exception that a property
names:

* Trade: a requester with an open invitation can invite another player
  (`trade.c:72`); a refusal leaves offers standing; one slot can be offered in
  two entries. `pc_checkadditem` compares nameids only, so a variant with other
  cards is counted as joining a stack and then does not fit.
* `buyingstore_sell` ignores what `pc_payzeny` answers (`buyingstore.c:574`): an
  owner who has mailed his zeny away gets goods for nothing, and the seller zeny
  nobody paid.
* A broken link brings players back as last saved: what they gave is theirs
  again, what they got is gone. That is inherent in the design and bounds what
  conservation can say.
* Party: `party_invite` does not look at `party_creating` and nothing looks for
  requests under way, so a player can become a member of two parties; then
  `member[].sd` of one refers to a session of the other. `party_created` for a
  player who is gone leaves a party whose member does not know it.
  `party_check_member` between the answer and the list expels a member on the
  map server alone. `party_member_added` returns early when the party is gone,
  and the invitation stays. A leader who leaves has no successor; a change of
  leader to somebody who has left deposes the old one on the char server only.
  A party whose leader has left and whose list is full has none, and then the map
  server, which looks for an old leader of account 0 (`party.c:1058`), finds no
  row and goes on without a leader. This needs more messages on
  the link than the run has; `skewed` did not name it before `CopiesAgree` was
  prepared for a proof.
  `mapif_parse_PartyAddMember` enters a member a second time if a free seat
  precedes his own. A logout save can overwrite the cleared `party_id`. A list
  that a broken link left stale expels real members.
  `mapif_parse_BreakParty` calls `mapif_party_broken` with swapped arguments,
  but nothing sends that message.
* Session: an offline report is believed whatever server it comes from
  (`char.c:2845`); an acceptance names only the account and is given to whatever
  connection is entered (`pc.c:1318`); one that finds nobody leaves the account
  in `char_online_db` (`pc.c:1323`); a refusal carries 16 bits of the account
  number and may miss it (`char.c:2628`). Two consequences need more logins than
  the run has, and were found as counterexamples of a proof attempt: of three
  connections of the account at one map server, the "ok" meant for the second
  can be given to the third, whose own entry was never checked (`pc.c:1318`, four
  logins); the login server's answer 0x2713 names only the account, and the char
  server gives it to the first of its connections that matches
  (`char.c:1814-1836`, three logins), so that an older client goes on as the newer
  one.
* Timers: the fix in `top_timer_heap` (`timer.c:283`) takes timers latest-first
  for the moment ticks wrap around, and signed differences would do without it;
  a timer deleted by its own call loses its slot (`timer.c:378`).

Other observations made while modelling the guild storage: a session that left its guild keeps
`gstorage_lockreq` when the answer finds the mismatch, and cannot ask again
before it logs in anew; a player who waits to be deleted and is opened by a late
answer keeps the lock until the deadlock timer; an NPC timeout parks a grant for
a later dialog; `chrif_disconnect` drops the caches, which is what makes the
reuse of a socket number harmless for `last_fd`; a map server without the
guild's data answers no deadlock check; and a load for a guild it does not know
(`storage.c:587`) opens nothing and gives nothing back, which needs a member who
asked for the lock but not, before, for the data: the model has the test and never
gets there.

## 7. Mutants

Every property of a passing run has a mutant: a plausible bug in one mapped
definition that makes the run fail.

| property | bug |
|---|---|
| `MutualExclusion` | a held lock is granted again |
| `LastFdIsCurrent` | closing does not save |
| `OpensFresh` | an answer never asks for a reload |
| `ImplementsLockedStorage` | the unlock overtakes the save |
| `TypeOK` (guild) | the lock counts its holders |
| `LockComesBack` | the check believes the cached `storage_status` |
| `TypeOK` (journal) | the -1 of a key without a chunk is queued |
| `FlushedIsSafe` | a position stays in the queue after it was taken |
| `ScanFindsNewest` | a chunk of the same second replaces an earlier one |
| `ImplementsDurableTable` | a chunk is overwritten in place |
| `TypeOK` (exchange) | a slot that is used up keeps its nameid |
| `PartnersMutual` | the invited player may have a partner |
| `NoDealInStore`, `GoneLeavesNothing` | a shop that opens, a player who leaves, does not end the trade |
| `ShopIsBacked` | the cart is open to the owner of an open shop |
| `ExchangeAsAgreed` | the offer is open until the second confirmation |
| `PurchaseAsShown` | all shops have one id |
| `SaleAsShown` | the store's id is not compared |
| `ItemsNotCreated` | a purchase is compared with the list that was shown |
| `ItemsNotLost` | a purchase counts no slots |
| `ZenyConserved` | the buyer's purse is not looked at |
| `AttachmentTakenOnce` | the char server is not told that the attachment is taken |
| `OneParty` | members already seated count as listed, others not |
| `KnowsParty` | nobody is checked against the first list |
| `CopiesAgree` | the old leader stays one on the char server |
| `NoDangling` | copies keep the session of who logs out |
| `RequestsEnd` | a refusal keeps the invitation |
| `TypeOK` (session) | the result of `map_id2sd` is not looked at |
| `OnePlayer` | 0x66 does not look at the online table |
| `OnlineNamesPlayer` | connections that were never accepted report offline, too |
| `NoGhost` | sessions already saved do not report offline |
| `PlaysNewest` | a session is saved again when its client is gone |
| `TypeOK` (timers) | `DIFF_TICK` without the cast to int |
| `SlotsKept` | a deleted timer's slot is free at once |
| `HandlesAreOwn` | the slot that has been free for longest is used |
| `HeapSorted` | a postponed timer keeps its place |
| `SearchAgrees` | the halving loop's test is strict |
| `CalledInOrder` | the heap is sorted the other way round |
| `ImplementsAlarms` | a timer is due a tick early |
| `DueIsCalled` | the heap is read from the wrong end |

## 8. Plan

What would be next, in this order:

1. **Guild membership**, after the model of `Party`: `int_guild.c` differs in
   that members keep a position and that the char server sends each change by
   itself; then the break-up of a guild that has a storage.
2. **Journal, further.** Two tables over one journal file, as
   `gstoragedb_txt_save` has it (`storagedb_txt.c:416`).
3. **Session, further.** Several char servers, and a link that stays down.
4. **Party, further.** `OneParty` and `KnowsParty` as theorems, from `PInv` and
   what the seats of the char server and the stored records say of each other.
