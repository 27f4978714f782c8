# A TLA+ model of BAT

BAT is an iOS news reader (Swift, `src/BAT/BAT`): it lists articles of newsapi.org,
filters them by source or section, searches them, and keeps each account's favourite
articles and notes in a Firebase Realtime Database. This directory models the parts of it
that keep and exchange state, and the two vendored pods whose C and C++ is in the repository
in full, LevelDB and nanopb. It checks them with TLC on small instances, and proves some of
the results for every size with TLAPS.

Paths below are relative to `src/BAT/BAT/` (`Pods/` to `src/BAT/`).

## 1. The system

| Part | State | Operations | Talks to |
|---|---|---|---|
| **Model** (`Model/User.swift`, `Article.swift`, `Note.swift`) | a `User` object: ID, favourites, notes | `init(dictonary:)`, `convertToDictonary()`, `appendNewNote`, edits of the arrays | read and written by every controller |
| **CheckUserService** (`Service/`) | none of its own; the closures it registers capture the `uid` | `forceChechUser`, `passiveCheckUser`: observe `users/`, then `users/uid`, or create the account | database, the completion of its caller, the login screen |
| **Home** (`ViewController/Home/HomeTableViewController.swift`) | `loggedUser`, `articles` and their flags, `selectedSource/Section`, the session button | `getData`, pull to refresh, `toggleFavorite`, `logOutTapped`, `motionEnded`, `viewDidAppear` | news service, database, filter (which holds a reference to it) |
| **Filter** (`FilterViewController.swift`) | `sourcesForTableView`, `oldIndexPath`, the checkmarks of reused cells, what is selected | picker, row selection, scrolling, `saveTap`, `cancelTap`; its `viewDidLoad` signs the user out | Home, session, news service |
| **Favorites** | `articles` of the table, `loggedUser` | `getFavorites`, `removeFavorite`, pull to refresh, the check at each appearance | database, CheckUserService |
| **Search** | `articles`, `loggedUser` | `whoIsLoggedIn` (one single event, at load), `getData`, `toggleFavorite` | database, news service |
| **Notes** | `notes` of the table, `loggedUser` | `getNotes`, `saveMessage` | database, CheckUserService |
| **ArticlesService / ArticlesDAO** | one request each | `getArticlesFromAPI`, `getArticlesBySearch`, `getSourcesFromAPI` | news service |
| **Firebase client** (`Pods/FirebaseDatabase`, vendored) | observers, cache, unacknowledged writes, callbacks dispatched to the main queue | `observe`, `observeSingleEvent`, `setValue` | server |
| **LevelDB** (`Pods/leveldb-library`, vendored) | log files, tables, MANIFEST and CURRENT; memtables, versions, snapshots, the queue of writers, caches | `Put`/`Write`, `Get`, iterators, flush and compaction in the background, `DB::Open` after a crash | environment (files); the Firebase client's `FLevelDBStorageEngine` |
| **nanopb** (`Pods/nanopb`, vendored) | a stream and a struct, for one call | `pb_encode`, `pb_decode` | binary pods only |
| **AppDelegate**, login screens, cells, `ForYou`, `EditNote`, `AccountService` | session in the keychain, layout | start-up, layout, templates | - |

How they interact. No controller holds the data: each keeps **its own `User` object**, and
each edit uploads **the whole record** `users/<ID>` from that object with `setValue`. The
only thing that keeps the objects equal is the observers the account check registers, which
replace a controller's object at each value of the record. The observers are never removed.
Search has no observer: it reads the record once.

LevelDB is the engine the Firebase client persists with when persistence is enabled. The app does
not enable it, so the two halves meet nowhere in this project: what LevelDB promises is checked by
itself. Inside LevelDB, `DBImpl` orders the writes and owns the threads; `VersionSet` keeps which
tables are in which level; the log format carries both the writes and the edits of the versions; the
memtable is a skip list; tables are read through a cache; and iterators merge all of it.

What is hard here:

* *stale copies*: an edit starts from a copy that another screen's upload may have aged;
* *order of callbacks*: the value of `users/`, that of `users/uid`, local events of a write
  and first answers reach the main queue in several orders, and taps come between them;
* *observers that outlive the session*: logout, the filter's sign-out and another login leave
  the captured `uid` at work;
* *the empty list*: the database keeps none, and `?? [[:]]` reads an absent one back as one
  entry of defaults;
* *restarts and lost network*: persistence is not enabled, so unacknowledged writes are lost;
* *requests answered in any order*: every answer replaces the table;
* *cell reuse* on the filter, where the checkmark lives in the view;
* *LevelDB's threads*: writers are grouped by the first of them; a flush is done in the middle of
  a compaction; readers hold old versions, and search the skip list without a lock;
* *LevelDB's crashes*: the process or the machine may stop between the log, the table, the MANIFEST,
  CURRENT and the deletion of files, and a file operation may fail;
* *both directions and boundaries* in iterators, index keys, blocks and fragments.

What makes each part correct:

* *Model*: conversions and edits change what they say and nothing else.
* *Account check*: an account is created only when it is missing, and is stored in the end;
  afterwards the controller's copy is the record.
* *Home, Favorites, Search, Notes*: what the screens upload amounts to single edits of what
  is stored; the row the user touches is the entry that changes; nothing traps; the session
  button shows the session.
* *Feed and filter*: one parameter in a request, a table that shows what is selected, a
  checkmark that shows what Save sends.
* *LevelDB*: reads are those of a map with snapshots; a synced write survives every crash, one
  that was not synced is either in the store or never comes back; no file in use is deleted; no writer
  waits for ever; a cursor shows each key once, in order, both ways.
* *nanopb*: what was encoded is what is decoded, in a type of another age as well.

## 2. Modules

| Module | Models | 
|---|---|
| `UserRecord` | records, `User` objects, the conversions between them with their default entries, the edits of the lists |
| `FirebaseClient` | the database client, as operators on a record: `Observe`, `SetValue`, `Answer`, `Ack`, `Take` |
| `BatApp` | the app over that client: tabs, modals, session, checks, favourites, notes, callbacks, network, restarts |
| `Shelf` | abstract specification of a stored record: created empty, then one edit at a time |
| `BatAppProperties` | the properties of `BatApp`, among them that it implements `Shelf` |
| `SourceFilter` | the filter screen with its reused cells |
| `HomeFeed` | the news of Home over that filter: requests, answers, failures, shake |
| `VersionSet` | LevelDB's levels: where a flush goes, what is compacted, what a merge drops, how a key is read |
| `SnapshotStore` | abstract specification: a map with snapshots, whose values change only by a write, which is counted |
| `VersionSetProperties` | the properties of `VersionSet`, among them that it implements `SnapshotStore` |
| `DBImpl` | LevelDB's writers, log, memtables, background thread, MANIFEST, deletion of files, failures, crashes, `DB::Open` |
| `DurableStore` | abstract specification: a store that outlives crashes |
| `DBImplProperties` | the properties of `DBImpl`, among them that it implements `DurableStore` |
| `LogFormat` | `log::Writer` and `log::Reader` |
| `SkipList` | the memtable's list, pointer by pointer |
| `Iterators` | `MergingIterator` and `DBIter` |
| `Table` | `TableBuilder`, blocks, filters, the two-level iterator, `InternalGet` |
| `Cursor` | abstract specification of an iterator, which `Iterators` and `Table` implement |
| `LRUCache` | one shard of the cache |
| `Protobuf` | nanopb's `pb_encode` and `pb_decode` |
| `MCBatApp`, `MCHomeFeed`, `MCParts` | small instances for TLC |
| `DBImplInvariant`, `VersionSetInvariant` | the inductive invariants of `DBImpl` and `VersionSet` |
| `BatAppProofs`, `HomeFeedProofs`, `StructuresProofs`, `TableProofs`, `IteratorsProofs`, `DBImplProofs`, `VersionSetProofs` | theorems and their proofs |
| `Extrema` | lemmas: least and greatest members of finite sets, induction over the naturals, the turns of a loop |

`BatApp` EXTENDS `FirebaseClient`, which EXTENDS `UserRecord`; `HomeFeed` EXTENDS
`SourceFilter`. The two halves of Home share no state that matters to either: in `BatApp` an
answer of the news service is the action `FeedArrives`, which may bring any articles at any
time, and in `HomeFeed` there is no session. LevelDB is cut where its own interfaces are:
`DBImpl` has writes that are numbers and two levels, and asks what survives; `VersionSet` has keys,
sequence numbers and snapshots and no files, and asks what is read; the modules below them take what
they are given. `MCParts` runs those one at a time: its variable `part` says which one moves, and
the states it reaches are the sum of theirs. A definition whose comment begins with "Mutant" is a
wrong version of the one after it; no specification uses it. Each shows that a property can tell the
code from a plausible bug.

### From code to model

* A **main-thread turn** (handler or callback) is one action, uploads and registrations
  included. The exception is the loop of `toggleFavorite`, which uploads once per removed
  entry: `LoopRemoves` is a turn of it, and while it runs (`loop # NoLoop`) no other
  main-thread action is enabled; the server may act in between.
* A **view's load and appearance** are part of the action that brings it: `SelectTab`,
  `Dismiss`, `Launched`.
* A **callback** is an event of `client.queue`, a sequence of batches: a batch is what one
  change fires. `Deliver` runs one event of the first batch. Within a batch, observers of
  `users/uid` run before those of `users/`, as in `FSyncTree`; the order of observers of one
  path is left open, since it comes from a hash table.
* `Observe` answers from the cache when the value is complete (a first answer received, or an
  own write waiting): the event is queued at once. `Fired` is the rule that a value event needs
  a change or a value that was not complete.
* A record's `favorites` and `notes` are sequences; `<<>>` is an absent child. `FromDictionary`
  puts the default entry (`NoData`, `NoNote`) in its place, as `User.init(dictonary:)` does.
* Two registrations of one closure for one account differ only in number. They are kept apart up
  to `MaxSame`; one more is taken for the first of them.
* `HomeFeed.Completion` replaces the table; `Failure` is a response without articles, after which
  the completion is never called. In `SourceFilter`, rows count from 0, as in the code; `ticked`
  is the set of rows on screen whose cell has the checkmark, plus the one cell of row 0, which
  `cellForRowAt` never configures.

For LevelDB and nanopb:

* In `DBImpl` a **step** is what a thread does between taking the mutex and giving it up, or one file
  operation without it: the front writer's append, sync and insertion are three, so that a flush, a
  second writer or a crash comes between. Some are taken together: a table is built and synced; the
  MANIFEST is synced and the version installed; a log is replayed and made a table. `DB::Open` has a step for each log,
  for the new log, for the new MANIFEST, and for CURRENT with the deletion of files.
* A **file** is what was appended to it and how much of it is synced. When the process dies, all that was
  appended stays; when the machine stops, each file keeps any prefix that has the synced part.
* `compaction`, `edit`, `group` are empty or have the one that is in progress, with its step. What a
  thread keeps in local variables while it works without the mutex is a field of it.
* `VersionSet` has two steps per compaction, its choice and its result, since writes, snapshots and flushes
  come between. Sizes in bytes are not there: where a size is compared with a limit (seek
  compactions, the score of a level, grandparents, the end of an output), both outcomes are possible. `Get` searches as
  `Version::Get` does and finds what the search finds.
* `SkipList` has a step per pointer that is published and per pointer that is read. A pointer not yet set
  is `Garbage`.
* In `LogFormat` a fragment is its place, type, length and record; cuts and damage are quantified over in
  the properties, which run the reader on each. The loops of `AddRecord` and of `ReadRecord` are functions from the number of
  turns, as many as the record has bytes and one, or the file fragments and one; a loop that is done stays where it is.
* In `Table` keys are byte strings, because what could be wrong is the separator between two of them.
* In `Protobuf` a byte is the set of its bits: lengths and tags, and numbers of several bytes, come out of the encoding
  as in the code. A frame of `stack` is a call of `pb_decode_noinit`.

### Assumptions about what is outside

* The client is the only writer of the records it shows; security rules (not in the repository)
  let it read and write. Accounts have an email (`user.email` is not nil).
* `NetworkReachabilityManager().isReachable` and the database's connection agree (`online`).
* The server serves requests in order: a write is acknowledged after the listens made before it
  are answered. `ServerAcks` waits for all the outstanding listens, which is a little stronger.
* Calls into the client are asynchronous in the code (its own serial queue). Here they are
  atomic: only the order of the events they produce can be observed, and that is the queue's.
* Source ids of the news service are different from each other and not empty.
* Creating, renaming and deleting files are durable at once and in order (LevelDB syncs the directory
  before a MANIFEST's sync, and relies on the rest). A `Sync` that fails may have
  synced or not; an append that fails wrote nothing.
* The database exists: `NewDB`, which writes a MANIFEST without syncing it before CURRENT names it, is not modelled.
* A memory location read by a lock-free reader has some value that was written to it; those read with acquire see
  what was written before the release.

## 3. What is checked

| Run | Instance | Shows |
|---|---|---|
| `Screens` | one account, Home + Favorites + Notes, 2 edits, restarts; the record absent, empty, or with an entry saved twice and a note | `TypeOK`; `CopiesAgree`: once callbacks have run every observing screen has the record; `UploadsAreEdits`: the server's records implement `Shelf`; `IconMatchesSession`; `RemovesTheSwipedRow`; `UnfavoriteIsComplete` |
| `Interleaved` | one new account, Home + Search, 2 edits, taps while a batch of callbacks waits, closures registered twice, network lost and back | `CopiesAgree`, `SearchReadsOnce` |
| `Accounts` | two new accounts signed in one after the other, Home + Notes, 2 edits, with fairness | `CopiesAgree`, `UploadsAreEdits`, `CheckedAccountIsStored`, `SavedNotesAreShown` |
| `Feed` | three sources, one section, two rows on screen, two requests waiting, failures, answers of 0, 20 and 21 articles, with fairness | `TypeOK`, `OneParameter`, `TickedSourceIsSelected`, `TableIsTheSelectedFeed`, `SelectedFeedIsShown` |
| `Levels` | two keys, four writes, three levels, a snapshot at the second write | `TypeOK`; `LevelsDisjoint`; `EntriesNeverHop`: what `Version::Get` rests on; `ReadsAreSnapshots`: the tree implements `SnapshotStore`; since `last_sequence_` is its count of writes, a flush, move or merge must leave what every key has now as it was, and not only what a snapshot has |
| `Store` | three writes, sync or not, two crashes, one failed file operation, one reader of an old version, a table per write, with fairness | `TypeOK`; `AckedWritesAreRead`; `SequencesFollowWrites`; `NeededTablesExist`; `SyncedWritesSurvive`: `DBImpl` implements `DurableStore`; `WritersReturn` |
| `Parts` | the modules of LevelDB's parts and nanopb, one at a time; of nanopb, messages that have not both the same submessage in a union | cache: `EntriesLiveAsLongAsNeeded`, `UsageIsCharged`, `OverCapacityOnlyInUse`; skip list: `SearchStaysInTheList`, `SearchFindsWhatWasThere`; log: `CutFileReadsWhole`, `OffsetReadsTheRest`, `DamageIsContained`; iterators: `IteratorIsCursor`; table: `TableIsCursor`, `GetFindsTheNewest`; nanopb: `DecodesAsMerge` |

Bounds.

* `MaxTaps` counts edits. Two are what the hazards need: one screen edits, another edits from its
  own copy. `RemovalTraps` has three.
* `MaxBacklog` is the number of batches that may wait when the user acts. 0 means the user lets the
  screen settle between actions; the callbacks, the server, the network and restarts still
  interleave freely. With 1 or more, taps come in the middle; `Interleaved` and
  `LateCreation` have it. **`UploadsAreEdits` holds with 0 only**: `LateCreation` is the
  counterexample for more.
* `MaxSame` is 1 or 2: a second registration repeats the callbacks of the first.
* One article is enough for the lists: what matters is whether entries are equal, absent or default.
  `Accounts` has none: there the edits are notes. Restarts are in `Screens`, the network in `Interleaved`.
* `TableIsTheSelectedFeed` and `SelectedFeedIsShown` are about a request made with none waiting
  (`latest = "alone"`); what is asked before and after is free.
* `RowsOnScreen = 2` of three sources makes a cell be reused and row 0 leave the screen; the theorems
  have no bound. Answers of 20 and 21 are the two sides of the shake's last index.
* `Search` is left out of `Screens` because with it `UploadsAreEdits` does not hold (`NotesLost`).
* `Levels`: two keys give tables that overlap and tables that do not; four writes give two
  flushes with a merge between, entries that a merge drops and tombstones over them, with one write after the
  snapshot. Three levels let a table move twice. Two conditions
  are fixed, and without either the properties fail (`Hop`, `Overlap`): an output does not end between two entries of one
  user key (`SplitKeys = FALSE`), and `CompactRange` is not called (`Manual = FALSE`). The loop of `GetOverlappingInputs`
  that widens level 0 a second time needs five writes and is not reached.
* `Store`: with `WriteBuffer = 0` each write fills a memtable, so that three of them have a log with records, an immutable
  memtable and tables of both levels. Two crashes are a crash and one in the recovery after it. `MaxEvents = 4` bounds writes,
  crashes and failures together. `CompactionTrigger = 1` makes a compaction wait behind every flush; two tables in
  level 0 with a third write waiting stop the writers only with more writes than these, so the stop at `StopTrigger` is modelled and not reached.
* `Parts`: capacity 2 with charges 1 and 2 and three handles (an entry larger than what is left, all held, a key
  replaced while held); three keys of height up to two (an insertion linking above and below a search); blocks of 8
  with headers of 3 and records of 0 to 13 (every size of trailer, fragments that are empty, a record of three blocks); two
  children with three entries of two keys (every turn on every side); tables of three entries whose keys force
  each case of the separator, with restarts inside and outside a block and filters of one block, several and none;
  messages of one and two bytes per number, negative ones, empty and absent fields, two of them in a row, into five types.

Fairness (`FairSpec`). Weak fairness on `Deliver`, `LoopRemoves`, `LoopEnds`: the main queue runs what
it is given. On `ServerAnswers`, `ServerAcks`: the SDK keeps its connection and resends until served.
In `HomeFeed`, on `Answer(1)`: a request that does not fail is answered. In `DBImpl`, on `WriterStep` (the
front writer's thread runs when it is not waiting) and `BackgroundStep` (a scheduled call runs): each thread
that can go on does, and file operations return. Nobody is obliged to write, read or crash; nor is the user of the app
obliged to do anything. Deadlock is not checked: an idle app with no edits left, or one that has
crashed, stops; a store with all its writes made, or a log at its last record, does too.

### Where the code does not do what it says

Each of these runs looks for one statement of the code's comments and ends in a counterexample.

| Run | What happens |
|---|---|
| `NotesLost` | Search keeps the object of its single event. A favourite marked there uploads it whole, and the notes saved on Notes since are erased. |
| `RemovalTraps` | An account without favourites shows the default row. Removing it uploads an empty list; the record does not change, so no callback refreshes the table, while the object's list is now empty. Swiping the row again calls `remove(at: 0)` on an empty array. |
| `LateCreation` | Two checks (launch, and a tap) see `users/` without the account. An edit lands between their callbacks; the second writes the empty record over it. |
| `Hop` | A merge closes its output (size, or too many grandparents) between two entries of one user key. Two tables of a level then meet in that key, the next compaction takes the one with the newer entry, and it goes below the older one: a read finds the old value. It needs an entry kept for a snapshot. |
| `Overlap` | While a manual compaction merges two tables around a gap, the memtable is flushed in the gap, and `PickLevelForMemTableOutput` puts it into the level the merge will write to: the merged table and the flushed one overlap. |

What the models show besides, with no run spent on it:

* Search: `whoIsLoggedIn` flips a flag once per entry, so an article saved twice is shown as not
  saved. Until the single event arrives, and for good when the login is made after Search was loaded, a
  tap takes the branch for new accounts and overwrites the record.
* Filter: `cellForRow(at:)` is nil off screen and row 0 is never configured, so "All sources" keeps its
  checkmark beside another row's. `sources[0]` has no row, since row 0 stands for all.
* Home: a shake draws an index from 0...20 and traps on a table with fewer articles, which each has until its first answer, and
  after a short one (`Shake`). With two requests waiting the answer that comes last stays in the table; after a logout a late
  callback gives Home its user back. With two accounts it gives Favorites the object of the first over the rows of the second, so
  that a swipe edits the first account's record at that position. Favorites presents the login again each time it appears, also after a cancel.
* Log: a reader that starts inside a record of several blocks reports its middle fragments as corruption, although
  nothing is; a damaged length in the last, short block ends the file silently. With `reuse_logs` (not the default) a log
  is continued after a torn tail and the rest of that block is lost to the next reader. An append that fails
  half-way tears the log for the writes after it.
* DBImpl: a flush request (a write without a batch) may be absorbed into another writer's group. A machine
  that stops may lose the unsynced tail of an older log and keep synced writes of a newer one: only the synced are promised.
* nanopb: the wire type of a known field is not checked. A static submessage of a union that comes twice is not merged:
  `pb_release_union_field` keeps the first because, says its comment (pb_decode.c:1113, compiled in by `PB_ENABLE_MALLOC=1` in
  `nanopb.xcconfig`), "old data is of same type => merge", and `decode_static_field` (461 to 469) then resets it, so that what only
  the first had is lost. `Merge` is as the comment has it, and `DecodesAsMerge` says nothing of such a pair (`UnionTwice`).

## 4. What is proved

`BatAppProofs`, for any accounts, articles, notes, tabs and bounds:

* `TypeCorrect`: `Spec => []TypeOK`. `TypeOK` is not inductive: a turn of the favourites' loop edits
  `loggedUser[loop.vc]`, which must not be Nil. `LoopHasUser` says so, and holds because no
  other main-thread action, a logout among them, runs while the loop does. The proof goes by one lemma per client
  operator (`ObserveType`, `SetValueType`, ...), then one step per action.
* `IconCorrect`: `Spec => []IconMatchesSession`. It is inductive by itself: the session changes
  without a refresh of the button only in `OpenFilter`, which leaves a modal up, and every way out of a modal or back to Home
  passes through `viewDidAppear`.
* `CopiesCorrect`: `Spec => []CopiesAgree`, for any backlog of callbacks, loss of the network and restarts. The property is about the states in which every callback has run; `CopyInv` says what
  the callbacks that wait will do. `EventsSound`: the last event that waits for an observer carries what the client
  shows now, so that an older value delivered late is followed by the current one. `Accord`: a screen that waits for nothing
  has what the client shows. `ObserversSound` is what both rest on: an account is observed only after the check has read
  the whole of `users/`, so from then on every change of the view fires every observer of the account. One lemma (`GrowthKeeps`)
  covers registrations, writes and answers, which all add a batch for some observers; `TakeKeeps` is the delivery of an event.
* `SwipedRowCorrect`: `Spec => RemovesTheSwipedRow`, where `MaxBacklog = 0` and there is one account. Two more parts of
  `CopyInv` carry it, for any backlog and accounts: `Shown`, the rows of Favorites are those the client shows of some account, or wait
  for a value of it; and `Observed`, Favorites has an object with favourites only through an observer of the check. Both conditions are needed: a second
  swipe before the table was told of the first uses a position of the old rows; and after a login with another account, a late first answer to the observers
  of the account before leaves its object in Favorites under the rows of the new one, also with the network up.
* `SearchReadsOnceCorrect`: `Spec => SearchReadsOnce`, an action property, from the same invariant: no observer of an account is Search's.
* `UnfavoriteCorrect`: `Spec => UnfavoriteIsComplete`, from `TurnsLeft`: the turns the loop has left are the entries of the article
  that the list has left. It counts its turns before the first removal, and nothing else edits the list meanwhile.

And in the same module, under the same assumptions and two more, `MaxBacklog = 0` and `"Search" \notin Tabs` (the runs `LateCreation` and
`NotesLost` show that neither can be dropped):

* `UploadsCorrect`: `Spec => UploadsAreEdits`, the refinement of `Shelf`, with kills, losses of the network and callbacks at any time. An
  upload carries the screen's whole record, and the server receives it later, one after another. `SentAreEdits`: there is a list of
  states, from what the server has to what the client shows, of which each is the one before with a write not yet received, and that write
  is one edit. The end of that list grows with an upload, its beginning goes with an acknowledgement, and nothing else touches it.
* That an upload is an edit of what the *client shows* comes from `CopiesAgree` in a settled state, if the screen does observe the
  account: `Attended`, a screen with an object observes its account or waits for the check that will make it so.
  `MissingAreSound` is the creation of an account: who is yet to be told that it is missing writes an empty record over a missing
  one, or over the empty one just created, never over a record with something in it. `LoopSound` keeps this through the turns of
  `toggleFavorite`, which runs before any callback.
* What an edit of a list with default entries does to the list without them (`KeptAppend`, `KeptDefault`, `KeptRemoval`) is proved for lists of any
  length by the induction over the naturals in `Extrema`.

`HomeFeedProofs`, for any list of distinct sources, sections, height of screen and answers:

* `TypeCorrect`; `OneParameterCorrect` (inductive with the types: the alert of `saveTap` is the
  only guard it needs).
* `TickCorrect`: `Spec => []TickedSourceIsSelected`, from `TickInv`: the row selected last is a row
  of the table, what Save would send is its source, and of the cells on screen except row 0's its own
  alone is ticked. `SourceOfInjective` turns rows into sources.
* `TableCorrect`: `Spec => []TableIsTheSelectedFeed`, for any number of requests. `TableInv` adds what is true while the answer
  is on its way: a request that was made alone is the only one waiting, and is for what is selected.

`StructuresProofs`, of the cache, for any keys, addresses, charges, capacity and handles:

* `CacheCorrect`: `Spec => []CacheInv`, the conjunction of `Counts` (a reference count is the handles of the
  entry, and one more for the cache), `Found` (the table finds exactly the entries with `in_cache`, each by its own key) and
  `Listed` (the LRU list has once each the entries that only the cache holds). None of the three
  is inductive alone: `RemoveOldest` finds the entry by the key of the list's head and frees it if its count is one, which
  is right because the list has only entries of the table that nobody holds.
* `EntriesCorrect` and `OverCapacityCorrect` follow. `Without`, `Ref`, `Unref` and `FinishErase` have their
  lemmas; `AgreeLookup`, `AgreeRelease`, `AgreeErase`, `AgreeInsert` say what each call does to the three parts.
* `UsageCorrect`: `Spec => []UsageIsCharged`, a sum over a set. The sum is the fold of the community modules; `SumExists` and
  `SumsAgree` show that it is the same in whatever order it is taken, and `TotalWithout` what removing one entry does to it.

And of the skip list, for any number of keys and any heights, with one insertion and one search at a time, each at any of its steps:

* `ListInvCorrect`: `ListSpec => []ListInv`. `Sorted`: a pointer of a node that is on a level goes to the next node of it. `Nested`: a
  level is part of the one below. `Inserting`: the node is linked on the levels below the insertion's, and above these the
  `prev` found at the start are still right, because there is one writer. `Searching`: the search is on a node of its level, before its target.
* `SearchStaysInTheListCorrect` and `SearchFindsCorrect`. That the search may start from a `max_height_` of any age is
  in the model: it begins on any level up to it.

And of the log, for headers of any size, blocks of any larger size, and records of any lengths, also when a writer goes on with a file:

* `LogCorrect`: `LogSpec => []LogInv`. `Laid`: each fragment is in one block and where the one before leaves off, or at the next block
  where that leaves no room for a header. `AtEnd`: `block_offset_` is right modulo the size of a block (it may be a whole block, after a fragment
  that ends one, and zero for a writer that reopened the file there). `Recorded`: each record's fragments, from its first byte to its last.
* `CutFileCorrect`, `OffsetCorrect` and `DamageCorrect` have one proof. `Readable` says of the file alone which fragments are to be read: not before
  the offset, not cut, and no bad one before them in their block. `ReadIs`: what is read of a file is the records of which every
  fragment is readable, in order. For that `Reading` is kept by each turn of the loop: the reader is at a place (`Place`: at a block's end, at a
  fragment, or at the end of the file) with k fragments behind it; it has found the records that are complete with these; of the last one it has the pieces if all
  are readable, and else nothing; and while it skips to the first beginning it has no pieces. `TurnEof`, `TurnBad` and
  `TurnFragment` are the three outcomes of `ReadPhysicalRecord`, and each but the last makes k larger (`OneTurn`), so that `Len(fragments) + 1` turns are enough.
* `FirstBlockIs` is why a search that begins at a block misses nothing: where the next block is taken, fewer than `HeaderSize - 1` bytes
  are left of the offset's own, and no fragment begins there at the offset or later.

`IteratorsProofs`, for any number of keys, children and entries, and any calls in any order:

* `IteratorCorrect`: `Spec => IteratorIsCursor`, the refinement of `Cursor` by `DBIter` over `MergingIterator`. No call depends on what the
  caller did before, because of what is true between calls (`On`): going forward, the merged iterator is on the entry that is shown and each child is on
  its first entry at or after it (`Forward`); going backwards, the entry is saved and each child is on its last entry before those of its key
  (`Backward`, `AllPrior`). `NextIs` and `PrevIs` are that `MergingIterator` steps by exactly one entry, also when it turns around.
* The three loops of `DBIter` each have an invariant that says what is still to be found: `PassInv` (what is skipped is behind, or
  comes first), `KeepInv` (the last of what is to be shown is ahead, or is the one saved), `BackInv`. Each turn takes one entry out of a finite set, so
  a loop ends within as many turns as there are entries, which is how the model writes it: a recursive function over `0 .. Cardinality(Entries)`.
* `Init` picks a sorting of each child's entries; that there is one (`SortingExists`) is an induction over their number.

`TableProofs`, for user keys that are any sequences of naturals, any sequence numbers up to the greatest, any restart interval,
block sizes and filter base, and any number of entries:

* `TableIteratorCorrect`: `TableSpec => TableIsCursor`, the refinement of `Cursor` by the iterator over the two levels, and `GetsCorrect`:
  `TableSpec => []GetFindsTheNewest`. Both rest on `KeyOrder`: `KeyLess` is a total order, although it is defined byte by
  byte, and on `SeparatorIs`: what `FindShortestSeparator` returns is not before the one key, is before the other, and is either the
  first key itself or has a smaller user key than the second.
* `Holds(b, ks)`: a block holds the sequence of keys `ks`, each entry whole or to be put after the prefix of the key before it, and whole at
  a restart point. From it, each loop of `Block::Iter` is shown to be a move in `ks`: `NextIs`, `PrevIs`, `FirstIs`, `LastIs`, and `SeekIs`, whose
  binary search keeps to its left only restart points before the target (`RestartBeforeIs`). The index is a block too, so
  the same lemmas are used twice.
* `BuilderInv` is the invariant of the builder: the blocks are sorted and in order, also to the block in hand; the index has a separator for
  each block but the pending one; a separator is not before its block, is before all that follows, and *no later key has its user
  key unless it is a key of its block*. `InternalGet` looks into one block only, and this is why that is enough (`NoneLater`).
  The filters, made while offsets grow, have the user keys of every block that begins in their part of the file (`FiltersOK`).
* A finished table: the iterator is at rest on a key or on no block (`AtRest`). `SkipForwardIs` and `SkipBackwardIs`: one turn of the loop is
  enough, because no block is empty. `From` and `UpTo` say which keys lie on which side of a place.

`DBImplProofs`, for any number of writes, readers, crashes and failures, any size of the memtable and any triggers:

* `DBImplInvariance`: `Spec => []DBInv`. Its core is in `FilesInv` and `RecoveryInv`: *whatever state the MANIFEST may be found in, the tables it
  names together with the logs it does not declare obsolete hold the same entries*, those of the current version, the immutable memtable
  and the log in use. `MayBeRead` is that set of states: the records after the synced ones may be lost. Around it, `GroupInv` (the
  group being written is a prefix of the queue, its numbers follow `last_sequence_`, and what it has appended is all that is in the log and not in
  the memtable), `EditInv` (an edit on its way adds what is in the immutable memtable, or what the inputs of the compaction held), and
  `ManifestInv` (promised entries are synced wherever recovery would look for them). One lemma per action.
* `TypeCorrect`, `AckedCorrect`, `SequencesCorrect`, `NeededTablesCorrect` follow from it.
* `SyncedWritesSurviveCorrect`: `Spec => SyncedWritesSurvive`, the refinement of `DurableStore`. A step of a writer is `Write` or
  `Commit` of the store, a crash is its `Crash`, and all the rest (flush, compaction, recovery, failures) is a stutter (`ContentsSeen`).

`VersionSetProofs`, for any number of keys, writes, levels and snapshots, and whatever is chosen for a compaction:

* `TreeInvariance`: `Spec => []TreeInv`, and `TypeCorrect` from it. Its parts are conditional, as the code is right only under conditions:
  * without `CompactRange` (`~Manual`): `Sorted`, the tables of a level above 0 follow each other, and for the compaction at
    work `Covered` and `InputsApart`: its inputs cover their range of user keys without a gap, so nothing that a flush puts into that
    level in the meantime can meet what it will write. `LevelsDisjointCorrect` follows.
  * and where outputs are not split between two entries of one user key (`~SplitKeys`): `Layered`, what is above is newer, and
    `InputsOldest`. `NeverHopCorrect` follows, and `ReadsCorrect`: the tree implements `SnapshotStore`.
    A step that takes no sequence number is a stutter there, or takes or releases a snapshot: it changes no read at the present.
  * The runs `Overlap` and `Hop` show that neither condition can be dropped. The code meets neither by itself: `CompactRange` is
    part of its interface, and `ShouldStopBefore` and the size of an output do not look at user keys. So these three
    theorems hold of a store that nobody compacts by hand, the last two as long as no output ends inside a key.
  * `BaseHolds`, in both cases, is why a tombstone may be dropped: where `IsBaseLevelForKey` sees no table below, none comes to be there.
* `GetIs` reduces `Get` (search by search, as `Version::Get` does) to the newest entry that is not newer than the snapshot; `CompactedReads` is
  that what `Drops` takes out is never that entry for a snapshot held, or is a tombstone with nothing under it.
* `RangesAre` shows that the widening of `GetOverlappingInputs` in level 0 comes to an end within as many rounds as there are keys.

Where a proof needs an induction (over the natural numbers, a finite set, the rounds of the widening), it is done by a least
counterexample: `Extrema.LeastNatural` and, for sets, `SmallestSet`, both from the well-foundedness that a finite set's least member gives.

The assumptions are those of the modules: `NilAssumption`, `MaxSameAssumption`, `AppAssumption`,
`FilterAssumption`, `FeedAssumption`, `CacheAssumption`, `SkipListAssumption`, `LogAssumption`, `TableAssumption`, `DBImplAssumption` and `VersionSetAssumption`, which
say the types of the constants and, of the first, that `Nil` is no record, and of `LogAssumption`, that a block is larger than a header. `IteratorCorrect` assumes that its three bounds are naturals.

Only model-checked:

* `DecodesAsMerge`: `Protobuf` encodes messages within messages, by operators that are recursive as `pb_encode_submessage` is, and
  what these compute for every message is an induction over messages, which is out of the prover's reach.
* Liveness (`CheckedAccountIsStored`, `SavedNotesAreShown`, `SelectedFeedIsShown`, `WritersReturn`), which is too.

## 5. What is not modelled

* Fields of an article other than its url (`Article.==` compares nothing else) and the title of a
  note. A stored article loses its source name at the first round trip: it is written as a string and read as a dictionary.
* Order of the answers to several searches; a search and its answer are one step.
* The date in the header: it is `Date()` at each drawing and nothing depends on it.
* FirebaseUI's login screens, beyond signing in and cancelling; two devices on one account.
* The tabs while a web page or an alert is over them; layout, images, share sheets; the
  unresolved merge conflict in Favorites' header code (lines 127-136), which is layout.
* Merges, queries, transactions and persistence of the Firebase client: the app does not use them.
* LevelDB's `NewDB`, `reuse_logs`, the waiting of a manual compaction for the background thread, the destructor,
  properties and approximate sizes, read statistics. One output per compaction in `DBImpl` (in `VersionSet` any number); a level
  for the flush other than 0 only in `VersionSet`. `DB::Open` gives up when a table is missing; that it finds them is `NeededTablesExist`.
* The buckets of the cache's hash table and its 16 shards, the bits of the bloom filter, checksums, compression, the encodings of
  numbers and the arena: functions of their input, whose effect is modelled where they are used. `env_posix.cc` is system calls;
  `c.cc` wraps what is modelled; `repair.cc` rebuilds what it can, puts all of it into level 0 and promises nothing precise.
* nanopb's callbacks, pointer fields and their memory, extensions, arrays of fixed count, and an output buffer that is too short.
* The other pods. Of the repository's C-family files (511, some 50 thousand lines) about three quarters are
  the public headers of pods that come as binaries, or whose implementation is Objective-C or Swift: they declare and do
  nothing. Only LevelDB and nanopb have C or C++ bodies of any size, so the share of those files that is
  modelled cannot be large; the app itself is Swift.

## 6. Plan

Done, in this order: `UserRecord`, `FirebaseClient`, `BatApp`, `Shelf`, the properties, the types
and the session button proved; `SourceFilter` and `HomeFeed` with their theorems; LevelDB from the top down
(`VersionSet`, `DBImpl`, then its parts) with the three abstract specifications; the cache's theorems; nanopb; the
proofs of the skip list, of `DBImpl` and of `VersionSet` with their refinements, of the screens' copies and of
the refinement of `Shelf`; of the iterators, of table files and of the log.

Next, by importance:

1. **Manual compactions** and their waiting, `NewDB`, several outputs in `DBImpl`.
2. **`SearchFeed`**: the requests of Search, with `whoIsLoggedIn` marking a table that an answer replaces
   before or after it.
3. **Dictionaries** of `Article`, `Note` and `Source`: what survives a round trip, against a
   reference definition, over bounded inputs.
4. **Observers in number**: how the registrations of `CheckUserService` and `getFavorites` grow with edits and
   appearances (the `MaxSame` bound lifted).
5. **Navigation**: Favorites presents the login at each appearance without a session, also after a
   cancel; late logins and the rows of Notes.
