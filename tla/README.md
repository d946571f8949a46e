# A verification project for MOCF

MOCF is a console audio player: a playing thread decodes files, an output thread
feeds the sound card, and a curses interface runs in the same process and talks
to the engine through calls and an event queue. This directory holds TLA+ models of the
parts where its threads meet, TLC configurations that check them on small
instances, and theorems with proofs checked by TLAPS.

1. [The system](#1-the-system)
2. [The models](#2-the-models)
3. [The runs](#3-the-runs)
4. [The proofs](#4-the-proofs)
5. [Where the code and its comments disagree](#5-where-the-code-and-its-comments-disagree)
6. [What is not modelled](#6-what-is-not-modelled)
7. [The plan](#7-the-plan)

Paths are relative to the program's sources: `audio/audio.cpp` is `src/src/audio/audio.cpp`
in `PROJECT.json`.

## 1. The system

### Threads

| thread | started by | runs |
|---|---|---|
| interface (main) | the process | `init_interface`, `interface_loop` (`ui/curses/interface.cpp`); all `audio_*` calls |
| playing | `audio_play` | `play_thread_func` (`audio/audio.cpp`): `player()` = `play_file` and `decode_loop` (`library/player.cpp`) |
| output reader | `OutBuf`'s constructor | `read_thread` (`audio/outputs/out_buf.cpp`) |
| precache | `start_precache` | `precache_thread` (`library/player.cpp`): the head of the next file |
| tag reader | `tags_cache_new` | `reader_thread` (`library/tags_cache.cpp`) |
| stream reader | `io_open` (buffered) | `io_read_thread` (`io/io.cpp`), one per stream |
| engine loop | `start_moc` (`core/main.cpp`) | `server_init`, `server_loop`, `server_shutdown` (`core/server.cpp`): makes the tags cache, waits to quit, frees it |

### Components

| component | source | state | operations | hard behaviour | what makes it correct |
|---|---|---|---|---|---|
| Output buffer | `audio/outputs/out_buf.cpp` | FIFO, pause/stop/exit/reset flags, time, `read_thread_waiting`, one mutex, `play_cond`, `ready_cond` | `put stop wait reset pause unpause time_set set_free_callback`, the reader | two condition variables; the reader gives up the mutex for the callback and while it sends; a device that cannot pause is closed and reopened, which may fail | nothing lost or repeated; silent after `stop`/`wait`; no lost wake-up; every call returns |
| Engine event queue | `core/server.cpp`, `ui/curses/interface.cpp` | queue, mutex, wake-up pipe; local queue of the interface | `eq_push`, flush, `wait_flush`; main loop, `fill_tags` | the byte follows the push without the mutex; a full pipe; a `select` without time-out; SIGINT | no wake-up lost, every event handled once and in order, waits end |
| Player | `library/player.cpp` | `request`, `req_seek`, decode buffer, precache | `play_file`, `decode_loop`, precache, `player_stop/seek/jump_to` | a request written without a lock; notifications that nobody hears; the mutex given up between look and wait | requests are served, the time agrees with the decoder, stop comes to an end |
| Audio control | `audio/audio.cpp` | state, `curr_playing`, `stop_playing`, three playlists, conversion | `audio_play/stop/next/prev/pause/unpause/seek/exit`, `play_thread_func`, `audio_open/close` | joins with locks held; pause and the start of a file race; the device is opened by two threads | stopped means stopped; format of the queued sound |
| FIFO ring | `utils/fifo_buf.cpp` | buffer, position, fill | `put get peek clear` | wrap-around, full against empty | it is a bounded sequence |
| Streams | `io/io.cpp` | FIFO, flags, two mutexes, two conditions | `io_read peek seek abort close`, the reader | a seek during a read; end of file; abort | bytes of the file in order from the last seek; abort ends every wait |
| Playlists | `library/playlist.cpp`, `audio/audio.cpp` | items, deleted flags, search tree | `plist_next prev last delete shuffle swap`, `go_to_another_file` | deleted items, lists changed between two songs | an index of an item that exists; each item once per shuffle |
| Tags cache | `library/tags_cache.cpp` | request queue, database, `nitems` | add, read, evict, clear | time of the file read after its tags; lengths measured by playback; a database from any earlier session, which may fail; two threads | no stale tags; no growth at the limit; an upper bound as count |
| Life cycle | `core/main.cpp`, `core/server.cpp` | flags, `quit_cond` | start-up, quit, shutdown | order of the shutdown; lost notification bridged by a time-out | quit is noticed; nothing used after it is gone |
| Others | playlist files, directories, decoders, drivers, sound processing, curses windows, options, log, text helpers | | | sequential code, tables, bindings | |

### How they interact

* Interface → playing thread: `player_stop`, `player_seek` write the global
  `request` without a lock and then notify `request_cond` under its mutex.
* Playing thread → output buffer: `put`, `stop`, `reset`, `time_set`, `wait`.
* Output reader → playing thread: `free_callback`, called without the buffer's mutex,
  notifies `request_cond`.
* Interface → output buffer: `pause`, `unpause` (and its destruction at exit).
* Output reader and playing thread → device: both call `audio_open` and `audio_close`;
  both change whether queued sound is converted.
* Any engine thread → interface: `eq_push`, one byte in a pipe.
* Interface → tag reader: requests; the answers come back as events. Both threads use
  the database, and both add records to it.
* Playing and precache thread → tags cache: lengths of files, through the playlist (`audio_plist_set_time`, `audio_get_ftime`).
* Interface → playlists: every edit is a call of `audio_*` that takes `plist_mtx`; the playing thread chooses the next
  file under the same mutex, long after it has looked at the last one.
* Decoder (playing or precache thread) → stream: `io_read`, `io_seek`, one thread at a time; `io_abort` may
  come from another thread. The stream's reader fills the ring ahead of them.
* Main thread → engine thread: a flag says that the engine is ready, another that it is to quit;
  signal handlers set either. The engine thread owns the tags cache that the main thread calls.

## 2. The models

| module | stands for |
|---|---|
| `Mailbox` | abstract: what an event queue promises. Letters are sent, and received in that order, once each, all of them in the end |
| `EventQueue` | `eq_push`, `engine_event_queue_flush`, `..._wait_flush`, the main loop around `pselect` and `fill_tags`; implements `Mailbox` |
| `SoundLine` | abstract: what an output buffer promises. Sound is offered, taken in and heard in one order, without a gap, and counted; only a line that was cut may refuse it or throw it away; a silenced line stays silent |
| `OutBuf` | the output buffer and its reader thread, step by step; implements `SoundLine` |
| `Player` | extends `OutBuf` with the playing thread, the precache thread and the interface's calls |
| `FifoBuf` | operators: the ring buffer, with the bounded FIFO it is meant to be |
| `IoStream` | over `FifoBuf`: a stream, its reader thread, its client, and whoever aborts it |
| `Playlist` | operators: a list with deleted items and its search tree |
| `PlayOrder` | over `Playlist`: which file is played next, `audio.cpp`, with every call of the interface that changes a list |
| `TagsCache` | requests, the reader thread and immediate reads over any database, files that change and the lengths that playing sets |
| `Engine` | extends `TagsCache` with the life of the engine: start, quitting by key, error or signal, shutdown |
| `MC*` | values of the constants for TLC |
| `SeqLemmas` | facts about prefixes, suffixes, concatenation and counting in sequences; induction over sets of numbers, and what a recursive function is |
| `EventQueueProofs`, `OutBufProofs`, `PlayerProofs`, `FifoBufProofs`, `IoStreamProofs`, `PlayOrderProofs`, `EngineProofs` | theorems |

**Grain.** Code between lock and unlock that touches only protected state is one step. Where the
code gives the mutex up, waits, or touches unprotected state, a new step begins.
Program counters (`rpc` the reader, `cpc` the thread inside a call of the buffer, `dpc` the playing
thread, `upc` the interface, `ppc` a producer) name those places.
A condition variable is the set of threads that wait on it: a
notification moves a waiting thread on, and is lost if nobody waits. `Spurious` lets
threads wake up by themselves.

**EventQueue.** `q` and `pipe` are `engine_event_queue`; a push is two steps, the locked push and the
unlocked `write`, which a full pipe refuses. The flush reads the pipe empty and splices the queue
onto `dest`, `UserInterface::events`. `uret` says who flushed. `handled` is the history of what
`server_event` saw. In `fill_tags` an event of the tag reader counts as one answer: the code
counts it if the file is still in the playlist and the answer has the tags asked for, which
holds for what `fill_tags` has asked for and nobody removed. Answers the cache
has at hand are pushed by the same calls on the interface's own thread; they are not told apart from those of the tag reader.

**OutBuf.** `fifo` is a bounded sequence of units of sound. `cdata` is what `put` has still to write,
`chunk` and `pos` what the reader took and how much of it the device accepted.
`Held` says that the reader has the mutex (while it reopens the device, a failed attempt sleeps a second with it).
`quiet` is a history: `stop` or `wait` returned, and no `put` came since. `reset`, `time_set` and the
destructor are guarded with it, because nothing in the code says what they would mean otherwise;
that the player keeps to it is `CallsAreAllowed`. `heard` counts what went to the device since the last `time_set`.
A failed `audio_open` and its retry are in the model (`ReopenFails`); a driver that closes by itself is not, nor the guard that counts
no time while the device has no rate (`Counted`).

**Player.** A file is `SongLen` pieces. A piece becomes `PutLen` units when `need_audio_conversion` says so,
and each unit remembers whether it is in the format of the device (`pcm`) or not (`raw`).
Left open: which file follows, whether a file opens, where it ends, where a seek lands or
whether it fails, and the value of `req_seek`. The unlocked reads of `request` in one round of
`decode_loop` are one look. `get_free` and `get_fill` are read in the step that waits or goes on, which is
right because `request_cond`'s mutex is held between them and the free space only
grows while the playing thread does not put. The precache option is on; with it off there is simply no next file, which the model has too.
The look at `stop_playing` at the end of a file is one step with the choice under the lock that follows.
Bitrate lists, tags, equaliser and volume are left out, and so are spurious wake-ups of the output buffer's threads.

**FifoBuf.** A ring is a record of position, fill and memory. `put` and `get` copy in passes, each up to
the end of the memory. Two passes are all their loops ever make; that is not assumed but a part of
`RingIsFifo`, which asks that everything that fits was copied.

**IoStream.** `cpc` is the client's call, `rpc` where the reader is, `source` the place of the
descriptor in the file. A region under `buf_mtx` is a step; `io_mtx` is held by a seek between its two
steps, and by the reader within one. A byte is its place in the file, so that `got`, the history of
what was delivered since the last seek led to `origin`, says by itself whether something was lost,
repeated or out of date. Streams without a buffer, which the decoders use to read tags, are in the model
too. Left out: `io_peek` and the fill callback, which nothing uses; a file that fails to open; a memory-mapped
file that changes its size.

**Playlist and PlayOrder.** An index is one more than in the code, so that `None`, which is 0, stands for −1. `PlayOrder`
leaves open what `Player` has: how a file is played is a step that may end at any time. In turn it has what
`Player` leaves open: the three lists, `before_queue_fname`, `started_playing_in_queue`, the options.
`plist_mtx` and `curr_playing_mtx` are held within a step.
`GoToAnotherFile` is the disjunction of the ways through `go_to_another_file`, of which
`Candidates` are the lists that a shuffle can have made. `played`, `whole` and `left` are histories: what was played in
a row, whether from the start, and whether something is about that an earlier visit to the queue left behind: the start
found it, or the thread stayed where it was (Repeat without AutoNext), which does not clear `started_playing_in_queue`.
`FirstItems` has no file twice, as `audio_plist_add` adds none that is there.
Left out: the choice of the file to precache, the events about the queue, times and tags
of items, and a stop while a stream is paused.

**TagsCache and Engine.** A version of a file stands for its time and for its tags; 1 is the one the session finds, 0 an earlier
one. So a change that leaves the time as it was, or brings an earlier time back, is none. Each call of the database, each look
at a file and each region under the mutex is a step of one of two threads; `call` says where
each of them is. `with_db_lock` takes a lock of the database with one locker for all threads, and a locker is never in
conflict with itself: it keeps nobody out, and is left out. The database is whatever is on the disk (`CacheInit`): any records of earlier sessions, more of
them than the limit if it was lowered, and wrong ones. Each of its calls may fail: a `get` finds nothing (`Gives`), a `put` writes nothing, the cursor stops
anywhere, the removal of a record is counted all the same (`Collects`). Ages are left out, so any record may be the one
that goes, and there may be none that is old enough. `nitems++` is a load and a store, as nothing locks it. The reading of the tags and of the time of a file
are two steps, in that order. Before them `FindLength` takes the length from the playlist if it has one for the file's present time. `length`
says of which version that length is and which time it bears: a decoder measures it when it is opened, by the playing or the precache thread, and it
is given the time of when it is set, so that the two may differ (`SetLength`; `Playback` says when songs are played). Left out are a cursor that cannot be opened, which the code then uses, and files
that no decoder can read. `tags_cache_clear_queue` and `_clear_up_to` are called by nothing.
`Engine` adds the engine thread (`epc`) and the main thread (`mpc`). The handler of the engine is replaced by that of the
interface (`handler`); a signal before that is recorded in `early`. `audio_exit` is one step, and a
start that fails is left out.

## 3. The runs

| run | instance | states | shows |
|---|---|---|---|
| `event_queue` | two producers with two events each, a pipe of two bytes read one at a time, two files to wait for | 63 320 | `TypeOK`, `NoLostWakeup`, `AwaitedIsOnItsWay`; `ImplementsMailbox`; `FillTagsEnds` |
| `out_buf` | FIFO of 2, chunks of 1 or 2 units, four units of history, a device that cannot pause and may fail to open | 13 008 | `TypeOK`, `QuietIsSilent`, `TimeIsWhatWasHeard`; `WaitReturnsInTheEnd`; `ImplementsSoundLine` |
| `out_buf_spurious` | the same with three units of history, a device that can pause, and threads that wake up by themselves | 40 289 | `ParkedOnlyWhenIdle`, `WaitingIsParked`; `PutReturns`, `StopReturnsInTheEnd`, `ExitHappens` |
| `player` | FIFO of 1, files of two pieces that become two units each, precache of one piece, three calls of the interface | 267 626 | `PlayerTypeOK`, `CallsAreAllowed`, `StoppedIsStopped`, `TimeAgreesWithDecoder`, `NothingRawQueued`, `PrecacheIsJoined`; `StopCompletesUnlessPaused` |
| `stream` | a file of three bytes, a ring of two or no ring, chunks of up to two bytes, reads of one or three, read errors | 81 927 | `TypeOK`, `RingIsBoundedFifo`, `BytesInOrder`, `TellIsWhereWeAre`; `ShortReadsAreLast`, `CallsReturn` |
| `play_order` | three files, lists of up to four items, any three calls, Shuffle toggled at any time | 392 392 | `TypeOK`, `ShuffledIsPlaylist`, `EachOnceIfNothingLeft`; `ShuffleLeavesNoneOut`, `ArrivesAtAnItem`, `PlayingEnds` |
| `engine` | a song that changes once and a stream without a title and with a wrong name, a limit of one record and any of four databases, two calls, one signal | 261 741 | `EngineTypeOK`, `RecordsAreTrue`, `LimitIsKept`, `CacheIsThereUnlessEarly`; `AnswersCome`, `QuitEnds` |
| `stop_completes`, `seek_not_lost`, `eof_after_seek`, `each_once`, `early_signal` | as above, smaller | | violated, see section 5 |

**Why the bounds are enough.** In `event_queue` three or more pending bytes meet a pipe of two, so the
pipe overflows, the flush needs several reads, and a byte can outlive its event. In `out_buf` a put of two units into a
FIFO of two can be refused, be written in part, or wait; the device takes one or both
units of a chunk. In `player` a converted piece does not fit the FIFO at
all, so `put` blocks in the middle of a piece as it can in the real buffer; three calls give
every pair of racing calls (seek and stop, pause and stop, skip and skip) one call that brings the player
into the state where they race. One file is enough for `Songs`, since every choice between going on and ending is left open.
In `stream` the ring is smaller than the file and than the larger read: it wraps at every second byte, is full or empty at each position, a
read has to wait in the middle, and a chunk may find room for half of it. Seeks and aborts are unbounded. In `play_order` a list of
three files has a middle and two ends, a fourth place lets a deleted file be added again, and three calls
are a start with two edits or skips against it, or a stop between two starts. Repeat goes with AutoNext there: with Repeat alone the same file
plays for ever. In `engine` a limit of one record evicts for every second file. The database has no record, one or two, that is none, as many as the limit or more. A
change of a file can fall before, between or after the reading of tags and time, and before or after its length is measured or set; two calls let
a first record be used, replaced or removed by a second, in one thread or two. Not everything goes together, which would be too many states (`Sessions` in
`MCEngine`): a session that finds no records may be ended, but its files do not change, only the stream is
played and the walk over the database works; one that finds a record has the song change and be played; one that finds two has it change, and the walk fail. Records of an earlier
session are of comments only, and right: that outdated and wrong ones do no harm is shown by the theorem, which has any.

**Deadlock** is checked for the event queue, the output buffer and the streams. It is not for the player:
`audio_stop` while the output is paused can really stop the system for good (section 5). Nor is it for the play
order and the engine, which come to their ends: no calls are left, or the process has ended.

**Fairness.** Each thread that can go on does (weak fairness). A thread that waits for the mutex of the
buffer, or for its notification, gets it if it is free again and again (strong fairness on `ClientGoesOn`,
`CallStep`, `PlayingThread`, `UiGoesOn`): this is what a mutex of
the C++ library gives in practice, though the standard does not promise it. A device that is opened again and again opens
at last (strong fairness on `ReaderReopened`); without it `put` may
wait for ever for a device that was unplugged, as it may in the program. The user, signals, clocks and engine threads that
have nothing to say are under no fairness. `WaitReturnsInTheEnd` assumes that the user
stops pausing and unpausing at some time: `wait` looks at a condition that each
unpause makes false for a while.
In the streams, the play order and the engine weak fairness of each thread is enough, since a step that is possible there stays
possible until it is taken. It includes that a file ends at last (`PlayingEnds`), that `wait_for` in `server_loop`
times out after its second (without that `QuitEnds` fails: a notification may come just before the wait), and that the
interface, once `want_quit_flag` is set and no call is open, leaves its loop. The client of a stream need not
call anything, and nobody needs to abort, quit or send a signal.

## 4. The proofs

`OutBufProofs`, for every capacity, chunk size, unit and kind of device:

* `TypeCorrect`.
* `NoWakeupLost`, `WaitingTellsTheTruth`: `ParkedOnlyWhenIdle` and `WaitingIsParked`. Neither is inductive alone.
  `ParkInv` adds that `readerWaiting` holds exactly while the reader is parked or woken and
  not yet running: with it each call that makes the wait pointless is seen to notify. They hold with spurious wake-ups too.
* `QuietStaysSilent`, assuming no spurious wake-ups. `stop` waits once for `ready_cond` and looks at nothing, so
  the argument is about who notifies: `QuietInv` says that `isStopped` holds from the call to the
  return, and that a `stop` that was woken was woken by a reader that is not in the middle of a chunk; with `isStopped` set it
  takes no new one.
* `TimeIsRight`: `TimeInv` strengthens it to the middle of a chunk, where `heard = time + pos`.
* `Refinement`: the safety part of `ImplementsSoundLine`. The line is the rest of the chunk followed by the FIFO;
  sending moves the position, not the FIFO, and taking a chunk changes neither; what `put` has still to write is what is offered. It needs
  `LineInv`, the conjunction of the above and of `OfferInv` (only `put` has something to write), because the abstract line
  forbids sound once silenced and a second offer while one is open.

`OutBufProofs` states its lemmas for `Step`, a step of the buffer with any client and without TLC's bounds. That lets
`PlayerProofs` reuse them.

`EventQueueProofs`, for every set of producers, pipe and number of events:

* `TypeCorrect`; `WakeupsAreNotLost` (`NoLostWakeup`), which is inductive with types.
* `MailboxSafety`: every step sends one letter, receives one, or does nothing, with
  `handled \o dest \o q` as what was sent.
* `AnswersAreOnTheirWay` (`AwaitedIsOnItsWay`). It says that `fill_tags` waits for no more answers than
  are still to be pushed or stand in `q` or in `dest`; `AwaitedInv` adds that it waits only inside its own loop, where whoever takes an answer out
  counts it. What each step does to the number of answers in a sequence is `CountAppend`,
  `CountConcat` and `CountTail` of `SeqLemmas`.

`PlayerProofs`, for any files, lengths, conversion, precache and number of calls:

* `PlayerTypes`, and `PrecacheJoins` (`PrecacheIsJoined`) from `PcInv`, which says where a precache thread may be about.
* `PlayerImplements`: the whole player, with its threads, is a client with which the buffer implements the safety part of
  `SoundLine`. `OutBufProofs` shows it for steps that put something; that the player never puts an empty piece is `PieceThere`.
* `CallsAllowed`, `StopsForGood` (`CallsAreAllowed`, `StoppedIsStopped`). A step of the player is a step of the buffer with
  some client (`IsAClient`), so `BufferInv`, what `OutBufProofs` has shown of the buffer, holds here too.
  `StageInv` says at which stages of the playing thread the buffer is quiet, and in which
  state `audio_state` can be there. The calls of `reset`, `time_set` and the end of the thread are at such stages.
* `NothingRaw`, for a device that can pause: `FormatInv` says when the conversion is that of the current file, `PcmInv` that nothing
  on the way to the device is in another format. With a device that cannot pause it is false (section 5).
* `TimeAgrees`, for a device that can pause: `ClockInv` follows the sum of the time, what is
  queued and what is in the decode buffer through every stage between a decoded piece and the device, and through a seek.

`FifoBufProofs`, for every capacity: `RingAlwaysFifo`, from lemmas about one pass before and after the
wrap-around. It is what lets `OutBuf` take its ring as a bounded sequence.

`IoStreamProofs`, for any file, ring, chunk and reads: `StreamTypes`, `RingFifo`, `InOrder`, `TellIsRight` and the action
property `ShortReads`. `BytesInOrder` is not inductive: `StreamInv` says that ring, chunk and source continue what
was delivered unless `after_seek` is set or a seek is between its steps, in which case the chunk is
about to be dropped; and that an end of file that was noted is an end of the current position.

`PlayOrderProofs`, for any files, first playlist, options, toggles and bounds:

* Lemmas about the operators of `Playlist` come first: each keeps `IsPlaylist` and does to the live files what it is for.
  `Clean` is a list with nothing deleted, which is what `plist_shuffle` and `plist_swap_first_fname` are ever called on: the second
  could leave a live item that its tree does not find if the first item were deleted and its file stood there again. `CatFacts` is about `plist_cat`, which copies item by item: a
  recursive function, shown to exist by `Recursion`, and followed through the items by `SetInduction`.
* `TypeCorrect` and `ShuffledAgrees` (`TypeOK`, `ShuffledIsPlaylist`) from `BaseInv` = `ListsInv` and `ScalarsInv`. The lists
  need each other: a new order is added to the old one, so it has no file twice only because a shuffled list
  with nothing live in it while the playlist has something is empty (`NothingDrawnFacts`).
* `Arrives` (`ArrivesAtAnItem`), a property of single steps, from `BaseInv`.
* `EachIsPlayedOnce` (`EachOnceIfNothingLeft`) from `RowInv`. That no file was played twice is not inductive: one must know that
  all that was played stands before what comes next. `AheadInv` says so when the next item is known, `BehindInv` while a file is
  played and left, when only its name is known and its place is looked up in the list as it then is. Both hold only while nothing is `left`;
  `NothingLeft` and `QueueVisit` say what that means for the flags. `FromThere` is the step that matters: with
  nothing left, `go_to_another_file` goes on from the place of the file that was played; in a new order that
  file stands first (`NewRow`).
* `ShufflePlaysAll` (`ShuffleLeavesNoneOut`): the other half of `AheadInv` and `BehindInv`, that all items before have been played,
  and `WholeInv`, by which a list played as a whole is not drawn anew before its end.

`EngineProofs`, for any finite set of files, limit and number of calls: `TypeCorrect`, and `CacheThere`
(`CacheIsThereUnlessEarly`) from `LifeInv`, which ties the places of the three threads to the state of the cache.
Of the cache, over any database, any failures and any lengths that are set:

* `RecordsTrue` (`RecordsAreTrue`) from `TrueInv`, which has three parts for each file. `RecordTrue`: a record's time is not in the future, and if it is the present one, its
  tags are (`TagsTrue`), but for files that are `raced` or, as to the length, `mistimed`. `LengthTrue`: a length in the playlist that bears the present time
  is of the present version or the file is `mistimed`. `ReadTrue`: the same of what a thread has collected so far and
  of the time it has taken. A file is `mistimed` from when a decoder older than its last change sets its length until it changes again.
* `LimitKept` (`LimitIsKept`) from `LimitInv`. `Most` is the limit or, if greater, what was found. Before the count is known there may be that many records; once it is, it is not below their number, but for the
  one that is just being added, and whoever may add without a walk has room for it. It holds as long as the two threads have not added at once and nothing has `failed`.

`SeqLemmas` holds what these need of sequences and of induction. The induction theorems of the library take an operator as a parameter,
which the provers cannot instantiate. `SetInduction` says the same of a set, which they can: a set of numbers that has 0 and
with each number the next has them all. The proof is a pigeonhole argument about the
cardinality of finite sets: were a number missing, adding one would map the members up to it one to one into fewer. `Recursion` shows by it that a function defined by recursion from one number to the next exists, so that its equation may be used. Assumptions are the named `ASSUME`s of the models
about the constants: capacities and chunks are not 0, a special value is not an ordinary one (`NoRecordAssumption`, `SongAssumption`),
the set of files of the cache is finite, earlier sessions know no later version of a file (`OldRecordsAssumption`), the first playlist has no file twice, the bounds are numbers. TLC evaluates them in every run. Beyond these only `QuietStaysSilent`,
`TimeIsRight` and `Refinement` assume that nothing wakes up by itself, and `NothingRaw` and `TimeAgrees`
that the device can pause.

**Only model-checked.** All liveness properties and what depends on `ENABLED` (the fairness part of
`ImplementsMailbox`; `SoundLine` has none). Every other property that a passing run checks is a theorem. The violated properties of section 5 are
shown by a counterexample of TLC only.

## 5. Where the code and its comments disagree

Shown by a run:

* `stop_completes` (`StopCompletes`). While the output is paused, `audio_stop` can block the interface for good: the playing thread
  sleeps on `request_cond` after it missed the notification, or in `put` on a full buffer, and a paused
  reader wakes neither. Unless the output is paused, stopping works (`StopCompletesUnlessPaused`): the reader's next
  callback or notification wakes the playing thread.
* `seek_not_lost` (`SeekNotLost`). A second seek that arrives while the first is carried out is cleared with it,
  since only the kind of request is compared.
* `eof_after_seek` (`EofIsTheEnd`). `io_seek` of a stream without a buffer leaves `eof` set: after a read has met
  the end, `io_eof` stays true and `io_read` returns nothing, wherever the stream was moved.
* `each_once` (`EachOnce`). `started_playing_in_queue` and `before_queue_fname` outlive a stop in the queue. A
  file started from the playlist later is followed by the playlist's beginning, or by the
  file after the one of long ago. The flag also stays when the thread stays where it is, which it does with Repeat and without AutoNext: if
  playing began in the queue and Repeat is turned off later, a file is played twice. Without such leftovers each file is played once (`EachOnceIfNothingLeft`).
* `early_signal` (`CacheIsThere`). A SIGTERM between the handlers of the engine and those of the interface shuts the
  engine down alone; the interface goes on and calls a tags cache that is freed.

Met while modelling, without a run of their own:

* `server.h` says that `wait_flush` blocks until there is an event. The byte of
  an event that was drained earlier may come late and end the wait with nothing. The only caller copes.
* `OutBuf::wait` promises that the device is unused when it returns. After an unpause
  the reader may be about to reopen a device it closed, while the playing thread opens it.
* With a device that cannot pause, a pause closes the device and resets
  `need_audio_conversion` while the playing thread still queues, so unconverted sound enters the
  buffer. `NothingRawQueued` is therefore checked and proved for devices that can pause only.
* The file's time is read after its tags (`library/tags_cache.cpp:554`): a file that changes in between is
  recorded with old tags and the new time, until it changes again. `RecordsAreTrue` excludes just that file.
* `audio_get_ftime` compares the file's time with that of its length, to see whether the file has changed. But the length is what a decoder
  measured when it was opened, and `audio_plist_set_time` (`audio/audio.cpp:1306`) gives it the time the file has when it is set, which for a precached file is
  once more when it is played. If the file changed in between, an old length passes for a new one and is
  recorded as such (`library/tags_cache.cpp:598`). `RecordsAreTrue` excludes the length of such a file, and nothing else.
* The limit of the cache is not one that holds at all times, as `data/config/config.example.in:410` says of a lowered `TagsCacheSize`: each addition
  removes one record at most, so that a database found above the limit need not come down to it. A removal that fails is counted all the same (`library/tags_cache.cpp:512`), a cursor that fails leaves the
  number of what it has seen as the count (line 505), and if no record is older than the clock, which a clock that was set back can bring about, none is removed. In each
  case the cache grows by one. `LimitIsKept` therefore speaks of the greater of the limit and what was found, and
  of a database that works.
* The comment at `library/tags_cache.cpp:110` says the mutex is for all data above it. `nitems` is changed without it; two
  threads that add at once can lose a count, and the cache exceeds its limit. `LimitIsKept` excludes that.
* `data/config/config.example.in:408` says that the least recently used items are removed from the cache; the code removes the one that was written
  longest ago.
* `config.example.in` gives `QueueNextSongReturn` the default "yes", `options.cpp:562` gives it false.
* A skip that comes after `go_to_another_file` has looked at `play_next` and `play_prev` and before they are reset (`audio/audio.cpp:461`) is lost.
* A playlist that is emptied while Repeat is set keeps the current index with a list that has nothing at it: the playing thread
  goes round without playing or waiting. `PlayingEnds` therefore speaks of Repeat being off.
* The comment at `library/playlist.cpp:187` says that `plist_prev` of −1 is the first item; it returns −1.

## 6. What is not modelled

Playlist files, directories, the decoder registry, options, log and text helpers are sequential code
over text and tables. Decoders and output drivers are bindings to libraries, or, like `wma`, `mlp` and `ape`, codecs and their tables; the models see them
as something that yields pieces, ends, seeks or fails, and as a device that takes a part of what it
is given. Sound processing is arithmetic on samples. Curses windows, menus, themes and keys are drawing. Together these are by
far the greater part of the lines; they have no state that threads share, and what could be said of them is about numbers, text or formats.

Of the parts that are modelled, these are left out: the payload of events and what the interface does with them; bitrate lists; mixer and
device parameters (so an `audio_open` with parameters that were never set is just one that fails); the life of the output driver
against the buffer's reader in `audio_exit`; a start of the engine that fails; sorting and searching of the interface's own playlists; the age of
cache records, their format and the version of the directory. `REQ_PAUSE` and `REQ_UNPAUSE` are set by nothing the program calls.
Not every listed hazard has a property; its note in `PROJECT.json` says why.

## 7. The plan

Done, in this order: `EventQueue` with `Mailbox`; `OutBuf` with `SoundLine`; `Player` over
`OutBuf`; theorems about the first two; `FifoBuf` and `IoStream`; `Playlist` and `PlayOrder`; `TagsCache` and `Engine`;
theorems about the rings, the streams, the cache, the engine, the player and the play order.

What remains, most important first:

1. The driver's life in `audio_exit`: the order of shutting down the driver and destroying the buffer whose reader still uses it.
2. `Engine` composed with `EventQueue`: the answers of the tag reader as the events that `fill_tags` waits for.
3. The start of the engine that fails, and the parameters of the device between a pause and the first file.
4. Sorting and searching of playlists, and the integer parts of the software mixer and of sample
   conversion, as operators over bounded inputs.
5. `OutBuf` over the ring of `FifoBuf` instead of a sequence: with `RingAlwaysFifo`, a step-by-step refinement of one by the other.
