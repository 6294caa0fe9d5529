# A TLA+ model of abt-t2t

abt-t2t measures tick-to-trade latency with two programs. The *exchange simulator*
replays a recorded NASDAQ day as MoldUDP64/ITCH market data and runs a matching venue
for each quoted symbol. The *device under test* (DUT) rebuilds the books, runs a quoting
strategy, and enters OUCH orders at the venues. This directory models the trading logic
of both ends, of the two links between them and of the threads inside the device, checks it
with TLC on small instances, and proves part of it with TLAPS for every instance.

## 1. Inventory

| Component | State | Operations | Talks to |
|---|---|---|---|
| `mold::Packer`, `ExchangeSession` market-data side | next sequence number, open packet | append, flush | UDP |
| `SequenceTracker` | started, expected, counters | onPacket | `DutSession::applyPacket` |
| `BookTable`, `BookBuilder`, `LevelBits` | books by locate, level arrays, order map, band, `topVersion`, epoch | apply (A F E C X D U H R), clear, re-anchor | strategy |
| `QuoterStrategy` | interval `m_fairLo`..`m_fairHi` | onBook, forget | order manager, by targets |
| `OrderManager` | two quote slots per symbol, position, reference counter, hint ring | reconcile, onAck (six answers), encodeTestOrder | OUCH |
| `DutSession` | feed valid, market open, `m_topSeen`, reconcile-all flag, in-flight tables | applyPacket, applyAck, system events, warm-up, send, poll | all of the above |
| `ColdShard` | queue of receive-buffer references, own `BookTable` | push, reset, consume, stop | DUT hot thread, NIC buffers |
| socket order thread | send and answer queues, references sent, in-flight table | connect, send, read answers, pair transmit stamps | DUT main thread, recorder |
| `Venue`, `OrderBook` | price-time book, live orders, client orders | enter, cancel, replace, five tape operations, day reset, the ITCH messages of each | `ExchangeSession` |
| `ExchangeSession` order entry | hint ring from reference to venue | poll, dispatch, mirror | venues, OUCH |
| `MarketReplay`, `runReplay` | position in the file, anchor, rate limit, loop count | open, pump, end of loop, restart | `ExchangeSession` |
| `LatencyRecorder`, `Histogram`, `PacketCapture` | sample queues and worst samples | record, drain | report |
| `FlatHashMap` | open-addressing table | find, insert, erase, grow | books, venues |

The DUT's hot loop is one thread: packets and answers are handled one after the other. Most of
the hard behaviour is between the two programs. A fill, an unasked cancel or a reject is on its
way to the DUT while a replace or cancel of the same order is on its way to the venue;
market-data packets are lost, repeated and reordered; requests and answers can be dropped;
references wrap, and collide in the two hint rings; the day ends at the venue while the DUT
is quoting. Inside the DUT, several caches may go stale: the remembered fair-value interval,
the `topVersion` last seen, the position a quote was skewed with, the books of an earlier
epoch. And three more threads run beside the hot one: the cold thread reads receive buffers that
the NIC is about to reuse, the order thread owns the TCP connection and pairs transmit stamps
that arrive late, and the recorder thread drains samples; all of them end in a fixed order.
`PROJECT.json` lists each hazard at its line.

What makes each part correct: the feed, that books trusted for quoting contain every message
once; a book, that it equals the plain book of its messages whatever the band does; the order
manager, that it neither loses nor duplicates an order, accounts every fill,
and agrees with the venue once things are quiet; the venue, price-time priority,
conservation of quantity, and that feed and answers tell the same; the routing, that hints are only hints; the quoting loop, that it
quotes when and only when it is allowed, with what the strategy now wants; the threads, that
a sample measures what it claims, nothing is silently lost and everyone ends; the replay, that
the stream is the tape at the tape's pace.

## 2. Modules

| Module | Models | Uses |
|---|---|---|
| `MoldFeed` | publisher, UDP, sequence tracker and what a gap does to the hot books | |
| `FlatHashMap` | the open-addressing map, as operators on its slots | |
| `RefBook` | what a book promises: the abstract specification | |
| `BookBuilder` | `BookBuilder`, `LevelBits` | `FlatHashMap`, refines `RefBook` |
| `BookTable` | `BookTable`, as operators on a table | |
| `ColdShard` | the queue to the cold thread and the receive ring | |
| `ColdFeed` | the feed with both book tables and the cold thread | `MoldFeed`, `ColdShard`, `BookTable` |
| `ColdFeedProofs` | theorems about `MoldFeed`, `BookTable`, `ColdShard` and `ColdFeed` | `ColdFeed` |
| `LatencyRecorder` | `LatencyRecorder`, `RecorderThread` | |
| `OrderThread` | `DutSession::run`, the order thread, shutdown by `runDut` | `LatencyRecorder` |
| `OrderThreadProofs` | theorems about `LatencyRecorder` and `OrderThread` | `OrderThread` |
| `MarketReplay` | `MarketReplay`, packing and directory of `ExchangeSession` | |
| `ReplayRun` | `runReplay` with the device's login and orders | `MarketReplay` |
| `ReplayProofs` | theorems about `MarketReplay` and `ReplayRun` | `ReplayRun` |
| `Ouch` | the OUCH messages | |
| `OrderManager` | `OrderManager` | `Ouch` |
| `OrderManagerProofs` | lemmas about the references and the hint ring | `OrderManager` |
| `OmsAnswers` | the order manager alone, against any targets and any answers | `OrderManager` |
| `OmsProofs` | theorems about `OmsAnswers` | `OmsAnswers`, `OrderManagerProofs` |
| `Venue` | `Venue`, `OrderBook`, the routing of `ExchangeSession` | `Ouch` |
| `VenueFeed` | what a venue publishes, and what it answers, about the same events | `Venue` |
| `OrderEntry` | `OrderManager` and `Venue` joined by the OUCH session, with any strategy | `OrderManager`, `Venue` |
| `OrderEntryLemmas` | lemmas about sums, books, one quote and the session | `OrderEntry`, `OrderManagerProofs` |
| `OrderEntryProofs` | theorems about `OrderEntry` | `OrderEntryLemmas` |
| `DutQuoting` | `DutSession`'s loop and `QuoterStrategy` in the place of "any strategy" | `OrderEntry` |
| `DutQuotingProofs` | theorems about `DutQuoting` | `DutQuoting`, `OrderEntryProofs` |
| `MCBookBuilder`, `MCColdFeed`, `MCReplay` | hash values, tapes and configurations for TLC | |

**MoldFeed.** A message is its sequence number; only whether it is a StartOfMessages matters.
`sent` never shrinks, so a packet can be applied never, once or often, in any order: that is
loss, duplication and reordering. `ApplyPacket` is the whole of `applyPacket` as far as
sequence and books go, with its message loop given by its net effect. The books are the set
of messages they were built from, which is what `clearAll` and `apply` do to them.
`joined`, `seen` and `again` are history.

**FlatHashMap, BookBuilder, RefBook.** A book keeps its resting orders in the hash map, the shares
inside a band of prices in two arrays with a two-level bitmap each, and the shares outside it
only as a total with bounds ("parked"). `Anchor` moves the band: it shifts the arrays when no
parked order can fall into the new band and rebuilds them from the map otherwise. The state `b`
is the class's members, the actions are the handlers of `apply`; `resting` is the history the
reference book is stated with. `Hash` is a constant, so that keys can be made to collide and to
wrap. `RefBook` is the promise: the levels of whatever band there is hold the shares of the
orders in it, the best prices are the best occupied levels, and a step that changes the top of
the book is announced (`moved`, which stands for a new `topVersion`). Where the band lies is left
to the implementation. Ticks are whole numbers and `DivBy` is the division it computes.

**BookTable, ColdShard, ColdFeed.** The hot table (`HotOnly`) and the cold one (`ColdOnly`) see the
same messages on different threads. A book in a table is the set of messages applied to it, with
its epoch, which is what lazy clearing is about. In `ColdShard` a frame is its arrival number;
buffer k is overwritten once `RingDepth` more frames have arrived, which the NIC may do ahead of
the hot thread by `RxLead`. `BeginFrame` is the check of the depth and `EndFrame` the read, so
arrivals fall between them. `ColdFeed` puts the sequence tracker in front and says what the cold
thread reads from an overwritten buffer: some of the old messages, then those of the new frame.

**LatencyRecorder, OrderThread.** Every loop of the three threads is split where another thread
can see a difference: each `try_push` and `front` is a step, and the answers of one read are
pushed one by one (`Pushing`), because that loop spins on a full queue. A request is its number
and the answer carries the same number; of the order manager only the reference is kept, since a
cancel reuses the one of its order. The NIC's clock stamps packets and frames; a stamp may be
missing and is read whenever the order thread is idle.

**MarketReplay, ReplayRun.** `pump` is one action per turn of its loop: fetch, skip, end of the
loop, wait, publish. `cfg` chooses among whole configurations, file included. Timestamps are small
numbers, `nsPerNs` is a whole factor, and `Second` stands for the nanoseconds of a second. A device order rests until the end of the loop and adds
its ITCH messages to the stream; what else a venue does with it is in `Venue`. `ReplayRun` adds the
loop around it, the login that `wait_for_dut` waits for and the loss of frames.

**OrderManager.** `slots`, `position`, `nextRef` and `refs` are the fields of the class.
`Reconcile` handles both sides in the code's order, with the references they allocate in that
order; `OnAck` has one operator per answer, with the `unknownAck` exits. `QuoteSlot::qty` is
write-only and left out. `RefMod` stands for 2^32 and `RefRing` for 4096. `owner` (which slot a
reference was allocated for) and `allocs` are history.

**OmsAnswers.** The order manager with no assumption on its peer: `Answers` are all answers with any
reference, given out or not, in any order and any number. Late, repeated and misdirected answers
are among them. Quantities are positive, as the venue's are: it refuses an order of zero shares.

**Venue.** Each side of a book is a sequence in price-time order; matching, crossing by the tape
and shadow fills are all "deal out a quantity in book order to the eligible orders" (`Fills`),
which differ in who is eligible. The client's orders are on the book like the tape's, as in the
code, so `m_live`, `m_byUserRef` and `m_clientRefs` are read off it. The code pays shadow fills
in the order of `m_clientRefs`; that is book order as long as a side holds at most one client
order, which is the checked property `OneOrderPerSide`.

**VenueFeed.** Each handler of `Venue` with the ITCH messages it sends, in their order; `told` is the
book that a reader of the feed has, by the rules of `BookBuilder`, and `mine` the open shares that a
client has by its OUCH answers. A tape message is published before the venue mirrors it, also when
the venue ignores it. `cut` is history: the shares of a tape order that the feed shows although the
client's orders took them on arrival, or although the venue never took the order. The client here
is any OUCH client (IOC orders and partial cancels included) with one order on a side, and the
simulator injects and cancels synthetic orders. A tape starts with StartOfMessages, which `pump`
publishes in the same call that ended the day before.

**OrderEntry.** Two FIFO queues join the two. A request is lost when `sendOrder` gets no buffer
or the socket queue is full (the slot is pending all the same), an answer when `sendFrame`
fails. `Mirror` is one tape message and `EndOfLoop` the end of a replayed day.

**DutQuoting.** A hot book is the micro-price the strategy reads off it. A step is a packet: one
that changes a book, changes a trading state, carries a system event, is behind a gap, or
concerns no hot book; `todo` is the loop over all symbols that `m_reconcileAll` starts at the end
of a packet. `dirty` is `m_topSeen = kDirtyTop`. `WarmQuotePath` is the pre-open warm-up. A packet
with several messages is taken as several packets, which is the same for everything kept here,
since quotes are made per message and only the reconcile-all loop waits for the packet's end.

## 3. Runs

| Run | Properties | Bounds |
|---|---|---|
| `cold_feed` | `TypeOK`, `NothingAppliedTwice`, `ValidBooksAreComplete`, `MissedIsExact`, `RecycledNeedsSlack`, `ColdBooksAccounted`, `HotBookFaithful`, `LiveExact`, `ColdResponds` | four tapes of 4 messages in packets of up to 2, 4 frames into a ring and a queue of 2 with a margin of 1: a gap, a day's start inside a packet, a full queue and a reused buffer all fit |
| `book_builder` | `MapExact`, `ParkedExact`, `IndexesExact`, `ImplementsRefBook` | two orders of the tape and one of the device in a table of 4 that doubles, 3 prices on both sides of the tick change, bands of 3 and 5 levels, words of 2 bits: no bound on the number of messages |
| `order_thread` | `MispairNeedsReuse`, `SamplesAccounted`, `RequestsAnswered`, `ShutdownEnds` | two slots, 3 requests, 2 packets, every queue of one entry, tables of 2 |
| `replay` | `StreamIsTape`, `ReplayPaced`, `SessionRuns` | seven configurations of tapes of up to 4 messages, one order of the device, one lost frame |
| `venue_feed` | `PublishedBookExact`, `AnswersMatchFeed` | two client references, two tape or synthetic orders, quantities 1 and 2, two prices in the band and one outside, one day's end |
| `oms_answers` | `TypeOK`, `SlotsWellFormed`, `RefsBelong`, `AnswersStayHome` | one symbol, references that wrap at 5 starting from 3, a ring of 2, 4 references, 3 answers |
| `order_entry` | `NoOrphans`, `OneOrderPerSide`, `PositionExact`, `QuietAgreement`, `OneRequestOutstanding`, `SelfTradeNeedsDisorder`, `UnknownNeedsDisruption` | one symbol, 3 prices of which one is outside the band, quantity 2 against tape quantity 1 (partial fills), 4 references; any three of two tape messages, a loss, a day's end and a test order |
| `order_entry_symbols` | `PositionExact`, `RoutesFindOrders`, `PendingResolves` | two symbols, rings of 2 entries, references that wrap at 6 starting from 4 |
| `dut_quoting` | `MemoryTracksPosition`, `ImplementsOrderEntry`, `OnlyCancelsWhenStopped` | one symbol, two fair values, a skew of one tick per share, 5 packets, one tape message |
| `dut_requote`, `dut_halt`, `dut_gap` | one property each, violated | as small as the counterexample allows |

Four references allow both sides to be quoted and each to be replaced once, which is where a
request can cross a fill, a reject and a cancel. Every bound is a constant named in its
module. Deadlock is not checked: bounded runs end by design, and so does the real replay.

What the passing runs show:

* `ImplementsRefBook`: the banded book implements the reference book, for any sequence of the
  modelled messages, so `topVersion` never misses a change of the top.
* `MapExact`, `ParkedExact`, `IndexesExact`: the redundant structures agree with the resting orders;
  `ParkedExact` is what makes the shift in `anchor` sound.
* `HotBookFaithful`, `LiveExact`: clearing by epoch never shows, counts or keeps an old order.
* `ColdBooksAccounted`: the cold books differ from the feed by exactly the frames dropped or found
  stale, so long as no buffer was overwritten while being read.
* `RecycledNeedsSlack`: when a buffer can be overwritten under the reader. That case is reachable.
* `MispairNeedsReuse`: a sample pairs a request with its own transmission, except for an order
  whose stamp is read after its own cancel was sent. That case is reachable.
* `SamplesAccounted`: every sample ends up in the histogram and the log or in the drop count.
* `StreamIsTape`, `ReplayPaced`: batches, waits, loops, device orders and packet limits change
  neither the content nor the pace of the replay.
* `NothingAppliedTwice`: the branch of `onPacket` that accepts an overlapping packet is never
  entered, because packets partition the sequence numbers.
* `ValidBooksAreComplete`: a lost message is never missing from books that are trusted.
* `SlotsWellFormed`, `RefsBelong`, `AnswersStayHome`: no venue, however wrong, brings a slot into a
  state the next reconcile cannot handle, and a ring entry of another order never redirects an
  answer.
* `PositionExact`: on a reliable link the position is the venue's net trade less the fills under
  way, also when an order is filled after its replacement was requested.
* `QuietAgreement`: with nothing under way, slots and venue books agree order by order.
* `OneRequestOutstanding`: a slot is pending exactly while one request or its answer is under way.
* `NoOrphans`, `OneOrderPerSide`: hold under loss and across the day's end too.
* `SelfTradeNeedsDisorder`: reconcile's choice of the first side suffices unless one side was sent a
  request while the other was pending, or a request was refused or lost. Those cases are
  reachable and the code counts them.
* `PublishedBookExact`: the feed and the venue differ by the shares that crossed the client on
  arrival and by nothing else, however the order goes on. The difference is reachable: the
  device's book can show a best price that nobody can trade at.
* `AnswersMatchFeed`: the feed and the answers describe the client's orders alike.
* `RoutesFindOrders`: a stale entry of `m_refVenue` never misroutes a request.
* `ImplementsOrderEntry`: every step of the quoting loop is a step of `OrderEntry`, so what is
  checked there for any strategy holds for this one.

**Fairness.** Threads in this program never block: each spins on its queues. `ColdResponds` assumes
weak fairness of the cold thread's loop and of the spin in `reset`. `RequestsAnswered` and
`ShutdownEnds` assume it of the main and order loops, of the branch of the idle order loop that
reads answers (taken on a fixed count of idle turns), of the recorder and of the network sending
what it was given; nothing is assumed of quotes, packets, stamps, the closing of the connection
or the stop request. `SessionRuns` assumes it of both programs' loops, of the login timer and of
the clock, and not of losses, of which there are finitely many. `PendingResolves` assumes weak fairness of `PollOrderEntry` and `ApplyAck`: both
programs poll in an endless loop (`SimRunner.hpp:47`, `DutRunner.hpp:238`) and handle all that has
arrived. Nothing is assumed of quotes, of the tape or of the end of the day. The run has no
loss: the code has no timeout, so a slot whose request is lost stays pending.

## 4. Disagreements between code and documentation

* `dut_requote`: `docs/measurement-methodology.md:466` says the interval bounds the fair values that
  round to the quote already resting. A target that arrives while the slot is `PendingReplace`
  is skipped, but has already become the remembered interval; `Replaced` is matched by
  `slotByPending`, which names no symbol, so nothing marks the top dirty.
* `dut_halt`: `config/dut.toml:8` and a test expect a halt to stop quoting. The trading state does
  not change `topVersion`, so the quotes stay until the top next moves; in the test the top
  happens to be dirty.
* `dut_gap`: `DutRunner.hpp:142` reports that quoting is stopped until the next StartOfMessages. A
  slot whose request is outstanding at the gap is skipped by the one reconcile and stays live.

Three more are stated as the exceptions of passing properties, so that the property stays
checked for everything else:

* `docs/measurement-methodology.md:491` says the safe depth keeps a buffer from being recycled
  under the cold thread. `RecycledNeedsSlack` gives the condition: the depth counts queued
  references, so frames that are not queued (stale ones, dropped ones) and frames that arrive
  after the check eat into the margin.
* `docs/measurement-methodology.md:618` says every ring counts its own drops. A request that finds
  `sendQ` full is lost without a count (`DutSession.hpp:594`), the exception in `RequestsAnswered`.
* The order thread does not look at its stop token while it spins on a full `ackQ`
  (`DutSession.hpp:908`), the exception in `ShutdownEnds`; and an endless replay with nothing to
  publish never returns from `pump`, the exception in `SessionRuns`.

## 5. Proofs

`ColdFeedProofs` begins with the market-data link and proves the four properties of `MoldFeed` for every `MaxSeq` and every
`PacketCap > 0` (`FeedTypes`, `FeedNothingAppliedTwice`, `FeedValidBooksAreComplete`,
`FeedMissedIsExact`). None is inductive alone. The inductive invariant `IInv` adds:

* `PacketsPartition`: the sent packets are disjoint, non-empty, and end at or before the packet
  being filled;
* `AtBoundary`: `m_expected` never lies inside a packet, which is why a packet is either stale or
  entirely new (lemma `NotStaleIsAhead`);
* `SeenBelowExpected`: the messages seen are finite and below `m_expected`, for the counting
  argument of `MissedIsExact`;
* `StartsPublished`: a StartOfMessages has been published before it can be applied.

One lemma per action shows that it preserves `IInv`. The assumptions are `MaxSeqAssumption` and
`PacketCapAssumption`.

Its second part is the cold shard alone, and proves `RecycledNeedsSlack` (`RecyclingNeedsSlack`) for every ring depth, queue
capacity, margin and lead of the NIC. The invariant `ColdInv` adds to the types: `Backlog`, that an
entry's frame is at most as old as the entries behind it plus the frames that went by without an
entry; and `CheckedDepth`, what the test of the depth established when the read began. The first
is kept by every push and pop, the second turns the test into a bound on the age of the buffer.
The assumption is `ColdAssumption`.

The rest of `ColdFeedProofs` is about the whole receiving side of the device. `DeviceImplementsLink` and
`DeviceImplementsShard` show that each step of `ColdFeed` is a step of `MoldFeed` and of `ColdShard`
or leaves them alone, so `DeviceIsSafe` carries over all that is proved of the two. Three more
theorems are about the books: `HotBooksAreFaithful` (`HotBookFaithful`), `ColdBooksAreAccounted`
(`ColdBooksAccounted`) and `LiveCountsAreExact` (`LiveExact`). Their inductive invariant `DeviceInv`
has three parts:

* `Ground`: the invariants of link and shard, that the tape is what was published (`Published`)
  and that the ring holds packets that were sent (`Received`);
* `HotInv`: before the next expected message, every hot stock shows the orders of `book` that came
  after its directory message. It includes that a resolved stock shows the very book its
  messages go to, and that this book is of the current epoch or empty, without which
  lazy clearing could bring back an old order;
* `ColdSide`: what the tracker let through is done, queued or lost, and the entries are in feed order
  behind what is done (`QueueOK`); the state between a gap's marker and the packet behind the gap
  (`GapMarked`); the last marker parts the entries before the last gap from those after it
  (`GapSplit`); once no marker is queued the books hold what is done since the gap (`ColdGood`).

TLC checked `ColdSide` on the instance of `cold_feed` first. The argument goes from one message
(what `apply`, `clearAll` and a directory message do to a table) over the loop on
a packet's messages, by induction on its turns (`EveryTurn`, `LoopStates`), to the action. `TableOK`, and
with it the exact `m_live`, also survives the read of an overwritten buffer, since it asks nothing of the
messages; `ColdGood` does not, which is why `ColdBooksAccounted` excepts `torn`. The assumptions are those
of `MoldFeed`, `ColdShard`, `StocksAssumption` and `TapesAssumption` (a tape of `MaxSeq` messages, each
a StartOfMessages or one with a known locate code).

`OmsProofs` proves the four properties of `oms_answers` for every set of symbols, every reference
width, ring size and first reference, and every sequence of answers (`OmsTypes`,
`OmsSlotsWellFormed`, `OmsRefsBelong`, `OmsAnswersStayHome`). The inductive invariant is their
conjunction with `RefsFresh` of `OrderManagerProofs`: the references given out are the interval from `FirstRef` to
`nextRef`, around the end of the counter if it has wrapped. From it `NextRefsAreFresh` shows
that the one or two references `reconcile` takes are new. `Effect(a)` says what any answer may
do; one lemma per handler of `onAck` proves it, and both the invariant and `AnswersStayHome`
follow from it. The assumptions are those named in `OrderManager` and `OmsAnswers`. The one
that carries weight is `MaxAllocsAssumption`: at most 2^32 - 1 references are taken. Beyond that
the code could give out the reference of an order that still rests.

`OrderThreadProofs` begins with the recorder and proves `OfferKeepsLargest`: for every capacity and every sequence of samples,
`Worst::offer` keeps the largest. The statement counts samples at or above a threshold, so
that equal samples need no order. It is used for `NoSampleForgotten`
(`SamplesAccounted`): `Accounts` says that every sample is queued, in the histogram or counted as
dropped, and that none is made once the recorder was asked to stop. `StampsPairRight`
(`MispairNeedsReuse`) is proved for every number of slots and requests and every queue and table size. Its
invariant `PairInv` follows a request through the program: requests travel in the order they
were made (`InOrder`); each one under way is awaited by its slot (`OnTheWay`), so the slot does not
ask again; an order's reference is new and only its cancel uses it again (`Refs`); a
packet times at most one request that is not lost (`Stamps`); the ring of references is in order,
above every key already paired, and an in-flight entry belongs to the request whose reference is
in the ring or to a later one with the same reference (`Ring`, `Samples`). The assumptions are
`ThreadAssumption` and `RecorderAssumption`.

`DutQuotingProofs` proves three properties of the quoting loop for every set of symbols.

* `MemoryIsCurrent` (`MemoryTracksPosition`), from `MemoryInv`: a symbol with a memory was last quoted
  on a valid feed in market hours, the warm-up has made the strategies forget before it asks for
  all quotes, and the loop over all symbols never meets a marked top together with a memory in
  use. The property is for `marketHoursOnly`. Without it a system event runs that loop while
  quotes are kept, and the loop marks a dirty top as seen without asking the strategy.
* `StoppedOnlyCancels` (`OnlyCancelsWhenStopped`), an action property. It rests on what `reconcile` sends
  when both targets are absent.
* `LoopImplementsSession` (`ImplementsOrderEntry`), under the hypothesis `[]NotLocked`: the two prices that the strategy
  would quote are prices of the session and do not meet. `clampToBand` runs after the cross check (`QuoterStrategy.cpp:56`) and can put both on
  one edge of the band; `OrderEntry` allows no such quote. `PlainIsNotLocked` shows that an
  unclamped quote always satisfies it.

* `LoopKeepsSession`, under the same hypothesis: what `OrderEntryProofs` shows of the session with any
  strategy holds of the device with this one.

`OrderEntryProofs` is about the session: `OrderManager` and `Venue` with the two queues between them, for
every set of symbols, price band, quantity and ring size, and any number of tape messages,
losses, ends of day and test orders in any order. It proves every property of `order_entry`, and
`RoutesFindOrders` of `order_entry_symbols`:

| Theorem | Property | Holds |
|---|---|---|
| `OrdersHaveSlots` | `NoOrphans` | always, under loss and at the end of a day too |
| `OneClientOrderPerSide` | `OneOrderPerSide` | always |
| `OrdersAreRouted` | `RoutesFindOrders` | always |
| `PositionIsExact` | `PositionExact` | while nothing was lost |
| `SessionAgreesWhenQuiet` | `QuietAgreement` | while nothing was lost, whenever both queues are empty |
| `OneRequestAtATime` | `OneRequestOutstanding` | while nothing was lost and no day ended |
| `SelfTradesMeanDisorder` | `SelfTradeNeedsDisorder` | while nothing was lost and `outOfStep` is not set |
| `AnswersAreKnown` | | no unknown answer while nothing was lost, no day ended and no test order was sent |
| `UnknownMeansDisruption` | `UnknownNeedsDisruption` | for `MaxTests = 0` |

The conditions in the third column are those the properties state themselves, except the last:
with a test order in play, its entry may leave a small hint ring before its answer arrives, and the
answer is then counted as unknown without any loss. The run has a ring of four entries, in which
that does not happen.

None of the properties is inductive, since each of them looks at the slots and the book of this moment and the
events to come are in the queues. The inductive invariant is `IInv` (`OrderEntryInvariant`):

* `RefsOK` and `HintsTrue`: the references given out so far, as for `OmsProofs`, and that an entry of the
  manager's ring names the slot its reference was allocated for. With it `SlotByRef` and `SlotByPending` find
  the one slot that works or awaits a reference, whatever was overwritten;
* `Counts`, `AccountsTyped`, `SlotsTyped`: types;
* `BooksOK`: a side of a book holds at most one client order, the one that `View` shows;
* `RoutesOK`: a route entry with the reference of a resting order names the order's symbol;
* `SessionOK`: for every quote, what its resting order, its slot, its answers and its requests say of each
  other. It has three levels. `Safe` (per quote `KeyInv`) holds always: the order on the book is the one the slot works or
  awaits, each answer and each request fits the slot and the book as far as it can without
  knowing what was lost, answers come in an order in which an order can live, and no order is filled or
  answered for more shares than it had. `Exact` (`KeyExact`) adds, while nothing was lost, that the open
  shares in the slot are those on the book and in the fills under way, and that a pending slot has
  its request or its answer on the way. `Orderly` (`KeyOrderly`) adds, while no day ended, that the request or
  the refusal under way is that of the slot's present state, and that beside a request
  nothing but fills is under way;
* `Balance`: while nothing was lost, the position account is what the client traded less the fills under way.

`OrderEntryLemmas` goes from the small to the large: what the sums of fills and answers obey; what
a match, a shadow fill, a cancel and a tape order do to what a side shows of the client's order (here the
matching of `Venue` is reasoned about by positions in the book, `Chosen` and `Sums`, with induction over
the position); what each event does to one quote; and then to all quotes at once. `OrderEntryProofs` has one
lemma for each action of `Next` on top of that. TLC checked the parts of `IInv` on the two runs'
instances before they were proved.

`SelfTradesMeanDisorder` needs more, the invariant `InStep`. A quote *heads for* a price: the one it
has, or the one its replacement will give it. `PricesApart` says that the bid of a symbol
heads for less than the ask; `TurnsApart` that of two requests under way for the two sides, the one
sent first does not meet the order that the second one replaces, which is what the choice of the
first side in `reconcile` is for (`FirstClears`); `NoneRefused` that no refusal of a quote is under way. From these a
request that reaches the venue meets no client order, so that no trade has the client at both ends
(`PollInStep`). `TurnsApart` is what fails when `FirstSide` is fixed: the mutant of the
run.

The assumptions are those named in `Ouch`, `OrderManager`, `Venue` and `OrderEntry`. Besides positive prices and
quantities they are: finitely many symbols, at least one, none of them the test order's
(`SymsFinite`, `SymsAssumption`; the test order names a symbol that no venue lists), and again
`MaxAllocsAssumption`.

`ReplayProofs` proves `StreamIsTape` (`StreamIsTheTape`) and `ReplayPaced` (`ReplayIsPaced`) for every tape and
configuration, every packet capacity, any number of orders, losses and logins, and every way the clock runs beside
the pump. The inductive invariant (`ReplayInvariant`) has these parts besides the types:

* `DayOK`: what was published in this loop is what `Kept` takes of the messages the loop is done with. A message just
  fetched is not done with, which is what a wait between its fetch and its publication turns on;
* `StreamOK`: the feed, on the wire or in the open packet, is the day with one `A` for each order at rest and no `D`. `PackerAdds` shows
  that the packer only ever adds at the end; `WithOrders` and `PolledStreams` carry that through the
  messages a venue emits and through all frames of one poll, by induction on their number;
* `LocatesOK`: a route leads to a venue that has this locate; a symbol already named has the locate of the tape, and one not yet
  named has lost its first route at most to a named symbol. `BindingKeeps` is the case analysis of
  `bindDirectory`, with an old locate that is or is not another symbol's by now;
* `PaceOK`: the anchor is time and stamp of the first paced message of the day. That message itself is due at once, so the
  time at hand is the time it is published;
* `RateOK`: until there is an anchor, `m_afapSent` is the number of messages of the day and `m_afapStart` the time of the first; the
  messages before this batch are within the rate.

The assumptions are `LocatesAssumption`, `ConfigsAssumption` and `BoundsAssumption`. The one that carries weight is
that no two listed symbols are configured with the same locate, and no two symbols of the tape have the same one: with
a shared locate the directory may leave one of the two venues without messages.

**Only model-checked.** The books (`MapExact`, `ParkedExact`, `IndexesExact`, `ImplementsRefBook`) and the
venue's feed (`PublishedBookExact`, `AnswersMatchFeed`).
`BookBuilder` and `FlatHashMap` are written with folds over the whole table and `SelectSeq`, and the facts the
proofs would need about these are inductions over data with the prover's operator-parameter theorems. The told
book of `VenueFeed` is likewise a fold of `Applied` over the messages. `UnknownNeedsDisruption` with test orders, as said above.
Liveness (`PendingResolves`, `ColdResponds`, `RequestsAnswered`, `ShutdownEnds`, `SessionRuns`) is out of reach
altogether.

## 6. Not modelled

Byte layouts and framing, configuration, file reading, memory and platform wrappers, status and
report output, the NIC backends and the offline validator have no protocol behaviour of their own. The
strategy's floating-point arithmetic is replaced by whole ticks; a fair value exactly on a tick
(an empty interval) is not represented. `warmReconcile` restores what it changes and is left out.
The backends with a NIC of their own pair transmit stamps through a ring of completions instead of
an error queue; only the socket path is modelled. A book table with scope `All`, used without a
cold shard, can bind a symbol's directory message to a book that was filled as a cold one in an
earlier epoch and is emptied only by its next message; the operators cover that scope, the run
has the two scopes of the threaded set-up. The buckets of `Histogram` are a library's.

## 7. What remains

1. `PublishedBookExact` and `AnswersMatchFeed`, from the lemmas about `Venue` in `OrderEntryLemmas`, once the
   reader's book is stated by what it shows of each order.
2. Lemmas about `FlatHashMap`: what find, insert and erase promise each other.
3. `OrderBook`'s levels, pool and free list refining the sequences of `Venue`.
4. The completion path of the NIC backends for transmit stamps.
