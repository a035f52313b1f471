# A TLA+ model of MiniHFT

This directory specifies and verifies the parts of MiniHFT whose correctness is hard to
test: the lock-free rings and the programs that measure them, the MoldUDP64 feed from sender
to receiver, and the order books built from it. The modules are translated from the source,
path by path as listed in `PROJECT.json` ("map"); TLC checks them on small instances, and
TLAPS proves what matters most for every value of the constants.

Paths below are relative to the repository.

## 1. The system

    gen_itch --> file --> ItchReader --> PacketWriter      (mold_send)
                  |                          |
                  |                    UDP feed A, feed B  (UdpSocket; loses, delays, reorders)
                  |                          |
                  |   mold_recv: poll sockets --> decode --> mold::Sequencer
                  |                                               |
                  +--> ItchReader (itch_replay) ----------> itch::dispatch
                                                                  |
                    TopOfBook listener <-- ItchBookBuilder <------+
                                            |       |      |
                                     L3OrderBook OrderIndex ObjectPool

    RingBuffer and its variants: producer thread --> consumer thread
                 (ring_study, ring_latency, ring_bench; LatencyHistogram)
    KernelBypass: simulated network card --> polling driver
    OrderBook: the first book, which matches orders itself; measured against
               the builder's by orderbook_latency

| Component | State | Operations | Interacts with |
|---|---|---|---|
| `RingBuffer` | atomic `head`, `tail`; a private cached copy of the other side's index in each side; slots | `claim`, `publish`; `peek`, `consume` | one thread each side, through two release/acquire edges |
| `RingV0`..`RingV2` | the same, with or without private copies, publishing in batches | the same, and `flush` | `runRing` |
| `runRing`, `ring_study`, `ring_latency`, `ring_bench` | stamps in the messages, histograms, `outOfOrder`, `negativeDeltas`, `g_failed` | two threads: paced or burst producer, checking consumer; the runs one after another; exit code | a ring, the time-stamp counter |
| `LatencyHistogram` | a count per bucket | `record`, `valueAtPercentile` | `runRing`, `itch_replay` |
| `KernelBypass` | descriptors with an atomic `ready` flag; the card's and the driver's positions | `nicReceive`; `poll` | one thread each side |
| `mold::decode` | none | validates a datagram | socket buffer to Sequencer |
| `mold::Sequencer` | `next_`, `known_`, sorted `held_` packets, session, ended, statistics | `onPacket`, `giveUpGap`, `gapOpen`, `ended` | calls the caller's `deliver` for each message |
| `mold::PacketWriter`, `mold_send` | packet under construction, next sequence number | `begin`, `add`, `finish`, `control`; `flush`, `send` | ItchReader, UdpSocket |
| `mold_recv` | sockets, `gapSince`, `firstArrival`, `lastArrival`, counters | polling loop, gap timer, idle timer, closing loop, exit code | UdpSocket, Sequencer, books, clock |
| `ItchReader` | sliding buffer, `begin_`, `end_`, counters | `next`, `ensure` | a FILE |
| ITCH encoders, decoders, `dispatch` | none | bytes to handler calls and back | `gen_itch`, the builder |
| `BasicItchBookBuilder` | one `L3OrderBook` per instrument, `OrderIndex`, `ObjectPool`, trading state, statistics | a handler per message type | `dispatch` calls it; it calls the Listener |
| `L3OrderBook` | two sorted vectors of levels; intrusive lists of orders | `add`, `reduce`, `remove`, queries | orders live in the pool |
| `OrderIndex` | open-addressing table, size | `find`, `tryInsert` (may rehash), `erase` (backward shift) | keys are order references |
| `ObjectPool` | blocks, newest block's `used`, free list in the released slots' memory | `acquire`, `release` | the builder's orders |
| `gen_itch`, `itch_replay` | the file written; reader, books, snapshots | the messages written; the loop, snapshots and exit code | the file |
| `OrderBook` | two sorted vectors of orders | `addOrder`, `match` | `orderbook_latency`, `MarketSimulator` |
| `orderbook_latency` | both books, rounds, trades counted | a take and a make per round; comparison | `OrderBook`, the builder |
| `UdpSocket` | a descriptor | `receive`, `sendTo` | kernel |
| `MarketSimulator`, `Strategy`, `Network`, `FpgaPipeline`, `main`, `Matrix`, `Statistics` | random prices, quotes, delays, numbers | a simulation in one thread | one another |
| `Tsc`, `ThreadUtils` | none | time stamps, pinning | hardware, kernel |

**What is hard in it.** Threads: each ring has no lock, each side acts on a copy of the
other's index that may be arbitrarily old, and only two memory orderings stand between a
slot and a data race; the variants also put publishing off. Messages: two feeds lose, delay,
repeat and reorder packets, the end-of-session packet too. Time: a gap timer races late
packets, an idle timer ends the program, two cores' counters disagree, and a producer held
up by a full ring measures its own delay away. Long sequences of calls: a hash table that
moves entries on every erase, a pool whose free list lives in freed memory, linked queues
under a feed that reuses references. Limits: index wrap-around, a full ring, a full hold
buffer, sequence numbers at the top of 64 bits, a table that must grow, a message across the
end of a buffer. `PROJECT.json` lists each of these as a hazard at the line where it bites,
with the properties that would catch it.

**What makes each part correct.**
Rings: no data race, a slot has one owner, messages arrive once, in order, undamaged, and
all of them in the end. Measurements: a run that exits with 0 hid no negative delay and no
stall, and its percentiles are those of its delays. Sequencer: each message exactly once and
in order, all that is skipped counted as lost, nothing dropped uncounted. Sender: every
well-formed message of the file under the next number. Receiver: exit code 0 for a complete
and consistent session and for no other, every gap counted, nothing lost that lies unread,
an end even when the end-of-session packets are lost. Replay: handlers hear what was written;
exit code 0 for a whole and consistent file and for no other. Books: price-time priority,
totals and links that agree, an index that finds every live order and nothing else, a
listener that is never out of date, crossings counted exactly. Index: it is a map. Pool: one
owner per object, nothing lost. First book: a match leaves nothing crossed, overcharges
nobody and loses no shares.

## 2. The modules

| Module | Models | Composes / refines |
|---|---|---|
| `SpscQueue` | what a ring promises: a bounded queue | |
| `SpscRing` | `RingBuffer` with the two loops of `tests/SpscStress.hpp`, under release/acquire | refines `SpscQueue` |
| `NicRing` | `KernelBypass` with the two threads of its test | refines `SpscQueue` |
| `LatencyHistogram` | the histogram, as operators | |
| `RingHarness`, `MCRingHarness` | the variants of the ring under `runRing`, and the three programs that call it | `LatencyHistogram` |
| `SequenceNumbers` | the range of sequence numbers | |
| `InOrderDelivery` | what the sequencer promises: delivery in order with gaps given up | |
| `Sequencer` | `mold::Sequencer` as operators on its state, one per method | |
| `MoldSequencer` | a sequencer under every sequence of calls | `Sequencer`; refines `InOrderDelivery` |
| `MoldSender` | `PacketWriter` and the sending part of `mold_send`, as operators | `Sequencer`'s packets |
| `ItchReader` | the reader's buffer and `next()`, as operators | |
| `FileSender`, `MCFileSender` | `mold_send` from file to last packet | `ItchReader`, `MoldSender` |
| `L3OrderBook` | levels and linked orders, as operators | |
| `ItchBuilder` | the builder's handlers, as operators on one record of books, index, pool, listener and counters | `L3OrderBook` |
| `PriceTimeQueues` | what a book promises: a queue of orders at each price | |
| `ItchBook`, `MCItchBook` | the builder under every sequence of messages | `ItchBuilder`; refines `PriceTimeQueues` |
| `OrdersOfFeed` | what a feed means: the orders it leaves, and whether its messages fit together | |
| `MoldReceiver`, `MCMoldReceiver` | `mold_recv`'s loop, timers, books and exit over two lossy feeds | `Sequencer`, `MoldSender`, `ItchBuilder`; held to `OrdersOfFeed` |
| `MoldGapWait`, `MCMoldGapWait` | the same with a history of how long each message was missing | `MoldReceiver` |
| `ItchMessages` | lengths, encoders, decoders and `dispatch`, byte by byte | |
| `GenItch` | the file `gen_itch` writes | `ItchMessages` |
| `ItchReplay`, `MCItchReplay` | `itch_replay` on such files, whole or with one thing changed | `GenItch`, `ItchReader`, `ItchBuilder`; held to `OrdersOfFeed` |
| `OrderIndex` | the hash table, slot by slot | |
| `Allocator` | what a pool promises: an object of one's own | |
| `ObjectPool` | blocks, free list and the objects' memory | refines `Allocator` |
| `OrderBook` | the first book, as operators | |
| `BookBench` | `orderbook_latency` on both books, and any caller of the first | `OrderBook`, `ItchBuilder` |
| `NumberLemmas` | lemmas on `%`, on a queue of consecutive numbers, and induction on sets of numbers | |
| `SpscRingProofs`, `NicRingProofs`, `MoldSequencerProofs`, `MoldReceiverProofs`, `StorageProofs` (`OrderIndex` and `ObjectPool`), `ItchBookProofs`, `RingHarnessProofs` | theorems | |

### How state and actions correspond to the code

*Threads and memory* (`SpscRing`, `NicRing`, `RingHarness`). An atomic variable is the
sequence of all stores made to it; a load of the other thread's variable may return any store
not older than the last it returned. Each store carries a clock, the number of slot accesses
its thread made before it when it is a release and none when it is relaxed; an acquire load
learns the clock. An access is race-free when the other thread's last access of the slot is
within the clock known. A racing read may return a damaged message, so a missing release shows
as a damaged message as well as a race. `claim` and `peek` are two actions each, without and
with a load of the other index; the write or the copy of the slot between the calls is an
action of its own. In `SpscRing` indices wrap at `Modulus`, which stands for 2^64.

*Ring harness.* A variant is a record: whether it keeps private copies, its batch, whether it
has a `flush()`. V0's `fetch_add` is the store of a variable with one writer, so V0 and V1 are
one variant here, and so are V2 with and without its indices on one cache line, which differ in
speed only. Indices do not wrap (that is `SpscRing`'s subject). `now` is the
time-stamp counter of the producer's core and advances by any amount between any two steps,
which is all that the simulated work of `--work` could do; the consumer's counter is `skew`
apart. Histograms hold what the code records, `measured` the stamps behind them. A
percentile is a natural number and its rank is exact; `firstReceiveTsc`, `lastReceiveTsc` and
what is computed from them are only printed and left out, as are pinning and priorities.

*Sequencer.* `OnPacket` and `GiveUpGap` are whole handlers: hold, drain, skip and finish are
part of the step, in the order of the code. A message is a session and a number, a packet a
run of them, a heartbeat or the end of the session. `decode` appears as its sequence check;
that a datagram is malformed otherwise is a `Garbage` datagram in `MoldReceiver`.

*Sender.* A message is its bytes in `ItchReader` and only its length in `MoldSender`, as
nothing else decides how messages are cut into packets. `FileSender.ReadMessage` is one turn
of `next()`'s loop and what main does with its result. `--repeat` is one longer file.

*Receiver.* One action per socket polled, one for the two timers, one per gap closed at the
end. The network is the set of datagrams sent and not yet arrived: one that never arrives is
lost, the two feeds carry a copy each, and the order of arrival is free. A datagram's arrival
is seen by the next poll of its socket and by nothing else, so `Arrive` happens just before
a poll; the clock is read once a pass, so `Tick` happens just before the timers. A reading
is only ever compared with a wait, so a timer counts ticks and stops one past the wait. The
books see only what is delivered, in that order, so `builder` is computed from
`sequencer.delivered` instead of being held in the state. Each packet is sent once for each
feed, and `mold_send`'s `--drop-a` and failing sends are datagrams that never arrive.

*Books.* Each handler of `ItchBuilder` does the lookup, the change, the release of the slot,
the counting and the call of the listener, in the order of the code. Pointers are pool slots;
`acquire()` gives some free slot (which one makes no difference; what the
pool gives is `ObjectPool`'s subject) and the index is the map that `OrderIndex` is proved to be.
Counters that only reports read are left out; those that decide an exit code are in.

*Files and replay.* `ItchMessages` has every field at its offset with its width, big-endian.
TLC's integers are below 2^31, so an hour is scaled (`kHour`) and every value written is
small; the encodings are full width nonetheless. `itch_replay`'s snapshots record which quotes
they show; latencies and tables are left out. A `FILE` returns what is asked for up to its end.

*First book.* Prices are ticks: the doubles of the code are only compared. An order joins in
front of its equals, as `lower_bound` has it, so no time priority is claimed of it. In
`BookBench` the two books go round by round together, though the program runs one after the
other, so that they can be compared after each round. A `Depth` of 10,000 would take the
benchmark's bid prices below zero; the assumption `Depth <= kBestBid` excludes that.

*Index and pool.* `rehash()` and the backward shift of `erase()` take a step per iteration,
so that the table is also looked at in the middle of them; a probe is one step. The hash is
any function: Fibonacci hashing is one of them. A pool slot's memory holds an object or a
free-list link, and users write to the objects they hold at any time.

## 3. The runs

All bounds are constants of the `.cfg` files. Numbers are distinct states.

| Run | Question | Bounds, and why they are enough |
|---|---|---|
| `spsc_ring` (2,233) | Is the ring race-free, one owner per slot, in order, complete, and a bounded queue? | `Size` 4, `Modulus` 8, `Total` 18: the indices wrap twice and each slot is used four times, and full and empty rings occur at every index value. The theorems need no bound. |
| `ring_study` (579,414) | Do the variants race or strand a message, and are exit code, percentiles and the paced measurement worth what the comments say? | 2 slots, batches of 1 and 2, so that a batch may be the whole ring; burst runs of 5 messages after 2 of warm-up, more than three laps of the ring, and a paced run of 2 after 1 of warm-up. Histograms of 4-bit values with 2-bit buckets: linear and doubling buckets. The counter jumps by 1 or by 4, past the next two sends, and the consumer's core may be a tick behind. |
| `nic_ring` (216) | The same questions as the ring's for the card's flags. | 3 descriptors, 8 packets: more than two laps. Few states because each flag has few stores a thread may still read. The theorems need no bound. |
| `mold_sequencer` (11,279) | Does the sequencer deliver each message once and in order, count exactly what is missing, and lose nothing silently? | Any 4 calls with any packet of two sessions, numbers 0..6, up to two messages, hold buffer of 2. Four calls are what it takes to fill the hold buffer, overflow it and come back to a held packet; overlapping packets, 0 as a number and the overflow of numbers are among the packets. |
| `file_sender` (242,154) | Is every well-formed message of a file sent, once and in order, wherever the file is cut off? | Files of up to 4 messages of 0 to 3 bytes, good or bad, cut at every byte; starting buffers of 0 to 20 bytes, so that every message lies across the end of some buffer; packets of at most two messages. |
| `mold_receiver` (239,032) | What are the exit code and the lost counter worth, and does the program stop? | Five sessions of 3 messages, in three, two or one packet, that fit the books or not, two feeds, one end packet per feed: two separate gaps at once, and data overtaken by the end. In one session a malformed datagram may come on feed A. Orders have one reference, so the pool needs two slots. The hold buffer takes one packet (4096 in the program), so that a second packet beyond a gap overflows it. More copies of the end only make its loss less likely. Waits of 0 ticks, the shortest, so that every timer may run out at any pass. |
| `mold_gap_wait` | Violated: see section 6. | three packets, waits of 1 tick |
| `itch_book` (30,078) | Are books well formed and price-time queues, are orders ever stranded, the listener ever stale, crossings ever missed or invented? | 2 instruments, 3 references, 2 prices, one size, so that executions are short, exact or over, and one slot more than references as `addOrder` acquires before it knows: queues of three, an order removed from the middle, books crossed and not, open and closed, halted and trading. |
| `itch_replay` (8,621) | Do the handlers hear what was written, and does the exit code tell a consistent file from any other? | The file for 4 orders of flow, 2 resting at a time, and every file that differs from it by one message, dropped, repeated, put in, a byte short, foreign, or cut off, at each of its places; a buffer of 100 bytes, about three messages. |
| `book_bench` (132,885) | Do the two books agree, and is matching fair? | The benchmark: depth 3, four rounds of every side and level, one of them warm-up. Any caller: 4 orders of 3 prices and 3 sizes, so that one order trades with several and is filled in part. |
| `order_index` (387,408) | Is the table the map its callers built, for every hash, and does every call return? | 3 keys, capacities 2 to 8, every function from keys to hashes: every cluster of three, around the end of the array too, and two rehashes. The theorems need no bound. |
| `object_pool` (35,124) | Is every object its user's own, and no slot lost? | 5 users, blocks of 2: three blocks, free lists up to five. The theorems need no bound. |

`itch_book` uses the symmetry of instruments and references, which are model values there:
it checks no liveness, and nothing tells them apart. No run constrains states: bounds are
guards. Deadlock is checked everywhere: the systems that end have an explicit action for
having finished, and the others always have a next call.

### Fairness

* `SpscRing`, `NicRing`, `RingHarness`: the loops spin without blocking, so the steps of a
  thread are weakly fair. A store becomes visible to other threads in a finite time (the C++
  standard asks it of implementations), so the load that reads the newest store is fair, and
  only that. In `RingHarness` `main` goes on when the threads have joined, and time
  passes, for a paced producer to come to its next message.
* `MoldReceiver`: the loop busy-polls, so `Loop` is weakly fair (`LoopGoesOn` is that, written
  out: `Loop` is possible until the exit). Time passes, but between one
  pass and the next it need not, and a tick is possible only between polling and timers:
  hence strong fairness of `Tick`. The network promises nothing: `Arrive` has no fairness.
  `Stops` therefore begins with something having arrived, as the code does not stop before.
* `OrderIndex`: a call that has started goes on.
* Everything else is safety.

## 4. What is proved

All theorems hold for every value of the constants that satisfies the modules' assumptions.
Each module of proofs begins with its argument.

**`SpscRingProofs`** (`Size` positive, `Modulus` a larger multiple of it, as a power of two
and 2^64 are). `TypeOK`, `NoDataRace`, `OneOwnerPerSlot`, `ReceivedInOrder`, and that the ring
implements `SpscQueue` but for its fairness (`ImplementsQueueSafely`). None is inductive by
itself: that a stale cached index is harmless depends on what every earlier store published.
The inductive invariant is `TypeOK` with `IndicesAgree`: store *n* of an index has value
*n* mod `Modulus` and releases *n* accesses; hence a thread that has read it knows *n* accesses;
and *tail seen ≤ consumed ≤ head seen ≤ published ≤ tail seen + Size*. Inside that window
messages have slots of their own (a lemma on `%`), so no access races. What waits in the ring
is always the numbers from *consumed* to *published*, so each step is a `Send`, a `Receive`
or nothing to the queue.

**`NicRingProofs`** (`RingSize` positive). `TypeOK`, `NoDataRace`, `FlagsAgree` (a set flag is
a packet not yet taken), and that the card's ring implements `SpscQueue` but for its fairness.
There are no indices here to compare. What makes it inductive is `Fresh`: only the card sets
a flag and only the driver clears it, so of the stores a thread may still read only the newest
has the value it waits for. A card that reads "clear" has therefore read the driver's
last store, and knows its last access.

**`StorageProofs`, the index** (finitely many keys, `kEmpty` not among them, room for them in the
largest capacity). `TypeOK`, `ProbesUnbroken` and `IsTheMap`: for every hash function and any
number of doublings each key is found with its value, and each absent one is not. The
strengthening says that no key is in two slots, how many slots are used, and that what is
live in the table and what `rehash()` has yet to place are together the map. That a probe
ends at an unused slot at all needs a count of slots; that there is a first one, that every
set of numbers has a least (`Least` of `NumberLemmas`, from the library's `WFMin`). With
`erase()`'s test made wrong by one (`StaysAtHole`) the proof fails where it should.

**`StorageProofs`, the pool** (`BlockSize` positive, `Null` not a slot). `SlotsPartitioned`,
`FreeListIntact`, `GrowsOnlyWhenAllInUse`, and that the pool implements `Allocator`.
`SlotsPartitioned` needs to know what the free list's links are, and `FreeListIntact` that no
user writes to a free slot, so they are inductive only together, with the types and with
`HoldersHaveObjects` (what a user holds is an object, not a link).

**`ItchBookProofs`** (`kEmpty` not a reference, finitely many references, more slots than
references, prices positive, sizes up to `MaxShares`, `Null` not a slot). All five properties of
the `itch_book` run, for any feed, any number of instruments and orders of any size.
`IndexFindsEveryOrder` and `ListenerIsCurrent` do not depend on levels or links: of
`L3OrderBook` it is enough that every order keeps its reference and instrument when it is
queued, reduced or unlinked. The invariant (`IInv`) adds the shape of the builder's records, and
that each live order's instrument is one of the builder's, so that `changeBook()` looks at the
book that changed. That `addOrder()` always finds a free slot is a consequence: live orders have
references of their own, so they are no more than the references. A replace passes through a
book that the listener is not told of; the lemma on `ChangeBook` asks only that no other book
has changed since it last ran.

`BooksWellFormed`, `ImplementsQueues` and `CrossingsAreCounted` need to know what the links of
the orders and the levels of the books have to do with each other, and `BookInv` says it by way
of what neither of them is: there are queues *Q*, a sequence of slots for each instrument, side
and price, that the books stand for (`Stands`). Every slot handed out is in the sequence of its
order's place and in no other, once, and its links are its neighbours there (`Line`); the levels
of a side are sorted, are those of the sequences that are not empty, and each has the ends of
its sequence, its length and the sum of its sizes (`Describes`). So `add()` is an append,
`remove()` takes an element out, wherever it is, and `reduce()` leaves the sequences alone
(`EnqueueStands`, `UnlinkStands`, `ReduceStands`): that the neighbours of what is removed are
the two that are linked, and that a level is dropped just when its sequence is empty, is proved
here. The sums are a recursive function, on which `SharesApart` is the one induction: where two
queues have the same sizes from some place on, their sums stay as far apart as they are there.
The refinement mapping follows the links of a level from its head, and finds its sequence
(`QueueAtIs`), so each handler is a step of `PriceTimeQueues` or a stutter. And a book is
crossed if some bid's sequence is at or above some ask's (`CrossedIs`), so that a cancel, a
delete or the first half of a replace crosses no book, which is why it is enough that the end of
`addOrder()` counts.

**`MoldSequencerProofs`** (`MaxNumber` and `kEndOfSession` positive, `MaxHeld` a natural number,
`NoSession` not a session). `TypeOK`, `ExactlyOnceInOrder`, `LostIsWhatIsMissing`, `NothingVanishes`,
`HeldBeyondGap`, the action property `GiveUpLosesOnlyMissing`, and that the sequencer implements
`InOrderDelivery`: for any packets and calls, duplicate, overlapping, reordered or of another
session. A method leads from one `Good` state (the held packets sorted, none of them
longer than what is known, the delivered numbers increasing) to another, and what a whole call does
is put together from three relations. `Skips`: numbers that no packet in hand carries are counted
as lost. `Moves`: delivery goes on through the numbers in hand and those of the packet that
came, and what is left of them is still in hand. `Conserves`: every message is delivered, held
or counted as a duplicate. The turns of `drainHeld()` compose to one `Moves`, a call is a `Skips`
and then a `Moves` (`OnPacketCorrect`, `GiveUpGapCorrect`), and this keeps the account the invariant
keeps of all that ever came (`Accounted`): what is not delivered and not held never came. That
`lost` equals the numbers missing is then a matter of counting, as the delivered numbers
increase. The induction over the turns of the loop, and over the held packets for the sum of
their messages, is over sets of numbers (`Induction`), which is why both are
recursive functions. A call may deliver and give up at the same time, or, with a packet
that shows only what is delivered, neither: `Implements` maps each case to a step of the
delivery or a stutter.

The three promises of `InOrderDelivery` (`InOrder`, `PastIsAccounted`, `WaitingBeyondGap`) are
proved of the sequencer itself, under the refinement mapping: numbers are delivered once and in
increasing order, each one passed was delivered or given up and never both, and what waits lies
beyond a gap.

**`MoldReceiverProofs`** (assumptions: `MaxNumber` and `MaxHeld` as above, `kEndOfSession` above
1, a session that is not `NoSession`, one socket or two, any finite set of references smaller
than the pool's `Room`, and feeds shorter than `MaxNumber` of messages about one instrument that
each fit a datagram). All four safety properties of the `mold_receiver` run, for every such session,
any size of datagrams and hold buffer, and any loss, delay and reordering. The lemmas on the
sequencer's methods are those of `MoldSequencerProofs`, which that module states for any state of the
sequencer; they are taken over by `INSTANCE`.

What `mold_send` sends (`SentForIs`) are consecutive runs of the session's numbers, and then ends.
Of such packets the invariant says that only they wait in the network and the queues, that the
sequencer never goes past the last message, and that what it went past it delivered or counted
(`SequencerOf`, kept by `StepsAccount`): this gives `ExitCountsEveryGap` and
`EndedMeansAllAccounted`.

That the loop gives up nothing unread (`NoneLostUnread`, theorem `LoopDrainsFirst`) rests on what a
pass knows of the sockets polled so far (`PolledInv`): `got` is FALSE only if each was found empty.
The property is about the timers and the closing of the last gaps. One other step gives up a gap:
`Overflow`, the reading of a packet beyond `next` when the hold buffer is full, which looks at no
socket and may well count messages that lie in one (section 6; the run reaches it).
`OnlyOverflowLosesUnread` says that this is all: every step that is not an `Overflow` counts as lost
no message that lies unread, for any session and buffer.

`CleanMeansComplete` takes three steps. What was delivered in increasing order, with nothing lost,
is 1..*n* (`AllNumbers`). The builder is what a fold of `Handle` over the delivered messages leaves, and
the meaning of the session a fold of `Follow` over the same (`BuilderIs`, `LeavesAre`). And one
message does the same to both (`HandleShows`): the orders that the index finds are those
`OrdersOfFeed` has, `unknownRefs` and `overExecutions` stay 0 just while its `unmatched` is FALSE, and
the pool always has a slot, as the live orders are fewer than the references.

**`RingHarnessProofs`** (`Size` and `WarmupShare` positive, batches of 1 to `Size`, natural numbers
for the options, finitely many integers for the difference of the clocks; and, as the provers have
no powers, `WordAssumption`: 2^`ValueBits` is a positive natural number). `NoDataRace` of every
variant and `ExitIsEarned` of every program, for any number and length of runs. The variants differ
in which indices they copy, hold back and read again, so the invariant asks of none of them how it
does it: with *t* the newest store of `tail` the producer has read and *h* that of `head` the
consumer has read, *t ≤ consumed ≤ h ≤ published ≤ sent*, and *sent < t + Size* once a slot is
claimed (`ProducerInv`, `ConsumerInv`). Unlike in `SpscRing`, what is written and what is published
differ, by the batch held back. A store's value is the number of accesses it releases (`IsIndex`),
so who read it knows as many, and messages of one slot are at least `Size` apart (`SlotsApart`), so
no access races. The slots from *consumed* to *sent* then hold the next messages (`BufferInv`): what
is received is in order and is recorded once, and a negative delay is one of the `negativeDeltas`
that make the program fail (`MeasureInv`). That `ring_bench`'s wrapped total is the sum of its
delays is an append to the fold (`SumAppend`) and a lemma on sums under `%` (`ModSum`).

**`NumberLemmas`** are facts about `%` and consecutive numbers that the proofs share, and
`Induction`: a set of numbers that has 0, and *n* + 1 with every *n*, has all. It takes a set where
the library's theorem takes an operator, and follows from `Least`.

The type invariants, `FlagsAgree`, `GrowsOnlyWhenAllInUse`, `OnlyOverflowLosesUnread` and the three
promises of `InOrderDelivery` are proved and have no run of their own.

**Only model-checked.** Liveness (`AllReceived`, `Ends`, `Stops`, `CallsReturn`) and the fair
refinement of `SpscQueue`: the prover has no rule for fairness. `SendsTheWholeFile` and
`ReportsTheFile`, `HearsWhatWasSent` and `ExitTellsTheFile`, `BooksAgree`, and the percentiles of the
histogram (`PercentilesAreClose`, `StallsAreNotHidden`): they are about what recursive operators
(`Match`, the reader's loop, the encoders) or powers and sorts compute, for which the library's induction
takes an operator that the installed provers cannot instantiate. `MatchingIsFair` is about
`Match` too. (`EveryGapGetsItsWait` the code violates: section 6.)

## 5. What is not modelled

* The simulation (`main`, `MarketSimulator`, `Strategy`, `Network`, `FpgaPipeline`),
  `Matrix`, `Statistics`: floating point in one thread, with no interaction to check.
* `Tsc`, `ThreadUtils`, set-up of `UdpSocket`: calls to hardware and kernel. Of `UdpSocket`
  only `receive()` is modelled, and of that not its errors.
* Of the builder: the depth histogram, the peak, message counts, times and the list of the first
  100 crossings. Nothing reads them but reports.
* Of `mold_send`: arguments, pacing, and the refusals of `sendTo()`, which the network's losses
  include.
* Of the benchmarks: arguments, tables, the JSON report, latencies in nanoseconds, the untimed
  repetition of the book benchmark, `ring_buffer_bench` (a single-threaded loop of a benchmark
  library).
* The printing of all programs, and `itch_test`, `net_test`, `hw_bench`, which only print.
* Running out of memory, and a read error in the middle of a file.
* Scripts, build files, tests and fuzzers, which were read for what they expect of the code.

One more hazard was looked at and dropped: `tryInsert()` may move entries under a pointer that
`find()` returned (`OrderIndex.hpp:52`), but the builder keeps no pointer across a call.

## 6. Where code and comments disagree

One is shown by a run that TLC finds violated:

* **`EveryGapGetsItsWait`** (`mold_gap_wait`). `gapSince` is reset only in a pass that finds
  no gap open (`src/mold_recv.cpp:138`). When the packet that fills one gap arrives in the
  same pass as one that shows the next gap, or that gap was there already, the timer runs
  on, and the second gap is given up before its own wait. `mold_recv.cpp:14` says
  "--gap-wait-us is how long a gap may stay open before its messages are counted as lost".

Others were met on the way and have no run:

* With the hold buffer full `onPacket` gives up the oldest gap before it looks at the packet in
  hand (`MoldUdp64.hpp:206`). If that packet lies inside the gap its messages are counted as
  lost, then dropped as duplicates, although they have come; so may others be that lie unread in
  a socket. `MoldUdp64.hpp:159` says of `giveUpGap` that "Its missing messages are counted". The models have this step
  (`MoldReceiver.Overflow`): `GiveUpLosesOnlyMissing` is stated for `giveUpGap()` as its callers use
  it, `NoneLostUnread` for what `mold_recv`'s loop itself gives up.
* When the times of two snapshots pass between two messages, `itch_replay` prints the first
  before the next message is applied and the second after it (`bench/itch_replay.cpp:124`, an `if`
  where a `while` would print both), though lines 2 and 3 promise books as they were at those
  times. `SnapshotDue` models it.
* `mold_recv`'s exit code ignores `duplicateRefs` (`mold_recv.cpp:211`), which `itch_replay`
  counts as a failure (`bench/itch_replay.cpp:224`), while lines 22 and 23 promise "Exit code 0
  only if [...] the books consistent". `CleanMeansComplete` and `ExitTellsTheFile` state each
  program's own rule.
* `OrderIndex::tryInsert` of a key that is present may rehash first, though its comment
  (`OrderIndex.hpp:48`) says it changes nothing. `OrderIndex.StartRehash` models it.
* A pointer returned by `OrderIndex::find` dies at the next `erase()` too; the comment
  (`OrderIndex.hpp:37`) says at the next `tryInsert()`.

## 7. Plan

Done: the rings, their variants and programs; the sequencer and its abstract delivery; sender,
reader and file; receiver with books; books, index and pool; replay from encoder to exit code; the
first book against the second. The safety properties are proved of the rings, the sequencer, the
receiver, the books, the index, the pool and, but for the percentiles, the ring programs, and it is
proved that rings, sequencer, books and pool implement their abstract specifications.

Left: `SendsTheWholeFile`, `ReportsTheFile`, `HearsWhatWasSent`, `ExitTellsTheFile`, `BooksAgree`
and `MatchingIsFair` (recursion), the percentiles of the histogram (powers and sorts) and liveness:
a proof of the first group would begin with the reader's, the encoders' and `Match`'s loops as
recursive functions and the lemmas of section 4 for their steps.
