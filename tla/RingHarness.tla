----------------------------- MODULE RingHarness ----------------------------
(***************************************************************************)
(* The ring buffer's variants (bench/RingVariants.hpp) and the programs    *)
(* that send messages through one between two threads and time them:       *)
(* runRing() (bench/RingHarness.hpp) in ring_study and ring_latency, and   *)
(* the loops of ring_bench.                                                *)
(*                                                                         *)
(* Memory is modelled as in SpscRing: an index is the sequence of the      *)
(* stores to it, each with the clock of slot accesses its release          *)
(* publishes, and the other thread reads any store not older than the one  *)
(* it read last.  Indices do not wrap here; SpscRing is about that.        *)
(*                                                                         *)
(* `now` is the time-stamp counter of the producer's core; the consumer's  *)
(* may be apart from it, which the harness is to notice.  Left out: the    *)
(* busy work of the --work options (time passes between any two steps),    *)
(* pinning and priorities, and the whole-run times, which are only printed.*)
(***************************************************************************)
EXTENDS LatencyHistogram, Sequences, SequencesExt

CONSTANTS
  Size,           \* slots of the ring: 1024 in the programs
  Batches,        \* the Batch parameters studied: 1, 4, 16 and 64
  Reps,           \* --reps
  BurstMessages,  \* --burst
  PacedMessages,  \* --paced, --messages of ring_latency, MSG_COUNT of ring_bench
  WarmupShare,    \* ring_study sends one message in so many more first: 10
  Warmup,         \* --warmup of ring_latency
  Intervals,      \* --interval-ns, in ticks
  Lead,           \* ticks from the start to the first send: 1 ms
  Jumps,          \* by how much the counter may advance between two steps
  MaxTime,        \* bounds the counter
  Skews           \* what the consumer's counter shows beyond the producer's

ASSUME RingAssumption ==
  Size \in Nat \ {0} /\ Batches \subseteq 1..Size /\ WarmupShare \in Nat \ {0}
ASSUME OptionsAssumption ==
  /\ {Reps, BurstMessages, PacedMessages, Warmup, Lead} \subseteq Nat
  /\ Intervals \subseteq Nat /\ Jumps \subseteq Nat
ASSUME SkewsAssumption == IsFiniteSet(Skews) /\ Skews \subseteq Int

VARIABLES
  program, variant, skew,
  runs,         \* the configurations of the runs, the present one first
  head, tail,   \* stores to the shared indices, oldest first
  buffer,       \* the message in each slot, with the number of its write
  lastRead,     \* the number of the last read of each slot
  ready,        \* consumerReady
  p,            \* the producer: pc, its private state, what it knows
  c,            \* the consumer
  now,
  results,      \* RingRunResult
  measured,     \* the stamps behind the histograms' entries, in order
  failed,       \* g_failed
  exit

ring == <<head, tail, buffer, lastRead>>
report == <<results, measured>>
settings == <<program, variant, skew, runs>>
vars == <<settings, ring, ready, p, c, now, report, failed, exit>>

-----------------------------------------------------------------------------
(* What is run.                                                            *)

Variants ==
  {[cached |-> FALSE, batch |-> 1, flushes |-> FALSE]}       \* V0 and V1
    \cup {[cached |-> TRUE, batch |-> 1, flushes |-> FALSE]} \* RingBuffer
    \cup {[cached |-> TRUE, batch |-> b, flushes |-> TRUE] : b \in Batches}

Run(messages, warmup, interval, recordLatency) ==
  [messages |-> messages, warmup |-> warmup, interval |-> interval,
   recordLatency |-> recordLatency]

StudyRuns(interval) ==
  [rep \in 1..Reps |-> Run(BurstMessages, BurstMessages \div WarmupShare, 0, FALSE)]
    \o <<Run(PacedMessages, PacedMessages \div WarmupShare, interval, TRUE)>>
LatencyRuns(interval) == <<Run(PacedMessages, Warmup, interval, TRUE)>>
BenchRuns == <<Run(PacedMessages, 0, 0, TRUE)>>

RunsOf(prog, interval) ==
  CASE prog = "ring_study"   -> StudyRuns(interval)
    [] prog = "ring_latency" -> LatencyRuns(interval)
    [] prog = "ring_bench"   -> BenchRuns

cfg == Head(runs)
Total == cfg.warmup + cfg.messages
Paced == cfg.interval > 0

NewProducer ==
  [pc |-> "waiting", i |-> 0, start |-> 0, writeIdx |-> 0, cachedTail |-> 0,
   tailSeen |-> 1, readsKnown |-> 0]
NewConsumer ==
  [pc |-> "starting", i |-> 0, cachedHead |-> 0, headSeen |-> 1, writesKnown |-> 0]
NewResults ==
  [sendToReceive |-> EmptyHistogram, intendedToReceive |-> EmptyHistogram,
   outOfOrder |-> 0, negativeDeltas |-> 0,
   totalLatency |-> 0]  \* ring_bench's; it has no other

\* Only differences of times matter: every run's clock starts here.
Epoch == Max({0 - s : s \in Skews} \cup {0})

NewIndex == <<[value |-> 0, clock |-> 0]>>
Slots == 0..(Size - 1)
NoMessage == [seq |-> 0, intended |-> 0, sent |-> 0, write |-> 0]
Damaged == [seq |-> -1, intended |-> 0, sent |-> 0, write |-> 0]

Init ==
  /\ program \in {"ring_study", "ring_latency", "ring_bench"}
  /\ variant \in Variants
  /\ program # "ring_study" => variant.cached /\ ~variant.flushes
  /\ skew \in Skews
  /\ \E interval \in Intervals : runs = RunsOf(program, interval)
  /\ head = NewIndex /\ tail = NewIndex
  /\ buffer = [s \in Slots |-> NoMessage] /\ lastRead = [s \in Slots |-> 0]
  /\ ready = FALSE /\ p = NewProducer /\ c = NewConsumer
  /\ now = Epoch
  /\ results = NewResults /\ measured = <<>>
  /\ failed = FALSE /\ exit = "none"

-----------------------------------------------------------------------------
(* The ring.                                                               *)

SlotOf(index) == index % Size
Newest(stores) == Len(stores)
Value(stores) == stores[Newest(stores)].value
Acquire(known, store) == IF store.clock > known THEN store.clock ELSE known

LooksFull(h, t) == h - t >= Size
LooksEmpty(h, t) == t = h

\* V0 and V1 have no private index: their producer reads its own head.
WriteIdx == IF variant.cached THEN p.writeIdx ELSE Value(head)

\* V0 and V1 read the other side's index on every call, V2 only when the ring
\* looks full, or empty, by the copy.
ClaimReads == ~variant.cached \/ LooksFull(WriteIdx, p.cachedTail)
PeekReads == ~variant.cached \/ LooksEmpty(c.cachedHead, Value(tail))

\* publish() holds the message back until its batch is full.
Publishes == WriteIdx + 1 - Value(head) >= variant.batch

\* Mutant: the indices are stored relaxed.
StoreRelaxed(index, value, clock) ==
  Append(index, [value |-> value, clock |-> 0])
Store(index, value, clock) == Append(index, [value |-> value, clock |-> clock])

-----------------------------------------------------------------------------
(* The producer thread.                                                    *)

\* ring_bench's producer does not wait for the consumer.
Start ==
  /\ p.pc = "waiting" /\ (ready \/ program = "ring_bench")
  /\ p' = [p EXCEPT !.pc = "sending", !.start = now + Lead]
  /\ UNCHANGED <<settings, ring, ready, c, now, report, failed, exit>>

Intended == p.start + p.i * cfg.interval

\* Mutant: a paced producer does not wait for its time.
DueAlways == TRUE
Due == Paced => now >= Intended

\* claim() without and with a read of store s of tail; nullptr is asked again.
Claim ==
  /\ p.pc = "sending" /\ p.i < Total /\ Due
  /\ ~ClaimReads
  /\ p' = [p EXCEPT !.pc = "claimed"]
  /\ UNCHANGED <<settings, ring, ready, c, now, report, failed, exit>>

ClaimReading(s) ==
  /\ p.pc = "sending" /\ p.i < Total /\ Due
  /\ ClaimReads
  /\ s \in p.tailSeen..Newest(tail)
  /\ p' = [p EXCEPT
             !.pc = IF LooksFull(WriteIdx, tail[s].value) THEN @ ELSE "claimed",
             !.cachedTail = IF variant.cached THEN tail[s].value ELSE @,
             !.tailSeen = s,
             !.readsKnown = Acquire(@, tail[s])]
  /\ UNCHANGED <<settings, ring, ready, c, now, report, failed, exit>>

WriteMessage ==
  LET slot == SlotOf(WriteIdx)
      message == IF cfg.recordLatency
                 THEN [seq |-> p.i, intended |-> Intended, sent |-> now, write |-> p.i + 1]
                 ELSE [buffer[slot] EXCEPT !.seq = p.i, !.write = p.i + 1]
  IN /\ p.pc = "claimed"
     /\ buffer' = [buffer EXCEPT ![slot] = message]
     /\ p' = [p EXCEPT !.pc = "written"]
     /\ UNCHANGED <<settings, head, tail, lastRead, ready, c, now, report, failed, exit>>

Publish ==
  /\ p.pc = "written"
  /\ p' = [p EXCEPT !.pc = "sending", !.i = @ + 1, !.writeIdx = @ + 1]
  /\ head' = IF Publishes THEN Store(head, WriteIdx + 1, p.i + 1) ELSE head
  /\ UNCHANGED <<settings, tail, buffer, lastRead, ready, c, now, report, failed, exit>>

\* Mutant: nobody calls flush().
FlushesNever == FALSE
Flushes == variant.flushes

Flush ==
  /\ p.pc = "sending" /\ p.i = Total
  /\ p' = [p EXCEPT !.pc = "done"]
  /\ head' = IF Flushes THEN Store(head, WriteIdx, p.i) ELSE head
  /\ UNCHANGED <<settings, tail, buffer, lastRead, ready, c, now, report, failed, exit>>

-----------------------------------------------------------------------------
(* The consumer thread.                                                    *)

SignalReady ==
  /\ c.pc = "starting"
  /\ c' = [c EXCEPT !.pc = "receiving"]
  /\ ready' = TRUE
  /\ UNCHANGED <<settings, ring, p, now, report, failed, exit>>

Peek ==
  /\ c.pc = "receiving" /\ c.i < Total
  /\ ~PeekReads
  /\ c' = [c EXCEPT !.pc = "peeked"]
  /\ UNCHANGED <<settings, ring, ready, p, now, report, failed, exit>>

PeekReading(s) ==
  /\ c.pc = "receiving" /\ c.i < Total
  /\ PeekReads
  /\ s \in c.headSeen..Newest(head)
  /\ c' = [c EXCEPT
             !.pc = IF LooksEmpty(head[s].value, Value(tail)) THEN @ ELSE "peeked",
             !.cachedHead = IF variant.cached THEN head[s].value ELSE @,
             !.headSeen = s,
             !.writesKnown = Acquire(@, head[s])]
  /\ UNCHANGED <<settings, ring, ready, p, now, report, failed, exit>>

\* Mutant: a receive stamped before the send passes for no delay.
NegativeUncounted(from, to) == 0
Negative(from, to) == IF to >= from THEN 0 ELSE 1
Elapsed(from, to) == IF to >= from THEN to - from ELSE 0

Recorded(r, m, time) ==
  LET sent == [r EXCEPT !.sendToReceive = Record(@, Elapsed(m.sent, time)),
                        !.negativeDeltas = @ + Negative(m.sent, time)]
  IN IF Paced
     THEN [sent EXCEPT !.intendedToReceive = Record(@, Elapsed(m.intended, time)),
                       !.negativeDeltas = @ + Negative(m.intended, time)]
     ELSE sent

\* ring_bench adds the differences up as they are, on 64 bits.
Received(r, m, time) ==
  IF program = "ring_bench"
  THEN [r EXCEPT !.totalLatency = (@ + time - m.sent) % 2 ^ ValueBits]
  ELSE [(IF cfg.recordLatency /\ c.i >= cfg.warmup THEN Recorded(r, m, time) ELSE r)
          EXCEPT !.outOfOrder = @ + (IF m.seq # c.i THEN 1 ELSE 0)]

\* Any message the read may return: a damaged one too if the write of it did
\* not happen before.
Readable(slot) ==
  {buffer[slot]} \cup (IF buffer[slot].write > c.writesKnown THEN {Damaged} ELSE {})

Receive ==
  /\ c.pc = "peeked"
  /\ c' = [c EXCEPT !.pc = "received"]
  /\ lastRead' = [lastRead EXCEPT ![SlotOf(Value(tail))] = c.i + 1]
  /\ \E m \in Readable(SlotOf(Value(tail))) :
       /\ results' = Received(results, m, now + skew)
       /\ measured' = IF cfg.recordLatency /\ c.i >= cfg.warmup
                      THEN Append(measured, [sent |-> m.sent, received |-> now + skew])
                      ELSE measured
  /\ UNCHANGED <<settings, head, tail, buffer, ready, p, now, failed, exit>>

Consume ==
  /\ c.pc = "received"
  /\ c' = [c EXCEPT !.pc = "receiving", !.i = @ + 1]
  /\ tail' = Store(tail, Value(tail) + 1, c.i + 1)
  /\ UNCHANGED <<settings, head, buffer, lastRead, ready, p, now, report, failed, exit>>

-----------------------------------------------------------------------------
(* main(): the runs one after another, each with a ring of its own.        *)

Joined == p.pc = "done" /\ c.pc = "receiving" /\ c.i = Total

Fails == results.outOfOrder # 0 \/ results.negativeDeltas # 0

NextRun ==
  /\ Joined /\ Len(runs) > 1
  /\ runs' = Tail(runs)
  /\ failed' = (failed \/ Fails)
  /\ head' = NewIndex /\ tail' = NewIndex
  /\ buffer' = [s \in Slots |-> NoMessage] /\ lastRead' = [s \in Slots |-> 0]
  /\ ready' = FALSE /\ p' = NewProducer /\ c' = NewConsumer
  /\ results' = NewResults /\ measured' = <<>> /\ now' = Epoch
  /\ UNCHANGED <<program, variant, skew, exit>>

\* Whether the JSON report can be written, if one is asked for, is external.
Exit(written) ==
  /\ exit = "none" /\ Joined /\ Len(runs) = 1
  /\ failed' = (failed \/ Fails)
  /\ exit' = CASE program = "ring_bench" -> "0"
               [] program # "ring_bench" /\ failed' -> "1"
               [] program # "ring_bench" /\ ~failed' -> IF written THEN "0" ELSE "2"
  /\ UNCHANGED <<settings, ring, ready, p, c, now, report>>

Exited == exit # "none" /\ UNCHANGED vars

\* Time passes; nobody looks at it before the start or in a burst.
Advance(d) ==
  /\ p.pc # "waiting" /\ cfg.recordLatency /\ ~Joined
  /\ now + d <= MaxTime
  /\ now' = now + d
  /\ UNCHANGED <<settings, ring, ready, p, c, report, failed, exit>>

Producer ==
  \/ Start \/ Claim \/ (\E s \in 1..Newest(tail) : ClaimReading(s))
  \/ WriteMessage \/ Publish \/ Flush
Consumer ==
  \/ SignalReady \/ Peek \/ (\E s \in 1..Newest(head) : PeekReading(s))
  \/ Receive \/ Consume
Main == NextRun \/ \E written \in BOOLEAN : Exit(written)

Next == Producer \/ Consumer \/ Main \/ (\E d \in Jumps : Advance(d)) \/ Exited

\* The threads run, time passes, and a store is read in the end.
Fairness ==
  /\ WF_vars(Start \/ Claim \/ WriteMessage \/ Publish \/ Flush)
  /\ WF_vars(ClaimReading(Newest(tail)))
  /\ WF_vars(SignalReady \/ Peek \/ Receive \/ Consume)
  /\ WF_vars(PeekReading(Newest(head)))
  /\ WF_vars(Main) /\ WF_vars(\E d \in Jumps : Advance(d))

Spec == Init /\ [][Next]_vars /\ Fairness
-----------------------------------------------------------------------------
(* Properties.                                                             *)

\* "All keep the same two release/acquire edges": whichever variant is used and
\* however long publishing is put off, no thread touches a slot that the other
\* may still be accessing.
NoDataRace ==
  /\ p.pc = "claimed" => lastRead[SlotOf(WriteIdx)] <= p.readsKnown
  /\ c.pc = "peeked" => buffer[SlotOf(Value(tail))].write <= c.writesKnown

\* Every run comes to its end, the last and unfilled batch included.
Ends == <>(exit # "none")

RawDelays == [n \in DOMAIN measured |-> measured[n].received - measured[n].sent]
Sum(delays) == FoldLeft(LAMBDA sum, d : sum + d, 0, delays)

\* What the exit code is worth: every run receives its messages in order and
\* records each of those measured, and without a failure no delay recorded is
\* one clamped to 0.  ring_bench's total is that of its delays.
ExitIsEarned ==
  Joined =>
    /\ results.outOfOrder = 0
    /\ program = "ring_bench" => results.totalLatency = Sum(RawDelays) % 2 ^ ValueBits
    /\ program # "ring_bench" /\ cfg.recordLatency =>
         /\ results.sendToReceive.count = cfg.messages
         /\ results.intendedToReceive.count = (IF Paced THEN cfg.messages ELSE 0)
         /\ exit = "0" => \A n \in DOMAIN RawDelays : RawDelays[n] >= 0

\* "At most 1/64 relative error": a reported percentile is at least the exact
\* one of the delays measured, and at most a bucket's width above it.
Exact(percentile) ==
  LET delays == [n \in DOMAIN measured |-> Elapsed(measured[n].sent, measured[n].received)]
  IN SortSeq(delays, <)[Rank(percentile, Len(delays))]
PercentilesAreClose ==
  Joined /\ results.sendToReceive.count > 0 => \A percentile \in {1, 50, 90, 99, 100} :
    LET reported == ValueAtPercentile(results.sendToReceive, percentile)
    IN /\ reported >= Exact(percentile)
       /\ (reported - Exact(percentile)) * kSubBucketHalf <= Exact(percentile)

\* "Any stall on the producer side shows up instead of being hidden": measured
\* from the intended time no percentile is better than from the time of sending.
StallsAreNotHidden ==
  Joined /\ Paced => \A percentile \in {1, 50, 90, 99, 100} :
    ValueAtPercentile(results.intendedToReceive, percentile)
      >= ValueAtPercentile(results.sendToReceive, percentile)
=============================================================================
