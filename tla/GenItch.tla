------------------------------- MODULE GenItch ------------------------------
(***************************************************************************)
(* gen_itch (src/gen_itch.cpp): the messages it writes, and the file.      *)
(***************************************************************************)
EXTENDS ItchMessages

CONSTANTS
  kHour,    \* 3 600 000 000 000 ns
  kWindow,  \* orders of the flow that rest at a time: 100
  Orders,   \* --orders
  Googl     \* the eight bytes of the instrument's name

ASSUME HourAssumption == kHour \in Nat /\ kHour % 60 = 0 /\ kHour > 400 + 2 * Orders
ASSUME OrdersAssumption == Orders \in Nat /\ kWindow \in Nat
ASSUME NameAssumption == Len(Googl) = 8

kGoogl == 1
kFirstRef == 1000000
Opening == 9 * kHour + kHour \div 2

\* A message about the instrument.
Message(type, ts, fields) ==
  [type |-> type, locate |-> kGoogl, timestamp |-> ts] @@ fields

SystemEvent(ts, code) ==
  [type |-> "S", locate |-> 0, timestamp |-> ts, code |-> code]

Add(ts, ref, side, price) ==
  Message("A", ts, [ref |-> ref, side |-> side, shares |-> 100, stock |-> Googl,
                    price |-> price])

BeforeTheSession ==
  <<SystemEvent(4 * kHour, "O"), Message("R", 4 * kHour, [stock |-> Googl]),
    SystemEvent(Opening, "Q")>>

\* Ten resting orders, bids and asks in turn.
Resting ==
  [n \in 1..10 |->
     LET i == n - 1
     IN IF i % 2 = 0 THEN Add(Opening + i, 1000 + i, "B", 1499900 - (i \div 2) * 100)
        ELSE Add(Opening + i, 1000 + i, "S", 1500100 + (i \div 2) * 100)]

HandWritten ==
  <<Message("E", Opening + 20, [ref |-> 1000, shares |-> 60, match |-> 1]),
    Message("X", Opening + 21, [ref |-> 1001, shares |-> 20]),
    Message("U", Opening + 22, [oldRef |-> 1002, newRef |-> 2002, shares |-> 150,
                                price |-> 1500000]),
    Message("D", Opening + 23, [ref |-> 1003]),
    Message("P", Opening + 24, [ref |-> 0, side |-> "B", shares |-> 50,
                                stock |-> Googl, price |-> 1500050, match |-> 2])>>

\* Round i of the order flow: an add, and the oldest order leaves.
FlowRound(i) ==
  LET t == Opening + 100 + i
      away == (10 + (i % 40)) * 100
      oldest == kFirstRef + i - kWindow
      add == IF i % 2 = 0 THEN Add(t, kFirstRef + i, "B", 1500000 - away)
             ELSE Add(t, kFirstRef + i, "S", 1500000 + away)
  IN IF i < kWindow THEN <<add>>
     ELSE IF i % 2 = 0 THEN <<add, Message("D", t, [ref |-> oldest])>>
     ELSE <<add, Message("E", t, [ref |-> oldest, shares |-> 100, match |-> i])>>

AfterTheSession ==
  <<SystemEvent(16 * kHour, "M"), SystemEvent(16 * kHour + 1, "C")>>

Feed ==
  BeforeTheSession \o Resting \o HandWritten
    \o FlattenSeq([n \in 1..Orders |-> FlowRound(n - 1)]) \o AfterTheSession

\* emit(): a message behind its length.
Emit(bytes) == PutBe(Len(bytes), 2) \o bytes

FileOf(messages) == FlattenSeq([i \in DOMAIN messages |-> Emit(messages[i])])
=============================================================================
