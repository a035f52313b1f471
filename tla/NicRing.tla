------------------------------- MODULE NicRing ------------------------------
(***************************************************************************)
(* BasicKernelBypass<RingSize> (include/KernelBypass.hpp): the simulated   *)
(* network card and the driver that polls it hand each other descriptors   *)
(* through a flag per descriptor, driven by the two threads of             *)
(* tests/kernel_bypass_test.cpp.                                           *)
(*                                                                         *)
(* The memory model is SpscRing's: a flag is the sequence of the stores    *)
(* made to it, by either thread; a thread may read any store not older     *)
(* than the one it read or made last; a store carries the clock that its   *)
(* release publishes, and an acquire load learns it.  Packets are numbered *)
(* from 1 in the order they arrive.                                        *)
(***************************************************************************)
EXTENDS Integers, Sequences

CONSTANTS
  RingSize,
  Total      \* packets that arrive: bounds the model

ASSUME RingAssumption == RingSize \in Nat \ {0}
ASSUME TotalAssumption == Total \in Nat

VARIABLES
  ready,        \* stores to each descriptor's flag, oldest first
  data,         \* number of the packet written to each descriptor last
  lastRead,     \* number of the read of each descriptor made last
  nic,          \* where nicReceive() is
  written,      \* packets the card has written
  nicSeen,      \* number of the store to each flag the card knows of
  readsKnown,   \* reads that happened before the card's next step
  cpu,          \* where poll() is
  head,         \* the descriptor the driver polls
  read,         \* packets the driver has read
  cpuSeen,      \* number of the store to each flag the driver knows of
  writesKnown,  \* writes that happened before the driver's next step
  outData,      \* the packet poll() returns
  received      \* packets poll() has returned, in order

nicVars == <<nic, written, nicSeen, readsKnown>>
cpuVars == <<cpu, head, read, cpuSeen, writesKnown, outData, received>>
vars == <<ready, data, lastRead, nicVars, cpuVars>>

Descriptors == 0..(RingSize - 1)
Damaged == 0  \* what a read that races with a write may return

Newest(d) == Len(ready[d])
Later(clock, known) == IF clock > known THEN clock ELSE known

\* Mutants: the stores to the flag are relaxed and release nothing.
SetRelaxed == 0
SetClock == written
ClearRelaxed == 0
ClearClock == read

Store(d, value, clock) ==
  ready' = [ready EXCEPT ![d] = Append(@, [value |-> value, clock |-> clock])]

Init ==
  /\ ready = [d \in Descriptors |-> <<[value |-> FALSE, clock |-> 0]>>]
  /\ data = [d \in Descriptors |-> 0] /\ lastRead = [d \in Descriptors |-> 0]
  /\ nic = "idle" /\ written = 0 /\ readsKnown = 0
  /\ nicSeen = [d \in Descriptors |-> 1]
  /\ cpu = "idle" /\ head = 0 /\ read = 0 /\ writesKnown = 0
  /\ cpuSeen = [d \in Descriptors |-> 1]
  /\ outData = Damaged /\ received = <<>>

-----------------------------------------------------------------------------
(* The card: nicReceive() with the number of the packet as slot.           *)

\* The next packet's descriptor, once the packet is being written its own.
Slot == (IF nic = "written" THEN written - 1 ELSE written) % RingSize

Refused(store) == store.value

\* The load of the flag, store s of it.  A refused packet is offered again.
NicLoad(s) ==
  /\ nic = "idle" /\ written < Total
  /\ s \in nicSeen[Slot]..Newest(Slot)
  /\ nicSeen' = [nicSeen EXCEPT ![Slot] = s]
  /\ readsKnown' = Later(ready[Slot][s].clock, readsKnown)
  /\ nic' = IF Refused(ready[Slot][s]) THEN "idle" ELSE "accepted"
  /\ UNCHANGED <<ready, data, lastRead, written, cpuVars>>

NicWrite ==
  /\ nic = "accepted"
  /\ nic' = "written"
  /\ written' = written + 1
  /\ data' = [data EXCEPT ![Slot] = written']
  /\ UNCHANGED <<ready, lastRead, nicSeen, readsKnown, cpuVars>>

NicReady ==
  /\ nic = "written"
  /\ nic' = "idle"
  /\ Store(Slot, TRUE, SetClock)
  /\ nicSeen' = [nicSeen EXCEPT ![Slot] = Newest(Slot) + 1]
  /\ UNCHANGED <<data, lastRead, written, readsKnown, cpuVars>>

-----------------------------------------------------------------------------
(* The driver: poll().                                                     *)

CpuLoad(s) ==
  /\ cpu = "idle" /\ read < Total
  /\ s \in cpuSeen[head]..Newest(head)
  /\ cpuSeen' = [cpuSeen EXCEPT ![head] = s]
  /\ writesKnown' = Later(ready[head][s].clock, writesKnown)
  /\ cpu' = IF ready[head][s].value THEN "received" ELSE "idle"
  /\ UNCHANGED <<ready, data, lastRead, nicVars, head, read, outData, received>>

CpuRead ==
  /\ cpu = "received"
  /\ cpu' = "copied"
  /\ read' = read + 1
  /\ outData' \in {data[head]}
       \cup (IF data[head] > writesKnown THEN {Damaged} ELSE {})
  /\ lastRead' = [lastRead EXCEPT ![head] = read']
  /\ UNCHANGED <<ready, data, nicVars, head, cpuSeen, writesKnown, received>>

CpuClear ==
  /\ cpu = "copied"
  /\ cpu' = "idle"
  /\ Store(head, FALSE, ClearClock)
  /\ cpuSeen' = [cpuSeen EXCEPT ![head] = Newest(head) + 1]
  /\ head' = (head + 1) % RingSize
  /\ received' = Append(received, outData)
  /\ UNCHANGED <<data, lastRead, nicVars, read, writesKnown, outData>>

-----------------------------------------------------------------------------
\* Both threads have run to their end.
Finished ==
  /\ nic = "idle" /\ written = Total
  /\ cpu = "idle" /\ read = Total
  /\ UNCHANGED vars

Stores == 1..(2 * Total + 1)

Next ==
  \/ \E s \in Stores : NicLoad(s) \/ CpuLoad(s)
  \/ NicWrite \/ NicReady \/ CpuRead \/ CpuClear
  \/ Finished

\* Both threads go on, and a store becomes visible in the end.
Fairness ==
  /\ WF_vars(NicLoad(Newest(Slot))) /\ WF_vars(NicWrite) /\ WF_vars(NicReady)
  /\ WF_vars(CpuLoad(Newest(head))) /\ WF_vars(CpuRead) /\ WF_vars(CpuClear)

Spec == Init /\ [][Next]_vars
FairSpec == Spec /\ Fairness
-----------------------------------------------------------------------------
(* Properties.                                                             *)

\* Every variable keeps the values its C++ type and its thread's loop allow.
TypeOK ==
  /\ ready \in [Descriptors -> Seq([value : BOOLEAN, clock : Nat])]
  /\ nicSeen \in [Descriptors -> Nat] /\ cpuSeen \in [Descriptors -> Nat]
  /\ \A d \in Descriptors :
       nicSeen[d] \in 1..Newest(d) /\ cpuSeen[d] \in 1..Newest(d)
  /\ data \in [Descriptors -> Nat] /\ lastRead \in [Descriptors -> Nat]
  /\ nic \in {"idle", "accepted", "written"}
  /\ cpu \in {"idle", "received", "copied"}
  /\ written \in Nat /\ read \in Nat
  /\ nic = "written" => written > 0
  /\ cpu = "copied" => read > 0
  /\ readsKnown \in Nat /\ writesKnown \in Nat
  /\ head \in Descriptors
  /\ outData \in Nat /\ received \in Seq(Nat)

\* The flag's two handoffs: whoever is about to touch a descriptor's data has
\* the other thread's last access of it behind it.
NoDataRace ==
  /\ nic = "accepted" => lastRead[Slot] <= readsKnown
  /\ cpu = "received" => data[head] <= writesKnown

\* A set flag is a packet the driver has not cleared yet, and the card's packets
\* lie in the descriptors in order from the driver's head on: the newest store
\* of each flag agrees with the two threads' counts.
Sent == IF nic = "written" THEN written - 1 ELSE written
Cleared == IF cpu = "copied" THEN read - 1 ELSE read
FlagsAgree ==
  /\ head = Cleared % RingSize
  /\ Sent - Cleared \in 0..RingSize
  /\ \A d \in Descriptors :
       ready[d][Newest(d)].value <=> \E n \in Cleared..(Sent - 1) : n % RingSize = d

InFlight == [k \in 1..(Sent - Cleared) |-> data[(Cleared + k - 1) % RingSize]]

Queue == INSTANCE SpscQueue WITH Capacity <- RingSize, inFlight <- InFlight

\* The ring hands over every packet once, undamaged and in the order it came,
\* and refuses one exactly when RingSize wait.
ImplementsQueue == Queue!Spec
=============================================================================
