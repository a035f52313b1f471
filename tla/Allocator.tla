------------------------------ MODULE Allocator -----------------------------
(***************************************************************************)
(* What an ObjectPool promises: whoever acquires an object has one to      *)
(* itself, and finds in it what it wrote there last, until it releases it. *)
(***************************************************************************)
CONSTANTS Users, Objects, Null

VARIABLE object  \* what each user keeps in its object; Null if it has none

Init == object = [u \in Users |-> Null]

Acquire(u, value) == object[u] = Null /\ object' = [object EXCEPT ![u] = value]

Write(u, value) == object[u] # Null /\ object' = [object EXCEPT ![u] = value]

Release(u) == object[u] # Null /\ object' = [object EXCEPT ![u] = Null]

Next ==
  \E u \in Users :
    \/ \E value \in Objects : Acquire(u, value) \/ Write(u, value)
    \/ Release(u)

Spec == Init /\ [][Next]_object
=============================================================================
