------------------------------ MODULE RingBuffer ------------------------------
(* CircularBuffer<T> (buffers.ts): a ring of fixed capacity whose total keeps  *)
(* counting past it.  A ring is a record; an operation returns the new one.    *)
EXTENDS Naturals, Sequences

\* new CircularBuffer(capacity): an array of holes.
EmptyRing == [slots |-> <<>>, head |-> 0, size |-> 0, total |-> 0]

Put(slots, i, e) == [j \in DOMAIN slots \cup {i} |-> IF j = i THEN e ELSE slots[j]]

\* push: a full ring gives up its oldest entry.
Push(r, cap, e) ==
  [slots |-> Put(r.slots, (r.head + r.size) % cap, e),
   head  |-> IF r.size < cap THEN r.head ELSE (r.head + 1) % cap,
   size  |-> IF r.size < cap THEN r.size + 1 ELSE r.size,
   total |-> r.total + 1]

\* clear: total stays, the flush cursors count with it.
Clear(r) == [r EXCEPT !.head = 0, !.size = 0]

\* get and set of the i-th entry, 0 the oldest; out of range, set does nothing.
EntryAt(r, cap, i) == r.slots[(r.head + i) % cap]
SetEntry(r, cap, i, e) ==
  IF i \in 0..(r.size - 1) THEN [r EXCEPT !.slots = Put(@, (r.head + i) % cap, e)] ELSE r

\* last(n) and toArray, oldest first.
LastN(r, cap, n) ==
  LET count == IF n < r.size THEN n ELSE r.size
  IN [i \in 1..count |-> r.slots[(((r.head + r.size - count) % cap) + i - 1) % cap]]
ToArray(r, cap) == [i \in 1..r.size |-> EntryAt(r, cap, i - 1)]
=============================================================================
