----------------------------- MODULE RingBuffer -----------------------------
(***************************************************************************)
(* The circular buffer of app/dns/query_history.go.  Add and Entries run   *)
(* under one lock, so each is a single step.                               *)
(***************************************************************************)
EXTENDS Integers, Sequences

CONSTANTS Size,      \* capacity
          LogEntry,  \* the entries that are logged
          Unset      \* the zero entry of a slot that was never written

ASSUME SizeAssumption == Size \in Nat \ {0}

VARIABLES entries, head, count

vars == <<entries, head, count>>

Slots == 0..Size - 1

Init == /\ entries = [i \in Slots |-> Unset]
        /\ head = 0
        /\ count = 0

\* Deviation: the count runs on when the buffer is full.
AddCounting(e) == /\ entries' = [entries EXCEPT ![head] = e]
                  /\ head' = (head + 1) % Size
                  /\ count' = count + 1

Add(e) == /\ entries' = [entries EXCEPT ![head] = e]
          /\ head' = (head + 1) % Size
          /\ count' = IF count < Size THEN count + 1 ELSE count

Next == \E e \in LogEntry : Add(e)

Spec == Init /\ [][Next]_vars

\* The slot of the oldest of the c newest entries.
Start(h, c) == IF h - c < 0 THEN h - c + Size ELSE h - c

\* Deviation: the slots in their order, wrapped around or not.
ReadSlots(es, h, c) == [i \in 1..c |-> es[i - 1]]

\* What Entries returns, in chronological order.
Read(es, h, c) == [i \in 1..c |-> es[(Start(h, c) + i - 1) % Size]]
Entries == Read(entries, head, count)

-----------------------------------------------------------------------------
\* Type correctness, and what relates head and count: until the buffer is full
\* the head is the number of entries.
Ring(es, h, c) == /\ es \in [Slots -> LogEntry \cup {Unset}]
                  /\ h \in Slots
                  /\ c \in 0..Size
                  /\ c < Size => h = c
                  /\ \A i \in Slots : i < c => es[i] \in LogEntry
RingInv == Ring(entries, head, count)

Log == INSTANCE BoundedLog WITH log <- Entries

\* The buffer read with Entries is the bounded log: nothing lost too early, kept
\* too long or out of order, on whichever side of the wrap-around it lies.
KeepsTheNewest == Log!Spec
=============================================================================
