-------------------------- MODULE RingBufferProofs --------------------------
(* The circular buffer implements the bounded log, for every capacity.      *)
EXTENDS RingBuffer, TLAPS

\* The only remainders the buffer takes: of less than twice its capacity.
LEMMA Wrap ==
    ASSUME NEW a \in Nat, a < Size + Size
    PROVE  /\ a % Size = IF a < Size THEN a ELSE a - Size
           /\ a % Size \in Slots
  BY SizeAssumption DEF Slots

LEMMA RingInit == Init => RingInv
  <1> SUFFICES ASSUME Init PROVE RingInv
    OBVIOUS
  <1>1. entries \in [Slots -> LogEntry \cup {Unset}] /\ head = 0 /\ count = 0
    BY DEF Init
  <1>2. 0 \in Slots /\ \A i \in Slots : ~(i < 0)
    BY SizeAssumption DEF Slots
  <1> QED BY <1>1, <1>2, SizeAssumption DEF RingInv, Ring

LEMMA HeadStep ==
    ASSUME RingInv, NEW e \in LogEntry, Add(e)
    PROVE  /\ head' = IF head + 1 < Size THEN head + 1 ELSE 0
           /\ head' \in Slots
  <1> DEFINE a == head + 1
  <1>1. a \in Nat /\ a < Size + Size /\ a <= Size
    BY SizeAssumption DEF RingInv, Ring, Slots
  <1>2. head' = a % Size
    BY DEF Add
  <1> HIDE DEF a
  <1>3. head' = (IF a < Size THEN a ELSE a - Size) /\ head' \in Slots
    BY <1>1, <1>2, Wrap
  <1>4. head' = IF a < Size THEN a ELSE 0
    BY <1>1, <1>3, SizeAssumption
  <1> QED BY <1>3, <1>4 DEF a

LEMMA RingStep == RingInv /\ [Next]_vars => RingInv'
  <1> SUFFICES ASSUME RingInv, [Next]_vars PROVE RingInv'
    OBVIOUS
  <1>1. CASE UNCHANGED vars
    BY <1>1 DEF vars, RingInv, Ring
  <1>2. ASSUME NEW e \in LogEntry, Add(e) PROVE RingInv'
    <2>1. head' = (IF head + 1 < Size THEN head + 1 ELSE 0) /\ head' \in Slots
      BY <1>2, HeadStep
    <2>2. entries' \in [Slots -> LogEntry \cup {Unset}]
      BY <1>2 DEF Add, RingInv, Ring
    <2>3. count' \in 0..Size /\ (count' < Size => head' = count')
      BY <1>2, <2>1, SizeAssumption DEF Add, RingInv, Ring, Slots
    <2>4. \A i \in Slots : i < count' => entries'[i] \in LogEntry
      BY <1>2, SizeAssumption DEF Add, RingInv, Ring, Slots
    <2> QED BY <2>1, <2>2, <2>3, <2>4 DEF RingInv, Ring
  <1> QED BY <1>1, <1>2 DEF Next

\* The buffer keeps its shape whatever is logged.
THEOREM RingInvariance == Spec => []RingInv
  BY RingInit, RingStep, PTL DEF Spec

-----------------------------------------------------------------------------
(* Reading the buffer.                                                     *)

\* Where the i-th oldest entry lies.
At(h, c, i) == LET a == Start(h, c) + i - 1 IN IF a < Size THEN a ELSE a - Size

LEMMA ReadAt ==
    ASSUME NEW es, NEW h, NEW c, Ring(es, h, c), NEW i \in 1..c
    PROVE  /\ At(h, c, i) \in Slots /\ At(h, c, i) < c
           /\ Read(es, h, c)[i] = es[At(h, c, i)]
  <1>1. h \in Slots /\ c \in 0..Size /\ (c < Size => h = c)
    BY DEF Ring
  <1>2. Start(h, c) \in Slots /\ (c < Size => Start(h, c) = 0)
    BY <1>1, SizeAssumption DEF Start, Slots
  <1> DEFINE a == Start(h, c) + i - 1
  <1>3. a \in Nat /\ a < Size + Size
    BY <1>1, <1>2, SizeAssumption DEF Slots
  <1>4. At(h, c, i) = IF a < Size THEN a ELSE a - Size
    BY DEF At
  <1>5. Read(es, h, c)[i] = es[a % Size]
    BY DEF Read
  <1>6. At(h, c, i) < c
    BY <1>1, <1>2, <1>4, SizeAssumption DEF Slots
  <1> HIDE DEF a
  <1>7. a % Size = At(h, c, i) /\ a % Size \in Slots
    BY <1>3, <1>4, Wrap
  <1> QED BY <1>5, <1>6, <1>7

LEMMA ReadType ==
    ASSUME NEW es, NEW h, NEW c, Ring(es, h, c)
    PROVE  Read(es, h, c) \in Seq(LogEntry) /\ Len(Read(es, h, c)) = c
  <1>1. c \in Nat
    BY SizeAssumption DEF Ring
  <1>2. Read(es, h, c) = [i \in 1..c |-> Read(es, h, c)[i]]
    BY DEF Read
  <1>3. \A i \in 1..c : Read(es, h, c)[i] \in LogEntry
    BY ReadAt DEF Ring
  <1> QED BY <1>1, <1>2, <1>3

-----------------------------------------------------------------------------
(* One Add, seen through Entries.                                          *)

LEMMA AddShifts ==
    ASSUME NEW h \in Slots, NEW c \in 0..Size, c < Size => h = c,
           NEW h2, h2 = IF h + 1 < Size THEN h + 1 ELSE 0
    PROVE  /\ c < Size => /\ At(h2, c + 1, c + 1) = h
                          /\ \A i \in 1..c : At(h2, c + 1, i) = At(h, c, i) /\ At(h, c, i) # h
           /\ c = Size => /\ At(h2, c, c) = h
                          /\ \A i \in 1..c - 1 : /\ At(h2, c, i) = At(h, c, i + 1)
                                                 /\ At(h, c, i + 1) # h
  <1>1. CASE c < Size
    <2>1. Start(h, c) = 0 /\ Start(h2, c + 1) = 0
      BY <1>1, SizeAssumption DEF Start, Slots
    <2> QED BY <1>1, <2>1, SizeAssumption DEF At, Slots
  <1>2. CASE c = Size
    <2>1. Start(h, c) = h /\ Start(h2, c) = h2
      BY <1>2, SizeAssumption DEF Start, Slots
    <2> QED BY <1>2, <2>1, SizeAssumption DEF At, Slots
  <1> QED BY <1>1, <1>2

LEMMA AddIsPush ==
    ASSUME RingInv, NEW e \in LogEntry, Add(e)
    PROVE  Entries' = Log!Push(Entries, e)
  <1> DEFINE old == Read(entries, head, count)
             new == Read(entries', head', count')
  <1>1. Ring(entries, head, count) /\ Ring(entries', head', count')
    BY RingStep DEF Next, RingInv
  <1>2. /\ head \in Slots /\ count \in 0..Size /\ (count < Size => head = count)
        /\ head' = IF head + 1 < Size THEN head + 1 ELSE 0
        /\ count' = IF count < Size THEN count + 1 ELSE count
        /\ \A i \in Slots : entries'[i] = IF i = head THEN e ELSE entries[i]
    BY <1>1, HeadStep DEF Ring, Add
  <1>3. /\ old \in Seq(LogEntry) /\ Len(old) = count
        /\ \A i \in 1..count : /\ At(head, count, i) \in Slots
                               /\ old[i] = entries[At(head, count, i)]
    BY <1>1, ReadType, ReadAt
  <1>4. /\ new \in Seq(LogEntry) /\ Len(new) = count'
        /\ \A i \in 1..count' : new[i] = entries'[At(head', count', i)]
    BY <1>1, ReadType, ReadAt
  <1>5. Entries = old /\ Entries' = new /\ Size \in Nat /\ Size >= 1
    BY SizeAssumption DEF Entries
  <1> HIDE DEF old, new
  <1>6. CASE count < Size
    <2>1. Log!Push(old, e) = Append(old, e)
      BY <1>3, <1>6 DEF Log!Push
    <2>2. count' = count + 1 /\ count \in Nat
      BY <1>2, <1>5, <1>6
    <2>3. /\ At(head', count + 1, count + 1) = head
          /\ \A i \in 1..count : /\ At(head', count + 1, i) = At(head, count, i)
                                 /\ At(head, count, i) # head
      BY <1>2, <1>6, AddShifts
    <2>4. new[count + 1] = e
      BY <1>2, <1>4, <2>2, <2>3
    <2>5. \A i \in 1..count : new[i] = old[i]
      BY <1>2, <1>3, <1>4, <2>2, <2>3
    <2> QED BY <1>3, <1>4, <1>5, <2>1, <2>2, <2>4, <2>5
  <1>7. CASE count = Size
    <2>1. Log!Push(old, e) = Append(Tail(old), e)
      BY <1>3, <1>5, <1>7 DEF Log!Push
    <2>2. count' = Size
      BY <1>2, <1>5, <1>7
    <2>3. /\ At(head', Size, Size) = head
          /\ \A i \in 1..Size - 1 : /\ At(head', Size, i) = At(head, Size, i + 1)
                                    /\ At(head, Size, i + 1) # head
      BY <1>2, <1>7, AddShifts
    <2>4. new[Size] = e
      BY <1>2, <1>4, <1>5, <2>2, <2>3
    <2>5. \A i \in 1..Size - 1 : new[i] = old[i + 1]
      BY <1>2, <1>3, <1>4, <1>5, <1>7, <2>2, <2>3
    <2> QED BY <1>3, <1>4, <1>5, <1>7, <2>1, <2>2, <2>4, <2>5
  <1> QED BY <1>2, <1>5, <1>6, <1>7

\* The circular buffer of every capacity, read with Entries, is the bounded log.
THEOREM Refinement == Spec => KeepsTheNewest
  <1>1. Init => Log!Init
    BY DEF Init, Log!Init, Entries, Read
  <1>2. RingInv /\ [Next]_vars => [Log!Add]_Entries
    <2> SUFFICES ASSUME RingInv, [Next]_vars PROVE [Log!Add]_Entries
      OBVIOUS
    <2>1. CASE UNCHANGED vars
      BY <2>1 DEF vars, Entries
    <2> QED BY <2>1, AddIsPush DEF Next, Log!Add
  <1> QED BY <1>1, <1>2, RingInvariance, PTL DEF Spec, KeepsTheNewest, Log!Spec
=============================================================================
