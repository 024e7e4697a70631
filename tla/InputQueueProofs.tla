-------------------------- MODULE InputQueueProofs --------------------------
(***************************************************************************)
(* Theorems about InputQueue, for every set of characters, every capacity  *)
(* and every width of the positions that the capacity divides: the         *)
(* consumer's copies never go stale, and the ring implements BoundedFifo.  *)
(***************************************************************************)
EXTENDS InputQueue, TLAPS

-----------------------------------------------------------------------------
(* Positions.                                                              *)

Positions == 0 .. Modulus - 1

(* The constants, one by one.                                              *)
LEMMA ConstantTypes ==
  /\ Capacity \in Nat \ {0} /\ Modulus \in Nat \ {0}
  /\ Capacity < Modulus
  /\ Modulus % Capacity = 0
BY InputQueueConstants

(* The uint32_t subtraction without the modulus.                           *)
LEMMA DistanceIs ==
  ASSUME NEW head \in Positions, NEW tail \in Positions
  PROVE  Distance(head, tail) =
           IF head >= tail THEN head - tail ELSE head - tail + Modulus
BY ConstantTypes, Z3 DEF Distance, Positions

(* The increment without the modulus.                                      *)
LEMMA AdvanceIs ==
  ASSUME NEW position \in Positions
  PROVE  /\ Advance(position) \in Positions
         /\ Advance(position) =
              IF position = Modulus - 1 THEN 0 ELSE position + 1
BY ConstantTypes, Z3 DEF Advance, Positions

(* Division with remainder, for the slots.                                 *)
LEMMA SlotDivision ==
  ASSUME NEW a \in Nat
  PROVE  /\ a \div Capacity \in Nat
         /\ a % Capacity \in 0 .. Capacity - 1
         /\ a = Capacity * (a \div Capacity) + (a % Capacity)
BY ConstantTypes, Z3

(* Remainders are unique.                                                  *)
LEMMA SlotUnique ==
  ASSUME NEW k \in Int, NEW l \in Int, NEW r \in 0 .. Capacity - 1,
         NEW s \in 0 .. Capacity - 1,
         Capacity * k + r = Capacity * l + s
  PROVE  k = l /\ r = s
<1>1. Capacity * (k - l) = s - r
  BY ConstantTypes, Z3
<1>2. s - r < Capacity /\ r - s < Capacity
  BY ConstantTypes
<1>3. k - l < 1
  <2>1. CASE k - l >= 1
    <3>1. Capacity * (k - l) >= Capacity
      BY <2>1, ConstantTypes, Z3
    <3>. QED BY <3>1, <1>1, <1>2, ConstantTypes
  <2>. QED BY <2>1
<1>4. k - l > -1
  <2>1. CASE k - l <= -1
    <3>1. Capacity * (k - l) <= -Capacity
      BY <2>1, ConstantTypes, Z3
    <3>. QED BY <3>1, <1>1, <1>2, ConstantTypes
  <2>. QED BY <2>1
<1>5. k = l
  BY <1>3, <1>4
<1>. QED BY <1>5, <1>1, ConstantTypes

(* The index does not see the wrap-around of a position, because the       *)
(* capacity divides the modulus.                                           *)
LEMMA IndexIgnoresWrap ==
  ASSUME NEW a \in Nat, a >= Modulus
  PROVE  (a - Modulus) % Capacity = a % Capacity
<1>1. Modulus = Capacity * (Modulus \div Capacity) /\ Modulus \div Capacity \in Nat
  BY ConstantTypes, SlotDivision
<1>2. /\ a = Capacity * (a \div Capacity) + (a % Capacity)
      /\ a \div Capacity \in Nat /\ a % Capacity \in 0 .. Capacity - 1
  BY SlotDivision
<1>3. a - Modulus \in Nat
  BY ConstantTypes
<1>4. /\ a - Modulus = Capacity * ((a - Modulus) \div Capacity)
                         + ((a - Modulus) % Capacity)
      /\ (a - Modulus) \div Capacity \in Nat
      /\ (a - Modulus) % Capacity \in 0 .. Capacity - 1
  BY <1>3, SlotDivision
<1>. DEFINE k == a \div Capacity  l == (a - Modulus) \div Capacity
            q == Modulus \div Capacity
            r == a % Capacity  s == (a - Modulus) % Capacity
<1>5. Capacity * (l + q) + s = Capacity * k + r
  <2>. HIDE DEF k, l, q, r, s
  <2>1. Capacity * l + s + Capacity * q = Capacity * k + r
    BY <1>1, <1>2, <1>4, ConstantTypes DEF k, l, q, r, s
  <2>2. k \in Nat /\ l \in Nat /\ q \in Nat
    BY <1>1, <1>2, <1>4 DEF k, l, q
  <2>3. Capacity * (l + q) = Capacity * l + Capacity * q
    BY <2>2, ConstantTypes, Z3
  <2>4. r \in Nat /\ s \in Nat
    BY <1>2, <1>4, ConstantTypes DEF r, s
  <2>. QED BY <2>1, <2>2, <2>3, <2>4, ConstantTypes, Z3
<1>6. k \in Int /\ l + q \in Int
  BY <1>1, <1>2, <1>4
<1>. HIDE DEF k, l, q
<1>. QED BY <1>2, <1>4, <1>5, <1>6, SlotUnique

(* A sum of two positions wraps around at most once.                       *)
LEMMA WrapOnce ==
  ASSUME NEW a \in Nat, a < 2 * Modulus
  PROVE  a % Modulus = IF a < Modulus THEN a ELSE a - Modulus
<1>1. CASE a < Modulus
  BY <1>1, ConstantTypes, Z3
<1>2. CASE ~(a < Modulus)
  <2>1. /\ a = Modulus * (a \div Modulus) + (a % Modulus)
        /\ a \div Modulus \in Nat /\ a % Modulus \in 0 .. Modulus - 1
    BY ConstantTypes, Z3
  <2>2. a \div Modulus = 1
    <3>1. CASE a \div Modulus = 0
      BY <1>2, <2>1, <3>1, ConstantTypes
    <3>2. CASE a \div Modulus >= 2
      <4>1. Modulus * (a \div Modulus) >= 2 * Modulus
        BY <2>1, <3>2, ConstantTypes, Z3
      <4>. QED BY <2>1, <4>1, ConstantTypes
    <3>. QED BY <2>1, <3>1, <3>2
  <2>. QED BY <1>2, <2>1, <2>2, ConstantTypes
<1>. QED BY <1>1, <1>2

(* The slot of the n-th position after the tail, wrapped or not.           *)
LEMMA SlotOf ==
  ASSUME NEW tail \in Positions, NEW n \in 0 .. Modulus
  PROVE  Index((tail + n) % Modulus) = (tail + n) % Capacity
<1>1. tail + n \in Nat /\ tail + n < 2 * Modulus
  BY ConstantTypes DEF Positions
<1>2. CASE tail + n < Modulus
  BY <1>1, <1>2, WrapOnce DEF Index
<1>3. CASE tail + n >= Modulus
  <2>1. (tail + n) % Modulus = tail + n - Modulus
    BY <1>1, <1>3, WrapOnce, ConstantTypes DEF Positions
  <2>2. (tail + n - Modulus) % Capacity = (tail + n) % Capacity
    <3>. DEFINE a == tail + n
    <3>1. a \in Nat /\ a >= Modulus
      BY <1>1, <1>3
    <3>. HIDE DEF a
    <3>2. (a - Modulus) % Capacity = a % Capacity
      BY <3>1, IndexIgnoresWrap
    <3>. QED BY <3>2, ConstantTypes DEF a, Positions
  <2>. QED BY <2>1, <2>2 DEF Index
<1>. QED BY <1>1, <1>2, <1>3, ConstantTypes

(* Fewer than Capacity apart, two positions have different slots.          *)
LEMMA SlotsDiffer ==
  ASSUME NEW a \in Nat, NEW n \in 1 .. Capacity - 1
  PROVE  (a + n) % Capacity # a % Capacity
<1>1. /\ a = Capacity * (a \div Capacity) + (a % Capacity)
      /\ a \div Capacity \in Nat /\ a % Capacity \in 0 .. Capacity - 1
  BY SlotDivision
<1>2. a + n \in Nat
  BY ConstantTypes
<1>3. /\ a + n = Capacity * ((a + n) \div Capacity) + ((a + n) % Capacity)
      /\ (a + n) \div Capacity \in Nat
  BY <1>2, SlotDivision
<1>4. SUFFICES ASSUME (a + n) % Capacity = a % Capacity PROVE FALSE
  OBVIOUS
<1>. DEFINE k == a \div Capacity  l == (a + n) \div Capacity
<1>5. n = Capacity * l - Capacity * k
  BY <1>1, <1>3, <1>4, ConstantTypes
<1>6. k \in Nat /\ l \in Nat
  BY <1>1, <1>3
<1>. HIDE DEF k, l
<1>7. Capacity * k + n = Capacity * l + 0
  BY <1>5, <1>6, ConstantTypes
<1>8. n = 0
  BY <1>6, <1>7, SlotUnique, ConstantTypes
<1>. QED BY <1>8

-----------------------------------------------------------------------------
(* The inductive invariant: its two parts need each other.                 *)

IInv == TypeOK /\ ReaderIsNeverStale

(* The empty queue satisfies the invariant.                                *)
LEMMA InitEstablishesIInv == QueueInit => IInv
BY ConstantTypes, DistanceIs
   DEF QueueInit, IInv, TypeOK, ReaderIsNeverStale, Idle, Reply, Pending,
       Positions, UINT32_MAX

(* The positions, their distance and the tail's slot are in range.         *)
LEMMA PendingType ==
  ASSUME TypeOK
  PROVE  /\ input_queue_head \in Positions /\ input_queue_tail \in Positions
         /\ Pending \in 0 .. Modulus - 1
         /\ Index(input_queue_tail) \in 0 .. Capacity - 1
<1>1. input_queue_head \in Positions /\ input_queue_tail \in Positions
  BY DEF TypeOK, Positions
<1>2. Pending \in 0 .. Modulus - 1
  BY <1>1, DistanceIs, ConstantTypes DEF Pending, Positions
<1>3. input_queue_tail \in Nat
  BY <1>1 DEF Positions
<1>. QED BY <1>1, <1>2, <1>3, SlotDivision DEF Index

(* An accepted character is one more, and its slot is not the oldest's.    *)
LEMMA EnqueueCounts ==
  ASSUME TypeOK, Pending < Capacity,
         input_queue_head' = Advance(input_queue_head),
         UNCHANGED input_queue_tail
  PROVE  /\ Pending' = Pending + 1
         /\ input_queue_head' \in Positions
         /\ Pending \in 0 .. Capacity - 1
         /\ Index(input_queue_head) = (input_queue_tail + Pending) % Capacity
<1>1. input_queue_head \in Positions /\ input_queue_tail \in Positions
  BY DEF TypeOK, Positions
<1>2. Pending = IF input_queue_head >= input_queue_tail
                THEN input_queue_head - input_queue_tail
                ELSE input_queue_head - input_queue_tail + Modulus
  BY <1>1, DistanceIs DEF Pending
<1>3. Pending' = IF input_queue_head' >= input_queue_tail
                 THEN input_queue_head' - input_queue_tail
                 ELSE input_queue_head' - input_queue_tail + Modulus
  BY <1>1, AdvanceIs, DistanceIs DEF Pending
<1>4. Pending \in 0 .. Capacity - 1
  BY <1>1, <1>2, ConstantTypes DEF Positions
<1>5. Pending' = Pending + 1
  BY <1>1, <1>2, <1>3, <1>4, AdvanceIs, ConstantTypes DEF Positions
<1>6. (input_queue_tail + Pending) % Modulus = input_queue_head
  BY <1>1, <1>2, <1>4, WrapOnce, ConstantTypes DEF Positions
<1>7. Index(input_queue_head) = (input_queue_tail + Pending) % Capacity
  BY <1>1, <1>4, <1>6, SlotOf, ConstantTypes
<1>. QED BY <1>1, <1>4, <1>5, <1>7, AdvanceIs

(* A committed read is one less.                                           *)
LEMMA CommitCounts ==
  ASSUME TypeOK, Pending > 0,
         input_queue_tail' = Advance(input_queue_tail),
         UNCHANGED input_queue_head
  PROVE  Pending' = Pending - 1 /\ input_queue_tail' \in Positions
<1>1. input_queue_head \in Positions /\ input_queue_tail \in Positions
  BY DEF TypeOK, Positions
<1>2. Pending = IF input_queue_head >= input_queue_tail
                THEN input_queue_head - input_queue_tail
                ELSE input_queue_head - input_queue_tail + Modulus
  BY <1>1, DistanceIs DEF Pending
<1>3. Pending' = IF input_queue_head >= input_queue_tail'
                 THEN input_queue_head - input_queue_tail'
                 ELSE input_queue_head - input_queue_tail' + Modulus
  BY <1>1, AdvanceIs, DistanceIs DEF Pending
<1>. QED BY <1>1, <1>2, <1>3, AdvanceIs, ConstantTypes DEF Positions

(* The IRQ handler's enqueue, between any two accesses of the consumer.    *)
LEMMA EnqueueKeepsIInv ==
  ASSUME IInv, NEW ascii \in Chars, input_enqueue_character(ascii),
         UNCHANGED reader
  PROVE  IInv'
<1>. USE DEF IInv
<1>1. CASE Pending >= Capacity
  <2>1. /\ UNCHANGED <<input_queue, input_queue_head, input_queue_tail, reader>>
        /\ input_dropped_character_count' \in 0 .. UINT32_MAX
    BY <1>1, PendingType, ConstantTypes
       DEF input_enqueue_character, TypeOK, UINT32_MAX, Pending
  <2>. QED BY <2>1 DEF TypeOK, ReaderIsNeverStale, Pending
<1>2. CASE ~(Pending >= Capacity)
  <2>1. /\ input_queue' = [input_queue EXCEPT ![Index(input_queue_head)] = ascii]
        /\ input_queue_head' = Advance(input_queue_head)
        /\ UNCHANGED <<input_queue_tail, input_dropped_character_count, reader>>
    BY <1>2 DEF input_enqueue_character, Pending
  <2>2. input_queue_head \in Positions /\ input_queue_tail \in Positions
    BY DEF TypeOK, Positions
  <2>3. Pending < Capacity
    BY <1>2, <2>2, DistanceIs, ConstantTypes DEF Pending, Positions
  <2>4. /\ Pending' = Pending + 1
        /\ input_queue_head' \in Positions
        /\ Pending \in 0 .. Capacity - 1
        /\ Index(input_queue_head) = (input_queue_tail + Pending) % Capacity
    BY <2>1, <2>3, EnqueueCounts
  <2>5. TypeOK'
    BY <2>1, <2>4 DEF TypeOK, Positions
  <2>6. Pending > 0 => input_queue'[Index(input_queue_tail)]
                         = input_queue[Index(input_queue_tail)]
    <3>1. SUFFICES ASSUME Pending > 0
          PROVE  Index(input_queue_head) # Index(input_queue_tail)
      BY <2>1, <2>2, SlotDivision DEF TypeOK, Index, Positions
    <3>2. Pending \in 1 .. Capacity - 1 /\ input_queue_tail \in Nat
      BY <2>2, <2>4, <3>1 DEF Positions
    <3>. QED BY <2>4, <3>2, SlotsDiffer DEF Index
  <2>7. ReaderIsNeverStale'
    <3>1. Pending' <= Capacity
      BY <2>4, ConstantTypes
    <3>2. reader.at \in {"head", "slot", "commit"} =>
            reader'.tail = input_queue_tail'
      BY <2>1 DEF ReaderIsNeverStale
    <3>3. reader.at \in {"slot", "commit"} => Pending' > 0
      BY <2>4 DEF ReaderIsNeverStale
    <3>4. reader.at = "commit" =>
            reader'.ascii = input_queue'[Index(input_queue_tail')]
      BY <2>1, <2>6 DEF ReaderIsNeverStale
    <3>5. reader.at = "count" =>
            Distance(reader'.head, input_queue_tail') <= Pending'
      <4>1. reader.head \in Positions
        BY DEF TypeOK, Positions
      <4>2. Distance(reader.head, input_queue_tail) \in Int
        BY <2>2, <4>1, DistanceIs, ConstantTypes DEF Positions
      <4>. QED BY <2>1, <2>4, <4>2 DEF ReaderIsNeverStale
    <3>. QED BY <2>1, <3>1, <3>2, <3>3, <3>4, <3>5 DEF ReaderIsNeverStale
  <2>. QED BY <2>5, <2>7
<1>. QED BY <1>1, <1>2

(* The consumer's accesses.                                                *)
LEMMA ReadTailKeepsIInv == ASSUME IInv, ReadTail PROVE IInv'
BY DEF IInv, ReadTail, TypeOK, ReaderIsNeverStale, queueVars, Pending

(* The reader's load of the head keeps the invariant.                      *)
LEMMA ReadHeadKeepsIInv == ASSUME IInv, ReadHead PROVE IInv'
<1>. USE DEF IInv
<1>1. input_queue_head \in Positions /\ input_queue_tail \in Positions
  BY DEF TypeOK, Positions
<1>2. /\ UNCHANGED queueVars
      /\ reader.tail = input_queue_tail
  BY DEF ReadHead, ReaderIsNeverStale
<1>3. CASE reader.tail = input_queue_head
  <2>1. reader' = Idle
    BY <1>3 DEF ReadHead
  <2>. QED BY <1>2, <2>1, ConstantTypes
           DEF TypeOK, ReaderIsNeverStale, queueVars, Pending, Idle
<1>4. CASE reader.tail # input_queue_head
  <2>1. reader' = [reader EXCEPT !.at = "slot", !.head = input_queue_head]
    BY <1>4 DEF ReadHead
  <2>2. Pending > 0
    BY <1>1, <1>2, <1>4, DistanceIs, ConstantTypes DEF Pending, Positions
  <2>. QED BY <1>2, <2>1, <2>2
           DEF TypeOK, ReaderIsNeverStale, queueVars, Pending
<1>. QED BY <1>3, <1>4

(* The reader's load of the slot keeps the invariant.                      *)
LEMMA ReadSlotKeepsIInv == ASSUME IInv, ReadSlot PROVE IInv'
<1>. USE DEF IInv
<1>1. /\ UNCHANGED queueVars
      /\ reader' = [reader EXCEPT !.at = "commit",
                                  !.ascii = input_queue[Index(reader.tail)]]
      /\ reader.tail = input_queue_tail /\ reader.at = "slot"
  BY DEF ReadSlot, ReaderIsNeverStale
<1>2. Index(input_queue_tail) \in 0 .. Capacity - 1
  BY PendingType
<1>. QED BY <1>1, <1>2 DEF TypeOK, ReaderIsNeverStale, queueVars, Pending

(* The reader's store of the tail keeps the invariant.                     *)
LEMMA WriteTailKeepsIInv == ASSUME IInv, WriteTail PROVE IInv'
<1>. USE DEF IInv
<1>1. /\ input_queue_tail' = Advance(input_queue_tail)
      /\ reader' = Idle
      /\ UNCHANGED <<input_queue, input_queue_head,
                     input_dropped_character_count>>
      /\ Pending > 0
  BY DEF WriteTail, ReaderIsNeverStale
<1>2. Pending' = Pending - 1 /\ input_queue_tail' \in Positions
  BY <1>1, CommitCounts
<1>3. Pending \in Int
  BY PendingType
<1>4. TypeOK'
  BY <1>1, <1>2, ConstantTypes DEF TypeOK, Positions, Idle
<1>5. ReaderIsNeverStale'
  BY <1>1, <1>2, <1>3, ConstantTypes DEF ReaderIsNeverStale, Idle
<1>. QED BY <1>4, <1>5

(* The count for the shell keeps the invariant.                            *)
LEMMA CountKeepsIInv == ASSUME IInv, CountHead \/ CountTail PROVE IInv'
<1>. USE DEF IInv
<1>1. CASE CountHead
  <2>1. /\ UNCHANGED queueVars
        /\ reader' = [reader EXCEPT !.at = "count", !.head = input_queue_head]
    BY <1>1 DEF CountHead
  <2>2. Pending \in Int
    BY PendingType
  <2>3. TypeOK'
    BY <2>1 DEF TypeOK, queueVars
  <2>4. Pending' = Pending /\ Distance(reader'.head, input_queue_tail') = Pending
    BY <2>1 DEF Pending, queueVars, TypeOK
  <2>5. ReaderIsNeverStale'
    <3>1. reader'.at = "count"
      BY <2>1 DEF TypeOK
    <3>. QED BY <2>2, <2>4, <3>1 DEF ReaderIsNeverStale
  <2>. QED BY <2>3, <2>5
<1>2. CASE CountTail
  BY <1>2, ConstantTypes
     DEF CountTail, TypeOK, ReaderIsNeverStale, queueVars, Pending, Idle
<1>. QED BY <1>1, <1>2

(* Every step of either side keeps the invariant.                          *)
LEMMA NextKeepsIInv == IInv /\ [QueueNext]_vars => IInv'
<1>. SUFFICES ASSUME IInv, [QueueNext]_vars PROVE IInv'
  OBVIOUS
<1>1. CASE Produce
  BY <1>1, EnqueueKeepsIInv DEF Produce
<1>2. CASE ReadTail \/ ReadHead \/ ReadSlot \/ WriteTail
  BY <1>2, ReadTailKeepsIInv, ReadHeadKeepsIInv, ReadSlotKeepsIInv,
     WriteTailKeepsIInv
<1>3. CASE CountHead \/ CountTail
  BY <1>3, CountKeepsIInv
<1>4. CASE UNCHANGED vars
  BY <1>4 DEF vars, queueVars, IInv, TypeOK, ReaderIsNeverStale, Pending
<1>. QED BY <1>1, <1>2, <1>3, <1>4 DEF QueueNext

(* Positions, slots and the consumer's locals keep their types.            *)
THEOREM InputQueueTypeOK == QueueSpec => []TypeOK
<1>1. IInv => TypeOK
  BY DEF IInv
<1>. QED BY <1>1, InitEstablishesIInv, NextKeepsIInv, PTL DEF QueueSpec

(* For every capacity and width: an interrupt between two accesses of      *)
(* input_try_read_character or of the pending count never makes the copies *)
(* they hold wrong, and the ring never holds more than its capacity.       *)
THEOREM InputQueueReaderIsNeverStale == QueueSpec => []ReaderIsNeverStale
<1>1. IInv => ReaderIsNeverStale
  BY DEF IInv
<1>. QED BY <1>1, InitEstablishesIInv, NextKeepsIInv, PTL DEF QueueSpec

-----------------------------------------------------------------------------
(* Refinement of BoundedFifo.                                              *)

(* The ring as a sequence: its length, and where its i-th character is.    *)
ContentsAreSlots ==
  /\ Contents \in Seq(Chars \cup {NoChar})
  /\ Len(Contents) = Pending
  /\ Pending \in 0 .. Capacity
  /\ input_queue_tail \in Positions
  /\ \A i \in 1 .. Pending :
       /\ (input_queue_tail + (i - 1)) % Capacity \in 0 .. Capacity - 1
       /\ Contents[i] = input_queue[(input_queue_tail + (i - 1)) % Capacity]

(* The queued characters are those in the slots from tail on.              *)
LEMMA ContentsSlots == IInv => ContentsAreSlots
<1>. SUFFICES ASSUME IInv PROVE ContentsAreSlots
  OBVIOUS
<1>1. /\ input_queue_tail \in Positions /\ Pending \in 0 .. Capacity
      /\ input_queue \in [0 .. Capacity - 1 -> Chars \cup {NoChar}]
  BY PendingType, ConstantTypes DEF IInv, ReaderIsNeverStale, TypeOK
<1>2. ASSUME NEW i \in 1 .. Pending
      PROVE  /\ (input_queue_tail + (i - 1)) % Capacity \in 0 .. Capacity - 1
             /\ Contents[i]
                  = input_queue[(input_queue_tail + (i - 1)) % Capacity]
  <2>1. i - 1 \in 0 .. Modulus /\ input_queue_tail + (i - 1) \in Nat
    BY <1>1, ConstantTypes DEF Positions
  <2>2. Index((input_queue_tail + (i - 1)) % Modulus)
          = (input_queue_tail + (i - 1)) % Capacity
    BY <1>1, <2>1, SlotOf
  <2>3. (input_queue_tail + (i - 1)) % Capacity \in 0 .. Capacity - 1
    BY <2>1, SlotDivision
  <2>. QED BY <2>2, <2>3 DEF Contents
<1>3. /\ Contents = [i \in 1 .. Pending |-> Contents[i]]
      /\ \A i \in 1 .. Pending : Contents[i] \in Chars \cup {NoChar}
  BY <1>1, <1>2 DEF Contents
<1>4. Contents \in Seq(Chars \cup {NoChar}) /\ Len(Contents) = Pending
  BY <1>1, <1>3
<1>. QED BY <1>1, <1>2, <1>4 DEF ContentsAreSlots

(* An accepted character is appended, and no queued one is overwritten.    *)
LEMMA EnqueueAppends ==
  ASSUME IInv, IInv', NEW ascii \in Chars, Pending < Capacity,
         input_queue' = [input_queue EXCEPT ![Index(input_queue_head)] = ascii],
         input_queue_head' = Advance(input_queue_head),
         UNCHANGED input_queue_tail
  PROVE  Contents' = Append(Contents, ascii)
<1>1. /\ Pending' = Pending + 1
      /\ Pending \in 0 .. Capacity - 1
      /\ Index(input_queue_head) = (input_queue_tail + Pending) % Capacity
  BY EnqueueCounts DEF IInv
<1>2. /\ Contents' \in Seq(Chars \cup {NoChar}) /\ Len(Contents') = Pending + 1
      /\ \A i \in 1 .. Pending + 1 :
           /\ (input_queue_tail + (i - 1)) % Capacity \in 0 .. Capacity - 1
           /\ Contents'[i]
                = input_queue'[(input_queue_tail + (i - 1)) % Capacity]
  <2>1. ContentsAreSlots'
    BY ContentsSlots, PTL
  <2>. QED BY <1>1, <2>1 DEF ContentsAreSlots
<1>3. input_queue \in [0 .. Capacity - 1 -> Chars \cup {NoChar}]
  BY DEF IInv, TypeOK
<1>4. ASSUME NEW i \in 1 .. Pending PROVE Contents'[i] = Contents[i]
  <2>. DEFINE a == input_queue_tail + (i - 1)  n == Pending - (i - 1)
  <2>1. a \in Nat /\ n \in 1 .. Capacity - 1 /\ a + n = input_queue_tail + Pending
    <3>1. CASE i = 1
      <4>1. Pending \in 1 .. Capacity - 1
        BY <1>1, <1>4
      <4>. QED BY <3>1, <4>1, PendingType DEF IInv, Positions
    <3>2. CASE i # 1
      BY <1>1, <3>2, PendingType, ConstantTypes DEF IInv, Positions
    <3>. QED BY <3>1, <3>2
  <2>. HIDE DEF a, n
  <2>2. (a + n) % Capacity # a % Capacity
    BY <2>1, SlotsDiffer
  <2>3. a % Capacity # Index(input_queue_head)
    BY <1>1, <2>1, <2>2
  <2>4. input_queue'[a % Capacity] = input_queue[a % Capacity]
    BY <1>2, <1>3, <2>3 DEF a
  <2>. QED BY <1>1, <1>2, <2>4, ContentsSlots DEF a, ContentsAreSlots
<1>5. Contents'[Pending + 1] = ascii
  BY <1>1, <1>2, <1>3
<1>. QED BY <1>1, <1>2, <1>4, <1>5, ContentsSlots DEF ContentsAreSlots

(* A committed read takes the oldest character off.                        *)
LEMMA CommitTakesOldest ==
  ASSUME IInv, IInv', Pending > 0,
         input_queue_tail' = Advance(input_queue_tail),
         UNCHANGED <<input_queue, input_queue_head>>
  PROVE  /\ Contents # <<>>
         /\ Head(Contents) = input_queue[Index(input_queue_tail)]
         /\ Contents' = Tail(Contents)
<1>0. ContentsAreSlots'
  BY ContentsSlots, PTL
<1>1. Pending' = Pending - 1
  BY CommitCounts DEF IInv
<1>2. /\ input_queue_tail \in Positions /\ input_queue_tail' \in Positions
      /\ Pending \in 1 .. Capacity
  BY <1>0, ContentsSlots DEF ContentsAreSlots
<1>3. Contents # <<>> /\ Head(Contents) = input_queue[Index(input_queue_tail)]
  BY <1>2, ContentsSlots DEF Index, Positions, ContentsAreSlots
<1>4. ASSUME NEW i \in 1 .. Pending - 1
      PROVE  (input_queue_tail' + (i - 1)) % Capacity
               = (input_queue_tail + i) % Capacity
  <2>1. CASE input_queue_tail # Modulus - 1
    BY <1>2, <2>1, AdvanceIs, ConstantTypes DEF Positions
  <2>2. CASE input_queue_tail = Modulus - 1
    <3>. DEFINE a == input_queue_tail + i
    <3>1. a \in Nat /\ a >= Modulus /\ a - Modulus = input_queue_tail' + (i - 1)
      BY <1>2, <2>2, AdvanceIs, ConstantTypes DEF Positions
    <3>. HIDE DEF a
    <3>2. (a - Modulus) % Capacity = a % Capacity
      BY <3>1, IndexIgnoresWrap
    <3>. QED BY <3>1, <3>2 DEF a
  <2>. QED BY <2>1, <2>2
<1>5. /\ Contents' \in Seq(Chars \cup {NoChar}) /\ Len(Contents') = Pending - 1
      /\ \A i \in 1 .. Pending - 1 :
           Contents'[i]
             = input_queue[(input_queue_tail' + (i - 1)) % Capacity]
  BY <1>0, <1>1 DEF ContentsAreSlots
<1>6. ASSUME NEW i \in 1 .. Pending - 1
      PROVE  Contents'[i] = Contents[i + 1]
  <2>1. i + 1 \in 1 .. Pending /\ (i + 1) - 1 = i
    BY <1>2
  <2>. QED BY <1>4, <1>5, <2>1, ContentsSlots DEF ContentsAreSlots
<1>7. Contents' = Tail(Contents)
  <2>1. Contents \in Seq(Chars \cup {NoChar}) /\ Len(Contents) = Pending
    BY ContentsSlots DEF ContentsAreSlots
  <2>2. /\ Tail(Contents) \in Seq(Chars \cup {NoChar})
        /\ Len(Tail(Contents)) = Pending - 1
        /\ \A i \in 1 .. Pending - 1 : Tail(Contents)[i] = Contents[i + 1]
    BY <1>2, <1>3, <2>1
  <2>3. \A i \in 1 .. Len(Contents') : Contents'[i] = Tail(Contents)[i]
    BY <1>5, <1>6, <2>2
  <2>. QED BY <1>5, <2>2, <2>3
<1>. QED BY <1>3, <1>7

(* The producer's step is Put or Drop.                                     *)
LEMMA ProduceRefines ==
  ASSUME IInv, IInv', NEW ascii \in Chars, input_enqueue_character(ascii),
         UNCHANGED <<reader, answer>>
  PROVE  BF!Put(ascii) \/ BF!Drop
<1>1. Len(Contents) = Pending /\ Pending \in 0 .. Capacity
  BY ContentsSlots DEF ContentsAreSlots
<1>2. CASE Pending >= Capacity
  <2>1. /\ UNCHANGED <<input_queue, input_queue_head, input_queue_tail>>
        /\ input_dropped_character_count' =
             IF input_dropped_character_count = UINT32_MAX
             THEN input_dropped_character_count
             ELSE input_dropped_character_count + 1
    BY <1>1, <1>2, ConstantTypes DEF input_enqueue_character, Pending
  <2>2. Contents' = Contents
    BY <2>1 DEF Contents, Pending
  <2>3. Len(Contents) = Capacity
    BY <1>1, <1>2, ConstantTypes
  <2>. QED BY <2>1, <2>2, <2>3 DEF BF!Drop
<1>3. CASE Pending < Capacity
  <2>1. /\ input_queue' = [input_queue EXCEPT ![Index(input_queue_head)] = ascii]
        /\ input_queue_head' = Advance(input_queue_head)
        /\ UNCHANGED <<input_queue_tail, input_dropped_character_count>>
    BY <1>1, <1>3, ConstantTypes DEF input_enqueue_character, Pending
  <2>2. Contents' = Append(Contents, ascii)
    BY <1>3, <2>1, EnqueueAppends
  <2>. QED BY <1>1, <1>3, <2>1, <2>2 DEF BF!Put
<1>. QED BY <1>1, <1>2, <1>3, ConstantTypes

(* The consumer's step is Get, GetEmpty, Count or not visible.             *)
LEMMA ConsumerRefines ==
  ASSUME IInv, IInv', ReadTail \/ ReadHead \/ ReadSlot \/ WriteTail
                      \/ CountHead \/ CountTail
  PROVE  [BF!Get \/ BF!GetEmpty \/ BF!Count]_BF!bfVars
<1>1. Len(Contents) = Pending /\ Pending \in 0 .. Capacity
  BY ContentsSlots DEF ContentsAreSlots
<1>2. (UNCHANGED queueVars) => Contents' = Contents
                               /\ UNCHANGED input_dropped_character_count
  BY DEF queueVars, Contents, Pending
<1>3. CASE ReadTail \/ ReadSlot \/ CountHead
  BY <1>2, <1>3 DEF ReadTail, ReadSlot, CountHead, BF!bfVars
<1>4. CASE ReadHead
  <2>1. CASE reader.tail # input_queue_head
    BY <1>2, <1>4, <2>1 DEF ReadHead, BF!bfVars
  <2>2. CASE reader.tail = input_queue_head
    <3>1. answer' = Reply("empty", NoChar, 0) /\ UNCHANGED queueVars
      BY <1>4, <2>2 DEF ReadHead
    <3>2. input_queue_tail = input_queue_head
      BY <1>4, <2>2 DEF IInv, ReaderIsNeverStale, ReadHead
    <3>3. Pending = 0
      BY <3>2, PendingType, DistanceIs DEF IInv, Pending, Positions
    <3>4. Contents = <<>>
      BY <3>3 DEF Contents
    <3>. QED BY <1>2, <3>1, <3>4 DEF BF!GetEmpty, BF!Reply, Reply
  <2>. QED BY <2>1, <2>2
<1>5. CASE WriteTail
  <2>1. /\ input_queue_tail' = Advance(input_queue_tail)
        /\ answer' = Reply("read", input_queue[Index(input_queue_tail)], 0)
        /\ UNCHANGED <<input_queue, input_queue_head,
                       input_dropped_character_count>>
        /\ Pending > 0
    BY <1>5 DEF WriteTail, IInv, ReaderIsNeverStale
  <2>2. /\ Contents # <<>>
        /\ Head(Contents) = input_queue[Index(input_queue_tail)]
        /\ Contents' = Tail(Contents)
    BY <2>1, CommitTakesOldest
  <2>. QED BY <2>1, <2>2 DEF BF!Get, BF!Reply, Reply
<1>6. CASE CountTail
  <2>1. /\ answer' = Reply("count", NoChar,
                           Distance(reader.head, input_queue_tail))
        /\ UNCHANGED queueVars
        /\ Distance(reader.head, input_queue_tail) <= Pending
    BY <1>6 DEF CountTail, IInv, ReaderIsNeverStale
  <2>2. Distance(reader.head, input_queue_tail) \in 0 .. Len(Contents)
    <3>1. reader.head \in Positions /\ input_queue_tail \in Positions
      BY DEF IInv, TypeOK, Positions
    <3>2. Distance(reader.head, input_queue_tail) \in Nat
      BY <3>1, DistanceIs, ConstantTypes DEF Positions
    <3>. QED BY <1>1, <2>1, <3>2
  <2>. QED BY <1>2, <2>1, <2>2 DEF BF!Count, BF!Reply, Reply
<1>. QED BY <1>3, <1>4, <1>5, <1>6

(* The ring of input.c, with positions that wrap around and a consumer     *)
(* that an interrupt may meet at any access, is the bounded FIFO of        *)
(* input.h: for every capacity, width and set of characters.               *)
THEOREM InputQueueRefinesBoundedFifo == QueueSpec => RefinesBoundedFifo
<1>1. QueueInit => BF!BFInit
  <2>. SUFFICES ASSUME QueueInit PROVE BF!BFInit
    OBVIOUS
  <2>1. Pending = 0
    BY DistanceIs, ConstantTypes DEF QueueInit, Pending, Positions
  <2>2. Contents = <<>>
    BY <2>1 DEF Contents
  <2>. QED BY <2>2 DEF QueueInit, BF!BFInit, BF!Reply, Reply
<1>2. IInv /\ IInv' /\ [QueueNext]_vars => [BF!BFNext]_BF!bfVars
  <2>. SUFFICES ASSUME IInv, IInv', [QueueNext]_vars
       PROVE  [BF!BFNext]_BF!bfVars
    OBVIOUS
  <2>1. CASE Produce
    BY <2>1, ProduceRefines DEF Produce, BF!BFNext
  <2>2. CASE ReadTail \/ ReadHead \/ ReadSlot \/ WriteTail
             \/ CountHead \/ CountTail
    BY <2>2, ConsumerRefines DEF BF!BFNext
  <2>3. CASE UNCHANGED vars
    BY <2>3 DEF vars, queueVars, BF!bfVars, Contents, Pending
  <2>. QED BY <2>1, <2>2, <2>3 DEF QueueNext
<1>. QED BY <1>1, <1>2, InitEstablishesIInv, NextKeepsIInv, PTL
     DEF QueueSpec, RefinesBoundedFifo, BF!BFSpec
=============================================================================
