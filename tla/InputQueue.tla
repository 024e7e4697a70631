----------------------------- MODULE InputQueue -----------------------------
(***************************************************************************)
(* The input queue of src/kernel/input.c: a ring of Capacity characters    *)
(* with free-running 32-bit positions.  The producer runs inside an IRQ    *)
(* handler, so its code is one step; the foreground consumer is cut into   *)
(* its volatile accesses, and the handler may run between any two of them. *)
(***************************************************************************)
EXTENDS Integers, Sequences

CONSTANTS Chars,      \* the translated characters
          NoChar,     \* '\0'
          Capacity,   \* INPUT_QUEUE_CAPACITY
          Modulus     \* 2^32, the number of values of a uint32_t

(* The capacity is a power of two below 2^32; what is needed of that is    *)
(* that it divides the range of the positions and leaves room above it.    *)
ASSUME InputQueueConstants ==
  /\ Capacity \in Nat \ {0}
  /\ Modulus \in Nat
  /\ Capacity < Modulus
  /\ Modulus % Capacity = 0
  /\ NoChar \notin Chars

VARIABLES
  input_queue,                    \* [0 .. Capacity - 1 -> character]
  input_queue_head,
  input_queue_tail,
  input_dropped_character_count,
  reader,                         \* the consumer: where it is, its locals
  answer                          \* what its last call returned

queueVars == <<input_queue, input_queue_head, input_queue_tail,
               input_dropped_character_count>>
vars == <<queueVars, reader, answer>>

Idle == [at |-> "idle", tail |-> 0, head |-> 0, ascii |-> NoChar]

Reply(op, char, n) == [op |-> op, char |-> char, n |-> n]

(* uint32_t subtraction and increment; "& INPUT_QUEUE_INDEX_MASK".         *)
Distance(head, tail) == (head - tail) % Modulus
AdvanceWithoutWrap(position) == position + 1     \* mutation
Advance(position) == (position + 1) % Modulus
Index(position) == position % Capacity

UINT32_MAX == Modulus - 1

-----------------------------------------------------------------------------
(* Called once, before IRQ1 is unmasked.  The array is left as it is.      *)
input_initialize ==
  /\ input_queue_head' = 0
  /\ input_queue_tail' = 0
  /\ input_dropped_character_count' = 0
  /\ UNCHANGED input_queue

(* Mutation: accepts a character into a full queue.                        *)
EnqueueOffByOne(ascii) ==
  /\ Distance(input_queue_head, input_queue_tail) <= Capacity
  /\ input_queue' = [input_queue EXCEPT ![Index(input_queue_head)] = ascii]
  /\ input_queue_head' = Advance(input_queue_head)
  /\ UNCHANGED <<input_queue_tail, input_dropped_character_count>>

(* The producer, in the IRQ1 handler.                                      *)
input_enqueue_character(ascii) ==
  \/ /\ Distance(input_queue_head, input_queue_tail) >= Capacity
     /\ input_dropped_character_count' =
          IF input_dropped_character_count # UINT32_MAX
          THEN input_dropped_character_count + 1
          ELSE input_dropped_character_count
     /\ UNCHANGED <<input_queue, input_queue_head, input_queue_tail>>
  \/ /\ Distance(input_queue_head, input_queue_tail) < Capacity
     /\ input_queue' = [input_queue EXCEPT ![Index(input_queue_head)] = ascii]
     /\ input_queue_head' = Advance(input_queue_head)
     /\ UNCHANGED <<input_queue_tail, input_dropped_character_count>>

-----------------------------------------------------------------------------
(* input_try_read_character: tail, head, slot, then the new tail.          *)
ReadTail ==
  /\ reader.at = "idle"
  /\ reader' = [reader EXCEPT !.at = "head", !.tail = input_queue_tail]
  /\ UNCHANGED <<queueVars, answer>>

ReadHead ==
  /\ reader.at = "head"
  /\ IF reader.tail = input_queue_head
     THEN /\ reader' = Idle
          /\ answer' = Reply("empty", NoChar, 0)
     ELSE /\ reader' = [reader EXCEPT !.at = "slot", !.head = input_queue_head]
          /\ UNCHANGED answer
  /\ UNCHANGED queueVars

ReadSlot ==
  /\ reader.at = "slot"
  /\ reader' = [reader EXCEPT !.at = "commit",
                              !.ascii = input_queue[Index(reader.tail)]]
  /\ UNCHANGED <<queueVars, answer>>

WriteTail ==
  /\ reader.at = "commit"
  /\ input_queue_tail' = Advance(reader.tail)
  /\ answer' = Reply("read", reader.ascii, 0)
  /\ reader' = Idle
  /\ UNCHANGED <<input_queue, input_queue_head, input_dropped_character_count>>

(* input_get_pending_character_count, read with interrupts on by the       *)
(* shell's "input" command: head, then tail.                               *)
CountHead ==
  /\ reader.at = "idle"
  /\ reader' = [reader EXCEPT !.at = "count", !.head = input_queue_head]
  /\ UNCHANGED <<queueVars, answer>>

(* Mutation: the subtraction the other way round.                          *)
CountTailReversed ==
  /\ reader.at = "count"
  /\ answer' = Reply("count", NoChar, Distance(input_queue_tail, reader.head))
  /\ reader' = Idle
  /\ UNCHANGED queueVars

CountTail ==
  /\ reader.at = "count"
  /\ answer' = Reply("count", NoChar, Distance(reader.head, input_queue_tail))
  /\ reader' = Idle
  /\ UNCHANGED queueVars

-----------------------------------------------------------------------------
(* The statics' initial values; the array is zero-filled.                  *)
QueueInit ==
  /\ input_queue = [i \in 0 .. Capacity - 1 |-> NoChar]
  /\ input_queue_head = 0
  /\ input_queue_tail = 0
  /\ input_dropped_character_count = 0
  /\ reader = Idle
  /\ answer = Reply("none", NoChar, 0)

Produce == \E ascii \in Chars : /\ input_enqueue_character(ascii)
                                /\ UNCHANGED <<reader, answer>>

QueueNext ==
  Produce \/ ReadTail \/ ReadHead \/ ReadSlot \/ WriteTail
          \/ CountHead \/ CountTail

QueueSpec == QueueInit /\ [][QueueNext]_vars

-----------------------------------------------------------------------------
(* Properties.                                                             *)

Pending == Distance(input_queue_head, input_queue_tail)

TypeOK ==
  /\ input_queue \in [0 .. Capacity - 1 -> Chars \cup {NoChar}]
  /\ input_queue_head \in 0 .. Modulus - 1
  /\ input_queue_tail \in 0 .. Modulus - 1
  /\ input_dropped_character_count \in 0 .. UINT32_MAX
  /\ reader \in [at : {"idle", "head", "slot", "commit", "count"},
                 tail : 0 .. Modulus - 1, head : 0 .. Modulus - 1,
                 ascii : Chars \cup {NoChar}]

(* The characters the ring holds, oldest first.                            *)
Contents ==
  [i \in 1 .. Pending |->
     input_queue[Index((input_queue_tail + (i - 1)) % Modulus)]]

(* While the consumer is between its accesses, its copy of the tail is     *)
(* still the tail, the character it has copied is still the oldest one in  *)
(* the ring, and a head it has read is behind the real one by no more than *)
(* was queued since: an IRQ in between never invalidates them.  At most    *)
(* Capacity characters are queued although head and tail wrap around.      *)
ReaderIsNeverStale ==
  /\ Pending <= Capacity
  /\ reader.at \in {"head", "slot", "commit"} =>
       reader.tail = input_queue_tail
  /\ reader.at \in {"slot", "commit"} => Pending > 0
  /\ reader.at = "commit" =>
       reader.ascii = input_queue[Index(input_queue_tail)]
  /\ reader.at = "count" =>
       Distance(reader.head, input_queue_tail) <= Pending

(* The ring with wrapping positions is the bounded FIFO that input.h       *)
(* promises: no accepted character is lost, duplicated or reordered,       *)
(* overwritten before it is read, or invented from an unused slot.         *)
BF == INSTANCE BoundedFifo WITH
        fifo       <- Contents,
        dropped    <- input_dropped_character_count,
        MaxDropped <- UINT32_MAX

RefinesBoundedFifo == BF!BFSpec
=============================================================================
