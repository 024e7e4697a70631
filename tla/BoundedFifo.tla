---------------------------- MODULE BoundedFifo ----------------------------
(***************************************************************************)
(* What the input service promises (input.h): a FIFO of at most Capacity   *)
(* characters between one producer and one consumer.  A character that     *)
(* arrives when it is full is dropped and counted, up to MaxDropped; a     *)
(* read returns the oldest character, and fails only when there is none;   *)
(* the pending count is approximate, but never more than what is queued.   *)
(***************************************************************************)
EXTENDS Naturals, Sequences

CONSTANTS Chars, NoChar, Capacity, MaxDropped

VARIABLES fifo, dropped, answer

bfVars == <<fifo, dropped, answer>>

Reply(op, char, n) == [op |-> op, char |-> char, n |-> n]

BFInit ==
  /\ fifo = <<>>
  /\ dropped = 0
  /\ answer = Reply("none", NoChar, 0)

Put(c) ==
  /\ Len(fifo) < Capacity
  /\ fifo' = Append(fifo, c)
  /\ UNCHANGED <<dropped, answer>>

Drop ==
  /\ Len(fifo) = Capacity
  /\ dropped' = IF dropped = MaxDropped THEN dropped ELSE dropped + 1
  /\ UNCHANGED <<fifo, answer>>

Get ==
  /\ fifo # <<>>
  /\ fifo' = Tail(fifo)
  /\ answer' = Reply("read", Head(fifo), 0)
  /\ UNCHANGED dropped

GetEmpty ==
  /\ fifo = <<>>
  /\ answer' = Reply("empty", NoChar, 0)
  /\ UNCHANGED <<fifo, dropped>>

Count ==
  /\ \E n \in 0 .. Len(fifo) : answer' = Reply("count", NoChar, n)
  /\ UNCHANGED <<fifo, dropped>>

BFNext == (\E c \in Chars : Put(c)) \/ Drop \/ Get \/ GetEmpty \/ Count

BFSpec == BFInit /\ [][BFNext]_bfVars
=============================================================================
