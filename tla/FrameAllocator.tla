--------------------------- MODULE FrameAllocator ---------------------------
(***************************************************************************)
(* What the physical memory manager promises its callers (pmm.h): a pool   *)
(* of frames that is fixed when the manager comes up, from which           *)
(* allocation takes the LOWEST free frame, fails only when the pool is     *)
(* empty, and to which only frames that were handed out can come back.     *)
(* There are no bitmaps, no counters and no search position here.          *)
(***************************************************************************)
EXTENDS Naturals

CONSTANTS MaxFrames,     \* number of frames the bitmap can describe
          NoFrame        \* "no frame" in a result

VARIABLES up,            \* has initialisation succeeded?
          free,          \* frames that may be handed out
          owned,         \* frames callers hold
          answer         \* what the last call returned

faVars == <<up, free, owned, answer>>

Answer(op, ok, frame) == [op |-> op, ok |-> ok, frame |-> frame]

FAInit ==
  /\ up = FALSE
  /\ free = {}
  /\ owned = {}
  /\ answer = Answer("none", FALSE, NoFrame)

(* Initialisation either fails, or fixes a non-empty pool.                 *)
Start ==
  /\ ~up
  /\ \/ /\ up' = TRUE
        /\ free' \in (SUBSET (0 .. MaxFrames - 1)) \ {{}}
        /\ answer' = Answer("initialize", TRUE, NoFrame)
     \/ /\ UNCHANGED <<up, free>>
        /\ answer' = Answer("initialize", FALSE, NoFrame)
  /\ UNCHANGED owned

Allocate ==
  /\ \E f \in free :
       /\ \A g \in free : f <= g
       /\ free' = free \ {f}
       /\ owned' = owned \cup {f}
       /\ answer' = Answer("allocate", TRUE, f)
  /\ UNCHANGED up

AllocateFails ==
  /\ free = {}
  /\ answer' = Answer("allocate", FALSE, NoFrame)
  /\ UNCHANGED <<up, free, owned>>

Release ==
  /\ \E f \in owned :
       /\ owned' = owned \ {f}
       /\ free' = free \cup {f}
       /\ answer' = Answer("free", TRUE, f)
  /\ UNCHANGED up

ReleaseRefused ==
  /\ answer' = Answer("free", FALSE, NoFrame)
  /\ UNCHANGED <<up, free, owned>>

(* The built-in self-test passes exactly when there is a frame to try, and *)
(* leaves no trace in the pool.                                            *)
SelfTest ==
  /\ answer' = Answer("self_test", free # {}, NoFrame)
  /\ UNCHANGED <<up, free, owned>>

FANext ==
  Start \/ Allocate \/ AllocateFails \/ Release \/ ReleaseRefused \/ SelfTest

FASpec == FAInit /\ [][FANext]_faVars
=============================================================================
