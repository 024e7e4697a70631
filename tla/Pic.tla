-------------------------------- MODULE Pic --------------------------------
(***************************************************************************)
(* The pair of 8259 interrupt controllers and their driver,                *)
(* src/arch/i386/hardware/pic.c.  The chips (external) are one record:     *)
(*   offset  vector of line 0 (the slave's lines follow the master's)      *)
(*   imr     masked lines                                                  *)
(*   irr     edges latched and not yet acknowledged by the CPU             *)
(*   isr     lines in service                                              *)
(* Every operator maps a controller state to the next one.                 *)
(***************************************************************************)
EXTENDS Naturals, FiniteSetsExt

Lines == 0 .. 15
Master == 0 .. 7
Slave == 8 .. 15
CascadeLine == 2

PIC_MASTER_OFFSET == 32

(* The whole ICW sequence; interrupts are off, so nobody sees it half      *)
(* done.  ICW1 resets the edge detection; the masks are saved and restored.*)
pic_remap(p) ==
  [offset |-> PIC_MASTER_OFFSET, imr |-> p.imr, irr |-> {}, isr |-> {}]

pic_mask_all(p) == [p EXCEPT !.imr = Lines]

pic_unmask_irq(p, irq) ==
  [p EXCEPT !.imr = @ \ (IF irq \in Master THEN {irq} ELSE {irq, CascadeLine})]

(* A non-specific EOI ends the highest-priority line in service.           *)
EndOfInterrupt(p, chip) ==
  [p EXCEPT !.isr = IF @ \cap chip = {} THEN @ ELSE @ \ {Min(@ \cap chip)}]

(* Mutation: the EOI is sent to the slave only.                            *)
EoiToSlaveOnly(p, irq) == EndOfInterrupt(p, Slave)

pic_send_eoi(p, irq) ==
  EndOfInterrupt(IF irq \in Slave THEN EndOfInterrupt(p, Slave) ELSE p, Master)

(* The chips.  A device raises its line: an edge is latched, masked or not.*)
Raise(p, irq) == [p EXCEPT !.irr = @ \cup {irq}]

(* Position in the fixed priority order, the slave between lines 1 and 3.  *)
Rank(irq) == IF irq \in Master THEN 16 * irq ELSE 16 * CascadeLine + irq

(* The line offered to the CPU, as a set of at most one: the best one that *)
(* is requested, unmasked, and better than every line in service.          *)
Offered(p) ==
  LET requested == {irq \in p.irr \ p.imr :
                      irq \in Slave => CascadeLine \notin p.imr}
  IN  {irq \in requested :
         /\ \A other \in requested : Rank(irq) <= Rank(other)
         /\ \A busy \in p.isr : Rank(irq) < Rank(busy)}

Acknowledge(p, irq) ==
  [p EXCEPT !.irr = @ \ {irq},
            !.isr = @ \cup (IF irq \in Slave THEN {irq, CascadeLine}
                            ELSE {irq})]
=============================================================================
