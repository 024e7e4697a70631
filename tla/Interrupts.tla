----------------------------- MODULE Interrupts -----------------------------
(***************************************************************************)
(* The IRQ registry, context depth and diagnostics, src/kernel/interrupts.c*)
(***************************************************************************)
EXTENDS Naturals

CONSTANTS IRQ_HANDLER_COUNT,
          UINT32_MAX

NULL == "NULL"

VARIABLES irq_handlers, irq_dispatch_counts, unhandled_irq_count,
          invalid_irq_count, interrupt_context_depth

counters == <<irq_dispatch_counts, unhandled_irq_count, invalid_irq_count>>
registryVars == <<irq_handlers, counters, interrupt_context_depth>>

Irqs == 0 .. IRQ_HANDLER_COUNT - 1

(* Mutation: the counter wraps to zero.                                    *)
IncrementWrapping(counter) == (counter + 1) % (UINT32_MAX + 1)

interrupts_increment_saturating(counter) ==
  IF counter # UINT32_MAX THEN counter + 1 ELSE counter

interrupts_initialize ==
  /\ irq_handlers' = [irq \in Irqs |-> NULL]
  /\ irq_dispatch_counts' = [irq \in Irqs |-> 0]
  /\ unhandled_irq_count' = 0
  /\ invalid_irq_count' = 0
  /\ interrupt_context_depth' = 0

CanRegister(irq, handler) ==
  irq \in Irqs /\ handler # NULL /\ irq_handlers[irq] = NULL

(* A refused registration changes nothing.                                 *)
interrupts_register_irq(irq, handler) ==
  /\ irq_handlers' = IF CanRegister(irq, handler)
                     THEN [irq_handlers EXCEPT ![irq] = handler]
                     ELSE irq_handlers
  /\ UNCHANGED <<counters, interrupt_context_depth>>

CanEnter == interrupt_context_depth # UINT32_MAX

interrupts_context_enter ==
  /\ CanEnter
  /\ interrupt_context_depth' = interrupt_context_depth + 1
  /\ UNCHANGED <<irq_handlers, counters>>

(* Mutation: the depth is not taken back.                                  *)
ExitForgotten ==
  /\ interrupt_context_depth # 0
  /\ UNCHANGED registryVars

CanExit == interrupt_context_depth # 0

interrupts_context_exit ==
  /\ CanExit
  /\ interrupt_context_depth' = interrupt_context_depth - 1
  /\ UNCHANGED <<irq_handlers, counters>>

interrupts_is_in_context == interrupt_context_depth # 0

(* Mutation: an interrupt nobody handles is counted as unhandled only.     *)
CountsHandledOnly(irq) ==
  /\ IF irq_handlers[irq] = NULL
     THEN /\ unhandled_irq_count' =
               interrupts_increment_saturating(unhandled_irq_count)
          /\ UNCHANGED irq_dispatch_counts
     ELSE /\ irq_dispatch_counts' =
               [irq_dispatch_counts EXCEPT
                  ![irq] = interrupts_increment_saturating(@)]
          /\ UNCHANGED unhandled_irq_count
  /\ UNCHANGED <<invalid_irq_count, irq_handlers, interrupt_context_depth>>

(* The counting half of interrupts_dispatch_irq; the caller then runs      *)
(* irq_handlers[irq] unless it is NULL.                                    *)
interrupts_dispatch_irq(irq) ==
  /\ IF irq \notin Irqs
     THEN /\ invalid_irq_count' =
               interrupts_increment_saturating(invalid_irq_count)
          /\ UNCHANGED <<irq_dispatch_counts, unhandled_irq_count>>
     ELSE /\ irq_dispatch_counts' =
               [irq_dispatch_counts EXCEPT
                  ![irq] = interrupts_increment_saturating(@)]
          /\ unhandled_irq_count' =
               IF irq_handlers[irq] = NULL
               THEN interrupts_increment_saturating(unhandled_irq_count)
               ELSE unhandled_irq_count
          /\ UNCHANGED invalid_irq_count
  /\ UNCHANGED <<irq_handlers, interrupt_context_depth>>
=============================================================================
