----------------------------- MODULE KernelLoop -----------------------------
(***************************************************************************)
(* The running kernel: the boot steps that switch interrupts on            *)
(* (src/kernel/kernel.c), the work loop (src/kernel/work.c), the IRQ path  *)
(* (src/arch/i386/interrupts/idt.c, isr_stubs.s) and the devices that      *)
(* interrupt it.  Composes InputQueue, Keyboard, Interrupts and Pic.       *)
(*                                                                         *)
(* Between two foreground steps, and between two steps of a handler, a     *)
(* device may raise its line; the CPU takes an interrupt between any two   *)
(* steps while its interrupt flag is set.  Log and console output is left  *)
(* out, the serial heartbeat of every hundredth tick included.             *)
(***************************************************************************)
EXTENDS Integers, Sequences, FiniteSets, Pic

CONSTANTS
  Bytes,               \* the scancodes the keyboard may send
  Capacity,            \* INPUT_QUEUE_CAPACITY
  Modulus,             \* 2^32
  HandlersOutrunPit    \* the PIT is silent while a handler runs

(* Scancodes are bytes; capacity and modulus are as in InputQueue.         *)
ASSUME KernelLoopConstants ==
  /\ HandlersOutrunPit \in BOOLEAN
  /\ Bytes \subseteq 0 .. 255
  /\ Capacity \in Nat \ {0}
  /\ Modulus \in Nat
  /\ Capacity < Modulus
  /\ Modulus % Capacity = 0

VARIABLES
  step,              \* the next foreground step, or "panic"
  interrupt_flag,    \* EFLAGS.IF
  halted,            \* the CPU is in HLT
  irq_frames,        \* the irq_handler activations, innermost first
  idt_loaded,
  pic,
  kbc,               \* the keyboard controller's output buffer
  stranded,          \* history: pic_remap threw an IRQ1 edge away
  pit_ticks

VARIABLES irq_handlers, irq_dispatch_counts, unhandled_irq_count,
          invalid_irq_count, interrupt_context_depth
VARIABLES keyboard_shift_pressed, keyboard_caps_lock_enabled
VARIABLES input_queue, input_queue_head, input_queue_tail,
          input_dropped_character_count, reader, answer

KB == INSTANCE Keyboard

INT == INSTANCE Interrupts WITH IRQ_HANDLER_COUNT <- 16,
                                UINT32_MAX <- Modulus - 1

IQ == INSTANCE InputQueue WITH Chars <- {"normal", "shift"} \X KB!Mapped,
                               NoChar <- KB!NoCharacter

cpuVars == <<interrupt_flag, halted, irq_frames>>
deviceVars == <<pic, kbc, stranded>>
registryVars == <<irq_handlers, irq_dispatch_counts, unhandled_irq_count,
                  invalid_irq_count, interrupt_context_depth>>
keyboardVars == <<keyboard_shift_pressed, keyboard_caps_lock_enabled>>
queueVars == <<input_queue, input_queue_head, input_queue_tail,
               input_dropped_character_count>>
inputVars == <<queueVars, reader, answer>>
vars == <<step, cpuVars, idt_loaded, deviceVars, pit_ticks,
          registryVars, keyboardVars, inputVars>>

-----------------------------------------------------------------------------
(* kernel_panic: interrupts off, then HLT for ever.                        *)
kernel_panic ==
  /\ step' = "panic"
  /\ interrupt_flag' = FALSE

(* Go on to another foreground step if the call succeeded, else panic.     *)
Require(success, next) ==
  IF success THEN step' = next /\ UNCHANGED interrupt_flag ELSE kernel_panic

(* The foreground runs when no handler does.                               *)
Foreground(at) ==
  /\ step = at
  /\ irq_frames = <<>>
  /\ ~halted
  /\ UNCHANGED <<irq_frames, kbc, keyboardVars>>

(* kernel_main, from the interrupt services to the work loop.              *)
BootServices ==
  /\ Foreground("interrupts_initialize")
  /\ step' = "input_initialize"
  /\ INT!interrupts_initialize
  /\ UNCHANGED <<interrupt_flag, halted, idt_loaded, pic, stranded, pit_ticks, inputVars>>

BootInput ==
  /\ Foreground("input_initialize")
  /\ step' = "idt_initialize"
  /\ IQ!input_initialize
  /\ UNCHANGED <<interrupt_flag, halted, idt_loaded, pic, stranded, pit_ticks, registryVars, reader, answer>>

idt_initialize ==
  /\ Foreground("idt_initialize")
  /\ step' = "pic_remap"
  /\ idt_loaded' = TRUE
  /\ UNCHANGED <<interrupt_flag, halted, pic, stranded, pit_ticks,
                 registryVars, inputVars>>

(* One write sequence to the controllers.                                  *)
BootPic(at, next, p) ==
  /\ Foreground(at)
  /\ step' = next
  /\ pic' = p
  /\ stranded' = (stranded \/ (1 \in pic.irr \ p.irr))
  /\ UNCHANGED <<interrupt_flag, halted, idt_loaded, pit_ticks,
                 registryVars, inputVars>>

BootRegister(at, next, irq, handler) ==
  /\ Foreground(at)
  /\ INT!interrupts_register_irq(irq, handler)
  /\ Require(INT!CanRegister(irq, handler), next)
  /\ UNCHANGED <<halted, idt_loaded, pic, stranded, pit_ticks,
                 inputVars>>

PIT_BASE_FREQUENCY == 1193182
PIT_MAX_DIVISOR == 65535
PIT_MIN_FREQUENCY_HZ ==
  (PIT_BASE_FREQUENCY + PIT_MAX_DIVISOR - 1) \div PIT_MAX_DIVISOR

PitAccepts(frequency_hz) ==
  /\ frequency_hz \in PIT_MIN_FREQUENCY_HZ .. PIT_BASE_FREQUENCY
  /\ PIT_BASE_FREQUENCY \div frequency_hz \in 1 .. PIT_MAX_DIVISOR

pit_initialize(frequency_hz) ==
  /\ Foreground("pit_initialize")
  /\ pit_ticks' = IF PitAccepts(frequency_hz) THEN 0 ELSE pit_ticks
  /\ Require(PitAccepts(frequency_hz), "unmask_0")
  /\ UNCHANGED <<halted, idt_loaded, pic, stranded, registryVars,
                 inputVars>>

cpu_enable_interrupts(at, next) ==
  /\ Foreground(at)
  /\ step' = next
  /\ interrupt_flag' = TRUE
  /\ UNCHANGED <<halted, idt_loaded, pic, stranded, pit_ticks,
                 registryVars, inputVars>>

Boot ==
  \/ BootServices
  \/ BootInput
  \/ idt_initialize
  \/ BootPic("pic_remap", "pic_mask_all", pic_remap(pic))
  \/ BootPic("pic_mask_all", "register_0", pic_mask_all(pic))
  \/ BootRegister("register_0", "register_1", 0, "pit_handle_interrupt")
  \/ BootRegister("register_1", "pit_initialize", 1,
                  "input_handle_keyboard_interrupt")
  \/ pit_initialize(100)
  \/ BootPic("unmask_0", "unmask_1", pic_unmask_irq(pic, 0))
  \/ BootPic("unmask_1", "enable", pic_unmask_irq(pic, 1))
  \/ cpu_enable_interrupts("enable", "work")

-----------------------------------------------------------------------------
(* kernel_work_run_once.                                                   *)
WorkCheck ==
  /\ Foreground("work")
  /\ Require(~INT!interrupts_is_in_context, "disable")
  /\ UNCHANGED <<halted, idt_loaded, pic, stranded, pit_ticks,
                 registryVars, inputVars>>

(* Mutation: the queue is read with interrupts on.                         *)
DisableForgotten ==
  /\ Foreground("disable")
  /\ step' = "read"
  /\ UNCHANGED <<interrupt_flag, halted, idt_loaded, pic, stranded, pit_ticks, registryVars, inputVars>>

cpu_disable_interrupts ==
  /\ Foreground("disable")
  /\ step' = "read"
  /\ interrupt_flag' = FALSE
  /\ UNCHANGED <<halted, idt_loaded, pic, stranded, pit_ticks,
                 registryVars, inputVars>>

input_try_read_character ==
  /\ Foreground("read")
  /\ IQ!ReadTail \/ IQ!ReadHead \/ IQ!ReadSlot \/ IQ!WriteTail
  /\ step' = IF reader'.at # "idle" THEN "read"
             ELSE IF answer'.op = "read" THEN "deliver" ELSE "idle"
  /\ UNCHANGED <<interrupt_flag, halted, idt_loaded, pic, stranded, pit_ticks, registryVars>>

(* The character reaches the shell, whose first act is to refuse to run in *)
(* interrupt context.                                                      *)
shell_handle_character ==
  /\ Foreground("shell")
  /\ Require(~INT!interrupts_is_in_context, "work")
  /\ UNCHANGED <<halted, idt_loaded, pic, stranded, pit_ticks, registryVars,
                 inputVars>>

(* Mutation: an interrupt can be taken between STI and HLT.                *)
EnableThenHalt ==
  /\ Foreground("idle")
  /\ interrupt_flag' = TRUE
  /\ halted' = interrupt_flag
  /\ step' = IF interrupt_flag THEN "work" ELSE "idle"
  /\ UNCHANGED <<idt_loaded, pic, stranded, pit_ticks, registryVars,
                 inputVars>>

(* STI holds interrupts off until the HLT after it has begun.              *)
cpu_enable_interrupts_and_halt ==
  /\ Foreground("idle")
  /\ step' = "work"
  /\ interrupt_flag' = TRUE
  /\ halted' = TRUE
  /\ UNCHANGED <<idt_loaded, pic, stranded, pit_ticks,
                 registryVars, inputVars>>

Work ==
  \/ WorkCheck
  \/ cpu_disable_interrupts
  \/ input_try_read_character
  \/ cpu_enable_interrupts("deliver", "shell")
  \/ shell_handle_character
  \/ cpu_enable_interrupts_and_halt

-----------------------------------------------------------------------------
(* The devices: they run at any time, a panicked kernel's included.        *)
PitFires ==
  /\ HandlersOutrunPit => irq_frames = <<>>
  /\ pic' = Raise(pic, 0)
  /\ UNCHANGED <<step, cpuVars, idt_loaded, kbc, stranded, pit_ticks, registryVars, keyboardVars, inputVars>>

(* The controller keeps the line high until its buffer is read, and passes *)
(* the next byte on only then.                                             *)
KeyArrives(byte) ==
  /\ ~kbc.full
  /\ kbc' = [full |-> TRUE, byte |-> byte]
  /\ pic' = Raise(pic, 1)
  /\ UNCHANGED <<step, cpuVars, idt_loaded, stranded, pit_ticks,
                 registryVars, keyboardVars, inputVars>>

(* The CPU enters irq_handler through the gate of an IRQ's vector.         *)
Gate(vector) ==
  IF ~idt_loaded \/ vector > 47 THEN "absent"
  ELSE IF vector < 32 THEN "isr_handler" ELSE "irq_handler"

(* Mutation: trap gates, which leave the interrupt flag set.               *)
TrapGate == TRUE

(* 0x8E: an interrupt gate; the flag is clear inside the handler.          *)
IDT_INTERRUPT_GATE_RING0 == FALSE

EnterGate(irq, spurious) ==
  /\ interrupt_flag
  /\ halted' = FALSE
  /\ IF Gate(pic.offset + irq) = "irq_handler"
     THEN /\ irq_frames' =
               <<[irq |-> irq, spurious |-> spurious, at |-> "enter"]>>
                 \o irq_frames
          /\ interrupt_flag' = IDT_INTERRUPT_GATE_RING0
          /\ UNCHANGED step
     ELSE kernel_panic /\ UNCHANGED irq_frames
  /\ UNCHANGED <<idt_loaded, kbc, stranded, pit_ticks,
                 registryVars, keyboardVars, inputVars>>

TakeInterrupt(irq) ==
  /\ irq \in Offered(pic)
  /\ pic' = Acknowledge(pic, irq)
  /\ EnterGate(irq, FALSE)

(* A request that vanished before it was acknowledged: the master answers  *)
(* with its lowest line and sets nothing in service.                       *)
TakeSpurious ==
  /\ UNCHANGED pic
  /\ EnterGate(7, TRUE)

-----------------------------------------------------------------------------
(* irq_handler, the innermost activation.                                  *)
Frame == Head(irq_frames)

Handler(at, next) ==
  /\ irq_frames # <<>>
  /\ step # "panic"
  /\ Frame.at = at
  /\ irq_frames' = [irq_frames EXCEPT ![1].at = next]
  /\ UNCHANGED <<halted, idt_loaded, stranded, reader, answer>>

HandlerEnter ==
  /\ Handler("enter", "dispatch")
  /\ IF INT!CanEnter
     THEN INT!interrupts_context_enter /\ UNCHANGED <<step, interrupt_flag>>
     ELSE kernel_panic /\ UNCHANGED registryVars
  /\ UNCHANGED <<pic, kbc, pit_ticks, keyboardVars, queueVars>>

pit_handle_interrupt ==
  /\ pit_ticks' = (pit_ticks + 1) % Modulus
  /\ UNCHANGED <<kbc, keyboardVars, queueVars>>

(* Mutation: the scancode stays in the controller while the queue is full. *)
ReadOnlyIfRoom ==
  /\ IF IQ!Pending < Capacity
     THEN /\ kbc' = [kbc EXCEPT !.full = FALSE]
          /\ KB!keyboard_handle_interrupt(kbc.byte)
          /\ IF KB!OutAscii(kbc.byte) # KB!NoCharacter
             THEN IQ!input_enqueue_character(KB!OutAscii(kbc.byte))
             ELSE UNCHANGED queueVars
     ELSE UNCHANGED <<kbc, keyboardVars, queueVars>>
  /\ UNCHANGED pit_ticks

(* Reading port 0x60 empties the output buffer; the byte is whatever it    *)
(* holds.                                                                  *)
input_handle_keyboard_interrupt ==
  /\ kbc' = [kbc EXCEPT !.full = FALSE]
  /\ KB!keyboard_handle_interrupt(kbc.byte)
  /\ IF KB!OutAscii(kbc.byte) # KB!NoCharacter
     THEN IQ!input_enqueue_character(KB!OutAscii(kbc.byte))
     ELSE UNCHANGED queueVars
  /\ UNCHANGED pit_ticks

HandlerDispatch ==
  /\ Handler("dispatch", "eoi")
  /\ INT!interrupts_dispatch_irq(Frame.irq)
  /\ CASE irq_handlers[Frame.irq] = "pit_handle_interrupt" ->
            pit_handle_interrupt
       [] irq_handlers[Frame.irq] = "input_handle_keyboard_interrupt" ->
            input_handle_keyboard_interrupt
       [] OTHER -> UNCHANGED <<kbc, pit_ticks, keyboardVars, queueVars>>
  /\ UNCHANGED <<step, interrupt_flag, pic>>

HandlerEoi ==
  /\ Handler("eoi", "exit")
  /\ pic' = pic_send_eoi(pic, Frame.irq)
  /\ UNCHANGED <<step, interrupt_flag, kbc, pit_ticks, registryVars,
                 keyboardVars, queueVars>>

(* irq_handler's last call, then IRET to where the flag was set.           *)
HandlerExit ==
  /\ irq_frames # <<>>
  /\ step # "panic"
  /\ Frame.at = "exit"
  /\ IF INT!CanExit
     THEN /\ INT!interrupts_context_exit
          /\ irq_frames' = Tail(irq_frames)
          /\ interrupt_flag' = TRUE
          /\ UNCHANGED step
     ELSE kernel_panic /\ UNCHANGED <<irq_frames, registryVars>>
  /\ UNCHANGED <<halted, idt_loaded, deviceVars, pit_ticks,
                 keyboardVars, inputVars>>

Handling == HandlerEnter \/ HandlerDispatch \/ HandlerEoi \/ HandlerExit

-----------------------------------------------------------------------------
(* kernel_main disabled interrupts at once; the BIOS has left the          *)
(* controllers at their real-mode vectors with some lines masked.          *)
Init ==
  /\ step = "interrupts_initialize"
  /\ interrupt_flag = FALSE
  /\ halted = FALSE
  /\ irq_frames = <<>>
  /\ idt_loaded = FALSE
  /\ pic \in {[offset |-> 8, imr |-> masked, irr |-> {}, isr |-> {}] :
                masked \in SUBSET {0, 1, 7}}
  /\ kbc = [full |-> FALSE, byte |-> 0]
  /\ stranded = FALSE
  /\ pit_ticks = 0
  /\ irq_handlers = [irq \in INT!Irqs |-> INT!NULL]
  /\ irq_dispatch_counts = [irq \in INT!Irqs |-> 0]
  /\ unhandled_irq_count = 0
  /\ invalid_irq_count = 0
  /\ interrupt_context_depth = 0
  /\ KB!KbInit
  /\ IQ!QueueInit

Next ==
  \/ Boot
  \/ Work
  \/ PitFires
  \/ \E byte \in Bytes : KeyArrives(byte)
  \/ \E irq \in Lines : TakeInterrupt(irq)
  \/ TakeSpurious
  \/ Handling

Spec == Init /\ [][Next]_vars

(* The CPU keeps executing: handlers run to completion, and an interrupt   *)
(* or a foreground instruction that is possible again and again is not     *)
(* pre-empted at the same point for ever.                                  *)
Fairness ==
  /\ WF_vars(Handling)
  /\ SF_vars(Boot \/ Work)
  /\ \A irq \in {0, 1} : SF_vars(TakeInterrupt(irq))

FairSpec == Spec /\ Fairness

-----------------------------------------------------------------------------
(* Properties.                                                             *)

Lives == step # "panic"

TypeOK ==
  /\ step \in {"interrupts_initialize", "input_initialize", "idt_initialize",
               "pic_remap", "pic_mask_all", "register_0", "register_1",
               "pit_initialize", "unmask_0", "unmask_1", "enable", "work",
               "disable", "read", "deliver", "shell", "idle", "panic"}
  /\ {interrupt_flag, halted, idt_loaded, stranded} \subseteq BOOLEAN
  /\ \A i \in DOMAIN irq_frames :
       irq_frames[i] \in [irq : Lines, spurious : BOOLEAN,
                          at : {"enter", "dispatch", "eoi", "exit"}]
  /\ pic \in [offset : {8, PIC_MASTER_OFFSET}, imr : SUBSET Lines,
              irr : SUBSET {0, 1}, isr : SUBSET Lines]
  /\ pit_ticks \in 0 .. Modulus - 1
  /\ interrupt_context_depth \in 0 .. Modulus - 1
  /\ IQ!TypeOK

(* No order of boot steps, edges, spurious interrupts and handler steps    *)
(* reaches a kernel_panic of this code, nor an exception gate or a missing *)
(* one: every early return and panic branch is unreachable.                *)
NeverPanics == Lives

(* Handlers do not nest, and the context depth the foreground tests counts *)
(* exactly the handlers between context_enter and context_exit.            *)
DepthCountsHandlers ==
  Lives => /\ Len(irq_frames) <= 1
           /\ interrupt_context_depth =
                Cardinality({i \in DOMAIN irq_frames :
                               irq_frames[i].at # "enter"})

(* A line is in service exactly from its acknowledgement to its handler's  *)
(* EOI.  The EOI is non-specific and is sent for spurious interrupts too,  *)
(* so this says it never ends another line and never leaves one blocked.   *)
InServiceIsHandled ==
  Lives =>
    pic.isr = {irq_frames[i].irq :
                 i \in {j \in DOMAIN irq_frames :
                          /\ ~irq_frames[j].spurious
                          /\ irq_frames[j].at # "exit"}}

(* work.c: "prevents the lost-wakeup race".  The CPU is never left in HLT  *)
(* with a character queued.                                                *)
NoLostWakeup == Lives /\ halted => IQ!Pending = 0

(* work.c: "Prevent the IRQ producer from changing queue state while       *)
(* foreground code checks for pending input": from the first access of the *)
(* read to the decision it leads to, neither head nor contents change.     *)
QueueStableWhileRead ==
  [][step = "read" /\ step' = "read" =>
       UNCHANGED <<input_queue, input_queue_head>>]_vars

(* While a scancode waits in the controller, an IRQ1 is latched or its     *)
(* handler has not reached the port yet.  Otherwise no further edge could  *)
(* come, and the keyboard would be dead.  The exception is an edge latched *)
(* before pic_remap, which resets the latch.                               *)
KeyboardNeverStalls ==
  Lives /\ kbc.full /\ ~stranded =>
    \/ 1 \in pic.irr
    \/ \E i \in DOMAIN irq_frames :
         /\ irq_frames[i].irq = 1
         /\ irq_frames[i].at \in {"enter", "dispatch"}

(* The diagnostics the "irq" and "ticks" commands print agree between      *)
(* interrupts until one saturates: every PIT dispatch is a tick, and the   *)
(* only unhandled interrupts are the spurious ones on line 7.              *)
DiagnosticsAgree ==
  Lives /\ irq_frames = <<>> =>
    /\ irq_dispatch_counts[0] < Modulus - 1 =>
         pit_ticks = irq_dispatch_counts[0]
    /\ unhandled_irq_count = irq_dispatch_counts[7]
    /\ invalid_irq_count = 0

(* interrupts.c: "bounded diagnostics".  Once the registry is initialised  *)
(* no counter ever goes back, at its limit included.                       *)
DiagnosticsNeverFall ==
  [][/\ \A irq \in INT!Irqs :
          irq_dispatch_counts'[irq] >= irq_dispatch_counts[irq]
     /\ unhandled_irq_count' >= unhandled_irq_count
     /\ input_dropped_character_count' >= input_dropped_character_count]_vars

(* In the whole kernel the characters pass from IRQ1 to the shell as       *)
(* through a bounded FIFO.                                                 *)
QueueIsFifo == IQ!RefinesBoundedFifo

(* Every scancode that reaches the controller is read, unless its edge was *)
(* latched before pic_remap and thrown away by it.                         *)
KeysAreRead == kbc.full ~> (~kbc.full \/ stranded)

(* The boot ends in the work loop, and from then on whatever is queued is  *)
(* handed to the shell: the queue's oldest character does not stay there.  *)
QueueIsServed ==
  /\ <>(step = "work")
  /\ (IQ!Pending > 0) ~> (step = "shell")
=============================================================================
