-------------------------- MODULE KernelLoopProofs --------------------------
(***************************************************************************)
(* Theorems about KernelLoop, for every set of scancodes, every queue      *)
(* capacity and every width of the counters.  InputQueueProofs is used     *)
(* through IQP, an instance on the same variables as KernelLoop's IQ.      *)
(***************************************************************************)
EXTENDS KernelLoop, FiniteSetTheorems, TLAPS

IQP == INSTANCE InputQueueProofs WITH
         Chars <- {"normal", "shift"} \X KB!Mapped, NoChar <- KB!NoCharacter

-----------------------------------------------------------------------------
(* The inductive invariant.                                                *)

BeforeIdt == {"interrupts_initialize", "input_initialize", "idt_initialize"}
BeforeRemap == BeforeIdt \cup {"pic_remap"}
BeforePit == BeforeRemap \cup {"pic_mask_all", "register_0"}
BeforeKeyboard == BeforePit \cup {"register_1"}
BootSteps == BeforeKeyboard \cup {"pit_initialize", "unmask_0", "unmask_1",
                                  "enable"}
(* The foreground steps at which interrupts are on, and the others of the  *)
(* work loop.                                                              *)
OpenSteps == {"work", "disable", "shell"}
ClosedSteps == {"read", "deliver", "idle"}

Counters == 0 .. Modulus - 1
Handlers == {"NULL", "pit_handle_interrupt", "input_handle_keyboard_interrupt"}
Frames == [irq : {0, 1, 7}, spurious : BOOLEAN,
           at : {"enter", "dispatch", "eoi", "exit"}]

Types ==
  /\ step \in BootSteps \cup OpenSteps \cup ClosedSteps
  /\ interrupt_flag \in BOOLEAN /\ halted \in BOOLEAN
  /\ idt_loaded \in BOOLEAN /\ stranded \in BOOLEAN
  /\ pic \in [offset : {8, PIC_MASTER_OFFSET}, imr : SUBSET Lines,
              irr : SUBSET {0, 1}, isr : SUBSET Lines]
  /\ kbc \in [full : BOOLEAN, byte : 0 .. 255]
  /\ pit_ticks \in Counters
  /\ irq_handlers \in [Lines -> Handlers]
  /\ irq_dispatch_counts \in [Lines -> Counters]
  /\ unhandled_irq_count \in Counters

(* At most one handler is active; the spurious ones are those of line 7.   *)
OneFrame ==
  \/ irq_frames = <<>>
  \/ \E f \in Frames : irq_frames = <<f>> /\ (f.spurious <=> f.irq = 7)

(* The flag is set where the foreground may be interrupted, and clear in a *)
(* handler, which returns to such a place.                                 *)
FlagFollowsStep ==
  /\ irq_frames = <<>> => (interrupt_flag <=> step \in OpenSteps)
  /\ irq_frames # <<>> => ~interrupt_flag /\ ~halted /\ step \in OpenSteps
  /\ halted => step = "work"

(* What each boot step leaves to the ones after it.                        *)
BootProgress ==
  /\ idt_loaded <=> step \notin BeforeIdt
  /\ step \notin BeforeRemap => pic.offset = PIC_MASTER_OFFSET
  /\ irq_handlers[0] = IF step \in BeforePit THEN "NULL"
                       ELSE "pit_handle_interrupt"
  /\ irq_handlers[1] = IF step \in BeforeKeyboard THEN "NULL"
                       ELSE "input_handle_keyboard_interrupt"
  /\ irq_handlers[7] = "NULL"
  /\ step \in BootSteps =>
       /\ irq_dispatch_counts = [irq \in Lines |-> 0]
       /\ unhandled_irq_count = 0
       /\ input_queue_head = 0 /\ input_queue_tail = 0
       /\ input_dropped_character_count = 0

(* The three properties that speak of the active handler.                  *)
HandlerState ==
  /\ interrupt_context_depth =
       IF irq_frames # <<>> /\ irq_frames[1].at # "enter" THEN 1 ELSE 0
  /\ pic.isr = IF /\ irq_frames # <<>>
                  /\ ~irq_frames[1].spurious /\ irq_frames[1].at # "exit"
               THEN {irq_frames[1].irq} ELSE {}
  /\ kbc.full /\ ~stranded =>
       \/ 1 \in pic.irr
       \/ /\ irq_frames # <<>> /\ irq_frames[1].irq = 1
          /\ irq_frames[1].at \in {"enter", "dispatch"}

(* The decision to halt stays right until the CPU has halted.              *)
NothingQueued == halted \/ step = "idle" => IQ!Pending = 0

CountersAgree ==
  /\ irq_dispatch_counts[0] < Modulus - 1 =>
       pit_ticks = irq_dispatch_counts[0]
  /\ unhandled_irq_count = irq_dispatch_counts[7]
  /\ invalid_irq_count = 0

LoopInv ==
  /\ Types /\ OneFrame /\ FlagFollowsStep /\ BootProgress /\ HandlerState
  /\ NothingQueued /\ CountersAgree

IInv == LoopInv /\ IQP!IInv

(* The queue's constants, one by one.                                      *)
LEMMA QueueConstants ==
  /\ Capacity \in Nat \ {0}
  /\ Modulus \in Nat
  /\ Capacity < Modulus
  /\ Modulus % Capacity = 0
  /\ KB!NoCharacter \notin {"normal", "shift"} \X KB!Mapped
BY KernelLoopConstants DEF KB!NoCharacter, KB!Mapped

(* Counting modulo the counter's range gives a counter.                    *)
LEMMA ModulusType == Modulus \in Nat /\ Modulus >= 2
BY KernelLoopConstants

(* The two instances of InputQueue define the same.                        *)
LEMMA SameQueue ==
  /\ IQP!Pending = IQ!Pending
  /\ IQP!TypeOK <=> IQ!TypeOK
  /\ IQP!QueueInit <=> IQ!QueueInit
  /\ IQP!ReadTail <=> IQ!ReadTail
  /\ IQP!ReadHead <=> IQ!ReadHead
  /\ IQP!ReadSlot <=> IQ!ReadSlot
  /\ IQP!WriteTail <=> IQ!WriteTail
  /\ \A ascii : IQP!input_enqueue_character(ascii)
                  <=> IQ!input_enqueue_character(ascii)
<1>. USE DEF IQP!Pending, IQ!Pending, IQP!Distance, IQ!Distance,
            IQP!UINT32_MAX, IQ!UINT32_MAX, IQP!Index, IQ!Index,
            IQP!Advance, IQ!Advance, IQP!Idle, IQ!Idle, IQP!Reply, IQ!Reply,
            IQP!queueVars, IQ!queueVars
<1>1. IQP!Pending = IQ!Pending
  OBVIOUS
<1>2. IQP!TypeOK <=> IQ!TypeOK
  BY DEF IQP!TypeOK, IQ!TypeOK
<1>3. IQP!QueueInit <=> IQ!QueueInit
  BY DEF IQP!QueueInit, IQ!QueueInit
<1>4. (IQP!ReadTail <=> IQ!ReadTail) /\ (IQP!ReadHead <=> IQ!ReadHead)
  BY DEF IQP!ReadTail, IQ!ReadTail, IQP!ReadHead, IQ!ReadHead
<1>5. (IQP!ReadSlot <=> IQ!ReadSlot) /\ (IQP!WriteTail <=> IQ!WriteTail)
  BY DEF IQP!ReadSlot, IQ!ReadSlot, IQP!WriteTail, IQ!WriteTail
<1>6. \A ascii : IQP!input_enqueue_character(ascii)
                   <=> IQ!input_enqueue_character(ascii)
  BY DEF IQP!input_enqueue_character, IQ!input_enqueue_character
<1>. QED BY <1>1, <1>2, <1>3, <1>4, <1>5, <1>6

(* The machine before boot satisfies the invariant.                        *)
LEMMA InitEstablishesIInv == Init => IInv
<1>. SUFFICES ASSUME Init PROVE IInv
  OBVIOUS
<1>1. IQP!IInv
  BY QueueConstants, SameQueue, IQP!InitEstablishesIInv DEF Init
<1>2. /\ input_queue_head = 0 /\ input_queue_tail = 0
      /\ input_dropped_character_count = 0
  BY DEF Init, IQ!QueueInit
<1>3. Types
  <2>1. PICK masked \in SUBSET {0, 1, 7} :
          pic = [offset |-> 8, imr |-> masked, irr |-> {}, isr |-> {}]
    BY DEF Init
  <2>2. masked \in SUBSET Lines
    BY DEF Lines
  <2>3. pic \in [offset : {8, PIC_MASTER_OFFSET}, imr : SUBSET Lines,
                 irr : SUBSET {0, 1}, isr : SUBSET Lines]
    BY <2>1, <2>2
  <2>4. /\ step \in BootSteps
        /\ kbc \in [full : BOOLEAN, byte : 0 .. 255]
        /\ pit_ticks \in Counters /\ unhandled_irq_count \in Counters
    BY ModulusType DEF Init, BootSteps, BeforeKeyboard, BeforePit,
       BeforeRemap, BeforeIdt, Counters
  <2>5. /\ irq_handlers \in [Lines -> Handlers]
        /\ irq_dispatch_counts \in [Lines -> Counters]
    BY ModulusType DEF Init, Lines, Handlers, Counters, INT!Irqs, INT!NULL
  <2>. QED BY <2>3, <2>4, <2>5 DEF Init, Types
<1>4. BootProgress /\ CountersAgree
  BY <1>2, ModulusType
     DEF Init, BootProgress, CountersAgree, BootSteps, BeforeKeyboard,
         BeforePit, BeforeRemap, BeforeIdt, Lines, INT!Irqs, INT!NULL
<1>5. OneFrame /\ FlagFollowsStep /\ HandlerState /\ NothingQueued
  BY DEF Init, OneFrame, FlagFollowsStep, HandlerState, NothingQueued,
         OpenSteps
<1>. QED BY <1>1, <1>3, <1>4, <1>5 DEF IInv, LoopInv

-----------------------------------------------------------------------------
(* The boot.                                                               *)

USE DEF BeforeIdt, BeforeRemap, BeforePit, BeforeKeyboard, BootSteps,
        OpenSteps, ClosedSteps

(* A boot step that moves on with interrupts off keeps what is said of the *)
(* CPU and the handlers, if it leaves the depth and the lines alone.       *)
LEMMA BootStepKeeps ==
  ASSUME LoopInv, NEW at \in BootSteps, Foreground(at),
         step' \in BootSteps, UNCHANGED <<interrupt_flag, halted>>,
         interrupt_context_depth' = 0, pic'.isr = {},
         kbc.full /\ ~stranded' => 1 \in pic'.irr
  PROVE  OneFrame' /\ FlagFollowsStep' /\ HandlerState' /\ NothingQueued'
<1>1. /\ UNCHANGED <<irq_frames, kbc>> /\ irq_frames = <<>>
      /\ ~halted /\ step \in BootSteps
  BY DEF Foreground
<1>2. ~interrupt_flag
  BY <1>1 DEF LoopInv, FlagFollowsStep
<1>3. OneFrame' /\ FlagFollowsStep' /\ NothingQueued'
  BY <1>1, <1>2 DEF OneFrame, FlagFollowsStep, NothingQueued
<1>4. HandlerState'
  BY <1>1 DEF HandlerState
<1>. QED BY <1>3, <1>4

(* What a boot step finds: no handler, and the flag clear.                 *)
LEMMA BootStepFinds ==
  ASSUME LoopInv, NEW at \in BootSteps, Foreground(at)
  PROVE  /\ step = at /\ ~interrupt_flag /\ ~halted
         /\ interrupt_context_depth = 0 /\ pic.isr = {}
         /\ kbc.full /\ ~stranded => 1 \in pic.irr
         /\ UNCHANGED <<irq_frames, kbc, keyboardVars>>
BY DEF LoopInv, FlagFollowsStep, HandlerState, Foreground

(* Resetting the interrupt registry keeps the invariant.                   *)
LEMMA BootServicesKeepsLoopInv == ASSUME LoopInv, BootServices PROVE LoopInv'
<1>. USE DEF BootServices, Foreground, LoopInv, inputVars, queueVars,
            INT!interrupts_initialize, INT!Irqs, INT!NULL, Lines
<1>1. Types'
  <2>1. /\ irq_handlers' \in [Lines -> Handlers]
        /\ irq_dispatch_counts' \in [Lines -> Counters]
        /\ unhandled_irq_count' \in Counters
    BY ModulusType DEF Handlers, Counters
  <2>. QED BY <2>1 DEF Types
<1>2. BootProgress' /\ CountersAgree'
  BY ModulusType DEF BootProgress, CountersAgree, Types
<1>3. OneFrame' /\ FlagFollowsStep' /\ HandlerState' /\ NothingQueued'
  BY BootStepKeeps, BootStepFinds
<1>. QED BY <1>1, <1>2, <1>3

(* Emptying the input queue keeps the invariant.                           *)
LEMMA BootInputKeepsLoopInv == ASSUME LoopInv, BootInput PROVE LoopInv'
<1>. USE DEF BootInput, Foreground, LoopInv, registryVars,
            IQ!input_initialize
<1>1. Types' /\ BootProgress' /\ CountersAgree'
  BY DEF Types, BootProgress, CountersAgree
<1>2. OneFrame' /\ FlagFollowsStep' /\ HandlerState' /\ NothingQueued'
  BY BootStepKeeps, BootStepFinds
<1>. QED BY <1>1, <1>2

(* Loading the IDT keeps it.                                               *)
LEMMA IdtKeepsLoopInv == ASSUME LoopInv, idt_initialize PROVE LoopInv'
<1>. USE DEF idt_initialize, Foreground, LoopInv, registryVars, inputVars,
            queueVars
<1>1. Types' /\ BootProgress' /\ CountersAgree'
  BY DEF Types, BootProgress, CountersAgree
<1>2. OneFrame' /\ FlagFollowsStep' /\ HandlerState' /\ NothingQueued'
  BY BootStepKeeps, BootStepFinds
<1>. QED BY <1>1, <1>2

(* The controllers: remapping resets the latches, and remembers a key's    *)
(* edge as stranded; the other sequences only change the masks.            *)
LEMMA BootPicKeepsLoopInv ==
  ASSUME LoopInv, NEW at \in BootSteps, NEW next \in BootSteps, NEW p,
         BootPic(at, next, p),
         p \in [offset : {8, PIC_MASTER_OFFSET}, imr : SUBSET Lines,
                irr : SUBSET {0, 1}, isr : SUBSET Lines],
         p.isr = {}, at \notin BeforeIdt, next \notin BeforeRemap,
         at \in BeforePit <=> next \in BeforePit,
         at \in BeforeKeyboard <=> next \in BeforeKeyboard,
         p.offset = PIC_MASTER_OFFSET
  PROVE  LoopInv'
<1>. USE DEF BootPic, Foreground, LoopInv, registryVars, inputVars, queueVars
<1>1. Types' /\ BootProgress' /\ CountersAgree'
  BY DEF Types, BootProgress, CountersAgree
<1>2. OneFrame' /\ FlagFollowsStep' /\ HandlerState' /\ NothingQueued'
  BY BootStepKeeps, BootStepFinds DEF Types
<1>. QED BY <1>1, <1>2

(* Registering the timer's handler keeps it.                               *)
LEMMA RegisterPitKeepsLoopInv ==
  ASSUME LoopInv,
         BootRegister("register_0", "register_1", 0, "pit_handle_interrupt")
  PROVE  LoopInv'
<1>. USE DEF BootRegister, Foreground, LoopInv, inputVars, queueVars
<1>1. INT!CanRegister(0, "pit_handle_interrupt")
  BY DEF INT!CanRegister, INT!Irqs, INT!NULL, BootProgress
<1>2. /\ irq_handlers' = [irq_handlers EXCEPT ![0] = "pit_handle_interrupt"]
      /\ step' = "register_1" /\ UNCHANGED interrupt_flag
      /\ UNCHANGED <<irq_dispatch_counts, unhandled_irq_count,
                     invalid_irq_count, interrupt_context_depth>>
  BY <1>1 DEF Require, INT!interrupts_register_irq, INT!counters
<1>3. Types' /\ BootProgress' /\ CountersAgree'
  BY <1>2 DEF Types, BootProgress, CountersAgree, Handlers, Lines
<1>4. OneFrame' /\ FlagFollowsStep' /\ HandlerState' /\ NothingQueued'
  BY <1>2, BootStepKeeps, BootStepFinds
<1>. QED BY <1>3, <1>4

(* Registering the keyboard's handler keeps it.                            *)
LEMMA RegisterKeyboardKeepsLoopInv ==
  ASSUME LoopInv,
         BootRegister("register_1", "pit_initialize", 1,
                      "input_handle_keyboard_interrupt")
  PROVE  LoopInv'
<1>. USE DEF BootRegister, Foreground, LoopInv, inputVars, queueVars
<1>1. INT!CanRegister(1, "input_handle_keyboard_interrupt")
  BY DEF INT!CanRegister, INT!Irqs, INT!NULL, BootProgress
<1>2. /\ irq_handlers' =
           [irq_handlers EXCEPT ![1] = "input_handle_keyboard_interrupt"]
      /\ step' = "pit_initialize" /\ UNCHANGED interrupt_flag
      /\ UNCHANGED <<irq_dispatch_counts, unhandled_irq_count,
                     invalid_irq_count, interrupt_context_depth>>
  BY <1>1 DEF Require, INT!interrupts_register_irq, INT!counters
<1>3. Types' /\ BootProgress' /\ CountersAgree'
  BY <1>2 DEF Types, BootProgress, CountersAgree, Handlers, Lines
<1>4. OneFrame' /\ FlagFollowsStep' /\ HandlerState' /\ NothingQueued'
  BY <1>2, BootStepKeeps, BootStepFinds
<1>. QED BY <1>3, <1>4

(* 100 Hz is a frequency the timer accepts.                                *)
LEMMA HundredHertz == PitAccepts(100)
<1>1. PIT_MIN_FREQUENCY_HZ = 19
  BY SMT DEF PIT_MIN_FREQUENCY_HZ, PIT_BASE_FREQUENCY, PIT_MAX_DIVISOR
<1>2. PIT_BASE_FREQUENCY \div 100 = 11931
  BY SMT DEF PIT_BASE_FREQUENCY
<1>3. /\ PIT_BASE_FREQUENCY \in Int /\ PIT_BASE_FREQUENCY > 100
      /\ PIT_MAX_DIVISOR \in Int /\ PIT_MAX_DIVISOR > 11931
  BY SMT DEF PIT_BASE_FREQUENCY, PIT_MAX_DIVISOR
<1>. QED BY <1>1, <1>2, <1>3, SMT DEF PitAccepts

(* Programming the timer keeps it.                                         *)
LEMMA PitKeepsLoopInv == ASSUME LoopInv, pit_initialize(100) PROVE LoopInv'
<1>. USE DEF pit_initialize, Foreground, LoopInv, registryVars, inputVars,
            queueVars
<1>2. pit_ticks' = 0 /\ step' = "unmask_0" /\ UNCHANGED interrupt_flag
  BY HundredHertz DEF Require
<1>3. Types' /\ BootProgress'
  BY <1>2, ModulusType DEF Types, BootProgress, Counters
<1>4. CountersAgree'
  BY <1>2 DEF CountersAgree, BootProgress, Lines
<1>5. OneFrame' /\ FlagFollowsStep' /\ HandlerState' /\ NothingQueued'
  BY <1>2, BootStepKeeps, BootStepFinds
<1>. QED BY <1>3, <1>4, <1>5

(* Setting the interrupt flag keeps it.                                    *)
LEMMA EnableKeepsLoopInv ==
  ASSUME LoopInv, cpu_enable_interrupts("enable", "work") PROVE LoopInv'
<1>. USE DEF cpu_enable_interrupts, Foreground, LoopInv, registryVars,
            inputVars, queueVars
<1>1. Types' /\ BootProgress' /\ CountersAgree'
  BY DEF Types, BootProgress, CountersAgree
<1>2. OneFrame' /\ FlagFollowsStep' /\ HandlerState' /\ NothingQueued'
  BY DEF OneFrame, FlagFollowsStep, HandlerState, NothingQueued
<1>. QED BY <1>1, <1>2

(* Every step of the boot keeps it.                                        *)
LEMMA BootKeepsLoopInv == ASSUME LoopInv, Boot PROVE LoopInv'
<1>1. pic \in [offset : {8, PIC_MASTER_OFFSET}, imr : SUBSET Lines,
               irr : SUBSET {0, 1}, isr : SUBSET Lines]
  BY DEF LoopInv, Types
<1>2. CASE BootPic("pic_remap", "pic_mask_all", pic_remap(pic))
  BY <1>1, <1>2, BootPicKeepsLoopInv DEF pic_remap
<1>3. CASE BootPic("pic_mask_all", "register_0", pic_mask_all(pic))
  <2>1. /\ pic_mask_all(pic).offset = PIC_MASTER_OFFSET
        /\ pic_mask_all(pic).isr = {}
        /\ pic_mask_all(pic) \in
             [offset : {8, PIC_MASTER_OFFSET}, imr : SUBSET Lines,
              irr : SUBSET {0, 1}, isr : SUBSET Lines]
    BY <1>1, <1>3, BootStepFinds
       DEF pic_mask_all, BootPic, LoopInv, BootProgress
  <2>. QED BY <1>3, <2>1, BootPicKeepsLoopInv
<1>4. ASSUME NEW irq \in {0, 1}, NEW at \in {"unmask_0", "unmask_1"},
             BootPic(at, IF at = "unmask_0" THEN "unmask_1" ELSE "enable",
                     pic_unmask_irq(pic, irq))
      PROVE  LoopInv'
  <2>1. /\ pic_unmask_irq(pic, irq).offset = PIC_MASTER_OFFSET
        /\ pic_unmask_irq(pic, irq).isr = {}
        /\ pic_unmask_irq(pic, irq) \in
             [offset : {8, PIC_MASTER_OFFSET}, imr : SUBSET Lines,
              irr : SUBSET {0, 1}, isr : SUBSET Lines]
    BY <1>1, <1>4, BootStepFinds
       DEF pic_unmask_irq, BootPic, LoopInv, BootProgress
  <2>. QED BY <1>4, <2>1, BootPicKeepsLoopInv
<1>5. CASE BootPic("unmask_0", "unmask_1", pic_unmask_irq(pic, 0))
  BY <1>4, <1>5
<1>6. CASE BootPic("unmask_1", "enable", pic_unmask_irq(pic, 1))
  BY <1>4, <1>6
<1>. QED BY <1>2, <1>3, <1>5, <1>6, BootServicesKeepsLoopInv,
            BootInputKeepsLoopInv, IdtKeepsLoopInv, RegisterPitKeepsLoopInv,
            RegisterKeyboardKeepsLoopInv, PitKeepsLoopInv, EnableKeepsLoopInv
     DEF Boot

-----------------------------------------------------------------------------
(* The work loop.  In the foreground the context depth is zero, so neither *)
(* test for interrupt context fails.                                       *)

(* The work loop's context check, and the shell's turn, keep it.           *)
LEMMA WorkCheckKeepsLoopInv ==
  ASSUME LoopInv, WorkCheck \/ shell_handle_character PROVE LoopInv'
<1>. USE DEF WorkCheck, shell_handle_character, Foreground, LoopInv,
            registryVars, inputVars, queueVars
<1>1. ~INT!interrupts_is_in_context
  BY DEF HandlerState, INT!interrupts_is_in_context
<1>2. step \in OpenSteps /\ step' \in OpenSteps /\ UNCHANGED interrupt_flag
  BY <1>1 DEF Require
<1>3. Types' /\ BootProgress' /\ CountersAgree'
  BY <1>2 DEF Types, BootProgress, CountersAgree
<1>4. OneFrame' /\ FlagFollowsStep' /\ HandlerState' /\ NothingQueued'
  BY <1>2 DEF OneFrame, FlagFollowsStep, HandlerState, NothingQueued
<1>. QED BY <1>3, <1>4

(* CLI at the start of a pass keeps it.                                    *)
LEMMA DisableKeepsLoopInv ==
  ASSUME LoopInv, cpu_disable_interrupts PROVE LoopInv'
<1>. USE DEF cpu_disable_interrupts, Foreground, LoopInv, registryVars,
            inputVars, queueVars
<1>1. Types' /\ BootProgress' /\ CountersAgree'
  BY DEF Types, BootProgress, CountersAgree
<1>2. OneFrame' /\ FlagFollowsStep' /\ HandlerState' /\ NothingQueued'
  BY DEF OneFrame, FlagFollowsStep, HandlerState, NothingQueued
<1>. QED BY <1>1, <1>2

(* The reader gives up only when its copy of the tail, which is the tail,  *)
(* equals the head.                                                        *)
LEMMA ReadKeepsLoopInv ==
  ASSUME LoopInv, IQP!IInv, input_try_read_character PROVE LoopInv'
<1>. USE DEF input_try_read_character, Foreground, LoopInv, registryVars
<1>1. /\ step = "read" /\ step' \in ClosedSteps
      /\ UNCHANGED <<irq_frames, kbc, interrupt_flag, halted, idt_loaded,
                     pic, stranded, pit_ticks, irq_handlers,
                     irq_dispatch_counts, unhandled_irq_count,
                     invalid_irq_count, interrupt_context_depth>>
      /\ irq_frames = <<>> /\ ~halted
  OBVIOUS
<1>2. step' = "idle" => IQ!Pending' = 0
  <2>. SUFFICES ASSUME step' = "idle" PROVE IQ!Pending' = 0
    OBVIOUS
  <2>1. IQ!ReadHead /\ reader.at = "head" /\ reader.tail = input_queue_head
    <3>1. /\ \E T, C : reader \in [at : {"idle", "head", "slot", "commit", "count"},
                                  tail : T, head : T, ascii : C]
          /\ reader'.at = "idle" /\ answer'.op # "read"
      BY DEF IQP!IInv, IQP!TypeOK
    <3>2. ~IQ!ReadTail
      BY <3>1 DEF IQ!ReadTail
    <3>3. ~IQ!ReadSlot
      BY <3>1 DEF IQ!ReadSlot
    <3>4. ~IQ!WriteTail
      BY <3>1 DEF IQ!WriteTail, IQ!Reply
    <3>5. IQ!ReadHead => reader.at = "head" /\ reader.tail = input_queue_head
      BY <3>1 DEF IQ!ReadHead
    <3>. QED BY <3>2, <3>3, <3>4, <3>5
  <2>2. /\ input_queue_tail = input_queue_head
        /\ input_queue_head \in 0 .. Modulus - 1
        /\ UNCHANGED <<input_queue_head, input_queue_tail>>
    BY <2>1 DEF IQP!IInv, IQP!TypeOK, IQP!ReaderIsNeverStale, IQ!ReadHead,
                IQ!queueVars
  <2>3. IQ!Pending' = 0 % Modulus
    BY <2>2, ModulusType DEF IQ!Pending, IQ!Distance
  <2>. QED BY <2>3, ModulusType
<1>3. Types' /\ BootProgress' /\ CountersAgree'
  BY <1>1 DEF Types, BootProgress, CountersAgree
<1>4. OneFrame' /\ FlagFollowsStep' /\ HandlerState'
  BY <1>1 DEF OneFrame, FlagFollowsStep, HandlerState
<1>5. NothingQueued'
  BY <1>1, <1>2 DEF NothingQueued
<1>. QED BY <1>3, <1>4, <1>5

(* Handing a character to the shell keeps it.                              *)
LEMMA DeliverKeepsLoopInv ==
  ASSUME LoopInv, cpu_enable_interrupts("deliver", "shell") PROVE LoopInv'
<1>. USE DEF cpu_enable_interrupts, Foreground, LoopInv, registryVars,
            inputVars, queueVars
<1>1. Types' /\ BootProgress' /\ CountersAgree'
  BY DEF Types, BootProgress, CountersAgree
<1>2. OneFrame' /\ FlagFollowsStep' /\ HandlerState' /\ NothingQueued'
  BY DEF OneFrame, FlagFollowsStep, HandlerState, NothingQueued
<1>. QED BY <1>1, <1>2

(* STI and HLT keep it: the queue was empty when it was read.              *)
LEMMA HaltKeepsLoopInv ==
  ASSUME LoopInv, cpu_enable_interrupts_and_halt PROVE LoopInv'
<1>. USE DEF cpu_enable_interrupts_and_halt, Foreground, LoopInv,
            registryVars, inputVars, queueVars
<1>1. Types' /\ BootProgress' /\ CountersAgree'
  BY DEF Types, BootProgress, CountersAgree
<1>2. OneFrame' /\ FlagFollowsStep' /\ HandlerState'
  BY DEF OneFrame, FlagFollowsStep, HandlerState
<1>3. NothingQueued'
  BY DEF NothingQueued, IQ!Pending
<1>. QED BY <1>1, <1>2, <1>3

-----------------------------------------------------------------------------
(* The devices and the CPU's response.                                     *)

(* An edge of the timer keeps it.                                          *)
LEMMA PitFiresKeepsLoopInv == ASSUME LoopInv, PitFires PROVE LoopInv'
<1>. USE DEF PitFires, LoopInv, cpuVars, registryVars, inputVars, queueVars,
            Raise
<1>1. Types' /\ BootProgress' /\ CountersAgree'
  BY DEF Types, BootProgress, CountersAgree
<1>2. OneFrame' /\ FlagFollowsStep' /\ HandlerState' /\ NothingQueued'
  BY DEF OneFrame, FlagFollowsStep, HandlerState, NothingQueued, IQ!Pending,
         Types
<1>. QED BY <1>1, <1>2

(* A byte from the keyboard keeps it.                                      *)
LEMMA KeyArrivesKeepsLoopInv ==
  ASSUME LoopInv, NEW byte \in Bytes, KeyArrives(byte) PROVE LoopInv'
<1>. USE DEF KeyArrives, LoopInv, cpuVars, registryVars, inputVars,
            queueVars, Raise
<1>1. Types' /\ BootProgress' /\ CountersAgree'
  BY KernelLoopConstants DEF Types, BootProgress, CountersAgree
<1>2. OneFrame' /\ FlagFollowsStep' /\ HandlerState' /\ NothingQueued'
  BY DEF OneFrame, FlagFollowsStep, HandlerState, NothingQueued, IQ!Pending,
         Types
<1>. QED BY <1>1, <1>2

(* The CPU is interrupted in the foreground only, after the boot, and      *)
(* always finds irq_handler's gate.                                        *)
LEMMA EnterGateEnters ==
  ASSUME LoopInv, NEW irq \in {0, 1, 7}, NEW spurious \in BOOLEAN,
         EnterGate(irq, spurious)
  PROVE  /\ irq_frames = <<>> /\ step \in OpenSteps
         /\ irq_frames' =
              <<[irq |-> irq, spurious |-> spurious, at |-> "enter"]>>
         /\ ~interrupt_flag' /\ ~halted'
         /\ UNCHANGED <<step, idt_loaded, kbc, stranded, pit_ticks,
                        registryVars, keyboardVars, inputVars>>
<1>1. irq_frames = <<>> /\ step \in OpenSteps
  BY DEF LoopInv, FlagFollowsStep, EnterGate
<1>2. Gate(pic.offset + irq) = "irq_handler"
  BY <1>1 DEF LoopInv, BootProgress, Gate, PIC_MASTER_OFFSET
<1>3. <<[irq |-> irq, spurious |-> spurious, at |-> "enter"]>> \o irq_frames
        = <<[irq |-> irq, spurious |-> spurious, at |-> "enter"]>>
  BY <1>1
<1>. QED BY <1>1, <1>2, <1>3 DEF EnterGate, IDT_INTERRUPT_GATE_RING0

(* The processor's entry into a handler keeps it.                          *)
LEMMA TakeKeepsLoopInv ==
  ASSUME LoopInv, NEW irq \in {0, 1, 7}, EnterGate(irq, irq = 7),
         pic' \in [offset : {8, PIC_MASTER_OFFSET}, imr : SUBSET Lines,
                   irr : SUBSET {0, 1}, isr : SUBSET Lines],
         pic'.offset = pic.offset,
         pic'.isr = (IF irq = 7 THEN {} ELSE {irq}),
         1 \in pic.irr => 1 \in pic'.irr \/ irq = 1
  PROVE  LoopInv'
<1>. DEFINE f == [irq |-> irq, spurious |-> (irq = 7), at |-> "enter"]
<1>1. /\ irq_frames = <<>> /\ step \in OpenSteps /\ irq_frames' = <<f>>
      /\ ~interrupt_flag' /\ ~halted'
      /\ UNCHANGED <<step, idt_loaded, kbc, stranded, pit_ticks,
                     registryVars, keyboardVars, inputVars>>
      /\ interrupt_flag' \in BOOLEAN /\ halted' \in BOOLEAN
  BY EnterGateEnters DEF EnterGate, kernel_panic, IDT_INTERRUPT_GATE_RING0
<1>2. /\ f \in Frames /\ f.irq = irq /\ f.spurious = (irq = 7)
      /\ f.at = "enter"
  BY DEF Frames
<1>3. irq_frames'[1] = f /\ irq_frames' # <<>>
  BY <1>1
<1>. HIDE DEF f
<1>4. Types' /\ BootProgress' /\ CountersAgree'
  BY <1>1 DEF LoopInv, Types, BootProgress, CountersAgree, registryVars,
              inputVars, queueVars
<1>5. OneFrame' /\ FlagFollowsStep'
  BY <1>1, <1>2, <1>3 DEF OneFrame, FlagFollowsStep
<1>6. HandlerState' /\ NothingQueued'
  BY <1>1, <1>2, <1>3 DEF LoopInv, HandlerState, NothingQueued, registryVars
<1>. QED BY <1>4, <1>5, <1>6 DEF LoopInv

(* Taking a line the controller offers keeps it.                           *)
LEMMA TakeInterruptKeepsLoopInv ==
  ASSUME LoopInv, NEW irq \in Lines, TakeInterrupt(irq) PROVE LoopInv'
<1>1. irq \in {0, 1} /\ irq \in Lines /\ irq \notin Slave
  BY DEF TakeInterrupt, Offered, LoopInv, Types, Slave
<1>2. /\ pic' = [pic EXCEPT !.irr = @ \ {irq}, !.isr = @ \cup {irq}]
      /\ EnterGate(irq, irq = 7)
  <2>1. (irq = 7) = FALSE
    BY <1>1
  <2>2. EnterGate(irq, irq = 7)
    BY <2>1, Zenon DEF TakeInterrupt
  <2>3. pic' = [pic EXCEPT !.irr = @ \ {irq}, !.isr = @ \cup {irq}]
    BY <1>1 DEF TakeInterrupt, Acknowledge
  <2>. QED BY <2>2, <2>3
<1>3. pic.isr = {}
  BY <1>1, <1>2, EnterGateEnters DEF LoopInv, HandlerState
<1>4. /\ pic' \in [offset : {8, PIC_MASTER_OFFSET}, imr : SUBSET Lines,
                   irr : SUBSET {0, 1}, isr : SUBSET Lines]
      /\ pic'.offset = pic.offset /\ pic'.isr = {irq}
      /\ 1 \in pic.irr => 1 \in pic'.irr \/ irq = 1
  BY <1>1, <1>2, <1>3 DEF LoopInv, Types
<1>. QED BY <1>1, <1>2, <1>4, TakeKeepsLoopInv

(* Taking a spurious IRQ7 keeps it.                                        *)
LEMMA TakeSpuriousKeepsLoopInv ==
  ASSUME LoopInv, TakeSpurious PROVE LoopInv'
<1>1. EnterGate(7, 7 = 7) /\ UNCHANGED pic
  BY DEF TakeSpurious, EnterGate
<1>2. pic.isr = {}
  BY <1>1, EnterGateEnters DEF LoopInv, HandlerState
<1>3. pic \in [offset : {8, PIC_MASTER_OFFSET}, imr : SUBSET Lines,
               irr : SUBSET {0, 1}, isr : SUBSET Lines]
  BY DEF LoopInv, Types
<1>4. /\ 7 \in {0, 1, 7} /\ (7 = 7) \in BOOLEAN
      /\ pic' = pic /\ pic'.isr = {}
  BY <1>1, <1>2
<1>. QED BY <1>1, <1>3, <1>4, TakeKeepsLoopInv

-----------------------------------------------------------------------------
(* irq_handler.                                                            *)

(* The only activation moves on; nothing else of it changes.               *)
LEMMA HandlerMoves ==
  ASSUME LoopInv, NEW at, NEW next \in {"dispatch", "eoi", "exit"},
         Handler(at, next)
  PROVE  \E f, g \in Frames :
           /\ irq_frames = <<f>> /\ Frame = f /\ f.at = at
           /\ (f.spurious <=> f.irq = 7)
           /\ irq_frames' = <<g>> /\ g.at = next
           /\ g.irq = f.irq /\ g.spurious = f.spurious
           /\ ~interrupt_flag /\ ~halted /\ step \in OpenSteps
           /\ UNCHANGED <<halted, idt_loaded, stranded, reader, answer>>
<1>1. PICK f \in Frames : irq_frames = <<f>> /\ (f.spurious <=> f.irq = 7)
  BY DEF Handler, LoopInv, OneFrame
<1>. DEFINE g == [f EXCEPT !.at = next]
<1>2. /\ g \in Frames /\ g.at = next
      /\ g.irq = f.irq /\ g.spurious = f.spurious
  BY DEF Frames
<1>3. Frame = f /\ f.at = at
  BY <1>1 DEF Handler, Frame
<1>4. irq_frames' = <<g>>
  BY <1>1 DEF Handler
<1>5. ~interrupt_flag /\ ~halted /\ step \in OpenSteps
  BY <1>1 DEF LoopInv, FlagFollowsStep
<1>. HIDE DEF g
<1>. QED BY <1>1, <1>2, <1>3, <1>4, <1>5 DEF Handler

(* What a handler's step leaves as it was.                                 *)
LEMMA HandlerStepKeeps ==
  ASSUME LoopInv, NEW f \in Frames, NEW g \in Frames,
         irq_frames = <<f>>, irq_frames' = <<g>>,
         (f.spurious <=> f.irq = 7),
         g.irq = f.irq, g.spurious = f.spurious,
         UNCHANGED <<step, interrupt_flag, halted>>
  PROVE  /\ OneFrame' /\ FlagFollowsStep' /\ NothingQueued'
         /\ irq_frames[1] = f /\ irq_frames'[1] = g
         /\ irq_frames # <<>> /\ irq_frames' # <<>>
<1>1. OneFrame'
  BY DEF OneFrame
<1>2. irq_frames # <<>> /\ irq_frames' # <<>>
  OBVIOUS
<1>3. FlagFollowsStep' /\ NothingQueued'
  BY <1>2 DEF LoopInv, FlagFollowsStep, NothingQueued
<1>. QED BY <1>1, <1>2, <1>3

(* The handler's entry into interrupt context keeps it.                    *)
LEMMA HandlerEnterKeepsLoopInv ==
  ASSUME LoopInv, HandlerEnter PROVE LoopInv'
<1>. USE DEF LoopInv, registryVars, queueVars
<1>1. Handler("enter", "dispatch")
  BY DEF HandlerEnter
<1>2. PICK f, g \in Frames :
        /\ irq_frames = <<f>> /\ Frame = f /\ f.at = "enter"
        /\ (f.spurious <=> f.irq = 7)
        /\ irq_frames' = <<g>> /\ g.at = "dispatch"
        /\ g.irq = f.irq /\ g.spurious = f.spurious
        /\ ~interrupt_flag /\ ~halted /\ step \in OpenSteps
        /\ UNCHANGED <<halted, idt_loaded, stranded, reader, answer>>
  BY <1>1, HandlerMoves
<1>3. irq_frames[1] = f /\ interrupt_context_depth = 0
  BY <1>2 DEF HandlerState
<1>4. /\ interrupt_context_depth' = 1
      /\ UNCHANGED <<step, interrupt_flag, pic, kbc, pit_ticks, irq_handlers,
                     irq_dispatch_counts, unhandled_irq_count,
                     invalid_irq_count, input_queue_head, input_queue_tail,
                     input_dropped_character_count>>
  BY <1>3, ModulusType
     DEF HandlerEnter, INT!CanEnter, INT!interrupts_context_enter,
         INT!counters
<1>5. Types' /\ BootProgress' /\ CountersAgree'
  BY <1>2, <1>4 DEF Types, BootProgress, CountersAgree
<1>6. /\ OneFrame' /\ FlagFollowsStep' /\ NothingQueued'
      /\ irq_frames[1] = f /\ irq_frames'[1] = g
      /\ irq_frames # <<>> /\ irq_frames' # <<>>
  BY <1>2, <1>4, HandlerStepKeeps
<1>7. HandlerState'
  BY <1>2, <1>4, <1>6 DEF HandlerState
<1>. QED BY <1>5, <1>6, <1>7

(* What the dispatch does for each of the three lines it can be called     *)
(* for.                                                                    *)
LEMMA DispatchCounts ==
  ASSUME LoopInv, NEW irq \in {0, 1, 7}, INT!interrupts_dispatch_irq(irq)
  PROVE  /\ irq_dispatch_counts' \in [Lines -> Counters]
         /\ \A line \in {0, 1, 7} \ {irq} :
              irq_dispatch_counts'[line] = irq_dispatch_counts[line]
         /\ irq_dispatch_counts'[irq] =
              IF irq_dispatch_counts[irq] # Modulus - 1
              THEN irq_dispatch_counts[irq] + 1 ELSE irq_dispatch_counts[irq]
         /\ unhandled_irq_count' \in Counters
         /\ irq_handlers[irq] # "NULL" => UNCHANGED unhandled_irq_count
         /\ irq_handlers[irq] = "NULL" =>
              unhandled_irq_count' =
                IF unhandled_irq_count # Modulus - 1
                THEN unhandled_irq_count + 1 ELSE unhandled_irq_count
         /\ UNCHANGED <<invalid_irq_count, irq_handlers,
                        interrupt_context_depth>>
<1>1. irq \in INT!Irqs /\ irq \in Lines /\ {0, 1, 7} \subseteq Lines
  BY DEF INT!Irqs, Lines
<1>2. /\ irq_dispatch_counts \in [Lines -> Counters]
      /\ unhandled_irq_count \in Counters
  BY DEF LoopInv, Types
<1>3. /\ irq_dispatch_counts' =
           [irq_dispatch_counts EXCEPT
              ![irq] = INT!interrupts_increment_saturating(@)]
      /\ unhandled_irq_count' =
           IF irq_handlers[irq] = "NULL"
           THEN INT!interrupts_increment_saturating(unhandled_irq_count)
           ELSE unhandled_irq_count
      /\ UNCHANGED <<invalid_irq_count, irq_handlers,
                     interrupt_context_depth>>
  BY <1>1 DEF INT!interrupts_dispatch_irq, INT!NULL
<1>4. \A n \in Counters : /\ INT!interrupts_increment_saturating(n) =
                               IF n # Modulus - 1 THEN n + 1 ELSE n
                          /\ INT!interrupts_increment_saturating(n)
                               \in Counters
  BY ModulusType DEF INT!interrupts_increment_saturating, Counters
<1>. QED BY <1>1, <1>2, <1>3, <1>4

(* The timer's handler ticks once per dispatch, the keyboard's empties the *)
(* controller, and line 7 has no handler.                                  *)
LEMMA HandlerDispatchKeepsLoopInv ==
  ASSUME LoopInv, HandlerDispatch PROVE LoopInv'
<1>. USE DEF LoopInv
<1>1. Handler("dispatch", "eoi")
  BY DEF HandlerDispatch
<1>2. PICK f, g \in Frames :
        /\ irq_frames = <<f>> /\ Frame = f /\ f.at = "dispatch"
        /\ (f.spurious <=> f.irq = 7)
        /\ irq_frames' = <<g>> /\ g.at = "eoi"
        /\ g.irq = f.irq /\ g.spurious = f.spurious
        /\ ~interrupt_flag /\ ~halted /\ step \in OpenSteps
        /\ UNCHANGED <<halted, idt_loaded, stranded, reader, answer>>
  BY <1>1, HandlerMoves
<1>3. UNCHANGED <<step, interrupt_flag, pic>>
  BY DEF HandlerDispatch
<1>4. f.irq \in {0, 1, 7} /\ INT!interrupts_dispatch_irq(f.irq)
  BY <1>2 DEF HandlerDispatch, Frames
<1>5. /\ OneFrame' /\ FlagFollowsStep' /\ NothingQueued'
      /\ irq_frames[1] = f /\ irq_frames'[1] = g
      /\ irq_frames # <<>> /\ irq_frames' # <<>>
  BY <1>2, <1>3, HandlerStepKeeps
<1>6. /\ irq_handlers[0] = "pit_handle_interrupt"
      /\ irq_handlers[1] = "input_handle_keyboard_interrupt"
      /\ irq_handlers[7] = "NULL"
      /\ pit_ticks \in Counters
      /\ kbc \in [full : BOOLEAN, byte : 0 .. 255]
  BY <1>2 DEF BootProgress, Types
<1>7. /\ irq_dispatch_counts' \in [Lines -> Counters]
      /\ unhandled_irq_count' \in Counters
      /\ UNCHANGED <<invalid_irq_count, irq_handlers,
                     interrupt_context_depth>>
  BY <1>4, DispatchCounts
<1>8. CASE f.irq = 0
  <2>1. /\ pit_ticks' = IF pit_ticks = Modulus - 1 THEN 0 ELSE pit_ticks + 1
        /\ pit_ticks' \in Counters /\ UNCHANGED kbc
    <3>1. pit_ticks' = (pit_ticks + 1) % Modulus /\ UNCHANGED kbc
      BY <1>2, <1>6, <1>8 DEF HandlerDispatch, pit_handle_interrupt
    <3>. QED BY <1>6, <3>1, QueueConstants, IQP!AdvanceIs
             DEF IQP!Advance, IQP!Positions, Counters
  <2>2. Types' /\ BootProgress'
    BY <1>2, <1>3, <1>7, <2>1 DEF Types, BootProgress
  <2>3. CountersAgree'
    <3>1. /\ irq_dispatch_counts[0] \in Counters
          /\ irq_dispatch_counts'[0] =
               IF irq_dispatch_counts[0] # Modulus - 1
               THEN irq_dispatch_counts[0] + 1 ELSE irq_dispatch_counts[0]
          /\ irq_dispatch_counts'[7] = irq_dispatch_counts[7]
          /\ UNCHANGED <<unhandled_irq_count, invalid_irq_count>>
      BY <1>4, <1>6, <1>8, DispatchCounts DEF Types, Lines
    <3>. QED BY <2>1, <3>1, ModulusType DEF CountersAgree, Counters
  <2>4. HandlerState'
    <3>1. UNCHANGED <<kbc, pic, stranded, interrupt_context_depth>>
      BY <1>2, <1>3, <1>7, <2>1
    <3>2. /\ interrupt_context_depth = 1 /\ pic.isr = {0}
          /\ kbc.full /\ ~stranded => 1 \in pic.irr
      BY <1>2, <1>5, <1>8 DEF HandlerState
    <3>3. ~g.spurious /\ g.at = "eoi" /\ g.irq = 0
      BY <1>2, <1>8 DEF Frames
    <3>. QED BY <1>5, <3>1, <3>2, <3>3 DEF HandlerState
  <2>. QED BY <1>5, <2>2, <2>3, <2>4
<1>9. CASE f.irq = 1
  <2>1. kbc' = [kbc EXCEPT !.full = FALSE] /\ UNCHANGED pit_ticks
    BY <1>2, <1>6, <1>9
       DEF HandlerDispatch, input_handle_keyboard_interrupt
  <2>2. Types' /\ BootProgress'
    BY <1>2, <1>3, <1>6, <1>7, <2>1 DEF Types, BootProgress
  <2>3. CountersAgree'
    <3>1. /\ irq_dispatch_counts'[0] = irq_dispatch_counts[0]
          /\ irq_dispatch_counts'[7] = irq_dispatch_counts[7]
          /\ UNCHANGED <<unhandled_irq_count, invalid_irq_count>>
      BY <1>4, <1>6, <1>9, DispatchCounts
    <3>. QED BY <2>1, <3>1 DEF CountersAgree
  <2>4. HandlerState'
    BY <1>2, <1>3, <1>5, <1>6, <1>7, <1>9, <2>1 DEF HandlerState
  <2>. QED BY <1>5, <2>2, <2>3, <2>4
<1>10. CASE f.irq = 7
  <2>1. UNCHANGED <<kbc, pit_ticks>>
    BY <1>2, <1>6, <1>10 DEF HandlerDispatch
  <2>2. Types' /\ BootProgress'
    BY <1>2, <1>3, <1>6, <1>7, <2>1 DEF Types, BootProgress
  <2>3. CountersAgree'
    <3>1. /\ irq_dispatch_counts'[0] = irq_dispatch_counts[0]
          /\ irq_dispatch_counts'[7] =
               IF irq_dispatch_counts[7] # Modulus - 1
               THEN irq_dispatch_counts[7] + 1 ELSE irq_dispatch_counts[7]
          /\ unhandled_irq_count' =
               IF unhandled_irq_count # Modulus - 1
               THEN unhandled_irq_count + 1 ELSE unhandled_irq_count
          /\ UNCHANGED invalid_irq_count
      BY <1>4, <1>6, <1>10, DispatchCounts
    <3>. QED BY <2>1, <3>1 DEF CountersAgree
  <2>4. HandlerState'
    BY <1>2, <1>3, <1>5, <1>6, <1>7, <1>10, <2>1 DEF HandlerState
  <2>. QED BY <1>5, <2>2, <2>3, <2>4
<1>. QED BY <1>4, <1>8, <1>9, <1>10

(* The handler's own line is the only one in service, so the non-specific  *)
(* EOI ends that one; after a spurious interrupt it ends none.             *)
LEMMA HandlerEoiKeepsLoopInv ==
  ASSUME LoopInv, HandlerEoi PROVE LoopInv'
<1>. USE DEF LoopInv, registryVars, queueVars
<1>1. Handler("eoi", "exit")
  BY DEF HandlerEoi
<1>2. PICK f, g \in Frames :
        /\ irq_frames = <<f>> /\ Frame = f /\ f.at = "eoi"
        /\ (f.spurious <=> f.irq = 7)
        /\ irq_frames' = <<g>> /\ g.at = "exit"
        /\ g.irq = f.irq /\ g.spurious = f.spurious
        /\ ~interrupt_flag /\ ~halted /\ step \in OpenSteps
        /\ UNCHANGED <<halted, idt_loaded, stranded, reader, answer>>
  BY <1>1, HandlerMoves
<1>3. UNCHANGED <<step, interrupt_flag, kbc, pit_ticks, irq_handlers,
                  irq_dispatch_counts, unhandled_irq_count,
                  invalid_irq_count, interrupt_context_depth,
                  input_queue_head, input_queue_tail,
                  input_dropped_character_count>>
  BY DEF HandlerEoi
<1>4. /\ OneFrame' /\ FlagFollowsStep' /\ NothingQueued'
      /\ irq_frames[1] = f /\ irq_frames'[1] = g
      /\ irq_frames # <<>> /\ irq_frames' # <<>>
  BY <1>2, <1>3, HandlerStepKeeps
<1>5. f.irq \in {0, 1, 7} /\ pic.isr \in {{}, {f.irq}}
  BY <1>2, <1>4 DEF HandlerState, Frames
<1>6. pic \in [offset : {8, PIC_MASTER_OFFSET}, imr : SUBSET Lines,
                irr : SUBSET {0, 1}, isr : SUBSET Lines]
  BY DEF Types
<1>7. pic' = [pic EXCEPT !.isr = {}]
  <2>1. pic' = EndOfInterrupt(pic, Master) /\ f.irq \in Master
    BY <1>2, <1>5 DEF HandlerEoi, pic_send_eoi, Slave, Master
  <2>2. CASE pic.isr = {}
    BY <1>6, <2>1, <2>2 DEF EndOfInterrupt
  <2>3. CASE pic.isr = {f.irq}
    <3>1. pic.isr \cap Master = {f.irq} /\ f.irq \in Int
      BY <1>5, <2>1, <2>3
    <3>2. Min({f.irq}) = f.irq
      BY <3>1 DEF Min
    <3>. QED BY <1>6, <2>1, <2>3, <3>1, <3>2 DEF EndOfInterrupt
  <2>. QED BY <1>5, <2>2, <2>3
<1>8. Types' /\ BootProgress' /\ CountersAgree'
  BY <1>2, <1>3, <1>6, <1>7 DEF Types, BootProgress, CountersAgree
<1>9. HandlerState'
  BY <1>2, <1>3, <1>4, <1>6, <1>7 DEF HandlerState
<1>. QED BY <1>4, <1>8, <1>9

(* The handler's exit and IRET keep it.                                    *)
LEMMA HandlerExitKeepsLoopInv ==
  ASSUME LoopInv, HandlerExit PROVE LoopInv'
<1>. USE DEF LoopInv, deviceVars, inputVars, queueVars
<1>1. PICK f \in Frames : irq_frames = <<f>> /\ (f.spurious <=> f.irq = 7)
  BY DEF HandlerExit, OneFrame
<1>2. irq_frames[1] = f /\ irq_frames # <<>> /\ f.at = "exit"
  BY <1>1 DEF HandlerExit, Frame
<1>3. /\ interrupt_context_depth = 1 /\ pic.isr = {} /\ ~halted
      /\ step \in OpenSteps
      /\ kbc.full /\ ~stranded => 1 \in pic.irr
  BY <1>2 DEF HandlerState, FlagFollowsStep
<1>4. /\ irq_frames' = <<>> /\ interrupt_flag' = TRUE
      /\ interrupt_context_depth' = 0
      /\ UNCHANGED <<step, irq_handlers, irq_dispatch_counts,
                     unhandled_irq_count, invalid_irq_count, halted,
                     idt_loaded, pic, kbc, stranded, pit_ticks,
                     input_queue_head, input_queue_tail,
                     input_dropped_character_count>>
  BY <1>1, <1>3
     DEF HandlerExit, INT!CanExit, INT!interrupts_context_exit, INT!counters
<1>5. Types' /\ BootProgress' /\ CountersAgree'
  BY <1>4 DEF Types, BootProgress, CountersAgree
<1>6. OneFrame' /\ FlagFollowsStep' /\ NothingQueued' /\ HandlerState'
  BY <1>3, <1>4 DEF OneFrame, FlagFollowsStep, NothingQueued, HandlerState
<1>. QED BY <1>5, <1>6

-----------------------------------------------------------------------------
(* The queue: every step of the kernel is a step of InputQueue or leaves   *)
(* it alone.                                                               *)

(* What the driver hands to the queue is a character.                      *)
LEMMA OutAsciiType ==
  ASSUME NEW raw, KB!OutAscii(raw) # KB!NoCharacter
  PROVE  KB!OutAscii(raw) \in {"normal", "shift"} \X KB!Mapped
<1>. DEFINE scancode == KB!Scancode(raw)
<1>1. \E table \in {"normal", "shift"} :
        KB!OutAscii(raw) = KB!keyboard_map(table, scancode)
  BY DEF KB!OutAscii, KB!keyboard_translate_scancode
<1>2. scancode \in KB!Mapped
  BY <1>1 DEF KB!keyboard_map
<1>. HIDE DEF scancode
<1>. QED BY <1>1, <1>2 DEF KB!keyboard_map

(* For the queue, the keyboard's handler is an enqueue or nothing.         *)
LEMMA DispatchIsQueueStep ==
  ASSUME HandlerDispatch PROVE [IQP!QueueNext]_(IQP!vars)
<1>1. UNCHANGED <<reader, answer>>
  BY DEF HandlerDispatch, Handler
<1>2. CASE UNCHANGED queueVars
  BY <1>1, <1>2 DEF queueVars, IQP!vars, IQP!queueVars
<1>3. CASE ~UNCHANGED queueVars
  <2>1. input_handle_keyboard_interrupt
    BY <1>3 DEF HandlerDispatch, pit_handle_interrupt
  <2>2. /\ KB!OutAscii(kbc.byte) # KB!NoCharacter
        /\ IQ!input_enqueue_character(KB!OutAscii(kbc.byte))
    BY <1>3, <2>1 DEF input_handle_keyboard_interrupt
  <2>3. IQP!Produce
    BY <1>1, <2>2, OutAsciiType, SameQueue DEF IQP!Produce
  <2>. QED BY <2>3 DEF IQP!QueueNext
<1>. QED BY <1>2, <1>3

(* Every step of the kernel is a step of the queue or leaves it alone.     *)
LEMMA QueueStep ==
  ASSUME LoopInv, [Next]_vars PROVE [IQP!QueueNext]_(IQP!vars)
<1>. USE DEF IQP!vars, IQP!queueVars, inputVars, queueVars
<1>1. CASE UNCHANGED inputVars
  BY <1>1
<1>2. CASE BootInput
  BY <1>2 DEF BootInput, Foreground, IQ!input_initialize, LoopInv,
              BootProgress
<1>3. CASE input_try_read_character
  <2>1. IQP!ReadTail \/ IQP!ReadHead \/ IQP!ReadSlot \/ IQP!WriteTail
    BY <1>3, SameQueue DEF input_try_read_character
  <2>. QED BY <2>1 DEF IQP!QueueNext
<1>4. CASE HandlerDispatch
  BY <1>4, DispatchIsQueueStep
<1>5. CASE Boot /\ ~BootInput
  BY <1>1, <1>5 DEF Boot, BootServices, idt_initialize, BootPic,
                    BootRegister, pit_initialize, cpu_enable_interrupts
<1>6. CASE Work /\ ~input_try_read_character
  BY <1>1, <1>6 DEF Work, WorkCheck, cpu_disable_interrupts,
                    cpu_enable_interrupts, shell_handle_character,
                    cpu_enable_interrupts_and_halt
<1>7. CASE PitFires \/ \E byte \in Bytes : KeyArrives(byte)
  BY <1>1, <1>7 DEF PitFires, KeyArrives
<1>8. CASE TakeSpurious \/ \E irq \in Lines : TakeInterrupt(irq)
  BY <1>1, <1>8 DEF TakeSpurious, TakeInterrupt, EnterGate
<1>9. CASE Handling /\ ~HandlerDispatch
  BY <1>1, <1>9 DEF Handling, HandlerEnter, HandlerEoi, HandlerExit, Handler
<1>10. CASE UNCHANGED vars
  BY <1>1, <1>10 DEF vars
<1>. QED BY <1>2, <1>3, <1>4, <1>5, <1>6, <1>7, <1>8, <1>9, <1>10 DEF Next

(* A step that changes nothing keeps the invariant.                        *)
LEMMA StutterKeepsLoopInv == ASSUME LoopInv, UNCHANGED vars PROVE LoopInv'
<1>. USE DEF LoopInv, vars, cpuVars, deviceVars, registryVars, inputVars,
            queueVars
<1>1. Types' /\ BootProgress' /\ CountersAgree'
  BY DEF Types, BootProgress, CountersAgree
<1>2. OneFrame' /\ FlagFollowsStep' /\ HandlerState' /\ NothingQueued'
  BY DEF OneFrame, FlagFollowsStep, HandlerState, NothingQueued, IQ!Pending
<1>. QED BY <1>1, <1>2

(* Every step keeps the invariant of the loop and that of the queue.       *)
LEMMA NextKeepsIInv == IInv /\ [Next]_vars => IInv'
<1>. SUFFICES ASSUME LoopInv, IQP!IInv, [Next]_vars
              PROVE  LoopInv' /\ IQP!IInv'
  BY DEF IInv
<1>1. IQP!IInv'
  BY QueueStep, QueueConstants, IQP!NextKeepsIInv
<1>2. CASE Boot
  BY <1>1, <1>2, BootKeepsLoopInv
<1>3. CASE Work
  BY <1>1, <1>3, WorkCheckKeepsLoopInv, DisableKeepsLoopInv, ReadKeepsLoopInv,
     DeliverKeepsLoopInv, HaltKeepsLoopInv DEF Work
<1>4. CASE PitFires \/ (\E byte \in Bytes : KeyArrives(byte))
  BY <1>1, <1>4, PitFiresKeepsLoopInv, KeyArrivesKeepsLoopInv
<1>5. CASE TakeSpurious \/ (\E irq \in Lines : TakeInterrupt(irq))
  BY <1>1, <1>5, TakeSpuriousKeepsLoopInv, TakeInterruptKeepsLoopInv
<1>6. CASE Handling
  BY <1>1, <1>6, HandlerEnterKeepsLoopInv, HandlerDispatchKeepsLoopInv,
     HandlerEoiKeepsLoopInv, HandlerExitKeepsLoopInv DEF Handling
<1>7. CASE UNCHANGED vars
  BY <1>1, <1>7, StutterKeepsLoopInv
<1>8. LoopInv'
  BY <1>2, <1>3, <1>4, <1>5, <1>6, <1>7 DEF Next
<1>. QED BY <1>1, <1>8

(* In every state of the kernel: the handler stack, the depth, the flag,   *)
(* the in-service bits and the pending edges belong together, and the      *)
(* reader of the queue is where the work loop is.                          *)
THEOREM KernelLoopInvariant == Spec => []IInv
BY InitEstablishesIInv, NextKeepsIInv, PTL DEF Spec

(* Every variable keeps its type.                                          *)
THEOREM KernelLoopTypeOK == Spec => []TypeOK
<1>1. IInv => TypeOK
  <2>. SUFFICES ASSUME IInv PROVE TypeOK
    OBVIOUS
  <2>1. Types /\ OneFrame /\ HandlerState /\ IQ!TypeOK
    BY SameQueue DEF IInv, LoopInv, IQP!IInv
  <2>2. \A i \in DOMAIN irq_frames :
          irq_frames[i] \in [irq : Lines, spurious : BOOLEAN,
                             at : {"enter", "dispatch", "eoi", "exit"}]
    BY <2>1 DEF OneFrame, Frames, Lines
  <2>3. interrupt_context_depth \in 0 .. Modulus - 1
    BY <2>1, ModulusType DEF HandlerState
  <2>. QED BY <2>1, <2>2, <2>3 DEF Types, TypeOK, Counters
<1>. QED BY <1>1, KernelLoopInvariant, PTL

(* No boot step, work step, gate or handler of this code ever panics.      *)
THEOREM KernelLoopNeverPanics == Spec => []NeverPanics
<1>1. IInv => NeverPanics
  BY DEF IInv, LoopInv, Types, NeverPanics, Lives
<1>. QED BY <1>1, KernelLoopInvariant, PTL

(* interrupt_context_depth is the number of handlers past context_enter,   *)
(* and there is never more than one handler.                               *)
THEOREM KernelLoopDepthCountsHandlers == Spec => []DepthCountsHandlers
<1>1. IInv => DepthCountsHandlers
  <2>. SUFFICES ASSUME IInv PROVE DepthCountsHandlers
    OBVIOUS
  <2>. DEFINE S == {i \in DOMAIN irq_frames : irq_frames[i].at # "enter"}
  <2>1. OneFrame /\ HandlerState
    BY DEF IInv, LoopInv
  <2>2. CASE irq_frames = <<>>
    <3>1. S = {} /\ Len(irq_frames) = 0 /\ interrupt_context_depth = 0
      BY <2>1, <2>2 DEF HandlerState
    <3>. QED BY <3>1, FS_EmptySet DEF DepthCountsHandlers
  <2>3. CASE irq_frames # <<>>
    <3>1. PICK f \in Frames : irq_frames = <<f>>
      BY <2>1, <2>3 DEF OneFrame
    <3>2. /\ Len(irq_frames) = 1
          /\ S = IF f.at # "enter" THEN {1} ELSE {}
          /\ interrupt_context_depth = IF f.at # "enter" THEN 1 ELSE 0
      BY <2>1, <3>1 DEF HandlerState
    <3>3. Cardinality({1}) = 1 /\ Cardinality({}) = 0
      BY FS_Singleton, FS_EmptySet
    <3>. QED BY <3>2, <3>3 DEF DepthCountsHandlers
  <2>. QED BY <2>2, <2>3
<1>. QED BY <1>1, KernelLoopInvariant, PTL

(* The line in service is the one whose handler has not sent its EOI.      *)
THEOREM KernelLoopInServiceIsHandled == Spec => []InServiceIsHandled
<1>1. IInv => InServiceIsHandled
  BY DEF IInv, LoopInv, OneFrame, HandlerState, Frames, InServiceIsHandled
<1>. QED BY <1>1, KernelLoopInvariant, PTL

(* The CPU never sleeps with a character in the queue.                     *)
THEOREM KernelLoopNoLostWakeup == Spec => []NoLostWakeup
<1>1. IInv => NoLostWakeup
  BY DEF IInv, LoopInv, NothingQueued, NoLostWakeup
<1>. QED BY <1>1, KernelLoopInvariant, PTL

(* A scancode in the controller has its IRQ1 latched or being handled.     *)
THEOREM KernelLoopKeyboardNeverStalls == Spec => []KeyboardNeverStalls
<1>1. IInv => KeyboardNeverStalls
  BY DEF IInv, LoopInv, OneFrame, HandlerState, KeyboardNeverStalls
<1>. QED BY <1>1, KernelLoopInvariant, PTL

(* The counters the shell prints agree between two interrupts.             *)
THEOREM KernelLoopDiagnosticsAgree == Spec => []DiagnosticsAgree
<1>1. IInv => DiagnosticsAgree
  BY DEF IInv, LoopInv, CountersAgree, DiagnosticsAgree
<1>. QED BY <1>1, KernelLoopInvariant, PTL

(* While the foreground reads the queue with interrupts off, no producer   *)
(* moves the head or writes a slot.                                        *)
THEOREM KernelLoopQueueStableWhileRead == Spec => QueueStableWhileRead
<1>. DEFINE A == step = "read" /\ step' = "read" =>
                   UNCHANGED <<input_queue, input_queue_head>>
<1>1. IInv /\ [Next]_vars => [A]_vars
  <2>. SUFFICES ASSUME LoopInv, [Next]_vars, step = "read"
                PROVE  UNCHANGED <<input_queue, input_queue_head>>
    BY DEF IInv
  <2>1. irq_frames = <<>> /\ ~interrupt_flag
    BY DEF LoopInv, FlagFollowsStep
  <2>2. ~Handling /\ ~Boot
    BY <2>1 DEF Handling, HandlerEnter, HandlerDispatch, HandlerEoi,
                HandlerExit, Handler, Boot, BootServices, BootInput,
                idt_initialize, BootPic, BootRegister, pit_initialize,
                cpu_enable_interrupts, Foreground
  <2>3. ~TakeSpurious /\ ~(\E irq \in Lines : TakeInterrupt(irq))
    BY <2>1 DEF TakeSpurious, TakeInterrupt, EnterGate
  <2>4. CASE Work
    BY <2>4 DEF Work, WorkCheck, cpu_disable_interrupts,
                cpu_enable_interrupts, shell_handle_character,
                cpu_enable_interrupts_and_halt, Foreground,
                input_try_read_character, IQ!ReadTail, IQ!ReadHead,
                IQ!ReadSlot, IQ!WriteTail, IQ!queueVars
  <2>5. CASE PitFires \/ (\E byte \in Bytes : KeyArrives(byte))
    BY <2>5 DEF PitFires, KeyArrives, inputVars, queueVars
  <2>6. CASE UNCHANGED vars
    BY <2>6 DEF vars, inputVars, queueVars
  <2>. QED BY <2>2, <2>3, <2>4, <2>5, <2>6 DEF Next
<1>2. QueueStableWhileRead <=> [][A]_vars
  BY DEF QueueStableWhileRead
<1>. HIDE DEF A
<1>. QED BY <1>1, <1>2, KernelLoopInvariant, PTL DEF Spec

(* The whole kernel uses the queue as InputQueue specifies.                *)
LEMMA KernelUsesQueue == Spec => IQP!QueueSpec
<1>1. Init => IQP!QueueInit
  BY SameQueue DEF Init
<1>2. IInv /\ [Next]_vars => [IQP!QueueNext]_(IQP!vars)
  BY QueueStep DEF IInv
<1>. QED BY <1>1, <1>2, KernelLoopInvariant, PTL DEF Spec, IQP!QueueSpec

(* From IRQ1 to the shell the characters pass through a bounded FIFO.      *)
THEOREM KernelLoopQueueIsFifo == Spec => QueueIsFifo
<1>1. IQP!BF!BFInit => IQ!BF!BFInit
  BY DEF IQP!BF!BFInit, IQ!BF!BFInit, IQP!BF!Reply, IQ!BF!Reply,
         IQP!Contents, IQ!Contents, IQP!Pending, IQ!Pending, IQP!Distance,
         IQ!Distance, IQP!Index, IQ!Index
<1>2. [IQP!BF!BFNext]_(IQP!BF!bfVars) => [IQ!BF!BFNext]_(IQ!BF!bfVars)
  BY DEF IQP!BF!BFNext, IQ!BF!BFNext, IQP!BF!Put, IQ!BF!Put, IQP!BF!Drop,
         IQ!BF!Drop, IQP!BF!Get, IQ!BF!Get, IQP!BF!GetEmpty, IQ!BF!GetEmpty,
         IQP!BF!Count, IQ!BF!Count, IQP!BF!Reply, IQ!BF!Reply,
         IQP!BF!bfVars, IQ!BF!bfVars, IQP!Contents, IQ!Contents,
         IQP!Pending, IQ!Pending, IQP!Distance, IQ!Distance, IQP!Index,
         IQ!Index, IQP!UINT32_MAX, IQ!UINT32_MAX
<1>3. Spec => IQP!RefinesBoundedFifo
  BY KernelUsesQueue, QueueConstants, IQP!InputQueueRefinesBoundedFifo, PTL
<1>4. IQP!RefinesBoundedFifo => QueueIsFifo
  BY <1>1, <1>2, PTL DEF IQP!RefinesBoundedFifo, IQP!BF!BFSpec, QueueIsFifo,
     IQ!RefinesBoundedFifo, IQ!BF!BFSpec
<1>. QED BY <1>3, <1>4, PTL

-----------------------------------------------------------------------------
(* The diagnostics.                                                        *)

(* The enqueue counts a character it drops, and stops at the limit.        *)
LEMMA DroppedNeverFalls ==
  ASSUME IQP!IInv, LoopInv, [Next]_vars
  PROVE  input_dropped_character_count' >= input_dropped_character_count
<1>1. input_dropped_character_count \in 0 .. Modulus - 1
  BY DEF IQP!IInv, IQP!TypeOK, IQP!UINT32_MAX
<1>2. [IQP!QueueNext]_(IQP!vars)
  BY QueueStep
<1>. QED BY <1>1, <1>2, ModulusType
     DEF IQP!QueueNext, IQP!Produce, IQP!input_enqueue_character,
         IQP!ReadTail, IQP!ReadHead, IQP!ReadSlot, IQP!WriteTail,
         IQP!CountHead, IQP!CountTail, IQP!vars, IQP!queueVars,
         IQP!UINT32_MAX

(* No step takes a diagnostic counter back.                                *)
THEOREM KernelLoopDiagnosticsNeverFall == Spec => DiagnosticsNeverFall
<1>. DEFINE A ==
       /\ \A irq \in INT!Irqs :
            irq_dispatch_counts'[irq] >= irq_dispatch_counts[irq]
       /\ unhandled_irq_count' >= unhandled_irq_count
       /\ input_dropped_character_count' >= input_dropped_character_count
<1>1. IInv /\ [Next]_vars => [A]_vars
  <2>. SUFFICES ASSUME LoopInv, IQP!IInv, [Next]_vars
                PROVE  /\ \A irq \in Lines : irq_dispatch_counts'[irq] >=
                                               irq_dispatch_counts[irq]
                       /\ unhandled_irq_count' >= unhandled_irq_count
    BY DroppedNeverFalls DEF IInv, INT!Irqs, Lines
  <2>1. /\ irq_dispatch_counts \in [Lines -> Counters]
        /\ unhandled_irq_count \in Counters
    BY DEF LoopInv, Types
  <2>2. CASE UNCHANGED <<irq_dispatch_counts, unhandled_irq_count>>
    BY <2>1, <2>2, ModulusType DEF Counters
  <2>3. CASE BootServices
    BY <2>3, ModulusType
       DEF BootServices, Foreground, INT!interrupts_initialize, INT!Irqs,
           Lines, LoopInv, BootProgress
  <2>4. CASE HandlerDispatch
    <3>1. PICK irq \in {0, 1, 7} : INT!interrupts_dispatch_irq(irq)
      BY <2>4, HandlerMoves DEF HandlerDispatch, Frames
    <3>2. /\ irq_dispatch_counts' =
               [irq_dispatch_counts EXCEPT
                  ![irq] = INT!interrupts_increment_saturating(@)]
          /\ unhandled_irq_count' \in
               {unhandled_irq_count,
                INT!interrupts_increment_saturating(unhandled_irq_count)}
      BY <3>1 DEF INT!interrupts_dispatch_irq, INT!Irqs
    <3>3. \A n \in Counters : INT!interrupts_increment_saturating(n) >= n
      BY ModulusType DEF INT!interrupts_increment_saturating, Counters
    <3>. QED BY <2>1, <3>2, <3>3, ModulusType DEF Counters
  <2>5. CASE Boot /\ ~BootServices
    BY <2>2, <2>5 DEF Boot, BootInput, idt_initialize, BootPic,
       BootRegister, pit_initialize, cpu_enable_interrupts, registryVars,
       INT!interrupts_register_irq, INT!counters
  <2>6. CASE Work
    BY <2>2, <2>6 DEF Work, WorkCheck, cpu_disable_interrupts,
       input_try_read_character, cpu_enable_interrupts,
       shell_handle_character, cpu_enable_interrupts_and_halt, registryVars
  <2>7. CASE PitFires \/ (\E byte \in Bytes : KeyArrives(byte))
    BY <2>2, <2>7 DEF PitFires, KeyArrives, registryVars
  <2>8. CASE TakeSpurious \/ (\E irq \in Lines : TakeInterrupt(irq))
    BY <2>2, <2>8 DEF TakeSpurious, TakeInterrupt, EnterGate, registryVars
  <2>9. CASE Handling /\ ~HandlerDispatch
    BY <2>2, <2>9 DEF Handling, HandlerEnter, HandlerEoi, HandlerExit,
       registryVars, INT!interrupts_context_enter,
       INT!interrupts_context_exit, INT!counters
  <2>10. CASE UNCHANGED vars
    BY <2>2, <2>10 DEF vars, registryVars
  <2>. QED BY <2>3, <2>4, <2>5, <2>6, <2>7, <2>8, <2>9, <2>10 DEF Next
<1>2. DiagnosticsNeverFall <=> [][A]_vars
  BY DEF DiagnosticsNeverFall
<1>. HIDE DEF A
<1>. QED BY <1>1, <1>2, KernelLoopInvariant, PTL DEF Spec
=============================================================================
