--------------------------- MODULE InterruptEntry ---------------------------
(***************************************************************************)
(* From an interrupt or exception to its C handler and back: the segment   *)
(* descriptors (gdt.c, gdt_flush.s), the gates (idt.c), the assembly stubs *)
(* and the frame they leave for C (isr_stubs.s, struct interrupt_frame).   *)
(* What irq_handler does to the controller, the drivers and the context    *)
(* depth is in KernelLoop; here it is a C function, which may spoil EAX,   *)
(* ECX and EDX.  A register holds a number; the stack is a sequence of     *)
(* words, its top last.                                                    *)
(***************************************************************************)
EXTENDS Integers, Sequences, Format

CONSTANTS
  IDT_ENTRY_COUNT,
  StubAddress,          \* where the linker put isr0..isr31 and irq0..irq15
  ErrorCodes,           \* the error codes the processor may push
  BootSegments,         \* the selectors of the boot loader's own table
  BootRegisters,        \* what the interrupted code has in the registers
  CodeAddresses,        \* values of EIP in the interrupted kernel
  MaxNesting            \* bound: interrupts inside one another

GP == {"eax", "ecx", "edx", "ebx", "ebp", "esi", "edi"}

(* The stubs have different addresses of 32 bits.                          *)
ASSUME StubType == StubAddress \in [0 .. 47 -> Nat]
ASSUME StubsAreAddressable ==
  \A v \in 0 .. 47 : StubAddress[v] \div 65536 < 65536
ASSUME StubsAreApart ==
  \A v, w \in 0 .. 47 : StubAddress[v] = StubAddress[w] => v = w

ASSUME EntryConstants ==
  /\ IDT_ENTRY_COUNT \in Nat /\ IDT_ENTRY_COUNT >= 48
  /\ BootSegments \in [code : Nat, data : Nat]
  /\ BootRegisters \in [GP -> Nat]
  /\ ErrorCodes \subseteq Nat /\ CodeAddresses \subseteq Nat
ASSUME ErrorCodesAreWords == \A e \in ErrorCodes : e \div 65536 < 65536

VARIABLES
  gdt_entries, gdt_limit,      \* the limit in GDTR, 0: not this table
  idt_entries, idt_limit,
  cpu, stack, phase,
  raised,     \* history: the last interrupt, and the machine it found
  report      \* what isr_handler wrote to the log

vars == <<gdt_entries, gdt_limit, idt_entries, idt_limit, cpu, stack, phase,
          raised, report>>
tableVars == <<gdt_entries, gdt_limit, idt_entries, idt_limit>>

-----------------------------------------------------------------------------
(* gdt.c and gdt_flush.s.                                                  *)

GDT_ENTRY_COUNT == 3
GDT_KERNEL_CODE_INDEX == 1
GDT_KERNEL_DATA_INDEX == 2
GDT_KERNEL_CODE_SELECTOR == 8
GDT_KERNEL_DATA_SELECTOR == 16
GDT_FLAT_LIMIT == 1048575                    \* 0xFFFFF
GDT_ACCESS_KERNEL_CODE == 128 + 16 + 8 + 2
GDT_ACCESS_KERNEL_DATA == 128 + 16 + 2
GDT_GRANULARITY_4K_32BIT == 128 + 64

(* The bits of value from the one of weight low up to, not including, the  *)
(* one of weight low * range.                                              *)
Field(value, low, range) == (value \div low) % range

gdt_set_entry(base, limit, access, granularity) ==
  [base_low |-> Field(base, 1, 65536), base_middle |-> Field(base, 65536, 256),
   base_high |-> Field(base, 16777216, 256),
   limit_low |-> Field(limit, 1, 65536),
   granularity |-> Field(limit, 65536, 16) + 16 * Field(granularity, 16, 16),
   access |-> access]

gdt_flush ==
  cpu' = [cpu EXCEPT !.ds = GDT_KERNEL_DATA_SELECTOR,
                     !.es = GDT_KERNEL_DATA_SELECTOR,
                     !.fs = GDT_KERNEL_DATA_SELECTOR,
                     !.gs = GDT_KERNEL_DATA_SELECTOR,
                     !.ss = GDT_KERNEL_DATA_SELECTOR,
                     !.cs = GDT_KERNEL_CODE_SELECTOR]

gdt_initialize ==
  /\ phase = "gdt_initialize"
  /\ gdt_limit' = GDT_ENTRY_COUNT * 8 - 1
  /\ gdt_entries' =
       [index \in 0 .. GDT_ENTRY_COUNT - 1 |->
          CASE index = GDT_KERNEL_CODE_INDEX ->
                 gdt_set_entry(0, GDT_FLAT_LIMIT, GDT_ACCESS_KERNEL_CODE,
                               GDT_GRANULARITY_4K_32BIT)
            [] index = GDT_KERNEL_DATA_INDEX ->
                 gdt_set_entry(0, GDT_FLAT_LIMIT, GDT_ACCESS_KERNEL_DATA,
                               GDT_GRANULARITY_4K_32BIT)
            [] OTHER -> gdt_set_entry(0, 0, 0, 0)]
  /\ gdt_flush
  /\ phase' = "idt_initialize"
  /\ UNCHANGED <<idt_entries, idt_limit, stack, raised, report>>

-----------------------------------------------------------------------------
(* idt.c.                                                                  *)

IDT_KERNEL_CODE_SELECTOR == 8
IDT_INTERRUPT_GATE_RING0 == 142              \* 0x8E

idt_set_gate(handler_address, selector, flags) ==
  [base_low |-> Field(handler_address, 1, 65536), selector |-> selector,
   zero |-> 0, flags |-> flags,
   base_high |-> Field(handler_address, 65536, 65536)]

idt_initialize ==
  /\ phase = "idt_initialize"
  /\ idt_limit' = IDT_ENTRY_COUNT * 8 - 1
  /\ idt_entries' =
       [i \in 0 .. IDT_ENTRY_COUNT - 1 |->
          IF i \in DOMAIN StubAddress
          THEN idt_set_gate(StubAddress[i], IDT_KERNEL_CODE_SELECTOR,
                            IDT_INTERRUPT_GATE_RING0)
          ELSE idt_set_gate(0, 0, 0)]
  /\ phase' = "running"
  /\ UNCHANGED <<gdt_entries, gdt_limit, cpu, stack, raised, report>>

-----------------------------------------------------------------------------
(* The processor.  A gate is followed only through a present 32-bit code   *)
(* segment that reaches the handler; a fault on this way resets it.        *)

Bit(value, weight) == Field(value, weight, 2) = 1

Reaches(descriptor, address) ==
  LET limit == descriptor.limit_low
                 + 65536 * Field(descriptor.granularity, 1, 16)
  IN  IF Bit(descriptor.granularity, 128) THEN address \div 4096 <= limit
      ELSE address <= limit

SegmentBase(descriptor) ==
  descriptor.base_low + 65536 * descriptor.base_middle
    + 16777216 * descriptor.base_high

IsCodeSegment(selector, address) ==
  /\ selector # 0 /\ selector + 7 <= gdt_limit
  /\ LET descriptor == gdt_entries[selector \div 8]
     IN  /\ Bit(descriptor.access, 128) /\ Bit(descriptor.access, 16)
         /\ Bit(descriptor.access, 8) /\ Bit(descriptor.granularity, 64)
         /\ Reaches(descriptor, address)

GateOffset(gate) == gate.base_low + 65536 * gate.base_high

GateOpens(vector) ==
  /\ vector * 8 + 7 <= idt_limit
  /\ LET gate == idt_entries[vector]
     IN  /\ Bit(gate.flags, 128) /\ Field(gate.flags, 1, 16) \in {14, 15}
         /\ IsCodeSegment(gate.selector, GateOffset(gate))

(* The exceptions with an error code; 21 needs a feature that is off.      *)
PushesErrorCode == {8, 10, 11, 12, 13, 14, 17, 29, 30}

EFlags(enabled) == IF enabled THEN 512 ELSE 0

Raise(vector, error_code) ==
  /\ vector \notin PushesErrorCode => error_code = 0
  /\ raised' = [vector |-> vector, error_code |-> error_code, cpu |-> cpu,
                depth |-> Len(stack),
                level |-> IF phase = "running" THEN 1 ELSE raised.level + 1]
  /\ raised'.level <= MaxNesting
  /\ IF GateOpens(vector)
     THEN LET gate == idt_entries[vector]
              base == SegmentBase(gdt_entries[gate.selector \div 8])
          IN  /\ stack' = stack \o <<EFlags(cpu.interrupt_flag), cpu.cs,
                                     cpu.eip>>
                            \o IF vector \in PushesErrorCode
                               THEN <<error_code>> ELSE <<>>
              /\ cpu' = [cpu EXCEPT !.cs = gate.selector,
                           !.eip = base + GateOffset(gate),
                           !.interrupt_flag =
                             Field(gate.flags, 1, 16) = 15 /\ @]
              /\ phase' = "stub"
     ELSE phase' = "reset" /\ UNCHANGED <<cpu, stack>>
  /\ UNCHANGED <<tableVars, report>>

(* A fault or NMI at any step, in a handler and during boot too; a request *)
(* of the controller only while the flag is set; after a panic only the    *)
(* NMI, vector 2, wakes the processor.                                     *)
Exception(vector, error_code) ==
  /\ phase # "reset"
  /\ phase = "halted" => vector = 2
  /\ Raise(vector, error_code)

HardwareInterrupt(vector) ==
  /\ phase = "running" /\ cpu.interrupt_flag
  /\ Raise(vector, 0)

-----------------------------------------------------------------------------
(* isr_stubs.s.                                                            *)

(* Mutation: 17 is declared without an error code.                         *)
ErrorCodeStubsShort == {8, 10, 11, 12, 13, 14, 29, 30}

(* The vectors declared with ISR_ERROR_CODE.                               *)
ErrorCodeStubs == {8, 10, 11, 12, 13, 14, 17, 29, 30}

(* cli, the missing error code, the number.                                *)
StubPushes(number) ==
  IF number \in ErrorCodeStubs THEN <<number>> ELSE <<0, number>>

pusha(esp) == <<cpu.gp["eax"], cpu.gp["ecx"], cpu.gp["edx"], cpu.gp["ebx"],
                esp, cpu.gp["ebp"], cpu.gp["esi"], cpu.gp["edi"]>>

(* "mov %ds, %ax" keeps the upper half of EAX.                             *)
WithLowHalf(selector) ==
  cpu.gp["eax"] - (cpu.gp["eax"] % 65536) + selector

ReturnAddress == 0                           \* into the common stub

(* From the stub's first instruction to the first of the C handler.  The   *)
(* pointer it passes is the address of the saved DS.                       *)
EnterStub(number) ==
  /\ phase = "stub" /\ cpu.eip = StubAddress[number]
  /\ LET pushed == stack \o StubPushes(number)
         saved == pushed \o pusha(Len(pushed)) \o <<WithLowHalf(cpu.ds)>>
     IN  stack' = saved \o <<Len(saved), ReturnAddress>>
  /\ cpu' = [cpu EXCEPT !.interrupt_flag = FALSE,
               !.gp["eax"] = WithLowHalf(GDT_KERNEL_DATA_SELECTOR),
               !.ds = GDT_KERNEL_DATA_SELECTOR,
               !.es = GDT_KERNEL_DATA_SELECTOR,
               !.fs = GDT_KERNEL_DATA_SELECTOR,
               !.gs = GDT_KERNEL_DATA_SELECTOR]
  /\ phase' = IF number < 32 THEN "isr_handler" ELSE "irq_handler"
  /\ UNCHANGED <<tableVars, raised, report>>

(* struct interrupt_frame, as word offsets from its first field.           *)
interrupt_frame ==
  [ds |-> 0, edi |-> 1, esi |-> 2, ebp |-> 3, esp |-> 4, ebx |-> 5,
   edx |-> 6, ecx |-> 7, eax |-> 8, interrupt_number |-> 9,
   error_code |-> 10, eip |-> 11, cs |-> 12, eflags |-> 13]

(* The argument is below the return address; the stack grows downwards.    *)
frame(field) == stack[stack[Len(stack) - 1] - interrupt_frame[field]]

(* kernel_panic follows the report: interrupts off and halt.               *)
isr_handler ==
  /\ phase = "isr_handler"
  /\ report' = [vector |-> kformat_uint32_decimal(frame("interrupt_number"), 11),
                error_code |-> kformat_uint32_hex(frame("error_code"), 11)]
  /\ cpu' = [cpu EXCEPT !.interrupt_flag = FALSE]
  /\ phase' = "halted"
  /\ UNCHANGED <<tableVars, stack, raised>>

Spoilt == -1

irq_handler ==
  /\ phase = "irq_handler"
  /\ IF frame("interrupt_number") \in 32 .. 47
     THEN /\ cpu' = [cpu EXCEPT !.gp["eax"] = Spoilt, !.gp["ecx"] = Spoilt,
                                !.gp["edx"] = Spoilt]
          /\ phase' = "return"
     ELSE phase' = "halted" /\ UNCHANGED cpu
  /\ UNCHANGED <<tableVars, stack, raised, report>>

(* Mutation: only one of the two words below the registers is dropped.     *)
DropsOneWord == 1

(* "add $8, %esp": the number and the error code.                          *)
DroppedWords == 2

(* Where popa finds the registers, from the saved DS on; it skips ESP.     *)
popa == [edi |-> 1, esi |-> 2, ebp |-> 3, ebx |-> 5, edx |-> 6, ecx |-> 7,
         eax |-> 8]

(* The rest of irq_common_stub, and the processor's iret.                  *)
LeaveStub ==
  LET top == Len(stack) - 2               \* ret and "add $4" took two words
      word(n) == stack[top - n]
      iret == 9 + DroppedWords
      ds == word(0) % 65536               \* "mov %ax, %ds"
  IN  /\ phase = "return"
      /\ cpu' = [gp |-> [r \in GP |-> word(popa[r])],
                 ds |-> ds, es |-> ds, fs |-> ds, gs |-> ds, ss |-> cpu.ss,
                 eip |-> word(iret), cs |-> word(iret + 1),
                 interrupt_flag |-> word(iret + 2) = EFlags(TRUE)]
      /\ stack' = SubSeq(stack, 1, top - (iret + 3))
      /\ phase' = "running"
      /\ UNCHANGED <<tableVars, raised, report>>

(* kernel_main and the work loop: anything, with the flag on or off.       *)
Foreground(eip, enabled) ==
  /\ phase = "running"
  /\ cpu' = [cpu EXCEPT !.eip = eip, !.interrupt_flag = enabled]
  /\ UNCHANGED <<tableVars, stack, phase, raised, report>>

-----------------------------------------------------------------------------
NoReport == [vector |-> <<>>, error_code |-> <<>>]

EntryInit ==
  /\ gdt_entries = <<>> /\ gdt_limit = 0
  /\ idt_entries = <<>> /\ idt_limit = 0
  /\ cpu = [gp |-> BootRegisters,
            ds |-> BootSegments.data, es |-> BootSegments.data,
            fs |-> BootSegments.data, gs |-> BootSegments.data,
            ss |-> BootSegments.data, cs |-> BootSegments.code,
            eip |-> 0, interrupt_flag |-> FALSE]
  /\ stack = <<>>
  /\ phase = "gdt_initialize"
  /\ raised = [vector |-> 0, error_code |-> 0, cpu |-> cpu, depth |-> 0,
               level |-> 0]
  /\ report = NoReport

EntryNext ==
  \/ gdt_initialize \/ idt_initialize
  \/ \E eip \in CodeAddresses, enabled \in BOOLEAN : Foreground(eip, enabled)
  \/ \E vector \in 0 .. 31, error_code \in ErrorCodes :
       Exception(vector, error_code)
  \/ \E vector \in 32 .. 47 : HardwareInterrupt(vector)
  \/ \E number \in 0 .. 47 : EnterStub(number)
  \/ isr_handler \/ irq_handler \/ LeaveStub

EntrySpec == EntryInit /\ [][EntryNext]_vars

-----------------------------------------------------------------------------
(* Properties.                                                             *)

(* Once the IDT is loaded no interrupt or exception resets the machine,    *)
(* and the handler that runs is the right one: the frame that the stub     *)
(* built shows the vector, the error code and the interrupted registers at *)
(* the offsets of struct interrupt_frame, for vectors with and without an  *)
(* error code, nested ones too, with the kernel's data segments loaded.    *)
HandlerSeesItsInterrupt ==
  /\ phase = "reset" => idt_limit = 0
  /\ phase \in {"isr_handler", "irq_handler"} =>
       /\ frame("interrupt_number") = raised.vector
       /\ frame("error_code") = raised.error_code
       /\ frame("eip") = raised.cpu.eip /\ frame("cs") = raised.cpu.cs
       /\ frame("eflags") = EFlags(raised.cpu.interrupt_flag)
       /\ \A r \in GP : frame(r) = raised.cpu.gp[r]
       /\ (phase = "isr_handler") <=> (raised.vector < 32)
       /\ {cpu.ds, cpu.es, cpu.fs, cpu.gs} = {GDT_KERNEL_DATA_SELECTOR}
       /\ ~cpu.interrupt_flag

(* A hardware interrupt leaves no trace in the code it interrupted: every  *)
(* register, segment, the flag and the depth of the stack are restored.    *)
ContextIsRestored ==
  [][phase = "return" /\ phase' = "running" =>
       cpu' = raised.cpu /\ Len(stack') = raised.depth]_vars

(* The log of an exception names the vector that was raised and its error  *)
(* code, also when it struck inside another handler or the report itself.  *)
ExceptionIsReported ==
  phase = "halted" =>
    /\ raised.vector < 32
    /\ IsDecimalFor(report.vector, raised.vector)
    /\ IsHexFor(report.error_code, raised.error_code)
=============================================================================
