------------------------ MODULE InterruptEntryProofs ------------------------
(***************************************************************************)
(* Theorems about InterruptEntry, for every place the linker may give the  *)
(* stubs, every register contents and error code, and any nesting.         *)
(***************************************************************************)
EXTENDS InterruptEntry, FormatProofs, SequenceTheorems, TLAPS

Cpu == [gp : [GP -> Int], ds : Nat, es : Nat, fs : Nat, gs : Nat, ss : Nat,
        cs : Nat, eip : Int, interrupt_flag : BOOLEAN]

GdtLoaded ==
  /\ gdt_limit = 23
  /\ gdt_entries[1] = gdt_set_entry(0, GDT_FLAT_LIMIT, GDT_ACCESS_KERNEL_CODE,
                                    GDT_GRANULARITY_4K_32BIT)

IdtLoaded ==
  /\ idt_limit = IDT_ENTRY_COUNT * 8 - 1
  /\ \A v \in 0 .. 47 :
       idt_entries[v] = idt_set_gate(StubAddress[v], IDT_KERNEL_CODE_SELECTOR,
                                     IDT_INTERRUPT_GATE_RING0)

(* The segments of the kernel's own table.                                 *)
KernelSegments(c) ==
  /\ c.ds = GDT_KERNEL_DATA_SELECTOR /\ c.es = GDT_KERNEL_DATA_SELECTOR
  /\ c.fs = GDT_KERNEL_DATA_SELECTOR /\ c.gs = GDT_KERNEL_DATA_SELECTOR
  /\ c.ss = GDT_KERNEL_DATA_SELECTOR /\ c.cs = GDT_KERNEL_CODE_SELECTOR

Handling == {"stub", "isr_handler", "irq_handler", "return"}

Types ==
  /\ phase \in {"gdt_initialize", "idt_initialize", "running", "halted",
                "reset"} \cup Handling
  /\ cpu \in Cpu
  /\ stack \in Seq(Int)
  /\ raised.cpu \in Cpu
  /\ raised.vector \in 0 .. 47
  /\ raised.error_code \in Nat
  /\ raised.depth \in Nat

(* The tables are loaded one after the other, and nothing is left through  *)
(* a gate before both are.                                                 *)
Tables ==
  /\ phase \in {"gdt_initialize", "idt_initialize", "reset"} => idt_limit = 0
  /\ phase # "gdt_initialize" /\ phase # "reset" =>
       GdtLoaded /\ KernelSegments(cpu)
  /\ phase \in {"running", "halted"} \cup Handling => IdtLoaded
  /\ phase \in Handling => KernelSegments(raised.cpu)

(* The words that the processor pushes for the interrupt r, in the stack s *)
(* above that of the interrupted code.                                     *)
IsPushed(s, r) ==
  /\ s[r.depth + 1] = EFlags(r.cpu.interrupt_flag)
  /\ s[r.depth + 2] = r.cpu.cs
  /\ s[r.depth + 3] = r.cpu.eip

AtStub ==
  phase = "stub" =>
    /\ IsPushed(stack, raised)
    /\ raised.vector \notin PushesErrorCode => raised.error_code = 0
    /\ IF raised.vector \in PushesErrorCode
       THEN /\ Len(stack) = raised.depth + 4
            /\ stack[raised.depth + 4] = raised.error_code
       ELSE Len(stack) = raised.depth + 3
    /\ cpu.gp = raised.cpu.gp
    /\ cpu.eip = StubAddress[raised.vector]

(* What the stub pushes on top of them: struct interrupt_frame, the        *)
(* pointer to it and the return address.                                   *)
IsStubFrame(s, r) ==
  /\ IsPushed(s, r)
  /\ Len(s) = r.depth + 16
  /\ s[r.depth + 15] = r.depth + 14
  /\ s[r.depth + 4] = r.error_code
  /\ s[r.depth + 5] = r.vector
  /\ s[r.depth + 6] = r.cpu.gp["eax"]
  /\ s[r.depth + 7] = r.cpu.gp["ecx"]
  /\ s[r.depth + 8] = r.cpu.gp["edx"]
  /\ s[r.depth + 9] = r.cpu.gp["ebx"]
  /\ s[r.depth + 11] = r.cpu.gp["ebp"]
  /\ s[r.depth + 12] = r.cpu.gp["esi"]
  /\ s[r.depth + 13] = r.cpu.gp["edi"]
  /\ s[r.depth + 14] % 65536 = r.cpu.ds

InHandler ==
  phase \in {"isr_handler", "irq_handler", "return"} =>
    /\ IsStubFrame(stack, raised)
    /\ (phase = "isr_handler") <=> (raised.vector < 32)
    /\ ~cpu.interrupt_flag

EntryInv == Types /\ Tables /\ AtStub /\ InHandler

-----------------------------------------------------------------------------
(* The gates.                                                              *)

(* The facts about the constants, one by one.                              *)
LEMMA StubTypes ==
  \A v \in 0 .. 47 : StubAddress[v] \in Nat
                     /\ StubAddress[v] \div 65536 < 65536
BY StubType, StubsAreAddressable

(* There is a stub for each of the 48 vectors.                             *)
LEMMA StubDomain == DOMAIN StubAddress = 0 .. 47
BY StubType

(* The table has a gate for each of them.                                  *)
LEMMA TableSize == IDT_ENTRY_COUNT \in Nat /\ IDT_ENTRY_COUNT >= 48
BY EntryConstants, SMT

(* The types of what the boot loader leaves and the processor pushes.      *)
LEMMA BootTypes ==
  /\ BootSegments.code \in Nat /\ BootSegments.data \in Nat
  /\ ErrorCodes \subseteq Nat /\ CodeAddresses \subseteq Nat
  /\ BootRegisters \in [GP -> Int]
BY EntryConstants, SMT

(* A 32-bit address survives the split into the halves of a gate.          *)
LEMMA GateKeepsAddress ==
  ASSUME NEW a \in Nat, a \div 65536 < 65536
  PROVE  /\ GateOffset(idt_set_gate(a, IDT_KERNEL_CODE_SELECTOR,
                                    IDT_INTERRUPT_GATE_RING0)) = a
         /\ a \div 4096 <= 1048575
<1>1. (a % 65536) + 65536 * ((a \div 65536) % 65536) = a
  BY Z3
<1>2. a \div 1 = a
  BY Z3
<1>3. a \div 4096 <= 1048575
  BY Z3
<1>. QED BY <1>1, <1>2, <1>3, SMT DEF GateOffset, idt_set_gate, Field

(* The kernel's code descriptor: based at 0, present, 32 bits, code, and   *)
(* of the full address space.                                              *)
LEMMA FlatCode ==
  ASSUME GdtLoaded, NEW a \in Nat, a \div 4096 <= 1048575
  PROVE  /\ IsCodeSegment(8, a)
         /\ SegmentBase(gdt_entries[8 \div 8]) = 0
<1>. DEFINE d == gdt_entries[1]
<1>1. /\ d.base_low = 0 /\ d.base_middle = 0 /\ d.base_high = 0
      /\ d.limit_low = 65535 /\ d.granularity = 207 /\ d.access = 154
  BY SMT DEF GdtLoaded, gdt_set_entry, Field, GDT_FLAT_LIMIT,
             GDT_ACCESS_KERNEL_CODE, GDT_GRANULARITY_4K_32BIT
<1>2. 8 \div 8 = 1
  BY SMT
<1>. HIDE DEF d
<1>3. Bit(d.access, 128) /\ Bit(d.access, 16) /\ Bit(d.access, 8)
      /\ Bit(d.granularity, 64) /\ Bit(d.granularity, 128)
      /\ Field(d.granularity, 1, 16) = 15
  BY <1>1, SMT DEF Bit, Field
<1>4. Reaches(d, a)
  BY <1>1, <1>3, SMT DEF Reaches
<1>5. SegmentBase(d) = 0
  BY <1>1, SMT DEF SegmentBase
<1>6. 8 # 0 /\ 8 + 7 <= gdt_limit
  BY SMT DEF GdtLoaded
<1>. QED BY <1>2, <1>3, <1>4, <1>5, <1>6 DEF IsCodeSegment, d

(* Every gate of the kernel opens, at its stub, with interrupts off.       *)
LEMMA GatesOpen ==
  ASSUME GdtLoaded, IdtLoaded, NEW v \in 0 .. 47
  PROVE  /\ GateOpens(v)
         /\ idt_entries[v].selector = 8
         /\ SegmentBase(gdt_entries[idt_entries[v].selector \div 8])
              + GateOffset(idt_entries[v]) = StubAddress[v]
         /\ Field(idt_entries[v].flags, 1, 16) = 14
<1>. DEFINE gate == idt_entries[v]
<1>1. gate = idt_set_gate(StubAddress[v], IDT_KERNEL_CODE_SELECTOR,
                          IDT_INTERRUPT_GATE_RING0)
  BY DEF IdtLoaded
<1>2. gate.selector = 8 /\ gate.flags = 142
  BY <1>1, SMT DEF idt_set_gate, IDT_KERNEL_CODE_SELECTOR,
                   IDT_INTERRUPT_GATE_RING0
<1>3. /\ StubAddress[v] \in Nat /\ GateOffset(gate) = StubAddress[v]
      /\ StubAddress[v] \div 4096 <= 1048575
  BY <1>1, StubTypes, GateKeepsAddress
<1>4. Bit(gate.flags, 128) /\ Field(gate.flags, 1, 16) = 14
  BY <1>2, SMT DEF Bit, Field
<1>5. v * 8 + 7 <= idt_limit
  BY TableSize, SMT DEF IdtLoaded
<1>6. /\ IsCodeSegment(gate.selector, GateOffset(gate))
      /\ SegmentBase(gdt_entries[gate.selector \div 8]) = 0
  BY <1>2, <1>3, FlatCode
<1>. HIDE DEF gate
<1>7. GateOpens(v)
  BY <1>4, <1>5, <1>6 DEF GateOpens, gate
<1>8. SegmentBase(gdt_entries[gate.selector \div 8]) + GateOffset(gate)
        = StubAddress[v]
  BY <1>3, <1>6
<1>. QED BY <1>2, <1>4, <1>7, <1>8 DEF gate

-----------------------------------------------------------------------------
(* The stack.                                                              *)

(* What a push leaves of the stack, and where the pushed words are.        *)
LEMMA Appended ==
  ASSUME NEW s \in Seq(Int), NEW w \in Seq(Int)
  PROVE  /\ s \o w \in Seq(Int)
         /\ Len(s) \in Nat /\ Len(w) \in Nat
         /\ Len(s \o w) = Len(s) + Len(w)
         /\ \A i \in 1 .. Len(s) : (s \o w)[i] = s[i]
         /\ \A i \in 1 .. Len(w) : (s \o w)[Len(s) + i] = w[i]
OBVIOUS

(* One pushed word.                                                        *)
LEMMA Tuple1 ==
  ASSUME NEW a \in Int
  PROVE  <<a>> \in Seq(Int) /\ Len(<<a>>) = 1 /\ <<a>>[1] = a
OBVIOUS

(* Two pushed words.                                                       *)
LEMMA Tuple2 ==
  ASSUME NEW a \in Int, NEW b \in Int
  PROVE  /\ <<a, b>> \in Seq(Int) /\ Len(<<a, b>>) = 2
         /\ <<a, b>>[1] = a /\ <<a, b>>[2] = b
OBVIOUS

(* Three pushed words.                                                     *)
LEMMA Tuple3 ==
  ASSUME NEW a \in Int, NEW b \in Int, NEW c \in Int
  PROVE  /\ <<a, b, c>> \in Seq(Int) /\ Len(<<a, b, c>>) = 3
         /\ <<a, b, c>>[1] = a /\ <<a, b, c>>[2] = b /\ <<a, b, c>>[3] = c
OBVIOUS

(* The types of the registers.                                             *)
LEMMA CpuFields ==
  ASSUME NEW c \in Cpu
  PROVE  /\ c.gp \in [GP -> Int] /\ c.cs \in Int /\ c.eip \in Int /\ c.ds \in Nat
         /\ c.interrupt_flag \in BOOLEAN
         /\ c.gp["eax"] \in Int /\ c.gp["ecx"] \in Int /\ c.gp["edx"] \in Int
         /\ c.gp["ebx"] \in Int /\ c.gp["ebp"] \in Int /\ c.gp["esi"] \in Int
         /\ c.gp["edi"] \in Int
<1>1. /\ c.gp \in [GP -> Int] /\ c.cs \in Int /\ c.eip \in Int /\ c.ds \in Nat
      /\ c.interrupt_flag \in BOOLEAN
  BY DEF Cpu
<1>. QED BY <1>1 DEF GP

(* What the processor pushes for an interrupt.                             *)
LEMMA ProcessorPushes ==
  ASSUME NEW s \in Seq(Int), NEW f \in Int, NEW c \in Int, NEW e \in Int,
         NEW code \in Int
  PROVE  /\ LET t == s \o <<f, c, e>>
            IN  /\ t \in Seq(Int) /\ Len(t) = Len(s) + 3
                /\ t[Len(s) + 1] = f /\ t[Len(s) + 2] = c /\ t[Len(s) + 3] = e
         /\ LET t == s \o <<f, c, e>> \o <<code>>
            IN  /\ t \in Seq(Int) /\ Len(t) = Len(s) + 4
                /\ t[Len(s) + 1] = f /\ t[Len(s) + 2] = c /\ t[Len(s) + 3] = e
                /\ t[Len(s) + 4] = code
<1>. DEFINE n == Len(s)
            w == <<f, c, e>>
            t == s \o w
            x == <<code>>
            u == t \o x
<1>1. /\ w \in Seq(Int) /\ Len(w) = 3 /\ w[1] = f /\ w[2] = c /\ w[3] = e
      /\ x \in Seq(Int) /\ Len(x) = 1 /\ x[1] = code
  BY Tuple3, Tuple1
<1>. HIDE DEF w, x
<1>2. /\ t \in Seq(Int) /\ n \in Nat /\ Len(t) = n + Len(w)
      /\ \A i \in 1 .. Len(w) : t[n + i] = w[i]
  BY <1>1, Appended
<1>. HIDE DEF t
<1>3. /\ u \in Seq(Int) /\ Len(u) = Len(t) + Len(x)
      /\ \A i \in 1 .. Len(t) : u[i] = t[i]
      /\ \A i \in 1 .. Len(x) : u[Len(t) + i] = x[i]
  BY <1>1, <1>2, Appended
<1>. HIDE DEF n, u
<1>4. /\ Len(t) = n + 3
      /\ t[n + 1] = f /\ t[n + 2] = c /\ t[n + 3] = e
  BY <1>1, <1>2
<1>5. /\ Len(u) = n + 4
      /\ u[n + 1] = f /\ u[n + 2] = c /\ u[n + 3] = e
  <2>1. n + 1 \in 1 .. n + 3 /\ n + 2 \in 1 .. n + 3 /\ n + 3 \in 1 .. n + 3
    BY <1>2
  <2>. QED BY <1>1, <1>2, <1>3, <1>4, <2>1
<1>6. u[n + 4] = code
  <2>1. 1 \in 1 .. 1 /\ (n + 3) + 1 = n + 4
    BY <1>2
  <2>. QED BY <1>1, <1>3, <1>4, <2>1
<1>. QED BY <1>2, <1>3, <1>4, <1>5, <1>6 DEF n, u, t, w, x

(* The eight words of pusha.                                               *)
LEMMA Tuple8 ==
  ASSUME NEW a1 \in Int, NEW a2 \in Int, NEW a3 \in Int, NEW a4 \in Int,
         NEW a5 \in Int, NEW a6 \in Int, NEW a7 \in Int, NEW a8 \in Int
  PROVE  LET w == <<a1, a2, a3, a4, a5, a6, a7, a8>>
         IN  /\ w \in Seq(Int) /\ Len(w) = 8
             /\ w[1] = a1 /\ w[2] = a2 /\ w[3] = a3 /\ w[4] = a4
             /\ w[5] = a5 /\ w[6] = a6 /\ w[7] = a7 /\ w[8] = a8
OBVIOUS

(* The stack w on which the stub leaves p, the eight registers r, DS in x, *)
(* the pointer to them and a return address.                               *)
IsFrame(p, r, x, w) ==
  /\ w \in Seq(Int) /\ Len(w) = Len(p) + 11
  /\ \A i \in 1 .. Len(p) : w[i] = p[i]
  /\ \A i \in 1 .. 8 : w[Len(p) + i] = r[i]
  /\ w[Len(p) + 9] = x /\ w[Len(p) + 10] = Len(p) + 9

(* What the stub pushes after the number makes such a stack.               *)
LEMMA FrameBuilt ==
  ASSUME NEW p \in Seq(Int), NEW r \in Seq(Int), Len(r) = 8, NEW x \in Int
  PROVE  LET u == p \o r \o <<x>>
         IN  IsFrame(p, r, x, u \o <<Len(u), ReturnAddress>>)
<1>. DEFINE m == Len(p)
            q == p \o r
            y == <<x>>
            saved == q \o y
            z == <<Len(saved), ReturnAddress>>
            t == saved \o z
<1>1. y \in Seq(Int) /\ Len(y) = 1 /\ y[1] = x
  BY Tuple1
<1>. HIDE DEF y
<1>2. /\ q \in Seq(Int) /\ Len(q) = m + Len(r)
      /\ \A i \in 1 .. m : q[i] = p[i]
      /\ \A i \in 1 .. Len(r) : q[m + i] = r[i]
  BY Appended
<1>3. m \in Nat
  OBVIOUS
<1>. HIDE DEF q
<1>4. /\ saved \in Seq(Int) /\ Len(saved) = Len(q) + Len(y)
      /\ \A i \in 1 .. Len(q) : saved[i] = q[i]
      /\ \A i \in 1 .. Len(y) : saved[Len(q) + i] = y[i]
  BY <1>1, <1>2, Appended
<1>. HIDE DEF m, saved
<1>5. Len(q) = m + 8 /\ \A i \in 1 .. 8 : q[m + i] = r[i]
  BY <1>2
<1>6. Len(saved) = m + 9 /\ saved[m + 9] = x
  <2>1. 1 \in 1 .. 1 /\ (m + 8) + 1 = m + 9
    BY <1>3
  <2>. QED BY <1>1, <1>4, <1>5, <2>1
<1>7. \A i \in 1 .. m + 8 : saved[i] = q[i]
  BY <1>4, <1>5
<1>8. m + 9 \in Int
  BY <1>3
<1>9. z \in Seq(Int) /\ Len(z) = 2 /\ z[1] = m + 9
  BY <1>6, <1>8, Tuple2 DEF ReturnAddress
<1>. HIDE DEF z
<1>10. /\ t \in Seq(Int) /\ Len(t) = Len(saved) + Len(z)
       /\ \A i \in 1 .. Len(saved) : t[i] = saved[i]
       /\ \A i \in 1 .. Len(z) : t[Len(saved) + i] = z[i]
  BY <1>4, <1>9, Appended
<1>. HIDE DEF t
<1>11. Len(t) = m + 11 /\ t[m + 10] = m + 9
  <2>1. 1 \in 1 .. 2 /\ (m + 9) + 1 = m + 10 /\ (m + 9) + 2 = m + 11
    BY <1>3
  <2>. QED BY <1>6, <1>9, <1>10, <2>1
<1>12. t[m + 9] = x
  <2>1. m + 9 \in 1 .. m + 9
    BY <1>3
  <2>. QED BY <1>6, <1>10, <2>1
<1>13. ASSUME NEW i \in 1 .. m + 8 PROVE t[i] = q[i]
  <2>1. i \in 1 .. m + 9
    BY <1>3
  <2>. QED BY <1>6, <1>7, <1>10, <2>1
<1>14. ASSUME NEW i \in 1 .. m PROVE t[i] = p[i]
  <2>1. i \in 1 .. m + 8
    BY <1>3
  <2>. QED BY <1>2, <1>13, <2>1
<1>15. ASSUME NEW i \in 1 .. 8 PROVE t[m + i] = r[i]
  <2>1. m + i \in 1 .. m + 8
    BY <1>3
  <2>. QED BY <1>5, <1>13, <2>1
<1>16. IsFrame(p, r, x, t)
  BY <1>10, <1>11, <1>12, <1>14, <1>15 DEF m, IsFrame
<1>. QED BY <1>16 DEF q, y, saved, z, t

(* Vectors and natural numbers are words of the stack.                     *)
LEMMA NumbersAreInt == (\A n \in Nat : n \in Int) /\ (\A n \in 0 .. 47 : n \in Int)
OBVIOUS

(* Writing a register keeps the type of the register file.                 *)
LEMMA WriteRegister ==
  ASSUME NEW f \in [GP -> Int], NEW reg, NEW w \in Int
  PROVE  [f EXCEPT ![reg] = w] \in [GP -> Int]
OBVIOUS

(* Whether or not the processor pushed an error code, the stub's own       *)
(* pushes leave one, and then the number, above the return frame.          *)
LEMMA NumberPushed ==
  ASSUME EntryInv, phase = "stub"
  PROVE  LET p == stack \o StubPushes(raised.vector)
         IN  /\ p \in Seq(Int) /\ Len(p) = raised.depth + 5
             /\ \A i \in 1 .. raised.depth + 3 : p[i] = stack[i]
             /\ p[raised.depth + 4] = raised.error_code
             /\ p[raised.depth + 5] = raised.vector
<1>. DEFINE d == raised.depth
            v == raised.vector
            w == StubPushes(v)
            p == stack \o w
<1>0. /\ d \in Nat /\ v \in 0 .. 47 /\ stack \in Seq(Int) /\ AtStub
      /\ raised.error_code \in Nat
  BY DEF EntryInv, Types
<1>1. /\ d \in Nat /\ v \in Int /\ stack \in Seq(Int)
      /\ raised.error_code \in Int
  BY <1>0, NumbersAreInt, Zenon
<1>2. CASE v \in PushesErrorCode
  <2>1. w = <<v>>
    BY <1>2 DEF StubPushes, ErrorCodeStubs, PushesErrorCode
  <2>2. w \in Seq(Int) /\ Len(w) = 1 /\ w[1] = v
    BY <1>1, <2>1, Tuple1
  <2>3. Len(stack) = d + 4 /\ stack[d + 4] = raised.error_code
    BY <1>0, <1>2 DEF AtStub
  <2>. HIDE DEF w
  <2>4. /\ p \in Seq(Int) /\ Len(p) = Len(stack) + Len(w)
        /\ \A i \in 1 .. Len(stack) : p[i] = stack[i]
        /\ \A i \in 1 .. Len(w) : p[Len(stack) + i] = w[i]
    BY <1>1, <2>2, Appended
  <2>. HIDE DEF p, d, v
  <2>5. Len(p) = d + 5 /\ p[d + 5] = v
    <3>1. 1 \in 1 .. 1 /\ (d + 4) + 1 = d + 5
      BY <1>1
    <3>. QED BY <2>2, <2>3, <2>4, <3>1
  <2>6. \A i \in 1 .. d + 4 : p[i] = stack[i]
    BY <2>3, <2>4
  <2>7. p[d + 4] = raised.error_code
    <3>1. d + 4 \in 1 .. d + 4
      BY <1>1
    <3>. QED BY <2>3, <2>6, <3>1
  <2>8. \A i \in 1 .. d + 3 : p[i] = stack[i]
    <3>1. \A i \in 1 .. d + 3 : i \in 1 .. d + 4
      BY <1>1
    <3>. QED BY <2>6, <3>1
  <2>. QED BY <2>4, <2>5, <2>7, <2>8 DEF p, w, d, v
<1>3. CASE v \notin PushesErrorCode
  <2>1. w = <<0, v>>
    BY <1>3 DEF StubPushes, ErrorCodeStubs, PushesErrorCode
  <2>2. w \in Seq(Int) /\ Len(w) = 2 /\ w[1] = 0 /\ w[2] = v
    <3>1. 0 \in Int
      OBVIOUS
    <3>. QED BY <1>1, <2>1, <3>1, Tuple2
  <2>3. Len(stack) = d + 3 /\ raised.error_code = 0
    BY <1>0, <1>3 DEF AtStub, IsPushed
  <2>. HIDE DEF w
  <2>4. /\ p \in Seq(Int) /\ Len(p) = Len(stack) + Len(w)
        /\ \A i \in 1 .. Len(stack) : p[i] = stack[i]
        /\ \A i \in 1 .. Len(w) : p[Len(stack) + i] = w[i]
    BY <1>1, <2>2, Appended
  <2>. HIDE DEF p, d, v
  <2>5. Len(p) = d + 5 /\ p[d + 4] = 0 /\ p[d + 5] = v
    <3>1. /\ 1 \in 1 .. 2 /\ 2 \in 1 .. 2
          /\ (d + 3) + 1 = d + 4 /\ (d + 3) + 2 = d + 5
      BY <1>1
    <3>. QED BY <2>2, <2>3, <2>4, <3>1
  <2>6. \A i \in 1 .. d + 3 : p[i] = stack[i]
    BY <2>3, <2>4
  <2>. QED BY <2>3, <2>4, <2>5, <2>6 DEF p, w, d, v
<1>. QED BY <1>2, <1>3

-----------------------------------------------------------------------------
(* The steps.                                                              *)

(* An interrupt or exception keeps the invariant: before the IDT is loaded *)
(* it resets the machine, afterwards it reaches the stub of its vector.    *)
LEMMA RaiseKeeps ==
  ASSUME EntryInv, NEW v \in 0 .. 47, NEW code \in Nat, phase # "reset",
         Raise(v, code)
  PROVE  EntryInv'
<1>1. /\ raised'.vector = v /\ raised'.error_code = code
      /\ raised'.cpu = cpu /\ raised'.depth = Len(stack)
      /\ v \notin PushesErrorCode => code = 0
      /\ UNCHANGED tableVars
  BY DEF Raise
<1>2. /\ cpu \in Cpu /\ stack \in Seq(Int) /\ Len(stack) \in Nat
  BY DEF EntryInv, Types
<1>3. CASE phase \in {"gdt_initialize", "idt_initialize"}
  <2>1. idt_limit = 0
    BY <1>3 DEF EntryInv, Tables
  <2>2. ~GateOpens(v)
    BY <2>1 DEF GateOpens
  <2>3. phase' = "reset" /\ UNCHANGED <<cpu, stack>>
    BY <2>2 DEF Raise
  <2>4. Types'
    BY <1>1, <1>2, <2>3 DEF Types
  <2>5. Tables' /\ AtStub' /\ InHandler'
    BY <1>1, <2>1, <2>3 DEF Tables, AtStub, InHandler, tableVars, Handling
  <2>. QED BY <2>4, <2>5 DEF EntryInv
<1>4. CASE phase \notin {"gdt_initialize", "idt_initialize"}
  <2>1. /\ GdtLoaded /\ IdtLoaded /\ KernelSegments(cpu)
    BY <1>4 DEF EntryInv, Types, Tables
  <2>2. GdtLoaded' /\ IdtLoaded'
    BY <1>1, <2>1 DEF GdtLoaded, IdtLoaded, tableVars
  <2>3. /\ GateOpens(v)
        /\ idt_entries[v].selector = 8
        /\ SegmentBase(gdt_entries[idt_entries[v].selector \div 8])
             + GateOffset(idt_entries[v]) = StubAddress[v]
        /\ Field(idt_entries[v].flags, 1, 16) = 14
    BY <2>1, GatesOpen
  <2>4. /\ phase' = "stub"
        /\ cpu' = [cpu EXCEPT !.cs = 8, !.eip = StubAddress[v],
                              !.interrupt_flag = FALSE]
        /\ stack' = stack \o <<EFlags(cpu.interrupt_flag), cpu.cs, cpu.eip>>
                      \o IF v \in PushesErrorCode THEN <<code>> ELSE <<>>
    <3>1. /\ 14 # 15
      OBVIOUS
    <3>. QED BY <2>3, <3>1 DEF Raise
  <2>5. /\ cpu' \in Cpu /\ KernelSegments(cpu')
        /\ cpu'.gp = cpu.gp /\ cpu'.eip = StubAddress[v]
    <3>1. StubAddress[v] \in Int
      BY StubTypes
    <3>. QED BY <1>2, <2>1, <2>4, <3>1 DEF Cpu, KernelSegments,
                                             GDT_KERNEL_CODE_SELECTOR
  <2>6. /\ EFlags(cpu.interrupt_flag) \in Int /\ cpu.cs \in Int
        /\ cpu.eip \in Int
    BY <1>2, CpuFields DEF EFlags
  <2>7. CASE v \in PushesErrorCode
    <3>. DEFINE t == stack \o <<EFlags(cpu.interrupt_flag), cpu.cs, cpu.eip>>
                       \o <<code>>
    <3>1. code \in Int
      OBVIOUS
    <3>2. /\ t \in Seq(Int) /\ Len(t) = Len(stack) + 4
          /\ t[Len(stack) + 1] = EFlags(cpu.interrupt_flag)
          /\ t[Len(stack) + 2] = cpu.cs
          /\ t[Len(stack) + 3] = cpu.eip
          /\ t[Len(stack) + 4] = code
      BY <1>2, <2>6, <3>1, ProcessorPushes
    <3>3. stack' = t
      BY <2>4, <2>7
    <3>. HIDE DEF t
    <3>4. AtStub'
      BY <1>1, <2>5, <2>7, <3>2, <3>3 DEF AtStub, IsPushed
    <3>5. Types' /\ Tables' /\ InHandler'
      BY <1>1, <1>2, <2>1, <2>2, <2>4, <2>5, <3>2, <3>3 DEF Types, Tables,
         InHandler, Handling
    <3>. QED BY <3>4, <3>5 DEF EntryInv
  <2>8. CASE v \notin PushesErrorCode
    <3>. DEFINE t == stack \o <<EFlags(cpu.interrupt_flag), cpu.cs, cpu.eip>>
    <3>1. /\ t \in Seq(Int) /\ Len(t) = Len(stack) + 3
          /\ t[Len(stack) + 1] = EFlags(cpu.interrupt_flag)
          /\ t[Len(stack) + 2] = cpu.cs
          /\ t[Len(stack) + 3] = cpu.eip
      BY <1>2, <2>6, ProcessorPushes
    <3>2. stack' = t \o <<>>
      BY <2>4, <2>8
    <3>. HIDE DEF t
    <3>3. stack' = t
      BY <3>1, <3>2
    <3>4. AtStub'
      BY <1>1, <2>5, <2>8, <3>1, <3>3 DEF AtStub, IsPushed
    <3>5. Types' /\ Tables' /\ InHandler'
      BY <1>1, <1>2, <2>1, <2>2, <2>4, <2>5, <3>1, <3>3 DEF Types, Tables,
         InHandler, Handling
    <3>. QED BY <3>4, <3>5 DEF EntryInv
  <2>. QED BY <2>7, <2>8
<1>. QED BY <1>3, <1>4

(* The stub whose first instruction the gate names pushes its own number,  *)
(* which is the vector, as no two stubs share an address.                  *)
LEMMA StubIsTheVectors ==
  ASSUME EntryInv, NEW number \in 0 .. 47, EnterStub(number)
  PROVE  number = raised.vector /\ phase = "stub"
<1>1. phase = "stub" /\ cpu.eip = StubAddress[number]
  BY DEF EnterStub
<1>2. raised.vector \in 0 .. 47 /\ cpu.eip = StubAddress[raised.vector]
  BY <1>1 DEF EntryInv, Types, AtStub
<1>. QED BY <1>1, <1>2, StubsAreApart

(* The selector goes to the lower half of the pushed word.                 *)
LEMMA LowHalf ==
  ASSUME NEW eax \in Int
  PROVE  eax - (eax % 65536) + 16 \in Int
         /\ (eax - (eax % 65536) + 16) % 65536 = 16
BY Z3

(* The stub keeps the invariant: it builds struct interrupt_frame.         *)
LEMMA EnterStubKeeps ==
  ASSUME EntryInv, NEW number \in 0 .. 47, EnterStub(number)
  PROVE  EntryInv'
<1>. DEFINE d == raised.depth
            p == stack \o StubPushes(raised.vector)
            r == pusha(Len(p))
            x == WithLowHalf(cpu.ds)
            saved == p \o r \o <<x>>
            t == saved \o <<Len(saved), ReturnAddress>>
<1>1. number = raised.vector /\ phase = "stub"
  BY StubIsTheVectors
<1>2. /\ d \in Nat /\ cpu \in Cpu /\ raised.cpu \in Cpu
      /\ raised.vector \in 0 .. 47 /\ raised.error_code \in Nat
  BY DEF EntryInv, Types
<1>3. /\ p \in Seq(Int) /\ Len(p) = d + 5
      /\ \A i \in 1 .. d + 3 : p[i] = stack[i]
      /\ p[d + 4] = raised.error_code
      /\ p[d + 5] = raised.vector
  BY <1>1, NumberPushed
<1>4. AtStub /\ GdtLoaded /\ IdtLoaded /\ KernelSegments(cpu)
      /\ KernelSegments(raised.cpu)
  BY <1>1 DEF EntryInv, Tables, Handling
<1>5. cpu.gp = raised.cpu.gp /\ IsPushed(stack, raised)
  BY <1>1, <1>4 DEF AtStub
<1>6. stack' = t /\ UNCHANGED tableVars /\ UNCHANGED raised
  BY <1>1 DEF EnterStub
<1>7. /\ cpu.gp["eax"] \in Int /\ cpu.gp["ecx"] \in Int /\ cpu.gp["edx"] \in Int
      /\ cpu.gp["ebx"] \in Int /\ cpu.gp["ebp"] \in Int /\ cpu.gp["esi"] \in Int
      /\ cpu.gp["edi"] \in Int
  BY <1>2, CpuFields
<1>8. x \in Int /\ x % 65536 = 16
  <2>1. cpu.ds = 16
    BY <1>4 DEF KernelSegments, GDT_KERNEL_DATA_SELECTOR
  <2>. QED BY <1>7, <2>1, LowHalf DEF WithLowHalf
<1>. HIDE DEF p, x
<1>9. /\ r \in Seq(Int) /\ Len(r) = 8
      /\ r[1] = cpu.gp["eax"] /\ r[2] = cpu.gp["ecx"] /\ r[3] = cpu.gp["edx"]
      /\ r[4] = cpu.gp["ebx"] /\ r[6] = cpu.gp["ebp"] /\ r[7] = cpu.gp["esi"]
      /\ r[8] = cpu.gp["edi"]
  <2>1. Len(p) \in Int
    BY <1>3
  <2>. QED BY <1>7, <2>1, Tuple8 DEF pusha
<1>. HIDE DEF r
<1>10. /\ t \in Seq(Int) /\ Len(t) = Len(p) + 11
       /\ \A i \in 1 .. Len(p) : t[i] = p[i]
       /\ \A i \in 1 .. 8 : t[Len(p) + i] = r[i]
       /\ t[Len(p) + 9] = x /\ t[Len(p) + 10] = Len(p) + 9
  <2>1. IsFrame(p, r, x, t)
    <3>1. p \in Seq(Int) /\ r \in Seq(Int) /\ Len(r) = 8 /\ x \in Int
      BY <1>3, <1>8, <1>9
    <3>. QED BY <3>1, FrameBuilt, Zenon
  <2>. HIDE DEF t, saved
  <2>. QED BY <2>1 DEF IsFrame
<1>. HIDE DEF t, saved
<1>11. d \in Nat
  BY <1>2
<1>. HIDE DEF d
<1>12. /\ Len(t) = d + 16 /\ t[d + 15] = d + 14 /\ t[d + 14] = x
  <2>1. /\ (d + 5) + 11 = d + 16 /\ (d + 5) + 9 = d + 14
        /\ (d + 5) + 10 = d + 15
    BY <1>11
  <2>. QED BY <1>3, <1>10, <2>1
<1>13. /\ t[d + 6] = r[1] /\ t[d + 7] = r[2] /\ t[d + 8] = r[3]
       /\ t[d + 9] = r[4] /\ t[d + 11] = r[6] /\ t[d + 12] = r[7]
       /\ t[d + 13] = r[8]
  <2>1. /\ (d + 5) + 1 = d + 6 /\ (d + 5) + 2 = d + 7 /\ (d + 5) + 3 = d + 8
        /\ (d + 5) + 4 = d + 9 /\ (d + 5) + 6 = d + 11 /\ (d + 5) + 7 = d + 12
        /\ (d + 5) + 8 = d + 13
    BY <1>11
  <2>2. /\ 1 \in 1 .. 8 /\ 2 \in 1 .. 8 /\ 3 \in 1 .. 8 /\ 4 \in 1 .. 8
        /\ 6 \in 1 .. 8 /\ 7 \in 1 .. 8 /\ 8 \in 1 .. 8
    OBVIOUS
  <2>. QED BY <1>3, <1>10, <2>1, <2>2
<1>14. /\ t[d + 1] = stack[d + 1] /\ t[d + 2] = stack[d + 2]
       /\ t[d + 3] = stack[d + 3] /\ t[d + 4] = raised.error_code
       /\ t[d + 5] = raised.vector
  <2>1. /\ d + 1 \in 1 .. d + 5 /\ d + 2 \in 1 .. d + 5 /\ d + 3 \in 1 .. d + 5
        /\ d + 4 \in 1 .. d + 5 /\ d + 5 \in 1 .. d + 5
    BY <1>11
  <2>2. d + 1 \in 1 .. d + 3 /\ d + 2 \in 1 .. d + 3 /\ d + 3 \in 1 .. d + 3
    BY <1>11
  <2>. QED BY <1>3, <1>10, <2>1, <2>2
<1>15. /\ cpu' \in Cpu /\ KernelSegments(cpu') /\ ~cpu'.interrupt_flag
  <2>. DEFINE a == WithLowHalf(16)
  <2>0. a \in Int
    BY <1>7, LowHalf DEF WithLowHalf
  <2>. HIDE DEF a
  <2>1. cpu' = [cpu EXCEPT !.interrupt_flag = FALSE, !.gp["eax"] = a,
                           !.ds = 16, !.es = 16, !.fs = 16, !.gs = 16]
    BY DEF EnterStub, GDT_KERNEL_DATA_SELECTOR, a
  <2>2. cpu'.gp = [cpu.gp EXCEPT !["eax"] = a]
    BY <1>2, <2>1 DEF Cpu
  <2>3. cpu'.gp \in [GP -> Int]
    <3>1. cpu.gp \in [GP -> Int]
      BY <1>2 DEF Cpu
    <3>. QED BY <2>0, <2>2, <3>1, WriteRegister
  <2>. QED BY <1>2, <1>4, <2>1, <2>3 DEF Cpu, KernelSegments,
              GDT_KERNEL_DATA_SELECTOR, GDT_KERNEL_CODE_SELECTOR
<1>16. /\ phase' \in {"isr_handler", "irq_handler"}
       /\ (phase' = "isr_handler") <=> (raised.vector < 32)
  BY <1>1 DEF EnterStub
<1>17. raised.cpu.ds = 16
  BY <1>4 DEF KernelSegments, GDT_KERNEL_DATA_SELECTOR
<1>18. IsPushed(stack', raised')
  BY <1>5, <1>6, <1>14 DEF IsPushed, d
<1>19. InHandler'
  <2>1. IsStubFrame(stack', raised')
    BY <1>5, <1>6, <1>8, <1>9, <1>12, <1>13, <1>14, <1>17, <1>18
       DEF IsStubFrame, d
  <2>2. raised'.vector = raised.vector
    BY <1>6
  <2>. QED BY <1>15, <1>16, <2>1, <2>2 DEF InHandler
<1>20. Types'
  BY <1>2, <1>6, <1>10, <1>15, <1>16 DEF Types, Handling, d
<1>21. Tables' /\ AtStub'
  BY <1>4, <1>6, <1>15, <1>16 DEF Tables, AtStub, GdtLoaded, IdtLoaded,
                                   tableVars, Handling, KernelSegments
<1>. QED BY <1>19, <1>20, <1>21 DEF EntryInv

(* The handler of an exception only turns interrupts off and halts.        *)
LEMMA IsrHandlerKeeps ==
  ASSUME EntryInv, isr_handler
  PROVE  EntryInv'
<1>1. /\ phase = "isr_handler" /\ phase' = "halted"
      /\ cpu' = [cpu EXCEPT !.interrupt_flag = FALSE]
      /\ UNCHANGED tableVars /\ UNCHANGED stack /\ UNCHANGED raised
  BY DEF isr_handler
<1>2. Types /\ GdtLoaded /\ IdtLoaded /\ KernelSegments(cpu)
  BY <1>1 DEF EntryInv, Tables, Handling
<1>3. cpu' \in Cpu /\ KernelSegments(cpu')
  BY <1>1, <1>2 DEF Types, Cpu, KernelSegments
<1>4. Types'
  BY <1>1, <1>2, <1>3 DEF Types
<1>5. GdtLoaded' /\ IdtLoaded'
  BY <1>1, <1>2 DEF GdtLoaded, IdtLoaded, tableVars
<1>. QED BY <1>1, <1>3, <1>4, <1>5 DEF EntryInv, Tables, AtStub, InHandler,
                                       Handling

(* The handler of a request may spoil registers, and never the frame.      *)
LEMMA IrqHandlerKeeps ==
  ASSUME EntryInv, irq_handler
  PROVE  EntryInv'
<1>1. /\ phase = "irq_handler" /\ phase' \in {"return", "halted"}
      /\ UNCHANGED tableVars /\ UNCHANGED stack /\ UNCHANGED raised
  BY DEF irq_handler
<1>2. Types /\ GdtLoaded /\ IdtLoaded /\ KernelSegments(cpu)
      /\ KernelSegments(raised.cpu) /\ InHandler
  BY <1>1 DEF EntryInv, Tables, Handling
<1>3. \/ UNCHANGED cpu
      \/ cpu' = [cpu EXCEPT !.gp["eax"] = -1, !.gp["ecx"] = -1,
                            !.gp["edx"] = -1]
  BY DEF irq_handler, Spoilt
<1>4. cpu \in Cpu
  BY <1>2 DEF Types
<1>5. /\ cpu' \in Cpu /\ KernelSegments(cpu')
      /\ cpu'.interrupt_flag = cpu.interrupt_flag
  <2>1. CASE UNCHANGED cpu
    BY <1>2, <1>4, <2>1 DEF KernelSegments
  <2>2. CASE cpu' = [cpu EXCEPT !.gp["eax"] = -1, !.gp["ecx"] = -1,
                                !.gp["edx"] = -1]
    <3>. DEFINE a == [cpu.gp EXCEPT !["eax"] = -1]
                b == [a EXCEPT !["ecx"] = -1]
                c == [b EXCEPT !["edx"] = -1]
    <3>1. cpu.gp \in [GP -> Int] /\ -1 \in Int
      BY <1>4 DEF Cpu
    <3>2. a \in [GP -> Int]
      BY <3>1, WriteRegister
    <3>3. b \in [GP -> Int]
      BY <3>1, <3>2, WriteRegister
    <3>4. c \in [GP -> Int]
      BY <3>1, <3>3, WriteRegister
    <3>5. cpu' = [cpu EXCEPT !.gp = c]
      BY <1>4, <2>2 DEF Cpu
    <3>. HIDE DEF a, b, c
    <3>. QED BY <1>2, <1>4, <3>4, <3>5 DEF Cpu, KernelSegments
  <2>. QED BY <1>3, <2>1, <2>2
<1>6. Types'
  BY <1>1, <1>2, <1>5 DEF Types, Handling
<1>7. Tables' /\ AtStub'
  BY <1>1, <1>2, <1>5 DEF Tables, AtStub, GdtLoaded, IdtLoaded, tableVars,
                          Handling, KernelSegments
<1>8. IsStubFrame(stack, raised) /\ ~(raised.vector < 32) /\ ~cpu.interrupt_flag
  BY <1>1, <1>2 DEF InHandler
<1>9. InHandler'
  <2>1. IsStubFrame(stack', raised')
    BY <1>1, <1>8, Zenon
  <2>2. ~cpu'.interrupt_flag
    BY <1>5, <1>8, Zenon
  <2>3. ~(raised'.vector < 32) /\ phase' # "isr_handler"
    BY <1>1, <1>8, Zenon
  <2>. QED BY <2>1, <2>2, <2>3, Zenon DEF InHandler
<1>. QED BY <1>6, <1>7, <1>9 DEF EntryInv

(* A machine is made of its registers.                                     *)
LEMMA SameCpu ==
  ASSUME NEW c \in Cpu
  PROVE  c = [gp |-> c.gp, ds |-> c.ds, es |-> c.es, fs |-> c.fs,
              gs |-> c.gs, ss |-> c.ss, eip |-> c.eip, cs |-> c.cs,
              interrupt_flag |-> c.interrupt_flag]
BY DEF Cpu

(* The words of the frame, counted from the saved DS downwards.            *)
FrameWords(s, r) ==
  LET word(n) == s[Len(s) - 2 - n]
  IN  /\ word(0) % 65536 = r.cpu.ds
      /\ word(1) = r.cpu.gp["edi"] /\ word(2) = r.cpu.gp["esi"]
      /\ word(3) = r.cpu.gp["ebp"] /\ word(5) = r.cpu.gp["ebx"]
      /\ word(6) = r.cpu.gp["edx"] /\ word(7) = r.cpu.gp["ecx"]
      /\ word(8) = r.cpu.gp["eax"]
      /\ word(11) = r.cpu.eip /\ word(12) = r.cpu.cs
      /\ word(13) = EFlags(r.cpu.interrupt_flag)

(* Where the way out of the stub finds the words of the frame.             *)
LEMMA StubFrameWords ==
  ASSUME NEW s, NEW r, r.depth \in Nat, IsStubFrame(s, r)
  PROVE  FrameWords(s, r) /\ Len(s) - 2 - 14 = r.depth
<1>. DEFINE d == r.depth
            n == Len(s)
<1>1. d \in Nat /\ n = d + 16
  BY DEF IsStubFrame
<1>. HIDE DEF d, n
<1>2. /\ n - 2 - 0 = d + 14 /\ n - 2 - 1 = d + 13 /\ n - 2 - 2 = d + 12
      /\ n - 2 - 3 = d + 11 /\ n - 2 - 5 = d + 9 /\ n - 2 - 6 = d + 8
      /\ n - 2 - 7 = d + 7 /\ n - 2 - 8 = d + 6 /\ n - 2 - 11 = d + 3
      /\ n - 2 - 12 = d + 2 /\ n - 2 - 13 = d + 1 /\ n - 2 - 14 = d
  BY <1>1
<1>3. /\ s[n - 2 - 0] = s[d + 14] /\ s[n - 2 - 1] = s[d + 13]
      /\ s[n - 2 - 2] = s[d + 12] /\ s[n - 2 - 3] = s[d + 11]
      /\ s[n - 2 - 5] = s[d + 9] /\ s[n - 2 - 6] = s[d + 8]
      /\ s[n - 2 - 7] = s[d + 7] /\ s[n - 2 - 8] = s[d + 6]
      /\ s[n - 2 - 11] = s[d + 3] /\ s[n - 2 - 12] = s[d + 2]
      /\ s[n - 2 - 13] = s[d + 1]
  BY <1>2
<1>4. s[n - 2 - 0] % 65536 = r.cpu.ds
  BY <1>3 DEF IsStubFrame, d
<1>5. s[n - 2 - 1] = r.cpu.gp["edi"] /\ s[n - 2 - 2] = r.cpu.gp["esi"]
  BY <1>3 DEF IsStubFrame, d
<1>6. /\ s[n - 2 - 3] = r.cpu.gp["ebp"] /\ s[n - 2 - 5] = r.cpu.gp["ebx"]
      /\ s[n - 2 - 6] = r.cpu.gp["edx"] 
  BY <1>3 DEF IsStubFrame, d
<1>7. /\ s[n - 2 - 7] = r.cpu.gp["ecx"]
      /\ s[n - 2 - 8] = r.cpu.gp["eax"]
  BY <1>3 DEF IsStubFrame, d
<1>8. /\ s[n - 2 - 11] = r.cpu.eip /\ s[n - 2 - 12] = r.cpu.cs
      /\ s[n - 2 - 13] = EFlags(r.cpu.interrupt_flag)
  BY <1>3 DEF IsStubFrame, IsPushed, d
<1>. QED BY <1>2, <1>4, <1>5, <1>6, <1>7, <1>8 DEF n, d, FrameWords

(* What remains when the frame is popped.                                  *)
LEMMA Prefix ==
  ASSUME NEW s \in Seq(Int), NEW d \in Nat, Len(s) = d + 16
  PROVE  SubSeq(s, 1, d) \in Seq(Int) /\ Len(SubSeq(s, 1, d)) = d
OBVIOUS

(* The way out of the stub finds every word where the way in left it.      *)
LEMMA LeaveRestores ==
  ASSUME EntryInv, LeaveStub
  PROVE  /\ cpu' = raised.cpu
         /\ stack' \in Seq(Int) /\ Len(stack') = raised.depth
<1>. DEFINE d == raised.depth
            c == raised.cpu
            word(n) == stack[Len(stack) - 2 - n]
<1>1. phase = "return"
  BY DEF LeaveStub
<1>2. /\ d \in Nat /\ c \in Cpu /\ stack \in Seq(Int) /\ cpu \in Cpu
  BY DEF EntryInv, Types
<1>3. /\ IsStubFrame(stack, raised) /\ KernelSegments(c)
      /\ KernelSegments(cpu)
  BY <1>1 DEF EntryInv, Tables, InHandler, Handling
<1>4. Len(stack) = d + 16
  BY <1>3 DEF IsStubFrame
<1>5. /\ cpu' = [gp |-> [r \in GP |-> word(popa[r])],
                 ds |-> word(0) % 65536, es |-> word(0) % 65536,
                 fs |-> word(0) % 65536, gs |-> word(0) % 65536,
                 ss |-> cpu.ss,
                 eip |-> word(11), cs |-> word(12),
                 interrupt_flag |-> word(13) = EFlags(TRUE)]
      /\ stack' = SubSeq(stack, 1, Len(stack) - 2 - 14)
  <2>1. 9 + 2 = 11 /\ 9 + 2 + 1 = 12 /\ 9 + 2 + 2 = 13 /\ 9 + 2 + 3 = 14
    OBVIOUS
  <2>. QED BY <2>1 DEF LeaveStub, DroppedWords
<1>6. /\ word(0) % 65536 = c.ds
      /\ word(1) = c.gp["edi"] /\ word(2) = c.gp["esi"]
      /\ word(3) = c.gp["ebp"] /\ word(5) = c.gp["ebx"]
      /\ word(6) = c.gp["edx"] /\ word(7) = c.gp["ecx"]
      /\ word(8) = c.gp["eax"]
      /\ word(11) = c.eip /\ word(12) = c.cs
      /\ word(13) = EFlags(c.interrupt_flag)
  <2>1. FrameWords(stack, raised)
    BY <1>2, <1>3, StubFrameWords, Zenon
  <2>. QED BY <2>1 DEF FrameWords
<1>7. Len(stack) - 2 - 14 = d
  BY <1>2, <1>3, StubFrameWords, Zenon
<1>8. stack' = SubSeq(stack, 1, d)
  <2>. DEFINE n == Len(stack) - 2 - 14
  <2>1. stack' = SubSeq(stack, 1, n)
    BY <1>5
  <2>2. n = d
    BY <1>7
  <2>. HIDE DEF n, d
  <2>. QED BY <2>1, <2>2
<1>. HIDE DEF word, d, c
<1>9. stack' \in Seq(Int) /\ Len(stack') = d
  BY <1>2, <1>4, <1>8, Prefix, Zenon
<1>10. \A r \in GP : word(popa[r]) = c.gp[r]
  BY <1>6 DEF popa, GP
<1>11. [r \in GP |-> word(popa[r])] = c.gp
  BY <1>2, <1>10 DEF Cpu
<1>12. (word(13) = EFlags(TRUE)) = c.interrupt_flag
  <2>1. c.interrupt_flag \in BOOLEAN
    BY <1>2, CpuFields
  <2>2. word(13) = EFlags(c.interrupt_flag)
    BY <1>6
  <2>. QED BY <2>1, <2>2 DEF EFlags
<1>13. /\ c.es = c.ds /\ c.fs = c.ds /\ c.gs = c.ds /\ cpu.ss = c.ss
  BY <1>3, Zenon DEF KernelSegments
<1>14. /\ word(0) % 65536 = c.ds /\ word(0) % 65536 = c.es
       /\ word(0) % 65536 = c.fs /\ word(0) % 65536 = c.gs
  BY <1>6, <1>13
<1>15. word(11) = c.eip /\ word(12) = c.cs
  BY <1>6
<1>16. cpu' = [gp |-> c.gp, ds |-> c.ds, es |-> c.es, fs |-> c.fs,
               gs |-> c.gs, ss |-> c.ss, eip |-> c.eip, cs |-> c.cs,
               interrupt_flag |-> c.interrupt_flag]
  <2>. DEFINE sel == word(0) % 65536
  <2>1. sel = c.ds /\ sel = c.es /\ sel = c.fs /\ sel = c.gs
    BY <1>14
  <2>. DEFINE regs == [r \in GP |-> word(popa[r])]
              flag == word(13) = EFlags(TRUE)
  <2>2. regs = c.gp /\ flag = c.interrupt_flag
    BY <1>11, <1>12
  <2>3. cpu' = [gp |-> regs, ds |-> sel, es |-> sel, fs |-> sel, gs |-> sel,
                ss |-> cpu.ss, eip |-> word(11), cs |-> word(12),
                interrupt_flag |-> flag]
    BY <1>5
  <2>. HIDE DEF sel, regs, flag
  <2>. QED BY <1>13, <1>15, <2>1, <2>2, <2>3
<1>17. cpu' = c
  BY <1>2, <1>16, SameCpu
<1>. QED BY <1>9, <1>17 DEF d, c

(* The way out gives the machine back, so the invariant holds as it did.   *)
LEMMA LeaveStubKeeps ==
  ASSUME EntryInv, LeaveStub
  PROVE  EntryInv'
<1>1. /\ phase = "return" /\ phase' = "running"
      /\ UNCHANGED tableVars /\ UNCHANGED raised
  BY DEF LeaveStub
<1>2. Types /\ GdtLoaded /\ IdtLoaded /\ KernelSegments(raised.cpu)
  BY <1>1 DEF EntryInv, Tables, Handling
<1>3. cpu' = raised.cpu /\ stack' \in Seq(Int)
  BY LeaveRestores
<1>4. GdtLoaded' /\ IdtLoaded'
  BY <1>1, <1>2 DEF GdtLoaded, IdtLoaded, tableVars
<1>5. Types'
  BY <1>1, <1>2, <1>3 DEF Types
<1>. QED BY <1>1, <1>2, <1>3, <1>4, <1>5 DEF EntryInv, Tables, AtStub,
                                             InHandler, Handling

(* The foreground moves on, with the flag on or off.                       *)
LEMMA ForegroundKeeps ==
  ASSUME EntryInv, NEW eip \in CodeAddresses, NEW enabled \in BOOLEAN,
         Foreground(eip, enabled)
  PROVE  EntryInv'
<1>1. /\ phase = "running" /\ phase' = "running"
      /\ cpu' = [cpu EXCEPT !.eip = eip, !.interrupt_flag = enabled]
      /\ UNCHANGED tableVars /\ UNCHANGED stack /\ UNCHANGED raised
  BY DEF Foreground
<1>2. Types /\ GdtLoaded /\ IdtLoaded /\ KernelSegments(cpu)
  BY <1>1 DEF EntryInv, Tables
<1>3. eip \in Int
  BY BootTypes, NumbersAreInt
<1>4. cpu' \in Cpu /\ KernelSegments(cpu')
  BY <1>1, <1>2, <1>3 DEF Types, Cpu, KernelSegments
<1>5. GdtLoaded' /\ IdtLoaded'
  BY <1>1, <1>2 DEF GdtLoaded, IdtLoaded, tableVars
<1>6. Types'
  BY <1>1, <1>2, <1>4 DEF Types
<1>. QED BY <1>1, <1>4, <1>5, <1>6 DEF EntryInv, Tables, AtStub, InHandler,
                                       Handling

(* gdt_initialize loads the kernel's descriptors and its segments.         *)
LEMMA GdtKeeps ==
  ASSUME EntryInv, gdt_initialize
  PROVE  EntryInv'
<1>1. /\ phase = "gdt_initialize" /\ phase' = "idt_initialize"
      /\ gdt_limit' = 3 * 8 - 1
      /\ UNCHANGED idt_limit /\ UNCHANGED stack /\ UNCHANGED raised
  BY DEF gdt_initialize, GDT_ENTRY_COUNT
<1>2. Types /\ idt_limit = 0
  BY <1>1 DEF EntryInv, Tables
<1>3. gdt_entries'[1] = gdt_set_entry(0, GDT_FLAT_LIMIT,
                          GDT_ACCESS_KERNEL_CODE, GDT_GRANULARITY_4K_32BIT)
  <2>. DEFINE code == gdt_set_entry(0, GDT_FLAT_LIMIT, GDT_ACCESS_KERNEL_CODE,
                                    GDT_GRANULARITY_4K_32BIT)
              data == gdt_set_entry(0, GDT_FLAT_LIMIT, GDT_ACCESS_KERNEL_DATA,
                                    GDT_GRANULARITY_4K_32BIT)
              none == gdt_set_entry(0, 0, 0, 0)
  <2>. HIDE DEF code, data, none
  <2>1. gdt_entries' = [index \in 0 .. 3 - 1 |->
                          CASE index = 1 -> code [] index = 2 -> data
                            [] OTHER -> none]
    BY DEF gdt_initialize, GDT_ENTRY_COUNT, GDT_KERNEL_CODE_INDEX,
           GDT_KERNEL_DATA_INDEX, code, data, none
  <2>2. 1 \in 0 .. 3 - 1
    OBVIOUS
  <2>3. gdt_entries'[1] = code
    BY <2>1, <2>2
  <2>. QED BY <2>3 DEF code
<1>4. GdtLoaded'
  BY <1>1, <1>3 DEF GdtLoaded
<1>5. cpu' = [cpu EXCEPT !.ds = 16, !.es = 16, !.fs = 16, !.gs = 16, !.ss = 16,
                         !.cs = 8]
  BY DEF gdt_initialize, gdt_flush, GDT_KERNEL_DATA_SELECTOR,
         GDT_KERNEL_CODE_SELECTOR
<1>6. cpu' \in Cpu /\ KernelSegments(cpu')
  BY <1>2, <1>5 DEF Types, Cpu, KernelSegments, GDT_KERNEL_DATA_SELECTOR,
                    GDT_KERNEL_CODE_SELECTOR
<1>7. Types'
  BY <1>1, <1>2, <1>6 DEF Types
<1>. QED BY <1>1, <1>2, <1>4, <1>6, <1>7 DEF EntryInv, Tables, AtStub,
                                             InHandler, Handling

(* idt_initialize gives every stub its gate.                               *)
LEMMA IdtKeeps ==
  ASSUME EntryInv, idt_initialize
  PROVE  EntryInv'
<1>1. /\ phase = "idt_initialize" /\ phase' = "running"
      /\ idt_limit' = IDT_ENTRY_COUNT * 8 - 1
      /\ UNCHANGED <<gdt_entries, gdt_limit, cpu, stack, raised>>
  BY DEF idt_initialize
<1>2. Types /\ GdtLoaded /\ KernelSegments(cpu)
  BY <1>1 DEF EntryInv, Tables
<1>3. ASSUME NEW v \in 0 .. 47
      PROVE  idt_entries'[v] = idt_set_gate(StubAddress[v],
               IDT_KERNEL_CODE_SELECTOR, IDT_INTERRUPT_GATE_RING0)
  <2>1. v \in 0 .. IDT_ENTRY_COUNT - 1
    BY TableSize
  <2>2. v \in DOMAIN StubAddress
    BY StubDomain
  <2>. QED BY <2>1, <2>2 DEF idt_initialize
<1>4. IdtLoaded'
  BY <1>1, <1>3 DEF IdtLoaded
<1>5. GdtLoaded' /\ KernelSegments(cpu')
  BY <1>1, <1>2 DEF GdtLoaded, KernelSegments
<1>6. Types'
  BY <1>1, <1>2 DEF Types
<1>. QED BY <1>1, <1>4, <1>5, <1>6 DEF EntryInv, Tables, AtStub, InHandler,
                                       Handling

-----------------------------------------------------------------------------
(* The theorems.                                                           *)

(* The boot loader's machine satisfies the invariant.                      *)
LEMMA InitEstablishesEntryInv == EntryInit => EntryInv
<1>. SUFFICES ASSUME EntryInit PROVE EntryInv
  OBVIOUS
<1>1. /\ phase = "gdt_initialize" /\ idt_limit = 0 /\ stack = <<>>
      /\ raised.cpu = cpu /\ raised.vector = 0 /\ raised.error_code = 0
      /\ raised.depth = 0
  <2>1. phase = "gdt_initialize" /\ idt_limit = 0 /\ stack = <<>>
    BY Zenon DEF EntryInit
  <2>2. raised = [vector |-> 0, error_code |-> 0, cpu |-> cpu, depth |-> 0,
                  level |-> 0]
    BY Zenon DEF EntryInit
  <2>. QED BY <2>1, <2>2
<1>2. cpu \in Cpu
  <2>. DEFINE b == BootSegments.data
              regs == BootRegisters
  <2>1. regs \in [GP -> Int]
    BY BootTypes
  <2>2. cpu = [gp |-> regs, ds |-> b, es |-> b, fs |-> b, gs |-> b, ss |-> b,
               cs |-> BootSegments.code, eip |-> 0, interrupt_flag |-> FALSE]
    BY DEF EntryInit
  <2>3. b \in Nat /\ BootSegments.code \in Nat /\ 0 \in Int
    BY BootTypes
  <2>. QED BY <2>1, <2>2, <2>3 DEF Cpu
<1>3. stack \in Seq(Int)
  BY <1>1
<1>4. Types
  BY <1>1, <1>2, <1>3 DEF Types
<1>. QED BY <1>1, <1>4 DEF EntryInv, Tables, AtStub, InHandler, Handling

(* Every step of the processor, the stubs and the handlers keeps it.       *)
LEMMA StepKeepsEntryInv == EntryInv /\ [EntryNext]_vars => EntryInv'
<1>. SUFFICES ASSUME EntryInv, [EntryNext]_vars PROVE EntryInv'
  OBVIOUS
<1>1. CASE gdt_initialize
  BY <1>1, GdtKeeps
<1>2. CASE idt_initialize
  BY <1>2, IdtKeeps
<1>3. ASSUME NEW eip \in CodeAddresses, NEW enabled \in BOOLEAN,
             Foreground(eip, enabled)
      PROVE  EntryInv'
  BY <1>3, ForegroundKeeps
<1>4. ASSUME NEW vector \in 0 .. 31, NEW error_code \in ErrorCodes,
             Exception(vector, error_code)
      PROVE  EntryInv'
  <2>1. vector \in 0 .. 47 /\ error_code \in Nat
    BY BootTypes
  <2>2. phase # "reset" /\ Raise(vector, error_code)
    BY <1>4 DEF Exception
  <2>. QED BY <2>1, <2>2, RaiseKeeps
<1>5. ASSUME NEW vector \in 32 .. 47, HardwareInterrupt(vector)
      PROVE  EntryInv'
  <2>1. vector \in 0 .. 47 /\ 0 \in Nat
    OBVIOUS
  <2>2. phase # "reset" /\ Raise(vector, 0)
    BY <1>5 DEF HardwareInterrupt
  <2>. QED BY <2>1, <2>2, RaiseKeeps
<1>6. ASSUME NEW number \in 0 .. 47, EnterStub(number)
      PROVE  EntryInv'
  BY <1>6, EnterStubKeeps
<1>7. CASE isr_handler
  BY <1>7, IsrHandlerKeeps
<1>8. CASE irq_handler
  BY <1>8, IrqHandlerKeeps
<1>9. CASE LeaveStub
  BY <1>9, LeaveStubKeeps
<1>10. CASE UNCHANGED vars
  <2>1. /\ UNCHANGED tableVars /\ UNCHANGED cpu /\ UNCHANGED stack
        /\ UNCHANGED phase /\ UNCHANGED raised
    BY <1>10 DEF vars, tableVars
  <2>. QED BY <2>1 DEF EntryInv, Types, Tables, AtStub, InHandler, GdtLoaded,
                       IdtLoaded, tableVars
<1>. QED BY <1>1, <1>2, <1>3, <1>4, <1>5, <1>6, <1>7, <1>8, <1>9, <1>10
         DEF EntryNext

(* What C reads through the frame pointer the stub passes.                 *)
LEMMA FrameIsRead ==
  ASSUME NEW s, NEW r, r.depth \in Nat, IsStubFrame(s, r)
  PROVE  LET field(n) == s[s[Len(s) - 1] - n]
         IN  /\ field(9) = r.vector /\ field(10) = r.error_code
             /\ field(11) = r.cpu.eip /\ field(12) = r.cpu.cs
             /\ field(13) = EFlags(r.cpu.interrupt_flag)
             /\ field(1) = r.cpu.gp["edi"] /\ field(2) = r.cpu.gp["esi"]
             /\ field(3) = r.cpu.gp["ebp"] /\ field(5) = r.cpu.gp["ebx"]
             /\ field(6) = r.cpu.gp["edx"] /\ field(7) = r.cpu.gp["ecx"]
             /\ field(8) = r.cpu.gp["eax"]
<1>. DEFINE d == r.depth
            n == s[Len(s) - 1]
<1>1. d \in Nat /\ Len(s) = d + 16 /\ s[d + 15] = d + 14
  BY DEF IsStubFrame
<1>. HIDE DEF d
<1>2. Len(s) - 1 = d + 15
  BY <1>1
<1>3. n = d + 14
  BY <1>1, <1>2
<1>. HIDE DEF n
<1>4. /\ n - 1 = d + 13 /\ n - 2 = d + 12 /\ n - 3 = d + 11 /\ n - 5 = d + 9
      /\ n - 6 = d + 8 /\ n - 7 = d + 7 /\ n - 8 = d + 6 /\ n - 9 = d + 5
      /\ n - 10 = d + 4 /\ n - 11 = d + 3 /\ n - 12 = d + 2 /\ n - 13 = d + 1
  BY <1>1, <1>3
<1>5. /\ s[n - 1] = s[d + 13] /\ s[n - 2] = s[d + 12] /\ s[n - 3] = s[d + 11]
      /\ s[n - 5] = s[d + 9] /\ s[n - 6] = s[d + 8] /\ s[n - 7] = s[d + 7]
      /\ s[n - 8] = s[d + 6] /\ s[n - 9] = s[d + 5] /\ s[n - 10] = s[d + 4]
      /\ s[n - 11] = s[d + 3] /\ s[n - 12] = s[d + 2] /\ s[n - 13] = s[d + 1]
  BY <1>4
<1>6. /\ s[n - 9] = r.vector /\ s[n - 10] = r.error_code
  BY <1>5 DEF IsStubFrame, d
<1>7. /\ s[n - 11] = r.cpu.eip /\ s[n - 12] = r.cpu.cs
      /\ s[n - 13] = EFlags(r.cpu.interrupt_flag)
  BY <1>5 DEF IsStubFrame, IsPushed, d
<1>8. /\ s[n - 1] = r.cpu.gp["edi"] /\ s[n - 2] = r.cpu.gp["esi"]
      /\ s[n - 3] = r.cpu.gp["ebp"] /\ s[n - 5] = r.cpu.gp["ebx"]
  BY <1>5 DEF IsStubFrame, d
<1>9. /\ s[n - 6] = r.cpu.gp["edx"] /\ s[n - 7] = r.cpu.gp["ecx"]
      /\ s[n - 8] = r.cpu.gp["eax"]
  BY <1>5 DEF IsStubFrame, d
<1>. QED BY <1>6, <1>7, <1>8, <1>9 DEF n

(* The invariant implies that the handler finds its own interrupt.         *)
LEMMA EntryInvShowsInterrupt == EntryInv => HandlerSeesItsInterrupt
<1>. SUFFICES ASSUME EntryInv PROVE HandlerSeesItsInterrupt
  OBVIOUS
<1>1. phase = "reset" => idt_limit = 0
  BY DEF EntryInv, Tables
<1>2. ASSUME phase \in {"isr_handler", "irq_handler"}
      PROVE  /\ frame("interrupt_number") = raised.vector
             /\ frame("error_code") = raised.error_code
             /\ frame("eip") = raised.cpu.eip /\ frame("cs") = raised.cpu.cs
             /\ frame("eflags") = EFlags(raised.cpu.interrupt_flag)
             /\ \A r \in GP : frame(r) = raised.cpu.gp[r]
             /\ (phase = "isr_handler") <=> (raised.vector < 32)
             /\ {cpu.ds, cpu.es, cpu.fs, cpu.gs} = {GDT_KERNEL_DATA_SELECTOR}
             /\ ~cpu.interrupt_flag
  <2>. DEFINE field(n) == stack[stack[Len(stack) - 1] - n]
  <2>1. /\ raised.depth \in Nat /\ IsStubFrame(stack, raised)
        /\ KernelSegments(cpu) /\ ~cpu.interrupt_flag
        /\ (phase = "isr_handler") <=> (raised.vector < 32)
    BY <1>2 DEF EntryInv, Types, Tables, InHandler, Handling
  <2>2. /\ field(9) = raised.vector /\ field(10) = raised.error_code
        /\ field(11) = raised.cpu.eip /\ field(12) = raised.cpu.cs
        /\ field(13) = EFlags(raised.cpu.interrupt_flag)
        /\ field(1) = raised.cpu.gp["edi"] /\ field(2) = raised.cpu.gp["esi"]
        /\ field(3) = raised.cpu.gp["ebp"] /\ field(5) = raised.cpu.gp["ebx"]
        /\ field(6) = raised.cpu.gp["edx"] /\ field(7) = raised.cpu.gp["ecx"]
        /\ field(8) = raised.cpu.gp["eax"]
    BY <2>1, FrameIsRead, Zenon
  <2>3. \A f : frame(f) = field(interrupt_frame[f])
    BY DEF frame
  <2>. HIDE DEF field
  <2>4. /\ frame("interrupt_number") = field(9) /\ frame("error_code") = field(10)
        /\ frame("eip") = field(11) /\ frame("cs") = field(12)
        /\ frame("eflags") = field(13)
    BY <2>3 DEF interrupt_frame
  <2>5. /\ frame("edi") = field(1) /\ frame("esi") = field(2)
        /\ frame("ebp") = field(3) /\ frame("ebx") = field(5)
        /\ frame("edx") = field(6) /\ frame("ecx") = field(7)
        /\ frame("eax") = field(8)
    BY <2>3 DEF interrupt_frame
  <2>6. \A r \in GP : frame(r) = raised.cpu.gp[r]
    BY <2>2, <2>5 DEF GP
  <2>7. {cpu.ds, cpu.es, cpu.fs, cpu.gs} = {GDT_KERNEL_DATA_SELECTOR}
    BY <2>1 DEF KernelSegments
  <2>. QED BY <2>1, <2>2, <2>4, <2>6, <2>7
<1>. QED BY <1>1, <1>2 DEF HandlerSeesItsInterrupt

(* The words on the stack are those of the interrupt being handled, and    *)
(* the tables are those that gdt.c and idt.c write, in every state.        *)
THEOREM EntryInvariant == EntrySpec => []EntryInv
<1>. QED BY InitEstablishesEntryInv, StepKeepsEntryInv, PTL DEF EntrySpec

(* After idt_initialize every interrupt reaches the stub of its vector and *)
(* the handler reads that vector, its error code and the interrupted       *)
(* registers through struct interrupt_frame, whatever the addresses of the *)
(* stubs, the registers and the nesting.                                   *)
THEOREM EntryHandlerSeesItsInterrupt == EntrySpec => []HandlerSeesItsInterrupt
<1>. QED BY EntryInvariant, EntryInvShowsInterrupt, PTL

(* The return from a hardware interrupt gives the interrupted code back    *)
(* its registers, its segments, its flag and its stack.                    *)
THEOREM EntryContextIsRestored == EntrySpec => ContextIsRestored
<1>1. EntryInv /\ [EntryNext]_vars =>
        [phase = "return" /\ phase' = "running" =>
           cpu' = raised.cpu /\ Len(stack') = raised.depth]_vars
  <2>. SUFFICES ASSUME EntryInv, EntryNext, phase = "return",
                       phase' = "running"
                PROVE  cpu' = raised.cpu /\ Len(stack') = raised.depth
    OBVIOUS
  <2>1. LeaveStub
    BY DEF EntryNext, gdt_initialize, idt_initialize, Foreground, Exception,
           HardwareInterrupt, Raise, EnterStub, isr_handler, irq_handler
  <2>. QED BY <2>1, LeaveRestores
<1>. QED BY <1>1, EntryInvariant, PTL DEF EntrySpec, ContextIsRestored

-----------------------------------------------------------------------------
(* The report of an exception.                                             *)

ReportOf(r) ==
  [vector |-> kformat_uint32_decimal(r.vector, 11),
   error_code |-> kformat_uint32_hex(r.error_code, 11)]

(* An error code has 32 bits, and the report of a halted processor is of   *)
(* the last interrupt.                                                     *)
ReportInv ==
  /\ IsWord(raised.error_code)
  /\ phase = "halted" => raised.vector < 32 /\ report = ReportOf(raised)

(* What Raise notes has 32 bits.                                           *)
LEMMA RaiseKeepsReport ==
  ASSUME NEW vector, NEW error_code, IsWord(error_code),
         Raise(vector, error_code)
  PROVE  ReportInv'
<1>1. raised'.error_code = error_code
  BY DEF Raise
<1>2. phase' # "halted"
  BY DEF Raise
<1>. QED BY <1>1, <1>2 DEF ReportInv

(* The report is about the frame's interrupt, which is the one raised.     *)
LEMMA HandlerReports ==
  ASSUME EntryInv, ReportInv, isr_handler PROVE ReportInv'
<1>1. phase = "isr_handler" /\ raised' = raised
  BY DEF isr_handler
<1>2. /\ frame("interrupt_number") = raised.vector /\ raised.vector < 32
      /\ frame("error_code") = raised.error_code
  BY <1>1, EntryInvShowsInterrupt DEF HandlerSeesItsInterrupt
<1>3. report' = [vector |-> kformat_uint32_decimal(frame("interrupt_number"), 11),
                 error_code |-> kformat_uint32_hex(frame("error_code"), 11)]
  BY DEF isr_handler
<1>4. report' = ReportOf(raised)
  BY <1>2, <1>3, Zenon DEF ReportOf
<1>. QED BY <1>1, <1>2, <1>4 DEF ReportInv

(* irq_handler finds one of its own vectors and does not panic.            *)
LEMMA RequestReturns ==
  ASSUME EntryInv, irq_handler PROVE phase' # "halted"
<1>1. phase = "irq_handler"
  BY DEF irq_handler
<1>2. /\ frame("interrupt_number") = raised.vector /\ ~(raised.vector < 32)
  BY <1>1, EntryInvShowsInterrupt DEF HandlerSeesItsInterrupt
<1>3. raised.vector \in 0 .. 47
  BY DEF EntryInv, Types
<1>4. frame("interrupt_number") \in 32 .. 47
  BY <1>2, <1>3
<1>. QED BY <1>4 DEF irq_handler

(* Every step.                                                             *)
LEMMA StepKeepsReport ==
  EntryInv /\ ReportInv /\ [EntryNext]_vars => ReportInv'
<1>. SUFFICES ASSUME EntryInv, ReportInv, [EntryNext]_vars PROVE ReportInv'
  OBVIOUS
<1>1. CASE gdt_initialize
  BY <1>1 DEF gdt_initialize, ReportInv
<1>2. CASE idt_initialize
  BY <1>2 DEF idt_initialize, ReportInv
<1>3. ASSUME NEW eip \in CodeAddresses, NEW enabled \in BOOLEAN,
             Foreground(eip, enabled)
      PROVE  ReportInv'
  BY <1>3 DEF Foreground, ReportInv
<1>4. ASSUME NEW vector \in 0 .. 31, NEW error_code \in ErrorCodes,
             Exception(vector, error_code)
      PROVE  ReportInv'
  <2>1. IsWord(error_code)
    BY ErrorCodesAreWords DEF IsWord
  <2>2. Raise(vector, error_code)
    BY <1>4 DEF Exception
  <2>. QED BY <2>1, <2>2, RaiseKeepsReport
<1>5. ASSUME NEW vector \in 32 .. 47, HardwareInterrupt(vector)
      PROVE  ReportInv'
  <2>1. IsWord(0)
    BY SMT DEF IsWord
  <2>2. Raise(vector, 0)
    BY <1>5 DEF HardwareInterrupt
  <2>. QED BY <2>1, <2>2, RaiseKeepsReport
<1>6. ASSUME NEW number \in 0 .. 47, EnterStub(number) PROVE ReportInv'
  BY <1>6 DEF EnterStub, ReportInv
<1>7. CASE isr_handler
  BY <1>7, HandlerReports
<1>8. CASE irq_handler
  <2>1. phase' # "halted" /\ raised' = raised
    BY <1>8, RequestReturns DEF irq_handler
  <2>. QED BY <2>1 DEF ReportInv
<1>9. CASE LeaveStub
  BY <1>9 DEF LeaveStub, ReportInv
<1>10. CASE UNCHANGED vars
  BY <1>10 DEF vars, ReportInv
<1>. QED BY <1>1, <1>2, <1>3, <1>4, <1>5, <1>6, <1>7, <1>8, <1>9, <1>10
         DEF EntryNext

(* A vector has at most two digits.                                        *)
LEMMA VectorIsShort ==
  ASSUME NEW v \in 0 .. 47 PROVE v \in Nat /\ Len(DecimalOf(v)) < 11
<1>. DEFINE q == v \div 10
            r == v % 10
<1>1. v \in Nat /\ 0 \in Nat
  OBVIOUS
<1>2. Digits[0] = <<>>
  BY <1>1, DigitsAre
<1>3. CASE v = 0
  <2>1. Len(<<0>>) = 1
    OBVIOUS
  <2>2. DecimalOf(v) = <<0>>
    BY <1>3 DEF DecimalOf
  <2>. QED BY <1>1, <2>1, <2>2
<1>4. CASE v # 0
  <2>1. q \in Nat /\ q < 10
    OBVIOUS
  <2>2. Digits[v] = <<r>> \o Digits[q]
    BY <1>1, <1>4, DigitsAre
  <2>3. DecimalOf(v) = Digits[v]
    BY <1>4 DEF DecimalOf
  <2>. HIDE DEF q, r
  <2>4. CASE q = 0
    <3>1. Digits[v] = <<r>> \o <<>>
      BY <1>2, <2>2, <2>4
    <3>2. Len(<<r>> \o <<>>) = 1
      OBVIOUS
    <3>3. Len(Digits[v]) = 1
      BY <3>1, <3>2, Zenon
    <3>. QED BY <1>1, <2>3, <3>3
  <2>5. CASE q # 0
    <3>. DEFINE s == q % 10
    <3>1. q \div 10 = 0
      BY <2>1
    <3>2. Digits[q] = <<s>> \o Digits[q \div 10]
      BY <2>1, <2>5, DigitsAre
    <3>. HIDE DEF s
    <3>3. Digits[q] = <<s>> \o <<>>
      BY <1>2, <3>1, <3>2
    <3>4. Digits[v] = <<r>> \o (<<s>> \o <<>>)
      BY <2>2, <3>3
    <3>5. Len(<<r>> \o (<<s>> \o <<>>)) = 2
      OBVIOUS
    <3>6. Len(Digits[v]) = 2
      BY <3>4, <3>5, Zenon
    <3>. QED BY <1>1, <2>3, <3>6
  <2>. QED BY <2>4, <2>5
<1>. QED BY <1>3, <1>4

(* The report can be read.                                                 *)
LEMMA ReportIsRead == EntryInv /\ ReportInv => ExceptionIsReported
<1>. SUFFICES ASSUME EntryInv, ReportInv, phase = "halted"
              PROVE  ExceptionIsReported
  BY DEF ExceptionIsReported
<1>. DEFINE v == raised.vector
            e == raised.error_code
<1>1. /\ v < 32 /\ report = ReportOf(raised) /\ IsWord(e)
  BY DEF ReportInv
<1>2. v \in 0 .. 47 /\ e \in Nat
  BY DEF EntryInv, Types
<1>3. /\ report.vector = kformat_uint32_decimal(v, 11)
      /\ report.error_code = kformat_uint32_hex(e, 11)
  BY <1>1 DEF ReportOf
<1>. HIDE DEF v, e
<1>4. v \in Nat /\ Len(DecimalOf(v)) < 11 /\ 11 \in Nat /\ 11 >= 11
  <2>1. v \in Nat /\ Len(DecimalOf(v)) < 11
    BY <1>2, VectorIsShort, Zenon
  <2>2. 11 \in Nat /\ 11 >= 11
    OBVIOUS
  <2>. QED BY <2>1, <2>2
<1>5. kformat_uint32_decimal(v, 11) = Numeral(v)
  BY <1>4, DecimalIsNumeral
<1>6. IsDecimalFor(report.vector, v)
  BY <1>3, <1>4, <1>5, NumeralIsDecimal
<1>7. IsHexFor(report.error_code, e)
  BY <1>1, <1>2, <1>3, <1>4, HexIsRight
<1>. QED BY <1>1, <1>6, <1>7 DEF ExceptionIsReported, v, e

(* The log of an exception shows its vector in decimal and its error code  *)
(* in hexadecimal, for every vector and every code of 32 bits, also when   *)
(* it struck inside another handler or inside the report of another one.   *)
THEOREM EntryExceptionIsReported == EntrySpec => []ExceptionIsReported
<1>1. EntryInit => ReportInv
  <2>. SUFFICES ASSUME EntryInit PROVE ReportInv
    OBVIOUS
  <2>1. raised.error_code = 0 /\ phase # "halted"
    BY DEF EntryInit
  <2>2. IsWord(0)
    BY SMT DEF IsWord
  <2>. QED BY <2>1, <2>2 DEF ReportInv
<1>. QED BY <1>1, StepKeepsReport, ReportIsRead, EntryInvariant, PTL DEF EntrySpec
=============================================================================
