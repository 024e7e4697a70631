------------------------------- MODULE Serial -------------------------------
(***************************************************************************)
(* The serial port (src/drivers/serial.c), the log that mirrors to it      *)
(* (src/kernel/log.c) and the heartbeat that the IRQ0 handler writes to it *)
(* on every hundredth tick (src/drivers/pit.c).  Foreground and handler    *)
(* share the port and the flag serial_initialized without a lock.  Each    *)
(* writer is cut at its accesses to either; the handler comes between any  *)
(* two accesses of the foreground and runs to its end with interrupts off. *)
(* The copy of a log message on the console is in Terminal.                *)
(***************************************************************************)
EXTENDS Integers, Sequences

CONSTANTS
  LogText,                   \* the text of a log message
  HeartbeatText,             \* the text of a heartbeat
  SERIAL_TRANSMIT_TIMEOUT,
  FifoDepth,                 \* bytes the transmitter can hold
  MaxLogs, MaxBeats          \* bounds: messages and heartbeats of a run

(* The driver turns the transmitter's FIFO on; one that holds a single     *)
(* byte would lose bytes.                                                  *)
ASSUME SerialConstants ==
  /\ LogText \in Seq(STRING) /\ HeartbeatText \in Seq(STRING)
  /\ SERIAL_TRANSMIT_TIMEOUT \in Nat
  /\ FifoDepth \in Nat \ {0, 1}
  /\ MaxLogs \in Nat /\ MaxBeats \in Nat

VARIABLES
  serial_initialized,
  klog_serial_available,
  writer,        \* what "main" and "irq0" are doing
  fifo,          \* the number of bytes in the transmitter
  sent,          \* for each writer the bytes that the port accepted of it
  logs, beats    \* messages and heartbeats begun

serialVars == <<serial_initialized, klog_serial_available, writer, fifo, sent,
          logs, beats>>

Writers == {"main", "irq0"}
At(at, rest) == [at |-> at, rest |-> rest, timeout |-> SERIAL_TRANSMIT_TIMEOUT]
Idle == At("idle", <<>>)

(* serial_putchar sends a carriage return before a newline.                *)
Expand(text) ==
  LET Bytes[i \in 0 .. Len(text)] ==
        IF i = 0 THEN <<>>
        ELSE Bytes[i - 1] \o (IF text[i] = "LF" THEN <<"CR", "LF">>
                                                ELSE <<text[i]>>)
  IN  Bytes[Len(text)]

(* The foreground waits while the handler runs.                            *)
Runs(w) == w = "main" => writer["irq0"].at = "idle"

serial_can_transmit == fifo = 0

-----------------------------------------------------------------------------
(* klog_initialize and serial_initialize: the port is programmed, its FIFO *)
(* cleared; a port that does not answer stays busy.                        *)
ProgramPort ==
  /\ writer["main"].at = "boot"
  /\ serial_initialized' = FALSE
  /\ fifo' \in {0, fifo}
  /\ writer' = [writer EXCEPT !["main"] = At("probe", <<>>)]
  /\ UNCHANGED <<klog_serial_available, sent, logs, beats>>

ProbeEnds(available) ==
  /\ serial_initialized' = available
  /\ klog_serial_available' = available
  /\ writer' = [writer EXCEPT !["main"] = Idle]

Probe ==
  /\ writer["main"].at = "probe"
  /\ \/ serial_can_transmit /\ ProbeEnds(TRUE)
     \/ ~serial_can_transmit /\ writer["main"].timeout = 0 /\ ProbeEnds(FALSE)
     \/ /\ ~serial_can_transmit
        /\ writer["main"].timeout > 0
        /\ writer' = [writer EXCEPT !["main"].timeout = @ - 1]
        /\ UNCHANGED <<serial_initialized, klog_serial_available>>
  /\ UNCHANGED <<fifo, sent, logs, beats>>

(* klog_writestring from the foreground, with interrupts on.               *)
klog_writestring ==
  /\ writer["main"].at = "idle" /\ Runs("main")
  /\ klog_serial_available
  /\ logs < MaxLogs
  /\ writer' = [writer EXCEPT !["main"] = At("check", Expand(LogText))]
  /\ logs' = logs + 1
  /\ UNCHANGED <<serial_initialized, klog_serial_available, fifo, sent, beats>>

(* pit_handle_interrupt on a hundredth tick; it does not ask the log.      *)
Heartbeat ==
  /\ writer["irq0"].at = "idle"
  /\ writer["main"].at \notin {"boot", "probe"}
  /\ beats < MaxBeats
  /\ writer' = [writer EXCEPT !["irq0"] = At("check", Expand(HeartbeatText))]
  /\ beats' = beats + 1
  /\ UNCHANGED <<serial_initialized, klog_serial_available, fifo, sent, logs>>

-----------------------------------------------------------------------------
(* serial_putchar: the flag is tested for each byte, the return before a   *)
(* newline included; when it is off, the byte is skipped.                  *)
CheckInitialized(w) ==
  /\ writer[w].at = "check" /\ Runs(w)
  /\ writer' = [writer EXCEPT ![w] =
       IF @.rest = <<>> THEN Idle
       ELSE IF serial_initialized THEN At("poll", @.rest)
       ELSE At("check", Tail(@.rest))]
  /\ UNCHANGED <<serial_initialized, klog_serial_available, fifo, sent,
                 logs, beats>>

(* Mutation: never gives up.                                               *)
PollForEver(w) ==
  /\ writer[w].at = "poll" /\ Runs(w)
  /\ serial_can_transmit
  /\ writer' = [writer EXCEPT ![w].at = "out"]
  /\ UNCHANGED <<serial_initialized, klog_serial_available, fifo, sent,
                 logs, beats>>

(* Mutation: a byte that timed out is skipped and the port stays on.       *)
TimeoutKeepsPort(w) ==
  /\ writer[w].at = "poll" /\ Runs(w)
  /\ \/ /\ serial_can_transmit
        /\ writer' = [writer EXCEPT ![w].at = "out"]
     \/ /\ ~serial_can_transmit
        /\ writer[w].timeout > 0
        /\ writer' = [writer EXCEPT ![w].timeout = @ - 1]
     \/ /\ ~serial_can_transmit
        /\ writer[w].timeout = 0
        /\ writer' = [writer EXCEPT ![w] = At("check", Tail(@.rest))]
  /\ UNCHANGED <<serial_initialized, klog_serial_available, fifo, sent,
                 logs, beats>>

(* serial_wait_can_transmit, one reading of the status register, and what  *)
(* serial_putchar does when it gives up.                                   *)
serial_wait_can_transmit(w) ==
  /\ writer[w].at = "poll" /\ Runs(w)
  /\ \/ /\ serial_can_transmit
        /\ writer' = [writer EXCEPT ![w].at = "out"]
        /\ UNCHANGED serial_initialized
     \/ /\ ~serial_can_transmit
        /\ writer[w].timeout > 0
        /\ writer' = [writer EXCEPT ![w].timeout = @ - 1]
        /\ UNCHANGED serial_initialized
     \/ /\ ~serial_can_transmit
        /\ writer[w].timeout = 0
        /\ serial_initialized' = FALSE
        /\ writer' = [writer EXCEPT ![w] = At("check", Tail(@.rest))]
  /\ UNCHANGED <<klog_serial_available, fifo, sent, logs, beats>>

(* The output instruction.  A byte for which the transmitter has no room   *)
(* is lost.                                                                *)
OutputByte(w) ==
  /\ writer[w].at = "out" /\ Runs(w)
  /\ writer' = [writer EXCEPT ![w] = At("check", Tail(@.rest))]
  /\ IF fifo < FifoDepth
     THEN /\ fifo' = fifo + 1
          /\ sent' = [sent EXCEPT ![w] = Append(@, Head(writer[w].rest))]
     ELSE UNCHANGED <<fifo, sent>>
  /\ UNCHANGED <<serial_initialized, klog_serial_available, logs, beats>>

(* The port shifts a byte out, when it likes.                              *)
Transmit ==
  /\ fifo > 0
  /\ fifo' = fifo - 1
  /\ UNCHANGED <<serial_initialized, klog_serial_available, writer, sent,
                 logs, beats>>

-----------------------------------------------------------------------------
SerialInit ==
  /\ serial_initialized = FALSE
  /\ klog_serial_available = FALSE
  /\ writer = [w \in Writers |-> IF w = "main" THEN At("boot", <<>>) ELSE Idle]
  /\ fifo \in 0 .. 1
  /\ sent = [w \in Writers |-> <<>>]
  /\ logs = 0 /\ beats = 0

Step(w) ==
  CheckInitialized(w) \/ serial_wait_can_transmit(w) \/ OutputByte(w)

SerialNext ==
  \/ ProgramPort \/ Probe
  \/ klog_writestring \/ Heartbeat \/ Transmit
  \/ \E w \in Writers : Step(w)

SerialSpec == SerialInit /\ [][SerialNext]_serialVars

(* The CPU executes.  Nothing is assumed of the port: it may stall for     *)
(* ever at any byte.                                                       *)
SerialLiveSpec ==
  /\ SerialSpec
  /\ WF_serialVars(ProgramPort) /\ WF_serialVars(Probe)
  /\ \A w \in Writers : WF_serialVars(Step(w))

-----------------------------------------------------------------------------
(* Properties.                                                             *)

SerialTypeOK ==
  /\ serial_initialized \in BOOLEAN
  /\ klog_serial_available \in BOOLEAN
  /\ \A w \in Writers :
       /\ writer[w].at \in {"boot", "probe", "idle", "check", "poll", "out"}
       /\ writer[w].timeout \in 0 .. SERIAL_TRANSMIT_TIMEOUT
       /\ writer[w].at \in {"poll", "out"} => writer[w].rest # <<>>
  /\ fifo \in 0 .. FifoDepth

(* All that a writer was asked to write.                                   *)
Asked(w) ==
  LET text == Expand(IF w = "main" THEN LogText ELSE HeartbeatText)
      n == IF w = "main" THEN logs ELSE beats
  IN  [i \in 1 .. n * Len(text) |-> text[((i - 1) % Len(text)) + 1]]

(* The two writers do not spoil each other's text: what the port has of    *)
(* each is a first part of what it wrote, without a gap, a repetition or a *)
(* byte overrun by the other between the wait and the output instruction;  *)
(* and as long as the port is on, nothing but the rest is missing.         *)
TextsAreIntact ==
  \A w \in Writers :
    /\ Len(sent[w]) <= Len(Asked(w))
    /\ sent[w] = SubSeq(Asked(w), 1, Len(sent[w]))
    /\ serial_initialized => sent[w] \o writer[w].rest = Asked(w)

(* A port that stops answering holds neither the boot, nor a log call, nor *)
(* the IRQ0 handler for ever: each returns.                                *)
WritersReturn ==
  \A w \in Writers : writer[w].at # "idle" ~> writer[w].at = "idle"
=============================================================================
