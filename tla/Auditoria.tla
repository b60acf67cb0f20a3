----------------------------- MODULE Auditoria ------------------------------
(***************************************************************************)
(* The audit logger of etapa-4/urna_auditoria/urna_auditoria.c: a second   *)
(* Pico that takes lines from a UART and writes them to auditoria.txt on   *)
(* an SD card.                                                             *)
(*                                                                         *)
(* on_uart_rx runs in the UART interrupt, once per byte here, and may fall *)
(* between any two steps of the main loop.  The main loop passes the very  *)
(* buffer the interrupt fills to f_printf, which reads it byte by byte.    *)
(*                                                                         *)
(* The bytes of the n-th line sent are all the number n, so that a line    *)
(* mixed from two is seen.  Of FatFs the module has what line 64-94 rely   *)
(* on: which calls may fail, and what of the file is then on the card.     *)
(***************************************************************************)
EXTENDS Naturals, Sequences

CONSTANTS
    BufSize,    \* sizeof(uart_buffer), 256
    Lengths,    \* lengths of the lines sent
    MaxLines,   \* bound on the lines sent
    MaxFaults   \* bound on failed card operations and losses of power

ASSUME BufSizeAssumption == BufSize \in Nat /\ BufSize > 1
ASSUME LengthAssumption == Lengths \subseteq Nat
ASSUME LineBoundAssumption == MaxLines \in Nat /\ MaxFaults \in Nat

NUL == 0
NL == MaxLines + 1      \* '\n'
CTL == MaxLines + 2     \* any other byte outside ' '..'~', such as '\r'
JUNK == MaxLines + 3    \* whatever follows uart_buffer in memory
Byte == 0..(MaxLines + 3)
Text == Seq(Byte)
Log == Seq(Text)

VARIABLES
    uart_buffer, buffer_pos, new_message_received,  \* lines 22-24
    overrun,    \* uart_buffer[BufSize] was written, one past the end
    pc,         \* where the main loop is
    next,       \* index f_printf reads next
    entry,      \* bytes f_printf has taken
    file,       \* auditoria.txt as the open FIL sees it: a sequence of lines
    disk,       \* auditoria.txt as it would be found after a loss of power
    line, left, \* the line being sent, and its bytes still to come
    faults      \* failures so far

ramVars == <<uart_buffer, buffer_pos, new_message_received, overrun>>
logVars == <<next, entry, file>>
lineVars == <<line, left>>
auditVars == <<ramVars, pc, logVars, disk, lineVars, faults>>

PcLabel == {"boot", "fatal", "check", "mount", "open", "copy", "flush", "close",
            "clear", "wfi"}

EmptyBuffer == [p \in 0..(BufSize - 1) |-> NUL]

TypeOK ==
    /\ uart_buffer \in [0..(BufSize - 1) -> Byte]
    /\ buffer_pos \in 0..(BufSize - 1)
    /\ new_message_received \in BOOLEAN
    /\ overrun \in BOOLEAN
    /\ pc \in PcLabel
    /\ next \in 0..BufSize
    /\ entry \in Text
    /\ file \in Log
    /\ disk \in Log
    /\ line \in 0..MaxLines
    /\ left \in Nat
    /\ faults \in 0..MaxFaults

Init ==
    /\ uart_buffer = EmptyBuffer
    /\ buffer_pos = 0
    /\ new_message_received = FALSE
    /\ overrun = FALSE
    /\ pc = "boot"
    /\ next = 0 /\ entry = <<>> /\ file = <<>>
    /\ disk = <<>>
    /\ line = 0 /\ left = 0
    /\ faults = 0

-----------------------------------------------------------------------------
(* The interrupt: one byte through the loop of lines 34-48.                  *)

\* Mutant of Full: the last index is taken for a place still free.
FullTooLate(pos) == pos >= BufSize

Full(pos) == pos >= BufSize - 1

\* Mutant of Terminated: the terminator is forgotten.
Unterminated(pos) == [uart_buffer EXCEPT ![pos] = NL]

\* '\n' at pos and '\0' after it.  With pos = BufSize - 1 the '\0' falls
\* outside the array.
Terminated(pos) ==
    [p \in 0..(BufSize - 1) |-> IF p = pos THEN NL
                                ELSE IF p = pos + 1 THEN NUL
                                ELSE uart_buffer[p]]

CompleteMessage ==
    /\ IF buffer_pos > 0
          THEN /\ uart_buffer' = Terminated(buffer_pos)
               /\ overrun' = (overrun \/ buffer_pos + 1 = BufSize)
               /\ new_message_received' = TRUE
          ELSE UNCHANGED <<uart_buffer, overrun, new_message_received>>
    /\ buffer_pos' = 0

\* In a full buffer the byte that completes the message is dropped, whatever
\* it is.
Completes(byte) == byte = NL \/ Full(buffer_pos)

TakePrintable(byte) ==
    /\ uart_buffer' = [uart_buffer EXCEPT ![buffer_pos] = byte]
    /\ buffer_pos' = buffer_pos + 1
    /\ UNCHANGED <<new_message_received, overrun>>

OnUartRx(byte) ==
    \/ Completes(byte) /\ CompleteMessage
    \/ ~Completes(byte) /\ byte # CTL /\ TakePrintable(byte)
    \/ ~Completes(byte) /\ byte = CTL /\ UNCHANGED ramVars

\* The voting machine's side of the wire sends the next line ...
BeginLine(length) ==
    /\ left = 0 /\ line < MaxLines
    /\ line' = line + 1 /\ left' = length + 1
    /\ UNCHANGED <<ramVars, pc, logVars, disk, faults>>

\* ... byte by byte, '\n' last, and control bytes anywhere in it.
ReceiveByte(byte) ==
    /\ left > 0
    /\ byte \in {CTL, IF left = 1 THEN NL ELSE line}
    /\ OnUartRx(byte)
    /\ left' = IF byte = CTL THEN left ELSE left - 1
    /\ UNCHANGED <<line, pc, logVars, disk, faults>>

-----------------------------------------------------------------------------
(* The main loop.  A call that fails spends one of the faults.               *)

At(here, there) == pc = here /\ pc' = there

Fault == faults < MaxFaults /\ faults' = faults + 1

\* Lines 98-123: the interrupt is already on while sd_init_driver runs.
SdInit ==
    /\ \/ At("boot", "check") /\ UNCHANGED faults
       \/ At("boot", "fatal") /\ Fault
    /\ UNCHANGED <<ramVars, logVars, disk, lineVars>>

\* When sd_init_driver failed the LED blinks until power is cycled.
Blink == pc = "fatal" /\ UNCHANGED auditVars

CheckFlag ==
    /\ pc = "check"
    /\ pc' = IF new_message_received THEN "mount" ELSE "wfi"
    /\ UNCHANGED <<ramVars, logVars, disk, lineVars, faults>>

\* log_to_sd_card returns early when the card does not mount.
Mount ==
    /\ \/ At("mount", "open") /\ UNCHANGED faults
       \/ At("mount", "clear") /\ Fault
    /\ UNCHANGED <<ramVars, logVars, disk, lineVars>>

\* The flags FA_OPEN_APPEND | FA_CREATE_ALWAYS of line 70: f_open truncates
\* the file, and then seeks to its end.
Opened(content) == <<>>

\* A failed f_open may have truncated the file before it failed.
OpenFile ==
    /\ \/ /\ At("open", "copy")
          /\ file' = Opened(disk) /\ next' = 0 /\ entry' = <<>>
          /\ UNCHANGED <<disk, faults>>
       \/ /\ At("open", "clear") /\ Fault
          /\ disk' \in {disk, Opened(disk)}
          /\ UNCHANGED logVars
    /\ UNCHANGED <<ramVars, lineVars>>

\* f_printf takes the bytes of data up to the first '\0'.  Past the end of the
\* array it may find the '\0' written there, or what took its place.
Copy ==
    /\ \/ /\ pc = "copy" /\ next < BufSize /\ uart_buffer[next] # NUL
          /\ entry' = Append(entry, uart_buffer[next]) /\ next' = next + 1
          /\ UNCHANGED pc
       \/ /\ At("copy", "flush") /\ next < BufSize /\ uart_buffer[next] = NUL
          /\ UNCHANGED <<entry, next>>
       \/ /\ At("copy", "flush") /\ next = BufSize
          /\ entry' \in {entry, Append(entry, JUNK)}
          /\ UNCHANGED next
    /\ UNCHANGED <<ramVars, file, disk, lineVars, faults>>

\* f_printf hands the bytes to f_write; when that fails a part of them may be
\* in the file, and the error is only printed.
Flush ==
    /\ \/ file' = Append(file, entry) /\ UNCHANGED faults
       \/ /\ Fault
          /\ \E n \in 0..Len(entry) :
                file' = IF n = 0 THEN file ELSE Append(file, SubSeq(entry, 1, n))
    /\ At("flush", "close")
    /\ UNCHANGED <<ramVars, next, entry, disk, lineVars>>

\* Mutant of Close: f_close is forgotten, and nothing reaches the card.
NotClosed ==
    /\ At("close", "clear")
    /\ next' = 0 /\ entry' = <<>> /\ file' = <<>>
    /\ UNCHANGED <<ramVars, disk, lineVars, faults>>

\* f_close brings the card up to date.  When it fails the card may hold the
\* old file, the truncated one or the new one.
Close ==
    /\ At("close", "clear")
    /\ \/ disk' = file /\ UNCHANGED faults
       \/ Fault /\ disk' \in {disk, Opened(disk), file}
    /\ next' = 0 /\ entry' = <<>> /\ file' = <<>>
    /\ UNCHANGED <<ramVars, lineVars>>

\* Mutant of ClearFlag: the flag is left set.
KeepFlag == At("clear", "wfi") /\ UNCHANGED <<ramVars, logVars, disk, lineVars, faults>>

\* Line 129, whatever became of the message.
ClearFlag ==
    /\ At("clear", "wfi")
    /\ new_message_received' = FALSE
    /\ UNCHANGED <<uart_buffer, buffer_pos, overrun, logVars, disk, lineVars, faults>>

\* __wfi returns at the next interrupt, and the USB console of the SDK has one
\* every millisecond.
Wake ==
    /\ At("wfi", "check")
    /\ UNCHANGED <<ramVars, logVars, disk, lineVars, faults>>

MainLoop ==
    \/ SdInit \/ Blink \/ CheckFlag \/ Mount \/ OpenFile \/ Copy \/ Flush \/ Close
    \/ ClearFlag \/ Wake

\* Power is lost and comes back: memory is zeroed, and a file that was open
\* may have been truncated.
PowerCycle ==
    /\ Fault
    /\ uart_buffer' = EmptyBuffer /\ buffer_pos' = 0
    /\ new_message_received' = FALSE /\ overrun' = FALSE
    /\ pc' = "boot"
    /\ next' = 0 /\ entry' = <<>> /\ file' = <<>>
    /\ disk' \in IF pc \in {"copy", "flush", "close"} THEN {disk, Opened(disk)} ELSE {disk}
    /\ UNCHANGED lineVars

Environment ==
    \/ \E length \in Lengths : BeginLine(length)
    \/ \E byte \in Byte : ReceiveByte(byte)
    \/ PowerCycle

Next == MainLoop \/ Environment

Spec == Init /\ [][Next]_auditVars

=============================================================================
