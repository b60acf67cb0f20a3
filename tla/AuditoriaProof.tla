--------------------------- MODULE AuditoriaProof ---------------------------
(***************************************************************************)
(* Proofs about the audit logger, for a buffer of any size, lines of any   *)
(* length, and any number of lines and failures.                           *)
(***************************************************************************)
EXTENDS AuditoriaHistory, TLAPS, SequenceTheorems

-----------------------------------------------------------------------------
(* The operators the model is built from.                                    *)

\* What the interrupt makes of a buffer that holds at least one byte.
LEMMA TerminatedType ==
    ASSUME TypeOK, buffer_pos > 0
    PROVE  Terminated(buffer_pos) \in [0..(BufSize - 1) -> Byte]
<1>1. NL \in Byte /\ NUL \in Byte
  BY LineBoundAssumption DEF NL, NUL, Byte
<1> QED
  BY <1>1 DEF TypeOK, Terminated

\* The message just completed: the bytes of the buffer and '\n'.
LEMMA MessageShape ==
    ASSUME TypeOK
    PROVE  /\ Message \in Text
           /\ Len(Message) = buffer_pos + 1
           /\ \A i \in 1..buffer_pos : Message[i] = uart_buffer[i - 1]
           /\ Message[buffer_pos + 1] = NL
<1> DEFINE s == [i \in 1..buffer_pos |-> uart_buffer[i - 1]]
<1>1. buffer_pos \in Nat /\ BufSize \in Nat /\ buffer_pos <= BufSize - 1
  BY BufSizeAssumption DEF TypeOK
<1>2. s \in [1..buffer_pos -> Byte]
  BY <1>1 DEF TypeOK
<1>3. s \in Text /\ Len(s) = buffer_pos
  BY <1>1, <1>2 DEF Text
<1>4. NL \in Byte
  BY LineBoundAssumption DEF NL, Byte
<1>5. Message = Append(s, NL)
  BY DEF Message
<1>6. /\ Append(s, NL) \in Text
      /\ Len(Append(s, NL)) = Len(s) + 1
      /\ \A i \in 1..Len(s) : Append(s, NL)[i] = s[i]
      /\ Append(s, NL)[Len(s) + 1] = NL
  <2> HIDE DEF s
  <2> QED
    BY <1>3, <1>4, AppendProperties DEF Text
<1>7. \A i \in 1..buffer_pos : s[i] = uart_buffer[i - 1]
  OBVIOUS
<1> QED
  BY <1>3, <1>5, <1>6, <1>7

\* The first bytes of a sequence of bytes.
LEMMA PrefixType ==
    ASSUME NEW s \in Text, NEW n \in 0..Len(s)
    PROVE  SubSeq(s, 1, n) \in Text
<1>1. Len(s) \in Nat /\ n \in Int /\ \A i \in 1..n : s[i] \in Byte
  BY LenProperties, ElementOfSeq DEF Text
<1> QED
  BY <1>1, SubSeqProperties DEF Text

-----------------------------------------------------------------------------
(* Types                                                                     *)

LEMMA InitType == Init => TypeOK
<1>1. EmptyBuffer \in [0..(BufSize - 1) -> Byte]
  BY LineBoundAssumption DEF EmptyBuffer, NUL, Byte
<1>2. <<>> \in Text /\ <<>> \in Log
  BY DEF Text, Log
<1> SUFFICES ASSUME Init PROVE TypeOK
  OBVIOUS
<1>3. entry \in Text /\ file \in Log /\ disk \in Log
  BY <1>2 DEF Init
<1>4. pc \in PcLabel
  BY DEF Init, PcLabel
<1>5. uart_buffer \in [0..(BufSize - 1) -> Byte] /\ overrun \in BOOLEAN
      /\ new_message_received \in BOOLEAN
  BY <1>1 DEF Init
<1>6. /\ buffer_pos \in 0..(BufSize - 1) /\ next \in 0..BufSize
      /\ line \in 0..MaxLines /\ left \in Nat /\ faults \in 0..MaxFaults
  BY BufSizeAssumption, LineBoundAssumption DEF Init
<1> QED
  BY <1>3, <1>4, <1>5, <1>6 DEF TypeOK

LEMMA ReceiveType ==
    ASSUME TypeOK, NEW byte \in Byte, ReceiveByte(byte)
    PROVE  TypeOK'
<1> USE BufSizeAssumption
<1>1. left' \in Nat
  BY DEF TypeOK, ReceiveByte
<1>2. CASE Completes(byte) /\ CompleteMessage
  <2>1. uart_buffer' \in [0..(BufSize - 1) -> Byte] /\ buffer_pos' = 0
    BY <1>2, TerminatedType DEF CompleteMessage, TypeOK
  <2>2. overrun' \in BOOLEAN /\ new_message_received' \in BOOLEAN
    BY <1>2 DEF CompleteMessage, TypeOK
  <2> QED
    BY <1>1, <2>1, <2>2 DEF TypeOK, ReceiveByte, logVars
<1>3. CASE ~Completes(byte) /\ byte # CTL /\ TakePrintable(byte)
  <2>1. buffer_pos + 1 \in 0..(BufSize - 1)
    BY <1>3 DEF Completes, Full, TypeOK
  <2> QED
    BY <1>1, <1>3, <2>1 DEF TypeOK, ReceiveByte, TakePrintable, logVars
<1>4. CASE UNCHANGED ramVars
  BY <1>1, <1>4 DEF TypeOK, ReceiveByte, ramVars, logVars
<1> QED
  BY <1>2, <1>3, <1>4 DEF ReceiveByte, OnUartRx

LEMMA CopyType == ASSUME TypeOK, Copy PROVE TypeOK'
<1> USE DEF TypeOK
<1>1. UNCHANGED <<ramVars, file, disk, lineVars, faults>> /\ pc' \in PcLabel
  BY DEF Copy, At, PcLabel
<1>2. next' \in 0..BufSize
  BY BufSizeAssumption DEF Copy
<1>3. JUNK \in Byte
  BY LineBoundAssumption DEF JUNK, Byte
<1>4. entry' \in Text
  <2>1. CASE next < BufSize /\ entry' = Append(entry, uart_buffer[next])
    <3>1. uart_buffer[next] \in Byte
      BY <2>1, BufSizeAssumption
    <3> QED
      BY <2>1, <3>1, AppendProperties DEF Text
  <2>2. CASE entry' = entry
    BY <2>2
  <2>3. CASE entry' = Append(entry, JUNK)
    BY <1>3, <2>3, AppendProperties DEF Text
  <2> QED
    BY <2>1, <2>2, <2>3 DEF Copy
<1> QED
  BY <1>1, <1>2, <1>4 DEF ramVars, lineVars

LEMMA FlushType == ASSUME TypeOK, Flush PROVE TypeOK'
<1> USE DEF TypeOK
<1>1. /\ UNCHANGED <<ramVars, next, entry, disk, lineVars>>
      /\ pc' \in PcLabel /\ faults' \in 0..MaxFaults
  BY LineBoundAssumption DEF Flush, Fault, At, PcLabel
<1>2. file' \in Log
  <2>1. ASSUME NEW s \in Text
        PROVE  Append(file, s) \in Log
    BY AppendProperties DEF Log
  <2>2. \A n \in 0..Len(entry) : SubSeq(entry, 1, n) \in Text
    BY PrefixType
  <2>3. CASE file' = Append(file, entry)
    BY <2>1, <2>3
  <2>4. CASE \E n \in 0..Len(entry) :
               file' = IF n = 0 THEN file ELSE Append(file, SubSeq(entry, 1, n))
    BY <2>1, <2>2, <2>4
  <2> QED
    BY <2>3, <2>4 DEF Flush
<1> QED
  BY <1>1, <1>2 DEF ramVars, lineVars

\* Every step keeps the types.
LEMMA StepType == ASSUME TypeOK, [Next]_auditVars PROVE TypeOK'
<1> USE DEF TypeOK
<1>1. <<>> \in Text /\ <<>> \in Log
  BY DEF Text, Log
<1>2. CASE SdInit \/ Blink \/ CheckFlag \/ Mount \/ ClearFlag \/ Wake
  <2>1. pc' \in PcLabel
    BY <1>2 DEF SdInit, Blink, CheckFlag, Mount, ClearFlag, Wake, At, PcLabel, auditVars
  <2>2. faults' \in 0..MaxFaults
    BY <1>2, LineBoundAssumption
       DEF SdInit, Blink, CheckFlag, Mount, ClearFlag, Wake, Fault, auditVars
  <2>3. new_message_received' \in BOOLEAN
    BY <1>2 DEF SdInit, Blink, CheckFlag, Mount, ClearFlag, Wake, auditVars, ramVars
  <2>4. UNCHANGED <<uart_buffer, buffer_pos, overrun, next, entry, file, disk, line, left>>
    BY <1>2 DEF SdInit, Blink, CheckFlag, Mount, ClearFlag, Wake, auditVars, ramVars,
                logVars, lineVars
  <2> QED
    BY <2>1, <2>2, <2>3, <2>4
<1>3. CASE OpenFile
  <2>1. pc' \in PcLabel /\ faults' \in 0..MaxFaults
    BY <1>3, LineBoundAssumption DEF OpenFile, At, Fault, PcLabel
  <2>2. /\ next' \in 0..BufSize /\ entry' \in Text
        /\ file' \in Log /\ disk' \in Log
    BY <1>1, <1>3, BufSizeAssumption DEF OpenFile, Opened, logVars
  <2> QED
    BY <1>3, <2>1, <2>2 DEF OpenFile, ramVars, lineVars
<1>4. CASE Copy
  BY <1>4, CopyType
<1>5. CASE Flush
  BY <1>5, FlushType
<1>6. CASE Close
  <2>1. pc' \in PcLabel /\ faults' \in 0..MaxFaults
    BY <1>6, LineBoundAssumption DEF Close, At, Fault, PcLabel
  <2>2. /\ next' \in 0..BufSize /\ entry' \in Text
        /\ file' \in Log /\ disk' \in Log
    BY <1>1, <1>6, BufSizeAssumption DEF Close, Opened
  <2> QED
    BY <1>6, <2>1, <2>2 DEF Close, ramVars, lineVars
<1>7. ASSUME NEW length \in Lengths, BeginLine(length)
      PROVE  TypeOK'
  BY <1>7, LengthAssumption, LineBoundAssumption DEF BeginLine, ramVars, logVars
<1>8. ASSUME NEW byte \in Byte, ReceiveByte(byte)
      PROVE  TypeOK'
  BY <1>8, ReceiveType
<1>9. CASE PowerCycle
  <2>1. EmptyBuffer \in [0..(BufSize - 1) -> Byte]
    BY LineBoundAssumption DEF EmptyBuffer, NUL, Byte
  <2>2. pc' \in PcLabel /\ faults' \in 0..MaxFaults
    BY <1>9, LineBoundAssumption DEF PowerCycle, Fault, PcLabel
  <2>3. /\ next' \in 0..BufSize /\ entry' \in Text
        /\ file' \in Log /\ disk' \in Log
    BY <1>1, <1>9, BufSizeAssumption DEF PowerCycle, Opened
  <2>4. uart_buffer' \in [0..(BufSize - 1) -> Byte] /\ overrun' \in BOOLEAN
        /\ new_message_received' \in BOOLEAN
    BY <1>9, <2>1 DEF PowerCycle
  <2>5. /\ buffer_pos' \in 0..(BufSize - 1)
        /\ line' \in 0..MaxLines /\ left' \in Nat
    BY <1>9, BufSizeAssumption DEF PowerCycle, lineVars
  <2> QED
    BY <2>2, <2>3, <2>4, <2>5
<1>10. CASE UNCHANGED auditVars
  BY <1>10 DEF auditVars, ramVars, logVars, lineVars
<1> QED
  BY <1>2, <1>3, <1>4, <1>5, <1>6, <1>7, <1>8, <1>9, <1>10
     DEF Next, MainLoop, Environment

\* Under any interleaving of interrupts, failures and losses of power the
\* variables of the firmware keep their types: buffer_pos never names a place
\* outside uart_buffer.
THEOREM TypeCorrect == Spec => []TypeOK
<1>1. Init => TypeOK
  BY InitType
<1>2. TypeOK /\ [Next]_auditVars => TypeOK'
  BY StepType
<1> QED
  BY <1>1, <1>2, PTL DEF Spec

-----------------------------------------------------------------------------
(* The history variables only watch.                                         *)

\* Every history step is a step of the logger or leaves it alone.
LEMMA HistoryStep == [HNext]_allVars => [Next]_auditVars
<1>1. ASSUME NEW byte \in Byte, HReceive(byte) PROVE Next
  BY <1>1 DEF HReceive, Next, Environment
<1>2. HFlush => Next
  BY DEF HFlush, Next, MainLoop
<1>3. HPowerCycle => Next
  BY DEF HPowerCycle, Next, Environment
<1>4. HQuiet => Next
  BY DEF HQuiet, Next, Environment
<1>5. UNCHANGED allVars => UNCHANGED auditVars
  BY DEF allVars
<1> QED
  BY <1>1, <1>2, <1>3, <1>4, <1>5 DEF HNext

-----------------------------------------------------------------------------
(* What is logged twice                                                      *)

\* A message already saved, with nothing after it, is not on its way to the
\* file again.
SavedInv ==
    /\ HistoryTypeOK
    /\ saved <= serial
    /\ quiet /\ saved = serial =>
          /\ pc \notin {"mount", "open", "copy", "flush"}
          /\ new_message_received => pc \in {"close", "clear"}

LEMMA InitSaved == HInit => TypeOK /\ SavedInv
<1> SUFFICES ASSUME HInit PROVE TypeOK /\ SavedInv
  OBVIOUS
<1>1. TypeOK
  BY InitType DEF HInit
<1>2. <<>> \in Text
  BY DEF Text
<1>3. HistoryTypeOK /\ saved <= serial
  <2>1. serial = 0 /\ saved = 0 /\ last \in Text
    BY <1>2 DEF HInit
  <2>2. quiet \in BOOLEAN
    BY DEF HInit
  <2> QED
    BY <2>1, <2>2 DEF HistoryTypeOK
<1>4. ~quiet
  BY DEF HInit
<1> QED
  BY <1>1, <1>3, <1>4 DEF SavedInv

LEMMA SavedStep == ASSUME TypeOK, SavedInv, [HNext]_allVars PROVE SavedInv'
<1> USE DEF SavedInv, HistoryTypeOK
<1>1. ASSUME NEW byte \in Byte, HReceive(byte)
      PROVE  SavedInv'
  <2>1. saved' = saved /\ pc' = pc
    BY <1>1 DEF HReceive, ReceiveByte
  <2>2. CASE Completes(byte) /\ buffer_pos > 0
    <3>1. serial' = serial + 1 /\ last' = Message /\ quiet' \in BOOLEAN
      BY <1>1, <2>2 DEF HReceive
    <3>2. last' \in Text
      BY <3>1, MessageShape DEF Text
    <3> QED
      BY <2>1, <3>1, <3>2
  <2>3. CASE ~(Completes(byte) /\ buffer_pos > 0)
    <3>1. UNCHANGED <<serial, last>> /\ quiet' = (quiet /\ uart_buffer' = uart_buffer)
      BY <1>1, <2>3 DEF HReceive
    <3>2. new_message_received' = new_message_received
      BY <1>1, <2>3 DEF HReceive, ReceiveByte, OnUartRx, CompleteMessage, TakePrintable,
                        ramVars, TypeOK
    <3> QED
      BY <2>1, <3>1, <3>2
  <2> QED
    BY <2>2, <2>3
<1>2. CASE HFlush
  <2>1. pc = "flush" /\ pc' = "close" /\ UNCHANGED <<serial, last, quiet>>
    BY <1>2 DEF HFlush, Flush, At
  <2>2. saved' = IF quiet /\ faults' = faults THEN serial ELSE saved
    BY <1>2 DEF HFlush
  <2> QED
    BY <2>1, <2>2
<1>3. CASE HPowerCycle
  BY <1>3 DEF HPowerCycle
<1>4. CASE HQuiet
  <2>1. UNCHANGED <<serial, last, quiet, saved>>
    BY <1>4 DEF HQuiet, histVars
  <2>2. CASE SdInit \/ Mount \/ OpenFile \/ Copy \/ Close \/ Wake
    BY <2>1, <2>2 DEF SdInit, Mount, OpenFile, Copy, Close, Wake, At, ramVars
  <2>3. CASE CheckFlag
    BY <2>1, <2>3 DEF CheckFlag, ramVars
  <2>4. CASE ClearFlag
    BY <2>1, <2>4 DEF ClearFlag, At
  <2>5. CASE Blink \/ \E length \in Lengths : BeginLine(length)
    BY <2>1, <2>5 DEF Blink, BeginLine, auditVars, ramVars
  <2>6. ~Flush \/ pc = "flush"
    BY DEF Flush, At
  <2> QED
    BY <1>4, <2>2, <2>3, <2>4, <2>5, <2>6 DEF HQuiet, MainLoop
<1>5. CASE UNCHANGED allVars
  BY <1>5 DEF allVars, histVars, auditVars, ramVars
<1> QED
  BY <1>1, <1>2, <1>3, <1>4, <1>5 DEF HNext

\* No message is written to the file twice, whatever fails, wherever power is
\* lost and whenever the interrupt sets the flag again (lines 42 and 127-129).
THEOREM LoggedOnce == HSpec => NothingIsLoggedTwice
<1>1. HInit => TypeOK /\ SavedInv
  BY InitSaved
<1>2. TypeOK /\ SavedInv /\ [HNext]_allVars => (TypeOK /\ SavedInv)'
  BY HistoryStep, StepType, SavedStep
<1>3. TypeOK /\ SavedInv /\ [HNext]_allVars
        => [pc = "flush" /\ pc' = "close" /\ quiet /\ faults' = faults => saved < serial]_allVars
  BY DEF SavedInv, HistoryTypeOK
<1> QED
  BY <1>1, <1>2, <1>3, PTL DEF HSpec, NothingIsLoggedTwice

-----------------------------------------------------------------------------
(* What is logged torn                                                       *)

\* The bytes received are no terminators, and MessageInv: the last message is
\* still in the buffer, closed by '\0' if there was room for it.
BytesInv ==
    /\ left > 0 => line > 0
    /\ \A p \in 0..(buffer_pos - 1) : uart_buffer[p] # NUL

MessageInv ==
    quiet => /\ Len(last) \in 1..BufSize
             /\ \A i \in 1..Len(last) : last[i] # NUL /\ uart_buffer[i - 1] = last[i]
             /\ Len(last) < BufSize => uart_buffer[Len(last)] = NUL

\* What f_printf has taken so far is the beginning of the message.
CopyInv ==
    quiet /\ pc = "copy" =>
        /\ Len(entry) = next /\ next <= Len(last)
        /\ \A i \in 1..next : entry[i] = last[i]

IntactInv == HistoryTypeOK /\ BytesInv /\ MessageInv /\ CopyInv /\ QuietMessageIsIntact

\* A byte that goes into the buffer is a byte of the line being sent.
LEMMA BytesStep ==
    ASSUME TypeOK, BytesInv, [Next]_auditVars
    PROVE  BytesInv'
<1> USE DEF TypeOK, BytesInv
<1>1. CASE UNCHANGED <<uart_buffer, buffer_pos, line, left>>
  BY <1>1
<1>2. CASE MainLoop
  BY <1>1, <1>2 DEF MainLoop, SdInit, Blink, CheckFlag, Mount, OpenFile, Copy, Flush, Close,
                    ClearFlag, Wake, auditVars, ramVars, lineVars
<1>3. ASSUME NEW length \in Lengths, BeginLine(length)
      PROVE  BytesInv'
  BY <1>3 DEF BeginLine, ramVars
<1>4. ASSUME NEW byte \in Byte, ReceiveByte(byte)
      PROVE  BytesInv'
  <2>1. (left > 0 => line > 0)' /\ line > 0
    BY <1>4 DEF ReceiveByte
  <2>2. CASE CompleteMessage
    BY <2>1, <2>2 DEF CompleteMessage
  <2>3. CASE ~Completes(byte) /\ byte # CTL /\ TakePrintable(byte)
    <3>1. byte # NUL
      BY <1>4, <2>1, <2>3 DEF ReceiveByte, Completes, NUL
    <3>2. uart_buffer' = [uart_buffer EXCEPT ![buffer_pos] = byte] /\ buffer_pos' = buffer_pos + 1
      BY <2>3 DEF TakePrintable
    <3>3. \A p \in 0..(buffer_pos' - 1) : uart_buffer'[p] # NUL
      BY <3>1, <3>2, BufSizeAssumption
    <3> QED
      BY <2>1, <3>3
  <2>4. CASE UNCHANGED ramVars
    BY <2>1, <2>4 DEF ramVars
  <2> QED
    BY <1>4, <2>2, <2>3, <2>4 DEF ReceiveByte, OnUartRx
<1>5. CASE PowerCycle
  BY <1>5, <1>1 DEF PowerCycle, lineVars
<1>6. CASE UNCHANGED auditVars
  BY <1>1, <1>6 DEF auditVars, ramVars, lineVars
<1> QED
  BY <1>2, <1>3, <1>4, <1>5, <1>6 DEF Next, Environment

\* What the interrupt leaves in the buffer is the message it signals.
LEMMA CompletedMessage ==
    ASSUME TypeOK, HistoryTypeOK, BytesInv, NEW byte \in Byte, HReceive(byte),
           Completes(byte), buffer_pos > 0
    PROVE  MessageInv'
<1> USE BufSizeAssumption DEF TypeOK, BytesInv
<1>1. last' = Message /\ Len(Message) = buffer_pos + 1 /\ buffer_pos \in 1..(BufSize - 1)
  BY MessageShape DEF HReceive
<1>2. uart_buffer' = Terminated(buffer_pos)
  <2>1. NL # CTL
    BY LineBoundAssumption DEF NL, CTL
  <2> QED
    BY DEF HReceive, ReceiveByte, OnUartRx, CompleteMessage
<1>3. \A p \in 0..(BufSize - 1) : uart_buffer'[p] = IF p = buffer_pos THEN NL
                                                  ELSE IF p = buffer_pos + 1 THEN NUL
                                                  ELSE uart_buffer[p]
  BY <1>2 DEF Terminated
<1>4. NL # NUL
  BY LineBoundAssumption DEF NL, NUL
<1>5. ASSUME NEW i \in 1..(buffer_pos + 1)
      PROVE  Message[i] # NUL /\ uart_buffer'[i - 1] = Message[i]
  <2>1. CASE i = buffer_pos + 1
    <3>1. Message[i] = NL
      BY <2>1, MessageShape
    <3>2. uart_buffer'[i - 1] = NL
      BY <1>1, <1>3, <2>1
    <3> QED
      BY <1>4, <3>1, <3>2
  <2>2. CASE i # buffer_pos + 1
    <3>1. i \in 1..buffer_pos /\ i - 1 \in 0..(buffer_pos - 1)
      BY <1>1, <2>2
    <3>2. Message[i] = uart_buffer[i - 1]
      BY <3>1, MessageShape
    <3>3. uart_buffer'[i - 1] = uart_buffer[i - 1]
      BY <1>1, <1>3, <3>1
    <3> QED
      BY <3>1, <3>2, <3>3
  <2> QED
    BY <2>1, <2>2
<1>6. buffer_pos + 1 < BufSize => uart_buffer'[buffer_pos + 1] = NUL
  BY <1>1, <1>3
<1> QED
  BY <1>1, <1>5, <1>6 DEF MessageInv

\* One byte further, or done.
LEMMA CopyStep ==
    ASSUME TypeOK, IntactInv, quiet, Copy, UNCHANGED histVars
    PROVE  CopyInv' /\ QuietMessageIsIntact'
<1> USE BufSizeAssumption DEF TypeOK, IntactInv, HistoryTypeOK
<1>1. /\ pc = "copy" /\ UNCHANGED <<serial, last, quiet, saved, uart_buffer>>
  BY DEF Copy, At, histVars, ramVars
<1>2. /\ Len(last) \in 1..BufSize
      /\ \A i \in 1..Len(last) : last[i] # NUL /\ uart_buffer[i - 1] = last[i]
      /\ Len(last) < BufSize => uart_buffer[Len(last)] = NUL
  BY DEF MessageInv
<1>3. /\ Len(entry) = next /\ next <= Len(last)
      /\ \A i \in 1..next : entry[i] = last[i]
  BY <1>1 DEF CopyInv
<1>4. CASE /\ next < BufSize /\ uart_buffer[next] # NUL
           /\ entry' = Append(entry, uart_buffer[next]) /\ next' = next + 1
           /\ pc' = pc
  <2>1. next + 1 <= Len(last)
    BY <1>2, <1>3, <1>4
  <2>2. uart_buffer[next] = last[next + 1]
    <3>1. next + 1 \in 1..Len(last) /\ (next + 1) - 1 = next
      BY <1>2, <2>1
    <3> QED
      BY <1>2, <3>1
  <2>3. /\ Len(entry') = next + 1
        /\ \A i \in 1..next : entry'[i] = entry[i]
        /\ entry'[next + 1] = uart_buffer[next]
    <3>1. uart_buffer[next] \in Byte /\ entry \in Seq(Byte)
      BY <1>4 DEF Text
    <3> QED
      BY <1>3, <1>4, <3>1, AppendProperties
  <2>4. \A i \in 1..(next + 1) : entry'[i] = last[i]
    BY <1>3, <2>2, <2>3
  <2>5. CopyInv'
    BY <1>1, <1>4, <2>1, <2>3, <2>4 DEF CopyInv
  <2> QED
    BY <1>1, <1>4, <2>5 DEF QuietMessageIsIntact
<1>5. CASE pc' = "flush" /\ next < BufSize /\ uart_buffer[next] = NUL /\ UNCHANGED <<entry, next>>
  <2>1. next = Len(last)
    <3>1. CASE next < Len(last)
      <4>1. next + 1 \in 1..Len(last) /\ (next + 1) - 1 = next
        BY <1>2, <3>1
      <4>2. uart_buffer[next] # NUL
        BY <1>2, <4>1
      <4> QED
        BY <1>5, <4>2
    <3> QED
      BY <1>2, <1>3, <3>1
  <2>2. entry = last
    <3>1. entry \in Seq(Byte) /\ last \in Seq(Byte)
      BY DEF Text
    <3> QED
      BY <1>3, <2>1, <3>1, SeqEqual
  <2> QED
    BY <1>1, <1>5, <2>2 DEF QuietMessageIsIntact, CopyInv
<1>6. CASE pc' = "flush" /\ next = BufSize
  BY <1>1, <1>2, <1>3, <1>6 DEF QuietMessageIsIntact, CopyInv
<1> QED
  BY <1>4, <1>5, <1>6 DEF Copy, At

\* A step that leaves the message and the buffer alone, and the copy as well or
\* where it begins.
LEMMA OtherStep ==
    ASSUME IntactInv, quiet, UNCHANGED <<last, quiet, uart_buffer>>,
           \/ pc' \notin {"copy", "flush"}
           \/ pc' = "copy" /\ next' = 0 /\ entry' = <<>>
           \/ UNCHANGED <<pc, next, entry>>
    PROVE  MessageInv' /\ CopyInv' /\ QuietMessageIsIntact'
<1> USE DEF IntactInv
<1>1. MessageInv'
  BY DEF MessageInv
<1>2. CASE pc' \notin {"copy", "flush"}
  BY <1>1, <1>2 DEF CopyInv, QuietMessageIsIntact
<1>3. CASE pc' = "copy" /\ next' = 0 /\ entry' = <<>>
  <2>1. Len(entry') = 0 /\ 0 <= Len(last)
    BY <1>3, BufSizeAssumption DEF MessageInv
  <2>2. \A i \in 1..0 : entry'[i] = last'[i]
    OBVIOUS
  <2> QED
    BY <1>1, <1>3, <2>1, <2>2 DEF CopyInv, QuietMessageIsIntact
<1>4. CASE UNCHANGED <<pc, next, entry>>
  BY <1>1, <1>4 DEF CopyInv, QuietMessageIsIntact
<1> QED
  BY <1>2, <1>3, <1>4

\* Every step keeps the buffer, the copy and the message together.
LEMMA IntactStep == ASSUME TypeOK, SavedInv, IntactInv, [HNext]_allVars PROVE IntactInv'
<1>1. BytesInv'
  BY HistoryStep, BytesStep DEF IntactInv
<1>2. HistoryTypeOK' /\ HistoryTypeOK
  BY SavedStep DEF SavedInv
<1>3. CASE ~quiet'
  BY <1>1, <1>2, <1>3 DEF IntactInv, MessageInv, CopyInv, QuietMessageIsIntact
<1>4. ASSUME quiet', NEW byte \in Byte, HReceive(byte)
      PROVE  MessageInv' /\ CopyInv' /\ QuietMessageIsIntact'
  <2>1. UNCHANGED <<pc, next, entry>>
    BY <1>4 DEF HReceive, ReceiveByte, logVars
  <2>2. CASE Completes(byte) /\ buffer_pos > 0
    <3>1. MessageInv'
      BY <1>2, <1>4, <2>2, CompletedMessage DEF IntactInv
    <3>2. pc' \notin {"copy", "flush"}
      BY <1>4, <2>1, <2>2 DEF HReceive
    <3> QED
      BY <3>1, <3>2 DEF CopyInv, QuietMessageIsIntact
  <2>3. CASE ~(Completes(byte) /\ buffer_pos > 0)
    <3>1. UNCHANGED last /\ quiet' = (quiet /\ uart_buffer' = uart_buffer)
      BY <1>4, <2>3 DEF HReceive
    <3>2. quiet /\ uart_buffer' = uart_buffer
      BY <1>4, <3>1
    <3>3. UNCHANGED quiet
      BY <1>2, <1>4, <3>2 DEF HistoryTypeOK
    <3> QED
      BY <2>1, <3>1, <3>2, <3>3, OtherStep
  <2> QED
    BY <2>2, <2>3
<1>5. ASSUME quiet', HFlush
      PROVE  MessageInv' /\ CopyInv' /\ QuietMessageIsIntact'
  <2>1. quiet /\ pc' = "close" /\ UNCHANGED <<last, quiet, uart_buffer>>
    BY <1>5 DEF HFlush, Flush, At, ramVars
  <2> QED
    BY <2>1, OtherStep
<1>6. CASE HPowerCycle
  BY <1>3, <1>6 DEF HPowerCycle
<1>7. ASSUME quiet', HQuiet
      PROVE  MessageInv' /\ CopyInv' /\ QuietMessageIsIntact'
  <2>1. quiet /\ UNCHANGED histVars /\ UNCHANGED <<last, quiet>>
    BY <1>7 DEF HQuiet, histVars
  <2>2. CASE Copy
    <3>1. CopyInv' /\ QuietMessageIsIntact'
      BY <2>1, <2>2, CopyStep
    <3>2. UNCHANGED uart_buffer
      BY <2>2 DEF Copy, ramVars
    <3> QED
      BY <2>1, <3>1, <3>2 DEF IntactInv, MessageInv
  <2>3. CASE OpenFile
    <3>1. /\ UNCHANGED uart_buffer
          /\ pc' = "clear" \/ (pc' = "copy" /\ next' = 0 /\ entry' = <<>>)
      BY <2>3 DEF OpenFile, At, ramVars
    <3> QED
      BY <2>1, <3>1, OtherStep
  <2>4. CASE SdInit \/ CheckFlag \/ Mount \/ Close \/ ClearFlag \/ Wake
    <3>1. UNCHANGED uart_buffer /\ pc' \notin {"copy", "flush"}
      BY <2>4 DEF SdInit, CheckFlag, Mount, Close, ClearFlag, Wake, At, ramVars
    <3> QED
      BY <2>1, <3>1, OtherStep
  <2>5. CASE Blink \/ \E length \in Lengths : BeginLine(length)
    <3>1. UNCHANGED <<uart_buffer, pc, next, entry>>
      BY <2>5 DEF Blink, BeginLine, auditVars, ramVars, logVars
    <3> QED
      BY <2>1, <3>1, OtherStep
  <2>6. ~Flush \/ pc = "flush"
    BY DEF Flush, At
  <2> QED
    BY <1>7, <2>2, <2>3, <2>4, <2>5, <2>6 DEF HQuiet, MainLoop
<1>8. ASSUME quiet', UNCHANGED allVars
      PROVE  MessageInv' /\ CopyInv' /\ QuietMessageIsIntact'
  <2>1. quiet /\ UNCHANGED <<uart_buffer, pc, next, entry, last, quiet>>
    BY <1>8 DEF allVars, histVars, auditVars, ramVars, logVars
  <2> QED
    BY <2>1, OtherStep
<1> QED
  BY <1>1, <1>2, <1>3, <1>4, <1>5, <1>6, <1>7, <1>8 DEF HNext, IntactInv

\* A message that nothing follows while it is copied is handed to the file as it
\* came, whatever was in the buffer before it and whatever failed (lines 38-46
\* and 78): the '\0' of line 41 ends the copy exactly where the message ends.
THEOREM MessagesAreIntact == HSpec => []QuietMessageIsIntact
<1>1. ASSUME HInit
      PROVE  TypeOK /\ SavedInv /\ IntactInv
  <2>1. TypeOK /\ SavedInv
    BY <1>1, InitSaved
  <2>2. BytesInv /\ ~quiet
    BY <1>1 DEF HInit, Init, BytesInv
  <2> QED
    BY <2>1, <2>2 DEF SavedInv, IntactInv, MessageInv, CopyInv, QuietMessageIsIntact
<1>2. TypeOK /\ SavedInv /\ IntactInv /\ [HNext]_allVars => (TypeOK /\ SavedInv /\ IntactInv)'
  BY HistoryStep, StepType, SavedStep, IntactStep
<1>3. IntactInv => QuietMessageIsIntact
  BY DEF IntactInv
<1> QED
  BY <1>1, <1>2, <1>3, PTL DEF HSpec

=============================================================================
