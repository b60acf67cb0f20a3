-------------------------- MODULE AuditoriaHistory --------------------------
(***************************************************************************)
(* What the audit log owes its reader, stated over the actions of          *)
(* Auditoria with history variables that no action reads.                  *)
(***************************************************************************)
EXTENDS Auditoria

VARIABLES
    serial, \* messages completed so far
    last,   \* the bytes of the last one
    quiet,  \* it was not completed under a copy, and uart_buffer has not changed since
    saved   \* serial of the last message written while quiet

histVars == <<serial, last, quiet, saved>>
allVars == <<auditVars, histVars>>

HistoryTypeOK ==
    /\ serial \in Nat /\ saved \in Nat
    /\ last \in Text
    /\ quiet \in BOOLEAN

HInit == Init /\ serial = 0 /\ last = <<>> /\ quiet = FALSE /\ saved = 0

\* The message that a completing byte leaves in the buffer.
Message == Append([i \in 1..buffer_pos |-> uart_buffer[i - 1]], NL)

HReceive(byte) ==
    /\ ReceiveByte(byte)
    /\ IF Completes(byte) /\ buffer_pos > 0
          THEN /\ serial' = serial + 1 /\ last' = Message
               /\ quiet' = (pc \notin {"copy", "flush"})
          ELSE /\ quiet' = (quiet /\ uart_buffer' = uart_buffer)
               /\ UNCHANGED <<serial, last>>
    /\ UNCHANGED saved

HFlush ==
    /\ Flush
    /\ saved' = IF quiet /\ faults' = faults THEN serial ELSE saved
    /\ UNCHANGED <<serial, last, quiet>>

HPowerCycle ==
    /\ PowerCycle
    /\ quiet' = FALSE
    /\ UNCHANGED <<serial, last, saved>>

HQuiet ==
    /\ \/ MainLoop /\ pc # "flush"
       \/ \E length \in Lengths : BeginLine(length)
    /\ UNCHANGED histVars

HNext ==
    \/ \E byte \in Byte : HReceive(byte)
    \/ HFlush \/ HPowerCycle \/ HQuiet

HSpec == HInit /\ [][HNext]_allVars

\* The main loop goes on; nobody has to send anything.
FairSpec == HSpec /\ WF_allVars(HFlush \/ (MainLoop /\ pc # "flush" /\ UNCHANGED histVars))

-----------------------------------------------------------------------------
\* A message that no other byte follows while it is copied is handed to the
\* file as it came, with its '\n' and nothing after it, whatever longer line
\* was in the buffer before and whatever failed before.
QuietMessageIsIntact ==
    pc = "flush" /\ quiet /\ Len(last) < BufSize => entry = last

\* No message is written to the file twice: not after a failure, not after a
\* loss of power, not because the flag is set again while it is being logged.
NothingIsLoggedTwice ==
    [][pc = "flush" /\ pc' = "close" /\ quiet /\ faults' = faults => saved < serial]_allVars

\* While the main loop has not begun to copy it, the last message, if it fits
\* the buffer, is on its way: unless another byte comes or something fails, the
\* card ends with it.
WaitingMessageIsLogged ==
    (/\ new_message_received /\ quiet /\ Len(last) < BufSize
     /\ pc \in {"boot", "check", "wfi", "mount", "open"})
        ~> \/ disk # <<>> /\ disk[Len(disk)] = last
           \/ ~quiet
           \/ faults > 0

-----------------------------------------------------------------------------
(* What a comment says and the code does not do.                             *)

\* Line 69: "Abre o arquivo para ADICIONAR ao final (append)".  Without any
\* failure the log only grows.
LogOnlyGrows ==
    [][faults' = 0 => /\ Len(disk) <= Len(disk')
                      /\ SubSeq(disk', 1, Len(disk)) = disk]_allVars

=============================================================================
