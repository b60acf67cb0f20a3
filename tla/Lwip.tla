-------------------------------- MODULE Lwip --------------------------------
(***************************************************************************)
(* What the machine sees of lwIP's TCP: a pool of protocol control blocks, *)
(* the callback argument of each, and the data it was told to send.  lwIP  *)
(* is not part of the repository; this is how urna_eletronica.c uses it    *)
(* (external in the map).                                                  *)
(*                                                                         *)
(* Data is counted in units.  lwIP keeps a pointer to a unit that it was   *)
(* told not to copy, and reads it again for each retransmission.           *)
(***************************************************************************)
EXTENDS Naturals, Sequences

CONSTANTS
    Pcb,        \* the MEMP_NUM_TCP_PCB elements of the pool
    MaxRequests,\* bound on the requests that come on one connection
    MaxFaults   \* bound on the handlers in which calls fail for want of memory

ASSUME BoundAssumption == MaxRequests \in Nat /\ MaxFaults \in Nat

VARIABLES
    pcb,        \* state of each block
    arg,        \* whose callbacks and argument it holds
    queue,      \* what it has to send and nobody has acknowledged
    seen,       \* how much of that the other end has received
    faults,
    broken      \* a block was closed that was free, or freed twice

tcpVars == <<pcb, arg, queue, seen, faults, broken>>

PcbState == {"free", "connecting", "open", "closing"}

\* Unit of request number req; part says which buffer holds it.
Unit == [part : {"headers", "result", "key"}, req : 0..MaxRequests]

TcpTypeOK ==
    /\ pcb \in [Pcb -> PcbState]
    /\ arg \in [Pcb -> {"none", "server", "client"}]
    /\ queue \in [Pcb -> Seq(Unit)]
    /\ \A p \in Pcb : seen[p] \in 0..Len(queue[p])
    /\ faults \in 0..MaxFaults
    /\ broken \in BOOLEAN

TcpInit ==
    /\ pcb = [p \in Pcb |-> "free"]
    /\ arg = [p \in Pcb |-> "none"]
    /\ queue = [p \in Pcb |-> <<>>]
    /\ seen = [p \in Pcb |-> 0]
    /\ faults = 0
    /\ broken = FALSE

Fault == faults < MaxFaults /\ faults' = faults + 1

\* The block goes back to the pool, with what it had to send.
TcpFree(p) ==
    /\ pcb' = [pcb EXCEPT ![p] = "free"]
    /\ arg' = [arg EXCEPT ![p] = "none"]
    /\ queue' = [queue EXCEPT ![p] = <<>>]
    /\ seen' = [seen EXCEPT ![p] = 0]

\* tcp_close, after the callbacks and the argument were cleared: lwIP goes on
\* sending what is queued.
TcpClosed(p) ==
    /\ pcb' = [pcb EXCEPT ![p] = "closing"]
    /\ arg' = [arg EXCEPT ![p] = "none"]

\* The other end acknowledges the first n of the units it has received.
Acknowledged(p, n) ==
    /\ n \in 1..seen[p]
    /\ queue' = [queue EXCEPT ![p] = SubSeq(@, n + 1, Len(@))]
    /\ seen' = [seen EXCEPT ![p] = @ - n]

\* lwIP gives up a connection that nobody answers.
MayTimeOut(p) ==
    \/ pcb[p] = "connecting"
    \/ pcb[p] \in {"open", "closing"} /\ queue[p] # <<>>

=============================================================================
