------------------------------ MODULE KeyClient -----------------------------
(***************************************************************************)
(* send_key_to_server and its callbacks, in                                *)
(* etapa-4/urna_eletronica/urna_eletronica.c: each key pressed is posted   *)
(* to the key server on a connection of its own.  Nothing waits for it.    *)
(***************************************************************************)
EXTENDS Lwip

VARIABLE state      \* the TCP_CLIENT_STATE_T of each block

keyVars == <<state>>

KeyTypeOK == state \in [Pcb -> {"none", "allocated"}]

KeyInit == state = [p \in Pcb |-> "none"]

\* send_key_to_server.  With no memory, no block or no room for the SYN it
\* takes back what it has: no step.
SendKey(p) ==
    /\ pcb[p] = "free"
    /\ pcb' = [pcb EXCEPT ![p] = "connecting"]
    /\ arg' = [arg EXCEPT ![p] = "client"]
    /\ state' = [state EXCEPT ![p] = "allocated"]
    /\ UNCHANGED <<queue, seen, faults, broken>>

\* tcp_client_connected: the request is copied; when tcp_write fails nothing
\* is sent, and no callback ever comes.
Connected(p) ==
    /\ pcb[p] = "connecting"
    /\ pcb' = [pcb EXCEPT ![p] = "open"]
    /\ \/ queue' = [queue EXCEPT ![p] = <<[part |-> "key", req |-> 0]>>]
          /\ UNCHANGED faults
       \/ Fault /\ UNCHANGED queue
    /\ UNCHANGED <<arg, seen, broken, state>>

\* tcp_client_sent, and tcp_client_close in it.
KeySent(p) ==
    /\ arg[p] = "client"
    /\ Acknowledged(p, 1)
    /\ TcpClosed(p)
    /\ state' = [state EXCEPT ![p] = "none"]
    /\ UNCHANGED <<faults, broken>>

\* The key server closes first: there is no recv callback, and lwIP closes
\* the connection by itself; state stays until the acknowledgement.
KeyServerCloses(p) ==
    /\ pcb[p] = "open" /\ arg[p] = "client"
    /\ pcb' = [pcb EXCEPT ![p] = "closing"]
    /\ UNCHANGED <<arg, queue, seen, faults, broken, state>>

\* tcp_client_err, from a reset (refused) or a time-out (timeout): it calls
\* tcp_close.  lwIP frees the block itself after a reset, and has freed it
\* before it reports a time-out.
ClientError(p, cause) ==
    /\ arg[p] = "client"
    /\ cause = "timeout" => MayTimeOut(p)
    /\ broken' = (cause = "timeout" \/ pcb[p] = "connecting")
    /\ TcpFree(p)
    /\ state' = [state EXCEPT ![p] = "none"]
    /\ UNCHANGED faults

\* The end of a connection that lwIP closed by itself: tcp_client_err
\* (ERR_CLSD) finds nothing left to close.
KeyClosed(p) ==
    /\ pcb[p] = "closing" /\ arg[p] = "client" /\ queue[p] = <<>>
    /\ TcpFree(p)
    /\ state' = [state EXCEPT ![p] = "none"]
    /\ UNCHANGED <<faults, broken>>

ClientStep(p) ==
    \/ SendKey(p) \/ Connected(p) \/ KeySent(p) \/ KeyServerCloses(p)
    \/ \E cause \in {"refused", "timeout"} : ClientError(p, cause)
    \/ KeyClosed(p)

=============================================================================
