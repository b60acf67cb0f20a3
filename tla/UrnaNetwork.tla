----------------------------- MODULE UrnaNetwork ----------------------------
(***************************************************************************)
(* The two users of lwIP's TCP in the machine: the web server and the key  *)
(* client share one small pool of control blocks.                          *)
(***************************************************************************)
EXTENDS HttpServer, KeyClient

netVars == <<tcpVars, httpVars, keyVars>>

TypeOK == TcpTypeOK /\ HttpTypeOK /\ KeyTypeOK

Init == TcpInit /\ HttpInit /\ KeyInit

\* A block that the machine has closed and lwIP still holds.
Closing(p) == pcb[p] = "closing" /\ arg[p] = "none"

LateAck(p) ==
    /\ Closing(p)
    /\ \E n \in 1..seen[p] : Acknowledged(p, n)
    /\ UNCHANGED <<pcb, arg, faults, broken, httpVars, keyVars>>

\* The other end has everything, or is gone.
Finish(p) ==
    /\ Closing(p)
    /\ TcpFree(p)
    /\ UNCHANGED <<faults, broken, httpVars, keyVars>>

Server(p) == ServerStep(p) /\ UNCHANGED keyVars
Client(p) == ClientStep(p) /\ UNCHANGED httpVars

\* Once lwIP's pool is broken anything may happen, and nothing is claimed.
Next ==
    /\ ~broken
    /\ \E p \in Pcb : Server(p) \/ Client(p) \/ LateAck(p) \/ Finish(p)

Spec == Init /\ [][Next]_netVars

\* lwIP's timers run: the poll callback comes, and nobody is waited for
\* without end.  The other end has to do nothing.
TimesOut(p) ==
    \/ MayTimeOut(p) /\ ServerError(p) /\ UNCHANGED keyVars
    \/ ClientError(p, "timeout") /\ UNCHANGED httpVars
    \/ KeyClosed(p) /\ UNCHANGED httpVars
    \/ Finish(p)

Fairness == \A p \in Pcb :
    /\ WF_netVars(~broken /\ Poll(p) /\ UNCHANGED keyVars)
    /\ WF_netVars(~broken /\ TimesOut(p))

FairSpec == Spec /\ Fairness

-----------------------------------------------------------------------------
\* Whenever lwIP may call a callback, its argument points to memory that is
\* still allocated, and a block in the pool has no callbacks: neither a close
\* from one of four callbacks, nor an acknowledgement, reset or time-out that
\* comes after it, meets a con_state or state that was freed (lines 150-161,
\* 309, 456-458).
CallbacksFindTheirState ==
    \A p \in Pcb :
        /\ arg[p] = "server" => con[p].alive
        /\ arg[p] = "client" => state[p] = "allocated"
        /\ pcb[p] = "free" => arg[p] = "none" /\ ~con[p].alive /\ state[p] = "none"

\* The phone never receives a byte that is not of its answer, retransmissions
\* included, if it sends its request in one segment and lets the machine close:
\* con_state is freed only when all of it is acknowledged (lines 442-444, 456).
AnswerIsIntact == \A p \in Pcb : once[p] => ~spoilt[p]

\* Every block comes back to the pool, although neither the phone nor the key
\* server ever does anything: a phone that is silent, gone or slow cannot keep
\* the machine from the next one (line 458).  Not so when tcp_write fails.
BlocksComeBack ==
    \A p \in Pcb : pcb[p] # "free" ~> pcb[p] = "free" \/ broken \/ faults > 0

\* Line 158, "Evita double free": no block is closed that lwIP has freed, or
\* frees after it.  tcp_client_err closes the block of a failed connection.
NoDoubleFree == ~broken

=============================================================================
