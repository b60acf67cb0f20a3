----------------------------- MODULE HttpServer -----------------------------
(***************************************************************************)
(* The connections of the web server in                                    *)
(* etapa-4/urna_eletronica/urna_eletronica.c: what tcp_server_accept,      *)
(* _recv, _sent, _poll and _err do with a connection and its con_state.    *)
(* What a request asks for, and what it changes, is in Urna.tla.           *)
(*                                                                         *)
(* The headers and the result of an answer lie in con_state and are given  *)
(* to lwIP without a copy (lines 442-444): one unit each.                  *)
(***************************************************************************)
EXTENDS Lwip

VARIABLES
    con,    \* con_state of each block, or NoCon
    once,   \* one request at most, and not closed before all was acknowledged
    spoilt  \* the phone received bytes that are not those of the answer

httpVars == <<con, once, spoilt>>

NoCon == [req |-> 0, sent_len |-> 0, len |-> 0, alive |-> FALSE]

HttpTypeOK ==
    /\ con \in [Pcb -> [req : 0..MaxRequests, sent_len : 0..(2 * MaxRequests),
                        len : 0..2, alive : BOOLEAN]]
    /\ once \in [Pcb -> BOOLEAN]
    /\ spoilt \in [Pcb -> BOOLEAN]

HttpInit ==
    /\ con = [p \in Pcb |-> NoCon]
    /\ once = [p \in Pcb |-> TRUE]
    /\ spoilt = [p \in Pcb |-> FALSE]

\* Mutant of FreshCon: malloc for calloc, sent_len starts anywhere.
MallocCon == [NoCon EXCEPT !.alive = TRUE, !.sent_len = 2 * MaxRequests + 1]

FreshCon == [NoCon EXCEPT !.alive = TRUE]

\* tcp_server_accept.  When calloc fails lwIP takes the block back: no step.
Accept(p) ==
    /\ pcb[p] = "free"
    /\ pcb' = [pcb EXCEPT ![p] = "open"]
    /\ arg' = [arg EXCEPT ![p] = "server"]
    /\ con' = [con EXCEPT ![p] = FreshCon]
    /\ once' = [once EXCEPT ![p] = TRUE]
    /\ spoilt' = [spoilt EXCEPT ![p] = FALSE]
    /\ UNCHANGED <<queue, seen, faults, broken>>

Serves(p) == pcb[p] = "open" /\ arg[p] = "server"

\* Mutant of Disconnect: the callbacks and their argument are left in place.
DisconnectKeepArg(p) ==
    /\ pcb' = [pcb EXCEPT ![p] = "closing"]
    /\ con' = [con EXCEPT ![p] = NoCon]
    /\ UNCHANGED arg

\* tcp_close_client_connection: the buffers go with con_state, whatever is
\* still queued.  tcp_close leaves lwIP to find memory for the FIN, so the
\* branch that aborts is not taken.
Disconnect(p) ==
    /\ TcpClosed(p)
    /\ con' = [con EXCEPT ![p] = NoCon]

\* A segment with (part of) a request: the buffers are filled again, whatever
\* lwIP has left to send of them.  Either tcp_write may fail, or both; nobody
\* looks.
Recv(p) ==
    /\ Serves(p) /\ con[p].req < MaxRequests
    /\ con' = [con EXCEPT ![p].req = @ + 1, ![p].len = 2]
    /\ once' = [once EXCEPT ![p] = con[p].req = 0]
    /\ LET unit(part) == [part |-> part, req |-> con[p].req + 1]
           whole == <<unit("headers"), unit("result")>>
       IN  \/ /\ queue' = [queue EXCEPT ![p] = @ \o whole]
              /\ UNCHANGED faults
           \/ /\ Fault
              /\ \/ UNCHANGED queue
                 \/ \E n \in {1, 2} : queue' = [queue EXCEPT ![p] = Append(@, whole[n])]
    /\ UNCHANGED <<pcb, arg, seen, broken, spoilt>>

HangUp(p) ==
    /\ Serves(p)
    /\ Disconnect(p)
    /\ once' = [once EXCEPT ![p] = @ /\ queue[p] = <<>>]
    /\ UNCHANGED <<queue, seen, faults, broken, spoilt>>

\* p == NULL: the phone has closed its end.
PhoneCloses(p) == HangUp(p)

\* Mutant of Poll: a connection that has asked nothing yet is left alone.
PollAfterRequest(p) == con[p].req > 0 /\ HangUp(p)

\* tcp_server_poll, every five seconds, closes whatever the connection does.
Poll(p) == HangUp(p)

\* Mutant of AllSent: the result is forgotten.
HeadersSent(c) == c.sent_len >= 1

\* header_len + result_len of the last answer, against all that was sent.
AllSent(c) == c.sent_len >= c.len

\* tcp_server_sent.
Sent(p, n) ==
    /\ arg[p] = "server"
    /\ Acknowledged(p, n)
    /\ LET after == [con[p] EXCEPT !.sent_len = @ + n]
       IN  IF AllSent(after)
              THEN Disconnect(p)
              ELSE con' = [con EXCEPT ![p] = after] /\ UNCHANGED <<pcb, arg>>
    /\ UNCHANGED <<faults, broken, once, spoilt>>

\* tcp_server_err after a reset: lwIP frees the block when the callback has
\* returned, so the tcp_close in it does no harm.  After a time-out (ERR_ABRT)
\* the block is gone, and so is the only pointer to con_state.
ServerError(p) ==
    /\ arg[p] = "server"
    /\ pcb[p] = "open" \/ MayTimeOut(p)
    /\ TcpFree(p)
    /\ con' = [con EXCEPT ![p] = NoCon]
    /\ UNCHANGED <<faults, broken, once, spoilt>>

\* The buffer of the unit no longer holds it.
Stale(p, unit) == ~con[p].alive \/ con[p].req # unit.req

\* The phone gets the next unit as it was first sent, or from a retransmission,
\* which reads the buffer again.
Deliver(p) ==
    /\ seen[p] < Len(queue[p])
    /\ seen' = [seen EXCEPT ![p] = @ + 1]
    /\ LET unit == queue[p][seen[p] + 1]
       IN  \/ spoilt' = [spoilt EXCEPT ![p] = @ \/ (unit.part # "key" /\ Stale(p, unit))]
           \/ UNCHANGED spoilt
    /\ UNCHANGED <<pcb, arg, queue, faults, broken, con, once>>

ServerStep(p) ==
    \/ Accept(p) \/ Recv(p) \/ PhoneCloses(p) \/ Poll(p) \/ ServerError(p) \/ Deliver(p)
    \/ \E n \in 1..seen[p] : Sent(p, n)

=============================================================================
