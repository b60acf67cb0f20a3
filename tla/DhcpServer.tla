----------------------------- MODULE DhcpServer -----------------------------
(***************************************************************************)
(* The DHCP server of etapa-4/urna_eletronica/dhcpserver/dhcpserver.c,     *)
(* which gives the phone and the key server their addresses, and clients   *)
(* that join, ask, ask again, leave and come back.                         *)
(*                                                                         *)
(* Time is counted in blocks of 2^16 ms, the upper half of the 32-bit      *)
(* millisecond counter: that half is all that a lease keeps.  The carry of *)
(* the lower half lengthens a lease and its expiry alike, and is left out. *)
(***************************************************************************)
EXTENDS Naturals, FiniteSets

CONSTANTS
    Client,         \* MAC addresses
    NumSlots,       \* DHCPS_MAX_IP, 8
    Wrap,           \* values of expiry, 2^16
    LeaseTime,      \* whole blocks in DEFAULT_LEASE_TIME_S, 1318
    MaxRestarts,    \* bound on restarts of the machine
    MaxInFlight,    \* bound on the datagrams of one client in flight
    NoMac,          \* 00:00:00:00:00:00
    NoAddr          \* an address of no slot of this server

ASSUME SlotAssumption == NumSlots \in Nat /\ NumSlots > 0
ASSUME WrapAssumption == Wrap \in Nat /\ Wrap % 2 = 0 /\ LeaseTime \in Nat
                            /\ LeaseTime + 1 < Wrap \div 2
ASSUME BoundAssumption == MaxRestarts \in Nat /\ MaxInFlight \in Nat
ASSUME ValueAssumption == NoMac \notin Client /\ NoAddr \notin Nat

Slot == 0..(NumSlots - 1)
Wanted == Slot \cup {NoAddr}

VARIABLES
    lease,      \* d->lease: a MAC and a truncated expiry per slot
    ticks,      \* cyw43_hal_ticks_ms() >> 16
    net,        \* datagrams on their way to the server
    phase,      \* what each client is doing
    want,       \* the address it asks for, or remembers
    left,       \* blocks, this one included, that it may still use want
    fresh,      \* it was given want since the machine last started
    heard,      \* the server has had a DISCOVER of it in this block
    restarts

serverVars == <<lease, ticks>>
clientVars == <<phase, want, left, fresh, heard>>
dhcpVars == <<serverVars, net, clientVars, restarts>>

Phase == {"idle", "select", "request", "bound"}

Discover(c) == [type |-> "DISCOVER", mac |-> c, addr |-> NoAddr]
Request(c, a) == [type |-> "REQUEST", mac |-> c, addr |-> a]
Message == [type : {"DISCOVER", "REQUEST"}, mac : Client, addr : Wanted]

TypeOK ==
    /\ lease \in [Slot -> [mac : Client \cup {NoMac}, expiry : 0..(Wrap - 1)]]
    /\ ticks \in 0..(Wrap - 1)
    /\ net \subseteq Message
    /\ phase \in [Client -> Phase]
    /\ want \in [Client -> Wanted]
    /\ left \in [Client -> 0..(LeaseTime + 1)]
    /\ fresh \in [Client -> BOOLEAN]
    /\ heard \in [Client -> BOOLEAN]
    /\ restarts \in 0..MaxRestarts

\* Mutant of NoLeases: the memset is missing, and the RAM holds anything.
NotCleared == [s \in Slot |-> [mac |-> NoAddr, expiry |-> Wrap]]

NoLeases == [s \in Slot |-> [mac |-> NoMac, expiry |-> 0]]

\* A client may remember an address of an earlier day or another network.
Init ==
    /\ lease = NoLeases /\ ticks = 0
    /\ net = {}
    /\ phase = [c \in Client |-> "idle"]
    /\ want \in [Client -> Wanted]
    /\ left = [c \in Client |-> 0]
    /\ fresh = [c \in Client |-> FALSE]
    /\ heard = [c \in Client |-> FALSE]
    /\ restarts = 0

-----------------------------------------------------------------------------
(* dhcp_server_process.  The answer is broadcast at once; the client gets it *)
(* or it is lost.                                                            *)

First(S) == CHOOSE s \in S : \A r \in S : s <= r

\* Mutant of Expired: the low half of the expiry taken as 0, not 0xffff.
ExpiredEarly(l) == (l.expiry + Wrap - ticks - 1) % Wrap >= Wrap \div 2

\* (int32_t)(expiry - now) < 0, for expiry = l.expiry << 16 | 0xffff.
Expired(l) == (l.expiry + Wrap - ticks) % Wrap >= Wrap \div 2

Own(c) == {s \in Slot : lease[s].mac = c}

\* The slots that the loop of DISCOVER looks at before it finds one of c.
Before(c) == {s \in Slot : \A own \in Own(c) : s < own}

Reusable(c) == {s \in Before(c) : lease[s].mac = NoMac \/ Expired(lease[s])}

\* Mutant of Erased: the address is offered, and stays in the name of the
\* client whose lease is over.
NotErased(c) == lease

\* The first slot that can be reused loses its MAC, even if c turns out to
\* have a slot further on.
Erased(c) ==
    IF Reusable(c) = {} THEN lease
    ELSE [lease EXCEPT ![First(Reusable(c))].mac = NoMac]

\* Empty when there is no address left.
Offered(c) ==
    IF Own(c) # {} THEN {First(Own(c))}
    ELSE IF Reusable(c) # {} THEN {First(Reusable(c))}
    ELSE {}

\* The client asks for the address it is offered.
TakeOffer(c, a) ==
    /\ phase[c] = "select"
    /\ want' = [want EXCEPT ![c] = a]
    /\ phase' = [phase EXCEPT ![c] = "request"]
    /\ net' = (net \ {Discover(c)}) \cup {Request(c, a)}

ServeDiscover(c) ==
    /\ Discover(c) \in net
    /\ lease' = Erased(c)
    /\ heard' = [heard EXCEPT ![c] = phase[c] = "select"]
    /\ \/ \E a \in Offered(c) : TakeOffer(c, a)
       \/ net' = net \ {Discover(c)} /\ UNCHANGED <<phase, want>>
    /\ UNCHANGED <<ticks, left, fresh, restarts>>

\* A lease that is over is not looked at here: its MAC alone decides.
Grantable(c, a) == a \in Slot /\ lease[a].mac \in {c, NoMac}

TakeAck(c, a) ==
    /\ phase[c] \in {"idle", "request"} /\ want[c] = a
    /\ left' = [left EXCEPT ![c] = LeaseTime + 1]
    /\ phase' = [phase EXCEPT ![c] = "bound"]
    /\ fresh' = [fresh EXCEPT ![c] = TRUE]
    /\ heard' = [heard EXCEPT ![c] = FALSE]

GrantRequest(c, a) ==
    /\ Request(c, a) \in net /\ Grantable(c, a)
    /\ lease' = [lease EXCEPT ![a] =
                    [mac |-> c, expiry |-> (ticks + LeaseTime) % Wrap]]
    /\ TakeAck(c, a) \/ UNCHANGED <<left, phase, fresh, heard>>
    /\ net' = net \ {Request(c, a)}
    /\ UNCHANGED <<ticks, want, restarts>>

\* Another network, no such slot, or in use: "Should be NACK" say lines 249
\* to 268, and nothing is sent.  Nor is a request granted that names no
\* address in option 50, so a client that renews is not heard.
IgnoreRequest(c, a) ==
    /\ Request(c, a) \in net /\ ~Grantable(c, a)
    /\ net' = net \ {Request(c, a)}
    /\ UNCHANGED <<serverVars, clientVars, restarts>>

ServeRequest(c) == \E a \in Wanted : GrantRequest(c, a) \/ IgnoreRequest(c, a)

\* dhcp_server_init: the leases are in RAM.  The access point goes down with
\* them, and each client joins again with the address it remembers.
Restart ==
    /\ restarts < MaxRestarts
    /\ restarts' = restarts + 1
    /\ lease' = NoLeases /\ ticks' = 0
    /\ net' = {}
    /\ phase' = [c \in Client |-> "idle"]
    /\ fresh' = [c \in Client |-> FALSE]
    /\ heard' = [c \in Client |-> FALSE]
    /\ UNCHANGED <<want, left>>

-----------------------------------------------------------------------------
(* The clients, and time.                                                    *)

CanSend(c) == Cardinality({m \in net : m.mac = c}) < MaxInFlight

\* A client that starts afresh gives up the address it had.
SendDiscover(c) ==
    /\ CanSend(c)
    /\ phase[c] # "bound"
    /\ phase' = [phase EXCEPT ![c] = "select"]
    /\ net' = net \cup {Discover(c)}
    /\ want' = [want EXCEPT ![c] = NoAddr]
    /\ left' = [left EXCEPT ![c] = 0]
    /\ fresh' = [fresh EXCEPT ![c] = FALSE]
    /\ UNCHANGED <<serverVars, heard, restarts>>

\* A client that joins asks for the address it remembers, and repeats that.
SendRequest(c) ==
    /\ CanSend(c)
    /\ phase[c] = "idle"
    /\ net' = net \cup {Request(c, want[c])}
    /\ UNCHANGED <<serverVars, clientVars, restarts>>

Leave(c) ==
    /\ phase[c] # "idle"
    /\ phase' = [phase EXCEPT ![c] = "idle"]
    /\ heard' = [heard EXCEPT ![c] = FALSE]
    /\ UNCHANGED <<serverVars, net, want, left, fresh, restarts>>

Lose == \E m \in net :
    /\ net' = net \ {m}
    /\ UNCHANGED <<serverVars, clientVars, restarts>>

Waiting(c) == phase[c] \in {"select", "request"}

\* A block is 65 s: no datagram is that late, and a client that waits for an
\* address has reached the server by then.
Tick ==
    /\ \A c \in Client : Waiting(c) => heard[c]
    /\ ticks' = (ticks + 1) % Wrap
    /\ net' = {}
    /\ heard' = [c \in Client |-> FALSE]
    /\ left' = [c \in Client |-> IF left[c] > 0 THEN left[c] - 1 ELSE 0]
    /\ fresh' = [c \in Client |-> fresh[c] /\ left[c] > 1]
    /\ phase' = [c \in Client |-> IF phase[c] = "bound" /\ left[c] = 1
                                     THEN "select" ELSE phase[c]]
    /\ UNCHANGED <<lease, want, restarts>>

Server(c) == ServeDiscover(c) \/ ServeRequest(c)
ClientStep(c) == SendDiscover(c) \/ SendRequest(c) \/ Leave(c)

Next == \/ \E c \in Client : Server(c) \/ ClientStep(c)
        \/ Lose \/ Tick \/ Restart

Spec == Init /\ [][Next]_dhcpVars

\* An answer gets through if the client asks often enough, and a client that
\* waits asks again; in the end none starts afresh while the answer to its
\* request is on the way.
Offer(c) == ServeDiscover(c) /\ phase'[c] = "request"
Acknowledge(c) == ServeRequest(c) /\ phase'[c] = "bound"
Impatient(c) ==
    /\ SendDiscover(c)
    /\ phase[c] = "request" /\ Request(c, want[c]) \in net

Fairness ==
    /\ \A c \in Client :
        /\ WF_dhcpVars(Server(c))
        /\ SF_dhcpVars(Offer(c)) /\ SF_dhcpVars(Acknowledge(c))
        /\ WF_dhcpVars(Waiting(c) /\ SendDiscover(c))
        /\ <>[][~Impatient(c)]_dhcpVars
    /\ SF_dhcpVars(Tick)

FairSpec == Spec /\ Fairness

-----------------------------------------------------------------------------
(* Properties.                                                               *)

\* No two clients use one address: what a client was given since the machine
\* started stays its own for as long as the client may use it, although the
\* server keeps only 16 bits of the end, compares them in a clock that wraps,
\* and hands out at DISCOVER what is free or over (lines 223-234).
UniqueAddress ==
    \A c, d \in Client :
        fresh[c] /\ left[c] > 0 /\ fresh[d] /\ left[d] > 0 /\ want[c] = want[d]
            => c = d

\* A client that asks for an address, and goes on asking, gets one while there
\* are as many slots as clients, in spite of lost datagrams, of one slot
\* offered to two clients and of leases that seem valid again when the clock has wrapped.
EachClientIsServed ==
    \A c \in Client : phase[c] = "select" ~> phase[c] \in {"bound", "idle"}

=============================================================================
