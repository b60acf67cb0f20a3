------------------------------ MODULE DhcpProof -----------------------------
(***************************************************************************)
(* Proofs about the DHCP server, for any number of clients and slots, any  *)
(* clock that wraps and any lease that is shorter than half of its turn.   *)
(***************************************************************************)
EXTENDS DhcpServer, TLAPS, FiniteSetTheorems, WellFoundedInduction

-----------------------------------------------------------------------------
(* The operators the model is built from.                                    *)

\* The loop over the slots finds the first of those it looks for.
LEMMA FirstSlot ==
    ASSUME NEW S \in SUBSET Slot, S # {}
    PROVE  First(S) \in S /\ First(S) \in Slot
<1> DEFINE Upto(k) == S \cap (0..k)
           F == {Upto(k) : k \in S}
<1>1. Slot \subseteq Nat /\ IsFiniteSet(Slot)
  BY SlotAssumption, FS_Interval DEF Slot
<1>2. F \subseteq FiniteSubsetsOf(Slot)
  <2>1. ASSUME NEW k \in S PROVE Upto(k) \subseteq Slot /\ IsFiniteSet(Upto(k))
    BY <1>1, FS_Subset
  <2> QED
    BY <2>1 DEF FiniteSubsetsOf
<1>3. PICK m \in S : \A k \in S : ~(<<Upto(k), Upto(m)>> \in StrictSubsetOrdering(Slot))
  <2>1. IsWellFoundedOn(StrictSubsetOrdering(Slot), FiniteSubsetsOf(Slot)) /\ F # {}
    BY FS_StrictSubsetOrderingWellFounded
  <2>2. \E x \in F : \A y \in F : ~(<<y, x>> \in StrictSubsetOrdering(Slot))
    <3> HIDE DEF F
    <3> QED
      BY <1>2, <2>1, WFMin
  <2> QED
    BY <2>2
<1>4. ASSUME NEW k \in S PROVE m <= k
  <2>1. k \in Nat /\ m \in Nat
    BY <1>1
  <2>2. SUFFICES ASSUME k < m PROVE FALSE
    BY <2>1
  <2>3. Upto(k) \subseteq Upto(m) /\ m \in Upto(m) /\ m \notin Upto(k)
    BY <2>1, <2>2
  <2>4. Upto(k) \subseteq Slot /\ Upto(m) \subseteq Slot
    OBVIOUS
  <2> QED
    BY <1>3, <2>3, <2>4 DEF StrictSubsetOrdering
<1>5. \E s \in S : \A r \in S : s <= r
  BY <1>4
<1> QED
  BY <1>5 DEF First

\* The clock, which wraps.
LEMMA Clock ==
    /\ Wrap \in Nat \ {0} /\ LeaseTime \in Nat /\ LeaseTime + 1 < Wrap
    /\ LeaseTime + 1 < Wrap \div 2
    /\ \A x \in 0..(Wrap - 1) : x % Wrap = x
    /\ \A x \in Wrap..(2 * Wrap - 1) : x % Wrap = x - Wrap
<1>1. Wrap \in Nat \ {0} /\ LeaseTime \in Nat /\ LeaseTime + 1 < Wrap
      /\ LeaseTime + 1 < Wrap \div 2
  BY WrapAssumption
<1>2. ASSUME NEW x \in 0..(Wrap - 1) PROVE x % Wrap = x
  BY <1>1
<1>3. ASSUME NEW x \in Wrap..(2 * Wrap - 1) PROVE x % Wrap = x - Wrap
  BY <1>1
<1> QED
  BY <1>1, <1>2, <1>3

\* What is left of a lease that ends at e when the clock shows t.
Remaining(e, t) == (e + Wrap - t) % Wrap

LEMMA RemainingNow ==
    ASSUME NEW t \in 0..(Wrap - 1)
    PROVE  /\ (t + LeaseTime) % Wrap \in 0..(Wrap - 1)
           /\ Remaining((t + LeaseTime) % Wrap, t) = LeaseTime
<1>1. CASE t + LeaseTime < Wrap
  <2>1. (t + LeaseTime) % Wrap = t + LeaseTime
    BY <1>1, Clock
  <2>2. t + LeaseTime + Wrap - t \in Wrap..(2 * Wrap - 1)
        /\ t + LeaseTime + Wrap - t - Wrap = LeaseTime
    BY Clock
  <2>3. Remaining(t + LeaseTime, t) = LeaseTime
    BY <2>2, Clock DEF Remaining
  <2> QED
    BY <1>1, <2>1, <2>3, Clock
<1>2. CASE t + LeaseTime >= Wrap
  <2>1. (t + LeaseTime) % Wrap = t + LeaseTime - Wrap
    BY <1>2, Clock
  <2>2. t + LeaseTime - Wrap + Wrap - t \in 0..(Wrap - 1)
        /\ t + LeaseTime - Wrap + Wrap - t = LeaseTime
    BY Clock
  <2>3. Remaining(t + LeaseTime - Wrap, t) = LeaseTime
    BY <2>2, Clock DEF Remaining
  <2> QED
    BY <1>2, <2>1, <2>3, Clock
<1> QED
  BY <1>1, <1>2, Clock

\* A block later there is one block less.
LEMMA RemainingLater ==
    ASSUME NEW t \in 0..(Wrap - 1), NEW e \in 0..(Wrap - 1)
    PROVE  /\ (t + 1) % Wrap \in 0..(Wrap - 1)
           /\ Remaining(e, t) \in 0..(Wrap - 1)
           /\ Remaining(e, t) > 0 => Remaining(e, (t + 1) % Wrap) = Remaining(e, t) - 1
<1> DEFINE u == (t + 1) % Wrap
<1>1. u = IF t = Wrap - 1 THEN 0 ELSE t + 1
  <2>1. CASE t = Wrap - 1
    BY <2>1, Clock
  <2>2. CASE t # Wrap - 1
    BY <2>2, Clock
  <2> QED
    BY <2>1, <2>2
<1> HIDE DEF u
<1>2. ASSUME NEW v \in 0..(Wrap - 1)
      PROVE  Remaining(e, v) = IF e >= v THEN e - v ELSE e + Wrap - v
  <2>1. CASE e >= v
    <3>1. e + Wrap - v \in Wrap..(2 * Wrap - 1) /\ e + Wrap - v - Wrap = e - v
      BY <2>1, Clock
    <3> QED
      BY <2>1, <3>1, Clock DEF Remaining
  <2>2. CASE e < v
    <3>1. e + Wrap - v \in 0..(Wrap - 1)
      BY <2>2, Clock
    <3> QED
      BY <2>2, <3>1, Clock DEF Remaining
  <2> QED
    BY <2>1, <2>2, Clock
<1>3. u \in 0..(Wrap - 1)
  BY <1>1, Clock
<1>4. Remaining(e, t) \in 0..(Wrap - 1)
  BY <1>2, Clock
<1>5. Remaining(e, t) > 0 => Remaining(e, u) = Remaining(e, t) - 1
  BY <1>1, <1>2, <1>3, Clock
<1> QED
  BY <1>3, <1>4, <1>5 DEF u

\* A lease that was renewed less than LeaseTime ago is not over.
LEMMA NotExpired ==
    ASSUME NEW l, Remaining(l.expiry, ticks) <= LeaseTime, Remaining(l.expiry, ticks) \in Nat
    PROVE  ~Expired(l)
  BY Clock DEF Expired, Remaining

Lease == [mac : Client \cup {NoMac}, expiry : 0..(Wrap - 1)]

\* What DISCOVER erases: nothing, or the MAC of a slot that is free or over.
LEMMA ErasedSlot ==
    ASSUME TypeOK, NEW c \in Client
    PROVE  \/ Erased(c) = lease
           \/ \E s \in Slot : /\ lease[s].mac = NoMac \/ Expired(lease[s])
                              /\ Erased(c) = [lease EXCEPT ![s].mac = NoMac]
<1>1. CASE Reusable(c) = {}
  BY <1>1 DEF Erased
<1>2. CASE Reusable(c) # {}
  <2>1. Reusable(c) \in SUBSET Slot
    BY DEF Reusable, Before
  <2> DEFINE s == First(Reusable(c))
  <2>2. s \in Reusable(c) /\ s \in Slot
    BY <1>2, <2>1, FirstSlot
  <2>3. lease[s].mac = NoMac \/ Expired(lease[s])
    BY <2>2 DEF Reusable
  <2>4. Erased(c) = [lease EXCEPT ![s].mac = NoMac]
    BY <1>2 DEF Erased
  <2> QED
    BY <2>2, <2>3, <2>4
<1> QED
  BY <1>1, <1>2

LEMMA OfferedSlots == ASSUME NEW c \in Client PROVE Offered(c) \subseteq Slot
<1>1. Own(c) \in SUBSET Slot /\ Reusable(c) \in SUBSET Slot
  BY DEF Own, Reusable, Before
<1>2. Own(c) # {} => First(Own(c)) \in Slot
  BY <1>1, FirstSlot
<1>3. Reusable(c) # {} => First(Reusable(c)) \in Slot
  BY <1>1, FirstSlot
<1> QED
  BY <1>2, <1>3 DEF Offered

\* The lease table and the other slots after a step on slot s.
LEMMA LeaseUpdate ==
    ASSUME NEW t \in [Slot -> Lease], NEW s \in Slot, NEW e \in 0..(Wrap - 1), NEW c \in Client
    PROVE  /\ [t EXCEPT ![s].mac = NoMac] \in [Slot -> Lease]
           /\ \A r \in Slot \ {s} : [t EXCEPT ![s].mac = NoMac][r] = t[r]
           /\ [t EXCEPT ![s] = [mac |-> c, expiry |-> e]] \in [Slot -> Lease]
           /\ \A r \in Slot \ {s} : [t EXCEPT ![s] = [mac |-> c, expiry |-> e]][r] = t[r]
           /\ [t EXCEPT ![s] = [mac |-> c, expiry |-> e]][s] = [mac |-> c, expiry |-> e]
<1>1. [mac |-> c, expiry |-> e] \in Lease
  BY DEF Lease
<1>2. [t[s] EXCEPT !.mac = NoMac] \in Lease
  BY DEF Lease
<1>3. [t EXCEPT ![s].mac = NoMac] = [t EXCEPT ![s] = [t[s] EXCEPT !.mac = NoMac]]
  OBVIOUS
<1> HIDE DEF Lease
<1> QED
  BY <1>1, <1>2, <1>3

-----------------------------------------------------------------------------
(* The inductive invariant.                                                  *)

\* A client that holds an address is in the lease table, and its lease there
\* does not end before the client's own.
Holds(c) == fresh[c] /\ left[c] > 0

HolderInv(c) ==
    Holds(c) =>
        /\ want[c] \in Slot
        /\ lease[want[c]].mac = c
        /\ Remaining(lease[want[c]].expiry, ticks) <= LeaseTime
        /\ left[c] <= Remaining(lease[want[c]].expiry, ticks) + 1

\* A client that waits for an address has given up the one it had.
AskerInv(c) == phase[c] \in {"select", "request"} => left[c] = 0

DhcpInv ==
    /\ TypeOK
    /\ \A c \in Client : HolderInv(c) /\ AskerInv(c)

LEMMA InitInv == Init => DhcpInv
<1> SUFFICES ASSUME Init PROVE DhcpInv
  OBVIOUS
<1> USE DEF Init
<1>1. Wrap \in Nat /\ Wrap > 0 /\ LeaseTime \in Nat /\ MaxRestarts \in Nat
  BY Clock, BoundAssumption
<1>2. NoLeases \in [Slot -> Lease]
  BY <1>1 DEF NoLeases, Lease
<1>3. TypeOK
  BY <1>1, <1>2 DEF TypeOK, Lease, Phase
<1>4. \A c \in Client : HolderInv(c) /\ AskerInv(c)
  BY DEF HolderInv, AskerInv, Holds
<1> QED
  BY <1>3, <1>4 DEF DhcpInv

\* What a holder knows of its lease.
LEMMA HolderLease ==
    ASSUME DhcpInv, NEW c \in Client, Holds(c)
    PROVE  /\ want[c] \in Slot /\ lease[want[c]].mac = c /\ c # NoMac
           /\ lease[want[c]].expiry \in 0..(Wrap - 1) /\ ticks \in 0..(Wrap - 1)
           /\ Remaining(lease[want[c]].expiry, ticks) \in Nat
           /\ left[c] \in Nat /\ left[c] > 0
           /\ ~Expired(lease[want[c]])
<1>1. HolderInv(c) /\ TypeOK
  BY DEF DhcpInv
<1>2. want[c] \in Slot /\ lease[want[c]].mac = c /\ c # NoMac
  BY <1>1, ValueAssumption DEF HolderInv
<1>3. lease[want[c]].expiry \in 0..(Wrap - 1) /\ ticks \in 0..(Wrap - 1)
  BY <1>1, <1>2 DEF TypeOK
<1>4. Remaining(lease[want[c]].expiry, ticks) \in 0..(Wrap - 1)
  BY <1>3, RemainingLater
<1>5. left[c] \in Nat /\ left[c] > 0
  BY <1>1, Clock DEF TypeOK, Holds
<1>6. Remaining(lease[want[c]].expiry, ticks) \in Nat
  BY <1>4, Clock
<1>7. ~Expired(lease[want[c]])
  BY <1>1, <1>6, NotExpired DEF HolderInv
<1> QED
  BY <1>2, <1>3, <1>5, <1>6, <1>7

-----------------------------------------------------------------------------
(* Steps.                                                                    *)

LEMMA StillHolds ==
    ASSUME DhcpInv, NEW d \in Client, ticks' = ticks,
           want'[d] = want[d], fresh'[d] = fresh[d], left'[d] = left[d],
           Holds(d) => lease'[want[d]] = lease[want[d]]
    PROVE  HolderInv(d)'
<1>1. HolderInv(d)
  BY DEF DhcpInv
<1>2. Holds(d)' => Holds(d)
  BY DEF Holds
<1> QED
  BY <1>1, <1>2 DEF HolderInv

\* A client that waits for an address holds none.
LEMMA AskerHoldsNone ==
    ASSUME DhcpInv, NEW c \in Client, phase[c] \in {"select", "request"}
    PROVE  ~Holds(c) /\ left[c] = 0
  BY DEF DhcpInv, AskerInv, Holds

LEMMA DiscoverInv ==
    ASSUME DhcpInv, NEW c \in Client, ServeDiscover(c)
    PROVE  DhcpInv'
<1>1. TypeOK
  BY DEF DhcpInv
<1>2. /\ lease' = Erased(c)
      /\ heard' = [heard EXCEPT ![c] = phase[c] = "select"]
      /\ ticks' = ticks /\ left' = left /\ fresh' = fresh /\ restarts' = restarts
  BY DEF ServeDiscover
<1>3. \/ \E a \in Slot : /\ phase[c] = "select"
                         /\ want' = [want EXCEPT ![c] = a]
                         /\ phase' = [phase EXCEPT ![c] = "request"]
                         /\ net' = (net \ {Discover(c)}) \cup {Request(c, a)}
      \/ net' = net \ {Discover(c)} /\ phase' = phase /\ want' = want
  BY OfferedSlots DEF ServeDiscover, TakeOffer
<1>4. lease \in [Slot -> Lease]
  BY <1>1 DEF TypeOK, Lease
<1>5. \/ lease' = lease
      \/ \E s \in Slot : /\ lease[s].mac = NoMac \/ Expired(lease[s])
                         /\ lease' \in [Slot -> Lease]
                         /\ \A r \in Slot \ {s} : lease'[r] = lease[r]
  <2>1. ASSUME NEW s \in Slot, lease[s].mac = NoMac \/ Expired(lease[s]),
               Erased(c) = [lease EXCEPT ![s].mac = NoMac]
        PROVE  lease' \in [Slot -> Lease] /\ \A r \in Slot \ {s} : lease'[r] = lease[r]
    <3>1. 0 \in 0..(Wrap - 1)
      BY Clock
    <3> DEFINE t == [lease EXCEPT ![s].mac = NoMac]
    <3>2. t \in [Slot -> Lease] /\ \A r \in Slot \ {s} : t[r] = lease[r]
      BY <1>4, <3>1, LeaseUpdate, Zenon
    <3>3. lease' = t
      BY <1>2, <2>1
    <3> HIDE DEF t
    <3> QED
      BY <3>2, <3>3
  <2> QED
    BY <1>1, <1>2, <2>1, ErasedSlot
<1>6. TypeOK'
  <2>1. lease' \in [Slot -> [mac : Client \cup {NoMac}, expiry : 0..(Wrap - 1)]]
    BY <1>4, <1>5 DEF Lease
  <2>2. want' \in [Client -> Wanted] /\ phase' \in [Client -> Phase]
    BY <1>1, <1>3 DEF TypeOK, Wanted, Phase
  <2>3. net' \subseteq Message
    BY <1>1, <1>3 DEF TypeOK, Message, Request, Wanted
  <2>4. heard' \in [Client -> BOOLEAN]
    BY <1>1, <1>2, Zenon DEF TypeOK
  <2> QED
    BY <1>1, <1>2, <2>1, <2>2, <2>3, <2>4, Zenon DEF TypeOK
<1>7. ASSUME NEW d \in Client PROVE HolderInv(d)'
  <2>1. CASE Holds(d)
    <3>1. want'[d] = want[d]
      BY <1>1, <1>3, <2>1, AskerHoldsNone DEF TypeOK
    <3>2. lease'[want[d]] = lease[want[d]]
      BY <1>5, <2>1, HolderLease
    <3> QED
      BY <1>2, <3>1, <3>2, StillHolds
  <2>2. CASE ~Holds(d)
    BY <1>2, <2>2 DEF HolderInv, Holds
  <2> QED
    BY <2>1, <2>2
<1>8. ASSUME NEW d \in Client PROVE AskerInv(d)'
  <2>1. AskerInv(d) /\ (phase'[d] = phase[d] \/ phase[d] = "select")
    BY <1>1, <1>3 DEF DhcpInv, TypeOK
  <2> QED
    BY <1>2, <2>1 DEF AskerInv
<1> QED
  BY <1>6, <1>7, <1>8 DEF DhcpInv

LEMMA GrantInv ==
    ASSUME DhcpInv, NEW c \in Client, NEW a \in Wanted, GrantRequest(c, a)
    PROVE  DhcpInv'
<1>1. TypeOK
  BY DEF DhcpInv
<1> DEFINE e == (ticks + LeaseTime) % Wrap
<1>2. /\ a \in Slot /\ lease[a].mac \in {c, NoMac}
      /\ lease' = [lease EXCEPT ![a] = [mac |-> c, expiry |-> e]]
      /\ net' = net \ {Request(c, a)}
      /\ ticks' = ticks /\ want' = want /\ restarts' = restarts
  BY DEF GrantRequest, Grantable
<1>3. \/ /\ want[c] = a
         /\ left' = [left EXCEPT ![c] = LeaseTime + 1]
         /\ phase' = [phase EXCEPT ![c] = "bound"]
         /\ fresh' = [fresh EXCEPT ![c] = TRUE]
         /\ heard' = [heard EXCEPT ![c] = FALSE]
      \/ left' = left /\ phase' = phase /\ fresh' = fresh /\ heard' = heard
  BY DEF GrantRequest, TakeAck
<1>4. ticks \in 0..(Wrap - 1) /\ e \in 0..(Wrap - 1) /\ Remaining(e, ticks) = LeaseTime
  BY <1>1, RemainingNow DEF TypeOK
<1> HIDE DEF e
<1>5. /\ lease' \in [Slot -> Lease]
      /\ lease'[a] = [mac |-> c, expiry |-> e]
      /\ \A r \in Slot \ {a} : lease'[r] = lease[r]
  BY <1>1, <1>2, <1>4, LeaseUpdate DEF TypeOK, Lease
<1>6. TypeOK'
  <2>1. lease' \in [Slot -> [mac : Client \cup {NoMac}, expiry : 0..(Wrap - 1)]]
    BY <1>5 DEF Lease
  <2>2. left' \in [Client -> 0..(LeaseTime + 1)] /\ phase' \in [Client -> Phase]
    <3>1. LeaseTime + 1 \in 0..(LeaseTime + 1)
      BY Clock
    <3> QED
      BY <1>1, <1>3, <3>1 DEF TypeOK, Phase
  <2>3. fresh' \in [Client -> BOOLEAN] /\ heard' \in [Client -> BOOLEAN]
    <3>1. TRUE \in BOOLEAN /\ FALSE \in BOOLEAN
      OBVIOUS
    <3> QED
      BY <1>1, <1>3, <3>1, Zenon DEF TypeOK
  <2>4. net' \subseteq Message
    BY <1>1, <1>2 DEF TypeOK
  <2> QED
    BY <1>1, <1>2, <2>1, <2>2, <2>3, <2>4, Zenon DEF TypeOK
<1>7. ASSUME NEW d \in Client, d # c PROVE HolderInv(d)'
  \* d is not in slot a, which was c's or free.
  <2>1. Holds(d) => want[d] # a /\ want[d] \in Slot
    BY <1>2, <1>7, HolderLease
  <2>2. Holds(d) => lease'[want[d]] = lease[want[d]]
    BY <1>5, <2>1
  <2>3. left'[d] = left[d] /\ fresh'[d] = fresh[d]
    BY <1>1, <1>3, <1>7, Zenon DEF TypeOK
  <2> QED
    BY <1>2, <2>2, <2>3, StillHolds
<1>8. HolderInv(c)'
  <2>1. SUFFICES ASSUME Holds(c)' PROVE HolderInv(c)'
    BY DEF HolderInv
  <2>2. CASE want[c] = a
    <3>1. lease'[want'[c]].mac = c /\ lease'[want'[c]].expiry = e
      BY <1>2, <1>5, <2>2
    <3>2. left'[c] <= LeaseTime + 1
      BY <1>6, Clock DEF TypeOK
    <3> QED
      BY <1>2, <1>4, <2>2, <3>1, <3>2, Clock DEF HolderInv
  <2>3. CASE want[c] # a
    <3>1. left' = left /\ fresh' = fresh
      BY <1>3, <2>3
    <3>2. Holds(c) => lease'[want[c]] = lease[want[c]]
      BY <1>5, <2>3, HolderLease
    <3> QED
      BY <1>2, <3>1, <3>2, StillHolds
  <2> QED
    BY <2>2, <2>3
<1>9. ASSUME NEW d \in Client PROVE AskerInv(d)'
  <2>1. AskerInv(d)
    BY DEF DhcpInv
  <2>2. phase'[d] = "bound" \/ (phase'[d] = phase[d] /\ left'[d] = left[d])
    BY <1>1, <1>3 DEF TypeOK
  <2> QED
    BY <2>1, <2>2 DEF AskerInv
<1> QED
  BY <1>6, <1>7, <1>8, <1>9 DEF DhcpInv

LEMMA TickInv == DhcpInv /\ Tick => DhcpInv'
<1> SUFFICES ASSUME DhcpInv, Tick PROVE DhcpInv'
  OBVIOUS
<1>1. TypeOK
  BY DEF DhcpInv
<1>2. ticks' = (ticks + 1) % Wrap /\ net' = {} /\ lease' = lease /\ want' = want
      /\ restarts' = restarts
  BY DEF Tick
<1>3. ticks \in 0..(Wrap - 1) /\ ticks' \in 0..(Wrap - 1)
  BY <1>1, <1>2, RemainingLater DEF TypeOK
<1>4. ASSUME NEW c \in Client
      PROVE  /\ left[c] \in 0..(LeaseTime + 1) /\ left[c] \in Nat
             /\ left'[c] = IF left[c] > 0 THEN left[c] - 1 ELSE 0
             /\ left'[c] \in 0..(LeaseTime + 1)
  <2>1. left[c] \in 0..(LeaseTime + 1) /\ left[c] \in Nat
    BY <1>1, Clock DEF TypeOK
  <2>2. left'[c] = IF left[c] > 0 THEN left[c] - 1 ELSE 0
    BY DEF Tick
  <2> QED
    BY <2>1, <2>2, Clock
<1>5. ASSUME NEW c \in Client
      PROVE  /\ fresh'[c] = (fresh[c] /\ left[c] > 1)
             /\ fresh'[c] \in BOOLEAN
             /\ phase'[c] = IF phase[c] = "bound" /\ left[c] = 1 THEN "select" ELSE phase[c]
             /\ phase'[c] \in Phase
  <2>1. fresh'[c] = (fresh[c] /\ left[c] > 1)
    BY Zenon DEF Tick
  <2>2. phase'[c] = IF phase[c] = "bound" /\ left[c] = 1 THEN "select" ELSE phase[c]
    BY DEF Tick
  <2>3. phase'[c] \in Phase
    BY <1>1, <2>2 DEF TypeOK, Phase
  <2>4. fresh'[c] \in BOOLEAN
    BY <2>1
  <2> QED
    BY <2>1, <2>2, <2>3, <2>4
<1>6. TypeOK'
  <2>1. left' \in [Client -> 0..(LeaseTime + 1)]
    <3>1. left' = [c \in Client |-> left'[c]]
      BY DEF Tick
    <3> QED
      BY <1>4, <3>1
  <2>2. phase' \in [Client -> Phase]
    <3>1. phase' = [c \in Client |-> phase'[c]]
      BY DEF Tick
    <3> QED
      BY <1>5, <3>1
  <2>3. fresh' \in [Client -> BOOLEAN]
    <3>1. fresh' = [c \in Client |-> fresh'[c]]
      BY Zenon DEF Tick
    <3> QED
      BY <1>5, <3>1, Zenon
  <2>4. heard' \in [Client -> BOOLEAN]
    BY DEF Tick
  <2>5. net' \subseteq Message
    BY <1>2
  <2> QED
    BY <1>1, <1>2, <1>3, <2>1, <2>2, <2>3, <2>4, <2>5, Zenon DEF TypeOK
<1>7. ASSUME NEW c \in Client PROVE HolderInv(c)'
  <2>1. SUFFICES ASSUME Holds(c)' PROVE HolderInv(c)'
    BY DEF HolderInv
  <2>2. fresh[c] /\ left[c] > 1
    BY <1>5, <2>1, Zenon DEF Holds
  <2>3. Holds(c)
    BY <1>4, <2>2 DEF Holds
  <2>4. HolderInv(c)
    BY DEF DhcpInv
  <2> DEFINE e == lease[want[c]].expiry
  <2>5. /\ want[c] \in Slot /\ lease[want[c]].mac = c
        /\ Remaining(e, ticks) <= LeaseTime /\ left[c] <= Remaining(e, ticks) + 1
        /\ e \in 0..(Wrap - 1) /\ Remaining(e, ticks) \in Nat
    BY <2>3, <2>4, HolderLease DEF HolderInv
  <2>6. Remaining(e, ticks) > 0
    BY <1>4, <2>2, <2>5
  <2>7. Remaining(e, ticks') = Remaining(e, ticks) - 1
    BY <1>2, <1>3, <2>5, <2>6, RemainingLater
  <2>8. Remaining(e, ticks') <= LeaseTime /\ left'[c] <= Remaining(e, ticks') + 1
    BY <1>4, <2>2, <2>5, <2>6, <2>7, Clock
  <2> QED
    BY <1>2, <2>5, <2>8 DEF HolderInv
<1>8. ASSUME NEW c \in Client PROVE AskerInv(c)'
  <2>1. AskerInv(c)
    BY DEF DhcpInv
  <2> QED
    BY <1>4, <1>5, <2>1 DEF AskerInv
<1> QED
  BY <1>6, <1>7, <1>8 DEF DhcpInv

LEMMA SendDiscoverInv ==
    ASSUME DhcpInv, NEW c \in Client, SendDiscover(c)
    PROVE  DhcpInv'
<1>1. TypeOK
  BY DEF DhcpInv
<1>2. /\ phase' = [phase EXCEPT ![c] = "select"]
      /\ net' = net \cup {Discover(c)}
      /\ want' = [want EXCEPT ![c] = NoAddr]
      /\ left' = [left EXCEPT ![c] = 0]
      /\ fresh' = [fresh EXCEPT ![c] = FALSE]
      /\ lease' = lease /\ ticks' = ticks /\ heard' = heard /\ restarts' = restarts
  BY DEF SendDiscover, serverVars
<1>3. TypeOK'
  <2>1. phase' \in [Client -> Phase] /\ want' \in [Client -> Wanted]
    BY <1>1, <1>2 DEF TypeOK, Phase, Wanted
  <2>2. left' \in [Client -> 0..(LeaseTime + 1)]
    BY <1>1, <1>2, Clock DEF TypeOK
  <2>3. fresh' \in [Client -> BOOLEAN]
    BY <1>1, <1>2 DEF TypeOK
  <2>4. net' \subseteq Message
    BY <1>1, <1>2 DEF TypeOK, Message, Discover, Wanted
  <2> QED
    BY <1>1, <1>2, <2>1, <2>2, <2>3, <2>4, Zenon DEF TypeOK
<1>4. ASSUME NEW d \in Client PROVE HolderInv(d)' /\ AskerInv(d)'
  <2>1. CASE d = c
    <3>1. left'[d] = 0
      BY <1>1, <1>2, <2>1 DEF TypeOK
    <3> QED
      BY <3>1 DEF HolderInv, AskerInv, Holds
  <2>2. CASE d # c
    <3>1. /\ phase'[d] = phase[d] /\ want'[d] = want[d] /\ left'[d] = left[d]
          /\ fresh'[d] = fresh[d]
      BY <1>1, <1>2, <2>2, Zenon DEF TypeOK
    <3>2. HolderInv(d)'
      BY <1>2, <3>1, StillHolds
    <3> QED
      BY <3>1, <3>2 DEF DhcpInv, AskerInv
  <2> QED
    BY <2>1, <2>2
<1> QED
  BY <1>3, <1>4 DEF DhcpInv

LEMMA LeaveInv ==
    ASSUME DhcpInv, NEW c \in Client, Leave(c)
    PROVE  DhcpInv'
<1>1. TypeOK
  BY DEF DhcpInv
<1>2. /\ phase' = [phase EXCEPT ![c] = "idle"]
      /\ heard' = [heard EXCEPT ![c] = FALSE]
      /\ lease' = lease /\ ticks' = ticks /\ net' = net /\ want' = want
      /\ left' = left /\ fresh' = fresh /\ restarts' = restarts
  BY DEF Leave, serverVars
<1>3. TypeOK'
  <2>1. phase' \in [Client -> Phase]
    BY <1>1, <1>2 DEF TypeOK, Phase
  <2>2. heard' \in [Client -> BOOLEAN]
    BY <1>1, <1>2 DEF TypeOK
  <2> QED
    BY <1>1, <1>2, <2>1, <2>2, Zenon DEF TypeOK
<1>4. ASSUME NEW d \in Client PROVE HolderInv(d)' /\ AskerInv(d)'
  <2>1. HolderInv(d)'
    BY <1>2, StillHolds
  <2>2. phase'[d] \in {phase[d], "idle"} /\ AskerInv(d)
    BY <1>1, <1>2 DEF DhcpInv, TypeOK
  <2> QED
    BY <1>2, <2>1, <2>2 DEF AskerInv
<1> QED
  BY <1>3, <1>4 DEF DhcpInv

LEMMA RestartInv == DhcpInv /\ Restart => DhcpInv'
<1> SUFFICES ASSUME DhcpInv, Restart PROVE DhcpInv'
  OBVIOUS
<1>1. TypeOK
  BY DEF DhcpInv
<1>2. Wrap \in Nat /\ Wrap > 0 /\ MaxRestarts \in Nat
  BY Clock, BoundAssumption
<1>3. TypeOK'
  <2>1. NoLeases \in [Slot -> [mac : Client \cup {NoMac}, expiry : 0..(Wrap - 1)]]
    BY <1>2 DEF NoLeases
  <2>2. restarts' \in 0..MaxRestarts
    BY <1>1, <1>2 DEF TypeOK, Restart
  <2>3. ticks' \in 0..(Wrap - 1) /\ net' \subseteq Message
    BY <1>2 DEF Restart
  <2>4. phase' \in [Client -> Phase]
    BY DEF Restart, Phase
  <2>5. fresh' \in [Client -> BOOLEAN] /\ heard' \in [Client -> BOOLEAN]
    BY DEF Restart
  <2>6. want' \in [Client -> Wanted] /\ left' \in [Client -> 0..(LeaseTime + 1)]
        /\ lease' = NoLeases
    BY <1>1 DEF TypeOK, Restart
  <2> QED
    BY <2>1, <2>2, <2>3, <2>4, <2>5, <2>6, Zenon DEF TypeOK
<1>4. ASSUME NEW d \in Client PROVE HolderInv(d)' /\ AskerInv(d)'
  <2>1. fresh'[d] = FALSE /\ phase'[d] = "idle"
    BY DEF Restart
  <2> QED
    BY <2>1 DEF HolderInv, AskerInv, Holds
<1> QED
  BY <1>3, <1>4 DEF DhcpInv

\* Steps of the network and of the clients that change no more than net.
LEMMA NetInv ==
    ASSUME DhcpInv, net' \subseteq Message,
           UNCHANGED <<serverVars, clientVars, restarts>>
    PROVE  DhcpInv'
<1>1. /\ lease' = lease /\ ticks' = ticks /\ phase' = phase /\ want' = want
      /\ left' = left /\ fresh' = fresh /\ heard' = heard /\ restarts' = restarts
  BY DEF serverVars, clientVars
<1>2. TypeOK'
  BY <1>1, Zenon DEF DhcpInv, TypeOK
<1>3. ASSUME NEW d \in Client PROVE HolderInv(d)' /\ AskerInv(d)'
  BY <1>1, StillHolds DEF DhcpInv, AskerInv
<1> QED
  BY <1>2, <1>3 DEF DhcpInv

LEMMA NextInv == DhcpInv /\ [Next]_dhcpVars => DhcpInv'
<1> SUFFICES ASSUME DhcpInv, [Next]_dhcpVars PROVE DhcpInv'
  OBVIOUS
<1>1. net \subseteq Message
  BY DEF DhcpInv, TypeOK
<1>2. ASSUME NEW c \in Client, ServeDiscover(c) PROVE DhcpInv'
  BY <1>2, DiscoverInv
<1>3. ASSUME NEW c \in Client, NEW a \in Wanted, GrantRequest(c, a) PROVE DhcpInv'
  BY <1>3, GrantInv
<1>4. ASSUME NEW c \in Client, NEW a \in Wanted, IgnoreRequest(c, a) PROVE DhcpInv'
  BY <1>1, <1>4, NetInv DEF IgnoreRequest
<1>5. ASSUME NEW c \in Client, SendDiscover(c) PROVE DhcpInv'
  BY <1>5, SendDiscoverInv
<1>6. ASSUME NEW c \in Client, SendRequest(c) PROVE DhcpInv'
  <2>1. Request(c, want[c]) \in Message
    BY DEF DhcpInv, TypeOK, Request, Message
  <2> QED
    BY <1>1, <1>6, <2>1, NetInv DEF SendRequest
<1>7. ASSUME NEW c \in Client, Leave(c) PROVE DhcpInv'
  BY <1>7, LeaveInv
<1>8. CASE Lose
  BY <1>1, <1>8, NetInv DEF Lose
<1>9. CASE Tick
  BY <1>9, TickInv
<1>10. CASE Restart
  BY <1>10, RestartInv
<1>11. CASE UNCHANGED dhcpVars
  BY <1>1, <1>11, NetInv DEF dhcpVars
<1> QED
  BY <1>2, <1>3, <1>4, <1>5, <1>6, <1>7, <1>8, <1>9, <1>10, <1>11
  DEF Next, Server, ClientStep, ServeRequest

LEMMA Invariance == Spec => []DhcpInv
  BY InitInv, NextInv, PTL DEF Spec

-----------------------------------------------------------------------------
(* The theorems.                                                             *)

\* Types, for any clients, slots, clock and bounds: the slot a DISCOVER erases
\* and offers exists, and no expiry outgrows its 16 bits.
THEOREM TypeCorrect == Spec => []TypeOK
<1>1. DhcpInv => TypeOK
  BY DEF DhcpInv
<1> QED
  BY <1>1, Invariance, PTL

\* No two clients use one address, whatever datagrams are lost or repeated and
\* wherever the clock wraps.
THEOREM AddressesAreUnique == Spec => []UniqueAddress
<1>1. DhcpInv => UniqueAddress
  <2> SUFFICES ASSUME DhcpInv, NEW c \in Client, NEW d \in Client,
                      Holds(c), Holds(d), want[c] = want[d]
               PROVE  c = d
    BY DEF UniqueAddress, Holds
  <2>1. lease[want[c]].mac = c /\ lease[want[d]].mac = d
    BY HolderLease
  <2> QED
    BY <2>1
<1> QED
  BY <1>1, Invariance, PTL

=============================================================================
