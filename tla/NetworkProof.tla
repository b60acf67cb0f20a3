---------------------------- MODULE NetworkProof ----------------------------
(***************************************************************************)
(* Proofs about the web server and the key client on lwIP, for a pool of   *)
(* any size, any number of requests on a connection and of failed calls.   *)
(***************************************************************************)
EXTENDS UrnaNetwork, TLAPS, SequenceTheorems

-----------------------------------------------------------------------------
(* The operators the model is built from.                                    *)

Units == Seq(Unit)

\* What is left of a queue when its first n units are acknowledged.
LEMMA RestOfQueue ==
    ASSUME NEW s \in Units, NEW n \in 1..Len(s)
    PROVE  /\ SubSeq(s, n + 1, Len(s)) \in Units
           /\ Len(SubSeq(s, n + 1, Len(s))) = Len(s) - n
           /\ \A i \in 1..(Len(s) - n) : SubSeq(s, n + 1, Len(s))[i] = s[i + n]
<1>1. Len(s) \in Nat /\ \A i \in 1..Len(s) : s[i] \in Unit
  BY LenProperties, ElementOfSeq DEF Units
<1>2. n + 1 \in Int /\ Len(s) \in Int /\ \A i \in (n + 1)..Len(s) : s[i] \in Unit
  BY <1>1
<1> DEFINE r == SubSeq(s, n + 1, Len(s))
<1>3. /\ r \in Seq(Unit)
      /\ Len(r) = IF n + 1 <= Len(s) THEN Len(s) - (n + 1) + 1 ELSE 0
      /\ \A i \in 1..(Len(s) - (n + 1) + 1) : r[i] = s[n + 1 + i - 1]
  BY <1>2, SubSeqProperties
<1> HIDE DEF r
<1>4. Len(r) = Len(s) - n
  BY <1>1, <1>3
<1>5. ASSUME NEW i \in 1..(Len(s) - n) PROVE r[i] = s[i + n]
  <2>1. i \in 1..(Len(s) - (n + 1) + 1) /\ n + 1 + i - 1 = i + n
    BY <1>1
  <2> QED
    BY <1>3, <2>1
<1> QED
  BY <1>3, <1>4, <1>5 DEF r, Units

LEMMA QueueLength ==
    ASSUME NEW s \in Units
    PROVE  Len(s) \in Nat /\ \A i \in 1..Len(s) : s[i] \in Unit
  BY LenProperties, ElementOfSeq DEF Units

LEMMA EmptyQueue == <<>> \in Units /\ Len(<<>>) = 0
  BY EmptySeq DEF Units

\* One unit.
LEMMA OneUnit ==
    ASSUME NEW u \in Unit
    PROVE  <<u>> \in Units /\ Len(<<u>>) = 1 /\ <<u>>[1] = u
  BY DEF Units

\* One more unit.
LEMMA OneMore ==
    ASSUME NEW s \in Units, NEW u \in Unit
    PROVE  /\ Append(s, u) \in Units
           /\ Len(Append(s, u)) = Len(s) + 1
           /\ \A i \in 1..Len(s) : Append(s, u)[i] = s[i]
           /\ Append(s, u)[Len(s) + 1] = u
  BY AppendProperties DEF Units

\* A whole answer more.
LEMMA TwoMore ==
    ASSUME NEW s \in Units, NEW u \in Unit, NEW v \in Unit
    PROVE  /\ s \o <<u, v>> \in Units
           /\ Len(s \o <<u, v>>) = Len(s) + 2
           /\ \A i \in 1..Len(s) : (s \o <<u, v>>)[i] = s[i]
           /\ (s \o <<u, v>>)[Len(s) + 1] = u
           /\ (s \o <<u, v>>)[Len(s) + 2] = v
<1>1. /\ <<u, v>> \in Seq(Unit) /\ Len(<<u, v>>) = 2
      /\ <<u, v>>[1] = u /\ <<u, v>>[2] = v
  OBVIOUS
<1> DEFINE w == <<u, v>>
<1> HIDE DEF w
<1>2. Len(s) \in Nat /\ w \in Seq(Unit) /\ Len(w) = 2 /\ w[1] = u /\ w[2] = v
  BY <1>1, QueueLength DEF w
<1>3. /\ s \o w \in Seq(Unit)
      /\ Len(s \o w) = Len(s) + Len(w)
      /\ \A i \in 1..(Len(s) + Len(w)) :
            (s \o w)[i] = IF i <= Len(s) THEN s[i] ELSE w[i - Len(s)]
  BY <1>2, ConcatProperties DEF Units
<1>4. \A i \in 1..Len(s) : (s \o w)[i] = s[i]
  BY <1>2, <1>3
<1>5. (s \o w)[Len(s) + 1] = w[1] /\ (s \o w)[Len(s) + 2] = w[2]
  <2>1. Len(s) + 1 \in 1..(Len(s) + Len(w)) /\ Len(s) + 2 \in 1..(Len(s) + Len(w))
        /\ ~(Len(s) + 1 <= Len(s)) /\ ~(Len(s) + 2 <= Len(s))
        /\ Len(s) + 1 - Len(s) = 1 /\ Len(s) + 2 - Len(s) = 2
    BY <1>2
  <2> QED
    BY <1>3, <2>1
<1> QED
  BY <1>2, <1>3, <1>4, <1>5 DEF w, Units

-----------------------------------------------------------------------------
(* The inductive invariant.                                                  *)

Con == [req : 0..MaxRequests, sent_len : Nat, len : 0..2, alive : BOOLEAN]

Types ==
    /\ pcb \in [Pcb -> PcbState]
    /\ arg \in [Pcb -> {"none", "server", "client"}]
    /\ queue \in [Pcb -> Units]
    /\ seen \in [Pcb -> Nat]
    /\ con \in [Pcb -> Con]
    /\ state \in [Pcb -> {"none", "allocated"}]
    /\ once \in [Pcb -> BOOLEAN]
    /\ spoilt \in [Pcb -> BOOLEAN]
    /\ faults \in 0..MaxFaults
    /\ broken \in BOOLEAN

\* Who holds a block: the callbacks are in place exactly as long as the memory
\* they are given is allocated.
OwnerInv(p) ==
    /\ arg[p] = "server" <=> con[p].alive
    /\ arg[p] = "client" <=> state[p] = "allocated"
    /\ arg[p] = "server" => pcb[p] = "open"
    /\ pcb[p] = "connecting" => arg[p] = "client"
    /\ pcb[p] = "free" => arg[p] = "none"

\* What a block has to send, and how much of it con_state has counted.
QueueInv(p) ==
    /\ seen[p] <= Len(queue[p])
    /\ pcb[p] \in {"free", "connecting"} => Len(queue[p]) = 0
    /\ con[p].sent_len <= 2 * con[p].req
    /\ arg[p] = "server" => con[p].sent_len + Len(queue[p]) <= 2 * con[p].req

\* With one request on a connection, the buffers hold the units of its answer
\* as long as there are any to send.
AnswerInv(p) ==
    /\ arg[p] = "server" /\ con[p].req = 0 => once[p]
    /\ once[p] => /\ ~spoilt[p]
                  /\ arg[p] = "server" => con[p].req <= 1
                  /\ arg[p] = "server" /\ con[p].req = 1 => con[p].len = 2
                  /\ \A i \in 1..Len(queue[p]) :
                        queue[p][i].part # "key" => ~Stale(p, queue[p][i])

Block(p) == OwnerInv(p) /\ QueueInv(p) /\ AnswerInv(p)

NetInv == Types /\ \A p \in Pcb : Block(p)

\* A step of one block leaves the others as they are.
OnlyAt(p) ==
    \A q \in Pcb \ {p} :
        /\ pcb'[q] = pcb[q] /\ arg'[q] = arg[q] /\ queue'[q] = queue[q]
        /\ seen'[q] = seen[q] /\ con'[q] = con[q] /\ state'[q] = state[q]
        /\ once'[q] = once[q] /\ spoilt'[q] = spoilt[q]

\* What has to be shown of a step of p.
StepInv(p) == Types' /\ OnlyAt(p) /\ Block(p)'

LEMMA OtherBlocks ==
    ASSUME NetInv, NEW p \in Pcb, StepInv(p)
    PROVE  NetInv'
<1>1. ASSUME NEW q \in Pcb \ {p} PROVE Block(q)'
  <2>1. Block(q)
    BY <1>1 DEF NetInv
  <2>2. /\ pcb'[q] = pcb[q] /\ arg'[q] = arg[q] /\ queue'[q] = queue[q]
        /\ seen'[q] = seen[q] /\ con'[q] = con[q] /\ state'[q] = state[q]
        /\ once'[q] = once[q] /\ spoilt'[q] = spoilt[q]
    BY <1>1 DEF StepInv, OnlyAt
  <2> QED
    BY <2>1, <2>2, Zenon DEF Block, OwnerInv, QueueInv, AnswerInv, Stale
<1> QED
  BY <1>1 DEF NetInv, StepInv

\* The facts about one block that the steps are proved from.
LEMMA BlockTypes ==
    ASSUME Types, NEW p \in Pcb
    PROVE  /\ pcb[p] \in PcbState /\ arg[p] \in {"none", "server", "client"}
           /\ queue[p] \in Units /\ Len(queue[p]) \in Nat /\ seen[p] \in Nat
           /\ con[p] \in Con /\ con[p].req \in 0..MaxRequests
           /\ con[p].sent_len \in Nat /\ con[p].len \in 0..2
           /\ con[p].alive \in BOOLEAN /\ state[p] \in {"none", "allocated"}
           /\ once[p] \in BOOLEAN /\ spoilt[p] \in BOOLEAN
           /\ MaxRequests \in Nat
<1>1. /\ pcb[p] \in PcbState /\ arg[p] \in {"none", "server", "client"}
      /\ queue[p] \in Units /\ seen[p] \in Nat
      /\ con[p] \in Con /\ state[p] \in {"none", "allocated"}
  BY DEF Types
<1>2. once[p] \in BOOLEAN /\ spoilt[p] \in BOOLEAN
  BY DEF Types
<1>3. /\ con[p].req \in 0..MaxRequests
      /\ con[p].sent_len \in Nat /\ con[p].len \in 0..2
      /\ con[p].alive \in BOOLEAN
  BY <1>1 DEF Con
<1> QED
  BY <1>1, <1>2, <1>3, QueueLength, BoundAssumption

LEMMA NoConType == NoCon \in Con /\ NoCon.alive = FALSE /\ NoCon.req = 0 /\ NoCon.sent_len = 0
<1>1. 0 \in 0..MaxRequests /\ 0 \in Nat /\ 0 \in 0..2
  BY BoundAssumption
<1>2. NoCon \in Con
  BY <1>1, Zenon DEF NoCon, Con
<1>3. NoCon.alive = FALSE /\ NoCon.req = 0 /\ NoCon.sent_len = 0
  BY DEF NoCon
<1> QED
  BY <1>2, <1>3

LEMMA FreshConType ==
    FreshCon \in Con /\ FreshCon.alive = TRUE /\ FreshCon.req = 0 /\ FreshCon.sent_len = 0
<1> DEFINE c == NoCon
<1>1. c \in Con /\ c.req = 0 /\ c.sent_len = 0 /\ FreshCon = [c EXCEPT !.alive = TRUE]
  BY NoConType DEF FreshCon
<1> HIDE DEF c
<1> QED
  BY <1>1 DEF Con

LEMMA InitInv == Init => NetInv
<1> SUFFICES ASSUME Init PROVE NetInv
  OBVIOUS
<1> USE DEF Init, TcpInit, HttpInit, KeyInit
<1>1. Types
  <2>1. pcb \in [Pcb -> PcbState] /\ arg \in [Pcb -> {"none", "server", "client"}]
    BY DEF PcbState
  <2>2. queue \in [Pcb -> Units] /\ seen \in [Pcb -> Nat]
    BY EmptyQueue
  <2>3. con \in [Pcb -> Con]
    BY NoConType
  <2>4. /\ state \in [Pcb -> {"none", "allocated"}]
        /\ once \in [Pcb -> BOOLEAN] /\ spoilt \in [Pcb -> BOOLEAN]
    OBVIOUS
  <2>5. faults \in 0..MaxFaults /\ broken \in BOOLEAN
    <3>1. 0 \in 0..MaxFaults
      BY BoundAssumption
    <3> QED
      BY <3>1
  <2> QED
    BY <2>1, <2>2, <2>3, <2>4, <2>5 DEF Types
<1>2. ASSUME NEW p \in Pcb PROVE Block(p)
  <2>1. /\ pcb[p] = "free" /\ arg[p] = "none" /\ queue[p] = <<>> /\ seen[p] = 0
        /\ con[p] = NoCon /\ state[p] = "none" /\ once[p] /\ ~spoilt[p]
    OBVIOUS
  <2>2. Len(queue[p]) = 0
    BY <2>1, EmptyQueue
  <2> QED
    BY <2>1, <2>2, NoConType DEF Block, OwnerInv, QueueInv, AnswerInv
<1> QED
  BY <1>1, <1>2 DEF NetInv

-----------------------------------------------------------------------------
(* Steps that take a block from the pool or give it back.                    *)

\* A block that goes back to the pool, whoever held it.
LEMMA BlockFreed ==
    ASSUME NetInv, NEW p \in Pcb, TcpFree(p),
           con'[p].alive = FALSE, con'[p].sent_len <= 2 * con'[p].req,
           state'[p] = "none", once' = once, spoilt' = spoilt
    PROVE  Block(p)'
<1>1. /\ pcb'[p] = "free" /\ arg'[p] = "none" /\ queue'[p] = <<>> /\ seen'[p] = 0
  BY DEF TcpFree, NetInv, Types
<1>2. once[p] => ~spoilt[p]
  BY DEF NetInv, Block, AnswerInv
<1>3. Len(queue'[p]) = 0
  BY <1>1, EmptyQueue
<1>4. OwnerInv(p)'
  BY <1>1 DEF OwnerInv
<1>5. QueueInv(p)'
  BY <1>1, <1>3 DEF QueueInv
<1>6. AnswerInv(p)'
  BY <1>1, <1>2, <1>3 DEF AnswerInv
<1> QED
  BY <1>4, <1>5, <1>6 DEF Block

LEMMA AcceptInv ==
    ASSUME NetInv, NEW p \in Pcb, Accept(p), UNCHANGED keyVars
    PROVE  StepInv(p)
<1> USE DEF Accept, keyVars, NetInv, Types
<1>1. Types'
  BY FreshConType DEF PcbState
<1>2. OnlyAt(p)
  BY DEF OnlyAt
<1>3. Block(p)'
  <2>1. /\ pcb'[p] = "open" /\ arg'[p] = "server" /\ con'[p] = FreshCon
        /\ once'[p] = TRUE /\ spoilt'[p] = FALSE
        /\ queue'[p] = queue[p] /\ seen'[p] = seen[p] /\ state'[p] = state[p]
    OBVIOUS
  <2>2. Len(queue[p]) = 0 /\ seen[p] <= Len(queue[p]) /\ state[p] # "allocated"
    BY DEF Block, QueueInv, OwnerInv
  <2>3. OwnerInv(p)'
    BY <2>1, <2>2, FreshConType DEF OwnerInv
  <2>4. QueueInv(p)'
    BY <2>1, <2>2, FreshConType DEF QueueInv
  <2>5. AnswerInv(p)'
    BY <2>1, <2>2, FreshConType DEF AnswerInv
  <2> QED
    BY <2>3, <2>4, <2>5 DEF Block
<1> QED
  BY <1>1, <1>2, <1>3 DEF StepInv

LEMMA ServerErrorInv ==
    ASSUME NetInv, NEW p \in Pcb, ServerError(p), UNCHANGED keyVars
    PROVE  StepInv(p)
<1> USE DEF ServerError, TcpFree, keyVars, NetInv, Types
<1>1. Types'
  BY NoConType, EmptyQueue DEF PcbState
<1>2. OnlyAt(p)
  BY DEF OnlyAt
<1>3. Block(p)'
  <2>1. con'[p] = NoCon
    OBVIOUS
  <2>2. state'[p] = "none"
    BY DEF Block, OwnerInv
  <2>3. con'[p].alive = FALSE /\ con'[p].sent_len <= 2 * con'[p].req
    BY <2>1, NoConType
  <2> QED
    BY <2>2, <2>3, BlockFreed
<1> QED
  BY <1>1, <1>2, <1>3 DEF StepInv

\* A block of the key client, or of nobody, has no con_state.
LEMMA NoServer ==
    ASSUME NetInv, NEW p \in Pcb, arg[p] # "server"
    PROVE  con[p].alive = FALSE /\ con[p].sent_len <= 2 * con[p].req
  BY BlockTypes DEF NetInv, Block, OwnerInv, QueueInv

LEMMA ClientFreedInv ==
    ASSUME NetInv, NEW p \in Pcb, TcpFree(p), arg[p] = "client", UNCHANGED <<faults, httpVars>>,
           state' = [state EXCEPT ![p] = "none"], broken' \in BOOLEAN
    PROVE  StepInv(p)
<1> USE DEF TcpFree, httpVars, NetInv, Types
<1>1. Types'
  BY EmptyQueue DEF PcbState
<1>2. OnlyAt(p)
  BY DEF OnlyAt
<1>3. Block(p)'
  <2>1. con'[p] = con[p] /\ state'[p] = "none"
    OBVIOUS
  <2> QED
    BY <2>1, NoServer, BlockFreed
<1> QED
  BY <1>1, <1>2, <1>3 DEF StepInv

LEMMA ClientErrorInv ==
    ASSUME NetInv, NEW p \in Pcb, NEW cause \in {"refused", "timeout"},
           ClientError(p, cause), UNCHANGED httpVars
    PROVE  StepInv(p)
<1>1. broken' \in BOOLEAN
  BY DEF ClientError
<1> QED
  BY <1>1, ClientFreedInv DEF ClientError

LEMMA KeyClosedInv ==
    ASSUME NetInv, NEW p \in Pcb, KeyClosed(p), UNCHANGED httpVars
    PROVE  StepInv(p)
<1>1. broken' \in BOOLEAN
  BY DEF KeyClosed, NetInv, Types
<1> QED
  BY <1>1, ClientFreedInv DEF KeyClosed

LEMMA FinishInv ==
    ASSUME NetInv, NEW p \in Pcb, Finish(p)
    PROVE  StepInv(p)
<1> USE DEF Finish, Closing, TcpFree, httpVars, keyVars, NetInv, Types
<1>1. Types'
  BY EmptyQueue DEF PcbState
<1>2. OnlyAt(p)
  BY DEF OnlyAt
<1>3. Block(p)'
  <2>1. con'[p] = con[p] /\ state'[p] = "none"
    BY DEF Block, OwnerInv
  <2> QED
    BY <2>1, NoServer, BlockFreed
<1> QED
  BY <1>1, <1>2, <1>3 DEF StepInv

LEMMA SendKeyInv ==
    ASSUME NetInv, NEW p \in Pcb, SendKey(p), UNCHANGED httpVars
    PROVE  StepInv(p)
<1> USE DEF SendKey, httpVars, NetInv, Types
<1>1. Types'
  BY DEF PcbState
<1>2. OnlyAt(p)
  BY DEF OnlyAt
<1>3. Block(p)'
  <2>1. /\ pcb'[p] = "connecting" /\ arg'[p] = "client" /\ state'[p] = "allocated"
        /\ con'[p] = con[p] /\ once'[p] = once[p] /\ spoilt'[p] = spoilt[p]
        /\ queue'[p] = queue[p] /\ seen'[p] = seen[p]
    OBVIOUS
  <2>2. Block(p) /\ Len(queue[p]) = 0 /\ arg[p] = "none"
    BY DEF Block, QueueInv, OwnerInv
  <2>3. OwnerInv(p)'
    BY <2>1, <2>2, NoServer DEF OwnerInv
  <2>4. QueueInv(p)'
    BY <2>1, <2>2 DEF Block, QueueInv
  <2>5. AnswerInv(p)'
    BY <2>1, <2>2 DEF Block, AnswerInv
  <2> QED
    BY <2>3, <2>4, <2>5 DEF Block
<1> QED
  BY <1>1, <1>2, <1>3 DEF StepInv

-----------------------------------------------------------------------------
(* Steps on a block in use.                                                  *)

\* What an acknowledgement leaves: fewer units, each of which was there before.
LEMMA AckedQueue ==
    ASSUME NetInv, NEW p \in Pcb, NEW n, Acknowledged(p, n)
    PROVE  /\ n \in Nat \ {0} /\ n <= Len(queue[p])
           /\ queue' \in [Pcb -> Units] /\ seen' \in [Pcb -> Nat]
           /\ \A q \in Pcb \ {p} : queue'[q] = queue[q] /\ seen'[q] = seen[q]
           /\ Len(queue'[p]) = Len(queue[p]) - n
           /\ seen'[p] <= Len(queue'[p])
           /\ \A i \in 1..Len(queue'[p]) :
                 \E j \in 1..Len(queue[p]) : queue'[p][i] = queue[p][j]
<1> DEFINE s == queue[p]
           r == SubSeq(s, n + 1, Len(s))
<1>1. s \in Units /\ Len(s) \in Nat /\ seen[p] \in Nat /\ seen[p] <= Len(s)
  BY BlockTypes DEF NetInv, Block, QueueInv
<1>2. n \in 1..seen[p] /\ n \in Nat \ {0} /\ n \in 1..Len(s)
  BY <1>1 DEF Acknowledged
<1>3. r \in Units /\ Len(r) = Len(s) - n /\ \A i \in 1..(Len(s) - n) : r[i] = s[i + n]
  BY <1>1, <1>2, RestOfQueue
<1> HIDE DEF r
<1>4. queue' = [queue EXCEPT ![p] = r] /\ seen' = [seen EXCEPT ![p] = @ - n]
  BY DEF Acknowledged, r
<1>5. queue \in [Pcb -> Units] /\ seen \in [Pcb -> Nat]
  BY DEF NetInv, Types
<1>6. queue'[p] = r /\ seen'[p] = seen[p] - n
  BY <1>4, <1>5
<1>7. queue' \in [Pcb -> Units] /\ seen' \in [Pcb -> Nat]
  <2>1. seen[p] - n \in Nat
    BY <1>1, <1>2
  <2> QED
    BY <1>3, <1>4, <1>5, <2>1
<1>8. \A q \in Pcb \ {p} : queue'[q] = queue[q] /\ seen'[q] = seen[q]
  BY <1>4, <1>5
<1>9. ASSUME NEW i \in 1..Len(queue'[p])
      PROVE  \E j \in 1..Len(s) : queue'[p][i] = s[j]
  <2>1. i \in 1..(Len(s) - n) /\ i + n \in 1..Len(s)
    BY <1>1, <1>2, <1>3, <1>6, <1>9
  <2>2. queue'[p][i] = s[i + n]
    BY <1>3, <1>6, <2>1
  <2> QED
    BY <2>1, <2>2
<1> QED
  BY <1>1, <1>2, <1>3, <1>6, <1>7, <1>8, <1>9

\* Units that stay are as good as they were while con_state is the same.
LEMMA FewerUnits ==
    ASSUME NetInv, NEW p \in Pcb, once' = once, spoilt' = spoilt,
           con'[p] = con[p], arg'[p] = arg[p] \/ arg'[p] = "none",
           \A i \in 1..Len(queue'[p]) :
              \E j \in 1..Len(queue[p]) : queue'[p][i] = queue[p][j]
    PROVE  AnswerInv(p)'
<1>1. AnswerInv(p)
  BY DEF NetInv, Block
<1>2. ASSUME once[p], NEW i \in 1..Len(queue'[p]), queue'[p][i].part # "key"
      PROVE  con'[p].alive /\ con'[p].req = queue'[p][i].req
  <2>1. PICK j \in 1..Len(queue[p]) : queue'[p][i] = queue[p][j]
    OBVIOUS
  <2>2. ~Stale(p, queue[p][j])
    BY <1>1, <1>2, <2>1 DEF AnswerInv
  <2> QED
    BY <2>1, <2>2 DEF Stale
<1> QED
  BY <1>1, <1>2 DEF AnswerInv, Stale

LEMMA LateAckInv ==
    ASSUME NetInv, NEW p \in Pcb, LateAck(p)
    PROVE  StepInv(p)
<1>1. PICK n : Acknowledged(p, n)
  BY DEF LateAck
<1>2. /\ n \in Nat \ {0} /\ n <= Len(queue[p])
      /\ queue' \in [Pcb -> Units] /\ seen' \in [Pcb -> Nat]
      /\ \A q \in Pcb \ {p} : queue'[q] = queue[q] /\ seen'[q] = seen[q]
      /\ Len(queue'[p]) = Len(queue[p]) - n
      /\ seen'[p] <= Len(queue'[p])
  BY <1>1, AckedQueue
<1>3. /\ pcb' = pcb /\ arg' = arg /\ faults' = faults /\ broken' = broken
      /\ con' = con /\ once' = once /\ spoilt' = spoilt /\ state' = state
      /\ pcb[p] = "closing" /\ arg[p] = "none"
  BY DEF LateAck, Closing, httpVars, keyVars
<1>4. Types'
  BY <1>2, <1>3 DEF NetInv, Types
<1>5. OnlyAt(p)
  BY <1>2, <1>3 DEF OnlyAt
<1>6. AnswerInv(p)'
  BY <1>1, <1>3, AckedQueue, FewerUnits
<1>7. OwnerInv(p)'
  BY <1>3 DEF NetInv, Block, OwnerInv
<1>8. QueueInv(p)'
  BY <1>2, <1>3 DEF NetInv, Block, QueueInv
<1> QED
  BY <1>4, <1>5, <1>6, <1>7, <1>8 DEF StepInv, Block

LEMMA KeySentInv ==
    ASSUME NetInv, NEW p \in Pcb, KeySent(p), UNCHANGED httpVars
    PROVE  StepInv(p)
<1>1. Acknowledged(p, 1) /\ arg[p] = "client"
  BY DEF KeySent
<1>2. /\ queue' \in [Pcb -> Units] /\ seen' \in [Pcb -> Nat]
      /\ \A q \in Pcb \ {p} : queue'[q] = queue[q] /\ seen'[q] = seen[q]
      /\ seen'[p] <= Len(queue'[p])
  BY <1>1, AckedQueue
<1>3. /\ pcb' = [pcb EXCEPT ![p] = "closing"] /\ arg' = [arg EXCEPT ![p] = "none"]
      /\ state' = [state EXCEPT ![p] = "none"]
      /\ faults' = faults /\ broken' = broken
      /\ con' = con /\ once' = once /\ spoilt' = spoilt
  BY DEF KeySent, TcpClosed, httpVars
<1>4. Types'
  BY <1>2, <1>3 DEF NetInv, Types, PcbState
<1>5. OnlyAt(p)
  BY <1>2, <1>3 DEF OnlyAt, NetInv, Types
<1>6. pcb'[p] = "closing" /\ arg'[p] = "none" /\ state'[p] = "none"
  BY <1>3 DEF NetInv, Types
<1>7. AnswerInv(p)'
  BY <1>1, <1>3, <1>6, AckedQueue, FewerUnits
<1>8. con'[p].alive = FALSE /\ con'[p].sent_len <= 2 * con'[p].req
  BY <1>1, <1>3, NoServer
<1>9. OwnerInv(p)' /\ QueueInv(p)'
  BY <1>2, <1>6, <1>8 DEF OwnerInv, QueueInv
<1> QED
  BY <1>4, <1>5, <1>7, <1>9 DEF StepInv, Block

LEMMA KeyServerClosesInv ==
    ASSUME NetInv, NEW p \in Pcb, KeyServerCloses(p), UNCHANGED httpVars
    PROVE  StepInv(p)
<1> USE DEF KeyServerCloses, httpVars, NetInv, Types
<1>1. Types'
  BY DEF PcbState
<1>2. OnlyAt(p)
  BY DEF OnlyAt
<1>3. Block(p)'
  <2>1. /\ pcb'[p] = "closing" /\ arg'[p] = "client" /\ arg[p] = "client"
        /\ queue'[p] = queue[p] /\ seen'[p] = seen[p] /\ state'[p] = state[p]
        /\ con'[p] = con[p] /\ once'[p] = once[p] /\ spoilt'[p] = spoilt[p]
    OBVIOUS
  <2>2. Block(p)
    OBVIOUS
  <2>3. OwnerInv(p)' /\ QueueInv(p)'
    BY <2>1, <2>2 DEF Block, OwnerInv, QueueInv
  <2>4. AnswerInv(p)'
    BY <2>1, <2>2 DEF Block, AnswerInv, Stale
  <2> QED
    BY <2>3, <2>4 DEF Block
<1> QED
  BY <1>1, <1>2, <1>3 DEF StepInv

LEMMA ConnectedInv ==
    ASSUME NetInv, NEW p \in Pcb, Connected(p), UNCHANGED httpVars
    PROVE  StepInv(p)
<1> DEFINE u == [part |-> "key", req |-> 0]
<1>1. /\ pcb' = [pcb EXCEPT ![p] = "open"] /\ pcb[p] = "connecting"
      /\ arg' = arg /\ seen' = seen /\ broken' = broken /\ state' = state
      /\ con' = con /\ once' = once /\ spoilt' = spoilt
  BY DEF Connected, httpVars
<1>2. u \in Unit /\ u.part = "key"
  BY BoundAssumption DEF Unit
<1> HIDE DEF u
<1>3. <<u>> \in Units /\ Len(<<u>>) = 1 /\ <<u>>[1] = u
  BY <1>2, OneUnit
<1>4. \/ queue' = [queue EXCEPT ![p] = <<u>>] /\ faults' = faults
      \/ queue' = queue /\ faults' \in 0..MaxFaults
  BY BoundAssumption DEF Connected, Fault, u, NetInv, Types
<1>5. Block(p) /\ Len(queue[p]) = 0 /\ arg[p] = "client" /\ seen[p] = 0
  <2>1. Block(p) /\ Len(queue[p]) = 0 /\ arg[p] = "client" /\ seen[p] <= Len(queue[p])
    BY <1>1 DEF NetInv, Block, OwnerInv, QueueInv
  <2> QED
    BY <2>1, BlockTypes DEF NetInv
<1>6. Types'
  BY <1>1, <1>3, <1>4 DEF NetInv, Types, PcbState
<1>7. OnlyAt(p)
  BY <1>1, <1>4 DEF OnlyAt, NetInv, Types
<1>8. pcb'[p] = "open" /\ (queue'[p] = <<u>> \/ queue'[p] = queue[p])
  BY <1>1, <1>4 DEF NetInv, Types
<1>9. Len(queue'[p]) \in {0, 1} /\ \A i \in 1..Len(queue'[p]) : queue'[p][i] = u
  BY <1>3, <1>5, <1>8
<1>10. OwnerInv(p)' /\ QueueInv(p)'
  BY <1>1, <1>5, <1>8, <1>9 DEF Block, OwnerInv, QueueInv
<1>11. AnswerInv(p)'
  BY <1>1, <1>2, <1>5, <1>9 DEF Block, AnswerInv
<1> QED
  BY <1>6, <1>7, <1>10, <1>11 DEF StepInv, Block

LEMMA DeliverInv ==
    ASSUME NetInv, NEW p \in Pcb, Deliver(p), UNCHANGED keyVars
    PROVE  StepInv(p)
<1> DEFINE unit == queue[p][seen[p] + 1]
           bad == unit.part # "key" /\ Stale(p, unit)
<1>1. /\ seen[p] < Len(queue[p]) /\ seen' = [seen EXCEPT ![p] = @ + 1]
      /\ spoilt' = [spoilt EXCEPT ![p] = @ \/ bad] \/ spoilt' = spoilt
      /\ pcb' = pcb /\ arg' = arg /\ queue' = queue /\ faults' = faults
      /\ broken' = broken /\ con' = con /\ once' = once /\ state' = state
  BY DEF Deliver, keyVars
<1>2. bad \in BOOLEAN
  BY DEF Stale
<1>3. seen[p] \in Nat /\ Len(queue[p]) \in Nat /\ seen[p] + 1 \in 1..Len(queue[p])
  BY <1>1, BlockTypes DEF NetInv
<1>4. Block(p)
  BY DEF NetInv
<1>5. once[p] => ~bad
  BY <1>3, <1>4 DEF Block, AnswerInv
<1> HIDE DEF bad
<1>6. spoilt'[p] = (spoilt[p] \/ bad) \/ spoilt'[p] = spoilt[p]
  BY <1>1 DEF NetInv, Types
<1>7. spoilt' \in [Pcb -> BOOLEAN]
  BY <1>1, <1>2, Zenon DEF NetInv, Types
<1>8. Types'
  <2>1. seen' \in [Pcb -> Nat]
    BY <1>1, <1>3 DEF NetInv, Types
  <2> QED
    BY <1>1, <1>7, <2>1, Zenon DEF NetInv, Types
<1>9. OnlyAt(p)
  BY <1>1 DEF OnlyAt, NetInv, Types
<1>10. seen'[p] = seen[p] + 1
  BY <1>1 DEF NetInv, Types
<1>11. OwnerInv(p)' /\ QueueInv(p)'
  BY <1>1, <1>3, <1>4, <1>10 DEF Block, OwnerInv, QueueInv
<1>12. once'[p] => ~spoilt'[p]
  BY <1>1, <1>4, <1>5, <1>6, Zenon DEF Block, AnswerInv
<1>13. AnswerInv(p)'
  BY <1>1, <1>4, <1>12, Zenon DEF Block, AnswerInv, Stale
<1> QED
  BY <1>8, <1>9, <1>11, <1>13 DEF StepInv, Block

\* PhoneCloses and Poll.
LEMMA HangUpInv ==
    ASSUME NetInv, NEW p \in Pcb, HangUp(p), UNCHANGED keyVars
    PROVE  StepInv(p)
<1> DEFINE nothing == queue[p] = <<>>
<1>1. /\ pcb[p] = "open" /\ arg[p] = "server"
      /\ pcb' = [pcb EXCEPT ![p] = "closing"] /\ arg' = [arg EXCEPT ![p] = "none"]
      /\ con' = [con EXCEPT ![p] = NoCon]
      /\ once' = [once EXCEPT ![p] = @ /\ nothing]
      /\ queue' = queue /\ seen' = seen /\ faults' = faults /\ broken' = broken
      /\ spoilt' = spoilt /\ state' = state
  BY DEF HangUp, Serves, Disconnect, TcpClosed, keyVars
<1>2. nothing \in BOOLEAN /\ (nothing => Len(queue[p]) = 0)
  BY EmptyQueue
<1> HIDE DEF nothing
<1>3. Block(p)
  BY DEF NetInv
<1>4. once' \in [Pcb -> BOOLEAN] /\ once'[p] = (once[p] /\ nothing)
  BY <1>1, <1>2, Zenon DEF NetInv, Types
<1>5. Types'
  <2>1. con' \in [Pcb -> Con]
    BY <1>1, NoConType DEF NetInv, Types
  <2>2. pcb' \in [Pcb -> PcbState] /\ arg' \in [Pcb -> {"none", "server", "client"}]
    BY <1>1 DEF NetInv, Types, PcbState
  <2> QED
    BY <1>1, <1>4, <2>1, <2>2, Zenon DEF NetInv, Types
<1>6. OnlyAt(p)
  BY <1>1 DEF OnlyAt, NetInv, Types
<1>7. pcb'[p] = "closing" /\ arg'[p] = "none" /\ con'[p] = NoCon
  BY <1>1 DEF NetInv, Types
<1>8. con'[p].alive = FALSE /\ con'[p].sent_len <= 2 * con'[p].req
  BY <1>7, NoConType
<1>9. OwnerInv(p)' /\ QueueInv(p)'
  BY <1>1, <1>3, <1>7, <1>8 DEF Block, OwnerInv, QueueInv
<1>10. once'[p] => once[p] /\ Len(queue'[p]) = 0
  BY <1>1, <1>2, <1>4, Zenon
<1>11. once'[p] => ~spoilt'[p]
  BY <1>1, <1>3, <1>10, Zenon DEF Block, AnswerInv
<1>12. AnswerInv(p)'
  BY <1>7, <1>10, <1>11 DEF AnswerInv
<1> QED
  BY <1>5, <1>6, <1>9, <1>12 DEF StepInv, Block

\* con_state with more bytes acknowledged.
LEMMA MoreSent ==
    ASSUME NEW c \in Con, NEW n \in Nat
    PROVE  LET after == [c EXCEPT !.sent_len = @ + n]
           IN  /\ after \in Con /\ after.alive = c.alive /\ after.req = c.req
               /\ after.len = c.len /\ after.sent_len = c.sent_len + n
  BY DEF Con

LEMMA SentInv ==
    ASSUME NetInv, NEW p \in Pcb, NEW n \in 1..seen[p], Sent(p, n), UNCHANGED keyVars
    PROVE  StepInv(p)
<1> DEFINE after == [con[p] EXCEPT !.sent_len = @ + n]
<1>1. /\ arg[p] = "server" /\ Acknowledged(p, n)
      /\ faults' = faults /\ broken' = broken /\ once' = once /\ spoilt' = spoilt
      /\ state' = state
      /\ \/ /\ AllSent(after)
            /\ pcb' = [pcb EXCEPT ![p] = "closing"] /\ arg' = [arg EXCEPT ![p] = "none"]
            /\ con' = [con EXCEPT ![p] = NoCon]
         \/ pcb' = pcb /\ arg' = arg /\ con' = [con EXCEPT ![p] = after]
  BY DEF Sent, Disconnect, TcpClosed, keyVars
<1>2. /\ n \in Nat \ {0} /\ n <= Len(queue[p])
      /\ queue' \in [Pcb -> Units] /\ seen' \in [Pcb -> Nat]
      /\ \A q \in Pcb \ {p} : queue'[q] = queue[q] /\ seen'[q] = seen[q]
      /\ Len(queue'[p]) = Len(queue[p]) - n
      /\ seen'[p] <= Len(queue'[p])
  BY <1>1, AckedQueue
<1>3. /\ after \in Con /\ after.alive = con[p].alive /\ after.req = con[p].req
      /\ after.len = con[p].len /\ after.sent_len = con[p].sent_len + n
  BY <1>2, BlockTypes, MoreSent DEF NetInv
<1> HIDE DEF after
<1>4. Block(p) /\ pcb[p] = "open" /\ con[p].alive = TRUE /\ state[p] # "allocated"
  BY <1>1, BlockTypes DEF NetInv, Block, OwnerInv
<1>5. /\ Len(queue[p]) \in Nat /\ con[p].sent_len \in Nat /\ con[p].req \in Nat
      /\ con[p].sent_len + Len(queue[p]) <= 2 * con[p].req
  BY <1>1, <1>4, BlockTypes DEF NetInv, Block, QueueInv
<1>6. CASE /\ AllSent(after)
           /\ pcb' = [pcb EXCEPT ![p] = "closing"] /\ arg' = [arg EXCEPT ![p] = "none"]
           /\ con' = [con EXCEPT ![p] = NoCon]
  <2>1. pcb'[p] = "closing" /\ arg'[p] = "none" /\ con'[p] = NoCon
    BY <1>6 DEF NetInv, Types
  <2>2. Types'
    <3>1. con' \in [Pcb -> Con]
      BY <1>6, NoConType DEF NetInv, Types
    <3>2. pcb' \in [Pcb -> PcbState] /\ arg' \in [Pcb -> {"none", "server", "client"}]
      BY <1>6 DEF NetInv, Types, PcbState
    <3> QED
      BY <1>1, <1>2, <3>1, <3>2, Zenon DEF NetInv, Types
  <2>3. OnlyAt(p)
    BY <1>1, <1>2, <1>6 DEF OnlyAt, NetInv, Types
  <2>4. con'[p].alive = FALSE /\ con'[p].sent_len <= 2 * con'[p].req
    BY <2>1, NoConType
  <2>5. OwnerInv(p)' /\ QueueInv(p)'
    BY <1>1, <1>2, <1>4, <2>1, <2>4 DEF OwnerInv, QueueInv
  <2>6. once[p] => Len(queue'[p]) = 0
    \* One answer of two units: both are acknowledged.
    <3>1. SUFFICES ASSUME once[p] PROVE Len(queue'[p]) = 0
      OBVIOUS
    <3>2. con[p].req = 1
      <4>1. con[p].req <= 1
        BY <1>1, <1>4, <3>1, Zenon DEF Block, AnswerInv
      <4> QED
        BY <1>2, <1>5, <4>1
    <3>3. con[p].len = 2
      BY <1>1, <1>4, <3>1, <3>2 DEF Block, AnswerInv
    <3>4. con[p].sent_len + n >= 2
      BY <1>3, <1>6, <3>3 DEF AllSent
    <3> QED
      BY <1>2, <1>5, <3>2, <3>4
  <2>7. once'[p] => ~spoilt'[p] /\ Len(queue'[p]) = 0
    BY <1>1, <1>4, <2>6, Zenon DEF Block, AnswerInv
  <2>8. AnswerInv(p)'
    BY <2>1, <2>7 DEF AnswerInv
  <2> QED
    BY <2>2, <2>3, <2>5, <2>8 DEF StepInv, Block
<1>7. CASE pcb' = pcb /\ arg' = arg /\ con' = [con EXCEPT ![p] = after]
  <2>1. con'[p] = after
    BY <1>7 DEF NetInv, Types
  <2>2. Types'
    <3>1. con' \in [Pcb -> Con]
      BY <1>3, <1>7 DEF NetInv, Types
    <3> QED
      BY <1>1, <1>2, <1>7, <3>1, Zenon DEF NetInv, Types
  <2>3. OnlyAt(p)
    BY <1>1, <1>2, <1>7 DEF OnlyAt, NetInv, Types
  <2>4. OwnerInv(p)'
    BY <1>1, <1>3, <1>4, <1>7, <2>1 DEF OwnerInv
  <2>5. QueueInv(p)'
    <3>1. con'[p].sent_len = con[p].sent_len + n /\ con'[p].req = con[p].req
      BY <1>3, <2>1
    <3>2. con'[p].sent_len + Len(queue'[p]) <= 2 * con'[p].req
      BY <1>2, <1>5, <3>1
    <3>3. con'[p].sent_len <= 2 * con'[p].req
      BY <1>2, <1>5, <3>1
    <3>4. pcb'[p] = "open"
      BY <1>4, <1>7
    <3> QED
      BY <1>2, <3>2, <3>3, <3>4 DEF QueueInv
  <2>6. ASSUME once[p], NEW i \in 1..Len(queue'[p]), queue'[p][i].part # "key"
        PROVE  con[p].alive /\ con[p].req = queue'[p][i].req
    <3>1. PICK j \in 1..Len(queue[p]) : queue'[p][i] = queue[p][j]
      BY <1>1, AckedQueue
    <3>2. ~Stale(p, queue[p][j])
      BY <1>4, <2>6, <3>1 DEF Block, AnswerInv
    <3> QED
      BY <3>1, <3>2 DEF Stale
  <2>7. AnswerInv(p)'
    BY <1>1, <1>3, <1>4, <1>7, <2>1, <2>6 DEF Block, AnswerInv, Stale
  <2> QED
    BY <2>2, <2>3, <2>4, <2>5, <2>7 DEF StepInv, Block
<1> QED
  BY <1>1, <1>6, <1>7

\* con_state with one more answer in its buffers.
LEMMA OneMoreRequest ==
    ASSUME NEW c \in Con, c.req < MaxRequests
    PROVE  LET after == [c EXCEPT !.req = @ + 1, !.len = 2]
           IN  /\ after \in Con /\ after.alive = c.alive /\ after.req = c.req + 1
               /\ after.len = 2 /\ after.sent_len = c.sent_len
<1>1. c.req + 1 \in 0..MaxRequests /\ 2 \in 0..2
  BY BoundAssumption DEF Con
<1> QED
  BY <1>1 DEF Con

LEMMA RecvInv ==
    ASSUME NetInv, NEW p \in Pcb, Recv(p), UNCHANGED keyVars
    PROVE  StepInv(p)
<1> DEFINE after == [con[p] EXCEPT !.req = @ + 1, !.len = 2]
           first == con[p].req = 0
           u == [part |-> "headers", req |-> con[p].req + 1]
           v == [part |-> "result", req |-> con[p].req + 1]
           s == queue[p]
<1>1. /\ pcb[p] = "open" /\ arg[p] = "server" /\ con[p].req < MaxRequests
      /\ con' = [con EXCEPT ![p] = after]
      /\ once' = [once EXCEPT ![p] = first]
      /\ pcb' = pcb /\ arg' = arg /\ seen' = seen /\ broken' = broken
      /\ spoilt' = spoilt /\ state' = state
  BY DEF Recv, Serves, keyVars
<1>2. \/ queue' = [queue EXCEPT ![p] = s \o <<u, v>>] /\ faults' = faults
      \/ Fault /\ queue' = [queue EXCEPT ![p] = Append(s, u)]
      \/ Fault /\ queue' = [queue EXCEPT ![p] = Append(s, v)]
      \/ Fault /\ queue' = [queue EXCEPT ![p] = s]
  <2>1. queue = [queue EXCEPT ![p] = s]
    BY DEF NetInv, Types
  <2> QED
    BY <2>1 DEF Recv
<1>3. u \in Unit /\ v \in Unit /\ u.req = con[p].req + 1 /\ v.req = con[p].req + 1
  BY <1>1, BlockTypes DEF NetInv, Unit
<1>4. /\ after \in Con /\ after.alive = con[p].alive /\ after.req = con[p].req + 1
      /\ after.len = 2 /\ after.sent_len = con[p].sent_len
  BY <1>1, BlockTypes, OneMoreRequest DEF NetInv
<1> HIDE DEF after, u, v
<1>5. s \in Units /\ Len(s) \in Nat /\ con[p].req \in Nat /\ con[p].sent_len \in Nat
      /\ seen[p] \in Nat /\ first \in BOOLEAN
  BY BlockTypes DEF NetInv
<1> DEFINE Grown(r) == /\ queue' = [queue EXCEPT ![p] = r]
                       /\ Len(r) \in Len(s)..(Len(s) + 2)
                       /\ \A i \in 1..Len(s) : r[i] = s[i]
                       /\ \A i \in 1..Len(r) : i > Len(s) => r[i].req = con[p].req + 1
<1>6. \E r \in Units : Grown(r)
  <2>1. CASE queue' = [queue EXCEPT ![p] = s \o <<u, v>>]
    <3>1. /\ s \o <<u, v>> \in Units /\ Len(s \o <<u, v>>) = Len(s) + 2
          /\ \A i \in 1..Len(s) : (s \o <<u, v>>)[i] = s[i]
          /\ (s \o <<u, v>>)[Len(s) + 1] = u /\ (s \o <<u, v>>)[Len(s) + 2] = v
      BY <1>3, <1>5, TwoMore
    <3> DEFINE r == s \o <<u, v>>
    <3> HIDE DEF r
    <3>2. ASSUME NEW i \in 1..Len(r), i > Len(s) PROVE r[i].req = con[p].req + 1
      <4>1. i = Len(s) + 1 \/ i = Len(s) + 2
        BY <1>5, <3>1, <3>2 DEF r
      <4> QED
        BY <1>3, <3>1, <4>1 DEF r
    <3>3. r \in Units /\ queue' = [queue EXCEPT ![p] = r] /\ Len(r) \in Len(s)..(Len(s) + 2)
          /\ \A i \in 1..Len(s) : r[i] = s[i]
      BY <1>5, <2>1, <3>1 DEF r
    <3> QED
      BY <3>2, <3>3
  <2>2. ASSUME NEW w \in {u, v}, queue' = [queue EXCEPT ![p] = Append(s, w)]
        PROVE  \E r \in Units : Grown(r)
    <3>1. /\ Append(s, w) \in Units /\ Len(Append(s, w)) = Len(s) + 1
          /\ \A i \in 1..Len(s) : Append(s, w)[i] = s[i]
          /\ Append(s, w)[Len(s) + 1] = w
      BY <1>3, <1>5, <2>2, OneMore
    <3> DEFINE r == Append(s, w)
    <3> HIDE DEF r
    <3>2. ASSUME NEW i \in 1..Len(r), i > Len(s) PROVE r[i].req = con[p].req + 1
      <4>1. i = Len(s) + 1
        BY <1>5, <3>1, <3>2 DEF r
      <4> QED
        BY <1>3, <2>2, <3>1, <4>1 DEF r
    <3>3. r \in Units /\ queue' = [queue EXCEPT ![p] = r] /\ Len(r) \in Len(s)..(Len(s) + 2)
          /\ \A i \in 1..Len(s) : r[i] = s[i]
      BY <1>5, <2>2, <3>1 DEF r
    <3> QED
      BY <3>2, <3>3
  <2>3. u \in {u, v} /\ v \in {u, v}
    OBVIOUS
  <2>4. CASE queue' = [queue EXCEPT ![p] = s]
    <3>1. s \in Units /\ Len(s) \in Len(s)..(Len(s) + 2)
      BY <1>5
    <3>2. \A i \in 1..Len(s) : ~(i > Len(s))
      BY <1>5
    <3> QED
      BY <2>4, <3>1, <3>2, Zenon
  <2> HIDE DEF Grown
  <2> QED
    BY <1>2, <2>1, <2>2, <2>3, <2>4, Zenon
<1>7. PICK r \in Units :
        /\ queue' = [queue EXCEPT ![p] = r]
        /\ Len(r) \in Len(s)..(Len(s) + 2)
        /\ \A i \in 1..Len(s) : r[i] = s[i]
        /\ \A i \in 1..Len(r) : i > Len(s) => r[i].req = con[p].req + 1
  BY <1>6
<1>8. faults' \in 0..MaxFaults
  BY <1>2, BoundAssumption DEF Fault, NetInv, Types
<1> HIDE DEF first
<1>9. Types'
  <2>1. con' \in [Pcb -> Con] /\ queue' \in [Pcb -> Units]
    BY <1>1, <1>4, <1>7 DEF NetInv, Types
  <2>2. once' \in [Pcb -> BOOLEAN]
    BY <1>1, <1>5, Zenon DEF NetInv, Types
  <2> QED
    BY <1>1, <1>8, <2>1, <2>2, Zenon DEF NetInv, Types
<1>10. OnlyAt(p)
  BY <1>1, <1>7 DEF OnlyAt, NetInv, Types
<1>11. con'[p] = after /\ queue'[p] = r
  BY <1>1, <1>7 DEF NetInv, Types
<1>12. once'[p] = first
  BY <1>1, Zenon DEF NetInv, Types
<1>13. Block(p)
  BY DEF NetInv
<1>14. OwnerInv(p)'
  BY <1>1, <1>4, <1>11, <1>13 DEF Block, OwnerInv
<1>15. QueueInv(p)'
  <2>1. seen[p] <= Len(s) /\ con[p].sent_len + Len(s) <= 2 * con[p].req
        /\ con[p].sent_len <= 2 * con[p].req
    BY <1>1, <1>13 DEF Block, QueueInv
  <2>2. seen'[p] <= Len(queue'[p])
        /\ con'[p].sent_len + Len(queue'[p]) <= 2 * con'[p].req
        /\ con'[p].sent_len <= 2 * con'[p].req
    <3>1. /\ seen'[p] = seen[p] /\ queue'[p] = r
          /\ con'[p].sent_len = con[p].sent_len /\ con'[p].req = con[p].req + 1
      BY <1>1, <1>4, <1>11
    <3>2. Len(r) \in Len(s)..(Len(s) + 2)
      BY <1>7
    <3>3. seen[p] <= Len(r)
      BY <1>5, <2>1, <3>2
    <3>4. con[p].sent_len + Len(r) <= 2 * (con[p].req + 1)
      <4>1. Len(r) \in Nat /\ Len(r) <= Len(s) + 2
        BY <1>5, <3>2
      <4>2. \A x, a, b, y \in Nat : x + a <= 2 * y /\ b <= a + 2 => x + b <= 2 * (y + 1)
        OBVIOUS
      <4> QED
        BY <1>5, <2>1, <4>1, <4>2, Zenon
    <3>5. con[p].sent_len <= 2 * (con[p].req + 1)
      BY <1>5, <2>1
    <3> QED
      BY <3>1, <3>3, <3>4, <3>5
  <2>3. pcb'[p] = "open"
    BY <1>1
  <2> QED
    BY <2>2, <2>3 DEF QueueInv
<1>16. AnswerInv(p)'
  <2>1. con'[p].req # 0 /\ con'[p].alive /\ con'[p].len = 2
    BY <1>1, <1>4, <1>5, <1>11, <1>14 DEF OwnerInv
  <2>2. ASSUME first
        PROVE  /\ ~spoilt'[p] /\ con'[p].req = 1
               /\ \A i \in 1..Len(queue'[p]) : queue'[p][i].req = con'[p].req
    <3>1. con[p].req = 0
      BY <2>2 DEF first
    <3>2. ~spoilt[p]
      BY <1>1, <1>13, <3>1, Zenon DEF Block, AnswerInv
    <3>3. Len(s) = 0
      BY <1>1, <1>5, <1>13, <3>1 DEF Block, QueueInv
    <3>4. \A i \in 1..Len(r) : i > Len(s)
      BY <3>3
    <3> QED
      BY <1>1, <1>4, <1>7, <1>11, <3>1, <3>2, <3>4
  <2> QED
    BY <1>12, <2>1, <2>2 DEF AnswerInv, Stale
<1> QED
  BY <1>9, <1>10, <1>14, <1>15, <1>16 DEF StepInv, Block

-----------------------------------------------------------------------------
(* Every step.                                                               *)

LEMMA ServerStepInv ==
    ASSUME NetInv, NEW p \in Pcb, Server(p)
    PROVE  StepInv(p)
<1>1. UNCHANGED keyVars
  BY DEF Server
<1>2. CASE Accept(p)
  BY <1>1, <1>2, AcceptInv
<1>3. CASE Recv(p)
  BY <1>1, <1>3, RecvInv
<1>4. CASE PhoneCloses(p)
  BY <1>1, <1>4, HangUpInv DEF PhoneCloses
<1>5. CASE Poll(p)
  BY <1>1, <1>5, HangUpInv DEF Poll
<1>6. CASE ServerError(p)
  BY <1>1, <1>6, ServerErrorInv
<1>7. CASE Deliver(p)
  BY <1>1, <1>7, DeliverInv
<1>8. ASSUME NEW n \in 1..seen[p], Sent(p, n) PROVE StepInv(p)
  BY <1>1, <1>8, SentInv
<1> QED
  BY <1>2, <1>3, <1>4, <1>5, <1>6, <1>7, <1>8 DEF Server, ServerStep

LEMMA ClientStepInv ==
    ASSUME NetInv, NEW p \in Pcb, Client(p)
    PROVE  StepInv(p)
<1>1. UNCHANGED httpVars
  BY DEF Client
<1>2. CASE SendKey(p)
  BY <1>1, <1>2, SendKeyInv
<1>3. CASE Connected(p)
  BY <1>1, <1>3, ConnectedInv
<1>4. CASE KeySent(p)
  BY <1>1, <1>4, KeySentInv
<1>5. CASE KeyServerCloses(p)
  BY <1>1, <1>5, KeyServerClosesInv
<1>6. ASSUME NEW cause \in {"refused", "timeout"}, ClientError(p, cause) PROVE StepInv(p)
  BY <1>1, <1>6, ClientErrorInv
<1>7. CASE KeyClosed(p)
  BY <1>1, <1>7, KeyClosedInv
<1> QED
  BY <1>2, <1>3, <1>4, <1>5, <1>6, <1>7 DEF Client, ClientStep

LEMMA NextInv == NetInv /\ [Next]_netVars => NetInv'
<1> SUFFICES ASSUME NetInv, [Next]_netVars PROVE NetInv'
  OBVIOUS
<1>1. ASSUME NEW p \in Pcb, Server(p) PROVE NetInv'
  BY <1>1, ServerStepInv, OtherBlocks
<1>2. ASSUME NEW p \in Pcb, Client(p) PROVE NetInv'
  BY <1>2, ClientStepInv, OtherBlocks
<1>3. ASSUME NEW p \in Pcb, LateAck(p) PROVE NetInv'
  BY <1>3, LateAckInv, OtherBlocks
<1>4. ASSUME NEW p \in Pcb, Finish(p) PROVE NetInv'
  BY <1>4, FinishInv, OtherBlocks
<1>5. CASE UNCHANGED netVars
  <2>1. /\ pcb' = pcb /\ arg' = arg /\ queue' = queue /\ seen' = seen
        /\ faults' = faults /\ broken' = broken /\ con' = con /\ once' = once
        /\ spoilt' = spoilt /\ state' = state
    BY <1>5 DEF netVars, tcpVars, httpVars, keyVars
  <2>2. Types'
    BY <2>1, Zenon DEF NetInv, Types
  <2>3. ASSUME NEW p \in Pcb PROVE Block(p)'
    BY <2>1, Zenon DEF NetInv, Block, OwnerInv, QueueInv, AnswerInv, Stale
  <2> QED
    BY <2>2, <2>3 DEF NetInv
<1> QED
  BY <1>1, <1>2, <1>3, <1>4, <1>5 DEF Next

LEMMA Invariance == Spec => []NetInv
  BY InitInv, NextInv, PTL DEF Spec

-----------------------------------------------------------------------------
(* The theorems.                                                             *)

LEMMA TypeOKFollows == NetInv => TypeOK
<1> SUFFICES ASSUME NetInv PROVE TypeOK
  OBVIOUS
<1>1. queue \in [Pcb -> Seq(Unit)]
  BY DEF NetInv, Types, Units
<1>2. ASSUME NEW p \in Pcb PROVE seen[p] \in 0..Len(queue[p])
  BY BlockTypes DEF NetInv, Block, QueueInv
<1>3. TcpTypeOK
  BY <1>1, <1>2 DEF TcpTypeOK, NetInv, Types
<1> DEFINE C == [req : 0..MaxRequests, sent_len : 0..(2 * MaxRequests),
                 len : 0..2, alive : BOOLEAN]
<1>4. ASSUME NEW p \in Pcb PROVE con[p] \in C
  <2>1. /\ con[p] \in Con /\ con[p].req \in 0..MaxRequests /\ con[p].sent_len \in Nat
        /\ MaxRequests \in Nat
    BY BlockTypes DEF NetInv
  <2>2. con[p].sent_len <= 2 * con[p].req
    BY DEF NetInv, Block, QueueInv
  <2>3. con[p].sent_len \in 0..(2 * MaxRequests)
    BY <2>1, <2>2
  <2> QED
    BY <2>1, <2>3 DEF Con
<1>5. con \in [Pcb -> C]
  BY <1>4 DEF NetInv, Types
<1>6. HttpTypeOK
  BY <1>5, Zenon DEF HttpTypeOK, NetInv, Types
<1>7. KeyTypeOK
  BY DEF KeyTypeOK, NetInv, Types
<1> QED
  BY <1>3, <1>6, <1>7 DEF TypeOK

\* The counters of a connection never pass what was sent on it, and no more is
\* acknowledged than was received: for any pool, requests and failures.
THEOREM TypeCorrect == Spec => []TypeOK
  BY Invariance, TypeOKFollows, PTL

\* No callback of lwIP meets a con_state or a state that was freed.
THEOREM CallbacksAreSound == Spec => []CallbacksFindTheirState
<1>1. NetInv => CallbacksFindTheirState
  <2> SUFFICES ASSUME NetInv, NEW p \in Pcb
               PROVE  /\ arg[p] = "server" => con[p].alive
                      /\ arg[p] = "client" => state[p] = "allocated"
                      /\ pcb[p] = "free" => /\ arg[p] = "none" /\ ~con[p].alive
                                            /\ state[p] = "none"
    BY DEF CallbacksFindTheirState
  <2> QED
    BY BlockTypes DEF NetInv, Block, OwnerInv
<1> QED
  BY <1>1, Invariance, PTL

\* A phone that sends one request in one segment and lets the machine close
\* receives the bytes of its answer and no others.
THEOREM AnswersAreIntact == Spec => []AnswerIsIntact
<1>1. NetInv => AnswerIsIntact
  BY DEF NetInv, Block, AnswerInv, AnswerIsIntact
<1> QED
  BY <1>1, Invariance, PTL

=============================================================================
