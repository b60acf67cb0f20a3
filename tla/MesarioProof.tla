---------------------------- MODULE MesarioProof ----------------------------
(***************************************************************************)
(* Proofs about the app and the machine it commands, for any number of     *)
(* elections, runs, voters, votes, attempts and intervals.                 *)
(***************************************************************************)
EXTENDS Mesario, TLAPS

-----------------------------------------------------------------------------
(* Types.  The election a run is for exists while the run goes on.           *)

TypeInv == TypeOK /\ (Loading => next \in Election)

\* What a request makes of the machine, one kind after another.
LEMMA ServeIs ==
    ASSUME TypeInv, NEW r \in asked, Serve(r)
    PROVE  /\ r \in Request
           /\ r.op = "configure" =>
                 /\ phase' = phase /\ list' \in {r.of, 0} /\ votes' \in 0..votes
                 /\ key' = key /\ clean' = FALSE /\ posted' = r.of
           /\ r.op = "start" =>
                 /\ phase' = "waiting" /\ list' = list /\ votes' = 0
                 /\ key' = key /\ clean' = (key = "none") /\ posted' = posted
           /\ r.op = "enable" =>
                 /\ phase' = IF phase = "waiting" THEN "open" ELSE phase
                 /\ UNCHANGED <<list, votes, key, clean, posted>>
           /\ r.op = "end" =>
                 /\ phase' = "ended" /\ clean' = (clean /\ key = "none")
                 /\ UNCHANGED <<list, votes, key, posted>>
           /\ r.op \in {"configure", "start", "enable", "end"}
           /\ r.of \in 0..MaxElections
<1>1. r \in Request
  BY DEF TypeInv, TypeOK
<1>2. r.op \in {"configure", "start", "enable", "end"} /\ r.of \in 0..MaxElections
  BY <1>1 DEF Request
<1>3. ASSUME r.op = "configure"
      PROVE  /\ phase' = phase /\ list' \in {r.of, 0} /\ votes' \in 0..votes
             /\ key' = key /\ clean' = FALSE /\ posted' = r.of
  <2>1. Urna!Configure(r.of) /\ posted' = r.of
    BY <1>3 DEF Serve, Effect
  <2> QED
    BY <2>1, BoundAssumption DEF Urna!Configure, TypeInv, TypeOK
<1>4. ASSUME r.op = "start"
      PROVE  /\ phase' = "waiting" /\ list' = list /\ votes' = 0
             /\ key' = key /\ clean' = (key = "none") /\ posted' = posted
  <2>1. Urna!Start /\ posted' = posted
    BY <1>4 DEF Serve, Effect
  <2> QED
    BY <2>1, Zenon DEF Urna!Start
<1>5. ASSUME r.op = "enable"
      PROVE  /\ phase' = IF phase = "waiting" THEN "open" ELSE phase
             /\ UNCHANGED <<list, votes, key, clean, posted>>
  <2>1. Urna!Enable /\ posted' = posted
    BY <1>5 DEF Serve, Effect
  <2> QED
    BY <2>1 DEF Urna!Enable
<1>6. ASSUME r.op = "end"
      PROVE  /\ phase' = "ended" /\ clean' = (clean /\ key = "none")
             /\ UNCHANGED <<list, votes, key, posted>>
  <2>1. Urna!End /\ posted' = posted
    BY <1>6 DEF Serve, Effect
  <2> QED
    BY <2>1, Zenon DEF Urna!End
<1> QED
  BY <1>1, <1>2, <1>3, <1>4, <1>5, <1>6, Zenon

\* What the main thread leaves alone.
LEMMA LoopType ==
    ASSUME TypeInv, Urna!Loop
    PROVE  /\ list' = list /\ clean' = clean
           /\ phase' \in {"idle", "waiting", "open", "ended"}
           /\ votes' \in 0..MaxVotes /\ key' \in {"none", "held", "voted"}
<1>1. CASE Urna!Press
  BY <1>1 DEF Urna!Press, TypeInv, TypeOK
<1>2. CASE Urna!Reopen
  BY <1>2 DEF Urna!Reopen, TypeInv, TypeOK
<1>3. CASE Urna!Count
  BY <1>3 DEF Urna!Count, TypeInv, TypeOK
<1>4. CASE Urna!Lock
  BY <1>4 DEF Urna!Lock, TypeInv, TypeOK
<1>5. CASE Urna!Release
  BY <1>5 DEF Urna!Release, TypeInv, TypeOK
<1> QED
  BY <1>1, <1>2, <1>3, <1>4, <1>5 DEF Urna!Loop

LEMMA TypeInit == Init => TypeInv
<1> SUFFICES ASSUME Init PROVE TypeInv
  OBVIOUS
<1>1. /\ 0 \in 0..MaxElections /\ 0 \in 0..MaxVotes /\ 0 \in 0..MaxStarting
      /\ 0 \in 0..MaxSends /\ 0 \in 0..Attempts /\ 1 \in 1..(MaxElections + 1)
  BY BoundAssumption
<1>2. announced \in [of : 0..MaxElections, votes : 0..MaxVotes]
  BY <1>1 DEF Init
<1>3. elections \in [Election -> {"none", "active", "finished"}]
  BY DEF Init
<1> QED
  BY <1>1, <1>2, <1>3 DEF Init, Urna!Init, TypeInv, TypeOK, Loading

\* What a change of screen leaves.
LEMMA GoToType ==
    ASSUME TypeInv, NEW there \in {"home"} \cup Panel, GoTo(there)
    PROVE  /\ screen' \in {"home"} \cup Panel /\ timers' \subseteq Timers
           /\ ref' \in Timers \cup {0} /\ starting' \in 0..MaxStarting
           /\ hasty' \in BOOLEAN
<1>1. hasty' \in BOOLEAN
  BY Zenon DEF GoTo
<1>2. starting' \in 0..MaxStarting
  BY BoundAssumption DEF GoTo, TypeInv, TypeOK
<1>3. screen' \in {"home"} \cup Panel /\ timers' \subseteq Timers /\ ref' \in Timers \cup {0}
  BY DEF GoTo, Cleared, TypeInv, TypeOK
<1> QED
  BY <1>1, <1>2, <1>3

LEMMA LeaveType ==
    ASSUME TypeInv, NEW there \in {"home"} \cup Panel, Leave(there),
           current' \in 0..MaxElections
    PROVE  TypeInv'
<1>1. /\ screen' \in {"home"} \cup Panel /\ timers' \subseteq Timers
      /\ ref' \in Timers \cup {0} /\ starting' \in 0..MaxStarting
      /\ hasty' \in BOOLEAN
  BY GoToType DEF Leave
<1>2. conn' \in {"disconnected", "connecting", "connected"}
  BY DEF Leave, TypeInv, TypeOK
<1>3. calm' \in BOOLEAN
  BY Zenon DEF Leave
<1>4. UNCHANGED <<machVars, netVars, elections, live, answers, createVars, endVars, posted>>
  BY DEF Leave
<1> QED
  BY <1>1, <1>2, <1>3, <1>4 DEF TypeInv, TypeOK, Loading, Election, machVars, netVars,
     createVars, endVars

LEMMA TypeNext == TypeInv /\ [Next]_mesarioVars => TypeInv'
<1> SUFFICES ASSUME TypeInv, [Next]_mesarioVars PROVE TypeInv'
  OBVIOUS
<1>0. MaxElections \in Nat /\ MaxSends \in Nat /\ MaxVotes \in Nat /\ Attempts \in Nat
      /\ MaxStarting \in Nat
  BY BoundAssumption
<1> USE DEF TypeInv, TypeOK, Loading, Election, Panel, machVars, netVars, appVars,
            pollVars, createVars, endVars, histVars
<1>1. CASE UrnaLoop
  <2>1. /\ phase' \in {"idle", "waiting", "open", "ended"} /\ list' \in 0..MaxElections
        /\ votes' \in 0..MaxVotes /\ key' \in {"none", "held", "voted"} /\ clean' \in BOOLEAN
    BY <1>1, LoopType DEF UrnaLoop
  <2>2. UNCHANGED <<netVars, appVars, pollVars, createVars, endVars, histVars>>
    BY <1>1 DEF UrnaLoop
  <2> QED
    BY <2>1, <2>2
<1>2. ASSUME NEW r \in asked, Serve(r)
      PROVE  TypeInv'
  <2>1. /\ phase' \in {"idle", "waiting", "open", "ended"} /\ list' \in 0..MaxElections
        /\ votes' \in 0..MaxVotes /\ posted' \in 0..MaxElections
    <3> USE <1>0
    <3>1. CASE r.op = "configure"
      <4>1. /\ phase' = phase /\ list' \in {r.of, 0} /\ votes' \in 0..votes
            /\ posted' = r.of /\ r.of \in 0..MaxElections
        BY <1>2, <3>1, ServeIs, Zenon
      <4> QED
        BY <4>1
    <3>2. CASE r.op = "start"
      <4>1. phase' = "waiting" /\ list' = list /\ votes' = 0 /\ posted' = posted
        BY <1>2, <3>2, ServeIs, Zenon
      <4> QED
        BY <4>1
    <3>3. CASE r.op = "enable"
      BY <1>2, <3>3, ServeIs
    <3>4. CASE r.op = "end"
      BY <1>2, <3>4, ServeIs
    <3> QED
      BY <1>2, <3>1, <3>2, <3>3, <3>4, ServeIs
  <2>2. asked' \subseteq Request /\ answered' \subseteq Request
    BY <1>2 DEF Serve
  <2>3. key' \in {"none", "held", "voted"}
    BY <1>2, ServeIs
  <2>4. clean' \in BOOLEAN
    <3>1. \/ clean' = FALSE \/ clean' = (key = "none") \/ clean' = clean
          \/ clean' = (clean /\ key = "none")
      BY <1>2, ServeIs, Zenon
    <3> QED
      BY <3>1, Zenon
  <2>5. UNCHANGED <<appVars, pollVars, createVars, endVars, calm, hasty>>
    BY <1>2 DEF Serve
  <2>6. /\ screen' = screen /\ elections' = elections /\ current' = current /\ live' = live
        /\ conn' = conn /\ timers' = timers /\ ref' = ref /\ starting' = starting
        /\ answers' = answers /\ create' = create /\ send' = send /\ next' = next
        /\ ending' = ending /\ endOf' = endOf /\ tries' = tries /\ final' = final
        /\ announced' = announced /\ calm' = calm /\ hasty' = hasty
    BY <2>5
  <2> HIDE <1>2, <2>5
  <2> QED
    BY <2>1, <2>2, <2>3, <2>4, <2>6, SMTT(60)
<1>3. CASE Started
  BY <1>0, <1>3 DEF Started
<1>4. CASE NotStarted \/ Ask \/ MissStatus
  <2>1. CASE NotStarted
    BY <1>0, <2>1 DEF NotStarted
  <2>2. CASE Ask
    BY <1>0, <2>2 DEF Ask
  <2>3. CASE MissStatus
    <3>1. answers' \subseteq 0..MaxVotes /\ conn' = "disconnected"
      BY <2>3 DEF MissStatus
    <3> QED
      BY <2>3, <3>1 DEF MissStatus
  <2> QED
    BY <1>4, <2>1, <2>2, <2>3
<1>5. ASSUME NEW s \in answers, TakeStatus(s)
      PROVE  TypeInv'
  BY <1>5 DEF TakeStatus
<1>6. CASE Finalizar
  <2>1. asked' \subseteq Request /\ send' \in 0..MaxSends
    BY <1>0, <1>6 DEF Finalizar, Request
  <2> QED
    BY <1>6, <2>1 DEF Finalizar
<1>7. CASE Configured
  <2>1. asked' \subseteq Request /\ answered' \subseteq Request
    BY <1>0, <1>7 DEF Configured, Start, Request
  <2> QED
    BY <1>7, <2>1 DEF Configured
<1>8. CASE Created
  <2>1. /\ next' \in 1..(MaxElections + 1) /\ current' \in 0..MaxElections
        /\ answered' \subseteq Request
    BY <1>0, <1>8 DEF Created
  <2>2. elections' \in [Election -> {"none", "active", "finished"}]
    BY <1>8 DEF Created
  <2>3. /\ screen' \in {"home"} \cup Panel /\ timers' \subseteq Timers
        /\ ref' \in Timers \cup {0} /\ starting' \in 0..MaxStarting /\ hasty' \in BOOLEAN
    BY <1>8, GoToType DEF Created
  <2> QED
    BY <1>8, <2>1, <2>2, <2>3 DEF Created
<1>9. CASE CreateFails
  <2>1. calm' \in BOOLEAN
    BY <1>9, Zenon DEF CreateFails
  <2> QED
    BY <1>9, <2>1 DEF CreateFails
<1>10. CASE Encerrar \/ Cancelar \/ Confirmar
  <2>1. CASE Encerrar
    BY <1>0, <2>1 DEF Encerrar
  <2>2. CASE Cancelar
    BY <1>0, <2>2 DEF Cancelar
  <2>3. CASE Confirmar
    <3>1. asked' \subseteq Request
      BY <1>0, <2>3 DEF Confirmar, End, Request
    <3> QED
      BY <2>3, <3>1 DEF Confirmar, Cleared
  <2> QED
    BY <1>10, <2>1, <2>2, <2>3
<1>11. CASE EndFails \/ EndAccepted
  <2>1. CASE EndFails
    <3>1. calm' \in BOOLEAN
      BY <2>1, Zenon DEF EndFails
    <3> QED
      BY <1>0, <2>1, <3>1 DEF EndFails
  <2>2. CASE EndAccepted
    BY <2>2 DEF EndAccepted
  <2> QED
    BY <1>11, <2>1, <2>2
<1>12. CASE FinalStatus \/ NoFinalStatus
  <2>1. CASE FinalStatus
    BY <1>0, <2>1 DEF FinalStatus
  <2>2. CASE NoFinalStatus
    BY <1>0, <2>2 DEF NoFinalStatus, MayTry
  <2> QED
    BY <1>12, <2>1, <2>2
<1>13. CASE Finish
  <2>1. elections' \in [Election -> {"none", "active", "finished"}]
    BY <1>13 DEF Finish
  <2>2. /\ screen' \in {"home"} \cup Panel /\ timers' \subseteq Timers
        /\ ref' \in Timers \cup {0} /\ starting' \in 0..MaxStarting /\ hasty' \in BOOLEAN
    <3>1. CASE GoTo("results")
      BY <3>1, GoToType
    <3>2. CASE UNCHANGED <<screen, timers, ref, starting, hasty>>
      BY <3>2
    <3> QED
      BY <1>13, <3>1, <3>2 DEF Finish
  <2>3. conn' \in {"disconnected", "connecting", "connected"}
    BY <1>13 DEF Finish
  <2>4. live' \in 0..MaxVotes
    BY <1>13 DEF Finish
  <2>5. /\ ending' = "none" /\ endOf' = 0 /\ tries' = 0 /\ final' = 0
        /\ UNCHANGED <<machVars, netVars, current, answers, createVars, announced, calm,
                       posted>>
    BY <1>13 DEF Finish
  <2> QED
    BY <1>0, <2>1, <2>2, <2>3, <2>4, <2>5
<1>15. CASE Back
  <2>1. Leave("home") /\ current' \in 0..MaxElections
    BY <1>0, <1>15 DEF Back
  <2> QED
    BY <2>1, LeaveType
<1>16. ASSUME NEW e \in Election, Select(e)
       PROVE  TypeInv'
  <2>1. PICK there \in Panel : Leave(there) /\ current' = e
    BY <1>16 DEF Select
  <2>2. there \in {"home"} \cup Panel /\ current' \in 0..MaxElections
    BY <1>0, <2>1
  <2> QED
    BY <2>1, <2>2, LeaveType
<1>17. CASE HabilitarEleitor
  <2>1. asked' \subseteq Request
    BY <1>0, <1>17 DEF HabilitarEleitor, Enable, Request
  <2> QED
    BY <1>17, <2>1 DEF HabilitarEleitor
<1>18. CASE UNCHANGED mesarioVars
  BY <1>18 DEF mesarioVars
<1> QED
  BY <1>1, <1>2, <1>3, <1>4, <1>5, <1>6, <1>7, <1>8, <1>9, <1>10, <1>11, <1>12, <1>13,
     <1>15, <1>16, <1>17, <1>18
     DEF Next, Machine, Polling, Creating, Ending, User

\* Every variable of the app and of the machine keeps its type, whatever is
\* lost, late or pressed.
THEOREM TypeCorrect == Spec => []TypeOK
<1>1. TypeInv => TypeOK
  BY DEF TypeInv
<1> QED
  BY TypeInit, TypeNext, <1>1, PTL DEF Spec

-----------------------------------------------------------------------------
(* Intervals.  While nobody is hasty, at most one call of startPolling waits *)
(* for its status, and then no interval runs.                                *)

PollInv ==
    ~hasty => /\ timers \subseteq {ref}
              /\ screen \notin Panel => timers = {} /\ starting = 0
              /\ starting > 0 => starting = 1 /\ timers = {}

LEMMA PollInit == Init => PollInv
BY DEF Init, PollInv

\* A change of screen stops the interval, and calls startPolling once at most.
LEMMA GoToPolls ==
    ASSUME TypeInv, PollInv, NEW there, GoTo(there)
    PROVE  PollInv'
<1> SUFFICES ASSUME ~hasty' PROVE PollInv'
  BY DEF PollInv
<1>1. ~hasty /\ starting = 0
  <2>1. ~hasty /\ ~(starting > 0)
    BY Zenon DEF GoTo
  <2> QED
    BY <2>1 DEF TypeInv, TypeOK
<1>2. timers' = {} /\ starting' = (IF there \in Panel THEN 1 ELSE 0) /\ screen' = there
  BY <1>1 DEF GoTo, Cleared, PollInv
<1> QED
  BY <1>2 DEF PollInv

LEMMA PollNext == TypeInv /\ PollInv /\ [Next]_mesarioVars => PollInv'
<1> SUFFICES ASSUME TypeInv, PollInv, [Next]_mesarioVars PROVE PollInv'
  OBVIOUS
<1> USE DEF pollVars, histVars, appVars
<1>1. CASE Started
  <2>1. starting \in Nat /\ starting > 0 /\ starting' = starting - 1
        /\ UNCHANGED <<screen, hasty>>
    BY <1>1 DEF Started, TypeInv, TypeOK
  <2>2. PICK t \in Timers : timers' = timers \cup {t} /\ ref' = t
    BY <1>1 DEF Started
  <2> QED
    BY <2>1, <2>2 DEF PollInv
<1>2. CASE NotStarted
  BY <1>2 DEF NotStarted, PollInv, TypeInv, TypeOK
<1>3. CASE Created
  BY <1>3, GoToPolls DEF Created
<1>4. CASE Back
  BY <1>4, GoToPolls DEF Back, Leave
<1>5. ASSUME NEW e \in Election, Select(e)
      PROVE  PollInv'
  BY <1>5, GoToPolls DEF Select, Leave
<1>6. CASE Confirmar
  <2>1. UNCHANGED <<screen, starting, hasty>> /\ timers' = timers \ {ref} /\ ref' = 0
    BY <1>6 DEF Confirmar, Cleared
  <2> QED
    BY <2>1 DEF PollInv
<1>7. CASE Finish
  <2>1. CASE GoTo("results")
    BY <2>1, GoToPolls
  <2>2. CASE UNCHANGED <<screen, timers, ref, starting, hasty>>
    BY <2>2 DEF PollInv
  <2> QED
    BY <1>7, <2>1, <2>2 DEF Finish
<1>8. CASE UNCHANGED <<screen, timers, ref, starting, hasty>>
  BY <1>8 DEF PollInv
<1>9. CASE UrnaLoop \/ (\E r \in asked : Serve(r)) \/ Ask \/ MissStatus
           \/ \E s \in answers : TakeStatus(s)
  BY <1>8, <1>9 DEF UrnaLoop, Serve, Ask, MissStatus, TakeStatus
<1>10. CASE Finalizar \/ Configured \/ CreateFails \/ HabilitarEleitor
  BY <1>8, <1>10 DEF Finalizar, Configured, CreateFails, HabilitarEleitor
<1>11. CASE Encerrar \/ Cancelar \/ EndFails \/ EndAccepted \/ FinalStatus \/ NoFinalStatus
  BY <1>8, <1>11 DEF Encerrar, Cancelar, EndFails, EndAccepted, FinalStatus, NoFinalStatus
<1>12. CASE UNCHANGED mesarioVars
  BY <1>8, <1>12 DEF mesarioVars
<1> QED
  BY <1>1, <1>2, <1>3, <1>4, <1>5, <1>6, <1>7, <1>9, <1>10, <1>11, <1>12
     DEF Next, Machine, Polling, Creating, Ending, User

\* As long as no screen is left before its first status, the interval that
\* runs is the one the app can stop, and outside the panels none runs.
THEOREM PollingStops == Spec => []PollingIsStopped
<1>1. PollInv => PollingIsStopped
  BY DEF PollInv, PollingIsStopped
<1> QED
  BY TypeInit, TypeNext, PollInit, PollNext, <1>1, PTL DEF Spec

-----------------------------------------------------------------------------
(* The machine, by itself.  While clean, a key that is being handled has     *)
(* found the machine open, so in the final state none is.                    *)

KeyInv ==
    clean => /\ key = "held" => phase = "open"
             /\ key = "voted" => phase \in {"open", "waiting"}

ListInv == list \in {0, posted}

UrnaInv == KeyInv /\ ListInv

LEMMA UrnaInit == Init => UrnaInv
BY DEF Init, Urna!Init, UrnaInv, KeyInv, ListInv

\* While clean, the main thread neither opens a machine that waits, nor leaves
\* the final state, nor counts a vote in it.
LEMMA LoopIs ==
    ASSUME TypeInv, UrnaInv, UrnaLoop
    PROVE  /\ list' = list /\ clean' = clean /\ posted' = posted
           /\ clean /\ phase = "waiting" => phase' = "waiting" /\ votes' = votes
           /\ clean => phase # "ended"
           /\ UrnaInv'
<1> USE DEF UrnaInv, KeyInv, ListInv, TypeInv, TypeOK
<1>0. Urna!Loop /\ posted' = posted /\ list' = list /\ clean' = clean
  BY LoopType DEF UrnaLoop, histVars
<1>1. CASE Urna!Press
  BY <1>0, <1>1 DEF Urna!Press
<1>2. CASE Urna!Reopen
  BY <1>0, <1>2 DEF Urna!Reopen
<1>3. CASE Urna!Count
  BY <1>0, <1>3 DEF Urna!Count
<1>4. CASE Urna!Lock
  BY <1>0, <1>4 DEF Urna!Lock
<1>5. CASE Urna!Release
  BY <1>0, <1>5 DEF Urna!Release
<1> QED
  BY <1>0, <1>1, <1>2, <1>3, <1>4, <1>5 DEF Urna!Loop

LEMMA ServeKeepsUrna ==
    ASSUME TypeInv, UrnaInv, NEW r \in asked, Serve(r)
    PROVE  UrnaInv'
<1> USE DEF UrnaInv, KeyInv, ListInv
<1>1. CASE r.op = "configure"
  BY <1>1, ServeIs
<1>2. CASE r.op = "start"
  BY <1>2, ServeIs
<1>3. CASE r.op = "enable"
  BY <1>3, ServeIs
<1>4. CASE r.op = "end"
  BY <1>4, ServeIs
<1> QED
  BY <1>1, <1>2, <1>3, <1>4, ServeIs

LEMMA UrnaNext == TypeInv /\ UrnaInv /\ [Next]_mesarioVars => UrnaInv'
<1> SUFFICES ASSUME TypeInv, UrnaInv, [Next]_mesarioVars PROVE UrnaInv'
  OBVIOUS
<1>1. CASE UNCHANGED <<machVars, posted>>
  BY <1>1 DEF machVars, UrnaInv, KeyInv, ListInv
<1>2. CASE UrnaLoop
  BY <1>2, LoopIs
<1>3. ASSUME NEW r \in asked, Serve(r)
      PROVE  UrnaInv'
  BY <1>3, ServeKeepsUrna
<1>4. CASE Polling
  BY <1>1, <1>4 DEF Polling, Started, NotStarted, Ask, MissStatus, TakeStatus, histVars
<1>5. CASE Creating
  BY <1>1, <1>5 DEF Creating, Finalizar, Configured, Created, CreateFails, histVars
<1>6. CASE Ending
  BY <1>1, <1>6 DEF Ending, Encerrar, Cancelar, Confirmar, EndFails, EndAccepted, FinalStatus,
                    NoFinalStatus, Finish, histVars
<1>7. CASE User
  BY <1>1, <1>7 DEF User, Back, Leave, HabilitarEleitor, Select, histVars
<1>8. CASE UNCHANGED mesarioVars
  BY <1>1, <1>8 DEF mesarioVars, histVars
<1> QED
  BY <1>2, <1>3, <1>4, <1>5, <1>6, <1>7, <1>8 DEF Next, Machine

-----------------------------------------------------------------------------
(* Requests and what the machine holds.  While calm, a request is on its way *)
(* only for the handler that waits for it, or for a voter (AskedInv), its    *)
(* answer is waited for (AnsweredInv), the answer tells what the machine was *)
(* sent and, while clean, what it does (MachineInv), and a result that was   *)
(* announced is that of an election no list can replace any more but a newer *)
(* one (AnnouncedInv).                                                       *)

HandlerInv ==
    /\ Loading => screen = "home"
    /\ screen = "home" => ending = "none"

AskedInv ==
    /\ \A r \in asked : r.op = "configure" => create = "configure" /\ r = Configure
    /\ \A r \in asked : r.op = "start" => create = "start" /\ r = Start
    /\ \A r \in asked : r.op = "end" => ending = "end" /\ r = End(endOf)
    /\ \A r \in asked : r.op = "enable" => screen # "home" /\ r = Enable

AnsweredInv ==
    /\ \A r \in answered : r.op = "configure" => create = "configure" /\ r = Configure
    /\ \A r \in answered : r.op = "start" => create = "start" /\ r = Start
    /\ \A r \in answered : r.op = "end" => ending = "end" /\ r = End(endOf)
    /\ \A r \in asked \cap answered : r.op = "enable"

MachineInv ==
    /\ create = "configure" /\ Configure \in answered => posted = next
    /\ create = "start" => posted = next
    /\ clean /\ create = "start" /\ Start \in answered => phase = "waiting" /\ votes = 0
    /\ clean /\ ending = "end" /\ End(endOf) \in answered => phase = "ended"
    /\ clean /\ ending \in {"status", "winner"} => phase = "ended"

AnnouncedInv ==
    /\ announced.of # 0 => announced.of < next
    /\ clean /\ announced.of # 0 /\ posted = announced.of =>
          phase = "ended" /\ votes = announced.votes

CalmInv == HandlerInv /\ AskedInv /\ AnsweredInv /\ MachineInv /\ AnnouncedInv

\* Elections are numbered in the order of their creation.
NumberInv ==
    /\ \A e \in Election : elections[e] # "none" => e < next
    /\ screen = "voting" => current < next
    /\ ending # "none" => endOf < next

LEMMA NumberInit == Init => NumberInv
BY DEF Init, NumberInv

LEMMA NumberNext == TypeInv /\ NumberInv /\ [Next]_mesarioVars => NumberInv'
<1> SUFFICES ASSUME TypeInv, NumberInv, [Next]_mesarioVars PROVE NumberInv'
  OBVIOUS
<1>0. next \in Nat /\ elections \in [Election -> {"none", "active", "finished"}]
  BY BoundAssumption DEF TypeInv, TypeOK
<1> USE DEF NumberInv, appVars, createVars, endVars
<1>1. CASE UNCHANGED <<screen, elections, current, next, ending, endOf>>
  BY <1>1
<1>2. CASE Created
  <2>1. next \in Election /\ elections' = [elections EXCEPT ![next] = "active"]
        /\ current' = next /\ next' = next + 1 /\ UNCHANGED <<ending, endOf>>
    BY <1>2 DEF Created, TypeInv, Loading
  <2>2. endOf \in Nat
    BY BoundAssumption DEF TypeInv, TypeOK
  <2>3. \A e \in Election : e \in Nat
    BY BoundAssumption DEF Election
  <2> QED
    BY <1>0, <2>1, <2>2, <2>3
<1>3. CASE Finish
  <2>1. /\ ending # "none" /\ ending' = "none" /\ UNCHANGED <<current, next>>
        /\ elections' = [elections EXCEPT ![endOf] = "finished"] /\ screen' = "results"
    BY <1>3 DEF Finish, GoTo
  <2> QED
    BY <1>0, <2>1
<1>4. CASE Back
  BY <1>4 DEF Back, Leave, GoTo
<1>5. ASSUME NEW e \in Election, Select(e)
      PROVE  NumberInv'
  BY <1>5 DEF Select, Leave
<1>6. CASE Encerrar \/ Cancelar \/ Confirmar
  BY <1>6 DEF Encerrar, Cancelar, Confirmar, Asking
<1>7. CASE UrnaLoop \/ (\E r \in asked : Serve(r)) \/ Started \/ NotStarted \/ Ask \/ MissStatus
           \/ \E s \in answers : TakeStatus(s)
  BY <1>1, <1>7 DEF UrnaLoop, Serve, Started, NotStarted, Ask, MissStatus, TakeStatus
<1>8. CASE Finalizar \/ Configured \/ CreateFails \/ HabilitarEleitor
  BY <1>1, <1>8 DEF Finalizar, Configured, CreateFails, HabilitarEleitor
<1>9. CASE EndFails \/ EndAccepted \/ FinalStatus \/ NoFinalStatus
  BY <1>1, <1>9 DEF EndFails, EndAccepted, FinalStatus, NoFinalStatus
<1>10. CASE UNCHANGED mesarioVars
  BY <1>1, <1>10 DEF mesarioVars
<1> QED
  BY <1>2, <1>3, <1>4, <1>5, <1>6, <1>7, <1>8, <1>9, <1>10
     DEF Next, Machine, Polling, Creating, Ending, User

LEMMA CalmInit == Init => CalmInv
BY DEF Init, Urna!Init, CalmInv, HandlerInv, AskedInv, AnsweredInv, MachineInv, AnnouncedInv, Loading

\* Nothing is forgotten: a phone that was not calm never is.
LEMMA CalmWas == Next /\ calm' => calm
<1> SUFFICES ASSUME Next, calm' PROVE calm
  OBVIOUS
<1> USE Zenon DEF histVars
<1>1. CASE Machine \/ Polling
  BY <1>1 DEF Machine, UrnaLoop, Serve, Polling, Started, NotStarted, Ask, MissStatus, TakeStatus
<1>2. CASE Creating
  BY <1>2 DEF Creating, Finalizar, Configured, Created, CreateFails
<1>3. CASE Ending
  BY <1>3 DEF Ending, Encerrar, Cancelar, Confirmar, EndFails, EndAccepted, FinalStatus, NoFinalStatus, Finish
<1>4. CASE User
  BY <1>4 DEF User, Back, Leave, HabilitarEleitor, Select
<1> QED
  BY <1>1, <1>2, <1>3, <1>4 DEF Next

\* A step that touches neither requests, handlers nor the machine.
LEMMA IdleKeepsCalm ==
    ASSUME CalmInv, UNCHANGED <<machVars, netVars, createVars, endVars, screen, posted>>
    PROVE  CalmInv'
BY DEF CalmInv, HandlerInv, AskedInv, AnsweredInv, MachineInv, AnnouncedInv, Loading,
       machVars, netVars, createVars, endVars, Configure, Start, Enable, End

LEMMA LoopKeepsCalm ==
    ASSUME TypeInv, UrnaInv, CalmInv, UrnaLoop
    PROVE  CalmInv'
<1>1. /\ clean' = clean /\ posted' = posted /\ (clean => phase # "ended")
      /\ clean /\ phase = "waiting" => phase' = "waiting" /\ votes' = votes
      /\ UNCHANGED <<netVars, appVars, createVars, endVars>>
  BY LoopIs DEF UrnaLoop
<1> QED
  BY <1>1 DEF CalmInv, HandlerInv, AskedInv, AnsweredInv, MachineInv, AnnouncedInv,
              Loading, netVars, appVars, createVars, endVars, Configure, Start, Enable, End

\* An answer is of the request, and the machine is as the request left it.
LEMMA ServeKeepsCalm ==
    ASSUME TypeInv, UrnaInv, CalmInv, NEW r \in asked, Serve(r)
    PROVE  CalmInv'
<1> USE DEF CalmInv
<1>1. /\ asked' = asked \ {r} /\ answered' \subseteq answered \cup {r}
      /\ UNCHANGED <<screen, create, send, next, ending, endOf, announced>>
  BY DEF Serve, appVars, createVars, endVars
<1>2. Configure' = Configure /\ Start' = Start /\ End(endOf)' = End(endOf)
  BY <1>1 DEF Configure, Start, Enable, End
<1>3. HandlerInv'
  BY <1>1 DEF HandlerInv, Loading
<1>4. AskedInv'
  BY <1>1, <1>2 DEF AskedInv
<1>5. AnsweredInv'
  BY <1>1, <1>2 DEF AskedInv, AnsweredInv
<1>6. announced.of \in Nat /\ next \in Nat
  BY BoundAssumption DEF TypeInv, TypeOK
<1>7. MachineInv' /\ AnnouncedInv'
  <2>1. CASE r.op = "configure"
    <3>1. create = "configure" /\ ending = "none" /\ r.of = next
      BY <2>1 DEF AskedInv, HandlerInv, Loading, Configure
    <3>2. posted' = next /\ clean' = FALSE
      BY <2>1, <3>1, ServeIs
    <3> QED
      BY <1>1, <1>6, <3>1, <3>2 DEF MachineInv, AnnouncedInv
  <2>2. CASE r.op = "start"
    <3>1. create = "start" /\ ending = "none" /\ posted = next
      BY <2>2 DEF AskedInv, HandlerInv, MachineInv, Loading
    <3>2. phase' = "waiting" /\ votes' = 0 /\ posted' = posted
      BY <2>2, ServeIs
    <3> QED
      BY <1>1, <1>6, <3>1, <3>2 DEF MachineInv, AnnouncedInv
  <2>3. CASE r.op = "enable"
    <3>1. create = "none"
      BY <2>3 DEF AskedInv, HandlerInv, Loading
    <3>2. UNCHANGED <<votes, clean, posted>> /\ (phase = "ended" => phase' = "ended")
      BY <2>3, ServeIs
    <3>3. End(endOf) \in answered' => End(endOf) \in answered
      BY <1>1, <2>3 DEF End
    <3> QED
      BY <1>1, <1>2, <3>1, <3>2, <3>3 DEF MachineInv, AnnouncedInv
  <2>4. CASE r.op = "end"
    <3>1. create = "none"
      BY <2>4 DEF AskedInv, HandlerInv, Loading
    <3>2. phase' = "ended" /\ UNCHANGED <<votes, posted>> /\ (clean' => clean)
      BY <2>4, ServeIs
    <3> QED
      BY <1>1, <3>1, <3>2 DEF MachineInv, AnnouncedInv
  <2> QED
    BY <2>1, <2>2, <2>3, <2>4, ServeIs
<1> QED
  BY <1>3, <1>4, <1>5, <1>7

LEMMA CreatingKeepsCalm ==
    ASSUME TypeInv, CalmInv, Creating, calm'
    PROVE  CalmInv'
<1> USE DEF CalmInv, HandlerInv, AskedInv, AnsweredInv, MachineInv, AnnouncedInv, Loading,
            machVars, netVars, appVars, createVars, endVars, histVars
<1>1. CASE Finalizar
  <2>1. /\ screen = "home" /\ create = "none" /\ create' = "configure"
        /\ asked' = asked \cup {Configure'} /\ Configure'.op = "configure"
        /\ UNCHANGED <<machVars, posted, answered, screen, next, endVars>>
    BY <1>1 DEF Finalizar, Configure
  <2>2. Configure' \notin answered
    BY <2>1
  <2> QED
    BY <2>1, <2>2 DEF End
<1>2. CASE Configured
  <2>1. /\ create = "configure" /\ Configure \in answered /\ create' = "start"
        /\ answered' = answered \ {Configure} /\ asked' = asked \cup {Start}
        /\ Start' = Start /\ Start.op = "start" /\ Configure.op = "configure"
        /\ UNCHANGED <<machVars, posted, screen, next, endVars>>
    BY <1>2 DEF Configured, Configure, Start
  <2>2. Configure \notin asked /\ Start \notin answered /\ ending = "none" /\ posted = next
    BY <2>1
  <2> QED
    BY <2>1, <2>2 DEF End
<1>3. CASE Created
  <2>1. /\ create = "start" /\ Start \in answered /\ create' = "none"
        /\ answered' = answered \ {Start} /\ screen' = "voting" /\ next' = next + 1
        /\ Start.op = "start"
        /\ UNCHANGED <<machVars, posted, asked, endVars>>
    BY <1>3 DEF Created, GoTo, Start
  <2>2. Start \notin asked /\ ending = "none"
    BY <2>1
  <2>3. announced.of \in Nat /\ next \in Nat
    BY BoundAssumption DEF TypeInv, TypeOK
  <2> QED
    BY <2>1, <2>2, <2>3 DEF End
<1>4. CASE CreateFails
  <2>1. asked \cap {Configure, Start} = {}
    BY <1>4, Zenon DEF CreateFails
  <2>2. /\ create' = "none" /\ answered' = answered \ {Configure, Start}
        /\ create \in {"configure", "start"}
        /\ UNCHANGED <<machVars, posted, asked, screen, next, endVars>>
    BY <1>4 DEF CreateFails
  <2> QED
    BY <2>1, <2>2 DEF End
<1> QED
  BY <1>1, <1>2, <1>3, <1>4 DEF Creating

LEMMA EndingKeepsCalm ==
    ASSUME TypeInv, NumberInv, CalmInv, Ending, calm'
    PROVE  CalmInv'
<1> USE DEF CalmInv, HandlerInv, AskedInv, AnsweredInv, MachineInv, AnnouncedInv, Loading,
            machVars, netVars, appVars, createVars, endVars, histVars
<1>1. CASE Encerrar \/ Cancelar
  <2>1. /\ screen = "voting" \/ ending = "alert"
        /\ create = "none" \/ ending = "alert"
        /\ ending \in {"none", "alert"} /\ ending' \in {"none", "alert"}
        /\ UNCHANGED <<machVars, posted, netVars, screen, createVars, announced>>
    BY <1>1 DEF Encerrar, Cancelar, Asking
  <2>2. create = "none" /\ screen # "home"
    BY <1>1, <2>1 DEF Encerrar, Cancelar, Asking
  <2>3. \A r \in asked \cup answered : r.op # "end"
    BY <2>1
  <2> QED
    BY <2>1, <2>2, <2>3 DEF Configure, Start, Enable
<1>7. CASE Confirmar
  <2>1. /\ ending = "alert" /\ ending' = "end" /\ endOf' = endOf
        /\ asked' = asked \cup {End(endOf')} /\ End(endOf').op = "end"
        /\ UNCHANGED <<machVars, posted, answered, screen, createVars, announced>>
    BY <1>7 DEF Confirmar, Asking, End
  <2>2. End(endOf') \notin answered /\ create = "none"
    BY <2>1
  <2> QED
    BY <2>1, <2>2 DEF Configure, Start, Enable, End
<1>2. CASE EndFails
  <2>1. End(endOf) \notin asked
    BY <1>2, Zenon DEF EndFails
  <2>2. /\ ending = "end" /\ ending' = "none" /\ answered' = answered \ {End(endOf)}
        /\ UNCHANGED <<machVars, posted, asked, screen, createVars, announced>>
    BY <1>2 DEF EndFails
  <2> QED
    BY <2>1, <2>2 DEF Configure, Start
<1>3. CASE EndAccepted
  <2>1. /\ ending = "end" /\ End(endOf) \in answered /\ ending' = "status"
        /\ answered' = answered \ {End(endOf)} /\ End(endOf).op = "end"
        /\ UNCHANGED <<machVars, posted, asked, screen, createVars, endOf, announced>>
    BY <1>3 DEF EndAccepted, End
  <2>2. End(endOf) \notin asked /\ create = "none"
    BY <2>1
  <2> QED
    BY <2>1, <2>2 DEF Configure, Start
<1>4. CASE FinalStatus
  <2>1. /\ ending = "status" /\ ending' = "winner"
        /\ announced' = [of |-> endOf, votes |-> votes]
        /\ UNCHANGED <<machVars, posted, netVars, screen, createVars, endOf>>
    BY <1>4 DEF FinalStatus
  <2>2. endOf < next
    BY <2>1 DEF NumberInv
  <2> QED
    BY <2>1, <2>2 DEF Configure, Start
<1>5. CASE NoFinalStatus
  BY <1>5 DEF NoFinalStatus, Configure, Start, Enable, End
<1>6. CASE Finish
  <2>1. /\ ending \in {"status", "winner"} /\ ending' = "none" /\ screen' = "results"
        /\ UNCHANGED <<machVars, posted, netVars, createVars, announced>>
    BY <1>6 DEF Finish, GoTo
  <2> QED
    BY <2>1 DEF Configure, Start
<1> QED
  BY <1>1, <1>2, <1>3, <1>4, <1>5, <1>6, <1>7 DEF Ending

LEMMA UserKeepsCalm ==
    ASSUME TypeInv, CalmInv, User, calm'
    PROVE  CalmInv'
<1> USE DEF CalmInv, HandlerInv, AskedInv, AnsweredInv, MachineInv, AnnouncedInv, Loading,
            machVars, netVars, appVars, createVars, endVars, histVars
<1>1. ASSUME NEW there, Leave(there)
      PROVE  CalmInv'
  <2>1. ending = "none" /\ Enable \notin asked
    BY <1>1, Zenon DEF Leave
  <2>2. create = "none" /\ UNCHANGED <<machVars, posted, netVars, createVars, endVars>>
    BY <1>1 DEF Leave
  <2>3. \A r \in asked : r.op # "enable"
    BY <2>1
  <2> QED
    BY <2>1, <2>2, <2>3 DEF Configure, Start, Enable, End
<1>2. CASE HabilitarEleitor
  <2>1. /\ screen = "voting" /\ create = "none" /\ asked' = asked \cup {Enable}
        /\ Enable.op = "enable"
        /\ UNCHANGED <<machVars, posted, answered, screen, createVars, endVars>>
    BY <1>2 DEF HabilitarEleitor, Enable
  <2> QED
    BY <2>1 DEF Configure, Start, Enable, End
<1>3. CASE Back
  BY <1>1, <1>3 DEF Back
<1>4. ASSUME NEW e \in Election, Select(e)
      PROVE  CalmInv'
  BY <1>1, <1>4 DEF Select
<1> QED
  BY <1>2, <1>3, <1>4 DEF User

LEMMA CalmNext ==
    TypeInv /\ UrnaInv /\ NumberInv /\ (calm => CalmInv) /\ [Next]_mesarioVars
        => (calm' => CalmInv')
<1> SUFFICES ASSUME TypeInv, UrnaInv, NumberInv, calm => CalmInv, [Next]_mesarioVars, calm'
             PROVE  CalmInv'
  OBVIOUS
<1>1. CASE Next
  <2>1. CalmInv
    BY <1>1, CalmWas
  <2>2. CASE Machine
    BY <2>1, <2>2, LoopKeepsCalm, ServeKeepsCalm DEF Machine
  <2>3. CASE Polling
    <3>1. UNCHANGED <<machVars, netVars, createVars, endVars, screen, posted>>
      BY <2>3 DEF Polling, Started, NotStarted, Ask, MissStatus, TakeStatus, appVars, histVars
    <3> QED
      BY <2>1, <3>1, IdleKeepsCalm
  <2>4. CASE Creating
    BY <2>1, <2>4, CreatingKeepsCalm
  <2>5. CASE Ending
    BY <2>1, <2>5, EndingKeepsCalm
  <2>6. CASE User
    BY <2>1, <2>6, UserKeepsCalm
  <2> QED
    BY <1>1, <2>2, <2>3, <2>4, <2>5, <2>6 DEF Next
<1>2. CASE UNCHANGED mesarioVars
  <2>1. UNCHANGED <<machVars, netVars, createVars, endVars, screen, posted>> /\ calm
    BY <1>2 DEF mesarioVars, appVars, histVars
  <2> QED
    BY <2>1, IdleKeepsCalm
<1> QED
  BY <1>1, <1>2

AppInv == TypeInv /\ UrnaInv /\ NumberInv /\ (calm => CalmInv)

LEMMA AppInit == Init => AppInv
BY TypeInit, UrnaInit, NumberInit, CalmInit DEF AppInv

LEMMA AppNext == AppInv /\ [Next]_mesarioVars => AppInv'
<1> SUFFICES ASSUME AppInv, [Next]_mesarioVars PROVE AppInv'
  OBVIOUS
<1>1. TypeInv' /\ UrnaInv' /\ NumberInv'
  BY TypeNext, UrnaNext, NumberNext DEF AppInv
<1>2. calm' => CalmInv'
  BY CalmNext, Zenon DEF AppInv
<1> QED
  BY <1>1, <1>2, Zenon DEF AppInv

\* When an election is shown the machine is ready for it: its list is there or
\* none is, no tally is left of an earlier one, and no voter is admitted, unless
\* a request outlived its handler or a command came inside the handling of a key.
THEOREM ElectionsAreReady == Spec => []ElectionIsReady
<1>1. AppInv => ElectionIsReady
  BY DEF AppInv, UrnaInv, ListInv, CalmInv, MachineInv, ElectionIsReady
<1> QED
  BY AppInit, AppNext, <1>1, PTL DEF Spec

\* No vote is counted after the tally whose winner was announced, with the same
\* two exceptions.
THEOREM WinnersStand == Spec => []WinnerStands
<1>1. AppInv => WinnerStands
  BY DEF AppInv, CalmInv, AnnouncedInv, WinnerStands
<1> QED
  BY AppInit, AppNext, <1>1, PTL DEF Spec

=============================================================================
