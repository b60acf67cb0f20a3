----------------------------- MODULE UrnaProof ------------------------------
(***************************************************************************)
(* Proofs about the voting machine, for any digits, candidate lists,       *)
(* number of JSON tokens and bound on the votes.                           *)
(***************************************************************************)
EXTENDS UrnaHistory, TLAPS, WellFoundedInduction, SequenceTheorems

-----------------------------------------------------------------------------
(* The operators the model is built from.                                    *)

\* A function over the positions of a sequence is a sequence.
LEMMA MapIsSeq ==
    ASSUME NEW S, NEW T, NEW s \in Seq(S), NEW f \in [DOMAIN s -> T]
    PROVE  f \in Seq(T) /\ Len(f) = Len(s) /\ DOMAIN f = DOMAIN s
<1>1. DOMAIN s = 1..Len(s) /\ Len(s) \in Nat
  BY LenProperties
<1> QED
  BY <1>1

\* A set of positions that is not empty has a least element.
LEMMA LeastPosition ==
    ASSUME NEW I \in SUBSET Nat, I # {}
    PROVE  Min(I) \in I /\ \A j \in I : Min(I) <= j
<1> DEFINE Less == {ss \in Nat \X Nat : ss[1] < ss[2]}
<1>1. OpToRel(<, Nat) = Less
  BY DEF OpToRel
<1> HIDE DEF Less
<1>2. IsWellFoundedOn(Less, Nat)
  BY <1>1, NatLessThanWellFounded, Zenon
<1>3. PICK m \in I : \A j \in I : <<j, m>> \notin Less
  BY <1>2, WFMin, Zenon
<1>4. ASSUME NEW j \in I
      PROVE  m <= j
  <2>1. j \in Nat /\ m \in Nat
    OBVIOUS
  <2>2. CASE j < m
    <3>1. <<j, m>> \in Less
      BY <2>1, <2>2 DEF Less
    <3> QED
      BY <1>3, <3>1
  <2> QED
    BY <2>1, <2>2
<1> QED
  BY <1>4 DEF Min

\* The search loop returns a position of the list, or 0.
LEMMA MatchingInRange ==
    ASSUME candidates \in Seq(Candidate), NEW text
    PROVE  Matching(text) \in 0..Len(candidates)
<1> DEFINE I == {i \in 1..Len(candidates) : candidates[i].number = text}
<1>1. Matching(text) = IF I # {} THEN Min(I) ELSE 0
  BY DEF Matching, SelectInSeq
<1>2. Len(candidates) \in Nat
  BY LenProperties
<1>3. CASE I = {}
  BY <1>1, <1>2, <1>3
<1>4. CASE I # {}
  <2>1. I \in SUBSET Nat
    BY <1>2
  <2> HIDE DEF I
  <2>2. Min(I) \in I
    BY <1>4, <2>1, LeastPosition, Zenon
  <2> QED
    BY <1>1, <1>2, <1>4, <2>2 DEF I
<1> QED
  BY <1>3, <1>4

\* The counters are natural numbers.
LEMMA TalliesType ==
    ASSUME candidates \in Seq(Candidate), votes_blank \in Nat, votes_null \in Nat
    PROVE  Tallies \in Seq(Nat)
<1> DEFINE f == [c \in DOMAIN candidates |-> candidates[c].votes]
<1>1. f \in [DOMAIN candidates -> Nat]
  <2>1. ASSUME NEW c \in DOMAIN candidates
        PROVE  candidates[c].votes \in Nat
    <3>1. candidates[c] \in Candidate
      BY <2>1, LenProperties
    <3> QED
      BY <3>1 DEF Candidate
  <2> QED
    BY <2>1
<1>2. f \in Seq(Nat)
  BY <1>1, MapIsSeq
<1>3. <<votes_blank, votes_null>> \in Seq(Nat)
  OBVIOUS
<1> QED
  BY <1>2, <1>3, ConcatProperties DEF Tallies

\* A list that /configure leaves is a list of candidates.
LEMMA ConfiguredType ==
    ASSUME NEW slate \in Slates, NEW split \in BOOLEAN
    PROVE  Configured(slate, split) \in Seq(Candidate)
<1> DEFINE f == [c \in DOMAIN slate |-> [number |-> Stored(slate[c]), votes |-> 0]]
<1>1. slate \in Seq(Seq(Digit))
  BY SlateAssumption
<1>2. ASSUME NEW c \in DOMAIN slate
      PROVE  [number |-> Stored(slate[c]), votes |-> 0] \in Candidate
  <2>1. slate[c] \in Seq(Digit)
    BY <1>1, <1>2, LenProperties
  <2>2. Stored(slate[c]) \in Seq(Digit)
    <3> DEFINE n == IF Len(slate[c]) < 2 THEN Len(slate[c]) ELSE 2
    <3>1. n \in Int /\ \A i \in 1..n : slate[c][i] \in Digit
      BY <2>1, LenProperties, ElementOfSeq
    <3> HIDE DEF n
    <3>2. SubSeq(slate[c], 1, n) \in Seq(Digit)
      BY <3>1, SubSeqProperties
    <3> QED
      BY <3>2 DEF Stored, n
  <2> QED
    BY <2>2 DEF Candidate
<1>3. f \in [DOMAIN slate -> Candidate]
  BY <1>2
<1> HIDE DEF f
<1>4. f \in Seq(Candidate)
  BY <1>1, <1>3, MapIsSeq
<1>5. <<>> \in Seq(Candidate)
  OBVIOUS
<1> QED
  BY <1>4, <1>5 DEF Configured, f

\* /start keeps the numbers and the length of the list.
LEMMA ZeroedType ==
    ASSUME NEW list \in Seq(Candidate)
    PROVE  /\ Zeroed(list) \in Seq(Candidate)
           /\ Len(Zeroed(list)) = Len(list)
           /\ DOMAIN Zeroed(list) = DOMAIN list
<1>1. ASSUME NEW c \in DOMAIN list
      PROVE  [list[c] EXCEPT !.votes = 0] \in Candidate
  <2>1. list[c] \in Candidate
    BY <1>1, LenProperties
  <2> QED
    BY <2>1 DEF Candidate
<1>2. Zeroed(list) \in [DOMAIN list -> Candidate]
  BY <1>1 DEF Zeroed
<1> QED
  BY <1>2, MapIsSeq

\* A vote changes one counter of the list and nothing else in it.
LEMMA VoteType ==
    ASSUME NEW list \in Seq(Candidate), NEW c \in DOMAIN list, NEW n \in Nat
    PROVE  /\ [list EXCEPT ![c].votes = n] \in Seq(Candidate)
           /\ Len([list EXCEPT ![c].votes = n]) = Len(list)
           /\ DOMAIN [list EXCEPT ![c].votes = n] = DOMAIN list
<1> DEFINE new == [list EXCEPT ![c].votes = n]
<1>1. \A d \in DOMAIN list : list[d] \in Candidate
  BY LenProperties
<1>2. [list[c] EXCEPT !.votes = n] \in Candidate
  BY <1>1 DEF Candidate
<1>3. new \in [DOMAIN list -> Candidate]
  BY <1>1, <1>2, LenProperties
<1> HIDE DEF new
<1>4. new \in Seq(Candidate) /\ Len(new) = Len(list) /\ DOMAIN new = DOMAIN list
  BY <1>3, MapIsSeq
<1> QED
  BY <1>4 DEF new

\* What the display can hold.
LEMMA ScreenType ==
    ASSUME TypeOK, NEW state \in UrnaState
    PROVE  Screen(state) \in
               [screen : UrnaState \cup {"dark"}, who : Nat, tallies : Seq(Nat)]
<1>1. Tallies \in Seq(Nat)
  BY TalliesType DEF TypeOK
<1>2. Matching(Text(current_vote_buffer)) \in Nat
  BY MatchingInRange, LenProperties DEF TypeOK
<1>3. <<>> \in Seq(Nat)
  OBVIOUS
<1> QED
  BY <1>1, <1>2, <1>3 DEF Screen

-----------------------------------------------------------------------------
(* Types.  TypeOK alone is not inductive: that input_pos stays below 3 and   *)
(* that only digits enter the buffer depend on what the registers hold where *)
(* they are used.                                                            *)

RegistersOK ==
    /\ pc \in {"voting", "digit", "advance", "advance2", "put", "put2"} => key \in Digit
    /\ pc \in {"advance", "advance2", "put", "put2"} => tmp \in 0..1
    /\ pc = "find" => key = "A"
    /\ pc \in {"load", "store"} => key \in {"A", "D"}
    /\ pc \in {"load", "store"} /\ key = "A" /\ ~stale => slot \in 0..Len(candidates)

TypeInv == TypeOK /\ RegistersOK

LEMMA TypeInit == Init => TypeInv
<1> SUFFICES ASSUME Init PROVE TypeInv
  OBVIOUS
<1>1. <<>> \in Seq(Candidate) /\ <<>> \in Seq(Nat)
  OBVIOUS
<1> QED
  BY <1>1 DEF Init, TypeInv, TypeOK, RegistersOK, UrnaState, PcLabel, EmptyBuffer

LEMMA TypeNext == TypeInv /\ [Next]_vars => TypeInv'
<1> SUFFICES ASSUME TypeInv, [Next]_vars PROVE TypeInv'
  OBVIOUS
<1> USE DEF TypeInv, TypeOK, RegistersOK, entryVars, tallyVars, mainVars
<1>1. CASE Draw
  BY <1>1 DEF Draw, At, PcLabel
<1>2. CASE Show
  <2>1. oled' \in [screen : UrnaState \cup {"dark"}, who : Nat, tallies : Seq(Nat)]
    BY <1>2, ScreenType DEF Show
  <2> QED
    BY <1>2, <2>1 DEF Show, At, PcLabel, UrnaState
<1>3. CASE Gate
  BY <1>3 DEF Gate, PcLabel
<1>4. CASE ScanNothing
  BY <1>4 DEF ScanNothing, At, PcLabel
<1>5. ASSUME NEW k \in Digit \cup Letter, ScanKey(k)
      PROVE  TypeInv'
  BY <1>5 DEF ScanKey, At, PcLabel
<1>6. CASE FirstDigit
  BY <1>6 DEF FirstDigit, PcLabel
<1>7. CASE BecomeVoting
  BY <1>7 DEF BecomeVoting, At, PcLabel, UrnaState
<1>8. CASE CheckVoting
  BY <1>8 DEF CheckVoting, PcLabel
<1>9. CASE ReadInputPos
  BY <1>9 DEF ReadInputPos, HasRoom, PcLabel
<1>10. CASE StoreInputPos
  BY <1>10 DEF StoreInputPos, At, PcLabel
<1>11. CASE StoreDigit
  <2>1. key \in Digit
    BY <1>11 DEF StoreDigit, At
  <2>2. current_vote_buffer' \in [0..2 -> Digit \cup {NUL}]
    BY <1>11, <2>1 DEF StoreDigit
  <2> QED
    BY <1>11, <2>2 DEF StoreDigit, At, PcLabel
<1>12. CASE CheckFull
  BY <1>12 DEF CheckFull, PcLabel
<1>13. CASE BecomeShowing
  BY <1>13 DEF BecomeShowing, At, PcLabel, UrnaState
<1>14. CASE SwitchKey
  <2>1. pc' = "find" => key = "A"
    BY <1>14 DEF SwitchKey, AfterSwitch
  <2>2. pc' = "load" => key = "D"
    BY <1>14 DEF SwitchKey, AfterSwitch
  <2>3. pc' \in {"find", "correct", "load", "release"}
    BY <1>14 DEF SwitchKey, AfterSwitch
  <2> QED
    BY <1>14, <2>1, <2>2, <2>3 DEF SwitchKey, PcLabel
<1>15. CASE Find
  <2>1. slot' \in 0..Len(candidates)
    BY <1>15, MatchingInRange DEF Find
  <2> QED
    BY <1>15, <2>1, LenProperties DEF Find, At, PcLabel
<1>16. CASE LoadTally
  <2>1. tmp' \in Nat
    <3>1. CASE stale /\ slot > 0
      BY <1>16, <3>1, BoundAssumption DEF LoadTally
    <3>2. CASE ~(stale /\ slot > 0) /\ key = "D"
      BY <1>16, <3>2 DEF LoadTally
    <3>3. CASE ~(stale /\ slot > 0) /\ key # "D" /\ slot = 0
      BY <1>16, <3>3 DEF LoadTally
    <3>4. CASE ~(stale /\ slot > 0) /\ key # "D" /\ slot # 0
      <4>1. slot \in 1..Len(candidates)
        BY <1>16, <3>4, LenProperties DEF LoadTally, At
      <4>2. candidates[slot] \in Candidate
        BY <4>1, ElementOfSeq
      <4> QED
        BY <1>16, <3>4, <4>2 DEF LoadTally, Candidate
    <3> QED
      BY <3>1, <3>2, <3>3, <3>4
  <2> QED
    BY <1>16, <2>1 DEF LoadTally, At, PcLabel
<1>17. CASE StoreTally
  <2>1. candidates' \in Seq(Candidate) /\ votes_blank' \in Nat /\ votes_null' \in Nat
    <3>1. CASE StoreCandidate
      <4>1. slot \in DOMAIN candidates /\ tmp + 1 \in Nat
        BY <3>1 DEF StoreCandidate
      <4>2. [candidates EXCEPT ![slot].votes = tmp + 1] \in Seq(Candidate)
        BY <4>1, VoteType
      <4> QED
        BY <3>1, <4>2 DEF StoreCandidate
    <3>2. CASE StoreBlank
      BY <3>2 DEF StoreBlank
    <3>3. CASE StoreNull
      BY <3>3 DEF StoreNull
    <3>4. CASE StoreLost
      BY <3>4 DEF StoreLost
    <3> QED
      BY <1>17, <3>1, <3>2, <3>3, <3>4 DEF StoreTally
  <2> QED
    BY <1>17, <2>1 DEF StoreTally, At, PcLabel
<1>18. CASE Confirm
  BY <1>18 DEF Confirm, At, PcLabel, UrnaState
<1>19. CASE ResetEntry
  BY <1>19 DEF ResetEntry, ResetVoteState, EmptyBuffer, At, PcLabel
<1>20. CASE Lock
  BY <1>20 DEF Lock, LockedState, At, PcLabel, UrnaState
<1>21. CASE Reopen
  BY <1>21 DEF Reopen, At, PcLabel, UrnaState
<1>22. CASE ReleaseKey
  BY <1>22 DEF ReleaseKey, At, PcLabel
<1>23. ASSUME NEW slate \in Slates, NEW split \in BOOLEAN, Configure(slate, split)
       PROVE  TypeInv'
  <2>1. candidates' \in Seq(Candidate)
    BY <1>23, ConfiguredType DEF Configure
  <2>2. pc \in {"load", "store"} /\ key = "A" => stale'
    BY <1>23 DEF Configure
  <2>3. stale' \in BOOLEAN
    BY <1>23 DEF Configure
  <2> QED
    BY <1>23, <2>1, <2>2, <2>3 DEF Configure
<1>24. CASE Start
  <2>1. candidates' \in Seq(Candidate) /\ Len(candidates') = Len(candidates)
    BY <1>24, ZeroedType DEF Start
  <2> QED
    BY <1>24, <2>1 DEF Start, StartState, ResetVoteState, EmptyBuffer, UrnaState
<1>25. CASE Enable
  BY <1>25 DEF Enable, ResetVoteState, EmptyBuffer, UrnaState
<1>26. CASE End
  BY <1>26 DEF End, UrnaState
<1>27. CASE UNCHANGED vars
  BY <1>27 DEF vars
<1> QED
  BY <1>1, <1>2, <1>3, <1>4, <1>5, <1>6, <1>7, <1>8, <1>9, <1>10, <1>11, <1>12,
     <1>13, <1>14, <1>15, <1>16, <1>17, <1>18, <1>19, <1>20, <1>21, <1>22, <1>23,
     <1>24, <1>25, <1>26, <1>27
     DEF Next, UrnaLoop, Command

\* Every variable of the firmware keeps its type, whatever the commands do.
THEOREM TypeCorrect == Spec => []TypeOK
<1>1. TypeInv => TypeOK
  BY DEF TypeInv
<1> QED
  BY TypeInit, TypeNext, <1>1, PTL DEF Spec

-----------------------------------------------------------------------------
(* The history variables only watch.                                         *)

LEMMA HistoryWatches == [HNext]_allVars => [Next]_vars
BY DEF HNext, HVote, HQuiet, HCommand, HConfigure, HStart, HEnable, HEnd,
       Next, UrnaLoop, Command, allVars, vars

-----------------------------------------------------------------------------
(* Votes need permission.  Admitting: the main thread is handling a key, or  *)
(* will find the state open at the gate, so a vote may follow without any    *)
(* command.  No step of the main thread makes Admitting true, the store of   *)
(* a vote makes it false, and every command that makes it true is recorded.  *)

Handling == {"scan", "first", "voting", "entry", "digit", "advance", "advance2",
             "put", "put2", "full", "showing", "switch", "find", "load", "store",
             "correct", "reopen"}

Locking == {"confirm", "fim", "fimshow", "reset", "lock"}

Admitting ==
    \/ pc \in Handling
    \/ current_state \in OpenStates /\ pc \notin Locking

\* The main thread never admits a vote by itself.
LEMMA LoopAdmitsNothing == UrnaLoop /\ Admitting' => Admitting
<1> SUFFICES ASSUME UrnaLoop, Admitting' PROVE Admitting
  OBVIOUS
<1> USE DEF Admitting, Handling, Locking, OpenStates, At
<1>1. CASE Draw \/ Show
  BY <1>1 DEF Draw, Show
<1>2. CASE Gate \/ ScanNothing \/ \E k \in Digit \cup Letter : ScanKey(k)
  BY <1>2 DEF Gate, Open, ScanNothing, ScanKey
<1>3. CASE FirstDigit \/ BecomeVoting \/ CheckVoting
  BY <1>3 DEF FirstDigit, BecomeVoting, CheckVoting
<1>4. CASE ReadInputPos \/ StoreInputPos \/ StoreDigit \/ CheckFull \/ BecomeShowing
  BY <1>4 DEF ReadInputPos, StoreInputPos, StoreDigit, CheckFull, BecomeShowing
<1>5. CASE SwitchKey \/ Find \/ LoadTally \/ StoreTally
  BY <1>5 DEF SwitchKey, Find, LoadTally, StoreTally
<1>6. CASE Confirm \/ ResetEntry \/ Lock \/ Reopen \/ ReleaseKey
  BY <1>6 DEF Confirm, ResetEntry, Lock, LockedState, Reopen, ReleaseKey
<1> QED
  BY <1>1, <1>2, <1>3, <1>4, <1>5, <1>6 DEF UrnaLoop

\* Storing a vote ends the permission it used.
LEMMA VoteEndsAdmission == StoreTally => ~Admitting'
BY DEF StoreTally, At, Admitting, Handling, Locking

\* A /start or /end that meets no key leaves the machine shut.
LEMMA CalmCommandShuts == Calm /\ (Start \/ End) => ~Admitting'
BY DEF Calm, Start, StartState, End, mainVars, Admitting, Handling, OpenStates

CommandInv == Admitting => commanded
LicenceInv == clean /\ Admitting => licence

LEMMA PermissionInit == HInit => CommandInv /\ LicenceInv
BY DEF HInit, Init, CommandInv, LicenceInv, Admitting, Handling, OpenStates

LEMMA PermissionNext ==
    CommandInv /\ LicenceInv /\ [HNext]_allVars => CommandInv' /\ LicenceInv'
<1> SUFFICES ASSUME CommandInv, LicenceInv, [HNext]_allVars
             PROVE  CommandInv' /\ LicenceInv'
  OBVIOUS
<1>1. CASE HVote
  BY <1>1, VoteEndsAdmission DEF HVote, CommandInv, LicenceInv
<1>2. CASE HQuiet
  BY <1>2, LoopAdmitsNothing DEF HQuiet, histVars, CommandInv, LicenceInv
<1>3. CASE HConfigure
  <2>1. Admitting' => Admitting
    BY <1>3 DEF HConfigure, Configure, mainVars, Admitting
  <2> QED
    BY <1>3, <2>1 DEF HConfigure, CommandInv, LicenceInv
<1>4. CASE HStart
  BY <1>4, CalmCommandShuts DEF HStart, CommandInv, LicenceInv
<1>5. CASE HEnable
  BY <1>5 DEF HEnable, CommandInv, LicenceInv
<1>6. CASE HEnd
  BY <1>6, CalmCommandShuts DEF HEnd, CommandInv, LicenceInv
<1>7. CASE UNCHANGED allVars
  BY <1>7 DEF allVars, vars, mainVars, histVars, CommandInv, LicenceInv, Admitting
<1> QED
  BY <1>1, <1>2, <1>3, <1>4, <1>5, <1>6, <1>7 DEF HNext, HCommand

\* One command of the mesario never yields two votes, in any interleaving.
THEOREM VotesNeedCommands == HSpec => []VoteNeedsCommand
<1>1. CommandInv => VoteNeedsCommand
  BY DEF CommandInv, VoteNeedsCommand, Admitting, Handling
<1> QED
  BY PermissionInit, PermissionNext, <1>1, PTL DEF HSpec

\* While no command races with a key, each vote has a /enable of its own.
THEOREM VotesNeedEnables == HSpec => []VoteNeedsEnable
<1>1. LicenceInv => VoteNeedsEnable
  BY DEF LicenceInv, VoteNeedsEnable, Admitting, Handling
<1> QED
  BY PermissionInit, PermissionNext, <1>1, PTL DEF HSpec

-----------------------------------------------------------------------------
(* The final state.  Without races /end finds the main thread outside the    *)
(* handling of a key, and the gate keeps it there.                           *)

FinalInv == clean /\ current_state = "ELECTION_ENDED" => Calm

\* From a calm place in the final state the main thread stays calm, and
\* changes neither the state nor the tallies.
LEMMA CalmStaysCalm ==
    UrnaLoop /\ Calm /\ current_state = "ELECTION_ENDED"
        => Calm' /\ UNCHANGED <<current_state, tallyVars>>
<1> SUFFICES ASSUME UrnaLoop, Calm, current_state = "ELECTION_ENDED"
             PROVE  Calm' /\ UNCHANGED <<current_state, tallyVars>>
  OBVIOUS
<1> USE DEF Calm, At
<1>1. CASE Draw \/ Show
  BY <1>1 DEF Draw, Show
<1>2. CASE Gate
  BY <1>2 DEF Gate, Open, OpenStates
<1>3. CASE ReleaseKey
  BY <1>3 DEF ReleaseKey
<1>4. CASE ScanNothing \/ \E k \in Digit \cup Letter : ScanKey(k)
  BY <1>4 DEF ScanNothing, ScanKey
<1>5. CASE FirstDigit \/ BecomeVoting \/ CheckVoting \/ ReadInputPos \/ StoreInputPos
  BY <1>5 DEF FirstDigit, BecomeVoting, CheckVoting, ReadInputPos, StoreInputPos
<1>6. CASE StoreDigit \/ CheckFull \/ BecomeShowing \/ SwitchKey \/ Find \/ LoadTally
  BY <1>6 DEF StoreDigit, CheckFull, BecomeShowing, SwitchKey, Find, LoadTally
<1>7. CASE StoreTally \/ Confirm \/ ResetEntry \/ Lock \/ Reopen
  BY <1>7 DEF StoreTally, Confirm, ResetEntry, Lock, Reopen
<1> QED
  BY <1>1, <1>2, <1>3, <1>4, <1>5, <1>6, <1>7 DEF UrnaLoop

\* Only /end leads to the final state.
LEMMA LoopEndsNothing ==
    UrnaLoop /\ current_state' = "ELECTION_ENDED" => current_state = "ELECTION_ENDED"
BY DEF UrnaLoop, Draw, Show, Gate, ScanNothing, ScanKey, FirstDigit, BecomeVoting,
       CheckVoting, ReadInputPos, StoreInputPos, StoreDigit, CheckFull, BecomeShowing,
       SwitchKey, Find, LoadTally, StoreTally, Confirm, ResetEntry, Lock, LockedState,
       Reopen, ReleaseKey

LEMMA FinalInit == HInit => FinalInv
BY DEF HInit, Init, FinalInv

LEMMA FinalNext == FinalInv /\ [HNext]_allVars => FinalInv'
<1> SUFFICES ASSUME FinalInv, [HNext]_allVars PROVE FinalInv'
  OBVIOUS
<1>1. CASE HVote
  BY <1>1, CalmStaysCalm, LoopEndsNothing DEF HVote, UrnaLoop, FinalInv
<1>2. CASE HQuiet
  BY <1>2, CalmStaysCalm, LoopEndsNothing DEF HQuiet, histVars, FinalInv
<1>3. CASE HConfigure
  BY <1>3 DEF HConfigure, FinalInv
<1>4. CASE HStart
  BY <1>4 DEF HStart, Start, StartState, FinalInv
<1>5. CASE HEnable
  BY <1>5 DEF HEnable, Enable, FinalInv
<1>6. CASE HEnd
  BY <1>6 DEF HEnd, End, mainVars, Calm, FinalInv
<1>7. CASE UNCHANGED allVars
  BY <1>7 DEF allVars, vars, mainVars, histVars, Calm, FinalInv
<1> QED
  BY <1>1, <1>2, <1>3, <1>4, <1>5, <1>6, <1>7 DEF HNext, HCommand

\* While no command races with a key, only /start undoes /end.
THEOREM EndFreezes == HSpec => FrozenAfterEnd
<1> DEFINE Frozen == clean /\ clean' /\ current_state = "ELECTION_ENDED" /\ ~HStart
                       => UNCHANGED <<current_state, tallyVars>>
<1>1. FinalInv /\ [HNext]_allVars => [Frozen]_allVars
  <2> SUFFICES ASSUME FinalInv, HNext, clean, clean',
                      current_state = "ELECTION_ENDED", ~HStart
               PROVE  UNCHANGED <<current_state, tallyVars>>
    OBVIOUS
  <2>1. Calm
    BY DEF FinalInv
  <2>2. CASE HVote \/ HQuiet
    BY <2>1, <2>2, CalmStaysCalm DEF HVote, HQuiet, UrnaLoop
  <2>3. CASE HConfigure
    BY <2>3 DEF HConfigure
  <2>4. CASE HEnable
    BY <2>4 DEF HEnable, Enable
  <2>5. CASE HEnd
    BY <2>5 DEF HEnd, End
  <2> QED
    BY <2>2, <2>3, <2>4, <2>5 DEF HNext, HCommand
<1> QED
  BY FinalInit, FinalNext, <1>1, PTL DEF HSpec, FrozenAfterEnd

-----------------------------------------------------------------------------
(* The tallies.  Without races, the candidate on the display is the one the  *)
(* search finds (DisplayInv) from the moment the gate opens to the moment    *)
(* the vote is stored, the registers hold what they were loaded with         *)
(* (CountInv), and so the tallies mirror the ballots (MirrorInv).            *)

Chosen == Matching(Text(current_vote_buffer))

StaleInv == stale => pc \in {"find", "load", "store"}

DigitInv == pc \in {"full", "showing"} => key \in Digit

\* The main thread is past the drawing, and types no digit in this pass.
Drawn ==
    \/ pc \in {"gate", "scan"}
    \/ pc \in {"first", "entry", "switch", "find"} /\ key \notin Digit

DisplayInv ==
    /\ pc = "find" => current_state = "SHOWING_CANDIDATE"
    /\ pc = "show" /\ current_state = "SHOWING_CANDIDATE" => seen = "SHOWING_CANDIDATE"
    /\ Drawn /\ current_state = "SHOWING_CANDIDATE" => oled.who = Chosen

CountInv ==
    /\ ~stale
    /\ pc \in {"load", "store"} /\ key = "A" => slot = oled.who
    /\ pc = "store" /\ key = "D" => tmp = votes_blank
    /\ pc = "store" /\ key = "A" /\ slot = 0 => tmp = votes_null
    /\ pc = "store" /\ key = "A" /\ slot # 0 => tmp = candidates[slot].votes

MirrorInv ==
    /\ votes_blank = ballots.blank
    /\ votes_null = ballots.null
    /\ DOMAIN ballots.for = DOMAIN candidates
    /\ \A c \in DOMAIN ballots.for : candidates[c].votes = ballots.for[c]

BallotsOK == ballots \in [blank : Nat, null : Nat, for : Seq(Nat)]

TallyInv ==
    /\ TypeInv /\ StaleInv /\ DigitInv /\ BallotsOK
    /\ clean => DisplayInv /\ CountInv /\ MirrorInv

LEMMA ChosenUnchanged == UNCHANGED <<candidates, current_vote_buffer>> => Chosen' = Chosen
BY DEF Chosen, Matching, SelectInSeq, Text

LEMMA LettersAreNotDigits == "A" \notin Digit /\ "B" \notin Digit /\ "D" \notin Digit
BY DigitAssumption DEF Letter

LEMMA TallyInit == HInit => TallyInv
<1> SUFFICES ASSUME HInit PROVE TallyInv
  OBVIOUS
<1>1. TypeInv
  BY TypeInit DEF HInit
<1>2. <<>> \in Seq(Nat)
  OBVIOUS
<1> QED
  BY <1>1, <1>2 DEF HInit, Init, NoBallots, TallyInv, StaleInv, DigitInv, BallotsOK,
                    Drawn, DisplayInv, CountInv, MirrorInv

\* The registers that need no hypothesis on races.
LEMMA RegistersNext == TypeInv /\ StaleInv /\ DigitInv /\ [Next]_vars => StaleInv' /\ DigitInv'
<1> SUFFICES ASSUME TypeInv, StaleInv, DigitInv, [Next]_vars PROVE StaleInv' /\ DigitInv'
  OBVIOUS
<1> USE DEF StaleInv, DigitInv, At
<1>1. CASE Draw \/ Show \/ Gate \/ ScanNothing \/ \E k \in Digit \cup Letter : ScanKey(k)
  BY <1>1 DEF Draw, Show, Gate, ScanNothing, ScanKey
<1>2. CASE FirstDigit \/ BecomeVoting \/ CheckVoting \/ ReadInputPos
  BY <1>2 DEF FirstDigit, BecomeVoting, CheckVoting, ReadInputPos
<1>3. CASE StoreInputPos \/ StoreDigit
  BY <1>3 DEF StoreInputPos, StoreDigit, TypeInv, RegistersOK
<1>4. CASE CheckFull \/ BecomeShowing
  BY <1>4 DEF CheckFull, BecomeShowing
<1>5. CASE SwitchKey
  <2>1. ~stale
    BY <1>5 DEF SwitchKey
  <2>2. pc' \in {"find", "correct", "load", "release"}
    BY <1>5 DEF SwitchKey, AfterSwitch
  <2> QED
    BY <1>5, <2>1, <2>2 DEF SwitchKey
<1>6. CASE Find \/ LoadTally \/ StoreTally
  BY <1>6 DEF Find, LoadTally, StoreTally
<1>7. CASE Confirm \/ ResetEntry \/ Lock \/ Reopen \/ ReleaseKey
  BY <1>7 DEF Confirm, ResetEntry, Lock, Reopen, ReleaseKey
<1>8. ASSUME NEW slate \in Slates, NEW split \in BOOLEAN, Configure(slate, split)
      PROVE  StaleInv' /\ DigitInv'
  BY <1>8 DEF Configure, mainVars
<1>9. CASE Start \/ Enable \/ End
  BY <1>9 DEF Start, Enable, End, mainVars
<1>10. CASE UNCHANGED vars
  BY <1>10 DEF vars, mainVars
<1> QED
  BY <1>1, <1>2, <1>3, <1>4, <1>5, <1>6, <1>7, <1>8, <1>9, <1>10
     DEF Next, UrnaLoop, Command

\* A step of the main thread that stores no vote keeps display and registers
\* in agreement.
LEMMA QuietKeepsDisplay ==
    ASSUME TypeInv, DigitInv, DisplayInv, CountInv, UrnaLoop, pc # "store"
    PROVE  DisplayInv' /\ CountInv' /\ UNCHANGED tallyVars
<1> USE DEF Drawn, DisplayInv, CountInv, At, entryVars, tallyVars
<1>1. CASE Draw
  BY <1>1 DEF Draw
<1>2. CASE Show
  <2>1. Chosen' = Chosen
    BY <1>2, ChosenUnchanged DEF Show
  <2>2. seen = "SHOWING_CANDIDATE" => oled'.who = Chosen
    BY <1>2 DEF Show, Screen, Chosen
  <2> QED
    BY <1>2, <2>1, <2>2 DEF Show
<1>3. CASE Gate \/ ScanNothing \/ (\E k \in Digit \cup Letter : ScanKey(k)) \/ FirstDigit \/ CheckVoting
  <2>1. Chosen' = Chosen
    BY <1>3, ChosenUnchanged DEF Gate, ScanNothing, ScanKey, FirstDigit, CheckVoting
  <2>2. CASE Gate
    BY <2>1, <2>2 DEF Gate
  <2>3. CASE ScanNothing
    BY <2>1, <2>3 DEF ScanNothing
  <2>4. CASE \E k \in Digit \cup Letter : ScanKey(k)
    BY <2>1, <2>4 DEF ScanKey
  <2>5. CASE FirstDigit
    BY <2>1, <2>5 DEF FirstDigit
  <2>6. CASE CheckVoting
    BY <2>1, <2>6 DEF CheckVoting
  <2> QED
    BY <1>3, <2>2, <2>3, <2>4, <2>5, <2>6
<1>4. CASE BecomeVoting
  BY <1>4 DEF BecomeVoting
<1>5. CASE ReadInputPos
  BY <1>5 DEF ReadInputPos, TypeInv, RegistersOK
<1>6. CASE StoreInputPos \/ StoreDigit
  BY <1>6 DEF StoreInputPos, StoreDigit
<1>7. CASE CheckFull
  BY <1>7 DEF CheckFull, DigitInv
<1>8. CASE BecomeShowing
  BY <1>8 DEF BecomeShowing, DigitInv
<1>9. CASE SwitchKey
  <2>1. Chosen' = Chosen
    BY <1>9, ChosenUnchanged DEF SwitchKey
  <2>2. pc' = "find" => key = "A" /\ current_state = "SHOWING_CANDIDATE"
    BY <1>9 DEF SwitchKey, AfterSwitch
  <2>3. pc' = "load" => key = "D"
    BY <1>9 DEF SwitchKey, AfterSwitch
  <2>4. pc' \in {"find", "correct", "load", "release"}
    BY <1>9 DEF SwitchKey, AfterSwitch
  <2> QED
    BY <1>9, <2>1, <2>2, <2>3, <2>4, LettersAreNotDigits DEF SwitchKey
<1>10. CASE Find
  <2>1. key = "A" /\ slot' = Chosen
    BY <1>10 DEF Find, Chosen, TypeInv, RegistersOK
  <2> QED
    BY <1>10, <2>1, LettersAreNotDigits DEF Find
<1>11. CASE LoadTally
  BY <1>11 DEF LoadTally
<1>12. CASE StoreTally
  BY <1>12 DEF StoreTally
<1>13. CASE Confirm
  BY <1>13 DEF Confirm
<1>14. CASE ResetEntry
  BY <1>14 DEF ResetEntry
<1>15. CASE Lock
  BY <1>15 DEF Lock, LockedState
<1>16. CASE Reopen
  BY <1>16 DEF Reopen
<1>17. CASE ReleaseKey
  BY <1>17 DEF ReleaseKey
<1> QED
  BY <1>1, <1>2, <1>3, <1>4, <1>5, <1>6, <1>7, <1>8, <1>9, <1>10, <1>11, <1>12,
     <1>13, <1>14, <1>15, <1>16, <1>17 DEF UrnaLoop

\* The vote is added to the counter of the choice on the display.
LEMMA VoteKeepsMirror ==
    ASSUME TypeInv, BallotsOK, CountInv, MirrorInv, StoreTally
    PROVE  /\ Add(ballots) \in [blank : Nat, null : Nat, for : Seq(Nat)]
           /\ ballots' = Add(ballots) => MirrorInv'
<1> USE DEF MirrorInv, BallotsOK, Add
<1>1. pc = "store" /\ key \in {"A", "D"} /\ ~stale
  BY DEF StoreTally, At, TypeInv, RegistersOK, CountInv
<1>2. CASE key = "D"
  <2>1. votes_blank' = votes_blank + 1 /\ UNCHANGED <<candidates, votes_null>>
    BY <1>1, <1>2 DEF StoreTally, StoreBlank, StoreNull, StoreCandidate, StoreLost, CountInv
  <2> QED
    BY <1>2, <2>1
<1>3. CASE key = "A" /\ slot = 0
  <2>1. votes_null' = votes_null + 1 /\ UNCHANGED <<candidates, votes_blank>>
    BY <1>1, <1>3 DEF StoreTally, StoreBlank, StoreNull, StoreCandidate, StoreLost, CountInv
  <2>2. oled.who = 0
    BY <1>1, <1>3 DEF CountInv
  <2> QED
    BY <1>3, <2>1, <2>2
<1>4. CASE key = "A" /\ slot # 0
  <2>1. slot = oled.who /\ slot \in DOMAIN candidates /\ slot \in DOMAIN ballots.for
    BY <1>1, <1>4, LenProperties DEF CountInv, TypeInv, TypeOK, RegistersOK
  <2>2. /\ candidates' = [candidates EXCEPT ![slot].votes = candidates[slot].votes + 1]
        /\ UNCHANGED <<votes_blank, votes_null>>
    BY <1>1, <1>4 DEF StoreTally, StoreBlank, StoreNull, StoreCandidate, StoreLost, CountInv
  <2>3. Add(ballots) = [ballots EXCEPT !.for[slot] = ballots.for[slot] + 1]
    BY <1>4, <2>1, BoundAssumption DEF TypeInv, TypeOK
  <2>4. ballots.for[slot] \in Nat /\ ballots.for \in Seq(Nat)
    BY <2>1, LenProperties, ElementOfSeq
  <2>5. [ballots.for EXCEPT ![slot] = ballots.for[slot] + 1] \in Seq(Nat)
    BY <2>1, <2>4, LenProperties, ExceptSeq
  <2>6. Add(ballots) \in [blank : Nat, null : Nat, for : Seq(Nat)]
    BY <2>3, <2>5
  <2>7. \A c \in DOMAIN candidates : candidates[c] \in Candidate
    BY LenProperties DEF TypeInv, TypeOK
  <2>8. ASSUME ballots' = Add(ballots), NEW c \in DOMAIN ballots'.for
        PROVE  candidates'[c].votes = ballots'.for[c]
    BY <2>1, <2>2, <2>3, <2>7, <2>8 DEF Candidate
  <2>9. ballots' = Add(ballots) => DOMAIN ballots'.for = DOMAIN candidates'
    BY <2>2, <2>3
  <2>10. ballots' = Add(ballots) => votes_blank' = ballots'.blank /\ votes_null' = ballots'.null
    BY <2>2, <2>3
  <2> QED
    BY <2>6, <2>8, <2>9, <2>10
<1> QED
  BY <1>1, <1>2, <1>3, <1>4

LEMMA TallyNext == TallyInv /\ [HNext]_allVars => TallyInv'
<1> SUFFICES ASSUME TallyInv, [HNext]_allVars PROVE TallyInv'
  OBVIOUS
<1>1. TypeInv' /\ StaleInv' /\ DigitInv'
  BY HistoryWatches, TypeNext, RegistersNext DEF TallyInv
<1>2. <<>> \in Seq(Nat) /\ NoBallots \in [blank : Nat, null : Nat, for : Seq(Nat)]
  BY DEF NoBallots
<1>3. CASE HVote
  <2>1. BallotsOK' /\ (clean' => MirrorInv')
    BY <1>2, <1>3, VoteKeepsMirror DEF HVote, TallyInv, BallotsOK
  <2>2. DisplayInv' /\ CountInv'
    BY <1>3 DEF HVote, StoreTally, At, Drawn, DisplayInv, CountInv
  <2> QED
    BY <1>1, <2>1, <2>2 DEF TallyInv
<1>4. CASE HQuiet
  <2>1. BallotsOK'
    BY <1>4 DEF HQuiet, histVars, BallotsOK, TallyInv
  <2>2. clean' => DisplayInv' /\ CountInv' /\ MirrorInv'
    BY <1>4, QuietKeepsDisplay DEF HQuiet, histVars, TallyInv, MirrorInv, tallyVars
  <2> QED
    BY <1>1, <2>1, <2>2 DEF TallyInv
<1>5. CASE HConfigure
  BY <1>1, <1>2, <1>5 DEF HConfigure, BallotsOK, TallyInv
<1>6. CASE HStart
  <2> DEFINE zeros == [c \in DOMAIN candidates |-> 0]
  <2>1. candidates \in Seq(Candidate)
    BY DEF TallyInv, TypeInv, TypeOK
  <2>2. zeros \in Seq(Nat)
    BY <2>1, MapIsSeq
  <2>3. BallotsOK'
    BY <1>2, <1>6, <2>2 DEF HStart, BallotsOK, NoBallots
  <2>4. ASSUME clean' PROVE MirrorInv'
    <3>1. Calm /\ ballots' = [blank |-> 0, null |-> 0, for |-> zeros]
      BY <1>6, <2>4 DEF HStart, NoBallots
    <3>2. candidates' = Zeroed(candidates) /\ votes_blank' = 0 /\ votes_null' = 0
      BY <1>6 DEF HStart, Start
    <3>3. \A c \in DOMAIN candidates : candidates[c] \in Candidate
      BY <2>1, LenProperties
    <3>4. \A c \in DOMAIN candidates : candidates'[c].votes = 0
      BY <3>2, <3>3 DEF Zeroed, Candidate
    <3>5. DOMAIN candidates' = DOMAIN candidates
      BY <3>2 DEF Zeroed
    <3> QED
      BY <3>1, <3>2, <3>4, <3>5 DEF MirrorInv
  <2>5. ASSUME clean' PROVE DisplayInv' /\ CountInv'
    <3>1. Calm /\ UNCHANGED <<pc, stale>> /\ current_state' = "WAITING_FOR_ENABLE"
      BY <1>6, <2>5 DEF HStart, Start, StartState, mainVars
    <3> QED
      BY <3>1 DEF Calm, TallyInv, StaleInv, Drawn, DisplayInv, CountInv
  <2> QED
    BY <1>1, <2>3, <2>4, <2>5 DEF TallyInv
<1>7. CASE HEnable
  <2>1. /\ current_state # "SHOWING_CANDIDATE" /\ current_state' = "READY_TO_VOTE"
        /\ UNCHANGED <<mainVars, tallyVars, stale, clean, ballots>>
    BY <1>7 DEF HEnable, Enable
  <2>2. BallotsOK'
    BY <2>1 DEF TallyInv, BallotsOK
  <2>3. clean' => DisplayInv' /\ CountInv' /\ MirrorInv'
    BY <2>1 DEF TallyInv, Drawn, DisplayInv, CountInv, MirrorInv, mainVars, tallyVars
  <2> QED
    BY <1>1, <2>2, <2>3 DEF TallyInv
<1>8. CASE HEnd
  <2>1. /\ current_state' = "ELECTION_ENDED"
        /\ UNCHANGED <<mainVars, tallyVars, stale>>
        /\ clean' => clean /\ Calm /\ ballots' = ballots
        /\ ballots' \in {ballots, NoBallots}
    BY <1>8 DEF HEnd, End
  <2>2. BallotsOK'
    BY <1>2, <2>1 DEF TallyInv, BallotsOK
  <2>3. clean' => DisplayInv' /\ CountInv' /\ MirrorInv'
    BY <2>1 DEF TallyInv, Drawn, DisplayInv, CountInv, MirrorInv, Calm, mainVars, tallyVars
  <2> QED
    BY <1>1, <2>2, <2>3 DEF TallyInv
<1>9. CASE UNCHANGED allVars
  <2>1. Chosen' = Chosen
    BY <1>9, ChosenUnchanged DEF allVars, vars, entryVars, tallyVars
  <2> QED
    BY <1>1, <1>9, <2>1 DEF allVars, vars, mainVars, tallyVars, histVars, TallyInv, BallotsOK,
                            Drawn, DisplayInv, CountInv, MirrorInv
<1> QED
  BY <1>3, <1>4, <1>5, <1>6, <1>7, <1>8, <1>9 DEF HNext, HCommand

\* While no command races with a key, the tallies are the ballots the voters
\* saw themselves cast.
THEOREM TalliesMirrorBallots == HSpec => []TallyIsWhatVotersSaw
<1>1. TallyInv => TallyIsWhatVotersSaw
  BY DEF TallyInv, MirrorInv, TallyIsWhatVotersSaw
<1> QED
  BY TallyInit, TallyNext, <1>1, PTL DEF HSpec

=============================================================================
