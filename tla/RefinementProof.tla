--------------------------- MODULE RefinementProof --------------------------
(***************************************************************************)
(* The voting machine implements the ballot box, and the machine of the    *)
(* app, for any digits, candidate lists, number of JSON tokens and bound   *)
(* on the votes: each step of the firmware is, through the mappings of     *)
(* UrnaRefinement, a step of the box or none, and a step of the machine or *)
(* none.                                                                   *)
(***************************************************************************)
EXTENDS UrnaRefinement, UrnaProof

-----------------------------------------------------------------------------
(* The entry as strcmp sees it.                                              *)

Buffer == [0..2 -> Digit \cup {NUL}]

Entry == Text(current_vote_buffer)

LEMMA NulIsNoDigit == NUL \notin Digit
BY DigitAssumption

LEMMA EmptyText == Text(EmptyBuffer) = <<>>
BY DEF Text, EmptyBuffer

LEMMA TextType ==
    ASSUME NEW b \in Buffer
    PROVE  /\ Text(b) \in Seq(Digit)
           /\ Len(Text(b)) \in 0..2
           /\ Len(Text(b)) = 0 => b[0] = NUL /\ Text(b) = <<>>
           /\ Len(Text(b)) = 1 => b[0] # NUL /\ b[1] = NUL /\ Text(b) = <<b[0]>>
<1>1. CASE b[0] = NUL
  <2>1. Text(b) = <<>>
    BY <1>1 DEF Text
  <2> QED
    BY <1>1, <2>1
<1>2. CASE b[0] # NUL /\ b[1] = NUL
  <2>1. Text(b) = <<b[0]>> /\ b[0] \in Digit
    BY <1>2 DEF Text, Buffer
  <2> QED
    BY <1>2, <2>1
<1>3. CASE b[0] # NUL /\ b[1] # NUL
  <2>1. Text(b) = <<b[0], b[1]>> /\ b[0] \in Digit /\ b[1] \in Digit
    BY <1>3 DEF Text, Buffer
  <2> QED
    BY <2>1
<1> QED
  BY <1>1, <1>2, <1>3

LEMMA AppendKeeps ==
    ASSUME NEW S, NEW s \in Seq(S), NEW y \in S, NEW i \in 1..Len(s)
    PROVE  Append(s, y)[i] = s[i]
BY AppendProperties

LEMMA AppendToOne ==
    ASSUME NEW s \in Seq(Digit), NEW y \in Digit, NEW t \in Seq(Digit),
           Len(s) = 1, Len(t) = 2, t[1] = s[1], t[2] = y
    PROVE  Append(s, y) = t
<1> DEFINE longer == Append(s, y)
<1>1. longer \in Seq(Digit) /\ Len(longer) = Len(s) + 1
  BY AppendProperties, Zenon
<1>2. longer[Len(s) + 1] = y
  BY AppendProperties, Zenon
<1>3. 1 \in 1..Len(s)
  OBVIOUS
<1>4. longer[1] = s[1]
  BY <1>3, AppendKeeps, Zenon
<1> HIDE DEF longer
<1>5. \A i \in 1..Len(longer) : longer[i] = t[i]
  BY <1>1, <1>2, <1>4
<1>6. Len(longer) = Len(t)
  BY <1>1
<1>7. longer = t
  BY <1>1, <1>5, <1>6, SeqEqual, Zenon
<1> QED
  BY <1>7 DEF longer

LEMMA TwoDigitsTyped ==
    ASSUME NEW x \in Digit, NEW y \in Digit
    PROVE  Append(<<x>>, y) = <<x, y>> /\ Len(<<x, y>>) = 2
<1> DEFINE one == <<x>>
           two == <<x, y>>
<1>1. /\ one \in Seq(Digit) /\ Len(one) = 1 /\ one[1] = x
      /\ two \in Seq(Digit) /\ Len(two) = 2 /\ two[1] = x /\ two[2] = y
  OBVIOUS
<1> HIDE DEF one, two
<1>2. Append(one, y) = two
  BY <1>1, AppendToOne, Zenon
<1> QED
  BY <1>1, <1>2, Zenon DEF one, two

\* A digit and its terminator, stored behind what was typed, extend it.
LEMMA TextTyped ==
    ASSUME NEW b \in Buffer, NEW k \in Digit, NEW n \in 0..1, Len(Text(b)) = n
    PROVE  /\ Text([b EXCEPT ![n] = k, ![n + 1] = NUL]) = Append(Text(b), k)
           /\ Len(Text([b EXCEPT ![n] = k, ![n + 1] = NUL])) = n + 1
<1> DEFINE new == [b EXCEPT ![n] = k, ![n + 1] = NUL]
<1>1. k # NUL
  BY NulIsNoDigit
<1>2. ASSUME n = 0
      PROVE  Text(new) = Append(Text(b), k) /\ Len(Text(new)) = n + 1
  <2>1. new[0] = k /\ new[1] = NUL
    BY <1>2 DEF Buffer
  <2>2. Text(new) = <<k>>
    BY <1>1, <2>1 DEF Text
  <2>3. Text(b) = <<>>
    BY <1>2, TextType
  <2> QED
    BY <1>2, <2>2, <2>3
<1>3. ASSUME n = 1
      PROVE  Text(new) = Append(Text(b), k) /\ Len(Text(new)) = n + 1
  <2>1. new[0] = b[0] /\ new[1] = k
    BY <1>3 DEF Buffer
  <2>2. b[0] # NUL /\ Text(b) = <<b[0]>>
    BY <1>3, TextType
  <2>3. Text(new) = <<b[0], k>>
    BY <1>1, <2>1, <2>2 DEF Text
  <2>4. Append(<<b[0]>>, k) = <<b[0], k>> /\ Len(<<b[0], k>>) = 2
    <3>1. b[0] \in Digit
      BY <2>2 DEF Buffer
    <3> QED
      BY <3>1, TwoDigitsTyped, Zenon
  <2>5. Text(new) = <<b[0], k>> /\ Text(b) = <<b[0]>>
    BY <2>2, <2>3
  <2> HIDE DEF new
  <2> QED
    BY <1>3, <2>4, <2>5
<1> HIDE DEF new
<1>4. Text(new) = Append(Text(b), k) /\ Len(Text(new)) = n + 1
  BY <1>2, <1>3
<1> QED
  BY <1>4, Zenon DEF new

\* What a search that found nothing, or something, says of the list.
LEMMA MatchingFinds ==
    ASSUME candidates \in Seq(Candidate), NEW text
    PROVE  /\ Matching(text) = 0 =>
                  \A c \in DOMAIN candidates : candidates[c].number # text
           /\ Matching(text) # 0 =>
                  /\ Matching(text) \in DOMAIN candidates
                  /\ candidates[Matching(text)].number = text
                  /\ \A b \in DOMAIN candidates :
                        candidates[b].number = text => Matching(text) <= b
<1> DEFINE I == {i \in 1..Len(candidates) : candidates[i].number = text}
<1>1. Matching(text) = IF I # {} THEN Min(I) ELSE 0
  BY DEF Matching, SelectInSeq
<1>2. DOMAIN candidates = 1..Len(candidates) /\ Len(candidates) \in Nat
  BY LenProperties
<1>3. I \in SUBSET Nat /\ 0 \notin I
  BY <1>2
<1>4. CASE I = {}
  BY <1>1, <1>2, <1>4
<1>5. CASE I # {}
  <2> DEFINE m == Min(I)
  <2>1. m \in I /\ \A j \in I : m <= j
    <3> HIDE DEF I
    <3> QED
      BY <1>3, <1>5, LeastPosition, Zenon
  <2>2. Matching(text) = m
    BY <1>1, <1>5
  <2>3. m # 0
    BY <1>3, <2>1
  <2> HIDE DEF m
  <2> QED
    BY <1>2, <2>1, <2>2, <2>3
<1> QED
  BY <1>4, <1>5

-----------------------------------------------------------------------------
(* What the mapping relies on while no command has raced with a key: the     *)
(* handling of a key finds the machine open, input_pos counts the digits of  *)
(* the entry except between its two stores, and the state tells how many     *)
(* digits there are.                                                         *)

Typing == {"digit", "advance", "advance2", "put", "put2", "full", "showing"}

\* The vote is confirmed, and only /enable may have changed the state since.
Closing == {"fim", "fimshow", "reset", "lock"}

OpenInv ==
    /\ pc \in Handling => current_state \in OpenStates
    /\ pc \in Typing => current_state = "VOTING"
    /\ pc \in Closing => current_state \in {"VOTE_CONFIRMED", "READY_TO_VOTE"}

LengthInv ==
    /\ pc \in {"advance", "put", "put2"} => Len(Entry) = tmp
    /\ pc = "advance2" => Len(Entry) = tmp + 1
    /\ pc = "put2" => input_pos = tmp + 1
    /\ pc \notin {"advance2", "put2"} => input_pos = Len(Entry)
    /\ pc = "showing" => input_pos = 2

StateInv ==
    /\ current_state = "READY_TO_VOTE" \/ pc = "reopen" => Len(Entry) = 0
    /\ current_state = "SHOWING_CANDIDATE" /\ pc # "reopen" => Len(Entry) = 2

ChoiceInv == pc \in {"load", "store"} =>
    /\ key = "D" => current_state = "READY_TO_VOTE"
    /\ key = "A" => current_state = "SHOWING_CANDIDATE" /\ slot = Chosen

EntryInv == OpenInv /\ LengthInv /\ StateInv /\ ChoiceInv

BoxInv == TallyInv /\ (clean => EntryInv)

LEMMA EntryUnchanged ==
    UNCHANGED current_vote_buffer => Entry' = Entry
BY DEF Entry

LEMMA EntryType == TypeInv => Entry \in Seq(Digit) /\ Len(Entry) \in 0..2
BY TextType DEF TypeInv, TypeOK, Entry, Buffer

\* A reset leaves no digit.
LEMMA ResetEmpties == ResetVoteState => Len(Entry') = 0 /\ Entry' = <<>> /\ input_pos' = 0
<1> SUFFICES ASSUME ResetVoteState PROVE Len(Entry') = 0 /\ Entry' = <<>> /\ input_pos' = 0
  OBVIOUS
<1>1. Entry' = Text(EmptyBuffer)
  BY DEF ResetVoteState, Entry
<1> QED
  BY <1>1, EmptyText DEF ResetVoteState

\* The digit of a key is stored behind what was typed.
LEMMA DigitExtends ==
    ASSUME TypeInv, LengthInv, StoreDigit
    PROVE  /\ Len(Entry) = tmp /\ Len(Entry') = tmp + 1
           /\ Entry' = Append(Entry, key) /\ key \in Digit
<1>1. pc \in {"put", "put2"} /\ key \in Digit /\ tmp \in 0..1
  BY DEF StoreDigit, At, TypeInv, RegistersOK
<1>2. current_vote_buffer \in Buffer
  BY DEF TypeInv, TypeOK, Buffer
<1>3. Len(Text(current_vote_buffer)) = tmp
  BY <1>1 DEF LengthInv, Entry
<1>4. current_vote_buffer' = [current_vote_buffer EXCEPT ![tmp] = key, ![tmp + 1] = NUL]
  BY DEF StoreDigit
<1>5. /\ Text(current_vote_buffer') = Append(Text(current_vote_buffer), key)
      /\ Len(Text(current_vote_buffer')) = tmp + 1
  BY <1>1, <1>2, <1>3, <1>4, TextTyped, Zenon
<1> QED
  BY <1>1, <1>3, <1>5 DEF Entry

LEMMA LoopKeepsEntry ==
    ASSUME TypeInv, DisplayInv, CountInv, EntryInv, UrnaLoop
    PROVE  EntryInv'
<1> USE DEF EntryInv, OpenInv, LengthInv, StateInv, ChoiceInv, At, Handling, Typing,
            Closing, OpenStates, entryVars, tallyVars
<1>0. Len(Entry) \in 0..2
  BY EntryType
<1>1. CASE Draw \/ Show
  <2>1. Entry' = Entry /\ UNCHANGED <<current_state, input_pos>>
        /\ pc' \notin Handling
    BY <1>1, EntryUnchanged DEF Draw, Show
  <2> QED
    BY <1>1, <2>1 DEF Draw, Show
<1>2. CASE Gate \/ ScanNothing \/ \E k \in Digit \cup Letter : ScanKey(k)
  <2>1. Entry' = Entry
    BY <1>2, EntryUnchanged DEF Gate, ScanNothing, ScanKey
  <2> QED
    BY <1>2, <2>1 DEF Gate, Open, ScanNothing, ScanKey
<1>3. CASE FirstDigit
  <2>1. Entry' = Entry
    BY <1>3, EntryUnchanged DEF FirstDigit
  <2> QED
    BY <1>3, <2>1 DEF FirstDigit
<1>4. CASE BecomeVoting
  <2>1. Entry' = Entry
    BY <1>4, EntryUnchanged DEF BecomeVoting
  <2> QED
    BY <1>4, <2>1 DEF BecomeVoting
<1>5. CASE CheckVoting
  <2>1. Entry' = Entry
    BY <1>5, EntryUnchanged DEF CheckVoting
  <2> QED
    BY <1>5, <2>1 DEF CheckVoting
<1>6. CASE ReadInputPos
  <2>1. Entry' = Entry
    BY <1>6, EntryUnchanged DEF ReadInputPos
  <2> QED
    BY <1>6, <2>1 DEF ReadInputPos
<1>7. CASE StoreInputPos
  <2>1. Entry' = Entry
    BY <1>7, EntryUnchanged DEF StoreInputPos
  <2> QED
    BY <1>7, <2>1 DEF StoreInputPos, TypeInv, RegistersOK
<1>8. CASE StoreDigit
  <2>1. Len(Entry) = tmp /\ Len(Entry') = tmp + 1
    BY <1>8, DigitExtends
  <2> QED
    BY <1>8, <2>1 DEF StoreDigit
<1>9. CASE CheckFull
  <2>1. Entry' = Entry
    BY <1>9, EntryUnchanged DEF CheckFull
  <2> QED
    BY <1>9, <2>1 DEF CheckFull
<1>10. CASE BecomeShowing
  <2>1. Entry' = Entry
    BY <1>10, EntryUnchanged DEF BecomeShowing
  <2> QED
    BY <1>10, <2>1 DEF BecomeShowing
<1>11. CASE SwitchKey
  <2>1. Entry' = Entry
    BY <1>11, EntryUnchanged DEF SwitchKey
  <2>2. pc' \in {"find", "correct", "load", "release"} /\ (pc' = "load" =>
            key = "D" /\ current_state = "READY_TO_VOTE")
    BY <1>11 DEF SwitchKey, AfterSwitch
  <2> QED
    BY <1>11, <2>1, <2>2 DEF SwitchKey
<1>12. CASE Find
  <2>1. Entry' = Entry /\ Chosen' = Chosen
    BY <1>12, EntryUnchanged, ChosenUnchanged DEF Find
  <2>2. key = "A" /\ slot' = Chosen /\ current_state = "SHOWING_CANDIDATE"
    BY <1>12 DEF Find, Chosen, TypeInv, RegistersOK, DisplayInv, CountInv
  <2> QED
    BY <1>12, <2>1, <2>2 DEF Find
<1>13. CASE LoadTally
  <2>1. Entry' = Entry /\ Chosen' = Chosen
    BY <1>13, EntryUnchanged, ChosenUnchanged DEF LoadTally
  <2> QED
    BY <1>13, <2>1 DEF LoadTally
<1>14. CASE StoreTally
  <2>1. Entry' = Entry
    BY <1>14, EntryUnchanged DEF StoreTally
  <2> QED
    BY <1>14, <2>1 DEF StoreTally
<1>15. CASE Confirm
  <2>1. Entry' = Entry
    BY <1>15, EntryUnchanged DEF Confirm
  <2> QED
    BY <1>15, <2>1 DEF Confirm
<1>16. CASE ResetEntry
  <2>1. Len(Entry') = 0 /\ input_pos' = 0
    BY <1>16, ResetEmpties DEF ResetEntry
  <2> QED
    BY <1>16, <2>1 DEF ResetEntry
<1>17. CASE Lock
  <2>1. Entry' = Entry
    BY <1>17, EntryUnchanged DEF Lock
  <2> QED
    BY <1>17, <2>1 DEF Lock, LockedState
<1>18. CASE Reopen
  <2>1. Entry' = Entry
    BY <1>18, EntryUnchanged DEF Reopen
  <2> QED
    BY <1>18, <2>1 DEF Reopen
<1>19. CASE ReleaseKey
  <2>1. Entry' = Entry
    BY <1>19, EntryUnchanged DEF ReleaseKey
  <2> QED
    BY <1>19, <2>1 DEF ReleaseKey
<1> QED
  BY <1>1, <1>2, <1>3, <1>4, <1>5, <1>6, <1>7, <1>8, <1>9, <1>10, <1>11, <1>12,
     <1>13, <1>14, <1>15, <1>16, <1>17, <1>18, <1>19 DEF UrnaLoop

LEMMA BoxInvInit == HInit => BoxInv
<1> SUFFICES ASSUME HInit PROVE BoxInv
  OBVIOUS
<1>1. TallyInv
  BY TallyInit
<1>2. Entry = <<>> /\ Len(Entry) = 0
  BY EmptyText DEF HInit, Init, Entry
<1> QED
  BY <1>1, <1>2 DEF HInit, Init, BoxInv, EntryInv, OpenInv, LengthInv, StateInv, ChoiceInv,
                    Handling, Typing, Closing

LEMMA BoxInvNext == BoxInv /\ [HNext]_allVars => BoxInv'
<1> SUFFICES ASSUME BoxInv, [HNext]_allVars, clean' PROVE EntryInv'
  BY TallyNext DEF BoxInv
<1>1. TypeInv /\ (clean => DisplayInv /\ CountInv /\ EntryInv)
  BY DEF BoxInv, TallyInv
<1>2. CASE HVote \/ HQuiet
  BY <1>1, <1>2, LoopKeepsEntry DEF HVote, HQuiet, histVars, UrnaLoop
<1>3. CASE HConfigure
  BY <1>3 DEF HConfigure
<1>4. CASE HStart
  <2>1. Calm /\ pc' = pc /\ current_state' = "WAITING_FOR_ENABLE"
    BY <1>4 DEF HStart, Start, StartState, mainVars
  <2>2. Len(Entry') = 0 /\ input_pos' = 0
    BY <1>4, ResetEmpties DEF HStart, Start
  <2> QED
    BY <2>1, <2>2 DEF Calm, EntryInv, OpenInv, LengthInv, StateInv, ChoiceInv, Handling,
                      Typing, Closing
<1>5. CASE HEnable
  <2>1. /\ EntryInv /\ pc' = pc
        /\ current_state \in {"WAITING_FOR_ENABLE", "VOTE_CONFIRMED"}
        /\ current_state' = "READY_TO_VOTE"
    BY <1>1, <1>5 DEF HEnable, Enable, mainVars
  <2>2. Len(Entry') = 0 /\ input_pos' = 0
    BY <1>5, ResetEmpties DEF HEnable, Enable
  <2>3. pc \notin Handling
    BY <2>1 DEF EntryInv, OpenInv, OpenStates
  <2> QED
    BY <2>1, <2>2, <2>3 DEF EntryInv, OpenInv, LengthInv, StateInv, ChoiceInv, Handling,
                            Typing, Closing
<1>6. CASE HEnd
  <2>1. /\ EntryInv /\ Calm /\ UNCHANGED <<pc, input_pos>>
        /\ current_state' = "ELECTION_ENDED"
    BY <1>1, <1>6 DEF HEnd, End, mainVars, entryVars
  <2>2. Entry' = Entry
    BY <1>6, EntryUnchanged DEF HEnd, End, entryVars
  <2> QED
    BY <2>1, <2>2 DEF Calm, EntryInv, OpenInv, LengthInv, StateInv, ChoiceInv, Handling,
                      Typing, Closing
<1>7. CASE UNCHANGED allVars
  <2>1. Entry' = Entry /\ Chosen' = Chosen
    BY <1>7, EntryUnchanged, ChosenUnchanged DEF allVars, vars, entryVars, tallyVars
  <2>2. EntryInv /\ UNCHANGED <<pc, current_state, input_pos, tmp, key, slot>>
    BY <1>1, <1>7 DEF allVars, vars, mainVars, entryVars, histVars
  <2> QED
    BY <2>1, <2>2 DEF EntryInv, OpenInv, LengthInv, StateInv, ChoiceInv
<1> QED
  BY <1>2, <1>3, <1>4, <1>5, <1>6, <1>7 DEF HNext, HCommand

-----------------------------------------------------------------------------
(* The mapping, state by state.                                              *)

LEMMA SpoiltBox ==
    ~clean => /\ BoxPhase = "spoilt" /\ BoxList = <<>> /\ BoxTyped = <<>>
              /\ BoxVotes = <<>> /\ BoxBlank = 0 /\ BoxNull = 0
BY DEF BoxPhase, BoxList, BoxTyped, BoxVotes, BoxBlank, BoxNull

LEMMA SpoiltBoxNext ==
    ~clean' => /\ BoxPhase' = "spoilt" /\ BoxList' = <<>> /\ BoxTyped' = <<>>
               /\ BoxVotes' = <<>> /\ BoxBlank' = 0 /\ BoxNull' = 0
BY DEF BoxPhase, BoxList, BoxTyped, BoxVotes, BoxBlank, BoxNull

LEMMA CleanBox ==
    clean => /\ BoxList = Numbers(candidates) /\ BoxVotes = Votes(candidates)
             /\ BoxBlank = votes_blank /\ BoxNull = votes_null
             /\ Counted => BoxPhase = "waiting"
             /\ ~Counted =>
                   /\ current_state = "WAITING_FOR_START" => BoxPhase = "idle"
                   /\ current_state = "ELECTION_ENDED" => BoxPhase = "ended"
                   /\ current_state \in OpenStates => BoxPhase = "open"
                   /\ current_state \in {"WAITING_FOR_ENABLE", "VOTE_CONFIRMED"}
                         => BoxPhase = "waiting"
             /\ BoxTyped = IF ~Counted /\ current_state \in OpenStates THEN Entry ELSE <<>>
BY DEF BoxPhase, BoxList, BoxTyped, BoxVotes, BoxBlank, BoxNull, OpenStates, Entry

LEMMA CleanBoxNext ==
    clean' => /\ BoxList' = Numbers(candidates') /\ BoxVotes' = Votes(candidates')
              /\ BoxBlank' = votes_blank' /\ BoxNull' = votes_null'
              /\ Counted' => BoxPhase' = "waiting"
              /\ ~Counted' =>
                    /\ current_state' = "WAITING_FOR_START" => BoxPhase' = "idle"
                    /\ current_state' = "ELECTION_ENDED" => BoxPhase' = "ended"
                    /\ current_state' \in OpenStates => BoxPhase' = "open"
                    /\ current_state' \in {"WAITING_FOR_ENABLE", "VOTE_CONFIRMED"}
                          => BoxPhase' = "waiting"
              /\ BoxTyped' = IF ~Counted' /\ current_state' \in OpenStates
                                THEN Entry' ELSE <<>>
BY DEF BoxPhase, BoxList, BoxTyped, BoxVotes, BoxBlank, BoxNull, OpenStates, Entry,
       Numbers, Votes

\* A step that a voter and the mesario cannot tell from none.
Still ==
    \/ Counted /\ Counted'
    \/ /\ ~Counted /\ ~Counted' /\ Entry' = Entry
       /\ \/ current_state' = current_state
          \/ current_state \in OpenStates /\ current_state' \in OpenStates
    \/ Counted /\ ~Counted' /\ current_state' = "WAITING_FOR_ENABLE"

LEMMA StillBox ==
    ASSUME TypeInv, clean, clean', UNCHANGED tallyVars, Still
    PROVE  UNCHANGED Box!boxVars
<1>1. /\ BoxList' = BoxList /\ BoxVotes' = BoxVotes
      /\ BoxBlank' = BoxBlank /\ BoxNull' = BoxNull
  BY CleanBox, CleanBoxNext DEF tallyVars, Numbers, Votes
<1>2. BoxPhase' = BoxPhase /\ BoxTyped' = BoxTyped
  <2>1. current_state \in UrnaState
    BY DEF TypeInv, TypeOK
  <2>2. CASE Counted /\ Counted'
    BY <2>2, CleanBox, CleanBoxNext
  <2>3. CASE Counted /\ ~Counted' /\ current_state' = "WAITING_FOR_ENABLE"
    BY <2>3, CleanBox, CleanBoxNext DEF OpenStates
  <2>4. CASE ~Counted /\ ~Counted' /\ Entry' = Entry /\ current_state' = current_state
    BY <2>1, <2>4, CleanBox, CleanBoxNext DEF OpenStates, UrnaState
  <2>5. CASE /\ ~Counted /\ ~Counted' /\ Entry' = Entry
             /\ current_state \in OpenStates /\ current_state' \in OpenStates
    BY <2>5, CleanBox, CleanBoxNext
  <2> QED
    BY <2>2, <2>3, <2>4, <2>5 DEF Still
<1> QED
  BY <1>1, <1>2 DEF Box!boxVars

-----------------------------------------------------------------------------
(* The steps of the main thread.                                             *)

\* Every step but a digit, a correction and a vote is a stutter of the box.
LEMMA QuietIsStill ==
    ASSUME EntryInv, UrnaLoop, pc \notin {"store", "put", "put2", "correct"}
    PROVE  Still
<1> USE DEF Still, Counted, EntryInv, OpenInv, At, Handling, Typing, Closing,
            OpenStates, entryVars
<1>1. CASE Draw
  BY <1>1, EntryUnchanged DEF Draw
<1>2. CASE Show
  BY <1>2, EntryUnchanged DEF Show
<1>3. CASE Gate
  BY <1>3, EntryUnchanged DEF Gate
<1>4. CASE ScanNothing \/ \E k \in Digit \cup Letter : ScanKey(k)
  BY <1>4, EntryUnchanged DEF ScanNothing, ScanKey
<1>5. CASE FirstDigit
  BY <1>5, EntryUnchanged DEF FirstDigit
<1>6. CASE BecomeVoting
  BY <1>6, EntryUnchanged DEF BecomeVoting
<1>7. CASE CheckVoting
  BY <1>7, EntryUnchanged DEF CheckVoting
<1>8. CASE ReadInputPos
  BY <1>8, EntryUnchanged DEF ReadInputPos
<1>9. CASE StoreInputPos
  BY <1>9, EntryUnchanged DEF StoreInputPos
<1>10. CASE CheckFull
  BY <1>10, EntryUnchanged DEF CheckFull
<1>11. CASE BecomeShowing
  BY <1>11, EntryUnchanged DEF BecomeShowing
<1>12. CASE SwitchKey
  <2>1. pc' \in {"find", "correct", "load", "release"}
    BY <1>12 DEF SwitchKey, AfterSwitch
  <2> QED
    BY <1>12, <2>1, EntryUnchanged DEF SwitchKey
<1>13. CASE Find
  BY <1>13, EntryUnchanged DEF Find
<1>14. CASE LoadTally
  <2>1. Entry' = Entry /\ pc = "load" /\ pc' = "store" /\ current_state' = current_state
    BY <1>14, EntryUnchanged DEF LoadTally
  <2> QED
    BY <2>1
<1>15. CASE StoreDigit \/ StoreTally
  BY <1>15 DEF StoreDigit, StoreTally
<1>16. CASE Confirm
  BY <1>16 DEF Confirm
<1>17. CASE ResetEntry
  BY <1>17 DEF ResetEntry
<1>18. CASE Lock
  BY <1>18 DEF Lock, LockedState
<1>19. CASE Reopen
  BY <1>19, EntryUnchanged DEF Reopen
<1>20. CASE ReleaseKey
  BY <1>20, EntryUnchanged DEF ReleaseKey
<1> QED
  BY <1>1, <1>2, <1>3, <1>4, <1>5, <1>6, <1>7, <1>8, <1>9, <1>10, <1>11, <1>12, <1>13,
     <1>14, <1>15, <1>16, <1>17, <1>18, <1>19, <1>20 DEF UrnaLoop

\* The store of a digit in the buffer types it.
LEMMA DigitIsTyped ==
    ASSUME TypeInv, EntryInv, clean, clean', StoreDigit
    PROVE  \E digit \in Digit : Box!Type(digit)
<1>1. /\ key \in Digit /\ Len(Entry) = tmp /\ tmp \in 0..1
      /\ Entry' = Append(Entry, key)
  BY DigitExtends DEF EntryInv, TypeInv, RegistersOK, StoreDigit, At
<1>2. /\ current_state = "VOTING" /\ current_state' = "VOTING"
      /\ ~Counted /\ ~Counted' /\ UNCHANGED tallyVars
  BY DEF StoreDigit, At, EntryInv, OpenInv, Typing, Counted
<1>3. /\ BoxPhase = "open" /\ BoxPhase' = "open"
      /\ BoxTyped = Entry /\ BoxTyped' = Entry'
      /\ UNCHANGED <<BoxList, BoxVotes, BoxBlank, BoxNull>>
  BY <1>2, CleanBox, CleanBoxNext DEF OpenStates, tallyVars, Numbers, Votes
<1>4. Box!Type(key)
  BY <1>1, <1>3 DEF Box!Type
<1> QED
  BY <1>1, <1>4

\* The reset of key B corrects.
LEMMA ResetCorrects ==
    ASSUME TypeInv, EntryInv, clean, clean', ResetEntry, pc = "correct"
    PROVE  Box!Correct
<1>1. Entry' = <<>>
  BY ResetEmpties DEF ResetEntry
<1>2. /\ current_state \in OpenStates /\ current_state' = current_state
      /\ ~Counted /\ ~Counted' /\ UNCHANGED tallyVars
  BY DEF ResetEntry, At, EntryInv, OpenInv, Handling, Counted
<1>3. /\ BoxPhase = "open" /\ BoxPhase' = "open" /\ BoxTyped' = Entry'
      /\ UNCHANGED <<BoxList, BoxVotes, BoxBlank, BoxNull>>
  BY <1>2, CleanBox, CleanBoxNext DEF tallyVars, Numbers, Votes
<1> QED
  BY <1>1, <1>3 DEF Box!Correct

\* One counter of the list is one vote of the box.
LEMMA VoteColumns ==
    ASSUME NEW list \in Seq(Candidate), NEW c \in DOMAIN list
    PROVE  LET new == [list EXCEPT ![c].votes = list[c].votes + 1] IN
           /\ Numbers(new) = Numbers(list)
           /\ Votes(new) = [Votes(list) EXCEPT ![c] = @ + 1]
<1> DEFINE new == [list EXCEPT ![c].votes = list[c].votes + 1]
<1>1. \A d \in DOMAIN list : list[d] \in Candidate
  BY LenProperties
<1>2. DOMAIN new = DOMAIN list
  OBVIOUS
<1>3. /\ new[c] = [list[c] EXCEPT !.votes = list[c].votes + 1]
      /\ \A d \in DOMAIN list : d # c => new[d] = list[d]
  OBVIOUS
<1>4. new[c].number = list[c].number /\ new[c].votes = list[c].votes + 1
  BY <1>1, <1>3 DEF Candidate
<1> HIDE DEF new
<1>5. Numbers(new) = Numbers(list)
  BY <1>2, <1>3, <1>4 DEF Numbers
<1>6. Votes(new) = [Votes(list) EXCEPT ![c] = @ + 1]
  BY <1>2, <1>3, <1>4 DEF Votes
<1> QED
  BY <1>5, <1>6 DEF new

\* The store of a counter is the vote of the entry.
LEMMA StoreIsVote ==
    ASSUME TypeInv, CountInv, EntryInv, clean, clean', StoreTally
    PROVE  Box!VoteBlank \/ Box!VoteNull \/ \E c \in DOMAIN BoxList : Box!VoteFor(c)
<1>1. pc = "store" /\ pc' = "confirm" /\ key \in {"A", "D"} /\ ~stale
  BY DEF StoreTally, At, TypeInv, RegistersOK, CountInv
<1>2. current_state \in OpenStates /\ ~Counted /\ Counted'
  BY <1>1 DEF EntryInv, OpenInv, Handling, Counted
<1>3. /\ BoxPhase = "open" /\ BoxPhase' = "waiting"
      /\ BoxTyped = Entry /\ BoxTyped' = <<>>
      /\ BoxList = Numbers(candidates) /\ BoxList' = Numbers(candidates')
      /\ BoxVotes = Votes(candidates) /\ BoxVotes' = Votes(candidates')
      /\ BoxBlank = votes_blank /\ BoxBlank' = votes_blank'
      /\ BoxNull = votes_null /\ BoxNull' = votes_null'
  BY <1>2, CleanBox, CleanBoxNext
<1>4. candidates \in Seq(Candidate)
  BY DEF TypeInv, TypeOK
<1>5. CASE key = "D"
  <2>1. votes_blank' = votes_blank + 1 /\ UNCHANGED <<candidates, votes_null>>
    BY <1>1, <1>5 DEF StoreTally, StoreBlank, StoreNull, StoreCandidate, StoreLost, CountInv
  <2>2. Entry = <<>>
    <3>1. Len(Entry) = 0
      BY <1>1, <1>5 DEF EntryInv, ChoiceInv, StateInv
    <3> QED
      BY <3>1, TextType DEF Entry, TypeInv, TypeOK, Buffer
  <2>3. UNCHANGED <<BoxList, BoxVotes, BoxNull>>
    BY <1>3, <2>1 DEF Numbers, Votes
  <2>4. Box!VoteBlank
    BY <1>3, <2>1, <2>2, <2>3 DEF Box!VoteBlank, Box!Close
  <2> QED
    BY <2>4
<1>6. ASSUME key = "A"
      PROVE  Len(Entry) = 2 /\ slot = Matching(Entry)
  BY <1>1, <1>6 DEF EntryInv, ChoiceInv, StateInv, Chosen, Entry
<1>7. CASE key = "A" /\ slot = 0
  <2>1. votes_null' = votes_null + 1 /\ UNCHANGED <<candidates, votes_blank>>
    <3>1. slot \notin DOMAIN candidates
      BY <1>4, <1>7, LenProperties
    <3> QED
      BY <1>1, <1>7, <3>1
         DEF StoreTally, StoreBlank, StoreNull, StoreCandidate, StoreLost, CountInv
  <2>2. \A c \in DOMAIN candidates : candidates[c].number # Entry
    BY <1>4, <1>6, <1>7, MatchingFinds
  <2>3. \A c \in DOMAIN BoxList : BoxList[c] # BoxTyped
    BY <1>3, <2>2 DEF Numbers
  <2>4. UNCHANGED <<BoxList, BoxVotes, BoxBlank>>
    BY <1>3, <2>1 DEF Numbers, Votes
  <2>5. Box!VoteNull
    BY <1>3, <1>6, <1>7, <2>1, <2>3, <2>4 DEF Box!VoteNull, Box!Close
  <2> QED
    BY <2>5
<1>8. CASE key = "A" /\ slot # 0
  <2>1. /\ slot \in DOMAIN candidates /\ candidates[slot].number = Entry
        /\ \A b \in DOMAIN candidates : candidates[b].number = Entry => slot <= b
    BY <1>4, <1>6, <1>8, MatchingFinds
  <2>2. /\ candidates' = [candidates EXCEPT ![slot].votes = candidates[slot].votes + 1]
        /\ UNCHANGED <<votes_blank, votes_null>>
    BY <1>1, <1>8 DEF StoreTally, StoreBlank, StoreNull, StoreCandidate, StoreLost, CountInv
  <2>3. BoxList' = BoxList /\ BoxVotes' = [BoxVotes EXCEPT ![slot] = @ + 1]
    BY <1>3, <1>4, <2>1, <2>2, VoteColumns
  <2>4. /\ slot \in DOMAIN BoxList /\ BoxList[slot] = BoxTyped
        /\ \A b \in DOMAIN BoxList : BoxList[b] = BoxTyped => slot <= b
    BY <1>3, <2>1 DEF Numbers
  <2>5. Box!VoteFor(slot)
    BY <1>3, <1>6, <1>8, <2>2, <2>3, <2>4 DEF Box!VoteFor, Box!Close
  <2> QED
    BY <2>4, <2>5
<1> QED
  BY <1>1, <1>5, <1>7, <1>8

-----------------------------------------------------------------------------
(* The commands.                                                             *)

\* What /start makes of the list.
LEMMA ZeroedColumns ==
    ASSUME NEW list \in Seq(Candidate)
    PROVE  /\ Numbers(Zeroed(list)) = Numbers(list)
           /\ Votes(Zeroed(list)) = [c \in DOMAIN list |-> 0]
           /\ Numbers(list) \in Seq(Seq(Digit))
           /\ DOMAIN Numbers(list) = DOMAIN list
<1>1. \A c \in DOMAIN list : list[c] \in Candidate
  BY LenProperties
<1>2. DOMAIN Zeroed(list) = DOMAIN list
  BY DEF Zeroed
<1>3. ASSUME NEW c \in DOMAIN list
      PROVE  Zeroed(list)[c].number = list[c].number /\ Zeroed(list)[c].votes = 0
  BY <1>1 DEF Zeroed, Candidate
<1>4. Numbers(Zeroed(list)) = Numbers(list)
  BY <1>2, <1>3 DEF Numbers
<1>5. Votes(Zeroed(list)) = [c \in DOMAIN list |-> 0]
  BY <1>2, <1>3 DEF Votes
<1> DEFINE Number == Seq(Digit)
<1>6. \A c \in DOMAIN list : list[c].number \in Number
  BY <1>1 DEF Candidate
<1> HIDE DEF Number
<1>7. Numbers(list) \in [DOMAIN list -> Number]
  BY <1>6 DEF Numbers
<1>8. Numbers(list) \in Seq(Number) /\ DOMAIN Numbers(list) = DOMAIN list
  BY <1>7, MapIsSeq
<1> QED
  BY <1>4, <1>5, <1>8 DEF Number

LEMMA StartStarts ==
    ASSUME BoxInv, HStart, clean'
    PROVE  Box!Start
<1>1. /\ candidates' = Zeroed(candidates) /\ votes_blank' = 0 /\ votes_null' = 0
      /\ current_state' = "WAITING_FOR_ENABLE" /\ ~Counted'
  BY DEF HStart, Start, StartState, Calm, mainVars, Counted
<1>2. candidates \in Seq(Candidate)
  BY DEF BoxInv, TallyInv, TypeInv, TypeOK
<1>3. /\ BoxPhase' = "waiting" /\ BoxTyped' = <<>>
      /\ BoxList' = Numbers(Zeroed(candidates)) /\ BoxVotes' = Votes(Zeroed(candidates))
      /\ BoxBlank' = 0 /\ BoxNull' = 0
  BY <1>1, CleanBoxNext DEF OpenStates
<1>4. /\ BoxList' = Numbers(candidates) /\ BoxVotes' = [c \in DOMAIN candidates |-> 0]
      /\ DOMAIN BoxList' = DOMAIN candidates
  BY <1>2, <1>3, ZeroedColumns
<1>5. BoxList' \in Seq(Seq(Digit))
  BY <1>2, <1>4, ZeroedColumns, Zenon
<1>6. Box!Empty(BoxList)'
  BY <1>3, <1>4 DEF Box!Empty
<1>7. clean => BoxPhase # "spoilt" /\ BoxList' = BoxList
  <2>1. current_state \in UrnaState
    BY DEF BoxInv, TallyInv, TypeInv, TypeOK
  <2> QED
    BY <1>4, <2>1, CleanBox DEF UrnaState, OpenStates
<1>8. ~clean => BoxPhase = "spoilt"
  BY SpoiltBox
<1> QED
  BY <1>3, <1>5, <1>6, <1>7, <1>8, Zenon DEF Box!Start

LEMMA EnableEnables ==
    ASSUME BoxInv, HEnable, clean, clean'
    PROVE  Box!Enable \/ UNCHANGED Box!boxVars
<1>1. /\ current_state \in {"WAITING_FOR_ENABLE", "VOTE_CONFIRMED"}
      /\ current_state' = "READY_TO_VOTE" /\ pc' = pc /\ UNCHANGED tallyVars
  BY DEF HEnable, Enable, mainVars
<1>2. Counted' <=> Counted
  BY <1>1 DEF Counted
<1>3. CASE Counted
  BY <1>1, <1>2, <1>3, StillBox DEF Still, BoxInv, TallyInv
<1>4. CASE ~Counted
  <2>1. Entry' = <<>>
    BY ResetEmpties DEF HEnable, Enable
  <2>2. /\ BoxPhase = "waiting" /\ BoxPhase' = "open"
        /\ BoxTyped = <<>> /\ BoxTyped' = Entry'
        /\ UNCHANGED <<BoxList, BoxVotes, BoxBlank, BoxNull>>
    BY <1>1, <1>2, <1>4, CleanBox, CleanBoxNext DEF OpenStates, tallyVars, Numbers, Votes
  <2> QED
    BY <2>1, <2>2 DEF Box!Enable
<1> QED
  BY <1>3, <1>4

LEMMA EndEnds ==
    ASSUME BoxInv, HEnd, clean, clean'
    PROVE  Box!End
<1>1. /\ Calm /\ current_state' = "ELECTION_ENDED" /\ pc' = pc /\ UNCHANGED tallyVars
  BY DEF HEnd, End, mainVars
<1>2. ~Counted'
  BY <1>1 DEF Calm, Counted
<1>3. /\ BoxPhase' = "ended" /\ BoxTyped' = <<>>
      /\ UNCHANGED <<BoxList, BoxVotes, BoxBlank, BoxNull>>
  BY <1>1, <1>2, CleanBox, CleanBoxNext DEF OpenStates, tallyVars, Numbers, Votes
<1>4. BoxPhase # "spoilt"
  <2>1. current_state \in UrnaState
    BY DEF BoxInv, TallyInv, TypeInv, TypeOK
  <2> QED
    BY <2>1, CleanBox DEF UrnaState, OpenStates
<1> QED
  BY <1>3, <1>4 DEF Box!End

\* A race, or a new list, spoils the box.
LEMMA RaceSpoils == ~clean' => Box!Spoil
<1>1. [c \in DOMAIN <<>> |-> 0] = <<>>
  OBVIOUS
<1> QED
  BY <1>1, SpoiltBoxNext DEF Box!Spoil, Box!Empty

-----------------------------------------------------------------------------
LEMMA BoxInit == HInit => Box!Init
<1> SUFFICES ASSUME HInit PROVE Box!Init
  OBVIOUS
<1>1. /\ clean /\ ~Counted /\ current_state = "WAITING_FOR_START" /\ candidates = <<>>
      /\ votes_blank = 0 /\ votes_null = 0
  BY DEF HInit, Init, Counted
<1>2. Numbers(<<>>) = <<>> /\ Votes(<<>>) = <<>> /\ [c \in DOMAIN <<>> |-> 0] = <<>>
  BY DEF Numbers, Votes
<1>3. /\ BoxPhase = "idle" /\ BoxList = <<>> /\ BoxTyped = <<>> /\ BoxVotes = <<>>
      /\ BoxBlank = 0 /\ BoxNull = 0
  BY <1>1, <1>2, CleanBox DEF OpenStates
<1> QED
  BY <1>2, <1>3 DEF Box!Init, Box!Empty

LEMMA BoxStep == BoxInv /\ [HNext]_allVars => [Box!Next]_(Box!boxVars)
<1> SUFFICES ASSUME BoxInv, [HNext]_allVars
             PROVE  Box!Next \/ UNCHANGED Box!boxVars
  OBVIOUS
<1>1. CASE ~clean'
  BY <1>1, RaceSpoils DEF Box!Next
<1>2. CASE clean' /\ HStart
  BY <1>2, StartStarts DEF Box!Next
<1>3. CASE clean' /\ ~HStart /\ ~UNCHANGED allVars
  <2>1. clean /\ TypeInv /\ CountInv /\ DisplayInv /\ EntryInv
    BY <1>3 DEF HNext, HVote, HQuiet, histVars, HCommand, HConfigure, HEnable, HEnd,
                BoxInv, TallyInv
  <2>2. CASE HVote
    BY <1>3, <2>1, <2>2, StoreIsVote DEF HVote, Box!Next
  <2>3. CASE HQuiet
    <3>1. UrnaLoop /\ pc # "store" /\ clean'
      BY <1>3, <2>3 DEF HQuiet
    <3>2. CASE StoreDigit
      BY <2>1, <3>1, <3>2, DigitIsTyped DEF Box!Next
    <3>3. CASE ResetEntry /\ pc = "correct"
      BY <2>1, <3>1, <3>3, ResetCorrects DEF Box!Next
    <3>4. CASE ~StoreDigit /\ ~(ResetEntry /\ pc = "correct")
      <4>1. pc \notin {"store", "put", "put2", "correct"}
        BY <3>1, <3>4 DEF UrnaLoop, Draw, Show, Gate, ScanNothing, ScanKey, FirstDigit,
              BecomeVoting, CheckVoting, ReadInputPos, StoreInputPos, CheckFull,
              BecomeShowing, SwitchKey, Find, LoadTally, StoreTally, Confirm, ResetEntry,
              Lock, Reopen, ReleaseKey, At
      <4>2. Still
        BY <2>1, <3>1, <4>1, QuietIsStill
      <4>3. UNCHANGED tallyVars
        BY <2>1, <3>1, QuietKeepsDisplay DEF BoxInv, TallyInv
      <4> QED
        BY <2>1, <3>1, <4>2, <4>3, StillBox
    <3> QED
      BY <3>2, <3>3, <3>4
  <2>4. CASE HEnable
    BY <1>3, <2>1, <2>4, EnableEnables DEF Box!Next
  <2>5. CASE HEnd
    BY <1>3, <2>1, <2>5, EndEnds DEF Box!Next
  <2>6. CASE HConfigure
    BY <1>3, <2>6 DEF HConfigure
  <2> QED
    BY <1>3, <2>2, <2>3, <2>4, <2>5, <2>6 DEF HNext, HCommand
<1>4. CASE UNCHANGED allVars
  BY <1>4 DEF allVars, vars, mainVars, entryVars, tallyVars, histVars, Box!boxVars,
              BoxPhase, BoxTyped, BoxList, BoxVotes, BoxBlank, BoxNull, Counted,
              OpenStates, Text, Numbers, Votes
<1> QED
  BY <1>1, <1>2, <1>3, <1>4

\* The firmware, in every interleaving of its loop with the commands, does
\* what the ballot box does.
THEOREM UrnaIsABallotBox == HSpec => BoxSpec
<1>1. BoxInv /\ [HNext]_allVars => [Box!Next]_(Box!boxVars)
  BY BoxStep
<1> QED
  BY BoxInvInit, BoxInvNext, BoxInit, <1>1, PTL DEF HSpec, BoxSpec, Box!Spec

-----------------------------------------------------------------------------
(* The sum of the tallies.                                                   *)

\* Induction on the natural numbers, for a set of them.
LEMMA Induction ==
    ASSUME NEW S \in SUBSET Nat, 0 \in S, \A n \in S : n + 1 \in S
    PROVE  S = Nat
<1> SUFFICES ASSUME Nat \ S # {}
             PROVE  FALSE
  OBVIOUS
<1> DEFINE T == Nat \ S
<1>1. Min(T) \in T /\ \A j \in T : Min(T) <= j
  <2>1. T \in SUBSET Nat /\ T # {}
    OBVIOUS
  <2> HIDE DEF T
  <2> QED
    BY <2>1, LeastPosition, Zenon
<1>2. PICK m \in T : \A j \in T : m <= j
  BY <1>1, Zenon
<1>3. m \in Nat /\ m # 0 /\ m - 1 \in Nat
  BY <1>2
<1>4. m - 1 \in S
  BY <1>2, <1>3
<1>5. m - 1 + 1 \in S
  BY <1>4
<1> QED
  BY <1>3, <1>5

\* The tallies put together, one more each time.
IsSum(f, l, k) ==
    f = [n \in 0..k |-> IF n = 0 THEN 0 ELSE f[n - 1] + l[n].votes]

\* The function Total defines by recursion exists.
LEMMA SumExists ==
    ASSUME NEW l, Len(l) \in Nat
    PROVE  \E f : IsSum(f, l, Len(l))
<1> DEFINE Is(f, k) == IsSum(f, l, k)
           S == {k \in Nat : \E f : Is(f, k)}
<1>1. 0 \in S
  <2> DEFINE f == [n \in 0..0 |-> 0]
  <2>1. Is(f, 0)
    BY DEF IsSum
  <2> QED
    BY <2>1, Zenon
<1>2. ASSUME NEW k \in S
      PROVE  k + 1 \in S
  <2>1. k \in Nat /\ k + 1 \in Nat
    BY <1>2
  <2>2. PICK a : Is(a, k)
    BY Zenon
  <2> DEFINE b == [n \in 0..(k + 1) |-> IF n = k + 1 THEN a[k] + l[n].votes ELSE a[n]]
  <2>3. \A n \in 0..k : a[n] = IF n = 0 THEN 0 ELSE a[n - 1] + l[n].votes
    BY <2>2, Zenon DEF IsSum
  <2>4. \A n \in 0..(k + 1) : b[n] = IF n = 0 THEN 0 ELSE b[n - 1] + l[n].votes
    <3> SUFFICES ASSUME NEW n \in 0..(k + 1)
                 PROVE  b[n] = IF n = 0 THEN 0 ELSE b[n - 1] + l[n].votes
      OBVIOUS
    <3>1. CASE n = k + 1
      <4>1. n # 0 /\ n - 1 = k /\ k \in 0..(k + 1) /\ k # k + 1
        BY <2>1, <3>1
      <4>2. b[n] = a[k] + l[n].votes
        BY <3>1, Zenon
      <4>3. b[k] = a[k]
        BY <4>1, Zenon
      <4> QED
        BY <4>1, <4>2, <4>3, Zenon
    <3>2. CASE n # k + 1
      <4>1. n \in 0..k /\ (n # 0 => n - 1 \in 0..(k + 1) /\ n - 1 # k + 1)
        BY <2>1, <3>2
      <4>2. b[n] = a[n] /\ (n # 0 => b[n - 1] = a[n - 1])
        BY <3>2, <4>1, Zenon
      <4> QED
        BY <2>3, <4>1, <4>2, Zenon
    <3> QED
      BY <3>1, <3>2
  <2>5. Is(b, k + 1)
    <3>1. b = [n \in 0..(k + 1) |-> b[n]]
      BY Zenon
    <3> HIDE DEF b
    <3> QED
      BY <2>4, <3>1 DEF IsSum
  <2> HIDE DEF b, Is
  <2> QED
    BY <2>1, <2>5
<1>3. S = Nat
  <2>1. S \subseteq Nat
    OBVIOUS
  <2> HIDE DEF S
  <2> QED
    BY <2>1, <1>1, <1>2, Induction
<1> QED
  BY <1>3

\* The tallies put together so far.
Sum(l) == CHOOSE f : IsSum(f, l, Len(l))

\* It starts with nothing and adds one tally at a time; Total is all of them.
LEMMA SumEquation ==
    ASSUME NEW l \in Seq(Candidate)
    PROVE  /\ Total(l) = Sum(l)[Len(l)]
           /\ Sum(l)[0] = 0
           /\ \A n \in 1..Len(l) : Sum(l)[n] = Sum(l)[n - 1] + l[n].votes
<1> DEFINE f == Sum(l)
           k == Len(l)
<1>1. k \in Nat
  BY LenProperties
<1>2. IsSum(f, l, k)
  BY <1>1, SumExists, Zenon DEF Sum
<1>3. Total(l) = f[k]
  BY Zenon DEF Total, Sum, IsSum
<1> HIDE DEF f, k
<1>4. \A n \in 0..k : f[n] = IF n = 0 THEN 0 ELSE f[n - 1] + l[n].votes
  BY <1>2, Zenon DEF IsSum
<1>5. f[0] = 0
  <2>1. 0 \in 0..k
    BY <1>1
  <2> QED
    BY <1>4, <2>1, Zenon
<1>6. \A n \in 1..k : f[n] = f[n - 1] + l[n].votes
  <2>1. \A n \in 1..k : n \in 0..k /\ n # 0
    BY <1>1
  <2> QED
    BY <1>4, <2>1, Zenon
<1> QED
  BY <1>3, <1>5, <1>6 DEF f, k

\* Sums of tallies are natural numbers, and none when every tally is zero.
LEMMA SumType ==
    ASSUME NEW l \in Seq(Candidate)
    PROVE  /\ \A n \in 0..Len(l) : Sum(l)[n] \in Nat
           /\ Total(l) \in Nat
           /\ (\A c \in DOMAIN l : l[c].votes = 0) => Total(l) = 0
<1> DEFINE f == Sum(l)
           k == Len(l)
           zero == \A c \in 1..k : l[c].votes = 0
           S == {n \in Nat : n <= k => f[n] \in Nat /\ (zero => f[n] = 0)}
<1>1. k \in Nat /\ DOMAIN l = 1..k /\ \A n \in 1..k : l[n].votes \in Nat
  <2>1. k \in Nat /\ DOMAIN l = 1..k /\ \A n \in 1..k : l[n] \in Candidate
    BY LenProperties, ElementOfSeq
  <2> QED
    BY <2>1 DEF Candidate
<1>2. /\ Total(l) = f[k] /\ f[0] = 0
      /\ \A n \in 1..k : f[n] = f[n - 1] + l[n].votes
  BY SumEquation
<1> HIDE DEF f, k
<1>3. 0 \in S
  BY <1>2
<1>4. ASSUME NEW n \in S
      PROVE  n + 1 \in S
  <2>1. n \in Nat /\ n + 1 \in Nat /\ (n + 1 <= k => n <= k /\ n + 1 \in 1..k /\ n + 1 - 1 = n)
    BY <1>1, <1>4
  <2>2. n + 1 <= k => f[n + 1] = f[n] + l[n + 1].votes
    BY <1>2, <2>1
  <2> QED
    BY <1>1, <1>4, <2>1, <2>2
<1>5. S = Nat
  <2>1. S \subseteq Nat
    OBVIOUS
  <2> HIDE DEF S
  <2> QED
    BY <2>1, <1>3, <1>4, Induction
<1>6. \A n \in 0..k : f[n] \in Nat /\ (zero => f[n] = 0)
  BY <1>1, <1>5
<1>7. f[k] \in Nat /\ (zero => f[k] = 0)
  BY <1>1, <1>6
<1> QED
  BY <1>1, <1>2, <1>6, <1>7 DEF f, k

\* Another value of one tally moves the total by the difference.
LEMMA VoteTotal ==
    ASSUME NEW l \in Seq(Candidate), NEW c \in DOMAIN l, NEW m \in Nat
    PROVE  /\ Total([l EXCEPT ![c].votes = m]) = Total(l) - l[c].votes + m
           /\ Total(l) \in Nat /\ l[c].votes \in Nat
<1> DEFINE new == [l EXCEPT ![c].votes = m]
           k == Len(l)
           f == Sum(l)
           g == Sum(new)
           S == {n \in Nat : n <= k => g[n] = IF n < c THEN f[n] ELSE f[n] - l[c].votes + m}
<1>1. k \in Nat /\ DOMAIN l = 1..k /\ \A n \in 1..k : l[n] \in Candidate
  BY LenProperties, ElementOfSeq
<1>2. new \in Seq(Candidate) /\ Len(new) = k
  BY VoteType
<1>3. /\ \A n \in 1..k : n # c => new[n] = l[n]
      /\ new[c].votes = m
  BY <1>1 DEF Candidate
<1>4. \A n \in 1..k : l[n].votes \in Nat
  BY <1>1 DEF Candidate
<1>5. /\ Total(l) = f[k] /\ f[0] = 0
      /\ \A n \in 1..k : f[n] = f[n - 1] + l[n].votes
  BY SumEquation
<1>6. /\ Total(new) = g[k] /\ g[0] = 0
      /\ \A n \in 1..k : g[n] = g[n - 1] + new[n].votes
  <2> HIDE DEF new
  <2> QED
    BY <1>2, SumEquation
<1>7. \A n \in 0..k : f[n] \in Nat
  BY SumType
<1>8. c \in 1..k
  BY <1>1
<1> HIDE DEF new, f, g, k
<1>9. 0 \in S
  BY <1>5, <1>6, <1>8, <1>1
<1>10. ASSUME NEW n \in S
       PROVE  n + 1 \in S
  <2> DEFINE i == n + 1
  <2>1. n \in Nat /\ i \in Nat /\ (i <= k => n <= k /\ n \in 0..k /\ i \in 1..k /\ i - 1 = n)
    BY <1>1, <1>10
  <2>2. i <= k => /\ f[i] = f[n] + l[i].votes /\ g[i] = g[n] + new[i].votes
                  /\ f[n] \in Nat /\ l[i].votes \in Nat /\ l[c].votes \in Nat
    BY <1>4, <1>5, <1>6, <1>7, <1>8, <2>1
  <2>3. i <= k => g[n] = IF n < c THEN f[n] ELSE f[n] - l[c].votes + m
    BY <1>10, <2>1
  <2>4. i <= k /\ i # c => new[i].votes = l[i].votes
    BY <1>3, <2>1
  <2>5. i <= k => g[i] = IF i < c THEN f[i] ELSE f[i] - l[c].votes + m
    <3>1. CASE i < c
      BY <1>8, <2>1, <2>2, <2>3, <2>4, <3>1
    <3>2. CASE i = c
      BY <1>3, <1>8, <2>1, <2>2, <2>3, <3>2
    <3>3. CASE i > c
      BY <1>8, <2>1, <2>2, <2>3, <2>4, <3>3
    <3> QED
      BY <1>8, <2>1, <3>1, <3>2, <3>3
  <2> QED
    BY <2>1, <2>5
<1>11. S = Nat
  <2>1. S \subseteq Nat
    OBVIOUS
  <2> HIDE DEF S
  <2> QED
    BY <2>1, <1>9, <1>10, Induction
<1>12. g[k] = f[k] - l[c].votes + m
  <2>1. k <= k /\ ~(k < c)
    BY <1>1, <1>8
  <2> QED
    BY <1>1, <1>11, <2>1
<1>13. Total(l) \in Nat /\ l[c].votes \in Nat
  BY <1>1, <1>4, <1>5, <1>7, <1>8
<1> QED
  BY <1>5, <1>6, <1>12, <1>13 DEF new

-----------------------------------------------------------------------------
(* What the mapping to Machine relies on, races or not: what a vote was      *)
(* loaded from has not grown since, and a list that was replaced under the   *)
(* vote has no votes.                                                        *)

AllZero(l) == \A c \in DOMAIN l : l[c].votes = 0

LoadedInv ==
    /\ pc = "store" /\ key = "D" => votes_blank <= tmp
    /\ pc = "store" /\ key = "A" /\ slot = 0 => votes_null <= tmp
    /\ pc = "store" /\ key = "A" /\ slot \in DOMAIN candidates =>
          candidates[slot].votes <= tmp
    /\ stale => key = "A" /\ AllZero(candidates)

SeenInv == TallyInv /\ LoadedInv

LEMMA SeenInvInit == HInit => SeenInv
BY TallyInit DEF HInit, Init, SeenInv, LoadedInv

LEMMA ZeroedIsZero == ASSUME NEW l \in Seq(Candidate) PROVE AllZero(Zeroed(l))
<1>1. \A c \in DOMAIN l : l[c] \in Candidate
  BY LenProperties
<1> QED
  BY <1>1 DEF AllZero, Zeroed, Candidate

LEMMA ConfiguredIsZero ==
    ASSUME NEW slate \in Slates, NEW split \in BOOLEAN
    PROVE  /\ AllZero(Configured(slate, split))
           /\ Configured(slate, split) \in {Configured(slate, FALSE), <<>>}
BY DEF AllZero, Configured

LEMMA LoadedNext == SeenInv /\ [HNext]_allVars => SeenInv'
<1> SUFFICES ASSUME SeenInv, [HNext]_allVars PROVE LoadedInv'
  BY TallyNext DEF SeenInv
<1>0. TypeInv /\ LoadedInv /\ StaleInv
  BY DEF SeenInv, TallyInv
<1> USE DEF LoadedInv
<1>1. CASE StoreTally
  BY <1>1 DEF StoreTally, At
<1>2. CASE LoadTally
  <2>1. UNCHANGED <<candidates, votes_blank, votes_null, key, slot, stale>> /\ tmp' \in Nat
    <3>1. TypeInv'
      BY <1>0, <1>2, TypeNext DEF Next, UrnaLoop
    <3> QED
      BY <1>2, <3>1 DEF LoadTally, tallyVars, TypeInv, TypeOK
  <2>2. AllZero(candidates)' <=> AllZero(candidates)
    BY <2>1 DEF AllZero
  <2>3. slot \in DOMAIN candidates => slot > 0 /\ candidates[slot].votes \in Nat
    <3>1. candidates \in Seq(Candidate)
      BY <1>0 DEF TypeInv, TypeOK
    <3>2. slot \in DOMAIN candidates => slot \in 1..Len(candidates) /\ candidates[slot] \in Candidate
      BY <3>1, LenProperties
    <3> QED
      BY <3>1, <3>2, LenProperties DEF Candidate
  <2>4. votes_blank \in Nat /\ votes_null \in Nat /\ slot \in Nat
    BY <1>0 DEF TypeInv, TypeOK
  <2>5. CASE stale /\ slot > 0
    <3>1. key = "A"
      BY <1>0, <2>5
    <3> QED
      BY <1>0, <2>1, <2>2, <2>3, <2>4, <2>5, <3>1 DEF AllZero
  <2>6. CASE ~(stale /\ slot > 0)
    <3>1. tmp' = CASE key = "D" -> votes_blank
                   [] key # "D" /\ slot = 0 -> votes_null
                   [] OTHER -> candidates[slot].votes
      BY <1>2, <2>6 DEF LoadTally
    <3>2. /\ key = "D" => tmp' = votes_blank
          /\ key = "A" /\ slot = 0 => tmp' = votes_null
          /\ key = "A" /\ slot # 0 => tmp' = candidates[slot].votes
      BY <3>1
    <3> QED
      BY <1>0, <2>1, <2>2, <2>3, <2>4, <3>2
  <2> QED
    BY <2>5, <2>6
<1>3. CASE UrnaLoop /\ ~StoreTally /\ ~LoadTally
  <2>1. pc' # "store" /\ UNCHANGED <<tallyVars, stale>> /\ (stale => key' = key)
    <3>1. CASE SwitchKey
      BY <3>1 DEF SwitchKey, AfterSwitch
    <3>2. CASE ~SwitchKey
      BY <1>0, <1>3, <3>2 DEF StaleInv, UrnaLoop, Draw, Show, Gate, ScanNothing, ScanKey, FirstDigit, BecomeVoting,
           CheckVoting, ReadInputPos, StoreInputPos, StoreDigit, CheckFull, BecomeShowing,
           Find, Confirm, ResetEntry, Lock, Reopen, ReleaseKey, At
    <3> QED
      BY <3>1, <3>2
  <2> QED
    BY <1>0, <2>1 DEF AllZero, tallyVars
<1>4. CASE HConfigure
  <2>1. PICK slate \in Slates, split \in BOOLEAN : Configure(slate, split)
    BY <1>4 DEF HConfigure
  <2>2. /\ candidates' = Configured(slate, split)
        /\ UNCHANGED <<pc, key, slot, tmp, votes_blank, votes_null>>
        /\ stale' => stale \/ key = "A"
    BY <2>1 DEF Configure, mainVars
  <2>3. AllZero(candidates')
    BY <2>2, ConfiguredIsZero
  <2> QED
    BY <1>0, <2>2, <2>3 DEF AllZero, TypeInv, TypeOK
<1>5. CASE HStart
  <2>1. /\ candidates' = Zeroed(candidates) /\ votes_blank' = 0 /\ votes_null' = 0
        /\ UNCHANGED <<pc, key, slot, tmp, stale>>
    BY <1>5 DEF HStart, Start, mainVars
  <2>2. AllZero(candidates')
    BY <1>0, <2>1, ZeroedIsZero DEF TypeInv, TypeOK
  <2> QED
    BY <1>0, <2>1, <2>2 DEF AllZero, TypeInv, TypeOK
<1>6. CASE HEnable \/ HEnd \/ UNCHANGED allVars
  <2>1. UNCHANGED <<tallyVars, mainVars, stale>>
    BY <1>6 DEF HEnable, Enable, HEnd, End, allVars, vars
  <2> QED
    BY <1>0, <2>1 DEF AllZero, tallyVars, mainVars
<1> QED
  BY <1>1, <1>2, <1>3, <1>4, <1>5, <1>6 DEF HNext, HVote, HQuiet, HCommand

-----------------------------------------------------------------------------
(* The steps, as the app sees them.                                          *)

LEMMA SeenKeyIs ==
    /\ Calm <=> SeenKey = "none"
    /\ Counted => SeenKey = "voted"
    /\ ~Calm /\ ~Counted => SeenKey = "held"
BY DEF SeenKey, Calm, Counted

LEMMA SeenPhaseIs ==
    /\ current_state = "WAITING_FOR_START" => SeenPhase = "idle"
    /\ current_state \in {"WAITING_FOR_ENABLE", "VOTE_CONFIRMED"} => SeenPhase = "waiting"
    /\ current_state \in OpenStates => SeenPhase = "open"
    /\ current_state = "ELECTION_ENDED" => SeenPhase = "ended"
BY DEF SeenPhase, OpenStates

LEMMA SeenKeyNext ==
    /\ Calm' => SeenKey' = "none"
    /\ Counted' => SeenKey' = "voted"
    /\ ~Calm' /\ ~Counted' => SeenKey' = "held"
BY DEF SeenKey, Calm, Counted

LEMMA SeenPhaseNext ==
    /\ current_state' = "WAITING_FOR_START" => SeenPhase' = "idle"
    /\ current_state' \in {"WAITING_FOR_ENABLE", "VOTE_CONFIRMED"} => SeenPhase' = "waiting"
    /\ current_state' \in OpenStates => SeenPhase' = "open"
    /\ current_state' = "ELECTION_ENDED" => SeenPhase' = "ended"
BY DEF SeenPhase, OpenStates

LEMMA SeenSame ==
    /\ UNCHANGED current_state => SeenPhase' = SeenPhase
    /\ UNCHANGED pc => SeenKey' = SeenKey
    /\ UNCHANGED tallyVars => SeenVotes' = SeenVotes /\ Numbers(candidates') = Numbers(candidates)
BY DEF SeenPhase, SeenKey, SeenVotes, Calm, Counted, tallyVars

\* A vote changes no number.
LEMMA NumbersKept ==
    ASSUME NEW list \in Seq(Candidate), NEW c \in DOMAIN list, NEW n
    PROVE  Numbers([list EXCEPT ![c].votes = n]) = Numbers(list)
<1> DEFINE new == [list EXCEPT ![c].votes = n]
<1>1. list[c] \in Candidate
  BY LenProperties
<1>2. DOMAIN new = DOMAIN list /\ \A d \in DOMAIN list : new[d].number = list[d].number
  BY <1>1 DEF Candidate
<1> HIDE DEF new
<1>3. Numbers(new) = Numbers(list)
  BY <1>2 DEF Numbers
<1> QED
  BY <1>3 DEF new

\* A step that stores no vote.
LEMMA QuietIsSeen ==
    ASSUME SeenInv, UrnaLoop, pc # "store", clean' = clean
    PROVE  Seen!Loop \/ UNCHANGED Seen!machineVars
<1>0. UNCHANGED <<tallyVars, clean>>
  BY DEF UrnaLoop, Draw, Show, Gate, ScanNothing, ScanKey, FirstDigit, BecomeVoting,
         CheckVoting, ReadInputPos, StoreInputPos, StoreDigit, CheckFull, BecomeShowing,
         SwitchKey, Find, LoadTally, StoreTally, Confirm, ResetEntry, Lock, Reopen, ReleaseKey, At
<1>00. SeenVotes' = SeenVotes /\ Numbers(candidates') = Numbers(candidates)
  BY <1>0, SeenSame
<1>1. CASE Gate
  <2>1. CASE current_state \in OpenStates
    <3>1. SeenPhase = "open" /\ SeenPhase' = SeenPhase
      BY <1>1, <2>1, SeenPhaseIs, SeenSame DEF Gate
    <3>2. SeenKey = "none" /\ SeenKey' = "held"
      BY <1>1, <2>1, SeenKeyIs, SeenKeyNext DEF Gate, Open, Calm, Counted
    <3> QED
      BY <1>0, <1>00, <3>1, <3>2 DEF Seen!Press, Seen!Loop
  <2>2. CASE current_state \notin OpenStates
    <3>1. SeenPhase' = SeenPhase /\ SeenKey = "none" /\ SeenKey' = "none"
      BY <1>1, <2>2, SeenKeyIs, SeenKeyNext, SeenSame DEF Gate, Open, Calm, Counted
    <3> QED
      BY <1>0, <1>00, <3>1 DEF Seen!machineVars
  <2> QED
    BY <2>1, <2>2
<1>2. CASE BecomeVoting \/ BecomeShowing
  <2>1. SeenPhase' = "open" /\ SeenKey = "held" /\ SeenKey' = "held"
    BY <1>2, SeenPhaseNext, SeenKeyIs, SeenKeyNext
       DEF BecomeVoting, BecomeShowing, At, OpenStates, Calm, Counted
  <2> QED
    BY <1>0, <1>00, <2>1 DEF Seen!Reopen, Seen!Loop
<1>3. CASE Reopen
  <2>1. SeenPhase' = "open" /\ SeenKey = "held" /\ SeenKey' = "none"
    BY <1>3, SeenPhaseNext, SeenKeyIs, SeenKeyNext DEF Reopen, At, OpenStates, Calm, Counted
  <2> QED
    BY <1>0, <1>00, <2>1 DEF Seen!Reopen, Seen!Loop
<1>4. CASE Confirm \/ Lock
  <2>1. SeenPhase' = "waiting" /\ SeenKey = "voted" /\ SeenKey' \in {"voted", "none"}
    BY <1>4, SeenPhaseNext, SeenKeyIs, SeenKeyNext
       DEF Confirm, Lock, LockedState, At, Calm, Counted
  <2> QED
    BY <1>0, <1>00, <2>1 DEF Seen!Lock, Seen!Loop
<1>5. CASE ScanNothing \/ SwitchKey
  <2>1. SeenPhase' = SeenPhase /\ SeenKey = "held" /\ SeenKey' \in {"none", "held"}
    <3>1. CASE ScanNothing
      BY <3>1, SeenSame, SeenKeyIs, SeenKeyNext DEF ScanNothing, At, Calm, Counted
    <3>2. CASE SwitchKey
      <4>1. pc' \in {"find", "correct", "load", "release"}
        BY <3>2 DEF SwitchKey, AfterSwitch
      <4> QED
        BY <3>2, <4>1, SeenSame, SeenKeyIs, SeenKeyNext DEF SwitchKey, Calm, Counted
    <3> QED
      BY <1>5, <3>1, <3>2
  <2> QED
    BY <1>0, <1>00, <2>1 DEF Seen!Release, Seen!Loop, Seen!machineVars
<1>6. CASE Draw \/ Show \/ ReleaseKey \/ ResetEntry
  <2>1. SeenPhase' = SeenPhase
    BY <1>6, SeenSame DEF Draw, Show, ReleaseKey, ResetEntry
  <2>2. SeenKey' = SeenKey
    BY <1>6, SeenKeyIs, SeenKeyNext DEF Draw, Show, ReleaseKey, ResetEntry, At, Calm, Counted
  <2> QED
    BY <1>0, <1>00, <2>1, <2>2 DEF Seen!machineVars
<1>7. CASE \/ \E k \in Digit \cup Letter : ScanKey(k)
           \/ FirstDigit \/ CheckVoting \/ ReadInputPos \/ StoreInputPos \/ StoreDigit
           \/ CheckFull \/ Find \/ LoadTally
  <2>1. SeenPhase' = SeenPhase
    BY <1>7, SeenSame DEF ScanKey, FirstDigit, CheckVoting, ReadInputPos, StoreInputPos,
       StoreDigit, CheckFull, Find, LoadTally
  <2>2. SeenKey = "held" /\ SeenKey' = "held"
    BY <1>7, SeenKeyIs, SeenKeyNext
       DEF ScanKey, FirstDigit, CheckVoting, ReadInputPos, StoreInputPos,
           StoreDigit, CheckFull, Find, LoadTally, At, Calm, Counted
  <2> QED
    BY <1>0, <1>00, <2>1, <2>2 DEF Seen!machineVars
<1> QED
  BY <1>1, <1>2, <1>3, <1>4, <1>5, <1>6, <1>7 DEF UrnaLoop, StoreTally, At

\* The store of a vote counts it; a store that comes late takes none away.
LEMMA StoreIsSeen ==
    ASSUME SeenInv, StoreTally, clean' = clean
    PROVE  Seen!Count
<1>1. /\ TypeInv /\ LoadedInv /\ (clean => CountInv)
      /\ pc = "store" /\ key \in {"A", "D"} /\ UNCHANGED current_state
  BY DEF SeenInv, TallyInv, TypeInv, RegistersOK, StoreTally, At
<1>2. /\ candidates \in Seq(Candidate) /\ votes_blank \in Nat /\ votes_null \in Nat
      /\ tmp \in Nat /\ Total(candidates) \in Nat
  BY <1>1, SumType DEF TypeInv, TypeOK
<1>3. SeenKey = "held" /\ SeenKey' = "voted" /\ SeenPhase' = SeenPhase
  BY <1>1, SeenKeyIs, SeenKeyNext, SeenSame DEF StoreTally, At, Calm, Counted
<1>4. /\ Numbers(candidates') = Numbers(candidates) /\ SeenVotes' \in Nat
      /\ SeenVotes \in Nat
      /\ IF clean THEN SeenVotes' = SeenVotes + 1 ELSE SeenVotes' >= SeenVotes
  <2>1. CASE StoreBlank
    <3>1. votes_blank' = tmp + 1 /\ candidates' = candidates /\ votes_null' = votes_null
          /\ votes_blank <= tmp /\ (clean => tmp = votes_blank)
      BY <1>1, <2>1 DEF StoreBlank, LoadedInv, CountInv
    <3> QED
      BY <1>2, <3>1 DEF SeenVotes
  <2>2. CASE StoreNull
    <3>1. votes_null' = tmp + 1 /\ candidates' = candidates /\ votes_blank' = votes_blank
          /\ votes_null <= tmp /\ (clean => tmp = votes_null)
      BY <1>1, <2>2 DEF StoreNull, LoadedInv, CountInv
    <3> QED
      BY <1>2, <3>1 DEF SeenVotes
  <2>3. CASE StoreCandidate
    <3> DEFINE old == candidates[slot].votes
               new == [candidates EXCEPT ![slot].votes = tmp + 1]
    <3>1. /\ slot \in DOMAIN candidates /\ candidates' = new
          /\ votes_blank' = votes_blank /\ votes_null' = votes_null
          /\ candidates[slot].votes <= tmp
      BY <1>1, <2>3 DEF StoreCandidate, LoadedInv
    <3>2. slot # 0
      BY <1>2, <3>1, LenProperties
    <3>3. clean => tmp = old
      BY <1>1, <2>3, <3>2 DEF StoreCandidate, CountInv
    <3>4. Total(new) = Total(candidates) - old + (tmp + 1) /\ old \in Nat
      <4>1. tmp + 1 \in Nat
        BY <1>2
      <4> QED
        BY <1>2, <3>1, <4>1, VoteTotal
    <3>5. Numbers(new) = Numbers(candidates)
      BY <1>2, <3>1, NumbersKept
    <3> HIDE DEF old, new
    <3>6. old <= tmp
      BY <3>1 DEF old
    <3> QED
      BY <1>2, <3>1, <3>3, <3>4, <3>5, <3>6 DEF SeenVotes
  <2>4. CASE StoreLost
    <3>1. stale /\ ~clean /\ UNCHANGED tallyVars
      BY <1>1, <2>4 DEF StoreLost, CountInv
    <3>2. SeenVotes' = SeenVotes /\ Numbers(candidates') = Numbers(candidates)
      BY <3>1, SeenSame
    <3> QED
      BY <1>2, <3>1, <3>2 DEF SeenVotes
  <2> QED
    BY <2>1, <2>2, <2>3, <2>4 DEF StoreTally
<1> QED
  BY <1>3, <1>4 DEF Seen!Count

\* The commands.
LEMMA ConfigureIsSeen ==
    ASSUME SeenInv, HConfigure
    PROVE  Seen!Next
<1>1. PICK slate \in Slates, split \in BOOLEAN : Configure(slate, split)
  BY DEF HConfigure
<1> DEFINE posted == Configured(slate, FALSE)
           sent == Numbers(posted)
<1>2. /\ candidates' = Configured(slate, split)
      /\ UNCHANGED <<current_state, pc, votes_blank, votes_null>> /\ clean' = FALSE
  BY <1>1 DEF Configure, mainVars, HConfigure
<1>3. SeenPhase' = SeenPhase /\ SeenKey' = SeenKey
  BY <1>2, SeenSame
<1>4. candidates' \in {posted, <<>>} /\ AllZero(candidates') /\ candidates' \in Seq(Candidate)
  BY <1>2, ConfiguredIsZero, ConfiguredType
<1>5. Numbers(<<>>) = <<>>
  BY DEF Numbers
<1>6. Numbers(candidates') \in {sent, <<>>}
  BY <1>4, <1>5
<1>7. Total(candidates') = 0
  BY <1>4, SumType DEF AllZero
<1>8. /\ candidates \in Seq(Candidate) /\ Total(candidates) \in Nat
      /\ votes_blank \in Nat /\ votes_null \in Nat
  BY SumType DEF SeenInv, TallyInv, TypeInv, TypeOK
<1>9. SeenVotes' \in 0..SeenVotes
  BY <1>2, <1>7, <1>8 DEF SeenVotes
<1>10. Numbers(candidates) = <<>> => SeenVotes' = SeenVotes
  <2>1. ASSUME Numbers(candidates) = <<>>
        PROVE  AllZero(candidates)
    <3>1. DOMAIN candidates = {}
      BY <2>1 DEF Numbers
    <3> QED
      BY <3>1 DEF AllZero
  <2>2. AllZero(candidates) => Total(candidates) = 0
    BY <1>8, SumType DEF AllZero
  <2> QED
    BY <1>2, <1>7, <2>1, <2>2 DEF SeenVotes
<1>11. sent \in {Numbers(Configured(s, FALSE)) : s \in Slates}
  OBVIOUS
<1> HIDE DEF sent, posted
<1>12. Seen!Configure(sent)
  BY <1>2, <1>3, <1>6, <1>9, <1>10 DEF Seen!Configure
<1> QED
  BY <1>11, <1>12 DEF Seen!Next

LEMMA StartIsSeen ==
    ASSUME SeenInv, HStart
    PROVE  Seen!Start
<1>1. /\ candidates' = Zeroed(candidates) /\ votes_blank' = 0 /\ votes_null' = 0
      /\ current_state' = "WAITING_FOR_ENABLE" /\ pc' = pc /\ clean' = Calm
  BY DEF HStart, Start, StartState, mainVars
<1>2. candidates \in Seq(Candidate)
  BY DEF SeenInv, TallyInv, TypeInv, TypeOK
<1>3. Numbers(candidates') = Numbers(candidates)
  BY <1>1, <1>2, ZeroedColumns
<1>4. Total(candidates') = 0
  <2>1. AllZero(candidates') /\ candidates' \in Seq(Candidate)
    BY <1>1, <1>2, ZeroedIsZero, ZeroedType
  <2> QED
    BY <2>1, SumType DEF AllZero
<1>5. SeenPhase' = "waiting" /\ SeenKey' = SeenKey /\ SeenVotes' = 0
  BY <1>1, <1>4, SeenPhaseNext, SeenSame DEF SeenVotes
<1>6. clean' = (SeenKey = "none")
  <2>1. Calm \in BOOLEAN
    BY DEF Calm
  <2>2. Calm = (SeenKey = "none")
    BY <2>1, SeenKeyIs, Zenon
  <2> QED
    BY <1>1, <2>2, Zenon
<1> QED
  BY <1>3, <1>5, <1>6, Zenon DEF Seen!Start

LEMMA EnableIsSeen ==
    ASSUME HEnable
    PROVE  Seen!Enable
<1>1. /\ current_state \in {"WAITING_FOR_ENABLE", "VOTE_CONFIRMED"}
      /\ current_state' = "READY_TO_VOTE" /\ UNCHANGED <<pc, tallyVars, clean>>
  BY DEF HEnable, Enable, mainVars
<1>2. SeenPhase = "waiting" /\ SeenPhase' = "open"
  BY <1>1, SeenPhaseIs, SeenPhaseNext DEF OpenStates
<1> QED
  BY <1>1, <1>2, SeenSame DEF Seen!Enable

LEMMA EndIsSeen ==
    ASSUME HEnd
    PROVE  Seen!End
<1>1. /\ current_state' = "ELECTION_ENDED" /\ UNCHANGED <<pc, tallyVars>>
      /\ clean' = (clean /\ Calm)
  BY DEF HEnd, End, mainVars
<1>2. SeenPhase' = "ended" /\ SeenKey' = SeenKey /\ SeenVotes' = SeenVotes
      /\ Numbers(candidates') = Numbers(candidates)
  BY <1>1, SeenPhaseNext, SeenSame
<1>3. clean' = (clean /\ SeenKey = "none")
  BY <1>1, SeenKeyIs, Zenon
<1> QED
  BY <1>2, <1>3, Zenon DEF Seen!End

LEMMA SeenInit == HInit => Seen!Init
<1> SUFFICES ASSUME HInit PROVE Seen!Init
  OBVIOUS
<1>1. /\ clean /\ clean = TRUE /\ pc = "draw" /\ current_state = "WAITING_FOR_START"
      /\ candidates = <<>> /\ votes_blank = 0 /\ votes_null = 0
  BY DEF HInit, Init
<1>2. SeenPhase = "idle" /\ SeenKey = "none"
  BY <1>1, SeenPhaseIs, SeenKeyIs DEF Calm
<1>3. Numbers(candidates) = <<>>
  BY <1>1 DEF Numbers
<1>4. Total(candidates) = 0
  <2>1. candidates \in Seq(Candidate) /\ \A c \in DOMAIN candidates : FALSE
    BY <1>1
  <2> QED
    BY <2>1, SumType
<1>5. SeenVotes = 0
  BY <1>1, <1>4 DEF SeenVotes
<1> QED
  BY <1>1, <1>2, <1>3, <1>5 DEF Seen!Init

LEMMA SeenStep == SeenInv /\ [HNext]_allVars => [Seen!Next]_(Seen!machineVars)
<1> SUFFICES ASSUME SeenInv, [HNext]_allVars
             PROVE  Seen!Next \/ UNCHANGED Seen!machineVars
  OBVIOUS
<1>1. CASE HVote
  BY <1>1, StoreIsSeen DEF HVote, Seen!Next, Seen!Loop
<1>2. CASE HQuiet
  BY <1>2, QuietIsSeen DEF HQuiet, histVars, Seen!Next
<1>3. CASE HConfigure
  BY <1>3, ConfigureIsSeen
<1>4. CASE HStart
  BY <1>4, StartIsSeen DEF Seen!Next
<1>5. CASE HEnable
  BY <1>5, EnableIsSeen DEF Seen!Next
<1>6. CASE HEnd
  BY <1>6, EndIsSeen DEF Seen!Next
<1>7. CASE UNCHANGED allVars
  BY <1>7, SeenSame DEF allVars, vars, mainVars, histVars, Seen!machineVars
<1> QED
  BY <1>1, <1>2, <1>3, <1>4, <1>5, <1>6, <1>7 DEF HNext, HCommand

\* The firmware does what the machine may do that the app is modelled with, in
\* every interleaving, races included.
THEOREM UrnaIsAMachine == HSpec => MachineSpec
<1>1. SeenInv /\ [HNext]_allVars => [Seen!Next]_(Seen!machineVars)
  BY SeenStep
<1> QED
  BY SeenInvInit, LoadedNext, SeenInit, <1>1, PTL DEF HSpec, MachineSpec, Seen!Spec

=============================================================================
