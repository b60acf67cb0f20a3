-------------------------------- MODULE Urna --------------------------------
(***************************************************************************)
(* The voting machine of etapa-4/urna_eletronica/urna_eletronica.c.        *)
(*                                                                         *)
(* Two threads of control share the globals of lines 42-57:                *)
(*                                                                         *)
(*   - the main thread, `while (...) urna_loop()`, which draws the screen, *)
(*     reads the keypad and stores votes.  It sleeps inside one pass for   *)
(*     up to 2.5 s, and pc names the place it has reached;                 *)
(*   - the HTTP command handlers of tcp_server_recv.  The firmware links   *)
(*     pico_cyw43_arch_lwip_threadsafe_background, so they run in an       *)
(*     interrupt: each is atomic for the main thread, and falls between    *)
(*     any two of its accesses to memory.                                  *)
(*                                                                         *)
(* A step of the main thread makes at most one access to a variable that   *)
(* a handler writes, except where a handler in between could not be told   *)
(* from one before or after the step (each such place says so).            *)
(***************************************************************************)
EXTENDS Naturals, FiniteSets, Sequences, SequencesExt

CONSTANTS
    Digit,      \* the characters '0'..'9' of the keypad
    Slates,     \* candidate lists the app may send: numbers as it typed them
    MaxTokens,  \* jsmntok_t tokens[128]
    MaxVotes    \* bound on the votes stored since the tallies were last zeroed

NUL == "nul"
NoKey == "none"
\* The letter keys that do something and "C", which like '*' and '#' does not.
Letter == {"A", "B", "C", "D"}

ASSUME DigitAssumption == Digit \cap (Letter \cup {NUL, NoKey}) = {}
ASSUME SlateAssumption == Slates \subseteq Seq(Seq(Digit))
ASSUME BoundAssumption == MaxTokens \in Nat /\ MaxVotes \in Nat

-----------------------------------------------------------------------------
VARIABLES
    \* globals shared with the interrupt
    current_state, current_vote_buffer, input_pos,
    candidates, votes_blank, votes_null,
    \* what the display holds
    oled,
    \* program counter and registers of the main thread
    pc, key, seen, slot, tmp,
    \* the list was freed and replaced under the loop of lines 264-266
    stale

mainVars == <<pc, key, seen, slot, tmp, oled>>
entryVars == <<current_vote_buffer, input_pos>>
tallyVars == <<candidates, votes_blank, votes_null>>
vars == <<current_state, entryVars, tallyVars, mainVars, stale>>

UrnaState == {"WAITING_FOR_START", "WAITING_FOR_ENABLE", "READY_TO_VOTE",
              "VOTING", "SHOWING_CANDIDATE", "VOTE_CONFIRMED", "ELECTION_ENDED"}

\* The states in which urna_loop scans the keypad.
OpenStates == {"READY_TO_VOTE", "VOTING", "SHOWING_CANDIDATE"}

PcLabel == {"draw", "show", "gate", "scan", "first", "voting", "entry", "digit",
            "advance", "advance2", "put", "put2", "full", "showing", "switch",
            "find", "load", "store", "confirm", "fim", "fimshow", "reset",
            "lock", "correct", "reopen", "release"}

Candidate == [number : Seq(Digit), votes : Nat]

EmptyBuffer == [p \in 0..2 |-> NUL]

\* What strcmp sees in current_vote_buffer: the digits before the first NUL.
Text(buffer) ==
    CASE buffer[0] = NUL -> <<>>
      [] buffer[0] # NUL /\ buffer[1] = NUL -> <<buffer[0]>>
      [] OTHER -> <<buffer[0], buffer[1]>>

\* The loop shared by lines 125-129 and 264-266: the first candidate whose
\* number equals the entry, 0 when there is none ("VOTO NULO").
Matching(text) == SelectInSeq(candidates, LAMBDA c : c.number = text)

\* The counters in the order the result screen lists them.
Tallies == [c \in DOMAIN candidates |-> candidates[c].votes]
              \o <<votes_blank, votes_null>>

VotesStored == FoldSeq(+, 0, Tallies)

\* What update_oled_display draws for the state it has read.
Screen(state) ==
    [screen  |-> state,
     who     |-> IF state = "SHOWING_CANDIDATE"
                    THEN Matching(Text(current_vote_buffer)) ELSE 0,
     tallies |-> IF state = "ELECTION_ENDED" THEN Tallies ELSE <<>>]

TypeOK ==
    /\ current_state \in UrnaState
    /\ current_vote_buffer \in [0..2 -> Digit \cup {NUL}]
    /\ input_pos \in 0..2
    /\ candidates \in Seq(Candidate)
    /\ votes_blank \in Nat
    /\ votes_null \in Nat
    /\ oled \in [screen : UrnaState \cup {"dark"}, who : Nat, tallies : Seq(Nat)]
    /\ pc \in PcLabel
    /\ key \in Digit \cup Letter \cup {NoKey}
    /\ seen \in UrnaState
    /\ slot \in Nat
    /\ tmp \in Nat
    /\ stale \in BOOLEAN

Init ==
    /\ current_state = "WAITING_FOR_START"
    /\ current_vote_buffer = EmptyBuffer
    /\ input_pos = 0
    /\ candidates = <<>>
    /\ votes_blank = 0
    /\ votes_null = 0
    /\ oled = [screen |-> "dark", who |-> 0, tallies |-> <<>>]
    /\ pc = "draw"
    /\ key = NoKey
    /\ seen = "WAITING_FOR_START"
    /\ slot = 0
    /\ tmp = 0
    /\ stale = FALSE

-----------------------------------------------------------------------------
(* The main thread: one pass of urna_loop.  seen, slot and tmp stand for     *)
(* registers; they are zeroed once dead, to merge equal states.              *)

At(here, there) == pc = here /\ pc' = there

\* reset_vote_state: two stores, both repeated by any handler that resets.
ResetVoteState == current_vote_buffer' = EmptyBuffer /\ input_pos' = 0

\* The switch of update_oled_display reads current_state ...
Draw ==
    /\ At("draw", "show") \/ At("fim", "fimshow")
    /\ seen' = current_state
    /\ UNCHANGED <<current_state, entryVars, tallyVars, key, slot, tmp, oled, stale>>

\* Mutant of Show: redraws only when the state has changed.
ShowOnChange ==
    /\ At("show", "gate") \/ At("fimshow", "reset")
    /\ oled' = IF seen = oled.screen THEN oled ELSE Screen(seen)
    /\ seen' = "WAITING_FOR_START"
    /\ UNCHANGED <<current_state, entryVars, tallyVars, key, slot, tmp, stale>>

\* ... and the branch it took fills the frame, which ssd1306_show sends.
Show ==
    /\ At("show", "gate") \/ At("fimshow", "reset")
    /\ oled' = Screen(seen)
    /\ seen' = "WAITING_FOR_START"
    /\ UNCHANGED <<current_state, entryVars, tallyVars, key, slot, tmp, stale>>

\* Mutant of Open: the gate stops only the two waiting states.
OpenUnlessWaiting(state) == state \notin {"WAITING_FOR_START", "WAITING_FOR_ENABLE"}

\* Line 248 reads the state up to three times.  It goes on only when one of
\* the reads finds an open state, and has no other effect, so one read stands
\* for the three.
Open(state) == state \in OpenStates

Gate ==
    /\ pc = "gate"
    /\ pc' = IF Open(current_state) THEN "scan" ELSE "draw"
    /\ UNCHANGED <<current_state, entryVars, tallyVars, key, seen, slot, tmp, oled, stale>>

\* scan_keypad finds no key pressed: the pass ends.
ScanNothing ==
    /\ At("scan", "draw")
    /\ UNCHANGED <<current_state, entryVars, tallyVars, key, seen, slot, tmp, oled, stale>>

\* scan_keypad finds key k, and send_key_to_server posts it (it touches no
\* variable of this module).  Keys that vote stop being pressed at the bound.
ScanKey(k) ==
    /\ At("scan", "first")
    /\ k \in {"A", "D"} => VotesStored < MaxVotes
    /\ key' = k
    /\ UNCHANGED <<current_state, entryVars, tallyVars, seen, slot, tmp, oled, stale>>

FirstDigit ==
    /\ pc = "first"
    /\ pc' = IF current_state = "READY_TO_VOTE" /\ key \in Digit
                THEN "voting" ELSE "entry"
    /\ UNCHANGED <<current_state, entryVars, tallyVars, key, seen, slot, tmp, oled, stale>>

BecomeVoting ==
    /\ At("voting", "entry")
    /\ current_state' = "VOTING"
    /\ UNCHANGED <<entryVars, tallyVars, key, seen, slot, tmp, oled, stale>>

\* Mutant of CheckVoting: any key is typed.
TypeAnyKey ==
    /\ pc = "entry"
    /\ pc' = IF current_state = "VOTING" THEN "digit" ELSE "switch"
    /\ UNCHANGED <<current_state, entryVars, tallyVars, key, seen, slot, tmp, oled, stale>>

CheckVoting ==
    /\ pc = "entry"
    /\ pc' = IF current_state = "VOTING" /\ key \in Digit THEN "digit" ELSE "switch"
    /\ UNCHANGED <<current_state, entryVars, tallyVars, key, seen, slot, tmp, oled, stale>>

\* input_pos is read once, for the test and for the index.  The compiler may
\* order the two stores that follow either way.
HasRoom(pos) == pos < 2

ReadInputPos ==
    /\ pc = "digit"
    /\ IF HasRoom(input_pos)
          THEN pc' \in {"advance", "put"} /\ tmp' = input_pos
          ELSE pc' = "switch" /\ UNCHANGED tmp
    /\ UNCHANGED <<current_state, entryVars, tallyVars, key, seen, slot, oled, stale>>

StoreInputPos ==
    /\ At("advance", "put2") \/ At("advance2", "full")
    /\ input_pos' = tmp + 1
    /\ tmp' = IF pc = "advance2" THEN 0 ELSE tmp
    /\ UNCHANGED <<current_state, current_vote_buffer, tallyVars, key, seen, slot, oled, stale>>

\* Two stores, key and terminator: a reset that falls between them leaves
\* what a reset after them leaves.
StoreDigit ==
    /\ At("put", "advance2") \/ At("put2", "full")
    /\ current_vote_buffer' = [current_vote_buffer EXCEPT ![tmp] = key, ![tmp + 1] = NUL]
    /\ tmp' = IF pc = "put2" THEN 0 ELSE tmp
    /\ UNCHANGED <<current_state, input_pos, tallyVars, key, seen, slot, oled, stale>>

\* After the 100 ms of play_sound, line 258 reads input_pos again.
CheckFull ==
    /\ pc = "full"
    /\ pc' = IF input_pos = 2 THEN "showing" ELSE "switch"
    /\ UNCHANGED <<current_state, entryVars, tallyVars, key, seen, slot, tmp, oled, stale>>

BecomeShowing ==
    /\ At("showing", "switch")
    /\ current_state' = "SHOWING_CANDIDATE"
    /\ UNCHANGED <<entryVars, tallyVars, key, seen, slot, tmp, oled, stale>>

\* Mutant of AfterSwitch: D votes blank wherever the screen offers it (131).
BlankWhereOffered(k, state) ==
    CASE k = "A" /\ state = "SHOWING_CANDIDATE" -> "find"
      [] k = "B" -> "correct"
      [] k = "D" /\ state \in {"READY_TO_VOTE", "SHOWING_CANDIDATE"} -> "load"
      [] OTHER -> "release"

\* The switch of line 261, and the test each case makes on the state.
AfterSwitch(k, state) ==
    CASE k = "A" /\ state = "SHOWING_CANDIDATE" -> "find"
      [] k = "B" -> "correct"
      [] k = "D" /\ state = "READY_TO_VOTE" -> "load"
      [] OTHER -> "release"

SwitchKey ==
    /\ pc = "switch"
    /\ pc' = AfterSwitch(key, current_state)
    /\ UNCHANGED <<current_state, entryVars, tallyVars, key, seen, slot, tmp, oled, stale>>

\* The loop of lines 264-266.  Only /configure changes what it reads; once
\* the list is freed under it, it may stop at any candidate or at none.
Find ==
    /\ At("find", "load")
    /\ IF stale THEN slot' \in 0..Len(candidates)
                ELSE slot' = Matching(Text(current_vote_buffer))
    /\ UNCHANGED <<current_state, entryVars, tallyVars, key, seen, tmp, oled, stale>>

\* votes++ is a load and a store.  The counter is votes_blank for key D, else
\* candidates[slot].votes, or votes_null when no candidate matched.
LoadTally ==
    /\ At("load", "store")
    /\ IF stale /\ slot > 0
          THEN tmp' \in 0..MaxVotes
          ELSE tmp' = CASE key = "D" -> votes_blank
                        [] key # "D" /\ slot = 0 -> votes_null
                        [] OTHER -> candidates[slot].votes
    /\ UNCHANGED <<current_state, entryVars, tallyVars, key, seen, slot, oled, stale>>

StoreBlank ==
    /\ key = "D"
    /\ votes_blank' = tmp + 1
    /\ UNCHANGED <<candidates, votes_null>>

StoreNull ==
    /\ key # "D" /\ slot = 0
    /\ votes_null' = tmp + 1
    /\ UNCHANGED <<candidates, votes_blank>>

StoreCandidate ==
    /\ key # "D" /\ slot \in DOMAIN candidates
    /\ candidates' = [candidates EXCEPT ![slot].votes = tmp + 1]
    /\ UNCHANGED <<votes_blank, votes_null>>

\* The store goes to memory that no longer belongs to the list.
StoreLost ==
    /\ key # "D" /\ slot > 0 /\ stale
    /\ UNCHANGED tallyVars

StoreTally ==
    /\ At("store", "confirm")
    /\ StoreBlank \/ StoreNull \/ StoreCandidate \/ StoreLost
    /\ slot' = 0 /\ tmp' = 0 /\ stale' = FALSE
    /\ UNCHANGED <<current_state, entryVars, key, seen, oled>>

Confirm ==
    /\ At("confirm", "fim")
    /\ current_state' = "VOTE_CONFIRMED"
    /\ UNCHANGED <<entryVars, tallyVars, key, seen, slot, tmp, oled, stale>>

\* Lines 269 and 275 after the 2.5 s of sound and sleep, and line 271.
ResetEntry ==
    /\ At("reset", "lock") \/ At("correct", "reopen")
    /\ ResetVoteState
    /\ UNCHANGED <<current_state, tallyVars, key, seen, slot, tmp, oled, stale>>

\* Mutant of LockedState: the machine opens for the next voter by itself.
UnlockedState == "READY_TO_VOTE"

LockedState == "WAITING_FOR_ENABLE"

Lock ==
    /\ At("lock", "release")
    /\ current_state' = LockedState
    /\ UNCHANGED <<entryVars, tallyVars, key, seen, slot, tmp, oled, stale>>

Reopen ==
    /\ At("reopen", "release")
    /\ current_state' = "READY_TO_VOTE"
    /\ UNCHANGED <<entryVars, tallyVars, key, seen, slot, tmp, oled, stale>>

\* Line 278: the loop ends when the key is let go.
ReleaseKey ==
    /\ At("release", "draw")
    /\ key' = NoKey
    /\ UNCHANGED <<current_state, entryVars, tallyVars, seen, slot, tmp, oled, stale>>

UrnaLoop ==
    \/ Draw \/ Show \/ Gate
    \/ ScanNothing \/ \E k \in Digit \cup Letter : ScanKey(k)
    \/ FirstDigit \/ BecomeVoting \/ CheckVoting
    \/ ReadInputPos \/ StoreInputPos \/ StoreDigit \/ CheckFull \/ BecomeShowing
    \/ SwitchKey \/ Find \/ LoadTally \/ StoreTally \/ Confirm
    \/ ResetEntry \/ Lock \/ Reopen \/ ReleaseKey

-----------------------------------------------------------------------------
(* The commands of tcp_server_recv, each one interrupt.  The answer is OK    *)
(* whatever the command did, so answers are not part of the state.           *)

\* number is char[3]: snprintf keeps two characters.
Stored(number) == SubSeq(number, 1, IF Len(number) < 2 THEN Len(number) ELSE 2)

\* The array, and an object with two keys and two values per candidate.
TokensOf(slate) == 1 + 5 * Len(slate)

\* split: the body arrives in a later segment, so no JSON is found in this one.
Configured(slate, split) ==
    IF split \/ TokensOf(slate) > MaxTokens
       THEN <<>>
       ELSE [c \in DOMAIN slate |-> [number |-> Stored(slate[c]), votes |-> 0]]

\* The old list is freed before the body is looked at.
Configure(slate, split) ==
    /\ candidates' = Configured(slate, split)
    /\ stale' = (stale \/ (key = "A" /\ pc \in {"find", "load", "store"}))
    /\ UNCHANGED <<current_state, entryVars, votes_blank, votes_null, mainVars>>

\* Mutant of Zeroed: /start forgets the tallies of the candidates.
NotZeroed(list) == list

Zeroed(list) == [c \in DOMAIN list |-> [list[c] EXCEPT !.votes = 0]]

\* Mutant of StartState: the first voter needs no /enable.
StartEnabled == "READY_TO_VOTE"

StartState == "WAITING_FOR_ENABLE"

Start ==
    /\ candidates' = Zeroed(candidates)
    /\ votes_blank' = 0
    /\ votes_null' = 0
    /\ ResetVoteState
    /\ current_state' = StartState
    /\ UNCHANGED <<mainVars, stale>>

\* Mutant of Enable: the state is not looked at.
EnableAnyway ==
    /\ ResetVoteState
    /\ current_state' = "READY_TO_VOTE"
    /\ UNCHANGED <<tallyVars, mainVars, stale>>

\* In any other state /enable answers OK and changes nothing: a stutter.
Enable ==
    /\ current_state \in {"WAITING_FOR_ENABLE", "VOTE_CONFIRMED"}
    /\ ResetVoteState
    /\ current_state' = "READY_TO_VOTE"
    /\ UNCHANGED <<tallyVars, mainVars, stale>>

End ==
    /\ current_state' = "ELECTION_ENDED"
    /\ UNCHANGED <<entryVars, tallyVars, mainVars, stale>>

Command ==
    \/ \E slate \in Slates, split \in BOOLEAN : Configure(slate, split)
    \/ Start \/ Enable \/ End

Next == UrnaLoop \/ Command

Spec == Init /\ [][Next]_vars

=============================================================================
