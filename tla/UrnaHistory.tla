---------------------------- MODULE UrnaHistory -----------------------------
(***************************************************************************)
(* What the voting machine owes the people who use it.  The properties of  *)
(* Urna.tla speak of the past (who allowed this vote? what was on the      *)
(* screen when it was cast?), so this module adds history variables to its *)
(* actions.  They are written here and read only by properties: no action  *)
(* of Urna is restricted by them.                                          *)
(***************************************************************************)
EXTENDS Urna

VARIABLES
    commanded,  \* /start, /enable or /end was handled since the last vote
    licence,    \* /enable was accepted since the last vote, /start or /end
    clean,      \* no command has raced with the handling of a key, see Calm
    ballots     \* the votes the voters saw themselves cast since /start

histVars == <<commanded, licence, clean, ballots>>
allVars == <<vars, histVars>>

NoBallots == [blank |-> 0, null |-> 0, for |-> <<>>]

\* The main thread is not between the gate and the release of the key: a
\* command that comes now meets no assignment it could be lost to.
Calm == pc \in {"draw", "show", "gate", "release"}

\* The ballot as the voter means it: the key, and for key A what the display
\* is showing, not what the firmware is about to count.
Add(b) ==
    CASE key = "D" -> [b EXCEPT !.blank = @ + 1]
      [] key # "D" /\ oled.who = 0 -> [b EXCEPT !.null = @ + 1]
      [] OTHER -> [b EXCEPT !.for[oled.who] = @ + 1]

HistoryTypeOK ==
    /\ commanded \in BOOLEAN
    /\ licence \in BOOLEAN
    /\ clean \in BOOLEAN
    /\ ballots \in [blank : Nat, null : Nat, for : Seq(Nat)]

HInit ==
    /\ Init
    /\ commanded = FALSE
    /\ licence = FALSE
    /\ clean = TRUE
    /\ ballots = NoBallots

-----------------------------------------------------------------------------
HVote ==
    /\ StoreTally
    /\ commanded' = FALSE
    /\ licence' = FALSE
    /\ ballots' = IF clean THEN Add(ballots) ELSE NoBallots
    /\ UNCHANGED clean

HConfigure ==
    /\ \E slate \in Slates, split \in BOOLEAN : Configure(slate, split)
    /\ clean' = FALSE
    /\ ballots' = NoBallots
    /\ UNCHANGED <<commanded, licence>>

HStart ==
    /\ Start
    /\ commanded' = TRUE
    /\ licence' = FALSE
    /\ clean' = Calm
    /\ ballots' = IF Calm THEN [NoBallots EXCEPT !.for = [c \in DOMAIN candidates |-> 0]]
                          ELSE NoBallots

HEnable ==
    /\ Enable
    /\ commanded' = TRUE
    /\ licence' = TRUE
    /\ UNCHANGED <<clean, ballots>>

HEnd ==
    /\ End
    /\ commanded' = TRUE
    /\ licence' = FALSE
    /\ clean' = (clean /\ Calm)
    /\ ballots' = IF clean /\ Calm THEN ballots ELSE NoBallots

\* The steps of the main thread that store no vote.
HQuiet ==
    /\ pc # "store"
    /\ UrnaLoop
    /\ UNCHANGED histVars

HCommand == HConfigure \/ HStart \/ HEnable \/ HEnd

HNext == HVote \/ HQuiet \/ HCommand

HSpec == HInit /\ [][HNext]_allVars

\* The main thread always has a next instruction, and keys are let go in the
\* end.  Nobody has to press a key or send a command.
FairSpec == HSpec /\ WF_allVars(HVote \/ HQuiet)

-----------------------------------------------------------------------------
\* Between any two votes the machine handled a command of the mesario, in
\* every interleaving: one command never yields two votes (RNF-3, RF-6).
VoteNeedsCommand == pc = "store" => commanded

\* While no command has raced with a key, each vote was allowed by a /enable
\* of its own, given after the last vote and after the last /start (RF-1).
VoteNeedsEnable == clean /\ pc = "store" => licence

\* While no command has raced with a key, each tally is the number of ballots
\* whose voters saw that choice on the display when they confirmed it: none
\* is lost, counted twice or given to another candidate (RF-4, RF-5).
TallyIsWhatVotersSaw ==
    clean =>
        /\ votes_blank = ballots.blank
        /\ votes_null = ballots.null
        /\ \A c \in DOMAIN ballots.for : candidates[c].votes = ballots.for[c]

\* While no command has raced with a key, after /end only /start leaves the
\* final state or changes a tally (RF-11).
FrozenAfterEnd ==
    [][clean /\ clean' /\ current_state = "ELECTION_ENDED" /\ ~HStart
         => UNCHANGED <<current_state, tallyVars>>]_allVars

\* While no command has raced with a key, /end reaches the display: the screen
\* comes to show the tallies as they are, unless another command comes first.
\* The main thread is no excuse: while clean it does not leave the final state
\* (FrozenAfterEnd), and it never makes clean FALSE (RF-11).
ResultIsShown ==
    clean /\ current_state = "ELECTION_ENDED" ~>
        \/ ~clean \/ current_state # "ELECTION_ENDED"
        \/ oled.screen = "ELECTION_ENDED" /\ oled.tallies = Tallies

-----------------------------------------------------------------------------
(* What the documents promise and the code does not keep.                    *)

\* RF-1, RF-9, RF-11: what a command has decided stands until another command
\* or a voter's key changes it.  The main thread never ends an election's end,
\* opens a machine that waits, or closes one that was enabled.  Lines 253, 258
\* and 268-275 assign the state without looking at what a command has set.
CommandsStand ==
    [][~HCommand =>
        /\ current_state = "ELECTION_ENDED" => current_state' = "ELECTION_ENDED"
        /\ current_state \in {"WAITING_FOR_START", "WAITING_FOR_ENABLE"}
              => current_state' \notin OpenStates
        /\ current_state = "READY_TO_VOTE" => current_state' # "WAITING_FOR_ENABLE"]_allVars

=============================================================================
