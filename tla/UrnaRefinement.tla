--------------------------- MODULE UrnaRefinement ---------------------------
(***************************************************************************)
(* The firmware of Urna, seen by those who use it.                         *)
(*                                                                         *)
(* A voter sees a BallotBox.  A vote takes place where its counter is      *)
(* stored; from there to the end of the pass the machine is already        *)
(* waiting, whatever current_state says.  The box is spoilt while clean is *)
(* FALSE: a command has raced with a key or the list was changed.          *)
(*                                                                         *)
(* The app sees a Machine, races included: current_state as it is, and the *)
(* sum of the counters.                                                    *)
(***************************************************************************)
EXTENDS UrnaHistory

-----------------------------------------------------------------------------
(* The ballot box.                                                           *)

\* The vote is stored, and line 269 or 275 has not locked the machine yet.
Counted == pc \in {"confirm", "fim", "fimshow", "reset", "lock"}

BoxPhase ==
    CASE ~clean -> "spoilt"
      [] clean /\ Counted -> "waiting"
      [] clean /\ ~Counted /\ current_state = "WAITING_FOR_START" -> "idle"
      [] clean /\ ~Counted /\ current_state = "ELECTION_ENDED" -> "ended"
      [] clean /\ ~Counted /\ current_state \in OpenStates -> "open"
      [] OTHER -> "waiting"

BoxTyped == IF BoxPhase = "open" THEN Text(current_vote_buffer) ELSE <<>>

\* One column of the candidate list.
Numbers(l) == [c \in DOMAIN l |-> l[c].number]
Votes(l) == [c \in DOMAIN l |-> l[c].votes]

BoxList == IF clean THEN Numbers(candidates) ELSE <<>>
BoxVotes == IF clean THEN Votes(candidates) ELSE <<>>
BoxBlank == IF clean THEN votes_blank ELSE 0
BoxNull == IF clean THEN votes_null ELSE 0

Box == INSTANCE BallotBox WITH
          phase <- BoxPhase, list <- BoxList, typed <- BoxTyped,
          votes <- BoxVotes, blank <- BoxBlank, null <- BoxNull

\* The firmware, in every interleaving, does what a ballot box does: each step
\* is a step of the box or none.
BoxSpec == Box!Spec

-----------------------------------------------------------------------------
(* The machine of the app.                                                   *)

SeenPhase ==
    CASE current_state = "WAITING_FOR_START" -> "idle"
      [] current_state \in OpenStates -> "open"
      [] current_state = "ELECTION_ENDED" -> "ended"
      [] OTHER -> "waiting"

SeenKey ==
    CASE Calm -> "none"
      [] Counted -> "voted"
      [] OTHER -> "held"

\* All tallies of a list.
Total(l) ==
    LET sum[n \in 0..Len(l)] == IF n = 0 THEN 0 ELSE sum[n - 1] + l[n].votes
    IN  sum[Len(l)]

SeenVotes == Total(candidates) + votes_blank + votes_null

Seen == INSTANCE Machine WITH
          Lists <- {Numbers(Configured(slate, FALSE)) : slate \in Slates},
          None <- <<>>, Counts <- Nat,
          phase <- SeenPhase, list <- Numbers(candidates), votes <- SeenVotes,
          key <- SeenKey

\* The firmware, in every interleaving, does what the machine does that the app
\* is modelled with: what a command or a key may change, and what it may undo.
MachineSpec == Seen!Spec

=============================================================================
