----------------------------- MODULE BallotBox ------------------------------
(***************************************************************************)
(* What the voting machine promises: a ballot box that takes one vote for  *)
(* each time it is opened, from a voter who types a number, and counts it  *)
(* for the first candidate of that number.                                 *)
(*                                                                         *)
(* The promise holds until a command of the mesario comes at a bad time,   *)
(* or a new list: the box is then spoilt until the next start.             *)
(***************************************************************************)
EXTENDS Naturals, Sequences

CONSTANT Digit

VARIABLES
    phase,              \* "idle", "waiting", "open", "ended" or "spoilt"
    list,               \* the candidates' numbers, sequences of digits
    typed,              \* the digits that the voter has typed, two at most
    votes, blank, null  \* the tallies; votes has one for each candidate

boxVars == <<phase, list, typed, votes, blank, null>>

Empty(l) ==
    /\ list = l /\ typed = <<>>
    /\ votes = [c \in DOMAIN l |-> 0] /\ blank = 0 /\ null = 0

Init == phase = "idle" /\ Empty(<<>>)

\* All tallies are zero, and the list is the one last sent.
Start ==
    /\ phase' = "waiting"
    /\ IF phase = "spoilt" THEN list' \in Seq(Seq(Digit)) ELSE list' = list
    /\ Empty(list)'

Enable ==
    /\ phase = "waiting" /\ phase' = "open"
    /\ UNCHANGED <<list, typed, votes, blank, null>>

Type(digit) ==
    /\ phase = "open" /\ Len(typed) < 2
    /\ typed' = Append(typed, digit)
    /\ UNCHANGED <<phase, list, votes, blank, null>>

Correct ==
    /\ phase = "open" /\ typed' = <<>>
    /\ UNCHANGED <<phase, list, votes, blank, null>>

\* A vote closes the box.
Close == phase = "open" /\ phase' = "waiting" /\ typed' = <<>> /\ UNCHANGED list

VoteFor(c) ==
    /\ Len(typed) = 2
    /\ list[c] = typed /\ \A b \in DOMAIN list : list[b] = typed => c <= b
    /\ Close
    /\ votes' = [votes EXCEPT ![c] = @ + 1]
    /\ UNCHANGED <<blank, null>>

VoteNull ==
    /\ Len(typed) = 2 /\ \A c \in DOMAIN list : list[c] # typed
    /\ Close
    /\ null' = null + 1
    /\ UNCHANGED <<votes, blank>>

VoteBlank ==
    /\ typed = <<>>
    /\ Close
    /\ blank' = blank + 1
    /\ UNCHANGED <<votes, null>>

\* The tallies of an ended election do not change any more.
End ==
    /\ phase # "spoilt" /\ phase' = "ended" /\ typed' = <<>>
    /\ UNCHANGED <<list, votes, blank, null>>

Spoil == phase' = "spoilt" /\ Empty(<<>>)'

Next ==
    \/ Start \/ Enable \/ End \/ Spoil
    \/ Correct \/ \E digit \in Digit : Type(digit)
    \/ VoteBlank \/ VoteNull \/ \E c \in DOMAIN list : VoteFor(c)

Spec == Init /\ [][Next]_boxVars

=============================================================================
