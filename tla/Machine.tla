------------------------------ MODULE Machine -------------------------------
(***************************************************************************)
(* The voting machine as the app can see it: which list it holds, whether  *)
(* it takes votes, and how many it has counted.  The main thread handles   *)
(* a key in several steps and assigns current_state over whatever a        *)
(* command has set meanwhile (lines 253, 258 and 268-275 of                *)
(* urna_eletronica.c), so a command that comes inside the handling may be  *)
(* lost.  Urna.tla in every interleaving does what this module allows.     *)
(***************************************************************************)
EXTENDS Naturals

CONSTANTS
    Lists,  \* candidate lists that /configure may bring
    None,   \* the empty list
    Counts  \* how many votes the machine may count

VARIABLES
    phase,  \* current_state: "idle", "waiting", "open" or "ended"
    list,   \* candidates
    votes,  \* all tallies together
    key,    \* "held": between the gate and the vote; "voted": from the vote
            \* to the assignment that locks the machine; else "none"
    clean   \* no command has raced with a key since /start, nor has the list
            \* been replaced

machineVars == <<phase, list, votes, key, clean>>

Init == phase = "idle" /\ list = None /\ votes = 0 /\ key = "none" /\ clean = TRUE

-----------------------------------------------------------------------------
(* The main thread.                                                          *)

Press ==
    /\ key = "none" /\ phase = "open"
    /\ key' = "held"
    /\ UNCHANGED <<phase, list, votes, clean>>

\* A digit, or the correction that ends the handling.
Reopen ==
    /\ key = "held" /\ key' \in {"held", "none"}
    /\ phase' = "open"
    /\ UNCHANGED <<list, votes, clean>>

\* One vote more; but what is stored was loaded earlier, and a command may
\* have zeroed the tally since, or freed the list it is in.
Count ==
    /\ key = "held" /\ key' = "voted"
    /\ votes' \in Counts
    /\ IF clean THEN votes' = votes + 1 ELSE votes' >= votes
    /\ UNCHANGED <<phase, list, clean>>

\* VOTE_CONFIRMED, and 2.5 s later WAITING_FOR_ENABLE: /enable opens both.
Lock ==
    /\ key = "voted" /\ key' \in {"voted", "none"}
    /\ phase' = "waiting"
    /\ UNCHANGED <<list, votes, clean>>

\* No key was found, or it did nothing.
Release ==
    /\ key = "held" /\ key' = "none"
    /\ UNCHANGED <<phase, list, votes, clean>>

Loop == Press \/ Reopen \/ Count \/ Lock \/ Release

-----------------------------------------------------------------------------
(* The commands.  Each is answered OK, whatever it did.                      *)

\* The list that came, or none: when its body is not in the segment of the
\* request, or has too many tokens.  Of the tallies the blank and null votes
\* remain; without a list there are no others.
Configure(l) ==
    /\ list' \in {l, None}
    /\ IF list = None THEN votes' = votes ELSE votes' \in 0..votes
    /\ clean' = FALSE
    /\ UNCHANGED <<phase, key>>

Start ==
    /\ phase' = "waiting" /\ votes' = 0
    /\ clean' = (key = "none")
    /\ UNCHANGED <<list, key>>

Enable ==
    /\ phase' = IF phase = "waiting" THEN "open" ELSE phase
    /\ UNCHANGED <<list, votes, key, clean>>

End ==
    /\ phase' = "ended"
    /\ clean' = (clean /\ key = "none")
    /\ UNCHANGED <<list, votes, key>>

Next == Loop \/ Start \/ Enable \/ End \/ \E l \in Lists : Configure(l)

Spec == Init /\ [][Next]_machineVars

=============================================================================
