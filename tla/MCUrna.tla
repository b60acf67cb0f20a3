------------------------------- MODULE MCUrna -------------------------------
(***************************************************************************)
(* Small instances of the voting machine for TLC.                          *)
(***************************************************************************)
EXTENDS UrnaRefinement

TwoDigits == {"1", "2"}

\* With MaxTokens = 11: two candidates fit (11 tokens), three do not (16), and
\* the numbers of the last list are the same to the machine.
FitOrNot ==
    {<< <<"1", "2">>, <<"2", "1">> >>,
     << <<"1", "1">>, <<"1", "2">>, <<"2", "1">> >>,
     << <<"1", "2", "1">>, <<"1", "2", "2">> >>}

OneCandidate == {<< <<"1", "2">> >>}

=============================================================================
