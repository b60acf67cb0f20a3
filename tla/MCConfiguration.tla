--------------------------- MODULE MCConfiguration --------------------------
(***************************************************************************)
(* Lists around the limits of arrays of 4 and 3 bytes and of 11 tokens.    *)
(***************************************************************************)
EXTENDS Configuration

Plain == [name |-> <<"x">>, number |-> <<"1", "2">>]

\* A quote, a bracket, an accent and a backslash that fit; a name too long.
FittingNames == {<<"}", ",", "[">>, <<Quote, "x">>, <<"x", "e-acute">>, <<Backslash>>,
                 <<"x", "x", "x", "x">>}

\* Names whose third byte is half of an escape or of a letter.
HalvedNames == {<<"x", "x", Quote>>, <<"x", "x", "e-acute">>}

Numbers == {<<"1">>, <<"1", "2", "3">>}

Candidates(names) == [name : names, number : Numbers]

\* One candidate; two, which take all the tokens; three, which are too many.
SomeLists(names) ==
    LET cs == Candidates(names) IN
    {<<c>> : c \in cs} \cup {<<c, Plain>> : c \in cs} \cup {<<Plain, c>> : c \in cs}
    \cup {<<Plain, Plain, Plain>>}

WithHalves == SomeLists(FittingNames \cup HalvedNames)

TypedChars == {"x", "e-acute", "1", "2", "3", "}", ",", "[", Quote, Backslash}

AccentBytes == {"C3", "A9"}

=============================================================================
