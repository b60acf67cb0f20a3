---------------------------- MODULE Configuration ---------------------------
(***************************************************************************)
(* The two documents the app and the voting machine exchange: the list of  *)
(* candidates in the body of POST /configure (sendConfiguration in App.js, *)
(* read by tcp_server_recv with jsmn), and the status that answers         *)
(* GET /status (create_status_json, read by JSON.parse in getStatus).      *)
(*                                                                         *)
(* A text is the sequence of its bytes, with two liberties: the literal    *)
(* names "name" and "number" are one symbol each, and of the status only   *)
(* the candidates are kept.  What Urna.tla says of /configure in one       *)
(* operator, Configured, is worked out here from the bytes.                *)
(***************************************************************************)
EXTENDS Jsmn, SequencesExt

CONSTANTS
    Chars,       \* characters that can be typed, none of them a control character
    Lists,       \* candidate lists typed into the app
    NameSize,    \* char name[16]
    NumberSize,  \* char number[3]
    JsonSize,    \* char candidates_json[1024]
    MaxVotes     \* bound on the votes of a candidate, below 10: one digit

\* What the two inputs of the app hold.
Candidate == [name : Seq(Chars), number : Seq(Chars)]

ASSUME ListsAssumption == Lists \subseteq Seq(Candidate)

ASSUME SizesAssumption ==
    NameSize \in Nat \ {0} /\ NumberSize \in Nat \ {0} /\ MaxVotes \in Nat

VARIABLES
    candidates,  \* the list of the machine
    answer,      \* what getStatus returned last
    overrun,     \* strcat has written past candidates_json
    sent,        \* history: the list of the last /configure ...
    whole        \* ... and whether all of its body came with the request

vars == <<candidates, answer, overrun, sent, whole>>

\* No status was asked for since the last change; getStatus failed; its data.
Nothing == [kind |-> "nothing", list |-> <<>>]
Null == [kind |-> "null", list |-> <<>>]
Data(list) == [kind |-> "data", list |-> list]

-----------------------------------------------------------------------------
(* JSON.stringify and JSON.parse of the phone.  An accented letter is two    *)
(* bytes; one without its second byte is read as U+FFFD.                     *)

Replacement == "U+FFFD"
Half == "half an escape"

Bytes(char) ==
    CASE char \in {Quote, Backslash} -> <<Backslash, char>>
      [] char = "e-acute" -> <<"C3", "A9">>
      [] OTHER -> <<char>>

\* The bytes of an accented letter and the half escape are not characters.
ASSUME CharsAssumption == Chars \cap {"C3", "A9", Half} = {}

Encoded(typed) == FlattenSeq([i \in DOMAIN typed |-> Bytes(typed[i])])

\* The characters of the inside of a JSON string from its i-th byte on.
Decoded(bytes) ==
    LET from[i \in 1..(Len(bytes) + 1)] ==
            IF i > Len(bytes) THEN <<>>
            ELSE CASE bytes[i] = Backslash /\ i < Len(bytes) ->
                          <<bytes[i + 1]>> \o from[i + 2]
                   [] bytes[i] = Backslash /\ i = Len(bytes) -> <<Half>>
                   [] bytes[i] = "C3" /\ i < Len(bytes) -> <<"e-acute">> \o from[i + 2]
                   [] bytes[i] = "C3" /\ i = Len(bytes) -> <<Replacement>>
                   [] OTHER -> <<bytes[i]>> \o from[i + 1]
    IN  from[1]

\* The string ends in half an escape: its closing quote is taken for part of
\* it, and JSON.parse fails at the bare word that follows the next quote.
IsBroken(bytes) == bytes # <<>> /\ Last(Decoded(bytes)) = Half

Object(c) ==
    <<"{", Quote, "name", Quote, ":", Quote>> \o Encoded(c.name)
    \o <<Quote, ",", Quote, "number", Quote, ":", Quote>> \o Encoded(c.number)
    \o <<Quote, "}">>

Body(list) ==
    <<"[">> \o FlattenSeq([i \in DOMAIN list |->
                   IF i = 1 THEN Object(list[i]) ELSE <<",">> \o Object(list[i])])
    \o <<"]">>

-----------------------------------------------------------------------------
(* tcp_server_recv, POST /configure.                                         *)

\* Mutant of Cut: the size is taken for the room without the terminator.
CutAtSize(text, size) == SubSeq(text, 1, Min({Len(text), size}))

\* snprintf(field, size, "%.*s", ...)
Cut(text, size) == SubSeq(text, 1, Min({Len(text), size - 1}))

\* The token of the j-th key of the i-th candidate.
Key(i, j) == 5 * (i - 1) + 1 + 2 * j

\* jsoneq
JsonEq(text, token, s) == token.type = "string" /\ Contents(text, token) = <<s>>

\* A field no pair of the candidate names is whatever malloc returned.
Garbage == <<"garbage">>

Field(text, tokens, i, s, size) ==
    LET pairs == {j \in 1..2 : Key(i, j) < Len(tokens) /\ JsonEq(text, tokens[Key(i, j)], s)}
    IN  IF pairs = {} THEN Garbage
        ELSE Cut(Contents(text, tokens[Key(i, Max(pairs)) + 1]), size)

\* The list that lines 336-371 leave for a body: none, if it is not an array.
Configured(text) ==
    LET p == Parse(text)
    IN  IF Result(p) > 0 /\ p.tokens[1].type = "array"
           THEN [i \in 1..p.tokens[1].size |->
                    [name |-> Field(text, p.tokens, i, "name", NameSize),
                     number |-> Field(text, p.tokens, i, "number", NumberSize),
                     votes |-> 0]]
           ELSE <<>>

\* The phone posts list, and the first n bytes of the body come in the segment
\* of the request.  Those that come later are a request nobody recognizes.
Configure(list, n) ==
    /\ ~overrun
    /\ candidates' = Configured(SubSeq(Body(list), 1, n))
    /\ answer' = Nothing
    /\ sent' = list
    /\ whole' = (n = Len(Body(list)))
    /\ UNCHANGED overrun

\* The main thread counts a vote (UrnaLoop of Urna).
Vote(i) ==
    /\ ~overrun
    /\ candidates[i].votes < MaxVotes
    /\ candidates' = [candidates EXCEPT ![i].votes = @ + 1]
    /\ answer' = Nothing
    /\ UNCHANGED <<overrun, sent, whole>>

-----------------------------------------------------------------------------
(* GET /status.                                                              *)

\* {"name":"","number":"","votes":0} and the comma that follows it.
Frame == 34

\* What strcat has written, without the terminator.
Written == FoldSeq(LAMBDA c, n : Frame + Len(c.name) + Len(c.number) + n, -1, candidates)

\* Mutant of Printed: the arguments of sprintf in the order of the struct.
PrintedInStructOrder(c) == [name |-> c.number, number |-> c.name, votes |-> c.votes]

\* The three fields sprintf puts between the quotes.
Printed(c) == [name |-> c.name, number |-> c.number, votes |-> c.votes]

\* getStatus: the data, or null when JSON.parse throws.
Read ==
    LET shown == [i \in DOMAIN candidates |-> Printed(candidates[i])] IN
    IF \E c \in Range(shown) : IsBroken(c.name) \/ IsBroken(c.number)
       THEN Null
       ELSE Data([i \in DOMAIN shown |-> [shown[i] EXCEPT !.name = Decoded(@),
                                                         !.number = Decoded(@)]])

Status ==
    /\ ~overrun
    /\ Written < JsonSize
    /\ answer' = Read
    /\ UNCHANGED <<candidates, overrun, sent, whole>>

\* The text is longer than the array: what happens next is not defined.
StatusOverrun ==
    /\ ~overrun
    /\ Written >= JsonSize
    /\ overrun' = TRUE
    /\ UNCHANGED <<candidates, answer, sent, whole>>

-----------------------------------------------------------------------------
Init ==
    /\ candidates = <<>>
    /\ answer = Nothing
    /\ overrun = FALSE
    /\ sent = <<>>
    /\ whole = FALSE

Next ==
    \/ \E list \in Lists : \E n \in 0..Len(Body(list)) : Configure(list, n)
    \/ \E i \in DOMAIN candidates : Vote(i)
    \/ Status
    \/ StatusOverrun

Spec == Init /\ [][Next]_vars

\* Between two requests the answer, if there is one, lists as many candidates
\* as the machine, and no field outgrows its array.
TypeOK ==
    /\ answer.kind \in {"nothing", "null", "data"}
    /\ answer.kind = "data" => Len(answer.list) = Len(candidates)
    /\ \A i \in DOMAIN candidates :
          /\ Len(candidates[i].name) < NameSize
          /\ Len(candidates[i].number) < NumberSize
          /\ candidates[i].votes \in 0..MaxVotes
    /\ overrun \in BOOLEAN /\ whole \in BOOLEAN

\* The array, and an object with two keys and two values per candidate: what
\* Urna.tla takes the cost of a list to be.
TokensOf(list) == 1 + 5 * Len(list)

\* As much of text as a char array of this size can hold.
Keeps(field, text, size) ==
    IsPrefix(field, text) /\ (Len(field) = size - 1 \/ field = text)

\* A list comes through entire or not at all: wherever the request is cut, and
\* whatever the names hold, the machine has either every candidate, each with
\* its own name and number, or none; and it has them when the whole body came
\* and the tokens suffice (tcp_server_recv with jsmn_parse).
ListIsAllOrNothing ==
    IF whole /\ TokensOf(sent) <= NumTokens
       THEN /\ Len(candidates) = Len(sent)
            /\ \A i \in DOMAIN sent :
                  /\ Keeps(candidates[i].name, Encoded(sent[i].name), NameSize)
                  /\ Keeps(candidates[i].number, Encoded(sent[i].number), NumberSize)
       ELSE candidates = <<>>

Fit(c) == Len(Encoded(c.name)) < NameSize /\ Len(Encoded(c.number)) < NumberSize

\* What the mesario typed is what the panel shows: when every name and number
\* fits its array, the status reads back as the list that was sent, with the
\* votes, quotes and accents included (sendConfiguration to getStatus).
StatusReadsBack ==
    answer # Nothing /\ candidates # <<>> /\ (\A c \in Range(sent) : Fit(c)) =>
        answer = Data([i \in DOMAIN sent |->
                          [name |-> sent[i].name, number |-> sent[i].number,
                           votes |-> candidates[i].votes]])

\* Line 323: "API JSON para status".  The status is always JSON.
StatusIsJson == answer # Null

=============================================================================
