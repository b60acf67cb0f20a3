-------------------------------- MODULE Jsmn --------------------------------
(***************************************************************************)
(* The JSON tokenizer jsmn.h, built as the firmware builds it: with a      *)
(* token array, neither JSMN_STRICT nor JSMN_PARENT_LINKS.                 *)
(*                                                                         *)
(* jsmn_parse is one pass over the text.  Step is what it does with one    *)
(* character, and p.mode names the loop it is in: its own, that of         *)
(* jsmn_parse_primitive, or that of jsmn_parse_string.  Offsets are those  *)
(* of the source, from 0; token indices count from 1, and 0 stands for the *)
(* -1 of toksuper.                                                         *)
(***************************************************************************)
EXTENDS Integers, Sequences, FiniteSetsExt

CONSTANTS
    NumTokens,  \* the num_tokens argument: jsmntok_t tokens[128]
    NotAscii    \* bytes below 32 or above 126 (space, tab, CR and LF apart)

ASSUME NumTokensAssumption == NumTokens \in Nat \ {0}

NOMEM == -1
INVAL == -2
PART == -3

Quote == "\""
Backslash == "\\"
Space == {" ", "\t", "\r", "\n"}
Escapable == {Quote, "/", Backslash, "b", "f", "r", "n", "t"}
Hex == {"0", "1", "2", "3", "4", "5", "6", "7", "8", "9",
        "A", "B", "C", "D", "E", "F", "a", "b", "c", "d", "e", "f"}

Unset == -1

\* jsmn_init, and an empty array of tokens.
Fresh == [pos |-> 0, tokens |-> <<>>, toksuper |-> 0, count |-> 0,
          mode |-> "scan", start |-> 0, hex |-> 0, error |-> 0]

Fail(p, error) == [p EXCEPT !.error = error]

\* The tokens whose bracket has not been closed.
Unclosed(p) == {i \in DOMAIN p.tokens : p.tokens[i].end = Unset}

Innermost(p) == Max(Unclosed(p))

\* tokens[toksuper].size++, when there is one.
Grown(p) == IF p.toksuper = 0 THEN p.tokens
            ELSE [p.tokens EXCEPT ![p.toksuper].size = @ + 1]

\* jsmn_alloc_token and jsmn_fill_token; the caller counts the token.
AddToken(p, type, start, end) ==
    IF Len(p.tokens) >= NumTokens
       THEN Fail(p, NOMEM)
       ELSE [p EXCEPT !.tokens = Append(Grown(p), [type |-> type, start |-> start,
                                                    end |-> end, size |-> 0]),
                      !.count = @ + 1,
                      !.mode = "scan"]

\* '{' and '[': the new token becomes the superior one.
OpenBracket(p, type) ==
    LET q == AddToken(p, type, p.pos, Unset) IN
    IF q.error # 0 THEN q ELSE [q EXCEPT !.toksuper = Len(q.tokens)]

\* '}' and ']': the innermost unclosed token must be of this type.
CloseBracket(p, type) ==
    IF Unclosed(p) = {} \/ p.tokens[Innermost(p)].type # type
       THEN Fail(p, INVAL)
       ELSE LET i == Innermost(p) IN
            [p EXCEPT !.tokens[i].end = p.pos + 1,
                      !.toksuper = Max({0} \cup (Unclosed(p) \ {i}))]

\* ',' after a pair: back from the key to the object or array it is in.
Comma(p) ==
    IF /\ p.toksuper # 0
       /\ p.tokens[p.toksuper].type \notin {"array", "object"}
       /\ Unclosed(p) # {}
       THEN [p EXCEPT !.toksuper = Innermost(p)]
       ELSE p

\* jsmn_parse_string: the loop body, after "\\", and inside "\uXXXX".
InString(p, c) ==
    CASE c = Quote -> AddToken(p, "string", p.start + 1, p.pos)
      [] c = Backslash -> [p EXCEPT !.mode = "escape"]
      [] OTHER -> p

InEscape(p, c) ==
    CASE c \in Escapable -> [p EXCEPT !.mode = "string"]
      [] c = "u" -> [p EXCEPT !.mode = "unicode", !.hex = 0]
      [] OTHER -> Fail(p, INVAL)

InUnicode(p, c) ==
    IF c \notin Hex THEN Fail(p, INVAL)
    ELSE [p EXCEPT !.hex = @ + 1,
                   !.mode = IF p.hex = 3 THEN "string" ELSE "unicode"]

\* jsmn_parse_primitive: the character that ends one is left to the caller.
EndsPrimitive == Space \cup {":", ",", "]", "}"}

EndPrimitive(p) == AddToken(p, "primitive", p.start, p.pos)

InPrimitive(p, c) == IF c \in NotAscii THEN Fail(p, INVAL) ELSE p

\* The switch of jsmn_parse.
Scan(p, c) ==
    CASE c = "{" -> OpenBracket(p, "object")
      [] c = "[" -> OpenBracket(p, "array")
      [] c = "}" -> CloseBracket(p, "object")
      [] c = "]" -> CloseBracket(p, "array")
      [] c = Quote -> [p EXCEPT !.mode = "string", !.start = p.pos]
      [] c \in Space -> p
      [] c = ":" -> [p EXCEPT !.toksuper = Len(p.tokens)]
      [] c = "," -> Comma(p)
      [] OTHER -> InPrimitive([p EXCEPT !.mode = "primitive", !.start = p.pos], c)

Consume(p, c) ==
    CASE p.mode = "string" -> InString(p, c)
      [] p.mode = "escape" -> InEscape(p, c)
      [] p.mode = "unicode" -> InUnicode(p, c)
      [] p.mode = "primitive" /\ c \notin EndsPrimitive -> InPrimitive(p, c)
      [] p.mode = "primitive" /\ c \in EndsPrimitive ->
            LET q == EndPrimitive(p) IN IF q.error # 0 THEN q ELSE Scan(q, c)
      [] OTHER -> Scan(p, c)

Step(p, c) == IF p.error # 0 THEN p ELSE [Consume(p, c) EXCEPT !.pos = p.pos + 1]

\* Mutant of Finish: the check of lines 442-449 for brackets left open.
FinishUnchecked(p) ==
    CASE p.error # 0 -> p
      [] p.error = 0 /\ p.mode = "primitive" -> EndPrimitive(p)
      [] p.error = 0 /\ p.mode \in {"string", "escape", "unicode"} -> Fail(p, PART)
      [] OTHER -> p

\* The end of the text: it ends a primitive, and nothing may be left open.
Finish(p) ==
    LET q == IF p.error = 0 /\ p.mode = "primitive" THEN EndPrimitive(p) ELSE p IN
    IF q.error = 0 /\ (q.mode # "scan" \/ Unclosed(q) # {}) THEN Fail(q, PART) ELSE q

\* jsmn_parse: the parser after the whole text.
Parse(text) ==
    LET after[n \in 0..Len(text)] ==
            IF n = 0 THEN Fresh ELSE Step(after[n - 1], text[n])
    IN  Finish(after[Len(text)])

\* What jsmn_parse returns: the number of tokens, or an error.
Result(p) == IF p.error # 0 THEN p.error ELSE p.count

\* The characters a token stands for.
Contents(text, token) == SubSeq(text, token.start + 1, token.end)

=============================================================================
