------------------------------ MODULE JsmnProof ------------------------------
(***************************************************************************)
(* What jsmn_parse makes of every text, and of a text built piece by       *)
(* piece.                                                                  *)
(*                                                                         *)
(* The first half follows a parser through any text: every token lies in   *)
(* the part already read (Sound), no token is lost or moved (Extends).     *)
(* The second follows it through an array of objects of strings: Doc says  *)
(* which brackets are open after a prefix of the text, Stored that a       *)
(* string has its token, Full that the tokens ran out.                     *)
(***************************************************************************)
EXTENDS Jsmn, SequencesExt, TLAPS, SequenceTheorems, WellFoundedInduction

-----------------------------------------------------------------------------
\* A set of natural numbers that is not empty has a least element.
LEMMA Least ==
    ASSUME NEW S \in SUBSET Nat, S # {}
    PROVE  \E m \in S : \A j \in S : m <= j
<1> DEFINE Less == {ss \in Nat \X Nat : ss[1] < ss[2]}
<1>1. OpToRel(<, Nat) = Less
  BY DEF OpToRel
<1> HIDE DEF Less
<1>2. IsWellFoundedOn(Less, Nat)
  BY <1>1, NatLessThanWellFounded, Zenon
<1>3. PICK m \in S : \A j \in S : <<j, m>> \notin Less
  BY <1>2, WFMin, Zenon
<1>4. ASSUME NEW j \in S
      PROVE  m <= j
  <2>1. j \in Nat /\ m \in Nat
    OBVIOUS
  <2>2. CASE j < m
    <3>1. <<j, m>> \in Less
      BY <2>1, <2>2 DEF Less
    <3> QED
      BY <1>3, <3>1
  <2> QED
    BY <2>1, <2>2
<1> QED
  BY <1>4

\* Induction on the natural numbers, for a set of them.
LEMMA Induction ==
    ASSUME NEW S \in SUBSET Nat, 0 \in S, \A n \in S : n + 1 \in S
    PROVE  S = Nat
<1> SUFFICES ASSUME Nat \ S # {}
             PROVE  FALSE
  OBVIOUS
<1>1. PICK m \in Nat \ S : \A j \in Nat \ S : m <= j
  BY Least
<1>2. m \in Nat /\ m # 0 /\ m - 1 \in Nat
  OBVIOUS
<1>3. m - 1 \in S
  BY <1>1, <1>2
<1>4. m - 1 + 1 \in S
  BY <1>3
<1> QED
  BY <1>2, <1>4

\* A set of natural numbers up to n that is not empty has a greatest element.
LEMMA Greatest ==
    ASSUME NEW n \in Nat, NEW S \in SUBSET (0..n), S # {}
    PROVE  Max(S) \in S /\ \A j \in S : j <= Max(S)
<1> DEFINE Above == {k \in Nat : \A j \in S : j <= k}
<1>1. n \in Above /\ Above \subseteq Nat
  OBVIOUS
<1>2. PICK m \in Above : \A k \in Above : m <= k
  <2> HIDE DEF Above
  <2> QED
    BY <1>1, Least
<1>3. m \in Nat /\ \A j \in S : j <= m
  OBVIOUS
<1>4. m \in S
  <2> SUFFICES ASSUME m \notin S
               PROVE  FALSE
    OBVIOUS
  <2>1. PICK j \in S : TRUE
    OBVIOUS
  <2>2. m - 1 \in Nat
    BY <1>3, <2>1
  <2>3. \A k \in S : k <= m - 1
    BY <1>3
  <2>4. m - 1 \in Above
    BY <2>2, <2>3
  <2> QED
    BY <1>2, <1>3, <2>4
<1>5. \A j \in S : m >= j
  BY <1>3
<1>6. Max(S) \in S /\ \A j \in S : Max(S) >= j
  BY <1>4, <1>5, Zenon DEF Max
<1> QED
  BY <1>6

\* The parsers after the first 0, 1, ... k characters of text, starting from p.
IsRuns(after, p, text, k) ==
    after = [n \in 0..k |-> IF n = 0 THEN p ELSE Step(after[n - 1], text[n])]

Runs(p, text) == CHOOSE after : IsRuns(after, p, text, Len(text))

\* The parser after the whole text.
Run(p, text) == Runs(p, text)[Len(text)]

\* The function exists
LEMMA RunsExists ==
    ASSUME NEW p, NEW text, Len(text) \in Nat
    PROVE  \E after : IsRuns(after, p, text, Len(text))
<1> DEFINE Is(a, k) == IsRuns(a, p, text, k)
           S == {k \in Nat : \E a : Is(a, k)}
<1>1. 0 \in S
  <2> DEFINE a == [n \in 0..0 |-> p]
  <2>1. Is(a, 0)
    BY DEF IsRuns
  <2> QED
    BY <2>1, Zenon
<1>2. ASSUME NEW k \in S
      PROVE  k + 1 \in S
  <2>1. k \in Nat /\ k + 1 \in Nat
    BY <1>2
  <2>2. PICK a : Is(a, k)
    BY Zenon
  <2> DEFINE b == [n \in 0..(k + 1) |-> IF n = k + 1 THEN Step(a[k], text[k + 1]) ELSE a[n]]
  <2>3. DOMAIN a = 0..k
    BY <2>2, Zenon DEF IsRuns
  <2>4. \A n \in 0..k : a[n] = IF n = 0 THEN p ELSE Step(a[n - 1], text[n])
    BY <2>2, Zenon DEF IsRuns
  <2>5. \A n \in 0..(k + 1) : b[n] = IF n = 0 THEN p ELSE Step(b[n - 1], text[n])
    <3>1. ASSUME NEW n \in 0..k
          PROVE  b[n] = IF n = 0 THEN p ELSE Step(b[n - 1], text[n])
      <4>1. n \in 0..(k + 1) /\ n # k + 1
        BY <2>1
      <4>2. b[n] = a[n]
        BY <4>1
      <4>3. CASE n = 0
        BY <4>2, <4>3, <2>4
      <4>4. CASE n # 0
        <5>1. n - 1 \in 0..k /\ n - 1 \in 0..(k + 1) /\ n - 1 # k + 1
          BY <2>1, <4>4
        <5>2. b[n - 1] = a[n - 1]
          BY <5>1
        <5> HIDE DEF b
        <5> QED
          BY <4>2, <4>4, <5>2, <2>4
      <4> QED
        BY <4>3, <4>4
    <3>2. b[k + 1] = Step(b[k], text[k + 1])
      BY <2>1
    <3> HIDE DEF b
    <3>3. \A n \in 0..(k + 1) : n \in 0..k \/ n = k + 1
      BY <2>1
    <3>4. k + 1 - 1 = k /\ k + 1 # 0
      BY <2>1
    <3> QED
      BY <3>1, <3>2, <3>3, <3>4
  <2>6. Is(b, k + 1)
    <3>1. b = [n \in 0..(k + 1) |-> b[n]]
      OBVIOUS
    <3> HIDE DEF b
    <3> QED
      BY <2>5, <3>1 DEF IsRuns
  <2> HIDE DEF Is
  <2> QED
    BY <2>1, <2>6, Zenon
<1> HIDE DEF Is
<1>3. S = Nat
  BY <1>1, <1>2, Induction
<1>4. \E a : Is(a, Len(text))
  BY <1>3, Zenon
<1> QED
  BY <1>4, Zenon DEF Is

\* Each is one step after the one before it.
LEMMA RunsEquation ==
    ASSUME NEW p, NEW text, Len(text) \in Nat
    PROVE  /\ DOMAIN Runs(p, text) = 0..Len(text)
           /\ Runs(p, text)[0] = p
           /\ \A n \in 1..Len(text) : Runs(p, text)[n] = Step(Runs(p, text)[n - 1], text[n])
<1> DEFINE a == Runs(p, text)
<1>1. IsRuns(a, p, text, Len(text))
  BY RunsExists, Zenon DEF Runs
<1> HIDE DEF a
<1>2. DOMAIN a = 0..Len(text) /\ \A n \in 0..Len(text) : a[n] = IF n = 0 THEN p ELSE Step(a[n - 1], text[n])
  BY <1>1, Zenon DEF IsRuns
<1>3. 0 \in 0..Len(text) /\ \A n \in 1..Len(text) : n \in 0..Len(text) /\ n # 0
  OBVIOUS
<1> QED
  BY <1>2, <1>3 DEF a

\* jsmn_parse is a run of a fresh parser and what is done at the end of text.
LEMMA ParseIsRun ==
    ASSUME NEW text
    PROVE  Parse(text) = Finish(Run(Fresh, text))
BY Zenon DEF Parse, Run, Runs, IsRuns

\* Texts that agree on their first characters are read alike so far.
LEMMA RunsAgree ==
    ASSUME NEW p, NEW s, NEW t, Len(s) \in Nat, Len(t) \in Nat,
           NEW k \in Nat, k <= Len(s), k <= Len(t),
           \A i \in 1..k : s[i] = t[i]
    PROVE  \A n \in 0..k : Runs(p, s)[n] = Runs(p, t)[n]
<1> DEFINE S == {n \in Nat : n <= k => Runs(p, s)[n] = Runs(p, t)[n]}
<1>1. 0 \in S
  BY RunsEquation
<1>2. ASSUME NEW n \in S
      PROVE  n + 1 \in S
  <2> SUFFICES ASSUME n + 1 <= k
               PROVE  Runs(p, s)[n + 1] = Runs(p, t)[n + 1]
    BY <1>2
  <2>1. n + 1 \in 1..k /\ n + 1 \in 1..Len(s) /\ n + 1 \in 1..Len(t) /\ n + 1 - 1 = n
    BY <1>2
  <2>2. Runs(p, s)[n] = Runs(p, t)[n]
    BY <1>2
  <2>3. /\ Runs(p, s)[n + 1] = Step(Runs(p, s)[n + 1 - 1], s[n + 1])
        /\ Runs(p, t)[n + 1] = Step(Runs(p, t)[n + 1 - 1], t[n + 1])
    BY <2>1, RunsEquation
  <2> QED
    BY <2>1, <2>2, <2>3
<1>3. S = Nat
  <2>1. S \subseteq Nat
    OBVIOUS
  <2> HIDE DEF S
  <2> QED
    BY <2>1, <1>1, <1>2, Induction
<1> QED
  BY <1>3

\* Nothing to read leaves the parser as it is.
LEMMA RunOfNothing ==
    ASSUME NEW p
    PROVE  Run(p, <<>>) = p
<1>1. Len(<<>>) = 0 /\ 0 \in Nat
  OBVIOUS
<1> QED
  BY <1>1, RunsEquation DEF Run

\* A text is read piece by piece.
LEMMA RunOfConcat ==
    ASSUME NEW p, NEW S, NEW s \in Seq(S), NEW t \in Seq(S)
    PROVE  Run(p, s \o t) = Run(Run(p, s), t)
<1> DEFINE u == s \o t
           q == Run(p, s)
           m == Len(s)
           I == {n \in Nat : n <= Len(t) => Runs(p, u)[m + n] = Runs(q, t)[n]}
<1>1. m \in Nat /\ Len(t) \in Nat
  BY LenProperties
<1>2. /\ Len(u) = m + Len(t)
      /\ \A i \in 1..m : u[i] = s[i]
      /\ \A i \in 1..Len(t) : u[m + i] = t[i]
  BY <1>1, ConcatProperties
<1> HIDE DEF u, q, m
<1>3. Len(u) \in Nat /\ m <= Len(u) /\ m <= Len(s) /\ Len(s) \in Nat
  BY <1>1, <1>2 DEF m
<1>4. \A k \in 1..Len(u) : Runs(p, u)[k] = Step(Runs(p, u)[k - 1], u[k])
  BY <1>3, RunsEquation
<1>5. 0 \in I
  <2>1. Runs(q, t)[0] = q
    BY <1>1, RunsEquation
  <2>2. \A n \in 0..m : Runs(p, u)[n] = Runs(p, s)[n]
    BY <1>1, <1>2, <1>3, RunsAgree
  <2>3. Runs(p, u)[m] = q
    BY <2>2, <1>1 DEF q, m, Run
  <2> QED
    BY <2>1, <2>3, <1>1
<1>6. ASSUME NEW n \in I
      PROVE  n + 1 \in I
  <2> SUFFICES ASSUME n + 1 <= Len(t)
               PROVE  Runs(p, u)[m + (n + 1)] = Runs(q, t)[n + 1]
    BY <1>6
  <2> DEFINE k == m + (n + 1)
  <2>1. /\ n + 1 \in 1..Len(t) /\ n + 1 - 1 = n
        /\ k \in 1..Len(u) /\ k - 1 = m + n
    BY <1>1, <1>2, <1>6
  <2>2. Runs(p, u)[m + n] = Runs(q, t)[n]
    BY <1>6, <1>1
  <2>3. Runs(q, t)[n + 1] = Step(Runs(q, t)[n + 1 - 1], t[n + 1])
    BY <2>1, <1>1, RunsEquation
  <2>4. u[k] = t[n + 1]
    BY <1>2, <2>1
  <2>5. k = m + (n + 1)
    OBVIOUS
  <2> HIDE DEF k
  <2>6. Runs(p, u)[k] = Step(Runs(p, u)[k - 1], u[k])
    BY <2>1, <1>4
  <2>7. Runs(p, u)[k] = Runs(q, t)[n + 1]
    BY <2>1, <2>2, <2>3, <2>6, <2>4
  <2> QED
    BY <2>5, <2>7
<1>7. I = Nat
  <2>1. I \subseteq Nat
    OBVIOUS
  <2> HIDE DEF I
  <2> QED
    BY <2>1, <1>5, <1>6, Induction
<1>8. Runs(p, u)[m + Len(t)] = Runs(q, t)[Len(t)]
  BY <1>1, <1>7
<1> QED
  BY <1>2, <1>8 DEF Run, u, q

\* One character is one step.
LEMMA RunOfOne ==
    ASSUME NEW p, NEW c
    PROVE  Run(p, <<c>>) = Step(p, c)
<1>1. Len(<<c>>) = 1 /\ 1 \in Nat /\ <<c>>[1] = c
  OBVIOUS
<1>2. Runs(p, <<c>>)[0] = p /\ Runs(p, <<c>>)[1] = Step(Runs(p, <<c>>)[1 - 1], <<c>>[1])
  BY <1>1, RunsEquation
<1> QED
  BY <1>1, <1>2 DEF Run

\* What every step keeps, every run keeps.
LEMMA RunsKeep ==
    ASSUME NEW Q, NEW S, NEW text \in Seq(S), NEW p \in Q,
           \A q \in Q : \A c \in S : Step(q, c) \in Q
    PROVE  \A n \in 0..Len(text) : Runs(p, text)[n] \in Q
<1> DEFINE I == {n \in Nat : n <= Len(text) => Runs(p, text)[n] \in Q}
<1>1. Len(text) \in Nat
  BY LenProperties
<1>2. 0 \in I
  BY <1>1, RunsEquation
<1>3. ASSUME NEW n \in I
      PROVE  n + 1 \in I
  <2> SUFFICES ASSUME n + 1 <= Len(text)
               PROVE  Runs(p, text)[n + 1] \in Q
    BY <1>3
  <2>1. n + 1 \in 1..Len(text) /\ n + 1 - 1 = n
    BY <1>1, <1>3
  <2>2. Runs(p, text)[n] \in Q
    BY <1>3, <1>1
  <2>3. Runs(p, text)[n + 1] = Step(Runs(p, text)[n + 1 - 1], text[n + 1])
    BY <2>1, <1>1, RunsEquation
  <2>4. text[n + 1] \in S
    BY <2>1, ElementOfSeq
  <2> QED
    BY <2>1, <2>2, <2>3, <2>4
<1>4. I = Nat
  <2>1. I \subseteq Nat
    OBVIOUS
  <2> HIDE DEF I
  <2> QED
    BY <2>1, <1>2, <1>3, Induction
<1> QED
  BY <1>1, <1>4

-----------------------------------------------------------------------------
\* jsmntok_t, jsmn_parser and the array of tokens together, as records.
Token == [type : {"object", "array", "string", "primitive"},
          start : Nat, end : Nat \cup {Unset}, size : Nat]
TokenSeq == Seq(Token)
Modes == {"scan", "primitive", "string", "escape", "unicode"}
Parser == [pos : Nat, tokens : TokenSeq, toksuper : Nat, count : Nat, mode : Modes,
           start : Nat, hex : Nat, error : {0, NOMEM, INVAL, PART}]

\* The token is a bracket still open, or the text between two offsets up to n.
Lies(token, n) ==
    /\ token.start <= n
    /\ IF token.end = Unset THEN token.type \in {"object", "array"}
                            ELSE token.start <= token.end /\ token.end <= n

\* The parser has its fields in range, and every token lies before n.
Within(p, n) ==
    /\ p \in Parser
    /\ p.count = Len(p.tokens)
    /\ Len(p.tokens) <= NumTokens
    /\ p.toksuper <= Len(p.tokens)
    /\ p.mode # "scan" => p.start < n
    /\ \A i \in 1..Len(p.tokens) : Lies(p.tokens[i], n)

\* No token lies past what has been read.
Sound(p) == Within(p, p.pos)

\* A sequence of tokens holds tokens at 1..Len.
LEMMA SeqOfTokens ==
    ASSUME NEW ts \in TokenSeq
    PROVE  /\ Len(ts) \in Nat /\ DOMAIN ts = 1..Len(ts)
           /\ \A i \in 1..Len(ts) : ts[i] \in Token
BY LenProperties, ElementOfSeq DEF TokenSeq

\* tokens[toksuper].size++ changes one size and nothing else.
LEMMA GrownType ==
    ASSUME NEW p \in Parser, p.toksuper <= Len(p.tokens)
    PROVE  /\ Grown(p) \in TokenSeq
           /\ Len(Grown(p)) = Len(p.tokens)
           /\ \A i \in 1..Len(p.tokens) :
                 Grown(p)[i] = IF i = p.toksuper
                               THEN [p.tokens[i] EXCEPT !.size = @ + 1] ELSE p.tokens[i]
<1>1. p.tokens \in TokenSeq /\ p.toksuper \in Nat
  BY DEF Parser
<1>2. CASE p.toksuper = 0
  BY <1>1, <1>2, SeqOfTokens DEF Grown
<1>3. CASE p.toksuper # 0
  <2> DEFINE k == p.toksuper
             e == [p.tokens[k] EXCEPT !.size = @ + 1]
  <2>1. k \in 1..Len(p.tokens)
    BY <1>1, <1>3, SeqOfTokens
  <2>2. e \in Token
    BY <2>1, <1>1, SeqOfTokens DEF Token
  <2>3. Grown(p) = [p.tokens EXCEPT ![k] = e]
    BY <1>3 DEF Grown
  <2> HIDE DEF e
  <2>4. /\ [p.tokens EXCEPT ![k] = e] \in Seq(Token)
        /\ Len([p.tokens EXCEPT ![k] = e]) = Len(p.tokens)
        /\ \A j \in 1..Len(p.tokens) :
              [p.tokens EXCEPT ![k] = e][j] = IF j = k THEN e ELSE p.tokens[j]
    BY <1>1, <2>1, <2>2, ExceptSeq DEF TokenSeq
  <2> QED
    BY <2>3, <2>4 DEF TokenSeq, e
<1> QED
  BY <1>2, <1>3

\* Counting a child leaves every token where it lies.
LEMMA GrownWithin ==
    ASSUME NEW p, NEW n, Within(p, n)
    PROVE  \A i \in 1..Len(p.tokens) :
              Grown(p)[i] \in Token /\ Lies(Grown(p)[i], n)
<1> SUFFICES ASSUME NEW i \in 1..Len(p.tokens)
             PROVE  Grown(p)[i] \in Token /\ Lies(Grown(p)[i], n)
  OBVIOUS
<1>1. p \in Parser /\ p.toksuper <= Len(p.tokens) /\ p.tokens \in TokenSeq
      /\ Lies(p.tokens[i], n)
  BY DEF Within, Parser
<1>2. p.tokens[i] \in Token
  BY <1>1, SeqOfTokens
<1>3. Grown(p)[i] = IF i = p.toksuper
                    THEN [p.tokens[i] EXCEPT !.size = @ + 1] ELSE p.tokens[i]
  BY <1>1, GrownType
<1> QED
  BY <1>1, <1>2, <1>3 DEF Token, Lies

\* What jsmn_alloc_token and jsmn_fill_token do when there is room.
LEMMA AddTokenRoom ==
    ASSUME NEW p \in Parser, p.toksuper <= Len(p.tokens), Len(p.tokens) < NumTokens,
           NEW type \in {"object", "array", "string", "primitive"}, NEW start \in Nat,
           NEW end \in Nat \cup {Unset}
    PROVE  LET q == AddToken(p, type, start, end)
               m == Len(p.tokens) IN
           /\ q \in Parser
           /\ q.pos = p.pos /\ q.toksuper = p.toksuper /\ q.count = p.count + 1
           /\ q.mode = "scan" /\ q.error = p.error
           /\ Len(q.tokens) = m + 1
           /\ \A i \in 1..m : q.tokens[i] = Grown(p)[i]
           /\ q.tokens[m + 1] = [type |-> type, start |-> start, end |-> end, size |-> 0]
<1> DEFINE t == [type |-> type, start |-> start, end |-> end, size |-> 0]
           ts == Append(Grown(p), t)
           m == Len(p.tokens)
           q == AddToken(p, type, start, end)
<1>1. t \in Token
  BY DEF Token
<1>2. Grown(p) \in Seq(Token) /\ Len(Grown(p)) = m
  BY GrownType DEF TokenSeq
<1>3. /\ ts \in TokenSeq
      /\ Len(ts) = m + 1
      /\ \A i \in 1..m : ts[i] = Grown(p)[i]
      /\ ts[m + 1] = t
  <2> HIDE DEF t
  <2> QED
    BY <1>1, <1>2, AppendProperties DEF TokenSeq
<1>4. p.tokens \in TokenSeq /\ m \in Nat
  BY SeqOfTokens DEF Parser
<1>5. ~(Len(p.tokens) >= NumTokens)
  BY <1>4, NumTokensAssumption
<1> HIDE DEF ts, t
<1>6. q = [p EXCEPT !.tokens = ts, !.count = @ + 1, !.mode = "scan"]
  BY <1>5, Zenon DEF AddToken, ts, t
<1>7. /\ q \in Parser
      /\ q.pos = p.pos /\ q.toksuper = p.toksuper /\ q.count = p.count + 1
      /\ q.mode = "scan" /\ q.error = p.error /\ q.tokens = ts
  <2> HIDE DEF q, m
  <2>1. /\ q.pos = p.pos /\ q.toksuper = p.toksuper /\ q.count = p.count + 1
        /\ q.mode = "scan" /\ q.error = p.error /\ q.tokens = ts
        /\ q.start = p.start /\ q.hex = p.hex
    BY <1>6 DEF Parser
  <2>2. q \in Parser
    <3>1. p.count + 1 \in Nat /\ "scan" \in Modes
      BY DEF Parser, Modes
    <3> QED
      BY <1>3, <1>6, <3>1 DEF Parser
  <2> QED
    BY <2>1, <2>2
<1> QED
  BY <1>3, <1>7 DEF t

\* So does an error.
LEMMA FailWithin ==
    ASSUME NEW p, NEW n, Within(p, n), NEW e \in {NOMEM, INVAL, PART}
    PROVE  LET q == Fail(p, e) IN
           /\ Within(q, n) /\ q.pos = p.pos /\ q.error = e /\ q.tokens = p.tokens
<1> DEFINE q == Fail(p, e)
<1>1. p \in Parser
  BY DEF Within
<1>2. q \in Parser
  BY <1>1 DEF Parser, Fail
<1>3. /\ q.pos = p.pos /\ q.error = e /\ q.tokens = p.tokens /\ q.count = p.count
      /\ q.toksuper = p.toksuper /\ q.mode = p.mode /\ q.start = p.start
  BY <1>1 DEF Parser, Fail
<1>4. Within(q, n)
  <2> HIDE DEF q
  <2> QED
    BY <1>2, <1>3 DEF Within
<1> QED
  BY <1>3, <1>4

\* What lies before n lies before a later m.
LEMMA WithinLater ==
    ASSUME NEW p, NEW n \in Nat, NEW m \in Nat, n <= m, Within(p, n)
    PROVE  Within(p, m)
<1>1. p \in Parser /\ p.tokens \in TokenSeq
  BY DEF Within, Parser
<1>2. ASSUME NEW i \in 1..Len(p.tokens)
      PROVE  Lies(p.tokens[i], m)
  <2>1. Lies(p.tokens[i], n) /\ p.tokens[i] \in Token
    BY <1>1, SeqOfTokens DEF Within
  <2> QED
    BY <2>1 DEF Lies, Token, Unset
<1>3. p.mode # "scan" => p.start < m
  BY <1>1 DEF Within, Parser
<1> QED
  BY <1>2, <1>3 DEF Within

\* A new token does not move the position ...
LEMMA AddTokenPos ==
    ASSUME NEW p \in Parser, NEW type, NEW start, NEW end
    PROVE  AddToken(p, type, start, end).pos = p.pos
BY DEF AddToken, Fail, Parser

\* ... and lies where its caller says, if there is room for it.
LEMMA AddTokenWithin ==
    ASSUME NEW p, NEW n \in Nat, Within(p, n),
           NEW type \in {"object", "array", "string", "primitive"}, NEW start \in Nat,
           NEW end \in Nat \cup {Unset},
           start <= n,
           IF end = Unset THEN type \in {"object", "array"} ELSE start <= end /\ end <= n
    PROVE  Within(AddToken(p, type, start, end), n)
<1> DEFINE q == AddToken(p, type, start, end)
           m == Len(p.tokens)
<1>1. p \in Parser /\ p.tokens \in TokenSeq /\ m \in Nat /\ p.toksuper <= m /\ m <= NumTokens
      /\ p.count = m /\ p.toksuper \in Nat
  BY SeqOfTokens DEF Within, Parser
<1>2. CASE m >= NumTokens
  <2>1. q = Fail(p, NOMEM)
    BY <1>2, Zenon DEF AddToken
  <2> QED
    BY <2>1, FailWithin
<1>3. CASE m < NumTokens
  <2>1. /\ q \in Parser
        /\ q.pos = p.pos /\ q.toksuper = p.toksuper /\ q.count = p.count + 1
        /\ q.mode = "scan" /\ q.error = p.error
        /\ Len(q.tokens) = m + 1
        /\ \A i \in 1..m : q.tokens[i] = Grown(p)[i]
        /\ q.tokens[m + 1] = [type |-> type, start |-> start, end |-> end, size |-> 0]
    <3> HIDE DEF q, m
    <3>1. p.toksuper <= Len(p.tokens) /\ Len(p.tokens) < NumTokens
      BY <1>1, <1>3 DEF m
    <3> QED
      BY <1>1, <3>1, AddTokenRoom DEF q, m
  <2> HIDE DEF q, m
  <2>2. \A i \in 1..m : Lies(q.tokens[i], n)
    BY <2>1, GrownWithin DEF m
  <2>3. \A i \in 1..(m + 1) : Lies(q.tokens[i], n)
    <3>1. Lies([type |-> type, start |-> start, end |-> end, size |-> 0], n)
      BY DEF Lies
    <3> QED
      BY <2>1, <2>2, <3>1, <1>1
  <2>4. m + 1 <= NumTokens
    BY <1>1, <1>3, NumTokensAssumption
  <2>5. q.count = Len(q.tokens) /\ Len(q.tokens) <= NumTokens /\ q.toksuper <= Len(q.tokens)
    BY <2>1, <2>4, <1>1
  <2>6. Within(q, n)
    BY <2>1, <2>3, <2>5 DEF Within
  <2> QED
    BY <2>1, <2>6 DEF q
<1>4. m >= NumTokens \/ m < NumTokens
  BY <1>1, NumTokensAssumption
<1> QED
  BY <1>2, <1>3, <1>4

\* What one character may do to a sound parser, before its offset moves on.
Stepped(q, p) == Within(q, p.pos + 1) /\ q.pos = p.pos

\* The parts of Sound the other lemmas need.
LEMMA SoundFacts ==
    ASSUME NEW p, Sound(p)
    PROVE  /\ p \in Parser /\ p.tokens \in TokenSeq /\ Len(p.tokens) \in Nat
           /\ p.pos \in Nat /\ p.pos + 1 \in Nat /\ p.toksuper \in Nat /\ p.start \in Nat
           /\ p.hex \in Nat
           /\ p.toksuper <= Len(p.tokens)
           /\ Within(p, p.pos + 1)
<1>1. /\ p \in Parser /\ p.tokens \in TokenSeq /\ Len(p.tokens) \in Nat
      /\ p.pos \in Nat /\ p.toksuper \in Nat /\ p.start \in Nat /\ p.hex \in Nat
      /\ p.toksuper <= Len(p.tokens) /\ Within(p, p.pos)
  BY SeqOfTokens DEF Sound, Within, Parser
<1>2. p.pos + 1 \in Nat /\ p.pos <= p.pos + 1
  BY <1>1
<1> QED
  BY <1>1, <1>2, WithinLater

\* The open brackets are positions of tokens, and there is an innermost one.
LEMMA InnermostIsOpen ==
    ASSUME NEW p \in Parser
    PROVE  /\ Unclosed(p) \subseteq 1..Len(p.tokens)
           /\ Unclosed(p) # {} => Innermost(p) \in Unclosed(p)
           /\ \A j \in Unclosed(p) : j <= Innermost(p)
<1>1. Len(p.tokens) \in Nat /\ DOMAIN p.tokens = 1..Len(p.tokens)
  BY SeqOfTokens DEF Parser
<1>2. Unclosed(p) \subseteq 1..Len(p.tokens)
  BY <1>1 DEF Unclosed
<1>3. Unclosed(p) \in SUBSET (0..Len(p.tokens))
  BY <1>1, <1>2
<1>4. Unclosed(p) # {} => /\ Max(Unclosed(p)) \in Unclosed(p)
                          /\ \A j \in Unclosed(p) : j <= Max(Unclosed(p))
  BY <1>1, <1>3, Greatest
<1> QED
  BY <1>2, <1>4 DEF Innermost

\* Fields other than the tokens may change freely within their ranges.
LEMMA TokensKept ==
    ASSUME NEW p, NEW q, NEW n \in Nat, Within(p, n), q \in Parser,
           q.tokens = p.tokens, q.count = p.count, q.toksuper <= Len(p.tokens),
           q.mode # "scan" => q.start < n
    PROVE  Within(q, n)
BY DEF Within

\* The cases of jsmn_parse, one by one: '{' and '[';
LEMMA OpenWithin ==
    ASSUME NEW p, Sound(p), NEW type \in {"object", "array"}
    PROVE  Stepped(OpenBracket(p, type), p)
<1> DEFINE q == AddToken(p, type, p.pos, Unset)
           r == [q EXCEPT !.toksuper = Len(q.tokens)]
<1>1. /\ Within(p, p.pos + 1) /\ p.pos + 1 \in Nat /\ p.pos \in Nat
  BY SoundFacts
<1>2. Within(q, p.pos + 1) /\ q.pos = p.pos
  <2>1. p \in Parser /\ p.pos <= p.pos + 1
    BY <1>1 DEF Within
  <2>2. Within(q, p.pos + 1)
    BY <1>1, <2>1, AddTokenWithin
  <2> QED
    BY <2>1, <2>2, AddTokenPos
<1>3. CASE q.error # 0
  <2>1. OpenBracket(p, type) = q
    BY <1>3 DEF OpenBracket
  <2> QED
    BY <1>2, <2>1 DEF Stepped
<1>4. CASE q.error = 0
  <2>1. OpenBracket(p, type) = r
    BY <1>4 DEF OpenBracket
  <2> HIDE DEF q
  <2>2. q \in Parser /\ Len(q.tokens) \in Nat
    BY <1>2, SeqOfTokens DEF Within, Parser
  <2>3. r \in Parser /\ r.tokens = q.tokens /\ r.count = q.count /\ r.mode = q.mode
        /\ r.start = q.start /\ r.toksuper = Len(q.tokens) /\ r.pos = q.pos
    BY <2>2 DEF Parser
  <2>4. (q.mode # "scan" => q.start < p.pos + 1) /\ Len(q.tokens) <= Len(q.tokens)
    BY <1>2, <2>2 DEF Within
  <2> HIDE DEF r
  <2>5. Within(r, p.pos + 1)
    BY <1>1, <1>2, <2>3, <2>4, TokensKept
  <2> QED
    BY <1>2, <2>1, <2>3, <2>5 DEF Stepped
<1> QED
  BY <1>3, <1>4

\* '}' and ']';
LEMMA CloseWithin ==
    ASSUME NEW p, Sound(p), NEW type \in {"object", "array"}
    PROVE  Stepped(CloseBracket(p, type), p)
<1> DEFINE i == Innermost(p)
           ts == [p.tokens EXCEPT ![i].end = p.pos + 1]
           top == Max({0} \cup (Unclosed(p) \ {i}))
           q == [p EXCEPT !.tokens = ts, !.toksuper = top]
<1>1. /\ p \in Parser /\ p.tokens \in TokenSeq /\ Len(p.tokens) \in Nat
      /\ Within(p, p.pos + 1) /\ p.pos + 1 \in Nat /\ p.pos \in Nat
  BY SoundFacts
<1>2. CASE Unclosed(p) = {} \/ p.tokens[i].type # type
  <2>1. CloseBracket(p, type) = Fail(p, INVAL)
    BY <1>2 DEF CloseBracket
  <2> QED
    BY <1>1, <2>1, FailWithin DEF Stepped
<1>3. CASE ~(Unclosed(p) = {} \/ p.tokens[i].type # type)
  <2>1. CloseBracket(p, type) = q
    BY <1>3, Zenon DEF CloseBracket
  <2>2. i \in 1..Len(p.tokens) /\ i \in Unclosed(p)
    BY <1>1, <1>3, InnermostIsOpen
  <2>3. p.tokens[i] \in Token /\ Lies(p.tokens[i], p.pos)
    BY <1>1, <2>2, SeqOfTokens DEF Sound, Within
  <2> DEFINE t == [p.tokens[i] EXCEPT !.end = p.pos + 1]
  <2>4. t \in Token /\ Lies(t, p.pos + 1)
    BY <1>1, <2>3 DEF Token, Lies, Unset
  <2>5. ts = [p.tokens EXCEPT ![i] = t]
    OBVIOUS
  <2>6. /\ ts \in TokenSeq /\ Len(ts) = Len(p.tokens)
        /\ \A j \in 1..Len(p.tokens) : ts[j] = IF j = i THEN t ELSE p.tokens[j]
    <3> HIDE DEF t, i, ts
    <3> QED
      BY <1>1, <2>2, <2>4, <2>5, ExceptSeq DEF TokenSeq
  <2>7. top \in 0..Len(p.tokens)
    <3>1. {0} \cup (Unclosed(p) \ {i}) \in SUBSET (0..Len(p.tokens))
          /\ {0} \cup (Unclosed(p) \ {i}) # {}
      BY <1>1, InnermostIsOpen
    <3>2. top \in {0} \cup (Unclosed(p) \ {i})
      BY <1>1, <3>1, Greatest
    <3> QED
      BY <3>1, <3>2
  <2> HIDE DEF ts, top
  <2>8. /\ q \in Parser /\ q.tokens = ts /\ q.count = p.count /\ q.mode = p.mode
        /\ q.start = p.start /\ q.toksuper = top /\ q.pos = p.pos
    <3>1. top \in Nat
      BY <1>1, <2>7
    <3>2. /\ q.tokens = ts /\ q.count = p.count /\ q.mode = p.mode
          /\ q.start = p.start /\ q.toksuper = top /\ q.pos = p.pos
      BY <1>1 DEF Parser
    <3>3. q \in Parser
      BY <1>1, <3>1, <2>6 DEF Parser
    <3> QED
      BY <3>2, <3>3
  <2>9. \A j \in 1..Len(ts) : Lies(ts[j], p.pos + 1)
    <3> HIDE DEF t
    <3> QED
      BY <1>1, <2>4, <2>6 DEF Within
  <2>10. Within(q, p.pos + 1)
    <3> HIDE DEF q
    <3> QED
      BY <1>1, <2>6, <2>7, <2>8, <2>9 DEF Within
  <2> QED
    BY <2>1, <2>8, <2>10 DEF Stepped
<1> QED
  BY <1>2, <1>3

\* ',';
LEMMA CommaWithin ==
    ASSUME NEW p, Sound(p)
    PROVE  Stepped(Comma(p), p)
<1> DEFINE q == [p EXCEPT !.toksuper = Innermost(p)]
<1>1. /\ p \in Parser /\ Len(p.tokens) \in Nat /\ Within(p, p.pos + 1) /\ p.pos + 1 \in Nat
  BY SoundFacts
<1>2. CASE Comma(p) = p
  BY <1>1, <1>2 DEF Stepped
<1>3. CASE Comma(p) = q /\ Unclosed(p) # {}
  <2>1. Innermost(p) \in 1..Len(p.tokens)
    BY <1>1, <1>3, InnermostIsOpen
  <2>2. /\ q \in Parser /\ q.tokens = p.tokens /\ q.count = p.count /\ q.mode = p.mode
        /\ q.start = p.start /\ q.toksuper <= Len(p.tokens) /\ q.pos = p.pos
    BY <1>1, <2>1 DEF Parser
  <2>3. p.mode # "scan" => p.start < p.pos + 1
    BY <1>1 DEF Within
  <2> HIDE DEF q
  <2>4. Within(q, p.pos + 1)
    BY <1>1, <2>2, <2>3, TokensKept
  <2> QED
    BY <1>3, <2>2, <2>4 DEF Stepped
<1> QED
  BY <1>2, <1>3 DEF Comma

\* Entering, leaving or staying in a loop changes no token.
LEMMA LoopWithin ==
    ASSUME NEW p, Sound(p), NEW q \in Parser,
           q.tokens = p.tokens, q.count = p.count, q.toksuper <= Len(p.tokens),
           q.pos = p.pos, q.mode # "scan" => q.start < p.pos + 1
    PROVE  Stepped(q, p)
<1>1. Within(p, p.pos + 1) /\ p.pos + 1 \in Nat
  BY SoundFacts
<1>2. Within(q, p.pos + 1)
  BY <1>1, TokensKept
<1> QED
  BY <1>2 DEF Stepped

\* an error;
LEMMA FailStepped ==
    ASSUME NEW p, NEW q, Stepped(q, p), NEW e \in {NOMEM, INVAL, PART}
    PROVE  Stepped(Fail(q, e), p)
BY FailWithin DEF Stepped

\* a character of a primitive;
LEMMA PrimitiveStepped ==
    ASSUME NEW p, NEW q, Stepped(q, p), NEW c
    PROVE  Stepped(InPrimitive(q, c), p)
BY FailStepped DEF InPrimitive

\* all of the switch;
LEMMA ScanWithin ==
    ASSUME NEW p, Sound(p), NEW c
    PROVE  Stepped(Scan(p, c), p)
<1>1. p \in Parser /\ p.pos \in Nat /\ Len(p.tokens) \in Nat /\ p.toksuper <= Len(p.tokens)
  BY SoundFacts
<1>2. p.mode # "scan" => p.start < p.pos + 1
  <2>1. Within(p, p.pos + 1)
    BY SoundFacts
  <2> QED
    BY <2>1 DEF Within
<1>3. \A m \in Modes : Stepped([p EXCEPT !.mode = m, !.start = p.pos], p)
  <2> SUFFICES ASSUME NEW m \in Modes
               PROVE  Stepped([p EXCEPT !.mode = m, !.start = p.pos], p)
    OBVIOUS
  <2> DEFINE q == [p EXCEPT !.mode = m, !.start = p.pos]
  <2>1. /\ q \in Parser /\ q.tokens = p.tokens /\ q.count = p.count /\ q.toksuper = p.toksuper
        /\ q.pos = p.pos /\ q.start = p.pos
    BY <1>1 DEF Parser
  <2>2. q.start < p.pos + 1
    BY <1>1, <2>1
  <2> HIDE DEF q
  <2>3. Stepped(q, p)
    BY <1>1, <2>1, <2>2, LoopWithin
  <2> QED
    BY <2>3 DEF q
<1>4. Stepped(p, p)
  BY SoundFacts DEF Stepped
<1>5. Stepped([p EXCEPT !.toksuper = Len(p.tokens)], p)
  <2> DEFINE q == [p EXCEPT !.toksuper = Len(p.tokens)]
  <2>1. /\ q \in Parser /\ q.tokens = p.tokens /\ q.count = p.count /\ q.mode = p.mode
        /\ q.toksuper = Len(p.tokens) /\ q.pos = p.pos /\ q.start = p.start
    BY <1>1 DEF Parser
  <2>2. q.toksuper <= Len(p.tokens) /\ (q.mode # "scan" => q.start < p.pos + 1)
    BY <1>1, <1>2, <2>1
  <2> HIDE DEF q
  <2>3. Stepped(q, p)
    BY <2>1, <2>2, LoopWithin
  <2> QED
    BY <2>3 DEF q
<1>6. /\ Stepped([p EXCEPT !.mode = "string", !.start = p.pos], p)
      /\ Stepped(InPrimitive([p EXCEPT !.mode = "primitive", !.start = p.pos], c), p)
  BY <1>3, PrimitiveStepped DEF Modes
<1>7. \A type \in {"object", "array"} :
         Stepped(OpenBracket(p, type), p) /\ Stepped(CloseBracket(p, type), p)
  BY OpenWithin, CloseWithin
<1>8. Stepped(Comma(p), p)
  BY CommaWithin
<1> QED
  BY <1>4, <1>5, <1>6, <1>7, <1>8 DEF Scan

\* the end of a primitive;
LEMMA EndPrimitiveSound ==
    ASSUME NEW p, Sound(p), p.mode = "primitive"
    PROVE  Sound(EndPrimitive(p)) /\ EndPrimitive(p).pos = p.pos
<1>1. p \in Parser /\ p.pos \in Nat /\ p.start \in Nat /\ p.start <= p.pos
  BY SoundFacts DEF Sound, Within
<1>2. p.pos # Unset
  BY <1>1 DEF Unset
<1>3. Within(p, p.pos)
  BY DEF Sound
<1>4. Within(AddToken(p, "primitive", p.start, p.pos), p.pos)
  <2>1. p.pos \in Nat \cup {Unset} /\ p.pos <= p.pos
    BY <1>1
  <2> QED
    BY <1>1, <1>2, <1>3, <2>1, AddTokenWithin
<1>5. AddToken(p, "primitive", p.start, p.pos).pos = p.pos
  BY <1>1, AddTokenPos
<1> QED
  BY <1>4, <1>5 DEF EndPrimitive, Sound

\* and a character in each of the loops.
LEMMA ConsumeWithin ==
    ASSUME NEW p, Sound(p), NEW c
    PROVE  Stepped(Consume(p, c), p)
<1>1. /\ p \in Parser /\ p.pos \in Nat /\ Len(p.tokens) \in Nat /\ p.toksuper <= Len(p.tokens)
      /\ p.start \in Nat /\ p.hex \in Nat
  BY SoundFacts
<1>2. Stepped(p, p)
  BY SoundFacts DEF Stepped
<1>3. ASSUME p.mode # "scan", NEW m \in Modes, NEW h \in Nat
      PROVE  Stepped([p EXCEPT !.hex = h, !.mode = m], p)
  <2> DEFINE q == [p EXCEPT !.hex = h, !.mode = m]
  <2>1. /\ q \in Parser /\ q.tokens = p.tokens /\ q.count = p.count /\ q.toksuper = p.toksuper
        /\ q.pos = p.pos /\ q.start = p.start
    BY <1>1 DEF Parser
  <2>2. q.start < p.pos + 1
    BY <1>1, <1>3, <2>1 DEF Sound, Within
  <2> HIDE DEF q
  <2>3. Stepped(q, p)
    BY <1>1, <2>1, <2>2, LoopWithin
  <2> QED
    BY <2>3 DEF q
<1>4. CASE p.mode = "string"
  <2>1. Stepped(AddToken(p, "string", p.start + 1, p.pos), p)
    <3>1. /\ p.start + 1 \in Nat /\ p.start + 1 <= p.pos /\ p.pos # Unset
          /\ p.pos \in Nat \cup {Unset} /\ p.pos <= p.pos + 1 /\ p.pos + 1 \in Nat
      BY <1>1, <1>4 DEF Sound, Within, Unset
    <3>2. Within(p, p.pos + 1) /\ p.start + 1 <= p.pos + 1
      BY <3>1, <1>1, SoundFacts
    <3>3. Within(AddToken(p, "string", p.start + 1, p.pos), p.pos + 1)
      BY <3>1, <3>2, AddTokenWithin
    <3> QED
      BY <1>1, <3>3, AddTokenPos DEF Stepped
  <2>2. Stepped([p EXCEPT !.mode = "escape"], p)
    <3>1. [p EXCEPT !.mode = "escape"] = [p EXCEPT !.hex = p.hex, !.mode = "escape"]
      BY <1>1 DEF Parser
    <3>2. p.mode # "scan" /\ "escape" \in Modes
      BY <1>4 DEF Modes
    <3> QED
      BY <1>1, <1>3, <3>1, <3>2
  <2> QED
    BY <1>2, <1>4, <2>1, <2>2 DEF Consume, InString
<1>5. CASE p.mode = "escape"
  <2>1. Stepped([p EXCEPT !.mode = "string"], p)
    <3>1. [p EXCEPT !.mode = "string"] = [p EXCEPT !.hex = p.hex, !.mode = "string"]
      BY <1>1 DEF Parser
    <3>2. p.mode # "scan" /\ "string" \in Modes
      BY <1>5 DEF Modes
    <3> QED
      BY <1>1, <1>3, <3>1, <3>2
  <2>2. Stepped([p EXCEPT !.mode = "unicode", !.hex = 0], p)
    <3>1. [p EXCEPT !.mode = "unicode", !.hex = 0] = [p EXCEPT !.hex = 0, !.mode = "unicode"]
      BY <1>1 DEF Parser
    <3>2. p.mode # "scan" /\ "unicode" \in Modes /\ 0 \in Nat
      BY <1>5 DEF Modes
    <3> QED
      BY <1>3, <3>1, <3>2
  <2> QED
    BY <1>2, <1>5, <2>1, <2>2, FailStepped DEF Consume, InEscape
<1>6. CASE p.mode = "unicode"
  <2> DEFINE m == IF p.hex = 3 THEN "string" ELSE "unicode"
  <2>1. Stepped([p EXCEPT !.hex = @ + 1, !.mode = m], p)
    <3>1. [p EXCEPT !.hex = @ + 1, !.mode = m] = [p EXCEPT !.hex = p.hex + 1, !.mode = m]
      BY <1>1 DEF Parser
    <3>2. p.mode # "scan" /\ m \in Modes /\ p.hex + 1 \in Nat
      BY <1>1, <1>6 DEF Modes
    <3> QED
      BY <1>3, <3>1, <3>2
  <2> QED
    BY <1>2, <1>6, <2>1, FailStepped DEF Consume, InUnicode
<1>7. CASE p.mode = "primitive"
  <2>1. CASE c \notin EndsPrimitive
    BY <1>2, <1>7, <2>1, PrimitiveStepped DEF Consume
  <2>2. CASE c \in EndsPrimitive
    <3> DEFINE q == EndPrimitive(p)
    <3>1. Sound(q) /\ q.pos = p.pos
      BY <1>7, EndPrimitiveSound
    <3> HIDE DEF q
    <3>2. Stepped(q, p) /\ Stepped(Scan(q, c), p)
      BY <3>1, ScanWithin, SoundFacts DEF Stepped
    <3>3. Consume(p, c) = IF q.error # 0 THEN q ELSE Scan(q, c)
      BY <1>7, <2>2 DEF Consume, q
    <3> QED
      BY <3>2, <3>3
  <2> QED
    BY <2>1, <2>2
<1>8. CASE p.mode = "scan"
  BY <1>8, ScanWithin DEF Consume
<1> QED
  BY <1>1, <1>4, <1>5, <1>6, <1>7, <1>8 DEF Parser, Modes

\* One character keeps the parser sound.
LEMMA StepSound ==
    ASSUME NEW p, Sound(p), NEW c
    PROVE  /\ Sound(Step(p, c))
           /\ p.error = 0 => Step(p, c).pos = p.pos + 1
           /\ p.error # 0 => Step(p, c) = p
<1>1. CASE p.error # 0
  BY <1>1 DEF Step
<1>2. CASE p.error = 0
  <2> DEFINE q == Consume(p, c)
             r == [q EXCEPT !.pos = p.pos + 1]
  <2>1. Within(q, p.pos + 1) /\ p.pos + 1 \in Nat
    BY ConsumeWithin, SoundFacts DEF Stepped
  <2>2. Step(p, c) = r
    BY <1>2 DEF Step
  <2> HIDE DEF q
  <2>3. /\ r \in Parser /\ r.tokens = q.tokens /\ r.count = q.count /\ r.toksuper = q.toksuper
        /\ r.pos = p.pos + 1 /\ r.start = q.start /\ r.mode = q.mode
    BY <2>1 DEF Within, Parser
  <2> HIDE DEF r
  <2>4. Within(r, p.pos + 1)
    BY <2>1, <2>3 DEF Within
  <2> QED
    BY <1>2, <2>2, <2>3, <2>4 DEF Sound
<1> QED
  BY <1>1, <1>2

\* jsmn_init starts it sound.
LEMMA FreshSound == Sound(Fresh)
<1>1. <<>> \in TokenSeq /\ Len(<<>>) = 0
  BY EmptySeq DEF TokenSeq
<1> QED
  BY <1>1, NumTokensAssumption DEF Fresh, Sound, Within, Parser, Modes

\* The parser is sound after every character.
LEMMA RunsSound ==
    ASSUME NEW S, NEW text \in Seq(S), NEW p, Sound(p)
    PROVE  \A n \in 0..Len(text) : /\ Sound(Runs(p, text)[n])
                                    /\ Runs(p, text)[n].pos <= p.pos + n
<1> DEFINE q(n) == Runs(p, text)[n]
           I == {n \in Nat : n <= Len(text) => Sound(q(n)) /\ q(n).pos <= p.pos + n}
<1>1. Len(text) \in Nat /\ p.pos \in Nat
  BY LenProperties, SoundFacts
<1>2. /\ q(0) = p
      /\ \A n \in 1..Len(text) : q(n) = Step(q(n - 1), text[n])
  BY <1>1, RunsEquation
<1> HIDE DEF q
<1>3. 0 \in I
  BY <1>1, <1>2
<1>4. ASSUME NEW n \in I
      PROVE  n + 1 \in I
  <2> SUFFICES ASSUME n + 1 <= Len(text)
               PROVE  Sound(q(n + 1)) /\ q(n + 1).pos <= p.pos + (n + 1)
    BY <1>4
  <2>1. n \in Nat /\ n + 1 \in 1..Len(text) /\ n + 1 - 1 = n
    BY <1>1, <1>4
  <2>2. Sound(q(n)) /\ q(n).pos <= p.pos + n /\ q(n).pos \in Nat
    BY <1>4, <1>1, SoundFacts
  <2>3. q(n + 1) = Step(q(n), text[n + 1])
    BY <1>2, <2>1
  <2>4. Sound(q(n + 1)) /\ (q(n + 1).pos = q(n).pos + 1 \/ q(n + 1) = q(n))
    BY <2>2, <2>3, StepSound
  <2> QED
    BY <1>1, <2>1, <2>2, <2>4
<1>5. I = Nat
  <2>1. I \subseteq Nat
    OBVIOUS
  <2> HIDE DEF I
  <2> QED
    BY <2>1, <1>3, <1>4, Induction
<1> QED
  BY <1>1, <1>5 DEF q

\* So it is sound after any text, and no further than its end.
LEMMA RunSound ==
    ASSUME NEW S, NEW text \in Seq(S), NEW p, Sound(p)
    PROVE  Sound(Run(p, text)) /\ Run(p, text).pos <= p.pos + Len(text)
<1>1. Len(text) \in 0..Len(text)
  BY LenProperties
<1> QED
  BY <1>1, RunsSound DEF Run

\* The end of the text makes at most one more token, and no open one.
LEMMA FinishWithin ==
    ASSUME NEW p, Sound(p)
    PROVE  Within(Finish(p), p.pos)
<1> DEFINE q == IF p.error = 0 /\ p.mode = "primitive" THEN EndPrimitive(p) ELSE p
<1>1. Sound(q) /\ q.pos = p.pos
  BY EndPrimitiveSound
<1>2. Finish(p) = q \/ Finish(p) = Fail(q, PART)
  BY DEF Finish
<1> HIDE DEF q
<1> QED
  BY <1>1, <1>2, FailWithin DEF Sound

\* When the end of the text is no error, no bracket is left open.
LEMMA FinishClosed ==
    ASSUME NEW p, Sound(p), Finish(p).error = 0
    PROVE  Unclosed(Finish(p)) = {}
<1> DEFINE q == IF p.error = 0 /\ p.mode = "primitive" THEN EndPrimitive(p) ELSE p
<1>1. Sound(q)
  BY EndPrimitiveSound
<1>2. Finish(p) = IF q.error = 0 /\ (q.mode # "scan" \/ Unclosed(q) # {}) THEN Fail(q, PART) ELSE q
  BY DEF Finish
<1> HIDE DEF q
<1>3. Fail(q, PART).error = PART /\ PART # 0
  BY <1>1, FailWithin DEF Sound, PART
<1> QED
  BY <1>2, <1>3

\* Whatever the text, every token the parser has stored lies inside it, the
\* tokens are at most num_tokens, and they are as many as it returns unless it
\* returns an error (jsmn_parse).
THEOREM TokensLieInText ==
    ASSUME NEW S, NEW text \in Seq(S)
    PROVE  LET p == Parse(text) IN
           /\ Within(p, Len(text))
           /\ Result(p) > 0 => Result(p) = Len(p.tokens) /\ Unclosed(p) = {}
<1> DEFINE q == Run(Fresh, text)
           p == Finish(q)
<1>1. Parse(text) = p
  BY ParseIsRun
<1>2. Fresh.pos = 0 /\ Len(text) \in Nat
  BY LenProperties DEF Fresh
<1>3. Sound(q) /\ q.pos <= Len(text) /\ q.pos \in Nat
  <2>1. Sound(q) /\ q.pos <= Fresh.pos + Len(text)
    BY FreshSound, RunSound
  <2> HIDE DEF q
  <2> QED
    BY <1>2, <2>1, SoundFacts
<1> HIDE DEF q
<1>4. Within(p, q.pos)
  BY <1>3, FinishWithin
<1>5. Within(p, Len(text))
  <2> HIDE DEF p
  <2> QED
    BY <1>2, <1>3, <1>4, WithinLater
<1>6. p.error = 0 => Unclosed(p) = {}
  BY <1>3, FinishClosed
<1> HIDE DEF p
<1>7. p.error # 0 => ~(Result(p) > 0)
  <2>1. p.error \in {0, NOMEM, INVAL, PART}
    BY <1>5 DEF Within, Parser
  <2> QED
    BY <2>1 DEF Result, NOMEM, INVAL, PART
<1>8. p.error = 0 => Result(p) = Len(p.tokens)
  BY <1>5 DEF Within, Result
<1> QED
  BY <1>1, <1>5, <1>6, <1>7, <1>8

-----------------------------------------------------------------------------
\* Tokens are only ever added; of those there are, only an open end is set.
Extends(q, p) ==
    /\ Len(p.tokens) <= Len(q.tokens)
    /\ \A i \in 1..Len(p.tokens) :
          /\ q.tokens[i].type = p.tokens[i].type
          /\ q.tokens[i].start = p.tokens[i].start
          /\ p.tokens[i].end # Unset => q.tokens[i].end = p.tokens[i].end

\* Extends: nothing changes,
LEMMA SameTokens ==
    ASSUME NEW p \in Parser, NEW q, q.tokens = p.tokens
    PROVE  Extends(q, p)
<1>1. Len(p.tokens) \in Nat
  BY SeqOfTokens DEF Parser
<1> QED
  BY <1>1 DEF Extends

\* one change after another,
LEMMA ExtendsTransitive ==
    ASSUME NEW p \in Parser, NEW q \in Parser, NEW r \in Parser, Extends(q, p), Extends(r, q)
    PROVE  Extends(r, p)
<1>1. Len(p.tokens) \in Nat /\ Len(q.tokens) \in Nat /\ Len(r.tokens) \in Nat
  BY SeqOfTokens DEF Parser
<1>2. \A i \in 1..Len(p.tokens) : i \in 1..Len(q.tokens)
  BY <1>1 DEF Extends
<1> QED
  BY <1>1, <1>2 DEF Extends

\* a token is added,
LEMMA AddTokenExtends ==
    ASSUME NEW p \in Parser, p.toksuper <= Len(p.tokens),
           NEW type \in {"object", "array", "string", "primitive"}, NEW start \in Nat,
           NEW end \in Nat \cup {Unset}
    PROVE  Extends(AddToken(p, type, start, end), p)
<1> DEFINE q == AddToken(p, type, start, end)
           m == Len(p.tokens)
<1>1. m \in Nat /\ \A i \in 1..m : p.tokens[i] \in Token
  BY SeqOfTokens DEF Parser
<1>2. CASE m >= NumTokens
  <2>1. q.tokens = p.tokens
    BY <1>2 DEF AddToken, Fail, Parser
  <2> QED
    BY <2>1, SameTokens
<1>3. CASE m < NumTokens
  <2>1. Len(q.tokens) = m + 1 /\ \A i \in 1..m : q.tokens[i] = Grown(p)[i]
    <3> HIDE DEF q, m
    <3>1. Len(p.tokens) < NumTokens
      BY <1>3 DEF m
    <3> QED
      BY <3>1, AddTokenRoom DEF q, m
  <2>2. \A i \in 1..m : Grown(p)[i] = IF i = p.toksuper
                               THEN [p.tokens[i] EXCEPT !.size = @ + 1] ELSE p.tokens[i]
    BY GrownType
  <2>3. ASSUME NEW i \in 1..m
        PROVE  /\ Grown(p)[i].type = p.tokens[i].type
               /\ Grown(p)[i].start = p.tokens[i].start
               /\ Grown(p)[i].end = p.tokens[i].end
    <3>1. p.tokens[i] \in Token
      BY <1>1
    <3> QED
      BY <3>1, <2>2 DEF Token
  <2> HIDE DEF q
  <2>4. Extends(q, p)
    BY <1>1, <2>1, <2>3 DEF Extends
  <2> QED
    BY <2>4 DEF q
<1> QED
  BY <1>1, <1>2, <1>3, NumTokensAssumption

\* a bracket is closed,
LEMMA CloseExtends ==
    ASSUME NEW p \in Parser, NEW type
    PROVE  Extends(CloseBracket(p, type), p)
<1> DEFINE i == Innermost(p)
           ts == [p.tokens EXCEPT ![i].end = p.pos + 1]
           q == [p EXCEPT !.tokens = ts,
                          !.toksuper = Max({0} \cup (Unclosed(p) \ {i}))]
<1>1. /\ Len(p.tokens) \in Nat /\ DOMAIN p.tokens = 1..Len(p.tokens) /\ p.tokens \in TokenSeq
      /\ \A j \in 1..Len(p.tokens) : p.tokens[j] \in Token
  BY SeqOfTokens DEF Parser
<1>2. CASE Unclosed(p) = {} \/ p.tokens[i].type # type
  <2>1. CloseBracket(p, type) = Fail(p, INVAL)
    BY <1>2 DEF CloseBracket
  <2>2. Fail(p, INVAL).tokens = p.tokens
    BY DEF Fail, Parser
  <2> QED
    BY <2>1, <2>2, SameTokens
<1>3. CASE ~(Unclosed(p) = {} \/ p.tokens[i].type # type)
  <2>1. CloseBracket(p, type) = q
    BY <1>3, Zenon DEF CloseBracket
  <2>2. i \in 1..Len(p.tokens) /\ p.tokens[i].end = Unset
    BY <1>3, InnermostIsOpen DEF Unclosed
  <2> DEFINE t == [p.tokens[i] EXCEPT !.end = p.pos + 1]
  <2>3. ts = [p.tokens EXCEPT ![i] = t]
    OBVIOUS
  <2>4. Len(ts) = Len(p.tokens) /\ \A j \in 1..Len(p.tokens) : ts[j] = IF j = i THEN t ELSE p.tokens[j]
    <3>1. t \in Token
      BY <1>1, <2>2 DEF Parser, Token
    <3> HIDE DEF t, i, ts
    <3> QED
      BY <1>1, <2>2, <2>3, <3>1, ExceptSeq DEF TokenSeq
  <2>5. t.type = p.tokens[i].type /\ t.start = p.tokens[i].start
    BY <1>1, <2>2 DEF Token
  <2> HIDE DEF ts, t, i
  <2>6. q.tokens = ts
    BY DEF Parser
  <2> HIDE DEF q
  <2>7. Extends(q, p)
    BY <1>1, <2>2, <2>4, <2>5, <2>6 DEF Extends
  <2> QED
    BY <2>1, <2>7
<1> QED
  BY <1>2, <1>3

\* a bracket is opened,
LEMMA OpenExtends ==
    ASSUME NEW p \in Parser, p.toksuper <= Len(p.tokens), NEW type \in {"object", "array"}
    PROVE  Extends(OpenBracket(p, type), p)
<1> DEFINE q == AddToken(p, type, p.pos, Unset)
           r == [q EXCEPT !.toksuper = Len(q.tokens)]
<1>1. p.pos \in Nat
  BY DEF Parser
<1>2. Extends(q, p)
  BY <1>1, AddTokenExtends
<1>3. r.tokens = q.tokens
  <2>1. q = Fail(p, NOMEM) \/ q = [p EXCEPT !.tokens = q.tokens, !.count = @ + 1, !.mode = "scan"]
    BY DEF AddToken, Parser
  <2>2. Fail(p, NOMEM) = [p EXCEPT !.error = NOMEM]
    BY DEF Fail
  <2> HIDE DEF q
  <2> QED
    BY <2>1, <2>2 DEF Parser
<1>4. Extends(r, p)
  <2> HIDE DEF r, q
  <2> QED
    BY <1>2, <1>3 DEF Extends
<1>5. OpenBracket(p, type) = q \/ OpenBracket(p, type) = r
  BY DEF OpenBracket
<1> QED
  BY <1>2, <1>4, <1>5

\* the switch,
LEMMA ScanExtends ==
    ASSUME NEW p \in Parser, p.toksuper <= Len(p.tokens), NEW c
    PROVE  Extends(Scan(p, c), p)
<1>1. Extends(Comma(p), p)
  <2>1. Comma(p).tokens = p.tokens
    BY DEF Comma, Parser
  <2> QED
    BY <2>1, SameTokens
<1>2. /\ Extends(p, p)
      /\ Extends([p EXCEPT !.mode = "string", !.start = p.pos], p)
      /\ Extends([p EXCEPT !.toksuper = Len(p.tokens)], p)
  <2>1. /\ [p EXCEPT !.mode = "string", !.start = p.pos].tokens = p.tokens
        /\ [p EXCEPT !.toksuper = Len(p.tokens)].tokens = p.tokens
    BY DEF Parser
  <2> QED
    BY <2>1, SameTokens
<1>3. Extends(InPrimitive([p EXCEPT !.mode = "primitive", !.start = p.pos], c), p)
  <2>1. InPrimitive([p EXCEPT !.mode = "primitive", !.start = p.pos], c).tokens = p.tokens
    BY DEF InPrimitive, Fail, Parser
  <2> QED
    BY <2>1, SameTokens
<1>4. \A type \in {"object", "array"} :
         Extends(OpenBracket(p, type), p) /\ Extends(CloseBracket(p, type), p)
  BY OpenExtends, CloseExtends
<1> QED
  BY <1>1, <1>2, <1>3, <1>4 DEF Scan

\* all of the loops,
LEMMA ConsumeExtends ==
    ASSUME NEW p, Sound(p), NEW c
    PROVE  Extends(Consume(p, c), p)
<1>1. /\ p \in Parser /\ p.pos \in Nat /\ p.start \in Nat /\ p.start + 1 \in Nat
      /\ p.toksuper <= Len(p.tokens) /\ p.pos \in Nat \cup {Unset}
  BY SoundFacts
<1>2. Extends(p, p)
  BY <1>1, SameTokens
<1>3. CASE p.mode = "string"
  <2>1. Extends(AddToken(p, "string", p.start + 1, p.pos), p)
    BY <1>1, AddTokenExtends
  <2>2. [p EXCEPT !.mode = "escape"].tokens = p.tokens
    BY <1>1 DEF Parser
  <2>3. Extends([p EXCEPT !.mode = "escape"], p)
    BY <1>1, <2>2, SameTokens
  <2> QED
    BY <1>2, <1>3, <2>1, <2>3 DEF Consume, InString
<1>4. CASE p.mode = "escape"
  <2>1. InEscape(p, c).tokens = p.tokens
    BY <1>1 DEF InEscape, Fail, Parser
  <2> QED
    BY <1>1, <1>4, <2>1, SameTokens DEF Consume
<1>5. CASE p.mode = "unicode"
  <2>1. InUnicode(p, c).tokens = p.tokens
    BY <1>1 DEF InUnicode, Fail, Parser
  <2> QED
    BY <1>1, <1>5, <2>1, SameTokens DEF Consume
<1>6. CASE p.mode = "primitive" /\ c \notin EndsPrimitive
  <2>1. InPrimitive(p, c).tokens = p.tokens
    BY <1>1 DEF InPrimitive, Fail, Parser
  <2> QED
    BY <1>1, <1>6, <2>1, SameTokens DEF Consume
<1>7. CASE p.mode = "primitive" /\ c \in EndsPrimitive
  <2> DEFINE q == EndPrimitive(p)
  <2>1. Sound(q)
    BY <1>7, EndPrimitiveSound
  <2>2. Extends(q, p)
    BY <1>1, AddTokenExtends DEF EndPrimitive
  <2>3. Consume(p, c) = IF q.error # 0 THEN q ELSE Scan(q, c)
    BY <1>7 DEF Consume
  <2> HIDE DEF q
  <2>4. q \in Parser /\ Scan(q, c) \in Parser /\ Extends(Scan(q, c), q)
    BY <2>1, SoundFacts, ScanExtends, ScanWithin DEF Stepped, Within
  <2>5. Extends(Scan(q, c), p)
    BY <1>1, <2>2, <2>4, ExtendsTransitive
  <2> QED
    BY <2>2, <2>3, <2>5
<1>8. CASE p.mode = "scan"
  BY <1>1, <1>8, ScanExtends DEF Consume
<1> QED
  BY <1>1, <1>3, <1>4, <1>5, <1>6, <1>7, <1>8 DEF Parser, Modes

\* one character.
LEMMA StepExtends ==
    ASSUME NEW p, Sound(p), NEW c
    PROVE  Extends(Step(p, c), p)
<1>1. p \in Parser
  BY SoundFacts
<1>2. CASE p.error # 0
  BY <1>1, <1>2, SameTokens DEF Step
<1>3. CASE p.error = 0
  <2> DEFINE q == Consume(p, c)
             r == [q EXCEPT !.pos = p.pos + 1]
  <2>1. Extends(q, p) /\ q \in Parser
    BY ConsumeExtends, ConsumeWithin DEF Stepped, Within
  <2>2. Step(p, c) = r
    BY <1>3 DEF Step
  <2> HIDE DEF q
  <2>3. r.tokens = q.tokens
    BY <2>1 DEF Parser
  <2> HIDE DEF r
  <2> QED
    BY <2>1, <2>2, <2>3 DEF Extends
<1> QED
  BY <1>2, <1>3

\* What was stored before the n-th character is there after the m-th.
LEMMA RunsExtend ==
    ASSUME NEW S, NEW text \in Seq(S), NEW p, Sound(p),
           NEW n \in 0..Len(text), NEW m \in n..Len(text)
    PROVE  Extends(Runs(p, text)[m], Runs(p, text)[n])
<1> DEFINE q(k) == Runs(p, text)[k]
           I == {k \in Nat : n + k <= Len(text) => Extends(q(n + k), q(n))}
<1>1. Len(text) \in Nat /\ n \in Nat /\ m \in Nat
  BY LenProperties
<1>2. \A k \in 1..Len(text) : q(k) = Step(q(k - 1), text[k])
  BY <1>1, RunsEquation
<1>3. \A k \in 0..Len(text) : Sound(q(k)) /\ q(k) \in Parser
  BY RunsSound, SoundFacts
<1> HIDE DEF q
<1>4. 0 \in I
  BY <1>1, <1>3, SameTokens
<1>5. ASSUME NEW k \in I
      PROVE  k + 1 \in I
  <2> SUFFICES ASSUME n + (k + 1) <= Len(text)
               PROVE  Extends(q(n + (k + 1)), q(n))
    BY <1>5
  <2> DEFINE i == n + k
             j == n + (k + 1)
  <2>1. i \in 0..Len(text) /\ j \in 1..Len(text) /\ j \in 0..Len(text) /\ j - 1 = i
    BY <1>1, <1>5
  <2>2. Extends(q(i), q(n))
    BY <1>1, <1>5
  <2> HIDE DEF i, j
  <2>3. q(j) = Step(q(i), text[j])
    BY <1>2, <2>1
  <2>4. Extends(q(j), q(i))
    BY <1>3, <2>1, <2>3, StepExtends
  <2>5. Extends(q(j), q(n))
    BY <1>3, <2>1, <2>2, <2>4, ExtendsTransitive
  <2> QED
    BY <2>5 DEF j
<1>6. I = Nat
  <2>1. I \subseteq Nat
    OBVIOUS
  <2> HIDE DEF I
  <2> QED
    BY <2>1, <1>4, <1>5, Induction
<1>7. PICK j \in Nat : n + j = m
  <2>1. m - n \in Nat /\ n + (m - n) = m
    BY <1>1
  <2> QED
    BY <2>1
<1>8. Extends(q(m), q(n))
  <2>1. j \in I
    BY <1>6
  <2>2. n + j <= Len(text)
    BY <1>1, <1>7
  <2> QED
    BY <1>7, <2>1, <2>2
<1> QED
  BY <1>8 DEF q

-----------------------------------------------------------------------------
\* In a document whose first token is an array still open:
\* these brackets are open, this token is the superior one, so many tokens are
\* stored, and the array has so many items.
Holds(p, open, super, m, k) ==
    /\ Sound(p) /\ p.error = 0
    /\ Len(p.tokens) = m /\ Unclosed(p) = open /\ 1 \in open
    /\ p.toksuper = super
    /\ p.tokens[1].type = "array" /\ p.tokens[1].size = k

\* The same, between two strings.
Reading(p, open, super, m, k) == Holds(p, open, super, m, k) /\ p.mode = "scan"

\* The tokens ran out before the array was closed.
Stuck(p) == Sound(p) /\ p.error # 0 /\ 1 \in Unclosed(p)

\* The parts of Holds the other lemmas need.
LEMMA HoldsFacts ==
    ASSUME NEW p, NEW open, NEW super, NEW m, NEW k, Holds(p, open, super, m, k)
    PROVE  /\ Sound(p) /\ p \in Parser /\ p.tokens \in TokenSeq /\ p.pos \in Nat
           /\ m \in Nat /\ m >= 1 /\ m <= NumTokens /\ super \in 0..m /\ k \in Nat
           /\ open \subseteq 1..m
           /\ \A i \in 1..m : p.tokens[i] \in Token
<1>1. /\ Sound(p) /\ p \in Parser /\ p.tokens \in TokenSeq /\ p.pos \in Nat /\ m \in Nat
      /\ super \in 0..m
  BY SoundFacts DEF Holds
<1>2. open \subseteq 1..m
  BY <1>1, InnermostIsOpen DEF Holds
<1>3. 1 \in open /\ m <= NumTokens
  BY DEF Holds, Sound, Within
<1>4. \A i \in 1..m : p.tokens[i] \in Token
  BY <1>1, SeqOfTokens DEF Holds
<1>5. k \in Nat
  <2>1. p.tokens[1] \in Token
    BY <1>1, <1>2, <1>3, <1>4
  <2> QED
    BY <2>1 DEF Holds, Token
<1> QED
  BY <1>1, <1>2, <1>3, <1>4, <1>5

\* In its own loop the parser does what Scan says, and moves on.
LEMMA ScanStep ==
    ASSUME NEW p, Sound(p), p.error = 0, p.mode = "scan", NEW c
    PROVE  /\ Step(p, c) = [Scan(p, c) EXCEPT !.pos = p.pos + 1]
           /\ Scan(p, c) \in Parser
<1>1. Consume(p, c) = Scan(p, c)
  BY DEF Consume
<1>2. Step(p, c) = [Consume(p, c) EXCEPT !.pos = p.pos + 1]
  BY DEF Step
<1>3. Scan(p, c) \in Parser
  BY ScanWithin DEF Stepped, Within
<1> QED
  BY <1>1, <1>2, <1>3

\* What adding a token does to the brackets and to the array, with room or not.
LEMMA AddedToken ==
    ASSUME NEW p, NEW open, NEW super, NEW m, NEW k, Holds(p, open, super, m, k),
           m < NumTokens,
           NEW type \in {"object", "array", "string", "primitive"}, NEW start \in Nat,
           NEW end \in Nat \cup {Unset}, NEW q, q = AddToken(p, type, start, end)
    PROVE  /\ Extends(q, p)
           /\ q \in Parser /\ q.error = 0 /\ q.mode = "scan" /\ q.toksuper = super
           /\ Len(q.tokens) = m + 1
           /\ Unclosed(q) = IF end = Unset THEN open \cup {m + 1} ELSE open
           /\ q.tokens[1].type = "array"
           /\ q.tokens[1].size = IF super = 1 THEN k + 1 ELSE k
           /\ q.tokens[m + 1] = [type |-> type, start |-> start, end |-> end, size |-> 0]
<1>1. /\ p \in Parser /\ m \in Nat /\ m >= 1 /\ super \in 0..m /\ k \in Nat
      /\ \A i \in 1..m : p.tokens[i] \in Token
  BY HoldsFacts
<1>2. /\ Len(p.tokens) = m /\ Unclosed(p) = open /\ p.toksuper = super /\ p.error = 0
      /\ p.tokens[1].type = "array" /\ p.tokens[1].size = k
  BY DEF Holds
<1>3. p.toksuper <= Len(p.tokens) /\ Len(p.tokens) < NumTokens
  BY <1>1, <1>2
<1>4. /\ q \in Parser /\ q.toksuper = super /\ q.mode = "scan" /\ q.error = 0
      /\ Len(q.tokens) = m + 1
      /\ \A i \in 1..m : q.tokens[i] = Grown(p)[i]
      /\ q.tokens[m + 1] = [type |-> type, start |-> start, end |-> end, size |-> 0]
  <2> DEFINE n == Len(p.tokens)
  <2> HIDE DEF n
  <2>1. /\ q \in Parser
        /\ q.pos = p.pos /\ q.toksuper = p.toksuper /\ q.count = p.count + 1
        /\ q.mode = "scan" /\ q.error = p.error
        /\ Len(q.tokens) = n + 1
        /\ \A i \in 1..n : q.tokens[i] = Grown(p)[i]
        /\ q.tokens[n + 1] = [type |-> type, start |-> start, end |-> end, size |-> 0]
    BY <1>1, <1>3, AddTokenRoom DEF n
  <2>2. n = m
    BY <1>2 DEF n
  <2> QED
    BY <1>2, <2>1, <2>2
<1>5. \A i \in 1..m : Grown(p)[i] = IF i = super
                        THEN [p.tokens[i] EXCEPT !.size = @ + 1] ELSE p.tokens[i]
  BY <1>1, <1>2, <1>3, GrownType
<1>6. ASSUME NEW i \in 1..m
      PROVE  q.tokens[i].end = p.tokens[i].end
  <2>1. p.tokens[i] \in Token /\ q.tokens[i] = Grown(p)[i]
    BY <1>1, <1>4
  <2> QED
    BY <1>5, <2>1 DEF Token
<1>7. 1 \in 1..m
  BY <1>1
<1>8. q.tokens[1].type = "array" /\ q.tokens[1].size = IF super = 1 THEN k + 1 ELSE k
  <2>1. p.tokens[1] \in Token /\ q.tokens[1] = IF 1 = super
                        THEN [p.tokens[1] EXCEPT !.size = @ + 1] ELSE p.tokens[1]
    BY <1>1, <1>4, <1>5, <1>7
  <2> QED
    BY <1>2, <2>1 DEF Token
<1>9. Unclosed(q) = IF end = Unset THEN open \cup {m + 1} ELSE open
  <2>1. DOMAIN q.tokens = 1..(m + 1) /\ DOMAIN p.tokens = 1..m
    BY <1>1, <1>2, <1>4, SeqOfTokens DEF Parser
  <2>2. q.tokens[m + 1].end = end
    BY <1>4
  <2>3. open = {i \in 1..m : p.tokens[i].end = Unset}
    BY <1>2, <2>1 DEF Unclosed
  <2>4. Unclosed(q) = {i \in 1..(m + 1) : q.tokens[i].end = Unset}
    BY <2>1 DEF Unclosed
  <2> QED
    BY <1>1, <1>6, <2>2, <2>3, <2>4
<1>10. Extends(q, p)
  BY <1>1, <1>3, AddTokenExtends
<1> QED
  BY <1>4, <1>8, <1>9, <1>10

\* With all the tokens taken, one more is an error.
LEMMA NoRoom ==
    ASSUME NEW p, NEW open, NEW super, NEW k, Holds(p, open, super, NumTokens, k),
           NEW type, NEW start, NEW end
    PROVE  AddToken(p, type, start, end) = Fail(p, NOMEM)
<1>1. Len(p.tokens) >= NumTokens
  BY NumTokensAssumption DEF Holds
<1> QED
  BY <1>1 DEF AddToken

\* '{' and '[': a token more, open and superior, or no token left.
LEMMA OpenReads ==
    ASSUME NEW p, NEW open, NEW m, NEW k, Reading(p, open, 1, m, k),
           NEW type \in {"object", "array"}, NEW c, Scan(p, c) = OpenBracket(p, type)
    PROVE  /\ m < NumTokens =>
                 /\ Reading(Step(p, c), open \cup {m + 1}, m + 1, m + 1, k + 1)
                 /\ Step(p, c).pos = p.pos + 1
                 /\ Step(p, c).tokens[m + 1].type = type
           /\ m = NumTokens => Stuck(Step(p, c))
<1> DEFINE q == AddToken(p, type, p.pos, Unset)
           r == [q EXCEPT !.toksuper = Len(q.tokens)]
           t == Step(p, c)
<1>1. Holds(p, open, 1, m, k) /\ p.mode = "scan"
  BY DEF Reading
<1>2. /\ Sound(p) /\ p \in Parser /\ p.error = 0 /\ Unclosed(p) = open /\ 1 \in open
  BY <1>1, SoundFacts DEF Holds
<1>3. m \in Nat /\ m <= NumTokens /\ p.pos \in Nat /\ NumTokens \in Nat
  BY <1>1, HoldsFacts, NumTokensAssumption
<1>4. /\ t = [OpenBracket(p, type) EXCEPT !.pos = p.pos + 1]
      /\ OpenBracket(p, type) \in Parser
  <2>1. /\ t = [Scan(p, c) EXCEPT !.pos = p.pos + 1]
        /\ Scan(p, c) \in Parser
    BY <1>1, <1>2, ScanStep
  <2> QED
    BY <2>1
<1>5. Sound(t)
  BY <1>2, StepSound
<1>6. CASE m < NumTokens
  <2>1. /\ q \in Parser /\ q.error = 0 /\ q.mode = "scan" /\ q.toksuper = 1
        /\ Len(q.tokens) = m + 1
        /\ Unclosed(q) = open \cup {m + 1}
        /\ q.tokens[1].type = "array"
        /\ q.tokens[1].size = k + 1
        /\ q.tokens[m + 1] = [type |-> type, start |-> p.pos, end |-> Unset, size |-> 0]
    <3>1. type \in {"object", "array", "string", "primitive"} /\ Unset \in Nat \cup {Unset}
      OBVIOUS
    <3>2. q = AddToken(p, type, p.pos, Unset)
      OBVIOUS
    <3> DEFINE start == p.pos
               end == Unset
    <3>3. q = AddToken(p, type, start, end) /\ start \in Nat /\ end \in Nat \cup {Unset}
      BY <1>3, <3>1, <3>2
    <3> DEFINE super == 1
    <3>4. Holds(p, open, super, m, k)
      BY <1>1
    <3> HIDE DEF q, start, end, super
    <3>5. /\ q \in Parser /\ q.error = 0 /\ q.mode = "scan" /\ q.toksuper = super
          /\ Len(q.tokens) = m + 1
          /\ Unclosed(q) = IF end = Unset THEN open \cup {m + 1} ELSE open
          /\ q.tokens[1].type = "array"
          /\ q.tokens[1].size = IF super = 1 THEN k + 1 ELSE k
          /\ q.tokens[m + 1] = [type |-> type, start |-> start, end |-> end, size |-> 0]
      BY <1>6, <3>1, <3>3, <3>4, AddedToken
    <3> QED
      BY <3>5 DEF start, end, super
  <2>2. OpenBracket(p, type) = r
    <3>1. ~(q.error # 0)
      BY <2>1
    <3> QED
      BY <3>1, Zenon DEF OpenBracket
  <2> HIDE DEF q
  <2>3. r.tokens = q.tokens /\ r.toksuper = m + 1 /\ r.mode = "scan" /\ r.error = 0
    BY <2>1 DEF Parser
  <2> HIDE DEF r, t
  <2>4. /\ t.tokens = q.tokens /\ t.toksuper = m + 1 /\ t.mode = "scan" /\ t.error = 0
        /\ t.pos = p.pos + 1
    BY <1>4, <2>2, <2>3 DEF Parser
  <2>5. Unclosed(t) = open \cup {m + 1}
    BY <2>1, <2>4 DEF Unclosed
  <2>6. Holds(t, open \cup {m + 1}, m + 1, m + 1, k + 1)
    BY <1>2, <1>5, <2>1, <2>4, <2>5 DEF Holds
  <2>7. t.tokens[m + 1].type = type
    BY <2>1, <2>4
  <2>8. m # NumTokens
    BY <1>3, <1>6
  <2> QED
    BY <2>4, <2>6, <2>7, <2>8 DEF Reading, t
<1>7. CASE m = NumTokens
  <2>1. q = Fail(p, NOMEM)
    BY <1>1, <1>7, NoRoom
  <2> HIDE DEF q
  <2>2. q.error = NOMEM /\ NOMEM # 0 /\ q.tokens = p.tokens
    BY <1>2, <2>1 DEF Fail, Parser, NOMEM
  <2>3. OpenBracket(p, type) = q
    BY <2>2 DEF OpenBracket, q
  <2> HIDE DEF t
  <2>4. t.error # 0 /\ t.tokens = p.tokens
    BY <1>4, <2>2, <2>3 DEF Parser
  <2>5. Stuck(t)
    BY <1>2, <1>5, <2>4 DEF Stuck, Unclosed
  <2>6. ~(m < NumTokens)
    BY <1>3, <1>7
  <2> QED
    BY <2>5, <2>6 DEF t
<1> QED
  BY <1>3, <1>6, <1>7

\* The punctuation of JSON, by name.
LeftBrace == "{"
RightBrace == "}"
LeftBracket == "["
RightBracket == "]"
Colon == ":"
CommaChar == ","

\* '{' and '[' open a token.
LEMMA BracketScans ==
    ASSUME NEW p
    PROVE  /\ Scan(p, LeftBrace) = OpenBracket(p, "object")
           /\ Scan(p, LeftBracket) = OpenBracket(p, "array")
BY DEF Scan, Space, Quote, LeftBrace, LeftBracket

\* ':' makes the last token, the key, the superior one.
LEMMA ColonReads ==
    ASSUME NEW p, NEW open, NEW super, NEW m, NEW k, Reading(p, open, super, m, k)
    PROVE  Reading(Step(p, Colon), open, m, m, k) /\ Step(p, Colon).pos = p.pos + 1
<1> DEFINE q == [p EXCEPT !.toksuper = Len(p.tokens)]
           t == Step(p, Colon)
<1>1. /\ Sound(p) /\ p \in Parser /\ p.error = 0 /\ p.mode = "scan" /\ m \in Nat
      /\ Len(p.tokens) = m /\ Unclosed(p) = open
  <2>1. Holds(p, open, super, m, k) /\ p.mode = "scan"
    BY DEF Reading
  <2>2. /\ Sound(p) /\ p \in Parser /\ m \in Nat
    BY <2>1, HoldsFacts
  <2> QED
    BY <2>1, <2>2 DEF Holds
<1>2. Scan(p, Colon) = q
  BY DEF Scan, Space, Quote, Colon
<1>3. t = [q EXCEPT !.pos = p.pos + 1] /\ q \in Parser
  <2>1. /\ t = [Scan(p, Colon) EXCEPT !.pos = p.pos + 1]
        /\ Scan(p, Colon) \in Parser
    BY <1>1, ScanStep
  <2> QED
    BY <1>2, <2>1
<1>4. Sound(t)
  BY <1>1, StepSound
<1>5. q.tokens = p.tokens /\ q.toksuper = m /\ q.mode = "scan" /\ q.error = 0
  BY <1>1 DEF Parser
<1> HIDE DEF q, t
<1>6. /\ t.tokens = p.tokens /\ t.toksuper = m /\ t.mode = "scan" /\ t.error = 0
      /\ t.pos = p.pos + 1
  BY <1>3, <1>5 DEF Parser
<1>7. Unclosed(t) = Unclosed(p)
  BY <1>6 DEF Unclosed
<1>8. Reading(t, open, m, m, k)
  BY <1>4, <1>6, <1>7 DEF Reading, Holds
<1> QED
  BY <1>6, <1>8 DEF t

\* ',' after a pair goes back to the innermost bracket.
LEMMA CommaReads ==
    ASSUME NEW p, NEW open, NEW super, NEW m, NEW k, Reading(p, open, super, m, k),
           super # 0, p.tokens[super].type = "string",
           NEW i \in open, \A j \in open : j <= i
    PROVE  Reading(Step(p, CommaChar), open, i, m, k) /\ Step(p, CommaChar).pos = p.pos + 1
<1> DEFINE q == [p EXCEPT !.toksuper = i]
           t == Step(p, CommaChar)
<1>1. Holds(p, open, super, m, k) /\ p.mode = "scan"
  BY DEF Reading
<1>2. /\ Sound(p) /\ p \in Parser /\ p.error = 0 /\ Unclosed(p) = open /\ 1 \in open
      /\ p.toksuper = super
  BY <1>1, SoundFacts DEF Holds
<1>3. m \in Nat /\ open \subseteq 1..m
  BY <1>1, HoldsFacts
<1>4. Innermost(p) = i
  <2>1. Unclosed(p) # {}
    BY <1>2
  <2>2. Innermost(p) \in open /\ i <= Innermost(p)
    BY <1>2, <2>1, InnermostIsOpen
  <2>3. i \in 1..m /\ Innermost(p) \in 1..m /\ Innermost(p) <= i
    BY <1>3, <2>2
  <2> QED
    BY <1>3, <2>2, <2>3
<1>5. Scan(p, CommaChar) = q
  <2>1. Scan(p, CommaChar) = Comma(p)
    BY DEF Scan, Space, Quote, CommaChar
  <2>2. Comma(p) = q
    BY <1>2, <1>4 DEF Comma
  <2> QED
    BY <2>1, <2>2
<1>6. t = [q EXCEPT !.pos = p.pos + 1] /\ q \in Parser
  <2>1. /\ t = [Scan(p, CommaChar) EXCEPT !.pos = p.pos + 1]
        /\ Scan(p, CommaChar) \in Parser
    BY <1>1, <1>2, ScanStep
  <2> QED
    BY <1>5, <2>1
<1>7. Sound(t)
  BY <1>2, StepSound
<1>8. q.tokens = p.tokens /\ q.toksuper = i /\ q.mode = "scan" /\ q.error = 0
  BY <1>1, <1>2 DEF Parser
<1> HIDE DEF q, t
<1>9. /\ t.tokens = p.tokens /\ t.toksuper = i /\ t.mode = "scan" /\ t.error = 0
      /\ t.pos = p.pos + 1
  BY <1>6, <1>8 DEF Parser
<1>10. Unclosed(t) = Unclosed(p)
  BY <1>9 DEF Unclosed
<1>11. Reading(t, open, i, m, k)
  BY <1>1, <1>7, <1>9, <1>10 DEF Reading, Holds
<1> QED
  BY <1>9, <1>11 DEF t

\* ',' after an item of the array changes nothing.
LEMMA ItemCommaReads ==
    ASSUME NEW p, NEW open, NEW m, NEW k, Reading(p, open, 1, m, k)
    PROVE  Reading(Step(p, CommaChar), open, 1, m, k) /\ Step(p, CommaChar).pos = p.pos + 1
<1> DEFINE t == Step(p, CommaChar)
<1>1. Holds(p, open, 1, m, k) /\ p.mode = "scan"
  BY DEF Reading
<1>2. /\ Sound(p) /\ p \in Parser /\ p.error = 0 /\ Unclosed(p) = open
      /\ p.toksuper = 1 /\ p.tokens[1].type = "array"
  BY <1>1, SoundFacts DEF Holds
<1>3. Scan(p, CommaChar) = p
  <2>1. Scan(p, CommaChar) = Comma(p)
    BY DEF Scan, Space, Quote, CommaChar
  <2>2. Comma(p) = p
    BY <1>2 DEF Comma
  <2> QED
    BY <2>1, <2>2
<1>4. t = [p EXCEPT !.pos = p.pos + 1]
  <2>1. t = [Scan(p, CommaChar) EXCEPT !.pos = p.pos + 1]
    BY <1>1, <1>2, ScanStep
  <2> QED
    BY <1>3, <2>1
<1>5. Sound(t)
  BY <1>2, StepSound
<1> HIDE DEF t
<1>6. /\ t.tokens = p.tokens /\ t.toksuper = 1 /\ t.mode = "scan" /\ t.error = 0
      /\ t.pos = p.pos + 1
  BY <1>1, <1>2, <1>4 DEF Parser
<1>7. Unclosed(t) = Unclosed(p)
  BY <1>6 DEF Unclosed
<1>8. Reading(t, open, 1, m, k)
  BY <1>1, <1>5, <1>6, <1>7 DEF Reading, Holds
<1> QED
  BY <1>6, <1>8 DEF t

\* '}' closes the innermost bracket, an object, and goes back to the one before.
LEMMA CloseReads ==
    ASSUME NEW p, NEW super, NEW m, NEW k, NEW i, i # 1, Reading(p, {1, i}, super, m, k),
           p.tokens[i].type = "object"
    PROVE  Reading(Step(p, RightBrace), {1}, 1, m, k) /\ Step(p, RightBrace).pos = p.pos + 1
<1> DEFINE ts == [p.tokens EXCEPT ![i].end = p.pos + 1]
           q == [p EXCEPT !.tokens = ts, !.toksuper = 1]
           t == Step(p, RightBrace)
<1>1. Holds(p, {1, i}, super, m, k) /\ p.mode = "scan"
  BY DEF Reading
<1>2. /\ Sound(p) /\ p \in Parser /\ p.error = 0 /\ Unclosed(p) = {1, i}
      /\ p.tokens[1].type = "array" /\ p.tokens[1].size = k /\ Len(p.tokens) = m
  BY <1>1, SoundFacts DEF Holds
<1>3. /\ m \in Nat /\ i \in 1..m /\ 1 \in 1..m /\ p.pos \in Nat /\ p.tokens \in TokenSeq
      /\ \A j \in 1..m : p.tokens[j] \in Token
  BY <1>1, HoldsFacts
<1>4. Innermost(p) = i
  <2>1. Innermost(p) \in {1, i} /\ i <= Innermost(p)
    BY <1>2, InnermostIsOpen
  <2> QED
    BY <1>3, <2>1
<1>5. Max({0} \cup (Unclosed(p) \ {i})) = 1
  <2>1. {0} \cup (Unclosed(p) \ {i}) = {0, 1}
    BY <1>2
  <2>2. {0, 1} \in SUBSET (0..1) /\ {0, 1} # {}
    OBVIOUS
  <2>3. Max({0, 1}) \in {0, 1} /\ 1 <= Max({0, 1})
    BY <2>2, Greatest
  <2> QED
    BY <2>1, <2>3
<1>6. Scan(p, RightBrace) = q
  <2>1. Scan(p, RightBrace) = CloseBracket(p, "object")
    BY DEF Scan, Space, Quote, RightBrace
  <2>2. ~(Unclosed(p) = {} \/ p.tokens[Innermost(p)].type # "object")
    BY <1>2, <1>4
  <2>3. CloseBracket(p, "object") = q
    BY <1>4, <1>5, <2>2 DEF CloseBracket
  <2> QED
    BY <2>1, <2>3
<1>7. t = [q EXCEPT !.pos = p.pos + 1] /\ q \in Parser
  <2>1. /\ t = [Scan(p, RightBrace) EXCEPT !.pos = p.pos + 1]
        /\ Scan(p, RightBrace) \in Parser
    BY <1>1, <1>2, ScanStep
  <2> QED
    BY <1>6, <2>1
<1>8. Sound(t)
  BY <1>2, StepSound
<1> DEFINE u == [p.tokens[i] EXCEPT !.end = p.pos + 1]
<1>9. Len(ts) = m /\ \A j \in 1..m : ts[j] = IF j = i THEN u ELSE p.tokens[j]
  <2>1. u \in Token
    BY <1>3 DEF Token
  <2>2. ts = [p.tokens EXCEPT ![i] = u]
    OBVIOUS
  <2> HIDE DEF u, ts
  <2> QED
    BY <1>2, <1>3, <2>1, <2>2, ExceptSeq DEF TokenSeq
<1>10. u.end # Unset
  <2>1. u.end = p.pos + 1
    BY <1>3 DEF Token
  <2> QED
    BY <1>3, <2>1 DEF Unset
<1> HIDE DEF u, ts
<1>11. q.tokens = ts /\ q.toksuper = 1 /\ q.mode = "scan" /\ q.error = 0
  BY <1>1, <1>2 DEF Parser
<1> HIDE DEF q, t
<1>12. /\ t.tokens = ts /\ t.toksuper = 1 /\ t.mode = "scan" /\ t.error = 0
       /\ t.pos = p.pos + 1
  BY <1>7, <1>11 DEF Parser
<1>13. Unclosed(t) = {1}
  <2>1. DOMAIN t.tokens = 1..m /\ DOMAIN p.tokens = 1..m
    BY <1>2, <1>3, <1>8, <1>9, <1>12, SoundFacts, SeqOfTokens
  <2>2. \A j \in 1..m : p.tokens[j].end = Unset <=> j \in {1, i}
    BY <1>2, <2>1 DEF Unclosed
  <2>3. \A j \in 1..m : t.tokens[j].end = Unset <=> j = 1
    BY <1>3, <1>9, <1>10, <1>12, <2>2
  <2> QED
    BY <1>3, <2>1, <2>3 DEF Unclosed
<1>14. t.tokens[1] = p.tokens[1]
  BY <1>3, <1>9, <1>12
<1>15. Reading(t, {1}, 1, m, k)
  BY <1>2, <1>8, <1>9, <1>12, <1>13, <1>14 DEF Reading, Holds
<1> QED
  BY <1>12, <1>15 DEF t

\* The inside of a string that ends where it seems to: reading it moves the
\* offset and changes nothing else.
Passes(s) ==
    \A p \in Parser :
        p.mode = "string" /\ p.error = 0 => Run(p, s) = [p EXCEPT !.pos = @ + Len(s)]

\* Passes: no characters,
LEMMA NothingPasses == Passes(<<>>)
<1> SUFFICES ASSUME NEW p \in Parser
             PROVE  Run(p, <<>>) = [p EXCEPT !.pos = @ + Len(<<>>)]
  BY DEF Passes
<1>1. [p EXCEPT !.pos = @ + Len(<<>>)] = p
  BY DEF Parser
<1> QED
  BY <1>1, RunOfNothing

\* a character that is no quote and no backslash,
LEMMA PlainPasses ==
    ASSUME NEW c, c # Quote, c # Backslash
    PROVE  Passes(<<c>>)
<1> SUFFICES ASSUME NEW p \in Parser, p.mode = "string", p.error = 0
             PROVE  Run(p, <<c>>) = [p EXCEPT !.pos = @ + Len(<<c>>)]
  BY DEF Passes
<1>1. Consume(p, c) = p
  BY DEF Consume, InString
<1>2. Step(p, c) = [p EXCEPT !.pos = p.pos + 1]
  BY <1>1 DEF Step
<1>3. Len(<<c>>) = 1
  OBVIOUS
<1> QED
  BY <1>2, <1>3, RunOfOne

\* After a backslash, one of the characters that may follow it.
LEMMA EscapeStep ==
    ASSUME NEW p \in Parser, p.mode = "escape", p.error = 0, NEW c \in Escapable
    PROVE  Step(p, c) = [p EXCEPT !.mode = "string", !.pos = p.pos + 1]
<1>1. InEscape(p, c) = [p EXCEPT !.mode = "string"]
  BY DEF InEscape, Escapable, Quote, Backslash
<1>2. Consume(p, c) = InEscape(p, c)
  BY DEF Consume
<1> QED
  BY <1>1, <1>2 DEF Step, Parser

\* Two texts are read one after the other, here from their runs.
LEMMA RunOfTwo ==
    ASSUME NEW p, NEW S, NEW s \in Seq(S), NEW t \in Seq(S), NEW q, q = Run(p, s)
    PROVE  Run(p, s \o t) = Run(q, t)
BY RunOfConcat

\* an escape of two characters,
LEMMA EscapePasses ==
    ASSUME NEW c \in Escapable
    PROVE  Passes(<<Backslash, c>>)
<1> SUFFICES ASSUME NEW p \in Parser, p.mode = "string", p.error = 0
             PROVE  Run(p, <<Backslash, c>>) = [p EXCEPT !.pos = @ + Len(<<Backslash, c>>)]
  BY DEF Passes
<1> DEFINE q == [p EXCEPT !.mode = "escape", !.pos = p.pos + 1]
           S == {Backslash, c}
<1>1. Step(p, Backslash) = q
  <2>1. Consume(p, Backslash) = [p EXCEPT !.mode = "escape"]
    BY DEF Consume, InString, Backslash, Quote
  <2> QED
    BY <2>1 DEF Step, Parser
<1>2. Step(q, c) = [p EXCEPT !.pos = p.pos + 2]
  <2>1. q.mode = "escape" /\ q.error = 0 /\ q.pos = p.pos + 1 /\ p.pos \in Nat
    BY DEF Parser
  <2>2. q \in Parser
    <3>1. "escape" \in Modes /\ p.pos + 1 \in Nat
      BY <2>1 DEF Modes
    <3> QED
      BY <3>1 DEF Parser
  <2>3. Step(q, c) = [q EXCEPT !.mode = "string", !.pos = q.pos + 1]
    <3> HIDE DEF q
    <3> QED
      BY <2>1, <2>2, EscapeStep
  <2>4. q.pos + 1 = p.pos + 2
    BY <2>1
  <2> QED
    BY <2>3, <2>4 DEF Parser
<1>3. <<Backslash, c>> = <<Backslash>> \o <<c>> /\ Len(<<Backslash, c>>) = 2
  OBVIOUS
<1>4. Run(p, <<Backslash>> \o <<c>>) = Run(Run(p, <<Backslash>>), <<c>>)
  <2> DEFINE s == <<Backslash>>
             t == <<c>>
  <2>1. s \in Seq(S) /\ t \in Seq(S)
    OBVIOUS
  <2> HIDE DEF s, t, S
  <2>2. Run(p, s \o t) = Run(Run(p, s), t)
    BY <2>1, RunOfConcat
  <2> QED
    BY <2>2 DEF s, t
<1>5. Run(p, <<Backslash, c>>) = Step(Step(p, Backslash), c)
  BY <1>3, <1>4, RunOfOne
<1> QED
  BY <1>1, <1>2, <1>3, <1>5

\* one after another.
LEMMA ConcatPasses ==
    ASSUME NEW S, NEW s \in Seq(S), NEW t \in Seq(S), Passes(s), Passes(t)
    PROVE  Passes(s \o t)
<1> SUFFICES ASSUME NEW p \in Parser, p.mode = "string", p.error = 0
             PROVE  Run(p, s \o t) = [p EXCEPT !.pos = @ + Len(s \o t)]
  BY DEF Passes
<1>1. /\ Len(s) \in Nat /\ Len(t) \in Nat /\ p.pos \in Nat
      /\ Len(s \o t) = Len(s) + Len(t)
  BY LenProperties, ConcatProperties DEF Parser
<1> DEFINE q == [p EXCEPT !.pos = p.pos + Len(s)]
<1>2. Run(p, s) = q
  BY DEF Passes
<1>3. q \in Parser /\ q.mode = "string" /\ q.error = 0 /\ q.pos = p.pos + Len(s)
  BY <1>1 DEF Parser
<1>4. Run(q, t) = [q EXCEPT !.pos = p.pos + Len(s) + Len(t)]
  <2> HIDE DEF q
  <2> QED
    BY <1>3 DEF Passes
<1>5. [q EXCEPT !.pos = p.pos + Len(s) + Len(t)] = [p EXCEPT !.pos = p.pos + Len(s \o t)]
  <2>1. p.pos + Len(s) + Len(t) = p.pos + Len(s \o t)
    BY <1>1
  <2> QED
    BY <2>1 DEF Parser
<1>6. Run(p, s \o t) = Run(Run(p, s), t)
  BY RunOfConcat
<1> QED
  BY <1>2, <1>4, <1>5, <1>6

\* A string: a token more, from after its opening quote to its closing one.
LEMMA StringReads ==
    ASSUME NEW p, NEW open, NEW super, NEW m, NEW k, Reading(p, open, super, m, k), super # 1,
           NEW S, NEW s \in Seq(S), Quote \in S, Passes(s),
           NEW t, t = Run(p, <<Quote>> \o s \o <<Quote>>)
    PROVE  /\ m < NumTokens =>
                 /\ Reading(t, open, super, m + 1, k)
                 /\ t.pos = p.pos + Len(s) + 2
                 /\ t.tokens[m + 1] = [type |-> "string", start |-> p.pos + 1,
                                        end |-> p.pos + 1 + Len(s), size |-> 0]
           /\ m = NumTokens => Stuck(t)
<1> DEFINE q == [p EXCEPT !.mode = "string", !.start = p.pos, !.pos = p.pos + 1]
           r == [q EXCEPT !.pos = p.pos + 1 + Len(s)]
           start == p.pos + 1
           end == p.pos + 1 + Len(s)
           a == AddToken(r, "string", start, end)
<1>1. Holds(p, open, super, m, k) /\ p.mode = "scan"
  BY DEF Reading
<1>2. /\ Sound(p) /\ p \in Parser /\ p.error = 0 /\ Unclosed(p) = open /\ 1 \in open
  BY <1>1, SoundFacts DEF Holds
<1>3. m \in Nat /\ m <= NumTokens /\ p.pos \in Nat /\ NumTokens \in Nat
  BY <1>1, HoldsFacts, NumTokensAssumption
<1>4. Len(s) \in Nat /\ <<Quote>> \in Seq(S)
  BY LenProperties
<1>5. Step(p, Quote) = q
  <2>1. Scan(p, Quote) = [p EXCEPT !.mode = "string", !.start = p.pos]
    BY DEF Scan, Space, Quote
  <2>2. Step(p, Quote) = [Scan(p, Quote) EXCEPT !.pos = p.pos + 1]
    BY <1>1, <1>2, ScanStep
  <2> QED
    BY <1>2, <2>1, <2>2 DEF Parser
<1>6. q \in Parser /\ q.mode = "string" /\ q.error = 0 /\ q.pos = p.pos + 1
  <2>1. /\ q.mode = "string" /\ q.error = 0 /\ q.pos = p.pos + 1
    BY <1>2 DEF Parser
  <2>2. q \in Parser
    <3>1. "string" \in Modes /\ p.pos + 1 \in Nat
      BY <1>3 DEF Modes
    <3> QED
      BY <1>2, <1>3, <3>1 DEF Parser
  <2> QED
    BY <2>1, <2>2
<1>7. Run(q, s) = r
  <2> HIDE DEF q
  <2>1. Run(q, s) = [q EXCEPT !.pos = @ + Len(s)]
    BY <1>6 DEF Passes
  <2> QED
    BY <1>6, <2>1
<1>8. t = Step(r, Quote)
  <2> DEFINE o == <<Quote>>
             u == o \o s
  <2>1. Run(p, o) = q
    BY <1>5, RunOfOne
  <2> HIDE DEF o, q, r
  <2>2. o \in Seq(S) /\ u \in Seq(S)
    BY <1>4, ConcatProperties DEF o
  <2>3. Run(p, o \o s) = r
    BY <1>7, <2>1, <2>2, RunOfTwo
  <2>4. Run(p, u) = r
    BY <2>3
  <2> HIDE DEF u
  <2>5. Run(p, u \o o) = Run(r, o)
    BY <2>2, <2>4, RunOfTwo
  <2>6. t = Run(p, u \o o)
    BY DEF o, u
  <2> QED
    BY <2>5, <2>6, RunOfOne DEF o
<1>9. Sound(q) /\ Sound(r)
  <2>1. Sound(q)
    BY <1>2, <1>5, StepSound
  <2> QED
    BY <1>7, <2>1, RunSound
<1>10. Sound(t)
  BY <1>8, <1>9, StepSound
<1>11. /\ r \in Parser /\ r.tokens = p.tokens /\ r.toksuper = p.toksuper /\ r.mode = "string"
       /\ r.error = 0 /\ r.start = p.pos /\ r.pos = end
  <2>1. /\ q.tokens = p.tokens /\ q.toksuper = p.toksuper /\ q.start = p.pos
    BY <1>2 DEF Parser
  <2> HIDE DEF q
  <2>2. /\ r.tokens = q.tokens /\ r.toksuper = q.toksuper /\ r.mode = q.mode
        /\ r.error = q.error /\ r.start = q.start /\ r.pos = end
    BY <1>6 DEF Parser
  <2>3. r \in Parser
    <3>1. end \in Nat
      BY <1>3, <1>4
    <3> HIDE DEF end
    <3> QED
      BY <1>6, <3>1 DEF Parser
  <2> QED
    BY <1>6, <2>1, <2>2, <2>3
<1>12. start \in Nat /\ end \in Nat /\ end # Unset /\ end + 1 = p.pos + Len(s) + 2
  BY <1>3, <1>4 DEF Unset
<1>13. t = [a EXCEPT !.pos = end + 1]
  <2> HIDE DEF r
  <2>1. Consume(r, Quote) = InString(r, Quote)
    BY <1>11 DEF Consume
  <2>2. InString(r, Quote) = AddToken(r, "string", r.start + 1, r.pos)
    BY DEF InString, Quote, Backslash
  <2>3. InString(r, Quote) = a
    BY <1>11, <2>2
  <2>4. Step(r, Quote) = [Consume(r, Quote) EXCEPT !.pos = r.pos + 1]
    BY <1>11 DEF Step
  <2> QED
    BY <1>8, <1>11, <2>1, <2>3, <2>4
<1>14. Holds(r, open, super, m, k)
  <2>1. Unclosed(r) = Unclosed(p)
    BY <1>11 DEF Unclosed
  <2> HIDE DEF r
  <2> QED
    BY <1>1, <1>9, <1>11, <2>1 DEF Holds
<1>15. a \in Parser
  <2>1. Within(Consume(r, Quote), r.pos + 1)
    BY <1>9, ConsumeWithin DEF Stepped
  <2> HIDE DEF r
  <2>2. Consume(r, Quote) = InString(r, Quote)
    BY <1>11 DEF Consume
  <2>3. InString(r, Quote) = AddToken(r, "string", r.start + 1, r.pos)
    BY DEF InString, Quote, Backslash
  <2> QED
    BY <1>11, <2>1, <2>2, <2>3 DEF Within
<1>16. CASE m < NumTokens
  <2>1. a = AddToken(r, "string", start, end)
    OBVIOUS
  <2> HIDE DEF a, r, start, end
  <2>2. /\ a \in Parser /\ a.error = 0 /\ a.mode = "scan" /\ a.toksuper = super
        /\ Len(a.tokens) = m + 1
        /\ Unclosed(a) = IF end = Unset THEN open \cup {m + 1} ELSE open
        /\ a.tokens[1].type = "array"
        /\ a.tokens[1].size = IF super = 1 THEN k + 1 ELSE k
        /\ a.tokens[m + 1] = [type |-> "string", start |-> start, end |-> end, size |-> 0]
    BY <1>12, <1>14, <1>16, <2>1, AddedToken
  <2>3. /\ t.tokens = a.tokens /\ t.toksuper = super /\ t.mode = "scan" /\ t.error = 0
        /\ t.pos = end + 1
    BY <1>13, <2>2 DEF Parser
  <2>4. Unclosed(t) = open
    BY <1>12, <2>2, <2>3 DEF Unclosed
  <2>5. Reading(t, open, super, m + 1, k)
    BY <1>2, <1>10, <2>2, <2>3, <2>4 DEF Reading, Holds
  <2>6. t.tokens[m + 1] = [type |-> "string", start |-> start, end |-> end, size |-> 0]
    BY <2>2, <2>3
  <2>7. m # NumTokens
    BY <1>3, <1>16
  <2> QED
    BY <1>12, <2>3, <2>5, <2>6, <2>7 DEF start, end
<1>17. CASE m = NumTokens
  <2>1. a = Fail(r, NOMEM)
    BY <1>14, <1>17, NoRoom
  <2> HIDE DEF a, r, end
  <2>2. a.error = NOMEM /\ NOMEM # 0 /\ a.tokens = r.tokens
    BY <1>11, <2>1 DEF Fail, Parser, NOMEM
  <2>3. t.error # 0 /\ t.tokens = p.tokens
    BY <1>11, <1>13, <1>15, <2>2 DEF Parser
  <2>4. Stuck(t)
    BY <1>2, <1>10, <2>3 DEF Stuck, Unclosed
  <2>5. ~(m < NumTokens)
    BY <1>3, <1>17
  <2> QED
    BY <2>4, <2>5
<1> QED
  BY <1>3, <1>16, <1>17

-----------------------------------------------------------------------------
(* A document read from its first character, piece by piece.                 *)

\* The parser after these characters.
Scanned(u) == Run(Fresh, u)

\* They end inside the array, in no string and no primitive.
Doc(u, open, super, m, k) == Reading(Scanned(u), open, super, m, k) /\ Scanned(u).pos = Len(u)

\* They took more tokens than there are.
Full(u) == Stuck(Scanned(u))

\* The i-th token is a string, and its characters are s.
Stored(u, i, s) ==
    /\ i \in 1..Len(Scanned(u).tokens)
    /\ Scanned(u).tokens[i].type = "string"
    /\ Scanned(u).tokens[i].end # Unset
    /\ Contents(u, Scanned(u).tokens[i]) = s

\* The i-th token is an object.
IsObject(u, i) ==
    i \in 1..Len(Scanned(u).tokens) /\ Scanned(u).tokens[i].type = "object"

\* The parser of a text is sound, and no further than its end.
LEMMA ReadSound ==
    ASSUME NEW S, NEW u \in Seq(S)
    PROVE  Sound(Scanned(u)) /\ Scanned(u).pos <= Len(u)
<1>1. Sound(Scanned(u)) /\ Scanned(u).pos <= Fresh.pos + Len(u)
  BY FreshSound, RunSound DEF Scanned
<1>2. Fresh.pos = 0 /\ Len(u) \in Nat
  BY LenProperties DEF Fresh
<1> QED
  BY <1>1, <1>2

\* More characters go on from the parser of those before them.
LEMMA ReadMore ==
    ASSUME NEW S, NEW u \in Seq(S), NEW s \in Seq(S)
    PROVE  /\ Scanned(u \o s) = Run(Scanned(u), s)
           /\ u \o s \in Seq(S) /\ Len(u \o s) = Len(u) + Len(s)
           /\ Len(u) \in Nat /\ Len(s) \in Nat
BY RunOfConcat, ConcatProperties, LenProperties DEF Scanned

\* One character more is one step more.
LEMMA ReadOne ==
    ASSUME NEW S, NEW u \in Seq(S), NEW c \in S
    PROVE  /\ Scanned(u \o <<c>>) = Step(Scanned(u), c)
           /\ u \o <<c>> \in Seq(S) /\ Len(u \o <<c>>) = Len(u) + 1
           /\ Len(u) \in Nat
<1> DEFINE s == <<c>>
<1>1. s \in Seq(S) /\ Len(s) = 1
  OBVIOUS
<1>2. \A p : Run(p, s) = Step(p, c)
  BY RunOfOne
<1> HIDE DEF s
<1>3. Scanned(u \o s) = Step(Scanned(u), c) /\ u \o s \in Seq(S) /\ Len(u \o s) = Len(u) + 1
      /\ Len(u) \in Nat
  BY <1>1, <1>2, ReadMore
<1> QED
  BY <1>3 DEF s

\* What more characters leave of the tokens.
LEMMA ReadExtends ==
    ASSUME NEW S, NEW u \in Seq(S), NEW s \in Seq(S)
    PROVE  Extends(Scanned(u \o s), Scanned(u))
<1> DEFINE p == Scanned(u)
           n == Len(s)
<1>1. Sound(p) /\ n \in Nat
  BY ReadSound, LenProperties
<1>2. Scanned(u \o s) = Run(p, s)
  BY ReadMore
<1>3. Runs(p, s)[0] = p
  BY <1>1, RunsEquation
<1>4. Runs(p, s)[n] = Run(p, s)
  BY DEF Run
<1> HIDE DEF p, n
<1>5. Extends(Runs(p, s)[n], Runs(p, s)[0])
  <2> DEFINE z == 0
  <2>1. z \in 0..n /\ n \in z..n
    BY <1>1
  <2> HIDE DEF z
  <2>2. z \in 0..Len(s) /\ n \in z..Len(s)
    BY <2>1 DEF n
  <2>3. Extends(Runs(p, s)[n], Runs(p, s)[z])
    BY <1>1, <2>2, RunsExtend
  <2> QED
    BY <2>3 DEF z
<1> QED
  BY <1>2, <1>3, <1>4, <1>5 DEF p

\* A string stays where it was stored.
LEMMA StoredLater ==
    ASSUME NEW S, NEW u \in Seq(S), NEW s \in Seq(S), NEW i, NEW x, Stored(u, i, x)
    PROVE  Stored(u \o s, i, x)
<1> DEFINE p == Scanned(u)
           v == u \o s
           q == Scanned(v)
<1>1. Sound(p) /\ p.pos <= Len(u) /\ Len(u) \in Nat /\ v \in Seq(S) /\ Sound(q)
  BY ReadSound, ReadMore
<1>2. Extends(q, p)
  BY ReadExtends
<1>3. /\ i \in 1..Len(p.tokens)
      /\ p.tokens[i].type = "string"
      /\ p.tokens[i].end # Unset
      /\ Contents(u, p.tokens[i]) = x
  BY DEF Stored
<1>4. p.tokens \in TokenSeq /\ q.tokens \in TokenSeq /\ p.pos \in Nat
  BY <1>1, SoundFacts
<1>5. p.tokens[i] \in Token /\ Lies(p.tokens[i], p.pos)
  BY <1>1, <1>3, <1>4, SeqOfTokens DEF Sound, Within
<1> DEFINE a == p.tokens[i].start
           b == p.tokens[i].end
<1>6. a \in Nat /\ b \in Nat /\ a <= b /\ b <= Len(u)
  BY <1>1, <1>3, <1>4, <1>5 DEF Lies, Token
<1> HIDE DEF p, q
<1>7. /\ i \in 1..Len(q.tokens) /\ q.tokens[i].type = "string"
      /\ q.tokens[i].start = a /\ q.tokens[i].end = b
  <2>1. Len(p.tokens) \in Nat /\ Len(q.tokens) \in Nat
    BY <1>4, SeqOfTokens
  <2> QED
    BY <1>2, <1>3, <2>1 DEF Extends
<1>8. SubSeq(v, a + 1, b) = SubSeq(u, a + 1, b)
  <2>1. CASE a = b
    <3>1. a + 1 \in Int /\ b \in Int /\ b < a + 1
      BY <1>6, <2>1
    <3> QED
      BY <3>1, SubSeqEmpty
  <2>2. CASE a # b
    <3> DEFINE m == a + 1
    <3>1. m \in 1..Len(u) /\ b \in 1..Len(u)
      BY <1>1, <1>6, <2>2
    <3> HIDE DEF m, b
    <3> QED
      BY <3>1, SubSeqOfConcat1 DEF m
  <2> QED
    BY <2>1, <2>2
<1>9. Contents(v, q.tokens[i]) = x
  BY <1>3, <1>7, <1>8 DEF Contents
<1> QED
  BY <1>3, <1>7, <1>9 DEF Stored, q

\* An object too.
LEMMA ObjectLater ==
    ASSUME NEW S, NEW u \in Seq(S), NEW s \in Seq(S), NEW i, IsObject(u, i)
    PROVE  IsObject(u \o s, i)
<1> DEFINE p == Scanned(u)
           q == Scanned(u \o s)
<1>1. Sound(p) /\ Sound(q)
  BY ReadSound, ReadMore
<1>2. Extends(q, p)
  BY ReadExtends
<1>3. i \in 1..Len(p.tokens) /\ p.tokens[i].type = "object"
  BY DEF IsObject
<1>4. Len(p.tokens) \in Nat /\ Len(q.tokens) \in Nat
  BY <1>1, SoundFacts
<1> HIDE DEF p, q
<1> QED
  BY <1>2, <1>3, <1>4 DEF Extends, IsObject, q

\* Without a token left the parser does not move.
LEMMA FullLater ==
    ASSUME NEW S, NEW u \in Seq(S), NEW s \in Seq(S), Full(u)
    PROVE  Full(u \o s)
<1> DEFINE p == Scanned(u)
           Q == {p}
<1>1. p.error # 0 /\ Stuck(p)
  BY DEF Full, Stuck
<1>2. Scanned(u \o s) = Run(p, s)
  BY ReadMore
<1>3. Run(p, s) = p
  <2>1. p \in Q /\ \A q \in Q : \A c \in S : Step(q, c) \in Q
    BY <1>1 DEF Step
  <2> HIDE DEF p, Q
  <2>2. \A n \in 0..Len(s) : Runs(p, s)[n] \in Q
    BY <2>1, RunsKeep
  <2>3. Len(s) \in 0..Len(s)
    BY LenProperties
  <2>4. Run(p, s) \in Q
    BY <2>2, <2>3 DEF Run
  <2> QED
    BY <2>4 DEF Q
<1> QED
  BY <1>1, <1>2, <1>3 DEF Full

-----------------------------------------------------------------------------
(* The pieces of a document.                                                 *)

\* The elements of two sequences put together.
LEMMA ConcatLeft ==
    ASSUME NEW S, NEW s \in Seq(S), NEW t \in Seq(S), NEW i \in 1..Len(s)
    PROVE  (s \o t)[i] = s[i]
<1>1. Len(s) \in Nat /\ Len(t) \in Nat
  BY LenProperties
<1> QED
  BY <1>1, ConcatProperties

\* and those of the second come after them.
LEMMA ConcatRight ==
    ASSUME NEW S, NEW s \in Seq(S), NEW t \in Seq(S), NEW n, n = Len(s), NEW i \in 1..Len(t)
    PROVE  (s \o t)[n + i] = t[i]
<1>1. Len(s) \in Nat /\ Len(t) \in Nat
  BY LenProperties
<1> QED
  BY <1>1, ConcatProperties

\* A sequence found inside another is what SubSeq takes out of it.
LEMMA MiddleIs ==
    ASSUME NEW S, NEW v \in Seq(S), NEW s \in Seq(S), NEW n \in Nat, n + Len(s) <= Len(v),
           \A i \in 1..Len(s) : v[n + i] = s[i]
    PROVE  SubSeq(v, n + 1, n + Len(s)) = s
<1> DEFINE b == Len(s)
           l == n + 1
           r == n + b
           x == SubSeq(v, l, r)
<1>1. b \in Nat /\ Len(v) \in Nat
  BY LenProperties
<1>2. l \in Int /\ r \in Int /\ r - l + 1 = b /\ (l <= r <=> b # 0)
  BY <1>1
<1>3. \A i \in l..r : v[i] \in S
  <2>1. \A i \in l..r : i \in 1..Len(v)
    BY <1>1
  <2> HIDE DEF l, r
  <2> QED
    BY <2>1, ElementOfSeq
<1>4. \A i \in 1..b : l + i - 1 = n + i
  BY <1>1
<1> HIDE DEF l, r
<1>5. /\ x \in Seq(S)
      /\ Len(x) = IF l <= r THEN r - l + 1 ELSE 0
      /\ \A i \in 1..(r - l + 1) : x[i] = v[l + i - 1]
  BY <1>2, <1>3, SubSeqProperties
<1> HIDE DEF x, b
<1>6. Len(x) = b /\ \A i \in 1..b : x[i] = v[l + i - 1]
  BY <1>1, <1>2, <1>5
<1>7. \A i \in 1..b : x[i] = s[i]
  BY <1>4, <1>6 DEF b
<1>8. x = s
  BY <1>5, <1>6, <1>7, SeqEqual DEF b
<1> QED
  BY <1>8 DEF x, l, r, b

\* A string, quotes included.
Quoted(s) == <<Quote>> \o s \o <<Quote>>

\* A quoted string is a token more, and its characters are those between the
\* quotes; without a token left, the parser stops there.
LEMMA StringDoc ==
    ASSUME NEW S, NEW u \in Seq(S), NEW s \in Seq(S), Quote \in S, Passes(s),
           NEW open, NEW super, NEW m, NEW k, Doc(u, open, super, m, k), super # 1
    PROVE  LET v == u \o Quoted(s) IN
           /\ v \in Seq(S)
           /\ m < NumTokens => Doc(v, open, super, m + 1, k) /\ Stored(v, m + 1, s)
           /\ m = NumTokens => Full(v)
<1> DEFINE w == Quoted(s)
           v == u \o w
           p == Scanned(u)
           t == Scanned(v)
           a == Len(u)
           b == Len(s)
<1>1. Reading(p, open, super, m, k) /\ p.pos = a
  BY DEF Doc
<1>2. a \in Nat /\ b \in Nat
  BY LenProperties
<1>3. w \in Seq(S) /\ Len(w) = b + 2 /\ \A i \in 1..b : w[1 + i] = s[i]
  <2> DEFINE o == <<Quote>>
             x == o \o s
  <2>1. o \in Seq(S) /\ Len(o) = 1
    OBVIOUS
  <2> HIDE DEF o
  <2>2. x \in Seq(S) /\ Len(x) = 1 + b /\ \A i \in 1..b : x[1 + i] = s[i]
    <3>1. x \in Seq(S) /\ Len(x) = 1 + b
      BY <2>1, ConcatProperties
    <3> DEFINE n == 1
    <3>2. n = Len(o) /\ o \in Seq(S)
      BY <2>1
    <3> HIDE DEF n
    <3>3. \A i \in 1..b : (o \o s)[n + i] = s[i]
      <4> TAKE i \in 1..b
      <4> QED
        BY <3>2, ConcatRight
    <3> QED
      BY <3>1, <3>3 DEF n
  <2> HIDE DEF x
  <2>3. /\ x \o o \in Seq(S) /\ Len(x \o o) = b + 2
        /\ \A i \in 1..b : (x \o o)[1 + i] = x[1 + i]
    <3>1. x \o o \in Seq(S) /\ Len(x \o o) = Len(x) + Len(o)
      BY <2>1, <2>2, ConcatProperties
    <3>2. \A i \in 1..Len(x) : (x \o o)[i] = x[i]
      BY <2>1, <2>2, ConcatLeft
    <3>3. \A i \in 1..b : 1 + i \in 1..Len(x)
      BY <1>2, <2>2
    <3>4. Len(x) + Len(o) = b + 2
      BY <1>2, <2>1, <2>2
    <3> QED
      BY <3>1, <3>3, <3>4, <3>2
  <2>4. w = x \o o
    BY DEF Quoted, x, o
  <2> QED
    BY <2>2, <2>3, <2>4
<1>4. /\ v \in Seq(S) /\ Len(v) = a + (b + 2)
      /\ \A i \in 1..(b + 2) : v[a + i] = w[i]
  <2> HIDE DEF w, a
  <2>1. v \in Seq(S) /\ Len(v) = a + (b + 2)
    <3>1. v \in Seq(S) /\ Len(v) = Len(u) + Len(w)
      BY <1>3, ConcatProperties
    <3> QED
      BY <1>3, <3>1 DEF a
  <2>2. \A i \in 1..(b + 2) : v[a + i] = w[i]
    BY <1>3, ConcatRight DEF a
  <2> QED
    BY <2>1, <2>2
<1>5. t = Run(p, <<Quote>> \o s \o <<Quote>>)
  BY <1>3, ReadMore DEF Quoted
<1>6. /\ m < NumTokens =>
            /\ Reading(t, open, super, m + 1, k)
            /\ t.pos = p.pos + Len(s) + 2
            /\ t.tokens[m + 1] = [type |-> "string", start |-> p.pos + 1,
                                  end |-> p.pos + 1 + Len(s), size |-> 0]
      /\ m = NumTokens => Stuck(t)
  <2> HIDE DEF t, p, w
  <2>1. t = Run(p, <<Quote>> \o s \o <<Quote>>) /\ Reading(p, open, super, m, k) /\ super # 1
    BY <1>1, <1>5
  <2> QED
    BY ONLY <2>1, s \in Seq(S), Quote \in S, Passes(s), StringReads
<1> HIDE DEF w
<1>7. CASE m < NumTokens
  <2> DEFINE token == t.tokens[m + 1]
  <2>1. Reading(t, open, super, m + 1, k) /\ t.pos = a + b + 2
        /\ token = [type |-> "string", start |-> a + 1, end |-> a + 1 + b, size |-> 0]
    BY <1>1, <1>6, <1>7
  <2>2. Doc(v, open, super, m + 1, k)
    <3>1. a + b + 2 = a + (b + 2)
      BY <1>2
    <3> QED
      BY <1>4, <2>1, <3>1 DEF Doc
  <2>3. m + 1 \in 1..Len(t.tokens)
    <3>1. Holds(t, open, super, m + 1, k) /\ Holds(p, open, super, m, k)
      BY <1>1, <2>1 DEF Reading
    <3>2. Len(t.tokens) = m + 1
      BY <3>1 DEF Holds
    <3>3. m \in Nat
      BY <3>1, HoldsFacts
    <3> QED
      BY <3>2, <3>3
  <2> HIDE DEF token
  <2>4. /\ token.type = "string" /\ token.start = a + 1 /\ token.end = a + 1 + b
        /\ token.end # Unset
    BY <1>2, <2>1 DEF Unset
  <2>5. SubSeq(v, a + 2, a + 1 + b) = s
    <3> DEFINE n == a + 1
    <3>1. n \in Nat /\ n + b <= Len(v) /\ n + 1 = a + 2
      BY <1>2, <1>4
    <3>2. \A i \in 1..b : v[n + i] = s[i]
      <4> SUFFICES ASSUME NEW i \in 1..b
                   PROVE  v[n + i] = s[i]
        OBVIOUS
      <4>1. 1 + i \in 1..(b + 2) /\ n + i = a + (1 + i)
        BY <1>2
      <4> HIDE DEF v, n
      <4>2. v[a + (1 + i)] = w[1 + i]
        BY <1>4, <4>1
      <4> QED
        BY <1>3, <4>1, <4>2
    <3> HIDE DEF v, n
    <3>3. SubSeq(v, n + 1, n + Len(s)) = s
      BY <1>4, <3>1, <3>2, MiddleIs
    <3> QED
      BY <3>1, <3>3 DEF n
  <2>6. Contents(v, token) = s
    <3>1. a + 1 + 1 = a + 2
      BY <1>2
    <3> QED
      BY <2>4, <2>5, <3>1 DEF Contents
  <2>7. Stored(v, m + 1, s)
    BY <2>3, <2>4, <2>6 DEF Stored, token
  <2>8. m # NumTokens
    <3>1. Holds(p, open, super, m, k)
      BY <1>1 DEF Reading
    <3> QED
      BY <1>7, <3>1, HoldsFacts, NumTokensAssumption
  <2> QED
    BY <1>4, <2>2, <2>7, <2>8 DEF w
<1>8. CASE ~(m < NumTokens)
  BY <1>4, <1>6, <1>8 DEF Full, w
<1> QED
  BY <1>7, <1>8

\* What the other pieces have in common: one character, one step.
LEMMA DocFacts ==
    ASSUME NEW u, NEW open, NEW super, NEW m, NEW k, Doc(u, open, super, m, k)
    PROVE  /\ Reading(Scanned(u), open, super, m, k) /\ Scanned(u).pos = Len(u)
           /\ m \in Nat /\ m >= 1 /\ m <= NumTokens /\ k \in Nat
           /\ Len(Scanned(u).tokens) = m
<1>1. Reading(Scanned(u), open, super, m, k) /\ Scanned(u).pos = Len(u)
  BY DEF Doc
<1>2. Holds(Scanned(u), open, super, m, k)
  BY <1>1 DEF Reading
<1>3. m \in Nat /\ m >= 1 /\ m <= NumTokens /\ k \in Nat
  BY <1>2, HoldsFacts
<1> QED
  BY <1>1, <1>2, <1>3 DEF Holds

\* '{' is an item more of the array, and a token more.
LEMMA BraceDoc ==
    ASSUME NEW S, NEW u \in Seq(S), LeftBrace \in S, NEW m, NEW k, Doc(u, {1}, 1, m, k)
    PROVE  LET v == u \o <<LeftBrace>> IN
           /\ v \in Seq(S)
           /\ m < NumTokens => Doc(v, {1, m + 1}, m + 1, m + 1, k + 1) /\ IsObject(v, m + 1)
           /\ m = NumTokens => Full(v)
<1> DEFINE p == Scanned(u)
           v == u \o <<LeftBrace>>
           t == Scanned(v)
           open == {1}
           super == 1
<1>1. Reading(p, open, super, m, k) /\ p.pos = Len(u) /\ m \in Nat
  BY DocFacts
<1>2. t = Step(p, LeftBrace) /\ v \in Seq(S) /\ Len(v) = Len(u) + 1
  BY ReadOne
<1>3. Scan(p, LeftBrace) = OpenBracket(p, "object")
  BY BracketScans
<1>4. {1} \cup {m + 1} = {1, m + 1}
  OBVIOUS
<1> HIDE DEF open, super, v, t, p
<1>5. "object" \in {"object", "array"}
  OBVIOUS
<1>6. /\ m < NumTokens =>
            /\ Reading(t, open \cup {m + 1}, m + 1, m + 1, k + 1)
            /\ t.pos = p.pos + 1
            /\ t.tokens[m + 1].type = "object"
      /\ m = NumTokens => Stuck(t)
  <2>1. /\ m < NumTokens =>
              /\ Reading(Step(p, LeftBrace), open \cup {m + 1}, m + 1, m + 1,
                         k + 1)
              /\ Step(p, LeftBrace).pos = p.pos + 1
              /\ Step(p, LeftBrace).tokens[m + 1].type = "object"
        /\ m = NumTokens => Stuck(Step(p, LeftBrace))
    <3>1. Reading(p, open, 1, m, k)
      BY <1>1 DEF super
    <3> DEFINE type == "object"
               c == LeftBrace
    <3> HIDE DEF c, type
    <3>2. type \in {"object", "array"} /\ Scan(p, c) = OpenBracket(p, type)
      BY <1>3 DEF type, c
    <3>3. /\ m < NumTokens =>
                /\ Reading(Step(p, c), open \cup {m + 1}, m + 1, m + 1,
                           k + 1)
                /\ Step(p, c).pos = p.pos + 1
                /\ Step(p, c).tokens[m + 1].type = type
          /\ m = NumTokens => Stuck(Step(p, c))
      BY ONLY <3>1, <3>2, OpenReads
    <3> QED
      BY <3>3 DEF type, c
  <2> QED
    BY <1>2, <2>1
<1>7. ASSUME m < NumTokens
      PROVE  Doc(v, {1, m + 1}, m + 1, m + 1, k + 1) /\ IsObject(v, m + 1)
  <2>1. Reading(t, {1, m + 1}, m + 1, m + 1, k + 1)
    BY <1>4, <1>6, <1>7 DEF open, super
  <2>2. Doc(v, {1, m + 1}, m + 1, m + 1, k + 1)
    BY <1>1, <1>2, <1>6, <1>7, <2>1 DEF Doc, t
  <2>3. m + 1 \in 1..Len(t.tokens)
    <3> DEFINE o == {1, m + 1}
               n == m + 1
    <3> HIDE DEF o, n
    <3>1. Doc(v, o, n, n, k + 1)
      BY <2>2 DEF o, n
    <3>2. Len(t.tokens) = n
      BY <3>1, DocFacts DEF t
    <3> QED
      BY <1>1, <3>2 DEF n
  <2> QED
    BY <1>6, <1>7, <2>2, <2>3 DEF IsObject, t
<1> QED
  BY <1>2, <1>6, <1>7 DEF Full, v, t

\* ':' makes the key the superior token.
LEMMA ColonDoc ==
    ASSUME NEW S, NEW u \in Seq(S), Colon \in S,
           NEW open, NEW super, NEW m, NEW k, Doc(u, open, super, m, k)
    PROVE  u \o <<Colon>> \in Seq(S) /\ Doc(u \o <<Colon>>, open, m, m, k)
<1>1. Reading(Scanned(u), open, super, m, k) /\ Scanned(u).pos = Len(u)
  BY DocFacts
<1>2. /\ Scanned(u \o <<Colon>>) = Step(Scanned(u), Colon)
      /\ u \o <<Colon>> \in Seq(S) /\ Len(u \o <<Colon>>) = Len(u) + 1
  BY ReadOne
<1>3. Reading(Step(Scanned(u), Colon), open, m, m, k) /\ Step(Scanned(u), Colon).pos = Scanned(u).pos + 1
  BY <1>1, ColonReads
<1> QED
  BY <1>1, <1>2, <1>3 DEF Doc

\* ',' between the pairs of an object goes back to the object.
LEMMA CommaDoc ==
    ASSUME NEW S, NEW u \in Seq(S), CommaChar \in S, NEW x,
           NEW i, NEW super, NEW m, NEW k, Doc(u, {1, i}, super, m, k),
           Stored(u, super, x), i \in Nat, i > 1
    PROVE  u \o <<CommaChar>> \in Seq(S) /\ Doc(u \o <<CommaChar>>, {1, i}, i, m, k)
<1> DEFINE open == {1, i}
           p == Scanned(u)
<1>1. Reading(p, open, super, m, k) /\ p.pos = Len(u) /\ Len(p.tokens) = m /\ m \in Nat
  BY DocFacts
<1>2. /\ Scanned(u \o <<CommaChar>>) = Step(p, CommaChar)
      /\ u \o <<CommaChar>> \in Seq(S) /\ Len(u \o <<CommaChar>>) = Len(u) + 1
  BY ReadOne
<1>3. super # 0 /\ p.tokens[super].type = "string"
  <2>1. super \in 1..Len(p.tokens) /\ p.tokens[super].type = "string"
    BY Zenon DEF Stored
  <2> HIDE DEF p, open
  <2>2. Len(p.tokens) \in Nat
    BY <1>1
  <2>3. super # 0
    BY <2>1, <2>2
  <2> QED
    BY <2>1, <2>3
<1>4. i \in open /\ \A j \in open : j <= i
  <2>1. i \in open /\ \A j \in open : j = 1 \/ j = i
    OBVIOUS
  <2>2. 1 <= i /\ i <= i
    OBVIOUS
  <2> HIDE DEF open, p
  <2> QED
    BY <2>1, <2>2, Zenon
<1> HIDE DEF open, p
<1>5. Reading(Step(p, CommaChar), open, i, m, k) /\ Step(p, CommaChar).pos = p.pos + 1
  BY <1>1, <1>3, <1>4, CommaReads
<1> QED
  BY <1>1, <1>2, <1>5 DEF Doc, open

\* ',' between the items of the array changes nothing.
LEMMA ItemCommaDoc ==
    ASSUME NEW S, NEW u \in Seq(S), CommaChar \in S, NEW m, NEW k, Doc(u, {1}, 1, m, k)
    PROVE  u \o <<CommaChar>> \in Seq(S) /\ Doc(u \o <<CommaChar>>, {1}, 1, m, k)
<1> DEFINE open == {1}
           p == Scanned(u)
<1>1. Reading(p, open, 1, m, k) /\ p.pos = Len(u)
  BY DocFacts
<1>2. /\ Scanned(u \o <<CommaChar>>) = Step(p, CommaChar)
      /\ u \o <<CommaChar>> \in Seq(S) /\ Len(u \o <<CommaChar>>) = Len(u) + 1
  BY ReadOne
<1> HIDE DEF open, p
<1>3. Reading(Step(p, CommaChar), open, 1, m, k) /\ Step(p, CommaChar).pos = p.pos + 1
  BY <1>1, ItemCommaReads
<1> QED
  BY <1>1, <1>2, <1>3 DEF Doc, open

\* '}' ends the object and goes back to the array.
LEMMA CloseDoc ==
    ASSUME NEW S, NEW u \in Seq(S), RightBrace \in S,
           NEW i, NEW super, NEW m, NEW k, Doc(u, {1, i}, super, m, k), IsObject(u, i), i # 1
    PROVE  u \o <<RightBrace>> \in Seq(S) /\ Doc(u \o <<RightBrace>>, {1}, 1, m, k)
<1> DEFINE p == Scanned(u)
<1>1. Reading(p, {1, i}, super, m, k) /\ p.pos = Len(u) /\ p.tokens[i].type = "object"
  BY DocFacts DEF IsObject
<1>2. /\ Scanned(u \o <<RightBrace>>) = Step(p, RightBrace)
      /\ u \o <<RightBrace>> \in Seq(S) /\ Len(u \o <<RightBrace>>) = Len(u) + 1
  BY ReadOne
<1> HIDE DEF p
<1>3. Reading(Step(p, RightBrace), {1}, 1, m, k) /\ Step(p, RightBrace).pos = p.pos + 1
  BY <1>1, CloseReads
<1> QED
  BY <1>1, <1>2, <1>3 DEF Doc

\* '[' alone: the array, open and empty.
LEMMA StartDoc == Doc(<<LeftBracket>>, {1}, 1, 1, 0)
<1> DEFINE token == [type |-> "array", start |-> 0, end |-> Unset, size |-> 0]
           q == [Fresh EXCEPT !.tokens = <<token>>, !.count = 1, !.mode = "scan"]
           r == [q EXCEPT !.toksuper = 1]
           t == Scanned(<<LeftBracket>>)
<1>1. Sound(Fresh) /\ Fresh.error = 0 /\ Fresh.mode = "scan"
  BY FreshSound DEF Fresh
<1>2. t = Step(Fresh, LeftBracket)
  BY RunOfOne DEF Scanned
<1>3. t = [OpenBracket(Fresh, "array") EXCEPT !.pos = Fresh.pos + 1]
  BY <1>1, <1>2, ScanStep, BracketScans
<1>4. Sound(t)
  BY <1>1, <1>2, StepSound
<1>5. AddToken(Fresh, "array", Fresh.pos, Unset) = q
  <2>1. Grown(Fresh) = <<>> /\ Fresh.pos = 0 /\ Fresh.tokens = <<>> /\ Fresh.count = 0
    BY DEF Grown, Fresh
  <2>2. ~(Len(Fresh.tokens) >= NumTokens)
    <3>1. Len(<<>>) = 0
      OBVIOUS
    <3> QED
      BY <2>1, <3>1, NumTokensAssumption
  <2>3. Append(<<>>, token) = <<token>>
    <3> HIDE DEF token
    <3> QED
      OBVIOUS
  <2>4. AddToken(Fresh, "array", 0, Unset)
           = [Fresh EXCEPT !.tokens = Append(Grown(Fresh), token), !.count = @ + 1,
                           !.mode = "scan"]
    BY <2>2, Zenon DEF AddToken
  <2>5. Fresh.count + 1 = 1
    BY <2>1
  <2> HIDE DEF token
  <2> QED
    BY <2>1, <2>3, <2>4, <2>5
<1>6. q.error = 0 /\ q.tokens = <<token>> /\ q.mode = "scan" /\ Len(q.tokens) = 1
  <2>1. q.error = 0 /\ q.tokens = <<token>> /\ q.mode = "scan"
    <3> HIDE DEF token
    <3> QED
      BY DEF Fresh
  <2>2. Len(<<token>>) = 1
    <3> HIDE DEF token
    <3> QED
      OBVIOUS
  <2> HIDE DEF token, q
  <2> QED
    BY <2>1, <2>2
<1>7. OpenBracket(Fresh, "array") = r
  <2> HIDE DEF q, token
  <2> QED
    BY <1>5, <1>6 DEF OpenBracket
<1>8. /\ t.tokens = <<token>> /\ t.toksuper = 1 /\ t.mode = "scan" /\ t.error = 0
      /\ t.pos = 1
  <2>1. DOMAIN q = DOMAIN Fresh
    BY DEF Fresh
  <2> HIDE DEF token, t, q
  <2>2. /\ r.tokens = <<token>> /\ r.toksuper = 1 /\ r.mode = "scan" /\ r.error = 0
        /\ DOMAIN r = DOMAIN Fresh
    BY <1>6, <2>1 DEF Fresh
  <2> HIDE DEF r
  <2>3. Fresh.pos + 1 = 1
    BY DEF Fresh
  <2> QED
    BY <1>3, <1>7, <2>2, <2>3 DEF Fresh
<1>9. Len(<<token>>) = 1 /\ DOMAIN <<token>> = 1..1 /\ <<token>>[1] = token
  <2> HIDE DEF token
  <2> QED
    OBVIOUS
<1>10. token.type = "array" /\ token.size = 0 /\ token.end = Unset
  OBVIOUS
<1> HIDE DEF token, t
<1>11. Unclosed(t) = {1}
  <2>1. DOMAIN t.tokens = {1}
    BY <1>8, <1>9
  <2>2. t.tokens[1].end = Unset
    BY <1>8, <1>9, <1>10
  <2> QED
    BY <2>1, <2>2 DEF Unclosed
<1>12. Reading(t, {1}, 1, 1, 0)
  BY <1>4, <1>8, <1>9, <1>10, <1>11 DEF Reading, Holds
<1>13. Len(<<LeftBracket>>) = 1
  OBVIOUS
<1> QED
  BY <1>8, <1>12, <1>13 DEF Doc, t

\* ']' closes the array, the last bracket.
LEMMA ArrayCloses ==
    ASSUME NEW p, NEW super, NEW m, NEW k, Reading(p, {1}, super, m, k)
    PROVE  LET t == Step(p, RightBracket) IN
           /\ Sound(t) /\ t.mode = "scan" /\ t.error = 0 /\ Unclosed(t) = {}
           /\ Len(t.tokens) = m /\ t.tokens[1].type = "array" /\ t.tokens[1].size = k
<1> DEFINE u == [p.tokens[1] EXCEPT !.end = p.pos + 1]
           ts == [p.tokens EXCEPT ![1] = u]
           q == [p EXCEPT !.tokens = ts, !.toksuper = 0]
           t == Step(p, RightBracket)
<1>1. Holds(p, {1}, super, m, k) /\ p.mode = "scan"
  BY DEF Reading
<1>2. /\ Sound(p) /\ p \in Parser /\ p.error = 0 /\ Unclosed(p) = {1}
      /\ p.tokens[1].type = "array" /\ p.tokens[1].size = k /\ Len(p.tokens) = m
  BY <1>1, SoundFacts DEF Holds
<1>3. /\ m \in Nat /\ 1 \in 1..m /\ p.pos \in Nat /\ p.tokens \in TokenSeq
      /\ \A j \in 1..m : p.tokens[j] \in Token
  BY <1>1, HoldsFacts
<1>4. Innermost(p) = 1
  <2>1. Innermost(p) \in {1}
    BY <1>2, InnermostIsOpen
  <2> QED
    BY <2>1
<1>5. Max({0} \cup (Unclosed(p) \ {1})) = 0
  <2>1. {0} \cup (Unclosed(p) \ {1}) = {0}
    BY <1>2
  <2>2. {0} \in SUBSET (0..1) /\ {0} # {}
    OBVIOUS
  <2>3. Max({0}) \in {0}
    BY <2>2, Greatest
  <2> QED
    BY <2>1, <2>3
<1>6. Scan(p, RightBracket) = q
  <2>1. Scan(p, RightBracket) = CloseBracket(p, "array")
    BY DEF Scan, Space, Quote, RightBracket
  <2>2. ~(Unclosed(p) = {} \/ p.tokens[Innermost(p)].type # "array")
    BY <1>2, <1>4
  <2>3. CloseBracket(p, "array") = q
    BY <1>4, <1>5, <2>2 DEF CloseBracket
  <2> QED
    BY <2>1, <2>3
<1>7. t = [q EXCEPT !.pos = p.pos + 1] /\ q \in Parser
  <2>1. /\ t = [Scan(p, RightBracket) EXCEPT !.pos = p.pos + 1]
        /\ Scan(p, RightBracket) \in Parser
    BY <1>1, <1>2, ScanStep
  <2> QED
    BY <1>6, <2>1
<1>8. Sound(t)
  BY <1>2, StepSound
<1>9. u \in Token /\ u.type = "array" /\ u.size = k /\ u.end # Unset
  <2>1. p.tokens[1] \in Token
    BY <1>3
  <2>2. u.type = "array" /\ u.size = k /\ u.end = p.pos + 1
    BY <1>2, <2>1 DEF Token
  <2>3. u \in Token
    BY <1>3, <2>1 DEF Token
  <2> QED
    BY <1>3, <2>2, <2>3 DEF Unset
<1>10. Len(ts) = m /\ \A j \in 1..m : ts[j] = IF j = 1 THEN u ELSE p.tokens[j]
  <2> HIDE DEF u, ts
  <2> QED
    BY <1>2, <1>3, <1>9, ExceptSeq DEF TokenSeq, ts
<1> HIDE DEF u, ts
<1>11. q.tokens = ts /\ q.mode = "scan" /\ q.error = 0
  BY <1>1, <1>2 DEF Parser
<1> HIDE DEF q, t
<1>12. t.tokens = ts /\ t.mode = "scan" /\ t.error = 0
  BY <1>7, <1>11 DEF Parser
<1>13. Unclosed(t) = {}
  <2>1. DOMAIN t.tokens = 1..m /\ DOMAIN p.tokens = 1..m
    BY <1>2, <1>3, <1>8, <1>10, <1>12, SoundFacts, SeqOfTokens
  <2>2. \A j \in 1..m : p.tokens[j].end = Unset <=> j \in {1}
    BY <1>2, <2>1 DEF Unclosed
  <2>3. \A j \in 1..m : t.tokens[j].end # Unset
    BY <1>3, <1>9, <1>10, <1>12, <2>2
  <2> QED
    BY <2>1, <2>3 DEF Unclosed
<1>14. t.tokens[1] = u /\ Len(t.tokens) = m
  BY <1>3, <1>10, <1>12
<1> QED
  BY <1>8, <1>9, <1>12, <1>13, <1>14 DEF t

\* ']' after the last item ends the document, and jsmn_parse returns the number
\* of tokens.
LEMMA EndDoc ==
    ASSUME NEW S, NEW u \in Seq(S), RightBracket \in S,
           NEW super, NEW m, NEW k, Doc(u, {1}, super, m, k)
    PROVE  LET v == u \o <<RightBracket>> IN
           /\ Parse(v) = Scanned(v) /\ Result(Parse(v)) = m /\ Len(Scanned(v).tokens) = m
           /\ Scanned(v).tokens[1].type = "array" /\ Scanned(v).tokens[1].size = k
<1> DEFINE open == {1}
           v == u \o <<RightBracket>>
           p == Scanned(u)
           t == Scanned(v)
<1>1. Reading(p, open, super, m, k)
  BY DocFacts
<1>2. t = Step(p, RightBracket)
  BY ReadOne
<1>3. /\ Sound(t) /\ t.mode = "scan" /\ t.error = 0 /\ Unclosed(t) = {}
      /\ Len(t.tokens) = m /\ t.tokens[1].type = "array" /\ t.tokens[1].size = k
  <2> HIDE DEF p, t, v
  <2> QED
    BY <1>1, <1>2, ArrayCloses
<1>4. Parse(v) = Finish(t)
  BY ParseIsRun DEF Scanned
<1> HIDE DEF t, v
<1>5. Finish(t) = t
  BY <1>3 DEF Finish
<1>6. Result(t) = m
  BY <1>3 DEF Result, Sound, Within
<1> QED
  BY <1>3, <1>4, <1>5, <1>6 DEF t, v

\* An error is never the number of tokens.
LEMMA ErrorResult ==
    ASSUME NEW p \in Parser, p.error # 0
    PROVE  ~(Result(p) > 0)
<1>1. p.error \in {0, NOMEM, INVAL, PART}
  BY DEF Parser
<1> QED
  BY <1>1 DEF Result, NOMEM, INVAL, PART

\* A document that took more tokens than there are is an error.
LEMMA FullEnd ==
    ASSUME NEW v, Full(v)
    PROVE  ~(Result(Parse(v)) > 0)
<1> DEFINE p == Scanned(v)
<1>1. Sound(p) /\ p.error # 0 /\ p \in Parser
  BY SoundFacts DEF Full, Stuck
<1>2. Parse(v) = Finish(p)
  BY ParseIsRun DEF Scanned
<1> HIDE DEF p
<1>3. Finish(p) = p
  BY <1>1 DEF Finish
<1> QED
  BY <1>1, <1>2, <1>3, ErrorResult

\* A text that ends with a bracket open is an error.
LEMMA OpenEnd ==
    ASSUME NEW p, Sound(p), NEW i \in Unclosed(p)
    PROVE  Finish(p).error # 0
<1> DEFINE q == EndPrimitive(p)
<1>1. /\ p \in Parser /\ p.tokens \in TokenSeq /\ p.toksuper <= Len(p.tokens)
      /\ p.pos \in Nat /\ p.start \in Nat /\ Len(p.tokens) \in Nat
  BY SoundFacts
<1>2. PART # 0 /\ NOMEM # 0
  BY DEF PART, NOMEM
<1>3. \A r \in Parser : Fail(r, PART).error = PART
  BY DEF Fail, Parser
<1>4. CASE p.error # 0
  BY <1>4 DEF Finish
<1>5. CASE p.error = 0 /\ p.mode # "primitive"
  <2>1. Finish(p) = Fail(p, PART)
    <3>1. Unclosed(p) # {}
      OBVIOUS
    <3> QED
      BY <1>5, <3>1 DEF Finish
  <2> QED
    BY <1>1, <1>2, <1>3, <2>1
<1>6. CASE p.error = 0 /\ p.mode = "primitive"
  <2>1. CASE Len(p.tokens) >= NumTokens
    <3>1. q = Fail(p, NOMEM)
      BY <2>1 DEF EndPrimitive, AddToken
    <3> HIDE DEF q
    <3>2. q.error # 0
      BY <1>1, <1>2, <3>1 DEF Fail, Parser
    <3> QED
      BY <1>6, <3>2 DEF Finish, q
  <2>2. CASE Len(p.tokens) < NumTokens
    <3> DEFINE type == "primitive"
               start == p.start
               end == p.pos
               n == Len(p.tokens)
    <3>1. /\ type \in {"object", "array", "string", "primitive"} /\ start \in Nat
          /\ end \in Nat \cup {Unset}
      BY <1>1
    <3>2. q = AddToken(p, type, start, end)
      BY DEF EndPrimitive
    <3> HIDE DEF type, start, end, q, n
    <3>3. /\ q \in Parser /\ q.error = p.error
          /\ Len(q.tokens) = n + 1
          /\ \A j \in 1..n : q.tokens[j] = Grown(p)[j]
      <4>1. /\ q \in Parser
            /\ q.pos = p.pos /\ q.toksuper = p.toksuper /\ q.count = p.count + 1
            /\ q.mode = "scan" /\ q.error = p.error
            /\ Len(q.tokens) = n + 1
            /\ \A j \in 1..n : q.tokens[j] = Grown(p)[j]
            /\ q.tokens[n + 1] = [type |-> type, start |-> start, end |-> end, size |-> 0]
        BY <1>1, <2>2, <3>1, <3>2, AddTokenRoom DEF n
      <4> QED
        BY <4>1
    <3> USE DEF n
    <3>4. i \in 1..n /\ p.tokens[i].end = Unset
      BY <1>1, SeqOfTokens DEF Unclosed
    <3>5. p.tokens[i] \in Token
      BY <1>1, <3>4, SeqOfTokens
    <3>6. q.tokens[i].end = Unset
      <4>1. Grown(p)[i] = IF i = p.toksuper
                           THEN [p.tokens[i] EXCEPT !.size = @ + 1] ELSE p.tokens[i]
        BY <1>1, <3>4, GrownType
      <4> QED
        BY <3>3, <3>4, <3>5, <4>1 DEF Token
    <3>7. i \in DOMAIN q.tokens
      <4>1. q.tokens \in TokenSeq
        BY <3>3 DEF Parser
      <4>2. DOMAIN q.tokens = 1..Len(q.tokens)
        BY <4>1, SeqOfTokens
      <4> QED
        BY <1>1, <3>3, <3>4, <4>2
    <3>8. Unclosed(q) # {}
      BY <3>6, <3>7 DEF Unclosed
    <3>9. Finish(p) = Fail(q, PART)
      BY <1>6, <3>3, <3>8 DEF Finish, q
    <3> QED
      BY <1>2, <1>3, <3>3, <3>9
  <2> QED
    BY <1>1, <2>1, <2>2, NumTokensAssumption
<1> QED
  BY <1>4, <1>5, <1>6

\* An array whose text is cut anywhere before its last bracket is an error, or
\* nothing at all (lines 442-449 of jsmn.h).
LEMMA CutEnd ==
    ASSUME NEW S, NEW u \in Seq(S), u # <<>>, u[1] = LeftBracket,
           1 \in Unclosed(Scanned(u)), NEW n \in 0..Len(u)
    PROVE  ~(Result(Parse(SubSeq(u, 1, n))) > 0)
<1> DEFINE w == SubSeq(u, 1, n)
           p == Scanned(w)
           z == SubSeq(u, n + 1, Len(u))
<1>1. Len(u) \in Nat /\ Len(u) # 0 /\ n \in Nat
  BY EmptySeq, LenProperties
<1>2. CASE n = 0
  <2>1. w = <<>>
    <3>1. 1 \in Int /\ n \in Int /\ n < 1
      BY <1>2
    <3> QED
      BY <3>1, SubSeqEmpty
  <2>2. Parse(<<>>) = Finish(Fresh)
    BY ParseIsRun, RunOfNothing
  <2>3. Unclosed(Fresh) = {}
    BY DEF Unclosed, Fresh
  <2>4. Fresh.error = 0 /\ Fresh.mode = "scan" /\ Fresh.count = 0
    BY DEF Fresh
  <2>5. Finish(Fresh) = Fresh
    BY <2>3, <2>4 DEF Finish
  <2>6. Result(Fresh) = 0
    BY <2>4 DEF Result
  <2> HIDE DEF w
  <2>7. Parse(w) = Fresh
    BY <2>1, <2>2, <2>5
  <2>8. ~(Result(Parse(w)) > 0)
    BY <2>6, <2>7
  <2> QED
    BY <2>8 DEF w
<1>3. CASE n # 0
  <2>1. n \in 1..Len(u) /\ 1 \in 1..Len(u) + 1 /\ n \in 1 - 1..Len(u) /\ Len(u) \in n..Len(u)
    BY <1>1, <1>3
  <2>2. w \in Seq(S) /\ z \in Seq(S)
    <3>1. \A j \in 1..Len(u) : u[j] \in S
      BY ElementOfSeq
    <3>2. /\ \A j \in 1..n : u[j] \in S
          /\ \A j \in (n + 1)..Len(u) : u[j] \in S
      BY <1>1, <3>1
    <3> DEFINE a == 1
               b == n + 1
               c == Len(u)
    <3>3. a \in Int /\ n \in Int /\ b \in Int /\ c \in Int
      BY <1>1
    <3>4. /\ \A j \in a..n : u[j] \in S
          /\ \A j \in b..c : u[j] \in S
      BY <3>2
    <3> HIDE DEF a, b, c
    <3>5. SubSeq(u, a, n) \in Seq(S) /\ SubSeq(u, b, c) \in Seq(S)
      BY <3>3, <3>4, SubSeqProperties
    <3> QED
      BY <3>5 DEF a, b, c
  <2>3. w \o z = u
    <3>1. w \o z = SubSeq(u, 1, Len(u))
      BY <2>1, ConcatAdjacentSubSeq
    <3> QED
      BY <3>1, SubSeqFull
  <2>4. Extends(Scanned(u), p)
    <3> HIDE DEF w, z
    <3>1. Extends(Scanned(w \o z), Scanned(w))
      BY <2>2, ReadExtends
    <3> QED
      BY <2>3, <3>1
  <2>5. Sound(p) /\ Sound(Scanned(u))
    <3> HIDE DEF w
    <3> QED
      BY <2>2, ReadSound
  <2>6. 1 \in 1..Len(p.tokens)
    <3> DEFINE o == <<LeftBracket>>
               y == SubSeq(u, 2, n)
               a == 2
    <3>1. o \in Seq(S) /\ y \in Seq(S)
      <4>1. \A j \in 1..Len(u) : u[j] \in S
        BY ElementOfSeq
      <4>2. u[1] \in S /\ \A j \in a..n : u[j] \in S
        BY <1>1, <4>1
      <4>3. a \in Int /\ n \in Int
        BY <1>1
      <4> HIDE DEF a
      <4>4. SubSeq(u, a, n) \in Seq(S)
        BY <4>2, <4>3, SubSeqProperties
      <4>5. o \in Seq(S)
        BY <4>2
      <4> QED
        BY <4>4, <4>5 DEF a
    <3>2. w = o \o y
      <4>1. 1 \in 1..Len(u) /\ n \in 1..Len(u)
        BY <1>1, <1>3
      <4>2. w = <<u[1]>> \o SubSeq(u, 1 + 1, n)
        BY <4>1, SubSeqRecursiveFirst
      <4>3. 1 + 1 = 2
        OBVIOUS
      <4> QED
        BY <4>2, <4>3
    <3>3. Len(Scanned(o).tokens) = 1
      BY StartDoc, DocFacts
    <3> HIDE DEF o, y, w
    <3>4. Extends(Scanned(o \o y), Scanned(o))
      BY <3>1, ReadExtends
    <3>5. Len(Scanned(o).tokens) <= Len(p.tokens) /\ Len(p.tokens) \in Nat
      BY <2>5, <3>2, <3>4, SoundFacts DEF Extends
    <3> QED
      BY <3>3, <3>5
  <2>7. 1 \in Unclosed(p)
    <3>1. DOMAIN p.tokens = 1..Len(p.tokens)
      BY <2>5, SoundFacts, SeqOfTokens
    <3>2. Scanned(u).tokens[1].end = Unset
      BY DEF Unclosed
    <3>3. p.tokens[1].end # Unset => Scanned(u).tokens[1].end = p.tokens[1].end
      BY <2>4, <2>6 DEF Extends
    <3> HIDE DEF p
    <3> QED
      BY <2>6, <3>1, <3>2, <3>3 DEF Unclosed
  <2>8. Parse(w) = Finish(p)
    BY ParseIsRun DEF Scanned
  <2>9. Finish(p).error # 0
    <3> HIDE DEF p
    <3> QED
      BY <2>5, <2>7, OpenEnd
  <2>10. Finish(p) \in Parser
    <3> HIDE DEF p
    <3> QED
      BY <2>5, FinishWithin DEF Within
  <2> HIDE DEF p, w
  <2>11. ~(Result(Parse(w)) > 0)
    BY <2>8, <2>9, <2>10, ErrorResult
  <2> QED
    BY <2>11 DEF w
<1> QED
  BY <1>2, <1>3

-----------------------------------------------------------------------------
(* A pair of an object, and an object of two pairs.                          *)

\* A pair is two tokens more, the key and the value.
LEMMA PairDoc ==
    ASSUME NEW S, Quote \in S, Colon \in S, NEW u \in Seq(S),
           NEW s \in Seq(S), NEW t \in Seq(S), Passes(s), Passes(t),
           NEW open, NEW super, NEW m, NEW k, Doc(u, open, super, m, k), super # 1
    PROVE  LET v == u \o Quoted(s) \o <<Colon>> \o Quoted(t) IN
           /\ v \in Seq(S)
           /\ m + 2 <= NumTokens => /\ Doc(v, open, m + 1, m + 2, k)
                                    /\ Stored(v, m + 1, s) /\ Stored(v, m + 2, t)
           /\ m + 2 > NumTokens => Full(v)
<1> DEFINE a == u \o Quoted(s)
           o == <<Colon>>
           b == a \o o
           w == Quoted(t)
           v == b \o w
           n == m + 1
<1>1. m \in Nat /\ m <= NumTokens /\ NumTokens \in Nat /\ n \in Nat /\ n # 1 /\ n + 1 = m + 2
  BY DocFacts, NumTokensAssumption
<1>2. o \in Seq(S) /\ Quoted(s) \in Seq(S) /\ w \in Seq(S)
  <2> DEFINE q == <<Quote>>
  <2>1. q \in Seq(S) /\ o \in Seq(S)
    OBVIOUS
  <2> HIDE DEF q, o
  <2>2. \A x \in Seq(S) : q \o x \o q \in Seq(S)
    <3> TAKE x \in Seq(S)
    <3>1. q \o x \in Seq(S)
      BY <2>1, ConcatProperties
    <3> DEFINE y == q \o x
    <3> HIDE DEF y
    <3>2. y \in Seq(S)
      BY <3>1 DEF y
    <3>3. y \o q \in Seq(S)
      BY <2>1, <3>2, ConcatProperties
    <3> QED
      BY <3>3 DEF y
  <2> QED
    BY <2>1, <2>2 DEF Quoted, q
<1>3. /\ a \in Seq(S)
      /\ m < NumTokens => Doc(a, open, super, m + 1, k) /\ Stored(a, m + 1, s)
      /\ m = NumTokens => Full(a)
  BY StringDoc
<1>4. b \in Seq(S) /\ v \in Seq(S)
  <2> HIDE DEF a, o, w
  <2>1. b \in Seq(S)
    BY <1>2, <1>3, ConcatProperties
  <2> HIDE DEF b
  <2> QED
    BY <1>2, <2>1, ConcatProperties
<1> HIDE DEF n
<1>5. CASE m = NumTokens
  <2> HIDE DEF a, o, b, w
  <2>1. Full(a \o o)
    BY <1>2, <1>3, <1>5, FullLater
  <2>2. Full(b)
    BY <2>1 DEF b
  <2>3. Full(b \o w)
    BY <1>2, <1>4, <2>2, FullLater
  <2> QED
    BY <1>1, <1>4, <1>5, <2>3 DEF a, o, b, w
<1>6. CASE m < NumTokens
  <2>1. Doc(a, open, super, n, k) /\ Stored(a, n, s)
    BY <1>3, <1>6 DEF n
  <2>2. Doc(b, open, n, n, k)
    <3> HIDE DEF a
    <3> QED
      BY <1>3, <2>1, ColonDoc
  <2>3. Stored(b, n, s)
    <3> HIDE DEF a, o
    <3> QED
      BY <1>2, <1>3, <2>1, StoredLater
  <2> HIDE DEF b
  <2>4. /\ n < NumTokens => Doc(v, open, n, n + 1, k) /\ Stored(v, n + 1, t)
        /\ n = NumTokens => Full(v)
    BY <1>1, <1>4, <2>2, StringDoc
  <2>5. Stored(v, n, s)
    <3> HIDE DEF w
    <3> QED
      BY <1>2, <1>4, <2>3, StoredLater
  <2>6. (m + 2 <= NumTokens <=> n < NumTokens) /\ (m + 2 > NumTokens <=> n = NumTokens)
    BY <1>1, <1>6 DEF n
  <2>7. v = u \o Quoted(s) \o <<Colon>> \o Quoted(t)
    BY DEF b
  <2> HIDE DEF v
  <2>8. /\ m + 2 <= NumTokens => /\ Doc(v, open, m + 1, m + 2, k)
                                 /\ Stored(v, m + 1, s) /\ Stored(v, m + 2, t)
        /\ m + 2 > NumTokens => Full(v)
    BY <1>1, <2>4, <2>5, <2>6 DEF n
  <2> QED
    BY <1>4, <2>7, <2>8
<1> QED
  BY <1>1, <1>5, <1>6

\* What a longer text still has of a shorter one.
Kept(u, v) ==
    /\ Full(u) => Full(v)
    /\ \A i : \A x : Stored(u, i, x) => Stored(v, i, x)
    /\ \A i : IsObject(u, i) => IsObject(v, i)

\* More characters keep what was stored.
LEMMA MoreKeeps ==
    ASSUME NEW S, NEW u \in Seq(S), NEW s \in Seq(S)
    PROVE  Kept(u, u \o s)
<1>1. Full(u) => Full(u \o s)
  BY FullLater
<1>2. ASSUME NEW i, NEW x, Stored(u, i, x)
      PROVE  Stored(u \o s, i, x)
  BY <1>2, StoredLater
<1>3. ASSUME NEW i, IsObject(u, i)
      PROVE  IsObject(u \o s, i)
  BY <1>3, ObjectLater
<1> QED
  BY <1>1, <1>2, <1>3, Zenon DEF Kept

\* And still more characters keep it too.
LEMMA KeptTransitive ==
    ASSUME NEW u, NEW v, NEW w, Kept(u, v), Kept(v, w)
    PROVE  Kept(u, w)
BY Zenon DEF Kept

\* A string between quotes is a text.
LEMMA QuotedType ==
    ASSUME NEW S, Quote \in S, NEW s \in Seq(S)
    PROVE  Quoted(s) \in Seq(S)
<1> DEFINE q == <<Quote>>
           x == q \o s
<1>1. q \in Seq(S)
  OBVIOUS
<1> HIDE DEF q
<1>2. x \in Seq(S)
  BY <1>1, ConcatProperties
<1> HIDE DEF x
<1>3. x \o q \in Seq(S)
  BY <1>1, <1>2, ConcatProperties
<1> QED
  BY <1>3 DEF Quoted, q, x

\* The text of a pair, and what it leaves of the text before it.
LEMMA PairKeeps ==
    ASSUME NEW S, Quote \in S, Colon \in S, NEW u \in Seq(S),
           NEW s \in Seq(S), NEW t \in Seq(S)
    PROVE  LET v == u \o Quoted(s) \o <<Colon>> \o Quoted(t) IN v \in Seq(S) /\ Kept(u, v)
<1> DEFINE a == u \o Quoted(s)
           o == <<Colon>>
           b == a \o o
           v == b \o Quoted(t)
<1>1. o \in Seq(S)
  OBVIOUS
<1>2. a \in Seq(S) /\ Kept(u, a)
  BY QuotedType, ConcatProperties, MoreKeeps
<1> HIDE DEF a, o
<1>3. b \in Seq(S) /\ Kept(a, b)
  BY <1>1, <1>2, ConcatProperties, MoreKeeps
<1> HIDE DEF b
<1>4. v \in Seq(S) /\ Kept(b, v)
  BY <1>3, QuotedType, ConcatProperties, MoreKeeps
<1> HIDE DEF v
<1>5. Kept(u, v)
  BY <1>2, <1>3, <1>4, KeptTransitive
<1> QED
  BY <1>4, <1>5 DEF a, o, b, v

\* An object of two pairs is an item more of the array, and five tokens more.
LEMMA ObjectDoc ==
    ASSUME NEW S, Quote \in S, LeftBrace \in S, RightBrace \in S, Colon \in S, CommaChar \in S,
           NEW u \in Seq(S), NEW m, NEW k, Doc(u, {1}, 1, m, k),
           NEW s1 \in Seq(S), NEW t1 \in Seq(S), Passes(s1), Passes(t1),
           NEW s2 \in Seq(S), NEW t2 \in Seq(S), Passes(s2), Passes(t2),
           NEW v, v = u \o <<LeftBrace>> \o Quoted(s1) \o <<Colon>> \o Quoted(t1)
                        \o <<CommaChar>> \o Quoted(s2) \o <<Colon>> \o Quoted(t2)
                        \o <<RightBrace>>
    PROVE  /\ v \in Seq(S)
           /\ Kept(u, v)
           /\ m + 5 <= NumTokens =>
                 /\ Doc(v, {1}, 1, m + 5, k + 1)
                 /\ Stored(v, m + 2, s1) /\ Stored(v, m + 3, t1)
                 /\ Stored(v, m + 4, s2) /\ Stored(v, m + 5, t2)
           /\ m + 5 > NumTokens => Full(v)
<1> DEFINE a == u \o <<LeftBrace>>
           b == a \o Quoted(s1) \o <<Colon>> \o Quoted(t1)
           c == b \o <<CommaChar>>
           d == c \o Quoted(s2) \o <<Colon>> \o Quoted(t2)
           e == d \o <<RightBrace>>
           i == m + 1
           n == m + 3
           k1 == k + 1
           open == {1, i}
<1>1. /\ m \in Nat /\ m >= 1 /\ m <= NumTokens /\ NumTokens \in Nat /\ k \in Nat
  <2> DEFINE o == {1}
  <2>1. Doc(u, o, 1, m, k)
    OBVIOUS
  <2> HIDE DEF o
  <2> QED
    BY <2>1, DocFacts, NumTokensAssumption
<1>2. v = e
  OBVIOUS
<1>3. \A x \in S : <<x>> \in Seq(S)
  OBVIOUS
<1>4. a \in Seq(S) /\ Kept(u, a)
  BY <1>3, ConcatProperties, MoreKeeps
<1>5. /\ m < NumTokens => Doc(a, {1, m + 1}, m + 1, m + 1, k + 1) /\ IsObject(a, m + 1)
      /\ m = NumTokens => Full(a)
  BY BraceDoc
<1> HIDE DEF a
<1>6. b \in Seq(S) /\ Kept(a, b)
  BY <1>4, PairKeeps
<1>7. /\ i \in Nat /\ i # 1 /\ i > 1 /\ n \in Nat /\ n # 1
      /\ i + 1 = m + 2 /\ i + 2 = m + 3 /\ i + 2 = n /\ n + 1 = m + 4 /\ n + 2 = m + 5
  BY <1>1
<1>8. m < NumTokens => Doc(a, open, i, i, k1) /\ IsObject(a, i)
  BY <1>5
<1> HIDE DEF i, n, k1, open
<1>9. ASSUME m < NumTokens
      PROVE  /\ i + 2 <= NumTokens => /\ Doc(b, open, i + 1, i + 2, k1)
                                      /\ Stored(b, i + 1, s1) /\ Stored(b, i + 2, t1)
             /\ i + 2 > NumTokens => Full(b)
  BY <1>4, <1>7, <1>8, <1>9, PairDoc
<1> HIDE DEF b
<1>10. c \in Seq(S) /\ Kept(b, c)
  BY <1>3, <1>6, ConcatProperties, MoreKeeps
<1>11. d \in Seq(S) /\ Kept(c, d)
  <2> HIDE DEF c
  <2> QED
    BY <1>10, PairKeeps
<1>12. e \in Seq(S) /\ Kept(d, e)
  <2> HIDE DEF d
  <2> QED
    BY <1>3, <1>11, ConcatProperties, MoreKeeps
<1>13. /\ Kept(u, e) /\ Kept(a, e) /\ Kept(b, e)
  <2> HIDE DEF c, d, e
  <2>1. Kept(c, e) /\ Kept(b, e)
    BY <1>10, <1>11, <1>12, KeptTransitive
  <2>2. Kept(a, e)
    BY <1>6, <2>1, KeptTransitive
  <2> QED
    BY <1>4, <2>1, <2>2, KeptTransitive
<1>14. ASSUME m + 5 <= NumTokens
       PROVE  /\ Doc(e, {1}, 1, m + 5, k + 1)
              /\ Stored(e, m + 2, s1) /\ Stored(e, m + 3, t1)
              /\ Stored(e, m + 4, s2) /\ Stored(e, m + 5, t2)
  <2>1. m < NumTokens /\ i + 2 <= NumTokens /\ n + 2 <= NumTokens
    BY <1>1, <1>7, <1>14
  <2>2. Doc(b, open, i + 1, n, k1) /\ Stored(b, i + 1, s1) /\ Stored(b, n, t1)
    BY <1>7, <1>9, <2>1
  <2>3. Doc(c, open, i, n, k1)
    <3> DEFINE super == i + 1
    <3>1. Doc(b, {1, i}, super, n, k1) /\ Stored(b, super, s1)
      BY <2>2 DEF open
    <3> HIDE DEF super
    <3>2. Doc(c, {1, i}, i, n, k1)
      BY <1>6, <1>7, <3>1, CommaDoc
    <3> QED
      BY <3>2 DEF open
  <2> HIDE DEF c
  <2>4. Doc(d, open, n + 1, n + 2, k1) /\ Stored(d, n + 1, s2) /\ Stored(d, n + 2, t2)
    BY <1>7, <1>10, <2>1, <2>3, PairDoc
  <2> HIDE DEF d
  <2>5. IsObject(d, i)
    <3>1. IsObject(a, i)
      BY <1>8, <2>1
    <3>2. Kept(a, d)
      BY <1>6, <1>10, <1>11, KeptTransitive
    <3> QED
      BY <3>1, <3>2 DEF Kept
  <2>6. Doc(e, {1}, 1, n + 2, k1)
    <3> DEFINE super == n + 1
               m1 == n + 2
    <3>1. Doc(d, {1, i}, super, m1, k1)
      BY <2>4 DEF open
    <3> HIDE DEF super, m1
    <3>2. Doc(e, {1}, 1, m1, k1)
      BY <1>7, <1>11, <2>5, <3>1, CloseDoc
    <3> QED
      BY <3>2 DEF m1
  <2> HIDE DEF e
  <2>7. Stored(e, i + 1, s1) /\ Stored(e, n, t1) /\ Stored(e, n + 1, s2) /\ Stored(e, n + 2, t2)
    BY <1>12, <1>13, <2>2, <2>4, Zenon DEF Kept
  <2> QED
    BY <1>7, <2>6, <2>7 DEF k1
<1>15. ASSUME m + 5 > NumTokens
       PROVE  Full(e)
  <2>1. CASE m = NumTokens
    BY <1>5, <1>13, <2>1 DEF Kept
  <2>2. CASE m < NumTokens /\ i + 2 > NumTokens
    BY <1>9, <1>13, <2>2 DEF Kept
  <2>3. CASE m < NumTokens /\ i + 2 <= NumTokens
    <3>1. Doc(b, open, i + 1, n, k1) /\ Stored(b, i + 1, s1) /\ n + 2 > NumTokens
      BY <1>7, <1>9, <1>15, <2>3
    <3>2. Doc(c, open, i, n, k1)
      <4> DEFINE super == i + 1
      <4>1. Doc(b, {1, i}, super, n, k1) /\ Stored(b, super, s1)
        BY <3>1 DEF open
      <4> HIDE DEF super
      <4>2. Doc(c, {1, i}, i, n, k1)
        BY <1>6, <1>7, <4>1, CommaDoc
      <4> QED
        BY <4>2 DEF open
    <3> HIDE DEF c
    <3>3. Full(d)
      BY <1>7, <1>10, <3>1, <3>2, PairDoc
    <3> QED
      BY <1>12, <3>3 DEF Kept
  <2>4. m = NumTokens \/ (m < NumTokens /\ (i + 2 > NumTokens \/ i + 2 <= NumTokens))
    <3> HIDE DEF e
    <3> QED
      BY <1>1, <1>7
  <2> QED
    BY <2>1, <2>2, <2>3, <2>4
<1> QED
  BY <1>2, <1>12, <1>13, <1>14, <1>15

=============================================================================
