------------------------- MODULE ConfigurationProof -------------------------
(***************************************************************************)
(* The list of candidates from the app to the machine and back: theorems   *)
(* for every list, every name and every place the request is cut at.       *)
(*                                                                         *)
(* A body is followed item by item through jsmn_parse (ItemsRead), so what *)
(* /configure leaves is known for the whole body (WholeBody) and for each  *)
(* part of it (CutBody); Decoded undoes Encoded (DecodedEncoded); and IInv *)
(* says the machine holds the list that was sent, or none.                 *)
(***************************************************************************)
EXTENDS Configuration, JsmnProof

-----------------------------------------------------------------------------
(* FlattenSeq of SequencesExt.                                               *)

\* The sequences put together, one more each time.
IsFlat(f, seqs, k) ==
    f = [i \in 1..k |-> IF i = 1 THEN seqs[i] ELSE f[i - 1] \o seqs[i]]

\* The function FlattenSeq defines by recursion exists.
LEMMA FlatExists ==
    ASSUME NEW seqs, Len(seqs) \in Nat
    PROVE  \E f : IsFlat(f, seqs, Len(seqs))
<1> DEFINE Is(f, k) == IsFlat(f, seqs, k)
           S == {k \in Nat : \E f : Is(f, k)}
<1>1. 0 \in S
  <2> DEFINE f == [i \in 1..0 |-> seqs[i]]
  <2>1. Is(f, 0)
    BY DEF IsFlat
  <2> QED
    BY <2>1, Zenon
<1>2. ASSUME NEW k \in S
      PROVE  k + 1 \in S
  <2>1. k \in Nat /\ k + 1 \in Nat
    BY <1>2
  <2>2. PICK a : Is(a, k)
    BY Zenon
  <2> DEFINE b == [i \in 1..(k + 1) |->
                     IF i = k + 1 THEN (IF i = 1 THEN seqs[i] ELSE a[k] \o seqs[i]) ELSE a[i]]
  <2>3. DOMAIN a = 1..k
    BY <2>2, Zenon DEF IsFlat
  <2>4. \A i \in 1..k : a[i] = IF i = 1 THEN seqs[i] ELSE a[i - 1] \o seqs[i]
    BY <2>2, Zenon DEF IsFlat
  <2>5. \A i \in 1..(k + 1) : b[i] = IF i = 1 THEN seqs[i] ELSE b[i - 1] \o seqs[i]
    <3> SUFFICES ASSUME NEW i \in 1..(k + 1)
                 PROVE  b[i] = IF i = 1 THEN seqs[i] ELSE b[i - 1] \o seqs[i]
      OBVIOUS
    <3>1. CASE i = k + 1
      <4>1. i # 1 => i - 1 = k /\ k \in 1..(k + 1) /\ k # k + 1
        BY <2>1, <3>1
      <4>2. b[i] = IF i = 1 THEN seqs[i] ELSE a[k] \o seqs[i]
        BY <3>1, Zenon
      <4>3. i # 1 => b[k] = a[k]
        BY <4>1, Zenon
      <4> QED
        BY <4>1, <4>2, <4>3, Zenon
    <3>2. CASE i # k + 1
      <4>1. i \in 1..k /\ (i # 1 => i - 1 \in 1..(k + 1) /\ i - 1 # k + 1)
        BY <2>1, <3>2
      <4>2. b[i] = a[i] /\ (i # 1 => b[i - 1] = a[i - 1])
        BY <3>2, <4>1, Zenon
      <4> QED
        BY <2>4, <4>1, <4>2, Zenon
    <3> QED
      BY <3>1, <3>2
  <2>6. Is(b, k + 1)
    <3>1. b = [i \in 1..(k + 1) |-> b[i]]
      BY Zenon
    <3> HIDE DEF b
    <3> QED
      BY <2>5, <3>1 DEF IsFlat
  <2> HIDE DEF b, Is
  <2> QED
    BY <2>1, <2>6
<1>3. S = Nat
  <2>1. S \subseteq Nat
    OBVIOUS
  <2> HIDE DEF S
  <2> QED
    BY <2>1, <1>1, <1>2, Induction
<1> QED
  BY <1>3

\* The sequences put together so far.
Flat(seqs) == CHOOSE f : IsFlat(f, seqs, Len(seqs))

\* FlattenSeq is all of them together.
LEMMA FlattenIsFlat ==
    ASSUME NEW seqs, Len(seqs) \in Nat
    PROVE  FlattenSeq(seqs) = IF Len(seqs) = 0 THEN seqs ELSE Flat(seqs)[Len(seqs)]
BY Zenon DEF FlattenSeq, Flat, IsFlat

\* The first is itself, and each of the others comes after those before it.
LEMMA FlatEquation ==
    ASSUME NEW seqs, Len(seqs) \in Nat
    PROVE  /\ Len(seqs) # 0 => Flat(seqs)[1] = seqs[1]
           /\ \A i \in 2..Len(seqs) : Flat(seqs)[i] = Flat(seqs)[i - 1] \o seqs[i]
<1> DEFINE f == Flat(seqs)
           n == Len(seqs)
<1>1. IsFlat(f, seqs, n)
  BY FlatExists, Zenon DEF Flat
<1> HIDE DEF f
<1>2. \A i \in 1..n : f[i] = IF i = 1 THEN seqs[i] ELSE f[i - 1] \o seqs[i]
  BY <1>1, Zenon DEF IsFlat
<1> HIDE DEF n
<1>3. n # 0 => f[1] = seqs[1]
  <2>1. n # 0 => 1 \in 1..n
    BY DEF n
  <2> QED
    BY <1>2, <2>1
<1>4. \A i \in 2..n : f[i] = f[i - 1] \o seqs[i]
  <2>1. \A i \in 2..n : i \in 1..n /\ i # 1
    BY DEF n
  <2> QED
    BY <1>2, <2>1
<1> QED
  BY <1>3, <1>4 DEF f, n

\* What the sequences have in common and concatenation keeps, the whole has.
LEMMA FlatKeeps ==
    ASSUME NEW seqs, Len(seqs) \in Nat, NEW Q, \A i \in 1..Len(seqs) : seqs[i] \in Q,
           \A s \in Q : \A t \in Q : s \o t \in Q
    PROVE  \A i \in 1..Len(seqs) : Flat(seqs)[i] \in Q
<1> DEFINE f == Flat(seqs)
           n == Len(seqs)
           I == {i \in Nat : i + 1 <= n => f[i + 1] \in Q}
<1>1. /\ n # 0 => f[1] = seqs[1]
      /\ \A i \in 2..n : f[i] = f[i - 1] \o seqs[i]
  BY FlatEquation
<1> HIDE DEF f
<1>2. 0 \in I
  <2>1. 0 + 1 = 1 /\ (1 <= n => n # 0 /\ 1 \in 1..n)
    OBVIOUS
  <2>2. 1 <= n => f[1] \in Q
    BY <1>1, <2>1
  <2> QED
    BY <2>1, <2>2
<1>3. ASSUME NEW i \in I
      PROVE  i + 1 \in I
  <2> DEFINE j == i + 1
             k == i + 1 + 1
  <2>1. /\ i \in Nat /\ j \in Nat /\ (k <= n => j <= n /\ k \in 2..n /\ k \in 1..n)
        /\ k - 1 = j
    BY <1>3
  <2>2. j <= n => f[j] \in Q
    BY <1>3
  <2> HIDE DEF j, k
  <2>3. k <= n => f[k] \in Q
    <3> SUFFICES ASSUME k <= n PROVE f[k] \in Q
      OBVIOUS
    <3>1. f[k] = f[k - 1] \o seqs[k]
      BY <1>1, <2>1
    <3>2. seqs[k] \in Q /\ f[j] \in Q
      BY <2>1, <2>2
    <3> QED
      BY <2>1, <3>1, <3>2
  <2> QED
    BY <2>1, <2>3 DEF j, k
<1>4. I = Nat
  <2>1. I \subseteq Nat
    OBVIOUS
  <2> HIDE DEF I
  <2> QED
    BY <2>1, <1>2, <1>3, Induction
<1>5. ASSUME NEW i \in 1..n
      PROVE  f[i] \in Q
  <2> DEFINE j == i - 1
  <2>1. j \in Nat /\ j + 1 = i /\ j + 1 <= n
    OBVIOUS
  <2>2. j \in I
    BY <1>4, <2>1
  <2>3. f[j + 1] \in Q
    BY <2>1, <2>2
  <2> QED
    BY <2>1, <2>3
<1> QED
  BY <1>5 DEF f

-----------------------------------------------------------------------------
(* Concatenation by another name: the provers know nothing of Cat but that   *)
(* it associates.                                                            *)

Cat(s, t) == s \o t

\* Concatenation stays in T and associates there.
Closed(T) ==
    /\ \A s \in T : \A t \in T : Cat(s, t) \in T
    /\ \A s \in T : \A t \in T : \A u \in T : Cat(s, Cat(t, u)) = Cat(Cat(s, t), u)

\* It does in every set of sequences.
LEMMA SequencesClosed ==
    ASSUME NEW S
    PROVE  Closed(Seq(S))
<1>1. ASSUME NEW s \in Seq(S), NEW t \in Seq(S)
      PROVE  s \o t \in Seq(S)
  BY ConcatProperties
<1>2. ASSUME NEW s \in Seq(S), NEW t \in Seq(S), NEW u \in Seq(S)
      PROVE  s \o (t \o u) = (s \o t) \o u
  BY ConcatAssociative
<1> QED
  BY <1>1, <1>2, Zenon DEF Closed, Cat

\* A sequence with one element more.
LEMMA Longer ==
    ASSUME NEW S, NEW s \in Seq(S), NEW c \in S, NEW t \in Seq(S), NEW n, n = Len(s),
           Len(t) = n + 1, \A i \in 1..n : t[i] = s[i], t[n + 1] = c
    PROVE  s \o <<c>> = t
<1> DEFINE u == Append(s, c)
<1>1. u = s \o <<c>>
  BY AppendIsConcat
<1>2. u \in Seq(S) /\ Len(u) = n + 1 /\ \A i \in 1..n : u[i] = s[i]
  BY AppendProperties
<1>3. u[n + 1] = c /\ n \in Nat
  BY AppendProperties, LenProperties
<1> HIDE DEF u
<1>4. \A i \in 1..(n + 1) : u[i] = t[i]
  BY <1>2, <1>3
<1>5. u = t
  BY <1>2, <1>4, SeqEqual
<1> QED
  BY <1>1, <1>5

\* Tuples are made of their elements one by one: here two.
LEMMA Ones2 ==
    ASSUME NEW a, NEW b
    PROVE  Cat(<<a>>, <<b>>) = <<a, b>>
<1> DEFINE S == {a, b}
           s == <<a>>
           t == <<a, b>>
           n == 1
<1>1. s \in Seq(S) /\ t \in Seq(S) /\ b \in S /\ n = Len(s) /\ Len(t) = n + 1
  OBVIOUS
<1>2. (\A i \in 1..n : t[i] = s[i]) /\ t[n + 1] = b
  OBVIOUS
<1> HIDE DEF S, s, t, n
<1>3. s \o <<b>> = t
  BY <1>1, <1>2, Longer
<1> QED
  BY <1>3 DEF s, t, Cat

\* Here three.
LEMMA Ones3 ==
    ASSUME NEW a, NEW b, NEW c
    PROVE  Cat(<<a, b>>, <<c>>) = <<a, b, c>>
<1> DEFINE S == {a, b, c}
           s == <<a, b>>
           t == <<a, b, c>>
           n == 2
<1>1. s \in Seq(S) /\ t \in Seq(S) /\ c \in S /\ n = Len(s) /\ Len(t) = n + 1
  OBVIOUS
<1>2. (\A i \in 1..n : t[i] = s[i]) /\ t[n + 1] = c
  OBVIOUS
<1> HIDE DEF S, s, t, n
<1>3. s \o <<c>> = t
  BY <1>1, <1>2, Longer
<1> QED
  BY <1>3 DEF s, t, Cat

\* Here four.
LEMMA Ones4 ==
    ASSUME NEW a, NEW b, NEW c, NEW d
    PROVE  Cat(<<a, b, c>>, <<d>>) = <<a, b, c, d>>
<1> DEFINE S == {a, b, c, d}
           s == <<a, b, c>>
           t == <<a, b, c, d>>
           n == 3
<1>1. s \in Seq(S) /\ t \in Seq(S) /\ d \in S /\ n = Len(s) /\ Len(t) = n + 1
  OBVIOUS
<1>2. (\A i \in 1..n : t[i] = s[i]) /\ t[n + 1] = d
  OBVIOUS
<1> HIDE DEF S, s, t, n
<1>3. s \o <<d>> = t
  BY <1>1, <1>2, Longer
<1> QED
  BY <1>3 DEF s, t, Cat

\* Here five.
LEMMA Ones5 ==
    ASSUME NEW a, NEW b, NEW c, NEW d, NEW e
    PROVE  Cat(<<a, b, c, d>>, <<e>>) = <<a, b, c, d, e>>
<1> DEFINE S == {a, b, c, d, e}
           s == <<a, b, c, d>>
           t == <<a, b, c, d, e>>
           n == 4
<1>1. s \in Seq(S) /\ t \in Seq(S) /\ e \in S /\ n = Len(s) /\ Len(t) = n + 1
  OBVIOUS
<1>2. (\A i \in 1..n : t[i] = s[i]) /\ t[n + 1] = e
  OBVIOUS
<1> HIDE DEF S, s, t, n
<1>3. s \o <<e>> = t
  BY <1>1, <1>2, Longer
<1> QED
  BY <1>3 DEF s, t, Cat

\* Here six.
LEMMA Ones6 ==
    ASSUME NEW a, NEW b, NEW c, NEW d, NEW e, NEW f
    PROVE  Cat(<<a, b, c, d, e>>, <<f>>) = <<a, b, c, d, e, f>>
<1> DEFINE S == {a, b, c, d, e, f}
           s == <<a, b, c, d, e>>
           t == <<a, b, c, d, e, f>>
           n == 5
<1>1. s \in Seq(S) /\ t \in Seq(S) /\ f \in S /\ n = Len(s) /\ Len(t) = n + 1
  OBVIOUS
<1>2. (\A i \in 1..n : t[i] = s[i]) /\ t[n + 1] = f
  OBVIOUS
<1> HIDE DEF S, s, t, n
<1>3. s \o <<f>> = t
  BY <1>1, <1>2, Longer
<1> QED
  BY <1>3 DEF s, t, Cat

\* Here seven.
LEMMA Ones7 ==
    ASSUME NEW a, NEW b, NEW c, NEW d, NEW e, NEW f, NEW g
    PROVE  Cat(<<a, b, c, d, e, f>>, <<g>>) = <<a, b, c, d, e, f, g>>
<1> DEFINE S == {a, b, c, d, e, f, g}
           s == <<a, b, c, d, e, f>>
           t == <<a, b, c, d, e, f, g>>
           n == 6
<1>1. s \in Seq(S) /\ t \in Seq(S) /\ g \in S /\ n = Len(s) /\ Len(t) = n + 1
  OBVIOUS
<1>2. (\A i \in 1..n : t[i] = s[i]) /\ t[n + 1] = g
  OBVIOUS
<1> HIDE DEF S, s, t, n
<1>3. s \o <<g>> = t
  BY <1>1, <1>2, Longer
<1> QED
  BY <1>3 DEF s, t, Cat

\* Three regroupings.
LEMMA RegroupThree ==
    ASSUME NEW T, Closed(T), NEW u \in T, NEW a \in T, NEW b \in T, NEW c \in T
    PROVE  Cat(u, Cat(Cat(a, b), c)) = Cat(Cat(Cat(u, a), b), c)
BY DEF Closed

\* The same with four pieces,
LEMMA RegroupFour ==
    ASSUME NEW T, Closed(T), NEW u \in T, NEW a \in T, NEW b \in T, NEW c \in T, NEW d \in T
    PROVE  Cat(u, Cat(Cat(Cat(a, b), c), d)) = Cat(Cat(Cat(Cat(u, a), b), c), d)
BY DEF Closed

\* with five,
LEMMA RegroupFive ==
    ASSUME NEW T, Closed(T), NEW u \in T, NEW a \in T, NEW b \in T, NEW c \in T, NEW d \in T,
           NEW e \in T
    PROVE  Cat(u, Cat(Cat(Cat(Cat(a, b), c), d), e)) = Cat(Cat(Cat(Cat(Cat(u, a), b), c), d), e)
<1> DEFINE ab == Cat(a, b)
           ua == Cat(u, a)
<1>1. ab \in T /\ Cat(u, ab) = Cat(ua, b)
  BY DEF Closed
<1> HIDE DEF ab, ua
<1>2. Cat(u, Cat(Cat(Cat(ab, c), d), e)) = Cat(Cat(Cat(Cat(u, ab), c), d), e)
  BY <1>1, RegroupFour
<1> QED
  BY <1>1, <1>2 DEF ab, ua

\* and with pieces nested to the right.
LEMMA RegroupNested ==
    ASSUME NEW T, Closed(T), NEW u \in T, NEW a \in T, NEW b \in T, NEW c \in T
    PROVE  /\ Cat(u, Cat(a, Cat(b, c))) = Cat(Cat(Cat(u, a), b), c)
           /\ Cat(u, a) \in T
           /\ Cat(Cat(Cat(u, a), b), c) \in T
<1>1. Cat(b, c) \in T /\ Cat(u, a) \in T
  BY DEF Closed
<1> DEFINE bc == Cat(b, c)
           ua == Cat(u, a)
<1>2. Cat(u, Cat(a, bc)) = Cat(ua, bc)
  BY <1>1 DEF Closed
<1> HIDE DEF ua
<1>3. Cat(ua, Cat(b, c)) = Cat(Cat(ua, b), c)
  BY <1>1 DEF Closed, ua
<1>4. Cat(Cat(ua, b), c) \in T
  BY <1>1 DEF Closed, ua
<1> QED
  BY <1>1, <1>2, <1>3, <1>4 DEF ua

\* Five pieces make one.
LEMMA ClosedFive ==
    ASSUME NEW T, Closed(T), NEW a \in T, NEW b \in T, NEW c \in T, NEW d \in T, NEW e \in T
    PROVE  Cat(Cat(Cat(Cat(a, b), c), d), e) \in T
BY DEF Closed

\* The quotes around a string belong to it.
LEMMA RegroupQuoted ==
    ASSUME NEW T, Closed(T), NEW u \in T, NEW q \in T, NEW s \in T, NEW t \in T
    PROVE  Cat(Cat(Cat(u, q), s), Cat(q, t)) = Cat(Cat(u, Cat(Cat(q, s), q)), t)
<1> DEFINE uqs == Cat(Cat(u, q), s)
<1>1. uqs \in T
  BY DEF Closed
<1>2. Cat(u, Cat(Cat(q, s), q)) = Cat(uqs, q)
  BY RegroupThree
<1> HIDE DEF uqs
<1>3. Cat(uqs, Cat(q, t)) = Cat(Cat(uqs, q), t)
  BY <1>1 DEF Closed
<1> QED
  BY <1>2, <1>3 DEF uqs

-----------------------------------------------------------------------------
(* What JSON.stringify makes of a name passes through jsmn_parse_string.     *)

\* The bytes of a body.
Symbols == Chars \cup {Quote, Backslash, "C3", "A9", LeftBrace, RightBrace, LeftBracket,
                       RightBracket, Colon, CommaChar, "name", "number"}

\* Those that the loop of jsmn_parse_string passes over.
Texts == {s \in Seq(Symbols) : Passes(s)}

\* One after another is one.
LEMMA TextsConcat ==
    \A s \in Texts : \A t \in Texts : s \o t \in Texts
<1> SUFFICES ASSUME NEW s \in Texts, NEW t \in Texts
             PROVE  s \o t \in Texts
  OBVIOUS
<1> DEFINE S == Symbols
<1> HIDE DEF S
<1>1. s \in Seq(S) /\ t \in Seq(S) /\ Passes(s) /\ Passes(t)
  BY DEF Texts, S
<1>2. s \o t \in Seq(S) /\ Passes(s \o t)
  BY <1>1, ConcatProperties, ConcatPasses
<1> QED
  BY <1>2 DEF Texts, S

\* A character that is no quote and no backslash is one.
LEMMA OneText ==
    ASSUME NEW c \in Symbols, c # Quote, c # Backslash
    PROVE  <<c>> \in Texts
<1>1. <<c>> \in Seq(Symbols)
  <2> HIDE DEF Symbols
  <2> QED
    OBVIOUS
<1>2. Passes(<<c>>)
  BY PlainPasses
<1> QED
  BY <1>1, <1>2 DEF Texts

\* The three kinds of characters.
LEMMA BytesCases ==
    ASSUME NEW c \in Chars
    PROVE  \/ c \in {Quote, Backslash} /\ Bytes(c) = <<Backslash, c>>
           \/ c = "e-acute" /\ Bytes(c) = <<"C3", "A9">>
           \/ c \notin {Quote, Backslash, "e-acute"} /\ Bytes(c) = <<c>>
<1>1. CASE c \in {Quote, Backslash}
  BY <1>1 DEF Bytes
<1>2. CASE c = "e-acute"
  <2>1. c \notin {Quote, Backslash}
    BY <1>2 DEF Quote, Backslash
  <2>2. Bytes(c) = <<"C3", "A9">>
    BY <1>2, <2>1, Zenon DEF Bytes
  <2> QED
    BY <1>2, <2>2
<1>3. CASE c \notin {Quote, Backslash, "e-acute"}
  <2>1. c \notin {Quote, Backslash} /\ c # "e-acute"
    BY <1>3
  <2>2. Bytes(c) = <<c>>
    BY <2>1, Zenon DEF Bytes
  <2> QED
    BY <1>3, <2>2
<1> QED
  BY <1>1, <1>2, <1>3

\* The bytes of a character are one.
LEMMA BytesPass ==
    ASSUME NEW c \in Chars
    PROVE  Bytes(c) \in Texts
<1>1. CASE c \in {Quote, Backslash} /\ Bytes(c) = <<Backslash, c>>
  <2>1. c \in Escapable
    BY <1>1 DEF Escapable
  <2>2. Passes(<<Backslash, c>>)
    BY <2>1, EscapePasses
  <2>3. Backslash \in Symbols /\ c \in Symbols
    BY DEF Symbols
  <2>4. <<Backslash, c>> \in Seq(Symbols)
    BY <2>3
  <2> QED
    BY <1>1, <2>2, <2>4 DEF Texts
<1>2. CASE c = "e-acute" /\ Bytes(c) = <<"C3", "A9">>
  <2> DEFINE a == "C3"
             b == "A9"
  <2>1. a \in Symbols /\ b \in Symbols /\ a # Quote /\ a # Backslash /\ b # Quote /\ b # Backslash
    BY DEF Symbols, Quote, Backslash
  <2>2. Bytes(c) = <<a, b>>
    BY <1>2
  <2> HIDE DEF a, b
  <2>3. <<a>> \in Texts /\ <<b>> \in Texts
    BY <2>1, OneText
  <2>4. <<a>> \o <<b>> \in Texts
    BY <2>3, TextsConcat
  <2>5. <<a, b>> = <<a>> \o <<b>>
    BY Ones2 DEF Cat
  <2> QED
    BY <2>2, <2>4, <2>5
<1>3. CASE c \notin {Quote, Backslash, "e-acute"} /\ Bytes(c) = <<c>>
  <2>1. c \in Symbols /\ c # Quote /\ c # Backslash
    BY <1>3 DEF Symbols
  <2> QED
    BY <1>3, <2>1, OneText
<1> QED
  BY <1>1, <1>2, <1>3, BytesCases

\* The bytes of each character of a name.
Pieces(typed) == [i \in DOMAIN typed |-> Bytes(typed[i])]

\* As many pieces as characters, and the bytes are all of them together.
LEMMA PiecesFacts ==
    ASSUME NEW typed \in Seq(Chars)
    PROVE  /\ Len(typed) \in Nat /\ Len(Pieces(typed)) = Len(typed)
           /\ \A i \in 1..Len(typed) : typed[i] \in Chars /\ Pieces(typed)[i] = Bytes(typed[i])
           /\ Encoded(typed) = FlattenSeq(Pieces(typed))
<1>1. Len(typed) \in Nat /\ DOMAIN typed = 1..Len(typed)
  BY LenProperties
<1>2. \A i \in 1..Len(typed) : typed[i] \in Chars
  BY ElementOfSeq
<1>3. Pieces(typed) = [i \in 1..Len(typed) |-> Bytes(typed[i])]
  BY <1>1 DEF Pieces
<1>4. Len(Pieces(typed)) = Len(typed)
  BY <1>1, <1>3
<1>5. \A i \in 1..Len(typed) : Pieces(typed)[i] = Bytes(typed[i])
  BY <1>3
<1> QED
  BY <1>1, <1>2, <1>4, <1>5 DEF Encoded, Pieces

\* A name without characters has no bytes.
LEMMA EncodedNothing ==
    ASSUME NEW typed \in Seq(Chars), Len(typed) = 0
    PROVE  Encoded(typed) = <<>>
<1>1. Encoded(typed) = Pieces(typed)
  BY PiecesFacts, FlattenIsFlat
<1>2. DOMAIN typed = 1..0
  BY LenProperties
<1>3. Pieces(typed) = [i \in 1..0 |-> Bytes(typed[i])]
  BY <1>2 DEF Pieces
<1>4. [i \in 1..0 |-> Bytes(typed[i])] = <<>>
  OBVIOUS
<1> QED
  BY <1>1, <1>3, <1>4

\* The bytes of a name are one.
LEMMA EncodedPasses ==
    ASSUME NEW typed \in Seq(Chars)
    PROVE  Encoded(typed) \in Texts
<1> DEFINE seqs == Pieces(typed)
           n == Len(seqs)
<1>1. /\ Len(typed) \in Nat /\ n = Len(typed)
      /\ \A i \in 1..Len(typed) : typed[i] \in Chars /\ seqs[i] = Bytes(typed[i])
      /\ Encoded(typed) = FlattenSeq(seqs)
  BY PiecesFacts
<1>2. CASE n = 0
  <2>1. Encoded(typed) = <<>>
    BY <1>1, <1>2, EncodedNothing
  <2>2. <<>> \in Seq(Symbols)
    BY EmptySeq
  <2> QED
    BY <2>1, <2>2, NothingPasses DEF Texts
<1>3. CASE n # 0
  <2> HIDE DEF seqs
  <2>1. \A i \in 1..n : seqs[i] \in Texts
    BY <1>1, BytesPass
  <2>2. \A i \in 1..n : Flat(seqs)[i] \in Texts
    BY <1>1, <2>1, TextsConcat, FlatKeeps
  <2>3. Encoded(typed) = Flat(seqs)[n] /\ n \in 1..n
    BY <1>1, <1>3, FlattenIsFlat
  <2> QED
    BY <2>2, <2>3
<1> QED
  BY <1>2, <1>3

-----------------------------------------------------------------------------
(* The text of a candidate, grouped as the tokenizer reads it.               *)

\* An object after a text, piece by piece.
LEMMA ObjectText ==
    ASSUME NEW u \in Seq(Symbols), NEW c \in Candidate
    PROVE  /\ Object(c) \in Seq(Symbols)
           /\ u \o Object(c) =
                 u \o <<LeftBrace>> \o Quoted(<<"name">>) \o <<Colon>> \o Quoted(Encoded(c.name))
                   \o <<CommaChar>> \o Quoted(<<"number">>) \o <<Colon>>
                   \o Quoted(Encoded(c.number)) \o <<RightBrace>>
<1> DEFINE T == Seq(Symbols)
           q == <<Quote>>
           lb == <<LeftBrace>>
           rb == <<RightBrace>>
           o == <<Colon>>
           cm == <<CommaChar>>
           nm == <<"name">>
           nr == <<"number">>
           n == Quoted(nm)
           r == Quoted(nr)
           x == Encoded(c.name)
           y == Encoded(c.number)
           wx == Quoted(x)
           wy == Quoted(y)
           a == Cat(Cat(Cat(lb, n), o), q)
           b1 == Cat(Cat(Cat(cm, r), o), q)
           b == Cat(q, b1)
           d == Cat(q, rb)
<1>1. Closed(T)
  BY SequencesClosed
<1>2. u \in T /\ q \in T /\ lb \in T /\ rb \in T /\ o \in T /\ cm \in T /\ nm \in T /\ nr \in T
  BY DEF Symbols
<1>3. x \in T /\ y \in T
  BY EncodedPasses DEF Texts, Candidate
<1>4. n = Cat(Cat(q, nm), q) /\ r = Cat(Cat(q, nr), q) /\ wx = Cat(Cat(q, x), q) /\ wy = Cat(Cat(q, y), q)
  BY Zenon DEF Quoted, Cat
<1>5. a = <<LeftBrace, Quote, "name", Quote, Colon, Quote>>
  <2>1. Cat(Cat(Cat(lb, q), nm), q) = <<LeftBrace, Quote, "name", Quote>>
    BY Ones2, Ones3, Ones4
  <2>2. Cat(Cat(<<LeftBrace, Quote, "name", Quote>>, o), q)
           = <<LeftBrace, Quote, "name", Quote, Colon, Quote>>
    BY Ones5, Ones6
  <2> HIDE DEF T, q, lb, o, nm, n
  <2>3. Cat(lb, n) = Cat(Cat(Cat(lb, q), nm), q)
    BY <1>1, <1>2, <1>4, RegroupThree
  <2> QED
    BY <2>1, <2>2, <2>3
<1>6. b = <<Quote, CommaChar, Quote, "number", Quote, Colon, Quote>>
  <2>1. Cat(Cat(Cat(Cat(q, cm), q), nr), q) = <<Quote, CommaChar, Quote, "number", Quote>>
    BY Ones2, Ones3, Ones4, Ones5
  <2>2. Cat(Cat(<<Quote, CommaChar, Quote, "number", Quote>>, o), q)
           = <<Quote, CommaChar, Quote, "number", Quote, Colon, Quote>>
    BY Ones6, Ones7
  <2> HIDE DEF T, q, cm, o, nr, r
  <2>3. r \in T
    BY <1>1, <1>2, <1>4 DEF Closed
  <2>4. b = Cat(Cat(Cat(Cat(q, cm), r), o), q)
    BY <1>1, <1>2, <2>3, RegroupFour
  <2>5. Cat(Cat(q, cm), r) = Cat(Cat(Cat(Cat(q, cm), q), nr), q)
    <3> DEFINE w == Cat(q, cm)
    <3>1. w \in T
      BY <1>1, <1>2 DEF Closed
    <3> HIDE DEF w
    <3>2. Cat(w, r) = Cat(Cat(Cat(w, q), nr), q)
      BY <1>1, <1>2, <1>4, <3>1, RegroupThree
    <3> QED
      BY <3>2 DEF w
  <2> QED
    BY <2>1, <2>2, <2>4, <2>5
<1>7. d = <<Quote, RightBrace>>
  BY Ones2
<1>8. Object(c) = Cat(Cat(Cat(Cat(a, x), b), y), d)
  <2> HIDE DEF a, b, d, x, y
  <2>1. Object(c) = <<LeftBrace, Quote, "name", Quote, Colon, Quote>> \o x
          \o <<Quote, CommaChar, Quote, "number", Quote, Colon, Quote>> \o y
          \o <<Quote, RightBrace>>
    BY Zenon DEF Object, x, y, LeftBrace, Colon, CommaChar, RightBrace
  <2> QED
    BY <1>5, <1>6, <1>7, <2>1 DEF Cat
<1> HIDE DEF T, q, lb, rb, o, cm, nm, nr, n, r, x, y, wx, wy
<1>9. n \in T /\ r \in T /\ wx \in T /\ wy \in T /\ a \in T /\ b1 \in T /\ b \in T /\ d \in T
  <2>1. n \in T /\ r \in T /\ wx \in T /\ wy \in T
    BY <1>1, <1>2, <1>3, <1>4 DEF Closed
  <2>2. a \in T /\ b1 \in T
    BY <1>1, <1>2, <2>1 DEF Closed
  <2> HIDE DEF b1
  <2>3. b \in T /\ d \in T
    BY <1>1, <1>2, <2>2 DEF Closed
  <2> QED
    BY <2>1, <2>2, <2>3
<1> DEFINE p1 == Cat(Cat(Cat(u, lb), n), o)
           p2 == Cat(p1, wx)
           p3 == Cat(Cat(Cat(p2, cm), r), o)
           p4 == Cat(p3, wy)
<1>10. Cat(u, a) = Cat(p1, q) /\ p1 \in T
  <2>1. Cat(u, a) = Cat(p1, q)
    <3>1. u \in T /\ lb \in T /\ n \in T /\ o \in T /\ q \in T /\ Closed(T)
      BY <1>1, <1>2, <1>9
    <3>2. Cat(u, Cat(Cat(Cat(lb, n), o), q)) = Cat(Cat(Cat(Cat(u, lb), n), o), q)
      BY ONLY <3>1, RegroupFour
    <3> QED
      BY ONLY <3>2 DEF a
  <2>2. p1 \in T
    BY <1>1, <1>2, <1>9 DEF Closed
  <2> QED
    BY <2>1, <2>2
<1> HIDE DEF a, p1, d, b
<1>11. Cat(u, Object(c)) = Cat(Cat(Cat(Cat(Cat(u, a), x), b), y), d)
  <2>1. /\ u \in T /\ a \in T /\ x \in T /\ b \in T /\ y \in T /\ d \in T
        /\ Closed(T)
    BY <1>1, <1>2, <1>3, <1>9
  <2>2. Cat(u, Cat(Cat(Cat(Cat(a, x), b), y), d)) = Cat(Cat(Cat(Cat(Cat(u, a), x), b), y), d)
    BY ONLY <2>1, RegroupFive
  <2> QED
    BY ONLY <1>8, <2>2
<1>12. Cat(Cat(Cat(p1, q), x), b) = Cat(p2, b1) /\ p2 \in T
  <2> HIDE DEF b1
  <2>1. Cat(Cat(Cat(p1, q), x), Cat(q, b1)) = Cat(Cat(p1, Cat(Cat(q, x), q)), b1)
    BY <1>1, <1>2, <1>3, <1>9, <1>10, RegroupQuoted
  <2>2. p2 \in T
    BY <1>1, <1>9, <1>10 DEF Closed
  <2> QED
    BY <1>4, <2>1, <2>2 DEF b
<1> HIDE DEF p2
<1>13. Cat(p2, b1) = Cat(p3, q) /\ p3 \in T
  <2>1. Cat(p2, b1) = Cat(p3, q)
    <3>1. p2 \in T /\ cm \in T /\ r \in T /\ o \in T /\ q \in T /\ Closed(T)
      BY <1>1, <1>2, <1>9, <1>12
    <3>2. Cat(p2, Cat(Cat(Cat(cm, r), o), q)) = Cat(Cat(Cat(Cat(p2, cm), r), o), q)
      BY ONLY <3>1, RegroupFour
    <3> QED
      BY ONLY <3>2 DEF b1
  <2>2. p3 \in T
    BY <1>1, <1>2, <1>9, <1>12 DEF Closed
  <2> QED
    BY <2>1, <2>2
<1> HIDE DEF p3, b1
<1>14. Cat(Cat(Cat(p3, q), y), d) = Cat(p4, rb)
  <2>1. Cat(Cat(Cat(p3, q), y), Cat(q, rb)) = Cat(Cat(p3, Cat(Cat(q, y), q)), rb)
    BY <1>1, <1>2, <1>3, <1>13, RegroupQuoted
  <2> QED
    BY <1>4, <2>1 DEF d
<1>15. Cat(u, Object(c)) = Cat(p4, rb)
  BY <1>10, <1>11, <1>12, <1>13, <1>14
<1>16. u \o Object(c) =
          u \o <<LeftBrace>> \o Quoted(<<"name">>) \o <<Colon>> \o Quoted(Encoded(c.name))
            \o <<CommaChar>> \o Quoted(<<"number">>) \o <<Colon>>
            \o Quoted(Encoded(c.number)) \o <<RightBrace>>
  BY <1>15, Zenon DEF Cat, p4, p3, p2, p1, q, lb, rb, o, cm, nm, nr, n, r, x, y, wx, wy
<1>17. Object(c) \in T
  <2>1. a \in T /\ x \in T /\ b \in T /\ y \in T /\ d \in T /\ Closed(T)
    BY <1>1, <1>3, <1>9
  <2>2. Cat(Cat(Cat(Cat(a, x), b), y), d) \in T
    BY ONLY <2>1, ClosedFive
  <2> QED
    BY ONLY <1>8, <2>2
<1> QED
  BY <1>16, <1>17 DEF T

-----------------------------------------------------------------------------
(* The text of a list, item by item.                                         *)

\* What the items of an array are joined from.
Items(list) ==
    [i \in DOMAIN list |-> IF i = 1 THEN Object(list[i]) ELSE <<",">> \o Object(list[i])]

\* The body up to its k-th item.
Upto(list, k) == IF k = 0 THEN <<LeftBracket>> ELSE <<LeftBracket>> \o Flat(Items(list))[k]

\* As many items as candidates, and a comma before all but the first.
LEMMA ItemsFacts ==
    ASSUME NEW list \in Seq(Candidate)
    PROVE  /\ Len(list) \in Nat /\ Len(Items(list)) = Len(list)
           /\ \A i \in 1..Len(list) : list[i] \in Candidate
           /\ \A i \in 1..Len(list) :
                 Items(list)[i] = IF i = 1 THEN Object(list[i])
                                  ELSE <<CommaChar>> \o Object(list[i])
<1>1. Len(list) \in Nat /\ DOMAIN list = 1..Len(list)
  BY LenProperties
<1>2. \A i \in 1..Len(list) : list[i] \in Candidate
  BY ElementOfSeq
<1>3. Items(list) = [i \in 1..Len(list) |-> IF i = 1 THEN Object(list[i])
                                             ELSE <<CommaChar>> \o Object(list[i])]
  BY <1>1, Zenon DEF Items, CommaChar
<1>4. Len(Items(list)) = Len(list)
  BY <1>1, <1>3
<1>5. \A i \in 1..Len(list) :
         Items(list)[i] = IF i = 1 THEN Object(list[i]) ELSE <<CommaChar>> \o Object(list[i])
  BY <1>3, Zenon
<1> QED
  BY <1>1, <1>2, <1>4, <1>5

\* The items are texts.
LEMMA ItemsType ==
    ASSUME NEW list \in Seq(Candidate)
    PROVE  /\ \A i \in 1..Len(list) : Items(list)[i] \in Seq(Symbols)
           /\ \A i \in 1..Len(list) : Flat(Items(list))[i] \in Seq(Symbols)
<1> DEFINE T == Seq(Symbols)
           seqs == Items(list)
<1>1. ASSUME NEW i \in 1..Len(list)
      PROVE  seqs[i] \in T
  <2> DEFINE o == Object(list[i])
  <2>1. o \in T
    <3>1. <<>> \in Seq(Symbols) /\ list[i] \in Candidate
      BY ItemsFacts, EmptySeq
    <3> QED
      BY <3>1, ObjectText
  <2>2. <<CommaChar>> \in T
    BY DEF Symbols
  <2>3. <<CommaChar>> \o o \in T
    <3> HIDE DEF o
    <3> QED
      BY <2>1, <2>2, ConcatProperties
  <2> HIDE DEF T
  <2> QED
    BY <2>1, <2>3, ItemsFacts
<1>2. \A s \in T : \A t \in T : s \o t \in T
  BY ConcatProperties
<1>3. Len(seqs) \in Nat /\ Len(seqs) = Len(list)
  BY ItemsFacts
<1> HIDE DEF T, seqs
<1>4. \A i \in 1..Len(list) : Flat(seqs)[i] \in T
  BY <1>1, <1>2, <1>3, FlatKeeps
<1> QED
  BY <1>1, <1>4 DEF T, seqs

\* The body is its items between brackets.
LEMMA BodyIs ==
    ASSUME NEW list \in Seq(Candidate)
    PROVE  Body(list) = Upto(list, Len(list)) \o <<RightBracket>>
<1>1. Len(list) \in Nat /\ Len(Items(list)) = Len(list)
  BY ItemsFacts
<1>2. Body(list) = <<LeftBracket>> \o FlattenSeq(Items(list)) \o <<RightBracket>>
  BY Zenon DEF Body, Items, LeftBracket, RightBracket
<1>3. CASE Len(list) = 0
  <2>1. Items(list) = <<>>
    <3>1. DOMAIN list = 1..0
      BY <1>3, LenProperties
    <3>2. Items(list) = [i \in 1..0 |-> IF i = 1 THEN Object(list[i])
                                         ELSE <<",">> \o Object(list[i])]
      BY <3>1, Zenon DEF Items
    <3> QED
      BY <3>2
  <2>2. FlattenSeq(Items(list)) = <<>>
    BY <1>1, <1>3, <2>1, FlattenIsFlat
  <2>3. <<LeftBracket>> \o <<>> = <<LeftBracket>>
    OBVIOUS
  <2> QED
    BY <1>2, <1>3, <2>2, <2>3 DEF Upto
<1>4. CASE Len(list) # 0
  <2>1. FlattenSeq(Items(list)) = Flat(Items(list))[Len(list)]
    BY <1>1, <1>4, FlattenIsFlat
  <2> QED
    BY <1>2, <1>4, <2>1 DEF Upto
<1> QED
  BY <1>3, <1>4

\* One item more.
LEMMA UptoNext ==
    ASSUME NEW list \in Seq(Candidate), NEW k \in Nat, NEW i, i = k + 1, i <= Len(list)
    PROVE  /\ Upto(list, k) \in Seq(Symbols) /\ Upto(list, i) \in Seq(Symbols)
           /\ k = 0 => Upto(list, i) = Upto(list, k) \o Object(list[i])
           /\ k # 0 => Upto(list, i) = (Upto(list, k) \o <<CommaChar>>) \o Object(list[i])
<1> DEFINE T == Seq(Symbols)
           seqs == Items(list)
           o == Object(list[i])
           l == <<LeftBracket>>
           cm == <<CommaChar>>
           f == Flat(seqs)
           n == Len(list)
<1>1. Closed(T)
  BY SequencesClosed
<1>2. l \in T /\ cm \in T
  BY DEF Symbols
<1>3. n \in Nat /\ i \in 1..n /\ (k # 0 => k \in 1..n /\ i \in 2..n) /\ i # 0
  BY ItemsFacts
<1>4. o \in T /\ list[i] \in Candidate
  <2>1. <<>> \in Seq(Symbols) /\ list[i] \in Candidate
    BY <1>3, ItemsFacts, EmptySeq
  <2> QED
    BY <2>1, ObjectText
<1>5. /\ seqs[i] = IF i = 1 THEN o ELSE cm \o o
      /\ Len(seqs) = n
  BY <1>3, ItemsFacts
<1>6. \A j \in 1..n : f[j] \in T
  BY ItemsType
<1>7. /\ n # 0 => f[1] = seqs[1]
      /\ \A j \in 2..n : f[j] = f[j - 1] \o seqs[j]
  BY <1>3, <1>5, FlatEquation
<1>8. Upto(list, i) = Cat(l, f[i]) /\ (k = 0 => Upto(list, k) = l)
      /\ (k # 0 => Upto(list, k) = Cat(l, f[k]))
  BY <1>3, Zenon DEF Upto, Cat
<1> HIDE DEF T, seqs, o, l, cm, f, n
<1>9. CASE k = 0
  <2>1. i = 1 /\ n # 0
    BY <1>3, <1>9
  <2>2. f[i] = o
    BY <1>5, <1>7, <2>1
  <2>3. Upto(list, i) = Cat(l, o) /\ Upto(list, k) = l
    BY <1>8, <1>9, <2>2
  <2>4. Cat(l, o) \in T
    BY <1>1, <1>2, <1>4 DEF Closed
  <2> QED
    BY <1>2, <1>9, <2>3, <2>4 DEF Cat, T, o
<1>10. CASE k # 0
  <2>1. i # 1 /\ i - 1 = k /\ i \in 2..n /\ k \in 1..n
    BY <1>3, <1>10
  <2>2. f[i] = Cat(f[k], Cat(cm, o)) /\ f[k] \in T
    BY <1>5, <1>6, <1>7, <2>1 DEF Cat
  <2> DEFINE g == f[k]
  <2>3. /\ Cat(l, Cat(g, Cat(cm, o))) = Cat(Cat(Cat(l, g), cm), o)
        /\ Cat(l, g) \in T
        /\ Cat(Cat(Cat(l, g), cm), o) \in T
    <3>1. g \in T
      BY <2>2
    <3> HIDE DEF g
    <3>2. l \in T /\ g \in T /\ cm \in T /\ o \in T /\ Closed(T)
      BY <1>1, <1>2, <1>4, <3>1
    <3> QED
      BY ONLY <3>2, RegroupNested
  <2>4. Upto(list, k) = Cat(l, f[k]) /\ Upto(list, i) = Cat(Cat(Cat(l, f[k]), cm), o)
    BY <1>8, <1>10, <2>2, <2>3
  <2>5. Upto(list, i) = (Upto(list, k) \o cm) \o o
    BY <2>4 DEF Cat
  <2> QED
    BY <1>10, <2>3, <2>4, <2>5 DEF T, o, cm
<1> QED
  BY <1>9, <1>10

-----------------------------------------------------------------------------
(* jsmn_parse over the text of a list.                                       *)

\* The four strings of the i-th candidate have their tokens.
Listed(u, i, c) ==
    /\ Stored(u, 5 * (i - 1) + 3, <<"name">>)
    /\ Stored(u, 5 * (i - 1) + 4, Encoded(c.name))
    /\ Stored(u, 5 * (i - 1) + 5, <<"number">>)
    /\ Stored(u, 5 * (i - 1) + 6, Encoded(c.number))

\* After k items: their strings are stored if the tokens suffice, and if they
\* do not the parser has failed.
ItemsRead(u, list, k) ==
    /\ 1 + 5 * k <= NumTokens => /\ Doc(u, {1}, 1, 1 + 5 * k, k)
                                 /\ \A i \in 1..k : Listed(u, i, list[i])
    /\ 1 + 5 * k > NumTokens => Full(u)

\* The punctuation belongs to a body.
LEMMA SymbolsFacts ==
    /\ Quote \in Symbols /\ LeftBrace \in Symbols /\ RightBrace \in Symbols
    /\ Colon \in Symbols /\ CommaChar \in Symbols
    /\ LeftBracket \in Symbols /\ RightBracket \in Symbols
BY DEF Symbols

\* The names of the two fields.
LEMMA FieldNames ==
    /\ <<"name">> \in Texts /\ <<"number">> \in Texts
    /\ <<"name">> \in Seq(Symbols) /\ <<"number">> \in Seq(Symbols)
<1> DEFINE nm == "name"
           nr == "number"
<1>1. nm \in Symbols /\ nr \in Symbols
  BY DEF Symbols
<1>2. nm # Quote /\ nm # Backslash /\ nr # Quote /\ nr # Backslash
  BY DEF Quote, Backslash
<1> HIDE DEF nm, nr
<1>3. <<nm>> \in Texts /\ <<nr>> \in Texts
  BY <1>1, <1>2, OneText
<1>4. <<nm>> \in Seq(Symbols) /\ <<nr>> \in Seq(Symbols)
  BY <1>3 DEF Texts
<1> QED
  BY <1>3, <1>4 DEF nm, nr

\* An object read after m tokens.
LEMMA ObjectRead ==
    ASSUME NEW u \in Seq(Symbols), NEW c \in Candidate, NEW m, NEW k, Doc(u, {1}, 1, m, k),
           NEW v, v = u \o Object(c)
    PROVE  /\ Kept(u, v)
           /\ m + 5 <= NumTokens =>
                 /\ Doc(v, {1}, 1, m + 5, k + 1)
                 /\ Stored(v, m + 2, <<"name">>) /\ Stored(v, m + 3, Encoded(c.name))
                 /\ Stored(v, m + 4, <<"number">>) /\ Stored(v, m + 5, Encoded(c.number))
           /\ m + 5 > NumTokens => Full(v)
<1> DEFINE S == Symbols
           s1 == <<"name">>
           t1 == Encoded(c.name)
           s2 == <<"number">>
           t2 == Encoded(c.number)
<1>1. /\ Quote \in S /\ LeftBrace \in S /\ RightBrace \in S /\ Colon \in S /\ CommaChar \in S
      /\ u \in Seq(S)
  BY SymbolsFacts
<1>2. s1 \in Seq(S) /\ s2 \in Seq(S) /\ Passes(s1) /\ Passes(s2)
  BY FieldNames DEF Texts
<1>3. t1 \in Seq(S) /\ t2 \in Seq(S) /\ Passes(t1) /\ Passes(t2)
  <2>1. t1 \in Texts /\ t2 \in Texts
    BY EncodedPasses DEF Candidate
  <2> QED
    BY <2>1 DEF Texts
<1>4. v = u \o <<LeftBrace>> \o Quoted(s1) \o <<Colon>> \o Quoted(t1)
             \o <<CommaChar>> \o Quoted(s2) \o <<Colon>> \o Quoted(t2) \o <<RightBrace>>
  BY ObjectText
<1> HIDE DEF S, s1, t1, s2, t2
<1>5. /\ Kept(u, v)
      /\ m + 5 <= NumTokens =>
            /\ Doc(v, {1}, 1, m + 5, k + 1)
            /\ Stored(v, m + 2, s1) /\ Stored(v, m + 3, t1)
            /\ Stored(v, m + 4, s2) /\ Stored(v, m + 5, t2)
      /\ m + 5 > NumTokens => Full(v)
  BY <1>1, <1>2, <1>3, <1>4, ObjectDoc
<1> QED
  BY <1>5 DEF s1, t1, s2, t2

\* One item more is read.
LEMMA ItemsReadNext ==
    ASSUME NEW list \in Seq(Candidate), NEW k \in Nat, NEW i, i = k + 1, i <= Len(list),
           ItemsRead(Upto(list, k), list, k)
    PROVE  ItemsRead(Upto(list, i), list, i)
<1> DEFINE u == Upto(list, k)
           v == Upto(list, i)
           w == IF k = 0 THEN u ELSE u \o <<CommaChar>>
           c == list[i]
           o == Object(c)
           m == 1 + 5 * k
           n == m + 5
<1>1. /\ u \in Seq(Symbols) /\ v \in Seq(Symbols)
      /\ k = 0 => v = u \o o
      /\ k # 0 => v = (u \o <<CommaChar>>) \o o
  BY UptoNext
<1>2. c \in Candidate
  BY ItemsFacts
<1>3. /\ m \in Nat /\ n \in Nat /\ n = 1 + 5 * i /\ m < n /\ i \in Nat
      /\ m + 2 = 5 * (i - 1) + 3 /\ m + 3 = 5 * (i - 1) + 4
      /\ m + 4 = 5 * (i - 1) + 5 /\ m + 5 = 5 * (i - 1) + 6
      /\ NumTokens \in Nat
  BY NumTokensAssumption
<1>4. ItemsRead(u, list, k)
  OBVIOUS
<1>5. /\ m <= NumTokens => Doc(u, {1}, 1, m, k)
      /\ m <= NumTokens => \A j \in 1..k : Listed(u, j, list[j])
      /\ m > NumTokens => Full(u)
  <2> HIDE DEF u
  <2> QED
    BY <1>4 DEF ItemsRead
<1>6. o \in Seq(Symbols)
  BY <1>1, <1>2, ObjectText
<1> HIDE DEF u, v, c, m, n
<1>7. /\ w \in Seq(Symbols) /\ Kept(u, w) /\ v = w \o o
      /\ m <= NumTokens => Doc(w, {1}, 1, m, k)
  <2>1. CASE k = 0
    <3> DEFINE e == <<>>
    <3>1. e \in Seq(Symbols) /\ u \o e = u
      BY <1>1, EmptySeq
    <3>2. Kept(u, u)
      BY Zenon DEF Kept
    <3> QED
      BY <1>1, <1>5, <2>1, <3>2
  <2>2. CASE k # 0
    <3> DEFINE e == <<CommaChar>>
    <3>1. e \in Seq(Symbols)
      BY SymbolsFacts
    <3> HIDE DEF e
    <3>2. u \o e \in Seq(Symbols) /\ Kept(u, u \o e)
      BY <1>1, <3>1, ConcatProperties, MoreKeeps
    <3>3. m <= NumTokens => Doc(u \o <<CommaChar>>, {1}, 1, m, k)
      BY <1>1, <1>5, SymbolsFacts, ItemCommaDoc
    <3> QED
      BY <1>1, <2>2, <3>2, <3>3 DEF e
  <2> QED
    BY <2>1, <2>2
<1> HIDE DEF w, o
<1>8. Kept(u, v)
  <2>1. Kept(w, v)
    BY <1>6, <1>7, MoreKeeps
  <2> QED
    BY <1>7, <2>1, KeptTransitive
<1>9. ASSUME m <= NumTokens
      PROVE  /\ n <= NumTokens => /\ Doc(v, {1}, 1, n, i)
                                  /\ Listed(v, i, c)
             /\ n > NumTokens => Full(v)
  <2>1. Doc(w, {1}, 1, m, k) /\ v = w \o Object(c)
    BY <1>7, <1>9 DEF o
  <2>2. /\ m + 5 <= NumTokens =>
              /\ Doc(v, {1}, 1, m + 5, k + 1)
              /\ Stored(v, m + 2, <<"name">>) /\ Stored(v, m + 3, Encoded(c.name))
              /\ Stored(v, m + 4, <<"number">>) /\ Stored(v, m + 5, Encoded(c.number))
        /\ m + 5 > NumTokens => Full(v)
    BY <1>2, <1>7, <2>1, ObjectRead
  <2>3. m + 5 = n
    BY DEF n
  <2>4. n <= NumTokens => Doc(v, {1}, 1, n, i)
    BY <2>2, <2>3
  <2>5. n <= NumTokens => Listed(v, i, c)
    BY <1>3, <2>2, <2>3 DEF Listed
  <2> QED
    BY <2>2, <2>3, <2>4, <2>5
<1>10. ASSUME n <= NumTokens
       PROVE  Doc(v, {1}, 1, n, i) /\ \A j \in 1..i : Listed(v, j, list[j])
  <2>1. m <= NumTokens
    BY <1>3, <1>10
  <2>2. ASSUME NEW j \in 1..k
        PROVE  Listed(v, j, list[j])
    BY <1>5, <1>8, <2>1, Zenon DEF Listed, Kept
  <2>3. Listed(v, i, list[i])
    BY <1>9, <1>10, <2>1 DEF c
  <2>4. \A j \in 1..i : j \in 1..k \/ j = i
    OBVIOUS
  <2> QED
    BY <1>9, <1>10, <2>1, <2>2, <2>3, <2>4
<1>11. ASSUME n > NumTokens
       PROVE  Full(v)
  <2>1. CASE m <= NumTokens
    BY <1>9, <1>11, <2>1
  <2>2. CASE m > NumTokens
    BY <1>5, <1>8, <2>2 DEF Kept
  <2> QED
    BY <1>3, <2>1, <2>2
<1>12. ItemsRead(v, list, i)
  BY <1>3, <1>10, <1>11 DEF ItemsRead
<1> QED
  BY <1>12 DEF v

\* Every item of a list is read.
LEMMA UptoRead ==
    ASSUME NEW list \in Seq(Candidate), NEW k \in 0..Len(list)
    PROVE  /\ Upto(list, k) \in Seq(Symbols)
           /\ ItemsRead(Upto(list, k), list, k)
<1> DEFINE n == Len(list)
           Good(j) == Upto(list, j) \in Seq(Symbols) /\ ItemsRead(Upto(list, j), list, j)
           I == {j \in Nat : j <= n => Good(j)}
<1>1. n \in Nat
  BY LenProperties
<1>2. 0 \in I
  <2>1. Upto(list, 0) = <<LeftBracket>>
    BY DEF Upto
  <2>2. <<LeftBracket>> \in Seq(Symbols)
    BY SymbolsFacts
  <2>3. ItemsRead(<<LeftBracket>>, list, 0)
    <3>1. 1 + 5 * 0 = 1 /\ 1 <= NumTokens /\ ~(1 > NumTokens)
      BY NumTokensAssumption
    <3>2. \A i \in 1..0 : Listed(<<LeftBracket>>, i, list[i])
      OBVIOUS
    <3> QED
      BY <3>1, <3>2, StartDoc DEF ItemsRead
  <2> QED
    BY <2>1, <2>2, <2>3
<1>3. ASSUME NEW j \in I
      PROVE  j + 1 \in I
  <2> DEFINE i == j + 1
  <2>1. j \in Nat /\ i \in Nat /\ i = j + 1 /\ (i <= n => j <= n)
    BY <1>1
  <2> HIDE DEF i
  <2>2. ASSUME i <= n
        PROVE  Good(i)
    <3>1. Good(j)
      BY <1>3, <2>1, <2>2
    <3>2. Upto(list, i) \in Seq(Symbols)
      BY <2>1, <2>2, UptoNext
    <3>3. ItemsRead(Upto(list, i), list, i)
      BY <2>1, <2>2, <3>1, ItemsReadNext
    <3> QED
      BY <3>2, <3>3
  <2> QED
    BY <2>1, <2>2 DEF i
<1>4. I = Nat
  <2>1. I \subseteq Nat
    OBVIOUS
  <2> HIDE DEF I
  <2> QED
    BY <2>1, <1>2, <1>3, Induction
<1>5. k \in I /\ k <= n
  BY <1>1, <1>4
<1> QED
  BY <1>5

\* The text before the last bracket opens the array and leaves it open.
LEMMA UptoOpen ==
    ASSUME NEW list \in Seq(Candidate), NEW u, u = Upto(list, Len(list))
    PROVE  u \in Seq(Symbols) /\ u # <<>> /\ u[1] = LeftBracket /\ 1 \in Unclosed(Scanned(u))
<1> DEFINE n == Len(list)
           l == <<LeftBracket>>
           m == 1 + 5 * n
<1>1. n \in Nat /\ m \in Nat /\ n \in 0..n
  BY LenProperties
<1>2. u \in Seq(Symbols) /\ ItemsRead(u, list, n)
  BY <1>1, UptoRead
<1>3. l \in Seq(Symbols) /\ Len(l) = 1 /\ l[1] = LeftBracket
  BY SymbolsFacts
<1>4. Len(u) >= 1 /\ u[1] = LeftBracket
  <2>1. CASE n = 0
    BY <1>3, <2>1 DEF Upto
  <2>2. CASE n # 0
    <3> DEFINE f == Flat(Items(list))[n]
    <3>1. u = l \o f
      BY <2>2 DEF Upto
    <3>2. f \in Seq(Symbols)
      BY <1>1, <2>2, ItemsType
    <3> HIDE DEF l, f
    <3>3. (l \o f)[1] = l[1] /\ Len(l \o f) >= 1
      BY <1>3, <3>2, ConcatLeft, ConcatProperties, LenProperties
    <3> QED
      BY <1>3, <3>1, <3>3
  <2> QED
    BY <2>1, <2>2
<1>5. u # <<>>
  BY <1>4
<1>6. 1 \in Unclosed(Scanned(u))
  <2>1. CASE m <= NumTokens
    <3> DEFINE o == {1}
    <3>1. Doc(u, o, 1, m, n)
      BY <1>2, <2>1 DEF ItemsRead
    <3>2. 1 \in o
      OBVIOUS
    <3> HIDE DEF o
    <3> QED
      BY <3>1, <3>2 DEF Doc, Reading, Holds
  <2>2. CASE m > NumTokens
    BY <1>2, <2>2 DEF ItemsRead, Full, Stuck
  <2> QED
    BY <1>1, <2>1, <2>2, NumTokensAssumption
<1> QED
  BY <1>2, <1>4, <1>5, <1>6

\* A body cut anywhere before its last bracket is not an array.
LEMMA CutBody ==
    ASSUME NEW list \in Seq(Candidate), NEW n \in 0..Len(Body(list)), n # Len(Body(list))
    PROVE  ~(Result(Parse(SubSeq(Body(list), 1, n))) > 0)
<1> DEFINE u == Upto(list, Len(list))
           c == <<RightBracket>>
           v == Body(list)
<1>1. u \in Seq(Symbols) /\ u # <<>> /\ u[1] = LeftBracket /\ 1 \in Unclosed(Scanned(u))
  BY UptoOpen
<1>2. v = u \o c
  BY BodyIs
<1>3. c \in Seq(Symbols) /\ Len(c) = 1
  BY SymbolsFacts
<1> HIDE DEF u, c, v
<1>4. v \in Seq(Symbols) /\ Len(v) = Len(u) + 1 /\ Len(u) \in Nat
  <2>1. v \in Seq(Symbols) /\ Len(v) = Len(u) + Len(c)
    BY <1>1, <1>2, <1>3, ConcatProperties
  <2>2. Len(u) \in Nat
    BY <1>1, LenProperties
  <2> QED
    BY <1>3, <2>1, <2>2
<1>5. n \in 0..Len(u) /\ n <= Len(v)
  BY <1>4 DEF v
<1>6. SubSeq(v, 1, n) = SubSeq(u, 1, n)
  <2> DEFINE a == SubSeq(v, 1, n)
             b == SubSeq(u, 1, n)
  <2>1. a \in Seq(Symbols) /\ Len(a) = n /\ \A i \in 1..n : a[i] = v[i]
    BY <1>4, <1>5
  <2>2. b \in Seq(Symbols) /\ Len(b) = n /\ \A i \in 1..n : b[i] = u[i]
    BY <1>1, <1>4, <1>5
  <2>3. \A i \in 1..n : v[i] = u[i]
    <3>1. \A i \in 1..n : i \in 1..Len(u)
      BY <1>4, <1>5
    <3> QED
      BY <1>1, <1>2, <1>3, <3>1, ConcatLeft
  <2> HIDE DEF a, b
  <2>4. \A i \in 1..n : a[i] = b[i]
    BY <2>1, <2>2, <2>3
  <2>5. a = b
    BY <2>1, <2>2, <2>4, SeqEqual
  <2> QED
    BY <2>5 DEF a, b
<1>7. ~(Result(Parse(SubSeq(u, 1, n))) > 0)
  BY <1>1, <1>5, CutEnd
<1> QED
  BY <1>6, <1>7 DEF v

\* A parsed text has this string at its i-th token.
Holding(text, i, s) ==
    /\ i \in 1..Len(Parse(text).tokens)
    /\ Parse(text).tokens[i].type = "string"
    /\ Contents(text, Parse(text).tokens[i]) = s

\* The parsed text is an array of as many items as candidates, each with its
\* four strings.
BodyRead(text, list) ==
    /\ Result(Parse(text)) > 0
    /\ Parse(text).tokens[1].type = "array" /\ Parse(text).tokens[1].size = Len(list)
    /\ Len(Parse(text).tokens) = 1 + 5 * Len(list)
    /\ \A i \in 1..Len(list) :
          /\ Holding(text, 5 * (i - 1) + 3, <<"name">>)
          /\ Holding(text, 5 * (i - 1) + 4, Encoded(list[i].name))
          /\ Holding(text, 5 * (i - 1) + 5, <<"number">>)
          /\ Holding(text, 5 * (i - 1) + 6, Encoded(list[i].number))

\* A whole body is an array of as many items as candidates, each with its four
\* strings, if the tokens suffice; if they do not it is an error.
LEMMA WholeBody ==
    ASSUME NEW list \in Seq(Candidate)
    PROVE  /\ TokensOf(list) <= NumTokens => BodyRead(Body(list), list)
           /\ TokensOf(list) > NumTokens => ~(Result(Parse(Body(list))) > 0)
<1> DEFINE n == Len(list)
           v == Body(list)
           p == Parse(v)
           u == Upto(list, n)
           c == <<RightBracket>>
           m == 1 + 5 * n
<1>1. n \in Nat /\ m \in Nat /\ m > 0 /\ n \in 0..n
  BY LenProperties
<1>2. u \in Seq(Symbols) /\ ItemsRead(u, list, n)
  BY <1>1, UptoRead
<1>3. v = u \o c
  BY BodyIs
<1>4. RightBracket \in Symbols /\ c \in Seq(Symbols)
  BY SymbolsFacts
<1> HIDE DEF u, c, v
<1>5. Kept(u, v)
  BY <1>2, <1>3, <1>4, MoreKeeps
<1>6. ASSUME m <= NumTokens
      PROVE  /\ Result(p) > 0 /\ p.tokens[1].type = "array" /\ p.tokens[1].size = n
             /\ Len(p.tokens) = m
             /\ \A i \in 1..n :
                   /\ Holding(v, 5 * (i - 1) + 3, <<"name">>)
                   /\ Holding(v, 5 * (i - 1) + 4, Encoded(list[i].name))
                   /\ Holding(v, 5 * (i - 1) + 5, <<"number">>)
                   /\ Holding(v, 5 * (i - 1) + 6, Encoded(list[i].number))
  <2>1. Doc(u, {1}, 1, m, n) /\ \A i \in 1..n : Listed(u, i, list[i])
    BY <1>2, <1>6 DEF ItemsRead
  <2>2. /\ p = Scanned(v) /\ Result(p) = m /\ Len(p.tokens) = m
        /\ p.tokens[1].type = "array" /\ p.tokens[1].size = n
    <3> DEFINE w == u \o <<RightBracket>>
    <3> HIDE DEF m
    <3>1. /\ Parse(w) = Scanned(w) /\ Result(Parse(w)) = m /\ Len(Scanned(w).tokens) = m
          /\ Scanned(w).tokens[1].type = "array" /\ Scanned(w).tokens[1].size = n
      BY <1>2, <1>4, <2>1, EndDoc
    <3>2. w = v
      BY <1>3 DEF c
    <3> HIDE DEF w
    <3> QED
      BY <3>1, <3>2
  <2> HIDE DEF p
  <2>3. \A j : \A x : Stored(v, j, x) => Holding(v, j, x)
    BY <2>2, Zenon DEF Stored, Holding, p
  <2>4. ASSUME NEW i \in 1..n
        PROVE  /\ Holding(v, 5 * (i - 1) + 3, <<"name">>)
               /\ Holding(v, 5 * (i - 1) + 4, Encoded(list[i].name))
               /\ Holding(v, 5 * (i - 1) + 5, <<"number">>)
               /\ Holding(v, 5 * (i - 1) + 6, Encoded(list[i].number))
    <3>1. Listed(u, i, list[i])
      BY <2>1
    <3>2. Listed(v, i, list[i])
      BY <1>5, <3>1, Zenon DEF Listed, Kept
    <3> QED
      BY <2>3, <3>2, Zenon DEF Listed
  <2> QED
    BY <1>1, <2>2, <2>4
<1>7. ASSUME m > NumTokens
      PROVE  ~(Result(p) > 0)
  <2>1. Full(v)
    BY <1>2, <1>5, <1>7 DEF ItemsRead, Kept
  <2> QED
    BY <2>1, FullEnd
<1>8. m <= NumTokens => BodyRead(v, list)
  BY <1>6, Zenon DEF BodyRead
<1> QED
  BY <1>7, <1>8 DEF TokensOf, v

-----------------------------------------------------------------------------
(* The loop of lines 348-367 over the tokens of a body.                      *)

\* The pair that holds a field is found, and its value is cut to the array.
LEMMA FieldFound ==
    ASSUME NEW text, NEW tokens, NEW i, NEW s, NEW size, NEW j \in 1..2,
           Key(i, j) < Len(tokens),
           JsonEq(text, tokens[Key(i, j)], s),
           \A k \in 1..2 \ {j} : ~JsonEq(text, tokens[Key(i, k)], s)
    PROVE  Field(text, tokens, i, s, size) = Cut(Contents(text, tokens[Key(i, j) + 1]), size)
<1> DEFINE pairs == {l \in 1..2 : Key(i, l) < Len(tokens) /\ JsonEq(text, tokens[Key(i, l)], s)}
<1>1. pairs = {j}
  <2>1. j \in pairs
    OBVIOUS
  <2>2. ASSUME NEW l \in pairs
        PROVE  l = j
    BY <2>2
  <2> HIDE DEF pairs
  <2> QED
    BY <2>1, <2>2
<1>2. Max(pairs) = j /\ pairs # {}
  <2> HIDE DEF pairs
  <2> QED
    BY <1>1 DEF Max
<1>3. Field(text, tokens, i, s, size)
         = IF pairs = {} THEN Garbage ELSE Cut(Contents(text, tokens[Key(i, Max(pairs)) + 1]), size)
  BY Zenon DEF Field
<1> HIDE DEF pairs
<1> QED
  BY <1>2, <1>3

\* Both fields of a candidate are its own.
LEMMA FieldsFound ==
    ASSUME NEW list \in Seq(Candidate), TokensOf(list) <= NumTokens, NEW i \in 1..Len(list),
           NEW size
    PROVE  /\ Field(Body(list), Parse(Body(list)).tokens, i, "name", size)
                 = Cut(Encoded(list[i].name), size)
           /\ Field(Body(list), Parse(Body(list)).tokens, i, "number", size)
                 = Cut(Encoded(list[i].number), size)
<1> DEFINE n == Len(list)
           text == Body(list)
           tokens == Parse(text).tokens
           nm == "name"
           nr == "number"
           x == Encoded(list[i].name)
           y == Encoded(list[i].number)
           a == 5 * (i - 1)
<1>1. /\ Len(tokens) = 1 + 5 * n
      /\ Holding(text, a + 3, <<nm>>) /\ Holding(text, a + 4, x)
      /\ Holding(text, a + 5, <<nr>>) /\ Holding(text, a + 6, y)
  BY WholeBody, Zenon DEF BodyRead
<1>2. nm # nr
  OBVIOUS
<1>3. n \in Nat /\ i \in Nat
  BY LenProperties
<1>4. /\ Key(i, 1) = a + 3 /\ Key(i, 1) + 1 = a + 4 /\ Key(i, 2) = a + 5 /\ Key(i, 2) + 1 = a + 6
      /\ Key(i, 1) < Len(tokens) /\ Key(i, 2) < Len(tokens)
  BY <1>1, <1>3 DEF Key
<1> HIDE DEF nm, nr, x, y, a, text, tokens
<1>5. /\ JsonEq(text, tokens[Key(i, 1)], nm) /\ JsonEq(text, tokens[Key(i, 2)], nr)
      /\ Contents(text, tokens[Key(i, 1) + 1]) = x
      /\ Contents(text, tokens[Key(i, 2) + 1]) = y
  BY <1>1, <1>4 DEF Holding, JsonEq, tokens
<1>6. ~JsonEq(text, tokens[Key(i, 2)], nm) /\ ~JsonEq(text, tokens[Key(i, 1)], nr)
  <2>1. <<nm>> # <<nr>>
    BY <1>2, <<nm>>[1] # <<nr>>[1]
  <2> QED
    BY <1>5, <2>1 DEF JsonEq
<1>7. Field(text, tokens, i, nm, size) = Cut(x, size)
  <2> DEFINE j == 1
  <2>1. /\ j \in 1..2 /\ Key(i, j) < Len(tokens) /\ JsonEq(text, tokens[Key(i, j)], nm)
        /\ \A k \in 1..2 \ {j} : ~JsonEq(text, tokens[Key(i, k)], nm)
    BY <1>4, <1>5, <1>6
  <2>2. Contents(text, tokens[Key(i, j) + 1]) = x
    BY <1>5
  <2> HIDE DEF j
  <2> QED
    BY <2>1, <2>2, FieldFound
<1>8. Field(text, tokens, i, nr, size) = Cut(y, size)
  <2> DEFINE j == 2
  <2>1. /\ j \in 1..2 /\ Key(i, j) < Len(tokens) /\ JsonEq(text, tokens[Key(i, j)], nr)
        /\ \A k \in 1..2 \ {j} : ~JsonEq(text, tokens[Key(i, k)], nr)
    BY <1>4, <1>5, <1>6
  <2>2. Contents(text, tokens[Key(i, j) + 1]) = y
    BY <1>5
  <2> HIDE DEF j
  <2> QED
    BY <2>1, <2>2, FieldFound
<1> QED
  BY <1>7, <1>8 DEF nm, nr, x, y, text, tokens

\* snprintf keeps a prefix, and less only when the array is full.
LEMMA CutKeeps ==
    ASSUME NEW S, NEW text \in Seq(S), NEW size \in Nat \ {0}
    PROVE  /\ Len(Cut(text, size)) < size
           /\ Keeps(Cut(text, size), text, size)
           /\ Len(text) < size => Cut(text, size) = text
<1> DEFINE n == Len(text)
           k == Min({n, size - 1})
           f == Cut(text, size)
<1>1. n \in Nat /\ size - 1 \in Nat
  BY LenProperties
<1>2. k \in 0..n /\ k <= size - 1 /\ (k = n \/ k = size - 1) /\ (n < size => k = n)
  <2> DEFINE m == size - 1
  <2>1. k = Min({n, m})
    OBVIOUS
  <2>2. m \in Nat
    BY <1>1
  <2> HIDE DEF n, k
  <2>3. (n <= m => k = n) /\ (m <= n => k = m)
    <3> HIDE DEF m
    <3>1. ASSUME n <= m
          PROVE  k = n
      BY <1>1, <2>1, <2>2, <3>1 DEF Min
    <3>2. ASSUME m <= n
          PROVE  k = m
      BY <1>1, <2>1, <2>2, <3>2 DEF Min
    <3> QED
      BY <3>1, <3>2
  <2> QED
    BY <1>1, <2>3
<1>3. f = SubSeq(text, 1, k)
  BY Zenon DEF Cut
<1> HIDE DEF k, f
<1>4. Len(f) = k /\ f \in Seq(S)
  BY <1>1, <1>2, <1>3
<1>5. k = n => f = text
  BY <1>2, <1>3, SubSeqFull
<1>6. IsPrefix(f, text)
  BY <1>1, <1>2, <1>3, <1>4 DEF IsPrefix
<1>7. Len(f) < size
  BY <1>1, <1>2, <1>4
<1>8. Keeps(f, text, size)
  BY <1>2, <1>4, <1>5, <1>6 DEF Keeps
<1> QED
  BY <1>2, <1>5, <1>7, <1>8 DEF f

-----------------------------------------------------------------------------
(* JSON.parse reads back what JSON.stringify wrote.                          *)

\* The two bytes of an accented letter.
Lead == "C3"
Trail == "A9"
Accented == "e-acute"

\* The equation of Decoded at one position, and from a position on.
FromAt(f, bytes, i) ==
    IF i > Len(bytes) THEN <<>>
    ELSE CASE bytes[i] = Backslash /\ i < Len(bytes) -> <<bytes[i + 1]>> \o f[i + 2]
           [] bytes[i] = Backslash /\ i = Len(bytes) -> <<Half>>
           [] bytes[i] = "C3" /\ i < Len(bytes) -> <<"e-acute">> \o f[i + 2]
           [] bytes[i] = "C3" /\ i = Len(bytes) -> <<Replacement>>
           [] OTHER -> <<bytes[i]>> \o f[i + 1]

IsFrom(f, bytes, j) == f = [i \in j..(Len(bytes) + 1) |-> FromAt(f, bytes, i)]

\* The rows of the equation, for a value at one position.
Rows(f, bytes, i, v) ==
    /\ i > Len(bytes) => v = <<>>
    /\ i < Len(bytes) /\ bytes[i] = Backslash => v = <<bytes[i + 1]>> \o f[i + 2]
    /\ i = Len(bytes) /\ bytes[i] = Backslash => v = <<Half>>
    /\ i < Len(bytes) /\ bytes[i] = Lead => v = <<Accented>> \o f[i + 2]
    /\ i = Len(bytes) /\ bytes[i] = Lead => v = <<Replacement>>
    /\ i <= Len(bytes) /\ bytes[i] # Backslash /\ bytes[i] # Lead => v = <<bytes[i]>> \o f[i + 1]

\* The equation gives these rows.
LEMMA FromRows ==
    ASSUME NEW f, NEW bytes, NEW i, Len(bytes) \in Nat, i \in Nat
    PROVE  Rows(f, bytes, i, FromAt(f, bytes, i))
<1> USE DEF Rows
<1>1. Lead # Backslash
  BY DEF Lead, Backslash
<1>2. CASE i > Len(bytes)
  <2>1. ~(i < Len(bytes)) /\ i # Len(bytes) /\ ~(i <= Len(bytes))
    BY <1>2
  <2> QED
    BY <1>2, <2>1, Zenon DEF FromAt
<1>3. CASE i < Len(bytes)
  <2>1. ~(i > Len(bytes)) /\ i # Len(bytes)
    BY <1>3
  <2>2. CASE bytes[i] = Backslash
    <3>1. FromAt(f, bytes, i) = <<bytes[i + 1]>> \o f[i + 2]
      BY <1>1, <1>3, <2>1, <2>2, Zenon DEF FromAt, Lead
    <3> QED
      BY <1>1, <2>1, <2>2, <3>1, Zenon
  <2>3. CASE bytes[i] = Lead
    <3>1. FromAt(f, bytes, i) = <<Accented>> \o f[i + 2]
      BY <1>1, <1>3, <2>1, <2>3, Zenon DEF FromAt, Lead, Accented
    <3> QED
      BY <1>1, <2>1, <2>3, <3>1, Zenon
  <2>4. CASE bytes[i] # Backslash /\ bytes[i] # Lead
    <3>1. FromAt(f, bytes, i) = <<bytes[i]>> \o f[i + 1]
      BY <1>1, <1>3, <2>1, <2>4, Zenon DEF FromAt, Lead
    <3> QED
      BY <2>1, <2>4, <3>1, Zenon
  <2> QED
    BY <2>2, <2>3, <2>4
<1>4. CASE i = Len(bytes)
  <2>1. ~(i > Len(bytes)) /\ ~(i < Len(bytes))
    BY <1>4
  <2>2. CASE bytes[i] = Backslash
    <3>1. FromAt(f, bytes, i) = <<Half>>
      BY <1>1, <1>4, <2>1, <2>2, Zenon DEF FromAt, Lead
    <3> QED
      BY <1>1, <2>1, <2>2, <3>1, Zenon
  <2>3. CASE bytes[i] = Lead
    <3>1. FromAt(f, bytes, i) = <<Replacement>>
      BY <1>1, <1>4, <2>1, <2>3, Zenon DEF FromAt, Lead
    <3> QED
      BY <1>1, <2>1, <2>3, <3>1, Zenon
  <2>4. CASE bytes[i] # Backslash /\ bytes[i] # Lead
    <3>1. FromAt(f, bytes, i) = <<bytes[i]>> \o f[i + 1]
      BY <1>1, <1>4, <2>1, <2>4, Zenon DEF FromAt, Lead
    <3> QED
      BY <2>1, <2>4, <3>1, Zenon
  <2> QED
    BY <2>2, <2>3, <2>4
<1> QED
  BY <1>2, <1>3, <1>4

\* A position depends on those that follow it.
LEMMA FromAgrees ==
    ASSUME NEW f, NEW g, NEW bytes, Len(bytes) \in Nat, NEW i \in Nat,
           \A k \in (i + 1)..(Len(bytes) + 1) : f[k] = g[k]
    PROVE  FromAt(f, bytes, i) = FromAt(g, bytes, i)
<1> DEFINE v == FromAt(f, bytes, i)
           w == FromAt(g, bytes, i)
<1>1. Rows(f, bytes, i, v) /\ Rows(g, bytes, i, w)
  BY FromRows
<1> HIDE DEF v, w
<1>2. CASE i > Len(bytes)
  BY <1>1, <1>2 DEF Rows, v, w
<1>3. CASE i < Len(bytes)
  <2>1. f[i + 1] = g[i + 1] /\ f[i + 2] = g[i + 2] /\ i <= Len(bytes)
    BY <1>3
  <2>2. v = w
    BY <1>1, <1>3, <2>1, Zenon DEF Rows
  <2> QED
    BY <2>2 DEF v, w
<1>4. CASE i = Len(bytes)
  <2>1. f[i + 1] = g[i + 1] /\ i <= Len(bytes)
    BY <1>4
  <2>2. v = w
    BY <1>1, <1>4, <2>1, Zenon DEF Rows
  <2> QED
    BY <2>2 DEF v, w
<1> QED
  BY <1>2, <1>3, <1>4

\* The function Decoded defines by recursion exists.
LEMMA FromExists ==
    ASSUME NEW bytes, Len(bytes) \in Nat
    PROVE  \E f : IsFrom(f, bytes, 1)
<1> DEFINE n == Len(bytes)
           S == {k \in Nat : k <= n => \E f : IsFrom(f, bytes, (n + 1) - k)}
<1>1. 0 \in S
  <2> DEFINE f == [i \in (n + 1)..(n + 1) |-> <<>>]
  <2>1. ASSUME NEW i \in (n + 1)..(n + 1)
        PROVE  FromAt(f, bytes, i) = <<>>
    <3> HIDE DEF f
    <3>1. i \in Nat /\ i > Len(bytes)
      OBVIOUS
    <3>2. Rows(f, bytes, i, FromAt(f, bytes, i))
      BY <3>1, FromRows
    <3> QED
      BY <3>1, <3>2 DEF Rows
  <2>2. IsFrom(f, bytes, n + 1)
    <3>1. f = [i \in (n + 1)..(n + 1) |-> FromAt(f, bytes, i)]
      BY <2>1
    <3> QED
      BY <3>1 DEF IsFrom
  <2>3. (n + 1) - 0 = n + 1
    OBVIOUS
  <2>4. \E g : IsFrom(g, bytes, (n + 1) - 0)
    BY <2>2, <2>3
  <2> QED
    BY <2>4
<1>2. ASSUME NEW k \in S
      PROVE  k + 1 \in S
  <2> DEFINE j == (n + 1) - (k + 1)
             l == (n + 1) - k
  <2>1. k \in Nat /\ k + 1 \in Nat /\ (k + 1 <= n => k <= n /\ j \in Nat /\ l = j + 1 /\ j <= n)
    BY <1>2
  <2>2. ASSUME k + 1 <= n
        PROVE  \E f : IsFrom(f, bytes, j)
    <3>1. PICK a : IsFrom(a, bytes, l)
      BY <1>2, <2>1, <2>2
    <3>2. j \in Nat /\ l = j + 1 /\ j <= n
      BY <2>1, <2>2
    <3> HIDE DEF j, l
    <3> DEFINE b == [i \in j..(n + 1) |-> IF i = j THEN FromAt(a, bytes, j) ELSE a[i]]
    <3>3. \A i \in l..(n + 1) : b[i] = a[i] /\ i \in j..(n + 1)
      BY <3>2
    <3>4. \A i \in l..(n + 1) : a[i] = FromAt(a, bytes, i)
      BY <3>1, Zenon DEF IsFrom
    <3>5. b[j] = FromAt(a, bytes, j)
      BY <3>2
    <3>6. b = [i \in j..(n + 1) |-> b[i]]
      BY Zenon
    <3> HIDE DEF b
    <3>7. ASSUME NEW i \in j..(n + 1)
          PROVE  b[i] = FromAt(b, bytes, i)
      <4>1. i \in Nat /\ (i = j \/ i \in l..(n + 1))
        BY <3>2
      <4>2. \A x \in (i + 1)..(n + 1) : x \in l..(n + 1)
        BY <3>2
      <4>3. \A x \in (i + 1)..(n + 1) : a[x] = b[x]
        BY <3>3, <4>2
      <4>4. FromAt(a, bytes, i) = FromAt(b, bytes, i)
        BY <4>1, <4>3, FromAgrees
      <4> QED
        BY <3>3, <3>4, <3>5, <4>1, <4>4
    <3>8. b = [i \in j..(n + 1) |-> FromAt(b, bytes, i)]
      BY <3>6, <3>7
    <3>9. IsFrom(b, bytes, j)
      BY <3>8 DEF IsFrom
    <3> QED
      BY <3>9
  <2> QED
    BY <2>1, <2>2
<1>3. S = Nat
  <2>1. S \subseteq Nat
    OBVIOUS
  <2> HIDE DEF S
  <2> QED
    BY <2>1, <1>1, <1>2, Induction
<1>4. n \in S /\ n <= n /\ (n + 1) - n = 1
  BY <1>3
<1> QED
  BY <1>4

\* What Decoded reads from each position on.
From(bytes) == CHOOSE f : IsFrom(f, bytes, 1)

\* Decoded reads from the first byte on, by the equation.
LEMMA FromEquation ==
    ASSUME NEW bytes, Len(bytes) \in Nat
    PROVE  /\ Decoded(bytes) = From(bytes)[1]
           /\ \A i \in 1..(Len(bytes) + 1) : From(bytes)[i] = FromAt(From(bytes), bytes, i)
<1>1. Decoded(bytes) = From(bytes)[1]
  BY Zenon DEF Decoded, From, IsFrom, FromAt
<1>2. IsFrom(From(bytes), bytes, 1)
  BY FromExists, Zenon DEF From
<1>3. \A i \in 1..(Len(bytes) + 1) : From(bytes)[i] = FromAt(From(bytes), bytes, i)
  BY <1>2, Zenon DEF IsFrom
<1> QED
  BY <1>1, <1>3

\* A character has at least one byte.
LEMMA BytesLength ==
    ASSUME NEW c \in Chars
    PROVE  Len(Bytes(c)) >= 1
<1>1. \A a : \A b : Len(<<a>>) >= 1 /\ Len(<<a, b>>) >= 1
  OBVIOUS
<1> QED
  BY <1>1, BytesCases, Zenon

\* The bytes of c are those from i up to j.
BytesAt(bytes, i, j, c) ==
    /\ j = i + Len(Bytes(c)) /\ j <= Len(bytes) + 1
    /\ \A q \in 1..Len(Bytes(c)) : bytes[(i - 1) + q] = Bytes(c)[q]

\* The bytes of one character are read as that character.
LEMMA OneDecoded ==
    ASSUME NEW c \in Chars, NEW f, NEW bytes, Len(bytes) \in Nat, NEW i \in 1..Len(bytes),
           NEW j, BytesAt(bytes, i, j, c)
    PROVE  FromAt(f, bytes, i) = <<c>> \o f[j]
<1> DEFINE v == FromAt(f, bytes, i)
           n == Len(bytes)
           x == Bytes(c)
<1>1. /\ j = i + Len(x) /\ j <= n + 1
      /\ \A q \in 1..Len(x) : bytes[(i - 1) + q] = x[q]
  BY Zenon DEF BytesAt
<1>2. Rows(f, bytes, i, v)
  BY FromRows
<1> HIDE DEF v, x, n
<1>3. Lead # Backslash
  BY DEF Lead, Backslash
<1>4. (i - 1) + 1 = i /\ (i - 1) + 2 = i + 1 /\ i <= Len(bytes)
  OBVIOUS
<1>5. CASE c \in {Quote, Backslash} /\ Bytes(c) = <<Backslash, c>>
  <2>1. Len(x) = 2 /\ x[1] = Backslash /\ x[2] = c
    BY <1>5 DEF x
  <2>2. i < Len(bytes) /\ j = i + 2
    BY <1>1, <2>1 DEF n
  <2>3. 1 \in 1..Len(x) /\ 2 \in 1..Len(x)
    BY <2>1
  <2>4. bytes[(i - 1) + 1] = x[1] /\ bytes[(i - 1) + 2] = x[2]
    BY <1>1, <2>3, Zenon
  <2>5. bytes[i] = Backslash /\ bytes[i + 1] = c
    BY <1>4, <2>1, <2>4
  <2>6. v = <<bytes[i + 1]>> \o f[i + 2]
    BY <1>2, <2>2, <2>5, Zenon DEF Rows
  <2> QED
    BY <2>2, <2>5, <2>6 DEF v
<1>6. CASE c = Accented /\ Bytes(c) = <<Lead, Trail>>
  <2>1. Len(x) = 2 /\ x[1] = Lead
    BY <1>6 DEF x
  <2>2. i < Len(bytes) /\ j = i + 2
    BY <1>1, <2>1 DEF n
  <2>3. 1 \in 1..Len(x)
    BY <2>1
  <2>4. bytes[(i - 1) + 1] = x[1]
    BY <1>1, <2>3, Zenon
  <2>5. bytes[i] = Lead
    BY <1>4, <2>1, <2>4
  <2>6. v = <<Accented>> \o f[i + 2]
    BY <1>2, <2>2, <2>5, Zenon DEF Rows
  <2> QED
    BY <1>6, <2>2, <2>6 DEF v
<1>7. CASE c \notin {Quote, Backslash, Accented} /\ Bytes(c) = <<c>>
  <2>1. Len(x) = 1 /\ x[1] = c
    BY <1>7 DEF x
  <2>2. j = i + 1
    BY <1>1, <2>1
  <2>3. 1 \in 1..Len(x)
    BY <2>1
  <2>4. bytes[(i - 1) + 1] = x[1]
    BY <1>1, <2>3, Zenon
  <2>5. bytes[i] = c
    BY <1>4, <2>1, <2>4
  <2>6. c # Backslash /\ c # Lead
    <3>1. Lead \notin Chars
      BY CharsAssumption DEF Lead
    <3> QED
      BY <1>7, <3>1
  <2>7. v = <<bytes[i]>> \o f[i + 1]
    BY <1>2, <1>4, <2>5, <2>6, Zenon DEF Rows
  <2> QED
    BY <2>2, <2>5, <2>7 DEF v
<1> QED
  BY <1>5, <1>6, <1>7, BytesCases, Zenon DEF Lead, Trail, Accented

\* The bytes of the first k characters.
Before(typed, k) == IF k = 0 THEN <<>> ELSE Flat(Pieces(typed))[k]

\* One character more.
LEMMA BeforeNext ==
    ASSUME NEW typed \in Seq(Chars), NEW k \in Nat, NEW i, i = k + 1, i <= Len(typed)
    PROVE  /\ Before(typed, k) \in Seq(Symbols) /\ Bytes(typed[i]) \in Seq(Symbols)
           /\ Before(typed, i) = Before(typed, k) \o Bytes(typed[i])
<1> DEFINE seqs == Pieces(typed)
           m == Len(typed)
           f == Flat(seqs)
           T == Seq(Symbols)
<1>1. /\ m \in Nat /\ Len(seqs) = m
      /\ \A j \in 1..m : typed[j] \in Chars /\ seqs[j] = Bytes(typed[j])
  BY PiecesFacts
<1>2. \A j \in 1..m : seqs[j] \in T
  BY <1>1, BytesPass DEF Texts
<1>3. \A s \in T : \A t \in T : s \o t \in T
  BY ConcatProperties
<1>4. /\ m # 0 => f[1] = seqs[1]
      /\ \A j \in 2..m : f[j] = f[j - 1] \o seqs[j]
  BY <1>1, FlatEquation
<1>5. \A j \in 1..m : f[j] \in T
  <2> HIDE DEF T, seqs
  <2> QED
    BY <1>1, <1>2, <1>3, FlatKeeps
<1>6. i \in 1..m /\ i # 0
  BY <1>1
<1>7. Before(typed, i) = f[i]
  BY <1>6 DEF Before
<1>8. CASE k = 0
  <2>1. Before(typed, k) = <<>> /\ i = 1 /\ m # 0
    BY <1>1, <1>8 DEF Before
  <2>2. Before(typed, i) = seqs[i] /\ seqs[i] \in T /\ seqs[i] = Bytes(typed[i])
    BY <1>1, <1>2, <1>4, <1>6, <1>7, <2>1
  <2> HIDE DEF seqs, f
  <2>3. <<>> \o seqs[i] = seqs[i] /\ <<>> \in T
    BY <2>2, EmptySeq
  <2> QED
    BY <2>1, <2>2, <2>3
<1>9. CASE k # 0
  <2>1. i \in 2..m /\ i - 1 = k /\ k \in 1..m
    BY <1>1, <1>9
  <2>2. Before(typed, k) = f[k] /\ f[k] \in T
    BY <1>5, <1>9, <2>1 DEF Before
  <2>3. f[i] = f[k] \o seqs[i] /\ seqs[i] \in T /\ seqs[i] = Bytes(typed[i])
    BY <1>1, <1>2, <1>4, <1>6, <2>1
  <2> QED
    BY <1>7, <2>2, <2>3
<1> QED
  BY <1>8, <1>9

\* All of them are the bytes of the name.
LEMMA BeforeAll ==
    ASSUME NEW typed \in Seq(Chars)
    PROVE  Before(typed, Len(typed)) = Encoded(typed)
<1>1. Len(typed) \in Nat /\ Len(Pieces(typed)) = Len(typed) /\ Encoded(typed) = FlattenSeq(Pieces(typed))
  BY PiecesFacts
<1>2. CASE Len(typed) = 0
  BY <1>2, EncodedNothing DEF Before
<1>3. CASE Len(typed) # 0
  BY <1>1, <1>3, FlattenIsFlat DEF Before
<1> QED
  BY <1>2, <1>3

\* A sequence from its k-th element on is that element and what follows.
LEMMA TailIs ==
    ASSUME NEW S, NEW s \in Seq(S), NEW n, n = Len(s), NEW k \in 1..n
    PROVE  SubSeq(s, k, n) = <<s[k]>> \o SubSeq(s, k + 1, n)
<1> DEFINE a == SubSeq(s, k, n)
           b == SubSeq(s, k + 1, n)
           c == <<s[k]>>
           d == c \o b
<1>1. n \in Nat /\ s[k] \in S
  BY LenProperties, ElementOfSeq
<1>2. a \in Seq(S) /\ Len(a) = (n - k) + 1 /\ \A i \in 1..((n - k) + 1) : a[i] = s[(k + i) - 1]
  BY <1>1
<1>3. b \in Seq(S) /\ Len(b) = n - k /\ \A i \in 1..(n - k) : b[i] = s[k + i]
  BY <1>1
<1>4. c \in Seq(S) /\ Len(c) = 1 /\ c[1] = s[k]
  BY <1>1
<1> HIDE DEF a, b, c
<1>5. d \in Seq(S) /\ Len(d) = (n - k) + 1
  <2>1. d \in Seq(S) /\ Len(d) = Len(c) + Len(b)
    BY <1>3, <1>4, ConcatProperties
  <2> QED
    BY <1>1, <1>3, <1>4, <2>1
<1>6. d[1] = s[k]
  <2> DEFINE l == 1
  <2>1. l \in 1..Len(c) /\ c \in Seq(S) /\ b \in Seq(S)
    BY <1>3, <1>4
  <2> HIDE DEF l
  <2>2. (c \o b)[l] = c[l]
    BY ONLY <2>1, ConcatLeft
  <2> QED
    BY <1>4, <2>2 DEF l
<1>7. ASSUME NEW i \in 1..(n - k)
      PROVE  d[1 + i] = s[k + i]
  <2> DEFINE l == 1
  <2>1. l = Len(c) /\ i \in 1..Len(b) /\ c \in Seq(S) /\ b \in Seq(S)
    BY <1>3, <1>4
  <2> HIDE DEF l
  <2>2. (c \o b)[l + i] = b[i]
    BY ONLY <2>1, ConcatRight
  <2> QED
    BY <1>3, <2>2 DEF l
<1> HIDE DEF d
<1>8. \A i \in 1..((n - k) + 1) : a[i] = d[i]
  <2> SUFFICES ASSUME NEW i \in 1..((n - k) + 1)
               PROVE  a[i] = d[i]
    OBVIOUS
  <2>1. a[i] = s[(k + i) - 1]
    BY <1>2
  <2>2. CASE i = 1
    <3>1. (k + i) - 1 = k
      BY <1>1, <2>2
    <3> QED
      BY <1>6, <2>1, <2>2, <3>1
  <2>3. CASE i # 1
    <3> DEFINE j == i - 1
    <3>1. j \in 1..(n - k) /\ 1 + j = i /\ k + j = (k + i) - 1
      BY <1>1, <2>3
    <3> HIDE DEF j
    <3> QED
      BY <1>7, <2>1, <3>1
  <2> QED
    BY <2>2, <2>3
<1>9. a = d
  BY <1>2, <1>5, <1>8, SeqEqual
<1> QED
  BY <1>9 DEF a, b, c, d

\* The bytes of the first k characters come first, and what follows them is
\* read as the other characters.
ReadFrom(typed, k) ==
    /\ Len(Before(typed, k)) <= Len(Encoded(typed))
    /\ \A i \in 1..Len(Before(typed, k)) : Encoded(typed)[i] = Before(typed, k)[i]
    /\ From(Encoded(typed))[Len(Before(typed, k)) + 1] = SubSeq(typed, k + 1, Len(typed))

\* One character less.
LEMMA ReadFromBack ==
    ASSUME NEW typed \in Seq(Chars), NEW k \in Nat, NEW i, i = k + 1, i <= Len(typed),
           ReadFrom(typed, i)
    PROVE  ReadFrom(typed, k)
<1> DEFINE b == Before(typed, k)
           x == Bytes(typed[i])
           e == Encoded(typed)
           f == From(e)
           n == Len(e)
           m == Len(typed)
           p == Len(b)
           d == Before(typed, i)
           c == typed[i]
<1>1. b \in Seq(Symbols) /\ x \in Seq(Symbols) /\ d = b \o x
  BY BeforeNext
<1>2. e \in Seq(Symbols)
  BY EncodedPasses DEF Texts
<1>3. m \in Nat /\ i \in 1..m /\ c \in Chars
  <2>1. m \in Nat
    BY LenProperties
  <2>2. i \in 1..m
    BY <2>1
  <2> QED
    BY <2>1, <2>2, ElementOfSeq
<1>4. /\ Len(d) <= n /\ (\A j \in 1..Len(d) : e[j] = d[j])
      /\ f[Len(d) + 1] = SubSeq(typed, i + 1, m)
  BY DEF ReadFrom
<1>5. \A j \in 1..(n + 1) : f[j] = FromAt(f, e, j)
  <2>1. n \in Nat
    BY <1>2, LenProperties
  <2> QED
    BY <2>1, FromEquation
<1> HIDE DEF b, x, e, f, d, c, m
<1>6. n \in Nat /\ p \in Nat /\ Len(x) \in Nat /\ Len(d) = p + Len(x)
  <2>1. Len(d) = Len(b) + Len(x)
    BY <1>1, ConcatProperties
  <2> QED
    BY <1>1, <1>2, <2>1, LenProperties
<1>7. Len(x) >= 1
  <2>1. x = Bytes(c)
    BY DEF x, c
  <2> QED
    BY <1>3, <2>1, BytesLength
<1>8. ASSUME NEW j \in 1..p
      PROVE  e[j] = b[j]
  <2>1. j \in 1..Len(d)
    BY <1>6
  <2>2. j \in 1..Len(b)
    OBVIOUS
  <2>3. (b \o x)[j] = b[j]
    BY <1>1, <2>2, ConcatLeft
  <2> QED
    BY <1>1, <1>4, <2>1, <2>3
<1>9. ASSUME NEW q \in 1..Len(x)
      PROVE  e[p + q] = x[q]
  <2>1. p + q \in 1..Len(d)
    BY <1>6
  <2> DEFINE l == p
  <2>2. l = Len(b) /\ q \in 1..Len(x) /\ b \in Seq(Symbols) /\ x \in Seq(Symbols)
    BY <1>1
  <2> HIDE DEF l
  <2>3. (b \o x)[l + q] = x[q]
    BY ONLY <2>2, ConcatRight
  <2> QED
    BY <1>1, <1>4, <2>1, <2>3 DEF l
<1>10. f[p + 1] = <<c>> \o f[Len(d) + 1]
  <2> DEFINE h == p + 1
             j == Len(d) + 1
  <2>1. h \in 1..n /\ h \in 1..(n + 1) /\ j = h + Len(x) /\ j <= n + 1 /\ h - 1 = p /\ n = Len(e)
    BY <1>4, <1>6, <1>7
  <2>2. \A q \in 1..Len(x) : e[(h - 1) + q] = x[q]
    BY <1>9, <2>1
  <2>3. f[h] = FromAt(f, e, h)
    BY <1>5, <2>1
  <2>4. BytesAt(e, h, j, c)
    <3>1. x = Bytes(c)
      BY DEF x, c
    <3> HIDE DEF h, j, n
    <3> QED
      BY <2>1, <2>2, <3>1 DEF BytesAt
  <2> HIDE DEF h, j
  <2>5. f[h] = <<c>> \o f[j]
    BY <1>3, <1>6, <2>1, <2>3, <2>4, OneDecoded
  <2> QED
    BY <2>5 DEF h, j
<1>11. SubSeq(typed, k + 1, m) = <<c>> \o SubSeq(typed, i + 1, m)
  BY <1>3, TailIs DEF m, c
<1>12. p <= n
  BY <1>4, <1>6
<1>13. f[p + 1] = SubSeq(typed, k + 1, m)
  BY <1>4, <1>10, <1>11
<1> QED
  BY <1>8, <1>12, <1>13 DEF ReadFrom, b, e, f, m

\* What JSON.parse reads of the bytes JSON.stringify wrote is what was typed.
LEMMA DecodedEncoded ==
    ASSUME NEW typed \in Seq(Chars)
    PROVE  Decoded(Encoded(typed)) = typed
<1> DEFINE m == Len(typed)
           e == Encoded(typed)
           n == Len(e)
           I == {d \in Nat : d <= m => ReadFrom(typed, m - d)}
<1>1. m \in Nat
  BY LenProperties
<1>2. e \in Seq(Symbols) /\ n \in Nat
  BY EncodedPasses, LenProperties DEF Texts
<1>3. 0 \in I
  <2>1. Before(typed, m) = e /\ m - 0 = m
    BY <1>1, BeforeAll
  <2>2. From(e)[n + 1] = <<>>
    <3>1. From(e)[n + 1] = FromAt(From(e), e, n + 1)
      <4>1. n + 1 \in 1..(n + 1)
        BY <1>2
      <4> HIDE DEF e
      <4> QED
        BY <1>2, <4>1, FromEquation
    <3> DEFINE v == FromAt(From(e), e, n + 1)
               f == From(e)
               i == n + 1
    <3>2. i \in Nat /\ i > n
      BY <1>2
    <3> HIDE DEF f, i, e
    <3>3. Rows(f, e, i, FromAt(f, e, i))
      BY <1>2, <3>2, FromRows
    <3> QED
      BY <3>1, <3>2, <3>3 DEF Rows, f, i
  <2>3. SubSeq(typed, m + 1, m) = <<>>
    <3>1. m + 1 \in Int /\ m \in Int /\ m < m + 1
      BY <1>1
    <3> QED
      BY <3>1, SubSeqEmpty
  <2>4. ReadFrom(typed, m)
    <3> HIDE DEF e
    <3>1. n <= n
      BY <1>2
    <3> QED
      BY <2>1, <2>2, <2>3, <3>1 DEF ReadFrom, e
  <2> QED
    BY <2>1, <2>4
<1>4. ASSUME NEW d \in I
      PROVE  d + 1 \in I
  <2> DEFINE k == m - (d + 1)
             i == m - d
  <2>1. d \in Nat /\ d + 1 \in Nat
    OBVIOUS
  <2>2. ASSUME d + 1 <= m
        PROVE  ReadFrom(typed, k)
    <3>1. k \in Nat /\ i = k + 1 /\ i <= m /\ d <= m
      BY <1>1, <2>1, <2>2
    <3>2. ReadFrom(typed, i)
      BY <1>4, <3>1
    <3> HIDE DEF k, i
    <3> QED
      BY <3>1, <3>2, ReadFromBack
  <2> QED
    BY <2>1, <2>2
<1>5. I = Nat
  <2>1. I \subseteq Nat
    OBVIOUS
  <2> HIDE DEF I
  <2> QED
    BY <2>1, <1>3, <1>4, Induction
<1>6. ReadFrom(typed, 0)
  <2>1. m \in I /\ m <= m /\ m - m = 0
    BY <1>1, <1>5
  <2> QED
    BY <2>1
<1>7. Before(typed, 0) = <<>>
  BY DEF Before
<1>8. From(e)[1] = SubSeq(typed, 1, m)
  <2>1. Len(<<>>) + 1 = 1 /\ 0 + 1 = 1
    OBVIOUS
  <2> QED
    BY <1>6, <1>7, <2>1 DEF ReadFrom
<1>9. SubSeq(typed, 1, m) = typed
  BY SubSeqFull
<1> HIDE DEF e
<1>10. Decoded(e) = From(e)[1]
  BY <1>2, FromEquation
<1> QED
  BY <1>8, <1>9, <1>10 DEF e

\* And it does not end in half an escape.
LEMMA EncodedIsWhole ==
    ASSUME NEW typed \in Seq(Chars)
    PROVE  ~IsBroken(Encoded(typed))
<1>1. CASE Len(typed) = 0
  BY <1>1, EncodedNothing DEF IsBroken
<1>2. CASE Len(typed) # 0
  <2>1. Last(Decoded(Encoded(typed))) = typed[Len(typed)]
    BY DecodedEncoded DEF Last
  <2>2. Len(typed) \in 1..Len(typed)
    BY <1>2, LenProperties
  <2>3. typed[Len(typed)] \in Chars
    BY <2>2, ElementOfSeq
  <2>4. Half \notin Chars
    BY CharsAssumption
  <2> QED
    BY <2>1, <2>3, <2>4 DEF IsBroken
<1> QED
  BY <1>1, <1>2

-----------------------------------------------------------------------------
(* tcp_server_recv, POST /configure.                                         *)

\* A candidate as the machine keeps it.
Arrived(c, votes) ==
    [name |-> Cut(Encoded(c.name), NameSize), number |-> Cut(Encoded(c.number), NumberSize),
     votes |-> votes]

\* A list arrives when its body is whole and the tokens suffice, and then each
\* candidate is its own.
LEMMA ConfiguredIs ==
    ASSUME NEW list \in Seq(Candidate), NEW n \in 0..Len(Body(list))
    PROVE  Configured(SubSeq(Body(list), 1, n))
              = IF n = Len(Body(list)) /\ TokensOf(list) <= NumTokens
                   THEN [i \in 1..Len(list) |-> Arrived(list[i], 0)] ELSE <<>>
<1> DEFINE v == Body(list)
           text == SubSeq(v, 1, n)
           p == Parse(text)
<1>1. TokensOf(list) \in Nat
  BY LenProperties DEF TokensOf
<1>2. v \in Seq(Symbols)
  <2> DEFINE u == Upto(list, Len(list))
             c == <<RightBracket>>
  <2>1. u \in Seq(Symbols) /\ c \in Seq(Symbols) /\ v = u \o c
    BY UptoOpen, BodyIs, SymbolsFacts
  <2> HIDE DEF u, c, v
  <2> QED
    BY <2>1, ConcatProperties
<1>3. ASSUME n = Len(v)
      PROVE  text = v
  <2> HIDE DEF v
  <2> QED
    BY <1>2, <1>3, SubSeqFull
<1>4. ASSUME ~(Result(p) > 0)
      PROVE  Configured(text) = <<>>
  BY <1>4, Zenon DEF Configured
<1>5. CASE n # Len(v)
  <2>1. ~(Result(p) > 0)
    BY <1>5, CutBody
  <2> QED
    BY <1>4, <1>5, <2>1
<1>6. CASE n = Len(v) /\ ~(TokensOf(list) <= NumTokens)
  <2>1. TokensOf(list) > NumTokens
    BY <1>1, <1>6, NumTokensAssumption
  <2>2. ~(Result(Parse(v)) > 0)
    BY <2>1, WholeBody
  <2> QED
    BY <1>3, <1>4, <1>6, <2>2
<1>7. CASE n = Len(v) /\ TokensOf(list) <= NumTokens
  <2> DEFINE f == [i \in 1..Len(list) |->
                     [name |-> Field(text, p.tokens, i, "name", NameSize),
                      number |-> Field(text, p.tokens, i, "number", NumberSize),
                      votes |-> 0]]
  <2>1. text = v
    BY <1>3, <1>7
  <2>2. BodyRead(text, list)
    BY <1>7, <2>1, WholeBody
  <2>3. Result(p) > 0 /\ p.tokens[1].type = "array" /\ p.tokens[1].size = Len(list)
    BY <2>2, Zenon DEF BodyRead
  <2>4. Configured(text) = f
    BY <2>3, Zenon DEF Configured
  <2>5. ASSUME NEW i \in 1..Len(list)
        PROVE  /\ Field(text, p.tokens, i, "name", NameSize) = Cut(Encoded(list[i].name), NameSize)
               /\ Field(text, p.tokens, i, "number", NumberSize)
                     = Cut(Encoded(list[i].number), NumberSize)
    <3>1. /\ Field(v, Parse(v).tokens, i, "name", NameSize) = Cut(Encoded(list[i].name), NameSize)
          /\ Field(v, Parse(v).tokens, i, "number", NumberSize)
                = Cut(Encoded(list[i].number), NumberSize)
      BY <1>7, FieldsFound
    <3> QED
      BY <2>1, <3>1
  <2>6. f = [i \in 1..Len(list) |-> Arrived(list[i], 0)]
    BY <2>5, Zenon DEF Arrived
  <2> QED
    BY <1>7, <2>4, <2>6, Zenon
<1> QED
  BY <1>5, <1>6, <1>7

-----------------------------------------------------------------------------
(* The invariant.                                                            *)

\* The whole list that was sent is in the machine, each candidate with its
\* own name and number.
Delivered ==
    /\ candidates = [i \in 1..Len(sent) |-> Arrived(sent[i], candidates[i].votes)]
    /\ \A i \in 1..Len(sent) : candidates[i].votes \in 0..MaxVotes

\* Delivered, or nothing; and the answer is that of the candidates there are.
IInv ==
    /\ sent \in Seq(Candidate)
    /\ overrun \in BOOLEAN /\ whole \in BOOLEAN
    /\ IF whole /\ TokensOf(sent) <= NumTokens THEN Delivered ELSE candidates = <<>>
    /\ answer \in {Nothing, Read}

\* It holds at first ...
LEMMA InitIInv == Init => IInv
<1> SUFFICES ASSUME Init
             PROVE  IInv
  OBVIOUS
<1>1. <<>> \in Seq(Candidate)
  BY EmptySeq
<1> QED
  BY <1>1 DEF Init, IInv

\* ... after a POST /configure ...
LEMMA ConfigureKeeps ==
    ASSUME IInv, NEW list \in Lists, NEW n \in 0..Len(Body(list)), Configure(list, n)
    PROVE  IInv'
<1>1. list \in Seq(Candidate)
  BY ListsAssumption
<1>2. /\ candidates' = Configured(SubSeq(Body(list), 1, n)) /\ answer' = Nothing
      /\ sent' = list /\ whole' = (n = Len(Body(list))) /\ overrun' = overrun
  BY DEF Configure
<1>3. candidates' = IF n = Len(Body(list)) /\ TokensOf(list) <= NumTokens
                       THEN [i \in 1..Len(list) |-> Arrived(list[i], 0)] ELSE <<>>
  BY <1>1, <1>2, ConfiguredIs
<1>4. TokensOf(sent)' = TokensOf(list)
  BY <1>2 DEF TokensOf
<1>5. ASSUME n = Len(Body(list)) /\ TokensOf(list) <= NumTokens
      PROVE  Delivered'
  <2>1. candidates' = [i \in 1..Len(list) |-> Arrived(list[i], 0)]
    BY <1>3, <1>5
  <2>2. \A i \in 1..Len(list) : candidates'[i].votes = 0
    BY <2>1 DEF Arrived
  <2>3. candidates' = [i \in 1..Len(list) |-> Arrived(list[i], candidates'[i].votes)]
    BY <2>1, <2>2, Zenon
  <2>4. 0 \in 0..MaxVotes
    BY SizesAssumption
  <2> QED
    BY <1>2, <2>2, <2>3, <2>4 DEF Delivered
<1>6. (IF whole /\ TokensOf(sent) <= NumTokens THEN Delivered ELSE candidates = <<>>)'
  BY <1>2, <1>3, <1>4, <1>5
<1>7. /\ (sent \in Seq(Candidate))' /\ (overrun \in BOOLEAN /\ whole \in BOOLEAN)'
      /\ (answer \in {Nothing, Read})'
  BY <1>1, <1>2 DEF IInv, Nothing
<1> QED
  BY <1>6, <1>7 DEF IInv

\* ... after a vote ...
LEMMA VoteKeeps ==
    ASSUME IInv, NEW i \in DOMAIN candidates, Vote(i)
    PROVE  IInv'
<1>1. /\ candidates[i].votes < MaxVotes
      /\ candidates' = [candidates EXCEPT ![i].votes = @ + 1]
      /\ answer' = Nothing /\ overrun' = overrun /\ sent' = sent /\ whole' = whole
  BY DEF Vote
<1>2. whole /\ TokensOf(sent) <= NumTokens /\ Delivered
  <2>1. candidates # <<>>
    OBVIOUS
  <2> QED
    BY <2>1 DEF IInv
<1> DEFINE n == Len(sent)
           c == candidates
           d == candidates'
<1>3. /\ c = [j \in 1..n |-> Arrived(sent[j], c[j].votes)]
      /\ \A j \in 1..n : c[j].votes \in 0..MaxVotes
  BY <1>2, Zenon DEF Delivered
<1>4. i \in 1..n
  BY <1>3
<1>5. c[i].votes + 1 \in 0..MaxVotes
  BY <1>1, <1>3, <1>4, SizesAssumption
<1>6. [Arrived(sent[i], c[i].votes) EXCEPT !.votes = c[i].votes + 1]
         = Arrived(sent[i], c[i].votes + 1)
  BY DEF Arrived
<1>7. \A j \in 1..n : d[j] = Arrived(sent[j], IF j = i THEN c[j].votes + 1 ELSE c[j].votes)
  <2> SUFFICES ASSUME NEW j \in 1..n
               PROVE  d[j] = Arrived(sent[j], IF j = i THEN c[j].votes + 1 ELSE c[j].votes)
    OBVIOUS
  <2>1. d = [c EXCEPT ![i] = [c[i] EXCEPT !.votes = c[i].votes + 1]]
    BY <1>1
  <2>2. j \in DOMAIN c /\ c[j] = Arrived(sent[j], c[j].votes)
    BY <1>3, Zenon
  <2>3. CASE j = i
    <3>1. d[j] = [c[i] EXCEPT !.votes = c[i].votes + 1]
      BY <2>1, <2>2, <2>3
    <3> QED
      BY <1>6, <2>2, <2>3, <3>1
  <2>4. CASE j # i
    <3>1. d[j] = c[j]
      BY <2>1, <2>2, <2>4
    <3> QED
      BY <2>2, <2>4, <3>1
  <2> QED
    BY <2>3, <2>4
<1>8. \A j \in 1..n : d[j].votes = IF j = i THEN c[j].votes + 1 ELSE c[j].votes
  <2>1. \A typed : \A votes : Arrived(typed, votes).votes = votes
    BY DEF Arrived
  <2> HIDE DEF c, d
  <2>2. ASSUME NEW j \in 1..n
        PROVE  d[j].votes = IF j = i THEN c[j].votes + 1 ELSE c[j].votes
    <3> DEFINE w == IF j = i THEN c[j].votes + 1 ELSE c[j].votes
    <3>1. d[j] = Arrived(sent[j], w)
      BY <1>7
    <3> HIDE DEF w
    <3>2. d[j].votes = w
      BY <2>1, <3>1
    <3> QED
      BY <3>2 DEF w
  <2> QED
    BY <2>2
<1>9. \A j \in 1..n : d[j] = Arrived(sent[j], d[j].votes)
  BY <1>7, <1>8
<1>10. DOMAIN d = 1..n /\ d = [j \in DOMAIN d |-> d[j]]
  BY <1>1, <1>3
<1>11. d = [j \in 1..n |-> Arrived(sent[j], d[j].votes)]
  BY <1>9, <1>10
<1>12. \A j \in 1..n : d[j].votes \in 0..MaxVotes
  BY <1>3, <1>5, <1>8
<1>13. Delivered'
  BY <1>1, <1>11, <1>12 DEF Delivered
<1>14. TokensOf(sent)' = TokensOf(sent)
  BY <1>1 DEF TokensOf
<1> QED
  BY <1>1, <1>2, <1>13, <1>14 DEF IInv, Nothing

\* What getStatus returns depends on the candidates alone.
ReadOf(list) ==
    LET shown == [i \in DOMAIN list |-> Printed(list[i])] IN
    IF \E c \in Range(shown) : IsBroken(c.name) \/ IsBroken(c.number)
       THEN Null
       ELSE Data([i \in DOMAIN shown |-> [shown[i] EXCEPT !.name = Decoded(@),
                                                         !.number = Decoded(@)]])

\* The same candidates read the same.
LEMMA ReadUnchanged ==
    ASSUME candidates' = candidates
    PROVE  Read' = Read
<1>1. Read = ReadOf(candidates)
  BY Zenon DEF Read, ReadOf
<1>2. Read' = ReadOf(candidates')
  BY Zenon DEF Read, ReadOf
<1> QED
  BY <1>1, <1>2

\* ... and after a GET /status, which leaves the candidates alone.
LEMMA InvariantUnchanged ==
    ASSUME IInv, UNCHANGED <<candidates, sent, whole>>, overrun' \in BOOLEAN,
           answer' \in {Nothing, answer, Read}
    PROVE  IInv'
<1>1. Read' = Read
  BY ReadUnchanged
<1>2. TokensOf(sent)' = TokensOf(sent) /\ Delivered' = Delivered
  BY DEF TokensOf, Delivered
<1> QED
  BY <1>1, <1>2 DEF IInv

\* Every step keeps it.
LEMMA NextIInv == IInv /\ [Next]_vars => IInv'
<1> SUFFICES ASSUME IInv, [Next]_vars
             PROVE  IInv'
  OBVIOUS
<1>1. ASSUME NEW list \in Lists, NEW n \in 0..Len(Body(list)), Configure(list, n)
      PROVE  IInv'
  BY <1>1, ConfigureKeeps
<1>2. ASSUME NEW i \in DOMAIN candidates, Vote(i)
      PROVE  IInv'
  BY <1>2, VoteKeeps
<1>3. CASE Status
  <2>1. UNCHANGED <<candidates, sent, whole>> /\ overrun' = overrun /\ answer' = Read
    BY <1>3, Zenon DEF Status
  <2>2. overrun' \in BOOLEAN
    BY <2>1 DEF IInv
  <2> QED
    BY <2>1, <2>2, InvariantUnchanged
<1>4. CASE StatusOverrun
  BY <1>4, InvariantUnchanged DEF StatusOverrun, IInv
<1>5. CASE UNCHANGED vars
  BY <1>5, InvariantUnchanged DEF vars, IInv
<1> QED
  BY <1>1, <1>2, <1>3, <1>4, <1>5, Zenon DEF Next

\* IInv holds in every reachable state.
THEOREM InductiveInvariant == Spec => []IInv
BY InitIInv, NextIInv, PTL DEF Spec

-----------------------------------------------------------------------------
(* What the invariant says.                                                  *)

\* A list in the machine is the one that was sent.
LEMMA DeliveredFacts ==
    ASSUME IInv, candidates # <<>>
    PROVE  /\ sent \in Seq(Candidate) /\ Len(sent) \in Nat
           /\ DOMAIN candidates = 1..Len(sent) /\ Len(candidates) = Len(sent)
           /\ \A i \in 1..Len(sent) :
                 /\ candidates[i] = Arrived(sent[i], candidates[i].votes)
                 /\ candidates[i].votes \in 0..MaxVotes
                 /\ sent[i].name \in Seq(Chars) /\ sent[i].number \in Seq(Chars)
<1>1. sent \in Seq(Candidate) /\ Delivered
  BY DEF IInv
<1>2. Len(sent) \in Nat /\ \A i \in 1..Len(sent) : sent[i] \in Candidate
  BY <1>1, LenProperties, ElementOfSeq
<1> DEFINE f == [i \in 1..Len(sent) |-> Arrived(sent[i], candidates[i].votes)]
<1>3. candidates = f /\ \A i \in 1..Len(sent) : candidates[i].votes \in 0..MaxVotes
  BY <1>1, Zenon DEF Delivered
<1>4. DOMAIN candidates = 1..Len(sent) /\ Len(candidates) = Len(sent)
  <2>1. DOMAIN f = 1..Len(sent) /\ Len(f) = Len(sent)
    BY <1>2
  <2> HIDE DEF f
  <2> QED
    BY <1>3, <2>1
<1>5. \A i \in 1..Len(sent) : f[i] = Arrived(sent[i], candidates[i].votes)
  BY Zenon
<1>6. \A i \in 1..Len(sent) : candidates[i] = Arrived(sent[i], candidates[i].votes)
  <2> HIDE DEF f
  <2> QED
    BY <1>3, <1>5
<1>7. \A i \in 1..Len(sent) : sent[i].name \in Seq(Chars) /\ sent[i].number \in Seq(Chars)
  BY <1>2 DEF Candidate
<1> QED
  BY <1>1, <1>2, <1>3, <1>4, <1>6, <1>7

\* The fields of a candidate as the machine keeps it.
LEMMA ArrivedFacts ==
    ASSUME NEW name \in Seq(Chars), NEW number \in Seq(Chars), NEW votes, NEW c, NEW a,
           c.name = name, c.number = number, a = Arrived(c, votes)
    PROVE  /\ Len(a.name) < NameSize /\ Len(a.number) < NumberSize
           /\ Keeps(a.name, Encoded(c.name), NameSize)
           /\ Keeps(a.number, Encoded(c.number), NumberSize)
           /\ Len(Encoded(c.name)) < NameSize => a.name = Encoded(c.name)
           /\ Len(Encoded(c.number)) < NumberSize => a.number = Encoded(c.number)
<1> DEFINE x == Encoded(name)
           y == Encoded(number)
<1>1. x \in Seq(Symbols) /\ y \in Seq(Symbols)
  BY EncodedPasses DEF Texts
<1>2. a.name = Cut(x, NameSize) /\ a.number = Cut(y, NumberSize)
  BY DEF Arrived
<1>3. NameSize \in Nat \ {0} /\ NumberSize \in Nat \ {0}
  BY SizesAssumption
<1> HIDE DEF x, y
<1>4. Len(a.name) < NameSize /\ Keeps(a.name, x, NameSize) /\ (Len(x) < NameSize => a.name = x)
  BY <1>1, <1>2, <1>3, CutKeeps
<1>5. Len(a.number) < NumberSize /\ Keeps(a.number, y, NumberSize)
      /\ (Len(y) < NumberSize => a.number = y)
  BY <1>1, <1>2, <1>3, CutKeeps
<1> QED
  BY <1>4, <1>5 DEF x, y

\* The invariant says that a list is all there or not at all,
LEMMA IInvListIsAllOrNothing == IInv => ListIsAllOrNothing
<1> SUFFICES ASSUME IInv
             PROVE  ListIsAllOrNothing
  OBVIOUS
<1>1. CASE ~(whole /\ TokensOf(sent) <= NumTokens)
  BY <1>1 DEF IInv, ListIsAllOrNothing
<1>2. CASE whole /\ TokensOf(sent) <= NumTokens /\ candidates # <<>>
  <2>1. /\ Len(candidates) = Len(sent) /\ DOMAIN sent = 1..Len(sent)
        /\ \A i \in 1..Len(sent) :
              /\ candidates[i] = Arrived(sent[i], candidates[i].votes)
              /\ sent[i].name \in Seq(Chars) /\ sent[i].number \in Seq(Chars)
    BY <1>2, DeliveredFacts, LenProperties
  <2>2. ASSUME NEW i \in DOMAIN sent
        PROVE  /\ Keeps(candidates[i].name, Encoded(sent[i].name), NameSize)
               /\ Keeps(candidates[i].number, Encoded(sent[i].number), NumberSize)
    BY <2>1, ArrivedFacts
  <2> QED
    BY <1>2, <2>1, <2>2 DEF ListIsAllOrNothing
<1>3. CASE whole /\ TokensOf(sent) <= NumTokens /\ candidates = <<>>
  <2>1. Delivered /\ sent \in Seq(Candidate)
    BY <1>3 DEF IInv
  <2>2. Len(sent) \in Nat /\ DOMAIN sent = 1..Len(sent)
    BY <2>1, LenProperties
  <2> DEFINE f == [i \in 1..Len(sent) |-> Arrived(sent[i], candidates[i].votes)]
  <2>3. candidates = f
    BY <2>1, Zenon DEF Delivered
  <2>4. Len(f) = Len(sent)
    BY <2>2
  <2> HIDE DEF f
  <2>5. Len(candidates) = Len(sent) /\ Len(sent) = 0
    BY <1>3, <2>3, <2>4
  <2>6. DOMAIN sent = {}
    BY <2>2, <2>5
  <2> QED
    BY <1>3, <2>5, <2>6 DEF ListIsAllOrNothing
<1> QED
  BY <1>1, <1>2, <1>3

\* What getStatus returned has as many candidates as the machine.
LEMMA ReadKind ==
    ASSUME NEW n \in Nat, DOMAIN candidates = 1..n
    PROVE  Read.kind \in {"null", "data"} /\ (Read.kind = "data" => Len(Read.list) = n)
<1> DEFINE shown == [i \in DOMAIN candidates |-> Printed(candidates[i])]
           list == [i \in DOMAIN shown |-> [shown[i] EXCEPT !.name = Decoded(@),
                                                          !.number = Decoded(@)]]
<1>1. Read = Null \/ Read = Data(list)
  BY Zenon DEF Read
<1>2. Null.kind = "null" /\ Data(list).kind = "data" /\ Data(list).list = list
  BY DEF Null, Data
<1>3. Len(list) = n
  <2>1. DOMAIN shown = 1..n
    OBVIOUS
  <2> HIDE DEF shown
  <2> QED
    BY <2>1
<1> HIDE DEF list
<1>4. CASE Read = Null
  BY <1>2, <1>4
<1>5. CASE Read = Data(list)
  BY <1>2, <1>3, <1>5
<1> QED
  BY <1>1, <1>4, <1>5

\* that fields and answers are in their range,
LEMMA IInvTypeOK == IInv => TypeOK
<1> SUFFICES ASSUME IInv
             PROVE  TypeOK
  OBVIOUS
<1>1. overrun \in BOOLEAN /\ whole \in BOOLEAN /\ answer \in {Nothing, Read}
  BY DEF IInv
<1>2. PICK n \in Nat : DOMAIN candidates = 1..n /\ Len(candidates) = n
  <2>1. CASE candidates = <<>>
    <3>1. DOMAIN <<>> = 1..0 /\ Len(<<>>) = 0 /\ 0 \in Nat
      OBVIOUS
    <3> QED
      BY <2>1, <3>1
  <2>2. CASE candidates # <<>>
    BY <2>2, DeliveredFacts
  <2> QED
    BY <2>1, <2>2
<1>3. /\ answer.kind \in {"nothing", "null", "data"}
      /\ answer.kind = "data" => Len(answer.list) = Len(candidates)
  <2>1. CASE answer = Nothing
    <3>1. Nothing.kind = "nothing"
      BY DEF Nothing
    <3> QED
      BY <2>1, <3>1
  <2>2. CASE answer = Read
    BY <1>2, <2>2, ReadKind
  <2> QED
    BY <1>1, <2>1, <2>2
<1>4. ASSUME NEW i \in DOMAIN candidates
      PROVE  /\ Len(candidates[i].name) < NameSize
             /\ Len(candidates[i].number) < NumberSize
             /\ candidates[i].votes \in 0..MaxVotes
  <2>1. candidates # <<>>
    OBVIOUS
  <2>2. /\ candidates[i] = Arrived(sent[i], candidates[i].votes)
        /\ candidates[i].votes \in 0..MaxVotes
        /\ sent[i].name \in Seq(Chars) /\ sent[i].number \in Seq(Chars)
    <3>1. i \in 1..Len(sent)
      BY <2>1, DeliveredFacts
    <3> QED
      BY <2>1, <3>1, DeliveredFacts
  <2> QED
    BY <2>2, ArrivedFacts
<1> QED
  BY <1>1, <1>3, <1>4 DEF TypeOK

\* A candidate that fits is read as it was typed, with its votes.
LEMMA FittingReads ==
    ASSUME NEW c \in Candidate, Fit(c), NEW votes, NEW a, a = Arrived(c, votes)
    PROVE  /\ ~IsBroken(a.name) /\ ~IsBroken(a.number)
           /\ [Printed(a) EXCEPT !.name = Decoded(@), !.number = Decoded(@)]
                 = [name |-> c.name, number |-> c.number, votes |-> votes]
<1>1. c.name \in Seq(Chars) /\ c.number \in Seq(Chars)
  BY DEF Candidate
<1>2. Len(Encoded(c.name)) < NameSize /\ Len(Encoded(c.number)) < NumberSize
  BY Zenon DEF Fit
<1>3. a.name = Encoded(c.name) /\ a.number = Encoded(c.number)
  BY <1>1, <1>2, ArrivedFacts
<1>4. ~IsBroken(a.name) /\ ~IsBroken(a.number)
  BY <1>1, <1>3, EncodedIsWhole
<1>5. Decoded(a.name) = c.name /\ Decoded(a.number) = c.number
  BY <1>1, <1>3, DecodedEncoded
<1>6. a.votes = votes
  BY DEF Arrived
<1>7. [Printed(a) EXCEPT !.name = Decoded(@), !.number = Decoded(@)]
         = [name |-> Decoded(a.name), number |-> Decoded(a.number), votes |-> a.votes]
  <2>1. Printed(a) = [name |-> a.name, number |-> a.number, votes |-> a.votes]
    BY Zenon DEF Printed
  <2> DEFINE x == a.name
             y == a.number
             v == a.votes
             r == Printed(a)
             d == Decoded(x)
             e == Decoded(y)
  <2>2. r = [name |-> x, number |-> y, votes |-> v]
    BY <2>1
  <2>3. [r EXCEPT !.name = Decoded(@), !.number = Decoded(@)]
           = [r EXCEPT !.name = Decoded(r.name), !.number = Decoded(r.number)]
    BY Zenon
  <2>4. r.name = x /\ r.number = y
    <3> HIDE DEF r, x, y, v
    <3> QED
      BY <2>2
  <2>5. [r EXCEPT !.name = d, !.number = e] = [name |-> d, number |-> e, votes |-> v]
    <3> DEFINE z == [r EXCEPT !.name = d, !.number = e]
    <3> HIDE DEF r, x, y, v, d, e
    <3>1. z.name = d /\ z.number = e /\ z.votes = v
      BY <2>2
    <3>2. z \in [name : {d}, number : {e}, votes : {v}]
      <4>1. r \in [name : {x}, number : {y}, votes : {v}]
        BY <2>2
      <4> QED
        BY <4>1
    <3> HIDE DEF z
    <3>3. z = [name |-> z.name, number |-> z.number, votes |-> z.votes]
      BY <3>2
    <3> QED
      BY <3>1, <3>3 DEF z
  <2> QED
    BY <2>3, <2>4, <2>5, Zenon
<1> QED
  BY <1>4, <1>5, <1>6, <1>7

\* and that what fits is read as it was typed.
LEMMA IInvStatusReadsBack == IInv => StatusReadsBack
<1> SUFFICES ASSUME IInv, answer # Nothing, candidates # <<>>, \A c \in Range(sent) : Fit(c)
             PROVE  answer = Data([i \in DOMAIN sent |->
                                      [name |-> sent[i].name, number |-> sent[i].number,
                                       votes |-> candidates[i].votes]])
  BY DEF StatusReadsBack
<1> DEFINE n == Len(sent)
           shown == [i \in DOMAIN candidates |-> Printed(candidates[i])]
           list == [i \in DOMAIN shown |-> [shown[i] EXCEPT !.name = Decoded(@),
                                                          !.number = Decoded(@)]]
           typed == [i \in DOMAIN sent |->
                       [name |-> sent[i].name, number |-> sent[i].number,
                        votes |-> candidates[i].votes]]
<1>1. answer = Read
  BY DEF IInv
<1>2. /\ DOMAIN candidates = 1..n /\ DOMAIN sent = 1..n
      /\ \A i \in 1..n : candidates[i] = Arrived(sent[i], candidates[i].votes)
      /\ \A i \in 1..n : sent[i] \in Candidate /\ Fit(sent[i])
  <2>1. sent \in Seq(Candidate) /\ DOMAIN sent = 1..n
    BY DeliveredFacts, LenProperties
  <2>2. \A i \in 1..n : sent[i] \in Candidate /\ sent[i] \in Range(sent)
    BY <2>1, ElementOfSeq DEF Range
  <2> QED
    BY <2>1, <2>2, DeliveredFacts
<1>3. ASSUME NEW i \in 1..n
      PROVE  /\ ~IsBroken(candidates[i].name) /\ ~IsBroken(candidates[i].number)
             /\ [Printed(candidates[i]) EXCEPT !.name = Decoded(@), !.number = Decoded(@)]
                  = [name |-> sent[i].name, number |-> sent[i].number,
                     votes |-> candidates[i].votes]
  BY <1>2, FittingReads
<1>4. shown = [i \in 1..n |-> Printed(candidates[i])]
  BY <1>2
<1>5. ~ \E c \in Range(shown) : IsBroken(c.name) \/ IsBroken(c.number)
  <2> SUFFICES ASSUME NEW c \in Range(shown)
               PROVE  ~IsBroken(c.name) /\ ~IsBroken(c.number)
    OBVIOUS
  <2>1. PICK i \in 1..n : c = Printed(candidates[i])
    BY <1>4 DEF Range
  <2>2. c.name = candidates[i].name /\ c.number = candidates[i].number
    BY <2>1 DEF Printed
  <2> QED
    BY <1>3, <2>2
<1>6. Read = Data(list)
  BY <1>5, Zenon DEF Read
<1>7. list = typed
  <2>1. list = [i \in 1..n |-> [Printed(candidates[i]) EXCEPT !.name = Decoded(@),
                                                            !.number = Decoded(@)]]
    BY <1>4
  <2> HIDE DEF list, shown
  <2>2. typed = [i \in 1..n |-> [name |-> sent[i].name, number |-> sent[i].number,
                                 votes |-> candidates[i].votes]]
    BY <1>2
  <2> HIDE DEF typed
  <2> QED
    BY <1>3, <2>1, <2>2, Zenon
<1> QED
  BY <1>1, <1>6, <1>7

-----------------------------------------------------------------------------
(* The theorems.                                                             *)

\* For all lists, however they are cut, no field outgrows its array and the
\* answer lists as many candidates as the machine (tcp_server_recv, getStatus).
THEOREM TypeCorrect == Spec => []TypeOK
BY InductiveInvariant, IInvTypeOK, PTL

\* For all lists, names and cuts, a list comes through entire, each candidate
\* with its own name and number, or not at all (sendConfiguration,
\* tcp_server_recv and jsmn_parse).
THEOREM ListArrivesWhole == Spec => []ListIsAllOrNothing
BY InductiveInvariant, IInvListIsAllOrNothing, PTL

\* What the mesario typed, if it fits, is what the panel shows, whatever its
\* characters (sendConfiguration, create_status_json and getStatus).
THEOREM TypedIsShown == Spec => []StatusReadsBack
BY InductiveInvariant, IInvStatusReadsBack, PTL

=============================================================================
