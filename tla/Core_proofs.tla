---------------------------- MODULE Core_proofs ----------------------------
(***************************************************************************)
(* The parts of the core.  Autocompletion: what a reader is shown and what  *)
(* it has typed is what was generated, and the reuse manager decides by its *)
(* current generator.  Compiled chats: no result without its call.  MCP:    *)
(* the promise of a connection.                                             *)
(***************************************************************************)
EXTENDS StreamReuse, CompileMessages, McpConnection, NumberLemmas, SequenceTheorems, TLAPS

----------------------------------------------------------------------------
(* FlattenSeq: what its recursion computes                                  *)

\* f concatenates the first sequences of b.
Sums(b, f) == f = [i \in 1..Len(b) |-> IF i = 1 THEN b[i] ELSE f[i - 1] \o b[i]]
SumOf(b) == CHOOSE f : Sums(b, f)

LEMMA FlattenIsSum ==
    ASSUME NEW b, Len(b) # 0
    PROVE  FlattenSeq(b) = SumOf(b)[Len(b)]
BY DEF FlattenSeq, SumOf, Sums

LEMMA SumValues ==
    ASSUME NEW b, NEW f, Sums(b, f), NEW i \in 1..Len(b)
    PROVE  f[i] = IF i = 1 THEN b[i] ELSE f[i - 1] \o b[i]
BY DEF Sums

LEMMA SumExists ==
    ASSUME NEW S, NEW b \in Seq(S)
    PROVE  Sums(b, SumOf(b))
<1> DEFINE N == {n \in Nat : \A s \in Seq(S) : Len(s) = n => \E f : Sums(s, f)}
<1>1. 0 \in N
  <2> SUFFICES ASSUME NEW s \in Seq(S), Len(s) = 0 PROVE \E f : Sums(s, f)
    OBVIOUS
  <2> DEFINE f == [i \in 1..0 |-> s[i]]
  <2>1. Sums(s, f)
    BY DEF Sums
  <2> QED BY <2>1
<1>2. ASSUME NEW n \in N PROVE n + 1 \in N
  <2> SUFFICES ASSUME NEW s \in Seq(S), Len(s) = n + 1 PROVE \E f : Sums(s, f)
    OBVIOUS
  <2> DEFINE front == SubSeq(s, 1, n)
  <2>1. front \in Seq(S) /\ Len(front) = n /\ \A i \in 1..n : front[i] = s[i]
    <3>1. n \in Int /\ \A i \in 1..n : s[i] \in S
      OBVIOUS
    <3> QED BY <3>1, SubSeqProperties
  <2> HIDE DEF front
  <2>2. PICK f : Sums(front, f)
    BY <2>1
  <2>3. \A i \in 1..n : f[i] = IF i = 1 THEN s[i] ELSE f[i - 1] \o s[i]
    BY <2>1, <2>2, ZenonT(60) DEF Sums
  <2> DEFINE g == [i \in 1..(n + 1) |-> IF i <= n THEN f[i]
                                        ELSE IF n = 0 THEN s[i] ELSE f[n] \o s[i]]
  <2>4. \A i \in 1..(n + 1) : g[i] = IF i = 1 THEN s[i] ELSE g[i - 1] \o s[i]
    <3> SUFFICES ASSUME NEW i \in 1..(n + 1)
                 PROVE  g[i] = IF i = 1 THEN s[i] ELSE g[i - 1] \o s[i]
      OBVIOUS
    <3>1. CASE i <= n
      BY <2>3, <3>1
    <3>2. CASE i = n + 1 /\ n = 0
      BY <3>2
    <3>3. CASE i = n + 1 /\ n # 0
      <4>1. n \in 1..(n + 1) /\ n + 1 \in 1..(n + 1) /\ ~(n + 1 <= n) /\ n + 1 # 1
            /\ (n + 1) - 1 = n
        BY <3>3
      <4>2. g[n + 1] = f[n] \o s[n + 1]
        BY <3>3, <4>1
      <4>3. g[n] = f[n]
        BY <4>1
      <4> HIDE DEF g
      <4> QED BY <3>3, <4>1, <4>2, <4>3
    <3> QED BY <3>1, <3>2, <3>3
  <2>5. Sums(s, g)
    BY <2>4 DEF Sums
  <2> QED BY <2>5
<1>3. N = Nat
  <2> HIDE DEF N
  <2>1. N \in SUBSET Nat
    BY DEF N
  <2> QED BY <1>1, <1>2, <2>1, AllNumbers
<1> QED BY <1>3, LenProperties DEF SumOf

\* The sums of a sequence and of one that goes on agree as far as both go.
SumsGoOn(a, b, f, g) ==
    /\ Sums(a, f) /\ Sums(b, g)
    /\ Len(a) \in Nat /\ Len(b) \in Nat /\ Len(a) <= Len(b)
    /\ \A i \in 1..Len(a) : a[i] = b[i]

LEMMA SumsAgree ==
    ASSUME NEW a, NEW b, NEW f, NEW g, SumsGoOn(a, b, f, g)
    PROVE  \A i \in 1..Len(a) : f[i] = g[i]
<1> USE DEF SumsGoOn
<1> DEFINE N == {i \in 1..Len(a) : f[i] # g[i]}
<1> SUFFICES ASSUME N # {} PROVE FALSE
  OBVIOUS
<1>1. PICK m \in N : \A k \in N : m <= k
  <2>1. N \in SUBSET Nat
    OBVIOUS
  <2> HIDE DEF N
  <2> QED BY <2>1, LeastOf
<1>2. /\ f[m] = IF m = 1 THEN a[m] ELSE f[m - 1] \o a[m]
      /\ g[m] = IF m = 1 THEN b[m] ELSE g[m - 1] \o b[m]
  <2>1. m \in 1..Len(a) /\ m \in 1..Len(b)
    BY <1>1
  <2>2. Sums(a, f) /\ Sums(b, g)
    OBVIOUS
  <2> QED BY ONLY <2>1, <2>2, SumValues
<1>3. m # 1 => m - 1 \in 1..Len(a) /\ m - 1 \notin N
  BY <1>1
<1> QED BY <1>1, <1>2, <1>3

LEMMA FlattenTyping ==
    ASSUME NEW S, NEW b \in Seq(Seq(S))
    PROVE  FlattenSeq(b) \in Seq(S) /\ (Len(b) = 0 => FlattenSeq(b) = <<>>)
<1>1. CASE Len(b) = 0
  <2>1. b = <<>>
    BY <1>1, EmptySeq
  <2>2. FlattenSeq(b) = b
    BY <1>1 DEF FlattenSeq
  <2> QED BY <2>1, <2>2, EmptySeq
<1>2. CASE Len(b) # 0
  <2> DEFINE f == SumOf(b)
             N == {i \in 1..Len(b) : f[i] \notin Seq(S)}
  <2>1. Sums(b, f) /\ Len(b) \in Nat
    BY SumExists, LenProperties
  <2> HIDE DEF f
  <2>2. N = {}
    <3> SUFFICES ASSUME N # {} PROVE FALSE
      OBVIOUS
    <3>1. PICK m \in N : \A k \in N : m <= k
      <4>1. N \in SUBSET Nat
        OBVIOUS
      <4> HIDE DEF N
      <4> QED BY <4>1, LeastOf
    <3>2. f[m] = IF m = 1 THEN b[m] ELSE f[m - 1] \o b[m]
      BY <2>1, SumValues
    <3>3. b[m] \in Seq(S)
      BY ElementOfSeq
    <3>4. m # 1 => m - 1 \in 1..Len(b) /\ m - 1 \notin N
      BY <2>1, <3>1
    <3>5. CASE m = 1
      <4>1. f[m] \in Seq(S)
        BY <3>2, <3>3, <3>5
      <4> QED BY <4>1
    <3>6. CASE m # 1
      <4>1. f[m - 1] \in Seq(S)
        BY <3>4, <3>6
      <4>2. f[m - 1] \o b[m] \in Seq(S)
        BY ONLY <3>3, <4>1, ConcatProperties
      <4>3. f[m] \in Seq(S)
        BY <3>2, <3>6, <4>2
      <4> QED BY <4>3
    <3> QED BY <3>5, <3>6
  <2>3. f[Len(b)] \in Seq(S)
    <3>1. Len(b) \in 1..Len(b)
      BY <1>2, <2>1
    <3> QED BY <2>2, <3>1
  <2> QED BY <1>2, <2>3, FlattenIsSum DEF f
<1> QED BY <1>1, <1>2

LEMMA FlattenAppend ==
    ASSUME NEW S, NEW b \in Seq(Seq(S)), NEW c \in Seq(S)
    PROVE  FlattenSeq(Append(b, c)) = FlattenSeq(b) \o c
<1> DEFINE d == Append(b, c)
           n == Len(b)
<1>1. /\ d \in Seq(Seq(S)) /\ Len(d) = n + 1 /\ n \in Nat
      /\ \A i \in 1..n : d[i] = b[i]
      /\ d[n + 1] = c
  BY AppendProperties, LenProperties
<1> HIDE DEF d
<1>2. Sums(b, SumOf(b)) /\ Sums(d, SumOf(d))
  BY <1>1, SumExists
<1>3. FlattenSeq(d) = SumOf(d)[n + 1]
  BY <1>1, FlattenIsSum
<1>4. SumOf(d)[n + 1] = IF n + 1 = 1 THEN c ELSE SumOf(d)[(n + 1) - 1] \o c
  <2>1. n + 1 \in 1..Len(d)
    BY <1>1
  <2> QED BY <1>1, <1>2, <2>1, SumValues
<1>5. CASE n = 0
  <2>1. FlattenSeq(b) = <<>>
    BY <1>5, FlattenTyping
  <2> QED BY <1>3, <1>4, <1>5, <2>1, ConcatEmptySeq DEF d
<1>6. CASE n # 0
  <2>1. n \in 1..n /\ n + 1 # 1 /\ (n + 1) - 1 = n
    BY <1>1, <1>6
  <2>2. \A i \in 1..Len(b) : SumOf(b)[i] = SumOf(d)[i]
    <3>1. /\ Len(b) \in Nat /\ Len(d) \in Nat /\ Len(b) <= Len(d)
          /\ \A i \in 1..Len(b) : b[i] = d[i]
      BY <1>1, SMTT(30)
    <3> DEFINE u == SumOf(b)
               w == SumOf(d)
    <3>2. Sums(b, u) /\ Sums(d, w)
      BY <1>2
    <3> HIDE DEF u, w, n
    <3>3. SumsGoOn(b, d, u, w)
      BY ONLY <3>1, <3>2 DEF SumsGoOn
    <3>4. \A i \in 1..Len(b) : u[i] = w[i]
      BY ONLY <3>3, SumsAgree
    <3> QED BY ONLY <3>4 DEF u, w
  <2>3. FlattenSeq(b) = SumOf(b)[n]
    BY <1>6, FlattenIsSum
  <2> QED BY <1>3, <1>4, <2>1, <2>2, <2>3 DEF d
<1> QED BY <1>5, <1>6

LEMMA FlattenNext ==
    ASSUME NEW S, NEW b \in Seq(Seq(S)), NEW n \in 1..Len(b)
    PROVE  /\ SubSeq(b, 1, n - 1) \in Seq(Seq(S))
           /\ SubSeq(b, 1, n) \in Seq(Seq(S))
           /\ FlattenSeq(SubSeq(b, 1, n)) = FlattenSeq(SubSeq(b, 1, n - 1)) \o b[n]
<1>1. Len(b) \in Nat /\ \A i \in 1..n : b[i] \in Seq(S)
  BY LenProperties, ElementOfSeq
<1>2. SubSeq(b, 1, n - 1) \in Seq(Seq(S))
  BY <1>1, SubSeqProperties
<1>3. SubSeq(b, 1, n) \in Seq(Seq(S))
  BY <1>1, SubSeqProperties
<1>4. SubSeq(b, 1, n) = SubSeq(b, 1, n - 1) \o <<b[n]>>
  BY <1>1, SubSeqRecursiveSecond
<1>5. SubSeq(b, 1, n) = Append(SubSeq(b, 1, n - 1), b[n])
  <2>1. b[n] \in Seq(S)
    BY <1>1
  <2>2. Append(SubSeq(b, 1, n - 1), b[n]) = SubSeq(b, 1, n - 1) \o <<b[n]>>
    BY <1>2, <2>1, AppendIsConcat, Zenon
  <2> QED BY <1>4, <2>2
<1>6. b[n] \in Seq(S)
  BY <1>1
<1>7. FlattenSeq(Append(SubSeq(b, 1, n - 1), b[n])) = FlattenSeq(SubSeq(b, 1, n - 1)) \o b[n]
  BY <1>2, <1>6, FlattenAppend, Zenon
<1> QED BY <1>2, <1>3, <1>5, <1>7

----------------------------------------------------------------------------
(* Prefixes                                                                 *)

\* Facts that are named, so that the provers see them only where they are cited.
Regroups(S, a, b, c) ==
    /\ (a \o b) \o c = a \o (b \o c)
    /\ a \o b \in Seq(S) /\ b \o c \in Seq(S)
Comparable(S, a, b, c, d) ==
    a \o b = c \o d /\ Len(a) <= Len(c) => \E w \in Seq(S) : c = a \o w /\ b = w \o d
Extends(S, a, b) == IsPrefix(a, b) <=> \E w \in Seq(S) : b = a \o w

LEMMA Regroup ==
    ASSUME NEW S, NEW a \in Seq(S), NEW b \in Seq(S), NEW c \in Seq(S)
    PROVE  Regroups(S, a, b, c)
<1>1. a \in Seq(S) /\ b \in Seq(S) /\ c \in Seq(S)
  OBVIOUS
<1>2. (a \o b) \o c = a \o (b \o c)
  BY ONLY <1>1, ConcatAssociative
<1>3. a \o b \in Seq(S) /\ b \o c \in Seq(S)
  BY ConcatProperties
<1> QED BY <1>2, <1>3 DEF Regroups

LEMMA PrefixGoesOn ==
    ASSUME NEW S, NEW s \in Seq(S), NEW t \in Seq(S)
    PROVE  IsPrefix(s, t) <=> \E u \in Seq(S) : t = s \o u
<1>1. Len(s) \in Nat /\ Len(t) \in Nat
  BY LenProperties
<1>2. ASSUME IsPrefix(s, t) PROVE \E u \in Seq(S) : t = s \o u
  <2> DEFINE u == SubSeq(t, Len(s) + 1, Len(t))
  <2>1. Len(s) <= Len(t) /\ SubSeq(s, 1, Len(s)) = SubSeq(t, 1, Len(s))
    BY <1>2 DEF IsPrefix
  <2>2. u \in Seq(S)
    <3>1. \A i \in (Len(s) + 1)..Len(t) : t[i] \in S
      BY <1>1, ElementOfSeq
    <3>2. Len(s) + 1 \in Int /\ Len(t) \in Int
      BY <1>1
    <3> QED BY <3>1, <3>2, SubSeqProperties
  <2>3. SubSeq(t, 1, Len(s)) \o u = SubSeq(t, 1, Len(t))
    <3>1. 1 \in 1..(Len(t) + 1) /\ Len(s) \in (1 - 1)..Len(t) /\ Len(t) \in Len(s)..Len(t)
      BY <1>1, <2>1
    <3> QED BY <3>1, ConcatAdjacentSubSeq
  <2>4. s \o u = t
    BY <2>1, <2>3, SubSeqFull
  <2> QED BY <2>2, <2>4
<1>3. ASSUME NEW u \in Seq(S), t = s \o u PROVE IsPrefix(s, t)
  <2>1. /\ Len(u) \in Nat /\ Len(t) = Len(s) + Len(u)
        /\ \A i \in 1..Len(s) + Len(u) : t[i] = IF i <= Len(s) THEN s[i] ELSE u[i - Len(s)]
    BY <1>3, LenProperties, ConcatProperties
  <2>2. Len(s) <= Len(t) /\ \A i \in 1..Len(s) : s[i] = t[i] /\ s[i] \in S
    BY <1>1, <2>1, ElementOfSeq
  <2> DEFINE v == SubSeq(s, 1, Len(s))
             w == SubSeq(t, 1, Len(s))
  <2>3. v \in Seq(S) /\ Len(v) = Len(w) /\ w \in Seq(S) /\ \A i \in 1..Len(v) : v[i] = w[i]
    BY <1>1, <2>2, SubSeqProperties
  <2>4. v = w
    <3> HIDE DEF v, w
    <3> QED BY <2>3, SeqEqual
  <2> QED BY <2>2, <2>4 DEF IsPrefix
<1> QED BY <1>2, <1>3

\* Of two sequences that go on to the same, the shorter is a prefix of the other.
LEMMA PrefixesCompare ==
    ASSUME NEW S, NEW s \in Seq(S), NEW u \in Seq(S), NEW t \in Seq(S), NEW v \in Seq(S)
    PROVE  Comparable(S, s, u, t, v)
<1> SUFFICES ASSUME s \o u = t \o v, Len(s) <= Len(t)
             PROVE  \E w \in Seq(S) : t = s \o w /\ u = w \o v
  BY DEF Comparable
<1>1. Len(s) \in Nat /\ Len(t) \in Nat /\ Len(u) \in Nat /\ Len(v) \in Nat
  BY LenProperties
<1>2. \A i \in 1..Len(s) : s[i] = t[i] /\ t[i] \in S /\ s[i] \in S
  <2> TAKE i \in 1..Len(s)
  <2>1. i \in 1..Len(s) + Len(u) /\ i \in 1..Len(t) + Len(v) /\ i <= Len(s) /\ i <= Len(t)
    BY <1>1
  <2>2. (s \o u)[i] = s[i] /\ (t \o v)[i] = t[i]
    BY <2>1, ConcatProperties
  <2> QED BY <1>1, <2>1, <2>2, ElementOfSeq
<1> DEFINE a == SubSeq(s, 1, Len(s))
           b == SubSeq(t, 1, Len(s))
<1>3. a \in Seq(S) /\ Len(a) = Len(b) /\ b \in Seq(S) /\ \A i \in 1..Len(a) : a[i] = b[i]
  BY <1>1, <1>2, SubSeqProperties
<1>4. a = b
  <2> HIDE DEF a, b
  <2> QED BY <1>3, SeqEqual
<1>5. IsPrefix(s, t)
  BY <1>4 DEF IsPrefix
<1> HIDE DEF a, b
<1>6. PICK w \in Seq(S) : t = s \o w
  <2>1. s \in Seq(S) /\ t \in Seq(S)
    OBVIOUS
  <2>2. IsPrefix(s, t) <=> \E w \in Seq(S) : t = s \o w
    BY ONLY <2>1, PrefixGoesOn, Zenon
  <2> QED BY <1>5, <2>2
<1>7. s \o u = s \o (w \o v) /\ w \o v \in Seq(S)
  <2>1. (s \o w) \o v = s \o (w \o v)
    <3>1. Regroups(S, s, w, v)
      BY Regroup
    <3> QED BY ONLY <3>1 DEF Regroups
  <2>2. w \o v \in Seq(S)
    BY ConcatProperties, Zenon
  <2> QED BY <1>6, <2>1, <2>2
<1>8. u = w \o v
  BY <1>7, ConcatSimplifications
<1> QED BY <1>6, <1>8

LEMMA PrefixOfMore ==
    ASSUME NEW S, NEW s \in Seq(S), NEW t \in Seq(S), NEW u \in Seq(S), IsPrefix(s, t)
    PROVE  IsPrefix(s, t \o u)
<1>1. PICK v \in Seq(S) : t = s \o v
  BY PrefixGoesOn
<1>2. t \o u = s \o (v \o u) /\ v \o u \in Seq(S) /\ t \o u \in Seq(S)
  BY <1>1, ConcatAssociative, ConcatProperties
<1> QED BY <1>2, PrefixGoesOn

\* What the first chunks say is the beginning of what all say.
LEMMA FlattenGoesOn ==
    ASSUME NEW S, NEW b \in Seq(Seq(S)), NEW n \in 0..Len(b)
    PROVE  \E u \in Seq(S) : FlattenSeq(b) = FlattenSeq(SubSeq(b, 1, n)) \o u
<1> DEFINE P(m) == \E u \in Seq(S) : FlattenSeq(SubSeq(b, 1, m)) = FlattenSeq(SubSeq(b, 1, n)) \o u
           N == {m \in n..Len(b) : ~P(m)}
<1>1. Len(b) \in Nat
  BY LenProperties
<1>2. N = {}
  <2> SUFFICES ASSUME N # {} PROVE FALSE
    OBVIOUS
  <2>1. PICK m \in N : \A k \in N : m <= k
    <3>1. N \in SUBSET Nat
      BY <1>1
    <3> HIDE DEF N
    <3> QED BY <3>1, LeastOf
  <2>2. P(n)
    <3>1. SubSeq(b, 1, n) \in Seq(Seq(S))
      BY <1>1, ElementOfSeq, SubSeqProperties
    <3>2. FlattenSeq(SubSeq(b, 1, n)) \in Seq(S)
      BY <3>1, FlattenTyping
    <3> QED BY <3>2, ConcatEmptySeq, EmptySeq
  <2>3. m # n
    BY <2>1, <2>2
  <2>4. m \in 1..Len(b) /\ m - 1 \in n..Len(b) /\ m - 1 \notin N
    <3>1. m \in n..Len(b) /\ \A k \in N : m <= k
      BY <2>1, Zenon
    <3>2. m \in 1..Len(b) /\ m - 1 \in n..Len(b) /\ ~(m <= m - 1)
      BY <1>1, <2>3, <3>1
    <3> HIDE DEF N
    <3> QED BY <3>1, <3>2
  <2>5. PICK u \in Seq(S) : FlattenSeq(SubSeq(b, 1, m - 1)) = FlattenSeq(SubSeq(b, 1, n)) \o u
    BY <2>4
  <2>6. FlattenSeq(SubSeq(b, 1, m)) = FlattenSeq(SubSeq(b, 1, m - 1)) \o b[m]
    BY <2>4, FlattenNext
  <2>7. b[m] \in Seq(S) /\ FlattenSeq(SubSeq(b, 1, n)) \in Seq(S)
    <3>1. SubSeq(b, 1, n) \in Seq(Seq(S))
      BY <1>1, ElementOfSeq, SubSeqProperties
    <3> QED BY <2>4, <3>1, FlattenTyping, ElementOfSeq
  <2>8. FlattenSeq(SubSeq(b, 1, m)) = FlattenSeq(SubSeq(b, 1, n)) \o (u \o b[m])
        /\ u \o b[m] \in Seq(S)
    <3> DEFINE t == FlattenSeq(SubSeq(b, 1, n))
               c == b[m]
    <3>1. t \in Seq(S) /\ u \in Seq(S) /\ c \in Seq(S)
      BY <2>7
    <3>2. FlattenSeq(SubSeq(b, 1, m)) = (t \o u) \o c
      BY <2>5, <2>6
    <3> HIDE DEF t, c, P, N
    <3>3. (t \o u) \o c = t \o (u \o c)
      BY ONLY <3>1, ConcatAssociative
    <3>4. u \o c \in Seq(S)
      BY ONLY <3>1, ConcatProperties
    <3> QED BY <3>2, <3>3, <3>4 DEF t, c
  <2> QED BY <2>1, <2>8
<1>3. Len(b) \in n..Len(b) /\ SubSeq(b, 1, Len(b)) = b
  BY <1>1, SubSeqFull
<1>4. P(Len(b))
  BY <1>2, <1>3
<1> QED BY <1>3, <1>4

----------------------------------------------------------------------------
(* Types                                                                    *)

GeneratorRecord == [prefix: Seq(Char), buffer: Seq(Seq(Char)),
                    isEnded: BOOLEAN, aborted: BOOLEAN, done: BOOLEAN]
RequestRecord == [prefix: Seq(Char), multiline: BOOLEAN, token: BOOLEAN,
                  at: {"debounce", "prepare", "read", "wait", "end", "canceled"},
                  generator: Nat, next: Nat, typed: Seq(Char), out: Seq(Char)]

\* A request has a generator once it was debounced and prepared.
Placed(q, n) ==
    /\ q.generator \in 0..n /\ q.next # 0
    /\ q.generator = 0 <=> q.at \in {"debounce", "prepare"}

StreamTyped ==
    /\ requests \in Seq(RequestRecord) /\ generators \in Seq(GeneratorRecord)
    /\ timer \in 0..Len(requests) /\ (timer # 0 => requests[timer].at = "debounce")
    /\ currentGenerator \in 0..Len(generators)
    /\ pendingCompletion \in Seq(Char)
    /\ \A r \in 1..Len(requests) : Placed(requests[r], Len(generators))

LEMMA StreamTypedIsTypeOK == ASSUME StreamTyped PROVE StreamTypeOK
<1>1. /\ Len(requests) \in Nat /\ Len(generators) \in Nat
      /\ DOMAIN requests = 1..Len(requests) /\ DOMAIN generators = 1..Len(generators)
  BY LenProperties DEF StreamTyped
<1>2. \A g \in DOMAIN generators : generators[g] \in GeneratorRecord
  BY <1>1, ElementOfSeq DEF StreamTyped
<1>3. ASSUME NEW r \in DOMAIN requests
      PROVE  requests[r] \in [prefix: Seq(Char), multiline: BOOLEAN, token: BOOLEAN,
                           at: {"debounce", "prepare", "read", "wait", "end", "canceled"},
                           generator: 0..Len(generators), next: Nat,
                           typed: Seq(Char), out: Seq(Char)]
  <2>1. requests[r] \in RequestRecord /\ requests[r].generator \in 0..Len(generators)
    BY <1>1, ElementOfSeq DEF StreamTyped, Placed
  <2> QED BY <2>1 DEF RequestRecord
<1> QED BY <1>1, <1>2, <1>3 DEF StreamTyped, StreamTypeOK, GeneratorRecord

LEMMA ChunksAreTexts ==
    ASSUME NEW chunk \in SeqOf(Char, MaxChunk)
    PROVE  chunk \in Seq(Char)
<1>1. PICK m \in 0..MaxChunk : chunk \in [1..m -> Char]
  BY DEF SeqOf
<1>2. m \in Nat
  BY StreamAssumption
<1> QED BY <1>1, <1>2, SeqDef

\* The same generators with the same texts, maybe ended.
KeepsText(gs, hs) ==
    /\ hs \in Seq(GeneratorRecord) /\ Len(hs) = Len(gs)
    /\ \A i \in 1..Len(gs) : /\ hs[i].prefix = gs[i].prefix /\ hs[i].buffer = gs[i].buffer
                             /\ gs[i].isEnded => hs[i].isEnded

LEMMA CanceledKeeps ==
    ASSUME NEW gs \in Seq(GeneratorRecord), NEW g \in 0..Len(gs)
    PROVE  /\ KeepsText(gs, Canceled(gs, g))
           /\ g # 0 => Canceled(gs, g)[g].isEnded
<1> DEFINE e == [gs[g] EXCEPT !.aborted = TRUE, !.isEnded = TRUE]
<1>1. CASE g = 0
  BY <1>1, LenProperties, ElementOfSeq DEF Canceled, KeepsText
<1>2. CASE g # 0
  <2>1. g \in 1..Len(gs) /\ gs[g] \in GeneratorRecord
    BY <1>2, LenProperties, ElementOfSeq
  <2>2. e \in GeneratorRecord /\ e.prefix = gs[g].prefix /\ e.buffer = gs[g].buffer /\ e.isEnded
    BY <2>1 DEF GeneratorRecord
  <2>3. Canceled(gs, g) = [gs EXCEPT ![g] = e]
    BY <1>2, <2>1, LenProperties DEF Canceled
  <2> HIDE DEF e
  <2> QED BY <2>1, <2>2, <2>3, ExceptSeq DEF KeepsText
<1> QED BY <1>1, <1>2

LEMMA EndedKeeps ==
    ASSUME NEW gs \in Seq(GeneratorRecord), NEW g \in 1..Len(gs)
    PROVE  /\ KeepsText(gs, [gs EXCEPT ![g].done = TRUE, ![g].isEnded = TRUE])
           /\ KeepsText(gs, [gs EXCEPT ![g].done = TRUE])
<1> DEFINE d == [gs[g] EXCEPT !.done = TRUE]
           e == [gs[g] EXCEPT !.done = TRUE, !.isEnded = TRUE]
<1>1. gs[g] \in GeneratorRecord
  BY ElementOfSeq
<1>2. /\ d \in GeneratorRecord /\ d.prefix = gs[g].prefix /\ d.buffer = gs[g].buffer
      /\ d.isEnded = gs[g].isEnded
      /\ e \in GeneratorRecord /\ e.prefix = gs[g].prefix /\ e.buffer = gs[g].buffer /\ e.isEnded
  BY <1>1 DEF GeneratorRecord
<1>3. /\ [gs EXCEPT ![g].done = TRUE] = [gs EXCEPT ![g] = d]
      /\ [gs EXCEPT ![g].done = TRUE, ![g].isEnded = TRUE] = [gs EXCEPT ![g] = e]
  BY LenProperties
<1> HIDE DEF d, e
<1>4. KeepsText(gs, [gs EXCEPT ![g] = d])
  BY <1>2, ExceptSeq DEF KeepsText
<1>5. KeepsText(gs, [gs EXCEPT ![g] = e])
  BY <1>2, ExceptSeq DEF KeepsText
<1> QED BY <1>3, <1>4, <1>5

LEMMA KeepsTextTwice ==
    ASSUME NEW a, NEW b, NEW c, KeepsText(a, b), KeepsText(b, c)
    PROVE  KeepsText(a, c)
BY DEF KeepsText

\* One request changes.
LEMMA OneRequest ==
    ASSUME NEW rs \in Seq(RequestRecord), NEW r \in 1..Len(rs), NEW q \in RequestRecord
    PROVE  LET new == [rs EXCEPT ![r] = q]
           IN  /\ new \in Seq(RequestRecord) /\ Len(new) = Len(rs)
               /\ \A i \in 1..Len(rs) : new[i] = IF i = r THEN q ELSE rs[i]
BY ExceptSeq

LEMMA RequestIsRecord ==
    ASSUME StreamTyped, NEW r \in 1..Len(requests)
    PROVE  requests[r] \in RequestRecord /\ Placed(requests[r], Len(generators))
BY ElementOfSeq DEF StreamTyped

LEMMA GeneratorIsRecord ==
    ASSUME StreamTyped, NEW g \in 1..Len(generators)
    PROVE  /\ generators[g] \in GeneratorRecord
           /\ generators[g].prefix \in Seq(Char) /\ Len(generators[g].prefix) \in Nat
           /\ generators[g].buffer \in Seq(Seq(Char)) /\ Len(generators[g].buffer) \in Nat
<1>1. generators[g] \in GeneratorRecord
  BY ElementOfSeq DEF StreamTyped
<1>2. generators[g].prefix \in Seq(Char) /\ generators[g].buffer \in Seq(Seq(Char))
  BY <1>1 DEF GeneratorRecord
<1> QED BY <1>1, <1>2, LenProperties

\* What changes one request, and leaves it in its place, keeps the types.
LEMMA OneRequestTyping ==
    ASSUME StreamTyped, NEW r \in 1..Len(requests), NEW q \in RequestRecord,
           requests[r].at # "debounce" \/ timer' = 0, timer' \in {timer, 0},
           requests' = [requests EXCEPT ![r] = q],
           generators' \in Seq(GeneratorRecord), Len(generators) <= Len(generators'),
           currentGenerator' \in 0..Len(generators'), pendingCompletion' \in Seq(Char),
           Placed(q, Len(generators'))
    PROVE  StreamTyped'
<1>1. /\ requests' \in Seq(RequestRecord) /\ Len(requests') = Len(requests)
      /\ \A i \in 1..Len(requests) : requests'[i] = IF i = r THEN q ELSE requests[i]
  BY OneRequest DEF StreamTyped
<1>2. Len(requests) \in Nat /\ Len(generators) \in Nat /\ Len(generators') \in Nat
  BY LenProperties DEF StreamTyped
<1>3. timer' \in 0..Len(requests') /\ (timer' # 0 => requests'[timer'].at = "debounce")
  BY <1>1, <1>2 DEF StreamTyped
<1>4. ASSUME NEW i \in 1..Len(requests') PROVE Placed(requests'[i], Len(generators'))
  <2>1. CASE i = r
    BY <1>1, <2>1
  <2>2. CASE i # r
    BY <1>1, <1>2, <2>2 DEF Placed, StreamTyped
  <2> QED BY <2>1, <2>2
<1> QED BY <1>1, <1>3, <1>4 DEF StreamTyped

LEMMA RequestTyping ==
    ASSUME StreamTyped, NEW prefix \in Typings, NEW multiline \in BOOLEAN,
           Request(prefix, multiline)
    PROVE  StreamTyped'
<1> DEFINE q == [prefix |-> prefix, multiline |-> multiline, token |-> FALSE, at |-> "debounce",
                 generator |-> 0, next |-> 1, typed |-> <<>>, out |-> <<>>]
<1>1. q \in RequestRecord /\ q.at = "debounce" /\ q.generator = 0 /\ q.next = 1
  <2>1. prefix \in Seq(Char) /\ <<>> \in Seq(Char)
    BY StreamAssumption, EmptySeq
  <2> QED BY <2>1 DEF RequestRecord
<1>2. /\ requests' = Append(requests, q) /\ timer' = Len(requests) + 1
      /\ UNCHANGED <<generators, currentGenerator, pendingCompletion>>
  BY DEF Request
<1> HIDE DEF q
<1>3. /\ requests' \in Seq(RequestRecord) /\ Len(requests') = Len(requests) + 1
      /\ \A i \in 1..Len(requests) : requests'[i] = requests[i]
      /\ requests'[Len(requests) + 1] = q
  BY <1>1, <1>2, AppendProperties DEF StreamTyped
<1>4. Len(requests) \in Nat /\ Len(generators) \in Nat
  BY LenProperties DEF StreamTyped
<1>5. ASSUME NEW i \in 1..Len(requests') PROVE Placed(requests'[i], Len(generators'))
  <2>1. CASE i = Len(requests) + 1
    BY <1>1, <1>2, <1>3, <1>4, <2>1 DEF Placed
  <2>2. CASE i \in 1..Len(requests)
    BY <1>2, <1>3, <2>2 DEF StreamTyped
  <2> QED BY <1>3, <1>4, <2>1, <2>2
<1> QED BY <1>1, <1>2, <1>3, <1>4, <1>5 DEF StreamTyped

LEMMA DebouncedTyping == ASSUME StreamTyped, Debounced PROVE StreamTyped'
<1> DEFINE q == [requests[timer] EXCEPT !.at = "prepare"]
<1>1. timer \in 1..Len(requests) /\ requests[timer].at = "debounce"
  BY LenProperties DEF StreamTyped, Debounced
<1>2. requests[timer] \in RequestRecord /\ Placed(requests[timer], Len(generators))
  BY <1>1, RequestIsRecord
<1>3. q \in RequestRecord /\ Placed(q, Len(generators))
  BY <1>1, <1>2 DEF RequestRecord, Placed
<1>4. requests' = [requests EXCEPT ![timer] = q]
  BY <1>1, LenProperties DEF Debounced, StreamTyped
<1> HIDE DEF q
<1>5. /\ generators' \in Seq(GeneratorRecord) /\ Len(generators) <= Len(generators')
      /\ currentGenerator' \in 0..Len(generators') /\ pendingCompletion' \in Seq(Char)
      /\ Len(generators') = Len(generators) /\ timer' = 0
  BY LenProperties DEF Debounced, StreamTyped
<1> QED BY <1>1, <1>3, <1>4, <1>5, OneRequestTyping

\* What getGenerator() does to the request and to the generators.
LEMMA GetGeneratorEffect ==
    ASSUME StreamTyped, NEW r \in 1..Len(requests), GetGenerator(r)
    PROVE  \E p \in RequestRecord :
              /\ requests[r].at = "prepare" /\ requests[r].generator = 0
              /\ requests' = [requests EXCEPT ![r] = p]
              /\ p.at = "read" /\ p.prefix = requests[r].prefix
              /\ p.next = requests[r].next /\ p.out = requests[r].out
              /\ \/ /\ p.generator = currentGenerator /\ ShouldReuse(p.prefix)
                    /\ p.typed = SubSeq(p.prefix,
                          Len(generators[currentGenerator].prefix) + 1, Len(p.prefix))
                    /\ UNCHANGED <<generators, currentGenerator, pendingCompletion>>
                 \/ /\ p.generator = Len(generators) + 1 /\ p.typed = <<>>
                    /\ currentGenerator' = Len(generators) + 1 /\ pendingCompletion' = <<>>
                    /\ generators' = Append(Canceled(generators, currentGenerator),
                          [prefix |-> p.prefix, buffer |-> <<>>, isEnded |-> FALSE,
                           aborted |-> FALSE, done |-> FALSE])
<1> DEFINE prefix == requests[r].prefix
           reuse == ShouldReuse(prefix)
           g == IF reuse THEN currentGenerator ELSE Len(generators) + 1
           typed == IF reuse
                    THEN SubSeq(prefix, Len(generators[g].prefix) + 1, Len(prefix)) ELSE <<>>
           p == [requests[r] EXCEPT !.at = "read", !.generator = g, !.typed = typed]
<1>1. /\ requests[r] \in RequestRecord /\ Placed(requests[r], Len(generators))
      /\ Len(generators) \in Nat /\ currentGenerator \in 0..Len(generators)
  BY RequestIsRecord, LenProperties DEF StreamTyped
<1>2. prefix \in Seq(Char) /\ Len(prefix) \in Nat
  BY <1>1, LenProperties DEF RequestRecord
<1>3. g \in Nat
  BY <1>1
<1>4. typed \in Seq(Char)
  <2>1. CASE reuse
    <3>1. currentGenerator \in 1..Len(generators)
      BY <1>1, <2>1 DEF ShouldReuse
    <3>2. generators[currentGenerator].prefix \in Seq(Char)
      BY <3>1, GeneratorIsRecord
    <3>3. Len(generators[currentGenerator].prefix) \in Nat
      BY <3>1, GeneratorIsRecord
    <3> DEFINE k == Len(generators[currentGenerator].prefix) + 1
    <3>4. k \in Int /\ Len(prefix) \in Int /\ k >= 1
      BY <1>2, <3>3
    <3>5. typed = SubSeq(prefix, k, Len(prefix))
      BY <2>1
    <3> HIDE DEF k, prefix, typed
    <3>6. \A i \in k..Len(prefix) : prefix[i] \in Char
      BY <1>2, <3>4, ElementOfSeq
    <3> QED BY <3>4, <3>5, <3>6, SubSeqProperties
  <2>2. CASE ~reuse
    BY <2>2, EmptySeq
  <2> QED BY <2>1, <2>2
<1>5. requests' = [requests EXCEPT ![r] = p] /\ requests[r].at = "prepare"
  BY LenProperties DEF GetGenerator, StreamTyped
<1>6. /\ reuse => UNCHANGED <<generators, currentGenerator, pendingCompletion>>
      /\ ~reuse => /\ currentGenerator' = Len(generators) + 1 /\ pendingCompletion' = <<>>
                   /\ generators' = Append(Canceled(generators, currentGenerator),
                          [prefix |-> prefix, buffer |-> <<>>, isEnded |-> FALSE,
                           aborted |-> FALSE, done |-> FALSE])
  BY DEF GetGenerator
<1>7. /\ reuse => g = currentGenerator
              /\ typed = SubSeq(prefix, Len(generators[currentGenerator].prefix) + 1, Len(prefix))
      /\ ~reuse => g = Len(generators) + 1 /\ typed = <<>>
  OBVIOUS
<1> HIDE DEF typed, g
<1>8. p \in RequestRecord /\ p.at = "read" /\ p.prefix = prefix /\ p.generator = g
      /\ p.typed = typed /\ p.next = requests[r].next /\ p.out = requests[r].out
  BY <1>1, <1>3, <1>4 DEF RequestRecord
<1>9. requests[r].generator = 0
  BY <1>1, <1>5 DEF Placed
<1> HIDE DEF p
<1> QED BY <1>5, <1>6, <1>7, <1>8, <1>9

LEMMA GetGeneratorTyping ==
    ASSUME StreamTyped, NEW r \in 1..Len(requests), GetGenerator(r)
    PROVE  StreamTyped'
<1>1. PICK p \in RequestRecord :
              /\ requests[r].at = "prepare" /\ requests[r].generator = 0
              /\ requests' = [requests EXCEPT ![r] = p]
              /\ p.at = "read" /\ p.next = requests[r].next
              /\ \/ /\ p.generator = currentGenerator /\ ShouldReuse(p.prefix)
                    /\ UNCHANGED <<generators, currentGenerator, pendingCompletion>>
                 \/ /\ p.generator = Len(generators) + 1
                    /\ currentGenerator' = Len(generators) + 1 /\ pendingCompletion' = <<>>
                    /\ generators' = Append(Canceled(generators, currentGenerator),
                          [prefix |-> p.prefix, buffer |-> <<>>, isEnded |-> FALSE,
                           aborted |-> FALSE, done |-> FALSE])
  BY GetGeneratorEffect
<1>2. Len(generators) \in Nat /\ currentGenerator \in 0..Len(generators) /\ timer' = timer
  BY LenProperties DEF StreamTyped, GetGenerator
<1>3. /\ generators' \in Seq(GeneratorRecord) /\ Len(generators) <= Len(generators')
      /\ currentGenerator' \in 0..Len(generators') /\ pendingCompletion' \in Seq(Char)
      /\ p.generator \in 1..Len(generators')
  <2>1. CASE p.generator = currentGenerator
             /\ UNCHANGED <<generators, currentGenerator, pendingCompletion>>
             /\ ShouldReuse(p.prefix)
    BY <1>2, <2>1 DEF ShouldReuse, StreamTyped
  <2>2. CASE /\ p.generator = Len(generators) + 1
             /\ currentGenerator' = Len(generators) + 1 /\ pendingCompletion' = <<>>
             /\ generators' = Append(Canceled(generators, currentGenerator),
                          [prefix |-> p.prefix, buffer |-> <<>>, isEnded |-> FALSE,
                           aborted |-> FALSE, done |-> FALSE])
    <3> DEFINE e == [prefix |-> p.prefix, buffer |-> <<>>, isEnded |-> FALSE,
                     aborted |-> FALSE, done |-> FALSE]
               c == Canceled(generators, currentGenerator)
    <3>1. e \in GeneratorRecord
      <4>1. p.prefix \in Seq(Char) /\ <<>> \in Seq(Seq(Char))
        BY EmptySeq DEF RequestRecord
      <4> QED BY <4>1 DEF GeneratorRecord
    <3>2. c \in Seq(GeneratorRecord) /\ Len(c) = Len(generators)
      BY CanceledKeeps DEF StreamTyped, KeepsText
    <3> HIDE DEF e, c
    <3>3. Append(c, e) \in Seq(GeneratorRecord) /\ Len(Append(c, e)) = Len(generators) + 1
      BY <3>1, <3>2, AppendProperties
    <3>4. generators' = Append(c, e)
      BY <2>2 DEF e, c
    <3>5. pendingCompletion' \in Seq(Char)
      BY <2>2, EmptySeq
    <3>6. p.generator = Len(generators) + 1 /\ currentGenerator' = Len(generators) + 1
      BY <2>2
    <3>7. generators' \in Seq(GeneratorRecord) /\ Len(generators') = Len(generators) + 1
      BY <3>3, <3>4
    <3> QED BY ONLY <1>2, <3>5, <3>6, <3>7
  <2> QED BY <1>1, <2>1, <2>2
<1>4. Placed(p, Len(generators'))
  BY <1>1, <1>3, RequestIsRecord DEF Placed
<1> QED BY <1>1, <1>2, <1>3, <1>4, OneRequestTyping

\* p is where q is in its text.
SameText(q, p) ==
    /\ p.prefix = q.prefix /\ p.multiline = q.multiline /\ p.generator = q.generator
    /\ p.next = q.next /\ p.typed = q.typed /\ p.out = q.out
    /\ q.at = "end" => p.at = "end"

LEMMA WokenEffect ==
    ASSUME StreamTyped, NEW g
    PROVE  /\ Woken(g) \in Seq(RequestRecord) /\ Len(Woken(g)) = Len(requests)
           /\ \A i \in 1..Len(requests) :
                 /\ SameText(requests[i], Woken(g)[i])
                 /\ \/ Woken(g)[i].at = requests[i].at
                    \/ requests[i].at = "wait" /\ Woken(g)[i].at = "read"
<1> DEFINE n == Len(requests)
           w == Woken(g)
<1>1. n \in Nat /\ DOMAIN requests = 1..n
  BY LenProperties DEF StreamTyped
<1>2. w = [i \in 1..n |-> IF requests[i].at = "wait" /\ requests[i].generator = g
                          THEN [requests[i] EXCEPT !.at = "read"] ELSE requests[i]]
  BY <1>1 DEF Woken
<1>3. ASSUME NEW i \in 1..n
      PROVE  /\ w[i] \in RequestRecord /\ SameText(requests[i], w[i])
             /\ \/ w[i].at = requests[i].at
                \/ requests[i].at = "wait" /\ w[i].at = "read"
  <2>1. requests[i] \in RequestRecord
    BY RequestIsRecord
  <2>2. w[i] = IF requests[i].at = "wait" /\ requests[i].generator = g
               THEN [requests[i] EXCEPT !.at = "read"] ELSE requests[i]
    BY <1>2
  <2> HIDE DEF w, n
  <2>3. CASE requests[i].at = "wait" /\ requests[i].generator = g
    BY <2>1, <2>2, <2>3 DEF RequestRecord, SameText
  <2>4. CASE ~(requests[i].at = "wait" /\ requests[i].generator = g)
    BY <2>1, <2>2, <2>4 DEF SameText
  <2> QED BY <2>3, <2>4
<1>4. w \in [1..n -> RequestRecord]
  BY <1>2, <1>3
<1> HIDE DEF w
<1>5. w \in Seq(RequestRecord) /\ Len(w) = n
  BY <1>1, <1>4, SeqDef
<1> QED BY <1>3, <1>5 DEF w

LEMMA WokenTyping ==
    ASSUME StreamTyped, NEW g, requests' = Woken(g), timer' = timer,
           generators' \in Seq(GeneratorRecord), Len(generators') = Len(generators),
           currentGenerator' = currentGenerator, pendingCompletion' \in Seq(Char)
    PROVE  StreamTyped'
<1>1. /\ requests' \in Seq(RequestRecord) /\ Len(requests') = Len(requests)
      /\ \A i \in 1..Len(requests) :
            /\ SameText(requests[i], requests'[i])
            /\ \/ requests'[i].at = requests[i].at
               \/ requests[i].at = "wait" /\ requests'[i].at = "read"
  BY WokenEffect
<1>2. ASSUME NEW i \in 1..Len(requests) PROVE Placed(requests'[i], Len(generators))
  BY <1>1, RequestIsRecord DEF Placed, SameText
<1>3. timer' # 0 => requests'[timer'].at = "debounce"
  <2> SUFFICES ASSUME timer # 0 PROVE requests'[timer].at = "debounce"
    OBVIOUS
  <2>1. timer \in 1..Len(requests) /\ requests[timer].at = "debounce"
    BY LenProperties DEF StreamTyped
  <2> QED BY <1>1, <2>1
<1> QED BY <1>1, <1>2, <1>3 DEF StreamTyped

\* What the source does to the generators.
LEMMA YieldEffect ==
    ASSUME StreamTyped, NEW g \in 1..Len(generators), NEW chunk \in Seq(Char), Yield(g, chunk)
    PROVE  \/ KeepsText(generators, generators') /\ pendingCompletion' = pendingCompletion
           \/ /\ ~generators[g].isEnded /\ pendingCompletion' = pendingCompletion \o chunk
              /\ \E e \in GeneratorRecord :
                    /\ generators' = [generators EXCEPT ![g] = e]
                    /\ e.prefix = generators[g].prefix
                    /\ e.buffer = Append(generators[g].buffer, chunk)
                    /\ e.isEnded = generators[g].isEnded
<1>1. CASE generators[g].isEnded
  BY <1>1, EndedKeeps DEF Yield, StreamTyped
<1>2. CASE ~generators[g].isEnded
  <2> DEFINE e == [generators[g] EXCEPT !.buffer = Append(@, chunk)]
  <2>1. generators[g] \in GeneratorRecord /\ generators[g].buffer \in Seq(Seq(Char))
    BY GeneratorIsRecord
  <2>2. Append(generators[g].buffer, chunk) \in Seq(Seq(Char))
    BY <2>1, AppendProperties
  <2>3. /\ e \in GeneratorRecord /\ e.prefix = generators[g].prefix
        /\ e.buffer = Append(generators[g].buffer, chunk)
        /\ e.isEnded = generators[g].isEnded
    BY <2>1, <2>2 DEF GeneratorRecord
  <2>4. generators' = [generators EXCEPT ![g] = e]
    BY <1>2, LenProperties DEF Yield, StreamTyped
  <2>5. pendingCompletion' = pendingCompletion \o chunk
    BY <1>2 DEF Yield
  <2> HIDE DEF e
  <2> QED BY <1>2, <2>3, <2>4, <2>5
<1> QED BY <1>1, <1>2

LEMMA YieldTyping ==
    ASSUME StreamTyped, NEW g \in 1..Len(generators), NEW chunk \in Seq(Char), Yield(g, chunk)
    PROVE  StreamTyped'
<1>1. requests' = Woken(g) /\ timer' = timer /\ currentGenerator' = currentGenerator
  BY DEF Yield
<1>2. pendingCompletion \in Seq(Char) /\ pendingCompletion \o chunk \in Seq(Char)
  BY ConcatProperties DEF StreamTyped
<1>3. /\ generators' \in Seq(GeneratorRecord) /\ Len(generators') = Len(generators)
      /\ pendingCompletion' \in Seq(Char)
  <2>1. CASE KeepsText(generators, generators') /\ pendingCompletion' = pendingCompletion
    BY <1>2, <2>1 DEF KeepsText
  <2>2. ASSUME NEW e \in GeneratorRecord, generators' = [generators EXCEPT ![g] = e],
               pendingCompletion' = pendingCompletion \o chunk
        PROVE  /\ generators' \in Seq(GeneratorRecord) /\ Len(generators') = Len(generators)
               /\ pendingCompletion' \in Seq(Char)
    <3>1. generators \in Seq(GeneratorRecord)
      BY DEF StreamTyped
    <3> QED BY <1>2, <2>2, <3>1, ExceptSeq
  <2> QED BY <2>1, <2>2, YieldEffect
<1> QED BY <1>1, <1>3, WokenTyping

LEMMA SourceEndsEffect ==
    ASSUME StreamTyped, NEW g \in 1..Len(generators), SourceEnds(g)
    PROVE  KeepsText(generators, generators')
<1> DEFINE ended == [generators EXCEPT ![g].done = TRUE, ![g].isEnded = TRUE]
<1>1. KeepsText(generators, ended)
  BY EndedKeeps DEF StreamTyped
<1>2. generators' = ended \/ generators' = Canceled(ended, currentGenerator)
  BY DEF SourceEnds
<1> HIDE DEF ended
<1>3. KeepsText(ended, Canceled(ended, currentGenerator))
  <2>1. ended \in Seq(GeneratorRecord) /\ currentGenerator \in 0..Len(ended)
    BY <1>1 DEF KeepsText, StreamTyped
  <2> QED BY <2>1, CanceledKeeps
<1>4. KeepsText(generators, Canceled(ended, currentGenerator))
  BY <1>1, <1>3, KeepsTextTwice
<1> QED BY <1>1, <1>2, <1>4

LEMMA SourceEndsTyping ==
    ASSUME StreamTyped, NEW g \in 1..Len(generators), SourceEnds(g)
    PROVE  StreamTyped'
<1>1. requests' = Woken(g) /\ timer' = timer /\ currentGenerator' = currentGenerator
      /\ pendingCompletion' = pendingCompletion
  BY DEF SourceEnds
<1>2. generators' \in Seq(GeneratorRecord) /\ Len(generators') = Len(generators)
  BY SourceEndsEffect DEF KeepsText
<1>3. pendingCompletion' \in Seq(Char)
  BY <1>1 DEF StreamTyped
<1> QED BY <1>1, <1>2, <1>3, WokenTyping

\* The greatest number for which the chunk repeats what was typed.
Repeats(chunk, typed, n) ==
    n <= Len(chunk) /\ n <= Len(typed) /\ SubSeq(chunk, 1, n) = SubSeq(typed, 1, n)

LEMMA SkippedProperties ==
    ASSUME NEW S, NEW chunk \in Seq(S), NEW typed \in Seq(S)
    PROVE  /\ SkippedBy(chunk, typed) \in 0..Len(chunk)
           /\ Repeats(chunk, typed, SkippedBy(chunk, typed))
           /\ \A m \in 0..Len(chunk) : Repeats(chunk, typed, m) => m <= SkippedBy(chunk, typed)
<1> DEFINE Best(n) == /\ Repeats(chunk, typed, n)
                      /\ \A m \in 0..Len(chunk) : Repeats(chunk, typed, m) => m <= n
           N == {n \in Nat : \A m \in 0..Len(chunk) : Repeats(chunk, typed, m) => m <= n}
<1>1. Len(chunk) \in Nat /\ Len(typed) \in Nat
  BY LenProperties
<1>2. SkippedBy(chunk, typed) = CHOOSE n \in 0..Len(chunk) : Best(n)
  BY DEF SkippedBy, Repeats
<1>3. \E n \in 0..Len(chunk) : Best(n)
  <2>1. Len(chunk) \in N
    BY <1>1
  <2>2. PICK n \in N : \A k \in N : n <= k
    <3>1. N \in SUBSET Nat /\ N # {}
      BY <2>1
    <3> HIDE DEF N
    <3> QED BY <3>1, LeastOf
  <2>3. n \in Nat /\ n <= Len(chunk) /\ \A m \in 0..Len(chunk) : Repeats(chunk, typed, m) => m <= n
    BY <2>1, <2>2
  <2>4. Repeats(chunk, typed, 0)
    <3>1. SubSeq(chunk, 1, 0) = <<>> /\ SubSeq(typed, 1, 0) = <<>>
      BY SubSeqEmpty
    <3> QED BY <1>1, <3>1 DEF Repeats
  <2>5. Repeats(chunk, typed, n)
    <3> SUFFICES ASSUME ~Repeats(chunk, typed, n) PROVE FALSE
      OBVIOUS
    <3>1. n # 0 /\ n - 1 \in Nat
      BY <2>3, <2>4
    <3>2. \A m \in 0..Len(chunk) : Repeats(chunk, typed, m) => m # n
      OBVIOUS
    <3>3. \A m \in 0..Len(chunk) : Repeats(chunk, typed, m) => m <= n - 1
      BY <1>1, <2>3, <3>2
    <3>4. n - 1 \in N
      BY <3>1, <3>3
    <3> HIDE DEF N
    <3> QED BY <2>2, <2>3, <3>4
  <2> QED BY <1>1, <2>3, <2>5
<1> HIDE DEF Best
<1>4. SkippedBy(chunk, typed) \in 0..Len(chunk) /\ Best(SkippedBy(chunk, typed))
  BY <1>2, <1>3
<1> QED BY <1>4 DEF Best

\* The request after a chunk: p has read what q had left of it, up to a newline.
HasRead(q, chunk, p) ==
    LET skip == SkippedBy(chunk, q.typed)
        rest == SubSeq(chunk, skip + 1, Len(chunk))
    IN  /\ p.prefix = q.prefix /\ p.multiline = q.multiline /\ p.generator = q.generator
        /\ p.next = q.next + 1
        /\ p.typed = SubSeq(q.typed, skip + 1, Len(q.typed))
        /\ \E shown \in Seq(Char) :
              /\ p.out = q.out \o shown
              /\ \/ p.at = "read" /\ shown = rest
                 \/ p.at = "end" /\ ~q.multiline /\ IsPrefix(shown, rest) /\ rest # <<>>

LEMMA UpToAPlace ==
    ASSUME NEW S, NEW s \in Seq(S), NEW k \in 0..Len(s)
    PROVE  SubSeq(s, 1, k) \in Seq(S) /\ IsPrefix(SubSeq(s, 1, k), s)
<1>1. Len(s) \in Nat
  BY LenProperties
<1>2. \A i \in 1..k : s[i] \in S
  BY <1>1, ElementOfSeq
<1>3. /\ SubSeq(s, 1, k) \in Seq(S) /\ Len(SubSeq(s, 1, k)) = k
      /\ \A i \in 1..k : SubSeq(s, 1, k)[i] = s[i]
  BY <1>1, <1>2, SubSeqProperties
<1>4. SubSeq(SubSeq(s, 1, k), 1, k) = SubSeq(s, 1, k)
  BY <1>3, SubSeqFull
<1> QED BY <1>1, <1>3, <1>4 DEF IsPrefix

LEMMA FromAPlace ==
    ASSUME NEW S, NEW s \in Seq(S), NEW k \in 0..Len(s)
    PROVE  /\ SubSeq(s, k + 1, Len(s)) \in Seq(S)
           /\ s = SubSeq(s, 1, k) \o SubSeq(s, k + 1, Len(s))
<1>1. Len(s) \in Nat
  BY LenProperties
<1>2. \A i \in (k + 1)..Len(s) : s[i] \in S
  BY <1>1, ElementOfSeq
<1>3. SubSeq(s, k + 1, Len(s)) \in Seq(S)
  BY <1>1, <1>2, SubSeqProperties
<1>4. SubSeq(s, 1, k) \o SubSeq(s, k + 1, Len(s)) = SubSeq(s, 1, Len(s))
  <2>1. 1 \in 1..(Len(s) + 1) /\ k \in (1 - 1)..Len(s) /\ Len(s) \in k..Len(s)
    BY <1>1
  <2> QED BY <2>1, ConcatAdjacentSubSeq
<1> QED BY <1>3, <1>4, SubSeqFull

LEMMA ReadChunkEffect ==
    ASSUME StreamTyped, NEW r \in 1..Len(requests), ReadChunk(r)
    PROVE  LET q == requests[r]
               b == generators[q.generator].buffer
           IN  /\ q.at = "read" /\ q.generator \in 1..Len(generators) /\ q.next \in 1..Len(b)
               /\ b[q.next] \in Seq(Char)
               /\ UNCHANGED <<timer, generators, currentGenerator, pendingCompletion>>
               /\ \E p \in RequestRecord :
                     /\ requests' = [requests EXCEPT ![r] = p]
                     /\ \/ p.at = "canceled" /\ SameText(q, p)
                        \/ HasRead(q, b[q.next], p)
<1> DEFINE q == requests[r]
           b == generators[q.generator].buffer
           chunk == b[q.next]
           skip == SkippedBy(chunk, q.typed)
           rest == SubSeq(chunk, skip + 1, Len(chunk))
           lineEnds == {i \in DOMAIN rest : rest[i] = Newline}
           newLine == ~q.multiline /\ lineEnds # {}
           first == CHOOSE i \in lineEnds : \A j \in lineEnds : i <= j
           shown == IF newLine THEN SubSeq(rest, 1, first - 1) ELSE rest
           typed == SubSeq(q.typed, skip + 1, Len(q.typed))
<1>1. q \in RequestRecord /\ Placed(q, Len(generators)) /\ q.at = "read" /\ q.next <= Len(b)
  BY RequestIsRecord DEF ReadChunk
<1>2. q.generator \in 1..Len(generators) /\ q.typed \in Seq(Char) /\ q.out \in Seq(Char)
      /\ q.next \in Nat /\ q.next # 0
  BY <1>1 DEF RequestRecord, Placed
<1>3. b \in Seq(Seq(Char)) /\ q.next \in 1..Len(b)
  BY <1>1, <1>2, GeneratorIsRecord
<1>4. chunk \in Seq(Char) /\ Len(chunk) \in Nat /\ Len(q.typed) \in Nat
  BY <1>2, <1>3, ElementOfSeq, LenProperties
<1>5. /\ requests' = [requests EXCEPT ![r] =
              IF q.token /\ (newLine \/ rest # <<>>)
              THEN [q EXCEPT !.at = "canceled"]
              ELSE [q EXCEPT !.next = @ + 1, !.out = @ \o shown, !.typed = typed,
                             !.at = IF newLine THEN "end" ELSE "read"]]
      /\ UNCHANGED <<timer, generators, currentGenerator, pendingCompletion>>
  BY LenProperties DEF ReadChunk, StreamTyped
<1> HIDE DEF q, b, chunk
<1>6. skip \in 0..Len(chunk) /\ skip <= Len(q.typed)
  BY <1>2, <1>4, SkippedProperties DEF Repeats
<1>7. rest \in Seq(Char) /\ typed \in Seq(Char)
  BY <1>2, <1>4, <1>6, FromAPlace
<1>8. /\ shown \in Seq(Char)
      /\ newLine => IsPrefix(shown, rest) /\ rest # <<>>
  <2>1. CASE newLine
    <3> HIDE DEF rest
    <3>1. lineEnds \in SUBSET Nat /\ lineEnds # {} /\ lineEnds \subseteq 1..Len(rest)
      BY <1>7, <2>1, LenProperties
    <3>2. \E i \in lineEnds : \A j \in lineEnds : i <= j
      <4> HIDE DEF lineEnds
      <4> QED BY <3>1, LeastOf
    <3>3. first \in lineEnds
      BY <3>2
    <3>4. first - 1 \in 0..Len(rest)
      <4>1. Len(rest) \in Nat
        BY ONLY <1>7, LenProperties
      <4> HIDE DEF first, lineEnds, shown, newLine
      <4>2. first \in 1..Len(rest)
        BY ONLY <3>1, <3>3
      <4> QED BY ONLY <4>1, <4>2
    <3>5. shown = SubSeq(rest, 1, first - 1)
      <4> HIDE DEF first, newLine
      <4> QED BY <2>1
    <3>6. rest # <<>>
      <4> HIDE DEF lineEnds, first, shown, newLine
      <4>1. PICK i \in lineEnds : i \in 1..Len(rest)
        BY ONLY <3>1
      <4>2. rest = <<>> => Len(rest) = 0
        OBVIOUS
      <4> QED BY ONLY <4>1, <4>2
    <3> HIDE DEF first, shown
    <3> QED BY <1>7, <3>4, <3>5, <3>6, UpToAPlace
  <2>2. CASE ~newLine
    BY <1>7, <2>2
  <2> QED BY <2>1, <2>2
<1>9. ~newLine => shown = rest
  OBVIOUS
<1>10. newLine => ~q.multiline
  OBVIOUS
<1>11. newLine \in BOOLEAN
  OBVIOUS
<1> DEFINE p == IF q.token /\ (newLine \/ rest # <<>>)
                THEN [q EXCEPT !.at = "canceled"]
                ELSE [q EXCEPT !.next = @ + 1, !.out = @ \o shown, !.typed = typed,
                               !.at = IF newLine THEN "end" ELSE "read"]
<1>12. /\ p \in RequestRecord
       /\ \/ p.at = "canceled" /\ SameText(q, p)
          \/ HasRead(q, chunk, p)
  <2>1. q.out \o shown \in Seq(Char)
    BY <1>2, <1>8, ConcatProperties
  <2>2. /\ rest = SubSeq(chunk, SkippedBy(chunk, q.typed) + 1, Len(chunk))
        /\ typed = SubSeq(q.typed, SkippedBy(chunk, q.typed) + 1, Len(q.typed))
    OBVIOUS
  <2> HIDE DEF newLine, shown, rest, typed, skip
  <2>3. CASE q.token /\ (newLine \/ rest # <<>>)
    BY <1>1, <2>3 DEF RequestRecord, SameText
  <2>4. CASE ~(q.token /\ (newLine \/ rest # <<>>))
    <3> DEFINE out == q.out \o shown
               at == IF newLine THEN "end" ELSE "read"
               e == [q EXCEPT !.next = @ + 1, !.out = out, !.typed = typed, !.at = at]
    <3>4. /\ p = [q EXCEPT !.next = @ + 1, !.out = out, !.typed = typed, !.at = at]
          /\ at \in {"end", "read"} /\ q.next + 1 \in Nat
      BY <1>2, <2>4
    <3>5. out \in Seq(Char)
      BY <2>1
    <3> HIDE DEF out, at, p
    <3>6. /\ e \in RequestRecord /\ e.prefix = q.prefix /\ e.multiline = q.multiline
          /\ e.generator = q.generator /\ e.next = q.next + 1 /\ e.typed = typed
          /\ e.out = out /\ e.at = at
      BY <1>1, <1>7, <3>4, <3>5 DEF RequestRecord
    <3>1. /\ e \in RequestRecord /\ e.prefix = q.prefix /\ e.multiline = q.multiline
          /\ e.generator = q.generator /\ e.next = q.next + 1 /\ e.typed = typed
          /\ e.out = q.out \o shown /\ e.at = IF newLine THEN "end" ELSE "read"
      BY <3>6 DEF out, at
    <3>2. p = e
      BY <3>4
    <3> HIDE DEF e
    <3>3. \/ e.at = "read" /\ shown = rest
          \/ e.at = "end" /\ ~q.multiline /\ IsPrefix(shown, rest) /\ rest # <<>>
      BY <1>8, <1>9, <1>10, <3>1
    <3> QED BY <1>8, <2>2, <3>1, <3>2, <3>3 DEF HasRead
  <2> QED BY <2>3, <2>4
<1>13. requests' = [requests EXCEPT ![r] = p]
  BY <1>5
<1> HIDE DEF p
<1> QED BY <1>1, <1>2, <1>3, <1>4, <1>5, <1>12, <1>13 DEF q, b, chunk

LEMMA ReadChunkTyping ==
    ASSUME StreamTyped, NEW r \in 1..Len(requests), ReadChunk(r)
    PROVE  StreamTyped'
<1> DEFINE q == requests[r]
           b == generators[q.generator].buffer
<1>1. /\ q.at = "read" /\ q.generator \in 1..Len(generators)
      /\ UNCHANGED <<timer, generators, currentGenerator, pendingCompletion>>
      /\ \E p \in RequestRecord :
            /\ requests' = [requests EXCEPT ![r] = p]
            /\ \/ p.at = "canceled" /\ SameText(q, p)
               \/ HasRead(q, b[q.next], p)
  BY ReadChunkEffect
<1>2. PICK p \in RequestRecord :
            /\ requests' = [requests EXCEPT ![r] = p]
            /\ \/ p.at = "canceled" /\ SameText(q, p)
               \/ HasRead(q, b[q.next], p)
  BY <1>1
<1>3. q \in RequestRecord /\ Placed(q, Len(generators))
  BY RequestIsRecord
<1> HIDE DEF q, b
<1>4. Placed(p, Len(generators))
  <2>1. CASE p.at = "canceled" /\ SameText(q, p)
    BY <1>1, <1>3, <2>1 DEF Placed, SameText
  <2>2. CASE HasRead(q, b[q.next], p)
    <3>1. /\ p.generator = q.generator /\ p.next = q.next + 1 /\ p.at \in {"read", "end"}
          /\ q.next \in Nat
      BY <1>3, <2>2 DEF HasRead, RequestRecord
    <3> QED BY <1>1, <1>3, <3>1 DEF Placed
  <2> QED BY <1>2, <2>1, <2>2
<1>5. /\ generators' \in Seq(GeneratorRecord) /\ Len(generators) <= Len(generators')
      /\ currentGenerator' \in 0..Len(generators') /\ pendingCompletion' \in Seq(Char)
      /\ Len(generators') = Len(generators) /\ timer' = timer
  BY <1>1, LenProperties DEF StreamTyped
<1>6. requests[r].at # "debounce"
  BY <1>1 DEF q
<1> QED BY <1>2, <1>4, <1>5, <1>6, OneRequestTyping

\* A request that is turned to something else where it is in its text.
LEMMA TurnedEffect ==
    ASSUME StreamTyped, NEW r \in 1..Len(requests),
           CancelToken(r) \/ ReachEnd(r) \/ FullStop(r)
    PROVE  /\ timer' = timer /\ currentGenerator' = currentGenerator
           /\ pendingCompletion' = pendingCompletion
           /\ KeepsText(generators, generators')
           /\ \E p \in RequestRecord :
                 /\ requests' = [requests EXCEPT ![r] = p]
                 /\ SameText(requests[r], p) /\ requests[r].at # "debounce"
                 /\ \/ p.at = requests[r].at
                    \/ requests[r].at = "read" /\ p.at \in {"end", "wait", "canceled"}
<1>1. requests[r] \in RequestRecord
  BY RequestIsRecord
<1>2. KeepsText(generators, generators)
  BY DEF KeepsText, StreamTyped
<1>3. CASE CancelToken(r)
  <2> DEFINE p == [requests[r] EXCEPT !.token = TRUE]
  <2>1. p \in RequestRecord /\ SameText(requests[r], p) /\ p.at = requests[r].at
    BY <1>1 DEF RequestRecord, SameText
  <2>2. requests' = [requests EXCEPT ![r] = p] /\ requests[r].at # "debounce"
    BY <1>3, LenProperties DEF CancelToken, StreamTyped
  <2> HIDE DEF p
  <2> QED BY <1>2, <1>3, <2>1, <2>2 DEF CancelToken
<1>4. CASE ReachEnd(r)
  <2> DEFINE at == IF generators[requests[r].generator].isEnded THEN "end" ELSE "wait"
             p == [requests[r] EXCEPT !.at = at]
  <2>1. at \in {"end", "wait"} /\ requests[r].at = "read"
    BY <1>4 DEF ReachEnd
  <2>2. requests' = [requests EXCEPT ![r] = p]
    BY <1>4, LenProperties DEF ReachEnd, StreamTyped
  <2> HIDE DEF at
  <2>3. p \in RequestRecord /\ SameText(requests[r], p) /\ p.at = at
    BY <1>1, <2>1 DEF RequestRecord, SameText
  <2> HIDE DEF p
  <2> QED BY <1>2, <1>4, <2>1, <2>2, <2>3 DEF ReachEnd
<1>5. CASE FullStop(r)
  <2> DEFINE p == [requests[r] EXCEPT !.at = "canceled"]
  <2>1. requests[r].at = "read" /\ generators' = Canceled(generators, currentGenerator)
        /\ UNCHANGED <<timer, currentGenerator, pendingCompletion>>
    BY <1>5 DEF FullStop
  <2>2. p \in RequestRecord /\ SameText(requests[r], p) /\ p.at = "canceled"
    BY <1>1, <2>1 DEF RequestRecord, SameText
  <2>3. requests' = [requests EXCEPT ![r] = p]
    BY <1>5, LenProperties DEF FullStop, StreamTyped
  <2>4. KeepsText(generators, Canceled(generators, currentGenerator))
    BY CanceledKeeps DEF StreamTyped
  <2> HIDE DEF p
  <2> QED BY <2>1, <2>2, <2>3, <2>4
<1> QED BY <1>3, <1>4, <1>5

LEMMA TurnedTyping ==
    ASSUME StreamTyped, NEW r \in 1..Len(requests),
           CancelToken(r) \/ ReachEnd(r) \/ FullStop(r)
    PROVE  StreamTyped'
<1>1. /\ timer' = timer /\ currentGenerator' = currentGenerator
      /\ pendingCompletion' = pendingCompletion
      /\ KeepsText(generators, generators')
      /\ \E p \in RequestRecord :
            /\ requests' = [requests EXCEPT ![r] = p]
            /\ SameText(requests[r], p) /\ requests[r].at # "debounce"
            /\ \/ p.at = requests[r].at
               \/ requests[r].at = "read" /\ p.at \in {"end", "wait", "canceled"}
  BY TurnedEffect
<1>2. PICK p \in RequestRecord :
            /\ requests' = [requests EXCEPT ![r] = p]
            /\ SameText(requests[r], p) /\ requests[r].at # "debounce"
            /\ \/ p.at = requests[r].at
               \/ requests[r].at = "read" /\ p.at \in {"end", "wait", "canceled"}
  BY <1>1
<1>3. Len(generators') = Len(generators) /\ generators' \in Seq(GeneratorRecord)
      /\ Len(generators) \in Nat
  BY <1>1, LenProperties DEF KeepsText, StreamTyped
<1>4. Placed(p, Len(generators'))
  BY <1>2, <1>3, RequestIsRecord DEF Placed, SameText
<1>5. /\ Len(generators) <= Len(generators')
      /\ currentGenerator' \in 0..Len(generators') /\ pendingCompletion' \in Seq(Char)
  BY <1>1, <1>3 DEF StreamTyped
<1> QED BY <1>1, <1>2, <1>3, <1>4, <1>5, OneRequestTyping

LEMMA StreamTypedInit == ASSUME StreamInit PROVE StreamTyped
<1>1. /\ requests \in Seq(RequestRecord) /\ generators \in Seq(GeneratorRecord)
      /\ pendingCompletion \in Seq(Char) /\ Len(requests) = 0 /\ Len(generators) = 0
  BY EmptySeq DEF StreamInit
<1> QED BY <1>1 DEF StreamInit, StreamTyped

\* The steps, and what each keeps.
StreamSteps ==
    \/ \E prefix \in Typings, multiline \in BOOLEAN : Request(prefix, multiline)
    \/ Debounced
    \/ \E r \in 1..Len(requests) :
          \/ GetGenerator(r) \/ ReadChunk(r)
          \/ CancelToken(r) \/ ReachEnd(r) \/ FullStop(r)
    \/ \E g \in 1..Len(generators) :
          SourceEnds(g) \/ \E chunk \in Seq(Char) : Yield(g, chunk)

LEMMA StepIsOne == ASSUME StreamTyped, StreamNext PROVE StreamSteps
<1>1. DOMAIN requests = 1..Len(requests) /\ DOMAIN generators = 1..Len(generators)
  BY LenProperties DEF StreamTyped
<1> QED BY <1>1, ChunksAreTexts DEF StreamNext, StreamSteps

LEMMA StreamTypedStep ==
    ASSUME StreamTyped, [StreamNext]_streamVars
    PROVE  StreamTyped'
<1>1. CASE StreamNext
  <2>1. StreamSteps
    BY <1>1, StepIsOne
  <2> QED BY <2>1, RequestTyping, DebouncedTyping, GetGeneratorTyping, ReadChunkTyping,
             TurnedTyping, SourceEndsTyping, YieldTyping DEF StreamSteps
<1>2. CASE UNCHANGED streamVars
  BY <1>2 DEF streamVars, StreamTyped
<1> QED BY <1>1, <1>2

\* The types of the requests, of their generators, and of the timer's target.
THEOREM StreamTyping == StreamSpec => []StreamTypeOK
<1>1. StreamInit => StreamTyped
  BY StreamTypedInit
<1>2. StreamTyped /\ [StreamNext]_streamVars => StreamTyped'
  BY StreamTypedStep
<1>3. StreamTyped => StreamTypeOK
  BY StreamTypedIsTypeOK
<1> QED BY <1>1, <1>2, <1>3, PTL DEF StreamSpec

----------------------------------------------------------------------------
(* The reuse manager                                                        *)

\* Only the current generator may still tell anything, and the manager has all
\* that it told.
ManagerInv ==
    /\ currentGenerator # 0 =>
          pendingCompletion = FlattenSeq(generators[currentGenerator].buffer)
    /\ \A g \in 1..Len(generators) : g # currentGenerator => generators[g].isEnded

LEMMA ManagerKept ==
    ASSUME StreamTyped, ManagerInv, KeepsText(generators, generators'),
           currentGenerator' = currentGenerator, pendingCompletion' = pendingCompletion
    PROVE  ManagerInv'
<1>1. Len(generators) \in Nat /\ currentGenerator \in 0..Len(generators)
  BY LenProperties DEF StreamTyped
<1> QED BY <1>1 DEF ManagerInv, KeepsText

LEMMA ManagerGets ==
    ASSUME StreamTyped, ManagerInv, NEW r \in 1..Len(requests), GetGenerator(r)
    PROVE  ManagerInv'
<1>1. PICK p \in RequestRecord :
          \/ UNCHANGED <<generators, currentGenerator, pendingCompletion>>
          \/ /\ currentGenerator' = Len(generators) + 1 /\ pendingCompletion' = <<>>
             /\ generators' = Append(Canceled(generators, currentGenerator),
                          [prefix |-> p.prefix, buffer |-> <<>>, isEnded |-> FALSE,
                           aborted |-> FALSE, done |-> FALSE])
  BY GetGeneratorEffect
<1>2. CASE UNCHANGED <<generators, currentGenerator, pendingCompletion>>
  BY <1>2 DEF ManagerInv
<1>3. CASE /\ currentGenerator' = Len(generators) + 1 /\ pendingCompletion' = <<>>
           /\ generators' = Append(Canceled(generators, currentGenerator),
                          [prefix |-> p.prefix, buffer |-> <<>>, isEnded |-> FALSE,
                           aborted |-> FALSE, done |-> FALSE])
  <2> DEFINE e == [prefix |-> p.prefix, buffer |-> <<>>, isEnded |-> FALSE,
                   aborted |-> FALSE, done |-> FALSE]
             c == Canceled(generators, currentGenerator)
             n == Len(generators)
  <2>1. e \in GeneratorRecord /\ e.buffer = <<>>
    <3>1. p.prefix \in Seq(Char) /\ <<>> \in Seq(Seq(Char))
      BY EmptySeq DEF RequestRecord
    <3> QED BY <3>1 DEF GeneratorRecord
  <2>2. /\ KeepsText(generators, c) /\ n \in Nat /\ currentGenerator \in 0..n
        /\ currentGenerator # 0 => c[currentGenerator].isEnded
    BY CanceledKeeps, LenProperties DEF StreamTyped
  <2>3. /\ currentGenerator' = n + 1 /\ pendingCompletion' = <<>>
        /\ generators' = Append(c, e)
    BY <1>3
  <2> HIDE DEF e, c
  <2>4. /\ Len(generators') = n + 1 /\ generators'[n + 1] = e
        /\ \A g \in 1..n : generators'[g] = c[g]
    <3>1. c \in Seq(GeneratorRecord) /\ Len(c) = n
      BY <2>2 DEF KeepsText
    <3> QED BY <2>1, <2>3, <3>1, AppendProperties
  <2>5. ASSUME NEW g \in 1..n PROVE generators'[g].isEnded
    BY <2>2, <2>4 DEF ManagerInv, KeepsText
  <2>6. FlattenSeq(generators'[currentGenerator'].buffer) = <<>>
    <3>1. <<>> \in Seq(Seq(Char)) /\ Len(<<>>) = 0
      BY EmptySeq
    <3>2. FlattenSeq(<<>>) = <<>>
      BY <3>1, FlattenTyping
    <3> QED BY <2>1, <2>3, <2>4, <3>2
  <2>7. \A g \in 1..Len(generators') : g # currentGenerator' => generators'[g].isEnded
    BY <2>2, <2>3, <2>4, <2>5
  <2> QED BY <2>3, <2>6, <2>7 DEF ManagerInv
<1> QED BY <1>1, <1>2, <1>3

LEMMA ManagerHears ==
    ASSUME StreamTyped, ManagerInv,
           NEW g \in 1..Len(generators), NEW chunk \in Seq(Char), Yield(g, chunk)
    PROVE  ManagerInv'
<1>1. currentGenerator' = currentGenerator
  BY DEF Yield
<1>2. CASE KeepsText(generators, generators') /\ pendingCompletion' = pendingCompletion
  BY <1>1, <1>2, ManagerKept
<1>3. ASSUME ~generators[g].isEnded, pendingCompletion' = pendingCompletion \o chunk,
             NEW e \in GeneratorRecord, generators' = [generators EXCEPT ![g] = e],
             e.buffer = Append(generators[g].buffer, chunk)
      PROVE  ManagerInv'
  <2>1. g = currentGenerator
    BY <1>3 DEF ManagerInv
  <2>2. /\ Len(generators') = Len(generators)
        /\ \A i \in 1..Len(generators) :
              generators'[i] = IF i = g THEN e ELSE generators[i]
    BY <1>3, ExceptSeq DEF StreamTyped
  <2>3. generators[g].buffer \in Seq(Seq(Char))
    BY GeneratorIsRecord
  <2>4. FlattenSeq(e.buffer) = FlattenSeq(generators[g].buffer) \o chunk
    BY <1>3, <2>3, FlattenAppend
  <2>5. pendingCompletion = FlattenSeq(generators[g].buffer)
    BY <2>1 DEF ManagerInv
  <2>6. pendingCompletion' = FlattenSeq(generators'[currentGenerator'].buffer)
    BY ONLY <1>1, <1>3, <2>1, <2>2, <2>4, <2>5, ZenonT(60)
  <2>7. \A i \in 1..Len(generators') : i # currentGenerator' => generators'[i].isEnded
    BY <1>1, <2>1, <2>2 DEF ManagerInv
  <2> QED BY <2>6, <2>7 DEF ManagerInv
<1> QED BY <1>2, <1>3, YieldEffect, ZenonT(60)

LEMMA ManagerStep ==
    ASSUME StreamTyped, ManagerInv, [StreamNext]_streamVars
    PROVE  ManagerInv'
<1>1. KeepsText(generators, generators)
  BY DEF KeepsText, StreamTyped
<1>2. CASE UNCHANGED <<generators, currentGenerator, pendingCompletion>>
  BY <1>2 DEF ManagerInv
<1>3. CASE UNCHANGED streamVars
  BY <1>2, <1>3 DEF streamVars
<1>4. CASE StreamNext
  <2>1. StreamSteps
    BY <1>4, StepIsOne
  <2>2. CASE \E prefix \in Typings, multiline \in BOOLEAN : Request(prefix, multiline)
    BY <1>2, <2>2 DEF Request
  <2>3. CASE Debounced
    BY <1>2, <2>3 DEF Debounced
  <2>4. ASSUME NEW r \in 1..Len(requests), ReadChunk(r) PROVE ManagerInv'
    BY <1>2, <2>4 DEF ReadChunk
  <2>5. ASSUME NEW r \in 1..Len(requests), CancelToken(r) \/ ReachEnd(r) \/ FullStop(r)
        PROVE  ManagerInv'
    BY <2>5, TurnedEffect, ManagerKept
  <2>6. ASSUME NEW g \in 1..Len(generators), SourceEnds(g) PROVE ManagerInv'
    <3>1. currentGenerator' = currentGenerator /\ pendingCompletion' = pendingCompletion
      BY <2>6 DEF SourceEnds
    <3> QED BY <2>6, <3>1, SourceEndsEffect, ManagerKept
  <2> QED BY <2>1, <2>2, <2>3, <2>4, <2>5, <2>6, ManagerGets, ManagerHears DEF StreamSteps
<1> QED BY <1>3, <1>4

LEMMA ManagerInit == ASSUME StreamInit PROVE ManagerInv
<1>1. Len(generators) = 0
  BY EmptySeq DEF StreamInit
<1> QED BY <1>1 DEF StreamInit, ManagerInv

\* The reuse manager decides by what its current generator has generated: no
\* value of a generator that was replaced gets in between
\* (GeneratorReuseManager.ts:23).
THEOREM ManagerIsCurrent == StreamSpec => []PendingIsCurrent
<1>1. StreamInit => StreamTyped /\ ManagerInv
  BY StreamTypedInit, ManagerInit
<1>2. StreamTyped /\ ManagerInv /\ [StreamNext]_streamVars => StreamTyped' /\ ManagerInv'
  BY StreamTypedStep, ManagerStep
<1>3. ManagerInv => PendingIsCurrent
  BY DEF ManagerInv, PendingIsCurrent, Generated
<1> QED BY <1>1, <1>2, <1>3, PTL DEF StreamSpec

----------------------------------------------------------------------------
(* The readers                                                              *)

LEMMA Extend ==
    ASSUME NEW S, NEW a \in Seq(S), NEW b \in Seq(S)
    PROVE  Extends(S, a, b)
BY PrefixGoesOn DEF Extends

\* What a reader has seen, with what was typed ahead of it, is what it had typed
\* when it joined with what it is shown.
InStep(prefix, out, seen, typed) ==
    seen \o typed = prefix \o out /\ (typed # <<>> => out = <<>>)

\* The prefix p and the chunk c after s go on to the same text.
Meets(p, u, s, c, v) == p \o u = (s \o c) \o v

ReadWith(S, s, c, typed, p, out) ==
    LET k == SkippedBy(c, typed)
        rest == SubSeq(c, k + 1, Len(c))
        left == SubSeq(typed, k + 1, Len(typed))
    IN  rest \in Seq(S) /\ left \in Seq(S) /\ InStep(p, out \o rest, s \o c, left)

\* A reader that has seen s of the text, and typed of what follows already, takes
\* the chunk c, which goes on as its prefix p did when it joined.
LEMMA ReadsMore ==
    ASSUME NEW S, NEW s \in Seq(S), NEW c \in Seq(S), NEW typed \in Seq(S),
           NEW p \in Seq(S), NEW out \in Seq(S), NEW u \in Seq(S), NEW v \in Seq(S),
           InStep(p, out, s, typed), Meets(p, u, s, c, v)
    PROVE  ReadWith(S, s, c, typed, p, out)
<1> DEFINE k == SkippedBy(c, typed)
           rest == SubSeq(c, k + 1, Len(c))
           left == SubSeq(typed, k + 1, Len(typed))
<1> SUFFICES /\ rest \in Seq(S) /\ left \in Seq(S)
             /\ (s \o c) \o left = p \o (out \o rest)
             /\ left # <<>> => out \o rest = <<>>
  BY DEF ReadWith, InStep
<1>0. /\ s \o typed = p \o out /\ (typed # <<>> => out = <<>>)
      /\ p \o u = (s \o c) \o v
  BY DEF InStep, Meets
<1>1. Len(c) \in Nat /\ Len(typed) \in Nat
  BY LenProperties
<1>2. /\ k \in 0..Len(c) /\ k <= Len(typed) /\ SubSeq(c, 1, k) = SubSeq(typed, 1, k)
      /\ \A m \in 0..Len(c) : Repeats(c, typed, m) => m <= k
  BY SkippedProperties DEF Repeats
<1> HIDE DEF k
<1>s. s \in Seq(S)
  OBVIOUS
<1>c. c \in Seq(S)
  OBVIOUS
<1>t. typed \in Seq(S)
  OBVIOUS
<1>p. p \in Seq(S)
  OBVIOUS
<1>u. u \in Seq(S)
  OBVIOUS
<1>v. v \in Seq(S)
  OBVIOUS
<1>3. /\ rest \in Seq(S) /\ c = SubSeq(c, 1, k) \o rest
      /\ left \in Seq(S) /\ typed = SubSeq(typed, 1, k) \o left
  <2>1. rest \in Seq(S) /\ c = SubSeq(c, 1, k) \o rest
    BY ONLY <1>c, <1>2, FromAPlace
  <2>2. k \in 0..Len(typed)
    BY <1>1, <1>2
  <2>3. left \in Seq(S) /\ typed = SubSeq(typed, 1, k) \o left
    BY ONLY <1>t, <2>2, FromAPlace
  <2> QED BY <2>1, <2>3
<1>4. CASE typed = <<>>
  <2>1. k = 0
    <3>1. Len(typed) = 0
      BY <1>4, EmptySeq
    <3> QED BY <1>2, <3>1
  <2>2. rest = c
    BY <2>1, SubSeqFull
  <2>3. left = <<>>
    <3>1. Len(typed) < k + 1 /\ k + 1 \in Int /\ Len(typed) \in Int
      BY <1>1, <1>2, <1>4, <2>1, EmptySeq
    <3> QED BY <3>1, SubSeqEmpty
  <2> HIDE DEF rest, left
  <2>4. s = p \o out
    <3>1. s \o <<>> = s
      BY ConcatEmptySeq
    <3> QED BY <1>0, <1>4, <3>1
  <2>5. (p \o out) \o c = p \o (out \o c) /\ s \o c \in Seq(S)
    <3>1. out \in Seq(S)
      OBVIOUS
    <3>2. (p \o out) \o c = p \o (out \o c)
      <4>1. Regroups(S, p, out, c)
        BY ONLY <1>p, <1>c, <3>1, Regroup
      <4> QED BY ONLY <4>1 DEF Regroups
    <3>3. s \o c \in Seq(S)
      BY ONLY <1>s, <1>c, ConcatProperties
    <3> QED BY <3>2, <3>3
  <2>6. (s \o c) \o <<>> = s \o c
    BY <2>5, ConcatEmptySeq
  <2>7. (s \o c) \o left = p \o (out \o rest)
    BY <2>2, <2>3, <2>4, <2>5, <2>6
  <2> QED BY <1>3, <2>3, <2>7 DEF rest, left, k
<1>5. CASE typed # <<>>
  <2>1. out = <<>> /\ p = s \o typed
    <3>1. p \o <<>> = p
      BY ConcatEmptySeq
    <3> QED BY <1>0, <1>5, <3>1
  <2>2. typed \o u = c \o v
    <3>1. (s \o typed) \o u = s \o (typed \o u) /\ typed \o u \in Seq(S)
      <4>1. Regroups(S, s, typed, u)
        BY ONLY <1>s, <1>t, <1>u, Regroup
      <4> QED BY ONLY <4>1 DEF Regroups
    <3>2. (s \o c) \o v = s \o (c \o v) /\ c \o v \in Seq(S)
      <4>1. Regroups(S, s, c, v)
        BY ONLY <1>s, <1>c, <1>v, Regroup
      <4> QED BY ONLY <4>1 DEF Regroups
    <3>3. s \o (typed \o u) = s \o (c \o v)
      BY <1>0, <2>1, <3>1, <3>2
    <3> QED BY <3>1, <3>2, <3>3, ConcatSimplifications
  <2>3. <<>> \o rest = rest
    BY <1>3, ConcatEmptySeq
  <2>4. CASE Len(typed) <= Len(c)
    <3>1. IsPrefix(typed, c)
      <4>1. \E w \in Seq(S) : c = typed \o w /\ u = w \o v
        <5>1. Comparable(S, typed, u, c, v)
          BY ONLY <1>t, <1>u, <1>c, <1>v, PrefixesCompare
        <5> QED BY ONLY <2>2, <2>4, <5>1 DEF Comparable
      <4>2. IsPrefix(typed, c) <=> \E w \in Seq(S) : c = typed \o w
        BY ONLY <1>t, <1>c, PrefixGoesOn
      <4> QED BY <4>1, <4>2
    <3>2. Repeats(c, typed, Len(typed))
      BY <1>1, <2>4, <3>1 DEF IsPrefix, Repeats
    <3>3. k = Len(typed)
      <4>1. Len(typed) \in 0..Len(c)
        BY <1>1, <2>4
      <4>2. Len(typed) <= k
        BY <1>2, <3>2, <4>1
      <4> QED BY <1>1, <1>2, <4>2
    <3>4. left = <<>>
      <4>1. Len(typed) < k + 1 /\ k + 1 \in Int /\ Len(typed) \in Int
        BY <1>1, <3>3
      <4> QED BY <4>1, SubSeqEmpty
    <3>5. SubSeq(c, 1, k) = typed
      BY <1>2, <3>3, SubSeqFull
    <3> HIDE DEF rest, left
    <3>6. c = typed \o rest
      BY <1>3, <3>5
    <3>7. (s \o typed) \o rest = s \o (typed \o rest) /\ s \o c \in Seq(S)
      <4>1. rest \in Seq(S)
        BY <1>3 DEF rest
      <4>2. (s \o typed) \o rest = s \o (typed \o rest)
        <5>1. Regroups(S, s, typed, rest)
          BY ONLY <1>s, <1>t, <4>1, Regroup
        <5> QED BY ONLY <5>1 DEF Regroups
      <4>3. s \o c \in Seq(S)
        BY ONLY <1>s, <1>c, ConcatProperties
      <4> QED BY <4>2, <4>3
    <3>8. (s \o c) \o <<>> = s \o c
      BY <3>7, ConcatEmptySeq
    <3>9. (s \o c) \o left = p \o (out \o rest)
      BY <2>1, <2>3, <3>4, <3>6, <3>7, <3>8
    <3> QED BY <1>3, <3>4, <3>9 DEF rest, left, k
  <2>5. CASE Len(c) <= Len(typed)
    <3>1. IsPrefix(c, typed)
      <4>1. \E w \in Seq(S) : typed = c \o w /\ v = w \o u
        <5>1. Comparable(S, c, v, typed, u)
          BY ONLY <1>t, <1>u, <1>c, <1>v, PrefixesCompare
        <5> QED BY ONLY <2>2, <2>5, <5>1 DEF Comparable
      <4>2. IsPrefix(c, typed) <=> \E w \in Seq(S) : typed = c \o w
        BY ONLY <1>t, <1>c, PrefixGoesOn
      <4> QED BY <4>1, <4>2
    <3>2. Repeats(c, typed, Len(c))
      BY <1>1, <2>5, <3>1 DEF IsPrefix, Repeats
    <3>3. k = Len(c)
      <4>1. Len(c) \in 0..Len(c)
        BY <1>1
      <4>2. Len(c) <= k
        BY <1>2, <3>2, <4>1
      <4> QED BY <1>1, <1>2, <4>2
    <3>4. rest = <<>>
      <4>1. Len(c) < k + 1 /\ k + 1 \in Int /\ Len(c) \in Int
        BY <1>1, <3>3
      <4> QED BY <4>1, SubSeqEmpty
    <3>5. SubSeq(typed, 1, k) = c
      BY <1>2, <3>3, SubSeqFull
    <3> HIDE DEF rest, left
    <3>6. typed = c \o left
      BY <1>3, <3>5
    <3>7. (s \o c) \o left = s \o (c \o left)
      <4>1. left \in Seq(S)
        BY <1>3 DEF left
      <4>2. Regroups(S, s, c, left)
        BY ONLY <1>s, <1>c, <4>1, Regroup
      <4> QED BY ONLY <4>2 DEF Regroups
    <3>8. p \o <<>> = p
      BY ConcatEmptySeq
    <3>9. (s \o c) \o left = p \o (out \o rest) /\ out \o rest = <<>>
      BY <2>1, <2>3, <3>4, <3>6, <3>7, <3>8
    <3> QED BY <1>3, <3>9 DEF rest, left, k
  <2>6. Len(typed) <= Len(c) \/ Len(c) <= Len(typed)
    BY ONLY <1>1
  <2> QED BY <2>4, <2>5, <2>6, Zenon
<1> QED BY <1>4, <1>5

\* What a generator has said, and what of it is in the chunks q has read.
Text(g) == g.prefix \o FlattenSeq(g.buffer)
Seen(q, g) == g.prefix \o FlattenSeq(SubSeq(g.buffer, 1, q.next - 1))

\* q reads g.
Follows(q, g) ==
    /\ q.next \in 1..(Len(g.buffer) + 1)
    /\ IsPrefix(q.prefix, Text(g))
    /\ \/ InStep(q.prefix, q.out, Seen(q, g), q.typed)
       \/ q.at = "end" /\ ~q.multiline /\ IsPrefix(q.prefix \o q.out, Seen(q, g))

LEMMA RequestTexts ==
    ASSUME NEW q \in RequestRecord
    PROVE  q.prefix \in Seq(Char) /\ q.typed \in Seq(Char) /\ q.out \in Seq(Char) /\ q.next \in Nat
BY DEF RequestRecord

LEMMA GeneratorTexts ==
    ASSUME NEW g \in GeneratorRecord
    PROVE  /\ g.prefix \in Seq(Char) /\ g.buffer \in Seq(Seq(Char)) /\ Len(g.buffer) \in Nat
           /\ FlattenSeq(g.buffer) \in Seq(Char) /\ Text(g) \in Seq(Char)
<1>1. g.prefix \in Seq(Char) /\ g.buffer \in Seq(Seq(Char))
  BY DEF GeneratorRecord
<1>2. FlattenSeq(g.buffer) \in Seq(Char) /\ Len(g.buffer) \in Nat
  BY <1>1, FlattenTyping, LenProperties
<1> QED BY <1>1, <1>2, ConcatProperties DEF Text

LEMMA SeenTyping ==
    ASSUME NEW q \in RequestRecord, NEW g \in GeneratorRecord,
           q.next \in 1..(Len(g.buffer) + 1)
    PROVE  /\ SubSeq(g.buffer, 1, q.next - 1) \in Seq(Seq(Char))
           /\ FlattenSeq(SubSeq(g.buffer, 1, q.next - 1)) \in Seq(Char)
           /\ Seen(q, g) \in Seq(Char)
<1> DEFINE n == q.next - 1
<1>1. g.prefix \in Seq(Char) /\ g.buffer \in Seq(Seq(Char)) /\ n \in 0..Len(g.buffer)
  BY GeneratorTexts
<1> HIDE DEF n
<1>2. SubSeq(g.buffer, 1, n) \in Seq(Seq(Char))
  BY <1>1, UpToAPlace
<1>3. FlattenSeq(SubSeq(g.buffer, 1, n)) \in Seq(Char)
  BY <1>2, FlattenTyping
<1>4. g.prefix \o FlattenSeq(SubSeq(g.buffer, 1, n)) \in Seq(Char)
  BY <1>1, <1>3, ConcatProperties
<1> QED BY <1>2, <1>3, <1>4 DEF n, Seen

\* The next chunk goes on where the reader is, and the text goes on after it.
LEMMA SeenGoesOn ==
    ASSUME NEW q \in RequestRecord, NEW g \in GeneratorRecord, q.next \in 1..Len(g.buffer)
    PROVE  LET c == g.buffer[q.next]
           IN  /\ c \in Seq(Char)
               /\ g.prefix \o FlattenSeq(SubSeq(g.buffer, 1, q.next)) = Seen(q, g) \o c
               /\ \E v \in Seq(Char) : Text(g) = (Seen(q, g) \o c) \o v
<1> DEFINE b == g.buffer
           n == q.next
           c == b[n]
           f == FlattenSeq(SubSeq(b, 1, n - 1))
           h == FlattenSeq(SubSeq(b, 1, n))
           x == g.prefix
<1>1. x \in Seq(Char) /\ b \in Seq(Seq(Char)) /\ n \in 1..Len(b) /\ Len(b) \in Nat
  BY GeneratorTexts
<1>2. c \in Seq(Char)
  BY <1>1, ElementOfSeq
<1>3. f \in Seq(Char) /\ h = f \o c
  <2>1. SubSeq(b, 1, n - 1) \in Seq(Seq(Char)) /\ h = f \o c
    BY <1>1, FlattenNext
  <2> QED BY <2>1, FlattenTyping
<1>4. PICK v \in Seq(Char) : FlattenSeq(b) = h \o v
  <2>1. n \in 0..Len(b)
    BY <1>1
  <2> QED BY <1>1, <2>1, FlattenGoesOn
<1>5. Seen(q, g) = x \o f /\ Text(g) = x \o FlattenSeq(b)
  BY DEF Seen, Text
<1> HIDE DEF b, n, c, f, h, x
<1>6. x \o h = (x \o f) \o c
  <2>1. Regroups(Char, x, f, c)
    BY ONLY <1>1, <1>2, <1>3, Regroup
  <2> QED BY ONLY <1>3, <2>1 DEF Regroups
<1>7. x \o (h \o v) = (x \o h) \o v
  <2>1. h \in Seq(Char)
    BY ONLY <1>2, <1>3, ConcatProperties
  <2>2. v \in Seq(Char)
    OBVIOUS
  <2>3. Regroups(Char, x, h, v)
    BY ONLY <1>1, <2>1, <2>2, Regroup
  <2> QED BY ONLY <2>3 DEF Regroups
<1>8. Text(g) = (Seen(q, g) \o c) \o v /\ x \o h = Seen(q, g) \o c
  BY ONLY <1>4, <1>5, <1>6, <1>7
<1> QED BY <1>2, <1>8 DEF b, n, c, h, x

LEMMA ReadsOn ==
    ASSUME NEW q \in RequestRecord, NEW g \in GeneratorRecord, NEW p \in RequestRecord,
           Follows(q, g), q.at = "read", q.next \in 1..Len(g.buffer),
           HasRead(q, g.buffer[q.next], p)
    PROVE  Follows(p, g)
<1> DEFINE c == g.buffer[q.next]
           s == Seen(q, g)
           k == SkippedBy(c, q.typed)
           rest == SubSeq(c, k + 1, Len(c))
           left == SubSeq(q.typed, k + 1, Len(q.typed))
           prefix == q.prefix
           out == q.out
           typed == q.typed
<1>1. Len(g.buffer) \in Nat /\ Text(g) \in Seq(Char)
  BY GeneratorTexts
<1>2. prefix \in Seq(Char) /\ typed \in Seq(Char) /\ out \in Seq(Char)
  BY RequestTexts
<1>3. s \in Seq(Char)
  <2>1. q.next \in 1..(Len(g.buffer) + 1)
    BY DEF Follows
  <2> QED BY <2>1, SeenTyping
<1>4. c \in Seq(Char) /\ \E v \in Seq(Char) : Text(g) = (s \o c) \o v
  BY SeenGoesOn
<1>5. g.prefix \o FlattenSeq(SubSeq(g.buffer, 1, q.next)) = s \o c
  BY SeenGoesOn
<1>6. PICK v \in Seq(Char) : Text(g) = (s \o c) \o v
  BY <1>4
<1>7. PICK u \in Seq(Char) : Text(g) = prefix \o u
  <2>1. IsPrefix(prefix, Text(g))
    BY DEF Follows
  <2> HIDE DEF prefix
  <2> QED BY ONLY <1>1, <1>2, <2>1, PrefixGoesOn
<1>8. InStep(prefix, out, s, typed)
  BY DEF Follows
<1>9. /\ p.prefix = prefix /\ p.multiline = q.multiline /\ p.next = q.next + 1
      /\ p.typed = left
      /\ \E shown \in Seq(Char) :
              /\ p.out = out \o shown
              /\ \/ p.at = "read" /\ shown = rest
                 \/ p.at = "end" /\ ~q.multiline /\ IsPrefix(shown, rest) /\ rest # <<>>
  BY DEF HasRead
<1>10. p.next \in 1..(Len(g.buffer) + 1) /\ p.next - 1 = q.next
  <2>1. p.next = q.next + 1
    BY ONLY <1>9
  <2>2. q.next \in 1..Len(g.buffer) /\ Len(g.buffer) \in Nat
    BY <1>1
  <2> QED BY ONLY <2>1, <2>2
<1>11. Seen(p, g) = s \o c
  <2>1. p.next - 1 = q.next
    BY ONLY <1>10
  <2>2. Seen(p, g) = g.prefix \o FlattenSeq(SubSeq(g.buffer, 1, p.next - 1))
    BY ONLY DEF Seen
  <2> HIDE DEF c, s
  <2> QED BY ONLY <1>5, <2>1, <2>2
<1>12. IsPrefix(p.prefix, Text(g))
  BY <1>9 DEF Follows
<1> HIDE DEF c, s, prefix, out, typed
<1>13. /\ rest \in Seq(Char) /\ left \in Seq(Char)
       /\ InStep(prefix, out \o rest, s \o c, left)
  <2>1. u \in Seq(Char) /\ v \in Seq(Char)
    OBVIOUS
  <2>2. Meets(prefix, u, s, c, v)
    BY ONLY <1>6, <1>7 DEF Meets
  <2>3. ReadWith(Char, s, c, typed, prefix, out)
    BY ONLY <1>2, <1>3, <1>4, <1>8, <2>1, <2>2, ReadsMore
  <2> QED BY <2>3 DEF ReadWith, typed
<1> HIDE DEF k, rest, left
<1>14. PICK shown \in Seq(Char) :
              /\ p.out = out \o shown
              /\ \/ p.at = "read" /\ shown = rest
                 \/ p.at = "end" /\ ~q.multiline /\ IsPrefix(shown, rest) /\ rest # <<>>
  BY <1>9
<1>15. CASE p.at = "read" /\ shown = rest
  <2>1. InStep(p.prefix, p.out, Seen(p, g), p.typed)
    BY ONLY <1>9, <1>11, <1>13, <1>14, <1>15
  <2> QED BY <1>10, <1>12, <2>1 DEF Follows
<1>16. CASE p.at = "end" /\ ~q.multiline /\ IsPrefix(shown, rest) /\ rest # <<>>
  <2>1. left = <<>>
    <3>1. out \o rest = <<>> => rest = <<>>
      BY ONLY <1>2, <1>13, ConcatSimplifications
    <3> QED BY ONLY <1>13, <1>16, <3>1 DEF InStep
  <2>2. s \o c \in Seq(Char) /\ out \o shown \in Seq(Char)
    <3>1. s \o c \in Seq(Char)
      BY ONLY <1>3, <1>4, ConcatProperties
    <3>2. shown \in Seq(Char)
      OBVIOUS
    <3>3. out \o shown \in Seq(Char)
      BY ONLY <1>2, <3>2, ConcatProperties
    <3> QED BY <3>1, <3>3
  <2>3. s \o c = prefix \o (out \o rest)
    <3>1. (s \o c) \o <<>> = s \o c
      BY ONLY <2>2, ConcatEmptySeq
    <3> QED BY ONLY <1>13, <2>1, <3>1 DEF InStep
  <2>4. PICK w \in Seq(Char) : rest = shown \o w
    <3>1. shown \in Seq(Char)
      OBVIOUS
    <3>2. rest \in Seq(Char)
      BY <1>13
    <3>3. Extends(Char, shown, rest)
      BY ONLY <3>1, <3>2, Extend
    <3> QED BY ONLY <1>16, <3>3 DEF Extends
  <2>5. s \o c = (prefix \o (out \o shown)) \o w
    <3>1. Regroups(Char, out, shown, w)
      <4>1. shown \in Seq(Char) /\ w \in Seq(Char)
        OBVIOUS
      <4> QED BY ONLY <1>2, <4>1, Regroup
    <3>2. Regroups(Char, prefix, out \o shown, w)
      <4>1. w \in Seq(Char)
        OBVIOUS
      <4> QED BY ONLY <1>2, <2>2, <4>1, Regroup
    <3> QED BY ONLY <2>3, <2>4, <3>1, <3>2 DEF Regroups
  <2>6. IsPrefix(prefix \o (out \o shown), s \o c)
    <3>1. prefix \o (out \o shown) \in Seq(Char)
      BY ONLY <1>2, <2>2, ConcatProperties
    <3>2. w \in Seq(Char)
      OBVIOUS
    <3> DEFINE t == prefix \o (out \o shown)
               z == s \o c
    <3>3. z = t \o w /\ t \in Seq(Char) /\ z \in Seq(Char)
      BY <2>2, <2>5, <3>1
    <3> HIDE DEF t, z
    <3>4. IsPrefix(t, z)
      BY ONLY <3>2, <3>3, PrefixGoesOn
    <3> QED BY <3>4 DEF t, z
  <2>7. IsPrefix(p.prefix \o p.out, Seen(p, g))
    BY ONLY <1>9, <1>11, <1>14, <2>6
  <2> QED BY <1>9, <1>10, <1>12, <1>16, <2>7 DEF Follows
<1> QED BY <1>14, <1>15, <1>16

\* h is g, or g with one chunk more.
GoesOn(g, h) ==
    /\ h.prefix = g.prefix
    /\ h.buffer = g.buffer \/ \E c \in Seq(Char) : h.buffer = Append(g.buffer, c)

LEMMA TextGoesOn ==
    ASSUME NEW g \in GeneratorRecord, NEW h \in GeneratorRecord, GoesOn(g, h)
    PROVE  /\ Len(g.buffer) <= Len(h.buffer)
           /\ \A n \in 0..Len(g.buffer) : SubSeq(h.buffer, 1, n) = SubSeq(g.buffer, 1, n)
           /\ \E u \in Seq(Char) : Text(h) = Text(g) \o u
<1>1. /\ g.prefix \in Seq(Char) /\ g.buffer \in Seq(Seq(Char)) /\ Len(g.buffer) \in Nat
      /\ FlattenSeq(g.buffer) \in Seq(Char) /\ Text(g) \in Seq(Char)
  BY GeneratorTexts
<1>2. CASE h.buffer = g.buffer
  <2>1. Text(h) = Text(g)
    BY <1>2 DEF GoesOn, Text
  <2>2. Text(g) \o <<>> = Text(g) /\ <<>> \in Seq(Char)
    BY <1>1, ConcatEmptySeq, EmptySeq
  <2>3. \E u \in Seq(Char) : Text(h) = Text(g) \o u
    BY ONLY <2>1, <2>2
  <2> QED BY <1>1, <1>2, <2>3
<1>3. ASSUME NEW c \in Seq(Char), h.buffer = Append(g.buffer, c)
      PROVE  /\ Len(g.buffer) <= Len(h.buffer)
             /\ \A n \in 0..Len(g.buffer) : SubSeq(h.buffer, 1, n) = SubSeq(g.buffer, 1, n)
             /\ \E u \in Seq(Char) : Text(h) = Text(g) \o u
  <2> DEFINE b == g.buffer
             d == Append(b, c)
             x == g.prefix
             f == FlattenSeq(b)
  <2>1. /\ d \in Seq(Seq(Char)) /\ Len(d) = Len(b) + 1
        /\ \A i \in 1..Len(b) : d[i] = b[i]
    BY <1>1, AppendProperties
  <2>2. FlattenSeq(d) = f \o c
    BY <1>1, FlattenAppend
  <2>3. Text(h) = x \o FlattenSeq(d) /\ Text(g) = x \o f /\ h.buffer = d
    BY <1>3 DEF Text, GoesOn
  <2> HIDE DEF b, d, x, f
  <2>4. Text(h) = Text(g) \o c
    <3>1. x \in Seq(Char) /\ f \in Seq(Char) /\ c \in Seq(Char)
      BY <1>1 DEF x, f, b
    <3>2. Regroups(Char, x, f, c)
      BY ONLY <3>1, Regroup
    <3> QED BY ONLY <2>2, <2>3, <3>2 DEF Regroups
  <2>5. ASSUME NEW n \in 0..Len(b) PROVE SubSeq(d, 1, n) = SubSeq(b, 1, n)
    <3> DEFINE v == SubSeq(d, 1, n)
               w == SubSeq(b, 1, n)
    <3>1. b \in Seq(Seq(Char)) /\ Len(b) \in Nat
      BY <1>1 DEF b
    <3>2. \A i \in 1..n : d[i] = b[i] /\ b[i] \in Seq(Char)
      BY <2>1, <3>1, ElementOfSeq
    <3>3. /\ v \in Seq(Seq(Char)) /\ Len(v) = Len(w) /\ w \in Seq(Seq(Char))
          /\ \A i \in 1..Len(v) : v[i] = w[i]
      BY <3>1, <3>2, SubSeqProperties, SMTT(60)
    <3> HIDE DEF v, w
    <3>4. v = w
      BY <3>3, SeqEqual
    <3> QED BY <3>4 DEF v, w
  <2>6. Len(b) <= Len(d)
    BY <1>1, <2>1 DEF b
  <2> QED BY <2>3, <2>4, <2>5, <2>6 DEF b
<1> QED BY <1>2, <1>3 DEF GoesOn

\* A reader stays in step with a generator that goes on.
LEMMA FollowsOn ==
    ASSUME NEW q \in RequestRecord, NEW p \in RequestRecord, SameText(q, p),
           NEW g \in GeneratorRecord, NEW h \in GeneratorRecord, GoesOn(g, h), Follows(q, g)
    PROVE  Follows(p, h)
<1>1. /\ Len(g.buffer) \in Nat /\ Len(h.buffer) \in Nat /\ Text(g) \in Seq(Char)
      /\ q.prefix \in Seq(Char) /\ q.next \in 1..(Len(g.buffer) + 1)
  BY GeneratorTexts, RequestTexts DEF Follows
<1>2. /\ p.prefix = q.prefix /\ p.multiline = q.multiline /\ p.next = q.next
      /\ p.typed = q.typed /\ p.out = q.out /\ (q.at = "end" => p.at = "end")
  BY DEF SameText
<1>3. /\ Len(g.buffer) <= Len(h.buffer)
      /\ \A n \in 0..Len(g.buffer) : SubSeq(h.buffer, 1, n) = SubSeq(g.buffer, 1, n)
      /\ \E u \in Seq(Char) : Text(h) = Text(g) \o u
  BY TextGoesOn
<1>4. Seen(p, h) = Seen(q, g)
  <2>1. q.next - 1 \in 0..Len(g.buffer)
    BY <1>1
  <2>2. SubSeq(h.buffer, 1, q.next - 1) = SubSeq(g.buffer, 1, q.next - 1)
    BY <1>3, <2>1
  <2> QED BY <1>2, <2>2 DEF Seen, GoesOn
<1>5. IsPrefix(p.prefix, Text(h))
  <2>1. PICK u \in Seq(Char) : Text(h) = Text(g) \o u
    BY <1>3
  <2>2. IsPrefix(q.prefix, Text(g))
    BY DEF Follows
  <2> DEFINE a == q.prefix
             t == Text(g)
  <2>3. a \in Seq(Char) /\ t \in Seq(Char) /\ u \in Seq(Char) /\ IsPrefix(a, t)
    BY <1>1, <2>2
  <2> HIDE DEF a, t
  <2>4. IsPrefix(a, t \o u)
    BY ONLY <2>3, PrefixOfMore
  <2> QED BY <1>2, <2>1, <2>4 DEF a, t
<1>6. p.next \in 1..(Len(h.buffer) + 1)
  BY <1>1, <1>2, <1>3
<1> QED BY <1>2, <1>4, <1>5, <1>6 DEF Follows

\* A reader that joins follows its generator: a new one that starts from its
\* prefix, or one that has generated what it has typed since.
LEMMA JoinsInStep ==
    ASSUME NEW p \in RequestRecord, NEW g \in GeneratorRecord, NEW u \in Seq(Char),
           p.next = 1, p.out = <<>>, Text(g) = p.prefix \o u, p.prefix = g.prefix \o p.typed
    PROVE  Follows(p, g)
<1>1. /\ g.prefix \in Seq(Char) /\ Len(g.buffer) \in Nat /\ Text(g) \in Seq(Char)
      /\ p.prefix \in Seq(Char)
  BY GeneratorTexts, RequestTexts
<1>2. Seen(p, g) = g.prefix
  <2>1. SubSeq(g.buffer, 1, p.next - 1) = <<>>
    BY SubSeqEmpty
  <2>2. FlattenSeq(<<>>) = <<>>
    <3>1. <<>> \in Seq(Seq(Char)) /\ Len(<<>>) = 0
      BY EmptySeq
    <3> QED BY <3>1, FlattenTyping
  <2>3. g.prefix \o <<>> = g.prefix
    BY <1>1, ConcatEmptySeq
  <2> QED BY <2>1, <2>2, <2>3 DEF Seen
<1>3. InStep(p.prefix, p.out, Seen(p, g), p.typed)
  <2>1. p.prefix \o <<>> = p.prefix
    BY <1>1, ConcatEmptySeq
  <2> QED BY <1>2, <2>1 DEF InStep
<1>4. IsPrefix(p.prefix, Text(g))
  <2> DEFINE a == p.prefix
             t == Text(g)
  <2>1. a \in Seq(Char) /\ t \in Seq(Char) /\ t = a \o u
    BY <1>1
  <2> HIDE DEF a, t
  <2>2. u \in Seq(Char)
    OBVIOUS
  <2>3. Extends(Char, a, t)
    BY ONLY <2>1, Extend
  <2>4. IsPrefix(a, t)
    BY ONLY <2>1, <2>2, <2>3 DEF Extends
  <2> QED BY <2>4 DEF a, t
<1> QED BY <1>1, <1>3, <1>4 DEF Follows

Reader(q, gs) ==
    IF q.generator = 0 THEN q.next = 1 /\ q.out = <<>> ELSE Follows(q, gs[q.generator])
ReadersInv == \A r \in 1..Len(requests) : Reader(requests[r], generators)

\* Every generator goes on.
AllGoOn == \A g \in 1..Len(generators) : GoesOn(generators[g], generators'[g])

LEMMA KeepingGoesOn == ASSUME KeepsText(generators, generators') PROVE AllGoOn
BY DEF KeepsText, GoesOn, AllGoOn

LEMMA ReaderKept ==
    ASSUME StreamTyped, StreamTyped', Len(generators) <= Len(generators'), AllGoOn,
           NEW q \in RequestRecord, NEW p \in RequestRecord,
           Placed(q, Len(generators)), Reader(q, generators), SameText(q, p)
    PROVE  Reader(p, generators')
<1>1. p.generator = q.generator /\ p.next = q.next /\ p.out = q.out
  BY DEF SameText
<1>2. CASE q.generator = 0
  BY <1>1, <1>2 DEF Reader
<1>3. CASE q.generator # 0
  <2>1. q.generator \in 1..Len(generators) /\ q.generator \in 1..Len(generators')
    BY <1>3, LenProperties DEF Placed, StreamTyped
  <2>2. generators[q.generator] \in GeneratorRecord /\ generators'[q.generator] \in GeneratorRecord
    BY <2>1, ElementOfSeq DEF StreamTyped
  <2>3. GoesOn(generators[q.generator], generators'[q.generator])
    BY <2>1 DEF AllGoOn
  <2>4. Follows(q, generators[q.generator])
    BY <1>3 DEF Reader
  <2>5. Follows(p, generators'[q.generator])
    BY <2>2, <2>3, <2>4, FollowsOn
  <2> QED BY <1>1, <1>3, <2>5 DEF Reader
<1> QED BY <1>2, <1>3

LEMMA OthersKept ==
    ASSUME StreamTyped, StreamTyped', ReadersInv, Len(generators) <= Len(generators'), AllGoOn,
           NEW i \in 1..Len(requests), NEW p \in RequestRecord, SameText(requests[i], p)
    PROVE  Reader(p, generators')
<1>1. requests[i] \in RequestRecord /\ Placed(requests[i], Len(generators))
  BY RequestIsRecord
<1>2. Reader(requests[i], generators)
  BY DEF ReadersInv
<1> QED BY <1>1, <1>2, ReaderKept

\* One request changes, and the generators go on.
LEMMA OneReader ==
    ASSUME StreamTyped, StreamTyped', ReadersInv, Len(generators) <= Len(generators'), AllGoOn,
           NEW r \in 1..Len(requests), NEW p \in RequestRecord,
           requests' = [requests EXCEPT ![r] = p], Reader(p, generators')
    PROVE  ReadersInv'
<1>1. /\ Len(requests') = Len(requests)
      /\ \A i \in 1..Len(requests) : requests'[i] = IF i = r THEN p ELSE requests[i]
  BY OneRequest DEF StreamTyped
<1>2. ASSUME NEW i \in 1..Len(requests') PROVE Reader(requests'[i], generators')
  <2>1. CASE i = r
    BY <1>1, <2>1
  <2>2. CASE i # r
    <3>1. requests'[i] = requests[i] /\ i \in 1..Len(requests)
      BY <1>1, <2>2
    <3>2. requests[i] \in RequestRecord /\ SameText(requests[i], requests[i])
      BY <3>1, RequestIsRecord DEF SameText
    <3>3. Reader(requests[i], generators')
      BY <3>1, <3>2, OthersKept
    <3> QED BY <3>1, <3>3
  <2> QED BY <2>1, <2>2
<1> QED BY <1>2 DEF ReadersInv

LEMMA ReadersInRequest ==
    ASSUME StreamTyped, StreamTyped', ReadersInv,
           NEW prefix \in Typings, NEW multiline \in BOOLEAN, Request(prefix, multiline)
    PROVE  ReadersInv'
<1> DEFINE q == [prefix |-> prefix, multiline |-> multiline, token |-> FALSE, at |-> "debounce",
                 generator |-> 0, next |-> 1, typed |-> <<>>, out |-> <<>>]
           n == Len(requests)
<1>1. requests' = Append(requests, q) /\ UNCHANGED generators
  BY DEF Request
<1>2. /\ n \in Nat /\ Len(requests') = n + 1 /\ requests'[n + 1] = q
      /\ \A i \in 1..n : requests'[i] = requests[i]
  BY <1>1, LenProperties DEF StreamTyped
<1>3. Reader(q, generators')
  BY DEF Reader
<1> HIDE DEF q
<1>4. ASSUME NEW i \in 1..n PROVE Reader(requests'[i], generators')
  BY <1>1, <1>2 DEF ReadersInv
<1> QED BY <1>2, <1>3, <1>4 DEF ReadersInv

LEMMA ReadersInDebounced ==
    ASSUME StreamTyped, StreamTyped', ReadersInv, Debounced
    PROVE  ReadersInv'
<1> DEFINE q == [requests[timer] EXCEPT !.at = "prepare"]
<1>1. timer \in 1..Len(requests) /\ requests[timer].at = "debounce"
  BY LenProperties DEF StreamTyped, Debounced
<1>2. requests[timer] \in RequestRecord
  BY <1>1, RequestIsRecord
<1>3. q \in RequestRecord /\ SameText(requests[timer], q)
  BY <1>1, <1>2 DEF RequestRecord, SameText
<1>4. requests' = [requests EXCEPT ![timer] = q] /\ generators' = generators
  BY <1>1, LenProperties DEF Debounced, StreamTyped
<1>5. Len(generators) <= Len(generators') /\ AllGoOn
  BY <1>4, LenProperties DEF AllGoOn, GoesOn, StreamTyped
<1> HIDE DEF q
<1>6. Reader(q, generators')
  BY <1>1, <1>3, <1>5, OthersKept
<1> QED BY <1>1, <1>3, <1>4, <1>5, <1>6, OneReader

LEMMA ReadersInTurned ==
    ASSUME StreamTyped, StreamTyped', ReadersInv, NEW r \in 1..Len(requests),
           CancelToken(r) \/ ReachEnd(r) \/ FullStop(r)
    PROVE  ReadersInv'
<1>1. /\ KeepsText(generators, generators')
      /\ \E p \in RequestRecord :
            requests' = [requests EXCEPT ![r] = p] /\ SameText(requests[r], p)
  BY TurnedEffect
<1>2. PICK p \in RequestRecord :
            requests' = [requests EXCEPT ![r] = p] /\ SameText(requests[r], p)
  BY <1>1
<1>3. Len(generators) <= Len(generators') /\ AllGoOn
  BY <1>1, KeepingGoesOn, LenProperties DEF KeepsText, StreamTyped
<1>4. Reader(p, generators')
  BY <1>2, <1>3, OthersKept
<1> QED BY <1>2, <1>3, <1>4, OneReader

LEMMA ReadersInReadChunk ==
    ASSUME StreamTyped, StreamTyped', ReadersInv, NEW r \in 1..Len(requests), ReadChunk(r)
    PROVE  ReadersInv'
<1> DEFINE q == requests[r]
           g == generators[q.generator]
<1>1. /\ q.at = "read" /\ q.generator \in 1..Len(generators) /\ q.next \in 1..Len(g.buffer)
      /\ generators' = generators
      /\ \E p \in RequestRecord :
            /\ requests' = [requests EXCEPT ![r] = p]
            /\ SameText(q, p) \/ HasRead(q, g.buffer[q.next], p)
  BY ReadChunkEffect
<1>2. PICK p \in RequestRecord :
            /\ requests' = [requests EXCEPT ![r] = p]
            /\ SameText(q, p) \/ HasRead(q, g.buffer[q.next], p)
  BY <1>1
<1>3. Len(generators) <= Len(generators') /\ AllGoOn
  BY <1>1, LenProperties DEF AllGoOn, GoesOn, StreamTyped
<1>4. q \in RequestRecord /\ g \in GeneratorRecord /\ Follows(q, g)
  <2>1. q \in RequestRecord /\ g \in GeneratorRecord
    BY <1>1, RequestIsRecord, GeneratorIsRecord
  <2>2. q.generator # 0 /\ Reader(q, generators)
    BY <1>1 DEF ReadersInv
  <2> QED BY <2>1, <2>2 DEF Reader
<1>5. Reader(p, generators')
  <2>1. CASE SameText(q, p)
    BY <1>3, <2>1, OthersKept
  <2>2. CASE HasRead(q, g.buffer[q.next], p)
    <3>1. Follows(p, g)
      <4> HIDE DEF q, g
      <4> QED BY <1>1, <1>4, <2>2, ReadsOn
    <3>2. p.generator = q.generator
      BY <2>2 DEF HasRead
    <3> QED BY <1>1, <3>1, <3>2 DEF Reader
  <2> QED BY <1>2, <2>1, <2>2
<1> QED BY <1>2, <1>3, <1>5, OneReader

LEMMA ReadersInWoken ==
    ASSUME StreamTyped, StreamTyped', ReadersInv, Len(generators) <= Len(generators'), AllGoOn,
           NEW g, requests' = Woken(g)
    PROVE  ReadersInv'
<1>1. /\ requests' \in Seq(RequestRecord) /\ Len(requests') = Len(requests)
      /\ \A i \in 1..Len(requests) : SameText(requests[i], requests'[i])
  BY WokenEffect
<1>2. ASSUME NEW i \in 1..Len(requests) PROVE Reader(requests'[i], generators')
  <2>1. requests'[i] \in RequestRecord /\ SameText(requests[i], requests'[i])
    BY <1>1, ElementOfSeq
  <2> QED BY <2>1, OthersKept
<1> QED BY <1>1, <1>2 DEF ReadersInv

LEMMA ReusedIsInStep ==
    ASSUME StreamTyped, ManagerInv, NEW p \in RequestRecord, p.next = 1, p.out = <<>>,
           ShouldReuse(p.prefix),
           p.typed = SubSeq(p.prefix, Len(generators[currentGenerator].prefix) + 1, Len(p.prefix))
    PROVE  Follows(p, generators[currentGenerator])
<1> DEFINE g == generators[currentGenerator]
           a == g.prefix
           f == FlattenSeq(g.buffer)
           t == Text(g)
           x == p.prefix
<1>1. currentGenerator \in 1..Len(generators)
  BY LenProperties DEF ShouldReuse, StreamTyped
<1>2. g \in GeneratorRecord
  BY <1>1, GeneratorIsRecord
<1>3. /\ a \in Seq(Char) /\ f \in Seq(Char) /\ t \in Seq(Char) /\ x \in Seq(Char)
      /\ Len(a) \in Nat /\ Len(x) \in Nat
  BY <1>2, GeneratorTexts, RequestTexts, LenProperties
<1>4. t = a \o f
  BY DEF Text
<1>5. IsPrefix(x, t) /\ Len(a) <= Len(x)
  <2>1. pendingCompletion = f
    BY <1>1 DEF ManagerInv
  <2> QED BY <1>4, <2>1 DEF ShouldReuse
<1>6. p.typed = SubSeq(x, Len(a) + 1, Len(x))
  OBVIOUS
<1> HIDE DEF g, a, f, t, x
<1>7. PICK u \in Seq(Char) : t = x \o u
  <2>1. Extends(Char, x, t)
    BY ONLY <1>3, Extend
  <2> QED BY ONLY <1>5, <2>1 DEF Extends
<1>8. IsPrefix(a, x)
  <2>1. u \in Seq(Char)
    OBVIOUS
  <2>2. Comparable(Char, a, f, x, u)
    BY ONLY <1>3, <2>1, PrefixesCompare
  <2>3. \E w \in Seq(Char) : x = a \o w
    BY ONLY <1>4, <1>5, <1>7, <2>2 DEF Comparable
  <2>4. Extends(Char, a, x)
    BY ONLY <1>3, Extend
  <2> QED BY ONLY <2>3, <2>4 DEF Extends
<1>9. x = a \o p.typed
  <2>1. SubSeq(x, 1, Len(a)) = a
    <3>1. SubSeq(a, 1, Len(a)) = SubSeq(x, 1, Len(a))
      BY <1>8 DEF IsPrefix
    <3> QED BY <1>3, <3>1, SubSeqFull
  <2>2. Len(a) \in 0..Len(x)
    BY ONLY <1>3, <1>5
  <2>3. x = SubSeq(x, 1, Len(a)) \o SubSeq(x, Len(a) + 1, Len(x))
    BY ONLY <1>3, <2>2, FromAPlace
  <2> QED BY ONLY <1>6, <2>1, <2>3
<1>10. Text(g) = p.prefix \o u /\ p.prefix = g.prefix \o p.typed
  BY <1>7, <1>9 DEF t, x, a
<1>11. Follows(p, g)
  BY <1>2, <1>10, JoinsInStep
<1> QED BY <1>11 DEF g

LEMMA NewIsInStep ==
    ASSUME NEW p \in RequestRecord, p.next = 1, p.out = <<>>, p.typed = <<>>,
           NEW g \in GeneratorRecord, g.prefix = p.prefix, g.buffer = <<>>
    PROVE  Follows(p, g)
<1>1. p.prefix \in Seq(Char) /\ <<>> \in Seq(Char)
  BY RequestTexts, EmptySeq
<1>2. p.prefix \o <<>> = p.prefix
  BY <1>1, ConcatEmptySeq
<1>3. FlattenSeq(<<>>) = <<>>
  <2>1. <<>> \in Seq(Seq(Char)) /\ Len(<<>>) = 0
    BY EmptySeq
  <2> QED BY <2>1, FlattenTyping
<1>4. Text(g) = p.prefix \o <<>>
  BY <1>3 DEF Text
<1>5. p.prefix = g.prefix \o p.typed
  BY <1>2
<1> QED BY <1>1, <1>4, <1>5, JoinsInStep

LEMMA ReadersInGetGenerator ==
    ASSUME StreamTyped, StreamTyped', ManagerInv, ReadersInv,
           NEW r \in 1..Len(requests), GetGenerator(r)
    PROVE  ReadersInv'
<1>1. PICK p \in RequestRecord :
              /\ requests[r].at = "prepare" /\ requests[r].generator = 0
              /\ requests' = [requests EXCEPT ![r] = p]
              /\ p.at = "read" /\ p.prefix = requests[r].prefix
              /\ p.next = requests[r].next /\ p.out = requests[r].out
              /\ \/ /\ p.generator = currentGenerator /\ ShouldReuse(p.prefix)
                    /\ p.typed = SubSeq(p.prefix,
                          Len(generators[currentGenerator].prefix) + 1, Len(p.prefix))
                    /\ UNCHANGED <<generators, currentGenerator, pendingCompletion>>
                 \/ /\ p.generator = Len(generators) + 1 /\ p.typed = <<>>
                    /\ currentGenerator' = Len(generators) + 1 /\ pendingCompletion' = <<>>
                    /\ generators' = Append(Canceled(generators, currentGenerator),
                          [prefix |-> p.prefix, buffer |-> <<>>, isEnded |-> FALSE,
                           aborted |-> FALSE, done |-> FALSE])
  BY GetGeneratorEffect
<1>2. p.next = 1 /\ p.out = <<>> /\ Len(generators) \in Nat
  <2>1. Reader(requests[r], generators)
    BY DEF ReadersInv
  <2> QED BY <1>1, <2>1, LenProperties DEF Reader, StreamTyped
<1>3. CASE /\ p.generator = currentGenerator /\ ShouldReuse(p.prefix)
           /\ p.typed = SubSeq(p.prefix,
                 Len(generators[currentGenerator].prefix) + 1, Len(p.prefix))
           /\ UNCHANGED <<generators, currentGenerator, pendingCompletion>>
  <2>1. Len(generators) <= Len(generators') /\ AllGoOn
    BY <1>2, <1>3 DEF AllGoOn, GoesOn
  <2>2. Follows(p, generators[currentGenerator])
    BY <1>2, <1>3, ReusedIsInStep
  <2>3. Reader(p, generators')
    BY <1>3, <2>2 DEF Reader, ShouldReuse
  <2> QED BY <1>1, <2>1, <2>3, OneReader
<1>4. CASE /\ p.generator = Len(generators) + 1 /\ p.typed = <<>>
           /\ generators' = Append(Canceled(generators, currentGenerator),
                 [prefix |-> p.prefix, buffer |-> <<>>, isEnded |-> FALSE,
                  aborted |-> FALSE, done |-> FALSE])
  <2> DEFINE e == [prefix |-> p.prefix, buffer |-> <<>>, isEnded |-> FALSE,
                   aborted |-> FALSE, done |-> FALSE]
             c == Canceled(generators, currentGenerator)
             n == Len(generators)
  <2>1. e \in GeneratorRecord /\ e.prefix = p.prefix /\ e.buffer = <<>>
    <3>1. p.prefix \in Seq(Char) /\ <<>> \in Seq(Seq(Char))
      BY EmptySeq, RequestTexts
    <3> QED BY <3>1 DEF GeneratorRecord
  <2>2. KeepsText(generators, c)
    BY CanceledKeeps DEF StreamTyped
  <2>3. generators' = Append(c, e) /\ p.generator = n + 1
    BY <1>4
  <2> HIDE DEF e, c
  <2>4. /\ Len(generators') = n + 1 /\ generators'[n + 1] = e
        /\ \A g \in 1..n : generators'[g] = c[g]
    <3>1. c \in Seq(GeneratorRecord) /\ Len(c) = n
      BY <2>2 DEF KeepsText
    <3> QED BY <2>1, <2>3, <3>1, AppendProperties
  <2>5. Len(generators) <= Len(generators') /\ AllGoOn
    BY <1>2, <2>2, <2>4 DEF AllGoOn, GoesOn, KeepsText
  <2>6. Follows(p, e)
    BY <1>2, <1>4, <2>1, NewIsInStep
  <2>7. Reader(p, generators')
    BY <1>2, <2>3, <2>4, <2>6 DEF Reader
  <2> QED BY <1>1, <2>5, <2>7, OneReader
<1> QED BY <1>1, <1>3, <1>4

LEMMA ReadersInYield ==
    ASSUME StreamTyped, StreamTyped', ReadersInv,
           NEW g \in 1..Len(generators), NEW chunk \in Seq(Char), Yield(g, chunk)
    PROVE  ReadersInv'
<1>1. requests' = Woken(g)
  BY DEF Yield
<1>2. Len(generators) <= Len(generators') /\ AllGoOn
  <2>1. CASE KeepsText(generators, generators')
    BY <2>1, KeepingGoesOn, LenProperties DEF KeepsText, StreamTyped
  <2>2. ASSUME NEW e \in GeneratorRecord, generators' = [generators EXCEPT ![g] = e],
               e.prefix = generators[g].prefix, e.buffer = Append(generators[g].buffer, chunk)
        PROVE  Len(generators) <= Len(generators') /\ AllGoOn
    <3>1. /\ Len(generators') = Len(generators) /\ Len(generators) \in Nat
          /\ \A i \in 1..Len(generators) :
                generators'[i] = IF i = g THEN e ELSE generators[i]
      BY <2>2, ExceptSeq, LenProperties, SMTT(60) DEF StreamTyped
    <3>2. GoesOn(generators[g], e)
      BY <2>2 DEF GoesOn
    <3>3. \A i \in 1..Len(generators) : GoesOn(generators[i], generators[i])
      BY DEF GoesOn
    <3> QED BY <3>1, <3>2, <3>3 DEF AllGoOn
  <2> QED BY <2>1, <2>2, YieldEffect
<1> QED BY <1>1, <1>2, ReadersInWoken

LEMMA ReadersInSourceEnds ==
    ASSUME StreamTyped, StreamTyped', ReadersInv, NEW g \in 1..Len(generators), SourceEnds(g)
    PROVE  ReadersInv'
<1>1. requests' = Woken(g) /\ KeepsText(generators, generators')
  BY SourceEndsEffect DEF SourceEnds
<1>2. Len(generators) <= Len(generators') /\ AllGoOn
  <2>1. AllGoOn
    BY <1>1, KeepingGoesOn
  <2>2. Len(generators) <= Len(generators')
    BY <1>1, LenProperties DEF KeepsText, StreamTyped
  <2> QED BY <2>1, <2>2
<1> QED BY <1>1, <1>2, ReadersInWoken

LEMMA ReadersStep ==
    ASSUME StreamTyped, StreamTyped', ManagerInv, ReadersInv, [StreamNext]_streamVars
    PROVE  ReadersInv'
<1>1. CASE StreamNext
  <2>1. StreamSteps
    BY <1>1, StepIsOne
  <2> QED BY <2>1, ReadersInRequest, ReadersInDebounced, ReadersInGetGenerator,
             ReadersInReadChunk, ReadersInTurned, ReadersInYield, ReadersInSourceEnds
          DEF StreamSteps
<1>2. CASE UNCHANGED streamVars
  BY <1>2 DEF streamVars, ReadersInv
<1> QED BY <1>1, <1>2

LEMMA InStepMeans ==
    ASSUME NEW S, NEW p \in Seq(S), NEW out \in Seq(S), NEW s \in Seq(S), NEW typed \in Seq(S),
           InStep(p, out, s, typed)
    PROVE  IF IsPrefix(p, s) THEN p \o out = s ELSE IsPrefix(s, p) /\ out = <<>>
<1>1. s \o typed = p \o out /\ (typed # <<>> => out = <<>>)
  BY DEF InStep
<1>2. p \in Seq(S) /\ s \in Seq(S) /\ out \in Seq(S) /\ typed \in Seq(S)
  OBVIOUS
<1>3. Extends(S, p, s) /\ Extends(S, s, p)
  BY ONLY <1>2, Extend
<1>4. CASE typed = <<>>
  <2>1. s \o <<>> = s
    BY ONLY <1>2, ConcatEmptySeq
  <2>2. s = p \o out
    BY ONLY <1>1, <1>4, <2>1
  <2>3. IsPrefix(p, s)
    BY ONLY <1>2, <1>3, <2>2 DEF Extends
  <2> QED BY ONLY <2>2, <2>3
<1>5. CASE typed # <<>>
  <2>1. p \o <<>> = p
    BY ONLY <1>2, ConcatEmptySeq
  <2>2. p = s \o typed /\ out = <<>>
    BY ONLY <1>1, <1>5, <2>1
  <2>3. IsPrefix(s, p)
    BY ONLY <1>2, <1>3, <2>2 DEF Extends
  <2>4. Len(typed) \in Nat \ {0} /\ Len(s) \in Nat /\ Len(p) = Len(s) + Len(typed)
    <3>1. Len(typed) \in Nat \ {0} /\ Len(s) \in Nat
      BY ONLY <1>2, <1>5, EmptySeq, LenProperties
    <3>2. Len(s \o typed) = Len(s) + Len(typed)
      BY ONLY <1>2, ConcatProperties
    <3> QED BY ONLY <2>2, <3>1, <3>2
  <2>5. ~(Len(p) <= Len(s))
    BY ONLY <2>4
  <2> QED BY ONLY <2>2, <2>3, <2>5 DEF IsPrefix
<1> QED BY ONLY <1>4, <1>5

LEMMA PrefixOfPrefix ==
    ASSUME NEW S, NEW p \in Seq(S), NEW out \in Seq(S), NEW s \in Seq(S), IsPrefix(p \o out, s)
    PROVE  IsPrefix(p, s)
<1>1. p \in Seq(S) /\ s \in Seq(S) /\ out \in Seq(S)
  OBVIOUS
<1>2. Extends(S, p, s)
  BY ONLY <1>1, Extend
<1>3. PICK u \in Seq(S) : s = (p \o out) \o u
  <2> DEFINE a == p \o out
  <2>1. a \in Seq(S) /\ IsPrefix(a, s)
    BY ConcatProperties
  <2> HIDE DEF a
  <2>2. Extends(S, a, s)
    BY ONLY <1>1, <2>1, Extend
  <2>3. \E u \in Seq(S) : s = a \o u
    BY ONLY <2>1, <2>2 DEF Extends
  <2> QED BY <2>3 DEF a
<1>4. u \in Seq(S)
  OBVIOUS
<1>5. Regroups(S, p, out, u)
  BY ONLY <1>1, <1>4, Regroup
<1> QED BY ONLY <1>2, <1>3, <1>5 DEF Regroups, Extends

LEMMA FollowersGetTheirText ==
    ASSUME NEW q \in RequestRecord, NEW g \in GeneratorRecord, Follows(q, g)
    PROVE  LET seen == Seen(q, g)
           IN  IF IsPrefix(q.prefix, seen)
               THEN IF q.at = "end" /\ ~q.multiline
                    THEN IsPrefix(q.prefix \o q.out, seen)
                    ELSE q.prefix \o q.out = seen
               ELSE IsPrefix(seen, q.prefix) /\ q.out = <<>>
<1> DEFINE seen == Seen(q, g)
           p == q.prefix
           out == q.out
           typed == q.typed
<1>1. p \in Seq(Char) /\ out \in Seq(Char) /\ typed \in Seq(Char) /\ seen \in Seq(Char)
  <2>1. q.next \in 1..(Len(g.buffer) + 1)
    BY DEF Follows
  <2> QED BY <2>1, RequestTexts, SeenTyping
<1>2. \/ InStep(p, out, seen, typed)
      \/ q.at = "end" /\ ~q.multiline /\ IsPrefix(p \o out, seen)
  BY DEF Follows
<1> HIDE DEF seen, p, out, typed
<1>3. CASE InStep(p, out, seen, typed)
  <2>1. IF IsPrefix(p, seen) THEN p \o out = seen ELSE IsPrefix(seen, p) /\ out = <<>>
    BY ONLY <1>1, <1>3, InStepMeans
  <2>2. p \o out = seen => IsPrefix(p \o out, seen)
    <3>1. IsPrefix(seen, seen)
      BY ONLY <1>1, LenProperties DEF IsPrefix
    <3> QED BY ONLY <3>1
  <2> QED BY <2>1, <2>2 DEF seen, p, out
<1>4. CASE q.at = "end" /\ ~q.multiline /\ IsPrefix(p \o out, seen)
  <2>1. IsPrefix(p, seen)
    BY ONLY <1>1, <1>4, PrefixOfPrefix
  <2> QED BY <1>4, <2>1 DEF seen, p, out
<1> QED BY <1>2, <1>3, <1>4

LEMMA ReadersGet == ASSUME StreamTyped, ReadersInv PROVE ReadersGetTheirText
<1> SUFFICES ASSUME NEW r \in DOMAIN requests, requests[r].generator # 0
             PROVE  LET q == requests[r]
                        g == generators[q.generator]
                        seen == g.prefix \o FlattenSeq(SubSeq(g.buffer, 1, q.next - 1))
                    IN  IF IsPrefix(q.prefix, seen)
                        THEN IF q.at = "end" /\ ~q.multiline
                             THEN IsPrefix(q.prefix \o q.out, seen)
                             ELSE q.prefix \o q.out = seen
                        ELSE IsPrefix(seen, q.prefix) /\ q.out = <<>>
  BY DEF ReadersGetTheirText
<1> DEFINE q == requests[r]
           g == generators[q.generator]
<1>1. r \in 1..Len(requests)
  BY LenProperties DEF StreamTyped
<1>2. q \in RequestRecord /\ q.generator \in 1..Len(generators)
  BY <1>1, RequestIsRecord, LenProperties DEF Placed, StreamTyped
<1>3. g \in GeneratorRecord
  BY <1>2, GeneratorIsRecord
<1>4. Follows(q, g)
  BY <1>1 DEF ReadersInv, Reader
<1> HIDE DEF q, g
<1>5. LET seen == Seen(q, g)
      IN  IF IsPrefix(q.prefix, seen)
          THEN IF q.at = "end" /\ ~q.multiline
               THEN IsPrefix(q.prefix \o q.out, seen)
               ELSE q.prefix \o q.out = seen
          ELSE IsPrefix(seen, q.prefix) /\ q.out = <<>>
  BY ONLY <1>2, <1>3, <1>4, FollowersGetTheirText
<1> QED BY ONLY <1>5 DEF Seen, q, g

LEMMA ReadersInit == ASSUME StreamInit PROVE ReadersInv
<1>1. Len(requests) = 0
  BY EmptySeq DEF StreamInit
<1> QED BY <1>1 DEF ReadersInv

\* A reader that joins late, after the user typed on, gets each character once
\* and in order: what it has typed and what it is shown is what was generated,
\* up to the chunk it has reached (GeneratorReuseManager.ts:58).
THEOREM ReadersAreInStep == StreamSpec => []ReadersGetTheirText
<1> DEFINE IInv == StreamTyped /\ ManagerInv /\ ReadersInv
<1>1. StreamInit => IInv
  BY StreamTypedInit, ManagerInit, ReadersInit
<1>2. IInv /\ [StreamNext]_streamVars => IInv'
  BY StreamTypedStep, ManagerStep, ReadersStep
<1>3. IInv => ReadersGetTheirText
  BY ReadersGet
<1> QED BY <1>1, <1>2, <1>3, PTL DEF StreamSpec

----------------------------------------------------------------------------
(* The chat that is compiled: the filter of empty messages                 *)

\* The filter, as far as n: f[n] is what is kept of the first n messages.
Keeps(s, n, f) ==
    f = [i \in 0..n |->
            IF i = 0 THEN <<>>
            ELSE IF ChatMessageIsEmpty(s[i]) THEN f[i - 1] ELSE Append(f[i - 1], s[i])]
KeptOf(s) == CHOOSE f : Keeps(s, Len(s), f)

LEMMA FilledIsKept == ASSUME NEW s PROVE Filled(s) = KeptOf(s)[Len(s)]
BY DEF Filled, KeptOf, Keeps

LEMMA KeepsValues ==
    ASSUME NEW s, NEW n \in Nat, NEW f, Keeps(s, n, f)
    PROVE  /\ f[0] = <<>>
           /\ \A i \in 1..n : f[i] =
                 IF ChatMessageIsEmpty(s[i]) THEN f[i - 1] ELSE Append(f[i - 1], s[i])
<1>1. 0 \in 0..n /\ \A i \in 1..n : i \in 0..n /\ i # 0
  OBVIOUS
<1>2. \A i \in 0..n : f[i] =
         IF i = 0 THEN <<>>
         ELSE IF ChatMessageIsEmpty(s[i]) THEN f[i - 1] ELSE Append(f[i - 1], s[i])
  BY Zenon DEF Keeps
<1> QED BY <1>1, <1>2, Zenon

LEMMA KeptExists == ASSUME NEW s, Len(s) \in Nat PROVE Keeps(s, Len(s), KeptOf(s))
<1> DEFINE N == {n \in Nat : \E f : Keeps(s, n, f)}
<1>1. 0 \in N
  <2> DEFINE f == [i \in 0..0 |-> <<>>]
  <2>1. Keeps(s, 0, f)
    BY DEF Keeps
  <2> QED BY <2>1
<1>2. ASSUME NEW n \in N PROVE n + 1 \in N
  <2>1. PICK f : Keeps(s, n, f)
    OBVIOUS
  <2>2. /\ f[0] = <<>>
        /\ \A i \in 1..n : f[i] = IF ChatMessageIsEmpty(s[i]) THEN f[i - 1] ELSE Append(f[i - 1], s[i])
    BY <2>1, KeepsValues
  <2> DEFINE e(x, i) == IF ChatMessageIsEmpty(s[i]) THEN x ELSE Append(x, s[i])
             g == [i \in 0..(n + 1) |-> IF i <= n THEN f[i] ELSE e(f[n], n + 1)]
  <2>3. g[0] = <<>> /\ g[n + 1] = e(g[n], n + 1) /\ \A i \in 1..n : g[i] = e(g[i - 1], i)
    <3>1. \A i \in 0..n : g[i] = f[i]
      OBVIOUS
    <3>2. g[n + 1] = e(f[n], n + 1)
      OBVIOUS
    <3> HIDE DEF g
    <3> QED BY <2>2, <3>1, <3>2
  <2>4. g = [i \in 0..(n + 1) |-> IF i = 0 THEN <<>> ELSE e(g[i - 1], i)]
    <3>1. \A i \in 0..(n + 1) : g[i] = IF i = 0 THEN <<>> ELSE e(g[i - 1], i)
      <4> HIDE DEF g, e
      <4>1. \A i \in 0..(n + 1) : i = 0 \/ i \in 1..n \/ i = n + 1
        OBVIOUS
      <4> QED BY <2>3, <4>1
    <3>2. g = [i \in 0..(n + 1) |-> g[i]]
      OBVIOUS
    <3> HIDE DEF g, e
    <3> QED BY <3>1, <3>2
  <2>5. Keeps(s, n + 1, g)
    <3> HIDE DEF g
    <3> QED BY <2>4 DEF Keeps
  <2> QED BY <2>5
<1>3. N = Nat
  <2>1. N \in SUBSET Nat
    OBVIOUS
  <2> HIDE DEF N
  <2> QED BY <1>1, <1>2, <2>1, AllNumbers
<1> QED BY <1>3 DEF KeptOf

LEMMA KeptValues ==
    ASSUME NEW s, Len(s) \in Nat
    PROVE  /\ KeptOf(s)[0] = <<>>
           /\ \A i \in 1..Len(s) : KeptOf(s)[i] =
                 IF ChatMessageIsEmpty(s[i]) THEN KeptOf(s)[i - 1]
                 ELSE Append(KeptOf(s)[i - 1], s[i])
BY KeptExists, KeepsValues

\* A result of the call id may follow the first i messages.
Awaited(t, i, id) == \E j \in 1..i : HasCall(t[j], id) /\ \A k \in (j + 1)..i : IsTool(t[k])

LEMMA AwaitedNext ==
    ASSUME NEW t, NEW i \in Nat, NEW id
    PROVE  Awaited(t, i + 1, id) <=> HasCall(t[i + 1], id) \/ (IsTool(t[i + 1]) /\ Awaited(t, i, id))
<1>1. ASSUME Awaited(t, i + 1, id) PROVE HasCall(t[i + 1], id) \/ (IsTool(t[i + 1]) /\ Awaited(t, i, id))
  <2>1. PICK j \in 1..(i + 1) : HasCall(t[j], id) /\ \A k \in (j + 1)..(i + 1) : IsTool(t[k])
    BY <1>1 DEF Awaited
  <2> QED BY <2>1 DEF Awaited
<1>2. ASSUME HasCall(t[i + 1], id) PROVE Awaited(t, i + 1, id)
  BY <1>2 DEF Awaited
<1>3. ASSUME IsTool(t[i + 1]), Awaited(t, i, id) PROVE Awaited(t, i + 1, id)
  <2>1. PICK j \in 1..i : HasCall(t[j], id) /\ \A k \in (j + 1)..i : IsTool(t[k])
    BY <1>3 DEF Awaited
  <2>2. \A k \in (j + 1)..(i + 1) : k \in (j + 1)..i \/ k = i + 1
    OBVIOUS
  <2> QED BY <1>3, <2>1, <2>2 DEF Awaited
<1> QED BY <1>1, <1>2, <1>3

LEMMA AwaitedSame ==
    ASSUME NEW t, NEW u, NEW i \in Nat, \A j \in 1..i : t[j] = u[j], NEW id, Awaited(t, i, id)
    PROVE  Awaited(u, i, id)
<1>1. PICK j \in 1..i : HasCall(t[j], id) /\ \A k \in (j + 1)..i : IsTool(t[k])
  BY DEF Awaited
<1>2. \A k \in (j + 1)..i : k \in 1..i
  OBVIOUS
<1> QED BY <1>1, <1>2 DEF Awaited

LEMMA AnsweredIsAwaited ==
    ASSUME NEW S, NEW t \in Seq(S)
    PROVE  Answered(t) <=> \A i \in 1..Len(t) : IsTool(t[i]) => Awaited(t, i - 1, t[i].id)
BY LenProperties DEF Answered, Awaited

LEMMA AppendAnswered ==
    ASSUME NEW S, NEW t \in Seq(S), NEW m \in S, Answered(t), IsTool(m) => Awaited(t, Len(t), m.id)
    PROVE  Answered(Append(t, m))
<1> DEFINE u == Append(t, m)
<1>1. /\ Len(t) \in Nat /\ u \in Seq(S) /\ Len(u) = Len(t) + 1 /\ u[Len(t) + 1] = m
      /\ \A i \in 1..Len(t) : u[i] = t[i]
  BY AppendProperties, LenProperties
<1> HIDE DEF u
<1> SUFFICES ASSUME NEW i \in 1..(Len(t) + 1), IsTool(u[i]) PROVE Awaited(u, i - 1, u[i].id)
  BY <1>1, AnsweredIsAwaited DEF u
<1>2. i - 1 \in Nat /\ \A j \in 1..(i - 1) : t[j] = u[j]
  BY <1>1
<1>3. CASE i \in 1..Len(t)
  <2>1. Awaited(t, i - 1, t[i].id)
    BY <1>1, <1>3, AnsweredIsAwaited
  <2> QED BY <1>1, <1>2, <1>3, <2>1, AwaitedSame
<1>4. CASE i = Len(t) + 1
  <2>1. Awaited(t, i - 1, m.id)
    BY <1>1, <1>4
  <2> QED BY <1>1, <1>2, <1>4, <2>1, AwaitedSame
<1> QED BY <1>1, <1>3, <1>4

\* An empty message makes no call and answers none.
LEMMA EmptyIsMute ==
    ASSUME NEW m, ChatMessageIsEmpty(m)
    PROVE  ~IsTool(m) /\ \A id : ~HasCall(m, id)
BY DEF ChatMessageIsEmpty, IsTool, HasCall

\* Dropping the empty messages separates no result from its call.
LEMMA FilledAnswered ==
    ASSUME NEW S, NEW s \in Seq(S), Answered(s)
    PROVE  Filled(s) \in Seq(S) /\ Answered(Filled(s))
<1> DEFINE f == KeptOf(s)
           P(i) == /\ f[i] \in Seq(S) /\ Answered(f[i])
                   /\ \A id : Awaited(s, i, id) => Awaited(f[i], Len(f[i]), id)
           N == {i \in Nat : i <= Len(s) => P(i)}
<1>0. Len(s) \in Nat
  BY LenProperties
<1>1. /\ f[0] = <<>>
      /\ \A i \in 1..Len(s) : f[i] =
            IF ChatMessageIsEmpty(s[i]) THEN f[i - 1] ELSE Append(f[i - 1], s[i])
  BY <1>0, KeptValues
<1> HIDE DEF f
<1>2. 0 \in N
  <2>1. Answered(<<>>) /\ <<>> \in Seq(S)
    BY EmptySeq DEF Answered
  <2>2. \A id : ~Awaited(s, 0, id)
    BY DEF Awaited
  <2> QED BY <1>1, <2>1, <2>2
<1>3. ASSUME NEW n \in N PROVE n + 1 \in N
  <2> SUFFICES ASSUME n + 1 <= Len(s) PROVE P(n + 1)
    BY <1>3
  <2>0. n \in Nat /\ n + 1 \in 1..Len(s) /\ (n + 1) - 1 = n
    BY <1>0
  <2>1. P(n)
    BY <1>0, <2>0
  <2>2. s[n + 1] \in S /\ f[n] \in Seq(S)
    BY <2>0, <2>1, ElementOfSeq
  <2>3. CASE ChatMessageIsEmpty(s[n + 1])
    <3>1. f[n + 1] = f[n]
      BY <1>1, <2>0, <2>3
    <3>2. \A id : ~Awaited(s, n + 1, id)
      BY <2>0, <2>3, EmptyIsMute, AwaitedNext
    <3> QED BY <2>1, <3>1, <3>2
  <2>4. CASE ~ChatMessageIsEmpty(s[n + 1])
    <3> DEFINE m == s[n + 1]
               g == Append(f[n], m)
    <3>1. f[n + 1] = g
      BY <1>1, <2>0, <2>4
    <3>2. /\ g \in Seq(S) /\ Len(f[n]) \in Nat /\ Len(g) = Len(f[n]) + 1 /\ g[Len(f[n]) + 1] = m
          /\ \A i \in 1..Len(f[n]) : g[i] = f[n][i]
      BY <2>2, AppendProperties, LenProperties
    <3> HIDE DEF g
    <3>3. IsTool(m) => Awaited(s, n, m.id)
      BY <2>0, AnsweredIsAwaited
    <3>4. Answered(g)
      BY <2>1, <2>2, <3>3, AppendAnswered DEF g
    <3>5. ASSUME NEW id, Awaited(s, n + 1, id) PROVE Awaited(g, Len(g), id)
      <4>1. HasCall(m, id) \/ (IsTool(m) /\ Awaited(s, n, id))
        BY <2>0, <3>5, AwaitedNext
      <4>2. IsTool(m) /\ Awaited(s, n, id) => Awaited(g, Len(f[n]), id)
        BY <2>1, <3>2, AwaitedSame
      <4> QED BY <3>2, <4>1, <4>2, AwaitedNext
    <3> QED BY <3>1, <3>2, <3>4, <3>5
  <2> QED BY <2>3, <2>4
<1>4. N = Nat
  <2>1. N \in SUBSET Nat
    OBVIOUS
  <2> HIDE DEF N
  <2> QED BY <1>2, <1>3, <2>1, AllNumbers
<1>5. P(Len(s))
  BY <1>0, <1>4
<1> QED BY <1>5, FilledIsKept DEF f

----------------------------------------------------------------------------
(* The last turn, and what is pruned                                       *)

\* The last turn begins with a message that is no result, and goes on with results.
LEMMA LastTurn ==
    ASSUME NEW S, NEW t \in Seq(S), Answered(t), t # <<>>
    PROVE  /\ SequenceStart(t) \in 1..Len(t) /\ ~IsTool(t[SequenceStart(t)])
           /\ \A i \in (SequenceStart(t) + 1)..Len(t) : IsTool(t[i])
<1> DEFINE others == {i \in 1..Len(t) : ~IsTool(t[i])}
<1>1. Len(t) \in Nat /\ 1 \in 1..Len(t)
  BY EmptySeq, LenProperties
<1>2. 1 \in others
  <2>1. \A id : ~Awaited(t, 0, id)
    BY DEF Awaited
  <2> QED BY <1>1, <2>1, AnsweredIsAwaited
<1>3. \E m \in others : \A j \in others : j <= m
  <2>1. others \in SUBSET (1..Len(t)) /\ others # {}
    BY <1>2
  <2> HIDE DEF others
  <2> QED BY <1>1, <2>1, GreatestOf
<1>4. SequenceStart(t) = CHOOSE i \in others : \A j \in others : j <= i
  BY <1>2 DEF SequenceStart
<1>5. SequenceStart(t) \in others /\ \A j \in others : j <= SequenceStart(t)
  <2> HIDE DEF others
  <2> QED BY <1>3, <1>4
<1> HIDE DEF SequenceStart
<1>6. ASSUME NEW i \in (SequenceStart(t) + 1)..Len(t) PROVE IsTool(t[i])
  <2>1. i \in 1..Len(t) /\ ~(i <= SequenceStart(t))
    BY <1>5
  <2> QED BY <1>5, <2>1
<1> QED BY <1>5, <1>6

\* The pruning loop.  It stops where the rest has room, and goes on behind a message
\* and its results.
RestOf(h, k) == SubSeq(h, k, Len(h))
HasRoom(h, limit, k) == k = Len(h) + 1 \/ TokensOf(RestOf(h, k)) <= limit
Further(h, k) ==
    CHOOSE j \in (k + 1)..(Len(h) + 1) :
        /\ j = Len(h) + 1 \/ ~IsTool(h[j])
        /\ \A i \in (k + 1)..(j - 1) : IsTool(h[i])
Loops(h, limit, f) ==
    f = [k \in 1..(Len(h) + 1) |->
            IF HasRoom(h, limit, k) THEN RestOf(h, k) ELSE f[Further(h, k)]]
LoopOf(h, limit) == CHOOSE f : Loops(h, limit, f)

LEMMA PruneIsLoop == ASSUME NEW h, NEW limit PROVE Prune(h, limit) = LoopOf(h, limit)[1]
BY Zenon DEF Prune, LoopOf, Loops, RestOf, HasRoom, Further

\* Where it stops when it begins at k.
Places(h, limit, k) ==
    {j \in k..(Len(h) + 1) :
        HasRoom(h, limit, j) /\ (j = k \/ j = Len(h) + 1 \/ ~IsTool(h[j]))}
Place(h, limit, k) == CHOOSE j \in Places(h, limit, k) : \A i \in Places(h, limit, k) : j <= i

LEMMA FurtherIsNext ==
    ASSUME NEW h, Len(h) \in Nat, NEW k \in 1..Len(h)
    PROVE  /\ Further(h, k) \in (k + 1)..(Len(h) + 1)
           /\ Further(h, k) = Len(h) + 1 \/ ~IsTool(h[Further(h, k)])
           /\ \A i \in (k + 1)..(Further(h, k) - 1) : IsTool(h[i])
<1> DEFINE J == {j \in (k + 1)..(Len(h) + 1) : j = Len(h) + 1 \/ ~IsTool(h[j])}
<1>1. PICK m \in J : \A j \in J : m <= j
  <2>1. J \in SUBSET Nat /\ Len(h) + 1 \in J
    OBVIOUS
  <2> HIDE DEF J
  <2> QED BY <2>1, LeastOf
<1>2. \A i \in (k + 1)..(m - 1) : IsTool(h[i])
  <2> SUFFICES ASSUME NEW i \in (k + 1)..(m - 1) PROVE IsTool(h[i])
    OBVIOUS
  <2>1. i \in (k + 1)..(Len(h) + 1) /\ i # Len(h) + 1 /\ ~(m <= i)
    OBVIOUS
  <2> QED BY <1>1, <2>1
<1>3. \E j \in (k + 1)..(Len(h) + 1) :
          /\ j = Len(h) + 1 \/ ~IsTool(h[j])
          /\ \A i \in (k + 1)..(j - 1) : IsTool(h[i])
  BY <1>2
<1> QED BY <1>3, Zenon DEF Further

LEMMA PlaceIsLeast ==
    ASSUME NEW h, Len(h) \in Nat, NEW limit, NEW k \in 1..(Len(h) + 1)
    PROVE  Place(h, limit, k) \in Places(h, limit, k)
           /\ \A i \in Places(h, limit, k) : Place(h, limit, k) <= i
<1> DEFINE E == Places(h, limit, k)
<1>1. E \in SUBSET Nat /\ Len(h) + 1 \in E
  BY DEF Places, HasRoom
<1> HIDE DEF E
<1>2. \E j \in E : \A i \in E : j <= i
  BY <1>1, LeastOf
<1> QED BY <1>2, Zenon DEF Place, E

LEMMA PlaceIsHere ==
    ASSUME NEW h, Len(h) \in Nat, NEW limit, NEW k \in 1..(Len(h) + 1), HasRoom(h, limit, k)
    PROVE  Place(h, limit, k) = k
<1>1. k \in Places(h, limit, k) /\ \A j \in Places(h, limit, k) : j \in Int /\ k <= j
  BY DEF Places
<1> QED BY <1>1, PlaceIsLeast

LEMMA PlaceIsFurther ==
    ASSUME NEW h, Len(h) \in Nat, NEW limit, NEW k \in 1..(Len(h) + 1), ~HasRoom(h, limit, k)
    PROVE  k \in 1..Len(h) /\ Place(h, limit, k) = Place(h, limit, Further(h, k))
<1>1. k \in 1..Len(h)
  BY DEF HasRoom
<1> DEFINE n == Further(h, k)
<1>2. /\ n \in (k + 1)..(Len(h) + 1) /\ (n = Len(h) + 1 \/ ~IsTool(h[n]))
      /\ \A i \in (k + 1)..(n - 1) : IsTool(h[i])
  BY <1>1, FurtherIsNext
<1> HIDE DEF n
<1>3. ASSUME NEW j \in Places(h, limit, k) PROVE j \in Places(h, limit, n)
  <2>1. j \in k..(Len(h) + 1) /\ HasRoom(h, limit, j) /\ j # k /\ (j = Len(h) + 1 \/ ~IsTool(h[j]))
    BY DEF Places
  <2>2. j \in n..(Len(h) + 1)
    BY <1>2, <2>1
  <2> QED BY <2>1, <2>2 DEF Places
<1>4. ASSUME NEW j \in Places(h, limit, n) PROVE j \in Places(h, limit, k)
  <2>1. /\ j \in n..(Len(h) + 1) /\ HasRoom(h, limit, j)
        /\ j = n \/ j = Len(h) + 1 \/ ~IsTool(h[j])
    BY DEF Places
  <2>2. j \in k..(Len(h) + 1)
    BY <1>2, <2>1
  <2> QED BY <1>2, <2>1, <2>2 DEF Places
<1>5. Places(h, limit, k) = Places(h, limit, n)
  BY <1>3, <1>4
<1> QED BY <1>1, <1>5 DEF Place, n

LEMMA LoopExists ==
    ASSUME NEW h, Len(h) \in Nat, NEW limit
    PROVE  Loops(h, limit, LoopOf(h, limit))
<1> DEFINE g == [k \in 1..(Len(h) + 1) |-> RestOf(h, Place(h, limit, k))]
<1>1. \A k \in 1..(Len(h) + 1) :
          g[k] = IF HasRoom(h, limit, k) THEN RestOf(h, k) ELSE g[Further(h, k)]
  <2> SUFFICES ASSUME NEW k \in 1..(Len(h) + 1)
               PROVE  g[k] = IF HasRoom(h, limit, k) THEN RestOf(h, k) ELSE g[Further(h, k)]
    OBVIOUS
  <2>1. CASE HasRoom(h, limit, k)
    BY <2>1, PlaceIsHere
  <2>2. CASE ~HasRoom(h, limit, k)
    <3>1. k \in 1..Len(h) /\ Place(h, limit, k) = Place(h, limit, Further(h, k))
      BY <2>2, PlaceIsFurther
    <3>2. Further(h, k) \in 1..(Len(h) + 1)
      BY <3>1, FurtherIsNext
    <3> QED BY <2>2, <3>1, <3>2
  <2> QED BY <2>1, <2>2
<1>2. g = [k \in 1..(Len(h) + 1) |-> g[k]]
  OBVIOUS
<1> HIDE DEF g
<1>3. Loops(h, limit, g)
  BY <1>1, <1>2 DEF Loops
<1> QED BY <1>3 DEF LoopOf

LEMMA PruneEnds ==
    ASSUME NEW h, Len(h) \in Nat, NEW limit
    PROVE  Prune(h, limit) = RestOf(h, Place(h, limit, 1))
<1> DEFINE f == LoopOf(h, limit)
           n == Len(h) + 1
           N == {k \in 1..n : f[k] # RestOf(h, Place(h, limit, k))}
<1>1. \A k \in 1..n : f[k] = IF HasRoom(h, limit, k) THEN RestOf(h, k) ELSE f[Further(h, k)]
  <2>1. Loops(h, limit, f)
    BY LoopExists
  <2> HIDE DEF f
  <2> QED BY <2>1, Zenon DEF Loops
<1> HIDE DEF f
<1>2. N = {}
  <2> SUFFICES ASSUME N # {} PROVE FALSE
    OBVIOUS
  <2>1. PICK m \in N : \A k \in N : k <= m
    <3>1. N \in SUBSET (1..n) /\ n \in Nat
      OBVIOUS
    <3> HIDE DEF N, n
    <3> QED BY <3>1, GreatestOf
  <2>2. CASE HasRoom(h, limit, m)
    BY <1>1, <2>1, <2>2, PlaceIsHere
  <2>3. CASE ~HasRoom(h, limit, m)
    <3>1. m \in 1..Len(h) /\ Place(h, limit, m) = Place(h, limit, Further(h, m))
      BY <2>1, <2>3, PlaceIsFurther
    <3>2. Further(h, m) \in 1..n /\ ~(Further(h, m) <= m)
      BY <3>1, FurtherIsNext
    <3>3. f[Further(h, m)] = RestOf(h, Place(h, limit, Further(h, m)))
      BY <2>1, <3>2
    <3> QED BY <1>1, <2>1, <2>3, <3>1, <3>3
  <2> QED BY <2>2, <2>3
<1>3. 1 \in 1..n
  OBVIOUS
<1>4. f[1] = RestOf(h, Place(h, limit, 1))
  BY <1>2, <1>3
<1> QED BY <1>4, PruneIsLoop DEF f

\* What pruning keeps has room, begins with no result, and is the longest such end.
LEMMA PruneKeeps ==
    ASSUME NEW h, Len(h) \in Nat, NEW limit
    PROVE  \E k \in 1..(Len(h) + 1) :
              /\ Prune(h, limit) = SubSeq(h, k, Len(h))
              /\ k = Len(h) + 1 \/ TokensOf(SubSeq(h, k, Len(h))) <= limit
              /\ k = 1 \/ k = Len(h) + 1 \/ ~IsTool(h[k])
              /\ \A j \in 1..(k - 1) : TokensOf(SubSeq(h, j, Len(h))) <= limit => IsTool(h[j])
<1> DEFINE k == Place(h, limit, 1)
<1>1. k \in Places(h, limit, 1) /\ \A j \in Places(h, limit, 1) : k <= j
  BY PlaceIsLeast
<1>2. Prune(h, limit) = RestOf(h, k)
  BY PruneEnds
<1> HIDE DEF k
<1>3. k \in 1..(Len(h) + 1) /\ HasRoom(h, limit, k) /\ (k = 1 \/ k = Len(h) + 1 \/ ~IsTool(h[k]))
  BY <1>1 DEF Places
<1>4. ASSUME NEW j \in 1..(k - 1), TokensOf(SubSeq(h, j, Len(h))) <= limit PROVE IsTool(h[j])
  <2>1. j \in 1..(Len(h) + 1) /\ ~(k <= j)
    BY <1>3
  <2>2. HasRoom(h, limit, j)
    BY <1>4 DEF HasRoom, RestOf
  <2>3. j \notin Places(h, limit, 1)
    BY <1>1, <2>1
  <2> QED BY <2>1, <2>2, <2>3 DEF Places
<1> QED BY <1>2, <1>3, <1>4 DEF HasRoom, RestOf

\* An end of a chat that begins with no result has the calls of its results.
LEMMA EndAnswered ==
    ASSUME NEW S, NEW t \in Seq(S), Answered(t), NEW k \in 1..Len(t), k = 1 \/ ~IsTool(t[k])
    PROVE  Answered(SubSeq(t, k, Len(t)))
<1> DEFINE n == Len(t)
           u == SubSeq(t, k, n)
<1>0. n \in Nat
  BY LenProperties
<1>1. u \in Seq(S) /\ Len(u) = n - k + 1 /\ \A i \in 1..(n - k + 1) : u[i] = t[k + i - 1]
  <2>1. \A i \in k..n : t[i] \in S
    BY ElementOfSeq
  <2> QED BY <1>0, <2>1, SubSeqProperties
<1> HIDE DEF u
<1> SUFFICES ASSUME NEW i \in 1..(n - k + 1), IsTool(u[i]) PROVE Awaited(u, i - 1, u[i].id)
  BY <1>1, AnsweredIsAwaited DEF u
<1>2. k + i - 1 \in 1..n /\ u[i] = t[k + i - 1]
  BY <1>0, <1>1
<1>3. Awaited(t, k + i - 2, u[i].id)
  <2>1. Awaited(t, (k + i - 1) - 1, t[k + i - 1].id)
    BY <1>2, AnsweredIsAwaited
  <2>2. (k + i - 1) - 1 = k + i - 2
    BY <1>0
  <2> QED BY <1>2, <2>1, <2>2
<1>4. PICK j \in 1..(k + i - 2) : /\ HasCall(t[j], u[i].id)
                                  /\ \A l \in (j + 1)..(k + i - 2) : IsTool(t[l])
  BY <1>3 DEF Awaited
<1>5. k <= j
  <2> SUFFICES ASSUME j < k PROVE FALSE
    BY <1>0
  <2>1. k # 1 /\ (k \in (j + 1)..(k + i - 2) \/ i = 1)
    BY <1>0
  <2> QED BY <1>2, <1>4, <2>1
<1>6. j - k + 1 \in 1..(i - 1) /\ u[j - k + 1] = t[j]
  BY <1>0, <1>1, <1>5
<1>7. ASSUME NEW l \in ((j - k + 1) + 1)..(i - 1) PROVE IsTool(u[l])
  <2>1. l \in 1..(n - k + 1) /\ k + l - 1 \in (j + 1)..(k + i - 2)
    BY <1>0, <1>5
  <2> QED BY <1>1, <1>4, <2>1
<1> QED BY <1>4, <1>6, <1>7 DEF Awaited

LEMMA EndIsSuffix ==
    ASSUME NEW S, NEW t \in Seq(S), NEW k \in 1..Len(t)
    PROVE  IsSuffix(SubSeq(t, k, Len(t)), t)
<1> DEFINE n == Len(t)
           u == SubSeq(t, k, n)
           r == Reverse(t)
           v == Reverse(u)
<1>0. n \in Nat
  BY LenProperties
<1>1. u \in Seq(S) /\ Len(u) = n - k + 1 /\ \A i \in 1..(n - k + 1) : u[i] = t[k + i - 1]
  <2>1. \A i \in k..n : t[i] \in S
    BY ElementOfSeq
  <2> QED BY <1>0, <2>1, SubSeqProperties
<1> HIDE DEF u
<1>2. r \in Seq(S) /\ Len(r) = n /\ \A i \in 1..n : r[i] = t[(n - i) + 1]
  <2>1. r = [i \in 1..n |-> t[(n - i) + 1]]
    BY DEF Reverse
  <2>2. \A i \in 1..n : t[(n - i) + 1] \in S
    BY <1>0, ElementOfSeq
  <2> HIDE DEF r
  <2> QED BY <1>0, <2>1, <2>2
<1>3. v \in Seq(S) /\ Len(v) = n - k + 1 /\ \A i \in 1..(n - k + 1) : v[i] = u[(n - k + 1 - i) + 1]
  <2>1. v = [i \in 1..(n - k + 1) |-> u[(n - k + 1 - i) + 1]]
    BY <1>1 DEF Reverse
  <2>2. \A i \in 1..(n - k + 1) : u[(n - k + 1 - i) + 1] \in S
    BY <1>0, <1>1, ElementOfSeq
  <2>3. n - k + 1 \in Nat
    BY <1>0
  <2> HIDE DEF v
  <2> QED BY <2>1, <2>2, <2>3
<1> HIDE DEF r, v
<1>4. \A i \in 1..(n - k + 1) : v[i] = r[i]
  <2> SUFFICES ASSUME NEW i \in 1..(n - k + 1) PROVE v[i] = r[i]
    OBVIOUS
  <2>1. v[i] = u[(n - k + 1 - i) + 1] /\ (n - k + 1 - i) + 1 \in 1..(n - k + 1)
    BY <1>0, <1>3
  <2>2. u[(n - k + 1 - i) + 1] = t[k + ((n - k + 1 - i) + 1) - 1]
    BY <1>1, <2>1
  <2>3. k + ((n - k + 1 - i) + 1) - 1 = (n - i) + 1 /\ i \in 1..n
    BY <1>0
  <2> QED BY <1>2, <2>1, <2>2, <2>3
<1>5. SubSeq(v, 1, Len(v)) = SubSeq(r, 1, Len(v))
  <2> DEFINE m == n - k + 1
             a == SubSeq(v, 1, m)
             b == SubSeq(r, 1, m)
  <2>1. m \in Nat /\ m <= n
    BY <1>0
  <2>2. \A i \in 1..m : v[i] \in S /\ r[i] \in S
    BY <1>2, <1>3, <2>1, ElementOfSeq
  <2>3. a \in Seq(S) /\ Len(a) = m /\ \A i \in 1..m : a[i] = v[i]
    BY <1>3, <2>1, <2>2, SubSeqProperties
  <2>4. b \in Seq(S) /\ Len(b) = m /\ \A i \in 1..m : b[i] = r[i]
    BY <1>2, <2>1, <2>2, SubSeqProperties
  <2> HIDE DEF a, b
  <2>5. a = b
    BY <1>4, <2>3, <2>4, SeqEqual
  <2> QED BY <1>3, <2>5 DEF a, b
<1> QED BY <1>0, <1>2, <1>3, <1>5 DEF IsSuffix, IsPrefix, r, v, u

\* One call of compileChatMessages that does not throw.
LEMMA CompileKeeps ==
    ASSUME NEW S, NEW msgs \in Seq(S), Answered(msgs), NEW limit, NEW isKnown,
           Compile(msgs, limit, isKnown).at = "done"
    PROVE  LET c == Compile(msgs, limit, isKnown)
               full == Filled(msgs)
               before == SubSeq(full, 1, Len(full) - Len(c.last))
               room == limit - TokensOf(c.last)
           IN  /\ Answered(c.history \o c.last)
               /\ IsSuffix(c.history \o c.last, full)
               /\ \A i \in DOMAIN c.last : i > 1 => IsTool(c.last[i])
               /\ c.last[1].role = "user" \/ c.last[1].calls # {}
               /\ c.history # <<>> => TokensOf(c.history) <= room
               /\ \A k \in 1..(Len(before) - Len(c.history)) :
                     TokensOf(SubSeq(before, k, Len(before))) <= room => IsTool(before[k])
<1> DEFINE full == Filled(msgs)
           n == Len(full)
           first == SequenceStart(full)
           last == SubSeq(full, first, n)
           before == SubSeq(full, 1, first - 1)
           room == limit - TokensOf(last)
           history == Prune(before, room)
           c == Compile(msgs, limit, isKnown)
<1>1. full \in Seq(S) /\ Answered(full) /\ n \in Nat
  BY FilledAnswered, LenProperties
<1> HIDE DEF full
<1>2. ~NoSequence(full) /\ c = [at |-> "done", history |-> history, last |-> last]
  BY DEF Compile, full
<1>0. full # <<>> /\ IsUserOrTool(full[n])
  BY <1>2 DEF NoSequence, Last
<1>4. /\ first \in 1..n /\ ~IsTool(full[first])
      /\ \A i \in (first + 1)..n : IsTool(full[i])
  BY <1>0, <1>1, LastTurn
<1>3. /\ full # <<>> /\ IsUserOrTool(full[n])
      /\ \A i \in (first + 1)..n : HasCall(full[first], full[i].id)
  BY <1>0, <1>2, <1>4 DEF NoSequence
<1> HIDE DEF first
<1>5. c.history = history /\ c.last = last
  <2> HIDE DEF history, last
  <2> QED BY <1>2
<1> HIDE DEF c
<1>6. /\ last \in Seq(S) /\ Len(last) = n - first + 1 /\ DOMAIN last = 1..(n - first + 1)
      /\ \A i \in 1..(n - first + 1) : last[i] = full[first + i - 1]
  <2>1. \A i \in first..n : full[i] \in S
    BY <1>1, <1>4, ElementOfSeq
  <2>2. last \in Seq(S) /\ Len(last) = n - first + 1
        /\ \A i \in 1..(n - first + 1) : last[i] = full[first + i - 1]
    <3>1. first \in Int /\ n \in Int /\ first <= n
      BY ONLY <1>1, <1>4
    <3> HIDE DEF n, full
    <3> QED BY ONLY <2>1, <3>1, SubSeqProperties
  <2> QED BY <2>2, LenProperties
<1>7. /\ before \in Seq(S) /\ Len(before) = first - 1
      /\ \A i \in 1..(first - 1) : before[i] = full[i]
  <2>1. \A i \in 1..(first - 1) : full[i] \in S
    BY <1>1, <1>4, ElementOfSeq
  <2>2. before \in Seq(S) /\ Len(before) = first - 1
        /\ \A i \in 1..((first - 1) - 1 + 1) : before[i] = full[1 + i - 1]
    BY <1>1, <1>4, <2>1, SubSeqProperties
  <2> QED BY <1>1, <1>4, <2>2
<1>8. before = SubSeq(full, 1, Len(full) - Len(last))
  <2>1. Len(full) - Len(last) = first - 1
    BY <1>1, <1>4, <1>6
  <2> QED BY <2>1
<1> HIDE DEF last, before
<1>9. PICK k \in 1..first :
          /\ history = SubSeq(before, k, first - 1)
          /\ k = first \/ TokensOf(SubSeq(before, k, first - 1)) <= room
          /\ k = 1 \/ k = first \/ ~IsTool(before[k])
          /\ \A j \in 1..(k - 1) :
                TokensOf(SubSeq(before, j, first - 1)) <= room => IsTool(before[j])
  <2>1. first - 1 \in Nat /\ (first - 1) + 1 = first
    BY <1>1, <1>4
  <2> HIDE DEF room
  <2> QED BY <1>7, <2>1, PruneKeeps
<1> HIDE DEF history
<1>10. history = SubSeq(full, k, first - 1) /\ Len(history) = first - k
  <2>1. CASE k = first
    <3>1. history = <<>> /\ SubSeq(full, k, first - 1) = <<>>
      BY <1>1, <1>4, <1>9, <2>1, SubSeqEmpty
    <3> QED BY <1>1, <1>4, <2>1, <3>1, EmptySeq
  <2>2. CASE k # first
    <3>1. /\ 1 \in 1..n /\ first - 1 \in 1..n
          /\ k \in 1..((first - 1) - 1 + 1) /\ first - 1 \in 1..((first - 1) - 1 + 1)
          /\ 1 + k - 1 = k /\ 1 + (first - 1) - 1 = first - 1
      BY <1>1, <1>4, <2>2
    <3>2. SubSeq(SubSeq(full, 1, first - 1), k, first - 1) = SubSeq(full, 1 + k - 1, 1 + (first - 1) - 1)
      BY <1>1, <3>1, SubSeqOfSubSeq
    <3>3. history = SubSeq(full, k, first - 1)
      BY <1>9, <3>1, <3>2 DEF before
    <3>4. \A i \in k..(first - 1) : before[i] \in S
      BY <1>4, <1>7, ElementOfSeq
    <3>5. Len(SubSeq(before, k, first - 1)) = first - k
      BY <1>4, <2>2, <3>4, SubSeqProperties
    <3> QED BY <1>9, <3>3, <3>5
  <2> QED BY <2>1, <2>2
<1>11. history \o last = SubSeq(full, k, n) /\ k \in 1..n
  <2>1. k \in 1..(n + 1) /\ first - 1 \in (k - 1)..n /\ n \in (first - 1)..n /\ (first - 1) + 1 = first
    BY <1>1, <1>4
  <2>2. SubSeq(full, k, first - 1) \o SubSeq(full, (first - 1) + 1, n) = SubSeq(full, k, n)
    BY <1>1, <2>1, ConcatAdjacentSubSeq
  <2> QED BY <1>4, <1>10, <2>1, <2>2 DEF last
<1>12. Answered(history \o last) /\ IsSuffix(history \o last, full)
  <2>1. k = 1 \/ ~IsTool(full[k])
    BY <1>1, <1>4, <1>7, <1>9
  <2> QED BY <1>1, <1>11, <2>1, EndAnswered, EndIsSuffix
<1>13. \A i \in DOMAIN last : i > 1 => IsTool(last[i])
  <2> SUFFICES ASSUME NEW i \in DOMAIN last, i > 1 PROVE IsTool(last[i])
    OBVIOUS
  <2>1. i \in 1..(n - first + 1) /\ first + i - 1 \in (first + 1)..n
    BY <1>1, <1>4, <1>6
  <2> QED BY <1>4, <1>6, <2>1
<1>14. last[1].role = "user" \/ last[1].calls # {}
  <2>1. last[1] = full[first]
    <3>1. 1 \in 1..(n - first + 1) /\ first + 1 - 1 = first
      BY <1>1, <1>4
    <3> QED BY <1>6, <3>1
  <2>2. CASE first = n
    BY <1>3, <1>4, <2>1, <2>2 DEF IsUserOrTool, IsTool
  <2>3. CASE first # n
    <3>1. n \in (first + 1)..n
      BY <1>1, <1>4, <2>3
    <3> QED BY <1>3, <2>1, <3>1 DEF HasCall
  <2> QED BY <2>2, <2>3
<1>15. history # <<>> => TokensOf(history) <= room
  <2>1. k = first => history = <<>>
    BY <1>4, <1>9, SubSeqEmpty
  <2> HIDE DEF room
  <2> QED BY <1>9, <2>1
<1>16. \A j \in 1..(Len(before) - Len(history)) :
           TokensOf(SubSeq(before, j, Len(before))) <= room => IsTool(before[j])
  <2>1. Len(before) - Len(history) = k - 1
    BY <1>4, <1>7, <1>10
  <2> HIDE DEF room
  <2> QED BY <1>7, <1>9, <2>1
<1> QED BY <1>5, <1>8, <1>12, <1>13, <1>14, <1>15, <1>16 DEF c, full

CompileInv ==
    /\ chat \in Conversations
    /\ compiled.at = "done" => compiled = Compile(chat, available, known)

\* Whatever the chat, and however tokens are counted: no result is sent without its
\* call, the last turn is sent, and as much of what came before as has room.
THEOREM CompiledIsSound == CompileSpec => []CompiledChatIsSound
<1>1. CompileInit => CompileInv
  BY DEF CompileInit, CompileInv
<1>2. CompileInv /\ [CompileNext]_compileVars => CompileInv'
  BY DEF CompileInv, CompileNext, CompileChat, compileVars
<1>3. CompileInv => CompiledChatIsSound
  <2> SUFFICES ASSUME CompileInv, compiled.at = "done", Answered(chat)
               PROVE  CompiledChatIsSound
    BY DEF CompiledChatIsSound
  <2>1. chat \in Seq(ToSet(chat)) /\ compiled = Compile(chat, available, known)
    BY ChatAssumption DEF CompileInv
  <2>2. Compile(chat, available, known).at = "done"
    BY <2>1
  <2> QED BY <2>1, <2>2, CompileKeeps DEF CompiledChatIsSound, Sent
<1> QED BY <1>1, <1>2, <1>3, PTL DEF CompileSpec

----------------------------------------------------------------------------
(* The connection to an MCP server                                         *)

Attempt(n, sig) ==
    [at: {"token", "wait", "returned"}, on: 0..n,
     work: {"none", "connecting", "late", "ended"}, settled: BOOLEAN,
     ctl: 0..n, signal: 1..sig]

\* Calls cs, the promise p among them, the connection's controller c and the
\* manager's one, sig.
McpTyped(cs, p, c, sig) ==
    /\ sig \in Nat \ {0} /\ Len(cs) \in Nat /\ cs \in Seq(Attempt(Len(cs), sig))
    /\ p \in 0..Len(cs) /\ c \in 0..Len(cs)
    /\ p # 0 => cs[p].work = "connecting"

McpInv ==
    /\ status \in {"not-connected", "connecting", "connected", "error"}
    /\ McpTyped(calls, connectionPromise, controller, signal)

LEMMA AttemptGrows ==
    ASSUME NEW m \in Nat, NEW n \in Nat, m <= n, NEW s \in Nat, NEW u \in Nat, s <= u
    PROVE  Attempt(m, s) \subseteq Attempt(n, u)
BY SMT DEF Attempt

LEMMA McpInvIsTypeOK == McpInv => McpTypeOK
<1> SUFFICES ASSUME McpInv PROVE McpTypeOK
  OBVIOUS
<1>1. DOMAIN calls = 1..Len(calls) /\ \A n \in DOMAIN calls : calls[n] \in Attempt(Len(calls), signal)
  BY ElementOfSeq, LenProperties DEF McpInv, McpTyped
<1> QED BY <1>1 DEF McpInv, McpTyped, McpTypeOK, Attempt

\* An abort settles promises, and no more.
LEMMA AbortTyping ==
    ASSUME NEW cs, NEW p, NEW c, NEW sig, McpTyped(cs, p, c, sig), NEW ctl, NEW old
    PROVE  McpTyped(Abort(cs, ctl, old), p, c, sig) /\ Len(Abort(cs, ctl, old)) = Len(cs)
<1> DEFINE A == Abort(cs, ctl, old)
           R == Attempt(Len(cs), sig)
<1>1. DOMAIN cs = 1..Len(cs) /\ \A n \in 1..Len(cs) : cs[n] \in R
  BY ElementOfSeq, LenProperties DEF McpTyped
<1>2. \A n \in 1..Len(cs) : A[n] \in R /\ A[n].work = cs[n].work
  BY <1>1 DEF Abort, Attempt
<1>3. A \in [1..Len(cs) -> R]
  <2>1. A = [n \in 1..Len(cs) |-> A[n]]
    BY <1>1 DEF Abort
  <2> HIDE DEF A
  <2> QED BY <1>2, <2>1
<1>4. A \in Seq(R) /\ Len(A) = Len(cs)
  <2> HIDE DEF A, R
  <2> QED BY <1>3, LenProperties DEF McpTyped
<1> HIDE DEF A
<1> QED BY <1>2, <1>4 DEF McpTyped, A

LEMMA SignalGrows ==
    ASSUME NEW cs, NEW p, NEW c, NEW sig, McpTyped(cs, p, c, sig)
    PROVE  McpTyped(cs, p, c, sig + 1)
<1>1. Attempt(Len(cs), sig) \subseteq Attempt(Len(cs), sig + 1)
  BY AttemptGrows DEF McpTyped
<1>2. \A n \in 1..Len(cs) : cs[n] \in Attempt(Len(cs), sig + 1)
  BY <1>1, ElementOfSeq DEF McpTyped
<1>3. cs \in Seq(Attempt(Len(cs), sig + 1))
  BY <1>2, LenProperties, SeqDef DEF McpTyped
<1> QED BY <1>3 DEF McpTyped

LEMMA CallAdded ==
    ASSUME NEW cs, NEW p, NEW c, NEW sig, McpTyped(cs, p, c, sig),
           NEW call \in Attempt(Len(cs) + 1, sig), NEW d \in 0..(Len(cs) + 1)
    PROVE  /\ McpTyped(Append(cs, call), p, d, sig)
           /\ call.work = "connecting" => McpTyped(Append(cs, call), Len(cs) + 1, d, sig)
<1> DEFINE n == Len(cs) + 1
           new == Append(cs, call)
<1>1. Attempt(Len(cs), sig) \subseteq Attempt(n, sig) /\ n \in Nat
  BY AttemptGrows DEF McpTyped
<1>2. \A i \in 1..Len(cs) : cs[i] \in Attempt(n, sig)
  BY <1>1, ElementOfSeq DEF McpTyped
<1>3. cs \in Seq(Attempt(n, sig))
  BY <1>2, LenProperties, SeqDef DEF McpTyped
<1>4. new \in Seq(Attempt(n, sig)) /\ Len(new) = n /\ new[n] = call
      /\ \A i \in 1..Len(cs) : new[i] = cs[i]
  BY <1>3, AppendProperties
<1> HIDE DEF new
<1> QED BY <1>1, <1>4 DEF McpTyped, new

LEMMA AttemptChanged ==
    ASSUME NEW n, NEW sig, NEW r \in Attempt(n, sig), NEW on \in 0..n
    PROVE  /\ [r EXCEPT !.at = "returned", !.work = "none"] \in Attempt(n, sig)
           /\ [r EXCEPT !.on = on, !.work = "none"] \in Attempt(n, sig)
           /\ [r EXCEPT !.at = "token", !.work = "none"] \in Attempt(n, sig)
BY DEF Attempt

LEMMA ConnectTyping ==
    ASSUME NEW cs, NEW sig, McpTyped(cs, connectionPromise, controller, sig), signal' = sig,
           status \in {"not-connected", "connecting", "connected", "error"},
           NEW force, Connect(force, cs, sig)
    PROVE  McpInv'
<1> DEFINE n == Len(cs) + 1
           call == [at |-> "wait", on |-> n, work |-> "connecting", settled |-> FALSE,
                    ctl |-> n, signal |-> sig]
           aborted == Abort(cs, controller, 0)
           R == Attempt(n, sig)
<1>1. n \in Nat /\ n # 0 /\ sig \in Nat \ {0} /\ connectionPromise \in 0..n /\ controller \in 0..n
  BY DEF McpTyped
<1>2. /\ call \in R /\ [call EXCEPT !.at = "returned", !.work = "none"] \in R
      /\ [call EXCEPT !.on = connectionPromise, !.work = "none"] \in R
      /\ [call EXCEPT !.at = "token", !.work = "none"] \in R
  <2>1. call \in R
    BY <1>1 DEF Attempt
  <2> HIDE DEF call, R
  <2>2. connectionPromise \in 0..n
    BY <1>1
  <2> QED BY <2>1, <2>2, AttemptChanged DEF R
<1>3. McpTyped(aborted, connectionPromise, controller, sig) /\ Len(aborted) = Len(cs)
  BY AbortTyping
<1>4. call.work = "connecting"
  OBVIOUS
<1>5. status' \in {"not-connected", "connecting", "connected", "error"}
  BY DEF Connect
<1>6. \/ /\ \E r \in R : calls' = Append(cs, r)
         /\ UNCHANGED <<connectionPromise, controller>>
      \/ /\ \E r \in R : calls' = Append(aborted, r) 
         /\ controller' = n /\ UNCHANGED connectionPromise
      \/ calls' = Append(aborted, call) /\ controller' = n /\ connectionPromise' = n
  <2> HIDE DEF R
  <2> QED BY <1>2 DEF Connect
<1>7. Len(cs) + 1 \in 0..(Len(cs) + 1) /\ controller \in 0..(Len(cs) + 1)
  BY <1>1
<1> HIDE DEF call, aborted, R
<1>8. \A r \in R : r \in Attempt(Len(cs) + 1, sig) /\ r \in Attempt(Len(aborted) + 1, sig)
  BY <1>3 DEF R
<1>9. CASE \E r \in R : calls' = Append(cs, r) /\ UNCHANGED <<connectionPromise, controller>>
  <2>1. PICK r \in R : calls' = Append(cs, r)
    BY <1>9
  <2>2. McpTyped(Append(cs, r), connectionPromise, controller, sig)
    <3>1. r \in Attempt(Len(cs) + 1, sig)
      BY <1>8
    <3> QED BY ONLY <1>7, <3>1, McpTyped(cs, connectionPromise, controller, sig), CallAdded
  <2> QED BY <1>5, <1>9, <2>1, <2>2 DEF McpInv
<1>10. CASE \E r \in R : calls' = Append(aborted, r)
                         /\ controller' = n /\ UNCHANGED connectionPromise
  <2>1. PICK r \in R : calls' = Append(aborted, r)
    BY <1>10
  <2>2. McpTyped(Append(aborted, r), connectionPromise, n, sig)
    <3>1. r \in Attempt(Len(aborted) + 1, sig)
      BY <1>8
    <3>2. n \in 0..(Len(aborted) + 1)
      BY <1>3, <1>7
    <3> QED BY ONLY <1>3, <3>1, <3>2, CallAdded
  <2> QED BY <1>5, <1>10, <2>1, <2>2 DEF McpInv
<1>11. CASE calls' = Append(aborted, call) /\ controller' = n /\ connectionPromise' = n
  <2>1. McpTyped(Append(aborted, call), n, n, sig)
    BY <1>2, <1>3, <1>4, <1>7, <1>8, CallAdded
  <2> QED BY <1>5, <1>11, <2>1 DEF McpInv
<1> QED BY <1>6, <1>9, <1>10, <1>11

\* One call changes, and is not the one of the promise unless it connects.
LEMMA OneCallTyping ==
    ASSUME McpInv, NEW n \in DOMAIN calls, NEW call \in Attempt(Len(calls), signal),
           calls' = [calls EXCEPT ![n] = call],
           status' \in {"not-connected", "connecting", "connected", "error"},
           UNCHANGED <<controller, signal>>,
           \/ connectionPromise' = 0
           \/ call.work = "connecting" /\ connectionPromise' \in {connectionPromise, n}
           \/ UNCHANGED connectionPromise /\ calls[n].work \in {call.work, "late"}
    PROVE  McpInv'
<1>1. DOMAIN calls = 1..Len(calls) /\ Len(calls) \in Nat
  BY LenProperties DEF McpInv, McpTyped
<1>2. calls' \in Seq(Attempt(Len(calls), signal)) /\ Len(calls') = Len(calls)
      /\ \A i \in 1..Len(calls) : calls'[i] = IF i = n THEN call ELSE calls[i]
  BY <1>1, ExceptSeq DEF McpInv, McpTyped
<1> QED BY <1>1, <1>2 DEF McpInv, McpTyped

LEMMA McpStep == McpInv /\ [McpNext]_mcpVars => McpInv'
<1> SUFFICES ASSUME McpInv, [McpNext]_mcpVars PROVE McpInv'
  OBVIOUS
<1> USE DEF McpInv
<1>0. /\ DOMAIN calls = 1..Len(calls)
      /\ \A n \in DOMAIN calls : calls[n] \in Attempt(Len(calls), signal)
      /\ controller \in 0..Len(calls)
  BY ElementOfSeq, LenProperties DEF McpTyped
<1>1. ASSUME NEW force \in BOOLEAN, RefreshConnections(force) PROVE McpInv'
  <2>1. McpTyped(Abort(calls, 0, signal), connectionPromise, controller, signal + 1)
    BY AbortTyping, SignalGrows
  <2> QED BY <1>1, <2>1, ConnectTyping DEF RefreshConnections
<1>2. CASE RefreshConnection
  BY <1>2, ConnectTyping DEF RefreshConnection
<1>3. CASE DropConnection
  <2>1. McpTyped(Abort(calls, controller, signal), connectionPromise, controller, signal + 1)
    BY AbortTyping, SignalGrows
  <2> QED BY <1>3, <2>1 DEF DropConnection
<1>4. ASSUME NEW n \in DOMAIN calls, TokenReturns(n) PROVE McpInv'
  <2> DEFINE call == [calls[n] EXCEPT !.at = "wait", !.work = "connecting", !.ctl = controller]
  <2>1. call \in Attempt(Len(calls), signal) /\ call.work = "connecting"
    BY <1>0 DEF Attempt
  <2>2. calls' = [calls EXCEPT ![n] = call]
    BY <1>0, <1>4 DEF TokenReturns, Attempt
  <2> HIDE DEF call
  <2> QED BY <1>4, <2>1, <2>2, OneCallTyping DEF TokenReturns
<1>5. ASSUME NEW n \in DOMAIN calls, CallReturns(n) PROVE McpInv'
  <2> DEFINE call == [calls[n] EXCEPT !.at = "returned"]
  <2>1. call \in Attempt(Len(calls), signal) /\ call.work = calls[n].work
    BY <1>0 DEF Attempt
  <2>2. calls' = [calls EXCEPT ![n] = call]
    BY <1>0, <1>5 DEF CallReturns, Attempt
  <2> HIDE DEF call
  <2> QED BY <1>5, <2>1, <2>2, OneCallTyping DEF CallReturns
<1>6. ASSUME NEW n \in DOMAIN calls, Connected(n) \/ Fails(n) \/ TimesOut(n) PROVE McpInv'
  <2>1. PICK st \in {"connected", "error"}, work \in {"ended", "late"} : Ends(n, st, work)
    BY <1>6 DEF Connected, Fails, TimesOut
  <2> DEFINE call == [calls[n] EXCEPT !.work = work, !.settled = TRUE]
  <2>2. call \in Attempt(Len(calls), signal)
    BY <1>0 DEF Attempt
  <2>3. calls' = [calls EXCEPT ![n] = call]
    BY <1>0, <2>1 DEF Ends, Attempt
  <2> HIDE DEF call
  <2> QED BY <2>1, <2>2, <2>3, OneCallTyping DEF Ends
<1>7. ASSUME NEW n \in DOMAIN calls, ConnectedLate(n) PROVE McpInv'
  <2> DEFINE call == [calls[n] EXCEPT !.work = "ended"]
  <2>1. call \in Attempt(Len(calls), signal)
    BY <1>0 DEF Attempt
  <2>2. calls' = [calls EXCEPT ![n] = call]
    BY <1>0, <1>7 DEF ConnectedLate, Attempt
  <2> HIDE DEF call
  <2> QED BY <1>7, <2>1, <2>2, OneCallTyping DEF ConnectedLate
<1>8. CASE UNCHANGED mcpVars
  BY <1>8 DEF mcpVars
<1> QED BY <1>1, <1>2, <1>3, <1>4, <1>5, <1>6, <1>7, <1>8 DEF McpNext

\* However the attempts overlap: the promise that the connection holds, by which a
\* new call would wait instead of connecting, is that of an attempt under way.
THEOREM McpTyping == McpSpec => []McpTypeOK
<1>1. McpInit => McpInv
  BY EmptySeq DEF McpInit, McpInv, McpTyped
<1> QED BY <1>1, McpStep, McpInvIsTypeOK, PTL DEF McpSpec
============================================================================
