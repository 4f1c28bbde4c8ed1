------------------------ MODULE VerticalDiff_proofs ------------------------
(***************************************************************************)
(* An edit that is shown line by line: no line is lost in its diff, the    *)
(* place where the next line goes is in the document, and what was         *)
(* streamed can be taken back.                                             *)
(***************************************************************************)
EXTENDS MCCore, Core_proofs

-----------------------------------------------------------------------------
(* What a sequence comes to, piece by piece                                *)

Pieces(s, e) == [i \in DOMAIN s |-> e[s[i]]]
IsPiece(e, S, V) == e \in [S -> Seq(V)]
Gathered(s, e) == FlattenSeq(Pieces(s, e))

LEMMA PiecesTyping ==
    ASSUME NEW S, NEW V, NEW e, IsPiece(e, S, V), NEW s \in Seq(S)
    PROVE  /\ Pieces(s, e) \in Seq(Seq(V)) /\ Len(Pieces(s, e)) = Len(s)
           /\ \A i \in 1..Len(s) : Pieces(s, e)[i] = e[s[i]]
<1>1. Len(s) \in Nat /\ DOMAIN s = 1..Len(s) /\ \A i \in 1..Len(s) : s[i] \in S
  BY LenProperties, ElementOfSeq
<1>2. Pieces(s, e) = [i \in 1..Len(s) |-> e[s[i]]]
  BY ONLY <1>1 DEF Pieces
<1>3. \A i \in 1..Len(s) : e[s[i]] \in Seq(V)
  BY <1>1 DEF IsPiece
<1> QED BY <1>1, <1>2, <1>3

LEMMA GatherTyping ==
    ASSUME NEW S, NEW V, NEW e, IsPiece(e, S, V), NEW s \in Seq(S)
    PROVE  Gathered(s, e) \in Seq(V) /\ (Len(s) = 0 => Gathered(s, e) = <<>>)
<1>1. Pieces(s, e) \in Seq(Seq(V)) /\ Len(Pieces(s, e)) = Len(s)
  BY PiecesTyping
<1> QED BY ONLY <1>1, FlattenTyping DEF Gathered

LEMMA GatherAppend ==
    ASSUME NEW S, NEW V, NEW e, IsPiece(e, S, V), NEW s \in Seq(S), NEW d \in S
    PROVE  Gathered(Append(s, d), e) = Gathered(s, e) \o e[d]
<1> DEFINE t == Append(s, d)
           p == Pieces(s, e)
           q == Pieces(t, e)
<1>1. /\ t \in Seq(S) /\ Len(t) = Len(s) + 1 /\ t[Len(s) + 1] = d /\ Len(s) \in Nat
      /\ \A i \in 1..Len(s) : t[i] = s[i]
  BY AppendProperties, LenProperties
<1> HIDE DEF t
<1>2. /\ p \in Seq(Seq(V)) /\ Len(p) = Len(s) /\ \A i \in 1..Len(s) : p[i] = e[s[i]]
      /\ q \in Seq(Seq(V)) /\ Len(q) = Len(t) /\ \A i \in 1..Len(t) : q[i] = e[t[i]]
  BY <1>1, PiecesTyping
<1> HIDE DEF p, q
<1>3. e[d] \in Seq(V)
  BY DEF IsPiece
<1>4. q = Append(p, e[d])
  <2> DEFINE r == Append(p, e[d])
  <2>1. /\ r \in Seq(Seq(V)) /\ Len(r) = Len(s) + 1 /\ r[Len(s) + 1] = e[d]
        /\ \A i \in 1..Len(s) : r[i] = p[i]
    BY <1>2, <1>3, AppendProperties
  <2> HIDE DEF r
  <2>2. ASSUME NEW i \in 1..Len(q) PROVE q[i] = r[i]
    <3>1. i \in 1..Len(s) \/ i = Len(s) + 1
      BY <1>1, <1>2
    <3>2. CASE i \in 1..Len(s)
      <4>1. i \in 1..Len(t)
        BY ONLY <1>1, <3>2
      <4>2. t[i] = s[i]
        BY ONLY <1>1, <3>2
      <4>3. q[i] = e[t[i]] /\ p[i] = e[s[i]] /\ r[i] = p[i]
        BY ONLY <1>2, <2>1, <3>2, <4>1
      <4> QED BY ONLY <4>2, <4>3
    <3>3. CASE i = Len(s) + 1
      <4>1. i \in 1..Len(t)
        BY ONLY <1>1, <3>3
      <4> QED BY ONLY <1>1, <1>2, <2>1, <3>3, <4>1
    <3> QED BY ONLY <3>1, <3>2, <3>3
  <2>3. Len(q) = Len(r)
    BY ONLY <1>1, <1>2, <2>1
  <2>4. q = r
    BY ONLY <1>2, <2>1, <2>2, <2>3, SeqEqual
  <2> QED BY ONLY <2>4 DEF r
<1>5. FlattenSeq(q) = FlattenSeq(p) \o e[d]
  BY ONLY <1>2, <1>3, <1>4, FlattenAppend
<1> QED BY ONLY <1>5 DEF Gathered, p, q, t

\* By induction, of every prefix of a sequence: what an element adds is for Last.
LEMMA AllPrefixes ==
    ASSUME NEW S, NEW s \in Seq(S), NEW Q, <<>> \in Q,
           \A t \in Seq(S), d \in S : t \in Q => Append(t, d) \in Q
    PROVE  s \in Q
<1> DEFINE N == {n \in Nat : n <= Len(s) => SubSeq(s, 1, n) \in Q}
<1>1. Len(s) \in Nat /\ \A i \in 1..Len(s) : s[i] \in S
  BY LenProperties, ElementOfSeq
<1>2. 0 \in N
  <2>1. SubSeq(s, 1, 0) = <<>>
    BY SubSeqEmpty
  <2> QED BY <2>1
<1>3. ASSUME NEW n \in N PROVE n + 1 \in N
  <2> SUFFICES ASSUME n + 1 <= Len(s) PROVE SubSeq(s, 1, n + 1) \in Q
    OBVIOUS
  <2> DEFINE front == SubSeq(s, 1, n)
             more == SubSeq(s, 1, n + 1)
  <2>1. n \in 0..Len(s) /\ n + 1 \in 0..Len(s) /\ n + 1 \in 1..Len(s)
    BY <1>1
  <2>2. front \in Seq(S) /\ Len(front) = n /\ \A i \in 1..n : front[i] = s[i]
    BY <1>1, <2>1, SubSeqProperties
  <2>3. /\ more \in Seq(S) /\ Len(more) = n + 1
        /\ \A i \in 1..(n + 1) : more[i] = s[i]
    BY <1>1, <2>1, SubSeqProperties
  <2>4. front \in Q
    BY <2>1
  <2> HIDE DEF front, more
  <2>5. more = Append(front, s[n + 1])
    <3> DEFINE r == Append(front, s[n + 1])
    <3>1. s[n + 1] \in S
      BY <1>1, <2>1
    <3>2. /\ r \in Seq(S) /\ Len(r) = n + 1 /\ r[n + 1] = s[n + 1]
          /\ \A i \in 1..n : r[i] = front[i]
      BY <2>2, <3>1, AppendProperties
    <3> HIDE DEF r
    <3>3. ASSUME NEW i \in 1..Len(more) PROVE more[i] = r[i]
      <4>1. i \in 1..n \/ i = n + 1
        BY <2>3
      <4> QED BY <2>2, <2>3, <3>2, <4>1
    <3>4. more = r
      BY ONLY <2>3, <3>2, <3>3, SeqEqual
    <3> QED BY ONLY <3>4 DEF r
  <2> QED BY <1>1, <2>1, <2>2, <2>4, <2>5 DEF more
<1>4. N = Nat
  <2> HIDE DEF N
  <2>1. N \in SUBSET Nat
    BY DEF N
  <2> QED BY ONLY <1>2, <1>3, <2>1, AllNumbers
<1>5. SubSeq(s, 1, Len(s)) \in Q
  BY <1>1, <1>4
<1> QED BY <1>5, SubSeqFull

LEMMA ConcatAppend ==
    ASSUME NEW S, NEW s \in Seq(S), NEW t \in Seq(S), NEW d \in S
    PROVE  s \o Append(t, d) = Append(s \o t, d)
<1>1. s \o t \in Seq(S) /\ <<d>> \in Seq(S)
  BY ConcatProperties
<1>2. Append(t, d) = t \o <<d>> /\ Append(s \o t, d) = (s \o t) \o <<d>>
  BY <1>1, AppendIsConcat
<1> QED BY <1>1, <1>2, ConcatAssociative

LEMMA GatherConcat ==
    ASSUME NEW S, NEW V, NEW e, IsPiece(e, S, V), NEW s \in Seq(S), NEW t \in Seq(S)
    PROVE  Gathered(s \o t, e) = Gathered(s, e) \o Gathered(t, e)
<1> DEFINE Q == {u \in Seq(S) : Gathered(s \o u, e) = Gathered(s, e) \o Gathered(u, e)}
<1>1. Gathered(s, e) \in Seq(V)
  BY GatherTyping
<1>2. <<>> \in Q
  <2>1. <<>> \in Seq(S) /\ Len(<<>>) = 0
    BY EmptySeq
  <2>2. Gathered(<<>>, e) = <<>>
    BY <2>1, GatherTyping
  <2>3. s \o <<>> = s /\ Gathered(s, e) \o <<>> = Gathered(s, e)
    BY <1>1, ConcatEmptySeq
  <2> QED BY <2>1, <2>2, <2>3
<1>3. ASSUME NEW u \in Seq(S), NEW d \in S, u \in Q PROVE Append(u, d) \in Q
  <2>1. /\ Append(u, d) \in Seq(S) /\ s \o u \in Seq(S)
        /\ Gathered(u, e) \in Seq(V) /\ e[d] \in Seq(V)
    BY AppendProperties, ConcatProperties, GatherTyping DEF IsPiece
  <2>2. Gathered(s \o Append(u, d), e) = Gathered(s \o u, e) \o e[d]
    <3>1. s \o Append(u, d) = Append(s \o u, d)
      BY ConcatAppend
    <3>2. Gathered(Append(s \o u, d), e) = Gathered(s \o u, e) \o e[d]
      <4> DEFINE su == s \o u
      <4>1. su \in Seq(S) /\ IsPiece(e, S, V) /\ d \in S
        BY ONLY IsPiece(e, S, V), <2>1, d \in S
      <4> HIDE DEF su
      <4>2. Gathered(Append(su, d), e) = Gathered(su, e) \o e[d]
        BY ONLY <4>1, GatherAppend
      <4> QED BY ONLY <4>2 DEF su
    <3> QED BY ONLY <3>1, <3>2
  <2>3. Gathered(s \o u, e) = Gathered(s, e) \o Gathered(u, e)
    BY <1>3
  <2>4. Gathered(Append(u, d), e) = Gathered(u, e) \o e[d]
    BY ONLY IsPiece(e, S, V), u \in Seq(S), d \in S, GatherAppend
  <2>5. (Gathered(s, e) \o Gathered(u, e)) \o e[d] = Gathered(s, e) \o (Gathered(u, e) \o e[d])
    <3> DEFINE p == Gathered(s, e)
               q == Gathered(u, e)
               r == e[d]
    <3>1. p \in Seq(V) /\ q \in Seq(V) /\ r \in Seq(V)
      BY ONLY <1>1, <2>1
    <3> HIDE DEF p, q, r
    <3>2. Regroups(V, p, q, r)
      BY ONLY <3>1, Regroup
    <3> QED BY ONLY <3>2 DEF Regroups, p, q, r
  <2> QED BY <2>1, <2>2, <2>3, <2>4, <2>5
<1>4. t \in Q
  <2> HIDE DEF Q
  <2> QED BY ONLY t \in Seq(S), <1>2, <1>3, AllPrefixes
<1> QED BY <1>4

LEMMA GatherOne ==
    ASSUME NEW S, NEW V, NEW e, IsPiece(e, S, V), NEW d \in S
    PROVE  Gathered(<<d>>, e) = e[d]
<1>1. <<>> \in Seq(S) /\ Len(<<>>) = 0 /\ e[d] \in Seq(V)
  BY EmptySeq DEF IsPiece
<1>2. Gathered(<<>>, e) = <<>>
  BY <1>1, GatherTyping
<1>3. Gathered(Append(<<>>, d), e) = Gathered(<<>>, e) \o e[d]
  BY ONLY <1>1, IsPiece(e, S, V), d \in S, GatherAppend
<1>4. Append(<<>>, d) = <<d>>
  OBVIOUS
<1> QED BY ONLY <1>1, <1>2, <1>3, <1>4, ConcatEmptySeq

\* Elements that come to nothing, and elements that come to one value each.
LEMMA GatherNone ==
    ASSUME NEW S, NEW V, NEW e, IsPiece(e, S, V), NEW R \in SUBSET S,
           \A d \in R : e[d] = <<>>, NEW s \in Seq(R)
    PROVE  Gathered(s, e) = <<>>
<1> DEFINE Q == {u \in Seq(S) : Gathered(u, e) = <<>>}
<1>1. <<>> \in Q
  <2>1. <<>> \in Seq(S) /\ Len(<<>>) = 0
    BY EmptySeq
  <2> QED BY <2>1, GatherTyping
<1>2. ASSUME NEW u \in Seq(R), NEW d \in R, u \in Q PROVE Append(u, d) \in Q
  <2>1. u \in Seq(S) /\ d \in S /\ Append(u, d) \in Seq(S)
    BY <1>2, AppendProperties
  <2>2. Gathered(Append(u, d), e) = Gathered(u, e) \o e[d]
    <3>1. u \in Seq(S) /\ d \in S
      BY ONLY <2>1
    <3> QED BY ONLY IsPiece(e, S, V), <3>1, GatherAppend
  <2>3. <<>> \o <<>> = <<>>
    OBVIOUS
  <2> QED BY <1>2, <2>1, <2>2, <2>3
<1>3. s \in Q
  <2> HIDE DEF Q
  <2> QED BY ONLY s \in Seq(R), <1>1, <1>2, AllPrefixes
<1> QED BY <1>3

LEMMA GatherEach ==
    ASSUME NEW S, NEW V, NEW e, IsPiece(e, S, V), NEW R \in SUBSET S,
           NEW g \in [R -> V], \A d \in R : e[d] = <<g[d]>>, NEW s \in Seq(R)
    PROVE  Gathered(s, e) = [i \in 1..Len(s) |-> g[s[i]]]
<1> DEFINE Each(u) == [i \in 1..Len(u) |-> g[u[i]]]
           Q == {u \in Seq(R) : Gathered(u, e) = Each(u)}
<1>1. <<>> \in Q
  <2>1. <<>> \in Seq(R) /\ <<>> \in Seq(S) /\ Len(<<>>) = 0
    BY EmptySeq
  <2>2. Gathered(<<>>, e) = <<>>
    BY <2>1, GatherTyping
  <2>3. Each(<<>>) = <<>>
    BY <2>1
  <2> QED BY <2>1, <2>2, <2>3
<1>2. ASSUME NEW u \in Seq(R), NEW d \in R, u \in Q PROVE Append(u, d) \in Q
  <2> DEFINE w == Append(u, d)
  <2>1. /\ u \in Seq(S) /\ d \in S /\ w \in Seq(R) /\ Len(w) = Len(u) + 1 /\ Len(u) \in Nat
        /\ w[Len(u) + 1] = d /\ \A i \in 1..Len(u) : w[i] = u[i] /\ u[i] \in R
    BY AppendProperties, LenProperties, ElementOfSeq
  <2>2. Gathered(w, e) = Gathered(u, e) \o e[d]
    BY ONLY IsPiece(e, S, V), <2>1, GatherAppend DEF w
  <2>3. Gathered(u, e) = Each(u) /\ e[d] = <<g[d]>>
    BY <1>2
  <2> HIDE DEF w
  <2>4. Each(u) \in Seq(V) /\ Len(Each(u)) = Len(u) /\ g[d] \in V
        /\ \A i \in 1..Len(u) : Each(u)[i] = g[u[i]]
    BY <2>1
  <2>5. Each(w) \in Seq(V) /\ Len(Each(w)) = Len(u) + 1
        /\ \A i \in 1..(Len(u) + 1) : Each(w)[i] = g[w[i]]
    <3>1. \A i \in 1..(Len(u) + 1) : w[i] \in R
      BY <2>1
    <3> QED BY <2>1, <3>1
  <2> HIDE DEF Each
  <2>6. Each(w) = Append(Each(u), g[d])
    <3> DEFINE r == Append(Each(u), g[d])
    <3>1. /\ r \in Seq(V) /\ Len(r) = Len(u) + 1 /\ r[Len(u) + 1] = g[d]
          /\ \A i \in 1..Len(u) : r[i] = Each(u)[i]
      BY <2>4, AppendProperties
    <3> HIDE DEF r
    <3>2. ASSUME NEW i \in 1..Len(Each(w)) PROVE Each(w)[i] = r[i]
      <4>1. i \in 1..Len(u) \/ i = Len(u) + 1
        BY <2>1, <2>5
      <4> QED BY <2>1, <2>4, <2>5, <3>1, <4>1
    <3>3. Each(w) = r
      BY ONLY <2>5, <3>1, <3>2, SeqEqual
    <3> QED BY ONLY <3>3 DEF r
  <2>7. Append(Each(u), g[d]) = Each(u) \o <<g[d]>>
    BY ONLY <2>4, AppendIsConcat
  <2> QED BY ONLY <2>1, <2>2, <2>3, <2>6, <2>7 DEF w
<1>3. s \in Q
  <2> HIDE DEF Q
  <2> QED BY ONLY s \in Seq(R), <1>1, <1>2, AllPrefixes
<1> QED BY <1>3

\* What a loop over a sequence leaves, turn by turn.
IsLoop(A, base, step, s, f) ==
    /\ f \in [0..Len(s) -> A] /\ f[0] = base
    /\ \A n \in 1..Len(s) : f[n] = step[<<f[n - 1], s[n]>>]

LEMMA FoldExists ==
    ASSUME NEW A, NEW S, NEW base \in A, NEW step \in [A \X S -> A], NEW s \in Seq(S)
    PROVE  \E f : IsLoop(A, base, step, s, f)
<1> DEFINE Upto(n, f) == f[0] = base /\ \A i \in 1..n : f[i] = step[<<f[i - 1], s[i]>>]
           N == {n \in Nat : n <= Len(s) => \E f \in [0..n -> A] : Upto(n, f)}
<1>1. Len(s) \in Nat /\ \A i \in 1..Len(s) : s[i] \in S
  BY LenProperties, ElementOfSeq
<1>2. 0 \in N
  <2> DEFINE f == [i \in 0..0 |-> base]
  <2>1. f \in [0..0 -> A] /\ Upto(0, f)
    OBVIOUS
  <2> QED BY <2>1
<1>3. ASSUME NEW n \in N PROVE n + 1 \in N
  <2> SUFFICES ASSUME n + 1 <= Len(s) PROVE \E f \in [0..(n + 1) -> A] : Upto(n + 1, f)
    OBVIOUS
  <2>1. PICK f \in [0..n -> A] : Upto(n, f)
    BY <1>1
  <2> DEFINE h == [i \in 0..(n + 1) |-> IF i <= n THEN f[i] ELSE step[<<f[n], s[n + 1]>>]]
  <2>2. n \in Nat /\ f[n] \in A /\ s[n + 1] \in S
    BY <1>1, <2>1
  <2>3. step[<<f[n], s[n + 1]>>] \in A
    BY <2>2
  <2>4. h \in [0..(n + 1) -> A]
    BY <2>2, <2>3
  <2>5. h[0] = base
    BY <2>1, <2>2
  <2>6. ASSUME NEW i \in 1..(n + 1) PROVE h[i] = step[<<h[i - 1], s[i]>>]
    <3>1. CASE i <= n
      BY <2>1, <2>2, <3>1
    <3>2. CASE i = n + 1
      <4>1. h[n] = f[n] /\ i - 1 = n
        BY <2>2, <3>2
      <4>2. h[n + 1] = step[<<f[n], s[n + 1]>>]
        BY ONLY <2>2 DEF h
      <4> HIDE DEF h
      <4> QED BY ONLY <3>2, <4>1, <4>2
    <3> QED BY <2>2, <3>1, <3>2
  <2> QED BY <2>4, <2>5, <2>6
<1>4. N = Nat
  <2> HIDE DEF N
  <2>1. N \in SUBSET Nat
    BY DEF N
  <2> QED BY ONLY <1>2, <1>3, <2>1, AllNumbers
<1> QED BY <1>1, <1>4 DEF IsLoop

-----------------------------------------------------------------------------
(* The diff                                                                *)

DiffItem == [type : {"same", "old", "new"}, line : Line]
DiffAcc == [olds : Seq(Line), permissive : BOOLEAN, out : Seq(DiffItem)]
OldPiece == [d \in DiffItem |-> IF d.type \in {"same", "old"} THEN <<d.line>> ELSE <<>>]
NewPiece == [d \in DiffItem |-> IF d.type \in {"same", "new"} THEN <<d.line>> ELSE <<>>]
TextPiece == [d \in Line |-> IF IsEmpty(d) THEN <<>> ELSE <<d.text>>]
SeenPiece == [d \in DiffItem |-> IF d.type = "old" \/ IsEmpty(d.line) THEN <<>> ELSE <<d.line.text>>]
SeenTexts(s) == Gathered(s, SeenPiece)

LEMMA ArePieces ==
    /\ IsPiece(OldPiece, DiffItem, Line) /\ IsPiece(NewPiece, DiffItem, Line)
    /\ IsPiece(TextPiece, Line, LineText) /\ IsPiece(SeenPiece, DiffItem, LineText)
<1>2. ASSUME NEW d \in Line PROVE d.text \in LineText
  BY DEF Line
<1>1. ASSUME NEW d \in DiffItem PROVE d.line \in Line /\ d.line.text \in LineText
  <2>1. d.line \in Line
    BY DEF DiffItem
  <2> QED BY <1>2, <2>1
<1>3. ASSUME NEW V, NEW v \in V PROVE <<v>> \in Seq(V) /\ <<>> \in Seq(V)
  OBVIOUS
<1>4. \A d \in DiffItem : /\ OldPiece[d] \in Seq(Line) /\ NewPiece[d] \in Seq(Line)
                          /\ SeenPiece[d] \in Seq(LineText)
  BY <1>1, <1>3 DEF OldPiece, NewPiece, SeenPiece
<1>5. \A d \in Line : TextPiece[d] \in Seq(LineText)
  BY <1>2, <1>3 DEF TextPiece
<1>6. OldPiece \in [DiffItem -> Seq(Line)]
  BY <1>4 DEF OldPiece
<1>7. NewPiece \in [DiffItem -> Seq(Line)]
  BY <1>4 DEF NewPiece
<1>8. SeenPiece \in [DiffItem -> Seq(LineText)]
  BY <1>4 DEF SeenPiece
<1>9. TextPiece \in [Line -> Seq(LineText)]
  BY <1>5 DEF TextPiece
<1> QED BY <1>6, <1>7, <1>8, <1>9 DEF IsPiece

LEMMA SidesAreGathered ==
    ASSUME NEW s \in Seq(DiffItem)
    PROVE  /\ OldSide(s) = Gathered(s, OldPiece) /\ NewSide(s) = Gathered(s, NewPiece)
           /\ OldSide(s) \in Seq(Line) /\ NewSide(s) \in Seq(Line)
<1>1. DOMAIN s = 1..Len(s) /\ \A i \in 1..Len(s) : s[i] \in DiffItem
  BY LenProperties, ElementOfSeq
<1>2. /\ [i \in DOMAIN s |-> IF s[i].type \in {"same", "old"} THEN <<s[i].line>> ELSE <<>>]
             = Pieces(s, OldPiece)
      /\ [i \in DOMAIN s |-> IF s[i].type \in {"same", "new"} THEN <<s[i].line>> ELSE <<>>]
             = Pieces(s, NewPiece)
  BY <1>1 DEF Pieces, OldPiece, NewPiece
<1>3. OldSide(s) = Gathered(s, OldPiece) /\ NewSide(s) = Gathered(s, NewPiece)
  BY ONLY <1>2 DEF OldSide, NewSide, LinesIn, Gathered
<1>4. Gathered(s, OldPiece) \in Seq(Line) /\ Gathered(s, NewPiece) \in Seq(Line)
  BY ArePieces, GatherTyping
<1> QED BY <1>3, <1>4

LEMMA TextsAreGathered ==
    ASSUME NEW s \in Seq(Line)
    PROVE  Texts(s) = Gathered(s, TextPiece)
<1>1. DOMAIN s = 1..Len(s) /\ \A i \in 1..Len(s) : s[i] \in Line
  BY LenProperties, ElementOfSeq
<1>2. [i \in DOMAIN s |-> IF IsEmpty(s[i]) THEN <<>> ELSE <<s[i].text>>] = Pieces(s, TextPiece)
  BY <1>1 DEF Pieces, TextPiece
<1> QED BY ONLY <1>2 DEF Texts, Gathered

LEMMA SeenIsTexts ==
    ASSUME NEW s \in Seq(DiffItem)
    PROVE  Texts(NewSide(s)) = SeenTexts(s)
<1> DEFINE Q == {t \in Seq(DiffItem) : Gathered(Gathered(t, NewPiece), TextPiece) = SeenTexts(t)}
<1>1. <<>> \in Q
  <2>1. <<>> \in Seq(DiffItem) /\ <<>> \in Seq(Line) /\ Len(<<>>) = 0
    BY EmptySeq
  <2>2. Gathered(<<>>, NewPiece) = <<>>
    BY <2>1, ArePieces, GatherTyping
  <2>3. Gathered(<<>>, TextPiece) = <<>>
    BY <2>1, ArePieces, GatherTyping
  <2>4. SeenTexts(<<>>) = <<>>
    BY <2>1, ArePieces, GatherTyping DEF SeenTexts
  <2> QED BY <2>1, <2>2, <2>3, <2>4
<1>2. ASSUME NEW t \in Seq(DiffItem), NEW d \in DiffItem, t \in Q PROVE Append(t, d) \in Q
  <2> DEFINE g == Gathered(t, NewPiece)
             n == NewPiece[d]
  <2>1. Append(t, d) \in Seq(DiffItem) /\ t \in Seq(DiffItem) /\ d \in DiffItem
    BY AppendProperties
  <2>2. g \in Seq(Line) /\ n \in Seq(Line)
    BY <2>1, ArePieces, GatherTyping DEF IsPiece
  <2>3. Gathered(Append(t, d), NewPiece) = g \o n
    BY ONLY <2>1, ArePieces, GatherAppend
  <2>4. SeenTexts(Append(t, d)) = SeenTexts(t) \o SeenPiece[d]
    BY ONLY <2>1, ArePieces, GatherAppend DEF SeenTexts
  <2>5. Gathered(n, TextPiece) = SeenPiece[d]
    <3>1. CASE d.type = "old"
      <4>1. n = <<>> /\ SeenPiece[d] = <<>> /\ <<>> \in Seq(Line) /\ Len(<<>>) = 0
        BY <2>1, <3>1 DEF NewPiece, SeenPiece
      <4> QED BY <4>1, ArePieces, GatherTyping
    <3>2. CASE d.type # "old"
      <4>1. d.type \in {"same", "new"} /\ d.line \in Line
        BY <2>1, <3>2 DEF DiffItem
      <4>2. n = <<d.line>>
        BY <2>1, <4>1 DEF NewPiece
      <4>3. Gathered(<<d.line>>, TextPiece) = TextPiece[d.line]
        BY ONLY <4>1, ArePieces, GatherOne
      <4>4. TextPiece[d.line] = SeenPiece[d]
        BY <2>1, <3>2, <4>1 DEF TextPiece, SeenPiece
      <4> QED BY <4>2, <4>3, <4>4
    <3> QED BY <3>1, <3>2
  <2> HIDE DEF g, n
  <2>6. Gathered(g \o n, TextPiece) = Gathered(g, TextPiece) \o Gathered(n, TextPiece)
    BY ONLY <2>2, ArePieces, GatherConcat
  <2>7. Gathered(g, TextPiece) = SeenTexts(t)
    BY <1>2 DEF g
  <2> QED BY <2>1, <2>3, <2>4, <2>5, <2>6, <2>7
<1>3. s \in Q
  <2> HIDE DEF Q
  <2> QED BY ONLY s \in Seq(DiffItem), <1>1, <1>2, AllPrefixes
<1>4. NewSide(s) = Gathered(s, NewPiece) /\ NewSide(s) \in Seq(Line)
  BY SidesAreGathered
<1> QED BY <1>3, <1>4, TextsAreGathered

LEMMA ItemsAppend ==
    ASSUME NEW s \in Seq(DiffItem), NEW d \in DiffItem
    PROVE  /\ Gathered(Append(s, d), OldPiece) = Gathered(s, OldPiece) \o OldPiece[d]
           /\ Gathered(Append(s, d), SeenPiece) = Gathered(s, SeenPiece) \o SeenPiece[d]
<1>1. IsPiece(OldPiece, DiffItem, Line) /\ IsPiece(SeenPiece, DiffItem, LineText)
  BY ArePieces
<1>2. Gathered(Append(s, d), OldPiece) = Gathered(s, OldPiece) \o OldPiece[d]
  BY <1>1, GatherAppend
<1>3. Gathered(Append(s, d), SeenPiece) = Gathered(s, SeenPiece) \o SeenPiece[d]
  BY <1>1, GatherAppend
<1> QED BY <1>2, <1>3

LEMMA ItemsConcat ==
    ASSUME NEW s \in Seq(DiffItem), NEW t \in Seq(DiffItem)
    PROVE  /\ Gathered(s \o t, OldPiece) = Gathered(s, OldPiece) \o Gathered(t, OldPiece)
           /\ Gathered(s \o t, SeenPiece) = Gathered(s, SeenPiece) \o Gathered(t, SeenPiece)
<1>1. IsPiece(OldPiece, DiffItem, Line) /\ IsPiece(SeenPiece, DiffItem, LineText)
  BY ArePieces
<1>2. Gathered(s \o t, OldPiece) = Gathered(s, OldPiece) \o Gathered(t, OldPiece)
  BY <1>1, GatherConcat
<1>3. Gathered(s \o t, SeenPiece) = Gathered(s, SeenPiece) \o Gathered(t, SeenPiece)
  BY <1>1, GatherConcat
<1> QED BY <1>2, <1>3

\* The line that is matched is one of the old ones, and an empty line matches an
\* empty one.
LEMMA MatchProperties ==
    ASSUME NEW new, NEW olds \in Seq(Line)
    PROVE  LET i == MatchIndex(new, olds)
           IN  i \in 0..Len(olds) /\ (i # 0 /\ IsEmpty(new) => IsEmpty(olds[i]))
<1>1. Len(olds) \in Nat
  BY LenProperties
<1>2. CASE IsEmpty(new)
  <2>1. olds # <<>> => 1 \in 1..Len(olds)
    BY <1>1, EmptySeq
  <2> QED BY <1>1, <1>2, <2>1 DEF MatchIndex
<1>3. CASE ~IsEmpty(new)
  <2> DEFINE I == {i \in 1..Len(olds) : Matches(new, olds[i])}
  <2>1. MatchIndex(new, olds) = IF I # {} THEN Min(I) ELSE 0
    BY <1>3 DEF MatchIndex, SelectInSeq
  <2>2. I # {} => Min(I) \in I
    <3> SUFFICES ASSUME I # {} PROVE Min(I) \in I
      OBVIOUS
    <3>1. I \in SUBSET Nat
      OBVIOUS
    <3> HIDE DEF I
    <3>2. \E m \in I : \A k \in I : m <= k
      BY <3>1, LeastOf
    <3> QED BY <3>2 DEF Min
  <2>3. I \subseteq 1..Len(olds)
    OBVIOUS
  <2> HIDE DEF I
  <2>4. MatchIndex(new, olds) \in 0..Len(olds)
    <3>1. MatchIndex(new, olds) = 0 \/ MatchIndex(new, olds) \in 1..Len(olds)
      BY ONLY <2>1, <2>2, <2>3
    <3> QED BY ONLY <1>1, <3>1
  <2> QED BY ONLY <1>3, <2>4
<1> QED BY <1>2, <1>3

\* What a turn of the loop adds to the diff for the old lines it passes.
OldItems(olds, n) == [j \in 1..n |-> Item("old", olds[j])]

LEMMA OldItemsGather ==
    ASSUME NEW olds \in Seq(Line), NEW n \in 0..Len(olds)
    PROVE  /\ OldItems(olds, n) \in Seq(DiffItem)
           /\ Gathered(OldItems(olds, n), OldPiece) = SubSeq(olds, 1, n)
           /\ SeenTexts(OldItems(olds, n)) = <<>>
<1> DEFINE R == {d \in DiffItem : d.type = "old"}
           s == OldItems(olds, n)
           g == [d \in R |-> d.line]
<1>1. Len(olds) \in Nat /\ \A j \in 1..n : olds[j] \in Line
  BY LenProperties, ElementOfSeq
<1>2. \A j \in 1..n : Item("old", olds[j]) \in R
  BY <1>1 DEF Item, DiffItem
<1>3. s \in Seq(R) /\ Len(s) = n /\ \A j \in 1..n : s[j] = Item("old", olds[j])
  BY <1>1, <1>2 DEF OldItems
<1>4. R \in SUBSET DiffItem /\ g \in [R -> Line]
  BY DEF DiffItem
<1>5. /\ \A d \in R : OldPiece[d] = <<g[d]>>
      /\ \A d \in R : SeenPiece[d] = <<>>
  BY DEF OldPiece, SeenPiece
<1>6. \A j \in 1..n : g[s[j]] = olds[j]
  BY <1>2, <1>3 DEF Item
<1> HIDE DEF R, s, g
<1>7. Gathered(s, OldPiece) = [j \in 1..Len(s) |-> g[s[j]]]
  BY ONLY ArePieces, <1>3, <1>4, <1>5, GatherEach
<1>8. [j \in 1..Len(s) |-> g[s[j]]] = SubSeq(olds, 1, n)
  <2> DEFINE u == [j \in 1..Len(s) |-> g[s[j]]]
             w == SubSeq(olds, 1, n)
  <2>1. u \in Seq(Line) /\ Len(u) = n /\ \A j \in 1..n : u[j] = olds[j]
    BY <1>1, <1>3, <1>6
  <2>2. w \in Seq(Line) /\ Len(w) = n /\ \A j \in 1..n : w[j] = olds[j]
    BY <1>1, SubSeqProperties
  <2> HIDE DEF u, w
  <2>3. u = w
    BY ONLY <2>1, <2>2, SeqEqual
  <2> QED BY ONLY <2>3 DEF u, w
<1>9. Gathered(s, SeenPiece) = <<>>
  BY ONLY ArePieces, <1>3, <1>4, <1>5, GatherNone
<1>10. s \in Seq(DiffItem)
  BY ONLY <1>3, <1>4, SeqMonotonic
<1> QED BY ONLY <1>7, <1>8, <1>9, <1>10 DEF SeenTexts, s

\* What it adds for the old line that matches.
MatchItems(old, new, keep) ==
    IF keep THEN <<Item("same", old)>> ELSE <<Item("old", old), Item("new", new)>>

LEMMA MatchItemsGather ==
    ASSUME NEW old \in Line, NEW new \in Line, NEW keep \in BOOLEAN,
           keep => new.text = old.text
    PROVE  /\ MatchItems(old, new, keep) \in Seq(DiffItem)
           /\ Gathered(MatchItems(old, new, keep), OldPiece) = <<old>>
           /\ SeenTexts(MatchItems(old, new, keep)) = TextPiece[new]
<1> DEFINE same == Item("same", old)
           was == Item("old", old)
           is == Item("new", new)
<1>1. /\ same \in DiffItem /\ was \in DiffItem /\ is \in DiffItem
      /\ same.type = "same" /\ was.type = "old" /\ is.type = "new"
      /\ same.line = old /\ was.line = old /\ is.line = new
  BY DEF Item, DiffItem
<1> HIDE DEF same, was, is
<1>2. OldPiece[same] = <<old>> /\ OldPiece[was] = <<old>> /\ OldPiece[is] = <<>>
  BY <1>1 DEF OldPiece
<1>3. /\ SeenPiece[was] = <<>> /\ SeenPiece[is] = TextPiece[new]
      /\ keep => SeenPiece[same] = TextPiece[new]
  BY <1>1 DEF SeenPiece, TextPiece, IsEmpty
<1>4. CASE keep
  <2>1. MatchItems(old, new, keep) = <<same>>
    BY <1>4 DEF MatchItems, same
  <2>2. Gathered(<<same>>, OldPiece) = OldPiece[same] /\ Gathered(<<same>>, SeenPiece) = SeenPiece[same]
    BY ONLY <1>1, ArePieces, GatherOne
  <2>3. <<same>> \in Seq(DiffItem)
    BY <1>1
  <2> QED BY <1>2, <1>3, <1>4, <2>1, <2>2, <2>3 DEF SeenTexts
<1>5. CASE ~keep
  <2>1. MatchItems(old, new, keep) = <<was, is>>
    BY <1>5 DEF MatchItems, was, is
  <2>2. Gathered(<<was>>, OldPiece) = OldPiece[was] /\ Gathered(<<was>>, SeenPiece) = SeenPiece[was]
    BY ONLY <1>1, ArePieces, GatherOne
  <2>3. <<was>> \in Seq(DiffItem) /\ <<was, is>> \in Seq(DiffItem) /\ <<was, is>> = Append(<<was>>, is)
    BY <1>1
  <2>4. /\ Gathered(Append(<<was>>, is), OldPiece) = Gathered(<<was>>, OldPiece) \o OldPiece[is]
        /\ Gathered(Append(<<was>>, is), SeenPiece) = Gathered(<<was>>, SeenPiece) \o SeenPiece[is]
    BY ONLY <1>1, <2>3, ItemsAppend
  <2>5. <<old>> \o <<>> = <<old>>
    OBVIOUS
  <2>6. <<>> \o TextPiece[new] = TextPiece[new]
    <3>1. TextPiece[new] \in Seq(LineText)
      BY ArePieces DEF IsPiece
    <3> QED BY ONLY <3>1, ConcatEmptySeq
  <2> QED BY <1>2, <1>3, <2>1, <2>2, <2>3, <2>4, <2>5, <2>6 DEF SeenTexts
<1> QED BY <1>4, <1>5

\* A turn moves old lines to the diff and adds the generated one.
StepKeeps(acc, new, b) ==
    /\ b \in DiffAcc
    /\ Gathered(b.out, OldPiece) \o b.olds = Gathered(acc.out, OldPiece) \o acc.olds
    /\ SeenTexts(b.out) = SeenTexts(acc.out) \o TextPiece[new]

LEMMA DiffStepKeeps ==
    ASSUME NEW acc \in DiffAcc, NEW new \in Line
    PROVE  StepKeeps(acc, new, DiffStep(acc, new))
<1> DEFINE olds == acc.olds
           out == acc.out
           i == MatchIndex(new, olds)
           old == olds[i]
           sameIndent == new.text = old.text /\ new.indent = old.indent
           fixed == new.text = old.text /\ (acc.permissive \/ new.text \in Long \/ IsEmpty(new))
           keep == sameIndent \/ fixed
           b == DiffStep(acc, new)
<1>1. olds \in Seq(Line) /\ out \in Seq(DiffItem) /\ acc.permissive \in BOOLEAN /\ Len(olds) \in Nat
      /\ acc = [olds |-> olds, permissive |-> acc.permissive, out |-> out]
  BY LenProperties DEF DiffAcc
<1>2. i \in 0..Len(olds)
  BY <1>1, MatchProperties
<1>3. CASE i = 0
  <2> DEFINE d == Item("new", new)
  <2>1. d \in DiffItem /\ OldPiece[d] = <<>> /\ SeenPiece[d] = TextPiece[new]
    BY DEF Item, DiffItem, OldPiece, SeenPiece, TextPiece
  <2>2. b = [acc EXCEPT !.out = Append(out, d)]
    BY <1>3 DEF DiffStep
  <2> HIDE DEF d, b
  <2>3. Append(out, d) \in Seq(DiffItem)
    BY ONLY <1>1, <2>1, AppendProperties
  <2>4. b \in DiffAcc /\ b.olds = olds /\ b.out = Append(out, d)
    BY <1>1, <2>2, <2>3 DEF DiffAcc
  <2>5. /\ Gathered(Append(out, d), OldPiece) = Gathered(out, OldPiece) \o OldPiece[d]
        /\ Gathered(Append(out, d), SeenPiece) = Gathered(out, SeenPiece) \o SeenPiece[d]
    BY ONLY <1>1, <2>1, ItemsAppend
  <2>6. Gathered(out, OldPiece) \o <<>> = Gathered(out, OldPiece)
    <3>1. Gathered(out, OldPiece) \in Seq(Line)
      BY ONLY <1>1, ArePieces, GatherTyping
    <3> QED BY ONLY <3>1, ConcatEmptySeq
  <2>7. StepKeeps(acc, new, b)
    BY <2>1, <2>4, <2>5, <2>6 DEF StepKeeps, SeenTexts
  <2> QED BY <2>7 DEF b
<1>4. CASE i # 0
  <2> DEFINE skipped == OldItems(olds, i - 1)
             tail == MatchItems(old, new, keep)
             rest == SubSeq(olds, i + 1, Len(olds))
  <2>1. i \in 1..Len(olds) /\ i - 1 \in 0..Len(olds) /\ i \in 0..Len(olds)
    BY <1>1, <1>2, <1>4
  <2>2. old \in Line
    BY <1>1, <2>1, ElementOfSeq
  <2>3. /\ b.olds = rest /\ b.permissive = (acc.permissive \/ (fixed /\ ~sameIndent))
        /\ b.out = (out \o skipped) \o tail
        /\ b = [olds |-> b.olds, permissive |-> b.permissive, out |-> b.out]
    BY <1>4 DEF DiffStep, OldItems, MatchItems
  <2>4. keep \in BOOLEAN /\ (keep => new.text = old.text)
    OBVIOUS
  <2>5. (acc.permissive \/ (fixed /\ ~sameIndent)) \in BOOLEAN
    OBVIOUS
  <2> HIDE DEF b, old, keep, fixed, sameIndent, i
  <2>6. /\ skipped \in Seq(DiffItem) /\ Gathered(skipped, OldPiece) = SubSeq(olds, 1, i - 1)
        /\ SeenTexts(skipped) = <<>>
    BY ONLY <1>1, <2>1, OldItemsGather
  <2>7. /\ tail \in Seq(DiffItem) /\ Gathered(tail, OldPiece) = <<old>>
        /\ SeenTexts(tail) = TextPiece[new]
    BY ONLY new \in Line, <2>2, <2>4, MatchItemsGather
  <2>8. rest \in Seq(Line) /\ olds = (SubSeq(olds, 1, i - 1) \o <<old>>) \o rest
        /\ SubSeq(olds, 1, i - 1) \in Seq(Line) /\ <<old>> \in Seq(Line)
    <3>1. rest \in Seq(Line) /\ olds = SubSeq(olds, 1, i) \o rest
      BY ONLY <1>1, <2>1, FromAPlace
    <3>2. SubSeq(olds, 1, i) = SubSeq(olds, 1, i - 1) \o <<olds[i]>>
      <4>1. 1 \in 1..Len(olds) /\ i \in 1..Len(olds)
        BY <1>1, <2>1
      <4> QED BY ONLY <1>1, <4>1, SubSeqRecursiveSecond
    <3>3. SubSeq(olds, 1, i - 1) \in Seq(Line)
      BY ONLY <1>1, <2>1, UpToAPlace
    <3>4. <<old>> \in Seq(Line)
      BY <2>2
    <3> QED BY ONLY <3>1, <3>2, <3>3, <3>4 DEF old
  <2> HIDE DEF skipped, tail, rest
  <2>9. out \o skipped \in Seq(DiffItem) /\ b.out \in Seq(DiffItem)
    BY ONLY <1>1, <2>3, <2>6, <2>7, ConcatProperties
  <2>10. b \in DiffAcc
    BY <2>3, <2>5, <2>8, <2>9 DEF DiffAcc
  <2>11. /\ Gathered(b.out, OldPiece) = (Gathered(out, OldPiece) \o Gathered(skipped, OldPiece))
                                             \o Gathered(tail, OldPiece)
         /\ Gathered(b.out, SeenPiece) = (Gathered(out, SeenPiece) \o Gathered(skipped, SeenPiece))
                                             \o Gathered(tail, SeenPiece)
    <3> DEFINE os == out \o skipped
    <3>1. /\ Gathered(os, OldPiece) = Gathered(out, OldPiece) \o Gathered(skipped, OldPiece)
          /\ Gathered(os, SeenPiece) = Gathered(out, SeenPiece) \o Gathered(skipped, SeenPiece)
      BY ONLY <1>1, <2>6, ItemsConcat
    <3>2. os \in Seq(DiffItem) /\ b.out = os \o tail
      BY ONLY <2>3, <2>9
    <3> HIDE DEF os
    <3>3. /\ Gathered(os \o tail, OldPiece) = Gathered(os, OldPiece) \o Gathered(tail, OldPiece)
          /\ Gathered(os \o tail, SeenPiece) = Gathered(os, SeenPiece) \o Gathered(tail, SeenPiece)
      BY ONLY <2>7, <3>2, ItemsConcat
    <3> QED BY ONLY <3>1, <3>2, <3>3
  <2>12. Gathered(out, OldPiece) \in Seq(Line) /\ Gathered(out, SeenPiece) \in Seq(LineText)
    BY ONLY <1>1, ArePieces, GatherTyping
  <2>13. SeenTexts(b.out) = SeenTexts(out) \o TextPiece[new]
    <3>1. Gathered(out, SeenPiece) \o <<>> = Gathered(out, SeenPiece)
      BY ONLY <2>12, ConcatEmptySeq
    <3> QED BY ONLY <2>6, <2>7, <2>11, <3>1 DEF SeenTexts
  <2>14. Gathered(b.out, OldPiece) \o b.olds = Gathered(out, OldPiece) \o olds
    <3> DEFINE g == Gathered(out, OldPiece)
               p == SubSeq(olds, 1, i - 1)
               q == <<old>>
    <3>1. g \in Seq(Line) /\ p \in Seq(Line) /\ q \in Seq(Line) /\ rest \in Seq(Line)
      BY ONLY <2>8, <2>12
    <3>2. Gathered(b.out, OldPiece) = (g \o p) \o q /\ olds = (p \o q) \o rest /\ b.olds = rest
      BY ONLY <2>3, <2>6, <2>7, <2>8, <2>11
    <3> HIDE DEF g, p, q
    <3>3. Regroups(Line, g, p, q)
      BY ONLY <3>1, Regroup
    <3>4. Regroups(Line, g, p \o q, rest)
      <4>1. p \o q \in Seq(Line)
        BY ONLY <3>3 DEF Regroups
      <4> QED BY ONLY <3>1, <4>1, Regroup
    <3>5. Gathered(b.out, OldPiece) \o b.olds = g \o olds
      BY ONLY <3>2, <3>3, <3>4 DEF Regroups
    <3> QED BY ONLY <3>5 DEF g
  <2>15. StepKeeps(acc, new, b)
    BY ONLY <2>10, <2>13, <2>14 DEF StepKeeps, olds, out
  <2> QED BY <2>15 DEF b
<1> QED BY <1>3, <1>4

\* A loop over lines that carries what has been diffed, and what it has by then.
StreamLoops(olds, news, f) ==
    f = [n \in 0..Len(news) |->
            IF n = 0 THEN [olds |-> olds, permissive |-> FALSE, out |-> <<>>]
            ELSE DiffStep(f[n - 1], news[n])]
StreamLoop(olds, news) == CHOOSE f : StreamLoops(olds, news, f)

LEMMA StreamLoopExists ==
    ASSUME NEW olds \in Seq(Line), NEW news \in Seq(Line)
    PROVE  StreamLoops(olds, news, StreamLoop(olds, news))
<1> DEFINE base == [olds |-> olds, permissive |-> FALSE, out |-> <<>>]
           step == [p \in DiffAcc \X Line |-> DiffStep(p[1], p[2])]
<1>1. base \in DiffAcc
  BY DEF DiffAcc
<1>2. step \in [DiffAcc \X Line -> DiffAcc]
  <2>1. ASSUME NEW p \in DiffAcc \X Line PROVE DiffStep(p[1], p[2]) \in DiffAcc
    <3>1. p[1] \in DiffAcc /\ p[2] \in Line
      OBVIOUS
    <3> QED BY ONLY <3>1, DiffStepKeeps DEF StepKeeps
  <2> QED BY ONLY <2>1 DEF step
<1>3. \A acc \in DiffAcc, new \in Line : step[<<acc, new>>] = DiffStep(acc, new)
  <2>1. ASSUME NEW acc \in DiffAcc, NEW new \in Line
        PROVE  step[<<acc, new>>] = DiffStep(acc, new)
    <3>1. /\ <<acc, new>> \in DiffAcc \X Line
          /\ <<acc, new>>[1] = acc /\ <<acc, new>>[2] = new
      OBVIOUS
    <3> QED BY ONLY <3>1 DEF step
  <2> QED BY ONLY <2>1
<1> HIDE DEF base, step
<1>13. PICK f : IsLoop(DiffAcc, base, step, news, f)
  BY ONLY news \in Seq(Line), <1>1, <1>2, FoldExists
<1>4. /\ f \in [0..Len(news) -> DiffAcc] /\ f[0] = base
      /\ \A n \in 1..Len(news) : f[n] = step[<<f[n - 1], news[n]>>]
  BY ONLY <1>13 DEF IsLoop
<1>5. Len(news) \in Nat /\ \A n \in 1..Len(news) : news[n] \in Line
  BY LenProperties, ElementOfSeq
<1>6. ASSUME NEW n \in 0..Len(news)
      PROVE  f[n] = IF n = 0 THEN base ELSE DiffStep(f[n - 1], news[n])
  <2>1. CASE n = 0
    BY <1>4, <2>1
  <2>2. CASE n # 0
    <3>1. n \in 1..Len(news) /\ n - 1 \in 0..Len(news)
      BY <1>5, <2>2
    <3>2. f[n - 1] \in DiffAcc
      BY ONLY <1>4, <3>1
    <3> QED BY ONLY <1>3, <1>4, <1>5, <2>2, <3>1, <3>2
  <2> QED BY <2>1, <2>2
<1>7. StreamLoops(olds, news, f)
  <2>1. f = [n \in 0..Len(news) |-> f[n]]
    BY ONLY <1>4
  <2> QED BY ONLY <1>6, <2>1 DEF StreamLoops, base
<1> QED BY <1>7 DEF StreamLoop

LEMMA StreamDiffIsLoop ==
    ASSUME NEW olds, NEW news
    PROVE  StreamDiff(olds, news) =
             LET end == StreamLoop(olds, news)[Len(news)]
             IN  end.out \o [j \in DOMAIN end.olds |-> Item("old", end.olds[j])]
BY DEF StreamDiff, StreamLoop, StreamLoops

\* The diff as it is streamed has all old lines, and the texts of all generated ones.
Diffed(olds, seen, acc) ==
    /\ acc \in DiffAcc
    /\ Gathered(acc.out, OldPiece) \o acc.olds = olds
    /\ SeenTexts(acc.out) = Gathered(seen, TextPiece)

LEMMA StreamDiffKeeps ==
    ASSUME NEW olds \in Seq(Line), NEW news \in Seq(Line)
    PROVE  /\ StreamDiff(olds, news) \in Seq(DiffItem)
           /\ Gathered(StreamDiff(olds, news), OldPiece) = olds
           /\ SeenTexts(StreamDiff(olds, news)) = Texts(news)
<1> DEFINE f == StreamLoop(olds, news)
           N == {n \in Nat : n <= Len(news) => Diffed(olds, SubSeq(news, 1, n), f[n])}
<1>1. Len(news) \in Nat /\ \A n \in 1..Len(news) : news[n] \in Line
  BY LenProperties, ElementOfSeq
<1>2. /\ f[0] = [olds |-> olds, permissive |-> FALSE, out |-> <<>>]
      /\ \A n \in 1..Len(news) : f[n] = DiffStep(f[n - 1], news[n])
  <2>1. StreamLoops(olds, news, f)
    BY StreamLoopExists
  <2> HIDE DEF f
  <2>2. ASSUME NEW n \in 0..Len(news)
        PROVE  f[n] = IF n = 0 THEN [olds |-> olds, permissive |-> FALSE, out |-> <<>>]
                      ELSE DiffStep(f[n - 1], news[n])
    BY ONLY <2>1 DEF StreamLoops
  <2>3. 0 \in 0..Len(news) /\ \A n \in 1..Len(news) : n \in 0..Len(news) /\ n # 0
    BY ONLY <1>1
  <2> QED BY ONLY <2>2, <2>3
<1> HIDE DEF f
<1>3. 0 \in N
  <2>1. f[0].out = <<>> /\ f[0].olds = olds /\ f[0] \in DiffAcc
    BY ONLY <1>2, olds \in Seq(Line) DEF DiffAcc
  <2>2. <<>> \in Seq(DiffItem) /\ <<>> \in Seq(Line) /\ Len(<<>>) = 0
    BY EmptySeq
  <2>3. Gathered(<<>>, OldPiece) = <<>> /\ Gathered(<<>>, SeenPiece) = <<>>
    BY ONLY <2>2, ArePieces, GatherTyping
  <2>4. Gathered(<<>>, TextPiece) = <<>> /\ <<>> \o olds = olds
    BY ONLY <2>2, olds \in Seq(Line), ArePieces, GatherTyping, ConcatEmptySeq
  <2>5. SubSeq(news, 1, 0) = <<>>
    BY SubSeqEmpty
  <2>6. Diffed(olds, SubSeq(news, 1, 0), f[0])
    BY ONLY <2>1, <2>3, <2>4, <2>5 DEF SeenTexts, Diffed
  <2> QED BY ONLY <2>6
<1>4. ASSUME NEW n \in N, n + 1 <= Len(news)
      PROVE  Diffed(olds, SubSeq(news, 1, n + 1), f[n + 1])
  <2>1. n \in Nat /\ n \in 0..Len(news) /\ n + 1 \in 1..Len(news) /\ (n + 1) - 1 = n
    BY ONLY <1>1, <1>4
  <2>2. Diffed(olds, SubSeq(news, 1, n), f[n])
    BY ONLY <1>1, <1>4, <2>1
  <2>3. f[n + 1] = DiffStep(f[n], news[n + 1]) /\ news[n + 1] \in Line
    BY ONLY <1>1, <1>2, <2>1
  <2>4. StepKeeps(f[n], news[n + 1], f[n + 1])
    BY ONLY <2>2, <2>3, DiffStepKeeps DEF Diffed
  <2>5. SubSeq(news, 1, n) \in Seq(Line)
    BY ONLY <2>1, news \in Seq(Line), UpToAPlace
  <2>6. SubSeq(news, 1, n + 1) = Append(SubSeq(news, 1, n), news[n + 1])
    <3>1. SubSeq(news, 1, n + 1) = SubSeq(news, 1, n) \o <<news[n + 1]>>
      <4>1. 1 \in 1..Len(news) /\ n + 1 \in 1..Len(news)
        BY <1>1, <2>1
      <4> QED BY ONLY news \in Seq(Line), <2>1, <4>1, SubSeqRecursiveSecond
    <3>2. Append(SubSeq(news, 1, n), news[n + 1]) = SubSeq(news, 1, n) \o <<news[n + 1]>>
      BY ONLY <2>3, <2>5, AppendIsConcat
    <3> QED BY ONLY <3>1, <3>2
  <2>7. Gathered(SubSeq(news, 1, n + 1), TextPiece)
           = Gathered(SubSeq(news, 1, n), TextPiece) \o TextPiece[news[n + 1]]
    <3> DEFINE front == SubSeq(news, 1, n)
               new == news[n + 1]
    <3>1. IsPiece(TextPiece, Line, LineText) /\ front \in Seq(Line) /\ new \in Line
      BY ONLY <2>3, <2>5, ArePieces
    <3> HIDE DEF front, new
    <3>2. Gathered(Append(front, new), TextPiece) = Gathered(front, TextPiece) \o TextPiece[new]
      BY ONLY <3>1, GatherAppend
    <3> QED BY ONLY <2>6, <3>2 DEF front, new
  <2> QED BY ONLY <2>2, <2>4, <2>7 DEF StepKeeps, Diffed
<1>5. N = Nat
  <2>1. N \in SUBSET Nat
    OBVIOUS
  <2>2. \A n \in N : n + 1 \in N
    BY ONLY <1>4
  <2> HIDE DEF N
  <2> QED BY ONLY <1>3, <2>1, <2>2, AllNumbers
<1>6. Diffed(olds, SubSeq(news, 1, Len(news)), f[Len(news)])
  BY ONLY <1>1, <1>5
<1> DEFINE end == f[Len(news)]
           left == OldItems(end.olds, Len(end.olds))
<1>7. /\ end \in DiffAcc /\ end.out \in Seq(DiffItem) /\ end.olds \in Seq(Line)
      /\ Len(end.olds) \in 0..Len(end.olds) /\ DOMAIN end.olds = 1..Len(end.olds)
  BY ONLY <1>6, LenProperties DEF DiffAcc, Diffed
<1>8. StreamDiff(olds, news) = end.out \o left
  BY ONLY <1>7, StreamDiffIsLoop DEF OldItems, f
<1> HIDE DEF end
<1>9. /\ left \in Seq(DiffItem) /\ SeenTexts(left) = <<>>
      /\ Gathered(left, OldPiece) = SubSeq(end.olds, 1, Len(end.olds))
  BY ONLY <1>7, OldItemsGather
<1>10. SubSeq(end.olds, 1, Len(end.olds)) = end.olds
  BY ONLY <1>7, SubSeqFull
<1> HIDE DEF left
<1>11. /\ Gathered(end.out \o left, OldPiece) = Gathered(end.out, OldPiece) \o Gathered(left, OldPiece)
       /\ Gathered(end.out \o left, SeenPiece)
             = Gathered(end.out, SeenPiece) \o Gathered(left, SeenPiece)
  BY ONLY <1>7, <1>9, ItemsConcat
<1>12. Gathered(end.out, SeenPiece) \o <<>> = Gathered(end.out, SeenPiece)
  <2>1. Gathered(end.out, SeenPiece) \in Seq(LineText)
    BY ONLY <1>7, ArePieces, GatherTyping
  <2> QED BY ONLY <2>1, ConcatEmptySeq
<1>13. SubSeq(news, 1, Len(news)) = news
  BY SubSeqFull
<1>14. Texts(news) = Gathered(news, TextPiece)
  BY TextsAreGathered
<1>15. end.out \o left \in Seq(DiffItem)
  BY ONLY <1>7, <1>9, ConcatProperties
<1> QED BY ONLY <1>6, <1>8, <1>9, <1>10, <1>11, <1>12, <1>13, <1>14, <1>15 DEF SeenTexts, Diffed, end

-----------------------------------------------------------------------------
(* The empty lines that are not inserted                                   *)

BlankItem == {d \in DiffItem : d.type = "new" /\ IsEmpty(d.line)}
FilterAcc == [first : BOOLEAN, buffer : Seq(BlankItem), out : Seq(DiffItem)]

LEMMA BlankIsNothing ==
    ASSUME NEW s \in Seq(BlankItem)
    PROVE  /\ s \in Seq(DiffItem)
           /\ Gathered(s, OldPiece) = <<>> /\ Gathered(s, SeenPiece) = <<>>
<1>1. BlankItem \in SUBSET DiffItem
  BY DEF BlankItem
<1>2. (\A d \in BlankItem : OldPiece[d] = <<>>) /\ (\A d \in BlankItem : SeenPiece[d] = <<>>)
  BY DEF BlankItem, OldPiece, SeenPiece
<1>3. Gathered(s, OldPiece) = <<>>
  BY ONLY s \in Seq(BlankItem), <1>1, <1>2, ArePieces, GatherNone
<1>4. Gathered(s, SeenPiece) = <<>>
  BY ONLY s \in Seq(BlankItem), <1>1, <1>2, ArePieces, GatherNone
<1>5. s \in Seq(DiffItem)
  BY ONLY s \in Seq(BlankItem), <1>1, SeqMonotonic
<1> QED BY <1>3, <1>4, <1>5

\* A line is passed on, or it is an empty one; those held back come before it or not.
FilterKeeps(acc, d, b) ==
    /\ b \in FilterAcc
    /\ Gathered(b.out, OldPiece) = Gathered(acc.out, OldPiece) \o OldPiece[d]
    /\ SeenTexts(b.out) = SeenTexts(acc.out) \o SeenPiece[d]

LEMMA FilterStepKeeps ==
    ASSUME NEW acc \in FilterAcc, NEW d \in DiffItem
    PROVE  FilterKeeps(acc, d, FilterStep(acc, d))
<1> DEFINE b == FilterStep(acc, d)
           out == acc.out
           buffer == acc.buffer
<1>1. /\ out \in Seq(DiffItem) /\ buffer \in Seq(BlankItem) /\ acc.first \in BOOLEAN
      /\ acc = [first |-> acc.first, buffer |-> buffer, out |-> out]
  BY DEF FilterAcc
<1>2. Gathered(out, OldPiece) \in Seq(Line) /\ Gathered(out, SeenPiece) \in Seq(LineText)
  BY ONLY <1>1, ArePieces, GatherTyping
<1>3. /\ Gathered(out, OldPiece) \o <<>> = Gathered(out, OldPiece)
      /\ Gathered(out, SeenPiece) \o <<>> = Gathered(out, SeenPiece)
  BY ONLY <1>2, ConcatEmptySeq
<1>4. CASE d.type = "new" /\ IsEmpty(d.line)
  <2> DEFINE held == IF acc.first THEN buffer ELSE Append(buffer, d)
  <2>1. b = [acc EXCEPT !.first = FALSE, !.buffer = held]
    BY <1>4 DEF FilterStep
  <2>2. d \in BlankItem
    BY <1>4 DEF BlankItem
  <2>3. Append(buffer, d) \in Seq(BlankItem)
    BY ONLY <1>1, <2>2, AppendProperties
  <2>4. held \in Seq(BlankItem)
    BY ONLY <1>1, <2>3 DEF held
  <2> HIDE DEF held, b
  <2>5. b \in FilterAcc /\ b.out = out
    BY <1>1, <2>1, <2>4 DEF FilterAcc
  <2>6. OldPiece[d] = <<>> /\ SeenPiece[d] = <<>>
    BY <1>4 DEF OldPiece, SeenPiece
  <2>7. FilterKeeps(acc, d, b)
    BY ONLY <1>3, <2>5, <2>6 DEF FilterKeeps, SeenTexts, out
  <2> QED BY ONLY <2>7 DEF b
<1>5. CASE ~(d.type = "new" /\ IsEmpty(d.line))
  <2> DEFINE held == IF d.type = "old" THEN <<>> ELSE buffer
             oh == out \o held
  <2>1. b = [first |-> FALSE, buffer |-> <<>>, out |-> oh \o <<d>>]
    BY <1>5 DEF FilterStep
  <2>2. held \in Seq(BlankItem) /\ <<>> \in Seq(BlankItem)
    BY <1>1
  <2> HIDE DEF held, b
  <2>3. /\ held \in Seq(DiffItem)
        /\ Gathered(held, OldPiece) = <<>> /\ Gathered(held, SeenPiece) = <<>>
    BY ONLY <2>2, BlankIsNothing
  <2>4. /\ Gathered(oh, OldPiece) = Gathered(out, OldPiece)
        /\ Gathered(oh, SeenPiece) = Gathered(out, SeenPiece)
    BY ONLY <1>1, <1>3, <2>3, ItemsConcat
  <2>5. oh \in Seq(DiffItem)
    BY ONLY <1>1, <2>3, ConcatProperties
  <2> HIDE DEF oh
  <2>6. oh \o <<d>> = Append(oh, d) /\ Append(oh, d) \in Seq(DiffItem)
    BY ONLY <2>5, d \in DiffItem, AppendIsConcat, AppendProperties
  <2>7. /\ Gathered(Append(oh, d), OldPiece) = Gathered(oh, OldPiece) \o OldPiece[d]
        /\ Gathered(Append(oh, d), SeenPiece) = Gathered(oh, SeenPiece) \o SeenPiece[d]
    BY ONLY <2>5, d \in DiffItem, ItemsAppend
  <2>8. b \in FilterAcc /\ b.out = Append(oh, d)
    BY ONLY <2>1, <2>2, <2>6 DEF FilterAcc
  <2>9. FilterKeeps(acc, d, b)
    BY ONLY <2>4, <2>7, <2>8 DEF FilterKeeps, SeenTexts, out
  <2> QED BY ONLY <2>9 DEF b
<1> QED BY <1>4, <1>5

FilterLoops(diff, f) ==
    f = [n \in 0..Len(diff) |->
            IF n = 0 THEN [first |-> TRUE, buffer |-> <<>>, out |-> <<>>]
            ELSE FilterStep(f[n - 1], diff[n])]
FilterLoop(diff) == CHOOSE f : FilterLoops(diff, f)

LEMMA FilterLoopExists ==
    ASSUME NEW diff \in Seq(DiffItem)
    PROVE  FilterLoops(diff, FilterLoop(diff))
<1> DEFINE base == [first |-> TRUE, buffer |-> <<>>, out |-> <<>>]
           step == [p \in FilterAcc \X DiffItem |-> FilterStep(p[1], p[2])]
<1>1. base \in FilterAcc
  BY DEF FilterAcc
<1>2. step \in [FilterAcc \X DiffItem -> FilterAcc]
  <2>1. ASSUME NEW p \in FilterAcc \X DiffItem PROVE FilterStep(p[1], p[2]) \in FilterAcc
    <3>1. p[1] \in FilterAcc /\ p[2] \in DiffItem
      OBVIOUS
    <3> QED BY ONLY <3>1, FilterStepKeeps DEF FilterKeeps
  <2> QED BY ONLY <2>1 DEF step
<1>3. \A acc \in FilterAcc, d \in DiffItem : step[<<acc, d>>] = FilterStep(acc, d)
  <2>1. ASSUME NEW acc \in FilterAcc, NEW d \in DiffItem
        PROVE  step[<<acc, d>>] = FilterStep(acc, d)
    <3>1. /\ <<acc, d>> \in FilterAcc \X DiffItem
          /\ <<acc, d>>[1] = acc /\ <<acc, d>>[2] = d
      OBVIOUS
    <3> QED BY ONLY <3>1 DEF step
  <2> QED BY ONLY <2>1
<1> HIDE DEF base, step
<1>4. PICK f : IsLoop(FilterAcc, base, step, diff, f)
  BY ONLY diff \in Seq(DiffItem), <1>1, <1>2, FoldExists
<1>5. /\ f \in [0..Len(diff) -> FilterAcc] /\ f[0] = base
      /\ \A n \in 1..Len(diff) : f[n] = step[<<f[n - 1], diff[n]>>]
  BY ONLY <1>4 DEF IsLoop
<1>6. Len(diff) \in Nat /\ \A n \in 1..Len(diff) : diff[n] \in DiffItem
  BY LenProperties, ElementOfSeq
<1>7. ASSUME NEW n \in 0..Len(diff)
      PROVE  f[n] = IF n = 0 THEN base ELSE FilterStep(f[n - 1], diff[n])
  <2>1. CASE n = 0
    BY ONLY <1>5, <2>1
  <2>2. CASE n # 0
    <3>1. n \in 1..Len(diff) /\ n - 1 \in 0..Len(diff)
      BY ONLY <1>6, <2>2, n \in 0..Len(diff)
    <3>2. f[n - 1] \in FilterAcc
      BY ONLY <1>5, <3>1
    <3> QED BY ONLY <1>3, <1>5, <1>6, <2>2, <3>1, <3>2
  <2> QED BY <2>1, <2>2
<1>8. FilterLoops(diff, f)
  <2>1. f = [n \in 0..Len(diff) |-> f[n]]
    BY ONLY <1>5
  <2> QED BY ONLY <1>7, <2>1 DEF FilterLoops, base
<1> QED BY <1>8 DEF FilterLoop

LEMMA FilterIsLoop ==
    ASSUME NEW diff
    PROVE  FilterInsertions(diff) = FilterLoop(diff)[Len(diff)].out
BY DEF FilterInsertions, FilterLoop, FilterLoops

Filtered(seen, acc) ==
    /\ acc \in FilterAcc
    /\ Gathered(acc.out, OldPiece) = Gathered(seen, OldPiece)
    /\ SeenTexts(acc.out) = SeenTexts(seen)

\* Only empty lines are left out, and only inserted ones.
LEMMA FilterInsertionsKeeps ==
    ASSUME NEW diff \in Seq(DiffItem)
    PROVE  /\ FilterInsertions(diff) \in Seq(DiffItem)
           /\ Gathered(FilterInsertions(diff), OldPiece) = Gathered(diff, OldPiece)
           /\ SeenTexts(FilterInsertions(diff)) = SeenTexts(diff)
<1> DEFINE f == FilterLoop(diff)
           N == {n \in Nat : n <= Len(diff) => Filtered(SubSeq(diff, 1, n), f[n])}
<1>1. Len(diff) \in Nat /\ \A n \in 1..Len(diff) : diff[n] \in DiffItem
  BY LenProperties, ElementOfSeq
<1>2. /\ f[0] = [first |-> TRUE, buffer |-> <<>>, out |-> <<>>]
      /\ \A n \in 1..Len(diff) : f[n] = FilterStep(f[n - 1], diff[n])
  <2>1. FilterLoops(diff, f)
    BY FilterLoopExists
  <2> HIDE DEF f
  <2>2. ASSUME NEW n \in 0..Len(diff)
        PROVE  f[n] = IF n = 0 THEN [first |-> TRUE, buffer |-> <<>>, out |-> <<>>]
                      ELSE FilterStep(f[n - 1], diff[n])
    BY ONLY <2>1 DEF FilterLoops
  <2>3. 0 \in 0..Len(diff) /\ \A n \in 1..Len(diff) : n \in 0..Len(diff) /\ n # 0
    BY ONLY <1>1
  <2> QED BY ONLY <2>2, <2>3
<1> HIDE DEF f
<1>3. 0 \in N
  <2>1. f[0].out = <<>> /\ f[0] \in FilterAcc
    BY ONLY <1>2 DEF FilterAcc
  <2>2. SubSeq(diff, 1, 0) = <<>>
    BY SubSeqEmpty
  <2>3. Filtered(SubSeq(diff, 1, 0), f[0])
    BY ONLY <2>1, <2>2 DEF Filtered
  <2> QED BY ONLY <2>3
<1>4. ASSUME NEW n \in N, n + 1 <= Len(diff) PROVE Filtered(SubSeq(diff, 1, n + 1), f[n + 1])
  <2>1. n \in Nat /\ n \in 0..Len(diff) /\ n + 1 \in 1..Len(diff) /\ (n + 1) - 1 = n
    BY ONLY <1>1, <1>4
  <2>2. Filtered(SubSeq(diff, 1, n), f[n])
    BY ONLY <1>1, <1>4, <2>1
  <2>3. f[n + 1] = FilterStep(f[n], diff[n + 1]) /\ diff[n + 1] \in DiffItem
    BY ONLY <1>1, <1>2, <2>1
  <2>4. FilterKeeps(f[n], diff[n + 1], f[n + 1])
    BY ONLY <2>2, <2>3, FilterStepKeeps DEF Filtered
  <2>5. SubSeq(diff, 1, n) \in Seq(DiffItem)
    BY ONLY <2>1, diff \in Seq(DiffItem), UpToAPlace
  <2>6. SubSeq(diff, 1, n + 1) = Append(SubSeq(diff, 1, n), diff[n + 1])
    <3>1. SubSeq(diff, 1, n + 1) = SubSeq(diff, 1, n) \o <<diff[n + 1]>>
      <4>1. 1 \in 1..Len(diff) /\ n + 1 \in 1..Len(diff)
        BY ONLY <1>1, <2>1
      <4> QED BY ONLY diff \in Seq(DiffItem), <2>1, <4>1, SubSeqRecursiveSecond
    <3>2. Append(SubSeq(diff, 1, n), diff[n + 1]) = SubSeq(diff, 1, n) \o <<diff[n + 1]>>
      BY ONLY <2>3, <2>5, AppendIsConcat
    <3> QED BY ONLY <3>1, <3>2
  <2> DEFINE front == SubSeq(diff, 1, n)
             d == diff[n + 1]
  <2>7. front \in Seq(DiffItem) /\ d \in DiffItem
    BY ONLY <2>3, <2>5
  <2> HIDE DEF front, d
  <2>8. /\ Gathered(Append(front, d), OldPiece) = Gathered(front, OldPiece) \o OldPiece[d]
        /\ Gathered(Append(front, d), SeenPiece) = Gathered(front, SeenPiece) \o SeenPiece[d]
    BY ONLY <2>7, ItemsAppend
  <2> QED BY ONLY <2>2, <2>4, <2>6, <2>8 DEF FilterKeeps, Filtered, SeenTexts, front, d
<1>5. N = Nat
  <2>1. N \in SUBSET Nat
    OBVIOUS
  <2>2. \A n \in N : n + 1 \in N
    BY ONLY <1>4
  <2> HIDE DEF N
  <2> QED BY ONLY <1>3, <2>1, <2>2, AllNumbers
<1>6. Filtered(SubSeq(diff, 1, Len(diff)), f[Len(diff)])
  BY ONLY <1>1, <1>5
<1>7. SubSeq(diff, 1, Len(diff)) = diff
  BY SubSeqFull
<1>8. f[Len(diff)].out \in Seq(DiffItem)
  BY ONLY <1>6 DEF Filtered, FilterAcc
<1> QED BY ONLY <1>6, <1>7, <1>8, FilterIsLoop DEF Filtered, f

-----------------------------------------------------------------------------
(* The whole diff                                                          *)

\* The old lines of an edit: a range that is one empty line has none.
Begun(lines) == IF lines = <<Empty>> THEN <<>> ELSE lines

LEMMA DiffLinesKeeps ==
    ASSUME NEW lines \in Seq(Line), NEW new \in Seq(Line)
    PROVE  /\ DiffLines(lines, new) \in Seq(DiffItem)
           /\ OldSide(DiffLines(lines, new)) = Begun(lines)
           /\ Texts(NewSide(DiffLines(lines, new))) = Texts(new)
<1> DEFINE olds == Begun(lines)
           streamed == StreamDiff(olds, new)
           diff == FilterInsertions(streamed)
<1>1. olds \in Seq(Line)
  <2>1. <<>> \in Seq(Line)
    OBVIOUS
  <2> QED BY ONLY <2>1, lines \in Seq(Line) DEF Begun
<1>2. DiffLines(lines, new) = diff
  BY DEF DiffLines, Begun
<1> HIDE DEF olds
<1>3. /\ streamed \in Seq(DiffItem) /\ Gathered(streamed, OldPiece) = olds
      /\ SeenTexts(streamed) = Texts(new)
  BY ONLY new \in Seq(Line), <1>1, StreamDiffKeeps
<1> HIDE DEF streamed
<1>4. /\ diff \in Seq(DiffItem) /\ Gathered(diff, OldPiece) = Gathered(streamed, OldPiece)
      /\ SeenTexts(diff) = SeenTexts(streamed)
  BY ONLY <1>3, FilterInsertionsKeeps
<1> HIDE DEF diff
<1>5. OldSide(diff) = Gathered(diff, OldPiece) /\ Texts(NewSide(diff)) = SeenTexts(diff)
  BY ONLY <1>4, SidesAreGathered, SeenIsTexts
<1> QED BY ONLY <1>2, <1>3, <1>4, <1>5 DEF olds

\* What the edit is about never changes.
OriginalInv ==
    /\ original.lines \in Seq(Line) /\ original.diff \in Seq(DiffItem)
    /\ OldSide(original.diff) = Begun(original.lines)
    /\ Texts(NewSide(original.diff)) = Texts(original.new)

LEMMA OriginalInvImplies == OriginalInv => NoLineIsLost
BY DEF OriginalInv, NoLineIsLost, Begun

-----------------------------------------------------------------------------
(* The lines as they arrive                                                *)

\* For every old line that is still to come the document has one, from the place
\* on where the next line goes.
ViewFields == {"document", "index", "inserted", "buffer", "removed", "added", "lenses"}
Streaming(v, rest) ==
    /\ DOMAIN v = ViewFields /\ v.document \in Seq(Line) /\ v.index \in Nat /\ v.inserted \in Nat
    /\ v.inserted <= v.index /\ v.index + Len(OldSide(rest)) <= Len(v.document)
    /\ v.buffer \in Seq(Line)

StreamingInv ==
    /\ at \in {"stream", "open", "closed"} /\ typed \in 0..MaxTyped
    /\ at = "stream" => stream \in Seq(DiffItem) /\ Streaming(view, stream)

DiffInv == OriginalInv /\ StreamingInv

LEMMA EmptyIsLine == Empty \in Line
BY DiffAssumption DEF Empty, Line

LEMMA InsertAboveTyping ==
    ASSUME NEW doc \in Seq(Line), NEW i \in Nat, NEW lines \in Seq(Line)
    PROVE  /\ InsertAbove(doc, i, lines) \in Seq(Line)
           /\ Len(InsertAbove(doc, i, lines)) = Len(doc) + Len(lines)
<1>1. Len(doc) \in Nat /\ Len(lines) \in Nat
  BY LenProperties
<1>2. CASE i >= Len(doc)
  <2>1. doc \o lines \in Seq(Line) /\ Len(doc \o lines) = Len(doc) + Len(lines)
    BY ConcatProperties
  <2> QED BY <1>2, <2>1 DEF InsertAbove
<1>3. CASE ~(i >= Len(doc))
  <2> DEFINE above == SubSeq(doc, 1, i)
             below == SubSeq(doc, i + 1, Len(doc))
             al == above \o lines
  <2>1. i \in 0..Len(doc)
    BY ONLY <1>1, <1>3, i \in Nat
  <2>2. above \in Seq(Line) /\ below \in Seq(Line) /\ doc = above \o below
    BY ONLY doc \in Seq(Line), <2>1, UpToAPlace, FromAPlace
  <2>3. InsertAbove(doc, i, lines) = al \o below
    BY ONLY <1>3 DEF InsertAbove
  <2> HIDE DEF above, below
  <2>4. al \in Seq(Line) /\ Len(al) = Len(above) + Len(lines)
    BY ONLY <2>2, lines \in Seq(Line), ConcatProperties
  <2> HIDE DEF al
  <2>5. al \o below \in Seq(Line) /\ Len(al \o below) = Len(al) + Len(below)
    BY ONLY <2>2, <2>4, ConcatProperties
  <2>6. Len(doc) = Len(above) + Len(below)
    BY ONLY <2>2, ConcatProperties
  <2>7. Len(above) \in Nat /\ Len(below) \in Nat
    BY ONLY <2>2, LenProperties
  <2> QED BY ONLY <1>1, <2>3, <2>4, <2>5, <2>6, <2>7
<1> QED BY <1>2, <1>3

\* One line is deleted: the document has one less, unless it was the last.
LEMMA DeleteLineTyping ==
    ASSUME NEW doc \in Seq(Line), NEW i \in Nat
    PROVE  /\ DeleteLines(doc, i, 1) \in Seq(Line)
           /\ Len(DeleteLines(doc, i, 1)) + 1 >= Len(doc)
<1>1. Len(doc) \in Nat
  BY LenProperties
<1>2. CASE i >= Len(doc)
  BY <1>1, <1>2 DEF DeleteLines
<1>3. CASE ~(i >= Len(doc)) /\ i + 1 < Len(doc)
  <2> DEFINE above == SubSeq(doc, 1, i)
             below == SubSeq(doc, (i + 1) + 1, Len(doc))
  <2>1. i \in 0..Len(doc) /\ i + 1 \in 0..Len(doc)
    BY ONLY <1>1, <1>3, i \in Nat
  <2>2. above \in Seq(Line) /\ below \in Seq(Line) /\ doc = SubSeq(doc, 1, i + 1) \o below
    BY ONLY doc \in Seq(Line), <2>1, UpToAPlace, FromAPlace
  <2>3. Len(above) = i /\ Len(SubSeq(doc, 1, i + 1)) = i + 1 /\ SubSeq(doc, 1, i + 1) \in Seq(Line)
    BY ONLY doc \in Seq(Line), <1>1, <2>1, ElementOfSeq, SubSeqProperties, UpToAPlace
  <2>4. DeleteLines(doc, i, 1) = above \o below
    BY ONLY <1>3 DEF DeleteLines
  <2> HIDE DEF above, below
  <2>5. above \o below \in Seq(Line) /\ Len(above \o below) = Len(above) + Len(below)
    BY ONLY <2>2, ConcatProperties
  <2>6. Len(doc) = Len(SubSeq(doc, 1, i + 1)) + Len(below)
    BY ONLY <2>2, <2>3, ConcatProperties
  <2>7. Len(below) \in Nat
    BY ONLY <2>2, LenProperties
  <2>8. i \in Nat /\ Len(above \o below) = i + Len(below) /\ Len(doc) = i + 1 + Len(below)
    BY ONLY i \in Nat, <2>3, <2>5, <2>6, <2>7
  <2>9. Len(above \o below) + 1 >= Len(doc)
    BY ONLY <2>7, <2>8
  <2> QED BY ONLY <2>4, <2>5, <2>9
<1>4. CASE ~(i >= Len(doc)) /\ ~(i + 1 < Len(doc))
  <2> DEFINE above == SubSeq(doc, 1, i)
  <2>1. i \in 0..Len(doc)
    BY ONLY <1>1, <1>4, i \in Nat
  <2>2. above \in Seq(Line) /\ Len(above) = i
    BY ONLY doc \in Seq(Line), <1>1, <2>1, ElementOfSeq, SubSeqProperties, UpToAPlace
  <2>3. DeleteLines(doc, i, 1) = above \o <<Empty>>
    BY ONLY <1>4 DEF DeleteLines
  <2>4. <<Empty>> \in Seq(Line) /\ Len(<<Empty>>) = 1
    BY EmptyIsLine
  <2> HIDE DEF above
  <2>5. above \o <<Empty>> \in Seq(Line) /\ Len(above \o <<Empty>>) = Len(above) + Len(<<Empty>>)
    BY ONLY <2>2, <2>4, ConcatProperties
  <2> QED BY ONLY <1>1, <1>4, <2>1, <2>2, <2>3, <2>4, <2>5
<1> QED BY <1>2, <1>3, <1>4

\* The end of a block: its removed lines are put in above the place.
LEMMA BufferStreams ==
    ASSUME NEW v, NEW rest, Streaming(v, rest), Len(OldSide(rest)) \in Nat
    PROVE  Streaming(InsertDeletionBuffer(v), rest)
<1> DEFINE w == InsertDeletionBuffer(v)
           n == Len(v.buffer)
           start == v.index - v.inserted
           blanks == [k \in 1..n |-> Empty]
           doc == InsertAbove(v.document, start, blanks)
<1>1. n \in Nat /\ start \in Nat /\ v.document \in Seq(Line)
  BY LenProperties DEF Streaming
<1>2. blanks \in Seq(Line) /\ Len(blanks) = n
  BY <1>1, EmptyIsLine
<1>3. /\ DOMAIN w = ViewFields
      /\ w.document = doc /\ w.index = v.index + n /\ w.inserted = 0 /\ w.buffer = <<>>
  BY DEF InsertDeletionBuffer, Streaming, ViewFields
<1> HIDE DEF w, n, start, blanks
<1>4. doc \in Seq(Line) /\ Len(doc) = Len(v.document) + Len(blanks)
  BY ONLY <1>1, <1>2, InsertAboveTyping
<1>5. Len(v.document) \in Nat /\ <<>> \in Seq(Line)
  BY ONLY <1>1, LenProperties
<1> HIDE DEF doc
<1>6. Streaming(w, rest)
  <2>1. v.index \in Nat /\ v.index + Len(OldSide(rest)) <= Len(v.document)
    BY ONLY Streaming(v, rest) DEF Streaming
  <2>2. w.index \in Nat /\ w.inserted \in Nat /\ w.inserted <= w.index
    BY ONLY <1>1, <1>3, <2>1
  <2>3. w.index + Len(OldSide(rest)) <= Len(w.document)
    BY ONLY <1>1, <1>2, <1>3, <1>4, <1>5, <2>1, Len(OldSide(rest)) \in Nat
  <2>4. DOMAIN w = ViewFields /\ w.document \in Seq(Line) /\ w.buffer \in Seq(Line)
    BY ONLY <1>3, <1>4, <1>5
  <2> QED BY ONLY <2>2, <2>3, <2>4 DEF Streaming
<1> QED BY ONLY <1>6 DEF w

\* The old lines to come behind the next one.
LEMMA OldSideTail ==
    ASSUME NEW s \in Seq(DiffItem), s # <<>>
    PROVE  /\ Head(s) \in DiffItem /\ Tail(s) \in Seq(DiffItem)
           /\ Len(OldSide(s)) \in Nat /\ Len(OldSide(Tail(s))) \in Nat
           /\ Len(OldSide(s)) = Len(OldSide(Tail(s))) + IF Head(s).type = "new" THEN 0 ELSE 1
<1> DEFINE d == Head(s)
           t == Tail(s)
<1>1. d \in DiffItem /\ t \in Seq(DiffItem) /\ <<d>> \in Seq(DiffItem) /\ s = <<d>> \o t
  BY HeadTailProperties
<1> HIDE DEF d, t
<1>2. OldSide(s) = Gathered(s, OldPiece) /\ OldSide(t) = Gathered(t, OldPiece)
  BY ONLY s \in Seq(DiffItem), <1>1, SidesAreGathered
<1>3. Gathered(<<d>> \o t, OldPiece) = Gathered(<<d>>, OldPiece) \o Gathered(t, OldPiece)
  BY ONLY <1>1, ItemsConcat
<1>4. Gathered(<<d>>, OldPiece) = OldPiece[d]
  BY ONLY <1>1, ArePieces, GatherOne
<1>5. Gathered(t, OldPiece) \in Seq(Line) /\ OldPiece[d] \in Seq(Line)
  BY ONLY <1>1, ArePieces, GatherTyping DEF IsPiece
<1>6. /\ Len(OldPiece[d] \o Gathered(t, OldPiece)) = Len(OldPiece[d]) + Len(Gathered(t, OldPiece))
      /\ Len(Gathered(t, OldPiece)) \in Nat
  BY ONLY <1>5, ConcatProperties, LenProperties
<1>7. Len(OldPiece[d]) = IF d.type = "new" THEN 0 ELSE 1
  BY <1>1 DEF OldPiece, DiffItem
<1>8. /\ Len(OldSide(s)) \in Nat /\ Len(OldSide(t)) \in Nat
      /\ Len(OldSide(s)) = Len(OldSide(t)) + IF d.type = "new" THEN 0 ELSE 1
  <2>1. OldSide(s) = OldPiece[d] \o OldSide(t)
    BY ONLY <1>1, <1>2, <1>3, <1>4
  <2>2. Len(OldSide(s)) = Len(OldPiece[d]) + Len(OldSide(t)) /\ Len(OldSide(t)) \in Nat
    BY ONLY <1>2, <1>6, <2>1
  <2>3. CASE d.type = "new"
    BY ONLY <1>7, <2>2, <2>3
  <2>4. CASE d.type # "new"
    BY ONLY <1>7, <2>2, <2>4
  <2> QED BY ONLY <2>3, <2>4
<1> QED BY ONLY <1>1, <1>8 DEF d, t

LEMMA HandledStreams ==
    ASSUME NEW v, NEW s \in Seq(DiffItem), s # <<>>, Streaming(v, s)
    PROVE  Streaming(HandleDiffLine(v, Head(s)), Tail(s))
<1> DEFINE d == Head(s)
           t == Tail(s)
           w == HandleDiffLine(v, d)
           more == Len(OldSide(t))
<1>1. /\ d \in DiffItem /\ t \in Seq(DiffItem) /\ Len(OldSide(s)) \in Nat /\ more \in Nat
      /\ Len(OldSide(s)) = more + IF d.type = "new" THEN 0 ELSE 1
  BY ONLY s \in Seq(DiffItem), s # <<>>, OldSideTail
<1>2. /\ DOMAIN v = ViewFields /\ v.document \in Seq(Line) /\ v.index \in Nat /\ v.inserted \in Nat
      /\ v.inserted <= v.index /\ v.index + Len(OldSide(s)) <= Len(v.document)
      /\ v.buffer \in Seq(Line) /\ Len(v.document) \in Nat
  BY ONLY Streaming(v, s), LenProperties DEF Streaming
<1>3. d.type \in {"same", "old", "new"} /\ d.line \in Line
  BY ONLY <1>1 DEF DiffItem
<1> HIDE DEF d, t, more
<1>4. CASE d.type = "same"
  <2> DEFINE b == InsertDeletionBuffer(v)
  <2>1. Streaming(b, s)
    BY ONLY Streaming(v, s), <1>1, BufferStreams
  <2>2. w = [b EXCEPT !.index = b.index + 1]
    BY ONLY <1>4 DEF HandleDiffLine
  <2>3. /\ DOMAIN b = ViewFields /\ b.document \in Seq(Line) /\ b.index \in Nat /\ b.inserted \in Nat
        /\ b.inserted <= b.index /\ b.index + Len(OldSide(s)) <= Len(b.document)
        /\ b.buffer \in Seq(Line) /\ Len(b.document) \in Nat
    BY ONLY <2>1, LenProperties DEF Streaming
  <2> HIDE DEF b, w
  <2>4. /\ DOMAIN w = ViewFields /\ w.document = b.document /\ w.index = b.index + 1
        /\ w.inserted = b.inserted /\ w.buffer = b.buffer
    BY ONLY <2>2, <2>3 DEF ViewFields
  <2>5. Len(OldSide(s)) = more + 1
    BY ONLY <1>1, <1>4
  <2>6. w.index + more <= Len(w.document) /\ w.index \in Nat /\ w.inserted <= w.index
    BY ONLY <1>1, <2>3, <2>4, <2>5
  <2> QED BY ONLY <2>3, <2>4, <2>6 DEF Streaming, w, more, d, t
<1>5. CASE d.type = "old"
  <2> DEFINE doc == DeleteLines(v.document, v.index, 1)
             buffer == Append(v.buffer, d.line)
  <2>1. w = [v EXCEPT !.buffer = buffer, !.document = doc]
    BY ONLY <1>5 DEF HandleDiffLine
  <2>2. doc \in Seq(Line) /\ Len(doc) + 1 >= Len(v.document)
    BY ONLY <1>2, DeleteLineTyping
  <2>3. buffer \in Seq(Line)
    BY ONLY <1>2, <1>3, AppendProperties
  <2> HIDE DEF doc, buffer, w
  <2>4. /\ DOMAIN w = ViewFields /\ w.document = doc /\ w.index = v.index
        /\ w.inserted = v.inserted /\ w.buffer = buffer
    BY ONLY <1>2, <2>1 DEF ViewFields
  <2>5. Len(OldSide(s)) = more + 1 /\ Len(doc) \in Nat
    BY ONLY <1>1, <1>5, <2>2, LenProperties
  <2>6. w.index + more <= Len(w.document)
    BY ONLY <1>1, <1>2, <2>2, <2>4, <2>5
  <2> QED BY ONLY <1>2, <2>2, <2>3, <2>4, <2>6 DEF Streaming, w, more, d, t
<1>6. CASE d.type = "new"
  <2> DEFINE doc == InsertAbove(v.document, v.index, <<d.line>>)
             added == AddGreen(v.added, v.index)
  <2>1. w = [v EXCEPT !.document = doc, !.added = added,
                      !.index = v.index + 1, !.inserted = v.inserted + 1]
    BY ONLY <1>6 DEF HandleDiffLine
  <2>2. <<d.line>> \in Seq(Line) /\ Len(<<d.line>>) = 1
    BY ONLY <1>3
  <2>3. doc \in Seq(Line) /\ Len(doc) = Len(v.document) + Len(<<d.line>>)
    BY ONLY <1>2, <2>2, InsertAboveTyping
  <2> HIDE DEF doc, added, w
  <2>4. /\ DOMAIN w = ViewFields /\ w.document = doc /\ w.index = v.index + 1
        /\ w.inserted = v.inserted + 1 /\ w.buffer = v.buffer
    BY ONLY <1>2, <2>1 DEF ViewFields
  <2>5. Len(OldSide(s)) = more
    BY ONLY <1>1, <1>6
  <2>6. w.index + more <= Len(w.document)
    BY ONLY <1>1, <1>2, <2>2, <2>3, <2>4, <2>5
  <2>7. w.index \in Nat /\ w.inserted \in Nat /\ w.inserted <= w.index
    BY ONLY <1>2, <2>4
  <2> QED BY ONLY <1>2, <2>3, <2>4, <2>6, <2>7 DEF Streaming, w, more, d, t
<1> QED BY ONLY <1>3, <1>4, <1>5, <1>6 DEF d, t, w

-----------------------------------------------------------------------------
(* The handler                                                             *)

LEMMA BeginsTyped ==
    ASSUME NEW f, f.before \in Seq(Line), f.lines \in Seq(Line), f.after \in Seq(Line),
           NEW new \in Seq(Line), DiffBegins(f, new)
    PROVE  DiffInv
<1> DEFINE diff == DiffLines(f.lines, new)
           front == f.before \o f.lines
           doc == front \o f.after
<1>1. /\ diff \in Seq(DiffItem) /\ OldSide(diff) = Begun(f.lines)
      /\ Texts(NewSide(diff)) = Texts(new)
  BY DiffLinesKeeps
<1>2. /\ original.lines = f.lines /\ original.new = new /\ original.diff = diff /\ stream = diff
      /\ view = [document |-> doc, index |-> Len(f.before), inserted |-> 0, buffer |-> <<>>,
                 removed |-> <<>>, added |-> <<>>, lenses |-> <<>>]
      /\ at = "stream" /\ typed = 0
  BY DEF DiffBegins
<1>3. front \in Seq(Line) /\ Len(front) = Len(f.before) + Len(f.lines)
  BY ConcatProperties
<1>7. f.after \in Seq(Line)
  OBVIOUS
<1> HIDE DEF diff, front
<1>4. doc \in Seq(Line) /\ Len(doc) = Len(front) + Len(f.after)
  BY ONLY <1>3, <1>7, ConcatProperties
<1> HIDE DEF doc
<1>5. /\ Len(f.before) \in Nat /\ Len(f.lines) \in Nat /\ Len(f.after) \in Nat
      /\ Len(OldSide(diff)) \in 0..Len(f.lines)
  <2>1. Len(f.before) \in Nat /\ Len(f.lines) \in Nat /\ Len(f.after) \in Nat
    BY LenProperties
  <2>2. Len(<<>>) = 0
    BY EmptySeq
  <2>3. OldSide(diff) = <<>> \/ OldSide(diff) = f.lines
    BY ONLY <1>1 DEF Begun
  <2> QED BY ONLY <2>1, <2>2, <2>3
<1>6. Streaming(view, stream)
  <2>1. /\ DOMAIN view = ViewFields /\ view.document = doc /\ view.index = Len(f.before)
        /\ view.inserted = 0 /\ view.buffer = <<>> /\ stream = diff
    BY ONLY <1>2 DEF ViewFields
  <2>2. view.index + Len(OldSide(stream)) <= Len(view.document)
    <3> DEFINE n == Len(OldSide(diff))
               before == Len(f.before)
               lines == Len(f.lines)
               after == Len(f.after)
               size == Len(doc)
    <3>1. before \in Nat /\ lines \in Nat /\ after \in Nat /\ n \in 0..lines
      BY ONLY <1>5
    <3>2. size = (before + lines) + after
      BY ONLY <1>3, <1>4
    <3>3. view.index = before /\ Len(OldSide(stream)) = n /\ Len(view.document) = size
      BY ONLY <2>1
    <3> HIDE DEF n, before, lines, after, size
    <3>4. before + n <= size
      BY ONLY <3>1, <3>2
    <3> QED BY ONLY <3>3, <3>4
  <2>3. <<>> \in Seq(Line) /\ view.index \in Nat /\ 0 <= view.index /\ 0 \in Nat
    BY ONLY <1>5, <2>1
  <2> QED BY ONLY <1>4, <2>1, <2>2, <2>3 DEF Streaming
<1>8. OriginalInv
  BY ONLY <1>1, <1>2, f.lines \in Seq(Line) DEF OriginalInv
<1>9. 0 \in 0..MaxTyped
  BY DiffAssumption
<1>10. StreamingInv
  BY ONLY <1>1, <1>2, <1>6, <1>9 DEF StreamingInv
<1> QED BY ONLY <1>8, <1>10 DEF DiffInv

LEMMA DiffInitTyped == ASSUME DiffInit PROVE DiffInv
<1>1. PICK f \in Files, new \in News : DiffBegins(f, new)
  BY DEF DiffInit
<1>2. f \in [before : Seq(Line), lines : Seq(Line) \ {<<>>}, after : Seq(Line)] /\ new \in Seq(Line)
  BY DiffAssumption
<1>3. f.before \in Seq(Line) /\ f.lines \in Seq(Line) /\ f.after \in Seq(Line)
  BY ONLY <1>2
<1> QED BY ONLY <1>1, <1>2, <1>3, BeginsTyped

\* Whatever ends or follows the stream leaves the edit as it began.
LEMMA DiffStepTyped ==
    ASSUME DiffInv, [DiffNext]_diffVars
    PROVE  DiffInv'
<1> USE DEF DiffInv
<1>1. CASE HandleLine
  <2>1. /\ at = "stream" /\ stream # <<>> /\ view' = HandleDiffLine(view, Head(stream))
        /\ stream' = Tail(stream) /\ original' = original /\ at' = at /\ typed' = typed
    BY <1>1 DEF HandleLine
  <2>2. /\ stream \in Seq(DiffItem) /\ Streaming(view, stream)
        /\ at \in {"stream", "open", "closed"} /\ typed \in 0..MaxTyped
    BY <2>1 DEF StreamingInv
  <2>3. Streaming(view', stream')
    BY ONLY <2>1, <2>2, HandledStreams
  <2>4. stream' \in Seq(DiffItem)
    BY ONLY <2>1, <2>2, OldSideTail
  <2>5. StreamingInv'
    BY ONLY <2>1, <2>2, <2>3, <2>4 DEF StreamingInv, Streaming
  <2>6. OriginalInv'
    BY <2>1 DEF OriginalInv
  <2> QED BY ONLY <2>5, <2>6 DEF DiffInv
<1>2. ASSUME original' = original, at' \in {"open", "closed"}, typed' \in 0..MaxTyped PROVE DiffInv'
  <2>1. OriginalInv'
    BY <1>2 DEF OriginalInv
  <2>2. StreamingInv'
    BY ONLY <1>2 DEF StreamingInv
  <2> QED BY ONLY <2>1, <2>2 DEF DiffInv
<1>3. typed \in 0..MaxTyped
  BY DEF StreamingInv
<1>4. CASE Reapply
  BY <1>2, <1>3, <1>4 DEF Reapply
<1>5. ASSUME NEW accept \in BOOLEAN, DecideAll(accept) PROVE DiffInv'
  BY <1>2, <1>3, <1>5 DEF DecideAll
<1>6. ASSUME NEW accept \in BOOLEAN, NEW k \in DOMAIN view.lenses, DecideBlock(k, accept)
      PROVE  DiffInv'
  <2>1. original' = original /\ at' \in {"open", "closed"} /\ typed' = typed
    BY ONLY <1>6 DEF DecideBlock
  <2> QED BY <1>2, <1>3, <2>1
<1>7. ASSUME NEW i \in 0..(Len(view.document) - 1), TypeLine(i) PROVE DiffInv'
  <2>1. original' = original /\ at' = "open" /\ typed < MaxTyped /\ typed' = typed + 1
    BY ONLY <1>7 DEF TypeLine
  <2>2. typed' \in 0..MaxTyped
    <3>1. MaxTyped \in Nat
      BY DiffAssumption
    <3> QED BY ONLY <1>3, <2>1, <3>1
  <2> QED BY ONLY <1>2, <2>1, <2>2
<1>8. CASE UNCHANGED diffVars
  BY <1>8 DEF diffVars, OriginalInv, StreamingInv, Streaming
<1> QED BY ONLY [DiffNext]_diffVars, <1>1, <1>4, <1>5, <1>6, <1>7, <1>8 DEF DiffNext

LEMMA StreamingIsTyped == ASSUME DiffInv PROVE DiffTypeOK
<1>1. at \in {"stream", "open", "closed"} /\ typed \in 0..MaxTyped
  BY DEF DiffInv, StreamingInv
<1>2. ASSUME at = "stream" PROVE view.index \in view.inserted..Len(view.document)
  <2>1. stream \in Seq(DiffItem) /\ Streaming(view, stream)
    BY <1>2 DEF DiffInv, StreamingInv
  <2>2. OldSide(stream) \in Seq(Line)
    BY ONLY <2>1, SidesAreGathered
  <2>3. Len(OldSide(stream)) \in Nat /\ Len(view.document) \in Nat
    BY ONLY <2>1, <2>2, LenProperties DEF Streaming
  <2>4. /\ view.index \in Nat /\ view.inserted \in Nat /\ view.inserted <= view.index
        /\ view.index + Len(OldSide(stream)) <= Len(view.document)
    BY ONLY <2>1 DEF Streaming
  <2> QED BY ONLY <2>3, <2>4
<1> QED BY ONLY <1>1, <1>2 DEF DiffTypeOK

\* Whatever the old and the generated lines: the diff has every old line, in order,
\* as old or the same, and the text of every generated one, as new or the same,
\* but for empty lines.
THEOREM DiffLosesNothing == DiffSpec => []NoLineIsLost
<1>1. DiffInit => DiffInv
  BY DiffInitTyped
<1>2. DiffInv /\ [DiffNext]_diffVars => DiffInv'
  BY DiffStepTyped
<1>3. DiffInv => NoLineIsLost
  BY OriginalInvImplies DEF DiffInv
<1> QED BY <1>1, <1>2, <1>3, PTL DEF DiffSpec

\* However the lines arrive, the place where the next one goes is in the document,
\* and the lines inserted in its block are above it.
THEOREM DiffTyping == DiffSpec => []DiffTypeOK
<1>1. DiffInit => DiffInv
  BY DiffInitTyped
<1>2. DiffInv /\ [DiffNext]_diffVars => DiffInv'
  BY DiffStepTyped
<1>3. DiffInv => DiffTypeOK
  BY StreamingIsTyped
<1> QED BY <1>1, <1>2, <1>3, PTL DEF DiffSpec

-----------------------------------------------------------------------------
(* What the editor's edits do to a document in parts                       *)

LEMMA TakeFront ==
    ASSUME NEW p \in Seq(Line), NEW q \in Seq(Line)
    PROVE  SubSeq(p \o q, 1, Len(p)) = p /\ SubSeq(p \o q, Len(p) + 1, Len(p \o q)) = q
<1> DEFINE s == p \o q
<1>1. /\ s \in Seq(Line) /\ Len(s) = Len(p) + Len(q) /\ Len(p) \in Nat /\ Len(q) \in Nat
      /\ \A i \in 1..Len(p) : s[i] = p[i]
  BY LenProperties, ConcatProperties
<1>2. \A i \in 1..Len(q) : s[Len(p) + i] = q[i]
  <2>1. ASSUME NEW i \in 1..Len(q) PROVE s[Len(p) + i] = q[i]
    <3> DEFINE j == Len(p) + i
    <3>1. j \in (Len(p) + 1)..(Len(p) + Len(q)) /\ j - Len(p) = i
      BY ONLY <1>1, i \in 1..Len(q)
    <3>2. s[j] = q[j - Len(p)]
      BY <1>1, <3>1, ConcatProperties
    <3> QED BY ONLY <3>1, <3>2
  <2> QED BY ONLY <2>1
<1> HIDE DEF s
<1>3. /\ SubSeq(s, 1, Len(p)) \in Seq(Line) /\ Len(SubSeq(s, 1, Len(p))) = Len(p)
      /\ \A i \in 1..Len(p) : SubSeq(s, 1, Len(p))[i] = s[i]
  BY <1>1, SubSeqProperties
<1>4. SubSeq(s, 1, Len(p)) = p
  <2> DEFINE front == SubSeq(s, 1, Len(p))
  <2>1. front \in Seq(Line) /\ Len(front) = Len(p) /\ \A i \in 1..Len(front) : front[i] = p[i]
    BY ONLY <1>1, <1>3
  <2> HIDE DEF front
  <2>2. front = p
    BY ONLY <2>1, p \in Seq(Line), SeqEqual
  <2> QED BY ONLY <2>2 DEF front
<1>5. SubSeq(s, Len(p) + 1, Len(s)) = q
  <2> DEFINE back == SubSeq(s, Len(p) + 1, Len(s))
  <2>1. /\ back \in Seq(Line) /\ Len(back) = Len(q)
        /\ \A i \in 1..Len(q) : back[i] = s[Len(p) + i]
    BY <1>1, SubSeqProperties
  <2>2. \A i \in 1..Len(back) : back[i] = q[i]
    BY ONLY <1>2, <2>1
  <2> HIDE DEF back
  <2>3. back = q
    BY ONLY <2>1, <2>2, q \in Seq(Line), SeqEqual
  <2> QED BY ONLY <2>3 DEF back
<1> QED BY ONLY <1>4, <1>5 DEF s

LEMMA InsertBetween ==
    ASSUME NEW p \in Seq(Line), NEW q \in Seq(Line), NEW lines \in Seq(Line)
    PROVE  InsertAbove(p \o q, Len(p), lines) = p \o (lines \o q)
<1> DEFINE s == p \o q
<1>1. s \in Seq(Line) /\ Len(s) = Len(p) + Len(q) /\ Len(p) \in Nat /\ Len(q) \in Nat
  BY LenProperties, ConcatProperties
<1>2. SubSeq(s, 1, Len(p)) = p /\ SubSeq(s, Len(p) + 1, Len(s)) = q
  BY TakeFront
<1>3. Regroups(Line, p, lines, q)
  BY ONLY p \in Seq(Line), q \in Seq(Line), lines \in Seq(Line), Regroup
<1>4. CASE Len(q) = 0
  <2>1. q = <<>>
    BY <1>4, EmptySeq
  <2>2. p \o <<>> = p /\ lines \o <<>> = lines
    BY ONLY p \in Seq(Line), lines \in Seq(Line), ConcatEmptySeq
  <2>3. InsertAbove(s, Len(p), lines) = s \o lines
    BY ONLY <1>1, <1>4 DEF InsertAbove
  <2> QED BY ONLY <2>1, <2>2, <2>3
<1>5. CASE Len(q) # 0
  <2>1. ~(Len(p) >= Len(s))
    BY ONLY <1>1, <1>5
  <2> HIDE DEF s
  <2>2. InsertAbove(s, Len(p), lines) = p \o lines \o q
    BY ONLY <1>2, <2>1 DEF InsertAbove
  <2> QED BY ONLY <1>3, <2>2 DEF Regroups, s
<1> QED BY <1>4, <1>5

\* The lines between two parts are deleted; behind the last line an empty one is left.
LEMMA DeleteBetween ==
    ASSUME NEW p \in Seq(Line), NEW m \in Seq(Line), NEW q \in Seq(Line), m # <<>>
    PROVE  DeleteLines(p \o (m \o q), Len(p), Len(m))
             = p \o (IF q = <<>> THEN <<Empty>> ELSE q)
<1> DEFINE mq == m \o q
           s == p \o mq
           pm == p \o m
<1>1. /\ mq \in Seq(Line) /\ Len(mq) = Len(m) + Len(q)
      /\ pm \in Seq(Line) /\ Len(pm) = Len(p) + Len(m)
      /\ Len(p) \in Nat /\ Len(q) \in Nat /\ Len(m) \in Nat /\ Len(m) # 0
  BY LenProperties, ConcatProperties, EmptySeq
<1>2. s = pm \o q
  BY ONLY p \in Seq(Line), m \in Seq(Line), q \in Seq(Line), Regroup DEF Regroups
<1> HIDE DEF mq, pm
<1>3. /\ SubSeq(s, 1, Len(p)) = p /\ s \in Seq(Line)
  BY ONLY p \in Seq(Line), <1>1, TakeFront, ConcatProperties
<1> HIDE DEF s
<1>4. SubSeq(s, Len(pm) + 1, Len(s)) = q /\ Len(s) = Len(pm) + Len(q)
  BY ONLY <1>1, <1>2, q \in Seq(Line), TakeFront, ConcatProperties
<1>5. DeleteLines(s, Len(p), Len(m)) = p \o (IF q = <<>> THEN <<Empty>> ELSE q)
  <2>1. ~(Len(p) >= Len(s))
    BY ONLY <1>1, <1>4
  <2>2. CASE q = <<>>
    <3>1. Len(q) = 0
      BY ONLY <2>2, EmptySeq
    <3>2. ~(Len(p) + Len(m) < Len(s))
      BY ONLY <1>1, <1>4, <3>1
    <3> QED BY ONLY <1>3, <2>1, <2>2, <3>2 DEF DeleteLines
  <2>3. CASE q # <<>>
    <3>1. Len(q) # 0
      BY <2>3, EmptySeq
    <3>2. Len(p) + Len(m) < Len(s) /\ Len(p) + Len(m) + 1 = Len(pm) + 1
      BY ONLY <1>1, <1>4, <3>1
    <3> QED BY ONLY <1>3, <1>4, <2>1, <2>3, <3>2 DEF DeleteLines
  <2> QED BY ONLY <2>2, <2>3
<1> QED BY ONLY <1>5 DEF s, mq

-----------------------------------------------------------------------------
(* The red lines of a block                                                *)

RedRange == [start : Nat, end : Nat, line : Line]
RedsOf(start, lines) == [k \in 1..Len(lines) |-> Red(start + k - 1, lines[k])]
AllAbove(redRanges, start) == \A i \in 1..Len(redRanges) : redRanges[i].start < start

LEMMA RedsOfTyping ==
    ASSUME NEW start \in Nat, NEW lines \in Seq(Line)
    PROVE  /\ RedsOf(start, lines) \in Seq(RedRange)
           /\ Len(RedsOf(start, lines)) = Len(lines) /\ Len(lines) \in Nat
           /\ \A k \in 1..Len(lines) : /\ RedsOf(start, lines)[k] = Red(start + k - 1, lines[k])
                                       /\ RedsOf(start, lines)[k].start = start + k - 1
                                       /\ RedsOf(start, lines)[k].line = lines[k]
           /\ LinesOf(RedsOf(start, lines)) = lines
<1> DEFINE reds == RedsOf(start, lines)
           n == Len(lines)
<1>1. n \in Nat /\ DOMAIN lines = 1..n /\ \A k \in 1..n : lines[k] \in Line
  BY LenProperties, ElementOfSeq
<1>2. ASSUME NEW k \in 1..n
      PROVE  /\ Red(start + k - 1, lines[k]) \in RedRange
             /\ Red(start + k - 1, lines[k]).start = start + k - 1
             /\ Red(start + k - 1, lines[k]).line = lines[k]
  <2>1. start + k - 1 \in Nat /\ lines[k] \in Line
    BY <1>1
  <2> QED BY ONLY <2>1 DEF Red, RedRange
<1>3. reds = [k \in 1..n |-> Red(start + k - 1, lines[k])]
  BY DEF RedsOf
<1>4. \A k \in 1..n : reds[k] = Red(start + k - 1, lines[k])
  BY ONLY <1>3
<1>5. reds \in Seq(RedRange) /\ Len(reds) = n /\ DOMAIN reds = 1..n
  <2>1. reds \in [1..n -> RedRange]
    BY ONLY <1>2, <1>3
  <2> QED BY ONLY <1>1, <2>1, SeqDef, LenProperties
<1> HIDE DEF reds
<1>6. LinesOf(reds) = lines
  <2>1. LinesOf(reds) = [i \in 1..n |-> reds[i].line]
    BY ONLY <1>5 DEF LinesOf
  <2>2. \A i \in 1..n : reds[i].line = lines[i]
    BY ONLY <1>2, <1>4
  <2>3. lines = [i \in 1..n |-> lines[i]]
    BY <1>1
  <2> QED BY ONLY <2>1, <2>2, <2>3
<1> QED BY ONLY <1>1, <1>2, <1>4, <1>5, <1>6 DEF reds

LEMMA RedsFound ==
    ASSUME NEW prior \in Seq(RedRange), NEW start \in Nat, NEW lines \in Seq(Line),
           AllAbove(prior, start), lines # <<>>
    PROVE  RedsAt(prior \o RedsOf(start, lines), start) = RedsOf(start, lines)
<1> DEFINE reds == RedsOf(start, lines)
           n == Len(lines)
           p == Len(prior)
           s == prior \o reds
           I == {i \in 1..Len(s) : s[i].start = start}
           i == SelectInSeq(s, LAMBDA r : r.start = start)
           follow == {k \in 0..(Len(s) - i + 1) : \A m \in 0..(k - 1) : s[i + m].start = start + m}
<1>1. /\ reds \in Seq(RedRange) /\ Len(reds) = n /\ n \in Nat
      /\ \A k \in 1..n : reds[k].start = start + k - 1
  BY RedsOfTyping
<1>2. n # 0 /\ p \in Nat
  BY EmptySeq, LenProperties
<1> HIDE DEF reds
<1>3. /\ s \in Seq(RedRange) /\ Len(s) = p + n
      /\ \A k \in 1..p : s[k] = prior[k]
      /\ \A k \in (p + 1)..(p + n) : s[k] = reds[k - p]
  <2>1. /\ s \in Seq(RedRange) /\ Len(s) = Len(prior) + Len(reds)
        /\ \A k \in 1..Len(prior) + Len(reds) :
              s[k] = IF k <= Len(prior) THEN prior[k] ELSE reds[k - Len(prior)]
    <3>1. prior \in Seq(RedRange) /\ reds \in Seq(RedRange)
      BY ONLY <1>1, prior \in Seq(RedRange)
    <3> HIDE DEF p, n
    <3>2. s \in Seq(RedRange) /\ Len(s) = Len(prior) + Len(reds)
      BY ONLY <3>1, ConcatProperties
    <3>3. \A k \in 1..Len(prior) + Len(reds) :
              s[k] = IF k <= Len(prior) THEN prior[k] ELSE reds[k - Len(prior)]
      BY ONLY <3>1, ConcatProperties
    <3> QED BY ONLY <3>2, <3>3
  <2> HIDE DEF s
  <2>2. /\ Len(s) = p + n
        /\ \A k \in 1..(p + n) : s[k] = IF k <= p THEN prior[k] ELSE reds[k - p]
    BY ONLY <1>1, <2>1
  <2>3. \A k \in 1..p : k \in 1..(p + n) /\ k <= p
    BY ONLY <1>1, <1>2
  <2>4. \A k \in (p + 1)..(p + n) : k \in 1..(p + n) /\ ~(k <= p)
    BY ONLY <1>1, <1>2
  <2> HIDE DEF p, n
  <2> QED BY ONLY <2>1, <2>2, <2>3, <2>4
<1>4. \A k \in 1..n : s[p + k].start = start + k - 1
  <2>1. ASSUME NEW k \in 1..n PROVE s[p + k].start = start + k - 1
    <3>1. p + k \in (p + 1)..(p + n) /\ (p + k) - p = k
      BY ONLY <1>1, <1>2, k \in 1..n
    <3>2. s[p + k] = reds[k]
      BY ONLY <1>3, <3>1
    <3> QED BY ONLY <1>1, <3>2
  <2> QED BY ONLY <2>1
<1> HIDE DEF s
<1>5. i = p + 1
  <2>1. p + 1 \in I
    <3>1. 1 \in 1..n /\ p + 1 \in 1..Len(s) /\ start + 1 - 1 = start
      BY ONLY <1>1, <1>2, <1>3, start \in Nat
    <3> QED BY ONLY <1>4, <3>1
  <2>2. ASSUME NEW k \in I PROVE p + 1 <= k
    <3>1. k \in 1..Len(s) /\ s[k].start = start
      OBVIOUS
    <3>2. CASE k \in 1..p
      <4>1. prior[k].start < start /\ prior[k].start = start
        BY ONLY <1>3, <3>1, <3>2, AllAbove(prior, start) DEF AllAbove
      <4> QED BY ONLY <4>1, start \in Nat
    <3>3. CASE k \notin 1..p
      BY ONLY <1>1, <1>2, <1>3, <3>1, <3>3
    <3> QED BY ONLY <3>2, <3>3
  <2>3. i = IF I # {} THEN Min(I) ELSE 0
    BY DEF SelectInSeq
  <2>4. I \subseteq Nat
    BY <1>2
  <2> HIDE DEF I, i
  <2>5. Min(I) = p + 1
    <3>1. p + 1 \in I /\ \A k \in I : p + 1 <= k
      BY ONLY <2>1, <2>2
    <3>2. ASSUME NEW m \in I, \A k \in I : m <= k PROVE m = p + 1
      <4>1. m \in Nat /\ p + 1 \in Nat /\ m <= p + 1 /\ p + 1 <= m
        BY ONLY <2>4, <3>1, <3>2
      <4> QED BY ONLY <4>1
    <3> QED BY ONLY <3>1, <3>2 DEF Min
  <2> QED BY ONLY <2>1, <2>3, <2>5
<1> HIDE DEF i
<1>6. n \in follow /\ \A k \in follow : k <= n
  <2>1. Len(s) - i + 1 = n
    BY ONLY <1>1, <1>2, <1>3, <1>5
  <2>2. \A m \in 0..(n - 1) : s[i + m].start = start + m
    <3>1. ASSUME NEW m \in 0..(n - 1) PROVE s[i + m].start = start + m
      <4>1. m + 1 \in 1..n /\ i + m = p + (m + 1) /\ start + (m + 1) - 1 = start + m
        BY ONLY <1>1, <1>2, <1>5, start \in Nat, m \in 0..(n - 1)
      <4> QED BY ONLY <1>4, <4>1
    <3> QED BY ONLY <3>1
  <2> QED BY ONLY <1>1, <2>1, <2>2
<1>7. (CHOOSE k \in follow : \A m \in follow : m <= k) = n
  <2>1. follow \subseteq Int
    OBVIOUS
  <2> HIDE DEF follow
  <2>2. ASSUME NEW k \in follow, \A m \in follow : m <= k PROVE k = n
    <3>1. k \in Int /\ n \in Int /\ k <= n /\ n <= k
      BY ONLY <1>6, <2>1, <2>2
    <3> QED BY ONLY <3>1
  <2> QED BY ONLY <1>6, <2>2
<1>8. RedsAt(s, start) = SubSeq(s, i, i - 1 + n)
  <2>1. i # 0
    BY ONLY <1>2, <1>5
  <2>2. RedsAt(s, start) = IF i = 0 THEN <<>>
             ELSE SubSeq(s, i, i - 1 + CHOOSE k \in follow : \A m \in follow : m <= k)
    BY DEF RedsAt, i
  <2> HIDE DEF follow
  <2> QED BY ONLY <1>7, <2>1, <2>2
<1>9. SubSeq(s, p + 1, p + n) = reds
  <2> DEFINE back == SubSeq(s, p + 1, p + n)
  <2>1. /\ back \in Seq(RedRange) /\ Len(back) = n
        /\ \A k \in 1..n : back[k] = s[p + k]
    <3>1. \A k \in (p + 1)..(p + n) : s[k] \in RedRange
      BY ONLY <1>1, <1>2, <1>3, ElementOfSeq
    <3> QED BY <1>1, <1>2, <1>3, <3>1, SubSeqProperties
  <2>2. ASSUME NEW k \in 1..Len(back) PROVE back[k] = reds[k]
    <3>1. k \in 1..n /\ p + k \in (p + 1)..(p + n) /\ (p + k) - p = k
      BY ONLY <1>1, <1>2, <2>1, k \in 1..Len(back)
    <3> QED BY ONLY <1>3, <2>1, <3>1
  <2> HIDE DEF back
  <2>3. back = reds
    BY ONLY <1>1, <2>1, <2>2, SeqEqual
  <2> QED BY ONLY <2>3 DEF back
<1>10. i - 1 + n = p + n
  BY ONLY <1>1, <1>2, <1>5
<1> QED BY ONLY <1>5, <1>8, <1>9, <1>10 DEF s, reds

\* Those above a block are not its own, and do not move.
LEMMA PriorStay ==
    ASSUME NEW prior \in Seq(RedRange), NEW start \in Nat, NEW lines \in Seq(Line), NEW offset \in Int,
           AllAbove(prior, start)
    PROVE  /\ Without(prior \o RedsOf(start, lines), RedsOf(start, lines)) = prior
           /\ ShiftDownAfterLine(prior, start, offset) = prior
<1> DEFINE reds == RedsOf(start, lines)
           n == Len(lines)
           Own == {r \in RedRange : \E k \in 1..n : reds[k] = r}
           keep == [r \in RedRange |-> IF r \in Own THEN <<>> ELSE <<r>>]
           other == RedRange \ Own
           itself == [r \in other |-> r]
           s == prior \o reds
<1>1. /\ reds \in Seq(RedRange) /\ Len(reds) = n /\ n \in Nat
      /\ \A k \in 1..n : reds[k].start = start + k - 1
  BY RedsOfTyping
<1> HIDE DEF reds
<1>2. IsPiece(keep, RedRange, RedRange)
  <2>1. \A r \in RedRange : <<>> \in Seq(RedRange) /\ <<r>> \in Seq(RedRange)
    OBVIOUS
  <2> HIDE DEF Own
  <2> QED BY ONLY <2>1 DEF IsPiece
<1>3. s \in Seq(RedRange)
  BY ONLY <1>1, prior \in Seq(RedRange), ConcatProperties
<1>4. Without(s, reds) = Gathered(s, keep)
  <2>1. DOMAIN s = 1..Len(s) /\ DOMAIN reds = 1..n /\ \A k \in 1..Len(s) : s[k] \in RedRange
    BY ONLY <1>1, <1>3, LenProperties, ElementOfSeq
  <2> HIDE DEF s
  <2>2. ASSUME NEW k \in DOMAIN s
        PROVE  (IF \A j \in DOMAIN reds : reds[j] # s[k] THEN <<s[k]>> ELSE <<>>) = keep[s[k]]
    <3>1. s[k] \in RedRange
      BY ONLY <2>1, k \in DOMAIN s
    <3>2. s[k] \in Own <=> \E j \in 1..n : reds[j] = s[k]
      BY ONLY <3>1
    <3> HIDE DEF Own
    <3>3. keep[s[k]] = IF s[k] \in Own THEN <<>> ELSE <<s[k]>>
      BY ONLY <3>1
    <3> HIDE DEF keep
    <3> QED BY ONLY <2>1, <3>2, <3>3
  <2> HIDE DEF keep
  <2> QED BY ONLY <2>2 DEF Without, Gathered, Pieces
<1>5. Gathered(s, keep) = Gathered(prior, keep) \o Gathered(reds, keep)
  <2> HIDE DEF Own, keep
  <2> QED BY ONLY <1>1, <1>2, prior \in Seq(RedRange), GatherConcat
<1>6. Gathered(reds, keep) = <<>>
  <2>1. reds \in Seq(Own)
    <3>1. \A k \in 1..n : reds[k] \in Own
      BY ONLY <1>1, ElementOfSeq
    <3>2. reds \in [1..n -> Own]
      <4> HIDE DEF Own
      <4>1. reds = [k \in 1..n |-> reds[k]]
        BY ONLY <1>1, LenProperties
      <4> QED BY ONLY <3>1, <4>1
    <3> HIDE DEF Own
    <3> QED BY ONLY <1>1, <3>2, SeqDef
  <2>2. Own \in SUBSET RedRange
    OBVIOUS
  <2>3. \A r \in Own : keep[r] = <<>>
    BY ONLY <2>2
  <2> HIDE DEF Own, keep
  <2> QED BY ONLY <1>2, <2>1, <2>2, <2>3, GatherNone
<1>7. Gathered(prior, keep) = prior
  <2>1. Len(prior) \in Nat /\ \A k \in 1..Len(prior) : prior[k] \in RedRange
        /\ prior[k].start < start
    BY LenProperties, ElementOfSeq DEF AllAbove
  <2>2. ASSUME NEW k \in 1..Len(prior) PROVE prior[k] \in other
    <3>1. ASSUME NEW j \in 1..n, reds[j] = prior[k] PROVE FALSE
      <4>1. prior[k].start = start + j - 1 /\ prior[k].start < start
        BY ONLY <1>1, <2>1, <3>1, k \in 1..Len(prior)
      <4> QED BY ONLY <1>1, <4>1, start \in Nat, j \in 1..n
    <3> QED BY ONLY <2>1, <3>1, k \in 1..Len(prior)
  <2>3. other \in SUBSET RedRange /\ itself \in [other -> RedRange]
    OBVIOUS
  <2>4. \A r \in other : keep[r] = <<itself[r]>>
    OBVIOUS
  <2>5. prior = [k \in 1..Len(prior) |-> prior[k]]
    BY LenProperties
  <2>6. prior \in Seq(other)
    <3> HIDE DEF other
    <3>1. prior \in [1..Len(prior) -> other]
      BY ONLY <2>2, <2>5
    <3> QED BY ONLY <2>1, <3>1, SeqDef
  <2>7. \A k \in 1..Len(prior) : itself[prior[k]] = prior[k]
    BY ONLY <2>2
  <2> HIDE DEF other, itself, keep
  <2>8. Gathered(prior, keep) = [k \in 1..Len(prior) |-> itself[prior[k]]]
    BY ONLY <1>2, <2>3, <2>4, <2>6, GatherEach
  <2> QED BY ONLY <2>5, <2>7, <2>8
<1>8. prior \o <<>> = prior
  BY ONLY prior \in Seq(RedRange), ConcatEmptySeq
<1>9. ShiftDownAfterLine(prior, start, offset) = prior
  <2>1. DOMAIN prior = 1..Len(prior) /\ \A k \in 1..Len(prior) : prior[k] \in RedRange
        /\ prior[k].start < start
    BY LenProperties, ElementOfSeq DEF AllAbove
  <2>2. \A k \in DOMAIN prior : ~(prior[k].start >= start)
    <3>1. ASSUME NEW k \in DOMAIN prior PROVE ~(prior[k].start >= start)
      <4>1. prior[k].start < start /\ prior[k] \in RedRange
        BY ONLY <2>1, k \in DOMAIN prior
      <4>2. prior[k].start \in Nat
        BY ONLY <4>1 DEF RedRange
      <4> QED BY ONLY <4>1, <4>2, start \in Nat
    <3> QED BY ONLY <3>1
  <2>3. prior = [k \in DOMAIN prior |-> prior[k]]
    BY LenProperties
  <2> QED BY ONLY <2>2, <2>3 DEF ShiftDownAfterLine
<1> QED BY ONLY <1>4, <1>5, <1>6, <1>7, <1>8, <1>9 DEF s, reds

-----------------------------------------------------------------------------
(* A block is rejected                                                     *)

Block == [start : Nat, numRed : Nat, numGreen : Nat]
Blanks(n) == [k \in 1..n |-> Empty]
BlockAt(p, reds, greens) == [start |-> Len(p), numRed |-> Len(reds), numGreen |-> Len(greens)]

\* The view before: below p the block, and what follows.
ShowsBlock(w, p, reds, greens, rest, prior) ==
    /\ DOMAIN w = ViewFields
    /\ w.document = p \o (Blanks(Len(reds)) \o (greens \o rest))
    /\ prior \in Seq(RedRange) /\ AllAbove(prior, Len(p))
    /\ w.removed = prior \o RedsOf(Len(p), reds)

\* The view after it: the old lines are back; where nothing follows, an empty line may.
BlockIsBack(u, p, reds, rest, prior) ==
    /\ DOMAIN u = ViewFields /\ u.removed = prior
    /\ \E left \in Seq(Line) :
          u.document = p \o (reds \o left) /\ (left = rest \/ (rest = <<>> /\ left = <<Empty>>))

LEMMA BlanksTyping ==
    ASSUME NEW n \in Nat
    PROVE  Blanks(n) \in Seq(Line) /\ Len(Blanks(n)) = n
BY EmptyIsLine DEF Blanks

LEMMA RejectedOne ==
    ASSUME NEW w, NEW p \in Seq(Line), NEW reds \in Seq(Line), NEW greens \in Seq(Line),
           NEW rest \in Seq(Line), NEW prior, ShowsBlock(w, p, reds, greens, rest, prior)
    PROVE  BlockIsBack(AcceptRejectBlock(w, FALSE, BlockAt(p, reds, greens)), p, reds, rest, prior)
<1> DEFINE b == BlockAt(p, reds, greens)
           start == Len(p)
           n == Len(reds)
           m == Len(greens)
           blanks == Blanks(n)
           own == RedsOf(start, reds)
           found == IF b.numRed > 0 THEN RedsAt(w.removed, b.start) ELSE <<>>
           afterGreen == IF b.numGreen > 0 /\ ~FALSE
                         THEN DeleteLines(w.document, b.start + b.numRed, b.numGreen) ELSE w.document
           afterRed == IF b.numRed > 0 THEN DeleteLines(afterGreen, b.start, b.numRed) ELSE afterGreen
           offset == -b.numGreen
           u == AcceptRejectBlock(w, FALSE, b)
<1>1. start \in Nat /\ n \in Nat /\ m \in Nat /\ (n = 0 <=> reds = <<>>) /\ (m = 0 <=> greens = <<>>)
  BY LenProperties, EmptySeq
<1>2. b.start = start /\ b.numRed = n /\ b.numGreen = m
  BY DEF BlockAt
<1>3. /\ u.document = IF found # <<>> /\ ~FALSE
                      THEN InsertAbove(afterRed, b.start, LinesOf(found)) ELSE afterRed
      /\ u.removed = ShiftDownAfterLine(Without(w.removed, found), b.start, offset)
      /\ DOMAIN u = ViewFields
  BY DEF AcceptRejectBlock, ShowsBlock, ViewFields
<1> HIDE DEF b, u, offset, start, n, m
<1>4. blanks \in Seq(Line) /\ Len(blanks) = n
  BY ONLY <1>1, BlanksTyping
<1>5. /\ DOMAIN w = ViewFields /\ w.document = p \o (blanks \o (greens \o rest))
      /\ prior \in Seq(RedRange) /\ AllAbove(prior, start) /\ w.removed = prior \o own
  BY DEF ShowsBlock, start, n
<1>6. own \in Seq(RedRange) /\ Len(own) = n /\ LinesOf(own) = reds
  BY ONLY <1>1, reds \in Seq(Line), RedsOfTyping DEF n
<1> HIDE DEF own, blanks
<1>7. found = own
  <2>1. CASE n = 0
    <3>1. own = <<>>
      BY ONLY <1>6, <2>1, EmptySeq
    <3> QED BY ONLY <1>2, <2>1, <3>1
  <2>2. CASE n # 0
    <3>1. RedsAt(prior \o own, start) = own
      BY ONLY <1>1, <1>5, <2>2, reds \in Seq(Line), RedsFound DEF own
    <3>2. b.numRed > 0
      BY ONLY <1>1, <1>2, <2>2
    <3> QED BY ONLY <1>2, <1>5, <3>1, <3>2
  <2> QED BY ONLY <2>1, <2>2
<1> HIDE DEF found
<1>8. u.removed = prior
  <2>1. offset \in Int
    BY ONLY <1>1, <1>2 DEF offset
  <2>2. Without(prior \o own, own) = prior /\ ShiftDownAfterLine(prior, start, offset) = prior
    BY ONLY <1>1, <1>5, <2>1, reds \in Seq(Line), PriorStay DEF own
  <2> QED BY ONLY <1>2, <1>3, <1>5, <1>7, <2>2
<1> DEFINE more == IF greens # <<>> /\ rest = <<>> THEN <<Empty>> ELSE rest
           left == IF reds # <<>> /\ more = <<>> THEN <<Empty>> ELSE more
<1>9. /\ more \in Seq(Line) /\ left \in Seq(Line)
      /\ left = rest \/ (rest = <<>> /\ left = <<Empty>>)
  <2>1. <<Empty>> \in Seq(Line) /\ <<Empty>> # <<>>
    BY EmptyIsLine
  <2> QED BY ONLY <2>1, rest \in Seq(Line)
<1>10. afterGreen = p \o (blanks \o more)
  <2>1. CASE greens = <<>>
    <3>1. afterGreen = w.document
      BY ONLY <1>1, <1>2, <2>1
    <3>2. greens \o rest = rest
      BY ONLY <2>1, rest \in Seq(Line), ConcatEmptySeq
    <3> QED BY ONLY <1>5, <2>1, <3>1, <3>2
  <2>2. CASE greens # <<>>
    <3> DEFINE pb == p \o blanks
               gr == greens \o rest
    <3>1. /\ pb \in Seq(Line) /\ Len(pb) = start + n /\ gr \in Seq(Line)
          /\ p \o (blanks \o gr) = pb \o gr /\ p \o (blanks \o more) = pb \o more
      <4>1. Regroups(Line, p, blanks, gr)
        <5>1. gr \in Seq(Line)
          BY ONLY greens \in Seq(Line), rest \in Seq(Line), ConcatProperties
        <5> QED BY ONLY <1>4, <5>1, p \in Seq(Line), Regroup
      <4>2. Regroups(Line, p, blanks, more)
        BY ONLY <1>4, <1>9, p \in Seq(Line), Regroup
      <4>3. pb \in Seq(Line) /\ Len(pb) = Len(p) + Len(blanks)
        BY ONLY <1>4, p \in Seq(Line), ConcatProperties
      <4>4. gr \in Seq(Line)
        BY ONLY greens \in Seq(Line), rest \in Seq(Line), ConcatProperties
      <4> QED BY ONLY <1>4, <4>1, <4>2, <4>3, <4>4 DEF Regroups, start
    <3> HIDE DEF pb
    <3>2. DeleteLines(pb \o (greens \o rest), Len(pb), Len(greens))
             = pb \o (IF rest = <<>> THEN <<Empty>> ELSE rest)
      BY ONLY <2>2, <3>1, greens \in Seq(Line), rest \in Seq(Line), DeleteBetween
    <3>3. afterGreen = DeleteLines(w.document, start + n, m)
      <4>1. b.numGreen > 0
        BY ONLY <1>1, <1>2, <2>2
      <4> QED BY ONLY <1>2, <4>1
    <3>4. afterGreen = pb \o (IF rest = <<>> THEN <<Empty>> ELSE rest)
      BY ONLY <1>5, <3>1, <3>2, <3>3 DEF m
    <3> QED BY ONLY <2>2, <3>1, <3>4
  <2> QED BY ONLY <2>1, <2>2
<1> HIDE DEF afterGreen, more
<1>11. afterRed = p \o left
  <2>1. CASE reds = <<>>
    <3>1. blanks = <<>> /\ n = 0
      BY ONLY <1>1, <1>4, <2>1, EmptySeq
    <3>2. blanks \o more = more
      BY ONLY <1>9, <3>1, ConcatEmptySeq
    <3>3. afterRed = afterGreen
      BY ONLY <1>2, <3>1
    <3>4. left = more
      BY ONLY <2>1
    <3> QED BY ONLY <1>10, <3>2, <3>3, <3>4
  <2>2. CASE reds # <<>>
    <3>1. blanks # <<>> /\ n # 0
      BY ONLY <1>1, <1>4, <2>2, EmptySeq
    <3>2. DeleteLines(p \o (blanks \o more), Len(p), Len(blanks))
             = p \o (IF more = <<>> THEN <<Empty>> ELSE more)
      BY ONLY <1>4, <1>9, <3>1, p \in Seq(Line), DeleteBetween
    <3>3. afterRed = DeleteLines(afterGreen, start, n)
      <4>1. b.numRed > 0
        BY ONLY <1>1, <1>2, <3>1
      <4> QED BY ONLY <1>2, <4>1
    <3>4. afterRed = p \o (IF more = <<>> THEN <<Empty>> ELSE more)
      BY ONLY <1>4, <1>10, <3>2, <3>3 DEF start
    <3> QED BY ONLY <2>2, <3>4
  <2> QED BY ONLY <2>1, <2>2
<1> HIDE DEF afterRed, left
<1>12. u.document = p \o (reds \o left)
  <2>1. CASE reds = <<>>
    <3>1. found = <<>>
      BY ONLY <1>1, <1>6, <1>7, <2>1, EmptySeq
    <3>2. reds \o left = left
      BY ONLY <1>9, <2>1, ConcatEmptySeq
    <3> QED BY ONLY <1>3, <1>11, <3>1, <3>2
  <2>2. CASE reds # <<>>
    <3>1. found # <<>>
      BY ONLY <1>1, <1>6, <1>7, <2>2, EmptySeq
    <3>2. InsertAbove(p \o left, Len(p), reds) = p \o (reds \o left)
      <4>1. left \in Seq(Line)
        BY ONLY <1>9
      <4> QED BY ONLY <4>1, p \in Seq(Line), reds \in Seq(Line), InsertBetween, ZenonT(60)
    <3> QED BY ONLY <1>2, <1>3, <1>6, <1>7, <1>11, <3>1, <3>2 DEF start
  <2> QED BY ONLY <2>1, <2>2
<1>13. BlockIsBack(u, p, reds, rest, prior)
  BY ONLY <1>3, <1>8, <1>9, <1>12 DEF BlockIsBack
<1> QED BY ONLY <1>13 DEF u, b

-----------------------------------------------------------------------------
(* All blocks are rejected, from the last to the first                     *)

Rejected(f, lenses, w) ==
    /\ f[Len(lenses)] = w
    /\ \A k \in 1..Len(lenses) : f[k - 1] = AcceptRejectBlock(f[k], FALSE, lenses[k])

LEMMA RejectedAppend ==
    ASSUME NEW lenses \in Seq(Block), NEW b \in Block, NEW f, NEW w,
           Rejected(f, Append(lenses, b), w)
    PROVE  Rejected(f, lenses, AcceptRejectBlock(w, FALSE, b))
<1> DEFINE more == Append(lenses, b)
           n == Len(lenses)
<1>1. /\ n \in Nat /\ Len(more) = n + 1 /\ more[n + 1] = b
      /\ \A k \in 1..n : more[k] = lenses[k]
  BY LenProperties, AppendProperties
<1>2. /\ f[Len(more)] = w
      /\ \A k \in 1..Len(more) : f[k - 1] = AcceptRejectBlock(f[k], FALSE, more[k])
  BY DEF Rejected
<1> HIDE DEF more, n
<1>3. f[n] = AcceptRejectBlock(w, FALSE, b)
  <2>1. n + 1 \in 1..Len(more) /\ (n + 1) - 1 = n
    BY ONLY <1>1
  <2>2. f[(n + 1) - 1] = AcceptRejectBlock(f[n + 1], FALSE, more[n + 1])
    BY ONLY <1>2, <2>1
  <2> QED BY ONLY <1>1, <1>2, <2>1, <2>2
<1>4. ASSUME NEW k \in 1..n PROVE f[k - 1] = AcceptRejectBlock(f[k], FALSE, lenses[k])
  <2>1. k \in 1..Len(more)
    BY ONLY <1>1, k \in 1..n
  <2> QED BY ONLY <1>1, <1>2, <2>1, k \in 1..n
<1> QED BY ONLY <1>3, <1>4 DEF Rejected, n

RejectLoops(v, f) ==
    f = [k \in 0..Len(v.lenses) |->
            IF k = Len(v.lenses) THEN v ELSE AcceptRejectBlock(f[k + 1], FALSE, v.lenses[k + 1])]
RejectLoop(v) == CHOOSE f : RejectLoops(v, f)

LEMMA RejectLoopExists ==
    ASSUME NEW v, v.lenses \in Seq(Block)
    PROVE  RejectLoops(v, RejectLoop(v))
<1> DEFINE n == Len(v.lenses)
           Before(f, k) == AcceptRejectBlock(f[k + 1], FALSE, v.lenses[k + 1])
           Down(j, f) == /\ f = [k \in 0..n |-> f[k]] /\ f[n] = v
                         /\ \A k \in 0..n : n - j <= k /\ k # n => f[k] = Before(f, k)
           N == {j \in Nat : j <= n => \E f : Down(j, f)}
<1>1. n \in Nat
  BY LenProperties
<1> HIDE DEF n
<1>2. 0 \in N
  <2> DEFINE f == [k \in 0..n |-> v]
  <2>1. f[n] = v /\ f = [k \in 0..n |-> f[k]]
    BY ONLY <1>1
  <2>2. \A k \in 0..n : ~(n - 0 <= k /\ k # n)
    BY ONLY <1>1
  <2>3. Down(0, f)
    BY ONLY <2>1, <2>2
  <2> HIDE DEF f, Down
  <2> QED BY ONLY <2>3
<1>3. ASSUME NEW j \in N, j + 1 <= n PROVE \E f : Down(j + 1, f)
  <2>1. j \in Nat /\ j <= n /\ n - (j + 1) \in 0..n
    BY ONLY <1>1, <1>3
  <2>2. PICK f : Down(j, f)
    BY ONLY <1>3, <2>1
  <2> DEFINE i == n - (j + 1)
             h == [k \in 0..n |-> IF k = i THEN Before(f, i) ELSE f[k]]
  <2>3. /\ i \in 0..n /\ i + 1 \in 0..n /\ i # n
        /\ \A k \in 0..n : n - (j + 1) <= k /\ k # i => n - j <= k
    BY ONLY <1>1, <2>1
  <2> HIDE DEF i
  <2>4. \A k \in 0..n : h[k] = IF k = i THEN Before(f, i) ELSE f[k]
    BY ONLY <2>3
  <2>5. h = [k \in 0..n |-> h[k]]
    OBVIOUS
  <2> HIDE DEF h
  <2>6. h[n] = v
    <3>1. n \in 0..n
      BY ONLY <1>1
    <3>2. h[n] = f[n]
      BY ONLY <2>3, <2>4, <3>1
    <3> QED BY ONLY <2>2, <3>2
  <2>7. ASSUME NEW k \in 0..n, n - (j + 1) <= k, k # n PROVE h[k] = Before(h, k)
    <3>1. k + 1 \in 0..n
      BY ONLY <1>1, <2>7
    <3>2. k + 1 # i
      BY ONLY <1>1, <2>1, <2>7 DEF i
    <3>3. h[k + 1] = f[k + 1]
      BY ONLY <2>4, <3>1, <3>2
    <3>4. CASE k = i
      BY ONLY <2>4, <2>7, <3>3, <3>4
    <3>5. CASE k # i
      <4>1. n - j <= k
        BY ONLY <2>3, <2>7, <3>5
      <4>2. f[k] = Before(f, k)
        BY ONLY <2>2, <2>7, <4>1
      <4> QED BY ONLY <2>4, <2>7, <3>3, <3>5, <4>2
    <3> QED BY ONLY <3>4, <3>5
  <2>8. Down(j + 1, h)
    BY ONLY <2>5, <2>6, <2>7
  <2> HIDE DEF Down
  <2> QED BY ONLY <2>8
<1>4. N = Nat
  <2>1. N \in SUBSET Nat
    OBVIOUS
  <2>2. \A j \in N : j + 1 \in N
    <3> HIDE DEF Down
    <3> QED BY ONLY <1>3
  <2> HIDE DEF N
  <2> QED BY ONLY <1>2, <2>1, <2>2, AllNumbers
<1>5. PICK f : Down(n, f)
  <2> HIDE DEF Down
  <2> QED BY ONLY <1>1, <1>4
<1>6. RejectLoops(v, f)
  <2>1. \A k \in 0..n : f[k] = IF k = n THEN v ELSE Before(f, k)
    <3>1. \A k \in 0..n : n - n <= k
      BY ONLY <1>1
    <3> QED BY ONLY <1>5, <3>1
  <2>2. f = [k \in 0..n |-> f[k]]
    BY ONLY <1>5
  <2>3. f = [k \in 0..n |-> IF k = n THEN v ELSE Before(f, k)]
    BY ONLY <2>1, <2>2
  <2> QED BY ONLY <2>3 DEF RejectLoops, n
<1> QED BY ONLY <1>6 DEF RejectLoop

LEMMA RejectAllIsChain ==
    ASSUME NEW v, v.lenses \in Seq(Block)
    PROVE  \E f : Rejected(f, v.lenses, v) /\ RejectAllBlocks(v) = f[0]
<1> DEFINE f == RejectLoop(v)
           n == Len(v.lenses)
<1>1. RejectAllBlocks(v) = f[0]
  BY DEF RejectAllBlocks, RejectLoop, RejectLoops
<1>2. RejectLoops(v, f) /\ n \in Nat
  BY RejectLoopExists, LenProperties
<1> HIDE DEF f
<1>3. ASSUME NEW k \in 0..n
      PROVE  f[k] = IF k = n THEN v ELSE AcceptRejectBlock(f[k + 1], FALSE, v.lenses[k + 1])
  BY ONLY <1>2 DEF RejectLoops
<1> HIDE DEF n
<1>4. f[n] = v
  <2>1. n \in 0..n
    BY ONLY <1>2
  <2> QED BY ONLY <1>3, <2>1
<1>5. ASSUME NEW k \in 1..n PROVE f[k - 1] = AcceptRejectBlock(f[k], FALSE, v.lenses[k])
  <2>1. k - 1 \in 0..n /\ k - 1 # n /\ (k - 1) + 1 = k
    BY ONLY <1>2, <1>5
  <2>2. f[k - 1] = AcceptRejectBlock(f[(k - 1) + 1], FALSE, v.lenses[(k - 1) + 1])
    BY ONLY <1>3, <2>1
  <2> QED BY ONLY <2>1, <2>2
<1>6. Rejected(f, v.lenses, v)
  BY ONLY <1>4, <1>5 DEF Rejected, n
<1> QED BY ONLY <1>1, <1>6

-----------------------------------------------------------------------------
(* What was streamed is taken back                                         *)

\* Named, so that the provers see it only where it is cited.
Joins ==
    /\ \A s, t \in Seq(Line) : s \o t \in Seq(Line)
    /\ \A s, t, r \in Seq(Line) : (s \o t) \o r = s \o (t \o r)

LEMMA LinesJoin == Joins
<1>1. \A s, t \in Seq(Line) : s \o t \in Seq(Line)
  BY ConcatProperties
<1>2. ASSUME NEW s \in Seq(Line), NEW t \in Seq(Line), NEW r \in Seq(Line)
      PROVE  (s \o t) \o r = s \o (t \o r)
  BY ConcatAssociative
<1> QED BY ONLY <1>1, <1>2 DEF Joins

\* Whatever follows p: with the blocks in it rejected, the old lines stand there.
GoesBack(lenses, redRanges, p, done) ==
    \A w, f : \A more \in Seq(Line) :
        /\ DOMAIN w = ViewFields /\ w.removed = redRanges /\ w.document = p \o more
        /\ Rejected(f, lenses, w)
        => f[0].document = done \o more

\* The document is what is done with, the green lines of the open block, the old
\* lines to come and those behind the range; the last line of a file that ends with
\* the range is left empty when it is deleted.
Parts(v, rest, behind, begun, p, greens, done, extra) ==
    /\ DOMAIN v = ViewFields
    /\ v.document = p \o (greens \o (rest \o (behind \o extra)))
    /\ v.index = Len(p) + Len(greens) /\ v.inserted = Len(greens)
    /\ begun = done \o (v.buffer \o (rest \o behind))
    /\ extra \in {<<>>, <<Empty>>} /\ (behind # <<>> => extra = <<>>)
    /\ v.buffer \in Seq(Line) /\ v.lenses \in Seq(Block) /\ v.removed \in Seq(RedRange)
    /\ AllAbove(v.removed, Len(p))
    /\ GoesBack(v.lenses, v.removed, p, done)

OpenBlock(lenses, p, reds, greens) ==
    IF reds = <<>> /\ greens = <<>> THEN lenses ELSE Append(lenses, BlockAt(p, reds, greens))

\* The old lines of a block stand behind those of the blocks above.
TakesBack(doc, done, reds, rest) ==
    \E left \in Seq(Line) : /\ doc = done \o (reds \o left)
                            /\ left = rest \/ (rest = <<>> /\ left = <<Empty>>)

LEMMA BackThroughBlock ==
    ASSUME NEW lenses \in Seq(Block), NEW redRanges \in Seq(RedRange), NEW p \in Seq(Line),
           NEW done \in Seq(Line), GoesBack(lenses, redRanges, p, done),
           NEW reds \in Seq(Line), NEW greens \in Seq(Line), NEW rest \in Seq(Line),
           NEW w, ShowsBlock(w, p, reds, greens, rest, redRanges),
           NEW f, Rejected(f, OpenBlock(lenses, p, reds, greens), w)
    PROVE  TakesBack(f[0].document, done, reds, rest)
<1>1. CASE reds = <<>> /\ greens = <<>>
  <2>1. Len(reds) = 0 /\ Blanks(Len(reds)) = <<>> /\ RedsOf(Len(p), reds) = <<>>
    <3>1. Len(reds) = 0 /\ 0 \in Nat /\ Len(p) \in Nat
      BY ONLY <1>1, EmptySeq, p \in Seq(Line), LenProperties
    <3>2. /\ Blanks(0) \in Seq(Line) /\ Len(Blanks(0)) = 0
      BY ONLY <3>1, BlanksTyping
    <3>3. RedsOf(Len(p), reds) \in Seq(RedRange) /\ Len(RedsOf(Len(p), reds)) = 0
      BY ONLY <3>1, reds \in Seq(Line), RedsOfTyping
    <3> QED BY ONLY <3>1, <3>2, <3>3, EmptySeq
  <2>2. /\ <<>> \o rest = rest /\ redRanges \o <<>> = redRanges
    BY ONLY rest \in Seq(Line), redRanges \in Seq(RedRange), ConcatEmptySeq
  <2>3. DOMAIN w = ViewFields /\ w.document = p \o rest /\ w.removed = redRanges
    BY ONLY ShowsBlock(w, p, reds, greens, rest, redRanges), <1>1, <2>1, <2>2 DEF ShowsBlock
  <2>4. Rejected(f, lenses, w)
    BY ONLY <1>1, Rejected(f, OpenBlock(lenses, p, reds, greens), w) DEF OpenBlock
  <2>5. f[0].document = done \o rest
    BY ONLY <2>3, <2>4, rest \in Seq(Line), GoesBack(lenses, redRanges, p, done) DEF GoesBack
  <2> QED BY ONLY <1>1, <2>2, <2>5, rest \in Seq(Line) DEF TakesBack
<1>2. CASE ~(reds = <<>> /\ greens = <<>>)
  <2> DEFINE b == BlockAt(p, reds, greens)
             u == AcceptRejectBlock(w, FALSE, b)
  <2>1. b \in Block
    BY LenProperties DEF Block, BlockAt
  <2>2. Rejected(f, Append(lenses, b), w)
    BY ONLY <1>2, Rejected(f, OpenBlock(lenses, p, reds, greens), w) DEF OpenBlock
  <2>3. BlockIsBack(u, p, reds, rest, redRanges)
    BY RejectedOne
  <2> HIDE DEF b
  <2>4. Rejected(f, lenses, u)
    BY ONLY <2>1, <2>2, lenses \in Seq(Block), RejectedAppend
  <2> HIDE DEF u
  <2>5. PICK left \in Seq(Line) : /\ u.document = p \o (reds \o left)
                                  /\ left = rest \/ (rest = <<>> /\ left = <<Empty>>)
    BY ONLY <2>3 DEF BlockIsBack
  <2>6. DOMAIN u = ViewFields /\ u.removed = redRanges
    BY ONLY <2>3 DEF BlockIsBack
  <2>7. reds \o left \in Seq(Line)
    BY ONLY reds \in Seq(Line), left \in Seq(Line), ConcatProperties
  <2>8. f[0].document = done \o (reds \o left)
    BY ONLY <2>4, <2>5, <2>6, <2>7, GoesBack(lenses, redRanges, p, done) DEF GoesBack
  <2> QED BY ONLY <2>5, <2>8 DEF TakesBack
<1> QED BY ONLY <1>1, <1>2

\* The end of a block shows it.
LEMMA BufferShows ==
    ASSUME NEW v, NEW rest \in Seq(Line), NEW behind \in Seq(Line), NEW begun,
           NEW p \in Seq(Line), NEW greens \in Seq(Line), NEW done \in Seq(Line),
           NEW extra \in Seq(Line), Parts(v, rest, behind, begun, p, greens, done, extra)
    PROVE  LET b == InsertDeletionBuffer(v)
           IN  /\ ShowsBlock(b, p, v.buffer, greens, rest \o (behind \o extra), v.removed)
               /\ b.lenses = OpenBlock(v.lenses, p, v.buffer, greens)
               /\ b.index = v.index + Len(v.buffer) /\ b.inserted = 0 /\ b.buffer = <<>>
               /\ b.added = ShiftDownAfterLine(v.added, Len(p), Len(v.buffer))
<1> DEFINE b == InsertDeletionBuffer(v)
           n == Len(v.buffer)
           start == v.index - v.inserted
           follow == rest \o (behind \o extra)
           gf == greens \o follow
           blanks == Blanks(n)
<1>1. /\ DOMAIN v = ViewFields /\ v.document = p \o gf
      /\ v.index = Len(p) + Len(greens) /\ v.inserted = Len(greens) /\ v.buffer \in Seq(Line)
      /\ v.removed \in Seq(RedRange) /\ AllAbove(v.removed, Len(p))
  BY DEF Parts
<1>2. Len(p) \in Nat /\ Len(greens) \in Nat /\ n \in Nat /\ (n = 0 <=> v.buffer = <<>>)
      /\ (Len(greens) = 0 <=> greens = <<>>)
  BY ONLY <1>1, p \in Seq(Line), greens \in Seq(Line), LenProperties, EmptySeq
<1>3. start = Len(p) /\ v.inserted = Len(greens)
  BY ONLY <1>1, <1>2
<1>4. /\ b.document = InsertAbove(v.document, start, blanks)
      /\ b.removed = v.removed \o [k \in 1..n |-> Red(start + k - 1, v.buffer[k])]
      /\ b.lenses = IF n + v.inserted = 0 THEN v.lenses
                    ELSE Append(v.lenses, [start |-> start, numRed |-> n, numGreen |-> v.inserted])
      /\ b.index = v.index + n /\ b.inserted = 0 /\ b.buffer = <<>> /\ DOMAIN b = ViewFields
      /\ b.added = ShiftDownAfterLine(v.added, start, n)
  BY <1>1 DEF InsertDeletionBuffer, ViewFields, Blanks
<1> HIDE DEF b, start
<1>5. blanks \in Seq(Line) /\ Len(blanks) = n
  BY ONLY <1>2, BlanksTyping
<1>6. gf \in Seq(Line)
  BY ONLY LinesJoin, rest \in Seq(Line), behind \in Seq(Line), extra \in Seq(Line),
          greens \in Seq(Line) DEF Joins
<1> HIDE DEF gf, blanks
<1>7. b.document = p \o (blanks \o gf)
  <2>1. InsertAbove(p \o gf, Len(p), blanks) = p \o (blanks \o gf)
    <3>1. blanks \in Seq(Line)
      BY ONLY <1>5
    <3> QED BY ONLY <1>6, <3>1, p \in Seq(Line), InsertBetween, ZenonT(60)
  <2> QED BY ONLY <1>1, <1>3, <1>4, <2>1
<1>8. b.removed = v.removed \o RedsOf(Len(p), v.buffer)
  BY ONLY <1>3, <1>4 DEF RedsOf
<1>9. b.lenses = OpenBlock(v.lenses, p, v.buffer, greens)
  <2>1. n + v.inserted = 0 <=> v.buffer = <<>> /\ greens = <<>>
    BY ONLY <1>2, <1>3
  <2> QED BY ONLY <1>3, <1>4, <2>1 DEF OpenBlock, BlockAt
<1>10. ShowsBlock(b, p, v.buffer, greens, follow, v.removed)
  BY ONLY <1>1, <1>4, <1>7, <1>8 DEF ShowsBlock, gf, blanks
<1> QED BY ONLY <1>3, <1>4, <1>9, <1>10 DEF b

-----------------------------------------------------------------------------
(* The marked lines are those of the blocks                                *)

GreenRange == [start : Nat, end : Nat]

LEMMA AppendElements ==
    ASSUME NEW S, NEW s \in Seq(S), NEW e \in S
    PROVE  ToSet(Append(s, e)) = ToSet(s) \cup {e}
<1>1. /\ Len(s) \in Nat /\ Append(s, e) \in Seq(S) /\ Len(Append(s, e)) = Len(s) + 1
      /\ Append(s, e)[Len(s) + 1] = e /\ \A i \in 1..Len(s) : Append(s, e)[i] = s[i]
  BY LenProperties, AppendProperties
<1>2. DOMAIN s = 1..Len(s) /\ DOMAIN Append(s, e) = 1..(Len(s) + 1)
  BY <1>1, LenProperties
<1> DEFINE t == Append(s, e)
           n == Len(s)
<1> HIDE DEF t, n
<1>3. ASSUME NEW el PROVE el \in ToSet(t) <=> el \in ToSet(s) \cup {e}
  <2>1. el \in ToSet(t) <=> \E i \in 1..(n + 1) : t[i] = el
    BY ONLY <1>2 DEF ToSet, t, n
  <2>2. el \in ToSet(s) <=> \E i \in 1..n : s[i] = el
    BY ONLY <1>2 DEF ToSet, n
  <2>3. n \in Nat /\ t[n + 1] = e /\ \A i \in 1..n : t[i] = s[i]
    BY ONLY <1>1 DEF t, n
  <2>4. \A i \in 1..(n + 1) : i \in 1..n \/ i = n + 1
    BY ONLY <2>3
  <2>5. (\A i \in 1..n : i \in 1..(n + 1)) /\ n + 1 \in 1..(n + 1)
    BY ONLY <2>3
  <2> QED BY ONLY <2>1, <2>2, <2>3, <2>4, <2>5
<1> QED BY ONLY <1>3 DEF t

LEMMA ConcatElements ==
    ASSUME NEW S, NEW s \in Seq(S), NEW t \in Seq(S)
    PROVE  ToSet(s \o t) = ToSet(s) \cup ToSet(t)
<1> DEFINE r == s \o t
           n == Len(s)
           m == Len(t)
<1>1. /\ n \in Nat /\ m \in Nat /\ Len(r) = n + m
      /\ DOMAIN s = 1..n /\ DOMAIN t = 1..m /\ DOMAIN r = 1..(n + m)
      /\ \A i \in 1..n + m : r[i] = IF i <= n THEN s[i] ELSE t[i - n]
  BY LenProperties, ConcatProperties
<1> HIDE DEF r, n, m
<1>2. ASSUME NEW el \in ToSet(r) PROVE el \in ToSet(s) \cup ToSet(t)
  <2>1. PICK i \in 1..(n + m) : r[i] = el
    BY ONLY <1>1, el \in ToSet(r) DEF ToSet
  <2>2. CASE i <= n
    <3>1. i \in 1..n /\ s[i] = el
      BY ONLY <1>1, <2>1, <2>2
    <3> QED BY ONLY <1>1, <3>1 DEF ToSet
  <2>3. CASE ~(i <= n)
    <3>1. i - n \in 1..m
      BY ONLY <1>1, <2>1, <2>3
    <3>2. t[i - n] = el
      BY ONLY <1>1, <2>1, <2>3
    <3> QED BY ONLY <1>1, <3>1, <3>2 DEF ToSet
  <2> QED BY ONLY <2>2, <2>3
<1>3. ASSUME NEW el \in ToSet(s) PROVE el \in ToSet(r)
  <2>1. PICK i \in 1..n : s[i] = el
    BY ONLY <1>1, el \in ToSet(s) DEF ToSet
  <2>2. i \in 1..(n + m) /\ i <= n
    BY ONLY <1>1, <2>1
  <2>3. r[i] = el
    BY ONLY <1>1, <2>1, <2>2
  <2> QED BY ONLY <1>1, <2>2, <2>3 DEF ToSet
<1>4. ASSUME NEW el \in ToSet(t) PROVE el \in ToSet(r)
  <2>1. PICK i \in 1..m : t[i] = el
    BY ONLY <1>1, el \in ToSet(t) DEF ToSet
  <2> DEFINE j == i + n
  <2>2. j \in 1..(n + m) /\ ~(j <= n) /\ j - n = i
    BY ONLY <1>1, <2>1
  <2> HIDE DEF j
  <2>3. r[j] = el
    BY ONLY <1>1, <2>1, <2>2
  <2> QED BY ONLY <1>1, <2>2, <2>3 DEF ToSet
<1> QED BY ONLY <1>2, <1>3, <1>4 DEF r

\* One range, or one block more.
LEMMA MarkedMore ==
    ASSUME NEW S, NEW ranges \in Seq(S), NEW r \in S
    PROVE  Marked(Append(ranges, r)) = Marked(ranges) \cup r.start..r.end
<1> DEFINE all == ToSet(ranges)
<1>1. ToSet(Append(ranges, r)) = all \cup {r}
  BY AppendElements
<1> HIDE DEF all
<1>2. UNION {q.start..q.end : q \in all \cup {r}} = (UNION {q.start..q.end : q \in all}) \cup r.start..r.end
  <2> DEFINE U == UNION {q.start..q.end : q \in all \cup {r}}
             V == UNION {q.start..q.end : q \in all}
  <2>1. ASSUME NEW i PROVE i \in U <=> i \in V \cup r.start..r.end
    <3>1. i \in U <=> \E q \in all \cup {r} : i \in q.start..q.end
      OBVIOUS
    <3>2. i \in V <=> \E q \in all : i \in q.start..q.end
      OBVIOUS
    <3> QED BY ONLY <3>1, <3>2
  <2> HIDE DEF U, V
  <2>2. U = V \cup r.start..r.end
    BY ONLY <2>1
  <2> QED BY ONLY <2>2 DEF U, V
<1> QED BY ONLY <1>1, <1>2 DEF Marked, all

RedLinesOf(lenses) == UNION {RedLines(b) : b \in ToSet(lenses)}
GreenLinesOf(lenses) == UNION {GreenLines(b) : b \in ToSet(lenses)}

LEMMA BlockLines ==
    ASSUME NEW lenses \in Seq(Block), NEW b \in Block
    PROVE  /\ RedLinesOf(Append(lenses, b)) = RedLinesOf(lenses) \cup RedLines(b)
           /\ GreenLinesOf(Append(lenses, b)) = GreenLinesOf(lenses) \cup GreenLines(b)
<1> DEFINE all == ToSet(lenses)
<1>1. ToSet(Append(lenses, b)) = all \cup {b}
  BY AppendElements
<1> HIDE DEF all
<1>2. UNION {RedLines(q) : q \in all \cup {b}} = (UNION {RedLines(q) : q \in all}) \cup RedLines(b)
  <2> DEFINE U == UNION {RedLines(q) : q \in all \cup {b}}
             V == UNION {RedLines(q) : q \in all}
  <2>1. ASSUME NEW i PROVE i \in U <=> i \in V \cup RedLines(b)
    <3>1. i \in U <=> \E q \in all \cup {b} : i \in RedLines(q)
      OBVIOUS
    <3>2. i \in V <=> \E q \in all : i \in RedLines(q)
      OBVIOUS
    <3> QED BY ONLY <3>1, <3>2
  <2> HIDE DEF U, V
  <2>2. U = V \cup RedLines(b)
    BY ONLY <2>1
  <2> QED BY ONLY <2>2 DEF U, V
<1>3. UNION {GreenLines(q) : q \in all \cup {b}} = (UNION {GreenLines(q) : q \in all}) \cup GreenLines(b)
  <2> DEFINE U == UNION {GreenLines(q) : q \in all \cup {b}}
             V == UNION {GreenLines(q) : q \in all}
  <2>1. ASSUME NEW i PROVE i \in U <=> i \in V \cup GreenLines(b)
    <3>1. i \in U <=> \E q \in all \cup {b} : i \in GreenLines(q)
      OBVIOUS
    <3>2. i \in V <=> \E q \in all : i \in GreenLines(q)
      OBVIOUS
    <3> QED BY ONLY <3>1, <3>2
  <2> HIDE DEF U, V
  <2>2. U = V \cup GreenLines(b)
    BY ONLY <2>1
  <2> QED BY ONLY <2>2 DEF U, V
<1> QED BY ONLY <1>1, <1>2, <1>3 DEF RedLinesOf, GreenLinesOf, all

\* The red lines of a block are marked one by one.
LEMMA RedsMark ==
    ASSUME NEW start \in Nat, NEW lines \in Seq(Line)
    PROVE  Marked(RedsOf(start, lines)) = start..(start + Len(lines) - 1)
<1> DEFINE reds == RedsOf(start, lines)
           n == Len(lines)
<1>1. /\ reds \in Seq(RedRange) /\ Len(reds) = n /\ n \in Nat
      /\ \A k \in 1..n : reds[k] = Red(start + k - 1, lines[k])
  BY RedsOfTyping
<1>2. DOMAIN reds = 1..n
  BY ONLY <1>1, LenProperties
<1> HIDE DEF reds, n
<1>3. ASSUME NEW k \in 1..n PROVE reds[k].start..reds[k].end = {start + k - 1}
  <2> DEFINE e == start + k - 1
  <2>1. e \in Int
    BY ONLY <1>1, start \in Nat, k \in 1..n
  <2>2. reds[k].start = e /\ reds[k].end = e
    BY ONLY <1>1, k \in 1..n DEF Red
  <2> HIDE DEF e
  <2>3. e..e = {e}
    BY ONLY <2>1
  <2> QED BY ONLY <2>2, <2>3 DEF e
<1>4. ASSUME NEW i PROVE i \in Marked(reds) <=> \E k \in 1..n : i = start + k - 1
  <2>1. i \in Marked(reds) <=> \E k \in 1..n : i \in reds[k].start..reds[k].end
    BY ONLY <1>2 DEF Marked, ToSet
  <2> QED BY ONLY <1>3, <2>1
<1>5. ASSUME NEW i PROVE i \in start..(start + n - 1) <=> \E k \in 1..n : i = start + k - 1
  <2>1. ASSUME i \in start..(start + n - 1) PROVE \E k \in 1..n : i = start + k - 1
    <3>1. i - start + 1 \in 1..n /\ i = start + (i - start + 1) - 1
      BY ONLY <1>1, <2>1, start \in Nat
    <3> QED BY ONLY <3>1
  <2>2. ASSUME NEW k \in 1..n, i = start + k - 1 PROVE i \in start..(start + n - 1)
    BY ONLY <1>1, <2>2, start \in Nat, k \in 1..n
  <2> QED BY ONLY <2>1, <2>2
<1>6. Marked(reds) = start..(start + n - 1)
  BY ONLY <1>4, <1>5
<1> QED BY ONLY <1>6 DEF reds, n

RedsMarked(redRanges, lenses) == Marked(redRanges) = RedLinesOf(lenses)

LEMMA RedsMarkBlock ==
    ASSUME NEW redRanges \in Seq(RedRange), NEW lenses \in Seq(Block), RedsMarked(redRanges, lenses),
           NEW p \in Seq(Line), NEW reds \in Seq(Line), NEW greens \in Seq(Line)
    PROVE  RedsMarked(redRanges \o RedsOf(Len(p), reds), OpenBlock(lenses, p, reds, greens))
<1> DEFINE own == RedsOf(Len(p), reds)
           b == BlockAt(p, reds, greens)
<1>1. Len(p) \in Nat /\ Len(reds) \in Nat /\ Len(greens) \in Nat
  BY LenProperties
<1>2. own \in Seq(RedRange) /\ Marked(own) = RedLines(b)
  <2>1. own \in Seq(RedRange) /\ Marked(own) = Len(p)..(Len(p) + Len(reds) - 1)
    BY <1>1, RedsOfTyping, RedsMark
  <2> QED BY ONLY <2>1 DEF RedLines, BlockAt
<1>3. b \in Block
  BY ONLY <1>1 DEF Block, BlockAt
<1>4. reds = <<>> => RedLines(b) = {}
  <2>1. ASSUME reds = <<>> PROVE Len(reds) = 0
    BY <2>1, EmptySeq
  <2>2. ASSUME Len(reds) = 0 PROVE RedLines(b) = {}
    BY ONLY <1>1, <2>2 DEF RedLines, BlockAt
  <2> QED BY ONLY <2>1, <2>2
<1> HIDE DEF own, b
<1>5. Marked(redRanges \o own) = Marked(redRanges) \cup Marked(own)
  <2>1. ToSet(redRanges \o own) = ToSet(redRanges) \cup ToSet(own)
    BY ONLY <1>2, redRanges \in Seq(RedRange), ConcatElements
  <2> QED BY ONLY <2>1 DEF Marked
<1>6. RedLinesOf(OpenBlock(lenses, p, reds, greens)) = RedLinesOf(lenses) \cup RedLines(b)
  <2>1. RedLinesOf(Append(lenses, b)) = RedLinesOf(lenses) \cup RedLines(b)
    BY ONLY <1>3, lenses \in Seq(Block), BlockLines
  <2> QED BY ONLY <1>4, <2>1 DEF OpenBlock, b
<1> QED BY ONLY <1>2, <1>5, <1>6, RedsMarked(redRanges, lenses) DEF RedsMarked, own

\* So are the green ones: those of the blocks, and the m lines from start on of the
\* block that is open.  Between two blocks a line is kept: the ranges do not touch.
GreensMarked(added, lenses, start, m) ==
    \E prior \in Seq(GreenRange) :
        /\ \A k \in 1..Len(prior) : prior[k].start <= prior[k].end /\ prior[k].end + 1 < start
        /\ Marked(prior) = GreenLinesOf(lenses)
        /\ added = IF m = 0 THEN prior ELSE Append(prior, [start |-> start, end |-> start + m - 1])

LEMMA GreenAdded ==
    ASSUME NEW added, NEW lenses, NEW start \in Nat, NEW m \in Nat,
           GreensMarked(added, lenses, start, m)
    PROVE  GreensMarked(AddGreen(added, start + m), lenses, start, m + 1)
<1>1. PICK prior \in Seq(GreenRange) :
        /\ \A k \in 1..Len(prior) : prior[k].start <= prior[k].end /\ prior[k].end + 1 < start
        /\ Marked(prior) = GreenLinesOf(lenses)
        /\ added = IF m = 0 THEN prior ELSE Append(prior, [start |-> start, end |-> start + m - 1])
  BY ONLY GreensMarked(added, lenses, start, m) DEF GreensMarked
<1> DEFINE n == Len(prior)
           last == [start |-> start, end |-> start + m]
<1>2. n \in Nat /\ last \in GreenRange
  BY ONLY start \in Nat, m \in Nat, prior \in Seq(GreenRange), LenProperties DEF GreenRange
<1>3. AddGreen(added, start + m) = Append(prior, last)
  <2>1. CASE m = 0
    <3>1. added = prior /\ last = [start |-> start + m, end |-> start + m]
      BY ONLY <1>1, <2>1, start \in Nat
    <3>2. ~(prior # <<>> /\ Last(prior).end = start + m - 1)
      <4>1. SUFFICES ASSUME prior # <<>>, Last(prior).end = start + m - 1 PROVE FALSE
        OBVIOUS
      <4>2. n \in 1..n
        <5>1. n # 0
          BY ONLY <4>1, prior \in Seq(GreenRange), EmptySeq
        <5> QED BY ONLY <1>2, <5>1
      <4>3. prior[n].end + 1 < start /\ prior[n].end = start - 1
        BY ONLY <1>1, <2>1, <4>1, <4>2, start \in Nat DEF Last
      <4> QED BY ONLY <4>3, start \in Nat
    <3> QED BY ONLY <3>1, <3>2 DEF AddGreen
  <2>2. CASE m # 0
    <3> DEFINE r == [start |-> start, end |-> start + m - 1]
    <3>1. added = Append(prior, r)
      BY ONLY <1>1, <2>2
    <3>2. r \in GreenRange
      BY ONLY <2>2, start \in Nat, m \in Nat DEF GreenRange
    <3>3. r.end = start + m - 1 /\ [r EXCEPT !.end = start + m] = last
      OBVIOUS
    <3> HIDE DEF r
    <3>4. /\ added \in Seq(GreenRange) /\ Len(added) = n + 1 /\ added[n + 1] = r
          /\ \A i \in 1..n : added[i] = prior[i]
      BY ONLY <3>1, <3>2, prior \in Seq(GreenRange), AppendProperties
    <3>5. added # <<>> /\ Last(added).end = start + m - 1
      <4>1. Len(added) # 0
        BY ONLY <1>2, <3>4
      <4> QED BY ONLY <3>3, <3>4, <4>1, EmptySeq DEF Last
    <3>6. AddGreen(added, start + m) = [added EXCEPT ![n + 1].end = start + m]
      BY ONLY <3>4, <3>5 DEF AddGreen
    <3> DEFINE t == [added EXCEPT ![n + 1] = last]
    <3>7. [added EXCEPT ![n + 1].end = start + m] = t
      BY ONLY <3>3, <3>4
    <3>8. DOMAIN added = 1..(n + 1)
      BY ONLY <3>4, LenProperties
    <3> DEFINE longer == Append(prior, last)
    <3>9. /\ longer \in Seq(GreenRange) /\ Len(longer) = n + 1 /\ longer[n + 1] = last
          /\ \A i \in 1..n : longer[i] = prior[i]
      BY ONLY <1>2, prior \in Seq(GreenRange), AppendProperties
    <3> HIDE DEF longer, last
    <3>10. t \in Seq(GreenRange) /\ Len(t) = n + 1
      BY ONLY <1>2, <3>4, <3>8, ExceptSeq
    <3>11. \A i \in 1..(n + 1) : t[i] = IF i = n + 1 THEN last ELSE added[i]
      BY ONLY <3>8
    <3> HIDE DEF t
    <3>12. ASSUME NEW i \in 1..(n + 1) PROVE t[i] = longer[i]
      <4>1. i = n + 1 \/ i \in 1..n
        BY ONLY <1>2, i \in 1..(n + 1)
      <4>2. CASE i = n + 1
        BY ONLY <3>9, <3>11, <4>2, i \in 1..(n + 1)
      <4>3. CASE i # n + 1
        BY ONLY <3>4, <3>9, <3>11, <4>1, <4>3, i \in 1..(n + 1)
      <4> QED BY ONLY <4>2, <4>3
    <3>13. t = longer
      BY ONLY <3>9, <3>10, <3>12, SeqEqual
    <3> QED BY ONLY <3>6, <3>7, <3>13 DEF longer
  <2> QED BY ONLY <2>1, <2>2
<1>4. m + 1 # 0 /\ start + (m + 1) - 1 = start + m
  BY ONLY start \in Nat, m \in Nat
<1> QED BY ONLY <1>1, <1>3, <1>4, prior \in Seq(GreenRange) DEF GreensMarked

\* At the end of a block its green lines are moved down, below the red ones.
LEMMA GreensShifted ==
    ASSUME NEW added, NEW lenses \in Seq(Block), NEW p \in Seq(Line), NEW reds \in Seq(Line),
           NEW greens \in Seq(Line), GreensMarked(added, lenses, Len(p), Len(greens))
    PROVE  LET shifted == ShiftDownAfterLine(added, Len(p), Len(reds))
               more == OpenBlock(lenses, p, reds, greens)
           IN  /\ Marked(shifted) = GreenLinesOf(more)
               /\ GreensMarked(shifted, more, Len(p) + Len(reds) + Len(greens) + 1, 0)
<1> DEFINE start == Len(p)
           n == Len(reds)
           m == Len(greens)
           r == [start |-> start, end |-> start + m - 1]
           s == [start |-> start + n, end |-> start + n + m - 1]
           b == BlockAt(p, reds, greens)
           more == OpenBlock(lenses, p, reds, greens)
           shifted == ShiftDownAfterLine(added, start, n)
           behind == start + n + m + 1
           Apart(ranges, i) == \A k \in 1..Len(ranges) : /\ ranges[k].start <= ranges[k].end
                                                         /\ ranges[k].end + 1 < i
<1>1. /\ start \in Nat /\ n \in Nat /\ m \in Nat
      /\ (n = 0 <=> reds = <<>>) /\ (m = 0 <=> greens = <<>>)
  BY LenProperties, EmptySeq
<1>2. b \in Block /\ GreenLines(b) = (start + n)..(start + n + m - 1)
  BY ONLY <1>1 DEF BlockAt, Block, GreenLines
<1>3. PICK prior \in Seq(GreenRange) :
        /\ Apart(prior, start) /\ Marked(prior) = GreenLinesOf(lenses)
        /\ added = IF m = 0 THEN prior ELSE Append(prior, r)
  BY ONLY GreensMarked(added, lenses, Len(p), Len(greens)) DEF GreensMarked
<1>4. GreenLinesOf(more) = GreenLinesOf(lenses) \cup GreenLines(b)
  <2>1. GreenLinesOf(Append(lenses, b)) = GreenLinesOf(lenses) \cup GreenLines(b)
    BY ONLY <1>2, lenses \in Seq(Block), BlockLines
  <2>2. greens = <<>> => GreenLines(b) = {}
    BY ONLY <1>1, <1>2
  <2> QED BY ONLY <2>1, <2>2 DEF OpenBlock
<1> DEFINE k0 == Len(prior)
<1>5. /\ k0 \in Nat /\ DOMAIN prior = 1..k0
      /\ \A k \in 1..k0 : /\ prior[k] \in GreenRange /\ prior[k].start \in Nat /\ prior[k].end \in Nat
                          /\ ~(prior[k].start >= start) /\ prior[k].end + 1 < behind
  <2>1. k0 \in Nat /\ DOMAIN prior = 1..k0
    BY LenProperties
  <2>2. \A k \in 1..k0 : prior[k] \in GreenRange
    BY ONLY prior \in Seq(GreenRange), ElementOfSeq
  <2>3. \A k \in 1..k0 : prior[k].start \in Nat /\ prior[k].end \in Nat
    BY ONLY <2>2 DEF GreenRange
  <2> QED BY ONLY <1>1, <1>3, <2>1, <2>2, <2>3
<1> HIDE DEF start, n, m, b, more
<1>6. shifted \in Seq(GreenRange) /\ Apart(shifted, behind) /\ Marked(shifted) = GreenLinesOf(more)
  <2>1. CASE m = 0
    <3>1. shifted = [k \in 1..k0 |-> prior[k]]
      <4>1. added = prior
        BY ONLY <1>3, <2>1
      <4> QED BY ONLY <1>5, <4>1 DEF ShiftDownAfterLine
    <3>2. shifted = prior
      BY ONLY <1>5, <3>1, prior \in Seq(GreenRange)
    <3>3. GreenLines(b) = {}
      BY ONLY <1>1, <1>2, <2>1
    <3>4. Apart(prior, behind)
      BY ONLY <1>3, <1>5
    <3> QED BY ONLY <1>3, <1>4, <3>2, <3>3, <3>4, prior \in Seq(GreenRange)
  <2>2. CASE m # 0
    <3>1. r \in GreenRange /\ s \in GreenRange
      BY ONLY <1>1, <2>2 DEF GreenRange
    <3>2. /\ added \in Seq(GreenRange) /\ Len(added) = k0 + 1 /\ added[k0 + 1] = r
          /\ \A k \in 1..k0 : added[k] = prior[k]
      BY ONLY <1>3, <2>2, <3>1, prior \in Seq(GreenRange), AppendProperties
    <3>3. DOMAIN added = 1..(k0 + 1)
      BY ONLY <3>2, LenProperties
    <3> DEFINE longer == Append(prior, s)
    <3>4. /\ longer \in Seq(GreenRange) /\ Len(longer) = k0 + 1 /\ longer[k0 + 1] = s
          /\ \A k \in 1..k0 : longer[k] = prior[k]
      BY ONLY <3>1, prior \in Seq(GreenRange), AppendProperties
    <3>5. [r EXCEPT !.start = @ + n, !.end = @ + n] = s /\ r.start >= start
      <4> DEFINE e == start + m - 1
                 g == start + n + m - 1
      <4>1. e + n = g /\ start >= start
        BY ONLY <1>1
      <4> HIDE DEF e, g
      <4> DEFINE c == [start |-> start, end |-> e]
                 t == [c EXCEPT !.start = @ + n, !.end = @ + n]
      <4>2. c.start = start /\ c.end = e /\ DOMAIN c = {"start", "end"}
        OBVIOUS
      <4> HIDE DEF c
      <4>3. t.start = start + n /\ t.end = e + n /\ DOMAIN t = {"start", "end"}
        BY ONLY <4>2
      <4>4. t = [i \in {"start", "end"} |-> t[i]]
        BY ONLY <4>2
      <4> HIDE DEF t
      <4>5. t = [start |-> start + n, end |-> g]
        BY ONLY <4>1, <4>3, <4>4
      <4> QED BY ONLY <4>1, <4>5 DEF c, t, e, g
    <3>6. Marked(longer) = Marked(prior) \cup s.start..s.end /\ s.start..s.end = GreenLines(b)
      BY ONLY <1>2, <3>1, prior \in Seq(GreenRange), MarkedMore
    <3>7. s.start <= s.end /\ s.end + 1 < behind
      <4>1. start + n <= start + n + m - 1 /\ (start + n + m - 1) + 1 < behind
        BY ONLY <1>1, <2>2
      <4> QED BY ONLY <4>1
    <3> HIDE DEF longer, r, s
    <3>8. shifted = [k \in 1..(k0 + 1) |-> IF added[k].start >= start
                        THEN [added[k] EXCEPT !.start = @ + n, !.end = @ + n] ELSE added[k]]
      BY ONLY <3>3 DEF ShiftDownAfterLine
    <3> HIDE DEF shifted
    <3>9. ASSUME NEW k \in 1..(k0 + 1) PROVE shifted[k] = longer[k] /\ shifted[k] \in GreenRange
      <4>1. k = k0 + 1 \/ k \in 1..k0
        BY ONLY <1>5, k \in 1..(k0 + 1)
      <4>2. CASE k = k0 + 1
        BY ONLY <3>1, <3>2, <3>4, <3>5, <3>8, <4>2, k \in 1..(k0 + 1)
      <4>3. CASE k \in 1..k0
        BY ONLY <1>5, <3>2, <3>4, <3>8, <4>3, k \in 1..(k0 + 1)
      <4> QED BY ONLY <4>1, <4>2, <4>3
    <3>10. shifted = longer
      <4>1. DOMAIN shifted = 1..(k0 + 1) /\ shifted = [k \in 1..(k0 + 1) |-> shifted[k]]
        BY ONLY <3>8
      <4>2. longer = [k \in 1..(k0 + 1) |-> longer[k]]
        BY ONLY <3>4, LenProperties
      <4> QED BY ONLY <3>9, <4>1, <4>2
    <3>11. Apart(longer, behind)
      <4>1. ASSUME NEW k \in 1..(k0 + 1) PROVE longer[k].start <= longer[k].end /\ longer[k].end + 1 < behind
        <5>1. k = k0 + 1 \/ k \in 1..k0
          BY ONLY <1>5, k \in 1..(k0 + 1)
        <5>2. CASE k = k0 + 1
          BY ONLY <3>4, <3>7, <5>2
        <5>3. CASE k \in 1..k0
          BY ONLY <1>3, <1>5, <3>4, <5>3
        <5> QED BY ONLY <5>1, <5>2, <5>3
      <4> QED BY ONLY <3>4, <4>1
    <3> QED BY ONLY <1>3, <1>4, <3>4, <3>6, <3>10, <3>11
  <2> QED BY ONLY <2>1, <2>2
<1> HIDE DEF shifted
<1>7. GreensMarked(shifted, more, behind, 0)
  BY ONLY <1>6 DEF GreensMarked
<1> QED BY ONLY <1>6, <1>7 DEF shifted, more, start, n, m

\* The marks of a view whose open block has green lines below p.
Marks(v, p, greens) ==
    /\ RedsMarked(v.removed, v.lenses)
    /\ GreensMarked(v.added, v.lenses, Len(p), Len(greens))

\* The lines rest are still to come in the range, the lines behind follow it.
Streams(v, rest, behind, begun) ==
    \E p, greens, done, extra \in Seq(Line) :
        Parts(v, rest, behind, begun, p, greens, done, extra) /\ Marks(v, p, greens)

\* The three kinds of diff lines.
LEMMA OldStreams ==
    ASSUME NEW v, NEW line \in Line, NEW rest \in Seq(Line), NEW behind \in Seq(Line), NEW begun,
           NEW p \in Seq(Line), NEW greens \in Seq(Line), NEW done \in Seq(Line),
           NEW extra \in Seq(Line), Parts(v, <<line>> \o rest, behind, begun, p, greens, done, extra),
           Marks(v, p, greens)
    PROVE  Streams(HandleDiffLine(v, Item("old", line)), rest, behind, begun)
<1> DEFINE w == HandleDiffLine(v, Item("old", line))
           one == <<line>>
           pg == p \o greens
           be == behind \o extra
           q == rest \o be
           more == IF q = <<>> THEN <<Empty>> ELSE extra
           after == IF q = <<>> THEN <<Empty>> ELSE q
           buffer == Append(v.buffer, line)
           doc == DeleteLines(v.document, v.index, 1)
<1>1. w = [v EXCEPT !.buffer = buffer, !.document = doc]
  <2>1. Item("old", line).type = "old" /\ Item("old", line).line = line
    BY DEF Item
  <2> QED BY ONLY <2>1 DEF HandleDiffLine
<1> HIDE DEF w, buffer, doc
<1>2. /\ DOMAIN v = ViewFields /\ v.document = p \o (greens \o ((one \o rest) \o be))
      /\ v.index = Len(p) + Len(greens) /\ v.inserted = Len(greens)
      /\ begun = done \o (v.buffer \o ((one \o rest) \o behind))
      /\ extra \in {<<>>, <<Empty>>} /\ (behind # <<>> => extra = <<>>)
      /\ v.buffer \in Seq(Line) /\ v.lenses \in Seq(Block) /\ v.removed \in Seq(RedRange)
      /\ AllAbove(v.removed, Len(p)) /\ GoesBack(v.lenses, v.removed, p, done)
  BY ONLY Parts(v, <<line>> \o rest, behind, begun, p, greens, done, extra) DEF Parts
<1>3. /\ DOMAIN w = ViewFields /\ w.document = doc /\ w.buffer = buffer
      /\ w.index = v.index /\ w.inserted = v.inserted /\ w.lenses = v.lenses /\ w.removed = v.removed
      /\ w.added = v.added
  BY ONLY <1>1, <1>2 DEF ViewFields
<1>4. one \in Seq(Line) /\ one # <<>> /\ Len(one) = 1 /\ <<Empty>> \in Seq(Line)
  BY EmptyIsLine
<1> HIDE DEF one
<1>5. /\ pg \in Seq(Line) /\ be \in Seq(Line) /\ q \in Seq(Line)
      /\ v.document = pg \o (one \o q)
  <2>1. /\ pg \in Seq(Line) /\ be \in Seq(Line) /\ q \in Seq(Line) /\ one \o q \in Seq(Line)
    BY ONLY LinesJoin, <1>4, p \in Seq(Line), greens \in Seq(Line), rest \in Seq(Line),
            behind \in Seq(Line), extra \in Seq(Line) DEF Joins
  <2>3. (one \o rest) \o be = one \o q
    <3> HIDE DEF be
    <3>1. Regroups(Line, one, rest, be)
      BY ONLY <1>4, <2>1, rest \in Seq(Line), Regroup
    <3> QED BY ONLY <3>1 DEF Regroups
  <2> HIDE DEF q
  <2>2. pg \o (one \o q) = p \o (greens \o (one \o q))
    <3>1. Regroups(Line, p, greens, one \o q)
      BY ONLY <2>1, p \in Seq(Line), greens \in Seq(Line), Regroup
    <3> QED BY ONLY <3>1 DEF Regroups
  <2> QED BY ONLY <1>2, <2>1, <2>2, <2>3
<1>6. Len(pg) = v.index
  BY ONLY <1>2, p \in Seq(Line), greens \in Seq(Line), ConcatProperties
<1>7. doc = pg \o after
  <2> HIDE DEF pg, q
  <2>1. DeleteLines(pg \o (one \o q), Len(pg), Len(one)) = pg \o after
    <3>1. pg \in Seq(Line) /\ one \in Seq(Line) /\ q \in Seq(Line) /\ one # <<>>
      BY ONLY <1>4, <1>5
    <3>2. DeleteLines(pg \o (one \o q), Len(pg), Len(one))
             = pg \o (IF q = <<>> THEN <<Empty>> ELSE q)
      BY ONLY <3>1, DeleteBetween, ZenonT(60)
    <3> QED BY ONLY <3>2 DEF after
  <2> QED BY ONLY <1>4, <1>5, <1>6, <2>1 DEF doc
<1>8. /\ more \in Seq(Line) /\ more \in {<<>>, <<Empty>>} /\ (behind # <<>> => more = <<>>)
      /\ after = rest \o (behind \o more)
  <2>1. CASE q = <<>>
    <3>1. Len(rest) + (Len(behind) + Len(extra)) = 0
      <4>1. Len(q) = Len(rest) + Len(be) /\ Len(be) = Len(behind) + Len(extra)
        BY ONLY <1>5, rest \in Seq(Line), behind \in Seq(Line), extra \in Seq(Line), ConcatProperties
      <4>2. Len(q) = 0
        BY ONLY <2>1, EmptySeq
      <4> QED BY ONLY <4>1, <4>2
    <3>2. Len(rest) \in Nat /\ Len(behind) \in Nat /\ Len(extra) \in Nat
      BY LenProperties
    <3>3. Len(rest) = 0 /\ Len(behind) = 0
      BY ONLY <3>1, <3>2
    <3>4. rest = <<>> /\ behind = <<>>
      BY ONLY <3>3, rest \in Seq(Line), behind \in Seq(Line), EmptySeq
    <3>5. <<>> \o <<Empty>> = <<Empty>>
      BY ONLY <1>4, ConcatEmptySeq
    <3> QED BY ONLY <1>4, <2>1, <3>4, <3>5
  <2>2. CASE q # <<>>
    BY ONLY <1>2, <2>2, extra \in Seq(Line)
  <2> QED BY ONLY <2>1, <2>2
<1> HIDE DEF more, after, be
<1>9. w.document = p \o (greens \o (rest \o (behind \o more)))
  <2>1. rest \o (behind \o more) \in Seq(Line)
    BY ONLY LinesJoin, <1>8, rest \in Seq(Line), behind \in Seq(Line) DEF Joins
  <2>2. pg \o after = p \o (greens \o after)
    <3>1. after \in Seq(Line)
      BY ONLY <1>8, <2>1
    <3>2. Regroups(Line, p, greens, after)
      BY ONLY <3>1, p \in Seq(Line), greens \in Seq(Line), Regroup
    <3> QED BY ONLY <3>2 DEF Regroups
  <2> QED BY ONLY <1>3, <1>7, <1>8, <2>2
<1>10. buffer \in Seq(Line) /\ begun = done \o (buffer \o (rest \o behind))
  <2>1. buffer = v.buffer \o one
    BY ONLY <1>2, line \in Line, AppendIsConcat DEF one, buffer
  <2>2. buffer \in Seq(Line)
    BY ONLY LinesJoin, <1>2, <1>4, <2>1 DEF Joins
  <2>3. rest \o behind \in Seq(Line) /\ (one \o rest) \o behind = one \o (rest \o behind)
    <3>1. Regroups(Line, one, rest, behind)
      BY ONLY <1>4, rest \in Seq(Line), behind \in Seq(Line), Regroup
    <3> QED BY ONLY <3>1 DEF Regroups
  <2>4. (v.buffer \o one) \o (rest \o behind) = v.buffer \o (one \o (rest \o behind))
    <3> DEFINE rb == rest \o behind
               held == v.buffer
    <3>1. held \in Seq(Line) /\ rb \in Seq(Line)
      BY ONLY <1>2, <2>3
    <3> HIDE DEF rb, held
    <3>2. Regroups(Line, held, one, rb)
      BY ONLY <1>4, <3>1, Regroup
    <3> QED BY ONLY <3>2 DEF Regroups, rb, held
  <2> QED BY ONLY <1>2, <2>1, <2>2, <2>3, <2>4
<1>11. Parts(w, rest, behind, begun, p, greens, done, more)
  BY ONLY <1>2, <1>3, <1>8, <1>9, <1>10 DEF Parts
<1>12. Marks(w, p, greens)
  BY ONLY <1>3, Marks(v, p, greens) DEF Marks
<1> QED BY ONLY <1>8, <1>11, <1>12, p \in Seq(Line), greens \in Seq(Line), done \in Seq(Line) DEF Streams, w

LEMMA NewStreams ==
    ASSUME NEW v, NEW line \in Line, NEW rest \in Seq(Line), NEW behind \in Seq(Line), NEW begun,
           NEW p \in Seq(Line), NEW greens \in Seq(Line), NEW done \in Seq(Line),
           NEW extra \in Seq(Line), Parts(v, rest, behind, begun, p, greens, done, extra),
           Marks(v, p, greens)
    PROVE  Streams(HandleDiffLine(v, Item("new", line)), rest, behind, begun)
<1> DEFINE w == HandleDiffLine(v, Item("new", line))
           one == <<line>>
           pg == p \o greens
           q == rest \o (behind \o extra)
           more == Append(greens, line)
           doc == InsertAbove(v.document, v.index, one)
           added == AddGreen(v.added, v.index)
<1>1. w = [v EXCEPT !.document = doc, !.added = added, !.index = v.index + 1, !.inserted = v.inserted + 1]
  <2>1. Item("new", line).type = "new" /\ Item("new", line).line = line
    BY DEF Item
  <2> QED BY ONLY <2>1 DEF HandleDiffLine
<1> HIDE DEF w, added, doc
<1>2. /\ DOMAIN v = ViewFields /\ v.document = p \o (greens \o q)
      /\ v.index = Len(p) + Len(greens) /\ v.inserted = Len(greens)
      /\ begun = done \o (v.buffer \o (rest \o behind))
      /\ extra \in {<<>>, <<Empty>>} /\ (behind # <<>> => extra = <<>>)
      /\ v.buffer \in Seq(Line) /\ v.lenses \in Seq(Block) /\ v.removed \in Seq(RedRange)
      /\ AllAbove(v.removed, Len(p)) /\ GoesBack(v.lenses, v.removed, p, done)
  BY ONLY Parts(v, rest, behind, begun, p, greens, done, extra) DEF Parts
<1>3. /\ DOMAIN w = ViewFields /\ w.document = doc /\ w.buffer = v.buffer
      /\ w.index = v.index + 1 /\ w.inserted = v.inserted + 1
      /\ w.lenses = v.lenses /\ w.removed = v.removed /\ w.added = added
  BY ONLY <1>1, <1>2 DEF ViewFields
<1>4. one \in Seq(Line)
  OBVIOUS
<1>5. more \in Seq(Line) /\ Len(more) = Len(greens) + 1 /\ more = greens \o one
  BY AppendProperties, AppendIsConcat
<1>6. Len(p) \in Nat /\ Len(greens) \in Nat
  BY LenProperties
<1> HIDE DEF one, more
<1>7. /\ pg \in Seq(Line) /\ q \in Seq(Line) /\ v.document = pg \o q /\ Len(pg) = v.index
  <2>1. pg \in Seq(Line) /\ q \in Seq(Line)
    BY ONLY LinesJoin, p \in Seq(Line), greens \in Seq(Line), rest \in Seq(Line),
            behind \in Seq(Line), extra \in Seq(Line) DEF Joins
  <2> HIDE DEF q
  <2>2. pg \o q = p \o (greens \o q)
    <3>1. Regroups(Line, p, greens, q)
      BY ONLY <2>1, p \in Seq(Line), greens \in Seq(Line), Regroup
    <3> QED BY ONLY <3>1 DEF Regroups
  <2>3. Len(pg) = Len(p) + Len(greens)
    BY ONLY p \in Seq(Line), greens \in Seq(Line), ConcatProperties
  <2> QED BY ONLY <1>2, <2>1, <2>2, <2>3
<1> HIDE DEF q
<1>8. doc = p \o (more \o q)
  <2>1. InsertAbove(pg \o q, Len(pg), one) = pg \o (one \o q)
    <3> HIDE DEF pg
    <3>1. pg \in Seq(Line) /\ q \in Seq(Line)
      BY ONLY <1>7
    <3> QED BY ONLY <1>4, <3>1, InsertBetween, ZenonT(60)
  <2>2. one \o q \in Seq(Line) /\ (greens \o one) \o q = greens \o (one \o q)
    <3>1. Regroups(Line, greens, one, q)
      BY ONLY <1>4, <1>7, greens \in Seq(Line), Regroup
    <3> QED BY ONLY <3>1 DEF Regroups
  <2>3. pg \o (one \o q) = p \o (greens \o (one \o q))
    <3> DEFINE oq == one \o q
    <3>1. oq \in Seq(Line)
      BY ONLY <2>2
    <3> HIDE DEF oq
    <3>2. Regroups(Line, p, greens, oq)
      BY ONLY <3>1, p \in Seq(Line), greens \in Seq(Line), Regroup
    <3> QED BY ONLY <3>2 DEF Regroups, oq
  <2> QED BY ONLY <1>5, <1>7, <2>1, <2>2, <2>3 DEF doc
<1>9. w.index = Len(p) + Len(more) /\ w.inserted = Len(more)
  BY ONLY <1>2, <1>3, <1>5, <1>6
<1>10. Parts(w, rest, behind, begun, p, more, done, extra)
  BY ONLY <1>2, <1>3, <1>8, <1>9 DEF Parts, q
<1>11. Marks(w, p, more)
  <2>1. GreensMarked(AddGreen(v.added, Len(p) + Len(greens)), v.lenses, Len(p), Len(greens) + 1)
    BY ONLY <1>6, Marks(v, p, greens), GreenAdded DEF Marks
  <2> QED BY ONLY <1>2, <1>3, <1>5, <2>1, Marks(v, p, greens) DEF Marks, added
<1> QED BY ONLY <1>5, <1>10, <1>11, p \in Seq(Line), done \in Seq(Line), extra \in Seq(Line) DEF Streams, w

LEMMA SameStreams ==
    ASSUME NEW v, NEW line \in Line, NEW rest \in Seq(Line), NEW behind \in Seq(Line), NEW begun,
           NEW p \in Seq(Line), NEW greens \in Seq(Line), NEW done \in Seq(Line),
           NEW extra \in Seq(Line), Parts(v, <<line>> \o rest, behind, begun, p, greens, done, extra),
           Marks(v, p, greens)
    PROVE  Streams(HandleDiffLine(v, Item("same", line)), rest, behind, begun)
<1> DEFINE w == HandleDiffLine(v, Item("same", line))
           b == InsertDeletionBuffer(v)
           one == <<line>>
           reds == v.buffer
           blanks == Blanks(Len(reds))
           be == behind \o extra
           q == rest \o be
           ps == p \o (blanks \o (greens \o one))
           ds == done \o (reds \o one)
<1>1. w = [b EXCEPT !.index = b.index + 1]
  <2>1. Item("same", line).type = "same"
    BY DEF Item
  <2> QED BY ONLY <2>1 DEF HandleDiffLine
<1>2. one \in Seq(Line) /\ Len(one) = 1 /\ one # <<>> /\ <<>> \in Seq(Line) /\ Len(<<>>) = 0
  OBVIOUS
<1> HIDE DEF w, b, one
<1>3. /\ v.index = Len(p) + Len(greens) /\ v.inserted = Len(greens)
      /\ begun = done \o (reds \o ((one \o rest) \o behind))
      /\ extra \in {<<>>, <<Empty>>} /\ (behind # <<>> => extra = <<>>)
      /\ reds \in Seq(Line) /\ v.lenses \in Seq(Block) /\ v.removed \in Seq(RedRange)
      /\ AllAbove(v.removed, Len(p)) /\ GoesBack(v.lenses, v.removed, p, done)
  BY ONLY Parts(v, <<line>> \o rest, behind, begun, p, greens, done, extra) DEF Parts, one
<1>4. one \o rest \in Seq(Line)
  BY ONLY LinesJoin, <1>2, rest \in Seq(Line) DEF Joins
<1>5. /\ ShowsBlock(b, p, reds, greens, (one \o rest) \o be, v.removed)
      /\ b.lenses = OpenBlock(v.lenses, p, reds, greens)
      /\ b.index = v.index + Len(reds) /\ b.inserted = 0 /\ b.buffer = <<>>
      /\ b.added = ShiftDownAfterLine(v.added, Len(p), Len(reds))
  <2> DEFINE more == one \o rest
  <2>1. more \in Seq(Line) /\ Parts(v, more, behind, begun, p, greens, done, extra)
    BY ONLY <1>4, Parts(v, <<line>> \o rest, behind, begun, p, greens, done, extra) DEF one
  <2> HIDE DEF more
  <2>2. LET ib == InsertDeletionBuffer(v)
        IN  /\ ShowsBlock(ib, p, v.buffer, greens, more \o (behind \o extra), v.removed)
            /\ ib.lenses = OpenBlock(v.lenses, p, v.buffer, greens)
            /\ ib.index = v.index + Len(v.buffer) /\ ib.inserted = 0 /\ ib.buffer = <<>>
            /\ ib.added = ShiftDownAfterLine(v.added, Len(p), Len(v.buffer))
    BY ONLY <2>1, behind \in Seq(Line), p \in Seq(Line), greens \in Seq(Line), done \in Seq(Line),
            extra \in Seq(Line), BufferShows
  <2> QED BY ONLY <2>2 DEF b, more
<1> DEFINE own == RedsOf(Len(p), reds)
<1>6. /\ DOMAIN b = ViewFields /\ b.removed = v.removed \o own
      /\ b.document = p \o (blanks \o (greens \o ((one \o rest) \o be)))
  BY ONLY <1>5 DEF ShowsBlock
<1>7. /\ DOMAIN w = ViewFields /\ w.document = b.document /\ w.buffer = <<>> /\ w.inserted = 0
      /\ w.index = b.index + 1 /\ w.lenses = b.lenses /\ w.removed = b.removed
      /\ w.added = b.added
  BY ONLY <1>1, <1>5, <1>6 DEF ViewFields
<1> HIDE DEF reds
<1>8. /\ Len(p) \in Nat /\ Len(greens) \in Nat /\ Len(reds) \in Nat
      /\ own \in Seq(RedRange) /\ Len(own) = Len(reds)
      /\ \A k \in 1..Len(reds) : own[k].start = Len(p) + k - 1
  <2>1. Len(p) \in Nat /\ Len(greens) \in Nat /\ Len(reds) \in Nat
    BY ONLY <1>3, p \in Seq(Line), greens \in Seq(Line), LenProperties
  <2> QED BY ONLY <1>3, <2>1, RedsOfTyping
<1>9. blanks \in Seq(Line) /\ Len(blanks) = Len(reds)
  BY ONLY <1>8, BlanksTyping
<1> HIDE DEF blanks, own
<1>10. /\ be \in Seq(Line) /\ q \in Seq(Line) /\ ps \in Seq(Line) /\ ds \in Seq(Line)
       /\ greens \o one \in Seq(Line) /\ blanks \o (greens \o one) \in Seq(Line)
       /\ reds \o one \in Seq(Line)
  BY ONLY LinesJoin, <1>2, <1>3, <1>9, p \in Seq(Line), greens \in Seq(Line), rest \in Seq(Line),
          behind \in Seq(Line), extra \in Seq(Line), done \in Seq(Line) DEF Joins
<1>11. Len(ps) = Len(p) + Len(reds) + Len(greens) + 1
  <2>1. /\ Len(greens \o one) = Len(greens) + Len(one)
        /\ Len(blanks \o (greens \o one)) = Len(blanks) + Len(greens \o one)
        /\ Len(ps) = Len(p) + Len(blanks \o (greens \o one))
    <3> DEFINE go == greens \o one
               bg == blanks \o go
    <3>1. Len(go) = Len(greens) + Len(one)
      BY ONLY <1>2, greens \in Seq(Line), ConcatProperties
    <3>2. go \in Seq(Line) /\ bg \in Seq(Line)
      BY ONLY <1>10
    <3> HIDE DEF go
    <3>3. Len(bg) = Len(blanks) + Len(go)
      BY ONLY <1>9, <3>2, ConcatProperties
    <3> HIDE DEF bg
    <3>4. Len(p \o bg) = Len(p) + Len(bg)
      BY ONLY <3>2, p \in Seq(Line), ConcatProperties
    <3> QED BY ONLY <3>1, <3>3, <3>4 DEF go, bg
  <2> QED BY ONLY <1>2, <1>8, <1>9, <2>1
<1> HIDE DEF be
\* What follows the kept line follows it in the document, and in the old lines.
<1>12. ASSUME NEW t \in Seq(Line)
       PROVE  /\ ps \o t = p \o (blanks \o (greens \o (one \o t)))
              /\ ds \o t = done \o (reds \o (one \o t))
  <2> DEFINE ot == one \o t
             go == greens \o one
             bg == blanks \o go
             ro == reds \o one
  <2>1. t \in Seq(Line) /\ go \in Seq(Line) /\ bg \in Seq(Line) /\ ro \in Seq(Line)
    BY ONLY <1>10, <1>12
  <2>2. Regroups(Line, greens, one, t)
    BY ONLY <1>2, <2>1, greens \in Seq(Line), Regroup
  <2>3. Regroups(Line, reds, one, t)
    BY ONLY <1>2, <1>3, <2>1, Regroup
  <2> HIDE DEF go, ro
  <2>4. Regroups(Line, blanks, go, t)
    BY ONLY <1>9, <2>1, Regroup
  <2>5. Regroups(Line, done, ro, t)
    BY ONLY <2>1, done \in Seq(Line), Regroup
  <2> HIDE DEF bg
  <2>6. Regroups(Line, p, bg, t)
    BY ONLY <2>1, p \in Seq(Line), Regroup
  <2>7. ps = p \o bg /\ ds = done \o ro
    BY DEF bg, ro, go
  <2>8. ps \o t = p \o (bg \o t) /\ ds \o t = done \o (ro \o t)
    BY ONLY <2>5, <2>6, <2>7 DEF Regroups
  <2>9. bg \o t = blanks \o (go \o t)
    BY ONLY <2>4 DEF Regroups, bg
  <2>10. go \o t = greens \o ot /\ ro \o t = reds \o ot
    BY ONLY <2>2, <2>3 DEF Regroups, go, ro
  <2> QED BY ONLY <2>8, <2>9, <2>10
<1> HIDE DEF ps, ds
<1>13. w.document = ps \o (<<>> \o (rest \o be))
  <2>1. (one \o rest) \o be = one \o q
    <3>1. Regroups(Line, one, rest, be)
      BY ONLY <1>2, <1>10, rest \in Seq(Line), Regroup
    <3> QED BY ONLY <3>1 DEF Regroups
  <2>2. <<>> \o q = q
    BY ONLY <1>10, ConcatEmptySeq
  <2>3. ps \o q = p \o (blanks \o (greens \o (one \o q)))
    BY ONLY <1>10, <1>12
  <2> QED BY ONLY <1>6, <1>7, <2>1, <2>2, <2>3
<1>14. begun = ds \o (w.buffer \o (rest \o behind))
  <2> DEFINE rb == rest \o behind
  <2>1. rb \in Seq(Line) /\ (one \o rest) \o behind = one \o rb
    <3>1. Regroups(Line, one, rest, behind)
      BY ONLY <1>2, rest \in Seq(Line), behind \in Seq(Line), Regroup
    <3> QED BY ONLY <3>1 DEF Regroups
  <2> HIDE DEF rb
  <2>2. <<>> \o rb = rb
    BY ONLY <2>1, ConcatEmptySeq
  <2>3. ds \o rb = done \o (reds \o (one \o rb))
    BY ONLY <1>12, <2>1
  <2> QED BY ONLY <1>3, <1>7, <2>1, <2>2, <2>3 DEF rb
<1>15. w.index = Len(ps) + Len(<<>>) /\ w.inserted = Len(<<>>)
  BY ONLY <1>2, <1>3, <1>5, <1>7, <1>8, <1>11
<1>16. w.lenses \in Seq(Block)
  <2>1. BlockAt(p, reds, greens) \in Block
    BY ONLY <1>8 DEF BlockAt, Block
  <2>2. Append(v.lenses, BlockAt(p, reds, greens)) \in Seq(Block)
    BY ONLY <1>3, <2>1, AppendProperties
  <2> QED BY ONLY <1>3, <1>5, <1>7, <2>2 DEF OpenBlock
<1>17. w.removed \in Seq(RedRange) /\ AllAbove(w.removed, Len(ps))
  <2> DEFINE r == v.removed \o own
             k0 == Len(v.removed)
  <2>1. /\ r \in Seq(RedRange) /\ Len(r) = Len(v.removed) + Len(own)
        /\ \A i \in 1..Len(v.removed) + Len(own) :
              r[i] = IF i <= Len(v.removed) THEN v.removed[i] ELSE own[i - Len(v.removed)]
    <3>1. v.removed \in Seq(RedRange) /\ own \in Seq(RedRange)
      BY ONLY <1>3, <1>8
    <3>2. r \in Seq(RedRange) /\ Len(r) = Len(v.removed) + Len(own)
      BY ONLY <3>1, ConcatProperties
    <3>3. \A i \in 1..Len(v.removed) + Len(own) :
              r[i] = IF i <= Len(v.removed) THEN v.removed[i] ELSE own[i - Len(v.removed)]
      BY ONLY <3>1, ConcatProperties
    <3> QED BY ONLY <3>2, <3>3
  <2> HIDE DEF r
  <2>2. k0 \in Nat /\ \A i \in 1..k0 : v.removed[i] \in RedRange /\ v.removed[i].start < Len(p)
    BY ONLY <1>3, LenProperties, ElementOfSeq DEF AllAbove
  <2>3. ASSUME NEW i \in 1..Len(r) PROVE r[i].start < Len(ps)
    <3>1. i \in 1..(k0 + Len(reds)) /\ i \in Nat
      BY ONLY <1>8, <2>1, <2>2, i \in 1..Len(r)
    <3>2. CASE i <= k0
      <4>1. i \in 1..k0
        BY ONLY <2>2, <3>1, <3>2
      <4>2. r[i] = v.removed[i]
        BY ONLY <1>8, <2>1, <3>1, <3>2
      <4>3. r[i].start \in Nat /\ r[i].start < Len(p)
        BY ONLY <2>2, <4>1, <4>2 DEF RedRange
      <4> QED BY ONLY <1>8, <1>11, <4>3
    <3>3. CASE ~(i <= k0)
      <4>1. i - k0 \in 1..Len(reds)
        BY ONLY <1>8, <2>2, <3>1, <3>3
      <4>2. r[i] = own[i - k0]
        BY ONLY <1>8, <2>1, <3>1, <3>3
      <4>3. r[i].start = Len(p) + (i - k0) - 1
        BY ONLY <1>8, <4>1, <4>2
      <4>4. i - k0 <= Len(reds) /\ i - k0 \in Nat
        BY ONLY <1>8, <4>1
      <4> DEFINE e == i - k0
                 np == Len(p)
                 nr == Len(reds)
                 ng == Len(greens)
      <4>5. e \in Nat /\ e <= nr /\ np \in Nat /\ nr \in Nat /\ ng \in Nat
        BY ONLY <1>8, <4>4
      <4> HIDE DEF e, np, nr, ng
      <4>6. np + e - 1 < np + nr + ng + 1
        BY ONLY <4>5
      <4> QED BY ONLY <1>11, <4>3, <4>6 DEF e, np, nr, ng
    <3> QED BY ONLY <3>2, <3>3
  <2> QED BY ONLY <1>6, <1>7, <2>1, <2>3 DEF AllAbove, r
<1>18. GoesBack(w.lenses, w.removed, ps, ds)
  <2>0. ASSUME NEW u, NEW f, NEW more \in Seq(Line), DOMAIN u = ViewFields,
               u.removed = w.removed, u.document = ps \o more, Rejected(f, w.lenses, u)
        PROVE  f[0].document = ds \o more
    <3> DEFINE om == one \o more
    <3>1. om \in Seq(Line) /\ om # <<>>
      <4>1. om \in Seq(Line) /\ Len(om) = Len(one) + Len(more) /\ Len(more) \in Nat
        BY ONLY <1>2, more \in Seq(Line), ConcatProperties, LenProperties
      <4> QED BY ONLY <1>2, <4>1, EmptySeq
    <3>2. u.document = p \o (blanks \o (greens \o om)) /\ ds \o more = done \o (reds \o om)
      BY ONLY <1>12, more \in Seq(Line), <2>0
    <3> HIDE DEF om
    <3>3. ShowsBlock(u, p, reds, greens, om, v.removed)
      BY ONLY <1>3, <1>6, <1>7, <3>2, <2>0 DEF ShowsBlock, own, blanks
    <3>4. Rejected(f, OpenBlock(v.lenses, p, reds, greens), u)
      BY ONLY <1>5, <1>7, <2>0
    <3>5. TakesBack(f[0].document, done, reds, om)
      <4> DEFINE lenses == v.lenses
                 redRanges == v.removed
      <4>1. lenses \in Seq(Block) /\ redRanges \in Seq(RedRange) /\ GoesBack(lenses, redRanges, p, done)
        BY ONLY <1>3
      <4>2. /\ ShowsBlock(u, p, reds, greens, om, redRanges)
            /\ Rejected(f, OpenBlock(lenses, p, reds, greens), u)
        BY ONLY <3>3, <3>4
      <4> HIDE DEF lenses, redRanges
      <4> QED BY ONLY <1>3, <3>1, <4>1, <4>2, p \in Seq(Line), done \in Seq(Line),
                      greens \in Seq(Line), BackThroughBlock
    <3> QED BY ONLY <3>1, <3>2, <3>5 DEF TakesBack
  <2> QED BY ONLY <2>0 DEF GoesBack
<1>19. Parts(w, rest, behind, begun, ps, <<>>, ds, extra)
  <2>1. w.buffer \in Seq(Line)
    BY ONLY <1>2, <1>7
  <2> QED BY ONLY <1>3, <1>7, <1>13, <1>14, <1>15, <1>16, <1>17, <1>18, <2>1 DEF Parts, be
<1>20. Marks(w, ps, <<>>)
  <2>1. RedsMarked(v.removed \o own, OpenBlock(v.lenses, p, reds, greens))
    BY ONLY <1>3, p \in Seq(Line), greens \in Seq(Line), Marks(v, p, greens), RedsMarkBlock
       DEF Marks, own
  <2>2. GreensMarked(b.added, b.lenses, Len(ps), 0)
    <3> DEFINE lenses == v.lenses
               added == v.added
    <3>1. lenses \in Seq(Block) /\ GreensMarked(added, lenses, Len(p), Len(greens))
      BY ONLY <1>3, Marks(v, p, greens) DEF Marks
    <3>2. /\ b.added = ShiftDownAfterLine(added, Len(p), Len(reds))
          /\ b.lenses = OpenBlock(lenses, p, reds, greens)
      BY ONLY <1>5
    <3> HIDE DEF lenses, added
    <3>3. GreensMarked(ShiftDownAfterLine(added, Len(p), Len(reds)),
                       OpenBlock(lenses, p, reds, greens),
                       Len(p) + Len(reds) + Len(greens) + 1, 0)
      BY ONLY <1>3, <3>1, p \in Seq(Line), greens \in Seq(Line), GreensShifted
    <3> QED BY ONLY <1>11, <3>2, <3>3
  <2> QED BY ONLY <1>2, <1>5, <1>6, <1>7, <2>1, <2>2 DEF Marks
<1> QED BY ONLY <1>2, <1>3, <1>10, <1>19, <1>20, extra \in Seq(Line) DEF Streams, w

\* What was streamed is taken back: an empty line may be left at the end of the file.
LEMMA StreamedIsTakenBack ==
    ASSUME NEW v, NEW rest \in Seq(Line), NEW behind \in Seq(Line), NEW begun,
           Streams(v, rest, behind, begun)
    PROVE  LET b == InsertDeletionBuffer(v)
           IN  /\ Marked(b.removed) = RedLinesOf(b.lenses)
               /\ Marked(b.added) = GreenLinesOf(b.lenses)
               /\ \E t \in {<<>>, <<Empty>>} :
                     RejectAllBlocks(b).document = begun \o t /\ (behind # <<>> => t = <<>>)
<1> DEFINE b == InsertDeletionBuffer(v)
           reds == v.buffer
           lenses == v.lenses
           redRanges == v.removed
           doc == RejectAllBlocks(b).document
<1>1. PICK p \in Seq(Line), greens \in Seq(Line), done \in Seq(Line), extra \in Seq(Line) :
        Parts(v, rest, behind, begun, p, greens, done, extra) /\ Marks(v, p, greens)
  BY ONLY Streams(v, rest, behind, begun) DEF Streams
<1> DEFINE be == behind \o extra
           rb == rest \o behind
           follow == rest \o be
<1>2. /\ begun = done \o (reds \o rb)
      /\ extra \in {<<>>, <<Empty>>} /\ (behind # <<>> => extra = <<>>)
      /\ reds \in Seq(Line) /\ lenses \in Seq(Block) /\ redRanges \in Seq(RedRange)
      /\ GoesBack(lenses, redRanges, p, done)
  BY ONLY <1>1 DEF Parts
<1>3. /\ ShowsBlock(b, p, reds, greens, follow, redRanges)
      /\ b.lenses = OpenBlock(lenses, p, reds, greens)
      /\ b.added = ShiftDownAfterLine(v.added, Len(p), Len(reds))
  BY ONLY <1>1, rest \in Seq(Line), behind \in Seq(Line), BufferShows
<1>4. /\ RedsMarked(redRanges, lenses) /\ GreensMarked(v.added, lenses, Len(p), Len(greens))
  BY ONLY <1>1 DEF Marks
<1> HIDE DEF b, reds, lenses, redRanges
<1>5. /\ be \in Seq(Line) /\ rb \in Seq(Line) /\ follow \in Seq(Line)
  BY ONLY LinesJoin, <1>1, rest \in Seq(Line), behind \in Seq(Line) DEF Joins
<1>6. Marked(b.removed) = RedLinesOf(b.lenses)
  <2>1. b.removed = redRanges \o RedsOf(Len(p), reds)
    BY ONLY <1>3 DEF ShowsBlock
  <2>2. RedsMarked(redRanges \o RedsOf(Len(p), reds), OpenBlock(lenses, p, reds, greens))
    BY ONLY <1>1, <1>2, <1>4, RedsMarkBlock
  <2> QED BY ONLY <1>3, <2>1, <2>2 DEF RedsMarked
<1>7. Marked(b.added) = GreenLinesOf(b.lenses)
  <2> DEFINE added == v.added
  <2>1. GreensMarked(added, lenses, Len(p), Len(greens))
    BY ONLY <1>4
  <2> HIDE DEF added
  <2>2. Marked(ShiftDownAfterLine(added, Len(p), Len(reds)))
           = GreenLinesOf(OpenBlock(lenses, p, reds, greens))
    BY ONLY <1>1, <1>2, <2>1, GreensShifted
  <2> QED BY ONLY <1>3, <2>2 DEF added
<1>8. TakesBack(doc, done, reds, follow)
  <2>1. b.lenses \in Seq(Block)
    <3>1. BlockAt(p, reds, greens) \in Block
      BY ONLY <1>1, <1>2, LenProperties DEF BlockAt, Block
    <3>2. Append(lenses, BlockAt(p, reds, greens)) \in Seq(Block)
      BY ONLY <1>2, <3>1, AppendProperties
    <3> QED BY ONLY <1>2, <1>3, <3>2 DEF OpenBlock
  <2>2. PICK f : Rejected(f, b.lenses, b) /\ RejectAllBlocks(b) = f[0]
    BY ONLY <2>1, RejectAllIsChain
  <2>3. Rejected(f, OpenBlock(lenses, p, reds, greens), b)
    BY ONLY <1>3, <2>2
  <2> HIDE DEF follow
  <2>4. TakesBack(f[0].document, done, reds, follow)
    BY ONLY <1>1, <1>2, <1>3, <1>5, <2>3, BackThroughBlock
  <2> QED BY ONLY <2>2, <2>4
<1> HIDE DEF doc
<1>9. PICK left \in Seq(Line) : /\ doc = done \o (reds \o left)
                                /\ left = follow \/ (follow = <<>> /\ left = <<Empty>>)
  BY ONLY <1>8 DEF TakesBack
<1>10. \E t \in {<<>>, <<Empty>>} : left = rb \o t /\ (behind # <<>> => t = <<>>)
  <2>1. <<Empty>> \in Seq(Line) /\ <<>> \in Seq(Line)
    BY EmptyIsLine
  <2>2. CASE left = follow
    <3>1. Regroups(Line, rest, behind, extra)
      BY ONLY <1>1, rest \in Seq(Line), behind \in Seq(Line), Regroup
    <3>2. left = rb \o extra
      BY ONLY <2>2, <3>1 DEF Regroups
    <3> QED BY ONLY <1>2, <3>2
  <2>3. CASE follow = <<>> /\ left = <<Empty>>
    <3>1. Len(follow) = Len(rest) + Len(be) /\ Len(be) = Len(behind) + Len(extra)
      BY ONLY <1>1, <1>5, rest \in Seq(Line), behind \in Seq(Line), ConcatProperties
    <3>2. Len(rest) \in Nat /\ Len(behind) \in Nat /\ Len(extra) \in Nat /\ Len(follow) = 0
      BY ONLY <1>1, <2>3, rest \in Seq(Line), behind \in Seq(Line), LenProperties, EmptySeq
    <3>3. Len(rest) = 0 /\ Len(behind) = 0
      BY ONLY <3>1, <3>2
    <3>4. rest = <<>> /\ behind = <<>>
      BY ONLY <3>3, rest \in Seq(Line), behind \in Seq(Line), EmptySeq
    <3>5. rb \o <<Empty>> = <<Empty>>
      BY ONLY <2>1, <3>4, ConcatEmptySeq
    <3> QED BY ONLY <2>3, <3>4, <3>5
  <2> QED BY ONLY <1>9, <2>2, <2>3
<1>11. PICK t \in {<<>>, <<Empty>>} : left = rb \o t /\ (behind # <<>> => t = <<>>)
  BY ONLY <1>10
<1>12. doc = begun \o t
  <2> DEFINE rr == reds \o rb
  <2>1. t \in Seq(Line) /\ rr \in Seq(Line)
    <3>1. t \in Seq(Line)
      <4>1. <<Empty>> \in Seq(Line) /\ <<>> \in Seq(Line)
        BY EmptyIsLine
      <4> QED BY ONLY <4>1, t \in {<<>>, <<Empty>>}
    <3> QED BY ONLY <3>1, LinesJoin, <1>2, <1>5 DEF Joins
  <2> HIDE DEF rb
  <2>2. rr \o t = reds \o (rb \o t)
    <3>1. Regroups(Line, reds, rb, t)
      BY ONLY <1>2, <1>5, <2>1, Regroup
    <3> QED BY ONLY <3>1 DEF Regroups
  <2>3. begun = done \o rr
    BY ONLY <1>2
  <2> HIDE DEF rr
  <2>4. (done \o rr) \o t = done \o (rr \o t)
    <3>1. Regroups(Line, done, rr, t)
      BY ONLY <1>1, <2>1, Regroup
    <3> QED BY ONLY <3>1 DEF Regroups
  <2> QED BY ONLY <1>9, <1>11, <2>2, <2>3, <2>4
<1> QED BY ONLY <1>6, <1>7, <1>11, <1>12 DEF b, doc

-----------------------------------------------------------------------------
(* Every step of the stream                                                *)

\* The lines that follow those of the diff: a range that is one empty line stays.
Behind(o) == (IF o.lines = <<Empty>> THEN <<Empty>> ELSE <<>>) \o o.after
DocumentOf(o) == o.before \o o.lines \o o.after

TakenInv ==
    /\ original.before \in Seq(Line) /\ original.lines \in Seq(Line) /\ original.after \in Seq(Line)
    /\ at = "stream" => /\ stream \in Seq(DiffItem)
                        /\ Streams(view, OldSide(stream), Behind(original), DocumentOf(original))

LEMMA RangeAndBehind ==
    ASSUME NEW o, o.before \in Seq(Line), o.lines \in Seq(Line), o.after \in Seq(Line)
    PROVE  /\ Behind(o) \in Seq(Line) /\ DocumentOf(o) \in Seq(Line)
           /\ Begun(o.lines) \in Seq(Line)
           /\ DocumentOf(o) = o.before \o (Begun(o.lines) \o Behind(o))
<1> DEFINE before == o.before
           lines == o.lines
           after == o.after
<1>1. /\ before \in Seq(Line) /\ lines \in Seq(Line) /\ after \in Seq(Line)
      /\ <<>> \in Seq(Line) /\ <<Empty>> \in Seq(Line)
  BY EmptyIsLine
<1>2. /\ Behind(o) = (IF lines = <<Empty>> THEN <<Empty>> ELSE <<>>) \o after
      /\ DocumentOf(o) = (before \o lines) \o after
  BY DEF Behind, DocumentOf
<1> HIDE DEF before, after
<1>3. <<>> \o after = after /\ <<>> \o (lines \o after) = lines \o after
  BY ONLY <1>1, LinesJoin, ConcatEmptySeq DEF Joins
<1>4. Begun(lines) \o Behind(o) = lines \o after /\ Begun(lines) \in Seq(Line)
  BY ONLY <1>1, <1>2, <1>3 DEF Begun
<1>5. Behind(o) \in Seq(Line) /\ DocumentOf(o) \in Seq(Line)
  BY ONLY <1>1, <1>2, LinesJoin DEF Joins
<1>6. DocumentOf(o) = before \o (lines \o after)
  <2> HIDE DEF lines
  <2>1. Regroups(Line, before, lines, after)
    BY ONLY <1>1, Regroup
  <2> QED BY ONLY <1>2, <2>1 DEF Regroups
<1> QED BY ONLY <1>4, <1>5, <1>6 DEF before, lines

LEMMA BeginsStreaming ==
    ASSUME NEW f, f.before \in Seq(Line), f.lines \in Seq(Line), f.after \in Seq(Line),
           NEW new \in Seq(Line), DiffBegins(f, new)
    PROVE  TakenInv
<1> DEFINE before == f.before
           rest == OldSide(stream)
           behind == Behind(original)
           begun == DocumentOf(original)
           follow == rest \o behind
<1>1. /\ DiffLines(f.lines, new) \in Seq(DiffItem)
      /\ OldSide(DiffLines(f.lines, new)) = Begun(f.lines)
  BY DiffLinesKeeps
<1>2. /\ original.before = f.before /\ original.lines = f.lines /\ original.after = f.after
      /\ stream = DiffLines(f.lines, new)
      /\ view = [document |-> f.before \o f.lines \o f.after,
                 index |-> Len(f.before), inserted |-> 0, buffer |-> <<>>,
                 removed |-> <<>>, added |-> <<>>, lenses |-> <<>>]
  BY DEF DiffBegins
<1>3. /\ DOMAIN view = ViewFields /\ view.document = begun /\ view.index = Len(before)
      /\ view.inserted = 0 /\ view.buffer = <<>>
      /\ view.removed = <<>> /\ view.added = <<>> /\ view.lenses = <<>>
  BY ONLY <1>2 DEF ViewFields, DocumentOf
<1>4. /\ rest \in Seq(Line) /\ behind \in Seq(Line) /\ begun = before \o follow
      /\ before \in Seq(Line) /\ stream \in Seq(DiffItem)
  <2>1. /\ original.before \in Seq(Line) /\ original.lines \in Seq(Line)
        /\ original.after \in Seq(Line) /\ rest = Begun(original.lines)
    BY <1>1, <1>2
  <2>2. /\ behind \in Seq(Line) /\ Begun(original.lines) \in Seq(Line)
        /\ begun = original.before \o (Begun(original.lines) \o behind)
    BY ONLY <2>1, RangeAndBehind
  <2> QED BY ONLY <1>1, <1>2, <2>1, <2>2
<1> HIDE DEF before, rest, behind, begun
<1>5. follow \in Seq(Line) /\ <<>> \in Seq(Line) /\ Len(<<>>) = 0 /\ Len(before) \in Nat
  BY ONLY <1>4, LinesJoin, EmptySeq, LenProperties DEF Joins
<1>6. behind \o <<>> = behind /\ <<>> \o follow = follow
  BY ONLY <1>4, <1>5, ConcatEmptySeq
<1>7. GoesBack(<<>>, <<>>, before, before)
  <2>1. ASSUME NEW w, NEW g, Rejected(g, <<>>, w) PROVE g[0] = w
    BY ONLY <2>1, <1>5 DEF Rejected
  <2> QED BY ONLY <2>1 DEF GoesBack
<1>8. Parts(view, rest, behind, begun, before, <<>>, before, <<>>)
  <2>1. <<>> \in Seq(Block) /\ <<>> \in Seq(RedRange) /\ AllAbove(<<>>, Len(before))
    BY DEF AllAbove
  <2>2. view.document = before \o (<<>> \o (rest \o (behind \o <<>>)))
    BY ONLY <1>3, <1>4, <1>6
  <2>3. begun = before \o (<<>> \o follow)
    BY ONLY <1>4, <1>6
  <2>4. view.index = Len(before) + Len(<<>>) /\ view.inserted = Len(<<>>)
    BY ONLY <1>3, <1>5
  <2> QED BY ONLY <1>3, <1>5, <1>7, <2>1, <2>2, <2>3, <2>4 DEF Parts
<1>9. Marks(view, before, <<>>)
  <2>1. ToSet(<<>>) = {}
    BY DEF ToSet
  <2>2. Marked(<<>>) = {} /\ RedLinesOf(<<>>) = {} /\ GreenLinesOf(<<>>) = {}
    BY ONLY <2>1 DEF Marked, RedLinesOf, GreenLinesOf
  <2>3. <<>> \in Seq(GreenRange) /\ \A k \in 1..0 : FALSE
    OBVIOUS
  <2>4. GreensMarked(<<>>, <<>>, Len(before), 0)
    BY ONLY <1>5, <2>2, <2>3 DEF GreensMarked
  <2> QED BY ONLY <1>3, <1>5, <2>2, <2>4 DEF Marks, RedsMarked
<1>10. Streams(view, rest, behind, begun)
  BY ONLY <1>4, <1>5, <1>8, <1>9 DEF Streams
<1> QED BY <1>2, <1>4, <1>10 DEF TakenInv, rest, behind, begun

\* The old lines to come are those of the next diff line and of the ones behind it.
LEMMA OldSideHead ==
    ASSUME NEW s \in Seq(DiffItem), s # <<>>
    PROVE  /\ Head(s) = Item(Head(s).type, Head(s).line)
           /\ Head(s).type \in {"same", "old", "new"} /\ Head(s).line \in Line
           /\ OldSide(Tail(s)) \in Seq(Line) /\ Tail(s) \in Seq(DiffItem)
           /\ OldSide(s) = IF Head(s).type = "new" THEN OldSide(Tail(s))
                           ELSE <<Head(s).line>> \o OldSide(Tail(s))
<1> DEFINE d == Head(s)
           t == Tail(s)
<1>1. d \in DiffItem /\ t \in Seq(DiffItem) /\ <<d>> \in Seq(DiffItem) /\ s = <<d>> \o t
  BY HeadTailProperties
<1> HIDE DEF d, t
<1>2. /\ OldSide(s) = Gathered(s, OldPiece) /\ OldSide(t) = Gathered(t, OldPiece)
      /\ OldSide(t) \in Seq(Line)
  BY ONLY s \in Seq(DiffItem), <1>1, SidesAreGathered
<1>3. Gathered(<<d>> \o t, OldPiece) = Gathered(<<d>>, OldPiece) \o Gathered(t, OldPiece)
  BY ONLY <1>1, ItemsConcat
<1>4. Gathered(<<d>>, OldPiece) = OldPiece[d]
  BY ONLY <1>1, ArePieces, GatherOne
<1>5. OldSide(s) = OldPiece[d] \o OldSide(t)
  BY ONLY <1>1, <1>2, <1>3, <1>4
<1>6. d = Item(d.type, d.line) /\ d.type \in {"same", "old", "new"} /\ d.line \in Line
  BY ONLY <1>1 DEF DiffItem, Item
<1>7. OldPiece[d] = IF d.type = "new" THEN <<>> ELSE <<d.line>>
  BY ONLY <1>1, <1>6 DEF OldPiece
<1>8. <<>> \o OldSide(t) = OldSide(t)
  BY ONLY <1>2, ConcatEmptySeq
<1> QED BY ONLY <1>1, <1>2, <1>5, <1>6, <1>7, <1>8 DEF d, t

LEMMA LineStreams ==
    ASSUME NEW v, NEW s \in Seq(DiffItem), s # <<>>, NEW behind \in Seq(Line), NEW begun,
           Streams(v, OldSide(s), behind, begun)
    PROVE  Streams(HandleDiffLine(v, Head(s)), OldSide(Tail(s)), behind, begun)
<1> DEFINE d == Head(s)
           type == d.type
           line == d.line
           rest == OldSide(Tail(s))
           all == OldSide(s)
<1>1. /\ d = Item(type, line) /\ type \in {"same", "old", "new"} /\ line \in Line
      /\ rest \in Seq(Line) /\ all = IF type = "new" THEN rest ELSE <<line>> \o rest
  BY OldSideHead
<1> HIDE DEF d, type, line, rest, all
<1>2. PICK p \in Seq(Line), greens \in Seq(Line), done \in Seq(Line), extra \in Seq(Line) :
        Parts(v, all, behind, begun, p, greens, done, extra) /\ Marks(v, p, greens)
  BY ONLY Streams(v, OldSide(s), behind, begun) DEF Streams, all
<1>3. CASE type = "old"
  <2>1. Parts(v, <<line>> \o rest, behind, begun, p, greens, done, extra)
    BY ONLY <1>1, <1>2, <1>3
  <2>2. Streams(HandleDiffLine(v, Item("old", line)), rest, behind, begun)
    BY ONLY <1>1, <1>2, <2>1, behind \in Seq(Line), OldStreams
  <2> QED BY ONLY <1>1, <1>3, <2>2 DEF d, rest
<1>4. CASE type = "new"
  <2>1. Parts(v, rest, behind, begun, p, greens, done, extra)
    BY ONLY <1>1, <1>2, <1>4
  <2>2. Streams(HandleDiffLine(v, Item("new", line)), rest, behind, begun)
    BY ONLY <1>1, <1>2, <2>1, behind \in Seq(Line), NewStreams
  <2> QED BY ONLY <1>1, <1>4, <2>2 DEF d, rest
<1>5. CASE type = "same"
  <2>1. Parts(v, <<line>> \o rest, behind, begun, p, greens, done, extra)
    BY ONLY <1>1, <1>2, <1>5
  <2>2. Streams(HandleDiffLine(v, Item("same", line)), rest, behind, begun)
    BY ONLY <1>1, <1>2, <2>1, behind \in Seq(Line), SameStreams
  <2> QED BY ONLY <1>1, <1>5, <2>2 DEF d, rest
<1> QED BY ONLY <1>1, <1>3, <1>4, <1>5

LEMMA TakenInit == ASSUME DiffInit PROVE TakenInv
<1>1. PICK f \in Files, new \in News : DiffBegins(f, new)
  BY DEF DiffInit
<1>2. f \in [before : Seq(Line), lines : Seq(Line) \ {<<>>}, after : Seq(Line)] /\ new \in Seq(Line)
  BY DiffAssumption
<1>3. f.before \in Seq(Line) /\ f.lines \in Seq(Line) /\ f.after \in Seq(Line)
  BY ONLY <1>2
<1> QED BY ONLY <1>1, <1>2, <1>3, BeginsStreaming

LEMMA TakenStep ==
    ASSUME TakenInv, [DiffNext]_diffVars
    PROVE  TakenInv'
<1>1. CASE HandleLine
  <2>1. /\ at = "stream" /\ stream # <<>> /\ view' = HandleDiffLine(view, Head(stream))
        /\ stream' = Tail(stream) /\ original' = original /\ at' = at
    BY ONLY <1>1 DEF HandleLine
  <2>2. /\ original.before \in Seq(Line) /\ original.lines \in Seq(Line)
        /\ original.after \in Seq(Line) /\ stream \in Seq(DiffItem)
        /\ Streams(view, OldSide(stream), Behind(original), DocumentOf(original))
    BY ONLY <2>1, TakenInv DEF TakenInv
  <2>3. Behind(original) \in Seq(Line)
    BY ONLY <2>2, RangeAndBehind
  <2>4. /\ Tail(stream) \in Seq(DiffItem)
        /\ Streams(HandleDiffLine(view, Head(stream)), OldSide(Tail(stream)),
                   Behind(original), DocumentOf(original))
    BY ONLY <2>1, <2>2, <2>3, OldSideHead, LineStreams
  <2> QED BY ONLY <2>1, <2>2, <2>4 DEF TakenInv
<1>2. ASSUME original' = original, at' # "stream" PROVE TakenInv'
  BY ONLY <1>2, TakenInv DEF TakenInv
<1>3. CASE Reapply
  BY ONLY <1>2, <1>3 DEF Reapply
<1>4. ASSUME NEW accept \in BOOLEAN, DecideAll(accept) PROVE TakenInv'
  BY ONLY <1>2, <1>4 DEF DecideAll
<1>5. ASSUME NEW accept \in BOOLEAN, NEW k \in DOMAIN view.lenses, DecideBlock(k, accept)
      PROVE  TakenInv'
  <2>1. original' = original /\ at' # "stream"
    BY ONLY <1>5 DEF DecideBlock
  <2> QED BY ONLY <1>2, <2>1
<1>6. ASSUME NEW i \in 0..(Len(view.document) - 1), TypeLine(i) PROVE TakenInv'
  <2>1. original' = original /\ at' # "stream"
    BY ONLY <1>6 DEF TypeLine
  <2> QED BY ONLY <1>2, <2>1
<1>7. CASE UNCHANGED diffVars
  BY ONLY <1>7, TakenInv DEF diffVars, TakenInv
<1> QED BY ONLY [DiffNext]_diffVars, <1>1, <1>3, <1>4, <1>5, <1>6, <1>7 DEF DiffNext

\* An empty line more at the end is not seen.
VisiblePiece == [d \in Line |-> IF IsEmpty(d) THEN <<>> ELSE <<d>>]

LEMMA EmptyIsNotVisible ==
    ASSUME NEW s \in Seq(Line)
    PROVE  Visible(s \o <<Empty>>) = Visible(s)
<1>1. IsPiece(VisiblePiece, Line, Line)
  <2>1. \A d \in Line : VisiblePiece[d] \in Seq(Line)
    <3>1. ASSUME NEW d \in Line PROVE <<d>> \in Seq(Line) /\ <<>> \in Seq(Line)
      OBVIOUS
    <3> QED BY <3>1 DEF VisiblePiece
  <2>2. VisiblePiece \in [Line -> Seq(Line)]
    BY <2>1 DEF VisiblePiece
  <2> QED BY <2>2 DEF IsPiece
<1>2. ASSUME NEW t \in Seq(Line) PROVE Visible(t) = Gathered(t, VisiblePiece)
  <2>1. DOMAIN t = 1..Len(t) /\ \A i \in 1..Len(t) : t[i] \in Line
    BY LenProperties, ElementOfSeq
  <2>2. [i \in DOMAIN t |-> IF IsEmpty(t[i]) THEN <<>> ELSE <<t[i]>>] = Pieces(t, VisiblePiece)
    BY <2>1 DEF Pieces, VisiblePiece
  <2> QED BY ONLY <2>2 DEF Visible, Gathered
<1>3. Empty \in Line /\ VisiblePiece[Empty] = <<>>
  BY EmptyIsLine DEF VisiblePiece, IsEmpty, Empty
<1>4. Append(s, Empty) = s \o <<Empty>> /\ Append(s, Empty) \in Seq(Line)
  BY ONLY <1>3, s \in Seq(Line), AppendIsConcat, AppendProperties
<1>5. Gathered(Append(s, Empty), VisiblePiece) = Gathered(s, VisiblePiece) \o <<>>
  BY ONLY <1>1, <1>3, s \in Seq(Line), GatherAppend
<1>6. Gathered(s, VisiblePiece) \in Seq(Line)
  BY ONLY <1>1, s \in Seq(Line), GatherTyping
<1>7. Gathered(s, VisiblePiece) \o <<>> = Gathered(s, VisiblePiece)
  BY ONLY <1>6, ConcatEmptySeq
<1> QED BY ONLY <1>2, <1>4, <1>5, <1>7, s \in Seq(Line)

LEMMA TakenIsBack == ASSUME TakenInv PROVE StreamedCanBeTakenBack
<1>1. SUFFICES ASSUME at = "stream" PROVE StreamedCanBeTakenBack
  BY DEF StreamedCanBeTakenBack
<1> DEFINE v == InsertDeletionBuffer(view)
           doc == RejectAllBlocks(v).document
           behind == Behind(original)
           begun == DocumentOf(original)
           rest == OldSide(stream)
<1>2. /\ original.before \in Seq(Line) /\ original.lines \in Seq(Line) /\ original.after \in Seq(Line)
      /\ stream \in Seq(DiffItem) /\ Streams(view, rest, behind, begun)
  BY ONLY <1>1, TakenInv DEF TakenInv
<1>3. rest \in Seq(Line) /\ behind \in Seq(Line) /\ begun \in Seq(Line)
  BY ONLY <1>2, SidesAreGathered, RangeAndBehind
<1> HIDE DEF rest
<1>4. /\ Marked(v.removed) = RedLinesOf(v.lenses) /\ Marked(v.added) = GreenLinesOf(v.lenses)
      /\ \E t \in {<<>>, <<Empty>>} : doc = begun \o t /\ (behind # <<>> => t = <<>>)
  <2> HIDE DEF behind, begun
  <2> QED BY ONLY <1>2, <1>3, StreamedIsTakenBack
<1> HIDE DEF v, doc
<1>5. PICK t \in {<<>>, <<Empty>>} : doc = begun \o t /\ (behind # <<>> => t = <<>>)
  BY ONLY <1>4
<1>6. original.after # <<>> => behind # <<>>
  <2> DEFINE after == original.after
             first == IF original.lines = <<Empty>> THEN <<Empty>> ELSE <<>>
  <2>1. after \in Seq(Line) /\ first \in Seq(Line) /\ behind = first \o after
    BY ONLY <1>2, EmptyIsLine DEF Behind
  <2> HIDE DEF after, first, behind
  <2>2. ASSUME after # <<>> PROVE behind # <<>>
    <3>1. Len(behind) = Len(first) + Len(after) /\ Len(first) \in Nat /\ Len(after) \in Nat
      BY ONLY <2>1, ConcatProperties, LenProperties
    <3>2. Len(after) # 0
      BY ONLY <2>1, <2>2, EmptySeq
    <3>3. Len(behind) # 0
      BY ONLY <3>1, <3>2
    <3> QED BY ONLY <3>3, EmptySeq
  <2> QED BY ONLY <2>2 DEF after
<1> HIDE DEF behind, begun
<1>7. begun \o <<>> = begun /\ <<>> \in Seq(Line) /\ <<Empty>> \in Seq(Line)
  <2>1. <<Empty>> \in Seq(Line) /\ <<>> \in Seq(Line)
    BY EmptyIsLine
  <2> QED BY ONLY <1>3, <2>1, ConcatEmptySeq
<1>8. IF original.after # <<>> THEN doc = begun ELSE IsPrefix(begun, doc) /\ Visible(doc) = Visible(begun)
  <2>1. ASSUME original.after # <<>> PROVE doc = begun
    BY ONLY <1>5, <1>6, <1>7, <2>1
  <2>2. Visible(doc) = Visible(begun)
    BY ONLY <1>3, <1>5, <1>7, EmptyIsNotVisible
  <2>3. IsPrefix(begun, doc)
    <3>1. t \in Seq(Line) /\ doc = begun \o t
      BY ONLY <1>5, <1>7
    <3>2. doc \in Seq(Line)
      BY ONLY <1>3, <3>1, ConcatProperties
    <3> QED BY ONLY <1>3, <3>1, <3>2, PrefixGoesOn
  <2> QED BY ONLY <2>1, <2>2, <2>3
<1> QED BY ONLY <1>4, <1>8 DEF StreamedCanBeTakenBack, RedLinesOf, GreenLinesOf, DocumentOf, v, doc, begun

\* At every moment of the stream, whatever the file, the generated lines and the
\* diff lines so far: with the lines of the open block put back the marked lines
\* are those of the blocks, and with all blocks rejected the document is the one
\* the edit began with, but for an empty line at the end of the file.
THEOREM StreamIsTakenBack == DiffSpec => []StreamedCanBeTakenBack
<1>1. DiffInit => TakenInv
  BY TakenInit
<1>2. TakenInv /\ [DiffNext]_diffVars => TakenInv'
  BY TakenStep
<1>3. TakenInv => StreamedCanBeTakenBack
  BY TakenIsBack
<1> QED BY <1>1, <1>2, <1>3, PTL DEF DiffSpec

-----------------------------------------------------------------------------
(* The four components, side by side                                       *)

\* An edit that is at rest is one of an empty range in an empty file.
CoreInv == StreamTyped /\ DiffInv /\ CompileTypeOK /\ McpInv

LEMMA CoreInitTyped == ASSUME Init PROVE CoreInv
<1>1. StreamTyped
  BY StreamTypedInit DEF Init
<1>2. McpInv
  BY EmptySeq DEF Init, McpInit, McpInv, McpTyped
<1>3. CompileTypeOK
  BY DEF Init, CompileInit, CompileTypeOK
<1>4. DiffInv
  <2> DEFINE f == [before |-> <<>>, lines |-> <<Empty>>, after |-> <<>>]
  <2>1. DiffInit \/ DiffBegins(f, <<>>)
    BY DEF Init
  <2>2. /\ f.before \in Seq(Line) /\ f.lines \in Seq(Line) /\ f.after \in Seq(Line)
        /\ <<>> \in Seq(Line)
    BY EmptyIsLine
  <2> HIDE DEF f
  <2> QED BY ONLY <2>1, <2>2, DiffInitTyped, BeginsTyped
<1> QED BY <1>1, <1>2, <1>3, <1>4 DEF CoreInv

\* What is compiled is sent, or the error thrown.
LEMMA CompileStepTyped == ASSUME CompileTypeOK, [CompileNext]_compileVars PROVE CompileTypeOK'
<1>1. CASE CompileChat
  <2>1. compiled' = Compile(chat, available, known)
    BY <1>1 DEF CompileChat
  <2>2. Compile(chat, available, known).at \in {"begin", "done", "thrown"}
    BY DEF Compile
  <2> QED BY <2>1, <2>2 DEF CompileTypeOK
<1>2. CASE UNCHANGED compileVars
  BY <1>2 DEF compileVars, CompileTypeOK
<1> QED BY <1>1, <1>2 DEF CompileNext

\* Each component sees its own steps and stutters during the others'.
LEMMA EachComponentSteps ==
    [Next]_<<focus, streamVars, diffVars, compileVars, mcpVars>> =>
        /\ [StreamNext]_streamVars /\ [DiffNext]_diffVars
        /\ [CompileNext]_compileVars /\ [McpNext]_mcpVars
BY DEF Next

\* The states of the reuse of completions, of edits, of the compilation and of the
\* connection keep their types, for any texts, files, lines, chats and bounds.
THEOREM CoreTyping == Spec => []TypeOK
<1>1. Init => CoreInv
  BY CoreInitTyped
<1>2. CoreInv /\ [Next]_<<focus, streamVars, diffVars, compileVars, mcpVars>> => CoreInv'
  <2> SUFFICES ASSUME CoreInv, [Next]_<<focus, streamVars, diffVars, compileVars, mcpVars>>
               PROVE  CoreInv'
    OBVIOUS
  <2>1. /\ [StreamNext]_streamVars /\ [DiffNext]_diffVars
        /\ [CompileNext]_compileVars /\ [McpNext]_mcpVars
    BY EachComponentSteps
  <2>2. StreamTyped /\ DiffInv /\ CompileTypeOK /\ McpInv
    BY DEF CoreInv
  <2>3. StreamTyped' /\ DiffInv' /\ CompileTypeOK'
    BY ONLY <2>1, <2>2, StreamTypedStep, DiffStepTyped, CompileStepTyped
  <2>4. McpInv'
    BY ONLY <2>1, <2>2, McpStep
  <2> QED BY ONLY <2>3, <2>4 DEF CoreInv
<1>3. CoreInv => TypeOK
  BY StreamTypedIsTypeOK, StreamingIsTyped, McpInvIsTypeOK DEF CoreInv, TypeOK
<1> QED BY <1>1, <1>2, <1>3, PTL DEF Spec
=============================================================================
