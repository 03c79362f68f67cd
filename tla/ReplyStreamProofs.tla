-------------------------- MODULE ReplyStreamProofs --------------------------
(***************************************************************************)
(* Proofs about ReplyStream, for texts of any length, any number of        *)
(* messages, tool calls, chunks, stored messages and polls.                *)
(***************************************************************************)
EXTENDS ReplyStream, SequenceTheorems, WellFoundedInduction, TLAPS

(***************************************************************************)
(* Sequences, and the text without its escapes.                            *)
(***************************************************************************)

\* Induction on numbers, from the well-founded order on them: no schema of a theorem is
\* needed, since the set of the numbers that are done is a set.
LEMMA NatSetInduction ==
    ASSUME NEW S \in SUBSET Nat, 0 \in S, \A n \in S : n + 1 \in S
    PROVE  S = Nat
  <1> DEFINE T == Nat \ S
             R == OpToRel(<, Nat)
  <1>1. \A x, y \in Nat : y < x => <<y, x>> \in R
    BY DEF OpToRel
  <1>2. SUFFICES ASSUME T # {} PROVE FALSE
    BY <1>2
  <1>3. PICK x \in T : \A y \in T : ~ (<<y, x>> \in R)
    <2>1. IsWellFoundedOn(R, Nat)
      BY NatLessThanWellFounded
    <2>2. T \subseteq Nat
      OBVIOUS
    <2> QED
      BY <1>2, <2>1, <2>2, WFMin
  <1>4. x # 0 /\ x - 1 \in Nat /\ x - 1 < x
    BY SMT
  <1>5. x - 1 \in S
    BY <1>1, <1>3, <1>4
  <1>6. (x - 1) + 1 = x
    BY SMT
  <1> QED
    BY <1>5, <1>6

\* What Front and Last give for a sequence that is not empty.
LEMMA FrontFacts ==
    ASSUME NEW S, NEW s \in Seq(S), s # <<>>
    PROVE  /\ Front(s) \in Seq(S) /\ Len(Front(s)) = Len(s) - 1 /\ Last(s) \in S
           /\ Len(s) \in Nat \ {0}
           /\ \A i \in 1..Len(s) - 1 : Front(s)[i] = s[i]
  <1>1. Len(s) \in Nat \ {0}
    OBVIOUS
  <1>2. \A i \in 1..Len(s) - 1 : s[i] \in S
    BY <1>1
  <1>3. Front(s) = [i \in 1..Len(s) - 1 |-> s[i]]
    BY <1>1 DEF Front
  <1>4. Front(s) \in Seq(S) /\ Len(Front(s)) = Len(s) - 1
    BY <1>1, <1>2, <1>3, IsASeq
  <1> QED
    BY <1>1, <1>3, <1>4 DEF Last

\* A sequence is its front and its last element.
LEMMA FrontAppend ==
    ASSUME NEW S, NEW s \in Seq(S), s # <<>>
    PROVE  s = Append(Front(s), Last(s))
  <1>1. /\ Front(s) \in Seq(S) /\ Len(Front(s)) = Len(s) - 1 /\ Last(s) \in S
        /\ Len(s) \in Nat \ {0} /\ \A i \in 1..Len(s) - 1 : Front(s)[i] = s[i]
    BY FrontFacts
  <1> DEFINE t == Append(Front(s), Last(s))
  <1>2. t \in Seq(S) /\ Len(t) = Len(s) /\ t[Len(s)] = Last(s)
        /\ \A i \in 1..Len(s) - 1 : t[i] = Front(s)[i]
    BY <1>1
  <1> HIDE DEF t
  <1>3. \A i \in 1..Len(s) : t[i] = s[i]
    <2> TAKE i \in 1..Len(s)
    <2>1. i = Len(s) \/ i \in 1..Len(s) - 1
      BY <1>1
    <2> QED
      BY <1>1, <1>2, <2>1 DEF Last
  <1>4. t = s
    BY <1>2, <1>3, SeqEqual
  <1> QED
    BY <1>4 DEF t

\* Front and Last of what was appended.
LEMMA AppendFacts ==
    ASSUME NEW S, NEW s \in Seq(S), NEW x \in S
    PROVE  /\ Append(s, x) \in Seq(S) /\ Append(s, x) # <<>>
           /\ Front(Append(s, x)) = s /\ Last(Append(s, x)) = x
  <1>1. Append(s, x) \in Seq(S) /\ Len(Append(s, x)) = Len(s) + 1 /\ Append(s, x)[Len(s) + 1] = x
        /\ \A i \in 1..Len(s) : Append(s, x)[i] = s[i]
    OBVIOUS
  <1> DEFINE t == Append(s, x)
  <1>2. t \in Seq(S) /\ t # <<>> /\ Len(t) - 1 = Len(s)
    BY <1>1
  <1> HIDE DEF t
  <1>3. Front(t) \in Seq(S) /\ Len(Front(t)) = Len(s)
        /\ \A i \in 1..Len(s) : Front(t)[i] = t[i]
    BY <1>2, FrontFacts
  <1>4. \A i \in 1..Len(s) : Front(t)[i] = s[i]
    BY <1>1, <1>3 DEF t
  <1>5. Front(t) = s
    BY <1>3, <1>4, SeqEqual
  <1> QED
    BY <1>1, <1>2, <1>5 DEF Last, t

\* The body of Plain, for a function f in its place.
PlainStep(f, s) ==
    IF s = <<>> THEN <<>>
    ELSE IF Last(s) = Escape THEN f[Front(s)]
    ELSE Append(f[Front(s)], Last(s))

\* There is a function that satisfies the definition of Plain: one on the texts of at most n
\* numbers is extended to those of n + 1.
LEMMA PlainExists ==
    \E f \in [Seq(Int) -> Seq(Int)] : \A s \in Seq(Int) : f[s] = PlainStep(f, s)
  <1> DEFINE S == Int
             V == Seq(Int)
             UpTo(n) == {s \in Seq(S) : Len(s) <= n}
             Step(g, s) == PlainStep(g, s)
             Good(n, g) == g \in [UpTo(n) -> V] /\ \A s \in UpTo(n) : g[s] = Step(g, s)
             E == {n \in Nat : \E g : Good(n, g)}
  <1>1. E = Nat
    <2>1. 0 \in E
      <3> DEFINE g == [s \in UpTo(0) |-> <<>>]
      <3>1. \A s \in UpTo(0) : s = <<>>
        OBVIOUS
      <3>2. Good(0, g)
        BY <3>1 DEF PlainStep
      <3> QED
        BY <3>2
    <2>2. ASSUME NEW n \in E PROVE n + 1 \in E
      <3>1. PICK g : Good(n, g)
        OBVIOUS
      <3> DEFINE h == [s \in UpTo(n + 1) |-> Step(g, s)]
      <3>2. \A s \in UpTo(n + 1) : s # <<>> => Front(s) \in UpTo(n) /\ Last(s) \in S
        BY FrontFacts
      <3>3. \A s \in UpTo(n + 1) : Step(g, s) \in V
        BY <3>1, <3>2 DEF PlainStep
      <3>4. \A s \in UpTo(n) : s \in UpTo(n + 1) /\ h[s] = g[s]
        BY <3>1
      <3>5. \A s \in UpTo(n + 1) : Step(h, s) = Step(g, s)
        BY <3>2, <3>4 DEF PlainStep
      <3>6. Good(n + 1, h)
        BY <3>3, <3>5
      <3>7. n + 1 \in Nat
        OBVIOUS
      <3> HIDE DEF Good, h
      <3> QED
        BY <3>6, <3>7
    <2> QED
      BY <2>1, <2>2, NatSetInduction
  <1>2. ASSUME NEW n \in Nat, NEW m \in Nat, NEW g, NEW h, Good(n, g), Good(m, h), n <= m
        PROVE  \A s \in UpTo(n) : g[s] = h[s]
    <2> DEFINE K == {k \in Nat : \A s \in UpTo(n) : Len(s) = k => g[s] = h[s]}
    <2>1. 0 \in K
      <3> SUFFICES ASSUME NEW s \in UpTo(n), Len(s) = 0 PROVE g[s] = h[s]
        OBVIOUS
      <3>1. s = <<>> /\ s \in UpTo(m)
        BY <1>2
      <3> QED
        BY <1>2, <3>1 DEF PlainStep
    <2>2. ASSUME NEW k \in K PROVE k + 1 \in K
      <3> SUFFICES ASSUME NEW s \in UpTo(n), Len(s) = k + 1 PROVE g[s] = h[s]
        OBVIOUS
      <3>1. k \in Nat /\ s \in Seq(S) /\ s # <<>> /\ k + 1 <= n
        OBVIOUS
      <3>3. Front(s) \in Seq(S) /\ Len(Front(s)) = k
        BY <3>1, FrontFacts
      <3>4. Front(s) \in UpTo(n)
        BY <3>1, <3>3
      <3>5. g[Front(s)] = h[Front(s)]
        BY <3>3, <3>4
      <3>2. s \in UpTo(m)
        BY <1>2
      <3> QED
        BY <1>2, <3>1, <3>2, <3>5 DEF PlainStep
    <2>3. K = Nat
      <3> HIDE DEF K
      <3>1. K \in SUBSET Nat
        BY DEF K
      <3> QED
        BY <2>1, <2>2, <3>1, NatSetInduction
    <2> QED
      BY <2>3
  <1> DEFINE best(n) == CHOOSE g : Good(n, g)
             f == [s \in Seq(S) |-> best(Len(s))[s]]
  <1>3. \A n \in Nat : Good(n, best(n))
    BY <1>1
  <1>4. ASSUME NEW s \in Seq(S)
        PROVE  f[s] \in V /\ f[s] = Step(f, s)
    <2>1. Len(s) \in Nat /\ s \in UpTo(Len(s))
      OBVIOUS
    <2>2. Good(Len(s), best(Len(s)))
      BY <1>3, <2>1
    <2>3. f[s] = Step(best(Len(s)), s) /\ f[s] \in V
      BY <2>1, <2>2
    <2>4. CASE s = <<>>
      BY <2>3, <2>4 DEF PlainStep
    <2>5. CASE s # <<>>
      <3>1. Front(s) \in Seq(S) /\ Len(Front(s)) \in Nat /\ Len(Front(s)) <= Len(s)
        BY <2>5, FrontFacts
      <3>2. best(Len(Front(s)))[Front(s)] = best(Len(s))[Front(s)]
        <4> HIDE DEF best, Good
        <4>1. Good(Len(Front(s)), best(Len(Front(s))))
          BY <1>3, <3>1
        <4>2. Front(s) \in UpTo(Len(Front(s)))
          BY <3>1
        <4> QED
          BY <1>2, <2>1, <2>2, <3>1, <4>1, <4>2
      <3> HIDE DEF best
      <3> QED
        BY <2>3, <2>5, <3>1, <3>2 DEF PlainStep
    <2> QED
      BY <2>4, <2>5
  <1> HIDE DEF best
  <1>5. f \in [Seq(S) -> V]
    BY <1>4
  <1> QED
    BY <1>4, <1>5

\* The recursive function Plain has values, and they are what its definition says.
LEMMA PlainIs ==
    /\ Plain[<<>>] = <<>>
    /\ \A s \in Seq(Int), x \in Int :
          /\ Plain[s] \in Seq(Int)
          /\ Plain[Append(s, x)] = IF x = Escape THEN Plain[s] ELSE Append(Plain[s], x)
  <1> DEFINE Step(f, s) == IF s = <<>> THEN <<>>
                           ELSE IF Last(s) = Escape THEN f[Front(s)]
                           ELSE Append(f[Front(s)], Last(s))
  <1>3. PICK f \in [Seq(Int) -> Seq(Int)] : \A s \in Seq(Int) : f[s] = Step(f, s)
    BY PlainExists DEF PlainStep
  <1>4. \A s \in Seq(Int) : s # <<>> => Front(s) \in Seq(Int) /\ Last(s) \in Int
    BY FrontFacts
  <1>6. f = [s \in Seq(Int) |-> Step(f, s)]
    BY <1>3
  <1>7. Plain = [s \in Seq(Int) |-> Step(Plain, s)]
    BY <1>6 DEF Plain
  <1>8. \A s \in Seq(Int), x \in Int :
          Plain[Append(s, x)] = IF x = Escape THEN Plain[s] ELSE Append(Plain[s], x)
    <2> SUFFICES ASSUME NEW s \in Seq(Int), NEW x \in Int
                 PROVE  Plain[Append(s, x)] = IF x = Escape THEN Plain[s] ELSE Append(Plain[s], x)
      OBVIOUS
    <2>1. /\ Append(s, x) \in Seq(Int) /\ Append(s, x) # <<>>
          /\ Front(Append(s, x)) = s /\ Last(Append(s, x)) = x
      BY AppendFacts
    <2>2. Plain[Append(s, x)] = Step(Plain, Append(s, x))
      BY <1>7, <2>1, Zenon
    <2> QED
      BY <2>1, <2>2
  <1>9. Plain[<<>>] = <<>>
    <2>1. <<>> \in Seq(Int)
      OBVIOUS
    <2> QED
      BY <1>7, <2>1, Zenon
  <1>10. \A s \in Seq(Int) : Plain[s] \in Seq(Int)
    <2> DEFINE K == {k \in Nat : \A s \in Seq(Int) : Len(s) = k => Plain[s] \in Seq(Int)}
    <2>1. 0 \in K
      BY <1>9
    <2>2. ASSUME NEW k \in K PROVE k + 1 \in K
      <3> SUFFICES ASSUME NEW s \in Seq(Int), Len(s) = k + 1 PROVE Plain[s] \in Seq(Int)
        OBVIOUS
      <3>0. s # <<>> /\ k \in Nat
        OBVIOUS
      <3>a. Front(s) \in Seq(Int) /\ Len(Front(s)) = Len(s) - 1 /\ Last(s) \in Int
        BY <3>0, FrontFacts
      <3>1. Front(s) \in Seq(Int) /\ Len(Front(s)) = k /\ Last(s) \in Int
        BY <3>0, <3>a
      <3>2. Plain[Front(s)] \in Seq(Int)
        BY <3>1
      <3>3. Plain[s] = Step(Plain, s)
        BY <1>7, Zenon
      <3> QED
        BY <3>1, <3>2, <3>3
    <2>3. K \in SUBSET Nat
      OBVIOUS
    <2> HIDE DEF K
    <2>4. K = Nat
      BY <2>1, <2>2, <2>3, NatSetInduction
    <2> QED
      BY <2>4 DEF K
  <1> QED
    BY <1>8, <1>9, <1>10

\* IsSuffix, element by element.
EndsWith(t, s) ==
    Len(s) <= Len(t) /\ \A i \in 1..Len(s) : t[Len(t) - Len(s) + i] = s[i]

\* IsPrefix, element by element.
StartsWith(t, s) == Len(s) <= Len(t) /\ \A i \in 1..Len(s) : t[i] = s[i]

\* IsPrefix is what StartsWith says.
LEMMA PrefixIs ==
    ASSUME NEW s \in Seq(Int), NEW t \in Seq(Int)
    PROVE  IsPrefix(s, t) <=> StartsWith(t, s)
  <1>1. ASSUME Len(s) <= Len(t)
        PROVE  (SubSeq(s, 1, Len(s)) = SubSeq(t, 1, Len(s)))
                   <=> \A i \in 1..Len(s) : t[i] = s[i]
    <2> DEFINE a == SubSeq(s, 1, Len(s))
               b == SubSeq(t, 1, Len(s))
    <2>1. a \in Seq(Int) /\ Len(a) = Len(s) /\ \A i \in 1..Len(s) : a[i] = s[i]
      OBVIOUS
    <2>2. b \in Seq(Int) /\ Len(b) = Len(s) /\ \A i \in 1..Len(s) : b[i] = t[i]
      BY <1>1
    <2> HIDE DEF a, b
    <2>3. ASSUME \A i \in 1..Len(s) : t[i] = s[i] PROVE a = b
      BY <2>1, <2>2, <2>3, SeqEqual
    <2>4. ASSUME a = b PROVE \A i \in 1..Len(s) : t[i] = s[i]
      BY <2>1, <2>2, <2>4
    <2> QED
      BY <2>3, <2>4 DEF a, b
  <1> QED
    BY <1>1 DEF IsPrefix, StartsWith

\* The elements of a reversed sequence.
LEMMA ReverseIs ==
    ASSUME NEW s \in Seq(Int)
    PROVE  /\ Reverse(s) \in Seq(Int) /\ Len(Reverse(s)) = Len(s)
           /\ \A i \in 1..Len(s) : Reverse(s)[i] = s[Len(s) - i + 1]
  <1>1. Len(s) \in Nat /\ \A i \in 1..Len(s) : s[Len(s) - i + 1] \in Int
    OBVIOUS
  <1>2. Reverse(s) = [i \in 1..Len(s) |-> s[Len(s) - i + 1]]
    BY DEF Reverse
  <1>3. Reverse(s) \in Seq(Int) /\ Len(Reverse(s)) = Len(s)
    BY <1>1, <1>2, IsASeq
  <1> QED
    BY <1>2, <1>3

\* IsSuffix is what EndsWith says.
LEMMA SuffixIs ==
    ASSUME NEW s \in Seq(Int), NEW t \in Seq(Int)
    PROVE  IsSuffix(s, t) <=> EndsWith(t, s)
  <1> DEFINE a == Reverse(s)
             b == Reverse(t)
  <1>1. a \in Seq(Int) /\ Len(a) = Len(s) /\ \A i \in 1..Len(s) : a[i] = s[Len(s) - i + 1]
    BY ReverseIs
  <1>2. b \in Seq(Int) /\ Len(b) = Len(t) /\ \A i \in 1..Len(t) : b[i] = t[Len(t) - i + 1]
    BY ReverseIs
  <1>3. Len(s) \in Nat /\ Len(t) \in Nat
    OBVIOUS
  <1> HIDE DEF a, b
  <1>4. IsPrefix(a, b) <=> StartsWith(b, a)
    BY <1>1, <1>2, PrefixIs
  <1>5. ASSUME StartsWith(b, a) PROVE EndsWith(t, s)
    <2>1. Len(s) <= Len(t)
      BY <1>1, <1>2, <1>5 DEF StartsWith
    <2>2. ASSUME NEW i \in 1..Len(s) PROVE t[Len(t) - Len(s) + i] = s[i]
      <3> DEFINE j == Len(s) - i + 1
      <3>1. /\ j \in 1..Len(s) /\ Len(s) - j + 1 = i
            /\ Len(t) - j + 1 = Len(t) - Len(s) + i /\ j \in 1..Len(t)
        BY <1>3, <2>1
      <3> HIDE DEF j
      <3>2. a[j] = b[j]
        BY <1>1, <1>5, <3>1 DEF StartsWith
      <3> QED
        BY <1>1, <1>2, <3>1, <3>2
    <2> QED
      BY <2>1, <2>2 DEF EndsWith
  <1>6. ASSUME EndsWith(t, s) PROVE StartsWith(b, a)
    <2>1. Len(s) <= Len(t)
      BY <1>6 DEF EndsWith
    <2>2. ASSUME NEW i \in 1..Len(s) PROVE b[i] = a[i]
      <3> DEFINE j == Len(s) - i + 1
      <3>1. j \in 1..Len(s) /\ Len(t) - i + 1 = Len(t) - Len(s) + j /\ i \in 1..Len(t)
        BY <1>3, <2>1
      <3>2. t[Len(t) - Len(s) + j] = s[j]
        BY <1>6, <3>1 DEF EndsWith
      <3> HIDE DEF j
      <3> QED
        BY <1>1, <1>2, <3>1, <3>2 DEF j
    <2> QED
      BY <1>1, <1>2, <2>1, <2>2 DEF StartsWith
  <1> QED
    BY <1>4, <1>5, <1>6 DEF IsSuffix, a, b

\* The elements of a concatenation.
LEMMA ConcatLike ==
    ASSUME NEW s \in Seq(Int), NEW t \in Seq(Int)
    PROVE  /\ s \o t \in Seq(Int) /\ Len(s \o t) = Len(s) + Len(t)
           /\ \A i \in 1..Len(s) : (s \o t)[i] = s[i]
           /\ \A i \in 1..Len(t) : (s \o t)[Len(s) + i] = t[i]
  OBVIOUS

\* How the end of a text carries over to what is put after it.
LEMMA EndsWithConcat ==
    ASSUME NEW s \in Seq(Int), NEW t \in Seq(Int), NEW d \in Seq(Int)
    PROVE  /\ EndsWith(t, s) => EndsWith(t \o d, s \o d)
           /\ EndsWith(t \o d, d)
           /\ EndsWith(t, <<>>)
  <1>1. /\ t \o d \in Seq(Int) /\ Len(t \o d) = Len(t) + Len(d)
        /\ \A i \in 1..Len(t) : (t \o d)[i] = t[i]
        /\ \A i \in 1..Len(d) : (t \o d)[Len(t) + i] = d[i]
    BY ConcatLike
  <1>2. /\ s \o d \in Seq(Int) /\ Len(s \o d) = Len(s) + Len(d)
        /\ \A i \in 1..Len(s) : (s \o d)[i] = s[i]
        /\ \A i \in 1..Len(d) : (s \o d)[Len(s) + i] = d[i]
    BY ConcatLike
  <1> DEFINE a == s \o d
             b == t \o d
  <1>3. Len(s) \in Nat /\ Len(t) \in Nat /\ Len(d) \in Nat
    OBVIOUS
  <1>a. /\ Len(a) = Len(s) + Len(d) /\ Len(b) = Len(t) + Len(d)
        /\ \A i \in 1..Len(s) : a[i] = s[i]
        /\ \A i \in 1..Len(t) : b[i] = t[i]
        /\ \A i \in 1..Len(d) : a[Len(s) + i] = d[i] /\ b[Len(t) + i] = d[i]
    BY <1>1, <1>2
  <1> HIDE DEF a, b
  <1>4. ASSUME EndsWith(t, s) PROVE EndsWith(b, a)
    <2>1. Len(s) <= Len(t) /\ Len(b) - Len(a) = Len(t) - Len(s) /\ Len(a) <= Len(b)
      BY <1>a, <1>3, <1>4 DEF EndsWith
    <2>2. ASSUME NEW i \in 1..Len(a) PROVE b[Len(b) - Len(a) + i] = a[i]
      <3>1. CASE i <= Len(s)
        <4>1. a[i] = s[i] /\ s[i] = t[Len(t) - Len(s) + i] /\ Len(t) - Len(s) + i \in 1..Len(t)
          BY <1>a, <1>3, <1>4, <2>1, <3>1, SMTT(30) DEF EndsWith
        <4>2. b[Len(t) - Len(s) + i] = t[Len(t) - Len(s) + i]
          BY <1>a, <4>1
        <4> QED
          BY <2>1, <4>1, <4>2
      <3>2. CASE i > Len(s)
        <4> DEFINE j == i - Len(s)
        <4>1. j \in 1..Len(d) /\ Len(s) + j = i /\ Len(b) - Len(a) + i = Len(t) + j
          BY <1>a, <1>3, <2>1, <3>2
        <4> HIDE DEF j
        <4>2. a[Len(s) + j] = d[j] /\ b[Len(t) + j] = d[j]
          BY <1>a, <4>1
        <4> QED
          BY <4>1, <4>2
      <3> QED
        BY <1>3, <3>1, <3>2
    <2> QED
      BY <2>1, <2>2 DEF EndsWith
  <1>5. EndsWith(b, d)
    BY <1>a, <1>3 DEF EndsWith
  <1>6. EndsWith(t, <<>>)
    BY <1>3 DEF EndsWith
  <1> QED
    BY <1>4, <1>5, <1>6 DEF a, b

\* How the beginning of a text carries over to what is put after it.
LEMMA StartsWithConcat ==
    ASSUME NEW s \in Seq(Int), NEW t \in Seq(Int), NEW d \in Seq(Int)
    PROVE  /\ StartsWith(t, s) => StartsWith(t \o d, s)
           /\ StartsWith(t, s) => s \o SubSeq(t, Len(s) + 1, Len(t)) = t
           /\ SubSeq(t, Len(s) + 1, Len(t)) \in Seq(Int)
  <1>1. StartsWith(t, s) => StartsWith(t \o d, s)
    BY DEF StartsWith
  <1>2. SubSeq(t, Len(s) + 1, Len(t)) \in Seq(Int)
    OBVIOUS
  <1>3. ASSUME StartsWith(t, s) PROVE s \o SubSeq(t, Len(s) + 1, Len(t)) = t
    <2> DEFINE r == SubSeq(t, Len(s) + 1, Len(t))
    <2>1. r \in Seq(Int) /\ Len(r) = Len(t) - Len(s) /\ \A i \in 1..Len(r) : r[i] = t[Len(s) + i]
      BY <1>3 DEF StartsWith
    <2> HIDE DEF r
    <2>2. s \o r \in Seq(Int) /\ Len(s \o r) = Len(t)
      BY <2>1, <1>3 DEF StartsWith
    <2>3. ASSUME NEW i \in 1..Len(t) PROVE (s \o r)[i] = t[i]
      <3>1. CASE i <= Len(s)
        BY <2>1, <1>3, <3>1 DEF StartsWith
      <3>2. CASE i > Len(s)
        <4>1. i - Len(s) \in 1..Len(r) /\ Len(s) + (i - Len(s)) = i
          BY <2>1, <1>3, <3>2 DEF StartsWith
        <4>2. (s \o r)[Len(s) + (i - Len(s))] = r[i - Len(s)]
          BY <2>1, <4>1, ConcatLike
        <4>3. r[i - Len(s)] = t[Len(s) + (i - Len(s))]
          BY <2>1, <4>1
        <4> QED
          BY <4>1, <4>2, <4>3
      <3>3. i <= Len(s) \/ i > Len(s)
        OBVIOUS
      <3> QED
        BY <3>1, <3>2, <3>3, Zenon
    <2>4. s \o r = t
      BY <2>2, <2>3, SeqEqual
    <2> QED
      BY <2>4 DEF r
  <1> QED
    BY <1>1, <1>2, <1>3

\* A concatenation contains what its parts contain.
LEMMA ContainsConcat ==
    ASSUME NEW s \in Seq(Int), NEW t \in Seq(Int), NEW x \in Int
    PROVE  /\ Contains(s \o t, x) <=> Contains(s, x) \/ Contains(t, x)
           /\ Contains(<<x>>, x)
           /\ ~Contains(<<>>, x)
  <1>1. ASSUME Contains(s, x) PROVE Contains(s \o t, x)
    <2>1. PICK i \in 1..Len(s) : s[i] = x
      BY <1>1 DEF Contains
    <2>2. i \in 1..Len(s \o t) /\ (s \o t)[i] = x
      BY <2>1
    <2> QED
      BY <2>2 DEF Contains
  <1>2. ASSUME Contains(t, x) PROVE Contains(s \o t, x)
    <2>1. PICK i \in 1..Len(t) : t[i] = x
      BY <1>2 DEF Contains
    <2>2. Len(s) + i \in 1..Len(s \o t) /\ (s \o t)[Len(s) + i] = x
      BY <2>1
    <2> QED
      BY <2>2 DEF Contains
  <1>3. ASSUME Contains(s \o t, x) PROVE Contains(s, x) \/ Contains(t, x)
    <2>1. PICK i \in 1..Len(s \o t) : (s \o t)[i] = x
      BY <1>3 DEF Contains
    <2>2. CASE i <= Len(s)
      BY <2>1, <2>2 DEF Contains
    <2>3. CASE i > Len(s)
      <3>1. i - Len(s) \in 1..Len(t) /\ t[i - Len(s)] = x
        BY <2>1, <2>3
      <3> QED
        BY <3>1 DEF Contains
    <2> QED
      BY <2>1, <2>2, <2>3
  <1>4. Contains(<<x>>, x) /\ ~Contains(<<>>, x)
    BY DEF Contains
  <1> QED
    BY <1>1, <1>2, <1>3, <1>4

\* What the argument is of a text that begins with the marker.
LEMMA ArgumentIs ==
    ASSUME NEW raw \in Seq(Int), Contains(raw, Marker),
           \A i \in 1..Len(raw) : raw[i] = Marker => i = 1
    PROVE  /\ Argument(raw) \in Seq(Int) /\ Len(Argument(raw)) = Len(raw) - 1
           /\ \A i \in 1..Len(raw) - 1 : Argument(raw)[i] = raw[i + 1]
           /\ Len(raw) >= 1 /\ raw[1] = Marker
  <1>1. Len(raw) >= 1 /\ raw[1] = Marker /\ DOMAIN raw = 1..Len(raw)
    BY DEF Contains
  <1>2. (CHOOSE i \in DOMAIN raw : raw[i] = Marker) = 1
    <2>1. \E i \in DOMAIN raw : raw[i] = Marker
      BY <1>1
    <2>2. \A i \in DOMAIN raw : raw[i] = Marker => i = 1
      BY <1>1
    <2> QED
      BY <2>1, <2>2
  <1>3. Argument(raw) = SubSeq(raw, 1 + 1, Len(raw))
    BY <1>2 DEF Argument
  <1> QED
    BY <1>1, <1>3

\* The argument grows with the text.
LEMMA ArgumentGrows ==
    ASSUME NEW raw \in Seq(Int), Contains(raw, Marker), NEW x \in Int \ {Marker},
           \A i \in 1..Len(raw) : raw[i] = Marker => i = 1
    PROVE  /\ Contains(Append(raw, x), Marker)
           /\ \A i \in 1..Len(Append(raw, x)) : Append(raw, x)[i] = Marker => i = 1
           /\ Argument(Append(raw, x)) = Append(Argument(raw), x)
  <1> DEFINE more == Append(raw, x)
  <1>1. more \in Seq(Int) /\ Len(more) = Len(raw) + 1 /\ more[Len(raw) + 1] = x
        /\ \A i \in 1..Len(raw) : more[i] = raw[i]
    OBVIOUS
  <1>0. Len(raw) >= 1 /\ raw[1] = Marker /\ Len(raw) \in Nat
    BY ArgumentIs
  <1> HIDE DEF more
  <1>2. Contains(more, Marker) /\ \A i \in 1..Len(more) : more[i] = Marker => i = 1
    <2>1. 1 \in 1..Len(more) /\ more[1] = Marker
      BY <1>0, <1>1
    <2>2. \A i \in 1..Len(more) : i \in 1..Len(raw) \/ i = Len(raw) + 1
      BY <1>0, <1>1
    <2> QED
      BY <1>1, <2>1, <2>2 DEF Contains
  <1> DEFINE rest == Argument(more)
  <1>3. /\ rest \in Seq(Int) /\ Len(rest) = Len(raw)
        /\ \A i \in 1..Len(raw) : rest[i] = more[i + 1]
    <2>1. /\ rest \in Seq(Int) /\ Len(rest) = Len(more) - 1
          /\ \A i \in 1..Len(more) - 1 : rest[i] = more[i + 1]
      BY <1>1, <1>2, ArgumentIs
    <2>2. Len(more) - 1 = Len(raw)
      BY <1>0, <1>1
    <2> HIDE DEF rest
    <2> QED
      BY <2>1, <2>2
  <1> HIDE DEF rest
  <1>4. /\ Argument(raw) \in Seq(Int) /\ Len(Argument(raw)) = Len(raw) - 1
        /\ \A i \in 1..Len(raw) - 1 : Argument(raw)[i] = raw[i + 1]
        /\ Len(raw) >= 1 /\ Len(raw) \in Nat
    BY ArgumentIs
  <1> DEFINE a == Append(Argument(raw), x)
  <1>5. a \in Seq(Int) /\ Len(a) = Len(raw) /\ a[Len(raw)] = x
        /\ \A i \in 1..Len(raw) - 1 : a[i] = raw[i + 1]
    BY <1>4
  <1> HIDE DEF a
  <1>6. ASSUME NEW i \in 1..Len(raw) PROVE rest[i] = a[i]
    <2>1. CASE i = Len(raw)
      BY <1>0, <1>1, <1>3, <1>5, <2>1
    <2>2. CASE i # Len(raw)
      <3>1. i \in 1..Len(raw) - 1 /\ i + 1 \in 1..Len(raw)
        BY <1>0, <2>2
      <3> QED
        BY <1>1, <1>3, <1>5, <3>1
    <2> QED
      BY <2>1, <2>2
  <1>7. rest = a
    BY <1>3, <1>5, <1>6, SeqEqual
  <1> QED
    BY <1>2, <1>7 DEF more, a, rest

-----------------------------------------------------------------------------
(***************************************************************************)
(* The text of a completion, and what is visible of it.                    *)
(***************************************************************************)

\* The text of a completion that a user would see when it is complete.
Shown(text) == IF Contains(text, Marker) THEN Plain[Argument(text)] ELSE text

\* A text that begins with the marker, or that has neither marker nor escape.
WellFormed(text) ==
    /\ text \in Seq(Int)
    /\ \A i \in 1..Len(text) : text[i] = Marker => i = 1
    /\ Contains(text, Escape) => Contains(text, Marker)

\* What is shown grows with a number that is no escape, and not with an escape.
LEMMA ShownGrows ==
    ASSUME NEW text, WellFormed(text), Contains(text, Marker), NEW x \in Int \ {Marker}
    PROVE  /\ WellFormed(Append(text, x)) /\ Contains(Append(text, x), Marker)
           /\ Shown(text) \in Seq(Int)
           /\ Shown(Append(text, x)) = IF x = Escape THEN Shown(text) ELSE Append(Shown(text), x)
  <1>1. /\ text \in Seq(Int) /\ Append(text, x) \in Seq(Int)
        /\ \A i \in 1..Len(text) : text[i] = Marker => i = 1
    BY DEF WellFormed
  <1>2. /\ Contains(Append(text, x), Marker)
        /\ \A i \in 1..Len(Append(text, x)) : Append(text, x)[i] = Marker => i = 1
        /\ Argument(Append(text, x)) = Append(Argument(text), x)
    BY <1>1, ArgumentGrows
  <1>3. Argument(text) \in Seq(Int)
    BY <1>1, ArgumentIs
  <1>4. /\ Plain[Argument(text)] \in Seq(Int)
        /\ Plain[Append(Argument(text), x)]
              = IF x = Escape THEN Plain[Argument(text)] ELSE Append(Plain[Argument(text)], x)
    BY <1>3, PlainIs
  <1> QED
    BY <1>1, <1>2, <1>4, Zenon DEF WellFormed, Shown

\* What is visible is what is shown, unless the text ends with an escape.
LEMMA VisibleIs ==
    ASSUME NEW text, WellFormed(text)
    PROVE  /\ Visible(text) \in Seq(Int)
           /\ text = <<>> \/ Last(text) # Escape => Visible(text) = Shown(text)
  <1>1. text \in Seq(Int) /\ \A i \in 1..Len(text) : text[i] = Marker => i = 1
    BY DEF WellFormed
  <1>2. CASE ~Contains(text, Marker)
    BY <1>1, <1>2 DEF Visible, Shown
  <1>3. CASE Contains(text, Marker)
    <2> DEFINE raw == Argument(text)
    <2>1. /\ raw \in Seq(Int) /\ Len(raw) = Len(text) - 1
          /\ \A i \in 1..Len(text) - 1 : raw[i] = text[i + 1]
          /\ Len(text) >= 1 /\ text[1] = Marker /\ Len(text) \in Nat
      BY <1>1, <1>3, ArgumentIs
    <2>2. Visible(text) = Unescaped(raw) /\ Shown(text) = Plain[raw]
      BY <1>3 DEF Visible, Shown
    <2> HIDE DEF raw
    <2>3. CASE raw = <<>>
      BY <2>2, <2>3, PlainIs DEF Unescaped
    <2>4. CASE raw # <<>>
      <3>1. Front(raw) \in Seq(Int) /\ Last(raw) \in Int
        BY <2>1, <2>4, FrontFacts
      <3>2. Plain[Front(raw)] \in Seq(Int)
        BY <3>1, PlainIs
      <3>3. Unescaped(raw) = Append(Plain[Front(raw)], Last(raw))
        BY <2>4 DEF Unescaped
      <3>4. raw = Append(Front(raw), Last(raw))
        BY <2>1, <2>4, FrontAppend
      <3>5. Plain[raw] = IF Last(raw) = Escape THEN Plain[Front(raw)]
                         ELSE Append(Plain[Front(raw)], Last(raw))
        <4> DEFINE front == Front(raw)
                   last == Last(raw)
        <4>1. front \in Seq(Int) /\ last \in Int /\ raw = Append(front, last)
          BY <3>1, <3>4
        <4> HIDE DEF front, last
        <4>2. Plain[Append(front, last)] = IF last = Escape THEN Plain[front]
                                           ELSE Append(Plain[front], last)
          BY <4>1, PlainIs
        <4>3. Plain[raw] = IF last = Escape THEN Plain[front]
                           ELSE Append(Plain[front], last)
          BY <4>1, <4>2, Zenon
        <4> QED
          BY <4>3 DEF front, last
      <3>6. Last(raw) = Last(text) /\ text # <<>>
        <4>1. Len(raw) \in 1..Len(text) - 1
          BY <2>1, <2>4
        <4>2. raw[Len(raw)] = text[Len(text)]
          BY <2>1, <4>1
        <4> QED
          BY <2>1, <4>2 DEF Last
      <3>7. Append(Plain[Front(raw)], Last(raw)) \in Seq(Int)
        BY <3>1, <3>2
      <3> QED
        BY <2>2, <3>3, <3>5, <3>6, <3>7
    <2> QED
      BY <2>3, <2>4
  <1> QED
    BY <1>2, <1>3

\* An escape whose character has not come is visible.
LEMMA VisibleEscape ==
    ASSUME NEW text, WellFormed(text), Contains(text, Marker)
    PROVE  Visible(Append(text, Escape)) = Append(Shown(text), Escape)
  <1>1. /\ text \in Seq(Int) /\ Escape \in Int \ {Marker}
        /\ \A i \in 1..Len(text) : text[i] = Marker => i = 1
    BY DEF WellFormed, Escape, Marker
  <1>2. /\ Contains(Append(text, Escape), Marker)
        /\ Argument(Append(text, Escape)) = Append(Argument(text), Escape)
    BY <1>1, ArgumentGrows
  <1> DEFINE raw == Argument(text)
  <1>3. raw \in Seq(Int)
    BY <1>1, ArgumentIs
  <1>4. /\ Append(raw, Escape) # <<>>
        /\ Front(Append(raw, Escape)) = raw /\ Last(Append(raw, Escape)) = Escape
    BY <1>1, <1>3, AppendFacts
  <1>5. Unescaped(Append(raw, Escape)) = Append(Plain[raw], Escape)
    BY <1>4 DEF Unescaped
  <1> QED
    BY <1>2, <1>5, Zenon DEF Visible, Shown

\* The chunks of a StreamingDeltaEvent.
LEMMA ContentIs ==
    ASSUME NEW content \in Contents, agent.written \in Nat
    PROVE  \E w \in Int \ {Escape, Marker} :
              /\ Words(content) = 1 => w = agent.written + 1
              /\ \/ agent.text = <<>> /\ content = <<Marker>>
                 \/ content = <<w>>
                 \/ /\ content = <<Escape>> \/ content = <<Escape, w>>
                    /\ agent.text # <<>> /\ Contains(agent.text, Marker)
  <1> DEFINE w == agent.written + 1
  <1>1. w \in Int \ {Escape, Marker}
    BY DEF Escape, Marker
  <1> HIDE DEF w
  <1> QED
    BY <1>1 DEF Contents, w

\* The texts a completion begins with.
LEMMA MarkerAlone ==
    /\ WellFormed(<<Marker>>) /\ Shown(<<Marker>>) = <<>> /\ Contains(<<Marker>>, Marker)
    /\ Last(<<Marker>>) # Escape /\ WellFormed(<<>>) /\ Shown(<<>>) = <<>>
  <1> DEFINE raw == <<Marker>>
  <1>1. /\ raw \in Seq(Int) /\ Len(raw) = 1 /\ raw[1] = Marker
        /\ Contains(raw, Marker) /\ ~Contains(raw, Escape) /\ Last(raw) # Escape
    BY DEF Contains, Marker, Escape, Last
  <1>2. ~Contains(<<>>, Marker) /\ ~Contains(<<>>, Escape) /\ <<>> \in Seq(Int) /\ Len(<<>>) = 0
    BY DEF Contains
  <1> HIDE DEF raw
  <1>3. Argument(raw) \in Seq(Int) /\ Len(Argument(raw)) = 0
    <2>1. Argument(raw) \in Seq(Int) /\ Len(Argument(raw)) = Len(raw) - 1
      BY <1>1, ArgumentIs
    <2> QED
      BY <1>1, <2>1
  <1>4. Argument(raw) = <<>>
    BY <1>3
  <1>5. WellFormed(raw)
    BY <1>1 DEF WellFormed
  <1>6. Shown(raw) = <<>>
    BY <1>1, <1>4, PlainIs DEF Shown
  <1>7. WellFormed(<<>>) /\ Shown(<<>>) = <<>>
    BY <1>2 DEF WellFormed, Shown
  <1> QED
    BY <1>1, <1>5, <1>6, <1>7 DEF raw

\* A text with the marker.
Marked(text) == Contains(text, Marker)

\* A chunk of the text: the marker, the word w, an escape or both.
Chunk(text, w, content) ==
    \/ text = <<>> /\ content = <<Marker>>
    \/ content = <<w>>
    \/ Marked(text) /\ (content = <<Escape>> \/ content = <<Escape, w>>)

\* How the text grows with a chunk, and what is shown of it.
LEMMA TextGrows ==
    ASSUME NEW text, WellFormed(text), NEW w \in Int \ {Escape, Marker}, NEW content,
           Chunk(text, w, content)
    PROVE  /\ WellFormed(text \o content)
           /\ content \in Seq(Int) /\ content # <<>>
           /\ Shown(text) \in Seq(Int)
           /\ Shown(text \o content)
                 = IF Last(content) = w THEN Append(Shown(text), w) ELSE Shown(text)
           /\ Marked(text) => Marked(text \o content)
           /\ Marked(text \o content) => Marked(text) \/ content = <<Marker>>
  <1>1. text \in Seq(Int) /\ Escape \in Int \ {Marker} /\ w \in Int \ {Marker} /\ Marker \in Int
        /\ w # Escape /\ w # Marker /\ w \in Int
    BY DEF WellFormed, Escape, Marker
  <1>2. CASE text = <<>> /\ content = <<Marker>>
    <2>1. /\ text \o content = <<Marker>> /\ content \in Seq(Int)
          /\ content # <<>> /\ Last(content) = Marker
      BY <1>1, <1>2 DEF Last
    <2>2. <<>> \in Seq(Int)
      OBVIOUS
    <2> QED
      BY <1>1, <1>2, <2>1, <2>2, MarkerAlone, Zenon DEF Marked
  <1>3. CASE content = <<w>>
    <2>1. /\ text \o content = Append(text, w) /\ content \in Seq(Int)
          /\ content # <<>> /\ Last(content) = w
      BY <1>1, <1>3 DEF Last
    <2>2. CASE Marked(text)
      BY <1>1, <2>1, <2>2, ShownGrows, ZenonT(40) DEF Marked
    <2>3. CASE ~Marked(text)
      <3>1. ~Contains(content, Marker) /\ ~Contains(content, Escape)
        BY <1>1, <1>3 DEF Contains
      <3>2. ~Contains(text \o content, Marker) /\ ~Contains(text \o content, Escape)
        BY <1>1, <2>1, <2>3, <3>1, ContainsConcat DEF WellFormed, Marked
      <3>3. text \o content \in Seq(Int)
        BY <1>1, <2>1
      <3>4. WellFormed(text \o content)
        BY <3>2, <3>3 DEF WellFormed, Contains
      <3> QED
        BY <1>1, <2>1, <2>3, <3>2, <3>4 DEF Marked, Shown
    <2> QED
      BY <2>2, <2>3
  <1>4. CASE Marked(text) /\ content = <<Escape>>
    <2>1. text \o content = Append(text, Escape) /\ content \in Seq(Int) /\ content # <<>>
          /\ Last(content) = Escape
      BY <1>1, <1>4 DEF Last
    <2> QED
      BY <1>1, <1>4, <2>1, ShownGrows, Zenon DEF Marked
  <1>5. CASE Marked(text) /\ content = <<Escape, w>>
    <2> DEFINE t == Append(text, Escape)
    <2>1. text \o content = Append(t, w) /\ content \in Seq(Int) /\ content # <<>>
          /\ Last(content) = w
      BY <1>1, <1>5 DEF Last
    <2>2. WellFormed(t) /\ Marked(t) /\ Shown(t) = Shown(text) /\ Shown(text) \in Seq(Int)
      BY <1>1, <1>5, ShownGrows, Zenon DEF Marked
    <2> HIDE DEF t
    <2>3. /\ WellFormed(Append(t, w)) /\ Marked(Append(t, w))
          /\ Shown(Append(t, w)) = Append(Shown(t), w)
      BY <1>1, <2>2, ShownGrows, Zenon DEF Marked
    <2> QED
      BY <1>5, <2>1, <2>2, <2>3, Zenon
  <1> QED
    BY <1>2, <1>3, <1>4, <1>5 DEF Chunk

\* A text ends with what was put after it.
LEMMA LastOfConcat ==
    ASSUME NEW text \in Seq(Int), NEW content \in Seq(Int), content # <<>>
    PROVE  Last(text \o content) = Last(content) /\ text \o content # <<>>
  BY DEF Last

\* What an open stream has of a text of which no escape was shown.
Follows(text, buffer, emitted) ==
    /\ text = <<>> => buffer = <<>>
    /\ Marked(buffer) => buffer = text /\ Last(text) # Escape
    /\ emitted = IF Marked(buffer) THEN Shown(text) ELSE buffer

\* What is visible grows by the word, as long as no escape is shown.
LEMMA VisibleGrows ==
    ASSUME NEW text, WellFormed(text), NEW w \in Int \ {Escape, Marker}, NEW content,
           Chunk(text, w, content), NEW buffer \in Seq(Int), NEW emitted,
           Follows(text, buffer, emitted)
    PROVE  \E d \in Seq(Int) :
              /\ Visible(buffer \o content) = emitted \o d
              /\ \/ Contains(d, Escape)
                 \/ /\ d = IF Last(content) = w THEN <<w>> ELSE <<>>
                    /\ Follows(text \o content, buffer \o content, emitted \o d)
  <1> USE DEF Follows
  <1>1. /\ text \in Seq(Int) /\ Escape \in Int \ {Marker} /\ Marker \in Int
        /\ w # Escape /\ w # Marker /\ w \in Int
    BY DEF WellFormed, Escape, Marker
  <1>0. /\ content \in {<<Marker>>, <<w>>, <<Escape>>, <<Escape, w>>}
        /\ Last(<<w>>) = w /\ Last(<<Escape, w>>) = w
        /\ <<w>> \in Seq(Int) /\ <<Escape>> \in Seq(Int)
    BY <1>1 DEF Last, Chunk
  <1>2. /\ WellFormed(text \o content) /\ content \in Seq(Int) /\ content # <<>>
        /\ Shown(text) \in Seq(Int)
        /\ Shown(text \o content)
              = IF Last(content) = w THEN Append(Shown(text), w) ELSE Shown(text)
    BY TextGrows
  <1>3. Last(text \o content) = Last(content) /\ text \o content # <<>>
    BY <1>1, <1>2, LastOfConcat
  <1>4. CASE text = <<>> /\ content = <<Marker>>
    <2>1. buffer = <<>> /\ ~Marked(buffer) /\ emitted = <<>> /\ buffer \o content = content
          /\ text \o content = content
      BY <1>2, <1>4, ContainsConcat DEF Marked, Contains
    <2>2. Visible(content) = <<>> /\ Last(content) # w /\ Last(content) # Escape
          /\ Marked(content) /\ Shown(content) = <<>>
      <3>1. Last(content) = Marker
        BY <1>4 DEF Last
      <3> QED
        BY <1>1, <1>4, <3>1, MarkerAlone, VisibleIs DEF Marked
    <2>3. <<>> \in Seq(Int) /\ <<>> \o <<>> = <<>>
      OBVIOUS
    <2> WITNESS <<>> \in Seq(Int)
    <2> QED
      BY <2>1, <2>2, <2>3, Zenon
  <1>5. CASE Marked(buffer) /\ content # <<Marker>>
    <2>1. buffer = text /\ emitted = Shown(text) /\ Marked(text)
      BY <1>5
    <2>2. Marked(text \o content)
      BY <2>1, TextGrows
    <2>3. CASE Last(content) = w
      <3>1. Visible(text \o content) = Shown(text \o content)
        BY <1>1, <1>2, <1>3, <2>3, VisibleIs
      <3>2. <<w>> \in Seq(Int) /\ Append(Shown(text), w) = Shown(text) \o <<w>>
        BY <1>0, <1>1, <1>2, AppendIsConcat, SMTT(30)
      <3> WITNESS <<w>> \in Seq(Int)
      <3> QED
        BY <1>1, <1>2, <1>3, <2>1, <2>2, <2>3, <3>1, <3>2, Zenon
    <2>4. CASE Last(content) # w
      <3>1. content = <<Escape>>
        BY <1>0, <1>5, <2>4
      <3>2. text \o content = Append(text, Escape) /\ <<Escape>> \in Seq(Int)
        BY <1>1, <3>1
      <3>3. Visible(text \o content) = Append(Shown(text), Escape)
        BY <2>1, <3>2, VisibleEscape DEF Marked
      <3>4. Append(Shown(text), Escape) = Shown(text) \o <<Escape>>
        BY <1>1, <1>2, AppendIsConcat
      <3>5. Contains(<<Escape>>, Escape)
        BY <1>1, ContainsConcat
      <3>6. <<Escape>> \in Seq(Int)
        BY <1>0
      <3> USE <3>6
      <3> WITNESS <<Escape>> \in Seq(Int)
      <3> QED
        BY <2>1, <3>1, <3>3, <3>4, <3>5, Zenon
    <2> QED
      BY <2>3, <2>4
  <1>6. CASE ~Marked(buffer) /\ content # <<Marker>>
    <2>1. ~Marked(content)
      <3>1. /\ ~Contains(<<w>>, Marker) /\ ~Contains(<<Escape>>, Marker)
            /\ ~Contains(<<Escape, w>>, Marker)
        BY <1>1 DEF Contains, Escape, Marker
      <3> QED
        BY <1>0, <1>6, <3>1 DEF Marked
    <2>2. ~Marked(buffer \o content) /\ emitted = buffer
      BY <1>1, <1>2, <1>6, <2>1, ContainsConcat DEF Marked
    <2>3. Visible(buffer \o content) = emitted \o content
      BY <2>2 DEF Visible, Marked
    <2>4. Contains(content, Escape) \/ (content = <<w>> /\ Last(content) = w)
      <3>1. Contains(<<Escape>>, Escape) /\ Contains(<<Escape, w>>, Escape) /\ Last(<<w>>) = w
        BY <1>1 DEF Contains, Last
      <3> QED
        BY <1>0, <1>6, <3>1
    <2>5. content \in Seq(Int)
      BY <1>2
    <2> WITNESS content \in Seq(Int)
    <2> QED
      BY <1>3, <2>2, <2>3, <2>4, Zenon
  <1>7. content = <<Marker>> => text = <<>>
    BY <1>1 DEF Chunk
  <1> QED
    BY <1>4, <1>5, <1>6, <1>7, Zenon

-----------------------------------------------------------------------------
(***************************************************************************)
(* The types.                                                              *)
(***************************************************************************)

\* What is visible of a text is a text.
LEMMA VisibleType ==
    ASSUME NEW text \in Seq(Int)
    PROVE  Visible(text) \in Seq(Int)
  <1>1. CASE ~Contains(text, Marker)
    BY <1>1 DEF Visible
  <1>2. CASE Contains(text, Marker)
    <2> DEFINE at == CHOOSE i \in DOMAIN text : text[i] = Marker
               raw == SubSeq(text, at + 1, Len(text))
    <2>1. DOMAIN text = 1..Len(text)
      OBVIOUS
    <2>2. at \in 1..Len(text)
      BY <1>2, <2>1 DEF Contains
    <2> HIDE DEF at
    <2>3. raw \in Seq(Int)
      BY <2>2
    <2>4. Argument(text) = raw
      BY DEF Argument, at
    <2> HIDE DEF raw
    <2>5. Unescaped(raw) \in Seq(Int)
      <3>1. CASE raw = <<>>
        BY <3>1 DEF Unescaped
      <3>2. CASE raw # <<>>
        <4>1. Front(raw) \in Seq(Int) /\ Last(raw) \in Int
          BY <2>3, <3>2, FrontFacts
        <4>2. Plain[Front(raw)] \in Seq(Int)
          BY <4>1, PlainIs
        <4> QED
          BY <3>2, <4>1, <4>2 DEF Unescaped
      <3> QED
        BY <3>1, <3>2
    <2> QED
      BY <1>2, <2>4, <2>5 DEF Visible
  <1> QED
    BY <1>1, <1>2

\* What the agent writes at once is a text, and not empty.
LEMMA ContentsType ==
    ASSUME agent.written \in Nat, NEW content \in Contents
    PROVE  content \in Seq(Int) /\ content # <<>> /\ Words(content) \in {0, 1}
  <1> DEFINE w == agent.written + 1
  <1>1. content \in {<<Marker>>, <<w>>, <<Escape>>, <<Escape, w>>} /\ w \in Int
    BY DEF Contents
  <1>2. Marker \in Int /\ Escape \in Int
    BY DEF Marker, Escape
  <1>3. Words(content) \in {0, 1}
    BY DEF Words
  <1> HIDE DEF w
  <1>4. \A x, y \in Int : /\ <<x>> \in Seq(Int) /\ <<x>> # <<>>
                          /\ <<x, y>> \in Seq(Int) /\ <<x, y>> # <<>>
    OBVIOUS
  <1> QED
    BY <1>1, <1>2, <1>3, <1>4

\* consume_stream_content() keeps a state of its type and returns a text.
LEMMA ConsumedType ==
    ASSUME NEW s \in StreamStates, NEW content \in Seq(Int)
    PROVE  Consumed(s, content).state \in StreamStates /\ Consumed(s, content).text \in Seq(Int)
  <1> DEFINE buffer == s.buffer \o content
             visible == Visible(buffer)
  <1>1. buffer \in Seq(Int) /\ s.emitted \in Seq(Int)
    BY DEF StreamStates
  <1>2. visible \in Seq(Int)
    BY <1>1, VisibleType
  <1> HIDE DEF buffer, visible
  <1>3. [s EXCEPT !.buffer = buffer] \in StreamStates
        /\ [buffer |-> buffer, emitted |-> visible, any |-> TRUE] \in StreamStates
    BY <1>1, <1>2 DEF StreamStates
  <1>4. SubSeq(visible, Len(s.emitted) + 1, Len(visible)) \in Seq(Int) /\ <<>> \in Seq(Int)
    BY <1>1, <1>2
  <1> QED
    BY <1>3, <1>4 DEF Consumed, buffer, visible

\* What is still to be sent is a text.
LEMMA FinalReplyType ==
    ASSUME NEW s \in StreamStates, NEW final \in Seq(Int)
    PROVE  FinalReply(final, s) \in Seq(Int)
  BY DEF FinalReply, StreamStates

\* A subscriber stays one, and a chunk is queued or counted as dropped.
LEMMA PutType ==
    ASSUME NEW s \in Subscribers, NEW chunk \in Chunks
    PROVE  /\ Put(s, chunk) \in Subscribers
           /\ Put(s, chunk).open = s.open
           /\ ~s.open => Put(s, chunk) = s
           /\ \/ /\ Put(s, chunk).queue = Append(s.queue, chunk)
                 /\ Put(s, chunk).dropped = s.dropped
              \/ /\ Put(s, chunk).queue = s.queue
                 /\ \/ ~s.open
                    \/ Put(s, chunk).dropped = s.dropped \cup ({chunk.is} \ {"note"})
  <1>1. chunk.is \in {"delta", "note", "sentinel"} /\ s.queue \in Seq(Chunks)
        /\ s.dropped \in SUBSET {"delta", "sentinel"} /\ s.open \in BOOLEAN
    BY DEF Chunks, Subscribers
  <1>2. CASE ~s.open
    BY <1>2 DEF Put
  <1>3. CASE s.open /\ Len(s.queue) < QueueSize
    <2>1. /\ Put(s, chunk) = [s EXCEPT !.queue = Append(@, chunk)]
          /\ Append(s.queue, chunk) \in Seq(Chunks)
      BY <1>1, <1>3 DEF Put
    <2> QED
      BY <1>1, <1>3, <2>1 DEF Subscribers
  <1>4. CASE s.open /\ ~(Len(s.queue) < QueueSize)
    <2>1. Put(s, chunk) = [s EXCEPT !.dropped = @ \cup ({chunk.is} \ {"note"})]
      BY <1>4 DEF Put
    <2>2. s.dropped \cup ({chunk.is} \ {"note"}) \in SUBSET {"delta", "sentinel"}
      BY <1>1
    <2> QED
      BY <1>1, <1>4, <2>1, <2>2 DEF Subscribers
  <1> QED
    BY <1>1, <1>2, <1>3, <1>4

\* The constants of the chunks are well typed.
LEMMA ChunkTypes ==
    /\ Note \in Chunks /\ Sentinel \in Chunks /\ Note.text = <<>> /\ Sentinel.text = <<>>
    /\ \A text \in Seq(Int) : Delta(text) \in Chunks
    /\ NoQueue \in Subscribers /\ [NoQueue EXCEPT !.open = TRUE] \in Subscribers
    /\ NoState \in StreamStates
  <1>1. <<>> \in Seq(Int) /\ <<>> \in Seq(Chunks) /\ {} \in SUBSET {"delta", "sentinel"}
    OBVIOUS
  <1>2. Note \in Chunks /\ Sentinel \in Chunks /\ Note.text = <<>> /\ Sentinel.text = <<>>
    BY <1>1 DEF Note, Sentinel, Chunks
  <1>3. \A text \in Seq(Int) : Delta(text) \in Chunks
    BY DEF Delta, Chunks
  <1>4. NoQueue \in Subscribers /\ [NoQueue EXCEPT !.open = TRUE] \in Subscribers
    BY <1>1 DEF NoQueue, Subscribers
  <1>5. NoState \in StreamStates
    BY <1>1 DEF NoState, StreamStates
  <1> QED
    BY <1>2, <1>3, <1>4, <1>5

\* The initial state is well typed.
LEMMA InitType == Init => TypeOK
  <1> SUFFICES ASSUME Init PROVE TypeOK
    OBVIOUS
  <1>1. /\ 0 \in 0..MaxSends /\ 0 \in 0..MaxMessages /\ 0 \in 0..MaxTries
        /\ 0 \in 0..MaxPieces /\ 0 \in 0..MaxSteps
    BY ConstantsAssumption
  <1>2. Assistant(0) \in Messages /\ <<>> \in Seq(Int)
    BY <1>1 DEF Assistant, Messages
  <1> QED
    BY <1>1, <1>2, ChunkTypes
       DEF Init, TypeOK, Statuses, Fresh, NoEvents, NoView, NoHistory, Chats, RunStates, Agents,
           Readers, Views

\* What a chunk of the stream leaves.
LEMMA ResetType ==
    ASSUME NEW s \in StreamStates
    PROVE  ResetTurn(s) \in StreamStates
  <1>1. <<>> \in Seq(Int)
    OBVIOUS
  <1> QED
    BY <1>1 DEF ResetTurn, StreamStates

\* A chunk that is handled leaves the run and the subscriber well typed.
LEMMA HandledType ==
    ASSUME TypeOK, NEW chunk \in Chunks, Handled(chunk)
    PROVE  run' \in RunStates /\ sub' \in Subscribers
  <1>1. run.parts \in Seq(Int) /\ chunk.text \in Seq(Int) /\ sub \in Subscribers
    BY DEF TypeOK, Chunks, RunStates
  <1>2. run.parts \o chunk.text \in Seq(Int)
    BY <1>1
  <1>3. run' \in RunStates
    BY <1>2 DEF Handled, TypeOK, RunStates
  <1> QED
    BY <1>1, <1>3, PutType DEF Handled

\* So does an ActionEvent.
LEMMA ActionEventType ==
    ASSUME TypeOK, ActionEvent
    PROVE  reader' \in Readers /\ run' \in RunStates /\ sub' \in Subscribers
  <1>1. ResetTurn(reader.state) \in StreamStates
    BY ResetType DEF TypeOK, Readers
  <1>2. reader' \in Readers
    BY <1>1 DEF ActionEvent, TypeOK, Readers
  <1>3. CASE Handled(Note)
    BY <1>2, <1>3, HandledType, ChunkTypes
  <1>4. CASE UNCHANGED <<run, sub>>
    BY <1>2, <1>4 DEF TypeOK
  <1> QED
    BY <1>3, <1>4 DEF ActionEvent

\* The steps of the agent keep the types.
LEMMA AgentStepType ==
    ASSUME TypeOK, AgentStep
    PROVE  TypeOK'
  <1>1. /\ agent.written \in Nat /\ agent.text \in Seq(Int) /\ reader.state \in StreamStates
        /\ sub \in Subscribers /\ MaxPieces \in Nat /\ MaxSteps \in Nat /\ agent.steps \in Nat
    BY ConstantsAssumption DEF TypeOK, Agents, Readers
  <1>2. ASSUME NEW content \in Contents, Writes(content) PROVE TypeOK'
    <2>1. content \in Seq(Int) /\ Words(content) \in {0, 1}
      BY <1>1, ContentsType
    <2> DEFINE consumed == Consumed(reader.state, content)
    <2>2. consumed.state \in StreamStates /\ consumed.text \in Seq(Int)
      BY <1>1, <2>1, ConsumedType
    <2> HIDE DEF consumed
    <2>3. /\ agent.text \o content \in Seq(Int)
          /\ agent.written + Words(content) \in 0..MaxPieces
      BY <1>1, <1>2, <2>1 DEF Writes
    <2>4. agent' \in Agents /\ UNCHANGED <<chat, view, history>>
      BY <1>2, <2>3 DEF Writes, TypeOK, Agents
    <2>5. CASE reader.socket = "open"
      <3>1. reader' \in Readers
        BY <1>2, <2>2, <2>5 DEF Writes, consumed, TypeOK, Readers
      <3>2. CASE consumed.text = <<>>
        <4>1. UNCHANGED <<run, sub>>
          BY <1>2, <2>5, <3>2 DEF Writes, consumed
        <4> QED
          BY <2>4, <3>1, <4>1 DEF TypeOK
      <3>3. CASE consumed.text # <<>>
        <4>1. Handled(Delta(consumed.text))
          BY <1>2, <2>5, <3>3 DEF Writes, consumed
        <4>2. Delta(consumed.text) \in Chunks
          BY <2>2, ChunkTypes
        <4>3. run' \in RunStates /\ sub' \in Subscribers
          BY <4>1, <4>2, HandledType
        <4> QED
          BY <2>4, <3>1, <4>3 DEF TypeOK
      <3> QED
        BY <3>2, <3>3
    <2>6. CASE reader.socket # "open"
      <3>1. UNCHANGED <<reader, run, sub>>
        BY <1>2, <2>6 DEF Writes
      <3> QED
        BY <2>4, <3>1 DEF TypeOK
    <2> QED
      BY <2>5, <2>6
  <1>3. CASE Acts
    <2>1. agent.steps + 1 \in 0..MaxSteps /\ <<>> \in Seq(Int)
      BY <1>1, <1>3 DEF Acts
    <2>2. agent' \in Agents /\ UNCHANGED <<chat, view, history>>
      BY <1>3, <2>1 DEF Acts, TypeOK, Agents
    <2> QED
      BY <1>3, <2>2, ActionEventType DEF Acts, TypeOK
  <1>4. CASE FinishesWithText
    <2>1. Visible(agent.text) \in Seq(Int)
      BY <1>1, VisibleType
    <2>2. agent' \in Agents /\ UNCHANGED <<chat, view, history>>
      BY <1>4, <2>1 DEF FinishesWithText, TypeOK, Agents
    <2>3. CASE UNCHANGED <<reader, run, sub>>
      BY <2>2, <2>3 DEF TypeOK
    <2> QED
      BY <1>4, <2>2, <2>3, ActionEventType DEF FinishesWithText, TypeOK
  <1>5. ASSUME NEW n \in 1..MaxPieces, FinishesWithAction(n) PROVE TypeOK'
    <2>1. [i \in 1..n |-> agent.written + i] \in Seq(Int)
      BY <1>1
    <2>2. agent' \in Agents /\ UNCHANGED <<chat, view, history>>
      BY <1>5, <2>1 DEF FinishesWithAction, TypeOK, Agents
    <2> QED
      BY <1>5, <2>2, ActionEventType DEF FinishesWithAction, TypeOK
  <1> QED
    BY <1>2, <1>3, <1>4, <1>5 DEF AgentStep

\* The steps of the engine keep the types.
LEMMA EngineStepType ==
    ASSUME TypeOK, EngineStep
    PROVE  TypeOK'
  <1>1. CASE SocketOpens \/ SocketEnds
    <2>1. reader' \in Readers
      BY <1>1 DEF SocketOpens, SocketEnds, Socket, TypeOK, Readers
    <2> QED
      BY <1>1, <2>1 DEF SocketOpens, SocketEnds, TypeOK
  <1>2. CASE SocketFails
    <2>1. reader' \in Readers
      BY <1>2 DEF SocketFails, Socket, TypeOK, Readers
    <2>2. run' \in RunStates /\ sub' \in Subscribers
      BY <1>2, HandledType, ChunkTypes DEF SocketFails
    <2> QED
      BY <1>2, <2>1, <2>2 DEF SocketFails, TypeOK
  <1>3. CASE PollsEvents
    <2>1. ResetTurn(reader.state) \in StreamStates
      BY ResetType DEF TypeOK, Readers
    <2>2. reader' \in Readers
      BY <1>3, <2>1 DEF PollsEvents, TypeOK, Readers
    <2>3. run' \in RunStates /\ sub' \in Subscribers
      BY <1>3, HandledType, ChunkTypes DEF PollsEvents
    <2> QED
      BY <1>3, <2>2, <2>3 DEF PollsEvents, TypeOK
  <1>4. CASE TurnDone
    <2>1. FinalReply(agent.final, reader.state) \in Seq(Int)
      BY FinalReplyType DEF TypeOK, Agents, Readers
    <2>2. run' \in RunStates
      BY <1>4, <2>1 DEF TurnDone, TypeOK, RunStates
    <2> QED
      BY <1>4, <2>2 DEF TurnDone, TypeOK
  <1> QED
    BY <1>1, <1>2, <1>3, <1>4 DEF EngineStep

\* The end of a run keeps the types.
LEMMA FinallyType ==
    ASSUME TypeOK, NEW status \in Statuses, NEW result \in {"completed", "failed", "cancelled"},
           NEW last \in Subscribers, Finally(status, result, last)
    PROVE  /\ chat' \in Chats /\ run' \in RunStates /\ agent' \in Agents /\ reader' \in Readers
           /\ sub' \in Subscribers
  <1>1. <<>> \in Seq(Int) /\ 0 \in 0..MaxPieces /\ 0 \in 0..MaxSteps
    BY ConstantsAssumption
  <1>2. chat' \in Chats
    BY DEF Finally, TypeOK, Chats
  <1>3. run' \in RunStates
    BY <1>1 DEF Finally, TypeOK, RunStates
  <1>4. agent' \in Agents /\ reader' \in Readers
    BY <1>1, ChunkTypes DEF Finally, Fresh, NoEvents, Agents, Readers
  <1>5. sub' \in Subscribers
    BY PutType, ChunkTypes DEF Finally
  <1> QED
    BY <1>2, <1>3, <1>4, <1>5

\* A chat with one message more is a chat.
LEMMA StoredType ==
    ASSUME NEW c \in Chats, NEW message \in Messages
    PROVE  Stored(c, message) \in Chats
  <1>1. c.count \in 0..MaxMessages /\ MaxMessages \in Nat
    BY ConstantsAssumption DEF Chats
  <1>2. (IF c.count < MaxMessages THEN c.count + 1 ELSE c.count) \in 0..MaxMessages
    BY <1>1
  <1> QED
    BY <1>2 DEF Stored, Chats

\* The steps of a run keep the types.
LEMMA RunStepType ==
    ASSUME TypeOK, RunStep
    PROVE  TypeOK'
  <1>1. CASE Begins
    <2>1. <<>> \in Seq(Int) /\ 0 \in 0..MaxPieces /\ 0 \in 0..MaxSteps
      BY ConstantsAssumption
    <2>2. run' \in RunStates /\ chat' \in Chats
      BY <1>1 DEF Begins, TypeOK, RunStates, Chats, Statuses
    <2>3. agent' \in Agents
      BY <1>1, <2>1 DEF Begins, Fresh, Agents
    <2>4. sub' \in Subscribers
      BY <1>1, PutType, ChunkTypes DEF Begins, TypeOK
    <2> QED
      BY <1>1, <2>2, <2>3, <2>4 DEF Begins, TypeOK
  <1>2. CASE Emits
    <2>1. run.rest \in Seq(Int) /\ run.rest # <<>> /\ run.parts \in Seq(Int)
      BY <1>2 DEF Emits, TypeOK, RunStates
    <2>2. /\ Head(run.rest) \in Int /\ Tail(run.rest) \in Seq(Int)
          /\ Append(run.parts, Head(run.rest)) \in Seq(Int)
          /\ <<Head(run.rest)>> \in Seq(Int)
      BY <2>1
    <2>3. run' \in RunStates
      BY <1>2, <2>2 DEF Emits, TypeOK, RunStates
    <2>4. sub' \in Subscribers
      BY <1>2, <2>2, PutType, ChunkTypes DEF Emits, TypeOK
    <2> QED
      BY <1>2, <2>3, <2>4 DEF Emits, TypeOK
  <1>3. CASE Stores
    <2>1. run' \in RunStates
      BY <1>3 DEF Stores, TypeOK, RunStates
    <2>2. Assistant(run.of) \in Messages
      BY DEF Assistant, Messages, TypeOK, RunStates
    <2>3. chat' \in Chats
      BY <1>3, <2>2, StoredType DEF Stores, TypeOK
    <2>4. sub' \in Subscribers
      BY <1>3, PutType, ChunkTypes DEF Stores, TypeOK
    <2> QED
      BY <1>3, <2>1, <2>3, <2>4 DEF Stores, TypeOK
  <1>4. CASE Completes
    BY <1>4, FinallyType DEF Completes, TypeOK, Statuses
  <1>5. CASE Raises
    <2>1. Put(sub, Note) \in Subscribers
      BY PutType, ChunkTypes DEF TypeOK
    <2> QED
      BY <1>5, <2>1, FinallyType DEF Raises, TypeOK, Statuses
  <1>6. CASE Cancelled
    <2>1. view' \in Views
      BY <1>6 DEF Cancelled, TypeOK, Views
    <2> QED
      BY <1>6, <2>1, FinallyType DEF Cancelled, TypeOK, Statuses
  <1> QED
    BY <1>1, <1>2, <1>3, <1>4, <1>5, <1>6 DEF RunStep

\* The steps of the browser keep the types.
LEMMA BrowserStepType ==
    ASSUME TypeOK, BrowserStep
    PROVE  TypeOK'
  <1>0. /\ <<>> \in Seq(Int) /\ 0 \in 0..MaxTries /\ view.send \in 0..MaxSends /\ MaxSends \in Nat
        /\ view.tries \in 0..MaxTries /\ MaxTries \in Nat
    BY ConstantsAssumption DEF TypeOK, Views
  <1>1. CASE Asks
    <2>1. view.send + 1 \in 0..MaxSends
      BY <1>0, <1>1 DEF Asks
    <2>2. view' \in Views
      <3>1. Assistant(0) \in Messages /\ 0 \in 0..MaxMessages
        BY ConstantsAssumption DEF Assistant, Messages
      <3>2. chat.count \in 0..MaxMessages /\ view.stopping \in BOOLEAN
        BY DEF TypeOK, Views, Chats
      <3>3. PICK baseline \in 0..MaxMessages :
                view' = [NoView EXCEPT !.at = "asking", !.send = view.send + 1,
                                       !.baseline = baseline, !.stopping = view.stopping]
        BY <1>1, <3>1, <3>2 DEF Asks
      <3>4. NoView \in Views
        BY <1>0, <3>1 DEF NoView, Views, Statuses
      <3> QED
        BY <2>1, <3>2, <3>3, <3>4 DEF Views
    <2>3. history' \in [refused : BOOLEAN, unposted : BOOLEAN, missed : BOOLEAN, early : BOOLEAN]
      BY <1>1 DEF Asks, NoHistory
    <2> QED
      BY <1>1, <2>2, <2>3 DEF Asks, TypeOK
  <1>2. CASE Posts
    <2>1. User(view.send) \in Messages
      BY <1>0 DEF User, Messages
    <2>2. chat' \in Chats
      BY <1>2, <2>1, StoredType DEF Posts, TypeOK
    <2>3. view' \in Views
      BY <1>2, SMTT(30) DEF Posts, TypeOK, Views
    <2>5. history' \in [refused : BOOLEAN, unposted : BOOLEAN, missed : BOOLEAN, early : BOOLEAN]
      BY <1>2 DEF Posts, TypeOK
    <2>4. CASE Executing
      <3>1. UNCHANGED <<run, sub>>
        BY <1>2, <2>4 DEF Posts
      <3> QED
        BY <1>2, <2>2, <2>3, <2>5, <3>1 DEF Posts, TypeOK
    <2>6. CASE ~Executing
      <3>1. run' = [of |-> view.send, at |-> "created", parts |-> <<>>, rest |-> <<>>,
                    result |-> "none"] /\ Subscribes
        BY <1>2, <2>6 DEF Posts
      <3>2. run' \in RunStates
        BY <1>0, <3>1 DEF RunStates
      <3>3. sub' \in Subscribers
        BY <3>1, ChunkTypes DEF Subscribes
      <3> QED
        BY <1>2, <2>2, <2>3, <2>5, <3>2, <3>3 DEF Posts, TypeOK
    <2> QED
      BY <2>4, <2>6
  <1>3. CASE Reads
    <2>1. /\ sub.queue \in Seq(Chunks) /\ sub.queue # <<>> /\ view.shown \in Seq(Int)
      BY <1>3 DEF Reads, TypeOK, Subscribers, Views
    <2>2. Head(sub.queue) \in Chunks /\ Tail(sub.queue) \in Seq(Chunks)
      BY <2>1
    <2>3. sub' \in Subscribers
      BY <1>3, <2>2 DEF Reads, Passes, NextChunk, TypeOK, Subscribers
    <2>4. Head(sub.queue).text \in Seq(Int)
      BY <2>2 DEF Chunks
    <2>5. view.shown \o Head(sub.queue).text \in Seq(Int)
      BY <2>1, <2>4
    <2>6. view' \in Views
      <3>1. CASE NextChunk = Sentinel
        BY <1>3, <3>1 DEF Reads, TypeOK, Views
      <3>2. CASE NextChunk # Sentinel
        BY <1>3, <2>5, <3>2 DEF Reads, NextChunk, TypeOK, Views
      <3> QED
        BY <3>1, <3>2
    <2> QED
      BY <1>3, <2>3, <2>6 DEF Reads, TypeOK
  <1>4. CASE Disconnects \/ Stops
    <2>1. view' \in Views
      <3>1. CASE Disconnects
        BY <1>0, <3>1 DEF Disconnects, TypeOK, Views
      <3>2. CASE Stops
        BY <1>0, <3>2 DEF Stops, TypeOK, Views
      <3> QED
        BY <1>4, <3>1, <3>2
    <2>2. sub' \in Subscribers
      BY <1>4, ChunkTypes DEF Disconnects, Stops, Leaves
    <2> QED
      BY <1>4, <2>1, <2>2 DEF Disconnects, Stops, TypeOK
  <1>5. CASE Reloads
    <2>1. view' \in Views
      BY <1>0, <1>5 DEF Reloads, TypeOK, Views, Chats, Messages
    <2>2. sub' \in Subscribers
      BY <1>5, ChunkTypes DEF Reloads, Leaves
    <2>3. history' \in [refused : BOOLEAN, unposted : BOOLEAN, missed : BOOLEAN, early : BOOLEAN]
      BY <1>5 DEF Reloads, TypeOK
    <2> QED
      BY <1>5, <2>1, <2>2, <2>3 DEF Reloads, TypeOK
  <1>6. CASE Opens
    <2>1. view' \in Views
      BY <1>6 DEF Opens, TypeOK, Views
    <2> QED
      BY <1>6, <2>1 DEF Opens, TypeOK
  <1>7. CASE Polls
    <2>1. view.tries + 1 \in 0..MaxTries
      BY <1>0, <1>7 DEF Polls
    <2>2. view' \in Views
      <3>1. view \in Views /\ chat.latest \in Messages /\ chat.status \in Statuses
        BY DEF TypeOK, Chats
      <3>2. CASE view' = [view EXCEPT !.at = "ready", !.outcome = "failed"]
        BY <3>1, <3>2 DEF Views
      <3>3. CASE view' = [view EXCEPT !.at = "ready", !.outcome = "recovered",
                                      !.message = chat.latest, !.status = chat.status]
        BY <3>1, <3>3 DEF Views
      <3>4. CASE view' = [view EXCEPT !.tries = @ + 1]
        BY <2>1, <3>1, <3>4 DEF Views
      <3> QED
        BY <1>7, <3>2, <3>3, <3>4 DEF Polls
    <2>3. history' \in [refused : BOOLEAN, unposted : BOOLEAN, missed : BOOLEAN, early : BOOLEAN]
      BY <1>7 DEF Polls, TypeOK
    <2> QED
      BY <1>7, <2>2, <2>3 DEF Polls, TypeOK
  <1>8. CASE GivesUp
    <2>1. view' \in Views
      BY <1>8 DEF GivesUp, TypeOK, Views
    <2> QED
      BY <1>8, <2>1 DEF GivesUp, TypeOK
  <1>9. CASE PostFails
    <2>1. view' \in Views
      <3>1. view \in Views
        BY DEF TypeOK
      <3>2. CASE view' = [view EXCEPT !.at = "polling"]
        BY <3>1, <3>2 DEF Views
      <3>3. CASE view' = [view EXCEPT !.at = "ready", !.outcome = "failed"]
        BY <3>1, <3>3 DEF Views
      <3> QED
        BY <1>9, <3>2, <3>3 DEF PostFails
    <2>2. history' \in [refused : BOOLEAN, unposted : BOOLEAN, missed : BOOLEAN, early : BOOLEAN]
      BY <1>9 DEF PostFails, TypeOK
    <2> QED
      BY <1>9, <2>1, <2>2 DEF PostFails, TypeOK
  <1>10. CASE OpensBlind
    <2>1. view' \in Views
      <3>1. view \in Views
        BY DEF TypeOK
      <3>2. CASE view' = [view EXCEPT !.at = "ready", !.outcome = "blind"]
        BY <3>1, <3>2 DEF Views
      <3>3. CASE view' = [view EXCEPT !.at = "resuming"]
        BY <3>1, <3>3 DEF Views
      <3> QED
        BY <1>10, <3>2, <3>3 DEF OpensBlind
    <2> QED
      BY <1>10, <2>1 DEF OpensBlind, TypeOK
  <1>11. CASE PollFails
    <2>1. view.tries + 1 \in 0..MaxTries
      BY <1>0, <1>11 DEF PollFails
    <2>2. view' \in Views
      <3>1. view \in Views
        BY DEF TypeOK
      <3>2. CASE view' = [view EXCEPT !.tries = @ + 1]
        BY <2>1, <3>1, <3>2 DEF Views
      <3>3. CASE view' = [view EXCEPT !.at = "ready", !.outcome = "failed"]
        BY <3>1, <3>3 DEF Views
      <3> QED
        BY <1>11, <3>2, <3>3 DEF PollFails
    <2> QED
      BY <1>11, <2>2 DEF PollFails, TypeOK
  <1> QED
    BY <1>1, <1>2, <1>3, <1>4, <1>5, <1>6, <1>7, <1>8, <1>9, <1>10, <1>11 DEF BrowserStep

\* Every step keeps the types.
LEMMA NextType == TypeOK /\ [Next]_vars => TypeOK'
  <1> SUFFICES ASSUME TypeOK, [Next]_vars PROVE TypeOK'
    OBVIOUS
  <1>1. CASE UNCHANGED vars
    BY <1>1 DEF vars, TypeOK
  <1> QED
    BY <1>1, AgentStepType, EngineStepType, RunStepType, BrowserStepType DEF Next

\* Whatever the agent writes and however many messages, chunks and polls there are, every
\* reachable state has the types of TypeOK.
THEOREM TypeCorrect == Spec => []TypeOK
  <1>1. Init => TypeOK
    BY InitType
  <1>2. TypeOK /\ [Next]_vars => TypeOK'
    BY NextType
  <1> QED
    BY <1>1, <1>2, PTL DEF Spec

-----------------------------------------------------------------------------
(***************************************************************************)
(* The stored reply has the answer: StoredHasAnswer.                       *)
(***************************************************************************)

\* The state of the stream that is read.
Buffer == reader.state.buffer
Emitted == reader.state.emitted
\* A delta has ended within an escape.
Escaped == Contains(run.parts, Escape)

\* What was emitted and a final response are such that _emit_final_reply() sends the rest of
\* it, or all of it.
Fits(e, f) == StartsWith(f, e) \/ Len(e) < Len(f)

\* There is no reader before a run begins, and nothing of one whose WebSocket never opened.
ReaderOk ==
    /\ run.at \in {"none", "created"} => reader = NoEvents
    /\ reader.socket = "closed" => reader.state = NoState
    /\ ~reader.state.any => Emitted = <<>>

\* An open WebSocket has brought all of the text, or its end.
Opened ==
    /\ Follows(agent.text, Buffer, Emitted)
    /\ EndsWith(Shown(agent.text), Emitted)

\* As long as no escape was shown: what was emitted is the end of the parts, and the text of
\* the agent continues it or is longer, unless the poller is still to end it.
Streamed ==
    run.at = "streaming" /\ ~Escaped =>
        /\ EndsWith(run.parts, Emitted)
        /\ agent.at = "working" /\ reader.socket = "open" => Opened
        /\ agent.at = "working" /\ reader.socket # "open" /\ ~reader.unseen =>
              Fits(Emitted, Shown(agent.text))
        /\ agent.at = "done" /\ ~reader.unseen => Fits(Emitted, agent.final)

\* The parts have the answer, or are one of the two cases the code loses.
Answers(parts) ==
    \/ EndsWith(parts, agent.final)
    \/ Contains(parts, Escape)
    \/ reader.unseen /\ Len(agent.final) <= Len(Emitted)

\* The inductive invariant of StoredHasAnswer.
StoredInv ==
    /\ ReaderOk
    /\ WellFormed(agent.text)
    /\ Streamed
    /\ run.at = "replying" => Answers(run.parts \o run.rest)
    /\ run.at = "storing" => Answers(run.parts)

\* What _emit_final_reply() sends completes the answer when what was emitted fits.
LEMMA FitsFacts ==
    ASSUME NEW e \in Seq(Int), NEW f \in Seq(Int)
    PROVE  /\ Fits(<<>>, f)
           /\ EndsWith(f, e) => Fits(e, f)
           /\ \A x \in Int : Fits(e, f) => Fits(e, Append(f, x))
  <1>1. Len(e) \in Nat /\ Len(f) \in Nat
    OBVIOUS
  <1>2. Fits(<<>>, f)
    BY DEF Fits, StartsWith
  <1>3. EndsWith(f, e) => Fits(e, f)
    <2> SUFFICES ASSUME EndsWith(f, e), ~(Len(e) < Len(f)) PROVE StartsWith(f, e)
      BY DEF Fits
    <2>1. Len(e) = Len(f) /\ \A i \in 1..Len(e) : f[Len(f) - Len(e) + i] = e[i]
      BY <1>1 DEF EndsWith
    <2>2. \A i \in 1..Len(e) : Len(f) - Len(e) + i = i
      BY <1>1, <2>1
    <2> QED
      BY <2>1, <2>2 DEF StartsWith
  <1>4. ASSUME NEW x \in Int, Fits(e, f) PROVE Fits(e, Append(f, x))
    <2>1. Len(Append(f, x)) = Len(f) + 1 /\ \A i \in 1..Len(f) : Append(f, x)[i] = f[i]
      OBVIOUS
    <2>2. CASE Len(e) < Len(f)
      BY <1>1, <2>1, <2>2 DEF Fits
    <2>3. CASE StartsWith(f, e)
      BY <1>1, <2>1, <2>3 DEF Fits, StartsWith
    <2> QED
      BY <1>4, <2>2, <2>3 DEF Fits
  <1> QED
    BY <1>2, <1>3, <1>4

\* What consume_stream_content() returns and keeps when more is visible than before.
LEMMA ConsumedIs ==
    ASSUME NEW s \in StreamStates, NEW content \in Seq(Int), NEW d \in Seq(Int),
           Visible(s.buffer \o content) = s.emitted \o d
    PROVE  /\ Consumed(s, content).text = d
           /\ Consumed(s, content).state.buffer = s.buffer \o content
           /\ Consumed(s, content).state.emitted = s.emitted \o d
           /\ Consumed(s, content).state.any \/ (d = <<>> /\ Consumed(s, content).state.any = s.any)
  <1> DEFINE e == s.emitted
             visible == e \o d
  <1>1. e \in Seq(Int) /\ Len(e) \in Nat /\ Len(d) \in Nat
    BY DEF StreamStates
  <1>2. visible \in Seq(Int) /\ Len(visible) = Len(e) + Len(d)
        /\ \A i \in 1..Len(d) : visible[Len(e) + i] = d[i]
    BY <1>1, ConcatLike
  <1>3. CASE d = <<>>
    <2>1. visible = e
      BY <1>1, <1>3
    <2>2. Len(visible) <= Len(e)
      BY <1>1, <2>1
    <2>3. Consumed(s, content) =
              [state |-> [s EXCEPT !.buffer = s.buffer \o content], text |-> <<>>]
      BY <2>2 DEF Consumed
    <2> HIDE DEF visible, e
    <2> DEFINE more == s.buffer \o content
               n == [s EXCEPT !.buffer = more]
    <2>4. Consumed(s, content).state = n /\ Consumed(s, content).text = <<>>
      BY <2>3
    <2> HIDE DEF more
    <2>5. n.buffer = more /\ n.emitted = s.emitted /\ n.any = s.any
      BY DEF StreamStates
    <2> HIDE DEF n
    <2>6. s.emitted \o d = s.emitted
      BY <2>1 DEF visible, e
    <2> QED
      BY <1>3, <2>4, <2>5, <2>6 DEF more
  <1>4. CASE d # <<>>
    <2>1. ~(Len(visible) <= Len(e))
      BY <1>1, <1>2, <1>4
    <2>2. Consumed(s, content) =
            [state |-> [buffer |-> s.buffer \o content, emitted |-> visible, any |-> TRUE],
             text |-> SubSeq(visible, Len(e) + 1, Len(visible))]
      BY <2>1 DEF Consumed
    <2> HIDE DEF visible
    <2>3. SubSeq(visible, Len(e) + 1, Len(visible)) = d
      <3> DEFINE r == SubSeq(visible, Len(e) + 1, Len(visible))
      <3>1. r \in Seq(Int) /\ Len(r) = Len(d) /\ \A i \in 1..Len(d) : r[i] = visible[Len(e) + i]
        BY <1>1, <1>2, SMTT(30)
      <3> HIDE DEF r
      <3>2. r = d
        BY <1>2, <3>1, SeqEqual
      <3> QED
        BY <3>2 DEF r
    <2> DEFINE more == s.buffer \o content
               n == [buffer |-> more, emitted |-> visible, any |-> TRUE]
    <2>a. Consumed(s, content) = [state |-> n, text |-> d]
      BY <2>2, <2>3, Zenon
    <2>4. Consumed(s, content).state = n /\ Consumed(s, content).text = d
      BY <2>a
    <2> HIDE DEF more
    <2>5. n.buffer = more /\ n.emitted = visible /\ n.any = TRUE
      OBVIOUS
    <2> HIDE DEF n
    <2> QED
      BY <2>4, <2>5 DEF more, visible
  <1> QED
    BY <1>3, <1>4

\* A chunk without text leaves the parts as they are.
LEMMA NoteKeeps ==
    ASSUME TypeOK, Handled(Note)
    PROVE  run' = run
  <1>1. run.parts \o <<>> = run.parts /\ Note.text = <<>>
    BY ChunkTypes DEF TypeOK, RunStates
  <1>2. run' = [run EXCEPT !.parts = run.parts]
    BY <1>1, Zenon DEF Handled
  <1> QED
    BY <1>2 DEF TypeOK, RunStates

\* StoredInv is about the run, the agent and the reader only.
LEMMA StoredFrame == StoredInv /\ UNCHANGED <<run, agent, reader>> => StoredInv'
  BY DEF StoredInv, ReaderOk, Streamed, Opened, Answers, Buffer, Emitted, Escaped

\* StoredInv holds at first.
LEMMA StoredInit == Init => StoredInv
  <1> SUFFICES ASSUME Init PROVE StoredInv
    OBVIOUS
  <1>1. run.at = "none" /\ reader = NoEvents /\ agent.text = <<>>
    BY DEF Init, Fresh
  <1>2. reader.state = NoState /\ Emitted = <<>>
    BY <1>1 DEF NoEvents, NoState, Emitted
  <1> QED
    BY <1>1, <1>2, MarkerAlone DEF StoredInv, ReaderOk, Streamed

\* A run that is not streaming, replying or storing says nothing of its parts.
LEMMA StoredOther ==
    ASSUME run'.at \in {"none", "created"}, reader' = NoEvents, WellFormed(agent'.text)
    PROVE  StoredInv'
  <1>1. reader'.state = NoState /\ Emitted' = <<>>
    BY DEF NoEvents, NoState, Emitted
  <1> QED
    BY <1>1 DEF StoredInv, ReaderOk, Streamed

\* The agent writes, and a WebSocket that is open brings it.
LEMMA StoredWrites ==
    ASSUME TypeOK, StoredInv, NEW content \in Contents, Writes(content)
    PROVE  StoredInv'
  <1>0. /\ agent.written \in Nat /\ reader.state \in StreamStates /\ run.parts \in Seq(Int)
        /\ Buffer \in Seq(Int) /\ Emitted \in Seq(Int) /\ WellFormed(agent.text)
        /\ agent.text \in Seq(Int)
    BY DEF TypeOK, Agents, Readers, RunStates, StreamStates, StoredInv, Buffer, Emitted
  <1>1. PICK w \in Int \ {Escape, Marker} : Chunk(agent.text, w, content)
    BY <1>0, ContentIs DEF Marked, Chunk
  <1> DEFINE text == agent.text \o content
             grown == IF Last(content) = w THEN Append(Shown(agent.text), w) ELSE Shown(agent.text)
  <1>2. /\ WellFormed(text) /\ content \in Seq(Int) /\ content # <<>>
        /\ Shown(agent.text) \in Seq(Int) /\ Shown(text) = grown
    BY <1>0, <1>1, TextGrows
  <1>3. /\ run.at = "streaming" /\ agent.at = "working" /\ agent'.text = text
        /\ agent'.at = "working"
    BY DEF Writes, Working, TypeOK, Agents
  <1>a. text # <<>>
    BY <1>0, <1>2, LastOfConcat
  <1>4. Fits(Emitted, Shown(agent.text)) => Fits(Emitted, Shown(text))
    BY <1>0, <1>1, <1>2, FitsFacts
  <1> HIDE DEF text, grown
  <1>5. CASE reader.socket # "open"
    <2>1. UNCHANGED <<reader, run>>
      BY <1>5 DEF Writes
    <2> QED
      BY <1>2, <1>3, <1>4, <1>5, <2>1 DEF StoredInv, ReaderOk, Streamed, Buffer, Emitted, Escaped
  <1>6. CASE reader.socket = "open"
    <2> DEFINE consumed == Consumed(reader.state, content)
    <2>1. reader' = [reader EXCEPT !.state = consumed.state]
      BY <1>6 DEF Writes
    <2>2. /\ reader'.socket = "open" /\ reader'.unseen = reader.unseen
          /\ reader'.state = consumed.state
      BY <1>6, <2>1 DEF TypeOK, Readers
    <2>3. run'.at = "streaming" /\ run'.parts = run.parts \o consumed.text
      <3>1. CASE consumed.text = <<>>
        <4>1. run' = run
          BY <1>6, <3>1 DEF Writes
        <4> QED
          BY <1>0, <1>3, <3>1, <4>1
      <3>2. CASE consumed.text # <<>>
        <4>1. Handled(Delta(consumed.text))
          BY <1>6, <3>2 DEF Writes
        <4>2. run' = [run EXCEPT !.parts = run.parts \o consumed.text]
          BY <4>1, Zenon DEF Handled, Delta
        <4> QED
          BY <1>3, <4>2 DEF TypeOK, RunStates
      <3> QED
        BY <3>1, <3>2
    <2>4. CASE Escaped
      <3>1. consumed.text \in Seq(Int) /\ consumed.state \in StreamStates
        BY <1>0, <1>2, ConsumedType
      <3>2. Escaped'
        <4>1. Escape \in Int
          BY DEF Escape
        <4> HIDE DEF consumed
        <4>2. Contains(run.parts \o consumed.text, Escape)
          BY <1>0, <2>4, <3>1, <4>1, ContainsConcat DEF Escaped
        <4> QED
          BY <2>3, <4>2 DEF Escaped
      <3>3. consumed.state.any \/ consumed.state.emitted = <<>>
        <4>1. reader.state.any \/ Emitted = <<>>
          BY DEF StoredInv, ReaderOk
        <4> QED
          BY <4>1 DEF Consumed, Emitted, StreamStates
      <3> HIDE DEF consumed
      <3> QED
        BY <1>2, <1>3, <2>2, <2>3, <3>2, <3>3 DEF StoredInv, ReaderOk, Streamed, Emitted
    <2>5. CASE ~Escaped
      <3>1. Opened /\ EndsWith(run.parts, Emitted)
        BY <1>3, <1>6, <2>5 DEF StoredInv, Streamed
      <3>2. PICK d \in Seq(Int) :
              /\ Visible(Buffer \o content) = Emitted \o d
              /\ \/ Contains(d, Escape)
                 \/ /\ d = IF Last(content) = w THEN <<w>> ELSE <<>>
                    /\ Follows(text, Buffer \o content, Emitted \o d)
        <4> HIDE DEF consumed
        <4>1. Follows(agent.text, Buffer, Emitted)
          BY <3>1 DEF Opened
        <4> DEFINE t == agent.text
                   b == Buffer
                   e == Emitted
        <4>2. WellFormed(t) /\ Chunk(t, w, content) /\ b \in Seq(Int) /\ Follows(t, b, e)
              /\ w \in Int \ {Escape, Marker}
          BY <1>0, <1>1, <4>1
        <4> HIDE DEF t, b, e
        <4>3. \E d \in Seq(Int) :
              /\ Visible(b \o content) = e \o d
              /\ \/ Contains(d, Escape)
                 \/ /\ d = IF Last(content) = w THEN <<w>> ELSE <<>>
                    /\ Follows(t \o content, b \o content, e \o d)
          BY <4>2, VisibleGrows, SMTT(30)
        <4> QED
          BY <4>3 DEF text, t, b, e
      <3>3. /\ consumed.text = d
            /\ consumed.state.buffer = Buffer \o content
            /\ consumed.state.emitted = Emitted \o d
            /\ consumed.state.any \/ (d = <<>> /\ consumed.state.any = reader.state.any)
        BY <1>0, <1>2, <3>2, ConsumedIs DEF Buffer, Emitted
      <3>4. ReaderOk'
        <4>1. consumed.state.any \/ consumed.state.emitted = <<>>
          <5>1. reader.state.any \/ Emitted = <<>>
            BY DEF StoredInv, ReaderOk
          <5> HIDE DEF consumed
          <5> QED
            BY <3>3, <5>1
        <4> HIDE DEF consumed
        <4> QED
          BY <2>2, <2>3, <4>1 DEF ReaderOk, Emitted
      <3> HIDE DEF consumed
      <3>5. Emitted' = Emitted \o d /\ Buffer' = Buffer \o content /\ run'.parts = run.parts \o d
        BY <2>2, <2>3, <3>3 DEF Emitted, Buffer
      <3>6. CASE Contains(d, Escape)
        <4>1. Escaped'
          <5>1. Escape \in Int
            BY DEF Escape
          <5>2. Contains(run.parts \o d, Escape)
            BY <1>0, <3>6, <5>1, ContainsConcat
          <5> QED
            BY <3>5, <5>2 DEF Escaped
        <4> QED
          BY <1>2, <1>3, <2>3, <3>4, <4>1 DEF StoredInv, Streamed
      <3>7. CASE ~Contains(d, Escape)
        <4>1. EndsWith(run'.parts, Emitted')
          BY <1>0, <3>1, <3>2, <3>5, EndsWithConcat
        <4>2. EndsWith(Shown(text), Emitted \o d)
          <5>1. EndsWith(Shown(agent.text) \o d, Emitted \o d)
            BY <1>0, <1>2, <3>1, <3>2, EndsWithConcat DEF Opened
          <5>2. Shown(agent.text) \o d = Shown(text)
            <6>1. CASE Last(content) = w
              BY <1>1, <1>2, <3>2, <3>7, <6>1, AppendIsConcat DEF grown
            <6>2. CASE Last(content) # w
              BY <1>1, <1>2, <3>2, <3>7, <6>2, SMTT(30) DEF grown
            <6> QED
              BY <6>1, <6>2
          <5> QED
            BY <5>1, <5>2
        <4>3. Opened'
          BY <1>3, <3>2, <3>5, <3>7, <4>2 DEF Opened
        <4> QED
          BY <1>2, <1>3, <2>2, <2>3, <3>4, <4>1, <4>3 DEF StoredInv, Streamed
      <3> QED
        BY <3>6, <3>7
    <2> QED
      BY <2>4, <2>5
  <1> QED
    BY <1>5, <1>6

\* The texts of a well-typed state.
LEMMA StreamTypes ==
    ASSUME TypeOK, StoredInv
    PROVE  /\ Buffer \in Seq(Int) /\ Emitted \in Seq(Int) /\ run.parts \in Seq(Int)
           /\ run.rest \in Seq(Int) /\ agent.final \in Seq(Int) /\ agent.text \in Seq(Int)
           /\ WellFormed(agent.text) /\ Shown(agent.text) \in Seq(Int)
  <1>1. /\ Buffer \in Seq(Int) /\ Emitted \in Seq(Int) /\ run.parts \in Seq(Int)
        /\ run.rest \in Seq(Int) /\ agent.final \in Seq(Int) /\ agent.text \in Seq(Int)
    BY DEF TypeOK, Agents, Readers, RunStates, StreamStates, Buffer, Emitted
  <1>2. WellFormed(agent.text)
    BY DEF StoredInv
  <1>3. Shown(agent.text) \in Seq(Int)
    <2>1. CASE Contains(agent.text, Marker)
      <3>1. Argument(agent.text) \in Seq(Int)
        BY <1>1, <1>2, <2>1, ArgumentIs DEF WellFormed
      <3> QED
        BY <2>1, <3>1, PlainIs DEF Shown
    <2>2. CASE ~Contains(agent.text, Marker)
      BY <1>1, <2>2 DEF Shown
    <2> QED
      BY <2>1, <2>2
  <1> QED
    BY <1>1, <1>2, <1>3

\* After an ActionEvent nothing of the stream is left, or the poller is to end it.
LEMMA ActionEventLeaves ==
    ASSUME TypeOK, StoredInv, ActionEvent
    PROVE  /\ run' = run /\ reader'.socket = reader.socket
           /\ IF reader.socket = "open" THEN Buffer' = <<>> /\ Emitted' = <<>>
              ELSE reader'.unseen /\ Buffer' = Buffer /\ Emitted' = Emitted
           /\ reader'.socket = "closed" => reader'.state = NoState
           /\ ~reader'.state.any => Emitted' = <<>>
  <1>1. run' = run
    BY NoteKeeps DEF ActionEvent
  <1>2. /\ reader'.state = IF reader.socket = "open" THEN ResetTurn(reader.state) ELSE reader.state
        /\ reader'.socket = reader.socket
        /\ reader.socket = "open" \/ reader'.unseen
    BY DEF ActionEvent, TypeOK, Readers
  <1>3. ResetTurn(reader.state).buffer = <<>> /\ ResetTurn(reader.state).emitted = <<>>
    BY DEF ResetTurn, TypeOK, Readers, StreamStates
  <1> QED
    BY <1>1, <1>2, <1>3 DEF Buffer, Emitted, StoredInv, ReaderOk

\* A tool call ends the text of its completion.
LEMMA StoredActs ==
    ASSUME TypeOK, StoredInv, Acts
    PROVE  StoredInv'
  <1>1. /\ run.at = "streaming" /\ agent'.text = <<>> /\ agent'.at = "working" /\ ActionEvent
    BY DEF Acts, Working, TypeOK, Agents
  <1>2. /\ run' = run /\ reader'.socket = reader.socket
        /\ IF reader.socket = "open" THEN Buffer' = <<>> /\ Emitted' = <<>>
           ELSE reader'.unseen /\ Buffer' = Buffer /\ Emitted' = Emitted
        /\ reader'.socket = "closed" => reader'.state = NoState
        /\ ~reader'.state.any => Emitted' = <<>>
    BY <1>1, ActionEventLeaves
  <1>3. ReaderOk'
    BY <1>1, <1>2 DEF ReaderOk
  <1>4. /\ WellFormed(<<>>) /\ Shown(<<>>) = <<>> /\ ~Marked(<<>>) /\ <<>> \in Seq(Int)
        /\ EndsWith(<<>>, <<>>) /\ EndsWith(run.parts, <<>>)
    <2>1. <<>> \in Seq(Int) /\ run.parts \in Seq(Int)
      BY StreamTypes
    <2>2. EndsWith(<<>>, <<>>) /\ EndsWith(run.parts, <<>>)
      BY <2>1, EndsWithConcat
    <2>3. ~Marked(<<>>)
      BY DEF Marked, Contains
    <2> QED
      BY <2>1, <2>2, <2>3, MarkerAlone
  <1>5. EndsWith(run.parts', Emitted') \/ Escaped
    BY <1>1, <1>2, <1>4 DEF StoredInv, Streamed
  <1>6. reader'.socket = "open" => Opened'
    BY <1>1, <1>2, <1>4 DEF Opened, Follows
  <1>7. Streamed'
    BY <1>1, <1>2, <1>5, <1>6 DEF Streamed, Escaped
  <1> QED
    BY <1>1, <1>2, <1>3, <1>4, <1>7 DEF StoredInv

\* The turn ends with an ActionEvent.
LEMMA StoredFinishes ==
    ASSUME TypeOK, StoredInv, Working, ActionEvent, agent'.at = "done", agent'.text = agent.text,
           agent'.final \in Seq(Int)
    PROVE  StoredInv'
  <1>1. /\ run' = run /\ reader'.socket = reader.socket
        /\ IF reader.socket = "open" THEN Buffer' = <<>> /\ Emitted' = <<>>
           ELSE reader'.unseen /\ Buffer' = Buffer /\ Emitted' = Emitted
        /\ reader'.socket = "closed" => reader'.state = NoState
        /\ ~reader'.state.any => Emitted' = <<>>
    BY ActionEventLeaves
  <1>2. run.at = "streaming" /\ WellFormed(agent.text)
    BY DEF Working, StoredInv
  <1>3. ReaderOk'
    BY <1>1, <1>2 DEF ReaderOk
  <1>4. EndsWith(run.parts, <<>>) /\ Fits(<<>>, agent'.final)
    <2>1. <<>> \in Seq(Int)
      OBVIOUS
    <2> QED
      BY <2>1, StreamTypes, EndsWithConcat, FitsFacts
  <1>5. Streamed'
    BY <1>1, <1>2, <1>4 DEF Streamed, StoredInv, Escaped
  <1> QED
    BY <1>1, <1>2, <1>3, <1>5 DEF StoredInv

\* The steps of the agent keep StoredInv.
LEMMA StoredAgent ==
    ASSUME TypeOK, StoredInv, AgentStep
    PROVE  StoredInv'
  <1>1. CASE \E content \in Contents : Writes(content)
    BY <1>1, StoredWrites
  <1>2. CASE Acts
    BY <1>2, StoredActs
  <1>3. CASE FinishesWithText
    <2>1. /\ Working /\ agent'.at = "done" /\ agent'.text = agent.text
          /\ agent'.final = Visible(agent.text)
          /\ agent.text = <<>> \/ Last(agent.text) # Escape
      BY <1>3 DEF FinishesWithText, TypeOK, Agents
    <2>2. WellFormed(agent.text) /\ Shown(agent.text) \in Seq(Int) /\ Emitted \in Seq(Int)
      BY StreamTypes
    <2>3. agent'.final = Shown(agent.text) /\ agent'.final \in Seq(Int)
      BY <2>1, <2>2, VisibleIs
    <2>4. CASE ActionEvent
      BY <2>1, <2>3, <2>4, StoredFinishes
    <2>5. CASE UNCHANGED <<reader, run, sub>>
      <3>1. run.at = "streaming" /\ agent.at = "working"
        BY <2>1 DEF Working
      <3>2. EndsWith(Shown(agent.text), Emitted) => Fits(Emitted, Shown(agent.text))
        BY <2>2, FitsFacts
      <3>3. ~Escaped /\ ~reader.unseen => Fits(Emitted, Shown(agent.text))
        BY <3>1, <3>2 DEF StoredInv, Streamed, Opened
      <3>4. Streamed'
        BY <2>1, <2>3, <2>5, <3>1, <3>3 DEF StoredInv, Streamed, Escaped, Emitted
      <3> QED
        BY <2>1, <2>5, <3>1, <3>4 DEF StoredInv, ReaderOk, Emitted
    <2> QED
      BY <1>3, <2>4, <2>5 DEF FinishesWithText
  <1>4. ASSUME NEW n \in 1..MaxPieces, FinishesWithAction(n) PROVE StoredInv'
    <2>1. [i \in 1..n |-> agent.written + i] \in Seq(Int)
      BY ConstantsAssumption DEF TypeOK, Agents
    <2>2. /\ Working /\ ActionEvent /\ agent'.at = "done" /\ agent'.text = agent.text
          /\ agent'.final \in Seq(Int)
      BY <1>4, <2>1 DEF FinishesWithAction, TypeOK, Agents
    <2> QED
      BY <2>2, StoredFinishes
  <1> QED
    BY <1>1, <1>2, <1>3, <1>4 DEF AgentStep

\* The steps of the engine keep StoredInv.
LEMMA StoredEngine ==
    ASSUME TypeOK, StoredInv, EngineStep
    PROVE  StoredInv'
  <1>0. /\ Buffer \in Seq(Int) /\ Emitted \in Seq(Int) /\ run.parts \in Seq(Int)
        /\ agent.final \in Seq(Int) /\ WellFormed(agent.text) /\ Shown(agent.text) \in Seq(Int)
    BY StreamTypes
  <1>a. /\ EndsWith(run.parts, <<>>) /\ EndsWith(Shown(agent.text), <<>>)
        /\ Fits(<<>>, agent.final) /\ Fits(<<>>, Shown(agent.text))
        /\ EndsWith(Shown(agent.text), Emitted) => Fits(Emitted, Shown(agent.text))
        /\ ~Marked(<<>>)
    <2>1. <<>> \in Seq(Int)
      OBVIOUS
    <2>2. ~Marked(<<>>)
      BY DEF Marked, Contains
    <2> QED
      BY <1>0, <2>1, <2>2, EndsWithConcat, FitsFacts
  <1>b. NoState.buffer = <<>> /\ NoState.emitted = <<>>
    BY DEF NoState
  <1>1. CASE SocketOpens
    <2>1. /\ run.at = "streaming" /\ UNCHANGED <<run, agent>> /\ reader.socket = "closed"
          /\ reader'.socket = "open" /\ reader'.unseen = reader.unseen
          /\ reader'.state = reader.state
      BY <1>1 DEF SocketOpens, Socket, TypeOK, Readers
    <2>2. reader.state = NoState
      BY <2>1 DEF StoredInv, ReaderOk
    <2>3. Buffer' = <<>> /\ Emitted' = <<>>
      BY <1>b, <2>1, <2>2 DEF Buffer, Emitted
    <2>4. ReaderOk'
      BY <2>1, <2>3 DEF ReaderOk
    <2>5. Opened'
      BY <1>a, <2>1, <2>3 DEF Opened, Follows
    <2>6. Streamed'
      BY <1>a, <2>1, <2>3, <2>5 DEF Streamed
    <2> QED
      BY <2>1, <2>4, <2>6 DEF StoredInv
  <1>2. CASE SocketEnds \/ SocketFails
    <2>1. /\ run.at = "streaming" /\ reader.socket \in {"closed", "open"}
          /\ reader'.socket \notin {"closed", "open"} /\ reader'.unseen = reader.unseen
          /\ reader'.state = reader.state /\ agent' = agent
      BY <1>2 DEF SocketEnds, SocketFails, Socket, TypeOK, Readers
    <2>2. run' = run
      BY <1>2, NoteKeeps DEF SocketEnds, SocketFails
    <2>3. ReaderOk'
      BY <2>1, <2>2 DEF StoredInv, ReaderOk, Emitted
    <2>4. Streamed'
      BY <1>a, <2>1, <2>2 DEF StoredInv, Streamed, Opened, Escaped, Emitted
    <2> QED
      BY <2>1, <2>2, <2>3, <2>4 DEF StoredInv
  <1>3. CASE PollsEvents
    <2>1. /\ run.at = "streaming" /\ agent' = agent /\ reader.socket = "polling"
          /\ reader'.socket = "polling" /\ reader'.unseen = FALSE
          /\ reader'.state = ResetTurn(reader.state)
      BY <1>3 DEF PollsEvents, TypeOK, Readers
    <2>2. run' = run
      BY <1>3, NoteKeeps DEF PollsEvents
    <2>3. Emitted' = <<>>
      BY <2>1 DEF Emitted, ResetTurn, TypeOK, Readers, StreamStates
    <2>4. ReaderOk'
      BY <2>1, <2>2, <2>3 DEF ReaderOk
    <2>5. Streamed'
      BY <1>a, <2>1, <2>2, <2>3 DEF Streamed
    <2> QED
      BY <2>1, <2>2, <2>4, <2>5 DEF StoredInv
  <1>4. CASE TurnDone
    <2> DEFINE rest == FinalReply(agent.final, reader.state)
    <2>1. /\ run.at = "streaming" /\ agent.at = "done" /\ UNCHANGED <<agent, reader>>
          /\ run'.at = "replying" /\ run'.parts = run.parts /\ run'.rest = rest
      BY <1>4 DEF TurnDone, TypeOK, RunStates
    <2>2. rest \in Seq(Int) /\ Escape \in Int
      BY <1>0, FinalReplyType DEF TypeOK, Readers, Escape
    <2>3. Answers(run.parts \o rest)
      <3>1. CASE Escaped
        <4> HIDE DEF rest
        <4> QED
          BY <1>0, <2>2, <3>1, ContainsConcat DEF Answers, Escaped
      <3>2. CASE ~Escaped /\ rest = agent.final
        BY <1>0, <3>2, EndsWithConcat DEF Answers
      <3>3. CASE ~Escaped /\ rest # agent.final
        <4>1. EndsWith(run.parts, Emitted) /\ (~reader.unseen => Fits(Emitted, agent.final))
          BY <2>1, <3>3 DEF StoredInv, Streamed
        <4>2. CASE StartsWith(agent.final, Emitted)
          <5>1. IsPrefix(Emitted, agent.final)
            BY <1>0, <4>2, PrefixIs
          <5>2. rest = SubSeq(agent.final, Len(Emitted) + 1, Len(agent.final))
            BY <3>3, <5>1 DEF FinalReply, Emitted
          <5>3. Emitted \o rest = agent.final
            BY <1>0, <4>2, <5>2, StartsWithConcat
          <5> HIDE DEF rest
          <5>4. EndsWith(run.parts \o rest, Emitted \o rest)
            BY <1>0, <2>2, <4>1, EndsWithConcat
          <5> QED
            BY <5>3, <5>4 DEF Answers
        <4>3. CASE ~StartsWith(agent.final, Emitted)
          <5>1. ~IsPrefix(Emitted, agent.final)
            BY <1>0, <4>3, PrefixIs
          <5>2. ~(Len(agent.final) > Len(Emitted))
            BY <3>3, <5>1 DEF FinalReply, Emitted
          <5>3. Len(agent.final) <= Len(Emitted)
            BY <1>0, <5>2
          <5>4. ~Fits(Emitted, agent.final)
            BY <1>0, <4>3, <5>2 DEF Fits
          <5> QED
            BY <4>1, <5>3, <5>4 DEF Answers
        <4> QED
          BY <4>2, <4>3
      <3> QED
        BY <3>1, <3>2, <3>3
    <2> HIDE DEF rest
    <2>4. Answers(run.parts \o run.rest)'
      BY <2>1, <2>3 DEF Answers, Emitted
    <2> QED
      BY <2>1, <2>4 DEF StoredInv, ReaderOk, Streamed, Emitted
  <1> QED
    BY <1>1, <1>2, <1>3, <1>4 DEF EngineStep

\* The steps of a run keep StoredInv.
LEMMA StoredRun ==
    ASSUME TypeOK, StoredInv, RunStep
    PROVE  StoredInv'
  <1>0. /\ Buffer \in Seq(Int) /\ Emitted \in Seq(Int) /\ run.parts \in Seq(Int)
        /\ run.rest \in Seq(Int) /\ agent.final \in Seq(Int)
    BY StreamTypes
  <1>1. ASSUME NEW status, NEW result, NEW last, Finally(status, result, last) PROVE StoredInv'
    <2>1. run'.at = "none" /\ reader' = NoEvents /\ agent'.text = <<>>
      BY <1>1 DEF Finally, TypeOK, RunStates, Fresh
    <2> QED
      BY <2>1, MarkerAlone, StoredOther
  <1>2. CASE Begins
    <2>1. /\ run'.at = "streaming" /\ run'.parts = run.parts
          /\ reader' = reader /\ reader = NoEvents
          /\ agent'.at = "working" /\ agent'.text = <<>>
      BY <1>2 DEF Begins, TypeOK, RunStates, Fresh, StoredInv, ReaderOk
    <2>2. reader.socket = "closed" /\ reader.state = NoState /\ Emitted = <<>>
      BY <2>1 DEF NoEvents, NoState, Emitted
    <2>3. EndsWith(run.parts, <<>>) /\ Fits(<<>>, <<>>)
      <3>1. <<>> \in Seq(Int)
        OBVIOUS
      <3> QED
        BY <1>0, <3>1, EndsWithConcat, FitsFacts
    <2>4. Streamed'
      BY <2>1, <2>2, <2>3, MarkerAlone DEF Streamed, Emitted
    <2> QED
      BY <2>1, <2>2, <2>4, MarkerAlone DEF StoredInv, ReaderOk, Emitted
  <1>3. CASE Emits
    <2>1. /\ run.at = "replying" /\ run'.at = "replying" /\ UNCHANGED <<agent, reader>>
          /\ run'.parts = Append(run.parts, Head(run.rest)) /\ run'.rest = Tail(run.rest)
          /\ run.rest # <<>>
      BY <1>3 DEF Emits, TypeOK, RunStates
    <2>2. Append(run.parts, Head(run.rest)) \o Tail(run.rest) = run.parts \o run.rest
      <3> DEFINE p == run.parts
                 r == run.rest
      <3>1. p \in Seq(Int) /\ r \in Seq(Int) /\ r # <<>>
        BY <1>0, <2>1
      <3> HIDE DEF p, r
      <3>2. Append(p, Head(r)) \o Tail(r) = p \o r
        BY <3>1
      <3> QED
        BY <3>2 DEF p, r
    <2>3. Answers(run.parts \o run.rest)'
      BY <2>1, <2>2 DEF StoredInv, Answers, Emitted
    <2> QED
      BY <2>1, <2>3 DEF StoredInv, ReaderOk, Streamed, Emitted
  <1>4. CASE Stores
    <2>1. /\ run.at = "replying" /\ run'.at = "storing" /\ UNCHANGED <<agent, reader>>
          /\ run'.parts = run.parts /\ run.rest = <<>>
      BY <1>4 DEF Stores, TypeOK, RunStates
    <2>2. run.parts \o run.rest = run.parts
      BY <1>0, <2>1
    <2>3. Answers(run.parts)'
      BY <2>1, <2>2 DEF StoredInv, Answers, Emitted
    <2> QED
      BY <2>1, <2>3 DEF StoredInv, ReaderOk, Streamed, Emitted
  <1>5. CASE Completes \/ Raises
    BY <1>1, <1>5 DEF Completes, Raises
  <1>6. CASE Cancelled
    BY <1>1, <1>6, StoredFrame DEF Cancelled
  <1> QED
    BY <1>2, <1>3, <1>4, <1>5, <1>6 DEF RunStep

\* The steps of the browser keep StoredInv.
LEMMA StoredBrowser ==
    ASSUME TypeOK, StoredInv, BrowserStep
    PROVE  StoredInv'
  <1>1. CASE Posts /\ ~Executing
    <2>1. run.at = "none" /\ run'.at = "created" /\ UNCHANGED <<agent, reader>>
      BY <1>1 DEF Posts, Executing
    <2>2. reader = NoEvents /\ WellFormed(agent.text)
      BY <2>1 DEF StoredInv, ReaderOk
    <2> QED
      BY <2>1, <2>2, StoredOther
  <1>2. CASE ~(Posts /\ ~Executing)
    <2>1. UNCHANGED <<run, agent, reader>>
      BY <1>2
         DEF BrowserStep, Asks, Posts, PostFails, Reads, Disconnects, Stops, Reloads, Opens,
             OpensBlind, Polls, PollFails, GivesUp
    <2> QED
      BY <2>1, StoredFrame
  <1> QED
    BY <1>1, <1>2

\* Every step keeps StoredInv.
LEMMA StoredNext == TypeOK /\ StoredInv /\ [Next]_vars => StoredInv'
  <1> SUFFICES ASSUME TypeOK, StoredInv, [Next]_vars PROVE StoredInv'
    OBVIOUS
  <1>1. CASE UNCHANGED vars
    BY <1>1, StoredFrame DEF vars
  <1> QED
    BY <1>1, StoredAgent, StoredEngine, StoredRun, StoredBrowser DEF Next

\* For any text, any tool calls and any fate of the WebSocket: the reply that is stored ends
\* with the final response of the agent, except where a delta ended within an escape or the
\* poller has not ended a longer text.
THEOREM ReplyHasAnswer == Spec => []StoredHasAnswer
  <1>1. Init => TypeOK /\ StoredInv
    BY InitType, StoredInit
  <1>2. TypeOK /\ StoredInv /\ [Next]_vars => TypeOK' /\ StoredInv'
    BY NextType, StoredNext
  <1>3. TypeOK /\ StoredInv => StoredHasAnswer
    <2> SUFFICES ASSUME TypeOK, StoredInv, run.at = "storing" PROVE StoredHasAnswer
      BY DEF StoredHasAnswer
    <2>1. run.parts \in Seq(Int) /\ agent.final \in Seq(Int)
      BY StreamTypes
    <2>2. Answers(run.parts)
      BY DEF StoredInv
    <2> QED
      BY <2>1, <2>2, SuffixIs DEF Answers, StoredHasAnswer, Emitted
  <1> QED
    BY <1>1, <1>2, <1>3, PTL DEF Spec

-----------------------------------------------------------------------------
(***************************************************************************)
(* What a response shows.                                                  *)
(***************************************************************************)

\* What was shown and what is queued make up the parts, one after the other.
InOrder(shown, queue, parts) ==
    \E cut \in [0..Len(queue) -> 0..Len(parts)] :
        /\ shown = SubSeq(parts, 1, cut[0])
        /\ cut[Len(queue)] = Len(parts)
        /\ \A i \in 1..Len(queue) :
              /\ cut[i - 1] <= cut[i]
              /\ queue[i].text = SubSeq(parts, cut[i - 1] + 1, cut[i])

\* A part of a text.
LEMMA SubSeqFacts ==
    ASSUME NEW s \in Seq(Int), NEW m \in Nat, NEW n \in 0..Len(s), m <= n
    PROVE  /\ SubSeq(s, m + 1, n) \in Seq(Int) /\ Len(SubSeq(s, m + 1, n)) = n - m
           /\ \A i \in 1..n - m : SubSeq(s, m + 1, n)[i] = s[m + i]
  OBVIOUS

\* When nothing is queued, all has been shown.
LEMMA InOrderDone ==
    ASSUME NEW parts \in Seq(Int), NEW shown
    PROVE  InOrder(shown, <<>>, parts) <=> shown = parts
  <1>1. SubSeq(parts, 1, Len(parts)) = parts /\ Len(parts) \in Nat /\ Len(<<>>) = 0
    OBVIOUS
  <1>2. ASSUME InOrder(shown, <<>>, parts) PROVE shown = parts
    BY <1>1, <1>2 DEF InOrder
  <1>3. ASSUME shown = parts PROVE InOrder(shown, <<>>, parts)
    <2> DEFINE cut == [i \in 0..0 |-> Len(parts)]
    <2>1. cut \in [0..Len(<<>>) -> 0..Len(parts)] /\ cut[0] = Len(parts)
      BY <1>1
    <2>2. 1..Len(<<>>) = {}
      OBVIOUS
    <2> HIDE DEF cut
    <2> QED
      BY <1>1, <1>3, <2>1, <2>2 DEF InOrder
  <1> QED
    BY <1>2, <1>3

\* A chunk is queued with the text that the parts grow by.
LEMMA InOrderPut ==
    ASSUME NEW parts \in Seq(Int), NEW shown, NEW queue \in Seq(Chunks), NEW chunk \in Chunks,
           InOrder(shown, queue, parts)
    PROVE  InOrder(shown, Append(queue, chunk), parts \o chunk.text)
  <1> DEFINE n == Len(queue)
             text == chunk.text
             more == parts \o text
             q == Append(queue, chunk)
  <1>1. text \in Seq(Int) /\ n \in Nat /\ Len(parts) \in Nat /\ Len(text) \in Nat
    BY DEF Chunks
  <1> HIDE DEF text
  <1>2. /\ more \in Seq(Int) /\ Len(more) = Len(parts) + Len(text)
        /\ \A i \in 1..Len(parts) : more[i] = parts[i]
        /\ \A i \in 1..Len(text) : more[Len(parts) + i] = text[i]
    BY <1>1, ConcatLike
  <1>3. Len(q) = n + 1 /\ q[n + 1] = chunk /\ \A i \in 1..n : q[i] = queue[i]
    OBVIOUS
  <1>4. PICK cut \in [0..n -> 0..Len(parts)] :
        /\ shown = SubSeq(parts, 1, cut[0])
        /\ cut[n] = Len(parts)
        /\ \A i \in 1..n :
              /\ cut[i - 1] <= cut[i]
              /\ queue[i].text = SubSeq(parts, cut[i - 1] + 1, cut[i])
    BY DEF InOrder
  <1> HIDE DEF more, n, q
  <1>5. ASSUME NEW a \in 0..Len(parts), NEW b \in 0..Len(parts), a <= b
        PROVE  SubSeq(more, a + 1, b) = SubSeq(parts, a + 1, b)
    <2>1. b \in 0..Len(more) /\ a \in Nat
      BY <1>1, <1>2
    <2> DEFINE x == SubSeq(more, a + 1, b)
               y == SubSeq(parts, a + 1, b)
    <2>2. x \in Seq(Int) /\ Len(x) = b - a /\ \A i \in 1..b - a : x[i] = more[a + i]
      BY <1>2, <1>5, <2>1, SubSeqFacts
    <2>3. y \in Seq(Int) /\ Len(y) = b - a /\ \A i \in 1..b - a : y[i] = parts[a + i]
      BY <1>5, <2>1, SubSeqFacts
    <2> HIDE DEF x, y
    <2>4. ASSUME NEW i \in 1..b - a PROVE more[a + i] = parts[a + i]
      <3>1. a + i \in 1..Len(parts)
        BY <1>1, <1>5
      <3> QED
        BY <1>2, <3>1
    <2>5. x = y
      BY <2>2, <2>3, <2>4, SeqEqual, ZenonT(40)
    <2> QED
      BY <2>5 DEF x, y
  <1>6. SubSeq(more, Len(parts) + 1, Len(more)) = text
    <2> DEFINE x == SubSeq(more, Len(parts) + 1, Len(more))
    <2>1. /\ x \in Seq(Int) /\ Len(x) = Len(text)
          /\ \A i \in 1..Len(text) : x[i] = more[Len(parts) + i]
      <3>1. /\ Len(more) \in 0..Len(more) /\ Len(parts) <= Len(more)
            /\ Len(more) - Len(parts) = Len(text)
        BY <1>1, <1>2
      <3> QED
        BY <1>1, <1>2, <3>1, SubSeqFacts, SMTT(30)
    <2> HIDE DEF x
    <2>2. x = text
      BY <1>1, <1>2, <2>1, SeqEqual
    <2> QED
      BY <2>2 DEF x
  <1> DEFINE c == [i \in 0..Len(q) |-> IF i = n + 1 THEN Len(more) ELSE cut[i]]
  <1>7. \A i \in 0..n : cut[i] \in 0..Len(parts) /\ c[i] = cut[i]
    BY <1>1, <1>3, <1>4
  <1>8. c[n + 1] = Len(more) /\ c \in [0..Len(q) -> 0..Len(more)]
    <2>1. \A i \in 0..Len(q) : i = n + 1 \/ i \in 0..n
      BY <1>1, <1>3
    <2>2. \A i \in 0..Len(q) : (IF i = n + 1 THEN Len(more) ELSE cut[i]) \in 0..Len(more)
      BY <1>1, <1>2, <1>7, <2>1
    <2> QED
      BY <1>1, <1>3, <2>2
  <1> HIDE DEF c
  <1>9. shown = SubSeq(more, 1, c[0])
    <2>1. /\ 0 \in 0..n /\ cut[0] \in 0..Len(parts) /\ c[0] = cut[0]
          /\ 0 <= cut[0] /\ 0 \in 0..Len(parts)
      BY <1>1, <1>7
    <2>2. SubSeq(more, 0 + 1, cut[0]) = SubSeq(parts, 0 + 1, cut[0])
      BY <1>5, <2>1
    <2> QED
      BY <1>4, <2>1, <2>2
  <1>10. ASSUME NEW i \in 1..Len(q)
         PROVE  c[i - 1] <= c[i] /\ q[i].text = SubSeq(more, c[i - 1] + 1, c[i])
    <2>1. CASE i = n + 1
      <3>1. c[i] = Len(more) /\ c[i - 1] = Len(parts)
        BY <1>1, <1>4, <1>7, <1>8, <2>1
      <3>2. Len(parts) <= Len(more)
        BY <1>1, <1>2
      <3>3. q[i].text = text
        BY <1>3, <2>1 DEF text
      <3> QED
        BY <1>6, <3>1, <3>2, <3>3
    <2>2. CASE i # n + 1
      <3>1. i \in 1..n /\ i - 1 \in 0..n /\ i \in 0..n
        BY <1>1, <1>3, <2>2
      <3>2. c[i] = cut[i] /\ c[i - 1] = cut[i - 1] /\ cut[i] \in 0..Len(parts)
            /\ cut[i - 1] \in 0..Len(parts)
        BY <1>7, <3>1
      <3>3. cut[i - 1] <= cut[i] /\ queue[i].text = SubSeq(parts, cut[i - 1] + 1, cut[i])
        BY <1>4, <3>1
      <3>4. SubSeq(more, cut[i - 1] + 1, cut[i]) = SubSeq(parts, cut[i - 1] + 1, cut[i])
        BY <1>5, <3>2, <3>3
      <3> QED
        BY <1>3, <3>1, <3>2, <3>3, <3>4
    <2> QED
      BY <2>1, <2>2
  <1>11. InOrder(shown, q, more)
    <2>1. c[Len(q)] = Len(more)
      BY <1>3, <1>8
    <2> QED
      BY <1>8, <1>9, <1>10, <2>1 DEF InOrder
  <1> QED
    BY <1>11 DEF q, more, text

\* A chunk that is taken from the queue is shown next.
LEMMA InOrderRead ==
    ASSUME NEW parts \in Seq(Int), NEW shown, NEW queue \in Seq(Chunks), queue # <<>>,
           InOrder(shown, queue, parts)
    PROVE  InOrder(shown \o Head(queue).text, Tail(queue), parts)
  <1> DEFINE n == Len(queue)
             q == Tail(queue)
             text == Head(queue).text
  <1>1. /\ n \in Nat \ {0} /\ Len(q) = n - 1 /\ \A i \in 1..n - 1 : q[i] = queue[i + 1]
        /\ Head(queue) = queue[1] /\ Len(parts) \in Nat
    OBVIOUS
  <1>2. PICK cut \in [0..n -> 0..Len(parts)] :
        /\ shown = SubSeq(parts, 1, cut[0])
        /\ cut[n] = Len(parts)
        /\ \A i \in 1..n :
              /\ cut[i - 1] <= cut[i]
              /\ queue[i].text = SubSeq(parts, cut[i - 1] + 1, cut[i])
    BY DEF InOrder
  <1>3. text = SubSeq(parts, cut[0] + 1, cut[1]) /\ cut[0] <= cut[1]
    BY <1>1, <1>2
  <1> HIDE DEF n, q, text
  <1>4. cut[0] \in 0..Len(parts) /\ cut[1] \in 0..Len(parts)
    BY <1>1, <1>2
  <1>5. shown \o text = SubSeq(parts, 1, cut[1])
    <2> DEFINE a == cut[0]
               b == cut[1]
    <2>0. a \in 0..Len(parts) /\ b \in 0..Len(parts) /\ a <= b /\ a \in Nat /\ b \in Nat
          /\ shown = SubSeq(parts, 0 + 1, a) /\ text = SubSeq(parts, a + 1, b)
      BY <1>1, <1>2, <1>3, <1>4
    <2> HIDE DEF a, b
    <2> DEFINE x == SubSeq(parts, 0 + 1, a)
               y == SubSeq(parts, a + 1, b)
               z == SubSeq(parts, 0 + 1, b)
    <2>1. x \in Seq(Int) /\ Len(x) = a - 0 /\ \A i \in 1..a - 0 : x[i] = parts[0 + i]
      BY <2>0, SubSeqFacts
    <2>2. y \in Seq(Int) /\ Len(y) = b - a /\ \A i \in 1..b - a : y[i] = parts[a + i]
      BY <2>0, SubSeqFacts
    <2>3. z \in Seq(Int) /\ Len(z) = b - 0 /\ \A i \in 1..b - 0 : z[i] = parts[0 + i]
      BY <2>0, SubSeqFacts
    <2> HIDE DEF x, y, z
    <2> DEFINE s == x \o y
    <2>4. /\ s \in Seq(Int) /\ Len(s) = Len(x) + Len(y)
          /\ \A i \in 1..Len(x) : s[i] = x[i]
          /\ \A i \in 1..Len(y) : s[Len(x) + i] = y[i]
      BY <2>1, <2>2, ConcatLike
    <2> HIDE DEF s
    <2>5. Len(x) = a /\ Len(y) = b - a /\ Len(z) = b /\ Len(s) = b
      BY <2>0, <2>1, <2>2, <2>3, <2>4
    <2>6. ASSUME NEW i \in 1..b PROVE s[i] = z[i]
      <3>0. i \in 1..b - 0 /\ 0 + i = i /\ z[i] = parts[0 + i]
        BY <2>0, <2>3
      <3>1. CASE i <= a
        <4>1. i \in 1..a - 0 /\ i \in 1..Len(x)
          BY <2>0, <2>5, <3>1
        <4>2. s[i] = x[i] /\ x[i] = parts[0 + i]
          BY <2>1, <2>4, <4>1
        <4> QED
          BY <3>0, <4>2
      <3>2. CASE i > a
        <4>1. i - a \in 1..b - a /\ a + (i - a) = i /\ i - a \in 1..Len(y) /\ Len(x) + (i - a) = i
          BY <2>0, <2>5, <3>2
        <4>2. s[Len(x) + (i - a)] = y[i - a] /\ y[i - a] = parts[a + (i - a)]
          BY <2>2, <2>4, <4>1
        <4> QED
          BY <3>0, <4>1, <4>2
      <3> QED
        BY <2>0, <3>1, <3>2
    <2>7. s = z
      BY <2>3, <2>4, <2>5, <2>6, SeqEqual
    <2>8. shown = x /\ text = y
      BY <2>0 DEF x, y
    <2>9. z = SubSeq(parts, 1, b)
      BY DEF z
    <2>10. s = shown \o text
      BY <2>8, Zenon DEF s
    <2> QED
      BY <2>7, <2>9, <2>10 DEF b
  <1> DEFINE c == [i \in 0..Len(q) |-> cut[i + 1]]
  <1>6. c \in [0..Len(q) -> 0..Len(parts)] /\ \A i \in 0..Len(q) : c[i] = cut[i + 1]
    <2>1. \A i \in 0..Len(q) : i + 1 \in 0..n
      BY <1>1
    <2> QED
      BY <1>2, <2>1
  <1> HIDE DEF c
  <1>7. c[0] = cut[1] /\ c[Len(q)] = Len(parts)
    <2>1. 0 \in 0..Len(q) /\ Len(q) \in 0..Len(q) /\ Len(q) + 1 = n /\ 0 + 1 = 1
      BY <1>1
    <2> QED
      BY <1>2, <1>6, <2>1
  <1>8. ASSUME NEW i \in 1..Len(q)
        PROVE  c[i - 1] <= c[i] /\ q[i].text = SubSeq(parts, c[i - 1] + 1, c[i])
    <2>1. i - 1 \in 0..Len(q) /\ i \in 0..Len(q) /\ (i - 1) + 1 = i /\ i + 1 \in 1..n
          /\ (i + 1) - 1 = i /\ i \in 1..n - 1
      BY <1>1
    <2>2. c[i] = cut[i + 1] /\ c[i - 1] = cut[i]
      BY <1>6, <2>1
    <2>3. /\ cut[(i + 1) - 1] <= cut[i + 1]
          /\ queue[i + 1].text = SubSeq(parts, cut[(i + 1) - 1] + 1, cut[i + 1])
      BY <1>2, <2>1
    <2> QED
      BY <1>1, <2>1, <2>2, <2>3
  <1>9. InOrder(shown \o text, q, parts)
    BY <1>5, <1>6, <1>7, <1>8 DEF InOrder
  <1> QED
    BY <1>9 DEF q, text

\* A response that goes on.
Reading(shown, s, parts, at) ==
    /\ s.open
    /\ "delta" \notin s.dropped => InOrder(shown, s.queue, parts)
    /\ \A i \in 1..Len(s.queue) : s.queue[i] = Sentinel => i = Len(s.queue) /\ at = "none"

\* The run sends a chunk, queued or dropped, and keeps its text.
LEMMA SendsChunk ==
    ASSUME NEW shown, NEW s \in Subscribers, NEW parts \in Seq(Int), NEW at, at # "none",
           NEW chunk \in Chunks, chunk.is = "delta" \/ chunk.text = <<>>,
           Reading(shown, s, parts, at), NEW then, chunk = Sentinel => then = "none"
    PROVE  Reading(shown, Put(s, chunk), parts \o chunk.text, then)
  <1> DEFINE t == Put(s, chunk)
  <1>1. /\ t \in Subscribers
        /\ t.open = s.open
        /\ \/ /\ t.queue = Append(s.queue, chunk)
              /\ t.dropped = s.dropped
           \/ /\ t.queue = s.queue
              /\ t.dropped = s.dropped \cup ({chunk.is} \ {"note"})
    BY PutType DEF Reading
  <1>2. s.queue \in Seq(Chunks)
    BY DEF Subscribers
  <1>3. \A i \in 1..Len(s.queue) : s.queue[i] # Sentinel
    BY DEF Reading
  <1> HIDE DEF t
  <1>4. CASE t.queue = Append(s.queue, chunk) /\ t.dropped = s.dropped
    <2>1. "delta" \notin t.dropped => InOrder(shown, t.queue, parts \o chunk.text)
      BY <1>2, <1>4, InOrderPut DEF Reading
    <2>2. /\ Len(t.queue) = Len(s.queue) + 1 /\ t.queue[Len(s.queue) + 1] = chunk
          /\ \A i \in 1..Len(s.queue) : t.queue[i] = s.queue[i]
      BY <1>2, <1>4
    <2>3. \A i \in 1..Len(t.queue) : i \in 1..Len(s.queue) \/ i = Len(t.queue)
      BY <1>2, <2>2
    <2>4. \A i \in 1..Len(t.queue) : t.queue[i] = Sentinel => i = Len(t.queue) /\ then = "none"
      BY <1>3, <2>2, <2>3
    <2> QED
      BY <1>1, <2>1, <2>4 DEF Reading, t
  <1>5. CASE t.queue = s.queue /\ t.dropped = s.dropped \cup ({chunk.is} \ {"note"})
    <2>1. CASE "delta" \in t.dropped
      BY <1>1, <1>3, <1>5, <2>1 DEF Reading, t
    <2>2. CASE "delta" \notin t.dropped
      <3>1. chunk.is # "delta" /\ "delta" \notin s.dropped
        BY <1>5, <2>2
      <3>2. parts \o chunk.text = parts
        BY <3>1
      <3> QED
        BY <1>1, <1>3, <1>5, <3>1, <3>2 DEF Reading, t
    <2> QED
      BY <2>1, <2>2
  <1> QED
    BY <1>1, <1>4, <1>5

\* The browser takes the next chunk.
LEMMA ReadsChunk ==
    ASSUME NEW shown, NEW s \in Subscribers, NEW parts \in Seq(Int), NEW at,
           Reading(shown, s, parts, at), s.queue # <<>>
    PROVE  /\ Head(s.queue) # Sentinel =>
                 Reading(shown \o Head(s.queue).text,
                         [s EXCEPT !.queue = Tail(@), !.open = TRUE], parts, at)
           /\ Head(s.queue) = Sentinel /\ shown \in Seq(Int) =>
                 at = "none" /\ ("delta" \notin s.dropped => shown = parts)
  <1> DEFINE q == Tail(s.queue)
             t == [s EXCEPT !.queue = q, !.open = TRUE]
             h == Head(s.queue)
  <1>1. s.queue \in Seq(Chunks)
    BY DEF Subscribers
  <1>2. /\ Len(s.queue) \in Nat \ {0} /\ q \in Seq(Chunks) /\ Len(q) = Len(s.queue) - 1
        /\ \A i \in 1..Len(q) : q[i] = s.queue[i + 1]
        /\ h = s.queue[1]
    BY <1>1
  <1>3. "delta" \notin s.dropped => InOrder(shown \o h.text, q, parts)
    BY <1>1, InOrderRead DEF Reading
  <1> HIDE DEF q, h
  <1>4. t.queue = q /\ t.open = TRUE /\ t.dropped = s.dropped
    BY DEF Subscribers
  <1> HIDE DEF t
  <1>5. Reading(shown \o h.text, t, parts, at)
    <2>1. ASSUME NEW i \in 1..Len(q), q[i] = Sentinel PROVE i = Len(q) /\ at = "none"
      <3>1. i + 1 \in 1..Len(s.queue) /\ s.queue[i + 1] = Sentinel
        BY <1>2, <2>1
      <3>2. i + 1 = Len(s.queue) /\ at = "none"
        BY <3>1 DEF Reading
      <3> QED
        BY <1>2, <3>2
    <2> QED
      BY <1>3, <1>4, <2>1 DEF Reading
  <1>6. ASSUME h = Sentinel, shown \in Seq(Int)
        PROVE  at = "none" /\ ("delta" \notin s.dropped => shown = parts)
    <2>0. 1 \in 1..Len(s.queue) /\ s.queue[1] = Sentinel
      BY <1>2, <1>6
    <2>1. 1 = Len(s.queue) /\ at = "none"
      BY <2>0 DEF Reading
    <2>2. q = <<>>
      BY <1>2, <2>1
    <2>3. shown \o h.text = shown
      BY <1>6, ChunkTypes
    <2> QED
      BY <1>3, <2>1, <2>2, <2>3, InOrderDone
  <1> QED
    BY <1>5, <1>6 DEF t, q, h

-----------------------------------------------------------------------------
(***************************************************************************)
(* The browser shows the reply: BrowserShowsReply.                         *)
(***************************************************************************)

\* The browser waits for the reply to its message.
Following == view.at \in {"streaming", "polling", "opening", "resuming"}

\* The stored chat has more messages than when the browser asked or opened the chat.
Longer == chat.count > view.baseline \/ view.baseline = MaxMessages

\* A response shows the parts of its own run, in order, and has shown all at its end.
ShownParts ==
    /\ view.at # "ready" => view.outcome = "none"
    /\ view.at = "asking" => view.shown = <<>>
    /\ view.at = "streaming" =>
          Reading(view.shown, sub, run.parts, run.at) /\ run.of = view.send
    /\ view.outcome = "streamed" =>
          /\ run.at = "none" /\ ~sub.open /\ run.of = view.send
          /\ "delta" \notin sub.dropped => view.shown = run.parts

\* The parts of a run that a response follows are stored when the run completes.
StoredParts ==
    /\ run.result = "completed" => run.at = "none"
    /\ view.at = "streaming" \/ view.outcome = "streamed" =>
          (run.parts # <<>> /\ (run.at = "storing" \/ run.result = "completed") =>
              chat.latest = Assistant(run.of))

\* Unless its message was not stored or its run refused, the browser waits for the latest
\* run and the latest message belongs to it; what it found by polling was the latest message
\* then.
OwnMessages ==
    /\ Following /\ ~history.refused /\ ~history.unposted =>
          run.of = view.send /\ chat.latest \in {User(view.send), Assistant(view.send)}
    /\ view.outcome = "recovered" =>
          \/ view.message = Assistant(view.send)
          \/ history.refused
          \/ history.unposted
          \/ view.status = "failed" /\ view.message = User(view.send)

\* The baseline of a poll lets the reply be seen, unless the chat has all the messages it may.
Counted ==
    /\ view.baseline <= chat.count
    /\ view.at \in {"streaming", "polling"} /\ ~history.unposted => Longer
    /\ view.at \in {"opening", "resuming"} /\ view.last = "user"
          /\ chat.latest.role = "assistant" => Longer
    /\ view.at = "resuming" => view.last = "user"
    /\ history.missed => view.baseline = MaxMessages

\* A chat that is opened without waiting has no run, unless one was about to begin.
OpenedInTime ==
    /\ run.at \in {"streaming", "replying", "storing"} => chat.status = "running"
    /\ view.last = "user" /\ ~history.early =>
          /\ view.at = "opening" =>
                (run.at = "none" /\ chat.latest.role = "user") \/ view.status = "running"
          /\ view.outcome = "opened" => run.at = "none" /\ chat.latest.role = "user"

\* What BrowserShowsReply needs of the stream, the run and the stored chat.
ViewInv == ShownParts /\ StoredParts /\ OwnMessages /\ Counted /\ OpenedInTime

\* The latest run and the latest message are not of a message to come, nor, before it is
\* stored or when it never is, of the one the browser waits for.
Earlier ==
    /\ run.of <= view.send /\ chat.latest.of <= view.send
    /\ view.at = "asking" => ~history.unposted
    /\ view.at = "asking" \/ history.unposted =>
          run.of < view.send /\ chat.latest.of < view.send

\* Earlier holds at first.
LEMMA EarlierInit == Init => Earlier
  BY DEF Init, NoView, NoHistory, Assistant, Earlier

\* Every step keeps Earlier.
LEMMA EarlierNext == TypeOK /\ Earlier /\ [Next]_vars => Earlier'
  <1> SUFFICES ASSUME TypeOK, Earlier, [Next]_vars PROVE Earlier'
    OBVIOUS
  <1>0. /\ run.of \in Nat /\ view.send \in Nat /\ chat.latest.of \in Nat
        /\ \A k \in Nat : User(k).of = k /\ Assistant(k).of = k
    BY ConstantsAssumption DEF TypeOK, RunStates, Views, Chats, Messages, User, Assistant
  <1>1. ASSUME run'.of = run.of, view'.send = view.send, view'.at # "asking" \/ view'.at = view.at,
               history'.unposted = history.unposted,
               chat'.latest.of = chat.latest.of \/ chat'.latest.of = run.of
        PROVE  Earlier'
    BY <1>0, <1>1 DEF Earlier
  <1>2. CASE UNCHANGED vars
    BY <1>1, <1>2 DEF vars
  <1>3. CASE AgentStep
    <2>1. UNCHANGED <<chat, view, history>>
      BY <1>3 DEF AgentStep, Writes, Acts, FinishesWithText, FinishesWithAction
    <2>2. run'.of = run.of
      BY <1>3
      DEF AgentStep, Writes, Acts, FinishesWithText, FinishesWithAction, ActionEvent, Handled,
          TypeOK, RunStates
    <2> QED
      BY <1>1, <2>1, <2>2
  <1>4. CASE EngineStep
    <2>1. UNCHANGED <<chat, view, history>>
      BY <1>4 DEF EngineStep, SocketOpens, SocketEnds, SocketFails, PollsEvents, TurnDone
    <2>2. run'.of = run.of
      BY <1>4
      DEF EngineStep, SocketOpens, SocketEnds, SocketFails, PollsEvents, TurnDone, Handled,
          TypeOK, RunStates
    <2> QED
      BY <1>1, <2>1, <2>2
  <1>5. CASE RunStep
    <2>1. run'.of = run.of /\ view'.send = view.send /\ view'.at = view.at /\ UNCHANGED history
      BY <1>5
      DEF RunStep, Begins, Emits, Stores, Completes, Raises, Cancelled, Finally, TypeOK,
          RunStates, Views
    <2>2. chat'.latest = chat.latest \/ chat'.latest = Assistant(run.of)
      BY <1>5
      DEF RunStep, Begins, Emits, Stores, Completes, Raises, Cancelled, Finally, Stored, TypeOK,
          Chats
    <2> QED
      BY <1>0, <1>1, <2>1, <2>2
  <1>6. CASE Asks
    <2>1. view'.send = view.send + 1 /\ history'.unposted = FALSE /\ UNCHANGED <<chat, run>>
      BY <1>6 DEF Asks, NoView, NoHistory
    <2> QED
      BY <1>0, <2>1 DEF Earlier
  <1>7. CASE Posts
    <2>1. /\ view.at = "asking" /\ view'.send = view.send /\ view'.at # "asking"
          /\ history'.unposted = history.unposted /\ run'.of \in {run.of, view.send}
      BY <1>7 DEF Posts, TypeOK, Views
    <2>2. chat'.latest = User(view.send)
      BY <1>7 DEF Posts, Stored, TypeOK, Chats
    <2> QED
      BY <1>0, <2>1, <2>2 DEF Earlier
  <1>8. CASE PostFails
    <2>1. /\ view.at = "asking" /\ view'.send = view.send /\ view'.at # "asking"
          /\ UNCHANGED <<chat, run>>
      BY <1>8 DEF PostFails, TypeOK, Views
    <2> QED
      BY <1>0, <2>1 DEF Earlier
  <1>9. CASE Reads \/ Disconnects \/ Stops \/ Reloads
    <2>1. UNCHANGED <<chat, run>> /\ view'.send = view.send /\ view'.at # "asking"
          /\ history'.unposted = history.unposted
      BY <1>9, ZenonT(40)
      DEF Reads, Disconnects, Stops, Reloads, Busy, TypeOK, Views
    <2> QED
      BY <1>1, <2>1
  <1>10. CASE Opens \/ OpensBlind \/ Polls \/ PollFails \/ GivesUp
    <2>1. UNCHANGED <<chat, run>> /\ view'.send = view.send /\ view'.at # "asking"
          /\ history'.unposted = history.unposted
      BY <1>10, ZenonT(40)
      DEF Opens, OpensBlind, Polls, PollFails, GivesUp, TypeOK, Views
    <2> QED
      BY <1>1, <2>1
  <1> QED
    BY <1>2, <1>3, <1>4, <1>5, <1>6, <1>7, <1>8, <1>9, <1>10 DEF Next, BrowserStep

\* ViewInv holds at first.
LEMMA ViewInit == Init => ViewInv
  <1> SUFFICES ASSUME Init PROVE ViewInv
    OBVIOUS
  <1> USE DEF Init, NoView, NoHistory
  <1>1. ShownParts /\ StoredParts /\ OwnMessages
    BY DEF ShownParts, StoredParts, OwnMessages, Following
  <1>2. Counted /\ OpenedInTime
    BY DEF Counted, OpenedInTime
  <1> QED
    BY <1>1, <1>2 DEF ViewInv

\* ViewInv is not about the agent and the reader.
LEMMA ViewFrame == ViewInv /\ UNCHANGED <<chat, run, sub, view, history>> => ViewInv'
  BY DEF ViewInv, ShownParts, StoredParts, OwnMessages, Counted, OpenedInTime, Following, Longer

\* A step that only sends a chunk.
LEMMA ViewSends ==
    ASSUME TypeOK, ViewInv, NEW chunk \in Chunks, chunk # Sentinel,
           chunk.is = "delta" \/ chunk.text = <<>>,
           run.at # "none", run'.at \notin {"none", "created", "storing"}, run'.of = run.of,
           run'.parts = run.parts \o chunk.text, run'.result = run.result,
           sub' = Put(sub, chunk), UNCHANGED <<view, history>>,
           chat'.status = "running", chat'.count = chat.count, chat'.latest = chat.latest
    PROVE  ViewInv'
  <1>1. run.parts \in Seq(Int) /\ sub \in Subscribers
    BY DEF TypeOK, RunStates
  <1>2. ShownParts'
    <2> DEFINE shown == view.shown
               parts == run.parts
               at == run.at
               then == run'.at
               s == sub
    <2>1. ASSUME Reading(shown, s, parts, at)
          PROVE  Reading(shown, Put(s, chunk), parts \o chunk.text, then)
      <3>1. parts \in Seq(Int) /\ s \in Subscribers /\ at # "none"
        BY <1>1
      <3> HIDE DEF shown, parts, at, then, s
      <3> QED
        BY <2>1, <3>1, SendsChunk
    <2> QED
      BY <2>1 DEF ViewInv, ShownParts
  <1>3. StoredParts' /\ OwnMessages'
    BY DEF ViewInv, ShownParts, StoredParts, OwnMessages, Following
  <1>4. Counted' /\ OpenedInTime'
    BY DEF ViewInv, Counted, OpenedInTime, Longer
  <1> QED
    BY <1>2, <1>3, <1>4 DEF ViewInv

\* A chunk of the stream is handled.
LEMMA ViewHandled ==
    ASSUME TypeOK, ViewInv, NEW chunk \in Chunks, chunk # Sentinel,
           chunk.is = "delta" \/ chunk.text = <<>>,
           run.at = "streaming", Handled(chunk), UNCHANGED <<chat, view, history>>
    PROVE  ViewInv'
  <1>1. /\ run'.at = "streaming" /\ run'.of = run.of /\ run'.parts = run.parts \o chunk.text
        /\ run'.result = run.result /\ sub' = Put(sub, chunk)
    BY DEF Handled, TypeOK, RunStates
  <1>2. chat.status = "running"
    BY DEF ViewInv, OpenedInTime
  <1> QED
    BY <1>1, <1>2, ViewSends

\* Notes and deltas are no sentinels.
LEMMA ChunkKinds ==
    /\ Note # Sentinel /\ \A text : Delta(text) # Sentinel /\ Delta(text).is = "delta"
  BY DEF Note, Sentinel, Delta

\* The steps of the agent keep ViewInv.
LEMMA ViewAgent ==
    ASSUME TypeOK, ViewInv, AgentStep
    PROVE  ViewInv'
  <1>1. ASSUME NEW content \in Contents, Writes(content) PROVE ViewInv'
    <2> DEFINE consumed == Consumed(reader.state, content)
    <2>1. run.at = "streaming" /\ UNCHANGED <<chat, view, history>>
      BY <1>1 DEF Writes, Working
    <2>2. (UNCHANGED <<run, sub>>) \/ Handled(Delta(consumed.text))
      BY <1>1 DEF Writes
    <2>3. consumed.text \in Seq(Int)
      <3>1. agent.written \in Nat /\ reader.state \in StreamStates
        BY DEF TypeOK, Agents, Readers
      <3>2. content \in Seq(Int)
        BY <3>1, ContentsType
      <3> QED
        BY <3>1, <3>2, ConsumedType
    <2> HIDE DEF consumed
    <2> QED
      BY <2>1, <2>2, <2>3, ChunkTypes, ChunkKinds, ViewFrame, ViewHandled
  <1>2. ASSUME ActionEvent, Working, UNCHANGED <<chat, view, history>> PROVE ViewInv'
    BY <1>2, ChunkTypes, ChunkKinds, ViewFrame, ViewHandled DEF ActionEvent, Working
  <1>3. CASE Acts
    BY <1>2, <1>3 DEF Acts
  <1>4. CASE FinishesWithText
    BY <1>2, <1>4, ViewFrame DEF FinishesWithText
  <1>5. CASE \E n \in 1..MaxPieces : FinishesWithAction(n)
    BY <1>2, <1>5 DEF FinishesWithAction
  <1> QED
    BY <1>1, <1>3, <1>4, <1>5 DEF AgentStep

\* The steps of the engine keep ViewInv.
LEMMA ViewEngine ==
    ASSUME TypeOK, ViewInv, EngineStep
    PROVE  ViewInv'
  <1>1. CASE SocketOpens \/ SocketEnds
    BY <1>1, ViewFrame DEF SocketOpens, SocketEnds
  <1>2. CASE SocketFails
    BY <1>2, ChunkTypes, ChunkKinds, ViewHandled DEF SocketFails, Socket
  <1>3. CASE PollsEvents
    BY <1>3, ChunkTypes, ChunkKinds, ViewHandled DEF PollsEvents
  <1>4. CASE TurnDone
    <2>1. /\ run.at = "streaming" /\ run'.at = "replying" /\ run'.of = run.of
          /\ run'.parts = run.parts /\ run'.result = run.result
          /\ UNCHANGED <<chat, sub, view, history>>
      BY <1>4 DEF TurnDone, TypeOK, RunStates
    <2>2. ShownParts'
      <3>1. Reading(view.shown, sub, run.parts, run.at)
                => Reading(view.shown, sub, run.parts, "replying")
        BY <2>1 DEF Reading
      <3> QED
        BY <2>1, <3>1 DEF ViewInv, ShownParts
    <2>3. StoredParts' /\ OwnMessages' /\ Counted' /\ OpenedInTime'
      BY <2>1
         DEF ViewInv, StoredParts, OwnMessages, Counted, OpenedInTime, Following, Longer, ShownParts
    <2> QED
      BY <2>2, <2>3 DEF ViewInv
  <1> QED
    BY <1>1, <1>2, <1>3, <1>4 DEF EngineStep

\* A stored message is the latest, and the chat has more messages than any earlier count, up
\* to the limit.
LEMMA StoredGrows ==
    ASSUME NEW c \in Chats, NEW message, NEW baseline \in 0..MaxMessages, baseline <= c.count
    PROVE  /\ Stored(c, message).latest = message /\ Stored(c, message).status = c.status
           /\ baseline <= Stored(c, message).count /\ c.count <= Stored(c, message).count
           /\ Stored(c, message).count > baseline \/ baseline = MaxMessages
  <1>1. c.count \in 0..MaxMessages /\ MaxMessages \in Nat
    BY ConstantsAssumption DEF Chats
  <1> DEFINE d == Stored(c, message)
  <1>2. /\ d.latest = message /\ d.status = c.status
        /\ d.count = IF c.count < MaxMessages THEN c.count + 1 ELSE c.count
    BY DEF Stored, Chats
  <1> HIDE DEF d
  <1>3. baseline <= d.count /\ c.count <= d.count /\ (d.count > baseline \/ baseline = MaxMessages)
    BY <1>1, <1>2
  <1> QED
    BY <1>2, <1>3 DEF d

\* A run ends.
LEMMA ViewFinally ==
    ASSUME TypeOK, ViewInv, NEW status \in Statuses, NEW result, NEW last,
           Finally(status, result, last), last = sub \/ last = Put(sub, Note),
           run.at # "none", result = "completed" => run.at = "storing",
           NEW stopping, view' = [view EXCEPT !.stopping = stopping], UNCHANGED history
    PROVE  ViewInv'
  <1>1. run.parts \in Seq(Int) /\ sub \in Subscribers
    BY DEF TypeOK, RunStates
  <1>2. /\ view'.at = view.at /\ view'.outcome = view.outcome /\ view'.shown = view.shown
        /\ view'.send = view.send /\ view'.baseline = view.baseline /\ view'.last = view.last
        /\ view'.status = view.status /\ view'.message = view.message
    BY DEF TypeOK, Views
  <1>3. /\ run'.of = run.of /\ run'.at = "none" /\ run'.result = result
        /\ run'.parts = (IF sub.open THEN run.parts ELSE <<>>)
        /\ sub' = Put(last, Sentinel)
    BY DEF Finally, TypeOK, RunStates
  <1>4. chat'.count = chat.count /\ chat'.latest = chat.latest
    BY DEF Finally, TypeOK, Chats
  <1>6. view.outcome # "streamed"
    BY DEF ViewInv, ShownParts
  <1>7. ASSUME view.at = "streaming" PROVE Reading(view.shown, sub', run.parts, "none") /\ sub.open
    <2> DEFINE shown == view.shown
               parts == run.parts
               at == run.at
               s == sub
    <2>1. /\ Reading(shown, s, parts, at) /\ parts \in Seq(Int) /\ s \in Subscribers /\ at # "none"
          /\ last = s \/ last = Put(s, Note)
      BY <1>1, <1>7 DEF ViewInv, ShownParts
    <2> HIDE DEF shown, parts, at, s
    <2>2. Note.text = <<>> /\ Sentinel.text = <<>> /\ parts \o <<>> = parts
      BY <2>1 DEF Note, Sentinel
    <2>3. Reading(shown, Put(s, Note), parts \o Note.text, at)
      BY <2>1, <2>2, SendsChunk, ChunkTypes, ChunkKinds
    <2>4. last \in Subscribers
      BY <2>1, PutType, ChunkTypes
    <2>5. Reading(shown, last, parts, at)
      BY <2>1, <2>2, <2>3
    <2>6. Reading(shown, Put(last, Sentinel), parts \o Sentinel.text, "none")
      BY <2>1, <2>2, <2>4, <2>5, SendsChunk, ChunkTypes
    <2>7. Reading(shown, Put(last, Sentinel), parts, "none") /\ s.open
      BY <2>1, <2>2, <2>6 DEF Reading
    <2> QED
      BY <1>3, <2>7 DEF shown, parts, s
  <1>8. ShownParts'
    BY <1>2, <1>3, <1>6, <1>7 DEF ViewInv, ShownParts
  <1>9. StoredParts'
    BY <1>2, <1>3, <1>4, <1>6, <1>7 DEF ViewInv, StoredParts
  <1>10. OwnMessages'
    BY <1>2, <1>3, <1>4 DEF ViewInv, OwnMessages, Following
  <1>11. Counted'
    BY <1>2, <1>3, <1>4 DEF ViewInv, Counted, Longer
  <1>12. OpenedInTime'
    BY <1>2, <1>3, <1>4 DEF ViewInv, OpenedInTime
  <1> QED
    BY <1>8, <1>9, <1>10, <1>11, <1>12 DEF ViewInv

\* The reply is stored.
LEMMA ViewStores ==
    ASSUME TypeOK, ViewInv, Stores
    PROVE  ViewInv'
  <1>1. run.parts \in Seq(Int) /\ sub \in Subscribers /\ chat \in Chats
        /\ view.baseline \in 0..MaxMessages
    BY DEF TypeOK, RunStates, Views
  <1>2. /\ run.at = "replying" /\ run'.at = "storing" /\ run'.of = run.of
        /\ run'.parts = run.parts /\ run'.result = run.result
        /\ sub' = Put(sub, Note) /\ UNCHANGED <<view, history>>
    BY DEF Stores, TypeOK, RunStates
  <1>3. chat' = (IF run.parts # <<>> THEN Stored(chat, Assistant(run.of)) ELSE chat)
    BY DEF Stores
  <1>4. view.baseline <= chat.count
    BY DEF ViewInv, Counted
  <1>5. /\ chat'.status = chat.status /\ view.baseline <= chat'.count /\ chat.count <= chat'.count
        /\ run.parts # <<>> => chat'.latest = Assistant(run.of)
        /\ chat'.latest # chat.latest => chat'.latest = Assistant(run.of)
        /\ chat'.latest # chat.latest => chat'.count > view.baseline \/ view.baseline = MaxMessages
        /\ chat.count \in Nat /\ chat'.count \in Nat /\ view.baseline \in Nat
    <2>1. chat' \in Chats
      BY NextType DEF Next, RunStep, TypeOK
    <2>2. \A c \in Chats : c.count \in Nat
      BY ConstantsAssumption DEF Chats
    <2> QED
      BY <1>1, <1>3, <1>4, <2>1, <2>2, StoredGrows
  <1>6. ShownParts'
    <2> DEFINE shown == view.shown
               parts == run.parts
               at == run.at
               s == sub
    <2>1. ASSUME Reading(shown, s, parts, at) PROVE Reading(shown, Put(s, Note), parts, "storing")
      <3>1. parts \in Seq(Int) /\ s \in Subscribers /\ at # "none"
        BY <1>1, <1>2
      <3> HIDE DEF shown, parts, at, s
      <3>2. Note.text = <<>> /\ parts \o <<>> = parts
        BY <3>1 DEF Note
      <3>3. Reading(shown, Put(s, Note), parts \o Note.text, "storing")
        BY <2>1, <3>1, <3>2, SendsChunk, ChunkTypes, ChunkKinds
      <3> QED
        BY <3>2, <3>3
    <2> QED
      BY <1>2, <2>1 DEF ViewInv, ShownParts
  <1>7. StoredParts'
    BY <1>2, <1>5 DEF ViewInv, StoredParts, ShownParts
  <1>8. OwnMessages'
    BY <1>2, <1>5 DEF ViewInv, OwnMessages, Following
  <1>9. Counted'
    BY <1>2, <1>5 DEF ViewInv, Counted, Longer
  <1>10. OpenedInTime'
    BY <1>2, <1>5 DEF ViewInv, OpenedInTime
  <1> QED
    BY <1>6, <1>7, <1>8, <1>9, <1>10 DEF ViewInv

\* The steps of a run keep ViewInv.
LEMMA ViewRun ==
    ASSUME TypeOK, ViewInv, RunStep
    PROVE  ViewInv'
  <1>1. CASE Begins
    <2>1. /\ run.at = "created" /\ run'.at = "streaming" /\ run'.of = run.of
          /\ run'.parts = run.parts /\ run'.result = run.result
          /\ sub' = Put(sub, Note) /\ UNCHANGED <<view, history>>
      BY <1>1 DEF Begins, TypeOK, RunStates
    <2>2. chat'.status = "running" /\ chat'.count = chat.count /\ chat'.latest = chat.latest
      BY <1>1 DEF Begins, TypeOK, Chats
    <2>3. run.parts \o Note.text = run.parts /\ Note.text = <<>>
      <3> DEFINE parts == run.parts
      <3>1. parts \in Seq(Int)
        BY DEF TypeOK, RunStates
      <3> HIDE DEF parts
      <3>2. parts \o <<>> = parts
        BY <3>1
      <3> QED
        BY <3>2 DEF Note, parts
    <2> QED
      BY <2>1, <2>2, <2>3, ViewSends, ChunkTypes, ChunkKinds
  <1>2. CASE Emits
    <2> DEFINE chunk == Delta(<<Head(run.rest)>>)
    <2>1. /\ run.at = "replying" /\ run'.at = "replying" /\ run'.of = run.of /\ run.rest # <<>>
          /\ run'.parts = Append(run.parts, Head(run.rest)) /\ run'.result = run.result
          /\ sub' = Put(sub, chunk) /\ UNCHANGED <<chat, view, history>>
      BY <1>2 DEF Emits, TypeOK, RunStates
    <2>2. chunk \in Chunks /\ chunk.text = <<Head(run.rest)>>
          /\ run.parts \o <<Head(run.rest)>> = Append(run.parts, Head(run.rest))
      <3> DEFINE parts == run.parts
                 rest == run.rest
      <3>1. parts \in Seq(Int) /\ rest \in Seq(Int) /\ rest # <<>>
        BY <2>1 DEF TypeOK, RunStates
      <3> HIDE DEF parts, rest
      <3>2. <<Head(rest)>> \in Seq(Int) /\ parts \o <<Head(rest)>> = Append(parts, Head(rest))
        BY <3>1
      <3>3. Delta(<<Head(rest)>>) \in Chunks /\ Delta(<<Head(rest)>>).text = <<Head(rest)>>
        BY <3>2, ChunkTypes DEF Delta
      <3> QED
        BY <3>2, <3>3 DEF parts, rest
    <2>3. chunk # Sentinel /\ chunk.is = "delta"
      BY ChunkKinds
    <2>4. chat.status = "running"
      BY <2>1 DEF ViewInv, OpenedInTime
    <2> HIDE DEF chunk
    <2> QED
      BY <2>1, <2>2, <2>3, <2>4, ViewSends
  <1>3. CASE Stores
    BY <1>3, ViewStores
  <1>4. CASE Completes
    <2>1. view' = [view EXCEPT !.stopping = view.stopping]
      BY <1>4 DEF Completes, TypeOK, Views
    <2> QED
      BY <1>4, <2>1, ViewFinally DEF Completes, Statuses
  <1>5. CASE Raises
    <2>1. view' = [view EXCEPT !.stopping = view.stopping]
      BY <1>5 DEF Raises, TypeOK, Views
    <2> QED
      BY <1>5, <2>1, ViewFinally DEF Raises, Statuses
  <1>6. CASE Cancelled /\ Executing
    BY <1>6, ViewFinally DEF Cancelled, Statuses, Executing
  <1>7. CASE Cancelled /\ ~Executing
    <2>1. /\ view'.at = view.at /\ view'.outcome = view.outcome /\ view'.shown = view.shown
          /\ view'.send = view.send /\ view'.baseline = view.baseline /\ view'.last = view.last
          /\ view'.status = view.status /\ view'.message = view.message
      BY <1>7 DEF Cancelled, TypeOK, Views
    <2>2. UNCHANGED <<chat, run, sub, history>>
      BY <1>7 DEF Cancelled
    <2> QED
      BY <2>1, <2>2
      DEF ViewInv, ShownParts, StoredParts, OwnMessages, Counted, OpenedInTime, Following, Longer
  <1> QED
    BY <1>1, <1>2, <1>3, <1>4, <1>5, <1>6, <1>7 DEF RunStep

\* The user sends a message.
LEMMA ViewAsks ==
    ASSUME TypeOK, ViewInv, Asks
    PROVE  ViewInv'
  <1>1. /\ view'.at = "asking" /\ view'.outcome = "none" /\ view'.shown = <<>>
        /\ view'.baseline \in {chat.count, 0} /\ view'.last = "assistant"
        /\ history'.missed = FALSE /\ UNCHANGED <<chat, run, sub>>
    BY DEF Asks, NoView, NoHistory
  <1>2. chat.count \in Nat
    BY ConstantsAssumption DEF TypeOK, Chats
  <1> QED
    BY <1>1, <1>2
    DEF ViewInv, ShownParts, StoredParts, OwnMessages, Counted, OpenedInTime, Following, Longer

\* The message is stored, and its run created or refused.
LEMMA ViewPosts ==
    ASSUME TypeOK, ViewInv, Posts
    PROVE  ViewInv'
  <1>1. /\ view.at = "asking" /\ view.outcome = "none" /\ view.shown = <<>>
        /\ view'.outcome = "none" /\ view'.shown = <<>> /\ view'.send = view.send
        /\ view'.baseline = view.baseline /\ view'.at # "asking" /\ view'.last = view.last
        /\ view'.at \in {"streaming", "polling"}
    BY DEF Posts, TypeOK, Views, ViewInv, ShownParts
  <1>2. /\ chat'.latest = User(view.send) /\ chat'.status = chat.status
        /\ view.baseline <= chat'.count
        /\ chat'.count > view.baseline \/ view.baseline = MaxMessages
    <2>1. chat \in Chats /\ view.baseline \in 0..MaxMessages /\ view.baseline <= chat.count
      BY DEF TypeOK, Views, ViewInv, Counted
    <2> QED
      BY <2>1, StoredGrows DEF Posts
  <1>3. CASE Executing
    <2>1. /\ view'.at = "polling" /\ history'.refused = TRUE /\ history'.missed = history.missed
          /\ history'.early = history.early /\ history'.unposted = history.unposted
          /\ UNCHANGED <<run, sub>>
      BY <1>3 DEF Posts, TypeOK, Views
    <2> QED
      BY <1>1, <1>2, <2>1
      DEF ViewInv, ShownParts, StoredParts, OwnMessages, Counted, OpenedInTime, Following, Longer
  <1>4. CASE ~Executing
    <2>1. /\ view'.at = "streaming" /\ UNCHANGED history
          /\ run'.of = view.send /\ run'.at = "created" /\ run'.parts = <<>>
          /\ run'.result = "none" /\ sub' = [NoQueue EXCEPT !.open = TRUE]
      BY <1>4 DEF Posts, TypeOK, Views, Subscribes
    <2>2. Reading(<<>>, sub', <<>>, "created")
      <3>1. sub'.open = TRUE /\ sub'.queue = <<>>
        BY <2>1 DEF NoQueue
      <3>2. InOrder(<<>>, <<>>, <<>>)
        <4>1. <<>> \in Seq(Int)
          OBVIOUS
        <4> QED
          BY <4>1, InOrderDone
      <3>3. 1..Len(<<>>) = {}
        OBVIOUS
      <3> QED
        BY <3>1, <3>2, <3>3 DEF Reading
    <2>3. ShownParts'
      BY <1>1, <2>1, <2>2 DEF ShownParts
    <2> QED
      BY <1>1, <1>2, <2>1, <2>3
      DEF ViewInv, StoredParts, OwnMessages, Counted, OpenedInTime, Following, Longer
  <1> QED
    BY <1>3, <1>4

\* The message is not stored.
LEMMA ViewPostFails ==
    ASSUME TypeOK, ViewInv, PostFails
    PROVE  ViewInv'
  <1>1. /\ view.at = "asking" /\ UNCHANGED <<chat, run, sub>> /\ view'.baseline = view.baseline
        /\ view'.last = view.last /\ view'.send = view.send
        /\ history'.missed = history.missed /\ history'.early = history.early
        /\ \/ view'.at = "polling" /\ history'.unposted = TRUE /\ view'.outcome = view.outcome
           \/ view'.at = "ready" /\ view'.outcome = "failed"
    BY ZenonT(40) DEF PostFails, TypeOK, Views
  <1>2. view.outcome = "none"
    BY <1>1 DEF ViewInv, ShownParts
  <1> QED
    BY <1>1, <1>2
    DEF ViewInv, ShownParts, StoredParts, OwnMessages, Counted, OpenedInTime, Following, Longer

\* An event of the response, or its end.
LEMMA ViewReads ==
    ASSUME TypeOK, ViewInv, Reads
    PROVE  ViewInv'
  <1> DEFINE shown == view.shown
             parts == run.parts
             at == run.at
             s == sub
             h == Head(sub.queue)
  <1>1. /\ view.at = "streaming" /\ UNCHANGED <<chat, run, history>> /\ run.of = view.send
        /\ view.outcome = "none" /\ Reading(shown, s, parts, at) /\ s.queue # <<>>
        /\ parts \in Seq(Int) /\ shown \in Seq(Int) /\ s \in Subscribers
    BY DEF Reads, ViewInv, ShownParts, TypeOK, RunStates, Views
  <1>2. sub' = [s EXCEPT !.queue = Tail(@), !.open = (h # Sentinel)]
    BY DEF Reads, Passes, NextChunk
  <1>3. /\ view'.send = view.send /\ view'.baseline = view.baseline /\ view'.last = view.last
    BY DEF Reads, TypeOK, Views
  <1>4. CASE h # Sentinel
    <2>1. view'.at = "streaming" /\ view'.outcome = "none" /\ view'.shown = shown \o h.text
      BY <1>1, <1>4 DEF Reads, TypeOK, Views, NextChunk
    <2>2. Reading(shown \o h.text, [s EXCEPT !.queue = Tail(@), !.open = TRUE], parts, at)
      <3>1. h = Head(s.queue)
        OBVIOUS
      <3> HIDE DEF shown, parts, at, s, h
      <3> QED
        BY <1>1, <1>4, <3>1, ReadsChunk
    <2>3. Reading(view'.shown, sub', run'.parts, run'.at)
      BY <1>1, <1>2, <1>4, <2>1, <2>2
    <2>4. ShownParts'
      BY <1>1, <1>3, <2>1, <2>3 DEF ShownParts
    <2> QED
      BY <1>1, <1>3, <2>1, <2>4
      DEF ViewInv, StoredParts, OwnMessages, Counted, OpenedInTime, Following, Longer
  <1>5. CASE h = Sentinel
    <2>1. view'.at = "ready" /\ view'.outcome = "streamed" /\ view'.shown = shown
      BY <1>1, <1>5 DEF Reads, TypeOK, Views, NextChunk
    <2>2. at = "none" /\ ("delta" \notin s.dropped => shown = parts)
      <3>1. h = Head(s.queue)
        OBVIOUS
      <3> HIDE DEF shown, parts, at, s, h
      <3> QED
        BY <1>1, <1>5, <3>1, ReadsChunk
    <2>3. ~sub'.open /\ sub'.dropped = s.dropped
      BY <1>1, <1>2, <1>5 DEF Subscribers
    <2>4. ShownParts'
      BY <1>1, <1>3, <2>1, <2>2, <2>3 DEF ShownParts
    <2> QED
      BY <1>1, <1>3, <2>1, <2>4
      DEF ViewInv, StoredParts, OwnMessages, Counted, OpenedInTime, Following, Longer
  <1> QED
    BY <1>4, <1>5

\* The response is lost or the user stops it.
LEMMA ViewLeaves ==
    ASSUME TypeOK, ViewInv, Disconnects \/ Stops
    PROVE  ViewInv'
  <1>1. /\ view.at \in {"streaming", "polling", "resuming"} /\ view.outcome = "none"
        /\ UNCHANGED <<chat, run, history>>
    BY DEF Disconnects, Stops, Busy, ViewInv, ShownParts
  <1>2. /\ view'.send = view.send /\ view'.baseline = view.baseline /\ view'.last = view.last
        /\ \/ view'.at = "polling" /\ view'.outcome = "none" /\ view.at = "streaming"
           \/ view'.at = "ready" /\ view'.outcome = "stopped"
           \/ view'.at = view.at /\ view'.outcome = "none" /\ view.at # "streaming"
    BY <1>1, ZenonT(40) DEF Disconnects, Stops, TypeOK, Views
  <1> QED
    BY <1>1, <1>2
    DEF ViewInv, ShownParts, StoredParts, OwnMessages, Counted, OpenedInTime, Following, Longer

\* The page is loaded again and the chat opened.
LEMMA ViewOpens ==
    ASSUME TypeOK, ViewInv, Reloads \/ Opens \/ OpensBlind
    PROVE  ViewInv'
  <1>1. view.outcome = "none" /\ UNCHANGED <<chat, run>> /\ chat.count \in Nat
        /\ chat.latest.role \in {"user", "assistant"}
    <2>1. UNCHANGED <<chat, run>> /\ view.at # "ready"
      BY DEF Reloads, Opens, OpensBlind
    <2>2. view.outcome = "none"
      BY <2>1 DEF ViewInv, ShownParts
    <2>3. chat.count \in Nat /\ chat.latest.role \in {"user", "assistant"}
      BY ConstantsAssumption DEF TypeOK, Chats, Messages
    <2> QED
      BY <2>1, <2>2, <2>3
  <1>2. CASE Reloads
    <2>1. /\ view'.at = "opening" /\ view'.outcome = "none" /\ view'.send = view.send
          /\ view'.baseline = chat.count /\ view'.last = chat.latest.role
          /\ view'.status = chat.status /\ view.at \in {"streaming", "polling"}
          /\ history'.early = (run.at = "created") /\ history'.missed = FALSE
          /\ history'.refused = history.refused /\ history'.unposted = history.unposted
      BY <1>1, <1>2 DEF Reloads, TypeOK, Views
    <2>2. run.at \in {"none", "created", "streaming", "replying", "storing"}
      BY DEF TypeOK, RunStates
    <2>3. ShownParts' /\ StoredParts'
      BY <1>1, <2>1 DEF ViewInv, ShownParts, StoredParts
    <2>4. OwnMessages'
      BY <1>1, <2>1 DEF ViewInv, OwnMessages, Following
    <2>5. Counted'
      BY <1>1, <2>1 DEF Counted
    <2>6. OpenedInTime'
      BY <1>1, <2>1, <2>2 DEF ViewInv, OpenedInTime
    <2> QED
      BY <2>3, <2>4, <2>5, <2>6 DEF ViewInv
  <1>3. CASE Opens
    <2>1. /\ view.at = "opening" /\ view'.send = view.send /\ view'.baseline = view.baseline
          /\ view'.last = view.last /\ view'.status = view.status
          /\ IF NeedsResume(TRUE) THEN view'.at = "resuming" /\ view'.outcome = "none"
             ELSE view'.at = "ready" /\ view'.outcome = "opened"
          /\ UNCHANGED <<sub, history>>
      BY <1>1, <1>3 DEF Opens, TypeOK, Views
    <2> QED
      BY <1>1, <2>1
      DEF ViewInv, ShownParts, StoredParts, OwnMessages, Counted, OpenedInTime, Following, Longer,
          NeedsResume
  <1>4. CASE OpensBlind
    <2>1. /\ view.at = "opening" /\ view'.send = view.send /\ view'.baseline = view.baseline
          /\ view'.last = view.last /\ view'.status = view.status
          /\ \/ view'.at = "ready" /\ view'.outcome = "blind"
             \/ view'.at = "resuming" /\ view'.outcome = "none" /\ view.last = "user"
          /\ UNCHANGED <<sub, history>>
      BY <1>1, <1>4 DEF OpensBlind, NeedsResume, TypeOK, Views
    <2> QED
      BY <1>1, <2>1
      DEF ViewInv, ShownParts, StoredParts, OwnMessages, Counted, OpenedInTime, Following, Longer
  <1> QED
    BY <1>2, <1>3, <1>4

\* A poll, or the last one.
LEMMA ViewPolls ==
    ASSUME TypeOK, ViewInv, Earlier, Polls \/ PollFails \/ GivesUp
    PROVE  ViewInv'
  <1>1. /\ view.at \in {"polling", "resuming"} /\ view.outcome = "none"
        /\ UNCHANGED <<chat, run, sub>> /\ view'.send = view.send
        /\ view'.baseline = view.baseline /\ view'.last = view.last
        /\ history'.refused = history.refused /\ history'.early = history.early
        /\ history'.unposted = history.unposted
    BY ZenonT(40) DEF Polls, PollFails, GivesUp, ViewInv, ShownParts, TypeOK, Views
  <1>2. view.tries \in Nat /\ chat.count \in Nat /\ view.baseline \in Nat
    BY ConstantsAssumption DEF TypeOK, Views, Chats
  <1>3. \/ view'.at = "ready" /\ view'.outcome = "failed"
        \/ /\ view'.at = "ready" /\ view'.outcome = "recovered"
           /\ view'.message = chat.latest /\ view'.status = chat.status
           /\ chat.status = "failed" \/ Found
        \/ view'.at = view.at /\ view'.outcome = "none"
    BY <1>1, ZenonT(40) DEF Polls, PollFails, GivesUp, TypeOK, Views
  <1>4. history'.missed => history.missed \/ (chat.latest = Assistant(view.send) /\ ~Found)
    <2> SUFFICES ASSUME history'.missed, ~history.missed
                 PROVE  chat.latest = Assistant(view.send) /\ ~Found
      OBVIOUS
    <2>1. Polls /\ history' = [history EXCEPT !.missed =
              @ \/ (view'.tries > view.tries /\ chat.latest = Assistant(view.send))]
      BY DEF Polls, PollFails, GivesUp
    <2>2. view'.tries > view.tries /\ chat.latest = Assistant(view.send)
      BY <2>1, Zenon DEF TypeOK
    <2>3. view'.tries # view.tries
      BY <1>2, <2>2
    <2>4. ~Found
      BY <1>2, <2>1, <2>3 DEF Polls, TypeOK, Views
    <2> QED
      BY <2>2, <2>4
  <1>5. User(view.send).role = "user" /\ Assistant(view.send).role = "assistant"
    BY DEF User, Assistant
  <1>6. ShownParts' /\ StoredParts'
    BY <1>1, <1>3 DEF ViewInv, ShownParts, StoredParts
  <1>7. OwnMessages'
    BY <1>1, <1>3, <1>5 DEF ViewInv, OwnMessages, Following, Found
  <1>8. Counted'
    <2>1. history.unposted => chat.latest # Assistant(view.send)
      <3>1. view.send \in Nat /\ Assistant(view.send).of = view.send
        BY ConstantsAssumption DEF TypeOK, Views, Assistant
      <3> QED
        BY <3>1 DEF Earlier
    <2> QED
      BY <1>1, <1>2, <1>3, <1>4, <1>5, <2>1 DEF ViewInv, Counted, Longer, Found
  <1>9. OpenedInTime'
    BY <1>1, <1>3 DEF ViewInv, OpenedInTime
  <1> QED
    BY <1>6, <1>7, <1>8, <1>9 DEF ViewInv

\* Every step keeps ViewInv.
LEMMA ViewNext == TypeOK /\ ViewInv /\ Earlier /\ [Next]_vars => ViewInv'
  <1> SUFFICES ASSUME TypeOK, ViewInv, Earlier, [Next]_vars PROVE ViewInv'
    OBVIOUS
  <1>1. CASE UNCHANGED vars
    BY <1>1, ViewFrame DEF vars
  <1>2. CASE BrowserStep
    BY <1>2, ViewAsks, ViewPosts, ViewPostFails, ViewReads, ViewLeaves, ViewOpens, ViewPolls
    DEF BrowserStep
  <1> QED
    BY <1>1, <1>2, ViewAgent, ViewEngine, ViewRun DEF Next

\* For any queue, limit of messages and number of polls, and whatever requests of the page
\* fail: it shows the parts of its own run, complete and in order, or finds the stored reply
\* to its own message, except in the cases BrowserShowsReply names, one of which is a message
\* that never came to be stored.
THEOREM ReplyIsShown == Spec => []BrowserShowsReply
  <1>1. Init => TypeOK /\ ViewInv /\ Earlier
    BY InitType, ViewInit, EarlierInit
  <1>2. TypeOK /\ ViewInv /\ Earlier /\ [Next]_vars => TypeOK' /\ ViewInv' /\ Earlier'
    BY NextType, ViewNext, EarlierNext
  <1>3. TypeOK /\ ViewInv => BrowserShowsReply
    <2> SUFFICES ASSUME TypeOK, ViewInv PROVE BrowserShowsReply
      OBVIOUS
    <2>1. view.last \in {"user", "assistant"} /\ Assistant(view.send).role = "assistant"
      BY DEF TypeOK, Views, Assistant
    <2> QED
      BY <2>1
      DEF BrowserShowsReply, ViewInv, ShownParts, StoredParts, OwnMessages, Counted, OpenedInTime
  <1> QED
    BY <1>1, <1>2, <1>3, PTL DEF Spec
=============================================================================
