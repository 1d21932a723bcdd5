------------------------- MODULE Whiteboard_proofs -------------------------
(* Proofs about Whiteboard: for every number of replicas and every value   *)
(* of the bounds, the boards agree with what the authority showed, a       *)
(* proposal is committed at most once and never across a barrier.          *)
EXTENDS Whiteboard, FiniteSetTheorems, SequenceTheorems,
        WellFoundedInduction, TLAPS

-----------------------------------------------------------------------------
(* Sequences of any elements.                                              *)

IsSequence(s) == s \in Seq(Range(s))

LEMMA SequenceOver ==
  ASSUME NEW S, NEW s \in Seq(S)
  PROVE  IsSequence(s) /\ Range(s) \subseteq S
<1>1. Range(s) \subseteq S
  BY DEF Range
<1>2. s \in Seq(Range(s))
  BY DEF Range
<1> QED BY <1>1, <1>2 DEF IsSequence

LEMMA SequenceIsFunction ==
  ASSUME NEW s, IsSequence(s)
  PROVE  /\ Len(s) \in Nat /\ DOMAIN s = 1 .. Len(s)
         /\ s = [i \in 1 .. Len(s) |-> s[i]]
         /\ \A i \in 1 .. Len(s) : s[i] \in Range(s)
         /\ \A x \in Range(s) : \E i \in 1 .. Len(s) : x = s[i]
BY DEF IsSequence, Range

LEMMA FunctionIsSequence ==
  ASSUME NEW n \in Nat, NEW s, s = [i \in 1 .. n |-> s[i]]
  PROVE  IsSequence(s) /\ Len(s) = n /\ DOMAIN s = 1 .. n
<1>1. s \in [1 .. n -> Range(s)]
  BY DEF Range
<1>2. s \in Seq(Range(s))
  BY <1>1
<1> QED BY <1>1, <1>2 DEF IsSequence

LEMMA SequenceIn ==
  ASSUME NEW s, IsSequence(s), NEW S, Range(s) \subseteq S
  PROVE  s \in Seq(S)
<1>1. Len(s) \in Nat /\ s \in [1 .. Len(s) -> Range(s)]
  BY DEF IsSequence
<1>2. s \in [1 .. Len(s) -> S]
  BY <1>1
<1> QED BY <1>1, <1>2

LEMMA EmptySequence == IsSequence(<<>>) /\ Len(<<>>) = 0 /\ Range(<<>>) = {}
BY DEF IsSequence, Range

LEMMA SingleSequence ==
  ASSUME NEW x
  PROVE  IsSequence(<<x>>) /\ Len(<<x>>) = 1 /\ Range(<<x>>) = {x} /\ <<x>>[1] = x
BY DEF IsSequence, Range

LEMMA SequenceAppend ==
  ASSUME NEW s, IsSequence(s), NEW x
  PROVE  /\ IsSequence(Append(s, x)) /\ Len(Append(s, x)) = Len(s) + 1
         /\ Range(Append(s, x)) \subseteq Range(s) \cup {x}
         /\ \A i \in 1 .. Len(s) : Append(s, x)[i] = s[i]
         /\ Append(s, x)[Len(s) + 1] = x
<1> DEFINE S == Range(s) \cup {x}
<1>1. s \in Seq(S)
  BY SequenceIn
<1>2. x \in S
  OBVIOUS
<1> HIDE DEF S
<1>3. Append(s, x) \in Seq(S) /\ Len(Append(s, x)) = Len(s) + 1
  BY <1>1, <1>2
<1>4. /\ \A i \in 1 .. Len(s) : Append(s, x)[i] = s[i]
      /\ Append(s, x)[Len(s) + 1] = x
  BY <1>1, <1>2
<1>5. IsSequence(Append(s, x)) /\ Range(Append(s, x)) \subseteq S
  BY <1>3, SequenceOver
<1> QED BY <1>3, <1>4, <1>5 DEF S

LEMMA SequenceTail ==
  ASSUME NEW s, IsSequence(s), s # <<>>
  PROVE  /\ IsSequence(Tail(s)) /\ Len(Tail(s)) = Len(s) - 1 /\ Len(s) \in Nat \ {0}
         /\ Range(Tail(s)) \subseteq Range(s)
         /\ Head(s) = s[1] /\ Head(s) \in Range(s)
         /\ \A i \in 1 .. Len(s) - 1 : Tail(s)[i] = s[i + 1]
<1> DEFINE S == Range(s)
<1>1. s \in Seq(S) /\ s # <<>>
  BY DEF IsSequence
<1> HIDE DEF S
<1>2. /\ Tail(s) \in Seq(S) /\ Len(Tail(s)) = Len(s) - 1 /\ Len(s) \in Nat \ {0}
      /\ Head(s) = s[1] /\ Head(s) \in S
  BY <1>1
<1>3. \A i \in 1 .. Len(s) - 1 : Tail(s)[i] = s[i + 1]
  BY <1>1
<1>4. IsSequence(Tail(s)) /\ Range(Tail(s)) \subseteq S
  BY <1>2, SequenceOver
<1> QED BY <1>2, <1>3, <1>4 DEF S

LEMMA SequenceConcat ==
  ASSUME NEW s, IsSequence(s), NEW t, IsSequence(t)
  PROVE  /\ IsSequence(s \o t) /\ Len(s \o t) = Len(s) + Len(t)
         /\ Range(s \o t) \subseteq Range(s) \cup Range(t)
         /\ \A i \in 1 .. Len(s) + Len(t) :
              (s \o t)[i] = IF i <= Len(s) THEN s[i] ELSE t[i - Len(s)]
<1> DEFINE S == Range(s) \cup Range(t)
<1>1. s \in Seq(S) /\ t \in Seq(S)
  BY SequenceIn
<1> HIDE DEF S
<1>2. s \o t \in Seq(S) /\ Len(s \o t) = Len(s) + Len(t)
  BY <1>1
<1>3. \A i \in 1 .. Len(s) + Len(t) :
        (s \o t)[i] = IF i <= Len(s) THEN s[i] ELSE t[i - Len(s)]
  BY <1>1
<1>4. IsSequence(s \o t) /\ Range(s \o t) \subseteq S
  BY <1>2, SequenceOver
<1> QED BY <1>2, <1>3, <1>4 DEF S

\* A part of a sequence, between positions it has.
LEMMA SequencePart ==
  ASSUME NEW s, IsSequence(s), NEW m \in Nat \ {0}, NEW n \in Int, n <= Len(s), m <= n + 1
  PROVE  /\ IsSequence(SubSeq(s, m, n)) /\ Len(SubSeq(s, m, n)) = n - m + 1
         /\ Range(SubSeq(s, m, n)) \subseteq Range(s)
         /\ \A i \in 1 .. n - m + 1 : SubSeq(s, m, n)[i] = s[m + i - 1]
<1>1. Len(s) \in Nat /\ \A i \in 1 .. Len(s) : s[i] \in Range(s)
  BY SequenceIsFunction
<1>2. m \in Int /\ n \in Int /\ \A i \in m .. n : s[i] \in Range(s)
  BY <1>1
<1>3. /\ SubSeq(s, m, n) \in Seq(Range(s))
      /\ Len(SubSeq(s, m, n)) = IF m <= n THEN n - m + 1 ELSE 0
      /\ \A i \in 1 .. n - m + 1 : SubSeq(s, m, n)[i] = s[m + i - 1]
  BY <1>2, SubSeqProperties
<1>4. IsSequence(SubSeq(s, m, n)) /\ Range(SubSeq(s, m, n)) \subseteq Range(s)
  BY <1>3, SequenceOver
<1>5. (IF m <= n THEN n - m + 1 ELSE 0) = n - m + 1
  OBVIOUS
<1> QED BY <1>3, <1>4, <1>5

-----------------------------------------------------------------------------
(* Least and greatest positions.                                           *)

LEMMA LeastNatural ==
  ASSUME NEW T, T \subseteq Nat, T # {}
  PROVE  \E m \in T : \A k \in T : m <= k
<1> DEFINE R == OpToRel(<, Nat)
<1>1. IsWellFoundedOn(R, Nat)
  BY NatLessThanWellFounded
<1>2. PICK m \in T : \A k \in T : ~(<<k, m>> \in R)
  BY <1>1, WFMin
<1>3. \A k \in T : ~(k < m)
  BY <1>2 DEF OpToRel
<1> QED BY <1>3

\* Induction, for a set of numbers that is given.
LEMMA SetInduction ==
  ASSUME NEW T, 0 \in T, \A n \in Nat : n \in T => n + 1 \in T
  PROVE  \A n \in Nat : n \in T
<1> SUFFICES ASSUME NEW k \in Nat, k \notin T PROVE FALSE
  OBVIOUS
<1> DEFINE C == {n \in Nat : n \notin T}
<1>1. k \in C /\ C \subseteq Nat
  OBVIOUS
<1>2. PICK m \in C : \A n \in C : m <= n
  <2> HIDE DEF C
  <2> QED BY <1>1, LeastNatural
<1>3. m \in Nat /\ m # 0
  OBVIOUS
<1>4. m - 1 \in Nat /\ ~(m <= m - 1)
  BY <1>3
<1>5. m - 1 \in T
  BY <1>2, <1>4
<1>6. m - 1 + 1 \in T
  BY <1>4, <1>5
<1>7. m - 1 + 1 = m
  BY <1>3
<1> QED BY <1>6, <1>7

LEMMA MinOfPositions ==
  ASSUME NEW I, I \subseteq Nat, I # {}
  PROVE  Min(I) \in I /\ \A i \in I : Min(I) <= i
BY LeastNatural DEF Min

LEMMA MaxOfPositions ==
  ASSUME NEW n \in Nat, NEW I, I \subseteq 1 .. n, I # {}
  PROVE  Max(I) \in I /\ \A i \in I : i <= Max(I)
<1> DEFINE T == {m \in Nat : \A i \in I : i <= m}
<1>1. n \in T
  OBVIOUS
<1>2. PICK m \in T : \A k \in T : m <= k
  BY <1>1, LeastNatural
<1>3. m \in I
  <2> SUFFICES ASSUME m \notin I PROVE FALSE
    OBVIOUS
  <2>1. m \in Nat /\ \A i \in I : i <= m /\ i # m /\ i \in Nat /\ i >= 1
    BY <1>2
  <2>2. m # 0
    <3>1. PICK i \in I : TRUE
      OBVIOUS
    <3>2. i <= m /\ i \in Nat /\ i >= 1 /\ m \in Nat
      BY <2>1
    <3> QED BY <3>2
  <2>3. m - 1 \in Nat
    BY <2>1, <2>2
  <2>4. ASSUME NEW i \in I PROVE i <= m - 1
    <3>1. i <= m /\ i # m /\ i \in Nat /\ m \in Nat
      BY <2>1
    <3> QED BY <3>1
  <2>5. m - 1 \in T
    BY <2>3, <2>4
  <2>6. m <= m - 1
    BY <1>2, <2>5
  <2> QED BY <2>1, <2>6
<1>4. \A i \in I : m >= i
  BY <1>2
<1> QED BY <1>3, <1>4 DEF Max

LEMMA MaxOfInterval ==
  ASSUME NEW n \in Nat \ {0}
  PROVE  Max(1 .. n) = n /\ (1 .. n) \ {n} = 1 .. n - 1
<1> DEFINE I == 1 .. n
<1>1. n \in Nat /\ I \subseteq 1 .. n /\ I # {} /\ n \in I
  OBVIOUS
<1>2. Max(I) \in I /\ \A i \in I : i <= Max(I)
  <2> HIDE DEF I
  <2> QED BY <1>1, MaxOfPositions
<1> DEFINE m == Max(I)
<1>3. m \in 1 .. n /\ n <= m
  BY <1>1, <1>2
<1> HIDE DEF m
<1>4. m = n
  BY <1>3
<1> QED BY <1>4 DEF m

\* A set of positions with a new greatest one.
LEMMA MaxOfExtended ==
  ASSUME NEW n \in Nat, NEW S, S \subseteq 1 .. n + 1, n + 1 \in S
  PROVE  Max(S) = n + 1 /\ S \ {n + 1} \subseteq 1 .. n
<1>1. n + 1 \in Nat /\ S # {}
  OBVIOUS
<1>2. Max(S) \in S /\ \A i \in S : i <= Max(S)
  BY <1>1, MaxOfPositions
<1> DEFINE m == Max(S)
<1>3. m \in 1 .. n + 1 /\ n + 1 <= m
  BY <1>2
<1> HIDE DEF m
<1>4. m = n + 1
  BY <1>3
<1>5. S \ {n + 1} \subseteq 1 .. n
  OBVIOUS
<1> QED BY <1>4, <1>5 DEF m

-----------------------------------------------------------------------------
(* Keep.                                                                   *)

LEMMA KeepFold ==
  ASSUME NEW s, IsSequence(s), NEW W
  PROVE  \E f : /\ f = [S \in SUBSET (1 .. Len(s)) |->
                         IF S = {} THEN <<>>
                         ELSE IF s[Max(S)] \in W
                              THEN Append(f[S \ {Max(S)}], s[Max(S)])
                              ELSE f[S \ {Max(S)}]]
                /\ Keep(s, W) = f[1 .. Len(s)]
<1> DEFINE Next1(g, S) == IF S = {} THEN <<>>
                         ELSE IF s[Max(S)] \in W
                              THEN Append(g[S \ {Max(S)}], s[Max(S)])
                              ELSE g[S \ {Max(S)}]
           Upto(f, n) == f = [S \in SUBSET (1 .. n) |-> Next1(f, S)]
<1>1. DOMAIN s = 1 .. Len(s) /\ Len(s) \in Nat
  BY SequenceIsFunction
<1>2. Keep(s, W) = (CHOOSE f : Upto(f, Len(s)))[1 .. Len(s)]
  BY <1>1 DEF Keep, FoldLeft, MapThenFoldSet
<1>3. \E f : Upto(f, 0)
  <2> DEFINE g == [S \in SUBSET (1 .. 0) |-> <<>>]
  <2>1. \A S \in SUBSET (1 .. 0) : S = {}
    OBVIOUS
  <2>2. Upto(g, 0)
    BY <2>1
  <2> QED BY <2>2
<1>4. ASSUME NEW n \in Nat, \E f : Upto(f, n) PROVE \E f : Upto(f, n + 1)
  <2>1. PICK f : Upto(f, n)
    BY <1>4
  <2> DEFINE g == [S \in SUBSET (1 .. n + 1) |->
                     IF n + 1 \in S THEN Next1(f, S) ELSE f[S]]
  <2>2. ASSUME NEW S \in SUBSET (1 .. n + 1) PROVE g[S] = Next1(g, S)
    <3>1. CASE n + 1 \in S
      <4>1. Max(S) = n + 1 /\ S \ {n + 1} \in SUBSET (1 .. n + 1) /\ S # {}
        BY <3>1, MaxOfExtended
      <4>2. g[S \ {Max(S)}] = f[S \ {Max(S)}]
        BY <4>1
      <4> QED BY <3>1, <4>1, <4>2
    <3>2. CASE n + 1 \notin S
      <4>1. S \in SUBSET (1 .. n)
        BY <3>2
      <4>2. f[S] = Next1(f, S)
        BY <2>1, <4>1
      <4>3. S # {} => S \ {Max(S)} \in SUBSET (1 .. n + 1) /\ n + 1 \notin S \ {Max(S)}
        BY <3>2
      <4>4. S # {} => g[S \ {Max(S)}] = f[S \ {Max(S)}]
        BY <4>3
      <4> QED BY <3>2, <4>2, <4>4
    <3> QED BY <3>1, <3>2
  <2>3. Upto(g, n + 1)
    BY <2>2
  <2> QED BY <2>3
<1>5. \E f : Upto(f, Len(s))
  <2> HIDE DEF Upto
  <2> DEFINE T == {n \in Nat : \E f : Upto(f, n)}
  <2>1. 0 \in T
    BY <1>3
  <2>2. \A n \in Nat : n \in T => n + 1 \in T
    BY <1>4
  <2>3. Len(s) \in T
    <3> HIDE DEF T
    <3> QED BY <1>1, <2>1, <2>2, SetInduction
  <2> QED BY <2>3
<1>6. Upto(CHOOSE f : Upto(f, Len(s)), Len(s))
  BY <1>5
<1> QED BY <1>2, <1>6

\* The value after each element.
LEMMA KeepSteps ==
  ASSUME NEW s, IsSequence(s), NEW W
  PROVE  \E k : /\ k[0] = <<>> /\ Keep(s, W) = k[Len(s)]
                /\ \A n \in 0 .. Len(s) - 1 :
                     k[n + 1] = IF s[n + 1] \in W THEN Append(k[n], s[n + 1]) ELSE k[n]
<1>1. Len(s) \in Nat
  BY SequenceIsFunction
<1>2. PICK f : /\ f = [S \in SUBSET (1 .. Len(s)) |->
                         IF S = {} THEN <<>>
                         ELSE IF s[Max(S)] \in W
                              THEN Append(f[S \ {Max(S)}], s[Max(S)])
                              ELSE f[S \ {Max(S)}]]
               /\ Keep(s, W) = f[1 .. Len(s)]
  BY KeepFold
<1> DEFINE k == [n \in 0 .. Len(s) |-> f[1 .. n]]
<1>3. k[0] = <<>> /\ Keep(s, W) = k[Len(s)]
  <2>1. (1 .. 0) = {} /\ {} \in SUBSET (1 .. Len(s)) /\ 0 \in 0 .. Len(s) /\ Len(s) \in 0 .. Len(s)
    BY <1>1
  <2>2. f[{}] = <<>>
    BY <1>2, <2>1
  <2> QED BY <1>2, <2>1, <2>2
<1>4. ASSUME NEW n \in 0 .. Len(s) - 1
      PROVE  k[n + 1] = IF s[n + 1] \in W THEN Append(k[n], s[n + 1]) ELSE k[n]
  <2>1. n \in Nat /\ n + 1 \in Nat \ {0} /\ n + 1 \in 0 .. Len(s) /\ n \in 0 .. Len(s)
    BY <1>1
  <2>2. Max(1 .. n + 1) = n + 1 /\ (1 .. n + 1) \ {n + 1} = 1 .. n + 1 - 1 /\ n + 1 - 1 = n
    BY <2>1, MaxOfInterval
  <2>3. (1 .. n + 1) # {} /\ (1 .. n + 1) \in SUBSET (1 .. Len(s))
    <3>1. n + 1 \in 1 .. n + 1
      BY <2>1
    <3>2. n + 1 <= Len(s)
      BY <1>1, <2>1
    <3> QED BY <1>1, <2>1, <3>1, <3>2
  <2>4. f[1 .. n + 1] = IF s[n + 1] \in W THEN Append(f[1 .. n], s[n + 1]) ELSE f[1 .. n]
    BY <1>2, <2>2, <2>3
  <2> QED BY <2>1, <2>4
<1> QED BY <1>3, <1>4

LEMMA KeepIsSequence ==
  ASSUME NEW s, IsSequence(s), NEW W
  PROVE  IsSequence(Keep(s, W)) /\ Range(Keep(s, W)) \subseteq Range(s) \cap W
<1>1. Len(s) \in Nat /\ \A i \in 1 .. Len(s) : s[i] \in Range(s)
  BY SequenceIsFunction
<1>2. PICK k : /\ k[0] = <<>> /\ Keep(s, W) = k[Len(s)]
               /\ \A n \in 0 .. Len(s) - 1 :
                    k[n + 1] = IF s[n + 1] \in W THEN Append(k[n], s[n + 1]) ELSE k[n]
  BY KeepSteps
<1> DEFINE T == {n \in Nat : n <= Len(s) =>
                   IsSequence(k[n]) /\ Range(k[n]) \subseteq Range(s) \cap W}
<1>3. 0 \in T
  BY <1>2, EmptySequence
<1>4. ASSUME NEW n \in Nat, n \in T PROVE n + 1 \in T
  <2> SUFFICES ASSUME n + 1 <= Len(s)
               PROVE  IsSequence(k[n + 1]) /\ Range(k[n + 1]) \subseteq Range(s) \cap W
    OBVIOUS
  <2>1. n \in 0 .. Len(s) - 1 /\ n <= Len(s) /\ n + 1 \in 1 .. Len(s)
    BY <1>1
  <2>2. IsSequence(k[n]) /\ Range(k[n]) \subseteq Range(s) \cap W
    BY <1>4, <2>1
  <2>3. k[n + 1] = IF s[n + 1] \in W THEN Append(k[n], s[n + 1]) ELSE k[n]
    BY <1>2, <2>1
  <2>4. s[n + 1] \in Range(s)
    BY <1>1, <2>1
  <2>5. /\ IsSequence(Append(k[n], s[n + 1]))
        /\ Range(Append(k[n], s[n + 1])) \subseteq Range(k[n]) \cup {s[n + 1]}
    BY <2>2, SequenceAppend
  <2> QED BY <2>2, <2>3, <2>4, <2>5
<1>5. Len(s) \in T
  <2> HIDE DEF T
  <2> QED BY <1>1, <1>3, <1>4, SetInduction
<1> QED BY <1>1, <1>2, <1>5

-----------------------------------------------------------------------------
(* The last part of a sequence, and what leaves one in place.              *)

\* s is how t ends.
SuffixOf(s, t) ==
  Len(s) <= Len(t) /\ \A i \in 1 .. Len(s) : s[i] = t[Len(t) - Len(s) + i]

LEMMA SuffixEmpty ==
  ASSUME NEW t, IsSequence(t)
  PROVE  SuffixOf(<<>>, t)
<1>1. Len(t) \in Nat /\ Len(<<>>) = 0
  BY SequenceIsFunction, EmptySequence
<1> QED BY <1>1 DEF SuffixOf

LEMMA SuffixAppend ==
  ASSUME NEW s, IsSequence(s), NEW t, IsSequence(t), SuffixOf(s, t), NEW x
  PROVE  SuffixOf(Append(s, x), Append(t, x))
<1>1. Len(s) \in Nat /\ Len(t) \in Nat
  BY SequenceIsFunction
<1> DEFINE u == Append(s, x) v == Append(t, x)
<1>2. /\ Len(u) = Len(s) + 1 /\ u[Len(s) + 1] = x
      /\ \A i \in 1 .. Len(s) : u[i] = s[i]
  BY SequenceAppend
<1>3. /\ Len(v) = Len(t) + 1 /\ v[Len(t) + 1] = x
      /\ \A i \in 1 .. Len(t) : v[i] = t[i]
  BY SequenceAppend
<1> HIDE DEF u, v
<1>4. Len(s) <= Len(t) /\ \A i \in 1 .. Len(s) : s[i] = t[Len(t) - Len(s) + i]
  BY DEF SuffixOf
<1>5. ASSUME NEW i \in 1 .. Len(u) PROVE u[i] = v[Len(v) - Len(u) + i]
  <2>1. Len(v) - Len(u) + i = Len(t) - Len(s) + i /\ Len(t) - Len(s) + i \in 1 .. Len(t) + 1
    BY <1>1, <1>2, <1>3, <1>4
  <2>2. CASE i = Len(s) + 1
    <3>1. Len(t) - Len(s) + i = Len(t) + 1
      BY <1>1, <2>2
    <3> QED BY <1>2, <1>3, <2>1, <2>2, <3>1
  <2>3. CASE i # Len(s) + 1
    <3>1. i \in 1 .. Len(s) /\ Len(t) - Len(s) + i \in 1 .. Len(t)
      BY <1>1, <1>2, <1>4, <2>3
    <3> QED BY <1>2, <1>3, <1>4, <2>1, <3>1
  <2> QED BY <2>2, <2>3
<1>6. SuffixOf(u, v)
  BY <1>1, <1>2, <1>3, <1>4, <1>5 DEF SuffixOf
<1> QED BY <1>6 DEF u, v

LEMMA SuffixTails ==
  ASSUME NEW s, IsSequence(s), NEW t, IsSequence(t), SuffixOf(s, t)
  PROVE  /\ Len(s) # Len(t) => SuffixOf(s, Tail(t))
         /\ s # <<>> => SuffixOf(Tail(s), t)
         /\ s # <<>> /\ Len(s) = Len(t) => SuffixOf(Tail(s), Tail(t))
<1>1. Len(s) \in Nat /\ Len(t) \in Nat
  BY SequenceIsFunction
<1>2. Len(s) <= Len(t) /\ \A i \in 1 .. Len(s) : s[i] = t[Len(t) - Len(s) + i]
  BY DEF SuffixOf
<1>3. Len(t) # 0 => t # <<>>
  BY EmptySequence
<1> DEFINE u == Tail(s) v == Tail(t)
<1>4. s # <<>> => /\ Len(u) = Len(s) - 1 /\ Len(s) # 0
                  /\ \A i \in 1 .. Len(s) - 1 : u[i] = s[i + 1]
  BY SequenceTail
<1>5. t # <<>> => /\ Len(v) = Len(t) - 1
                  /\ \A i \in 1 .. Len(t) - 1 : v[i] = t[i + 1]
  BY SequenceTail
<1> HIDE DEF u, v
<1>6. ASSUME Len(s) # Len(t) PROVE SuffixOf(s, v)
  <2>1. Len(v) = Len(t) - 1 /\ \A i \in 1 .. Len(t) - 1 : v[i] = t[i + 1]
    BY <1>1, <1>2, <1>3, <1>5, <1>6
  <2>2. ASSUME NEW i \in 1 .. Len(s) PROVE s[i] = v[Len(v) - Len(s) + i]
    <3>1. /\ Len(v) - Len(s) + i \in 1 .. Len(t) - 1
          /\ Len(v) - Len(s) + i + 1 = Len(t) - Len(s) + i
      BY <1>1, <1>2, <1>6, <2>1
    <3> QED BY <1>2, <2>1, <3>1
  <2> QED BY <1>1, <1>2, <1>6, <2>1, <2>2 DEF SuffixOf
<1>7. ASSUME s # <<>> PROVE SuffixOf(u, t)
  <2>1. Len(u) = Len(s) - 1 /\ Len(s) # 0 /\ \A i \in 1 .. Len(s) - 1 : u[i] = s[i + 1]
    BY <1>4, <1>7
  <2>2. ASSUME NEW i \in 1 .. Len(u) PROVE u[i] = t[Len(t) - Len(u) + i]
    <3>1. /\ i \in 1 .. Len(s) - 1 /\ i + 1 \in 1 .. Len(s)
          /\ Len(t) - Len(u) + i = Len(t) - Len(s) + (i + 1)
      BY <1>1, <2>1
    <3> QED BY <1>2, <2>1, <3>1
  <2> QED BY <1>1, <1>2, <2>1, <2>2 DEF SuffixOf
<1>8. ASSUME s # <<>>, Len(s) = Len(t) PROVE SuffixOf(u, v)
  <2>1. Len(u) = Len(s) - 1 /\ Len(s) # 0 /\ \A i \in 1 .. Len(s) - 1 : u[i] = s[i + 1]
    BY <1>4, <1>8
  <2>2. Len(v) = Len(t) - 1 /\ \A i \in 1 .. Len(t) - 1 : v[i] = t[i + 1]
    BY <1>3, <1>5, <1>8, <2>1
  <2>3. ASSUME NEW i \in 1 .. Len(u) PROVE u[i] = v[Len(v) - Len(u) + i]
    <3>1. /\ i \in 1 .. Len(s) - 1 /\ i \in 1 .. Len(t) - 1 /\ i + 1 \in 1 .. Len(s)
          /\ Len(v) - Len(u) + i = i /\ Len(t) - Len(s) + (i + 1) = i + 1
      BY <1>1, <1>8, <2>1, <2>2
    <3> QED BY <1>2, <2>1, <2>2, <3>1
  <2> QED BY <1>1, <1>8, <2>1, <2>2, <2>3 DEF SuffixOf
<1> QED BY <1>6, <1>7, <1>8 DEF u, v

LEMMA SequenceRemoveAt ==
  ASSUME NEW s, IsSequence(s), NEW i \in 1 .. Len(s)
  PROVE  /\ IsSequence(RemoveAt(s, i)) /\ Len(RemoveAt(s, i)) = Len(s) - 1
         /\ Range(RemoveAt(s, i)) \subseteq Range(s)
         /\ \A j \in 1 .. Len(s) - 1 :
              RemoveAt(s, i)[j] = IF j < i THEN s[j] ELSE s[j + 1]
<1>1. Len(s) \in Nat
  BY SequenceIsFunction
<1> DEFINE a == SubSeq(s, 1, i - 1) b == SubSeq(s, i + 1, Len(s))
<1>2. 1 \in Nat \ {0} /\ i - 1 \in Int /\ i - 1 <= Len(s) /\ 1 <= i - 1 + 1
  BY <1>1
<1>3. /\ IsSequence(a) /\ Len(a) = i - 1 - 1 + 1 /\ Range(a) \subseteq Range(s)
      /\ \A j \in 1 .. i - 1 - 1 + 1 : a[j] = s[1 + j - 1]
  BY <1>2, SequencePart
<1>4. i + 1 \in Nat \ {0} /\ Len(s) \in Int /\ Len(s) <= Len(s) /\ i + 1 <= Len(s) + 1
  BY <1>1
<1>5. /\ IsSequence(b) /\ Len(b) = Len(s) - (i + 1) + 1 /\ Range(b) \subseteq Range(s)
      /\ \A j \in 1 .. Len(s) - (i + 1) + 1 : b[j] = s[i + 1 + j - 1]
  BY <1>4, SequencePart
<1> DEFINE c == a \o b
<1>6. RemoveAt(s, i) = c
  BY DEF RemoveAt
<1> HIDE DEF a, b
<1>7. /\ IsSequence(c) /\ Len(c) = Len(a) + Len(b) /\ Range(c) \subseteq Range(a) \cup Range(b)
      /\ \A j \in 1 .. Len(a) + Len(b) : c[j] = IF j <= Len(a) THEN a[j] ELSE b[j - Len(a)]
  BY <1>3, <1>5, SequenceConcat
<1> HIDE DEF c
<1>8. Len(a) = i - 1 /\ Len(b) = Len(s) - i /\ Len(a) + Len(b) = Len(s) - 1
  BY <1>1, <1>3, <1>5
<1>9. ASSUME NEW j \in 1 .. Len(s) - 1 PROVE c[j] = IF j < i THEN s[j] ELSE s[j + 1]
  <2>1. c[j] = IF j <= Len(a) THEN a[j] ELSE b[j - Len(a)]
    BY <1>7, <1>8
  <2>2. CASE j < i
    <3>1. j \in 1 .. i - 1 - 1 + 1 /\ j <= Len(a) /\ 1 + j - 1 = j
      BY <1>1, <1>8, <2>2
    <3> QED BY <1>3, <2>1, <2>2, <3>1
  <2>3. CASE ~(j < i)
    <3>1. /\ j - Len(a) \in 1 .. Len(s) - (i + 1) + 1 /\ ~(j <= Len(a))
          /\ i + 1 + (j - Len(a)) - 1 = j + 1
      BY <1>1, <1>8, <2>3
    <3> QED BY <1>5, <2>1, <2>3, <3>1
  <2> QED BY <2>2, <2>3
<1> QED BY <1>3, <1>5, <1>6, <1>7, <1>8, <1>9

LEMMA SuffixRemoveAt ==
  ASSUME NEW s, IsSequence(s), NEW t, IsSequence(t), SuffixOf(s, t), NEW i \in 1 .. Len(s)
  PROVE  SuffixOf(RemoveAt(s, i), RemoveAt(t, Len(t) - Len(s) + i))
<1>1. Len(s) \in Nat /\ Len(t) \in Nat
  BY SequenceIsFunction
<1>2. Len(s) <= Len(t) /\ \A j \in 1 .. Len(s) : s[j] = t[Len(t) - Len(s) + j]
  BY DEF SuffixOf
<1> DEFINE k == Len(t) - Len(s) + i
           u == RemoveAt(s, i)
           v == RemoveAt(t, k)
<1>3. k \in 1 .. Len(t)
  BY <1>1, <1>2
<1>4. Len(u) = Len(s) - 1 /\ \A j \in 1 .. Len(s) - 1 : u[j] = IF j < i THEN s[j] ELSE s[j + 1]
  BY SequenceRemoveAt
<1>5. Len(v) = Len(t) - 1 /\ \A j \in 1 .. Len(t) - 1 : v[j] = IF j < k THEN t[j] ELSE t[j + 1]
  BY <1>3, SequenceRemoveAt
<1> HIDE DEF u, v
<1>6. ASSUME NEW j \in 1 .. Len(u) PROVE u[j] = v[Len(v) - Len(u) + j]
  <2> DEFINE m == Len(v) - Len(u) + j
  <2>1. /\ m = Len(t) - Len(s) + j /\ m \in 1 .. Len(t) - 1 /\ j \in 1 .. Len(s) - 1
        /\ (m < k <=> j < i) /\ m + 1 = Len(t) - Len(s) + (j + 1)
        /\ j \in 1 .. Len(s) /\ j + 1 \in 1 .. Len(s)
    BY <1>1, <1>2, <1>4, <1>5
  <2> HIDE DEF m, k
  <2>2. s[j] = t[m] /\ s[j + 1] = t[m + 1]
    BY <1>2, <2>1
  <2>3. u[j] = v[m]
    BY <1>4, <1>5, <2>1, <2>2
  <2> QED BY <2>3 DEF m
<1>7. SuffixOf(u, v)
  BY <1>1, <1>2, <1>4, <1>5, <1>6 DEF SuffixOf
<1> QED BY <1>7 DEF u, v

LEMMA SuffixKeep ==
  ASSUME NEW s, IsSequence(s), NEW t, IsSequence(t), SuffixOf(s, t),
         NEW V, NEW W, \A x \in Range(s) : x \in V <=> x \in W
  PROVE  SuffixOf(Keep(s, V), Keep(t, W))
<1>1. Len(s) \in Nat /\ Len(t) \in Nat /\ \A i \in 1 .. Len(s) : s[i] \in Range(s)
  BY SequenceIsFunction
<1>2. Len(s) <= Len(t) /\ \A j \in 1 .. Len(s) : s[j] = t[Len(t) - Len(s) + j]
  BY DEF SuffixOf
<1>3. PICK k : /\ k[0] = <<>> /\ Keep(s, V) = k[Len(s)]
               /\ \A n \in 0 .. Len(s) - 1 :
                    k[n + 1] = IF s[n + 1] \in V THEN Append(k[n], s[n + 1]) ELSE k[n]
  BY KeepSteps
<1>4. PICK l : /\ l[0] = <<>> /\ Keep(t, W) = l[Len(t)]
               /\ \A n \in 0 .. Len(t) - 1 :
                    l[n + 1] = IF t[n + 1] \in W THEN Append(l[n], t[n + 1]) ELSE l[n]
  BY KeepSteps
<1> DEFINE d == Len(t) - Len(s)
           L == {n \in Nat : n <= Len(t) => IsSequence(l[n])}
           T == {n \in Nat : n <= Len(s) => IsSequence(k[n]) /\ SuffixOf(k[n], l[d + n])}
<1>5. \A n \in Nat : n \in L
  <2>1. 0 \in L
    BY <1>4, EmptySequence
  <2>2. ASSUME NEW n \in Nat, n \in L PROVE n + 1 \in L
    <3> SUFFICES ASSUME n + 1 <= Len(t) PROVE IsSequence(l[n + 1])
      OBVIOUS
    <3>1. n \in 0 .. Len(t) - 1 /\ n <= Len(t)
      BY <1>1
    <3>2. IsSequence(l[n]) /\ IsSequence(Append(l[n], t[n + 1]))
      BY <2>2, <3>1, SequenceAppend
    <3> QED BY <1>4, <3>1, <3>2
  <2> QED
    <3> HIDE DEF L
    <3> QED BY <2>1, <2>2, SetInduction
<1>6. 0 \in T
  <2>1. d \in Nat /\ d <= Len(t) /\ d + 0 = d
    BY <1>1, <1>2
  <2>2. IsSequence(l[d])
    BY <1>5, <2>1
  <2> QED BY <1>3, <2>1, <2>2, EmptySequence, SuffixEmpty
<1>7. ASSUME NEW n \in Nat, n \in T PROVE n + 1 \in T
  <2> SUFFICES ASSUME n + 1 <= Len(s)
               PROVE  IsSequence(k[n + 1]) /\ SuffixOf(k[n + 1], l[d + (n + 1)])
    OBVIOUS
  <2>1. /\ n \in 0 .. Len(s) - 1 /\ n <= Len(s) /\ n + 1 \in 1 .. Len(s)
        /\ d + n \in 0 .. Len(t) - 1 /\ d + n \in Nat /\ d + n <= Len(t)
        /\ d + (n + 1) = d + n + 1
    BY <1>1, <1>2
  <2>2. IsSequence(k[n]) /\ SuffixOf(k[n], l[d + n]) /\ IsSequence(l[d + n])
    BY <1>5, <1>7, <2>1
  <2>3. s[n + 1] = t[d + n + 1] /\ s[n + 1] \in Range(s)
    BY <1>1, <1>2, <2>1
  <2>4. /\ k[n + 1] = IF s[n + 1] \in V THEN Append(k[n], s[n + 1]) ELSE k[n]
        /\ l[d + n + 1] = IF t[d + n + 1] \in W THEN Append(l[d + n], t[d + n + 1]) ELSE l[d + n]
    BY <1>3, <1>4, <2>1
  <2>5. s[n + 1] \in V <=> t[d + n + 1] \in W
    BY <2>3
  <2> HIDE DEF d
  <2>6. CASE s[n + 1] \in V
    <3>1. k[n + 1] = Append(k[n], s[n + 1]) /\ l[d + n + 1] = Append(l[d + n], s[n + 1])
      BY <2>3, <2>4, <2>5, <2>6
    <3>2. IsSequence(Append(k[n], s[n + 1]))
      BY <2>2, SequenceAppend
    <3>3. SuffixOf(Append(k[n], s[n + 1]), Append(l[d + n], s[n + 1]))
      BY <2>2, SuffixAppend
    <3> QED BY <2>1, <3>1, <3>2, <3>3
  <2>7. CASE s[n + 1] \notin V
    <3>1. k[n + 1] = k[n] /\ l[d + n + 1] = l[d + n]
      BY <2>4, <2>5, <2>7
    <3> QED BY <2>1, <2>2, <3>1
  <2> QED BY <2>6, <2>7
<1>8. Len(s) \in T /\ d + Len(s) = Len(t)
  <2>1. d + Len(s) = Len(t)
    BY <1>1, <1>2
  <2> HIDE DEF T
  <2> QED BY <1>1, <1>6, <1>7, <2>1, SetInduction
<1>9. SuffixOf(k[Len(s)], l[d + Len(s)])
  BY <1>1, <1>8
<1> QED BY <1>3, <1>4, <1>8, <1>9

-----------------------------------------------------------------------------
(* Documents.                                                              *)

NoEntries == <<>>

IdOf(c) == {c.id}

BarrierKinds == {"Clear", "SetBackground", "AddPage", "AddImagePage", "SelectPage"}

HasFields(d) ==
  d = [owner |-> d.owner, pages |-> d.pages, active |-> d.active,
       interactionEpoch |-> d.interactionEpoch, undo |-> d.undo, redo |-> d.redo,
       accepted |-> d.accepted, used |-> d.used]

IsPage(p) ==
  /\ p = [id |-> p.id, epoch |-> p.epoch, background |-> p.background,
          objects |-> p.objects]
  /\ IsSequence(p.objects)

ArePages(pages) == IsSequence(pages) /\ \A i \in DOMAIN pages : IsPage(pages[i])

IsDocument(d) ==
  /\ HasFields(d) /\ ArePages(d.pages) /\ d.active \in DOMAIN d.pages
  /\ d.interactionEpoch \in Nat
  /\ IsSequence(d.undo) /\ IsSequence(d.redo)

\* d shows what D shows, remembers no accepted command D does not remember,
\* and its history is the recent part of that of D.
Follows(d, D) ==
  /\ Content(d) = Content(D) /\ d.accepted \subseteq D.accepted
  /\ SuffixOf(d.undo, D.undo) /\ SuffixOf(d.redo, D.redo)

\* The parts of the commands' results.
OfOthers(s, a) == {h \in Range(s) : h.object.author # a}
OffPage(s, id) == {h \in Range(s) : h.page # id}
ObjectOf(c) == [id |-> c.id, author |-> c.actor, wide |-> c.wide]
Renamed(object, id) == [object EXCEPT !.id = id]
BlankPage(id, b) == [[FirstPage EXCEPT !.id = id] EXCEPT !.background = b]

WithObject(d, object) == [d.pages EXCEPT ![d.active].objects = Append(@, object)]

WithoutObject(d, n) == [d.pages EXCEPT ![d.active].objects = RemoveAt(@, n)]

LEMMA ApplyResult ==
  ASSUME NEW d, NEW c, c.kind \in CommandKinds, Apply(d, c).status = "Applied"
  PROVE  /\ c.context = Context(d) /\ c.id \notin d.accepted
         /\ c.kind = "Add" => Apply(d, c) = AddObject(d, c)
         /\ c.kind = "Erase" => Apply(d, c) = EraseObject(d, c)
         /\ c.kind = "Undo" => Apply(d, c) = UndoAdd(d, c)
         /\ c.kind = "Redo" => Apply(d, c) = RedoAdd(d, c)
         /\ c.kind = "Clear" => Apply(d, c) = ResetPage(d, c, Page(d).background)
         /\ c.kind = "SetBackground" => Apply(d, c) = ResetPage(d, c, c.asset)
         /\ c.kind = "AddPage" => Apply(d, c) = AppendPage(d, c, NoAsset)
         /\ c.kind = "AddImagePage" => Apply(d, c) = AppendPage(d, c, c.asset)
         /\ c.kind = "SelectPage" => Apply(d, c) = SelectPage(d, c)
<1>1. /\ Refused(d, "Stale").status # "Applied" /\ Refused(d, "Duplicate").status # "Applied"
      /\ Refused(d, "LimitReached").status # "Applied"
  BY DEF Refused
<1>2. SameContext(d, c) /\ ~Known(d, c)
  BY <1>1 DEF Apply
<1>3. ~(Cardinality(d.accepted) >= kMaxCommands)
  BY <1>1, <1>2 DEF Apply
<1>4. c.context = Context(d) /\ c.id \notin d.accepted
  BY <1>2 DEF SameContext, Known
<1> QED BY <1>2, <1>3, <1>4 DEF Apply, CommandKinds

LEMMA ApplyDuplicate ==
  ASSUME NEW d, NEW c, c.kind \in CommandKinds, Apply(d, c).status = "Duplicate"
  PROVE  c.context = Context(d) /\ c.id \in d.accepted /\ Apply(d, c).doc = d
<1>1. ASSUME NEW s PROVE Refused(d, s).status = s /\ Refused(d, s).doc = d
  BY DEF Refused
<1>2. \A e : Accept(e, c).status = "Applied"
  BY DEF Accept
<1>3. SameContext(d, c)
  BY <1>1 DEF Apply
<1>4. CASE Known(d, c)
  BY <1>1, <1>3, <1>4 DEF Apply, SameContext, Known
<1>5. CASE ~Known(d, c)
  <2>1. ~(Cardinality(d.accepted) >= kMaxCommands)
    BY <1>1, <1>3, <1>5 DEF Apply
  <2>2. AddObject(d, c).status # "Duplicate"
    BY <1>1, <1>2 DEF AddObject
  <2>3. EraseObject(d, c).status # "Duplicate"
    BY <1>1, <1>2 DEF EraseObject
  <2>4. UndoAdd(d, c).status # "Duplicate"
    BY <1>1, <1>2 DEF UndoAdd
  <2>5. RedoAdd(d, c).status # "Duplicate"
    BY <1>1, <1>2 DEF RedoAdd
  <2>6. \A b : ResetPage(d, c, b).status # "Duplicate"
    BY <1>1, <1>2 DEF ResetPage
  <2>7. \A b : AppendPage(d, c, b).status # "Duplicate"
    BY <1>1, <1>2 DEF AppendPage
  <2>8. SelectPage(d, c).status # "Duplicate"
    BY <1>1, <1>2 DEF SelectPage
  <2>9. Apply(d, c).status # "Duplicate"
    BY <1>3, <1>5, <2>1, <2>2, <2>3, <2>4, <2>5, <2>6, <2>7, <2>8 DEF Apply, CommandKinds
  <2> QED BY <2>9
<1> QED BY <1>4, <1>5

\* The fields that each command leaves.
LEMMA PutFields ==
  ASSUME NEW d, HasFields(d), NEW object, NEW p, p = PutObject(d, object)
  PROVE  p = [owner |-> d.owner,
              pages |-> [d.pages EXCEPT ![d.active].objects = Append(@, object)],
              active |-> d.active, interactionEpoch |-> d.interactionEpoch,
              undo |-> Push(d.undo, HistoryOf(d, object)), redo |-> d.redo,
              accepted |-> d.accepted, used |-> d.used \cup {object.id}]
<1> DEFINE q == [d EXCEPT !.pages[d.active].objects = Append(@, object)]
           u == [q EXCEPT !.used = @ \cup {object.id}]
           H == Push(d.undo, HistoryOf(d, object))
<1>1. p = [u EXCEPT !.undo = H]
  BY DEF PutObject, HasFields
<1>2. q = [owner |-> d.owner,
           pages |-> [d.pages EXCEPT ![d.active].objects = Append(@, object)],
           active |-> d.active, interactionEpoch |-> d.interactionEpoch,
           undo |-> d.undo, redo |-> d.redo,
           accepted |-> d.accepted, used |-> d.used]
  BY DEF HasFields
<1> HIDE DEF q, H
<1> DEFINE V == q.used \cup {object.id}
<1>3. u = [owner |-> q.owner, pages |-> q.pages, active |-> q.active,
           interactionEpoch |-> q.interactionEpoch, undo |-> q.undo, redo |-> q.redo,
           accepted |-> q.accepted, used |-> V]
  <2>1. u = [q EXCEPT !.used = V]
    OBVIOUS
  <2>2. q = [owner |-> q.owner, pages |-> q.pages, active |-> q.active,
             interactionEpoch |-> q.interactionEpoch, undo |-> q.undo, redo |-> q.redo,
             accepted |-> q.accepted, used |-> q.used]
    BY <1>2
  <2> HIDE DEF u, V
  <2> QED BY <2>1, <2>2
<1> HIDE DEF u
<1>4. p = [owner |-> u.owner, pages |-> u.pages, active |-> u.active,
           interactionEpoch |-> u.interactionEpoch, undo |-> H, redo |-> u.redo,
           accepted |-> u.accepted, used |-> u.used]
  BY <1>1, <1>3
<1> QED BY <1>2, <1>3, <1>4 DEF H

LEMMA AddFields ==
  ASSUME NEW d, NEW c, HasFields(d), AddObject(d, c).status = "Applied",
         NEW object, object = ObjectOf(c),
         NEW D, D = AddObject(d, c).doc
  PROVE  /\ HasFields(D) /\ D.owner = d.owner /\ D.active = d.active
         /\ D.pages = WithObject(d, object)
         /\ D.interactionEpoch = d.interactionEpoch
         /\ D.undo = Push(d.undo, HistoryOf(d, object))
         /\ D.redo = Keep(d.redo, OfOthers(d.redo, c.actor))
         /\ D.accepted = d.accepted \cup {c.id}
<1> DEFINE p == PutObject(d, object)
           q == [p EXCEPT !.redo = Keep(@, {h \in Range(@) : h.object.author # c.actor})]
<1>1. \A s : s # "Applied" => Refused(d, s).status # "Applied"
  BY DEF Refused
<1>2. AddObject(d, c) = Accept(q, c)
  BY <1>1 DEF AddObject, ObjectOf
<1>3. p = [owner |-> d.owner,
           pages |-> [d.pages EXCEPT ![d.active].objects = Append(@, object)],
           active |-> d.active, interactionEpoch |-> d.interactionEpoch,
           undo |-> Push(d.undo, HistoryOf(d, object)), redo |-> d.redo,
           accepted |-> d.accepted, used |-> d.used \cup {object.id}]
  BY PutFields
<1> HIDE DEF p
<1> DEFINE K == Keep(p.redo, {h \in Range(p.redo) : h.object.author # c.actor})
<1>4. q = [owner |-> p.owner, pages |-> p.pages, active |-> p.active,
           interactionEpoch |-> p.interactionEpoch, undo |-> p.undo, redo |-> K,
           accepted |-> p.accepted, used |-> p.used]
  <2>1. q = [p EXCEPT !.redo = K]
    OBVIOUS
  <2> HIDE DEF q, K
  <2>2. p = [owner |-> p.owner, pages |-> p.pages, active |-> p.active,
             interactionEpoch |-> p.interactionEpoch, undo |-> p.undo, redo |-> p.redo,
             accepted |-> p.accepted, used |-> p.used]
    BY <1>3
  <2> QED BY <2>1, <2>2
<1> HIDE DEF q
<1>5. D = [q EXCEPT !.accepted = @ \cup {c.id}]
  BY <1>2 DEF Accept
<1>6. D = [owner |-> q.owner, pages |-> q.pages, active |-> q.active,
           interactionEpoch |-> q.interactionEpoch, undo |-> q.undo, redo |-> q.redo,
           accepted |-> q.accepted \cup {c.id}, used |-> q.used]
  BY <1>4, <1>5
<1>7. p.redo = d.redo /\ p.undo = Push(d.undo, HistoryOf(d, object))
  BY <1>3
<1>8. q.redo = Keep(d.redo, {h \in Range(d.redo) : h.object.author # c.actor})
  BY <1>4, <1>7
<1> HIDE DEF K
<1>9. /\ D.owner = d.owner /\ D.active = d.active /\ D.undo = p.undo /\ D.redo = q.redo
      /\ D.pages = p.pages
      /\ D.interactionEpoch = d.interactionEpoch /\ D.accepted = d.accepted \cup {c.id}
  <2>1. /\ p.owner = d.owner /\ p.active = d.active /\ p.accepted = d.accepted
        /\ p.interactionEpoch = d.interactionEpoch
    BY <1>3
  <2>2. /\ q.owner = p.owner /\ q.active = p.active /\ q.accepted = p.accepted
        /\ q.interactionEpoch = p.interactionEpoch /\ q.undo = p.undo /\ q.pages = p.pages
    BY <1>4
  <2> QED BY <1>6, <2>1, <2>2
<1>12. p.pages = WithObject(d, object)
  BY <1>3 DEF WithObject
<1>10. HasFields(D)
  BY <1>6 DEF HasFields
<1>11. D.redo = Keep(d.redo, OfOthers(d.redo, c.actor))
  BY <1>8, <1>9 DEF OfOthers
<1> QED BY <1>7, <1>9, <1>10, <1>11, <1>12

LEMMA EraseFields ==
  ASSUME NEW d, NEW c, HasFields(d), EraseObject(d, c).status = "Applied",
         NEW D, D = EraseObject(d, c).doc
  PROVE  /\ HasFields(D) /\ D.owner = d.owner /\ D.active = d.active
         /\ Position(d, c.target) # 0
         /\ D.pages = [d.pages EXCEPT ![d.active].objects =
                         RemoveAt(@, Position(d, c.target))]
         /\ D.interactionEpoch = d.interactionEpoch
         /\ D.undo = d.undo /\ D.redo = d.redo
         /\ D.accepted = d.accepted \cup {c.id}
<1> DEFINE q == [d EXCEPT !.pages[d.active].objects = RemoveAt(@, Position(d, c.target))]
<1>1. \A s : s # "Applied" => Refused(d, s).status # "Applied"
  BY DEF Refused
<1>2. EraseObject(d, c) = Accept(q, c) /\ Position(d, c.target) # 0
  BY <1>1 DEF EraseObject
<1>3. q = [owner |-> d.owner,
           pages |-> [d.pages EXCEPT ![d.active].objects = RemoveAt(@, Position(d, c.target))],
           active |-> d.active, interactionEpoch |-> d.interactionEpoch,
           undo |-> d.undo, redo |-> d.redo, accepted |-> d.accepted, used |-> d.used]
  BY DEF HasFields
<1> HIDE DEF q
<1>4. D = [q EXCEPT !.accepted = @ \cup {c.id}]
  BY <1>2 DEF Accept
<1>5. D = [owner |-> q.owner, pages |-> q.pages, active |-> q.active,
           interactionEpoch |-> q.interactionEpoch, undo |-> q.undo, redo |-> q.redo,
           accepted |-> q.accepted \cup {c.id}, used |-> q.used]
  BY <1>3, <1>4
<1>6. HasFields(D)
  BY <1>5 DEF HasFields
<1> QED BY SMTT(30), <1>2, <1>3, <1>5, <1>6

LEMMA UndoFields ==
  ASSUME NEW d, NEW c, HasFields(d), UndoAdd(d, c).status = "Applied",
         NEW D, D = UndoAdd(d, c).doc, NEW i, i = UndoEntry(d, c.actor)
  PROVE  /\ HasFields(D) /\ D.owner = d.owner /\ D.active = d.active
         /\ i # 0
         /\ D.pages = WithoutObject(d, Position(d, d.undo[i].object.id))
         /\ D.interactionEpoch = d.interactionEpoch
         /\ D.undo = RemoveAt(d.undo, i) /\ D.redo = Push(d.redo, d.undo[i])
         /\ D.accepted = d.accepted \cup {c.id}
<1> DEFINE h == d.undo[i]
           q == [d EXCEPT !.redo = Push(@, h), !.undo = RemoveAt(@, i),
                          !.pages[d.active].objects = RemoveAt(@, Position(d, h.object.id))]
<1>1. \A s : s # "Applied" => Refused(d, s).status # "Applied"
  BY DEF Refused
<1>2. UndoAdd(d, c) = Accept(q, c) /\ i # 0
  BY <1>1 DEF UndoAdd
<1>3. q = [owner |-> d.owner,
           pages |-> [d.pages EXCEPT ![d.active].objects = RemoveAt(@, Position(d, h.object.id))],
           active |-> d.active, interactionEpoch |-> d.interactionEpoch,
           undo |-> RemoveAt(d.undo, i), redo |-> Push(d.redo, h),
           accepted |-> d.accepted, used |-> d.used]
  <2> DEFINE R == Push(d.redo, h)
             U == RemoveAt(d.undo, i)
             n == Position(d, h.object.id)
             v == [d EXCEPT !.redo = R]
             w == [v EXCEPT !.undo = U]
             P == [d.pages EXCEPT ![d.active].objects = RemoveAt(@, n)]
  <2>1. q = [d EXCEPT !.redo = R, !.undo = U, !.pages = P]
    BY DEF HasFields
  <2> HIDE DEF R, U, n, q, P
  <2>2. q = [w EXCEPT !.pages = P]
    BY <2>1
  <2>3. v = [owner |-> d.owner, pages |-> d.pages, active |-> d.active,
             interactionEpoch |-> d.interactionEpoch, undo |-> d.undo, redo |-> R,
             accepted |-> d.accepted, used |-> d.used]
    BY DEF HasFields
  <2> HIDE DEF v
  <2>4. w = [owner |-> v.owner, pages |-> v.pages, active |-> v.active,
             interactionEpoch |-> v.interactionEpoch, undo |-> U, redo |-> v.redo,
             accepted |-> v.accepted, used |-> v.used]
    BY <2>3
  <2> HIDE DEF w
  <2>5. q = [owner |-> w.owner, pages |-> P, active |-> w.active,
             interactionEpoch |-> w.interactionEpoch, undo |-> w.undo, redo |-> w.redo,
             accepted |-> w.accepted, used |-> w.used]
    BY <2>2, <2>4
  <2> QED BY <2>3, <2>4, <2>5 DEF R, U, n, P
<1> HIDE DEF q
<1>4. D = [q EXCEPT !.accepted = @ \cup {c.id}]
  BY <1>2 DEF Accept
<1>5. D = [owner |-> q.owner, pages |-> q.pages, active |-> q.active,
           interactionEpoch |-> q.interactionEpoch, undo |-> q.undo, redo |-> q.redo,
           accepted |-> q.accepted \cup {c.id}, used |-> q.used]
  BY SMTT(30), <1>3, <1>4
<1>6. HasFields(D)
  BY <1>5 DEF HasFields
<1>7. /\ D.owner = d.owner /\ D.active = d.active /\ D.interactionEpoch = d.interactionEpoch
      /\ D.undo = RemoveAt(d.undo, i) /\ D.redo = Push(d.redo, h)
      /\ D.accepted = d.accepted \cup {c.id} /\ D.pages = q.pages
  BY <1>3, <1>5
<1>8. q.pages = WithoutObject(d, Position(d, h.object.id))
  BY <1>3 DEF WithoutObject
<1> QED BY <1>2, <1>6, <1>7, <1>8

LEMMA RedoFields ==
  ASSUME NEW d, NEW c, HasFields(d), RedoAdd(d, c).status = "Applied",
         NEW D, D = RedoAdd(d, c).doc, NEW i, i = RedoEntry(d, c.actor),
         NEW object, object = Renamed(d.redo[i].object, c.id)
  PROVE  /\ HasFields(D) /\ D.owner = d.owner /\ D.active = d.active
         /\ i # 0
         /\ D.pages = WithObject(d, object)
         /\ D.interactionEpoch = d.interactionEpoch
         /\ D.undo = Push(d.undo, HistoryOf(d, object)) /\ D.redo = RemoveAt(d.redo, i)
         /\ D.accepted = d.accepted \cup {c.id}
<1> DEFINE p == PutObject(d, object)
           q == [p EXCEPT !.redo = RemoveAt(@, i)]
<1>1. \A s : s # "Applied" => Refused(d, s).status # "Applied"
  BY DEF Refused
<1>2. RedoAdd(d, c) = Accept(q, c) /\ i # 0
  BY <1>1 DEF RedoAdd, Renamed
<1>3. p = [owner |-> d.owner,
           pages |-> [d.pages EXCEPT ![d.active].objects = Append(@, object)],
           active |-> d.active, interactionEpoch |-> d.interactionEpoch,
           undo |-> Push(d.undo, HistoryOf(d, object)), redo |-> d.redo,
           accepted |-> d.accepted, used |-> d.used \cup {object.id}]
  BY PutFields
<1> HIDE DEF p
<1>4. q = [owner |-> p.owner, pages |-> p.pages, active |-> p.active,
           interactionEpoch |-> p.interactionEpoch, undo |-> p.undo,
           redo |-> RemoveAt(p.redo, i), accepted |-> p.accepted, used |-> p.used]
  <2> DEFINE K == RemoveAt(p.redo, i)
  <2>1. q = [p EXCEPT !.redo = K]
    OBVIOUS
  <2> HIDE DEF q, K
  <2>2. p = [owner |-> p.owner, pages |-> p.pages, active |-> p.active,
             interactionEpoch |-> p.interactionEpoch, undo |-> p.undo, redo |-> p.redo,
             accepted |-> p.accepted, used |-> p.used]
    BY <1>3
  <2> QED BY <2>1, <2>2 DEF K
<1> HIDE DEF q
<1>5. D = [q EXCEPT !.accepted = @ \cup {c.id}]
  BY <1>2 DEF Accept
<1>6. D = [owner |-> q.owner, pages |-> q.pages, active |-> q.active,
           interactionEpoch |-> q.interactionEpoch, undo |-> q.undo, redo |-> q.redo,
           accepted |-> q.accepted \cup {c.id}, used |-> q.used]
  BY <1>4, <1>5
<1>7. p.redo = d.redo /\ p.undo = Push(d.undo, HistoryOf(d, object))
  BY <1>3
<1>8. q.redo = RemoveAt(d.redo, i)
  BY <1>4, <1>7
<1>9. /\ D.owner = d.owner /\ D.active = d.active /\ D.undo = p.undo /\ D.redo = q.redo
      /\ D.pages = p.pages
      /\ D.interactionEpoch = d.interactionEpoch /\ D.accepted = d.accepted \cup {c.id}
  <2>1. /\ p.owner = d.owner /\ p.active = d.active /\ p.accepted = d.accepted
        /\ p.interactionEpoch = d.interactionEpoch
    BY <1>3
  <2>2. /\ q.owner = p.owner /\ q.active = p.active /\ q.accepted = p.accepted
        /\ q.interactionEpoch = p.interactionEpoch /\ q.undo = p.undo /\ q.pages = p.pages
    BY <1>4
  <2> QED BY <1>6, <2>1, <2>2
<1>12. p.pages = WithObject(d, object)
  BY <1>3 DEF WithObject
<1>10. HasFields(D)
  BY <1>6 DEF HasFields
<1> QED BY <1>2, <1>7, <1>8, <1>9, <1>10, <1>12

LEMMA AdvanceFields ==
  ASSUME NEW d, HasFields(d), NEW D, D = AdvanceInteraction(d)
  PROVE  /\ HasFields(D) /\ D.owner = d.owner /\ D.active = d.active /\ D.pages = d.pages
         /\ D.interactionEpoch = d.interactionEpoch + 1 /\ D.undo = d.undo
         /\ D.redo = NoEntries /\ D.accepted = {}
<1>1. D = [owner |-> d.owner, pages |-> d.pages, active |-> d.active,
           interactionEpoch |-> d.interactionEpoch + 1, undo |-> d.undo, redo |-> <<>>,
           accepted |-> {}, used |-> d.used]
  BY DEF AdvanceInteraction, HasFields
<1> QED BY <1>1 DEF HasFields, NoEntries

\* An accepted barrier.
LEMMA AcceptAdvanced ==
  ASSUME NEW d, HasFields(d), NEW c, NEW D, D = Accept(AdvanceInteraction(d), c).doc
  PROVE  /\ HasFields(D) /\ D.owner = d.owner /\ D.active = d.active /\ D.pages = d.pages
         /\ D.interactionEpoch = d.interactionEpoch + 1 /\ D.undo = d.undo
         /\ D.redo = NoEntries /\ D.accepted = IdOf(c)
<1> DEFINE a == AdvanceInteraction(d)
<1>1. /\ HasFields(a) /\ a.owner = d.owner /\ a.active = d.active /\ a.pages = d.pages
      /\ a.interactionEpoch = d.interactionEpoch + 1 /\ a.undo = d.undo
      /\ a.redo = NoEntries /\ a.accepted = {}
  BY AdvanceFields
<1> HIDE DEF a
<1>2. D = [a EXCEPT !.accepted = @ \cup {c.id}]
  BY DEF Accept, a
<1>3. D = [owner |-> a.owner, pages |-> a.pages, active |-> a.active,
           interactionEpoch |-> a.interactionEpoch, undo |-> a.undo, redo |-> a.redo,
           accepted |-> a.accepted \cup {c.id}, used |-> a.used]
  BY <1>1, <1>2 DEF HasFields
<1>4. HasFields(D)
  BY <1>3 DEF HasFields
<1>5. D.accepted = IdOf(c)
  BY <1>1, <1>3 DEF IdOf
<1> QED BY <1>1, <1>3, <1>4, <1>5

LEMMA ResetFields ==
  ASSUME NEW d, NEW c, NEW b, HasFields(d), ResetPage(d, c, b).status = "Applied",
         NEW D, D = ResetPage(d, c, b).doc
  PROVE  /\ HasFields(D) /\ D.owner = d.owner /\ D.active = d.active
         /\ D.pages = [d.pages EXCEPT ![d.active] = CleanPage(d.pages[d.active], b)]
         /\ D.interactionEpoch = d.interactionEpoch + 1
         /\ D.undo = Keep(d.undo, OffPage(d.undo, Page(d).id))
         /\ D.redo = NoEntries /\ D.accepted = IdOf(c)
<1> DEFINE P == [d.pages EXCEPT ![d.active] = CleanPage(d.pages[d.active], b)]
           U == Keep(d.undo, {h \in Range(d.undo) : h.page # Page(d).id})
           q == [d EXCEPT !.pages = P, !.undo = U]
<1>1. \A s : s # "Applied" => Refused(d, s).status # "Applied"
  BY DEF Refused
<1>2. ResetPage(d, c, b) = Accept(AdvanceInteraction(q), c)
  <2> DEFINE o == [d EXCEPT !.pages[d.active] = CleanPage(@, b),
                            !.undo = Keep(@, {h \in Range(@) : h.page # Page(d).id})]
  <2>1. c.actor = d.owner
    BY <1>1 DEF ResetPage
  <2>2. ResetPage(d, c, b) = Accept(AdvanceInteraction(o), c)
    BY <2>1 DEF ResetPage
  <2>3. o = q
    BY DEF HasFields
  <2> QED BY <2>2, <2>3
<1> HIDE DEF P, U
<1>3. q = [owner |-> d.owner, pages |-> P, active |-> d.active,
           interactionEpoch |-> d.interactionEpoch, undo |-> U,
           redo |-> d.redo, accepted |-> d.accepted, used |-> d.used]
  <2>1. q = [d EXCEPT !.pages = P, !.undo = U]
    OBVIOUS
  <2> HIDE DEF q
  <2> QED BY <2>1 DEF HasFields
<1> HIDE DEF q
<1>4. HasFields(q)
  BY <1>3 DEF HasFields
<1>5. /\ HasFields(D) /\ D.owner = q.owner /\ D.active = q.active /\ D.pages = q.pages
      /\ D.interactionEpoch = q.interactionEpoch + 1 /\ D.undo = q.undo
      /\ D.redo = NoEntries /\ D.accepted = IdOf(c)
  <2>1. D = Accept(AdvanceInteraction(q), c).doc
    BY <1>2
  <2> QED BY <1>4, <2>1, AcceptAdvanced
<1>6. U = Keep(d.undo, OffPage(d.undo, Page(d).id))
  BY DEF U, OffPage
<1> QED BY <1>3, <1>5, <1>6 DEF P

LEMMA AppendPageFields ==
  ASSUME NEW d, NEW c, NEW b, HasFields(d), AppendPage(d, c, b).status = "Applied",
         NEW D, D = AppendPage(d, c, b).doc
  PROVE  /\ HasFields(D) /\ D.owner = d.owner /\ D.active = Len(d.pages) + 1
         /\ D.pages = Append(d.pages, BlankPage(c.id, b))
         /\ D.interactionEpoch = d.interactionEpoch + 1
         /\ D.undo = d.undo /\ D.redo = NoEntries /\ D.accepted = IdOf(c)
<1> DEFINE q == [d EXCEPT !.pages = Append(@, [FirstPage EXCEPT !.id = c.id, !.background = b]),
                          !.active = Len(d.pages) + 1]
<1>1. \A s : s # "Applied" => Refused(d, s).status # "Applied"
  BY DEF Refused
<1>2. AppendPage(d, c, b) = Accept(AdvanceInteraction(q), c)
  BY <1>1 DEF AppendPage
<1>3. q = [owner |-> d.owner,
           pages |-> Append(d.pages, [[FirstPage EXCEPT !.id = c.id] EXCEPT !.background = b]),
           active |-> Len(d.pages) + 1, interactionEpoch |-> d.interactionEpoch,
           undo |-> d.undo, redo |-> d.redo, accepted |-> d.accepted, used |-> d.used]
  <2> DEFINE page == [[FirstPage EXCEPT !.id = c.id] EXCEPT !.background = b]
             P == Append(d.pages, page)
             A == Len(d.pages) + 1
  <2>1. q = [d EXCEPT !.pages = P, !.active = A]
    BY DEF HasFields
  <2> HIDE DEF P, A, q
  <2>2. q = [owner |-> d.owner, pages |-> P, active |-> A,
             interactionEpoch |-> d.interactionEpoch, undo |-> d.undo, redo |-> d.redo,
             accepted |-> d.accepted, used |-> d.used]
    BY <2>1 DEF HasFields
  <2> QED BY <2>2 DEF P, A
<1> HIDE DEF q
<1>4. HasFields(q)
  BY <1>3 DEF HasFields
<1>5. /\ HasFields(D) /\ D.owner = q.owner /\ D.active = q.active /\ D.pages = q.pages
      /\ D.interactionEpoch = q.interactionEpoch + 1 /\ D.undo = q.undo
      /\ D.redo = NoEntries /\ D.accepted = IdOf(c)
  <2>1. D = Accept(AdvanceInteraction(q), c).doc
    BY <1>2
  <2> QED BY <1>4, <2>1, AcceptAdvanced
<1>6. q.pages = Append(d.pages, BlankPage(c.id, b))
  BY <1>3 DEF BlankPage
<1> QED BY <1>3, <1>5, <1>6

PagePosition(d, id) == SelectInSeq(d.pages, LAMBDA p : p.id = id)

LEMMA SelectPageFields ==
  ASSUME NEW d, NEW c, HasFields(d), SelectPage(d, c).status = "Applied",
         NEW D, D = SelectPage(d, c).doc
  PROVE  /\ HasFields(D) /\ D.owner = d.owner /\ D.active = PagePosition(d, c.target)
         /\ PagePosition(d, c.target) # 0
         /\ D.pages = d.pages /\ D.interactionEpoch = d.interactionEpoch + 1
         /\ D.undo = d.undo /\ D.redo = NoEntries /\ D.accepted = IdOf(c)
<1> DEFINE i == SelectInSeq(d.pages, LAMBDA p : p.id = c.target)
           q == [d EXCEPT !.active = i]
<1>1. \A s : s # "Applied" => Refused(d, s).status # "Applied"
  BY DEF Refused
<1>2. i = PagePosition(d, c.target)
  BY DEF PagePosition
<1>3. SelectPage(d, c) = Accept(AdvanceInteraction(q), c) /\ i # 0
  <2> SUFFICES c.actor = d.owner /\ i # 0 /\ i # d.active
    BY DEF SelectPage
  <2> QED BY <1>1 DEF SelectPage
<1> HIDE DEF i
<1>4. q = [owner |-> d.owner, pages |-> d.pages,
           active |-> i, interactionEpoch |-> d.interactionEpoch,
           undo |-> d.undo, redo |-> d.redo, accepted |-> d.accepted, used |-> d.used]
  BY DEF HasFields
<1> HIDE DEF q
<1>5. HasFields(q)
  BY <1>4 DEF HasFields
<1>6. /\ HasFields(D) /\ D.owner = q.owner /\ D.active = q.active /\ D.pages = q.pages
      /\ D.interactionEpoch = q.interactionEpoch + 1 /\ D.undo = q.undo
      /\ D.redo = NoEntries /\ D.accepted = IdOf(c)
  <2>1. D = Accept(AdvanceInteraction(q), c).doc
    BY <1>3
  <2> QED BY <1>5, <2>1, AcceptAdvanced
<1> QED BY <1>2, <1>3, <1>4, <1>6

LEMMA ContentFields ==
  ASSUME NEW d, NEW e
  PROVE  Content(d) = Content(e) <=>
           /\ d.owner = e.owner /\ d.pages = e.pages /\ d.active = e.active
           /\ d.interactionEpoch = e.interactionEpoch
<1> DEFINE C(x) == [owner |-> x.owner, pages |-> x.pages, active |-> x.active,
                    interactionEpoch |-> x.interactionEpoch]
<1>1. Content(d) = C(d) /\ Content(e) = C(e)
  BY DEF Content
<1>2. ASSUME C(d) = C(e)
      PROVE  /\ d.owner = e.owner /\ d.pages = e.pages /\ d.active = e.active
             /\ d.interactionEpoch = e.interactionEpoch
  <2>1. /\ C(d).owner = d.owner /\ C(d).pages = d.pages /\ C(d).active = d.active
        /\ C(d).interactionEpoch = d.interactionEpoch
        /\ C(e).owner = e.owner /\ C(e).pages = e.pages /\ C(e).active = e.active
        /\ C(e).interactionEpoch = e.interactionEpoch
    OBVIOUS
  <2> HIDE DEF C
  <2> QED BY <1>2, <2>1
<1> QED BY <1>1, <1>2

\* What a search over the positions I of a sequence returns.
LEMMA FirstPosition ==
  ASSUME NEW n \in Nat, NEW I, I \subseteq 1 .. n, NEW x, x = IF I # {} THEN Min(I) ELSE 0
  PROVE  x \in 0 .. n /\ (x # 0 <=> I # {}) /\ (x # 0 => x \in I /\ \A i \in I : x <= i)
<1>1. CASE I = {}
  BY <1>1
<1>2. CASE I # {}
  <2>1. I \subseteq Nat
    OBVIOUS
  <2>2. x = Min(I)
    BY <1>2
  <2>3. x \in I /\ \A i \in I : x <= i
    BY <1>2, <2>1, <2>2, MinOfPositions
  <2> QED BY <1>2, <2>3
<1> QED BY <1>1, <1>2

LEMMA LastPosition ==
  ASSUME NEW n \in Nat, NEW I, I \subseteq 1 .. n, NEW x, x = IF I # {} THEN Max(I) ELSE 0
  PROVE  x \in 0 .. n /\ (x # 0 <=> I # {}) /\ (x # 0 => x \in I /\ \A i \in I : i <= x)
<1>1. CASE I = {}
  BY <1>1
<1>2. CASE I # {}
  <2>1. x \in I /\ \A i \in I : i <= x
    BY <1>2, MaxOfPositions
  <2> QED BY <1>2, <2>1
<1> QED BY <1>1, <1>2

LEMMA PositionRange ==
  ASSUME NEW d, IsDocument(d), NEW id, NEW x, x = Position(d, id)
  PROVE  IsSequence(Objects(d)) /\ x \in 0 .. Len(Objects(d))
<1>1. IsSequence(Objects(d))
  BY DEF IsDocument, ArePages, IsPage, Objects, Page
<1> DEFINE s == Objects(d)
           n == Len(s)
           I == {i \in 1 .. n : s[i].id = id}
<1>2. x = IF I # {} THEN Min(I) ELSE 0
  BY DEF Position, SelectInSeq
<1>3. n \in Nat
  BY <1>1, SequenceIsFunction
<1>4. I \subseteq 1 .. n
  BY <1>3
<1> HIDE DEF I, n
<1>5. x \in 0 .. n
  BY <1>2, <1>3, <1>4, FirstPosition
<1> QED BY <1>1, <1>5 DEF n

LEMMA PagePositionRange ==
  ASSUME NEW d, IsDocument(d), NEW id, NEW x, x = PagePosition(d, id)
  PROVE  x \in 0 .. Len(d.pages)
<1> DEFINE s == d.pages
           n == Len(s)
           I == {i \in 1 .. n : s[i].id = id}
<1>1. x = IF I # {} THEN Min(I) ELSE 0
  BY DEF PagePosition, SelectInSeq
<1>2. n \in Nat
  BY SequenceIsFunction DEF IsDocument, ArePages
<1>3. I \subseteq 1 .. n
  BY <1>2
<1> HIDE DEF I, n
<1>4. x \in 0 .. n
  BY <1>1, <1>2, <1>3, FirstPosition
<1> QED BY <1>4 DEF n

LEMMA UndoEntryRange ==
  ASSUME NEW d, IsDocument(d), NEW a, NEW x, x = UndoEntry(d, a)
  PROVE  /\ x \in 0 .. Len(d.undo)
         /\ x # 0 => Recalls(d, d.undo[x], a) /\ Position(d, d.undo[x].object.id) # 0
         /\ \A i \in 1 .. Len(d.undo) :
              Recalls(d, d.undo[i], a) /\ Position(d, d.undo[i].object.id) # 0
                => x # 0 /\ i <= x
<1> DEFINE s == d.undo
           n == Len(s)
           I == {i \in 1 .. n : Recalls(d, s[i], a) /\ Present(d, s[i].object.id)}
<1>1. x = IF I # {} THEN Max(I) ELSE 0
  BY DEF UndoEntry, SelectLastInSeq
<1>2. n \in Nat
  BY SequenceIsFunction DEF IsDocument
<1>3. /\ I \subseteq 1 .. n
      /\ \A i \in I : Recalls(d, s[i], a) /\ Position(d, s[i].object.id) # 0
      /\ \A i \in 1 .. n :
           Recalls(d, s[i], a) /\ Position(d, s[i].object.id) # 0 => i \in I
  BY <1>2 DEF Present
<1> HIDE DEF I, n
<1>4. x \in 0 .. n /\ (x # 0 <=> I # {}) /\ (x # 0 => x \in I /\ \A i \in I : i <= x)
  BY <1>1, <1>2, <1>3, LastPosition
<1>5. \A i \in I : x # 0 /\ i <= x
  BY <1>4
<1> QED BY <1>3, <1>4, <1>5 DEF n

LEMMA RedoEntryRange ==
  ASSUME NEW d, IsDocument(d), NEW a, NEW x, x = RedoEntry(d, a)
  PROVE  /\ x \in 0 .. Len(d.redo)
         /\ x # 0 => Recalls(d, d.redo[x], a)
         /\ \A i \in 1 .. Len(d.redo) : Recalls(d, d.redo[i], a) => x # 0 /\ i <= x
<1> DEFINE s == d.redo
           n == Len(s)
           I == {i \in 1 .. n : Recalls(d, s[i], a)}
<1>1. x = IF I # {} THEN Max(I) ELSE 0
  BY DEF RedoEntry, SelectLastInSeq
<1>2. n \in Nat
  BY SequenceIsFunction DEF IsDocument
<1>3. /\ I \subseteq 1 .. n
      /\ \A i \in I : Recalls(d, s[i], a)
      /\ \A i \in 1 .. n : Recalls(d, s[i], a) => i \in I
  BY <1>2
<1> HIDE DEF I, n
<1>4. x \in 0 .. n /\ (x # 0 <=> I # {}) /\ (x # 0 => x \in I /\ \A i \in I : i <= x)
  BY <1>1, <1>2, <1>3, LastPosition
<1>5. \A i \in I : x # 0 /\ i <= x
  BY <1>4
<1> QED BY <1>3, <1>4, <1>5 DEF n

LEMMA PagesUpdated ==
  ASSUME NEW P, ArePages(P), NEW i \in DOMAIN P, NEW x, IsPage(x)
  PROVE  ArePages([P EXCEPT ![i] = x]) /\ DOMAIN [P EXCEPT ![i] = x] = DOMAIN P
<1> DEFINE Q == [P EXCEPT ![i] = x]
<1>1. Len(P) \in Nat /\ DOMAIN P = 1 .. Len(P) /\ P = [j \in 1 .. Len(P) |-> P[j]]
  BY SequenceIsFunction DEF ArePages
<1>2. Q = [j \in 1 .. Len(P) |-> Q[j]] /\ DOMAIN Q = DOMAIN P
  BY <1>1
<1>3. \A j \in DOMAIN P : Q[j] = IF j = i THEN x ELSE P[j]
  BY <1>1
<1> HIDE DEF Q
<1>4. IsSequence(Q)
  BY <1>1, <1>2, FunctionIsSequence
<1>5. \A j \in DOMAIN Q : IsPage(Q[j])
  BY <1>2, <1>3 DEF ArePages
<1> QED BY <1>2, <1>4, <1>5 DEF ArePages, Q

LEMMA PageWithObjects ==
  ASSUME NEW P, ArePages(P), NEW i \in DOMAIN P, NEW o, IsSequence(o)
  PROVE  /\ ArePages([P EXCEPT ![i].objects = o])
         /\ DOMAIN [P EXCEPT ![i].objects = o] = DOMAIN P
<1> DEFINE x == [P[i] EXCEPT !.objects = o]
<1>1. [P EXCEPT ![i].objects = o] = [P EXCEPT ![i] = x]
  OBVIOUS
<1>2. P[i] = [id |-> P[i].id, epoch |-> P[i].epoch, background |-> P[i].background,
              objects |-> P[i].objects]
  BY DEF ArePages, IsPage
<1>3. x = [id |-> P[i].id, epoch |-> P[i].epoch, background |-> P[i].background,
           objects |-> o]
  BY <1>2
<1> HIDE DEF x
<1>4. IsPage(x)
  BY <1>3 DEF IsPage
<1> QED BY <1>1, <1>4, PagesUpdated

LEMMA CleanPageIsPage ==
  ASSUME NEW p, IsPage(p), NEW b
  PROVE  IsPage(CleanPage(p, b))
<1> DEFINE q == CleanPage(p, b)
           n == p.epoch + 1
<1>1. q = [p EXCEPT !.objects = <<>>, !.background = b, !.epoch = n]
  BY DEF CleanPage
<1> HIDE DEF n, q
<1>2. q = [id |-> p.id, epoch |-> n, background |-> b, objects |-> <<>>]
  BY <1>1 DEF IsPage
<1>3. IsPage(q)
  BY <1>2, EmptySequence DEF IsPage
<1> QED BY <1>3 DEF q

LEMMA PushIsSequence ==
  ASSUME NEW s, IsSequence(s), NEW h
  PROVE  IsSequence(Push(s, h))
<1>1. Len(s) = MaxHistory => s # <<>>
  BY EmptySequence, DocumentBounds
<1>2. s # <<>> => IsSequence(Tail(s))
  BY SequenceTail
<1> QED BY <1>1, <1>2, SequenceAppend DEF Push

LEMMA NewPage ==
  ASSUME NEW x, NEW b
  PROVE  IsPage(BlankPage(x, b))
<1> DEFINE p == [FirstPage EXCEPT !.id = x]
           q == [p EXCEPT !.background = b]
<1>1. p = [id |-> x, epoch |-> 1, background |-> NoAsset, objects |-> NoEntries]
  BY DEF FirstPage, NoEntries
<1> HIDE DEF p
<1>2. q = [id |-> x, epoch |-> 1, background |-> b, objects |-> NoEntries]
  BY <1>1
<1> HIDE DEF q
<1>3. IsPage(q)
  BY <1>2, EmptySequence DEF IsPage, NoEntries
<1> QED BY <1>3 DEF p, q, BlankPage

LEMMA NewDocumentShape == IsDocument(NewDocument(Authority))
<1> DEFINE d == NewDocument(Authority)
<1>1. d = [owner |-> Authority, pages |-> <<FirstPage>>, active |-> 1,
           interactionEpoch |-> 1, undo |-> <<>>, redo |-> <<>>,
           accepted |-> {}, used |-> {}]
  BY DEF NewDocument
<1> HIDE DEF d
<1>2. IsPage(FirstPage)
  BY EmptySequence DEF IsPage, FirstPage
<1>3. ArePages(<<FirstPage>>) /\ 1 \in DOMAIN <<FirstPage>>
  <2>1. IsSequence(<<FirstPage>>) /\ DOMAIN <<FirstPage>> = {1} /\ <<FirstPage>>[1] = FirstPage
    BY SingleSequence
  <2> HIDE DEF FirstPage
  <2> QED BY <1>2, <2>1 DEF ArePages
<1>4. HasFields(d)
  BY <1>1 DEF HasFields
<1> HIDE DEF FirstPage
<1> QED BY <1>1, <1>3, <1>4, EmptySequence DEF IsDocument, d

\* A document keeps its shape, and an epoch advances at a barrier only.
LEMMA ApplyShape ==
  ASSUME NEW d, IsDocument(d), NEW c, c.kind \in CommandKinds,
         Apply(d, c).status = "Applied", NEW D, D = Apply(d, c).doc
  PROVE  /\ IsDocument(D)
         /\ c.kind \in BarrierKinds => D.interactionEpoch = d.interactionEpoch + 1
         /\ c.kind \notin BarrierKinds =>
              D.interactionEpoch = d.interactionEpoch /\ D.accepted = d.accepted \cup {c.id}
<1>1. /\ HasFields(d) /\ ArePages(d.pages) /\ d.active \in DOMAIN d.pages
      /\ d.interactionEpoch \in Nat /\ IsSequence(d.undo) /\ IsSequence(d.redo)
  BY DEF IsDocument
<1>2. IsSequence(d.pages[d.active].objects) /\ IsPage(d.pages[d.active])
  BY <1>1 DEF ArePages, IsPage
<1>3. Objects(d) = d.pages[d.active].objects
  BY DEF Objects, Page
<1>4. CASE c.kind = "Add"
  <2>0. PICK object : object = ObjectOf(c)
    OBVIOUS
  <2>1. D = AddObject(d, c).doc /\ AddObject(d, c).status = "Applied"
    BY <1>4, ApplyResult
  <2>2. /\ HasFields(D) /\ D.owner = d.owner /\ D.active = d.active
        /\ D.pages = WithObject(d, object)
        /\ D.interactionEpoch = d.interactionEpoch
        /\ D.undo = Push(d.undo, HistoryOf(d, object))
        /\ D.redo = Keep(d.redo, OfOthers(d.redo, c.actor))
        /\ D.accepted = d.accepted \cup {c.id}
    BY <1>1, <2>0, <2>1, AddFields
  <2>3. ArePages(D.pages) /\ DOMAIN D.pages = DOMAIN d.pages
    <3> DEFINE o == Append(d.pages[d.active].objects, object)
    <3>1. IsSequence(o)
      BY <1>2, SequenceAppend
    <3>2. D.pages = [d.pages EXCEPT ![d.active].objects = o]
      BY <2>2 DEF WithObject
    <3> HIDE DEF o
    <3> QED BY <1>1, <3>1, <3>2, PageWithObjects
  <2>4. IsSequence(D.undo) /\ IsSequence(D.redo)
    BY <1>1, <2>2, PushIsSequence, KeepIsSequence
  <2>5. c.kind \notin BarrierKinds
    BY <1>4 DEF BarrierKinds
  <2> QED BY <1>1, <2>2, <2>3, <2>4, <2>5 DEF IsDocument
<1>5. CASE c.kind = "Erase"
  <2>1. D = EraseObject(d, c).doc /\ EraseObject(d, c).status = "Applied"
    BY <1>5, ApplyResult
  <2>0. PICK n : n = Position(d, c.target)
    OBVIOUS
  <2>2. /\ HasFields(D) /\ D.active = d.active /\ n # 0
        /\ D.pages = [d.pages EXCEPT ![d.active].objects = RemoveAt(@, n)]
        /\ D.interactionEpoch = d.interactionEpoch
        /\ D.undo = d.undo /\ D.redo = d.redo /\ D.accepted = d.accepted \cup {c.id}
    BY <1>1, <2>0, <2>1, EraseFields
  <2>3. n \in 1 .. Len(d.pages[d.active].objects)
    BY <1>3, <2>0, <2>2, PositionRange
  <2>4. ArePages(D.pages) /\ DOMAIN D.pages = DOMAIN d.pages
    <3> DEFINE o == RemoveAt(d.pages[d.active].objects, n)
    <3>1. IsSequence(o)
      BY <1>2, <2>3, SequenceRemoveAt
    <3>2. D.pages = [d.pages EXCEPT ![d.active].objects = o]
      BY <2>2
    <3> HIDE DEF o
    <3> QED BY <1>1, <3>1, <3>2, PageWithObjects
  <2>5. c.kind \notin BarrierKinds
    BY <1>5 DEF BarrierKinds
  <2> QED BY <1>1, <2>2, <2>4, <2>5 DEF IsDocument
<1>6. CASE c.kind = "Undo"
  <2>1. D = UndoAdd(d, c).doc /\ UndoAdd(d, c).status = "Applied"
    BY <1>6, ApplyResult
  <2>0. PICK i : i = UndoEntry(d, c.actor)
    OBVIOUS
  <2>00. PICK n : n = Position(d, d.undo[i].object.id)
    OBVIOUS
  <2>2. /\ HasFields(D) /\ D.active = d.active /\ i # 0
        /\ D.pages = [d.pages EXCEPT ![d.active].objects = RemoveAt(@, n)]
        /\ D.interactionEpoch = d.interactionEpoch
        /\ D.undo = RemoveAt(d.undo, i) /\ D.redo = Push(d.redo, d.undo[i])
        /\ D.accepted = d.accepted \cup {c.id}
    <3>1. /\ HasFields(D) /\ D.active = d.active /\ i # 0
          /\ D.pages = WithoutObject(d, Position(d, d.undo[i].object.id))
          /\ D.interactionEpoch = d.interactionEpoch
          /\ D.undo = RemoveAt(d.undo, i) /\ D.redo = Push(d.redo, d.undo[i])
          /\ D.accepted = d.accepted \cup {c.id}
      BY <1>1, <2>0, <2>1, UndoFields
    <3> QED BY <2>00, <3>1 DEF WithoutObject
  <2>5. i \in 1 .. Len(d.undo) /\ n # 0
    BY <2>0, <2>00, <2>2, UndoEntryRange
  <2>4. n \in 1 .. Len(d.pages[d.active].objects)
    BY <1>3, <2>00, <2>5, PositionRange
  <2>6. ArePages(D.pages) /\ DOMAIN D.pages = DOMAIN d.pages
    <3> DEFINE o == RemoveAt(d.pages[d.active].objects, n)
    <3>1. IsSequence(o)
      BY <1>2, <2>4, SequenceRemoveAt
    <3>2. D.pages = [d.pages EXCEPT ![d.active].objects = o]
      BY <2>2
    <3> HIDE DEF o
    <3> QED BY <1>1, <3>1, <3>2, PageWithObjects
  <2>7. IsSequence(D.undo) /\ IsSequence(D.redo)
    BY <1>1, <2>2, <2>5, PushIsSequence, SequenceRemoveAt
  <2>8. c.kind \notin BarrierKinds
    BY <1>6 DEF BarrierKinds
  <2> QED BY <1>1, <2>2, <2>6, <2>7, <2>8 DEF IsDocument
<1>7. CASE c.kind = "Redo"
  <2>1. D = RedoAdd(d, c).doc /\ RedoAdd(d, c).status = "Applied"
    BY <1>7, ApplyResult
  <2>0. PICK i : i = RedoEntry(d, c.actor)
    OBVIOUS
  <2>00. PICK object : object = Renamed(d.redo[i].object, c.id)
    OBVIOUS
  <2>2. /\ HasFields(D) /\ D.active = d.active /\ i # 0
        /\ D.pages = WithObject(d, object)
        /\ D.interactionEpoch = d.interactionEpoch
        /\ D.undo = Push(d.undo, HistoryOf(d, object)) /\ D.redo = RemoveAt(d.redo, i)
        /\ D.accepted = d.accepted \cup {c.id}
    BY <1>1, <2>0, <2>00, <2>1, RedoFields
  <2>3. i \in 1 .. Len(d.redo)
    BY <2>0, <2>2, RedoEntryRange
  <2>4. ArePages(D.pages) /\ DOMAIN D.pages = DOMAIN d.pages
    <3> DEFINE o == Append(d.pages[d.active].objects, object)
    <3>1. IsSequence(o)
      BY <1>2, SequenceAppend
    <3>2. D.pages = [d.pages EXCEPT ![d.active].objects = o]
      BY <2>2 DEF WithObject
    <3> HIDE DEF o
    <3> QED BY <1>1, <3>1, <3>2, PageWithObjects
  <2>5. IsSequence(D.undo) /\ IsSequence(D.redo)
    BY <1>1, <2>2, <2>3, PushIsSequence, SequenceRemoveAt
  <2>6. c.kind \notin BarrierKinds
    BY <1>7 DEF BarrierKinds
  <2> QED BY <1>1, <2>2, <2>4, <2>5, <2>6 DEF IsDocument
<1>8. CASE c.kind \in {"Clear", "SetBackground"}
  <2>1. PICK b : D = ResetPage(d, c, b).doc /\ ResetPage(d, c, b).status = "Applied"
    BY <1>8, ApplyResult
  <2>2. /\ HasFields(D) /\ D.active = d.active
        /\ D.pages = [d.pages EXCEPT ![d.active] = CleanPage(d.pages[d.active], b)]
        /\ D.interactionEpoch = d.interactionEpoch + 1
        /\ D.undo = Keep(d.undo, OffPage(d.undo, Page(d).id))
        /\ D.redo = NoEntries
    BY <1>1, <2>1, ResetFields
  <2>3. ArePages(D.pages) /\ DOMAIN D.pages = DOMAIN d.pages
    BY <1>1, <1>2, <2>2, CleanPageIsPage, PagesUpdated
  <2>4. IsSequence(D.undo) /\ IsSequence(D.redo)
    BY <1>1, <2>2, KeepIsSequence, EmptySequence DEF NoEntries
  <2>5. c.kind \in BarrierKinds
    BY <1>8 DEF BarrierKinds
  <2> QED BY <1>1, <2>2, <2>3, <2>4, <2>5 DEF IsDocument
<1>9. CASE c.kind \in {"AddPage", "AddImagePage"}
  <2>1. PICK b : D = AppendPage(d, c, b).doc /\ AppendPage(d, c, b).status = "Applied"
    BY <1>9, ApplyResult
  <2>0. PICK page : page = BlankPage(c.id, b)
    OBVIOUS
  <2>2. /\ HasFields(D) /\ D.active = Len(d.pages) + 1
        /\ D.pages = Append(d.pages, page)
        /\ D.interactionEpoch = d.interactionEpoch + 1
        /\ D.undo = d.undo /\ D.redo = NoEntries
    <3>1. /\ HasFields(D) /\ D.active = Len(d.pages) + 1
          /\ D.pages = Append(d.pages, BlankPage(c.id, b))
          /\ D.interactionEpoch = d.interactionEpoch + 1
          /\ D.undo = d.undo /\ D.redo = NoEntries
      BY <1>1, <2>1, AppendPageFields
    <3> QED BY <2>0, <3>1
  <2>3. IsPage(page)
    BY <2>0, NewPage
  <2>4. ArePages(D.pages) /\ D.active \in DOMAIN D.pages
    <3> DEFINE s == d.pages
               t == Append(s, page)
    <3>1. IsSequence(s) /\ Len(s) \in Nat /\ DOMAIN s = 1 .. Len(s)
      BY <1>1, SequenceIsFunction DEF ArePages
    <3>2. /\ IsSequence(t) /\ Len(t) = Len(s) + 1 /\ t[Len(s) + 1] = page
          /\ \A i \in 1 .. Len(s) : t[i] = s[i]
      BY <3>1, SequenceAppend
    <3>3. \A i \in 1 .. Len(s) : IsPage(s[i])
      BY <1>1, <3>1 DEF ArePages
    <3> HIDE DEF t, s
    <3>4. DOMAIN t = 1 .. Len(t)
      BY <3>2, SequenceIsFunction
    <3>5. ASSUME NEW i \in DOMAIN t PROVE IsPage(t[i])
      <4>1. i \in 1 .. Len(s) \/ i = Len(s) + 1
        BY <3>1, <3>2, <3>4
      <4> QED BY <2>3, <3>2, <3>3, <4>1
    <3>6. Len(s) + 1 \in DOMAIN t
      BY <3>1, <3>2, <3>4
    <3> QED BY <2>2, <3>2, <3>5, <3>6 DEF ArePages, s, t
  <2>5. IsSequence(D.undo) /\ IsSequence(D.redo)
    BY <1>1, <2>2, EmptySequence DEF NoEntries
  <2>6. c.kind \in BarrierKinds
    BY <1>9 DEF BarrierKinds
  <2> QED BY <1>1, <2>2, <2>4, <2>5, <2>6 DEF IsDocument
<1>10. CASE c.kind = "SelectPage"
  <2>1. D = SelectPage(d, c).doc /\ SelectPage(d, c).status = "Applied"
    BY <1>10, ApplyResult
  <2>2. /\ HasFields(D) /\ D.active = PagePosition(d, c.target)
        /\ PagePosition(d, c.target) # 0
        /\ D.pages = d.pages /\ D.interactionEpoch = d.interactionEpoch + 1
        /\ D.undo = d.undo /\ D.redo = NoEntries
    BY <1>1, <2>1, SelectPageFields
  <2>3. D.active \in DOMAIN D.pages
    <3>1. DOMAIN d.pages = 1 .. Len(d.pages) /\ Len(d.pages) \in Nat
      BY <1>1, SequenceIsFunction DEF ArePages
    <3> QED BY <2>2, <3>1, PagePositionRange
  <2>4. IsSequence(D.redo)
    BY <2>2, EmptySequence DEF NoEntries
  <2>5. c.kind \in BarrierKinds
    BY <1>10 DEF BarrierKinds
  <2> QED BY <1>1, <2>2, <2>3, <2>4, <2>5 DEF IsDocument
<1> QED BY <1>4, <1>5, <1>6, <1>7, <1>8, <1>9, <1>10 DEF CommandKinds


LEMMA SuffixRange ==
  ASSUME NEW s, IsSequence(s), NEW t, IsSequence(t), SuffixOf(s, t)
  PROVE  Range(s) \subseteq Range(t)
<1>1. /\ Len(s) \in Nat /\ Len(t) \in Nat /\ Len(s) <= Len(t)
      /\ \A i \in 1 .. Len(s) : s[i] = t[Len(t) - Len(s) + i]
  BY SequenceIsFunction DEF SuffixOf
<1>2. /\ \A x \in Range(s) : \E i \in 1 .. Len(s) : x = s[i]
      /\ \A i \in 1 .. Len(t) : t[i] \in Range(t)
  BY SequenceIsFunction
<1>3. ASSUME NEW x \in Range(s) PROVE x \in Range(t)
  <2>1. PICK i \in 1 .. Len(s) : x = s[i]
    BY <1>2
  <2>2. Len(t) - Len(s) + i \in 1 .. Len(t)
    BY <1>1
  <2> QED BY <1>1, <1>2, <2>1, <2>2
<1> QED BY <1>3

LEMMA SuffixPush ==
  ASSUME NEW s, IsSequence(s), NEW t, IsSequence(t), SuffixOf(s, t), NEW h
  PROVE  SuffixOf(Push(s, h), Push(t, h))
<1>1. /\ Len(s) = MaxHistory => s # <<>>
      /\ Len(t) = MaxHistory => t # <<>>
  BY EmptySequence, DocumentBounds
<1>2. /\ s # <<>> => IsSequence(Tail(s))
      /\ t # <<>> => IsSequence(Tail(t))
  BY SequenceTail
<1> DEFINE p == IF Len(s) = MaxHistory THEN Tail(s) ELSE s
           q == IF Len(t) = MaxHistory THEN Tail(t) ELSE t
<1>3. IsSequence(p) /\ IsSequence(q)
  BY <1>1, <1>2
<1>4. SuffixOf(p, q)
  <2>1. CASE Len(s) = MaxHistory /\ Len(t) = MaxHistory
    BY <1>1, <2>1, SuffixTails
  <2>2. CASE Len(s) = MaxHistory /\ Len(t) # MaxHistory
    BY <1>1, <2>2, SuffixTails
  <2>3. CASE Len(s) # MaxHistory /\ Len(t) = MaxHistory
    BY <1>1, <2>3, SuffixTails
  <2>4. CASE Len(s) # MaxHistory /\ Len(t) # MaxHistory
    BY <2>4
  <2> QED BY <2>1, <2>2, <2>3, <2>4
<1>5. Push(s, h) = Append(p, h) /\ Push(t, h) = Append(q, h)
  BY DEF Push
<1> HIDE DEF p, q
<1> QED BY <1>3, <1>4, <1>5, SuffixAppend

\* Entry x of s is entry y of t, counted from the end.
Matches(s, x, t, y) ==
  x \in 1 .. Len(s) /\ y \in 1 .. Len(t) /\ y = Len(t) - Len(s) + x /\ s[x] = t[y]

LEMMA SuffixWithout ==
  ASSUME NEW s, IsSequence(s), NEW t, IsSequence(t), SuffixOf(s, t),
         NEW x, NEW y, Matches(s, x, t, y)
  PROVE  SuffixOf(RemoveAt(s, x), RemoveAt(t, y))
<1>1. x \in 1 .. Len(s) /\ y = Len(t) - Len(s) + x
  BY DEF Matches
<1> QED BY <1>1, SuffixRemoveAt

\* The last entry of t that is wanted is the last such entry of its end s.
LEMMA SuffixLast ==
  ASSUME NEW s, IsSequence(s), NEW t, IsSequence(t), SuffixOf(s, t), NEW W,
         NEW x \in 1 .. Len(s), s[x] \in W, \A i \in 1 .. Len(s) : s[i] \in W => i <= x,
         NEW y \in 0 .. Len(t), y # 0 => t[y] \in W,
         \A i \in 1 .. Len(t) : t[i] \in W => y # 0 /\ i <= y
  PROVE  Matches(s, x, t, y)
<1>1. /\ Len(s) \in Nat /\ Len(t) \in Nat /\ Len(s) <= Len(t)
      /\ \A i \in 1 .. Len(s) : s[i] = t[Len(t) - Len(s) + i]
  BY SequenceIsFunction DEF SuffixOf
<1> DEFINE k == Len(t) - Len(s)
<1>2. k \in Nat /\ k + x \in 1 .. Len(t) /\ s[x] = t[k + x]
  BY <1>1
<1>3. y # 0 /\ k + x <= y
  BY <1>2
<1>4. y - k \in 1 .. Len(s) /\ k + (y - k) = y
  BY <1>1, <1>2, <1>3
<1>5. s[y - k] = t[y]
  BY <1>1, <1>4
<1>6. y - k <= x
  BY <1>3, <1>4, <1>5
<1>7. y = k + x
  BY <1>2, <1>3, <1>4, <1>6
<1> QED BY <1>2, <1>7 DEF Matches

\* Documents with the same content are the same to every command.
LEMMA SameContent ==
  ASSUME NEW d, NEW D, Content(d) = Content(D)
  PROVE  /\ d.owner = D.owner /\ d.pages = D.pages /\ d.active = D.active
         /\ d.interactionEpoch = D.interactionEpoch
         /\ Page(d) = Page(D) /\ Objects(d) = Objects(D) /\ Context(d) = Context(D)
         /\ \A id : Position(d, id) = Position(D, id)
         /\ \A id : PagePosition(d, id) = PagePosition(D, id)
         /\ \A h, a : Recalls(d, h, a) <=> Recalls(D, h, a)
         /\ \A o : HistoryOf(d, o) = HistoryOf(D, o)
         /\ \A o : WithObject(d, o) = WithObject(D, o)
<1>1. /\ d.owner = D.owner /\ d.pages = D.pages /\ d.active = D.active
      /\ d.interactionEpoch = D.interactionEpoch
  BY ContentFields
<1>2. Page(d) = Page(D) /\ Objects(d) = Objects(D)
  BY <1>1 DEF Page, Objects
<1>3. Context(d) = Context(D)
  BY <1>1, <1>2 DEF Context
<1>4. /\ \A id : Position(d, id) = Position(D, id)
      /\ \A id : PagePosition(d, id) = PagePosition(D, id)
  BY <1>1, <1>2 DEF Position, PagePosition
<1>5. /\ \A h, a : Recalls(d, h, a) <=> Recalls(D, h, a)
      /\ \A o : HistoryOf(d, o) = HistoryOf(D, o)
  BY <1>2 DEF Recalls, HistoryOf
<1>6. \A o : WithObject(d, o) = WithObject(D, o)
  BY <1>1 DEF WithObject
<1> QED BY <1>1, <1>2, <1>3, <1>4, <1>5, <1>6

LEMMA UndoEntryFollows ==
  ASSUME NEW d, IsDocument(d), NEW D, IsDocument(D), Follows(d, D), NEW a,
         NEW x, x = UndoEntry(d, a), NEW y, y = UndoEntry(D, a), x # 0
  PROVE  Matches(d.undo, x, D.undo, y)
<1> DEFINE s == d.undo
           t == D.undo
           W == {h \in Range(t) : Recalls(D, h, a) /\ Position(D, h.object.id) # 0}
<1>1. IsSequence(s) /\ IsSequence(t) /\ SuffixOf(s, t)
  BY DEF IsDocument, Follows
<1>2. /\ x \in 0 .. Len(s) /\ Recalls(d, s[x], a) /\ Position(d, s[x].object.id) # 0
      /\ \A i \in 1 .. Len(s) :
           Recalls(d, s[i], a) /\ Position(d, s[i].object.id) # 0 => i <= x
  BY UndoEntryRange
<1>3. /\ y \in 0 .. Len(t)
      /\ y # 0 => Recalls(D, t[y], a) /\ Position(D, t[y].object.id) # 0
      /\ \A i \in 1 .. Len(t) :
           Recalls(D, t[i], a) /\ Position(D, t[i].object.id) # 0 => y # 0 /\ i <= y
  BY UndoEntryRange
<1>4. /\ \A i \in 1 .. Len(s) : s[i] \in Range(t)
      /\ \A i \in 1 .. Len(t) : t[i] \in Range(t)
  BY <1>1, SuffixRange, SequenceIsFunction
<1>5. /\ \A h : Recalls(d, h, a) <=> Recalls(D, h, a)
      /\ \A id : Position(d, id) = Position(D, id)
  BY SameContent DEF Follows
<1>6. Len(s) \in Nat /\ Len(t) \in Nat
  BY <1>1, SequenceIsFunction
<1> HIDE DEF s, t
<1>7. /\ \A i \in 1 .. Len(s) : s[i] \in W <=>
           Recalls(d, s[i], a) /\ Position(d, s[i].object.id) # 0
      /\ \A i \in 1 .. Len(t) : t[i] \in W <=>
           Recalls(D, t[i], a) /\ Position(D, t[i].object.id) # 0
  BY <1>4, <1>5
<1> HIDE DEF W
<1>8. x \in 1 .. Len(s) /\ (y # 0 => y \in 1 .. Len(t))
  BY <1>2, <1>3, <1>6
<1>9. /\ s[x] \in W /\ (y # 0 => t[y] \in W)
      /\ \A i \in 1 .. Len(s) : s[i] \in W => i <= x
      /\ \A i \in 1 .. Len(t) : t[i] \in W => y # 0 /\ i <= y
  BY <1>2, <1>3, <1>7, <1>8
<1>10. Matches(s, x, t, y)
  BY <1>1, <1>3, <1>8, <1>9, SuffixLast
<1> QED BY <1>10 DEF s, t

LEMMA RedoEntryFollows ==
  ASSUME NEW d, IsDocument(d), NEW D, IsDocument(D), Follows(d, D), NEW a,
         NEW x, x = RedoEntry(d, a), NEW y, y = RedoEntry(D, a), x # 0
  PROVE  Matches(d.redo, x, D.redo, y)
<1> DEFINE s == d.redo
           t == D.redo
           W == {h \in Range(t) : Recalls(D, h, a)}
<1>1. IsSequence(s) /\ IsSequence(t) /\ SuffixOf(s, t)
  BY DEF IsDocument, Follows
<1>2. /\ x \in 0 .. Len(s) /\ Recalls(d, s[x], a)
      /\ \A i \in 1 .. Len(s) : Recalls(d, s[i], a) => i <= x
  BY RedoEntryRange
<1>3. /\ y \in 0 .. Len(t) /\ (y # 0 => Recalls(D, t[y], a))
      /\ \A i \in 1 .. Len(t) : Recalls(D, t[i], a) => y # 0 /\ i <= y
  BY RedoEntryRange
<1>4. /\ \A i \in 1 .. Len(s) : s[i] \in Range(t)
      /\ \A i \in 1 .. Len(t) : t[i] \in Range(t)
  BY <1>1, SuffixRange, SequenceIsFunction
<1>5. \A h : Recalls(d, h, a) <=> Recalls(D, h, a)
  BY SameContent DEF Follows
<1>6. Len(s) \in Nat /\ Len(t) \in Nat
  BY <1>1, SequenceIsFunction
<1> HIDE DEF s, t
<1>7. /\ \A i \in 1 .. Len(s) : s[i] \in W <=> Recalls(d, s[i], a)
      /\ \A i \in 1 .. Len(t) : t[i] \in W <=> Recalls(D, t[i], a)
  BY <1>4, <1>5
<1> HIDE DEF W
<1>8. x \in 1 .. Len(s) /\ (y # 0 => y \in 1 .. Len(t))
  BY <1>2, <1>3, <1>6
<1>9. /\ s[x] \in W /\ (y # 0 => t[y] \in W)
      /\ \A i \in 1 .. Len(s) : s[i] \in W => i <= x
      /\ \A i \in 1 .. Len(t) : t[i] \in W => y # 0 /\ i <= y
  BY <1>2, <1>3, <1>7, <1>8
<1>10. Matches(s, x, t, y)
  BY <1>1, <1>3, <1>8, <1>9, SuffixLast
<1> QED BY <1>10 DEF s, t

LEMMA FollowsParts ==
  ASSUME NEW d, NEW D, d.owner = D.owner, d.pages = D.pages, d.active = D.active,
         d.interactionEpoch = D.interactionEpoch, d.accepted \subseteq D.accepted,
         SuffixOf(d.undo, D.undo), SuffixOf(d.redo, D.redo)
  PROVE  Follows(d, D)
BY ContentFields DEF Follows

\* A follower that can apply a command the authority applied still follows.
LEMMA ApplyFollows ==
  ASSUME NEW d, IsDocument(d), NEW D, IsDocument(D), Follows(d, D),
         NEW c, c.kind \in CommandKinds,
         Apply(d, c).status = "Applied", Apply(D, c).status = "Applied",
         NEW e, e = Apply(d, c).doc, NEW E, E = Apply(D, c).doc
  PROVE  Follows(e, E)
<1>1. /\ HasFields(d) /\ IsSequence(d.undo) /\ IsSequence(d.redo)
      /\ HasFields(D) /\ IsSequence(D.undo) /\ IsSequence(D.redo)
  BY DEF IsDocument
<1>2. d.accepted \subseteq D.accepted /\ SuffixOf(d.undo, D.undo) /\ SuffixOf(d.redo, D.redo)
  BY DEF Follows
<1>3. /\ d.owner = D.owner /\ d.pages = D.pages /\ d.active = D.active
      /\ d.interactionEpoch = D.interactionEpoch /\ Page(d) = Page(D)
      /\ \A id : Position(d, id) = Position(D, id)
      /\ \A id : PagePosition(d, id) = PagePosition(D, id)
      /\ \A o : HistoryOf(d, o) = HistoryOf(D, o)
      /\ \A o : WithObject(d, o) = WithObject(D, o)
  BY SameContent DEF Follows
<1>4. SuffixOf(NoEntries, NoEntries)
  BY EmptySequence, SuffixEmpty DEF NoEntries
<1>5. CASE c.kind = "Add"
  <2>0. PICK object : object = ObjectOf(c)
    OBVIOUS
  <2>1. /\ e = AddObject(d, c).doc /\ AddObject(d, c).status = "Applied"
        /\ E = AddObject(D, c).doc /\ AddObject(D, c).status = "Applied"
    BY <1>5, ApplyResult
  <2>2. /\ e.owner = d.owner /\ e.active = d.active /\ e.pages = WithObject(d, object)
        /\ e.interactionEpoch = d.interactionEpoch
        /\ e.undo = Push(d.undo, HistoryOf(d, object))
        /\ e.redo = Keep(d.redo, OfOthers(d.redo, c.actor))
        /\ e.accepted = d.accepted \cup {c.id}
    BY <1>1, <2>0, <2>1, AddFields
  <2>3. /\ E.owner = D.owner /\ E.active = D.active /\ E.pages = WithObject(D, object)
        /\ E.interactionEpoch = D.interactionEpoch
        /\ E.undo = Push(D.undo, HistoryOf(D, object))
        /\ E.redo = Keep(D.redo, OfOthers(D.redo, c.actor))
        /\ E.accepted = D.accepted \cup {c.id}
    BY <1>1, <2>0, <2>1, AddFields
  <2>4. SuffixOf(e.undo, E.undo)
    BY <1>1, <1>2, <1>3, <2>2, <2>3, SuffixPush
  <2>5. SuffixOf(e.redo, E.redo)
    <3>1. \A h \in Range(d.redo) :
            h \in OfOthers(d.redo, c.actor) <=> h \in OfOthers(D.redo, c.actor)
      <4>1. Range(d.redo) \subseteq Range(D.redo)
        BY <1>1, <1>2, SuffixRange
      <4> QED BY <4>1 DEF OfOthers
    <3> QED BY <1>1, <1>2, <2>2, <2>3, <3>1, SuffixKeep
  <2> QED BY <1>2, <1>3, <2>2, <2>3, <2>4, <2>5, FollowsParts
<1>6. CASE c.kind = "Erase"
  <2>0. PICK n : n = Position(d, c.target)
    OBVIOUS
  <2>1. /\ e = EraseObject(d, c).doc /\ EraseObject(d, c).status = "Applied"
        /\ E = EraseObject(D, c).doc /\ EraseObject(D, c).status = "Applied"
    BY <1>6, ApplyResult
  <2>2. /\ e.owner = d.owner /\ e.active = d.active
        /\ e.pages = [d.pages EXCEPT ![d.active].objects = RemoveAt(@, n)]
        /\ e.interactionEpoch = d.interactionEpoch
        /\ e.undo = d.undo /\ e.redo = d.redo /\ e.accepted = d.accepted \cup {c.id}
    BY <1>1, <2>0, <2>1, EraseFields
  <2>3. n = Position(D, c.target)
    BY <1>3, <2>0
  <2>4. /\ E.owner = D.owner /\ E.active = D.active
        /\ E.pages = [D.pages EXCEPT ![D.active].objects = RemoveAt(@, n)]
        /\ E.interactionEpoch = D.interactionEpoch
        /\ E.undo = D.undo /\ E.redo = D.redo /\ E.accepted = D.accepted \cup {c.id}
    BY <1>1, <2>1, <2>3, EraseFields
  <2>5. e.pages = E.pages
    BY <1>3, <2>2, <2>4
  <2> QED BY <1>2, <1>3, <2>2, <2>4, <2>5, FollowsParts
<1>7. CASE c.kind = "Undo"
  <2>0. PICK i : i = UndoEntry(d, c.actor)
    OBVIOUS
  <2>00. PICK j : j = UndoEntry(D, c.actor)
    OBVIOUS
  <2>1. e = UndoAdd(d, c).doc /\ UndoAdd(d, c).status = "Applied"
    BY <1>7, ApplyResult
  <2>10. E = UndoAdd(D, c).doc /\ UndoAdd(D, c).status = "Applied"
    BY <1>7, ApplyResult
  <2>11. HasFields(d) /\ HasFields(D)
    BY <1>1
  <2>2. /\ e.owner = d.owner /\ e.active = d.active /\ i # 0
        /\ e.pages = WithoutObject(d, Position(d, d.undo[i].object.id))
        /\ e.interactionEpoch = d.interactionEpoch
        /\ e.undo = RemoveAt(d.undo, i) /\ e.redo = Push(d.redo, d.undo[i])
        /\ e.accepted = d.accepted \cup {c.id}
    BY <2>0, <2>1, <2>11, UndoFields
  <2>3. /\ E.owner = D.owner /\ E.active = D.active
        /\ E.pages = WithoutObject(D, Position(D, D.undo[j].object.id))
        /\ E.interactionEpoch = D.interactionEpoch
        /\ E.undo = RemoveAt(D.undo, j) /\ E.redo = Push(D.redo, D.undo[j])
        /\ E.accepted = D.accepted \cup {c.id}
    BY <2>00, <2>10, <2>11, UndoFields
  <2>4. Matches(d.undo, i, D.undo, j)
    BY <2>0, <2>00, <2>2, UndoEntryFollows
  <2>5. e.pages = E.pages
    <3>1. Position(d, d.undo[i].object.id) = Position(D, D.undo[j].object.id)
      BY <1>3, <2>4 DEF Matches
    <3> QED BY <1>3, <2>2, <2>3, <3>1 DEF WithoutObject
  <2>6. SuffixOf(e.undo, E.undo)
    BY <1>1, <1>2, <2>2, <2>3, <2>4, SuffixWithout
  <2>7. SuffixOf(e.redo, E.redo)
    <3>1. d.undo[i] = D.undo[j]
      BY <2>4 DEF Matches
    <3> QED BY <1>1, <1>2, <2>2, <2>3, <3>1, SuffixPush
  <2> QED BY <1>2, <1>3, <2>2, <2>3, <2>5, <2>6, <2>7, FollowsParts
<1>8. CASE c.kind = "Redo"
  <2>0. PICK i : i = RedoEntry(d, c.actor)
    OBVIOUS
  <2>00. PICK j : j = RedoEntry(D, c.actor)
    OBVIOUS
  <2>000. PICK object : object = Renamed(d.redo[i].object, c.id)
    OBVIOUS
  <2>1. /\ e = RedoAdd(d, c).doc /\ RedoAdd(d, c).status = "Applied"
        /\ E = RedoAdd(D, c).doc /\ RedoAdd(D, c).status = "Applied"
    BY <1>8, ApplyResult
  <2>2. /\ e.owner = d.owner /\ e.active = d.active /\ i # 0
        /\ e.pages = WithObject(d, object)
        /\ e.interactionEpoch = d.interactionEpoch
        /\ e.undo = Push(d.undo, HistoryOf(d, object)) /\ e.redo = RemoveAt(d.redo, i)
        /\ e.accepted = d.accepted \cup {c.id}
    BY <1>1, <2>0, <2>000, <2>1, RedoFields
  <2>3. Matches(d.redo, i, D.redo, j)
    BY <2>0, <2>00, <2>2, RedoEntryFollows
  <2>4. object = Renamed(D.redo[j].object, c.id)
    BY <2>000, <2>3 DEF Matches
  <2>5. /\ E.owner = D.owner /\ E.active = D.active
        /\ E.pages = WithObject(D, object)
        /\ E.interactionEpoch = D.interactionEpoch
        /\ E.undo = Push(D.undo, HistoryOf(D, object)) /\ E.redo = RemoveAt(D.redo, j)
        /\ E.accepted = D.accepted \cup {c.id}
    BY <1>1, <2>00, <2>1, <2>4, RedoFields
  <2>6. SuffixOf(e.undo, E.undo)
    BY <1>1, <1>2, <1>3, <2>2, <2>5, SuffixPush
  <2>7. SuffixOf(e.redo, E.redo)
    BY <1>1, <1>2, <2>2, <2>3, <2>5, SuffixWithout
  <2> QED BY <1>2, <1>3, <2>2, <2>5, <2>6, <2>7, FollowsParts
<1>9. CASE c.kind \in {"Clear", "SetBackground"}
  <2>1. PICK b : /\ e = ResetPage(d, c, b).doc /\ ResetPage(d, c, b).status = "Applied"
                 /\ E = ResetPage(D, c, b).doc /\ ResetPage(D, c, b).status = "Applied"
    <3>1. CASE c.kind = "Clear"
      <4>1. Apply(d, c) = ResetPage(d, c, Page(d).background)
        BY <3>1, ApplyResult
      <4>2. Apply(D, c) = ResetPage(D, c, Page(d).background)
        BY <1>3, <3>1, ApplyResult
      <4> QED BY <4>1, <4>2
    <3>2. CASE c.kind = "SetBackground"
      BY <3>2, ApplyResult
    <3> QED BY <1>9, <3>1, <3>2
  <2>2. /\ e.owner = d.owner /\ e.active = d.active
        /\ e.pages = [d.pages EXCEPT ![d.active] = CleanPage(d.pages[d.active], b)]
        /\ e.interactionEpoch = d.interactionEpoch + 1
        /\ e.undo = Keep(d.undo, OffPage(d.undo, Page(d).id))
        /\ e.redo = NoEntries /\ e.accepted = IdOf(c)
    BY <1>1, <2>1, ResetFields
  <2>3. /\ E.owner = D.owner /\ E.active = D.active
        /\ E.pages = [D.pages EXCEPT ![D.active] = CleanPage(D.pages[D.active], b)]
        /\ E.interactionEpoch = D.interactionEpoch + 1
        /\ E.undo = Keep(D.undo, OffPage(D.undo, Page(D).id))
        /\ E.redo = NoEntries /\ E.accepted = IdOf(c)
    BY <1>1, <2>1, ResetFields
  <2>4. e.pages = E.pages
    BY <1>3, <2>2, <2>3
  <2>5. SuffixOf(e.undo, E.undo)
    <3>1. \A h \in Range(d.undo) :
            h \in OffPage(d.undo, Page(d).id) <=> h \in OffPage(D.undo, Page(D).id)
      <4>1. Range(d.undo) \subseteq Range(D.undo)
        BY <1>1, <1>2, SuffixRange
      <4> QED BY <1>3, <4>1 DEF OffPage
    <3> QED BY <1>1, <1>2, <2>2, <2>3, <3>1, SuffixKeep
  <2> QED BY <1>3, <1>4, <2>2, <2>3, <2>4, <2>5, FollowsParts
<1>10. CASE c.kind \in {"AddPage", "AddImagePage"}
  <2>1. PICK b : /\ e = AppendPage(d, c, b).doc /\ AppendPage(d, c, b).status = "Applied"
                 /\ E = AppendPage(D, c, b).doc /\ AppendPage(D, c, b).status = "Applied"
    BY <1>10, ApplyResult
  <2>2. /\ e.owner = d.owner /\ e.active = Len(d.pages) + 1
        /\ e.pages = Append(d.pages, BlankPage(c.id, b))
        /\ e.interactionEpoch = d.interactionEpoch + 1
        /\ e.undo = d.undo /\ e.redo = NoEntries /\ e.accepted = IdOf(c)
    BY <1>1, <2>1, AppendPageFields
  <2>3. /\ E.owner = D.owner /\ E.active = Len(D.pages) + 1
        /\ E.pages = Append(D.pages, BlankPage(c.id, b))
        /\ E.interactionEpoch = D.interactionEpoch + 1
        /\ E.undo = D.undo /\ E.redo = NoEntries /\ E.accepted = IdOf(c)
    BY <1>1, <2>1, AppendPageFields
  <2> QED BY SMTT(30), <1>2, <1>3, <1>4, <2>2, <2>3, FollowsParts
<1>11. CASE c.kind = "SelectPage"
  <2>1. /\ e = SelectPage(d, c).doc /\ SelectPage(d, c).status = "Applied"
        /\ E = SelectPage(D, c).doc /\ SelectPage(D, c).status = "Applied"
    BY <1>11, ApplyResult
  <2>2. /\ e.owner = d.owner /\ e.active = PagePosition(d, c.target)
        /\ e.pages = d.pages /\ e.interactionEpoch = d.interactionEpoch + 1
        /\ e.undo = d.undo /\ e.redo = NoEntries /\ e.accepted = IdOf(c)
    BY <1>1, <2>1, SelectPageFields
  <2>3. /\ E.owner = D.owner /\ E.active = PagePosition(D, c.target)
        /\ E.pages = D.pages /\ E.interactionEpoch = D.interactionEpoch + 1
        /\ E.undo = D.undo /\ E.redo = NoEntries /\ E.accepted = IdOf(c)
    BY <1>1, <2>1, SelectPageFields
  <2> QED BY <1>2, <1>3, <1>4, <2>2, <2>3, FollowsParts
<1> QED BY <1>5, <1>6, <1>7, <1>8, <1>9, <1>10, <1>11 DEF CommandKinds

LEMMA AdvanceFollows ==
  ASSUME NEW d, IsDocument(d), NEW D, IsDocument(D), Follows(d, D)
  PROVE  /\ IsDocument(AdvanceInteraction(d)) /\ IsDocument(AdvanceInteraction(D))
         /\ Follows(AdvanceInteraction(d), AdvanceInteraction(D))
<1>0. PICK e, E : e = AdvanceInteraction(d) /\ E = AdvanceInteraction(D)
  OBVIOUS
<1>1. /\ HasFields(e) /\ e.owner = d.owner /\ e.active = d.active /\ e.pages = d.pages
      /\ e.interactionEpoch = d.interactionEpoch + 1 /\ e.undo = d.undo
      /\ e.redo = NoEntries /\ e.accepted = {}
  BY <1>0, AdvanceFields DEF IsDocument
<1>2. /\ HasFields(E) /\ E.owner = D.owner /\ E.active = D.active /\ E.pages = D.pages
      /\ E.interactionEpoch = D.interactionEpoch + 1 /\ E.undo = D.undo
      /\ E.redo = NoEntries /\ E.accepted = {}
  BY <1>0, AdvanceFields DEF IsDocument
<1>3. /\ d.owner = D.owner /\ d.pages = D.pages /\ d.active = D.active
      /\ d.interactionEpoch = D.interactionEpoch /\ SuffixOf(d.undo, D.undo)
  BY SameContent DEF Follows
<1>4. SuffixOf(NoEntries, NoEntries) /\ IsSequence(NoEntries)
  BY EmptySequence, SuffixEmpty DEF NoEntries
<1>5. Follows(e, E)
  BY <1>1, <1>2, <1>3, <1>4, FollowsParts
<1>6. IsDocument(e) /\ IsDocument(E)
  BY <1>1, <1>2, <1>4 DEF IsDocument
<1> QED BY <1>0, <1>5, <1>6

LEMMA RestoreFollows ==
  ASSUME NEW D, IsDocument(D), NEW e, e = Restore(Content(D))
  PROVE  IsDocument(e) /\ Follows(e, D)
<1>0. PICK C : C = Content(D)
  OBVIOUS
<1>1. /\ C.owner = D.owner /\ C.pages = D.pages /\ C.active = D.active
      /\ C.interactionEpoch = D.interactionEpoch
  BY <1>0 DEF Content
<1>2. e = [owner |-> C.owner, pages |-> C.pages, active |-> C.active,
           interactionEpoch |-> C.interactionEpoch, undo |-> NoEntries, redo |-> NoEntries,
           accepted |-> {}, used |-> ObjectIds(C)]
  BY <1>0 DEF Restore, NoEntries
<1>3. /\ HasFields(e) /\ e.owner = D.owner /\ e.pages = D.pages /\ e.active = D.active
      /\ e.interactionEpoch = D.interactionEpoch
      /\ e.undo = NoEntries /\ e.redo = NoEntries /\ e.accepted = {}
  BY <1>1, <1>2 DEF HasFields
<1>4. IsSequence(D.undo) /\ IsSequence(D.redo)
  BY DEF IsDocument
<1>5. /\ IsSequence(NoEntries)
      /\ SuffixOf(NoEntries, D.undo) /\ SuffixOf(NoEntries, D.redo)
  BY <1>4, EmptySequence, SuffixEmpty DEF NoEntries
<1>6. IsDocument(e)
  BY <1>3, <1>5 DEF IsDocument
<1> QED BY <1>3, <1>5, <1>6, FollowsParts

-----------------------------------------------------------------------------
(* Entries, snapshots and messages.                                        *)

\* The result after each entry of a delta.
LEMMA EntriesFold ==
  ASSUME NEW s, IsSequence(s), NEW b
  PROVE  \E f : /\ f = [S \in SUBSET (1 .. Len(s)) |->
                         IF S = {} THEN [ok |-> TRUE, board |-> b]
                         ELSE ApplyEntry(f[S \ {Max(S)}], s[Max(S)])]
                /\ ApplyEntries(b, s) = f[1 .. Len(s)]
<1> DEFINE Next1(g, S) == IF S = {} THEN [ok |-> TRUE, board |-> b]
                          ELSE ApplyEntry(g[S \ {Max(S)}], s[Max(S)])
           Upto(f, n) == f = [S \in SUBSET (1 .. n) |-> Next1(f, S)]
<1>1. DOMAIN s = 1 .. Len(s) /\ Len(s) \in Nat
  BY SequenceIsFunction
<1>2. ApplyEntries(b, s) = (CHOOSE f : Upto(f, Len(s)))[1 .. Len(s)]
  BY <1>1 DEF ApplyEntries, FoldLeft, MapThenFoldSet
<1>3. \E f : Upto(f, 0)
  <2> DEFINE g == [S \in SUBSET (1 .. 0) |-> [ok |-> TRUE, board |-> b]]
  <2>1. \A S \in SUBSET (1 .. 0) : S = {}
    OBVIOUS
  <2>2. Upto(g, 0)
    BY <2>1
  <2> QED BY <2>2
<1>4. ASSUME NEW n \in Nat, \E f : Upto(f, n) PROVE \E f : Upto(f, n + 1)
  <2>1. PICK f : Upto(f, n)
    BY <1>4
  <2> DEFINE g == [S \in SUBSET (1 .. n + 1) |->
                     IF n + 1 \in S THEN Next1(f, S) ELSE f[S]]
  <2>2. ASSUME NEW S \in SUBSET (1 .. n + 1) PROVE g[S] = Next1(g, S)
    <3>1. CASE n + 1 \in S
      <4>1. Max(S) = n + 1 /\ S \ {n + 1} \in SUBSET (1 .. n + 1) /\ S # {}
        BY <3>1, MaxOfExtended
      <4>2. g[S \ {Max(S)}] = f[S \ {Max(S)}]
        BY <4>1
      <4> QED BY <3>1, <4>1, <4>2
    <3>2. CASE n + 1 \notin S
      <4>1. S \in SUBSET (1 .. n)
        BY <3>2
      <4>2. f[S] = Next1(f, S)
        BY <2>1, <4>1
      <4>3. S # {} => S \ {Max(S)} \in SUBSET (1 .. n + 1) /\ n + 1 \notin S \ {Max(S)}
        BY <3>2
      <4>4. S # {} => g[S \ {Max(S)}] = f[S \ {Max(S)}]
        BY <4>3
      <4> QED BY <3>2, <4>2, <4>4
    <3> QED BY <3>1, <3>2
  <2>3. Upto(g, n + 1)
    BY <2>2
  <2> QED BY <2>3
<1>5. \E f : Upto(f, Len(s))
  <2> HIDE DEF Upto
  <2> DEFINE T == {n \in Nat : \E f : Upto(f, n)}
  <2>1. 0 \in T
    BY <1>3
  <2>2. \A n \in Nat : n \in T => n + 1 \in T
    BY <1>4
  <2>3. Len(s) \in T
    <3> HIDE DEF T
    <3> QED BY <1>1, <2>1, <2>2, SetInduction
  <2> QED BY <2>3
<1>6. Upto(CHOOSE f : Upto(f, Len(s)), Len(s))
  BY <1>5
<1> QED BY <1>2, <1>6

LEMMA EntriesSteps ==
  ASSUME NEW s, IsSequence(s), NEW b
  PROVE  \E k : /\ k[0] = [ok |-> TRUE, board |-> b] /\ ApplyEntries(b, s) = k[Len(s)]
                /\ \A n \in 0 .. Len(s) - 1 : k[n + 1] = ApplyEntry(k[n], s[n + 1])
<1>1. Len(s) \in Nat
  BY SequenceIsFunction
<1>2. PICK f : /\ f = [S \in SUBSET (1 .. Len(s)) |->
                         IF S = {} THEN [ok |-> TRUE, board |-> b]
                         ELSE ApplyEntry(f[S \ {Max(S)}], s[Max(S)])]
               /\ ApplyEntries(b, s) = f[1 .. Len(s)]
  BY EntriesFold
<1> DEFINE k == [n \in 0 .. Len(s) |-> f[1 .. n]]
<1>3. k[0] = [ok |-> TRUE, board |-> b] /\ ApplyEntries(b, s) = k[Len(s)]
  <2>1. (1 .. 0) = {} /\ {} \in SUBSET (1 .. Len(s)) /\ 0 \in 0 .. Len(s) /\ Len(s) \in 0 .. Len(s)
    BY <1>1
  <2>2. f[{}] = [ok |-> TRUE, board |-> b]
    BY <1>2, <2>1
  <2> QED BY <1>2, <2>1, <2>2
<1>4. ASSUME NEW n \in 0 .. Len(s) - 1
      PROVE  k[n + 1] = ApplyEntry(k[n], s[n + 1])
  <2>1. n \in Nat /\ n + 1 \in Nat \ {0} /\ n + 1 \in 0 .. Len(s) /\ n \in 0 .. Len(s)
    BY <1>1
  <2>2. Max(1 .. n + 1) = n + 1 /\ (1 .. n + 1) \ {n + 1} = 1 .. n + 1 - 1 /\ n + 1 - 1 = n
    BY <2>1, MaxOfInterval
  <2>3. (1 .. n + 1) # {} /\ (1 .. n + 1) \in SUBSET (1 .. Len(s))
    <3>1. n + 1 \in 1 .. n + 1
      BY <2>1
    <3>2. n + 1 <= Len(s)
      BY <1>1, <2>1
    <3> QED BY <1>1, <2>1, <3>1, <3>2
  <2>4. f[1 .. n + 1] = ApplyEntry(f[1 .. n], s[n + 1])
    BY <1>2, <2>2, <2>3
  <2> QED BY <2>1, <2>4
<1> QED BY <1>3, <1>4

LEMMA FlattenSequences ==
  ASSUME NEW s, IsSequence(s), \A i \in 1 .. Len(s) : IsSequence(s[i])
  PROVE  IsSequence(FlattenSeq(s))
<1>1. Len(s) \in Nat
  BY SequenceIsFunction
<1> DEFINE Next1(f, i) == IF i = 1 THEN s[i] ELSE f[i - 1] \o s[i]
           Upto(f, n) == f = [i \in 1 .. n |-> Next1(f, i)]
           Good(n) == \E f : Upto(f, n) /\ \A i \in 1 .. n : IsSequence(f[i])
<1>2. CASE Len(s) = 0
  BY <1>2 DEF FlattenSeq
<1>3. CASE Len(s) # 0
  <2>1. FlattenSeq(s) = (CHOOSE f : Upto(f, Len(s)))[Len(s)]
    BY <1>3 DEF FlattenSeq
  <2>2. Good(0)
    <3> DEFINE g == [i \in 1 .. 0 |-> s[i]]
    <3>1. Upto(g, 0) /\ \A i \in 1 .. 0 : IsSequence(g[i])
      OBVIOUS
    <3> QED BY <3>1
  <2>3. ASSUME NEW n \in Nat, n < Len(s), Good(n) PROVE Good(n + 1)
    <3>1. PICK f : Upto(f, n) /\ \A i \in 1 .. n : IsSequence(f[i])
      BY <2>3
    <3> DEFINE g == [i \in 1 .. n + 1 |-> IF i = n + 1 THEN Next1(f, i) ELSE f[i]]
    <3>2. ASSUME NEW i \in 1 .. n + 1 PROVE g[i] = Next1(g, i) /\ IsSequence(g[i])
      <4>1. CASE i = n + 1
        <5>1. g[i] = Next1(f, i)
          BY <4>1
        <5>2. i # 1 => g[i - 1] = f[i - 1] /\ IsSequence(f[i - 1])
          BY <2>3, <3>1, <4>1
        <5>3. i \in 1 .. Len(s) /\ IsSequence(s[i])
          BY <1>1, <2>3, <4>1
        <5> QED BY <5>1, <5>2, <5>3, SequenceConcat
      <4>2. CASE i # n + 1
        <5>1. i \in 1 .. n /\ g[i] = f[i]
          BY <4>2
        <5>2. i # 1 => i - 1 \in 1 .. n + 1 /\ i - 1 # n + 1
          BY <5>1
        <5> QED BY <3>1, <5>1, <5>2
      <4> QED BY <4>1, <4>2
    <3>3. Upto(g, n + 1) /\ \A i \in 1 .. n + 1 : IsSequence(g[i])
      BY <3>2
    <3> QED BY <3>3
  <2> DEFINE T == {n \in Nat : n <= Len(s) => Good(n)}
  <2>4. Len(s) \in T
    <3> HIDE DEF Good
    <3>1. 0 \in T
      BY <2>2
    <3>2. \A n \in Nat : n \in T => n + 1 \in T
      BY <1>1, <2>3
    <3> HIDE DEF T
    <3> QED BY <1>1, <3>1, <3>2, SetInduction
  <2>5. Good(Len(s))
    <3> HIDE DEF Good
    <3> QED BY <1>1, <2>4
  <2>6. PICK f : Upto(f, Len(s)) /\ \A i \in 1 .. Len(s) : IsSequence(f[i])
    BY <2>5
  <2>7. ASSUME NEW h, Upto(h, Len(s)) PROVE IsSequence(h[Len(s)])
    <3> DEFINE U == {n \in Nat : n + 1 <= Len(s) => IsSequence(h[n + 1])}
    <3>0. \A i \in 1 .. Len(s) : h[i] = Next1(h, i)
      BY <2>7
    <3> HIDE DEF Upto
    <3>1. 0 \in U
      <4>1. 1 \in 1 .. Len(s)
        BY <1>1, <1>3
      <4>2. Next1(h, 1) = s[1]
        OBVIOUS
      <4>3. h[1] = s[1]
        <5> HIDE DEF Next1
        <5> QED BY <3>0, <4>1, <4>2
      <4> QED BY <4>1, <4>3
    <3>2. ASSUME NEW n \in Nat, n \in U PROVE n + 1 \in U
      <4>0. PICK m : m = n + 1 + 1
        OBVIOUS
      <4> SUFFICES ASSUME m <= Len(s) PROVE IsSequence(h[m])
        BY <4>0
      <4>1. m \in 1 .. Len(s) /\ m # 1 /\ m - 1 = n + 1 /\ n + 1 <= Len(s)
        BY <1>1, <4>0
      <4>2. Next1(h, m) = h[m - 1] \o s[m]
        BY <4>1
      <4>3. IsSequence(h[m - 1])
        BY <3>2, <4>1
      <4>4. IsSequence(h[m - 1] \o s[m])
        BY <4>1, <4>3, SequenceConcat
      <4>5. h[m] = Next1(h, m)
        <5> HIDE DEF Next1
        <5> QED BY <3>0, <4>1
      <4> QED BY <4>2, <4>4, <4>5
    <3>3. Len(s) - 1 \in U
      <4>1. Len(s) - 1 \in Nat
        BY <1>1, <1>3
      <4> HIDE DEF U
      <4> QED BY <3>1, <3>2, <4>1, SetInduction
    <3>4. Len(s) - 1 + 1 = Len(s)
      BY <1>1
    <3> QED BY <1>1, <3>3, <3>4
  <2>8. Upto(CHOOSE h : Upto(h, Len(s)), Len(s))
    BY <2>6
  <2> HIDE DEF Upto
  <2> QED BY <2>1, <2>7, <2>8
<1> QED BY <1>2, <1>3

LEMMA DivisionNatural ==
  ASSUME NEW n \in Nat, NEW k \in Nat \ {0}
  PROVE  (n + k - 1) \div k \in Nat
OBVIOUS

LEMMA ChunkCountNatural ==
  ASSUME NEW d, IsDocument(d)
  PROVE  ChunkCount(Content(d)) \in Nat
<1>0. PICK C : C = Content(d)
  OBVIOUS
<1>1. C.pages = d.pages
  BY <1>0 DEF Content
<1>2. /\ C.pages = [i \in 1 .. Len(C.pages) |-> C.pages[i]] /\ Len(C.pages) \in Nat
      /\ DOMAIN C.pages = 1 .. Len(C.pages)
      /\ \A i \in 1 .. Len(C.pages) : IsPage(C.pages[i])
  BY <1>1, SequenceIsFunction DEF IsDocument, ArePages
<1> DEFINE W(i) == [j \in DOMAIN C.pages[i].objects |->
                     IF C.pages[i].objects[j].wide THEN <<"lead", "tail">> ELSE <<"byte">>]
           V(i) == <<"byte">> \o FlattenSeq(W(i))
           U == [i \in DOMAIN C.pages |-> V(i)]
<1>3. Units(C) = FlattenSeq(U)
  BY DEF Units
<1>4. ASSUME NEW i \in 1 .. Len(C.pages) PROVE IsSequence(V(i))
  <2> DEFINE o == C.pages[i].objects
             w == W(i)
  <2>1. IsSequence(o)
    BY <1>2 DEF IsPage
  <2>2. Len(o) \in Nat /\ DOMAIN o = 1 .. Len(o)
    BY <2>1, SequenceIsFunction
  <2>3. IsSequence(<<"lead", "tail">>) /\ IsSequence(<<"byte">>)
    BY DEF IsSequence, Range
  <2>4. w = [j \in 1 .. Len(o) |-> w[j]] /\ \A j \in 1 .. Len(o) : IsSequence(w[j])
    BY <2>2, <2>3
  <2> HIDE DEF o, w
  <2>5. IsSequence(w) /\ Len(w) = Len(o)
    BY <2>2, <2>4, FunctionIsSequence
  <2>6. IsSequence(FlattenSeq(w))
    BY <2>4, <2>5, FlattenSequences
  <2> QED BY <2>3, <2>6, SequenceConcat DEF w
<1>5. U = [i \in 1 .. Len(C.pages) |-> U[i]] /\ \A i \in 1 .. Len(C.pages) : IsSequence(U[i])
  <2> HIDE DEF V
  <2> QED BY <1>2, <1>4
<1> HIDE DEF U
<1>6. IsSequence(U) /\ Len(U) = Len(C.pages)
  BY <1>2, <1>5, FunctionIsSequence
<1>7. IsSequence(FlattenSeq(U))
  BY <1>5, <1>6, FlattenSequences
<1>8. Len(Units(C)) \in Nat
  BY <1>3, <1>7, SequenceIsFunction
<1>9. ChunkUnits \in Nat \ {0}
  BY DocumentBounds
<1> QED BY <1>0, <1>8, <1>9, DivisionNatural DEF ChunkCount

-----------------------------------------------------------------------------
(* The history of the authority and the boards that follow it.             *)

IsBoard(b) ==
  /\ b = [doc |-> b.doc, sequence |-> b.sequence, access |-> b.access]
  /\ b.sequence \in Nat /\ IsDocument(b.doc)

\* What entry e makes of the board b.
After(b, e) ==
  [doc |-> IF e.control THEN AdvanceInteraction(b.doc) ELSE Apply(b.doc, e.command).doc,
   sequence |-> e.sequence, access |-> IF e.control THEN e.access ELSE b.access]

Extends(b, e) ==
  /\ e.sequence = b.sequence + 1 /\ e.control \in BOOLEAN
  /\ ~e.control => e.command.kind \in CommandKinds
                   /\ Apply(b.doc, e.command).status = "Applied"

IsHistory(C, P) == IsSequence(C) /\ IsSequence(P) /\ Len(P) = Len(C) + 1

\* B[n] is the board of the authority after the n-th of the commits C.
IsChain(B, C, P) ==
  /\ B[0] = NewBoard
  /\ \A n \in 0 .. Len(C) : IsBoard(B[n]) /\ B[n].sequence = n /\ P[n + 1] = Shown(B[n])
  /\ \A n \in 0 .. Len(C) - 1 : Extends(B[n], C[n + 1]) /\ B[n + 1] = After(B[n], C[n + 1])

Tracks(b, B, n) ==
  /\ b.sequence \in 0 .. n /\ b.access = B[b.sequence].access
  /\ Follows(b.doc, B[b.sequence].doc)

EntryOK(e, C) == e.sequence \in 1 .. Len(C) /\ e = C[e.sequence]
EntriesOK(s, C) == IsSequence(s) /\ \A e \in Range(s) : EntryOK(e, C)

IsResult(a) == a = [ok |-> a.ok, board |-> a.board] /\ a.ok \in BOOLEAN /\ IsBoard(a.board)

LEMMA FollowsItself ==
  ASSUME NEW d, IsDocument(d)
  PROVE  Follows(d, d)
<1>1. Len(d.undo) \in Nat /\ Len(d.redo) \in Nat
  BY SequenceIsFunction DEF IsDocument
<1>2. SuffixOf(d.undo, d.undo)
  <2> DEFINE s == d.undo
  <2>1. \A i \in 1 .. Len(s) : Len(s) - Len(s) + i = i
    BY <1>1
  <2> QED BY <1>1, <2>1 DEF SuffixOf
<1>3. SuffixOf(d.redo, d.redo)
  <2> DEFINE s == d.redo
  <2>1. \A i \in 1 .. Len(s) : Len(s) - Len(s) + i = i
    BY <1>1
  <2> QED BY <1>1, <2>1 DEF SuffixOf
<1> QED BY <1>2, <1>3 DEF Follows

LEMMA AdvanceShape ==
  ASSUME NEW d, IsDocument(d), NEW D, D = AdvanceInteraction(d)
  PROVE  IsDocument(D) /\ D.interactionEpoch = d.interactionEpoch + 1
<1>1. IsDocument(D)
  BY AdvanceFollows, FollowsItself
<1>2. D.interactionEpoch = d.interactionEpoch + 1
  BY AdvanceFields DEF IsDocument
<1> QED BY <1>1, <1>2

LEMMA NewBoardShape == IsBoard(NewBoard) /\ NewBoard.sequence = 0
<1> DEFINE d == NewDocument(Authority)
<1>1. IsDocument(d)
  BY NewDocumentShape
<1> HIDE DEF d
<1>2. [doc |-> d, sequence |-> 0, access |-> OpenAccess].doc = d
  OBVIOUS
<1>3. NewBoard = [doc |-> d, sequence |-> 0, access |-> OpenAccess]
  BY DEF NewBoard, d
<1> QED BY <1>1, <1>3 DEF IsBoard

LEMMA AfterShape ==
  ASSUME NEW b, IsBoard(b), NEW e, Extends(b, e), NEW x, x = After(b, e)
  PROVE  /\ IsBoard(x) /\ x.sequence = e.sequence
         /\ x.sequence = b.sequence + 1
         /\ e.control => x.doc = AdvanceInteraction(b.doc) /\ x.access = e.access
         /\ ~e.control => x.doc = Apply(b.doc, e.command).doc /\ x.access = b.access
<1>1. /\ x.sequence = e.sequence /\ e.sequence = b.sequence + 1 /\ e.sequence \in Nat
      /\ x = [doc |-> x.doc, sequence |-> x.sequence, access |-> x.access]
      /\ e.control => x.doc = AdvanceInteraction(b.doc) /\ x.access = e.access
      /\ ~e.control => x.doc = Apply(b.doc, e.command).doc /\ x.access = b.access
  BY DEF After, Extends, IsBoard
<1>2. IsDocument(b.doc)
  BY DEF IsBoard
<1>3. CASE e.control
  BY <1>1, <1>2, <1>3, AdvanceShape DEF IsBoard
<1>4. CASE ~e.control
  <2>1. e.command.kind \in CommandKinds /\ Apply(b.doc, e.command).status = "Applied"
    BY <1>4 DEF Extends
  <2> QED BY <1>1, <1>2, <1>4, <2>1, ApplyShape DEF IsBoard
<1> QED BY <1>1, <1>3, <1>4

LEMMA ApplyEntryResult ==
  ASSUME NEW a, IsResult(a), NEW e, NEW b, b = a.board
  PROVE  /\ ~a.ok \/ e.sequence # b.sequence + 1 =>
              ApplyEntry(a, e) = [ok |-> FALSE, board |-> b]
         /\ a.ok /\ e.sequence = b.sequence + 1 /\ e.control =>
              ApplyEntry(a, e) = [ok |-> a.ok, board |->
                [doc |-> AdvanceInteraction(b.doc), sequence |-> e.sequence,
                 access |-> e.access]]
         /\ a.ok /\ e.sequence = b.sequence + 1 /\ ~e.control =>
              IF Apply(b.doc, e.command).status \in {"Applied", "Duplicate"}
              THEN ApplyEntry(a, e) = [ok |-> a.ok, board |->
                     [doc |-> Apply(b.doc, e.command).doc, sequence |-> e.sequence,
                      access |-> b.access]]
              ELSE ApplyEntry(a, e) = [ok |-> FALSE, board |-> b]
<1>1. a = [ok |-> a.ok, board |-> b]
  BY DEF IsResult
<1>2. [a EXCEPT !.ok = FALSE] = [ok |-> FALSE, board |-> b]
  <2>1. PICK y : y = [a EXCEPT !.ok = FALSE]
    OBVIOUS
  <2>2. y = [ok |-> FALSE, board |-> b]
    BY <1>1, <2>1
  <2> QED BY <2>1, <2>2
<1>3. ASSUME NEW x PROVE [a EXCEPT !.board = x] = [ok |-> a.ok, board |-> x]
  <2>1. PICK y : y = [a EXCEPT !.board = x]
    OBVIOUS
  <2>2. y = [ok |-> a.ok, board |-> x]
    BY <1>1, <2>1
  <2> QED BY <2>1, <2>2
<1>4. CASE ~a.ok \/ e.sequence # b.sequence + 1
  BY <1>2, <1>4 DEF ApplyEntry
<1>5. CASE a.ok /\ e.sequence = b.sequence + 1 /\ e.control
  BY <1>3, <1>5 DEF ApplyEntry
<1>6. CASE a.ok /\ e.sequence = b.sequence + 1 /\ ~e.control
  <2> DEFINE R == Apply(b.doc, e.command)
             x == [b EXCEPT !.doc = R.doc, !.sequence = e.sequence]
  <2>1. ApplyEntry(a, e) = IF R.status \in {"Applied", "Duplicate"}
                           THEN [a EXCEPT !.board = x] ELSE [a EXCEPT !.ok = FALSE]
    BY <1>6 DEF ApplyEntry
  <2> HIDE DEF R
  <2>2. b = [doc |-> b.doc, sequence |-> b.sequence, access |-> b.access]
    BY DEF IsResult, IsBoard
  <2>3. x = [doc |-> R.doc, sequence |-> e.sequence, access |-> b.access]
    <3>1. PICK u, v : u = R.doc /\ v = e.sequence
      OBVIOUS
    <3>2. x = [b EXCEPT !.doc = u, !.sequence = v]
      BY <3>1
    <3> HIDE DEF x
    <3>3. x = [doc |-> u, sequence |-> v, access |-> b.access]
      BY <2>2, <3>2
    <3> QED BY <3>1, <3>3
  <2> HIDE DEF x
  <2>4. ApplyEntry(a, e) = IF R.status \in {"Applied", "Duplicate"}
                           THEN [ok |-> a.ok, board |-> x]
                           ELSE [ok |-> FALSE, board |-> b]
    BY <1>2, <1>3, <2>1
  <2> QED BY <1>6, <2>3, <2>4 DEF R
<1> QED BY <1>4, <1>5, <1>6

\* A board that applies the next entry follows the authority past it.
LEMMA ApplyEntryTracks ==
  ASSUME NEW B, NEW C, NEW P, IsHistory(C, P), IsChain(B, C, P),
         NEW a, IsResult(a), Tracks(a.board, B, Len(C)), NEW e, EntryOK(e, C),
         NEW z, z = ApplyEntry(a, e)
  PROVE  IsResult(z) /\ Tracks(z.board, B, Len(C))
<1>0. PICK b : b = a.board
  OBVIOUS
<1>1. IsBoard(b) /\ Tracks(b, B, Len(C)) /\ a.ok \in BOOLEAN
  BY <1>0 DEF IsResult
<1>2. Len(C) \in Nat
  BY SequenceIsFunction DEF IsHistory
<1>3. CASE ~a.ok \/ e.sequence # b.sequence + 1
  <2>1. z = [ok |-> FALSE, board |-> b]
    BY <1>0, <1>3, ApplyEntryResult
  <2> QED BY <1>1, <2>1 DEF IsResult
<1>4. CASE a.ok /\ e.sequence = b.sequence + 1
  <2>0. PICK n : n = b.sequence
    OBVIOUS
  <2>1. n \in 0 .. Len(C) - 1 /\ n + 1 \in 0 .. Len(C) /\ n \in 0 .. Len(C) /\ e = C[n + 1]
    BY <1>1, <1>2, <1>4, <2>0 DEF EntryOK, Tracks
  <2>2. /\ IsBoard(B[n]) /\ Extends(B[n], e) /\ B[n + 1] = After(B[n], e)
        /\ B[n].sequence = n
    BY <2>1 DEF IsChain
  <2>3. PICK X, Y : X = B[n] /\ Y = B[n + 1]
    OBVIOUS
  <2>4. /\ IsBoard(Y) /\ Y.sequence = e.sequence
        /\ e.control => Y.doc = AdvanceInteraction(X.doc) /\ Y.access = e.access
        /\ ~e.control => Y.doc = Apply(X.doc, e.command).doc /\ Y.access = X.access
    BY <2>2, <2>3, AfterShape
  <2>5. /\ IsDocument(b.doc) /\ IsDocument(X.doc) /\ Follows(b.doc, X.doc)
        /\ b.access = X.access /\ e.sequence = n + 1
    BY <1>1, <1>4, <2>0, <2>2, <2>3 DEF IsBoard, Tracks
  <2>6. ASSUME NEW x, x = [doc |-> x.doc, sequence |-> n + 1, access |-> Y.access],
               IsDocument(x.doc), Follows(x.doc, Y.doc), z = [ok |-> a.ok, board |-> x]
        PROVE  IsResult(z) /\ Tracks(z.board, B, Len(C))
    <3>1. IsBoard(x) /\ x.sequence = n + 1 /\ x.access = Y.access
      BY <2>1, <2>6 DEF IsBoard
    <3>2. Tracks(x, B, Len(C))
      BY <2>1, <2>3, <2>6, <3>1 DEF Tracks
    <3>3. z.board = x /\ z.ok = a.ok
      BY <2>6
    <3> QED BY <1>1, <2>6, <3>1, <3>2, <3>3 DEF IsResult
  <2>7. CASE e.control
    <3>0. PICK D : D = AdvanceInteraction(b.doc)
      OBVIOUS
    <3>1. PICK x : x = [doc |-> D, sequence |-> n + 1, access |-> Y.access]
      OBVIOUS
    <3>2. z = [ok |-> a.ok, board |-> x]
      BY <1>0, <1>4, <2>4, <2>5, <2>7, <3>0, <3>1, ApplyEntryResult
    <3>3. IsDocument(D) /\ Follows(D, Y.doc)
      BY <2>4, <2>5, <2>7, <3>0, AdvanceFollows
    <3>4. x.doc = D /\ x = [doc |-> x.doc, sequence |-> n + 1, access |-> Y.access]
      BY <3>1
    <3> QED BY <2>6, <3>2, <3>3, <3>4
  <2>8. CASE ~e.control
    <3>0. PICK c : c = e.command
      OBVIOUS
    <3>1. c.kind \in CommandKinds /\ Apply(X.doc, c).status = "Applied"
      BY <2>2, <2>3, <2>8, <3>0 DEF Extends
    <3>2. Apply(b.doc, c).status # "Duplicate"
      <4>1. SUFFICES ASSUME Apply(b.doc, c).status = "Duplicate" PROVE FALSE
        OBVIOUS
      <4>2. c.id \in b.doc.accepted
        BY <3>1, <4>1, ApplyDuplicate
      <4>3. c.id \notin X.doc.accepted
        BY <3>1, ApplyResult
      <4> QED BY <2>5, <4>2, <4>3 DEF Follows
    <3>3. CASE Apply(b.doc, c).status = "Applied"
      <4>0. PICK D : D = Apply(b.doc, c).doc
        OBVIOUS
      <4>1. PICK x : x = [doc |-> D, sequence |-> n + 1, access |-> Y.access]
        OBVIOUS
      <4>2. z = [ok |-> a.ok, board |-> x]
        BY <1>0, <1>4, <2>4, <2>5, <2>8, <3>0, <3>3, <4>0, <4>1, ApplyEntryResult
      <4>3. IsDocument(D)
        BY <2>5, <3>1, <3>3, <4>0, ApplyShape
      <4>4. Follows(D, Y.doc)
        BY <2>4, <2>5, <2>8, <3>0, <3>1, <3>3, <4>0, ApplyFollows
      <4>5. x.doc = D /\ x = [doc |-> x.doc, sequence |-> n + 1, access |-> Y.access]
        BY <4>1
      <4> QED BY <2>6, <4>2, <4>3, <4>4, <4>5
    <3>4. CASE Apply(b.doc, c).status # "Applied"
      <4>1. z = [ok |-> FALSE, board |-> b]
        BY <1>0, <1>4, <2>8, <3>0, <3>2, <3>4, ApplyEntryResult
      <4> QED BY <1>1, <4>1 DEF IsResult
    <3> QED BY <3>3, <3>4
  <2> QED BY <2>7, <2>8
<1> QED BY <1>1, <1>3, <1>4

LEMMA ApplyEntriesTracks ==
  ASSUME NEW B, NEW C, NEW P, IsHistory(C, P), IsChain(B, C, P),
         NEW b, IsBoard(b), Tracks(b, B, Len(C)), NEW s, EntriesOK(s, C),
         NEW z, z = ApplyEntries(b, s)
  PROVE  IsResult(z) /\ Tracks(z.board, B, Len(C))
<1>1. /\ IsSequence(s) /\ Len(s) \in Nat
      /\ \A i \in 1 .. Len(s) : EntryOK(s[i], C)
  BY SequenceIsFunction DEF EntriesOK
<1>2. PICK k : /\ k[0] = [ok |-> TRUE, board |-> b] /\ z = k[Len(s)]
               /\ \A n \in 0 .. Len(s) - 1 : k[n + 1] = ApplyEntry(k[n], s[n + 1])
  BY <1>1, EntriesSteps
<1> DEFINE Good(a) == IsResult(a) /\ Tracks(a.board, B, Len(C))
           T == {n \in Nat : n <= Len(s) => Good(k[n])}
<1>3. 0 \in T
  <2>1. k[0].ok = TRUE /\ k[0].board = b /\ k[0] = [ok |-> k[0].ok, board |-> k[0].board]
    BY <1>2
  <2>2. Good(k[0])
    BY <2>1 DEF IsResult
  <2> QED BY <2>2
<1>4. ASSUME NEW n \in Nat, n \in T PROVE n + 1 \in T
  <2>1. SUFFICES ASSUME n + 1 <= Len(s) PROVE Good(k[n + 1])
    OBVIOUS
  <2>2. n \in 0 .. Len(s) - 1 /\ n + 1 \in 1 .. Len(s) /\ n <= Len(s)
    BY <1>1, <2>1
  <2>3. Good(k[n])
    BY <1>4, <2>2
  <2>4. k[n + 1] = ApplyEntry(k[n], s[n + 1]) /\ EntryOK(s[n + 1], C)
    BY <1>1, <1>2, <2>2
  <2> QED BY <2>3, <2>4, ApplyEntryTracks
<1>5. Len(s) \in T
  <2> HIDE DEF T
  <2> QED BY <1>1, <1>3, <1>4, SetInduction
<1>6. Good(k[Len(s)])
  <2> HIDE DEF Good
  <2> QED BY <1>1, <1>5
<1> QED BY <1>2, <1>6

-----------------------------------------------------------------------------
(* Links and what is in them.                                              *)

IsLink(s) == IsSequence(s) /\ Len(s) <= MaxBuffered

\* x carries what the authority showed at x.base.
Restores(x, C, P) ==
  /\ x.base \in 0 .. Len(C)
  /\ x.content = P[x.base + 1].content /\ x.access = P[x.base + 1].access

DownOK(m, C, P) ==
  /\ m.kind = "Descriptor" => m.sequence \in 0 .. Len(C) /\ m.shown = P[m.sequence + 1]
  /\ m.kind = "Commit" => EntryOK(m.entry, C)
  /\ m.kind = "Delta" => EntriesOK(m.entries, C)
  /\ m.kind = "SnapshotChunk" => Restores(m, C, P)

AllDownOK(ms, C, P) == IsSequence(ms) /\ \A m \in Range(ms) : DownOK(m, C, P)

LEMMA LinkTail ==
  ASSUME NEW s, IsLink(s), s # <<>>
  PROVE  IsLink(Tail(s)) /\ Range(Tail(s)) \subseteq Range(s) /\ Head(s) \in Range(s)
<1>1. /\ IsSequence(Tail(s)) /\ Len(Tail(s)) = Len(s) - 1 /\ Len(s) \in Nat
      /\ Range(Tail(s)) \subseteq Range(s) /\ Head(s) \in Range(s)
  BY SequenceTail DEF IsLink
<1>2. Len(Tail(s)) <= MaxBuffered
  <2>1. PICK n, k : n = Len(s) /\ k = Len(Tail(s))
    OBVIOUS
  <2>2. k = n - 1 /\ n \in Nat /\ n <= MaxBuffered /\ MaxBuffered \in Nat
    BY <1>1, <2>1, BoardAssumption DEF IsLink
  <2> QED BY <2>1, <2>2
<1> QED BY <1>1, <1>2 DEF IsLink

LEMMA EmptyLink == IsLink(<<>>) /\ Range(<<>>) = {}
BY EmptySequence, BoardAssumption DEF IsLink

LEMMA SingleLink ==
  ASSUME NEW x
  PROVE  IsLink(<<x>>)
BY SingleSequence, BoardAssumption DEF IsLink

LEMMA SequenceSlice ==
  ASSUME NEW s, IsSequence(s), NEW m \in Nat \ {0}, NEW n \in Nat, n <= Len(s)
  PROVE  IsSequence(SubSeq(s, m, n)) /\ Range(SubSeq(s, m, n)) \subseteq Range(s)
<1>1. CASE m <= n + 1
  BY <1>1, SequencePart
<1>2. CASE m > n + 1
  <2>1. SubSeq(s, m, n) = <<>>
    BY <1>2
  <2> QED BY <2>1, EmptySequence
<1> QED BY <1>1, <1>2

LEMMA LinkBuffer ==
  ASSUME NEW s, IsLink(s), NEW ms, IsSequence(ms)
  PROVE  IsLink(Buffer(s, ms)) /\ Range(Buffer(s, ms)) \subseteq Range(s) \cup Range(ms)
<1>1. Len(s) \in Nat /\ Len(ms) \in Nat /\ MaxBuffered \in Nat /\ Len(s) <= MaxBuffered
  BY SequenceIsFunction, BoardAssumption DEF IsLink
<1>2. PICK n : n = IF Len(s) + Len(ms) <= MaxBuffered THEN Len(ms) ELSE MaxBuffered - Len(s)
  OBVIOUS
<1>3. n \in Nat /\ n <= Len(ms) /\ Len(s) + n <= MaxBuffered
  BY <1>1, <1>2
<1>4. PICK t : t = SubSeq(ms, 1, n)
  OBVIOUS
<1>5. IsSequence(t) /\ Len(t) = n /\ Range(t) \subseteq Range(ms)
  <2>1. n \in Int /\ 1 <= n + 1 /\ n - 1 + 1 = n /\ 1 \in Nat \ {0}
    BY <1>3
  <2>2. /\ IsSequence(SubSeq(ms, 1, n)) /\ Len(SubSeq(ms, 1, n)) = n - 1 + 1
        /\ Range(SubSeq(ms, 1, n)) \subseteq Range(ms)
    BY <1>3, <2>1, SequencePart
  <2> QED BY <1>4, <2>1, <2>2
<1>6. Buffer(s, ms) = s \o t
  BY <1>2, <1>4 DEF Buffer
<1>7. IsSequence(s \o t) /\ Len(s \o t) = Len(s) + n /\ Range(s \o t) \subseteq Range(s) \cup Range(t)
  BY <1>5, SequenceConcat DEF IsLink
<1> QED BY <1>3, <1>5, <1>6, <1>7 DEF IsLink

\* Messages stay true when the authority commits more.
LEMMA EntryStays ==
  ASSUME NEW C, IsSequence(C), NEW e, EntryOK(e, C), NEW x
  PROVE  EntryOK(e, Append(C, x))
<1>1. /\ Len(C) \in Nat /\ Len(Append(C, x)) = Len(C) + 1
      /\ \A i \in 1 .. Len(C) : Append(C, x)[i] = C[i]
  BY SequenceAppend, SequenceIsFunction
<1> QED BY <1>1 DEF EntryOK

LEMMA EntriesStay ==
  ASSUME NEW C, IsSequence(C), NEW s, EntriesOK(s, C), NEW x
  PROVE  EntriesOK(s, Append(C, x))
BY EntryStays DEF EntriesOK

LEMMA HistoryAppend ==
  ASSUME NEW C, NEW P, IsHistory(C, P), NEW x, NEW y
  PROVE  /\ IsHistory(Append(C, x), Append(P, y))
         /\ Len(C) \in Nat /\ Len(Append(C, x)) = Len(C) + 1 /\ Len(P) = Len(C) + 1
         /\ Len(Append(P, y)) = Len(C) + 2
         /\ Append(C, x)[Len(C) + 1] = x /\ Append(P, y)[Len(C) + 2] = y
         /\ \A i \in 1 .. Len(C) : Append(C, x)[i] = C[i]
         /\ \A i \in 1 .. Len(C) + 1 : Append(P, y)[i] = P[i]
<1>1. /\ IsSequence(Append(C, x)) /\ Len(Append(C, x)) = Len(C) + 1
      /\ \A i \in 1 .. Len(C) : Append(C, x)[i] = C[i]
      /\ Append(C, x)[Len(C) + 1] = x
  BY SequenceAppend DEF IsHistory
<1>2. /\ IsSequence(Append(P, y)) /\ Len(Append(P, y)) = Len(P) + 1
      /\ \A i \in 1 .. Len(P) : Append(P, y)[i] = P[i]
      /\ Append(P, y)[Len(P) + 1] = y
  BY SequenceAppend DEF IsHistory
<1>3. Len(C) \in Nat /\ Len(P) = Len(C) + 1
  BY SequenceIsFunction DEF IsHistory
<1>4. Len(C) + 1 + 1 = Len(C) + 2
  BY <1>3
<1> QED BY <1>1, <1>2, <1>3, <1>4 DEF IsHistory

LEMMA RestoresStays ==
  ASSUME NEW C, NEW P, IsHistory(C, P), NEW a, Restores(a, C, P), NEW x, NEW y
  PROVE  Restores(a, Append(C, x), Append(P, y))
<1>1. PICK n : n = a.base
  OBVIOUS
<1>2. n \in 0 .. Len(C)
  BY <1>1 DEF Restores
<1>3. n \in 0 .. Len(Append(C, x)) /\ Append(P, y)[n + 1] = P[n + 1]
  BY <1>2, HistoryAppend
<1> QED BY <1>1, <1>3 DEF Restores

LEMMA DownStays ==
  ASSUME NEW C, NEW P, IsHistory(C, P), NEW m, DownOK(m, C, P), NEW x, NEW y
  PROVE  DownOK(m, Append(C, x), Append(P, y))
<1>1. m.kind = "Descriptor" => m.sequence \in 0 .. Len(Append(C, x))
                                /\ m.shown = Append(P, y)[m.sequence + 1]
  <2>1. SUFFICES ASSUME m.kind = "Descriptor"
                 PROVE  m.sequence \in 0 .. Len(Append(C, x))
                          /\ m.shown = Append(P, y)[m.sequence + 1]
    OBVIOUS
  <2>2. PICK n : n = m.sequence
    OBVIOUS
  <2>3. n \in 0 .. Len(C) /\ m.shown = P[n + 1]
    BY <2>1, <2>2 DEF DownOK
  <2>4. n \in 0 .. Len(Append(C, x)) /\ Append(P, y)[n + 1] = P[n + 1]
    BY <2>3, HistoryAppend
  <2> QED BY <2>2, <2>3, <2>4
<1>2. m.kind = "Commit" => EntryOK(m.entry, Append(C, x))
  BY EntryStays DEF DownOK, IsHistory
<1>3. m.kind = "Delta" => EntriesOK(m.entries, Append(C, x))
  BY EntriesStay DEF DownOK, IsHistory
<1>4. m.kind = "SnapshotChunk" => Restores(m, Append(C, x), Append(P, y))
  BY RestoresStays DEF DownOK
<1> QED BY <1>1, <1>2, <1>3, <1>4 DEF DownOK

\* The chain of the authority's boards grows with each commit.
LEMMA ChainExtends ==
  ASSUME NEW B, NEW C, NEW P, IsHistory(C, P), IsChain(B, C, P),
         NEW e, Extends(B[Len(C)], e), NEW x, x = After(B[Len(C)], e),
         NEW D, D = [n \in 0 .. Len(C) + 1 |-> IF n = Len(C) + 1 THEN x ELSE B[n]]
  PROVE  /\ IsChain(D, Append(C, e), Append(P, Shown(x)))
         /\ D[Len(C) + 1] = x /\ \A n \in 0 .. Len(C) : D[n] = B[n]
         /\ IsBoard(x) /\ x.sequence = Len(C) + 1 /\ EntryOK(e, Append(C, e))
<1>1. PICK N : N = Len(C)
  OBVIOUS
<1>2. PICK E, Q : E = Append(C, e) /\ Q = Append(P, Shown(x))
  OBVIOUS
<1>3. /\ N \in Nat /\ Len(E) = N + 1
      /\ E[N + 1] = e /\ Q[N + 2] = Shown(x)
      /\ \A i \in 1 .. N : E[i] = C[i]
      /\ \A i \in 1 .. N + 1 : Q[i] = P[i]
  BY <1>1, <1>2, HistoryAppend
<1>4. /\ D[N + 1] = x /\ \A n \in 0 .. N : D[n] = B[n]
  BY <1>1, <1>3
<1>5. N \in 0 .. N /\ IsBoard(B[N]) /\ B[N].sequence = N /\ Extends(B[N], e) /\ x = After(B[N], e)
  BY <1>1, <1>3 DEF IsChain
<1>6. IsBoard(x) /\ x.sequence = N + 1 /\ e.sequence = N + 1
  BY <1>5, AfterShape
<1>7. D[0] = NewBoard
  BY <1>3, <1>4 DEF IsChain
<1>8. ASSUME NEW n \in 0 .. N + 1
      PROVE  IsBoard(D[n]) /\ D[n].sequence = n /\ Q[n + 1] = Shown(D[n])
  <2>1. CASE n = N + 1
    <3>1. n + 1 = N + 2
      BY <1>3, <2>1
    <3> QED BY <1>3, <1>4, <1>6, <2>1, <3>1
  <2>2. CASE n # N + 1
    <3>1. n \in 0 .. N /\ n + 1 \in 1 .. N + 1
      BY <1>3, <2>2
    <3>2. IsBoard(B[n]) /\ B[n].sequence = n /\ P[n + 1] = Shown(B[n])
      BY <1>1, <3>1 DEF IsChain
    <3> QED BY <1>3, <1>4, <3>1, <3>2
  <2> QED BY <2>1, <2>2
<1>9. ASSUME NEW n \in 0 .. N + 1 - 1
      PROVE  Extends(D[n], E[n + 1]) /\ D[n + 1] = After(D[n], E[n + 1])
  <2>1. n \in 0 .. N /\ D[n] = B[n]
    BY <1>3, <1>4
  <2>2. CASE n = N
    BY <1>3, <1>4, <1>5, <2>1, <2>2
  <2>3. CASE n # N
    <3>1. n \in 0 .. N - 1 /\ n + 1 \in 1 .. N /\ n + 1 \in 0 .. N
      BY <1>3, <2>1, <2>3
    <3>2. Extends(B[n], C[n + 1]) /\ B[n + 1] = After(B[n], C[n + 1])
      BY <1>1, <3>1 DEF IsChain
    <3> QED BY <1>3, <1>4, <2>1, <3>1, <3>2
  <2> QED BY <2>2, <2>3
<1>10. IsChain(D, E, Q)
  BY <1>3, <1>7, <1>8, <1>9 DEF IsChain
<1>11. EntryOK(e, E)
  BY <1>3, <1>6 DEF EntryOK
<1> QED BY <1>1, <1>2, <1>4, <1>6, <1>10, <1>11

LEMMA TracksStays ==
  ASSUME NEW B, NEW D, NEW N \in Nat, \A n \in 0 .. N : D[n] = B[n],
         NEW b, Tracks(b, B, N)
  PROVE  Tracks(b, D, N) /\ Tracks(b, D, N + 1)
BY DEF Tracks

-----------------------------------------------------------------------------
(* The invariant.                                                          *)

Boards == board = [p \in Participants |-> board[p]] /\ \A p \in Participants : IsBoard(board[p])

History == IsHistory(commits, past)

\* The authority has replayed its commits, and every replica is a board of
\* the authority at an earlier or the same sequence, with less history.
Following ==
  \E B : /\ IsChain(B, commits, past) /\ B[Len(commits)] = board[Authority]
         /\ \A r \in Replicas : Tracks(board[r], B, Len(commits))

Logs ==
  /\ EntriesOK(log, commits) /\ Len(log) <= MaxLogEntries
  /\ EntriesOK(proposals, commits) /\ Len(proposals) <= MaxProposals

Messages ==
  /\ up = [r \in Replicas |-> up[r]] /\ down = [r \in Replicas |-> down[r]]
  /\ \A r \in Replicas :
       /\ IsLink(up[r]) /\ IsLink(down[r])
       /\ \A m \in Range(down[r]) : DownOK(m, commits, past)

IsAssembly(a) ==
  a = [base |-> a.base, content |-> a.content, access |-> a.access, received |-> a.received]

Assemblies ==
  /\ assembly = [r \in Replicas |-> assembly[r]]
  /\ \A r \in Replicas :
       /\ IsAssembly(assembly[r])
       /\ assembly[r].received # {} => Restores(assembly[r], commits, past)

\* The command is pending, on its way or committed.
InPlay(c, pend, links, C) ==
  \/ \E r \in Replicas : c \in pend[r]
  \/ \E r \in Replicas : \E m \in Range(links[r]) : m.kind = "Propose" /\ c = m.command
  \/ \E e \in Range(C) : ~e.control /\ c = e.command

CommandOK(c, count, P) ==
  /\ c.kind \in CommandKinds
  /\ \E p \in Participants : \E k \in 1 .. count[p] : c.id = <<p, k>>
  /\ c.builtAt \in 0 .. Len(P) - 1
  /\ c.context.interactionEpoch = P[c.builtAt + 1].content.interactionEpoch

Commands ==
  /\ pending = [r \in Replicas |-> pending[r]]
  /\ \A r \in Replicas : IsFiniteSet(pending[r])
  /\ issued \in [Participants -> Nat]
  /\ \A c : InPlay(c, pending, up, commits) => CommandOK(c, issued, past)
  /\ \A c, d : InPlay(c, pending, up, commits) /\ InPlay(d, pending, up, commits)
                 /\ c.id = d.id => c = d

LEMMA FollowingFacts ==
  ASSUME Boards, History, Following
  PROVE  /\ Sequence(Authority) = Len(commits) /\ Len(commits) \in Nat
         /\ Authority \in Participants /\ \A r \in Replicas : r \in Participants /\ r # Authority
         /\ IsBoard(board[Authority])
         /\ \A p \in Participants : Sequence(p) \in 0 .. Len(commits)
         /\ \A p \in Participants : Shown(board[p]) = past[Sequence(p) + 1]
<1>1. Authority \in Participants /\ \A r \in Replicas : r \in Participants /\ r # Authority
  BY BoardAssumption DEF Participants
<1>2. Len(commits) \in Nat
  BY SequenceIsFunction DEF History, IsHistory
<1>3. PICK B : /\ IsChain(B, commits, past) /\ B[Len(commits)] = board[Authority]
               /\ \A r \in Replicas : Tracks(board[r], B, Len(commits))
  BY DEF Following
<1>4. \A n \in 0 .. Len(commits) :
        IsBoard(B[n]) /\ B[n].sequence = n /\ past[n + 1] = Shown(B[n])
  BY <1>3 DEF IsChain
<1>5. Sequence(Authority) = Len(commits) /\ Shown(board[Authority]) = past[Len(commits) + 1]
  BY <1>2, <1>3, <1>4 DEF Sequence
<1>6. ASSUME NEW r \in Replicas
      PROVE  Sequence(r) \in 0 .. Len(commits) /\ Shown(board[r]) = past[Sequence(r) + 1]
  <2>1. PICK n : n = Sequence(r)
    OBVIOUS
  <2>2. /\ n \in 0 .. Len(commits) /\ board[r].access = B[n].access
        /\ Content(board[r].doc) = Content(B[n].doc)
    BY <1>3, <2>1 DEF Tracks, Follows, Sequence
  <2>3. Shown(board[r]) = Shown(B[n])
    BY <2>2 DEF Shown
  <2> QED BY <1>4, <2>1, <2>2, <2>3
<1>7. ASSUME NEW p \in Participants
      PROVE  Sequence(p) \in 0 .. Len(commits) /\ Shown(board[p]) = past[Sequence(p) + 1]
  <2>1. p = Authority \/ p \in Replicas
    BY DEF Participants
  <2> QED BY <1>2, <1>5, <1>6, <2>1
<1> QED BY <1>1, <1>2, <1>5, <1>7 DEF Boards

\* A commit of the authority.
LEMMA CommitStep ==
  ASSUME Boards, History, Following, NEW e, Extends(board[Authority], e),
         NEW x, x = After(board[Authority], e), CommitEntry(e, x)
  PROVE  /\ Boards' /\ History' /\ Following' /\ EntryOK(e, commits')
         /\ commits' = Append(commits, e) /\ past' = Append(past, Shown(x))
<1>1. /\ board' = [board EXCEPT ![Authority] = x]
      /\ commits' = Append(commits, e) /\ past' = Append(past, Shown(x))
  BY DEF CommitEntry
<1>2. PICK B : /\ IsChain(B, commits, past) /\ B[Len(commits)] = board[Authority]
               /\ \A r \in Replicas : Tracks(board[r], B, Len(commits))
  BY DEF Following
<1>3. PICK D : D = [n \in 0 .. Len(commits) + 1 |-> IF n = Len(commits) + 1 THEN x ELSE B[n]]
  OBVIOUS
<1>4. /\ IsChain(D, commits', past')
      /\ D[Len(commits) + 1] = x /\ \A n \in 0 .. Len(commits) : D[n] = B[n]
      /\ IsBoard(x) /\ EntryOK(e, commits')
  BY SMTT(30), <1>1, <1>2, <1>3, ChainExtends DEF History
<1>5. History' /\ Len(commits') = Len(commits) + 1 /\ Len(commits) \in Nat
  BY <1>1, HistoryAppend DEF History
<1>6. /\ Authority \in Participants
      /\ \A r \in Replicas : r \in Participants /\ r # Authority
      /\ board = [p \in Participants |-> board[p]] /\ \A p \in Participants : IsBoard(board[p])
  BY FollowingFacts DEF Boards
<1>7. /\ board' = [p \in Participants |-> board'[p]] /\ board'[Authority] = x
      /\ \A p \in Participants : p # Authority => board'[p] = board[p]
  BY <1>1, <1>6
<1>8. Boards'
  BY <1>4, <1>6, <1>7 DEF Boards
<1>9. \A r \in Replicas : Tracks(board'[r], D, Len(commits'))
  BY <1>2, <1>4, <1>5, <1>6, <1>7, TracksStays
<1>10. Following'
  BY <1>4, <1>5, <1>7, <1>9 DEF Following
<1> QED BY <1>1, <1>4, <1>5, <1>8, <1>10

LEMMA CommandIsEntry ==
  ASSUME Boards, History, Following, NEW c, c.kind \in CommandKinds, CommitCommand(c),
         NEW e, e = CommandEntry(c)
  PROVE  /\ Extends(board[Authority], e) /\ CommitEntry(e, After(board[Authority], e))
         /\ ~e.control /\ e.command = c
<1>0. PICK b : b = board[Authority]
  OBVIOUS
<1>1. /\ Apply(b.doc, c).status = "Applied"
      /\ CommitEntry(e, [b EXCEPT !.doc = Apply(b.doc, c).doc, !.sequence = @ + 1])
  BY <1>0 DEF CommitCommand, Doc
<1>2. /\ e.sequence = b.sequence + 1 /\ e.control = FALSE /\ e.command = c
      /\ b = [doc |-> b.doc, sequence |-> b.sequence, access |-> b.access]
  BY <1>0, FollowingFacts DEF CommandEntry, Sequence, IsBoard
<1>3. PICK D : D = Apply(b.doc, c).doc
  OBVIOUS
<1>4. PICK x : x = [b EXCEPT !.doc = D, !.sequence = @ + 1]
  OBVIOUS
<1>5. x = [doc |-> D, sequence |-> b.sequence + 1, access |-> b.access]
  BY <1>2, <1>4
<1>6. x = After(b, e)
  BY <1>2, <1>3, <1>5 DEF After
<1>7. CommitEntry(e, After(b, e))
  BY <1>1, <1>3, <1>4, <1>6
<1>8. Extends(b, e)
  BY <1>1, <1>2 DEF Extends
<1> QED BY <1>0, <1>2, <1>7, <1>8

LEMMA AccessIsEntry ==
  ASSUME Boards, History, Following, NEW access, ChangeAccess(access)
  PROVE  \E e : /\ Extends(board[Authority], e)
                /\ CommitEntry(e, After(board[Authority], e))
                /\ e.control /\ proposals' = proposals
<1>0. PICK b, e : /\ b = board[Authority]
                  /\ e = [sequence |-> b.sequence + 1, control |-> TRUE, access |-> access]
  OBVIOUS
<1>1. /\ CommitEntry(e, [b EXCEPT !.sequence = @ + 1, !.access = access,
                                  !.doc = AdvanceInteraction(@)])
      /\ proposals' = proposals
  BY <1>0 DEF ChangeAccess
<1>2. /\ e.sequence = b.sequence + 1 /\ e.control = TRUE /\ e.access = access
      /\ b = [doc |-> b.doc, sequence |-> b.sequence, access |-> b.access]
  BY <1>0, FollowingFacts DEF IsBoard
<1>3. PICK D : D = AdvanceInteraction(b.doc)
  OBVIOUS
<1>4. PICK x : x = [b EXCEPT !.sequence = @ + 1, !.access = access, !.doc = D]
  OBVIOUS
<1>5. x = [doc |-> D, sequence |-> b.sequence + 1, access |-> access]
  BY <1>2, <1>4
<1>6. x = After(b, e)
  BY <1>2, <1>3, <1>5 DEF After
<1>7. x = [b EXCEPT !.sequence = @ + 1, !.access = access, !.doc = AdvanceInteraction(@)]
  BY <1>3, <1>4
<1>8. CommitEntry(e, After(b, e))
  BY <1>1, <1>6, <1>7
<1>9. Extends(b, e)
  BY <1>2 DEF Extends
<1> QED BY <1>0, <1>1, <1>2, <1>8, <1>9

\* A replica takes a board that follows the authority.
LEMMA ReplicaStep ==
  ASSUME Boards, History, Following, NEW r \in Replicas, NEW x, IsBoard(x),
         board' = [board EXCEPT ![r] = x], UNCHANGED <<commits, past>>,
         \A B : IsChain(B, commits, past) /\ Tracks(board[r], B, Len(commits))
                  /\ B[Len(commits)] = board[Authority]
                  => Tracks(x, B, Len(commits))
  PROVE  Boards' /\ History' /\ Following'
<1>1. PICK B : /\ IsChain(B, commits, past) /\ B[Len(commits)] = board[Authority]
               /\ \A q \in Replicas : Tracks(board[q], B, Len(commits))
  BY DEF Following
<1>2. /\ r \in Participants /\ r # Authority /\ Authority \in Participants
      /\ board = [p \in Participants |-> board[p]] /\ \A p \in Participants : IsBoard(board[p])
      /\ \A q \in Replicas : q \in Participants
  BY FollowingFacts DEF Boards
<1>3. /\ board' = [p \in Participants |-> board'[p]] /\ board'[r] = x
      /\ \A p \in Participants : p # r => board'[p] = board[p]
  BY <1>2
<1>4. Tracks(x, B, Len(commits))
  BY <1>1
<1>5. /\ \A q \in Replicas : Tracks(board'[q], B, Len(commits))
      /\ B[Len(commits)] = board'[Authority]
  BY <1>1, <1>2, <1>3, <1>4
<1>6. Following'
  <2>1. commits' = commits /\ past' = past
    OBVIOUS
  <2> QED BY <1>1, <1>5, <2>1 DEF Following
<1>7. Boards'
  BY <1>2, <1>3 DEF Boards
<1>8. History'
  BY DEF History
<1> QED BY <1>6, <1>7, <1>8

-----------------------------------------------------------------------------
(* The steps of the boards.                                                *)

\* The parts of the boards that a step may leave alone.
boardVars == <<board, log, proposals, commits, past>>

LEMMA BoardMoves ==
  ASSUME Next
  PROVE  \/ UNCHANGED boardVars
         \/ \E r \in Replicas : \/ ReplicaDescriptor(r) \/ ReplicaCommit(r) \/ ReplicaDelta(r)
                                \/ ReplicaSnapshot(r) \/ Leave(r) \/ AuthorityCommits(r)
         \/ \E c \in CommandsOf(Authority) : ProposeLocally(c)
         \/ SetLocked \/ SetWriters \/ AuthorityLeaves
<1> USE DEF boardVars, authorityVars
<1>1. CASE AuthorityNext
  <2>1. Heartbeat => UNCHANGED boardVars
    BY DEF Heartbeat
  <2>2. AuthorityReconnected => UNCHANGED boardVars
    BY DEF AuthorityReconnected
  <2> QED BY <1>1, <2>1, <2>2 DEF AuthorityNext
<1>2. ASSUME NEW r \in Replicas, ReplicaNext(r)
      PROVE  \/ UNCHANGED boardVars
             \/ ReplicaDescriptor(r) \/ ReplicaCommit(r) \/ ReplicaDelta(r)
             \/ ReplicaSnapshot(r) \/ Leave(r) \/ AuthorityCommits(r)
  <2>1. ASSUME NEW c, ProposeRemotely(r, c) PROVE UNCHANGED boardVars
    BY <2>1 DEF ProposeRemotely
  <2>2. AuthoritySyncs(r) \/ AuthorityRepeats(r) \/ AuthorityRejects(r) => UNCHANGED boardVars
    BY DEF AuthoritySyncs, AuthorityRepeats, AuthorityRejects
  <2>3. ReplicaKnowsCommit(r) \/ ReplicaHeartbeat(r) \/ ReplicaReject(r) => UNCHANGED boardVars
    BY DEF ReplicaKnowsCommit, ReplicaHeartbeat, ReplicaReject
  <2>4. Drop(r) \/ Retry(r) \/ AuthoritySilent(r) => UNCHANGED boardVars
    BY DEF Drop, Retry, AuthoritySilent
  <2>5. Join(r) \/ PeerLeft(r) \/ ReplicaReconnected(r) => UNCHANGED boardVars
    BY DEF Join, PeerLeft, ReplicaReconnected
  <2> QED BY <1>2, <2>1, <2>2, <2>3, <2>4, <2>5
          DEF ReplicaNext, AuthorityReceives, ReplicaReceives
<1>3. ASSUME NEW p \in Participants, Interrupted(p) PROVE UNCHANGED boardVars
  BY <1>3 DEF Interrupted
<1> QED BY <1>1, <1>2, <1>3 DEF Next

LEMMA Delivered ==
  ASSUME Messages, NEW r \in Replicas, NEW kind, Deliver(r, kind), NEW m, m = Head(down[r])
  PROVE  /\ DownOK(m, commits, past) /\ m.kind = kind
         /\ down[r] # <<>> /\ down' = [down EXCEPT ![r] = Tail(@)]
<1>1. IsLink(down[r]) /\ \A x \in Range(down[r]) : DownOK(x, commits, past)
  BY DEF Messages
<1>2. down[r] # <<>> /\ m.kind = kind /\ down' = [down EXCEPT ![r] = Tail(@)]
  BY DEF Deliver
<1> QED BY <1>1, <1>2, LinkTail

LEMMA AssembledRestores ==
  ASSUME Assemblies, NEW r \in Replicas, NEW m, Restores(m, commits, past),
         NEW s, s = Assembled(r, m)
  PROVE  IsAssembly(s) /\ Restores(s, commits, past)
<1> DEFINE known == /\ assembly[r].base = m.base /\ assembly[r].content = m.content
                    /\ assembly[r].received # {}
<1>1. PICK i : i = m.index
  OBVIOUS
<1>2. PICK old : old = IF known THEN assembly[r]
                       ELSE [base |-> m.base, content |-> m.content, access |-> m.access,
                             received |-> {}]
  OBVIOUS
<1>3. s = [old EXCEPT !.received = @ \cup {i}]
  BY <1>1, <1>2 DEF Assembled
<1>4. IsAssembly(old) /\ Restores(old, commits, past)
  <2>1. CASE known
    BY <1>2, <2>1 DEF Assemblies
  <2>2. CASE ~known
    <3>1. old = [base |-> m.base, content |-> m.content, access |-> m.access, received |-> {}]
      BY <1>2, <2>2
    <3> QED BY <3>1 DEF IsAssembly, Restores
  <2> QED BY <2>1, <2>2
<1>5. s = [base |-> old.base, content |-> old.content, access |-> old.access,
           received |-> old.received \cup {i}]
  BY <1>3, <1>4 DEF IsAssembly
<1> QED BY <1>4, <1>5 DEF IsAssembly, Restores

LEMMA RestoredTracks ==
  ASSUME NEW B, NEW C, NEW P, IsHistory(C, P), IsChain(B, C, P),
         NEW s, Restores(s, C, P), NEW x,
         x = [doc |-> Restore(s.content), sequence |-> s.base, access |-> s.access]
  PROVE  IsBoard(x) /\ Tracks(x, B, Len(C))
<1>1. PICK n : n = s.base
  OBVIOUS
<1>2. /\ n \in 0 .. Len(C) /\ s.content = P[n + 1].content /\ s.access = P[n + 1].access
      /\ IsBoard(B[n]) /\ P[n + 1] = Shown(B[n])
  BY <1>1 DEF Restores, IsChain
<1>3. PICK D, e : D = B[n].doc /\ e = Restore(s.content)
  OBVIOUS
<1>4. s.content = Content(D) /\ s.access = B[n].access
  BY <1>2, <1>3 DEF Shown
<1>5. IsDocument(D) /\ IsDocument(e) /\ Follows(e, D)
  BY <1>2, <1>3, <1>4, RestoreFollows DEF IsBoard
<1>6. x = [doc |-> e, sequence |-> n, access |-> s.access] /\ n \in Nat
  BY <1>1, <1>2, <1>3
<1>7. x.doc = e /\ x.sequence = n /\ x.access = s.access
  BY <1>6
<1>8. IsBoard(x)
  BY <1>5, <1>6, <1>7 DEF IsBoard
<1> QED BY <1>2, <1>3, <1>4, <1>5, <1>7, <1>8 DEF Tracks

LEMMA ApplyingStep ==
  ASSUME Boards, History, Following, NEW r \in Replicas, NEW s, EntriesOK(s, commits),
         board' = [board EXCEPT ![r] = ApplyEntries(board[r], s).board],
         UNCHANGED <<commits, past>>
  PROVE  Boards' /\ History' /\ Following'
<1>1. PICK a : a = ApplyEntries(board[r], s)
  OBVIOUS
<1>2. IsBoard(board[r])
  BY FollowingFacts DEF Boards
<1>3. ASSUME NEW B, IsChain(B, commits, past), Tracks(board[r], B, Len(commits))
      PROVE  IsBoard(a.board) /\ Tracks(a.board, B, Len(commits))
  <2>1. IsResult(a) /\ Tracks(a.board, B, Len(commits))
    BY <1>1, <1>2, <1>3, ApplyEntriesTracks DEF History
  <2> QED BY <2>1 DEF IsResult
<1>4. IsBoard(a.board)
  BY <1>3 DEF Following
<1>5. board' = [board EXCEPT ![r] = a.board]
  BY <1>1
<1> QED BY <1>3, <1>4, <1>5, ReplicaStep

LEMMA ReplicaBoardStep ==
  ASSUME Boards, History, Following, Messages, Assemblies, NEW r \in Replicas,
         \/ ReplicaDescriptor(r) \/ ReplicaCommit(r) \/ ReplicaDelta(r)
         \/ ReplicaSnapshot(r) \/ Leave(r)
  PROVE  /\ Boards' /\ History' /\ Following' /\ UNCHANGED authorityVars
         /\ board'[Authority] = board[Authority]
<1>0. PICK m : m = Head(down[r])
  OBVIOUS
<1>1. /\ r \in Participants /\ r # Authority /\ Authority \in Participants
      /\ board = [p \in Participants |-> board[p]] /\ IsBoard(board[r])
  BY FollowingFacts DEF Boards
<1>2. ASSUME UNCHANGED <<board, commits, past>> PROVE Boards' /\ History' /\ Following'
  BY <1>2 DEF Boards, History, Following
<1>3. CASE ReplicaDescriptor(r)
  <2>1. DownOK(m, commits, past) /\ m.kind = "Descriptor" /\ UNCHANGED authorityVars
    BY <1>0, <1>3, Delivered DEF ReplicaDescriptor
  <2>2. CASE board' = board
    BY <1>2, <2>1, <2>2 DEF authorityVars
  <2>3. CASE board' # board
    <3>1. /\ m.sequence = Sequence(r)
          /\ board' = [board EXCEPT ![r].access = m.shown.access]
      BY <1>0, <1>3, <2>3 DEF ReplicaDescriptor
    <3>2. m.shown = Shown(board[r])
      BY <1>1, <2>1, <3>1, FollowingFacts DEF DownOK
    <3>3. PICK v : v = m.shown.access
      OBVIOUS
    <3>4. v = board[r].access
      BY <3>2, <3>3 DEF Shown
    <3>5. board' = [board EXCEPT ![r] = [board[r] EXCEPT !.access = v]]
      BY <1>1, <3>1, <3>3
    <3>6. PICK x : x = [board[r] EXCEPT !.access = v]
      OBVIOUS
    <3>7. x = [doc |-> board[r].doc, sequence |-> board[r].sequence, access |-> v]
      BY <1>1, <3>6 DEF IsBoard
    <3>8. x = board[r]
      BY <1>1, <3>4, <3>7 DEF IsBoard
    <3>9. board' = board
      BY <1>1, <3>5, <3>6, <3>8
    <3> QED BY <2>3, <3>9
  <2> QED BY <2>2, <2>3
<1>4. CASE ReplicaCommit(r)
  <2>1. DownOK(m, commits, past) /\ m.kind = "Commit" /\ UNCHANGED authorityVars
    BY <1>0, <1>4, Delivered DEF ReplicaCommit
  <2>2. PICK e, s : e = m.entry /\ s = <<e>>
    OBVIOUS
  <2>3. EntriesOK(s, commits)
    <3>1. EntryOK(e, commits)
      BY <2>1, <2>2 DEF DownOK
    <3> QED BY <2>2, <3>1, SingleSequence DEF EntriesOK
  <2>4. board' = [board EXCEPT ![r] = ApplyEntries(board[r], s).board]
    BY <1>0, <1>4, <2>2 DEF ReplicaCommit
  <2> QED BY <1>1, <2>1, <2>3, <2>4, ApplyingStep DEF authorityVars
<1>5. CASE ReplicaDelta(r)
  <2>1. DownOK(m, commits, past) /\ m.kind = "Delta" /\ UNCHANGED authorityVars
    BY <1>0, <1>5, Delivered DEF ReplicaDelta
  <2>2. EntriesOK(m.entries, commits)
    BY <2>1 DEF DownOK
  <2>3. \/ board' = board
        \/ board' = [board EXCEPT ![r] = ApplyEntries(board[r], m.entries).board]
    BY <1>0, <1>5 DEF ReplicaDelta
  <2>4. CASE board' = board
    BY <1>2, <2>1, <2>4 DEF authorityVars
  <2>5. CASE board' = [board EXCEPT ![r] = ApplyEntries(board[r], m.entries).board]
    BY <1>1, <2>1, <2>2, <2>5, ApplyingStep DEF authorityVars
  <2> QED BY <2>3, <2>4, <2>5
<1>6. CASE ReplicaSnapshot(r)
  <2>1. DownOK(m, commits, past) /\ m.kind = "SnapshotChunk" /\ UNCHANGED authorityVars
    BY <1>0, <1>6, Delivered DEF ReplicaSnapshot
  <2>2. PICK s : s = Assembled(r, m)
    OBVIOUS
  <2>3. Restores(s, commits, past)
    BY <2>1, <2>2, AssembledRestores DEF DownOK
  <2>4. PICK x : x = [doc |-> Restore(s.content), sequence |-> s.base, access |-> s.access]
    OBVIOUS
  <2>5. board' = board \/ board' = [board EXCEPT ![r] = x]
    BY <1>0, <1>6, <2>2, <2>4 DEF ReplicaSnapshot
  <2>6. CASE board' = board
    BY <1>2, <2>1, <2>6 DEF authorityVars
  <2>7. CASE board' = [board EXCEPT ![r] = x]
    <3>1. ASSUME NEW B, IsChain(B, commits, past) PROVE IsBoard(x) /\ Tracks(x, B, Len(commits))
      BY <2>3, <2>4, <3>1, RestoredTracks DEF History
    <3>2. IsBoard(x)
      BY <3>1 DEF Following
    <3> QED BY <1>1, <2>1, <2>7, <3>1, <3>2, ReplicaStep DEF authorityVars
  <2> QED BY <2>5, <2>6, <2>7
<1>7. CASE Leave(r)
  <2>1. board' = [board EXCEPT ![r] = NewBoard] /\ UNCHANGED authorityVars
    BY <1>7 DEF Leave
  <2>2. ASSUME NEW B, IsChain(B, commits, past) PROVE Tracks(NewBoard, B, Len(commits))
    <3>1. 0 \in 0 .. Len(commits)
      BY FollowingFacts
    <3>2. B[0] = NewBoard /\ IsDocument(NewBoard.doc) /\ NewBoard.sequence = 0
      BY <2>2, NewBoardShape DEF IsChain, IsBoard
    <3> QED BY <3>1, <3>2, FollowsItself DEF Tracks
  <2> QED BY <1>1, <2>1, <2>2, NewBoardShape, ReplicaStep DEF authorityVars
<1> QED BY <1>3, <1>4, <1>5, <1>6, <1>7

LEMMA CommandsOfShape ==
  ASSUME NEW p \in Participants, NEW c \in CommandsOf(p)
  PROVE  /\ c.kind \in CommandKinds /\ c.id = <<p, issued[p] + 1>>
         /\ c.builtAt = Sequence(p) /\ c.context = Context(Doc(p))
<1> DEFINE T(kind) == Targets(p, kind)
           W(kind) == IF kind = "Add" THEN TextKinds ELSE {FALSE}
           A(kind) == IF kind \in {"SetBackground", "AddImagePage"} THEN Assets ELSE {NoAsset}
           C(kind, target, wide, asset) ==
             [id |-> <<p, issued[p] + 1>>, actor |-> p, context |-> Context(Doc(p)),
              kind |-> kind, target |-> target, wide |-> wide, asset |-> asset,
              builtAt |-> Sequence(p)]
           S(kind) == {C(kind, target, wide, asset) :
                         target \in T(kind), wide \in W(kind), asset \in A(kind)}
<1>0. CommandsOf(p) = UNION {S(kind) : kind \in Kinds[p]}
  BY DEF CommandsOf
<1>1. PICK kind \in Kinds[p] : \E target, wide, asset : c = C(kind, target, wide, asset)
  <2> HIDE DEF T, W, A, C
  <2>1. PICK kind \in Kinds[p] : c \in S(kind)
    <3> HIDE DEF S
    <3> QED BY <1>0
  <2> QED BY <2>1
<1>2. kind \in CommandKinds
  BY BoardAssumption
<1> QED BY <1>1, <1>2

LEMMA HeadUp ==
  ASSUME Messages, NEW r \in Replicas, NEW kind, Receive(r, kind), NEW m, m = Head(up[r])
  PROVE  /\ m \in Range(up[r]) /\ m.kind = kind /\ up[r] # <<>>
         /\ up' = [up EXCEPT ![r] = Tail(@)]
<1>1. IsLink(up[r])
  BY DEF Messages
<1>2. up[r] # <<>> /\ m.kind = kind /\ up' = [up EXCEPT ![r] = Tail(@)]
  BY DEF Receive
<1> QED BY <1>1, <1>2, LinkTail

LEMMA ProposedInPlay ==
  ASSUME NEW pend, NEW links, NEW C, NEW r \in Replicas, NEW m \in Range(links[r]),
         m.kind = "Propose"
  PROVE  InPlay(m.command, pend, links, C)
BY DEF InPlay

LEMMA PendingInPlay ==
  ASSUME NEW pend, NEW links, NEW C, NEW r \in Replicas, NEW c \in pend[r]
  PROVE  InPlay(c, pend, links, C)
BY DEF InPlay

LEMMA CommittedInPlay ==
  ASSUME NEW pend, NEW links, NEW C, NEW e \in Range(C), ~e.control
  PROVE  InPlay(e.command, pend, links, C)
BY DEF InPlay

\* The step commits e.
Committing(e) ==
  /\ Extends(board[Authority], e) /\ CommitEntry(e, After(board[Authority], e))
  /\ proposals' = proposals \/ proposals' = Remember(proposals, e, MaxProposals)
  /\ e.control => UNCHANGED <<pending, issued>>
  /\ ~e.control =>
       \/ InPlay(e.command, pending, up, commits) /\ UNCHANGED <<pending, issued>>
       \/ /\ e.command \in CommandsOf(Authority)
          /\ pending' = pending
          /\ issued' = [issued EXCEPT ![Authority] = @ + 1]

LEMMA AuthorityStep ==
  ASSUME Boards, History, Following, Messages, Commands,
         \/ \E r \in Replicas : AuthorityCommits(r)
         \/ \E c \in CommandsOf(Authority) : ProposeLocally(c)
         \/ SetLocked \/ SetWriters
  PROVE  \E e : Committing(e)
<1>1. ASSUME NEW r \in Replicas, AuthorityCommits(r) PROVE \E e : Committing(e)
  <2>1. PICK m, c, e : m = Head(up[r]) /\ c = m.command /\ e = CommandEntry(c)
    OBVIOUS
  <2>2. Receive(r, "Propose") /\ CommitCommand(c) /\ UNCHANGED <<pending, issued>>
    BY <1>1, <2>1 DEF AuthorityCommits, budgetVars
  <2>3. InPlay(c, pending, up, commits)
    <3>1. m \in Range(up[r]) /\ m.kind = "Propose"
      BY <2>1, <2>2, HeadUp
    <3> QED BY <2>1, <3>1 DEF InPlay
  <2>4. c.kind \in CommandKinds
    BY <2>3 DEF Commands, CommandOK
  <2>5. /\ Extends(board[Authority], e) /\ CommitEntry(e, After(board[Authority], e))
        /\ ~e.control /\ e.command = c
    BY <2>1, <2>2, <2>4, CommandIsEntry
  <2>6. proposals' = Remember(proposals, e, MaxProposals)
    BY <2>1, <2>2 DEF CommitCommand
  <2> QED BY <2>2, <2>3, <2>5, <2>6 DEF Committing
<1>2. ASSUME NEW c \in CommandsOf(Authority), ProposeLocally(c) PROVE \E e : Committing(e)
  <2>1. PICK e : e = CommandEntry(c)
    OBVIOUS
  <2>2. /\ CommitCommand(c) /\ pending' = pending
        /\ issued' = [issued EXCEPT ![Authority] = @ + 1]
    BY <1>2 DEF ProposeLocally
  <2>3. c.kind \in CommandKinds
    BY CommandsOfShape, FollowingFacts
  <2>4. /\ Extends(board[Authority], e) /\ CommitEntry(e, After(board[Authority], e))
        /\ ~e.control /\ e.command = c
    BY <2>1, <2>2, <2>3, CommandIsEntry
  <2>5. proposals' = Remember(proposals, e, MaxProposals)
    BY <2>1, <2>2 DEF CommitCommand
  <2> QED BY <2>2, <2>4, <2>5 DEF Committing
<1>3. ASSUME NEW access, ChangeAccess(access) PROVE \E e : Committing(e)
  <2>1. UNCHANGED <<pending, issued>>
    BY <1>3 DEF ChangeAccess
  <2> QED BY <1>3, <2>1, AccessIsEntry DEF Committing
<1> QED BY <1>1, <1>2, <1>3 DEF SetLocked, SetWriters

LEMMA RememberOK ==
  ASSUME NEW C, NEW s, EntriesOK(s, C), NEW n \in Nat \ {0}, Len(s) <= n,
         NEW e, EntryOK(e, C), NEW t, t = Remember(s, e, n)
  PROVE  EntriesOK(t, C) /\ Len(t) <= n
<1>0. IsSequence(s) /\ Len(s) \in Nat
  BY SequenceIsFunction DEF EntriesOK
<1>1. PICK u : u = IF Len(s) = n THEN Tail(s) ELSE s
  OBVIOUS
<1>2. IsSequence(u) /\ Range(u) \subseteq Range(s) /\ Len(u) \in Nat /\ Len(u) + 1 <= n
  <2>1. CASE Len(s) = n
    <3>1. s # <<>>
      BY <2>1, EmptySequence
    <3>2. IsSequence(Tail(s)) /\ Len(Tail(s)) = Len(s) - 1 /\ Range(Tail(s)) \subseteq Range(s)
      BY <1>0, <3>1, SequenceTail
    <3> QED BY <1>0, <1>1, <2>1, <3>2
  <2>2. CASE Len(s) # n
    BY <1>0, <1>1, <2>2
  <2> QED BY <2>1, <2>2
<1>3. t = Append(u, e)
  BY <1>1 DEF Remember
<1>4. IsSequence(t) /\ Len(t) = Len(u) + 1 /\ Range(t) \subseteq Range(u) \cup {e}
  BY <1>2, <1>3, SequenceAppend
<1> QED BY <1>2, <1>4 DEF EntriesOK

\* What the history does in a step.
HistoryMove ==
  \/ UNCHANGED <<commits, past>> /\ board'[Authority] = board[Authority]
  \/ \E e : Committing(e)

LEMMA BoardsStep ==
  ASSUME Boards, History, Following, Logs, Messages, Assemblies, Commands, [Next]_vars
  PROVE  Boards' /\ History' /\ Following' /\ Logs' /\ HistoryMove
<1>1. CASE UNCHANGED boardVars
  BY <1>1 DEF boardVars, Boards, History, Following, Logs, HistoryMove
<1>2. ASSUME NEW r \in Replicas,
             \/ ReplicaDescriptor(r) \/ ReplicaCommit(r) \/ ReplicaDelta(r)
             \/ ReplicaSnapshot(r) \/ Leave(r)
      PROVE  Boards' /\ History' /\ Following' /\ Logs' /\ HistoryMove
  <2>1. /\ Boards' /\ History' /\ Following' /\ UNCHANGED authorityVars
        /\ board'[Authority] = board[Authority]
    BY <1>2, ReplicaBoardStep
  <2> QED BY <2>1 DEF authorityVars, Logs, HistoryMove
<1>3. CASE \/ \E r \in Replicas : AuthorityCommits(r)
           \/ \E c \in CommandsOf(Authority) : ProposeLocally(c)
           \/ SetLocked \/ SetWriters
  <2>1. PICK e : Committing(e)
    BY <1>3, AuthorityStep
  <2>2. /\ Boards' /\ History' /\ Following' /\ EntryOK(e, commits')
        /\ commits' = Append(commits, e)
    BY <2>1, CommitStep DEF Committing
  <2>3. EntriesOK(log, commits') /\ EntriesOK(proposals, commits')
    BY <2>2, EntriesStay DEF Logs, History, IsHistory
  <2>4. /\ log' = Remember(log, e, MaxLogEntries)
        /\ proposals' = proposals \/ proposals' = Remember(proposals, e, MaxProposals)
    BY <2>1 DEF Committing, CommitEntry
  <2>5. MaxLogEntries \in Nat \ {0} /\ MaxProposals \in Nat \ {0}
    BY BoardAssumption
  <2>6. EntriesOK(log', commits') /\ Len(log') <= MaxLogEntries
    BY <2>2, <2>3, <2>4, <2>5, RememberOK DEF Logs
  <2>7. EntriesOK(proposals', commits') /\ Len(proposals') <= MaxProposals
    BY <2>2, <2>3, <2>4, <2>5, RememberOK DEF Logs
  <2> QED BY <2>1, <2>2, <2>6, <2>7 DEF Logs, HistoryMove
<1>4. CASE AuthorityLeaves
  <2>1. UNCHANGED <<board, commits, past>> /\ log' = <<>> /\ proposals' = <<>>
    BY <1>4 DEF AuthorityLeaves
  <2>2. Boards' /\ History' /\ Following' /\ HistoryMove
    BY <2>1 DEF Boards, History, Following, HistoryMove
  <2>3. EntriesOK(log', commits') /\ EntriesOK(proposals', commits')
    BY <2>1, EmptySequence DEF EntriesOK
  <2>4. Len(log') <= MaxLogEntries /\ Len(proposals') <= MaxProposals
    BY <2>1, EmptySequence, BoardAssumption
  <2> QED BY <2>2, <2>3, <2>4 DEF Logs
<1>5. CASE vars' = vars
  BY <1>1, <1>5 DEF vars, boardVars, authorityVars
<1> QED BY <1>1, <1>2, <1>3, <1>4, <1>5, BoardMoves

-----------------------------------------------------------------------------
(* The steps of the links.                                                 *)

\* t holds only messages of s and messages that are right now.
DownMove(s, t, C, P) == IsLink(t) /\ \A m \in Range(t) : m \in Range(s) \/ DownOK(m, C, P)

UpMove(s, t, Q) ==
  IsLink(t) /\ \A m \in Range(t) : m \in Range(s) \/ (m.kind = "Propose" => m.command \in Q)

LEMMA DownKept ==
  ASSUME NEW s, IsLink(s), NEW C, NEW P
  PROVE  /\ DownMove(s, s, C, P) /\ DownMove(s, <<>>, C, P)
         /\ s # <<>> => DownMove(s, Tail(s), C, P)
<1>1. DownMove(s, s, C, P)
  BY DEF DownMove
<1>2. DownMove(s, <<>>, C, P)
  BY EmptyLink DEF DownMove
<1>3. s # <<>> => DownMove(s, Tail(s), C, P)
  BY LinkTail DEF DownMove
<1> QED BY <1>1, <1>2, <1>3

LEMMA DownSent ==
  ASSUME NEW s, IsLink(s), NEW C, NEW P, NEW ms, AllDownOK(ms, C, P)
  PROVE  DownMove(s, Buffer(s, ms), C, P)
BY LinkBuffer DEF DownMove, AllDownOK

LEMMA UpKept ==
  ASSUME NEW s, IsLink(s), NEW Q
  PROVE  UpMove(s, s, Q) /\ UpMove(s, <<>>, Q) /\ (s # <<>> => UpMove(s, Tail(s), Q))
<1>1. UpMove(s, s, Q)
  BY DEF UpMove
<1>2. UpMove(s, <<>>, Q)
  BY EmptyLink DEF UpMove
<1>3. s # <<>> => UpMove(s, Tail(s), Q)
  BY LinkTail DEF UpMove
<1> QED BY <1>1, <1>2, <1>3

\* What a replica may send.
UpOK(ms, Q) ==
  IsSequence(ms) /\ \A m \in Range(ms) : m.kind = "Propose" => m.command \in Q

LEMMA UpSent ==
  ASSUME NEW s, IsLink(s), NEW Q, NEW ms, UpOK(ms, Q)
  PROVE  UpMove(s, Buffer(s, ms), Q) /\ \A r : UpMove(s, SendUp(r, s, ms), Q)
<1>1. UpMove(s, Buffer(s, ms), Q)
  BY LinkBuffer DEF UpMove, UpOK
<1>2. \A r : SendUp(r, s, ms) = Buffer(s, ms) \/ SendUp(r, s, ms) = s
  BY DEF SendUp
<1>3. UpMove(s, s, Q)
  BY UpKept
<1> QED BY <1>1, <1>2, <1>3

LEMMA SyncRequestOK ==
  ASSUME NEW b, NEW Q
  PROVE  UpOK(<<SyncRequest(b)>>, Q)
<1>1. PICK m : m = SyncRequest(b)
  OBVIOUS
<1>2. m.kind # "Propose"
  BY <1>1 DEF SyncRequest
<1> QED BY <1>1, <1>2, SingleSequence DEF UpOK

LEMMA OneDownOK ==
  ASSUME NEW m, NEW C, NEW P, DownOK(m, C, P)
  PROVE  AllDownOK(<<m>>, C, P)
BY SingleSequence DEF AllDownOK

LEMMA DescriptorOK ==
  ASSUME Boards, History, Following
  PROVE  DownOK(Descriptor(board[Authority]), commits, past)
<1>1. PICK m : m = Descriptor(board[Authority])
  OBVIOUS
<1>2. m.kind = "Descriptor" /\ m.sequence = Sequence(Authority) /\ m.shown = Shown(board[Authority])
  BY <1>1 DEF Descriptor, Sequence
<1>3. m.sequence \in 0 .. Len(commits) /\ m.shown = past[m.sequence + 1]
  BY <1>2, FollowingFacts
<1> QED BY <1>1, <1>2, <1>3 DEF DownOK

LEMMA TupleRange ==
  ASSUME NEW n \in Nat, NEW s, s = [i \in 1 .. n |-> s[i]]
  PROVE  IsSequence(s) /\ \A x \in Range(s) : \E i \in 1 .. n : x = s[i]
<1>1. IsSequence(s) /\ Len(s) = n
  BY FunctionIsSequence
<1> QED BY <1>1, SequenceIsFunction

LEMMA DeltasOK ==
  ASSUME Logs, NEW from
  PROVE  AllDownOK(Deltas(from), commits, past)
<1>1. PICK missing : missing = Keep(log, {e \in Range(log) : e.sequence > from})
  OBVIOUS
<1>2. IsSequence(missing) /\ Len(missing) \in Nat /\ \A e \in Range(missing) : EntryOK(e, commits)
  <2>1. IsSequence(missing) /\ Range(missing) \subseteq Range(log)
    BY <1>1, KeepIsSequence DEF Logs, EntriesOK
  <2> QED BY <2>1, SequenceIsFunction DEF Logs, EntriesOK
<1>3. MaxDeltaEntries \in Nat \ {0}
  BY BoardAssumption
<1>4. PICK n : n = (Len(missing) + MaxDeltaEntries - 1) \div MaxDeltaEntries
  OBVIOUS
<1>5. n \in Nat
  BY <1>2, <1>3, <1>4, DivisionNatural
<1> DEFINE first(i) == (i - 1) * MaxDeltaEntries
           last(i) == IF i * MaxDeltaEntries < Len(missing)
                      THEN i * MaxDeltaEntries ELSE Len(missing)
           entries(i) == SubSeq(missing, first(i) + 1, last(i))
           s == [i \in 1 .. n |->
                  [kind |-> "Delta", base |-> from + first(i), entries |-> entries(i)]]
<1>6. Deltas(from) = s
  BY <1>1, <1>4 DEF Deltas
<1>7. ASSUME NEW i \in 1 .. n PROVE EntriesOK(entries(i), commits)
  <2>1. first(i) + 1 \in Nat \ {0} /\ last(i) \in Nat /\ last(i) <= Len(missing)
    <3>1. PICK k : k = i - 1
      OBVIOUS
    <3>2. k \in Nat /\ i \in Nat
      BY <1>5, <3>1
    <3>3. k * MaxDeltaEntries \in Nat /\ i * MaxDeltaEntries \in Nat
      BY <1>3, <3>2
    <3> QED BY <1>2, <3>1, <3>3
  <2> HIDE DEF first, last
  <2>2. IsSequence(entries(i)) /\ Range(entries(i)) \subseteq Range(missing)
    BY <1>2, <2>1, SequenceSlice
  <2> QED BY <1>2, <2>2 DEF EntriesOK
<1> HIDE DEF entries, first
<1>8. s = [i \in 1 .. n |-> s[i]]
  OBVIOUS
<1>9. ASSUME NEW i \in 1 .. n PROVE DownOK(s[i], commits, past)
  <2>1. s[i].kind = "Delta" /\ s[i].entries = entries(i)
    OBVIOUS
  <2> HIDE DEF s
  <2> QED BY <1>7, <2>1 DEF DownOK
<1> HIDE DEF s
<1>10. IsSequence(s) /\ \A x \in Range(s) : \E i \in 1 .. n : x = s[i]
  BY <1>5, <1>8, TupleRange
<1> QED BY <1>6, <1>9, <1>10 DEF AllDownOK

LEMMA SnapshotChunksOK ==
  ASSUME Boards, History, Following
  PROVE  AllDownOK(SnapshotChunks, commits, past)
<1>1. PICK b, content : b = board[Authority] /\ content = Content(b.doc)
  OBVIOUS
<1>2. ChunkCount(content) \in Nat
  BY <1>1, FollowingFacts, ChunkCountNatural DEF IsBoard
<1>3. PICK cut : cut = {i \in 1 .. ChunkCount(content) : ~Encodable(content, i)}
  OBVIOUS
<1>4. PICK n : n = IF cut = {} THEN ChunkCount(content) ELSE Min(cut) - 1
  OBVIOUS
<1>5. n \in Nat
  <2>1. CASE cut = {}
    BY <1>2, <1>4, <2>1
  <2>2. CASE cut # {}
    <3>1. cut \subseteq Nat /\ \A i \in cut : i \in Nat \ {0}
      BY <1>2, <1>3
    <3>2. Min(cut) \in Nat \ {0}
      BY <2>2, <3>1, MinOfPositions
    <3> QED BY <1>4, <2>2, <3>2
  <2> QED BY <2>1, <2>2
<1> DEFINE s == [i \in 1 .. n |->
                  [kind |-> "SnapshotChunk", base |-> b.sequence, content |-> content,
                   access |-> b.access, index |-> i]]
<1>6. SnapshotChunks = s
  BY <1>1, <1>3, <1>4 DEF SnapshotChunks
<1>7. /\ b.sequence \in 0 .. Len(commits)
      /\ content = past[b.sequence + 1].content /\ b.access = past[b.sequence + 1].access
  <2>1. b.sequence \in 0 .. Len(commits) /\ Shown(b) = past[b.sequence + 1]
    BY <1>1, FollowingFacts DEF Sequence
  <2>2. Shown(b).content = content /\ Shown(b).access = b.access
    BY <1>1 DEF Shown
  <2> QED BY <2>1, <2>2
<1>8. s = [i \in 1 .. n |-> s[i]]
  OBVIOUS
<1>9. ASSUME NEW i \in 1 .. n PROVE DownOK(s[i], commits, past)
  <2>1. /\ s[i].kind = "SnapshotChunk" /\ s[i].base = b.sequence
        /\ s[i].content = content /\ s[i].access = b.access
    OBVIOUS
  <2> HIDE DEF s
  <2>2. Restores(s[i], commits, past)
    BY <1>7, <2>1 DEF Restores
  <2> QED BY <2>1, <2>2 DEF DownOK
<1> HIDE DEF s
<1>10. IsSequence(s) /\ \A x \in Range(s) : \E i \in 1 .. n : x = s[i]
  BY <1>5, <1>8, TupleRange
<1> QED BY <1>6, <1>9, <1>10 DEF AllDownOK

LEMMA RecoveryOK ==
  ASSUME Boards, History, Following, Logs, NEW from
  PROVE  AllDownOK(<<Descriptor(board[Authority])>> \o Recovery(from), commits, past)
<1>1. PICK s, t : s = <<Descriptor(board[Authority])>> /\ t = Recovery(from)
  OBVIOUS
<1>2. AllDownOK(s, commits, past)
  BY <1>1, DescriptorOK, OneDownOK
<1>3. AllDownOK(t, commits, past)
  <2>1. AllDownOK(<<>>, commits, past)
    BY EmptySequence DEF AllDownOK
  <2>2. t = <<>> \/ t = Deltas(from) \/ t = SnapshotChunks
    BY <1>1 DEF Recovery
  <2> QED BY <2>1, <2>2, DeltasOK, SnapshotChunksOK
<1>4. AllDownOK(s \o t, commits, past)
  BY <1>2, <1>3, SequenceConcat DEF AllDownOK
<1> QED BY <1>1, <1>4

\* Every link from the authority moves as it should.
DownMoves ==
  /\ down' = [r \in Replicas |-> down'[r]]
  /\ \A r \in Replicas : DownMove(down[r], down'[r], commits', past')

LEMMA DownSame ==
  ASSUME Messages, down' = down
  PROVE  DownMoves
BY DownKept DEF Messages, DownMoves

LEMMA DownAt ==
  ASSUME Messages, NEW r \in Replicas, NEW t, DownMove(down[r], t, commits', past'),
         down' = [down EXCEPT ![r] = t]
  PROVE  DownMoves
<1>1. down = [q \in Replicas |-> down[q]] /\ \A q \in Replicas : IsLink(down[q])
  BY DEF Messages
<1>2. /\ down' = [q \in Replicas |-> down'[q]] /\ down'[r] = t
      /\ \A q \in Replicas : q # r => down'[q] = down[q]
  BY <1>1
<1>3. ASSUME NEW q \in Replicas PROVE DownMove(down[q], down'[q], commits', past')
  <2>1. CASE q = r
    BY <1>2, <2>1
  <2>2. CASE q # r
    BY <1>1, <1>2, <2>2, DownKept
  <2> QED BY <2>1, <2>2
<1> QED BY <1>2, <1>3 DEF DownMoves

LEMMA DownAll ==
  ASSUME NEW T, down' = [r \in Replicas |-> T[r]],
         \A r \in Replicas : DownMove(down[r], T[r], commits', past')
  PROVE  DownMoves
<1>1. \A r \in Replicas : down'[r] = T[r]
  OBVIOUS
<1>2. down' = [r \in Replicas |-> down'[r]]
  OBVIOUS
<1> QED BY <1>1, <1>2 DEF DownMoves

LEMMA DownBroadcast ==
  ASSUME Messages, NEW ms, AllDownOK(ms, commits', past'), Broadcast(ms)
  PROVE  DownMoves
<1>1. PICK T : T = [r \in Replicas |-> IF transport[Authority] /\ InSession(r)
                                      THEN Buffer(down[r], ms) ELSE down[r]]
  OBVIOUS
<1>2. down' = T
  BY <1>1 DEF Broadcast
<1>3. ASSUME NEW r \in Replicas PROVE DownMove(down[r], T[r], commits', past')
  <2>1. T[r] = Buffer(down[r], ms) \/ T[r] = down[r]
    BY <1>1
  <2> QED BY <2>1, DownKept, DownSent DEF Messages
<1>4. down' = [r \in Replicas |-> T[r]]
  BY <1>1, <1>2
<1> QED BY <1>3, <1>4, DownAll

LEMMA DownAnswer ==
  ASSUME Messages, NEW r \in Replicas, NEW ms, AllDownOK(ms, commits', past'),
         Answer(r, ms)
  PROVE  DownMoves
<1>1. PICK t : t = Buffer(down[r], ms)
  OBVIOUS
<1>2. down' = [down EXCEPT ![r] = t]
  BY <1>1 DEF Answer
<1>3. DownMove(down[r], t, commits', past')
  BY <1>1, DownSent DEF Messages
<1> QED BY <1>2, <1>3, DownAt

LEMMA DownTail ==
  ASSUME Messages, NEW r \in Replicas, down[r] # <<>>, down' = [down EXCEPT ![r] = Tail(@)]
  PROVE  DownMoves
<1>1. PICK t : t = Tail(down[r])
  OBVIOUS
<1>2. down' = [down EXCEPT ![r] = t]
  BY <1>1
<1>3. DownMove(down[r], t, commits', past')
  BY <1>1, DownKept DEF Messages
<1> QED BY <1>2, <1>3, DownAt

LEMMA CommitOK ==
  ASSUME NEW C, NEW P, NEW e, EntryOK(e, C)
  PROVE  AllDownOK(<<Commit(e)>>, C, P)
<1>1. PICK m : m = Commit(e)
  OBVIOUS
<1>2. m.kind = "Commit" /\ m.entry = e
  BY <1>1 DEF Commit
<1>3. DownOK(m, C, P)
  BY <1>2 DEF DownOK
<1> QED BY <1>1, <1>3, OneDownOK

LEMMA OtherOK ==
  ASSUME NEW C, NEW P, NEW m,
         m.kind \notin {"Descriptor", "Commit", "Delta", "SnapshotChunk"}
  PROVE  AllDownOK(<<m>>, C, P)
<1>1. DownOK(m, C, P)
  BY DEF DownOK
<1> QED BY <1>1, OneDownOK

LEMMA DownCommitting ==
  ASSUME Boards, History, Following, Messages, NEW e, Committing(e)
  PROVE  DownMoves
<1>1. PICK x : x = After(board[Authority], e)
  OBVIOUS
<1>2. EntryOK(e, commits')
  BY <1>1, CommitStep DEF Committing
<1>3. Broadcast(<<Commit(e)>>)
  BY <1>1 DEF Committing, CommitEntry
<1> QED BY <1>2, <1>3, CommitOK, DownBroadcast

LEMMA DownReplies ==
  ASSUME Boards, History, Following, Logs, Messages, Commands, NEW r \in Replicas,
         AuthorityReceives(r)
  PROVE  DownMoves
<1>1. CASE AuthoritySyncs(r)
  <2>1. PICK ms : ms = <<Descriptor(board[Authority])>> \o Recovery(Head(up[r]).base)
    OBVIOUS
  <2>2. commits' = commits /\ past' = past /\ Answer(r, ms)
    BY <1>1, <2>1 DEF AuthoritySyncs, authorityVars
  <2>3. AllDownOK(ms, commits, past)
    BY <2>1, RecoveryOK
  <2> QED BY <2>2, <2>3, DownAnswer
<1>2. CASE AuthorityRepeats(r)
  <2>1. PICK c, i, e : c = Head(up[r]).command /\ i = Remembered(c) /\ e = proposals[i]
    OBVIOUS
  <2>2. /\ commits' = commits /\ past' = past
        /\ i # 0 /\ Answer(r, <<Commit(e)>>)
    BY <1>2, <2>1 DEF AuthorityRepeats, authorityVars
  <2>3. EntryOK(e, commits)
    <3>1. IsSequence(proposals)
      BY DEF Logs, EntriesOK
    <3>2. i \in 1 .. Len(proposals)
      <4>1. PICK I : I = {j \in 1 .. Len(proposals) : proposals[j].command.id = c.id}
        OBVIOUS
      <4>2. I \subseteq Nat
        BY <3>1, <4>1, SequenceIsFunction
      <4>3. i = IF I = {} THEN 0 ELSE Min(I)
        BY <2>1, <4>1 DEF Remembered, SelectInSeq
      <4>4. i \in I
        BY <2>2, <4>2, <4>3, MinOfPositions
      <4> QED BY <4>1, <4>4
    <3>3. e \in Range(proposals)
      BY <2>1, <3>1, <3>2, SequenceIsFunction
    <3> QED BY <3>3 DEF Logs, EntriesOK
  <2> QED BY <2>2, <2>3, CommitOK, DownAnswer
<1>3. CASE AuthorityCommits(r)
  <2>1. PICK e : Committing(e)
    BY <1>3, AuthorityStep
  <2> QED BY <2>1, DownCommitting
<1>4. CASE AuthorityRejects(r)
  <2>1. PICK m : m = [kind |-> "Reject", id |-> Head(up[r]).command.id]
    OBVIOUS
  <2>2. Answer(r, <<m>>)
    BY <1>4, <2>1 DEF AuthorityRejects
  <2>3. m.kind = "Reject"
    BY <2>1
  <2>4. AllDownOK(<<m>>, commits', past')
    BY <2>3, OtherOK
  <2> QED BY <2>2, <2>4, DownAnswer
<1> QED BY <1>1, <1>2, <1>3, <1>4 DEF AuthorityReceives

LEMMA DownStep ==
  ASSUME Boards, History, Following, Logs, Messages, Commands, [Next]_vars
  PROVE  DownMoves
<1>1. ASSUME NEW c \in CommandsOf(Authority), ProposeLocally(c) PROVE DownMoves
  BY <1>1, AuthorityStep, DownCommitting
<1>2. CASE SetLocked \/ SetWriters
  BY <1>2, AuthorityStep, DownCommitting
<1>3. CASE Heartbeat
  <2>1. PICK m : m = [kind |-> "Heartbeat", sequence |-> Sequence(Authority)]
    OBVIOUS
  <2>2. m.kind = "Heartbeat" /\ Broadcast(<<m>>)
    BY <1>3, <2>1 DEF Heartbeat
  <2> QED BY <2>2, OtherOK, DownBroadcast
<1>4. CASE AuthorityLeaves
  BY <1>4, DownSame DEF AuthorityLeaves
<1>5. CASE AuthorityReconnected
  <2>1. PICK ms : ms = <<Descriptor(board[Authority])>>
    OBVIOUS
  <2>2. PICK T : T = [r \in Replicas |-> IF InSession(r) THEN Buffer(down[r], ms) ELSE down[r]]
    OBVIOUS
  <2>3. down' = T /\ commits' = commits /\ past' = past
    BY <1>5, <2>1, <2>2 DEF AuthorityReconnected, authorityVars
  <2>4. AllDownOK(ms, commits, past)
    BY <2>1, DescriptorOK, OneDownOK
  <2>5. ASSUME NEW r \in Replicas PROVE DownMove(down[r], T[r], commits, past)
    <3>1. T[r] = Buffer(down[r], ms) \/ T[r] = down[r]
      BY <2>2
    <3> QED BY <2>4, <3>1, DownKept, DownSent DEF Messages
  <2>6. down' = [r \in Replicas |-> T[r]]
    BY <2>2, <2>3
  <2> QED BY <2>3, <2>5, <2>6, DownAll
<1>6. ASSUME NEW r \in Replicas, ReplicaNext(r) PROVE DownMoves
  <2>1. ASSUME NEW c, ProposeRemotely(r, c) PROVE DownMoves
    BY <2>1, DownSame DEF ProposeRemotely
  <2>2. CASE AuthorityReceives(r)
    BY <2>2, DownReplies
  <2>3. CASE ReplicaReceives(r)
    <3>1. down[r] # <<>> /\ down' = [down EXCEPT ![r] = Tail(@)]
      BY <2>3 DEF ReplicaReceives, ReplicaDescriptor, ReplicaKnowsCommit, ReplicaCommit,
                  ReplicaDelta, ReplicaSnapshot, ReplicaHeartbeat, ReplicaReject, Deliver
    <3> QED BY <3>1, DownTail
  <2>4. CASE Drop(r)
    <3>1. \/ down' = down
          \/ down[r] # <<>> /\ down' = [down EXCEPT ![r] = Tail(@)]
      BY <2>4 DEF Drop
    <3> QED BY <3>1, DownSame, DownTail
  <2>5. CASE Retry(r) \/ AuthoritySilent(r)
    BY <2>5, DownSame DEF Retry, AuthoritySilent
  <2>6. CASE Join(r) \/ PeerLeft(r) \/ ReplicaReconnected(r)
    BY <2>6, DownSame DEF Join, PeerLeft, ReplicaReconnected
  <2>7. CASE Leave(r)
    <3>1. down' = [down EXCEPT ![r] = <<>>]
      BY <2>7 DEF Leave
    <3>2. DownMove(down[r], <<>>, commits', past')
      BY DownKept DEF Messages
    <3> QED BY <3>1, <3>2, DownAt
  <2> QED BY <1>6, <2>1, <2>2, <2>3, <2>4, <2>5, <2>6, <2>7 DEF ReplicaNext
<1>7. ASSUME NEW p \in Participants, Interrupted(p) PROVE DownMoves
  <2>1. PICK T : T = [r \in Replicas |-> IF r \in (IF p = Authority THEN Replicas ELSE {p})
                                        THEN <<>> ELSE down[r]]
    OBVIOUS
  <2>2. down' = down \/ down' = T
    BY <1>7, <2>1 DEF Interrupted
  <2>3. CASE down' = T
    <3>1. ASSUME NEW r \in Replicas PROVE DownMove(down[r], T[r], commits', past')
      <4>1. T[r] = <<>> \/ T[r] = down[r]
        BY <2>1
      <4> QED BY <4>1, DownKept DEF Messages
    <3>2. down' = [r \in Replicas |-> T[r]]
      BY <2>1, <2>3
    <3> QED BY <3>1, <3>2, DownAll
  <2> QED BY <2>2, <2>3, DownSame
<1>8. CASE vars' = vars
  BY <1>8, DownSame DEF vars
<1> QED BY <1>1, <1>2, <1>3, <1>4, <1>5, <1>6, <1>7, <1>8 DEF Next, AuthorityNext

\* Every link to the authority moves as it should.
UpMoves ==
  /\ up' = [r \in Replicas |-> up'[r]]
  /\ \A r \in Replicas : UpMove(up[r], up'[r], pending'[r])

LEMMA UpSame ==
  ASSUME Messages, up' = up
  PROVE  UpMoves
BY UpKept DEF Messages, UpMoves

LEMMA UpAll ==
  ASSUME NEW T, up' = [r \in Replicas |-> T[r]],
         \A r \in Replicas : UpMove(up[r], T[r], pending'[r])
  PROVE  UpMoves
<1>1. \A r \in Replicas : up'[r] = T[r]
  OBVIOUS
<1>2. up' = [r \in Replicas |-> up'[r]]
  OBVIOUS
<1> QED BY <1>1, <1>2 DEF UpMoves

LEMMA UpAt ==
  ASSUME Messages, NEW r \in Replicas, NEW t, UpMove(up[r], t, pending'[r]),
         up' = [up EXCEPT ![r] = t]
  PROVE  UpMoves
<1>1. up = [q \in Replicas |-> up[q]] /\ \A q \in Replicas : IsLink(up[q])
  BY DEF Messages
<1>2. /\ up' = [q \in Replicas |-> up'[q]] /\ up'[r] = t
      /\ \A q \in Replicas : q # r => up'[q] = up[q]
  BY <1>1
<1>3. ASSUME NEW q \in Replicas PROVE UpMove(up[q], up'[q], pending'[q])
  <2>1. CASE q = r
    BY <1>2, <2>1
  <2>2. CASE q # r
    BY <1>1, <1>2, <2>2, UpKept
  <2> QED BY <2>1, <2>2
<1> QED BY <1>2, <1>3 DEF UpMoves

LEMMA UpTail ==
  ASSUME Messages, NEW r \in Replicas, up[r] # <<>>, up' = [up EXCEPT ![r] = Tail(@)]
  PROVE  UpMoves
<1>1. PICK t : t = Tail(up[r])
  OBVIOUS
<1>2. up' = [up EXCEPT ![r] = t]
  BY <1>1
<1>3. UpMove(up[r], t, pending'[r])
  BY <1>1, UpKept DEF Messages
<1> QED BY <1>2, <1>3, UpAt

LEMMA UpRequest ==
  ASSUME Messages, NEW r \in Replicas, NEW b, RequestSync(r, b)
  PROVE  UpMoves
<1>1. PICK t : t = SendUp(r, up[r], <<SyncRequest(b)>>)
  OBVIOUS
<1>2. up' = [up EXCEPT ![r] = t]
  BY <1>1 DEF RequestSync
<1>3. UpMove(up[r], t, pending'[r])
  BY <1>1, SyncRequestOK, UpSent DEF Messages
<1> QED BY <1>2, <1>3, UpAt

LEMMA AllPendingOK ==
  ASSUME NEW n \in Nat, NEW s, s = [i \in 1 .. n |-> s[i]],
         NEW Q, \A i \in 1 .. n : s[i].command \in Q
  PROVE  UpOK(s, Q)
BY TupleRange DEF UpOK

\* The retries of a replica are its pending proposals.
LEMMA RetriesOK ==
  ASSUME NEW Q, IsFiniteSet(Q), NEW ordered \in [1 .. Cardinality(Q) -> Q],
         NEW ms, ms = [i \in DOMAIN ordered |-> [kind |-> "Propose", command |-> ordered[i]]]
  PROVE  UpOK(ms, Q)
<1>1. PICK n : n = Cardinality(Q)
  OBVIOUS
<1>2. n \in Nat
  BY <1>1, FS_CardinalityType
<1>3. ms = [i \in 1 .. n |-> [kind |-> "Propose", command |-> ordered[i]]]
  BY <1>1
<1>4. ms = [i \in 1 .. n |-> ms[i]]
  BY <1>3
<1>5. \A i \in 1 .. n : ms[i].command \in Q
  BY <1>1, <1>3
<1> QED BY <1>2, <1>4, <1>5, AllPendingOK

LEMMA ProposeStep ==
  ASSUME Messages, Commands, NEW r \in Replicas, NEW c, ProposeRemotely(r, c)
  PROVE  UpMoves /\ pending' = [pending EXCEPT ![r] = @ \cup {c}]
<1>1. PICK m : m = [kind |-> "Propose", command |-> c]
  OBVIOUS
<1>2. PICK t : t = SendUp(r, up[r], <<m>>)
  OBVIOUS
<1>3. up' = [up EXCEPT ![r] = t] /\ pending' = [pending EXCEPT ![r] = @ \cup {c}]
  BY <1>1, <1>2 DEF ProposeRemotely
<1>4. c \in pending'[r]
  BY <1>3 DEF Commands
<1>5. m.kind = "Propose" /\ m.command = c
  BY <1>1
<1>6. UpOK(<<m>>, pending'[r])
  BY <1>4, <1>5, SingleSequence DEF UpOK
<1>7. UpMove(up[r], t, pending'[r])
  BY <1>2, <1>6, UpSent DEF Messages
<1> QED BY <1>3, <1>7, UpAt

LEMMA RetryStep ==
  ASSUME Messages, Commands, NEW r \in Replicas, Retry(r)
  PROVE  UpMoves
<1>1. up[r] = <<>> /\ pending' = pending
  BY DEF Retry
<1>2. CASE RequestSync(r, board[r])
  BY <1>2, UpRequest
<1>3. CASE ~RequestSync(r, board[r])
  <2>1. PICK ordered \in [1 .. Cardinality(pending[r]) -> pending[r]] :
          up' = [up EXCEPT ![r] = SendUp(r, <<>>, [i \in DOMAIN ordered |->
                   [kind |-> "Propose", command |-> ordered[i]]])]
    BY <1>3 DEF Retry
  <2>2. PICK ms : ms = [i \in DOMAIN ordered |-> [kind |-> "Propose", command |-> ordered[i]]]
    OBVIOUS
  <2>3. UpOK(ms, pending[r])
    BY <2>2, RetriesOK DEF Commands
  <2>4. PICK t : t = SendUp(r, <<>>, ms)
    OBVIOUS
  <2>5. up' = [up EXCEPT ![r] = t]
    BY <2>1, <2>2, <2>4
  <2>6. UpMove(up[r], t, pending'[r])
    BY <1>1, <2>3, <2>4, UpSent, EmptyLink
  <2> QED BY <2>5, <2>6, UpAt
<1> QED BY <1>2, <1>3

LEMMA UpStep ==
  ASSUME Messages, Commands, [Next]_vars
  PROVE  UpMoves
<1>1. CASE AuthorityNext
  <2>1. CASE AuthorityLeaves
    <3>1. PICK T : T = [r \in Replicas |-> <<>>]
      OBVIOUS
    <3>2. up' = [r \in Replicas |-> T[r]] /\ \A r \in Replicas : T[r] = <<>>
      BY <2>1, <3>1 DEF AuthorityLeaves
    <3>3. \A r \in Replicas : UpMove(up[r], T[r], pending'[r])
      BY <3>2, UpKept DEF Messages
    <3> QED BY <3>2, <3>3, UpAll
  <2>2. CASE ~AuthorityLeaves
    <3>1. ASSUME NEW c, ProposeLocally(c) PROVE up' = up
      BY <3>1 DEF ProposeLocally
    <3>2. SetLocked \/ SetWriters => up' = up
      BY DEF SetLocked, SetWriters, ChangeAccess
    <3>3. Heartbeat \/ AuthorityReconnected => up' = up
      BY DEF Heartbeat, AuthorityReconnected
    <3>4. up' = up
      BY <1>1, <2>2, <3>1, <3>2, <3>3 DEF AuthorityNext
    <3> QED BY <3>4, UpSame
  <2> QED BY <2>1, <2>2
<1>2. ASSUME NEW r \in Replicas, ReplicaNext(r) PROVE UpMoves
  <2>1. CASE \E c \in CommandsOf(r) : ProposeRemotely(r, c)
    BY <2>1, ProposeStep
  <2>2. CASE AuthorityReceives(r)
    <3>1. up[r] # <<>> /\ up' = [up EXCEPT ![r] = Tail(@)]
      BY <2>2 DEF AuthorityReceives, AuthoritySyncs, AuthorityRepeats, AuthorityCommits,
                  AuthorityRejects, Receive
    <3> QED BY <3>1, UpTail
  <2>3. CASE ReplicaReceives(r)
    <3>1. up' = up \/ \E b : RequestSync(r, b)
      <4>1. ReplicaDescriptor(r) => up' = up \/ \E b : RequestSync(r, b)
        BY DEF ReplicaDescriptor, IsReady
      <4>2. ReplicaCommit(r) => up' = up \/ \E b : RequestSync(r, b)
        BY DEF ReplicaCommit, IsReady
      <4>3. ReplicaDelta(r) => up' = up \/ \E b : RequestSync(r, b)
        BY DEF ReplicaDelta, IsReady
      <4>4. ReplicaHeartbeat(r) => up' = up \/ \E b : RequestSync(r, b)
        BY DEF ReplicaHeartbeat
      <4>5. ReplicaKnowsCommit(r) \/ ReplicaSnapshot(r) \/ ReplicaReject(r) => up' = up
        BY DEF ReplicaKnowsCommit, ReplicaSnapshot, ReplicaReject
      <4> QED BY <2>3, <4>1, <4>2, <4>3, <4>4, <4>5 DEF ReplicaReceives
    <3> QED BY <3>1, UpSame, UpRequest
  <2>4. CASE Drop(r)
    <3>1. \/ up' = up
          \/ up[r] # <<>> /\ up' = [up EXCEPT ![r] = Tail(@)]
      BY <2>4 DEF Drop
    <3> QED BY <3>1, UpSame, UpTail
  <2>5. CASE Retry(r)
    BY <2>5, RetryStep
  <2>6. CASE Join(r)
    <3>1. PICK t : t = <<SyncRequest(NewBoard)>>
      OBVIOUS
    <3>2. up' = [up EXCEPT ![r] = t]
      BY <2>6, <3>1 DEF Join
    <3>3. IsLink(t) /\ UpOK(t, pending'[r])
      BY <3>1, SingleLink, SyncRequestOK
    <3>4. UpMove(up[r], t, pending'[r])
      BY <3>3 DEF UpMove, UpOK
    <3> QED BY <3>2, <3>4, UpAt
  <2>7. CASE Leave(r)
    <3>1. up' = [up EXCEPT ![r] = <<>>]
      BY <2>7 DEF Leave
    <3>2. UpMove(up[r], <<>>, pending'[r])
      BY UpKept DEF Messages
    <3> QED BY <3>1, <3>2, UpAt
  <2>8. CASE AuthoritySilent(r) \/ PeerLeft(r)
    BY <2>8, UpSame DEF AuthoritySilent, PeerLeft
  <2>9. CASE ReplicaReconnected(r)
    <3>1. PICK ms : ms = <<SyncRequest(board[r])>>
      OBVIOUS
    <3>2. PICK t : t = IF InSession(Authority) THEN Buffer(up[r], ms) ELSE up[r]
      OBVIOUS
    <3>3. up' = up \/ up' = [up EXCEPT ![r] = t]
      BY <2>9, <3>1, <3>2 DEF ReplicaReconnected
    <3>4. UpMove(up[r], Buffer(up[r], ms), pending'[r])
      BY <3>1, SyncRequestOK, UpSent DEF Messages
    <3>5. UpMove(up[r], t, pending'[r])
      BY <3>2, <3>4, UpKept DEF Messages
    <3> QED BY <3>3, <3>5, UpSame, UpAt
  <2> QED BY <1>2, <2>1, <2>2, <2>3, <2>4, <2>5, <2>6, <2>7, <2>8, <2>9 DEF ReplicaNext
<1>3. ASSUME NEW p \in Participants, Interrupted(p) PROVE UpMoves
  <2>1. PICK T : T = [r \in Replicas |-> IF r \in (IF p = Authority THEN Replicas ELSE {p})
                                        THEN <<>> ELSE up[r]]
    OBVIOUS
  <2>2. up' = up \/ up' = T
    BY <1>3, <2>1 DEF Interrupted
  <2>3. CASE up' = T
    <3>1. ASSUME NEW r \in Replicas PROVE UpMove(up[r], T[r], pending'[r])
      <4>1. T[r] = <<>> \/ T[r] = up[r]
        BY <2>1
      <4> QED BY <4>1, UpKept DEF Messages
    <3>2. up' = [r \in Replicas |-> T[r]]
      BY <2>1, <2>3
    <3> QED BY <3>1, <3>2, UpAll
  <2> QED BY <2>2, <2>3, UpSame
<1>4. CASE vars' = vars
  BY <1>4, UpSame DEF vars
<1> QED BY <1>1, <1>2, <1>3, <1>4 DEF Next

LEMMA HistoryGrows ==
  ASSUME Boards, History, Following, HistoryMove
  PROVE  \/ UNCHANGED <<commits, past>> /\ board'[Authority] = board[Authority]
         \/ \E e, y : /\ commits' = Append(commits, e) /\ past' = Append(past, y)
                      /\ EntryOK(e, commits')
<1>1. ASSUME NEW e, Committing(e)
      PROVE  \E y : /\ commits' = Append(commits, e) /\ past' = Append(past, y)
                    /\ EntryOK(e, commits')
  <2>1. PICK x : x = After(board[Authority], e)
    OBVIOUS
  <2> QED BY <1>1, <2>1, CommitStep DEF Committing
<1> QED BY <1>1 DEF HistoryMove

LEMMA MessagesStep ==
  ASSUME Boards, History, Following, Logs, Messages, Commands, HistoryMove, [Next]_vars
  PROVE  Messages'
<1>1. UpMoves /\ DownMoves
  BY UpStep, DownStep
<1>2. ASSUME NEW r \in Replicas, NEW m \in Range(down'[r]) PROVE DownOK(m, commits', past')
  <2>1. m \in Range(down[r]) \/ DownOK(m, commits', past')
    BY <1>1, <1>2 DEF DownMoves, DownMove
  <2>2. CASE m \in Range(down[r])
    <3>1. DownOK(m, commits, past)
      BY <2>2 DEF Messages
    <3>2. CASE UNCHANGED <<commits, past>>
      BY <3>1, <3>2
    <3>3. CASE \E e, y : commits' = Append(commits, e) /\ past' = Append(past, y)
      BY <3>1, <3>3, DownStays DEF History
    <3> QED BY <3>2, <3>3, HistoryGrows
  <2> QED BY <2>1, <2>2
<1> QED BY <1>1, <1>2 DEF Messages, UpMoves, DownMoves, UpMove, DownMove

LEMMA AssemblyMove ==
  ASSUME Messages, Assemblies, [Next]_vars
  PROVE  \/ assembly' = assembly
         \/ \E r \in Replicas : \E s :
              /\ assembly' = [assembly EXCEPT ![r] = s] /\ IsAssembly(s)
              /\ s.received # {} => Restores(s, commits, past) /\ UNCHANGED <<commits, past>>
<1>1. CASE AuthorityNext
  <2>1. ASSUME NEW c, ProposeLocally(c) PROVE assembly' = assembly
    BY <2>1 DEF ProposeLocally
  <2>2. SetLocked \/ SetWriters \/ Heartbeat => assembly' = assembly
    BY DEF SetLocked, SetWriters, ChangeAccess, Heartbeat
  <2>3. AuthorityLeaves \/ AuthorityReconnected => assembly' = assembly
    BY DEF AuthorityLeaves, AuthorityReconnected
  <2> QED BY <1>1, <2>1, <2>2, <2>3 DEF AuthorityNext
<1>2. ASSUME NEW r \in Replicas, ReplicaNext(r)
      PROVE  \/ assembly' = assembly
             \/ \E s : /\ assembly' = [assembly EXCEPT ![r] = s] /\ IsAssembly(s)
                       /\ s.received # {} =>
                            Restores(s, commits, past) /\ UNCHANGED <<commits, past>>
  <2>0. NoAssembly.received = {} /\ IsAssembly(NoAssembly)
    BY DEF NoAssembly, IsAssembly
  <2>1. CASE ReplicaSnapshot(r)
    <3>1. PICK m, s : m = Head(down[r]) /\ s = Assembled(r, m)
      OBVIOUS
    <3>2. DownOK(m, commits, past) /\ m.kind = "SnapshotChunk"
      BY <2>1, <3>1, Delivered DEF ReplicaSnapshot
    <3>3. IsAssembly(s) /\ Restores(s, commits, past)
      BY <3>1, <3>2, AssembledRestores DEF DownOK
    <3>4. \/ assembly' = assembly
          \/ assembly' = [assembly EXCEPT ![r] = s]
          \/ assembly' = [assembly EXCEPT ![r] = NoAssembly]
      BY <2>1, <3>1 DEF ReplicaSnapshot
    <3>5. UNCHANGED <<commits, past>>
      BY <2>1 DEF ReplicaSnapshot, authorityVars
    <3> QED BY <2>0, <3>3, <3>4, <3>5
  <2>2. CASE Leave(r)
    <3>1. assembly' = [assembly EXCEPT ![r] = NoAssembly]
      BY <2>2 DEF Leave
    <3> QED BY <2>0, <3>1
  <2>3. CASE ~ReplicaSnapshot(r) /\ ~Leave(r)
    <3>1. ASSUME NEW c, ProposeRemotely(r, c) PROVE assembly' = assembly
      BY <3>1 DEF ProposeRemotely
    <3>2. AuthorityReceives(r) => assembly' = assembly
      BY DEF AuthorityReceives, AuthoritySyncs, AuthorityRepeats, AuthorityCommits,
             AuthorityRejects
    <3>3. ReplicaDescriptor(r) \/ ReplicaKnowsCommit(r) \/ ReplicaCommit(r)
            => assembly' = assembly
      BY DEF ReplicaDescriptor, ReplicaKnowsCommit, ReplicaCommit
    <3>4. ReplicaDelta(r) \/ ReplicaHeartbeat(r) \/ ReplicaReject(r) => assembly' = assembly
      BY DEF ReplicaDelta, ReplicaHeartbeat, ReplicaReject
    <3>5. Drop(r) \/ Retry(r) \/ AuthoritySilent(r) => assembly' = assembly
      BY DEF Drop, Retry, AuthoritySilent
    <3>6. Join(r) \/ PeerLeft(r) \/ ReplicaReconnected(r) => assembly' = assembly
      BY DEF Join, PeerLeft, ReplicaReconnected
    <3> QED BY <1>2, <2>3, <3>1, <3>2, <3>3, <3>4, <3>5, <3>6
            DEF ReplicaNext, ReplicaReceives
  <2> QED BY <2>1, <2>2, <2>3
<1>3. ASSUME NEW p \in Participants, Interrupted(p) PROVE assembly' = assembly
  BY <1>3 DEF Interrupted
<1>4. CASE vars' = vars
  BY <1>4 DEF vars
<1> QED BY <1>1, <1>2, <1>3, <1>4 DEF Next

LEMMA AssembliesStep ==
  ASSUME Boards, History, Following, Messages, Assemblies, HistoryMove, [Next]_vars
  PROVE  Assemblies'
<1>1. /\ assembly = [r \in Replicas |-> assembly[r]]
      /\ \A r \in Replicas : IsAssembly(assembly[r])
      /\ \A r \in Replicas : assembly[r].received # {} => Restores(assembly[r], commits, past)
  BY DEF Assemblies
<1>2. ASSUME NEW a, Restores(a, commits, past) PROVE Restores(a, commits', past')
  <2>1. CASE UNCHANGED <<commits, past>>
    BY <1>2, <2>1
  <2>2. CASE \E e, y : commits' = Append(commits, e) /\ past' = Append(past, y)
    BY <1>2, <2>2, RestoresStays DEF History
  <2> QED BY <2>1, <2>2, HistoryGrows
<1>3. CASE assembly' = assembly
  BY <1>1, <1>2, <1>3 DEF Assemblies
<1>4. ASSUME NEW r \in Replicas, NEW s, assembly' = [assembly EXCEPT ![r] = s], IsAssembly(s),
             s.received # {} => Restores(s, commits, past)
      PROVE  Assemblies'
  <2>1. /\ assembly' = [q \in Replicas |-> assembly'[q]] /\ assembly'[r] = s
        /\ \A q \in Replicas : q # r => assembly'[q] = assembly[q]
    BY <1>1, <1>4
  <2>2. ASSUME NEW q \in Replicas
        PROVE  /\ IsAssembly(assembly'[q])
               /\ assembly'[q].received # {} => Restores(assembly'[q], commits', past')
    <3>1. CASE q = r
      BY <1>2, <1>4, <2>1, <3>1
    <3>2. CASE q # r
      BY <1>1, <1>2, <2>1, <3>2
    <3> QED BY <3>1, <3>2
  <2> QED BY <2>1, <2>2 DEF Assemblies
<1> QED BY <1>3, <1>4, AssemblyMove

-----------------------------------------------------------------------------
(* The commands.                                                           *)

\* The step issues the commands N: at most one.
Issuing(N) ==
  \/ N = {} /\ issued' = issued
  \/ \E p \in Participants : \E c \in CommandsOf(p) :
       N = {c} /\ issued' = [issued EXCEPT ![p] = @ + 1]

\* No proposal becomes pending.
PendingShrinks ==
  /\ pending' = [r \in Replicas |-> pending'[r]]
  /\ \A r \in Replicas : pending'[r] \subseteq pending[r]

LEMMA PendingSame ==
  ASSUME Commands, pending' = pending
  PROVE  PendingShrinks
BY DEF Commands, PendingShrinks

LEMMA PendingAt ==
  ASSUME Commands, NEW r \in Replicas, NEW Q, Q \subseteq pending[r],
         pending' = [pending EXCEPT ![r] = Q]
  PROVE  PendingShrinks
BY DEF Commands, PendingShrinks

LEMMA StillPendingShrinks ==
  ASSUME Commands, NEW r \in Replicas, NEW entries, NEW n,
         pending' = [pending EXCEPT ![r] = StillPending(r, entries, n)]
  PROVE  PendingShrinks
<1>1. PICK Q : Q = StillPending(r, entries, n)
  OBVIOUS
<1>2. Q \subseteq pending[r]
  BY <1>1 DEF StillPending
<1> QED BY <1>1, <1>2, PendingAt

LEMMA PendingStep ==
  ASSUME Commands, [Next]_vars
  PROVE  \/ \E r \in Replicas : \E c \in CommandsOf(r) :
              /\ pending' = [pending EXCEPT ![r] = @ \cup {c}]
              /\ issued' = [issued EXCEPT ![r] = @ + 1] /\ commits' = commits
         \/ \E c \in CommandsOf(Authority) :
              /\ pending' = pending
              /\ issued' = [issued EXCEPT ![Authority] = @ + 1]
         \/ issued' = issued /\ PendingShrinks
<1>1. CASE AuthorityNext
  <2>1. ASSUME NEW c \in CommandsOf(Authority), ProposeLocally(c)
        PROVE  pending' = pending /\ issued' = [issued EXCEPT ![Authority] = @ + 1]
    BY <2>1 DEF ProposeLocally
  <2>2. SetLocked \/ SetWriters \/ Heartbeat => UNCHANGED <<pending, issued>>
    BY DEF SetLocked, SetWriters, ChangeAccess, Heartbeat, budgetVars
  <2>3. AuthorityLeaves \/ AuthorityReconnected => UNCHANGED <<pending, issued>>
    BY DEF AuthorityLeaves, AuthorityReconnected, budgetVars
  <2> QED BY <1>1, <2>1, <2>2, <2>3, PendingSame DEF AuthorityNext
<1>2. ASSUME NEW r \in Replicas, ReplicaNext(r)
      PROVE  \/ \E c \in CommandsOf(r) :
                  /\ pending' = [pending EXCEPT ![r] = @ \cup {c}]
                  /\ issued' = [issued EXCEPT ![r] = @ + 1] /\ commits' = commits
             \/ issued' = issued /\ PendingShrinks
  <2>1. ASSUME NEW c \in CommandsOf(r), ProposeRemotely(r, c)
        PROVE  /\ pending' = [pending EXCEPT ![r] = @ \cup {c}]
               /\ issued' = [issued EXCEPT ![r] = @ + 1] /\ commits' = commits
    BY <2>1 DEF ProposeRemotely, authorityVars
  <2>2. AuthorityReceives(r) => UNCHANGED <<pending, issued>>
    BY DEF AuthorityReceives, AuthoritySyncs, AuthorityRepeats, AuthorityCommits,
           AuthorityRejects, budgetVars
  <2>3. ReplicaDescriptor(r) \/ ReplicaSnapshot(r) \/ ReplicaHeartbeat(r)
          => UNCHANGED <<pending, issued>>
    BY DEF ReplicaDescriptor, ReplicaSnapshot, ReplicaHeartbeat, budgetVars
  <2>4. Drop(r) \/ Retry(r) \/ AuthoritySilent(r) => UNCHANGED <<pending, issued>>
    BY DEF Drop, Retry, AuthoritySilent, budgetVars
  <2>5. Join(r) \/ PeerLeft(r) \/ ReplicaReconnected(r) => UNCHANGED <<pending, issued>>
    BY DEF Join, PeerLeft, ReplicaReconnected, budgetVars
  <2>6. CASE ReplicaKnowsCommit(r)
    <3>1. /\ issued' = issued
          /\ \E entries, n : pending' = [pending EXCEPT ![r] = StillPending(r, entries, n)]
      BY <2>6 DEF ReplicaKnowsCommit, budgetVars
    <3> QED BY <3>1, StillPendingShrinks
  <2>7. CASE ReplicaCommit(r)
    <3>1. /\ issued' = issued
          /\ \E entries, n : pending' = [pending EXCEPT ![r] = StillPending(r, entries, n)]
      BY <2>7 DEF ReplicaCommit, budgetVars
    <3> QED BY <3>1, StillPendingShrinks
  <2>8. CASE ReplicaDelta(r)
    <3>1. /\ issued' = issued
          /\ \/ pending' = pending
             \/ \E entries, n : pending' = [pending EXCEPT ![r] = StillPending(r, entries, n)]
      BY <2>8 DEF ReplicaDelta, budgetVars
    <3> QED BY <3>1, StillPendingShrinks, PendingSame
  <2>9. CASE ReplicaReject(r)
    <3>1. PICK Q : Q = {c \in pending[r] : c.id # Head(down[r]).id}
      OBVIOUS
    <3>2. issued' = issued /\ pending' = [pending EXCEPT ![r] = Q]
      BY <2>9, <3>1 DEF ReplicaReject, budgetVars
    <3>3. Q \subseteq pending[r]
      BY <3>1
    <3> QED BY <3>2, <3>3, PendingAt
  <2>10. CASE Leave(r)
    <3>1. PICK Q : Q = {}
      OBVIOUS
    <3>2. issued' = issued /\ pending' = [pending EXCEPT ![r] = Q] /\ Q \subseteq pending[r]
      BY <2>10, <3>1 DEF Leave, budgetVars
    <3> QED BY <3>2, PendingAt
  <2> QED BY <1>2, <2>1, <2>2, <2>3, <2>4, <2>5, <2>6, <2>7, <2>8, <2>9, <2>10, PendingSame
          DEF ReplicaNext, ReplicaReceives
<1>3. ASSUME NEW p \in Participants, Interrupted(p) PROVE UNCHANGED <<pending, issued>>
  BY <1>3 DEF Interrupted
<1>4. CASE vars' = vars
  BY <1>4, PendingSame DEF vars, budgetVars
<1> QED BY <1>1, <1>2, <1>3, <1>4, PendingSame DEF Next

\* What is in play was in play or is new.
LEMMA PlayStep ==
  ASSUME Boards, History, Following, Messages, Commands, HistoryMove, [Next]_vars
  PROVE  \E N : /\ Issuing(N)
                /\ pending' = [r \in Replicas |-> pending'[r]]
                /\ \A r \in Replicas : IsFiniteSet(pending'[r])
                /\ \A c : InPlay(c, pending', up', commits') =>
                            InPlay(c, pending, up, commits) \/ c \in N
<1>1. UpMoves
  BY UpStep
<1>2. \A r \in Replicas : IsFiniteSet(pending[r])
  BY DEF Commands
<1>3. Authority \in Participants /\ \A r \in Replicas : r \in Participants
  BY FollowingFacts
<1>4. issued \in [Participants -> Nat] /\ pending = [r \in Replicas |-> pending[r]]
  BY DEF Commands
<1>5. ASSUME NEW N,
             \A r \in Replicas : \A c \in pending'[r] : c \in pending[r] \/ c \in N,
             \A e \in Range(commits') :
               \/ e \in Range(commits) \/ e.control
               \/ InPlay(e.command, pending, up, commits) \/ e.command \in N,
             NEW c, InPlay(c, pending', up', commits')
      PROVE  InPlay(c, pending, up, commits) \/ c \in N
  <2>1. ASSUME NEW r \in Replicas, c \in pending'[r]
        PROVE  InPlay(c, pending, up, commits) \/ c \in N
    BY <1>5, <2>1, PendingInPlay
  <2>2. ASSUME NEW r \in Replicas, NEW m \in Range(up'[r]), m.kind = "Propose", c = m.command
        PROVE  InPlay(c, pending, up, commits) \/ c \in N
    <3>1. m \in Range(up[r]) \/ c \in pending'[r]
      BY <1>1, <2>2 DEF UpMoves, UpMove
    <3> QED BY <2>1, <2>2, <3>1, ProposedInPlay
  <2>3. ASSUME NEW e \in Range(commits'), ~e.control, c = e.command
        PROVE  InPlay(c, pending, up, commits) \/ c \in N
    BY <1>5, <2>3, CommittedInPlay
  <2> QED BY <1>5, <2>1, <2>2, <2>3 DEF InPlay
<1>6. ASSUME NEW e, Committing(e)
      PROVE  \A x \in Range(commits') : x \in Range(commits) \/ x = e
  <2>1. commits' = Append(commits, e)
    BY <1>6 DEF Committing, CommitEntry
  <2>2. Range(Append(commits, e)) \subseteq Range(commits) \cup {e}
    BY SequenceAppend DEF History, IsHistory
  <2> QED BY <2>1, <2>2
<1>7. ASSUME NEW r \in Replicas, NEW c \in CommandsOf(r),
             pending' = [pending EXCEPT ![r] = @ \cup {c}],
             issued' = [issued EXCEPT ![r] = @ + 1], commits' = commits
      PROVE  \E N : /\ Issuing(N)
                    /\ pending' = [q \in Replicas |-> pending'[q]]
                    /\ \A q \in Replicas : IsFiniteSet(pending'[q])
                    /\ \A d : InPlay(d, pending', up', commits') =>
                                InPlay(d, pending, up, commits) \/ d \in N
  <2>1. PICK N : N = {c}
    OBVIOUS
  <2>2. Issuing(N)
    BY <1>3, <1>7, <2>1 DEF Issuing
  <2>3. /\ pending' = [q \in Replicas |-> pending'[q]]
        /\ pending'[r] = pending[r] \cup {c}
        /\ \A q \in Replicas : q # r => pending'[q] = pending[q]
    BY <1>4, <1>7
  <2>4. \A q \in Replicas : IsFiniteSet(pending'[q])
    BY <1>2, <2>3, FS_AddElement
  <2>5. \A q \in Replicas : \A d \in pending'[q] : d \in pending[q] \/ d \in N
    BY <2>1, <2>3
  <2>6. \A e \in Range(commits') : e \in Range(commits)
    BY <1>7
  <2> QED BY <1>5, <2>2, <2>3, <2>4, <2>5, <2>6
<1>8. ASSUME NEW N, Issuing(N), PendingShrinks,
             \A e : Committing(e) /\ ~e.control =>
               InPlay(e.command, pending, up, commits) \/ e.command \in N
      PROVE  \E M : /\ Issuing(M)
                    /\ pending' = [q \in Replicas |-> pending'[q]]
                    /\ \A q \in Replicas : IsFiniteSet(pending'[q])
                    /\ \A d : InPlay(d, pending', up', commits') =>
                                InPlay(d, pending, up, commits) \/ d \in M
  <2>1. pending' = [q \in Replicas |-> pending'[q]] /\ \A q \in Replicas : pending'[q] \subseteq pending[q]
    BY <1>8 DEF PendingShrinks
  <2>2. \A q \in Replicas : IsFiniteSet(pending'[q])
    BY <1>2, <2>1, FS_Subset
  <2>3. \A q \in Replicas : \A d \in pending'[q] : d \in pending[q] \/ d \in N
    BY <2>1
  <2>4. \A e \in Range(commits') :
           \/ e \in Range(commits) \/ e.control
           \/ InPlay(e.command, pending, up, commits) \/ e.command \in N
    BY <1>6, <1>8 DEF HistoryMove
  <2> QED BY <1>5, <1>8, <2>1, <2>2, <2>3, <2>4
<1>9. ASSUME NEW c \in CommandsOf(Authority), pending' = pending,
             issued' = [issued EXCEPT ![Authority] = @ + 1]
      PROVE  \E N : /\ Issuing(N) /\ PendingShrinks
                    /\ \A e : Committing(e) /\ ~e.control =>
                         InPlay(e.command, pending, up, commits) \/ e.command \in N
  <2>1. PendingShrinks
    BY <1>9, PendingSame
  <2>2. CASE \E e : Committing(e) /\ ~e.control /\ e.command \in CommandsOf(Authority)
    <3>1. PICK e : Committing(e) /\ ~e.control /\ e.command \in CommandsOf(Authority)
      BY <2>2
    <3>2. PICK N : N = {e.command}
      OBVIOUS
    <3>3. Issuing(N)
      BY <1>3, <1>9, <3>1, <3>2 DEF Issuing
    <3>4. ASSUME NEW f, Committing(f) PROVE f = e
      <4>1. Append(commits, e) = Append(commits, f)
        BY <3>1, <3>4 DEF Committing, CommitEntry
      <4>2. Append(commits, e)[Len(commits) + 1] = e /\ Append(commits, f)[Len(commits) + 1] = f
        BY SequenceAppend DEF History, IsHistory
      <4> QED BY <4>1, <4>2
    <3> QED BY <2>1, <3>2, <3>3, <3>4
  <2>3. CASE ~\E e : Committing(e) /\ ~e.control /\ e.command \in CommandsOf(Authority)
    <3>1. PICK N : N = {c}
      OBVIOUS
    <3>2. Issuing(N)
      BY <1>3, <1>9, <3>1 DEF Issuing
    <3>3. \A e : Committing(e) /\ ~e.control => InPlay(e.command, pending, up, commits)
      BY <2>3 DEF Committing
    <3> QED BY <2>1, <3>2, <3>3
  <2> QED BY <2>2, <2>3
<1>10. ASSUME issued' = issued, PendingShrinks
       PROVE  \E N : /\ Issuing(N) /\ PendingShrinks
                     /\ \A e : Committing(e) /\ ~e.control =>
                          InPlay(e.command, pending, up, commits) \/ e.command \in N
  <2>1. PICK N : N = {}
    OBVIOUS
  <2>2. Issuing(N)
    BY <1>10, <2>1 DEF Issuing
  <2>3. issued' # [issued EXCEPT ![Authority] = @ + 1]
    <3>1. PICK k : k = issued[Authority]
      OBVIOUS
    <3>2. k \in Nat /\ k # k + 1
      BY <1>3, <1>4, <3>1
    <3>3. [issued EXCEPT ![Authority] = @ + 1][Authority] = k + 1
      BY <1>3, <1>4, <3>1
    <3> QED BY <1>10, <3>1, <3>2, <3>3
  <2>4. \A e : Committing(e) /\ ~e.control => InPlay(e.command, pending, up, commits)
    BY <2>3 DEF Committing
  <2> QED BY <1>10, <2>2, <2>4
<1> QED BY <1>7, <1>8, <1>9, <1>10, PendingStep

LEMMA CommandStays ==
  ASSUME Boards, History, Following, HistoryMove, NEW N, Issuing(N),
         issued \in [Participants -> Nat], NEW c, CommandOK(c, issued, past)
  PROVE  CommandOK(c, issued', past')
<1>1. PICK n : n = c.builtAt
  OBVIOUS
<1>2. /\ n \in 0 .. Len(past) - 1 /\ c.context.interactionEpoch = past[n + 1].content.interactionEpoch
      /\ c.kind \in CommandKinds
      /\ \E p \in Participants : \E k \in 1 .. issued[p] : c.id = <<p, k>>
  BY <1>1 DEF CommandOK
<1>3. n \in 0 .. Len(past') - 1 /\ past'[n + 1] = past[n + 1]
  <2>1. CASE UNCHANGED past
    BY <1>2, <2>1
  <2>2. ASSUME NEW y, past' = Append(past, y) PROVE n \in 0 .. Len(past') - 1 /\ past'[n + 1] = past[n + 1]
    <3>1. Len(past) \in Nat
      BY SequenceIsFunction DEF History, IsHistory
    <3>2. /\ Len(Append(past, y)) = Len(past) + 1
          /\ \A i \in 1 .. Len(past) : Append(past, y)[i] = past[i]
      BY SequenceAppend DEF History, IsHistory
    <3> QED BY <1>2, <2>2, <3>1, <3>2
  <2> QED BY <2>1, <2>2, HistoryGrows
<1>4. \A p \in Participants : issued[p] \in Nat /\ issued'[p] \in {issued[p], issued[p] + 1}
  BY DEF Issuing
<1>5. \E p \in Participants : \E k \in 1 .. issued'[p] : c.id = <<p, k>>
  <2>1. PICK p \in Participants : \E j \in 1 .. issued[p] : c.id = <<p, j>>
    BY <1>2
  <2>2. PICK k \in 1 .. issued[p] : c.id = <<p, k>>
    BY <2>1
  <2>3. k \in 1 .. issued'[p]
    BY <1>4
  <2> QED BY <2>2, <2>3
<1> QED BY <1>1, <1>2, <1>3, <1>5 DEF CommandOK

LEMMA IssuedOK ==
  ASSUME Boards, History, Following, HistoryMove, Commands,
         NEW p \in Participants, NEW c \in CommandsOf(p),
         issued' = [issued EXCEPT ![p] = @ + 1]
  PROVE  /\ CommandOK(c, issued', past') /\ c.id = <<p, issued[p] + 1>>
         /\ issued' \in [Participants -> Nat]
<1>1. PICK n, k : n = Sequence(p) /\ k = issued[p] + 1
  OBVIOUS
<1>2. /\ c.kind \in CommandKinds /\ c.id = <<p, k>>
      /\ c.builtAt = n /\ c.context = Context(Doc(p))
  BY <1>1, CommandsOfShape
<1>3. n \in 0 .. Len(commits) /\ Shown(board[p]) = past[n + 1] /\ Len(commits) \in Nat
  BY <1>1, FollowingFacts
<1>4. Len(past) = Len(commits) + 1
  BY DEF History, IsHistory
<1>5. n \in 0 .. Len(past) - 1
  BY <1>1, <1>3, <1>4
<1>6. c.context.interactionEpoch = past[n + 1].content.interactionEpoch
  <2>1. c.context.interactionEpoch = Doc(p).interactionEpoch
    BY <1>2 DEF Context
  <2>2. Shown(board[p]).content.interactionEpoch = Doc(p).interactionEpoch
    BY DEF Shown, Content, Doc
  <2> QED BY <1>3, <2>1, <2>2
<1>7. n \in 0 .. Len(past') - 1 /\ past'[n + 1] = past[n + 1]
  <2>1. CASE UNCHANGED past
    BY <1>5, <2>1
  <2>2. ASSUME NEW y, past' = Append(past, y) PROVE n \in 0 .. Len(past') - 1 /\ past'[n + 1] = past[n + 1]
    <3>1. Len(past) \in Nat
      BY SequenceIsFunction DEF History, IsHistory
    <3>2. /\ Len(Append(past, y)) = Len(past) + 1
          /\ \A i \in 1 .. Len(past) : Append(past, y)[i] = past[i]
      BY SequenceAppend DEF History, IsHistory
    <3> QED BY <1>5, <2>2, <3>1, <3>2
  <2> QED BY <2>1, <2>2, HistoryGrows
<1>8. issued \in [Participants -> Nat]
  BY DEF Commands
<1>9. issued' \in [Participants -> Nat] /\ issued'[p] = k /\ k \in 1 .. k
  BY <1>1, <1>8
<1>10. \E q \in Participants : \E j \in 1 .. issued'[q] : c.id = <<q, j>>
  BY <1>2, <1>9
<1> QED BY <1>1, <1>2, <1>6, <1>7, <1>9, <1>10 DEF CommandOK

LEMMA CommandsStep ==
  ASSUME Boards, History, Following, Messages, Commands, HistoryMove, [Next]_vars
  PROVE  Commands'
<1>1. PICK N : /\ Issuing(N)
               /\ pending' = [r \in Replicas |-> pending'[r]]
               /\ \A r \in Replicas : IsFiniteSet(pending'[r])
               /\ \A c : InPlay(c, pending', up', commits') =>
                           InPlay(c, pending, up, commits) \/ c \in N
  BY PlayStep
<1>2. /\ issued \in [Participants -> Nat]
      /\ \A c : InPlay(c, pending, up, commits) => CommandOK(c, issued, past)
      /\ \A c, d : InPlay(c, pending, up, commits) /\ InPlay(d, pending, up, commits)
                     /\ c.id = d.id => c = d
  BY DEF Commands
<1>3. \A c : CommandOK(c, issued, past) => CommandOK(c, issued', past')
  BY <1>1, <1>2, CommandStays
<1>4. CASE N = {}
  <2>1. issued' = issued
    BY <1>1, <1>4 DEF Issuing
  <2> QED BY <1>1, <1>2, <1>3, <1>4, <2>1 DEF Commands
<1>5. ASSUME NEW p \in Participants, NEW x \in CommandsOf(p), N = {x},
             issued' = [issued EXCEPT ![p] = @ + 1]
      PROVE  Commands'
  <2>1. /\ CommandOK(x, issued', past') /\ x.id = <<p, issued[p] + 1>>
        /\ issued' \in [Participants -> Nat]
    BY <1>5, IssuedOK
  <2>2. ASSUME NEW c, CommandOK(c, issued, past) PROVE c.id # x.id
    <3>0. PICK q \in Participants : \E j \in 1 .. issued[q] : c.id = <<q, j>>
      BY <2>2 DEF CommandOK
    <3>1. PICK k \in 1 .. issued[q] : c.id = <<q, k>>
      BY <3>0
    <3>2. q = p => k # issued[p] + 1
      BY <1>2
    <3> QED BY <2>1, <3>1, <3>2
  <2>3. \A c : InPlay(c, pending', up', commits') => InPlay(c, pending, up, commits) \/ c = x
    BY <1>1, <1>5
  <2>4. \A c : InPlay(c, pending', up', commits') => CommandOK(c, issued', past')
    BY <1>2, <1>3, <2>1, <2>3
  <2>5. \A c, d : InPlay(c, pending', up', commits') /\ InPlay(d, pending', up', commits')
                    /\ c.id = d.id => c = d
    BY <1>2, <2>2, <2>3
  <2> QED BY <1>1, <2>1, <2>4, <2>5 DEF Commands
<1> QED BY <1>1, <1>4, <1>5 DEF Issuing

-----------------------------------------------------------------------------
(* Settings: the rest of the type.                                         *)

States == {"synchronizing", "ready", "readonly", "frozen", "retired"}

Settings ==
  state \in [Participants -> States] /\ transport \in [Participants -> BOOLEAN]

LEMMA SettingsStep ==
  ASSUME Settings, [Next]_vars
  PROVE  Settings'
<1> USE DEF Settings
<1>1. CASE AuthorityNext
  <2>1. ASSUME NEW c, ProposeLocally(c) PROVE UNCHANGED <<state, transport>>
    BY <2>1 DEF ProposeLocally
  <2>2. SetLocked \/ SetWriters \/ Heartbeat => UNCHANGED <<state, transport>>
    BY DEF SetLocked, SetWriters, ChangeAccess, Heartbeat
  <2>3. CASE AuthorityLeaves
    BY <2>3 DEF AuthorityLeaves, States
  <2>4. CASE AuthorityReconnected
    BY <2>4 DEF AuthorityReconnected, States
  <2> QED BY <1>1, <2>1, <2>2, <2>3, <2>4 DEF AuthorityNext
<1>2. ASSUME NEW r \in Replicas, ReplicaNext(r) PROVE Settings'
  <2>0. ASSUME NEW s, s \in States, state' = [state EXCEPT ![r] = s], UNCHANGED transport
        PROVE  Settings'
    BY <2>0
  <2>1. ASSUME NEW c, ProposeRemotely(r, c) PROVE Settings'
    BY <2>1 DEF ProposeRemotely, States
  <2>2. AuthorityReceives(r) => UNCHANGED <<state, transport>>
    BY DEF AuthorityReceives, AuthoritySyncs, AuthorityRepeats, AuthorityCommits,
           AuthorityRejects
  <2>3. CASE ReplicaReceives(r)
    <3>1. ReplicaDescriptor(r) => Settings'
      BY <2>0 DEF ReplicaDescriptor, IsReady, RequestSync, States
    <3>2. ReplicaCommit(r) => Settings'
      BY <2>0 DEF ReplicaCommit, IsReady, RequestSync, States
    <3>3. ReplicaDelta(r) => Settings'
      BY <2>0 DEF ReplicaDelta, IsReady, RequestSync, States
    <3>4. ReplicaSnapshot(r) => Settings'
      BY <2>0 DEF ReplicaSnapshot, States
    <3>5. ReplicaHeartbeat(r) => Settings'
      BY <2>0 DEF ReplicaHeartbeat, RequestSync, States
    <3>6. ReplicaKnowsCommit(r) \/ ReplicaReject(r) => UNCHANGED <<state, transport>>
      BY DEF ReplicaKnowsCommit, ReplicaReject
    <3> QED BY <2>3, <3>1, <3>2, <3>3, <3>4, <3>5, <3>6 DEF ReplicaReceives
  <2>4. CASE Retry(r)
    BY <2>0, <2>4 DEF Retry, RequestSync, States
  <2>5. CASE AuthoritySilent(r) \/ Join(r) \/ PeerLeft(r)
    BY <2>0, <2>5 DEF AuthoritySilent, Join, PeerLeft, States
  <2>6. CASE Leave(r) \/ ReplicaReconnected(r)
    BY <2>6 DEF Leave, ReplicaReconnected, States
  <2>7. Drop(r) => UNCHANGED <<state, transport>>
    BY DEF Drop
  <2> QED BY <1>2, <2>1, <2>2, <2>3, <2>4, <2>5, <2>6, <2>7 DEF ReplicaNext
<1>3. ASSUME NEW p \in Participants, Interrupted(p) PROVE Settings'
  BY <1>3 DEF Interrupted, States
<1>4. CASE vars' = vars
  BY <1>4 DEF vars
<1> QED BY <1>1, <1>2, <1>3, <1>4 DEF Next

-----------------------------------------------------------------------------
(* The inductive invariant and the theorems.                               *)

IInv ==
  /\ Boards /\ History /\ Following /\ Logs /\ Messages /\ Assemblies
  /\ Commands /\ Settings

LEMMA InitIInv == Init => IInv
<1> SUFFICES ASSUME Init PROVE IInv
  OBVIOUS
<1>1. PICK b, y : b = NewBoard /\ y = Shown(NewBoard)
  OBVIOUS
<1>2. /\ board = [p \in Participants |-> b] /\ commits = <<>> /\ past = <<y>>
      /\ log = <<>> /\ proposals = <<>>
      /\ pending = [r \in Replicas |-> {}]
      /\ assembly = [r \in Replicas |-> NoAssembly]
      /\ up = [r \in Replicas |-> <<>>] /\ down = [r \in Replicas |-> <<>>]
      /\ issued = [p \in Participants |-> 0]
  BY <1>1 DEF Init
<1>3. /\ IsBoard(b) /\ b.sequence = 0 /\ IsDocument(b.doc)
      /\ Authority \in Participants /\ \A r \in Replicas : r \in Participants
  BY <1>1, NewBoardShape DEF Participants, IsBoard
<1>4. Boards
  BY <1>2, <1>3 DEF Boards
<1>5. History /\ Len(commits) = 0 /\ past[1] = y
  BY <1>2, EmptySequence, SingleSequence DEF History, IsHistory
<1>6. Following
  <2>1. PICK B : B = [n \in {0} |-> b]
    OBVIOUS
  <2>2. B[0] = b /\ \A n \in 0 .. 0 : n = 0
    BY <2>1
  <2>3. 0 .. 0 - 1 = {}
    OBVIOUS
  <2>4. IsChain(B, commits, past)
    BY <1>1, <1>3, <1>5, <2>2, <2>3 DEF IsChain
  <2>5. Follows(b.doc, b.doc)
    BY <1>3, FollowsItself
  <2>6. \A p \in Participants : board[p] = b
    BY <1>2
  <2>7. \A r \in Replicas : Tracks(board[r], B, 0)
    BY <1>3, <2>2, <2>5, <2>6 DEF Tracks
  <2> QED BY <1>3, <1>5, <2>2, <2>4, <2>6, <2>7 DEF Following
<1>7. Logs
  BY <1>2, EmptySequence, BoardAssumption DEF Logs, EntriesOK
<1>8. Messages
  <2>1. \A r \in Replicas : up[r] = <<>> /\ down[r] = <<>>
    BY <1>2
  <2>2. up = [r \in Replicas |-> up[r]] /\ down = [r \in Replicas |-> down[r]]
    BY <1>2
  <2> QED BY <2>1, <2>2, EmptyLink DEF Messages
<1>9. Assemblies
  <2>1. IsAssembly(NoAssembly) /\ NoAssembly.received = {}
    BY DEF IsAssembly, NoAssembly
  <2>2. \A r \in Replicas : assembly[r] = NoAssembly
    BY <1>2
  <2>3. assembly = [r \in Replicas |-> assembly[r]]
    BY <1>2
  <2> QED BY <2>1, <2>2, <2>3 DEF Assemblies
<1>10. Commands
  <2>1. \A r \in Replicas : pending[r] = {} /\ up[r] = <<>>
    BY <1>2
  <2>2. \A c : ~InPlay(c, pending, up, commits)
    BY <1>2, <2>1, EmptySequence DEF InPlay
  <2>3. pending = [r \in Replicas |-> pending[r]] /\ \A r \in Replicas : IsFiniteSet(pending[r])
    BY <1>2, <2>1, FS_EmptySet
  <2>4. issued \in [Participants -> Nat]
    BY <1>2
  <2> QED BY <2>2, <2>3, <2>4 DEF Commands
<1>11. Settings
  BY DEF Init, Settings, States
<1> QED BY <1>4, <1>5, <1>6, <1>7, <1>8, <1>9, <1>10, <1>11 DEF IInv

LEMMA IInvStep == IInv /\ [Next]_vars => IInv'
<1> SUFFICES ASSUME IInv, [Next]_vars PROVE IInv'
  OBVIOUS
<1>1. /\ Boards /\ History /\ Following /\ Logs /\ Messages /\ Assemblies
      /\ Commands /\ Settings
  BY DEF IInv
<1>2. Boards' /\ History' /\ Following' /\ Logs' /\ HistoryMove
  BY <1>1, BoardsStep
<1>3. Messages'
  BY <1>1, <1>2, MessagesStep
<1>4. Assemblies'
  BY <1>1, <1>2, AssembliesStep
<1>5. Commands'
  BY <1>1, <1>2, CommandsStep
<1>6. Settings'
  BY <1>1, SettingsStep
<1> QED BY <1>2, <1>3, <1>4, <1>5, <1>6 DEF IInv

\* The inductive invariant: the authority's board is its commits replayed, and
\* every replica is one of its earlier boards with less history (Following);
\* log, messages and snapshots tell what was committed; every command in play
\* was built in the interaction its context names, and an id names one command.
THEOREM BoardInvariant == Spec => []IInv
BY InitIInv, IInvStep, PTL DEF Spec

\* The interaction epoch of the n-th board of the authority.
EpochAt(B, n) == B[n].doc.interactionEpoch

LEMMA EpochSteps ==
  ASSUME NEW B, NEW C, NEW P, IsHistory(C, P), IsChain(B, C, P), NEW n \in 0 .. Len(C) - 1,
         NEW e, e = C[n + 1]
  PROVE  /\ EpochAt(B, n) \in Nat
         /\ EpochAt(B, n + 1) = IF IsBarrier(e) THEN EpochAt(B, n) + 1 ELSE EpochAt(B, n)
         /\ ~e.control => /\ e.command.context.interactionEpoch = EpochAt(B, n)
                          /\ e.command.id \notin B[n].doc.accepted
         /\ ~IsBarrier(e) => B[n + 1].doc.accepted = B[n].doc.accepted \cup {e.command.id}
<1>1. PICK b, x : b = B[n] /\ x = B[n + 1]
  OBVIOUS
<1>2. n \in 0 .. Len(C)
  BY SequenceIsFunction DEF IsHistory
<1>3. IsBoard(b) /\ Extends(b, e) /\ x = After(b, e)
  BY <1>1, <1>2 DEF IsChain
<1>4. IsDocument(b.doc) /\ b.doc.interactionEpoch \in Nat
  BY <1>3 DEF IsBoard, IsDocument
<1>5. EpochAt(B, n) = b.doc.interactionEpoch /\ EpochAt(B, n + 1) = x.doc.interactionEpoch
  BY <1>1 DEF EpochAt
<1>6. CASE e.control
  <2>1. IsBarrier(e) /\ x.doc = AdvanceInteraction(b.doc)
    BY <1>3, <1>6, AfterShape DEF IsBarrier
  <2>2. x.doc.interactionEpoch = b.doc.interactionEpoch + 1
    BY <1>4, <2>1, AdvanceShape
  <2> QED BY <1>4, <1>5, <1>6, <2>1, <2>2
<1>7. CASE ~e.control
  <2>1. PICK c, d, D : c = e.command /\ d = b.doc /\ D = x.doc
    OBVIOUS
  <2>2. D = Apply(d, c).doc /\ c.kind \in CommandKinds /\ Apply(d, c).status = "Applied"
    BY <1>3, <1>7, <2>1, AfterShape DEF Extends
  <2>3. IsBarrier(e) <=> c.kind \in BarrierKinds
    BY <1>7, <2>1 DEF IsBarrier, BarrierKinds
  <2>4. IsDocument(d)
    BY <1>4, <2>1
  <2>5. /\ c.kind \in BarrierKinds => D.interactionEpoch = d.interactionEpoch + 1
        /\ c.kind \notin BarrierKinds =>
             D.interactionEpoch = d.interactionEpoch /\ D.accepted = d.accepted \cup {c.id}
    BY SMTT(30), <2>2, <2>4, ApplyShape
  <2>6. c.context = Context(d) /\ c.id \notin d.accepted
    BY <2>2, ApplyResult
  <2>7. c.context.interactionEpoch = d.interactionEpoch
    BY <2>6 DEF Context
  <2> QED BY <1>1, <1>4, <1>5, <2>1, <2>3, <2>5, <2>6, <2>7
<1> QED BY <1>6, <1>7

LEMMA EpochsGrow ==
  ASSUME NEW B, NEW C, NEW P, IsHistory(C, P), IsChain(B, C, P),
         NEW i \in 0 .. Len(C), NEW j \in 0 .. Len(C), i <= j
  PROVE  EpochAt(B, i) \in Nat /\ EpochAt(B, j) \in Nat /\ EpochAt(B, i) <= EpochAt(B, j)
<1>1. PICK N : N = Len(C)
  OBVIOUS
<1>2. N \in Nat
  BY <1>1, SequenceIsFunction DEF IsHistory
<1>3. \A n \in 0 .. N : EpochAt(B, n) \in Nat
  BY <1>1 DEF IsChain, IsBoard, IsDocument, EpochAt
<1>4. \A n \in 0 .. N - 1 : EpochAt(B, n) <= EpochAt(B, n + 1)
  <2>1. ASSUME NEW n \in 0 .. N - 1 PROVE EpochAt(B, n) <= EpochAt(B, n + 1)
    <3>1. PICK e : e = C[n + 1]
      OBVIOUS
    <3>2. EpochAt(B, n + 1) = IF IsBarrier(e) THEN EpochAt(B, n) + 1 ELSE EpochAt(B, n)
      BY <1>1, <3>1, EpochSteps
    <3>3. EpochAt(B, n) \in Nat
      BY <1>2, <1>3
    <3> QED BY <3>2, <3>3
  <2> QED BY <2>1
<1>5. PICK f : f = [n \in 0 .. N |-> EpochAt(B, n)]
  OBVIOUS
<1>6. /\ \A n \in 0 .. N : f[n] = EpochAt(B, n) /\ f[n] \in Nat
      /\ \A n \in 0 .. N - 1 : f[n] <= f[n + 1]
  BY <1>2, <1>3, <1>4, <1>5
<1>7. PICK T : T = {k \in Nat : i + k <= N => f[i] <= f[i + k]}
  OBVIOUS
<1>8. \A k \in Nat : k \in T
  <2>1. 0 \in T
    BY <1>1, <1>2, <1>6, <1>7
  <2>2. ASSUME NEW k \in Nat, k \in T PROVE k + 1 \in T
    <3>1. SUFFICES ASSUME i + (k + 1) <= N PROVE f[i] <= f[i + (k + 1)]
      BY <1>7
    <3>2. /\ i + k \in 0 .. N - 1 /\ i + k + 1 = i + (k + 1) /\ i + k <= N
          /\ i \in 0 .. N /\ i + k \in 0 .. N /\ i + (k + 1) \in 0 .. N
      BY <1>1, <1>2, <3>1
    <3>3. f[i] <= f[i + k]
      BY <1>7, <2>2, <3>2
    <3>4. f[i + k] <= f[i + (k + 1)]
      BY <1>6, <3>2
    <3>5. f[i] \in Nat /\ f[i + k] \in Nat /\ f[i + (k + 1)] \in Nat
      BY <1>6, <3>2
    <3> QED BY <3>3, <3>4, <3>5
  <2> QED BY <2>1, <2>2, SetInduction
<1>9. j - i \in Nat /\ i + (j - i) = j /\ j <= N
  BY <1>1, <1>2
<1>10. f[i] <= f[j]
  BY <1>7, <1>8, <1>9
<1> QED BY <1>1, <1>6, <1>10

\* A command was built when the interaction was the one it is committed in.
LEMMA CommittedCommand ==
  ASSUME Boards, History, Following, Commands,
         NEW B, IsChain(B, commits, past), NEW n \in DOMAIN commits, ~commits[n].control,
         NEW c, c = commits[n].command
  PROVE  /\ InPlay(c, pending, up, commits) /\ n \in 1 .. Len(commits) /\ Len(commits) \in Nat
         /\ c.builtAt \in 0 .. Len(commits)
         /\ EpochAt(B, c.builtAt) = EpochAt(B, n - 1)
         /\ c.context.interactionEpoch = EpochAt(B, n - 1)
         /\ c.id \notin B[n - 1].doc.accepted
<1>1. PICK e, k : e = commits[n] /\ k = c.builtAt
  OBVIOUS
<1>2. /\ n \in 1 .. Len(commits) /\ Len(commits) \in Nat /\ e \in Range(commits)
      /\ Len(past) = Len(commits) + 1
  BY <1>1, SequenceIsFunction DEF History, IsHistory
<1>3. InPlay(c, pending, up, commits)
  BY <1>1, <1>2, CommittedInPlay
<1>4. k \in 0 .. Len(past) - 1 /\ c.context.interactionEpoch = past[k + 1].content.interactionEpoch
  BY <1>1, <1>3 DEF Commands, CommandOK
<1>5. n - 1 \in 0 .. Len(commits) - 1 /\ n - 1 + 1 = n
  BY <1>2
<1>6. PICK m : m = n - 1
  OBVIOUS
<1>7. c.context.interactionEpoch = EpochAt(B, m) /\ c.id \notin B[m].doc.accepted
  <2>1. m \in 0 .. Len(commits) - 1 /\ e = commits[m + 1] /\ IsHistory(commits, past)
    BY <1>1, <1>5, <1>6 DEF History
  <2>2. ~e.control /\ c = e.command
    BY <1>1
  <2> QED BY <2>1, <2>2, EpochSteps
<1>8. k \in 0 .. Len(commits)
  BY <1>2, <1>4
<1>9. past[k + 1].content.interactionEpoch = EpochAt(B, k)
  <2>1. PICK b : b = B[k]
    OBVIOUS
  <2>2. past[k + 1] = Shown(b)
    BY <1>8, <2>1 DEF IsChain
  <2>3. Shown(b).content.interactionEpoch = b.doc.interactionEpoch
    BY DEF Shown, Content
  <2> QED BY <2>1, <2>2, <2>3 DEF EpochAt
<1> QED BY <1>1, <1>2, <1>3, <1>4, <1>6, <1>7, <1>8, <1>9

\* A proposal is committed at most once.
LEMMA IInvCommittedOnce == IInv => CommittedOnce
<1> SUFFICES ASSUME IInv PROVE CommittedOnce
  OBVIOUS
<1>1. Boards /\ History /\ Following /\ Commands
  BY DEF IInv
<1>2. PICK B : IsChain(B, commits, past)
  BY <1>1 DEF Following
<1>3. IsHistory(commits, past)
  BY <1>1 DEF History
<1>4. ASSUME NEW m \in DOMAIN commits, NEW n \in DOMAIN commits, m < n,
             ~commits[m].control, ~commits[n].control,
             commits[m].command.id = commits[n].command.id
      PROVE  FALSE
  <2>1. PICK c, d : c = commits[m].command /\ d = commits[n].command
    OBVIOUS
  <2>2. /\ InPlay(c, pending, up, commits) /\ m \in 1 .. Len(commits)
        /\ c.context.interactionEpoch = EpochAt(B, m - 1)
    BY <1>1, <1>2, <1>4, <2>1, CommittedCommand
  <2>3. /\ InPlay(d, pending, up, commits) /\ n \in 1 .. Len(commits)
        /\ Len(commits) \in Nat
        /\ d.context.interactionEpoch = EpochAt(B, n - 1)
        /\ d.id \notin B[n - 1].doc.accepted
    BY <1>1, <1>2, <1>4, <2>1, CommittedCommand
  <2>4. c = d
    BY <1>1, <1>4, <2>1, <2>2, <2>3 DEF Commands
  <2>5. EpochAt(B, m - 1) = EpochAt(B, n - 1)
    BY <2>2, <2>3, <2>4
  <2>6. ASSUME NEW i \in m - 1 .. n - 1 PROVE EpochAt(B, i) = EpochAt(B, m - 1)
    <3>1. PICK a, z : a = m - 1 /\ z = n - 1
      OBVIOUS
    <3>2. /\ a \in 0 .. Len(commits) /\ z \in 0 .. Len(commits) /\ i \in 0 .. Len(commits)
          /\ a <= i /\ i <= z
      BY <2>2, <2>3, <3>1
    <3>3. EpochAt(B, a) \in Nat /\ EpochAt(B, i) \in Nat /\ EpochAt(B, a) <= EpochAt(B, i)
      BY <1>2, <1>3, <3>2, EpochsGrow
    <3>4. EpochAt(B, i) <= EpochAt(B, z)
      BY <1>2, <1>3, <3>2, EpochsGrow
    <3> QED BY <2>5, <3>1, <3>3, <3>4
  <2>7. ASSUME NEW i \in m - 1 .. n - 2, NEW e, e = commits[i + 1]
        PROVE  B[i + 1].doc.accepted = B[i].doc.accepted \cup {e.command.id}
    <3>1. /\ i \in 0 .. Len(commits) - 1 /\ i \in m - 1 .. n - 1 /\ i + 1 \in m - 1 .. n - 1
      BY <2>2, <2>3
    <3>2. /\ EpochAt(B, i) \in Nat
          /\ EpochAt(B, i + 1) = IF IsBarrier(e) THEN EpochAt(B, i) + 1 ELSE EpochAt(B, i)
          /\ ~IsBarrier(e) => B[i + 1].doc.accepted = B[i].doc.accepted \cup {e.command.id}
      BY <1>2, <1>3, <2>7, <3>1, EpochSteps
    <3>3. EpochAt(B, i + 1) = EpochAt(B, i)
      BY <2>6, <3>1
    <3> QED BY <3>2, <3>3
  <2>8. PICK T : T = {k \in Nat : m + k <= n - 1 => c.id \in B[m + k].doc.accepted}
    OBVIOUS
  <2>9. \A k \in Nat : k \in T
    <3>1. 0 \in T
      <4>1. SUFFICES ASSUME m <= n - 1 PROVE c.id \in B[m].doc.accepted
        <5>1. m + 0 = m
          BY <2>2
        <5> QED BY <2>8, <5>1
      <4>2. m - 1 \in m - 1 .. n - 2 /\ m - 1 + 1 = m
        BY <2>2, <2>3, <4>1
      <4> QED BY <2>1, <2>7, <4>2
    <3>2. ASSUME NEW k \in Nat, k \in T PROVE k + 1 \in T
      <4>1. SUFFICES ASSUME m + (k + 1) <= n - 1 PROVE c.id \in B[m + (k + 1)].doc.accepted
        BY <2>8
      <4>2. PICK i : i = m + k
        OBVIOUS
      <4>3. i \in m - 1 .. n - 2 /\ i + 1 = m + (k + 1) /\ i <= n - 1
        BY SMTT(30), <2>2, <2>3, <4>1, <4>2
      <4>4. c.id \in B[i].doc.accepted
        BY <2>8, <3>2, <4>2, <4>3
      <4>5. c.id \in B[i + 1].doc.accepted
        BY <2>7, <4>3, <4>4
      <4> QED BY <4>3, <4>5
    <3> QED BY <3>1, <3>2, SetInduction
  <2>10. n - 1 - m \in Nat /\ m + (n - 1 - m) = n - 1
    BY <1>4, <2>2, <2>3
  <2>11. c.id \in B[n - 1].doc.accepted
    <3>1. PICK k : k = n - 1 - m
      OBVIOUS
    <3>2. k \in T /\ m + k = n - 1 /\ m + k <= n - 1
      BY <2>2, <2>3, <2>9, <2>10, <3>1
    <3> QED BY <2>8, <3>2
  <2> QED BY <2>3, <2>4, <2>11
<1>5. \A m, n \in DOMAIN commits : m \in Nat /\ n \in Nat
  BY <1>3, SequenceIsFunction DEF IsHistory
<1> QED BY <1>4, <1>5 DEF CommittedOnce

\* A command never crosses a barrier.
LEMMA IInvBarrierRespected == IInv => BarrierRespected
<1> SUFFICES ASSUME IInv PROVE BarrierRespected
  OBVIOUS
<1>1. Boards /\ History /\ Following /\ Commands
  BY DEF IInv
<1>2. PICK B : IsChain(B, commits, past)
  BY <1>1 DEF Following
<1>3. IsHistory(commits, past)
  BY <1>1 DEF History
<1>4. ASSUME NEW n \in DOMAIN commits, ~commits[n].control, NEW m \in DOMAIN commits,
             commits[n].command.builtAt < m, m < n, IsBarrier(commits[m])
      PROVE  FALSE
  <2>1. PICK c, k, e : c = commits[n].command /\ k = c.builtAt /\ e = commits[m]
    OBVIOUS
  <2>2. /\ n \in 1 .. Len(commits) /\ Len(commits) \in Nat /\ k \in 0 .. Len(commits)
        /\ EpochAt(B, k) = EpochAt(B, n - 1)
    BY <1>1, <1>2, <1>4, <2>1, CommittedCommand
  <2>3. m \in 1 .. Len(commits)
    BY <1>3, SequenceIsFunction DEF IsHistory
  <2>4. PICK a, z : a = m - 1 /\ z = n - 1
    OBVIOUS
  <2>5. /\ a \in 0 .. Len(commits) - 1 /\ a \in 0 .. Len(commits) /\ a + 1 = m
        /\ m \in 0 .. Len(commits) /\ z \in 0 .. Len(commits) /\ k <= a /\ m <= z
    BY <1>4, <2>1, <2>2, <2>3, <2>4
  <2>6. EpochAt(B, m) = EpochAt(B, a) + 1
    BY <1>2, <1>3, <1>4, <2>1, <2>5, EpochSteps
  <2>7. EpochAt(B, k) \in Nat /\ EpochAt(B, a) \in Nat /\ EpochAt(B, k) <= EpochAt(B, a)
    BY <1>2, <1>3, <2>2, <2>5, EpochsGrow
  <2>8. EpochAt(B, m) <= EpochAt(B, z)
    BY <1>2, <1>3, <2>5, EpochsGrow
  <2> QED BY <2>2, <2>4, <2>6, <2>7, <2>8
<1> QED BY <1>4 DEF BarrierRespected

\* Types: every variable stays within what the runtime can hold; the log,
\* the remembered proposals and the links within their bounds.
THEOREM TypeCorrect == Spec => []TypeOK
<1>1. IInv => TypeOK
  <2> SUFFICES ASSUME IInv PROVE TypeOK
    OBVIOUS
  <2>1. \A p \in Participants : board[p].sequence \in Nat
    BY DEF IInv, Boards, IsBoard
  <2>2. Len(past) = Len(commits) + 1
    BY DEF IInv, History, IsHistory
  <2>3. Len(log) <= MaxLogEntries /\ Len(proposals) <= MaxProposals
    BY DEF IInv, Logs
  <2>4. \A r \in Replicas : Len(up[r]) <= MaxBuffered /\ Len(down[r]) <= MaxBuffered
    BY DEF IInv, Messages, IsLink
  <2> QED BY <2>1, <2>2, <2>3, <2>4 DEF IInv, Settings, States, TypeOK
<1> QED BY <1>1, BoardInvariant, PTL

\* Agreement: whatever was lost, repeated or restored from a snapshot, a
\* board at sequence n shows what the authority showed at n.  (applyEntry,
\* receiveSnapshot, the Descriptor case of receive)
THEOREM BoardsAgree == Spec => []Agreement
<1>1. IInv => Agreement
  BY FollowingFacts DEF IInv, Agreement, Sequence
<1> QED BY <1>1, BoardInvariant, PTL

\* A proposal is committed at most once, however often its replica sends it
\* and whatever the authority has forgotten.  (commitProposal)
THEOREM ProposalsCommittedOnce == Spec => []CommittedOnce
BY IInvCommittedOnce, BoardInvariant, PTL

\* Nothing that changes the permissions or the pages comes between the
\* board a command was built on and its commit.  (Document::apply)
THEOREM BarriersRespected == Spec => []BarrierRespected
BY IInvBarrierRespected, BoardInvariant, PTL
=============================================================================
