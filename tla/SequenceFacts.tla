---------------------------- MODULE SequenceFacts ----------------------------
(***************************************************************************)
(* Sequences without repetitions, used as stacks and as queues: what an    *)
(* append, a pop at the end and a pop at the front do to the range and to  *)
(* injectivity.  Sequences of two and three elements, written out.         *)
(***************************************************************************)
EXTENDS Naturals, SequencesExt, SequenceTheorems, TLAPS

\* The range of a sequence, through indices.
LEMMA RangeIndex ==
  ASSUME NEW S, NEW s \in Seq(S)
  PROVE  /\ Len(s) \in Nat /\ DOMAIN s = 1..Len(s)
         /\ \A i \in 1..Len(s) : s[i] \in S /\ s[i] \in Range(s)
         /\ \A x \in Range(s) : x \in S /\ \E i \in 1..Len(s) : x = s[i]
<1>1. Len(s) \in Nat /\ DOMAIN s = 1..Len(s) /\ s \in [1..Len(s) -> S]
  BY LenProperties
<1> QED BY <1>1 DEF Range

\* Appending adds the element to the range and keeps a sequence injective when
\* the element is new.
LEMMA AppendFacts ==
  ASSUME NEW S, NEW s \in Seq(S), NEW x \in S
  PROVE  /\ Append(s, x) \in Seq(S)
         /\ Append(s, x) # <<>>
         /\ Range(Append(s, x)) = Range(s) \cup {x}
         /\ IsInjective(s) /\ x \notin Range(s) => IsInjective(Append(s, x))
<1> DEFINE a == Append(s, x)
<1>1. /\ a \in Seq(S) /\ a # <<>> /\ Len(a) = Len(s) + 1
      /\ \A i \in 1..Len(s) : a[i] = s[i]
      /\ a[Len(s) + 1] = x
  BY AppendProperties
<1>2. /\ Len(s) \in Nat /\ DOMAIN s = 1..Len(s) /\ DOMAIN a = 1..Len(s) + 1
      /\ \A i \in 1..Len(s) : s[i] \in Range(s)
  BY <1>1, RangeIndex
<1>3. \A i \in 1..Len(s) + 1 : i \in 1..Len(s) \/ i = Len(s) + 1
  BY <1>2
<1>4. Range(a) = Range(s) \cup {x}
  <2> HIDE DEF a
  <2>1. Range(a) \subseteq Range(s) \cup {x}
    BY <1>1, <1>2, <1>3 DEF Range
  <2>2. Range(s) \cup {x} \subseteq Range(a)
    BY <1>1, <1>2 DEF Range
  <2> QED BY <2>1, <2>2
<1>5. ASSUME IsInjective(s), x \notin Range(s), NEW i \in DOMAIN a, NEW j \in DOMAIN a, a[i] = a[j]
      PROVE  i = j
  <2> HIDE DEF a
  <2> QED BY <1>1, <1>2, <1>3, <1>5 DEF IsInjective
<1> QED BY <1>1, <1>4, <1>5 DEF IsInjective

\* Popping the last element of an injective sequence removes it from the range.
LEMMA PopFacts ==
  ASSUME NEW S, NEW s \in Seq(S), s # <<>>
  PROVE  /\ Front(s) \in Seq(S)
         /\ Last(s) \in S
         /\ Range(s) = Range(Front(s)) \cup {Last(s)}
         /\ IsInjective(s) => IsInjective(Front(s)) /\ Last(s) \notin Range(Front(s))
<1> DEFINE f == Front(s)
<1>1. Len(s) \in Nat \ {0} /\ DOMAIN s = 1..Len(s) /\ \A i \in 1..Len(s) : s[i] \in S
  BY EmptySeq, RangeIndex
<1>2. f \in Seq(S) /\ Len(f) = Len(s) - 1 /\ \A i \in 1..Len(s) - 1 : f[i] = s[i]
  <2>1. \A i \in 1..Len(s) - 1 : s[i] \in S
    BY <1>1
  <2> QED BY <1>1, <2>1, SubSeqProperties, Z3 DEF Front
<1>3. DOMAIN f = 1..Len(s) - 1
  BY <1>2, LenProperties
<1>4. Last(s) = s[Len(s)] /\ Last(s) \in S
  BY <1>1 DEF Last
<1>5. Range(s) = Range(f) \cup {Last(s)}
  <2> HIDE DEF f
  <2> QED BY <1>1, <1>2, <1>3, <1>4 DEF Range
<1>6. IsInjective(s) => IsInjective(f) /\ Last(s) \notin Range(f)
  <2> HIDE DEF f
  <2> QED BY <1>1, <1>2, <1>3, <1>4 DEF Range, IsInjective
<1> QED BY <1>2, <1>4, <1>5, <1>6

\* The same for the first element.
LEMMA TailFacts ==
  ASSUME NEW S, NEW s \in Seq(S), s # <<>>
  PROVE  /\ Tail(s) \in Seq(S)
         /\ Head(s) \in S
         /\ Range(s) = Range(Tail(s)) \cup {Head(s)}
         /\ IsInjective(s) => IsInjective(Tail(s)) /\ Head(s) \notin Range(Tail(s))
<1> DEFINE f == Tail(s)
<1>1. Len(s) \in Nat \ {0} /\ DOMAIN s = 1..Len(s) /\ \A i \in 1..Len(s) : s[i] \in S
  BY EmptySeq, RangeIndex
<1>2. f \in Seq(S) /\ Len(f) = Len(s) - 1 /\ \A i \in 1..Len(s) - 1 : f[i] = s[i + 1]
  BY HeadTailProperties
<1>3. DOMAIN f = 1..Len(s) - 1
  BY <1>2, LenProperties
<1>4. Head(s) = s[1] /\ Head(s) \in S
  BY <1>1, HeadTailProperties
<1>5. Range(s) = Range(f) \cup {Head(s)}
  <2> HIDE DEF f
  <2>1. \A i \in 1..Len(s) : i = 1 \/ (i - 1 \in 1..Len(s) - 1 /\ s[i] = f[i - 1])
    BY <1>1, <1>2
  <2>2. \A i \in 1..Len(s) - 1 : i + 1 \in 1..Len(s)
    BY <1>1
  <2>3. Range(s) \subseteq Range(f) \cup {Head(s)}
    BY <1>1, <1>3, <1>4, <2>1 DEF Range
  <2>4. Range(f) \cup {Head(s)} \subseteq Range(s)
    BY <1>1, <1>2, <1>3, <1>4, <2>2 DEF Range
  <2> QED BY <2>3, <2>4
<1>6. IsInjective(s) => IsInjective(f) /\ Head(s) \notin Range(f)
  <2> HIDE DEF f
  <2>1. \A i \in 1..Len(s) - 1 : i + 1 \in 1..Len(s) /\ i + 1 # 1
    BY <1>1
  <2>2. IsInjective(s) => IsInjective(f)
    <3> SUFFICES ASSUME IsInjective(s), NEW i \in DOMAIN f, NEW j \in DOMAIN f, f[i] = f[j]
                 PROVE  i = j
      BY DEF IsInjective
    <3>1. i + 1 = j + 1
      BY <1>1, <1>2, <1>3, <2>1 DEF IsInjective
    <3> QED BY <3>1, <1>1, <1>3
  <2>3. IsInjective(s) => Head(s) \notin Range(f)
    <3> SUFFICES ASSUME IsInjective(s), NEW i \in DOMAIN f, Head(s) = f[i]
                 PROVE  FALSE
      BY DEF Range
    <3>1. 1 \in DOMAIN s /\ i + 1 \in DOMAIN s /\ s[1] = s[i + 1] /\ i + 1 # 1
      BY <1>1, <1>2, <1>3, <1>4, <2>1
    <3>2. 1 = i + 1
      BY <3>1 DEF IsInjective
    <3> QED BY <3>1, <3>2
  <2> QED BY <2>2, <2>3
<1> QED BY <1>2, <1>4, <1>5, <1>6

\* The empty sequence.
LEMMA EmptyFacts ==
  ASSUME NEW S
  PROVE  <<>> \in Seq(S) /\ Range(<<>>) = {} /\ IsInjective(<<>>)
BY EmptySeq, LenProperties DEF Range, IsInjective

\* Sequences written out: appending to one and to two elements.
LEMMA PairFacts ==
  ASSUME NEW S, NEW a \in S, NEW c \in S
  PROVE  <<a>> \o <<c>> = <<a, c>> /\ Append(<<a>>, c) = <<a, c>>
<1> DEFINE t == <<a>> \o <<c>>
           b == <<a, c>>
<1>1. <<a>> \in Seq(S) /\ <<c>> \in Seq(S)
  OBVIOUS
<1>2. /\ t \in Seq(S) /\ Len(t) = 2
      /\ \A i \in 1..2 : t[i] = IF i <= 1 THEN <<a>>[i] ELSE <<c>>[i - 1]
  BY <1>1, ConcatProperties
<1>3. t[1] = a /\ t[2] = c
  BY <1>2
<1>4. b \in Seq(S) /\ Len(b) = 2 /\ b[1] = a /\ b[2] = c
  OBVIOUS
<1>5. \A i \in 1..2 : i = 1 \/ i = 2
  OBVIOUS
<1>6. Append(<<a>>, c) = t
  BY <1>1, AppendIsConcat
<1> HIDE DEF t, b
<1>7. t = b
  BY <1>2, <1>3, <1>4, <1>5, SeqEqual
<1> QED BY <1>6, <1>7 DEF t, b

LEMMA TripleFacts ==
  ASSUME NEW S, NEW a \in S, NEW c \in S, NEW d \in S
  PROVE  <<a, c>> \o <<d>> = <<a, c, d>> /\ Append(<<a, c>>, d) = <<a, c, d>>
<1> DEFINE t == <<a, c>> \o <<d>>
           b == <<a, c, d>>
<1>1. <<a, c>> \in Seq(S) /\ <<d>> \in Seq(S)
  OBVIOUS
<1>2. /\ t \in Seq(S) /\ Len(t) = 3
      /\ \A i \in 1..3 : t[i] = IF i <= 2 THEN <<a, c>>[i] ELSE <<d>>[i - 2]
  BY <1>1, ConcatProperties
<1>3. t[1] = a /\ t[2] = c /\ t[3] = d
  BY <1>2
<1>4. b \in Seq(S) /\ Len(b) = 3 /\ b[1] = a /\ b[2] = c /\ b[3] = d
  OBVIOUS
<1>5. \A i \in 1..3 : i = 1 \/ i = 2 \/ i = 3
  OBVIOUS
<1>6. Append(<<a, c>>, d) = t
  BY <1>1, AppendIsConcat
<1> HIDE DEF t, b
<1>7. t = b
  BY <1>2, <1>3, <1>4, <1>5, SeqEqual
<1> QED BY <1>6, <1>7 DEF t, b

\* The elements of a concatenation and of a tail, through indices.
LEMMA ConcatIndex ==
  ASSUME NEW S, NEW s \in Seq(S), NEW b \in Seq(S)
  PROVE  /\ s \o b \in Seq(S) /\ Len(s) \in Nat /\ Len(b) \in Nat
         /\ DOMAIN s = 1..Len(s) /\ DOMAIN b = 1..Len(b)
         /\ DOMAIN (s \o b) = 1..(Len(s) + Len(b))
         /\ \A i \in 1..Len(s) : (s \o b)[i] = s[i]
         /\ \A i \in 1..Len(b) : (s \o b)[Len(s) + i] = b[i]
         /\ \A i \in 1..(Len(s) + Len(b)) :
              \/ i \in 1..Len(s)
              \/ i > Len(s) /\ i - Len(s) \in 1..Len(b) /\ (s \o b)[i] = b[i - Len(s)]
<1> DEFINE t == s \o b
           n == Len(s)
           m == Len(b)
<1>1. /\ t \in Seq(S) /\ Len(t) = n + m
      /\ \A i \in 1..(n + m) : t[i] = IF i <= n THEN s[i] ELSE b[i - n]
  BY ConcatProperties
<1>2. n \in Nat /\ m \in Nat /\ DOMAIN s = 1..n /\ DOMAIN b = 1..m /\ DOMAIN t = 1..Len(t)
  BY <1>1
<1> HIDE DEF t, n, m
<1>3. \A i \in 1..n : t[i] = s[i]
  BY <1>1, <1>2
<1>4. \A i \in 1..m : t[n + i] = b[i]
  BY <1>1, <1>2
<1>5. \A i \in 1..(n + m) : i \in 1..n \/ (i > n /\ i - n \in 1..m /\ t[i] = b[i - n])
  BY <1>1, <1>2
<1> QED BY <1>1, <1>2, <1>3, <1>4, <1>5 DEF t, n, m

LEMMA TailIndex ==
  ASSUME NEW S, NEW s \in Seq(S), s # <<>>
  PROVE  /\ Tail(s) \in Seq(S) /\ Head(s) \in S /\ Head(s) = s[1]
         /\ 1 \in DOMAIN s /\ DOMAIN s \subseteq Nat \ {0} /\ DOMAIN Tail(s) \subseteq Nat \ {0}
         /\ \A i \in DOMAIN Tail(s) : i + 1 \in DOMAIN s /\ Tail(s)[i] = s[i + 1]
         /\ \A k \in DOMAIN s : k = 1 \/ (k - 1 \in DOMAIN Tail(s) /\ Tail(s)[k - 1] = s[k])
<1> DEFINE t == Tail(s)
           n == Len(s)
<1>1. /\ t \in Seq(S) /\ n \in Nat \ {0} /\ DOMAIN s = 1..n /\ DOMAIN t = 1..(n - 1)
      /\ \A i \in 1..(n - 1) : t[i] = s[i + 1]
      /\ Head(s) = s[1] /\ Head(s) \in S
  BY HeadTailProperties
<1> HIDE DEF t, n
<1>2. \A k \in 1..n : k = 1 \/ (k - 1 \in 1..(n - 1) /\ k = (k - 1) + 1)
  BY <1>1
<1> QED BY <1>1, <1>2 DEF t
=============================================================================
