--------------------------- MODULE SequenceLemmas ---------------------------
(***************************************************************************)
(* What the queue operators of SequencesExt do to the members of a         *)
(* sequence: the facts that the proofs about the cache, the admission      *)
(* queues and the bucket's line have in common.                            *)
(***************************************************************************)
EXTENDS Integers, SequencesExt, WellFoundedInduction, SequenceTheorems,
        FiniteSetTheorems, TLAPS

LEMMA MinOfNats ==
    ASSUME NEW I, I \subseteq Nat, I # {}
    PROVE  Min(I) \in I /\ \A i \in I : Min(I) <= i
  <1>1. PICK m \in I : \A i \in I : ~ (<<i, m>> \in OpToRel(<, Nat))
    BY WFMin, NatLessThanWellFounded, Zenon
  <1>2. \A i \in I : ~ (i < m)
    BY <1>1, Zenon DEF OpToRel
  <1>3. \A i \in I : m <= i
    BY <1>2
  <1> QED BY <1>3 DEF Min

LEMMA Members ==
    ASSUME NEW S, NEW s \in Seq(S)
    PROVE  /\ ToSet(s) \subseteq S
           /\ \A e : e \in ToSet(s) <=> \E i \in 1 .. Len(s) : s[i] = e
           /\ ToSet(s) = {} <=> s = <<>>
           /\ IsInjective(s) <=> \A i, j \in 1 .. Len(s) : s[i] = s[j] => i = j
  <1>1. DOMAIN s = 1 .. Len(s) /\ Len(s) \in Nat
    BY LenProperties
  <1>2. \A e : e \in ToSet(s) <=> \E i \in 1 .. Len(s) : s[i] = e
    BY <1>1, Zenon DEF ToSet
  <1>3. ToSet(s) \subseteq S
    BY <1>2, ElementOfSeq
  <1>4. ToSet(s) = {} <=> s = <<>>
    <2>1. CASE s = <<>>
      BY <2>1, <1>2
    <2>2. CASE s # <<>>
      <3>1. 1 \in 1 .. Len(s)
        BY <2>2, EmptySeq
      <3> QED BY <3>1, <1>2, <2>2
    <2> QED BY <2>1, <2>2
  <1>5. IsInjective(s) <=> \A i, j \in 1 .. Len(s) : s[i] = s[j] => i = j
    BY <1>1, Zenon DEF IsInjective
  <1> QED BY <1>2, <1>3, <1>4, <1>5

\* A sequence without repetitions is as long as it has members.
LEMMA DistinctCount ==
    ASSUME NEW S, NEW s \in Seq(S), IsInjective(s)
    PROVE  IsFiniteSet(ToSet(s)) /\ Cardinality(ToSet(s)) = Len(s)
  <1>1. Len(s) \in Nat /\ s \in [1 .. Len(s) -> S]
    BY LenProperties
  <1>2. IsFiniteSet(1 .. Len(s)) /\ Cardinality(1 .. Len(s)) = Len(s)
    <2>1. /\ IsFiniteSet(1 .. Len(s))
          /\ Cardinality(1 .. Len(s)) = IF 1 > Len(s) THEN 0 ELSE Len(s) - 1 + 1
      BY <1>1, FS_Interval, SMTT(30)
    <2> QED BY <1>1, <2>1
  <1> DEFINE T == ToSet(s)
  <1>3. \A e : e \in T <=> \E i \in 1 .. Len(s) : s[i] = e
    BY Members
  <1> HIDE DEF T
  <1>4. s \in [1 .. Len(s) -> T] /\ \A t \in T : \E i \in 1 .. Len(s) : s[i] = t
    BY <1>1, <1>3
  <1>5. s \in Bijection(1 .. Len(s), T)
    BY <1>4 DEF Bijection, Injection, Surjection
  <1>6. ExistsBijection(1 .. Len(s), T)
    BY <1>5 DEF ExistsBijection
  <1>7. IsFiniteSet(T) /\ Cardinality(T) = Cardinality(1 .. Len(s))
    BY <1>2, <1>6, FS_Bijection
  <1> QED BY <1>2, <1>7 DEF T

LEMMA AppendMembers ==
    ASSUME NEW S, NEW s \in Seq(S), NEW e \in S
    PROVE  /\ Append(s, e) \in Seq(S)
           /\ Len(Append(s, e)) = Len(s) + 1
           /\ ToSet(Append(s, e)) = ToSet(s) \cup {e}
           /\ IsInjective(s) /\ e \notin ToSet(s) => IsInjective(Append(s, e))
  <1> DEFINE t == Append(s, e)
  <1>1. /\ t \in Seq(S) /\ Len(t) = Len(s) + 1 /\ t[Len(s) + 1] = e
        /\ \A i \in 1 .. Len(s) : t[i] = s[i]
        /\ Len(s) \in Nat
    BY AppendProperties, LenProperties
  <1> HIDE DEF t
  <1>2. ToSet(t) \subseteq ToSet(s) \cup {e}
    BY <1>1, Members
  <1>3. ToSet(s) \subseteq ToSet(t)
    <2> SUFFICES ASSUME NEW i \in 1 .. Len(s) PROVE s[i] \in ToSet(t)
      BY Members
    <2>1. i \in 1 .. Len(t) /\ t[i] = s[i]
      BY <1>1
    <2> QED BY <2>1, <1>1, Members
  <1>4. e \in ToSet(t)
    <2>1. Len(s) + 1 \in 1 .. Len(t)
      BY <1>1
    <2> QED BY <2>1, <1>1, Members
  <1>5. ASSUME IsInjective(s), e \notin ToSet(s) PROVE IsInjective(t)
    <2>1. \A i, j \in 1 .. Len(s) : s[i] = s[j] => i = j
      BY <1>5, Members
    <2>2. \A i \in 1 .. Len(s) : s[i] # e
      BY <1>5, Members
    <2>3. \A i, j \in 1 .. Len(t) : t[i] = t[j] => i = j
      BY <2>1, <2>2, <1>1
    <2> QED BY <2>3, <1>1, Members
  <1> QED BY <1>1, <1>2, <1>3, <1>4, <1>5 DEF t

LEMMA TailMembers ==
    ASSUME NEW S, NEW s \in Seq(S), s # <<>>
    PROVE  /\ Tail(s) \in Seq(S)
           /\ Head(s) \in ToSet(s) /\ Head(s) \in S
           /\ Len(Tail(s)) = Len(s) - 1
           /\ ToSet(s) = {Head(s)} \cup ToSet(Tail(s))
           /\ IsInjective(s) => IsInjective(Tail(s)) /\ Head(s) \notin ToSet(Tail(s))
  <1> DEFINE t == Tail(s)
             h == Head(s)
  <1>1. /\ t \in Seq(S) /\ Len(t) = Len(s) - 1
        /\ h = s[1] /\ \A i \in 1 .. Len(t) : t[i] = s[i + 1]
        /\ Len(s) \in Nat \ {0}
    BY HeadTailProperties, EmptySeq
  <1> HIDE DEF t, h
  <1>2. h \in ToSet(s)
    BY <1>1, Members
  <1>3. ASSUME NEW i \in 1 .. Len(t) PROVE t[i] \in ToSet(s)
    <2>1. i + 1 \in 1 .. Len(s) /\ s[i + 1] = t[i]
      BY <1>1
    <2> QED BY <2>1, Members
  <1>4. ASSUME NEW i \in 1 .. Len(s), i # 1 PROVE s[i] \in ToSet(t)
    <2>1. i - 1 \in 1 .. Len(t) /\ t[i - 1] = s[i]
      BY <1>1, <1>4
    <2> QED BY <2>1, <1>1, Members
  <1>5. ToSet(s) = {h} \cup ToSet(t)
    <2>1. ToSet(s) \subseteq {h} \cup ToSet(t)
      BY <1>1, <1>4, Members
    <2>2. ToSet(t) \subseteq ToSet(s)
      BY <1>1, <1>3, Members
    <2> QED BY <1>2, <2>1, <2>2
  <1>6. ASSUME IsInjective(s) PROVE IsInjective(t) /\ h \notin ToSet(t)
    <2>1. \A i, j \in 1 .. Len(s) : s[i] = s[j] => i = j
      BY <1>6, Members
    <2>2. \A i, j \in 1 .. Len(t) : t[i] = t[j] => i = j
      BY <2>1, <1>1
    <2>3. \A i \in 1 .. Len(t) : t[i] # h
      BY <2>1, <1>1
    <2> QED BY <2>2, <2>3, <1>1, Members
  <1>7. h \in S
    BY <1>2, Members
  <1> QED BY <1>1, <1>2, <1>5, <1>6, <1>7 DEF t, h

LEMMA RemoveAtMembers ==
    ASSUME NEW S, NEW s \in Seq(S), NEW i \in 1 .. Len(s)
    PROVE  /\ RemoveAt(s, i) \in Seq(S)
           /\ Len(RemoveAt(s, i)) = Len(s) - 1
           /\ \A j \in 1 .. Len(s) - 1 :
                RemoveAt(s, i)[j] = IF j < i THEN s[j] ELSE s[j + 1]
           /\ ToSet(s) = {s[i]} \cup ToSet(RemoveAt(s, i))
           /\ IsInjective(s) =>
                IsInjective(RemoveAt(s, i)) /\ s[i] \notin ToSet(RemoveAt(s, i))
  <1> DEFINE t == RemoveAt(s, i)
             a == SubSeq(s, 1, i - 1)
             b == SubSeq(s, i + 1, Len(s))
             e == s[i]
  <1>0. Len(s) \in Nat
    BY LenProperties
  <1>1. a \in Seq(S) /\ Len(a) = i - 1 /\ \A j \in 1 .. i - 1 : a[j] = s[j]
    BY <1>0
  <1>2. /\ b \in Seq(S) /\ Len(b) = Len(s) - i
        /\ \A j \in 1 .. Len(s) - i : b[j] = s[i + j]
    BY <1>0
  <1>3. t = a \o b
    BY DEF RemoveAt
  <1> HIDE DEF t, a, b, e
  <1>4. /\ t \in Seq(S) /\ Len(t) = Len(s) - 1
        /\ \A j \in 1 .. Len(t) : t[j] = IF j < i THEN s[j] ELSE s[j + 1]
    <2>1. /\ t \in Seq(S) /\ Len(t) = Len(a) + Len(b)
          /\ \A j \in 1 .. Len(a) + Len(b) :
                t[j] = IF j <= Len(a) THEN a[j] ELSE b[j - Len(a)]
      BY <1>1, <1>2, <1>3, ConcatProperties
    <2>2. t \in Seq(S) /\ Len(t) = Len(s) - 1
      BY <1>0, <1>1, <1>2, <2>1
    <2>3. ASSUME NEW j \in 1 .. Len(t)
          PROVE  t[j] = IF j < i THEN s[j] ELSE s[j + 1]
      <3>1. CASE j < i
        <4>1. t[j] = a[j] /\ j \in 1 .. i - 1
          BY <1>0, <1>1, <1>2, <2>1, <2>2, <3>1
        <4> QED BY <4>1, <1>1, <3>1
      <3>2. CASE j >= i
        <4>1. t[j] = b[j - (i - 1)] /\ j - (i - 1) \in 1 .. Len(s) - i
          BY <1>0, <1>1, <1>2, <2>1, <2>2, <3>2
        <4>2. t[j] = s[i + (j - (i - 1))]
          BY <4>1, <1>2
        <4>3. i + (j - (i - 1)) = j + 1
          BY <1>0, <2>2
        <4> QED BY <4>2, <4>3, <3>2, <2>2, <1>0
      <3> QED BY <3>1, <3>2, <2>2, <1>0
    <2> QED BY <2>2, <2>3
  <1>5. ASSUME NEW j \in 1 .. Len(t) PROVE t[j] \in ToSet(s)
    <2>1. j \in 1 .. Len(s) /\ j + 1 \in 1 .. Len(s)
      BY <1>0, <1>4
    <2> QED BY <1>4, <2>1, Members
  <1>6. ASSUME NEW j \in 1 .. Len(s), j # i PROVE s[j] \in ToSet(t)
    <2>1. CASE j < i
      <3>1. j \in 1 .. Len(t) /\ t[j] = s[j]
        BY <1>0, <1>4, <2>1
      <3> QED BY <1>4, <3>1, Members
    <2>2. CASE j > i
      <3>1. j - 1 \in 1 .. Len(t) /\ t[j - 1] = s[j]
        BY <1>0, <1>4, <2>2
      <3> QED BY <1>4, <3>1, Members
    <2> QED BY <1>6, <2>1, <2>2
  <1>7. ToSet(s) = {e} \cup ToSet(t)
    <2>1. ToSet(s) \subseteq {e} \cup ToSet(t)
      BY <1>6, Members DEF e
    <2>2. ToSet(t) \subseteq ToSet(s)
      BY <1>4, <1>5, Members
    <2>3. e \in ToSet(s)
      BY Members DEF e
    <2> QED BY <2>1, <2>2, <2>3
  <1>8. ASSUME IsInjective(s) PROVE IsInjective(t) /\ e \notin ToSet(t)
    <2>1. \A j, k \in 1 .. Len(s) : s[j] = s[k] => j = k
      BY <1>8, Members
    <2>2. \A j, k \in 1 .. Len(t) : t[j] = t[k] => j = k
      BY <2>1, <1>0, <1>4
    <2>3. \A j \in 1 .. Len(t) : t[j] # e
      BY <2>1, <1>0, <1>4 DEF e
    <2> QED BY <2>2, <2>3, <1>4, Members
  <1> QED BY <1>4, <1>7, <1>8 DEF t, e

\* RemoveFirst takes one occurrence out, if there is one.
LEMMA RemoveFirstMembers ==
    ASSUME NEW S, NEW s \in Seq(S), NEW e
    PROVE  /\ RemoveFirst(s, e) \in Seq(S)
           /\ e \notin ToSet(s) => RemoveFirst(s, e) = s
           /\ e \in ToSet(s) => \E i \in 1 .. Len(s) :
                s[i] = e /\ RemoveFirst(s, e) = RemoveAt(s, i)
           /\ IsInjective(s) =>
                /\ IsInjective(RemoveFirst(s, e))
                /\ ToSet(RemoveFirst(s, e)) = ToSet(s) \ {e}
  <1> DEFINE I == {i \in 1 .. Len(s) : s[i] = e}
  <1>1. CASE I = {}
    <2>1. e \notin ToSet(s)
      BY <1>1, Members
    <2>2. RemoveFirst(s, e) = s
      BY <1>1 DEF RemoveFirst
    <2> QED BY <2>1, <2>2
  <1>2. CASE I # {}
    <2>1. RemoveFirst(s, e) = RemoveAt(s, Min(I))
      BY <1>2, Zenon DEF RemoveFirst, SelectInSeq
    <2>2. I \subseteq Nat
      OBVIOUS
    <2>3. Min(I) \in I
      BY <1>2, <2>2, MinOfNats, Zenon
    <2>4. Min(I) \in 1 .. Len(s) /\ s[Min(I)] = e
      BY <2>3
    <2> HIDE DEF I
    <2>5. e \in ToSet(s)
      BY <2>4, Members
    <2>6. RemoveAt(s, Min(I)) \in Seq(S)
      BY <2>4, RemoveAtMembers
    <2>7. IsInjective(s) =>
            /\ IsInjective(RemoveAt(s, Min(I)))
            /\ ToSet(RemoveAt(s, Min(I))) = ToSet(s) \ {e}
      BY <2>4, RemoveAtMembers
    <2> QED BY <2>1, <2>4, <2>5, <2>6, <2>7
  <1> QED BY <1>1, <1>2

\* What is left when the first k elements of a sequence are dropped.
LEMMA DropMembers ==
    ASSUME NEW S, NEW s \in Seq(S), NEW k \in 1 .. Len(s)
    PROVE  /\ SubSeq(s, k + 1, Len(s)) \in Seq(S)
           /\ Len(SubSeq(s, k + 1, Len(s))) = Len(s) - k
           /\ \A j \in 1 .. Len(s) - k : SubSeq(s, k + 1, Len(s))[j] = s[j + k]
           /\ ToSet(SubSeq(s, k + 1, Len(s))) \subseteq ToSet(s)
           /\ IsInjective(s) => IsInjective(SubSeq(s, k + 1, Len(s)))
  <1> DEFINE t == SubSeq(s, k + 1, Len(s))
  <1>0. Len(s) \in Nat
    BY LenProperties
  <1>1. /\ t \in Seq(S) /\ Len(t) = Len(s) - k
        /\ \A j \in 1 .. Len(t) : t[j] = s[j + k]
    BY <1>0
  <1> HIDE DEF t
  <1>2. ASSUME NEW j \in 1 .. Len(t) PROVE t[j] \in ToSet(s)
    <2>1. j + k \in 1 .. Len(s)
      BY <1>0, <1>1
    <2> QED BY <1>1, <2>1, Members
  <1>3. ToSet(t) \subseteq ToSet(s)
    BY <1>1, <1>2, Members
  <1>4. ASSUME IsInjective(s) PROVE IsInjective(t)
    <2>1. \A i, j \in 1 .. Len(s) : s[i] = s[j] => i = j
      BY <1>4, Members
    <2>2. \A i, j \in 1 .. Len(t) : t[i] = t[j] => i = j
      BY <2>1, <1>0, <1>1, SMTT(30)
    <2> QED BY <2>2, <1>1, Members
  <1> QED BY <1>1, <1>3, <1>4 DEF t

\* Putting an element in front, as the owner of a line returns to its head.
LEMMA ConsMembers ==
    ASSUME NEW S, NEW s \in Seq(S), NEW e \in S
    PROVE  /\ <<e>> \o s \in Seq(S) /\ <<e>> \o s # <<>> /\ Head(<<e>> \o s) = e
           /\ ToSet(<<e>> \o s) = {e} \cup ToSet(s)
           /\ IsInjective(s) /\ e \notin ToSet(s) => IsInjective(<<e>> \o s)
  <1> DEFINE t == <<e>> \o s
  <1>0. Len(s) \in Nat /\ <<e>> \in Seq(S) /\ Len(<<e>>) = 1 /\ <<e>>[1] = e
    BY LenProperties
  <1>1. /\ t \in Seq(S) /\ Len(t) = Len(s) + 1 /\ t[1] = e
        /\ \A i \in 2 .. Len(t) : t[i] = s[i - 1]
    BY <1>0, ConcatProperties
  <1> HIDE DEF t
  <1>2. t # <<>> /\ Head(t) = e
    BY <1>0, <1>1, EmptySeq, HeadTailProperties
  <1>3. ToSet(t) \subseteq {e} \cup ToSet(s)
    <2> SUFFICES ASSUME NEW i \in 1 .. Len(t), i # 1 PROVE t[i] \in ToSet(s)
      BY <1>1, Members
    <2>1. i - 1 \in 1 .. Len(s) /\ t[i] = s[i - 1]
      BY <1>0, <1>1
    <2> QED BY <2>1, Members
  <1>4. ToSet(s) \subseteq ToSet(t)
    <2> SUFFICES ASSUME NEW i \in 1 .. Len(s) PROVE s[i] \in ToSet(t)
      BY Members
    <2>1. i + 1 \in 2 .. Len(t) /\ i + 1 \in 1 .. Len(t) /\ t[i + 1] = s[i]
      BY <1>0, <1>1, SMTT(30)
    <2> QED BY <1>1, <2>1, Members
  <1>5. e \in ToSet(t)
    BY <1>1, <1>2, TailMembers
  <1>6. ASSUME IsInjective(s), e \notin ToSet(s) PROVE IsInjective(t)
    <2>1. \A i, j \in 1 .. Len(s) : s[i] = s[j] => i = j
      BY <1>6, Members
    <2>2. \A i \in 1 .. Len(s) : s[i] # e
      BY <1>6, Members
    <2>3. ASSUME NEW i \in 1 .. Len(t), NEW j \in 1 .. Len(t), t[i] = t[j] PROVE i = j
      <3>0. \A k \in 1 .. Len(t) : k # 1 => k - 1 \in 1 .. Len(s) /\ t[k] = s[k - 1]
        BY <1>0, <1>1
      <3>1. CASE i = 1 \/ j = 1
        BY <1>1, <2>2, <2>3, <3>0, <3>1
      <3>2. CASE i # 1 /\ j # 1
        <4>1. i - 1 \in 1 .. Len(s) /\ j - 1 \in 1 .. Len(s) /\ s[i - 1] = s[j - 1]
          BY <1>0, <1>1, <2>3, <3>2
        <4>2. i - 1 = j - 1
          BY <2>1, <4>1
        <4> QED BY <1>0, <1>1, <4>2
      <3> QED BY <3>1, <3>2
    <2> QED BY <1>1, <2>3, Members
  <1> QED BY <1>1, <1>2, <1>3, <1>4, <1>5, <1>6 DEF t

\* Whoever stands at the head stays there when another is taken out.
LEMMA HeadStays ==
    ASSUME NEW S, NEW s \in Seq(S), s # <<>>, NEW e, Head(s) # e
    PROVE  RemoveFirst(s, e) # <<>> /\ Head(RemoveFirst(s, e)) = Head(s)
  <1>1. CASE e \notin ToSet(s)
    BY <1>1, RemoveFirstMembers
  <1>2. CASE e \in ToSet(s)
    <2>1. PICK i \in 1 .. Len(s) : s[i] = e /\ RemoveFirst(s, e) = RemoveAt(s, i)
      BY <1>2, RemoveFirstMembers
    <2> DEFINE t == RemoveAt(s, i)
    <2>2. /\ t \in Seq(S) /\ Len(t) = Len(s) - 1 /\ Len(s) \in Nat /\ Head(s) = s[1]
          /\ \A j \in 1 .. Len(s) - 1 : t[j] = IF j < i THEN s[j] ELSE s[j + 1]
      BY RemoveAtMembers, LenProperties, HeadTailProperties
    <2> HIDE DEF t
    <2>3. i > 1 /\ 1 \in 1 .. Len(s) - 1
      BY <2>1, <2>2
    <2>4. Len(t) # 0 /\ t[1] = s[1]
      BY <2>2, <2>3
    <2>5. t # <<>> /\ Head(t) = t[1]
      BY <2>2, <2>4, EmptySeq, HeadTailProperties
    <2> QED BY <2>1, <2>2, <2>4, <2>5 DEF t
  <1> QED BY <1>1, <1>2
-----------------------------------------------------------------------------
\* One element stands somewhere in front of another.
Before(s, c, d) == \E i, j \in 1 .. Len(s) : i < j /\ s[i] = c /\ s[j] = d

LEMMA BeforeMembers ==
    ASSUME NEW S, NEW s \in Seq(S), NEW c, NEW d, Before(s, c, d)
    PROVE  c \in ToSet(s) /\ d \in ToSet(s)
  BY Members DEF Before

LEMMA HeadBefore ==
    ASSUME NEW S, NEW s \in Seq(S), s # <<>>, NEW d \in ToSet(s), d # Head(s)
    PROVE  Before(s, Head(s), d)
  <1>1. PICK j \in 1 .. Len(s) : s[j] = d
    BY Members
  <1>2. Head(s) = s[1] /\ Len(s) \in Nat
    BY HeadTailProperties, LenProperties
  <1>3. 1 \in 1 .. Len(s) /\ 1 < j
    BY <1>1, <1>2
  <1> QED BY <1>1, <1>2, <1>3 DEF Before

\* What joins at the end stands before nobody, and taking an element out changes
\* nobody else's order.
LEMMA BeforeAppend ==
    ASSUME NEW S, NEW s \in Seq(S), NEW e \in S, NEW c, NEW d \in ToSet(s),
           e \notin ToSet(s), Before(Append(s, e), c, d)
    PROVE  Before(s, c, d)
  <1> DEFINE t == Append(s, e)
  <1>1. /\ Len(t) = Len(s) + 1 /\ t[Len(s) + 1] = e
        /\ \A i \in 1 .. Len(s) : t[i] = s[i]
        /\ Len(s) \in Nat
    BY AppendProperties, LenProperties
  <1>2. Before(t, c, d)
    OBVIOUS
  <1> HIDE DEF t
  <1>3. PICK i, j \in 1 .. Len(t) : i < j /\ t[i] = c /\ t[j] = d
    BY <1>2 DEF Before
  <1>4. i \in 1 .. Len(s) /\ j \in 1 .. Len(s)
    BY <1>1, <1>3
  <1> QED BY <1>1, <1>3, <1>4 DEF Before

LEMMA BeforeTail ==
    ASSUME NEW S, NEW s \in Seq(S), s # <<>>, NEW c, NEW d, Before(Tail(s), c, d)
    PROVE  Before(s, c, d)
  <1> DEFINE t == Tail(s)
  <1>1. /\ Len(t) = Len(s) - 1 /\ Len(s) \in Nat
        /\ \A i \in 1 .. Len(t) : t[i] = s[i + 1]
    BY HeadTailProperties, LenProperties
  <1>2. Before(t, c, d)
    OBVIOUS
  <1> HIDE DEF t
  <1>3. PICK i, j \in 1 .. Len(t) : i < j /\ t[i] = c /\ t[j] = d
    BY <1>2 DEF Before
  <1>4. /\ i + 1 \in 1 .. Len(s) /\ j + 1 \in 1 .. Len(s)
        /\ i + 1 < j + 1 /\ s[i + 1] = c /\ s[j + 1] = d
    BY <1>1, <1>3
  <1> QED BY <1>4 DEF Before

LEMMA BeforeRemoveFirst ==
    ASSUME NEW S, NEW s \in Seq(S), NEW e, NEW c, NEW d, Before(RemoveFirst(s, e), c, d)
    PROVE  Before(s, c, d)
  <1>1. CASE e \notin ToSet(s)
    BY <1>1, RemoveFirstMembers
  <1>2. CASE e \in ToSet(s)
    <2>1. PICK k \in 1 .. Len(s) : RemoveFirst(s, e) = RemoveAt(s, k)
      BY <1>2, RemoveFirstMembers
    <2> DEFINE t == RemoveAt(s, k)
    <2>2. /\ Len(t) = Len(s) - 1 /\ Len(s) \in Nat
          /\ \A j \in 1 .. Len(s) - 1 : t[j] = IF j < k THEN s[j] ELSE s[j + 1]
      BY RemoveAtMembers, LenProperties
    <2>3. Before(t, c, d)
      BY <2>1
    <2> HIDE DEF t
    <2>4. PICK i, j \in 1 .. Len(t) : i < j /\ t[i] = c /\ t[j] = d
      BY <2>3 DEF Before
    <2> DEFINE i2 == IF i < k THEN i ELSE i + 1
               j2 == IF j < k THEN j ELSE j + 1
    <2>5. /\ i2 \in 1 .. Len(s) /\ j2 \in 1 .. Len(s) /\ i2 < j2
          /\ s[i2] = c /\ s[j2] = d
      BY <2>2, <2>4
    <2> QED BY <2>5 DEF Before
  <1> QED BY <1>1, <1>2
=============================================================================
