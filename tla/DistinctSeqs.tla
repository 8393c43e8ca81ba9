---------------------------- MODULE DistinctSeqs ----------------------------
(***************************************************************************)
(* Lemmas about sequences of objects that occur once, as the lists of      *)
(* pointers in the engine: their elements after push_back, pop_front,      *)
(* erase and concatenation, and that no object comes to occur twice; about *)
(* a list behind another, and the list of what a field of each says; about *)
(* the first position with some property, and of loops along a list.       *)
(***************************************************************************)
EXTENDS Integers, Sequences, SequencesExt, SequenceTheorems, FiniteSetTheorems, TLAPS

LEMMA ToSetEmpty == ToSet(<<>>) = {} /\ IsInjective(<<>>)
BY DEF ToSet, IsInjective

LEMMA ToSetTyped ==
  ASSUME NEW S, NEW s \in Seq(S)
  PROVE  ToSet(s) \subseteq S
BY DEF ToSet

LEMMA ToSetAppend ==
  ASSUME NEW S, NEW s \in Seq(S), NEW x \in S
  PROVE  /\ Append(s, x) \in Seq(S)
         /\ ToSet(Append(s, x)) = ToSet(s) \cup {x}
         /\ IsInjective(s) /\ x \notin ToSet(s) => IsInjective(Append(s, x))
<1>1. \A i \in 1..Len(s) : Append(s, x)[i] = s[i]
  BY AppendProperties
<1>2. Len(Append(s, x)) = Len(s) + 1 /\ Append(s, x)[Len(s) + 1] = x /\ Append(s, x) \in Seq(S)
  BY AppendProperties
<1>3. ToSet(Append(s, x)) = ToSet(s) \cup {x}
  BY <1>1, <1>2 DEF ToSet
<1>4. IsInjective(s) /\ x \notin ToSet(s) => IsInjective(Append(s, x))
  BY <1>1, <1>2 DEF ToSet, IsInjective
<1> QED
  BY <1>2, <1>3, <1>4

LEMMA ToSetTail ==
  ASSUME NEW S, NEW s \in Seq(S), s # <<>>
  PROVE  /\ Tail(s) \in Seq(S)
         /\ Head(s) \in ToSet(s)
         /\ ToSet(Tail(s)) \subseteq ToSet(s)
         /\ IsInjective(s) => IsInjective(Tail(s)) /\ Head(s) \notin ToSet(Tail(s))
<1>1. Len(s) \in Nat \ {0} /\ Tail(s) \in Seq(S) /\ Len(Tail(s)) = Len(s) - 1
  OBVIOUS
<1>2. \A i \in 1..Len(Tail(s)) : Tail(s)[i] = s[i + 1]
  OBVIOUS
<1>3. Head(s) = s[1]
  OBVIOUS
<1>4. DOMAIN s = 1..Len(s) /\ DOMAIN Tail(s) = 1..Len(Tail(s))
  BY <1>1
<1> QED
  BY <1>1, <1>2, <1>3, <1>4 DEF ToSet, IsInjective

LEMMA ToSetHeadTail ==
  ASSUME NEW S, NEW s \in Seq(S), s # <<>>
  PROVE  ToSet(s) = {Head(s)} \cup ToSet(Tail(s))
<1>1. /\ Len(s) \in Nat \ {0} /\ DOMAIN s = 1..Len(s) /\ Head(s) = s[1]
      /\ Tail(s) \in Seq(S) /\ DOMAIN Tail(s) = 1..(Len(s) - 1)
      /\ \A i \in 1..(Len(s) - 1) : Tail(s)[i] = s[i + 1]
  OBVIOUS
<1>2. ASSUME NEW i \in DOMAIN s
      PROVE  s[i] = Head(s) \/ s[i] \in ToSet(Tail(s))
  <2>1. CASE i = 1
    BY <1>1, <2>1
  <2>2. CASE i # 1
    <3>1. i - 1 \in DOMAIN Tail(s) /\ Tail(s)[i - 1] = s[i]
      BY <1>1, <2>2
    <3> QED
      BY <3>1 DEF ToSet
  <2> QED
    BY <2>1, <2>2
<1>3. ToSet(s) \subseteq {Head(s)} \cup ToSet(Tail(s))
  BY <1>2 DEF ToSet
<1> QED
  BY <1>3, ToSetTail

LEMMA ToSetConcat ==
  ASSUME NEW S, NEW s \in Seq(S), NEW t \in Seq(S)
  PROVE  /\ s \o t \in Seq(S)
         /\ ToSet(s \o t) = ToSet(s) \cup ToSet(t)
         /\ IsInjective(s) /\ IsInjective(t) /\ ToSet(s) \cap ToSet(t) = {}
              => IsInjective(s \o t)
<1> DEFINE m == Len(s)
           n == Len(t)
           r == s \o t
<1>1. /\ m \in Nat /\ DOMAIN s = 1..m
      /\ n \in Nat /\ DOMAIN t = 1..n
  OBVIOUS
<1>2. /\ r \in Seq(S) /\ Len(r) = m + n
      /\ \A i \in 1..(m + n) : r[i] = IF i <= m THEN s[i] ELSE t[i - m]
  BY ConcatProperties
<1>3. DOMAIN r = 1..(m + n)
  BY <1>1, <1>2
<1> HIDE DEF m, n, r
<1>4. /\ \A i \in 1..m : i \in 1..(m + n) /\ r[i] = s[i]
      /\ \A i \in 1..n : i + m \in 1..(m + n) /\ r[i + m] = t[i]
  BY <1>1, <1>2
<1>5. \A i \in 1..(m + n) : (i \in 1..m /\ r[i] = s[i]) \/ (i - m \in 1..n /\ r[i] = t[i - m])
  BY <1>1, <1>2
<1>6. ToSet(r) = ToSet(s) \cup ToSet(t)
  <2>1. ToSet(r) \subseteq ToSet(s) \cup ToSet(t)
    BY <1>1, <1>3, <1>5 DEF ToSet
  <2>2. ToSet(s) \cup ToSet(t) \subseteq ToSet(r)
    BY <1>1, <1>3, <1>4 DEF ToSet
  <2> QED
    BY <2>1, <2>2
<1>7. ASSUME IsInjective(s), IsInjective(t), ToSet(s) \cap ToSet(t) = {},
             NEW i \in 1..(m + n), NEW j \in 1..(m + n), r[i] = r[j]
      PROVE  i = j
  <2>1. \A k \in 1..m, l \in 1..n : s[k] # t[l]
    BY <1>1, <1>7 DEF ToSet
  <2>2. CASE i \in 1..m /\ j \in 1..m
    BY <1>1, <1>4, <1>7, <2>2 DEF IsInjective
  <2>3. CASE i - m \in 1..n /\ j - m \in 1..n
    <3>1. r[i] = t[i - m] /\ r[j] = t[j - m]
      BY <1>1, <1>2, <2>3
    <3>2. i - m = j - m
      BY <1>1, <1>7, <2>3, <3>1 DEF IsInjective
    <3> QED
      BY <1>1, <3>2
  <2> QED
    BY <1>1, <1>5, <1>7, <2>1, <2>2, <2>3
<1>8. IsInjective(s) /\ IsInjective(t) /\ ToSet(s) \cap ToSet(t) = {} => IsInjective(r)
  BY <1>3, <1>7 DEF IsInjective
<1> QED
  BY <1>2, <1>6, <1>8 DEF r

LEMMA ToSetRemoveAt ==
  ASSUME NEW S, NEW s \in Seq(S), NEW i \in DOMAIN s
  PROVE  /\ RemoveAt(s, i) \in Seq(S) /\ Len(RemoveAt(s, i)) = Len(s) - 1
         /\ \A j \in 1..(Len(s) - 1) : RemoveAt(s, i)[j] = IF j < i THEN s[j] ELSE s[j + 1]
         /\ ToSet(RemoveAt(s, i)) \subseteq ToSet(s)
         /\ IsInjective(s) => IsInjective(RemoveAt(s, i))
<1> DEFINE r == RemoveAt(s, i)
<1>1. i \in 1..Len(s) /\ Len(s) \in Nat /\ DOMAIN s = 1..Len(s)
  OBVIOUS
<1> DEFINE front == SubSeq(s, 1, i - 1)
           rear  == SubSeq(s, i + 1, Len(s))
<1>f. /\ front \in Seq(S) /\ Len(front) = i - 1
      /\ \A j \in 1..(i - 1) : front[j] = s[j]
  BY <1>1, SubSeqProperties
<1>r. /\ rear \in Seq(S) /\ Len(rear) = Len(s) - i
      /\ \A j \in 1..(Len(s) - i) : rear[j] = s[i + j]
  BY <1>1, SubSeqProperties
<1>c. r = front \o rear
  BY DEF RemoveAt
<1>2. r \in Seq(S) /\ Len(r) = Len(s) - 1
  <2>1. Len(front) + Len(rear) = Len(s) - 1
    BY <1>1, <1>f, <1>r
  <2> HIDE DEF front, rear, r
  <2> QED
    BY <2>1, <1>f, <1>r, <1>c, ConcatProperties
<1>3. \A j \in 1..(Len(s) - 1) : r[j] = IF j < i THEN s[j] ELSE s[j + 1]
  <2> HIDE DEF front, rear, r
  <2>1. \A j \in 1..(Len(front) + Len(rear)) :
          r[j] = IF j <= Len(front) THEN front[j] ELSE rear[j - Len(front)]
    BY <1>f, <1>r, <1>c, ConcatProperties
  <2> TAKE j \in 1..(Len(s) - 1)
  <2>2. r[j] = IF j <= i - 1 THEN front[j] ELSE rear[j - (i - 1)]
    BY <1>1, <1>f, <1>r, <2>1
  <2>3. CASE j < i
    BY <1>1, <1>f, <2>2, <2>3
  <2>4. CASE j >= i
    <3>1. j - (i - 1) \in 1..(Len(s) - i) /\ i + (j - (i - 1)) = j + 1
      BY <1>1, <2>4
    <3>2. rear[j - (i - 1)] = s[i + (j - (i - 1))]
      BY <1>r, <3>1
    <3> QED
      BY <1>1, <2>2, <2>4, <3>1, <3>2
  <2> QED
    BY <1>1, <2>3, <2>4
<1>4. DOMAIN r = 1..(Len(s) - 1)
  BY <1>1, <1>2
<1> HIDE DEF front, rear, r
<1>5. ToSet(r) \subseteq ToSet(s)
  BY <1>1, <1>3, <1>4 DEF ToSet
<1>6. IsInjective(s) => IsInjective(r)
  BY <1>1, <1>3, <1>4 DEF IsInjective
<1> QED
  BY <1>2, <1>3, <1>5, <1>6 DEF r

LEMMA ToSetInsertAt ==
  ASSUME NEW S, NEW s \in Seq(S), NEW x \in S, NEW i \in 1..(Len(s) + 1)
  PROVE  /\ InsertAt(s, i, x) \in Seq(S) /\ Len(InsertAt(s, i, x)) = Len(s) + 1
         /\ \A j \in 1..(Len(s) + 1) :
              InsertAt(s, i, x)[j] = IF j < i THEN s[j] ELSE IF j = i THEN x ELSE s[j - 1]
         /\ ToSet(InsertAt(s, i, x)) = ToSet(s) \cup {x}
         /\ IsInjective(s) /\ x \notin ToSet(s) => IsInjective(InsertAt(s, i, x))
<1> DEFINE r == InsertAt(s, i, x)
           front == SubSeq(s, 1, i - 1)
           mid   == front \o <<x>>
           rear  == SubSeq(s, i, Len(s))
<1>1. Len(s) \in Nat /\ DOMAIN s = 1..Len(s)
  OBVIOUS
<1>f. /\ front \in Seq(S) /\ Len(front) = i - 1
      /\ \A j \in 1..(i - 1) : front[j] = s[j]
  BY <1>1, SubSeqProperties
<1>r. /\ rear \in Seq(S) /\ Len(rear) = Len(s) - i + 1
      /\ \A j \in 1..(Len(s) - i + 1) : rear[j] = s[i + j - 1]
  BY <1>1, SubSeqProperties
<1>m. /\ mid \in Seq(S) /\ Len(mid) = i
      /\ \A j \in 1..i : mid[j] = IF j < i THEN s[j] ELSE x
  <2> HIDE DEF front
  <2>1. <<x>> \in Seq(S) /\ Len(<<x>>) = 1 /\ <<x>>[1] = x
    OBVIOUS
  <2> QED
    BY <2>1, <1>f, ConcatProperties
<1>c. r = mid \o rear
  BY DEF InsertAt
<1> HIDE DEF front, mid, rear, r
<1>2. r \in Seq(S) /\ Len(r) = Len(s) + 1
  BY <1>1, <1>m, <1>r, <1>c, ConcatProperties
<1>3. \A j \in 1..(Len(s) + 1) : r[j] = IF j < i THEN s[j] ELSE IF j = i THEN x ELSE s[j - 1]
  <2>1. \A j \in 1..(Len(mid) + Len(rear)) :
          r[j] = IF j <= Len(mid) THEN mid[j] ELSE rear[j - Len(mid)]
    BY <1>m, <1>r, <1>c, ConcatProperties
  <2> TAKE j \in 1..(Len(s) + 1)
  <2>2. r[j] = IF j <= i THEN mid[j] ELSE rear[j - i]
    BY <1>1, <1>m, <1>r, <2>1
  <2>3. CASE j <= i
    BY <1>1, <1>m, <2>2, <2>3
  <2>4. CASE j > i
    <3>1. j - i \in 1..(Len(s) - i + 1) /\ i + (j - i) - 1 = j - 1
      BY <1>1, <2>4
    <3>2. rear[j - i] = s[i + (j - i) - 1]
      BY <1>r, <3>1
    <3> QED
      BY <1>1, <2>2, <2>4, <3>1, <3>2
  <2> QED
    BY <1>1, <2>3, <2>4
<1>4. DOMAIN r = 1..(Len(s) + 1)
  BY <1>1, <1>2
<1>5. ToSet(r) = ToSet(s) \cup {x}
  <2>1. ToSet(r) \subseteq ToSet(s) \cup {x}
    BY <1>1, <1>3, <1>4 DEF ToSet
  <2>2. x \in ToSet(r)
    BY <1>1, <1>3, <1>4 DEF ToSet
  <2>3. ASSUME NEW j \in 1..Len(s)
        PROVE  s[j] \in ToSet(r)
    <3>1. CASE j < i
      <4>1. r[j] = s[j] /\ j \in DOMAIN r
        BY <1>1, <1>3, <1>4, <3>1
      <4> QED
        BY <4>1 DEF ToSet
    <3>2. CASE j >= i
      <4>1. r[j + 1] = s[j] /\ j + 1 \in DOMAIN r
        BY <1>1, <1>3, <1>4, <3>2
      <4> QED
        BY <4>1 DEF ToSet
    <3> QED
      BY <1>1, <3>1, <3>2
  <2> QED
    BY <1>1, <2>1, <2>2, <2>3 DEF ToSet
<1>6. IsInjective(s) /\ x \notin ToSet(s) => IsInjective(r)
  BY <1>1, <1>3, <1>4 DEF IsInjective, ToSet
<1> QED
  BY <1>2, <1>3, <1>5, <1>6 DEF r

LEMMA ToSetRemoveFirst ==
  ASSUME NEW S, NEW s \in Seq(S), IsInjective(s), NEW i \in DOMAIN s
  PROVE  /\ RemoveFirst(s, s[i]) = RemoveAt(s, i)
         /\ ToSet(RemoveFirst(s, s[i])) = ToSet(s) \ {s[i]}
<1>1. Len(s) \in Nat /\ DOMAIN s = 1..Len(s)
  OBVIOUS
<1>2. {j \in 1..Len(s) : s[j] = s[i]} = {i}
  BY <1>1 DEF IsInjective
<1>3. Min({i}) = i
  BY <1>1 DEF Min
<1>4. SelectInSeq(s, LAMBDA v : v = s[i]) = i
  BY <1>2, <1>3 DEF SelectInSeq
<1>5. RemoveFirst(s, s[i]) = RemoveAt(s, i)
  BY <1>1, <1>4 DEF RemoveFirst
<1> DEFINE r == RemoveAt(s, i)
<1>6. /\ r \in Seq(S) /\ Len(r) = Len(s) - 1
      /\ \A j \in 1..(Len(s) - 1) : r[j] = IF j < i THEN s[j] ELSE s[j + 1]
  BY ToSetRemoveAt
<1>7. DOMAIN r = 1..(Len(s) - 1)
  BY <1>1, <1>6
<1> HIDE DEF r
<1>8. ToSet(r) \subseteq ToSet(s) \ {s[i]}
  BY <1>1, <1>6, <1>7 DEF ToSet, IsInjective
<1>9. ASSUME NEW j \in 1..Len(s), j # i
      PROVE  s[j] \in ToSet(r)
  <2>1. CASE j < i
    <3>1. r[j] = s[j] /\ j \in DOMAIN r
      BY <1>1, <1>6, <1>7, <2>1
    <3> QED
      BY <3>1 DEF ToSet
  <2>2. CASE j > i
    <3>1. r[j - 1] = s[j] /\ j - 1 \in DOMAIN r
      BY <1>1, <1>6, <1>7, <2>2
    <3> QED
      BY <3>1 DEF ToSet
  <2> QED
    BY <1>1, <1>9, <2>1, <2>2
<1> QED
  BY <1>1, <1>5, <1>8, <1>9 DEF ToSet, r

-----------------------------------------------------------------------------
(* A list behind another: what happens at the ends of the second, and at   *)
(* the front of the first, happens to the whole.                           *)

LEMMA AppendConcat ==
  ASSUME NEW S, NEW s \in Seq(S), NEW t \in Seq(S), NEW x \in S
  PROVE  s \o Append(t, x) = Append(s \o t, x)
<1>1. <<x>> \in Seq(S) /\ s \o t \in Seq(S)
  OBVIOUS
<1>2. Append(t, x) = t \o <<x>> /\ Append(s \o t, x) = (s \o t) \o <<x>>
  BY <1>1, AppendIsConcat
<1> QED
  BY <1>1, <1>2, ConcatAssociative

LEMMA HeadTailConcat ==
  ASSUME NEW S, NEW s \in Seq(S), NEW t \in Seq(S), s # <<>>
  PROVE  /\ s \o t # <<>>
         /\ Head(s \o t) = Head(s)
         /\ Tail(s \o t) = Tail(s) \o t
<1>1. /\ s \o t \in Seq(S) /\ Len(s \o t) = Len(s) + Len(t)
      /\ \A i \in 1..(Len(s) + Len(t)) :
           (s \o t)[i] = IF i <= Len(s) THEN s[i] ELSE t[i - Len(s)]
      /\ Len(s) \in Nat \ {0} /\ Len(t) \in Nat
  BY ConcatProperties, EmptySeq, LenProperties
<1>2. s \o t # <<>> /\ Head(s \o t) = Head(s)
  BY <1>1
<1>3. /\ Tail(s) \in Seq(S) /\ Len(Tail(s)) = Len(s) - 1
      /\ \A i \in 1..(Len(s) - 1) : Tail(s)[i] = s[i + 1]
  BY HeadTailProperties
<1>4. /\ Tail(s \o t) \in Seq(S) /\ Len(Tail(s \o t)) = Len(s) + Len(t) - 1
      /\ \A i \in 1..(Len(s) + Len(t) - 1) : Tail(s \o t)[i] = (s \o t)[i + 1]
  BY <1>1, <1>2, HeadTailProperties
<1>5. /\ Tail(s) \o t \in Seq(S) /\ Len(Tail(s) \o t) = Len(s) - 1 + Len(t)
      /\ \A i \in 1..(Len(s) - 1 + Len(t)) :
           (Tail(s) \o t)[i] = IF i <= Len(s) - 1 THEN Tail(s)[i] ELSE t[i - (Len(s) - 1)]
  BY <1>3, ConcatProperties
<1>6. ASSUME NEW i \in 1..(Len(s) + Len(t) - 1)
      PROVE  Tail(s \o t)[i] = (Tail(s) \o t)[i]
  <2>1. Tail(s \o t)[i] = IF i + 1 <= Len(s) THEN s[i + 1] ELSE t[i + 1 - Len(s)]
    BY <1>1, <1>4
  <2>2. (Tail(s) \o t)[i] = IF i <= Len(s) - 1 THEN s[i + 1] ELSE t[i - (Len(s) - 1)]
    BY <1>1, <1>3, <1>5
  <2>3. i + 1 - Len(s) = i - (Len(s) - 1)
    BY <1>1
  <2> QED
    BY <1>1, <2>1, <2>2, <2>3
<1>7. Len(Tail(s \o t)) = Len(Tail(s) \o t)
  BY <1>1, <1>4, <1>5
<1>8. Tail(s \o t) = Tail(s) \o t
  BY <1>1, <1>4, <1>5, <1>6, <1>7, SeqEqual
<1> QED
  BY <1>2, <1>8

LEMMA RemoveAtConcat ==
  ASSUME NEW S, NEW s \in Seq(S), NEW t \in Seq(S), NEW i \in DOMAIN t
  PROVE  /\ Len(s) + i \in DOMAIN (s \o t)
         /\ RemoveAt(s \o t, Len(s) + i) = s \o RemoveAt(t, i)
<1> DEFINE n == Len(s)
           m == Len(t)
           k == n + i
           w == s \o t
           v == RemoveAt(t, i)
<1>1. n \in Nat /\ m \in Nat /\ i \in 1..m
  BY LenProperties
<1>2. /\ w \in Seq(S) /\ Len(w) = n + m /\ DOMAIN w = 1..(n + m)
      /\ \A j \in 1..(n + m) : w[j] = IF j <= n THEN s[j] ELSE t[j - n]
  BY ConcatProperties, LenProperties
<1>3. /\ v \in Seq(S) /\ Len(v) = m - 1
      /\ \A j \in 1..(m - 1) : v[j] = IF j < i THEN t[j] ELSE t[j + 1]
  BY ToSetRemoveAt
<1> HIDE DEF w, v
<1>4. /\ s \o v \in Seq(S) /\ Len(s \o v) = n + (m - 1)
      /\ \A j \in 1..(n + (m - 1)) : (s \o v)[j] = IF j <= n THEN s[j] ELSE v[j - n]
  <2>1. Len(v) = m - 1 /\ Len(s) = n
    BY <1>3
  <2>2. /\ s \o v \in Seq(S) /\ Len(s \o v) = Len(s) + Len(v)
        /\ \A j \in 1..(Len(s) + Len(v)) :
             (s \o v)[j] = IF j <= Len(s) THEN s[j] ELSE v[j - Len(s)]
    BY <1>3, ConcatProperties
  <2> HIDE DEF n, m
  <2> QED
    BY <2>1, <2>2
<1>k. k \in Int /\ k = n + i
  BY <1>1
<1> HIDE DEF n, m, k
<1>5. k \in DOMAIN w
  BY <1>1, <1>2, <1>k
<1>6. /\ RemoveAt(w, k) \in Seq(S) /\ Len(RemoveAt(w, k)) = Len(w) - 1
      /\ \A j \in 1..(Len(w) - 1) : RemoveAt(w, k)[j] = IF j < k THEN w[j] ELSE w[j + 1]
  BY <1>2, <1>5, ToSetRemoveAt
<1>7. Len(w) - 1 = n + (m - 1)
  BY <1>1, <1>2
<1>8. ASSUME NEW j \in 1..(n + (m - 1))
      PROVE  RemoveAt(w, k)[j] = (s \o v)[j]
  <2>1. j \in 1..(n + m) /\ j + 1 \in 1..(n + m)
    BY <1>1
  <2>2. CASE j <= n
    <3>1. j < k
      BY <1>1, <1>k, <2>2
    <3> QED
      BY <1>2, <1>4, <1>6, <1>7, <2>1, <2>2, <3>1
  <2>3. CASE j > n /\ j < k
    <3>1. j - n \in 1..(m - 1) /\ j - n < i
      BY <1>1, <1>k, <2>3
    <3>2. RemoveAt(w, k)[j] = t[j - n]
      BY <1>1, <1>2, <1>6, <1>7, <2>1, <2>3
    <3>3. (s \o v)[j] = v[j - n]
      BY <1>1, <1>4, <2>3
    <3> QED
      BY <1>3, <3>1, <3>2, <3>3
  <2>4. CASE j >= k
    <3>1. j - n \in 1..(m - 1) /\ ~(j - n < i) /\ (j + 1) - n = (j - n) + 1
      BY <1>1, <1>k, <2>4
    <3>2. RemoveAt(w, k)[j] = t[(j - n) + 1]
      <4>1. RemoveAt(w, k)[j] = w[j + 1]
        <5>1. j \in 1..(Len(w) - 1) /\ ~(j < k)
          BY <1>1, <1>7, <1>k, <2>4
        <5> QED
          BY <1>6, <5>1
      <4>2. w[j + 1] = t[(j + 1) - n]
        BY <1>1, <1>2, <1>k, <2>1, <2>4
      <4> QED
        BY <3>1, <4>1, <4>2
    <3>3. (s \o v)[j] = v[j - n]
      BY <1>1, <1>4, <1>k, <2>4
    <3> QED
      BY <1>3, <3>1, <3>2, <3>3
  <2>5. j <= n \/ (j > n /\ j < k) \/ j >= k
    BY <1>1, <1>k
  <2> QED
    BY <2>2, <2>3, <2>4, <2>5
<1>9. RemoveAt(w, k) = s \o v
  BY <1>4, <1>6, <1>7, <1>8, SeqEqual
<1> QED
  BY <1>5, <1>9 DEF k, n, w, v

-----------------------------------------------------------------------------
(* A list of objects seen as the list of what a field of each says.        *)

Mapped(f, s) == [i \in DOMAIN s |-> f[s[i]]]

Images(f, R) == {f[r] : r \in R}

LEMMA MappedSeq ==
  ASSUME NEW R, NEW f, NEW s \in Seq(R)
  PROVE  Mapped(f, s) \in Seq(Images(f, R)) /\ Len(Mapped(f, s)) = Len(s)
<1> DEFINE F == Images(f, R)
<1>1. Len(s) \in Nat /\ DOMAIN s = 1..Len(s) /\ \A i \in 1..Len(s) : s[i] \in R
  OBVIOUS
<1>2. Mapped(f, s) \in [1..Len(s) -> F]
  BY <1>1 DEF Mapped, Images
<1> HIDE DEF F
<1>3. Mapped(f, s) \in Seq(F) /\ Len(Mapped(f, s)) = Len(s)
  BY <1>1, <1>2
<1> QED
  BY <1>3 DEF F

LEMMA MappedAt ==
  ASSUME NEW f, NEW s, NEW i \in DOMAIN s
  PROVE  Mapped(f, s)[i] = f[s[i]]
BY DEF Mapped

LEMMA MappedTyped ==
  ASSUME NEW R, NEW F, NEW f \in [R -> F], NEW s \in Seq(R)
  PROVE  Mapped(f, s) \in Seq(F)
<1>1. Images(f, R) \subseteq F
  BY DEF Images
<1>2. Mapped(f, s) \in Seq(Images(f, R))
  BY MappedSeq
<1> QED
  BY <1>1, <1>2, SeqMonotonic

LEMMA MappedSame ==
  ASSUME NEW f, NEW g, NEW s, \A r \in ToSet(s) : f[r] = g[r]
  PROVE  Mapped(f, s) = Mapped(g, s)
BY DEF Mapped, ToSet

LEMMA MappedAppend ==
  ASSUME NEW R, NEW f, NEW s \in Seq(R), NEW r \in R
  PROVE  Mapped(f, Append(s, r)) = Append(Mapped(f, s), f[r])
<1> DEFINE F == Images(f, R)
           a == Append(s, r)
           m == Mapped(f, s)
           b == Append(m, f[r])
<1>1. /\ a \in Seq(R) /\ Len(a) = Len(s) + 1 /\ a[Len(s) + 1] = r
      /\ \A i \in 1..Len(s) : a[i] = s[i]
      /\ Len(s) \in Nat
  BY AppendProperties, LenProperties
<1>2. m \in Seq(F) /\ Len(m) = Len(s) /\ \A i \in 1..Len(s) : m[i] = f[s[i]]
  <2>1. DOMAIN s = 1..Len(s)
    BY LenProperties
  <2> QED
    BY <2>1, MappedSeq, MappedAt
<1>3. f[r] \in F
  BY DEF Images
<1> HIDE DEF a, m
<1>4. /\ Mapped(f, a) \in Seq(F) /\ Len(Mapped(f, a)) = Len(s) + 1
      /\ \A i \in 1..(Len(s) + 1) : Mapped(f, a)[i] = f[a[i]]
  <2>1. DOMAIN a = 1..(Len(s) + 1)
    BY <1>1, LenProperties
  <2>2. Mapped(f, a) \in Seq(F) /\ Len(Mapped(f, a)) = Len(a)
    BY <1>1, MappedSeq
  <2>3. \A i \in 1..(Len(s) + 1) : Mapped(f, a)[i] = f[a[i]]
    BY <2>1, MappedAt
  <2> QED
    BY <1>1, <2>2, <2>3
<1> HIDE DEF F
<1>5. /\ b \in Seq(F) /\ Len(b) = Len(s) + 1 /\ b[Len(s) + 1] = f[r]
      /\ \A i \in 1..Len(s) : b[i] = m[i]
  BY <1>2, <1>3, AppendProperties
<1> HIDE DEF b
<1>6. \A i \in 1..(Len(s) + 1) : Mapped(f, a)[i] = b[i]
  BY <1>1, <1>2, <1>4, <1>5
<1>7. Mapped(f, a) = b
  BY <1>4, <1>5, <1>6, SeqEqual
<1> QED
  BY <1>7 DEF a, b, m

LEMMA MappedTail ==
  ASSUME NEW R, NEW f, NEW s \in Seq(R), s # <<>>
  PROVE  Mapped(f, Tail(s)) = Tail(Mapped(f, s)) /\ Head(Mapped(f, s)) = f[Head(s)]
<1> DEFINE F == Images(f, R)
           m == Mapped(f, s)
           t == Tail(s)
<1>1. /\ t \in Seq(R) /\ Len(t) = Len(s) - 1
      /\ \A i \in 1..(Len(s) - 1) : t[i] = s[i + 1]
      /\ Len(s) \in Nat \ {0}
  BY HeadTailProperties, EmptySeq
<1>2. /\ m \in Seq(F) /\ Len(m) = Len(s) /\ m # <<>>
      /\ \A i \in 1..Len(s) : m[i] = f[s[i]]
  <2>1. DOMAIN s = 1..Len(s)
    BY LenProperties
  <2>2. m \in Seq(F) /\ Len(m) = Len(s) /\ \A i \in 1..Len(s) : m[i] = f[s[i]]
    BY <2>1, MappedSeq, MappedAt
  <2> QED
    BY <1>1, <2>2, EmptySeq
<1> HIDE DEF m, t
<1>3. /\ Mapped(f, t) \in Seq(F) /\ Len(Mapped(f, t)) = Len(s) - 1
      /\ \A i \in 1..(Len(s) - 1) : Mapped(f, t)[i] = f[t[i]]
  <2>1. DOMAIN t = 1..(Len(s) - 1)
    BY <1>1, LenProperties
  <2>2. Mapped(f, t) \in Seq(F) /\ Len(Mapped(f, t)) = Len(t)
    BY <1>1, MappedSeq
  <2>3. \A i \in 1..(Len(s) - 1) : Mapped(f, t)[i] = f[t[i]]
    BY <2>1, MappedAt
  <2> QED
    BY <1>1, <2>2, <2>3
<1> HIDE DEF F
<1>4. /\ Tail(m) \in Seq(F) /\ Len(Tail(m)) = Len(s) - 1
      /\ \A i \in 1..(Len(s) - 1) : Tail(m)[i] = m[i + 1]
  BY <1>2, HeadTailProperties
<1>5. ASSUME NEW i \in 1..(Len(s) - 1)
      PROVE  Mapped(f, t)[i] = Tail(m)[i]
  <2>1. i + 1 \in 1..Len(s)
    BY <1>1
  <2>2. Mapped(f, t)[i] = f[s[i + 1]]
    BY <1>1, <1>3
  <2>3. Tail(m)[i] = f[s[i + 1]]
    BY <1>2, <1>4, <2>1
  <2> QED
    BY <2>2, <2>3
<1>6. Mapped(f, t) = Tail(m)
  BY <1>3, <1>4, <1>5, SeqEqual
<1>7. Head(m) = f[Head(s)]
  BY <1>1, <1>2
<1> QED
  BY <1>6, <1>7 DEF m, t

LEMMA MappedRemoveAt ==
  ASSUME NEW R, NEW f, NEW s \in Seq(R), NEW i \in DOMAIN s
  PROVE  i \in DOMAIN Mapped(f, s) /\ Mapped(f, RemoveAt(s, i)) = RemoveAt(Mapped(f, s), i)
<1> DEFINE F == Images(f, R)
           n == Len(s)
           m == Mapped(f, s)
           v == RemoveAt(s, i)
<1>1. n \in Nat /\ i \in 1..n
  OBVIOUS
<1>2. m \in Seq(F) /\ Len(m) = n /\ \A j \in 1..n : m[j] = f[s[j]]
  <2>1. DOMAIN s = 1..Len(s)
    BY LenProperties
  <2> QED
    BY <2>1, MappedSeq, MappedAt
<1>3. /\ v \in Seq(R) /\ Len(v) = n - 1
      /\ \A j \in 1..(n - 1) : v[j] = IF j < i THEN s[j] ELSE s[j + 1]
  BY ToSetRemoveAt
<1> HIDE DEF n, m, v
<1>4. /\ Mapped(f, v) \in Seq(F) /\ Len(Mapped(f, v)) = n - 1
      /\ \A j \in 1..(n - 1) : Mapped(f, v)[j] = f[v[j]]
  <2>1. DOMAIN v = 1..(n - 1)
    BY <1>3, LenProperties
  <2>2. Mapped(f, v) \in Seq(F) /\ Len(Mapped(f, v)) = Len(v)
    BY <1>3, MappedSeq
  <2>3. \A j \in DOMAIN v : Mapped(f, v)[j] = f[v[j]]
    BY MappedAt
  <2> QED
    BY <1>3, <2>1, <2>2, <2>3
<1> HIDE DEF F
<1>5. i \in DOMAIN m
  BY <1>1, <1>2
<1>6. /\ RemoveAt(m, i) \in Seq(F) /\ Len(RemoveAt(m, i)) = n - 1
      /\ \A j \in 1..(n - 1) : RemoveAt(m, i)[j] = IF j < i THEN m[j] ELSE m[j + 1]
  BY <1>2, <1>5, ToSetRemoveAt
<1>7. ASSUME NEW j \in 1..(n - 1)
      PROVE  Mapped(f, v)[j] = RemoveAt(m, i)[j]
  <2>1. j \in 1..n /\ j + 1 \in 1..n
    BY <1>1
  <2>2. CASE j < i
    BY <1>2, <1>3, <1>4, <1>6, <2>1, <2>2
  <2>3. CASE ~(j < i)
    BY <1>2, <1>3, <1>4, <1>6, <2>1, <2>3
  <2> QED
    BY <2>2, <2>3
<1>8. Mapped(f, v) = RemoveAt(m, i)
  BY <1>4, <1>6, <1>7, SeqEqual
<1> QED
  BY <1>5, <1>8 DEF m, v

-----------------------------------------------------------------------------
(* Positions in a list.  What holds at 0 and goes on from each number to   *)
(* the next holds up to any N: else there would be a least number at which *)
(* it fails.  So what a recursive function computes along a list can be    *)
(* proved without a theorem on predicates.                                 *)

LEMMA LeastIndex ==
  ASSUME NEW N \in Nat, NEW S \in SUBSET (1..N), S # {}
  PROVE  Min(S) \in S /\ \A i \in S : Min(S) <= i
<1> DEFINE T == {1..i : i \in S}
<1>0. \A i \in S : i \in Nat /\ 1..i \subseteq 1..N
  OBVIOUS
<1>1. T \subseteq SUBSET (1..N) /\ T # {}
  BY <1>0
<1>2. FiniteSubsetsOf(1..N) = SUBSET (1..N)
  <2>1. IsFiniteSet(1..N)
    BY FS_Interval
  <2> QED
    BY <2>1, FS_FiniteSubsetsOfFinite, Zenon
<1>3. IsWellFoundedOn(StrictSubsetOrdering(1..N), SUBSET (1..N))
  BY <1>2, FS_StrictSubsetOrderingWellFounded
<1> HIDE DEF T
<1>4. PICK x \in T : \A y \in T : ~ (<<y, x>> \in StrictSubsetOrdering(1..N))
  BY <1>1, <1>3, WFMin
<1> USE DEF T
<1>5. PICK m \in S : x = 1..m
  OBVIOUS
<1>6. ASSUME NEW i \in S
      PROVE  m <= i
  <2>1. SUFFICES ASSUME i < m PROVE FALSE
    OBVIOUS
  <2>2. 1..i \in T /\ 1..i \subseteq 1..m /\ m \in 1..m /\ m \notin 1..i
    BY <2>1
  <2>3. <<1..i, x>> \in StrictSubsetOrdering(1..N)
    BY <1>1, <1>5, <2>2 DEF StrictSubsetOrdering
  <2> QED
    BY <1>4, <2>2, <2>3
<1> QED
  BY <1>6 DEF Min

LEMMA GoesOn ==
  ASSUME NEW N \in Nat, NEW S, 0 \in S, \A k \in 0..(N - 1) : k \in S => k + 1 \in S
  PROVE  0..N \subseteq S
<1> DEFINE T == {k \in 1..N : k \notin S}
<1> SUFFICES ASSUME T # {} PROVE FALSE
  OBVIOUS
<1>1. Min(T) \in T /\ \A i \in T : Min(T) <= i
  <2> HIDE DEF T
  <2>1. T \subseteq 1..N
    BY DEF T
  <2> QED
    BY <2>1, LeastIndex
<1>2. PICK m \in T : \A i \in T : m <= i
  BY <1>1
<1>3. m - 1 \in 0..(N - 1) /\ m - 1 \in S /\ (m - 1) + 1 = m
  BY <1>2
<1> QED
  BY <1>2, <1>3

\* There is a list of values that begins with a and goes on as F says, as long
\* as F leads from the values allowed at a place to those allowed at the next.
Iterates(g, n, W, F, a) ==
  /\ g = [k \in 0..n |-> g[k]] /\ g[0] = a
  /\ \A k \in 0..n : g[k] \in W[k]
  /\ \A k \in 1..n : g[k] = F[k][g[k - 1]]

LEMMA Iterated ==
  ASSUME NEW N \in Nat, NEW W, NEW F, NEW a \in W[0],
         \A k \in 1..N : \A x \in W[k - 1] : F[k][x] \in W[k]
  PROVE  \E g : Iterates(g, N, W, F, a)
<1> DEFINE Upto(g, n) == Iterates(g, n, W, F, a)
           S == {n \in 0..N : \E g : Upto(g, n)}
<1>1. 0 \in S
  <2> DEFINE g == [k \in 0..0 |-> a]
  <2>1. \A k \in 0..0 : k = 0 /\ g[k] = a
    OBVIOUS
  <2>2. g = [k \in 0..0 |-> g[k]]
    OBVIOUS
  <2> HIDE DEF g
  <2>3. Upto(g, 0)
    BY <2>1, <2>2 DEF Iterates
  <2> QED
    BY <2>3
<1>2. ASSUME NEW n \in 0..(N - 1), n \in S
      PROVE  n + 1 \in S
  <2>1. PICK g : Upto(g, n)
    BY <1>2
  <2> DEFINE h == [k \in 0..(n + 1) |-> IF k <= n THEN g[k] ELSE F[n + 1][g[n]]]
  <2>2. h = [k \in 0..(n + 1) |-> h[k]]
    OBVIOUS
  <2>3. (\A k \in 0..n : h[k] = g[k]) /\ h[n + 1] = F[n + 1][g[n]]
    OBVIOUS
  <2> HIDE DEF h
  <2>4. h[n + 1] \in W[n + 1]
    <3>1. n + 1 \in 1..N /\ (n + 1) - 1 = n /\ n \in 0..n
      OBVIOUS
    <3>2. g[n] \in W[(n + 1) - 1]
      BY <2>1, <3>1 DEF Iterates
    <3> QED
      BY <2>3, <3>1, <3>2
  <2>5. \A k \in 0..(n + 1) : h[k] \in W[k]
    BY <2>1, <2>3, <2>4 DEF Iterates
  <2>6. \A k \in 1..(n + 1) : h[k] = F[k][h[k - 1]]
    <3> TAKE k \in 1..(n + 1)
    <3>1. CASE k \in 1..n
      <4>1. k \in 0..n /\ k - 1 \in 0..n
        BY <3>1
      <4> QED
        BY <2>1, <2>3, <3>1, <4>1 DEF Iterates
    <3>2. CASE k = n + 1
      <4>1. k - 1 = n /\ n \in 0..n
        BY <3>2
      <4> QED
        BY <2>3, <3>2, <4>1
    <3> QED
      BY <3>1, <3>2
  <2>7. h[0] = a
    BY <2>1, <2>3 DEF Iterates
  <2>8. Upto(h, n + 1)
    BY <2>2, <2>5, <2>6, <2>7 DEF Iterates
  <2>9. n + 1 \in 0..N
    OBVIOUS
  <2> HIDE DEF Upto
  <2> QED
    BY <2>8, <2>9
<1>3. N \in S
  <2> HIDE DEF S
  <2>1. 0..N \subseteq S
    BY <1>1, <1>2, GoesOn
  <2> QED
    BY <2>1
<1> QED
  BY <1>3

=============================================================================
