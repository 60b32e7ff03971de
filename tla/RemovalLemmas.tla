---------------------------- MODULE RemovalLemmas ----------------------------
(* What the library's theorems about sequences do not say of RemoveAt. *)
EXTENDS Integers, SequencesExt, SequenceTheorems, TLAPS

\* What is before the element removed stays in its place, what is behind moves up.
LEMMA RemoveAtElements ==
  ASSUME NEW S, NEW s \in Seq(S), NEW i \in DOMAIN s
  PROVE  /\ RemoveAt(s, i) \in Seq(S) /\ Len(RemoveAt(s, i)) = Len(s) - 1
         /\ \A j \in 1 .. Len(s) - 1 :
              RemoveAt(s, i)[j] = IF j < i THEN s[j] ELSE s[j + 1]
<1>0. Len(s) \in Nat /\ i \in 1 .. Len(s)
  OBVIOUS
<1> DEFINE before == SubSeq(s, 1, i - 1)
           after  == SubSeq(s, i + 1, Len(s))
           left   == before \o after
<1>1. /\ before \in Seq(S) /\ Len(before) = i - 1
      /\ \A j \in 1 .. i - 1 : before[j] = s[j]
  BY SubSeqProperties
<1>2. /\ after \in Seq(S) /\ Len(after) = Len(s) - i
      /\ \A j \in 1 .. Len(s) - i : after[j] = s[i + j]
  BY SubSeqProperties
<1> HIDE DEF before, after
<1>3. /\ left \in Seq(S) /\ Len(left) = Len(s) - 1
      /\ \A j \in 1 .. Len(s) - 1 :
           left[j] = IF j <= i - 1 THEN before[j] ELSE after[j - (i - 1)]
  BY <1>1, <1>2, ConcatProperties
<1> HIDE DEF left
<1>4. \A j \in 1 .. Len(s) - 1 : left[j] = IF j < i THEN s[j] ELSE s[j + 1]
  <2> SUFFICES ASSUME NEW j \in 1 .. Len(s) - 1
               PROVE  left[j] = IF j < i THEN s[j] ELSE s[j + 1]
    OBVIOUS
  <2>1. CASE j < i
    BY <2>1, <1>1, <1>3
  <2>2. CASE j >= i
    <3> DEFINE k == j - (i - 1)
    <3>1. k \in 1 .. Len(s) - i /\ i + k = j + 1
      BY <2>2, <1>0
    <3>0. ~(j <= i - 1)
      BY <2>2, <1>0
    <3>2. left[j] = after[k]
      BY <3>0, <1>3
    <3>3. after[k] = s[i + k]
      BY <3>1, <1>2
    <3> QED
      BY <3>1, <3>2, <3>3, <2>2
  <2> QED
    BY <2>1, <2>2
<1>5. RemoveAt(s, i) = left
  BY DEF RemoveAt, left, before, after
<1> QED
  BY <1>3, <1>4, <1>5

\* What is left when a pending call has returned.
LEMMA RemoveAtType ==
  ASSUME NEW S, NEW s \in Seq(S), NEW i \in DOMAIN s
  PROVE  /\ RemoveAt(s, i) \in Seq(S) /\ Len(RemoveAt(s, i)) = Len(s) - 1
         /\ \A j \in DOMAIN RemoveAt(s, i) : \E k \in DOMAIN s : RemoveAt(s, i)[j] = s[k]
<1> DEFINE left == RemoveAt(s, i)
<1>1. left \in Seq(S) /\ Len(left) = Len(s) - 1
  BY RemoveAtElements
<1>2. \A j \in 1 .. Len(s) - 1 : left[j] = IF j < i THEN s[j] ELSE s[j + 1]
  BY RemoveAtElements
<1> HIDE DEF left
<1>3. ASSUME NEW j \in DOMAIN left PROVE \E k \in DOMAIN s : left[j] = s[k]
  <2>1. j \in 1 .. Len(s) - 1 /\ j \in DOMAIN s /\ j + 1 \in DOMAIN s
    BY <1>1
  <2> QED
    BY <1>2, <2>1
<1> QED
  BY <1>1, <1>3 DEF left

\* Nobody but the call that has returned is gone.
LEMMA RemoveAtRange ==
  ASSUME NEW S, NEW s \in Seq(S), NEW i \in DOMAIN s
  PROVE  /\ Range(RemoveAt(s, i)) \subseteq Range(s)
         /\ Range(s) \subseteq Range(RemoveAt(s, i)) \cup {s[i]}
<1> DEFINE left == RemoveAt(s, i)
<1>1. left \in Seq(S) /\ Len(left) = Len(s) - 1
  BY RemoveAtElements
<1>2. \A j \in 1 .. Len(s) - 1 : left[j] = IF j < i THEN s[j] ELSE s[j + 1]
  BY RemoveAtElements
<1>3. \A j \in DOMAIN left : \E k \in DOMAIN s : left[j] = s[k]
  BY RemoveAtType
<1> HIDE DEF left
<1>4. ASSUME NEW k \in DOMAIN s, k # i
      PROVE  \E j \in DOMAIN left : left[j] = s[k]
  <2>1. CASE k < i
    <3>1. k \in DOMAIN left /\ left[k] = s[k]
      BY <1>1, <1>2, <2>1
    <3> QED
      BY <3>1
  <2>2. CASE k > i
    <3>1. k - 1 \in 1 .. Len(s) - 1 /\ ~ (k - 1 < i) /\ k - 1 + 1 = k
      BY <2>2
    <3>2. k - 1 \in DOMAIN left /\ left[k - 1] = s[k]
      BY <1>1, <1>2, <3>1
    <3> QED
      BY <3>2
  <2> QED
    BY <1>4, <2>1, <2>2
<1> QED
  BY <1>3, <1>4 DEF Range, left

\* Where everybody is once, he who leaves is gone and the others are there once.
LEMMA RemoveAtInjective ==
  ASSUME NEW S, NEW s \in Seq(S), NEW i \in DOMAIN s, IsInjective(s)
  PROVE  IsInjective(RemoveAt(s, i)) /\ Range(RemoveAt(s, i)) = Range(s) \ {s[i]}
<1> DEFINE left == RemoveAt(s, i)
           at(j) == IF j < i THEN j ELSE j + 1
<1>1. left \in Seq(S) /\ Len(left) = Len(s) - 1
  BY RemoveAtElements
<1>2. \A j \in 1 .. Len(s) - 1 : left[j] = IF j < i THEN s[j] ELSE s[j + 1]
  BY RemoveAtElements
<1>3. Range(left) \subseteq Range(s) /\ Range(s) \subseteq Range(left) \cup {s[i]}
  BY RemoveAtRange
<1> HIDE DEF left
<1>4. DOMAIN left = 1 .. Len(s) - 1
  BY <1>1
<1>5. \A j \in DOMAIN left : at(j) \in DOMAIN s /\ at(j) # i /\ left[j] = s[at(j)]
  BY <1>2, <1>4
<1>6. \A j, k \in DOMAIN left : at(j) = at(k) => j = k
  BY <1>4
<1> HIDE DEF at
<1>7. IsInjective(left)
  BY <1>5, <1>6 DEF IsInjective
<1>8. s[i] \notin Range(left)
  BY <1>5 DEF IsInjective, Range
<1> QED
  BY <1>3, <1>7, <1>8 DEF left

\* Whoever is first stays first when somebody behind him leaves.
LEMMA RemoveAtKeepsHead ==
  ASSUME NEW S, NEW s \in Seq(S), NEW i \in DOMAIN s, i # 1
  PROVE  RemoveAt(s, i) # <<>> /\ Head(RemoveAt(s, i)) = Head(s)
<1> DEFINE left == RemoveAt(s, i)
<1>1. left \in Seq(S) /\ Len(left) = Len(s) - 1
  BY RemoveAtElements
<1>2. 1 \in 1 .. Len(s) - 1 /\ 1 < i
  OBVIOUS
<1>3. left[1] = s[1]
  BY <1>2, RemoveAtElements
<1> HIDE DEF left
<1>4. left # <<>> /\ Head(left) = left[1] /\ Head(s) = s[1]
  BY <1>1, <1>2
<1> QED
  BY <1>3, <1>4 DEF left
=============================================================================
