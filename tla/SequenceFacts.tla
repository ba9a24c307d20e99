--------------------------- MODULE SequenceFacts ---------------------------
(***************************************************************************)
(* What the operations on sequences that the models use return, element by *)
(* element and as sets of elements, and the least element of a set of      *)
(* natural numbers.  The proofs about the components cite these facts.     *)
(***************************************************************************)
EXTENDS SequencesExt, SequenceTheorems, FiniteSetTheorems, WellFoundedInduction, TLAPS

(* A nonempty set of positions has a first one.                            *)
LEMMA FirstPositionExists ==
  ASSUME NEW P \in SUBSET Nat, P # {}
  PROVE  \E k \in P : \A j \in P : k <= j
<1>1. \E k \in P : \A j \in P : ~ (<<j, k>> \in OpToRel(<, Nat))
  BY NatLessThanWellFounded, WFMin
<1>2. PICK k \in P : \A j \in P : ~ (<<j, k>> \in OpToRel(<, Nat))
  BY <1>1
<1>3. ASSUME NEW j \in P PROVE k <= j
  <2>1. ~ (j < k)
    BY <1>2 DEF OpToRel
  <2> QED  BY <2>1
<1> QED  BY <1>3

(* RemoveAt closes the gap and changes nothing else.                       *)
LEMMA RemoveAtProperties ==
  ASSUME NEW S, NEW s \in Seq(S), NEW p \in 1 .. Len(s)
  PROVE  /\ RemoveAt(s, p) \in Seq(S)
         /\ Len(RemoveAt(s, p)) = Len(s) - 1
         /\ \A k \in 1 .. (Len(s) - 1) :
              RemoveAt(s, p)[k] = IF k < p THEN s[k] ELSE s[k + 1]
<1> DEFINE n == Len(s)
           left == SubSeq(s, 1, p - 1)
           right == SubSeq(s, p + 1, n)
<1>1. RemoveAt(s, p) = left \o right
  BY DEF RemoveAt
<1>2. n \in Nat /\ p \in 1 .. n
  BY LenProperties
<1>3. /\ left \in Seq(S) /\ Len(left) = p - 1
      /\ \A k \in 1 .. (p - 1) : left[k] = s[k]
  <2>1. \A k \in 1 .. (p - 1) : s[k] \in S
    BY <1>2, ElementOfSeq
  <2> QED  BY <1>2, <2>1, SubSeqProperties
<1>4. /\ right \in Seq(S) /\ Len(right) = n - p
      /\ \A k \in 1 .. (n - p) : right[k] = s[p + k]
  <2>1. \A k \in (p + 1) .. n : s[k] \in S
    BY <1>2, ElementOfSeq
  <2>2. /\ right \in Seq(S)
        /\ Len(right) = IF p + 1 <= n THEN n - (p + 1) + 1 ELSE 0
        /\ \A k \in 1 .. n - (p + 1) + 1 : right[k] = s[(p + 1) + k - 1]
    BY <1>2, <2>1, SubSeqProperties
  <2> QED  BY <1>2, <2>2
<1> HIDE DEF n, left, right
<1>5. /\ left \o right \in Seq(S)
      /\ Len(left \o right) = Len(left) + Len(right)
      /\ \A k \in 1 .. Len(left) + Len(right) :
           (left \o right)[k] = IF k <= Len(left) THEN left[k] ELSE right[k - Len(left)]
  BY <1>3, <1>4, ConcatProperties
<1>6. Len(left) + Len(right) = n - 1
  BY <1>2, <1>3, <1>4
<1>7. ASSUME NEW k \in 1 .. (n - 1)
      PROVE  (left \o right)[k] = IF k < p THEN s[k] ELSE s[k + 1]
  <2>1. CASE k < p
    <3>1. k \in 1 .. (p - 1) /\ k <= Len(left)
      BY <1>2, <1>3, <2>1
    <3> QED  BY <1>3, <1>5, <1>6, <2>1, <3>1
  <2>2. CASE ~(k < p)
    <3>1. ~(k <= Len(left)) /\ k - Len(left) \in 1 .. (n - p)
          /\ k - Len(left) = k - p + 1 /\ p + (k - p + 1) = k + 1
      BY <1>2, <1>3, <2>2
    <3>2. (left \o right)[k] = right[k - Len(left)]
      BY <1>5, <1>6, <3>1
    <3> QED  BY <1>4, <2>2, <3>1, <3>2
  <2> QED  BY <2>1, <2>2
<1> QED  BY <1>1, <1>5, <1>6, <1>7 DEF n

(* The elements of a sequence, and those of what the operations make of it.*)
LEMMA RangeOfConcat ==
  ASSUME NEW S, NEW s \in Seq(S), NEW t \in Seq(S)
  PROVE  Range(s \o t) = Range(s) \cup Range(t)
BY RangeConcatenation

LEMMA ConcatType ==
  ASSUME NEW S, NEW s \in Seq(S), NEW t \in Seq(S)
  PROVE  s \o t \in Seq(S)
BY ConcatProperties

(* The elements of three sequences joined.                                 *)
LEMMA JoinThree ==
  ASSUME NEW S, NEW a \in Seq(S), NEW b \in Seq(S), NEW c \in Seq(S)
  PROVE  /\ \A k \in 1 .. Len(a) : (a \o b \o c)[k] = a[k]
         /\ \A k \in 1 .. Len(b) : (a \o b \o c)[Len(a) + k] = b[k]
         /\ \A k \in 1 .. Len(c) : (a \o b \o c)[Len(a) + Len(b) + k] = c[k]
<1> DEFINE ab == a \o b
           abc == ab \o c
<1>1. Len(a) \in Nat /\ Len(b) \in Nat /\ Len(c) \in Nat
  BY LenProperties
<1>2. /\ ab \in Seq(S) /\ Len(ab) = Len(a) + Len(b)
      /\ \A i \in 1 .. Len(a) + Len(b) : ab[i] = IF i <= Len(a) THEN a[i] ELSE b[i - Len(a)]
  BY ConcatProperties, Zenon DEF ab
<1> HIDE DEF ab
<1>3. \A i \in 1 .. Len(ab) + Len(c) : abc[i] = IF i <= Len(ab) THEN ab[i] ELSE c[i - Len(ab)]
  BY <1>2, ConcatProperties DEF abc
<1> HIDE DEF abc
<1>4. ASSUME NEW k \in 1 .. Len(a) PROVE abc[k] = a[k]
  BY <1>1, <1>2, <1>3
<1>5. ASSUME NEW k \in 1 .. Len(b) PROVE abc[Len(a) + k] = b[k]
  <2>1. /\ Len(a) + k \in 1 .. Len(a) + Len(b) /\ Len(a) + k <= Len(ab)
        /\ Len(a) + k \in 1 .. Len(ab) + Len(c) /\ ~(Len(a) + k <= Len(a))
        /\ (Len(a) + k) - Len(a) = k
    BY <1>1, <1>2
  <2>2. abc[Len(a) + k] = ab[Len(a) + k]
    BY <1>3, <2>1, Zenon
  <2>3. ab[Len(a) + k] = b[(Len(a) + k) - Len(a)]
    BY <1>2, <2>1, Zenon
  <2> QED  BY <2>1, <2>2, <2>3
<1>6. ASSUME NEW k \in 1 .. Len(c) PROVE abc[Len(a) + Len(b) + k] = c[k]
  <2> DEFINE i == Len(a) + Len(b) + k
  <2>1. i \in 1 .. Len(ab) + Len(c) /\ ~(i <= Len(ab)) /\ i - Len(ab) = k
    BY <1>1, <1>2
  <2> HIDE DEF i
  <2>2. abc[i] = c[i - Len(ab)]
    BY <1>3, <2>1, Zenon
  <2>3. abc[i] = c[k]
    BY <2>1, <2>2
  <2> QED  BY <2>3 DEF i
<1> QED  BY <1>4, <1>5, <1>6 DEF abc, ab

LEMMA RangeOfAppend ==
  ASSUME NEW S, NEW s \in Seq(S), NEW e \in S
  PROVE  Range(Append(s, e)) = Range(s) \cup {e}
<1> DEFINE one == <<e>>
<1>1. Append(s, e) = s \o one
  BY AppendIsConcat
<1>2. one \in Seq(S) /\ Range(one) = {e}
  BY DEF Range
<1> HIDE DEF one
<1>3. Range(s \o one) = Range(s) \cup Range(one)
  BY <1>2, RangeOfConcat
<1> QED  BY <1>1, <1>2, <1>3

LEMMA RangeOfPrepend ==
  ASSUME NEW S, NEW s \in Seq(S), NEW e \in S
  PROVE  Range(<<e>> \o s) = Range(s) \cup {e}
<1> DEFINE one == <<e>>
<1>1. one \in Seq(S) /\ Range(one) = {e}
  BY DEF Range
<1> HIDE DEF one
<1>2. Range(one \o s) = Range(one) \cup Range(s)
  BY <1>1, RangeOfConcat
<1> QED  BY <1>1, <1>2 DEF one

LEMMA RangeOfTail ==
  ASSUME NEW S, NEW s \in Seq(S), s # << >>
  PROVE  /\ Head(s) \in Range(s) /\ Range(Tail(s)) \subseteq Range(s)
         /\ Range(s) = {Head(s)} \cup Range(Tail(s))
<1>1. /\ Head(s) = s[1] /\ Tail(s) \in Seq(S) /\ Len(Tail(s)) = Len(s) - 1
      /\ \A i \in 1 .. Len(Tail(s)) : Tail(s)[i] = s[i + 1]
      /\ Len(s) \in Nat \ {0}
  BY HeadTailProperties, EmptySeq
<1>2. Range(s) = {s[i] : i \in 1 .. Len(s)}
  BY RangeEquality
<1>3. Range(Tail(s)) = {Tail(s)[i] : i \in 1 .. Len(Tail(s))}
  BY <1>1, RangeEquality
<1>4. ASSUME NEW x \in Range(Tail(s)) PROVE x \in Range(s)
  <2>1. PICK i \in 1 .. Len(Tail(s)) : x = Tail(s)[i]
    BY <1>3
  <2>2. i + 1 \in 1 .. Len(s) /\ x = s[i + 1]
    BY <1>1, <2>1
  <2> QED  BY <1>2, <2>2
<1>5. ASSUME NEW x \in Range(s) PROVE x = Head(s) \/ x \in Range(Tail(s))
  <2>1. PICK i \in 1 .. Len(s) : x = s[i]
    BY <1>2
  <2>2. CASE i = 1
    BY <1>1, <2>1, <2>2
  <2>3. CASE i # 1
    <3>1. i - 1 \in 1 .. Len(Tail(s)) /\ (i - 1) + 1 = i
      BY <1>1, <2>3
    <3>2. Tail(s)[i - 1] = x
      BY <1>1, <2>1, <3>1
    <3> QED  BY <1>3, <3>1, <3>2
  <2> QED  BY <2>2, <2>3
<1>6. Head(s) \in Range(s)
  BY <1>1, <1>2
<1> QED  BY <1>4, <1>5, <1>6

LEMMA RangeOfRemoveAt ==
  ASSUME NEW S, NEW s \in Seq(S), NEW p \in 1 .. Len(s)
  PROVE  /\ Range(RemoveAt(s, p)) = {s[k] : k \in (1 .. Len(s)) \ {p}}
         /\ Range(RemoveAt(s, p)) \subseteq Range(s)
         /\ Range(s) \subseteq Range(RemoveAt(s, p)) \cup {s[p]}
<1> DEFINE r == RemoveAt(s, p)
<1>1. /\ r \in Seq(S) /\ Len(r) = Len(s) - 1 /\ Len(s) \in Nat
      /\ \A k \in 1 .. (Len(s) - 1) : r[k] = IF k < p THEN s[k] ELSE s[k + 1]
  BY RemoveAtProperties, LenProperties
<1> HIDE DEF r
<1>2. Range(r) = {r[k] : k \in 1 .. Len(r)} /\ Range(s) = {s[k] : k \in 1 .. Len(s)}
  BY <1>1, RangeEquality
<1>3. ASSUME NEW k \in 1 .. Len(r)
      PROVE  \E i \in (1 .. Len(s)) \ {p} : r[k] = s[i]
  <2>1. CASE k < p
    <3>1. k \in (1 .. Len(s)) \ {p} /\ r[k] = s[k]
      BY <1>1, <2>1
    <3> QED  BY <3>1
  <2>2. CASE ~(k < p)
    <3>1. k + 1 \in (1 .. Len(s)) \ {p} /\ r[k] = s[k + 1]
      BY <1>1, <2>2
    <3> QED  BY <3>1
  <2> QED  BY <2>1, <2>2
<1>4. ASSUME NEW i \in (1 .. Len(s)) \ {p}
      PROVE  \E k \in 1 .. Len(r) : r[k] = s[i]
  <2>1. CASE i < p
    <3>1. i \in 1 .. Len(r) /\ r[i] = s[i]
      BY <1>1, <2>1
    <3> QED  BY <3>1
  <2>2. CASE ~(i < p)
    <3>1. i - 1 \in 1 .. Len(r) /\ ~(i - 1 < p) /\ (i - 1) + 1 = i
      BY <1>1, <2>2
    <3>2. r[i - 1] = s[i]
      BY <1>1, <3>1
    <3> QED  BY <3>1, <3>2
  <2> QED  BY <2>1, <2>2
<1> DEFINE others == {s[k] : k \in (1 .. Len(s)) \ {p}}
<1>5. Range(r) = others
  <2>1. ASSUME NEW x \in Range(r) PROVE x \in others
    BY <1>2, <1>3
  <2>2. ASSUME NEW x \in others PROVE x \in Range(r)
    BY <1>2, <1>4
  <2> QED  BY <2>1, <2>2
<1> QED  BY <1>2, <1>5 DEF r

-----------------------------------------------------------------------------
(***************************************************************************)
(* Sequences in which no element occurs twice.                             *)
(***************************************************************************)
NoRepeats(s) == \A j, k \in 1 .. Len(s) : s[j] = s[k] => j = k

LEMMA NoRepeatsAppend ==
  ASSUME NEW S, NEW s \in Seq(S), NEW e \in S, NoRepeats(s), e \notin Range(s)
  PROVE  NoRepeats(Append(s, e))
<1>1. /\ Len(Append(s, e)) = Len(s) + 1 /\ Len(s) \in Nat
      /\ \A i \in 1 .. Len(s) : Append(s, e)[i] = s[i]
      /\ Append(s, e)[Len(s) + 1] = e
  BY AppendProperties, LenProperties
<1>2. \A i \in 1 .. Len(s) : s[i] # e
  BY RangeEquality
<1> QED  BY <1>1, <1>2 DEF NoRepeats

LEMMA NoRepeatsTail ==
  ASSUME NEW S, NEW s \in Seq(S), s # << >>, NoRepeats(s)
  PROVE  NoRepeats(Tail(s)) /\ Range(Tail(s)) = Range(s) \ {Head(s)}
<1>1. /\ Head(s) = s[1] /\ Tail(s) \in Seq(S) /\ Len(Tail(s)) = Len(s) - 1
      /\ \A i \in 1 .. Len(Tail(s)) : Tail(s)[i] = s[i + 1]
      /\ Len(s) \in Nat \ {0}
  BY HeadTailProperties, EmptySeq
<1>2. NoRepeats(Tail(s))
  BY <1>1 DEF NoRepeats
<1>3. \A i \in 1 .. Len(Tail(s)) : Tail(s)[i] # Head(s)
  BY <1>1 DEF NoRepeats
<1>4. Head(s) \notin Range(Tail(s))
  <2>1. Range(Tail(s)) = {Tail(s)[i] : i \in 1 .. Len(Tail(s))}
    BY <1>1, RangeEquality
  <2> QED  BY <1>3, <2>1
<1> QED  BY <1>2, <1>4, RangeOfTail

LEMMA NoRepeatsRemoveAt ==
  ASSUME NEW S, NEW s \in Seq(S), NEW p \in 1 .. Len(s), NoRepeats(s)
  PROVE  NoRepeats(RemoveAt(s, p)) /\ Range(RemoveAt(s, p)) = Range(s) \ {s[p]}
<1>1. /\ Len(RemoveAt(s, p)) = Len(s) - 1 /\ Len(s) \in Nat
      /\ \A k \in 1 .. (Len(s) - 1) :
           RemoveAt(s, p)[k] = IF k < p THEN s[k] ELSE s[k + 1]
  BY RemoveAtProperties, LenProperties
<1>2. NoRepeats(RemoveAt(s, p))
  <2> SUFFICES ASSUME NEW j \in 1 .. (Len(s) - 1), NEW k \in 1 .. (Len(s) - 1),
                      RemoveAt(s, p)[j] = RemoveAt(s, p)[k]
               PROVE  j = k
    BY <1>1 DEF NoRepeats
  <2> DEFINE at(i) == IF i < p THEN i ELSE i + 1
  <2>1. at(j) \in 1 .. Len(s) /\ at(k) \in 1 .. Len(s) /\ s[at(j)] = s[at(k)]
    BY <1>1
  <2>2. at(j) = at(k)
    BY <2>1 DEF NoRepeats
  <2> QED  BY <2>2
<1>3. s[p] \notin Range(RemoveAt(s, p))
  BY RangeOfRemoveAt DEF NoRepeats
<1> QED  BY <1>2, <1>3, RangeOfRemoveAt

-----------------------------------------------------------------------------
(***************************************************************************)
(* A sequence of the images of the elements of another one.                *)
(***************************************************************************)
ImageOf(f, s) == [k \in DOMAIN s |-> f[s[k]]]

LEMMA ImageType ==
  ASSUME NEW f, NEW s \in Seq(DOMAIN f)
  PROVE  /\ ImageOf(f, s) \in Seq(Range(f)) /\ Len(ImageOf(f, s)) = Len(s)
         /\ \A k \in 1 .. Len(s) : ImageOf(f, s)[k] = f[s[k]]
<1>1. DOMAIN s = 1 .. Len(s) /\ Len(s) \in Nat /\ \A k \in 1 .. Len(s) : s[k] \in DOMAIN f
  BY LenProperties, ElementOfSeq
<1>2. ImageOf(f, s) = [k \in 1 .. Len(s) |-> f[s[k]]]
  BY <1>1 DEF ImageOf
<1>3. \A k \in 1 .. Len(s) : f[s[k]] \in Range(f)
  BY <1>1 DEF Range
<1> QED  BY <1>1, <1>2, <1>3

LEMMA ImageOfAppend ==
  ASSUME NEW f, NEW s \in Seq(DOMAIN f), NEW e \in DOMAIN f
  PROVE  ImageOf(f, Append(s, e)) = Append(ImageOf(f, s), f[e])
<1> DEFINE a == Append(s, e)
           b == Append(ImageOf(f, s), f[e])
<1>1. /\ a \in Seq(DOMAIN f) /\ Len(a) = Len(s) + 1 /\ a[Len(s) + 1] = e /\ Len(s) \in Nat
      /\ \A k \in 1 .. Len(s) : a[k] = s[k]
  BY AppendProperties, LenProperties
<1>2. /\ b \in Seq(Range(f)) /\ Len(b) = Len(s) + 1 /\ b[Len(s) + 1] = f[e]
      /\ \A k \in 1 .. Len(s) : b[k] = f[s[k]]
  <2>1. /\ ImageOf(f, s) \in Seq(Range(f)) /\ Len(ImageOf(f, s)) = Len(s)
        /\ \A k \in 1 .. Len(s) : ImageOf(f, s)[k] = f[s[k]]
    BY ImageType
  <2>2. f[e] \in Range(f)
    BY DEF Range
  <2> QED  BY <2>1, <2>2, AppendProperties
<1> HIDE DEF a, b
<1>3. /\ ImageOf(f, a) \in Seq(Range(f)) /\ Len(ImageOf(f, a)) = Len(a)
      /\ \A k \in 1 .. Len(a) : ImageOf(f, a)[k] = f[a[k]]
  BY <1>1, ImageType
<1>4. ASSUME NEW k \in 1 .. Len(b) PROVE ImageOf(f, a)[k] = b[k]
  <2>1. k \in 1 .. Len(a) /\ ImageOf(f, a)[k] = f[a[k]]
    BY <1>1, <1>2, <1>3
  <2>2. CASE k \in 1 .. Len(s)
    BY <1>1, <1>2, <2>1, <2>2
  <2>3. CASE k = Len(s) + 1
    BY <1>1, <1>2, <2>1, <2>3
  <2> QED  BY <1>1, <1>2, <2>2, <2>3
<1>5. ImageOf(f, a) = b
  BY <1>1, <1>2, <1>3, <1>4, SeqEqual
<1> QED  BY <1>5 DEF a, b

LEMMA ImageOfTail ==
  ASSUME NEW f, NEW s \in Seq(DOMAIN f), s # << >>
  PROVE  /\ ImageOf(f, Tail(s)) = Tail(ImageOf(f, s))
         /\ Head(ImageOf(f, s)) = f[Head(s)] /\ ImageOf(f, s) # << >>
<1> DEFINE i == ImageOf(f, s)
           t == Tail(s)
<1>1. i \in Seq(Range(f)) /\ Len(i) = Len(s) /\ \A k \in 1 .. Len(s) : i[k] = f[s[k]]
  BY ImageType
<1>2. Len(s) \in Nat \ {0} /\ i # << >>
  BY <1>1, EmptySeq
<1> HIDE DEF i
<1>3. /\ t \in Seq(DOMAIN f) /\ Len(t) = Len(s) - 1 /\ Head(s) = s[1]
      /\ \A k \in 1 .. (Len(s) - 1) : t[k] = s[k + 1]
  BY <1>2, HeadTailProperties
<1> HIDE DEF t
<1>4. /\ Tail(i) \in Seq(Range(f)) /\ Len(Tail(i)) = Len(s) - 1 /\ Head(i) = i[1]
      /\ \A k \in 1 .. (Len(s) - 1) : Tail(i)[k] = i[k + 1]
  BY <1>1, <1>2, HeadTailProperties
<1>5. /\ ImageOf(f, t) \in Seq(Range(f)) /\ Len(ImageOf(f, t)) = Len(s) - 1
      /\ \A k \in 1 .. (Len(s) - 1) : ImageOf(f, t)[k] = f[t[k]]
  <2>1. /\ ImageOf(f, t) \in Seq(Range(f)) /\ Len(ImageOf(f, t)) = Len(t)
        /\ \A k \in 1 .. Len(t) : ImageOf(f, t)[k] = f[t[k]]
    BY <1>3, ImageType
  <2> QED  BY <1>3, <2>1
<1>6. ASSUME NEW k \in 1 .. (Len(s) - 1) PROVE ImageOf(f, t)[k] = Tail(i)[k]
  <2>1. k + 1 \in 1 .. Len(s)
    BY <1>2
  <2> QED  BY <1>1, <1>3, <1>4, <1>5, <2>1
<1>7. ImageOf(f, t) = Tail(i)
  BY <1>4, <1>5, <1>6, SeqEqual
<1>8. Head(i) = f[Head(s)]
  BY <1>1, <1>2, <1>3, <1>4
<1> QED  BY <1>2, <1>7, <1>8 DEF i, t

LEMMA ImageOfRemoveAt ==
  ASSUME NEW f, NEW s \in Seq(DOMAIN f), NEW p \in 1 .. Len(s)
  PROVE  ImageOf(f, RemoveAt(s, p)) = RemoveAt(ImageOf(f, s), p)
<1> DEFINE i == ImageOf(f, s)
           r == RemoveAt(s, p)
<1>1. i \in Seq(Range(f)) /\ Len(i) = Len(s) /\ \A k \in 1 .. Len(s) : i[k] = f[s[k]]
  BY ImageType
<1> HIDE DEF i
<1>2. /\ r \in Seq(DOMAIN f) /\ Len(r) = Len(s) - 1 /\ Len(s) \in Nat
      /\ \A k \in 1 .. (Len(s) - 1) : r[k] = IF k < p THEN s[k] ELSE s[k + 1]
  BY RemoveAtProperties, LenProperties
<1> HIDE DEF r
<1>3. /\ RemoveAt(i, p) \in Seq(Range(f)) /\ Len(RemoveAt(i, p)) = Len(s) - 1
      /\ \A k \in 1 .. (Len(s) - 1) : RemoveAt(i, p)[k] = IF k < p THEN i[k] ELSE i[k + 1]
  BY <1>1, RemoveAtProperties
<1>4. /\ ImageOf(f, r) \in Seq(Range(f)) /\ Len(ImageOf(f, r)) = Len(s) - 1
      /\ \A k \in 1 .. (Len(s) - 1) : ImageOf(f, r)[k] = f[r[k]]
  <2>1. /\ ImageOf(f, r) \in Seq(Range(f)) /\ Len(ImageOf(f, r)) = Len(r)
        /\ \A k \in 1 .. Len(r) : ImageOf(f, r)[k] = f[r[k]]
    BY <1>2, ImageType
  <2> QED  BY <1>2, <2>1
<1>5. ASSUME NEW k \in 1 .. (Len(s) - 1) PROVE ImageOf(f, r)[k] = RemoveAt(i, p)[k]
  <2>1. k \in 1 .. Len(s) /\ k + 1 \in 1 .. Len(s)
    BY <1>2
  <2> QED  BY <1>1, <1>2, <1>3, <1>4, <2>1
<1>6. ImageOf(f, r) = RemoveAt(i, p)
  BY <1>3, <1>4, <1>5, SeqEqual
<1> QED  BY <1>6 DEF i, r

-----------------------------------------------------------------------------
(***************************************************************************)
(* How many elements of a sequence are in a set.                           *)
(***************************************************************************)
Places(s, S) == {k \in DOMAIN s : s[k] \in S}
CountIn(s, S) == Cardinality(Places(s, S))

LEMMA CountType ==
  ASSUME NEW T, NEW s \in Seq(T), NEW S
  PROVE  /\ Places(s, S) \in SUBSET (1 .. Len(s)) /\ IsFiniteSet(Places(s, S))
         /\ CountIn(s, S) \in Nat
         /\ CountIn(s, S) = 0 <=> \A e \in Range(s) : e \notin S
<1>1. DOMAIN s = 1 .. Len(s) /\ Len(s) \in Nat
  BY LenProperties
<1>2. Places(s, S) \in SUBSET (1 .. Len(s))
  BY <1>1 DEF Places
<1>3. IsFiniteSet(Places(s, S))
  <2>1. IsFiniteSet(1 .. Len(s))
    BY <1>1, FS_Interval
  <2> QED  BY <1>2, <2>1, FS_Subset
<1>4. CountIn(s, S) \in Nat /\ (CountIn(s, S) = 0 <=> Places(s, S) = {})
  BY <1>3, FS_CardinalityType, FS_EmptySet DEF CountIn
<1>5. Places(s, S) = {} <=> \A e \in Range(s) : e \notin S
  BY DEF Places, Range
<1> QED  BY <1>2, <1>3, <1>4, <1>5

LEMMA CountOfAll ==
  ASSUME NEW T, NEW s \in Seq(T), NEW S, \A e \in Range(s) : e \in S
  PROVE  CountIn(s, S) = Len(s)
<1>1. DOMAIN s = 1 .. Len(s) /\ Len(s) \in Nat
  BY LenProperties
<1>2. Places(s, S) = 1 .. Len(s)
  BY <1>1 DEF Places, Range
<1>3. Cardinality(1 .. Len(s)) = Len(s)
  <2>1. 1 \in Int /\ Len(s) \in Int /\ Len(s) - 1 + 1 = Len(s) /\ (1 > Len(s) => Len(s) = 0)
    BY <1>1
  <2> QED  BY <2>1, FS_Interval
<1> QED  BY <1>2, <1>3 DEF CountIn

LEMMA CountOfConcat ==
  ASSUME NEW T, NEW s \in Seq(T), NEW t \in Seq(T), NEW S
  PROVE  CountIn(s \o t, S) = CountIn(s, S) + CountIn(t, S)
<1> DEFINE A == Places(s, S)
           B == Places(t, S)
           C == {Len(s) + k : k \in B}
           f == [k \in B |-> Len(s) + k]
<1>1. /\ s \o t \in Seq(T) /\ Len(s \o t) = Len(s) + Len(t)
      /\ \A i \in 1 .. Len(s) + Len(t) :
           (s \o t)[i] = IF i <= Len(s) THEN s[i] ELSE t[i - Len(s)]
      /\ Len(s) \in Nat /\ Len(t) \in Nat
      /\ DOMAIN s = 1 .. Len(s) /\ DOMAIN t = 1 .. Len(t)
      /\ DOMAIN (s \o t) = 1 .. Len(s) + Len(t)
  BY ConcatProperties, LenProperties
<1>2. /\ A \in SUBSET (1 .. Len(s)) /\ IsFiniteSet(A)
      /\ B \in SUBSET (1 .. Len(t)) /\ IsFiniteSet(B)
  BY CountType
<1>3. \A k \in A : s[k] \in S
  BY DEF Places
<1>4. \A k \in B : t[k] \in S
  BY DEF Places
<1>5. \A k \in 1 .. Len(s) : s[k] \in S => k \in A
  BY <1>1 DEF Places
<1>6. \A k \in 1 .. Len(t) : t[k] \in S => k \in B
  BY <1>1 DEF Places
<1>7. Places(s \o t, S) = {k \in 1 .. Len(s) + Len(t) : (s \o t)[k] \in S}
  BY <1>1 DEF Places
<1> HIDE DEF A, B
<1>8. Places(s \o t, S) = A \cup C
  <2>1. ASSUME NEW k \in Places(s \o t, S) PROVE k \in A \cup C
    <3>1. k \in 1 .. Len(s) + Len(t) /\ (s \o t)[k] \in S
      BY <1>7
    <3>2. CASE k <= Len(s)
      BY <1>1, <1>5, <3>1, <3>2
    <3>3. CASE ~(k <= Len(s))
      <4>1. k - Len(s) \in 1 .. Len(t) /\ Len(s) + (k - Len(s)) = k
        BY <1>1, <3>1, <3>3
      <4>2. k - Len(s) \in B
        BY <1>1, <1>6, <3>1, <3>3, <4>1
      <4> QED  BY <4>1, <4>2
    <3> QED  BY <3>2, <3>3
  <2>2. ASSUME NEW k \in A PROVE k \in Places(s \o t, S)
    <3>1. k \in 1 .. Len(s) + Len(t) /\ k <= Len(s)
      BY <1>1, <1>2
    <3> QED  BY <1>1, <1>3, <1>7, <3>1
  <2>3. ASSUME NEW k \in B PROVE Len(s) + k \in Places(s \o t, S)
    <3>1. /\ Len(s) + k \in 1 .. Len(s) + Len(t) /\ ~(Len(s) + k <= Len(s))
          /\ (Len(s) + k) - Len(s) = k
      BY <1>1, <1>2
    <3>2. (s \o t)[Len(s) + k] = t[k]
      BY <1>1, <3>1
    <3> QED  BY <1>4, <1>7, <3>1, <3>2
  <2> QED  BY <2>1, <2>2, <2>3
<1>9. IsFiniteSet(C) /\ Cardinality(C) = Cardinality(B)
  <2>1. f \in Bijection(B, C)
    <3>1. \A k \in B : k \in Nat
      BY <1>1, <1>2
    <3>2. f \in Injection(B, C)
      BY <1>1, <3>1 DEF Injection, IsInjective
    <3>3. f \in Surjection(B, C)
      BY <1>1, <3>1 DEF Surjection
    <3> QED  BY <3>2, <3>3 DEF Bijection
  <2>2. ExistsBijection(B, C)
    BY <2>1 DEF ExistsBijection
  <2> QED  BY <1>2, <2>2, FS_Bijection
<1>10. A \cap C = {}
  <2>1. \A k \in B : Len(s) + k \notin 1 .. Len(s)
    BY <1>1, <1>2
  <2> QED  BY <1>2, <2>1
<1>11. Cardinality(A \cup C) = Cardinality(A) + Cardinality(C)
  <2>1. Cardinality(A \cap C) = 0
    BY <1>10, FS_EmptySet
  <2>2. Cardinality(A) \in Nat /\ Cardinality(C) \in Nat
    BY <1>2, <1>9, FS_CardinalityType
  <2>3. Cardinality(A \cup C) = Cardinality(A) + Cardinality(C) - Cardinality(A \cap C)
    BY <1>2, <1>9, FS_Union
  <2> QED  BY <2>1, <2>2, <2>3
<1> QED  BY <1>8, <1>9, <1>11 DEF CountIn, A, B

LEMMA CountOfOne ==
  ASSUME NEW T, NEW e \in T, NEW S
  PROVE  CountIn(<<e>>, S) = IF e \in S THEN 1 ELSE 0
<1> DEFINE one == <<e>>
<1>1. one \in Seq(T) /\ Range(one) = {e} /\ Len(one) = 1
  BY DEF Range
<1> HIDE DEF one
<1>2. CASE e \in S
  <2>1. CountIn(one, S) = Len(one)
    BY <1>1, <1>2, CountOfAll
  <2> QED  BY <1>1, <1>2, <2>1 DEF one
<1>3. CASE e \notin S
  <2>1. CountIn(one, S) = 0
    BY <1>1, <1>3, CountType
  <2> QED  BY <1>3, <2>1 DEF one
<1> QED  BY <1>2, <1>3

LEMMA CountOfAppend ==
  ASSUME NEW T, NEW s \in Seq(T), NEW e \in T, NEW S
  PROVE  CountIn(Append(s, e), S) = CountIn(s, S) + (IF e \in S THEN 1 ELSE 0)
<1> DEFINE one == <<e>>
<1>1. Append(s, e) = s \o one
  BY AppendIsConcat
<1>2. one \in Seq(T) /\ CountIn(one, S) = IF e \in S THEN 1 ELSE 0
  BY CountOfOne
<1> HIDE DEF one
<1>3. CountIn(s \o one, S) = CountIn(s, S) + CountIn(one, S)
  BY <1>2, CountOfConcat
<1> QED  BY <1>1, <1>2, <1>3

LEMMA CountOfRemoveAt ==
  ASSUME NEW T, NEW s \in Seq(T), NEW p \in 1 .. Len(s), NEW S
  PROVE  CountIn(s, S) = CountIn(RemoveAt(s, p), S) + (IF s[p] \in S THEN 1 ELSE 0)
<1> DEFINE n == Len(s)
           left == SubSeq(s, 1, p - 1)
           right == SubSeq(s, p + 1, n)
           one == <<s[p]>>
<1>1. n \in Nat /\ p \in 1 .. n /\ \A k \in 1 .. n : s[k] \in T
  BY LenProperties, ElementOfSeq
<1> HIDE DEF n, left, right
<1>2. left \in Seq(T)
  <2>1. \A k \in 1 .. (p - 1) : s[k] \in T
    BY <1>1
  <2> QED  BY <1>1, <2>1, SubSeqProperties DEF n, left, right
<1>3. right \in Seq(T)
  <2>1. \A k \in (p + 1) .. n : s[k] \in T
    BY <1>1
  <2> QED  BY <1>1, <2>1, SubSeqProperties DEF n, left, right
<1>4. one \in Seq(T) /\ CountIn(one, S) = IF s[p] \in S THEN 1 ELSE 0
  <2>1. s[p] \in T
    BY <1>1
  <2> QED  BY <2>1, CountOfOne
<1>5. s = left \o (one \o right)
  <2>1. SubSeq(s, p, n) = one \o right
    <3>1. n \in p .. Len(s)
      BY <1>1 DEF n
    <3> QED  BY <1>1, <3>1, SubSeqRecursiveFirst DEF n, right
  <2>2. left \o SubSeq(s, (p - 1) + 1, n) = SubSeq(s, 1, n)
    <3>1. 1 \in 1 .. Len(s) + 1 /\ p - 1 \in 1 - 1 .. Len(s) /\ n \in p - 1 .. Len(s)
      BY <1>1 DEF n
    <3> QED  BY <3>1, ConcatAdjacentSubSeq DEF left
  <2>3. (p - 1) + 1 = p /\ SubSeq(s, 1, n) = s
    BY <1>1, SubSeqFull DEF n
  <2> QED  BY <2>1, <2>2, <2>3
<1>6. RemoveAt(s, p) = left \o right
  BY DEF RemoveAt, left, right, n
<1> DEFINE rest == one \o right
<1> HIDE DEF one
<1>7. /\ CountIn(left \o right, S) = CountIn(left, S) + CountIn(right, S)
      /\ CountIn(rest, S) = CountIn(one, S) + CountIn(right, S)
  BY <1>2, <1>3, <1>4, CountOfConcat
<1>8. CountIn(left \o (rest), S)
        = CountIn(left, S) + CountIn(rest, S)
  <2>1. rest \in Seq(T)
    BY <1>3, <1>4, ConcatType
  <2> HIDE DEF rest
  <2> QED  BY <1>2, <2>1, CountOfConcat
<1>9. CountIn(left, S) \in Nat /\ CountIn(right, S) \in Nat
  BY <1>2, <1>3, CountType
<1>10. CountIn(s, S) = CountIn(left, S) + (CountIn(one, S) + CountIn(right, S))
  BY <1>5, <1>7, <1>8
<1> QED  BY <1>6, <1>7, <1>4, <1>9, <1>10

(* An element that stays in, or out of, the set may be replaced.           *)
LEMMA CountOfReplace ==
  ASSUME NEW T, NEW s \in Seq(T), NEW p \in 1 .. Len(s), NEW e \in T, NEW S,
         e \in S <=> s[p] \in S
  PROVE  CountIn([s EXCEPT ![p] = e], S) = CountIn(s, S)
<1>1. /\ DOMAIN [s EXCEPT ![p] = e] = DOMAIN s
      /\ \A k \in DOMAIN s : [s EXCEPT ![p] = e][k] = IF k = p THEN e ELSE s[k]
  BY LenProperties
<1>2. Places([s EXCEPT ![p] = e], S) = Places(s, S)
  BY <1>1 DEF Places
<1> QED  BY <1>2 DEF CountIn

=============================================================================
