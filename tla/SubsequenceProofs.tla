-------------------------- MODULE SubsequenceProofs --------------------------
(***************************************************************************)
(* What a subsequence has in common with the sequence it is taken from,    *)
(* its elements and their order; what it means that a sequence begins      *)
(* another one.                                                            *)
(***************************************************************************)
EXTENDS Subsequences, SequencesExt, FiniteSetTheorems, WellFoundedInduction, TLAPS

\* Some number of a set of them is the least, and of a bounded one some is
\* the greatest.
LEMMA Least ==
  ASSUME NEW S, S \subseteq Nat, S # {}
  PROVE  \E i \in S : \A j \in S : i <= j
<1>1. PICK i \in S : \A j \in S : <<j, i>> \notin OpToRel(<, Nat)
  BY NatLessThanWellFounded, WFMin
<1>2. \A j \in S : ~ (j < i)
  BY <1>1 DEF OpToRel
<1> QED BY <1>2

\* A bounded set of numbers has a greatest.
LEMMA Greatest ==
  ASSUME NEW n \in Nat, NEW S, S \subseteq 0 .. n, S # {}
  PROVE  \E i \in S : \A j \in S : j <= i
<1> DEFINE D == {n - j : j \in S}
<1>0. \A j \in S : n - j \in Nat
  OBVIOUS
<1>1. D \subseteq Nat /\ D # {}
  BY <1>0
<1>2. PICK d \in D : \A e \in D : d <= e
  BY <1>1, Least
<1>3. PICK i \in S : d = n - i
  OBVIOUS
<1>4. ASSUME NEW j \in S
      PROVE  j <= i
  <2>1. n - i <= n - j
    BY <1>2, <1>3
  <2> QED BY <2>1
<1> QED BY <1>4

\* Each of finitely many places has a rank of its own, which grows with it.
LEMMA RankOrder ==
  ASSUME NEW n \in Nat, NEW places, places \subseteq 1 .. n
  PROVE  /\ IsFiniteSet(places) /\ Cardinality(places) \in Nat
         /\ \A i \in places : Rank(places, i) \in 1 .. Cardinality(places)
         /\ \A i, j \in places : i < j => Rank(places, i) < Rank(places, j)
         /\ \A i, j \in places : Rank(places, i) = Rank(places, j) => i = j
<1> DEFINE upto(i) == {j \in places : j <= i}
           size == Cardinality(places)
<1>1. IsFiniteSet(places) /\ size \in Nat
  <2>1. IsFiniteSet(1 .. n)
    BY FS_Interval
  <2> QED BY <2>1, FS_Subset, FS_CardinalityType
<1>2. \A i : Rank(places, i) = Cardinality(upto(i))
  BY DEF Rank
<1>3. ASSUME NEW i \in places
      PROVE  upto(i) \in SUBSET places /\ IsFiniteSet(upto(i)) /\ Rank(places, i) \in 1 .. size
  <2>1. upto(i) \in SUBSET places /\ i \in upto(i)
    OBVIOUS
  <2> HIDE DEF upto
  <2>2. IsFiniteSet(upto(i)) /\ Rank(places, i) <= size /\ Rank(places, i) \in Nat
    BY <1>1, <1>2, <2>1, FS_Subset, FS_CardinalityType
  <2>3. Rank(places, i) # 0
    BY <1>2, <2>1, <2>2, FS_EmptySet
  <2> QED BY <1>1, <2>1, <2>2, <2>3
<1>4. ASSUME NEW i \in places, NEW j \in places, i < j
      PROVE  Rank(places, i) < Rank(places, j)
  <2>0. i \in Nat /\ j \in Nat /\ j <= j /\ ~ (j <= i) /\ \A m \in places : m <= i => m <= j
    BY <1>4
  <2>1. upto(i) \in SUBSET upto(j) /\ j \in upto(j) /\ j \notin upto(i)
    BY <2>0
  <2>2. IsFiniteSet(upto(j)) /\ Rank(places, i) \in Nat /\ Rank(places, j) \in Nat
    <3> HIDE DEF upto, size
    <3> QED BY <1>3
  <2> HIDE DEF upto
  <2>3. Rank(places, i) <= Rank(places, j) /\ Rank(places, i) # Rank(places, j)
    BY <1>2, <2>1, <2>2, FS_Subset
  <2> QED BY <2>2, <2>3
<1>5. ASSUME NEW i \in places, NEW j \in places, Rank(places, i) = Rank(places, j)
      PROVE  i = j
  <2>1. i < j \/ j < i \/ i = j
    OBVIOUS
  <2>2. Rank(places, i) \in Nat
    <3> HIDE DEF upto, size
    <3> QED BY <1>3
  <2> QED BY <1>4, <1>5, <2>1, <2>2
<1> QED BY <1>1, <1>3, <1>4, <1>5

\* The places of a subsequence are those that were chosen, in their order.
LEMMA PlaceOrder ==
  ASSUME NEW n \in Nat, NEW places, places \subseteq 1 .. n
  PROVE  /\ Cardinality(places) \in Nat
         /\ \A k \in 1 .. Cardinality(places) :
              Place(places, k) \in places /\ Rank(places, Place(places, k)) = k
         /\ \A i \in places : Place(places, Rank(places, i)) = i
         /\ \A k, l \in 1 .. Cardinality(places) : k < l => Place(places, k) < Place(places, l)
<1> DEFINE size == Cardinality(places)
<1>1. /\ IsFiniteSet(places) /\ size \in Nat
      /\ \A i \in places : Rank(places, i) \in 1 .. size
      /\ \A i, j \in places : i < j => Rank(places, i) < Rank(places, j)
      /\ \A i, j \in places : Rank(places, i) = Rank(places, j) => i = j
  BY RankOrder
<1> HIDE DEF size
<1>2. \A k \in 1 .. size : \E i \in places : Rank(places, i) = k
  <2> DEFINE f == [i \in places |-> Rank(places, i)]
  <2>1. f \in Injection(places, 1 .. size)
    BY <1>1 DEF Injection, IsInjective
  <2>2. IsFiniteSet(1 .. size) /\ Cardinality(1 .. size) = size
    BY <1>1, FS_Interval
  <2>3. f \in Surjection(places, 1 .. size)
    <3> HIDE DEF f
    <3> QED BY <1>1, <2>1, <2>2, FS_Injection DEF size
  <2> QED BY <2>3 DEF Surjection
<1>3. \A k \in 1 .. size : Place(places, k) \in places /\ Rank(places, Place(places, k)) = k
  BY <1>2 DEF Place
<1>4. \A i \in places : Place(places, Rank(places, i)) = i
  BY <1>1, <1>3
<1>5. ASSUME NEW k \in 1 .. size, NEW l \in 1 .. size, k < l
      PROVE  Place(places, k) < Place(places, l)
  <2> DEFINE a == Place(places, k)
             b == Place(places, l)
  <2>1. a \in places /\ b \in places /\ Rank(places, a) = k /\ Rank(places, b) = l
    BY <1>3
  <2> HIDE DEF a, b
  <2>2. a \in Nat /\ b \in Nat
    BY <2>1
  <2>3. a < b \/ b < a \/ a = b
    BY <2>2
  <2>4. a < b
    BY <1>1, <1>5, <2>1, <2>3
  <2> QED BY <2>4 DEF a, b
<1> QED BY <1>1, <1>3, <1>4, <1>5 DEF size

\* The elements of a subsequence are those at the chosen places, in order.
LEMMA SubsequenceElements ==
  ASSUME NEW S, NEW seq \in Seq(S), NEW places, places \subseteq DOMAIN seq
  PROVE  /\ Subsequence(seq, places) \in Seq(S)
         /\ DOMAIN Subsequence(seq, places) = 1 .. Len(Subsequence(seq, places))
         /\ Len(Subsequence(seq, places)) = Cardinality(places)
         /\ \A k \in DOMAIN Subsequence(seq, places) :
              /\ Place(places, k) \in places
              /\ Subsequence(seq, places)[k] = seq[Place(places, k)]
         /\ \A i \in places : \E k \in DOMAIN Subsequence(seq, places) : Place(places, k) = i
         /\ \A k, l \in DOMAIN Subsequence(seq, places) :
              k < l => Place(places, k) < Place(places, l)
<1> DEFINE sub == Subsequence(seq, places)
           size == Cardinality(places)
<1>1. Len(seq) \in Nat /\ places \subseteq 1 .. Len(seq)
  OBVIOUS
<1>2. /\ size \in Nat
      /\ \A k \in 1 .. size : Place(places, k) \in places
      /\ \A i \in places : Place(places, Rank(places, i)) = i
      /\ \A k, l \in 1 .. size : k < l => Place(places, k) < Place(places, l)
  BY <1>1, PlaceOrder
<1>3. \A i \in places : Rank(places, i) \in 1 .. size
  BY <1>1, RankOrder
<1>4. /\ sub = [k \in 1 .. size |-> seq[Place(places, k)]]
      /\ DOMAIN sub = 1 .. size
      /\ \A k \in 1 .. size : sub[k] = seq[Place(places, k)]
  BY DEF Subsequence
<1> HIDE DEF size, sub
<1>5. \A k \in 1 .. size : seq[Place(places, k)] \in S
  BY <1>2
<1>6. sub \in [1 .. size -> S]
  BY <1>4, <1>5
<1>7. sub \in Seq(S) /\ Len(sub) = size
  BY <1>2, <1>6
<1> QED BY <1>2, <1>3, <1>4, <1>7 DEF size, sub

\* A filter that keeps everything changes nothing.
LEMMA SubsequenceWhole ==
  ASSUME NEW S, NEW seq \in Seq(S)
  PROVE  Subsequence(seq, DOMAIN seq) = seq
<1> DEFINE all == 1 .. Len(seq)
<1>1. Len(seq) \in Nat /\ DOMAIN seq = all /\ Cardinality(all) = Len(seq)
  <2>1. Len(seq) \in Nat
    OBVIOUS
  <2> QED BY <2>1, FS_Interval
<1>2. ASSUME NEW k \in all
      PROVE  Rank(all, k) = k
  <2>1. {j \in all : j <= k} = 1 .. k /\ k \in Nat
    BY <1>1
  <2>2. Cardinality(1 .. k) = k
    BY <2>1, FS_Interval
  <2> QED BY <2>1, <2>2 DEF Rank
<1>3. \A k \in all : Place(all, k) = k
  BY <1>1, <1>2, PlaceOrder
<1>4. Subsequence(seq, all) = [k \in all |-> seq[Place(all, k)]]
  BY <1>1 DEF Subsequence
<1>5. Subsequence(seq, all) = [k \in all |-> seq[k]]
  <2> HIDE DEF all
  <2> QED BY <1>3, <1>4
<1>6. seq = [k \in all |-> seq[k]]
  BY <1>1
<1> QED BY <1>1, <1>5, <1>6

\* A sequence that grows by an element: the filter leaves what it left, and
\* then the new element if it keeps that.
LEMMA SubsequenceAppend ==
  ASSUME NEW S, NEW seq \in Seq(S), NEW e \in S, NEW places, places \subseteq DOMAIN seq
  PROVE  /\ Subsequence(Append(seq, e), places) = Subsequence(seq, places)
         /\ Subsequence(Append(seq, e), places \cup {Len(seq) + 1})
              = Append(Subsequence(seq, places), e)
<1> DEFINE size == Cardinality(places)
           last == Len(seq) + 1
           more == places \cup {last}
           longer == Append(seq, e)
<1>1. /\ Len(seq) \in Nat /\ places \subseteq 1 .. Len(seq) /\ last \notin places
      /\ more \subseteq 1 .. last /\ last \in Nat
      /\ \A i \in places : i \in Nat /\ i < last
  OBVIOUS
<1>2. longer[last] = e /\ \A i \in places : longer[i] = seq[i]
  BY <1>1
<1>3. /\ IsFiniteSet(places) /\ size \in Nat
      /\ \A k \in 1 .. size : Place(places, k) \in places /\ Rank(places, Place(places, k)) = k
  BY <1>1, RankOrder, PlaceOrder
<1>4. Cardinality(more) = size + 1
  BY <1>1, <1>3, FS_AddElement
<1>5. Subsequence(seq, places) = [k \in 1 .. size |-> seq[Place(places, k)]]
  BY DEF Subsequence
<1>6. Subsequence(longer, places) = [k \in 1 .. size |-> longer[Place(places, k)]]
  BY DEF Subsequence
<1>7. Subsequence(longer, more) = [k \in 1 .. size + 1 |-> longer[Place(more, k)]]
  BY <1>4 DEF Subsequence
<1>8. ASSUME NEW i \in places
      PROVE  Rank(more, i) = Rank(places, i)
  <2>1. {j \in more : j <= i} = {j \in places : j <= i}
    BY <1>1
  <2> QED BY <2>1 DEF Rank
<1>9. Rank(more, last) = size + 1
  <2>1. {j \in more : j <= last} = more
    BY <1>1
  <2> QED BY <1>4, <2>1 DEF Rank
<1>10. \A i \in more : Place(more, Rank(more, i)) = i
  <2> HIDE DEF more, last
  <2> QED BY <1>1, PlaceOrder
<1>11. last \in more /\ places \subseteq more
  OBVIOUS
<1> HIDE DEF size, last, more, longer
<1>12. \A k \in 1 .. size : Place(more, k) = Place(places, k)
  BY <1>3, <1>8, <1>10, <1>11
<1>13. Place(more, size + 1) = last
  BY <1>9, <1>10, <1>11
<1>14. Subsequence(longer, places) = Subsequence(seq, places)
  BY <1>2, <1>3, <1>5, <1>6
<1> DEFINE sub == Subsequence(seq, places)
<1>15. /\ sub \in Seq(S) /\ Len(sub) = size
       /\ \A k \in 1 .. size : sub[k] = seq[Place(places, k)]
  BY SubsequenceElements DEF size
<1> HIDE DEF sub
<1>16. Append(sub, e) = [k \in 1 .. size + 1 |-> IF k = size + 1 THEN e ELSE sub[k]]
  <2> DEFINE grown == Append(sub, e)
  <2>1. grown \in Seq(S) /\ Len(grown) = size + 1
    BY <1>3, <1>15
  <2>2. \A k \in 1 .. size + 1 : grown[k] = IF k = size + 1 THEN e ELSE sub[k]
    BY <1>3, <1>15
  <2> HIDE DEF grown
  <2>3. grown = [k \in 1 .. size + 1 |-> grown[k]]
    BY <2>1
  <2> QED BY <2>2, <2>3 DEF grown
<1>17. \A k \in 1 .. size + 1 :
         longer[Place(more, k)] = IF k = size + 1 THEN e ELSE sub[k]
  <2> SUFFICES ASSUME NEW k \in 1 .. size + 1
               PROVE  longer[Place(more, k)] = IF k = size + 1 THEN e ELSE sub[k]
    OBVIOUS
  <2>1. CASE k = size + 1
    BY <1>2, <1>13, <2>1
  <2>2. CASE k # size + 1
    <3>1. k \in 1 .. size
      BY <1>3, <2>2
    <3> QED BY <1>2, <1>3, <1>12, <1>15, <2>2, <3>1
  <2> QED BY <2>1, <2>2
<1>18. Subsequence(longer, more) = Append(sub, e)
  BY <1>7, <1>16, <1>17
<1> QED BY <1>14, <1>18 DEF sub, longer, more, last
-----------------------------------------------------------------------------

\* What it means that a sequence begins another one.
LEMMA PrefixIs ==
  ASSUME NEW S, NEW s \in Seq(S), NEW t \in Seq(S)
  PROVE  IsPrefix(s, t) <=> Len(s) <= Len(t) /\ \A k \in 1 .. Len(s) : s[k] = t[k]
<1>1. Len(s) \in Nat /\ Len(t) \in Nat
  OBVIOUS
<1>2. SubSeq(s, 1, Len(s)) = s
  OBVIOUS
<1>3. CASE Len(s) <= Len(t)
  <2>1. /\ SubSeq(t, 1, Len(s)) \in Seq(S) /\ Len(SubSeq(t, 1, Len(s))) = Len(s)
        /\ \A k \in 1 .. Len(s) : SubSeq(t, 1, Len(s))[k] = t[k]
    BY <1>1, <1>3
  <2>2. s = SubSeq(t, 1, Len(s)) <=> \A k \in 1 .. Len(s) : s[k] = t[k]
    BY <2>1
  <2> QED BY <1>2, <1>3, <2>2 DEF IsPrefix
<1> QED BY <1>1, <1>3 DEF IsPrefix

\* The prefixes of a sequence are ordered.
LEMMA PrefixOrder ==
  ASSUME NEW S, NEW s \in Seq(S), NEW t \in Seq(S)
  PROVE  /\ IsPrefix(s, s) /\ IsPrefix(<<>>, s)
         /\ IsPrefix(s, t) /\ IsPrefix(t, s) => s = t
         /\ \A u \in Seq(S) : IsPrefix(s, t) /\ IsPrefix(t, u) => IsPrefix(s, u)
<1>1. IsPrefix(s, s) /\ IsPrefix(<<>>, s)
  <2>1. PICK e \in Seq(S) : e = <<>> /\ Len(e) = 0 /\ Len(s) \in Nat
    <3>1. <<>> \in Seq(S) /\ Len(<<>>) = 0 /\ Len(s) \in Nat
      OBVIOUS
    <3> QED BY <3>1
  <2>2. IsPrefix(e, s)
    <3>1. Len(e) <= Len(s) /\ \A k \in 1 .. Len(e) : e[k] = s[k]
      BY <2>1
    <3> QED BY <3>1, PrefixIs
  <2>3. IsPrefix(s, s)
    BY <2>1, PrefixIs
  <2> QED BY <2>1, <2>2, <2>3
<1>2. IsPrefix(s, t) /\ IsPrefix(t, s) => s = t
  <2> SUFFICES ASSUME IsPrefix(s, t), IsPrefix(t, s)
               PROVE  s = t
    OBVIOUS
  <2>1. Len(s) = Len(t) /\ \A k \in 1 .. Len(s) : s[k] = t[k]
    BY PrefixIs
  <2> QED BY <2>1
<1>3. ASSUME NEW u \in Seq(S), IsPrefix(s, t), IsPrefix(t, u)
      PROVE  IsPrefix(s, u)
  <2>1. Len(s) <= Len(t) /\ Len(t) <= Len(u) /\ Len(s) \in Nat /\ Len(t) \in Nat
    BY <1>3, PrefixIs
  <2>2. \A k \in 1 .. Len(s) : s[k] = u[k]
    BY <1>3, <2>1, PrefixIs
  <2>3. Len(s) <= Len(u)
    BY <2>1
  <2> QED BY <2>2, <2>3, PrefixIs
<1> QED BY <1>1, <1>2, <1>3

\* The set of prefixes.
LEMMA PrefixesAre ==
  ASSUME NEW S, NEW t \in Seq(S)
  PROVE  Prefixes(t) = {s \in Seq(S) : IsPrefix(s, t)}
<1>1. ASSUME NEW l \in 0 .. Len(t)
      PROVE  SubSeq(t, 1, l) \in Seq(S) /\ IsPrefix(SubSeq(t, 1, l), t)
  <2>1. /\ SubSeq(t, 1, l) \in Seq(S) /\ Len(SubSeq(t, 1, l)) = l
        /\ \A k \in 1 .. l : SubSeq(t, 1, l)[k] = t[k]
    OBVIOUS
  <2>2. l <= Len(t)
    OBVIOUS
  <2> QED BY <2>1, <2>2, PrefixIs
<1>2. ASSUME NEW s \in Seq(S), IsPrefix(s, t)
      PROVE  \E l \in 0 .. Len(t) : s = SubSeq(t, 1, l)
  <2>1. Len(s) \in 0 .. Len(t) /\ \A k \in 1 .. Len(s) : s[k] = t[k]
    BY <1>2, PrefixIs
  <2>2. s = SubSeq(t, 1, Len(s))
    BY <2>1
  <2> QED BY <2>1, <2>2
<1> QED BY <1>1, <1>2 DEF Prefixes

\* Taking the last element away leaves the next shorter prefix.
LEMMA FrontIs ==
  ASSUME NEW S, NEW t \in Seq(S), t # <<>>
  PROVE  /\ Front(t) \in Seq(S) /\ Len(Front(t)) = Len(t) - 1 /\ IsPrefix(Front(t), t)
         /\ Front(t) # t
         /\ \A s \in Seq(S) : IsPrefix(s, Front(t)) <=> IsPrefix(s, t) /\ s # t
<1>1. Len(t) \in Nat /\ Len(t) > 0
  OBVIOUS
<1>2. /\ Front(t) \in Seq(S) /\ Len(Front(t)) = Len(t) - 1
      /\ \A k \in 1 .. Len(t) - 1 : Front(t)[k] = t[k]
  <2> DEFINE m == Len(t) - 1
  <2>1. m \in 0 .. Len(t)
    BY <1>1
  <2> HIDE DEF m
  <2>2. /\ SubSeq(t, 1, m) \in Seq(S) /\ Len(SubSeq(t, 1, m)) = m
        /\ \A k \in 1 .. m : SubSeq(t, 1, m)[k] = t[k]
    BY <2>1
  <2> QED BY <2>2 DEF Front, m
<1>3. IsPrefix(Front(t), t) /\ Front(t) # t
  BY <1>1, <1>2, PrefixIs
<1>4. ASSUME NEW s \in Seq(S), IsPrefix(s, Front(t))
      PROVE  IsPrefix(s, t) /\ s # t
  <2>1. IsPrefix(s, t)
    BY <1>2, <1>3, <1>4, PrefixOrder
  <2>2. Len(s) <= Len(t) - 1
    BY <1>2, <1>4, PrefixIs
  <2> QED BY <1>1, <2>1, <2>2
<1>5. ASSUME NEW s \in Seq(S), IsPrefix(s, t), s # t
      PROVE  IsPrefix(s, Front(t))
  <2>1. Len(s) \in Nat /\ Len(s) <= Len(t) /\ \A k \in 1 .. Len(s) : s[k] = t[k]
    BY <1>5, PrefixIs
  <2>2. Len(s) # Len(t)
    BY <1>5, <2>1
  <2>3. Len(s) <= Len(t) - 1
    BY <1>1, <2>1, <2>2
  <2>4. \A k \in 1 .. Len(s) : s[k] = Front(t)[k]
    BY <1>1, <1>2, <2>1, <2>3
  <2> QED BY <1>2, <2>3, <2>4, PrefixIs
<1> QED BY <1>2, <1>3, <1>4, <1>5

\* What begins a sequence with one more element.
LEMMA AppendIs ==
  ASSUME NEW S, NEW t \in Seq(S), NEW e \in S
  PROVE  /\ Append(t, e) \in Seq(S) /\ Append(t, e) # <<>> /\ Append(t, e) # t
         /\ Front(Append(t, e)) = t /\ IsPrefix(t, Append(t, e))
         /\ \A s \in Seq(S) : IsPrefix(s, Append(t, e)) <=> IsPrefix(s, t) \/ s = Append(t, e)
<1>1. /\ Append(t, e) \in Seq(S) /\ Len(Append(t, e)) = Len(t) + 1
      /\ \A k \in 1 .. Len(t) : Append(t, e)[k] = t[k]
  OBVIOUS
<1>2. Append(t, e) # <<>> /\ Append(t, e) # t
  BY <1>1
<1>3. Front(Append(t, e)) = t
  <2>1. SubSeq(Append(t, e), 1, Len(t)) = t
    BY <1>1
  <2> QED BY <1>1, <2>1 DEF Front
<1>4. IsPrefix(t, Append(t, e))
  BY <1>1, <1>2, <1>3, FrontIs
<1>5. \A s \in Seq(S) : IsPrefix(s, Append(t, e)) <=> IsPrefix(s, t) \/ s = Append(t, e)
  <2>1. PICK u \in Seq(S) : u = Append(t, e) /\ u # <<>> /\ Front(u) = t
    BY <1>1, <1>2, <1>3
  <2>2. \A s \in Seq(S) : IsPrefix(s, t) <=> IsPrefix(s, u) /\ s # u
    <3>1. u # <<>> => \A s \in Seq(S) : IsPrefix(s, Front(u)) <=> IsPrefix(s, u) /\ s # u
      BY FrontIs
    <3> QED BY <2>1, <3>1
  <2>3. IsPrefix(u, u)
    BY PrefixOrder
  <2>4. \A s \in Seq(S) : IsPrefix(s, u) <=> IsPrefix(s, t) \/ s = u
    BY <2>2, <2>3
  <2> QED BY <2>1, <2>4
<1> QED BY <1>1, <1>2, <1>3, <1>4, <1>5

=============================================================================
