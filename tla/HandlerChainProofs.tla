------------------------- MODULE HandlerChainProofs -------------------------
(***************************************************************************)
(* Proofs about HandlerChain for any threads, callbacks, priorities and    *)
(* number of registrations: edits are applied completely and in order, and *)
(* an undisturbed loop calls exactly the handlers in force.                *)
(***************************************************************************)
EXTENDS HandlerChain, FiniteSetTheorems, TLAPS

-----------------------------------------------------------------------------
(***************************************************************************)
(* Order by rank. P maps each element of a finite set to those before it;  *)
(* it is a strict total order when it is irreflexive, transitive and       *)
(* total. Then an element is before another just when it has fewer before  *)
(* it, and the ranks are 0 .. n - 1.                                       *)
(***************************************************************************)
StrictOrder(P) ==
  /\ IsFiniteSet(DOMAIN P)
  /\ \A i \in DOMAIN P : P[i] \subseteq DOMAIN P /\ i \notin P[i]
  /\ \A i, j \in DOMAIN P : i # j => i \in P[j] \/ j \in P[i]
  /\ \A i, j \in DOMAIN P : i \in P[j] => P[i] \subseteq P[j]

\* What comes before has the smaller rank.
LEMMA RankGrows ==
  ASSUME NEW P, StrictOrder(P), NEW i \in DOMAIN P, NEW j \in DOMAIN P
  PROVE  /\ Cardinality(P[i]) \in 0 .. (Cardinality(DOMAIN P) - 1)
         /\ i \in P[j] <=> Cardinality(P[i]) < Cardinality(P[j])
         /\ Cardinality(P[i]) = Cardinality(P[j]) => i = j
<1>1. \A x \in DOMAIN P : IsFiniteSet(P[x]) /\ Cardinality(P[x]) \in Nat
  BY FS_Subset, FS_CardinalityType DEF StrictOrder
<1>2. \A x, y \in DOMAIN P : x \in P[y] => Cardinality(P[x]) < Cardinality(P[y])
  <2> TAKE x, y \in DOMAIN P
  <2> HAVE x \in P[y]
  <2>1. P[x] \subseteq P[y] /\ P[x] # P[y]
    BY DEF StrictOrder
  <2>2. /\ Cardinality(P[x]) <= Cardinality(P[y])
        /\ Cardinality(P[x]) # Cardinality(P[y])
    BY <1>1, <2>1, FS_Subset
  <2> QED BY <1>1, <2>2
<1>3. Cardinality(P[i]) < Cardinality(DOMAIN P)
  <2>1. P[i] \subseteq DOMAIN P /\ P[i] # DOMAIN P
    BY DEF StrictOrder
  <2>2. /\ Cardinality(P[i]) <= Cardinality(DOMAIN P)
        /\ Cardinality(P[i]) # Cardinality(DOMAIN P)
        /\ Cardinality(DOMAIN P) \in Nat
    BY <2>1, FS_Subset, FS_CardinalityType DEF StrictOrder
  <2> QED BY <1>1, <2>2
<1>4. Cardinality(DOMAIN P) \in Nat
  BY FS_CardinalityType DEF StrictOrder
<1>5. /\ i \in P[j] => Cardinality(P[i]) < Cardinality(P[j])
      /\ j \in P[i] => Cardinality(P[j]) < Cardinality(P[i])
      /\ i # j => i \in P[j] \/ j \in P[i]
  BY <1>2 DEF StrictOrder
<1> QED BY <1>1, <1>3, <1>4, <1>5

\* Every rank is taken.
LEMMA RankTaken ==
  ASSUME NEW P, StrictOrder(P), NEW k \in 0 .. (Cardinality(DOMAIN P) - 1)
  PROVE  \E i \in DOMAIN P : Cardinality(P[i]) = k
<1> DEFINE n == Cardinality(DOMAIN P)
           R == 0 .. (n - 1)
           f == [i \in DOMAIN P |-> Cardinality(P[i])]
<1>1. n \in Nat /\ IsFiniteSet(DOMAIN P)
  BY FS_CardinalityType DEF StrictOrder
<1>2. IsFiniteSet(R) /\ Cardinality(R) = n
  BY <1>1, FS_Interval
<1>3. f \in Injection(DOMAIN P, R)
  <2>1. f \in [DOMAIN P -> R]
    BY RankGrows
  <2>2. \A x, y \in DOMAIN P : f[x] = f[y] => x = y
    BY RankGrows
  <2> QED BY <2>1, <2>2 DEF Injection, IsInjective
<1>4. f \in Surjection(DOMAIN P, R)
  BY <1>2, <1>3, FS_Injection
<1> QED BY <1>4 DEF Surjection

\* Arranged(s, P) holds the elements of s at the indices of P, each once, and
\* in their order: place is the index that the k-th element comes from.
LEMMA ArrangedElements ==
  ASSUME NEW S, NEW s \in Seq(S), NEW P, StrictOrder(P),
         DOMAIN P \subseteq DOMAIN s
  PROVE  \E place :
           /\ place \in [1 .. Cardinality(DOMAIN P) -> DOMAIN P]
           /\ \A i \in DOMAIN P : \E k \in DOMAIN place : place[k] = i
           /\ \A k, l \in DOMAIN place : place[k] \in P[place[l]] <=> k < l
           /\ Cardinality(DOMAIN P) \in Nat
           /\ Arranged(s, P) = [k \in DOMAIN place |-> s[place[k]]]
           /\ Arranged(s, P) \in Seq(S)
<1> DEFINE n == Cardinality(DOMAIN P)
           At(k) == CHOOSE i \in DOMAIN P : Cardinality(P[i]) = k - 1
           place == [k \in 1 .. n |-> At(k)]
<1>1. n \in Nat
  BY FS_CardinalityType DEF StrictOrder
<1>2. ASSUME NEW k \in 1 .. n
      PROVE  At(k) \in DOMAIN P /\ Cardinality(P[At(k)]) = k - 1
  <2>1. k - 1 \in 0 .. (n - 1)
    BY <1>1
  <2>2. \E i \in DOMAIN P : Cardinality(P[i]) = k - 1
    BY <2>1, RankTaken
  <2> QED BY <2>2
<1>3. place \in [1 .. n -> DOMAIN P]
  BY <1>2
<1>4. \A k \in 1 .. n : Cardinality(P[place[k]]) = k - 1
  BY <1>2
<1> HIDE DEF At
<1>5. \A k, l \in 1 .. n : place[k] \in P[place[l]] <=> k < l
  <2> TAKE k, l \in 1 .. n
  <2>1. place[k] \in DOMAIN P /\ place[l] \in DOMAIN P
    BY <1>3
  <2>2. place[k] \in P[place[l]] <=> k - 1 < l - 1
    BY <1>4, <2>1, RankGrows
  <2> QED BY <1>1, <2>2
<1>6. \A i \in DOMAIN P : \E k \in 1 .. n : place[k] = i
  <2> TAKE i \in DOMAIN P
  <2>1. PICK k : k = Cardinality(P[i]) + 1
    OBVIOUS
  <2>2. Cardinality(P[i]) \in 0 .. (n - 1)
    BY RankGrows
  <2>3. k \in 1 .. n /\ Cardinality(P[i]) = k - 1
    BY <1>1, <2>1, <2>2
  <2>4. place[k] \in DOMAIN P /\ Cardinality(P[place[k]]) = Cardinality(P[i])
    BY <1>3, <1>4, <2>3
  <2>5. place[k] = i
    BY <2>4, RankGrows
  <2> QED BY <2>3, <2>5
<1>7. Arranged(s, P) = [k \in 1 .. n |-> s[place[k]]]
  BY DEF Arranged, At
<1> HIDE DEF n, place
<1>8. Arranged(s, P) \in Seq(S)
  <2>1. \A k \in 1 .. n : s[place[k]] \in S
    BY <1>3
  <2> QED BY <1>1, <1>7, <2>1
<1>9. DOMAIN place = 1 .. n
  BY <1>3
<1>10. Arranged(s, P) = [k \in DOMAIN place |-> s[place[k]]]
  BY <1>7, <1>9
<1> QED BY <1>1, <1>3, <1>5, <1>6, <1>8, <1>9, <1>10 DEF n

-----------------------------------------------------------------------------
(***************************************************************************)
(* A chain as edits leave it: links with ids of their own below the next   *)
(* id, sorted, and no more than one for a callback that is not shared.     *)
(***************************************************************************)
Distinct(s) == \A i, j \in DOMAIN s : s[i].id = s[j].id => i = j
Sorted(s) ==
  \A i, j \in DOMAIN s :
    i < j => \/ s[i].priority < s[j].priority
             \/ s[i].priority = s[j].priority /\ s[i].id < s[j].id
OwnedOnce(s) ==
  \A i, j \in DOMAIN s :
    s[i].callback = s[j].callback /\ s[i].callback \notin SharedCallbacks
      => i = j
WellFormed(s, n) ==
  /\ s \in Seq(Link) /\ Distinct(s) /\ Sorted(s) /\ OwnedOnce(s)
  /\ \A i \in DOMAIN s : s[i].id < n

\* A link is a record of integers and a callback.
LEMMA LinkFields ==
  ASSUME NEW s \in Seq(Link), NEW i \in DOMAIN s
  PROVE  s[i] \in Link /\ s[i].id \in 1 .. MaxHandlers /\ s[i].priority \in Int
<1>1. s[i] \in Link
  OBVIOUS
<1> QED BY <1>1, HandlerAssumption DEF Link

\* The indices of a sequence, as a finite set.
LEMMA Indices ==
  ASSUME NEW S, NEW s \in Seq(S)
  PROVE  /\ DOMAIN s = 1 .. Len(s) /\ Len(s) \in Nat
         /\ IsFiniteSet(DOMAIN s) /\ Cardinality(DOMAIN s) = Len(s)
<1>1. DOMAIN s = 1 .. Len(s) /\ Len(s) \in Nat
  OBVIOUS
<1> QED BY <1>1, FS_Interval

\* A chain has as many links as ids.
LEMMA OneLinkPerId ==
  ASSUME NEW s \in Seq(Link), Distinct(s)
  PROVE  IsFiniteSet(Ids(s)) /\ Cardinality(Ids(s)) = Len(s)
<1> DEFINE f == [i \in DOMAIN s |-> s[i].id]
<1>1. f \in Bijection(DOMAIN s, Ids(s))
  <2>1. f \in [DOMAIN s -> Ids(s)]
    BY DEF Ids
  <2>2. \A x, y \in DOMAIN s : f[x] = f[y] => x = y
    BY DEF Distinct
  <2>3. \A y \in Ids(s) : \E x \in DOMAIN s : f[x] = y
    BY DEF Ids
  <2> HIDE DEF f
  <2> QED
    BY <2>1, <2>2, <2>3 DEF Bijection, Injection, Surjection, IsInjective
<1>2. ExistsBijection(DOMAIN s, Ids(s))
  BY <1>1 DEF ExistsBijection
<1> QED BY <1>2, Indices, FS_Bijection

\* Rearranging links keeps their ids and callbacks apart.
LEMMA ArrangedChain ==
  ASSUME NEW s \in Seq(Link), NEW P, StrictOrder(P), DOMAIN P \subseteq DOMAIN s
  PROVE  /\ Arranged(s, P) \in Seq(Link)
         /\ \A x : x \in Ids(Arranged(s, P)) <=> \E i \in DOMAIN P : s[i].id = x
         /\ Distinct(s) => Distinct(Arranged(s, P))
         /\ OwnedOnce(s) => OwnedOnce(Arranged(s, P))
         /\ \A n : (\A i \in DOMAIN s : s[i].id < n)
                     => \A k \in DOMAIN Arranged(s, P) :
                          Arranged(s, P)[k].id < n
         /\ \A k, l \in DOMAIN Arranged(s, P) : k < l =>
              \E i, j \in DOMAIN P :
                i \in P[j] /\ Arranged(s, P)[k] = s[i] /\ Arranged(s, P)[l] = s[j]
<1>1. PICK place :
        /\ place \in [1 .. Cardinality(DOMAIN P) -> DOMAIN P]
        /\ \A i \in DOMAIN P : \E k \in DOMAIN place : place[k] = i
        /\ \A k, l \in DOMAIN place : place[k] \in P[place[l]] <=> k < l
        /\ Cardinality(DOMAIN P) \in Nat
        /\ Arranged(s, P) = [k \in DOMAIN place |-> s[place[k]]]
        /\ Arranged(s, P) \in Seq(Link)
  BY ArrangedElements
<1>2. PICK a : a = Arranged(s, P)
  OBVIOUS
<1>3. /\ DOMAIN a = DOMAIN place /\ DOMAIN place \subseteq Nat
      /\ \A k \in DOMAIN a : a[k] = s[place[k]] /\ place[k] \in DOMAIN P
  BY <1>1, <1>2
<1>4. \A k, l \in DOMAIN a : place[k] = place[l] => k = l
  <2> SUFFICES ASSUME NEW k \in DOMAIN a, NEW l \in DOMAIN a,
                      place[k] = place[l], k # l
               PROVE  FALSE
    OBVIOUS
  <2>1. k < l \/ l < k
    BY <1>3
  <2>2. place[k] \in P[place[k]]
    BY <1>1, <1>3, <2>1
  <2> QED BY <1>3, <2>2 DEF StrictOrder
<1>5. \A x : x \in Ids(a) <=> \E i \in DOMAIN P : s[i].id = x
  <2>1. \A x : x \in Ids(a) => \E i \in DOMAIN P : s[i].id = x
    BY <1>3 DEF Ids
  <2>2. \A i \in DOMAIN P : \E k \in DOMAIN a : a[k] = s[i]
    BY <1>1, <1>3
  <2>3. \A x : (\E i \in DOMAIN P : s[i].id = x) => x \in Ids(a)
    BY <2>2 DEF Ids
  <2> QED BY <2>1, <2>3
<1>6. Distinct(s) => Distinct(a)
  BY <1>3, <1>4 DEF Distinct
<1>7. OwnedOnce(s) => OwnedOnce(a)
  BY <1>3, <1>4 DEF OwnedOnce
<1>8. \A n : (\A i \in DOMAIN s : s[i].id < n)
               => \A k \in DOMAIN a : a[k].id < n
  BY <1>3
<1>9. \A k, l \in DOMAIN a : k < l =>
        \E i, j \in DOMAIN P : i \in P[j] /\ a[k] = s[i] /\ a[l] = s[j]
  BY <1>1, <1>3
<1> QED BY <1>1, <1>2, <1>5, <1>6, <1>7, <1>8, <1>9

\* Registration appends a link and sorts: the chain gains its id and nothing
\* else changes.
LEMMA Registers ==
  ASSUME NEW s, NEW n \in Nat, WellFormed(s, n), NEW e \in Link, e.id = n,
         \/ e.callback \in SharedCallbacks
         \/ \A i \in DOMAIN s : s[i].callback # e.callback
  PROVE  /\ WellFormed(StableSort(Append(s, e)), n + 1)
         /\ Ids(StableSort(Append(s, e))) = Ids(s) \cup {n}
<1>1. PICK t : t = Append(s, e)
  OBVIOUS
<1>2. /\ s \in Seq(Link) /\ t \in Seq(Link)
      /\ DOMAIN s = 1 .. Len(s) /\ Len(s) \in Nat
      /\ DOMAIN t = 1 .. (Len(s) + 1)
      /\ \A i \in DOMAIN s : t[i] = s[i]
      /\ t[Len(s) + 1] = e
  BY <1>1 DEF WellFormed
<1>3. /\ \A i \in DOMAIN t : i \in DOMAIN s \/ i = Len(s) + 1
      /\ DOMAIN s \subseteq DOMAIN t /\ Len(s) + 1 \in DOMAIN t
      /\ \A i \in DOMAIN s : i < Len(s) + 1
  BY <1>2
<1>4. \A i \in DOMAIN t : t[i].id \in Int /\ t[i].priority \in Int
  BY <1>2, LinkFields
<1>5. \A i \in DOMAIN s : t[i].id < n
  BY <1>2 DEF WellFormed
<1>6. Distinct(t)
  <2> SUFFICES ASSUME NEW i \in DOMAIN t, NEW j \in DOMAIN t, t[i].id = t[j].id
               PROVE  i = j
    BY DEF Distinct
  <2>1. CASE i \in DOMAIN s /\ j \in DOMAIN s
    BY <1>2, <2>1 DEF WellFormed, Distinct
  <2>2. CASE i \in DOMAIN s /\ j = Len(s) + 1
    BY <1>2, <1>4, <1>5, <2>2
  <2>3. CASE i = Len(s) + 1 /\ j \in DOMAIN s
    BY <1>2, <1>4, <1>5, <2>3
  <2> QED BY <1>3, <2>1, <2>2, <2>3
<1>7. OwnedOnce(t)
  <2> SUFFICES ASSUME NEW i \in DOMAIN t, NEW j \in DOMAIN t,
                      t[i].callback = t[j].callback,
                      t[i].callback \notin SharedCallbacks
               PROVE  i = j
    BY DEF OwnedOnce
  <2>1. CASE i \in DOMAIN s /\ j \in DOMAIN s
    BY <1>2, <2>1 DEF WellFormed, OwnedOnce
  <2>2. CASE i \in DOMAIN s /\ j = Len(s) + 1
    BY <1>2, <2>2
  <2>3. CASE i = Len(s) + 1 /\ j \in DOMAIN s
    BY <1>2, <2>3
  <2> QED BY <1>3, <2>1, <2>2, <2>3
<1>8. \A i, j \in DOMAIN t : i < j /\ t[i].priority = t[j].priority
        => t[i].id < t[j].id
  <2> TAKE i, j \in DOMAIN t
  <2> HAVE i < j /\ t[i].priority = t[j].priority
  <2>1. i \in DOMAIN s
    BY <1>2, <1>3
  <2>2. CASE j \in DOMAIN s
    BY <1>2, <1>4, <2>1, <2>2 DEF WellFormed, Sorted
  <2>3. CASE j = Len(s) + 1
    BY <1>2, <1>5, <2>1, <2>3
  <2> QED BY <1>3, <2>2, <2>3
<1> DEFINE P == [i \in DOMAIN t |-> {j \in DOMAIN t : SortsBefore(t, j, i)}]
<1>9. StrictOrder(P) /\ DOMAIN P = DOMAIN t
  <2>1. IsFiniteSet(DOMAIN P)
    BY <1>2, Indices
  <2>2. \A i \in DOMAIN P : P[i] \subseteq DOMAIN P /\ i \notin P[i]
    BY <1>2, <1>4 DEF SortsBefore
  <2>3. \A i, j \in DOMAIN P : i # j => i \in P[j] \/ j \in P[i]
    BY <1>2, <1>4 DEF SortsBefore
  <2>4. \A i, j \in DOMAIN P : i \in P[j] => P[i] \subseteq P[j]
    BY <1>2, <1>4 DEF SortsBefore
  <2> QED BY <2>1, <2>2, <2>3, <2>4 DEF StrictOrder
<1>10. \A i, j \in DOMAIN P : i \in P[j] => SortsBefore(t, i, j)
  OBVIOUS
<1>11. StableSort(t) = Arranged(t, P)
  BY DEF StableSort
<1> HIDE DEF P
<1>12. PICK a : a = StableSort(t)
  OBVIOUS
<1>13. /\ a \in Seq(Link) /\ Distinct(a) /\ OwnedOnce(a)
       /\ \A x : x \in Ids(a) <=> \E i \in DOMAIN t : t[i].id = x
       /\ \A k, l \in DOMAIN a : k < l =>
            \E i, j \in DOMAIN t : i \in P[j] /\ a[k] = t[i] /\ a[l] = t[j]
  <2>1. a = Arranged(t, P) /\ DOMAIN P = DOMAIN t
    BY <1>9, <1>11, <1>12
  <2>2. /\ Arranged(t, P) \in Seq(Link)
        /\ \A x : x \in Ids(Arranged(t, P)) <=> \E i \in DOMAIN P : t[i].id = x
        /\ Distinct(Arranged(t, P)) /\ OwnedOnce(Arranged(t, P))
        /\ \A k, l \in DOMAIN Arranged(t, P) : k < l =>
             \E i, j \in DOMAIN P :
               i \in P[j] /\ Arranged(t, P)[k] = t[i] /\ Arranged(t, P)[l] = t[j]
    BY <1>2, <1>6, <1>7, <1>9, ArrangedChain
  <2> QED BY <2>1, <2>2
<1>14. \A k \in DOMAIN a : a[k].id < n + 1
  <2>1. \A i \in DOMAIN t : t[i].id < n + 1
    BY <1>2, <1>3, <1>4, <1>5
  <2> QED BY <1>2, <1>9, <1>11, <1>12, <2>1, ArrangedChain
<1>15. Sorted(a)
  <2> SUFFICES ASSUME NEW k \in DOMAIN a, NEW l \in DOMAIN a, k < l
               PROVE  \/ a[k].priority < a[l].priority
                      \/ a[k].priority = a[l].priority /\ a[k].id < a[l].id
    BY DEF Sorted
  <2>1. PICK i \in DOMAIN t, j \in DOMAIN t :
          i \in P[j] /\ a[k] = t[i] /\ a[l] = t[j]
    BY <1>13
  <2>2. SortsBefore(t, i, j)
    BY <1>9, <1>10, <2>1
  <2> QED BY <1>8, <1>9, <2>1, <2>2 DEF SortsBefore
<1>16. Ids(a) = Ids(s) \cup {n}
  <2>1. \A x : x \in Ids(a) <=> \E i \in DOMAIN t : t[i].id = x
    BY <1>13
  <2>2. \A x : x \in Ids(s) <=> \E i \in DOMAIN s : s[i].id = x
    BY DEF Ids
  <2>3. \A x : x \in Ids(a) <=> x \in Ids(s) \/ x = n
    BY <1>2, <1>3, <2>1, <2>2
  <2> QED BY <2>3
<1> QED BY <1>1, <1>12, <1>13, <1>14, <1>15, <1>16 DEF WellFormed

\* The loop of remove_handler erases a link that no neighbour matches.
LEMMA ErasedOnce ==
  ASSUME NEW s \in Seq(Link), NEW ids,
         \A i, j \in DOMAIN s : s[i].id \in ids /\ s[j].id \in ids => i = j,
         NEW i \in DOMAIN s
  PROVE  Erased(s, ids, i) <=> s[i].id \in ids
<1>1. DOMAIN s = 1 .. Len(s) /\ Len(s) \in Nat /\ i \in 1 .. Len(s)
  OBVIOUS
<1>2. ASSUME Erased(s, ids, i) PROVE s[i].id \in ids
  BY <1>1, <1>2 DEF Erased
<1>3. ASSUME s[i].id \in ids PROVE Erased(s, ids, i)
  <2>1. \A j \in i .. i : s[j].id \in ids
    BY <1>1, <1>3
  <2>2. i = 1 \/ s[i - 1].id \notin ids
    <3>1. i # 1 => i - 1 \in DOMAIN s /\ i - 1 # i
      BY <1>1
    <3> QED BY <1>3, <3>1
  <2>3. (i - i) % 2 = 0 /\ i \in 1 .. i
    BY <1>1
  <2> QED BY <2>1, <2>2, <2>3 DEF Erased
<1> QED BY <1>2, <1>3

\* Removal takes the links it means, and only those, and keeps the order.
LEMMA Removes ==
  ASSUME NEW s, NEW n, WellFormed(s, n), NEW ids,
         \A i, j \in DOMAIN s : s[i].id \in ids /\ s[j].id \in ids => i = j
  PROVE  /\ WellFormed(EraseMatching(s, ids), n)
         /\ Ids(EraseMatching(s, ids)) = Ids(s) \ ids
<1> DEFINE kept == {i \in DOMAIN s : ~Erased(s, ids, i)}
           P == [i \in kept |-> {j \in kept : j < i}]
<1>1. /\ s \in Seq(Link) /\ DOMAIN s = 1 .. Len(s) /\ Len(s) \in Nat
      /\ kept \subseteq DOMAIN s /\ kept \subseteq Nat
      /\ \A i \in DOMAIN s : i \in kept <=> s[i].id \notin ids
  BY ErasedOnce DEF WellFormed
<1>2. StrictOrder(P) /\ DOMAIN P = kept
  <2>1. IsFiniteSet(kept)
    BY <1>1, Indices, FS_Subset
  <2> QED BY <1>1, <2>1 DEF StrictOrder
<1>3. \A i, j \in kept : i \in P[j] => i < j
  OBVIOUS
<1>4. PICK a : a = EraseMatching(s, ids)
  OBVIOUS
<1>5. a = Arranged(s, P)
  BY <1>4 DEF EraseMatching
<1> HIDE DEF P, kept
<1>6. /\ a \in Seq(Link) /\ Distinct(a) /\ OwnedOnce(a)
      /\ \A k \in DOMAIN a : a[k].id < n
      /\ \A x : x \in Ids(a) <=> \E i \in kept : s[i].id = x
      /\ \A k, l \in DOMAIN a : k < l =>
           \E i, j \in kept : i \in P[j] /\ a[k] = s[i] /\ a[l] = s[j]
  <2>1. Distinct(s) /\ OwnedOnce(s) /\ \A i \in DOMAIN s : s[i].id < n
    BY DEF WellFormed
  <2>2. /\ Arranged(s, P) \in Seq(Link)
        /\ \A x : x \in Ids(Arranged(s, P)) <=> \E i \in DOMAIN P : s[i].id = x
        /\ Distinct(Arranged(s, P)) /\ OwnedOnce(Arranged(s, P))
        /\ \A k \in DOMAIN Arranged(s, P) : Arranged(s, P)[k].id < n
        /\ \A k, l \in DOMAIN Arranged(s, P) : k < l =>
             \E i, j \in DOMAIN P :
               i \in P[j] /\ Arranged(s, P)[k] = s[i] /\ Arranged(s, P)[l] = s[j]
    BY <1>1, <1>2, <2>1, ArrangedChain
  <2> QED BY <1>2, <1>5, <2>2
<1>7. Sorted(a)
  <2> SUFFICES ASSUME NEW k \in DOMAIN a, NEW l \in DOMAIN a, k < l
               PROVE  \/ a[k].priority < a[l].priority
                      \/ a[k].priority = a[l].priority /\ a[k].id < a[l].id
    BY DEF Sorted
  <2>1. PICK i \in kept, j \in kept : i \in P[j] /\ a[k] = s[i] /\ a[l] = s[j]
    BY <1>6
  <2>2. i < j /\ i \in DOMAIN s /\ j \in DOMAIN s
    BY <1>1, <1>3, <2>1
  <2> QED BY <2>1, <2>2 DEF WellFormed, Sorted
<1>8. Ids(a) = Ids(s) \ ids
  <2>1. \A x : x \in Ids(s) <=> \E i \in DOMAIN s : s[i].id = x
    BY DEF Ids
  <2>2. \A x : x \in Ids(a) <=> x \in Ids(s) /\ x \notin ids
    BY <1>1, <1>6, <2>1
  <2> QED BY <2>2
<1> QED BY <1>4, <1>6, <1>7, <1>8 DEF WellFormed

-----------------------------------------------------------------------------
(***************************************************************************)
(* The edits. The chain the next packet will meet is well formed and holds *)
(* what is registered.                                                     *)
(***************************************************************************)
EditInv ==
  /\ WellFormed(Effective, next_handlerid)
  /\ Ids(Effective) = live

\* Every edit goes to the effective chain.
LEMMA EditedIsEffective == Edited = Effective
  BY DEF Edited, Effective

\* Registration keeps the chain well formed.
LEMMA RegisterKeepsEdits ==
  ASSUME TypeOK, EditInv, NEW cb \in Callbacks, NEW prio \in Priorities,
         register_int_handler(cb, prio)
  PROVE  EditInv'
<1>1. PICK e : e = [id |-> next_handlerid, priority |-> prio, callback |-> cb]
  OBVIOUS
<1>2. /\ next_handlerid \in Nat /\ next_handlerid \in 1 .. MaxHandlers
      /\ next_handlerid + 1 \in 1 .. (MaxHandlers + 1)
  BY HandlerAssumption DEF TypeOK, register_int_handler
<1>3. e \in Link /\ e.id = next_handlerid /\ e.callback = cb
  BY <1>1, <1>2 DEF Link
<1>4. \/ e.callback \in SharedCallbacks
      \/ \A i \in DOMAIN Effective : Effective[i].callback # e.callback
  BY <1>3 DEF register_int_handler
<1>5. PICK s : s = Effective
  OBVIOUS
<1>6. PICK n : n = next_handlerid
  OBVIOUS
<1>7. /\ chain_update' = TRUE /\ chain' = chain
      /\ chain_new' = StableSort(Append(s, e))
      /\ next_handlerid' = n + 1 /\ live' = live \cup {n}
  BY <1>1, <1>5, <1>6, EditedIsEffective DEF register_int_handler, runVars
<1>8. /\ WellFormed(s, n) /\ Ids(s) = live
      /\ \/ e.callback \in SharedCallbacks
         \/ \A i \in DOMAIN s : s[i].callback # e.callback
  BY <1>4, <1>5, <1>6 DEF EditInv
<1>9. /\ WellFormed(StableSort(Append(s, e)), n + 1)
      /\ Ids(StableSort(Append(s, e))) = Ids(s) \cup {n}
  BY <1>2, <1>3, <1>6, <1>8, Registers
<1>10. Effective' = StableSort(Append(s, e))
  BY <1>7 DEF Effective
<1>11. WellFormed(Effective', next_handlerid') /\ Ids(Effective') = live'
  BY <1>7, <1>8, <1>9, <1>10
<1> QED
  BY <1>2, <1>6, <1>7, <1>11 DEF EditInv, WellFormed, Distinct, Sorted, OwnedOnce, Ids

\* remove_handler with ids that one link at most has.
LEMMA RemoveKeepsEdits ==
  ASSUME TypeOK, EditInv, NEW ids, remove_handler(ids),
         \A i, j \in DOMAIN Effective :
           Effective[i].id \in ids /\ Effective[j].id \in ids => i = j
  PROVE  EditInv'
<1>1. PICK s : s = Effective
  OBVIOUS
<1>2. PICK n : n = next_handlerid
  OBVIOUS
<1>3. /\ chain_update' = TRUE /\ chain_new' = EraseMatching(s, ids)
      /\ next_handlerid' = n /\ live' = live \ ids
  BY <1>1, <1>2, EditedIsEffective DEF remove_handler
<1>4. WellFormed(s, n) /\ Ids(s) = live
  BY <1>1, <1>2 DEF EditInv
<1>5. /\ WellFormed(EraseMatching(s, ids), n)
      /\ Ids(EraseMatching(s, ids)) = Ids(s) \ ids
  BY <1>1, <1>4, Removes
<1>6. Effective' = EraseMatching(s, ids)
  BY <1>3 DEF Effective
<1>7. WellFormed(Effective', next_handlerid') /\ Ids(Effective') = live'
  BY <1>3, <1>4, <1>5, <1>6
<1> QED BY <1>7 DEF EditInv, WellFormed, Distinct, Sorted, OwnedOnce, Ids

\* An id names one link, and so does a callback that is not shared.
LEMMA RemovesOne ==
  ASSUME EditInv
  PROVE  /\ \A id : \A i, j \in DOMAIN Effective :
              Effective[i].id \in {id} /\ Effective[j].id \in {id} => i = j
         /\ \A cb \in Callbacks \ SharedCallbacks :
              \A i, j \in DOMAIN Effective :
                Effective[i].id \in IdsOf(cb) /\ Effective[j].id \in IdsOf(cb)
                  => i = j
<1>1. PICK s : s = Effective
  OBVIOUS
<1>2. Distinct(s) /\ OwnedOnce(s)
  BY <1>1 DEF EditInv, WellFormed
<1>3. \A id : \A i, j \in DOMAIN s :
        s[i].id \in {id} /\ s[j].id \in {id} => i = j
  BY <1>2 DEF Distinct
<1>4. \A cb : \A i \in DOMAIN s : s[i].id \in IdsOf(cb) => s[i].callback = cb
  BY <1>1, <1>2 DEF Distinct, IdsOf
<1>5. \A cb \in Callbacks \ SharedCallbacks : \A i, j \in DOMAIN s :
        s[i].id \in IdsOf(cb) /\ s[j].id \in IdsOf(cb) => i = j
  BY <1>2, <1>4 DEF OwnedOnce
<1> QED BY <1>1, <1>3, <1>5

\* The edits of the specification.
Edit == Register \/ RemoveId \/ RemoveCb

\* They keep the chain well formed and leave the runners alone.
LEMMA EditsKeepEdits ==
  ASSUME TypeOK, EditInv, Edit
  PROVE  EditInv' /\ UNCHANGED runVars /\ chain_update' = TRUE
<1>1. CASE Register
  BY <1>1, RegisterKeepsEdits DEF Register, register_int_handler
<1>2. CASE RemoveId
  BY <1>2, RemovesOne, RemoveKeepsEdits
     DEF RemoveId, remove_handler_id, remove_handler
<1>3. CASE RemoveCb
  BY <1>3, RemovesOne, RemoveKeepsEdits
     DEF RemoveCb, remove_handler_cb, remove_handler
<1> QED BY <1>1, <1>2, <1>3 DEF Edit

\* A thread replaces the vector by its pending copy and edits nothing.
LEMMA RunnersKeepEdits ==
  ASSUME EditInv, NEW r \in Runners, Sync(r) \/ Begin(r) \/ Call(r) \/ End(r)
  PROVE  EditInv'
<1>1. /\ Effective' = Effective /\ live' = live
      /\ next_handlerid' = next_handlerid
  BY DEF Sync, Begin, Call, End, Effective, editVars
<1>2. WellFormed(Effective', next_handlerid') /\ Ids(Effective') = live'
  BY <1>1 DEF EditInv
<1> QED BY <1>2 DEF EditInv, WellFormed, Distinct, Sorted, OwnedOnce, Ids

-----------------------------------------------------------------------------
(***************************************************************************)
(* The loops. The vector holds what the last sync block found registered,  *)
(* and a loop whose vector is still in place has called the ids up to the  *)
(* index it has come to.                                                   *)
(***************************************************************************)
Running(r) == rpc[r] = "run"
InPlace(r) == Running(r) /\ r \notin stale
RunInv ==
  /\ Ids(chain) = installed /\ Distinct(chain)
  /\ stale \subseteq {r \in Runners : Running(r)}
  /\ \A r \in Runners : ~Running(r) => next[r] = 1 /\ called[r] = <<>>
  /\ \A r \in Runners : InPlace(r) =>
       /\ due[r] = installed
       /\ next[r] <= Len(chain) + 1
       /\ called[r] = [k \in 1 .. (next[r] - 1) |-> chain[k].id]

HandlerInv == TypeOK /\ EditInv /\ RunInv

\* A vector has no more links than there are ids.
LEMMA ChainBounded ==
  ASSUME TypeOK, RunInv
  PROVE  Len(chain) <= MaxHandlers
<1>1. IsFiniteSet(1 .. MaxHandlers) /\ Cardinality(1 .. MaxHandlers) = MaxHandlers
  BY HandlerAssumption, FS_Interval
<1>2. Cardinality(installed) <= MaxHandlers
  BY <1>1, FS_Subset DEF TypeOK
<1> QED BY <1>2, OneLinkPerId DEF TypeOK, RunInv

\* What is registered is in the effective chain, whose ids are in range.
LEMMA LiveTyped ==
  ASSUME EditInv
  PROVE  live \subseteq 1 .. MaxHandlers /\ Effective \in Seq(Link)
<1>1. PICK s : s = Effective
  OBVIOUS
<1>2. s \in Seq(Link) /\ Ids(s) = live
  BY <1>1 DEF EditInv, WellFormed
<1> QED BY <1>1, <1>2, LinkFields DEF Ids

\* The same after a step.
LEMMA LiveTypedNext ==
  ASSUME EditInv'
  PROVE  live' \subseteq 1 .. MaxHandlers /\ Effective' \in Seq(Link)
<1>1. PICK s : s = Effective'
  OBVIOUS
<1>2. s \in Seq(Link) /\ Ids(s) = live'
  BY <1>1 DEF EditInv, WellFormed, Ids
<1> QED BY <1>1, <1>2, LinkFields DEF Ids

\* Edits keep the types.
LEMMA EditsTyped ==
  ASSUME TypeOK, EditInv, EditInv', Edit
  PROVE  TypeOK' /\ UNCHANGED runVars
<1>1. UNCHANGED runVars /\ chain_update' = TRUE
  BY EditsKeepEdits
<1>2. next_handlerid' \in 1 .. (MaxHandlers + 1)
  <2>1. \/ next_handlerid' = next_handlerid
        \/ next_handlerid <= MaxHandlers /\ next_handlerid' = next_handlerid + 1
    BY DEF Edit, Register, RemoveId, RemoveCb, register_int_handler,
           remove_handler_id, remove_handler_cb, remove_handler
  <2>2. next_handlerid \in 1 .. (MaxHandlers + 1) /\ MaxHandlers \in Nat
    BY HandlerAssumption DEF TypeOK
  <2> QED BY <2>1, <2>2
<1>3. chain_new' \in Seq(Link) /\ live' \subseteq 1 .. MaxHandlers
  BY <1>1, LiveTypedNext DEF Effective
<1> QED BY <1>1, <1>2, <1>3 DEF TypeOK, runVars

\* A step of a runner keeps the types,
LEMMA RunnersTyped ==
  ASSUME HandlerInv, NEW r \in Runners, Sync(r) \/ Begin(r) \/ Call(r) \/ End(r)
  PROVE  TypeOK'
<1>1. CASE Sync(r)
  <2>1. rpc' \in [Runners -> {"idle", "ready", "run"}]
    BY <1>1 DEF HandlerInv, TypeOK, Sync
  <2>2. /\ chain' \in Seq(Link) /\ chain_new' \in Seq(Link)
        /\ chain_update' \in BOOLEAN /\ stale' \subseteq Runners
    <3>1. <<>> \in Seq(Link)
      OBVIOUS
    <3> QED BY <1>1, <3>1 DEF HandlerInv, TypeOK, Sync
  <2> QED BY <1>1, <2>1, <2>2 DEF HandlerInv, TypeOK, Sync
<1>2. CASE Begin(r)
  <2>1. /\ rpc' \in [Runners -> {"idle", "ready", "run"}]
        /\ gate' \in Runners \cup {NoRunner}
    BY <1>2 DEF HandlerInv, TypeOK, Begin
  <2>2. due' \in [Runners -> SUBSET (1 .. MaxHandlers)]
    BY <1>2 DEF HandlerInv, TypeOK, Begin
  <2> QED BY <1>2, <2>1, <2>2 DEF HandlerInv, TypeOK, Begin, editVars
<1>3. CASE Call(r)
  <2>1. /\ next[r] \in DOMAIN chain /\ next[r] + 1 \in 1 .. (MaxHandlers + 1)
        /\ chain \in Seq(Link)
    <3>1. /\ next[r] \in 1 .. (MaxHandlers + 1) /\ chain \in Seq(Link)
          /\ next[r] <= Len(chain)
      BY <1>3 DEF HandlerInv, TypeOK, Call
    <3>2. Len(chain) <= MaxHandlers /\ MaxHandlers \in Nat
      BY HandlerAssumption, ChainBounded DEF HandlerInv
    <3>3. DOMAIN chain = 1 .. Len(chain) /\ Len(chain) \in Nat
      BY <3>1
    <3> QED BY <3>1, <3>2, <3>3
  <2>2. PICK x : x = chain[next[r]].id
    OBVIOUS
  <2>3. x \in 1 .. MaxHandlers
    BY <2>1, <2>2, LinkFields
  <2>4. Append(called[r], x) \in Seq(1 .. MaxHandlers)
    BY <2>3 DEF HandlerInv, TypeOK
  <2>5. called' = [called EXCEPT ![r] = Append(called[r], x)]
    BY <1>3, <2>2 DEF Call
  <2>6. called' \in [Runners -> Seq(1 .. MaxHandlers)]
    BY <2>4, <2>5 DEF HandlerInv, TypeOK
  <2>7. next' \in [Runners -> 1 .. MaxHandlers + 1]
    BY <1>3, <2>1 DEF HandlerInv, TypeOK, Call
  <2> QED BY <1>3, <2>6, <2>7 DEF HandlerInv, TypeOK, Call, editVars
<1>4. CASE End(r)
  <2>1. 1 \in 1 .. (MaxHandlers + 1) /\ <<>> \in Seq(1 .. MaxHandlers)
    BY HandlerAssumption
  <2>2. /\ next' \in [Runners -> 1 .. MaxHandlers + 1]
        /\ called' \in [Runners -> Seq(1 .. MaxHandlers)]
        /\ due' \in [Runners -> SUBSET (1 .. MaxHandlers)]
        /\ rpc' \in [Runners -> {"idle", "ready", "run"}]
    BY <1>4, <2>1 DEF HandlerInv, TypeOK, End
  <2>3. gate' \in Runners \cup {NoRunner} /\ stale' \subseteq Runners
    BY <1>4 DEF HandlerInv, TypeOK, End
  <2> QED BY <1>4, <2>2, <2>3 DEF HandlerInv, TypeOK, End, editVars
<1> QED BY <1>1, <1>2, <1>3, <1>4

\* and the ids in the vector, the loops whose vector is in place, and the
\* runners that are not in their loop, as RunInv says.
LEMMA RunnersKeepRuns ==
  ASSUME HandlerInv, NEW r \in Runners, Sync(r) \/ Begin(r) \/ Call(r) \/ End(r)
  PROVE  RunInv'
<1> USE DEF HandlerInv
<1>1. /\ DOMAIN rpc = Runners /\ DOMAIN next = Runners /\ DOMAIN called = Runners
      /\ DOMAIN due = Runners /\ Len(chain) \in Nat /\ next[r] \in Nat
      /\ DOMAIN chain = 1 .. Len(chain) /\ chain \in Seq(Link)
  <2>1. 1 .. (MaxHandlers + 1) \subseteq Nat /\ Len(chain) \in Nat
    BY HandlerAssumption DEF TypeOK
  <2> QED BY <2>1 DEF TypeOK
<1>2. CASE Sync(r)
  <2>1. /\ rpc[r] = "idle" /\ rpc' = [rpc EXCEPT ![r] = "ready"]
        /\ next' = next /\ called' = called /\ due' = due
        /\ installed' = live
    BY <1>2 DEF Sync
  <2>2. \A q \in Runners : Running(q)' <=> Running(q)
    BY <1>1, <2>1 DEF Running
  <2>3. Ids(Effective) = live /\ Distinct(Effective)
    BY DEF EditInv, WellFormed
  <2>4. CASE chain_update
    <3>1. /\ chain' = Effective /\ stale' = {q \in Runners : Running(q)}
      BY <1>2, <2>4 DEF Sync, Effective, Running
    <3>2. Ids(chain') = installed' /\ Distinct(chain')
      BY <2>1, <2>3, <3>1
    <3>3. \A q \in Runners : ~InPlace(q)'
      BY <2>2, <3>1 DEF InPlace
    <3>4. stale' \subseteq {q \in Runners : Running(q)'}
      BY <2>2, <3>1
    <3> QED
      BY <2>1, <2>2, <3>2, <3>3, <3>4 DEF RunInv, Ids, Distinct, Running
  <2>5. CASE ~chain_update
    <3>1. chain' = chain /\ stale' = stale /\ chain = Effective
      BY <1>2, <2>5 DEF Sync, Effective
    <3>2. installed' = installed
      BY <2>1, <2>3, <3>1 DEF RunInv
    <3> QED
      BY <2>1, <2>2, <3>1, <3>2 DEF RunInv, Ids, Distinct, Running, InPlace
  <2> QED BY <2>4, <2>5
<1>3. CASE Begin(r)
  <2>1. /\ rpc[r] = "ready" /\ rpc' = [rpc EXCEPT ![r] = "run"]
        /\ next' = next /\ called' = called /\ due' = [due EXCEPT ![r] = installed]
        /\ installed' = installed /\ chain' = chain /\ stale' = stale
    BY <1>3 DEF Begin
  <2>2. Running(r)' /\ \A q \in Runners : q # r => (Running(q)' <=> Running(q))
    BY <1>1, <2>1 DEF Running
  <2>3. next[r] = 1 /\ called[r] = <<>>
    BY <2>1 DEF RunInv, Running
  <2>4. called[r] = [k \in 1 .. (next[r] - 1) |-> chain[k].id]
    BY <2>3
  <2>5. \A q \in Runners : InPlace(q)' =>
          /\ due'[q] = installed
          /\ next[q] <= Len(chain) + 1
          /\ called[q] = [k \in 1 .. (next[q] - 1) |-> chain[k].id]
    <3> TAKE q \in Runners
    <3>1. CASE q = r
      BY <1>1, <2>1, <2>3, <2>4, <3>1
    <3>2. CASE q # r
      BY <1>1, <2>1, <2>2, <3>2 DEF RunInv, InPlace
    <3> QED BY <3>1, <3>2
  <2>6. stale \subseteq {q \in Runners : Running(q)'}
    BY <2>2 DEF RunInv
  <2>7. \A q \in Runners : ~Running(q)' => next[q] = 1 /\ called[q] = <<>>
    BY <2>2 DEF RunInv
  <2> QED BY <2>1, <2>5, <2>6, <2>7 DEF RunInv, Ids, Distinct
<1>4. CASE Call(r)
  <2>1. PICK n : n = next[r]
    OBVIOUS
  <2>2. /\ Running(r) /\ r \notin stale /\ n <= Len(chain)
        /\ called' = [called EXCEPT ![r] = Append(@, chain[n].id)]
        /\ next' = [next EXCEPT ![r] = n + 1]
        /\ rpc' = rpc /\ chain' = chain /\ stale' = stale
        /\ installed' = installed /\ due' = due
    BY <1>4, <2>1 DEF Call, Running
  <2>3. \A q \in Runners : /\ Running(q)' <=> Running(q)
                           /\ InPlace(q)' <=> InPlace(q)
    BY <2>2 DEF Running, InPlace
  <2>4. n \in Nat /\ n >= 1 /\ InPlace(r)
    BY <2>1, <2>2, HandlerAssumption DEF TypeOK, InPlace
  <2>5. called[r] = [k \in 1 .. (n - 1) |-> chain[k].id]
    BY <2>1, <2>4 DEF RunInv
  <2>6. Append(called[r], chain[n].id) = [k \in 1 .. n |-> chain[k].id]
    <3>1. PICK S : S = {chain[k].id : k \in 1 .. n}
      OBVIOUS
    <3>2. called[r] \in Seq(S) /\ Len(called[r]) = n - 1
      BY <2>4, <2>5, <3>1
    <3> QED BY <2>4, <2>5, <3>2
  <2>7. called'[r] = [k \in 1 .. n |-> chain[k].id] /\ next'[r] = n + 1
    BY <1>1, <2>2, <2>6
  <2>8. called'[r] = [k \in 1 .. (next'[r] - 1) |-> chain[k].id]
    BY <2>4, <2>7
  <2>9. \A q \in Runners : InPlace(q) =>
          /\ due[q] = installed
          /\ next'[q] <= Len(chain) + 1
          /\ called'[q] = [k \in 1 .. (next'[q] - 1) |-> chain[k].id]
    <3> TAKE q \in Runners
    <3>1. CASE q = r
      BY <1>1, <2>2, <2>4, <2>7, <2>8, <3>1 DEF RunInv
    <3>2. CASE q # r
      BY <1>1, <2>2, <3>2 DEF RunInv
    <3> QED BY <3>1, <3>2
  <2>10. \A q \in Runners : ~Running(q) => next'[q] = 1 /\ called'[q] = <<>>
    BY <1>1, <2>2 DEF RunInv
  <2> QED BY <2>2, <2>3, <2>9, <2>10 DEF RunInv, Ids, Distinct
<1>5. CASE End(r)
  <2>1. /\ rpc[r] = "run" /\ rpc' = [rpc EXCEPT ![r] = "idle"]
        /\ next' = [next EXCEPT ![r] = 1] /\ called' = [called EXCEPT ![r] = <<>>]
        /\ due' = [due EXCEPT ![r] = {}] /\ stale' = stale \ {r}
        /\ chain' = chain /\ installed' = installed
    BY <1>5 DEF End
  <2>2. ~Running(r)' /\ \A q \in Runners : q # r => (Running(q)' <=> Running(q))
    BY <1>1, <2>1 DEF Running
  <2>3. \A q \in Runners : InPlace(q)' =>
          /\ due'[q] = installed
          /\ next'[q] <= Len(chain) + 1
          /\ called'[q] = [k \in 1 .. (next'[q] - 1) |-> chain[k].id]
    <3> TAKE q \in Runners
    <3>1. CASE q = r
      BY <2>2, <3>1 DEF InPlace
    <3>2. CASE q # r
      <4>1. InPlace(q)' => InPlace(q)
        BY <2>1, <2>2, <3>2 DEF InPlace
      <4>2. due'[q] = due[q] /\ next'[q] = next[q] /\ called'[q] = called[q]
        BY <1>1, <2>1, <3>2
      <4> QED BY <4>1, <4>2 DEF RunInv
    <3> QED BY <3>1, <3>2
  <2>4. stale' \subseteq {q \in Runners : Running(q)'}
    BY <2>1, <2>2 DEF RunInv
  <2>5. \A q \in Runners : ~Running(q)' => next'[q] = 1 /\ called'[q] = <<>>
    BY <1>1, <2>1, <2>2 DEF RunInv
  <2> QED BY <2>1, <2>3, <2>4, <2>5 DEF RunInv, Ids, Distinct
<1> QED BY <1>2, <1>3, <1>4, <1>5

-----------------------------------------------------------------------------
(***************************************************************************)
(* The theorems.                                                           *)
(***************************************************************************)

\* The inductive invariant holds.
LEMMA HandlerInvHolds == Spec => []HandlerInv
<1>1. Init => HandlerInv
  <2> SUFFICES ASSUME Init PROVE HandlerInv
    OBVIOUS
  <2>1. TypeOK
    <3>1. 1 \in 1 .. (MaxHandlers + 1)
      BY HandlerAssumption
    <3>2. <<>> \in Seq(Link) /\ <<>> \in Seq(1 .. MaxHandlers)
      OBVIOUS
    <3>3. /\ rpc \in [Runners -> {"idle", "ready", "run"}]
          /\ next \in [Runners -> 1 .. MaxHandlers + 1]
      BY <3>1 DEF Init
    <3>4. /\ called \in [Runners -> Seq(1 .. MaxHandlers)]
          /\ due \in [Runners -> SUBSET (1 .. MaxHandlers)]
      BY <3>2 DEF Init
    <3> QED BY <3>1, <3>2, <3>3, <3>4 DEF Init, TypeOK
  <2>2. Effective = <<>> /\ Ids(<<>>) = {}
    BY DEF Init, Effective, Ids
  <2>3. WellFormed(<<>>, next_handlerid)
    BY DEF WellFormed, Distinct, Sorted, OwnedOnce
  <2>4. EditInv
    BY <2>2, <2>3 DEF Init, EditInv
  <2>5. RunInv
    BY <2>2 DEF Init, RunInv, Running, InPlace, Distinct
  <2> QED BY <2>1, <2>4, <2>5 DEF HandlerInv
<1>2. HandlerInv /\ [Next]_vars => HandlerInv'
  <2> SUFFICES ASSUME HandlerInv, [Next]_vars PROVE HandlerInv'
    OBVIOUS
  <2>1. CASE Edit
    <3>1. EditInv' /\ UNCHANGED runVars
      BY <2>1, EditsKeepEdits DEF HandlerInv
    <3>2. TypeOK'
      BY <2>1, <3>1, EditsTyped DEF HandlerInv
    <3>3. RunInv'
      BY <3>1 DEF HandlerInv, RunInv, runVars, Running, InPlace, Ids, Distinct
    <3> QED BY <3>1, <3>2, <3>3 DEF HandlerInv
  <2>2. ASSUME NEW r \in Runners, Sync(r) \/ Begin(r) \/ Call(r) \/ End(r)
        PROVE  HandlerInv'
    <3>1. EditInv'
      BY <2>2, RunnersKeepEdits DEF HandlerInv
    <3>2. TypeOK' /\ RunInv'
      BY <2>2, RunnersTyped, RunnersKeepRuns
    <3> QED BY <3>1, <3>2 DEF HandlerInv
  <2>3. CASE UNCHANGED vars
    BY <2>3 DEF vars, HandlerInv, TypeOK, EditInv, RunInv, Running, InPlace,
                Ids, Distinct, Effective, WellFormed, Sorted, OwnedOnce
  <2> QED BY <2>1, <2>2, <2>3 DEF Next, Edit
<1> QED BY <1>1, <1>2, PTL DEF Spec

\* The variables have their types: no loop gets past the links there are ids
\* for (packetchain.cc:504-532).
THEOREM TypeCorrect == Spec => []TypeOK
<1>1. HandlerInv => TypeOK
  BY DEF HandlerInv
<1> QED BY <1>1, HandlerInvHolds, PTL

\* The chain the next packet meets holds exactly the handlers registered and
\* not removed, for any callbacks, priorities and number of threads.
THEOREM AllEditsApplied == Spec => []EditsApplied
<1>1. HandlerInv => EditsApplied
  BY OneLinkPerId DEF HandlerInv, EditInv, WellFormed, EditsApplied
<1> QED BY <1>1, HandlerInvHolds, PTL

\* Handlers are in ascending order of priority, and of registration where it
\* is equal.
THEOREM OrderedByPriority == Spec => []PriorityOrder
<1>1. HandlerInv => PriorityOrder
  BY DEF HandlerInv, EditInv, WellFormed, Sorted, PriorityOrder
<1> QED BY <1>1, HandlerInvHolds, PTL

\* A loop that keeps its vector shows the packet to the handlers that were
\* registered at the last sync block before it, each once.
THEOREM PacketsSeeDue == Spec => []PacketSeesDue
<1>1. HandlerInv => PacketSeesDue
  <2> SUFFICES ASSUME HandlerInv, NEW r \in Runners, rpc[r] = "run",
                      r \notin stale, next[r] > Len(chain)
               PROVE  /\ ToSet(called[r]) = due[r]
                      /\ Len(called[r]) = Cardinality(due[r])
    BY DEF PacketSeesDue
  <2>1. /\ chain \in Seq(Link) /\ Len(chain) \in Nat /\ next[r] \in Nat
        /\ DOMAIN chain = 1 .. Len(chain)
    <3>1. 1 .. (MaxHandlers + 1) \subseteq Nat
      BY HandlerAssumption
    <3> QED BY <3>1 DEF HandlerInv, TypeOK
  <2>2. /\ due[r] = installed /\ next[r] <= Len(chain) + 1
        /\ called[r] = [k \in 1 .. (next[r] - 1) |-> chain[k].id]
    BY DEF HandlerInv, RunInv, InPlace, Running
  <2>3. next[r] - 1 = Len(chain)
    BY <2>1, <2>2
  <2>4. called[r] = [k \in DOMAIN chain |-> chain[k].id]
    BY <2>1, <2>2, <2>3
  <2>5. PICK c : c = called[r]
    OBVIOUS
  <2>6. Len(c) = Len(chain) /\ ToSet(c) = Ids(chain)
    BY <2>1, <2>4, <2>5 DEF ToSet, Ids
  <2>7. Cardinality(Ids(chain)) = Len(chain)
    BY <2>1, OneLinkPerId DEF HandlerInv, RunInv
  <2> QED BY <2>2, <2>5, <2>6, <2>7 DEF HandlerInv, RunInv
<1> QED BY <1>1, HandlerInvHolds, PTL
=============================================================================
