--------------------------- MODULE GitViewsProofs ---------------------------
(***************************************************************************)
(* What a knot shows of its repositories is true, for every history, tree  *)
(* and cache, and any number of pushes and requests.                       *)
(*                                                                         *)
(* Histories and searches are least sets closed under a step: what holds   *)
(* along them is shown by giving a closed set.  What ends them is that     *)
(* parents have smaller numbers.                                           *)
(***************************************************************************)
EXTENDS GitViews, FiniteSetTheorems, SequenceTheorems, WellFoundedInduction, TLAPS

LEMMA LeastNumber ==
    ASSUME NEW S, S \subseteq Nat, S # {}
    PROVE  \E m \in S : \A n \in S : m <= n
<1>1. PICK m \in S : \A n \in S : ~(<<n, m>> \in OpToRel(<, Nat))
  BY NatLessThanWellFounded, WFMin
<1>2. \A n \in S : ~(n < m)
  BY <1>1, Zenon DEF OpToRel
<1> QED
  BY <1>2

\* The numbers below a bound have a largest one.
LEMMA LargestNumber ==
    ASSUME NEW S, S \subseteq Nat, S # {}, NEW b \in Nat, \A n \in S : n <= b
    PROVE  \E m \in S : \A n \in S : n <= m
<1> DEFINE T == {b - n : n \in S}
<1>1. T \subseteq Nat /\ T # {}
  <2>1. \A n \in S : b - n \in Nat
    BY SMT
  <2> QED
    BY <2>1
<1>2. PICK t \in T : \A u \in T : t <= u
  BY <1>1, LeastNumber
<1>3. PICK m \in S : t = b - m
  BY <1>2
<1>4. \A n \in S : b - m <= b - n
  BY <1>2, <1>3
<1> QED
  BY <1>4

-----------------------------------------------------------------------------
(* Ancestors.                                                               *)

Closed(S) == \A e \in S : Range(Parents[e]) \subseteq S

LEMMA ParentFacts ==
    ASSUME NEW c \in Commits
    PROVE  /\ Range(Parents[c]) \subseteq Commits
           /\ DOMAIN Parents[c] = 1 .. Len(Parents[c])
           /\ Len(Parents[c]) \in Nat
           /\ \A i \in DOMAIN Parents[c] : Parents[c][i] \in Commits /\ Parents[c][i] < c
<1>1. Parents[c] \in Seq(Commits)
  BY CommitAssumption
<1> QED
  BY <1>1, CommitAssumption DEF Range

LEMMA AncestorFacts ==
    ASSUME NEW c \in Commits
    PROVE  /\ Ancestors[c] \subseteq Commits
           /\ IsFiniteSet(Ancestors[c])
           /\ c \in Ancestors[c]
           /\ Closed(Ancestors[c])
           /\ \A S \in SUBSET Commits : c \in S /\ Closed(S) => Ancestors[c] \subseteq S
<1>1. Ancestors[c] = {d \in Commits : \A S \in SUBSET Commits : c \in S /\ Closed(S) => d \in S}
  BY DEF Ancestors, Closed
<1>2. IsFiniteSet(Ancestors[c])
  BY <1>1, CommitAssumption, FS_Subset
<1>3. Closed(Ancestors[c])
  BY <1>1, ParentFacts DEF Closed
<1> QED
  BY <1>1, <1>2, <1>3

-----------------------------------------------------------------------------
(* The last commit of a path.                                               *)

LEMMA HeirFacts ==
    ASSUME NEW c \in Commits, NEW files
    PROVE  /\ Heir(c, files) # None => /\ Heir(c, files) \in Range(Parents[c])
                                   /\ Heir(c, files) \in Commits /\ Heir(c, files) < c
                                   /\ Content(Heir(c, files), files) = Content(c, files)
           /\ Heir(c, files) = None =>
                \A i \in DOMAIN Parents[c] : Content(Parents[c][i], files) # Content(c, files)
<1> DEFINE same == {i \in DOMAIN Parents[c] : Content(Parents[c][i], files) = Content(c, files)}
<1>1. Heir(c, files) = IF same = {} THEN None
                   ELSE Parents[c][CHOOSE i \in same : \A j \in same : i <= j]
  BY DEF Heir
<1>2. CASE same = {}
  BY <1>1, <1>2
<1>3. CASE same # {}
  <2>1. same \subseteq Nat
    BY ParentFacts
  <2>2. \E i \in same : \A j \in same : i <= j
    BY <1>3, <2>1, LeastNumber
  <2>3. PICK i \in same : Heir(c, files) = Parents[c][i]
    BY <1>1, <1>3, <2>2
  <2> QED
    BY <2>3, ParentFacts, CommitAssumption DEF Range
<1> QED
  BY <1>2, <1>3

LEMMA SearchedFacts ==
    ASSUME NEW c \in Commits, NEW files
    PROVE  /\ \A d \in Searched(c, files) : d \in Ancestors[c] /\ Content(d, files) = Content(c, files)
           /\ \E d \in Searched(c, files) : Heir(d, files) = None
<1> DEFINE Followed(S) == \A e \in S : Heir(e, files) \in S \cup {None}
           Like == {d \in Ancestors[c] : Content(d, files) = Content(c, files)}
<1>1. /\ Searched(c, files) \subseteq Commits
      /\ \A d \in Commits : d \in Searched(c, files)
            <=> \A S \in SUBSET Commits : c \in S /\ Followed(S) => d \in S
  BY DEF Searched
<1>2. c \in Like /\ Like \in SUBSET Commits
  BY AncestorFacts
<1>3. Followed(Like)
  <2> SUFFICES ASSUME NEW e \in Like, Heir(e, files) # None
               PROVE  Heir(e, files) \in Like
    OBVIOUS
  <2>1. e \in Commits /\ e \in Ancestors[c] /\ Content(e, files) = Content(c, files)
    BY <1>2
  <2>2. Heir(e, files) \in Range(Parents[e]) /\ Content(Heir(e, files), files) = Content(e, files)
    BY <2>1, HeirFacts
  <2>3. Heir(e, files) \in Ancestors[c]
    BY <2>1, <2>2, AncestorFacts DEF Closed
  <2> QED
    BY <2>1, <2>2, <2>3
<1>4. Searched(c, files) \subseteq Like
  BY <1>1, <1>2, <1>3
<1>5. c \in Searched(c, files)
  BY <1>1
<1>6. PICK m \in Searched(c, files) : \A n \in Searched(c, files) : m <= n
  BY <1>1, <1>5, CommitAssumption, LeastNumber
<1>7. ASSUME Heir(m, files) # None PROVE FALSE
  <2>1. m \in Commits /\ m \in Nat
    BY <1>1, CommitAssumption
  <2>2. Heir(m, files) \in Commits /\ Heir(m, files) < m
    BY <1>7, <2>1, HeirFacts
  <2>3. ASSUME NEW S \in SUBSET Commits, c \in S, Followed(S) PROVE Heir(m, files) \in S
    <3>1. m \in S
      BY <1>1, <2>3
    <3> QED
      BY <1>7, <2>3, <3>1
  <2>4. Heir(m, files) \in Searched(c, files)
    BY <1>1, <2>2, <2>3
  <2> QED
    <3>1. m <= Heir(m, files) /\ Heir(m, files) \in Nat
      BY <1>6, <2>2, <2>4, CommitAssumption
    <3> QED
      BY <2>1, <2>2, <3>1
<1> QED
  BY <1>4, <1>6, <1>7

\* What a search finds is of the history that was searched, left what the path
\* selects as it is there, and changed something of it.
LEMMA LastTouchFacts ==
    ASSUME NEW c \in Commits, NEW p \in Paths, LastTouch[c][p] # None
    PROVE  /\ LastTouch[c][p] \in Ancestors[c]
           /\ Content(LastTouch[c][p], Selects[p]) = Content(c, Selects[p])
           /\ Diff(LastTouch[c][p]) \cap Selects[p] # {}
<1> DEFINE last == CHOOSE d \in Searched(c, Selects[p]) : Heir(d, Selects[p]) = None
<1>1. LastTouch[c][p] = IF Parents[last] = <<>> /\ ~Present(last, Selects[p]) THEN None ELSE last
  BY DEF LastTouch
<1>2. last \in Searched(c, Selects[p]) /\ Heir(last, Selects[p]) = None
  BY SearchedFacts
<1>3. last \in Ancestors[c] /\ last \in Commits /\ Content(last, Selects[p]) = Content(c, Selects[p])
  BY <1>2, SearchedFacts, AncestorFacts
<1>4. LastTouch[c][p] = last /\ (Parents[last] # <<>> \/ Present(last, Selects[p]))
  BY <1>1
<1> HIDE DEF last
<1>5. Selects[p] \subseteq Files
  BY DirAssumption DEF Paths
<1>6. CASE Parents[last] = <<>>
  <2>1. PICK f \in Selects[p] : Tree[last][f] # None
    BY <1>4, <1>6 DEF Present
  <2>2. f \in Diff(last)
    BY <1>5, <1>6, <2>1 DEF Diff
  <2> QED
    BY <1>3, <1>4, <2>1, <2>2
<1>7. CASE Parents[last] # <<>>
  <2>1. Parents[last] \in Seq(Commits)
    BY <1>3, CommitAssumption
  <2>2. 1 \in DOMAIN Parents[last] /\ Head(Parents[last]) = Parents[last][1]
    <3> DEFINE s == Parents[last]
    <3>1. s \in Seq(Commits) /\ s # <<>>
      BY <1>7, <2>1
    <3> HIDE DEF s
    <3>2. 1 \in DOMAIN s /\ Head(s) = s[1]
      BY <3>1
    <3> QED
      BY <3>2 DEF s
  <2>3. Content(Parents[last][1], Selects[p]) # Content(last, Selects[p])
    BY <1>2, <1>3, <2>2, HeirFacts
  <2>4. PICK f \in Selects[p] : Tree[Parents[last][1]][f] # Tree[last][f]
    BY <2>3 DEF Content
  <2>5. f \in Diff(last)
    BY <1>5, <1>7, <2>2, <2>4 DEF Diff
  <2> QED
    BY <1>3, <1>4, <2>4, <2>5
<1> QED
  BY <1>6, <1>7

\* Whoever selects an entry that is there finds a commit.
LEMMA LastTouchFound ==
    ASSUME NEW c \in Commits, NEW p \in Paths, Below[p] \subseteq Selects[p],
           Present(c, Below[p])
    PROVE  LastTouch[c][p] # None
<1> DEFINE last == CHOOSE d \in Searched(c, Selects[p]) : Heir(d, Selects[p]) = None
<1>1. LastTouch[c][p] = IF Parents[last] = <<>> /\ ~Present(last, Selects[p]) THEN None ELSE last
  BY DEF LastTouch
<1>2. last \in Searched(c, Selects[p])
  BY SearchedFacts
<1> HIDE DEF last
<1>3. last \in Commits /\ Content(last, Selects[p]) = Content(c, Selects[p])
  BY <1>2, SearchedFacts, AncestorFacts
<1>4. PICK f \in Selects[p] : Tree[c][f] # None
  BY DEF Present
<1>5. Tree[last][f] = Tree[c][f]
  BY <1>3, <1>4 DEF Content
<1>6. Present(last, Selects[p])
  BY <1>4, <1>5 DEF Present
<1> QED
  BY <1>1, <1>3, <1>6, CommitAssumption

LEMMA LastTouchType ==
    ASSUME NEW c \in Commits, NEW p \in Paths
    PROVE  LastTouch[c][p] \in Commits \cup {None}
BY LastTouchFacts, AncestorFacts

-----------------------------------------------------------------------------
(* The history of a commit is its ancestors, each once.                     *)

LEMMA WalkInjective ==
    ASSUME NEW c \in Commits, NEW n \in Nat, NEW s \in [1 .. n -> Ancestors[c]], IsPreorder(s, c)
    PROVE  IsInjective(s)
<1>1. \A i \in 2 .. Len(s) : s[i] \notin {s[j] : j \in 1 .. i - 1}
  BY DEF IsPreorder
<1>2. Len(s) = n
  OBVIOUS
<1>3. \A i, j \in 1 .. n : j < i => s[i] # s[j]
  <2> SUFFICES ASSUME NEW i \in 1 .. n, NEW j \in 1 .. n, j < i
               PROVE  s[i] # s[j]
    OBVIOUS
  <2>1. i \in 2 .. Len(s) /\ j \in 1 .. i - 1
    BY <1>2
  <2> QED
    BY <1>1, <2>1
<1>4. \A i, j \in 1 .. n : i # j => j < i \/ i < j
  OBVIOUS
<1> QED
  BY <1>3, <1>4 DEF IsInjective

\* A walk that has not met every ancestor goes on.
LEMMA WalkGoesOn ==
    ASSUME NEW c \in Commits, NEW n \in Nat \ {0}, n < Cardinality(Ancestors[c]),
           NEW s \in [1 .. n -> Ancestors[c]], IsPreorder(s, c)
    PROVE  \E t \in [1 .. n + 1 -> Ancestors[c]] : IsPreorder(t, c)
<1> DEFINE A == Ancestors[c]
           seen == {s[j] : j \in 1 .. n}
           open == {j \in 1 .. n : ~(Range(Parents[s[j]]) \subseteq seen)}
<1>0. s[1] = c /\ Len(s) = n
  BY DEF IsPreorder
<1>1. open # {}
  <2> SUFFICES ASSUME open = {} PROVE FALSE
    OBVIOUS
  <2>1. seen \subseteq A /\ c \in seen
    BY <1>0
  <2>2. Closed(seen)
    BY DEF Closed
  <2>3. seen \in SUBSET Commits
    BY <2>1, AncestorFacts
  <2>4. A \subseteq seen
    BY <2>1, <2>2, <2>3, AncestorFacts
  <2>5. s \in Surjection(1 .. n, A)
    BY <2>1, <2>4 DEF Surjection, Range
  <2>6. Cardinality(A) <= n
    BY <2>5, FS_SurjCardinalityBound DEF ExistsSurjection
  <2>7. Cardinality(A) \in Nat
    BY AncestorFacts, FS_CardinalityType
  <2> QED
    BY <2>6, <2>7
<1>2. PICK j \in open : \A m \in open : m <= j
  <2>1. open \subseteq Nat /\ n \in Nat /\ \A m \in open : m <= n
    OBVIOUS
  <2> HIDE DEF open
  <2> QED
    BY <1>1, <2>1, LargestNumber
<1> DEFINE same == {k \in DOMAIN Parents[s[j]] : Parents[s[j]][k] \notin seen}
<1>3. s[j] \in Commits /\ s[j] \in A /\ j \in 1 .. n
  BY AncestorFacts
<1>4. same \subseteq Nat /\ same # {}
  BY <1>2, <1>3, ParentFacts DEF Range
<1>5. PICK k \in same : \A m \in same : k <= m
  BY <1>4, LeastNumber
<1> DEFINE next == Parents[s[j]][k]
           t == [i \in 1 .. n + 1 |-> IF i = n + 1 THEN next ELSE s[i]]
<1>6. next \in A /\ next \notin seen
  BY <1>3, <1>5, AncestorFacts DEF Closed, Range
<1>7. t \in [1 .. n + 1 -> A] /\ Len(t) = n + 1
  BY <1>6
<1>8. \A i \in 1 .. n : t[i] = s[i]
  OBVIOUS
<1>9. t[n + 1] = next
  OBVIOUS
<1>10. \A m \in 1 .. k - 1 : Parents[s[j]][m] \in seen
  <2> SUFFICES ASSUME NEW m \in 1 .. k - 1
               PROVE  m \notin same /\ m \in DOMAIN Parents[s[j]]
    OBVIOUS
  <2>1. m \in DOMAIN Parents[s[j]] /\ m < k
    BY <1>3, <1>5, ParentFacts
  <2> QED
    BY <1>4, <1>5, <2>1
<1> HIDE DEF t, next, same
<1>11. IsPreorder(t, c)
  <2>1. t[1] = c
    BY <1>0, <1>8
  <2>2. ASSUME NEW i \in 2 .. n
        PROVE  \E l \in {l \in 1 .. i - 1 :
                             ~(Range(Parents[t[l]]) \subseteq {t[m] : m \in 1 .. i - 1})} :
                  \E h \in DOMAIN Parents[t[l]] :
                   /\ \A m \in {m \in 1 .. i - 1 :
                             ~(Range(Parents[t[m]]) \subseteq {t[o] : o \in 1 .. i - 1})} : m <= l
                   /\ t[i] = Parents[t[l]][h] /\ t[i] \notin {t[m] : m \in 1 .. i - 1}
                   /\ \A m \in 1 .. h - 1 : Parents[t[l]][m] \in {t[o] : o \in 1 .. i - 1}
    <3> DEFINE was == {s[m] : m \in 1 .. i - 1}
               has == {t[m] : m \in 1 .. i - 1}
    <3>1. i \in 2 .. Len(s) /\ 1 .. i - 1 \subseteq 1 .. n /\ i \in 1 .. n
      BY <1>0
    <3>2. PICK l \in {l \in 1 .. i - 1 : ~(Range(Parents[s[l]]) \subseteq was)} :
             \E h \in DOMAIN Parents[s[l]] :
                /\ \A m \in {m \in 1 .. i - 1 : ~(Range(Parents[s[m]]) \subseteq was)} : m <= l
                /\ s[i] = Parents[s[l]][h] /\ s[i] \notin was
                /\ \A m \in 1 .. h - 1 : Parents[s[l]][m] \in was
      BY <3>1, Zenon DEF IsPreorder
    <3>3. was = has
      BY <1>8, <3>1
    <3>4. t[i] = s[i] /\ \A m \in 1 .. i - 1 : t[m] = s[m]
      BY <1>8, <3>1
    <3> HIDE DEF was, has
    <3>5. /\ l \in {m \in 1 .. i - 1 : ~(Range(Parents[t[m]]) \subseteq has)}
          /\ \E h \in DOMAIN Parents[t[l]] :
                /\ \A m \in {m \in 1 .. i - 1 : ~(Range(Parents[t[m]]) \subseteq has)} : m <= l
                /\ t[i] = Parents[t[l]][h] /\ t[i] \notin has
                /\ \A m \in 1 .. h - 1 : Parents[t[l]][m] \in has
      BY <3>2, <3>3, <3>4
    <3> QED
      BY <3>5 DEF has
  <2>3. \E l \in {l \in 1 .. n : ~(Range(Parents[t[l]]) \subseteq {t[m] : m \in 1 .. n})} :
           \E h \in DOMAIN Parents[t[l]] :
             /\ \A m \in {m \in 1 .. n :
                       ~(Range(Parents[t[m]]) \subseteq {t[o] : o \in 1 .. n})} : m <= l
             /\ t[n + 1] = Parents[t[l]][h] /\ t[n + 1] \notin {t[m] : m \in 1 .. n}
             /\ \A m \in 1 .. h - 1 : Parents[t[l]][m] \in {t[o] : o \in 1 .. n}
    <3>1. seen = {t[m] : m \in 1 .. n}
      BY <1>8
    <3>2. t[j] = s[j] /\ k \in DOMAIN Parents[s[j]] /\ t[n + 1] = Parents[s[j]][k]
      BY <1>3, <1>5, <1>8, <1>9 DEF next, same
    <3>3. \A m \in 1 .. n : Parents[t[m]] = Parents[s[m]]
      BY <1>8
    <3>4. t[n + 1] \notin seen
      BY <1>6, <1>9
    <3> DEFINE has == {t[m] : m \in 1 .. n}
    <3> HIDE DEF seen, has
    <3>5. seen = has
      BY <3>1 DEF has
    <3>6. /\ j \in {l \in 1 .. n : ~(Range(Parents[t[l]]) \subseteq has)}
          /\ \A m \in {m \in 1 .. n : ~(Range(Parents[t[m]]) \subseteq has)} : m <= j
      BY <1>2, <3>3, <3>5
    <3>7. \A m \in 1 .. k - 1 : Parents[t[j]][m] \in has
      BY <1>10, <3>2, <3>5
    <3> QED
      BY <3>2, <3>4, <3>5, <3>6, <3>7 DEF has
  <2>4. \A i \in 2 .. Len(t) : i \in 2 .. n \/ (i = n + 1 /\ i - 1 = n)
    BY <1>7
  <2> QED
    BY <2>1, <2>2, <2>3, <2>4, Zenon DEF IsPreorder
<1> QED
  BY <1>7, <1>11

LEMMA HistoryFacts ==
    ASSUME NEW c \in Commits
    PROVE  /\ History[c] \in Seq(Commits)
           /\ Len(History[c]) = Cardinality(Ancestors[c])
           /\ Cardinality(Ancestors[c]) \in Nat
           /\ IsInjective(History[c])
           /\ Range(History[c]) \subseteq Ancestors[c]
<1> DEFINE A == Ancestors[c]
           N == Cardinality(A)
           Lengths == {n \in 1 .. N : \E s \in [1 .. n -> A] : IsPreorder(s, c)}
<1>1. N \in Nat /\ N # 0 /\ A \subseteq Commits
  BY AncestorFacts, FS_CardinalityType, FS_EmptySet
<1>2. 1 \in Lengths
  <2>1. [i \in 1 .. 1 |-> c] \in [1 .. 1 -> A]
    BY AncestorFacts
  <2>2. IsPreorder([i \in 1 .. 1 |-> c], c)
    BY DEF IsPreorder
  <2> QED
    BY <1>1, <2>1, <2>2
<1>3. PICK n \in Lengths : \A m \in Lengths : m <= n
  <2>1. Lengths \subseteq Nat /\ Lengths # {} /\ \A m \in Lengths : m <= N
    <3>1. Lengths \subseteq 1 .. N
      OBVIOUS
    <3> HIDE DEF Lengths, N
    <3> QED
      BY <1>1, <1>2, <3>1
  <2> HIDE DEF Lengths, N
  <2> QED
    BY <1>1, <2>1, LargestNumber
<1>4. n = N
  <2> SUFFICES ASSUME n < N PROVE FALSE
    BY <1>1
  <2>1. PICK s \in [1 .. n -> A] : IsPreorder(s, c)
    OBVIOUS
  <2>2. n \in Nat \ {0} /\ n < Cardinality(Ancestors[c])
    BY <1>1
  <2>3. \E t \in [1 .. n + 1 -> A] : IsPreorder(t, c)
    BY <2>1, <2>2, WalkGoesOn
  <2>4. n + 1 \in Lengths
    BY <1>1, <2>2, <2>3
  <2> QED
    BY <1>3, <2>2, <2>4
<1>5. \E s \in [1 .. N -> A] : IsPreorder(s, c)
  BY <1>4
<1> HIDE DEF N
<1>6. History[c] = CHOOSE s \in [1 .. N -> A] : IsPreorder(s, c)
  BY DEF History, N
<1>7. History[c] \in [1 .. N -> A] /\ IsPreorder(History[c], c)
  BY <1>5, <1>6
<1>8. IsInjective(History[c])
  BY <1>1, <1>7, WalkInjective
<1>9. History[c] \in Seq(Commits) /\ Len(History[c]) = N
  BY <1>1, <1>7
<1>10. Range(History[c]) \subseteq A
  BY <1>7 DEF Range
<1> QED
  BY <1>1, <1>8, <1>9, <1>10 DEF N

-----------------------------------------------------------------------------
(* Pages.                                                                   *)

LEMMA WrapFacts ==
    ASSUME NEW n \in Int
    PROVE  /\ Wrap(n) \in Int
           /\ 0 <= n /\ n <= MaxInt => Wrap(n) = n
<1> DEFINE m == 2 * (MaxInt + 1)
           k == n + MaxInt + 1
<1>1. m \in Nat /\ m > 0 /\ k \in Int /\ MaxInt \in Nat
  BY PageAssumption
<1>2. Wrap(n) = (k % m) - MaxInt - 1
  BY DEF Wrap
<1>3. 0 <= n /\ n <= MaxInt => 0 <= k /\ k < m
  BY <1>1
<1> HIDE DEF m, k
<1>4. k % m \in Int /\ (0 <= k /\ k < m => k % m = k)
  BY <1>1
<1> QED
  BY <1>1, <1>2, <1>3, <1>4 DEF k

\* A slice of a sequence of commits.
LEMMA SliceFacts ==
    ASSUME NEW h \in Seq(Commits), NEW m \in Nat, NEW n \in Nat, m <= n, n <= Len(h)
    PROVE  /\ SubSeq(h, m + 1, n) \in Seq(Commits)
           /\ Len(SubSeq(h, m + 1, n)) = n - m
           /\ \A i \in 1 .. n - m : SubSeq(h, m + 1, n)[i] = h[m + i]
<1>1. \A i \in m + 1 .. n : h[i] \in Commits
  OBVIOUS
<1> QED
  BY <1>1, SubSeqProperties

LEMMA PaginateType ==
    ASSUME NEW h \in Seq(Commits), NEW page \in Int, NEW size \in Int
    PROVE  Paginate(h, page, size) \in Seq(Commits) \cup {None}
<1> DEFINE start == Wrap((page - 1) * size)
           end == Wrap(start + size)
           last == IF end > Len(h) THEN Len(h) ELSE end
<1>1. (page - 1) * size \in Int
  OBVIOUS
<1>2. start \in Int
  BY <1>1, WrapFacts
<1>3. end \in Int
  BY <1>2, WrapFacts
<1>4. Paginate(h, page, size) = IF start >= Len(h) THEN <<>>
                                ELSE IF start < 0 \/ end < start THEN None
                                ELSE SubSeq(h, start + 1, last)
  BY DEF Paginate
<1> HIDE DEF start, end
<1>5. CASE start < Len(h) /\ 0 <= start /\ start <= end
  <2>1. start \in Nat /\ last \in Nat /\ start <= last /\ last <= Len(h)
    BY <1>2, <1>3, <1>5
  <2> HIDE DEF last
  <2>2. SubSeq(h, start + 1, last) \in Seq(Commits)
    BY <2>1, SliceFacts
  <2> QED
    BY <1>2, <1>3, <1>4, <1>5, <2>2
<1> QED
  BY <1>2, <1>3, <1>4, <1>5

\* A page that fits an int is a part of the history, of the length that is left.
LEMMA PaginateFacts ==
    ASSUME NEW h \in Seq(Commits), NEW page \in Nat \ {0}, NEW size \in Nat,
           page * size <= MaxInt
    PROVE  LET start == (page - 1) * size
               left == Len(h) - start
               p == Paginate(h, page, size)
           IN  /\ start \in Nat
               /\ p \in Seq(Commits)
               /\ Len(p) = IF left <= 0 THEN 0 ELSE IF left > size THEN size ELSE left
               /\ \A i \in 1 .. Len(p) : start + i \in 1 .. Len(h) /\ p[i] = h[start + i]
<1> DEFINE start == (page - 1) * size
           end == start + size
           last == IF end > Len(h) THEN Len(h) ELSE end
           p == Paginate(h, page, size)
<1>1. start \in Nat /\ end = page * size
  BY SMT
<1>2. MaxInt \in Nat /\ start <= MaxInt /\ end <= MaxInt /\ end \in Nat
  BY <1>1, PageAssumption
<1>3. Wrap(start) = start /\ Wrap(start + size) = end
  BY <1>1, <1>2, WrapFacts
<1>4. p = IF start >= Len(h) THEN <<>>
          ELSE IF start < 0 \/ end < start THEN None
          ELSE SubSeq(h, start + 1, last)
  BY <1>3 DEF Paginate
<1> HIDE DEF p, start
<1>5. Len(h) \in Nat /\ start <= end
  BY <1>1, <1>2
<1>6. CASE start >= Len(h)
  BY <1>1, <1>4, <1>5, <1>6 DEF p, start
<1>7. CASE start < Len(h)
  <2>1. p = SubSeq(h, start + 1, last)
    BY <1>1, <1>4, <1>5, <1>7
  <2>2. last \in Nat /\ start <= last /\ last <= Len(h) /\ last <= end
    BY <1>1, <1>2, <1>5, <1>7
  <2>3. last - start = IF Len(h) - start > size THEN size ELSE Len(h) - start
    BY <1>1, <1>5, <1>7
  <2> HIDE DEF last
  <2>4. /\ p \in Seq(Commits) /\ Len(p) = last - start
        /\ \A i \in 1 .. last - start : p[i] = h[start + i]
    BY <1>1, <2>1, <2>2, SliceFacts
  <2>5. ~(Len(h) - start <= 0)
    BY <1>1, <1>5, <1>7
  <2>6. \A i \in 1 .. last - start : start + i \in 1 .. Len(h)
    BY <1>1, <1>5, <2>2
  <2> QED
    BY <1>1, <2>3, <2>4, <2>5, <2>6 DEF p, start
<1> QED
  BY <1>1, <1>5, <1>6, <1>7

-----------------------------------------------------------------------------
(* The inductive invariant: what a listing says is true of every entry that *)
(* the cache keeps, too; and a page of a log is what Log answers.           *)

\* What an item, or an entry of the cache, says of path p of commit c.
Truth(info, c, p) ==
    /\ ~info.stray =>
          IF info.last = None THEN ~(Below[p] \subseteq Selects[p])
          ELSE /\ info.last \in Ancestors[c]
               /\ Content(info.last, Selects[p]) = Content(c, Selects[p])
    /\ info.last # None => Diff(info.last) \cap Selects[p] # {}

ShownOK(op, c, shown) ==
    /\ op \in {"list", "log", "refs", "commit", "blob", "failed"}
    /\ op = "list" => /\ shown \in SUBSET Item
                      /\ \A i \in shown : Truth(i, c, i.path)
    /\ op = "log" => \E asked \in Pages, size \in PageSizes : shown = Log(c, asked, size)
    /\ op = "refs" => shown \in SUBSET (Refs \X Commits)
    /\ op = "commit" => shown \in SUBSET Files

Truthful(v) ==
    \/ pc[v] = "new" /\ view[v] = None
    \/ /\ pc[v] # "new"
       /\ view[v] = [op |-> view[v].op, repo |-> view[v].repo, commit |-> view[v].commit,
                     left |-> view[v].left, shown |-> view[v].shown]
       /\ view[v].commit \in Commits \cup {None}
       /\ view[v].left \subseteq Paths
       /\ IF pc[v] \in {"lookup", "git"}
          THEN /\ view[v].op = "list" /\ view[v].left # {} /\ view[v].repo \in Repos
               /\ view[v].commit \in objects[view[v].repo]
               /\ \A p \in view[v].left : Present(view[v].commit, Below[p])
          ELSE view[v].left = {} /\ view[v].repo = None
       /\ ShownOK(view[v].op, view[v].commit, view[v].shown)

Tables ==
    /\ refs \in [Repos -> [Refs -> Commits \cup {None}]]
    /\ objects \in [Repos -> SUBSET Commits]
    /\ \A r \in Repos, b \in Refs : refs[r][b] \in objects[r] \cup {None}
    /\ pushes \in 0 .. MaxPushes

CacheTrue ==
    /\ DOMAIN cache \subseteq Commits \X Paths
    /\ \A k \in DOMAIN cache : cache[k] \in Info /\ Truth(cache[k], k[1], k[2])

GInv ==
    /\ Tables
    /\ CacheTrue
    /\ pc \in [Views -> {"new", "lookup", "git", "answered"}]
    /\ view = [v \in Views |-> view[v]]
    /\ \A v \in Views : Truthful(v)

LEMMA LogType ==
    ASSUME NEW c \in Commits \cup {None}, NEW asked \in Pages, NEW size \in PageSizes
    PROVE  /\ Log(c, asked, size).commits \in Seq(Commits)
           /\ Log(c, asked, size).page \in Nat \ {0}
           /\ Log(c, asked, size).size \in Nat
<1> DEFINE page == IF asked = 0 THEN 1 ELSE asked
           commits == IF c = None THEN <<>> ELSE Paginate(History[c], page, size)
<1>1. Log(c, asked, size) =
        [page |-> page, size |-> size, answered |-> commits # None,
         commits |-> IF commits = None THEN <<>> ELSE commits]
  BY DEF Log
<1>2. page \in Nat \ {0} /\ size \in Nat
  BY PageAssumption
<1> HIDE DEF page
<1>3. commits \in Seq(Commits) \cup {None}
  <2>1. CASE c = None
    BY <2>1
  <2>2. CASE c # None
    BY <1>2, <2>2, HistoryFacts, PaginateType
  <2> QED
    BY <2>1, <2>2
<1> HIDE DEF commits
<1> QED
  BY <1>1, <1>2, <1>3

LEMMA GInvTypes == GInv => TypeOK
<1> SUFFICES ASSUME GInv PROVE TypeOK
  OBVIOUS
<1>1. ASSUME NEW v \in Views PROVE ViewOK(v)
  <2>1. Truthful(v)
    BY DEF GInv
  <2>2. CASE pc[v] = "new" /\ view[v] = None
    BY <2>2 DEF ViewOK
  <2>3. CASE pc[v] # "new"
    <3>1. ShownOK(view[v].op, view[v].commit, view[v].shown)
      BY <2>1, <2>3 DEF Truthful
    <3>2. view[v].op = "log" => view[v].shown.commits \in Seq(Commits)
      <4> SUFFICES ASSUME view[v].op = "log"
                   PROVE  view[v].shown.commits \in Seq(Commits)
        OBVIOUS
      <4>1. PICK asked \in Pages, size \in PageSizes :
                view[v].shown = Log(view[v].commit, asked, size)
        BY <3>1 DEF ShownOK
      <4>2. view[v].commit \in Commits \cup {None}
        BY <2>1, <2>3 DEF Truthful
      <4> QED
        BY <4>1, <4>2, LogType
    <3>3. (CASE view[v].op = "list" -> view[v].shown \in SUBSET Item
            [] view[v].op = "log" -> view[v].shown.commits \in Seq(Commits)
            [] view[v].op = "refs" -> view[v].shown \in SUBSET (Refs \X Commits)
            [] view[v].op = "commit" -> view[v].shown \in SUBSET Files
            [] OTHER -> view[v].op \in {"blob", "failed"})
      BY <3>1, <3>2 DEF ShownOK
    <3> QED
      BY <2>1, <2>3, <3>3 DEF Truthful, ViewOK
  <2> QED
    BY <2>1, <2>2, <2>3 DEF Truthful
<1> QED
  BY <1>1 DEF GInv, Tables, CacheTrue, TypeOK

LEMMA GInvInit == Init => GInv
<1> SUFFICES ASSUME Init PROVE GInv
  OBVIOUS
<1>1. DOMAIN cache = {}
  BY DEF Init
<1>2. pushes \in 0 .. MaxPushes
  BY PushAssumption DEF Init
<1> QED
  BY <1>1, <1>2 DEF Init, GInv, Tables, CacheTrue, Truthful

-----------------------------------------------------------------------------
(* The steps.                                                               *)

\* What is true of a request stays so while nothing of it changes and its
\* repository loses nothing.
LEMMA ServedKept ==
    ASSUME NEW v \in Views, Truthful(v), view'[v] = view[v], pc'[v] = pc[v],
           \A r \in Repos : objects[r] \subseteq objects'[r]
    PROVE  Truthful(v)'
BY DEF Truthful

LEMMA PushInv ==
    ASSUME GInv, NEW r \in Repos, NEW b \in Refs, NEW c \in Commits \cup {None}, Push(r, b, c)
    PROVE  GInv'
<1>0. /\ pushes < MaxPushes
      /\ refs' = [refs EXCEPT ![r][b] = c]
      /\ objects' = [objects EXCEPT ![r] = @ \cup (IF c = None THEN {} ELSE Ancestors[c])]
      /\ pushes' = pushes + 1
      /\ UNCHANGED <<cache, pc, view>>
  BY DEF Push
<1>1. objects' \in [Repos -> SUBSET Commits]
  BY <1>0, AncestorFacts DEF GInv, Tables
<1>2. \A o \in Repos : objects[o] \subseteq objects'[o]
  BY <1>0 DEF GInv, Tables
<1>3. refs' \in [Repos -> [Refs -> Commits \cup {None}]]
  BY <1>0 DEF GInv, Tables
<1>4. ASSUME NEW o \in Repos, NEW n \in Refs PROVE refs'[o][n] \in objects'[o] \cup {None}
  <2>1. CASE o = r /\ n = b
    <3>1. refs'[o][n] = c
      BY <1>0, <2>1 DEF GInv, Tables
    <3>2. c # None => c \in objects'[o]
      BY <1>0, <2>1, AncestorFacts DEF GInv, Tables
    <3> QED
      BY <3>1, <3>2
  <2>2. CASE ~(o = r /\ n = b)
    <3>1. refs'[o][n] = refs[o][n]
      BY <1>0, <2>2 DEF GInv, Tables
    <3> QED
      BY <1>2, <3>1 DEF GInv, Tables
  <2> QED
    BY <2>1, <2>2
<1>5. pushes' \in 0 .. MaxPushes
  <2>1. pushes \in 0 .. MaxPushes
    BY DEF GInv, Tables
  <2> QED
    BY <1>0, <2>1, PushAssumption
<1>6. Tables'
  BY <1>1, <1>3, <1>4, <1>5 DEF Tables
<1>7. CacheTrue'
  BY <1>0 DEF GInv, CacheTrue
<1>8. ASSUME NEW v \in Views PROVE Truthful(v)'
  BY <1>0, <1>2, ServedKept DEF GInv
<1> QED
  BY <1>0, <1>6, <1>7, <1>8 DEF GInv

\* A step of one request that leaves git alone.
LEMMA ViewStep ==
    ASSUME GInv, NEW v \in Views, NEW s \in {"lookup", "git", "answered"},
           UNCHANGED git, CacheTrue', pc' = [pc EXCEPT ![v] = s],
           view' = [o \in Views |-> view'[o]],
           \A o \in Views \ {v} : view'[o] = view[o],
           Truthful(v)'
    PROVE  GInv'
<1>1. Tables' /\ \A r \in Repos : objects[r] \subseteq objects'[r]
  BY DEF GInv, Tables, git
<1>2. pc' \in [Views -> {"new", "lookup", "git", "answered"}]
      /\ \A o \in Views \ {v} : pc'[o] = pc[o]
  BY DEF GInv
<1>3. \A o \in Views \ {v} : Truthful(o)'
  BY <1>1, <1>2, ServedKept DEF GInv
<1> QED
  BY <1>1, <1>2, <1>3 DEF GInv

LEMMA CacheKept == ASSUME CacheTrue, UNCHANGED cache PROVE CacheTrue'
BY DEF CacheTrue

LEMMA AnswerInv ==
    ASSUME GInv, NEW v \in Views, NEW op, NEW c \in Commits \cup {None}, NEW shown,
           Answer(v, op, c, shown), ShownOK(op, c, shown)
    PROVE  GInv'
<1>1. /\ view' = [view EXCEPT ![v] = [op |-> op, repo |-> None, commit |-> c, left |-> {},
                                      shown |-> shown]]
      /\ pc' = [pc EXCEPT ![v] = "answered"]
      /\ UNCHANGED <<git, cache>>
  BY DEF Answer
<1>2. /\ view' = [o \in Views |-> view'[o]]
      /\ \A o \in Views \ {v} : view'[o] = view[o]
      /\ view'[v] = [op |-> op, repo |-> None, commit |-> c, left |-> {}, shown |-> shown]
      /\ pc'[v] = "answered"
  BY <1>1 DEF GInv
<1>3. Truthful(v)'
  BY <1>2 DEF Truthful
<1> QED
  BY <1>1, <1>2, <1>3, CacheKept, ViewStep DEF GInv

LEMMA OpenFacts ==
    ASSUME Tables, NEW r \in Repos, NEW ref \in Wanted
    PROVE  /\ Open(r, ref) \in objects[r] \cup {None}
           /\ Open(r, ref) \in Commits \cup {None}
BY RefAssumption DEF Tables, Open, Wanted, Refs

LEMMA ListingInv ==
    ASSUME GInv, NEW v \in Views, NEW r \in Repos, NEW c \in objects[r] \cup {None},
           c \in Commits \cup {None}, NEW dir, Listing(v, r, c, dir)
    PROVE  GInv'
<1>1. ShownOK("list", c, {})
  BY DEF ShownOK
<1>2. CASE Answer(v, "list", c, {})
  BY <1>1, <1>2, AnswerInv
<1>3. CASE c # None /\ FileTree(c, dir) # {}
  <2>1. /\ view' = [view EXCEPT ![v] = [op |-> "list", repo |-> r, commit |-> c,
                                        left |-> FileTree(c, dir), shown |-> {}]]
        /\ pc' = [pc EXCEPT ![v] = "lookup"]
        /\ UNCHANGED <<git, cache>>
    BY <1>3 DEF Listing
  <2>2. /\ view' = [o \in Views |-> view'[o]]
        /\ \A o \in Views \ {v} : view'[o] = view[o]
        /\ view'[v] = [op |-> "list", repo |-> r, commit |-> c, left |-> FileTree(c, dir),
                       shown |-> {}]
        /\ pc'[v] = "lookup" /\ objects' = objects
    BY <2>1 DEF GInv, git
  <2>3. /\ FileTree(c, dir) \subseteq Paths
        /\ \A p \in FileTree(c, dir) : Present(c, Below[p])
    BY DirAssumption DEF FileTree, Paths
  <2>4. Truthful(v)'
    BY <1>1, <1>3, <2>2, <2>3 DEF Truthful
  <2> QED
    BY <2>1, <2>2, <2>4, CacheKept, ViewStep DEF GInv
<1> QED
  BY <1>2, <1>3 DEF Listing

LEMMA ArrivalInv ==
    ASSUME GInv, NEW v \in Views, NEW r \in Repos, Arrival(v, r)
    PROVE  GInv'
<1>0. Tables
  BY DEF GInv
<1>1. None \in Wanted
  BY DEF Wanted
<1>2. \A names \in SUBSET Refs : Pointing(r, names) \in SUBSET (Refs \X Commits)
  BY <1>0 DEF Tables, Pointing
<1>3. CASE Unreachable(v)
  <2>1. ShownOK("failed", None, {})
    BY DEF ShownOK
  <2> QED
    BY <1>3, <2>1, AnswerInv DEF Unreachable
<1>4. CASE RepoTags(v, r)
  <2>1. ShownOK("refs", Open(r, None), ListTags(r))
    BY <1>2 DEF ShownOK, ListTags, Refs
  <2> QED
    BY <1>0, <1>1, <1>4, <2>1, OpenFacts, AnswerInv DEF RepoTags
<1>5. CASE RepoBranches(v, r)
  <2>1. ShownOK("refs", Open(r, None), ListBranches(r))
    BY <1>2 DEF ShownOK, ListBranches, Refs
  <2> QED
    BY <1>0, <1>1, <1>5, <2>1, OpenFacts, AnswerInv DEF RepoBranches
<1>6. ASSUME NEW ref \in Wanted,
             RepoIndex(v, r, ref) \/ \E dir \in Paths : RepoTree(v, r, ref, dir)
      PROVE  GInv'
  BY <1>0, <1>6, OpenFacts, ListingInv DEF RepoIndex, Index, RepoTree
<1>7. ASSUME NEW ref \in Wanted, NEW f \in Files, RepoBlob(v, r, ref, f)
      PROVE  GInv'
  <2>1. ShownOK("blob", Open(r, ref), Blob(Open(r, ref), f))
    BY DEF ShownOK
  <2> QED
    BY <1>0, <1>7, <2>1, OpenFacts, AnswerInv DEF RepoBlob
<1>8. ASSUME NEW ref \in Wanted, RepoCommit(v, r, ref)
      PROVE  GInv'
  <2>1. ShownOK("commit", Open(r, ref), Commit(Open(r, ref)))
    BY DEF ShownOK, Commit, Diff
  <2> QED
    BY <1>0, <1>8, <2>1, OpenFacts, AnswerInv DEF RepoCommit
<1>9. ASSUME NEW ref \in Wanted, NEW page \in Pages, NEW size \in PageSizes,
             RepoLog(v, r, ref, page, size)
      PROVE  GInv'
  <2>1. ShownOK("log", Open(r, ref), Log(Open(r, ref), page, size))
    BY DEF ShownOK
  <2> QED
    BY <1>0, <1>9, <2>1, OpenFacts, AnswerInv DEF RepoLog
<1> QED
  BY <1>3, <1>4, <1>5, <1>6, <1>7, <1>8, <1>9 DEF Arrival

\* What a listing in progress holds.
LEMMA ListingFacts ==
    ASSUME GInv, NEW v \in Views, pc[v] \in {"lookup", "git"}
    PROVE  /\ view[v] = [op |-> "list", repo |-> view[v].repo, commit |-> view[v].commit,
                         left |-> view[v].left, shown |-> view[v].shown]
           /\ view[v].repo \in Repos
           /\ view[v].commit \in Commits /\ view[v].commit \in objects[view[v].repo]
           /\ view[v].left \subseteq Paths /\ NextEntry(v) \in view[v].left
           /\ \A p \in view[v].left : Present(view[v].commit, Below[p])
           /\ view[v].shown \in SUBSET Item
           /\ \A i \in view[v].shown : Truth(i, view[v].commit, i.path)
BY DEF GInv, Truthful, ShownOK, NextEntry, Tables

LEMMA FoundInv ==
    ASSUME GInv, NEW v \in Views, pc[v] \in {"lookup", "git"}, NEW info \in Info,
           Truth(info, view[v].commit, NextEntry(v)), Found(v, info), UNCHANGED git, CacheTrue'
    PROVE  GInv'
<1> DEFINE p == NextEntry(v)
           rest == view[v].left \ {p}
           item == [path |-> p, last |-> info.last, stray |-> info.stray]
           repo == IF rest = {} THEN None ELSE view[v].repo
           s == IF rest = {} THEN "answered" ELSE "lookup"
<1>1. /\ view' = [view EXCEPT ![v].left = rest,
                              ![v].repo = IF rest = {} THEN None ELSE @,
                              ![v].shown = @ \cup {item}]
      /\ pc' = [pc EXCEPT ![v] = s]
  BY DEF Found
<1>2. /\ view' = [o \in Views |-> view'[o]]
      /\ \A o \in Views \ {v} : view'[o] = view[o]
      /\ view'[v] = [op |-> "list", repo |-> repo, commit |-> view[v].commit, left |-> rest,
                     shown |-> view[v].shown \cup {item}]
      /\ pc'[v] = s
  <2>1. view = [o \in Views |-> view[o]] /\ pc = [o \in Views |-> pc[o]]
    BY DEF GInv
  <2>2. view[v] = [op |-> "list", repo |-> view[v].repo, commit |-> view[v].commit,
                   left |-> view[v].left, shown |-> view[v].shown]
    BY ListingFacts
  <2> HIDE DEF rest, item
  <2>3. /\ view' = [o \in Views |-> view'[o]]
        /\ \A o \in Views \ {v} : view'[o] = view[o]
        /\ view'[v] = [view[v] EXCEPT !.left = rest,
                                     !.repo = IF rest = {} THEN None ELSE @,
                                     !.shown = @ \cup {item}]
    BY <1>1, <2>1
  <2>4. view'[v] = [op |-> "list", repo |-> repo, commit |-> view[v].commit, left |-> rest,
                    shown |-> view[v].shown \cup {item}]
    <3> DEFINE w1 == [view[v] EXCEPT !.left = rest]
               w2 == [w1 EXCEPT !.repo = repo]
               more == view[v].shown \cup {item}
               w3 == [w2 EXCEPT !.shown = more]
    <3>1. w1 = [op |-> "list", repo |-> view[v].repo, commit |-> view[v].commit, left |-> rest,
                shown |-> view[v].shown]
      BY <2>2
    <3> HIDE DEF w1
    <3>2. w2 = [op |-> "list", repo |-> repo, commit |-> view[v].commit, left |-> rest,
                shown |-> view[v].shown]
      BY <3>1
    <3> HIDE DEF w2, more
    <3>3. w3 = [op |-> "list", repo |-> repo, commit |-> view[v].commit, left |-> rest,
                shown |-> more]
      BY <3>2
    <3>4. w1.repo = view[v].repo /\ w2.shown = view[v].shown
      BY <3>1, <3>2
    <3>5. view'[v] = w3
      BY <2>3, <3>4, Zenon DEF w1, w2, more
    <3> QED
      BY <3>3, <3>5 DEF more
  <2>5. pc'[v] = s
    BY <1>1, <2>1
  <2> QED
    BY <2>3, <2>4, <2>5
<1>3. item \in Item /\ p \in Paths
  BY ListingFacts DEF Info, Item
<1>4. Truth(item, view[v].commit, item.path)
  BY DEF Truth
<1> HIDE DEF item
<1>5. ShownOK("list", view[v].commit, view[v].shown \cup {item})
  BY <1>3, <1>4, ListingFacts DEF ShownOK
<1>6. Truthful(v)'
  <2>1. objects' = objects
    BY DEF git
  <2>2. rest \subseteq Paths /\ \A q \in rest : Present(view[v].commit, Below[q])
    BY ListingFacts
  <2>3. /\ view[v].commit \in Commits /\ view[v].repo \in Repos
        /\ view[v].commit \in objects[view[v].repo]
    BY ListingFacts
  <2> HIDE DEF rest
  <2>6. /\ view'[v].op = "list" /\ view'[v].repo = repo /\ view'[v].left = rest
        /\ view'[v].commit = view[v].commit /\ view'[v].shown = view[v].shown \cup {item}
    BY <1>2
  <2>7. view'[v] = [op |-> view'[v].op, repo |-> view'[v].repo, commit |-> view'[v].commit,
                    left |-> view'[v].left, shown |-> view'[v].shown]
    BY <1>2, <2>6
  <2>8. ShownOK(view'[v].op, view'[v].commit, view'[v].shown)
    BY <1>5, <2>6
  <2>4. CASE rest = {}
    <3>1. pc'[v] = "answered" /\ view'[v].repo = None
      BY <1>2, <2>4, <2>6
    <3> QED
      BY <2>2, <2>3, <2>4, <2>6, <2>7, <2>8, <3>1 DEF Truthful, ShownOK
  <2>5. CASE rest # {}
    <3>1. pc'[v] = "lookup" /\ view'[v].repo = view[v].repo
      BY <1>2, <2>5, <2>6
    <3> QED
      BY <2>1, <2>2, <2>3, <2>5, <2>6, <2>7, <2>8, <3>1 DEF Truthful, ShownOK
  <2> QED
    BY <2>4, <2>5
<1>7. s \in {"lookup", "git", "answered"}
  OBVIOUS
<1> QED
  BY <1>1, <1>2, <1>6, <1>7, ViewStep

LEMMA LookupInv == ASSUME GInv, NEW v \in Views, Lookup(v) PROVE GInv'
<1> DEFINE key == CacheKey(view[v].commit, NextEntry(v))
<1>1. pc[v] = "lookup" /\ UNCHANGED <<git, cache>> /\ key = <<view[v].commit, NextEntry(v)>>
  BY DEF Lookup, CacheKey
<1>2. CASE key \in DOMAIN cache
  <2>1. Found(v, cache[key])
    BY <1>2 DEF Lookup
  <2>2. cache[key] \in Info /\ Truth(cache[key], view[v].commit, NextEntry(v))
    BY <1>1, <1>2 DEF GInv, CacheTrue
  <2> QED
    BY <1>1, <2>1, <2>2, CacheKept, FoundInv DEF GInv
<1>3. CASE key \notin DOMAIN cache
  <2>1. pc' = [pc EXCEPT ![v] = "git"] /\ UNCHANGED view
    BY <1>3 DEF Lookup
  <2>2. pc'[v] = "git" /\ view'[v] = view[v] /\ objects' = objects
    BY <1>1, <2>1 DEF GInv, git
  <2>3. Truthful(v)'
    BY <1>1, <2>2 DEF GInv, Truthful
  <2> QED
    BY <1>1, <2>1, <2>3, CacheKept, ViewStep DEF GInv
<1> QED
  BY <1>2, <1>3

\* What git answers is true of the commit it was asked for, stray or not.
LEMMA GitLogInv == ASSUME GInv, NEW v \in Views, GitLog(v) PROVE GInv'
<1> DEFINE r == view[v].repo
           c == view[v].commit
           p == NextEntry(v)
           head == refs[r][Default]
           info == [last |-> IF head = None THEN None ELSE LastTouch[head][p],
                    stray |-> head # c]
           key == CacheKey(c, p)
<1>1. /\ pc[v] = "git"
      /\ Found(v, info)
      /\ \/ cache' = [k \in DOMAIN cache \cup {key} |-> IF k = key THEN info ELSE cache[k]]
         \/ UNCHANGED cache
      /\ UNCHANGED git
  BY DEF GitLog
<1>2. /\ r \in Repos /\ c \in Commits /\ p \in Paths
      /\ Present(c, Below[p])
  BY <1>1, ListingFacts
<1>3. head \in Commits \cup {None} /\ None \notin Commits
  BY <1>2, RefAssumption, CommitAssumption DEF GInv, Tables, Refs
<1>4. info \in Info
  <2>1. info.last \in Commits \cup {None}
    BY <1>2, <1>3, LastTouchType
  <2> QED
    BY <2>1 DEF Info
<1>5. Truth(info, c, p)
  <2>1. CASE head = None
    BY <1>2, <1>3, <2>1 DEF Truth
  <2>2. CASE head # None
    <3>1. head \in Commits /\ info.last = LastTouch[head][p] /\ (~info.stray => head = c)
      BY <1>3, <2>2
    <3> HIDE DEF info, head
    <3>2. info.last = None /\ ~info.stray => ~(Below[p] \subseteq Selects[p])
      BY <1>2, <3>1, LastTouchFound
    <3>3. info.last # None =>
             /\ info.last \in Ancestors[head]
             /\ Content(info.last, Selects[p]) = Content(head, Selects[p])
             /\ Diff(info.last) \cap Selects[p] # {}
      BY <1>2, <3>1, LastTouchFacts
    <3> QED
      BY <3>1, <3>2, <3>3 DEF Truth
  <2> QED
    BY <2>1, <2>2
<1>6. key = <<c, p>>
  BY DEF CacheKey
<1> HIDE DEF info, key
<1>7. CacheTrue'
  <2>1. CASE cache' = [k \in DOMAIN cache \cup {key} |-> IF k = key THEN info ELSE cache[k]]
    <3>1. DOMAIN cache' = DOMAIN cache \cup {key}
          /\ \A k \in DOMAIN cache' : cache'[k] = IF k = key THEN info ELSE cache[k]
      BY <2>1
    <3>2. key \in Commits \X Paths /\ key[1] = c /\ key[2] = p
      BY <1>2, <1>6
    <3> QED
      BY <1>4, <1>5, <3>1, <3>2 DEF GInv, CacheTrue
  <2>2. CASE UNCHANGED cache
    BY <2>2, CacheKept DEF GInv
  <2> QED
    BY <1>1, <2>1, <2>2
<1> QED
  BY <1>1, <1>4, <1>5, <1>7, FoundInv

LEMMA GitLogFailsInv == ASSUME GInv, NEW v \in Views, GitLogFails(v) PROVE GInv'
<1> DEFINE info == [last |-> None, stray |-> TRUE]
<1>1. pc[v] = "git" /\ Found(v, info) /\ UNCHANGED <<git, cache>>
  BY DEF GitLogFails
<1>2. info \in Info /\ Truth(info, view[v].commit, NextEntry(v))
  BY DEF Info, Truth
<1> QED
  BY <1>1, <1>2, CacheKept, FoundInv DEF GInv

LEMMA EvictInv == ASSUME GInv, NEW k \in DOMAIN cache, Evict(k) PROVE GInv'
<1>1. cache' = [j \in DOMAIN cache \ {k} |-> cache[j]] /\ UNCHANGED <<git, pc, view>>
  BY DEF Evict
<1>2. CacheTrue'
  BY <1>1 DEF GInv, CacheTrue
<1>3. ASSUME NEW v \in Views PROVE Truthful(v)'
  BY <1>1, ServedKept DEF GInv, git
<1> QED
  BY <1>1, <1>2, <1>3 DEF GInv, Tables, git

LEMMA GInvStutters == ASSUME GInv, UNCHANGED vars PROVE GInv'
<1>1. ASSUME NEW v \in Views PROVE Truthful(v)'
  BY ServedKept DEF GInv, vars, git
<1> QED
  BY <1>1 DEF GInv, Tables, CacheTrue, vars, git

LEMMA GInvNext == GInv /\ [Next]_vars => GInv'
BY PushInv, ArrivalInv, LookupInv, GitLogInv, GitLogFailsInv, EvictInv, GInvStutters
   DEF Next, Served

LEMMA GInvAlways == Spec => []GInv
BY GInvInit, GInvNext, PTL DEF Spec

-----------------------------------------------------------------------------

\* The repositories, the cache and what the requests show have their types; a
\* listing has entries left exactly while it is not answered.
THEOREM TypeCorrect == Spec => []TypeOK
BY GInvTypes, GInvAlways, PTL

\* A listing that was not overtaken by a push names, for every entry, a commit of
\* the viewed history that left what the entry's path selects as it is there,
\* whatever the cache kept from which repository, and leaves no entry out whose
\* path selects it (ListingIsTrue).
THEOREM ListingsAreTrue == Spec => []ListingIsTrue
<1>1. GInv => ListingIsTrue
  BY DEF GInv, Truthful, ShownOK, Truth, ListingIsTrue, Listed
<1> QED
  BY <1>1, GInvAlways, PTL

\* Every commit whose date a listing shows for an entry changed something that
\* the entry's path selects, stray or not, and wherever it was found
\* (LastCommitExplains).
THEOREM LastCommitsExplain == Spec => []LastCommitExplains
<1>1. GInv => LastCommitExplains
  BY DEF GInv, Truthful, ShownOK, Truth, LastCommitExplains, Listed
<1> QED
  BY <1>1, GInvAlways, PTL

\* What a page of a log is when its place fits an int.
LEMMA LogFacts ==
    ASSUME NEW c \in Commits, NEW asked \in Pages, NEW size \in PageSizes,
           Log(c, asked, size).page * Log(c, asked, size).size <= MaxInt
    PROVE  LET log == Log(c, asked, size)
               h == History[c]
               start == (log.page - 1) * log.size
               left == Cardinality(Ancestors[c]) - start
           IN  /\ log.answered
               /\ start \in Nat
               /\ log.commits \in Seq(Commits)
               /\ Len(log.commits) = IF left <= 0 THEN 0
                                     ELSE IF left > log.size THEN log.size ELSE left
               /\ \A i \in 1 .. Len(log.commits) :
                     start + i \in 1 .. Len(h) /\ log.commits[i] = h[start + i]
<1> DEFINE log == Log(c, asked, size)
           p == Paginate(History[c], log.page, log.size)
<1>1. log.page \in Nat \ {0} /\ log.size \in Nat
  BY LogType
<1>2. c # None
  BY CommitAssumption
<1>3. /\ log.answered = (p # None)
      /\ log.commits = IF p = None THEN <<>> ELSE p
  BY <1>2 DEF Log
<1> HIDE DEF log, p
<1>4. History[c] \in Seq(Commits) /\ Len(History[c]) = Cardinality(Ancestors[c])
  BY HistoryFacts
<1>5. log.page * log.size <= MaxInt
  BY DEF log
<1>6. LET start == (log.page - 1) * log.size
          left == Len(History[c]) - start
      IN  /\ start \in Nat
          /\ p \in Seq(Commits)
          /\ Len(p) = IF left <= 0 THEN 0 ELSE IF left > log.size THEN log.size ELSE left
          /\ \A i \in 1 .. Len(p) :
                start + i \in 1 .. Len(History[c]) /\ p[i] = History[c][start + i]
  BY <1>1, <1>4, <1>5, PaginateFacts DEF p
<1>7. p # None
  BY <1>6, CommitAssumption
<1>8. log.answered /\ log.commits = p
  BY <1>3, <1>7
<1> QED
  BY <1>4, <1>6, <1>8 DEF log

\* Two pages of one size have no place in common.
LEMMA PagesApart ==
    ASSUME NEW m \in Nat \ {0}, NEW n \in Nat \ {0}, m < n, NEW size \in Nat,
           NEW i \in 1 .. size, NEW j \in Nat \ {0}
    PROVE  (m - 1) * size + i < (n - 1) * size + j
<1>1. m <= n - 1
  OBVIOUS
<1>2. (n - 1) * size = m * size + (n - 1 - m) * size
  BY SMT
<1>3. (n - 1 - m) * size >= 0
  BY <1>1, SMT
<1>4. (m - 1) * size + size = m * size
  BY SMT
<1>5. (m - 1) * size \in Int /\ (n - 1) * size \in Int /\ m * size \in Int
      /\ (n - 1 - m) * size \in Int
  BY SMT
<1> QED
  BY <1>2, <1>3, <1>4, <1>5

\* The pages of a log are together the history, and share nothing (LogIsWhole).
THEOREM LogsAreWhole == Spec => []LogIsWhole
<1> DEFINE Fits(v) == /\ view[v] # None /\ view[v].op = "log" /\ view[v].commit # None
                      /\ view[v].shown.page * view[v].shown.size <= MaxInt
           log(v) == view[v].shown
           start(v) == (log(v).page - 1) * log(v).size
           h(v) == History[view[v].commit]
           all(v) == Ancestors[view[v].commit]
           Facts(v) ==
               /\ view[v].commit \in Commits
               /\ log(v).page \in Nat \ {0} /\ log(v).size \in Nat
               /\ log(v).answered
               /\ start(v) \in Nat
               /\ log(v).commits \in Seq(Commits)
               /\ Len(log(v).commits) =
                     IF Cardinality(all(v)) - start(v) <= 0 THEN 0
                     ELSE IF Cardinality(all(v)) - start(v) > log(v).size THEN log(v).size
                     ELSE Cardinality(all(v)) - start(v)
               /\ \A i \in 1 .. Len(log(v).commits) :
                     /\ start(v) + i \in 1 .. Len(h(v))
                     /\ log(v).commits[i] = h(v)[start(v) + i]
<1>1. ASSUME GInv, NEW v \in Views, Fits(v) PROVE Facts(v)
  <2>1. /\ view[v].commit \in Commits
        /\ \E asked \in Pages, size \in PageSizes :
              view[v].shown = Log(view[v].commit, asked, size)
    BY <1>1 DEF GInv, Truthful, ShownOK
  <2>2. PICK asked \in Pages, size \in PageSizes :
              view[v].shown = Log(view[v].commit, asked, size)
    BY <2>1
  <2>3. log(v).page \in Nat \ {0} /\ log(v).size \in Nat
    BY <2>1, <2>2, LogType
  <2> DEFINE l == Log(view[v].commit, asked, size)
             first == (l.page - 1) * l.size
             left == Cardinality(all(v)) - first
  <2>4. l.page * l.size <= MaxInt
    BY <1>1, <2>2
  <2>5. /\ l.answered /\ first \in Nat /\ l.commits \in Seq(Commits)
        /\ Len(l.commits) = IF left <= 0 THEN 0 ELSE IF left > l.size THEN l.size ELSE left
        /\ \A i \in 1 .. Len(l.commits) :
              first + i \in 1 .. Len(h(v)) /\ l.commits[i] = h(v)[first + i]
    BY <2>1, <2>4, LogFacts
  <2>6. log(v) = l /\ start(v) = first
    BY <2>2
  <2> HIDE DEF l, first, log, start, h, all
  <2> QED
    BY <2>1, <2>3, <2>5, <2>6
<1>2. ASSUME NEW v \in Views, Facts(v)
      PROVE  /\ IsInjective(log(v).commits)
             /\ Range(log(v).commits) \subseteq all(v)
             /\ Len(log(v).commits) <= log(v).size
  <2>1. IsInjective(h(v)) /\ Range(h(v)) \subseteq all(v) /\ h(v) \in Seq(Commits)
        /\ Cardinality(all(v)) \in Nat
    BY <1>2, HistoryFacts
  <2> HIDE DEF log, start, h, all
  <2>2. DOMAIN log(v).commits = 1 .. Len(log(v).commits) /\ DOMAIN h(v) = 1 .. Len(h(v))
    BY <1>2, <2>1
  <2>3. IsInjective(log(v).commits)
    <3> SUFFICES ASSUME NEW i \in 1 .. Len(log(v).commits), NEW j \in 1 .. Len(log(v).commits),
                        log(v).commits[i] = log(v).commits[j]
                 PROVE  i = j
      BY <2>2, Zenon DEF IsInjective
    <3>1. h(v)[start(v) + i] = h(v)[start(v) + j]
          /\ start(v) + i \in DOMAIN h(v) /\ start(v) + j \in DOMAIN h(v)
      BY <1>2, <2>2
    <3>2. start(v) + i = start(v) + j
      BY <2>1, <3>1, Zenon DEF IsInjective
    <3>3. start(v) \in Nat
      BY <1>2
    <3> QED
      BY <3>2, <3>3
  <2>4. Range(log(v).commits) \subseteq all(v)
    BY <1>2, <2>1, <2>2 DEF Range
  <2>5. Len(log(v).commits) <= log(v).size
    BY <1>2, <2>1
  <2> QED
    BY <2>3, <2>4, <2>5
<1>3. ASSUME NEW v \in Views, NEW w \in Views, Facts(v), Facts(w),
             view[w].commit = view[v].commit, log(w).size = log(v).size,
             log(v).page < log(w).page
      PROVE  Range(log(w).commits) \cap Range(log(v).commits) = {}
  <2> SUFFICES ASSUME NEW i \in 1 .. Len(log(v).commits), NEW j \in 1 .. Len(log(w).commits)
               PROVE  log(v).commits[i] # log(w).commits[j]
    <3>1. /\ DOMAIN log(v).commits = 1 .. Len(log(v).commits)
          /\ DOMAIN log(w).commits = 1 .. Len(log(w).commits)
      BY <1>3
    <3> HIDE DEF log
    <3> QED
      BY <3>1 DEF Range
  <2>1. IsInjective(h(v)) /\ DOMAIN h(v) = 1 .. Len(h(v)) /\ h(w) = h(v)
    <3>1. view[v].commit \in Commits
      BY <1>3
    <3> QED
      <4>1. IsInjective(h(v)) /\ h(v) \in Seq(Commits)
        BY <3>1, HistoryFacts
      <4>2. h(w) = h(v)
        BY <1>3
      <4> HIDE DEF h
      <4> QED
        BY <4>1, <4>2
  <2>2. Len(log(v).commits) <= log(v).size /\ Len(log(v).commits) \in Nat
    <3>1. Len(log(v).commits) <= log(v).size
      BY <1>2, <1>3
    <3>2. log(v).commits \in Seq(Commits)
      BY <1>3
    <3> QED
      BY <3>1, <3>2
  <2>3. start(v) + i < start(w) + j
    <3>1. /\ log(v).page \in Nat \ {0} /\ log(w).page \in Nat \ {0} /\ log(v).size \in Nat
      BY <1>3
    <3>2. i \in 1 .. log(v).size /\ j \in Nat \ {0}
      BY <2>2, <3>1
    <3>3. (log(v).page - 1) * log(v).size + i < (log(w).page - 1) * log(v).size + j
      BY <1>3, <3>1, <3>2, PagesApart
    <3> QED
      BY <1>3, <3>3
  <2>4. /\ start(v) + i \in DOMAIN h(v) /\ log(v).commits[i] = h(v)[start(v) + i]
        /\ start(w) + j \in DOMAIN h(v) /\ log(w).commits[j] = h(v)[start(w) + j]
    BY <1>3, <2>1
  <2>5. start(v) + i # start(w) + j
    BY <1>3, <2>3
  <2> QED
    BY <2>1, <2>4, <2>5 DEF IsInjective
<1>4. ASSUME GInv PROVE LogIsWhole
  <2> SUFFICES ASSUME NEW v \in Views, Fits(v)
               PROVE  /\ log(v).answered
                      /\ Len(log(v).commits) =
                           CASE Cardinality(all(v)) - start(v) <= 0 -> 0
                             [] Cardinality(all(v)) - start(v) > log(v).size -> log(v).size
                             [] OTHER -> Cardinality(all(v)) - start(v)
                      /\ IsInjective(log(v).commits)
                      /\ Range(log(v).commits) \subseteq all(v)
                      /\ \A w \in Views :
                            /\ Fits(w)
                            /\ view[w].commit = view[v].commit
                            /\ log(w).size = log(v).size
                            /\ log(w).page # log(v).page
                            => Range(log(w).commits) \cap Range(log(v).commits) = {}
    BY DEF LogIsWhole
  <2>1. Facts(v) /\ \A w \in Views : Fits(w) => Facts(w)
    BY <1>1, <1>4
  <2>2. Cardinality(all(v)) \in Nat
    BY <2>1, HistoryFacts
  <2>3. Len(log(v).commits) =
           CASE Cardinality(all(v)) - start(v) <= 0 -> 0
             [] Cardinality(all(v)) - start(v) > log(v).size -> log(v).size
             [] OTHER -> Cardinality(all(v)) - start(v)
    BY <2>1, <2>2
  <2>4. ASSUME NEW w \in Views, Fits(w), view[w].commit = view[v].commit,
               log(w).size = log(v).size, log(w).page # log(v).page
        PROVE  Range(log(w).commits) \cap Range(log(v).commits) = {}
    <3>1. Facts(w)
      BY <2>1, <2>4
    <3>2. log(v).page < log(w).page \/ log(w).page < log(v).page
      BY <2>1, <2>4, <3>1
    <3> QED
      BY <1>3, <2>1, <2>4, <3>1, <3>2
  <2> QED
    BY <1>2, <2>1, <2>3, <2>4
<1> QED
  BY <1>4, GInvAlways, PTL
=============================================================================
