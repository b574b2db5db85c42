--------------------------- MODULE KnowledgeProofs ---------------------------
(***************************************************************************)
(* Proofs about what reads the knowledge store: the lexical index under    *)
(* any notices, a query of one store with its context and its walk, the    *)
(* documents that are read off the edges under any writes, and a query of  *)
(* all stores.                                                             *)
(***************************************************************************)
EXTENDS LexicalIndex, RetrievalQuery, DocumentFlow, FanOut, FiniteSetTheorems, WellFoundedInduction, TLAPS

----------------------------------------------------------------------------
(* Induction, stated of sets of numbers                                     *)

\* Every set of natural numbers has a least one.
LEMMA LeastOf ==
  ASSUME NEW T \in SUBSET Nat, T # {}
  PROVE  \E x \in T : \A y \in T : x <= y
<1> DEFINE TT == {1 .. n : n \in T}
           R == StrictSubsetOrdering(Nat)
<1>1. IsWellFoundedOn(R, FiniteSubsetsOf(Nat))
  BY FS_StrictSubsetOrderingWellFounded
<1>2. \A n \in Nat : 1 .. n \in SUBSET Nat /\ IsFiniteSet(1 .. n)
  BY FS_Interval
<1>3. TT \subseteq FiniteSubsetsOf(Nat) /\ TT # {}
  BY <1>2 DEF FiniteSubsetsOf
<1> HIDE DEF R, TT
<1>4. PICK X \in TT : \A Y \in TT : <<Y, X>> \notin R
  BY <1>1, <1>3, WFMin
<1>5. PICK x \in T : X = 1 .. x
  BY DEF TT
<1>6. ASSUME NEW y \in T, ~(x <= y) PROVE FALSE
  <2>1. 1 .. y \subseteq 1 .. x /\ x \in 1 .. x /\ x \notin 1 .. y
    BY <1>6
  <2>2. <<1 .. y, 1 .. x>> \in R
    BY <2>1, <1>2 DEF R, StrictSubsetOrdering
  <2>3. 1 .. y \in TT
    BY DEF TT
  <2> QED BY <1>4, <1>5, <2>2, <2>3
<1> QED BY <1>6

\* A set that has zero, and with a number below n the next one, has all up to n.
LEMMA UpTo ==
  ASSUME NEW n \in Nat, NEW T, 0 \in T, \A k \in 0 .. n - 1 : k \in T => k + 1 \in T
  PROVE  0 .. n \subseteq T
<1> DEFINE U == (0 .. n) \ T
<1> SUFFICES ASSUME U # {} PROVE FALSE
  OBVIOUS
<1>1. PICK x \in U : \A y \in U : x <= y
  <2>1. U \in SUBSET Nat
    OBVIOUS
  <2> HIDE DEF U
  <2> QED BY <2>1, LeastOf
<1>2. x \in 1 .. n
  BY <1>1
<1>3. x - 1 \notin U
  BY <1>1, <1>2
<1>4. x - 1 \in 0 .. n - 1 /\ x - 1 \in T /\ (x - 1) + 1 = x
  BY <1>2, <1>3
<1> QED BY <1>1, <1>4

\* What is defined by its first value and the step from each to the next exists.
Iterates(S, base, step, n, f) ==
  /\ f \in [0 .. n -> S] /\ f[0] = base
  /\ \A k \in 1 .. n : f[k] = step[k][f[k - 1]]

LEMMA IterationExists ==
  ASSUME NEW n \in Nat, NEW S, NEW base \in S, NEW step \in [1 .. n -> [S -> S]]
  PROVE  \E f : Iterates(S, base, step, n, f)
<1> DEFINE T == {m \in 0 .. n : \E f : Iterates(S, base, step, m, f)}
<1>1. 0 \in T
  <2>1. Iterates(S, base, step, 0, [k \in 0 .. 0 |-> base])
    BY DEF Iterates
  <2> QED BY <2>1
<1>2. ASSUME NEW m \in 0 .. n - 1, m \in T PROVE m + 1 \in T
  <2>1. PICK f : Iterates(S, base, step, m, f)
    BY <1>2
  <2> DEFINE g == [k \in 0 .. m + 1 |-> IF k <= m THEN f[k] ELSE step[m + 1][f[m]]]
  <2>2. f \in [0 .. m -> S] /\ f[m] \in S /\ m + 1 \in 1 .. n
    BY <2>1 DEF Iterates
  <2>3. step[m + 1][f[m]] \in S
    BY <2>2
  <2>4. g \in [0 .. m + 1 -> S]
    BY <2>2, <2>3
  <2>5. g[0] = base
    BY <2>1 DEF Iterates
  <2>6. ASSUME NEW k \in 1 .. m + 1 PROVE g[k] = step[k][g[k - 1]]
    <3>1. CASE k <= m
      <4>1. g[k] = f[k] /\ g[k - 1] = f[k - 1] /\ k \in 1 .. m
        BY <3>1
      <4> QED BY <2>1, <4>1 DEF Iterates
    <3>2. CASE k = m + 1
      BY <3>2
    <3> QED BY <3>1, <3>2
  <2> HIDE DEF g
  <2>7. Iterates(S, base, step, m + 1, g)
    BY <2>4, <2>5, <2>6 DEF Iterates
  <2> QED BY <2>7
<1> HIDE DEF T
<1>3. 0 .. n \subseteq T
  BY <1>1, <1>2, UpTo
<1> QED BY <1>3 DEF T
\* What is left of a sequence without one of its elements.
LEMMA RemoveAtIs ==
  ASSUME NEW S, NEW s \in Seq(S), NEW p \in DOMAIN s
  PROVE  /\ RemoveAt(s, p) \in Seq(S) /\ Len(RemoveAt(s, p)) = Len(s) - 1
         /\ \A i \in DOMAIN RemoveAt(s, p) :
              LET j == IF i < p THEN i ELSE i + 1 IN j \in DOMAIN s /\ RemoveAt(s, p)[i] = s[j]
         /\ \A j \in DOMAIN s : j # p => \E i \in DOMAIN RemoveAt(s, p) : RemoveAt(s, p)[i] = s[j]
PROOF
<1>. DEFINE a == SubSeq(s, 1, p - 1)
            b == SubSeq(s, p + 1, Len(s))
<1>1. a \in Seq(S) /\ Len(a) = p - 1 /\ \A i \in 1..p - 1 : a[i] = s[i]
  OBVIOUS
<1>2. b \in Seq(S) /\ Len(b) = Len(s) - p /\ \A i \in 1..Len(s) - p : b[i] = s[p + i]
  OBVIOUS
<1>3. RemoveAt(s, p) = a \o b
  BY DEF RemoveAt
<1>. HIDE DEF a, b
<1>4. a \o b \in Seq(S) /\ Len(a \o b) = Len(s) - 1
  BY <1>1, <1>2
<1>5. \A i \in 1..p - 1 : (a \o b)[i] = s[i]
  BY <1>1, <1>2
<1>6. ASSUME NEW i \in p..Len(s) - 1 PROVE (a \o b)[i] = s[i + 1]
  <2>1. (a \o b)[i] = b[i - (p - 1)] /\ i - (p - 1) \in 1..Len(s) - p
    BY <1>1, <1>2
  <2>2. b[i - (p - 1)] = s[p + (i - (p - 1))] /\ p + (i - (p - 1)) = i + 1
    BY <1>2, <2>1
  <2>. QED BY <2>1, <2>2
<1>7. ASSUME NEW i \in DOMAIN (a \o b)
      PROVE  LET j == IF i < p THEN i ELSE i + 1 IN j \in DOMAIN s /\ (a \o b)[i] = s[j]
  <2>1. i \in 1..Len(s) - 1 /\ Len(s) \in Nat /\ DOMAIN s = 1..Len(s) /\ p \in 1..Len(s)
    BY <1>4
  <2>2. CASE i < p
    <3>1. i \in 1..p - 1 /\ i \in DOMAIN s
      BY <2>1, <2>2
    <3>. QED BY <2>2, <3>1, <1>5
  <2>3. CASE ~(i < p)
    <3>1. i \in p..Len(s) - 1 /\ i + 1 \in DOMAIN s
      BY <2>1, <2>3
    <3>. QED BY <2>3, <3>1, <1>6
  <2>. QED BY <2>2, <2>3
<1>8. ASSUME NEW j \in DOMAIN s, j # p PROVE \E i \in DOMAIN (a \o b) : (a \o b)[i] = s[j]
  <2>1. CASE j < p
    <3>1. j \in 1..p - 1 /\ j \in DOMAIN (a \o b)
      BY <2>1, <1>4
    <3>. QED BY <3>1, <1>5
  <2>2. CASE j > p
    <3>1. j - 1 \in p..Len(s) - 1 /\ j - 1 \in DOMAIN (a \o b) /\ (j - 1) + 1 = j
      BY <2>2, <1>4
    <3>. QED BY <3>1, <1>6
  <2>. QED BY <2>1, <2>2, <1>8
<1>. QED BY <1>3, <1>4, <1>7, <1>8

----------------------------------------------------------------------------
(* The lexical index                                                        *)

Counted(tf) == [t \in LexTerms |-> Cardinality({n \in DOMAIN tf : Has(tf[n], t)})]

\* An index that its own texts account for, with each node once.
IsIndex(i) ==
  /\ i.nodeIds \in Seq(LexNodes) /\ IsInjective(i.nodeIds)
  /\ i.termFrequencies \in [ToSet(i.nodeIds) -> LexTexts]
  /\ i = [nodeIds |-> i.nodeIds, termFrequencies |-> i.termFrequencies,
          documentFrequencies |-> Counted(i.termFrequencies),
          documentCount |-> Len(i.nodeIds), total |-> Tokens(i.termFrequencies)]

LEMMA TextIs == ASSUME NEW x \in LexTexts, NEW t \in LexTerms PROVE x[t] \in Nat
BY LexAssumption

\* When one text changes, the counts of its terms are shifted.
LEMMA ShiftCounts ==
  ASSUME NEW tf, NEW tf1, NEW n, NEW old, NEW new, IsFiniteSet(DOMAIN tf),
         DOMAIN tf \ {n} = DOMAIN tf1 \ {n}, \A m \in DOMAIN tf \ {n} : tf1[m] = tf[m],
         IF n \in DOMAIN tf THEN old = tf[n] ELSE old = NoText,
         IF n \in DOMAIN tf1 THEN new = tf1[n] ELSE new = NoText
  PROVE  Shift(Counted(tf), old, new) = Counted(tf1)
<1> SUFFICES ASSUME NEW t \in LexTerms
             PROVE  Shift(Counted(tf), old, new)[t] = Cardinality({m \in DOMAIN tf1 : Has(tf1[m], t)})
  BY DEF Shift, Counted
<1> DEFINE A == {m \in DOMAIN tf : Has(tf[m], t)}
           B == {m \in DOMAIN tf1 : Has(tf1[m], t)}
<1>1. A \ {n} = B \ {n}
  OBVIOUS
<1>2. ~ Has(NoText, t)
  BY DEF Has, NoText
<1>3. (n \in A <=> Has(old, t)) /\ (n \in B <=> Has(new, t))
  BY <1>2
<1>4. Counted(tf)[t] = Cardinality(A)
  BY DEF Counted
<1>5. IsFiniteSet(A)
  BY FS_Subset
<1> HIDE DEF A, B
<1>6. IsFiniteSet(A \ {n}) /\ Cardinality(A \ {n}) = (IF n \in A THEN Cardinality(A) - 1 ELSE Cardinality(A))
      /\ Cardinality(A) \in Nat /\ Cardinality(A \ {n}) \in Nat
  BY <1>5, FS_RemoveElement, FS_CardinalityType
<1>7. Cardinality(B) = (IF n \in B THEN Cardinality(A \ {n}) + 1 ELSE Cardinality(A \ {n}))
  <2>1. CASE n \in B
    <3>1. B = (A \ {n}) \cup {n}
      BY <1>1, <2>1
    <3> QED BY <1>6, <2>1, <3>1, FS_AddElement
  <2>2. CASE n \notin B
    <3>1. B = A \ {n}
      BY <1>1, <2>2
    <3> QED BY <2>2, <3>1
  <2> QED BY <2>1, <2>2
<1>8. Shift(Counted(tf), old, new)[t] =
        IF n \in A /\ n \notin B THEN IF Cardinality(A) <= 1 THEN 0 ELSE Cardinality(A) - 1
        ELSE IF n \in B /\ n \notin A THEN Cardinality(A) + 1 ELSE Cardinality(A)
  BY <1>3, <1>4 DEF Shift
<1> QED BY <1>6, <1>7, <1>8 DEF B

LEMMA IndexFinite == ASSUME NEW i, IsIndex(i) PROVE IsFiniteSet(DOMAIN i.termFrequencies)
<1>1. ToSet(i.nodeIds) \subseteq LexNodes
  BY DEF IsIndex, ToSet
<1> QED BY <1>1, FS_Subset, LexAssumption DEF IsIndex

\* One text more, or another one for a node that is in the index.
LEMMA WithTextIs ==
  ASSUME NEW i, IsIndex(i), NEW n \in LexNodes, NEW x \in LexTexts
  PROVE  LET tf == [m \in DOMAIN i.termFrequencies \cup {n} |-> IF m = n THEN x ELSE i.termFrequencies[m]]
         IN  WithText(i, n, x) = [nodeIds |-> i.nodeIds, termFrequencies |-> tf,
                                  documentFrequencies |-> i.documentFrequencies,
                                  documentCount |-> i.documentCount, total |-> Tokens(tf)]
<1>1. PICK a, b, c, d, e : i = [nodeIds |-> a, termFrequencies |-> b, documentFrequencies |-> c,
                                documentCount |-> d, total |-> e]
  BY DEF IsIndex
<1> DEFINE tf == [m \in DOMAIN i.termFrequencies \cup {n} |-> IF m = n THEN x ELSE i.termFrequencies[m]]
<1>2. WithText(i, n, x) = [i EXCEPT !.termFrequencies = tf, !.total = Tokens(tf)]
  BY DEF WithText
<1>3. ASSUME NEW t, NEW u
      PROVE  [i EXCEPT !.termFrequencies = t, !.total = u] =
                 [nodeIds |-> i.nodeIds, termFrequencies |-> t, documentFrequencies |-> i.documentFrequencies,
                  documentCount |-> i.documentCount, total |-> u]
  <2>1. i.nodeIds = a /\ i.documentFrequencies = c /\ i.documentCount = d
    BY <1>1
  <2> DEFINE j == [i EXCEPT !.termFrequencies = t]
  <2>2. j = [nodeIds |-> a, termFrequencies |-> t, documentFrequencies |-> c, documentCount |-> d, total |-> e]
    BY <1>1
  <2>3. [i EXCEPT !.termFrequencies = t, !.total = u] = [j EXCEPT !.total = u]
    OBVIOUS
  <2> HIDE DEF j
  <2>4. [j EXCEPT !.total = u] =
          [nodeIds |-> a, termFrequencies |-> t, documentFrequencies |-> c, documentCount |-> d, total |-> u]
    BY <2>2
  <2> QED BY <2>1, <2>3, <2>4
<1> HIDE DEF tf
<1>4. WithText(i, n, x) = [nodeIds |-> i.nodeIds, termFrequencies |-> tf, documentFrequencies |-> i.documentFrequencies,
                           documentCount |-> i.documentCount, total |-> Tokens(tf)]
  BY <1>2, <1>3
<1> QED BY <1>4 DEF tf

\* r is the index that knows of n what the store says, and of the others what i does.
Follows(r, i, n) ==
  /\ ToSet(r.nodeIds) = IF content[n] # Gone THEN ToSet(i.nodeIds) \cup {n} ELSE ToSet(i.nodeIds) \ {n}
  /\ n \in ToSet(r.nodeIds) => r.termFrequencies[n] = content[n]
  /\ \A m \in ToSet(r.nodeIds) \ {n} : r.termFrequencies[m] = i.termFrequencies[m]

LEMMA UpdateKeeps ==
  ASSUME NEW i, IsIndex(i), NEW n \in ToSet(i.nodeIds), n \in LexNodes, content[n] \in LexTexts, content[n] # Gone
  PROVE  LET r == UpdateLexicalIndex(i, n, content[n]) IN IsIndex(r) /\ Follows(r, i, n)
<1> DEFINE x == content[n]
           f == i.termFrequencies
           tf == [m \in DOMAIN f \cup {n} |-> IF m = n THEN x ELSE f[m]]
           r == UpdateLexicalIndex(i, n, x)
<1>1. f \in [ToSet(i.nodeIds) -> LexTexts]
  BY DEF IsIndex
<1>2. tf \in [ToSet(i.nodeIds) -> LexTexts] /\ tf[n] = x /\ DOMAIN tf = DOMAIN f /\ \A m \in DOMAIN f \ {n} : tf[m] = f[m]
  BY <1>1
<1>3. Shift(i.documentFrequencies, f[n], x) = Counted(tf)
  <2>1. i.documentFrequencies = Counted(f)
    BY DEF IsIndex
  <2>2. IsFiniteSet(DOMAIN f) /\ n \in DOMAIN f
    BY <1>1, IndexFinite
  <2> HIDE DEF tf, x, f
  <2> QED BY <1>2, <2>1, <2>2, ShiftCounts
<1>4. WithText(i, n, x) = [nodeIds |-> i.nodeIds, termFrequencies |-> tf, documentFrequencies |-> i.documentFrequencies,
                           documentCount |-> i.documentCount, total |-> Tokens(tf)]
  BY WithTextIs
<1> HIDE DEF tf
<1>5. r = [nodeIds |-> i.nodeIds, termFrequencies |-> tf, documentFrequencies |-> Counted(tf),
           documentCount |-> Len(i.nodeIds), total |-> Tokens(tf)]
  BY <1>3, <1>4 DEF UpdateLexicalIndex, IsIndex
<1> HIDE DEF r, f, x
<1>6. IsIndex(r)
  BY <1>2, <1>5 DEF IsIndex
<1>7. Follows(r, i, n)
  BY <1>1, <1>2, <1>5 DEF Follows, f, x
<1> QED BY <1>6, <1>7 DEF r, x

LEMMA AddKeeps ==
  ASSUME NEW i, IsIndex(i), NEW n \in LexNodes, n \notin ToSet(i.nodeIds), content[n] \in LexTexts, content[n] # Gone
  PROVE  LET r == AddToLexicalIndex(i, n, content[n]) IN IsIndex(r) /\ Follows(r, i, n)
<1> DEFINE x == content[n]
           f == i.termFrequencies
           s == Append(i.nodeIds, n)
           tf == [m \in DOMAIN f \cup {n} |-> IF m = n THEN x ELSE f[m]]
           r == AddToLexicalIndex(i, n, x)
<1>1. f \in [ToSet(i.nodeIds) -> LexTexts] /\ i.nodeIds \in Seq(LexNodes) /\ IsInjective(i.nodeIds)
  BY DEF IsIndex
<1>2. s \in Seq(LexNodes) /\ IsInjective(s) /\ ToSet(s) = ToSet(i.nodeIds) \cup {n} /\ Len(s) = Len(i.nodeIds) + 1
  <2>1. /\ s \in Seq(LexNodes) /\ Len(s) = Len(i.nodeIds) + 1 /\ Len(i.nodeIds) \in Nat
        /\ DOMAIN s = 1 .. Len(i.nodeIds) + 1 /\ DOMAIN i.nodeIds = 1 .. Len(i.nodeIds)
        /\ s[Len(i.nodeIds) + 1] = n /\ \A p \in 1 .. Len(i.nodeIds) : s[p] = i.nodeIds[p]
    BY <1>1
  <2>2. \A p \in DOMAIN i.nodeIds : i.nodeIds[p] # n
    BY DEF ToSet
  <2> HIDE DEF s
  <2>3. IsInjective(s)
    BY <1>1, <2>1, <2>2 DEF IsInjective
  <2>4. ToSet(s) = ToSet(i.nodeIds) \cup {n}
    BY <2>1 DEF ToSet
  <2> QED BY <2>1, <2>3, <2>4
<1>3. /\ tf \in [ToSet(s) -> LexTexts] /\ tf[n] = x /\ DOMAIN tf = DOMAIN f \cup {n} /\ n \notin DOMAIN f
      /\ \A m \in DOMAIN f : tf[m] = f[m]
  BY <1>1, <1>2
<1>4. Shift(i.documentFrequencies, NoText, x) = Counted(tf)
  <2>1. i.documentFrequencies = Counted(f)
    BY DEF IsIndex
  <2>2. IsFiniteSet(DOMAIN f)
    BY IndexFinite
  <2>3. DOMAIN f \ {n} = DOMAIN tf \ {n}
    BY <1>3
  <2> HIDE DEF tf, x, f
  <2> QED BY <1>3, <2>1, <2>2, <2>3, ShiftCounts
<1>5. WithText(i, n, x) = [nodeIds |-> i.nodeIds, termFrequencies |-> tf, documentFrequencies |-> i.documentFrequencies,
                           documentCount |-> i.documentCount, total |-> Tokens(tf)]
  BY WithTextIs
<1> HIDE DEF tf
<1>6. r = [nodeIds |-> s, termFrequencies |-> tf, documentFrequencies |-> Counted(tf),
           documentCount |-> Len(i.nodeIds) + 1, total |-> Tokens(tf)]
  <2> DEFINE w == WithText(i, n, x)
  <2>1. r = [w EXCEPT !.documentFrequencies = Shift(i.documentFrequencies, NoText, x),
                      !.nodeIds = Append(@, n), !.documentCount = @ + 1]
    BY DEF AddToLexicalIndex
  <2>2. i.documentCount = Len(i.nodeIds)
    BY DEF IsIndex
  <2> HIDE DEF w, r, f, x
  <2>3. w = [nodeIds |-> i.nodeIds, termFrequencies |-> tf, documentFrequencies |-> i.documentFrequencies,
             documentCount |-> i.documentCount, total |-> Tokens(tf)]
    BY <1>5 DEF w
  <2>4. r = [nodeIds |-> Append(i.nodeIds, n), termFrequencies |-> tf,
             documentFrequencies |-> Shift(i.documentFrequencies, NoText, x),
             documentCount |-> i.documentCount + 1, total |-> Tokens(tf)]
    BY <2>1, <2>3
  <2> QED BY <1>4, <2>2, <2>4 DEF s
<1> HIDE DEF r, f, x, s
<1>7. IsIndex(r)
  BY <1>2, <1>3, <1>6 DEF IsIndex
<1>8. Follows(r, i, n)
  BY <1>1, <1>2, <1>3, <1>6 DEF Follows, f, x
<1> QED BY <1>7, <1>8 DEF r, x

LEMMA RemoveKeeps ==
  ASSUME NEW i, IsIndex(i), NEW n \in ToSet(i.nodeIds), content[n] = Gone
  PROVE  LET r == RemoveFromLexicalIndex(i, n) IN IsIndex(r) /\ Follows(r, i, n)
<1> DEFINE f == i.termFrequencies
           at == CHOOSE p \in DOMAIN i.nodeIds : i.nodeIds[p] = n
           s == RemoveAt(i.nodeIds, at)
           tf == [m \in DOMAIN f \ {n} |-> f[m]]
           r == RemoveFromLexicalIndex(i, n)
<1>1. f \in [ToSet(i.nodeIds) -> LexTexts] /\ i.nodeIds \in Seq(LexNodes) /\ IsInjective(i.nodeIds)
  BY DEF IsIndex
<1>2. at \in DOMAIN i.nodeIds /\ i.nodeIds[at] = n
  BY DEF ToSet
<1>3. r = [nodeIds |-> s, termFrequencies |-> tf, documentFrequencies |-> Shift(i.documentFrequencies, f[n], NoText),
           documentCount |-> i.documentCount - 1, total |-> Tokens(tf)]
  BY DEF RemoveFromLexicalIndex
<1> HIDE DEF at, r
<1>4. /\ s \in Seq(LexNodes) /\ Len(s) = Len(i.nodeIds) - 1
      /\ \A p \in DOMAIN s : LET j == IF p < at THEN p ELSE p + 1 IN j \in DOMAIN i.nodeIds /\ s[p] = i.nodeIds[j]
      /\ \A j \in DOMAIN i.nodeIds : j # at => \E p \in DOMAIN s : s[p] = i.nodeIds[j]
  BY <1>1, <1>2, RemoveAtIs
<1> HIDE DEF s
<1>5. ToSet(s) = ToSet(i.nodeIds) \ {n}
  <2>1. ASSUME NEW p \in DOMAIN s PROVE s[p] \in ToSet(i.nodeIds) /\ s[p] # n
    <3>1. p \in Nat /\ at \in Nat
      BY <1>1, <1>2, <1>4
    <3>2. PICK j \in DOMAIN i.nodeIds : j # at /\ s[p] = i.nodeIds[j]
      <4>1. (IF p < at THEN p ELSE p + 1) # at
        BY <3>1
      <4> QED BY <1>4, <4>1
    <3> QED BY <1>1, <1>2, <3>2 DEF ToSet, IsInjective
  <2>2. ASSUME NEW m \in ToSet(i.nodeIds), m # n PROVE m \in ToSet(s)
    <3>1. PICK j \in DOMAIN i.nodeIds : i.nodeIds[j] = m
      BY DEF ToSet
    <3> QED BY <1>2, <1>4, <2>2, <3>1 DEF ToSet
  <2> QED BY <2>1, <2>2 DEF ToSet
<1>6. IsInjective(s)
  <2> SUFFICES ASSUME NEW p \in DOMAIN s, NEW q \in DOMAIN s, s[p] = s[q] PROVE p = q
    BY DEF IsInjective
  <2>1. p \in Nat /\ q \in Nat /\ at \in Nat
    BY <1>1, <1>2, <1>4
  <2>2. (IF p < at THEN p ELSE p + 1) = (IF q < at THEN q ELSE q + 1)
    BY <1>1, <1>4 DEF IsInjective
  <2> QED BY <2>1, <2>2
<1>7. tf \in [ToSet(s) -> LexTexts] /\ DOMAIN tf = DOMAIN f \ {n} /\ n \in DOMAIN f /\ \A m \in DOMAIN tf : tf[m] = f[m]
  BY <1>1, <1>5
<1>8. Shift(i.documentFrequencies, f[n], NoText) = Counted(tf)
  <2>1. i.documentFrequencies = Counted(f)
    BY DEF IsIndex
  <2>2. IsFiniteSet(DOMAIN f) /\ DOMAIN f \ {n} = DOMAIN tf \ {n}
    BY <1>7, IndexFinite
  <2> HIDE DEF tf, f
  <2> QED BY <1>7, <2>1, <2>2, ShiftCounts
<1> HIDE DEF tf
<1>9. i.documentCount = Len(i.nodeIds)
  BY DEF IsIndex
<1> HIDE DEF f
<1>10. IsIndex(r)
  BY <1>3, <1>4, <1>6, <1>7, <1>8, <1>9 DEF IsIndex
<1>11. Follows(r, i, n)
  BY <1>3, <1>5, <1>7 DEF Follows, f
<1> QED BY <1>10, <1>11 DEF r

LEMMA ReconciledKeeps ==
  ASSUME NEW i, IsIndex(i), NEW n \in LexNodes, content[n] \in LexTexts \cup {Gone}
  PROVE  IsIndex(Reconciled(i, n)) /\ Follows(Reconciled(i, n), i, n)
<1>1. Contains(i.nodeIds, n) <=> n \in ToSet(i.nodeIds)
  BY DEF IsIndex, Contains, ToSet
<1>2. CASE content[n] # Gone /\ n \in ToSet(i.nodeIds)
  BY <1>1, <1>2, UpdateKeeps DEF Reconciled
<1>3. CASE content[n] # Gone /\ n \notin ToSet(i.nodeIds)
  BY <1>1, <1>3, AddKeeps DEF Reconciled
<1>4. CASE content[n] = Gone /\ n \in ToSet(i.nodeIds)
  BY <1>1, <1>4, RemoveKeeps DEF Reconciled
<1>5. CASE content[n] = Gone /\ n \notin ToSet(i.nodeIds)
  <2>1. Reconciled(i, n) = i
    BY <1>1, <1>5 DEF Reconciled
  <2> QED BY <1>5, <2>1 DEF Follows
<1> QED BY <1>2, <1>3, <1>4, <1>5

Contents == [LexNodes -> LexTexts \cup {Gone}]

\* What an index knows of n is what the store says, or what index i knows.
Told(r, n) == (n \in ToSet(r.nodeIds) <=> content[n] # Gone) /\ (n \in ToSet(r.nodeIds) => r.termFrequencies[n] = content[n])
AsIn(r, i, n) ==
  (n \in ToSet(r.nodeIds) <=> n \in ToSet(i.nodeIds)) /\ (n \in ToSet(r.nodeIds) => r.termFrequencies[n] = i.termFrequencies[n])

LEMMA NotifiedIs ==
  ASSUME content \in Contents, NEW i, IsIndex(i), NEW ids \in Seq(LexNodes)
  PROVE  /\ IsIndex(Notified(i, ids))
         /\ \A n \in LexNodes : IF n \in ToSet(ids) THEN Told(Notified(i, ids), n) ELSE AsIn(Notified(i, ids), i, n)
<1> DEFINE Texts == UNION {[D -> LexTexts] : D \in SUBSET LexNodes}
           Of(x, tf) == [nodeIds |-> x, termFrequencies |-> tf, documentFrequencies |-> Counted(tf),
                         documentCount |-> Len(x), total |-> Tokens(tf)]
           S == {x \in {Of(y, tf) : y \in Seq(LexNodes), tf \in Texts} : IsIndex(x)}
           len == Len(ids)
           step == [k \in 1 .. len |-> [x \in S |-> Reconciled(x, ids[k])]]
           after == CHOOSE f : f = [k \in 0 .. len |-> IF k = 0 THEN i ELSE Reconciled(f[k - 1], ids[k])]
<1>1. \A x : x \in S <=> IsIndex(x)
  <2> SUFFICES ASSUME NEW x, IsIndex(x) PROVE x \in S
    OBVIOUS
  <2>1. x.nodeIds \in Seq(LexNodes) /\ x.termFrequencies \in Texts /\ x = Of(x.nodeIds, x.termFrequencies)
    BY DEF IsIndex, ToSet
  <2> QED BY <2>1
<1> HIDE DEF S
<1>2. len \in Nat /\ \A k \in 1 .. len : ids[k] \in LexNodes /\ content[ids[k]] \in LexTexts \cup {Gone}
  BY DEF Contents
<1>3. \A x \in S, k \in 1 .. len : Reconciled(x, ids[k]) \in S /\ Follows(Reconciled(x, ids[k]), x, ids[k])
  BY <1>1, <1>2, ReconciledKeeps
<1>4. step \in [1 .. len -> [S -> S]]
  BY <1>3
<1> HIDE DEF step
<1>5. PICK f : Iterates(S, i, step, len, f)
  BY <1>1, <1>2, <1>4, IterationExists
<1>6. f = [k \in 0 .. len |-> IF k = 0 THEN i ELSE Reconciled(f[k - 1], ids[k])]
  <2>1. f \in [0 .. len -> S] /\ f[0] = i /\ \A k \in 1 .. len : f[k] = step[k][f[k - 1]]
    BY <1>5 DEF Iterates
  <2>2. ASSUME NEW k \in 1 .. len PROVE f[k] = Reconciled(f[k - 1], ids[k])
    <3>1. k - 1 \in 0 .. len
      BY <1>2
    <3> QED BY <2>1, <3>1 DEF step
  <2>3. \A k \in 0 .. len : f[k] = IF k = 0 THEN i ELSE Reconciled(f[k - 1], ids[k])
    BY <2>1, <2>2
  <2> QED BY <2>1, <2>3
<1>7. after = [k \in 0 .. len |-> IF k = 0 THEN i ELSE Reconciled(after[k - 1], ids[k])]
  BY <1>6
<1>8. Notified(i, ids) = after[len]
  BY DEF Notified
<1> HIDE DEF after
<1> DEFINE Till(k) == {ids[j] : j \in 1 .. k}
           Good(k) == /\ IsIndex(after[k])
                      /\ \A n \in LexNodes : IF n \in Till(k) THEN Told(after[k], n) ELSE AsIn(after[k], i, n)
           T == {k \in 0 .. len : Good(k)}
<1>9. Good(0)
  <2>1. after[0] = i /\ Till(0) = {}
    BY <1>2, <1>7
  <2> QED BY <2>1 DEF AsIn
<1>10. ASSUME NEW k \in 0 .. len - 1, Good(k) PROVE Good(k + 1)
  <2> DEFINE m == ids[k + 1]
             r == after[k + 1]
  <2>1. k + 1 \in 1 .. len /\ m \in LexNodes /\ r = Reconciled(after[k], m)
    BY <1>2, <1>7
  <2>2. IsIndex(r) /\ Follows(r, after[k], m)
    BY <1>1, <1>3, <1>10, <2>1
  <2>3. Till(k + 1) = Till(k) \cup {m}
    BY <1>2
  <2> HIDE DEF m, r
  <2>4. Told(r, m)
    BY <2>2 DEF Told, Follows
  <2>5. ASSUME NEW n \in LexNodes, n # m PROVE AsIn(r, after[k], n)
    BY <2>2, <2>5 DEF AsIn, Follows
  <2>6. \A n \in LexNodes : IF n \in Till(k + 1) THEN Told(r, n) ELSE AsIn(r, i, n)
    <3> SUFFICES ASSUME NEW n \in LexNodes, n # m PROVE IF n \in Till(k + 1) THEN Told(r, n) ELSE AsIn(r, i, n)
      BY <2>3, <2>4
    <3>1. CASE n \in Till(k)
      BY <1>10, <2>3, <2>5, <3>1 DEF AsIn, Told
    <3>2. CASE n \notin Till(k)
      BY <1>10, <2>3, <2>5, <3>2 DEF AsIn
    <3> QED BY <3>1, <3>2
  <2> QED BY <2>2, <2>6 DEF r
<1> HIDE DEF Good
<1>11. 0 .. len \subseteq T
  <2>1. 0 \in T /\ \A k \in 0 .. len - 1 : k \in T => k + 1 \in T
    BY <1>2, <1>9, <1>10
  <2> HIDE DEF T
  <2> QED BY <1>2, <2>1, UpTo
<1>12. Good(len)
  BY <1>2, <1>11
<1>13. Till(len) = ToSet(ids)
  BY DEF ToSet
<1> QED BY <1>8, <1>12, <1>13 DEF Good

LexIInv ==
  /\ content \in Contents /\ owed \subseteq LexNodes
  /\ IsIndex(lex)
  /\ \A n \in LexNodes \ owed : Told(lex, n)

LEMMA LexInitInv == LexInit => LexIInv
<1> SUFFICES ASSUME LexInit PROVE LexIInv
  OBVIOUS
<1> DEFINE stored == {n \in LexNodes : content[n] # Gone}
<1>1. content \in Contents /\ owed = {}
  BY DEF LexInit, Contents
<1>2. PICK nodes \in SetToSeqs(stored) : lex = Built(nodes, content)
  BY DEF LexInit
<1>3. IsFiniteSet(stored)
  BY LexAssumption, FS_Subset
<1> DEFINE c == Cardinality(stored)
<1>4. c \in Nat /\ IsFiniteSet(1 .. c) /\ Cardinality(1 .. c) = c
  BY <1>3, FS_CardinalityType, FS_Interval
<1>5. nodes \in [1 .. c -> stored] /\ IsInjective(nodes)
  BY DEF SetToSeqs, IsInjective
<1>6. stored \subseteq LexNodes
  OBVIOUS
<1>7. \A n \in stored : content[n] \in LexTexts
  BY <1>1 DEF Contents
<1> HIDE DEF c
<1>8. nodes \in Seq(LexNodes) /\ Len(nodes) = c
  BY <1>4, <1>5, <1>6
<1>9. ToSet(nodes) = stored
  <2>1. nodes \in Injection(1 .. c, stored)
    BY <1>5 DEF Injection, IsInjective
  <2>2. nodes \in Surjection(1 .. c, stored)
    BY <1>3, <1>4, <2>1, FS_Injection DEF c
  <2> QED BY <1>5, <2>2 DEF Surjection, ToSet
<1>10. IsIndex(lex) /\ ToSet(lex.nodeIds) = stored /\ \A n \in stored : lex.termFrequencies[n] = content[n]
  <2> DEFINE tf == [n \in ToSet(nodes) |-> content[n]]
  <2>1. lex = [nodeIds |-> nodes, termFrequencies |-> tf, documentFrequencies |-> Counted(tf),
               documentCount |-> Len(nodes), total |-> Tokens(tf)]
    BY <1>2 DEF Built, Counted
  <2>2. tf \in [ToSet(nodes) -> LexTexts] /\ \A n \in stored : tf[n] = content[n]
    BY <1>7, <1>9
  <2> HIDE DEF tf
  <2> QED BY <1>5, <1>8, <1>9, <2>1, <2>2 DEF IsIndex
<1>11. \A n \in LexNodes \ owed : Told(lex, n)
  BY <1>10 DEF Told
<1> QED BY <1>1, <1>10, <1>11 DEF LexIInv

LEMMA LexStep == LexIInv /\ [LexNext]_lexVars => LexIInv'
<1> SUFFICES ASSUME LexIInv, [LexNext]_lexVars PROVE LexIInv'
  OBVIOUS
<1>1. ASSUME NEW n \in LexNodes, StoreChange(n) PROVE LexIInv'
  <2>1. /\ lex' = lex /\ owed' = owed \cup {n} /\ content' \in Contents
        /\ \A m \in LexNodes \ {n} : content'[m] = content[m]
    BY <1>1 DEF StoreChange, LexIInv, Contents
  <2> QED BY <2>1 DEF LexIInv, IsIndex, Told
<1>2. ASSUME NEW ids \in BoundedSeq(LexNodes, MaxNotice), OnStoreChanged(ids) PROVE LexIInv'
  <2>1. ids \in Seq(LexNodes)
    BY LexAssumption DEF BoundedSeq, SeqOf
  <2>2. lex' = Notified(lex, ids) /\ owed' = owed \ ToSet(ids) /\ content' = content
    BY <1>2 DEF OnStoreChanged
  <2>3. IsIndex(lex') /\ \A n \in LexNodes : IF n \in ToSet(ids) THEN Told(lex', n) ELSE AsIn(lex', lex, n)
    BY <2>1, <2>2, NotifiedIs DEF LexIInv
  <2>4. \A n \in LexNodes \ owed' : Told(lex', n)
    BY <2>2, <2>3 DEF LexIInv, Told, AsIn
  <2> QED BY <2>2, <2>3, <2>4 DEF LexIInv, IsIndex, Told
<1>3. CASE UNCHANGED lexVars
  BY <1>3 DEF lexVars, LexIInv, IsIndex, Told, Contents
<1> QED BY <1>1, <1>2, <1>3 DEF LexNext

(***************************************************************************)
(* However the notices of retrieval.ts are batched, repeated and delayed,  *)
(* the lexical index is the one a restart would build from what it was     *)
(* told: for any nodes, terms, texts and length of the notices.            *)
(***************************************************************************)
THEOREM IndexStaysExact == LexSpec => []IndexIsRebuild
<1>1. LexIInv => IndexIsRebuild
  <2> SUFFICES ASSUME LexIInv PROVE IndexIsRebuild
    OBVIOUS
  <2> DEFINE tf == lex.termFrequencies
             nodes == lex.nodeIds
  <2>1. /\ nodes \in Seq(LexNodes) /\ IsInjective(nodes) /\ tf \in [ToSet(nodes) -> LexTexts]
        /\ lex = [nodeIds |-> nodes, termFrequencies |-> tf, documentFrequencies |-> Counted(tf),
                  documentCount |-> Len(nodes), total |-> Tokens(tf)]
    BY DEF LexIInv, IsIndex
  <2>2. tf = [n \in ToSet(nodes) |-> tf[n]]
    BY <2>1
  <2> HIDE DEF tf, nodes
  <2>3. lex = Built(nodes, tf)
    BY <2>1, <2>2, Zenon DEF Built, Counted
  <2>4. Cardinality(ToSet(nodes)) = Len(nodes)
    <3>1. Len(nodes) \in Nat /\ nodes \in [1 .. Len(nodes) -> ToSet(nodes)]
      BY <2>1 DEF ToSet
    <3>2. IsFiniteSet(1 .. Len(nodes)) /\ Cardinality(1 .. Len(nodes)) = Len(nodes)
      BY <3>1, FS_Interval
    <3>3. nodes \in Surjection(1 .. Len(nodes), ToSet(nodes)) /\ nodes \in Injection(1 .. Len(nodes), ToSet(nodes))
      BY <2>1, <3>1 DEF Surjection, Injection, IsInjective, ToSet
    <3> QED BY <3>2, <3>3, FS_Surjection
  <2>5. lex.documentCount = Len(nodes)
    BY <2>1
  <2>6. \A n \in LexNodes \ owed : (n \in ToSet(nodes) <=> content[n] # Gone) /\ (n \in ToSet(nodes) => tf[n] = content[n])
    BY DEF LexIInv, Told, nodes, tf
  <2> QED BY <2>3, <2>4, <2>5, <2>6 DEF IndexIsRebuild, nodes, tf
<1> QED BY <1>1, LexInitInv, LexStep, PTL DEF LexSpec

----------------------------------------------------------------------------
(* What a query is built from: lists that keep some of their elements       *)

LEMMA AppendSet ==
  ASSUME NEW T, NEW s \in Seq(T), NEW x \in T
  PROVE  ToSet(Append(s, x)) = ToSet(s) \cup {x}
<1> DEFINE a == Append(s, x)
<1>1. /\ Len(s) \in Nat /\ DOMAIN s = 1 .. Len(s) /\ DOMAIN a = 1 .. Len(s) + 1 /\ a[Len(s) + 1] = x
      /\ \A i \in 1 .. Len(s) : a[i] = s[i]
  OBVIOUS
<1> HIDE DEF a
<1>2. ToSet(a) = ToSet(s) \cup {x}
  BY <1>1 DEF ToSet
<1> QED BY <1>2 DEF a

LEMMA InjectiveAppend ==
  ASSUME NEW T, NEW s \in Seq(T), NEW x \in T, IsInjective(s), x \notin ToSet(s)
  PROVE  IsInjective(Append(s, x))
<1> DEFINE a == Append(s, x)
<1>1. /\ Len(s) \in Nat /\ DOMAIN s = 1 .. Len(s) /\ DOMAIN a = 1 .. Len(s) + 1 /\ a[Len(s) + 1] = x
      /\ \A i \in 1 .. Len(s) : a[i] = s[i]
  OBVIOUS
<1> HIDE DEF a
<1>2. \A i \in 1 .. Len(s) : s[i] # x
  BY <1>1 DEF ToSet
<1>3. ASSUME NEW i \in 1 .. Len(s) + 1, NEW j \in 1 .. Len(s) + 1, a[i] = a[j] PROVE i = j
  <2>1. CASE i \in 1 .. Len(s) /\ j \in 1 .. Len(s)
    <3>1. s[i] = s[j]
      BY <1>1, <1>3, <2>1
    <3> QED BY <1>1, <2>1, <3>1 DEF IsInjective
  <2>2. CASE ~ (i \in 1 .. Len(s) /\ j \in 1 .. Len(s))
    BY <1>1, <1>2, <1>3, <2>2
  <2> QED BY <2>1, <2>2
<1>4. IsInjective(a)
  BY <1>1, <1>3 DEF IsInjective
<1> QED BY <1>4 DEF a

\* How a list is filtered, one element after the other.
Keeping(s, S, T, kept) ==
  /\ kept \in [0 .. Len(s) -> Seq(T)] /\ kept[0] = <<>> /\ Filtered(s, S) = kept[Len(s)]
  /\ \A k \in 1 .. Len(s) : kept[k] = IF s[k] \in S THEN Append(kept[k - 1], s[k]) ELSE kept[k - 1]

LEMMA KeepingExists ==
  ASSUME NEW T, NEW s \in Seq(T), NEW S
  PROVE  \E kept : Keeping(s, S, T, kept)
<1> DEFINE len == Len(s)
           step == [k \in 1 .. len |-> [x \in Seq(T) |-> IF s[k] \in S THEN Append(x, s[k]) ELSE x]]
           kept == CHOOSE f : f = [k \in 0 .. len |->
                     IF k = 0 THEN <<>> ELSE IF s[k] \in S THEN Append(f[k - 1], s[k]) ELSE f[k - 1]]
<1>1. len \in Nat /\ <<>> \in Seq(T) /\ \A k \in 1 .. len : s[k] \in T
  OBVIOUS
<1>2. step \in [1 .. len -> [Seq(T) -> Seq(T)]]
  BY <1>1
<1> HIDE DEF step
<1>3. PICK f : Iterates(Seq(T), <<>>, step, len, f)
  BY <1>1, <1>2, IterationExists
<1>4. f = [k \in 0 .. len |-> IF k = 0 THEN <<>> ELSE IF s[k] \in S THEN Append(f[k - 1], s[k]) ELSE f[k - 1]]
  <2>1. f \in [0 .. len -> Seq(T)] /\ f[0] = <<>> /\ \A k \in 1 .. len : f[k] = step[k][f[k - 1]]
    BY <1>3 DEF Iterates
  <2>2. ASSUME NEW k \in 1 .. len PROVE f[k] = IF s[k] \in S THEN Append(f[k - 1], s[k]) ELSE f[k - 1]
    <3>1. k - 1 \in 0 .. len
      BY <1>1
    <3>2. f[k - 1] \in Seq(T)
      BY <2>1, <3>1
    <3> QED BY <2>1, <3>2 DEF step
  <2>3. \A k \in 0 .. len : k = 0 \/ k \in 1 .. len
    BY <1>1
  <2>4. \A k \in 0 .. len : f[k] = IF k = 0 THEN <<>> ELSE IF s[k] \in S THEN Append(f[k - 1], s[k]) ELSE f[k - 1]
    BY <2>1, <2>2, <2>3, Zenon
  <2> QED BY <2>1, <2>4
<1>5. kept = [k \in 0 .. len |-> IF k = 0 THEN <<>> ELSE IF s[k] \in S THEN Append(kept[k - 1], s[k]) ELSE kept[k - 1]]
  BY <1>4
<1>6. Filtered(s, S) = kept[len]
  BY DEF Filtered
<1> HIDE DEF kept
<1>7. ASSUME NEW k \in 1 .. len PROVE kept[k] = IF s[k] \in S THEN Append(kept[k - 1], s[k]) ELSE kept[k - 1]
  <2>1. k \in 0 .. len /\ k # 0
    BY <1>1
  <2> QED BY <1>5, <2>1
<1>8. kept[0] = <<>>
  BY <1>1, <1>5
<1> DEFINE G == {k \in 0 .. len : kept[k] \in Seq(T)}
<1>9. 0 .. len \subseteq G
  <2>1. 0 \in G
    <3>1. 0 \in 0 .. len /\ kept[0] \in Seq(T)
      BY <1>1, <1>8
    <3> QED BY <3>1
  <2>2. ASSUME NEW k \in 0 .. len - 1, k \in G PROVE k + 1 \in G
    <3>1. k + 1 \in 1 .. len /\ k + 1 \in 0 .. len /\ (k + 1) - 1 = k /\ kept[k] \in Seq(T)
      BY <1>1, <2>2
    <3>2. kept[k + 1] = IF s[k + 1] \in S THEN Append(kept[k], s[k + 1]) ELSE kept[k]
      BY <1>7, <3>1
    <3>3. kept[k + 1] \in Seq(T)
      BY <1>1, <3>1, <3>2
    <3> QED BY <3>1, <3>3
  <2> HIDE DEF G
  <2> QED BY <1>1, <2>1, <2>2, UpTo
<1>10. kept \in [0 .. len -> Seq(T)]
  <2>1. \A k \in 0 .. len : kept[k] \in Seq(T)
    BY <1>9
  <2> QED BY <1>5, <2>1
<1> QED BY <1>6, <1>7, <1>8, <1>10 DEF Keeping

LEMMA FilteredIs ==
  ASSUME NEW T, NEW s \in Seq(T), NEW S
  PROVE  /\ Filtered(s, S) \in Seq(T) /\ ToSet(Filtered(s, S)) = ToSet(s) \cap S
         /\ IsInjective(s) => IsInjective(Filtered(s, S))
<1> DEFINE len == Len(s)
<1>1. len \in Nat /\ <<>> \in Seq(T) /\ \A k \in 1 .. len : s[k] \in T
  OBVIOUS
<1>5. PICK kept : Keeping(s, S, T, kept)
  BY KeepingExists
<1>6. Filtered(s, S) = kept[len] /\ kept[0] = <<>>
  BY <1>5 DEF Keeping
<1> DEFINE Good(k) == /\ kept[k] \in Seq(T) /\ ToSet(kept[k]) = {s[i] : i \in 1 .. k} \cap S
                      /\ IsInjective(s) => IsInjective(kept[k])
           G == {k \in 0 .. len : Good(k)}
<1>7. Good(0)
  BY <1>1, <1>6 DEF ToSet, IsInjective
<1>8. ASSUME NEW k \in 0 .. len - 1, Good(k) PROVE Good(k + 1)
  <2>1. k + 1 \in 1 .. len /\ s[k + 1] \in T
    BY <1>1
  <2>2. kept[k + 1] = IF s[k + 1] \in S THEN Append(kept[k], s[k + 1]) ELSE kept[k]
    <3>1. k + 1 \in 1 .. len /\ (k + 1) - 1 = k
      BY <1>1
    <3> QED BY <1>5, <3>1 DEF Keeping
  <2>3. {s[i] : i \in 1 .. k + 1} = {s[i] : i \in 1 .. k} \cup {s[k + 1]}
    OBVIOUS
  <2>4. ToSet(Append(kept[k], s[k + 1])) = ToSet(kept[k]) \cup {s[k + 1]}
    BY <1>8, <2>1, AppendSet
  <2>5. ASSUME IsInjective(s) PROVE IsInjective(Append(kept[k], s[k + 1]))
    <3>1. s[k + 1] \notin {s[i] : i \in 1 .. k}
      BY <1>1, <2>1, <2>5 DEF IsInjective
    <3>2. s[k + 1] \notin ToSet(kept[k]) /\ kept[k] \in Seq(T) /\ IsInjective(kept[k])
      BY <1>8, <2>5, <3>1
    <3> DEFINE x == s[k + 1]
               y == kept[k]
    <3>3. x \in T /\ y \in Seq(T) /\ IsInjective(y) /\ x \notin ToSet(y)
      BY <2>1, <3>2
    <3> HIDE DEF x, y
    <3>4. IsInjective(Append(y, x))
      BY <3>3, InjectiveAppend
    <3> QED BY <3>4 DEF x, y
  <2> QED BY <1>8, <2>1, <2>2, <2>3, <2>4, <2>5
<1> HIDE DEF Good
<1>9. 0 .. len \subseteq G
  <2>1. 0 \in G /\ \A k \in 0 .. len - 1 : k \in G => k + 1 \in G
    BY <1>1, <1>7, <1>8
  <2> HIDE DEF G
  <2> QED BY <1>1, <2>1, UpTo
<1>10. Good(len)
  BY <1>1, <1>9
<1>11. {s[i] : i \in 1 .. len} = ToSet(s)
  BY DEF ToSet
<1> QED BY <1>6, <1>10, <1>11 DEF Good

----------------------------------------------------------------------------
(* The context of a query                                                   *)

\* A context being gathered, with what is new in it.
IsGathered(c) ==
  /\ c.context \in Seq(QueryNodes) /\ c.level \in Seq(QueryNodes)
  /\ c = [context |-> c.context, level |-> c.level]
  /\ IsInjective(c.context) /\ Len(c.context) <= MaxNodes
  /\ ToSet(c.context) \subseteq LiveNodes

\* d is c and as much of S as there is room for.
Grown(c, d, S) ==
  /\ IsGathered(d)
  /\ Len(c.context) <= Len(d.context)
  /\ \A i \in DOMAIN c.context : d.context[i] = c.context[i]
  /\ \A i \in DOMAIN d.context : i > Len(c.context) => d.context[i] \in S
  /\ ToSet(d.level) = ToSet(c.level) \cup (ToSet(d.context) \ ToSet(c.context))
  /\ Len(d.context) = MaxNodes \/ S \cap LiveNodes \subseteq ToSet(d.context)

LEMMA GrownNot == ASSUME NEW c, IsGathered(c) PROVE Grown(c, c, {})
<1>1. c.context \in Seq(QueryNodes) /\ Len(c.context) \in Nat /\ DOMAIN c.context = 1 .. Len(c.context)
  BY DEF IsGathered
<1> QED BY <1>1 DEF Grown

LEMMA GrownTwice ==
  ASSUME NEW c, NEW d, NEW e, NEW S, NEW R, IsGathered(c), Grown(c, d, S), Grown(d, e, R)
  PROVE  Grown(c, e, S \cup R)
<1>1. /\ c.context \in Seq(QueryNodes) /\ d.context \in Seq(QueryNodes) /\ e.context \in Seq(QueryNodes)
      /\ IsGathered(d) /\ IsGathered(e)
  BY DEF Grown, IsGathered
<1> DEFINE a == Len(c.context)
           b == Len(d.context)
           z == Len(e.context)
<1>2. /\ a \in Nat /\ b \in Nat /\ z \in Nat /\ a <= b /\ b <= z /\ z <= MaxNodes /\ MaxNodes \in Nat
      /\ DOMAIN c.context = 1 .. a /\ DOMAIN d.context = 1 .. b /\ DOMAIN e.context = 1 .. z
  BY <1>1, QueryAssumption DEF Grown, IsGathered
<1> HIDE DEF a, b, z
<1>3. \A i \in 1 .. a : e.context[i] = c.context[i]
  BY <1>2 DEF Grown
<1>4. ASSUME NEW i \in 1 .. z, i > a PROVE e.context[i] \in S \cup R
  <2>1. CASE i <= b
    BY <1>2, <1>4, <2>1 DEF Grown, a
  <2>2. CASE i > b
    BY <1>2, <2>2 DEF Grown, b
  <2> QED BY <1>2, <2>1, <2>2
<1>5. ToSet(c.context) \subseteq ToSet(d.context) /\ ToSet(d.context) \subseteq ToSet(e.context)
  BY <1>2 DEF Grown, ToSet
<1>6. ToSet(e.level) = ToSet(c.level) \cup (ToSet(e.context) \ ToSet(c.context))
  BY <1>5 DEF Grown
<1>7. z = MaxNodes \/ (S \cup R) \cap LiveNodes \subseteq ToSet(e.context)
  <2>1. b = MaxNodes \/ S \cap LiveNodes \subseteq ToSet(d.context)
    BY DEF Grown, b
  <2>2. z = MaxNodes \/ R \cap LiveNodes \subseteq ToSet(e.context)
    BY DEF Grown, z
  <2> QED BY <1>2, <1>5, <2>1, <2>2
<1> QED BY <1>1, <1>2, <1>3, <1>4, <1>6, <1>7 DEF Grown, a, z

LEMMA AddNodeGrows ==
  ASSUME NEW c, IsGathered(c), NEW n \in QueryNodes
  PROVE  Grown(c, AddNode(c, n), {n})
<1> DEFINE d == AddNode(c, n)
           a == Len(c.context)
<1>1. /\ c.context \in Seq(QueryNodes) /\ c.level \in Seq(QueryNodes) /\ a \in Nat /\ MaxNodes \in Nat
      /\ DOMAIN c.context = 1 .. a /\ a <= MaxNodes
  BY QueryAssumption DEF IsGathered
<1>2. Contains(c.context, n) <=> n \in ToSet(c.context)
  BY <1>1 DEF Contains, ToSet
<1>3. CASE n \in ToSet(c.context) \/ a >= MaxNodes \/ ~ Live(n)
  <2>1. d = c
    BY <1>2, <1>3 DEF AddNode
  <2>2. Grown(c, c, {})
    BY GrownNot
  <2>3. a = MaxNodes \/ {n} \cap LiveNodes \subseteq ToSet(c.context)
    BY <1>1, <1>3 DEF LiveNodes
  <2> QED BY <2>1, <2>2, <2>3 DEF Grown
<1>4. CASE n \notin ToSet(c.context) /\ a < MaxNodes /\ Live(n)
  <2> DEFINE s == Append(c.context, n)
             l == Append(c.level, n)
  <2>1. d = [context |-> s, level |-> l]
    BY <1>1, <1>2, <1>4 DEF AddNode
  <2>2. /\ s \in Seq(QueryNodes) /\ Len(s) = a + 1 /\ DOMAIN s = 1 .. a + 1 /\ s[a + 1] = n
        /\ \A i \in 1 .. a : s[i] = c.context[i]
    BY <1>1
  <2>3. l \in Seq(QueryNodes) /\ ToSet(l) = ToSet(c.level) \cup {n}
    BY <1>1, AppendSet
  <2> HIDE DEF s, l, d, a
  <2>4. ToSet(s) = ToSet(c.context) \cup {n}
    BY <1>1, <2>2 DEF ToSet
  <2>5. IsInjective(s)
    <3>1. \A i \in 1 .. a : c.context[i] # n
      BY <1>1, <1>4 DEF ToSet
    <3>2. \A i, j \in 1 .. a : c.context[i] = c.context[j] => i = j
      BY <1>1 DEF IsGathered, IsInjective
    <3> QED BY <1>1, <2>2, <3>1, <3>2 DEF IsInjective
  <2>6. d.context = s /\ d.level = l /\ d = [context |-> d.context, level |-> d.level]
    BY <2>1
  <2>7. IsGathered(d)
    <3>1. ToSet(s) \subseteq LiveNodes
      BY <1>4, <2>4 DEF IsGathered, LiveNodes
    <3>2. Len(s) <= MaxNodes
      BY <1>1, <1>4, <2>2
    <3> QED BY <2>2, <2>3, <2>5, <2>6, <3>1, <3>2 DEF IsGathered
  <2>8. \A i \in DOMAIN s : i > a => s[i] = n
    BY <1>1, <2>2
  <2>9. ToSet(l) = ToSet(c.level) \cup (ToSet(s) \ ToSet(c.context))
    BY <1>4, <2>3, <2>4
  <2>10. Len(c.context) = a
    BY DEF a
  <2>11. a <= Len(s)
    BY <1>1, <2>2
  <2> QED BY <1>1, <2>2, <2>4, <2>6, <2>7, <2>8, <2>9, <2>10, <2>11 DEF Grown, d
<1> QED BY <1>1, <1>3, <1>4

LEMMA AddedGrows ==
  ASSUME NEW c, IsGathered(c), NEW s \in Seq(QueryNodes)
  PROVE  Grown(c, Added(c, s), ToSet(s))
<1> DEFINE len == Len(s)
           G == {x \in [context : Seq(QueryNodes), level : Seq(QueryNodes)] : IsGathered(x)}
           step == [k \in 1 .. len |-> [x \in G |-> AddNode(x, s[k])]]
           after == CHOOSE f : f = [k \in 0 .. len |-> IF k = 0 THEN c ELSE AddNode(f[k - 1], s[k])]
<1>1. len \in Nat /\ \A k \in 1 .. len : s[k] \in QueryNodes
  OBVIOUS
<1>2. \A x : x \in G <=> IsGathered(x)
  BY DEF IsGathered
<1> HIDE DEF G
<1>3. ASSUME NEW x \in G, NEW k \in 1 .. len PROVE AddNode(x, s[k]) \in G /\ Grown(x, AddNode(x, s[k]), {s[k]})
  <2>1. IsGathered(x) /\ s[k] \in QueryNodes
    BY <1>1, <1>2
  <2>2. Grown(x, AddNode(x, s[k]), {s[k]})
    BY <2>1, AddNodeGrows
  <2> QED BY <1>2, <2>2 DEF Grown
<1>4. step \in [1 .. len -> [G -> G]]
  BY <1>3
<1> HIDE DEF step
<1>5. PICK f : Iterates(G, c, step, len, f)
  BY <1>1, <1>2, <1>4, IterationExists
<1>6. f = [k \in 0 .. len |-> IF k = 0 THEN c ELSE AddNode(f[k - 1], s[k])]
  <2>1. f \in [0 .. len -> G] /\ f[0] = c /\ \A k \in 1 .. len : f[k] = step[k][f[k - 1]]
    BY <1>5 DEF Iterates
  <2>2. ASSUME NEW k \in 1 .. len PROVE f[k] = AddNode(f[k - 1], s[k])
    <3>1. k - 1 \in 0 .. len
      BY <1>1
    <3> QED BY <2>1, <3>1 DEF step
  <2>3. \A k \in 0 .. len : k = 0 \/ k \in 1 .. len
    BY <1>1
  <2>4. \A k \in 0 .. len : f[k] = IF k = 0 THEN c ELSE AddNode(f[k - 1], s[k])
    BY <2>1, <2>2, <2>3, Zenon
  <2> QED BY <2>1, <2>4
<1>7. after = [k \in 0 .. len |-> IF k = 0 THEN c ELSE AddNode(after[k - 1], s[k])]
  BY <1>6
<1>8. Added(c, s) = after[len]
  BY DEF Added
<1> HIDE DEF after
<1> DEFINE Good(k) == Grown(c, after[k], {s[i] : i \in 1 .. k})
           K == {k \in 0 .. len : Good(k)}
<1>9. Good(0)
  <2>1. after[0] = c /\ {s[i] : i \in 1 .. 0} = {}
    BY <1>1, <1>7
  <2> QED BY <2>1, GrownNot
<1>10. ASSUME NEW k \in 0 .. len - 1, Good(k) PROVE Good(k + 1)
  <2>1. k + 1 \in 0 .. len /\ k + 1 \in 1 .. len /\ k + 1 # 0 /\ (k + 1) - 1 = k
    BY <1>1
  <2>2. after[k + 1] = AddNode(after[k], s[k + 1])
    BY <1>7, <2>1
  <2>3. {s[i] : i \in 1 .. k + 1} = {s[i] : i \in 1 .. k} \cup {s[k + 1]}
    OBVIOUS
  <2>4. after[k] \in G
    BY <1>2, <1>10 DEF Grown
  <2>5. Grown(after[k], after[k + 1], {s[k + 1]})
    BY <1>3, <2>1, <2>2, <2>4
  <2> QED BY <1>10, <2>3, <2>5, GrownTwice
<1> HIDE DEF Good
<1>11. 0 .. len \subseteq K
  <2>1. 0 \in K /\ \A k \in 0 .. len - 1 : k \in K => k + 1 \in K
    BY <1>1, <1>9, <1>10
  <2> HIDE DEF K
  <2> QED BY <1>1, <2>1, UpTo
<1>12. Good(len)
  BY <1>1, <1>11
<1>13. {s[i] : i \in 1 .. len} = ToSet(s)
  BY DEF ToSet
<1> QED BY <1>8, <1>12, <1>13 DEF Good

LEMMA ExpandedGrows ==
  ASSUME NEW c, IsGathered(c), NEW n \in QueryNodes, Neighbors(n) \subseteq QueryNodes
  PROVE  Grown(c, Expanded(c, n), Neighbors(n))
<1> DEFINE all == [m \in QueryNodes |-> m]
<1>1. all \in Seq(QueryNodes) /\ ToSet(all) = QueryNodes
  BY QueryAssumption DEF QueryNodes, ToSet
<1> HIDE DEF all
<1>2. /\ Filtered(all, Neighbors(n)) \in Seq(QueryNodes)
      /\ ToSet(Filtered(all, Neighbors(n))) = ToSet(all) \cap Neighbors(n)
  BY <1>1, FilteredIs
<1>3. ToSet(all) \cap Neighbors(n) = Neighbors(n)
  BY <1>1
<1> QED BY <1>2, <1>3, AddedGrows DEF Expanded, all

LEMMA NextLevelGrows ==
  ASSUME NEW c, IsGathered(c), \A n \in QueryNodes : Neighbors(n) \subseteq QueryNodes
  PROVE  Grown([context |-> c.context, level |-> <<>>], NextLevel(c), UNION {Neighbors(n) : n \in ToSet(c.level)})
<1> DEFINE s == c.level
           len == Len(s)
           base == [context |-> c.context, level |-> <<>>]
           G == {x \in [context : Seq(QueryNodes), level : Seq(QueryNodes)] : IsGathered(x)}
           step == [k \in 1 .. len |-> [x \in G |-> Expanded(x, s[k])]]
           after == CHOOSE f : f = [k \in 0 .. len |->
                      IF k = 0 THEN [c EXCEPT !.level = <<>>] ELSE Expanded(f[k - 1], s[k])]
<1>1. len \in Nat /\ \A k \in 1 .. len : s[k] \in QueryNodes
  BY DEF IsGathered
<1>2. [c EXCEPT !.level = <<>>] = base /\ IsGathered(base)
  BY DEF IsGathered
<1>3. \A x : x \in G <=> IsGathered(x)
  BY DEF IsGathered
<1>4. NextLevel(c) = after[len]
  BY DEF NextLevel
<1> HIDE DEF G, base
<1>5. ASSUME NEW x \in G, NEW k \in 1 .. len
      PROVE  Expanded(x, s[k]) \in G /\ Grown(x, Expanded(x, s[k]), Neighbors(s[k]))
  <2>1. IsGathered(x) /\ s[k] \in QueryNodes /\ Neighbors(s[k]) \subseteq QueryNodes
    BY <1>1, <1>3
  <2>2. Grown(x, Expanded(x, s[k]), Neighbors(s[k]))
    BY <2>1, ExpandedGrows
  <2> QED BY <1>3, <2>2 DEF Grown
<1>6. step \in [1 .. len -> [G -> G]]
  BY <1>5
<1> HIDE DEF step
<1>7. PICK f : Iterates(G, base, step, len, f)
  BY <1>1, <1>2, <1>3, <1>6, IterationExists
<1>8. f = [k \in 0 .. len |-> IF k = 0 THEN [c EXCEPT !.level = <<>>] ELSE Expanded(f[k - 1], s[k])]
  <2>1. f \in [0 .. len -> G] /\ f[0] = base /\ \A k \in 1 .. len : f[k] = step[k][f[k - 1]]
    BY <1>7 DEF Iterates
  <2>2. ASSUME NEW k \in 1 .. len PROVE f[k] = Expanded(f[k - 1], s[k])
    <3>1. k - 1 \in 0 .. len
      BY <1>1
    <3> QED BY <2>1, <3>1 DEF step
  <2>3. \A k \in 0 .. len : k = 0 \/ k \in 1 .. len
    BY <1>1
  <2>4. \A k \in 0 .. len : f[k] = IF k = 0 THEN [c EXCEPT !.level = <<>>] ELSE Expanded(f[k - 1], s[k])
    BY <1>2, <2>1, <2>2, <2>3, Zenon
  <2> QED BY <2>1, <2>4
<1>9. after = [k \in 0 .. len |-> IF k = 0 THEN [c EXCEPT !.level = <<>>] ELSE Expanded(after[k - 1], s[k])]
  BY <1>8
<1> HIDE DEF after
<1> DEFINE Near(k) == UNION {Neighbors(s[i]) : i \in 1 .. k}
           Good(k) == Grown(base, after[k], Near(k))
           K == {k \in 0 .. len : Good(k)}
<1>10. Good(0)
  <2>1. after[0] = base /\ Near(0) = {}
    BY <1>1, <1>2, <1>9
  <2> QED BY <1>2, <2>1, GrownNot
<1>11. ASSUME NEW k \in 0 .. len - 1, Good(k) PROVE Good(k + 1)
  <2>1. k + 1 \in 0 .. len /\ k + 1 \in 1 .. len /\ k + 1 # 0 /\ (k + 1) - 1 = k
    BY <1>1
  <2>2. after[k + 1] = Expanded(after[k], s[k + 1])
    BY <1>9, <2>1
  <2>3. Near(k + 1) = Near(k) \cup Neighbors(s[k + 1])
    <3>1. 1 .. k + 1 = (1 .. k) \cup {k + 1}
      OBVIOUS
    <3> QED BY <3>1
  <2> HIDE DEF Near
  <2>4. after[k] \in G
    BY <1>3, <1>11 DEF Grown
  <2>5. Grown(after[k], after[k + 1], Neighbors(s[k + 1]))
    BY <1>5, <2>1, <2>2, <2>4
  <2> QED BY <1>2, <1>11, <2>3, <2>5, GrownTwice
<1> HIDE DEF Good
<1>12. 0 .. len \subseteq K
  <2>1. 0 \in K /\ \A k \in 0 .. len - 1 : k \in K => k + 1 \in K
    BY <1>1, <1>10, <1>11
  <2> HIDE DEF K
  <2> QED BY <1>1, <2>1, UpTo
<1>13. Good(len)
  BY <1>1, <1>12
<1>14. Near(len) = UNION {Neighbors(n) : n \in ToSet(c.level)}
  <2>1. ToSet(c.level) = {s[i] : i \in 1 .. len}
    BY DEF ToSet, IsGathered
  <2> QED BY <2>1
<1> QED BY <1>4, <1>13, <1>14 DEF Good, base

\* W tells what is how near.
IsWithin(W) ==
  /\ \A d \in 0 .. MaxDepth : W[d] \subseteq LiveNodes
  /\ \A d \in 0 .. MaxDepth - 1 : W[d + 1] = W[d] \cup UNION {Neighbors(n) : n \in W[d]}

\* c is what lies within d, as far as there is room, the nearer first.
InBall(d, c, W) ==
  /\ IsGathered(c)
  /\ ToSet(c.context) \subseteq W[d]
  /\ \/ Len(c.context) = MaxNodes
     \/ ToSet(c.context) = W[d] /\ \A n \in W[d] : n \in ToSet(c.level) \/ Neighbors(n) \subseteq W[d]
  /\ ToSet(c.level) \subseteq ToSet(c.context)
  /\ \A i, j \in DOMAIN c.context : i < j =>
       \A e \in 0 .. d : c.context[j] \in W[e] => c.context[i] \in W[e]

LEMMA WithinGrows ==
  ASSUME NEW W, IsWithin(W), NEW d \in 0 .. MaxDepth, NEW e \in 0 .. d
  PROVE  W[e] \subseteq W[d]
<1> DEFINE G == {k \in 0 .. MaxDepth : \A j \in 0 .. k : W[j] \subseteq W[k]}
<1>1. MaxDepth \in Nat
  BY QueryAssumption
<1>2. 0 \in G
  BY <1>1
<1>3. ASSUME NEW k \in 0 .. MaxDepth - 1, k \in G PROVE k + 1 \in G
  <2>1. W[k] \subseteq W[k + 1] /\ k + 1 \in 0 .. MaxDepth
    BY <1>1 DEF IsWithin
  <2>2. \A j \in 0 .. k + 1 : j \in 0 .. k \/ j = k + 1
    OBVIOUS
  <2> QED BY <1>3, <2>1, <2>2
<1> HIDE DEF G
<1>4. 0 .. MaxDepth \subseteq G
  BY <1>1, <1>2, <1>3, UpTo
<1> QED BY <1>1, <1>4 DEF G

LEMMA BallGrows ==
  ASSUME NEW W, IsWithin(W), \A n \in QueryNodes : Neighbors(n) \subseteq LiveNodes,
         NEW d \in 0 .. MaxDepth - 1, NEW c, InBall(d, c, W)
  PROVE  InBall(d + 1, NextLevel(c), W)
<1> DEFINE base == [context |-> c.context, level |-> <<>>]
           near == UNION {Neighbors(n) : n \in ToSet(c.level)}
           x == NextLevel(c)
           a == Len(c.context)
           z == Len(x.context)
<1> SUFFICES InBall(d + 1, x, W)
  OBVIOUS
<1>1. MaxDepth \in Nat /\ MaxNodes \in Nat /\ d \in Nat /\ d \in 0 .. MaxDepth /\ d + 1 \in 0 .. MaxDepth
  BY QueryAssumption
<1>2. IsGathered(c) /\ ToSet(c.level) \subseteq ToSet(c.context) /\ ToSet(c.context) \subseteq W[d]
  BY DEF InBall
<1>3. LiveNodes \subseteq QueryNodes
  BY DEF LiveNodes
<1>4. Grown(base, x, near)
  BY <1>2, <1>3, NextLevelGrows
<1>5. /\ base.context = c.context /\ base.level = <<>> /\ ToSet(base.level) = {}
  BY DEF ToSet
<1> HIDE DEF base
<1>6. IsGathered(x) /\ ToSet(x.level) = ToSet(x.context) \ ToSet(c.context)
  BY <1>4, <1>5 DEF Grown
<1>7. /\ a \in Nat /\ z \in Nat /\ DOMAIN c.context = 1 .. a /\ DOMAIN x.context = 1 .. z
      /\ a <= z /\ z <= MaxNodes
      /\ c.context \in Seq(QueryNodes) /\ x.context \in Seq(QueryNodes)
  BY <1>2, <1>4, <1>5, <1>6 DEF IsGathered, Grown
<1>8. \A i \in 1 .. a : x.context[i] = c.context[i]
  BY <1>4, <1>5, <1>7 DEF Grown
<1>9. \A i \in 1 .. z : i > a => x.context[i] \in near
  BY <1>4, <1>5, <1>7 DEF Grown
<1>nearer. ASSUME NEW i \in 1 .. a, NEW j \in 1 .. a, i < j, NEW e \in 0 .. d, c.context[j] \in W[e]
       PROVE  c.context[i] \in W[e]
  BY <1>7, <1>nearer DEF InBall
<1>10. W[d + 1] = W[d] \cup UNION {Neighbors(n) : n \in W[d]} /\ W[d] \subseteq LiveNodes
  BY <1>1 DEF IsWithin
<1>11. near \subseteq W[d + 1] /\ near \subseteq LiveNodes
  BY <1>2, <1>3, <1>10
<1>12. z = MaxNodes \/ near \subseteq ToSet(x.context)
  BY <1>4, <1>11 DEF Grown
<1> HIDE DEF near, x, a, z
<1>13. ToSet(c.context) \subseteq ToSet(x.context)
  BY <1>7, <1>8 DEF ToSet
<1>14. ToSet(x.context) \subseteq W[d + 1]
  <2> SUFFICES ASSUME NEW i \in 1 .. z PROVE x.context[i] \in W[d + 1]
    BY <1>7 DEF ToSet
  <2>1. CASE i <= a
    <3>1. c.context[i] \in ToSet(c.context)
      BY <1>7, <2>1 DEF ToSet
    <3> QED BY <1>2, <1>7, <1>8, <1>10, <2>1, <3>1
  <2>2. CASE i > a
    BY <1>9, <1>11, <2>2
  <2> QED BY <1>7, <2>1, <2>2
<1>15. CASE a = MaxNodes
  <2>1. z = a
    BY <1>7, <1>15
  <2>2. ASSUME NEW i \in 1 .. z, NEW j \in 1 .. z, i < j, NEW e \in 0 .. d + 1, x.context[j] \in W[e]
        PROVE  x.context[i] \in W[e]
    <3>1. CASE e = d + 1
      BY <1>7, <1>14, <3>1 DEF ToSet
    <3>2. CASE e \in 0 .. d
      BY <1>8, <1>nearer, <2>1, <2>2, <3>2
    <3> QED BY <1>1, <3>1, <3>2
  <2>3. \A i, j \in DOMAIN x.context : i < j =>
          \A e \in 0 .. d + 1 : x.context[j] \in W[e] => x.context[i] \in W[e]
    BY <1>7, <2>2
  <2>4. Len(x.context) = MaxNodes
    BY <1>15, <2>1 DEF z
  <2>5. ToSet(x.level) \subseteq ToSet(x.context)
    BY <1>6
  <2> QED BY <1>6, <1>14, <2>3, <2>4, <2>5 DEF InBall
<1>16. CASE a # MaxNodes
  <2>1. ToSet(c.context) = W[d] /\ \A n \in W[d] : n \in ToSet(c.level) \/ Neighbors(n) \subseteq W[d]
    BY <1>16 DEF InBall, a
  <2>2. W[d + 1] \subseteq W[d] \cup near
    BY <1>10, <2>1 DEF near
  <2>3. z = MaxNodes \/ ToSet(x.context) = W[d + 1]
    BY <1>12, <1>13, <1>14, <2>1, <2>2
  <2>4. ASSUME NEW n \in W[d + 1], ToSet(x.context) = W[d + 1] PROVE n \in ToSet(x.level) \/ Neighbors(n) \subseteq W[d + 1]
    BY <1>6, <1>10, <2>1, <2>4
  <2>5. ASSUME NEW i \in 1 .. z, NEW j \in 1 .. z, i < j, NEW e \in 0 .. d + 1, x.context[j] \in W[e]
        PROVE  x.context[i] \in W[e]
    <3>1. CASE e = d + 1
      BY <1>7, <1>14, <3>1 DEF ToSet
    <3>2. CASE e \in 0 .. d /\ j <= a
      <4>1. i \in 1 .. a /\ j \in 1 .. a
        BY <1>7, <2>5, <3>2
      <4>2. x.context[i] = c.context[i] /\ x.context[j] = c.context[j]
        BY <1>8, <4>1
      <4> QED BY <1>nearer, <2>5, <3>2, <4>1, <4>2
    <3>3. CASE e \in 0 .. d /\ j > a
      <4>1. x.context[j] \in W[d]
        BY <1>1, <2>5, <3>3, WithinGrows
      <4>2. PICK k \in 1 .. a : c.context[k] = x.context[j]
        BY <1>7, <2>1, <4>1 DEF ToSet
      <4>3. x.context[k] = x.context[j] /\ k # j /\ k \in DOMAIN x.context /\ j \in DOMAIN x.context
        BY <1>7, <1>8, <3>3, <4>2
      <4> QED BY <1>6, <4>3 DEF IsGathered, IsInjective
    <3> QED BY <1>1, <1>7, <3>1, <3>2, <3>3
  <2>6. \A i, j \in DOMAIN x.context : i < j =>
          \A e \in 0 .. d + 1 : x.context[j] \in W[e] => x.context[i] \in W[e]
    BY <1>7, <2>5
  <2>7. \/ Len(x.context) = MaxNodes
        \/ ToSet(x.context) = W[d + 1] /\ \A n \in W[d + 1] : n \in ToSet(x.level) \/ Neighbors(n) \subseteq W[d + 1]
    BY <2>3, <2>4 DEF z
  <2>8. ToSet(x.level) \subseteq ToSet(x.context)
    BY <1>6
  <2> QED BY <1>6, <1>14, <2>6, <2>7, <2>8 DEF InBall
<1> QED BY <1>15, <1>16

LEMMA WithinIs ==
  ASSUME NEW S \in SUBSET LiveNodes, \A n \in QueryNodes : Neighbors(n) \subseteq LiveNodes
  PROVE  IsWithin(Within(S)) /\ Within(S)[0] = S
<1> DEFINE D == SUBSET LiveNodes
           next(x) == x \cup UNION {Neighbors(n) : n \in x}
           step == [k \in 1 .. MaxDepth |-> [x \in D |-> next(x)]]
           within == CHOOSE f : f = [k \in 0 .. MaxDepth |->
                       IF k = 0 THEN S ELSE f[k - 1] \cup UNION {Neighbors(n) : n \in f[k - 1]}]
<1>1. MaxDepth \in Nat
  BY QueryAssumption
<1>2. \A x \in D : next(x) \in D
  BY DEF LiveNodes
<1> HIDE DEF D, next
<1>3. step \in [1 .. MaxDepth -> [D -> D]]
  BY <1>2
<1> HIDE DEF step
<1>4. PICK f : Iterates(D, S, step, MaxDepth, f)
  BY <1>1, <1>3, IterationExists DEF D
<1>5. f \in [0 .. MaxDepth -> D] /\ f[0] = S /\ \A k \in 1 .. MaxDepth : f[k] = step[k][f[k - 1]]
  BY <1>4 DEF Iterates
<1>6. ASSUME NEW k \in 1 .. MaxDepth PROVE f[k] = next(f[k - 1])
  <2>1. k - 1 \in 0 .. MaxDepth
    BY <1>1
  <2> QED BY <1>5, <2>1 DEF step
<1>7. f = [k \in 0 .. MaxDepth |-> IF k = 0 THEN S ELSE f[k - 1] \cup UNION {Neighbors(n) : n \in f[k - 1]}]
  <2>1. \A k \in 0 .. MaxDepth : k = 0 \/ k \in 1 .. MaxDepth
    BY <1>1
  <2>2. \A k \in 0 .. MaxDepth : f[k] = IF k = 0 THEN S ELSE f[k - 1] \cup UNION {Neighbors(n) : n \in f[k - 1]}
    BY <1>5, <1>6, <2>1, Zenon DEF next
  <2> QED BY <1>5, <2>2
<1>8. within = [k \in 0 .. MaxDepth |-> IF k = 0 THEN S ELSE within[k - 1] \cup UNION {Neighbors(n) : n \in within[k - 1]}]
  BY <1>7
<1>9. Within(S) = within
  BY DEF Within
<1> HIDE DEF within
<1>10. within[0] = S
  BY <1>1, <1>8
<1>11. ASSUME NEW k \in 0 .. MaxDepth - 1 PROVE within[k + 1] = within[k] \cup UNION {Neighbors(n) : n \in within[k]}
  <2>1. k + 1 \in 0 .. MaxDepth /\ k + 1 # 0 /\ (k + 1) - 1 = k
    BY <1>1
  <2> QED BY <1>8, <2>1
<1> DEFINE K == {k \in 0 .. MaxDepth : within[k] \subseteq LiveNodes}
<1>12. 0 .. MaxDepth \subseteq K
  <2>1. 0 \in K /\ \A k \in 0 .. MaxDepth - 1 : k \in K => k + 1 \in K
    BY <1>1, <1>10, <1>11 DEF LiveNodes
  <2> HIDE DEF K
  <2> QED BY <1>1, <2>1, UpTo
<1> QED BY <1>9, <1>10, <1>11, <1>12 DEF IsWithin

LEMMA ContextIs ==
  ASSUME NEW s \in Seq(QueryNodes), \A n \in QueryNodes : Neighbors(n) \subseteq LiveNodes
  PROVE  LET W == Within(ToSet(s) \cap LiveNodes)
         IN IsWithin(W) /\ \E c : AssembleContext(s) = c.context /\ InBall(MaxDepth, c, W)
<1> DEFINE W == Within(ToSet(s) \cap LiveNodes)
           none == [context |-> <<>>, level |-> <<>>]
           G == {x \in [context : Seq(QueryNodes), level : Seq(QueryNodes)] : IsGathered(x)}
           step == [k \in 1 .. MaxDepth |-> [x \in G |-> NextLevel(x)]]
           levels == CHOOSE f : f = [d \in 0 .. MaxDepth |-> IF d = 0 THEN Added(none, s) ELSE NextLevel(f[d - 1])]
<1>1. MaxDepth \in Nat /\ MaxNodes \in Nat /\ LiveNodes \subseteq QueryNodes
  BY QueryAssumption DEF LiveNodes
<1>2. IsWithin(W) /\ W[0] = ToSet(s) \cap LiveNodes
  BY WithinIs
<1>3. IsGathered(none) /\ none.context = <<>> /\ none.level = <<>>
  BY <1>1 DEF IsGathered, IsInjective, ToSet
<1>4. AssembleContext(s) = levels[MaxDepth].context
  BY DEF AssembleContext
<1>5. \A x : x \in G <=> IsGathered(x)
  BY DEF IsGathered
<1> HIDE DEF G, none, W
<1>6. ASSUME NEW x \in G PROVE NextLevel(x) \in G
  <2>1. IsGathered(x)
    BY <1>5
  <2>2. \A n \in QueryNodes : Neighbors(n) \subseteq QueryNodes
    BY <1>1
  <2>3. IsGathered(NextLevel(x))
    BY <2>1, <2>2, NextLevelGrows DEF Grown
  <2> QED BY <1>5, <2>3
<1>7. Grown(none, Added(none, s), ToSet(s)) /\ Added(none, s) \in G
  <2>1. Grown(none, Added(none, s), ToSet(s))
    BY <1>3, AddedGrows
  <2> QED BY <1>5, <2>1 DEF Grown
<1>8. step \in [1 .. MaxDepth -> [G -> G]]
  BY <1>6
<1> HIDE DEF step
<1>9. PICK f : Iterates(G, Added(none, s), step, MaxDepth, f)
  BY <1>1, <1>7, <1>8, IterationExists
<1>10. f = [d \in 0 .. MaxDepth |-> IF d = 0 THEN Added(none, s) ELSE NextLevel(f[d - 1])]
  <2>1. f \in [0 .. MaxDepth -> G] /\ f[0] = Added(none, s) /\ \A k \in 1 .. MaxDepth : f[k] = step[k][f[k - 1]]
    BY <1>9 DEF Iterates
  <2>2. ASSUME NEW k \in 1 .. MaxDepth PROVE f[k] = NextLevel(f[k - 1])
    <3>1. k - 1 \in 0 .. MaxDepth
      BY <1>1
    <3> QED BY <2>1, <3>1 DEF step
  <2>3. \A k \in 0 .. MaxDepth : k = 0 \/ k \in 1 .. MaxDepth
    BY <1>1
  <2>4. \A k \in 0 .. MaxDepth : f[k] = IF k = 0 THEN Added(none, s) ELSE NextLevel(f[k - 1])
    BY <2>1, <2>2, <2>3, Zenon
  <2> QED BY <2>1, <2>4
<1>11. levels = [d \in 0 .. MaxDepth |-> IF d = 0 THEN Added(none, s) ELSE NextLevel(levels[d - 1])]
  BY <1>10
<1> HIDE DEF levels
<1> DEFINE Good(k) == InBall(k, levels[k], W)
           K == {k \in 0 .. MaxDepth : Good(k)}
<1>12. Good(0)
  <2> DEFINE x == levels[0]
  <2>1. x = Added(none, s)
    BY <1>1, <1>11
  <2>2. Grown(none, x, ToSet(s))
    BY <1>7, <2>1
  <2> HIDE DEF x
  <2>3. IsGathered(x) /\ x.context \in Seq(QueryNodes) /\ DOMAIN x.context = 1 .. Len(x.context)
        /\ ToSet(x.context) \subseteq LiveNodes
    BY <2>2 DEF Grown, IsGathered
  <2>4. Len(none.context) = 0 /\ ToSet(none.context) = {} /\ ToSet(none.level) = {}
    BY <1>3 DEF ToSet
  <2>5. \A i \in DOMAIN x.context : x.context[i] \in ToSet(s)
    BY <2>2, <2>3, <2>4 DEF Grown
  <2>6. ToSet(x.context) \subseteq W[0]
    BY <1>2, <2>3, <2>5 DEF ToSet
  <2>7. ToSet(x.level) = ToSet(x.context)
    BY <2>2, <2>4 DEF Grown
  <2>8. Len(x.context) = MaxNodes \/ W[0] \subseteq ToSet(x.context)
    BY <1>2, <2>2 DEF Grown
  <2>9. \/ Len(x.context) = MaxNodes
        \/ ToSet(x.context) = W[0] /\ \A n \in W[0] : n \in ToSet(x.level) \/ Neighbors(n) \subseteq W[0]
    BY <2>6, <2>7, <2>8
  <2>10. \A i, j \in DOMAIN x.context : i < j =>
           \A e \in 0 .. 0 : x.context[j] \in W[e] => x.context[i] \in W[e]
    BY <2>6 DEF ToSet
  <2> QED BY <2>3, <2>6, <2>7, <2>9, <2>10 DEF InBall, x
<1>13. ASSUME NEW k \in 0 .. MaxDepth - 1, Good(k) PROVE Good(k + 1)
  <2>1. k + 1 \in 0 .. MaxDepth /\ k + 1 # 0 /\ (k + 1) - 1 = k
    BY <1>1
  <2>2. levels[k + 1] = NextLevel(levels[k])
    BY <1>11, <2>1
  <2> QED BY <1>2, <1>13, <2>2, BallGrows
<1> HIDE DEF Good
<1>14. 0 .. MaxDepth \subseteq K
  <2>1. 0 \in K /\ \A k \in 0 .. MaxDepth - 1 : k \in K => k + 1 \in K
    BY <1>1, <1>12, <1>13
  <2> HIDE DEF K
  <2> QED BY <1>1, <2>1, UpTo
<1>15. Good(MaxDepth)
  BY <1>1, <1>14
<1> QED BY <1>2, <1>4, <1>15 DEF Good, W

LEMMA InjectiveCount ==
  ASSUME NEW T, NEW s \in Seq(T), IsInjective(s)
  PROVE  IsFiniteSet(ToSet(s)) /\ Cardinality(ToSet(s)) = Len(s)
<1>1. Len(s) \in Nat /\ s \in [1 .. Len(s) -> ToSet(s)]
  BY DEF ToSet
<1>2. IsFiniteSet(1 .. Len(s)) /\ Cardinality(1 .. Len(s)) = Len(s)
  <2>1. 1 \in Int /\ Len(s) \in Int
    BY <1>1
  <2>2. IsFiniteSet(1 .. Len(s)) /\ Cardinality(1 .. Len(s)) = IF 1 > Len(s) THEN 0 ELSE Len(s) - 1 + 1
    BY <2>1, FS_Interval, Zenon
  <2> QED BY <1>1, <2>2
<1>3. s \in Surjection(1 .. Len(s), ToSet(s)) /\ s \in Injection(1 .. Len(s), ToSet(s))
  BY <1>1 DEF Surjection, Injection, IsInjective, ToSet
<1> QED BY <1>2, <1>3, FS_Surjection

\* The context that is assembled around s is what lies within MaxDepth, as ContextIsBall says it.
LEMMA BallIs ==
  ASSUME NEW s \in Seq(QueryNodes), \A n \in QueryNodes : Neighbors(n) \subseteq LiveNodes
  PROVE  IsBall(AssembleContext(s), Within(ToSet(s) \cap LiveNodes)) /\ ToSet(AssembleContext(s)) \subseteq LiveNodes
<1> DEFINE W == Within(ToSet(s) \cap LiveNodes)
           far(n) == CHOOSE d \in 0..MaxDepth : n \in W[d] /\ \A c \in 0..d - 1 : n \notin W[c]
           x == AssembleContext(s)
<1>1. PICK c : x = c.context /\ InBall(MaxDepth, c, W)
  BY ContextIs
<1>2. IsWithin(W)
  BY ContextIs
<1>3. MaxDepth \in Nat /\ MaxNodes \in Nat /\ NodeCount \in Nat /\ MaxDepth \in 0 .. MaxDepth
  BY QueryAssumption
<1> HIDE DEF W, x
<1>4. x \in Seq(QueryNodes) /\ IsInjective(x) /\ Len(x) <= MaxNodes /\ ToSet(x) \subseteq LiveNodes
  BY <1>1 DEF InBall, IsGathered
<1>5. ToSet(x) \subseteq W[MaxDepth] /\ (Len(x) = MaxNodes \/ ToSet(x) = W[MaxDepth])
  BY <1>1 DEF InBall
<1>6. IsFiniteSet(ToSet(x)) /\ Cardinality(ToSet(x)) = Len(x)
  BY <1>4, InjectiveCount
<1>7. IsFiniteSet(W[MaxDepth]) /\ Cardinality(W[MaxDepth]) \in Nat /\ Len(x) <= Cardinality(W[MaxDepth])
  <2>1. W[MaxDepth] \subseteq 1 .. NodeCount
    BY <1>2, <1>3 DEF IsWithin, LiveNodes, QueryNodes
  <2>2. IsFiniteSet(1 .. NodeCount)
    BY <1>3, FS_Interval
  <2>3. IsFiniteSet(W[MaxDepth])
    BY <2>1, <2>2, FS_Subset
  <2> QED BY <1>5, <1>6, <2>3, FS_Subset, FS_CardinalityType
<1>8. Len(x) = IF Cardinality(W[MaxDepth]) <= MaxNodes THEN Cardinality(W[MaxDepth]) ELSE MaxNodes
  <2>1. Len(x) \in Nat
    BY <1>4
  <2>2. Len(x) = MaxNodes \/ Len(x) = Cardinality(W[MaxDepth])
    BY <1>5, <1>6
  <2> QED BY <1>3, <1>4, <1>7, <2>1, <2>2
<1>9. ASSUME NEW n \in W[MaxDepth]
      PROVE  far(n) \in 0 .. MaxDepth /\ n \in W[far(n)] /\ \A c1 \in 0 .. far(n) - 1 : n \notin W[c1]
  <2> DEFINE at == {d \in 0 .. MaxDepth : n \in W[d]}
  <2>1. at # {} /\ at \in SUBSET Nat
    BY <1>3
  <2> HIDE DEF at
  <2>2. PICK d \in at : \A e \in at : d <= e
    BY <2>1, LeastOf
  <2>3. d \in 0 .. MaxDepth /\ n \in W[d] /\ \A c1 \in 0 .. d - 1 : n \notin W[c1]
    BY <1>3, <2>2 DEF at
  <2> QED BY <2>3
<1>10. ASSUME NEW i \in DOMAIN x, NEW j \in DOMAIN x, i < j PROVE far(x[i]) <= far(x[j])
  <2>1. x[i] \in W[MaxDepth] /\ x[j] \in W[MaxDepth]
    BY <1>5 DEF ToSet
  <2> DEFINE a == far(x[i])
             b == far(x[j])
  <2>2. b \in 0 .. MaxDepth /\ x[j] \in W[b]
    BY <1>9, <2>1
  <2>3. a \in 0 .. MaxDepth /\ \A e \in 0 .. a - 1 : x[i] \notin W[e]
    BY <1>9, <2>1
  <2> HIDE DEF a, b, far
  <2>4. x[i] \in W[b]
    BY <1>1, <1>10, <2>2 DEF InBall
  <2>5. a <= b
    BY <1>3, <2>2, <2>3, <2>4
  <2> QED BY <2>5 DEF a, b
<1>11. IsBall(x, W)
  BY <1>5, <1>6, <1>8, <1>10 DEF IsBall
<1> QED BY <1>4, <1>11 DEF x, W

----------------------------------------------------------------------------
(* The walk along references                                                *)

LEMMA GraphGives ==
  ASSUME IsGraph(graph)
  PROVE  /\ \A n \in QueryNodes : Neighbors(n) \subseteq LiveNodes
         /\ \A n \in QueryNodes : Onward(n) \in QueryNodes
         /\ \A n \in QueryNodes : Ways(n) # {} =>
              /\ Way(n).target \in QueryNodes /\ Way(n).target # n
              /\ Way(n).state \notin {"BROKEN", "STALE"} => Onward(n) = Way(n).target
<1>1. \A e \in ToSet(graph.links) : {e.source, e.target} \subseteq LiveNodes /\ e.source # e.target
  BY DEF IsGraph, LiveNodes, Live
<1>2. \A n \in QueryNodes : Neighbors(n) \subseteq LiveNodes
  BY <1>1 DEF Neighbors
<1>3. ASSUME NEW n \in QueryNodes, Ways(n) # {} PROVE Way(n) \in ToSet(graph.links) /\ Way(n).source = n
  <2>1. Ways(n) \in SUBSET Nat
    BY DEF Ways, IsGraph
  <2>2. PICK i \in Ways(n) : \A j \in Ways(n) : i <= j
    BY <1>3, <2>1, LeastOf
  <2>3. (CHOOSE k \in Ways(n) : \A j \in Ways(n) : k <= j) \in Ways(n)
    BY <2>2
  <2> QED BY <2>3 DEF Way, Ways, ToSet
<1>4. LiveNodes \subseteq QueryNodes
  BY DEF LiveNodes
<1> QED BY <1>1, <1>2, <1>3, <1>4 DEF Onward

LEMMA WayFromIs ==
  ASSUME \A m \in QueryNodes : Onward(m) \in QueryNodes, NEW n \in QueryNodes
  PROVE  /\ WayFrom(n) \in [0 .. NodeCount -> QueryNodes] /\ WayFrom(n)[0] = n
         /\ \A k \in 0 .. NodeCount - 1 : WayFrom(n)[k + 1] = Onward(WayFrom(n)[k])
<1> DEFINE step == [k \in 1 .. NodeCount |-> [m \in QueryNodes |-> Onward(m)]]
           way == CHOOSE f : f = [i \in 0 .. NodeCount |-> IF i = 0 THEN n ELSE Onward(f[i - 1])]
<1>1. NodeCount \in Nat
  BY QueryAssumption
<1>2. step \in [1 .. NodeCount -> [QueryNodes -> QueryNodes]]
  OBVIOUS
<1> HIDE DEF step
<1>3. PICK f : Iterates(QueryNodes, n, step, NodeCount, f)
  BY <1>1, <1>2, IterationExists
<1>4. f \in [0 .. NodeCount -> QueryNodes] /\ f[0] = n /\ \A k \in 1 .. NodeCount : f[k] = step[k][f[k - 1]]
  BY <1>3 DEF Iterates
<1>5. ASSUME NEW k \in 1 .. NodeCount PROVE f[k] = Onward(f[k - 1])
  <2>1. k - 1 \in 0 .. NodeCount
    BY <1>1
  <2> QED BY <1>4, <2>1 DEF step
<1>6. f = [i \in 0 .. NodeCount |-> IF i = 0 THEN n ELSE Onward(f[i - 1])]
  <2>1. \A k \in 0 .. NodeCount : k = 0 \/ k \in 1 .. NodeCount
    BY <1>1
  <2>2. \A k \in 0 .. NodeCount : f[k] = IF k = 0 THEN n ELSE Onward(f[k - 1])
    BY <1>4, <1>5, <2>1, Zenon
  <2> QED BY <1>4, <2>2
<1>7. way = [i \in 0 .. NodeCount |-> IF i = 0 THEN n ELSE Onward(way[i - 1])]
  BY <1>6
<1>8. WayFrom(n) = way
  BY DEF WayFrom
<1> HIDE DEF way
<1>9. way[0] = n
  BY <1>1, <1>7
<1>10. ASSUME NEW k \in 0 .. NodeCount - 1 PROVE way[k + 1] = Onward(way[k])
  <2>1. k + 1 \in 0 .. NodeCount /\ k + 1 # 0 /\ (k + 1) - 1 = k
    BY <1>1
  <2> QED BY <1>7, <2>1
<1> DEFINE K == {k \in 0 .. NodeCount : way[k] \in QueryNodes}
<1>11. 0 .. NodeCount \subseteq K
  <2>1. 0 \in K /\ \A k \in 0 .. NodeCount - 1 : k \in K => k + 1 \in K
    BY <1>1, <1>9, <1>10
  <2> HIDE DEF K
  <2> QED BY <1>1, <2>1, UpTo
<1>12. way \in [0 .. NodeCount -> QueryNodes]
  BY <1>7, <1>11
<1> QED BY <1>8, <1>9, <1>10, <1>12

\* A way from n over nodes of its own.
IsPath(path, n) ==
  /\ path \in Seq(QueryNodes) /\ path # <<>> /\ path[1] = n /\ IsInjective(path)
  /\ \A i \in 1 .. Len(path) - 1 : path[i + 1] = Onward(path[i])

\* No node comes twice, so there is a moment for each.
LEMMA PathLength ==
  ASSUME NEW path \in Seq(QueryNodes), IsInjective(path)
  PROVE  Len(path) <= NodeCount
<1>1. NodeCount \in Nat /\ IsFiniteSet(QueryNodes) /\ Cardinality(QueryNodes) = NodeCount
  <2>1. NodeCount \in Nat
    BY QueryAssumption
  <2> QED BY <2>1, FS_Interval DEF QueryNodes
<1>2. ToSet(path) \subseteq QueryNodes
  BY DEF ToSet
<1>3. Cardinality(ToSet(path)) <= Cardinality(QueryNodes)
  BY <1>1, <1>2, FS_Subset
<1> QED BY <1>1, <1>3, InjectiveCount

LEMMA PathIsWay ==
  ASSUME \A m \in QueryNodes : Onward(m) \in QueryNodes, NEW n \in QueryNodes, NEW path, IsPath(path, n)
  PROVE  \A i \in 1 .. Len(path) : i - 1 \in 0 .. NodeCount - 1 /\ WayFrom(n)[i - 1] = path[i]
<1> DEFINE len == Len(path)
           w == WayFrom(n)
           G == {k \in 0 .. len - 1 : w[k] = path[k + 1]}
<1>1. len \in Nat /\ len # 0 /\ NodeCount \in Nat /\ len <= NodeCount
  BY PathLength, QueryAssumption DEF IsPath
<1>2. w[0] = n /\ \A k \in 0 .. NodeCount - 1 : w[k + 1] = Onward(w[k])
  BY WayFromIs
<1> HIDE DEF w
<1>3. 0 \in G
  BY <1>1, <1>2 DEF IsPath
<1>4. ASSUME NEW k \in 0 .. (len - 1) - 1, k \in G PROVE k + 1 \in G
  <2>1. k + 1 \in 1 .. len - 1 /\ k \in 0 .. NodeCount - 1 /\ k + 1 \in 0 .. len - 1
    BY <1>1
  <2>2. w[k + 1] = Onward(path[k + 1])
    BY <1>2, <1>4, <2>1
  <2>3. path[(k + 1) + 1] = Onward(path[k + 1])
    BY <2>1 DEF IsPath
  <2> QED BY <2>1, <2>2, <2>3
<1> HIDE DEF G
<1>5. 0 .. len - 1 \subseteq G
  <2>1. len - 1 \in Nat
    BY <1>1
  <2> QED BY <2>1, <1>3, <1>4, UpTo
<1>6. ASSUME NEW i \in 1 .. len PROVE i - 1 \in 0 .. NodeCount - 1 /\ w[i - 1] = path[i]
  <2>1. i - 1 \in 0 .. len - 1 /\ i - 1 \in 0 .. NodeCount - 1 /\ (i - 1) + 1 = i
    BY <1>1
  <2> QED BY <1>5, <2>1 DEF G
<1> QED BY <1>6 DEF w

\* A path from whose end the walk goes to one of its nodes is all of the way.
LEMMA WayStays ==
  ASSUME \A m \in QueryNodes : Onward(m) \in QueryNodes, NEW n \in QueryNodes, NEW path, IsPath(path, n),
         Onward(path[Len(path)]) \in ToSet(path)
  PROVE  \A i \in 0 .. NodeCount : WayFrom(n)[i] \in ToSet(path)
<1> DEFINE w == WayFrom(n)
           len == Len(path)
           G == {k \in 0 .. NodeCount : w[k] \in ToSet(path)}
<1>1. NodeCount \in Nat /\ len \in Nat /\ len # 0 /\ path \in Seq(QueryNodes)
  BY QueryAssumption DEF IsPath
<1>2. w[0] = n /\ \A k \in 0 .. NodeCount - 1 : w[k + 1] = Onward(w[k])
  BY WayFromIs
<1> HIDE DEF w
<1>3. 0 \in G
  BY <1>1, <1>2 DEF IsPath, ToSet
<1>4. ASSUME NEW m \in ToSet(path) PROVE Onward(m) \in ToSet(path)
  <2>1. PICK i \in 1 .. len : path[i] = m
    BY <1>1 DEF ToSet
  <2>2. CASE i = len
    BY <2>1, <2>2
  <2>3. CASE i # len
    <3>1. i \in 1 .. len - 1 /\ i + 1 \in 1 .. len
      BY <1>1, <2>3
    <3>2. path[i + 1] = Onward(m)
      BY <2>1, <3>1 DEF IsPath
    <3> QED BY <1>1, <3>1, <3>2 DEF ToSet
  <2> QED BY <2>2, <2>3
<1>5. ASSUME NEW k \in 0 .. NodeCount - 1, k \in G PROVE k + 1 \in G
  BY <1>1, <1>2, <1>4, <1>5
<1> HIDE DEF G
<1>6. 0 .. NodeCount \subseteq G
  BY <1>1, <1>3, <1>5, UpTo
<1> QED BY <1>6 DEF G, w

LEMMA PathEnds ==
  ASSUME \A m \in QueryNodes : Onward(m) \in QueryNodes, NEW n \in QueryNodes, NEW path, IsPath(path, n),
         Onward(path[Len(path)]) = path[Len(path)]
  PROVE  ~ Circles(n) /\ \A i \in 0 .. NodeCount : WayFrom(n)[i] \in ToSet(path)
<1> DEFINE w == WayFrom(n)
           len == Len(path)
           last == path[len]
           K == {k \in 0 .. NodeCount - (len - 1) : w[(len - 1) + k] = last}
<1>1. NodeCount \in Nat /\ len \in Nat /\ len # 0 /\ len <= NodeCount /\ path \in Seq(QueryNodes)
  BY QueryAssumption, PathLength DEF IsPath
<1>2. \A k \in 0 .. NodeCount - 1 : w[k + 1] = Onward(w[k])
  BY WayFromIs
<1>3. last \in ToSet(path)
  BY <1>1 DEF ToSet
<1>4. \A i \in 0 .. NodeCount : w[i] \in ToSet(path)
  BY <1>3, WayStays
<1>5. w[len - 1] = last
  BY <1>1, PathIsWay
<1> HIDE DEF w, last
<1>6. 0 \in K
  BY <1>1, <1>5
<1>7. ASSUME NEW k \in 0 .. (NodeCount - (len - 1)) - 1, k \in K PROVE k + 1 \in K
  <2>1. (len - 1) + k \in 0 .. NodeCount - 1 /\ k + 1 \in 0 .. NodeCount - (len - 1)
        /\ ((len - 1) + k) + 1 = (len - 1) + (k + 1)
    BY <1>1
  <2>2. w[((len - 1) + k) + 1] = Onward(last)
    BY <1>2, <1>7, <2>1
  <2>3. Onward(last) = last
    BY DEF last
  <2> QED BY <2>1, <2>2, <2>3
<1> HIDE DEF K
<1>8. 0 .. NodeCount - (len - 1) \subseteq K
  <2>1. NodeCount - (len - 1) \in Nat
    BY <1>1
  <2> QED BY <2>1, <1>6, <1>7, UpTo
<1>9. w[NodeCount] = last
  <2>1. NodeCount - (len - 1) \in 0 .. NodeCount - (len - 1) /\ (len - 1) + (NodeCount - (len - 1)) = NodeCount
    BY <1>1
  <2>2. NodeCount - (len - 1) \in K
    BY <1>8, <2>1
  <2> QED BY <2>1, <2>2 DEF K
<1> QED BY <1>4, <1>9 DEF Circles, w, last

LEMMA PathCircles ==
  ASSUME \A m \in QueryNodes : Onward(m) \in QueryNodes, NEW n \in QueryNodes, NEW path, IsPath(path, n),
         Onward(path[Len(path)]) \in ToSet(path), Onward(path[Len(path)]) # path[Len(path)]
  PROVE  Circles(n)
<1> DEFINE len == Len(path)
           m == WayFrom(n)[NodeCount]
<1>1. NodeCount \in Nat /\ len \in Nat /\ len # 0 /\ path \in Seq(QueryNodes) /\ DOMAIN path = 1 .. len
  BY QueryAssumption DEF IsPath
<1>2. m \in ToSet(path)
  BY <1>1, WayStays
<1> HIDE DEF m
<1>3. PICK i \in 1 .. len : path[i] = m
  BY <1>1, <1>2 DEF ToSet
<1>4. CASE i = len
  BY <1>3, <1>4 DEF Circles, m
<1>5. CASE i # len
  <2>1. i \in 1 .. len - 1 /\ i + 1 \in DOMAIN path /\ i \in DOMAIN path /\ i + 1 # i
    <3>1. len \in Nat
      BY <1>1
    <3> HIDE DEF len
    <3>2. i \in Nat /\ i + 1 # i /\ i \in 1 .. len - 1 /\ i + 1 \in 1 .. len
      BY <1>5, <3>1
    <3> QED BY <1>1, <3>2
  <2>2. path[i + 1] = Onward(m)
    BY <1>3, <2>1 DEF IsPath
  <2>3. path[i + 1] # path[i]
    BY <2>1 DEF IsPath, IsInjective
  <2> QED BY <1>3, <2>2, <2>3 DEF Circles, m
<1> QED BY <1>4, <1>5

LEMMA PathFurther ==
  ASSUME NEW n, NEW path, IsPath(path, n), NEW t \in QueryNodes, t = Onward(path[Len(path)]), t \notin ToSet(path)
  PROVE  IsPath(Append(path, t), n) /\ ToSet(Append(path, t)) = ToSet(path) \cup {t}
<1> DEFINE a == Append(path, t)
           len == Len(path)
<1>1. path \in Seq(QueryNodes) /\ len \in Nat /\ len # 0 /\ DOMAIN path = 1 .. len
  BY DEF IsPath
<1>2. /\ a \in Seq(QueryNodes) /\ Len(a) = len + 1 /\ DOMAIN a = 1 .. len + 1 /\ a[len + 1] = t
      /\ \A i \in 1 .. len : a[i] = path[i]
  BY <1>1
<1>3. ToSet(a) = ToSet(path) \cup {t}
  BY <1>1, AppendSet
<1> HIDE DEF a, len
<1>4. IsInjective(a)
  <2>1. \A i \in 1 .. len : path[i] # t
    BY <1>1 DEF ToSet
  <2>2. \A i, j \in 1 .. len : path[i] = path[j] => i = j
    BY <1>1 DEF IsPath, IsInjective
  <2> QED BY <1>1, <1>2, <2>1, <2>2 DEF IsInjective
<1>5. ASSUME NEW i \in 1 .. Len(a) - 1 PROVE a[i + 1] = Onward(a[i])
  <2>1. CASE i = len
    BY <1>1, <1>2, <2>1 DEF len
  <2>2. CASE i # len
    <3>1. i \in 1 .. len - 1 /\ i \in 1 .. len /\ i + 1 \in 1 .. len
      BY <1>1, <1>2, <2>2
    <3> QED BY <1>2, <3>1 DEF IsPath, len
  <2> QED BY <2>1, <2>2
<1>6. a # <<>> /\ a[1] = n
  BY <1>1, <1>2 DEF IsPath
<1>7. IsPath(a, n)
  BY <1>2, <1>4, <1>5, <1>6 DEF IsPath
<1> QED BY <1>3, <1>7 DEF a

\* The fields of a walk.
IsWalk(w) ==
  /\ w = [seeds |-> w.seeds, path |-> w.path, resolved |-> w.resolved,
          targets |-> w.targets, trace |-> w.trace, blockedBy |-> w.blockedBy]
  /\ w.seeds \in Seq(QueryNodes) /\ w.path \in Seq(QueryNodes) /\ w.targets \in Seq(QueryNodes)
  /\ w.resolved \in BOOLEAN

LEMMA WithTrace ==
  ASSUME NEW w, IsWalk(w), NEW x, NEW v, v = [w EXCEPT !.trace = x]
  PROVE  IsWalk(v) /\ v.seeds = w.seeds /\ v.path = w.path /\ v.resolved = w.resolved /\ v.targets = w.targets
<1>1. v = [seeds |-> w.seeds, path |-> w.path, resolved |-> w.resolved, targets |-> w.targets, trace |-> x, blockedBy |-> w.blockedBy]
  BY DEF IsWalk
<1> QED BY <1>1 DEF IsWalk

LEMMA WithBlocked ==
  ASSUME NEW w, IsWalk(w), NEW x, NEW v, v = [w EXCEPT !.blockedBy = x]
  PROVE  IsWalk(v) /\ v.seeds = w.seeds /\ v.path = w.path /\ v.resolved = w.resolved /\ v.targets = w.targets
<1>1. v = [seeds |-> w.seeds, path |-> w.path, resolved |-> w.resolved, targets |-> w.targets, trace |-> w.trace, blockedBy |-> x]
  BY DEF IsWalk
<1> QED BY <1>1 DEF IsWalk

LEMMA WithTargets ==
  ASSUME NEW w, IsWalk(w), NEW x, NEW v, v = [w EXCEPT !.targets = x]
  PROVE  v = [seeds |-> w.seeds, path |-> w.path, resolved |-> w.resolved, targets |-> x, trace |-> w.trace, blockedBy |-> w.blockedBy]
BY DEF IsWalk

LEMMA ComeToIs ==
  ASSUME NEW w, IsWalk(w), NEW n \in QueryNodes, IsInjective(w.targets)
  PROVE  LET v == ComeTo(w, n)
         IN /\ IsWalk(v) /\ v.seeds = w.seeds /\ v.path = w.path /\ IsInjective(v.targets)
            /\ ToSet(v.targets) = ToSet(w.targets) \cup (IF IsTarget(n) THEN {n} ELSE {})
            /\ v.resolved = (w.resolved \/ IsTarget(n))
<1>1. CASE ~ IsTarget(n)
  <2>1. ComeTo(w, n) = w
    BY <1>1 DEF ComeTo
  <2>2. w.resolved = (w.resolved \/ IsTarget(n))
    BY <1>1, Zenon DEF IsWalk
  <2>3. ToSet(w.targets) = ToSet(w.targets) \cup (IF IsTarget(n) THEN {n} ELSE {})
    BY <1>1
  <2> QED BY <2>1, <2>2, <2>3
<1>2. CASE IsTarget(n)
  <2> DEFINE t == IF Contains(w.targets, n) THEN w.targets ELSE Append(w.targets, n)
             u == [w EXCEPT !.targets = t]
             v == ComeTo(w, n)
  <2>1. w.targets \in Seq(QueryNodes)
    BY DEF IsWalk
  <2>2. Contains(w.targets, n) <=> n \in ToSet(w.targets)
    BY <2>1 DEF Contains, ToSet
  <2>3. t \in Seq(QueryNodes) /\ IsInjective(t) /\ ToSet(t) = ToSet(w.targets) \cup {n}
    <3>1. CASE n \in ToSet(w.targets)
      BY <2>1, <2>2, <3>1
    <3>2. CASE n \notin ToSet(w.targets)
      <4> DEFINE a == Append(w.targets, n)
                 len == Len(w.targets)
      <4>1. t = a /\ ToSet(a) = ToSet(w.targets) \cup {n}
        BY <2>1, <2>2, <3>2, AppendSet
      <4>2. /\ a \in Seq(QueryNodes) /\ len \in Nat /\ DOMAIN a = 1 .. len + 1 /\ a[len + 1] = n
            /\ \A i \in 1 .. len : a[i] = w.targets[i]
        BY <2>1
      <4>3. \A i \in 1 .. len : w.targets[i] # n
        BY <2>1, <3>2 DEF ToSet
      <4>4. \A i, j \in 1 .. len : w.targets[i] = w.targets[j] => i = j
        BY <2>1 DEF IsInjective
      <4> HIDE DEF a, len
      <4>5. IsInjective(a)
        BY <4>2, <4>3, <4>4 DEF IsInjective
      <4> QED BY <4>1, <4>2, <4>5 DEF a
    <3> QED BY <3>1, <3>2
  <2>4. v = [w EXCEPT !.targets = t, !.resolved = TRUE]
    BY <1>2 DEF ComeTo
  <2>5. v = [u EXCEPT !.resolved = TRUE]
    BY <2>4
  <2> HIDE DEF t, v
  <2>6. u = [seeds |-> w.seeds, path |-> w.path, resolved |-> w.resolved,
             targets |-> t, trace |-> w.trace, blockedBy |-> w.blockedBy]
    BY WithTargets
  <2> HIDE DEF u
  <2>7. v = [seeds |-> w.seeds, path |-> w.path, resolved |-> TRUE,
             targets |-> t, trace |-> w.trace, blockedBy |-> w.blockedBy]
    BY <2>5, <2>6
  <2>8. IsWalk(v) /\ v.seeds = w.seeds /\ v.path = w.path /\ v.targets = t /\ v.resolved = TRUE
    BY <2>3, <2>7 DEF IsWalk
  <2> QED BY <1>2, <2>3, <2>8 DEF v
<1> QED BY <1>1, <1>2

LEMMA SeedDoneIs ==
  ASSUME NEW w, IsWalk(w), w.seeds # <<>>
  PROVE  LET v == SeedDone(w)
         IN /\ IsWalk(v) /\ v.path = <<>> /\ v.targets = w.targets
            /\ ToSet(w.seeds) = {Head(w.seeds)} \cup ToSet(v.seeds)
<1> DEFINE t == Tail(w.seeds)
           u == [w EXCEPT !.seeds = t]
<1>1. w.seeds \in Seq(QueryNodes) /\ t \in Seq(QueryNodes) /\ <<>> \in Seq(QueryNodes)
  BY DEF IsWalk
<1>2. SeedDone(w) = [u EXCEPT !.path = <<>>]
  BY DEF SeedDone
<1>3. ToSet(w.seeds) = {Head(w.seeds)} \cup ToSet(t)
  <2> DEFINE s == w.seeds
             len == Len(s)
  <2>1. /\ len \in Nat /\ len # 0 /\ DOMAIN s = 1 .. len /\ DOMAIN t = 1 .. len - 1 /\ Head(s) = s[1]
        /\ \A i \in 1 .. len - 1 : t[i] = s[i + 1]
    BY <1>1
  <2> HIDE DEF s, len, t
  <2>2. ASSUME NEW i \in 1 .. len PROVE s[i] = s[1] \/ s[i] \in ToSet(t)
    <3>1. CASE i = 1
      BY <3>1
    <3>2. CASE i # 1
      <4>1. i - 1 \in 1 .. len - 1 /\ (i - 1) + 1 = i
        BY <2>1, <3>2
      <4> QED BY <2>1, <4>1 DEF ToSet
    <3> QED BY <3>1, <3>2
  <2>3. ASSUME NEW i \in 1 .. len - 1 PROVE t[i] \in ToSet(s)
    <3>1. i + 1 \in 1 .. len
      BY <2>1
    <3> QED BY <2>1, <3>1 DEF ToSet
  <2>4. s[1] \in ToSet(s)
    BY <2>1 DEF ToSet
  <2>5. ToSet(s) = {Head(s)} \cup ToSet(t)
    BY <2>1, <2>2, <2>3, <2>4 DEF ToSet
  <2> QED BY <2>5 DEF s
<1> HIDE DEF t
<1>4. u = [seeds |-> t, path |-> w.path, resolved |-> w.resolved,
           targets |-> w.targets, trace |-> w.trace, blockedBy |-> w.blockedBy]
  BY DEF IsWalk
<1> HIDE DEF u
<1>5. SeedDone(w) = [seeds |-> t, path |-> <<>>, resolved |-> w.resolved,
                     targets |-> w.targets, trace |-> w.trace, blockedBy |-> w.blockedBy]
  BY <1>2, <1>4
<1>6. IsWalk(SeedDone(w)) /\ SeedDone(w).path = <<>> /\ SeedDone(w).seeds = t /\ SeedDone(w).targets = w.targets
  BY <1>1, <1>5 DEF IsWalk
<1> QED BY <1>3, <1>6

(***************************************************************************)
(* The walk: F are its seeds.  What it came to on its path is among the    *)
(* targets, the targets lie on the ways from seeds, and of a seed that is  *)
(* done the way has ended and all its facts are found.                     *)
(***************************************************************************)
Walked(w, F) ==
  /\ IsWalk(w) /\ IsInjective(w.targets) /\ ToSet(w.seeds) \subseteq F
  /\ w.path # <<>> =>
       /\ w.seeds # <<>> /\ IsPath(w.path, Head(w.seeds))
       /\ \A m \in ToSet(w.path) : IsTarget(m) => w.resolved /\ m \in ToSet(w.targets)
  /\ \A m \in ToSet(w.targets) : IsTarget(m) /\ \E n \in F, i \in 0 .. NodeCount : WayFrom(n)[i] = m
  /\ \A n \in F :
       \/ n \in ToSet(w.seeds)
       \/ ~ Circles(n) /\ \A i \in 0 .. NodeCount : IsTarget(WayFrom(n)[i]) => WayFrom(n)[i] \in ToSet(w.targets)

LEMMA WalkedSame ==
  ASSUME NEW F, NEW w, Walked(w, F), NEW v, IsWalk(v),
         v.seeds = w.seeds, v.path = w.path, v.resolved = w.resolved, v.targets = w.targets
  PROVE  Walked(v, F)
BY DEF Walked

LEMMA HeadIs ==
  ASSUME NEW s \in Seq(QueryNodes), s # <<>>
  PROVE  Head(s) \in QueryNodes /\ Head(s) \in ToSet(s)
BY DEF ToSet

LEMMA LastIs ==
  ASSUME NEW s \in Seq(QueryNodes), s # <<>>
  PROVE  Last(s) = s[Len(s)] /\ Last(s) \in QueryNodes /\ Last(s) \in ToSet(s)
BY DEF Last, ToSet

\* Coming to a node that extends the path, or begins it.
LEMMA WalkedComes ==
  ASSUME \A m \in QueryNodes : Onward(m) \in QueryNodes, NEW F \in SUBSET QueryNodes,
         NEW w, Walked(w, F), NEW u, IsWalk(u), u.seeds = w.seeds, u.targets = w.targets, u.seeds # <<>>,
         NEW t \in QueryNodes, t \in ToSet(u.path), IsPath(u.path, Head(u.seeds)),
         \A m \in ToSet(u.path) : m = t \/ (IsTarget(m) => u.resolved /\ m \in ToSet(u.targets))
  PROVE  Walked(ComeTo(u, t), F)
<1> DEFINE v == ComeTo(u, t)
           n == Head(u.seeds)
<1>1. IsInjective(u.targets)
  BY DEF Walked
<1>2. /\ IsWalk(v) /\ v.seeds = u.seeds /\ v.path = u.path /\ IsInjective(v.targets)
      /\ ToSet(v.targets) = ToSet(u.targets) \cup (IF IsTarget(t) THEN {t} ELSE {})
      /\ v.resolved = (u.resolved \/ IsTarget(t))
  BY <1>1, ComeToIs
<1> HIDE DEF v
<1>3. n \in F /\ n \in QueryNodes
  <2>1. u.seeds \in Seq(QueryNodes)
    BY DEF IsWalk
  <2>2. n \in ToSet(u.seeds)
    BY <2>1, HeadIs
  <2> QED BY <2>2 DEF Walked
<1> HIDE DEF n
<1>4. \E i \in 0 .. NodeCount : WayFrom(n)[i] = t
  <2>1. IsPath(u.path, n)
    BY DEF n
  <2>2. PICK i \in 1 .. Len(u.path) : u.path[i] = t
    BY <2>1 DEF IsPath, ToSet
  <2>3. i - 1 \in 0 .. NodeCount - 1 /\ WayFrom(n)[i - 1] = t
    BY <1>3, <2>1, <2>2, PathIsWay
  <2>4. i - 1 \in 0 .. NodeCount
    BY <2>3, QueryAssumption
  <2> QED BY <2>3, <2>4
<1>5. \A m \in ToSet(v.targets) : IsTarget(m) /\ \E n1 \in F, i \in 0 .. NodeCount : WayFrom(n1)[i] = m
  <2>1. \A m \in ToSet(u.targets) : IsTarget(m) /\ \E n1 \in F, i \in 0 .. NodeCount : WayFrom(n1)[i] = m
    BY DEF Walked
  <2>2. \A m \in ToSet(v.targets) : m \in ToSet(u.targets) \/ (IsTarget(t) /\ m = t)
    BY <1>2
  <2> QED BY <1>3, <1>4, <2>1, <2>2
<1>6. \A m \in ToSet(v.path) : IsTarget(m) => v.resolved /\ m \in ToSet(v.targets)
  <2>1. IsTarget(t) => v.resolved /\ t \in ToSet(v.targets)
    BY <1>2
  <2>2. \A m \in ToSet(u.targets) : m \in ToSet(v.targets)
    BY <1>2
  <2>3. u.resolved => v.resolved
    BY <1>2
  <2> QED BY <1>2, <2>1, <2>2, <2>3, Zenon
<1>7. \A n1 \in F :
        \/ n1 \in ToSet(v.seeds)
        \/ ~ Circles(n1) /\ \A i \in 0 .. NodeCount : IsTarget(WayFrom(n1)[i]) => WayFrom(n1)[i] \in ToSet(v.targets)
  <2>1. \A n1 \in F :
          \/ n1 \in ToSet(u.seeds)
          \/ ~ Circles(n1) /\ \A i \in 0 .. NodeCount : IsTarget(WayFrom(n1)[i]) => WayFrom(n1)[i] \in ToSet(u.targets)
    BY DEF Walked
  <2>2. \A m \in ToSet(u.targets) : m \in ToSet(v.targets)
    BY <1>2
  <2> QED BY <1>2, <2>1, <2>2
<1>8. v.seeds # <<>> /\ IsPath(v.path, Head(v.seeds)) /\ ToSet(v.seeds) \subseteq F
  BY <1>2 DEF Walked
<1> QED BY <1>2, <1>5, <1>6, <1>7, <1>8 DEF Walked, v

\* The walk from a seed begins.
LEMMA WalkedNext ==
  ASSUME \A m \in QueryNodes : Onward(m) \in QueryNodes, NEW F \in SUBSET QueryNodes,
         NEW w, Walked(w, F), w.seeds # <<>>
  PROVE  Walked(ComeTo([w EXCEPT !.path = <<Head(w.seeds)>>, !.resolved = FALSE], Head(w.seeds)), F)
<1> DEFINE n == Head(w.seeds)
           u == [w EXCEPT !.path = <<n>>, !.resolved = FALSE]
           p == <<n>>
           x == [w EXCEPT !.path = p]
<1>1. w.seeds \in Seq(QueryNodes)
  BY DEF Walked, IsWalk
<1>2. n \in QueryNodes
  BY <1>1, HeadIs
<1> HIDE DEF n
<1>3. <<n>> \in Seq(QueryNodes) /\ <<n>> # <<>> /\ <<n>>[1] = n /\ Len(<<n>>) = 1 /\ ToSet(<<n>>) = {n}
  BY <1>2 DEF ToSet
<1>4. IsPath(<<n>>, n)
  BY <1>3 DEF IsPath, IsInjective
<1>5. IsWalk(w)
  BY DEF Walked
<1>6. u = [x EXCEPT !.resolved = FALSE]
  OBVIOUS
<1> HIDE DEF p, u
<1>7. x = [seeds |-> w.seeds, path |-> p, resolved |-> w.resolved,
           targets |-> w.targets, trace |-> w.trace, blockedBy |-> w.blockedBy]
  BY <1>5 DEF IsWalk
<1> HIDE DEF x
<1>8. u = [seeds |-> w.seeds, path |-> p, resolved |-> FALSE,
           targets |-> w.targets, trace |-> w.trace, blockedBy |-> w.blockedBy]
  BY <1>6, <1>7
<1>9. IsWalk(u) /\ u.seeds = w.seeds /\ u.path = <<n>> /\ u.targets = w.targets
  BY <1>3, <1>5, <1>8 DEF IsWalk, p
<1>10. IsPath(u.path, Head(u.seeds)) /\ n \in ToSet(u.path) /\ u.seeds # <<>>
      /\ \A m \in ToSet(u.path) : m = n \/ (IsTarget(m) => u.resolved /\ m \in ToSet(u.targets))
  BY <1>3, <1>4, <1>9 DEF n
<1>11. Walked(ComeTo(u, n), F)
  BY <1>2, <1>9, <1>10, WalkedComes
<1> QED BY <1>11 DEF u, n

\* The walk goes on along a way.
LEMMA WalkedOn ==
  ASSUME \A m \in QueryNodes : Onward(m) \in QueryNodes, NEW F \in SUBSET QueryNodes,
         NEW w, Walked(w, F), w.path # <<>>, NEW e, e.target = Onward(Last(w.path)), e.target \notin ToSet(w.path)
  PROVE  Walked(ComeTo([w EXCEPT !.trace = Append(@, e), !.path = Append(@, e.target)], e.target), F)
<1> DEFINE t == e.target
           u == [w EXCEPT !.trace = Append(@, e), !.path = Append(@, t)]
           p == Append(w.path, t)
           r == Append(w.trace, e)
           x == [w EXCEPT !.trace = r]
<1>1. w.path \in Seq(QueryNodes) /\ IsPath(w.path, Head(w.seeds)) /\ w.seeds # <<>>
  BY DEF Walked, IsWalk
<1>2. Last(w.path) = w.path[Len(w.path)] /\ Last(w.path) \in QueryNodes
  BY <1>1, LastIs
<1>3. t \in QueryNodes /\ t = Onward(w.path[Len(w.path)])
  BY <1>2
<1>4. IsPath(p, Head(w.seeds)) /\ ToSet(p) = ToSet(w.path) \cup {t}
  BY <1>1, <1>3, PathFurther
<1>5. u = [x EXCEPT !.path = p]
  BY DEF Walked, IsWalk
<1> HIDE DEF p, r
<1>6. x = [seeds |-> w.seeds, path |-> w.path, resolved |-> w.resolved,
           targets |-> w.targets, trace |-> r, blockedBy |-> w.blockedBy]
  BY DEF Walked, IsWalk
<1> HIDE DEF x, u
<1>7. u = [seeds |-> w.seeds, path |-> p, resolved |-> w.resolved,
           targets |-> w.targets, trace |-> r, blockedBy |-> w.blockedBy]
  BY <1>5, <1>6
<1>8. p \in Seq(QueryNodes)
  BY <1>4 DEF IsPath
<1>9. IsWalk(u) /\ u.seeds = w.seeds /\ u.path = p /\ u.targets = w.targets /\ u.resolved = w.resolved
  BY <1>7, <1>8 DEF Walked, IsWalk
<1>10. \A m \in ToSet(w.path) : IsTarget(m) => w.resolved /\ m \in ToSet(w.targets)
  BY DEF Walked
<1>11. IsPath(u.path, Head(u.seeds)) /\ t \in ToSet(u.path) /\ u.seeds # <<>>
  BY <1>1, <1>4, <1>9
<1>12. \A m \in ToSet(u.path) : m = t \/ (IsTarget(m) => u.resolved /\ m \in ToSet(u.targets))
  BY <1>4, <1>9, <1>10
<1>13. Walked(ComeTo(u, t), F)
  BY <1>3, <1>9, <1>11, <1>12, WalkedComes
<1> QED BY <1>13 DEF u

\* The walk from a seed ends where there is no way on.
LEMMA WalkedEnds ==
  ASSUME \A m \in QueryNodes : Onward(m) \in QueryNodes, NEW F \in SUBSET QueryNodes,
         NEW w, Walked(w, F), w.path # <<>>, Onward(Last(w.path)) = Last(w.path)
  PROVE  Walked(SeedDone(w), F)
<1> DEFINE v == SeedDone(w)
           n == Head(w.seeds)
<1>1. IsWalk(w) /\ w.seeds # <<>> /\ w.path \in Seq(QueryNodes) /\ w.seeds \in Seq(QueryNodes) /\ IsPath(w.path, n)
  BY DEF Walked, IsWalk
<1>2. IsWalk(v) /\ v.path = <<>> /\ v.targets = w.targets /\ ToSet(w.seeds) = {n} \cup ToSet(v.seeds)
  BY <1>1, SeedDoneIs
<1>3. n \in QueryNodes /\ Onward(w.path[Len(w.path)]) = w.path[Len(w.path)]
  BY <1>1, HeadIs, LastIs
<1> HIDE DEF v, n
<1>4. ~ Circles(n) /\ \A i \in 0 .. NodeCount : WayFrom(n)[i] \in ToSet(w.path)
  BY <1>1, <1>3, PathEnds
<1>5. \A m \in ToSet(w.path) : IsTarget(m) => m \in ToSet(w.targets)
  BY DEF Walked
<1>6. \A i \in 0 .. NodeCount : IsTarget(WayFrom(n)[i]) => WayFrom(n)[i] \in ToSet(w.targets)
  BY <1>4, <1>5
<1>7. \A n1 \in F :
        \/ n1 \in ToSet(v.seeds)
        \/ ~ Circles(n1) /\ \A i \in 0 .. NodeCount : IsTarget(WayFrom(n1)[i]) => WayFrom(n1)[i] \in ToSet(v.targets)
  <2>1. \A n1 \in F :
          \/ n1 \in ToSet(w.seeds)
          \/ ~ Circles(n1) /\ \A i \in 0 .. NodeCount : IsTarget(WayFrom(n1)[i]) => WayFrom(n1)[i] \in ToSet(w.targets)
    BY DEF Walked
  <2> QED BY <1>2, <1>4, <1>6, <2>1
<1> QED BY <1>2, <1>7 DEF Walked, v

----------------------------------------------------------------------------
(* The invariant                                                            *)

QueryIInv ==
  /\ IsGraph(graph)
  /\ query = [phase |-> query.phase, mode |-> query.mode, filters |-> query.filters,
              listed |-> query.listed, moved |-> query.moved]
  /\ query.phase \in {"idle", "scoring", "walking", "done"} /\ query.mode \in {"flat", "graph"}
  /\ query.filters \in QueryFilters
  /\ ranked \in Seq(QueryNodes)
  /\ query.phase = "walking" => query.mode = "graph" /\ Walked(walk, ToSet(Seeds(ranked)))
  /\ ContextIsBall /\ WalkFindsTargets /\ AnswerIsOfNow

LEMMA FiltersAre == \A f \in QueryFilters : f.nodeKind \in {"any", "fact"}
BY DEF QueryFilters

LEMMA NotYet == query.phase # "done" => ContextIsBall /\ WalkFindsTargets /\ AnswerIsOfNow
BY DEF ContextIsBall, WalkFindsTargets, AnswerIsOfNow, Answered

\* What is read of the graph stays as the graph does.
LEMMA SameGraph ==
  ASSUME graph' = graph
  PROVE  /\ LiveNodes' = LiveNodes
         /\ \A s : Within(s)' = Within(s)
<1>1. LiveNodes' = LiveNodes
  BY DEF LiveNodes, Live
<1>2. \A s : Within(s)' = Within(s)
  BY DEF Within, Neighbors
<1> QED BY <1>1, <1>2

\* And what is read of the filters, as they do.
LEMMA SameFilters ==
  ASSUME graph' = graph, query'.filters = query.filters
  PROVE  /\ \A n : IsTarget(n)' = IsTarget(n)
         /\ \A n : Onward(n)' = Onward(n)
         /\ \A n : WayFrom(n)' = WayFrom(n)
         /\ \A r : Seeds(r)' = Seeds(r)
<1>1. \A n : IsTarget(n)' = IsTarget(n)
  BY DEF IsTarget, NodeMatches
<1>2. \A n : Onward(n)' = Onward(n)
  BY DEF Onward, Ways, Way, EdgePasses, NodeMatches
<1>3. \A n : WayFrom(n)' = WayFrom(n)
  BY DEF WayFrom, Onward, Ways, Way, EdgePasses, NodeMatches
<1>4. \A r : Seeds(r)' = Seeds(r)
  BY DEF Seeds, NodeMatches, Live
<1> QED BY <1>1, <1>2, <1>3, <1>4

LEMMA WalkedThen ==
  ASSUME graph' = graph, query'.filters = query.filters, NEW r, ranked' = r, Walked(walk', ToSet(Seeds(r)))
  PROVE  Walked(walk, ToSet(Seeds(ranked)))'
<1> DEFINE F == ToSet(Seeds(r))
<1>1. /\ \A n : IsTarget(n)' = IsTarget(n)
      /\ \A n : Onward(n)' = Onward(n)
      /\ \A n : WayFrom(n)' = WayFrom(n)
      /\ \A s : Seeds(s)' = Seeds(s)
  BY SameFilters
<1>2. ToSet(Seeds(ranked))' = F /\ F' = F
  BY <1>1 DEF ToSet
<1>3. ASSUME NEW n PROVE Circles(n)' = Circles(n)
  BY <1>1 DEF Circles
<1>4. ASSUME NEW p, NEW n PROVE IsPath(p, n)' = IsPath(p, n)
  BY <1>1 DEF IsPath
<1> HIDE DEF F
<1>5. Walked(walk', F)
  BY DEF F
<1>6. IsWalk(walk)' /\ IsInjective(walk.targets)' /\ (ToSet(walk.seeds))' \subseteq F
  BY <1>5 DEF Walked, IsWalk, IsInjective, ToSet
<1>7. (walk.path # <<>> =>
         /\ walk.seeds # <<>> /\ IsPath(walk.path, Head(walk.seeds))
         /\ \A m \in ToSet(walk.path) : IsTarget(m) => walk.resolved /\ m \in ToSet(walk.targets))'
  BY <1>1, <1>4, <1>5 DEF Walked, ToSet
<1>8. (\A m \in ToSet(walk.targets) : IsTarget(m) /\ \E n \in F, i \in 0 .. NodeCount : WayFrom(n)[i] = m)'
  BY <1>1, <1>2, <1>5 DEF Walked, ToSet
<1>9. (\A n \in F :
         \/ n \in ToSet(walk.seeds)
         \/ ~ Circles(n) /\ \A i \in 0 .. NodeCount : IsTarget(WayFrom(n)[i]) => WayFrom(n)[i] \in ToSet(walk.targets))'
  BY <1>1, <1>2, <1>3, <1>5 DEF Walked, ToSet
<1>10. Walked(walk, F)'
  BY <1>2, <1>6, <1>7, <1>8, <1>9 DEF Walked
<1> QED BY <1>2, <1>10 DEF Walked

\* The context of an answer that is given now.
LEMMA BallThen ==
  ASSUME graph' = graph, IsGraph(graph), NEW s \in Seq(QueryNodes), answer'.context = AssembleContext(s),
         s = IF query'.mode = "flat" THEN ranked' ELSE walk'.targets
  PROVE  ContextIsBall' /\ ToSet(answer'.context) \subseteq LiveNodes'
<1> DEFINE W == Within(ToSet(s) \cap LiveNodes)
           x == AssembleContext(s)
<1>1. LiveNodes' = LiveNodes /\ \A S : Within(S)' = Within(S)
  BY SameGraph
<1>2. \A n \in QueryNodes : Neighbors(n) \subseteq LiveNodes
  BY GraphGives
<1>3. IsBall(x, W) /\ ToSet(x) \subseteq LiveNodes
  BY <1>2, BallIs
<1>4. ToSet(answer'.context) \subseteq LiveNodes'
  BY <1>1, <1>3
<1>5. Within(ToSet(IF query.mode = "flat" THEN ranked ELSE walk.targets) \cap LiveNodes)' = W
  BY <1>1 DEF ToSet
<1>6. answer'.context = x /\ (ToSet(answer.context))' = ToSet(x)
  BY DEF ToSet
<1> HIDE DEF W, x
<1>7. ContextIsBall'
  BY <1>3, <1>5, <1>6 DEF ContextIsBall
<1> QED BY <1>4, <1>7

LEMMA QueryInitInv == QueryInit => QueryIInv
<1> SUFFICES ASSUME QueryInit PROVE QueryIInv
  OBVIOUS
<1>1. IsGraph(graph)
  BY QueryAssumption DEF QueryInit
<1>2. query = [phase |-> "idle", mode |-> "flat", listed |-> {}, moved |-> FALSE,
               filters |-> [nodeKind |-> "any", state |-> "any", documents |-> FALSE]]
  BY DEF QueryInit
<1>3. query.filters \in QueryFilters
  BY <1>2 DEF QueryFilters
<1>4. ranked \in Seq(QueryNodes)
  BY DEF QueryInit
<1> QED BY <1>1, <1>2, <1>3, <1>4, NotYet DEF QueryIInv

LEMMA StartKeeps ==
  ASSUME QueryIInv, NEW mode \in {"flat", "graph"}, NEW filters \in QueryFilters, StartQuery(mode, filters)
  PROVE  QueryIInv'
<1> DEFINE l == LiveNodes
<1>1. query' = [phase |-> "scoring", mode |-> mode, filters |-> filters, listed |-> l, moved |-> query.moved]
  <2>1. query = [phase |-> query.phase, mode |-> query.mode, filters |-> query.filters,
                 listed |-> query.listed, moved |-> query.moved]
    BY DEF QueryIInv
  <2>2. query' = [query EXCEPT !.phase = "scoring", !.mode = mode, !.filters = filters, !.listed = l]
    BY DEF StartQuery
  <2> HIDE DEF l
  <2> QED BY <2>1, <2>2
<1> HIDE DEF l
<1>2. graph' = graph /\ ranked' = ranked
  BY DEF StartQuery
<1>3. IsGraph(graph)' /\ (ranked \in Seq(QueryNodes))' /\ (query.filters \in QueryFilters)'
  BY <1>1, <1>2 DEF QueryIInv, QueryNodes
<1>4. (ContextIsBall /\ WalkFindsTargets /\ AnswerIsOfNow)'
  BY <1>1 DEF ContextIsBall, WalkFindsTargets, AnswerIsOfNow, Answered
<1> QED BY <1>1, <1>3, <1>4 DEF QueryIInv

LEMMA SeqOwn ==
  ASSUME NEW T, NEW s \in Seq(T)
  PROVE  s \in Seq(ToSet(s))
BY DEF ToSet

LEMMA GraphOf ==
  ASSUME NEW k \in [QueryNodes -> {"fact", "reference", "content", Missing}], NEW l, l \in Seq(ToSet(l)), NEW m,
         \A e \in ToSet(l) :
           /\ e = Link(e.kind, e.source, e.target, e.state)
           /\ {e.source, e.target} \subseteq {n \in QueryNodes : k[n] # Missing}
           /\ e.source # e.target
  PROVE  IsGraph([kind |-> k, links |-> l, matching |-> m])
BY DEF IsGraph

\* A node that goes takes its edges along.
LEMMA GraphWithout ==
  ASSUME IsGraph(graph), NEW n \in LiveNodes, NEW g,
         g = [graph EXCEPT !.kind[n] = Missing,
                           !.links = Filtered(@, {e \in ToSet(@) : n \notin {e.source, e.target}})]
  PROVE  IsGraph(g)
<1> DEFINE old == graph.links
           S == {e \in ToSet(old) : n \notin {e.source, e.target}}
           l == Filtered(old, S)
           k == [graph.kind EXCEPT ![n] = Missing]
           h == [graph EXCEPT !.kind = k]
<1>1. old \in Seq(ToSet(old)) /\ graph = [kind |-> graph.kind, links |-> old, matching |-> graph.matching]
  BY DEF IsGraph
<1>2. l \in Seq(ToSet(old)) /\ ToSet(l) = S
  <2>1. l \in Seq(ToSet(old)) /\ ToSet(l) = ToSet(old) \cap S
    BY <1>1, FilteredIs
  <2> QED BY <2>1
<1>3. l \in Seq(ToSet(l))
  BY <1>2, SeqOwn
<1>4. n \in QueryNodes /\ graph.kind \in [QueryNodes -> {"fact", "reference", "content", Missing}]
  BY DEF LiveNodes, IsGraph
<1>5. k \in [QueryNodes -> {"fact", "reference", "content", Missing}] /\ \A m \in QueryNodes : m # n => k[m] = graph.kind[m]
  BY <1>4
<1>6. \A e \in ToSet(old) :
        /\ e = Link(e.kind, e.source, e.target, e.state)
        /\ {e.source, e.target} \subseteq {m \in QueryNodes : graph.kind[m] # Missing}
        /\ e.source # e.target
  BY DEF IsGraph
<1>7. \A e \in S :
        /\ e = Link(e.kind, e.source, e.target, e.state)
        /\ {e.source, e.target} \subseteq {m \in QueryNodes : k[m] # Missing}
        /\ e.source # e.target
  <2>1. ASSUME NEW e \in S
        PROVE  e \in ToSet(old) /\ e.source # n /\ e.target # n
    OBVIOUS
  <2> HIDE DEF S, k, old
  <2> QED BY <1>5, <1>6, <2>1
<1>8. h = [kind |-> k, links |-> old, matching |-> graph.matching]
  <2> HIDE DEF k, old
  <2> QED BY <1>1
<1>9. g = [h EXCEPT !.links = l]
  BY <1>8
<1> HIDE DEF k, l, h
<1>10. g = [kind |-> k, links |-> l, matching |-> graph.matching]
  BY <1>8, <1>9
<1>11. \A e \in ToSet(l) :
         /\ e = Link(e.kind, e.source, e.target, e.state)
         /\ {e.source, e.target} \subseteq {m \in QueryNodes : k[m] # Missing}
         /\ e.source # e.target
  BY <1>2, <1>7, Zenon
<1> DEFINE m == graph.matching
<1>12. k \in [QueryNodes -> {"fact", "reference", "content", Missing}]
  BY <1>5
<1> HIDE DEF m
<1>13. IsGraph([kind |-> k, links |-> l, matching |-> m])
  BY ONLY <1>3, <1>11, <1>12, GraphOf
<1> QED BY <1>10, <1>13, Zenon DEF m

\* A reference that goes stale leads where it led.
LEMMA GraphMarked ==
  ASSUME IsGraph(graph), NEW i \in DOMAIN graph.links, NEW g, g = [graph EXCEPT !.links[i].state = "STALE"]
  PROVE  IsGraph(g)
<1> DEFINE old == graph.links
           x == old[i]
           y == Link(x.kind, x.source, x.target, "STALE")
           l == [old EXCEPT ![i] = y]
<1>1. old \in Seq(ToSet(old)) /\ graph = [kind |-> graph.kind, links |-> old, matching |-> graph.matching]
  BY DEF IsGraph
<1>2. \A e \in ToSet(old) :
        /\ e = Link(e.kind, e.source, e.target, e.state)
        /\ {e.source, e.target} \subseteq {m \in QueryNodes : graph.kind[m] # Missing}
        /\ e.source # e.target
  BY DEF IsGraph
<1>3. x \in ToSet(old)
  BY DEF ToSet
<1>4. [x EXCEPT !.state = "STALE"] = y
  <2>1. x = Link(x.kind, x.source, x.target, x.state)
    BY <1>2, <1>3
  <2> HIDE DEF x
  <2> QED BY <2>1 DEF Link
<1>5. g = [kind |-> graph.kind, links |-> l, matching |-> graph.matching]
  BY <1>1, <1>4
<1>6. l \in Seq(ToSet(old) \cup {y}) /\ DOMAIN l = DOMAIN old
  BY <1>1
<1>7. \A e \in ToSet(l) : e = y \/ e \in ToSet(old)
  BY <1>6 DEF ToSet
<1>8. y = Link(y.kind, y.source, y.target, y.state) /\ y.source = x.source /\ y.target = x.target
  BY DEF Link
<1> HIDE DEF y, l, x
<1>9. \A e \in ToSet(l) :
        /\ e = Link(e.kind, e.source, e.target, e.state)
        /\ {e.source, e.target} \subseteq {m \in QueryNodes : graph.kind[m] # Missing}
        /\ e.source # e.target
  BY <1>2, <1>3, <1>7, <1>8
<1>10. l \in Seq(ToSet(l))
  BY <1>6, SeqOwn
<1>11. graph.kind \in [QueryNodes -> {"fact", "reference", "content", Missing}]
  BY DEF IsGraph
<1>12. g.kind = graph.kind /\ g.links = l /\ g.matching = graph.matching
  BY <1>5
<1> QED BY <1>5, <1>9, <1>10, <1>11, <1>12 DEF IsGraph

LEMMA MovesKeep == ASSUME QueryIInv, StoreMoves PROVE QueryIInv'
<1>1. query' = [phase |-> query.phase, mode |-> query.mode, filters |-> query.filters,
                listed |-> query.listed, moved |-> TRUE]
  BY DEF QueryIInv, StoreMoves
<1>2. IsGraph(graph)'
  <2>1. IsGraph(graph)
    BY DEF QueryIInv
  <2>2. \/ \E n \in LiveNodes :
             graph' = [graph EXCEPT !.kind[n] = Missing,
                                    !.links = Filtered(@, {e \in ToSet(@) : n \notin {e.source, e.target}})]
        \/ \E i \in DOMAIN graph.links : graph' = [graph EXCEPT !.links[i].state = "STALE"]
    BY Zenon DEF StoreMoves
  <2>3. IsGraph(graph')
    BY <2>1, <2>2, GraphWithout, GraphMarked
  <2> QED BY <2>3 DEF IsGraph, QueryNodes
<1>3. (ranked \in Seq(QueryNodes))' /\ (query.filters \in QueryFilters)' /\ query'.phase = "scoring"
  BY <1>1 DEF QueryIInv, StoreMoves, QueryNodes
<1>4. (ContextIsBall /\ WalkFindsTargets /\ AnswerIsOfNow)'
  BY <1>3 DEF ContextIsBall, WalkFindsTargets, AnswerIsOfNow, Answered
<1> QED BY <1>1, <1>2, <1>3, <1>4 DEF QueryIInv

\* The answer of a walk that is given now.
LEMMA FindsThen ==
  ASSUME graph' = graph, query'.filters = query.filters, ranked' = ranked, NEW F, F = ToSet(Seeds(ranked)),
         NEW found, found = {m \in QueryNodes : IsTarget(m) /\ \E n \in F, i \in 0 .. NodeCount : WayFrom(n)[i] = m},
         answer'.error = "" => ToSet(answer'.results) = found /\ Len(answer'.results) = Cardinality(found),
         answer'.error = "" => \A n \in F : ~ Circles(n),
         answer'.error = "CycleDetected" => \E n \in F : Circles(n),
         answer'.error = "HopLimitExceeded" =>
           \E n \in F : \A i \in 0 .. MaxHops + 1 : ~ IsTarget(WayFrom(n)[i]) /\ Onward(WayFrom(n)[i]) # WayFrom(n)[i]
  PROVE  WalkFindsTargets'
<1>1. /\ \A n : IsTarget(n)' = IsTarget(n)
      /\ \A n : Onward(n)' = Onward(n)
      /\ \A n : WayFrom(n)' = WayFrom(n)
      /\ \A r : Seeds(r)' = Seeds(r)
  BY SameFilters
<1>2. ToSet(Seeds(ranked))' = F /\ ToSet(answer.results)' = ToSet(answer'.results)
  <2>1. Seeds(ranked)' = Seeds(ranked)
    BY <1>1
  <2>2. ToSet(Seeds(ranked))' = ToSet(Seeds(ranked))
    BY <2>1
  <2>3. ToSet(answer.results)' = ToSet(answer'.results)
    BY DEF ToSet
  <2> QED BY <2>2, <2>3
<1>3. \A n : Circles(n)' = Circles(n)
  BY <1>1 DEF Circles
<1>4. {m \in QueryNodes : IsTarget(m) /\ \E n \in ToSet(Seeds(ranked)), i \in 0 .. NodeCount : WayFrom(n)[i] = m}' = found
  <2>1. \A m : m \in QueryNodes' <=> m \in QueryNodes
    BY DEF QueryNodes
  <2>2. \A m : (\E n \in ToSet(Seeds(ranked)), i \in 0 .. NodeCount : WayFrom(n)[i] = m)'
              <=> \E n \in F, i \in 0 .. NodeCount : WayFrom(n)[i] = m
    BY <1>1, <1>2
  <2>3. \A m : (m \in QueryNodes /\ IsTarget(m) /\ \E n \in ToSet(Seeds(ranked)), i \in 0 .. NodeCount : WayFrom(n)[i] = m)'
              <=> m \in QueryNodes /\ IsTarget(m) /\ \E n \in F, i \in 0 .. NodeCount : WayFrom(n)[i] = m
    BY <1>1, <2>1, <2>2, Zenon
  <2>4. \A m : m \in found <=> m \in QueryNodes /\ IsTarget(m) /\ \E n \in F, i \in 0 .. NodeCount : WayFrom(n)[i] = m
    OBVIOUS
  <2>5. \A m : m \in {k \in QueryNodes : IsTarget(k) /\ \E n \in ToSet(Seeds(ranked)), i \in 0 .. NodeCount : WayFrom(n)[i] = k}'
              <=> m \in found
    BY <2>3, <2>4, Zenon
  <2> QED BY <2>5
<1>5. (answer.error = "HopLimitExceeded" =>
         \E n \in ToSet(Seeds(ranked)) :
           \A i \in 0 .. MaxHops + 1 : ~ IsTarget(WayFrom(n)[i]) /\ Onward(WayFrom(n)[i]) # WayFrom(n)[i])'
  BY <1>1, <1>2
<1>6. (/\ answer.error = "" => \A n \in ToSet(Seeds(ranked)) : ~ Circles(n)
       /\ answer.error = "CycleDetected" => \E n \in ToSet(Seeds(ranked)) : Circles(n))'
  BY <1>2, <1>3
<1> QED BY <1>2, <1>4, <1>5, <1>6 DEF WalkFindsTargets

LEMMA FlatKeeps ==
  ASSUME QueryIInv, NEW r \in QueryRankings, Scored(r), query.mode = "flat"
  PROVE  QueryIInv'
<1>1. query' = [phase |-> "done", mode |-> "flat", filters |-> query.filters,
                listed |-> query.listed, moved |-> query.moved]
  BY DEF QueryIInv, Scored
<1>2. graph' = graph /\ ranked' = r /\ IsGraph(graph) /\ r \in Seq(QueryNodes) /\ query.filters \in QueryFilters
  BY QueryAssumption DEF QueryIInv, Scored
<1> DEFINE x == AssembleContext(r)
           f == FlatResults(r)
<1>3. answer'.results = f /\ answer'.context = x /\ answer'.error = ""
  <2>1. answer' = [NoAnswer EXCEPT !.results = f, !.context = x]
    BY DEF Scored
  <2> HIDE DEF f, x
  <2> QED BY <2>1 DEF NoAnswer
<1>4. ContextIsBall' /\ ToSet(answer'.context) \subseteq LiveNodes'
  BY <1>1, <1>2, <1>3, BallThen
<1> DEFINE S == {n \in QueryNodes :
             /\ query.filters.nodeKind = "any" \/ graph.kind[n] = query.filters.nodeKind
             /\ query.filters.documents => Live(n) /\ NodeMatches(n)}
<1>5. ToSet(f) = ToSet(r) \cap S
  BY <1>2, FilteredIs DEF FlatResults
<1>6. query.filters.nodeKind \in {"any", "fact"} /\ Missing # "fact"
  BY <1>2, FiltersAre, QueryAssumption
<1>7. LiveNodes' = LiveNodes
  BY <1>2, SameGraph
<1>8. AnswerIsOfNow'
  <2>1. \A n \in ToSet(f) : n \in S
    BY <1>5
  <2> HIDE DEF f, x
  <2>2. query.filters.nodeKind # "any" => \A n \in ToSet(f) : n \in LiveNodes /\ graph.kind[n] = query.filters.nodeKind
    BY <1>6, <2>1 DEF LiveNodes, Live
  <2>3. query.filters.documents => \A n \in ToSet(f) : n \in LiveNodes
    BY <2>1 DEF LiveNodes
  <2>4. ToSet(answer.results)' = ToSet(f) /\ ToSet(answer.context)' = ToSet(answer'.context)
    BY <1>3 DEF ToSet
  <2> HIDE DEF S
  <2> QED BY <1>1, <1>2, <1>4, <1>7, <2>2, <2>3, <2>4 DEF AnswerIsOfNow
<1>9. WalkFindsTargets'
  BY <1>1 DEF WalkFindsTargets
<1>10. IsGraph(graph)' /\ (ranked \in Seq(QueryNodes))' /\ (query.filters \in QueryFilters)'
  BY <1>1, <1>2 DEF QueryIInv, QueryNodes
<1> QED BY <1>1, <1>4, <1>8, <1>9, <1>10 DEF QueryIInv

LEMMA GraphKeeps ==
  ASSUME QueryIInv, NEW r \in QueryRankings, Scored(r), query.mode = "graph"
  PROVE  QueryIInv'
<1>1. query' = [phase |-> "walking", mode |-> "graph", filters |-> query.filters,
                listed |-> query.listed, moved |-> query.moved]
  BY DEF QueryIInv, Scored
<1>2. graph' = graph /\ ranked' = r /\ IsGraph(graph) /\ r \in Seq(QueryNodes) /\ query.filters \in QueryFilters
  BY QueryAssumption DEF QueryIInv, Scored
<1> DEFINE f == Seeds(r)
<1>3. f \in Seq(QueryNodes)
  BY <1>2, FilteredIs DEF Seeds
<1>4. walk' = [seeds |-> f, path |-> <<>>, resolved |-> FALSE, targets |-> <<>>, trace |-> <<>>, blockedBy |-> <<>>]
  <2>1. walk' = [NoWalk EXCEPT !.seeds = f]
    BY DEF Scored
  <2> HIDE DEF f
  <2> QED BY <2>1 DEF NoWalk
<1>5. Walked(walk', ToSet(Seeds(r)))
  <2> HIDE DEF f
  <2>1. <<>> \in Seq(QueryNodes) /\ IsInjective(<<>>) /\ ToSet(<<>>) = {}
    BY DEF IsInjective, ToSet
  <2>2. IsWalk(walk') /\ walk'.seeds = f /\ walk'.path = <<>> /\ walk'.targets = <<>>
    BY <1>3, <1>4, <2>1 DEF IsWalk
  <2>3. Walked(walk', ToSet(f))
    BY <2>1, <2>2 DEF Walked
  <2> QED BY <2>3 DEF f
<1>6. Walked(walk, ToSet(Seeds(ranked)))'
  BY <1>1, <1>2, <1>5, WalkedThen
<1>7. (ContextIsBall /\ WalkFindsTargets /\ AnswerIsOfNow)'
  BY <1>1 DEF ContextIsBall, WalkFindsTargets, AnswerIsOfNow, Answered
<1>8. IsGraph(graph)' /\ (ranked \in Seq(QueryNodes))' /\ (query.filters \in QueryFilters)'
  BY <1>1, <1>2 DEF QueryIInv, QueryNodes
<1> QED BY <1>1, <1>6, <1>7, <1>8 DEF QueryIInv

\* What the steps of a walk start from.
LEMMA WalkingIs ==
  ASSUME QueryIInv, query.phase = "walking"
  PROVE  /\ query.mode = "graph" /\ Walked(walk, ToSet(Seeds(ranked))) /\ ToSet(Seeds(ranked)) \in SUBSET QueryNodes
         /\ \A m \in QueryNodes : Onward(m) \in QueryNodes
<1>1. IsGraph(graph) /\ ranked \in Seq(QueryNodes) /\ query.mode = "graph" /\ Walked(walk, ToSet(Seeds(ranked)))
  BY DEF QueryIInv
<1>2. Seeds(ranked) \in Seq(QueryNodes)
  BY <1>1, FilteredIs DEF Seeds
<1>3. ToSet(Seeds(ranked)) \in SUBSET QueryNodes
  <2> DEFINE f == Seeds(ranked)
  <2>1. f \in Seq(QueryNodes)
    BY <1>2
  <2> HIDE DEF f
  <2>2. ToSet(f) \in SUBSET QueryNodes
    BY <2>1 DEF ToSet
  <2> QED BY <2>2 DEF f
<1> QED BY <1>1, <1>3, GraphGives

\* A step of the walk that goes on.
LEMMA WalksKeep ==
  ASSUME QueryIInv, Walking, query.phase = "walking", NEW w, Walks(w), Walked(w, ToSet(Seeds(ranked)))
  PROVE  QueryIInv'
<1>1. graph' = graph /\ ranked' = ranked /\ query' = query /\ walk' = w
  BY DEF Walking, Walks
<1>2. Walked(walk, ToSet(Seeds(ranked)))'
  BY <1>1, WalkedThen
<1>3. (ContextIsBall /\ WalkFindsTargets /\ AnswerIsOfNow)'
  BY <1>1 DEF ContextIsBall, WalkFindsTargets, AnswerIsOfNow, Answered
<1>4. IsGraph(graph)' /\ (ranked \in Seq(QueryNodes))'
  BY <1>1 DEF QueryIInv, QueryNodes
<1>5. (/\ query = [phase |-> query.phase, mode |-> query.mode, filters |-> query.filters,
                   listed |-> query.listed, moved |-> query.moved]
       /\ query.phase = "walking" /\ query.mode = "graph" /\ query.filters \in QueryFilters)'
  BY <1>1, WalkingIs DEF QueryIInv
<1> QED BY <1>2, <1>3, <1>4, <1>5 DEF QueryIInv

LEMMA SeedKeeps == ASSUME QueryIInv, NextSeed PROVE QueryIInv'
<1> DEFINE seed == Head(walk.seeds)
           w == ComeTo([walk EXCEPT !.path = <<seed>>, !.resolved = FALSE], seed)
<1>1. query.phase = "walking" /\ Walking /\ walk.seeds # <<>> /\ Walks(w)
  BY DEF NextSeed, Walking
<1>2. Walked(w, ToSet(Seeds(ranked)))
  BY <1>1, WalkingIs, WalkedNext
<1> QED BY <1>1, <1>2, WalksKeep

LEMMA BlocksKeep ==
  ASSUME NEW F, NEW w, Walked(w, F), NEW n
  PROVE  Walked(Blocks(w, n), F) /\ Blocks(w, n).path = w.path
<1> DEFINE x == IF w.targets = <<>> THEN Append(w.blockedBy, n) ELSE w.blockedBy
           v == [w EXCEPT !.blockedBy = x]
<1>1. IsWalk(w)
  BY DEF Walked
<1>2. Blocks(w, n) = v
  BY DEF Blocks
<1> HIDE DEF x
<1>3. IsWalk(v) /\ v.seeds = w.seeds /\ v.path = w.path /\ v.resolved = w.resolved /\ v.targets = w.targets
  BY <1>1, WithBlocked
<1> HIDE DEF v
<1> QED BY <1>2, <1>3, WalkedSame

LEMMA TraceKeeps ==
  ASSUME NEW F, NEW w, Walked(w, F), NEW e
  PROVE  Walked([w EXCEPT !.trace = Append(@, e)], F) /\ [w EXCEPT !.trace = Append(@, e)].path = w.path
<1> DEFINE x == Append(w.trace, e)
           v == [w EXCEPT !.trace = x]
<1>1. IsWalk(w)
  BY DEF Walked
<1>2. IsWalk(v) /\ v.seeds = w.seeds /\ v.path = w.path /\ v.resolved = w.resolved /\ v.targets = w.targets
  BY <1>1, WithTrace
<1>3. Walked(v, F) /\ v.path = w.path
  <2> HIDE DEF v
  <2> QED BY <1>2, WalkedSame
<1> QED BY <1>3

\* The walk fails, with the answer that says so.
LEMMA FailsKeep ==
  ASSUME QueryIInv, Walking, query.phase = "walking", NEW error \in {"HopLimitExceeded", "CycleDetected"}, Fails(error),
         error = "CycleDetected" => \E n \in ToSet(Seeds(ranked)) : Circles(n),
         error = "HopLimitExceeded" =>
           \E n \in ToSet(Seeds(ranked)) :
             \A i \in 0 .. MaxHops + 1 : ~ IsTarget(WayFrom(n)[i]) /\ Onward(WayFrom(n)[i]) # WayFrom(n)[i]
  PROVE  QueryIInv'
<1>1. query' = [phase |-> "done", mode |-> "graph", filters |-> query.filters,
                listed |-> query.listed, moved |-> query.moved]
  BY WalkingIs DEF QueryIInv, Fails
<1>2. graph' = graph /\ ranked' = ranked
  BY DEF Walking
<1>3. answer'.error = error
  BY DEF Fails, NoAnswer
<1>4. WalkFindsTargets'
  <2> DEFINE F == ToSet(Seeds(ranked))
             found == {m \in QueryNodes : IsTarget(m) /\ \E n \in F, i \in 0 .. NodeCount : WayFrom(n)[i] = m}
  <2>1. answer'.error # "" /\ query'.filters = query.filters
    BY <1>1, <1>3
  <2>2. answer'.error = "CycleDetected" => \E n \in F : Circles(n)
    BY <1>3
  <2>3. answer'.error = "HopLimitExceeded" =>
          \E n \in F : \A i \in 0 .. MaxHops + 1 : ~ IsTarget(WayFrom(n)[i]) /\ Onward(WayFrom(n)[i]) # WayFrom(n)[i]
    BY <1>3
  <2>4. F = ToSet(Seeds(ranked))
        /\ found = {m \in QueryNodes : IsTarget(m) /\ \E n \in F, i \in 0 .. NodeCount : WayFrom(n)[i] = m}
    OBVIOUS
  <2> HIDE DEF F, found
  <2> QED BY <1>2, <2>1, <2>2, <2>3, <2>4, FindsThen
<1>5. (ContextIsBall /\ AnswerIsOfNow)'
  BY <1>3 DEF ContextIsBall, AnswerIsOfNow, Answered
<1>6. IsGraph(graph)' /\ (ranked \in Seq(QueryNodes))' /\ (query.filters \in QueryFilters)'
  BY <1>1, <1>2 DEF QueryIInv, QueryNodes
<1> QED BY <1>1, <1>4, <1>5, <1>6 DEF QueryIInv

LEMMA StepKeeps == ASSUME QueryIInv, WalkStep PROVE QueryIInv'
<1> DEFINE F == ToSet(Seeds(ranked))
           current == Last(walk.path)
           hops == Len(walk.path) - 1
           e == Way(current)
           n == Head(walk.seeds)
<1>1. query.phase = "walking" /\ Walking /\ walk.path # <<>>
  BY DEF WalkStep, Walking
<1>2. Walked(walk, F) /\ F \in SUBSET QueryNodes /\ \A m \in QueryNodes : Onward(m) \in QueryNodes
  BY <1>1, WalkingIs
<1>3. walk.path \in Seq(QueryNodes) /\ walk.seeds \in Seq(QueryNodes) /\ walk.seeds # <<>> /\ IsPath(walk.path, n)
      /\ ToSet(walk.seeds) \subseteq F
  BY <1>1, <1>2 DEF Walked, IsWalk
<1>4. n \in F /\ n \in QueryNodes
  BY <1>2, <1>3, HeadIs
<1>5. current = walk.path[Len(walk.path)] /\ current \in QueryNodes /\ current \in ToSet(walk.path)
  BY <1>1, <1>3, LastIs
<1>6. IsGraph(graph)
  BY DEF QueryIInv
<1>7. CASE Ways(current) = {} /\ Walks(SeedDone(Blocks(walk, current)))
  <2>1. Onward(current) = current
    BY <1>7 DEF Onward
  <2> DEFINE w == Blocks(walk, current)
  <2>2. Walked(w, F) /\ w.path = walk.path
    BY <1>2, BlocksKeep
  <2> HIDE DEF w, F
  <2>3. Walked(SeedDone(w), F)
    BY <1>1, <1>2, <2>1, <2>2, WalkedEnds
  <2> QED BY <1>1, <1>7, <2>3, WalksKeep DEF w, F
<1>8. CASE Ways(current) # {} /\ e.state \in {"BROKEN", "STALE"}
           /\ Walks(SeedDone(Blocks([walk EXCEPT !.trace = Append(@, e)], current)))
  <2>1. Onward(current) = current
    BY <1>8 DEF Onward
  <2> DEFINE u == [walk EXCEPT !.trace = Append(@, e)]
             w == Blocks(u, current)
  <2>2. Walked(u, F) /\ u.path = walk.path
    BY <1>2, TraceKeeps
  <2> HIDE DEF u
  <2>3. Walked(w, F) /\ w.path = walk.path
    BY <2>2, BlocksKeep
  <2> HIDE DEF w, F
  <2>4. Walked(SeedDone(w), F)
    BY <1>1, <1>2, <2>1, <2>3, WalkedEnds
  <2> QED BY <1>1, <1>8, <2>4, WalksKeep DEF w, u, F
<1>9. CASE Ways(current) # {} /\ e.state \notin {"BROKEN", "STALE"}
  <2>1. e.target \in QueryNodes /\ e.target # current /\ Onward(current) = e.target
    BY <1>5, <1>6, <1>9, GraphGives
  <2>2. Contains(walk.path, e.target) <=> e.target \in ToSet(walk.path)
    BY <1>3 DEF Contains, ToSet
  <2>3. CASE hops > MaxHops /\ ~ walk.resolved /\ Fails("HopLimitExceeded")
    <3>1. ASSUME NEW i \in 0 .. MaxHops + 1
          PROVE  ~ IsTarget(WayFrom(n)[i]) /\ Onward(WayFrom(n)[i]) # WayFrom(n)[i]
      <4> DEFINE p == walk.path
                 len == Len(p)
      <4>1. len \in Nat /\ MaxHops \in Nat /\ DOMAIN p = 1 .. len /\ len - 1 > MaxHops
        BY <1>3, <2>3, QueryAssumption
      <4>2. IsPath(p, n) /\ \A m \in ToSet(p) : ~ IsTarget(m)
        BY <1>1, <1>2, <1>3, <2>3 DEF Walked
      <4>3. len = Len(p) /\ current = p[len]
        BY <1>5
      <4> HIDE DEF p, len, current, e, n
      <4>4. i + 1 \in 1 .. len /\ (i + 1) - 1 = i
        BY <4>1
      <4>5. WayFrom(n)[i] = p[i + 1]
        BY <1>2, <1>4, <4>2, <4>3, <4>4, PathIsWay
      <4>6. p[i + 1] \in ToSet(p)
        BY <4>1, <4>4 DEF ToSet
      <4>7. CASE i + 1 = len
        BY <2>1, <4>2, <4>3, <4>5, <4>6, <4>7
      <4>8. CASE i + 1 # len
        <5>1. i + 1 \in 1 .. len - 1 /\ (i + 1) + 1 \in 1 .. len /\ (i + 1) + 1 # i + 1
          BY <4>1, <4>4, <4>8
        <5>2. p[(i + 1) + 1] = Onward(p[i + 1])
          BY <4>2, <4>3, <5>1 DEF IsPath
        <5>3. p[(i + 1) + 1] # p[i + 1]
          BY <4>1, <4>2, <4>4, <5>1 DEF IsPath, IsInjective
        <5> QED BY <4>2, <4>5, <4>6, <5>2, <5>3
      <4> QED BY <4>7, <4>8
    <3> QED BY <1>1, <1>4, <2>3, <3>1, FailsKeep
  <2>4. CASE Contains(walk.path, e.target) /\ Fails("CycleDetected")
    <3>1. Circles(n)
      BY <1>2, <1>3, <1>4, <1>5, <2>1, <2>2, <2>4, PathCircles
    <3> QED BY <1>1, <1>4, <2>4, <3>1, FailsKeep
  <2>5. CASE /\ ~ Contains(walk.path, e.target)
             /\ Walks(ComeTo([walk EXCEPT !.trace = Append(@, e), !.path = Append(@, e.target)], e.target))
    <3>1. e.target = Onward(Last(walk.path)) /\ e.target \notin ToSet(walk.path)
      BY <2>1, <2>2, <2>5
    <3> HIDE DEF e, F
    <3>2. Walked(ComeTo([walk EXCEPT !.trace = Append(@, e), !.path = Append(@, e.target)], e.target), F)
      BY <1>1, <1>2, <3>1, WalkedOn
    <3> QED BY <1>1, <2>5, <3>2, WalksKeep DEF F
  <2> QED BY <1>9, <2>3, <2>4, <2>5 DEF WalkStep
<1> QED BY <1>7, <1>8, <1>9 DEF WalkStep

LEMMA DoneKeeps == ASSUME QueryIInv, WalkDone PROVE QueryIInv'
<1> DEFINE F == ToSet(Seeds(ranked))
           t == walk.targets
           x == AssembleContext(t)
           found == {m \in QueryNodes : IsTarget(m) /\ \E n \in F, i \in 0 .. NodeCount : WayFrom(n)[i] = m}
<1>1. query.phase = "walking" /\ Walking /\ walk.path = <<>> /\ walk.seeds = <<>> /\ walk' = walk
  BY DEF WalkDone, Walking
<1>2. Walked(walk, F)
  BY <1>1, WalkingIs
<1>3. t \in Seq(QueryNodes) /\ IsInjective(t)
  BY <1>2 DEF Walked, IsWalk
<1>4. query' = [phase |-> "done", mode |-> "graph", filters |-> query.filters,
                listed |-> query.listed, moved |-> query.moved]
  BY <1>1, WalkingIs DEF QueryIInv, WalkDone
<1>5. graph' = graph /\ ranked' = ranked /\ IsGraph(graph)
  BY DEF WalkDone, Walking, QueryIInv
<1>6. answer'.results = t /\ answer'.context = x /\ answer'.error = ""
  BY DEF WalkDone
<1>7. ToSet(walk.seeds) = {}
  BY <1>1 DEF ToSet
<1>8. /\ \A m \in ToSet(t) : m \in QueryNodes /\ IsTarget(m)
      /\ \A m \in ToSet(t) : \E n \in F, i \in 0 .. NodeCount : WayFrom(n)[i] = m
      /\ \A n \in F : ~ Circles(n) /\ \A i \in 0 .. NodeCount : IsTarget(WayFrom(n)[i]) => WayFrom(n)[i] \in ToSet(t)
  <2>1. \A m \in ToSet(t) : m \in QueryNodes
    BY <1>3 DEF ToSet
  <2> HIDE DEF F
  <2>2. \A m \in ToSet(t) : IsTarget(m) /\ \E n \in F, i \in 0 .. NodeCount : WayFrom(n)[i] = m
    BY <1>2 DEF Walked
  <2>3. \A n \in F : ~ Circles(n) /\ \A i \in 0 .. NodeCount : IsTarget(WayFrom(n)[i]) => WayFrom(n)[i] \in ToSet(t)
    BY <1>2, <1>7 DEF Walked
  <2> QED BY <2>1, <2>2, <2>3
<1>9. found = ToSet(t)
  <2> HIDE DEF F, t
  <2>1. \A m \in ToSet(t) : m \in found
    BY <1>8
  <2>2. \A m \in found : m \in ToSet(t)
    BY <1>8
  <2> HIDE DEF found
  <2> QED BY <2>1, <2>2
<1>10. ContextIsBall' /\ ToSet(answer'.context) \subseteq LiveNodes'
  BY <1>1, <1>3, <1>4, <1>5, <1>6, BallThen
<1>11. WalkFindsTargets'
  <2>1. ToSet(answer'.results) = found /\ Len(answer'.results) = Cardinality(found)
    <3>1. Cardinality(ToSet(t)) = Len(t)
      BY <1>3, InjectiveCount
    <3> QED BY <1>6, <1>9, <3>1
  <2>2. F = ToSet(Seeds(ranked))
        /\ found = {m \in QueryNodes : IsTarget(m) /\ \E n \in F, i \in 0 .. NodeCount : WayFrom(n)[i] = m}
    OBVIOUS
  <2>3. \A n \in F : ~ Circles(n)
    BY <1>8
  <2> HIDE DEF F, found, t, x
  <2>4. query'.filters = query.filters /\ answer'.error = ""
    BY <1>4, <1>6
  <2> QED BY <1>5, <2>1, <2>2, <2>3, <2>4, FindsThen
<1>12. AnswerIsOfNow'
  <2>1. LiveNodes' = LiveNodes
    BY <1>5, SameGraph
  <2>2. \A m \in ToSet(t) : m \in LiveNodes
    BY <1>8, QueryAssumption DEF LiveNodes, Live, IsTarget
  <2>3. ToSet(answer.results)' = ToSet(t)
    BY <1>6
  <2> HIDE DEF t, x
  <2> QED BY <1>4, <1>10, <2>1, <2>2, <2>3 DEF AnswerIsOfNow
<1>13. IsGraph(graph)' /\ (ranked \in Seq(QueryNodes))' /\ (query.filters \in QueryFilters)'
  BY <1>4, <1>5 DEF QueryIInv, QueryNodes
<1> QED BY <1>4, <1>10, <1>11, <1>12, <1>13 DEF QueryIInv

LEMMA QuietKeeps == ASSUME QueryIInv, UNCHANGED queryVars PROVE QueryIInv'
<1>1. graph' = graph /\ query' = query /\ ranked' = ranked /\ walk' = walk /\ answer' = answer
  BY DEF queryVars
<1>2. /\ LiveNodes' = LiveNodes
      /\ \A s : Within(s)' = Within(s)
      /\ \A n : IsTarget(n)' = IsTarget(n)
      /\ \A n : Onward(n)' = Onward(n)
      /\ \A n : WayFrom(n)' = WayFrom(n)
      /\ \A r : Seeds(r)' = Seeds(r)
  BY <1>1, SameGraph, SameFilters
<1>3. ContextIsBall'
  <2>1. Within(ToSet(IF query.mode = "flat" THEN ranked ELSE walk.targets) \cap LiveNodes)'
          = Within(ToSet(IF query.mode = "flat" THEN ranked ELSE walk.targets) \cap LiveNodes)
    BY <1>1, <1>2
  <2> QED BY <1>1, <2>1 DEF QueryIInv, ContextIsBall, Answered
<1>4. AnswerIsOfNow'
  BY <1>1, <1>2 DEF QueryIInv, AnswerIsOfNow, Answered
<1>5. WalkFindsTargets'
  <2> DEFINE F == ToSet(Seeds(ranked))
             found == {m \in QueryNodes : IsTarget(m) /\ \E n \in F, i \in 0 .. NodeCount : WayFrom(n)[i] = m}
  <2>1. CASE query.mode = "graph" /\ query.phase = "done"
    <3>1. /\ answer.error = "" => ToSet(answer.results) = found /\ Len(answer.results) = Cardinality(found)
          /\ answer.error = "" => \A n \in F : ~ Circles(n)
          /\ answer.error = "CycleDetected" => \E n \in F : Circles(n)
          /\ answer.error = "HopLimitExceeded" =>
               \E n \in F : \A i \in 0 .. MaxHops + 1 : ~ IsTarget(WayFrom(n)[i]) /\ Onward(WayFrom(n)[i]) # WayFrom(n)[i]
      BY <2>1 DEF QueryIInv, WalkFindsTargets
    <3>2. F = ToSet(Seeds(ranked))
          /\ found = {m \in QueryNodes : IsTarget(m) /\ \E n \in F, i \in 0 .. NodeCount : WayFrom(n)[i] = m}
      OBVIOUS
    <3> HIDE DEF F, found
    <3> QED BY <1>1, <3>1, <3>2, FindsThen
  <2>2. CASE ~ (query.mode = "graph" /\ query.phase = "done")
    BY <1>1, <2>2 DEF WalkFindsTargets
  <2> QED BY <2>1, <2>2
<1>6. query.phase = "walking" => Walked(walk, ToSet(Seeds(ranked)))'
  BY <1>1, WalkedThen DEF QueryIInv
<1>7. IsGraph(graph)' /\ (ranked \in Seq(QueryNodes))' /\ (query.filters \in QueryFilters)'
  BY <1>1 DEF QueryIInv, QueryNodes
<1> QED BY <1>1, <1>3, <1>4, <1>5, <1>6, <1>7 DEF QueryIInv

LEMMA QueryStep == QueryIInv /\ [QueryNext]_queryVars => QueryIInv'
<1> SUFFICES ASSUME QueryIInv, [QueryNext]_queryVars PROVE QueryIInv'
  OBVIOUS
<1>1. CASE \E mode \in {"flat", "graph"}, filters \in QueryFilters : StartQuery(mode, filters)
  BY <1>1, StartKeeps
<1>2. CASE StoreMoves
  BY <1>2, MovesKeep
<1>3. CASE \E r \in QueryRankings : Scored(r)
  <2>1. PICK r \in QueryRankings : Scored(r)
    BY <1>3
  <2>2. query.mode \in {"flat", "graph"}
    BY DEF QueryIInv
  <2> QED BY <2>1, <2>2, FlatKeeps, GraphKeeps
<1>4. CASE NextSeed
  BY <1>4, SeedKeeps
<1>5. CASE WalkStep
  BY <1>5, StepKeeps
<1>6. CASE WalkDone
  BY <1>6, DoneKeeps
<1>7. CASE UNCHANGED queryVars
  BY <1>7, QuietKeeps
<1> QED BY <1>1, <1>2, <1>3, <1>4, <1>5, <1>6, <1>7 DEF QueryNext

LEMMA QueryAlways == QuerySpec => []QueryIInv
BY QueryInitInv, QueryStep, PTL DEF QuerySpec

\* Whatever the store, the ranking and the bounds: the context of an answer is the ball around its seeds, complete
\* when there is room and full when there is not, nearer nodes first (assembleContext, retrieval.ts).
THEOREM ContextStaysBall == QuerySpec => []ContextIsBall
<1>1. QueryIInv => ContextIsBall
  BY DEF QueryIInv
<1> QED BY <1>1, QueryAlways, PTL

\* For any references between any number of nodes: a walk that answers has found exactly the facts its seeds lead to,
\* each once, and one that fails has met a circle or a way beyond its bound (walkReferenceGraph, retrieval.ts).
THEOREM WalksEndRight == QuerySpec => []WalkFindsTargets
<1>1. QueryIInv => WalkFindsTargets
  BY DEF QueryIInv
<1> QED BY <1>1, QueryAlways, PTL

\* Whatever the store loses while a query waits for its ranking: what the answer names is looked up after that
\* (ragQuery, retrieval.ts).
THEOREM AnswersStayOfNow == QuerySpec => []AnswerIsOfNow
<1>1. QueryIInv => AnswerIsOfNow
  BY DEF QueryIInv
<1> QED BY <1>1, QueryAlways, PTL

----------------------------------------------------------------------------
(* Documents: the edges of a flow                                           *)

LEMMA EdgeIs ==
  ASSUME NEW e \in PossibleEdges
  PROVE  /\ e.source \in Sections /\ e.target \in Roots \cup Sections
         /\ e.documentIds \subseteq Roots
         /\ e.kind \in {"doc-child", "next-section"} => e.target \in Sections
         /\ e.kind = "doc-child" => e.documentIds = {}
         /\ e.kind \in {"doc-head", "doc-end"} => e.documentIds = {e.target}
  BY DEF PossibleEdges, FlowEdge

LEMMA KindIs ==
  ASSUME NEW EE, NEW E \in Seq(EE), NEW kind
  PROVE  /\ OfKind(E, kind) \in Seq(EE)
         /\ ToSet(OfKind(E, kind)) = {e \in ToSet(E) : e.kind = kind}
         /\ IsInjective(E) => IsInjective(OfKind(E, kind))
<1> DEFINE S == {e \in ToSet(E) : e.kind = kind}
<1>1. ToSet(E) \cap S = S
  OBVIOUS
<1> HIDE DEF S
<1>2. /\ Filtered(E, S) \in Seq(EE) /\ ToSet(Filtered(E, S)) = ToSet(E) \cap S
      /\ IsInjective(E) => IsInjective(Filtered(E, S))
  BY FilteredIs
<1> QED BY <1>1, <1>2 DEF OfKind, S

LEMMA ScopedIs ==
  ASSUME NEW EE, NEW E \in Seq(EE), NEW d
  PROVE  /\ EdgesForDocument(E, d) \in Seq(EE)
         /\ ToSet(EdgesForDocument(E, d)) =
              {e \in ToSet(E) : /\ d \in e.documentIds \/ e.kind = "doc-child"
                                /\ \E f \in ToSet(E) : d \in f.documentIds}
         /\ IsInjective(E) => IsInjective(EdgesForDocument(E, d))
<1> DEFINE S == {e \in ToSet(E) : d \in e.documentIds \/ e.kind = "doc-child"}
<1>1. CASE \E e \in ToSet(E) : d \in e.documentIds
  <2>1. ToSet(E) \cap S = S
    OBVIOUS
  <2>2. EdgesForDocument(E, d) = Filtered(E, S)
    BY <1>1 DEF EdgesForDocument
  <2>3. S = {e \in ToSet(E) : /\ d \in e.documentIds \/ e.kind = "doc-child"
                              /\ \E f \in ToSet(E) : d \in f.documentIds}
    BY <1>1
  <2> HIDE DEF S
  <2>4. /\ Filtered(E, S) \in Seq(EE) /\ ToSet(Filtered(E, S)) = ToSet(E) \cap S
        /\ IsInjective(E) => IsInjective(Filtered(E, S))
    BY FilteredIs
  <2> QED BY <2>1, <2>2, <2>3, <2>4
<1>2. CASE ~ \E e \in ToSet(E) : d \in e.documentIds
  <2>1. EdgesForDocument(E, d) = <<>>
    BY <1>2 DEF EdgesForDocument
  <2> QED BY <1>2, <2>1 DEF ToSet, IsInjective
<1> QED BY <1>1, <1>2

\* What is in a list is one of its places.
LEMMA ToSetIs ==
  ASSUME NEW T, NEW s \in Seq(T)
  PROVE  /\ Len(s) \in Nat /\ DOMAIN s = 1 .. Len(s) /\ ToSet(s) \subseteq T
         /\ \A x : x \in ToSet(s) <=> \E i \in 1 .. Len(s) : s[i] = x
  BY DEF ToSet

\* No more places are taken than there are.
LEMMA NoRoom ==
  ASSUME NEW m \in Nat, NEW n \in Nat, NEW f \in [1 .. m -> 1 .. n], IsInjective(f)
  PROVE  m <= n
<1>1. /\ IsFiniteSet(1 .. m) /\ Cardinality(1 .. m) = m
      /\ IsFiniteSet(1 .. n) /\ Cardinality(1 .. n) = n
  BY FS_Interval
<1>2. f \in Injection(1 .. m, 1 .. n)
  BY DEF Injection, IsInjective
<1> QED BY <1>1, <1>2, FS_Injection

----------------------------------------------------------------------------
(* What lies below a node                                                   *)

DownClosed(E, T) == \A e \in ToSet(E) : e.kind = "doc-child" /\ e.source \in T => e.target \in T

\* How the set of the nodes below S grows.
Growing(E, S, grow) ==
  LET down == OfKind(E, "doc-child")
  IN /\ grow[0] = S /\ Closure(E, S) = grow[Len(down)]
     /\ \A k \in 1 .. Len(down) : grow[k] = grow[k - 1] \cup Targets(down, grow[k - 1])

LEMMA GrowingExists ==
  ASSUME NEW EE, NEW E \in Seq(EE), NEW S
  PROVE  \E grow : Growing(E, S, grow)
<1> DEFINE down == OfKind(E, "doc-child")
           K == Len(down)
           U == S \cup {e.target : e \in ToSet(down)}
           step == [k \in 1 .. K |-> [X \in SUBSET U |-> X \cup Targets(down, X)]]
           grow == CHOOSE f : f = [k \in 0 .. K |-> IF k = 0 THEN S ELSE f[k - 1] \cup Targets(down, f[k - 1])]
<1>1. K \in Nat /\ S \in SUBSET U
  BY KindIs
<1>2. \A X : Targets(down, X) \subseteq U
  BY DEF Targets
<1>3. step \in [1 .. K -> [SUBSET U -> SUBSET U]]
  BY <1>2
<1>4. Closure(E, S) = grow[K]
  BY DEF Closure
<1> HIDE DEF step, down, K, U
<1>5. PICK f : Iterates(SUBSET U, S, step, K, f)
  BY <1>1, <1>3, IterationExists
<1>6. f = [k \in 0 .. K |-> IF k = 0 THEN S ELSE f[k - 1] \cup Targets(down, f[k - 1])]
  <2>1. f \in [0 .. K -> SUBSET U] /\ f[0] = S /\ \A k \in 1 .. K : f[k] = step[k][f[k - 1]]
    BY <1>5 DEF Iterates
  <2>2. ASSUME NEW k \in 1 .. K PROVE f[k] = f[k - 1] \cup Targets(down, f[k - 1])
    <3>1. k - 1 \in 0 .. K
      BY <1>1
    <3>2. f[k - 1] \in SUBSET U
      BY <2>1, <3>1
    <3> QED BY <2>1, <3>2 DEF step
  <2>3. \A k \in 0 .. K : k = 0 \/ k \in 1 .. K
    BY <1>1
  <2>4. \A k \in 0 .. K : f[k] = IF k = 0 THEN S ELSE f[k - 1] \cup Targets(down, f[k - 1])
    BY <2>1, <2>2, <2>3, Zenon
  <2> QED BY <2>1, <2>4
<1>7. grow = [k \in 0 .. K |-> IF k = 0 THEN S ELSE grow[k - 1] \cup Targets(down, grow[k - 1])]
  BY <1>6
<1> HIDE DEF grow
<1>8. grow[0] = S /\ \A k \in 1 .. K : grow[k] = grow[k - 1] \cup Targets(down, grow[k - 1])
  <2>1. \A k \in 0 .. K : grow[k] = IF k = 0 THEN S ELSE grow[k - 1] \cup Targets(down, grow[k - 1])
    BY <1>7, Zenon
  <2>2. 0 \in 0 .. K /\ \A k \in 1 .. K : k \in 0 .. K /\ k # 0
    BY <1>1
  <2> QED BY <2>1, <2>2
<1> QED BY <1>4, <1>8 DEF Growing, down, K

\* It is the least set that has S and goes down from each of its nodes.
LEMMA ClosureIs ==
  ASSUME NEW EE, NEW E \in Seq(EE), NEW S
  PROVE  /\ S \subseteq Closure(E, S) /\ DownClosed(E, Closure(E, S))
         /\ \A T : S \subseteq T /\ DownClosed(E, T) => Closure(E, S) \subseteq T
<1> DEFINE down == OfKind(E, "doc-child")
           K == Len(down)
<1>1. PICK grow : Growing(E, S, grow)
  BY GrowingExists
<1>2. down \in Seq(EE) /\ ToSet(down) = {e \in ToSet(E) : e.kind = "doc-child"} /\ K \in Nat
  BY KindIs
<1>3. /\ grow[0] = S /\ Closure(E, S) = grow[K]
      /\ \A k \in 1 .. K : grow[k] = grow[k - 1] \cup Targets(down, grow[k - 1])
  BY <1>1 DEF Growing
<1>4. \A X, y : y \in Targets(down, X) <=> \E e \in ToSet(down) : e.source \in X /\ e.target = y
  BY DEF Targets
<1>5. \A X : DownClosed(E, X) <=> Targets(down, X) \subseteq X
  BY <1>2, <1>4 DEF DownClosed
<1> HIDE DEF down, K
<1>6. ASSUME NEW k \in 0 .. K - 1
      PROVE  grow[k + 1] = grow[k] \cup Targets(down, grow[k])
  <2>1. k + 1 \in 1 .. K /\ (k + 1) - 1 = k
    BY <1>2
  <2> QED BY <1>3, <2>1
<1>7. S \subseteq grow[K]
  <2> DEFINE G == {k \in 0 .. K : S \subseteq grow[k]}
  <2>1. 0 \in G /\ \A k \in 0 .. K - 1 : k \in G => k + 1 \in G
    BY <1>2, <1>3, <1>6
  <2> HIDE DEF G
  <2>2. 0 .. K \subseteq G
    BY <1>2, <2>1, UpTo
  <2> QED BY <1>2, <2>2 DEF G
<1>8. ASSUME NEW T, S \subseteq T, DownClosed(E, T) PROVE grow[K] \subseteq T
  <2> DEFINE G == {k \in 0 .. K : grow[k] \subseteq T}
  <2>1. \A k \in 0 .. K - 1 : grow[k] \subseteq T => Targets(down, grow[k]) \subseteq T
    BY <1>2, <1>4, <1>8 DEF DownClosed
  <2>2. 0 \in G /\ \A k \in 0 .. K - 1 : k \in G => k + 1 \in G
    BY <1>2, <1>3, <1>6, <1>8, <2>1
  <2> HIDE DEF G
  <2>3. 0 .. K \subseteq G
    BY <1>2, <2>2, UpTo
  <2> QED BY <1>2, <2>3 DEF G
\* Until it is closed, each step has one more edge with its source in the set.
<1> DEFINE used(k) == {j \in 1 .. K : down[j].source \in grow[k]}
           G == {k \in 0 .. K : DownClosed(E, grow[k]) \/ Cardinality(used(k)) >= k + 1}
<1>9. \A k : IsFiniteSet(used(k)) /\ Cardinality(used(k)) \in Nat /\ Cardinality(used(k)) <= K
  <2>1. IsFiniteSet(1 .. K) /\ Cardinality(1 .. K) = K
    BY <1>2, FS_Interval
  <2>2. \A k : used(k) \subseteq 1 .. K
    OBVIOUS
  <2> HIDE DEF used
  <2> QED BY <2>1, <2>2, FS_Subset, FS_CardinalityType
<1>10. \A x : x \in ToSet(down) <=> \E j \in 1 .. K : down[j] = x
  BY <1>2, ToSetIs DEF K
<1>11. 0 \in G
  <2>1. ASSUME ~ DownClosed(E, grow[0]) PROVE Cardinality(used(0)) >= 1
    <3>1. PICK e \in ToSet(down) : e.source \in grow[0]
      BY <1>4, <1>5, <2>1
    <3>2. PICK j \in 1 .. K : down[j] = e
      BY <1>10
    <3>3. used(0) # {}
      BY <3>1, <3>2
    <3> HIDE DEF used
    <3> QED BY <1>9, <3>3, FS_EmptySet
  <2> QED BY <1>2, <2>1
<1>12. ASSUME NEW k \in 0 .. K - 1, k \in G PROVE k + 1 \in G
  <2>1. CASE DownClosed(E, grow[k])
    <3>1. grow[k + 1] = grow[k]
      BY <1>5, <1>6, <2>1
    <3> QED BY <1>2, <2>1, <3>1
  <2>2. CASE ~ DownClosed(E, grow[k]) /\ ~ DownClosed(E, grow[k + 1])
    <3>1. grow[k] \subseteq grow[k + 1] /\ Targets(down, grow[k]) \subseteq grow[k + 1]
      BY <1>6
    <3>2. PICK e \in ToSet(down) : e.source \in grow[k + 1] /\ e.target \notin grow[k + 1]
      BY <1>2, <2>2 DEF DownClosed
    <3>3. e.source \notin grow[k]
      BY <1>4, <3>1, <3>2
    <3>4. PICK j \in 1 .. K : down[j] = e
      BY <1>10
    <3>5. used(k) \subseteq used(k + 1) /\ j \in used(k + 1) /\ j \notin used(k)
      BY <3>1, <3>2, <3>3, <3>4
    <3>6. Cardinality(used(k)) >= k + 1
      BY <1>12, <2>2
    <3> HIDE DEF used
    <3>7. Cardinality(used(k)) < Cardinality(used(k + 1))
      BY <1>9, <3>5, FS_Subset
    <3>8. Cardinality(used(k + 1)) >= (k + 1) + 1 /\ k + 1 \in 0 .. K
      BY <1>2, <1>9, <3>6, <3>7
    <3> QED BY <3>8
  <2>3. k + 1 \in 0 .. K
    BY <1>2
  <2> HIDE DEF used
  <2> QED BY <2>1, <2>2, <2>3
<1>13. DownClosed(E, grow[K])
  <2>1. \A k \in 0 .. K - 1 : k \in G => k + 1 \in G
    BY <1>12
  <2> HIDE DEF G
  <2>2. 0 .. K \subseteq G
    BY <1>2, <1>11, <2>1, UpTo
  <2>3. K \in G
    BY <1>2, <2>2
  <2> USE DEF G
  <2> HIDE DEF used
  <2> QED BY <1>2, <1>9, <2>3
<1> QED BY <1>3, <1>7, <1>8, <1>13

----------------------------------------------------------------------------
(* What follows a head                                                      *)

Next(E, n) == Targets(OfKind(E, "next-section"), {n})

\* What comes next is in N.
NextIn(E, N) == \A e \in ToSet(E) : e.kind = "next-section" => e.target \in N

\* How the walk from head goes on.
Following(E, head, trail, N) ==
  LET K == Len(OfKind(E, "next-section"))
  IN /\ trail \in [0 .. K -> Seq(N)] /\ trail[0] = <<head>> /\ Followed(E, head) = trail[K]
     /\ \A k \in 1 .. K : trail[k] = IF Next(E, Last(trail[k - 1])) = {} \/ ~ IsInjective(trail[k - 1]) THEN trail[k - 1]
                                     ELSE Append(trail[k - 1], CHOOSE n \in Next(E, Last(trail[k - 1])) : TRUE)

LEMMA NextIs ==
  ASSUME NEW EE, NEW N, NEW E \in Seq(EE), NextIn(E, N), NEW n
  PROVE  /\ \A m : m \in Next(E, n) <=> \E e \in ToSet(E) : e.kind = "next-section" /\ e.source = n /\ e.target = m
         /\ Next(E, n) \subseteq N
<1>1. ToSet(OfKind(E, "next-section")) = {e \in ToSet(E) : e.kind = "next-section"}
  BY KindIs
<1> QED BY <1>1 DEF Next, Targets, NextIn

LEMMA PossibleNext == ASSUME NEW E \in Seq(PossibleEdges) PROVE NextIn(E, Sections)
<1>1. ToSet(E) \subseteq PossibleEdges
  BY ToSetIs
<1> QED BY <1>1, EdgeIs DEF NextIn

LEMMA FollowingExists ==
  ASSUME NEW EE, NEW N, NEW E \in Seq(EE), NextIn(E, N), NEW head \in N
  PROVE  \E trail : Following(E, head, trail, N)
<1> DEFINE next == OfKind(E, "next-section")
           K == Len(next)
           on(s) == IF Targets(next, {Last(s)}) = {} \/ ~ IsInjective(s) THEN s
                    ELSE Append(s, CHOOSE n \in Targets(next, {Last(s)}) : TRUE)
           step == [k \in 1 .. K |-> [s \in Seq(N) |-> on(s)]]
           trail == CHOOSE f : f = [k \in 0 .. K |-> IF k = 0 THEN <<head>> ELSE on(f[k - 1])]
<1>1. K \in Nat /\ <<head>> \in Seq(N)
  BY KindIs
<1>2. \A n : Targets(next, {n}) \subseteq N
  BY NextIs DEF Next
<1>3. ASSUME NEW s \in Seq(N) PROVE on(s) \in Seq(N)
  <2> DEFINE after == Targets(next, {Last(s)})
             n == CHOOSE m \in after : TRUE
  <2>1. after \subseteq N /\ (after # {} => n \in after)
    BY <1>2
  <2>2. on(s) = IF after = {} \/ ~ IsInjective(s) THEN s ELSE Append(s, n)
    OBVIOUS
  <2> HIDE DEF after, n, on
  <2> QED BY <2>1, <2>2
<1>4. step \in [1 .. K -> [Seq(N) -> Seq(N)]]
  BY <1>3
<1>5. Followed(E, head) = trail[K]
  BY DEF Followed
<1> HIDE DEF on
<1>6. PICK f : Iterates(Seq(N), <<head>>, step, K, f)
  <2> HIDE DEF step, K
  <2> QED BY <1>1, <1>4, IterationExists
<1>7. f \in [0 .. K -> Seq(N)] /\ f[0] = <<head>> /\ \A k \in 1 .. K : f[k] = step[k][f[k - 1]]
  BY <1>6 DEF Iterates
<1>8. \A k \in 1 .. K : f[k] = on(f[k - 1])
  <2> HIDE DEF K
  <2>1. \A k \in 1 .. K : k - 1 \in 0 .. K
    BY <1>1
  <2> QED BY <1>7, <2>1 DEF step
<1> HIDE DEF step, K
<1>9. f = [k \in 0 .. K |-> IF k = 0 THEN <<head>> ELSE on(f[k - 1])]
  <2>1. \A k \in 0 .. K : k = 0 \/ k \in 1 .. K
    BY <1>1
  <2>2. \A k \in 0 .. K : f[k] = IF k = 0 THEN <<head>> ELSE on(f[k - 1])
    BY <1>7, <1>8, <2>1, Zenon
  <2> QED BY <1>7, <2>2
<1>10. trail = [k \in 0 .. K |-> IF k = 0 THEN <<head>> ELSE on(trail[k - 1])]
  BY <1>9
<1> HIDE DEF trail
<1> DEFINE G == {k \in 0 .. K : trail[k] = f[k]}
<1>11. ASSUME NEW k \in 0 .. K PROVE trail[k] = IF k = 0 THEN <<head>> ELSE on(trail[k - 1])
  BY <1>10, Zenon
<1>12. trail[0] = <<head>>
  BY <1>1, <1>11
<1>13. ASSUME NEW k \in 1 .. K PROVE trail[k] = on(trail[k - 1])
  <2>1. k \in 0 .. K /\ k # 0
    BY <1>1
  <2> QED BY <1>11, <2>1
<1>14. 0 .. K \subseteq G
  <2>1. 0 \in G
    <3>1. 0 \in 0 .. K
      BY <1>1
    <3>2. trail[0] = f[0]
      BY <1>7, <1>12, Zenon
    <3> QED BY <3>1, <3>2
  <2>2. ASSUME NEW k \in 0 .. K - 1, k \in G PROVE k + 1 \in G
    <3>1. k + 1 \in 1 .. K /\ (k + 1) - 1 = k /\ k + 1 \in 0 .. K
      BY <1>1
    <3>2. trail[k + 1] = on(trail[k]) /\ f[k + 1] = on(f[k])
      BY <1>8, <1>13, <3>1
    <3> QED BY <2>2, <3>1, <3>2
  <2> HIDE DEF G
  <2> QED BY <1>1, <2>1, <2>2, UpTo
<1>15. trail \in [0 .. K -> Seq(N)]
  <2>1. \A k \in 0 .. K : trail[k] \in Seq(N)
    BY <1>7, <1>14
  <2> QED BY <1>10, <2>1
<1> QED BY <1>5, <1>12, <1>13, <1>15 DEF Following, Next, on, K

\* A list along which each section follows the one before, from head.
Leads(E, head, s, N) ==
  /\ s \in Seq(N) /\ Len(s) >= 1 /\ s[1] = head
  /\ \A i \in 1 .. Len(s) - 1 : s[i + 1] \in Next(E, s[i])

LEMMA LeadsOn ==
  ASSUME NEW EE, NEW N, NEW E \in Seq(EE), NextIn(E, N), NEW head, NEW s, Leads(E, head, s, N), NEW n \in Next(E, Last(s))
  PROVE  Leads(E, head, Append(s, n), N) /\ Len(Append(s, n)) = Len(s) + 1
<1> DEFINE a == Append(s, n)
<1>1. s \in Seq(N) /\ Len(s) \in Nat /\ Len(s) >= 1 /\ n \in N
  BY NextIs DEF Leads
<1>2. a \in Seq(N) /\ Len(a) = Len(s) + 1 /\ a[Len(s) + 1] = n /\ \A i \in 1 .. Len(s) : a[i] = s[i]
  BY <1>1
<1> HIDE DEF a
<1>3. ASSUME NEW i \in 1 .. Len(s) PROVE a[i + 1] \in Next(E, a[i])
  <2>1. CASE i = Len(s)
    BY <1>1, <1>2, <2>1 DEF Last
  <2>2. CASE i # Len(s)
    <3>1. i \in 1 .. Len(s) - 1 /\ i + 1 \in 1 .. Len(s)
      BY <1>1, <2>2
    <3> QED BY <1>2, <3>1 DEF Leads
  <2> QED BY <2>1, <2>2
<1>4. a[1] = head
  BY <1>1, <1>2 DEF Leads
<1>5. Leads(E, head, a, N)
  BY <1>1, <1>2, <1>3, <1>4 DEF Leads
<1> QED BY <1>2, <1>5 DEF a

LEMMA FollowedLeads ==
  ASSUME NEW EE, NEW N, NEW E \in Seq(EE), NextIn(E, N), NEW head \in N
  PROVE  Leads(E, head, Followed(E, head), N)
<1> DEFINE K == Len(OfKind(E, "next-section"))
<1>1. K \in Nat
  BY KindIs
<1>2. PICK trail : Following(E, head, trail, N)
  BY FollowingExists
<1> HIDE DEF K
<1>3. /\ trail[0] = <<head>> /\ Followed(E, head) = trail[K]
      /\ \A k \in 1 .. K : trail[k] = IF Next(E, Last(trail[k - 1])) = {} \/ ~ IsInjective(trail[k - 1]) THEN trail[k - 1]
                                     ELSE Append(trail[k - 1], CHOOSE n \in Next(E, Last(trail[k - 1])) : TRUE)
  BY <1>2 DEF Following, K
<1> DEFINE G == {k \in 0 .. K : Leads(E, head, trail[k], N)}
<1>4. 0 \in G
  <2>1. <<head>> \in Seq(N) /\ Len(<<head>>) = 1 /\ <<head>>[1] = head
    OBVIOUS
  <2>2. Leads(E, head, <<head>>, N)
    BY <2>1 DEF Leads
  <2>3. Leads(E, head, trail[0], N)
    BY <1>3, <2>2, Zenon
  <2> QED BY <1>1, <2>3
<1>5. ASSUME NEW k \in 0 .. K - 1, k \in G PROVE k + 1 \in G
  <2>1. k + 1 \in 1 .. K /\ (k + 1) - 1 = k /\ k + 1 \in 0 .. K
    BY <1>1
  <2> DEFINE s == trail[k]
             n == CHOOSE m \in Next(E, Last(s)) : TRUE
  <2>2. trail[k + 1] = IF Next(E, Last(s)) = {} \/ ~ IsInjective(s) THEN s ELSE Append(s, n)
    BY <1>3, <2>1
  <2>3. Leads(E, head, s, N)
    BY <1>5
  <2>4. Next(E, Last(s)) # {} => n \in Next(E, Last(s))
    OBVIOUS
  <2> HIDE DEF s, n
  <2>5. Leads(E, head, trail[k + 1], N)
    BY <2>2, <2>3, <2>4, LeadsOn
  <2> QED BY <2>1, <2>5
<1>6. 0 .. K \subseteq G
  <2> HIDE DEF G
  <2> QED BY <1>1, <1>4, <1>5, UpTo
<1> QED BY <1>1, <1>3, <1>6

----------------------------------------------------------------------------
(* What a valid flow is made of                                             *)

OwnOf(E, d, kind) == {e \in ToSet(E) : e.kind = kind /\ d \in e.documentIds}

LEMMA OwnIs ==
  ASSUME NEW EE, NEW E \in Seq(EE), NEW d, NEW kind, kind # "doc-child"
  PROVE  /\ OfKind(EdgesForDocument(E, d), kind) \in Seq(EE)
         /\ ToSet(OfKind(EdgesForDocument(E, d), kind)) = OwnOf(E, d, kind)
         /\ IsInjective(E) => IsInjective(OfKind(EdgesForDocument(E, d), kind))
<1> DEFINE scoped == EdgesForDocument(E, d)
<1>1. /\ scoped \in Seq(EE) /\ (IsInjective(E) => IsInjective(scoped))
      /\ ToSet(scoped) = {e \in ToSet(E) : /\ d \in e.documentIds \/ e.kind = "doc-child"
                                           /\ \E f \in ToSet(E) : d \in f.documentIds}
  BY ScopedIs
<1> HIDE DEF scoped
<1>2. /\ OfKind(scoped, kind) \in Seq(EE)
      /\ ToSet(OfKind(scoped, kind)) = {e \in ToSet(scoped) : e.kind = kind}
      /\ IsInjective(scoped) => IsInjective(OfKind(scoped, kind))
  BY <1>1, KindIs
<1>3. {e \in ToSet(scoped) : e.kind = kind} = OwnOf(E, d, kind)
  BY <1>1 DEF OwnOf
<1> QED BY <1>1, <1>2, <1>3 DEF scoped

\* What is checked of a valid flow, e being its head.
IsValid(E, d, e, order) ==
  /\ OwnOf(E, d, "doc-head") = {e}
  /\ order = Followed(EdgesForDocument(E, d), e.source)
  /\ \A f, g \in OwnOf(E, d, "next-section") : f.source = g.source => f = g
  /\ IsInjective(order)
  /\ ~ HasCycle(EdgesForDocument(E, d))
  /\ OfKind(EdgesForDocument(E, d), "doc-end") # <<>>
  /\ Head(OfKind(EdgesForDocument(E, d), "doc-end")).source = Last(order)

LEMMA HeadIsOnly ==
  ASSUME NEW EE, NEW E \in Seq(EE), NEW d, IsInjective(E)
  PROVE  LET heads == OfKind(EdgesForDocument(E, d), "doc-head")
         IN /\ Len(heads) = 1 => OwnOf(E, d, "doc-head") = {heads[1]}
            /\ \A e : OwnOf(E, d, "doc-head") = {e} => Len(heads) = 1 /\ heads[1] = e
<1> DEFINE heads == OfKind(EdgesForDocument(E, d), "doc-head")
<1>1. heads \in Seq(EE) /\ ToSet(heads) = OwnOf(E, d, "doc-head") /\ IsInjective(heads)
  BY OwnIs
<1> HIDE DEF heads
<1>2. Len(heads) \in Nat /\ \A x : x \in ToSet(heads) <=> \E i \in 1 .. Len(heads) : heads[i] = x
  BY <1>1, ToSetIs
<1>3. Cardinality(ToSet(heads)) = Len(heads)
  BY <1>1, InjectiveCount
<1>4. ASSUME Len(heads) = 1 PROVE ToSet(heads) = {heads[1]}
  BY <1>2, <1>4
<1>5. ASSUME NEW e, ToSet(heads) = {e} PROVE Len(heads) = 1 /\ heads[1] = e
  <2>1. Len(heads) = 1
    BY <1>3, <1>5, FS_Singleton
  <2> QED BY <1>2, <1>5, <2>1
<1> QED BY <1>1, <1>4, <1>5 DEF heads

LEMMA VerdictIs ==
  ASSUME NEW EE, NEW E \in Seq(EE), NEW d, IsInjective(E)
  PROVE  LET verdict == ValidateDocFlow(E, d)
         IN /\ verdict.ok \in BOOLEAN
            /\ verdict.ok => \E e : IsValid(E, d, e, verdict.order)
            /\ ~ verdict.ok => verdict.order = <<>>
            /\ \A e, order : IsValid(E, d, e, order) => verdict.ok /\ verdict.order = order
<1> DEFINE scoped == EdgesForDocument(E, d)
           heads == OfKind(scoped, "doc-head")
           ends == OfKind(scoped, "doc-end")
           order == Followed(scoped, heads[1].source)
           verdict == ValidateDocFlow(E, d)
           two == \E e, f \in ToSet(OfKind(scoped, "next-section")) : e # f /\ e.source = f.source
           valid == /\ Len(heads) = 1 /\ ~ two /\ IsInjective(order) /\ ~ HasCycle(scoped)
                    /\ ends # <<>> /\ Head(ends).source = Last(order)
<1>1. /\ valid => verdict.ok = TRUE /\ verdict.order = order
      /\ ~ valid => verdict.ok = FALSE /\ verdict.order = <<>>
  BY Zenon DEF ValidateDocFlow, Broken
<1>2. /\ Len(heads) = 1 => OwnOf(E, d, "doc-head") = {heads[1]}
      /\ \A e : OwnOf(E, d, "doc-head") = {e} => Len(heads) = 1 /\ heads[1] = e
  BY HeadIsOnly
<1>3. ToSet(OfKind(scoped, "next-section")) = OwnOf(E, d, "next-section")
  BY OwnIs
<1>4. two <=> ~ \A f, g \in OwnOf(E, d, "next-section") : f.source = g.source => f = g
  BY <1>3
<1> HIDE DEF verdict, two
<1>5. valid => IsValid(E, d, heads[1], order)
  BY <1>2, <1>4 DEF IsValid
<1>6. ASSUME NEW e, NEW o, IsValid(E, d, e, o) PROVE valid /\ o = order
  BY <1>2, <1>4, <1>6 DEF IsValid
<1> HIDE DEF valid
<1>7. /\ verdict.ok \in BOOLEAN
      /\ verdict.ok => \E e : IsValid(E, d, e, verdict.order)
      /\ ~ verdict.ok => verdict.order = <<>>
  <2>1. CASE valid
    BY <1>1, <1>5, <2>1, Zenon
  <2>2. CASE ~ valid
    BY <1>1, <2>2, Zenon
  <2> QED BY <2>1, <2>2
<1>8. ASSUME NEW e, NEW o, IsValid(E, d, e, o) PROVE verdict.ok /\ verdict.order = o
  <2>1. valid /\ o = order
    BY <1>6, <1>8
  <2> HIDE DEF order
  <2> QED BY <1>1, <2>1, Zenon
<1> QED BY <1>7, <1>8 DEF verdict

----------------------------------------------------------------------------
(* The edges of a store                                                     *)

\* Which edges a store can have: possible ones, none twice, between its nodes.
AreEdges(E, nodes) ==
  /\ E \in Seq(PossibleEdges) /\ IsInjective(E)
  /\ \A e \in ToSet(E) : e.source \in nodes /\ e.target \in nodes

FlowIInv == AreEdges(flowEdges, flowNodes) /\ flowNodes \subseteq Roots \cup Sections

LEMMA FewerEdges ==
  ASSUME NEW E, NEW nodes, AreEdges(E, nodes), NEW S, NEW left,
         \A e \in S : e.source \in left /\ e.target \in left
  PROVE  AreEdges(Filtered(E, S), left)
<1>1. E \in Seq(PossibleEdges) /\ IsInjective(E)
  BY DEF AreEdges
<1>2. /\ Filtered(E, S) \in Seq(PossibleEdges) /\ ToSet(Filtered(E, S)) = ToSet(E) \cap S
      /\ IsInjective(Filtered(E, S))
  BY <1>1, FilteredIs
<1> QED BY <1>2 DEF AreEdges

LEMMA FlowInitInv == FlowInit => FlowIInv
<1> SUFFICES ASSUME FlowInit PROVE FlowIInv
  OBVIOUS
<1>1. flowEdges \in Seq(PossibleEdges) /\ IsInjective(flowEdges) /\ flowNodes = Roots \cup Sections
  BY FlowAssumption DEF FlowInit
<1>2. ToSet(flowEdges) \subseteq PossibleEdges
  BY <1>1, ToSetIs
<1>3. \A e \in ToSet(flowEdges) : e.source \in flowNodes /\ e.target \in flowNodes
  BY <1>1, <1>2, EdgeIs
<1> QED BY <1>1, <1>3 DEF FlowIInv, AreEdges

LEMMA FlowStep == FlowIInv /\ [FlowNext]_flowVars => FlowIInv'
<1> SUFFICES ASSUME FlowIInv, [FlowNext]_flowVars PROVE FlowIInv'
  OBVIOUS
<1>1. AreEdges(flowEdges, flowNodes) /\ flowNodes \subseteq Roots \cup Sections
  BY DEF FlowIInv
<1>2. ASSUME NEW e \in PossibleEdges, PutFlowEdge(e) PROVE FlowIInv'
  <2>1. flowEdges \in Seq(PossibleEdges) /\ IsInjective(flowEdges)
    BY <1>1 DEF AreEdges
  <2>2. e.source \in flowNodes /\ e.target \in flowNodes /\ flowEdges' = Append(flowEdges, e) /\ flowNodes' = flowNodes
    BY <1>2 DEF PutFlowEdge
  <2>3. e \notin ToSet(flowEdges)
    BY <1>2, <2>1, ToSetIs DEF PutFlowEdge, Contains
  <2>4. IsInjective(Append(flowEdges, e)) /\ ToSet(Append(flowEdges, e)) = ToSet(flowEdges) \cup {e}
    BY <2>1, <2>3, InjectiveAppend, AppendSet
  <2>5. Append(flowEdges, e) \in Seq(PossibleEdges)
    BY <2>1
  <2>6. AreEdges(Append(flowEdges, e), flowNodes)
    BY <1>1, <2>2, <2>4, <2>5 DEF AreEdges
  <2> QED BY <1>1, <2>2, <2>6 DEF FlowIInv
<1>3. ASSUME NEW e \in ToSet(flowEdges), RemoveFlowEdge(e) PROVE FlowIInv'
  <2>1. \A f \in ToSet(flowEdges) \ {e} : f.source \in flowNodes /\ f.target \in flowNodes
    BY <1>1 DEF AreEdges
  <2>2. AreEdges(Filtered(flowEdges, ToSet(flowEdges) \ {e}), flowNodes)
    BY <1>1, <2>1, FewerEdges
  <2> QED BY <1>1, <1>3, <2>2 DEF FlowIInv, RemoveFlowEdge
<1>4. ASSUME NEW n \in flowNodes, RemoveFlowNode(n) PROVE FlowIInv'
  <2> DEFINE S == {e \in ToSet(flowEdges) : n \notin {e.source, e.target}}
  <2>1. \A f \in S : f.source \in flowNodes \ {n} /\ f.target \in flowNodes \ {n}
    BY <1>1 DEF AreEdges
  <2>2. flowEdges' = Filtered(flowEdges, S) /\ flowNodes' = flowNodes \ {n}
    BY <1>4 DEF RemoveFlowNode
  <2> HIDE DEF S
  <2>3. AreEdges(Filtered(flowEdges, S), flowNodes \ {n})
    BY <1>1, <2>1, FewerEdges
  <2> QED BY <1>1, <2>2, <2>3 DEF FlowIInv
<1>5. CASE UNCHANGED flowVars
  BY <1>5 DEF FlowIInv, flowVars
<1> QED BY <1>2, <1>3, <1>4, <1>5 DEF FlowNext

LEMMA FlowAlways == FlowSpec => []FlowIInv
  BY FlowInitInv, FlowStep, PTL DEF FlowSpec

----------------------------------------------------------------------------
(* Membership in a document                                                 *)

\* What an edge of the flow names is a node of the document.
LEMMA EndsAreMembers ==
  ASSUME NEW E \in Seq(PossibleEdges), NEW d, NEW e \in ToSet(E), d \in e.documentIds
  PROVE  e.source \in DocNodeIds(E, d) /\ e.target \in DocNodeIds(E, d)
<1> DEFINE flow == {f \in ToSet(EdgesForDocument(E, d)) : f.kind # "doc-child"}
           base == {d} \cup {f.source : f \in flow} \cup {f.target : f \in flow}
<1>1. e \in PossibleEdges
  BY ToSetIs
<1>2. e.kind # "doc-child"
  BY <1>1, EdgeIs
<1>3. e \in flow
  BY <1>2, ScopedIs
<1>4. e.source \in base /\ e.target \in base
  BY <1>3
<1>5. DocNodeIds(E, d) = Closure(E, base)
  BY DEF DocNodeIds
<1> HIDE DEF base
<1>6. base \subseteq Closure(E, base)
  BY ClosureIs
<1> QED BY <1>4, <1>5, <1>6

\* Every section of a valid flow is an end of one of its edges.
LEMMA OrderIs ==
  ASSUME NEW E \in Seq(PossibleEdges), NEW d, NEW e, NEW order, IsValid(E, d, e, order)
  PROVE  /\ e \in ToSet(E) /\ e \in PossibleEdges /\ e.kind = "doc-head" /\ d \in e.documentIds
         /\ Leads(EdgesForDocument(E, d), e.source, order, Sections)
         /\ \A n \in ToSet(order) : \/ n = e.source
                                     \/ \E f \in OwnOf(E, d, "next-section") : f.target = n
<1> DEFINE scoped == EdgesForDocument(E, d)
<1>1. e \in ToSet(E) /\ e.kind = "doc-head" /\ d \in e.documentIds
  BY DEF IsValid, OwnOf
<1>2. e \in PossibleEdges
  BY <1>1, ToSetIs
<1>3. scoped \in Seq(PossibleEdges)
  BY ScopedIs
<1>4. Leads(scoped, e.source, order, Sections)
  <2>1. order = Followed(scoped, e.source)
    BY DEF IsValid
  <2> HIDE DEF scoped
  <2> QED BY <1>2, <1>3, <2>1, EdgeIs, FollowedLeads, PossibleNext
<1>5. ASSUME NEW n \in ToSet(order), n # e.source PROVE \E f \in OwnOf(E, d, "next-section") : f.target = n
  <2>1. order \in Seq(Sections) /\ order[1] = e.source
    BY <1>4 DEF Leads
  <2>2. PICK i \in 1 .. Len(order) : order[i] = n
    BY <2>1, ToSetIs
  <2>3. i - 1 \in 1 .. Len(order) - 1 /\ (i - 1) + 1 = i
    BY <1>5, <2>1, <2>2
  <2>4. n \in Next(scoped, order[i - 1])
    BY <1>4, <2>2, <2>3 DEF Leads
  <2>5. ToSet(OfKind(scoped, "next-section")) = OwnOf(E, d, "next-section")
    BY OwnIs
  <2> QED BY <2>4, <2>5 DEF Next, Targets
<1> QED BY <1>1, <1>2, <1>4, <1>5

LEMMA MembershipsHold == ASSUME FlowIInv PROVE MembershipsAgree
<1> DEFINE E == flowEdges
<1>1. E \in Seq(PossibleEdges) /\ IsInjective(E)
  BY DEF FlowIInv, AreEdges
<1> HIDE DEF E
<1>2. ASSUME NEW n, NEW d \in DocumentOf(E, n) PROVE n \in DocNodeIds(E, d)
  <2>1. PICK e \in ToSet(E) : d \in e.documentIds /\ n \in {e.source, e.target}
    BY DEF DocumentOf
  <2> QED BY <1>1, <2>1, EndsAreMembers
<1>3. ASSUME NEW d \in Roots, NEW n \in ToSet(ValidateDocFlow(E, d).order)
      PROVE  d \in DocumentOf(E, n) /\ d \in DocumentIdsForNode(E, n)
  <2> DEFINE verdict == ValidateDocFlow(E, d)
  <2>1. /\ verdict.ok \in BOOLEAN
        /\ verdict.ok => \E e : IsValid(E, d, e, verdict.order)
        /\ ~ verdict.ok => verdict.order = <<>>
    BY <1>1, VerdictIs
  <2>2. verdict.ok
    <3>1. ToSet(<<>>) = {}
      BY DEF ToSet
    <3> QED BY <1>3, <2>1, <3>1
  <2>3. n \in ToSet(verdict.order)
    OBVIOUS
  <2>4. PICK e : IsValid(E, d, e, verdict.order)
    BY <2>1, <2>2
  <2> HIDE DEF verdict
  <2>5. /\ e \in ToSet(E) /\ e \in PossibleEdges /\ e.kind = "doc-head" /\ d \in e.documentIds
        /\ \A m \in ToSet(verdict.order) : \/ m = e.source
                                            \/ \E f \in OwnOf(E, d, "next-section") : f.target = m
    BY <1>1, <2>4, OrderIs
  <2>6. d \in DocumentOf(E, n)
    <3>1. PICK f \in ToSet(E) : f.kind \in {"doc-head", "next-section"} /\ d \in f.documentIds /\ n \in {f.source, f.target}
      BY <2>3, <2>5 DEF OwnOf
    <3> QED BY <3>1 DEF DocumentOf
  <2>7. n \in DocNodeIds(E, d)
    BY <1>2, <2>6
  <2>8. e.target = d
    BY <2>5, EdgeIs
  <2>9. e \in ToSet(OfKind(E, "doc-head"))
    BY <1>1, <2>5, KindIs
  <2> QED BY <2>6, <2>7, <2>8, <2>9 DEF DocumentIdsForNode
<1>4. ASSUME NEW d \in Roots, NEW e \in ToSet(OfKind(E, "crosslink")), {e.source, e.target} \subseteq ToSet(ValidateDocFlow(E, d).order)
      PROVE  ScopeOf(E, e) = "intra-document"
  <2>1. d \in DocumentOf(E, e.source) \cap DocumentOf(E, e.target)
    BY <1>3, <1>4
  <2> QED BY <2>1 DEF ScopeOf
<1> QED BY <1>2, <1>3, <1>4 DEF MembershipsAgree, E

----------------------------------------------------------------------------
(* The page of a document                                                   *)

\* How the ways down from n get longer.
LEMMA WaysEnd ==
  ASSUME NEW E \in Seq(PossibleEdges), NEW n
  PROVE  \A x : x \in Closure(E, {n}) <=> \E w \in WaysDown(E, n) : Last(w) = x
<1> DEFINE down == OfKind(E, "doc-child")
           K == Len(down)
           U == {n} \cup {e.target : e \in ToSet(down)}
           Longer(W) == W \cup UNION {{Append(w, c) : c \in Targets(down, {Last(w)})} : w \in W}
           Ends(W) == {Last(w) : w \in W}
           step == [k \in 1 .. K |-> [W \in SUBSET Seq(U) |-> Longer(W)]]
           ways == CHOOSE f : f = [k \in 0 .. K |-> IF k = 0 THEN {<<n>>} ELSE Longer(f[k - 1])]
<1>1. K \in Nat /\ {<<n>>} \in SUBSET Seq(U)
  BY KindIs
<1>2. \A X : Targets(down, X) \subseteq U
  BY DEF Targets
<1>3. WaysDown(E, n) = ways[K]
  BY DEF WaysDown
<1>4. PICK grow : Growing(E, {n}, grow)
  BY GrowingExists
<1>5. /\ grow[0] = {n} /\ Closure(E, {n}) = grow[K]
      /\ \A k \in 1 .. K : grow[k] = grow[k - 1] \cup Targets(down, grow[k - 1])
  BY <1>4 DEF Growing
<1>6. \A X, y : y \in Targets(down, X) <=> \E e \in ToSet(down) : e.source \in X /\ e.target = y
  BY DEF Targets
<1> HIDE DEF down, K, U
<1>7. ASSUME NEW W \in SUBSET Seq(U) PROVE Longer(W) \in SUBSET Seq(U)
  <2>1. ASSUME NEW w \in W, NEW c \in Targets(down, {Last(w)}) PROVE Append(w, c) \in Seq(U)
    <3>1. w \in Seq(U) /\ c \in U
      BY <1>2
    <3> QED BY <3>1
  <2>2. ASSUME NEW v \in Longer(W) PROVE v \in Seq(U)
    <3>1. v \in W \/ \E w \in W : \E c \in Targets(down, {Last(w)}) : v = Append(w, c)
      BY Zenon
    <3> QED BY <2>1, <3>1
  <2> HIDE DEF Longer
  <2> QED BY <2>2
<1>8. ASSUME NEW W \in SUBSET Seq(U) PROVE Ends(Longer(W)) = Ends(W) \cup Targets(down, Ends(W))
  <2>1. ASSUME NEW w \in W, NEW c \in Targets(down, {Last(w)}) PROVE Last(Append(w, c)) = c /\ c \in Targets(down, Ends(W))
    <3>1. w \in Seq(U) /\ c \in U
      BY <1>2
    <3>2. Last(Append(w, c)) = c
      BY <3>1 DEF Last
    <3> QED BY <1>6, <3>2
  <2>2. ASSUME NEW c \in Targets(down, Ends(W)) PROVE \E w \in W : c \in Targets(down, {Last(w)})
    <3>1. PICK e \in ToSet(down) : e.source \in Ends(W) /\ e.target = c
      BY <1>6
    <3>2. PICK w \in W : Last(w) = e.source
      BY <3>1
    <3>3. c \in Targets(down, {Last(w)})
      BY <1>6, <3>1, <3>2
    <3> QED BY <3>3
  <2>3. ASSUME NEW x \in Ends(Longer(W)) PROVE x \in Ends(W) \cup Targets(down, Ends(W))
    <3>1. PICK v \in Longer(W) : Last(v) = x
      OBVIOUS
    <3>2. v \in W \/ \E w \in W : \E c \in Targets(down, {Last(w)}) : v = Append(w, c)
      OBVIOUS
    <3> QED BY <2>1, <3>1, <3>2
  <2>4. ASSUME NEW x \in Ends(W) PROVE x \in Ends(Longer(W))
    OBVIOUS
  <2>5. ASSUME NEW x \in Targets(down, Ends(W)) PROVE x \in Ends(Longer(W))
    <3>1. PICK w \in W : x \in Targets(down, {Last(w)})
      BY <2>2
    <3>2. Append(w, x) \in {Append(w, c) : c \in Targets(down, {Last(w)})}
      BY <3>1, Zenon
    <3>3. Append(w, x) \in UNION {{Append(v, c) : c \in Targets(down, {Last(v)})} : v \in W}
      BY <3>2, Zenon
    <3>4. Append(w, x) \in Longer(W)
      BY <3>3, Zenon
    <3>5. Last(Append(w, x)) = x
      BY <2>1, <3>1
    <3> HIDE DEF Longer
    <3> QED BY <3>4, <3>5, Zenon
  <2> QED BY <2>3, <2>4, <2>5
<1>9. step \in [1 .. K -> [SUBSET Seq(U) -> SUBSET Seq(U)]]
  BY <1>7
<1> HIDE DEF Longer, Ends, step
<1>10. PICK f : Iterates(SUBSET Seq(U), {<<n>>}, step, K, f)
  BY <1>1, <1>9, IterationExists
<1>11. f \in [0 .. K -> SUBSET Seq(U)] /\ f[0] = {<<n>>} /\ \A k \in 1 .. K : f[k] = step[k][f[k - 1]]
  BY <1>10 DEF Iterates
<1>12. \A k \in 1 .. K : f[k] = Longer(f[k - 1])
  <2>1. \A k \in 1 .. K : k - 1 \in 0 .. K
    BY <1>1
  <2> QED BY <1>11, <2>1 DEF step
<1>13. ways = [k \in 0 .. K |-> IF k = 0 THEN {<<n>>} ELSE Longer(ways[k - 1])]
  <2>1. \A k \in 0 .. K : k = 0 \/ k \in 1 .. K
    BY <1>1
  <2>2. \A k \in 0 .. K : f[k] = IF k = 0 THEN {<<n>>} ELSE Longer(f[k - 1])
    BY <1>11, <1>12, <2>1, Zenon
  <2>3. f = [k \in 0 .. K |-> IF k = 0 THEN {<<n>>} ELSE Longer(f[k - 1])]
    BY <1>11, <2>2
  <2> QED BY <2>3
<1> HIDE DEF ways
<1>14. ASSUME NEW k \in 0 .. K PROVE ways[k] = IF k = 0 THEN {<<n>>} ELSE Longer(ways[k - 1])
  BY <1>13, Zenon
<1> DEFINE G == {k \in 0 .. K : ways[k] \in SUBSET Seq(U) /\ Ends(ways[k]) = grow[k]}
<1>15. 0 \in G
  <2>1. 0 \in 0 .. K
    BY <1>1
  <2>2. ways[0] = {<<n>>}
    BY <1>14, <2>1
  <2>3. Ends({<<n>>}) = {n}
    BY DEF Ends, Last
  <2> QED BY <1>1, <1>5, <2>1, <2>2, <2>3
<1>16. ASSUME NEW k \in 0 .. K - 1, k \in G PROVE k + 1 \in G
  <2>1. k + 1 \in 1 .. K /\ (k + 1) - 1 = k /\ k + 1 \in 0 .. K /\ k + 1 # 0
    BY <1>1
  <2>2. ways[k + 1] = Longer(ways[k])
    BY <1>14, <2>1
  <2>3. grow[k + 1] = grow[k] \cup Targets(down, grow[k])
    BY <1>5, <2>1
  <2> QED BY <1>7, <1>8, <1>16, <2>1, <2>2, <2>3
<1>17. 0 .. K \subseteq G
  <2> HIDE DEF G
  <2> QED BY <1>1, <1>15, <1>16, UpTo
<1>18. Ends(ways[K]) = grow[K]
  BY <1>1, <1>17
<1> QED BY <1>3, <1>5, <1>18 DEF Ends

LEMMA DuplicatesAre ==
  ASSUME NEW E, NEW nodes, NEW d, NEW r \in Duplicates(E, nodes, d)
  PROVE  r[1] \in (nodes \cap Sections) \ PageSections(E, nodes, d)
<1> DEFINE sections == PageSections(E, nodes, d)
           parents(n) == {e.source : e \in {x \in ToSet(OfKind(E, "parent-child")) : x.target = n}} \cap sections
           nested == Targets(OfKind(E, "doc-child"), DocNodeIds(E, d))
           hung == {n \in (nodes \cap Sections) \ (sections \cup nested) : Cardinality(parents(n)) >= 2}
<1>1. r \in UNION {{n} \X parents(n) : n \in hung}
  BY DEF Duplicates
<1> HIDE DEF parents
<1>2. PICK n \in hung : r \in {n} \X parents(n)
  BY <1>1
<1>3. r[1] = n
  BY <1>2
<1> HIDE DEF sections, nested
<1> QED BY <1>2, <1>3 DEF sections

\* What is on a page.
LEMMA PageHas ==
  ASSUME NEW E, NEW nodes, NEW d
  PROVE  LET roots == {<<n, n>> : n \in PageSections(E, nodes, d)} \cup Duplicates(E, nodes, d)
         IN \A x : x \in Page(E, nodes, d) <=>
              \E r \in roots : \E w \in IF ValidateDocFlow(E, d).ok THEN WaysDown(E, r[1]) ELSE {<<r[1]>>} : x = <<r, w>>
<1> DEFINE roots == {<<n, n>> : n \in PageSections(E, nodes, d)} \cup Duplicates(E, nodes, d)
           under(r) == IF ValidateDocFlow(E, d).ok THEN WaysDown(E, r[1]) ELSE {<<r[1]>>}
<1>1. Page(E, nodes, d) = UNION {{<<r, w>> : w \in under(r)} : r \in roots}
  BY DEF Page
<1> HIDE DEF roots, under
<1>2. ASSUME NEW x \in Page(E, nodes, d) PROVE \E r \in roots : \E w \in under(r) : x = <<r, w>>
  <2>1. PICK r \in roots : x \in {<<r, w>> : w \in under(r)}
    BY <1>1
  <2> QED BY <2>1
<1>3. ASSUME NEW r \in roots, NEW w \in under(r) PROVE <<r, w>> \in Page(E, nodes, d)
  <2>1. <<r, w>> \in {<<r, v>> : v \in under(r)}
    OBVIOUS
  <2> QED BY <1>1, <2>1
<1> QED BY <1>2, <1>3 DEF roots, under

LEMMA MembersGoDown ==
  ASSUME NEW E, NEW nodes, AreEdges(E, nodes), NEW d
  PROVE  DownClosed(E, DocNodeIds(E, d) \cap nodes \cap Sections)
<1>1. E \in Seq(PossibleEdges)
  BY DEF AreEdges
<1>2. DownClosed(E, DocNodeIds(E, d))
  BY <1>1, ClosureIs DEF DocNodeIds
<1>3. ToSet(E) \subseteq PossibleEdges
  BY <1>1, ToSetIs
<1> QED BY <1>2, <1>3, EdgeIs DEF DownClosed, AreEdges

LEMMA OrderIsIn ==
  ASSUME NEW E, NEW nodes, AreEdges(E, nodes), NEW d, NEW e, NEW order, IsValid(E, d, e, order)
  PROVE  ToSet(order) \subseteq DocNodeIds(E, d) \cap nodes \cap Sections
<1>1. E \in Seq(PossibleEdges)
  BY DEF AreEdges
<1>2. /\ e \in ToSet(E) /\ e \in PossibleEdges /\ d \in e.documentIds
      /\ \A n \in ToSet(order) : \/ n = e.source
                                  \/ \E f \in OwnOf(E, d, "next-section") : f.target = n
  BY <1>1, OrderIs
<1>3. e.source \in DocNodeIds(E, d) \cap nodes \cap Sections
  BY <1>1, <1>2, EndsAreMembers, EdgeIs DEF AreEdges
<1>4. ASSUME NEW f \in OwnOf(E, d, "next-section") PROVE f.target \in DocNodeIds(E, d) \cap nodes \cap Sections
  <2>1. f \in ToSet(E) /\ f.kind = "next-section" /\ d \in f.documentIds
    BY DEF OwnOf
  <2>2. f \in PossibleEdges
    BY <1>1, <2>1, ToSetIs
  <2>3. f.target \in Sections
    BY <2>1, <2>2, EdgeIs
  <2>4. f.target \in DocNodeIds(E, d)
    BY <1>1, <2>1, EndsAreMembers
  <2> QED BY <2>1, <2>3, <2>4 DEF AreEdges
<1> QED BY <1>2, <1>3, <1>4

LEMMA PagesHold == ASSUME FlowIInv PROVE PageIsDocument
<1> DEFINE E == flowEdges
<1>1. AreEdges(E, flowNodes) /\ E \in Seq(PossibleEdges) /\ IsInjective(E)
  BY DEF FlowIInv, AreEdges
<1> HIDE DEF E
<1> SUFFICES ASSUME NEW d \in Roots
             PROVE  LET page == Page(E, flowNodes, d)
                        nodes == DocNodeIds(E, d) \cap flowNodes \cap Sections
                        shown == {Last(item[2]) : item \in page}
                        verdict == ValidateDocFlow(E, d)
                        duplicates == {r[1] : r \in Duplicates(E, flowNodes, d)}
                    IN /\ ~ verdict.ok =>
                            /\ shown = nodes \cup duplicates
                            /\ \A n \in nodes : \E item \in page : {x \in page : Last(x[2]) = n} = {item}
                       /\ verdict.ok =>
                            /\ shown \ Closure(E, duplicates) \subseteq nodes
                            /\ \A n \in nodes \ shown : n \notin Closure(E, ToSet(verdict.order))
  BY DEF PageIsDocument, E
<1> DEFINE page == Page(E, flowNodes, d)
           nodes == DocNodeIds(E, d) \cap flowNodes \cap Sections
           shown == {Last(item[2]) : item \in page}
           verdict == ValidateDocFlow(E, d)
           double == Duplicates(E, flowNodes, d)
           duplicates == {r[1] : r \in double}
           sections == PageSections(E, flowNodes, d)
           roots == {<<n, n>> : n \in sections} \cup double
           under(r) == IF verdict.ok THEN WaysDown(E, r[1]) ELSE {<<r[1]>>}
<1>2. \A x : x \in page <=> \E r \in roots : \E w \in under(r) : x = <<r, w>>
  BY PageHas
<1>3. sections = IF verdict.ok THEN ToSet(verdict.order) ELSE nodes
  BY DEF PageSections
<1>4. \A r \in double : r[1] \notin sections
  BY DuplicatesAre
<1>5. /\ verdict.ok \in BOOLEAN
      /\ verdict.ok => \E e : IsValid(E, d, e, verdict.order)
  BY <1>1, VerdictIs
<1>6. DownClosed(E, nodes)
  BY <1>1, MembersGoDown
<1>7. \A e : IsValid(E, d, e, verdict.order) => ToSet(verdict.order) \subseteq nodes
  BY <1>1, OrderIsIn
<1> HIDE DEF page, nodes, verdict, double, sections
<1>8. \A x : x \in shown <=> \E r \in roots : \E w \in under(r) : Last(w) = x
  <2>1. \A r, w : <<r, w>>[2] = w
    OBVIOUS
  <2> HIDE DEF roots, under
  <2>2. ASSUME NEW x \in shown PROVE \E r \in roots : \E w \in under(r) : Last(w) = x
    <3>1. PICK item \in page : Last(item[2]) = x
      OBVIOUS
    <3>2. PICK r \in roots : \E w \in under(r) : item = <<r, w>>
      BY <1>2
    <3> QED BY <2>1, <3>1, <3>2
  <2>3. ASSUME NEW r \in roots, NEW w \in under(r) PROVE Last(w) \in shown
    <3>1. <<r, w>> \in page
      BY <1>2
    <3>2. Last(<<r, w>>[2]) \in shown
      BY <3>1
    <3> QED BY <2>1, <3>2
  <2> HIDE DEF shown
  <2> QED BY <2>2, <2>3
<1>9. ASSUME ~ verdict.ok
      PROVE  /\ shown = nodes \cup duplicates
             /\ \A n \in nodes : \E item \in page : {x \in page : Last(x[2]) = n} = {item}
  <2>1. sections = nodes
    BY <1>3, <1>9
  <2>2. \A r : under(r) = {<<r[1]>>}
    BY <1>9
  <2>3. \A x : Last(<<x>>) = x
    BY DEF Last
  <2> HIDE DEF under
  <2>4. \A x : x \in shown <=> \E r \in roots : r[1] = x
    <3> HIDE DEF roots, shown
    <3>1. ASSUME NEW r, NEW x PROVE (\E w \in under(r) : Last(w) = x) <=> r[1] = x
      BY <2>2, <2>3
    <3> QED BY <1>8, <3>1, Zenon
  <2>5. \A x : x \in shown <=> x \in nodes \/ x \in duplicates
    <3>1. \A n : <<n, n>>[1] = n
      OBVIOUS
    <3> HIDE DEF shown
    <3>2. ASSUME NEW x PROVE (\E r \in roots : r[1] = x) <=> x \in nodes \/ x \in duplicates
      <4>1. ASSUME NEW r \in roots, r[1] = x PROVE x \in nodes \/ x \in duplicates
        BY <2>1, <3>1, <4>1
      <4>2. ASSUME x \in nodes PROVE \E r \in roots : r[1] = x
        BY <2>1, <3>1, <4>2
      <4>3. ASSUME x \in duplicates PROVE \E r \in roots : r[1] = x
        BY <4>3
      <4> QED BY <4>1, <4>2, <4>3
    <3> QED BY <2>4, <3>2
  <2>6. ASSUME NEW n \in nodes PROVE \E item \in page : {x \in page : Last(x[2]) = n} = {item}
    <3> DEFINE item == <<<<n, n>>, <<n>>>>
    <3>1. <<n, n>> \in roots /\ <<n>> \in under(<<n, n>>)
      BY <2>1, <2>2
    <3>2. item \in page
      <4> HIDE DEF roots
      <4> QED BY <1>2, <3>1
    <3>3. Last(item[2]) = n
      BY <2>3
    <3>4. ASSUME NEW x \in page, Last(x[2]) = n PROVE x = item
      <4>1. PICK r \in roots : \E w \in under(r) : x = <<r, w>>
        <5> HIDE DEF roots
        <5> QED BY <1>2
      <4>2. x = <<r, <<r[1]>>>>
        BY <2>2, <4>1
      <4>3. r[1] = n
        BY <2>3, <3>4, <4>2
      <4>4. r \notin double
        BY <1>4, <2>1, <4>3
      <4>5. r = <<n, n>>
        BY <4>3, <4>4
      <4> QED BY <4>2, <4>5
    <3> HIDE DEF item
    <3> QED BY <3>2, <3>3, <3>4
  <2> HIDE DEF shown, duplicates
  <2> QED BY <2>5, <2>6
<1>10. ASSUME verdict.ok
       PROVE  /\ shown \ Closure(E, duplicates) \subseteq nodes
              /\ \A n \in nodes \ shown : n \notin Closure(E, ToSet(verdict.order))
  <2>1. sections = ToSet(verdict.order) /\ sections \subseteq nodes
    BY <1>3, <1>5, <1>7, <1>10
  <2>2. \A r : under(r) = WaysDown(E, r[1])
    BY <1>10
  <2> HIDE DEF under
  <2>3. \A x : x \in shown <=> \E r \in roots : x \in Closure(E, {r[1]})
    <3>1. \A n, x : x \in Closure(E, {n}) <=> \E w \in WaysDown(E, n) : Last(w) = x
      BY <1>1, WaysEnd
    <3> HIDE DEF shown, roots
    <3> QED BY <1>8, <2>2, <3>1
  <2>4. ASSUME NEW S PROVE DownClosed(E, Closure(E, S)) /\ S \subseteq Closure(E, S)
    BY <1>1, ClosureIs
  <2>5. ASSUME NEW S, NEW T, S \subseteq T, DownClosed(E, T) PROVE Closure(E, S) \subseteq T
    BY <1>1, <2>5, ClosureIs
  <2>6. ASSUME NEW n \in sections PROVE Closure(E, {n}) \subseteq nodes
    BY <1>6, <2>1, <2>5
  <2>7. ASSUME NEW r \in double PROVE Closure(E, {r[1]}) \subseteq Closure(E, duplicates)
    <3>1. {r[1]} \subseteq duplicates
      OBVIOUS
    <3> HIDE DEF duplicates
    <3>2. {r[1]} \subseteq Closure(E, duplicates) /\ DownClosed(E, Closure(E, duplicates))
      BY <2>4, <3>1
    <3> QED BY <2>5, <3>2
  <2>8. \A r \in roots : r \in double \/ \E n \in sections : r = <<n, n>> /\ r[1] = n
    OBVIOUS
  <2>9. \A n \in sections : <<n, n>> \in roots /\ <<n, n>>[1] = n
    OBVIOUS
  <2> HIDE DEF shown, roots, duplicates
  <2>10. shown \ Closure(E, duplicates) \subseteq nodes
    BY <2>3, <2>6, <2>7, <2>8
  <2>11. DownClosed(E, shown)
    <3>1. ASSUME NEW e \in ToSet(E), e.kind = "doc-child", e.source \in shown PROVE e.target \in shown
      <4>1. PICK r \in roots : e.source \in Closure(E, {r[1]})
        BY <2>3, <3>1
      <4>2. DownClosed(E, Closure(E, {r[1]}))
        BY <2>4
      <4>3. e.target \in Closure(E, {r[1]})
        BY <3>1, <4>1, <4>2 DEF DownClosed
      <4> QED BY <2>3, <4>3
    <3> QED BY <3>1 DEF DownClosed
  <2>12. sections \subseteq shown
    <3>1. ASSUME NEW n \in sections PROVE n \in shown
      <4>1. <<n, n>> \in roots /\ <<n, n>>[1] = n
        BY <2>9
      <4>2. n \in Closure(E, {n})
        BY <2>4
      <4> QED BY <2>3, <4>1, <4>2
    <3> QED BY <3>1
  <2>13. Closure(E, ToSet(verdict.order)) \subseteq shown
    BY <2>1, <2>5, <2>11, <2>12
  <2> QED BY <2>10, <2>13
<1> HIDE DEF shown, duplicates
<1> QED BY <1>9, <1>10 DEF shown, duplicates, page, nodes, verdict, double

----------------------------------------------------------------------------
(* The one chain of a valid flow                                            *)

\* There is an edge for each section that has a next one.
LEMMA Rooms ==
  ASSUME NEW EE, NEW N, NEW E \in Seq(EE), NextIn(E, N), NEW s \in Seq(N), IsInjective(s), NEW m \in 0 .. Len(s),
         \A i \in 1 .. m : Next(E, s[i]) # {}
  PROVE  m <= Len(OfKind(E, "next-section"))
<1> DEFINE next == OfKind(E, "next-section")
           K == Len(next)
           place == [i \in 1 .. m |-> CHOOSE j \in 1 .. K : next[j].source = s[i]]
<1>1. next \in Seq(EE) /\ K \in Nat /\ Len(s) \in Nat /\ m \in Nat
  BY KindIs
<1>2. \A x : x \in ToSet(next) <=> \E j \in 1 .. K : next[j] = x
  BY <1>1, ToSetIs
<1>3. ASSUME NEW i \in 1 .. m PROVE \E j \in 1 .. K : next[j].source = s[i]
  <2>1. PICK e \in ToSet(next) : e.source = s[i]
    BY DEF Next, Targets
  <2> QED BY <1>2, <2>1
<1> HIDE DEF next, K
<1>4. \A i \in 1 .. m : place[i] \in 1 .. K /\ next[place[i]].source = s[i]
  BY <1>3
<1>5. place \in [1 .. m -> 1 .. K]
  BY <1>4
<1>6. IsInjective(place)
  <2>1. ASSUME NEW i \in 1 .. m, NEW j \in 1 .. m, place[i] = place[j] PROVE i = j
    <3>1. s[i] = s[j]
      BY <1>4, <2>1
    <3>2. i \in DOMAIN s /\ j \in DOMAIN s
      BY <1>1
    <3> QED BY <3>1, <3>2 DEF IsInjective
  <2>2. DOMAIN place = 1 .. m
    OBVIOUS
  <2> HIDE DEF place
  <2> QED BY <2>1, <2>2 DEF IsInjective
<1> HIDE DEF place
<1>7. m <= K
  BY <1>1, <1>5, <1>6, NoRoom
<1> QED BY <1>7 DEF K, next

LEMMA FollowedEnds ==
  ASSUME NEW EE, NEW N, NEW E \in Seq(EE), NextIn(E, N), NEW head \in N, IsInjective(Followed(E, head))
  PROVE  Next(E, Last(Followed(E, head))) = {}
<1> DEFINE K == Len(OfKind(E, "next-section"))
           s == Followed(E, head)
<1>1. K \in Nat
  BY KindIs
<1>2. PICK trail : Following(E, head, trail, N)
  BY FollowingExists
<1>3. Leads(E, head, s, N)
  BY FollowedLeads
<1>4. \A m \in 0 .. Len(s) : (\A i \in 1 .. m : Next(E, s[i]) # {}) => m <= K
  BY <1>3, Rooms DEF Leads
<1>5. IsInjective(s)
  OBVIOUS
<1> HIDE DEF K, s
<1>6. /\ trail \in [0 .. K -> Seq(N)] /\ trail[0] = <<head>> /\ s = trail[K]
      /\ \A k \in 1 .. K : trail[k] = IF Next(E, Last(trail[k - 1])) = {} \/ ~ IsInjective(trail[k - 1]) THEN trail[k - 1]
                                     ELSE Append(trail[k - 1], CHOOSE n \in Next(E, Last(trail[k - 1])) : TRUE)
  BY <1>2 DEF Following, K, s
<1> DEFINE Good(w, k) == Next(E, Last(w)) = {} \/ ~ IsInjective(w) \/ Len(w) = k + 1
           G == {k \in 0 .. K : Good(trail[k], k)}
<1>7. 0 \in G
  <2>1. Len(<<head>>) = 0 + 1 /\ 0 \in 0 .. K
    BY <1>1
  <2>2. Good(<<head>>, 0)
    BY <2>1
  <2> HIDE DEF Good
  <2>3. Good(trail[0], 0)
    BY <1>6, <2>2, Zenon
  <2> QED BY <2>1, <2>3
<1>8. ASSUME NEW k \in 0 .. K - 1, k \in G PROVE k + 1 \in G
  <2>1. k + 1 \in 1 .. K /\ (k + 1) - 1 = k /\ k + 1 \in 0 .. K /\ k \in 0 .. K
    BY <1>1
  <2> DEFINE w == trail[k]
             n == CHOOSE m \in Next(E, Last(w)) : TRUE
  <2>2. trail[k + 1] = IF Next(E, Last(w)) = {} \/ ~ IsInjective(w) THEN w ELSE Append(w, n)
    BY <1>6, <2>1
  <2>3. w \in Seq(N) /\ Good(w, k)
    BY <1>6, <1>8, <2>1
  <2>4. Next(E, Last(w)) # {} => n \in N
    BY NextIs
  <2> HIDE DEF w, n
  <2>5. CASE Next(E, Last(w)) = {} \/ ~ IsInjective(w)
    BY <2>1, <2>2, <2>5
  <2>6. CASE ~ (Next(E, Last(w)) = {} \/ ~ IsInjective(w))
    <3>1. Len(w) = k + 1 /\ trail[k + 1] = Append(w, n) /\ n \in N
      BY <2>2, <2>3, <2>4, <2>6
    <3>2. Len(trail[k + 1]) = (k + 1) + 1
      BY <2>3, <3>1
    <3> QED BY <2>1, <3>2
  <2> QED BY <2>5, <2>6
<1>9. 0 .. K \subseteq G
  <2> HIDE DEF G
  <2> QED BY <1>1, <1>7, <1>8, UpTo
<1>10. Good(s, K)
  BY <1>1, <1>6, <1>9
<1>11. ASSUME Next(E, Last(s)) # {} PROVE FALSE
  <2>1. Len(s) = K + 1
    BY <1>5, <1>10, <1>11
  <2>2. \A i \in 1 .. Len(s) : Next(E, s[i]) # {}
    <3>1. \A i \in 1 .. Len(s) - 1 : Next(E, s[i]) # {}
      BY <1>3 DEF Leads
    <3>2. \A i \in 1 .. Len(s) : i \in 1 .. Len(s) - 1 \/ i = Len(s)
      BY <1>1, <2>1
    <3> QED BY <1>11, <3>1, <3>2 DEF Last
  <2>3. Len(s) \in 0 .. Len(s) /\ ~(Len(s) <= K)
    BY <1>1, <2>1
  <2> QED BY <1>4, <2>2, <2>3
<1> QED BY <1>11 DEF s

LEMMA FollowedIsOnly ==
  ASSUME NEW EE, NEW N, NEW E \in Seq(EE), NextIn(E, N), NEW head \in N,
         NEW t, Leads(E, head, t, N), IsInjective(t), Next(E, Last(t)) = {},
         \A n : \A m, l \in Next(E, n) : m = l
  PROVE  Followed(E, head) = t
<1> DEFINE K == Len(OfKind(E, "next-section"))
           T == Len(t)
<1>1. K \in Nat /\ t \in Seq(N) /\ T \in Nat /\ T >= 1
  BY KindIs DEF Leads
<1>2. PICK trail : Following(E, head, trail, N)
  BY FollowingExists
<1>3. T - 1 <= K
  <2>1. \A i \in 1 .. T - 1 : t[i + 1] \in Next(E, t[i])
    BY DEF Leads
  <2>4. \A i \in 1 .. T - 1 : Next(E, t[i]) # {}
    BY <2>1, Zenon
  <2>2. T - 1 \in 0 .. T /\ \A i \in 1 .. T - 1 : Next(E, t[i]) # {}
    <3> HIDE DEF T
    <3> QED BY <1>1, <2>4
  <2>3. \A m \in 0 .. T : (\A i \in 1 .. m : Next(E, t[i]) # {}) => m <= K
    BY <1>1, Rooms
  <2> HIDE DEF K, T
  <2> QED BY <2>2, <2>3
<1> HIDE DEF K
<1>4. /\ trail \in [0 .. K -> Seq(N)] /\ trail[0] = <<head>> /\ Followed(E, head) = trail[K]
      /\ \A k \in 1 .. K : trail[k] = IF Next(E, Last(trail[k - 1])) = {} \/ ~ IsInjective(trail[k - 1]) THEN trail[k - 1]
                                     ELSE Append(trail[k - 1], CHOOSE n \in Next(E, Last(trail[k - 1])) : TRUE)
  BY <1>2 DEF Following, K
<1> DEFINE Good(w, k) == /\ w \in Seq(N) /\ Len(w) \in 1 .. T /\ (Len(w) = k + 1 \/ Len(w) = T)
                         /\ \A i \in 1 .. Len(w) : w[i] = t[i]
           G == {k \in 0 .. K : Good(trail[k], k)}
<1>5. 0 \in G
  <2>1. <<head>> \in Seq(N) /\ Len(<<head>>) = 1 /\ <<head>>[1] = head /\ 0 \in 0 .. K /\ t[1] = head
    BY <1>1 DEF Leads
  <2>2. Good(<<head>>, 0)
    BY <1>1, <2>1
  <2> HIDE DEF Good
  <2>3. Good(trail[0], 0)
    BY <1>4, <2>2, Zenon
  <2> QED BY <2>1, <2>3
<1>6. ASSUME NEW k \in 0 .. K - 1, k \in G PROVE k + 1 \in G
  <2>1. k + 1 \in 1 .. K /\ (k + 1) - 1 = k /\ k + 1 \in 0 .. K /\ k \in 0 .. K
    BY <1>1
  <2> DEFINE w == trail[k]
             n == CHOOSE m \in Next(E, Last(w)) : TRUE
  <2>2. trail[k + 1] = IF Next(E, Last(w)) = {} \/ ~ IsInjective(w) THEN w ELSE Append(w, n)
    BY <1>4, <2>1
  <2>3. Good(w, k)
    BY <1>6
  <2>4. Next(E, Last(w)) # {} => n \in Next(E, Last(w))
    OBVIOUS
  <2> HIDE DEF w, n
  <2>5. DOMAIN w = 1 .. Len(w) /\ DOMAIN t = 1 .. T /\ Len(w) \in Nat /\ 1 <= Len(w) /\ Len(w) <= T
    BY <1>1, <2>3
  <2>10. \A i \in 1 .. Len(w) : w[i] = t[i]
    BY <2>3
  <2>6. IsInjective(w)
    <3>1. ASSUME NEW i \in 1 .. Len(w), NEW j \in 1 .. Len(w), w[i] = w[j] PROVE i = j
      <4>1. i \in 1 .. T /\ j \in 1 .. T /\ t[i] = t[j]
        <5>1. w[i] = t[i] /\ w[j] = t[j]
          BY <2>10, <3>1
        <5>2. i \in 1 .. T /\ j \in 1 .. T
          BY <1>1, <2>5, <3>1
        <5> QED BY <3>1, <5>1, <5>2
      <4> QED BY <2>5, <4>1 DEF IsInjective
    <3> QED BY <2>5, <3>1 DEF IsInjective
  <2>7. Last(w) = t[Len(w)]
    <3>1. Len(w) \in 1 .. Len(w)
      BY <2>5
    <3> QED BY <2>10, <3>1 DEF Last
  <2>8. CASE Len(w) = T
    <3>1. Last(w) = Last(t)
      BY <2>7, <2>8 DEF Last
    <3>2. trail[k + 1] = w
      BY <2>2, <3>1
    <3> QED BY <2>1, <2>3, <2>8, <3>2
  <2>9. CASE Len(w) # T
    <3>1. Len(w) \in 1 .. T - 1 /\ Len(w) = k + 1
      BY <1>1, <2>3, <2>9
    <3>2. t[Len(w) + 1] \in Next(E, Last(w))
      BY <2>7, <3>1 DEF Leads
    <3>3. n = t[Len(w) + 1] /\ n \in N
      BY <2>4, <3>2, NextIs
    <3>4. trail[k + 1] = Append(w, n)
      BY <2>2, <2>6, <3>2
    <3>5. /\ Append(w, n) \in Seq(N) /\ Len(Append(w, n)) = Len(w) + 1 /\ Append(w, n)[Len(w) + 1] = n
          /\ \A i \in 1 .. Len(w) : Append(w, n)[i] = w[i]
      BY <2>3, <3>3
    <3> DEFINE a == Append(w, n)
    <3> HIDE DEF a
    <3>6. /\ a \in Seq(N) /\ Len(a) = Len(w) + 1 /\ a[Len(w) + 1] = n /\ \A i \in 1 .. Len(w) : a[i] = w[i]
      BY <3>5 DEF a
    <3>7. \A i \in 1 .. Len(w) + 1 : a[i] = t[i]
      <4>1. \A i \in 1 .. Len(w) + 1 : i \in 1 .. Len(w) \/ i = Len(w) + 1
        BY <2>5
      <4>2. \A i \in 1 .. Len(w) : a[i] = t[i]
        BY <2>3, <3>6
      <4> QED BY <3>3, <3>6, <4>1, <4>2, Zenon
    <3>8. Len(a) \in 1 .. T /\ Len(a) = (k + 1) + 1
      BY <1>1, <3>1, <3>6
    <3>9. Good(a, k + 1)
      BY <3>6, <3>7, <3>8
    <3> QED BY <2>1, <3>4, <3>9 DEF a
  <2> QED BY <2>8, <2>9
<1>7. 0 .. K \subseteq G
  <2> HIDE DEF G
  <2> QED BY <1>1, <1>5, <1>6, UpTo
<1>8. Good(trail[K], K)
  BY <1>1, <1>7
<1> DEFINE w == trail[K]
<1>9. Good(w, K)
  BY <1>8
<1> HIDE DEF w
<1>10. Len(w) = T
  BY <1>1, <1>3, <1>9
<1>11. w = t
  <2>1. w \in Seq(N) /\ t \in Seq(N) /\ Len(w) = Len(t) /\ \A i \in 1 .. Len(t) : w[i] = t[i]
    BY <1>1, <1>9, <1>10
  <2> QED BY <2>1
<1> QED BY <1>4, <1>11 DEF w

----------------------------------------------------------------------------
(* Nodes that hold no node above them                                       *)

\* All sections in an order in which what holds is before what is held.
Ranking(E, s) ==
  /\ s \in SetToSeqs(Sections)
  /\ \A e \in ToSet(E) : e.kind = "doc-child" => \E i, j \in DOMAIN s : i < j /\ s[i] = e.source /\ s[j] = e.target

Holds(E, n, m) == \E e \in ToSet(E) : e.kind = "doc-child" /\ e.source = n /\ e.target = m

LEMMA DownTargets ==
  ASSUME NEW EE, NEW E \in Seq(EE), NEW n, NEW m
  PROVE  m \in Targets(OfKind(E, "doc-child"), {n}) <=> Holds(E, n, m)
<1>1. ToSet(OfKind(E, "doc-child")) = {e \in ToSet(E) : e.kind = "doc-child"}
  BY KindIs
<1> QED BY <1>1 DEF Targets, Holds

LEMMA RankedHasNoCycle ==
  ASSUME NEW E \in Seq(PossibleEdges), NEW s, Ranking(E, s)
  PROVE  ~ HasCycle(E)
<1> SUFFICES ASSUME NEW n, n \in Closure(E, Targets(OfKind(E, "doc-child"), {n})) PROVE FALSE
  BY DEF HasCycle
<1>7. \A x : x \in Targets(OfKind(E, "doc-child"), {n}) <=> Holds(E, n, x)
  BY DownTargets
<1> DEFINE S == Targets(OfKind(E, "doc-child"), {n})
           T == {x \in {s[k] : k \in DOMAIN s} : \E i, j \in DOMAIN s : i < j /\ s[i] = n /\ s[j] = x}
<1>1. /\ DOMAIN s \subseteq Nat
      /\ \A i, j \in DOMAIN s : s[i] = s[j] => i = j
      /\ \A e \in ToSet(E) : e.kind = "doc-child" => \E i, j \in DOMAIN s : i < j /\ s[i] = e.source /\ s[j] = e.target
  BY DEF Ranking, SetToSeqs
<1>2. S \subseteq T
  <2>1. ASSUME NEW m \in S PROVE m \in T
    <3>1. PICK e \in ToSet(E) : e.kind = "doc-child" /\ e.source = n /\ e.target = m
      BY <1>7 DEF Holds
    <3> QED BY <1>1, <3>1
  <2> QED BY <2>1
<1>3. DownClosed(E, T)
  <2>1. ASSUME NEW e \in ToSet(E), e.kind = "doc-child", e.source \in T PROVE e.target \in T
    <3>1. PICK i \in DOMAIN s, j \in DOMAIN s : i < j /\ s[i] = n /\ s[j] = e.source
      BY <2>1
    <3>2. PICK k \in DOMAIN s, l \in DOMAIN s : k < l /\ s[k] = e.source /\ s[l] = e.target
      BY <1>1, <2>1
    <3>3. j = k
      BY <1>1, <3>1, <3>2
    <3>4. i < l
      BY <1>1, <3>1, <3>2, <3>3
    <3> QED BY <3>1, <3>2, <3>4
  <2> HIDE DEF T
  <2> QED BY <2>1 DEF DownClosed
<1> HIDE DEF S, T
<1>4. Closure(E, S) \subseteq T
  BY <1>2, <1>3, ClosureIs
<1>5. n \in T
  BY <1>4 DEF S
<1>6. PICK i \in DOMAIN s, j \in DOMAIN s : i < j /\ s[i] = n /\ s[j] = n
  BY <1>5 DEF T
<1> QED BY <1>1, <1>6

\* A list of sections with none twice.
LEMMA ListIs ==
  ASSUME NEW S \in SUBSET Sections, NEW s \in SetToSeqs(S)
  PROVE  s \in Seq(Sections) /\ Len(s) = Cardinality(S) /\ IsInjective(s)
<1>1. IsFiniteSet(S) /\ Cardinality(S) \in Nat
  BY FlowAssumption, FS_Subset, FS_CardinalityType
<1>2. s \in [1 .. Cardinality(S) -> S] /\ \A i, j \in 1 .. Cardinality(S) : i # j => s[i] # s[j]
  BY DEF SetToSeqs
<1>3. s \in Seq(Sections) /\ Len(s) = Cardinality(S)
  BY <1>1, <1>2
<1> QED BY <1>2, <1>3 DEF IsInjective

LEMMA IsList ==
  ASSUME NEW s \in Seq(Sections), IsInjective(s)
  PROVE  s \in SetToSeqs(ToSet(s)) /\ ToSet(s) \subseteq Sections
<1>1. Cardinality(ToSet(s)) = Len(s)
  BY InjectiveCount
<1>2. Len(s) \in Nat /\ s \in [1 .. Len(s) -> ToSet(s)] /\ ToSet(s) \subseteq Sections
  BY ToSetIs DEF ToSet
<1>3. \A i, j \in 1 .. Len(s) : i # j => s[i] # s[j]
  BY <1>2 DEF IsInjective
<1> QED BY <1>1, <1>2, <1>3 DEF SetToSeqs

\* Some section that is left is held by none that is left.
LEMMA TopOf ==
  ASSUME NEW E \in Seq(PossibleEdges), ~ HasCycle(E), NEW R \in SUBSET Sections, R # {}
  PROVE  \E n \in R : \A m \in R : ~ Holds(E, m, n)
<1> DEFINE below(n) == Closure(E, {n})
           size == Cardinality(Sections)
           sizes == {size - Cardinality(below(n)) : n \in R}
<1>1. size \in Nat /\ IsFiniteSet(Sections)
  BY FlowAssumption, FS_CardinalityType
<1>2. ToSet(E) \subseteq PossibleEdges
  BY ToSetIs
<1>3. \A n : n \in below(n) /\ DownClosed(E, below(n))
  BY ClosureIs
<1>4. ASSUME NEW S, NEW T, S \subseteq T, DownClosed(E, T) PROVE Closure(E, S) \subseteq T
  BY <1>4, ClosureIs
<1>5. ASSUME NEW n \in R PROVE below(n) \subseteq Sections
  <2>1. DownClosed(E, Sections)
    BY <1>2, EdgeIs DEF DownClosed
  <2>2. {n} \subseteq Sections
    OBVIOUS
  <2> HIDE DEF below
  <2> QED BY <1>4, <2>1, <2>2 DEF below
<1>6. ASSUME NEW n \in R PROVE IsFiniteSet(below(n)) /\ Cardinality(below(n)) \in Nat /\ Cardinality(below(n)) <= size
  <2>1. below(n) \subseteq Sections
    BY <1>5
  <2> HIDE DEF below
  <2> QED BY <1>1, <2>1, FS_Subset, FS_CardinalityType
<1> HIDE DEF size
<1>7. PICK n \in R : \A m \in R : Cardinality(below(m)) <= Cardinality(below(n))
  <2> HIDE DEF below
  <2>5. ASSUME NEW m \in R PROVE size - Cardinality(below(m)) \in Nat
    <3>1. Cardinality(below(m)) \in Nat /\ Cardinality(below(m)) <= size
      BY <1>6
    <3> QED BY <1>1, <3>1
  <2>1. sizes \in SUBSET Nat /\ sizes # {}
    BY <2>5
  <2>2. PICK x \in sizes : \A y \in sizes : x <= y
    <3> HIDE DEF sizes
    <3> QED BY <2>1, LeastOf
  <2>3. PICK n \in R : x = size - Cardinality(below(n))
    OBVIOUS
  <2>4. ASSUME NEW m \in R PROVE Cardinality(below(m)) <= Cardinality(below(n))
    <3>1. x <= size - Cardinality(below(m))
      BY <2>2
    <3> QED BY <1>1, <1>6, <2>3, <3>1
  <2> QED BY <2>4
<1>8. ASSUME NEW m \in R, Holds(E, m, n) PROVE FALSE
  <2> DEFINE on == Targets(OfKind(E, "doc-child"), {m})
  <2>1. n \in on
    BY <1>8, DownTargets
  <2>2. PICK e \in ToSet(E) : e.kind = "doc-child" /\ e.source = m /\ e.target = n
    BY <1>8 DEF Holds
  <2>3. m \notin Closure(E, on)
    BY <2>2 DEF HasCycle
  <2> HIDE DEF on
  <2>4. on \subseteq Closure(E, on) /\ DownClosed(E, Closure(E, on))
    BY ClosureIs
  <2>5. below(n) \subseteq Closure(E, on)
    BY <1>4, <2>1, <2>4
  <2>6. n \in below(m)
    BY <1>3, <2>2 DEF DownClosed
  <2>7. below(n) \subseteq below(m)
    BY <1>3, <1>4, <2>6
  <2>8. m \in below(m) /\ m \notin below(n)
    BY <1>3, <2>3, <2>5
  <2> HIDE DEF below
  <2>9. Cardinality(below(n)) < Cardinality(below(m))
    BY <1>6, <2>7, <2>8, FS_Subset
  <2> QED BY <1>6, <1>7, <2>9
<1> QED BY <1>8

\* Sections listed in such an order, with all that holds one of them before it.
IsTop(E, s) ==
  /\ s \in Seq(Sections) /\ IsInjective(s)
  /\ \A j \in 1 .. Len(s) : \A m \in Sections : Holds(E, m, s[j]) => \E i \in 1 .. Len(s) : i < j /\ s[i] = m

LEMMA TopGrows ==
  ASSUME NEW E \in Seq(PossibleEdges), ~ HasCycle(E), NEW s, IsTop(E, s), Len(s) < Cardinality(Sections)
  PROVE  \E t : IsTop(E, t) /\ Len(t) = Len(s) + 1
<1> DEFINE R == Sections \ ToSet(s)
<1>1. s \in Seq(Sections) /\ IsInjective(s) /\ Len(s) \in Nat /\ DOMAIN s = 1 .. Len(s)
  BY DEF IsTop
<1>2. R # {}
  <2>1. Cardinality(ToSet(s)) = Len(s) /\ ToSet(s) \subseteq Sections
    BY <1>1, InjectiveCount, ToSetIs
  <2>2. ToSet(s) # Sections
    BY <1>1, <2>1
  <2> QED BY <2>1, <2>2
<1>3. R \in SUBSET Sections
  OBVIOUS
<1> HIDE DEF R
<1>4. PICK n \in R : \A m \in R : ~ Holds(E, m, n)
  BY <1>2, <1>3, TopOf
<1>5. n \in Sections /\ n \notin ToSet(s)
  BY <1>3 DEF R
<1> DEFINE t == Append(s, n)
<1>6. t \in Seq(Sections) /\ Len(t) = Len(s) + 1 /\ t[Len(s) + 1] = n /\ \A i \in 1 .. Len(s) : t[i] = s[i]
  BY <1>1, <1>5
<1>7. IsInjective(t)
  BY <1>1, <1>5, InjectiveAppend
<1> HIDE DEF t
<1>8. ASSUME NEW j \in 1 .. Len(t), NEW m \in Sections, Holds(E, m, t[j]) PROVE \E i \in 1 .. Len(t) : i < j /\ t[i] = m
  <2>1. CASE j = Len(s) + 1
    <3>1. m \notin R
      BY <1>4, <1>6, <1>8, <2>1
    <3>2. m \in ToSet(s)
      BY <3>1 DEF R
    <3>3. PICK i \in 1 .. Len(s) : s[i] = m
      BY <1>1, <3>2, ToSetIs
    <3>4. i \in 1 .. Len(t) /\ i < j /\ t[i] = m
      BY <1>1, <1>6, <2>1, <3>3
    <3> QED BY <3>4
  <2>2. CASE j # Len(s) + 1
    <3>1. j \in 1 .. Len(s) /\ t[j] = s[j]
      BY <1>1, <1>6, <2>2
    <3>2. PICK i \in 1 .. Len(s) : i < j /\ s[i] = m
      BY <1>8, <3>1 DEF IsTop
    <3>3. i \in 1 .. Len(t) /\ t[i] = m
      BY <1>1, <1>6, <3>2
    <3> QED BY <3>2, <3>3
  <2> QED BY <2>1, <2>2
<1>9. IsTop(E, t)
  BY <1>6, <1>7, <1>8 DEF IsTop
<1> QED BY <1>6, <1>9

LEMMA RankingExists ==
  ASSUME NEW E \in Seq(PossibleEdges), ~ HasCycle(E)
  PROVE  \E s : Ranking(E, s)
<1> DEFINE size == Cardinality(Sections)
           G == {k \in 0 .. size : \E s : IsTop(E, s) /\ Len(s) = k}
<1>1. size \in Nat /\ IsFiniteSet(Sections)
  BY FlowAssumption, FS_CardinalityType
<1>2. 0 \in G
  <2>1. IsTop(E, <<>>) /\ Len(<<>>) = 0
    BY DEF IsTop, IsInjective
  <2> QED BY <1>1, <2>1
<1>3. ASSUME NEW k \in 0 .. size - 1, k \in G PROVE k + 1 \in G
  <2>1. PICK s : IsTop(E, s) /\ Len(s) = k
    BY <1>3
  <2>2. Len(s) < Cardinality(Sections)
    BY <1>1, <2>1
  <2>3. \E t : IsTop(E, t) /\ Len(t) = Len(s) + 1
    BY <2>1, <2>2, TopGrows
  <2>4. k + 1 \in 0 .. size
    BY <1>1
  <2> QED BY <2>1, <2>3, <2>4
<1>4. 0 .. size \subseteq G
  <2> HIDE DEF G, size
  <2> QED BY <1>1, <1>2, <1>3, UpTo
<1>5. PICK s : IsTop(E, s) /\ Len(s) = size
  BY <1>1, <1>4
<1>6. s \in Seq(Sections) /\ IsInjective(s) /\ DOMAIN s = 1 .. Len(s)
  BY <1>5 DEF IsTop
<1>7. s \in SetToSeqs(ToSet(s)) /\ ToSet(s) \subseteq Sections
  BY <1>6, IsList
<1>8. ToSet(s) = Sections
  <2>1. Cardinality(ToSet(s)) = Cardinality(Sections)
    BY <1>5, <1>6, InjectiveCount
  <2> QED BY <1>1, <1>7, <2>1, FS_Subset
<1>9. ASSUME NEW e \in ToSet(E), e.kind = "doc-child" PROVE \E i, j \in DOMAIN s : i < j /\ s[i] = e.source /\ s[j] = e.target
  <2>1. e.source \in Sections /\ e.target \in Sections
    BY <1>9, ToSetIs, EdgeIs
  <2>2. PICK j \in 1 .. Len(s) : s[j] = e.target
    BY <1>6, <1>8, <2>1, ToSetIs
  <2>3. Holds(E, e.source, s[j])
    BY <1>9, <2>2 DEF Holds
  <2>4. PICK i \in 1 .. Len(s) : i < j /\ s[i] = e.source
    BY <1>5, <2>1, <2>3 DEF IsTop
  <2> QED BY <1>6, <2>2, <2>4
<1>10. Ranking(E, s)
  BY <1>7, <1>8, <1>9 DEF Ranking
<1> QED BY <1>10

----------------------------------------------------------------------------
(* The verdict is that of the definition of a flow                          *)

\* What FlowIsChain calls a chain of the document.
IsChain(E, d, s) ==
  /\ \E e \in OwnOf(E, d, "doc-head") : e.source = s[1] /\ OwnOf(E, d, "doc-head") = {e}
  /\ \A i \in 1..Len(s) - 1 : \E e \in OwnOf(E, d, "next-section") : e.source = s[i] /\ e.target = s[i + 1]
  /\ \A e \in OwnOf(E, d, "next-section") : e.source # Last(s)
  /\ \E e \in OwnOf(E, d, "doc-end") : e.source = Last(s)

Functional(E, d) == \A e, f \in OwnOf(E, d, "next-section") : e.source = f.source => e = f

\* A list of at least one section, none of them twice.
IsSections(s) == s \in Seq(Sections) /\ IsInjective(s) /\ Len(s) >= 1

LEMMA SectionsAre ==
  ASSUME NEW s
  PROVE  s \in UNION {SetToSeqs(S) : S \in SUBSET Sections} /\ s # <<>> <=> IsSections(s)
<1>1. ASSUME NEW S \in SUBSET Sections, s # <<>>, s \in SetToSeqs(S) PROVE IsSections(s)
  <2>1. s \in Seq(Sections) /\ IsInjective(s)
    BY <1>1, ListIs
  <2>2. Len(s) >= 1
    BY <1>1, <2>1
  <2> QED BY <2>1, <2>2 DEF IsSections
<1>2. ASSUME IsSections(s) PROVE s \in UNION {SetToSeqs(S) : S \in SUBSET Sections} /\ s # <<>>
  <2>1. s \in SetToSeqs(ToSet(s)) /\ ToSet(s) \in SUBSET Sections
    BY <1>2, IsList DEF IsSections
  <2>2. s # <<>>
    BY <1>2 DEF IsSections
  <2> QED BY <2>1, <2>2
<1> QED BY <1>1, <1>2

\* In the edges of the document, the next sections are those its own edges lead to.
LEMMA OwnNext ==
  ASSUME NEW EE, NEW E \in Seq(EE), NEW d, NEW n, NEW m
  PROVE  m \in Next(EdgesForDocument(E, d), n) <=> \E e \in OwnOf(E, d, "next-section") : e.source = n /\ e.target = m
<1>1. ToSet(OfKind(EdgesForDocument(E, d), "next-section")) = OwnOf(E, d, "next-section")
  BY OwnIs
<1> QED BY <1>1 DEF Next, Targets

LEMMA ChainLeads ==
  ASSUME NEW E \in Seq(PossibleEdges), NEW d, NEW s, IsSections(s), IsChain(E, d, s),
         NEW e, OwnOf(E, d, "doc-head") = {e}
  PROVE  Leads(EdgesForDocument(E, d), e.source, s, Sections) /\ Next(EdgesForDocument(E, d), Last(s)) = {}
<1>1. \A n, m : m \in Next(EdgesForDocument(E, d), n) <=> \E f \in OwnOf(E, d, "next-section") : f.source = n /\ f.target = m
  BY OwnNext
<1>2. s[1] = e.source
  BY DEF IsChain
<1>3. \A i \in 1 .. Len(s) - 1 : s[i + 1] \in Next(EdgesForDocument(E, d), s[i])
  BY <1>1 DEF IsChain
<1>4. Next(EdgesForDocument(E, d), Last(s)) = {}
  BY <1>1 DEF IsChain
<1> QED BY <1>2, <1>3, <1>4 DEF Leads, IsSections

LEMMA OnlyNext ==
  ASSUME NEW E \in Seq(PossibleEdges), NEW d, Functional(E, d)
  PROVE  \A n : \A m, l \in Next(EdgesForDocument(E, d), n) : m = l
<1>1. \A n, m : m \in Next(EdgesForDocument(E, d), n) <=> \E f \in OwnOf(E, d, "next-section") : f.source = n /\ f.target = m
  BY OwnNext
<1> QED BY <1>1 DEF Functional

LEMMA HeadType ==
  ASSUME NEW E \in Seq(PossibleEdges), NEW d, NEW e, OwnOf(E, d, "doc-head") = {e}
  PROVE  e \in ToSet(E) /\ e.source \in Sections /\ d \in e.documentIds
<1>1. e \in OwnOf(E, d, "doc-head")
  OBVIOUS
<1>2. e \in ToSet(E) /\ d \in e.documentIds
  BY <1>1 DEF OwnOf
<1>3. e \in PossibleEdges
  BY <1>2, ToSetIs
<1> QED BY <1>2, <1>3, EdgeIs

LEMMA EndsAre ==
  ASSUME NEW EE, NEW E \in Seq(EE), NEW d
  PROVE  LET ends == OfKind(EdgesForDocument(E, d), "doc-end")
         IN /\ ends # <<>> => Head(ends) \in OwnOf(E, d, "doc-end")
            /\ OwnOf(E, d, "doc-end") # {} => ends # <<>>
<1> DEFINE ends == OfKind(EdgesForDocument(E, d), "doc-end")
<1>1. ends \in Seq(EE) /\ ToSet(ends) = OwnOf(E, d, "doc-end")
  BY OwnIs
<1> HIDE DEF ends
<1>2. Len(ends) \in Nat /\ \A x : x \in ToSet(ends) <=> \E i \in 1 .. Len(ends) : ends[i] = x
  BY <1>1, ToSetIs
<1>3. ASSUME ends # <<>> PROVE Head(ends) \in ToSet(ends)
  <2>1. Head(ends) = ends[1] /\ 1 \in 1 .. Len(ends)
    BY <1>1, <1>3
  <2> QED BY <1>2, <2>1
<1>4. ASSUME ends = <<>> PROVE ToSet(ends) = {}
  BY <1>4 DEF ToSet
<1> QED BY <1>1, <1>3, <1>4 DEF ends

\* A valid flow is a chain, and the only one.
LEMMA ValidIsChain ==
  ASSUME NEW E \in Seq(PossibleEdges), NEW d, NEW e, NEW order, IsValid(E, d, e, order)
  PROVE  /\ Functional(E, d) /\ \E s : Ranking(E, s)
         /\ IsSections(order) /\ IsChain(E, d, order)
         /\ \A s : IsSections(s) /\ IsChain(E, d, s) => s = order
<1> DEFINE scoped == EdgesForDocument(E, d)
<1>1. /\ OwnOf(E, d, "doc-head") = {e} /\ order = Followed(scoped, e.source) /\ Functional(E, d)
      /\ IsInjective(order) /\ ~ HasCycle(scoped)
      /\ OfKind(scoped, "doc-end") # <<>> /\ Head(OfKind(scoped, "doc-end")).source = Last(order)
  BY DEF IsValid, Functional
<1>2. /\ scoped \in Seq(PossibleEdges)
      /\ ToSet(scoped) = {f \in ToSet(E) : /\ d \in f.documentIds \/ f.kind = "doc-child"
                                           /\ \E g \in ToSet(E) : d \in g.documentIds}
  BY ScopedIs
<1>3. e \in ToSet(E) /\ e.source \in Sections /\ d \in e.documentIds
  BY <1>1, HeadType
<1>4. \A n, m : m \in Next(scoped, n) <=> \E f \in OwnOf(E, d, "next-section") : f.source = n /\ f.target = m
  BY OwnNext
<1>5. Head(OfKind(scoped, "doc-end")) \in OwnOf(E, d, "doc-end")
  BY <1>1, EndsAre
<1>6. \A s : IsSections(s) /\ IsChain(E, d, s) => Leads(scoped, e.source, s, Sections) /\ Next(scoped, Last(s)) = {}
  BY <1>1, ChainLeads
<1>7. \A n : \A m, l \in Next(scoped, n) : m = l
  BY <1>1, OnlyNext
<1> HIDE DEF scoped
<1>8. Leads(scoped, e.source, order, Sections)
  BY <1>1, <1>2, <1>3, FollowedLeads, PossibleNext
<1>9. Next(scoped, Last(order)) = {}
  BY <1>1, <1>2, <1>3, FollowedEnds, PossibleNext
<1>10. IsSections(order)
  BY <1>1, <1>8 DEF IsSections, Leads
<1>11. IsChain(E, d, order)
  <2>1. \E f \in OwnOf(E, d, "doc-head") : f.source = order[1] /\ OwnOf(E, d, "doc-head") = {f}
    BY <1>1, <1>8 DEF Leads
  <2>2. \A i \in 1..Len(order) - 1 : \E f \in OwnOf(E, d, "next-section") : f.source = order[i] /\ f.target = order[i + 1]
    BY <1>4, <1>8 DEF Leads
  <2>3. \A f \in OwnOf(E, d, "next-section") : f.source # Last(order)
    BY <1>4, <1>9
  <2>4. \E f \in OwnOf(E, d, "doc-end") : f.source = Last(order)
    BY <1>1, <1>5
  <2> QED BY <2>1, <2>2, <2>3, <2>4 DEF IsChain
<1>12. ASSUME NEW s, IsSections(s), IsChain(E, d, s) PROVE s = order
  <2>1. Leads(scoped, e.source, s, Sections) /\ Next(scoped, Last(s)) = {} /\ IsInjective(s)
    BY <1>6, <1>12 DEF IsSections
  <2>2. Followed(scoped, e.source) = s
    BY <1>2, <1>3, <1>7, <2>1, FollowedIsOnly, PossibleNext
  <2> QED BY <1>1, <2>2
<1>13. \E s : Ranking(E, s)
  <2>1. PICK s : Ranking(scoped, s)
    BY <1>1, <1>2, RankingExists
  <2>2. \A f \in ToSet(E) : f.kind = "doc-child" => f \in ToSet(scoped)
    BY <1>2, <1>3
  <2>3. Ranking(E, s)
    BY <2>1, <2>2 DEF Ranking
  <2> QED BY <2>3
<1> QED BY <1>1, <1>10, <1>11, <1>12, <1>13

\* A chain is valid, when nothing holds itself and the document has one end.
LEMMA ChainIsValid ==
  ASSUME NEW E \in Seq(PossibleEdges), NEW d, NEW s, IsSections(s), IsChain(E, d, s),
         Functional(E, d), NEW r, Ranking(E, r),
         \A e, f \in OwnOf(E, d, "doc-end") : e = f
  PROVE  \E e : IsValid(E, d, e, s)
<1> DEFINE scoped == EdgesForDocument(E, d)
           ends == OfKind(scoped, "doc-end")
<1>1. PICK e : OwnOf(E, d, "doc-head") = {e}
  BY DEF IsChain
<1>2. e \in ToSet(E) /\ e.source \in Sections /\ d \in e.documentIds
  BY <1>1, HeadType
<1>3. /\ scoped \in Seq(PossibleEdges)
      /\ ToSet(scoped) = {f \in ToSet(E) : /\ d \in f.documentIds \/ f.kind = "doc-child"
                                           /\ \E g \in ToSet(E) : d \in g.documentIds}
  BY ScopedIs
<1>4. Leads(scoped, e.source, s, Sections) /\ Next(scoped, Last(s)) = {}
  BY <1>1, ChainLeads
<1>5. \A n : \A m, l \in Next(scoped, n) : m = l
  BY OnlyNext
<1>6. ends # <<>> => Head(ends) \in OwnOf(E, d, "doc-end")
  BY EndsAre
<1>7. OwnOf(E, d, "doc-end") # {} => ends # <<>>
  BY EndsAre
<1> HIDE DEF ends
<1>8. ends # <<>> /\ Head(ends).source = Last(s)
  <2>1. PICK f \in OwnOf(E, d, "doc-end") : f.source = Last(s)
    BY DEF IsChain
  <2> QED BY <1>6, <1>7, <2>1
<1> HIDE DEF scoped
<1>9. IsInjective(s)
  BY DEF IsSections
<1>10. Followed(scoped, e.source) = s
  BY <1>2, <1>3, <1>4, <1>5, <1>9, FollowedIsOnly, PossibleNext
<1>11. ~ HasCycle(scoped)
  <2>1. ToSet(scoped) \subseteq ToSet(E)
    BY <1>3
  <2>2. Ranking(scoped, r)
    BY <2>1 DEF Ranking
  <2> QED BY <1>3, <2>2, RankedHasNoCycle
<1>12. IsValid(E, d, e, s)
  BY <1>1, <1>8, <1>9, <1>10, <1>11 DEF IsValid, Functional, scoped, ends
<1> QED BY <1>12

LEMMA OneOf ==
  ASSUME NEW S, IsFiniteSet(S), Cardinality(S) <= 1
  PROVE  \A x, y \in S : x = y
<1> SUFFICES ASSUME NEW x \in S, NEW y \in S, x # y PROVE FALSE
  OBVIOUS
<1>1. IsFiniteSet({x}) /\ Cardinality({x}) = 1
  BY FS_Singleton
<1>2. Cardinality({x}) < Cardinality(S)
  <2>1. {x} \subseteq S /\ {x} # S
    OBVIOUS
  <2>2. Cardinality({x}) <= Cardinality(S) /\ Cardinality({x}) # Cardinality(S)
    BY <1>1, <2>1, FS_Subset
  <2>3. Cardinality(S) \in Nat
    BY FS_CardinalityType
  <2> QED BY <1>1, <2>2, <2>3
<1>3. Cardinality(S) \in Nat
  BY FS_CardinalityType
<1> QED BY <1>1, <1>2, <1>3

LEMMA ChainsHold == ASSUME FlowIInv PROVE FlowIsChain
<1> DEFINE E == flowEdges
<1>1. E \in Seq(PossibleEdges) /\ IsInjective(E)
  BY DEF FlowIInv, AreEdges
<1> HIDE DEF E
<1> SUFFICES ASSUME NEW d \in Roots, Cardinality(OwnOf(E, d, "doc-end")) <= 1
             PROVE  LET chains == {s \in UNION {SetToSeqs(S) : S \in SUBSET Sections} : s # <<>> /\ IsChain(E, d, s)}
                        placed == \E s \in SetToSeqs(Sections) :
                          \A e \in ToSet(OfKind(E, "doc-child")) :
                            \E i, j \in DOMAIN s : i < j /\ s[i] = e.source /\ s[j] = e.target
                        verdict == ValidateDocFlow(E, d)
                    IN /\ verdict.ok <=> Functional(E, d) /\ placed /\ chains # {}
                       /\ verdict.ok => chains = {verdict.order}
  BY DEF FlowIsChain, OwnOf, IsChain, Functional, E
<1> DEFINE chains == {s \in UNION {SetToSeqs(S) : S \in SUBSET Sections} : s # <<>> /\ IsChain(E, d, s)}
           placed == \E s \in SetToSeqs(Sections) :
                       \A e \in ToSet(OfKind(E, "doc-child")) :
                         \E i, j \in DOMAIN s : i < j /\ s[i] = e.source /\ s[j] = e.target
           verdict == ValidateDocFlow(E, d)
<1>2. /\ verdict.ok \in BOOLEAN
      /\ verdict.ok => \E e : IsValid(E, d, e, verdict.order)
      /\ \A e, order : IsValid(E, d, e, order) => verdict.ok /\ verdict.order = order
  BY <1>1, VerdictIs
<1>3. \A s : s \in chains <=> IsSections(s) /\ IsChain(E, d, s)
  BY SectionsAre
<1>4. placed <=> \E s : Ranking(E, s)
  <2>1. ToSet(OfKind(E, "doc-child")) = {e \in ToSet(E) : e.kind = "doc-child"}
    BY <1>1, KindIs
  <2> QED BY <2>1 DEF Ranking
<1>5. \A e, f \in OwnOf(E, d, "doc-end") : e = f
  <2>1. IsFiniteSet(ToSet(E))
    BY <1>1, InjectiveCount
  <2>2. IsFiniteSet(OwnOf(E, d, "doc-end"))
    BY <2>1, FS_Subset DEF OwnOf
  <2> QED BY <2>2, OneOf
<1> HIDE DEF chains, placed, verdict
<1>6. ASSUME verdict.ok PROVE Functional(E, d) /\ placed /\ chains = {verdict.order}
  <2>1. PICK e : IsValid(E, d, e, verdict.order)
    BY <1>2, <1>6
  <2>2. /\ Functional(E, d) /\ \E s : Ranking(E, s)
        /\ IsSections(verdict.order) /\ IsChain(E, d, verdict.order)
        /\ \A s : IsSections(s) /\ IsChain(E, d, s) => s = verdict.order
    BY <1>1, <2>1, ValidIsChain
  <2> QED BY <1>3, <1>4, <2>2
<1>7. ASSUME Functional(E, d), placed, chains # {} PROVE verdict.ok
  <2>1. PICK s : IsSections(s) /\ IsChain(E, d, s)
    BY <1>3, <1>7
  <2>2. PICK r : Ranking(E, r)
    BY <1>4, <1>7
  <2>3. \E e : IsValid(E, d, e, s)
    BY <1>1, <1>5, <1>7, <2>1, <2>2, ChainIsValid
  <2> QED BY <1>2, <2>3
<1> QED BY <1>2, <1>6, <1>7 DEF chains, placed, verdict

\* Whatever is put and removed, the check of a flow says what the definition of a flow says: it accepts a document
\* exactly when its edges form one chain and no node holds itself, and then its order is that chain (validateDocFlow).
THEOREM FlowsStayChains == FlowSpec => []FlowIsChain
  BY FlowAlways, ChainsHold, PTL

\* The page that is built of a document, its nodes for a query, and the two answers to which documents a node is of
\* agree, whatever is put and removed (buildTraversalBody, computeDocumentSubgraph, documentOf, documentIdsForNode).
THEOREM PagesStayDocuments == FlowSpec => []PagesAreDocuments
<1>1. FlowIInv => PagesAreDocuments
  BY PagesHold, MembershipsHold DEF PagesAreDocuments
<1> QED BY <1>1, FlowAlways, PTL
----------------------------------------------------------------------------
(* What is filtered keeps its order                                         *)

\* f tells for each element of t its place among the first n of s.
Picked(t, s, S, n, f) ==
  /\ f \in [1 .. Len(t) -> 1 .. n]
  /\ \A k \in 1 .. Len(t) : t[k] = s[f[k]]
  /\ \A k, l \in 1 .. Len(t) : k < l => f[k] < f[l]
  /\ \A i \in 1 .. n : s[i] \in S => \E k \in 1 .. Len(t) : f[k] = i

LEMMA PickedMore ==
  ASSUME NEW T, NEW s \in Seq(T), NEW S, NEW t \in Seq(T), NEW k \in 0 .. Len(s) - 1, \E f : Picked(t, s, S, k, f)
  PROVE  \E f : Picked(IF s[k + 1] \in S THEN Append(t, s[k + 1]) ELSE t, s, S, k + 1, f)
<1>1. PICK f : Picked(t, s, S, k, f)
  OBVIOUS
<1>2. /\ Len(t) \in Nat /\ Len(s) \in Nat /\ k \in Nat /\ k + 1 \in 1 .. Len(s)
      /\ \A i \in 1 .. k + 1 : i \in 1 .. k \/ i = k + 1
  OBVIOUS
<1>3. /\ f \in [1 .. Len(t) -> 1 .. k]
      /\ \A j \in 1 .. Len(t) : t[j] = s[f[j]]
      /\ \A j, l \in 1 .. Len(t) : j < l => f[j] < f[l]
      /\ \A i \in 1 .. k : s[i] \in S => \E j \in 1 .. Len(t) : f[j] = i
  BY <1>1 DEF Picked
<1>4. CASE s[k + 1] \in S
  <2> DEFINE a == Append(t, s[k + 1])
             g == [j \in 1 .. Len(t) + 1 |-> IF j <= Len(t) THEN f[j] ELSE k + 1]
  <2>1. /\ Len(a) = Len(t) + 1 /\ a[Len(t) + 1] = s[k + 1]
        /\ \A j \in 1 .. Len(t) : a[j] = t[j]
    BY <1>2
  <2>2. /\ \A j \in 1 .. Len(t) : g[j] = f[j] /\ f[j] \in 1 .. k
        /\ g[Len(t) + 1] = k + 1
        /\ \A j \in 1 .. Len(t) + 1 : j \in 1 .. Len(t) \/ j = Len(t) + 1
    BY <1>2, <1>3
  <2>3. ASSUME NEW j \in 1 .. Len(t) + 1 PROVE g[j] \in 1 .. k + 1
    <3>1. g[j] \in 1 .. k \/ g[j] = k + 1
      BY <2>2, Zenon
    <3> QED BY <1>2, <3>1
  <2>4. g \in [1 .. Len(t) + 1 -> 1 .. k + 1]
    BY <2>3
  <2> HIDE DEF a, g
  <2>5. \A j \in 1 .. Len(t) + 1 : a[j] = s[g[j]]
    BY <1>3, <2>1, <2>2
  <2>6. ASSUME NEW j \in 1 .. Len(t) + 1, NEW l \in 1 .. Len(t) + 1, j < l PROVE g[j] < g[l]
    <3>1. j \in 1 .. Len(t)
      BY <1>2, <2>6
    <3>2. CASE l \in 1 .. Len(t)
      BY <1>3, <2>2, <2>6, <3>1, <3>2
    <3>3. CASE l = Len(t) + 1
      <4>1. g[j] \in 1 .. k /\ g[l] = k + 1
        BY <2>2, <3>1, <3>3
      <4> QED BY <1>2, <4>1
    <3> QED BY <2>2, <3>2, <3>3
  <2>7. ASSUME NEW i \in 1 .. k + 1, s[i] \in S PROVE \E j \in 1 .. Len(t) + 1 : g[j] = i
    <3>1. CASE i = k + 1
      <4>1. Len(t) + 1 \in 1 .. Len(t) + 1
        BY <1>2
      <4> QED BY <2>2, <3>1, <4>1
    <3>2. CASE i \in 1 .. k
      <4>1. PICK j \in 1 .. Len(t) : f[j] = i
        BY <1>3, <2>7, <3>2
      <4>2. j \in 1 .. Len(t) + 1
        BY <1>2
      <4> QED BY <2>2, <4>1, <4>2
    <3> QED BY <1>2, <3>1, <3>2
  <2>8. Picked(a, s, S, k + 1, g)
    BY <2>1, <2>4, <2>5, <2>6, <2>7 DEF Picked
  <2> QED BY <1>4, <2>8 DEF a
<1>5. CASE s[k + 1] \notin S
  <2>1. \A j \in 1 .. Len(t) : f[j] \in 1 .. k + 1
    BY <1>2, <1>3
  <2>2. f \in [1 .. Len(t) -> 1 .. k + 1]
    BY <1>3, <2>1
  <2>3. \A i \in 1 .. k + 1 : s[i] \in S => \E j \in 1 .. Len(t) : f[j] = i
    BY <1>2, <1>3, <1>5
  <2>4. Picked(t, s, S, k + 1, f)
    BY <1>3, <2>2, <2>3 DEF Picked
  <2> QED BY <1>5, <2>4
<1> QED BY <1>4, <1>5

LEMMA FilteredPicks ==
  ASSUME NEW T, NEW s \in Seq(T), NEW S
  PROVE  \E f : Picked(Filtered(s, S), s, S, Len(s), f)
<1>1. PICK kept : Keeping(s, S, T, kept)
  BY KeepingExists
<1>2. /\ Len(s) \in Nat /\ kept[0] = <<>> /\ Filtered(s, S) = kept[Len(s)] /\ \A k \in 0 .. Len(s) : kept[k] \in Seq(T)
      /\ \A k \in 1 .. Len(s) : kept[k] = IF s[k] \in S THEN Append(kept[k - 1], s[k]) ELSE kept[k - 1]
  <2>1. /\ kept \in [0 .. Len(s) -> Seq(T)] /\ kept[0] = <<>> /\ Filtered(s, S) = kept[Len(s)]
        /\ \A k \in 1 .. Len(s) : kept[k] = IF s[k] \in S THEN Append(kept[k - 1], s[k]) ELSE kept[k - 1]
    BY <1>1, Zenon DEF Keeping
  <2>2. Len(s) \in Nat
    OBVIOUS
  <2>3. \A k \in 0 .. Len(s) : kept[k] \in Seq(T)
    BY <2>1
  <2> QED BY <2>1, <2>2, <2>3
<1> DEFINE Good(k) == \E f : Picked(kept[k], s, S, k, f)
           G == {k \in 0 .. Len(s) : Good(k)}
<1>3. Good(0)
  <2>1. Picked(<<>>, s, S, 0, <<>>)
    BY DEF Picked
  <2> QED BY <1>2, <2>1
<1>4. ASSUME NEW k \in 0 .. Len(s) - 1, Good(k) PROVE Good(k + 1)
  <2> DEFINE t == kept[k]
  <2>1. k + 1 \in 1 .. Len(s) /\ (k + 1) - 1 = k /\ t \in Seq(T)
    BY <1>2
  <2>2. kept[k + 1] = IF s[k + 1] \in S THEN Append(t, s[k + 1]) ELSE t
    BY <1>2, <2>1
  <2>3. \E f : Picked(t, s, S, k, f)
    BY <1>4
  <2> HIDE DEF t
  <2>4. \E f : Picked(IF s[k + 1] \in S THEN Append(t, s[k + 1]) ELSE t, s, S, k + 1, f)
    BY <2>1, <2>3, PickedMore
  <2> QED BY <2>2, <2>4
<1> HIDE DEF Good
<1>5. 0 .. Len(s) \subseteq G
  <2>1. 0 \in G /\ \A k \in 0 .. Len(s) - 1 : k \in G => k + 1 \in G
    BY <1>2, <1>3, <1>4
  <2> HIDE DEF G
  <2> QED BY <1>2, <2>1, UpTo
<1>6. Good(Len(s))
  BY <1>2, <1>5
<1> QED BY <1>2, <1>6 DEF Good
----------------------------------------------------------------------------
(* The directory                                                            *)

Entry == [name : StoreNames, file : StoreFiles, stamp : Nat \ {0}]

\* d has entries of different names, in the order of their stamps.
AreEntries(d) ==
  /\ d \in Seq(Entry)
  /\ \A i, j \in 1 .. Len(d) : d[i].name = d[j].name => i = j
  /\ \A i, j \in 1 .. Len(d) : i < j => d[i].stamp < d[j].stamp

IsDirectory(d, name) == AreEntries(d) /\ \E i \in 1 .. Len(d) : d[i].name = name

LEMMA EntriesOfIs ==
  ASSUME NEW names, AreEntries(directory)
  PROVE  /\ AreEntries(EntriesOf(names))
         /\ \A k \in 1 .. Len(EntriesOf(names)) : EntriesOf(names)[k].name \in names
                                                /\ EntriesOf(names)[k] \in ToSet(directory)
         /\ \A i \in 1 .. Len(directory) : directory[i].name \in names =>
              \E k \in 1 .. Len(EntriesOf(names)) : EntriesOf(names)[k] = directory[i]
<1> DEFINE S == {e \in ToSet(directory) : e.name \in names}
           t == Filtered(directory, S)
<1>1. directory \in Seq(Entry) /\ DOMAIN directory = 1 .. Len(directory) /\ Len(directory) \in Nat
  BY DEF AreEntries
<1>2. t \in Seq(Entry) /\ ToSet(t) = ToSet(directory) \cap S
  BY <1>1, FilteredIs
<1>3. PICK f : Picked(t, directory, S, Len(directory), f)
  BY <1>1, FilteredPicks
<1>4. EntriesOf(names) = t
  BY DEF EntriesOf
<1>5. \A i \in 1 .. Len(directory) : directory[i].name \in names => directory[i] \in S
  BY <1>1 DEF ToSet
<1> HIDE DEF t
<1>6. \A k \in 1 .. Len(t) : t[k] \in ToSet(directory) /\ t[k].name \in names
  <2>1. \A k \in 1 .. Len(t) : t[k] \in ToSet(t)
    BY <1>2 DEF ToSet
  <2> QED BY <1>2, <2>1
<1> HIDE DEF S
<1>7. /\ f \in [1 .. Len(t) -> 1 .. Len(directory)]
      /\ \A k \in 1 .. Len(t) : t[k] = directory[f[k]]
      /\ \A k, l \in 1 .. Len(t) : k < l => f[k] < f[l]
      /\ \A i \in 1 .. Len(directory) : directory[i] \in S => \E k \in 1 .. Len(t) : f[k] = i
  BY <1>3 DEF Picked
<1>8. ASSUME NEW k \in 1 .. Len(t), NEW l \in 1 .. Len(t), k < l PROVE t[k].stamp < t[l].stamp /\ t[k].name # t[l].name
  <2>1. f[k] \in 1 .. Len(directory) /\ f[l] \in 1 .. Len(directory) /\ f[k] < f[l]
    BY <1>7, <1>8
  <2>2. f[k] # f[l]
    BY <1>1, <2>1
  <2>3. directory[f[k]].stamp < directory[f[l]].stamp /\ directory[f[k]].name # directory[f[l]].name
    BY <2>1, <2>2, Zenon DEF AreEntries
  <2> QED BY <1>7, <2>3
<1>9. AreEntries(t)
  <2>1. \A k, l \in 1 .. Len(t) : k < l \/ l < k \/ k = l
    BY <1>2
  <2>2. \A k, l \in 1 .. Len(t) : t[k].name = t[l].name => k = l
    BY <1>8, <2>1
  <2> QED BY <1>2, <1>8, <2>2 DEF AreEntries
<1>10. ASSUME NEW i \in 1 .. Len(directory), directory[i].name \in names PROVE \E k \in 1 .. Len(t) : t[k] = directory[i]
  BY <1>5, <1>7, <1>10
<1> QED BY <1>4, <1>6, <1>9, <1>10

LEMMA LastStampIs ==
  ASSUME AreEntries(directory), Len(directory) >= 1, fan.cursor \in Nat
  PROVE  LastStamp \in Nat /\ \A e \in ToSet(directory) : e.stamp <= LastStamp
<1> DEFINE n == Len(directory)
           s == directory[n].stamp
<1>1. n \in Nat /\ n \in 1 .. n /\ DOMAIN directory = 1 .. n /\ \A i \in 1 .. n : directory[i] \in Entry
  BY DEF AreEntries
<1>2. \A i \in 1 .. n : directory[i].stamp \in Nat
  BY <1>1 DEF Entry
<1>3. \A i \in 1 .. n : i < n => directory[i].stamp < s
  BY <1>1 DEF AreEntries
<1>4. LastStamp = IF s > fan.cursor THEN s ELSE fan.cursor
  BY DEF LastStamp, Last
<1>5. LastStamp \in Nat /\ s <= LastStamp
  BY <1>1, <1>2, <1>4
<1>6. ASSUME NEW i \in 1 .. n PROVE directory[i].stamp <= LastStamp
  <2>1. i = n \/ i < n
    <3>1. n \in Nat /\ i \in 1 .. n
      BY <1>1
    <3> HIDE DEF n
    <3> QED BY <3>1
  <2>2. directory[i].stamp <= s
    <3>1. directory[i].stamp \in Nat /\ s \in Nat
      BY <1>1, <1>2
    <3>2. directory[i].stamp < s \/ i = n
      BY <1>3, <2>1
    <3> HIDE DEF n
    <3> QED BY <3>1, <3>2 DEF s
  <2> QED BY <1>1, <1>2, <1>5, <2>2
<1> QED BY <1>1, <1>5, <1>6 DEF ToSet

\* The keys that are set anew come behind all others.
LEMMA SetBehindIs ==
  ASSUME AreEntries(directory), Len(directory) >= 1, fan.cursor \in Nat,
         NEW kept, AreEntries(kept), \A k \in 1 .. Len(kept) : kept[k] \in ToSet(directory),
         NEW U, NEW more \in Seq(U),
         \A i \in 1 .. Len(more) : more[i].name \in StoreNames /\ more[i].file \in StoreFiles,
         \A i, j \in 1 .. Len(more) : more[i].name = more[j].name => i = j,
         \A k \in 1 .. Len(kept), i \in 1 .. Len(more) : kept[k].name # more[i].name
  PROVE  /\ AreEntries(SetBehind(kept, more))
         /\ \A k \in 1 .. Len(kept) : \E i \in 1 .. Len(SetBehind(kept, more)) : SetBehind(kept, more)[i] = kept[k]
         /\ \A k \in 1 .. Len(more) : \E i \in 1 .. Len(SetBehind(kept, more)) : SetBehind(kept, more)[i].name = more[k].name
<1> DEFINE b == [i \in DOMAIN more |-> [name |-> more[i].name, file |-> more[i].file, stamp |-> LastStamp + i]]
           d == kept \o b
           m == Len(kept)
           n == Len(more)
<1>1. m \in Nat /\ n \in Nat /\ DOMAIN more = 1 .. n /\ kept \in Seq(Entry) /\ \A k \in 1 .. m : kept[k] \in Entry
  BY DEF AreEntries
<1>2. LastStamp \in Nat /\ \A k \in 1 .. m : kept[k].stamp <= LastStamp
  BY LastStampIs
<1>3. \A i \in 1 .. n : b[i] = [name |-> more[i].name, file |-> more[i].file, stamp |-> LastStamp + i] /\ LastStamp + i \in Nat \ {0}
  BY <1>1, <1>2
<1>4. ASSUME NEW i \in 1 .. n PROVE b[i] \in Entry
  <2>1. more[i].name \in StoreNames /\ more[i].file \in StoreFiles /\ LastStamp + i \in Nat \ {0}
    BY <1>3
  <2>2. [name |-> more[i].name, file |-> more[i].file, stamp |-> LastStamp + i] \in Entry
    BY <2>1 DEF Entry
  <2> QED BY <1>3, <2>2
<1>5. b \in Seq(Entry) /\ Len(b) = n
  BY <1>1, <1>4
<1>6. SetBehind(kept, more) = d
  BY DEF SetBehind
<1>7. /\ d \in Seq(Entry) /\ Len(d) = m + n
      /\ \A i \in 1 .. m : d[i] = kept[i]
      /\ \A i \in 1 .. n : d[m + i] = b[i]
  BY <1>1, <1>5
<1> HIDE DEF d
<1>8. \A i \in 1 .. n : b[i].name = more[i].name /\ b[i].stamp = LastStamp + i
  BY <1>3
<1> HIDE DEF b
<1>9. \A i \in 1 .. m + n : i \in 1 .. m \/ (i - m \in 1 .. n /\ m + (i - m) = i)
  BY <1>1
<1>10. ASSUME NEW i \in 1 .. m + n, NEW j \in 1 .. m + n, i < j PROVE d[i].stamp < d[j].stamp /\ d[i].name # d[j].name
  <2>1. CASE j \in 1 .. m
    <3>1. i \in 1 .. m
      BY <1>1, <1>10, <2>1
    <3>2. kept[i].stamp < kept[j].stamp /\ kept[i].name # kept[j].name
      <4>1. i # j
        BY <1>1, <1>10
      <4> QED BY <1>10, <2>1, <3>1, <4>1, Zenon DEF AreEntries
    <3> QED BY <1>7, <2>1, <3>1, <3>2
  <2>2. CASE j \notin 1 .. m
    <3>1. j - m \in 1 .. n /\ d[j] = b[j - m]
      BY <1>7, <1>9, <2>2
    <3>2. d[j].name = more[j - m].name /\ d[j].stamp = LastStamp + (j - m)
      BY <1>8, <3>1
    <3>3. CASE i \in 1 .. m
      <4>1. d[i] = kept[i] /\ kept[i].stamp <= LastStamp /\ kept[i].stamp \in Nat /\ kept[i].name # more[j - m].name
        <5>1. kept[i].stamp \in Nat
          BY <1>1, <3>3 DEF Entry
        <5> QED BY <1>2, <1>7, <3>1, <3>3, <5>1
      <4> QED BY <1>1, <1>2, <3>1, <3>2, <4>1
    <3>4. CASE i \notin 1 .. m
      <4>1. i - m \in 1 .. n /\ d[i] = b[i - m] /\ i - m # j - m /\ i - m < j - m
        BY <1>1, <1>7, <1>9, <1>10, <3>4
      <4>2. d[i].name = more[i - m].name /\ d[i].stamp = LastStamp + (i - m)
        BY <1>8, <4>1
      <4>3. d[i].name # d[j].name
        BY <3>1, <3>2, <4>1, <4>2
      <4>4. d[i].stamp < d[j].stamp
        BY <1>1, <1>2, <3>1, <3>2, <4>1, <4>2
      <4> QED BY <4>3, <4>4
    <3> QED BY <3>3, <3>4
  <2> QED BY <2>1, <2>2
<1>11. AreEntries(d)
  <2>1. \A i, j \in 1 .. m + n : i < j \/ j < i \/ i = j
    BY <1>1
  <2>2. \A i, j \in 1 .. m + n : d[i].name = d[j].name => i = j
    BY <1>10, <2>1
  <2> QED BY <1>7, <1>10, <2>2 DEF AreEntries
<1>12. \A k \in 1 .. m : k \in 1 .. m + n /\ d[k] = kept[k]
  BY <1>1, <1>7
<1>13. \A k \in 1 .. n : m + k \in 1 .. m + n /\ d[m + k].name = more[k].name
  BY <1>1, <1>7, <1>8
<1> QED BY <1>6, <1>7, <1>11, <1>12, <1>13

Answer == [name : StoreNames, file : StoreFiles, ok : BOOLEAN]

FanTypes ==
  /\ fan \in [phase : {"idle", "visit", "await", "done"}, cursor : Nat, asked : Entry \cup {<<>>},
             per : Seq(Answer), quiet : BOOLEAN]
  /\ fan.phase = "await" => fan.asked \in Entry
  /\ \E S : audit \in Seq(S)

\* The first entries of the directory have been asked, in their order, and the cursor is at the last of them.
HasAsked ==
  \E n \in 0 .. Len(directory) :
    /\ fan.cursor = IF n = 0 THEN 0 ELSE directory[n].stamp
    /\ fan.phase = "visit" => Len(fan.per) = n
    /\ fan.phase = "await" => n >= 1 /\ Len(fan.per) = n - 1 /\ fan.asked = directory[n]
    /\ \A i \in 1 .. Len(fan.per) : fan.per[i].name = directory[i].name /\ fan.per[i].file = directory[i].file

FanIInv ==
  /\ IsDirectory(directory, default) /\ FanTypes
  /\ fan.quiet /\ fan.phase \in {"visit", "await"} => HasAsked
  /\ QuietFanOutIsWhole

LEMMA RegistryKeeps == ASSUME FanIInv, RegistryEdit, IsDirectory(directory', default') PROVE FanIInv'
<1>1. fan' = [fan EXCEPT !.quiet = FALSE] /\ audit' = audit
  BY DEF RegistryEdit
<1>2. FanTypes
  BY DEF FanIInv
<1>3. fan'.quiet = FALSE /\ FanTypes'
  BY <1>1, <1>2 DEF FanTypes
<1>4. QuietFanOutIsWhole'
  BY <1>3 DEF QuietFanOutIsWhole
<1> QED BY <1>3, <1>4 DEF FanIInv

\* The default store stays, the others are set anew.
LEMMA SyncedKeeps ==
  ASSUME FanIInv, NEW U, NEW others \in Seq(U), Synced(others),
         \A i \in 1 .. Len(others) : others[i].name \in StoreNames \ {default} /\ others[i].file \in StoreFiles,
         \A i, j \in 1 .. Len(others) : others[i].name = others[j].name => i = j
  PROVE  IsDirectory(directory', default')
<1> DEFINE kept == EntriesOf({default})
<1>1. directory' = SetBehind(kept, others) /\ default' = default
  BY DEF Synced
<1>2. AreEntries(directory) /\ fan.cursor \in Nat
  BY DEF FanIInv, FanTypes, IsDirectory
<1>3. PICK d \in 1 .. Len(directory) : directory[d].name = default
  BY DEF FanIInv, IsDirectory
<1>4. /\ AreEntries(kept)
      /\ \A k \in 1 .. Len(kept) : kept[k].name \in {default} /\ kept[k] \in ToSet(directory)
      /\ \E k \in 1 .. Len(kept) : kept[k] = directory[d]
  BY <1>2, <1>3, EntriesOfIs
<1> HIDE DEF kept
<1>5. Len(directory) >= 1
  BY <1>2 DEF AreEntries
<1>6. \A k \in 1 .. Len(kept), i \in 1 .. Len(others) : kept[k].name # others[i].name
  BY <1>4
<1>7. \A i \in 1 .. Len(others) : others[i].name \in StoreNames /\ others[i].file \in StoreFiles
  OBVIOUS
<1>8. \A k \in 1 .. Len(kept) : kept[k] \in ToSet(directory)
  BY <1>4
<1> DEFINE b == SetBehind(kept, others)
<1>9. AreEntries(b) /\ \A k \in 1 .. Len(kept) : \E i \in 1 .. Len(b) : b[i] = kept[k]
  BY <1>2, <1>4, <1>5, <1>6, <1>7, <1>8, SetBehindIs
<1> HIDE DEF b
<1>10. \E i \in 1 .. Len(b) : b[i].name = default
  BY <1>3, <1>4, <1>9
<1>11. IsDirectory(b, default)
  BY <1>9, <1>10 DEF IsDirectory
<1> QED BY <1>1, <1>11 DEF b

LEMMA NonDefaultIs ==
  ASSUME FanIInv, NEW names \in SUBSET (StoreNames \ {default})
  PROVE  /\ EntriesOf(names) \in Seq(Entry)
         /\ \A i \in 1 .. Len(EntriesOf(names)) :
              /\ EntriesOf(names)[i].name \in names /\ EntriesOf(names)[i].file \in StoreFiles
              /\ EntriesOf(names)[i] \in ToSet(directory)
         /\ \A i, j \in 1 .. Len(EntriesOf(names)) : EntriesOf(names)[i].name = EntriesOf(names)[j].name => i = j
<1> DEFINE e == EntriesOf(names)
<1>1. AreEntries(directory)
  BY DEF FanIInv, IsDirectory
<1>2. AreEntries(e) /\ \A k \in 1 .. Len(e) : e[k].name \in names /\ e[k] \in ToSet(directory)
  BY <1>1, EntriesOfIs
<1> HIDE DEF e
<1>3. e \in Seq(Entry) /\ \A i, j \in 1 .. Len(e) : e[i].name = e[j].name => i = j
  BY <1>2 DEF AreEntries
<1>4. \A k \in 1 .. Len(e) : e[k] \in Entry
  BY <1>3
<1>5. \A k \in 1 .. Len(e) : e[k].file \in StoreFiles
  BY <1>4 DEF Entry
<1> QED BY <1>2, <1>3, <1>5 DEF e

LEMMA AddKeepsDirectory ==
  ASSUME FanIInv, NEW name \in StoreNames, NEW file \in StoreFiles, HotAddStore(name, file)
  PROVE  IsDirectory(directory', default')
<1> DEFINE e == EntriesOf(StoreNames \ {default})
           x == [name |-> name, file |-> file]
           U == Entry \cup {x}
           o == Append(e, x)
<1>1. Synced(o) /\ name \in FreeNames
  BY DEF HotAddStore, NonDefault
<1>2. /\ e \in Seq(Entry)
      /\ \A i \in 1 .. Len(e) : e[i].name \in StoreNames \ {default} /\ e[i].file \in StoreFiles /\ e[i] \in ToSet(directory)
      /\ \A i, j \in 1 .. Len(e) : e[i].name = e[j].name => i = j
  BY NonDefaultIs
<1> HIDE DEF e
<1>3. AreEntries(directory) /\ \E d \in 1 .. Len(directory) : directory[d].name = default
  BY DEF FanIInv, IsDirectory
<1>4. directory \in Seq(Entry) /\ DOMAIN directory = 1 .. Len(directory)
  BY <1>3 DEF AreEntries
<1>5. name # default /\ \A y \in ToSet(directory) : y.name # name
  BY <1>1, <1>3, <1>4 DEF FreeNames, ToSet
<1>6. x \in U /\ x.name = name /\ x.file = file /\ e \in Seq(U)
  BY <1>2
<1> HIDE DEF x, U
<1>7. /\ o \in Seq(U) /\ Len(o) = Len(e) + 1 /\ Len(e) \in Nat /\ o[Len(e) + 1] = x
      /\ \A i \in 1 .. Len(e) : o[i] = e[i]
  BY <1>6
<1>8. \A i \in 1 .. Len(e) + 1 : i \in 1 .. Len(e) \/ i = Len(e) + 1
  BY <1>7
<1> HIDE DEF o
<1>9. \A i \in 1 .. Len(o) : o[i].name \in StoreNames \ {default} /\ o[i].file \in StoreFiles
  <2> SUFFICES ASSUME NEW i \in 1 .. Len(e) + 1 PROVE o[i].name \in StoreNames \ {default} /\ o[i].file \in StoreFiles
    BY <1>7
  <2>1. CASE i \in 1 .. Len(e)
    BY <1>2, <1>7, <2>1
  <2>2. CASE i = Len(e) + 1
    BY <1>5, <1>6, <1>7, <2>2
  <2> QED BY <1>8, <2>1, <2>2
<1>10. \A i \in 1 .. Len(e) : o[i].name # name
  BY <1>2, <1>5, <1>7
<1>11. ASSUME NEW i \in 1 .. Len(o), NEW j \in 1 .. Len(o), o[i].name = o[j].name PROVE i = j
  <2>1. (i \in 1 .. Len(e) \/ i = Len(e) + 1) /\ (j \in 1 .. Len(e) \/ j = Len(e) + 1)
    BY <1>7, <1>8
  <2>2. CASE i \in 1 .. Len(e) /\ j \in 1 .. Len(e)
    BY <1>2, <1>7, <1>11, <2>2
  <2>3. CASE i = Len(e) + 1
    BY <1>6, <1>7, <1>10, <1>11, <2>1, <2>3
  <2>4. CASE j = Len(e) + 1
    BY <1>6, <1>7, <1>10, <1>11, <2>1, <2>4
  <2> QED BY <2>1, <2>2, <2>3, <2>4
<1> QED BY <1>1, <1>7, <1>9, <1>11, SyncedKeeps

LEMMA RemoveKeepsDirectory ==
  ASSUME FanIInv, NEW name, HotRemoveStore(name)
  PROVE  IsDirectory(directory', default')
<1> DEFINE names == StoreNames \ {default, name}
           e == EntriesOf(names)
<1>1. Synced(e)
  BY DEF HotRemoveStore
<1>2. names \in SUBSET (StoreNames \ {default})
  OBVIOUS
<1>3. /\ e \in Seq(Entry)
      /\ \A i \in 1 .. Len(e) : e[i].name \in names /\ e[i].file \in StoreFiles
      /\ \A i, j \in 1 .. Len(e) : e[i].name = e[j].name => i = j
  <2> HIDE DEF names
  <2> QED BY <1>2, NonDefaultIs
<1> HIDE DEF e
<1>4. \A i \in 1 .. Len(e) : e[i].name \in StoreNames \ {default} /\ e[i].file \in StoreFiles
  BY <1>2, <1>3
<1> QED BY <1>1, <1>3, <1>4, SyncedKeeps

LEMMA RenameKeepsDirectory ==
  ASSUME FanIInv, NEW from, NEW to, HotRenameStore(from, to)
  PROVE  IsDirectory(directory', default')
<1> DEFINE e == EntriesOf(StoreNames \ {default})
           o == [i \in DOMAIN e |-> [e[i] EXCEPT !.name = IF @ = from THEN to ELSE @]]
<1>1. Synced(o) /\ to \in FreeNames
  BY DEF HotRenameStore, NonDefault
<1>2. /\ e \in Seq(Entry)
      /\ \A i \in 1 .. Len(e) : e[i].name \in StoreNames \ {default} /\ e[i].file \in StoreFiles /\ e[i] \in ToSet(directory)
      /\ \A i, j \in 1 .. Len(e) : e[i].name = e[j].name => i = j
  BY NonDefaultIs
<1>3. \A i \in 1 .. Len(e) : e[i] \in Entry
  BY <1>2
<1>4. DOMAIN e = 1 .. Len(e) /\ Len(e) \in Nat
  BY <1>2
<1> HIDE DEF e
<1>5. AreEntries(directory) /\ \E d \in 1 .. Len(directory) : directory[d].name = default
  BY DEF FanIInv, IsDirectory
<1>6. directory \in Seq(Entry) /\ DOMAIN directory = 1 .. Len(directory)
  BY <1>5 DEF AreEntries
<1>7. to \in StoreNames /\ to # default /\ \A y \in ToSet(directory) : y.name # to
  BY <1>1, <1>5, <1>6 DEF FreeNames, ToSet
<1>8. \A i \in 1 .. Len(e) : o[i].name = (IF e[i].name = from THEN to ELSE e[i].name) /\ o[i].file = e[i].file /\ o[i] \in Entry
  BY <1>3, <1>4, <1>7 DEF Entry
<1>9. o \in Seq(Entry) /\ Len(o) = Len(e)
  <2>1. DOMAIN o = 1 .. Len(e) /\ o = [i \in DOMAIN o |-> o[i]]
    BY <1>4
  <2> HIDE DEF o
  <2>2. o \in [1 .. Len(e) -> Entry]
    BY <1>8, <2>1
  <2> QED BY <1>4, <2>2
<1> HIDE DEF o
<1>10. \A i \in 1 .. Len(o) : o[i].name \in StoreNames \ {default} /\ o[i].file \in StoreFiles
  BY <1>2, <1>7, <1>8, <1>9
<1>11. ASSUME NEW i \in 1 .. Len(o), NEW j \in 1 .. Len(o), o[i].name = o[j].name PROVE i = j
  <2>1. e[i].name # to /\ e[j].name # to
    BY <1>2, <1>7, <1>9
  <2>2. e[i].name = e[j].name
    BY <1>8, <1>9, <1>11, <2>1
  <2> QED BY <1>2, <1>9, <2>2
<1> QED BY <1>1, <1>9, <1>10, <1>11, SyncedKeeps

LEMMA RenameDefaultKeepsDirectory ==
  ASSUME FanIInv, NEW to, HotRenameDefault(to)
  PROVE  IsDirectory(directory', default')
<1> DEFINE e == EntriesOf(StoreNames \ {default})
           own == EntriesOf({default})
           x == [name |-> to, file |-> own[1].file]
           o == <<x>>
<1>1. directory' = SetBehind(e, o) /\ default' = to /\ to \in FreeNames
  BY DEF HotRenameDefault, NonDefault
<1>2. AreEntries(directory) /\ fan.cursor \in Nat
  BY DEF FanIInv, FanTypes, IsDirectory
<1>3. PICK d \in 1 .. Len(directory) : directory[d].name = default
  BY DEF FanIInv, IsDirectory
<1>4. AreEntries(own) /\ \E k \in 1 .. Len(own) : own[k] = directory[d]
  BY <1>2, <1>3, EntriesOfIs
<1>5. AreEntries(e) /\ \A k \in 1 .. Len(e) : e[k].name \in StoreNames \ {default} /\ e[k] \in ToSet(directory)
  BY <1>2, EntriesOfIs
<1> HIDE DEF e, own
<1>6. own[1].file \in StoreFiles
  <2>1. own \in Seq(Entry) /\ 1 \in 1 .. Len(own)
    BY <1>4 DEF AreEntries
  <2>2. own[1] \in Entry
    BY <2>1
  <2> QED BY <2>2 DEF Entry
<1>7. directory \in Seq(Entry) /\ DOMAIN directory = 1 .. Len(directory) /\ Len(directory) >= 1
  BY <1>2, <1>3 DEF AreEntries
<1>8. to \in StoreNames /\ \A y \in ToSet(directory) : y.name # to
  BY <1>1, <1>7 DEF FreeNames, ToSet
<1>9. x.name = to /\ x.file = own[1].file
  OBVIOUS
<1> HIDE DEF x
<1>10. o \in Seq({x}) /\ Len(o) = 1 /\ o[1] = x /\ \A i \in 1 .. Len(o) : i = 1
  OBVIOUS
<1> HIDE DEF o
<1>11. \A k \in 1 .. Len(e), i \in 1 .. Len(o) : e[k].name # o[i].name
  BY <1>5, <1>8, <1>9, <1>10
<1>12. \A i \in 1 .. Len(o) : o[i].name \in StoreNames /\ o[i].file \in StoreFiles
  BY <1>6, <1>8, <1>9, <1>10
<1>13. \A i, j \in 1 .. Len(o) : o[i].name = o[j].name => i = j
  BY <1>10
<1>14. \A k \in 1 .. Len(e) : e[k] \in ToSet(directory)
  BY <1>5
<1> DEFINE b == SetBehind(e, o)
<1>15. AreEntries(b) /\ \A k \in 1 .. Len(o) : \E i \in 1 .. Len(b) : b[i].name = o[k].name
  BY <1>2, <1>5, <1>7, <1>10, <1>11, <1>12, <1>13, <1>14, SetBehindIs
<1> HIDE DEF b
<1>16. 1 \in 1 .. Len(o)
  BY <1>10
<1>17. \E i \in 1 .. Len(b) : b[i].name = to
  BY <1>9, <1>10, <1>15, <1>16
<1>18. IsDirectory(b, to)
  BY <1>15, <1>17 DEF IsDirectory
<1> QED BY <1>1, <1>18 DEF b

----------------------------------------------------------------------------
(* What the merge is built from                                             *)

\* Answers of different stores.
AreAnswers(per) == per \in Seq(Answer) /\ \A i, j \in 1 .. Len(per) : per[i].name = per[j].name => i = j

LEMMA DefaultFirstIs ==
  ASSUME NEW per, AreAnswers(per), NEW d \in 1 .. Len(per), per[d].name = default
  PROVE  /\ AreAnswers(DefaultFirst(per)) /\ Len(DefaultFirst(per)) = Len(per)
         /\ DefaultFirst(per)[1] = per[d] /\ ToSet(DefaultFirst(per)) = ToSet(per)
<1> DEFINE named == {i \in DOMAIN per : per[i].name = default}
           r == RemoveAt(per, d)
           s == <<per[d]>> \o r
<1>1. per \in Seq(Answer) /\ Len(per) \in Nat /\ DOMAIN per = 1 .. Len(per) /\ \A i \in 1 .. Len(per) : per[i] \in Answer
  BY DEF AreAnswers
<1>2. named = {d}
  BY <1>1 DEF AreAnswers
<1>3. Min(named) = d
  BY <1>1, <1>2 DEF Min
<1>4. DefaultFirst(per) = s
  BY <1>2, <1>3 DEF DefaultFirst
<1>5. /\ r \in Seq(Answer) /\ Len(r) = Len(per) - 1
      /\ \A i \in DOMAIN r : LET j == IF i < d THEN i ELSE i + 1 IN j \in DOMAIN per /\ r[i] = per[j]
      /\ \A j \in DOMAIN per : j # d => \E i \in DOMAIN r : r[i] = per[j]
  <2>1. d \in DOMAIN per /\ per \in Seq(Answer)
    BY <1>1
  <2> QED BY <2>1, RemoveAtIs, Zenon
<1> HIDE DEF r
<1>6. DOMAIN r = 1 .. Len(per) - 1
  BY <1>5
<1>7. /\ s \in Seq(Answer) /\ Len(s) = Len(per) /\ s[1] = per[d]
      /\ \A i \in 1 .. Len(per) - 1 : s[i + 1] = r[i]
  <2> DEFINE x == per[d]
  <2>1. x \in Answer /\ r \in Seq(Answer) /\ Len(r) = Len(per) - 1 /\ Len(per) \in Nat
    BY <1>1, <1>5
  <2>2. s = <<x>> \o r
    OBVIOUS
  <2> HIDE DEF x, s
  <2>3. /\ s \in Seq(Answer) /\ Len(s) = 1 + Len(r) /\ s[1] = x
        /\ \A i \in 1 .. Len(r) : s[i + 1] = r[i]
    BY <2>1, <2>2
  <2> QED BY <2>1, <2>3 DEF x
<1> HIDE DEF s
<1> DEFINE at(i) == IF i = 1 THEN d ELSE IF i - 1 < d THEN i - 1 ELSE i
<1>8. ASSUME NEW i \in 1 .. Len(per) PROVE at(i) \in 1 .. Len(per) /\ s[i] = per[at(i)]
  <2>1. CASE i = 1
    BY <1>7, <2>1
  <2>2. CASE i # 1
    <3>1. i - 1 \in 1 .. Len(per) - 1 /\ (i - 1) + 1 = i
      BY <1>1, <2>2
    <3>2. s[i] = r[i - 1]
      BY <1>7, <3>1
    <3>3. r[i - 1] = per[IF i - 1 < d THEN i - 1 ELSE (i - 1) + 1] /\ (IF i - 1 < d THEN i - 1 ELSE (i - 1) + 1) \in DOMAIN per
      BY <1>5, <1>6, <3>1
    <3>4. at(i) = IF i - 1 < d THEN i - 1 ELSE (i - 1) + 1
      BY <2>2, <3>1
    <3> QED BY <1>1, <3>2, <3>3, <3>4
  <2> QED BY <2>1, <2>2
<1>9. \A i, j \in 1 .. Len(per) : at(i) = at(j) => i = j
  BY <1>1
<1> HIDE DEF at
<1>10. ASSUME NEW i \in 1 .. Len(per), NEW j \in 1 .. Len(per), s[i].name = s[j].name PROVE i = j
  <2>1. at(i) \in 1 .. Len(per) /\ at(j) \in 1 .. Len(per) /\ per[at(i)].name = per[at(j)].name
    BY <1>8, <1>10
  <2>2. at(i) = at(j)
    BY <2>1 DEF AreAnswers
  <2> QED BY <1>9, <2>2
<1>11. AreAnswers(s)
  BY <1>7, <1>10 DEF AreAnswers
<1>12. \A i \in 1 .. Len(per) : s[i] \in ToSet(per)
  BY <1>1, <1>8 DEF ToSet
<1>13. ASSUME NEW j \in 1 .. Len(per) PROVE \E i \in 1 .. Len(per) : s[i] = per[j]
  <2>1. CASE j = d
    <3>1. 1 \in 1 .. Len(per)
      BY <1>1
    <3> QED BY <1>7, <2>1, <3>1
  <2>2. CASE j # d
    <3>1. PICK i \in DOMAIN r : r[i] = per[j]
      BY <1>1, <1>5, <2>2
    <3>2. i + 1 \in 1 .. Len(per) /\ s[i + 1] = r[i]
      BY <1>1, <1>6, <1>7
    <3> QED BY <3>1, <3>2
  <2> QED BY <2>1, <2>2
<1>14. DOMAIN s = 1 .. Len(per)
  BY <1>7
<1>15. ToSet(s) = ToSet(per)
  BY <1>1, <1>12, <1>13, <1>14 DEF ToSet
<1> QED BY <1>4, <1>7, <1>11, <1>15

\* Some of the answers are of different stores too, and in their order.
LEMMA FewerAnswers ==
  ASSUME NEW per, AreAnswers(per), NEW S
  PROVE  /\ AreAnswers(Filtered(per, S)) /\ ToSet(Filtered(per, S)) = ToSet(per) \cap S
         /\ \A i, j \in 1 .. Len(Filtered(per, S)) : i < j => Filtered(per, S)[j].name # per[1].name
         /\ Len(per) >= 1 /\ per[1] \in S => Len(Filtered(per, S)) >= 1 /\ Filtered(per, S)[1] = per[1]
<1> DEFINE t == Filtered(per, S)
<1>1. per \in Seq(Answer) /\ Len(per) \in Nat
  BY DEF AreAnswers
<1>2. t \in Seq(Answer) /\ ToSet(t) = ToSet(per) \cap S
  BY <1>1, FilteredIs
<1>3. PICK f : Picked(t, per, S, Len(per), f)
  BY <1>1, FilteredPicks
<1> HIDE DEF t
<1>4. /\ f \in [1 .. Len(t) -> 1 .. Len(per)]
      /\ \A k \in 1 .. Len(t) : t[k] = per[f[k]]
      /\ \A k, l \in 1 .. Len(t) : k < l => f[k] < f[l]
      /\ \A i \in 1 .. Len(per) : per[i] \in S => \E k \in 1 .. Len(t) : f[k] = i
  BY <1>3 DEF Picked
<1>5. Len(t) \in Nat /\ \A k \in 1 .. Len(t) : f[k] \in 1 .. Len(per)
  BY <1>2, <1>4
<1>6. ASSUME NEW k \in 1 .. Len(t), NEW l \in 1 .. Len(t), t[k].name = t[l].name PROVE k = l
  <2>1. f[k] = f[l]
    <3>1. per[f[k]].name = per[f[l]].name /\ f[k] \in 1 .. Len(per) /\ f[l] \in 1 .. Len(per)
      BY <1>4, <1>5, <1>6
    <3> QED BY <3>1, Zenon DEF AreAnswers
  <2>2. ~ (k < l) /\ ~ (l < k)
    BY <1>1, <1>4, <1>5, <2>1
  <2> QED BY <1>5, <2>2
<1>7. AreAnswers(t)
  BY <1>2, <1>6 DEF AreAnswers
<1>8. ASSUME NEW i \in 1 .. Len(t), NEW j \in 1 .. Len(t), i < j PROVE t[j].name # per[1].name
  <2>1. f[i] \in 1 .. Len(per) /\ f[j] \in 1 .. Len(per) /\ f[i] < f[j]
    BY <1>4, <1>5, <1>8
  <2>2. f[j] # 1 /\ 1 \in 1 .. Len(per)
    BY <1>1, <2>1
  <2>3. per[f[j]].name # per[1].name
    BY <2>1, <2>2, Zenon DEF AreAnswers
  <2> QED BY <1>4, <2>3
<1>9. ASSUME Len(per) >= 1, per[1] \in S PROVE Len(t) >= 1 /\ t[1] = per[1]
  <2>1. PICK k \in 1 .. Len(t) : f[k] = 1
    <3>1. 1 \in 1 .. Len(per)
      BY <1>1, <1>9
    <3> QED BY <1>4, <1>9, <3>1
  <2>2. 1 \in 1 .. Len(t) /\ (k = 1 \/ 1 < k)
    BY <1>5
  <2>3. k = 1
    <3>1. f[1] \in 1 .. Len(per)
      BY <1>5, <2>2
    <3>2. 1 < k => f[1] < 1
      BY <1>4, <2>1, <2>2
    <3> QED BY <1>1, <2>2, <3>1, <3>2
  <2> QED BY <1>4, <1>5, <2>1, <2>2, <2>3
<1> QED BY <1>2, <1>7, <1>8, <1>9 DEF t

\* What the elements of a sequence are worth has a greatest value.
LEMMA GreatestExists ==
  ASSUME NEW T, NEW s \in Seq(T), NEW g \in [T -> Nat]
  PROVE  \E m \in {0} \cup {g[x] : x \in ToSet(s)} : \A y \in {0} \cup {g[x] : x \in ToSet(s)} : m >= y
<1> DEFINE A(k) == {0} \cup {g[s[i]] : i \in 1 .. k}
           G == {k \in 0 .. Len(s) : \E m \in A(k) : \A y \in A(k) : m >= y}
<1>1. Len(s) \in Nat /\ DOMAIN s = 1 .. Len(s) /\ \A i \in 1 .. Len(s) : s[i] \in T /\ g[s[i]] \in Nat
  OBVIOUS
<1>2. 0 \in G
  <2>1. A(0) = {0}
    OBVIOUS
  <2> QED BY <1>1, <2>1
<1>3. ASSUME NEW k \in 0 .. Len(s) - 1, k \in G PROVE k + 1 \in G
  <2>1. PICK m \in A(k) : \A y \in A(k) : m >= y
    BY <1>3
  <2>2. A(k + 1) = A(k) \cup {g[s[k + 1]]} /\ k + 1 \in 1 .. Len(s) /\ k + 1 \in 0 .. Len(s)
    BY <1>1
  <2>3. A(k) \subseteq Nat /\ g[s[k + 1]] \in Nat
    BY <1>1, <2>2
  <2> HIDE DEF A
  <2> DEFINE n == g[s[k + 1]]
  <2>4. CASE m >= n
    BY <2>1, <2>2, <2>4
  <2>5. CASE ~ (m >= n)
    <3>1. \A y \in A(k + 1) : n >= y
      BY <2>1, <2>2, <2>3, <2>5
    <3> QED BY <2>2, <3>1
  <2> QED BY <2>4, <2>5
<1>4. Len(s) \in G
  <2> HIDE DEF G
  <2>1. 0 .. Len(s) \subseteq G
    BY <1>1, <1>2, <1>3, UpTo
  <2> QED BY <1>1, <2>1
<1>5. A(Len(s)) = {0} \cup {g[x] : x \in ToSet(s)}
  BY <1>1 DEF ToSet
<1> QED BY <1>4, <1>5

----------------------------------------------------------------------------
(* The merge                                                                *)

HitNodes == UNION {ToSet(HitsOf[f]) : f \in StoreFiles}
Item == [node : HitNodes, rank : Nat \ {0}, store : StoreNames]
ItemOf(p, r) == [node |-> HitsOf[p.file][r], rank |-> r, store |-> p.name]
Hits(p) == 1 .. Len(HitsOf[p.file])

LEMMA ItemIs ==
  ASSUME NEW p \in Answer
  PROVE  /\ Len(HitsOf[p.file]) \in Nat /\ DOMAIN HitsOf[p.file] = Hits(p)
         /\ \A r \in Hits(p) : ItemOf(p, r) \in Item
<1> DEFINE h == HitsOf[p.file]
<1>1. p.file \in StoreFiles /\ p.name \in StoreNames
  BY DEF Answer
<1>2. h \in Seq(ToSet(h))
  BY <1>1, FanOutAssumption
<1>3. ToSet(h) \subseteq HitNodes
  BY <1>1 DEF HitNodes
<1> HIDE DEF h
<1>4. Len(h) \in Nat /\ DOMAIN h = 1 .. Len(h) /\ \A r \in 1 .. Len(h) : h[r] \in HitNodes
  BY <1>2, <1>3
<1>5. ASSUME NEW r \in 1 .. Len(h) PROVE [node |-> h[r], rank |-> r, store |-> p.name] \in Item
  <2>1. r \in Nat \ {0} /\ h[r] \in HitNodes
    BY <1>4
  <2> QED BY <1>1, <2>1 DEF Item
<1> QED BY <1>4, <1>5 DEF h, ItemOf, Hits

LEMMA AtRankIs ==
  ASSUME NEW per, AreAnswers(per), NEW r \in Nat \ {0}
  PROVE  /\ AtRank(per, r) \in Seq(Item)
         /\ \A k \in 1 .. Len(AtRank(per, r)) : \E p \in ToSet(per) : r \in Hits(p) /\ AtRank(per, r)[k] = ItemOf(p, r)
         /\ \A p \in ToSet(per) : r \in Hits(p) => \E k \in 1 .. Len(AtRank(per, r)) : AtRank(per, r)[k] = ItemOf(p, r)
         /\ \A i, j \in 1 .. Len(AtRank(per, r)) : AtRank(per, r)[i].store = AtRank(per, r)[j].store => i = j
         /\ \A i, j \in 1 .. Len(AtRank(per, r)) : i < j => AtRank(per, r)[j].store # per[1].name
<1> DEFINE S == {p \in ToSet(per) : r <= Len(HitsOf[p.file])}
           h == Filtered(per, S)
           t == [i \in DOMAIN h |-> [node |-> HitsOf[h[i].file][r], rank |-> r, store |-> h[i].name]]
<1>1. /\ AreAnswers(h) /\ ToSet(h) = ToSet(per) \cap S
      /\ \A i, j \in 1 .. Len(h) : i < j => h[j].name # per[1].name
  BY FewerAnswers
<1>2. AtRank(per, r) = t
  BY DEF AtRank
<1> HIDE DEF h
<1>3. h \in Seq(Answer) /\ Len(h) \in Nat /\ DOMAIN h = 1 .. Len(h) /\ \A k \in 1 .. Len(h) : h[k] \in Answer /\ h[k] \in ToSet(h)
  BY <1>1 DEF AreAnswers, ToSet
<1>4. per \in Seq(Answer) /\ \A p \in ToSet(per) : p \in Answer
  BY DEF AreAnswers, ToSet
<1>5. \A p \in ToSet(per) : p \in S <=> r \in Hits(p)
  <2> SUFFICES ASSUME NEW p \in ToSet(per) PROVE r <= Len(HitsOf[p.file]) <=> r \in Hits(p)
    OBVIOUS
  <2>1. Len(HitsOf[p.file]) \in Nat
    BY <1>4, ItemIs
  <2> QED BY <2>1 DEF Hits
<1> HIDE DEF S
<1>6. \A k \in 1 .. Len(h) : t[k] = ItemOf(h[k], r)
  BY <1>3 DEF ItemOf
<1>7. DOMAIN t = 1 .. Len(h) /\ t = [k \in DOMAIN t |-> t[k]]
  BY <1>3
<1> HIDE DEF t
<1>8. \A k \in 1 .. Len(h) : h[k] \in ToSet(per) /\ r \in Hits(h[k])
  BY <1>1, <1>3, <1>5
<1>9. \A k \in 1 .. Len(h) : t[k] \in Item
  BY <1>3, <1>6, <1>8, ItemIs
<1>10. t \in [1 .. Len(h) -> Item]
  BY <1>7, <1>9
<1>11. t \in Seq(Item) /\ Len(t) = Len(h)
  BY <1>3, <1>10
<1>12. \A p \in ToSet(per) : r \in Hits(p) => \E k \in 1 .. Len(h) : t[k] = ItemOf(p, r)
  <2> SUFFICES ASSUME NEW p \in ToSet(per), r \in Hits(p) PROVE \E k \in 1 .. Len(h) : t[k] = ItemOf(p, r)
    OBVIOUS
  <2>1. p \in ToSet(h)
    BY <1>1, <1>5
  <2>2. PICK k \in 1 .. Len(h) : h[k] = p
    BY <1>3, <2>1 DEF ToSet
  <2> QED BY <1>6, <2>2
<1>13. ASSUME NEW k \in 1 .. Len(h) PROVE t[k].store = h[k].name
  <2>1. t[k] = ItemOf(h[k], r)
    BY <1>6
  <2> QED BY <2>1 DEF ItemOf
<1>14. \A i, j \in 1 .. Len(h) : t[i].store = t[j].store => i = j
  BY <1>1, <1>13 DEF AreAnswers
<1>15. \A i, j \in 1 .. Len(h) : i < j => t[j].store # per[1].name
  BY <1>1, <1>13
<1>16. \A k \in 1 .. Len(h) : \E p \in ToSet(per) : r \in Hits(p) /\ t[k] = ItemOf(p, r)
  BY <1>6, <1>8
<1> QED BY <1>2, <1>11, <1>12, <1>14, <1>15, <1>16

\* The items of the first r ranks.
Merged(per, items, r) ==
  /\ items \in Seq(Item)
  /\ \A i \in 1 .. Len(items) : \E p \in ToSet(per) :
       items[i].rank <= r /\ items[i].rank \in Hits(p) /\ items[i] = ItemOf(p, items[i].rank)
  /\ \A p \in ToSet(per) : \A q \in Hits(p) : q <= r => \E i \in 1 .. Len(items) : items[i] = ItemOf(p, q)
  /\ \A i, j \in 1 .. Len(items) : i < j =>
       \/ items[i].rank < items[j].rank
       \/ items[i].rank = items[j].rank /\ items[j].store # per[1].name
  /\ \A i, j \in 1 .. Len(items) : items[i].rank = items[j].rank /\ items[i].store = items[j].store => i = j

LEMMA MergedMore ==
  ASSUME NEW per, AreAnswers(per), NEW r \in Nat, NEW items, Merged(per, items, r)
  PROVE  Merged(per, items \o AtRank(per, r + 1), r + 1)
<1> DEFINE t == AtRank(per, r + 1)
           s == items \o t
           m == Len(items)
           n == Len(t)
<1>1. r + 1 \in Nat \ {0}
  OBVIOUS
<1>2. /\ t \in Seq(Item)
      /\ \A k \in 1 .. n : \E p \in ToSet(per) : r + 1 \in Hits(p) /\ t[k] = ItemOf(p, r + 1)
      /\ \A p \in ToSet(per) : r + 1 \in Hits(p) => \E k \in 1 .. n : t[k] = ItemOf(p, r + 1)
      /\ \A i, j \in 1 .. n : t[i].store = t[j].store => i = j
      /\ \A i, j \in 1 .. n : i < j => t[j].store # per[1].name
  BY <1>1, AtRankIs
<1> HIDE DEF t
<1>3. items \in Seq(Item)
  BY DEF Merged
<1>4. /\ m \in Nat /\ n \in Nat /\ s \in Seq(Item) /\ Len(s) = m + n
      /\ \A i \in 1 .. m : s[i] = items[i]
      /\ \A k \in 1 .. n : s[m + k] = t[k]
  BY <1>2, <1>3
<1>5. \A i \in 1 .. m : items[i].rank \in Nat /\ items[i].rank <= r
  <2>1. \A i \in 1 .. m : items[i] \in Item
    BY <1>3
  <2>2. \A i \in 1 .. m : items[i].rank \in Nat
    BY <2>1 DEF Item
  <2> QED BY <2>2 DEF Merged
<1>6. ASSUME NEW k \in 1 .. n PROVE t[k].rank = r + 1
  <2>1. PICK p \in ToSet(per) : t[k] = ItemOf(p, r + 1)
    BY <1>2
  <2> QED BY <2>1 DEF ItemOf
<1> HIDE DEF s
<1>7. \A i \in 1 .. m + n : i \in 1 .. m \/ (i - m \in 1 .. n /\ s[i] = t[i - m])
  <2> SUFFICES ASSUME NEW i \in 1 .. m + n, i \notin 1 .. m PROVE i - m \in 1 .. n /\ s[i] = t[i - m]
    OBVIOUS
  <2>1. i - m \in 1 .. n /\ m + (i - m) = i
    BY <1>4
  <2> QED BY <1>4, <2>1
<1>8. ASSUME NEW i \in 1 .. m + n
      PROVE  \E p \in ToSet(per) : s[i].rank <= r + 1 /\ s[i].rank \in Hits(p) /\ s[i] = ItemOf(p, s[i].rank)
  <2>1. CASE i \in 1 .. m
    <3>1. PICK p \in ToSet(per) : items[i].rank \in Hits(p) /\ items[i] = ItemOf(p, items[i].rank)
      BY <2>1 DEF Merged
    <3>2. s[i] = items[i] /\ items[i].rank <= r + 1
      BY <1>4, <1>5, <2>1
    <3> QED BY <3>1, <3>2
  <2>2. CASE i \notin 1 .. m
    <3>1. i - m \in 1 .. n /\ s[i] = t[i - m]
      BY <1>7, <2>2
    <3>2. PICK p \in ToSet(per) : r + 1 \in Hits(p) /\ t[i - m] = ItemOf(p, r + 1)
      BY <1>2, <3>1
    <3>3. s[i].rank = r + 1
      BY <1>6, <3>1
    <3>4. s[i].rank <= r + 1
      BY <3>3
    <3> QED BY <3>1, <3>2, <3>3, <3>4
  <2> QED BY <2>1, <2>2
<1>9. ASSUME NEW p \in ToSet(per), NEW q \in Hits(p), q <= r + 1 PROVE \E i \in 1 .. m + n : s[i] = ItemOf(p, q)
  <2>1. q \in Nat /\ (q <= r \/ q = r + 1)
    BY <1>9 DEF Hits
  <2>2. CASE q <= r
    <3>1. PICK i \in 1 .. m : items[i] = ItemOf(p, q)
      BY <2>2 DEF Merged
    <3>2. i \in 1 .. m + n /\ s[i] = items[i]
      BY <1>4
    <3> QED BY <3>1, <3>2
  <2>3. CASE q = r + 1
    <3>1. PICK k \in 1 .. n : t[k] = ItemOf(p, q)
      BY <1>2, <2>3
    <3>2. m + k \in 1 .. m + n /\ s[m + k] = t[k]
      BY <1>4
    <3> QED BY <3>1, <3>2
  <2> QED BY <2>1, <2>2, <2>3
<1>10. ASSUME NEW i \in 1 .. m + n, NEW j \in 1 .. m + n, i < j
       PROVE  /\ s[i].rank < s[j].rank \/ (s[i].rank = s[j].rank /\ s[j].store # per[1].name)
              /\ ~ (s[i].rank = s[j].rank /\ s[i].store = s[j].store)
  <2>1. CASE j \in 1 .. m
    <3>1. i \in 1 .. m /\ i # j
      BY <1>4, <1>10, <2>1
    <3>2. /\ items[i].rank < items[j].rank \/ (items[i].rank = items[j].rank /\ items[j].store # per[1].name)
          /\ ~ (items[i].rank = items[j].rank /\ items[i].store = items[j].store)
      BY <1>10, <2>1, <3>1, Zenon DEF Merged
    <3> QED BY <1>4, <2>1, <3>1, <3>2
  <2>2. CASE j \notin 1 .. m
    <3>1. j - m \in 1 .. n /\ s[j] = t[j - m] /\ s[j].rank = r + 1
      BY <1>6, <1>7, <2>2
    <3>2. CASE i \in 1 .. m
      <4>1. s[i].rank \in Nat /\ s[i].rank <= r
        BY <1>4, <1>5, <3>2
      <4> QED BY <3>1, <4>1
    <3>3. CASE i \notin 1 .. m
      <4>1. i - m \in 1 .. n /\ s[i] = t[i - m] /\ s[i].rank = r + 1
        BY <1>6, <1>7, <3>3
      <4>2. i - m < j - m /\ i - m # j - m
        BY <1>4, <1>10
      <4> QED BY <1>2, <3>1, <4>1, <4>2
    <3> QED BY <3>2, <3>3
  <2> QED BY <2>1, <2>2
<1>11. \A i, j \in 1 .. m + n : s[i].rank = s[j].rank /\ s[i].store = s[j].store => i = j
  <2>1. \A i, j \in 1 .. m + n : i < j \/ j < i \/ i = j
    BY <1>4
  <2> QED BY <1>10, <2>1
<1>12. Merged(per, s, r + 1)
  BY <1>4, <1>8, <1>9, <1>10, <1>11 DEF Merged
<1> QED BY <1>12 DEF s, t

\* What a merge of all ranks is.
LEMMA InterleavedIs ==
  ASSUME NEW per, AreAnswers(per)
  PROVE  \E r \in Nat : Merged(per, Interleaved(per), r) /\ \A p \in ToSet(per) : Len(HitsOf[p.file]) <= r
<1> DEFINE M == {0} \cup {Len(HitsOf[p.file]) : p \in ToSet(per)}
           len == Max(M)
           g == [p \in Answer |-> Len(HitsOf[p.file])]
           step == [k \in 1 .. len |-> [x \in Seq(Item) |-> x \o AtRank(per, k)]]
           merged == CHOOSE f : f = [r \in 0 .. len |-> IF r = 0 THEN <<>> ELSE f[r - 1] \o AtRank(per, r)]
<1>1. per \in Seq(Answer) /\ \A p \in ToSet(per) : p \in Answer
  BY DEF AreAnswers, ToSet
<1>2. len \in M /\ \A y \in M : len >= y
  <2>1. g \in [Answer -> Nat]
    BY ItemIs
  <2> DEFINE H == {0} \cup {g[p] : p \in ToSet(per)}
  <2>2. H = M
    BY <1>1
  <2> HIDE DEF g
  <2>3. \E x \in H : \A y \in H : x >= y
    BY <1>1, <2>1, GreatestExists
  <2> HIDE DEF H, M
  <2>4. \E x \in M : \A y \in M : x >= y
    BY <2>2, <2>3
  <2> QED BY <2>4 DEF Max
<1>3. len \in Nat /\ \A p \in ToSet(per) : Len(HitsOf[p.file]) <= len
  <2>1. \A p \in ToSet(per) : Len(HitsOf[p.file]) \in Nat /\ Len(HitsOf[p.file]) \in M
    BY <1>1, ItemIs
  <2>2. M \subseteq Nat
    BY <2>1
  <2> HIDE DEF len, M
  <2> QED BY <1>2, <2>1, <2>2
<1>4. Interleaved(per) = merged[len]
  BY DEF Interleaved
<1> HIDE DEF M, len, g
<1>5. <<>> \in Seq(Item) /\ \A k \in 1 .. len : k \in Nat \ {0} /\ AtRank(per, k) \in Seq(Item)
  <2>1. \A k \in 1 .. len : k \in Nat \ {0}
    BY <1>3
  <2>2. \A k \in 1 .. len : AtRank(per, k) \in Seq(Item)
    BY <2>1, AtRankIs
  <2> QED BY <2>1, <2>2
<1>6. step \in [1 .. len -> [Seq(Item) -> Seq(Item)]]
  <2>1. \A k \in 1 .. len : \A x \in Seq(Item) : x \o AtRank(per, k) \in Seq(Item)
    BY <1>5
  <2> QED BY <2>1
<1> HIDE DEF step
<1>7. PICK f : Iterates(Seq(Item), <<>>, step, len, f)
  BY <1>3, <1>5, <1>6, IterationExists
<1>8. f \in [0 .. len -> Seq(Item)] /\ f[0] = <<>> /\ \A k \in 1 .. len : f[k] = step[k][f[k - 1]]
  BY <1>7 DEF Iterates
<1>9. ASSUME NEW k \in 1 .. len PROVE f[k] = f[k - 1] \o AtRank(per, k)
  <2>1. k - 1 \in 0 .. len
    BY <1>3
  <2>2. f[k - 1] \in Seq(Item)
    BY <1>8, <2>1
  <2> QED BY <1>8, <2>2 DEF step
<1>10. f = [r \in 0 .. len |-> IF r = 0 THEN <<>> ELSE f[r - 1] \o AtRank(per, r)]
  <2>1. \A k \in 0 .. len : k = 0 \/ k \in 1 .. len
    BY <1>3
  <2>2. \A k \in 0 .. len : f[k] = IF k = 0 THEN <<>> ELSE f[k - 1] \o AtRank(per, k)
    BY <1>8, <1>9, <2>1, Zenon
  <2> QED BY <1>8, <2>2
<1>11. merged = [r \in 0 .. len |-> IF r = 0 THEN <<>> ELSE merged[r - 1] \o AtRank(per, r)]
  BY <1>10
<1> HIDE DEF merged
<1>12. merged[0] = <<>>
  <2>1. 0 \in 0 .. len
    BY <1>3
  <2> QED BY <1>11, <2>1
<1> DEFINE G == {k \in 0 .. len : Merged(per, merged[k], k)}
<1>13. 0 \in G
  <2>1. Merged(per, <<>>, 0)
    <3>1. <<>> \in Seq(Item) /\ Len(<<>>) = 0 /\ \A i \in 1 .. 0 : FALSE
      OBVIOUS
    <3>2. \A p \in ToSet(per) : \A q \in Hits(p) : ~ (q <= 0)
      <4> SUFFICES ASSUME NEW p \in ToSet(per), NEW q \in Hits(p) PROVE ~ (q <= 0)
        OBVIOUS
      <4>1. Len(HitsOf[p.file]) \in Nat
        BY <1>1, ItemIs
      <4> QED BY <4>1 DEF Hits
    <3> QED BY <3>1, <3>2 DEF Merged
  <2>2. 0 \in 0 .. len
    BY <1>3
  <2> QED BY <1>12, <2>1, <2>2
<1>14. ASSUME NEW k \in 0 .. len - 1, k \in G PROVE k + 1 \in G
  <2>1. k \in Nat /\ k + 1 \in 0 .. len /\ k + 1 # 0 /\ (k + 1) - 1 = k
    BY <1>3
  <2>2. merged[k + 1] = merged[k] \o AtRank(per, k + 1)
    BY <1>11, <2>1
  <2>3. Merged(per, merged[k] \o AtRank(per, k + 1), k + 1)
    BY <1>14, <2>1, MergedMore
  <2> QED BY <2>1, <2>2, <2>3
<1>15. Merged(per, merged[len], len)
  <2> HIDE DEF G
  <2>1. 0 .. len \subseteq G
    BY <1>3, <1>13, <1>14, UpTo
  <2>2. len \in G
    BY <1>3, <2>1
  <2> QED BY <2>2 DEF G
<1> QED BY <1>3, <1>4, <1>15

Citation == [node : HitNodes, store : StoreNames]

\* The citations of the first k items.
Cites(c, items, k) ==
  /\ c \in Seq(Citation)
  /\ \A i \in 1 .. k : \E j \in 1 .. Len(c) : c[j].node = items[i].node
  /\ \A i, j \in 1 .. Len(c) : c[i].node = c[j].node => i = j
  /\ \A j \in 1 .. Len(c) : \E i \in 1 .. k :
       /\ c[j] = [node |-> items[i].node, store |-> items[i].store]
       /\ \A l \in 1 .. i - 1 : items[l].node # c[j].node

LEMMA CitesMore ==
  ASSUME NEW items \in Seq(Item), NEW k \in 0 .. Len(items) - 1, NEW c, Cites(c, items, k)
  PROVE  Cites(IF \E x \in ToSet(c) : x.node = items[k + 1].node THEN c
               ELSE Append(c, [node |-> items[k + 1].node, store |-> items[k + 1].store]), items, k + 1)
<1> DEFINE x == [node |-> items[k + 1].node, store |-> items[k + 1].store]
           a == Append(c, x)
           n == Len(c)
<1>1. Len(items) \in Nat /\ k \in Nat /\ k + 1 \in 1 .. Len(items) /\ \A i \in 1 .. k + 1 : i \in 1 .. k \/ i = k + 1
  OBVIOUS
<1>2. /\ c \in Seq(Citation) /\ n \in Nat /\ DOMAIN c = 1 .. n
      /\ \A i \in 1 .. k : \E j \in 1 .. n : c[j].node = items[i].node
      /\ \A i, j \in 1 .. n : c[i].node = c[j].node => i = j
  BY DEF Cites
<1>3. \A j \in 1 .. n : \E i \in 1 .. k :
        /\ c[j] = [node |-> items[i].node, store |-> items[i].store]
        /\ \A l \in 1 .. i - 1 : items[l].node # c[j].node
  BY DEF Cites
<1>4. \A i \in 1 .. k : i \in 1 .. k + 1
  BY <1>1
<1>5. \A j \in 1 .. n : \E i \in 1 .. k + 1 :
        /\ c[j] = [node |-> items[i].node, store |-> items[i].store]
        /\ \A l \in 1 .. i - 1 : items[l].node # c[j].node
  BY <1>3, <1>4
<1>6. CASE \E y \in ToSet(c) : y.node = items[k + 1].node
  <2>1. PICK j \in 1 .. n : c[j].node = items[k + 1].node
    BY <1>2, <1>6 DEF ToSet
  <2>2. \A i \in 1 .. k + 1 : \E l \in 1 .. n : c[l].node = items[i].node
    BY <1>1, <1>2, <2>1
  <2>3. Cites(c, items, k + 1)
    BY <1>2, <1>5, <2>2 DEF Cites
  <2> QED BY <1>6, <2>3
<1>7. CASE ~ \E y \in ToSet(c) : y.node = items[k + 1].node
  <2>1. items[k + 1] \in Item
    BY <1>1
  <2>2. x \in Citation /\ x.node = items[k + 1].node
    BY <2>1 DEF Item, Citation
  <2> HIDE DEF x
  <2>3. a \in Seq(Citation) /\ Len(a) = n + 1 /\ a[n + 1] = x /\ \A j \in 1 .. n : a[j] = c[j]
    BY <1>2, <2>2
  <2> HIDE DEF a
  <2>4. \A j \in 1 .. n : c[j].node # x.node
    BY <1>2, <1>7, <2>2 DEF ToSet
  <2>5. \A j \in 1 .. n + 1 : j \in 1 .. n \/ j = n + 1
    BY <1>2
  <2>6. n + 1 \in 1 .. n + 1 /\ \A j \in 1 .. n : j \in 1 .. n + 1
    BY <1>2
  <2>7. ASSUME NEW i \in 1 .. k + 1 PROVE \E j \in 1 .. n + 1 : a[j].node = items[i].node
    <3>1. CASE i \in 1 .. k
      <4>1. PICK j \in 1 .. n : c[j].node = items[i].node
        BY <1>2, <3>1
      <4> QED BY <2>3, <2>6, <4>1
    <3>2. CASE i = k + 1
      BY <2>2, <2>3, <2>6, <3>2
    <3> QED BY <1>1, <3>1, <3>2
  <2>8. ASSUME NEW i \in 1 .. n + 1, NEW j \in 1 .. n + 1, a[i].node = a[j].node PROVE i = j
    <3>1. CASE i \in 1 .. n /\ j \in 1 .. n
      BY <1>2, <2>3, <2>8, <3>1
    <3>2. CASE ~ (i \in 1 .. n /\ j \in 1 .. n)
      BY <2>3, <2>4, <2>5, <2>8, <3>2
    <3> QED BY <3>1, <3>2
  <2>9. \A l \in 1 .. k : items[l].node # x.node
    BY <1>2, <2>4
  <2>10. ASSUME NEW j \in 1 .. n + 1
         PROVE  \E i \in 1 .. k + 1 :
                  /\ a[j] = [node |-> items[i].node, store |-> items[i].store]
                  /\ \A l \in 1 .. i - 1 : items[l].node # a[j].node
    <3>1. CASE j \in 1 .. n
      <4>1. PICK i \in 1 .. k + 1 :
              /\ c[j] = [node |-> items[i].node, store |-> items[i].store]
              /\ \A l \in 1 .. i - 1 : items[l].node # c[j].node
        BY <1>5, <3>1
      <4>2. a[j] = c[j]
        BY <2>3, <3>1
      <4> QED BY <4>1, <4>2
    <3>2. CASE j = n + 1
      <4>1. k + 1 \in 1 .. k + 1 /\ (k + 1) - 1 = k
        BY <1>1
      <4>2. a[j] = [node |-> items[k + 1].node, store |-> items[k + 1].store]
        BY <2>3, <3>2 DEF x
      <4>3. \A l \in 1 .. (k + 1) - 1 : items[l].node # a[j].node
        BY <2>3, <2>9, <3>2, <4>1
      <4> QED BY <4>1, <4>2, <4>3
    <3> QED BY <2>5, <3>1, <3>2
  <2>11. Cites(a, items, k + 1)
    BY <2>3, <2>7, <2>8, <2>10 DEF Cites
  <2> QED BY <1>7, <2>11 DEF a, x
<1> QED BY <1>6, <1>7

LEMMA CitationsAre ==
  ASSUME NEW items \in Seq(Item)
  PROVE  Cites(Citations(items), items, Len(items))
<1> DEFINE len == Len(items)
           one(k) == [node |-> items[k].node, store |-> items[k].store]
           step == [k \in 1 .. len |-> [c \in Seq(Citation) |->
                     IF \E x \in ToSet(c) : x.node = items[k].node THEN c ELSE Append(c, one(k))]]
           cited == CHOOSE f : f = [k \in 0 .. len |->
                      IF k = 0 THEN <<>>
                      ELSE IF \E x \in ToSet(f[k - 1]) : x.node = items[k].node THEN f[k - 1]
                      ELSE Append(f[k - 1], [node |-> items[k].node, store |-> items[k].store])]
<1>1. len \in Nat /\ <<>> \in Seq(Citation) /\ \A k \in 1 .. len : items[k] \in Item
  OBVIOUS
<1>2. \A k \in 1 .. len : one(k) \in Citation
  BY <1>1 DEF Item, Citation
<1>3. step \in [1 .. len -> [Seq(Citation) -> Seq(Citation)]]
  <2> HIDE DEF one
  <2>1. \A k \in 1 .. len : \A c \in Seq(Citation) : Append(c, one(k)) \in Seq(Citation)
    BY <1>2
  <2> QED BY <2>1
<1>4. Citations(items) = cited[len]
  BY DEF Citations
<1> HIDE DEF step
<1>5. PICK f : Iterates(Seq(Citation), <<>>, step, len, f)
  BY <1>1, <1>3, IterationExists
<1>6. f \in [0 .. len -> Seq(Citation)] /\ f[0] = <<>> /\ \A k \in 1 .. len : f[k] = step[k][f[k - 1]]
  BY <1>5 DEF Iterates
<1>7. ASSUME NEW k \in 1 .. len
      PROVE  f[k] = IF \E x \in ToSet(f[k - 1]) : x.node = items[k].node THEN f[k - 1] ELSE Append(f[k - 1], one(k))
  <2> HIDE DEF one
  <2>1. k - 1 \in 0 .. len
    BY <1>1
  <2>2. f[k - 1] \in Seq(Citation)
    BY <1>6, <2>1
  <2>3. f[k] = step[k][f[k - 1]]
    BY <1>6
  <2> QED BY <2>2, <2>3 DEF step
<1>8. f = [k \in 0 .. len |->
            IF k = 0 THEN <<>>
            ELSE IF \E x \in ToSet(f[k - 1]) : x.node = items[k].node THEN f[k - 1] ELSE Append(f[k - 1], one(k))]
  <2> HIDE DEF one
  <2>1. \A k \in 0 .. len : k = 0 \/ k \in 1 .. len
    BY <1>1
  <2>2. \A k \in 0 .. len : f[k] = IF k = 0 THEN <<>>
            ELSE IF \E x \in ToSet(f[k - 1]) : x.node = items[k].node THEN f[k - 1] ELSE Append(f[k - 1], one(k))
    BY <1>6, <1>7, <2>1, Zenon
  <2> QED BY <1>6, <2>2
<1>9. cited = [k \in 0 .. len |->
            IF k = 0 THEN <<>>
            ELSE IF \E x \in ToSet(cited[k - 1]) : x.node = items[k].node THEN cited[k - 1] ELSE Append(cited[k - 1], one(k))]
  BY <1>8
<1> HIDE DEF cited
<1>10. cited[0] = <<>>
  <2>1. 0 \in 0 .. len
    BY <1>1
  <2> QED BY <1>9, <2>1
<1> DEFINE G == {k \in 0 .. len : Cites(cited[k], items, k)}
<1>11. 0 \in G
  <2>1. Cites(<<>>, items, 0)
    BY DEF Cites
  <2>2. 0 \in 0 .. len
    BY <1>1
  <2> QED BY <1>10, <2>1, <2>2
<1>12. ASSUME NEW k \in 0 .. len - 1, k \in G PROVE k + 1 \in G
  <2> DEFINE c == cited[k]
  <2>1. k + 1 \in 0 .. len /\ k + 1 # 0 /\ (k + 1) - 1 = k /\ Cites(c, items, k)
    BY <1>1, <1>12
  <2>2. cited[k + 1] = IF \E x \in ToSet(c) : x.node = items[k + 1].node THEN c ELSE Append(c, one(k + 1))
    <3> HIDE DEF one
    <3> QED BY <1>9, <2>1
  <2> HIDE DEF c
  <2>3. Cites(IF \E x \in ToSet(c) : x.node = items[k + 1].node THEN c
              ELSE Append(c, [node |-> items[k + 1].node, store |-> items[k + 1].store]), items, k + 1)
    BY <2>1, CitesMore
  <2> QED BY <2>1, <2>2, <2>3
<1>13. Cites(cited[len], items, len)
  <2> HIDE DEF G
  <2>1. 0 .. len \subseteq G
    BY <1>1, <1>11, <1>12, UpTo
  <2>2. len \in G
    BY <1>1, <2>1
  <2> QED BY <2>2 DEF G
<1> QED BY <1>4, <1>13

OkOf(per) == {p \in ToSet(per) : p.ok}

\* What is merged of the answers, the default's first.
LEMMA MergeIs ==
  ASSUME NEW per, AreAnswers(per), NEW d \in 1 .. Len(per), per[d].name = default,
         NEW answered, answered = Filtered(DefaultFirst(per), OkOf(DefaultFirst(per))),
         NEW items, items = Interleaved(answered)
  PROVE  /\ DefaultFirst(per)[1].ok <=> default \in {p.name : p \in OkOf(per)}
         /\ answered \in Seq(Answer) /\ items \in Seq(Item)
         /\ DefaultFirst(per)[1].ok =>
              /\ Len(answered) >= 1 /\ answered[1].name = default
              /\ \A i, j \in 1 .. Len(items) : i < j =>
                   \/ items[i].rank < items[j].rank
                   \/ items[i].rank = items[j].rank /\ items[j].store # default
              /\ IsInjective(items)
              /\ \A p \in OkOf(per) : \A r \in DOMAIN HitsOf[p.file] :
                   [node |-> HitsOf[p.file][r], rank |-> r, store |-> p.name] \in ToSet(items)
              /\ \A x \in ToSet(items) : \E p \in OkOf(per) :
                   x.store = p.name /\ x.rank \in DOMAIN HitsOf[p.file] /\ x.node = HitsOf[p.file][x.rank]
<1> DEFINE stores == DefaultFirst(per)
           S == OkOf(stores)
<1>1. /\ AreAnswers(stores) /\ Len(stores) = Len(per) /\ stores[1] = per[d] /\ ToSet(stores) = ToSet(per)
  BY DefaultFirstIs
<1> HIDE DEF stores
<1>2. S = OkOf(per) /\ S \subseteq ToSet(stores)
  BY <1>1 DEF OkOf
<1>3. /\ AreAnswers(answered) /\ ToSet(answered) = ToSet(stores) \cap S
      /\ Len(stores) >= 1 /\ stores[1] \in S => Len(answered) >= 1 /\ answered[1] = stores[1]
  <2>1. answered = Filtered(stores, S)
    BY DEF stores
  <2> HIDE DEF S
  <2> QED BY <1>1, <2>1, FewerAnswers
<1>4. per \in Seq(Answer) /\ Len(per) \in Nat /\ DOMAIN per = 1 .. Len(per) /\ Len(per) >= 1
  BY DEF AreAnswers
<1>5. ToSet(answered) = OkOf(per)
  BY <1>2, <1>3
<1>6. per[d] \in ToSet(per)
  BY <1>4 DEF ToSet
<1>7. stores[1].ok <=> per[d] \in OkOf(per)
  BY <1>1, <1>6 DEF OkOf
<1>8. ASSUME NEW p \in OkOf(per), p.name = default PROVE p = per[d]
  <2>1. PICK i \in 1 .. Len(per) : per[i] = p
    BY <1>4, <1>8 DEF OkOf, ToSet
  <2>2. i = d
    BY <1>8, <2>1 DEF AreAnswers
  <2> QED BY <2>1, <2>2
<1>9. stores[1].ok <=> default \in {p.name : p \in OkOf(per)}
  BY <1>7, <1>8
<1>10. PICK r \in Nat : Merged(answered, items, r) /\ \A p \in ToSet(answered) : Len(HitsOf[p.file]) <= r
  BY <1>3, InterleavedIs
<1>11. answered \in Seq(Answer) /\ items \in Seq(Item)
  BY <1>3, <1>10 DEF AreAnswers, Merged
<1>12. /\ \A i \in 1 .. Len(items) : \E p \in ToSet(answered) :
            items[i].rank <= r /\ items[i].rank \in Hits(p) /\ items[i] = ItemOf(p, items[i].rank)
       /\ \A p \in ToSet(answered) : \A q \in Hits(p) : q <= r => \E i \in 1 .. Len(items) : items[i] = ItemOf(p, q)
  BY <1>10 DEF Merged
<1>13. /\ \A i, j \in 1 .. Len(items) : i < j =>
            \/ items[i].rank < items[j].rank
            \/ items[i].rank = items[j].rank /\ items[j].store # answered[1].name
       /\ \A i, j \in 1 .. Len(items) : items[i].rank = items[j].rank /\ items[i].store = items[j].store => i = j
  BY <1>10 DEF Merged
<1>14. DOMAIN items = 1 .. Len(items)
  BY <1>11
<1>15. \A p \in OkOf(per) : p \in Answer
  BY <1>4 DEF OkOf, ToSet
<1>16. \A p \in OkOf(per) : DOMAIN HitsOf[p.file] = Hits(p) /\ Len(HitsOf[p.file]) \in Nat
  BY <1>15, ItemIs
<1>17. ASSUME NEW p \in OkOf(per), NEW q \in DOMAIN HitsOf[p.file]
       PROVE  [node |-> HitsOf[p.file][q], rank |-> q, store |-> p.name] \in ToSet(items)
  <2>1. q \in Hits(p) /\ p \in ToSet(answered)
    BY <1>5, <1>16
  <2>2. Len(HitsOf[p.file]) <= r /\ Len(HitsOf[p.file]) \in Nat
    BY <1>10, <1>16, <2>1
  <2>3. q <= r
    BY <2>1, <2>2 DEF Hits
  <2>4. PICK i \in 1 .. Len(items) : items[i] = ItemOf(p, q)
    BY <1>12, <2>1, <2>3
  <2> QED BY <1>14, <2>4 DEF ItemOf, ToSet
<1>18. ASSUME NEW x \in ToSet(items)
       PROVE  \E p \in OkOf(per) : x.store = p.name /\ x.rank \in DOMAIN HitsOf[p.file] /\ x.node = HitsOf[p.file][x.rank]
  <2>1. PICK i \in 1 .. Len(items) : items[i] = x
    BY <1>14 DEF ToSet
  <2>2. PICK p \in OkOf(per) : x.rank \in Hits(p) /\ x = ItemOf(p, x.rank)
    BY <1>5, <1>12, <2>1
  <2> DEFINE q == x.rank
  <2>3. x = ItemOf(p, q)
    BY <2>2
  <2> HIDE DEF q
  <2>4. x.store = p.name /\ x.node = HitsOf[p.file][q]
    BY <2>3 DEF ItemOf
  <2> QED BY <1>16, <2>2, <2>4 DEF q
<1>19. IsInjective(items)
  BY <1>13, <1>14 DEF IsInjective
<1>20. ASSUME stores[1].ok
       PROVE  /\ Len(answered) >= 1 /\ answered[1].name = default
              /\ \A i, j \in 1 .. Len(items) : i < j =>
                   \/ items[i].rank < items[j].rank
                   \/ items[i].rank = items[j].rank /\ items[j].store # default
  <2>1. stores[1] \in S
    BY <1>1, <1>2, <1>7, <1>20
  <2>2. Len(answered) >= 1 /\ answered[1].name = default
    BY <1>1, <1>3, <1>4, <2>1
  <2> QED BY <1>13, <2>2
<1> QED BY <1>9, <1>11, <1>17, <1>18, <1>19, <1>20 DEF stores

----------------------------------------------------------------------------
(* The query                                                                *)

LEMMA FanTypesGive ==
  ASSUME FanTypes
  PROVE  /\ fan.phase \in {"idle", "visit", "await", "done"} /\ fan.cursor \in Nat /\ fan.per \in Seq(Answer)
         /\ fan.quiet \in BOOLEAN /\ DOMAIN fan.per = 1 .. Len(fan.per) /\ Len(fan.per) \in Nat
  BY DEF FanTypes

LEMMA FanInitInv == FanInit => FanIInv
<1> SUFFICES ASSUME FanInit PROVE FanIInv
  OBVIOUS
<1> DEFINE n == Len(FirstStores)
<1>1. n \in Nat /\ n >= 1 /\ DOMAIN FirstStores = 1 .. n /\ \A i \in 1 .. n : FirstStores[i] \in StoreNames \X StoreFiles
  BY FanOutAssumption
<1>2. \A i \in 1 .. n : FirstStores[i][1] \in StoreNames /\ FirstStores[i][2] \in StoreFiles
  BY <1>1
<1>3. directory = [i \in 1 .. n |-> [name |-> FirstStores[i][1], file |-> FirstStores[i][2], stamp |-> i]]
  BY <1>1 DEF FanInit
<1>4. \A i \in 1 .. n : i \in Nat \ {0} /\ directory[i] = [name |-> FirstStores[i][1], file |-> FirstStores[i][2], stamp |-> i]
  BY <1>1, <1>3
<1>5. ASSUME NEW i \in 1 .. n PROVE directory[i] \in Entry
  <2> DEFINE s == FirstStores[i]
  <2>1. s[1] \in StoreNames /\ s[2] \in StoreFiles /\ i \in Nat \ {0}
    BY <1>2, <1>4
  <2>2. directory[i] = [name |-> s[1], file |-> s[2], stamp |-> i]
    BY <1>4
  <2> HIDE DEF s
  <2> QED BY <2>1, <2>2 DEF Entry
<1>6. directory \in Seq(Entry) /\ Len(directory) = n
  <2>1. directory \in [1 .. n -> Entry]
    BY <1>3, <1>5
  <2> QED BY <1>1, <2>1
<1>7. ASSUME NEW i \in 1 .. n PROVE directory[i].name = FirstStores[i][1] /\ directory[i].stamp = i
  <2> DEFINE s == FirstStores[i]
  <2>1. directory[i] = [name |-> s[1], file |-> s[2], stamp |-> i]
    BY <1>4
  <2> HIDE DEF s
  <2>2. directory[i].name = s[1] /\ directory[i].stamp = i
    BY <2>1
  <2> QED BY <2>2 DEF s
<1>8. AreEntries(directory)
  <2>1. \A i, j \in 1 .. n : directory[i].name = directory[j].name => i = j
    <3>1. \A i, j \in 1 .. n : FirstStores[i][1] = FirstStores[j][1] => i = j
      BY <1>1, FanOutAssumption
    <3> QED BY <1>7, <3>1
  <2>2. \A i, j \in 1 .. n : i < j => directory[i].stamp < directory[j].stamp
    BY <1>7
  <2> QED BY <1>6, <2>1, <2>2 DEF AreEntries
<1>9. IsDirectory(directory, default)
  <2>1. 1 \in 1 .. n /\ default = FirstStores[1][1]
    BY <1>1 DEF FanInit
  <2> QED BY <1>6, <1>7, <1>8, <2>1 DEF IsDirectory
<1>10. fan = NoFan /\ audit = <<>>
  BY DEF FanInit
<1>11. FanTypes
  <2>1. fan \in [phase : {"idle", "visit", "await", "done"}, cursor : Nat, asked : Entry \cup {<<>>},
                 per : Seq(Answer), quiet : BOOLEAN]
    BY <1>10 DEF NoFan
  <2>2. audit \in Seq({})
    BY <1>10
  <2>3. fan.phase = "idle"
    BY <1>10 DEF NoFan
  <2> QED BY <2>1, <2>2, <2>3 DEF FanTypes
<1>12. fan.phase = "idle"
  BY <1>10 DEF NoFan
<1> QED BY <1>9, <1>11, <1>12 DEF FanIInv, QuietFanOutIsWhole

LEMMA FanStartKeeps == ASSUME FanIInv, FanStart PROVE FanIInv'
<1>1. fan' = [phase |-> "visit", cursor |-> 0, asked |-> <<>>, per |-> <<>>, quiet |-> TRUE] /\ UNCHANGED <<directory, default, audit>>
  BY DEF FanStart, NoFan
<1>2. IsDirectory(directory, default) /\ FanTypes
  BY DEF FanIInv
<1>3. FanTypes'
  <2>1. fan' \in [phase : {"idle", "visit", "await", "done"}, cursor : Nat, asked : Entry \cup {<<>>},
                  per : Seq(Answer), quiet : BOOLEAN]
    BY <1>1
  <2> QED BY <1>1, <1>2, <2>1 DEF FanTypes
<1>4. fan'.phase = "visit" /\ fan'.cursor = 0 /\ fan'.per = <<>>
  BY <1>1
<1>5. HasAsked'
  <2>1. 0 \in 0 .. Len(directory')
    BY <1>1, <1>2 DEF IsDirectory, AreEntries
  <2> QED BY <1>4, <2>1 DEF HasAsked
<1>6. IsDirectory(directory', default')
  BY <1>1, <1>2
<1> QED BY <1>3, <1>4, <1>5, <1>6 DEF FanIInv, QuietFanOutIsWhole

LEMMA FanVisitKeeps == ASSUME FanIInv, FanVisit PROVE FanIInv'
<1>1. UNCHANGED <<directory, default, audit>> /\ fan.phase = "visit"
  BY DEF FanVisit
<1>2. PICK i \in Ahead :
        /\ \A j \in Ahead : i <= j
        /\ fan' = [fan EXCEPT !.phase = "await", !.cursor = directory[i].stamp, !.asked = directory[i]]
  BY DEF FanVisit
<1>3. IsDirectory(directory, default) /\ FanTypes /\ AreEntries(directory)
  BY DEF FanIInv, IsDirectory
<1>4. directory \in Seq(Entry) /\ DOMAIN directory = 1 .. Len(directory) /\ Len(directory) \in Nat
  BY <1>3 DEF AreEntries
<1>5. i \in 1 .. Len(directory) /\ directory[i] \in Entry /\ directory[i].stamp > fan.cursor
  BY <1>4 DEF Ahead
<1>6. directory[i].stamp \in Nat
  BY <1>5 DEF Entry
<1>7. /\ fan'.phase = "await" /\ fan'.cursor = directory[i].stamp /\ fan'.asked = directory[i]
      /\ fan'.per = fan.per /\ fan'.quiet = fan.quiet
  BY <1>2, <1>3 DEF FanTypes
<1>8. FanTypes'
  <2>1. fan' \in [phase : {"idle", "visit", "await", "done"}, cursor : Nat, asked : Entry \cup {<<>>},
                  per : Seq(Answer), quiet : BOOLEAN]
    BY <1>2, <1>3, <1>5, <1>6 DEF FanTypes
  <2> QED BY <1>1, <1>3, <1>5, <1>7, <2>1 DEF FanTypes
<1>9. ASSUME fan'.quiet PROVE HasAsked'
  <2>1. HasAsked
    BY <1>1, <1>7, <1>9 DEF FanIInv
  <2>2. PICK n \in 0 .. Len(directory) :
          /\ fan.cursor = IF n = 0 THEN 0 ELSE directory[n].stamp
          /\ fan.phase = "visit" => Len(fan.per) = n
          /\ \A k \in 1 .. Len(fan.per) : fan.per[k].name = directory[k].name /\ fan.per[k].file = directory[k].file
    BY <2>1 DEF HasAsked
  <2>3. Len(fan.per) = n /\ n \in Nat
    BY <1>1, <1>4, <2>2
  <2>4. i > n
    <3>1. CASE n = 0
      BY <1>4, <1>5, <3>1
    <3>2. CASE n # 0
      <4>1. n \in 1 .. Len(directory) /\ directory[i].stamp > directory[n].stamp
        BY <1>4, <1>5, <2>2, <3>2
      <4>2. directory[n] \in Entry
        BY <1>4, <4>1
      <4>3. directory[n].stamp \in Nat
        BY <4>2 DEF Entry
      <4>4. i < n => directory[i].stamp < directory[n].stamp
        BY <1>3, <1>5, <4>1 DEF AreEntries
      <4>5. i # n /\ ~ (i < n)
        BY <1>6, <4>1, <4>3, <4>4
      <4> QED BY <1>4, <1>5, <4>1, <4>5
    <3> QED BY <3>1, <3>2
  <2>5. n + 1 \in 1 .. Len(directory)
    BY <1>4, <1>5, <2>3, <2>4
  <2>6. n + 1 \in Ahead
    <3>1. directory[n + 1] \in Entry
      BY <1>4, <2>5
    <3>2. directory[n + 1].stamp \in Nat \ {0}
      BY <3>1 DEF Entry
    <3>3. CASE n = 0
      BY <1>4, <2>2, <2>5, <3>2, <3>3 DEF Ahead
    <3>4. CASE n # 0
      <4>1. n \in 1 .. Len(directory) /\ n < n + 1
        BY <2>2, <2>3, <3>4
      <4>2. directory[n].stamp < directory[n + 1].stamp
        BY <1>3, <2>5, <4>1 DEF AreEntries
      <4>3. directory[n] \in Entry
        BY <1>4, <4>1
      <4>4. directory[n].stamp \in Nat
        BY <4>3 DEF Entry
      <4>5. directory[n + 1].stamp > fan.cursor
        BY <2>2, <3>2, <3>4, <4>2, <4>4
      <4> QED BY <1>4, <2>5, <4>5 DEF Ahead
    <3> QED BY <3>3, <3>4
  <2>7. i = n + 1
    <3>1. i <= n + 1
      BY <1>2, <2>6
    <3> QED BY <1>5, <2>3, <2>4, <3>1
  <2>8. i \in 0 .. Len(directory') /\ i >= 1 /\ Len(fan'.per) = i - 1 /\ i # 0
    BY <1>1, <1>4, <1>5, <1>7, <2>3, <2>7
  <2>9. \A k \in 1 .. Len(fan'.per) : fan'.per[k].name = directory'[k].name /\ fan'.per[k].file = directory'[k].file
    BY <1>1, <1>7, <2>2
  <2>10. fan'.cursor = directory'[i].stamp /\ fan'.asked = directory'[i] /\ fan'.phase = "await"
    BY <1>1, <1>7
  <2> QED BY <2>8, <2>9, <2>10 DEF HasAsked
<1>10. IsDirectory(directory', default')
  BY <1>1, <1>3
<1> QED BY <1>7, <1>8, <1>9, <1>10 DEF FanIInv, QuietFanOutIsWhole

LEMMA FanAnsweredKeeps == ASSUME FanIInv, NEW ok \in BOOLEAN, FanAnswered(ok) PROVE FanIInv'
<1> DEFINE a == [name |-> fan.asked.name, file |-> fan.asked.file, ok |-> ok]
           m == Len(fan.per)
<1>1. /\ UNCHANGED <<directory, default, audit>> /\ fan.phase = "await"
      /\ fan' = [fan EXCEPT !.phase = "visit", !.per = Append(fan.per, a)]
  BY DEF FanAnswered
<1>2. IsDirectory(directory, default) /\ FanTypes /\ fan.asked \in Entry
  BY <1>1 DEF FanIInv, FanTypes
<1>3. a \in Answer /\ a.name = fan.asked.name /\ a.file = fan.asked.file
  BY <1>2 DEF Entry, Answer
<1> HIDE DEF a
<1>4. fan.per \in Seq(Answer) /\ m \in Nat
  BY <1>2, FanTypesGive
<1>5. /\ Append(fan.per, a) \in Seq(Answer) /\ Len(Append(fan.per, a)) = m + 1 /\ Append(fan.per, a)[m + 1] = a
      /\ \A k \in 1 .. m : Append(fan.per, a)[k] = fan.per[k]
  BY <1>3, <1>4
<1>6. fan'.phase = "visit" /\ fan'.cursor = fan.cursor /\ fan'.per = Append(fan.per, a) /\ fan'.quiet = fan.quiet
  BY <1>1, <1>2 DEF FanTypes
<1>7. FanTypes'
  <2>1. fan' \in [phase : {"idle", "visit", "await", "done"}, cursor : Nat, asked : Entry \cup {<<>>},
                  per : Seq(Answer), quiet : BOOLEAN]
    BY <1>1, <1>2, <1>5 DEF FanTypes
  <2> QED BY <1>1, <1>2, <1>6, <2>1 DEF FanTypes
<1>8. ASSUME fan'.quiet PROVE HasAsked'
  <2>1. HasAsked
    BY <1>1, <1>6, <1>8 DEF FanIInv
  <2>2. PICK n \in 0 .. Len(directory) :
          /\ fan.cursor = IF n = 0 THEN 0 ELSE directory[n].stamp
          /\ fan.phase = "await" => n >= 1 /\ m = n - 1 /\ fan.asked = directory[n]
          /\ \A k \in 1 .. m : fan.per[k].name = directory[k].name /\ fan.per[k].file = directory[k].file
    BY <2>1 DEF HasAsked
  <2>3. m + 1 = n /\ fan.asked = directory[n]
    BY <1>1, <1>4, <2>2
  <2>4. Len(fan'.per) = n
    BY <1>5, <1>6, <2>3
  <2>5. \A k \in 1 .. n : k \in 1 .. m \/ k = m + 1
    BY <1>4, <2>3
  <2>6. \A k \in 1 .. n : fan'.per[k].name = directory[k].name /\ fan'.per[k].file = directory[k].file
    BY <1>3, <1>5, <1>6, <2>2, <2>3, <2>5
  <2> QED BY <1>1, <1>6, <2>2, <2>4, <2>6 DEF HasAsked
<1>9. IsDirectory(directory', default')
  BY <1>1, <1>2
<1> QED BY <1>6, <1>7, <1>8, <1>9 DEF FanIInv, QuietFanOutIsWhole

LEMMA FanReturnKeeps == ASSUME FanIInv, FanReturn PROVE FanIInv'
<1>1. fan' = [phase |-> "idle", cursor |-> 0, asked |-> <<>>, per |-> <<>>, quiet |-> TRUE] /\ UNCHANGED <<directory, default, audit>>
  BY DEF FanReturn, NoFan
<1>2. IsDirectory(directory, default) /\ FanTypes
  BY DEF FanIInv
<1>3. FanTypes'
  <2>1. fan' \in [phase : {"idle", "visit", "await", "done"}, cursor : Nat, asked : Entry \cup {<<>>},
                  per : Seq(Answer), quiet : BOOLEAN]
    BY <1>1
  <2> QED BY <1>1, <1>2, <2>1 DEF FanTypes
<1>4. fan'.phase = "idle"
  BY <1>1
<1>5. IsDirectory(directory', default')
  BY <1>1, <1>2
<1> QED BY <1>3, <1>4, <1>5 DEF FanIInv, QuietFanOutIsWhole

\* An entry behind all others; the log has it last.
LEMMA RememberedIs ==
  ASSUME NEW S, NEW log \in Seq(S), NEW x
  PROVE  (\E T : Remembered(log, x) \in Seq(T)) /\ Last(Remembered(log, x)) = x
<1> DEFINE T == S \cup {x}
           kept == IF Len(log) < AuditSize THEN log ELSE Tail(log)
<1>1. AuditSize \in Nat /\ AuditSize >= 1 /\ Len(log) \in Nat
  BY FanOutAssumption
<1>2. Len(log) >= AuditSize => Tail(log) \in Seq(S)
  BY <1>1
<1>3. kept \in Seq(S)
  BY <1>1, <1>2
<1>4. Remembered(log, x) = Append(kept, x)
  BY DEF Remembered
<1>5. x \in T /\ kept \in Seq(T)
  BY <1>3
<1> HIDE DEF kept, T
<1>6. Append(kept, x) \in Seq(T) /\ Len(Append(kept, x)) = Len(kept) + 1 /\ Append(kept, x)[Len(kept) + 1] = x
  BY <1>5
<1> QED BY <1>4, <1>6 DEF Last

\* When no entry is left and the registry has been quiet, all entries have answered, in their order.
LEMMA AllAnswered ==
  ASSUME FanIInv, fan.phase = "visit", fan.quiet, Ahead = {}
  PROVE  /\ Len(fan.per) = Len(directory) /\ AreAnswers(fan.per)
         /\ \A i \in 1 .. Len(fan.per) : fan.per[i].name = directory[i].name
<1>1. AreEntries(directory) /\ FanTypes /\ HasAsked
  BY DEF FanIInv, IsDirectory
<1>2. /\ directory \in Seq(Entry) /\ DOMAIN directory = 1 .. Len(directory) /\ Len(directory) \in Nat
      /\ fan.per \in Seq(Answer) /\ Len(fan.per) \in Nat
  BY <1>1, FanTypesGive DEF AreEntries
<1>3. PICK n \in 0 .. Len(directory) :
        /\ fan.cursor = IF n = 0 THEN 0 ELSE directory[n].stamp
        /\ Len(fan.per) = n
        /\ \A k \in 1 .. Len(fan.per) : fan.per[k].name = directory[k].name
  BY <1>1 DEF HasAsked
<1>4. n = Len(directory)
  <2> SUFFICES ASSUME n # Len(directory) PROVE FALSE
    OBVIOUS
  <2>1. n \in Nat /\ Len(directory) \in Nat /\ n <= Len(directory) /\ \A k \in 1 .. Len(directory) : directory[k] \in Entry
    <3>1. Len(directory) \in Nat /\ directory \in Seq(Entry)
      BY <1>2
    <3>2. \A k \in 1 .. Len(directory) : directory[k] \in Entry
      BY <3>1
    <3>3. n \in 0 .. Len(directory)
      OBVIOUS
    <3> DEFINE L == Len(directory)
    <3>4. L \in Nat /\ n \in 0 .. L
      BY <3>1, <3>3
    <3> HIDE DEF L
    <3>5. n \in Nat /\ n <= L
      BY <3>4
    <3> QED BY <3>1, <3>2, <3>5 DEF L
  <2>2. n + 1 \in 1 .. Len(directory)
    BY <2>1
  <2>3. directory[n + 1] \in Entry
    BY <2>1, <2>2
  <2>4. directory[n + 1].stamp \in Nat \ {0}
    BY <2>3 DEF Entry
  <2>5. CASE n = 0
    BY <1>2, <1>3, <2>2, <2>4, <2>5 DEF Ahead
  <2>6. CASE n # 0
    <3>1. n \in 1 .. Len(directory) /\ n < n + 1
      BY <2>1, <2>6
    <3>2. directory[n].stamp < directory[n + 1].stamp
      BY <1>1, <2>2, <3>1 DEF AreEntries
    <3>3. directory[n] \in Entry
      BY <2>1, <3>1
    <3>4. directory[n].stamp \in Nat
      BY <3>3 DEF Entry
    <3>5. directory[n + 1].stamp > fan.cursor
      BY <1>3, <2>4, <2>6, <3>2, <3>4
    <3> QED BY <1>2, <2>2, <3>5 DEF Ahead
  <2> QED BY <2>5, <2>6
<1>5. \A i, j \in 1 .. Len(fan.per) : fan.per[i].name = fan.per[j].name => i = j
  BY <1>1, <1>3, <1>4 DEF AreEntries
<1> QED BY <1>2, <1>3, <1>4, <1>5 DEF AreAnswers

LEMMA FanDoneIsWhole == ASSUME FanIInv, FanDone, fan.quiet PROVE QuietFanOutIsWhole'
<1> DEFINE per == fan.per
           stores == DefaultFirst(per)
           answered == Filtered(stores, OkOf(stores))
           items == Interleaved(answered)
           cited == Citations(items)
           names == [i \in DOMAIN directory |-> directory[i].name]
           note == [count |-> Len(items), stores |-> names]
<1>1. UNCHANGED <<directory, default>> /\ fan.phase = "visit" /\ Ahead = {} /\ fan' = [fan EXCEPT !.phase = "done"]
  BY DEF FanDone
<1>2. IF stores[1].ok
      THEN /\ fanAnswer' = [ok |-> TRUE, results |-> items, citations |-> cited,
                            contexts |-> [i \in DOMAIN answered |-> answered[i].name]]
           /\ audit' = Remembered(audit, note)
      ELSE fanAnswer' = NothingFound
  BY DEF FanDone, OkOf
<1>3. IsDirectory(directory, default) /\ AreEntries(directory) /\ FanTypes
  BY DEF FanIInv, IsDirectory
<1>4. fan'.per = per /\ fan'.phase = "done" /\ fan'.quiet
  BY <1>1, <1>3 DEF FanTypes
<1>5. /\ Len(per) = Len(directory) /\ AreAnswers(per)
      /\ \A i \in 1 .. Len(per) : per[i].name = directory[i].name
  BY <1>1, AllAnswered
<1>6. /\ DOMAIN directory = 1 .. Len(directory) /\ Len(directory) \in Nat
      /\ per \in Seq(Answer) /\ DOMAIN per = 1 .. Len(per)
  BY <1>3, <1>5 DEF AreEntries, AreAnswers
<1>7. PICK d \in 1 .. Len(per) : per[d].name = default
  BY <1>3, <1>5 DEF IsDirectory
<1>8. [i \in DOMAIN per |-> per[i].name] = names
  BY <1>5, <1>6
<1> HIDE DEF answered, items, note
<1>9. answered = Filtered(DefaultFirst(per), OkOf(DefaultFirst(per))) /\ items = Interleaved(answered)
  BY DEF answered, items
<1>10. /\ DefaultFirst(per)[1].ok <=> default \in {p.name : p \in OkOf(per)}
       /\ answered \in Seq(Answer) /\ items \in Seq(Item)
       /\ DefaultFirst(per)[1].ok =>
            /\ Len(answered) >= 1 /\ answered[1].name = default
            /\ \A i, j \in 1 .. Len(items) : i < j =>
                 \/ items[i].rank < items[j].rank
                 \/ items[i].rank = items[j].rank /\ items[j].store # default
            /\ IsInjective(items)
            /\ \A p \in OkOf(per) : \A r \in DOMAIN HitsOf[p.file] :
                 [node |-> HitsOf[p.file][r], rank |-> r, store |-> p.name] \in ToSet(items)
            /\ \A x \in ToSet(items) : \E p \in OkOf(per) :
                 x.store = p.name /\ x.rank \in DOMAIN HitsOf[p.file] /\ x.node = HitsOf[p.file][x.rank]
  <2> HIDE DEF per
  <2> QED BY <1>5, <1>7, <1>9, MergeIs
<1>11. Cites(cited, items, Len(items))
  BY <1>10, CitationsAre
<1> HIDE DEF cited, stores
<1>12. DOMAIN items = 1 .. Len(items) /\ cited \in Seq(Citation) /\ DOMAIN cited = 1 .. Len(cited)
  BY <1>10, <1>11 DEF Cites
<1>13. PICK S : audit \in Seq(S)
  BY <1>3 DEF FanTypes
<1>14. Last(Remembered(audit, note)) = note
  BY <1>13, RememberedIs
<1>15. OkOf(per) = {p \in ToSet(fan'.per) : p.ok}
  BY <1>4 DEF OkOf
<1>16. fanAnswer'.ok <=> stores[1].ok
  BY <1>2 DEF NothingFound
<1>17. fanAnswer'.ok <=> default' \in {p.name : p \in OkOf(per)}
  BY <1>1, <1>10, <1>16 DEF stores
<1>18. [i \in DOMAIN fan'.per |-> fan'.per[i].name] = [i \in DOMAIN directory' |-> directory'[i].name]
  BY <1>1, <1>4, <1>8
<1>19. ASSUME fanAnswer'.ok
       PROVE  /\ IsInjective(fanAnswer'.results)
              /\ \A p \in OkOf(per) : \A r \in DOMAIN HitsOf[p.file] :
                   [node |-> HitsOf[p.file][r], rank |-> r, store |-> p.name] \in ToSet(fanAnswer'.results)
              /\ \A x \in ToSet(fanAnswer'.results) : \E p \in OkOf(per) :
                   x.store = p.name /\ x.rank \in DOMAIN HitsOf[p.file] /\ x.node = HitsOf[p.file][x.rank]
              /\ \A i, j \in DOMAIN fanAnswer'.results :
                   i < j => \/ fanAnswer'.results[i].rank < fanAnswer'.results[j].rank
                            \/ fanAnswer'.results[i].rank = fanAnswer'.results[j].rank /\ fanAnswer'.results[j].store # default'
              /\ \A i \in DOMAIN fanAnswer'.results : \E c \in ToSet(fanAnswer'.citations) : c.node = fanAnswer'.results[i].node
              /\ \A i, j \in DOMAIN fanAnswer'.citations :
                   fanAnswer'.citations[i].node = fanAnswer'.citations[j].node => i = j
              /\ \A c \in ToSet(fanAnswer'.citations) : \E i \in DOMAIN fanAnswer'.results :
                   /\ c = [node |-> fanAnswer'.results[i].node, store |-> fanAnswer'.results[i].store]
                   /\ \A j \in 1..i - 1 : fanAnswer'.results[j].node # c.node
              /\ Head(fanAnswer'.contexts) = default'
              /\ Last(audit') = [count |-> Len(fanAnswer'.results), stores |-> [i \in DOMAIN fan'.per |-> fan'.per[i].name]]
  <2>1. stores[1].ok
    BY <1>16, <1>19
  <2>2. /\ fanAnswer'.results = items /\ fanAnswer'.citations = cited
        /\ fanAnswer'.contexts = [i \in DOMAIN answered |-> answered[i].name]
        /\ audit' = Remembered(audit, note)
    BY <1>2, <2>1
  <2>3. /\ Len(answered) >= 1 /\ answered[1].name = default
        /\ \A i, j \in 1 .. Len(items) : i < j =>
             \/ items[i].rank < items[j].rank
             \/ items[i].rank = items[j].rank /\ items[j].store # default
        /\ IsInjective(items)
    BY <1>10, <2>1 DEF stores
  <2>4. /\ \A p \in OkOf(per) : \A r \in DOMAIN HitsOf[p.file] :
             [node |-> HitsOf[p.file][r], rank |-> r, store |-> p.name] \in ToSet(items)
        /\ \A x \in ToSet(items) : \E p \in OkOf(per) :
             x.store = p.name /\ x.rank \in DOMAIN HitsOf[p.file] /\ x.node = HitsOf[p.file][x.rank]
    BY <1>10, <2>1 DEF stores
  <2>5. /\ \A i \in 1 .. Len(items) : \E j \in 1 .. Len(cited) : cited[j].node = items[i].node
        /\ \A i, j \in 1 .. Len(cited) : cited[i].node = cited[j].node => i = j
        /\ \A j \in 1 .. Len(cited) : \E i \in 1 .. Len(items) :
             /\ cited[j] = [node |-> items[i].node, store |-> items[i].store]
             /\ \A l \in 1 .. i - 1 : items[l].node # cited[j].node
    BY <1>11 DEF Cites
  <2>6. \A i \in DOMAIN items : \E c \in ToSet(cited) : c.node = items[i].node
    BY <1>12, <2>5 DEF ToSet
  <2>7. \A c \in ToSet(cited) : \E i \in DOMAIN items :
           c = [node |-> items[i].node, store |-> items[i].store] /\ \A j \in 1..i - 1 : items[j].node # c.node
    <3> SUFFICES ASSUME NEW c \in ToSet(cited)
                 PROVE  \E i \in DOMAIN items : /\ c = [node |-> items[i].node, store |-> items[i].store]
                                               /\ \A j \in 1..i - 1 : items[j].node # c.node
      OBVIOUS
    <3>1. PICK j \in 1 .. Len(cited) : cited[j] = c
      BY <1>12 DEF ToSet
    <3>2. PICK i \in 1 .. Len(items) :
            /\ cited[j] = [node |-> items[i].node, store |-> items[i].store]
            /\ \A l \in 1 .. i - 1 : items[l].node # cited[j].node
      BY <2>5
    <3> QED BY <1>12, <3>1, <3>2
  <2>8. Head(fanAnswer'.contexts) = default
    <3> DEFINE contexts == [i \in DOMAIN answered |-> answered[i].name]
    <3>1. DOMAIN answered = 1 .. Len(answered) /\ 1 \in 1 .. Len(answered)
      BY <1>10, <2>3
    <3>2. contexts[1] = default
      BY <2>3, <3>1
    <3>3. contexts \in Seq({answered[i].name : i \in DOMAIN answered})
      BY <1>10, <3>1
    <3>4. Head(contexts) = contexts[1]
      BY <3>3
    <3> QED BY <2>2, <3>2, <3>4
  <2>9. Last(audit') = [count |-> Len(items), stores |-> [i \in DOMAIN fan'.per |-> fan'.per[i].name]]
    BY <1>4, <1>8, <1>14, <2>2 DEF note
  <2> QED BY <1>1, <1>12, <2>2, <2>3, <2>4, <2>5, <2>6, <2>7, <2>8, <2>9
<1> HIDE DEF per
<1> QED BY <1>15, <1>17, <1>18, <1>19 DEF QuietFanOutIsWhole

LEMMA FanDoneKeeps == ASSUME FanIInv, FanDone PROVE FanIInv'
<1>1. UNCHANGED <<directory, default>> /\ fan' = [fan EXCEPT !.phase = "done"]
  BY DEF FanDone
<1>2. IsDirectory(directory, default) /\ FanTypes
  BY DEF FanIInv
<1>3. fan'.phase = "done" /\ fan'.quiet = fan.quiet
  BY <1>1, <1>2 DEF FanTypes
<1>4. \E T : audit' \in Seq(T)
  <2>1. PICK S : audit \in Seq(S)
    BY <1>2 DEF FanTypes
  <2>2. audit' = audit \/ \E x : audit' = Remembered(audit, x)
    BY DEF FanDone
  <2> QED BY <2>1, <2>2, RememberedIs
<1>5. FanTypes'
  <2>1. fan' \in [phase : {"idle", "visit", "await", "done"}, cursor : Nat, asked : Entry \cup {<<>>},
                  per : Seq(Answer), quiet : BOOLEAN]
    BY <1>1, <1>2 DEF FanTypes
  <2> QED BY <1>3, <1>4, <2>1 DEF FanTypes
<1>6. QuietFanOutIsWhole'
  <2>1. CASE fan.quiet
    BY <2>1, FanDoneIsWhole
  <2>2. CASE ~ fan.quiet
    BY <1>3, <2>2 DEF QuietFanOutIsWhole
  <2> QED BY <2>1, <2>2
<1>7. IsDirectory(directory', default')
  BY <1>1, <1>2
<1> QED BY <1>3, <1>5, <1>6, <1>7 DEF FanIInv

LEMMA FanStep == FanIInv /\ [FanNext]_fanVars => FanIInv'
<1> SUFFICES ASSUME FanIInv, [FanNext]_fanVars PROVE FanIInv'
  OBVIOUS
<1>1. CASE \E name \in StoreNames, file \in StoreFiles : HotAddStore(name, file)
  BY <1>1, AddKeepsDirectory, RegistryKeeps DEF HotAddStore
<1>2. CASE \E i \in DOMAIN directory : HotRemoveStore(directory[i].name)
  BY <1>2, RemoveKeepsDirectory, RegistryKeeps DEF HotRemoveStore
<1>3. CASE \E i \in DOMAIN directory : HotSetDefault(directory[i].name)
  <2>1. PICK i \in DOMAIN directory : HotSetDefault(directory[i].name)
    BY <1>3
  <2>2. AreEntries(directory)
    BY DEF FanIInv, IsDirectory
  <2>3. DOMAIN directory = 1 .. Len(directory)
    BY <2>2 DEF AreEntries
  <2>4. IsDirectory(directory, directory[i].name)
    BY <2>2, <2>3 DEF IsDirectory
  <2>5. IsDirectory(directory', default')
    BY <2>1, <2>4 DEF HotSetDefault
  <2> QED BY <2>1, <2>5, RegistryKeeps DEF HotSetDefault
<1>4. CASE \E i \in DOMAIN directory, to \in StoreNames : HotRenameStore(directory[i].name, to)
  BY <1>4, RenameKeepsDirectory, RegistryKeeps DEF HotRenameStore
<1>5. CASE \E to \in StoreNames : HotRenameDefault(to)
  BY <1>5, RenameDefaultKeepsDirectory, RegistryKeeps DEF HotRenameDefault
<1>6. CASE FanStart
  BY <1>6, FanStartKeeps
<1>7. CASE FanVisit
  BY <1>7, FanVisitKeeps
<1>8. CASE FanDone
  BY <1>8, FanDoneKeeps
<1>9. CASE FanReturn
  BY <1>9, FanReturnKeeps
<1>10. CASE \E ok \in BOOLEAN : FanAnswered(ok)
  BY <1>10, FanAnsweredKeeps
<1>11. CASE UNCHANGED fanVars
  <2>1. UNCHANGED <<directory, default, fan, fanAnswer, audit>>
    BY <1>11 DEF fanVars
  <2>2. IsDirectory(directory', default') /\ FanTypes'
    BY <2>1 DEF FanIInv, FanTypes
  <2>3. HasAsked' <=> HasAsked
    BY <2>1 DEF HasAsked
  <2>4. QuietFanOutIsWhole'
    BY <2>1 DEF FanIInv, QuietFanOutIsWhole
  <2> QED BY <2>1, <2>2, <2>3, <2>4 DEF FanIInv
<1> QED BY <1>1, <1>2, <1>3, <1>4, <1>5, <1>6, <1>7, <1>8, <1>9, <1>10, <1>11 DEF FanNext

LEMMA FanAlways == FanSpec => []FanIInv
<1>1. FanInit => FanIInv
  BY FanInitInv
<1>2. FanIInv /\ [FanNext]_fanVars => FanIInv'
  BY FanStep
<1> QED BY <1>1, <1>2, PTL DEF FanSpec

\* A query of all stores that no change of the registry interrupts asks every store once, and its
\* answer has every hit of those that answer, once and in the order of the ranks.
THEOREM FanOutsStayWhole == FanSpec => []QuietFanOutIsWhole
<1>1. FanIInv => QuietFanOutIsWhole
  BY DEF FanIInv
<1> QED BY <1>1, FanAlways, PTL
=============================================================================
