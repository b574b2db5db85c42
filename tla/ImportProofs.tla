---------------------------- MODULE ImportProofs ----------------------------
(***************************************************************************)
(* The import of markdown, for texts of any length in any number of files: *)
(* what is read back of a document that an import has written is the text  *)
(* of its file.                                                            *)
(*                                                                         *)
(* The blocks of a text, the trees they become and the outline they stand  *)
(* in come first, then the edges the outline is numbered into, what        *)
(* follows them through the store, and the order in which it reads them.   *)
(* ImportIInv says of the store what makes that so after every import,     *)
(* deletion and repeated import.                                           *)
(***************************************************************************)
EXTENDS KnowledgeProofs, MarkdownImport

----------------------------------------------------------------------------
(* The blocks of a text                                                     *)

\* Numbers, each less than the next.
Rising(s) == \A k, l \in DOMAIN s : k < l => s[k] < s[l]

LEMMA LeastIs ==
  ASSUME NEW S \in SUBSET Nat, S # {}
  PROVE  Min(S) \in S /\ \A x \in S : Min(S) <= x
<1>1. \E x \in S : \A y \in S : x <= y
  BY LeastOf
<1> QED BY <1>1 DEF Min

LEMMA LinesIs ==
  ASSUME NEW i \in Nat, NEW j \in Nat
  PROVE  /\ Lines(i, j) \in Seq(Nat) /\ Rising(Lines(i, j)) /\ ToSet(Lines(i, j)) = i .. j - 1
         /\ Len(Lines(i, j)) = (IF j > i THEN j - i ELSE 0)
         /\ \A k \in DOMAIN Lines(i, j) : Lines(i, j)[k] = i + k - 1 /\ Lines(i, j)[k] \in i .. j - 1
<1> DEFINE n == IF j > i THEN j - i ELSE 0
           s == Lines(i, j)
<1>1. n \in Nat /\ s = [k \in 1 .. n |-> i + k - 1]
  BY DEF Lines
<1>2. \A k \in 1 .. n : i + k - 1 \in Nat /\ i + k - 1 \in i .. j - 1
  OBVIOUS
<1> HIDE DEF s, n
<1>3. s \in Seq(Nat) /\ Len(s) = n /\ DOMAIN s = 1 .. n /\ \A k \in 1 .. n : s[k] = i + k - 1
  BY <1>1, <1>2
<1>4. Rising(s)
  BY <1>1, <1>3 DEF Rising
<1>5. ASSUME NEW x \in i .. j - 1 PROVE \E k \in 1 .. n : s[k] = x
  <2>1. x - i + 1 \in 1 .. n /\ i + (x - i + 1) - 1 = x
    BY DEF n
  <2> QED BY <1>3, <2>1
<1>6. ToSet(s) = i .. j - 1
  <2>1. \A x : x \in ToSet(s) <=> \E k \in 1 .. n : s[k] = x
    BY <1>3 DEF ToSet
  <2>2. \A k \in 1 .. n : s[k] \in i .. j - 1
    BY <1>2, <1>3
  <2>3. \A x : x \in ToSet(s) <=> x \in i .. j - 1
    BY <1>5, <2>1, <2>2
  <2> QED BY <2>3
<1> QED BY <1>2, <1>3, <1>4, <1>6 DEF s, n

LEMMA FirstOfIs ==
  ASSUME NEW t, Len(t) \in Nat, NEW i \in 1 .. Len(t) + 1, NEW kinds
  PROVE  /\ FirstOf(t, i, kinds) \in i .. Len(t) + 1
         /\ FirstOf(t, i, kinds) = Len(t) + 1 \/ t[FirstOf(t, i, kinds)] \in kinds
         /\ \A j \in i .. FirstOf(t, i, kinds) - 1 : t[j] \notin kinds
<1> DEFINE S == {j \in i .. Len(t) + 1 : j = Len(t) + 1 \/ t[j] \in kinds}
<1>1. S \in SUBSET Nat /\ Len(t) + 1 \in S
  OBVIOUS
<1>2. FirstOf(t, i, kinds) = Min(S)
  BY DEF FirstOf
<1>3. Min(S) \in S /\ \A x \in S : Min(S) <= x
  <2> HIDE DEF S
  <2> QED BY <1>1, LeastIs
<1> DEFINE m == Min(S)
<1> HIDE DEF m
<1>4. m \in S /\ \A x \in S : m <= x
  BY <1>3 DEF m
<1>5. \A j \in i .. m - 1 : j \in i .. Len(t) + 1 /\ ~(m <= j)
  BY <1>4
<1> QED BY <1>2, <1>4, <1>5 DEF m

LEMMA ParagraphEndIs ==
  ASSUME NEW t, Len(t) \in Nat, NEW i \in 1 .. Len(t)
  PROVE  ParagraphEnd(t, i) \in i + 1 .. Len(t) + 1
<1> DEFINE S == {j \in i + 1 .. Len(t) + 1 : j = Len(t) + 1 \/ t[j] \in BlockStarts \/ LineIs(t, j + 1, Underlines)}
<1>1. S \in SUBSET Nat /\ Len(t) + 1 \in S
  OBVIOUS
<1>2. ParagraphEnd(t, i) = Min(S)
  BY DEF ParagraphEnd
<1>3. Min(S) \in S
  <2> HIDE DEF S
  <2> QED BY <1>1, LeastIs
<1> QED BY <1>2, <1>3

\* A block that starts at line i: where its lines are, and which lines it leaves out.
IsBlock(t, i, b) ==
  /\ b.next \in Nat /\ b.next > i
  /\ b.lines \in Seq(Nat) /\ Rising(b.lines)
  /\ \A x \in ToSet(b.lines) : x \in DOMAIN t /\ i <= x /\ x < b.next
  /\ \A j \in DOMAIN t : i <= j /\ j < b.next /\ j \notin MayBeLost(t) => j \in ToSet(b.lines)
  /\ b.kind = "heading" => b.lines = <<i>>
  /\ b.kind = "blockquote" => /\ b.lines = Lines(i, b.next) /\ b.next \in 1 .. Len(t) + 1
                              /\ b.next = Len(t) + 1 \/ t[b.next] \notin Quotes
                              /\ \A j \in i .. b.next - 1 : t[j] \in Quotes
  /\ b.kind = "table" => Len(b.lines) >= 1
  /\ b.kind \in {"rule", "html"} => b.lines = <<>>
  /\ b.kind \in {"heading", "pre", "p", "ul", "ol", "blockquote", "table", "rule", "html"}

LEMMA LostIs ==
  ASSUME NEW t, NEW i \in DOMAIN t,
         t[i] \in {"blank", "fence", "html", "close", "pipes", "quoted atx"} \cup Underlines
  PROVE  i \in MayBeLost(t)
  BY DEF MayBeLost

\* Lines from i on up to e, and nothing after that but what may be lost.
LEMMA RunIsBlock ==
  ASSUME NEW t \in Seq(LineKinds), NEW i \in DOMAIN t, NEW s \in i .. i + 1, NEW e \in s .. Len(t) + 1, NEW next \in Nat,
         NEW kind \in {"pre", "p", "ul", "ol"},
         next > i, next >= e, s = i \/ i \in MayBeLost(t),
         \A j \in DOMAIN t : e <= j /\ j < next => j \in MayBeLost(t)
  PROVE  IsBlock(t, i, Block(kind, Lines(s, e), next))
<1> DEFINE b == Block(kind, Lines(s, e), next)
           l == Lines(s, e)
<1>1. Len(t) \in Nat /\ DOMAIN t = 1 .. Len(t) /\ i \in Nat /\ s \in Nat /\ e \in Nat
  OBVIOUS
<1>2. l \in Seq(Nat) /\ Rising(l) /\ ToSet(l) = s .. e - 1
  BY <1>1, LinesIs
<1>3. b.kind = kind /\ b.lines = l /\ b.next = next
  BY DEF Block
<1> HIDE DEF b, l
<1>4. \A x \in ToSet(l) : x \in DOMAIN t /\ i <= x /\ x < next
  BY <1>1, <1>2
<1>5. \A j \in DOMAIN t : i <= j /\ j < next /\ j \notin MayBeLost(t) => j \in ToSet(l)
  <2>1. ASSUME NEW j \in DOMAIN t, i <= j, j < next, j \notin MayBeLost(t) PROVE j \in ToSet(l)
    <3>1. j < e
      BY <1>1, <2>1
    <3>2. s <= j
      BY <1>1, <2>1
    <3> QED BY <1>1, <1>2, <3>1, <3>2
  <2> QED BY <2>1
<1>6. IsBlock(t, i, b)
  BY <1>2, <1>3, <1>4, <1>5 DEF IsBlock
<1> QED BY <1>6 DEF b
LEMMA NoLines == /\ <<>> \in Seq(Nat) /\ Rising(<<>>) /\ ToSet(<<>>) = {}
  BY DEF Rising, ToSet

\* A block without lines stands where nothing has to be kept.
LEMMA MarkIsBlock ==
  ASSUME NEW t \in Seq(LineKinds), NEW i \in DOMAIN t, NEW next \in Nat, NEW kind \in {"rule", "html"},
         next > i, \A j \in DOMAIN t : i <= j /\ j < next => j \in MayBeLost(t)
  PROVE  IsBlock(t, i, Block(kind, <<>>, next))
<1> DEFINE b == Block(kind, <<>>, next)
<1>1. b.kind = kind /\ b.lines = <<>> /\ b.next = next
  BY DEF Block
<1> HIDE DEF b
<1>2. IsBlock(t, i, b)
  BY <1>1, NoLines DEF IsBlock
<1> QED BY <1>2 DEF b

\* A heading, of one line and an underline, if any.
LEMMA HeadingIsBlock ==
  ASSUME NEW t \in Seq(LineKinds), NEW i \in DOMAIN t, NEW next \in i + 1 .. i + 2,
         next = i + 1 \/ i + 1 \in MayBeLost(t)
  PROVE  IsBlock(t, i, Block("heading", <<i>>, next))
<1> DEFINE b == Block("heading", <<i>>, next)
<1>1. b.kind = "heading" /\ b.lines = <<i>> /\ b.next = next /\ i \in Nat /\ DOMAIN t \subseteq Nat
  BY DEF Block
<1> HIDE DEF b
<1>2. <<i>> \in Seq(Nat) /\ Rising(<<i>>) /\ ToSet(<<i>>) = {i}
  BY <1>1 DEF Rising, ToSet
<1>3. IsBlock(t, i, b)
  BY <1>1, <1>2 DEF IsBlock
<1> QED BY <1>3 DEF b

LEMMA QuoteIsBlock ==
  ASSUME NEW t \in Seq(LineKinds), NEW i \in DOMAIN t, t[i] \in Quotes
  PROVE  LET e == FirstOf(t, i, LineKinds \ Quotes) IN IsBlock(t, i, Block("blockquote", Lines(i, e), e))
<1> DEFINE e == FirstOf(t, i, LineKinds \ Quotes)
           b == Block("blockquote", Lines(i, e), e)
<1>1. Len(t) \in Nat /\ DOMAIN t = 1 .. Len(t) /\ i \in 1 .. Len(t) + 1 /\ \A j \in DOMAIN t : t[j] \in LineKinds
  OBVIOUS
<1>2. /\ e \in i .. Len(t) + 1 /\ (e = Len(t) + 1 \/ t[e] \in LineKinds \ Quotes)
      /\ \A j \in i .. e - 1 : t[j] \notin LineKinds \ Quotes
  BY <1>1, FirstOfIs
<1>3. b.kind = "blockquote" /\ b.lines = Lines(i, e) /\ b.next = e
  BY DEF Block
<1> HIDE DEF b, e
<1>4. e > i /\ e \in Nat /\ i \in Nat
  BY <1>1, <1>2
<1>5. \A j \in i .. e - 1 : t[j] \in Quotes
  BY <1>1, <1>2
<1>6. Lines(i, e) \in Seq(Nat) /\ Rising(Lines(i, e)) /\ ToSet(Lines(i, e)) = i .. e - 1
  <2>1. i \in Nat /\ e \in Nat
    BY <1>4
  <2> QED BY <2>1, LinesIs
<1>7. \A x \in ToSet(Lines(i, e)) : x \in DOMAIN t /\ i <= x /\ x < e
  BY <1>1, <1>2, <1>6
<1>8. \A j \in DOMAIN t : i <= j /\ j < e /\ j \notin MayBeLost(t) => j \in ToSet(Lines(i, e))
  BY <1>1, <1>2, <1>6
<1>9. e \in 1 .. Len(t) + 1 /\ (e = Len(t) + 1 \/ t[e] \notin Quotes)
  BY <1>1, <1>2
<1>10. IsBlock(t, i, b)
  BY <1>3, <1>4, <1>5, <1>6, <1>7, <1>8, <1>9 DEF IsBlock
<1> QED BY <1>10 DEF b, e

LEMMA TableIsBlock ==
  ASSUME NEW t \in Seq(LineKinds), NEW i \in DOMAIN t, LineIs(t, i + 1, {"pipes"})
  PROVE  LET e == FirstOf(t, i + 2, LineKinds \ Tables) IN IsBlock(t, i, Block("table", <<i>> \o Lines(i + 2, e), e))
<1> DEFINE e == FirstOf(t, i + 2, LineKinds \ Tables)
           l == Lines(i + 2, e)
           a == <<i>> \o l
           b == Block("table", a, e)
<1>1. Len(t) \in Nat /\ DOMAIN t = 1 .. Len(t) /\ i + 2 \in 1 .. Len(t) + 1 /\ i + 1 \in MayBeLost(t)
  <2>1. i + 1 \in DOMAIN t /\ t[i + 1] = "pipes"
    BY DEF LineIs
  <2>2. i + 1 \in MayBeLost(t)
    BY <2>1, LostIs
  <2> QED BY <2>1, <2>2
<1>2. e \in i + 2 .. Len(t) + 1
  BY <1>1, FirstOfIs
<1>3. b.kind = "table" /\ b.lines = a /\ b.next = e
  BY DEF Block
<1> HIDE DEF b, e
<1>4. e > i /\ e \in Nat /\ i \in Nat /\ i + 2 \in Nat
  BY <1>1, <1>2
<1>5. /\ l \in Seq(Nat) /\ Rising(l) /\ ToSet(l) = i + 2 .. e - 1
      /\ \A k \in DOMAIN l : l[k] \in i + 2 .. e - 1
  BY <1>4, LinesIs
<1> HIDE DEF l
<1>6. /\ a \in Seq(Nat) /\ Len(a) = Len(l) + 1 /\ a[1] = i /\ Len(l) \in Nat /\ DOMAIN l = 1 .. Len(l)
      /\ \A k \in 2 .. Len(l) + 1 : a[k] = l[k - 1]
  BY <1>4, <1>5
<1> HIDE DEF a
<1>7. DOMAIN a = 1 .. Len(l) + 1
  BY <1>6
<1>8. Rising(a)
  <2>1. ASSUME NEW k \in 1 .. Len(l) + 1, NEW m \in 1 .. Len(l) + 1, k < m PROVE a[k] < a[m]
    <3>1. m \in 2 .. Len(l) + 1 /\ m - 1 \in DOMAIN l /\ a[m] = l[m - 1]
      BY <1>6, <2>1
    <3>2. CASE k = 1
      <4>1. l[m - 1] \in i + 2 .. e - 1
        BY <1>5, <3>1
      <4>2. a[k] = i /\ a[m] = l[m - 1]
        BY <1>6, <3>1, <3>2
      <4> QED BY <1>4, <4>1, <4>2
    <3>3. CASE k # 1
      <4>1. k - 1 \in DOMAIN l /\ a[k] = l[k - 1] /\ k - 1 < m - 1
        BY <1>6, <2>1, <3>3
      <4> QED BY <1>5, <3>1, <4>1 DEF Rising
    <3> QED BY <3>2, <3>3
  <2> QED BY <1>7, <2>1 DEF Rising
<1>9. ToSet(a) = {i} \cup ToSet(l)
  <2>1. \A x : x \in ToSet(a) <=> \E k \in 1 .. Len(l) + 1 : a[k] = x
    BY <1>7 DEF ToSet
  <2>2. \A x : x \in ToSet(l) <=> \E k \in 1 .. Len(l) : l[k] = x
    BY <1>6 DEF ToSet
  <2>3. ASSUME NEW x, x \in ToSet(a) PROVE x = i \/ x \in ToSet(l)
    <3>1. PICK k \in 1 .. Len(l) + 1 : a[k] = x
      BY <2>1, <2>3
    <3>2. k = 1 \/ (k \in 2 .. Len(l) + 1 /\ k - 1 \in 1 .. Len(l))
      BY <1>6
    <3> QED BY <1>6, <2>2, <3>1, <3>2
  <2>4. ASSUME NEW x, x \in ToSet(l) PROVE x \in ToSet(a)
    <3>1. PICK k \in 1 .. Len(l) : l[k] = x
      BY <2>2, <2>4
    <3>2. k + 1 \in 2 .. Len(l) + 1 /\ k + 1 \in 1 .. Len(l) + 1 /\ (k + 1) - 1 = k
      BY <1>6
    <3> QED BY <1>6, <2>1, <3>1, <3>2
  <2>5. 1 \in 1 .. Len(l) + 1
    BY <1>6
  <2>6. i \in ToSet(a)
    BY <1>6, <2>1, <2>5
  <2> QED BY <2>3, <2>4, <2>6
<1>10. \A x \in ToSet(a) : x \in DOMAIN t /\ i <= x /\ x < e
  BY <1>1, <1>2, <1>4, <1>5, <1>9
<1>11. \A j \in DOMAIN t : i <= j /\ j < e /\ j \notin MayBeLost(t) => j \in ToSet(a)
  <2>1. \A j \in DOMAIN t : i <= j /\ j < e => j = i \/ j = i + 1 \/ j \in i + 2 .. e - 1
    BY <1>1, <1>4
  <2> QED BY <1>1, <1>5, <1>9, <2>1
<1>12. IsBlock(t, i, b)
  BY <1>3, <1>4, <1>6, <1>8, <1>10, <1>11 DEF IsBlock
<1> QED BY <1>12 DEF b, e, a, l

LEMMA BlockIs ==
  ASSUME NEW t \in Seq(LineKinds), NEW i \in DOMAIN t
  PROVE  IsBlock(t, i, BlockAt(t, i))
<1> DEFINE n == Len(t)
           quoteEnd == FirstOf(t, i, LineKinds \ Quotes)
           listEnd == FirstOf(t, i, LineKinds \ {t[i]})
           tableEnd == FirstOf(t, i + 2, LineKinds \ Tables)
           fence == FirstOf(t, i + 1, {"fence"})
           html == FirstOf(t, i + 1, {"close"})
           end == ParagraphEnd(t, i)
           b == BlockAt(t, i)
           under == LineIs(t, i + 1, Underlines)
           table == t[i] \in Tables /\ LineIs(t, i + 1, {"pipes"})
<1>1. n \in Nat /\ DOMAIN t = 1 .. n /\ i \in Nat /\ i \in 1 .. n + 1 /\ i + 1 \in 1 .. n + 1 /\ t[i] \in LineKinds
  OBVIOUS
<1>2. fence \in i + 1 .. n + 1 /\ (fence = n + 1 \/ t[fence] = "fence")
  BY <1>1, FirstOfIs
<1>3. html \in i + 1 .. n + 1
  BY <1>1, FirstOfIs
<1>4. listEnd \in i .. n + 1 /\ (listEnd = n + 1 \/ t[listEnd] \in LineKinds \ {t[i]})
  BY <1>1, FirstOfIs
<1>5. end \in i + 1 .. n + 1
  BY <1>1, ParagraphEndIs
<1>6. under => i + 1 \in MayBeLost(t)
  BY LostIs DEF LineIs
<1>7. b = IF t[i] = "fence" THEN Block("pre", Lines(i + 1, fence), fence + 1)
          ELSE IF t[i] = "atx" THEN Block("heading", <<i>>, i + 1)
          ELSE IF under THEN Block("heading", <<i>>, i + 2)
          ELSE IF t[i] \in Quotes THEN Block("blockquote", Lines(i, quoteEnd), quoteEnd)
          ELSE IF t[i] = "item" THEN Block("ul", Lines(i, listEnd), listEnd)
          ELSE IF t[i] = "number" THEN Block("ol", Lines(i, listEnd), listEnd)
          ELSE IF table THEN Block("table", <<i>> \o Lines(i + 2, tableEnd), tableEnd)
          ELSE IF t[i] = "dashes" THEN Block("rule", <<>>, i + 1)
          ELSE IF t[i] = "html" THEN Block("html", <<>>, html + 1)
          ELSE IF t[i] = "close" THEN Block("html", <<>>, i + 1)
          ELSE Block("p", Lines(i, end), end)
  BY DEF BlockAt
<1> HIDE DEF n, b, fence, html, listEnd, end, under, table, quoteEnd, tableEnd
<1>8. ASSUME t[i] = "fence" PROVE IsBlock(t, i, Block("pre", Lines(i + 1, fence), fence + 1))
  <2>1. i \in MayBeLost(t)
    BY <1>8, LostIs
  <2>2. \A j \in DOMAIN t : fence <= j /\ j < fence + 1 => j \in MayBeLost(t)
    <3>1. \A j \in DOMAIN t : fence <= j /\ j < fence + 1 => j = fence /\ t[j] = "fence"
      BY <1>1, <1>2
    <3> QED BY <3>1, LostIs
  <2>3. i + 1 \in i .. i + 1 /\ fence \in i + 1 .. Len(t) + 1 /\ fence + 1 \in Nat /\ fence + 1 > i /\ fence + 1 >= fence
    BY <1>1, <1>2 DEF n
  <2> QED BY <2>1, <2>2, <2>3, RunIsBlock
<1>9. \A j \in DOMAIN t : i <= j /\ j < i + 1 => j = i
  BY <1>1
<1>10. ASSUME NEW e \in i + 1 .. n + 1, NEW kind \in {"p", "ul", "ol"} PROVE IsBlock(t, i, Block(kind, Lines(i, e), e))
  <2>1. i \in i .. i + 1 /\ e \in i .. Len(t) + 1 /\ e \in Nat /\ e > i /\ e >= e
    BY <1>1 DEF n
  <2>2. \A j \in DOMAIN t : ~(e <= j /\ j < e)
    BY <1>1, <2>1
  <2> QED BY <2>1, <2>2, RunIsBlock
<1>11. ASSUME t[i] \in {"item", "number"} PROVE listEnd \in i + 1 .. n + 1
  BY <1>1, <1>4
<1>12. ASSUME NEW next \in Nat, next > i, t[i] = "html" PROVE IsBlock(t, i, Block("html", <<>>, next))
  <2>1. ASSUME NEW j \in DOMAIN t, i <= j PROVE j \in MayBeLost(t)
    <3>1. i \in 1 .. j
      BY <1>1, <2>1
    <3> QED BY <1>12, <3>1 DEF MayBeLost
  <2> QED BY <1>12, <2>1, MarkIsBlock
<1>13. ASSUME NEW kind \in {"rule", "html"}, t[i] \in {"dashes", "close"} PROVE IsBlock(t, i, Block(kind, <<>>, i + 1))
  <2>1. i \in MayBeLost(t)
    BY <1>13, LostIs DEF Underlines
  <2>2. \A j \in DOMAIN t : i <= j /\ j < i + 1 => j \in MayBeLost(t)
    BY <1>9, <2>1
  <2>3. i + 1 \in Nat /\ i + 1 > i
    BY <1>1
  <2> QED BY <2>2, <2>3, MarkIsBlock
<1>14. IsBlock(t, i, Block("heading", <<i>>, i + 1))
  <2>1. i + 1 \in i + 1 .. i + 2
    BY <1>1
  <2> QED BY <2>1, HeadingIsBlock
<1>15. ASSUME under PROVE IsBlock(t, i, Block("heading", <<i>>, i + 2))
  <2>1. i + 2 \in i + 1 .. i + 2
    BY <1>1
  <2> QED BY <1>6, <1>15, <2>1, HeadingIsBlock
<1>16. ASSUME t[i] \in Quotes PROVE IsBlock(t, i, Block("blockquote", Lines(i, quoteEnd), quoteEnd))
  BY <1>16, QuoteIsBlock DEF quoteEnd
<1>17. ASSUME table PROVE IsBlock(t, i, Block("table", <<i>> \o Lines(i + 2, tableEnd), tableEnd))
  BY <1>17, TableIsBlock DEF tableEnd, table
<1>18. ASSUME t[i] = "item" PROVE IsBlock(t, i, Block("ul", Lines(i, listEnd), listEnd))
  BY <1>10, <1>11, <1>18
<1>19. ASSUME t[i] = "number" PROVE IsBlock(t, i, Block("ol", Lines(i, listEnd), listEnd))
  BY <1>10, <1>11, <1>19
<1>20. IsBlock(t, i, Block("p", Lines(i, end), end))
  BY <1>5, <1>10
<1>21. ASSUME t[i] = "html" PROVE IsBlock(t, i, Block("html", <<>>, html + 1))
  <2>1. html + 1 \in Nat /\ html + 1 > i
    BY <1>1, <1>3
  <2> QED BY <1>12, <1>21, <2>1
<1>22. IsBlock(t, i, b)
  BY <1>7, <1>8, <1>13, <1>14, <1>15, <1>16, <1>17, <1>18, <1>19, <1>20, <1>21, Zenon
<1> QED BY <1>22 DEF b

----------------------------------------------------------------------------
(* The nodes of a block                                                     *)

Outer == {"ul", "ol", "blockquote", "table"}
Inner == {"thead", "tr"}
Innermost == {"p", "pre", "li", "th", "td"}

\* How deep a node of a type stands; the root and the sections are not in anything.
Depth(type) == IF type \in Outer THEN 1 ELSE IF type \in Inner THEN 2 ELSE IF type \in Innermost THEN 3 ELSE 0

\* Nodes in the order of the text, each behind the one it hangs under and with nothing else between those two.
IsForest(s) ==
  /\ Len(s) \in Nat /\ DOMAIN s = 1 .. Len(s)
  /\ \A k \in 1 .. Len(s) : /\ s[k].type \in Outer \cup Inner \cup Innermost /\ s[k].up \in 0 .. k - 1
                            /\ s[k].lines \in Seq(Nat) /\ Rising(s[k].lines)
                            /\ s[k].up # 0 => Depth(s[s[k].up].type) < Depth(s[k].type)
  /\ \A k, l \in 1 .. Len(s) : s[l].up < k /\ k < l => s[l].up <= s[k].up
  /\ \A k, l \in 1 .. Len(s) : k < l => AllBefore(ToSet(s[k].lines), ToSet(s[l].lines))

LEMMA HeadedIs ==
  ASSUME NEW x, NEW n \in Nat, NEW r, r = [k \in 1 .. n |-> r[k]]
  PROVE  LET s == <<x>> \o r
         IN Len(s) = n + 1 /\ DOMAIN s = 1 .. n + 1 /\ s[1] = x /\ \A k \in 1 .. n : s[k + 1] = r[k]
<1> DEFINE T == {r[k] : k \in 1 .. n}
           s == <<x>> \o r
<1>1. r \in [1 .. n -> T]
  OBVIOUS
<1> HIDE DEF T
<1>2. r \in Seq(T) /\ Len(r) = n
  BY <1>1
<1>3. Len(s) = n + 1 /\ DOMAIN s = 1 .. n + 1 /\ s[1] = x /\ \A k \in 2 .. n + 1 : s[k] = r[k - 1]
  BY <1>2
<1> HIDE DEF s
<1>4. \A k \in 1 .. n : k + 1 \in 2 .. n + 1 /\ (k + 1) - 1 = k
  OBVIOUS
<1>5. \A k \in 1 .. n : s[k + 1] = r[k]
  BY <1>3, <1>4
<1> QED BY <1>3, <1>5 DEF s

\* A node over others of one type.
LEMMA FlatIsForest ==
  ASSUME NEW kind \in Outer, NEW item \in Innermost, NEW n \in Nat, NEW C, NEW s,
         \A k \in 1 .. n : C[k] \in Seq(Nat) /\ Rising(C[k]),
         \A k, l \in 1 .. n : k < l => AllBefore(ToSet(C[k]), ToSet(C[l])),
         Len(s) = n + 1, DOMAIN s = 1 .. n + 1,
         s[1] = Leaf(kind, 0, <<>>), \A k \in 1 .. n : s[k + 1] = Leaf(item, 1, C[k])
  PROVE  IsForest(s)
<1>1. s[1].type = kind /\ s[1].up = 0 /\ s[1].lines = <<>>
  BY DEF Leaf
<1>2. ASSUME NEW k \in 1 .. n PROVE s[k + 1].type = item /\ s[k + 1].up = 1 /\ s[k + 1].lines = C[k]
  <2>1. s[k + 1] = Leaf(item, 1, C[k])
    OBVIOUS
  <2> QED BY <2>1 DEF Leaf
<1>4. \A k \in 2 .. n + 1 : s[k].type = item /\ s[k].up = 1 /\ s[k].lines = C[k - 1]
  <2>1. \A k \in 2 .. n + 1 : k - 1 \in 1 .. n /\ (k - 1) + 1 = k
    OBVIOUS
  <2> QED BY <1>2, <2>1
<1>5. \A k \in 1 .. n + 1 : k = 1 \/ (k \in 2 .. n + 1 /\ k - 1 \in 1 .. n)
  OBVIOUS
<1>7. Depth(kind) = 1 /\ Depth(item) = 3
  BY DEF Depth, Outer, Inner, Innermost
<1>8. ASSUME NEW k \in 1 .. n + 1
      PROVE  /\ s[k].type \in Outer \cup Inner \cup Innermost /\ s[k].up \in 0 .. k - 1
             /\ s[k].lines \in Seq(Nat) /\ Rising(s[k].lines)
             /\ s[k].up # 0 => Depth(s[s[k].up].type) < Depth(s[k].type)
  <2>1. CASE k = 1
    <3>1. s[k].type = kind /\ s[k].up = 0 /\ s[k].lines = <<>>
      BY <1>1, <1>4, <2>1
    <3>2. kind \in Outer /\ 0 \in 0 .. k - 1
      BY <2>1
    <3> QED BY <3>1, <3>2, NoLines
  <2>2. CASE k \in 2 .. n + 1 /\ k - 1 \in 1 .. n
    <3>1. s[k].type = item /\ s[k].up = 1 /\ s[k].lines = C[k - 1] /\ s[1].type = kind
      BY <1>1, <1>4, <2>2
    <3>2. 1 \in 0 .. k - 1
      BY <2>2
    <3> QED BY <1>7, <2>2, <3>1, <3>2
  <2> QED BY <1>5, <2>1, <2>2
<1>9. \A k \in 1 .. n + 1 : s[k].up = IF k = 1 THEN 0 ELSE 1
  BY <1>1, <1>4, <1>5
<1>10. \A k, l \in 1 .. n + 1 : s[l].up < k /\ k < l => s[l].up <= s[k].up
  BY <1>9
<1>11. ASSUME NEW k \in 1 .. n + 1, NEW l \in 1 .. n + 1, k < l PROVE AllBefore(ToSet(s[k].lines), ToSet(s[l].lines))
  <2>1. CASE k = 1
    BY <1>1, <1>4, <2>1, NoLines DEF AllBefore
  <2>2. CASE k # 1
    <3>1. k - 1 \in 1 .. n /\ l - 1 \in 1 .. n /\ k - 1 < l - 1 /\ k \in 2 .. n + 1 /\ l \in 2 .. n + 1
      BY <1>11, <2>2
    <3>2. s[k].lines = C[k - 1] /\ s[l].lines = C[l - 1]
      BY <1>4, <3>1
    <3> QED BY <3>1, <3>2
  <2> QED BY <2>1, <2>2
<1> QED BY <1>8, <1>10, <1>11 DEF IsForest

LEMMA LeafIsForest ==
  ASSUME NEW kind \in Innermost, NEW l \in Seq(Nat), Rising(l)
  PROVE  LET s == <<Leaf(kind, 0, l)>> IN IsForest(s) /\ Len(s) = 1 /\ s[1].lines = l
<1> DEFINE s == <<Leaf(kind, 0, l)>>
<1>1. Len(s) = 1 /\ DOMAIN s = 1 .. 1 /\ s[1].type = kind /\ s[1].up = 0 /\ s[1].lines = l
  BY DEF Leaf
<1> HIDE DEF s
<1>2. IsForest(s)
  <2>1. \A k \in 1 .. 1 : k = 1
    OBVIOUS
  <2> QED BY <1>1, <2>1 DEF IsForest
<1> QED BY <1>1, <1>2 DEF s

\* The lines of a list, one to each of its items.
LEMMA ItemsAre ==
  ASSUME NEW l \in Seq(Nat), Rising(l)
  PROVE  LET C == [k \in DOMAIN l |-> <<l[k]>>]
         IN /\ \A k \in 1 .. Len(l) : C[k] \in Seq(Nat) /\ Rising(C[k]) /\ ToSet(C[k]) = {l[k]}
            /\ \A k, m \in 1 .. Len(l) : k < m => AllBefore(ToSet(C[k]), ToSet(C[m]))
<1> DEFINE C == [k \in DOMAIN l |-> <<l[k]>>]
<1>1. \A k \in 1 .. Len(l) : C[k] = <<l[k]>> /\ l[k] \in Nat /\ k \in DOMAIN l
  OBVIOUS
<1> HIDE DEF C
<1>2. ASSUME NEW x \in Nat PROVE <<x>> \in Seq(Nat) /\ Rising(<<x>>) /\ ToSet(<<x>>) = {x}
  BY DEF Rising, ToSet
<1>3. \A k \in 1 .. Len(l) : C[k] \in Seq(Nat) /\ Rising(C[k]) /\ ToSet(C[k]) = {l[k]}
  BY <1>1, <1>2
<1>4. \A k, m \in 1 .. Len(l) : k < m => l[k] < l[m]
  BY <1>1 DEF Rising
<1>5. \A k, m \in 1 .. Len(l) : k < m => AllBefore(ToSet(C[k]), ToSet(C[m]))
  BY <1>3, <1>4 DEF AllBefore
<1> QED BY <1>3, <1>5 DEF C

\* The nodes of a block have its lines, but for what may be lost of it.
TreeHas(t, b, s) ==
  /\ IsForest(s)
  /\ \A k \in 1 .. Len(s) : ToSet(s[k].lines) \subseteq ToSet(b.lines)
  /\ \A x \in ToSet(b.lines) \ MayBeLost(t) : \E k \in 1 .. Len(s) : x \in ToSet(s[k].lines)

LEMMA ListHas ==
  ASSUME NEW t, NEW b, b.lines \in Seq(Nat), Rising(b.lines), b.kind \in {"ul", "ol"}
  PROVE  TreeHas(t, b, Tree(t, b))
<1> DEFINE l == b.lines
           n == Len(l)
           C == [k \in DOMAIN l |-> <<l[k]>>]
           s == Tree(t, b)
           kind == b.kind
<1>1. s = <<Leaf(kind, 0, <<>>)>> \o [k \in DOMAIN l |-> Leaf("li", 1, <<l[k]>>)]
  BY DEF Tree
<1>2. n \in Nat /\ DOMAIN l = 1 .. n /\ \A k \in 1 .. n : C[k] = <<l[k]>>
  OBVIOUS
<1>3. /\ \A k \in 1 .. n : C[k] \in Seq(Nat) /\ Rising(C[k]) /\ ToSet(C[k]) = {l[k]}
      /\ \A k, m \in 1 .. n : k < m => AllBefore(ToSet(C[k]), ToSet(C[m]))
  BY ItemsAre
<1> HIDE DEF C, s, kind
<1> DEFINE item == "li"
           r == [k \in 1 .. n |-> Leaf(item, 1, C[k])]
<1>4. s = <<Leaf(kind, 0, <<>>)>> \o r
  <2>1. [k \in DOMAIN l |-> Leaf("li", 1, <<l[k]>>)] = r
    BY <1>2
  <2> QED BY <1>1, <2>1
<1>41. r = [k \in 1 .. n |-> r[k]] /\ \A k \in 1 .. n : r[k] = Leaf(item, 1, C[k])
  OBVIOUS
<1>42. item \in Innermost
  BY DEF Innermost
<1> HIDE DEF n, l, r, item
<1>5. kind \in Outer
  BY DEF kind, Outer
<1>51. Len(s) = n + 1 /\ DOMAIN s = 1 .. n + 1 /\ s[1] = Leaf(kind, 0, <<>>) /\ \A k \in 1 .. n : s[k + 1] = r[k]
  BY <1>2, <1>4, <1>41, HeadedIs
<1>6. IsForest(s) /\ s[1].lines = <<>> /\ \A k \in 1 .. n : s[k + 1].lines = C[k]
  <2>1. n \in Nat /\ \A k \in 1 .. n : C[k] \in Seq(Nat) /\ Rising(C[k])
    BY <1>2, <1>3
  <2>2. \A k \in 1 .. n : s[k + 1] = Leaf(item, 1, C[k])
    BY <1>41, <1>51
  <2>3. \A k, m \in 1 .. n : k < m => AllBefore(ToSet(C[k]), ToSet(C[m]))
    BY <1>3
  <2>4. IsForest(s)
    BY <1>42, <1>5, <1>51, <2>1, <2>2, <2>3, FlatIsForest, SMTT(30)
  <2>5. s[1].lines = <<>>
    BY <1>51 DEF Leaf
  <2>6. ASSUME NEW k \in 1 .. n PROVE s[k + 1].lines = C[k]
    <3>1. s[k + 1] = Leaf(item, 1, C[k])
      BY <2>2
    <3> QED BY <3>1 DEF Leaf
  <2> QED BY <2>4, <2>5, <2>6
<1>7. \A x : x \in ToSet(l) <=> \E k \in 1 .. n : l[k] = x
  BY <1>2 DEF ToSet
<1>8. ASSUME NEW k \in 1 .. Len(s) PROVE ToSet(s[k].lines) \subseteq ToSet(l)
  <2>1. CASE k = 1
    BY <1>6, <2>1, NoLines
  <2>2. CASE k # 1
    <3>1. k - 1 \in 1 .. n /\ (k - 1) + 1 = k
      BY <1>2, <1>51, <2>2
    <3>2. s[k].lines = C[k - 1]
      BY <1>6, <3>1
    <3> QED BY <1>3, <1>7, <3>1, <3>2
  <2> QED BY <2>1, <2>2
<1>9. ASSUME NEW x \in ToSet(l) PROVE \E k \in 1 .. Len(s) : x \in ToSet(s[k].lines)
  <2>1. PICK k \in 1 .. n : l[k] = x
    BY <1>7
  <2>2. k + 1 \in 1 .. Len(s)
    BY <1>2, <1>51
  <2> QED BY <1>3, <1>6, <2>1, <2>2
<1> QED BY <1>6, <1>8, <1>9 DEF TreeHas, s, l

LEMMA LinesHas ==
  ASSUME NEW t, NEW b, b.lines \in Seq(Nat), Rising(b.lines), b.kind \in {"p", "pre"}
  PROVE  TreeHas(t, b, Tree(t, b))
<1> DEFINE s == Tree(t, b)
           kind == b.kind
           l == b.lines
<1>1. s = <<Leaf(kind, 0, l)>>
  BY DEF Tree
<1>2. kind \in Innermost
  BY DEF Innermost
<1>3. l \in Seq(Nat) /\ Rising(l)
  OBVIOUS
<1> HIDE DEF s, kind, l
<1>4. IsForest(s) /\ Len(s) = 1 /\ s[1].lines = l
  BY <1>1, <1>2, <1>3, LeafIsForest
<1>5. \A k \in 1 .. Len(s) : k = 1
  BY <1>4
<1>6. 1 \in 1 .. Len(s)
  BY <1>4
<1> QED BY <1>4, <1>5, <1>6 DEF TreeHas, s, l

\* Where the paragraphs of a quote start, and where they end.
IsStart(t, i, a) == t[a] = "quote" /\ (a = i \/ t[a - 1] # "quote")

AreStarts(t, i, e, starts) ==
  /\ starts \in Seq(Nat) /\ Rising(starts)
  /\ \A k \in 1 .. Len(starts) : starts[k] \in i .. e - 1 /\ IsStart(t, i, starts[k])
  /\ \A a \in i .. e - 1 : IsStart(t, i, a) => \E k \in 1 .. Len(starts) : starts[k] = a

LEMMA StartsAre ==
  ASSUME NEW t, NEW i \in Nat, NEW e \in Nat, i < e, NEW l, l = Lines(i, e)
  PROVE  AreStarts(t, i, e, QuotedStarts(t, l))
<1> DEFINE S == {j \in ToSet(l) : t[j] = "quote" /\ (j = l[1] \/ t[j - 1] # "quote")}
           starts == QuotedStarts(t, l)
<1>1. /\ l \in Seq(Nat) /\ Rising(l) /\ ToSet(l) = i .. e - 1
      /\ Len(l) = (IF e > i THEN e - i ELSE 0)
      /\ \A k \in DOMAIN l : l[k] = i + k - 1
  BY LinesIs
<1>2. Len(l) \in Nat /\ DOMAIN l = 1 .. Len(l) /\ 1 \in DOMAIN l /\ l[1] = i
  <2>1. Len(l) = e - i /\ DOMAIN l = 1 .. Len(l)
    BY <1>1
  <2>2. 1 \in DOMAIN l
    BY <2>1
  <2> QED BY <1>1, <2>1, <2>2
<1>3. \A a : a \in S <=> a \in i .. e - 1 /\ IsStart(t, i, a)
  BY <1>1, <1>2 DEF IsStart
<1>4. starts = Filtered(l, S)
  BY DEF QuotedStarts
<1> HIDE DEF S, starts
<1>5. starts \in Seq(Nat) /\ ToSet(starts) = ToSet(l) \cap S
  BY <1>1, <1>4, FilteredIs
<1>6. PICK f : Picked(starts, l, S, Len(l), f)
  BY <1>1, <1>4, FilteredPicks
<1>7. Len(starts) \in Nat /\ DOMAIN starts = 1 .. Len(starts)
  BY <1>5
<1>8. \A a : a \in ToSet(starts) <=> \E k \in 1 .. Len(starts) : starts[k] = a
  BY <1>7 DEF ToSet
<1>9. Rising(starts)
  <2>1. ASSUME NEW k \in 1 .. Len(starts), NEW m \in 1 .. Len(starts), k < m PROVE starts[k] < starts[m]
    <3>1. f[k] \in 1 .. Len(l) /\ f[m] \in 1 .. Len(l) /\ f[k] < f[m] /\ starts[k] = l[f[k]] /\ starts[m] = l[f[m]]
      BY <1>6, <2>1 DEF Picked
    <3> QED BY <1>1, <1>2, <3>1 DEF Rising
  <2> QED BY <1>7, <2>1 DEF Rising
<1>10. \A k \in 1 .. Len(starts) : starts[k] \in i .. e - 1 /\ IsStart(t, i, starts[k])
  BY <1>3, <1>5, <1>8
<1>11. \A a \in i .. e - 1 : IsStart(t, i, a) => \E k \in 1 .. Len(starts) : starts[k] = a
  BY <1>1, <1>3, <1>5, <1>8
<1> QED BY <1>5, <1>9, <1>10, <1>11 DEF starts, AreStarts

LEMMA QuoteHas ==
  ASSUME NEW t \in Seq(LineKinds), NEW i \in DOMAIN t, NEW b, IsBlock(t, i, b), b.kind = "blockquote"
  PROVE  TreeHas(t, b, Tree(t, b))
<1> DEFINE e == b.next
           l == b.lines
           starts == QuotedStarts(t, l)
           n == Len(starts)
           end(a) == FirstOf(t, a, LineKinds \ {"quote"})
           C == [k \in DOMAIN starts |-> Lines(starts[k], end(starts[k]))]
           kind == b.kind
           item == "p"
           r == [k \in 1 .. n |-> Leaf(item, 1, C[k])]
           s == Tree(t, b)
<1>1. /\ l = Lines(i, e) /\ e \in 1 .. Len(t) + 1 /\ i < e /\ (e = Len(t) + 1 \/ t[e] \notin Quotes)
      /\ \A j \in i .. e - 1 : t[j] \in Quotes
  BY DEF IsBlock
<1>2. Len(t) \in Nat /\ DOMAIN t = 1 .. Len(t) /\ i \in Nat /\ e \in Nat /\ \A j \in DOMAIN t : t[j] \in LineKinds
  BY <1>1
<1>3. ToSet(l) = i .. e - 1
  BY <1>1, <1>2, LinesIs
<1>4. s = <<Leaf("blockquote", 0, <<>>)>> \o [k \in DOMAIN starts |-> Leaf("p", 1, Lines(starts[k], end(starts[k])))]
  BY DEF Tree
<1> HIDE DEF starts, s, l, e
<1>5. /\ starts \in Seq(Nat) /\ Rising(starts)
      /\ \A k \in 1 .. n : starts[k] \in i .. e - 1 /\ IsStart(t, i, starts[k])
      /\ \A a \in i .. e - 1 : IsStart(t, i, a) => \E k \in 1 .. n : starts[k] = a
  <2>1. i \in Nat /\ e \in Nat /\ i < e /\ l = Lines(i, e)
    BY <1>1, <1>2
  <2>2. AreStarts(t, i, e, starts)
    BY <2>1, StartsAre DEF starts
  <2> QED BY <2>2 DEF AreStarts, n
<1>6. n \in Nat /\ DOMAIN starts = 1 .. n /\ \A k \in 1 .. n : starts[k] \in Nat /\ C[k] = Lines(starts[k], end(starts[k]))
  BY <1>5
<1>7. s = <<Leaf(kind, 0, <<>>)>> \o r
  <2>1. [k \in DOMAIN starts |-> Leaf("p", 1, Lines(starts[k], end(starts[k])))] = r
    BY <1>6
  <2> QED BY <1>4, <2>1
<1>8. r = [k \in 1 .. n |-> r[k]] /\ \A k \in 1 .. n : r[k] = Leaf(item, 1, C[k])
  OBVIOUS
<1>9. item \in Innermost /\ kind \in Outer
  BY DEF Innermost, Outer
<1> HIDE DEF n, C, r, item, kind
<1>10. ASSUME NEW a \in i .. e - 1
       PROVE  /\ end(a) \in a .. e
              /\ \A j \in a .. end(a) - 1 : t[j] = "quote"
              /\ end(a) # e => t[end(a)] # "quote"
  <2>1. a \in 1 .. Len(t) + 1
    BY <1>1, <1>2
  <2>2. /\ end(a) \in a .. Len(t) + 1 /\ (end(a) = Len(t) + 1 \/ t[end(a)] \in LineKinds \ {"quote"})
        /\ \A j \in a .. end(a) - 1 : t[j] \notin LineKinds \ {"quote"}
    BY <1>2, <2>1, FirstOfIs
  <2> HIDE DEF end
  <2>3. \A j \in a .. end(a) - 1 : t[j] = "quote"
    BY <1>2, <2>1, <2>2
  <2>4. end(a) <= e
    <3> SUFFICES ASSUME e < end(a) PROVE FALSE
      BY <1>2, <2>1, <2>2
    <3>1. e \in a .. end(a) - 1 /\ e # Len(t) + 1
      BY <1>2, <2>1, <2>2
    <3>2. t[e] = "quote"
      BY <2>3, <3>1
    <3> QED BY <1>1, <3>1, <3>2 DEF Quotes
  <2>5. end(a) # e => end(a) # Len(t) + 1
    BY <1>1, <1>2, <2>1, <2>2, <2>4
  <2>6. end(a) \in a .. e
    BY <1>2, <2>1, <2>2, <2>4
  <2> QED BY <2>2, <2>3, <2>5, <2>6
<1> HIDE DEF end
<1>11. ASSUME NEW k \in 1 .. n
       PROVE  /\ C[k] \in Seq(Nat) /\ Rising(C[k]) /\ ToSet(C[k]) = starts[k] .. end(starts[k]) - 1
  <2>1. starts[k] \in Nat /\ starts[k] \in i .. e - 1
    BY <1>5, <1>6
  <2>2. end(starts[k]) \in starts[k] .. e
    BY <1>10, <2>1
  <2>3. end(starts[k]) \in Nat
    BY <1>2, <2>1, <2>2
  <2> QED BY <1>6, <2>1, <2>3, LinesIs
<1>12. ASSUME NEW k \in 1 .. n, NEW m \in 1 .. n, k < m PROVE end(starts[k]) <= starts[m]
  <2>1. starts[k] < starts[m] /\ starts[k] \in i .. e - 1 /\ starts[m] \in i .. e - 1
    BY <1>5, <1>6, <1>12 DEF Rising
  <2>2. IsStart(t, i, starts[m])
    BY <1>5
  <2>3. end(starts[k]) \in starts[k] .. e /\ \A j \in starts[k] .. end(starts[k]) - 1 : t[j] = "quote"
    BY <1>10, <2>1
  <2> SUFFICES ASSUME starts[m] < end(starts[k]) PROVE FALSE
    BY <1>2, <2>1, <2>3
  <2>4. starts[m] - 1 \in starts[k] .. end(starts[k]) - 1 /\ starts[m] # i
    BY <1>2, <2>1, <2>3
  <2> QED BY <2>2, <2>3, <2>4 DEF IsStart
<1>13. \A k, m \in 1 .. n : k < m => AllBefore(ToSet(C[k]), ToSet(C[m]))
  <2>1. ASSUME NEW k \in 1 .. n, NEW m \in 1 .. n, k < m, NEW x \in ToSet(C[k]), NEW y \in ToSet(C[m]) PROVE x < y
    <3>1. starts[k] \in i .. e - 1 /\ starts[m] \in i .. e - 1 /\ end(starts[k]) <= starts[m]
      BY <1>5, <1>12, <2>1
    <3>2. end(starts[k]) \in starts[k] .. e
      BY <1>10, <3>1
    <3>3. x \in starts[k] .. end(starts[k]) - 1 /\ y \in starts[m] .. end(starts[m]) - 1
      BY <1>11, <2>1
    <3>4. end(starts[m]) \in starts[m] .. e
      BY <1>10, <3>1
    <3> QED BY <1>2, <3>1, <3>2, <3>3, <3>4
  <2> QED BY <2>1 DEF AllBefore
<1>14. Len(s) = n + 1 /\ DOMAIN s = 1 .. n + 1 /\ s[1] = Leaf(kind, 0, <<>>) /\ \A k \in 1 .. n : s[k + 1] = r[k]
  BY <1>6, <1>7, <1>8, HeadedIs
<1>15. IsForest(s)
  <2>1. n \in Nat /\ \A k \in 1 .. n : C[k] \in Seq(Nat) /\ Rising(C[k])
    BY <1>6, <1>11
  <2>2. \A k \in 1 .. n : s[k + 1] = Leaf(item, 1, C[k])
    BY <1>8, <1>14
  <2>3. item \in Innermost
    BY <1>9
  <2>4. kind \in Outer
    BY <1>9
  <2>5. Len(s) = n + 1 /\ DOMAIN s = 1 .. n + 1 /\ s[1] = Leaf(kind, 0, <<>>)
    BY <1>14
  <2>6. n \in Nat
    BY <1>6
  <2>7. \A k, q \in 1 .. n : k < q => AllBefore(ToSet(C[k]), ToSet(C[q]))
    BY <1>13
  <2>8. (\A k \in 1 .. n : C[k] \in Seq(Nat) /\ Rising(C[k])) /\ (\A k \in 1 .. n : s[k + 1] = Leaf(item, 1, C[k]))
    BY <2>1, <2>2
  <2> HIDE DEF r, starts, n, C, s, kind, item
  <2> QED BY <2>3, <2>4, <2>5, <2>6, <2>7, <2>8, FlatIsForest, ZenonT(40)
<1>16. s[1].lines = <<>>
  BY <1>14 DEF Leaf
<1>17. ASSUME NEW k \in 1 .. n PROVE s[k + 1].lines = C[k]
  <2>1. s[k + 1] = Leaf(item, 1, C[k])
    BY <1>8, <1>14
  <2> QED BY <2>1 DEF Leaf
<1>18. ASSUME NEW k \in 1 .. Len(s) PROVE ToSet(s[k].lines) \subseteq ToSet(l)
  <2>1. CASE k = 1
    BY <1>16, <2>1, NoLines
  <2>2. CASE k # 1
    <3>1. k - 1 \in 1 .. n /\ (k - 1) + 1 = k
      BY <1>6, <1>14, <2>2
    <3>2. s[k].lines = C[k - 1] /\ starts[k - 1] \in i .. e - 1
      BY <1>5, <1>17, <3>1
    <3>3. end(starts[k - 1]) \in starts[k - 1] .. e
      BY <1>10, <3>2
    <3>4. ToSet(C[k - 1]) = starts[k - 1] .. end(starts[k - 1]) - 1
      BY <1>11, <3>1
    <3>5. starts[k - 1] .. end(starts[k - 1]) - 1 \subseteq i .. e - 1
      BY <1>2, <3>2, <3>3
    <3> QED BY <1>3, <3>2, <3>4, <3>5
  <2> QED BY <2>1, <2>2
<1>19. ASSUME NEW x \in ToSet(l) \ MayBeLost(t) PROVE \E k \in 1 .. Len(s) : x \in ToSet(s[k].lines)
  <2> DEFINE A == {a \in i .. x : \A j \in a .. x : t[j] = "quote"}
  <2>1. x \in i .. e - 1 /\ x \in DOMAIN t
    BY <1>1, <1>2, <1>3
  <2>2. t[x] = "quote"
    BY <1>1, <1>19, <2>1, LostIs DEF Quotes
  <2>3. A \in SUBSET Nat /\ x \in A
    BY <1>2, <2>1, <2>2
  <2>4. PICK a \in A : \A c \in A : a <= c
    <3> HIDE DEF A
    <3> QED BY <2>3, LeastOf
  <2>5. a \in i .. x /\ a \in i .. e - 1 /\ \A j \in a .. x : t[j] = "quote"
    BY <1>2, <2>1, <2>4
  <2>6. IsStart(t, i, a)
    <3>1. t[a] = "quote"
      BY <1>2, <2>1, <2>5
    <3>2. ASSUME a # i, t[a - 1] = "quote" PROVE FALSE
      <4>1. a - 1 \in i .. x /\ \A j \in a - 1 .. x : j = a - 1 \/ j \in a .. x
        BY <1>2, <2>1, <2>5, <3>2
      <4>2. a - 1 \in A
        BY <2>5, <3>2, <4>1
      <4> QED BY <1>2, <2>1, <2>4, <2>5, <4>2
    <3> QED BY <3>1, <3>2 DEF IsStart
  <2> HIDE DEF A
  <2>7. PICK k \in 1 .. n : starts[k] = a
    BY <1>5, <2>5, <2>6
  <2>8. end(a) \in a .. e /\ (end(a) # e => t[end(a)] # "quote")
    BY <1>10, <2>5
  <2>9. x \in a .. end(a) - 1
    <3>1. end(a) \in a .. x => FALSE
      BY <1>2, <2>1, <2>5, <2>8
    <3> QED BY <1>2, <2>1, <2>5, <2>8, <3>1
  <2>10. x \in ToSet(C[k])
    BY <1>11, <2>7, <2>9
  <2>11. k + 1 \in 1 .. Len(s)
    BY <1>6, <1>14
  <2> QED BY <1>17, <2>7, <2>10, <2>11
<1>20. TreeHas(t, b, s)
  BY <1>15, <1>18, <1>19 DEF TreeHas, l
<1> QED BY <1>20 DEF s
LEMMA HalfIs ==
  ASSUME NEW n \in Nat, NEW p \in 2 .. 2 * n + 3
  PROVE  \E m \in 0 .. n : p = 2 * m + 2 \/ p = 2 * m + 3
<1> DEFINE m == (p - 2) \div 2
<1>1. m \in Nat /\ (p = 2 * m + 2 \/ p = 2 * m + 3)
  OBVIOUS
<1> HIDE DEF m
<1>2. m \in 0 .. n
  BY <1>1
<1> QED BY <1>1, <1>2

\* A table: pairs of a row and its cell, the cell with a line of h.
IsTable(s, n, h) ==
  /\ Len(s) = 2 * n + 3 /\ DOMAIN s = 1 .. 2 * n + 3
  /\ s[1].type \in Outer /\ s[1].up = 0 /\ s[1].lines = <<>>
  /\ \A m \in 0 .. n : /\ s[2 * m + 2].type \in Inner /\ s[2 * m + 2].up = 1 /\ s[2 * m + 2].lines = <<>>
                       /\ s[2 * m + 3].type \in Innermost /\ s[2 * m + 3].up = 2 * m + 2
                       /\ s[2 * m + 3].lines = <<h[m + 1]>>

LEMMA TableIsForest ==
  ASSUME NEW n \in Nat, NEW h \in Seq(Nat), Rising(h), Len(h) = n + 1, NEW s, IsTable(s, n, h)
  PROVE  IsForest(s)
<1> DEFINE N == 2 * n + 3
<1>1. Len(s) = N /\ DOMAIN s = 1 .. N /\ s[1].type \in Outer /\ s[1].up = 0 /\ s[1].lines = <<>>
  BY DEF IsTable
<1>2. ASSUME NEW m \in 0 .. n
      PROVE  /\ s[2 * m + 2].type \in Inner /\ s[2 * m + 2].up = 1 /\ s[2 * m + 2].lines = <<>>
             /\ s[2 * m + 3].type \in Innermost /\ s[2 * m + 3].up = 2 * m + 2 /\ s[2 * m + 3].lines = <<h[m + 1]>>
             /\ m + 1 \in DOMAIN h /\ h[m + 1] \in Nat
  <2>1. m + 1 \in DOMAIN h /\ h[m + 1] \in Nat
    OBVIOUS
  <2> QED BY <2>1 DEF IsTable
<1>3. \A p \in 1 .. N : p = 1 \/ \E m \in 0 .. n : p = 2 * m + 2 \/ p = 2 * m + 3
  <2>1. \A p \in 1 .. N : p = 1 \/ p \in 2 .. N
    OBVIOUS
  <2> QED BY <2>1, HalfIs
<1>4. ASSUME NEW x \in Nat PROVE <<x>> \in Seq(Nat) /\ Rising(<<x>>) /\ ToSet(<<x>>) = {x}
  BY DEF Rising, ToSet
<1>5. /\ \A x \in Outer : Depth(x) = 1
      /\ \A x \in Inner : Depth(x) = 2
      /\ \A x \in Innermost : Depth(x) = 3
  BY DEF Depth, Outer, Inner, Innermost
<1>6. ASSUME NEW k \in 1 .. N
      PROVE  /\ s[k].type \in Outer \cup Inner \cup Innermost /\ s[k].up \in 0 .. k - 1
             /\ s[k].lines \in Seq(Nat) /\ Rising(s[k].lines)
             /\ s[k].up # 0 => Depth(s[s[k].up].type) < Depth(s[k].type)
  <2>1. CASE k = 1
    <3>1. 0 \in 0 .. k - 1
      BY <2>1
    <3> QED BY <1>1, <2>1, <3>1, NoLines
  <2>2. ASSUME NEW m \in 0 .. n, k = 2 * m + 2
        PROVE  /\ s[k].type \in Outer \cup Inner \cup Innermost /\ s[k].up \in 0 .. k - 1
               /\ s[k].lines \in Seq(Nat) /\ Rising(s[k].lines)
               /\ s[k].up # 0 => Depth(s[s[k].up].type) < Depth(s[k].type)
    <3>1. s[k].type \in Inner /\ s[k].up = 1 /\ s[k].lines = <<>>
      BY <1>2, <2>2
    <3>2. 1 \in 0 .. k - 1
      BY <2>2
    <3>3. Depth(s[1].type) = 1 /\ Depth(s[k].type) = 2
      BY <1>1, <1>5, <3>1
    <3> QED BY <3>1, <3>2, <3>3, NoLines
  <2>3. ASSUME NEW m \in 0 .. n, k = 2 * m + 3
        PROVE  /\ s[k].type \in Outer \cup Inner \cup Innermost /\ s[k].up \in 0 .. k - 1
               /\ s[k].lines \in Seq(Nat) /\ Rising(s[k].lines)
               /\ s[k].up # 0 => Depth(s[s[k].up].type) < Depth(s[k].type)
    <3>1. /\ s[k].type \in Innermost /\ s[k].up = 2 * m + 2 /\ s[k].lines = <<h[m + 1]>> /\ h[m + 1] \in Nat
          /\ s[2 * m + 2].type \in Inner
      BY <1>2, <2>3
    <3>2. s[k].up \in 0 .. k - 1
      BY <2>3, <3>1
    <3>3. Depth(s[s[k].up].type) = 2 /\ Depth(s[k].type) = 3
      BY <1>5, <3>1
    <3>4. s[k].lines \in Seq(Nat) /\ Rising(s[k].lines)
      BY <1>4, <3>1
    <3> QED BY <3>1, <3>2, <3>3, <3>4
  <2> QED BY <1>3, <2>1, <2>2, <2>3
<1>7. \A k \in 1 .. N : (s[k].up = 0 /\ k = 1) \/ (s[k].up = 1 /\ k > 1) \/ (s[k].up = k - 1 /\ k > 1)
  <2>1. ASSUME NEW m \in 0 .. n PROVE (2 * m + 3) - 1 = 2 * m + 2 /\ 2 * m + 3 > 1 /\ 2 * m + 2 > 1
    OBVIOUS
  <2>2. ASSUME NEW k \in 1 .. N PROVE (s[k].up = 0 /\ k = 1) \/ (s[k].up = 1 /\ k > 1) \/ (s[k].up = k - 1 /\ k > 1)
    <3>1. CASE k = 1
      <4>1. s[k].up = 0
        BY <1>1, <3>1
      <4> QED BY <3>1, <4>1
    <3>2. CASE k # 1
      <4>1. PICK m \in 0 .. n : k = 2 * m + 2 \/ k = 2 * m + 3
        BY <1>3, <3>2
      <4>2. k = 2 * m + 2 => s[k].up = 1 /\ k > 1
        BY <1>2, <2>1
      <4>3. k = 2 * m + 3 => s[k].up = k - 1 /\ k > 1
        BY <1>2, <2>1
      <4> QED BY <4>1, <4>2, <4>3
    <3> QED BY <3>1, <3>2
  <2> QED BY <2>2
<1>8. ASSUME NEW k \in 1 .. N, NEW l \in 1 .. N, s[l].up < k, k < l PROVE s[l].up <= s[k].up
  <2>1. s[l].up = 1 /\ k > 1
    BY <1>7, <1>8
  <2>2. s[k].up = 1 \/ s[k].up = k - 1
    BY <1>7, <2>1
  <2> QED BY <2>1, <2>2
<1>9. ASSUME NEW k \in 1 .. N, NEW l \in 1 .. N, k < l, NEW x \in ToSet(s[k].lines), NEW y \in ToSet(s[l].lines) PROVE x < y
  <2>1. ASSUME NEW p \in 1 .. N, NEW z \in ToSet(s[p].lines) PROVE \E m \in 0 .. n : p = 2 * m + 3 /\ z = h[m + 1]
    <3>1. s[p].lines # <<>>
      BY <2>1, NoLines
    <3>2. PICK m \in 0 .. n : p = 2 * m + 2 \/ p = 2 * m + 3
      BY <1>1, <1>3, <3>1
    <3>3. p = 2 * m + 3
      BY <1>2, <3>1, <3>2
    <3>4. s[p].lines = <<h[m + 1]>> /\ h[m + 1] \in Nat
      BY <1>2, <3>3
    <3>5. z = h[m + 1]
      BY <1>4, <2>1, <3>4
    <3> QED BY <3>3, <3>5
  <2>2. PICK m \in 0 .. n : k = 2 * m + 3 /\ x = h[m + 1]
    BY <1>9, <2>1
  <2>3. PICK q \in 0 .. n : l = 2 * q + 3 /\ y = h[q + 1]
    BY <1>9, <2>1
  <2>4. m + 1 < q + 1
    BY <1>9, <2>2, <2>3
  <2> QED BY <1>2, <2>2, <2>3, <2>4 DEF Rising
<1>10. IsForest(s)
  <2>1. \A k, l \in 1 .. N : k < l => AllBefore(ToSet(s[k].lines), ToSet(s[l].lines))
    BY <1>9 DEF AllBefore
  <2>2. N \in Nat
    OBVIOUS
  <2> HIDE DEF N
  <2> QED BY <1>1, <1>6, <1>8, <2>1, <2>2 DEF IsForest
<1> QED BY <1>10

LEMMA TableHas ==
  ASSUME NEW t, NEW b, b.lines \in Seq(Nat), Rising(b.lines), Len(b.lines) >= 1, b.kind = "table"
  PROVE  TreeHas(t, b, Tree(t, b))
<1> DEFINE h == b.lines
           n == Len(h) - 1
           s == Tree(t, b)
           a == <<Leaf("table", 0, <<>>), Leaf("thead", 1, <<>>), Leaf("th", 2, <<h[1]>>)>>
           r == [k \in 1 .. 2 * n |-> IF k % 2 = 1 THEN Leaf("tr", 1, <<>>) ELSE Leaf("td", k + 2, <<h[1 + k \div 2]>>)]
           T == {a[k] : k \in 1 .. 3} \cup {r[k] : k \in 1 .. 2 * n}
<1>1. s = a \o r
  BY DEF Tree
<1>2. n \in Nat /\ Len(h) = n + 1 /\ h \in Seq(Nat) /\ Rising(h) /\ DOMAIN h = 1 .. n + 1
  OBVIOUS
<1>3. ASSUME NEW m \in 1 .. n
      PROVE  r[2 * m - 1] = Leaf("tr", 1, <<>>) /\ r[2 * m] = Leaf("td", 2 * m + 2, <<h[m + 1]>>)
  <2>1. 2 * m - 1 \in 1 .. 2 * n /\ (2 * m - 1) % 2 = 1
    BY <1>2
  <2>2. 2 * m \in 1 .. 2 * n /\ (2 * m) % 2 = 0 /\ (2 * m) \div 2 = m /\ 1 + m = m + 1
    BY <1>2
  <2> QED BY <2>1, <2>2
<1>4. a \in Seq(T) /\ Len(a) = 3
  OBVIOUS
<1>5. r \in Seq(T) /\ Len(r) = 2 * n
  <2>1. r \in [1 .. 2 * n -> T] /\ 2 * n \in Nat
    <3>1. \A k \in 1 .. 2 * n : r[k] \in T
      BY <1>2
    <3> QED BY <1>2, <3>1
  <2> HIDE DEF r, T
  <2> QED BY <2>1
<1>6. a[1] = Leaf("table", 0, <<>>) /\ a[2] = Leaf("thead", 1, <<>>) /\ a[3] = Leaf("th", 2, <<h[1]>>)
  OBVIOUS
<1> HIDE DEF n, h, r, a, T, s
<1>7. /\ Len(s) = 2 * n + 3 /\ DOMAIN s = 1 .. 2 * n + 3
      /\ s[1] = a[1] /\ s[2] = a[2] /\ s[3] = a[3] /\ \A k \in 4 .. 2 * n + 3 : s[k] = r[k - 3]
  <2>1. /\ Len(s) = Len(a) + Len(r) /\ \A k \in 1 .. Len(a) : s[k] = a[k]
        /\ \A k \in Len(a) + 1 .. Len(a) + Len(r) : s[k] = r[k - Len(a)]
        /\ s \in Seq(T)
    <3>1. ASSUME NEW u \in Seq(T), NEW v \in Seq(T)
          PROVE  /\ Len(u \o v) = Len(u) + Len(v) /\ \A k \in 1 .. Len(u) : (u \o v)[k] = u[k]
                 /\ \A k \in Len(u) + 1 .. Len(u) + Len(v) : (u \o v)[k] = v[k - Len(u)]
                 /\ u \o v \in Seq(T)
      OBVIOUS
    <3> QED BY <1>1, <1>4, <1>5, <3>1
  <2>2. Len(s) = 2 * n + 3 /\ DOMAIN s = 1 .. 2 * n + 3
    BY <1>2, <1>4, <1>5, <2>1
  <2>3. \A k \in 4 .. 2 * n + 3 : s[k] = r[k - 3]
    BY <1>2, <1>4, <1>5, <2>1
  <2> QED BY <1>4, <2>1, <2>2, <2>3
<1>8. s[1].type \in Outer /\ s[1].up = 0 /\ s[1].lines = <<>>
  BY <1>6, <1>7 DEF Leaf, Outer
<1>9. ASSUME NEW m \in 0 .. n
      PROVE  /\ s[2 * m + 2].type \in Inner /\ s[2 * m + 2].up = 1 /\ s[2 * m + 2].lines = <<>>
             /\ s[2 * m + 3].type \in Innermost /\ s[2 * m + 3].up = 2 * m + 2
             /\ s[2 * m + 3].lines = <<h[m + 1]>>
  <2>1. CASE m = 0
    <3>1. s[2 * m + 2] = Leaf("thead", 1, <<>>) /\ s[2 * m + 3] = Leaf("th", 2, <<h[1]>>) /\ 2 * m + 2 = 2 /\ m + 1 = 1
      BY <1>6, <1>7, <2>1
    <3>2. "thead" \in Inner /\ "th" \in Innermost
      BY DEF Inner, Innermost
    <3>3. s[2 * m + 2].type \in Inner /\ s[2 * m + 2].up = 1 /\ s[2 * m + 2].lines = <<>>
      BY <3>1, <3>2 DEF Leaf
    <3>4. s[2 * m + 3].type \in Innermost /\ s[2 * m + 3].up = 2 /\ s[2 * m + 3].lines = <<h[1]>>
      BY <3>1, <3>2 DEF Leaf
    <3> QED BY <3>1, <3>3, <3>4
  <2>2. CASE m \in 1 .. n
    <3>1. 2 * m + 2 \in 4 .. 2 * n + 3 /\ 2 * m + 3 \in 4 .. 2 * n + 3 /\ (2 * m + 2) - 3 = 2 * m - 1 /\ (2 * m + 3) - 3 = 2 * m
      BY <1>2, <2>2
    <3>2. s[2 * m + 2] = Leaf("tr", 1, <<>>) /\ s[2 * m + 3] = Leaf("td", 2 * m + 2, <<h[m + 1]>>)
      BY <1>3, <1>7, <2>2, <3>1
    <3> QED BY <3>2 DEF Leaf, Inner, Innermost
  <2>3. m = 0 \/ m \in 1 .. n
    BY <1>2
  <2> QED BY <2>1, <2>2, <2>3
<1>10. IsTable(s, n, h)
  BY <1>7, <1>8, <1>9 DEF IsTable
<1>11. IsForest(s)
  BY <1>2, <1>10, TableIsForest
<1>12. ASSUME NEW x \in Nat PROVE ToSet(<<x>>) = {x}
  BY DEF ToSet
<1>13. \A x : x \in ToSet(h) <=> \E k \in 1 .. n + 1 : h[k] = x
  BY <1>2 DEF ToSet
<1>14. \A m \in 0 .. n : m + 1 \in 1 .. n + 1 /\ h[m + 1] \in Nat /\ ToSet(s[2 * m + 3].lines) = {h[m + 1]} /\ 2 * m + 3 \in 1 .. Len(s)
  <2>1. ASSUME NEW m \in 0 .. n PROVE m + 1 \in 1 .. n + 1 /\ h[m + 1] \in Nat /\ 2 * m + 3 \in 1 .. Len(s)
    BY <1>2, <1>7, SMTT(30)
  <2> QED BY <1>9, <1>12, <2>1
<1>15. ASSUME NEW k \in 1 .. Len(s) PROVE ToSet(s[k].lines) \subseteq ToSet(h)
  <2>1. CASE k = 1
    BY <1>8, <2>1, NoLines
  <2>2. CASE k # 1
    <3>1. k \in 2 .. 2 * n + 3
      BY <1>2, <1>7, <2>2
    <3>2. PICK m \in 0 .. n : k = 2 * m + 2 \/ k = 2 * m + 3
      BY <1>2, <3>1, HalfIs
    <3>3. k = 2 * m + 2 => ToSet(s[k].lines) = {}
      BY <1>9, NoLines
    <3>4. k = 2 * m + 3 => ToSet(s[k].lines) = {h[m + 1]} /\ h[m + 1] \in ToSet(h)
      BY <1>13, <1>14
    <3> QED BY <3>2, <3>3, <3>4
  <2> QED BY <2>1, <2>2
<1>16. ASSUME NEW x \in ToSet(h) PROVE \E k \in 1 .. Len(s) : x \in ToSet(s[k].lines)
  <2>1. PICK k \in 1 .. n + 1 : h[k] = x
    BY <1>13
  <2>2. k - 1 \in 0 .. n /\ (k - 1) + 1 = k
    BY <1>2
  <2> QED BY <1>14, <2>1, <2>2
<1>17. TreeHas(t, b, s)
  BY <1>11, <1>15, <1>16 DEF TreeHas, h
<1> QED BY <1>17 DEF s

LEMMA TreeIs ==
  ASSUME NEW t \in Seq(LineKinds), NEW i \in DOMAIN t, NEW b, IsBlock(t, i, b), b.kind # "heading"
  PROVE  TreeHas(t, b, Tree(t, b))
<1>1. b.lines \in Seq(Nat) /\ Rising(b.lines)
  BY DEF IsBlock
<1>2. CASE b.kind \in {"p", "pre"}
  BY <1>1, <1>2, LinesHas
<1>3. CASE b.kind \in {"ul", "ol"}
  BY <1>1, <1>3, ListHas
<1>4. CASE b.kind = "blockquote"
  BY <1>4, QuoteHas
<1>5. CASE b.kind = "table"
  <2>1. Len(b.lines) >= 1
    BY <1>5 DEF IsBlock
  <2> QED BY <1>1, <1>5, <2>1, TableHas
<1>6. CASE b.kind \in {"rule", "html"}
  <2>1. Tree(t, b) = <<>> /\ b.lines = <<>>
    BY <1>6 DEF Tree, IsBlock
  <2>2. Len(<<>>) = 0 /\ DOMAIN <<>> = 1 .. 0
    OBVIOUS
  <2>3. TreeHas(t, b, <<>>)
    BY <2>1, <2>2, NoLines DEF TreeHas, IsForest
  <2> QED BY <2>1, <2>3
<1> QED BY <1>2, <1>3, <1>4, <1>5, <1>6 DEF IsBlock

----------------------------------------------------------------------------
(* The outline of a text                                                    *)

\* A list and another one behind it.
LEMMA JoinedIs ==
  ASSUME NEW T, NEW u \in Seq(T), NEW v \in Seq(T)
  PROVE  /\ u \o v \in Seq(T) /\ Len(u \o v) = Len(u) + Len(v) /\ DOMAIN (u \o v) = 1 .. Len(u) + Len(v)
         /\ \A k \in 1 .. Len(u) : (u \o v)[k] = u[k]
         /\ \A k \in 1 .. Len(v) : (u \o v)[Len(u) + k] = v[k]
<1>1. \A k \in 1 .. Len(v) : Len(u) + k \in Len(u) + 1 .. Len(u) + Len(v) /\ (Len(u) + k) - Len(u) = k
  OBVIOUS
<1>2. \A k \in Len(u) + 1 .. Len(u) + Len(v) : (u \o v)[k] = v[k - Len(u)]
  OBVIOUS
<1>3. \A k \in 1 .. Len(v) : (u \o v)[Len(u) + k] = v[k]
  BY <1>1, <1>2
<1>4. /\ u \o v \in Seq(T) /\ Len(u \o v) = Len(u) + Len(v) /\ DOMAIN (u \o v) = 1 .. Len(u) + Len(v)
      /\ \A k \in 1 .. Len(u) : (u \o v)[k] = u[k]
  OBVIOUS
<1> QED BY <1>3, <1>4

\* w is s and behind it r, whose nodes hang under each other as before.
IsPlanted(w, s, r) ==
  /\ Len(w) = Len(s) + Len(r) /\ DOMAIN w = 1 .. Len(s) + Len(r)
  /\ \A k \in 1 .. Len(s) : w[k] = s[k]
  /\ \A k \in 1 .. Len(r) : /\ w[Len(s) + k].type = r[k].type /\ w[Len(s) + k].lines = r[k].lines
                            /\ w[Len(s) + k].up = IF r[k].up = 0 THEN 0 ELSE Len(s) + r[k].up

LEMMA PlantedIsForest ==
  ASSUME NEW s, NEW r, NEW w, IsForest(s), IsForest(r), IsPlanted(w, s, r),
         \A k \in 1 .. Len(s), l \in 1 .. Len(r) : AllBefore(ToSet(s[k].lines), ToSet(r[l].lines))
  PROVE  IsForest(w)
<1> DEFINE n == Len(s)
           m == Len(r)
<1>1. n \in Nat /\ m \in Nat
  BY DEF IsForest
<1>2. /\ Len(w) = n + m /\ DOMAIN w = 1 .. n + m
      /\ \A k \in 1 .. n : w[k] = s[k]
      /\ \A k \in 1 .. m : w[n + k].type = r[k].type /\ w[n + k].lines = r[k].lines
      /\ \A k \in 1 .. m : w[n + k].up = IF r[k].up = 0 THEN 0 ELSE n + r[k].up
  BY DEF IsPlanted
<1>3. /\ \A k \in 1 .. n : /\ s[k].type \in Outer \cup Inner \cup Innermost /\ s[k].up \in 0 .. k - 1
                           /\ s[k].lines \in Seq(Nat) /\ Rising(s[k].lines)
                           /\ s[k].up # 0 => Depth(s[s[k].up].type) < Depth(s[k].type)
      /\ \A k, l \in 1 .. n : s[l].up < k /\ k < l => s[l].up <= s[k].up
      /\ \A k, l \in 1 .. n : k < l => AllBefore(ToSet(s[k].lines), ToSet(s[l].lines))
  BY DEF IsForest
<1>4. /\ \A k \in 1 .. m : /\ r[k].type \in Outer \cup Inner \cup Innermost /\ r[k].up \in 0 .. k - 1
                           /\ r[k].lines \in Seq(Nat) /\ Rising(r[k].lines)
                           /\ r[k].up # 0 => Depth(r[r[k].up].type) < Depth(r[k].type)
      /\ \A k, l \in 1 .. m : r[l].up < k /\ k < l => r[l].up <= r[k].up
      /\ \A k, l \in 1 .. m : k < l => AllBefore(ToSet(r[k].lines), ToSet(r[l].lines))
  BY DEF IsForest
<1>5. \A k \in 1 .. n, l \in 1 .. m : AllBefore(ToSet(s[k].lines), ToSet(r[l].lines))
  OBVIOUS
<1> HIDE DEF n, m
<1>6. ASSUME NEW k \in 1 .. n + m PROVE k \in 1 .. n \/ (k - n \in 1 .. m /\ k = n + (k - n))
  BY <1>1
<1>7. ASSUME NEW k \in 1 .. n + m
      PROVE  /\ w[k].type \in Outer \cup Inner \cup Innermost /\ w[k].up \in 0 .. k - 1
             /\ w[k].lines \in Seq(Nat) /\ Rising(w[k].lines)
             /\ w[k].up # 0 => Depth(w[w[k].up].type) < Depth(w[k].type)
  <2>1. CASE k \in 1 .. n
    <3>1. w[k] = s[k]
      BY <1>2, <2>1
    <3>2. s[k].up # 0 => w[s[k].up] = s[s[k].up]
      <4>1. s[k].up # 0 => s[k].up \in 1 .. n
        BY <1>1, <1>3, <2>1
      <4> QED BY <1>2, <4>1
    <3> QED BY <1>3, <2>1, <3>1, <3>2
  <2>2. ASSUME NEW c \in 1 .. m, k = n + c
        PROVE  /\ w[k].type \in Outer \cup Inner \cup Innermost /\ w[k].up \in 0 .. k - 1
               /\ w[k].lines \in Seq(Nat) /\ Rising(w[k].lines)
               /\ w[k].up # 0 => Depth(w[w[k].up].type) < Depth(w[k].type)
    <3>1. w[k].type = r[c].type /\ w[k].lines = r[c].lines /\ w[k].up = IF r[c].up = 0 THEN 0 ELSE n + r[c].up
      BY <1>2, <2>2
    <3>2. r[c].up \in 0 .. c - 1 /\ (r[c].up # 0 => r[c].up \in 1 .. m)
      BY <1>1, <1>4
    <3>3. w[k].up \in 0 .. k - 1
      BY <1>1, <2>2, <3>1, <3>2
    <3>4. w[k].up # 0 => r[c].up # 0 /\ w[w[k].up].type = r[r[c].up].type
      <4>1. w[k].up # 0 => r[c].up # 0 /\ w[k].up = n + r[c].up
        BY <3>1
      <4> QED BY <1>2, <3>2, <4>1
    <3> QED BY <1>4, <3>1, <3>3, <3>4
  <2> QED BY <1>6, <2>1, <2>2
<1>8. ASSUME NEW k \in 1 .. n + m, NEW l \in 1 .. n + m, w[l].up < k, k < l PROVE w[l].up <= w[k].up
  <2>1. CASE l \in 1 .. n
    <3>1. k \in 1 .. n
      BY <1>1, <1>8, <2>1
    <3> QED BY <1>2, <1>3, <1>8, <2>1, <3>1
  <2>2. CASE l - n \in 1 .. m /\ l = n + (l - n)
    <3>1. w[l].up = IF r[l - n].up = 0 THEN 0 ELSE n + r[l - n].up
      BY <1>2, <2>2
    <3>2. CASE r[l - n].up = 0
      <4>1. w[k].up \in 0 .. k - 1
        BY <1>7
      <4> QED BY <3>1, <3>2, <4>1
    <3>3. CASE r[l - n].up # 0
      <4>1. w[l].up = n + r[l - n].up /\ r[l - n].up \in Nat
        BY <1>4, <2>2, <3>1, <3>3
      <4>2. k - n \in 1 .. m /\ k = n + (k - n) /\ r[l - n].up < k - n /\ k - n < l - n
        BY <1>1, <1>8, <2>2, <4>1
      <4>3. r[l - n].up <= r[k - n].up /\ r[k - n].up \in Nat
        BY <1>4, <2>2, <4>2
      <4>4. r[k - n].up # 0
        BY <3>3, <4>1, <4>3
      <4>5. w[k].up = n + r[k - n].up
        BY <1>2, <4>2, <4>4
      <4> QED BY <1>1, <4>1, <4>3, <4>5
    <3> QED BY <3>2, <3>3
  <2> QED BY <1>6, <2>1, <2>2
<1>9. ASSUME NEW k \in 1 .. n + m, NEW l \in 1 .. n + m, k < l PROVE AllBefore(ToSet(w[k].lines), ToSet(w[l].lines))
  <2>1. CASE l \in 1 .. n
    <3>1. k \in 1 .. n
      BY <1>1, <1>9, <2>1
    <3> QED BY <1>2, <1>3, <1>9, <2>1, <3>1
  <2>2. CASE l - n \in 1 .. m /\ l = n + (l - n)
    <3>1. w[l].lines = r[l - n].lines
      BY <1>2, <2>2
    <3>2. CASE k \in 1 .. n
      BY <1>2, <1>5, <2>2, <3>1, <3>2
    <3>3. CASE k - n \in 1 .. m /\ k = n + (k - n)
      <4>1. w[k].lines = r[k - n].lines
        BY <1>2, <3>3
      <4>2. k - n < l - n
        BY <1>1, <1>9
      <4> QED BY <1>4, <2>2, <3>1, <3>3, <4>1, <4>2
    <3> QED BY <1>6, <3>2, <3>3
  <2> QED BY <1>6, <2>1, <2>2
<1>10. n + m \in Nat
  BY <1>1
<1> QED BY <1>2, <1>7, <1>8, <1>9, <1>10 DEF IsForest

OutlineLeaves == [type : Outer \cup Inner \cup Innermost, lines : Seq(Nat), section : Nat, up : Nat]
OutlineSet == [at : Nat, heads : Seq(Seq(Nat)), leaves : Seq(OutlineLeaves)]

\* Under its headings an outline has the lines before at, in their order.
HasHeads(o) ==
  /\ \A n \in DOMAIN o.heads : Rising(o.heads[n]) /\ \A x \in ToSet(o.heads[n]) : x < o.at
  /\ \A n, m \in DOMAIN o.heads : n < m => AllBefore(ToSet(o.heads[n]), ToSet(o.heads[m]))

HasLeaves(o) ==
  /\ IsForest(o.leaves)
  /\ \A k \in DOMAIN o.leaves : /\ o.leaves[k].section <= Len(o.heads)
                                /\ \A x \in ToSet(o.leaves[k].lines) : x < o.at
                                /\ o.leaves[k].up # 0 => o.leaves[o.leaves[k].up].section = o.leaves[k].section
  /\ \A k, l \in DOMAIN o.leaves : k < l => o.leaves[k].section <= o.leaves[l].section

HeadsBetween(o) ==
  \A k \in DOMAIN o.leaves, n \in DOMAIN o.heads :
     IF n <= o.leaves[k].section THEN AllBefore(ToSet(o.heads[n]), ToSet(o.leaves[k].lines))
     ELSE AllBefore(ToSet(o.leaves[k].lines), ToSet(o.heads[n]))

IsIn(o, j) == \/ \E k \in DOMAIN o.leaves : j \in ToSet(o.leaves[k].lines)
              \/ \E n \in DOMAIN o.heads : j \in ToSet(o.heads[n])

IsOutline(t, o) ==
  /\ o \in OutlineSet /\ o.at >= 1
  /\ HasHeads(o) /\ HasLeaves(o) /\ HeadsBetween(o)
  /\ \A j \in DOMAIN t : j < o.at /\ j \notin MayBeLost(t) => IsIn(o, j)

LEMMA OutlineIs ==
  ASSUME NEW t, NEW o, IsOutline(t, o)
  PROVE  /\ o.at \in Nat /\ o.at >= 1 /\ o.heads \in Seq(Seq(Nat)) /\ o.leaves \in Seq(OutlineLeaves)
         /\ Len(o.heads) \in Nat /\ DOMAIN o.heads = 1 .. Len(o.heads)
         /\ Len(o.leaves) \in Nat /\ DOMAIN o.leaves = 1 .. Len(o.leaves)
         /\ \A k \in 1 .. Len(o.leaves) : o.leaves[k].section \in 0 .. Len(o.heads)
<1>1. /\ o.at \in Nat /\ o.at >= 1 /\ o.heads \in Seq(Seq(Nat)) /\ o.leaves \in Seq(OutlineLeaves)
  BY DEF IsOutline, OutlineSet
<1>2. /\ Len(o.heads) \in Nat /\ DOMAIN o.heads = 1 .. Len(o.heads)
      /\ Len(o.leaves) \in Nat /\ DOMAIN o.leaves = 1 .. Len(o.leaves)
  BY <1>1
<1>3. ASSUME NEW k \in 1 .. Len(o.leaves) PROVE o.leaves[k].section \in 0 .. Len(o.heads)
  <2>1. o.leaves[k] \in OutlineLeaves
    BY <1>1
  <2>2. o.leaves[k].section \in Nat
    BY <2>1 DEF OutlineLeaves
  <2>3. o.leaves[k].section <= Len(o.heads)
    BY <1>2 DEF IsOutline, HasLeaves
  <2> QED BY <1>2, <2>2, <2>3
<1> QED BY <1>1, <1>2, <1>3

LEMMA BlankKeeps ==
  ASSUME NEW t \in Seq(LineKinds), NEW o, IsOutline(t, o), o.at \in DOMAIN t, t[o.at] = "blank"
  PROVE  IsOutline(t, [o EXCEPT !.at = @ + 1])
<1> DEFINE q == [o EXCEPT !.at = @ + 1]
<1>1. o \in OutlineSet /\ o.at \in Nat
  BY OutlineIs DEF IsOutline
<1>2. q \in OutlineSet /\ q.at = o.at + 1 /\ q.heads = o.heads /\ q.leaves = o.leaves
  BY <1>1 DEF OutlineSet
<1> HIDE DEF q
<1>3. ASSUME NEW L, L \subseteq Nat, \A x \in L : x < o.at PROVE \A x \in L : x < q.at
  BY <1>1, <1>2, <1>3
<1>4. HasHeads(q)
  <2>1. ASSUME NEW n \in DOMAIN o.heads PROVE \A x \in ToSet(o.heads[n]) : x < q.at
    <3>1. ToSet(o.heads[n]) \subseteq Nat
      <4>1. o.heads[n] \in Seq(Nat)
        BY OutlineIs
      <4> QED BY <4>1, ToSetIs
    <3>2. \A x \in ToSet(o.heads[n]) : x < o.at
      BY DEF IsOutline, HasHeads
    <3> QED BY <1>3, <3>1, <3>2
  <2> QED BY <1>2, <2>1 DEF IsOutline, HasHeads
<1>5. HasLeaves(q)
  <2>1. ASSUME NEW k \in DOMAIN o.leaves PROVE \A x \in ToSet(o.leaves[k].lines) : x < q.at
    <3>1. ToSet(o.leaves[k].lines) \subseteq Nat
      <4>1. o.leaves[k] \in OutlineLeaves
        BY OutlineIs
      <4>2. o.leaves[k].lines \in Seq(Nat)
        BY <4>1 DEF OutlineLeaves
      <4> QED BY <4>2, ToSetIs
    <3>2. \A x \in ToSet(o.leaves[k].lines) : x < o.at
      BY DEF IsOutline, HasLeaves
    <3> QED BY <1>3, <3>1, <3>2
  <2> QED BY <1>2, <2>1 DEF IsOutline, HasLeaves
<1>6. HeadsBetween(q)
  BY <1>2 DEF IsOutline, HeadsBetween
<1>7. \A j : IsIn(o, j) <=> IsIn(q, j)
  BY <1>2 DEF IsIn
<1>8. o.at \in MayBeLost(t)
  BY LostIs
<1>9. ASSUME NEW j \in DOMAIN t, j < q.at, j \notin MayBeLost(t) PROVE IsIn(q, j)
  <2>1. j < o.at
    BY <1>1, <1>2, <1>8, <1>9
  <2> QED BY <1>7, <1>9, <2>1 DEF IsOutline
<1>10. q.at >= 1
  BY <1>1, <1>2
<1>11. IsOutline(t, q)
  BY <1>2, <1>4, <1>5, <1>6, <1>9, <1>10 DEF IsOutline
<1> QED BY <1>11 DEF q

\* What is read so far has numbers for lines.
LEMMA ReadLines ==
  ASSUME NEW t, NEW o, IsOutline(t, o)
  PROVE  /\ \A n \in 1 .. Len(o.heads) : /\ o.heads[n] \in Seq(Nat) /\ ToSet(o.heads[n]) \subseteq Nat
                                         /\ \A x \in ToSet(o.heads[n]) : x < o.at
         /\ \A k \in 1 .. Len(o.leaves) : /\ o.leaves[k].lines \in Seq(Nat) /\ ToSet(o.leaves[k].lines) \subseteq Nat
                                          /\ \A x \in ToSet(o.leaves[k].lines) : x < o.at
<1>1. ASSUME NEW n \in 1 .. Len(o.heads)
      PROVE  /\ o.heads[n] \in Seq(Nat) /\ ToSet(o.heads[n]) \subseteq Nat /\ \A x \in ToSet(o.heads[n]) : x < o.at
  <2>1. o.heads[n] \in Seq(Nat) /\ n \in DOMAIN o.heads
    BY OutlineIs
  <2>2. \A x \in ToSet(o.heads[n]) : x < o.at
    BY <2>1 DEF IsOutline, HasHeads
  <2> QED BY <2>1, <2>2, ToSetIs
<1>2. ASSUME NEW k \in 1 .. Len(o.leaves)
      PROVE  /\ o.leaves[k].lines \in Seq(Nat) /\ ToSet(o.leaves[k].lines) \subseteq Nat
             /\ \A x \in ToSet(o.leaves[k].lines) : x < o.at
  <2>1. o.leaves[k] \in OutlineLeaves /\ k \in DOMAIN o.leaves
    BY OutlineIs
  <2>2. o.leaves[k].lines \in Seq(Nat)
    BY <2>1 DEF OutlineLeaves
  <2>3. \A x \in ToSet(o.leaves[k].lines) : x < o.at
    BY <2>1 DEF IsOutline, HasLeaves
  <2> QED BY <2>2, <2>3, ToSetIs
<1> QED BY <1>1, <1>2

LEMMA HeadingKeeps ==
  ASSUME NEW t \in Seq(LineKinds), NEW o, IsOutline(t, o), o.at \in DOMAIN t, NEW b, IsBlock(t, o.at, b), b.kind = "heading"
  PROVE  IsOutline(t, [o EXCEPT !.at = b.next, !.heads = Append(@, b.lines)])
<1> DEFINE q == [o EXCEPT !.at = b.next, !.heads = Append(@, b.lines)]
           N == Len(o.heads)
<1>1. /\ o \in OutlineSet /\ o.at \in Nat /\ o.heads \in Seq(Seq(Nat)) /\ N \in Nat
      /\ Len(o.leaves) \in Nat /\ DOMAIN o.leaves = 1 .. Len(o.leaves)
      /\ \A k \in 1 .. Len(o.leaves) : o.leaves[k].section \in 0 .. N
  BY OutlineIs DEF IsOutline
<1>2. b.next \in Nat /\ b.next > o.at /\ b.lines = <<o.at>> /\ b.lines \in Seq(Nat) /\ Rising(b.lines)
  BY DEF IsBlock
<1>3. q \in OutlineSet /\ q.at = b.next /\ q.heads = Append(o.heads, b.lines) /\ q.leaves = o.leaves
  <2>1. Append(o.heads, b.lines) \in Seq(Seq(Nat))
    BY <1>1, <1>2
  <2> QED BY <1>1, <1>2, <2>1 DEF OutlineSet
<1>4. Len(q.heads) = N + 1 /\ DOMAIN q.heads = 1 .. N + 1 /\ q.heads[N + 1] = b.lines /\ \A n \in 1 .. N : q.heads[n] = o.heads[n]
  BY <1>1, <1>3
<1>5. ToSet(b.lines) = {o.at}
  BY <1>2 DEF ToSet
<1>6. /\ \A n \in 1 .. N : ToSet(o.heads[n]) \subseteq Nat /\ \A x \in ToSet(o.heads[n]) : x < o.at
      /\ \A k \in 1 .. Len(o.leaves) : ToSet(o.leaves[k].lines) \subseteq Nat /\ \A x \in ToSet(o.leaves[k].lines) : x < o.at
  BY ReadLines
<1> HIDE DEF q, N
<1>7. \A n \in 1 .. N + 1 : n \in 1 .. N \/ n = N + 1
  BY <1>1
<1>8. HasHeads(q)
  <2>1. ASSUME NEW n \in 1 .. N + 1 PROVE Rising(q.heads[n]) /\ \A x \in ToSet(q.heads[n]) : x < q.at
    <3>1. CASE n = N + 1
      BY <1>1, <1>2, <1>3, <1>4, <1>5, <3>1
    <3>2. CASE n \in 1 .. N
      <4>1. Rising(o.heads[n])
        BY <3>2, OutlineIs DEF IsOutline, HasHeads, N
      <4>2. \A x \in ToSet(o.heads[n]) : x \in Nat /\ x < o.at
        BY <1>6, <3>2
      <4>3. \A x \in Nat : x < o.at => x < q.at
        BY <1>1, <1>2, <1>3
      <4> QED BY <1>4, <3>2, <4>1, <4>2, <4>3
    <3> QED BY <1>7, <3>1, <3>2
  <2>2. ASSUME NEW n \in 1 .. N + 1, NEW m \in 1 .. N + 1, n < m PROVE AllBefore(ToSet(q.heads[n]), ToSet(q.heads[m]))
    <3>1. n \in 1 .. N
      BY <1>1, <2>2
    <3>2. CASE m = N + 1
      BY <1>4, <1>5, <1>6, <3>1, <3>2 DEF AllBefore
    <3>3. CASE m \in 1 .. N
      <4>1. AllBefore(ToSet(o.heads[n]), ToSet(o.heads[m]))
        BY <2>2, <3>1, <3>3, OutlineIs DEF IsOutline, HasHeads, N
      <4> QED BY <1>4, <3>1, <3>3, <4>1
    <3> QED BY <1>7, <3>2, <3>3
  <2> QED BY <1>4, <2>1, <2>2 DEF HasHeads
<1>9. HasLeaves(q)
  <2>1. HasLeaves(o)
    BY DEF IsOutline
  <2>2. ASSUME NEW k \in 1 .. Len(o.leaves) PROVE o.leaves[k].section <= Len(q.heads) /\ \A x \in ToSet(o.leaves[k].lines) : x < q.at
    <3>1. o.leaves[k].section <= Len(q.heads)
      BY <1>1, <1>4
    <3>2. \A x \in ToSet(o.leaves[k].lines) : x \in Nat /\ x < o.at
      BY <1>6
    <3>3. \A x \in Nat : x < o.at => x < q.at
      BY <1>1, <1>2, <1>3
    <3> QED BY <3>1, <3>2, <3>3
  <2> QED BY <1>1, <1>3, <2>1, <2>2 DEF HasLeaves
<1>10. HeadsBetween(q)
  <2>1. ASSUME NEW k \in 1 .. Len(o.leaves), NEW n \in 1 .. N + 1
        PROVE  IF n <= o.leaves[k].section THEN AllBefore(ToSet(q.heads[n]), ToSet(o.leaves[k].lines))
               ELSE AllBefore(ToSet(o.leaves[k].lines), ToSet(q.heads[n]))
    <3>1. CASE n = N + 1
      <4>1. ~(n <= o.leaves[k].section)
        BY <1>1, <3>1
      <4>2. AllBefore(ToSet(o.leaves[k].lines), ToSet(q.heads[n]))
        BY <1>4, <1>5, <1>6, <3>1 DEF AllBefore
      <4> QED BY <4>1, <4>2
    <3>2. CASE n \in 1 .. N
      <4>1. IF n <= o.leaves[k].section THEN AllBefore(ToSet(o.heads[n]), ToSet(o.leaves[k].lines))
            ELSE AllBefore(ToSet(o.leaves[k].lines), ToSet(o.heads[n]))
        BY <3>2, OutlineIs DEF IsOutline, HeadsBetween, N
      <4> QED BY <1>4, <3>2, <4>1
    <3> QED BY <1>7, <3>1, <3>2
  <2> QED BY <1>1, <1>3, <1>4, <2>1 DEF HeadsBetween
<1>11. ASSUME NEW j \in DOMAIN t, j < q.at, j \notin MayBeLost(t) PROVE IsIn(q, j)
  <2>1. CASE j < o.at
    <3>1. IsIn(o, j)
      BY <1>11, <2>1 DEF IsOutline
    <3>2. CASE \E k \in DOMAIN o.leaves : j \in ToSet(o.leaves[k].lines)
      BY <1>3, <3>2 DEF IsIn
    <3>3. CASE \E n \in DOMAIN o.heads : j \in ToSet(o.heads[n])
      <4>1. PICK n \in 1 .. N : j \in ToSet(o.heads[n])
        BY <3>3, OutlineIs DEF N
      <4>2. n \in DOMAIN q.heads /\ j \in ToSet(q.heads[n])
        BY <1>1, <1>4, <4>1
      <4> QED BY <4>2 DEF IsIn
    <3> QED BY <3>1, <3>2, <3>3 DEF IsIn
  <2>2. CASE ~(j < o.at)
    <3>1. j \in ToSet(b.lines)
      <4>1. o.at <= j /\ j < b.next
        BY <1>1, <1>3, <1>11, <2>2
      <4> QED BY <1>11, <4>1 DEF IsBlock
    <3>2. N + 1 \in DOMAIN q.heads /\ j \in ToSet(q.heads[N + 1])
      BY <1>1, <1>4, <3>1
    <3> QED BY <3>2 DEF IsIn
  <2> QED BY <2>1, <2>2
<1>12. q.at >= 1
  BY <1>1, <1>2, <1>3
<1>13. IsOutline(t, q)
  BY <1>3, <1>8, <1>9, <1>10, <1>11, <1>12 DEF IsOutline
<1> QED BY <1>13 DEF q

LEMMA LeavesAre ==
  ASSUME NEW s, IsForest(s), NEW o, o.heads \in Seq(Seq(Nat)), o.leaves \in Seq(OutlineLeaves)
  PROVE  LET p == Planted(s, o)
         IN /\ p \in Seq(OutlineLeaves) /\ Len(p) = Len(s)
            /\ \A k \in 1 .. Len(s) : /\ p[k].type = s[k].type /\ p[k].lines = s[k].lines /\ p[k].section = Len(o.heads)
                                      /\ p[k].up = IF s[k].up = 0 THEN 0 ELSE Len(o.leaves) + s[k].up
<1> DEFINE p == Planted(s, o)
           n == Len(s)
           leaf(k) == [type |-> s[k].type, lines |-> s[k].lines, section |-> Len(o.heads),
                       up |-> IF s[k].up = 0 THEN 0 ELSE Len(o.leaves) + s[k].up]
<1>1. n \in Nat /\ DOMAIN s = 1 .. n /\ Len(o.heads) \in Nat /\ Len(o.leaves) \in Nat
  BY DEF IsForest
<1>2. p = [k \in 1 .. n |-> leaf(k)]
  BY <1>1 DEF Planted
<1>3. ASSUME NEW k \in 1 .. n
      PROVE  /\ leaf(k) \in OutlineLeaves
             /\ leaf(k).type = s[k].type /\ leaf(k).lines = s[k].lines /\ leaf(k).section = Len(o.heads)
             /\ leaf(k).up = IF s[k].up = 0 THEN 0 ELSE Len(o.leaves) + s[k].up
  <2>1. s[k].type \in Outer \cup Inner \cup Innermost /\ s[k].up \in 0 .. k - 1 /\ s[k].lines \in Seq(Nat)
    BY DEF IsForest
  <2>2. (IF s[k].up = 0 THEN 0 ELSE Len(o.leaves) + s[k].up) \in Nat
    BY <1>1, <2>1
  <2> QED BY <1>1, <2>1, <2>2 DEF OutlineLeaves
<1> HIDE DEF leaf, p
<1>4. p \in [1 .. n -> OutlineLeaves] /\ \A k \in 1 .. n : p[k] = leaf(k)
  BY <1>2, <1>3
<1>5. p \in Seq(OutlineLeaves) /\ Len(p) = n
  BY <1>1, <1>4
<1> QED BY <1>3, <1>4, <1>5 DEF p

LEMMA TreeKeeps ==
  ASSUME NEW t \in Seq(LineKinds), NEW o, IsOutline(t, o), o.at \in DOMAIN t, NEW b, IsBlock(t, o.at, b),
         NEW s, TreeHas(t, b, s)
  PROVE  IsOutline(t, [o EXCEPT !.at = b.next, !.leaves = @ \o Planted(s, o)])
<1> DEFINE p == Planted(s, o)
           q == [o EXCEPT !.at = b.next, !.leaves = @ \o p]
           N == Len(o.heads)
           n == Len(o.leaves)
           m == Len(s)
<1>1. /\ o \in OutlineSet /\ o.at \in Nat /\ o.heads \in Seq(Seq(Nat)) /\ N \in Nat /\ DOMAIN o.heads = 1 .. N
      /\ o.leaves \in Seq(OutlineLeaves) /\ n \in Nat /\ DOMAIN o.leaves = 1 .. n
      /\ \A k \in 1 .. n : o.leaves[k].section \in 0 .. N
  BY OutlineIs DEF IsOutline
<1>2. b.next \in Nat /\ b.next > o.at /\ \A x \in ToSet(b.lines) : x \in DOMAIN t /\ o.at <= x /\ x < b.next
  BY DEF IsBlock
<1>3. IsForest(s) /\ m \in Nat /\ DOMAIN s = 1 .. m
  BY DEF TreeHas, IsForest
<1>4. /\ p \in Seq(OutlineLeaves) /\ Len(p) = m
      /\ \A k \in 1 .. m : /\ p[k].type = s[k].type /\ p[k].lines = s[k].lines /\ p[k].section = N
                           /\ p[k].up = IF s[k].up = 0 THEN 0 ELSE n + s[k].up
  BY <1>1, <1>3, LeavesAre
<1> HIDE DEF p
<1>5. q \in OutlineSet /\ q.at = b.next /\ q.heads = o.heads /\ q.leaves = o.leaves \o p
  <2>1. o.leaves \o p \in Seq(OutlineLeaves)
    BY <1>1, <1>4, JoinedIs
  <2> QED BY <1>1, <1>2, <2>1 DEF OutlineSet
<1> DEFINE w == q.leaves
<1>6. /\ Len(w) = n + m /\ DOMAIN w = 1 .. n + m
      /\ \A k \in 1 .. n : w[k] = o.leaves[k]
      /\ \A k \in 1 .. m : w[n + k] = p[k]
  <2>1. /\ Len(o.leaves \o p) = n + Len(p) /\ DOMAIN (o.leaves \o p) = 1 .. n + Len(p)
        /\ \A k \in 1 .. n : (o.leaves \o p)[k] = o.leaves[k]
        /\ \A k \in 1 .. Len(p) : (o.leaves \o p)[n + k] = p[k]
    <3> DEFINE u == o.leaves
    <3>1. u \in Seq(OutlineLeaves) /\ p \in Seq(OutlineLeaves)
      BY <1>1, <1>4
    <3> HIDE DEF u
    <3>2. /\ Len(u \o p) = Len(u) + Len(p) /\ DOMAIN (u \o p) = 1 .. Len(u) + Len(p)
          /\ \A k \in 1 .. Len(u) : (u \o p)[k] = u[k]
          /\ \A k \in 1 .. Len(p) : (u \o p)[Len(u) + k] = p[k]
      BY <3>1, JoinedIs
    <3> QED BY <3>2 DEF u
  <2> QED BY <1>4, <1>5, <2>1
<1>7. /\ \A k \in 1 .. N : ToSet(o.heads[k]) \subseteq Nat /\ \A x \in ToSet(o.heads[k]) : x < o.at
      /\ \A k \in 1 .. n : ToSet(o.leaves[k].lines) \subseteq Nat /\ \A x \in ToSet(o.leaves[k].lines) : x < o.at
  BY ReadLines
<1>8. \A x \in Nat : x < o.at => x < q.at
  BY <1>1, <1>2, <1>5
<1>9. \A k \in 1 .. m : \A x \in ToSet(s[k].lines) : x \in Nat /\ o.at <= x /\ x < q.at
  <2>1. \A k \in 1 .. m : ToSet(s[k].lines) \subseteq ToSet(b.lines)
    BY DEF TreeHas
  <2>2. DOMAIN t \subseteq Nat
    OBVIOUS
  <2> QED BY <1>2, <1>5, <2>1, <2>2
<1>10. \A k \in 1 .. n, l \in 1 .. m : AllBefore(ToSet(o.leaves[k].lines), ToSet(s[l].lines))
  <2>1. ASSUME NEW k \in 1 .. n, NEW l \in 1 .. m, NEW x \in ToSet(o.leaves[k].lines), NEW y \in ToSet(s[l].lines) PROVE x < y
    <3>1. x \in Nat /\ x < o.at
      BY <1>7
    <3>2. y \in Nat /\ o.at <= y
      BY <1>9
    <3> QED BY <1>1, <3>1, <3>2
  <2> QED BY <2>1 DEF AllBefore
<1> HIDE DEF q, w, n, m, N
<1>11. ASSUME NEW k \in 1 .. n + m PROVE k \in 1 .. n \/ (k - n \in 1 .. m /\ k = n + (k - n))
  BY <1>1, <1>3
<1>12. IsForest(w)
  <2>1. IsPlanted(w, o.leaves, s)
    BY <1>4, <1>6 DEF IsPlanted, n, m
  <2>2. IsForest(o.leaves)
    BY DEF IsOutline, HasLeaves
  <2> QED BY <1>3, <1>10, <2>1, <2>2, PlantedIsForest DEF n, m
<1>13. \A k \in 1 .. m : w[n + k].section = N /\ w[n + k].lines = s[k].lines /\ w[n + k].up = IF s[k].up = 0 THEN 0 ELSE n + s[k].up
  BY <1>4, <1>6
<1>14. HasLeaves(q)
  <2>1. ASSUME NEW k \in 1 .. n + m
        PROVE  /\ w[k].section <= N /\ \A x \in ToSet(w[k].lines) : x < q.at
               /\ w[k].up # 0 => w[w[k].up].section = w[k].section
    <3>1. CASE k \in 1 .. n
      <4>1. \A x \in ToSet(w[k].lines) : x < q.at
        BY <1>6, <1>7, <1>8, <3>1
      <4>2. w[k].section <= N
        <5>1. o.leaves[k].section \in 0 .. N /\ w[k] = o.leaves[k]
          BY <1>1, <1>6, <3>1
        <5> QED BY <1>1, <5>1
      <4>3. w[k].up # 0 => w[k].up \in 1 .. n /\ o.leaves[w[k].up].section = o.leaves[k].section
        <5>1. o.leaves[k].up \in 0 .. k - 1
          BY <3>1 DEF IsOutline, HasLeaves, IsForest, n
        <5>2. o.leaves[k].up # 0 => o.leaves[o.leaves[k].up].section = o.leaves[k].section
          BY <1>1, <3>1 DEF IsOutline, HasLeaves
        <5> QED BY <1>1, <1>6, <3>1, <5>1, <5>2
      <4> QED BY <1>6, <3>1, <4>1, <4>2, <4>3
    <3>2. CASE k - n \in 1 .. m /\ k = n + (k - n)
      <4>1. w[k].section = N /\ w[k].lines = s[k - n].lines /\ w[k].up = IF s[k - n].up = 0 THEN 0 ELSE n + s[k - n].up
        BY <1>13, <3>2
      <4>2. s[k - n].up # 0 => s[k - n].up \in 1 .. m
        <5>1. s[k - n].up \in 0 .. (k - n) - 1
          BY <1>3, <3>2 DEF IsForest, m
        <5> QED BY <1>3, <3>2, <5>1
      <4>3. w[k].up # 0 => w[w[k].up].section = N
        BY <1>13, <4>1, <4>2
      <4> QED BY <1>1, <1>9, <3>2, <4>1, <4>3
    <3> QED BY <1>11, <3>1, <3>2
  <2>2. ASSUME NEW k \in 1 .. n + m, NEW l \in 1 .. n + m, k < l PROVE w[k].section <= w[l].section
    <3>1. CASE l \in 1 .. n
      <4>1. k \in 1 .. n
        BY <1>1, <2>2, <3>1
      <4>2. o.leaves[k].section <= o.leaves[l].section
        BY <1>1, <2>2, <3>1, <4>1 DEF IsOutline, HasLeaves
      <4> QED BY <1>6, <3>1, <4>1, <4>2
    <3>2. CASE l - n \in 1 .. m /\ l = n + (l - n)
      <4>1. w[l].section = N
        BY <1>13, <3>2
      <4> QED BY <2>1, <4>1
    <3> QED BY <1>11, <3>1, <3>2
  <2> QED BY <1>5, <1>6, <1>12, <2>1, <2>2 DEF HasLeaves, w, N
<1>15. HasHeads(q)
  <2>1. HasHeads(o)
    BY DEF IsOutline
  <2>2. ASSUME NEW k \in 1 .. N PROVE \A x \in ToSet(o.heads[k]) : x < q.at
    BY <1>7, <1>8
  <2> QED BY <1>1, <1>5, <2>1, <2>2 DEF HasHeads
<1>16. HeadsBetween(q)
  <2>1. ASSUME NEW k \in 1 .. n + m, NEW h \in 1 .. N
        PROVE  IF h <= w[k].section THEN AllBefore(ToSet(o.heads[h]), ToSet(w[k].lines))
               ELSE AllBefore(ToSet(w[k].lines), ToSet(o.heads[h]))
    <3>1. CASE k \in 1 .. n
      <4>1. IF h <= o.leaves[k].section THEN AllBefore(ToSet(o.heads[h]), ToSet(o.leaves[k].lines))
            ELSE AllBefore(ToSet(o.leaves[k].lines), ToSet(o.heads[h]))
        BY <1>1, <3>1 DEF IsOutline, HeadsBetween
      <4> QED BY <1>6, <3>1, <4>1
    <3>2. CASE k - n \in 1 .. m /\ k = n + (k - n)
      <4>1. w[k].section = N /\ w[k].lines = s[k - n].lines
        BY <1>13, <3>2
      <4>2. h <= w[k].section
        BY <1>1, <4>1
      <4>3. AllBefore(ToSet(o.heads[h]), ToSet(w[k].lines))
        <5>1. \A x \in ToSet(o.heads[h]) : x \in Nat /\ x < o.at
          BY <1>7
        <5>2. \A x \in ToSet(w[k].lines) : x \in Nat /\ o.at <= x
          BY <1>9, <3>2, <4>1
        <5> QED BY <1>1, <5>1, <5>2 DEF AllBefore
      <4> QED BY <4>2, <4>3
    <3> QED BY <1>11, <3>1, <3>2
  <2> QED BY <1>1, <1>5, <1>6, <2>1 DEF HeadsBetween, w
<1>17. ASSUME NEW j \in DOMAIN t, j < q.at, j \notin MayBeLost(t) PROVE IsIn(q, j)
  <2>1. CASE j < o.at
    <3>1. IsIn(o, j)
      BY <1>17, <2>1 DEF IsOutline
    <3>2. CASE \E k \in DOMAIN o.leaves : j \in ToSet(o.leaves[k].lines)
      <4>1. PICK k \in 1 .. n : j \in ToSet(o.leaves[k].lines)
        BY <1>1, <3>2
      <4>2. k \in DOMAIN q.leaves /\ j \in ToSet(q.leaves[k].lines)
        <5>1. k \in 1 .. n + m
          BY <1>1, <1>3
        <5> QED BY <1>6, <4>1, <5>1 DEF w
      <4> QED BY <4>2 DEF IsIn
    <3>3. CASE \E k \in DOMAIN o.heads : j \in ToSet(o.heads[k])
      BY <1>5, <3>3 DEF IsIn
    <3> QED BY <3>1, <3>2, <3>3 DEF IsIn
  <2>2. CASE ~(j < o.at)
    <3>1. j \in ToSet(b.lines)
      <4>1. o.at <= j /\ j < b.next
        BY <1>1, <1>5, <1>17, <2>2
      <4> QED BY <1>17, <4>1 DEF IsBlock
    <3>2. PICK k \in 1 .. m : j \in ToSet(s[k].lines)
      BY <1>17, <3>1 DEF TreeHas, m
    <3>3. n + k \in 1 .. n + m
      BY <1>1, <1>3
    <3>4. n + k \in DOMAIN q.leaves /\ j \in ToSet(q.leaves[n + k].lines)
      BY <1>6, <1>13, <3>2, <3>3 DEF w
    <3> QED BY <3>4 DEF IsIn
  <2> QED BY <2>1, <2>2
<1>18. q.at >= 1
  BY <1>1, <1>2, <1>5
<1>19. IsOutline(t, q)
  BY <1>5, <1>14, <1>15, <1>16, <1>17, <1>18 DEF IsOutline
<1> QED BY <1>19 DEF q, p

LEMMA ReadKeeps ==
  ASSUME NEW t \in Seq(LineKinds), NEW o, IsOutline(t, o), o.at \in DOMAIN t
  PROVE  IsOutline(t, ReadOn(t, o)) /\ ReadOn(t, o).at > o.at
<1> DEFINE b == BlockAt(t, o.at)
<1>1. IsBlock(t, o.at, b)
  BY BlockIs
<1>2. o \in OutlineSet /\ o.at \in Nat /\ b.next > o.at
  BY <1>1, OutlineIs DEF IsOutline, IsBlock
<1>3. ReadOn(t, o) = IF t[o.at] = "blank" THEN [o EXCEPT !.at = @ + 1]
                     ELSE IF b.kind = "heading" THEN [o EXCEPT !.at = b.next, !.heads = Append(@, b.lines)]
                     ELSE [o EXCEPT !.at = b.next, !.leaves = @ \o Planted(Tree(t, b), o)]
  BY DEF ReadOn
<1> HIDE DEF b
<1>4. CASE t[o.at] = "blank"
  <2>1. IsOutline(t, [o EXCEPT !.at = @ + 1])
    BY <1>4, BlankKeeps
  <2>2. [o EXCEPT !.at = @ + 1].at > o.at
    BY <1>2 DEF OutlineSet
  <2> QED BY <1>3, <1>4, <2>1, <2>2
<1>5. CASE t[o.at] # "blank" /\ b.kind = "heading"
  <2>1. IsOutline(t, [o EXCEPT !.at = b.next, !.heads = Append(@, b.lines)])
    BY <1>1, <1>5, HeadingKeeps
  <2>2. [o EXCEPT !.at = b.next, !.heads = Append(@, b.lines)].at = b.next
    BY <1>2 DEF OutlineSet
  <2> QED BY <1>2, <1>3, <1>5, <2>1, <2>2
<1>6. CASE t[o.at] # "blank" /\ b.kind # "heading"
  <2> DEFINE s == Tree(t, b)
  <2>1. TreeHas(t, b, s)
    BY <1>1, <1>6, TreeIs
  <2> HIDE DEF s
  <2>2. IsOutline(t, [o EXCEPT !.at = b.next, !.leaves = @ \o Planted(s, o)])
    BY <1>1, <2>1, TreeKeeps
  <2>3. [o EXCEPT !.at = b.next, !.leaves = @ \o Planted(s, o)].at = b.next
    BY <1>2 DEF OutlineSet
  <2> QED BY <1>2, <1>3, <1>6, <2>2, <2>3 DEF s
<1> QED BY <1>4, <1>5, <1>6

LEMMA OutlineHolds ==
  ASSUME NEW t \in Seq(LineKinds)
  PROVE  IsOutline(t, Outline(t)) /\ Outline(t).at > Len(t)
<1> DEFINE len == Len(t)
           base == [at |-> 1, heads |-> <<>>, leaves |-> <<>>]
           S == {o \in OutlineSet : IsOutline(t, o)}
           on(o) == IF o.at > len THEN o ELSE ReadOn(t, o)
           step == [k \in 1 .. len |-> [o \in S |-> on(o)]]
           read == CHOOSE f : f = [k \in 0 .. len |-> IF k = 0 THEN base ELSE on(f[k - 1])]
<1>1. len \in Nat /\ DOMAIN t = 1 .. len
  OBVIOUS
<1>2. base \in S
  <2>1. base \in OutlineSet /\ base.at = 1 /\ base.heads = <<>> /\ base.leaves = <<>>
    BY DEF OutlineSet
  <2>2. Len(<<>>) = 0 /\ DOMAIN <<>> = 1 .. 0 /\ 1 .. 0 = {} /\ \A j \in DOMAIN t : ~(j < 1)
    BY <1>1
  <2> HIDE DEF base
  <2>3. HasHeads(base) /\ HasLeaves(base) /\ HeadsBetween(base)
    BY <2>1, <2>2 DEF HasHeads, HasLeaves, HeadsBetween, IsForest
  <2> QED BY <2>1, <2>2, <2>3 DEF IsOutline
<1>3. ASSUME NEW o \in S PROVE on(o) \in S /\ (o.at > len \/ on(o).at > o.at)
  <2>1. IsOutline(t, o) /\ o.at \in Nat /\ o.at >= 1
    BY OutlineIs
  <2>2. CASE o.at > len
    BY <2>2
  <2>3. CASE ~(o.at > len)
    <3>1. o.at \in DOMAIN t
      BY <1>1, <2>1, <2>3
    <3>2. IsOutline(t, ReadOn(t, o)) /\ ReadOn(t, o).at > o.at
      BY <2>1, <3>1, ReadKeeps
    <3>3. ReadOn(t, o) \in S
      BY <3>2 DEF IsOutline
    <3> QED BY <2>3, <3>2, <3>3
  <2> QED BY <2>2, <2>3
<1>4. step \in [1 .. len -> [S -> S]]
  <2> HIDE DEF S, on, base
  <2> QED BY <1>3
<1> HIDE DEF step
<1>5. PICK f : Iterates(S, base, step, len, f)
  <2> HIDE DEF S, base
  <2> QED BY <1>1, <1>2, <1>4, IterationExists
<1> HIDE DEF S, base, on
<1>6. f \in [0 .. len -> S] /\ f[0] = base /\ \A k \in 1 .. len : f[k] = on(f[k - 1])
  <2>1. f \in [0 .. len -> S] /\ f[0] = base /\ \A k \in 1 .. len : f[k] = step[k][f[k - 1]]
    BY <1>5 DEF Iterates
  <2>2. ASSUME NEW k \in 1 .. len PROVE f[k] = on(f[k - 1])
    <3>1. f[k - 1] \in S
      BY <1>1, <2>1
    <3> QED BY <2>1, <3>1 DEF step
  <2> QED BY <2>1, <2>2
<1>7. f = [k \in 0 .. len |-> IF k = 0 THEN base ELSE on(f[k - 1])]
  <2>1. \A k \in 0 .. len : k = 0 \/ k \in 1 .. len
    BY <1>1
  <2>2. \A k \in 0 .. len : f[k] = IF k = 0 THEN base ELSE on(f[k - 1])
    BY <1>6, <2>1, Zenon
  <2> QED BY <1>6, <2>2
<1>8. read = [k \in 0 .. len |-> IF k = 0 THEN base ELSE on(read[k - 1])]
  BY <1>7
<1>9. Outline(t) = read[len]
  BY DEF Outline, on, base
<1> HIDE DEF read
<1>10. read[0] = base /\ \A k \in 1 .. len : read[k] = on(read[k - 1])
  <2>1. 0 \in 0 .. len /\ \A k \in 1 .. len : k \in 0 .. len /\ k # 0
    BY <1>1
  <2>2. \A k \in 0 .. len : read[k] = IF k = 0 THEN base ELSE on(read[k - 1])
    BY <1>8
  <2> QED BY <2>1, <2>2
<1> DEFINE G == {k \in 0 .. len : read[k] \in S /\ read[k].at > k}
<1>11. 0 .. len \subseteq G
  <2>1. 0 \in G
    <3>1. 0 \in 0 .. len /\ base.at = 1
      BY <1>1 DEF base
    <3> QED BY <1>2, <1>10, <3>1
  <2>2. ASSUME NEW k \in 0 .. len - 1, k \in G PROVE k + 1 \in G
    <3>1. k + 1 \in 1 .. len /\ k + 1 \in 0 .. len /\ (k + 1) - 1 = k /\ read[k] \in S /\ read[k].at > k /\ k \in Nat
      BY <1>1, <2>2
    <3>2. read[k + 1] = on(read[k])
      BY <1>10, <3>1
    <3>3. read[k + 1] \in S /\ (read[k].at > len \/ read[k + 1].at > read[k].at)
      BY <1>3, <3>1, <3>2
    <3>4. read[k].at \in Nat /\ read[k + 1].at \in Nat
      BY <3>1, <3>3 DEF S, OutlineSet
    <3>5. read[k].at > len => read[k + 1] = read[k]
      BY <3>2 DEF on
    <3>6. read[k + 1].at > k + 1
      BY <1>1, <3>1, <3>3, <3>4, <3>5
    <3> QED BY <3>1, <3>3, <3>6
  <2> HIDE DEF G
  <2> QED BY <1>1, <2>1, <2>2, UpTo
<1>12. read[len] \in S /\ read[len].at > len
  BY <1>1, <1>11
<1> QED BY <1>9, <1>12 DEF S

----------------------------------------------------------------------------
(* The ids and the edges of a document                                      *)

LEMMA FewerIn ==
  ASSUME NEW B, IsFiniteSet(B), NEW A \in SUBSET B, NEW x \in B, x \notin A
  PROVE  Cardinality(A) \in Nat /\ Cardinality(B) \in Nat /\ Cardinality(A) < Cardinality(B)
<1>1. IsFiniteSet(A) /\ Cardinality(A) <= Cardinality(B) /\ (Cardinality(B) = Cardinality(A) => A = B)
  BY FS_Subset
<1>2. Cardinality(A) \in Nat /\ Cardinality(B) \in Nat
  BY <1>1, FS_CardinalityType
<1> QED BY <1>1, <1>2

LEMMA NumbersGrow ==
  ASSUME NEW L, NEW j \in Nat, NEW k \in Nat, 1 <= j, j < k, L[j].type = L[k].type
  PROVE  Number(L, j) # Number(L, k)
<1> DEFINE A == {i \in 1 .. j : L[i].type = L[j].type}
           B == {i \in 1 .. k : L[i].type = L[k].type}
<1>1. A \in SUBSET B /\ k \in B /\ k \notin A
  <2>1. 1 .. j \subseteq 1 .. k /\ k \in 1 .. k /\ k \notin 1 .. j
    OBVIOUS
  <2> QED BY <2>1
<1>2. IsFiniteSet(B)
  <2>1. IsFiniteSet(1 .. k) /\ B \in SUBSET (1 .. k)
    BY FS_Interval
  <2> QED BY <2>1, FS_Subset
<1>3. Number(L, j) = Cardinality(A) /\ Number(L, k) = Cardinality(B)
  BY DEF Number
<1> HIDE DEF A, B
<1>4. Cardinality(A) \in Nat /\ Cardinality(B) \in Nat /\ Cardinality(A) < Cardinality(B)
  BY <1>1, <1>2, FewerIn
<1> QED BY <1>3, <1>4

LEMMA PlacesGrow ==
  ASSUME NEW L, NEW j \in Nat, NEW k \in Nat, 1 <= j, j < k, L[j].up = L[k].up, L[j].section = L[k].section
  PROVE  Place(L, j) \in Nat /\ Place(L, k) \in Nat /\ Place(L, j) < Place(L, k)
<1> DEFINE A == {i \in 1 .. j - 1 : L[i].up = L[j].up /\ L[i].section = L[j].section}
           B == {i \in 1 .. k - 1 : L[i].up = L[k].up /\ L[i].section = L[k].section}
<1>1. A \in SUBSET B /\ j \in B /\ j \notin A
  <2>1. 1 .. j - 1 \subseteq 1 .. k - 1 /\ j \in 1 .. k - 1 /\ j \notin 1 .. j - 1
    OBVIOUS
  <2> QED BY <2>1
<1>2. IsFiniteSet(B)
  <2>1. IsFiniteSet(1 .. k - 1) /\ B \in SUBSET (1 .. k - 1)
    BY FS_Interval
  <2> QED BY <2>1, FS_Subset
<1>3. Place(L, j) = Cardinality(A) /\ Place(L, k) = Cardinality(B)
  BY DEF Place
<1> HIDE DEF A, B
<1> QED BY <1>1, <1>2, <1>3, FewerIn

\* The leaves of an outline, with what is needed of them here.
AreLeaves(L, m) ==
  /\ Len(L) \in Nat /\ DOMAIN L = 1 .. Len(L) /\ m \in Nat
  /\ \A k \in 1 .. Len(L) : /\ L[k].type \in Outer \cup Inner \cup Innermost /\ L[k].up \in 0 .. k - 1
                            /\ L[k].section \in 0 .. m
                            /\ L[k].up # 0 => /\ L[L[k].up].section = L[k].section
                                              /\ Depth(L[L[k].up].type) < Depth(L[k].type)
  /\ \A k, l \in 1 .. Len(L) : L[l].up < k /\ k < l => L[l].up <= L[k].up
  /\ \A k, l \in 1 .. Len(L) : k < l => L[k].section <= L[l].section

LEMMA OutlineLeavesAre ==
  ASSUME NEW t, NEW o, IsOutline(t, o)
  PROVE  AreLeaves(o.leaves, Len(o.heads))
<1>1. /\ Len(o.leaves) \in Nat /\ DOMAIN o.leaves = 1 .. Len(o.leaves) /\ Len(o.heads) \in Nat
      /\ \A k \in 1 .. Len(o.leaves) : o.leaves[k].section \in 0 .. Len(o.heads)
  BY OutlineIs
<1>2. IsForest(o.leaves) /\ HasLeaves(o)
  BY DEF IsOutline, HasLeaves
<1> QED BY <1>1, <1>2 DEF AreLeaves, HasLeaves, IsForest

LEMMA TypesDiffer ==
  /\ "div" \notin Outer \cup Inner \cup Innermost /\ "section" \notin Outer \cup Inner \cup Innermost
  /\ Depth("div") = 0 /\ Depth("section") = 0 /\ \A x \in Outer \cup Inner \cup Innermost : Depth(x) \in 1 .. 3
  BY DEF Outer, Inner, Innermost, Depth

\* Ids tell nodes apart.
LEMMA IdsDiffer ==
  ASSUME NEW d, NEW L, NEW m, AreLeaves(L, m)
  PROVE  /\ \A j, k \in 1 .. Len(L) : LeafId(d, L, j) = LeafId(d, L, k) => j = k
         /\ \A k \in 1 .. Len(L) : LeafId(d, L, k) # Root(d) /\ \A i : LeafId(d, L, k) # Section(d, i)
         /\ \A i, j : Section(d, i) = Section(d, j) => i = j
         /\ \A i : Section(d, i) # Root(d)
<1>1. ASSUME NEW j \in 1 .. Len(L), NEW k \in 1 .. Len(L), LeafId(d, L, j) = LeafId(d, L, k) PROVE j = k
  <2>1. L[j].type = L[k].type /\ Number(L, j) = Number(L, k)
    BY <1>1 DEF LeafId
  <2>2. j \in Nat /\ k \in Nat /\ 1 <= j /\ 1 <= k
    BY DEF AreLeaves
  <2>3. ~(j < k)
    BY <2>1, <2>2, NumbersGrow
  <2>4. ~(k < j)
    BY <2>1, <2>2, NumbersGrow
  <2> QED BY <2>2, <2>3, <2>4
<1>2. ASSUME NEW k \in 1 .. Len(L), NEW i PROVE LeafId(d, L, k) # Root(d) /\ LeafId(d, L, k) # Section(d, i)
  <2>1. L[k].type \in Outer \cup Inner \cup Innermost
    BY DEF AreLeaves
  <2>2. L[k].type # "div" /\ L[k].type # "section"
    BY <2>1, TypesDiffer
  <2> QED BY <2>2 DEF LeafId, Root, Section
<1>3. \A i, j : Section(d, i) = Section(d, j) => i = j
  BY DEF Section
<1>4. \A i : Section(d, i) # Root(d)
  BY DEF Section, Root
<1> QED BY <1>1, <1>2, <1>3, <1>4

\* What hangs where.
LEMMA ParentIs ==
  ASSUME NEW d, NEW L, NEW m, AreLeaves(L, m), NEW k \in 1 .. Len(L)
  PROVE  /\ \A c \in 1 .. Len(L) : ParentId(d, L, k) = LeafId(d, L, c) <=> L[k].up = c
         /\ ParentId(d, L, k) = Root(d) <=> L[k].up = 0 /\ L[k].section = 0
         /\ \A i \in 1 .. m : ParentId(d, L, k) = Section(d, i) <=> L[k].up = 0 /\ L[k].section = i
<1>1. L[k].up \in 0 .. k - 1 /\ k \in Nat /\ L[k].section \in 0 .. m /\ (L[k].up # 0 => L[k].up \in 1 .. Len(L))
  <2>1. L[k].up \in 0 .. k - 1 /\ L[k].section \in 0 .. m /\ Len(L) \in Nat
    BY DEF AreLeaves
  <2> QED BY <2>1
<1>2. /\ \A j, c \in 1 .. Len(L) : LeafId(d, L, j) = LeafId(d, L, c) => j = c
      /\ \A c \in 1 .. Len(L) : LeafId(d, L, c) # Root(d) /\ \A i : LeafId(d, L, c) # Section(d, i)
      /\ \A i, j : Section(d, i) = Section(d, j) => i = j
      /\ \A i : Section(d, i) # Root(d)
  BY IdsDiffer
<1>3. CASE L[k].up # 0
  <2>1. ParentId(d, L, k) = LeafId(d, L, L[k].up) /\ L[k].up \in 1 .. Len(L)
    BY <1>1, <1>3 DEF ParentId
  <2> QED BY <1>2, <1>3, <2>1
<1>4. CASE L[k].up = 0 /\ L[k].section = 0
  <2>1. ParentId(d, L, k) = Root(d)
    BY <1>4 DEF ParentId
  <2>2. \A c \in 1 .. Len(L) : c # 0
    OBVIOUS
  <2>3. \A i \in 1 .. m : i # 0
    OBVIOUS
  <2> QED BY <1>2, <1>4, <2>1, <2>2, <2>3
<1>5. CASE L[k].up = 0 /\ L[k].section # 0
  <2>1. ParentId(d, L, k) = Section(d, L[k].section)
    BY <1>5 DEF ParentId
  <2>2. \A c \in 1 .. Len(L) : c # 0
    OBVIOUS
  <2> QED BY <1>2, <1>5, <2>1, <2>2
<1> QED BY <1>3, <1>4, <1>5

\* Two children of one node have different places, the later one the greater.
LEMMA PlacesDiffer ==
  ASSUME NEW d, NEW L, NEW m, AreLeaves(L, m), NEW j \in 1 .. Len(L), NEW k \in 1 .. Len(L),
         ParentId(d, L, j) = ParentId(d, L, k)
  PROVE  /\ L[j].up = L[k].up /\ L[j].section = L[k].section
         /\ Place(L, j) < Place(L, k) <=> j < k
         /\ Place(L, j) = Place(L, k) <=> j = k
<1>1. /\ L[j].up \in 0 .. j - 1 /\ j \in Nat /\ L[j].section \in 0 .. m /\ (L[j].up # 0 => L[j].up \in 1 .. Len(L))
      /\ L[k].up \in 0 .. k - 1 /\ k \in Nat /\ L[k].section \in 0 .. m /\ (L[k].up # 0 => L[k].up \in 1 .. Len(L))
      /\ L[k].up # 0 => L[L[k].up].section = L[k].section
      /\ L[j].up # 0 => L[L[j].up].section = L[j].section
  <2>1. /\ L[j].up \in 0 .. j - 1 /\ L[j].section \in 0 .. m /\ Len(L) \in Nat
        /\ L[k].up \in 0 .. k - 1 /\ L[k].section \in 0 .. m
        /\ L[k].up # 0 => L[L[k].up].section = L[k].section
        /\ L[j].up # 0 => L[L[j].up].section = L[j].section
    BY DEF AreLeaves
  <2> QED BY <2>1
<1>9. /\ \A c \in 1 .. Len(L) : ParentId(d, L, k) = LeafId(d, L, c) <=> L[k].up = c
      /\ ParentId(d, L, k) = Root(d) <=> L[k].up = 0 /\ L[k].section = 0
      /\ \A i \in 1 .. m : ParentId(d, L, k) = Section(d, i) <=> L[k].up = 0 /\ L[k].section = i
  BY ParentIs
<1>2. L[j].up = L[k].up /\ L[j].section = L[k].section
  <2>1. CASE L[j].up # 0
    <3>1. ParentId(d, L, j) = LeafId(d, L, L[j].up)
      BY <2>1 DEF ParentId
    <3>2. L[k].up = L[j].up
      BY <1>1, <1>9, <2>1, <3>1
    <3> QED BY <1>1, <2>1, <3>2
  <2>2. CASE L[j].up = 0 /\ L[j].section = 0
    <3>1. ParentId(d, L, j) = Root(d)
      BY <2>2 DEF ParentId
    <3> QED BY <1>9, <2>2, <3>1
  <2>3. CASE L[j].up = 0 /\ L[j].section # 0
    <3>1. ParentId(d, L, j) = Section(d, L[j].section) /\ L[j].section \in 1 .. m
      BY <1>1, <2>3 DEF ParentId, AreLeaves
    <3> QED BY <1>9, <2>3, <3>1
  <2> QED BY <2>1, <2>2, <2>3
<1>3. j < k => Place(L, j) \in Nat /\ Place(L, k) \in Nat /\ Place(L, j) < Place(L, k)
  BY <1>1, <1>2, PlacesGrow
<1>4. k < j => Place(L, j) \in Nat /\ Place(L, k) \in Nat /\ Place(L, k) < Place(L, j)
  BY <1>1, <1>2, PlacesGrow
<1>5. j < k \/ k < j \/ j = k
  BY <1>1
<1>6. CASE j = k
  <2>1. Place(L, j) \in Nat
    <3> DEFINE A == {i \in 1 .. j - 1 : L[i].up = L[j].up /\ L[i].section = L[j].section}
    <3>1. IsFiniteSet(1 .. j - 1) /\ A \in SUBSET (1 .. j - 1)
      BY <1>1, FS_Interval
    <3>2. IsFiniteSet(A)
      BY <3>1, FS_Subset
    <3>3. Cardinality(A) \in Nat
      BY <3>2, FS_CardinalityType
    <3> QED BY <3>3 DEF Place
  <2> QED BY <1>1, <1>2, <1>6, <2>1
<1>7. CASE j < k
  BY <1>1, <1>2, <1>3, <1>7
<1>8. CASE k < j
  BY <1>1, <1>2, <1>4, <1>8
<1> QED BY <1>5, <1>6, <1>7, <1>8

LEMMA EdgeIsAs ==
  ASSUME NEW kind, NEW s, NEW x, NEW docs, NEW order
  PROVE  LET e == Edge(kind, s, x, docs, order)
         IN e.kind = kind /\ e.source = s /\ e.target = x /\ e.documentIds = docs /\ e.order = order
  BY DEF Edge

\* The doc-child edge of the k-th leaf, and the other one.
HangsBy(d, L, k) == Edge("doc-child", ParentId(d, L, k), LeafId(d, L, k), {}, Place(L, k))
AlsoBy(d, L, k) == Edge("parent-child", ParentId(d, L, k), LeafId(d, L, k), {}, 0)

LEMMA LeafEdgesAre ==
  ASSUME NEW d, NEW L, NEW m, AreLeaves(L, m)
  PROVE  LET A == LeafEdges(d, L)
         IN /\ A = [i \in 1 .. 2 * Len(L) |-> A[i]]
            /\ \A k \in 1 .. Len(L) : A[2 * k - 1] = HangsBy(d, L, k) /\ A[2 * k] = AlsoBy(d, L, k)
<1> DEFINE A == LeafEdges(d, L)
<1>1. Len(L) \in Nat
  BY DEF AreLeaves
<1>2. /\ A = [i \in 1 .. 2 * Len(L) |-> A[i]]
      /\ \A i \in 1 .. 2 * Len(L) :
           A[i] = IF i % 2 = 1 THEN HangsBy(d, L, (i + 1) \div 2) ELSE AlsoBy(d, L, (i + 1) \div 2)
  BY DEF LeafEdges, HangsBy, AlsoBy
<1> HIDE DEF A
<1>3. ASSUME NEW k \in 1 .. Len(L) PROVE A[2 * k - 1] = HangsBy(d, L, k) /\ A[2 * k] = AlsoBy(d, L, k)
  <2>1. 2 * k - 1 \in 1 .. 2 * Len(L) /\ (2 * k - 1) % 2 = 1 /\ ((2 * k - 1) + 1) \div 2 = k
    BY <1>1
  <2>2. 2 * k \in 1 .. 2 * Len(L) /\ (2 * k) % 2 # 1 /\ (2 * k + 1) \div 2 = k
    BY <1>1
  <2> QED BY <1>2, <2>1, <2>2
<1> QED BY <1>2, <1>3 DEF A

Below(d) == Edge("parent-child", Root(d), Section(d, 1), {}, 0)
HeadOf(d) == Edge("doc-head", Section(d, 1), Root(d), {Root(d)}, 0)
EndOf(d, m) == Edge("doc-end", Section(d, m), Root(d), {Root(d)}, 0)
NextOf(d, k) == Edge("next-section", Section(d, k), Section(d, k + 1), {Root(d)}, 0)

LEMMA FlowEdgesAre ==
  ASSUME NEW d, NEW m \in Nat
  PROVE  LET B == FlowEdges(d, m)
         IN /\ m = 0 => B = <<>>
            /\ m # 0 => /\ B = [i \in 1 .. m + 2 |-> B[i]]
                        /\ B[1] = Below(d) /\ B[2] = HeadOf(d) /\ B[3] = EndOf(d, m)
                        /\ \A k \in 1 .. m - 1 : B[3 + k] = NextOf(d, k)
<1>1. CASE m = 0
  BY <1>1 DEF FlowEdges
<1>2. CASE m # 0
  <2> DEFINE a == <<Below(d), HeadOf(d), EndOf(d, m)>>
             r == [k \in 1 .. m - 1 |-> NextOf(d, k)]
             T == {a[k] : k \in 1 .. 3} \cup {r[k] : k \in 1 .. m - 1}
             B == FlowEdges(d, m)
  <2>1. B = a \o r
    BY <1>2 DEF FlowEdges, Below, HeadOf, EndOf, NextOf
  <2>2. a \in Seq(T) /\ Len(a) = 3 /\ a[1] = Below(d) /\ a[2] = HeadOf(d) /\ a[3] = EndOf(d, m)
    OBVIOUS
  <2>3. r \in [1 .. m - 1 -> T] /\ m - 1 \in Nat /\ \A k \in 1 .. m - 1 : r[k] = NextOf(d, k)
    BY <1>2
  <2> HIDE DEF a, r, T, B
  <2>4. r \in Seq(T) /\ Len(r) = m - 1
    BY <2>3
  <2>5. /\ B \in Seq(T) /\ Len(B) = Len(a) + Len(r)
        /\ \A k \in 1 .. Len(a) : B[k] = a[k]
        /\ \A k \in 1 .. Len(r) : B[Len(a) + k] = r[k]
    <3>1. /\ a \o r \in Seq(T) /\ Len(a \o r) = Len(a) + Len(r)
          /\ \A k \in 1 .. Len(a) : (a \o r)[k] = a[k]
          /\ \A k \in 1 .. Len(r) : (a \o r)[Len(a) + k] = r[k]
      <4>1. a \in Seq(T) /\ r \in Seq(T)
        BY <2>2, <2>4
      <4> QED BY <4>1, JoinedIs
    <3> QED BY <2>1, <3>1
  <2>6. Len(B) = m + 2 /\ B = [i \in 1 .. m + 2 |-> B[i]]
    BY <1>2, <2>2, <2>4, <2>5
  <2>7. 1 \in 1 .. Len(a) /\ 2 \in 1 .. Len(a) /\ 3 \in 1 .. Len(a)
    BY <2>2
  <2>8. B[1] = Below(d) /\ B[2] = HeadOf(d) /\ B[3] = EndOf(d, m)
    BY <2>2, <2>5, <2>7
  <2>9. \A k \in 1 .. m - 1 : B[3 + k] = NextOf(d, k)
    BY <2>2, <2>3, <2>4, <2>5
  <2> QED BY <1>2, <2>6, <2>8, <2>9 DEF B
<1> QED BY <1>1, <1>2

\* The edges of a document: which they are, and where.
AreEdgesOf(E, d, L, m) ==
  /\ Len(E) \in Nat /\ E = [i \in 1 .. Len(E) |-> E[i]]
  /\ \A k \in 1 .. Len(L) : 2 * k - 1 \in 1 .. Len(E) /\ E[2 * k - 1] = HangsBy(d, L, k)
  /\ m # 0 => /\ 2 * Len(L) + 2 \in 1 .. Len(E) /\ E[2 * Len(L) + 2] = HeadOf(d)
              /\ 2 * Len(L) + 3 \in 1 .. Len(E) /\ E[2 * Len(L) + 3] = EndOf(d, m)
              /\ \A k \in 1 .. m - 1 : 2 * Len(L) + 3 + k \in 1 .. Len(E) /\ E[2 * Len(L) + 3 + k] = NextOf(d, k)
  /\ \A i \in 1 .. Len(E) :
       \/ \E k \in 1 .. Len(L) : (i = 2 * k - 1 /\ E[i] = HangsBy(d, L, k)) \/ E[i] = AlsoBy(d, L, k)
       \/ m # 0 /\ \/ E[i] = Below(d)
                   \/ i = 2 * Len(L) + 2 /\ E[i] = HeadOf(d)
                   \/ i = 2 * Len(L) + 3 /\ E[i] = EndOf(d, m)
                   \/ \E k \in 1 .. m - 1 : i = 2 * Len(L) + 3 + k /\ E[i] = NextOf(d, k)

LEMMA HalfOf ==
  ASSUME NEW n \in Nat, NEW i \in 1 .. 2 * n
  PROVE  \E k \in 1 .. n : i = 2 * k - 1 \/ i = 2 * k
<1> DEFINE k == (i + 1) \div 2
<1>1. k \in Nat /\ (i = 2 * k - 1 \/ i = 2 * k)
  OBVIOUS
<1> HIDE DEF k
<1>2. k \in 1 .. n
  BY <1>1
<1> QED BY <1>1, <1>2

LEMMA EdgesAre ==
  ASSUME NEW d, NEW L, NEW m, AreLeaves(L, m)
  PROVE  AreEdgesOf(LeafEdges(d, L) \o FlowEdges(d, m), d, L, m)
<1> DEFINE A == LeafEdges(d, L)
           B == FlowEdges(d, m)
           n == Len(L)
           b == IF m = 0 THEN 0 ELSE m + 2
           T == {A[i] : i \in 1 .. 2 * n} \cup {B[i] : i \in 1 .. b}
           E == A \o B
<1>1. n \in Nat /\ m \in Nat /\ b \in Nat
  BY DEF AreLeaves
<1>2. /\ A = [i \in 1 .. 2 * n |-> A[i]]
      /\ \A k \in 1 .. n : A[2 * k - 1] = HangsBy(d, L, k) /\ A[2 * k] = AlsoBy(d, L, k)
  BY LeafEdgesAre
<1>3. /\ m = 0 => B = <<>>
      /\ m # 0 => /\ B = [i \in 1 .. m + 2 |-> B[i]]
                  /\ B[1] = Below(d) /\ B[2] = HeadOf(d) /\ B[3] = EndOf(d, m)
                  /\ \A k \in 1 .. m - 1 : B[3 + k] = NextOf(d, k)
  BY <1>1, FlowEdgesAre
<1> HIDE DEF A, B
<1>4. A \in [1 .. 2 * n -> T] /\ 2 * n \in Nat
  BY <1>1, <1>2
<1>5. B \in [1 .. b -> T]
  <2>1. CASE m = 0
    BY <1>3, <2>1
  <2>2. CASE m # 0
    BY <1>3, <2>2
  <2> QED BY <2>1, <2>2
<1> HIDE DEF T, E, n, b
<1>6. A \in Seq(T) /\ Len(A) = 2 * n /\ B \in Seq(T) /\ Len(B) = b
  BY <1>1, <1>4, <1>5
<1>7. /\ E \in Seq(T) /\ Len(E) = Len(A) + Len(B)
      /\ \A i \in 1 .. Len(A) : E[i] = A[i]
      /\ \A i \in 1 .. Len(B) : E[Len(A) + i] = B[i]
  <2>1. /\ A \o B \in Seq(T) /\ Len(A \o B) = Len(A) + Len(B)
        /\ \A i \in 1 .. Len(A) : (A \o B)[i] = A[i]
        /\ \A i \in 1 .. Len(B) : (A \o B)[Len(A) + i] = B[i]
    <3>1. A \in Seq(T) /\ B \in Seq(T)
      BY <1>6
    <3> QED BY <3>1, JoinedIs
  <2> QED BY <2>1 DEF E
<1>8. /\ Len(E) = 2 * n + b /\ Len(E) \in Nat /\ E = [i \in 1 .. Len(E) |-> E[i]]
      /\ \A i \in 1 .. 2 * n : E[i] = A[i]
      /\ \A i \in 1 .. b : E[2 * n + i] = B[i]
  BY <1>1, <1>6, <1>7
<1>9. ASSUME NEW k \in 1 .. n
      PROVE  /\ 2 * k - 1 \in 1 .. Len(E) /\ E[2 * k - 1] = HangsBy(d, L, k)
             /\ 2 * k \in 1 .. Len(E) /\ E[2 * k] = AlsoBy(d, L, k)
  <2>1. /\ 2 * k - 1 \in 1 .. 2 * n /\ 2 * k \in 1 .. 2 * n
        /\ 2 * k - 1 \in 1 .. 2 * n + b /\ 2 * k \in 1 .. 2 * n + b
    BY <1>1
  <2> QED BY <1>2, <1>8, <2>1
<1>10. ASSUME m # 0
       PROVE  /\ E[2 * n + 1] = Below(d)
              /\ 2 * n + 2 \in 1 .. Len(E) /\ E[2 * n + 2] = HeadOf(d)
              /\ 2 * n + 3 \in 1 .. Len(E) /\ E[2 * n + 3] = EndOf(d, m)
              /\ \A k \in 1 .. m - 1 : 2 * n + 3 + k \in 1 .. Len(E) /\ E[2 * n + 3 + k] = NextOf(d, k)
  <2>1. b = m + 2
    BY <1>10 DEF b
  <2>2. /\ 1 \in 1 .. b /\ 2 \in 1 .. b /\ 3 \in 1 .. b /\ 2 * n + 2 \in 1 .. Len(E) /\ 2 * n + 3 \in 1 .. Len(E)
    BY <1>1, <1>8, <1>10, <2>1
  <2>3. ASSUME NEW k \in 1 .. m - 1 PROVE 2 * n + 3 + k \in 1 .. Len(E) /\ E[2 * n + 3 + k] = NextOf(d, k)
    <3>1. 3 + k \in 1 .. b /\ 2 * n + (3 + k) = 2 * n + 3 + k /\ 2 * n + 3 + k \in 1 .. Len(E)
      BY <1>1, <1>8, <1>10, <2>1
    <3>2. E[2 * n + (3 + k)] = B[3 + k]
      BY <1>8, <3>1
    <3> QED BY <1>3, <1>10, <3>1, <3>2
  <2> QED BY <1>3, <1>8, <1>10, <2>2, <2>3
<1>11. ASSUME NEW i \in 1 .. Len(E)
       PROVE  \/ \E k \in 1 .. n : (i = 2 * k - 1 /\ E[i] = HangsBy(d, L, k)) \/ E[i] = AlsoBy(d, L, k)
              \/ m # 0 /\ \/ E[i] = Below(d)
                          \/ i = 2 * n + 2 /\ E[i] = HeadOf(d)
                          \/ i = 2 * n + 3 /\ E[i] = EndOf(d, m)
                          \/ \E k \in 1 .. m - 1 : i = 2 * n + 3 + k /\ E[i] = NextOf(d, k)
  <2>1. CASE i \in 1 .. 2 * n
    <3>1. PICK k \in 1 .. n : i = 2 * k - 1 \/ i = 2 * k
      BY <1>1, <2>1, HalfOf
    <3> QED BY <1>9, <3>1
  <2>2. CASE i \notin 1 .. 2 * n
    <3>1. m # 0 /\ b = m + 2
      BY <1>1, <1>8, <2>2 DEF b
    <3>2. i \in 2 * n + 1 .. 2 * n + (m + 2)
      BY <1>1, <1>8, <2>2, <3>1
    <3>3. i = 2 * n + 1 \/ i = 2 * n + 2 \/ i = 2 * n + 3 \/ (i - (2 * n + 3) \in 1 .. m - 1 /\ i = 2 * n + 3 + (i - (2 * n + 3)))
      BY <1>1, <3>2
    <3> QED BY <1>10, <3>1, <3>3
  <2> QED BY <2>1, <2>2
<1>12. AreEdgesOf(E, d, L, m)
  BY <1>8, <1>9, <1>10, <1>11 DEF AreEdgesOf, n
<1> QED BY <1>12 DEF E, A, B

----------------------------------------------------------------------------
(* The edges of a document in a store                                       *)

\* An edge of a document leads from a node of the document to another, and down if it is a doc-child edge.
IsStored(e) ==
  /\ e.id = <<e.id[1], e.id[2]>> /\ e.id[2] \in Nat \ {0}
  /\ e.source[1] = e.id[1] /\ e.target[1] = e.id[1] /\ e.documentIds \subseteq {Root(e.id[1])}
  /\ e.kind = "doc-child" => Depth(e.source[2]) < Depth(e.target[2])

LEMMA NumberedIs ==
  ASSUME NEW d, NEW i, NEW kind, NEW s, NEW x, NEW docs, NEW order, NEW y, y = Edge(kind, s, x, docs, order)
  PROVE  LET e == Numbered(d, i, y)
         IN /\ e.id = <<d, i>> /\ e.id[1] = d /\ e.id[2] = i
            /\ e.kind = kind /\ e.source = s /\ e.target = x /\ e.documentIds = docs /\ e.order = order
  BY EdgeIsAs DEF Numbered

LEMMA NodeIs ==
  ASSUME NEW d
  PROVE  /\ Root(d)[1] = d /\ Root(d)[2] = "div"
         /\ \A i : Section(d, i)[1] = d /\ Section(d, i)[2] = "section"
  BY DEF Root, Section

LEMMA ParentNode ==
  ASSUME NEW d, NEW L, NEW m, AreLeaves(L, m), NEW k \in 1 .. Len(L)
  PROVE  ParentId(d, L, k)[1] = d /\ Depth(ParentId(d, L, k)[2]) < Depth(L[k].type)
<1>1. L[k].type \in Outer \cup Inner \cup Innermost /\ (L[k].up # 0 => Depth(L[L[k].up].type) < Depth(L[k].type))
  BY DEF AreLeaves
<1>2. Depth("div") = 0 /\ Depth("section") = 0 /\ Depth(L[k].type) \in 1 .. 3
  BY <1>1, TypesDiffer
<1>3. CASE L[k].up # 0
  <2>1. ParentId(d, L, k) = LeafId(d, L, L[k].up)
    BY <1>3 DEF ParentId
  <2>2. LeafId(d, L, L[k].up)[1] = d /\ LeafId(d, L, L[k].up)[2] = L[L[k].up].type
    BY DEF LeafId
  <2>3. ParentId(d, L, k)[1] = d /\ ParentId(d, L, k)[2] = L[L[k].up].type
    BY <2>1, <2>2
  <2> QED BY <1>1, <1>3, <2>3
<1>4. CASE L[k].up = 0 /\ L[k].section = 0
  <2>1. ParentId(d, L, k) = Root(d)
    BY <1>4 DEF ParentId
  <2>2. ParentId(d, L, k)[1] = d /\ ParentId(d, L, k)[2] = "div"
    BY <2>1, NodeIs
  <2> QED BY <1>2, <2>2
<1>5. CASE L[k].up = 0 /\ L[k].section # 0
  <2>1. ParentId(d, L, k) = Section(d, L[k].section)
    BY <1>5 DEF ParentId
  <2>2. ParentId(d, L, k)[1] = d /\ ParentId(d, L, k)[2] = "section"
    BY <2>1 DEF Section
  <2> QED BY <1>2, <2>2
<1> QED BY <1>3, <1>4, <1>5

\* The edges that matter, as they are stored.
Child(d, L, k) == Numbered(d, 2 * k - 1, HangsBy(d, L, k))
TheHead(d, L) == Numbered(d, 2 * Len(L) + 2, HeadOf(d))
TheEnd(d, L, m) == Numbered(d, 2 * Len(L) + 3, EndOf(d, m))
NextEdge(d, L, k) == Numbered(d, 2 * Len(L) + 3 + k, NextOf(d, k))

LEMMA ChildIs ==
  ASSUME NEW d, NEW L, NEW k
  PROVE  LET e == Child(d, L, k)
         IN /\ e.id = <<d, 2 * k - 1>> /\ e.kind = "doc-child" /\ e.documentIds = {}
            /\ e.source = ParentId(d, L, k) /\ e.target = LeafId(d, L, k) /\ e.order = Place(L, k)
  BY NumberedIs DEF Child, HangsBy

LEMMA HeadEdgeIs ==
  ASSUME NEW d, NEW L
  PROVE  LET e == TheHead(d, L)
         IN e.id[1] = d /\ e.kind = "doc-head" /\ e.documentIds = {Root(d)} /\ e.source = Section(d, 1)
  BY NumberedIs DEF TheHead, HeadOf

LEMMA EndEdgeIs ==
  ASSUME NEW d, NEW L, NEW m
  PROVE  LET e == TheEnd(d, L, m)
         IN e.id[1] = d /\ e.kind = "doc-end" /\ e.documentIds = {Root(d)} /\ e.source = Section(d, m)
  BY NumberedIs DEF TheEnd, EndOf

LEMMA NextEdgeIs ==
  ASSUME NEW d, NEW L, NEW k
  PROVE  LET e == NextEdge(d, L, k)
         IN /\ e.id[1] = d /\ e.kind = "next-section" /\ e.documentIds = {Root(d)}
            /\ e.source = Section(d, k) /\ e.target = Section(d, k + 1)
  BY NumberedIs DEF NextEdge, NextOf

\* A set of stored edges of a document that has these leaves and sections.
AreOwn(X, d, L, m) ==
  /\ \A e \in X : IsStored(e) /\ e.id[1] = d
  /\ \A k \in 1 .. Len(L) : Child(d, L, k) \in X
  /\ \A e \in X : e.kind = "doc-child" => \E k \in 1 .. Len(L) : e = Child(d, L, k)
  /\ {e \in X : e.kind = "doc-head"} = {TheHead(d, L)}
  /\ {e \in X : e.kind = "doc-end"} = {TheEnd(d, L, m)}
  /\ {e \in X : e.kind = "next-section"} = {NextEdge(d, L, k) : k \in 1 .. m - 1}
  /\ \A e \in X : e.kind \in {"doc-head", "doc-end", "next-section"} => e.documentIds = {Root(d)}

LEMMA NumberedOwn ==
  ASSUME NEW d, NEW L, NEW m, AreLeaves(L, m), m # 0, NEW P, AreEdgesOf(P, d, L, m)
  PROVE  AreOwn({Numbered(d, i, P[i]) : i \in 1 .. Len(P)}, d, L, m)
<1> DEFINE X == {Numbered(d, i, P[i]) : i \in 1 .. Len(P)}
           At(i, y) == i \in 1 .. Len(P) /\ P[i] = y
<1>1. /\ Len(P) \in Nat
      /\ \A k \in 1 .. Len(L) : 2 * k - 1 \in 1 .. Len(P) /\ P[2 * k - 1] = HangsBy(d, L, k)
      /\ 2 * Len(L) + 2 \in 1 .. Len(P) /\ P[2 * Len(L) + 2] = HeadOf(d)
      /\ 2 * Len(L) + 3 \in 1 .. Len(P) /\ P[2 * Len(L) + 3] = EndOf(d, m)
      /\ \A k \in 1 .. m - 1 : 2 * Len(L) + 3 + k \in 1 .. Len(P) /\ P[2 * Len(L) + 3 + k] = NextOf(d, k)
  BY DEF AreEdgesOf
<1>2. /\ \A k \in 1 .. Len(L) : Child(d, L, k) \in X
      /\ TheHead(d, L) \in X /\ TheEnd(d, L, m) \in X
      /\ \A k \in 1 .. m - 1 : NextEdge(d, L, k) \in X
  <2>1. \A k \in 1 .. Len(L) : Child(d, L, k) = Numbered(d, 2 * k - 1, P[2 * k - 1])
    BY <1>1 DEF Child
  <2>2. TheHead(d, L) = Numbered(d, 2 * Len(L) + 2, P[2 * Len(L) + 2])
    BY <1>1 DEF TheHead
  <2>3. TheEnd(d, L, m) = Numbered(d, 2 * Len(L) + 3, P[2 * Len(L) + 3])
    BY <1>1 DEF TheEnd
  <2>4. \A k \in 1 .. m - 1 : NextEdge(d, L, k) = Numbered(d, 2 * Len(L) + 3 + k, P[2 * Len(L) + 3 + k])
    BY <1>1 DEF NextEdge
  <2> QED BY <1>1, <2>1, <2>2, <2>3, <2>4
\* Each edge is one of six.
<1>3. ASSUME NEW i \in 1 .. Len(P)
      PROVE  LET e == Numbered(d, i, P[i])
             IN /\ IsStored(e) /\ e.id[1] = d
                /\ \/ e.kind = "doc-child" /\ \E k \in 1 .. Len(L) : e = Child(d, L, k)
                   \/ e.kind = "parent-child"
                   \/ e.kind = "doc-head" /\ e = TheHead(d, L)
                   \/ e.kind = "doc-end" /\ e = TheEnd(d, L, m)
                   \/ e.kind = "next-section" /\ \E k \in 1 .. m - 1 : e = NextEdge(d, L, k)
  <2> DEFINE e == Numbered(d, i, P[i])
  <2>0. i \in Nat \ {0}
    BY <1>1
  <2>1. CASE \E k \in 1 .. Len(L) : i = 2 * k - 1 /\ P[i] = HangsBy(d, L, k)
    <3>1. PICK k \in 1 .. Len(L) : i = 2 * k - 1 /\ P[i] = HangsBy(d, L, k)
      BY <2>1
    <3>2. e = Child(d, L, k)
      BY <3>1 DEF Child
    <3>3. e.id = <<d, i>> /\ e.kind = "doc-child" /\ e.documentIds = {} /\ e.source = ParentId(d, L, k) /\ e.target = LeafId(d, L, k)
      BY <3>1, <3>2, ChildIs
    <3>4. e.source[1] = d /\ e.target[1] = d /\ Depth(e.source[2]) < Depth(e.target[2])
      <4>1. ParentId(d, L, k)[1] = d /\ Depth(ParentId(d, L, k)[2]) < Depth(L[k].type)
        BY ParentNode
      <4>2. LeafId(d, L, k)[1] = d /\ LeafId(d, L, k)[2] = L[k].type
        BY DEF LeafId
      <4> QED BY <3>3, <4>1, <4>2
    <3> HIDE DEF e
    <3>5. IsStored(e) /\ e.id[1] = d
      BY <2>0, <3>3, <3>4 DEF IsStored
    <3> QED BY <3>2, <3>3, <3>5 DEF e
  <2>2. CASE \E k \in 1 .. Len(L) : P[i] = AlsoBy(d, L, k)
    <3>1. PICK k \in 1 .. Len(L) : P[i] = AlsoBy(d, L, k)
      BY <2>2
    <3>2. e.id = <<d, i>> /\ e.kind = "parent-child" /\ e.documentIds = {} /\ e.source = ParentId(d, L, k) /\ e.target = LeafId(d, L, k)
      BY <3>1, NumberedIs DEF AlsoBy
    <3>3. e.source[1] = d /\ e.target[1] = d
      <4>1. ParentId(d, L, k)[1] = d /\ LeafId(d, L, k)[1] = d
        BY ParentNode DEF LeafId
      <4> QED BY <3>2, <4>1
    <3> HIDE DEF e
    <3>4. IsStored(e) /\ e.id[1] = d
      BY <2>0, <3>2, <3>3 DEF IsStored
    <3> QED BY <3>2, <3>4 DEF e
  <2>3. CASE P[i] = Below(d)
    <3>1. e.id = <<d, i>> /\ e.kind = "parent-child" /\ e.documentIds = {} /\ e.source = Root(d) /\ e.target = Section(d, 1)
      BY <2>3, NumberedIs DEF Below
    <3>2. e.source[1] = d /\ e.target[1] = d
      BY <3>1, NodeIs
    <3> HIDE DEF e
    <3>3. IsStored(e) /\ e.id[1] = d
      BY <2>0, <3>1, <3>2 DEF IsStored
    <3> QED BY <3>1, <3>3 DEF e
  <2>4. CASE i = 2 * Len(L) + 2 /\ P[i] = HeadOf(d)
    <3>1. e.id = <<d, i>> /\ e.kind = "doc-head" /\ e.documentIds = {Root(d)} /\ e.source = Section(d, 1) /\ e.target = Root(d)
      BY <2>4, NumberedIs DEF HeadOf
    <3>2. e.source[1] = d /\ e.target[1] = d /\ e = TheHead(d, L)
      BY <2>4, <3>1, NodeIs DEF TheHead
    <3> HIDE DEF e
    <3>3. IsStored(e) /\ e.id[1] = d
      BY <2>0, <3>1, <3>2 DEF IsStored
    <3> QED BY <3>1, <3>2, <3>3 DEF e
  <2>5. CASE i = 2 * Len(L) + 3 /\ P[i] = EndOf(d, m)
    <3>1. e.id = <<d, i>> /\ e.kind = "doc-end" /\ e.documentIds = {Root(d)} /\ e.source = Section(d, m) /\ e.target = Root(d)
      BY <2>5, NumberedIs DEF EndOf
    <3>2. e.source[1] = d /\ e.target[1] = d /\ e = TheEnd(d, L, m)
      BY <2>5, <3>1, NodeIs DEF TheEnd
    <3> HIDE DEF e
    <3>3. IsStored(e) /\ e.id[1] = d
      BY <2>0, <3>1, <3>2 DEF IsStored
    <3> QED BY <3>1, <3>2, <3>3 DEF e
  <2>6. CASE \E k \in 1 .. m - 1 : i = 2 * Len(L) + 3 + k /\ P[i] = NextOf(d, k)
    <3>1. PICK k \in 1 .. m - 1 : i = 2 * Len(L) + 3 + k /\ P[i] = NextOf(d, k)
      BY <2>6
    <3>2. /\ e.id = <<d, i>> /\ e.kind = "next-section" /\ e.documentIds = {Root(d)}
          /\ e.source = Section(d, k) /\ e.target = Section(d, k + 1)
      BY <3>1, NumberedIs DEF NextOf
    <3>3. e.source[1] = d /\ e.target[1] = d /\ e = NextEdge(d, L, k)
      BY <3>1, <3>2, NodeIs, SMTT(30) DEF NextEdge
    <3> HIDE DEF e
    <3>4. IsStored(e) /\ e.id[1] = d
      BY <2>0, <3>2, <3>3 DEF IsStored
    <3> QED BY <3>2, <3>3, <3>4 DEF e
  <2>7. \/ \E k \in 1 .. Len(L) : (i = 2 * k - 1 /\ P[i] = HangsBy(d, L, k)) \/ P[i] = AlsoBy(d, L, k)
        \/ P[i] = Below(d)
        \/ i = 2 * Len(L) + 2 /\ P[i] = HeadOf(d)
        \/ i = 2 * Len(L) + 3 /\ P[i] = EndOf(d, m)
        \/ \E k \in 1 .. m - 1 : i = 2 * Len(L) + 3 + k /\ P[i] = NextOf(d, k)
    BY DEF AreEdgesOf
  <2> HIDE DEF e
  <2> QED BY <2>1, <2>2, <2>3, <2>4, <2>5, <2>6, <2>7
<1> HIDE DEF X
<1>4. ASSUME NEW e \in X
      PROVE  /\ IsStored(e) /\ e.id[1] = d
             /\ \/ e.kind = "doc-child" /\ \E k \in 1 .. Len(L) : e = Child(d, L, k)
                \/ e.kind = "parent-child"
                \/ e.kind = "doc-head" /\ e = TheHead(d, L)
                \/ e.kind = "doc-end" /\ e = TheEnd(d, L, m)
                \/ e.kind = "next-section" /\ \E k \in 1 .. m - 1 : e = NextEdge(d, L, k)
  <2>1. PICK i \in 1 .. Len(P) : e = Numbered(d, i, P[i])
    BY DEF X
  <2> QED BY <1>3, <2>1
<1>5. /\ TheHead(d, L).kind = "doc-head" /\ TheHead(d, L).documentIds = {Root(d)}
      /\ TheEnd(d, L, m).kind = "doc-end" /\ TheEnd(d, L, m).documentIds = {Root(d)}
      /\ \A k : NextEdge(d, L, k).kind = "next-section" /\ NextEdge(d, L, k).documentIds = {Root(d)}
  BY HeadEdgeIs, EndEdgeIs, NextEdgeIs
<1>6. /\ \A e \in X : e.kind = "doc-child" => \E k \in 1 .. Len(L) : e = Child(d, L, k)
      /\ \A e : e \in X /\ e.kind = "doc-head" <=> e = TheHead(d, L)
      /\ \A e : e \in X /\ e.kind = "doc-end" <=> e = TheEnd(d, L, m)
      /\ \A e : e \in X /\ e.kind = "next-section" <=> \E k \in 1 .. m - 1 : e = NextEdge(d, L, k)
  BY <1>2, <1>4, <1>5
<1>7. \A e \in X : e.kind \in {"doc-head", "doc-end", "next-section"} => e.documentIds = {Root(d)}
  BY <1>5, <1>6
<1>8. AreOwn(X, d, L, m)
  BY <1>2, <1>4, <1>6, <1>7 DEF AreOwn
<1> QED BY <1>8 DEF X

----------------------------------------------------------------------------
\* The edges of a store that imports filled: each id once.
OneEach(E) == E \in Seq(ToSet(E)) /\ IsInjective(E) /\ \A e, f \in ToSet(E) : e.id = f.id => e = f
LibraryIs(E) == OneEach(E) /\ \A e \in ToSet(E) : IsStored(e)

\* A document stands in a list of edges with these leaves and sections.
Carries(E, d, L, m) ==
  /\ E \in Seq(ToSet(E)) /\ IsInjective(E)
  /\ \A e \in ToSet(E) : e.kind = "doc-child" => Depth(e.source[2]) < Depth(e.target[2])
  /\ \A k \in 1 .. Len(L) : Child(d, L, k) \in ToSet(E)
  /\ \A e \in ToSet(E) : e.kind = "doc-child" /\ e.source[1] = d => \E k \in 1 .. Len(L) : e = Child(d, L, k)
  /\ OwnOf(E, Root(d), "doc-head") = {TheHead(d, L)}
  /\ OwnOf(E, Root(d), "doc-end") = {TheEnd(d, L, m)}
  /\ OwnOf(E, Root(d), "next-section") = {NextEdge(d, L, k) : k \in 1 .. m - 1}

LEMMA LibraryCarries ==
  ASSUME NEW E, LibraryIs(E), NEW d, NEW L, NEW m, AreOwn({e \in ToSet(E) : e.id[1] = d}, d, L, m)
  PROVE  Carries(E, d, L, m)
<1> DEFINE X == {e \in ToSet(E) : e.id[1] = d}
<1>1. /\ E \in Seq(ToSet(E)) /\ IsInjective(E)
      /\ \A e \in ToSet(E) : IsStored(e)
  BY DEF LibraryIs, OneEach
<1>2. \A e \in ToSet(E) : Root(d) \in e.documentIds => e \in X
  <2>1. ASSUME NEW e \in ToSet(E), Root(d) \in e.documentIds PROVE e.id[1] = d
    <3>1. Root(d) = Root(e.id[1])
      BY <1>1, <2>1 DEF IsStored
    <3> QED BY <3>1, NodeIs
  <2> QED BY <2>1
<1>3. \A e \in ToSet(E) : e.source[1] = d => e \in X
  BY <1>1 DEF IsStored
<1>4. X \subseteq ToSet(E)
  OBVIOUS
<1> HIDE DEF X
<1>5. AreOwn(X, d, L, m)
  BY DEF X
<1>6. \A e \in X : e.kind \in {"doc-head", "doc-end", "next-section"} => Root(d) \in e.documentIds
  BY <1>5 DEF AreOwn
<1>7. /\ OwnOf(E, Root(d), "doc-head") = {e \in X : e.kind = "doc-head"}
      /\ OwnOf(E, Root(d), "doc-end") = {e \in X : e.kind = "doc-end"}
      /\ OwnOf(E, Root(d), "next-section") = {e \in X : e.kind = "next-section"}
  BY <1>2, <1>4, <1>6 DEF OwnOf
<1>8. /\ OwnOf(E, Root(d), "doc-head") = {TheHead(d, L)}
      /\ OwnOf(E, Root(d), "doc-end") = {TheEnd(d, L, m)}
      /\ OwnOf(E, Root(d), "next-section") = {NextEdge(d, L, k) : k \in 1 .. m - 1}
  BY <1>5, <1>7 DEF AreOwn
<1>9. \A e \in ToSet(E) : e.kind = "doc-child" /\ e.source[1] = d => \E k \in 1 .. Len(L) : e = Child(d, L, k)
  BY <1>3, <1>5 DEF AreOwn
<1>10. \A k \in 1 .. Len(L) : Child(d, L, k) \in ToSet(E)
  BY <1>4, <1>5 DEF AreOwn
<1>11. \A e \in ToSet(E) : e.kind = "doc-child" => Depth(e.source[2]) < Depth(e.target[2])
  BY <1>1 DEF IsStored
<1> QED BY <1>1, <1>8, <1>9, <1>10, <1>11 DEF Carries

----------------------------------------------------------------------------
(* The flow of a document                                                   *)

LEMMA DepthIs == ASSUME NEW x PROVE Depth(x) \in 0 .. 3
  BY DEF Depth

\* Nothing holds itself where every edge leads down.
LEMMA DeeperHasNoCycle ==
  ASSUME NEW EE, NEW E \in Seq(EE), \A e \in ToSet(E) : e.kind = "doc-child" => Depth(e.source[2]) < Depth(e.target[2])
  PROVE  ~ HasCycle(E)
<1> SUFFICES ASSUME HasCycle(E) PROVE FALSE
  OBVIOUS
<1>1. PICK n : n \in Closure(E, Targets(OfKind(E, "doc-child"), {n}))
  BY DEF HasCycle
<1> DEFINE S == Targets(OfKind(E, "doc-child"), {n})
           C == Closure(E, S)
           T == {x \in C : Depth(n[2]) < Depth(x[2])}
<1>2. /\ S \subseteq C /\ DownClosed(E, C)
      /\ \A U : S \subseteq U /\ DownClosed(E, U) => C \subseteq U
  <2> HIDE DEF S
  <2> QED BY ClosureIs
<1>3. \A x \in S : Depth(n[2]) < Depth(x[2])
  <2>1. \A x : x \in S <=> Holds(E, n, x)
    BY DownTargets
  <2> HIDE DEF S
  <2> QED BY <2>1 DEF Holds
<1> HIDE DEF S, C
<1>4. S \subseteq T
  BY <1>2, <1>3
<1>5. DownClosed(E, T)
  <2>1. ASSUME NEW e \in ToSet(E), e.kind = "doc-child", e.source \in T PROVE e.target \in T
    <3>1. e.target \in C
      BY <1>2, <2>1 DEF DownClosed
    <3>2. Depth(n[2]) < Depth(e.source[2]) /\ Depth(e.source[2]) < Depth(e.target[2])
      BY <2>1
    <3>3. Depth(n[2]) < Depth(e.target[2])
      <4>1. Depth(n[2]) \in 0 .. 3 /\ Depth(e.source[2]) \in 0 .. 3 /\ Depth(e.target[2]) \in 0 .. 3
        BY DepthIs
      <4> DEFINE a == Depth(n[2])
                 b == Depth(e.source[2])
                 c == Depth(e.target[2])
      <4> HIDE DEF a, b, c
      <4>2. a \in 0 .. 3 /\ b \in 0 .. 3 /\ c \in 0 .. 3 /\ a < b /\ b < c
        BY <3>2, <4>1 DEF a, b, c
      <4>3. a < c
        BY <4>2
      <4> QED BY <4>3 DEF a, c
    <3> QED BY <3>1, <3>3
  <2> HIDE DEF T
  <2> QED BY <2>1 DEF DownClosed
<1>6. n \in T
  <2>1. C \subseteq T
    BY <1>2, <1>4, <1>5
  <2> QED BY <1>1, <2>1 DEF C, S
<1>7. Depth(n[2]) \in 0 .. 3 /\ Depth(n[2]) < Depth(n[2])
  BY <1>6, DepthIs
<1> QED BY <1>7

\* The sections of a document, in the order of its text.
Flow(d, m) == [k \in 1 .. m |-> Section(d, k)]

LEMMA FlowOf ==
  ASSUME NEW d, NEW m \in Nat, m >= 1
  PROVE  /\ Flow(d, m) \in Seq({Section(d, k) : k \in 1 .. m}) /\ Len(Flow(d, m)) = m /\ DOMAIN Flow(d, m) = 1 .. m
         /\ \A k \in 1 .. m : Flow(d, m)[k] = Section(d, k)
         /\ Last(Flow(d, m)) = Section(d, m) /\ IsInjective(Flow(d, m))
<1> DEFINE N == {Section(d, k) : k \in 1 .. m}
           s == Flow(d, m)
<1>1. s \in [1 .. m -> N] /\ \A k \in 1 .. m : s[k] = Section(d, k)
  BY DEF Flow
<1> HIDE DEF N, s
<1>2. s \in Seq(N) /\ Len(s) = m /\ DOMAIN s = 1 .. m
  BY <1>1
<1>3. Last(s) = Section(d, m)
  BY <1>1, <1>2 DEF Last
<1>4. IsInjective(s)
  BY <1>1, <1>2 DEF IsInjective, Section
<1> QED BY <1>1, <1>2, <1>3, <1>4 DEF s, N

LEMMA FlowHolds ==
  ASSUME NEW E, NEW d, NEW L, NEW m \in Nat, m >= 1, Carries(E, d, L, m)
  PROVE  ValidateDocFlow(E, Root(d)).ok /\ ValidateDocFlow(E, Root(d)).order = Flow(d, m)
<1> DEFINE EE == ToSet(E)
           r == Root(d)
           h == TheHead(d, L)
           s == Flow(d, m)
           N == {Section(d, k) : k \in 1 .. m}
           scoped == EdgesForDocument(E, r)
           ends == OfKind(scoped, "doc-end")
<1>1. /\ E \in Seq(EE) /\ IsInjective(E)
      /\ \A e \in ToSet(E) : e.kind = "doc-child" => Depth(e.source[2]) < Depth(e.target[2])
      /\ OwnOf(E, r, "doc-head") = {h} /\ OwnOf(E, r, "doc-end") = {TheEnd(d, L, m)}
      /\ OwnOf(E, r, "next-section") = {NextEdge(d, L, k) : k \in 1 .. m - 1}
  BY DEF Carries
<1>2. /\ s \in Seq(N) /\ Len(s) = m /\ \A k \in 1 .. m : s[k] = Section(d, k)
      /\ Last(s) = Section(d, m) /\ IsInjective(s)
  BY FlowOf
<1>3. /\ h.source = Section(d, 1) /\ TheEnd(d, L, m).source = Section(d, m)
      /\ \A k : NextEdge(d, L, k).source = Section(d, k) /\ NextEdge(d, L, k).target = Section(d, k + 1)
  BY HeadEdgeIs, EndEdgeIs, NextEdgeIs
<1> HIDE DEF EE, r, h, s
<1>4. scoped \in Seq(EE) /\ ToSet(scoped) \subseteq ToSet(E)
  <2>1. /\ scoped \in Seq(EE)
        /\ ToSet(scoped) = {e \in ToSet(E) : /\ r \in e.documentIds \/ e.kind = "doc-child"
                                             /\ \E f \in ToSet(E) : r \in f.documentIds}
    BY <1>1, ScopedIs
  <2> HIDE DEF scoped
  <2> QED BY <2>1
<1>5. \A x, y : y \in Next(scoped, x) <=> \E e \in OwnOf(E, r, "next-section") : e.source = x /\ e.target = y
  BY <1>1, OwnNext
<1>6. ToSet(OfKind(scoped, "next-section")) = OwnOf(E, r, "next-section") /\ ToSet(ends) = OwnOf(E, r, "doc-end")
  BY <1>1, OwnIs
<1>7. ends # <<>> => Head(ends) \in OwnOf(E, r, "doc-end")
  BY <1>1, EndsAre
<1>8. OwnOf(E, r, "doc-end") # {} => ends # <<>>
  BY <1>1, EndsAre
<1> HIDE DEF ends, scoped
<1>9. \A x, y : y \in Next(scoped, x) <=> \E k \in 1 .. m - 1 : x = Section(d, k) /\ y = Section(d, k + 1)
  BY <1>1, <1>3, <1>5
<1>10. NextIn(scoped, N)
  <2>1. ToSet(OfKind(scoped, "next-section")) = {e \in ToSet(scoped) : e.kind = "next-section"}
    BY <1>4, KindIs
  <2>2. ASSUME NEW e \in ToSet(scoped), e.kind = "next-section" PROVE e.target \in N
    <3>1. PICK k \in 1 .. m - 1 : e = NextEdge(d, L, k)
      BY <1>1, <1>6, <2>1, <2>2
    <3>2. k + 1 \in 1 .. m /\ e.target = Section(d, k + 1)
      BY <1>3, <3>1
    <3> QED BY <3>2
  <2> QED BY <2>2 DEF NextIn
<1>11. Leads(scoped, h.source, s, N)
  <2>1. ASSUME NEW i \in 1 .. m - 1 PROVE s[i + 1] \in Next(scoped, s[i])
    <3>1. i \in 1 .. m /\ i + 1 \in 1 .. m
      OBVIOUS
    <3> QED BY <1>2, <1>9, <3>1
  <2>2. s[1] = h.source
    BY <1>2, <1>3
  <2> QED BY <1>2, <2>1, <2>2 DEF Leads
<1>12. Next(scoped, Last(s)) = {}
  <2>1. \A k \in 1 .. m - 1 : Section(d, m) # Section(d, k)
    BY DEF Section
  <2> QED BY <1>2, <1>9, <2>1
<1>13. \A n : \A x, y \in Next(scoped, n) : x = y
  <2>1. \A j, k : Section(d, j) = Section(d, k) => j = k
    BY DEF Section
  <2> QED BY <1>9, <2>1
<1>14. h.source \in N
  BY <1>3
<1>15. Followed(scoped, h.source) = s
  <2> HIDE DEF N
  <2> QED BY <1>2, <1>4, <1>10, <1>11, <1>12, <1>13, <1>14, FollowedIsOnly
<1>16. ~ HasCycle(scoped)
  BY <1>1, <1>4, DeeperHasNoCycle
<1>17. ends # <<>> /\ Head(ends).source = Last(s)
  BY <1>1, <1>2, <1>3, <1>7, <1>8
<1>18. \A f, g \in OwnOf(E, r, "next-section") : f.source = g.source => f = g
  <2>1. \A j, k : Section(d, j) = Section(d, k) => j = k
    BY DEF Section
  <2> QED BY <1>1, <1>3, <2>1
<1>19. IsValid(E, r, h, s)
  BY <1>1, <1>2, <1>15, <1>16, <1>17, <1>18 DEF IsValid, scoped, ends
<1>20. \A e, order : IsValid(E, r, e, order) => ValidateDocFlow(E, r).ok /\ ValidateDocFlow(E, r).order = order
  BY <1>1, VerdictIs
<1> QED BY <1>19, <1>20 DEF r, s

----------------------------------------------------------------------------
(* What hangs under a node of a document                                    *)

\* The root and the sections, which the reading goes along.
Trunk(d, i) == IF i = 0 THEN Root(d) ELSE Section(d, i)

LEMMA TrunkHolds ==
  ASSUME NEW d, NEW L, NEW m, AreLeaves(L, m), NEW i \in 0 .. m, NEW k \in 1 .. Len(L)
  PROVE  ParentId(d, L, k) = Trunk(d, i) <=> L[k].up = 0 /\ L[k].section = i
<1>1. i = 0 \/ i \in 1 .. m
  BY DEF AreLeaves
<1>2. CASE i = 0
  <2>1. ParentId(d, L, k) = Root(d) <=> L[k].up = 0 /\ L[k].section = 0
    BY ParentIs
  <2> QED BY <1>2, <2>1 DEF Trunk
<1>3. CASE i \in 1 .. m
  <2>1. ParentId(d, L, k) = Section(d, i) <=> L[k].up = 0 /\ L[k].section = i
    BY <1>3, ParentIs
  <2> QED BY <1>3, <2>1 DEF Trunk
<1> QED BY <1>1, <1>2, <1>3

LEMMA TrunkIs ==
  ASSUME NEW d, NEW L, NEW m, AreLeaves(L, m)
  PROVE  /\ \A i \in 0 .. m : Trunk(d, i)[1] = d
         /\ \A i, j \in 0 .. m : Trunk(d, i) = Trunk(d, j) => i = j
         /\ \A i \in 0 .. m, k \in 1 .. Len(L) : LeafId(d, L, k) # Trunk(d, i)
         /\ \A i \in 0 .. m, k \in 1 .. Len(L) : ParentId(d, L, k) = Trunk(d, i) <=> L[k].up = 0 /\ L[k].section = i
<1>1. /\ \A c \in 1 .. Len(L) : LeafId(d, L, c) # Root(d) /\ \A i : LeafId(d, L, c) # Section(d, i)
      /\ \A i, j : Section(d, i) = Section(d, j) => i = j
      /\ \A i : Section(d, i) # Root(d)
  BY IdsDiffer
<1>2. m \in Nat /\ \A i \in 0 .. m : i = 0 \/ i \in 1 .. m
  BY DEF AreLeaves
<1>3. ASSUME NEW i \in 0 .. m, NEW k \in 1 .. Len(L)
      PROVE  ParentId(d, L, k) = Trunk(d, i) <=> L[k].up = 0 /\ L[k].section = i
  BY TrunkHolds
<1>4. \A i \in 0 .. m : Trunk(d, i)[1] = d
  BY DEF Trunk, Root, Section
<1>5. \A i, j \in 0 .. m : Trunk(d, i) = Trunk(d, j) => i = j
  BY <1>1 DEF Trunk
<1>6. \A i \in 0 .. m, k \in 1 .. Len(L) : LeafId(d, L, k) # Trunk(d, i)
  BY <1>1 DEF Trunk
<1> QED BY <1>3, <1>4, <1>5, <1>6

\* Where the doc-child edges of a document lead.
LEMMA Descends ==
  ASSUME NEW E, NEW d, NEW L, NEW m, AreLeaves(L, m), Carries(E, d, L, m),
         NEW e \in ToSet(E), e.kind = "doc-child", e.source[1] = d
  PROVE  \E l \in 1 .. Len(L) : e = Child(d, L, l) /\ e.source = ParentId(d, L, l) /\ e.target = LeafId(d, L, l)
<1>1. PICK l \in 1 .. Len(L) : e = Child(d, L, l)
  BY DEF Carries
<1> QED BY <1>1, ChildIs

\* A node and what hangs under it stand together, before the next one of the same parent.
LEMMA LeafClosure ==
  ASSUME NEW E, NEW d, NEW L, NEW m, AreLeaves(L, m), Carries(E, d, L, m),
         NEW c \in 1 .. Len(L), NEW b \in c + 1 .. Len(L) + 1, b = Len(L) + 1 \/ L[b].up = L[c].up
  PROVE  Closure(E, {LeafId(d, L, c)}) \subseteq {LeafId(d, L, k) : k \in c .. b - 1}
<1> DEFINE T == {LeafId(d, L, k) : k \in c .. b - 1}
<1>1. /\ Len(L) \in Nat
      /\ \A k \in 1 .. Len(L) : L[k].up \in 0 .. k - 1
      /\ \A k, l \in 1 .. Len(L) : L[l].up < k /\ k < l => L[l].up <= L[k].up
  BY DEF AreLeaves
<1>2. c \in Nat /\ b \in Nat /\ c .. b - 1 \subseteq 1 .. Len(L) /\ c \in c .. b - 1 /\ (b = Len(L) + 1 \/ b \in 1 .. Len(L))
  BY <1>1
<1>3. ASSUME NEW e \in ToSet(E), e.kind = "doc-child", e.source \in T PROVE e.target \in T
  <2>1. PICK j \in c .. b - 1 : e.source = LeafId(d, L, j)
    BY <1>3
  <2>2. e.source[1] = d
    BY <2>1 DEF LeafId
  <2>3. PICK l \in 1 .. Len(L) : e.source = ParentId(d, L, l) /\ e.target = LeafId(d, L, l)
    BY <1>3, <2>2, Descends
  <2>4. L[l].up = j
    <3>1. j \in 1 .. Len(L)
      BY <1>2
    <3>2. /\ \A x \in 1 .. Len(L) : ParentId(d, L, l) = LeafId(d, L, x) <=> L[l].up = x
          /\ ParentId(d, L, l) = Root(d) <=> L[l].up = 0 /\ L[l].section = 0
          /\ \A x \in 1 .. m : ParentId(d, L, l) = Section(d, x) <=> L[l].up = 0 /\ L[l].section = x
      <4> HIDE DEF T
      <4> QED BY ParentIs
    <3>3. ParentId(d, L, l) = LeafId(d, L, j) <=> L[l].up = j
      BY <3>1, <3>2
    <3> QED BY <2>1, <2>3, <3>3
  <2>5. l \in Nat /\ j \in Nat /\ j < l /\ c <= j /\ j < b
    BY <1>1, <1>2, <2>4
  <2>6. l < b
    <3>1. CASE b = Len(L) + 1
      BY <1>1, <3>1
    <3>2. CASE b \in 1 .. Len(L) /\ L[b].up = L[c].up
      <4>1. L[b].up \in Nat /\ L[b].up < c
        BY <1>1, <1>2, <3>2
      <4>2. l # b
        BY <1>2, <2>4, <2>5, <4>1
      <4>3. ~(b < l)
        <5> SUFFICES ASSUME b < l PROVE FALSE
          OBVIOUS
        <5>1. L[l].up <= L[b].up
          BY <1>1, <2>4, <2>5, <3>2
        <5> QED BY <1>2, <2>4, <2>5, <4>1, <5>1
      <4> QED BY <1>2, <2>5, <4>2, <4>3
    <3> QED BY <1>2, <3>1, <3>2
  <2>7. l \in c .. b - 1
    BY <1>2, <2>5, <2>6
  <2> QED BY <2>3, <2>7
<1>4. LeafId(d, L, c) \in T
  BY <1>2
<1> HIDE DEF T
<1>5. DownClosed(E, T)
  BY <1>3 DEF DownClosed
<1>6. E \in Seq(ToSet(E))
  BY DEF Carries
<1>7. \A U : {LeafId(d, L, c)} \subseteq U /\ DownClosed(E, U) => Closure(E, {LeafId(d, L, c)}) \subseteq U
  BY <1>6, ClosureIs
<1>8. Closure(E, {LeafId(d, L, c)}) \subseteq T
  BY <1>4, <1>5, <1>7
<1> QED BY <1>8 DEF T

\* The sections, and what is before them, stay apart.
LEMMA TrunkClosure ==
  ASSUME NEW E, NEW d, NEW L, NEW m, AreLeaves(L, m), Carries(E, d, L, m), NEW i \in 0 .. m
  PROVE  Closure(E, {Trunk(d, i)}) \subseteq {Trunk(d, i)} \cup {LeafId(d, L, k) : k \in {l \in 1 .. Len(L) : L[l].section = i}}
<1> DEFINE S == {l \in 1 .. Len(L) : L[l].section = i}
           T == {Trunk(d, i)} \cup {LeafId(d, L, k) : k \in S}
<1>1. /\ Len(L) \in Nat /\ \A k \in 1 .. Len(L) : L[k].up # 0 => L[L[k].up].section = L[k].section
  BY DEF AreLeaves
<1>2. /\ Trunk(d, i)[1] = d
      /\ \A k \in 1 .. Len(L) : ParentId(d, L, k) = Trunk(d, i) <=> L[k].up = 0 /\ L[k].section = i
  BY TrunkIs
<1>3. ASSUME NEW e \in ToSet(E), e.kind = "doc-child", e.source \in T PROVE e.target \in T
  <2>1. e.source[1] = d
    BY <1>2, <1>3 DEF LeafId
  <2>2. PICK l \in 1 .. Len(L) : e.source = ParentId(d, L, l) /\ e.target = LeafId(d, L, l)
    BY <1>3, <2>1, Descends
  <2>3. L[l].section = i
    <3>1. CASE e.source = Trunk(d, i)
      BY <1>2, <2>2, <3>1
    <3>2. CASE \E k \in S : e.source = LeafId(d, L, k)
      <4>1. PICK k \in S : e.source = LeafId(d, L, k)
        BY <3>2
      <4>2. L[l].up = k /\ k # 0 /\ L[k].section = i
        <5>1. k \in 1 .. Len(L) /\ L[k].section = i
          OBVIOUS
        <5>2. ParentId(d, L, l) = LeafId(d, L, k) <=> L[l].up = k
          BY <5>1, ParentIs
        <5> QED BY <1>1, <2>2, <4>1, <5>1, <5>2
      <4> QED BY <1>1, <4>2
    <3> QED BY <1>3, <3>1, <3>2
  <2> QED BY <2>2, <2>3
<1>4. Trunk(d, i) \in T
  OBVIOUS
<1> HIDE DEF T
<1>5. DownClosed(E, T)
  BY <1>3 DEF DownClosed
<1>6. E \in Seq(ToSet(E))
  BY DEF Carries
<1>7. \A U : {Trunk(d, i)} \subseteq U /\ DownClosed(E, U) => Closure(E, {Trunk(d, i)}) \subseteq U
  BY <1>6, ClosureIs
<1>8. Closure(E, {Trunk(d, i)}) \subseteq T
  BY <1>4, <1>5, <1>7
<1> QED BY <1>8 DEF T

LEMMA WayClosure ==
  ASSUME NEW E, NEW d, NEW L, NEW m, AreLeaves(L, m), Carries(E, d, L, m)
  PROVE  Closure(E, {Trunk(d, i) : i \in 0 .. m}) \subseteq {Trunk(d, i) : i \in 0 .. m} \cup {LeafId(d, L, k) : k \in 1 .. Len(L)}
<1> DEFINE W == {Trunk(d, i) : i \in 0 .. m}
           T == W \cup {LeafId(d, L, k) : k \in 1 .. Len(L)}
<1>1. \A i \in 0 .. m : Trunk(d, i)[1] = d
  BY TrunkIs
<1>2. ASSUME NEW e \in ToSet(E), e.kind = "doc-child", e.source \in T PROVE e.target \in T
  <2>1. e.source[1] = d
    BY <1>1, <1>2 DEF LeafId
  <2>2. PICK l \in 1 .. Len(L) : e.target = LeafId(d, L, l)
    BY <1>2, <2>1, Descends
  <2> QED BY <2>2
<1>3. W \subseteq T
  OBVIOUS
<1> HIDE DEF T, W
<1>4. DownClosed(E, T)
  BY <1>2 DEF DownClosed
<1>5. E \in Seq(ToSet(E))
  BY DEF Carries
<1>6. \A U : W \subseteq U /\ DownClosed(E, U) => Closure(E, W) \subseteq U
  BY <1>5, ClosureIs
<1>7. Closure(E, W) \subseteq T
  BY <1>3, <1>4, <1>6
<1> QED BY <1>7 DEF T, W

\* Every leaf hangs under its section.
LEMMA LeafIsUnder ==
  ASSUME NEW E, NEW d, NEW L, NEW m, AreLeaves(L, m), Carries(E, d, L, m), NEW k \in 1 .. Len(L)
  PROVE  LeafId(d, L, k) \in Closure(E, {Trunk(d, L[k].section)})
<1> DEFINE In(l) == LeafId(d, L, l) \in Closure(E, {Trunk(d, L[l].section)})
           B == {l \in 1 .. Len(L) : ~ In(l)}
<1>1. /\ Len(L) \in Nat
      /\ \A l \in 1 .. Len(L) : /\ L[l].up \in 0 .. l - 1 /\ L[l].section \in 0 .. m
                                /\ L[l].up # 0 => L[L[l].up].section = L[l].section
  BY DEF AreLeaves
<1>2. /\ E \in Seq(ToSet(E))
      /\ \A l \in 1 .. Len(L) : Child(d, L, l) \in ToSet(E)
  BY DEF Carries
<1>3. \A S : S \subseteq Closure(E, S) /\ DownClosed(E, Closure(E, S))
  BY <1>2, ClosureIs
<1>4. ASSUME NEW l \in 1 .. Len(L), ParentId(d, L, l) \in Closure(E, {Trunk(d, L[l].section)}) PROVE In(l)
  <2>1. LET e == Child(d, L, l) IN e.kind = "doc-child" /\ e.source = ParentId(d, L, l) /\ e.target = LeafId(d, L, l)
    BY ChildIs
  <2>2. DownClosed(E, Closure(E, {Trunk(d, L[l].section)}))
    BY <1>3
  <2> QED BY <1>2, <1>4, <2>1, <2>2 DEF DownClosed
<1> HIDE DEF In
<1>5. ASSUME B # {} PROVE FALSE
  <2>1. B \in SUBSET Nat
    BY <1>1
  <2>2. \E l \in B : \A j \in B : l <= j
    <3> HIDE DEF B
    <3> QED BY <1>5, <2>1, LeastOf
  <2>3. PICK l \in B : \A j \in B : l <= j
    BY <2>2
  <2>4. l \in 1 .. Len(L) /\ ~ In(l)
    OBVIOUS
  <2>5. CASE L[l].up = 0
    <3>1. ParentId(d, L, l) = Trunk(d, L[l].section)
      BY <2>5 DEF ParentId, Trunk
    <3>2. Trunk(d, L[l].section) \in Closure(E, {Trunk(d, L[l].section)})
      BY <1>3
    <3> QED BY <1>4, <2>4, <3>1, <3>2
  <2>6. CASE L[l].up # 0
    <3> DEFINE j == L[l].up
    <3>1. j \in 1 .. Len(L) /\ ~(l <= j) /\ L[j].section = L[l].section
      BY <1>1, <2>4, <2>6
    <3>2. In(j)
      BY <2>3, <3>1
    <3>3. ParentId(d, L, l) = LeafId(d, L, j)
      BY <2>6 DEF ParentId
    <3> QED BY <1>4, <2>4, <3>1, <3>2, <3>3 DEF In
  <2> QED BY <2>5, <2>6
<1>6. In(k)
  BY <1>5
<1> QED BY <1>6 DEF In

----------------------------------------------------------------------------
(* A document in the store                                                  *)

\* One node has the id, and these lines.
HasLines(N, id, lines) == \E x \in N : x.id = id /\ x.lines = lines /\ \A y \in N : y.id = id => x = y

Lined(N, d, o) ==
  /\ HasLines(N, Root(d), <<>>)
  /\ \A i \in 1 .. Len(o.heads) : HasLines(N, Section(d, i), o.heads[i])
  /\ \A k \in 1 .. Len(o.leaves) : HasLines(N, LeafId(d, o.leaves, k), o.leaves[k].lines)

Stands(d, o) == Carries(library.edges, d, o.leaves, Len(o.heads)) /\ Lined(library.nodes, d, o)

\* The lines of a section's heading; before the first section there are none.
HeadLines(o, i) == IF i = 0 THEN <<>> ELSE o.heads[i]

LEMMA LinesOfTrunk ==
  ASSUME NEW N, NEW d, NEW o, Lined(N, d, o), NEW i \in 0 .. Len(o.heads)
  PROVE  HasLines(N, Trunk(d, i), HeadLines(o, i))
<1>1. CASE i = 0
  BY <1>1 DEF Lined, Trunk, HeadLines
<1>2. CASE i # 0
  <2>1. i \in 1 .. Len(o.heads)
    BY <1>2
  <2> QED BY <1>2, <2>1 DEF Lined, Trunk, HeadLines
<1> QED BY <1>1, <1>2

LEMMA UnderIs ==
  ASSUME NEW n, NEW x
  PROVE  x \in Under(n) <=> \E y \in library.nodes : y.id \in Closure(library.edges, {n}) /\ x \in ToSet(y.lines)
<1> DEFINE below == Closure(library.edges, {n})
<1>1. Under(n) = UNION {ToSet(z.lines) : z \in {y \in library.nodes : y.id \in below}}
  BY DEF Under
<1> HIDE DEF below
<1>2. x \in Under(n) <=> \E y \in library.nodes : y.id \in below /\ x \in ToSet(y.lines)
  BY <1>1
<1> QED BY <1>2 DEF below

LEMMA UnderLeaf ==
  ASSUME NEW d, NEW o, Stands(d, o), AreLeaves(o.leaves, Len(o.heads)),
         NEW c \in 1 .. Len(o.leaves), NEW b \in c + 1 .. Len(o.leaves) + 1,
         b = Len(o.leaves) + 1 \/ o.leaves[b].up = o.leaves[c].up,
         NEW x \in Under(LeafId(d, o.leaves, c))
  PROVE  \E k \in c .. b - 1 : k \in 1 .. Len(o.leaves) /\ x \in ToSet(o.leaves[k].lines)
<1> DEFINE L == o.leaves
           m == Len(o.heads)
<1>1. AreLeaves(L, m) /\ Carries(library.edges, d, L, m) /\ Lined(library.nodes, d, o)
  BY DEF Stands
<1>2. PICK y \in library.nodes : y.id \in Closure(library.edges, {LeafId(d, L, c)}) /\ x \in ToSet(y.lines)
  <2> HIDE DEF L
  <2>1. x \in Under(LeafId(d, L, c))
    BY DEF L
  <2> QED BY <2>1, UnderIs
<1>3. Closure(library.edges, {LeafId(d, L, c)}) \subseteq {LeafId(d, L, k) : k \in c .. b - 1}
  <2>1. c \in 1 .. Len(L) /\ b \in c + 1 .. Len(L) + 1 /\ (b = Len(L) + 1 \/ L[b].up = L[c].up)
    OBVIOUS
  <2> HIDE DEF L, m
  <2> QED BY <1>1, <2>1, LeafClosure
<1>4. PICK k \in c .. b - 1 : y.id = LeafId(d, L, k)
  BY <1>2, <1>3
<1>5. k \in 1 .. Len(L)
  BY <1>1 DEF AreLeaves
<1>6. HasLines(library.nodes, LeafId(d, L, k), L[k].lines)
  BY <1>1, <1>5 DEF Lined
<1>7. y.lines = L[k].lines
  BY <1>4, <1>6 DEF HasLines
<1> QED BY <1>2, <1>5, <1>7

LEMMA UnderTrunk ==
  ASSUME NEW d, NEW o, Stands(d, o), AreLeaves(o.leaves, Len(o.heads)), NEW i \in 0 .. Len(o.heads),
         NEW x \in Under(Trunk(d, i))
  PROVE  \/ x \in ToSet(HeadLines(o, i))
         \/ \E k \in 1 .. Len(o.leaves) : o.leaves[k].section = i /\ x \in ToSet(o.leaves[k].lines)
<1> DEFINE L == o.leaves
           m == Len(o.heads)
           S == {l \in 1 .. Len(L) : L[l].section = i}
<1>1. AreLeaves(L, m) /\ Carries(library.edges, d, L, m) /\ Lined(library.nodes, d, o)
  BY DEF Stands
<1>2. PICK y \in library.nodes : y.id \in Closure(library.edges, {Trunk(d, i)}) /\ x \in ToSet(y.lines)
  BY UnderIs
<1>3. Closure(library.edges, {Trunk(d, i)}) \subseteq {Trunk(d, i)} \cup {LeafId(d, L, k) : k \in S}
  <2>1. i \in 0 .. m
    OBVIOUS
  <2> HIDE DEF L, m
  <2> QED BY <1>1, <2>1, TrunkClosure
<1>4. CASE y.id = Trunk(d, i)
  <2>1. HasLines(library.nodes, Trunk(d, i), HeadLines(o, i))
    BY <1>1, LinesOfTrunk
  <2>2. y.lines = HeadLines(o, i)
    BY <1>4, <2>1 DEF HasLines
  <2> QED BY <1>2, <2>2
<1>5. CASE \E k \in S : y.id = LeafId(d, L, k)
  <2>1. PICK k \in S : y.id = LeafId(d, L, k)
    BY <1>5
  <2>2. HasLines(library.nodes, LeafId(d, L, k), L[k].lines)
    BY <1>1 DEF Lined
  <2>3. y.lines = L[k].lines
    BY <2>1, <2>2 DEF HasLines
  <2> QED BY <1>2, <2>3
<1> QED BY <1>2, <1>3, <1>4, <1>5

\* And all of its lines are there.
LEMMA NoneLost ==
  ASSUME NEW d, NEW o, Stands(d, o), AreLeaves(o.leaves, Len(o.heads)), NEW j, IsIn(o, j),
         DOMAIN o.heads = 1 .. Len(o.heads), DOMAIN o.leaves = 1 .. Len(o.leaves)
  PROVE  \E i \in 0 .. Len(o.heads) : j \in Under(Trunk(d, i))
<1> DEFINE L == o.leaves
           m == Len(o.heads)
<1>1. AreLeaves(L, m) /\ Carries(library.edges, d, L, m) /\ Lined(library.nodes, d, o) /\ m \in Nat
  BY DEF Stands, AreLeaves
<1>2. CASE \E k \in 1 .. Len(L) : j \in ToSet(L[k].lines)
  <2>1. PICK k \in 1 .. Len(L) : j \in ToSet(L[k].lines)
    BY <1>2
  <2> DEFINE i == L[k].section
  <2>2. i \in 0 .. m
    BY <1>1 DEF AreLeaves
  <2>3. LeafId(d, L, k) \in Closure(library.edges, {Trunk(d, i)})
    <3> HIDE DEF L, m
    <3> QED BY <1>1, LeafIsUnder
  <2>4. HasLines(library.nodes, LeafId(d, L, k), L[k].lines)
    BY <1>1 DEF Lined
  <2>5. \E y \in library.nodes : y.id \in Closure(library.edges, {Trunk(d, i)}) /\ j \in ToSet(y.lines)
    BY <2>1, <2>3, <2>4 DEF HasLines
  <2> HIDE DEF i
  <2>6. j \in Under(Trunk(d, i))
    BY <2>5, UnderIs
  <2> QED BY <2>2, <2>6
<1>3. CASE \E i \in 1 .. m : j \in ToSet(o.heads[i])
  <2>1. PICK i \in 1 .. m : j \in ToSet(o.heads[i])
    BY <1>3
  <2>2. i \in 0 .. m /\ HeadLines(o, i) = o.heads[i]
    BY <1>1 DEF HeadLines
  <2>3. HasLines(library.nodes, Trunk(d, i), HeadLines(o, i))
    BY <1>1, <2>2, LinesOfTrunk
  <2>4. Trunk(d, i) \in Closure(library.edges, {Trunk(d, i)})
    <3>1. library.edges \in Seq(ToSet(library.edges))
      BY <1>1 DEF Carries
    <3>2. {Trunk(d, i)} \subseteq Closure(library.edges, {Trunk(d, i)})
      BY <3>1, ClosureIs
    <3> QED BY <3>2
  <2>5. \E y \in library.nodes : y.id \in Closure(library.edges, {Trunk(d, i)}) /\ j \in ToSet(y.lines)
    BY <2>1, <2>2, <2>3, <2>4 DEF HasLines
  <2>6. j \in Under(Trunk(d, i))
    BY <2>5, UnderIs
  <2> QED BY <2>2, <2>6
<1> QED BY <1>2, <1>3 DEF IsIn

----------------------------------------------------------------------------
\* How the lines of an outline follow each other.
AreOrdered(o) ==
  /\ \A i, j \in 0 .. Len(o.heads) : i < j => AllBefore(ToSet(HeadLines(o, i)), ToSet(HeadLines(o, j)))
  /\ \A k, l \in 1 .. Len(o.leaves) : k < l => AllBefore(ToSet(o.leaves[k].lines), ToSet(o.leaves[l].lines))
  /\ \A i \in 0 .. Len(o.heads), k \in 1 .. Len(o.leaves) :
       IF i <= o.leaves[k].section THEN AllBefore(ToSet(HeadLines(o, i)), ToSet(o.leaves[k].lines))
       ELSE AllBefore(ToSet(o.leaves[k].lines), ToSet(HeadLines(o, i)))
  /\ \A i \in 0 .. Len(o.heads) : HeadLines(o, i) \in Seq(Nat) /\ Rising(HeadLines(o, i))
  /\ \A k \in 1 .. Len(o.leaves) : o.leaves[k].lines \in Seq(Nat) /\ Rising(o.leaves[k].lines)

LEMMA OutlineIsOrdered ==
  ASSUME NEW t, NEW o, IsOutline(t, o)
  PROVE  AreOrdered(o)
<1> DEFINE m == Len(o.heads)
           H(i) == ToSet(HeadLines(o, i))
           B(k) == ToSet(o.leaves[k].lines)
<1>1. /\ o.heads \in Seq(Seq(Nat)) /\ m \in Nat /\ DOMAIN o.heads = 1 .. m
      /\ DOMAIN o.leaves = 1 .. Len(o.leaves)
      /\ \A k \in 1 .. Len(o.leaves) : o.leaves[k].section \in 0 .. m
  BY OutlineIs
<1>2. HasHeads(o) /\ HasLeaves(o) /\ HeadsBetween(o)
  BY DEF IsOutline
<1>3. HeadLines(o, 0) = <<>> /\ H(0) = {} /\ \A i \in 1 .. m : HeadLines(o, i) = o.heads[i]
  BY DEF HeadLines, ToSet
<1>4. \A i \in 0 .. m : i = 0 \/ i \in 1 .. m
  BY <1>1
<1>5. ASSUME NEW i \in 0 .. m, NEW j \in 0 .. m, i < j PROVE AllBefore(H(i), H(j))
  <2>1. CASE i = 0
    BY <1>3, <2>1 DEF AllBefore
  <2>2. CASE i \in 1 .. m
    <3>1. j \in 1 .. m
      BY <1>1, <1>5, <2>2
    <3>2. AllBefore(ToSet(o.heads[i]), ToSet(o.heads[j]))
      BY <1>1, <1>2, <1>5, <2>2, <3>1 DEF HasHeads
    <3> QED BY <1>3, <2>2, <3>1, <3>2
  <2> QED BY <1>4, <2>1, <2>2
<1>6. ASSUME NEW i \in 0 .. m, NEW k \in 1 .. Len(o.leaves)
      PROVE  IF i <= o.leaves[k].section THEN AllBefore(H(i), B(k)) ELSE AllBefore(B(k), H(i))
  <2>1. CASE i = 0
    BY <1>3, <2>1 DEF AllBefore
  <2>2. CASE i \in 1 .. m
    <3>1. IF i <= o.leaves[k].section THEN AllBefore(ToSet(o.heads[i]), B(k)) ELSE AllBefore(B(k), ToSet(o.heads[i]))
      BY <1>1, <1>2, <2>2 DEF HeadsBetween
    <3> QED BY <1>3, <2>2, <3>1
  <2> QED BY <1>4, <2>1, <2>2
<1>7. ASSUME NEW i \in 0 .. m PROVE HeadLines(o, i) \in Seq(Nat) /\ Rising(HeadLines(o, i))
  <2>1. CASE i = 0
    <3>1. <<>> \in Seq(Nat) /\ Rising(<<>>)
      BY DEF Rising
    <3> QED BY <1>3, <2>1, <3>1
  <2>2. CASE i \in 1 .. m
    <3>1. o.heads[i] \in Seq(Nat)
      BY <1>1, <2>2
    <3>2. Rising(o.heads[i])
      BY <1>1, <1>2, <2>2 DEF HasHeads
    <3> QED BY <1>3, <2>2, <3>1, <3>2
  <2> QED BY <1>4, <2>1, <2>2
<1>8. /\ \A k, l \in 1 .. Len(o.leaves) : k < l => AllBefore(B(k), B(l))
      /\ \A k \in 1 .. Len(o.leaves) : o.leaves[k].lines \in Seq(Nat) /\ Rising(o.leaves[k].lines)
  BY <1>2 DEF HasLeaves, IsForest
<1> QED BY <1>5, <1>6, <1>7, <1>8 DEF AreOrdered

----------------------------------------------------------------------------
(* The reading of a document                                                *)

LEMMA TrunkBefore ==
  ASSUME NEW d, NEW o, Stands(d, o), AreLeaves(o.leaves, Len(o.heads)), AreOrdered(o),
         NEW i \in 0 .. Len(o.heads), NEW j \in 0 .. Len(o.heads), i < j
  PROVE  AllBefore(Under(Trunk(d, i)), Under(Trunk(d, j)))
<1> DEFINE L == o.leaves
           m == Len(o.heads)
<1>1. m \in Nat /\ Len(L) \in Nat /\ \A k, l \in 1 .. Len(L) : k < l => L[k].section <= L[l].section
  BY DEF AreLeaves
<1>2. ASSUME NEW x \in Under(Trunk(d, i)), NEW y \in Under(Trunk(d, j)) PROVE x < y
  <2>1. \/ x \in ToSet(HeadLines(o, i))
        \/ \E k \in 1 .. Len(L) : L[k].section = i /\ x \in ToSet(L[k].lines)
    BY UnderTrunk
  <2>2. \/ y \in ToSet(HeadLines(o, j))
        \/ \E k \in 1 .. Len(L) : L[k].section = j /\ y \in ToSet(L[k].lines)
    BY UnderTrunk
  <2>3. CASE x \in ToSet(HeadLines(o, i)) /\ y \in ToSet(HeadLines(o, j))
    <3>1. AllBefore(ToSet(HeadLines(o, i)), ToSet(HeadLines(o, j)))
      BY DEF AreOrdered
    <3> QED BY <2>3, <3>1 DEF AllBefore
  <2>4. ASSUME x \in ToSet(HeadLines(o, i)), NEW l \in 1 .. Len(L), L[l].section = j, y \in ToSet(L[l].lines) PROVE x < y
    <3>1. i <= L[l].section
      BY <2>4
    <3>2. AllBefore(ToSet(HeadLines(o, i)), ToSet(L[l].lines))
      BY <3>1 DEF AreOrdered
    <3> QED BY <2>4, <3>2 DEF AllBefore
  <2>5. ASSUME NEW k \in 1 .. Len(L), L[k].section = i, x \in ToSet(L[k].lines), y \in ToSet(HeadLines(o, j)) PROVE x < y
    <3>1. ~(j <= L[k].section)
      BY <2>5
    <3>2. AllBefore(ToSet(L[k].lines), ToSet(HeadLines(o, j)))
      BY <3>1 DEF AreOrdered
    <3> QED BY <2>5, <3>2 DEF AllBefore
  <2>6. ASSUME NEW k \in 1 .. Len(L), L[k].section = i, x \in ToSet(L[k].lines),
               NEW l \in 1 .. Len(L), L[l].section = j, y \in ToSet(L[l].lines)
        PROVE  x < y
    <3>1. k < l
      <4>1. l < k => L[l].section <= L[k].section
        BY <1>1
      <4>2. k # l /\ ~(l < k)
        BY <2>6, <4>1
      <4> QED BY <4>2
    <3>2. AllBefore(ToSet(L[k].lines), ToSet(L[l].lines))
      BY <3>1 DEF AreOrdered
    <3> QED BY <2>6, <3>2 DEF AllBefore
  <2> QED BY <2>1, <2>2, <2>3, <2>4, <2>5, <2>6
<1> QED BY <1>2 DEF AllBefore

\* Of two nodes of one parent, what is under the first comes before what is under the second.
LEMMA SiblingsBefore ==
  ASSUME NEW d, NEW o, Stands(d, o), AreLeaves(o.leaves, Len(o.heads)), AreOrdered(o),
         NEW j \in 1 .. Len(o.leaves), NEW k \in 1 .. Len(o.leaves), j < k, o.leaves[j].up = o.leaves[k].up
  PROVE  AllBefore(Under(LeafId(d, o.leaves, j)), Under(LeafId(d, o.leaves, k)))
<1> DEFINE L == o.leaves
<1>1. Len(L) \in Nat
  BY DEF AreLeaves
<1>2. ASSUME NEW x \in Under(LeafId(d, L, j)), NEW y \in Under(LeafId(d, L, k)) PROVE x < y
  <2>1. k \in j + 1 .. Len(L) + 1 /\ Len(L) + 1 \in k + 1 .. Len(L) + 1
    BY <1>1
  <2>2. PICK a \in j .. k - 1 : a \in 1 .. Len(L) /\ x \in ToSet(L[a].lines)
    BY <2>1, UnderLeaf
  <2>3. PICK b \in k .. (Len(L) + 1) - 1 : b \in 1 .. Len(L) /\ y \in ToSet(L[b].lines)
    BY <2>1, UnderLeaf
  <2>4. a < b
    BY <1>1
  <2>5. AllBefore(ToSet(L[a].lines), ToSet(L[b].lines))
    BY <2>2, <2>3, <2>4 DEF AreOrdered
  <2> QED BY <2>2, <2>3, <2>5 DEF AllBefore
<1> QED BY <1>2 DEF AllBefore

PartOf(d, L, k) == [edge |-> <<d, 2 * k - 1>>, place |-> Place(L, k), lines |-> Under(LeafId(d, L, k))]

LEMMA PartsAre ==
  ASSUME NEW d, NEW o, Stands(d, o), AreLeaves(o.leaves, Len(o.heads)), NEW n, n[1] = d, NEW p \in Parts(n)
  PROVE  \E k \in 1 .. Len(o.leaves) : ParentId(d, o.leaves, k) = n /\ p = PartOf(d, o.leaves, k)
<1> DEFINE L == o.leaves
<1>1. PICK e \in ToSet(library.edges) :
        e.kind = "doc-child" /\ e.source = n /\ p = [edge |-> e.id, place |-> e.order, lines |-> Under(e.target)]
  BY DEF Parts
<1>2. PICK k \in 1 .. Len(L) : e = Child(d, L, k)
  BY <1>1 DEF Stands, Carries
<1>3. e.id = <<d, 2 * k - 1>> /\ e.source = ParentId(d, L, k) /\ e.target = LeafId(d, L, k) /\ e.order = Place(L, k)
  BY <1>2, ChildIs
<1> QED BY <1>1, <1>3 DEF PartOf

LEMMA PartIs ==
  ASSUME NEW d, NEW L, NEW k
  PROVE  PartOf(d, L, k).place = Place(L, k) /\ PartOf(d, L, k).lines = Under(LeafId(d, L, k))
  BY DEF PartOf

\* The parts of a node have places of their own, and these go with the text.
LEMMA PartsAreOrdered ==
  ASSUME NEW d, NEW o, Stands(d, o), AreLeaves(o.leaves, Len(o.heads)), AreOrdered(o),
         NEW n, n[1] = d, NEW p \in Parts(n), NEW q \in Parts(n)
  PROVE  (p.place < q.place => AllBefore(p.lines, q.lines)) /\ (p.place = q.place => p = q)
<1> DEFINE L == o.leaves
<1>1. PICK j \in 1 .. Len(L) : ParentId(d, L, j) = n /\ p = PartOf(d, L, j)
  BY PartsAre
<1>2. PICK k \in 1 .. Len(L) : ParentId(d, L, k) = n /\ q = PartOf(d, L, k)
  BY PartsAre
<1>3. /\ L[j].up = L[k].up /\ L[j].section = L[k].section
      /\ Place(L, j) < Place(L, k) <=> j < k
      /\ Place(L, j) = Place(L, k) <=> j = k
  <2>1. ParentId(d, L, j) = ParentId(d, L, k) /\ AreLeaves(L, Len(o.heads))
    BY <1>1, <1>2
  <2> HIDE DEF L
  <2> QED BY <2>1, PlacesDiffer
<1>4. /\ p.place = Place(L, j) /\ p.lines = Under(LeafId(d, L, j))
      /\ q.place = Place(L, k) /\ q.lines = Under(LeafId(d, L, k))
  BY <1>1, <1>2, PartIs
<1>5. j < k => AllBefore(Under(LeafId(d, L, j)), Under(LeafId(d, L, k)))
  BY <1>3, SiblingsBefore
<1> QED BY <1>1, <1>2, <1>3, <1>4, <1>5

\* A heading comes before all that is under it, and a node before its parts.
LEMMA HeadBeforeParts ==
  ASSUME NEW d, NEW o, Stands(d, o), AreLeaves(o.leaves, Len(o.heads)), AreOrdered(o),
         NEW i \in 0 .. Len(o.heads), NEW p \in Parts(Trunk(d, i))
  PROVE  AllBefore(ToSet(HeadLines(o, i)), p.lines)
<1> DEFINE L == o.leaves
           m == Len(o.heads)
<1>1. /\ m \in Nat /\ Len(L) \in Nat /\ (\A k, l \in 1 .. Len(L) : k < l => L[k].section <= L[l].section)
      /\ \A l \in 1 .. Len(L) : L[l].section \in 0 .. m
  BY DEF AreLeaves
<1>2. /\ Trunk(d, i)[1] = d
      /\ \A k \in 1 .. Len(L) : ParentId(d, L, k) = Trunk(d, i) <=> L[k].up = 0 /\ L[k].section = i
  BY TrunkHolds DEF Trunk, Root, Section
<1>3. PICK k \in 1 .. Len(L) : ParentId(d, L, k) = Trunk(d, i) /\ p = PartOf(d, L, k)
  BY <1>2, PartsAre
<1>4. L[k].section = i /\ p.lines = Under(LeafId(d, L, k))
  BY <1>2, <1>3, PartIs
<1>5. ASSUME NEW y \in Under(LeafId(d, L, k)) PROVE \E l \in 1 .. Len(L) : i <= L[l].section /\ y \in ToSet(L[l].lines)
  <2>1. Len(L) + 1 \in k + 1 .. Len(L) + 1
    BY <1>1
  <2>2. PICK l \in k .. (Len(L) + 1) - 1 : l \in 1 .. Len(L) /\ y \in ToSet(L[l].lines)
    BY <2>1, UnderLeaf
  <2>3. L[k].section <= L[l].section
    <3>1. k = l \/ k < l
      BY <1>1
    <3> QED BY <1>1, <2>2, <3>1
  <2> QED BY <1>4, <2>2, <2>3
<1>6. ASSUME NEW x \in ToSet(HeadLines(o, i)), NEW y \in p.lines PROVE x < y
  <2>1. PICK l \in 1 .. Len(L) : i <= L[l].section /\ y \in ToSet(L[l].lines)
    BY <1>4, <1>5
  <2>2. AllBefore(ToSet(HeadLines(o, i)), ToSet(L[l].lines))
    BY <2>1 DEF AreOrdered
  <2> QED BY <2>1, <2>2 DEF AllBefore
<1> QED BY <1>6 DEF AllBefore

LEMMA LeafBeforeParts ==
  ASSUME NEW d, NEW o, Stands(d, o), AreLeaves(o.leaves, Len(o.heads)), AreOrdered(o),
         NEW c \in 1 .. Len(o.leaves), NEW p \in Parts(LeafId(d, o.leaves, c))
  PROVE  AllBefore(ToSet(o.leaves[c].lines), p.lines)
<1> DEFINE L == o.leaves
           m == Len(o.heads)
<1>1. Len(L) \in Nat /\ \A l \in 1 .. Len(L) : L[l].up \in 0 .. l - 1
  BY DEF AreLeaves
<1>2. LeafId(d, L, c)[1] = d
  BY DEF LeafId
<1>3. PICK k \in 1 .. Len(L) : ParentId(d, L, k) = LeafId(d, L, c) /\ p = PartOf(d, L, k)
  BY <1>2, PartsAre
<1>4. L[k].up = c
  <2>1. AreLeaves(L, m) /\ c \in 1 .. Len(L)
    OBVIOUS
  <2>2. /\ \A x \in 1 .. Len(L) : ParentId(d, L, k) = LeafId(d, L, x) <=> L[k].up = x
        /\ ParentId(d, L, k) = Root(d) <=> L[k].up = 0 /\ L[k].section = 0
        /\ \A x \in 1 .. m : ParentId(d, L, k) = Section(d, x) <=> L[k].up = 0 /\ L[k].section = x
    <3> HIDE DEF L, m
    <3> QED BY <2>1, ParentIs
  <2> QED BY <1>3, <2>1, <2>2
<1>5. c < k /\ p.lines = Under(LeafId(d, L, k))
  BY <1>1, <1>3, <1>4, PartIs
<1>6. ASSUME NEW x \in ToSet(L[c].lines), NEW y \in p.lines PROVE x < y
  <2>1. Len(L) + 1 \in k + 1 .. Len(L) + 1 /\ y \in Under(LeafId(d, L, k))
    BY <1>1, <1>5
  <2>2. PICK l \in k .. (Len(L) + 1) - 1 : l \in 1 .. Len(L) /\ y \in ToSet(L[l].lines)
    BY <2>1, UnderLeaf
  <2>3. c < l
    BY <1>1, <1>5
  <2>4. AllBefore(ToSet(L[c].lines), ToSet(L[l].lines))
    BY <2>2, <2>3 DEF AreOrdered
  <2> QED BY <2>2, <2>4 DEF AllBefore
<1> QED BY <1>6 DEF AllBefore

----------------------------------------------------------------------------

LEMMA AdjacentRise ==
  ASSUME NEW s \in Seq(Nat), Rising(s)
  PROVE  \A k \in 1 .. Len(s) - 1 : s[k] < s[k + 1]
<1>1. ASSUME NEW k \in 1 .. Len(s) - 1 PROVE s[k] < s[k + 1]
  <2>1. k \in DOMAIN s /\ k + 1 \in DOMAIN s /\ k < k + 1
    OBVIOUS
  <2> QED BY <2>1 DEF Rising
<1> QED BY <1>1

\* A node with rising lines, all before those of its parts.
Leading(n) ==
  \E x \in library.nodes :
    /\ x.id = n /\ \A y \in library.nodes : y.id = n => x = y
    /\ \A k \in 1..Len(x.lines) - 1 : x.lines[k] < x.lines[k + 1]
    /\ \A p \in Parts(n) : AllBefore(ToSet(x.lines), p.lines)

LEMMA LeadingIs ==
  ASSUME NEW n, NEW l, HasLines(library.nodes, n, l), l \in Seq(Nat), Rising(l),
         \A p \in Parts(n) : AllBefore(ToSet(l), p.lines)
  PROVE  Leading(n)
<1>1. PICK x \in library.nodes : x.id = n /\ x.lines = l /\ \A y \in library.nodes : y.id = n => x = y
  BY DEF HasLines
<1>2. \A k \in 1..Len(l) - 1 : l[k] < l[k + 1]
  BY AdjacentRise
<1> QED BY <1>1, <1>2 DEF Leading

\* The way through a document.
Reading(d, m) == <<Root(d)>> \o Flow(d, m)

LEMMA WayIs ==
  ASSUME NEW d, NEW m \in Nat
  PROVE  /\ DOMAIN Reading(d, m) = 1 .. m + 1 /\ \A i \in 1 .. m + 1 : Reading(d, m)[i] = Trunk(d, i - 1)
         /\ ToSet(Reading(d, m)) = {Trunk(d, i) : i \in 0 .. m}
<1> DEFINE f == Flow(d, m)
           w == Reading(d, m)
<1>1. f = [k \in 1 .. m |-> f[k]] /\ \A k \in 1 .. m : f[k] = Section(d, k)
  BY DEF Flow
<1> HIDE DEF f
<1>2. Len(<<Root(d)>> \o f) = m + 1 /\ DOMAIN (<<Root(d)>> \o f) = 1 .. m + 1
      /\ (<<Root(d)>> \o f)[1] = Root(d) /\ \A k \in 1 .. m : (<<Root(d)>> \o f)[k + 1] = f[k]
  BY <1>1, HeadedIs
<1>3. w = <<Root(d)>> \o f
  BY DEF Reading, f
<1> HIDE DEF w
<1>4. DOMAIN w = 1 .. m + 1 /\ w[1] = Root(d) /\ \A k \in 1 .. m : w[k + 1] = Section(d, k)
  BY <1>1, <1>2, <1>3
<1>5. ASSUME NEW i \in 1 .. m + 1 PROVE w[i] = Trunk(d, i - 1)
  <2>1. CASE i = 1
    BY <1>4, <2>1 DEF Trunk
  <2>2. CASE i # 1
    <3>1. i - 1 \in 1 .. m /\ (i - 1) + 1 = i /\ i - 1 # 0
      BY <2>2
    <3>2. w[(i - 1) + 1] = Section(d, i - 1)
      BY <1>4, <3>1
    <3> QED BY <3>1, <3>2 DEF Trunk
  <2> QED BY <2>1, <2>2
<1>6. \A i \in 0 .. m : i + 1 \in 1 .. m + 1 /\ (i + 1) - 1 = i
  OBVIOUS
<1>7. \A i \in 1 .. m + 1 : i - 1 \in 0 .. m
  OBVIOUS
<1>8. \A x : x \in ToSet(w) <=> \E i \in 1 .. m + 1 : w[i] = x
  BY <1>4 DEF ToSet
<1>9. \A x : x \in ToSet(w) <=> x \in {Trunk(d, i) : i \in 0 .. m}
  BY <1>5, <1>6, <1>7, <1>8
<1>10. ToSet(w) = {Trunk(d, i) : i \in 0 .. m}
  BY <1>9
<1> QED BY <1>4, <1>5, <1>10 DEF w

LEMMA DocumentInOrder ==
  ASSUME NEW d, NEW o, Stands(d, o), AreLeaves(o.leaves, Len(o.heads)), AreOrdered(o)
  PROVE  InOrder(Reading(d, Len(o.heads)))
<1> DEFINE L == o.leaves
           m == Len(o.heads)
           way == Reading(d, m)
           E == library.edges
           W == {Trunk(d, i) : i \in 0 .. m}
           below == Closure(E, ToSet(way))
<1>1. AreLeaves(L, m) /\ Carries(E, d, L, m) /\ Lined(library.nodes, d, o) /\ m \in Nat
  BY DEF Stands, AreLeaves
<1>2. /\ DOMAIN way = 1 .. m + 1 /\ \A i \in 1 .. m + 1 : way[i] = Trunk(d, i - 1)
      /\ ToSet(way) = W
  <2> HIDE DEF m
  <2> QED BY <1>1, WayIs
<1> HIDE DEF way
<1>3. Closure(E, W) \subseteq W \cup {LeafId(d, L, k) : k \in 1 .. Len(L)}
  <2> HIDE DEF L, m, E
  <2> QED BY <1>1, WayClosure
<1>4. below \subseteq W \cup {LeafId(d, L, k) : k \in 1 .. Len(L)}
  BY <1>2, <1>3
<1>5. ASSUME NEW i \in DOMAIN way, NEW j \in DOMAIN way, i < j PROVE AllBefore(Under(way[i]), Under(way[j]))
  <2>1. i - 1 \in 0 .. m /\ j - 1 \in 0 .. m /\ i - 1 < j - 1 /\ way[i] = Trunk(d, i - 1) /\ way[j] = Trunk(d, j - 1)
    BY <1>1, <1>2, <1>5
  <2> QED BY <2>1, TrunkBefore
<1>6. ASSUME NEW n \in below PROVE n[1] = d /\ Leading(n)
  <2>1. CASE n \in W
    <3>1. PICK i \in 0 .. m : n = Trunk(d, i)
      BY <2>1
    <3>2. n[1] = d
      BY <3>1 DEF Trunk, Root, Section
    <3>3. HasLines(library.nodes, n, HeadLines(o, i))
      BY <1>1, <3>1, LinesOfTrunk
    <3>4. HeadLines(o, i) \in Seq(Nat) /\ Rising(HeadLines(o, i))
      BY DEF AreOrdered
    <3>5. \A p \in Parts(n) : AllBefore(ToSet(HeadLines(o, i)), p.lines)
      BY <3>1, HeadBeforeParts
    <3> QED BY <3>2, <3>3, <3>4, <3>5, LeadingIs
  <2>2. CASE n \in {LeafId(d, L, k) : k \in 1 .. Len(L)}
    <3>1. PICK k \in 1 .. Len(L) : n = LeafId(d, L, k)
      BY <2>2
    <3>2. n[1] = d
      BY <3>1 DEF LeafId
    <3>3. HasLines(library.nodes, n, L[k].lines)
      BY <1>1, <3>1 DEF Lined
    <3>4. L[k].lines \in Seq(Nat) /\ Rising(L[k].lines)
      BY DEF AreOrdered
    <3>5. \A p \in Parts(n) : AllBefore(ToSet(L[k].lines), p.lines)
      BY <3>1, LeafBeforeParts
    <3> QED BY <3>2, <3>3, <3>4, <3>5, LeadingIs
  <2> QED BY <1>4, <2>1, <2>2
<1>7. ASSUME NEW n \in below, NEW p \in Parts(n), NEW q \in Parts(n)
      PROVE  /\ p.place < q.place => AllBefore(p.lines, q.lines)
             /\ p.place = q.place => p = q
  <2>1. n[1] = d
    BY <1>6
  <2> QED BY <2>1, PartsAreOrdered
<1> HIDE DEF below
<1>8. /\ \A i, j \in DOMAIN way : i < j => AllBefore(Under(way[i]), Under(way[j]))
      /\ \A n \in below : \E x \in library.nodes :
           /\ x.id = n /\ \A y \in library.nodes : y.id = n => x = y
           /\ \A k \in 1..Len(x.lines) - 1 : x.lines[k] < x.lines[k + 1]
           /\ \A p \in Parts(n) : AllBefore(ToSet(x.lines), p.lines)
      /\ \A n \in below : \A p, q \in Parts(n) : /\ p.place < q.place => AllBefore(p.lines, q.lines)
                                                 /\ p.place = q.place => p = q
  <2>1. \A n \in below : Leading(n)
    BY <1>6
  <2> QED BY <1>5, <1>7, <2>1 DEF Leading
<1> QED BY <1>8 DEF InOrder, below, way

\* A document that stands in the store reads as its text is written.
LEMMA DocumentReads ==
  ASSUME NEW d, NEW t \in Seq(LineKinds), NEW o, o = Outline(t), Len(o.heads) # 0, Stands(d, o)
  PROVE  LET flow == ValidateDocFlow(library.edges, Root(d))
             way == <<Root(d)>> \o flow.order
         IN flow.ok /\ InOrder(way) /\ DOMAIN t \ MayBeLost(t) \subseteq UNION {Under(way[i]) : i \in DOMAIN way}
<1> DEFINE m == Len(o.heads)
           way == Reading(d, m)
<1>1. IsOutline(t, o) /\ o.at > Len(t)
  BY OutlineHolds
<1>2. AreLeaves(o.leaves, m) /\ AreOrdered(o)
  BY <1>1, OutlineLeavesAre, OutlineIsOrdered
<1>3. /\ m \in Nat /\ m >= 1 /\ DOMAIN o.heads = 1 .. m /\ DOMAIN o.leaves = 1 .. Len(o.leaves)
      /\ Carries(library.edges, d, o.leaves, m) /\ o.at \in Nat
  <2>1. m \in Nat /\ DOMAIN o.heads = 1 .. m /\ DOMAIN o.leaves = 1 .. Len(o.leaves) /\ o.at \in Nat
    BY <1>1, OutlineIs
  <2> QED BY <2>1 DEF Stands
<1>4. ValidateDocFlow(library.edges, Root(d)).ok /\ ValidateDocFlow(library.edges, Root(d)).order = Flow(d, m)
  <2> HIDE DEF m
  <2> QED BY <1>3, FlowHolds
<1>5. InOrder(way)
  BY <1>2, DocumentInOrder
<1>6. /\ DOMAIN way = 1 .. m + 1 /\ \A i \in 1 .. m + 1 : way[i] = Trunk(d, i - 1)
      /\ ToSet(way) = {Trunk(d, i) : i \in 0 .. m}
  <2> HIDE DEF m
  <2> QED BY <1>3, WayIs
<1> HIDE DEF way
<1>7. ASSUME NEW j \in DOMAIN t, j \notin MayBeLost(t) PROVE \E i \in DOMAIN way : j \in Under(way[i])
  <2>1. j < o.at
    BY <1>1, <1>3
  <2>2. IsIn(o, j)
    BY <1>1, <1>7, <2>1 DEF IsOutline
  <2>3. PICK i \in 0 .. m : j \in Under(Trunk(d, i))
    BY <1>2, <1>3, <2>2, NoneLost
  <2>4. i + 1 \in 1 .. m + 1 /\ (i + 1) - 1 = i
    BY <1>3
  <2> QED BY <1>6, <2>3, <2>4
<1>8. DOMAIN t \ MayBeLost(t) \subseteq UNION {Under(way[i]) : i \in DOMAIN way}
  BY <1>7
<1> QED BY <1>4, <1>5, <1>8 DEF way, Reading

----------------------------------------------------------------------------
(* The batch                                                                *)

\* F is E after the edges of X were put into it.
IsPut(E, X, F) == OneEach(F) /\ ToSet(F) = {e \in ToSet(E) : \A x \in X : e.id # x.id} \cup X

LEMMA PutEdgeIs ==
  ASSUME NEW E, OneEach(E), NEW x
  PROVE  IsPut(E, {x}, PutEdge(E, x))
<1> DEFINE F == PutEdge(E, x)
           n == Len(E)
           T == ToSet(E) \cup {x}
<1>1. /\ E \in Seq(ToSet(E)) /\ IsInjective(E) /\ n \in Nat /\ DOMAIN E = 1 .. n
      /\ \A e, f \in ToSet(E) : e.id = f.id => e = f
      /\ \A y : y \in ToSet(E) <=> \E i \in 1 .. n : E[i] = y
  BY ToSetIs DEF OneEach
<1>2. CASE \E k \in DOMAIN E : E[k].id = x.id
  <2>1. F = [k \in 1 .. n |-> IF E[k].id = x.id THEN x ELSE E[k]]
    BY <1>1, <1>2 DEF PutEdge
  <2>2. \A k \in 1 .. n : E[k] \in T
    BY <1>1
  <2> HIDE DEF F, T
  <2>3. F \in [1 .. n -> T] /\ x \in T
    <3>1. x \in T
      BY DEF T
    <3> QED BY <2>1, <2>2, <3>1
  <2>4. F \in Seq(T) /\ DOMAIN F = 1 .. n /\ Len(F) = n
    BY <1>1, <2>3
  <2>5. F \in Seq(ToSet(F)) /\ \A y : y \in ToSet(F) <=> \E i \in 1 .. n : F[i] = y
    BY <2>4, SeqOwn, ToSetIs
  <2>6. \A k \in 1 .. n : F[k] = IF E[k].id = x.id THEN x ELSE E[k]
    BY <2>1
  <2>7. \A i \in 1 .. n : E[i] \in ToSet(E)
    BY <1>1
  <2>8. ASSUME NEW i \in 1 .. n, NEW j \in 1 .. n, F[i] = F[j] PROVE i = j
    <3>1. E[i].id = x.id <=> E[j].id = x.id
      BY <2>6, <2>8
    <3>2. E[i] = E[j]
      BY <1>1, <2>6, <2>7, <2>8, <3>1
    <3> QED BY <1>1, <3>2 DEF IsInjective
  <2>9. ToSet(F) = {e \in ToSet(E) : \A y \in {x} : e.id # y.id} \cup {x}
    <3>1. \A y : y \in ToSet(F) <=> (y \in ToSet(E) /\ y.id # x.id) \/ y = x
      <4>1. \E k \in 1 .. n : E[k].id = x.id
        BY <1>1, <1>2
      <4>2. ASSUME NEW y \in ToSet(F) PROVE (y \in ToSet(E) /\ y.id # x.id) \/ y = x
        <5>1. PICK i \in 1 .. n : F[i] = y
          BY <2>5
        <5> QED BY <2>6, <2>7, <5>1
      <4>3. ASSUME NEW y \in ToSet(E), y.id # x.id PROVE y \in ToSet(F)
        <5>1. PICK i \in 1 .. n : E[i] = y
          BY <1>1
        <5>2. F[i] = y
          BY <2>6, <4>3, <5>1
        <5> QED BY <2>5, <5>2
      <4>4. x \in ToSet(F)
        BY <2>5, <2>6, <4>1
      <4> QED BY <4>2, <4>3, <4>4
    <3> QED BY <3>1
  <2>10. \A e, f \in ToSet(F) : e.id = f.id => e = f
    BY <1>1, <2>9
  <2>11. IsInjective(F)
    BY <2>4, <2>8 DEF IsInjective
  <2> QED BY <2>5, <2>9, <2>10, <2>11 DEF IsPut, OneEach, F
<1>3. CASE ~ \E k \in DOMAIN E : E[k].id = x.id
  <2>1. F = Append(E, x)
    BY <1>1, <1>3 DEF PutEdge
  <2>2. \A e \in ToSet(E) : e.id # x.id
    BY <1>1, <1>3
  <2>3. E \in Seq(T) /\ x \in T
    BY <1>1
  <2> HIDE DEF F, T
  <2>4. F \in Seq(T) /\ ToSet(F) = ToSet(E) \cup {x}
    BY <2>1, <2>3, AppendSet
  <2>5. F \in Seq(ToSet(F))
    BY <2>4, SeqOwn
  <2>6. x \notin ToSet(E)
    BY <2>2
  <2>7. IsInjective(F)
    BY <1>1, <2>1, <2>3, <2>6, InjectiveAppend
  <2>8. ToSet(F) = {e \in ToSet(E) : \A y \in {x} : e.id # y.id} \cup {x}
    BY <2>2, <2>4
  <2>9. \A e, f \in ToSet(F) : e.id = f.id => e = f
    BY <1>1, <2>8
  <2> QED BY <2>5, <2>7, <2>8, <2>9 DEF IsPut, OneEach, F
<1> QED BY <1>2, <1>3

\* What is put in turn is put.
LEMMA PutInTurn ==
  ASSUME NEW E, OneEach(E), NEW n \in Nat, NEW X, NEW f, f[0] = E,
         \A k \in 1 .. n : OneEach(f[k - 1]) => IsPut(f[k - 1], X[k], f[k]),
         \A j, k \in 1 .. n : \A x \in X[j], y \in X[k] : x.id = y.id => x = y,
         NEW Y, \A y : y \in Y <=> \E k \in 1 .. n : y \in X[k]
  PROVE  IsPut(E, Y, f[n])
<1> DEFINE U(k) == UNION {X[i] : i \in 1 .. k}
           G == {k \in 0 .. n : IsPut(E, U(k), f[k])}
<1>1. 0 \in G
  <2>1. U(0) = {}
    OBVIOUS
  <2>2. IsPut(E, {}, E)
    BY DEF IsPut
  <2> QED BY <2>1, <2>2
<1>2. ASSUME NEW k \in 0 .. n - 1, k \in G PROVE k + 1 \in G
  <2>1. k + 1 \in 1 .. n /\ (k + 1) - 1 = k /\ k + 1 \in 0 .. n
    OBVIOUS
  <2>2. IsPut(E, U(k), f[k])
    BY <1>2
  <2>3. U(k + 1) = U(k) \cup X[k + 1]
    <3>1. \A i : i \in 1 .. k + 1 <=> i \in 1 .. k \/ i = k + 1
      OBVIOUS
    <3> QED BY <3>1
  <2>4. \A x \in U(k), y \in X[k + 1] : x.id = y.id => x = y
    <3>1. 1 .. k \subseteq 1 .. n
      OBVIOUS
    <3> QED BY <2>1, <3>1
  <2> HIDE DEF U
  <2>5. IsPut(f[k], X[k + 1], f[k + 1])
    <3>1. OneEach(f[k])
      BY <2>2 DEF IsPut
    <3> QED BY <2>1, <3>1
  <2> DEFINE A == U(k)
             B == X[k + 1]
             F == f[k]
             H == f[k + 1]
  <2>6. /\ ToSet(F) = {e \in ToSet(E) : \A x \in A : e.id # x.id} \cup A
        /\ OneEach(H) /\ ToSet(H) = {e \in ToSet(F) : \A x \in B : e.id # x.id} \cup B
    BY <2>2, <2>5 DEF IsPut
  <2> HIDE DEF A, B, F, H
  <2>7. \A x \in A, y \in B : x.id = y.id => x = y
    BY <2>4 DEF A, B
  <2>8. \A e : e \in ToSet(H) <=> (e \in ToSet(E) /\ \A x \in A \cup B : e.id # x.id) \/ e \in A \cup B
    BY <2>6, <2>7
  <2>9. ToSet(H) = {e \in ToSet(E) : \A x \in A \cup B : e.id # x.id} \cup (A \cup B)
    BY <2>8
  <2>10. IsPut(E, A \cup B, H)
    BY <2>6, <2>9 DEF IsPut
  <2> QED BY <2>1, <2>3, <2>10 DEF A, B, H
<1> HIDE DEF G
<1>3. n \in G
  <2>1. 0 .. n \subseteq G
    BY <1>1, <1>2, UpTo
  <2> QED BY <2>1
<1>4. U(n) = Y
  OBVIOUS
<1> QED BY <1>3, <1>4 DEF G

LEMMA PutAllIs ==
  ASSUME NEW E, OneEach(E), NEW A, Len(A) \in Nat, \A i, j \in 1 .. Len(A) : A[i].id = A[j].id => A[i] = A[j]
  PROVE  IsPut(E, {A[i] : i \in 1 .. Len(A)}, PutAll(E, A))
<1> DEFINE n == Len(A)
           Y == {A[i] : i \in 1 .. n}
           T == ToSet(E) \cup Y
           S == {F \in Seq(T) : OneEach(F)}
           step == [k \in 1 .. n |-> [F \in S |-> PutEdge(F, A[k])]]
           put == CHOOSE f : f = [k \in 0 .. n |-> IF k = 0 THEN E ELSE PutEdge(f[k - 1], A[k])]
<1>1. E \in S
  BY DEF OneEach
<1>2. ASSUME NEW F \in S, NEW k \in 1 .. n PROVE PutEdge(F, A[k]) \in S
  <2>1. F \in Seq(T) /\ OneEach(F) /\ A[k] \in T
    OBVIOUS
  <2> HIDE DEF T
  <2>2. IsPut(F, {A[k]}, PutEdge(F, A[k]))
    BY <2>1, PutEdgeIs
  <2> DEFINE H == PutEdge(F, A[k])
  <2> HIDE DEF H
  <2>3. ToSet(F) \subseteq T
    BY <2>1, ToSetIs
  <2>4. OneEach(H) /\ H \in Seq(ToSet(H)) /\ ToSet(H) \subseteq ToSet(F) \cup {A[k]}
    BY <2>2 DEF IsPut, OneEach, H
  <2>5. ToSet(H) \subseteq T
    BY <2>1, <2>3, <2>4
  <2>6. H \in Seq(T)
    BY <2>4, <2>5
  <2> QED BY <2>4, <2>6 DEF H
<1>3. step \in [1 .. n -> [S -> S]]
  <2> HIDE DEF S
  <2> QED BY <1>2
<1> HIDE DEF step
<1>4. PICK f : Iterates(S, E, step, n, f)
  <2> HIDE DEF S
  <2> QED BY <1>1, <1>3, IterationExists
<1> HIDE DEF S
<1>5. f \in [0 .. n -> S] /\ f[0] = E /\ \A k \in 1 .. n : f[k] = PutEdge(f[k - 1], A[k])
  <2>1. f \in [0 .. n -> S] /\ f[0] = E /\ \A k \in 1 .. n : f[k] = step[k][f[k - 1]]
    BY <1>4 DEF Iterates
  <2>2. ASSUME NEW k \in 1 .. n PROVE f[k] = PutEdge(f[k - 1], A[k])
    <3>1. f[k - 1] \in S
      BY <2>1
    <3> QED BY <2>1, <3>1 DEF step
  <2> QED BY <2>1, <2>2
<1>6. f = [k \in 0 .. n |-> IF k = 0 THEN E ELSE PutEdge(f[k - 1], A[k])]
  <2>1. \A k \in 0 .. n : k = 0 \/ k \in 1 .. n
    OBVIOUS
  <2>2. \A k \in 0 .. n : f[k] = IF k = 0 THEN E ELSE PutEdge(f[k - 1], A[k])
    BY <1>5, <2>1, Zenon
  <2> QED BY <1>5, <2>2
<1>7. put = [k \in 0 .. n |-> IF k = 0 THEN E ELSE PutEdge(put[k - 1], A[k])]
  BY <1>6
<1>8. PutAll(E, A) = put[n]
  BY DEF PutAll
<1> HIDE DEF put
<1>9. put[0] = E /\ \A k \in 1 .. n : put[k] = PutEdge(put[k - 1], A[k])
  <2>1. 0 \in 0 .. n /\ \A k \in 1 .. n : k \in 0 .. n /\ k # 0
    OBVIOUS
  <2>2. \A k \in 0 .. n : put[k] = IF k = 0 THEN E ELSE PutEdge(put[k - 1], A[k])
    BY <1>7
  <2> QED BY <2>1, <2>2
<1> DEFINE X == [k \in 1 .. n |-> {A[k]}]
<1>10. /\ \A k \in 1 .. n : OneEach(put[k - 1]) => IsPut(put[k - 1], X[k], put[k])
       /\ \A j, k \in 1 .. n : \A x \in X[j], y \in X[k] : x.id = y.id => x = y
  <2>1. \A k \in 1 .. n : OneEach(put[k - 1]) => IsPut(put[k - 1], X[k], put[k])
    BY <1>9, PutEdgeIs
  <2>2. ASSUME NEW j \in 1 .. n, NEW k \in 1 .. n, NEW x \in X[j], NEW y \in X[k], x.id = y.id PROVE x = y
    <3>1. x = A[j] /\ y = A[k]
      OBVIOUS
    <3> QED BY <2>2, <3>1
  <2> QED BY <2>1, <2>2
<1>11. \A y : y \in Y <=> \E k \in 1 .. n : y \in X[k]
  OBVIOUS
<1> HIDE DEF X, Y, n
<1>12. n \in Nat
  BY DEF n
<1>13. IsPut(E, Y, put[n])
  <2>1. put[0] = E
    BY <1>9
  <2>2. \A k \in 1 .. n : OneEach(put[k - 1]) => IsPut(put[k - 1], X[k], put[k])
    BY <1>10
  <2>3. \A j, k \in 1 .. n : \A x \in X[j], y \in X[k] : x.id = y.id => x = y
    BY <1>10
  <2> QED BY <1>11, <1>12, <2>1, <2>2, <2>3, PutInTurn
<1> QED BY <1>8, <1>13 DEF Y, n

----------------------------------------------------------------------------

\* The edges of a document of this text, as they are stored.
EdgeSet(t, d) == LET P == ParseMarkdown(t, d).edges IN {Numbered(d, i, P[i]) : i \in 1 .. Len(P)}

LEMMA ParsedIs ==
  ASSUME NEW t \in Seq(LineKinds), NEW d, NEW o, o = Outline(t)
  PROVE  /\ AreLeaves(o.leaves, Len(o.heads)) /\ AreEdgesOf(ParseMarkdown(t, d).edges, d, o.leaves, Len(o.heads))
         /\ Len(ParseMarkdown(t, d).edges) \in Nat /\ DOMAIN ParseMarkdown(t, d).edges = 1 .. Len(ParseMarkdown(t, d).edges)
<1> DEFINE L == o.leaves
           m == Len(o.heads)
           P == ParseMarkdown(t, d).edges
<1>1. IsOutline(t, o)
  BY OutlineHolds
<1>2. AreLeaves(L, m)
  BY <1>1, OutlineLeavesAre
<1>3. P = LeafEdges(d, L) \o FlowEdges(d, m)
  BY DEF ParseMarkdown
<1> HIDE DEF L, m, P
<1>4. AreEdgesOf(P, d, L, m)
  BY <1>2, <1>3, EdgesAre
<1>5. Len(P) \in Nat /\ P = [i \in 1 .. Len(P) |-> P[i]]
  BY <1>4 DEF AreEdgesOf
<1>6. DOMAIN P = 1 .. Len(P)
  BY <1>5
<1> QED BY <1>2, <1>4, <1>5, <1>6 DEF L, m, P

LEMMA EdgeIds ==
  ASSUME NEW t, NEW d, NEW x \in EdgeSet(t, d)
  PROVE  \E i \in 1 .. Len(ParseMarkdown(t, d).edges) :
            x = Numbered(d, i, ParseMarkdown(t, d).edges[i]) /\ x.id = <<d, i>>
<1>1. PICK i \in 1 .. Len(ParseMarkdown(t, d).edges) : x = Numbered(d, i, ParseMarkdown(t, d).edges[i])
  BY DEF EdgeSet
<1>2. x.id = <<d, i>>
  BY <1>1 DEF Numbered
<1> QED BY <1>1, <1>2

LEMMA EdgesDiffer ==
  ASSUME NEW t, NEW c, NEW d, NEW x \in EdgeSet(t, c), NEW y \in EdgeSet(t, d), x.id = y.id
  PROVE  x = y
<1>1. PICK i \in 1 .. Len(ParseMarkdown(t, c).edges) : x = Numbered(c, i, ParseMarkdown(t, c).edges[i]) /\ x.id = <<c, i>>
  BY EdgeIds
<1>2. PICK j \in 1 .. Len(ParseMarkdown(t, d).edges) : y = Numbered(d, j, ParseMarkdown(t, d).edges[j]) /\ y.id = <<d, j>>
  BY EdgeIds
<1>3. <<c, i>> = <<d, j>>
  BY <1>1, <1>2
<1>4. c = d /\ i = j
  BY <1>3
<1> QED BY <1>1, <1>2, <1>4

LEMMA EdgesOfIs ==
  ASSUME text \in Seq(LineKinds), NEW d
  PROVE  LET A == EdgesOf(d)
         IN /\ Len(A) \in Nat /\ {A[i] : i \in 1 .. Len(A)} = EdgeSet(text, d)
            /\ \A i, j \in 1 .. Len(A) : A[i].id = A[j].id => A[i] = A[j]
<1> DEFINE P == ParseMarkdown(text, d).edges
           n == Len(P)
           A == EdgesOf(d)
<1>1. n \in Nat /\ DOMAIN P = 1 .. n
  BY ParsedIs
<1>2. A = [i \in 1 .. n |-> Numbered(d, i, P[i])]
  BY <1>1 DEF EdgesOf
<1>3. EdgeSet(text, d) = {Numbered(d, i, P[i]) : i \in 1 .. n}
  BY DEF EdgeSet
<1> HIDE DEF P, n, A
<1>4. A \in [1 .. n -> {A[i] : i \in 1 .. n}] /\ \A i \in 1 .. n : A[i] = Numbered(d, i, P[i])
  BY <1>2
<1>5. Len(A) = n
  BY <1>1, <1>4
<1>6. \A i \in 1 .. n : A[i].id = <<d, i>>
  BY <1>4 DEF Numbered
<1>7. \A i, j \in 1 .. n : A[i].id = A[j].id => A[i] = A[j]
  <2>1. ASSUME NEW i \in 1 .. n, NEW j \in 1 .. n, A[i].id = A[j].id PROVE i = j
    <3>1. <<d, i>> = <<d, j>>
      BY <1>6, <2>1
    <3> QED BY <3>1
  <2> QED BY <2>1
<1>8. {A[i] : i \in 1 .. n} = EdgeSet(text, d)
  BY <1>3, <1>4
<1> QED BY <1>1, <1>5, <1>7, <1>8 DEF A

LEMMA PutDocumentsIs ==
  ASSUME text \in Seq(LineKinds), NEW E, OneEach(E), NEW docs, Len(docs) \in Nat,
         NEW Y, \A y : y \in Y <=> \E k \in 1 .. Len(docs) : y \in EdgeSet(text, docs[k])
  PROVE  IsPut(E, Y, PutDocuments(E, docs))
<1> DEFINE n == Len(docs)
           T == ToSet(E) \cup Y
           S == {F \in Seq(T) : OneEach(F)}
           on(F, k) == PutAll(F, EdgesOf(docs[k]))
           step == [k \in 1 .. n |-> [F \in S |-> on(F, k)]]
           put == CHOOSE f : f = [k \in 0 .. n |-> IF k = 0 THEN E ELSE on(f[k - 1], k)]
<1>1. E \in S
  BY DEF OneEach
<1>2. ASSUME NEW F, OneEach(F), NEW k \in 1 .. n PROVE IsPut(F, EdgeSet(text, docs[k]), on(F, k))
  <2> DEFINE A == EdgesOf(docs[k])
  <2>1. /\ Len(A) \in Nat /\ {A[i] : i \in 1 .. Len(A)} = EdgeSet(text, docs[k])
        /\ \A i, j \in 1 .. Len(A) : A[i].id = A[j].id => A[i] = A[j]
    BY EdgesOfIs
  <2> HIDE DEF A
  <2>2. IsPut(F, {A[i] : i \in 1 .. Len(A)}, PutAll(F, A))
    BY <1>2, <2>1, PutAllIs
  <2> QED BY <2>1, <2>2 DEF A
<1> HIDE DEF on
<1>3. ASSUME NEW F \in S, NEW k \in 1 .. n PROVE on(F, k) \in S
  <2>1. F \in Seq(T) /\ OneEach(F) /\ EdgeSet(text, docs[k]) \subseteq T
    OBVIOUS
  <2> HIDE DEF T
  <2>2. IsPut(F, EdgeSet(text, docs[k]), on(F, k))
    BY <1>2, <2>1
  <2> DEFINE H == on(F, k)
  <2> HIDE DEF H
  <2>3. ToSet(F) \subseteq T
    BY <2>1, ToSetIs
  <2>4. OneEach(H) /\ H \in Seq(ToSet(H)) /\ ToSet(H) \subseteq ToSet(F) \cup EdgeSet(text, docs[k])
    BY <2>2 DEF IsPut, OneEach, H
  <2>5. ToSet(H) \subseteq T
    BY <2>1, <2>3, <2>4
  <2>6. H \in Seq(T)
    BY <2>4, <2>5
  <2> QED BY <2>4, <2>6 DEF H
<1>4. step \in [1 .. n -> [S -> S]]
  <2> HIDE DEF S
  <2> QED BY <1>3
<1> HIDE DEF step
<1>5. PICK f : Iterates(S, E, step, n, f)
  <2> HIDE DEF S
  <2> QED BY <1>1, <1>4, IterationExists
<1> HIDE DEF S
<1>6. f \in [0 .. n -> S] /\ f[0] = E /\ \A k \in 1 .. n : f[k] = on(f[k - 1], k)
  <2>1. f \in [0 .. n -> S] /\ f[0] = E /\ \A k \in 1 .. n : f[k] = step[k][f[k - 1]]
    BY <1>5 DEF Iterates
  <2>2. ASSUME NEW k \in 1 .. n PROVE f[k] = on(f[k - 1], k)
    <3>1. f[k - 1] \in S
      BY <2>1
    <3> QED BY <2>1, <3>1 DEF step
  <2> QED BY <2>1, <2>2
<1>7. f = [k \in 0 .. n |-> IF k = 0 THEN E ELSE on(f[k - 1], k)]
  <2>1. \A k \in 0 .. n : k = 0 \/ k \in 1 .. n
    OBVIOUS
  <2>2. \A k \in 0 .. n : f[k] = IF k = 0 THEN E ELSE on(f[k - 1], k)
    BY <1>6, <2>1, Zenon
  <2> QED BY <1>6, <2>2
<1>8. put = [k \in 0 .. n |-> IF k = 0 THEN E ELSE on(put[k - 1], k)]
  BY <1>7
<1>9. PutDocuments(E, docs) = put[n]
  BY DEF PutDocuments, on
<1> HIDE DEF put
<1>10. put[0] = E /\ \A k \in 1 .. n : put[k] = on(put[k - 1], k)
  <2>1. 0 \in 0 .. n /\ \A k \in 1 .. n : k \in 0 .. n /\ k # 0
    OBVIOUS
  <2>2. \A k \in 0 .. n : put[k] = IF k = 0 THEN E ELSE on(put[k - 1], k)
    BY <1>8
  <2> QED BY <2>1, <2>2
<1> DEFINE X == [k \in 1 .. n |-> EdgeSet(text, docs[k])]
<1>11. \A k \in 1 .. n : X[k] = EdgeSet(text, docs[k])
  OBVIOUS
<1> HIDE DEF X
<1>12. IsPut(E, Y, put[n])
  <2>1. put[0] = E
    BY <1>10
  <2>2. \A k \in 1 .. n : OneEach(put[k - 1]) => IsPut(put[k - 1], X[k], put[k])
    BY <1>2, <1>10, <1>11
  <2>3. \A j, k \in 1 .. n : \A x \in X[j], y \in X[k] : x.id = y.id => x = y
    BY <1>11, EdgesDiffer
  <2>4. \A y : y \in Y <=> \E k \in 1 .. n : y \in X[k]
    BY <1>11
  <2>5. n \in Nat
    OBVIOUS
  <2> HIDE DEF n
  <2> QED BY <2>1, <2>2, <2>3, <2>4, <2>5, PutInTurn
<1> QED BY <1>9, <1>12

LEMMA SetToSeqIs ==
  ASSUME NEW S, IsFiniteSet(S)
  PROVE  Len(SetToSeq(S)) \in Nat /\ \A y : y \in S <=> \E k \in 1 .. Len(SetToSeq(S)) : SetToSeq(S)[k] = y
<1> DEFINE n == Cardinality(S)
           s == SetToSeq(S)
<1>1. n \in Nat /\ ExistsBijection(1 .. n, S)
  BY FS_CardinalityType
<1>2. \E f \in [1 .. n -> S] : IsInjective(f)
  BY <1>1 DEF ExistsBijection, Bijection, Injection, IsInjective
<1>3. s \in [1 .. n -> S] /\ IsInjective(s)
  BY <1>2 DEF SetToSeq
<1> HIDE DEF s
<1>4. s \in Injection(1 .. n, S)
  BY <1>3 DEF Injection, IsInjective
<1>5. IsFiniteSet(1 .. n) /\ Cardinality(1 .. n) = n
  <2>1. IsFiniteSet(1 .. n) /\ Cardinality(1 .. n) = (IF 1 > n THEN 0 ELSE n - 1 + 1)
    BY <1>1, FS_Interval
  <2> QED BY <1>1, <2>1
<1>6. s \in Surjection(1 .. n, S)
  BY <1>4, <1>5, FS_Injection
<1>7. \A y \in S : \E k \in 1 .. n : s[k] = y
  BY <1>6 DEF Surjection
<1>8. Len(s) = n /\ \A k \in 1 .. n : s[k] \in S
  BY <1>1, <1>3
<1> QED BY <1>1, <1>7, <1>8 DEF s

----------------------------------------------------------------------------
(* The invariant                                                            *)

\* Of a document imported over nothing else, the store has the edges and the nodes.
HoldsAll(E, N, d, t) ==
  /\ t \in Seq(LineKinds) /\ Len(Outline(t).heads) # 0
  /\ {e \in ToSet(E) : e.id[1] = d} = EdgeSet(t, d)
  /\ Lined(N, d, Outline(t))

ImportIInv ==
  /\ text \in Seq(LineKinds)
  /\ LibraryIs(library.edges)
  /\ \A d \in DOMAIN latest : latest[d].fits => HoldsAll(library.edges, library.nodes, d, latest[d].text)

LEMMA DocumentStands ==
  ASSUME NEW d, NEW t, LibraryIs(library.edges), HoldsAll(library.edges, library.nodes, d, t)
  PROVE  Stands(d, Outline(t))
<1> DEFINE o == Outline(t)
           P == ParseMarkdown(t, d).edges
           X == {e \in ToSet(library.edges) : e.id[1] = d}
<1>1. t \in Seq(LineKinds) /\ Len(o.heads) # 0 /\ X = EdgeSet(t, d) /\ Lined(library.nodes, d, o)
  BY DEF HoldsAll
<1>2. AreLeaves(o.leaves, Len(o.heads)) /\ AreEdgesOf(P, d, o.leaves, Len(o.heads))
  BY <1>1, ParsedIs
<1>3. EdgeSet(t, d) = {Numbered(d, i, P[i]) : i \in 1 .. Len(P)}
  BY DEF EdgeSet
<1>4. AreOwn({Numbered(d, i, P[i]) : i \in 1 .. Len(P)}, d, o.leaves, Len(o.heads))
  <2> HIDE DEF o, P
  <2> QED BY <1>1, <1>2, NumberedOwn
<1>5. AreOwn(X, d, o.leaves, Len(o.heads))
  BY <1>1, <1>3, <1>4
<1>6. Carries(library.edges, d, o.leaves, Len(o.heads))
  <2> HIDE DEF o
  <2> QED BY <1>5, LibraryCarries
<1> QED BY <1>1, <1>6 DEF Stands

LEMMA ImportIInvReads == ASSUME ImportIInv PROVE ReadsAsWritten
<1>1. ASSUME NEW d \in DOMAIN latest, latest[d].fits
      PROVE  LET flow == ValidateDocFlow(library.edges, Root(d))
                 way == <<Root(d)>> \o flow.order
                 t == latest[d].text
             IN flow.ok /\ InOrder(way) /\ DOMAIN t \ MayBeLost(t) \subseteq UNION {Under(way[i]) : i \in DOMAIN way}
  <2> DEFINE t == latest[d].text
             o == Outline(t)
  <2>1. LibraryIs(library.edges) /\ HoldsAll(library.edges, library.nodes, d, t)
    BY <1>1 DEF ImportIInv
  <2>2. t \in Seq(LineKinds) /\ Len(o.heads) # 0
    BY <2>1 DEF HoldsAll
  <2>3. Stands(d, o)
    BY <2>1, DocumentStands
  <2>4. o = Outline(t)
    OBVIOUS
  <2> HIDE DEF o, t
  <2>5. LET flow == ValidateDocFlow(library.edges, Root(d))
            way == <<Root(d)>> \o flow.order
        IN flow.ok /\ InOrder(way) /\ DOMAIN t \ MayBeLost(t) \subseteq UNION {Under(way[i]) : i \in DOMAIN way}
    BY <2>2, <2>3, <2>4, DocumentReads
  <2> QED BY <2>5 DEF t
<1> QED BY <1>1 DEF ReadsAsWritten

----------------------------------------------------------------------------
(* Nodes that stay, and new ones                                            *)

LEMMA LinesStay ==
  ASSUME NEW N, NEW M, NEW id, NEW lines, HasLines(N, id, lines), \A x : x.id = id => (x \in N <=> x \in M)
  PROVE  HasLines(M, id, lines)
  BY DEF HasLines

LEMMA LinedStays ==
  ASSUME NEW N, NEW M, NEW d, NEW o, Lined(N, d, o), \A x : x.id[1] = d => (x \in N <=> x \in M)
  PROVE  Lined(M, d, o)
<1>1. ASSUME NEW id, id[1] = d, NEW lines, HasLines(N, id, lines) PROVE HasLines(M, id, lines)
  BY <1>1, LinesStay
<1>2. Root(d)[1] = d /\ (\A i : Section(d, i)[1] = d) /\ (\A k : LeafId(d, o.leaves, k)[1] = d)
  BY DEF Root, Section, LeafId
<1>3. HasLines(M, Root(d), <<>>)
  BY <1>1, <1>2 DEF Lined
<1>4. \A i \in 1 .. Len(o.heads) : HasLines(M, Section(d, i), o.heads[i])
  BY <1>1, <1>2 DEF Lined
<1>5. \A k \in 1 .. Len(o.leaves) : HasLines(M, LeafId(d, o.leaves, k), o.leaves[k].lines)
  BY <1>1, <1>2 DEF Lined
<1> QED BY <1>3, <1>4, <1>5 DEF Lined

NodeOf(id, lines) == [id |-> id, lines |-> lines]

LEMMA NodesAre ==
  ASSUME NEW t \in Seq(LineKinds), NEW d, NEW o, o = Outline(t)
  PROVE  \A x : x \in ParseMarkdown(t, d).nodes <=>
           \/ x = NodeOf(Root(d), <<>>)
           \/ \E i \in 1 .. Len(o.heads) : x = NodeOf(Section(d, i), o.heads[i])
           \/ \E k \in 1 .. Len(o.leaves) : x = NodeOf(LeafId(d, o.leaves, k), o.leaves[k].lines)
<1>1. IsOutline(t, o)
  BY OutlineHolds
<1>2. DOMAIN o.heads = 1 .. Len(o.heads) /\ DOMAIN o.leaves = 1 .. Len(o.leaves)
  BY <1>1, OutlineIs
<1>3. ParseMarkdown(t, d).nodes =
        {[id |-> Root(d), lines |-> <<>>]}
        \cup {[id |-> Section(d, n), lines |-> o.heads[n]] : n \in 1 .. Len(o.heads)}
        \cup {[id |-> LeafId(d, o.leaves, k), lines |-> o.leaves[k].lines] : k \in 1 .. Len(o.leaves)}
  BY <1>2 DEF ParseMarkdown
<1> QED BY <1>3 DEF NodeOf

LEMMA NodesDiffer ==
  ASSUME NEW t \in Seq(LineKinds), NEW d,
         NEW x \in ParseMarkdown(t, d).nodes, NEW y \in ParseMarkdown(t, d).nodes
  PROVE  x.id[1] = d /\ (x.id = y.id => x = y)
<1> DEFINE o == Outline(t)
           L == o.leaves
           m == Len(o.heads)
           N == ParseMarkdown(t, d).nodes
<1>1. AreLeaves(L, m)
  BY ParsedIs
<1>2. \A z : z \in N <=>
        \/ z = NodeOf(Root(d), <<>>)
        \/ \E i \in 1 .. m : z = NodeOf(Section(d, i), o.heads[i])
        \/ \E k \in 1 .. Len(L) : z = NodeOf(LeafId(d, L, k), L[k].lines)
  BY NodesAre
<1> HIDE DEF L, m, N, o
<1>3. /\ \A j, k \in 1 .. Len(L) : LeafId(d, L, j) = LeafId(d, L, k) => j = k
      /\ \A k \in 1 .. Len(L) : LeafId(d, L, k) # Root(d) /\ \A i : LeafId(d, L, k) # Section(d, i)
      /\ \A i, j : Section(d, i) = Section(d, j) => i = j
      /\ \A i : Section(d, i) # Root(d)
  BY <1>1, IdsDiffer
<1>4. \A id, lines : NodeOf(id, lines).id = id
  BY DEF NodeOf
<1>5. Root(d)[1] = d /\ (\A i : Section(d, i)[1] = d) /\ (\A k : LeafId(d, L, k)[1] = d)
  BY DEF Root, Section, LeafId
<1>6. x \in N /\ y \in N
  BY DEF N
<1>7. x.id[1] = d
  BY <1>2, <1>4, <1>5, <1>6
<1>8. ASSUME x.id = y.id PROVE x = y
  <2>1. CASE x = NodeOf(Root(d), <<>>)
    BY <1>2, <1>3, <1>4, <1>6, <1>8, <2>1
  <2>2. CASE \E i \in 1 .. m : x = NodeOf(Section(d, i), o.heads[i])
    <3>1. PICK i \in 1 .. m : x = NodeOf(Section(d, i), o.heads[i])
      BY <2>2
    <3>2. y.id = Section(d, i)
      BY <1>4, <1>8, <3>1
    <3>3. \E j \in 1 .. m : y = NodeOf(Section(d, j), o.heads[j])
      BY <1>2, <1>3, <1>4, <1>6, <3>2
    <3> QED BY <1>3, <1>4, <3>1, <3>2, <3>3
  <2>3. CASE \E k \in 1 .. Len(L) : x = NodeOf(LeafId(d, L, k), L[k].lines)
    <3>1. PICK k \in 1 .. Len(L) : x = NodeOf(LeafId(d, L, k), L[k].lines)
      BY <2>3
    <3>2. y.id = LeafId(d, L, k)
      BY <1>4, <1>8, <3>1
    <3>3. \E j \in 1 .. Len(L) : y = NodeOf(LeafId(d, L, j), L[j].lines)
      BY <1>2, <1>3, <1>4, <1>6, <3>2
    <3> QED BY <1>3, <1>4, <3>1, <3>2, <3>3
  <2> QED BY <1>2, <1>6, <2>1, <2>2, <2>3
<1> QED BY <1>7, <1>8

\* The nodes of an import take the place of those of the same ids.
LEMMA NewLined ==
  ASSUME NEW t \in Seq(LineKinds), NEW docs, NEW d \in docs, NEW N, NEW new,
         new = UNION {ParseMarkdown(t, c).nodes : c \in docs}
  PROVE  Lined({x \in N : \A y \in new : x.id # y.id} \cup new, d, Outline(t))
<1> DEFINE M == {x \in N : \A y \in new : x.id # y.id} \cup new
           o == Outline(t)
<1>1. \A x \in new : \E c \in docs : x \in ParseMarkdown(t, c).nodes /\ x.id[1] = c
  BY NodesDiffer
<1>2. ParseMarkdown(t, d).nodes \subseteq new
  OBVIOUS
<1>3. ASSUME NEW id, NEW lines, NodeOf(id, lines) \in ParseMarkdown(t, d).nodes PROVE HasLines(M, id, lines)
  <2> DEFINE x == NodeOf(id, lines)
  <2>1. x.id = id /\ x.lines = lines /\ x \in new /\ x \in ParseMarkdown(t, d).nodes
    BY <1>2, <1>3 DEF NodeOf
  <2> HIDE DEF x
  <2>2. id[1] = d
    BY <2>1, NodesDiffer
  <2>3. ASSUME NEW y \in M, y.id = id PROVE x = y
    <3>1. y \in new
      BY <2>1, <2>3
    <3>2. y \in ParseMarkdown(t, d).nodes
      BY <1>1, <2>2, <2>3, <3>1
    <3> QED BY <2>1, <2>3, <3>2, NodesDiffer
  <2>4. x \in M
    BY <2>1
  <2> QED BY <2>1, <2>3, <2>4 DEF HasLines
<1>4. \A x : x \in ParseMarkdown(t, d).nodes <=>
           \/ x = NodeOf(Root(d), <<>>)
           \/ \E i \in 1 .. Len(o.heads) : x = NodeOf(Section(d, i), o.heads[i])
           \/ \E k \in 1 .. Len(o.leaves) : x = NodeOf(LeafId(d, o.leaves, k), o.leaves[k].lines)
  BY NodesAre
<1> HIDE DEF M, o
<1>5. Lined(M, d, o)
  BY <1>3, <1>4 DEF Lined
<1> QED BY <1>5 DEF M, o

LEMMA OldLined ==
  ASSUME NEW t \in Seq(LineKinds), NEW docs, NEW d, d \notin docs, NEW N, NEW o, Lined(N, d, o), NEW new,
         new = UNION {ParseMarkdown(t, c).nodes : c \in docs}
  PROVE  Lined({x \in N : \A y \in new : x.id # y.id} \cup new, d, o)
<1> DEFINE M == {x \in N : \A y \in new : x.id # y.id} \cup new
<1>1. \A x \in new : \E c \in docs : x \in ParseMarkdown(t, c).nodes /\ x.id[1] = c
  BY NodesDiffer
<1>2. \A x : x.id[1] = d => (x \in N <=> x \in M)
  BY <1>1
<1> HIDE DEF M
<1>3. Lined(M, d, o)
  BY <1>2, LinedStays
<1> QED BY <1>3 DEF M

----------------------------------------------------------------------------
(* The steps                                                                *)

\* A text without a heading has no flow.
LEMMA HeadNeeded ==
  ASSUME NEW t \in Seq(LineKinds), NEW d, ValidateDocFlow(ParseMarkdown(t, d).edges, Root(d)).ok
  PROVE  Len(Outline(t).heads) # 0
<1> DEFINE P == ParseMarkdown(t, d).edges
           L == Outline(t).leaves
           m == Len(Outline(t).heads)
           r == Root(d)
           heads == OfKind(EdgesForDocument(P, r), "doc-head")
<1> SUFFICES ASSUME m = 0 PROVE FALSE
  OBVIOUS
<1>1. AreEdgesOf(P, d, L, m)
  BY ParsedIs
<1>2. Len(heads) = 1
  <2>1. ValidateDocFlow(P, r).ok
    OBVIOUS
  <2> HIDE DEF P, r
  <2>2. ASSUME Len(heads) # 1 PROVE ValidateDocFlow(P, r) = Broken("missing-head")
    BY <2>2 DEF ValidateDocFlow
  <2>3. ~ Broken("missing-head").ok
    BY DEF Broken
  <2> QED BY <2>1, <2>2, <2>3
<1> HIDE DEF P, L, r
<1>3. P \in Seq(ToSet(P)) /\ \A e \in ToSet(P) : \E i \in 1 .. Len(P) : e = P[i]
  <2>1. Len(P) \in Nat /\ P = [i \in 1 .. Len(P) |-> P[i]]
    BY <1>1 DEF AreEdgesOf
  <2>2. P \in [1 .. Len(P) -> {P[i] : i \in 1 .. Len(P)}]
    BY <2>1
  <2>3. P \in Seq({P[i] : i \in 1 .. Len(P)})
    BY <2>1, <2>2
  <2>4. P \in Seq(ToSet(P))
    BY <2>3, SeqOwn
  <2>5. \A x : x \in ToSet(P) <=> \E i \in 1 .. Len(P) : P[i] = x
    BY <2>3, ToSetIs
  <2> QED BY <2>4, <2>5
<1>4. heads \in Seq(ToSet(P)) /\ ToSet(heads) = OwnOf(P, r, "doc-head")
  BY <1>3, OwnIs
<1>5. OwnOf(P, r, "doc-head") = {}
  <2>1. ASSUME NEW e \in ToSet(P) PROVE e.kind # "doc-head"
    <3>1. PICK i \in 1 .. Len(P) : e = P[i]
      BY <1>3
    <3>2. \E k \in 1 .. Len(L) : P[i] = HangsBy(d, L, k) \/ P[i] = AlsoBy(d, L, k)
      BY <1>1 DEF AreEdgesOf
    <3>3. PICK k \in 1 .. Len(L) : P[i] = HangsBy(d, L, k) \/ P[i] = AlsoBy(d, L, k)
      BY <3>2
    <3>4. HangsBy(d, L, k).kind = "doc-child" /\ AlsoBy(d, L, k).kind = "parent-child"
      BY EdgeIsAs DEF HangsBy, AlsoBy
    <3> QED BY <3>1, <3>3, <3>4
  <2> QED BY <2>1 DEF OwnOf
<1> HIDE DEF heads
<1>6. heads[1] \in ToSet(heads)
  BY <1>2, <1>4, ToSetIs
<1> QED BY <1>4, <1>5, <1>6

\* What the batch makes of the edges.
LEMMA PutKeeps ==
  ASSUME NEW t \in Seq(LineKinds), Len(Outline(t).heads) # 0, NEW docs, NEW E, LibraryIs(E), NEW F,
         IsPut(E, UNION {EdgeSet(t, c) : c \in docs}, F)
  PROVE  /\ LibraryIs(F)
         /\ \A d \in docs : Leftovers(E, d, t) = {} => {e \in ToSet(F) : e.id[1] = d} = EdgeSet(t, d)
         /\ \A d : d \notin docs => {e \in ToSet(F) : e.id[1] = d} = {e \in ToSet(E) : e.id[1] = d}
<1> DEFINE Y == UNION {EdgeSet(t, c) : c \in docs}
           o == Outline(t)
<1>1. OneEach(F) /\ ToSet(F) = {e \in ToSet(E) : \A x \in Y : e.id # x.id} \cup Y
  BY DEF IsPut
<1>2. \A e \in ToSet(E) : IsStored(e)
  BY DEF LibraryIs
<1>3. \A y : y \in Y <=> \E c \in docs : y \in EdgeSet(t, c)
  OBVIOUS
<1> HIDE DEF Y
<1>4. ASSUME NEW c, NEW y \in EdgeSet(t, c) PROVE IsStored(y) /\ y.id[1] = c
  <2> DEFINE P == ParseMarkdown(t, c).edges
             X == {Numbered(c, i, P[i]) : i \in 1 .. Len(P)}
  <2>1. AreLeaves(o.leaves, Len(o.heads)) /\ AreEdgesOf(P, c, o.leaves, Len(o.heads)) /\ Len(o.heads) # 0
    BY ParsedIs
  <2>2. X = EdgeSet(t, c)
    BY DEF EdgeSet
  <2>3. AreOwn(X, c, o.leaves, Len(o.heads))
    <3> HIDE DEF o, P
    <3> QED BY <2>1, NumberedOwn
  <2>4. \A e \in X : IsStored(e) /\ e.id[1] = c
    BY <2>3 DEF AreOwn
  <2> QED BY <1>4, <2>2, <2>4
<1>5. LibraryIs(F)
  BY <1>1, <1>2, <1>3, <1>4 DEF LibraryIs
<1>6. ASSUME NEW d \in docs, Leftovers(E, d, t) = {} PROVE {e \in ToSet(F) : e.id[1] = d} = EdgeSet(t, d)
  <2> DEFINE P == ParseMarkdown(t, d).edges
  <2>1. ASSUME NEW e \in EdgeSet(t, d) PROVE e \in ToSet(F) /\ e.id[1] = d
    BY <1>1, <1>3, <1>4, <2>1
  <2>2. ASSUME NEW e \in Y, e.id[1] = d PROVE e \in EdgeSet(t, d)
    BY <1>3, <1>4, <2>2
  <2>3. ASSUME NEW e \in ToSet(E), e.id[1] = d PROVE \E x \in Y : e.id = x.id
    <3>1. ~(e.id[2] > Len(P))
      BY <1>6, <2>3 DEF Leftovers
    <3>2. e.id = <<d, e.id[2]>> /\ e.id[2] \in Nat \ {0}
      BY <1>2, <2>3 DEF IsStored
    <3> DEFINE i == e.id[2]
    <3>3. Len(P) \in Nat
      BY ParsedIs
    <3>4. i \in 1 .. Len(P)
      BY <3>1, <3>2, <3>3
    <3>5. Numbered(d, i, P[i]) \in EdgeSet(t, d)
      BY <3>4 DEF EdgeSet
    <3>6. Numbered(d, i, P[i]).id = <<d, i>>
      BY DEF Numbered
    <3> QED BY <1>3, <3>2, <3>5, <3>6
  <2>4. \A e : e \in {x \in ToSet(F) : x.id[1] = d} <=> e \in EdgeSet(t, d)
    BY <1>1, <2>1, <2>2, <2>3
  <2> QED BY <2>4
<1>7. ASSUME NEW d, d \notin docs PROVE {e \in ToSet(F) : e.id[1] = d} = {e \in ToSet(E) : e.id[1] = d}
  <2>1. \A y \in Y : y.id[1] # d
    BY <1>3, <1>4, <1>7
  <2>2. \A e : e \in {x \in ToSet(F) : x.id[1] = d} <=> e \in {x \in ToSet(E) : x.id[1] = d}
    BY <1>1, <2>1
  <2> QED BY <2>2
<1> QED BY <1>5, <1>6, <1>7

LEMMA ImportKeeps ==
  ASSUME ImportIInv, NEW files, IsFiniteSet(files), ImportMarkdownCorpus(files), text' = text
  PROVE  ImportIInv'
<1>1. CASE Rejected(files)
  <2>1. library' = library /\ latest' = latest
    BY <1>1 DEF ImportMarkdownCorpus
  <2> QED BY <2>1 DEF ImportIInv
<1>2. CASE ~ Rejected(files)
  <2> DEFINE docs == {DocumentId(f) : f \in files}
             new == UNION {ParseMarkdown(text, d).nodes : d \in docs}
             E == library.edges
             N == library.nodes
             s == SetToSeq(docs)
             Y == UNION {EdgeSet(text, d) : d \in docs}
             M == {x \in N : \A y \in new : x.id # y.id} \cup new
  <2>1. /\ library'.nodes = M /\ library'.edges = PutDocuments(E, s)
        /\ DOMAIN latest' = DOMAIN latest \cup docs
        /\ \A d \in docs : latest'[d].text = text /\ latest'[d].fits = (Leftovers(E, d, text) = {})
        /\ \A d \in DOMAIN latest \ docs : latest'[d] = latest[d]
    BY <1>2 DEF ImportMarkdownCorpus
  <2>2. text \in Seq(LineKinds) /\ LibraryIs(E) /\ \A d \in DOMAIN latest : latest[d].fits => HoldsAll(E, N, d, latest[d].text)
    BY DEF ImportIInv
  <2>3. IsFiniteSet(docs)
    <3> DEFINE g == [f \in files |-> DocumentId(f)]
    <3>1. g \in Surjection(files, docs)
      BY DEF Surjection
    <3> HIDE DEF docs, g
    <3> QED BY <3>1, FS_Surjection
  <2>4. docs # {} => Len(Outline(text).heads) # 0
    <3>1. \A f \in files : ValidateDocFlow(ParseMarkdown(text, DocumentId(f)).edges, Root(DocumentId(f))).ok
      BY <1>2 DEF Rejected
    <3>2. \A d \in docs : ValidateDocFlow(ParseMarkdown(text, d).edges, Root(d)).ok
      BY <3>1
    <3> HIDE DEF docs
    <3> QED BY <2>2, <3>2, HeadNeeded
  <2> HIDE DEF docs
  <2>5. Len(s) \in Nat /\ \A y : y \in docs <=> \E k \in 1 .. Len(s) : s[k] = y
    BY <2>3, SetToSeqIs
  <2> DEFINE F == PutDocuments(E, s)
  <2>6. IsPut(E, Y, F)
    <3>1. \A y : y \in Y <=> \E k \in 1 .. Len(s) : y \in EdgeSet(text, s[k])
      BY <2>5
    <3>2. OneEach(E)
      BY <2>2 DEF LibraryIs
    <3> HIDE DEF Y, s, E
    <3> QED BY <2>2, <2>5, <3>1, <3>2, PutDocumentsIs
  <2> HIDE DEF F, E, N, s
  <2>7. CASE docs = {}
    <3>1. ToSet(F) = ToSet(E) /\ OneEach(F) /\ M = N
      BY <2>6, <2>7 DEF IsPut
    <3>2. LibraryIs(F)
      BY <2>2, <3>1 DEF LibraryIs
    <3>3. \A d \in DOMAIN latest : latest[d].fits => HoldsAll(F, M, d, latest[d].text)
      BY <2>2, <3>1 DEF HoldsAll
    <3>4. library'.edges = F /\ library'.nodes = M /\ DOMAIN latest' = DOMAIN latest /\ \A d \in DOMAIN latest : latest'[d] = latest[d]
      BY <2>1, <2>7 DEF F
    <3> HIDE DEF M
    <3> QED BY <2>2, <3>2, <3>3, <3>4 DEF ImportIInv
  <2>8. CASE docs # {}
    <3>1. /\ LibraryIs(F)
          /\ \A d \in docs : Leftovers(E, d, text) = {} => {e \in ToSet(F) : e.id[1] = d} = EdgeSet(text, d)
          /\ \A d : d \notin docs => {e \in ToSet(F) : e.id[1] = d} = {e \in ToSet(E) : e.id[1] = d}
      BY <2>2, <2>4, <2>6, <2>8, PutKeeps
    <3>2. ASSUME NEW d \in docs, Leftovers(E, d, text) = {} PROVE HoldsAll(F, M, d, text)
      <4>1. {e \in ToSet(F) : e.id[1] = d} = EdgeSet(text, d)
        BY <3>1, <3>2
      <4>2. Lined(M, d, Outline(text))
        BY <2>2, NewLined
      <4> QED BY <2>2, <2>4, <2>8, <4>1, <4>2 DEF HoldsAll
    <3>3. ASSUME NEW d \in DOMAIN latest \ docs, latest[d].fits PROVE HoldsAll(F, M, d, latest[d].text)
      <4> DEFINE t == latest[d].text
      <4>1. HoldsAll(E, N, d, t)
        BY <2>2, <3>3
      <4> HIDE DEF t
      <4>2. {e \in ToSet(F) : e.id[1] = d} = EdgeSet(t, d)
        BY <3>1, <3>3, <4>1 DEF HoldsAll
      <4>3. Lined(N, d, Outline(t))
        BY <4>1 DEF HoldsAll
      <4>4. Lined(M, d, Outline(t))
        BY <2>2, <3>3, <4>3, OldLined
      <4>5. HoldsAll(F, M, d, t)
        BY <4>1, <4>2, <4>4 DEF HoldsAll
      <4> QED BY <4>5 DEF t
    <3> HIDE DEF M
    <3>4. ASSUME NEW d \in DOMAIN latest', latest'[d].fits PROVE HoldsAll(F, M, d, latest'[d].text)
      <4>1. CASE d \in docs
        BY <2>1, <3>2, <3>4, <4>1
      <4>2. CASE d \notin docs
        <5>1. d \in DOMAIN latest \ docs /\ latest'[d] = latest[d]
          BY <2>1, <3>4, <4>2
        <5> QED BY <3>3, <3>4, <5>1
      <4> QED BY <4>1, <4>2
    <3>5. library'.edges = F /\ library'.nodes = M
      BY <2>1 DEF F
    <3> QED BY <2>2, <3>1, <3>4, <3>5 DEF ImportIInv
  <2> QED BY <2>7, <2>8
<1> QED BY <1>1, <1>2

----------------------------------------------------------------------------
LEMMA ImportStart == ImportInit => ImportIInv
<1> SUFFICES ASSUME ImportInit PROVE ImportIInv
  OBVIOUS
<1>1. text \in FirstTexts /\ library.edges = <<>> /\ latest = <<>>
  BY DEF ImportInit
<1>2. text \in Seq(LineKinds)
  BY <1>1, ImportAssumption
<1>3. DOMAIN latest = {}
  BY <1>1
<1>4. LibraryIs(<<>>)
  <2>1. <<>> \in Seq(ToSet(<<>>)) /\ ToSet(<<>>) = {} /\ IsInjective(<<>>)
    BY DEF ToSet, IsInjective
  <2> QED BY <2>1 DEF LibraryIs, OneEach
<1> QED BY <1>1, <1>2, <1>3, <1>4 DEF ImportIInv

LEMMA SelectionKeeps ==
  ASSUME ImportIInv, NEW selection \in SUBSET Paths, RunImportSelection(selection)
  PROVE  ImportIInv'
<1> DEFINE r == Resolution(selection)
<1>1. text' = text
  BY DEF RunImportSelection
<1>2. IsFiniteSet(r.files)
  <2> DEFINE dirs == {p \in selection : Kind[p] = "directory"}
             files == {p \in selection : Kind[p] \in {"markdown", "hidden"}} \cup UNION {PlainFiles(p) : p \in dirs}
  <2>1. files \subseteq DOMAIN Segments
    BY ImportAssumption DEF PlainFiles
  <2>2. IsFiniteSet(DOMAIN Segments)
    BY ImportAssumption
  <2> HIDE DEF files
  <2>3. IsFiniteSet(files) /\ IsFiniteSet({})
    BY <2>1, <2>2, FS_Subset, FS_EmptySet
  <2>4. r.files = files \/ r.files = {}
    BY DEF Resolution, files
  <2> QED BY <2>3, <2>4
<1>3. CASE r.reason = "ok"
  <2>1. ImportMarkdownCorpus(r.files)
    BY <1>3 DEF RunImportSelection
  <2> HIDE DEF r
  <2> QED BY <1>1, <1>2, <2>1, ImportKeeps
<1>4. CASE r.reason # "ok"
  <2>1. library' = library /\ latest' = latest
    BY <1>4 DEF RunImportSelection
  <2> QED BY <1>1, <2>1 DEF ImportIInv
<1> QED BY <1>3, <1>4

LEMMA ToolKeeps ==
  ASSUME ImportIInv, NEW files \in SUBSET DOMAIN Segments, EditImportMarkdown(files)
  PROVE  ImportIInv'
<1>1. text' = text /\ ImportMarkdownCorpus(files)
  BY DEF EditImportMarkdown
<1>2. IsFiniteSet(DOMAIN Segments)
  BY ImportAssumption
<1>3. IsFiniteSet(files)
  BY <1>2, FS_Subset
<1> QED BY <1>1, <1>3, ImportKeeps

LEMMA DeletionKeeps ==
  ASSUME ImportIInv, NEW n, NodeDeleted(n)
  PROVE  ImportIInv'
<1> DEFINE E == library.edges
           N == library.nodes
           S == {e \in ToSet(E) : n \notin {e.source, e.target}}
           F == Filtered(E, S)
           M == {x \in N : x.id # n}
<1>1. /\ library'.nodes = M /\ library'.edges = F /\ text' = text
      /\ DOMAIN latest' = DOMAIN latest \ {n[1]}
      /\ \A d \in DOMAIN latest \ {n[1]} : latest'[d] = latest[d]
  BY DEF NodeDeleted
<1>2. /\ text \in Seq(LineKinds) /\ LibraryIs(E)
      /\ \A d \in DOMAIN latest : latest[d].fits => HoldsAll(E, N, d, latest[d].text)
  BY DEF ImportIInv
<1>3. /\ E \in Seq(ToSet(E)) /\ IsInjective(E) /\ (\A e, f \in ToSet(E) : e.id = f.id => e = f)
      /\ \A e \in ToSet(E) : IsStored(e)
  BY <1>2 DEF LibraryIs, OneEach
<1>4. F \in Seq(ToSet(E)) /\ ToSet(F) = S /\ IsInjective(F)
  <2> HIDE DEF S
  <2>1. /\ Filtered(E, S) \in Seq(ToSet(E)) /\ ToSet(Filtered(E, S)) = ToSet(E) \cap S
        /\ IsInjective(E) => IsInjective(Filtered(E, S))
    BY <1>3, FilteredIs
  <2>2. ToSet(E) \cap S = S
    BY DEF S
  <2> QED BY <1>3, <2>1, <2>2
<1> HIDE DEF F, E, N
<1>5. LibraryIs(F)
  <2>1. F \in Seq(ToSet(F))
    BY <1>4, SeqOwn
  <2> QED BY <1>3, <1>4, <2>1 DEF LibraryIs, OneEach
<1>6. ASSUME NEW d \in DOMAIN latest \ {n[1]}, latest[d].fits PROVE HoldsAll(F, M, d, latest[d].text)
  <2> DEFINE t == latest[d].text
  <2>1. HoldsAll(E, N, d, t) /\ d # n[1]
    BY <1>2, <1>6
  <2> HIDE DEF t
  <2>2. {e \in ToSet(F) : e.id[1] = d} = {e \in ToSet(E) : e.id[1] = d}
    <3>1. \A e \in ToSet(E) : e.id[1] = d => e.source # n /\ e.target # n
      BY <1>3, <2>1 DEF IsStored
    <3>2. \A e : e \in {x \in ToSet(F) : x.id[1] = d} <=> e \in {x \in ToSet(E) : x.id[1] = d}
      BY <1>4, <3>1
    <3> QED BY <3>2
  <2>3. Lined(M, d, Outline(t))
    <3>1. Lined(N, d, Outline(t))
      BY <2>1 DEF HoldsAll
    <3>2. \A x : x.id[1] = d => (x \in N <=> x \in M)
      BY <2>1
    <3> HIDE DEF M
    <3> QED BY <3>1, <3>2, LinedStays
  <2>4. HoldsAll(F, M, d, t)
    BY <2>1, <2>2, <2>3 DEF HoldsAll
  <2> QED BY <2>4 DEF t
<1> HIDE DEF M
<1>7. \A d \in DOMAIN latest' : latest'[d].fits => HoldsAll(F, M, d, latest'[d].text)
  BY <1>1, <1>6
<1> QED BY <1>1, <1>2, <1>5, <1>7 DEF ImportIInv

LEMMA ImportStep == ImportIInv /\ [ImportNext]_importVars => ImportIInv'
<1> SUFFICES ASSUME ImportIInv, [ImportNext]_importVars PROVE ImportIInv'
  OBVIOUS
<1>1. ASSUME NEW selection \in SUBSET Paths \ {{}}, RunImportSelection(selection) PROVE ImportIInv'
  BY <1>1, SelectionKeeps
<1>2. ASSUME NEW files \in SUBSET DOMAIN Segments \ {{}}, EditImportMarkdown(files) PROVE ImportIInv'
  BY <1>2, ToolKeeps
<1>3. ASSUME NEW t \in LaterTexts, FileChanges(t) PROVE ImportIInv'
  <2>1. text' = t /\ library' = library /\ latest' = latest
    BY <1>3 DEF FileChanges
  <2>2. t \in Seq(LineKinds)
    BY ImportAssumption
  <2> QED BY <2>1, <2>2 DEF ImportIInv
<1>4. CASE DefaultMoves
  <2>1. text' = text /\ library' = library /\ latest' = latest
    BY <1>4 DEF DefaultMoves
  <2> QED BY <2>1 DEF ImportIInv
<1>5. ASSUME NEW x \in library.nodes, NodeDeleted(x.id) PROVE ImportIInv'
  BY <1>5, DeletionKeeps
<1>6. CASE UNCHANGED importVars
  BY <1>6 DEF importVars, ImportIInv
<1> QED BY <1>1, <1>2, <1>3, <1>4, <1>5, <1>6 DEF ImportNext

(***************************************************************************)
(* A document that was imported over nothing else is read from the store   *)
(* as its text is written, whatever the text, the files and what happens   *)
(* to the other documents: parseBlocks, buildDocument and                  *)
(* importMarkdownCorpus of markdown-parse.ts and markdown-import.ts.       *)
(***************************************************************************)
THEOREM ImportsReadAsWritten == ImportSpec => []ReadsAsWritten
<1>1. ImportInit => ImportIInv
  BY ImportStart
<1>2. ImportIInv /\ [ImportNext]_importVars => ImportIInv'
  BY ImportStep
<1>3. ImportIInv => ReadsAsWritten
  BY ImportIInvReads
<1> QED BY <1>1, <1>2, <1>3, PTL DEF ImportSpec

=============================================================================
