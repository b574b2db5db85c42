---------------------------- MODULE LexicalIndex ----------------------------
(***************************************************************************)
(* The lexical index of a retrieval engine (retrieval.ts, section 5.1): a  *)
(* statistic of the texts of a store that is built once and from then on   *)
(* only patched, node by node, by the notices of changed nodes.  A text is *)
(* how often each term occurs in it (tokenize, nodeText).  BM25 divides by *)
(* what is kept here, so a count that is off stays off for every query.    *)
(***************************************************************************)
EXTENDS Naturals, Sequences, SequencesExt, FiniteSetsExt

CONSTANTS
  LexNodes,      \* ids of nodes
  LexTerms,      \* terms that are not stopwords
  LexTexts,      \* texts a node may have
  Gone,          \* the node is not in the store
  MaxNotice      \* bound of the model: how many ids a notice names

ASSUME LexAssumption ==
  /\ IsFiniteSet(LexNodes)
  /\ LexTexts \subseteq [LexTerms -> Nat]
  /\ Gone \notin LexTexts
  /\ MaxNotice \in Nat

VARIABLES
  content,       \* the store: the text of each node, or Gone
  lex,           \* the LexicalIndex
  owed           \* history: the nodes changed since the last notice of them

lexVars == <<content, lex, owed>>

Has(text, t) == text[t] > 0

Tokens(tf) == MapThenSumSet(LAMBDA n : MapThenSumSet(LAMBDA t : tf[n][t], LexTerms), DOMAIN tf)

\* createLexicalIndex; averageDocumentLength is total / documentCount.
Built(nodes, text) ==
  LET tf == [n \in ToSet(nodes) |-> text[n]]
  IN [nodeIds |-> nodes,
      termFrequencies |-> tf,
      documentFrequencies |-> [t \in LexTerms |-> Cardinality({n \in DOMAIN tf : Has(tf[n], t)})],
      documentCount |-> Len(nodes),
      total |-> Tokens(tf)]

\* A mutation: a term that leaves a text stays counted.
Shift_OnlyUp(df, old, new) == [t \in LexTerms |-> IF Has(new, t) /\ ~ Has(old, t) THEN df[t] + 1 ELSE df[t]]

\* The document frequencies when one node's text goes from old to new; a count is never kept below one.
Shift(df, old, new) ==
  [t \in LexTerms |->
     IF Has(old, t) /\ ~ Has(new, t) THEN IF df[t] <= 1 THEN 0 ELSE df[t] - 1
     ELSE IF Has(new, t) /\ ~ Has(old, t) THEN df[t] + 1 ELSE df[t]]

NoText == [t \in LexTerms |-> 0]

WithText(i, n, text) ==
  LET tf == [m \in DOMAIN i.termFrequencies \cup {n} |-> IF m = n THEN text ELSE i.termFrequencies[m]]
  IN [i EXCEPT !.termFrequencies = tf, !.total = Tokens(tf)]

UpdateLexicalIndex(i, n, text) ==
  [WithText(i, n, text) EXCEPT !.documentFrequencies = Shift(i.documentFrequencies, i.termFrequencies[n], text)]

AddToLexicalIndex(i, n, text) ==
  [WithText(i, n, text) EXCEPT
     !.documentFrequencies = Shift(i.documentFrequencies, NoText, text),
     !.nodeIds = Append(@, n),
     !.documentCount = @ + 1]

RemoveFromLexicalIndex(i, n) ==
  LET tf == [m \in DOMAIN i.termFrequencies \ {n} |-> i.termFrequencies[m]]
  IN [nodeIds |-> RemoveAt(i.nodeIds, CHOOSE p \in DOMAIN i.nodeIds : i.nodeIds[p] = n),
      termFrequencies |-> tf,
      documentFrequencies |-> Shift(i.documentFrequencies, i.termFrequencies[n], NoText),
      documentCount |-> i.documentCount - 1,
      total |-> Tokens(tf)]

\* What one id of a notice does: the store is read now, not when the node changed.
Reconciled(i, n) ==
  CASE content[n] # Gone /\ Contains(i.nodeIds, n) -> UpdateLexicalIndex(i, n, content[n])
    [] content[n] # Gone /\ ~ Contains(i.nodeIds, n) -> AddToLexicalIndex(i, n, content[n])
    [] content[n] = Gone /\ Contains(i.nodeIds, n) -> RemoveFromLexicalIndex(i, n)
    [] OTHER -> i

\* What a notice does: its ids one after the other.
Notified(i, ids) ==
  LET after[k \in 0..Len(ids)] == IF k = 0 THEN i ELSE Reconciled(after[k - 1], ids[k])
  IN after[Len(ids)]

LexInit ==
  /\ content \in [LexNodes -> LexTexts \cup {Gone}]
  /\ LET stored == {n \in LexNodes : content[n] # Gone}
     IN \E nodes \in SetToSeqs(stored) : lex = Built(nodes, content)
  /\ owed = {}

StoreChange(n) ==
  /\ \E x \in LexTexts \cup {Gone} : x # content[n] /\ content' = [content EXCEPT ![n] = x]
  /\ owed' = owed \cup {n}
  /\ UNCHANGED lex

\* One notice may name several nodes, one of them twice, and nodes that did not change.
OnStoreChanged(ids) ==
  /\ lex' = Notified(lex, ids)
  /\ owed' = owed \ ToSet(ids)
  /\ UNCHANGED content

LexNext ==
  \/ \E n \in LexNodes : StoreChange(n)
  \/ \E ids \in BoundedSeq(LexNodes, MaxNotice) : OnStoreChanged(ids)

LexSpec == LexInit /\ [][LexNext]_lexVars

(***************************************************************************)
(* However the notices are batched, repeated, reordered and delayed, the   *)
(* index is the one that a restart would build from the texts it was last  *)
(* told of: its counts fit its own texts, each node is in it once, and     *)
(* what no notice is owed for is as in the store.                          *)
(***************************************************************************)
IndexIsRebuild ==
  LET known == ToSet(lex.nodeIds)
  IN /\ lex = Built(lex.nodeIds, lex.termFrequencies)
     /\ Cardinality(known) = lex.documentCount
     /\ \A n \in LexNodes \ owed :
          /\ n \in known <=> content[n] # Gone
          /\ n \in known => lex.termFrequencies[n] = content[n]
=============================================================================
