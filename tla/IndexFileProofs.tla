--------------------------- MODULE IndexFileProofs ---------------------------
(***************************************************************************)
(* Theorems about the life of an index after its construction: what it     *)
(* answers, what its files hold, and that its computation ends.            *)
(*                                                                         *)
(* The argument has three parts.  First, the construction, of which        *)
(* PartitionProofs shows what its blocks are made of, ends with blocks     *)
(* that satisfy BuiltRight: the words of a block are those of each of its  *)
(* pairs, and they come from the blocks it refers to.  Then each operation *)
(* is shown to make a right index of a right one (IndexRight), of any      *)
(* blocks bl and graph g.  Last, these facts are put together to an        *)
(* invariant of the specification, from which the properties follow.       *)
(*                                                                         *)
(* The theorems are about indices sorted only when they have cores; that   *)
(* others may be stuck is what the run index_file_sorted shows.            *)
(***************************************************************************)
EXTENDS IndexFile, PartitionProofs

-----------------------------------------------------------------------------
(* The label sequences of a pair.                                          *)

\* Those of at most l edges.
Words(g, l, p) == UNION {{w[2] : w \in {w \in LW(g)[j] : w[1] = p}} : j \in 1..l}

\* Those that any pair has.
IsWord(g, q) == \E p \in Pairs : q \in Words(g, K, p)

\* What LabelsUpTo is.
LEMMA WordsAre ==
    ASSUME NEW l, NEW p
    PROVE  /\ Words(graph, l, p) = LabelsUpTo(l, p)
           /\ \A t : t \in Words(graph, l, p) <=> \E j \in 1..l : t \in LabelsOf(j, p)
BY DEF Words, LabelsUpTo, LabelsOf

\* A pair has a word exactly if walks of one of the lengths are marked with it.
LEMMA WordIs ==
    ASSUME NEW g, NEW l, NEW p, NEW t
    PROVE  t \in Words(g, l, p) <=> \E j \in 1..l : \E w \in LW(g)[j] : w[1] = p /\ w[2] = t
BY DEF Words

\* Three sequences put together.
LEMMA ThreeParts ==
    ASSUME NEW r \in Seq(Int), NEW s \in Seq(Int), NEW t \in Seq(Int)
    PROVE  (r \o s) \o t = r \o (s \o t)
OBVIOUS

\* The labels of a path followed by another one.
LEMMA LabelsConcat ==
    ASSUME graph \in Graphs, NEW a \in 1..K, NEW b \in 1..K, a + b <= K,
           NEW u \in Vertex, NEW m \in Vertex, NEW v \in Vertex,
           NEW x \in LabelsOf(a, <<u, m>>), NEW y \in LabelsOf(b, <<m, v>>)
    PROVE  x \o y \in LabelsOf(a + b, <<u, v>>)
<1> DEFINE Joined2(n, z) ==
               \A y1 \in LabelsOf(n, <<m, z>>) : x \o y1 \in LabelsOf(a + n, <<u, z>>)
           P == {n \in Nat : n + 1 + a <= K => \A z \in Vertex : Joined2(n + 1, z)}
<1>1. K \in Nat \ {0} /\ 1 \in 1..K
  BY DiameterAssumption
<1>2. 0 \in P
  <2> SUFFICES ASSUME 1 + a <= K, NEW z \in Vertex, NEW y1 \in LabelsOf(1, <<m, z>>)
               PROVE  x \o y1 \in LabelsOf(a + 1, <<u, z>>)
    BY <1>1
  <2>1. a \in 1..(K - 1)
    BY <1>1
  <2>2. TwoLabels(a, u, z, x \o y1)
    BY DEF TwoLabels
  <2> QED
    BY <2>1, <2>2, LabelsOfStep
<1>3. ASSUME NEW n \in P PROVE n + 1 \in P
  <2>1. n \in Nat /\ n + 1 \in Nat
    OBVIOUS
  <2> SUFFICES ASSUME n + 2 + a <= K, NEW z \in Vertex, NEW y1 \in LabelsOf(n + 2, <<m, z>>)
               PROVE  x \o y1 \in LabelsOf(a + (n + 2), <<u, z>>)
    BY <1>1, <2>1
  <2>2. n + 1 \in 1..(K - 1) /\ (n + 1) + 1 = n + 2
    BY <1>1, <2>1
  <2>3. PICK e : e = n + 1
    OBVIOUS
  <2>4. e \in 1..(K - 1) /\ e + 1 = n + 2 /\ e \in 1..K /\ a + e \in 1..(K - 1) /\ (a + e) + 1 = a + (n + 2)
    BY <1>1, <2>1, <2>2, <2>3
  <2>5. TwoLabels(e, m, z, y1)
    BY <2>4, LabelsOfStep
  <2>6. PICK w \in Vertex : \E r \in LabelsOf(e, <<m, w>>), s \in LabelsOf(1, <<w, z>>) : y1 = r \o s
    BY <2>5 DEF TwoLabels
  <2>7. PICK r \in LabelsOf(e, <<m, w>>), s \in LabelsOf(1, <<w, z>>) : y1 = r \o s
    BY <2>6
  <2>8. x \o r \in LabelsOf(a + e, <<u, w>>)
    <3>1. Joined2(e, w)
      BY <1>1, <2>1, <2>3, <2>4
    <3> QED
      BY <3>1, <2>7
  <2>9. TwoLabels(a + e, u, z, (x \o r) \o s)
    BY <2>7, <2>8 DEF TwoLabels
  <2>10. (x \o r) \o s \in LabelsOf(a + (n + 2), <<u, z>>)
    BY <2>4, <2>9, LabelsOfStep
  <2>11. x \in Seq(Int) /\ r \in Seq(Int) /\ s \in Seq(Int)
    <3>1. LabelsOf(a, <<u, m>>) \in SUBSET Seq(Int)
      BY LabelsOfTypes
    <3>2. LabelsOf(e, <<m, w>>) \in SUBSET Seq(Int)
      BY <2>4, LabelsOfTypes
    <3>3. LabelsOf(1, <<w, z>>) \in SUBSET Seq(Int)
      BY <1>1, LabelsOfTypes
    <3> QED
      BY <2>7, <3>1, <3>2, <3>3
  <2>12. (x \o r) \o s = x \o (r \o s)
    BY <2>11, ThreeParts, Zenon
  <2> QED
    BY <2>7, <2>10, <2>12
<1>4. P \in SUBSET Nat
  OBVIOUS
<1> HIDE DEF P
<1>5. \A n \in Nat : n \in P
  BY <1>2, <1>3, <1>4, NatInd
<1>6. b - 1 \in P /\ b - 1 \in Nat /\ (b - 1) + 1 = b /\ b + a <= K
  BY <1>1, <1>5
<1>7. Joined2(b, v)
  BY <1>6 DEF P
<1> QED
  BY <1>7

\* A path has as many labels as edges.
LEMMA LabelsLength ==
    ASSUME graph \in Graphs, NEW l \in 1..K, NEW u \in Vertex, NEW v \in Vertex, NEW t \in LabelsOf(l, <<u, v>>)
    PROVE  Len(t) = l
<1> DEFINE P == {n \in Nat : n + 1 <= K => \A w, z \in Vertex : \A s \in LabelsOf(n + 1, <<w, z>>) : Len(s) = n + 1}
<1>1. K \in Nat \ {0} /\ 1 \in 1..K
  BY DiameterAssumption
<1>2. 0 \in P
  <2> SUFFICES ASSUME NEW w \in Vertex, NEW z \in Vertex, NEW s \in LabelsOf(1, <<w, z>>)
               PROVE  Len(s) = 1
    BY <1>1
  <2>1. PICK c : s = <<c>>
    BY LabelsOfEdge
  <2> QED
    BY <2>1
<1>3. ASSUME NEW n \in P PROVE n + 1 \in P
  <2>1. n \in Nat
    OBVIOUS
  <2> SUFFICES ASSUME n + 2 <= K, NEW w \in Vertex, NEW z \in Vertex, NEW s \in LabelsOf(n + 2, <<w, z>>)
               PROVE  Len(s) = n + 2
    BY <1>1, <2>1
  <2>2. PICK e : e = n + 1
    OBVIOUS
  <2>3. e \in 1..(K - 1) /\ e + 1 = n + 2 /\ e \in 1..K /\ e \in Nat
    BY <1>1, <2>1, <2>2
  <2>4. TwoLabels(e, w, z, s)
    BY <2>3, LabelsOfStep
  <2>5. PICK m \in Vertex : \E x \in LabelsOf(e, <<w, m>>), y \in LabelsOf(1, <<m, z>>) : s = x \o y
    BY <2>4 DEF TwoLabels
  <2>6. PICK x \in LabelsOf(e, <<w, m>>), y \in LabelsOf(1, <<m, z>>) : s = x \o y
    BY <2>5
  <2>7. Len(x) = e
    BY <1>1, <2>1, <2>2, <2>3
  <2>8. PICK c : y = <<c>>
    BY LabelsOfEdge
  <2>9. x \in Seq(Int) /\ y \in Seq(Int)
    <3>1. LabelsOf(e, <<w, m>>) \in SUBSET Seq(Int) /\ LabelsOf(1, <<m, z>>) \in SUBSET Seq(Int)
      BY <1>1, <2>3, LabelsOfTypes
    <3> QED
      BY <3>1
  <2>10. Len(s) = Len(x) + Len(y)
    BY <2>6, <2>9
  <2> QED
    BY <2>3, <2>7, <2>8, <2>10
<1>4. P \in SUBSET Nat
  OBVIOUS
<1> HIDE DEF P
<1>5. \A n \in Nat : n \in P
  BY <1>2, <1>3, <1>4, NatInd
<1>6. PICK n : n = l - 1
  OBVIOUS
<1>7. n \in P /\ n + 1 = l /\ n + 1 <= K
  BY <1>1, <1>5, <1>6
<1> QED
  BY <1>7 DEF P

-----------------------------------------------------------------------------
(* What the index is made of, in words that the steps of its life keep.    *)

\* The block at a place, and the words of its first pair.
BlockAt(bl, o) == bl[o[1]][o[2]]
WordsOf(bl, g, o) == Words(g, o[1], CHOOSE p \in BlockAt(bl, o).paths : TRUE)

\* The words of the ancestor, and those that the combinations or the labels give.
AncestorWords(bl, g, b) == IF b.ancestor = None THEN {} ELSE WordsOf(bl, g, b.ancestor)
PutTogether(X, Y) == {x \o y : x \in X, y \in Y}
OwnWords(bl, g, b) ==
    IF b.combinations = {} THEN b.labels
    ELSE UNION {PutTogether(WordsOf(bl, g, c[1]), WordsOf(bl, g, c[2])) : c \in b.combinations}

\* There are blocks in each layer.
Layered(bl) == DOMAIN bl = 1..K /\ \A l \in 1..K : \E m \in Nat \ {0} : DOMAIN bl[l] = 1..m

\* b at o is a block of some pairs, made of blocks at o's of lower layers.
Sound(bl, o, b) ==
    /\ b.k = o[1] /\ b.id \in Nat /\ b.paths # {} /\ b.paths \subseteq Pairs
    /\ \A r \in Reads(b) : r \in Objects(bl) /\ r[1] < o[1]
    /\ \A c \in b.combinations : c = <<c[1], c[2]>>

\* Its pairs have the same words, those of what it was made of.
WordsFit(bl, g, o, b) ==
    /\ \A p \in b.paths : Words(g, o[1], p) = WordsOf(bl, g, o)
    /\ WordsOf(bl, g, o) = AncestorWords(bl, g, b) \cup OwnWords(bl, g, b)

\* The id of a block it was made of leads there, from before o at least, and some block of the
\* last layer has a larger id.
IdsLead(bl, o, b) ==
    /\ \A r \in Reads(b), a \in Objects(bl) : Before(a, o) /\ BlockAt(bl, a).id = BlockAt(bl, r).id => a = r
    /\ \E n \in DOMAIN bl[K] : b.id <= bl[K][n].id

\* The blocks of the last layer have ids of their own, and hold each pair that has a word once.
LastFits(bl, g) ==
    /\ \A m, n \in DOMAIN bl[K] :
           /\ bl[K][m].id = bl[K][n].id => m = n
           /\ m # n => bl[K][m].paths \cap bl[K][n].paths = {}
    /\ \A p \in Pairs : Words(g, K, p) # {} => \E n \in DOMAIN bl[K] : p \in bl[K][n].paths

BuiltRight(bl, g) ==
    /\ g \in Graphs /\ Layered(bl) /\ LastFits(bl, g)
    /\ \A o \in Objects(bl) :
           /\ Sound(bl, o, BlockAt(bl, o))
           /\ WordsFit(bl, g, o, BlockAt(bl, o))
           /\ IdsLead(bl, o, BlockAt(bl, o))

\* The construction has ended.
Finished == PathInv /\ BlockInv /\ BlocksExact /\ pc = "built"

\* The places of blocks.
LEMMA ObjectsAre ==
    ASSUME NEW bl, NEW o
    PROVE  o \in Objects(bl) <=> \E l \in DOMAIN bl : \E n \in DOMAIN bl[l] : o = <<l, n>>
BY DEF Objects

\* Each layer is finite and holds a block.
LEMMA FinishedLayers ==
    ASSUME Finished
    PROVE  /\ Layered(blocks) /\ AllNumbered /\ BlocksMade = K /\ graph \in Graphs
           /\ graph # {} /\ K \in Nat \ {0}
<1>1. AllNumbered /\ BlocksMade = K /\ graph \in Graphs /\ K \in Nat \ {0}
  BY DiameterAssumption DEF Finished, AllNumbered, BlocksMade, PathInv, Control
<1>2. graph # {}
  BY <1>1 DEF Finished, BlockInv, EdgesThere
<1>3. ASSUME NEW l \in 1..K PROVE \E m \in Nat \ {0} : DOMAIN blocks[l] = 1..m
  <2>1. Cardinality(Pairs) \in Nat
    BY PairsFinite, FS_CardinalityType
  <2>2. PICK m \in 0..(2 * Cardinality(Pairs)) : blocks[l] = [n \in 1..m |-> blocks[l][n]] /\ (m > 0 <=> l <= BlocksMade)
    BY DEF Finished, BlockInv, BlocksFew
  <2>3. m \in Nat \ {0}
    BY <1>1, <2>1, <2>2
  <2>4. DOMAIN blocks[l] = 1..m
    BY <2>2
  <2> QED
    BY <2>3, <2>4
<1>4. Layered(blocks)
  BY <1>3 DEF Layered, Finished, BlockInv, BlocksFew
<1> QED
  BY <1>1, <1>2, <1>4

\* b of layer l was made of paths of length h, which is l unless b was left over.
AtHome(l, h, b) ==
    /\ h \in 1..l /\ BlockRight(h, b) /\ Contents(blocks, path, graph, h, b) /\ b.k = l
    /\ h = l \/ (l = K /\ h = K - 1 /\ b.paths \cap W(graph)[K] = {})

\* Every block has a home.
LEMMA HomeFits ==
    ASSUME Finished, NEW l \in 1..K, NEW n \in DOMAIN blocks[l]
    PROVE  AtHome(l, Home(graph, l, blocks[l][n]), blocks[l][n])
<1> DEFINE b == blocks[l][n]
<1>1. BlocksMade = K /\ K \in Nat \ {0}
  BY FinishedLayers
<1>2. b.k = l /\ Contents(blocks, path, graph, Home(graph, l, b), b)
  BY <1>1 DEF Finished, BlocksExact, LayerExact
<1>3. BlockRight(l, b) \/ (l = K /\ LeftRight(b))
  BY <1>1 DEF Finished, BlockInv, BlocksRight
<1>4. CASE BlockRight(l, b)
  BY <1>2, <1>4, HomeIs DEF AtHome
<1>5. CASE l = K /\ LeftRight(b)
  <2>1. K > 1 /\ BlockRight(K - 1, b) /\ b.paths \cap W(graph)[K] = {} /\ b.paths # {}
    BY <1>5 DEF LeftRight, BlockRight
  <2>2. Home(graph, l, b) = K - 1
    BY <1>5, <2>1 DEF Home
  <2> QED
    BY <1>1, <1>2, <1>5, <2>1, <2>2 DEF AtHome
<1> QED
  BY <1>3, <1>4, <1>5

\* A block below the last layer is at home there.
LEMMA HomeBelow ==
    ASSUME Finished, NEW l \in 1..(K - 1), NEW n \in DOMAIN blocks[l]
    PROVE  /\ Home(graph, l, blocks[l][n]) = l
           /\ AtHome(l, l, blocks[l][n])
BY FinishedLayers, HomeFits DEF AtHome

\* The id of a block is that of each of its paths.
LEMMA IdAtHome ==
    ASSUME Finished, NEW l \in 1..K, NEW h, NEW b, AtHome(l, h, b)
    PROVE  /\ h \in 1..K /\ b.id \in Nat /\ b.paths # {} /\ b.paths \subseteq Pairs
           /\ \A p \in b.paths : p \in W(graph)[h] /\ b.id = path[<<h, p>>].id
<1>1. AllNumbered /\ K \in Nat \ {0}
  BY FinishedLayers
<1>2. h \in 1..K /\ b.paths # {} /\ \A p \in b.paths : p \in W(graph)[h] /\ b.id = path[<<h, p>>].id
  BY <1>1 DEF AtHome, BlockRight, Contents
<1>3. ASSUME NEW p \in b.paths PROVE p \in Pairs /\ b.id \in Nat
  <2>1. h \in 1..K /\ p \in W(graph)[h] /\ b.id = path[<<h, p>>].id
    BY <1>2
  <2>2. p \in Pairs /\ path[<<h, p>>].id \in 1..lastId /\ lastId \in Nat
    BY <1>1, <2>1, NumberedPath
  <2> QED
    BY <2>1, <2>2
<1> QED
  BY <1>2, <1>3

\* Pairs whose paths share an id have the same words.
LEMMA WordsShared ==
    ASSUME Finished, NEW h \in 1..K, NEW p \in W(graph)[h], NEW q \in W(graph)[h],
           path[<<h, p>>].id = path[<<h, q>>].id
    PROVE  \A l \in 1..h : Words(graph, l, p) = Words(graph, l, q)
<1>1. AllNumbered /\ graph \in Graphs
  BY FinishedLayers
<1>2. IdsFit(h)
  BY <1>1, AllFit
<1>3. <<p, q>> \in B(graph)[h]
  BY <1>2 DEF IdsFit
<1> TAKE l \in 1..h
<1>4. LabelsUpTo(l, p) = LabelsUpTo(l, q)
  BY <1>1, <1>3, LabelsUpToAlike
<1> QED
  BY <1>4, WordsAre

\* A block left over has no word of the last length.
LEMMA WordsLeft ==
    ASSUME Finished, K > 1, NEW p \in Pairs, p \notin W(graph)[K]
    PROVE  Words(graph, K, p) = Words(graph, K - 1, p)
<1>1. K \in Nat \ {0} /\ graph \in Graphs /\ K \in 1..K
  BY FinishedLayers
<1>2. LabelsOf(K, p) = {}
  BY <1>1, NoLabels
<1>3. ASSUME NEW t PROVE t \in Words(graph, K, p) <=> t \in Words(graph, K - 1, p)
  <2>1. t \in Words(graph, K, p) <=> \E j \in 1..K : t \in LabelsOf(j, p)
    BY WordsAre
  <2>2. t \in Words(graph, K - 1, p) <=> \E j \in 1..(K - 1) : t \in LabelsOf(j, p)
    BY WordsAre
  <2>3. \A j \in 1..K : t \in LabelsOf(j, p) => j \in 1..(K - 1)
    <3>1. \A j \in 1..K : j = K \/ j \in 1..(K - 1)
      BY <1>1
    <3> QED
      BY <1>2, <3>1
  <2>4. \A j \in 1..(K - 1) : j \in 1..K
    BY <1>1
  <2> QED
    BY <2>1, <2>2, <2>3, <2>4
<1> QED
  BY <1>3

\* The pairs of a block have the same words.
LEMMA WordsInBlock ==
    ASSUME Finished, NEW l \in 1..K, NEW n \in DOMAIN blocks[l]
    PROVE  /\ \A p \in blocks[l][n].paths : Words(graph, l, p) = WordsOf(blocks, graph, <<l, n>>)
           /\ \A p \in blocks[l][n].paths :
                  Words(graph, l, p) = Words(graph, Home(graph, l, blocks[l][n]), p)
<1>1. PICK b : b = blocks[l][n]
  OBVIOUS
<1>2. PICK h : h = Home(graph, l, b)
  OBVIOUS
<1>3. AtHome(l, h, b)
  BY <1>1, <1>2, HomeFits
<1>4. /\ h \in 1..K /\ b.paths # {} /\ b.paths \subseteq Pairs
      /\ \A p \in b.paths : p \in W(graph)[h] /\ b.id = path[<<h, p>>].id
  BY <1>3, IdAtHome
<1>5. \A p \in b.paths : Words(graph, l, p) = Words(graph, h, p)
  <2>1. CASE h = l
    BY <2>1
  <2>2. CASE h # l
    <3>1. l = K /\ h = K - 1 /\ b.paths \cap W(graph)[K] = {} /\ K > 1
      BY <1>3, <1>4, <2>2 DEF AtHome
    <3> TAKE p \in b.paths
    <3> QED
      BY <1>4, <3>1, WordsLeft
  <2> QED
    BY <2>1, <2>2
<1>6. h \in 1..h
  BY <1>4
<1>7. \A p, q \in b.paths : Words(graph, h, p) = Words(graph, h, q)
  <2> TAKE p, q \in b.paths
  <2>1. p \in W(graph)[h] /\ q \in W(graph)[h] /\ path[<<h, p>>].id = path[<<h, q>>].id
    BY <1>4
  <2>2. \A i \in 1..h : Words(graph, i, p) = Words(graph, i, q)
    BY <1>4, <2>1, WordsShared
  <2> QED
    BY <1>6, <2>2
<1>8. PICK z : z = (CHOOSE p \in b.paths : TRUE)
  OBVIOUS
<1>9. z \in b.paths /\ WordsOf(blocks, graph, <<l, n>>) = Words(graph, l, z)
  BY <1>1, <1>4, <1>8 DEF WordsOf, BlockAt
<1> QED
  BY <1>1, <1>2, <1>5, <1>7, <1>9

\* o is a block of layer i with the words of q and the id of its path.
Known(i, q, o) ==
    /\ o \in Objects(blocks) /\ o[1] = i /\ o # None
    /\ WordsOf(blocks, graph, o) = Words(graph, i, q)
    /\ \E z \in W(graph)[i] : BlockAt(blocks, o).id = path[<<i, z>>].id

\* The block of a path is known by its id.
LEMMA PlaceKnown ==
    ASSUME Finished, NEW i \in 1..(K - 1), NEW q \in W(graph)[i], NEW o, IsPlace(blocks, path, i, q, o)
    PROVE  Known(i, q, o)
<1>1. K \in Nat \ {0} /\ DOMAIN blocks = 1..K /\ i \in 1..K
  BY FinishedLayers DEF Layered
<1>2. PICK n \in DOMAIN blocks[i] : o = <<i, n>> /\ blocks[i][n].id = path[<<i, q>>].id
  BY DEF IsPlace
<1>3. PICK b : b = blocks[i][n]
  OBVIOUS
<1>4. AtHome(i, i, b) /\ Home(graph, i, b) = i
  BY <1>3, HomeBelow
<1>5. PICK z \in b.paths : z \in W(graph)[i] /\ b.id = path[<<i, z>>].id
  BY <1>1, <1>4, IdAtHome
<1>6. \A l \in 1..i : Words(graph, l, z) = Words(graph, l, q)
  <2>1. z \in W(graph)[i] /\ path[<<i, z>>].id = path[<<i, q>>].id
    BY <1>2, <1>3, <1>5
  <2> QED
    BY <1>1, <2>1, WordsShared
<1>7. Words(graph, i, z) = WordsOf(blocks, graph, <<i, n>>)
  BY <1>1, <1>3, <1>5, WordsInBlock
<1>8. i \in 1..i
  BY <1>1
<1>9. o \in Objects(blocks)
  BY <1>1, <1>2, ObjectsAre
<1>10. o # None
  <2>1. n \in Nat
    BY <1>1, FinishedLayers DEF Layered
  <2> QED
    BY <1>2, <2>1, NoneAssumption
<1> QED
  BY <1>2, <1>3, <1>5, <1>6, <1>7, <1>8, <1>9, <1>10 DEF Known, BlockAt

\* The ancestor of a block is the last block of each of its pairs.
LEMMA AncestorKnown ==
    ASSUME Finished, NEW l \in 1..K, NEW h, NEW b, AtHome(l, h, b), NEW p \in b.paths
    PROVE  /\ Earlier(graph, p, h) = {} => b.ancestor = None
           /\ Earlier(graph, p, h) # {} =>
                  /\ Max(Earlier(graph, p, h)) \in 1..(h - 1)
                  /\ Known(Max(Earlier(graph, p, h)), p, b.ancestor)
<1>1. AncestorFound(blocks, path, graph, h, p, b.ancestor)
  BY DEF AtHome, Contents
<1>2. h \in 1..K /\ K \in Nat \ {0} /\ p \in W(graph)[h] /\ AllNumbered
  BY FinishedLayers, IdAtHome
<1>3. CASE Earlier(graph, p, h) = {}
  BY <1>1, <1>3 DEF AncestorFound
<1>4. CASE Earlier(graph, p, h) # {}
  <2>1. PICK e : e = Max(Earlier(graph, p, h))
    OBVIOUS
  <2>2. e \in 1..(h - 1) /\ p \in W(graph)[e]
    BY <1>2, <1>4, <2>1, AncestorIs
  <2>3. IsPlace(blocks, path, e, p, b.ancestor)
    BY <1>1, <1>4, <2>1 DEF AncestorFound
  <2>4. e \in 1..(K - 1)
    BY <1>2, <2>2
  <2>5. Known(e, p, b.ancestor)
    BY <2>2, <2>3, <2>4, PlaceKnown
  <2> QED
    BY <1>4, <2>1, <2>2, <2>5
<1> QED
  BY <1>3, <1>4

\* c are the blocks of the parts of a path of p, the first of them of length j to m.
PartsKnown(h, p, j, m, c) ==
    /\ c = <<c[1], c[2]>> /\ j \in 1..(h - 1) /\ m \in Vertex
    /\ Known(j, <<p[1], m>>, c[1]) /\ Known(h - j, <<m, p[2]>>, c[2])

\* Such are the places that a segment of the path was given.
LEMMA PlacesKnown ==
    ASSUME Finished, NEW h \in 1..K, NEW p, NEW j \in 1..(h - 1), NEW m \in Vertex, NEW c,
           Through(graph, h, p, j, m), PartPlaces(blocks, path, h, p, j, m, c)
    PROVE  PartsKnown(h, p, j, m, c)
<1>1. K \in Nat \ {0}
  BY FinishedLayers
<1>2. PICK i : i = h - j
  OBVIOUS
<1>3. j \in 1..(K - 1) /\ i \in 1..(K - 1)
  BY <1>1, <1>2
<1>4. <<p[1], m>> \in W(graph)[j] /\ <<m, p[2]>> \in W(graph)[i]
  BY <1>2 DEF Through
<1>5. /\ c = <<c[1], c[2]>> /\ IsPlace(blocks, path, j, <<p[1], m>>, c[1])
      /\ IsPlace(blocks, path, i, <<m, p[2]>>, c[2])
  BY <1>2 DEF PartPlaces
<1>6. Known(j, <<p[1], m>>, c[1])
  BY <1>3, <1>4, <1>5, PlaceKnown
<1>7. Known(i, <<m, p[2]>>, c[2])
  BY <1>3, <1>4, <1>5, PlaceKnown
<1> QED
  BY <1>2, <1>5, <1>6, <1>7 DEF PartsKnown

\* The combinations of a block are the blocks of the parts of each of its paths.
LEMMA CombinationsKnown ==
    ASSUME Finished, NEW l \in 1..K, NEW h, NEW b, AtHome(l, h, b), NEW p \in b.paths
    PROVE  /\ \A c \in b.combinations : \E j, m : PartsKnown(h, p, j, m, c)
           /\ \A j \in 1..(h - 1), m \in Vertex :
                  Through(graph, h, p, j, m) => \E c \in b.combinations : PartsKnown(h, p, j, m, c)
<1>1. h \in 1..K
  BY IdAtHome
<1>2. PartsFound(blocks, path, graph, h, p, b.combinations)
  BY DEF AtHome, Contents
<1>3. ASSUME NEW c \in b.combinations PROVE \E j, m : PartsKnown(h, p, j, m, c)
  <2>1. PICK j \in 1..(h - 1), m \in Vertex : Through(graph, h, p, j, m) /\ PartPlaces(blocks, path, h, p, j, m, c)
    BY <1>2 DEF PartsFound
  <2> QED
    BY <1>1, <2>1, PlacesKnown
<1>4. ASSUME NEW j \in 1..(h - 1), NEW m \in Vertex, Through(graph, h, p, j, m)
      PROVE  \E c \in b.combinations : PartsKnown(h, p, j, m, c)
  <2>1. PICK c \in b.combinations : PartPlaces(blocks, path, h, p, j, m, c)
    BY <1>2, <1>4 DEF PartsFound
  <2> QED
    BY <1>1, <1>4, <2>1, PlacesKnown
<1> QED
  BY <1>3, <1>4

\* What a block reads is known.
LEMMA ReadsKnown ==
    ASSUME Finished, NEW l \in 1..K, NEW h, NEW b, AtHome(l, h, b), NEW r \in Reads(b)
    PROVE  /\ r \in Objects(blocks) /\ r[1] \in 1..(h - 1) /\ r # None
           /\ \E z \in W(graph)[r[1]] : BlockAt(blocks, r).id = path[<<r[1], z>>].id
<1>1. h \in 1..K
  BY IdAtHome
<1>2. PICK p \in b.paths : TRUE
  BY IdAtHome
<1>3. \E i \in 1..(h - 1) : \E q : Known(i, q, r)
  <2>1. CASE r = b.ancestor /\ r # None
    BY <1>2, <2>1, AncestorKnown
  <2>2. CASE \E c \in b.combinations : r = c[1] \/ r = c[2]
    <3>1. PICK c \in b.combinations : r = c[1] \/ r = c[2]
      BY <2>2
    <3>2. PICK j, m : PartsKnown(h, p, j, m, c)
      BY <1>2, CombinationsKnown
    <3>3. j \in 1..(h - 1) /\ h - j \in 1..(h - 1)
      BY <1>1, <3>2 DEF PartsKnown
    <3> QED
      BY <3>1, <3>2, <3>3 DEF PartsKnown
  <2> QED
    BY <2>1, <2>2 DEF Reads
<1> QED
  BY <1>3 DEF Known

\* What the combinations or the labels of a block give are words of its pairs, among them all
\* those of their paths of the length it was made of.
LEMMA OwnWordsAre ==
    ASSUME Finished, NEW l \in 1..K, NEW h, NEW b, AtHome(l, h, b), NEW u \in Vertex, NEW v \in Vertex,
           <<u, v>> \in b.paths
    PROVE  /\ OwnWords(blocks, graph, b) \subseteq Words(graph, h, <<u, v>>)
           /\ LabelsOf(h, <<u, v>>) \subseteq OwnWords(blocks, graph, b)
<1> DEFINE p == <<u, v>>
<1>1. h \in 1..K /\ K \in Nat \ {0} /\ graph \in Graphs /\ p \in W(graph)[h]
  BY FinishedLayers, IdAtHome
<1>2. CASE h = 1
  <2>1. b.combinations = {} /\ \A t : t \in b.labels <=> <<p, t>> \in LW(graph)[1]
    BY <1>2 DEF AtHome, Contents
  <2>2. \A t : t \in LabelsOf(1, p) <=> <<p, t>> \in LW(graph)[1]
    BY <1>1, <1>2, LabelsOfIs
  <2>3. OwnWords(blocks, graph, b) = LabelsOf(h, p)
    <3>1. OwnWords(blocks, graph, b) = b.labels
      BY <2>1 DEF OwnWords
    <3>2. \A t : t \in b.labels <=> t \in LabelsOf(1, p)
      BY <2>1, <2>2
    <3>3. b.labels = LabelsOf(1, p)
      BY <3>2
    <3> QED
      BY <1>2, <3>1, <3>3
  <2>4. \A t : t \in LabelsOf(h, p) => t \in Words(graph, h, p)
    <3>1. h \in 1..h
      BY <1>1
    <3> QED
      BY <3>1, WordsAre
  <2> QED
    BY <2>3, <2>4
<1>3. CASE h # 1
  <2>1. h - 1 \in 1..(h - 1) /\ h - 1 \in 1..(K - 1) /\ (h - 1) + 1 = h /\ h - (h - 1) = 1
    BY <1>1, <1>3
  <2>2. ASSUME NEW m \in Vertex, Through(graph, h, p, h - 1, m)
        PROVE  \E c \in b.combinations : PartsKnown(h, p, h - 1, m, c)
    BY <2>1, <2>2, CombinationsKnown
  <2>3. b.combinations # {}
    <3>1. PICK e : e = h - 1
      OBVIOUS
    <3>2. e \in 1..K /\ 1 \in 1..K /\ e + 1 = h /\ e + 1 <= K /\ h - e = 1
      BY <1>1, <2>1, <3>1
    <3>3. \E m \in Vertex : <<u, m>> \in W(graph)[e] /\ <<m, v>> \in W(graph)[1]
      BY <1>1, <3>2, WalksConcat
    <3>4. PICK m \in Vertex : <<u, m>> \in W(graph)[e] /\ <<m, v>> \in W(graph)[1]
      BY <3>3
    <3>5. Through(graph, h, p, h - 1, m)
      BY <2>1, <3>1, <3>4 DEF Through
    <3> QED
      BY <2>2, <3>5
  <2>4. \A t : t \in OwnWords(blocks, graph, b) <=>
            \E c \in b.combinations :
                \E x \in WordsOf(blocks, graph, c[1]), y \in WordsOf(blocks, graph, c[2]) : t = x \o y
    <3>1. PICK X : X = {PutTogether(WordsOf(blocks, graph, c[1]), WordsOf(blocks, graph, c[2])) : c \in b.combinations}
      OBVIOUS
    <3>2. OwnWords(blocks, graph, b) = UNION X
      BY <2>3, <3>1 DEF OwnWords
    <3>3. \A t : t \in UNION X <=>
              \E c \in b.combinations : t \in PutTogether(WordsOf(blocks, graph, c[1]), WordsOf(blocks, graph, c[2]))
      BY <3>1
    <3>4. TAKE t
    <3>5. t \in UNION X <=>
              \E c \in b.combinations :
                  \E x \in WordsOf(blocks, graph, c[1]), y \in WordsOf(blocks, graph, c[2]) : t = x \o y
      <4>1. ASSUME NEW c \in b.combinations
            PROVE  t \in PutTogether(WordsOf(blocks, graph, c[1]), WordsOf(blocks, graph, c[2])) <=>
                       \E x \in WordsOf(blocks, graph, c[1]), y \in WordsOf(blocks, graph, c[2]) : t = x \o y
        BY DEF PutTogether
      <4> QED
        BY <3>3, <4>1
    <3> QED
      BY <3>2, <3>5
  <2>5. ASSUME NEW t \in OwnWords(blocks, graph, b) PROVE t \in Words(graph, h, p)
    <3>1. PICK c \in b.combinations :
              \E x \in WordsOf(blocks, graph, c[1]), y \in WordsOf(blocks, graph, c[2]) : t = x \o y
      BY <2>4
    <3>2. PICK x \in WordsOf(blocks, graph, c[1]), y \in WordsOf(blocks, graph, c[2]) : t = x \o y
      BY <3>1
    <3>3. PICK j, m : PartsKnown(h, p, j, m, c)
      BY CombinationsKnown
    <3>4. PICK i : i = h - j
      OBVIOUS
    <3>5. /\ j \in 1..(h - 1) /\ i \in 1..(h - 1) /\ j + i = h /\ m \in Vertex
      BY <1>1, <3>3, <3>4 DEF PartsKnown
    <3>6. x \in Words(graph, j, <<u, m>>) /\ y \in Words(graph, i, <<m, v>>)
      BY <3>2, <3>3, <3>4 DEF PartsKnown, Known
    <3>7. PICK a \in 1..j : x \in LabelsOf(a, <<u, m>>)
      BY <3>6, WordsAre
    <3>8. PICK d \in 1..i : y \in LabelsOf(d, <<m, v>>)
      BY <3>6, WordsAre
    <3>9. a \in 1..K /\ d \in 1..K /\ a + d <= K /\ a + d \in 1..h
      BY <1>1, <3>5
    <3>10. x \o y \in LabelsOf(a + d, p)
      BY <1>1, <3>5, <3>7, <3>8, <3>9, LabelsConcat
    <3> QED
      BY <3>2, <3>9, <3>10, WordsAre
  <2>6. ASSUME NEW t \in LabelsOf(h, p) PROVE t \in OwnWords(blocks, graph, b)
    <3>1. PICK e : e = h - 1
      OBVIOUS
    <3>2. e \in 1..(K - 1) /\ e + 1 = h /\ e \in 1..K /\ 1 \in 1..K /\ e \in 1..e /\ 1 \in 1..1 /\ h - e = 1
      BY <1>1, <2>1, <3>1
    <3>3. TwoLabels(e, u, v, t)
      BY <1>1, <3>2, LabelsOfStep
    <3>4. PICK m \in Vertex : \E x \in LabelsOf(e, <<u, m>>), y \in LabelsOf(1, <<m, v>>) : t = x \o y
      BY <3>3 DEF TwoLabels
    <3>5. PICK x \in LabelsOf(e, <<u, m>>), y \in LabelsOf(1, <<m, v>>) : t = x \o y
      BY <3>4
    <3>6. <<u, m>> \in W(graph)[e] /\ <<m, v>> \in W(graph)[1]
      <4>1. <<<<u, m>>, x>> \in LW(graph)[e] /\ <<<<m, v>>, y>> \in LW(graph)[1]
        BY <1>1, <3>2, LabelsOfIs
      <4>2. x \in Seq(Int) /\ y \in Seq(Int)
        BY <1>1, <3>2, LabelsOfTypes
      <4> QED
        BY <1>1, <3>2, <4>1, <4>2, WalksLabelled
    <3>7. Through(graph, h, p, h - 1, m)
      BY <3>1, <3>2, <3>6 DEF Through
    <3>8. PICK c \in b.combinations : PartsKnown(h, p, h - 1, m, c)
      BY <2>2, <3>7
    <3>9. Known(e, <<u, m>>, c[1]) /\ Known(1, <<m, v>>, c[2])
      BY <3>1, <3>2, <3>8 DEF PartsKnown
    <3>10. x \in Words(graph, e, <<u, m>>) /\ y \in Words(graph, 1, <<m, v>>)
      BY <3>2, WordsAre
    <3>11. x \in WordsOf(blocks, graph, c[1]) /\ y \in WordsOf(blocks, graph, c[2])
      BY <3>9, <3>10 DEF Known
    <3> QED
      BY <2>4, <3>5, <3>11
  <2> QED
    BY <2>5, <2>6
<1> QED
  BY <1>2, <1>3

\* The words of a block are those of the blocks it was made of.
LEMMA FinishedWords ==
    ASSUME Finished, NEW l \in 1..K, NEW n \in DOMAIN blocks[l]
    PROVE  WordsFit(blocks, graph, <<l, n>>, blocks[l][n])
<1>1. PICK b : b = blocks[l][n]
  OBVIOUS
<1>2. PICK h : h = Home(graph, l, b)
  OBVIOUS
<1>3. AtHome(l, h, b)
  BY <1>1, <1>2, HomeFits
<1>4. /\ h \in 1..K /\ b.paths # {} /\ b.paths \subseteq Pairs /\ \A p \in b.paths : p \in W(graph)[h]
  BY <1>3, IdAtHome
<1>5. PICK u \in Vertex, v \in Vertex : <<u, v>> \in b.paths
  BY <1>4 DEF Pairs
<1>6. PICK p : p = <<u, v>>
  OBVIOUS
<1>7. WordsOf(blocks, graph, <<l, n>>) = Words(graph, h, p)
  BY <1>1, <1>2, <1>5, <1>6, WordsInBlock
<1>8. /\ OwnWords(blocks, graph, b) \subseteq Words(graph, h, p)
      /\ LabelsOf(h, p) \subseteq OwnWords(blocks, graph, b)
  BY <1>3, <1>5, <1>6, OwnWordsAre
<1>9. Words(graph, h, p) = LabelsUpTo(h, p)
  BY WordsAre
<1>10. AllNumbered /\ p \in W(graph)[h] /\ p \in b.paths
  BY <1>4, <1>5, <1>6, FinishedLayers
<1>11. CASE Earlier(graph, p, h) = {}
  <2>1. b.ancestor = None
    BY <1>3, <1>10, <1>11, AncestorKnown
  <2>2. LabelsUpTo(h, p) = LabelsOf(h, p)
    BY <1>4, <1>10, <1>11, LabelsGap
  <2>3. Words(graph, h, p) = AncestorWords(blocks, graph, b) \cup OwnWords(blocks, graph, b)
    BY <1>8, <1>9, <2>1, <2>2 DEF AncestorWords
  <2> QED
    BY <1>1, <1>7, <2>3, WordsInBlock DEF WordsFit
<1>12. CASE Earlier(graph, p, h) # {}
  <2>1. PICK e : e = Max(Earlier(graph, p, h))
    OBVIOUS
  <2>2. Known(e, p, b.ancestor)
    BY <1>3, <1>10, <1>12, <2>1, AncestorKnown
  <2>3. AncestorWords(blocks, graph, b) = Words(graph, e, p)
    BY <2>2 DEF AncestorWords, Known
  <2>4. LabelsUpTo(h, p) = LabelsOf(h, p) \cup LabelsUpTo(e, p)
    BY <1>4, <1>10, <1>12, <2>1, LabelsGap
  <2>5. Words(graph, e, p) = LabelsUpTo(e, p)
    BY WordsAre
  <2>6. Words(graph, h, p) = AncestorWords(blocks, graph, b) \cup OwnWords(blocks, graph, b)
    BY <1>8, <1>9, <2>3, <2>4, <2>5
  <2> QED
    BY <1>1, <1>7, <2>6, WordsInBlock DEF WordsFit
<1> QED
  BY <1>11, <1>12

\* A block is of the layer of its place and made of blocks of lower layers.
LEMMA FinishedSound ==
    ASSUME Finished, NEW l \in 1..K, NEW n \in DOMAIN blocks[l]
    PROVE  Sound(blocks, <<l, n>>, blocks[l][n])
<1>1. PICK b : b = blocks[l][n]
  OBVIOUS
<1>2. PICK h : h = Home(graph, l, b)
  OBVIOUS
<1>3. AtHome(l, h, b)
  BY <1>1, <1>2, HomeFits
<1>4. h \in 1..l /\ b.k = l
  BY <1>3 DEF AtHome
<1>5. b.id \in Nat /\ b.paths # {} /\ b.paths \subseteq Pairs
  BY <1>3, IdAtHome
<1>6. ASSUME NEW r \in Reads(b) PROVE r \in Objects(blocks) /\ r[1] < l
  <2>1. r \in Objects(blocks) /\ r[1] \in 1..(h - 1)
    BY <1>3, ReadsKnown
  <2> QED
    BY <1>4, <2>1
<1>7. ASSUME NEW c \in b.combinations PROVE c = <<c[1], c[2]>>
  <2>1. PICK p \in b.paths : TRUE
    BY <1>5
  <2>2. PICK j, m : PartsKnown(h, p, j, m, c)
    BY <1>3, CombinationsKnown
  <2> QED
    BY <2>2 DEF PartsKnown
<1> QED
  BY <1>1, <1>4, <1>5, <1>6, <1>7 DEF Sound

\* Its id leads to a block that is read, as those left over are behind all others.
LEMMA FinishedLead ==
    ASSUME Finished, NEW l \in 1..K, NEW n \in DOMAIN blocks[l], NEW r \in Reads(blocks[l][n]),
           NEW a \in Objects(blocks), Before(a, <<l, n>>), BlockAt(blocks, a).id = BlockAt(blocks, r).id
    PROVE  a = r
<1>1. DOMAIN blocks = 1..K /\ AllNumbered /\ BlocksMade = K /\ K \in Nat \ {0}
  BY FinishedLayers DEF Layered
<1>2. PICK b : b = blocks[l][n]
  OBVIOUS
<1>3. PICK h : h = Home(graph, l, b)
  OBVIOUS
<1>4. AtHome(l, h, b) /\ h \in 1..l
  BY <1>2, <1>3, HomeFits DEF AtHome
<1>5. PICK i \in 1..K : \E k \in DOMAIN blocks[i] : a = <<i, k>>
  <2>1. \E i \in DOMAIN blocks : \E k \in DOMAIN blocks[i] : a = <<i, k>>
    BY ObjectsAre
  <2> QED
    BY <1>1, <2>1
<1>17. PICK k \in DOMAIN blocks[i] : a = <<i, k>>
  BY <1>5
<1>6. PICK d : d = blocks[i][k]
  OBVIOUS
<1>7. PICK e : e = Home(graph, i, d)
  OBVIOUS
<1>8. AtHome(i, e, d) /\ e \in 1..i /\ (e = i \/ (i = K /\ e = K - 1))
  BY <1>6, <1>7, HomeFits DEF AtHome
<1>9. PICK y \in W(graph)[e] : d.id = path[<<e, y>>].id
  <2>1. d.paths # {} /\ \A p \in d.paths : p \in W(graph)[e] /\ d.id = path[<<e, p>>].id
    BY <1>5, <1>8, IdAtHome
  <2> QED
    BY <2>1
<1>10. r \in Objects(blocks) /\ r[1] \in 1..(h - 1) /\ r # None
  BY <1>2, <1>4, ReadsKnown
<1>11. PICK z \in W(graph)[r[1]] : BlockAt(blocks, r).id = path[<<r[1], z>>].id
  BY <1>2, <1>4, ReadsKnown
<1>12. e = r[1]
  <2>1. PICK x : x = r[1]
    OBVIOUS
  <2>2. x \in 1..K /\ e \in 1..K
    BY <1>1, <1>4, <1>8, <1>10, <2>1
  <2>3. path[<<e, y>>].id = path[<<x, z>>].id /\ z \in W(graph)[x]
    BY <1>17, <1>6, <1>9, <1>11, <2>1 DEF BlockAt
  <2> QED
    BY <1>1, <2>1, <2>2, <2>3, IdsApart
<1>13. e < h
  BY <1>4, <1>10, <1>12
<1>14. LayerExact(blocks, path, graph, i) /\ LayerExact(blocks, path, graph, l)
  BY <1>1 DEF Finished, BlocksExact
<1>15. CASE e = i
  <2>1. PICK m \in DOMAIN blocks[i] : r = <<i, m>>
    <3>1. PICK x \in DOMAIN blocks : \E m \in DOMAIN blocks[x] : r = <<x, m>>
      BY <1>10, ObjectsAre
    <3>2. PICK m \in DOMAIN blocks[x] : r = <<x, m>>
      BY <3>1
    <3>3. x = i
      BY <1>12, <1>15, <3>2
    <3> QED
      BY <3>2, <3>3
  <2>2. blocks[i][m].id = blocks[i][k].id
    BY <1>17, <2>1 DEF BlockAt
  <2>3. m = k
    BY <1>14, <2>2 DEF LayerExact
  <2> QED
    BY <1>17, <2>1, <2>3
<1>16. CASE e # i
  <2>1. i = K /\ e = K - 1
    BY <1>8, <1>16
  <2>2. h = K /\ l = K
    BY <1>1, <1>4, <1>13, <2>1
  <2>3. k < n
    BY <1>17, <2>1, <2>2 DEF Before
  <2>4. Home(graph, l, blocks[l][k]) < Home(graph, l, blocks[l][n])
    BY <1>2, <1>3, <1>6, <1>7, <1>13, <2>1, <2>2
  <2>5. n < k
    <3>1. k \in DOMAIN blocks[l]
      BY <2>1, <2>2
    <3> QED
      BY <1>14, <2>4, <3>1 DEF LayerExact
  <2>6. n \in Nat /\ k \in Nat
    BY <1>1, FinishedLayers DEF Layered
  <2> QED
    BY <2>3, <2>5, <2>6
<1> QED
  BY <1>15, <1>16

\* A pair of the last length is in a block at home in the last layer.
LEMMA LastHome ==
    ASSUME Finished, NEW q \in W(graph)[K]
    PROVE  \E n \in DOMAIN blocks[K] : q \in blocks[K][n].paths /\ blocks[K][n].id = path[<<K, q>>].id
<1>1. AllNumbered /\ BlocksMade = K /\ K \in Nat \ {0} /\ K \in 1..K /\ DOMAIN blocks = 1..K
  BY FinishedLayers DEF Layered
<1>2. <<K, q>> \in DOMAIN path
  BY <1>1, NumberedPath
<1>3. <<K, q>> \in DOMAIN blockOf
  BY <1>1, <1>2 DEF Finished, BlockInv, PlacesRight
<1>4. PICK n \in DOMAIN blocks[K] : q \in blocks[K][n].paths
  <2>1. PICK l \in 1..K : \E n \in DOMAIN blocks[l] :
            q \in blocks[l][n].paths /\ (l = K \/ (pc = "built" /\ l = K))
    BY <1>3 DEF Finished, BlockInv, PlacesRight
  <2> QED
    BY <2>1
<1>5. PICK b : b = blocks[K][n]
  OBVIOUS
<1>6. PICK h : h = Home(graph, K, b)
  OBVIOUS
<1>7. AtHome(K, h, b)
  BY <1>1, <1>5, <1>6, HomeFits
<1>8. h = K
  BY <1>4, <1>5, <1>7 DEF AtHome
<1>9. b.id = path[<<K, q>>].id
  BY <1>1, <1>4, <1>5, <1>7, <1>8, IdAtHome
<1> QED
  BY <1>4, <1>5, <1>9

\* Some block of the last layer has a larger id.
LEMMA FinishedLargest ==
    ASSUME Finished, NEW l \in 1..K, NEW n \in DOMAIN blocks[l]
    PROVE  \E m \in DOMAIN blocks[K] : blocks[l][n].id <= blocks[K][m].id
<1>1. AllNumbered /\ K \in Nat \ {0} /\ K \in 1..K /\ graph \in Graphs /\ graph # {}
  BY FinishedLayers
<1>2. PICK b : b = blocks[l][n]
  OBVIOUS
<1>3. PICK h : h = Home(graph, l, b)
  OBVIOUS
<1>4. AtHome(l, h, b)
  BY <1>2, <1>3, HomeFits
<1>5. h \in 1..K /\ b.id \in Nat
  BY <1>1, <1>4, IdAtHome
<1>6. PICK p \in b.paths : p \in W(graph)[h] /\ b.id = path[<<h, p>>].id
  BY <1>1, <1>4, IdAtHome
<1>7. CASE h = K
  <2>1. l = K
    BY <1>1, <1>4, <1>7 DEF AtHome
  <2> QED
    BY <1>2, <1>5, <2>1
<1>8. CASE h # K
  <2>1. PICK q : q \in W(graph)[K]
    BY <1>1, WalksExist
  <2>2. PICK m \in DOMAIN blocks[K] : blocks[K][m].id = path[<<K, q>>].id
    BY <2>1, LastHome
  <2>3. /\ <<h, p>> \in DOMAIN path /\ <<K, q>> \in DOMAIN path /\ Numbered = K
        /\ path[<<h, p>>].id \in 1..lastId /\ path[<<K, q>>].id \in 1..lastId /\ lastId \in Nat
    BY <1>1, <1>5, <1>6, <2>1, NumberedPath
  <2>4. path[<<h, p>>].id < path[<<K, q>>].id
    <3>1. \A x, y \in DOMAIN path : x[1] < y[1] /\ y[1] <= Numbered => path[x].id < path[y].id
      BY DEF Finished, PathInv, IdsRise
    <3>2. h < K /\ K <= Numbered
      BY <1>1, <1>5, <1>8, <2>3
    <3>3. PICK x \in DOMAIN path : x = <<h, p>>
      BY <2>3
    <3>4. PICK y \in DOMAIN path : y = <<K, q>>
      BY <2>3
    <3>5. x[1] = h /\ y[1] = K
      BY <3>3, <3>4
    <3>6. path[x].id < path[y].id
      BY <3>1, <3>2, <3>5
    <3> QED
      BY <3>3, <3>4, <3>6
  <2> QED
    BY <1>2, <1>6, <2>2, <2>3, <2>4
<1> QED
  BY <1>7, <1>8

\* The last layer.
LEMMA FinishedLast ==
    ASSUME Finished
    PROVE  LastFits(blocks, graph)
<1>1. BlocksMade = K /\ K \in Nat \ {0} /\ K \in 1..K /\ graph \in Graphs
  BY FinishedLayers
<1>2. BlocksPartition
  BY Partitioned DEF Finished
<1>3. LayerExact(blocks, path, graph, K)
  BY <1>1 DEF Finished, BlocksExact
<1>4. \A m, n \in DOMAIN blocks[K] : blocks[K][m].id = blocks[K][n].id => m = n
  BY <1>3 DEF LayerExact
<1>5. \A m, n \in DOMAIN blocks[K] : m # n => blocks[K][m].paths \cap blocks[K][n].paths = {}
  BY <1>2 DEF BlocksPartition, Finished
<1>6. ASSUME NEW p \in Pairs, Words(graph, K, p) # {} PROVE \E n \in DOMAIN blocks[K] : p \in blocks[K][n].paths
  <2>1. PICK t : t \in Words(graph, K, p)
    BY <1>6
  <2>2. PICK j \in 1..K : t \in LabelsOf(j, p)
    BY <2>1, WordsAre
  <2>3. p \in W(graph)[j]
    BY <1>1, <2>2, NoLabels
  <2>4. UNION {blocks[K][n].paths : n \in DOMAIN blocks[K]} = UNION {W(graph)[l] : l \in 1..K}
    BY <1>2, Zenon DEF BlocksPartition, Finished, W
  <2>5. p \in UNION {W(graph)[l] : l \in 1..K}
    BY <2>3
  <2>6. p \in UNION {blocks[K][n].paths : n \in DOMAIN blocks[K]}
    BY <2>4, <2>5
  <2> QED
    BY <2>6
<1> QED
  BY <1>4, <1>5, <1>6 DEF LastFits

\* When the construction has ended the blocks are as the rest of the life of the index needs them.
LEMMA FinishedRight == Finished => BuiltRight(blocks, graph)
<1> SUFFICES ASSUME Finished PROVE BuiltRight(blocks, graph)
  OBVIOUS
<1>1. graph \in Graphs /\ Layered(blocks) /\ DOMAIN blocks = 1..K
  BY FinishedLayers DEF Layered
<1>2. LastFits(blocks, graph)
  BY FinishedLast
<1>3. ASSUME NEW o \in Objects(blocks)
      PROVE  /\ Sound(blocks, o, BlockAt(blocks, o))
             /\ WordsFit(blocks, graph, o, BlockAt(blocks, o))
             /\ IdsLead(blocks, o, BlockAt(blocks, o))
  <2>4. PICK l \in DOMAIN blocks : \E n \in DOMAIN blocks[l] : o = <<l, n>>
    BY ObjectsAre
  <2>1. PICK n \in DOMAIN blocks[l] : o = <<l, n>>
    BY <2>4
  <2>5. l \in 1..K /\ n \in DOMAIN blocks[l]
    BY <1>1, <2>1, <2>4
  <2>2. BlockAt(blocks, o) = blocks[l][n]
    BY <2>1 DEF BlockAt
  <2>3. IdsLead(blocks, <<l, n>>, blocks[l][n])
    <3>1. \E m \in DOMAIN blocks[K] : blocks[l][n].id <= blocks[K][m].id
      BY <2>5, FinishedLargest
    <3> SUFFICES ASSUME NEW r \in Reads(blocks[l][n]), NEW a \in Objects(blocks), Before(a, <<l, n>>),
                        BlockAt(blocks, a).id = BlockAt(blocks, r).id
                 PROVE  a = r
      BY <3>1 DEF IdsLead
    <3> QED
      BY <2>5, FinishedLead
  <2> QED
    BY <2>1, <2>2, <2>3, <2>5, FinishedSound, FinishedWords
<1> QED
  BY <1>1, <1>2, <1>3 DEF BuiltRight

\* Which holds at every moment of the construction.
THEOREM BuiltAtEnd == Spec => [](pc = "built" => BuiltRight(blocks, graph))
<1>1. PathInv /\ BlockInv /\ BlocksExact => (pc = "built" => BuiltRight(blocks, graph))
  BY FinishedRight DEF Finished
<1> QED
  BY <1>1, PathsRight, BlocksAreRight, BlocksAreExact, PTL

-----------------------------------------------------------------------------
(* What is known of an index in memory.                                    *)

\* The m blocks of layer l, in any order.
InPlace(l, m, row) ==
    /\ DOMAIN row = 1..m
    /\ \A n \in 1..m : \E h \in 1..m : row[n] = <<l, h>>
    /\ \A h \in 1..m : \E n \in 1..m : row[n] = <<l, h>>
    /\ \A n, h \in 1..m : row[n] = row[h] => n = h
Arranged(i) ==
    /\ DOMAIN i.layers = 1..K /\ DOMAIN i.heap = Objects(i.layers)
    /\ \A l \in 1..K : \E m \in Nat : InPlace(l, m, i.layers[l])

\* The blocks of the last layer have ids and pairs of their own, and one of them the largest id.
LastOnes(i) == {o \in DOMAIN i.heap : o[1] = K}
NamesRight(i) ==
    /\ \A o \in DOMAIN i.heap :
           /\ i.heap[o].id \in Nat /\ i.heap[o].paths # {} /\ i.heap[o].paths \subseteq Pairs
           /\ \E b \in LastOnes(i) : i.heap[o].id <= i.heap[b].id
    /\ \A a, b \in LastOnes(i) :
           /\ i.heap[a].id = i.heap[b].id => a = b
           /\ a # b => i.heap[a].paths \cap i.heap[b].paths = {}
    /\ LastOnes(i) # {}

\* What a block in memory refers to has the id of a block of a lower layer.
HeapReads(h) == (UNION {{c[1], c[2]} : c \in OrEmpty(h.combinations)}) \cup ({h.ancestor} \ {None})
RefsIn(i) ==
    \A o \in DOMAIN i.heap : \A r \in HeapReads(i.heap[o]) :
        /\ r \in DOMAIN i.heap
        /\ \E a \in DOMAIN i.heap : a[1] < o[1] /\ i.heap[a].id = i.heap[r].id

\* A block in memory before its cores are computed, and after.
IsBlock(h) ==
    h = [id |-> h.id, k |-> h.k, paths |-> h.paths, labels |-> h.labels, ancestor |-> h.ancestor,
         combinations |-> h.combinations, cores |-> h.cores, canonCores |-> h.canonCores]
SameAs(b, h) == IsBlock(h) /\ h.id = b.id /\ h.k = b.k /\ h.paths = b.paths
Fresh(b, h) ==
    /\ SameAs(b, h) /\ h.ancestor = b.ancestor /\ h.combinations = {b.combinations}
    /\ b.combinations = {} => h.labels = {b.labels}
Cored(bl, g, o, h) ==
    /\ SameAs(BlockAt(bl, o), h) /\ h.canonCores = {WordsOf(bl, g, o)}
    /\ IF o[1] = K /\ ~ComputeLabels THEN h.ancestor = None /\ h.combinations = Null
       ELSE /\ h.ancestor = BlockAt(bl, o).ancestor /\ h.combinations = {BlockAt(bl, o).combinations}
            /\ h.cores = {WordsOf(bl, g, o)}

\* The index without cores is what was built.
Plain(bl, i) ==
    /\ i.layers = Named(bl) /\ DOMAIN i.heap = Objects(bl)
    /\ \A o \in Objects(bl) : Fresh(BlockAt(bl, o), i.heap[o])

\* The index with cores finds for a word the blocks of the pairs that have it.
Answers(g, i) ==
    /\ \A q : q \in DOMAIN i.coreToBlock <=> IsWord(g, q)
    /\ \A q \in DOMAIN i.coreToBlock :
           /\ i.coreToBlock[q] \subseteq LastOnes(i)
           /\ \A p \in Pairs : (\E b \in i.coreToBlock[q] : p \in i.heap[b].paths) <=> q \in Words(g, K, p)

IsIndex(i) ==
    i = [predicates |-> i.predicates, computeCores |-> i.computeCores, layers |-> i.layers,
         heap |-> i.heap, coreToBlock |-> i.coreToBlock]
IndexRight(bl, g, i) ==
    /\ IsIndex(i) /\ i.predicates \in BOOLEAN /\ i.computeCores \in BOOLEAN
    /\ Arranged(i) /\ NamesRight(i)
    /\ i.predicates => RefsIn(i)
    /\ i.predicates /\ ~i.computeCores => Plain(bl, i)
    /\ i.computeCores => Answers(g, i)

\* An index whose blocks are those built, of which they read at most as much.
SameBlocks(bl, i) ==
    /\ i.layers = Named(bl) /\ DOMAIN i.heap = Objects(bl)
    /\ \A o \in Objects(bl) :
           /\ SameAs(BlockAt(bl, o), i.heap[o])
           /\ HeapReads(i.heap[o]) \subseteq Reads(BlockAt(bl, o))

\* Places are pairs of numbers, and the rows of Named in order.
LEMMA PlacesNamed ==
    ASSUME NEW bl, Layered(bl)
    PROVE  /\ \A o \in Objects(bl) : o = <<o[1], o[2]>> /\ o[1] \in 1..K /\ o[2] \in DOMAIN bl[o[1]] /\ o # None
           /\ \A o \in Objects(bl) : o[2] \in Nat
           /\ \A l \in 1..K : \A n \in DOMAIN bl[l] : <<l, n>> \in Objects(bl)
           /\ DOMAIN Named(bl) = 1..K
           /\ \A l \in 1..K : Named(bl)[l] = [n \in DOMAIN bl[l] |-> <<l, n>>]
           /\ Objects(Named(bl)) = Objects(bl)
<1>1. DOMAIN bl = 1..K /\ \A l \in 1..K : \A n \in DOMAIN bl[l] : n \in Nat
  BY DEF Layered
<1>2. K \in Nat \ {0}
  BY DiameterAssumption
<1>3. ASSUME NEW o \in Objects(bl)
      PROVE  o = <<o[1], o[2]>> /\ o[1] \in 1..K /\ o[2] \in DOMAIN bl[o[1]] /\ o # None /\ o[2] \in Nat
  <2>1. PICK l \in 1..K : \E n \in DOMAIN bl[l] : o = <<l, n>>
    BY <1>1 DEF Objects
  <2>2. PICK n \in DOMAIN bl[l] : o = <<l, n>>
    BY <2>1
  <2>3. n \in Nat /\ l \in Nat
    BY <1>1, <1>2, <2>1, <2>2
  <2>4. o # None
    BY <2>2, <2>3, NoneAssumption
  <2> QED
    BY <2>1, <2>2, <2>3, <2>4
<1>4. \A l \in 1..K : \A n \in DOMAIN bl[l] : <<l, n>> \in Objects(bl)
  BY <1>1, ObjectsAre
<1>5. DOMAIN Named(bl) = 1..K /\ \A l \in 1..K : Named(bl)[l] = [n \in DOMAIN bl[l] |-> <<l, n>>]
  BY <1>1 DEF Named
<1>6. ASSUME NEW o PROVE o \in Objects(Named(bl)) <=> o \in Objects(bl)
  <2>1. PICK f : f = Named(bl)
    OBVIOUS
  <2>2. DOMAIN f = 1..K /\ \A l \in 1..K : DOMAIN f[l] = DOMAIN bl[l]
    BY <1>5, <2>1
  <2>3. o \in Objects(f) <=> o \in Objects(bl)
    BY <1>1, <2>2 DEF Objects
  <2> QED
    BY <2>1, <2>3
<1>7. Objects(Named(bl)) = Objects(bl)
  BY <1>6
<1> QED
  BY <1>3, <1>4, <1>5, <1>7

\* What holds of an index that has the blocks built.
LEMMA SameIsRight ==
    ASSUME NEW bl, NEW g, BuiltRight(bl, g), NEW i, SameBlocks(bl, i)
    PROVE  Arranged(i) /\ NamesRight(i) /\ RefsIn(i)
<1>1. Layered(bl) /\ LastFits(bl, g) /\ K \in Nat \ {0}
  BY DiameterAssumption DEF BuiltRight
<1>2. i.layers = Named(bl) /\ DOMAIN i.heap = Objects(bl)
  BY DEF SameBlocks
<1>3. ASSUME NEW o \in Objects(bl)
      PROVE  /\ Sound(bl, o, BlockAt(bl, o)) /\ IdsLead(bl, o, BlockAt(bl, o))
             /\ SameAs(BlockAt(bl, o), i.heap[o])
             /\ HeapReads(i.heap[o]) \subseteq Reads(BlockAt(bl, o))
  BY DEF BuiltRight, SameBlocks
<1>4. ASSUME NEW l \in 1..K PROVE \E m \in Nat : InPlace(l, m, i.layers[l])
  <2>1. PICK m \in Nat \ {0} : DOMAIN bl[l] = 1..m
    BY <1>1 DEF Layered
  <2>2. i.layers[l] = [n \in 1..m |-> <<l, n>>]
    <3>1. Named(bl)[l] = [n \in DOMAIN bl[l] |-> <<l, n>>]
      BY <1>1, PlacesNamed
    <3> QED
      BY <1>2, <2>1, <3>1
  <2>3. PICK row : row = i.layers[l]
    OBVIOUS
  <2>4. DOMAIN row = 1..m /\ \A n \in 1..m : row[n] = <<l, n>>
    BY <2>2, <2>3
  <2>5. InPlace(l, m, row)
    BY <2>4 DEF InPlace
  <2> QED
    BY <2>3, <2>5
<1>5. Arranged(i)
  <2>1. DOMAIN i.layers = 1..K /\ Objects(i.layers) = Objects(bl)
    BY <1>1, <1>2, PlacesNamed
  <2> QED
    BY <1>2, <1>4, <2>1 DEF Arranged
<1>6. \A o \in LastOnes(i) : \E n \in DOMAIN bl[K] : o = <<K, n>> /\ i.heap[o].id = bl[K][n].id /\ i.heap[o].paths = bl[K][n].paths
  <2> TAKE o \in LastOnes(i)
  <2>1. o \in Objects(bl) /\ o[1] = K
    BY <1>2 DEF LastOnes
  <2>2. o = <<K, o[2]>> /\ o[2] \in DOMAIN bl[K]
    BY <1>1, <2>1, PlacesNamed
  <2>3. SameAs(BlockAt(bl, o), i.heap[o])
    BY <1>3, <2>1
  <2> QED
    BY <2>1, <2>2, <2>3 DEF SameAs, BlockAt
<1>7. \A n \in DOMAIN bl[K] : <<K, n>> \in LastOnes(i) /\ i.heap[<<K, n>>].id = bl[K][n].id
  <2> TAKE n \in DOMAIN bl[K]
  <2>1. PICK o : o = <<K, n>>
    OBVIOUS
  <2>2. o \in Objects(bl) /\ o[1] = K
    <3>1. K \in 1..K
      BY <1>1
    <3> QED
      BY <1>1, <2>1, <3>1, PlacesNamed
  <2>3. SameAs(BlockAt(bl, o), i.heap[o])
    BY <1>3, <2>2
  <2>4. BlockAt(bl, o) = bl[K][n]
    BY <2>1 DEF BlockAt
  <2> QED
    BY <1>2, <2>1, <2>2, <2>3, <2>4 DEF SameAs, LastOnes
<1>8. NamesRight(i)
  <2>1. ASSUME NEW o \in DOMAIN i.heap
        PROVE  /\ i.heap[o].id \in Nat /\ i.heap[o].paths # {} /\ i.heap[o].paths \subseteq Pairs
               /\ \E b \in LastOnes(i) : i.heap[o].id <= i.heap[b].id
    <3>1. Sound(bl, o, BlockAt(bl, o)) /\ IdsLead(bl, o, BlockAt(bl, o)) /\ SameAs(BlockAt(bl, o), i.heap[o])
      BY <1>2, <1>3
    <3>2. PICK n \in DOMAIN bl[K] : BlockAt(bl, o).id <= bl[K][n].id
      BY <3>1 DEF IdsLead
    <3> QED
      BY <1>7, <3>1, <3>2 DEF Sound, SameAs
  <2>2. ASSUME NEW a \in LastOnes(i), NEW b \in LastOnes(i)
        PROVE  /\ i.heap[a].id = i.heap[b].id => a = b
               /\ a # b => i.heap[a].paths \cap i.heap[b].paths = {}
    <3>1. PICK m \in DOMAIN bl[K] : a = <<K, m>> /\ i.heap[a].id = bl[K][m].id /\ i.heap[a].paths = bl[K][m].paths
      BY <1>6
    <3>2. PICK n \in DOMAIN bl[K] : b = <<K, n>> /\ i.heap[b].id = bl[K][n].id /\ i.heap[b].paths = bl[K][n].paths
      BY <1>6
    <3> QED
      BY <1>1, <3>1, <3>2 DEF LastFits
  <2>3. LastOnes(i) # {}
    <3>1. PICK m \in Nat \ {0} : DOMAIN bl[K] = 1..m
      BY <1>1 DEF Layered
    <3>2. 1 \in DOMAIN bl[K]
      BY <3>1
    <3> QED
      BY <1>7, <3>2
  <2> QED
    BY <2>1, <2>2, <2>3 DEF NamesRight
<1>9. RefsIn(i)
  <2> SUFFICES ASSUME NEW o \in DOMAIN i.heap, NEW r \in HeapReads(i.heap[o])
               PROVE  /\ r \in DOMAIN i.heap
                      /\ \E a \in DOMAIN i.heap : a[1] < o[1] /\ i.heap[a].id = i.heap[r].id
    BY DEF RefsIn
  <2>1. Sound(bl, o, BlockAt(bl, o)) /\ r \in Reads(BlockAt(bl, o))
    BY <1>2, <1>3
  <2> QED
    BY <1>2, <2>1 DEF Sound
<1> QED
  BY <1>5, <1>8, <1>9

-----------------------------------------------------------------------------
(* Sorting.                                                                *)

\* What Sort does, without its local definitions.
FirstPath(i, b) == CHOOSE p \in i.heap[b].paths : \A q \in i.heap[b].paths : ~SeqLess(q, p)
SortedBlocks(i) ==
    [k \in 1..Cardinality(LastBlocks(i)) |->
        CHOOSE x \in LastBlocks(i) :
            Cardinality({y \in LastBlocks(i) : SeqLess(FirstPath(i, y), FirstPath(i, x))}) = k - 1]
LEMMA SortIs == Sort => index' = [index EXCEPT !.layers[K] = SortedBlocks(index)]
BY DEF Sort, Sorted, SortedBlocks, FirstPath

\* The blocks of the last layer.
LEMMA LastBlocksAre ==
    ASSUME NEW i, Arranged(i), NEW m \in Nat, InPlace(K, m, i.layers[K])
    PROVE  /\ LastBlocks(i) = LastOnes(i)
           /\ \A h \in 1..m : <<K, h>> \in LastOnes(i)
           /\ \A o \in LastOnes(i) : \E h \in 1..m : o = <<K, h>>
           /\ IsFiniteSet(LastOnes(i)) /\ Cardinality(LastOnes(i)) = m
<1>1. K \in 1..K
  BY DiameterAssumption
<1>2. PICK row : row = i.layers[K]
  OBVIOUS
<1>3. /\ DOMAIN row = 1..m /\ \A n \in 1..m : \E h \in 1..m : row[n] = <<K, h>>
      /\ \A h \in 1..m : \E n \in 1..m : row[n] = <<K, h>>
  BY <1>2 DEF InPlace
<1>4. ASSUME NEW o \in LastOnes(i) PROVE \E h \in 1..m : o = <<K, h>>
  <2>1. o \in Objects(i.layers) /\ o[1] = K
    BY DEF LastOnes, Arranged
  <2>2. PICK l \in DOMAIN i.layers : \E n \in DOMAIN i.layers[l] : o = <<l, n>>
    BY <2>1 DEF Objects
  <2>3. PICK n \in DOMAIN i.layers[l] : o = <<l, n>>
    BY <2>2
  <2>4. l = K
    BY <2>1, <2>3
  <2> QED
    BY <1>2, <1>3, <2>3, <2>4
<1>5. ASSUME NEW h \in 1..m PROVE <<K, h>> \in LastOnes(i)
  <2>1. <<K, h>> \in Objects(i.layers)
    BY <1>1, <1>2, <1>3 DEF Arranged, Objects
  <2>2. PICK o : o = <<K, h>>
    OBVIOUS
  <2>3. o \in DOMAIN i.heap /\ o[1] = K
    BY <2>1, <2>2 DEF Arranged
  <2> QED
    BY <2>2, <2>3 DEF LastOnes
<1>6. LastBlocks(i) = LastOnes(i)
  <2>1. LastBlocks(i) = {row[n] : n \in 1..m}
    BY <1>2, <1>3 DEF LastBlocks
  <2>2. ASSUME NEW o \in {row[n] : n \in 1..m} PROVE o \in LastOnes(i)
    <3>1. PICK n \in 1..m : o = row[n]
      OBVIOUS
    <3>2. PICK h \in 1..m : o = <<K, h>>
      BY <1>3, <3>1
    <3> QED
      BY <1>5, <3>2
  <2>3. ASSUME NEW o \in LastOnes(i) PROVE o \in {row[n] : n \in 1..m}
    <3>1. PICK h \in 1..m : o = <<K, h>>
      BY <1>4
    <3>2. PICK n \in 1..m : row[n] = <<K, h>>
      BY <1>3
    <3> QED
      BY <3>1, <3>2
  <2> QED
    BY <2>1, <2>2, <2>3
<1>7. IsFiniteSet(LastOnes(i)) /\ Cardinality(LastOnes(i)) = m
  <2> DEFINE f == [h \in 1..m |-> <<K, h>>]
  <2>1. IsFiniteSet(1..m) /\ Cardinality(1..m) = m
    BY FS_Interval
  <2>2. \A x, y \in 1..m : f[x] = f[y] => x = y
    OBVIOUS
  <2>3. \A h \in 1..m : f[h] = <<K, h>>
    OBVIOUS
  <2> HIDE DEF f
  <2>4. f \in Bijection(1..m, LastOnes(i))
    <3>1. f \in [1..m -> LastOnes(i)]
      BY <1>5 DEF f
    <3>2. \A o \in LastOnes(i) : \E h \in 1..m : f[h] = o
      <4> TAKE o \in LastOnes(i)
      <4>1. PICK h \in 1..m : o = <<K, h>>
        BY <1>4
      <4> QED
        BY <2>3, <4>1
    <3>3. f \in Injection(1..m, LastOnes(i))
      BY <2>2, <3>1 DEF Injection, IsInjective
    <3>4. f \in Surjection(1..m, LastOnes(i))
      BY <3>1, <3>2 DEF Surjection
    <3> QED
      BY <3>3, <3>4 DEF Bijection
  <2>5. ExistsBijection(1..m, LastOnes(i))
    BY <2>4 DEF ExistsBijection
  <2> QED
    BY <2>1, <2>5, FS_Bijection
<1> QED
  BY <1>4, <1>5, <1>6, <1>7

\* An index of another order is right as long as all of its blocks are in their layers.
LEMMA RightKept ==
    ASSUME NEW bl, NEW g, NEW i, IndexRight(bl, g, i), i.computeCores, NEW layers,
           NEW j, j = [i EXCEPT !.layers = layers], Arranged(j)
    PROVE  IndexRight(bl, g, j)
<1>1. /\ IsIndex(j) /\ j.heap = i.heap /\ j.predicates = i.predicates
      /\ j.computeCores = i.computeCores /\ j.coreToBlock = i.coreToBlock
  BY DEF IndexRight, IsIndex
<1>2. LastOnes(j) = LastOnes(i)
  BY <1>1 DEF LastOnes
<1>3. NamesRight(i) => NamesRight(j)
  BY <1>1, <1>2 DEF NamesRight
<1>4. RefsIn(i) => RefsIn(j)
  BY <1>1 DEF RefsIn
<1>5. Answers(g, i) => Answers(g, j)
  BY <1>1, <1>2 DEF Answers
<1> QED
  BY <1>1, <1>3, <1>4, <1>5 DEF IndexRight

\* Sorting orders the blocks of the last layer by their first pairs.
LEMMA SortRight ==
    ASSUME NEW bl, NEW g, NEW i, IndexRight(bl, g, i), i.computeCores,
           NEW j, j = [i EXCEPT !.layers[K] = SortedBlocks(i)]
    PROVE  IndexRight(bl, g, j)
<1>1. Arranged(i) /\ NamesRight(i) /\ IsIndex(i) /\ K \in 1..K
  BY DiameterAssumption DEF IndexRight
<1>2. PICK m \in Nat : InPlace(K, m, i.layers[K])
  BY <1>1 DEF Arranged
<1>3. /\ LastBlocks(i) = LastOnes(i)
      /\ \A h \in 1..m : <<K, h>> \in LastOnes(i)
      /\ \A o \in LastOnes(i) : \E h \in 1..m : o = <<K, h>>
      /\ IsFiniteSet(LastOnes(i)) /\ Cardinality(LastOnes(i)) = m
  BY <1>1, <1>2, LastBlocksAre
<1> DEFINE S == LastOnes(i)
           f == [b \in S |-> FirstPath(i, b)]
           R == {e \in S \X S : <<f[e[1]], f[e[2]]>> \in SeqOrder}
<1>4. ASSUME NEW b \in S
      PROVE  FirstPath(i, b) \in i.heap[b].paths /\ FirstPath(i, b) \in Seq(Int)
  <2>1. PICK T : T = i.heap[b].paths
    OBVIOUS
  <2>2. T \in SUBSET Pairs /\ T # {}
    BY <1>1, <2>1 DEF NamesRight, LastOnes
  <2>3. IsFiniteSet(T)
    BY <2>2, PairsFinite, FS_Subset
  <2>4. Pairs \in SUBSET Seq(Int)
    <3> SUFFICES ASSUME NEW p \in Pairs PROVE p \in Seq(Int)
      OBVIOUS
    <3>1. PICK u \in Vertex, v \in Vertex : p = <<u, v>>
      BY DEF Pairs
    <3>2. u \in Int /\ v \in Int
      BY GraphAssumption
    <3>3. <<u, v>> \in Seq(Int)
      BY <3>2
    <3> QED
      BY <3>1, <3>3
  <2>5. \E x \in T : \A y \in T : <<y, x>> \notin SeqOrder
    <3>1. T \in SUBSET Seq(Int)
      BY <2>2, <2>4
    <3> QED
      BY <2>2, <2>3, <3>1, SeqLinear, FirstElement
  <2>6. \E x \in T : \A y \in T : ~SeqLess(y, x)
    BY <2>2, <2>4, <2>5 DEF SeqOrder
  <2>7. FirstPath(i, b) = CHOOSE x \in T : \A y \in T : ~SeqLess(y, x)
    BY <2>1 DEF FirstPath
  <2>8. FirstPath(i, b) \in T
    BY <2>6, <2>7
  <2> QED
    BY <2>1, <2>2, <2>4, <2>8
<1>5. f \in [S -> Seq(Int)]
  BY <1>4
<1>6. ASSUME NEW x \in S, NEW y \in S, f[x] = f[y] PROVE x = y
  <2>1. FirstPath(i, x) \in i.heap[x].paths /\ FirstPath(i, x) \in i.heap[y].paths
    BY <1>4, <1>6
  <2> QED
    BY <1>1, <2>1 DEF NamesRight
<1>7. \A x \in S : f[x] = FirstPath(i, x)
  OBVIOUS
<1> HIDE DEF f
<1>8. Linear(S, R)
  BY <1>5, <1>6, SeqLinear, PullBack
<1>9. \A x, y \in S : <<y, x>> \in R <=> SeqLess(FirstPath(i, y), FirstPath(i, x))
  BY <1>4, <1>7 DEF SeqOrder
<1> HIDE DEF R
<1> DEFINE row == InOrder(S, R)
<1>10. /\ row \in [1..m -> S]
       /\ \A x \in S : \E k \in 1..m : row[k] = x
       /\ \A k, n \in 1..m : row[k] = row[n] => k = n
  <2>1. IsFiniteSet(S) /\ Cardinality(S) = m
    BY <1>3
  <2> HIDE DEF S
  <2> QED
    BY <1>8, <2>1, InOrderIs
<1>11. SortedBlocks(i) = row
  <2>1. \A x \in S : {y \in S : SeqLess(FirstPath(i, y), FirstPath(i, x))} = {y \in S : <<y, x>> \in R}
    BY <1>9
  <2> DEFINE A(x) == {y \in S : SeqLess(FirstPath(i, y), FirstPath(i, x))}
             Nth(x) == {y \in S : <<y, x>> \in R}
             At(k) == CHOOSE x \in S : Cardinality(A(x)) = k - 1
             Dt(k) == CHOOSE x \in S : Cardinality(Nth(x)) = k - 1
  <2>2. SortedBlocks(i) = [k \in 1..m |-> At(k)]
    BY <1>3 DEF SortedBlocks
  <2>3. row = [k \in 1..m |-> Dt(k)]
    BY <1>3 DEF InOrder
  <2>4. \A x \in S : A(x) = Nth(x)
    BY <2>1
  <2> HIDE DEF A, Nth
  <2>5. \A k \in 1..m : At(k) = Dt(k)
    BY <2>4
  <2> HIDE DEF At, Dt
  <2> QED
    BY <2>2, <2>3, <2>5
<1> HIDE DEF row
<1>12. InPlace(K, m, row)
  <2>1. DOMAIN row = 1..m
    BY <1>10
  <2>2. \A n \in 1..m : \E h \in 1..m : row[n] = <<K, h>>
    BY <1>3, <1>10
  <2>3. \A h \in 1..m : \E n \in 1..m : row[n] = <<K, h>>
    BY <1>3, <1>10
  <2> QED
    BY <1>10, <2>1, <2>2, <2>3 DEF InPlace
<1> DEFINE layers == [i.layers EXCEPT ![K] = row]
<1>13. j = [i EXCEPT !.layers = layers] /\ j.layers = layers /\ j.heap = i.heap
  BY <1>1, <1>11 DEF IsIndex
<1>14. DOMAIN layers = 1..K /\ layers[K] = row /\ \A l \in 1..K : l # K => layers[l] = i.layers[l]
  BY <1>1 DEF Arranged
<1> HIDE DEF layers
<1>15. Objects(layers) = Objects(i.layers)
  <2>1. \A l \in 1..K : DOMAIN layers[l] = DOMAIN i.layers[l]
    BY <1>2, <1>12, <1>14 DEF InPlace
  <2> QED
    BY <1>1, <1>14, <2>1 DEF Objects, Arranged
<1>16. Arranged(j)
  BY <1>1, <1>12, <1>13, <1>14, <1>15 DEF Arranged
<1> QED
  BY <1>13, <1>16, RightKept

-----------------------------------------------------------------------------
(* Saving and reading back.                                                *)

\* What Write does to an index.
RefId(i, b) == IF b = None THEN -1 ELSE i.heap[b].id
SavedBlock(i, b, full) ==
    IF full
    THEN [id |-> b.id, paths |-> b.paths, k |-> b.k, labels |-> OrEmpty(b.labels),
          ancestor |-> RefId(i, b.ancestor),
          combinations |-> {<<RefId(i, c[1]), RefId(i, c[2])>> : c \in OrEmpty(b.combinations)},
          canonCores |-> OrEmpty(b.canonCores)]
    ELSE [id |-> b.id, paths |-> b.paths]
From(i, x) == i.layers[x[1]][x[2]]
SavedLayer(i, l, full) ==
    IF full \/ l = K
    THEN [n \in DOMAIN i.layers[l] |-> SavedBlock(i, i.heap[i.layers[l][n]], full)] ELSE <<>>
SavedIndex(i, full) ==
    [full |-> full, computeCores |-> i.computeCores,
     size |-> Max({i.heap[b].id : b \in LastBlocks(i)}) + 1,
     layers |-> [l \in 1..K |-> SavedLayer(i, l, full)],
     coreToBlock |-> [core \in DOMAIN i.coreToBlock |-> {i.heap[b].id : b \in i.coreToBlock[core]}]]
LEMMA WriteIs ==
    ASSUME NEW full, Write(full)
    PROVE  file' = SavedIndex(index, full) /\ phase = "ready" /\ (full => index.predicates)
BY DEF Write, SavedIndex, SavedLayer, SavedBlock, RefId, Written, WriteBlock, IdOf, MapSize

\* What Read makes of a file f: an id leads to the last block that has it.
Latest(S) == IF S = {} THEN None ELSE CHOOSE b \in S : \A a \in S : ~Before(b, a)
Found(f, id, S) == {b \in S : f.layers[b[1]][b[2]].id = id}
Led(f, id, S) == Latest(Found(f, id, S))
LedBefore(f, id, x) == Led(f, id, {a \in Objects(f.layers) : Before(a, x)})
BlockRead(f, x, r) ==
    IF f.full
    THEN [id |-> r.id, paths |-> r.paths, k |-> r.k, labels |-> {r.labels},
          ancestor |-> IF r.ancestor = -1 THEN None ELSE LedBefore(f, r.ancestor, x),
          combinations |-> {{<<LedBefore(f, c[1], x), LedBefore(f, c[2], x)>> : c \in r.combinations}},
          canonCores |-> {r.canonCores}, cores |-> {{}}]
    ELSE [id |-> r.id, paths |-> r.paths, k |-> -1, labels |-> Null, ancestor |-> None,
          combinations |-> Null, canonCores |-> Null, cores |-> Null]
IndexRead(f) ==
    [predicates |-> f.full, computeCores |-> f.computeCores, layers |-> Named(f.layers),
     heap |-> [x \in Objects(f.layers) |-> BlockRead(f, x, f.layers[x[1]][x[2]])],
     coreToBlock |-> [core \in DOMAIN f.coreToBlock |->
         {Led(f, id, Objects(f.layers)) : id \in f.coreToBlock[core]}]]

\* Resolve looks for the last block of an id.
LEMMA ResolveIs ==
    ASSUME NEW id, NEW S
    PROVE  Resolve(id, S) = Led(file, id, S)
BY DEF Resolve, Led, Latest, Found

\* Read gives the index read from the file.
LEMMA ReadIs ==
    ASSUME Read
    PROVE  index' = IndexRead(file) /\ phase = "ready" /\ file.layers # <<>>
<1>1. ASSUME NEW x PROVE ReadBlock(x) = BlockRead(file, x, file.layers[x[1]][x[2]])
  <2>1. PICK S : S = {a \in Objects(file.layers) : Before(a, x)}
    OBVIOUS
  <2>2. \A id : Resolve(id, S) = LedBefore(file, id, x)
    BY <2>1, ResolveIs DEF LedBefore
  <2> QED
    BY <2>1, <2>2 DEF ReadBlock, BlockRead
<1>2. \A id : Resolve(id, Objects(file.layers)) = Led(file, id, Objects(file.layers))
  BY ResolveIs
<1> QED
  BY <1>1, <1>2 DEF Read, IndexRead

\* Rows of which each is finite.
Rows(bl) == DOMAIN bl = 1..K /\ \A l \in 1..K : \E m \in Nat : DOMAIN bl[l] = 1..m

\* The places in such rows.
LEMMA RowPlaces ==
    ASSUME NEW bl, Rows(bl), NEW o \in Objects(bl)
    PROVE  /\ o = <<o[1], o[2]>> /\ o[1] \in 1..K /\ o[2] \in DOMAIN bl[o[1]] /\ o[1] \in Nat /\ o[2] \in Nat
           /\ o # None
<1>1. DOMAIN bl = 1..K /\ \A l \in 1..K : \A n \in DOMAIN bl[l] : n \in Nat
  BY DEF Rows
<1>2. PICK l \in 1..K : \E n \in DOMAIN bl[l] : o = <<l, n>>
  BY <1>1 DEF Objects
<1>3. PICK n \in DOMAIN bl[l] : o = <<l, n>>
  BY <1>2
<1>4. n \in Nat /\ l \in Nat
  BY <1>1, DiameterAssumption
<1> QED
  BY <1>2, <1>3, <1>4, NoneAssumption

\* Of some places one is not before another.
LEMMA LatestIs ==
    ASSUME NEW bl, Rows(bl), NEW S \in SUBSET Objects(bl), S # {}
    PROVE  Latest(S) \in S /\ \A a \in S : ~Before(Latest(S), a)
<1>1. \A a \in S : a = <<a[1], a[2]>> /\ a[1] \in 1..K /\ a[2] \in DOMAIN bl[a[1]] /\ a[1] \in Nat /\ a[2] \in Nat
  BY RowPlaces
<1>2. K \in Nat
  BY DiameterAssumption
<1> DEFINE L == {a[1] : a \in S}
<1>3. L \in SUBSET Nat /\ L # {} /\ \A x \in L : x <= K
  BY <1>1
<1>4. PICK l \in L : \A x \in L : x <= l
  BY <1>2, <1>3, GreatestNat
<1>5. PICK m \in Nat : DOMAIN bl[l] = 1..m
  BY <1>1, <1>4 DEF Rows
<1> DEFINE N == {a[2] : a \in {a \in S : a[1] = l}}
<1>6. N \in SUBSET Nat /\ N # {} /\ \A x \in N : x <= m
  <2>1. PICK a \in S : a[1] = l
    BY <1>4
  <2>2. a[2] \in N
    BY <2>1
  <2>3. ASSUME NEW x \in N PROVE x \in Nat /\ x <= m
    <3>1. PICK d \in S : d[1] = l /\ x = d[2]
      OBVIOUS
    <3>2. x \in 1..m
      BY <1>1, <1>5, <3>1
    <3> QED
      BY <1>5, <3>2
  <2> QED
    BY <2>2, <2>3
<1>7. PICK n \in N : \A x \in N : x <= n
  BY <1>5, <1>6, GreatestNat
<1>8. PICK b \in S : b[1] = l /\ b[2] = n
  BY <1>7
<1>9. ASSUME NEW a \in S PROVE ~Before(b, a)
  <2>1. a[1] \in L /\ a[1] <= l
    BY <1>4
  <2>2. a[1] = l => a[2] <= n
    BY <1>7
  <2> QED
    BY <1>1, <1>8, <2>1, <2>2 DEF Before
<1>10. \E c \in S : \A a \in S : ~Before(c, a)
  BY <1>9
<1> QED
  BY <1>10 DEF Latest

\* The blocks of the file are some of those saved.
Records(i, full, f) ==
    /\ Rows(f.layers)
    /\ \A x \in Objects(f.layers) :
           /\ From(i, x) \in DOMAIN i.heap /\ From(i, x)[1] = x[1]
           /\ f.layers[x[1]][x[2]] = SavedBlock(i, i.heap[From(i, x)], full)
           /\ f.layers[x[1]][x[2]].id = i.heap[From(i, x)].id
           /\ f.layers[x[1]][x[2]].paths = i.heap[From(i, x)].paths
    /\ \A x, y \in Objects(f.layers) : From(i, x) = From(i, y) => x = y
    /\ \A o \in DOMAIN i.heap : full \/ o[1] = K => \E x \in Objects(f.layers) : From(i, x) = o

\* Saving an index makes such records.
LEMMA FileRecords ==
    ASSUME NEW i, Arranged(i), NEW full \in BOOLEAN, NEW f, f = SavedIndex(i, full)
    PROVE  Records(i, full, f)
<1>1. f.layers = [l \in 1..K |-> SavedLayer(i, l, full)]
  BY DEF SavedIndex
<1>2. \A l \in 1..K : \E m \in Nat : InPlace(l, m, i.layers[l])
  BY DEF Arranged
<1>3. ASSUME NEW l \in 1..K
      PROVE  /\ DOMAIN f.layers[l] = IF full \/ l = K THEN DOMAIN i.layers[l] ELSE {}
             /\ \A n \in DOMAIN f.layers[l] : f.layers[l][n] = SavedBlock(i, i.heap[i.layers[l][n]], full)
  BY <1>1 DEF SavedLayer
<1>4. Rows(f.layers)
  <2>1. DOMAIN f.layers = 1..K
    BY <1>1
  <2>2. ASSUME NEW l \in 1..K PROVE \E m \in Nat : DOMAIN f.layers[l] = 1..m
    <3>1. PICK m \in Nat : InPlace(l, m, i.layers[l])
      BY <1>2
    <3>2. DOMAIN i.layers[l] = 1..m
      BY <3>1 DEF InPlace
    <3>3. CASE full \/ l = K
      BY <1>3, <3>2, <3>3
    <3>4. CASE ~(full \/ l = K)
      <4>1. DOMAIN f.layers[l] = 1..0
        BY <1>3, <3>4
      <4> QED
        BY <4>1
    <3> QED
      BY <3>3, <3>4
  <2> QED
    BY <2>1, <2>2 DEF Rows
<1>5. ASSUME NEW x \in Objects(f.layers)
      PROVE  /\ x[1] \in 1..K /\ x[2] \in DOMAIN f.layers[x[1]] /\ x[2] \in DOMAIN i.layers[x[1]] /\ x = <<x[1], x[2]>>
  BY <1>3, <1>4, RowPlaces
<1>6. ASSUME NEW x \in Objects(f.layers)
      PROVE  /\ From(i, x) \in DOMAIN i.heap /\ From(i, x)[1] = x[1]
             /\ f.layers[x[1]][x[2]] = SavedBlock(i, i.heap[From(i, x)], full)
  <2>1. PICK l \in 1..K : l = x[1]
    BY <1>5
  <2>2. PICK n \in DOMAIN i.layers[l] : n = x[2] /\ n \in DOMAIN f.layers[l]
    BY <1>5, <2>1
  <2>3. PICK m \in Nat : InPlace(l, m, i.layers[l])
    BY <1>2
  <2>4. PICK h \in DOMAIN i.layers[l] : i.layers[l][n] = <<l, h>>
    <3>1. PICK row : row = i.layers[l]
      OBVIOUS
    <3>2. DOMAIN row = 1..m /\ \A a \in 1..m : \E h \in 1..m : row[a] = <<l, h>>
      BY <2>3, <3>1 DEF InPlace
    <3>3. n \in 1..m
      BY <2>2, <3>1, <3>2
    <3>4. \E h \in 1..m : row[n] = <<l, h>>
      BY <3>2, <3>3
    <3> QED
      BY <3>1, <3>2, <3>4
  <2>5. <<l, h>> \in DOMAIN i.heap
    BY <2>4 DEF Arranged, Objects
  <2>6. From(i, x) = <<l, h>>
    BY <2>1, <2>2, <2>4 DEF From
  <2>7. f.layers[l][n] = SavedBlock(i, i.heap[i.layers[l][n]], full)
    BY <1>3, <2>2
  <2> QED
    BY <2>1, <2>2, <2>4, <2>5, <2>6, <2>7
<1>7. \A b : SavedBlock(i, b, full).id = b.id /\ SavedBlock(i, b, full).paths = b.paths
  BY DEF SavedBlock
<1>8. ASSUME NEW x \in Objects(f.layers), NEW y \in Objects(f.layers), From(i, x) = From(i, y) PROVE x = y
  <2>1. x[1] = y[1]
    BY <1>6, <1>8
  <2>2. PICK l \in 1..K : l = x[1] /\ l = y[1]
    BY <1>5, <2>1
  <2>3. PICK m \in Nat : InPlace(l, m, i.layers[l])
    BY <1>2
  <2>4. x[2] \in DOMAIN i.layers[l] /\ y[2] \in DOMAIN i.layers[l] /\ i.layers[l][x[2]] = i.layers[l][y[2]]
    BY <1>5, <1>8, <2>2 DEF From
  <2>5. x[2] = y[2]
    BY <2>3, <2>4 DEF InPlace
  <2> QED
    BY <1>5, <2>1, <2>5
<1>9. ASSUME NEW o \in DOMAIN i.heap, full \/ o[1] = K PROVE \E x \in Objects(f.layers) : From(i, x) = o
  <2>1. PICK l \in 1..K : \E n \in DOMAIN i.layers[l] : o = <<l, n>>
    BY DEF Arranged, Objects
  <2>2. PICK n \in DOMAIN i.layers[l] : o = <<l, n>>
    BY <2>1
  <2>3. PICK m \in Nat : InPlace(l, m, i.layers[l])
    BY <1>2
  <2>4. PICK h \in DOMAIN i.layers[l] : i.layers[l][h] = o
    BY <2>2, <2>3 DEF InPlace
  <2>5. h \in DOMAIN f.layers[l]
    BY <1>3, <1>9, <2>2, <2>4
  <2>6. PICK x : x = <<l, h>>
    OBVIOUS
  <2>7. x \in Objects(f.layers)
    BY <1>4, <2>5, <2>6 DEF Rows, Objects
  <2>8. From(i, x) = o
    BY <2>4, <2>6 DEF From
  <2> QED
    BY <2>7, <2>8
<1> QED
  BY <1>4, <1>6, <1>7, <1>8, <1>9 DEF Records

-----------------------------------------------------------------------------
(* An index read back from what was saved of index i.                      *)

\* The fields of the index read.
LEMMA ReadFields ==
    ASSUME NEW f, NEW j, j = IndexRead(f)
    PROVE  /\ IsIndex(j) /\ j.predicates = f.full /\ j.computeCores = f.computeCores
           /\ j.layers = Named(f.layers) /\ DOMAIN j.heap = Objects(f.layers)
           /\ DOMAIN j.coreToBlock = DOMAIN f.coreToBlock
BY DEF IndexRead, IsIndex

\* Its blocks.
LEMMA ReadHeap ==
    ASSUME NEW f, NEW j, j = IndexRead(f), NEW x \in Objects(f.layers)
    PROVE  /\ j.heap[x] = BlockRead(f, x, f.layers[x[1]][x[2]])
           /\ j.heap[x].id = f.layers[x[1]][x[2]].id
           /\ j.heap[x].paths = f.layers[x[1]][x[2]].paths
<1>1. j.heap[x] = BlockRead(f, x, f.layers[x[1]][x[2]])
  BY DEF IndexRead
<1>2. \A r : BlockRead(f, x, r).id = r.id /\ BlockRead(f, x, r).paths = r.paths
  BY DEF BlockRead
<1> QED
  BY <1>1, <1>2

\* What its cores lead to.
LEMMA ReadCores ==
    ASSUME NEW f, NEW j, j = IndexRead(f), NEW q \in DOMAIN f.coreToBlock
    PROVE  j.coreToBlock[q] = {Led(f, id, Objects(f.layers)) : id \in f.coreToBlock[q]}
BY DEF IndexRead

\* Its blocks are in the order of the file.
LEMMA ReadArranged ==
    ASSUME NEW f, Rows(f.layers), NEW j, j = IndexRead(f)
    PROVE  Arranged(j)
<1>1. j.layers = Named(f.layers) /\ DOMAIN j.heap = Objects(f.layers)
  BY ReadFields
<1>2. PICK bl : bl = f.layers
  OBVIOUS
<1>3. DOMAIN bl = 1..K /\ \A l \in 1..K : \E m \in Nat : DOMAIN bl[l] = 1..m
  BY <1>2 DEF Rows
<1>4. PICK rows : rows = Named(bl)
  OBVIOUS
<1>5. DOMAIN rows = 1..K /\ \A l \in 1..K : rows[l] = [n \in DOMAIN bl[l] |-> <<l, n>>]
  BY <1>3, <1>4 DEF Named
<1>6. Objects(rows) = Objects(bl)
  <2>1. \A l \in 1..K : DOMAIN rows[l] = DOMAIN bl[l]
    BY <1>5
  <2> QED
    BY <1>3, <1>5, <2>1 DEF Objects
<1>7. ASSUME NEW l \in 1..K PROVE \E m \in Nat : InPlace(l, m, rows[l])
  <2>1. PICK m \in Nat : DOMAIN bl[l] = 1..m
    BY <1>3
  <2>2. PICK row : row = rows[l]
    OBVIOUS
  <2>3. DOMAIN row = 1..m /\ \A n \in 1..m : row[n] = <<l, n>>
    BY <1>5, <2>1, <2>2
  <2>4. InPlace(l, m, row)
    BY <2>3 DEF InPlace
  <2> QED
    BY <2>2, <2>4
<1>8. j.layers = rows /\ DOMAIN j.heap = Objects(rows)
  BY <1>1, <1>2, <1>4, <1>6
<1> QED
  BY <1>5, <1>7, <1>8 DEF Arranged

\* j has some blocks of i, all of them or those of the last layer.
Copied(i, j) ==
    /\ \A x \in DOMAIN j.heap :
           /\ From(i, x) \in DOMAIN i.heap /\ From(i, x)[1] = x[1]
           /\ j.heap[x].id = i.heap[From(i, x)].id
           /\ j.heap[x].paths = i.heap[From(i, x)].paths
    /\ \A x, y \in DOMAIN j.heap : From(i, x) = From(i, y) => x = y
    /\ \A o \in LastOnes(i) : \E x \in LastOnes(j) : From(i, x) = o

\* Reading them makes such copies.
LEMMA ReadCopied ==
    ASSUME NEW i, NEW full, NEW f, Records(i, full, f), NEW j, j = IndexRead(f)
    PROVE  Copied(i, j)
<1>0. DOMAIN j.heap = Objects(f.layers)
  BY ReadFields
<1>1. ASSUME NEW x \in Objects(f.layers)
      PROVE  /\ j.heap[x].id = f.layers[x[1]][x[2]].id
             /\ j.heap[x].paths = f.layers[x[1]][x[2]].paths
  BY ReadHeap
<1>2. \A x \in DOMAIN j.heap :
          /\ From(i, x) \in DOMAIN i.heap /\ From(i, x)[1] = x[1]
          /\ j.heap[x].id = i.heap[From(i, x)].id
          /\ j.heap[x].paths = i.heap[From(i, x)].paths
  BY <1>0, <1>1 DEF Records
<1>3. \A x, y \in DOMAIN j.heap : From(i, x) = From(i, y) => x = y
  BY <1>0, <1>1 DEF Records
<1>4. ASSUME NEW o \in LastOnes(i) PROVE \E x \in LastOnes(j) : From(i, x) = o
  <2>1. o \in DOMAIN i.heap /\ o[1] = K
    BY DEF LastOnes
  <2>2. PICK x \in DOMAIN j.heap : From(i, x) = o
    BY <1>0, <2>1 DEF Records
  <2>3. x[1] = K
    BY <1>2, <2>1, <2>2
  <2> QED
    BY <2>2, <2>3 DEF LastOnes
<1> QED
  BY <1>2, <1>3, <1>4 DEF Copied

\* Its blocks of the last layer are as good as those of i.
LEMMA CopiedNames ==
    ASSUME NEW i, NEW j, Copied(i, j), NamesRight(i)
    PROVE  NamesRight(j)
<1>1. ASSUME NEW x \in LastOnes(j) PROVE x \in DOMAIN j.heap /\ From(i, x) \in LastOnes(i)
  BY DEF Copied, LastOnes
<1>2. ASSUME NEW x \in DOMAIN j.heap
      PROVE  /\ j.heap[x].id \in Nat /\ j.heap[x].paths # {} /\ j.heap[x].paths \subseteq Pairs
             /\ \E b \in LastOnes(j) : j.heap[x].id <= j.heap[b].id
  <2>1. From(i, x) \in DOMAIN i.heap /\ j.heap[x].id = i.heap[From(i, x)].id
        /\ j.heap[x].paths = i.heap[From(i, x)].paths
    BY DEF Copied
  <2>2. PICK c \in LastOnes(i) : i.heap[From(i, x)].id <= i.heap[c].id
    BY <2>1 DEF NamesRight
  <2>3. PICK b \in LastOnes(j) : From(i, b) = c
    BY DEF Copied
  <2>4. j.heap[b].id = i.heap[c].id
    BY <1>1, <2>3 DEF Copied
  <2>5. i.heap[From(i, x)].id \in Nat /\ i.heap[From(i, x)].paths # {} /\ i.heap[From(i, x)].paths \subseteq Pairs
    BY <2>1 DEF NamesRight
  <2> QED
    BY <2>1, <2>2, <2>4, <2>5
<1>3. ASSUME NEW a \in LastOnes(j), NEW b \in LastOnes(j)
      PROVE  /\ j.heap[a].id = j.heap[b].id => a = b
             /\ a # b => j.heap[a].paths \cap j.heap[b].paths = {}
  <2>1. /\ From(i, a) \in LastOnes(i) /\ From(i, b) \in LastOnes(i) /\ a \in DOMAIN j.heap /\ b \in DOMAIN j.heap
    BY <1>1
  <2>2. /\ j.heap[a].id = i.heap[From(i, a)].id /\ j.heap[a].paths = i.heap[From(i, a)].paths
        /\ j.heap[b].id = i.heap[From(i, b)].id /\ j.heap[b].paths = i.heap[From(i, b)].paths
        /\ From(i, a) = From(i, b) => a = b
    BY <2>1 DEF Copied
  <2> QED
    BY <2>1, <2>2 DEF NamesRight
<1>4. LastOnes(j) # {}
  BY DEF NamesRight, Copied
<1> QED
  BY <1>2, <1>3, <1>4 DEF NamesRight

\* The id of a block of the last layer leads to that block.
LEMMA LastLed ==
    ASSUME NEW i, NEW full, NEW f, Records(i, full, f), NamesRight(i), NEW b \in LastOnes(i)
    PROVE  \E x \in Objects(f.layers) :
               From(i, x) = b /\ x[1] = K /\ Led(f, i.heap[b].id, Objects(f.layers)) = x
<1>1. b \in DOMAIN i.heap /\ b[1] = K
  BY DEF LastOnes
<1>2. PICK x \in Objects(f.layers) : From(i, x) = b
  BY <1>1 DEF Records
<1>3. \A y \in Objects(f.layers) : /\ From(i, y) \in DOMAIN i.heap /\ From(i, y)[1] = y[1]
                                   /\ f.layers[y[1]][y[2]].id = i.heap[From(i, y)].id
  BY DEF Records
<1>4. PICK S : S = Found(f, i.heap[b].id, Objects(f.layers))
  OBVIOUS
<1>5. x \in S /\ S \in SUBSET Objects(f.layers) /\ \A y \in S : f.layers[y[1]][y[2]].id = i.heap[b].id
  BY <1>2, <1>3, <1>4 DEF Found
<1>6. Rows(f.layers)
  BY DEF Records
<1>7. PICK z : z = Latest(S)
  OBVIOUS
<1>8. z \in S /\ ~Before(z, x)
  BY <1>5, <1>6, <1>7, LatestIs
<1>9. x[1] = K
  BY <1>1, <1>2, <1>3
<1>10. z \in Objects(f.layers) /\ z[1] \in 1..K
  BY <1>5, <1>6, <1>8, RowPlaces
<1>11. z[1] = K
  BY <1>8, <1>9, <1>10, DiameterAssumption DEF Before
<1>12. From(i, z) \in LastOnes(i) /\ i.heap[From(i, z)].id = i.heap[b].id
  BY <1>3, <1>5, <1>8, <1>10, <1>11 DEF LastOnes
<1>13. From(i, z) = b
  BY <1>12 DEF NamesRight
<1>14. z = x
  BY <1>2, <1>10, <1>13 DEF Records
<1> QED
  BY <1>2, <1>4, <1>7, <1>9, <1>14 DEF Led

\* What a word leads to was saved and read.
LEMMA ReadAnswers ==
    ASSUME NEW i, NEW full, NEW f, Records(i, full, f), f = SavedIndex(i, full), NamesRight(i),
           NEW g, Answers(g, i), NEW j, j = IndexRead(f)
    PROVE  Answers(g, j)
<1>1. f.coreToBlock = [q \in DOMAIN i.coreToBlock |-> {i.heap[b].id : b \in i.coreToBlock[q]}]
  BY DEF SavedIndex
<1>2. DOMAIN f.coreToBlock = DOMAIN i.coreToBlock /\ DOMAIN j.coreToBlock = DOMAIN i.coreToBlock
  BY <1>1, ReadFields
<1>3. DOMAIN j.heap = Objects(f.layers)
  BY ReadFields
<1>4. \A x \in DOMAIN j.heap : j.heap[x].paths = i.heap[From(i, x)].paths
  BY ReadCopied DEF Copied
<1>5. ASSUME NEW q \in DOMAIN j.coreToBlock
      PROVE  /\ j.coreToBlock[q] \subseteq LastOnes(j)
             /\ \A p \in Pairs : (\E b \in j.coreToBlock[q] : p \in j.heap[b].paths) <=> q \in Words(g, K, p)
  <2>1. PICK Bs : Bs = i.coreToBlock[q]
    OBVIOUS
  <2>2. Bs \subseteq LastOnes(i) /\ \A p \in Pairs : (\E b \in Bs : p \in i.heap[b].paths) <=> q \in Words(g, K, p)
    BY <1>2, <2>1 DEF Answers
  <2> DEFINE To(id) == Led(f, id, Objects(f.layers))
  <2>3. j.coreToBlock[q] = {To(i.heap[b].id) : b \in Bs}
    <3>1. f.coreToBlock[q] = {i.heap[b].id : b \in Bs}
      BY <1>1, <1>2, <2>1
    <3>2. j.coreToBlock[q] = {To(id) : id \in f.coreToBlock[q]}
      BY <1>2, ReadCores
    <3> HIDE DEF To
    <3> QED
      BY <3>1, <3>2
  <2>4. \A b \in Bs : From(i, To(i.heap[b].id)) = b /\ To(i.heap[b].id) \in DOMAIN j.heap /\ To(i.heap[b].id)[1] = K
    BY <1>3, <2>2, LastLed
  <2> HIDE DEF To
  <2>5. \A b \in Bs : To(i.heap[b].id) \in LastOnes(j) /\ j.heap[To(i.heap[b].id)].paths = i.heap[b].paths
    BY <1>4, <2>4 DEF LastOnes
  <2>6. j.coreToBlock[q] \subseteq LastOnes(j)
    BY <2>3, <2>5
  <2>7. ASSUME NEW p
        PROVE  (\E b \in j.coreToBlock[q] : p \in j.heap[b].paths) <=> \E b \in Bs : p \in i.heap[b].paths
    BY <2>3, <2>5
  <2> QED
    BY <2>2, <2>6, <2>7
<1>6. \A q : q \in DOMAIN j.coreToBlock <=> IsWord(g, q)
  BY <1>2 DEF Answers
<1> QED
  BY <1>5, <1>6 DEF Answers

-----------------------------------------------------------------------------
(* The references of an index read back.                                   *)

\* What a reference of the block saved at x is read as.
LedRef(i, f, x, r) == LedBefore(f, RefId(i, r), x)

\* It is found before x, and in a lower layer.
LeadsTo(f, id, x, z) == z \in Objects(f.layers) /\ Before(z, x) /\ f.layers[z[1]][z[2]].id = id
Lower(f, id, x) == \E a \in Objects(f.layers) : a[1] < x[1] /\ f.layers[a[1]][a[2]].id = id
LEMMA RefLed ==
    ASSUME NEW i, NEW f, Records(i, TRUE, f), Arranged(i), NamesRight(i), RefsIn(i),
           NEW x \in Objects(f.layers), NEW r \in HeapReads(i.heap[From(i, x)])
    PROVE  /\ r \in DOMAIN i.heap /\ RefId(i, r) = i.heap[r].id /\ RefId(i, r) \in Nat
           /\ LeadsTo(f, i.heap[r].id, x, LedRef(i, f, x, r))
           /\ Lower(f, i.heap[r].id, x)
<1>1. \A y \in Objects(f.layers) : /\ From(i, y) \in DOMAIN i.heap /\ From(i, y)[1] = y[1]
                                   /\ f.layers[y[1]][y[2]].id = i.heap[From(i, y)].id
  BY DEF Records
<1>2. /\ r \in DOMAIN i.heap
      /\ \E a \in DOMAIN i.heap : a[1] < From(i, x)[1] /\ i.heap[a].id = i.heap[r].id
  BY <1>1 DEF RefsIn
<1>3. r # None
  <2>1. Rows(i.layers)
    <3>1. DOMAIN i.layers = 1..K /\ \A l \in 1..K : \E m \in Nat : InPlace(l, m, i.layers[l])
      BY DEF Arranged
    <3>2. \A l \in 1..K : \E m \in Nat : DOMAIN i.layers[l] = 1..m
      BY <3>1 DEF InPlace
    <3> QED
      BY <3>1, <3>2 DEF Rows
  <2>2. r \in Objects(i.layers)
    BY <1>2 DEF Arranged
  <2> QED
    BY <2>1, <2>2, RowPlaces
<1>4. RefId(i, r) = i.heap[r].id /\ i.heap[r].id \in Nat
  BY <1>2, <1>3 DEF RefId, NamesRight
<1>5. PICK b \in DOMAIN i.heap : b[1] < From(i, x)[1] /\ i.heap[b].id = i.heap[r].id
  BY <1>2
<1>6. PICK a \in Objects(f.layers) : From(i, a) = b
  BY DEF Records
<1>7. a[1] < x[1] /\ f.layers[a[1]][a[2]].id = i.heap[r].id
  BY <1>1, <1>5, <1>6
<1>8. PICK S : S = Found(f, i.heap[r].id, {y \in Objects(f.layers) : Before(y, x)})
  OBVIOUS
<1>9. a \in S /\ S \in SUBSET Objects(f.layers)
      /\ \A y \in S : Before(y, x) /\ f.layers[y[1]][y[2]].id = i.heap[r].id
  BY <1>7, <1>8 DEF Found, Before
<1>10. Latest(S) \in S
  <2>1. Rows(f.layers)
    BY DEF Records
  <2> QED
    BY <1>9, <2>1, LatestIs
<1>11. LedRef(i, f, x, r) = Latest(S)
  BY <1>4, <1>8 DEF LedRef, LedBefore, Led
<1>12. LeadsTo(f, i.heap[r].id, x, LedRef(i, f, x, r))
  BY <1>9, <1>10, <1>11 DEF LeadsTo
<1>13. Lower(f, i.heap[r].id, x)
  BY <1>7 DEF Lower
<1> QED
  BY <1>2, <1>4, <1>12, <1>13

\* Block b of index i is read as h at x.
RefsLed(i, f, x, b, h) ==
    /\ h.combinations = {{<<LedRef(i, f, x, c[1]), LedRef(i, f, x, c[2])>> : c \in OrEmpty(b.combinations)}}
    /\ h.ancestor = IF b.ancestor = None THEN None ELSE LedRef(i, f, x, b.ancestor)
    /\ h.k = b.k /\ h.labels = {OrEmpty(b.labels)}
    /\ IsBlock(h)
LEMMA RefsRead ==
    ASSUME NEW i, NEW f, Records(i, TRUE, f), f.full, Arranged(i), NamesRight(i), RefsIn(i),
           NEW j, j = IndexRead(f), NEW x \in Objects(f.layers), NEW b, b = i.heap[From(i, x)],
           NEW h, h = j.heap[x]
    PROVE  RefsLed(i, f, x, b, h)
<1>1. PICK s : s = SavedBlock(i, b, TRUE)
  OBVIOUS
<1>2. h = BlockRead(f, x, s)
  <2>1. f.layers[x[1]][x[2]] = s
    BY <1>1 DEF Records
  <2> QED
    BY <2>1, ReadHeap
<1> DEFINE C == OrEmpty(b.combinations)
           To(id) == LedBefore(f, id, x)
           I(r) == RefId(i, r)
<1>3. /\ s.combinations = {<<I(c[1]), I(c[2])>> : c \in C} /\ s.ancestor = I(b.ancestor)
      /\ s.k = b.k /\ s.labels = OrEmpty(b.labels)
  BY <1>1 DEF SavedBlock
<1>4. /\ h.combinations = {{<<To(d[1]), To(d[2])>> : d \in s.combinations}}
      /\ h.ancestor = IF s.ancestor = -1 THEN None ELSE To(s.ancestor)
      /\ h.k = s.k /\ h.labels = {s.labels} /\ IsBlock(h)
  BY <1>2 DEF BlockRead, IsBlock
<1>5. b.ancestor # None => b.ancestor \in HeapReads(b)
  BY DEF HeapReads
<1>6. (s.ancestor = -1) <=> (b.ancestor = None)
  <2>1. b.ancestor # None => I(b.ancestor) \in Nat
    BY <1>5, RefLed
  <2>2. b.ancestor = None => I(b.ancestor) = -1
    BY DEF RefId
  <2> QED
    BY <1>3, <2>1, <2>2
<1>7. \A r : To(I(r)) = LedRef(i, f, x, r)
  BY DEF LedRef
<1> HIDE DEF To, I
<1>8. {<<To(d[1]), To(d[2])>> : d \in s.combinations} = {<<To(I(c[1])), To(I(c[2]))>> : c \in C}
  <2>1. PICK Ds : Ds = s.combinations
    OBVIOUS
  <2>2. Ds = {<<I(c[1]), I(c[2])>> : c \in C}
    BY <1>3, <2>1
  <2> DEFINE P(d) == <<To(d[1]), To(d[2])>>
             Q(c) == <<I(c[1]), I(c[2])>>
             R(c) == <<To(I(c[1])), To(I(c[2]))>>
  <2>3. \A c : P(Q(c)) = R(c)
    OBVIOUS
  <2>4. Ds = {Q(c) : c \in C}
    BY <2>2
  <2> HIDE DEF P, Q, R
  <2>5. {P(d) : d \in Ds} = {R(c) : c \in C}
    BY <2>3, <2>4
  <2> QED
    BY <2>1, <2>5 DEF P, R
<1>9. h.combinations = {{<<LedRef(i, f, x, c[1]), LedRef(i, f, x, c[2])>> : c \in C}}
  BY <1>4, <1>7, <1>8
<1>10. h.ancestor = IF b.ancestor = None THEN None ELSE LedRef(i, f, x, b.ancestor)
  BY <1>3, <1>4, <1>6, <1>7
<1>11. h.k = b.k /\ h.labels = {OrEmpty(b.labels)} /\ IsBlock(h)
  BY <1>3, <1>4
<1> QED
  BY <1>9, <1>10, <1>11 DEF RefsLed

\* They lead to lower layers again.
LEMMA ReadRefsIn ==
    ASSUME NEW i, NEW f, Records(i, TRUE, f), f.full, Arranged(i), NamesRight(i), RefsIn(i),
           NEW j, j = IndexRead(f)
    PROVE  RefsIn(j)
<1>1. DOMAIN j.heap = Objects(f.layers) /\ \A x \in Objects(f.layers) : j.heap[x].id = f.layers[x[1]][x[2]].id
  BY ReadFields, ReadHeap
<1>2. ASSUME NEW x \in DOMAIN j.heap, NEW r \in HeapReads(j.heap[x])
      PROVE  /\ r \in DOMAIN j.heap
             /\ \E a \in DOMAIN j.heap : a[1] < x[1] /\ j.heap[a].id = j.heap[r].id
  <2>1. PICK h : h = j.heap[x]
    OBVIOUS
  <2>2. PICK b : b = i.heap[From(i, x)]
    OBVIOUS
  <2> DEFINE C == OrEmpty(b.combinations)
             To(s) == LedRef(i, f, x, s)
  <2>0. x \in Objects(f.layers)
    BY <1>1
  <2>3. RefsLed(i, f, x, b, h)
    BY <2>0, <2>1, <2>2, RefsRead
  <2>4. OrEmpty(h.combinations) = {<<To(c[1]), To(c[2])>> : c \in C}
    BY <2>3 DEF RefsLed, OrEmpty
  <2>5. \E s \in HeapReads(b) : r = To(s)
    <3>1. CASE r \in UNION {{c[1], c[2]} : c \in OrEmpty(h.combinations)}
      <4>1. PICK d \in OrEmpty(h.combinations) : r = d[1] \/ r = d[2]
        BY <3>1
      <4>2. PICK c \in C : d = <<To(c[1]), To(c[2])>>
        BY <2>4, <4>1
      <4>3. c[1] \in HeapReads(b) /\ c[2] \in HeapReads(b)
        BY <4>2 DEF HeapReads
      <4> QED
        BY <4>1, <4>2, <4>3
    <3>2. CASE r \in {h.ancestor} \ {None}
      <4>1. b.ancestor # None /\ r = To(b.ancestor)
        BY <2>3, <3>2 DEF RefsLed
      <4>2. b.ancestor \in HeapReads(b)
        BY <4>1 DEF HeapReads
      <4> QED
        BY <4>1, <4>2
    <3> QED
      BY <2>1, <3>1, <3>2 DEF HeapReads
  <2>6. PICK s \in HeapReads(b) : r = To(s)
    BY <2>5
  <2>7. LeadsTo(f, i.heap[s].id, x, To(s)) /\ Lower(f, i.heap[s].id, x)
    <3>1. s \in HeapReads(i.heap[From(i, x)])
      BY <2>2, <2>6
    <3> QED
      BY <2>0, <3>1, RefLed
  <2> QED
    BY <1>1, <2>6, <2>7 DEF Lower, LeadsTo
<1> QED
  BY <1>2 DEF RefsIn

\* Of an index without cores they lead to the very blocks.
AllSaved(i, f) == f.layers = [l \in 1..K |-> SavedLayer(i, l, TRUE)]
LEMMA ReadPlain ==
    ASSUME NEW bl, NEW g, BuiltRight(bl, g), NEW i, Plain(bl, i),
           NEW f, Records(i, TRUE, f), f.full, AllSaved(i, f),
           Arranged(i), NamesRight(i), RefsIn(i), NEW j, j = IndexRead(f)
    PROVE  Plain(bl, j)
<1>1. i.layers = Named(bl) /\ DOMAIN i.heap = Objects(bl) /\ Layered(bl)
  BY DEF Plain, BuiltRight
<1>2. DOMAIN bl = 1..K /\ \A l \in 1..K : Named(bl)[l] = [n \in DOMAIN bl[l] |-> <<l, n>>]
  BY <1>1, PlacesNamed DEF Layered
<1>3. DOMAIN f.layers = 1..K /\ \A l \in 1..K : DOMAIN f.layers[l] = DOMAIN bl[l]
  <2>1. \A l \in 1..K : DOMAIN SavedLayer(i, l, TRUE) = DOMAIN i.layers[l]
    BY DEF SavedLayer
  <2>2. \A l \in 1..K : DOMAIN i.layers[l] = DOMAIN bl[l]
    BY <1>1, <1>2
  <2>3. DOMAIN f.layers = 1..K /\ \A l \in 1..K : f.layers[l] = SavedLayer(i, l, TRUE)
    BY DEF AllSaved
  <2> QED
    BY <2>1, <2>2, <2>3
<1>4. Named(f.layers) = Named(bl)
  BY <1>2, <1>3 DEF Named
<1>5. Objects(f.layers) = Objects(bl)
  <2>1. PICK fl : fl = f.layers
    OBVIOUS
  <2>2. DOMAIN fl = 1..K /\ \A l \in 1..K : DOMAIN fl[l] = DOMAIN bl[l]
    BY <1>3, <2>1
  <2>3. Objects(fl) = Objects(bl)
    BY <1>2, <2>2 DEF Objects
  <2> QED
    BY <2>1, <2>3
<1>6. ASSUME NEW x \in Objects(bl) PROVE From(i, x) = x
  <2>1. x = <<x[1], x[2]>> /\ x[1] \in 1..K /\ x[2] \in DOMAIN bl[x[1]]
    BY <1>1, PlacesNamed
  <2>2. PICK l \in 1..K, n \in DOMAIN bl[x[1]] : l = x[1] /\ n = x[2]
    BY <2>1
  <2>3. Named(bl)[l] = [m \in DOMAIN bl[l] |-> <<l, m>>]
    BY <1>2
  <2>4. i.layers[l][n] = <<l, n>>
    BY <1>1, <2>2, <2>3
  <2> QED
    BY <2>1, <2>2, <2>4 DEF From
<1>7. j.layers = Named(bl) /\ DOMAIN j.heap = Objects(bl)
  BY <1>4, <1>5, ReadFields
<1>8. ASSUME NEW y \in Objects(bl) PROVE f.layers[y[1]][y[2]].id = BlockAt(bl, y).id /\ i.heap[y].id = BlockAt(bl, y).id
  <2>1. f.layers[y[1]][y[2]].id = i.heap[From(i, y)].id
    BY <1>5 DEF Records
  <2>2. Fresh(BlockAt(bl, y), i.heap[y])
    BY DEF Plain
  <2> QED
    BY <1>6, <2>1, <2>2 DEF Fresh, SameAs
<1>9. ASSUME NEW x \in Objects(bl) PROVE Fresh(BlockAt(bl, x), j.heap[x])
  <2>1. PICK b : b = i.heap[x]
    OBVIOUS
  <2>2. PICK h : h = j.heap[x]
    OBVIOUS
  <2>3. PICK o : o = BlockAt(bl, x)
    OBVIOUS
  <2>4. Fresh(o, b) /\ Sound(bl, x, o) /\ IdsLead(bl, x, o)
    BY <2>1, <2>3 DEF Plain, BuiltRight
  <2>5. b.id = o.id /\ b.k = o.k /\ b.paths = o.paths /\ b.ancestor = o.ancestor /\ OrEmpty(b.combinations) = o.combinations
    BY <2>4 DEF Fresh, SameAs, OrEmpty
  <2> DEFINE To(s) == LedRef(i, f, x, s)
  <2>0. x \in Objects(f.layers) /\ From(i, x) = x
    BY <1>5, <1>6
  <2>6. ASSUME NEW s \in Reads(o) PROVE To(s) = s
    <3>1. s \in HeapReads(b)
      BY <2>5 DEF HeapReads, Reads
    <3>2. PICK z : z = LedRef(i, f, x, s)
      OBVIOUS
    <3>3. s \in HeapReads(i.heap[From(i, x)])
      BY <2>0, <2>1, <3>1
    <3>4. z \in Objects(f.layers) /\ Before(z, x) /\ f.layers[z[1]][z[2]].id = i.heap[s].id
      <4>1. LeadsTo(f, i.heap[s].id, x, LedRef(i, f, x, s))
        BY <2>0, <3>3, RefLed
      <4> QED
        BY <3>2, <4>1 DEF LeadsTo
    <3>5. z \in Objects(bl)
      BY <1>5, <3>4
    <3>6. s \in Objects(bl)
      BY <2>4 DEF Sound
    <3>7. BlockAt(bl, z).id = BlockAt(bl, s).id
      BY <1>8, <3>4, <3>5, <3>6
    <3> QED
      BY <2>4, <3>2, <3>4, <3>5, <3>7 DEF IdsLead
  <2>7. /\ h.combinations = {{<<To(c[1]), To(c[2])>> : c \in o.combinations}}
        /\ h.ancestor = IF b.ancestor = None THEN None ELSE To(b.ancestor)
        /\ h.k = b.k /\ h.labels = {OrEmpty(b.labels)} /\ IsBlock(h)
    <3>1. b = i.heap[From(i, x)]
      BY <2>0, <2>1
    <3>2. RefsLed(i, f, x, b, h)
      BY <2>0, <2>2, <3>1, RefsRead
    <3> QED
      BY <2>5, <3>2 DEF RefsLed
  <2> HIDE DEF To
  <2>8. \A c \in o.combinations : <<To(c[1]), To(c[2])>> = c
    <3> TAKE c \in o.combinations
    <3>1. c[1] \in Reads(o) /\ c[2] \in Reads(o)
      BY DEF Reads
    <3>2. c = <<c[1], c[2]>>
      BY <2>4 DEF Sound
    <3> QED
      BY <2>6, <3>1, <3>2
  <2>9. h.combinations = {o.combinations}
    <3>1. {<<To(c[1]), To(c[2])>> : c \in o.combinations} = o.combinations
      BY <2>8
    <3> QED
      BY <2>7, <3>1
  <2>10. h.ancestor = o.ancestor
    <3>1. o.ancestor # None => o.ancestor \in Reads(o)
      BY DEF Reads
    <3> QED
      BY <2>5, <2>6, <2>7, <3>1
  <2>11. o.combinations = {} => h.labels = {o.labels}
    <3>1. o.combinations = {} => b.labels = {o.labels}
      BY <2>4 DEF Fresh
    <3>2. OrEmpty({o.labels}) = o.labels
      BY DEF OrEmpty
    <3> QED
      BY <2>7, <3>1, <3>2
  <2>12. h.id = b.id /\ h.paths = b.paths
    <3>1. h.id = f.layers[x[1]][x[2]].id /\ h.paths = f.layers[x[1]][x[2]].paths
      <4>1. x \in Objects(f.layers)
        BY <2>0
      <4>2. j.heap[x].id = f.layers[x[1]][x[2]].id /\ j.heap[x].paths = f.layers[x[1]][x[2]].paths
        BY <4>1, ReadHeap
      <4> QED
        BY <2>2, <4>2
    <3>2. f.layers[x[1]][x[2]].id = i.heap[From(i, x)].id /\ f.layers[x[1]][x[2]].paths = i.heap[From(i, x)].paths
      BY <1>5 DEF Records
    <3> QED
      BY <1>6, <2>1, <3>1, <3>2
  <2>13. SameAs(o, h)
    BY <2>5, <2>7, <2>12 DEF SameAs
  <2> QED
    BY <2>2, <2>3, <2>9, <2>10, <2>11, <2>13 DEF Fresh
<1> QED
  BY <1>7, <1>9 DEF Plain

\* What is read back is right if what was saved was.
LEMMA ReadRight ==
    ASSUME NEW bl, NEW g, BuiltRight(bl, g), NEW i, IndexRight(bl, g, i),
           NEW full \in BOOLEAN, full => i.predicates, NEW f, f = SavedIndex(i, full), NEW j, j = IndexRead(f)
    PROVE  IndexRight(bl, g, j)
<1>1. Arranged(i) /\ NamesRight(i) /\ (i.predicates => RefsIn(i)) /\ i.computeCores \in BOOLEAN
  BY DEF IndexRight
<1>2. Records(i, full, f)
  BY <1>1, FileRecords
<1>3. f.full = full /\ f.computeCores = i.computeCores /\ f.layers = [l \in 1..K |-> SavedLayer(i, l, full)]
  BY DEF SavedIndex
<1>4. IsIndex(j) /\ j.predicates = full /\ j.computeCores = i.computeCores
  BY <1>3, ReadFields
<1>5. Arranged(j)
  BY <1>2, ReadArranged DEF Records
<1>6. NamesRight(j)
  BY <1>1, <1>2, ReadCopied, CopiedNames
<1>7. full => RefsIn(j)
  BY <1>1, <1>2, <1>3, ReadRefsIn
<1>8. full /\ ~i.computeCores => Plain(bl, j)
  BY <1>1, <1>2, <1>3, ReadPlain DEF IndexRight, AllSaved
<1>9. i.computeCores => Answers(g, j)
  BY <1>1, <1>2, ReadAnswers DEF IndexRight
<1> QED
  BY <1>1, <1>4, <1>5, <1>6, <1>7, <1>8, <1>9 DEF IndexRight

-----------------------------------------------------------------------------
(* Files that can be read.                                                 *)

\* A finite set of numbers has a largest one.
LEMMA LargestOf ==
    ASSUME NEW S \in SUBSET Nat, IsFiniteSet(S), S # {}
    PROVE  Max(S) \in S /\ \A x \in S : x <= Max(S)
<1> DEFINE R == {e \in Nat \X Nat : e[1] > e[2]}
<1>1. Linear(Nat, R)
  BY DEF Linear
<1>2. \A x, y \in Nat : <<y, x>> \notin R => y <= x
  OBVIOUS
<1> HIDE DEF R
<1>3. PICK m \in S : \A y \in S : <<y, m>> \notin R
  BY <1>1, FirstElement
<1>4. \A y \in S : m >= y
  BY <1>2, <1>3
<1>5. PICK n : n = Max(S)
  OBVIOUS
<1>6. n \in S /\ \A y \in S : n >= y
  BY <1>3, <1>4, <1>5 DEF Max
<1>7. \A y \in S : y <= n
  BY <1>6
<1> QED
  BY <1>5, <1>6, <1>7

\* The block map has room for every id of an index.
LEMMA SizeEnough ==
    ASSUME NEW i, Arranged(i), NamesRight(i), NEW o \in DOMAIN i.heap,
           NEW size, size = Max({i.heap[b].id : b \in LastBlocks(i)}) + 1
    PROVE  i.heap[o].id \in 0..(size - 1)
<1>1. PICK m \in Nat : InPlace(K, m, i.layers[K])
  <2>1. K \in 1..K
    BY DiameterAssumption
  <2> QED
    BY <2>1 DEF Arranged
<1>2. LastBlocks(i) = LastOnes(i) /\ IsFiniteSet(LastOnes(i))
  BY <1>1, LastBlocksAre
<1> DEFINE S == {i.heap[b].id : b \in LastOnes(i)}
<1>3. IsFiniteSet(S)
  <2>1. PICK T : T = LastOnes(i) /\ IsFiniteSet(T)
    BY <1>2
  <2>2. PICK h : h = [b \in T |-> i.heap[b].id]
    OBVIOUS
  <2>3. S = {h[b] : b \in T}
    BY <2>1, <2>2
  <2>4. IsFiniteSet({h[b] : b \in T})
    BY <2>1, ImageFinite
  <2> QED
    BY <2>3, <2>4
<1>4. S \in SUBSET Nat /\ S # {}
  BY DEF NamesRight, LastOnes
<1>5. i.heap[o].id \in Nat /\ \E y \in S : i.heap[o].id <= y
  BY DEF NamesRight
<1> HIDE DEF S
<1>6. Max(S) \in S /\ \A y \in S : y <= Max(S)
  BY <1>3, <1>4, LargestOf
<1>7. i.heap[o].id \in 0..(size - 1)
  <2>1. PICK top, n : top = Max(S) /\ n = i.heap[o].id
    OBVIOUS
  <2>2. top \in Nat /\ n \in Nat /\ n <= top
    <3>1. top \in S /\ \A y \in S : y <= top
      BY <1>6, <2>1
    <3>2. PICK y \in S : n <= y
      BY <1>5, <2>1
    <3>3. top \in Nat /\ y \in Nat /\ y <= top /\ n \in Nat
      BY <1>4, <1>5, <2>1, <3>1
    <3> QED
      BY <3>2, <3>3
  <2>3. size = top + 1
    BY <1>2, <2>1 DEF S
  <2> QED
    BY <2>1, <2>2, <2>3
<1> QED
  BY <1>7

\* What a saved block refers to.
FileReads(full, r) ==
    IF full THEN (UNION {{c[1], c[2]} : c \in r.combinations}) \cup ({r.ancestor} \ {-1}) ELSE {}
LEMMA SavedReads ==
    ASSUME NEW i, NEW b, NEW id \in FileReads(TRUE, SavedBlock(i, b, TRUE))
    PROVE  \E s \in HeapReads(b) : id = RefId(i, s)
<1>1. PICK r : r = SavedBlock(i, b, TRUE)
  OBVIOUS
<1> DEFINE C == OrEmpty(b.combinations)
           I(s) == RefId(i, s)
<1>2. r.combinations = {<<I(c[1]), I(c[2])>> : c \in C} /\ r.ancestor = I(b.ancestor)
  BY <1>1 DEF SavedBlock
<1>3. b.ancestor = None => I(b.ancestor) = -1
  BY DEF RefId
<1> HIDE DEF I
<1>4. CASE id \in UNION {{c[1], c[2]} : c \in r.combinations}
  <2>1. PICK Ds : Ds = r.combinations
    OBVIOUS
  <2>2. PICK d \in Ds : id = d[1] \/ id = d[2]
    BY <1>4, <2>1
  <2>3. PICK c \in C : d = <<I(c[1]), I(c[2])>>
    BY <1>2, <2>1
  <2>4. c[1] \in HeapReads(b) /\ c[2] \in HeapReads(b)
    BY DEF HeapReads
  <2> QED
    BY <2>2, <2>3, <2>4 DEF I
<1>5. CASE id \in {r.ancestor} \ {-1}
  <2>1. b.ancestor # None /\ id = I(b.ancestor)
    BY <1>2, <1>3, <1>5
  <2>2. b.ancestor \in HeapReads(b)
    BY <2>1 DEF HeapReads
  <2> QED
    BY <2>1, <2>2 DEF I
<1> QED
  BY <1>1, <1>4, <1>5 DEF FileReads

\* What is saved of a right index can be read.
Readable(f) ==
    \A x \in Objects(f.layers) :
        /\ f.layers[x[1]][x[2]].id \in 0..(f.size - 1)
        /\ \A id \in FileReads(f.full, f.layers[x[1]][x[2]]) : LedBefore(f, id, x) # None
LEMMA SavedReadable ==
    ASSUME NEW i, Arranged(i), NamesRight(i), i.predicates => RefsIn(i),
           NEW full \in BOOLEAN, full => i.predicates, NEW f, f = SavedIndex(i, full)
    PROVE  Readable(f)
<1>1. Records(i, full, f)
  BY FileRecords
<1>2. f.full = full /\ f.size = Max({i.heap[b].id : b \in LastBlocks(i)}) + 1
  BY DEF SavedIndex
<1>3. ASSUME NEW x \in Objects(f.layers)
      PROVE  /\ f.layers[x[1]][x[2]].id \in 0..(f.size - 1)
             /\ \A id \in FileReads(f.full, f.layers[x[1]][x[2]]) : LedBefore(f, id, x) # None
  <2>1. /\ From(i, x) \in DOMAIN i.heap
        /\ f.layers[x[1]][x[2]] = SavedBlock(i, i.heap[From(i, x)], full)
        /\ f.layers[x[1]][x[2]].id = i.heap[From(i, x)].id
    BY <1>1 DEF Records
  <2>2. f.layers[x[1]][x[2]].id \in 0..(f.size - 1)
    <3>1. i.heap[From(i, x)].id \in 0..(f.size - 1)
      BY <1>2, <2>1, SizeEnough
    <3> QED
      BY <2>1, <3>1
  <2>3. ASSUME NEW id \in FileReads(f.full, f.layers[x[1]][x[2]]) PROVE LedBefore(f, id, x) # None
    <3>1. full = TRUE
      BY <1>2 DEF FileReads
    <3>2. id \in FileReads(TRUE, SavedBlock(i, i.heap[From(i, x)], TRUE))
      BY <1>2, <2>1, <3>1
    <3>3. PICK s \in HeapReads(i.heap[From(i, x)]) : id = RefId(i, s)
      BY <3>2, SavedReads
    <3>4. Records(i, TRUE, f) /\ RefsIn(i)
      BY <1>1, <3>1
    <3>5. LeadsTo(f, i.heap[s].id, x, LedRef(i, f, x, s))
      BY <3>4, RefLed
    <3>6. LedRef(i, f, x, s) = LedBefore(f, id, x)
      BY <3>3 DEF LedRef
    <3>7. LedBefore(f, id, x) \in Objects(f.layers)
      BY <3>5, <3>6 DEF LeadsTo
    <3>8. Rows(f.layers)
      BY <1>1 DEF Records
    <3> QED
      BY <3>7, <3>8, RowPlaces
  <2> QED
    BY <2>2, <2>3
<1> QED
  BY <1>3 DEF Readable

\* Readable is what FileReadable says of the file.
LEMMA FileReadableIs == Readable(file) => FileReadable
<1> SUFFICES ASSUME Readable(file), NEW x \in Objects(file.layers), NEW r, r = file.layers[x[1]][x[2]],
                    NEW S, S = {a \in Objects(file.layers) : Before(a, x)}
             PROVE  /\ r.id \in 0..(file.size - 1)
                    /\ \A id \in FileReads(file.full, r) : Resolve(id, S) # None
  BY DEF FileReadable, FileReads
<1>1. \A id : Resolve(id, S) = LedBefore(file, id, x)
  BY ResolveIs DEF LedBefore
<1> QED
  BY <1>1 DEF Readable

-----------------------------------------------------------------------------
(* Core computation.                                                       *)

\* The blocks of the layers below cl and those in done were computed, the others were not.
Computing(bl, g, i, cl, done) ==
    /\ IsIndex(i) /\ i.predicates = TRUE /\ i.computeCores = FALSE
    /\ i.layers = Named(bl) /\ DOMAIN i.heap = Objects(bl)
    /\ done \subseteq {o \in Objects(bl) : o[1] = cl}
    /\ \A o \in Objects(bl) :
           IF o[1] < cl \/ o \in done THEN Cored(bl, g, o, i.heap[o]) ELSE Fresh(BlockAt(bl, o), i.heap[o])

\* The computation goes on.
Working == BuiltRight(blocks, graph) /\ coreLayer \in 1..K /\ Computing(blocks, graph, index, coreLayer, computed)

\* The cores of what a block of this layer refers to are known.
LEMMA RefCores ==
    ASSUME Working, NEW o \in Objects(blocks), o[1] = coreLayer, NEW r \in Reads(BlockAt(blocks, o))
    PROVE  ~NoCores(r) /\ CoresOf(r) = WordsOf(blocks, graph, r) /\ r # None
<1>1. Sound(blocks, o, BlockAt(blocks, o)) /\ Layered(blocks)
  BY DEF Working, BuiltRight
<1>2. r \in Objects(blocks) /\ r[1] < o[1]
  BY <1>1 DEF Sound
<1>3. r # None /\ r[1] \in 1..K /\ o[1] \in 1..K
  BY <1>1, <1>2, PlacesNamed
<1>4. Cored(blocks, graph, r, index.heap[r])
  BY <1>2 DEF Working, Computing
<1>5. r[1] # K
  BY <1>2, <1>3, DiameterAssumption
<1>6. index.heap[r].cores = {WordsOf(blocks, graph, r)}
  BY <1>4, <1>5 DEF Cored
<1>7. OrEmpty({WordsOf(blocks, graph, r)}) = WordsOf(blocks, graph, r)
  BY DEF OrEmpty
<1> QED
  BY <1>3, <1>6, <1>7 DEF NoCores, CoresOf, Null

\* A block of this layer has the words of its pairs as cores, and its computation does not fail.
LEMMA CoresAre ==
    ASSUME Working, NEW o \in Objects(blocks), o[1] = coreLayer, o \notin computed,
           NEW h, h = index.heap[o]
    PROVE  ~Throws(h) /\ Inherited(h) \cup OwnCores(h) = WordsOf(blocks, graph, o)
<1>1. PICK b : b = BlockAt(blocks, o)
  OBVIOUS
<1>2. Fresh(b, h) /\ WordsFit(blocks, graph, o, b)
  <2>1. o[1] \in Nat
    BY DEF Working
  <2>2. ~(o[1] < coreLayer)
    BY <2>1
  <2> QED
    BY <1>1, <2>2 DEF Working, Computing, BuiltRight
<1>3. /\ h.ancestor = b.ancestor /\ OrEmpty(h.combinations) = b.combinations
      /\ b.combinations = {} => OrEmpty(h.labels) = b.labels
  BY <1>2 DEF Fresh, OrEmpty
<1>4. ASSUME NEW r \in Reads(b) PROVE ~NoCores(r) /\ CoresOf(r) = WordsOf(blocks, graph, r) /\ r # None
  BY <1>1, RefCores
<1>5. b.ancestor # None => b.ancestor \in Reads(b)
  BY DEF Reads
<1>6. \A c \in b.combinations : c[1] \in Reads(b) /\ c[2] \in Reads(b)
  BY DEF Reads
<1>7. ~Throws(h)
  <2>1. h.ancestor # None => ~NoCores(h.ancestor)
    BY <1>3, <1>4, <1>5
  <2>2. \A c \in OrEmpty(h.combinations) : ~ConcatThrows(c)
    BY <1>3, <1>4, <1>6 DEF ConcatThrows
  <2> QED
    BY <2>1, <2>2 DEF Throws
<1>8. Inherited(h) = AncestorWords(blocks, graph, b)
  BY <1>3, <1>4, <1>5 DEF Inherited, AncestorWords
<1>9. OwnCores(h) = OwnWords(blocks, graph, b)
  <2>1. CASE b.combinations = {}
    BY <1>3, <2>1 DEF OwnCores, OwnWords
  <2>2. CASE b.combinations # {}
    <3>1. \A c \in b.combinations :
              Concat(c) = PutTogether(WordsOf(blocks, graph, c[1]), WordsOf(blocks, graph, c[2]))
      <4> TAKE c \in b.combinations
      <4>1. Concat(c) = PutTogether(CoresOf(c[1]), CoresOf(c[2]))
        BY DEF Concat, PutTogether
      <4>2. /\ CoresOf(c[1]) = WordsOf(blocks, graph, c[1])
            /\ CoresOf(c[2]) = WordsOf(blocks, graph, c[2])
        BY <1>4, <1>6
      <4> QED
        BY <4>1, <4>2
    <3> DEFINE P(c) == PutTogether(WordsOf(blocks, graph, c[1]), WordsOf(blocks, graph, c[2]))
    <3>2. OwnCores(h) = UNION {Concat(c) : c \in b.combinations}
      BY <1>3, <2>2 DEF OwnCores
    <3>3. OwnWords(blocks, graph, b) = UNION {P(c) : c \in b.combinations}
      BY <2>2 DEF OwnWords
    <3>4. \A c \in b.combinations : Concat(c) = P(c)
      BY <3>1
    <3> HIDE DEF P
    <3> QED
      BY <3>2, <3>3, <3>4
  <2> QED
    BY <2>1, <2>2
<1> QED
  BY <1>2, <1>7, <1>8, <1>9 DEF WordsFit

\* What becomes of it.
LEMMA ComputedIs ==
    ASSUME Working, NEW o \in Objects(blocks), o[1] = coreLayer, o \notin computed,
           NEW h, h = index.heap[o]
    PROVE  Cored(blocks, graph, o, Computed(h))
<1>1. PICK b : b = BlockAt(blocks, o)
  OBVIOUS
<1>2. Fresh(b, h) /\ b.k = o[1]
  <2>1. o[1] \in Nat
    BY DEF Working
  <2>2. ~(o[1] < coreLayer)
    BY <2>1
  <2> QED
    BY <1>1, <2>2 DEF Working, Computing, BuiltRight, Sound
<1>3. PICK W1 : W1 = WordsOf(blocks, graph, o)
  OBVIOUS
<1>4. PICK X : X = Inherited(h) \cup OwnCores(h)
  OBVIOUS
<1>5. X = W1
  BY <1>3, <1>4, CoresAre
<1>6. NoSave(h) <=> o[1] = K /\ ~ComputeLabels
  BY <1>2 DEF NoSave, Fresh, SameAs
<1>7. Computed(h) = IF NoSave(h)
                    THEN [h EXCEPT !.canonCores = {W1}, !.cores = Null, !.labels = Null,
                                   !.ancestor = None, !.combinations = Null]
                    ELSE [h EXCEPT !.canonCores = {W1}, !.cores = {W1}]
  BY <1>4, <1>5 DEF Computed
<1>8. IsBlock(h) /\ h.id = b.id /\ h.k = b.k /\ h.paths = b.paths /\ h.ancestor = b.ancestor
      /\ h.combinations = {b.combinations}
  BY <1>2 DEF Fresh, SameAs
<1>9. PICK c : c = Computed(h)
  OBVIOUS
<1>10. CASE NoSave(h)
  <2>1. c = [h EXCEPT !.canonCores = {W1}, !.cores = Null, !.labels = Null,
                      !.ancestor = None, !.combinations = Null]
    BY <1>7, <1>9, <1>10
  <2>2. IsBlock(c) /\ c.id = b.id /\ c.k = b.k /\ c.paths = b.paths /\ c.canonCores = {W1}
        /\ c.ancestor = None /\ c.combinations = Null
    BY <1>8, <2>1 DEF IsBlock
  <2> QED
    BY <1>1, <1>3, <1>6, <1>9, <1>10, <2>2 DEF Cored, SameAs
<1>11. CASE ~NoSave(h)
  <2>1. c = [h EXCEPT !.canonCores = {W1}, !.cores = {W1}]
    BY <1>7, <1>9, <1>11
  <2>2. IsBlock(c) /\ c.id = b.id /\ c.k = b.k /\ c.paths = b.paths /\ c.canonCores = {W1}
        /\ c.ancestor = b.ancestor /\ c.combinations = {b.combinations} /\ c.cores = {W1}
    BY <1>8, <2>1 DEF IsBlock
  <2> QED
    BY <1>1, <1>3, <1>6, <1>9, <1>11, <2>2 DEF Cored, SameAs
<1> QED
  BY <1>10, <1>11

\* The blocks of this layer that are left.
LEMMA LeftToCompute ==
    ASSUME Working, NEW o
    PROVE  o \in ToCompute <=> o \in Objects(blocks) /\ o[1] = coreLayer /\ o \notin computed
<1>1. index.layers = Named(blocks) /\ Layered(blocks) /\ coreLayer \in 1..K
  BY DEF Working, Computing, BuiltRight
<1>2. PICK row : row = index.layers[coreLayer]
  OBVIOUS
<1>3. row = [n \in DOMAIN blocks[coreLayer] |-> <<coreLayer, n>>]
  BY <1>1, <1>2, PlacesNamed
<1>4. o \in ToCompute <=> (\E n \in DOMAIN blocks[coreLayer] : o = <<coreLayer, n>>) /\ o \notin computed
  BY <1>2, <1>3 DEF ToCompute
<1>5. ASSUME NEW n \in DOMAIN blocks[coreLayer], o = <<coreLayer, n>>
      PROVE  o \in Objects(blocks) /\ o[1] = coreLayer
  BY <1>1, <1>5, PlacesNamed
<1>6. ASSUME o \in Objects(blocks), o[1] = coreLayer
      PROVE  \E n \in DOMAIN blocks[coreLayer] : o = <<coreLayer, n>>
  <2>1. o = <<o[1], o[2]>> /\ o[2] \in DOMAIN blocks[o[1]]
    BY <1>1, <1>6, PlacesNamed
  <2> QED
    BY <1>6, <2>1
<1> QED
  BY <1>4, <1>5, <1>6

\* A computed block is one more that is.
LEMMA ComputeGoesOn ==
    ASSUME Working, NEW o, ComputeBlock(o)
    PROVE  Computing(blocks, graph, index', coreLayer, computed')
<1>1. o \in Objects(blocks) /\ o[1] = coreLayer /\ o \notin computed
  BY LeftToCompute DEF ComputeBlock
<1>2. PICK i, j : i = index /\ j = index'
  OBVIOUS
<1>3. PICK h, c : h = index.heap[o] /\ c = Computed(h)
  OBVIOUS
<1>4. Cored(blocks, graph, o, c)
  BY <1>1, <1>3, ComputedIs
<1>5. j = [i EXCEPT !.heap = [@ EXCEPT ![o] = c]]
  BY <1>2, <1>3 DEF ComputeBlock
<1>6. Computing(blocks, graph, i, coreLayer, computed)
  BY <1>2 DEF Working
<1>7. /\ IsIndex(j) /\ j.predicates = TRUE /\ j.computeCores = FALSE /\ j.layers = Named(blocks)
      /\ j.heap = [i.heap EXCEPT ![o] = c]
  BY <1>5, <1>6 DEF Computing, IsIndex
<1>8. DOMAIN j.heap = Objects(blocks) /\ j.heap[o] = c /\ \A a \in Objects(blocks) : a # o => j.heap[a] = i.heap[a]
  BY <1>1, <1>6, <1>7 DEF Computing
<1>9. computed' = computed \cup {o}
  BY DEF ComputeBlock
<1>10. computed' \subseteq {a \in Objects(blocks) : a[1] = coreLayer}
  BY <1>1, <1>6, <1>9 DEF Computing
<1>11. ASSUME NEW a \in Objects(blocks)
       PROVE  IF a[1] < coreLayer \/ a \in computed' THEN Cored(blocks, graph, a, j.heap[a])
              ELSE Fresh(BlockAt(blocks, a), j.heap[a])
  <2>1. CASE a = o
    BY <1>4, <1>8, <1>9, <2>1
  <2>2. CASE a # o
    <3>1. j.heap[a] = i.heap[a] /\ (a \in computed' <=> a \in computed)
      BY <1>8, <1>9, <2>2
    <3> QED
      BY <1>6, <3>1 DEF Computing
  <2> QED
    BY <2>1, <2>2
<1> QED
  BY <1>2, <1>7, <1>8, <1>10, <1>11 DEF Computing

\* A layer that is done is below the next.
LEMMA LayerGoesOn ==
    ASSUME Working, ToCompute = {}, coreLayer < K
    PROVE  Computing(blocks, graph, index, coreLayer + 1, {})
<1>1. Layered(blocks) /\ coreLayer \in 1..K /\ Computing(blocks, graph, index, coreLayer, computed)
  BY DEF Working, BuiltRight
<1>2. ASSUME NEW a \in Objects(blocks)
      PROVE  IF a[1] < coreLayer + 1 \/ a \in {} THEN Cored(blocks, graph, a, index.heap[a])
             ELSE Fresh(BlockAt(blocks, a), index.heap[a])
  <2>1. a[1] \in 1..K
    BY <1>1, PlacesNamed
  <2>2. a \notin ToCompute
    OBVIOUS
  <2>3. a[1] = coreLayer => a \in computed
    BY <2>2, LeftToCompute
  <2>4. a \in computed => a[1] = coreLayer
    BY <1>1 DEF Computing
  <2>5. a[1] < coreLayer + 1 <=> a[1] < coreLayer \/ a \in computed
    BY <1>1, <2>1, <2>3, <2>4, DiameterAssumption
  <2> QED
    BY <1>1, <2>5 DEF Computing
<1> QED
  BY <1>1, <1>2 DEF Computing

\* When the last layer is done all blocks are.
LEMMA AllComputed ==
    ASSUME Working, ToCompute = {}, coreLayer = K, NEW o \in Objects(blocks)
    PROVE  Cored(blocks, graph, o, index.heap[o])
<1>1. Layered(blocks) /\ K \in Nat
  BY DiameterAssumption DEF Working, BuiltRight
<1>2. o[1] \in 1..K
  BY <1>1, PlacesNamed
<1>3. o \notin ToCompute
  OBVIOUS
<1>4. o[1] = K => o \in computed
  BY <1>3, LeftToCompute
<1>5. o[1] < coreLayer \/ o \in computed
  BY <1>1, <1>2, <1>4
<1> QED
  BY <1>5 DEF Working, Computing

\* The index that maps each core to the blocks of the last layer that have it.
Mapped(i) ==
    [i EXCEPT !.computeCores = TRUE,
              !.coreToBlock = CoreToBlock(i),
              !.heap = [b \in DOMAIN @ |->
                  IF b \in LastBlocks(i) /\ ~ComputeLabels THEN [@[b] EXCEPT !.canonCores = Null] ELSE @[b]]]
LEMMA MapIs ==
    ASSUME MapCoresToBlocks
    PROVE  index' = Mapped(index)
BY DEF MapCoresToBlocks, Mapped

\* Every block of the index was computed.
AllCored(bl, g, i) ==
    /\ BuiltRight(bl, g) /\ IsIndex(i) /\ i.layers = Named(bl) /\ DOMAIN i.heap = Objects(bl)
    /\ \A o \in Objects(bl) : Cored(bl, g, o, i.heap[o])

\* The blocks of that index.
LEMMA MappedHeap ==
    ASSUME NEW bl, NEW g, NEW i, AllCored(bl, g, i), NEW j, j = Mapped(i)
    PROVE  /\ SameBlocks(bl, j)
           /\ IsIndex(j) /\ j.predicates = i.predicates /\ j.computeCores = TRUE /\ j.coreToBlock = CoreToBlock(i)
           /\ DOMAIN j.heap = Objects(bl) /\ \A o \in Objects(bl) : j.heap[o].paths = BlockAt(bl, o).paths
<1>0. /\ BuiltRight(bl, g) /\ IsIndex(i) /\ i.layers = Named(bl) /\ DOMAIN i.heap = Objects(bl)
      /\ \A o \in Objects(bl) : Cored(bl, g, o, i.heap[o])
  BY DEF AllCored
<1> USE <1>0
<1>1. /\ IsIndex(j) /\ j.predicates = i.predicates /\ j.computeCores = TRUE /\ j.coreToBlock = CoreToBlock(i)
      /\ j.layers = i.layers
      /\ j.heap = [b \in DOMAIN i.heap |->
                      IF b \in LastBlocks(i) /\ ~ComputeLabels THEN [i.heap[b] EXCEPT !.canonCores = Null]
                      ELSE i.heap[b]]
  BY DEF Mapped, IsIndex
<1>2. ASSUME NEW o \in Objects(bl)
      PROVE  SameAs(BlockAt(bl, o), j.heap[o]) /\ HeapReads(j.heap[o]) \subseteq Reads(BlockAt(bl, o))
  <2>1. PICK h, c, b : h = i.heap[o] /\ c = j.heap[o] /\ b = BlockAt(bl, o)
    OBVIOUS
  <2>2. c = [h EXCEPT !.canonCores = Null] \/ c = h
    BY <1>1, <2>1
  <2>3. Cored(bl, g, o, h)
    BY <2>1
  <2>4. SameAs(b, h)
    BY <2>1, <2>3 DEF Cored
  <2>5. SameAs(b, c) /\ c.ancestor = h.ancestor /\ c.combinations = h.combinations
    BY <2>2, <2>4 DEF SameAs, IsBlock
  <2>6. HeapReads(h) \subseteq Reads(b)
    <3>1. CASE h.ancestor = None /\ h.combinations = Null
      BY <3>1 DEF HeapReads, Null, OrEmpty
    <3>2. CASE h.ancestor = b.ancestor /\ h.combinations = {b.combinations}
      <4>1. OrEmpty(h.combinations) = b.combinations
        BY <3>2 DEF OrEmpty
      <4> QED
        BY <3>2, <4>1 DEF HeapReads, Reads
    <3> QED
      BY <2>1, <2>3, <3>1, <3>2 DEF Cored
  <2>7. HeapReads(c) = HeapReads(h)
    BY <2>5 DEF HeapReads
  <2> QED
    BY <2>1, <2>5, <2>6, <2>7
<1>3. DOMAIN j.heap = Objects(bl) /\ j.layers = Named(bl)
  BY <1>1
<1>4. SameBlocks(bl, j)
  BY <1>2, <1>3 DEF SameBlocks
<1>5. \A o \in Objects(bl) : j.heap[o].paths = BlockAt(bl, o).paths
  BY <1>2 DEF SameAs
<1> QED
  BY <1>1, <1>3, <1>4, <1>5

\* What the cores lead to.
LEMMA CoresLead ==
    ASSUME NEW bl, NEW g, NEW i, AllCored(bl, g, i), NEW q
    PROVE  /\ q \in DOMAIN CoreToBlock(i) <=> \E n \in DOMAIN bl[K] : q \in WordsOf(bl, g, <<K, n>>)
           /\ \A o : q \in DOMAIN CoreToBlock(i) =>
                  (o \in CoreToBlock(i)[q] <=> \E n \in DOMAIN bl[K] : o = <<K, n>> /\ q \in WordsOf(bl, g, o))
<1>0. /\ BuiltRight(bl, g) /\ IsIndex(i) /\ i.layers = Named(bl) /\ DOMAIN i.heap = Objects(bl)
      /\ \A o \in Objects(bl) : Cored(bl, g, o, i.heap[o])
  BY DEF AllCored
<1> USE <1>0
<1>1. Layered(bl) /\ K \in 1..K
  BY DiameterAssumption DEF BuiltRight
<1>2. i.layers[K] = [n \in DOMAIN bl[K] |-> <<K, n>>] /\ \A n \in DOMAIN bl[K] : <<K, n>> \in Objects(bl)
  BY <1>1, PlacesNamed
<1>3. PICK L : L = LastBlocks(i)
  OBVIOUS
<1>4. L = {<<K, n>> : n \in DOMAIN bl[K]}
  BY <1>2, <1>3 DEF LastBlocks
<1> DEFINE Cores(b) == OrEmpty(i.heap[b].canonCores)
<1>5. \A b \in L : Cores(b) = WordsOf(bl, g, b)
  <2> TAKE b \in L
  <2>1. b \in Objects(bl)
    BY <1>2, <1>4
  <2>2. i.heap[b].canonCores = {WordsOf(bl, g, b)}
    BY <2>1 DEF Cored
  <2> QED
    BY <2>2 DEF OrEmpty
<1>6. CoreToBlock(i) = [core \in UNION {Cores(b) : b \in L} |-> {b \in L : core \in Cores(b)}]
  BY <1>3 DEF CoreToBlock
<1> HIDE DEF Cores
<1>7. q \in DOMAIN CoreToBlock(i) <=> \E b \in L : q \in WordsOf(bl, g, b)
  BY <1>5, <1>6
<1>8. q \in DOMAIN CoreToBlock(i) => CoreToBlock(i)[q] = {b \in L : q \in Cores(b)}
  BY <1>6
<1>9. \A o : q \in DOMAIN CoreToBlock(i) => (o \in CoreToBlock(i)[q] <=> o \in L /\ q \in WordsOf(bl, g, o))
  BY <1>5, <1>8
<1>10. \A o : o \in L <=> \E n \in DOMAIN bl[K] : o = <<K, n>>
  BY <1>4
<1> QED
  BY <1>7, <1>9, <1>10

\* They answer the queries.
LEMMA MappedAnswers ==
    ASSUME NEW bl, NEW g, NEW i, AllCored(bl, g, i), NEW j, j = Mapped(i)
    PROVE  Answers(g, j)
<1>0. BuiltRight(bl, g)
  BY DEF AllCored
<1>1. /\ j.coreToBlock = CoreToBlock(i) /\ DOMAIN j.heap = Objects(bl)
      /\ \A o \in Objects(bl) : j.heap[o].paths = BlockAt(bl, o).paths
  <2>1. SameBlocks(bl, j)
    BY MappedHeap
  <2>2. j.coreToBlock = CoreToBlock(i)
    BY MappedHeap
  <2> QED
    BY <2>1, <2>2 DEF SameBlocks, SameAs
<1>2. Layered(bl) /\ LastFits(bl, g) /\ K \in 1..K
  BY <1>0, DiameterAssumption DEF BuiltRight
<1>3. ASSUME NEW n \in DOMAIN bl[K], NEW o, o = <<K, n>>
      PROVE  /\ o \in Objects(bl) /\ o \in LastOnes(j) /\ j.heap[o].paths = bl[K][n].paths
             /\ bl[K][n].paths # {} /\ bl[K][n].paths \subseteq Pairs
             /\ \A p \in bl[K][n].paths : Words(g, K, p) = WordsOf(bl, g, o)
  <2>1. o \in Objects(bl)
    BY <1>2, <1>3, PlacesNamed
  <2>2. o[1] = K /\ BlockAt(bl, o) = bl[K][n]
    BY <1>3 DEF BlockAt
  <2>3. Sound(bl, o, bl[K][n]) /\ WordsFit(bl, g, o, bl[K][n])
    BY <1>0, <2>1, <2>2 DEF BuiltRight
  <2> QED
    BY <1>1, <2>1, <2>2, <2>3 DEF LastOnes, Sound, WordsFit
<1>4. ASSUME NEW q, NEW p \in Pairs, q \in Words(g, K, p)
      PROVE  \E n \in DOMAIN bl[K] : p \in bl[K][n].paths /\ q \in WordsOf(bl, g, <<K, n>>)
  <2>1. PICK n \in DOMAIN bl[K] : p \in bl[K][n].paths
    BY <1>2, <1>4 DEF LastFits
  <2>2. PICK o : o = <<K, n>>
    OBVIOUS
  <2>3. Words(g, K, p) = WordsOf(bl, g, o)
    BY <1>3, <2>1, <2>2
  <2> QED
    BY <1>4, <2>1, <2>2, <2>3
<1>5. ASSUME NEW q
      PROVE  q \in DOMAIN j.coreToBlock <=> IsWord(g, q)
  <2>1. q \in DOMAIN j.coreToBlock <=> \E n \in DOMAIN bl[K] : q \in WordsOf(bl, g, <<K, n>>)
    BY <1>1, CoresLead
  <2>2. ASSUME NEW n \in DOMAIN bl[K], q \in WordsOf(bl, g, <<K, n>>) PROVE \E p \in Pairs : q \in Words(g, K, p)
    <3>1. PICK p \in bl[K][n].paths : p \in Pairs
      BY <1>3
    <3>2. PICK o : o = <<K, n>>
      OBVIOUS
    <3>3. Words(g, K, p) = WordsOf(bl, g, o)
      BY <1>3, <3>2
    <3> QED
      BY <2>2, <3>1, <3>2, <3>3
  <2> QED
    BY <1>4, <2>1, <2>2 DEF IsWord
<1>6. ASSUME NEW q \in DOMAIN j.coreToBlock
      PROVE  /\ j.coreToBlock[q] \subseteq LastOnes(j)
             /\ \A p \in Pairs : (\E b \in j.coreToBlock[q] : p \in j.heap[b].paths) <=> q \in Words(g, K, p)
  <2>1. \A o : o \in j.coreToBlock[q] <=> \E n \in DOMAIN bl[K] : o = <<K, n>> /\ q \in WordsOf(bl, g, o)
    BY <1>1, CoresLead
  <2>2. j.coreToBlock[q] \subseteq LastOnes(j)
    BY <1>3, <2>1
  <2>3. ASSUME NEW p \in Pairs, NEW b \in j.coreToBlock[q], p \in j.heap[b].paths PROVE q \in Words(g, K, p)
    <3>1. PICK n \in DOMAIN bl[K] : b = <<K, n>> /\ q \in WordsOf(bl, g, b)
      BY <2>1
    <3>2. j.heap[b].paths = bl[K][n].paths /\ \A r \in bl[K][n].paths : Words(g, K, r) = WordsOf(bl, g, b)
      BY <1>3, <3>1
    <3> QED
      BY <2>3, <3>1, <3>2
  <2>4. ASSUME NEW p \in Pairs, q \in Words(g, K, p) PROVE \E b \in j.coreToBlock[q] : p \in j.heap[b].paths
    <3>1. PICK n \in DOMAIN bl[K] : p \in bl[K][n].paths /\ q \in WordsOf(bl, g, <<K, n>>)
      BY <1>4, <2>4
    <3>2. PICK o : o = <<K, n>>
      OBVIOUS
    <3>3. o \in j.coreToBlock[q] /\ j.heap[o].paths = bl[K][n].paths
      BY <1>3, <2>1, <3>1, <3>2
    <3> QED
      BY <3>1, <3>3
  <2> QED
    BY <2>2, <2>3, <2>4
<1> QED
  BY <1>5, <1>6 DEF Answers

\* The index with cores is right.
LEMMA MappedRight ==
    ASSUME Working, ToCompute = {}, coreLayer = K, NEW j, j = Mapped(index)
    PROVE  IndexRight(blocks, graph, j)
<1>1. /\ BuiltRight(blocks, graph) /\ IsIndex(index) /\ index.layers = Named(blocks)
      /\ DOMAIN index.heap = Objects(blocks) /\ index.predicates = TRUE
  BY DEF Working, Computing
<1>2. \A o \in Objects(blocks) : Cored(blocks, graph, o, index.heap[o])
  BY AllComputed
<1>3. AllCored(blocks, graph, index)
  BY <1>1, <1>2 DEF AllCored
<1>4. SameBlocks(blocks, j) /\ IsIndex(j) /\ j.predicates = TRUE /\ j.computeCores = TRUE
  BY <1>1, <1>3, MappedHeap
<1>5. Answers(graph, j)
  BY <1>3, MappedAnswers
<1>6. Arranged(j) /\ NamesRight(j) /\ RefsIn(j)
  BY <1>1, <1>4, SameIsRight
<1> QED
  BY <1>4, <1>5, <1>6 DEF IndexRight

-----------------------------------------------------------------------------
(* The invariant.  It speaks of the blocks only once the construction has  *)
(* ended, and rests on BuiltAtEnd for what they are.                       *)

PhaseRight ==
    /\ phase \in {"building", "ready", "computing"} /\ reads \in 0..MaxReads
    /\ phase # "building" => pc = "built"
    /\ phase = "building" => index = NoIndex /\ file = NoFile
    /\ phase # "computing" => coreLayer = 0 /\ computed = {}
    /\ phase = "computing" => coreLayer \in 1..K

\* The index in memory, and the file made of one as good.
MemoryRight(bl, g, ph, i, cl, done) ==
    /\ ph = "ready" => IndexRight(bl, g, i)
    /\ ph = "computing" => Computing(bl, g, i, cl, done)
FileRight(bl, g, f) ==
    f # NoFile =>
        \E i, full : IndexRight(bl, g, i) /\ full \in BOOLEAN /\ (full => i.predicates) /\ f = SavedIndex(i, full)

IndexInv ==
    /\ PhaseRight
    /\ MemoryRight(blocks, graph, phase, index, coreLayer, computed)
    /\ FileRight(blocks, graph, file)

\* What is known when a step is taken.
Standing == IndexInv /\ (pc = "built" => BuiltRight(blocks, graph))
SameBuilt == blocks' = blocks /\ graph' = graph /\ pc' = pc
SameFile == file' = file
SameReads == reads' = reads

\* It holds at first.
LEMMA InitInv == IndexInit => IndexInv
<1>1. 0 \in 0..MaxReads
  BY BoundAssumption
<1> QED
  BY <1>1 DEF IndexInit, IndexInv, PhaseRight, MemoryRight, FileRight

\* A step that leaves the blocks and the file alone keeps the file right.
LEMMA FileStays ==
    ASSUME FileRight(blocks, graph, file), SameBuilt, file' = file
    PROVE  FileRight(blocks, graph, file)'
<1>1. FileRight(blocks', graph', file')
  BY DEF SameBuilt
<1> QED
  BY <1>1 DEF FileRight

\* The variables of the construction are more than what the invariant reads of it.
LEMMA UnchangedBuilt ==
    ASSUME UNCHANGED vars
    PROVE  SameBuilt
BY DEF vars, partitionVars, blockVars, SameBuilt

\* The constructor ends.
LEMMA ConstructKeeps ==
    ASSUME Standing, Construct
    PROVE  IndexInv'
<1>1. SameBuilt /\ SameFile /\ SameReads /\ coreLayer' = coreLayer /\ computed' = computed
      /\ phase = "building" /\ pc = "built" /\ phase' = "ready"
  BY UnchangedBuilt DEF Construct, computation, SameFile, SameReads
<1>2. BuiltRight(blocks, graph) /\ PhaseRight /\ FileRight(blocks, graph, file)
  BY <1>1 DEF Standing, IndexInv
<1>3. PICK j : j = index'
  OBVIOUS
<1>4. IsIndex(j) /\ j.predicates = TRUE /\ j.computeCores = FALSE /\ j.layers = Named(blocks) /\ DOMAIN j.heap = Objects(blocks)
  BY <1>3 DEF Construct, IsIndex
<1>5. ASSUME NEW o \in Objects(blocks) PROVE Fresh(BlockAt(blocks, o), j.heap[o])
  <2>1. PICK b : b = BlockAt(blocks, o)
    OBVIOUS
  <2>2. b = blocks[o[1]][o[2]]
    BY <2>1 DEF BlockAt
  <2>3. PICK h : h = j.heap[o]
    OBVIOUS
  <2>4. h = [id |-> b.id, k |-> b.k, paths |-> b.paths,
             labels |-> IF ComputeLabels \/ b.combinations = {} THEN {b.labels} ELSE Null,
             ancestor |-> b.ancestor, combinations |-> {b.combinations}, cores |-> {{}}, canonCores |-> {{}}]
    BY <1>3, <2>2, <2>3 DEF Construct
  <2>5. IsBlock(h) /\ h.id = b.id /\ h.k = b.k /\ h.paths = b.paths /\ h.ancestor = b.ancestor
        /\ h.combinations = {b.combinations} /\ (b.combinations = {} => h.labels = {b.labels})
    BY <2>4 DEF IsBlock
  <2> QED
    BY <2>1, <2>3, <2>5 DEF Fresh, SameAs
<1>6. Plain(blocks, j)
  BY <1>4, <1>5 DEF Plain
<1>7. SameBlocks(blocks, j)
  <2>1. ASSUME NEW o \in Objects(blocks)
        PROVE  SameAs(BlockAt(blocks, o), j.heap[o]) /\ HeapReads(j.heap[o]) \subseteq Reads(BlockAt(blocks, o))
    <3>1. PICK b, h : b = BlockAt(blocks, o) /\ h = j.heap[o]
      OBVIOUS
    <3>2. Fresh(b, h)
      BY <1>5, <3>1
    <3>3. OrEmpty(h.combinations) = b.combinations /\ h.ancestor = b.ancestor
      BY <3>2 DEF Fresh, OrEmpty
    <3>4. HeapReads(h) \subseteq Reads(b)
      BY <3>3 DEF HeapReads, Reads
    <3> QED
      BY <3>1, <3>2, <3>4 DEF Fresh
  <2> QED
    BY <1>4, <2>1 DEF SameBlocks
<1>8. Arranged(j) /\ NamesRight(j) /\ RefsIn(j)
  BY <1>2, <1>7, SameIsRight
<1>9. IndexRight(blocks, graph, j)
  BY <1>4, <1>6, <1>8 DEF IndexRight
<1>10. PhaseRight'
  BY <1>1, <1>2 DEF PhaseRight, SameBuilt, SameReads
<1>11. MemoryRight(blocks, graph, phase, index, coreLayer, computed)'
  <2>1. MemoryRight(blocks', graph', phase', index', coreLayer', computed')
    BY <1>1, <1>3, <1>9 DEF MemoryRight, SameBuilt
  <2> QED
    BY <2>1 DEF MemoryRight
<1>12. FileRight(blocks, graph, file)'
  BY <1>1, <1>2, FileStays DEF SameFile
<1> QED
  BY <1>10, <1>11, <1>12 DEF IndexInv

\* The parts of the invariant put together, for a step that leaves the blocks alone.
LEMMA InvAgain ==
    ASSUME SameBuilt, PhaseRight', FileRight(blocks, graph, file'),
           MemoryRight(blocks, graph, phase', index', coreLayer', computed')
    PROVE  IndexInv'
<1>1. FileRight(blocks', graph', file') /\ MemoryRight(blocks', graph', phase', index', coreLayer', computed')
  BY DEF SameBuilt
<1> QED
  BY <1>1 DEF IndexInv, FileRight, MemoryRight

\* What holds while the cores are computed.
LEMMA WorkingNow ==
    ASSUME Standing, phase = "computing"
    PROVE  Working /\ PhaseRight /\ FileRight(blocks, graph, file) /\ pc = "built"
BY DEF Standing, IndexInv, PhaseRight, MemoryRight, Working

\* And between two operations.
LEMMA ReadyNow ==
    ASSUME Standing, phase = "ready"
    PROVE  /\ BuiltRight(blocks, graph) /\ IndexRight(blocks, graph, index)
           /\ PhaseRight /\ FileRight(blocks, graph, file) /\ pc = "built" /\ coreLayer = 0 /\ computed = {}
BY DEF Standing, IndexInv, PhaseRight, MemoryRight

\* Core computation starts.
LEMMA StartKeeps ==
    ASSUME Standing, ComputeCores
    PROVE  IndexInv'
<1>1. SameBuilt /\ phase = "ready" /\ phase' = "computing" /\ coreLayer' = 1 /\ computed' = {}
      /\ index' = index /\ file' = file /\ reads' = reads /\ ~index.computeCores /\ index.predicates
  BY UnchangedBuilt DEF ComputeCores
<1>2. BuiltRight(blocks, graph) /\ IndexRight(blocks, graph, index) /\ PhaseRight
      /\ FileRight(blocks, graph, file) /\ pc = "built"
  BY <1>1, ReadyNow
<1>3. /\ Plain(blocks, index) /\ IsIndex(index) /\ index.predicates = TRUE /\ index.computeCores = FALSE
      /\ Layered(blocks)
  BY <1>1, <1>2 DEF IndexRight, BuiltRight
<1>4. ASSUME NEW o \in Objects(blocks) PROVE ~(o[1] < 1) /\ Fresh(BlockAt(blocks, o), index.heap[o])
  <2>1. o[1] \in 1..K
    BY <1>3, PlacesNamed
  <2> QED
    BY <1>3, <2>1, DiameterAssumption DEF Plain
<1>5. Computing(blocks, graph, index, 1, {})
  BY <1>3, <1>4 DEF Computing, Plain
<1>6. 1 \in 1..K
  BY DiameterAssumption
<1>7. PhaseRight'
  BY <1>1, <1>2, <1>6 DEF PhaseRight, SameBuilt
<1>8. MemoryRight(blocks, graph, phase', index', coreLayer', computed')
  BY <1>1, <1>5 DEF MemoryRight
<1> QED
  BY <1>1, <1>2, <1>7, <1>8, InvAgain

\* A block is computed.
LEMMA ComputeKeeps ==
    ASSUME Standing, NEW o, ComputeBlock(o)
    PROVE  IndexInv'
<1>1. SameBuilt /\ phase = "computing" /\ phase' = phase /\ coreLayer' = coreLayer /\ file' = file /\ reads' = reads
  BY UnchangedBuilt DEF ComputeBlock
<1>2. Working /\ PhaseRight /\ FileRight(blocks, graph, file)
  BY <1>1, WorkingNow
<1>3. Computing(blocks, graph, index', coreLayer, computed')
  BY <1>2, ComputeGoesOn
<1>4. PhaseRight'
  BY <1>1, <1>2 DEF PhaseRight, SameBuilt
<1>5. MemoryRight(blocks, graph, phase', index', coreLayer', computed')
  BY <1>1, <1>3 DEF MemoryRight
<1> QED
  BY <1>1, <1>2, <1>4, <1>5, InvAgain

\* Or fails, which it never does.
LEMMA NeverThrows ==
    ASSUME Standing, NEW o, ComputeBlockThrows(o)
    PROVE  FALSE
<1>1. phase = "computing" /\ o \in ToCompute /\ Throws(index.heap[o])
  BY DEF ComputeBlockThrows
<1>2. Working
  BY <1>1, WorkingNow
<1>3. o \in Objects(blocks) /\ o[1] = coreLayer /\ o \notin computed
  BY <1>1, <1>2, LeftToCompute
<1> QED
  BY <1>1, <1>2, <1>3, CoresAre

\* A layer is done.
LEMMA LayerKeeps ==
    ASSUME Standing, CoreLayerDone
    PROVE  IndexInv'
<1>1. SameBuilt /\ phase = "computing" /\ phase' = phase /\ coreLayer' = coreLayer + 1 /\ computed' = {}
      /\ index' = index /\ file' = file /\ reads' = reads /\ ToCompute = {} /\ coreLayer < K
  BY UnchangedBuilt DEF CoreLayerDone
<1>2. Working /\ PhaseRight /\ FileRight(blocks, graph, file)
  BY <1>1, WorkingNow
<1>3. Computing(blocks, graph, index, coreLayer + 1, {})
  BY <1>1, <1>2, LayerGoesOn
<1>4. coreLayer + 1 \in 1..K
  BY <1>1, <1>2, DiameterAssumption DEF Working
<1>5. PhaseRight'
  BY <1>1, <1>2, <1>4 DEF PhaseRight, SameBuilt
<1>6. MemoryRight(blocks, graph, phase', index', coreLayer', computed')
  BY <1>1, <1>3 DEF MemoryRight
<1> QED
  BY <1>1, <1>2, <1>5, <1>6, InvAgain

\* All layers are.
LEMMA MapKeeps ==
    ASSUME Standing, MapCoresToBlocks
    PROVE  IndexInv'
<1>1. SameBuilt /\ phase = "computing" /\ phase' = "ready" /\ coreLayer' = 0 /\ computed' = {}
      /\ file' = file /\ reads' = reads /\ ToCompute = {} /\ coreLayer = K
  BY UnchangedBuilt DEF MapCoresToBlocks
<1>2. Working /\ PhaseRight /\ FileRight(blocks, graph, file) /\ pc = "built"
  BY <1>1, WorkingNow
<1>3. IndexRight(blocks, graph, index')
  BY <1>1, <1>2, MapIs, MappedRight
<1>4. PhaseRight'
  BY <1>1, <1>2 DEF PhaseRight, SameBuilt
<1>5. MemoryRight(blocks, graph, phase', index', coreLayer', computed')
  BY <1>1, <1>3 DEF MemoryRight
<1> QED
  BY <1>1, <1>2, <1>4, <1>5, InvAgain

\* The index is sorted, once it has cores.
LEMMA SortKeeps ==
    ASSUME Standing, Sort, ~SortsEarly
    PROVE  IndexInv'
<1>1. SameBuilt /\ phase = "ready" /\ phase' = "ready" /\ coreLayer' = coreLayer /\ computed' = computed
      /\ file' = file /\ reads' = reads /\ index.computeCores
  BY UnchangedBuilt DEF Sort, computation
<1>2. /\ IndexRight(blocks, graph, index)
      /\ PhaseRight /\ FileRight(blocks, graph, file) /\ pc = "built" /\ coreLayer = 0 /\ computed = {}
  BY <1>1, ReadyNow
<1>3. IndexRight(blocks, graph, index')
  BY <1>1, <1>2, SortIs, SortRight
<1>4. PhaseRight'
  BY <1>1, <1>2 DEF PhaseRight, SameBuilt
<1>5. MemoryRight(blocks, graph, phase', index', coreLayer', computed')
  BY <1>1, <1>3 DEF MemoryRight
<1> QED
  BY <1>1, <1>2, <1>4, <1>5, InvAgain

\* Saving, and failing to.
LEMMA WriteKeeps ==
    ASSUME Standing, NEW full \in BOOLEAN, Write(full)
    PROVE  IndexInv'
<1>1. SameBuilt /\ phase = "ready" /\ phase' = phase /\ coreLayer' = coreLayer /\ computed' = computed
      /\ index' = index /\ reads' = reads
  BY UnchangedBuilt DEF Write, computation
<1>2. IndexRight(blocks, graph, index) /\ PhaseRight
  BY <1>1, ReadyNow
<1>3. (full => index.predicates) /\ file' = SavedIndex(index, full)
  BY WriteIs
<1>4. FileRight(blocks, graph, file')
  BY <1>2, <1>3 DEF FileRight
<1>5. PhaseRight'
  BY <1>1, <1>2 DEF PhaseRight, SameBuilt
<1>6. MemoryRight(blocks, graph, phase', index', coreLayer', computed')
  BY <1>1, <1>2 DEF MemoryRight
<1> QED
  BY <1>1, <1>4, <1>5, <1>6, InvAgain

\* A failed save leaves no file.
LEMMA FailedWriteKeeps ==
    ASSUME Standing, WriteFails
    PROVE  IndexInv'
<1>1. SameBuilt /\ phase = "ready" /\ phase' = phase /\ coreLayer' = coreLayer /\ computed' = computed
      /\ index' = index /\ reads' = reads /\ file' = NoFile
  BY UnchangedBuilt DEF WriteFails, computation
<1>2. IndexRight(blocks, graph, index) /\ PhaseRight
  BY <1>1, ReadyNow
<1>3. FileRight(blocks, graph, file')
  BY <1>1 DEF FileRight
<1>4. PhaseRight'
  BY <1>1, <1>2 DEF PhaseRight, SameBuilt
<1>5. MemoryRight(blocks, graph, phase', index', coreLayer', computed')
  BY <1>1, <1>2 DEF MemoryRight
<1> QED
  BY <1>1, <1>3, <1>4, <1>5, InvAgain

\* Reading.
LEMMA ReadKeeps ==
    ASSUME Standing, Read
    PROVE  IndexInv'
<1>1. SameBuilt /\ phase = "ready" /\ phase' = phase /\ coreLayer' = coreLayer /\ computed' = computed
      /\ file' = file /\ reads' = reads + 1 /\ reads < MaxReads
  BY UnchangedBuilt DEF Read, computation
<1>2. BuiltRight(blocks, graph) /\ PhaseRight /\ FileRight(blocks, graph, file)
  BY <1>1, ReadyNow
<1>3. index' = IndexRead(file) /\ file.layers # <<>>
  BY ReadIs
<1>4. file # NoFile
  BY <1>3 DEF NoFile
<1>5. PICK i, full : IndexRight(blocks, graph, i) /\ full \in BOOLEAN /\ (full => i.predicates)
                     /\ file = SavedIndex(i, full)
  BY <1>2, <1>4 DEF FileRight
<1>6. IndexRight(blocks, graph, index')
  BY <1>2, <1>3, <1>5, ReadRight
<1>7. reads' \in 0..MaxReads
  BY <1>1, <1>2, BoundAssumption DEF PhaseRight
<1>8. PhaseRight'
  BY <1>1, <1>2, <1>7 DEF PhaseRight, SameBuilt
<1>9. MemoryRight(blocks, graph, phase', index', coreLayer', computed')
  BY <1>1, <1>6 DEF MemoryRight
<1> QED
  BY <1>1, <1>2, <1>8, <1>9, InvAgain

\* A step of the construction.
LEMMA BuildKeeps ==
    ASSUME Standing, BuildStep
    PROVE  IndexInv'
<1>1. phase = "building" /\ phase' = phase /\ index' = index /\ coreLayer' = coreLayer /\ computed' = computed
      /\ file' = file /\ reads' = reads
  BY DEF BuildStep, computation
<1>2. PhaseRight
  BY DEF Standing, IndexInv
<1>3. PhaseRight' /\ phase' = "building" /\ file' = NoFile
  BY <1>1, <1>2 DEF PhaseRight
<1> QED
  BY <1>3 DEF IndexInv, MemoryRight, FileRight

\* Nothing happens.
LEMMA StutterKeeps ==
    ASSUME Standing, UNCHANGED indexVars
    PROVE  IndexInv'
<1>1. SameBuilt /\ phase' = phase /\ index' = index /\ coreLayer' = coreLayer /\ computed' = computed
      /\ file' = file /\ reads' = reads
  BY UnchangedBuilt DEF indexVars, computation
<1>2. PhaseRight /\ MemoryRight(blocks, graph, phase, index, coreLayer, computed) /\ FileRight(blocks, graph, file)
  BY DEF Standing, IndexInv
<1>3. PhaseRight'
  BY <1>1, <1>2 DEF PhaseRight, SameBuilt
<1> QED
  BY <1>1, <1>2, <1>3, InvAgain

\* The construction that goes on under the life of an index.
LEMMA IndexBuilds == IndexSpec => Spec
<1>1. IndexInit => Init
  BY DEF IndexInit
<1>2. IndexNext \/ UNCHANGED indexVars => Next \/ UNCHANGED vars
  <2> SUFFICES ASSUME IndexNext \/ UNCHANGED indexVars PROVE Next \/ UNCHANGED vars
    OBVIOUS
  <2>1. CASE BuildStep
    BY <2>1 DEF BuildStep
  <2>2. CASE Construct
    BY <2>2 DEF Construct
  <2>3. CASE ComputeCores
    BY <2>3 DEF ComputeCores
  <2>4. CASE \E b \in Objects(blocks) : ComputeBlock(b) \/ ComputeBlockThrows(b)
    BY <2>4 DEF ComputeBlock, ComputeBlockThrows
  <2>5. CASE CoreLayerDone
    BY <2>5 DEF CoreLayerDone
  <2>6. CASE MapCoresToBlocks
    BY <2>6 DEF MapCoresToBlocks
  <2>7. CASE Sort
    BY <2>7 DEF Sort
  <2>8. CASE \E full \in BOOLEAN : Write(full)
    BY <2>8 DEF Write
  <2>9. CASE WriteFails
    BY <2>9 DEF WriteFails
  <2>10. CASE Read
    BY <2>10 DEF Read
  <2>11. CASE IndexDone \/ UNCHANGED indexVars
    BY <2>11 DEF IndexDone, indexVars
  <2> QED
    BY <2>1, <2>2, <2>3, <2>4, <2>5, <2>6, <2>7, <2>8, <2>9, <2>10, <2>11 DEF IndexNext
<1> QED
  BY <1>1, <1>2, PTL DEF IndexSpec, Spec

\* The invariant holds.
THEOREM IndexKept ==
    ASSUME ~SortsEarly
    PROVE  IndexSpec => [](IndexInv /\ (pc = "built" => BuiltRight(blocks, graph)))
<1>1. IndexInit => IndexInv
  BY InitInv
<1>2. IndexInv /\ (pc = "built" => BuiltRight(blocks, graph)) /\ (IndexNext \/ UNCHANGED indexVars) => IndexInv'
  <2> SUFFICES ASSUME Standing, IndexNext \/ UNCHANGED indexVars PROVE IndexInv'
    BY DEF Standing
  <2>1. CASE BuildStep
    BY <2>1, BuildKeeps
  <2>2. CASE Construct
    BY <2>2, ConstructKeeps
  <2>3. CASE ComputeCores
    BY <2>3, StartKeeps
  <2>4. CASE \E b \in Objects(blocks) : ComputeBlock(b) \/ ComputeBlockThrows(b)
    BY <2>4, ComputeKeeps, NeverThrows
  <2>5. CASE CoreLayerDone
    BY <2>5, LayerKeeps
  <2>6. CASE MapCoresToBlocks
    BY <2>6, MapKeeps
  <2>7. CASE Sort
    BY <2>7, SortKeeps
  <2>8. CASE \E full \in BOOLEAN : Write(full)
    BY <2>8, WriteKeeps
  <2>9. CASE WriteFails
    BY <2>9, FailedWriteKeeps
  <2>10. CASE Read
    BY <2>10, ReadKeeps
  <2>11. CASE IndexDone \/ UNCHANGED indexVars
    BY <2>11, StutterKeeps DEF IndexDone
  <2> QED
    BY <2>1, <2>2, <2>3, <2>4, <2>5, <2>6, <2>7, <2>8, <2>9, <2>10, <2>11 DEF IndexNext
<1> QED
  BY <1>1, <1>2, IndexBuilds, BuiltAtEnd, PTL DEF IndexSpec

-----------------------------------------------------------------------------
(* What follows from the invariant.                                        *)

\* Types.
LEMMA TypeFollows == Standing => IndexTypeOK
<1> SUFFICES ASSUME Standing PROVE IndexTypeOK
  OBVIOUS
<1>1. PhaseRight /\ K \in Nat \ {0}
  BY DiameterAssumption DEF Standing, IndexInv
<1>2. ASSUME phase # "building"
      PROVE  /\ DOMAIN index.layers = 1..K /\ computed \subseteq DOMAIN index.heap
             /\ \A l \in 1..K : \A n \in DOMAIN index.layers[l] : index.layers[l][n] \in DOMAIN index.heap
  <2>1. CASE phase = "ready"
    <3>1. Arranged(index) /\ computed = {}
      BY <2>1, ReadyNow DEF IndexRight
    <3>2. ASSUME NEW l \in 1..K, NEW n \in DOMAIN index.layers[l] PROVE index.layers[l][n] \in DOMAIN index.heap
      <4>1. PICK m \in Nat : InPlace(l, m, index.layers[l])
        BY <3>1 DEF Arranged
      <4>2. PICK row : row = index.layers[l]
        OBVIOUS
      <4>3. DOMAIN row = 1..m /\ \A a \in 1..m : \E h \in 1..m : row[a] = <<l, h>>
        BY <4>1, <4>2 DEF InPlace
      <4>4. PICK h \in DOMAIN row : row[n] = <<l, h>>
        BY <4>2, <4>3
      <4>5. <<l, h>> \in Objects(index.layers)
        BY <3>1, <4>2, <4>4 DEF Arranged, Objects
      <4> QED
        BY <3>1, <4>2, <4>4, <4>5 DEF Arranged
    <3> QED
      BY <3>1, <3>2 DEF Arranged
  <2>2. CASE phase = "computing"
    <3>1. /\ index.layers = Named(blocks) /\ DOMAIN index.heap = Objects(blocks) /\ Layered(blocks)
          /\ computed \subseteq DOMAIN index.heap
      BY <2>2, WorkingNow DEF Working, Computing, BuiltRight
    <3>2. ASSUME NEW l \in 1..K, NEW n \in DOMAIN index.layers[l] PROVE index.layers[l][n] \in DOMAIN index.heap
      <4>1. index.layers[l] = [m \in DOMAIN blocks[l] |-> <<l, m>>]
        BY <3>1, PlacesNamed
      <4>2. n \in DOMAIN blocks[l] /\ index.layers[l][n] = <<l, n>>
        BY <4>1
      <4> QED
        BY <3>1, <4>2, PlacesNamed
    <3> QED
      BY <3>1, <3>2, PlacesNamed
  <2> QED
    BY <1>1, <1>2, <2>1, <2>2 DEF PhaseRight
<1>3. phase = "building" <=> index.layers = <<>>
  <2>1. phase = "building" => index.layers = <<>>
    BY <1>1 DEF PhaseRight, NoIndex
  <2>2. 1 \in 1..K /\ 1 \notin DOMAIN <<>>
    BY <1>1
  <2> QED
    BY <1>2, <2>1, <2>2
<1>4. coreLayer \in 0..K /\ (coreLayer = 0 <=> phase \notin {"computing", "stuck"})
  BY <1>1 DEF PhaseRight
<1> QED
  BY <1>1, <1>2, <1>3, <1>4 DEF IndexTypeOK, PhaseRight

\* Files.
LEMMA ReadableFollows == Standing => FileReadable
<1> SUFFICES ASSUME Standing PROVE Readable(file)
  BY FileReadableIs
<1>1. FileRight(blocks, graph, file)
  BY DEF Standing, IndexInv
<1>2. CASE file = NoFile
  <2>1. Objects(file.layers) = {}
    BY <1>2 DEF NoFile, Objects
  <2> QED
    BY <2>1 DEF Readable
<1>3. CASE file # NoFile
  <2>1. PICK i, full : IndexRight(blocks, graph, i) /\ full \in BOOLEAN /\ (full => i.predicates)
                       /\ file = SavedIndex(i, full)
    BY <1>1, <1>3 DEF FileRight
  <2>2. Arranged(i) /\ NamesRight(i) /\ (i.predicates => RefsIn(i))
    BY <2>1 DEF IndexRight
  <2> QED
    BY <2>1, <2>2, SavedReadable
<1> QED
  BY <1>2, <1>3

\* Shapes.
Key(a) == IF a = None THEN None ELSE <<a[1], index.heap[a].id>>
BuiltKey(a) == IF a = None THEN None ELSE <<a[1], blocks[a[1]][a[2]].id>>
LEMMA ShapesAgree ==
    ASSUME Standing, phase = "ready", index.predicates, ~index.computeCores, NEW o \in Objects(blocks)
    PROVE  Shape(index.heap[o], o) = BuiltShape(blocks[o[1]][o[2]], o)
<1>1. Plain(blocks, index) /\ BuiltRight(blocks, graph)
  BY ReadyNow DEF IndexRight
<1>2. PICK h, b : h = index.heap[o] /\ b = blocks[o[1]][o[2]]
  OBVIOUS
<1>3. BlockAt(blocks, o) = b
  BY <1>2 DEF BlockAt
<1>4. Fresh(b, h) /\ Sound(blocks, o, b)
  BY <1>1, <1>2, <1>3 DEF Plain, BuiltRight
<1>5. h.id = b.id /\ h.k = b.k /\ h.paths = b.paths /\ h.ancestor = b.ancestor /\ OrEmpty(h.combinations) = b.combinations
  BY <1>4 DEF Fresh, SameAs, OrEmpty
<1>6. ASSUME NEW r \in Reads(b) PROVE Key(r) = BuiltKey(r)
  <2>1. r \in Objects(blocks)
    BY <1>4 DEF Sound
  <2>2. Fresh(BlockAt(blocks, r), index.heap[r])
    BY <1>1, <2>1 DEF Plain
  <2>3. index.heap[r].id = blocks[r[1]][r[2]].id
    BY <2>2 DEF Fresh, SameAs, BlockAt
  <2> QED
    BY <2>3 DEF Key, BuiltKey
<1>7. Key(h.ancestor) = BuiltKey(b.ancestor)
  <2>1. CASE b.ancestor = None
    BY <1>5, <2>1 DEF Key, BuiltKey
  <2>2. CASE b.ancestor # None
    <3>1. b.ancestor \in Reads(b)
      BY <2>2 DEF Reads
    <3> QED
      BY <1>5, <1>6, <3>1
  <2> QED
    BY <2>1, <2>2
<1>8. \A c \in b.combinations : Key(c[1]) = BuiltKey(c[1]) /\ Key(c[2]) = BuiltKey(c[2])
  BY <1>6 DEF Reads
<1>9. {<<Key(c[1]), Key(c[2])>> : c \in b.combinations} = {<<BuiltKey(c[1]), BuiltKey(c[2])>> : c \in b.combinations}
  BY <1>8
<1>10. Shape(h, o) = [layer |-> o[1], id |-> h.id, k |-> h.k, paths |-> h.paths, ancestor |-> Key(h.ancestor),
                      combinations |-> {<<Key(c[1]), Key(c[2])>> : c \in OrEmpty(h.combinations)}]
  BY DEF Shape, Key
<1>11. BuiltShape(b, o) =
           [layer |-> o[1], id |-> b.id, k |-> b.k, paths |-> b.paths, ancestor |-> BuiltKey(b.ancestor),
            combinations |-> {<<BuiltKey(c[1]), BuiltKey(c[2])>> : c \in b.combinations}]
  BY DEF BuiltShape, BuiltKey
<1> QED
  BY <1>2, <1>5, <1>7, <1>9, <1>10, <1>11

\* What is read back has the shapes that were built.
LEMMA BackSameFollows == Standing => ReadBackSame
<1> SUFFICES ASSUME Standing, phase = "ready", index.predicates, ~index.computeCores
             PROVE  {Shape(index.heap[b], b) : b \in DOMAIN index.heap} =
                        {BuiltShape(blocks[b[1]][b[2]], b) : b \in Objects(blocks)}
  BY DEF ReadBackSame
<1>1. DOMAIN index.heap = Objects(blocks)
  BY ReadyNow DEF IndexRight, Plain
<1>2. \A o \in Objects(blocks) : Shape(index.heap[o], o) = BuiltShape(blocks[o[1]][o[2]], o)
  BY ShapesAgree
<1> QED
  BY <1>1, <1>2

\* The words of a query.
LEMMA WordLength ==
    ASSUME graph \in Graphs, NEW p \in Pairs, NEW q \in Words(graph, K, p)
    PROVE  Len(q) \in 1..K
<1>1. PICK j \in 1..K : q \in LabelsOf(j, p)
  BY WordsAre
<1>2. PICK u \in Vertex, v \in Vertex : p = <<u, v>>
  BY DEF Pairs
<1>3. Len(q) = j
  BY <1>1, <1>2, LabelsLength
<1> QED
  BY <1>3

\* The walks marked with a word of their length are those of the pairs that have it.
LEMMA WordWalk ==
    ASSUME graph \in Graphs, NEW p \in Pairs, NEW q
    PROVE  q \in Words(graph, K, p) <=>
               Len(q) \in 1..K /\ \E w \in LW(graph)[Len(q)] : w[1] = p /\ w[2] = q
<1>1. PICK u \in Vertex, v \in Vertex : p = <<u, v>>
  BY DEF Pairs
<1>2. ASSUME q \in Words(graph, K, p)
      PROVE  Len(q) \in 1..K /\ \E w \in LW(graph)[Len(q)] : w[1] = p /\ w[2] = q
  <2>1. PICK j \in 1..K : q \in LabelsOf(j, p)
    BY <1>2, WordsAre
  <2>2. Len(q) = j
    BY <1>1, <2>1, LabelsLength
  <2>3. \E w \in LW(graph)[j] : w[1] = p /\ w[2] = q
    BY <2>1 DEF LabelsOf
  <2> QED
    BY <2>2, <2>3
<1>3. ASSUME Len(q) \in 1..K, \E w \in LW(graph)[Len(q)] : w[1] = p /\ w[2] = q
      PROVE  q \in Words(graph, K, p)
  BY <1>3, WordIs
<1> QED
  BY <1>2, <1>3

\* What a walk is marked with is a word.
LEMMA WalkWord ==
    ASSUME graph \in Graphs, NEW l \in 1..K, NEW w \in LW(graph)[l]
    PROVE  w[1] \in Pairs /\ IsWord(graph, w[2])
<1>1. w \in Marked
  BY LabelTypes
<1>2. w[1] \in Pairs
  BY <1>1 DEF Marked
<1>3. w[2] \in Words(graph, K, w[1])
  BY WordIs
<1> QED
  BY <1>2, <1>3 DEF IsWord

\* Queries.
LEMMA ExactFollows == Standing => QueriesExact
<1> SUFFICES ASSUME Standing, index.computeCores,
                    NEW q \in DOMAIN index.coreToBlock \cup UNION {{w[2] : w \in LW(graph)[l]} : l \in 1..K}
             PROVE  /\ q \in DOMAIN index.coreToBlock /\ Len(q) \in 1..K
                    /\ \A b \in index.coreToBlock[q] : b \in LastBlocks(index)
                    /\ UNION {index.heap[b].paths : b \in index.coreToBlock[q]} =
                           {w[1] : w \in {w \in LW(graph)[Len(q)] : w[2] = q}}
  BY DEF QueriesExact, LW
<1>1. phase = "ready"
  <2>1. phase # "building"
    BY DEF Standing, IndexInv, PhaseRight, NoIndex
  <2>2. phase # "computing"
    BY WorkingNow DEF Working, Computing
  <2> QED
    BY <2>1, <2>2 DEF Standing, IndexInv, PhaseRight
<1>2. IndexRight(blocks, graph, index) /\ graph \in Graphs
  BY <1>1, ReadyNow DEF BuiltRight
<1>3. Arranged(index) /\ NamesRight(index) /\ Answers(graph, index)
  BY <1>2 DEF IndexRight
<1>4. LastBlocks(index) = LastOnes(index)
  <2>1. K \in 1..K
    BY DiameterAssumption
  <2>2. PICK m \in Nat : InPlace(K, m, index.layers[K])
    BY <1>3, <2>1 DEF Arranged
  <2> QED
    BY <1>3, <2>2, LastBlocksAre
<1>5. IsWord(graph, q)
  <2>1. CASE q \in DOMAIN index.coreToBlock
    BY <1>3, <2>1 DEF Answers
  <2>2. CASE q \in UNION {{w[2] : w \in LW(graph)[l]} : l \in 1..K}
    <3>1. PICK l \in 1..K : \E w \in LW(graph)[l] : q = w[2]
      BY <2>2
    <3> QED
      BY <1>2, <3>1, WalkWord
  <2> QED
    BY <2>1, <2>2
<1>6. q \in DOMAIN index.coreToBlock /\ Len(q) \in 1..K
  <2>1. PICK p \in Pairs : q \in Words(graph, K, p)
    BY <1>5 DEF IsWord
  <2>2. Len(q) \in 1..K
    BY <1>2, <2>1, WordLength
  <2> QED
    BY <1>3, <1>5, <2>2 DEF Answers
<1> DEFINE F == index.coreToBlock[q]
           Lq == LW(graph)[Len(q)]
<1>7. F \subseteq LastOnes(index)
  BY <1>3, <1>6 DEF Answers
<1>8. \A p \in Pairs : (\E b \in F : p \in index.heap[b].paths) <=> q \in Words(graph, K, p)
  BY <1>3, <1>6 DEF Answers
<1>9. \A p \in Pairs : q \in Words(graph, K, p) <=> \E w \in Lq : w[1] = p /\ w[2] = q
  BY <1>2, <1>6, WordWalk
<1>10. \A b \in F : index.heap[b].paths \subseteq Pairs
  BY <1>3, <1>7 DEF NamesRight, LastOnes
<1>11. \A w \in Lq : w[1] \in Pairs
  BY <1>2, <1>6, WalkWord
<1> HIDE DEF F, Lq
<1>12. UNION {index.heap[b].paths : b \in F} = {w[1] : w \in {w \in Lq : w[2] = q}}
  <2>1. ASSUME NEW p \in UNION {index.heap[b].paths : b \in F} PROVE \E w \in Lq : w[1] = p /\ w[2] = q
    BY <1>8, <1>9, <1>10
  <2>2. ASSUME NEW w \in Lq, w[2] = q PROVE \E b \in F : w[1] \in index.heap[b].paths
    BY <1>8, <1>9, <1>11, <2>2
  <2> QED
    BY <2>1, <2>2
<1> QED
  BY <1>4, <1>6, <1>7, <1>12 DEF F, Lq

-----------------------------------------------------------------------------
(* Theorems.                                                               *)

\* A file is as good as the index it was made of: Index.write saves ids that Index(InputStream)
\* has room for and that lead back to the blocks written, so an index read back is the one built.
THEOREM FilesAreFaithful ==
    ASSUME ~SortsEarly
    PROVE  IndexSpec => []FileFaithful
<1>1. Standing => FileFaithful
  BY TypeFollows, ReadableFollows, BackSameFollows DEF FileFaithful
<1> QED
  BY <1>1, IndexKept, PTL DEF Standing

\* Index.query finds for a label sequence exactly the pairs it connects, in an index whose cores
\* were computed, whatever was then saved, read back and sorted.
THEOREM QueriesAreExact ==
    ASSUME ~SortsEarly
    PROVE  IndexSpec => []QueriesExact
BY ExactFollows, IndexKept, PTL DEF Standing

\* Index.computeCores never reads the cores of a block that has none, so each layer is finished.
THEOREM ComputationsEnd ==
    ASSUME ~SortsEarly
    PROVE  IndexSpec => []ComputationEnds
<1>1. Standing => ComputationEnds
  BY DEF Standing, IndexInv, PhaseRight, ComputationEnds
<1> QED
  BY <1>1, IndexKept, PTL DEF Standing
==============================================================================
