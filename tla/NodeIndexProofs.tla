--------------------------- MODULE NodeIndexProofs ---------------------------
(***************************************************************************)
(* Proofs about NodeIndex, for any block tree, any number of nodes kept in *)
(* memory and any order of calls and restarts.  That the stored main chain *)
(* has no gap holds whatever was pruned; that the nodes in memory agree    *)
(* with each other and with the database, and that a reorganization gains  *)
(* work, holds as long as no fork was deep.                                *)
(***************************************************************************)
EXTENDS NodeIndex, BlockTreeProofs

\* n is one of the nodes created so far, as c counts them.
Made(n, c) == n[2] <= c[HashOf(n)]

(***************************************************************************)
(* The nodes, whatever was pruned: a parent pointer leads to a node of the *)
(* parent block, and a node that was not created yet is not in use.        *)
(***************************************************************************)
LinksDown ==
  \A n \in Nodes :
    parent[n] # NoNode =>
      HashOf(n) # Genesis /\ HashOf(parent[n]) = Parent[HashOf(n)]

NodesInv ==
  /\ LinksDown
  /\ \A h \in Blocks : Indexed(h) => HashOf(index[h]) = h /\ Made(index[h], created)
  /\ \A h \in Blocks \cup {NoBlock} : \A n \in ToSet(depNodes[h]) :
       ParentHash(HashOf(n)) = h /\ Made(n, created)
  /\ \A n \in Nodes :
       ~Made(n, created) => parent[n] = NoNode /\ children[n] = {} /\ n \notin inMainChain

\* What a call holds on to between its steps.
CallInv ==
  /\ pc \in {"check", "reload", "recheck", "compare"} =>
       block \in Blocks \ {Genesis} /\ block \notin db
  /\ pc \in {"check", "reload", "recheck"} =>
       /\ ~Indexed(block) /\ prevNode \in Nodes
       /\ HashOf(prevNode) = Parent[block] /\ Made(prevNode, created)
  /\ pc \in {"check", "recheck"} => iterNode \in Nodes
  /\ pc = "compare" =>
       index[block] \in Nodes \ inMainChain /\ parent[index[block]] # NoNode

\* The detach list goes down from the end of the main chain, over nodes with a parent.
ListsInv ==
  pc = "reorganize" =>
    /\ attachNodes # <<>>
    /\ \A i \in 1 .. Len(attachNodes) : parent[attachNodes[i]] # NoNode
    /\ detachNodes # <<>> => detachNodes[1] = bestChain
    /\ \A i \in 1 .. Len(detachNodes) : parent[detachNodes[i]] # NoNode
    /\ \A i \in 1 .. Len(detachNodes) - 1 : detachNodes[i + 1] = parent[detachNodes[i]]

Inv == TypeOK /\ NodesInv /\ CallInv /\ ListsInv /\ StoredChainLinked

-----------------------------------------------------------------------------
(***************************************************************************)
(* Nodes, sequences and blocks.                                            *)
(***************************************************************************)
LEMMA NodeFacts ==
  /\ \A n \in Nodes : HashOf(n) \in Blocks /\ n[2] \in 1 .. MaxNodes /\ n = <<HashOf(n), n[2]>>
  /\ \A h \in Blocks : \A k \in 1 .. MaxNodes : <<h, k>> \in Nodes /\ HashOf(<<h, k>>) = h
  /\ NoNode \notin Nodes
BY IndexAssumption DEF Nodes, HashOf

\* The block at the end of a chain is the highest.
LEMMA HighestOfChain ==
  ASSUME NEW b \in Blocks
  PROVE  Highest(Ancestry[b]) = b
<1>1. b \in Ancestry[b] /\ \A c \in Ancestry[b] : Height[c] <= Height[b]
  BY ChainsAreChains DEF ChainFacts
<1>2. /\ Highest(Ancestry[b]) \in Ancestry[b]
      /\ \A c \in Ancestry[b] : Height[c] <= Height[Highest(Ancestry[b])]
  BY <1>1, HasHighest
<1>3. Height[Highest(Ancestry[b])] = Height[b]
  <2>1. \A c \in Ancestry[b] : Height[c] \in Nat
    BY TreeAssumption
  <2>. QED
    BY <1>1, <1>2, <2>1
<1>. QED
  BY <1>1, <1>2, <1>3, ChainMembers

\* The heights of a block tree have a bound.
LEMMA HeightsAreBounded == \E k \in Nat : \A b \in Blocks : Height[b] < k
<1>. DEFINE Above(k) == {b \in Blocks : Height[b] >= k}
            C == {Above(k) : k \in Nat}
<1>0. Height \in [Blocks -> Nat] /\ IsFiniteSet(Blocks)
  BY TreeAssumption
<1>1. \A k \in Nat : IsFiniteSet(Above(k))
  BY <1>0, FS_Subset
<1>2. PICK k \in Nat : \A j \in Nat : Cardinality(Above(k)) <= Cardinality(Above(j))
  <2>1. C # {} /\ \A S \in C : IsFiniteSet(S)
    BY <1>1
  <2>. HIDE DEF C
  <2>2. PICK S \in C : \A T \in C : Cardinality(S) <= Cardinality(T)
    BY <2>1, SmallestSet
  <2>. QED
    BY <2>2 DEF C
<1>3. ASSUME NEW b \in Above(k) PROVE FALSE
  <2>. DEFINE j == Height[b] + 1
  <2>1. j \in Nat /\ Above(j) \subseteq Above(k) /\ b \notin Above(j)
    BY <1>0
  <2>. HIDE DEF Above, j
  <2>2. Cardinality(Above(j)) <= Cardinality(Above(k)) /\ Above(j) # Above(k)
    BY <1>1, <1>3, <2>1, FS_Subset
  <2>3. Cardinality(Above(k)) # Cardinality(Above(j))
    BY <1>1, <2>1, <2>2, FS_Subset
  <2>4. Cardinality(Above(k)) \in Nat /\ Cardinality(Above(j)) \in Nat
    BY <1>1, <2>1, FS_CardinalityType
  <2>. QED
    BY <1>2, <2>1, <2>2, <2>3, <2>4
<1>. QED
  BY <1>0, <1>3

\* Where Before and ForkNode stop: the first member that passes the test.
LEMMA FirstOf ==
  ASSUME NEW I \in SUBSET Nat, I # {}
  PROVE  Min(I) \in I /\ \A i \in I : Min(I) <= i
BY LeastElement DEF Min

LEMMA LargerOfTwo ==
  ASSUME NEW a \in Nat, NEW b \in Nat
  PROVE  Max({a, b}) \in {a, b} /\ Max({a, b}) >= a /\ Max({a, b}) >= b
<1>1. \E x \in {a, b} : \A y \in {a, b} : x >= y
  OBVIOUS
<1>2. Max({a, b}) \in {a, b} /\ \A y \in {a, b} : Max({a, b}) >= y
  BY <1>1 DEF Max
<1>. QED
  BY <1>2

\* SetToSeq lists the members of a finite set.
LEMMA ListOfSet ==
  ASSUME NEW S, IsFiniteSet(S)
  PROVE  SetToSeq(S) \in Seq(S) /\ ToSet(SetToSeq(S)) = S
<1>. DEFINE n == Cardinality(S)
            s == SetToSeq(S)
<1>1. n \in Nat /\ \E f : f \in Bijection(1 .. n, S)
  BY FS_CardinalityType DEF ExistsBijection
<1>2. \E f \in [1 .. n -> S] : IsInjective(f)
  BY <1>1 DEF Bijection, Injection
<1>3. s \in [1 .. n -> S] /\ IsInjective(s)
  BY <1>2 DEF SetToSeq
<1>4. s \in Surjection(1 .. n, S)
  <2>1. s \in Injection(1 .. n, S)
    BY <1>3 DEF Injection
  <2>2. IsFiniteSet(1 .. n) /\ Cardinality(1 .. n) = n
    BY <1>1, FS_Interval
  <2>. HIDE DEF s
  <2>. QED
    BY <2>1, <2>2, FS_Injection
<1>. HIDE DEF s, n
<1>5. s \in Seq(S) /\ DOMAIN s = 1 .. n
  BY <1>1, <1>3
<1>6. ToSet(s) = S
  BY <1>3, <1>4, <1>5 DEF ToSet, Surjection
<1>. QED
  BY <1>5, <1>6 DEF s

-----------------------------------------------------------------------------
(***************************************************************************)
(* The line of a node, over its parents, down to one that has none.        *)
(***************************************************************************)
LEMMA ParentIsLower ==
  ASSUME parent \in [Nodes -> Nodes \cup {NoNode}], LinksDown, NEW n \in Nodes, parent[n] # NoNode
  PROVE  /\ parent[n] \in Nodes /\ HashOf(n) \in Blocks \ {Genesis}
         /\ HashOf(parent[n]) = Parent[HashOf(n)] /\ Parent[HashOf(n)] \in Blocks
         /\ Height[HashOf(n)] = Height[HashOf(parent[n])] + 1
         /\ Height[HashOf(n)] \in Nat /\ Height[HashOf(parent[n])] \in Nat
         /\ Ancestry[HashOf(n)] = Ancestry[Parent[HashOf(n)]] \cup {HashOf(n)}
<1>1. parent[n] \in Nodes /\ HashOf(n) \in Blocks \ {Genesis}
      /\ HashOf(parent[n]) = Parent[HashOf(n)]
  BY NodeFacts DEF LinksDown
<1>. QED
  BY <1>1, TreeAssumption

\* f is a solution of the recursion of the line, for the nodes lower than k.
Lower(k) == {n \in Nodes : Height[HashOf(n)] < k}
Lines(f, k) ==
  f = [m \in Lower(k) |-> IF parent[m] = NoNode THEN <<m>> ELSE <<m>> \o f[parent[m]]]

LEMMA HaveLines ==
  ASSUME parent \in [Nodes -> Nodes \cup {NoNode}], LinksDown
  PROVE  \A k \in Nat : \E f : Lines(f, k)
<1>. DEFINE S == {k \in Nat : \E f : Lines(f, k)}
<1>1. 0 \in S
  <2>1. Lower(0) = {}
    BY NodeFacts, TreeAssumption DEF Lower
  <2>2. Lines([m \in Lower(0) |-> <<m>>], 0)
    BY <2>1 DEF Lines
  <2>. QED
    BY <2>2
<1>2. ASSUME NEW k \in Nat, k \in S PROVE k + 1 \in S
  <2>1. PICK f : Lines(f, k)
    BY <1>2
  <2>. DEFINE g == [m \in Lower(k + 1) |->
                      IF parent[m] = NoNode THEN <<m>> ELSE <<m>> \o f[parent[m]]]
  <2>2. ASSUME NEW m \in Lower(k) PROVE m \in Lower(k + 1) /\ g[m] = f[m]
    <3>1. m \in Lower(k + 1)
      BY NodeFacts, TreeAssumption DEF Lower
    <3>. QED
      BY <2>1, <3>1 DEF Lines
  <2>3. ASSUME NEW m \in Lower(k + 1), parent[m] # NoNode PROVE parent[m] \in Lower(k)
    BY <2>3, ParentIsLower DEF Lower
  <2>4. Lines(g, k + 1)
    BY <2>2, <2>3 DEF Lines
  <2>. QED
    BY <2>4
<1>. HIDE DEF S
<1>3. Nat \subseteq S
  BY <1>1, <1>2, NaturalInduction
<1>. QED
  BY <1>3 DEF S

LEMMA LineUnfolds ==
  ASSUME parent \in [Nodes -> Nodes \cup {NoNode}], LinksDown, NEW n \in Nodes
  PROVE  Line(n) = IF parent[n] = NoNode THEN <<n>> ELSE <<n>> \o Line(parent[n])
<1>1. PICK k \in Nat : \A b \in Blocks : Height[b] < k
  BY HeightsAreBounded
<1>2. Lower(k) = Nodes
  BY <1>1, NodeFacts DEF Lower
<1>. DEFINE Solves(f) ==
              f = [m \in Nodes |-> IF parent[m] = NoNode THEN <<m>> ELSE <<m>> \o f[parent[m]]]
            line == CHOOSE f : Solves(f)
<1>3. \E f : Solves(f)
  BY <1>2, HaveLines DEF Lines
<1>4. Solves(line)
  <2>. HIDE DEF Solves
  <2>. QED
    BY <1>3
<1>5. \A m : Line(m) = line[m]
  BY DEF Line
<1>. HIDE DEF line
<1>. QED
  BY <1>4, <1>5

\* s goes down from n to a node without a parent.
IsLine(s, n) ==
  /\ s \in Seq(Nodes) /\ Len(s) \in Nat \ {0} /\ s[1] = n
  /\ \A i \in 1 .. Len(s) - 1 : parent[s[i]] # NoNode /\ s[i + 1] = parent[s[i]]
  /\ parent[s[Len(s)]] = NoNode
  /\ \A i \in 1 .. Len(s) : /\ HashOf(s[i]) \in Ancestry[HashOf(n)]
                            /\ Height[HashOf(s[i])] + i = Height[HashOf(n)] + 1

LEMMA LineFacts ==
  ASSUME parent \in [Nodes -> Nodes \cup {NoNode}], LinksDown
  PROVE  \A n \in Nodes : IsLine(Line(n), n)
<1>. DEFINE S == {k \in Nat : \A n \in Nodes : Height[HashOf(n)] = k => IsLine(Line(n), n)}
<1>0. \A n \in Nodes : HashOf(n) \in Blocks /\ HashOf(n) \in Ancestry[HashOf(n)]
                       /\ Height[HashOf(n)] \in Nat
  BY NodeFacts, ChainsAreChains, TreeAssumption DEF ChainFacts
<1>1. ASSUME NEW n \in Nodes, parent[n] = NoNode
      PROVE  IsLine(Line(n), n)
  <2>. DEFINE s == <<n>>
  <2>1. Line(n) = s
    BY <1>1, LineUnfolds
  <2>2. s \in Seq(Nodes) /\ Len(s) = 1 /\ s[1] = n
    OBVIOUS
  <2>. HIDE DEF s
  <2>3. IsLine(s, n)
    BY <1>0, <1>1, <2>2 DEF IsLine
  <2>. QED
    BY <2>1, <2>3
<1>2. ASSUME NEW n \in Nodes, parent[n] # NoNode, IsLine(Line(parent[n]), parent[n])
      PROVE  IsLine(Line(n), n)
  <2>. DEFINE t == Line(parent[n])
              s == <<n>> \o t
  <2>1. Line(n) = s
    BY <1>2, LineUnfolds
  <2>2. /\ parent[n] \in Nodes /\ Height[HashOf(n)] = Height[HashOf(parent[n])] + 1
        /\ Height[HashOf(parent[n])] \in Nat
        /\ Ancestry[HashOf(parent[n])] \subseteq Ancestry[HashOf(n)]
    BY <1>2, ParentIsLower
  <2>3. t \in Seq(Nodes) /\ Len(t) \in Nat \ {0} /\ t[1] = parent[n]
    BY <1>2 DEF IsLine
  <2>4. /\ \A i \in 1 .. Len(t) - 1 : parent[t[i]] # NoNode /\ t[i + 1] = parent[t[i]]
        /\ parent[t[Len(t)]] = NoNode
        /\ \A i \in 1 .. Len(t) : /\ HashOf(t[i]) \in Ancestry[HashOf(parent[n])]
                                  /\ Height[HashOf(t[i])] + i = Height[HashOf(parent[n])] + 1
    BY <1>2 DEF IsLine
  <2>. HIDE DEF t
  <2>5. /\ s \in Seq(Nodes) /\ Len(s) = Len(t) + 1 /\ s[1] = n
        /\ \A i \in 1 .. Len(t) : s[i + 1] = t[i]
    BY <2>3
  <2>. HIDE DEF s
  <2>6. ASSUME NEW i \in 1 .. Len(s) - 1
        PROVE  parent[s[i]] # NoNode /\ s[i + 1] = parent[s[i]]
    <3>1. CASE i = 1
      BY <1>2, <2>3, <2>5, <3>1
    <3>2. CASE i # 1
      <4>1. i - 1 \in 1 .. Len(t) - 1 /\ (i - 1) + 1 = i /\ i \in 1 .. Len(t) /\ i - 1 \in 1 .. Len(t)
        BY <2>3, <2>5, <3>2
      <4>2. s[i] = t[i - 1] /\ s[i + 1] = t[i]
        BY <2>5, <4>1
      <4>3. parent[t[i - 1]] # NoNode /\ t[i] = parent[t[i - 1]]
        BY <2>4, <4>1
      <4>. QED
        BY <4>2, <4>3
    <3>. QED
      BY <3>1, <3>2
  <2>7. parent[s[Len(s)]] = NoNode
    <3>1. s[Len(s)] = t[Len(t)]
      BY <2>3, <2>5
    <3>. QED
      BY <2>4, <3>1
  <2>8. ASSUME NEW i \in 1 .. Len(s)
        PROVE  /\ HashOf(s[i]) \in Ancestry[HashOf(n)]
               /\ Height[HashOf(s[i])] + i = Height[HashOf(n)] + 1
    <3>1. CASE i = 1
      BY <1>0, <2>5, <3>1
    <3>2. CASE i # 1
      <4>1. i - 1 \in 1 .. Len(t) /\ s[i] = t[i - 1]
        <5>1. i - 1 \in 1 .. Len(t) /\ (i - 1) + 1 = i
          BY <2>3, <2>5, <3>2
        <5>. QED
          BY <2>5, <5>1
      <4>2. /\ HashOf(t[i - 1]) \in Ancestry[HashOf(parent[n])]
            /\ Height[HashOf(t[i - 1])] + (i - 1) = Height[HashOf(parent[n])] + 1
        BY <2>4, <4>1
      <4>3. HashOf(t[i - 1]) \in Blocks
        BY <2>3, <4>1, NodeFacts
      <4>4. Height[HashOf(t[i - 1])] \in Nat
        BY <4>3, TreeAssumption
      <4>5. HashOf(s[i]) \in Ancestry[HashOf(n)]
        BY <2>2, <4>1, <4>2
      <4>6. Height[HashOf(s[i])] + i = Height[HashOf(n)] + 1
        <5>1. i \in Nat
          BY <2>3, <2>5
        <5>2. Height[HashOf(s[i])] = Height[HashOf(t[i - 1])]
          BY <4>1
        <5>. QED
          BY <2>2, <4>2, <4>4, <5>1, <5>2
      <4>. QED
        BY <4>5, <4>6
    <3>. QED
      BY <3>1, <3>2
  <2>. QED
    BY <2>1, <2>3, <2>5, <2>6, <2>7, <2>8 DEF IsLine
<1>3. 0 \in S
  <2>. SUFFICES ASSUME NEW n \in Nodes, Height[HashOf(n)] = 0 PROVE parent[n] = NoNode
    BY <1>1
  <2>. QED
    BY ParentIsLower
<1>4. ASSUME NEW k \in Nat, k \in S PROVE k + 1 \in S
  <2>. SUFFICES ASSUME NEW n \in Nodes, Height[HashOf(n)] = k + 1, parent[n] # NoNode
                PROVE  IsLine(Line(n), n)
    BY <1>1
  <2>1. parent[n] \in Nodes /\ Height[HashOf(parent[n])] = k
    BY ParentIsLower
  <2>. QED
    BY <1>2, <1>4, <2>1
<1>. HIDE DEF S
<1>5. Nat \subseteq S
  BY <1>3, <1>4, NaturalInduction
<1>. QED
  BY <1>0, <1>5 DEF S


-----------------------------------------------------------------------------
(***************************************************************************)
(* Where the walks of a reorganization stop.                               *)
(***************************************************************************)
LEMMA BeforeFacts ==
  ASSUME NEW line, NEW n, NEW stops, IsLine(line, n)
  PROVE  LET s == Before(line, stops)
         IN  /\ s \in Seq(Nodes) /\ Len(s) \in 0 .. Len(line) - 1
             /\ \A i \in 1 .. Len(s) : /\ s[i] = line[i] /\ s[i] \notin stops
                                       /\ parent[s[i]] # NoNode
             /\ \/ line[Len(s) + 1] \in stops
                \/ parent[line[Len(s) + 1]] = NoNode
<1>. DEFINE I == {i \in 1 .. Len(line) : line[i] \in stops \/ parent[line[i]] = NoNode}
            k == Min(I)
<1>1. Len(line) \in Nat \ {0} /\ line \in Seq(Nodes) /\ parent[line[Len(line)]] = NoNode
  BY DEF IsLine
<1>2. Len(line) \in I
  BY <1>1
<1>3. SelectInSeq(line, LAMBDA m : m \in stops \/ parent[m] = NoNode) = k
  BY <1>2 DEF SelectInSeq
<1>4. k \in I /\ \A i \in I : k <= i
  <2>1. I \in SUBSET Nat /\ I # {}
    BY <1>1, <1>2
  <2>. HIDE DEF I
  <2>. QED
    BY <2>1, FirstOf
<1>5. Before(line, stops) = SubSeq(line, 1, k - 1)
  BY <1>3 DEF Before
<1>. DEFINE s == SubSeq(line, 1, k - 1)
<1>6. k \in 1 .. Len(line) /\ (line[k] \in stops \/ parent[line[k]] = NoNode)
  BY <1>4
<1>7. \A i \in 1 .. k - 1 : i \in 1 .. Len(line) /\ i \notin I
  BY <1>1, <1>4, <1>6
<1>8. \A i \in 1 .. k - 1 : line[i] \notin stops /\ parent[line[i]] # NoNode
  BY <1>7
<1>. HIDE DEF I, k
<1>9. s \in Seq(Nodes) /\ Len(s) = k - 1 /\ \A i \in 1 .. k - 1 : s[i] = line[i]
  BY <1>1, <1>6
<1>. HIDE DEF s
<1>10. Before(line, stops) = s
  BY <1>5 DEF s
<1>11. Len(s) + 1 = k /\ Len(s) \in 0 .. Len(line) - 1
  BY <1>1, <1>6, <1>9
<1>. QED
  BY <1>6, <1>8, <1>9, <1>10, <1>11


-----------------------------------------------------------------------------
(***************************************************************************)
(* A node is created.                                                      *)
(***************************************************************************)
LEMMA MakesNode ==
  ASSUME created \in [Blocks -> 0 .. MaxNodes], NEW h \in Blocks, Creates(h)
  PROVE  /\ NewNode(h) \in Nodes /\ HashOf(NewNode(h)) = h /\ NewNode(h) # NoNode
         /\ ~Made(NewNode(h), created) /\ Made(NewNode(h), created')
         /\ created' \in [Blocks -> 0 .. MaxNodes]
         /\ \A m \in Nodes : Made(m, created) => Made(m, created')
<1>. DEFINE k == created[h] + 1
<1>1. MaxNodes \in Nat /\ created[h] \in Nat /\ k \in 1 .. MaxNodes
  BY IndexAssumption DEF Creates
<1>2. NewNode(h) = <<h, k>> /\ NewNode(h)[2] = k
  BY DEF NewNode
<1>3. created' = [created EXCEPT ![h] = k]
  BY DEF Creates
<1>4. NewNode(h) \in Nodes /\ HashOf(NewNode(h)) = h /\ NewNode(h) # NoNode
  BY <1>1, <1>2, NodeFacts
<1>5. ~Made(NewNode(h), created) /\ Made(NewNode(h), created')
  BY <1>1, <1>2, <1>3, <1>4 DEF Made
<1>6. created' \in [Blocks -> 0 .. MaxNodes]
  BY <1>1, <1>3
<1>7. ASSUME NEW m \in Nodes, Made(m, created) PROVE Made(m, created')
  <2>1. m[2] \in Nat /\ HashOf(m) \in Blocks /\ m[2] <= created[HashOf(m)]
    BY <1>7, <1>1, NodeFacts DEF Made
  <2>. QED
    BY <1>1, <1>3, <2>1 DEF Made
<1>. QED
  BY <1>4, <1>5, <1>6, <1>7

\* The part of the state that the creation of nodes works on.
MemTypes ==
  /\ created \in [Blocks -> 0 .. MaxNodes]
  /\ parent \in [Nodes -> Nodes \cup {NoNode}]
  /\ children \in [Nodes -> SUBSET Nodes]
  /\ inMainChain \subseteq Nodes
  /\ index \in [Blocks -> Nodes \cup {NoNode}]
  /\ depNodes \in [Blocks \cup {NoBlock} -> Seq(Nodes)]

LEMMA AppendedNode ==
  ASSUME depNodes \in [Blocks \cup {NoBlock} -> Seq(Nodes)],
         NEW k \in Blocks \cup {NoBlock}, NEW n \in Nodes,
         depNodes' = [depNodes EXCEPT ![k] = Append(@, n)]
  PROVE  /\ depNodes' \in [Blocks \cup {NoBlock} -> Seq(Nodes)]
         /\ ToSet(depNodes'[k]) = ToSet(depNodes[k]) \cup {n}
         /\ \A g \in Blocks \cup {NoBlock} : g # k => depNodes'[g] = depNodes[g]
<1>. DEFINE s == depNodes[k]
<1>1. s \in Seq(Nodes)
  OBVIOUS
<1>2. ToSet(Append(s, n)) = ToSet(s) \cup {n}
  <2>1. DOMAIN s = 1 .. Len(s) /\ DOMAIN Append(s, n) = 1 .. Len(s) + 1 /\ Len(s) \in Nat
    BY <1>1
  <2>2. Append(s, n)[Len(s) + 1] = n /\ \A i \in 1 .. Len(s) : Append(s, n)[i] = s[i]
    BY <1>1
  <2>3. 1 .. Len(s) + 1 = (1 .. Len(s)) \cup {Len(s) + 1}
    BY <2>1
  <2>. QED
    BY <2>1, <2>2, <2>3 DEF ToSet
<1>3. depNodes'[k] = Append(s, n)
  OBVIOUS
<1>. QED
  BY <1>1, <1>2, <1>3

\* loadBlockNode: what it does to the nodes.
LEMMA LoadKeeps ==
  ASSUME MemTypes, NodesInv, NEW h \in Blocks, LoadBlockNode(h)
  PROVE  /\ MemTypes' /\ NodesInv'
         /\ NewNode(h) \in Nodes /\ HashOf(NewNode(h)) = h /\ Made(NewNode(h), created')
         /\ \A m \in Nodes : Made(m, created) => Made(m, created')
         /\ \A b \in Blocks \ {h} : index'[b] = index[b]
<1>. DEFINE n == NewNode(h)
            k == ParentHash(h)
            dependents == ToSet(depNodes[h])
<1>1. Creates(h) /\ CanLoad(h)
  BY DEF LoadBlockNode
<1>2. /\ n \in Nodes /\ HashOf(n) = h /\ n # NoNode
      /\ ~Made(n, created) /\ Made(n, created')
      /\ created' \in [Blocks -> 0 .. MaxNodes]
      /\ \A m \in Nodes : Made(m, created) => Made(m, created')
  BY <1>1, MakesNode DEF MemTypes
<1>. HIDE DEF n
<1>3. /\ index' = [index EXCEPT ![h] = n]
      /\ inMainChain' = inMainChain \cup {n}
      /\ depNodes' = [depNodes EXCEPT ![k] = Append(@, n)]
  BY DEF LoadBlockNode, n
<1>4. k \in Blocks \cup {NoBlock} /\ h \in Blocks \cup {NoBlock}
  BY TreeAssumption DEF ParentHash
<1>5. /\ depNodes' \in [Blocks \cup {NoBlock} -> Seq(Nodes)]
      /\ ToSet(depNodes'[k]) = ToSet(depNodes[k]) \cup {n}
      /\ \A g \in Blocks \cup {NoBlock} : g # k => depNodes'[g] = depNodes[g]
  <2>1. depNodes \in [Blocks \cup {NoBlock} -> Seq(Nodes)]
    BY DEF MemTypes
  <2>. QED
    BY <2>1, <1>2, <1>3, <1>4, AppendedNode
<1>6. /\ parent' \in [Nodes -> Nodes \cup {NoNode}]
      /\ children' \in [Nodes -> SUBSET Nodes]
      /\ \A m \in Nodes : parent'[m] # NoNode =>
            \/ parent'[m] = parent[m]
            \/ m = n /\ h # Genesis /\ Indexed(Parent[h]) /\ parent'[m] = index[Parent[h]]
            \/ m \in dependents /\ parent'[m] = n
      /\ \A m \in Nodes : children'[m] # {} =>
            \/ children'[m] = children[m]
            \/ m = n
            \/ h # Genesis /\ Indexed(Parent[h]) /\ m = index[Parent[h]]
  <2>1. CASE h # Genesis /\ Indexed(Parent[h])
    <3>1. /\ parent' = [parent EXCEPT ![n] = index[Parent[h]]]
          /\ children' = [children EXCEPT ![index[Parent[h]]] = @ \cup {n}]
      BY <2>1 DEF LoadBlockNode, n
    <3>2. Parent[h] \in Blocks /\ index[Parent[h]] \in Nodes
      BY <2>1, TreeAssumption DEF MemTypes, Indexed
    <3>. QED
      BY <1>2, <2>1, <3>1, <3>2 DEF MemTypes
  <2>2. CASE ~(h # Genesis /\ Indexed(Parent[h]))
    <3>1. /\ parent' = [m \in Nodes |-> IF m \in dependents THEN n ELSE parent[m]]
          /\ children' = [children EXCEPT ![n] = dependents]
      BY <2>2 DEF LoadBlockNode, n
    <3>2. dependents \subseteq Nodes
      BY <1>4 DEF MemTypes, ToSet
    <3>. QED
      BY <1>2, <3>1, <3>2 DEF MemTypes
  <2>. QED
    BY <2>1, <2>2
<1>7. MemTypes'
  BY <1>2, <1>3, <1>5, <1>6 DEF MemTypes
<1>8. LinksDown'
  <2>. SUFFICES ASSUME NEW m \in Nodes, parent'[m] # NoNode
                PROVE  HashOf(m) # Genesis /\ HashOf(parent'[m]) = Parent[HashOf(m)]
    BY DEF LinksDown
  <2>1. CASE parent'[m] = parent[m]
    BY <2>1 DEF NodesInv, LinksDown
  <2>2. CASE m = n /\ h # Genesis /\ Indexed(Parent[h]) /\ parent'[m] = index[Parent[h]]
    BY <1>2, <2>2, TreeAssumption DEF NodesInv
  <2>3. CASE m \in dependents /\ parent'[m] = n
    <3>1. ParentHash(HashOf(m)) = h
      BY <1>4, <2>3 DEF NodesInv
    <3>. QED
      BY <1>2, <2>3, <3>1, IndexAssumption DEF ParentHash
  <2>. QED
    BY <1>6, <2>1, <2>2, <2>3
<1>9. ASSUME NEW b \in Blocks, Indexed(b)'
      PROVE  HashOf(index[b])' = b /\ Made(index'[b], created')
  <2>1. CASE b = h
    BY <1>2, <1>3, <2>1 DEF MemTypes, HashOf
  <2>2. CASE b # h
    <3>1. index'[b] = index[b] /\ index[b] # NoNode /\ index[b] \in Nodes
      BY <1>3, <1>9, <2>2 DEF MemTypes, Indexed
    <3>. QED
      BY <1>2, <3>1 DEF NodesInv, Indexed, HashOf
  <2>. QED
    BY <2>1, <2>2
<1>10. ASSUME NEW g \in Blocks \cup {NoBlock}, NEW m \in ToSet(depNodes'[g])
       PROVE  ParentHash(HashOf(m)) = g /\ Made(m, created')
  <2>1. m \in ToSet(depNodes[g]) \/ (g = k /\ m = n)
    <3>1. CASE g = k
      BY <1>5, <3>1
    <3>2. CASE g # k
      BY <1>5, <3>2
    <3>. QED
      BY <3>1, <3>2
  <2>2. CASE m \in ToSet(depNodes[g])
    <3>1. m \in Nodes
      BY <2>2 DEF MemTypes, ToSet
    <3>. QED
      BY <1>2, <2>2, <3>1 DEF NodesInv
  <2>. QED
    BY <1>2, <2>1, <2>2
<1>11. ASSUME NEW m \in Nodes, ~Made(m, created')
       PROVE  parent'[m] = NoNode /\ children'[m] = {} /\ m \notin inMainChain'
  <2>1. ~Made(m, created) /\ m # n
    BY <1>2, <1>11
  <2>2. m \notin dependents
    BY <1>4, <2>1 DEF NodesInv
  <2>3. ~(h # Genesis /\ Indexed(Parent[h]) /\ m = index[Parent[h]])
    BY <2>1, TreeAssumption DEF NodesInv
  <2>4. parent[m] = NoNode /\ children[m] = {} /\ m \notin inMainChain
    BY <2>1 DEF NodesInv
  <2>. QED
    BY <1>3, <1>6, <2>1, <2>2, <2>3, <2>4
<1>12. NodesInv'
  <2>1. \A b \in Blocks : Indexed(b)' => HashOf(index[b])' = b /\ Made(index[b], created)'
    BY <1>9 DEF Made
  <2>2. \A g \in Blocks \cup {NoBlock} : \A m \in ToSet(depNodes[g])' :
          ParentHash(HashOf(m)) = g /\ Made(m, created)'
    BY <1>10 DEF Made, ToSet
  <2>3. \A m \in Nodes : ~Made(m, created)' =>
          parent'[m] = NoNode /\ children'[m] = {} /\ m \notin inMainChain'
    BY <1>11 DEF Made
  <2>. QED
    BY <1>8, <2>1, <2>2, <2>3 DEF NodesInv
<1>13. \A b \in Blocks \ {h} : index'[b] = index[b]
  BY <1>3 DEF MemTypes
<1>. QED
  BY <1>2, <1>7, <1>12, <1>13 DEF n


\* Nothing happens to the nodes.
LEMMA NodesStay ==
  ASSUME MemTypes, NodesInv, UNCHANGED <<created, memVars>>
  PROVE  MemTypes' /\ NodesInv'
<1>1. MemTypes'
  BY DEF MemTypes, memVars
<1>2. LinksDown'
  BY DEF NodesInv, LinksDown, memVars
<1>3. /\ \A h \in Blocks : Indexed(h)' => HashOf(index[h])' = h /\ Made(index[h], created)'
      /\ \A h \in Blocks \cup {NoBlock} : \A n \in ToSet(depNodes[h])' :
           ParentHash(HashOf(n)) = h /\ Made(n, created)'
      /\ \A n \in Nodes : ~Made(n, created)' =>
           parent'[n] = NoNode /\ children'[n] = {} /\ n \notin inMainChain'
  BY DEF NodesInv, memVars, Indexed, HashOf, Made, ToSet
<1>. QED
  BY <1>1, <1>2, <1>3 DEF NodesInv

\* A new block gets a node below that of its parent.
LEMMA NewNodeKeeps ==
  ASSUME MemTypes, NodesInv, NEW n, n = NewNode(block),
         block \in Blocks \ {Genesis}, prevNode \in Nodes,
         HashOf(prevNode) = Parent[block], Made(prevNode, created),
         NewBlockNode(n)
  PROVE  /\ n \in Nodes /\ HashOf(n) = block /\ n # NoNode
         /\ ~Made(n, created) /\ Made(n, created')
         /\ \A m \in Nodes : Made(m, created) => Made(m, created')
         /\ created' \in [Blocks -> 0 .. MaxNodes]
         /\ parent' \in [Nodes -> Nodes \cup {NoNode}]
         /\ children' \in [Nodes -> SUBSET Nodes]
         /\ index' \in [Blocks -> Nodes \cup {NoNode}]
         /\ index' = [index EXCEPT ![block] = n]
         /\ parent' = [parent EXCEPT ![n] = prevNode]
         /\ children' = [children EXCEPT ![prevNode] = @ \cup {n}]
         /\ LinksDown'
         /\ \A b \in Blocks : Indexed(b)' => HashOf(index[b])' = b /\ Made(index[b], created)'
         /\ \A m \in Nodes : ~Made(m, created') => ~Made(m, created) /\ m # n
                                                   /\ parent'[m] = NoNode /\ children'[m] = {}
<1>1. Creates(block)
  BY DEF NewBlockNode
<1>2. /\ n \in Nodes /\ HashOf(n) = block /\ n # NoNode
      /\ ~Made(n, created) /\ Made(n, created')
      /\ created' \in [Blocks -> 0 .. MaxNodes]
      /\ \A m \in Nodes : Made(m, created) => Made(m, created')
  BY <1>1, MakesNode DEF MemTypes
<1>3. /\ parent' = [parent EXCEPT ![n] = prevNode]
      /\ children' = [children EXCEPT ![prevNode] = @ \cup {n}]
      /\ index' = [index EXCEPT ![block] = n]
  BY DEF NewBlockNode
<1>4. /\ parent' \in [Nodes -> Nodes \cup {NoNode}]
      /\ children' \in [Nodes -> SUBSET Nodes]
      /\ index' \in [Blocks -> Nodes \cup {NoNode}]
  BY <1>2, <1>3 DEF MemTypes
<1>5. LinksDown'
  <2>. SUFFICES ASSUME NEW m \in Nodes, parent'[m] # NoNode
                PROVE  HashOf(m) # Genesis /\ HashOf(parent'[m]) = Parent[HashOf(m)]
    BY DEF LinksDown
  <2>1. CASE m = n
    BY <1>2, <1>3, <2>1 DEF MemTypes
  <2>2. CASE m # n
    BY <1>3, <2>2 DEF MemTypes, NodesInv, LinksDown
  <2>. QED
    BY <2>1, <2>2
<1>6. ASSUME NEW b \in Blocks, Indexed(b)'
      PROVE  HashOf(index[b])' = b /\ Made(index[b], created)'
  <2>1. CASE b = block
    <3>1. index'[b] = n
      BY <1>3, <2>1 DEF MemTypes
    <3>. QED
      BY <1>2, <2>1, <3>1 DEF HashOf, Made
  <2>2. CASE b # block
    <3>1. index'[b] = index[b] /\ index[b] # NoNode /\ index[b] \in Nodes
      BY <1>3, <1>6, <2>2 DEF MemTypes, Indexed
    <3>2. HashOf(index[b]) = b /\ Made(index[b], created')
      BY <1>2, <3>1 DEF NodesInv, Indexed
    <3>. QED
      BY <3>1, <3>2 DEF HashOf, Made
  <2>. QED
    BY <2>1, <2>2
<1>7. ASSUME NEW m \in Nodes, ~Made(m, created')
      PROVE  ~Made(m, created) /\ m # n /\ parent'[m] = NoNode /\ children'[m] = {}
  <2>1. ~Made(m, created) /\ m # n /\ m # prevNode
    BY <1>2, <1>7
  <2>2. parent[m] = NoNode /\ children[m] = {}
    BY <2>1 DEF NodesInv
  <2>. QED
    BY <1>3, <2>1, <2>2 DEF MemTypes
<1>. QED
  BY <1>2, <1>3, <1>4, <1>5, <1>6, <1>7

-----------------------------------------------------------------------------
(***************************************************************************)
(* Every step keeps the invariant.                                         *)
(***************************************************************************)
\* The rest of the type invariant.
CallTypes ==
  /\ db \subseteq Blocks
  /\ bestChain \in Nodes
  /\ blockCache \subseteq Blocks
  /\ pc \in {"idle", "check", "reload", "recheck", "compare", "reorganize", "panic"}
  /\ block \in Blocks \cup {NoBlock}
  /\ prevNode \in Nodes \cup {NoNode}
  /\ iterNode \in Nodes \cup {NoNode}
  /\ detachNodes \in Seq(Nodes)
  /\ attachNodes \in Seq(Nodes)
  /\ oldTip \in Blocks \cup {NoBlock}
  /\ highest \in Nat
  /\ deepFork \in BOOLEAN

LEMMA TypesSplit == TypeOK <=> MemTypes /\ CallTypes
BY DEF TypeOK, MemTypes, CallTypes

LEMMA ReturnKeeps ==
  ASSUME Return
  PROVE  /\ CallInv' /\ ListsInv'
         /\ pc' = "idle" /\ block' = NoBlock /\ prevNode' = NoNode /\ iterNode' = NoNode
         /\ detachNodes' \in Seq(Nodes) /\ attachNodes' \in Seq(Nodes) /\ oldTip' = NoBlock
BY DEF Return, CallInv, ListsInv

LEMMA InitHolds ==
  ASSUME Init
  PROVE  Inv
<1>. DEFINE n == <<Genesis, 1>>
<1>1. n \in Nodes /\ HashOf(n) = Genesis /\ n # NoNode /\ n[2] = 1
  BY NodeFacts, IndexAssumption, TreeAssumption
<1>. HIDE DEF n
<1>2. /\ db = {Genesis}
      /\ created = [h \in Blocks |-> IF h = Genesis THEN 1 ELSE 0]
      /\ parent = [m \in Nodes |-> NoNode]
      /\ children = [m \in Nodes |-> {}]
      /\ inMainChain = {n}
      /\ index = [h \in Blocks |-> IF h = Genesis THEN n ELSE NoNode]
      /\ depNodes = [h \in Blocks \cup {NoBlock} |-> IF h = NoBlock THEN <<n>> ELSE <<>>]
      /\ bestChain = n
  BY DEF Init, n
<1>3. Genesis \in Blocks /\ NoBlock \notin Blocks /\ 1 \in 0 .. MaxNodes /\ 0 \in 0 .. MaxNodes
  BY TreeAssumption, IndexAssumption
<1>4. MemTypes
  BY <1>1, <1>2, <1>3 DEF MemTypes
<1>5. CallTypes
  <2>1. /\ pc = "idle" /\ block = NoBlock /\ prevNode = NoNode /\ iterNode = NoNode
        /\ detachNodes = <<>> /\ attachNodes = <<>> /\ oldTip = NoBlock
        /\ blockCache = {} /\ highest = 0 /\ deepFork = FALSE
    BY DEF Init
  <2>2. db \subseteq Blocks /\ bestChain \in Nodes
    BY <1>1, <1>2, <1>3
  <2>3. detachNodes \in Seq(Nodes) /\ attachNodes \in Seq(Nodes)
    BY <2>1
  <2>. QED
    BY <2>1, <2>2, <2>3 DEF CallTypes
<1>6. Made(n, created)
  BY <1>1, <1>2, <1>3 DEF Made
<1>7. NodesInv
  <2>1. \A h \in Blocks \cup {NoBlock} : \A m \in ToSet(depNodes[h]) : h = NoBlock /\ m = n
    BY <1>2 DEF ToSet
  <2>2. ParentHash(HashOf(n)) = NoBlock
    BY <1>1 DEF ParentHash
  <2>. QED
    BY <1>1, <1>2, <1>3, <1>6, <2>1, <2>2 DEF NodesInv, LinksDown, Indexed
<1>8. CallInv /\ ListsInv
  BY DEF Init, CallInv, ListsInv
<1>9. StoredChainLinked
  BY <1>1, <1>2, TreeAssumption DEF StoredChainLinked
<1>. QED
  BY <1>4, <1>5, <1>7, <1>8, <1>9, TypesSplit DEF Inv

\* Where the stored chain stays, the nodes keep their invariant and the call its own.
LEMMA Reassemble ==
  ASSUME Inv, UNCHANGED <<db, bestChain>>, MemTypes', CallTypes', NodesInv', CallInv', ListsInv'
  PROVE  Inv'
<1>1. TypeOK'
  BY DEF TypeOK, MemTypes, CallTypes
<1>2. StoredChainLinked'
  BY DEF Inv, StoredChainLinked, HashOf
<1>. QED
  BY <1>1, <1>2 DEF Inv

LEMMA AcceptBlockKeeps ==
  ASSUME Inv, NEW b \in Blocks \ {Genesis}, AcceptBlock(b)
  PROVE  Inv'
<1>0. Parent[b] \in Blocks /\ Parent[b] # b
  BY TreeAssumption
<1>1. /\ ~Indexed(b) /\ b \notin db
      /\ pc' = "check" /\ block' = b /\ iterNode' = prevNode'
      /\ deepFork' = (deepFork \/ ForksDeep(b))
      /\ UNCHANGED <<db, bestChain, blockCache, reorgVars, highest>>
  BY DEF AcceptBlock
<1>2. MemTypes /\ CallTypes /\ NodesInv
  BY TypesSplit DEF Inv
<1>3. /\ MemTypes' /\ NodesInv' /\ index'[b] = index[b]
      /\ prevNode' \in Nodes /\ HashOf(prevNode') = Parent[b] /\ Made(prevNode', created')
  <2>1. CASE Indexed(Parent[b]) /\ prevNode' = index[Parent[b]] /\ UNCHANGED <<created, memVars>>
    <3>1. index[Parent[b]] \in Nodes /\ HashOf(index[Parent[b]]) = Parent[b]
          /\ Made(index[Parent[b]], created)
      BY <1>0, <1>2, <2>1 DEF NodesInv, MemTypes, Indexed
    <3>. QED
      BY <1>2, <2>1, <3>1, NodesStay DEF memVars
  <2>2. CASE prevNode' = NewNode(Parent[b]) /\ LoadBlockNode(Parent[b])
    BY <1>0, <1>2, <2>2, LoadKeeps
  <2>. QED
    BY <2>1, <2>2 DEF AcceptBlock
<1>4. CallTypes'
  BY <1>1, <1>2, <1>3 DEF CallTypes, reorgVars
<1>5. CallInv'
  BY <1>1, <1>3, IndexAssumption DEF CallInv, Indexed, HashOf, Made
<1>6. ListsInv'
  BY <1>1 DEF ListsInv
<1>. QED
  BY <1>1, <1>3, <1>4, <1>5, <1>6, Reassemble


LEMMA WalkingKeeps ==
  ASSUME Inv, NextCheck \/ RejectBlock \/ LoseNode
  PROVE  Inv'
<1>1. MemTypes /\ CallTypes /\ NodesInv /\ CallInv
  BY TypesSplit DEF Inv
<1>2. UNCHANGED <<created, memVars>> /\ UNCHANGED <<db, bestChain, blockCache, highest, deepFork>>
  BY DEF NextCheck, RejectBlock, LoseNode
<1>3. MemTypes' /\ NodesInv'
  BY <1>1, <1>2, NodesStay
<1>4. CallTypes' /\ CallInv' /\ ListsInv'
  <2>1. CASE NextCheck
    <3>1. /\ pc = "check" /\ pc' = "check" /\ UNCHANGED <<block, prevNode, reorgVars>>
          /\ iterNode' = prevNode
      BY <2>1 DEF NextCheck
    <3>2. CallTypes'
      BY <1>1, <1>2, <3>1 DEF CallTypes, reorgVars
    <3>3. CallInv'
      BY <1>1, <1>2, <3>1 DEF CallInv, Indexed, HashOf, Made, memVars
    <3>4. ListsInv'
      BY <3>1 DEF ListsInv
    <3>. QED
      BY <3>2, <3>3, <3>4
  <2>2. CASE RejectBlock
    <3>1. Return
      BY <2>2 DEF RejectBlock
    <3>. QED
      BY <1>1, <1>2, <3>1, ReturnKeeps DEF CallTypes
  <2>3. CASE LoseNode
    <3>1. pc' = "panic" /\ UNCHANGED <<block, prevNode, iterNode, reorgVars>>
      BY <2>3 DEF LoseNode
    <3>. QED
      BY <1>1, <1>2, <3>1 DEF CallTypes, CallInv, ListsInv, reorgVars
  <2>. QED
    BY <2>1, <2>2, <2>3
<1>. QED
  BY <1>2, <1>3, <1>4, Reassemble

\* The last node of a line, and the block a check loads below it.
LEMMA FrontFacts ==
  ASSUME MemTypes, NodesInv, NEW n \in Nodes
  PROVE  /\ Last(Line(n)) \in Nodes /\ parent[Last(Line(n))] = NoNode
         /\ Len(Line(n)) \in Nat \ {0} /\ Last(Line(n)) = Line(n)[Len(Line(n))]
         /\ HashOf(Last(Line(n))) \in Ancestry[HashOf(n)]
         /\ HashOf(Last(Line(n))) \in Blocks
         /\ HashOf(Last(Line(n))) # Genesis => Parent[HashOf(Last(Line(n)))] \in Blocks
<1>1. IsLine(Line(n), n)
  BY LineFacts DEF MemTypes, NodesInv
<1>. DEFINE s == Line(n)
<1>. HIDE DEF s
<1>2. IsLine(s, n)
  BY <1>1 DEF s
<1>3. s \in Seq(Nodes) /\ Len(s) \in Nat \ {0} /\ Len(s) \in 1 .. Len(s)
  BY <1>2 DEF IsLine
<1>4. Last(s) = s[Len(s)] /\ s[Len(s)] \in Nodes
  BY <1>3 DEF Last
<1>5. parent[Last(s)] = NoNode /\ HashOf(Last(s)) \in Ancestry[HashOf(n)]
  BY <1>2, <1>3, <1>4 DEF IsLine
<1>. QED
  BY <1>3, <1>4, <1>5, NodeFacts, TreeAssumption DEF s

LEMMA LookBackKeeps ==
  ASSUME Inv, LookBack
  PROVE  Inv'
<1>. DEFINE h == Parent[HashOf(Last(Line(iterNode)))]
<1>1. MemTypes /\ CallTypes /\ NodesInv /\ CallInv
  BY TypesSplit DEF Inv
<1>2. /\ pc \in {"check", "recheck"} /\ HashOf(Last(Line(iterNode))) # Genesis
      /\ LoadBlockNode(h) /\ iterNode' = NewNode(h)
      /\ UNCHANGED <<db, bestChain, blockCache, pc, block, prevNode, reorgVars, highest, deepFork>>
  BY DEF LookBack
<1>3. h \in Blocks
  BY <1>1, <1>2, FrontFacts DEF CallInv
<1>4. h \in db
  BY <1>2 DEF LoadBlockNode, CanLoad
<1>. HIDE DEF h
<1>5. /\ MemTypes' /\ NodesInv' /\ NewNode(h) \in Nodes
      /\ \A m \in Nodes : Made(m, created) => Made(m, created')
      /\ \A b \in Blocks \ {h} : index'[b] = index[b]
  BY <1>1, <1>2, <1>3, LoadKeeps
<1>6. CallTypes'
  BY <1>1, <1>2, <1>5 DEF CallTypes, reorgVars
<1>7. CallInv'
  <2>1. block \in Blocks \ {Genesis} /\ block \notin db /\ ~Indexed(block) /\ prevNode \in Nodes
        /\ HashOf(prevNode) = Parent[block] /\ Made(prevNode, created)
    BY <1>1, <1>2 DEF CallInv
  <2>2. block # h /\ index'[block] = NoNode /\ Made(prevNode, created')
    BY <1>4, <1>5, <2>1 DEF Indexed
  <2>. QED
    BY <1>2, <1>5, <2>1, <2>2 DEF CallInv, Indexed, HashOf, Made
<1>8. ListsInv'
  BY <1>2 DEF ListsInv
<1>. QED
  BY <1>2, <1>5, <1>6, <1>7, <1>8, Reassemble

\* removeChildNode
LEMMA RemovesOne ==
  ASSUME NEW s \in Seq(Nodes), NEW i \in 1 .. Len(s)
  PROVE  /\ RemoveAt(s, i) \in Seq(Nodes)
         /\ ToSet(RemoveAt(s, i)) \subseteq ToSet(s)
         /\ \A j \in 1 .. Len(s) : j # i => s[j] \in ToSet(RemoveAt(s, i))
<1>. DEFINE a == SubSeq(s, 1, i - 1)
            b == SubSeq(s, i + 1, Len(s))
            t == a \o b
<1>1. a \in Seq(Nodes) /\ Len(a) = i - 1 /\ \A j \in 1 .. i - 1 : a[j] = s[j]
  OBVIOUS
<1>2. b \in Seq(Nodes) /\ Len(b) = Len(s) - i /\ \A j \in 1 .. Len(s) - i : b[j] = s[i + j]
  OBVIOUS
<1>. HIDE DEF a, b
<1>3. /\ t \in Seq(Nodes) /\ Len(t) = Len(s) - 1
      /\ \A j \in 1 .. i - 1 : t[j] = a[j]
      /\ \A j \in 1 .. Len(s) - i : t[i - 1 + j] = b[j]
  BY <1>1, <1>2
<1>. HIDE DEF t
<1>4. RemoveAt(s, i) = t
  BY DEF RemoveAt, t, a, b
<1>5. \A j \in 1 .. i - 1 : t[j] = s[j]
  BY <1>1, <1>3
<1>6. ASSUME NEW j \in i + 1 .. Len(s) PROVE t[j - 1] = s[j]
  <2>1. j - i \in 1 .. Len(s) - i /\ i - 1 + (j - i) = j - 1 /\ i + (j - i) = j
    OBVIOUS
  <2>. QED
    BY <1>2, <1>3, <2>1
<1>7. \A k \in 1 .. Len(s) - 1 : \E j \in 1 .. Len(s) : t[k] = s[j]
  <2>. TAKE k \in 1 .. Len(s) - 1
  <2>1. CASE k <= i - 1
    BY <1>5, <2>1
  <2>2. CASE k > i - 1
    <3>1. k + 1 \in i + 1 .. Len(s) /\ (k + 1) - 1 = k /\ k + 1 \in 1 .. Len(s)
      BY <2>2
    <3>2. t[k] = s[k + 1]
      BY <1>6, <3>1
    <3>. QED
      BY <3>1, <3>2
  <2>. QED
    BY <2>1, <2>2
<1>8. DOMAIN t = 1 .. Len(s) - 1 /\ DOMAIN s = 1 .. Len(s)
  BY <1>3
<1>9. ToSet(t) \subseteq ToSet(s)
  BY <1>7, <1>8 DEF ToSet
<1>10. ASSUME NEW j \in 1 .. Len(s), j # i PROVE s[j] \in ToSet(t)
  <2>1. CASE j < i
    BY <1>5, <1>8, <2>1 DEF ToSet
  <2>2. CASE j > i
    <3>1. j \in i + 1 .. Len(s) /\ j - 1 \in 1 .. Len(s) - 1
      BY <2>2
    <3>. QED
      BY <1>6, <1>8, <3>1 DEF ToSet
  <2>. QED
    BY <1>10, <2>1, <2>2
<1>. QED
  BY <1>3, <1>4, <1>9, <1>10

LEMMA PrunedList ==
  ASSUME MemTypes, NEW h \in Blocks \cup {NoBlock}, NEW gone
  PROVE  /\ WithoutPruned(h, gone) \in Seq(Nodes)
         /\ ToSet(WithoutPruned(h, gone)) \subseteq ToSet(depNodes[h])
         /\ \A m \in ToSet(depNodes[h]) :
              (\A n \in gone : ParentHash(HashOf(n)) = h => HashOf(m) # HashOf(n))
                => m \in ToSet(WithoutPruned(h, gone))
<1>. DEFINE s == depNodes[h]
            mine == {i \in DOMAIN s : \E n \in gone : ParentHash(HashOf(n)) = h
                                                      /\ HashOf(s[i]) = HashOf(n)}
            first == CHOOSE i \in mine : \A j \in mine : i <= j
<1>1. s \in Seq(Nodes) /\ DOMAIN s = 1 .. Len(s)
  BY DEF MemTypes
<1>2. WithoutPruned(h, gone) = IF mine = {} THEN s ELSE RemoveAt(s, first)
  BY DEF WithoutPruned
<1>3. CASE mine = {}
  BY <1>1, <1>2, <1>3
<1>4. CASE mine # {}
  <2>1. first \in mine
    <3>1. mine \in SUBSET Nat
      BY <1>1
    <3>. HIDE DEF mine
    <3>. QED
      BY <1>4, <3>1, LeastElement
  <2>2. first \in 1 .. Len(s)
    BY <1>1, <2>1
  <2>. HIDE DEF first
  <2>3. /\ RemoveAt(s, first) \in Seq(Nodes)
        /\ ToSet(RemoveAt(s, first)) \subseteq ToSet(s)
        /\ \A j \in 1 .. Len(s) : j # first => s[j] \in ToSet(RemoveAt(s, first))
    BY <1>1, <2>2, RemovesOne
  <2>4. ASSUME NEW m \in ToSet(s),
               \A n \in gone : ParentHash(HashOf(n)) = h => HashOf(m) # HashOf(n)
        PROVE  m \in ToSet(RemoveAt(s, first))
    <3>1. PICK j \in DOMAIN s : m = s[j]
      BY DEF ToSet
    <3>2. j \notin mine
      BY <2>4, <3>1
    <3>. QED
      BY <1>1, <2>1, <2>3, <3>1, <3>2
  <2>. QED
    BY <1>2, <1>4, <2>3, <2>4
<1>. QED
  BY <1>3, <1>4


\* The nodes behind the last MinMemoryNodes of the main chain.
LEMMA PrunedFacts ==
  ASSUME MemTypes, NodesInv, bestChain \in Nodes
  PROVE  /\ Pruned \subseteq Nodes
         /\ \A n \in Pruned : Height[HashOf(n)] + MinMemoryNodes <= Height[HashOf(bestChain)]
<1>. DEFINE s == Line(bestChain)
<1>1. IsLine(Line(bestChain), bestChain)
  BY LineFacts DEF MemTypes, NodesInv
<1>2. Pruned = {s[i] : i \in MinMemoryNodes + 1 .. Len(s)}
  BY DEF Pruned
<1>. HIDE DEF s
<1>3. IsLine(s, bestChain)
  BY <1>1 DEF s
<1>4. ASSUME NEW i \in MinMemoryNodes + 1 .. Len(s)
      PROVE  s[i] \in Nodes /\ Height[HashOf(s[i])] + MinMemoryNodes <= Height[HashOf(bestChain)]
  <2>1. s \in Seq(Nodes) /\ i \in 1 .. Len(s) /\ MinMemoryNodes \in Nat /\ i \in Nat
    BY <1>3, IndexAssumption DEF IsLine
  <2>2. s[i] \in Nodes
    BY <2>1
  <2>3. Height[HashOf(s[i])] + i = Height[HashOf(bestChain)] + 1
    BY <1>3, <2>1 DEF IsLine
  <2>4. Height[HashOf(s[i])] \in Nat /\ Height[HashOf(bestChain)] \in Nat
    BY <2>2, NodeFacts, TreeAssumption
  <2>. QED
    BY <2>1, <2>2, <2>3, <2>4
<1>. QED
  BY <1>2, <1>4

LEMMA PruneBlockNodesKeeps ==
  ASSUME Inv, PruneBlockNodes
  PROVE  Inv'
<1>. DEFINE gone == Pruned
<1>1. MemTypes /\ CallTypes /\ NodesInv /\ CallInv
  BY TypesSplit DEF Inv
<1>2. /\ pc = "check" /\ pc' = "reload"
      /\ index' = [h \in Blocks |-> IF \E n \in gone : HashOf(n) = h THEN NoNode ELSE index[h]]
      /\ parent' = Unlinked(gone)
      /\ children' = [m \in Nodes |-> IF m \in gone THEN {} ELSE children[m]]
      /\ depNodes' = [h \in Blocks \cup {NoBlock} |-> WithoutPruned(h, gone)]
      /\ UNCHANGED <<db, created, inMainChain, bestChain, blockCache, block, prevNode,
                     iterNode, reorgVars, highest, deepFork>>
  BY DEF PruneBlockNodes
<1>. HIDE DEF gone
<1>3. \A m \in Nodes : parent'[m] = parent[m] \/ parent'[m] = NoNode
  BY <1>2 DEF Unlinked
<1>4. \A h \in Blocks : index'[h] = index[h] \/ index'[h] = NoNode
  BY <1>2
<1>5. \A h \in Blocks \cup {NoBlock} :
        depNodes'[h] \in Seq(Nodes) /\ ToSet(depNodes'[h]) \subseteq ToSet(depNodes[h])
  BY <1>1, <1>2, PrunedList
<1>6. MemTypes'
  <2>1. parent' \in [Nodes -> Nodes \cup {NoNode}]
    BY <1>1, <1>2 DEF Unlinked, MemTypes
  <2>2. depNodes' \in [Blocks \cup {NoBlock} -> Seq(Nodes)]
    BY <1>2, <1>5
  <2>3. index' \in [Blocks -> Nodes \cup {NoNode}] /\ children' \in [Nodes -> SUBSET Nodes]
    BY <1>1, <1>2 DEF MemTypes
  <2>. QED
    BY <1>1, <1>2, <2>1, <2>2, <2>3 DEF MemTypes
<1>7. NodesInv'
  <2>1. LinksDown'
    BY <1>1, <1>3 DEF NodesInv, LinksDown
  <2>2. \A h \in Blocks : Indexed(h)' => HashOf(index[h])' = h /\ Made(index[h], created)'
    BY <1>1, <1>2, <1>4 DEF NodesInv, Indexed, HashOf, Made
  <2>3. \A h \in Blocks \cup {NoBlock} : \A n \in ToSet(depNodes[h])' :
          ParentHash(HashOf(n)) = h /\ Made(n, created)'
    <3>. SUFFICES ASSUME NEW h \in Blocks \cup {NoBlock}, NEW n \in ToSet(depNodes'[h])
                  PROVE  ParentHash(HashOf(n)) = h /\ Made(n, created')
      BY DEF ToSet, Made
    <3>. QED
      BY <1>1, <1>2, <1>5 DEF NodesInv
  <2>4. \A n \in Nodes : ~Made(n, created)' =>
          parent'[n] = NoNode /\ children'[n] = {} /\ n \notin inMainChain'
    BY <1>1, <1>2, <1>3 DEF NodesInv, Made
  <2>. QED
    BY <2>1, <2>2, <2>3, <2>4 DEF NodesInv
<1>8. CallTypes'
  BY <1>1, <1>2 DEF CallTypes, reorgVars
<1>9. CallInv'
  <2>1. block \in Blocks \ {Genesis} /\ block \notin db /\ ~Indexed(block) /\ prevNode \in Nodes
        /\ HashOf(prevNode) = Parent[block] /\ Made(prevNode, created)
    BY <1>1, <1>2 DEF CallInv
  <2>2. index'[block] = NoNode
    BY <1>4, <2>1 DEF Indexed
  <2>. QED
    BY <1>2, <2>1, <2>2 DEF CallInv, Indexed, HashOf, Made
<1>10. ListsInv'
  BY <1>2 DEF ListsInv
<1>. QED
  BY <1>2, <1>6, <1>7, <1>8, <1>9, <1>10, Reassemble

LEMMA ReloadParentKeeps ==
  ASSUME Inv, ReloadParent
  PROVE  Inv'
<1>. DEFINE h == Parent[block]
<1>1. MemTypes /\ CallTypes /\ NodesInv /\ CallInv
  BY TypesSplit DEF Inv
<1>2. pc = "reload" /\ UNCHANGED <<db, bestChain, blockCache, highest, deepFork>>
  BY DEF ReloadParent
<1>3. /\ block \in Blocks \ {Genesis} /\ block \notin db /\ ~Indexed(block) /\ prevNode \in Nodes
      /\ HashOf(prevNode) = Parent[block] /\ Made(prevNode, created)
      /\ h \in Blocks /\ h # block
  BY <1>1, <1>2, TreeAssumption DEF CallInv
<1>4. CASE /\ Indexed(h) /\ pc' = "recheck" /\ iterNode' = index[h]
           /\ UNCHANGED <<created, memVars, block, prevNode, reorgVars>>
  <2>1. MemTypes' /\ NodesInv'
    BY <1>1, <1>4, NodesStay DEF memVars
  <2>2. iterNode' \in Nodes
    BY <1>1, <1>3, <1>4 DEF MemTypes, Indexed
  <2>3. CallTypes'
    BY <1>1, <1>2, <1>4, <2>2 DEF CallTypes, reorgVars
  <2>4. CallInv'
    BY <1>2, <1>3, <1>4, <2>2 DEF CallInv, Indexed, HashOf, Made, memVars
  <2>5. ListsInv'
    BY <1>4 DEF ListsInv
  <2>. QED
    BY <1>2, <2>1, <2>3, <2>4, <2>5, Reassemble
<1>5. CASE /\ pc' = "recheck" /\ iterNode' = NewNode(h) /\ LoadBlockNode(h)
           /\ UNCHANGED <<block, prevNode, reorgVars>>
  <2>1. /\ MemTypes' /\ NodesInv' /\ NewNode(h) \in Nodes
        /\ \A m \in Nodes : Made(m, created) => Made(m, created')
        /\ \A b \in Blocks \ {h} : index'[b] = index[b]
    BY <1>1, <1>3, <1>5, LoadKeeps
  <2>2. CallTypes'
    BY <1>1, <1>2, <1>5, <2>1 DEF CallTypes, reorgVars
  <2>3. CallInv'
    <3>1. index'[block] = NoNode /\ Made(prevNode, created')
      BY <1>3, <2>1 DEF Indexed
    <3>. QED
      BY <1>2, <1>3, <1>5, <2>1, <3>1 DEF CallInv, Indexed, HashOf, Made
  <2>4. ListsInv'
    BY <1>5 DEF ListsInv
  <2>. QED
    BY <1>2, <2>1, <2>2, <2>3, <2>4, Reassemble
<1>6. CASE Return /\ UNCHANGED <<created, memVars>>
  <2>1. MemTypes' /\ NodesInv'
    BY <1>1, <1>6, NodesStay
  <2>2. CallTypes' /\ CallInv' /\ ListsInv'
    BY <1>1, <1>2, <1>6, ReturnKeeps DEF CallTypes
  <2>. QED
    BY <1>2, <2>1, <2>2, Reassemble
<1>. QED
  BY <1>4, <1>5, <1>6 DEF ReloadParent

LEMMA ExtendMainChainKeeps ==
  ASSUME Inv, ExtendMainChain
  PROVE  Inv'
<1>. DEFINE n == NewNode(block)
<1>1. MemTypes /\ CallTypes /\ NodesInv /\ CallInv /\ StoredChainLinked
  BY TypesSplit DEF Inv
<1>2. /\ pc = "recheck" /\ HashOf(prevNode) = HashOf(bestChain)
      /\ NewBlockNode(n)
      /\ depNodes' = [depNodes EXCEPT ![Parent[block]] = Append(@, n)]
      /\ inMainChain' = inMainChain \cup {n}
      /\ db' = db \cup {block} /\ bestChain' = n /\ highest' = Higher(block)
      /\ Return /\ UNCHANGED <<blockCache, deepFork>>
  BY DEF ExtendMainChain
<1>3. /\ block \in Blocks \ {Genesis} /\ prevNode \in Nodes
      /\ HashOf(prevNode) = Parent[block] /\ Made(prevNode, created)
      /\ Parent[block] \in Blocks
  BY <1>1, <1>2, TreeAssumption DEF CallInv
<1>. HIDE DEF n
<1>4. /\ n \in Nodes /\ HashOf(n) = block /\ n # NoNode
      /\ ~Made(n, created) /\ Made(n, created')
      /\ \A m \in Nodes : Made(m, created) => Made(m, created')
      /\ created' \in [Blocks -> 0 .. MaxNodes]
      /\ parent' \in [Nodes -> Nodes \cup {NoNode}]
      /\ children' \in [Nodes -> SUBSET Nodes]
      /\ index' \in [Blocks -> Nodes \cup {NoNode}]
      /\ LinksDown'
      /\ \A b \in Blocks : Indexed(b)' => HashOf(index[b])' = b /\ Made(index[b], created)'
      /\ \A m \in Nodes : ~Made(m, created') => ~Made(m, created) /\ m # n
                                                /\ parent'[m] = NoNode /\ children'[m] = {}
  BY <1>1, <1>2, <1>3, NewNodeKeeps DEF n
<1>5. /\ depNodes' \in [Blocks \cup {NoBlock} -> Seq(Nodes)]
      /\ ToSet(depNodes'[Parent[block]]) = ToSet(depNodes[Parent[block]]) \cup {n}
      /\ \A g \in Blocks \cup {NoBlock} : g # Parent[block] => depNodes'[g] = depNodes[g]
  <2>1. depNodes \in [Blocks \cup {NoBlock} -> Seq(Nodes)]
    BY <1>1 DEF MemTypes
  <2>2. Parent[block] \in Blocks \cup {NoBlock}
    BY <1>3
  <2>. QED
    BY <1>2, <1>4, <2>1, <2>2, AppendedNode
<1>6. MemTypes'
  BY <1>1, <1>2, <1>4, <1>5 DEF MemTypes
<1>7. ASSUME NEW g \in Blocks \cup {NoBlock}, NEW m \in ToSet(depNodes'[g])
      PROVE  ParentHash(HashOf(m)) = g /\ Made(m, created')
  <2>1. m \in ToSet(depNodes[g]) \/ (g = Parent[block] /\ m = n)
    <3>1. CASE g = Parent[block]
      BY <1>5, <3>1
    <3>2. CASE g # Parent[block]
      BY <1>5, <3>2
    <3>. QED
      BY <3>1, <3>2
  <2>2. CASE m \in ToSet(depNodes[g])
    <3>1. m \in Nodes
      BY <1>1, <2>2 DEF MemTypes, ToSet
    <3>. QED
      BY <1>1, <1>4, <2>2, <3>1 DEF NodesInv
  <2>. QED
    BY <1>3, <1>4, <2>1, <2>2 DEF ParentHash
<1>8. \A m \in Nodes : ~Made(m, created') => m \notin inMainChain'
  BY <1>1, <1>2, <1>4 DEF NodesInv
<1>9. NodesInv'
  <2>1. \A g \in Blocks \cup {NoBlock} : \A m \in ToSet(depNodes[g])' :
          ParentHash(HashOf(m)) = g /\ Made(m, created)'
    BY <1>7 DEF Made, ToSet
  <2>2. \A m \in Nodes : ~Made(m, created)' =>
          parent'[m] = NoNode /\ children'[m] = {} /\ m \notin inMainChain'
    BY <1>4, <1>8 DEF Made
  <2>. QED
    BY <1>4, <2>1, <2>2 DEF NodesInv
<1>10. CallTypes' /\ CallInv' /\ ListsInv'
  <2>1. highest' \in Nat
    <3>1. highest \in Nat /\ Height[block] \in Nat
      BY <1>1, <1>3, TreeAssumption DEF CallTypes
    <3>2. Max({highest, Height[block]}) \in {highest, Height[block]}
      BY <3>1, LargerOfTwo
    <3>. QED
      BY <1>2, <3>1, <3>2 DEF Higher
  <2>. QED
    BY <1>1, <1>2, <1>3, <1>4, <2>1, ReturnKeeps DEF CallTypes
<1>11. StoredChainLinked'
  <2>1. db' = Ancestry[block]
    BY <1>1, <1>2, <1>3, TreeAssumption DEF StoredChainLinked
  <2>2. HashOf(bestChain)' = block
    BY <1>2, <1>4 DEF HashOf
  <2>. QED
    BY <2>1, <2>2 DEF StoredChainLinked
<1>12. TypeOK'
  BY <1>6, <1>10 DEF TypeOK, MemTypes, CallTypes
<1>. QED
  BY <1>9, <1>10, <1>11, <1>12 DEF Inv

LEMMA AddSideBlockKeeps ==
  ASSUME Inv, AddSideBlock
  PROVE  Inv'
<1>. DEFINE n == NewNode(block)
<1>1. MemTypes /\ CallTypes /\ NodesInv /\ CallInv
  BY TypesSplit DEF Inv
<1>2. /\ pc = "recheck" /\ pc' = "compare" /\ NewBlockNode(n)
      /\ blockCache' = blockCache \cup {block}
      /\ UNCHANGED <<db, inMainChain, depNodes, bestChain, block, prevNode, iterNode,
                     reorgVars, highest, deepFork>>
  BY DEF AddSideBlock
<1>3. /\ block \in Blocks \ {Genesis} /\ block \notin db /\ prevNode \in Nodes
      /\ HashOf(prevNode) = Parent[block] /\ Made(prevNode, created)
  BY <1>1, <1>2 DEF CallInv
<1>. HIDE DEF n
<1>4. /\ n \in Nodes /\ HashOf(n) = block /\ n # NoNode
      /\ ~Made(n, created)
      /\ \A m \in Nodes : Made(m, created) => Made(m, created')
      /\ created' \in [Blocks -> 0 .. MaxNodes]
      /\ parent' \in [Nodes -> Nodes \cup {NoNode}]
      /\ children' \in [Nodes -> SUBSET Nodes]
      /\ index' \in [Blocks -> Nodes \cup {NoNode}]
      /\ index' = [index EXCEPT ![block] = n]
      /\ parent' = [parent EXCEPT ![n] = prevNode]
      /\ LinksDown'
      /\ \A b \in Blocks : Indexed(b)' => HashOf(index[b])' = b /\ Made(index[b], created)'
      /\ \A m \in Nodes : ~Made(m, created') => ~Made(m, created) /\ m # n
                                                /\ parent'[m] = NoNode /\ children'[m] = {}
  BY <1>1, <1>2, <1>3, NewNodeKeeps DEF n
<1>5. MemTypes'
  BY <1>1, <1>2, <1>4 DEF MemTypes
<1>6. NodesInv'
  <2>1. \A g \in Blocks \cup {NoBlock} : \A m \in ToSet(depNodes[g])' :
          ParentHash(HashOf(m)) = g /\ Made(m, created)'
    <3>. SUFFICES ASSUME NEW g \in Blocks \cup {NoBlock}, NEW m \in ToSet(depNodes[g])
                  PROVE  ParentHash(HashOf(m)) = g /\ Made(m, created')
      BY <1>2 DEF ToSet, Made
    <3>1. m \in Nodes
      BY <1>1 DEF MemTypes, ToSet
    <3>. QED
      BY <1>1, <1>4, <3>1 DEF NodesInv
  <2>2. \A m \in Nodes : ~Made(m, created)' =>
          parent'[m] = NoNode /\ children'[m] = {} /\ m \notin inMainChain'
    BY <1>1, <1>2, <1>4 DEF NodesInv, Made
  <2>. QED
    BY <1>4, <2>1, <2>2 DEF NodesInv
<1>7. CallTypes'
  BY <1>1, <1>2, <1>3 DEF CallTypes, reorgVars
<1>8. CallInv'
  <2>1. index'[block] = n /\ n \notin inMainChain /\ parent'[n] = prevNode /\ prevNode # NoNode
    BY <1>1, <1>3, <1>4, NodeFacts DEF NodesInv, MemTypes
  <2>. QED
    BY <1>2, <1>3, <1>4, <2>1 DEF CallInv
<1>9. ListsInv'
  BY <1>2 DEF ListsInv
<1>. QED
  BY <1>2, <1>5, <1>6, <1>7, <1>8, <1>9, Reassemble


\* The two walks of getReorganizeNodes.
LEMMA WalksFacts ==
  ASSUME MemTypes, NodesInv, NEW n \in Nodes, NEW stops
  PROVE  LET s == Before(Line(n), stops)
         IN  /\ s \in Seq(Nodes) /\ Len(s) \in Nat
             /\ s # <<>> => s[1] = n
             /\ \A i \in 1 .. Len(s) : s[i] \notin stops /\ parent[s[i]] # NoNode
             /\ \A i \in 1 .. Len(s) - 1 : s[i + 1] = parent[s[i]]
             /\ s = <<>> => n \in stops \/ parent[n] = NoNode
             /\ s # <<>> => LET m == parent[s[Len(s)]]
                            IN  m \in Nodes /\ (m \in stops \/ parent[m] = NoNode)
             /\ \A i \in 1 .. Len(s) :
                  Height[HashOf(s[i])] + i = Height[HashOf(n)] + 1
                  /\ HashOf(s[i]) \in Ancestry[HashOf(n)]
<1>. DEFINE line == Line(n)
            s == Before(line, stops)
<1>1. IsLine(Line(n), n)
  BY LineFacts DEF MemTypes, NodesInv
<1>. HIDE DEF line
<1>2. IsLine(line, n)
  BY <1>1 DEF line
<1>3. /\ s \in Seq(Nodes) /\ Len(s) \in 0 .. Len(line) - 1
      /\ \A i \in 1 .. Len(s) : s[i] = line[i] /\ s[i] \notin stops /\ parent[s[i]] # NoNode
      /\ line[Len(s) + 1] \in stops \/ parent[line[Len(s) + 1]] = NoNode
  BY <1>2, BeforeFacts
<1>4. /\ line \in Seq(Nodes) /\ Len(line) \in Nat \ {0} /\ line[1] = n
      /\ \A i \in 1 .. Len(line) - 1 : line[i + 1] = parent[line[i]]
      /\ \A i \in 1 .. Len(line) : /\ HashOf(line[i]) \in Ancestry[HashOf(n)]
                                   /\ Height[HashOf(line[i])] + i = Height[HashOf(n)] + 1
  BY <1>2 DEF IsLine
<1>. HIDE DEF s
<1>5. Len(s) \in Nat /\ (s = <<>> <=> Len(s) = 0)
  BY <1>3, <1>4
<1>6. s # <<>> => s[1] = n
  BY <1>3, <1>4, <1>5
<1>7. ASSUME NEW i \in 1 .. Len(s) - 1 PROVE s[i + 1] = parent[s[i]]
  <2>1. i \in 1 .. Len(s) /\ i + 1 \in 1 .. Len(s) /\ i \in 1 .. Len(line) - 1
    BY <1>3, <1>4, <1>5
  <2>2. s[i] = line[i] /\ s[i + 1] = line[i + 1] /\ line[i + 1] = parent[line[i]]
    BY <1>3, <1>4, <2>1
  <2>. QED
    BY <2>2
<1>8. ASSUME s = <<>> PROVE n \in stops \/ parent[n] = NoNode
  <2>1. Len(s) + 1 = 1
    BY <1>5, <1>8
  <2>. QED
    BY <1>3, <1>4, <2>1
<1>9. ASSUME s # <<>>
      PROVE  LET m == parent[s[Len(s)]]
             IN  m \in Nodes /\ (m \in stops \/ parent[m] = NoNode)
  <2>1. Len(s) \in 1 .. Len(s) /\ Len(s) \in 1 .. Len(line) - 1 /\ Len(s) + 1 \in 1 .. Len(line)
    BY <1>3, <1>4, <1>5, <1>9
  <2>2. line[Len(s) + 1] = parent[s[Len(s)]] /\ line[Len(s) + 1] \in Nodes
    BY <1>3, <1>4, <2>1
  <2>. QED
    BY <1>3, <2>2
<1>10. \A i \in 1 .. Len(s) : /\ Height[HashOf(s[i])] + i = Height[HashOf(n)] + 1
                              /\ HashOf(s[i]) \in Ancestry[HashOf(n)]
  <2>. TAKE i \in 1 .. Len(s)
  <2>1. i \in 1 .. Len(line) /\ s[i] = line[i]
    BY <1>3, <1>4
  <2>. QED
    BY <1>4, <2>1
<1>11. /\ s \in Seq(Nodes)
       /\ \A i \in 1 .. Len(s) : s[i] \notin stops /\ parent[s[i]] # NoNode
  BY <1>3
<1>. QED
  BY <1>5, <1>6, <1>7, <1>8, <1>9, <1>10, <1>11 DEF s, line

LEMMA ReverseFacts ==
  ASSUME NEW s \in Seq(Nodes)
  PROVE  /\ Reverse(s) \in Seq(Nodes) /\ Len(Reverse(s)) = Len(s)
         /\ \A i \in 1 .. Len(s) : /\ Len(s) - i + 1 \in 1 .. Len(s)
                                   /\ Reverse(s)[i] = s[Len(s) - i + 1]
<1>1. Reverse(s) = [i \in 1 .. Len(s) |-> s[(Len(s) - i) + 1]]
  BY DEF Reverse
<1>2. Len(s) \in Nat /\ \A i \in 1 .. Len(s) : (Len(s) - i) + 1 \in 1 .. Len(s)
  OBVIOUS
<1>3. \A i \in 1 .. Len(s) : s[(Len(s) - i) + 1] \in Nodes
  BY <1>2
<1>. QED
  BY <1>1, <1>2, <1>3

LEMMA CompareWorkKeeps ==
  ASSUME Inv, CompareWork
  PROVE  Inv'
<1>. DEFINE n == index[block]
            s == Before(Line(n), inMainChain)
            attach == Reverse(s)
            detach == NodesToDetach(n)
<1>1. MemTypes /\ CallTypes /\ NodesInv /\ CallInv
  BY TypesSplit DEF Inv
<1>2. pc = "compare" /\ UNCHANGED <<db, created, memVars, bestChain, blockCache, highest, deepFork>>
  BY DEF CompareWork
<1>3. MemTypes' /\ NodesInv'
  BY <1>1, <1>2, NodesStay
<1>4. n \in Nodes \ inMainChain /\ parent[n] # NoNode /\ bestChain \in Nodes
  BY <1>1, <1>2 DEF CallInv, CallTypes
<1>5. CASE /\ pc' = "reorganize" /\ attachNodes' = attach /\ detachNodes' = detach
           /\ oldTip' = HashOf(bestChain) /\ UNCHANGED <<block, prevNode, iterNode>>
  <2>. HIDE DEF n
  <2>1. /\ s \in Seq(Nodes) /\ s # <<>>
        /\ \A i \in 1 .. Len(s) : parent[s[i]] # NoNode
    BY <1>1, <1>4, WalksFacts
  <2>. HIDE DEF s
  <2>2. /\ attach \in Seq(Nodes) /\ Len(attach) = Len(s)
        /\ \A i \in 1 .. Len(s) : Len(s) - i + 1 \in 1 .. Len(s) /\ attach[i] = s[Len(s) - i + 1]
    BY <2>1, ReverseFacts
  <2>. HIDE DEF attach
  <2>3. attach # <<>> /\ \A i \in 1 .. Len(attach) : parent[attach[i]] # NoNode
    BY <2>1, <2>2
  <2>4. /\ detach \in Seq(Nodes) /\ (detach # <<>> => detach[1] = bestChain)
        /\ \A i \in 1 .. Len(detach) : parent[detach[i]] # NoNode
        /\ \A i \in 1 .. Len(detach) - 1 : detach[i + 1] = parent[detach[i]]
    BY <1>1, <1>4, WalksFacts DEF NodesToDetach
  <2>. HIDE DEF detach
  <2>5. HashOf(bestChain) \in Blocks
    BY <1>4, NodeFacts
  <2>6. CallTypes'
    BY <1>1, <1>2, <1>5, <2>2, <2>4, <2>5 DEF CallTypes
  <2>7. CallInv'
    BY <1>5 DEF CallInv
  <2>8. ListsInv'
    <3>1. parent' = parent /\ bestChain' = bestChain
      BY <1>2 DEF memVars
    <3>. QED
      BY <1>5, <2>3, <2>4, <3>1 DEF ListsInv
  <2>. QED
    BY <1>2, <1>3, <2>6, <2>7, <2>8, Reassemble
<1>6. CASE Return
  <2>1. CallTypes' /\ CallInv' /\ ListsInv'
    BY <1>1, <1>2, <1>6, ReturnKeeps DEF CallTypes
  <2>. QED
    BY <1>2, <1>3, <2>1, Reassemble
<1>7. \/ /\ pc' = "reorganize" /\ attachNodes' = attach /\ detachNodes' = detach
         /\ oldTip' = HashOf(bestChain) /\ UNCHANGED <<block, prevNode, iterNode>>
      \/ Return
  BY DEF CompareWork, NodesToAttach
<1>. QED
  BY <1>5, <1>6, <1>7

\* The main chain below a block is the chain of its parent.
LEMMA ChainBelow ==
  ASSUME NEW b \in Blocks \ {Genesis}
  PROVE  {h \in Ancestry[b] : Height[h] < Height[b]} = Ancestry[Parent[b]]
<1>1. /\ Parent[b] \in Blocks /\ Height[b] = Height[Parent[b]] + 1
      /\ Ancestry[b] = Ancestry[Parent[b]] \cup {b}
      /\ Height[b] \in Nat /\ Height[Parent[b]] \in Nat
  BY TreeAssumption
<1>2. \A c \in Ancestry[Parent[b]] : Height[c] \in Nat /\ Height[c] <= Height[Parent[b]]
  BY <1>1, ChainsAreChains, TreeAssumption DEF ChainFacts
<1>. QED
  BY <1>1, <1>2

LEMMA DisconnectBlockKeeps ==
  ASSUME Inv, DisconnectBlock
  PROVE  Inv'
<1>. DEFINE n == Head(detachNodes)
<1>1. MemTypes /\ CallTypes /\ NodesInv /\ ListsInv /\ StoredChainLinked
  BY TypesSplit DEF Inv
<1>2. /\ pc = "reorganize" /\ detachNodes # <<>>
      /\ db' = {h \in db : Height[h] < Height[HashOf(n)]}
      /\ inMainChain' = inMainChain \ {n}
      /\ blockCache' = blockCache \cup {HashOf(n)}
      /\ bestChain' = parent[n]
      /\ detachNodes' = Tail(detachNodes)
      /\ UNCHANGED <<created, parent, children, index, depNodes, pc, block, prevNode,
                     iterNode, attachNodes, oldTip, highest, deepFork>>
  BY DEF DisconnectBlock
<1>. DEFINE d == detachNodes
<1>3. /\ d \in Seq(Nodes) /\ d # <<>> /\ d[1] = bestChain
      /\ \A i \in 1 .. Len(d) : parent[d[i]] # NoNode
      /\ \A i \in 1 .. Len(d) - 1 : d[i + 1] = parent[d[i]]
      /\ attachNodes # <<>> /\ \A i \in 1 .. Len(attachNodes) : parent[attachNodes[i]] # NoNode
  BY <1>1, <1>2 DEF ListsInv, CallTypes
<1>4. n = bestChain /\ n \in Nodes /\ parent[n] # NoNode /\ 1 \in 1 .. Len(d) /\ Len(d) \in Nat
  <2>1. Len(d) \in Nat \ {0}
    BY <1>3
  <2>. QED
    BY <1>3, <2>1
<1>5. /\ parent[n] \in Nodes /\ HashOf(n) \in Blocks \ {Genesis}
      /\ HashOf(parent[n]) = Parent[HashOf(n)]
  BY <1>1, <1>4, ParentIsLower DEF NodesInv, MemTypes
<1>6. /\ Tail(d) \in Seq(Nodes) /\ Len(Tail(d)) = Len(d) - 1
      /\ \A i \in 1 .. Len(d) - 1 : Tail(d)[i] = d[i + 1]
  BY <1>3
<1>. HIDE DEF n
<1>7. MemTypes'
  BY <1>1, <1>2 DEF MemTypes
<1>8. NodesInv'
  <2>1. LinksDown'
    BY <1>1, <1>2 DEF NodesInv, LinksDown
  <2>2. \A h \in Blocks : Indexed(h)' => HashOf(index[h])' = h /\ Made(index[h], created)'
    BY <1>1, <1>2 DEF NodesInv, Indexed, HashOf, Made
  <2>3. \A h \in Blocks \cup {NoBlock} : \A m \in ToSet(depNodes[h])' :
          ParentHash(HashOf(m)) = h /\ Made(m, created)'
    BY <1>1, <1>2 DEF NodesInv, Made, ToSet
  <2>4. \A m \in Nodes : ~Made(m, created)' =>
          parent'[m] = NoNode /\ children'[m] = {} /\ m \notin inMainChain'
    BY <1>1, <1>2 DEF NodesInv, Made
  <2>. QED
    BY <2>1, <2>2, <2>3, <2>4 DEF NodesInv
<1>9. CallTypes'
  BY <1>1, <1>2, <1>5, <1>6 DEF CallTypes
<1>10. CallInv'
  BY <1>2 DEF CallInv
<1>11. ListsInv'
  <2>. DEFINE e == Tail(d)
  <2>1. e # <<>> => e[1] = parent[n]
    <3>. SUFFICES ASSUME e # <<>> PROVE e[1] = parent[n]
      OBVIOUS
    <3>1. 1 \in 1 .. Len(d) - 1 /\ 1 + 1 = 2
      BY <1>4, <1>6
    <3>. QED
      BY <1>3, <1>4, <1>6, <3>1
  <2>2. \A i \in 1 .. Len(e) : parent[e[i]] # NoNode
    <3>. TAKE i \in 1 .. Len(e)
    <3>1. i \in 1 .. Len(d) - 1 /\ i + 1 \in 1 .. Len(d)
      BY <1>4, <1>6
    <3>. QED
      BY <1>3, <1>6, <3>1
  <2>3. \A i \in 1 .. Len(e) - 1 : e[i + 1] = parent[e[i]]
    <3>. TAKE i \in 1 .. Len(e) - 1
    <3>1. i \in 1 .. Len(d) - 1 /\ i + 1 \in 1 .. Len(d) - 1
      BY <1>4, <1>6
    <3>. QED
      BY <1>3, <1>6, <3>1
  <2>. HIDE DEF e, d
  <2>4. detachNodes' = e
    BY <1>2 DEF e, d
  <2>. QED
    BY <1>2, <1>3, <2>1, <2>2, <2>3, <2>4 DEF ListsInv
<1>12. StoredChainLinked'
  <2>1. db' = Ancestry[Parent[HashOf(n)]]
    BY <1>1, <1>2, <1>4, <1>5, ChainBelow DEF StoredChainLinked
  <2>2. HashOf(bestChain)' = Parent[HashOf(n)]
    BY <1>2, <1>5 DEF HashOf
  <2>. QED
    BY <2>1, <2>2 DEF StoredChainLinked
<1>13. TypeOK'
  BY <1>7, <1>9 DEF TypeOK, MemTypes, CallTypes
<1>. QED
  BY <1>8, <1>10, <1>11, <1>12, <1>13 DEF Inv

LEMMA ConnectBlockKeeps ==
  ASSUME Inv, ConnectBlock
  PROVE  Inv'
<1>. DEFINE n == Head(attachNodes)
<1>1. MemTypes /\ CallTypes /\ NodesInv /\ ListsInv /\ StoredChainLinked
  BY TypesSplit DEF Inv
<1>2. pc = "reorganize" /\ detachNodes = <<>> /\ UNCHANGED deepFork
  BY DEF ConnectBlock
<1>. DEFINE a == attachNodes
<1>3. a \in Seq(Nodes) /\ a # <<>> /\ \A i \in 1 .. Len(a) : parent[a[i]] # NoNode
  BY <1>1, <1>2 DEF ListsInv, CallTypes
<1>4. n \in Nodes /\ parent[n] # NoNode /\ Len(a) \in Nat
  <2>1. Len(a) \in Nat \ {0}
    BY <1>3
  <2>. QED
    BY <1>3, <2>1
<1>5. /\ HashOf(n) \in Blocks \ {Genesis} /\ Parent[HashOf(n)] \in Blocks
  BY <1>1, <1>4, ParentIsLower DEF NodesInv, MemTypes
<1>6. Made(n, created)
  BY <1>1, <1>4 DEF NodesInv
<1>7. CASE ~ExtendsMainChain(n)
  <2>1. Return /\ UNCHANGED <<db, created, memVars, bestChain, blockCache, highest>>
    BY <1>7 DEF ConnectBlock
  <2>2. MemTypes' /\ NodesInv'
    BY <1>1, <2>1, NodesStay
  <2>3. CallTypes' /\ CallInv' /\ ListsInv'
    BY <1>1, <1>2, <2>1, ReturnKeeps DEF CallTypes
  <2>. QED
    BY <2>1, <2>2, <2>3, Reassemble
<1>8. CASE ExtendsMainChain(n)
  <2>1. /\ db' = db \cup {HashOf(n)}
        /\ inMainChain' = inMainChain \cup {n}
        /\ index' = [index EXCEPT ![HashOf(n)] = n]
        /\ depNodes' = [depNodes EXCEPT ![Parent[HashOf(n)]] = Append(@, n)]
        /\ bestChain' = n /\ highest' = Higher(HashOf(n))
        /\ blockCache' = blockCache \ {HashOf(n)}
        /\ UNCHANGED <<created, parent, children>>
    BY <1>8 DEF ConnectBlock
  <2>2. \/ /\ Len(a) > 1 /\ attachNodes' = Tail(a)
           /\ UNCHANGED <<pc, block, prevNode, iterNode, detachNodes, oldTip>>
        \/ pc' = "panic" /\ UNCHANGED <<block, prevNode, iterNode, reorgVars>>
        \/ Return
    BY <1>8 DEF ConnectBlock
  <2>. HIDE DEF n
  <2>3. /\ depNodes' \in [Blocks \cup {NoBlock} -> Seq(Nodes)]
        /\ ToSet(depNodes'[Parent[HashOf(n)]]) = ToSet(depNodes[Parent[HashOf(n)]]) \cup {n}
        /\ \A g \in Blocks \cup {NoBlock} : g # Parent[HashOf(n)] => depNodes'[g] = depNodes[g]
    <3>1. depNodes \in [Blocks \cup {NoBlock} -> Seq(Nodes)]
      BY <1>1 DEF MemTypes
    <3>2. Parent[HashOf(n)] \in Blocks \cup {NoBlock}
      BY <1>5
    <3>. QED
      BY <1>4, <2>1, <3>1, <3>2, AppendedNode
  <2>4. MemTypes'
    BY <1>1, <1>4, <1>5, <2>1, <2>3 DEF MemTypes
  <2>5. NodesInv'
    <3>1. LinksDown'
      BY <1>1, <2>1 DEF NodesInv, LinksDown
    <3>2. \A h \in Blocks : Indexed(h)' => HashOf(index[h])' = h /\ Made(index[h], created)'
      <4>. SUFFICES ASSUME NEW h \in Blocks, index'[h] # NoNode
                    PROVE  HashOf(index'[h]) = h /\ Made(index'[h], created)
        BY <2>1 DEF Indexed, HashOf, Made
      <4>1. CASE h = HashOf(n)
        BY <1>1, <1>6, <2>1, <4>1 DEF MemTypes
      <4>2. CASE h # HashOf(n)
        BY <1>1, <2>1, <4>2 DEF MemTypes, NodesInv, Indexed
      <4>. QED
        BY <4>1, <4>2
    <3>3. \A g \in Blocks \cup {NoBlock} : \A m \in ToSet(depNodes[g])' :
            ParentHash(HashOf(m)) = g /\ Made(m, created)'
      <4>. SUFFICES ASSUME NEW g \in Blocks \cup {NoBlock}, NEW m \in ToSet(depNodes'[g])
                    PROVE  ParentHash(HashOf(m)) = g /\ Made(m, created)
        BY <2>1 DEF ToSet, Made
      <4>1. m \in ToSet(depNodes[g]) \/ (g = Parent[HashOf(n)] /\ m = n)
        <5>1. CASE g = Parent[HashOf(n)]
          BY <2>3, <5>1
        <5>2. CASE g # Parent[HashOf(n)]
          BY <2>3, <5>2
        <5>. QED
          BY <5>1, <5>2
      <4>. QED
        BY <1>1, <1>5, <1>6, <4>1 DEF NodesInv, ParentHash
    <3>4. \A m \in Nodes : ~Made(m, created)' =>
            parent'[m] = NoNode /\ children'[m] = {} /\ m \notin inMainChain'
      BY <1>1, <1>6, <2>1 DEF NodesInv, Made
    <3>. QED
      BY <3>1, <3>2, <3>3, <3>4 DEF NodesInv
  <2>6. highest' \in Nat
    <3>1. highest \in Nat /\ Height[HashOf(n)] \in Nat
      BY <1>1, <1>5, TreeAssumption DEF CallTypes
    <3>2. Max({highest, Height[HashOf(n)]}) \in {highest, Height[HashOf(n)]}
      BY <3>1, LargerOfTwo
    <3>. QED
      BY <2>1, <3>1, <3>2 DEF Higher
  <2>7. db' \subseteq Blocks /\ bestChain' \in Nodes /\ blockCache' \subseteq Blocks
    BY <1>1, <1>4, <1>5, <2>1 DEF CallTypes
  <2>8. CallTypes' /\ CallInv' /\ ListsInv'
    <3>1. CASE /\ Len(a) > 1 /\ attachNodes' = Tail(a)
               /\ UNCHANGED <<pc, block, prevNode, iterNode, detachNodes, oldTip>>
      <4>1. /\ Tail(a) \in Seq(Nodes) /\ Len(Tail(a)) = Len(a) - 1 /\ Tail(a) # <<>>
            /\ \A i \in 1 .. Len(a) - 1 : Tail(a)[i] = a[i + 1]
        BY <1>3, <3>1
      <4>2. \A i \in 1 .. Len(Tail(a)) : parent[Tail(a)[i]] # NoNode
        <5>. TAKE i \in 1 .. Len(Tail(a))
        <5>1. i \in 1 .. Len(a) - 1 /\ i + 1 \in 1 .. Len(a)
          BY <1>4, <4>1
        <5>. QED
          BY <1>3, <4>1, <5>1
      <4>3. CallTypes'
        BY <1>1, <1>2, <2>6, <2>7, <3>1, <4>1 DEF CallTypes
      <4>4. CallInv'
        BY <1>2, <3>1 DEF CallInv
      <4>5. ListsInv'
        <5>. DEFINE e == Tail(a)
        <5>. HIDE DEF e
        <5>1. attachNodes' = e /\ e # <<>> /\ \A i \in 1 .. Len(e) : parent[e[i]] # NoNode
          BY <3>1, <4>1, <4>2 DEF e
        <5>2. detachNodes' = <<>> /\ Len(detachNodes') = 0
          BY <1>2, <3>1
        <5>. QED
          BY <2>1, <5>1, <5>2 DEF ListsInv
      <4>. QED
        BY <4>3, <4>4, <4>5
    <3>2. CASE pc' = "panic" /\ UNCHANGED <<block, prevNode, iterNode, reorgVars>>
      BY <1>1, <1>2, <2>6, <2>7, <3>2 DEF CallTypes, CallInv, ListsInv, reorgVars
    <3>3. CASE Return
      BY <1>2, <2>6, <2>7, <3>3, ReturnKeeps, <1>1 DEF CallTypes
    <3>. QED
      BY <2>2, <3>1, <3>2, <3>3
  <2>9. StoredChainLinked'
    <3>1. Parent[HashOf(n)] = HashOf(bestChain)
      BY <1>8 DEF ExtendsMainChain, n
    <3>2. db' = Ancestry[HashOf(n)]
      BY <1>1, <1>5, <2>1, <3>1, TreeAssumption DEF StoredChainLinked
    <3>3. HashOf(bestChain)' = HashOf(n)
      BY <2>1 DEF HashOf
    <3>. QED
      BY <3>2, <3>3 DEF StoredChainLinked
  <2>10. TypeOK'
    BY <2>4, <2>8 DEF TypeOK, MemTypes, CallTypes
  <2>. QED
    BY <2>5, <2>8, <2>9, <2>10 DEF Inv
<1>. QED
  BY <1>7, <1>8


LEMMA RestartKeeps ==
  ASSUME Inv, Restart
  PROVE  Inv'
<1>. DEFINE tip == Highest(db)
            loaded == {h \in db : Height[h] + MinMemoryNodes >= Height[tip]}
            above(h) == {<<c, 1>> : c \in {d \in loaded : ParentHash(d) = h}}
<1>1. MemTypes /\ CallTypes /\ StoredChainLinked
  BY TypesSplit DEF Inv
<1>2. /\ created' = [h \in Blocks |-> IF h \in loaded THEN 1 ELSE 0]
      /\ parent' = [m \in Nodes |->
            IF m \in above(ParentHash(HashOf(m))) /\ ParentHash(HashOf(m)) \in loaded
            THEN <<ParentHash(HashOf(m)), 1>> ELSE NoNode]
      /\ children' = [m \in Nodes |-> IF m = <<HashOf(m), 1>> /\ HashOf(m) \in loaded
                                     THEN above(HashOf(m)) ELSE {}]
      /\ inMainChain' = {<<h, 1>> : h \in loaded}
      /\ index' = [h \in Blocks |-> IF h \in loaded THEN <<h, 1>> ELSE NoNode]
      /\ depNodes' = [h \in Blocks \cup {NoBlock} |-> SetToSeq(above(h))]
      /\ bestChain' = <<tip, 1>> /\ blockCache' = {} /\ Return
      /\ highest' = Height[tip] /\ deepFork' = FALSE /\ UNCHANGED db
  BY DEF Restart
<1>3. tip = HashOf(bestChain) /\ tip \in db /\ tip \in Blocks
  <2>1. HashOf(bestChain) \in Blocks /\ db = Ancestry[HashOf(bestChain)]
    BY <1>1, NodeFacts DEF CallTypes, StoredChainLinked
  <2>2. HashOf(bestChain) \in Ancestry[HashOf(bestChain)]
    BY <2>1, ChainsAreChains DEF ChainFacts
  <2>. QED
    BY <2>1, <2>2, HighestOfChain
<1>4. loaded \subseteq Blocks /\ IsFiniteSet(Blocks) /\ Height \in [Blocks -> Nat]
      /\ Genesis \in Blocks
  BY <1>1, TreeAssumption DEF CallTypes
<1>. HIDE DEF loaded, tip
<1>5. /\ \A h \in Blocks : <<h, 1>> \in Nodes /\ HashOf(<<h, 1>>) = h /\ <<h, 1>>[2] = 1
      /\ NoNode \notin Nodes /\ 1 \in 0 .. MaxNodes /\ 0 \in 0 .. MaxNodes
      /\ \A n \in Nodes : HashOf(n) \in Blocks /\ n[2] \in 1 .. MaxNodes
      /\ NoBlock \notin Blocks
  <2>1. 1 \in 1 .. MaxNodes /\ 1 \in 0 .. MaxNodes /\ 0 \in 0 .. MaxNodes
    BY IndexAssumption
  <2>. QED
    BY <2>1, NodeFacts, IndexAssumption
<1>6. \A h : \A m \in above(h) :
        m \in Nodes /\ HashOf(m) \in loaded /\ ParentHash(HashOf(m)) = h /\ m[2] = 1
  BY <1>4, <1>5
<1>7. \A h : SetToSeq(above(h)) \in Seq(Nodes) /\ ToSet(SetToSeq(above(h))) = above(h)
  <2>. TAKE h
  <2>. DEFINE S == above(h)
              C == {d \in loaded : ParentHash(d) = h}
  <2>1. IsFiniteSet(S)
    <3>1. IsFiniteSet(C)
      BY <1>4, FS_Subset
    <3>. HIDE DEF C
    <3>. DEFINE T == {<<c, 1>> : c \in C}
                f == [c \in C |-> <<c, 1>>]
    <3>2. f \in Surjection(C, T)
      BY DEF Surjection
    <3>3. IsFiniteSet(T)
      <4>. HIDE DEF T, f
      <4>. QED
        BY <3>1, <3>2, FS_Surjection
    <3>. QED
      BY <3>3 DEF C
  <2>2. S \subseteq Nodes
    BY <1>6
  <2>. HIDE DEF S
  <2>3. SetToSeq(S) \in Seq(S) /\ ToSet(SetToSeq(S)) = S
    BY <2>1, ListOfSet
  <2>. QED
    BY <2>2, <2>3 DEF S
<1>. HIDE DEF above
<1>8. MemTypes'
  <2>1. created' \in [Blocks -> 0 .. MaxNodes] /\ index' \in [Blocks -> Nodes \cup {NoNode}]
    BY <1>2, <1>4, <1>5
  <2>2. parent' \in [Nodes -> Nodes \cup {NoNode}]
    BY <1>2, <1>4, <1>5
  <2>3. children' \in [Nodes -> SUBSET Nodes]
    BY <1>2, <1>6
  <2>4. inMainChain' \subseteq Nodes
    BY <1>2, <1>4, <1>5
  <2>5. depNodes' \in [Blocks \cup {NoBlock} -> Seq(Nodes)]
    BY <1>2, <1>7
  <2>. QED
    BY <2>1, <2>2, <2>3, <2>4, <2>5 DEF MemTypes
<1>9. \A m \in Nodes : HashOf(m) \in loaded /\ m[2] = 1 => Made(m, created')
  BY <1>2, <1>4 DEF Made
<1>10. NodesInv'
  <2>1. LinksDown'
    <3>. SUFFICES ASSUME NEW m \in Nodes, parent'[m] # NoNode
                  PROVE  HashOf(m) # Genesis /\ HashOf(parent'[m]) = Parent[HashOf(m)]
      BY DEF LinksDown
    <3>1. ParentHash(HashOf(m)) \in loaded /\ parent'[m] = <<ParentHash(HashOf(m)), 1>>
      BY <1>2
    <3>2. HashOf(parent'[m]) = ParentHash(HashOf(m)) /\ ParentHash(HashOf(m)) # NoBlock
      BY <1>4, <1>5, <3>1
    <3>. QED
      BY <3>2 DEF ParentHash
  <2>2. \A h \in Blocks : Indexed(h)' => HashOf(index[h])' = h /\ Made(index[h], created)'
    <3>. SUFFICES ASSUME NEW h \in Blocks, index'[h] # NoNode
                  PROVE  HashOf(index'[h]) = h /\ Made(index'[h], created')
      BY DEF Indexed, HashOf, Made
    <3>1. h \in loaded /\ index'[h] = <<h, 1>>
      BY <1>2
    <3>. QED
      BY <1>5, <1>9, <3>1
  <2>3. \A h \in Blocks \cup {NoBlock} : \A m \in ToSet(depNodes[h])' :
          ParentHash(HashOf(m)) = h /\ Made(m, created)'
    <3>. SUFFICES ASSUME NEW h \in Blocks \cup {NoBlock}, NEW m \in ToSet(depNodes'[h])
                  PROVE  ParentHash(HashOf(m)) = h /\ Made(m, created')
      BY DEF ToSet, Made
    <3>1. m \in above(h)
      BY <1>2, <1>7
    <3>. QED
      BY <1>6, <1>9, <3>1
  <2>4. \A m \in Nodes : ~Made(m, created)' =>
          parent'[m] = NoNode /\ children'[m] = {} /\ m \notin inMainChain'
    <3>. SUFFICES ASSUME NEW m \in Nodes, ~Made(m, created')
                  PROVE  parent'[m] = NoNode /\ children'[m] = {} /\ m \notin inMainChain'
      BY DEF Made
    <3>1. ~(HashOf(m) \in loaded /\ m[2] = 1)
      BY <1>9
    <3>2. m # <<HashOf(m), 1>> \/ HashOf(m) \notin loaded
      BY <1>4, <1>5, <1>6, <3>1
    <3>3. parent'[m] = NoNode
      BY <1>2, <1>6, <3>1
    <3>4. children'[m] = {}
      BY <1>2, <3>2
    <3>5. m \notin inMainChain'
      BY <1>2, <1>4, <1>5, <3>1
    <3>. QED
      BY <3>3, <3>4, <3>5
  <2>. QED
    BY <2>1, <2>2, <2>3, <2>4 DEF NodesInv
<1>11. CallTypes' /\ CallInv' /\ ListsInv'
  BY <1>1, <1>2, <1>3, <1>4, <1>5, ReturnKeeps DEF CallTypes
<1>12. StoredChainLinked'
  <2>1. HashOf(bestChain)' = tip /\ db' = db
    BY <1>2, <1>3, <1>5 DEF HashOf
  <2>. QED
    BY <1>1, <1>3, <2>1 DEF StoredChainLinked
<1>13. TypeOK'
  BY <1>8, <1>11 DEF TypeOK, MemTypes, CallTypes
<1>. QED
  BY <1>10, <1>11, <1>12, <1>13 DEF Inv

-----------------------------------------------------------------------------
LEMMA StepKeeps ==
  ASSUME Inv, [Next]_vars
  PROVE  Inv'
<1>1. CASE UNCHANGED vars
  BY <1>1 DEF vars, memVars, reorgVars, Inv, TypeOK, NodesInv, LinksDown, CallInv, ListsInv,
              StoredChainLinked, Indexed, HashOf, Made
<1>2. CASE Restart
  BY <1>2, RestartKeeps
<1>3. CASE \E b \in Blocks \ {Genesis} : AcceptBlock(b)
  BY <1>3, AcceptBlockKeeps
<1>4. CASE LookBack
  BY <1>4, LookBackKeeps
<1>5. CASE NextCheck \/ RejectBlock \/ LoseNode
  BY <1>5, WalkingKeeps
<1>6. CASE PruneBlockNodes
  BY <1>6, PruneBlockNodesKeeps
<1>7. CASE ReloadParent
  BY <1>7, ReloadParentKeeps
<1>8. CASE ExtendMainChain
  BY <1>8, ExtendMainChainKeeps
<1>9. CASE AddSideBlock
  BY <1>9, AddSideBlockKeeps
<1>10. CASE CompareWork
  BY <1>10, CompareWorkKeeps
<1>11. CASE DisconnectBlock
  BY <1>11, DisconnectBlockKeeps
<1>12. CASE ConnectBlock
  BY <1>12, ConnectBlockKeeps
<1>. QED
  BY <1>1, <1>2, <1>3, <1>4, <1>5, <1>6, <1>7, <1>8, <1>9, <1>10, <1>11, <1>12 DEF Next, Step

THEOREM AlwaysInv == Spec => []Inv
<1>1. Init => Inv
  BY InitHolds
<1>2. Inv /\ [Next]_vars => Inv'
  BY StepKeeps
<1>. QED
  BY <1>1, <1>2, PTL DEF Spec

\* Type correctness.
THEOREM TypeCorrect == Spec => []TypeOK
<1>1. Inv => TypeOK
  BY DEF Inv
<1>. QED
  BY <1>1, AlwaysInv, PTL

\* No pruning, loading or reorganization leaves a gap in the stored main chain, even one
\* that stops halfway because a fork was too deep for the nodes in memory.
THEOREM StoredChain == Spec => []StoredChainLinked
<1>1. Inv => StoredChainLinked
  BY DEF Inv
<1>. QED
  BY <1>1, AlwaysInv, PTL


-----------------------------------------------------------------------------
(***************************************************************************)
(* The memory as long as no fork was deep.  The links of the indexed nodes *)
(* agree both ways, and the marks and the lists of dependent nodes agree   *)
(* with the database.                                                      *)
(***************************************************************************)
Linked(n) ==
  /\ parent[n] # NoNode => parent[n] = index[Parent[HashOf(n)]] /\ n \in children[parent[n]]
  /\ \A c \in children[n] : parent[c] = n

LinksInv == \A h \in Blocks : Indexed(h) => Linked(index[h])

MarksInv ==
  \A h \in Blocks : Indexed(h) =>
    /\ index[h] \in inMainChain <=> h \in db
    /\ h \in db \ {Genesis} => index[h] \in ToSet(depNodes[Parent[h]])

(***************************************************************************)
(* What is in memory of the main chain is its end, without a gap, and it   *)
(* reaches down to where no block that is not a deep fork can fork off: a  *)
(* node without a parent, on a side branch too, lies that low.             *)
(***************************************************************************)
WindowInv ==
  /\ \A h \in Blocks : Indexed(h) /\ parent[index[h]] = NoNode =>
       h = Genesis \/ Height[h] + MinMemoryNodes <= highest + 1
  /\ \A h \in db : ~Indexed(h) => Height[h] + MinMemoryNodes <= highest
  /\ \A h \in db \ {Genesis} : Indexed(Parent[h]) => Indexed(h) /\ parent[index[h]] # NoNode
  /\ bestChain = index[HashOf(bestChain)]
  /\ Height[HashOf(bestChain)] <= highest

MemoryInv == LinksInv /\ MarksInv /\ WindowInv

(***************************************************************************)
(* What a call relies on: its parent stays indexed, a check never leaves   *)
(* the chain of the parent, the pruning is complete, and a reorganization  *)
(* starts and goes on where its lists meet.                                *)
(***************************************************************************)
WalkInv ==
  /\ pc \in {"check", "reload", "recheck"} => prevNode = index[Parent[block]]
  /\ pc \in {"check", "reload", "recheck", "compare"} => ~ForksDeep(block)
  /\ pc \in {"check", "recheck"} =>
       iterNode = index[HashOf(iterNode)] /\ HashOf(iterNode) \in Ancestry[Parent[block]]
  /\ pc = "reload" =>
       \A h \in db : Indexed(h) => Height[h] + MinMemoryNodes > Height[HashOf(bestChain)]

MeetInv ==
  pc = "reorganize" =>
    /\ IF detachNodes = <<>> THEN HashOf(bestChain) = Parent[HashOf(attachNodes[1])]
       ELSE Parent[HashOf(detachNodes[Len(detachNodes)])] = Parent[HashOf(attachNodes[1])]
    /\ \A i \in 1 .. Len(attachNodes) : attachNodes[i] = index[HashOf(attachNodes[i])]
    /\ \A i \in 1 .. Len(attachNodes) - 1 :
         Parent[HashOf(attachNodes[i + 1])] = HashOf(attachNodes[i])
    /\ Work[HashOf(attachNodes[Len(attachNodes)])] > Work[oldTip]

Shallow == MemoryInv /\ WalkInv /\ MeetInv

LEMMA Context ==
  ASSUME Inv
  PROVE  /\ MemTypes /\ CallTypes /\ NodesInv /\ CallInv /\ ListsInv /\ StoredChainLinked
         /\ MinMemoryNodes \in Nat \ {0} /\ Height \in [Blocks -> Nat] /\ highest \in Nat
         /\ db \subseteq Blocks /\ Genesis \in db /\ HashOf(bestChain) \in db
         /\ db = Ancestry[HashOf(bestChain)]
         /\ \A c \in db : /\ Height[c] <= Height[HashOf(bestChain)]
                          /\ Ancestry[c] \subseteq db
                          /\ \A d \in db : Height[c] = Height[d] => c = d
         /\ \A c \in db \ {Genesis} : Parent[c] \in db /\ Height[c] = Height[Parent[c]] + 1
         /\ \A h \in Blocks : Indexed(h) => index[h] \in Nodes /\ HashOf(index[h]) = h
         /\ NoNode \notin Nodes
<1>1. MemTypes /\ CallTypes /\ NodesInv /\ CallInv /\ ListsInv /\ StoredChainLinked
  BY TypesSplit DEF Inv
<1>2. HashOf(bestChain) \in Blocks /\ db = Ancestry[HashOf(bestChain)] /\ db \subseteq Blocks
      /\ highest \in Nat
  BY <1>1, NodeFacts DEF CallTypes, StoredChainLinked
<1>3. ChainFacts(HashOf(bestChain))
  BY <1>2, ChainsAreChains
<1>4. Genesis \in db /\ HashOf(bestChain) \in db
      /\ \A c \in db : Height[c] <= Height[HashOf(bestChain)]
  BY <1>2, <1>3 DEF ChainFacts
<1>5. \A c \in db : /\ Ancestry[c] \subseteq db /\ (c # Genesis => Parent[c] \in db)
                    /\ \A d \in db : Height[c] = Height[d] => c = d
  BY <1>2, ChainMembers
<1>6. MinMemoryNodes \in Nat \ {0} /\ Height \in [Blocks -> Nat]
  BY IndexAssumption, TreeAssumption
<1>7. \A c \in db \ {Genesis} : Height[c] = Height[Parent[c]] + 1
  BY <1>2, TreeAssumption
<1>8. \A h \in Blocks : Indexed(h) => index[h] \in Nodes /\ HashOf(index[h]) = h
  BY <1>1 DEF MemTypes, NodesInv, Indexed
<1>. QED
  BY <1>1, <1>2, <1>4, <1>5, <1>6, <1>7, <1>8, NodeFacts

(***************************************************************************)
(* The line of an indexed node is made of indexed nodes, and that of the   *)
(* best node holds every block of the main chain that has a node.          *)
(***************************************************************************)
LEMMA LineIsIndexed ==
  ASSUME Inv, MemoryInv, NEW n \in Nodes, n = index[HashOf(n)]
  PROVE  \A i \in 1 .. Len(Line(n)) : Line(n)[i] = index[HashOf(Line(n)[i])]
<1>. DEFINE s == Line(n)
            I == {i \in Nat : i \in 1 .. Len(s) => s[i] = index[HashOf(s[i])]}
<1>0. MemTypes /\ NodesInv
  BY Context
<1>1. IsLine(Line(n), n)
  BY <1>0, LineFacts DEF MemTypes, NodesInv
<1>. HIDE DEF s
<1>2. IsLine(s, n)
  BY <1>1 DEF s
<1>3. 0 \in I
  OBVIOUS
<1>4. ASSUME NEW i \in Nat, i \in I PROVE i + 1 \in I
  <2>. SUFFICES ASSUME i + 1 \in 1 .. Len(s)
                PROVE  s[i + 1] = index[HashOf(s[i + 1])]
    OBVIOUS
  <2>0. s \in Seq(Nodes) /\ Len(s) \in Nat \ {0} /\ s[1] = n
    BY <1>2 DEF IsLine
  <2>1. CASE i = 0
    BY <2>0, <2>1
  <2>2. CASE i # 0
    <3>1. i \in 1 .. Len(s) - 1 /\ i \in 1 .. Len(s)
      BY <2>0, <2>2
    <3>2. s[i] \in Nodes /\ s[i] = index[HashOf(s[i])] /\ HashOf(s[i]) \in Blocks
      BY <1>4, <2>0, <3>1, NodeFacts
    <3>3. parent[s[i]] # NoNode /\ s[i + 1] = parent[s[i]]
      BY <1>2, <3>1 DEF IsLine
    <3>4. Indexed(HashOf(s[i]))
      BY <3>2, NodeFacts DEF Indexed
    <3>5. parent[s[i]] = index[Parent[HashOf(s[i])]]
      BY <3>2, <3>3, <3>4 DEF MemoryInv, LinksInv, Linked
    <3>6. HashOf(parent[s[i]]) = Parent[HashOf(s[i])]
      BY <1>0, <3>2, <3>3 DEF NodesInv, LinksDown
    <3>. QED
      BY <3>3, <3>5, <3>6
  <2>. QED
    BY <2>1, <2>2
<1>. HIDE DEF I
<1>5. Nat \subseteq I
  BY <1>3, <1>4, NaturalInduction
<1>6. Len(s) \in Nat /\ \A i \in 1 .. Len(s) : i \in I
  BY <1>2, <1>5 DEF IsLine
<1>. QED
  BY <1>6 DEF I, s

\* Below a block of the main chain that has no node, none has.
LEMMA NothingBelow ==
  ASSUME Inv, MemoryInv, NEW k \in db, ~Indexed(k)
  PROVE  \A j \in Ancestry[k] : ~Indexed(j)
<1>. DEFINE S == {b \in Blocks : b \in db /\ ~Indexed(b) => \A j \in Ancestry[b] : ~Indexed(j)}
<1>1. Genesis \in S
  BY TreeAssumption
<1>2. ASSUME NEW b \in Blocks \ {Genesis}, Parent[b] \in S PROVE b \in S
  <2>. SUFFICES ASSUME b \in db, ~Indexed(b) PROVE \A j \in Ancestry[b] : ~Indexed(j)
    OBVIOUS
  <2>1. Parent[b] \in db /\ ~Indexed(Parent[b])
    BY Context DEF MemoryInv, WindowInv
  <2>2. \A j \in Ancestry[Parent[b]] : ~Indexed(j)
    BY <1>2, <2>1
  <2>. QED
    BY <2>2, TreeAssumption
<1>. HIDE DEF S
<1>3. Blocks \subseteq S
  BY <1>1, <1>2, ChainInduction
<1>4. k \in Blocks
  BY Context
<1>. QED
  BY <1>3, <1>4 DEF S

LEMMA LineIsMainChain ==
  ASSUME Inv, MemoryInv
  PROVE  /\ IsLine(Line(bestChain), bestChain)
         /\ \A i \in 1 .. Len(Line(bestChain)) :
              LET m == Line(bestChain)[i]
              IN  m \in Nodes /\ HashOf(m) \in db /\ m = index[HashOf(m)]
         /\ \A h \in db : Indexed(h) =>
              \E i \in 1 .. Len(Line(bestChain)) : Line(bestChain)[i] = index[h]
<1>. DEFINE s == Line(bestChain)
            low == HashOf(s[Len(s)])
<1>0. MemTypes /\ NodesInv /\ bestChain \in Nodes /\ bestChain = index[HashOf(bestChain)]
  BY Context DEF MemoryInv, WindowInv, CallTypes
<1>1. IsLine(Line(bestChain), bestChain)
  BY <1>0, LineFacts DEF MemTypes, NodesInv
<1>2. \A i \in 1 .. Len(s) : s[i] = index[HashOf(s[i])]
  BY <1>0, LineIsIndexed
<1>. HIDE DEF s
<1>3. IsLine(s, bestChain)
  BY <1>1 DEF s
<1>4. s \in Seq(Nodes) /\ Len(s) \in Nat \ {0} /\ Len(s) \in 1 .. Len(s)
  BY <1>3 DEF IsLine
<1>5. \A i \in 1 .. Len(s) : s[i] \in Nodes /\ HashOf(s[i]) \in db /\ s[i] = index[HashOf(s[i])]
  BY <1>2, <1>3, <1>4, Context DEF IsLine
<1>6. low \in db /\ parent[index[low]] = NoNode
  BY <1>3, <1>4, <1>5 DEF IsLine
<1>. HIDE DEF low
<1>7. \A i \in 1 .. Len(s) : Height[HashOf(s[i])] + i = Height[HashOf(bestChain)] + 1
  BY <1>3 DEF IsLine
<1>8. ASSUME NEW h \in db, Indexed(h)
      PROVE  \E i \in 1 .. Len(s) : s[i] = index[h]
  <2>0. /\ Height[h] \in Nat /\ Height[low] \in Nat /\ Height[HashOf(bestChain)] \in Nat
        /\ Height[h] <= Height[HashOf(bestChain)]
        /\ Height[low] + Len(s) = Height[HashOf(bestChain)] + 1
    BY <1>4, <1>6, <1>7, Context DEF low
  <2>1. CASE Height[h] >= Height[low]
    <3>. DEFINE i == Height[HashOf(bestChain)] + 1 - Height[h]
    <3>1. i \in 1 .. Len(s)
      BY <1>4, <2>0, <2>1
    <3>2. Height[HashOf(s[i])] = Height[h]
      <4>1. HashOf(s[i]) \in db /\ Height[HashOf(s[i])] + i = Height[HashOf(bestChain)] + 1
        BY <1>5, <1>7, <3>1
      <4>2. Height[HashOf(s[i])] \in Nat
        BY <4>1, Context
      <4>. QED
        BY <2>0, <4>1, <4>2
    <3>. HIDE DEF i
    <3>3. HashOf(s[i]) = h
      BY <1>5, <3>1, <3>2, Context
    <3>. QED
      BY <1>5, <3>1, <3>3
  <2>2. CASE Height[h] < Height[low]
    <3>1. low # Genesis
      BY <2>0, <2>2, TreeAssumption
    <3>2. Parent[low] \in db /\ ~Indexed(Parent[low]) /\ Height[low] = Height[Parent[low]] + 1
      BY <1>6, <3>1, Context DEF MemoryInv, WindowInv
    <3>3. h \in Ancestry[Parent[low]]
      <4>1. Height[Parent[low]] \in Nat /\ Height[h] <= Height[Parent[low]]
        BY <2>0, <2>2, <3>2, Context
      <4>2. /\ db = Ancestry[HashOf(bestChain)] /\ HashOf(bestChain) \in Blocks
        BY Context
      <4>3. Ancestry[Parent[low]] = {a \in db : Height[a] <= Height[Parent[low]]}
        BY <3>2, <4>2, ChainsAreChains DEF ChainFacts
      <4>. QED
        BY <4>1, <4>3
    <3>. QED
      BY <1>8, <3>2, <3>3, NothingBelow
  <2>. QED
    BY <2>0, <2>1, <2>2
<1>. QED
  BY <1>1, <1>5, <1>8 DEF s


\* What a fork that is not deep leaves in reach.
LEMMA ForkFacts ==
  ASSUME Inv, NEW b \in Blocks \ {Genesis}, b \notin db, ~ForksDeep(b)
  PROVE  /\ \A c \in Ancestry[b] : Height[c] + MinMemoryNodes <= highest + 1 => c \in db
         /\ Parent[b] \in db => Height[Parent[b]] + MinMemoryNodes > highest
<1>. DEFINE f == ForkBlock(b)
            S == Ancestry[b] \cap db
<1>0. /\ highest \in Nat /\ MinMemoryNodes \in Nat /\ Height \in [Blocks -> Nat]
      /\ db \subseteq Blocks /\ Genesis \in db /\ \A c \in db : Ancestry[c] \subseteq db
  BY Context
<1>1. /\ ChainFacts(b) /\ Parent[b] \in Blocks /\ ChainFacts(Parent[b])
      /\ Ancestry[b] = Ancestry[Parent[b]] \cup {b}
  BY ChainsAreChains, TreeAssumption
<1>2. f \in S /\ \A c \in S : Height[c] <= Height[f]
  <2>1. S # {} /\ S \in SUBSET Ancestry[b]
    BY <1>0, <1>1 DEF ChainFacts
  <2>. HIDE DEF S
  <2>2. Highest(S) \in S /\ \A c \in S : Height[c] <= Height[Highest(S)]
    BY <2>1, HasHighest
  <2>. QED
    BY <2>2 DEF S, ForkBlock
<1>3. ~(Height[f] + MinMemoryNodes <= highest)
  BY DEF ForksDeep
<1>. HIDE DEF f
<1>4. ASSUME NEW c \in Ancestry[b], Height[c] + MinMemoryNodes <= highest + 1
      PROVE  c \in db
  <2>1. c \in Blocks /\ Height[c] \in Nat /\ Height[f] \in Nat
    BY <1>0, <1>2, ChainMembers
  <2>2. Height[c] <= Height[f]
    BY <1>0, <1>3, <1>4, <2>1
  <2>3. c \in Ancestry[f]
    BY <1>1, <1>2, <2>2 DEF ChainFacts
  <2>. QED
    BY <1>0, <1>2, <2>3
<1>5. ASSUME Parent[b] \in db
      PROVE  Height[Parent[b]] + MinMemoryNodes > highest
  <2>1. Height[Parent[b]] <= Height[f]
    BY <1>1, <1>2, <1>5 DEF ChainFacts
  <2>2. Height[f] <= Height[Parent[b]]
    BY <1>1, <1>2 DEF ChainFacts
  <2>3. Height[f] \in Nat /\ Height[Parent[b]] \in Nat
    BY <1>0, <1>1, <1>2
  <2>. QED
    BY <1>0, <1>3, <2>1, <2>2, <2>3
<1>. QED
  BY <1>4, <1>5

\* loadBlockNode below the lowest node of the main chain.
LEMMA LoadsBelow ==
  ASSUME Inv, MemoryInv, NEW h \in db, ~Indexed(h), LoadBlockNode(h),
         \A k \in db \ {Genesis} : Parent[k] = h => Indexed(k),
         UNCHANGED <<db, bestChain, highest>>
  PROVE  /\ MemoryInv'
         /\ index' = [index EXCEPT ![h] = NewNode(h)]
<1>. DEFINE n == NewNode(h)
            dependents == ToSet(depNodes[h])
<1>1. /\ MemTypes /\ NodesInv /\ h \in Blocks /\ db \subseteq Blocks
      /\ highest \in Nat /\ MinMemoryNodes \in Nat /\ Height \in [Blocks -> Nat]
      /\ \A k \in Blocks : Indexed(k) => index[k] \in Nodes /\ HashOf(index[k]) = k
      /\ NoNode \notin Nodes
  BY Context
<1>2. Creates(h)
  BY DEF LoadBlockNode
<1>3. n \in Nodes /\ HashOf(n) = h /\ n # NoNode /\ ~Made(n, created)
  BY <1>1, <1>2, MakesNode DEF MemTypes
<1>4. ~(h # Genesis /\ Indexed(Parent[h]))
  BY DEF MemoryInv, WindowInv
<1>. HIDE DEF n
<1>5. /\ index' = [index EXCEPT ![h] = n]
      /\ inMainChain' = inMainChain \cup {n}
      /\ depNodes' = [depNodes EXCEPT ![ParentHash(h)] = Append(@, n)]
      /\ parent' = [m \in Nodes |-> IF m \in dependents THEN n ELSE parent[m]]
      /\ children' = [children EXCEPT ![n] = dependents]
  BY <1>4 DEF LoadBlockNode, n
<1>6. /\ ToSet(depNodes'[ParentHash(h)]) = ToSet(depNodes[ParentHash(h)]) \cup {n}
      /\ \A g \in Blocks \cup {NoBlock} : g # ParentHash(h) => depNodes'[g] = depNodes[g]
  <2>1. depNodes \in [Blocks \cup {NoBlock} -> Seq(Nodes)]
    BY <1>1 DEF MemTypes
  <2>2. ParentHash(h) \in Blocks \cup {NoBlock}
    BY <1>1, TreeAssumption DEF ParentHash
  <2>. QED
    BY <1>3, <1>5, <2>1, <2>2, AppendedNode
<1>7. \A m \in dependents : /\ m \in Nodes /\ m # n /\ HashOf(m) # Genesis
                            /\ Parent[HashOf(m)] = h /\ HashOf(m) # h
  <2>. TAKE m \in dependents
  <2>1. m \in Nodes
    BY <1>1 DEF MemTypes, ToSet
  <2>2. ParentHash(HashOf(m)) = h /\ Made(m, created)
    BY <1>1 DEF NodesInv
  <2>3. HashOf(m) # Genesis /\ Parent[HashOf(m)] = h
    BY <1>1, <2>2, IndexAssumption DEF ParentHash
  <2>4. HashOf(m) \in Blocks
    BY <2>1, NodeFacts
  <2>. QED
    BY <1>3, <2>1, <2>2, <2>3, <2>4, TreeAssumption
<1>8. parent[n] = NoNode /\ n \notin dependents
  BY <1>1, <1>3, <1>7 DEF NodesInv
<1>. HIDE DEF dependents
<1>9. index'[h] = n /\ parent'[n] = NoNode /\ children'[n] = dependents
  BY <1>1, <1>3, <1>5, <1>8 DEF MemTypes
<1>10. \A k \in Blocks \ {h} : index'[k] = index[k]
  BY <1>1, <1>5 DEF MemTypes
<1>11. \A m \in Nodes \ {n} : children'[m] = children[m]
  BY <1>1, <1>3, <1>5 DEF MemTypes
<1>12. LinksInv'
  <2>. SUFFICES ASSUME NEW k \in Blocks, index'[k] # NoNode, NEW m, m = index'[k]
                PROVE  /\ parent'[m] # NoNode =>
                            parent'[m] = index'[Parent[HashOf(m)]] /\ m \in children'[parent'[m]]
                       /\ \A c \in children'[m] : parent'[c] = m
    BY DEF LinksInv, Linked, Indexed, HashOf
  <2>1. CASE k = h
    BY <1>5, <1>7, <1>9, <2>1
  <2>2. CASE k # h
    <3>1. m = index[k] /\ Indexed(k) /\ m \in Nodes /\ HashOf(m) = k /\ m # n
      BY <1>1, <1>3, <1>10, <2>2 DEF Indexed
    <3>2. Linked(m)
      BY <3>1 DEF MemoryInv, LinksInv
    <3>3. CASE m \in dependents
      <4>1. parent'[m] = n /\ Parent[HashOf(m)] = h /\ m \in children'[n]
        BY <1>5, <1>7, <1>9, <3>1, <3>3
      <4>2. ASSUME NEW c \in children'[m] PROVE parent'[c] = m
        <5>1. c \in children[m] /\ c \in Nodes /\ parent[c] = m
          BY <1>1, <1>11, <3>1, <3>2 DEF Linked, MemTypes
        <5>2. HashOf(m) = Parent[HashOf(c)]
          BY <1>1, <3>1, <5>1 DEF NodesInv, LinksDown
        <5>3. c \notin dependents
          BY <1>7, <3>3, <5>2
        <5>. QED
          BY <1>5, <5>1, <5>3
      <4>. QED
        BY <1>9, <4>1, <4>2
    <3>4. CASE m \notin dependents
      <4>1. parent'[m] = parent[m]
        BY <1>5, <3>1, <3>4
      <4>2. ASSUME parent[m] # NoNode
            PROVE  parent[m] = index'[Parent[HashOf(m)]] /\ m \in children'[parent[m]]
        <5>1. parent[m] = index[Parent[HashOf(m)]] /\ m \in children[parent[m]]
          BY <3>2, <4>2 DEF Linked
        <5>2. parent[m] \in Nodes /\ Parent[HashOf(m)] \in Blocks
          BY <1>1, <3>1, <4>2, ParentIsLower DEF MemTypes, NodesInv
        <5>3. Parent[HashOf(m)] # h
          BY <4>2, <5>1 DEF Indexed
        <5>4. parent[m] # n
          BY <1>3, <1>1, <5>1, <5>2, <5>3 DEF Indexed
        <5>. QED
          BY <1>10, <1>11, <5>1, <5>2, <5>3, <5>4
      <4>3. ASSUME NEW c \in children'[m] PROVE parent'[c] = m
        <5>1. c \in children[m] /\ c \in Nodes /\ parent[c] = m
          BY <1>1, <1>11, <3>1, <3>2 DEF Linked, MemTypes
        <5>2. HashOf(m) = Parent[HashOf(c)]
          BY <1>1, <3>1, <5>1 DEF NodesInv, LinksDown
        <5>3. c \notin dependents
          BY <1>7, <2>2, <3>1, <5>2
        <5>. QED
          BY <1>5, <5>1, <5>3
      <4>. QED
        BY <4>1, <4>2, <4>3
    <3>. QED
      BY <3>3, <3>4
  <2>. QED
    BY <2>1, <2>2
<1>13. MarksInv'
  <2>. SUFFICES ASSUME NEW k \in Blocks, index'[k] # NoNode
                PROVE  /\ index'[k] \in inMainChain' <=> k \in db
                       /\ k \in db \ {Genesis} => index'[k] \in ToSet(depNodes'[Parent[k]])
    BY DEF MarksInv, Indexed, ToSet
  <2>1. CASE k = h
    BY <1>5, <1>6, <1>9, <2>1 DEF ParentHash
  <2>2. CASE k # h
    <3>1. index'[k] = index[k] /\ Indexed(k) /\ index[k] # n
      BY <1>1, <1>3, <1>10, <2>2 DEF Indexed
    <3>2. /\ index[k] \in inMainChain <=> k \in db
          /\ k \in db \ {Genesis} => index[k] \in ToSet(depNodes[Parent[k]])
      BY <3>1 DEF MemoryInv, MarksInv
    <3>3. k \in db \ {Genesis} => index[k] \in ToSet(depNodes'[Parent[k]])
      <4>. SUFFICES ASSUME k \in db \ {Genesis} PROVE index[k] \in ToSet(depNodes'[Parent[k]])
        OBVIOUS
      <4>1. Parent[k] \in Blocks \cup {NoBlock}
        BY TreeAssumption
      <4>2. CASE Parent[k] = ParentHash(h)
        BY <1>6, <3>2, <4>2
      <4>3. CASE Parent[k] # ParentHash(h)
        BY <1>6, <3>2, <4>1, <4>3
      <4>. QED
        BY <4>2, <4>3
    <3>. QED
      BY <1>5, <3>1, <3>2, <3>3
  <2>. QED
    BY <2>1, <2>2
<1>14. \A m \in Nodes : parent'[m] = NoNode => parent[m] = NoNode
  BY <1>3, <1>5
<1>15. WindowInv'
  <2>1. ASSUME NEW k \in Blocks, index'[k] # NoNode, parent'[index'[k]] = NoNode
        PROVE  k = Genesis \/ Height[k] + MinMemoryNodes <= highest + 1
    <3>1. CASE k = h
      <4>1. Height[h] + MinMemoryNodes <= highest /\ Height[h] \in Nat
        BY <1>1 DEF MemoryInv, WindowInv
      <4>. QED
        BY <1>1, <3>1, <4>1
    <3>2. CASE k # h
      <4>1. index'[k] = index[k] /\ Indexed(k) /\ index[k] \in Nodes
        BY <1>1, <1>10, <2>1, <3>2 DEF Indexed
      <4>. QED
        BY <1>14, <2>1, <4>1 DEF MemoryInv, WindowInv
    <3>. QED
      BY <3>1, <3>2
  <2>2. ASSUME NEW k \in db, index'[k] = NoNode
        PROVE  Height[k] + MinMemoryNodes <= highest
    <3>1. k # h
      BY <1>3, <1>9, <2>2
    <3>2. ~Indexed(k)
      BY <1>1, <1>10, <2>2, <3>1 DEF Indexed
    <3>. QED
      BY <3>2 DEF MemoryInv, WindowInv
  <2>3. ASSUME NEW k \in db \ {Genesis}, index'[Parent[k]] # NoNode
        PROVE  index'[k] # NoNode /\ parent'[index'[k]] # NoNode
    <3>0. k \in Blocks /\ Parent[k] \in Blocks /\ Parent[k] # k
      BY <1>1, TreeAssumption
    <3>1. CASE Parent[k] = h
      <4>1. Indexed(k) /\ index'[k] = index[k] /\ index[k] \in Nodes
        BY <1>1, <1>10, <3>0, <3>1
      <4>2. index[k] \in dependents
        BY <3>0, <3>1, <4>1 DEF MemoryInv, MarksInv, dependents
      <4>. QED
        BY <1>1, <1>3, <1>5, <4>1, <4>2
    <3>2. CASE Parent[k] # h
      <4>1. Indexed(Parent[k])
        BY <1>10, <2>3, <3>0, <3>2 DEF Indexed
      <4>2. Indexed(k) /\ parent[index[k]] # NoNode
        BY <4>1 DEF MemoryInv, WindowInv
      <4>3. index'[k] = index[k] /\ index[k] \in Nodes
        BY <1>1, <1>10, <3>0, <4>2
      <4>. QED
        BY <1>1, <1>14, <4>2, <4>3
    <3>. QED
      BY <3>1, <3>2
  <2>4. bestChain' = index'[HashOf(bestChain')]
    <3>1. bestChain = index[HashOf(bestChain)] /\ bestChain \in Nodes /\ HashOf(bestChain) \in Blocks
      BY Context DEF MemoryInv, WindowInv, CallTypes
    <3>2. HashOf(bestChain) # h
      BY <1>1, <3>1 DEF Indexed
    <3>. QED
      BY <1>10, <3>1, <3>2
  <2>5. Height[HashOf(bestChain)] <= highest
    BY DEF MemoryInv, WindowInv
  <2>. QED
    BY <2>1, <2>2, <2>3, <2>4, <2>5 DEF WindowInv, Indexed, HashOf
<1>. QED
  BY <1>5, <1>12, <1>13, <1>15 DEF MemoryInv, n


\* The nodes that are pruned are those of the main chain that lie low.
LEMMA PrunedAre ==
  ASSUME Inv, MemoryInv
  PROVE  \A m : m \in Pruned <=>
           \E h \in db : /\ Indexed(h) /\ m = index[h]
                         /\ Height[h] + MinMemoryNodes <= Height[HashOf(bestChain)]
<1>. DEFINE s == Line(bestChain)
            low(m) == \E h \in db : /\ Indexed(h) /\ m = index[h]
                                    /\ Height[h] + MinMemoryNodes <= Height[HashOf(bestChain)]
<1>0. /\ db \subseteq Blocks /\ MinMemoryNodes \in Nat \ {0} /\ Height \in [Blocks -> Nat]
      /\ HashOf(bestChain) \in db /\ NoNode \notin Nodes
      /\ \A h \in Blocks : Indexed(h) => HashOf(index[h]) = h
  BY Context
<1>1. /\ IsLine(s, bestChain)
      /\ \A i \in 1 .. Len(s) : s[i] \in Nodes /\ HashOf(s[i]) \in db /\ s[i] = index[HashOf(s[i])]
      /\ \A h \in db : Indexed(h) => \E i \in 1 .. Len(s) : s[i] = index[h]
  BY LineIsMainChain
<1>2. Pruned = {s[i] : i \in MinMemoryNodes + 1 .. Len(s)}
  BY DEF Pruned
<1>. HIDE DEF s
<1>3. /\ Len(s) \in Nat \ {0}
      /\ \A i \in 1 .. Len(s) : /\ Height[HashOf(s[i])] + i = Height[HashOf(bestChain)] + 1
                                /\ Height[HashOf(s[i])] \in Nat
                                /\ Height[HashOf(bestChain)] \in Nat
  BY <1>0, <1>1 DEF IsLine
<1>4. ASSUME NEW m \in Pruned PROVE low(m)
  <2>1. PICK i \in MinMemoryNodes + 1 .. Len(s) : m = s[i]
    BY <1>2
  <2>2. i \in 1 .. Len(s) /\ i \in Nat /\ i >= MinMemoryNodes + 1
    BY <1>0, <1>3
  <2>3. HashOf(m) \in db /\ m = index[HashOf(m)] /\ m \in Nodes
    BY <1>1, <2>1, <2>2
  <2>4. Height[HashOf(m)] + MinMemoryNodes <= Height[HashOf(bestChain)]
    <3>1. /\ Height[HashOf(m)] + i = Height[HashOf(bestChain)] + 1
          /\ Height[HashOf(m)] \in Nat /\ Height[HashOf(bestChain)] \in Nat
      BY <1>3, <2>1, <2>2
    <3>. QED
      BY <1>0, <2>2, <3>1
  <2>. QED
    BY <1>0, <2>3, <2>4 DEF Indexed
<1>5. ASSUME NEW m, low(m) PROVE m \in Pruned
  <2>1. PICK h \in db : /\ Indexed(h) /\ m = index[h]
                        /\ Height[h] + MinMemoryNodes <= Height[HashOf(bestChain)]
    BY <1>5
  <2>2. PICK i \in 1 .. Len(s) : s[i] = m
    BY <1>1, <2>1
  <2>3. HashOf(s[i]) = h
    BY <1>0, <2>1, <2>2
  <2>4. i \in MinMemoryNodes + 1 .. Len(s)
    <3>1. Height[h] + i = Height[HashOf(bestChain)] + 1 /\ Height[h] \in Nat
          /\ Height[HashOf(bestChain)] \in Nat
      BY <1>3, <2>3
    <3>. QED
      BY <1>0, <1>3, <2>1, <3>1
  <2>. QED
    BY <1>2, <2>2, <2>4
<1>. HIDE DEF low
<1>6. \A m : m \in Pruned <=> low(m)
  BY <1>4, <1>5
<1>. QED
  BY <1>6 DEF low

LEMMA PrunesMemory ==
  ASSUME Inv, MemoryInv, WalkInv, PruneBlockNodes
  PROVE  MemoryInv' /\ WalkInv' /\ MeetInv'
<1>. DEFINE gone == Pruned
            best == HashOf(bestChain)
            Low(h) == Height[h] + MinMemoryNodes <= Height[best]
<1>1. /\ MemTypes /\ NodesInv /\ CallInv /\ db \subseteq Blocks
      /\ highest \in Nat /\ MinMemoryNodes \in Nat \ {0} /\ Height \in [Blocks -> Nat]
      /\ \A k \in Blocks : Indexed(k) => index[k] \in Nodes /\ HashOf(index[k]) = k
      /\ NoNode \notin Nodes /\ HashOf(bestChain) \in db
  BY Context
<1>2. /\ pc = "check" /\ pc' = "reload"
      /\ index' = [h \in Blocks |-> IF \E n \in gone : HashOf(n) = h THEN NoNode ELSE index[h]]
      /\ parent' = Unlinked(gone)
      /\ children' = [m \in Nodes |-> IF m \in gone THEN {} ELSE children[m]]
      /\ depNodes' = [h \in Blocks \cup {NoBlock} |-> WithoutPruned(h, gone)]
      /\ UNCHANGED <<db, created, inMainChain, bestChain, blockCache, block, prevNode,
                     iterNode, reorgVars, highest, deepFork>>
  BY DEF PruneBlockNodes
<1>3. \A m : m \in gone <=> \E h \in db : Indexed(h) /\ m = index[h] /\ Low(h)
  BY PrunedAre
<1>. HIDE DEF gone
<1>4. /\ LinksInv /\ MarksInv /\ WindowInv
  BY DEF MemoryInv
<1>5. \A h \in Blocks : Indexed(h) => (index[h] \in gone <=> h \in db /\ Low(h))
  BY <1>1, <1>3
<1>6. \A h \in Blocks : (\E n \in gone : HashOf(n) = h) <=> h \in db /\ Low(h) /\ Indexed(h)
  BY <1>1, <1>3
<1>7. \A h \in Blocks : /\ index'[h] # NoNode => index'[h] = index[h] /\ Indexed(h)
                        /\ index'[h] # NoNode <=> Indexed(h) /\ ~(h \in db /\ Low(h))
  BY <1>2, <1>6 DEF Indexed
<1>8. \A m \in Nodes : parent'[m] = IF \E n \in gone : m \in children[n] THEN NoNode ELSE parent[m]
  BY <1>2 DEF Unlinked
<1>9. \A n \in gone : n \in Nodes /\ Linked(n) /\ \A c \in children[n] : parent[c] = n
  <2>. TAKE n \in gone
  <2>1. PICK h \in db : Indexed(h) /\ n = index[h]
    BY <1>3
  <2>2. h \in Blocks
    BY <1>1
  <2>. QED
    BY <1>1, <1>4, <2>1, <2>2 DEF LinksInv, Linked
<1>10. ASSUME NEW k \in Blocks, index'[k] # NoNode, NEW m, m = index'[k]
       PROVE  /\ m = index[k] /\ Indexed(k) /\ m \in Nodes /\ HashOf(m) = k /\ Linked(m) /\ m \notin gone
              /\ parent'[m] # NoNode =>
                   parent'[m] = parent[m] /\ parent[m] \notin gone /\ index'[Parent[k]] = parent[m]
                   /\ k # Genesis
              /\ parent'[m] = NoNode => parent[m] = NoNode
                   \/ (k # Genesis /\ parent[m] = index[Parent[k]] /\ parent[m] \in gone)
  <2>1. m = index[k] /\ Indexed(k) /\ m \in Nodes /\ HashOf(m) = k /\ m \notin gone
    BY <1>1, <1>5, <1>7, <1>10
  <2>2. Linked(m)
    BY <1>4, <2>1 DEF LinksInv
  <2>3. ASSUME parent[m] # NoNode
        PROVE  /\ k # Genesis /\ Parent[k] \in Blocks /\ parent[m] = index[Parent[k]]
               /\ parent[m] \in Nodes /\ m \in children[parent[m]] /\ Indexed(Parent[k])
    <3>1. k # Genesis /\ Parent[k] \in Blocks /\ parent[m] \in Nodes
      BY <1>1, <2>1, <2>3, ParentIsLower DEF MemTypes, NodesInv
    <3>. QED
      BY <1>1, <2>1, <2>2, <2>3, <3>1 DEF Linked, Indexed
  <2>4. ASSUME parent'[m] # NoNode
        PROVE  /\ parent'[m] = parent[m] /\ parent[m] \notin gone
               /\ index'[Parent[k]] = parent[m] /\ k # Genesis
    <3>1. parent'[m] = parent[m] /\ ~\E n \in gone : m \in children[n]
      BY <1>8, <2>1, <2>4
    <3>2. parent[m] \notin gone
      BY <2>3, <2>4, <3>1
    <3>3. index'[Parent[k]] = index[Parent[k]]
      BY <1>5, <1>7, <2>3, <2>4, <3>1, <3>2
    <3>. QED
      BY <2>3, <2>4, <3>1, <3>2, <3>3
  <2>5. ASSUME parent'[m] = NoNode, parent[m] # NoNode
        PROVE  k # Genesis /\ parent[m] = index[Parent[k]] /\ parent[m] \in gone
    <3>1. PICK n \in gone : m \in children[n]
      BY <1>8, <2>1, <2>5
    <3>2. parent[m] = n
      BY <1>9, <3>1
    <3>. QED
      BY <2>3, <2>5, <3>2
  <2>. QED
    BY <2>1, <2>2, <2>4, <2>5
<1>11. LinksInv'
  <2>. SUFFICES ASSUME NEW k \in Blocks, index'[k] # NoNode, NEW m, m = index'[k]
                PROVE  /\ parent'[m] # NoNode =>
                            parent'[m] = index'[Parent[HashOf(m)]] /\ m \in children'[parent'[m]]
                       /\ \A c \in children'[m] : parent'[c] = m
    BY DEF LinksInv, Linked, Indexed, HashOf
  <2>1. m \in Nodes /\ HashOf(m) = k /\ Linked(m) /\ m \notin gone
    BY <1>10
  <2>2. ASSUME parent'[m] # NoNode
        PROVE  parent'[m] = index'[Parent[HashOf(m)]] /\ m \in children'[parent'[m]]
    <3>1. parent'[m] = parent[m] /\ parent[m] \notin gone /\ index'[Parent[k]] = parent[m]
      BY <1>10, <2>2
    <3>2. parent[m] \in Nodes /\ m \in children[parent[m]]
      BY <1>1, <2>1, <2>2, <3>1 DEF MemTypes, Linked
    <3>. QED
      BY <1>2, <2>1, <3>1, <3>2
  <2>3. ASSUME NEW c \in children'[m] PROVE parent'[c] = m
    <3>1. c \in children[m] /\ c \in Nodes /\ parent[c] = m
      BY <1>1, <1>2, <2>1 DEF Linked, MemTypes
    <3>2. ~\E n \in gone : c \in children[n]
      BY <1>9, <2>1, <3>1
    <3>. QED
      BY <1>8, <3>1, <3>2
  <2>. QED
    BY <2>2, <2>3
<1>12. MarksInv'
  <2>. SUFFICES ASSUME NEW k \in Blocks, index'[k] # NoNode
                PROVE  /\ index'[k] \in inMainChain <=> k \in db
                       /\ k \in db \ {Genesis} => index'[k] \in ToSet(depNodes'[Parent[k]])
    BY <1>2 DEF MarksInv, Indexed, ToSet
  <2>1. index'[k] = index[k] /\ Indexed(k) /\ HashOf(index[k]) = k
    BY <1>10
  <2>2. /\ index[k] \in inMainChain <=> k \in db
        /\ k \in db \ {Genesis} => index[k] \in ToSet(depNodes[Parent[k]])
    BY <1>4, <2>1 DEF MarksInv
  <2>3. ASSUME k \in db \ {Genesis} PROVE index[k] \in ToSet(depNodes'[Parent[k]])
    <3>1. Parent[k] \in Blocks \cup {NoBlock}
      BY <2>3, TreeAssumption
    <3>2. \A n \in gone : HashOf(n) # k
      BY <1>6, <1>7
    <3>3. index[k] \in ToSet(WithoutPruned(Parent[k], gone))
      BY <1>1, <2>1, <2>2, <2>3, <3>1, <3>2, PrunedList
    <3>. QED
      BY <1>2, <3>1, <3>3
  <2>. QED
    BY <2>1, <2>2, <2>3
<1>13. Height[best] <= highest /\ Height[best] \in Nat
  BY <1>1, <1>4 DEF WindowInv
<1>14. WindowInv'
  <2>1. ASSUME NEW k \in Blocks, index'[k] # NoNode, parent'[index'[k]] = NoNode
        PROVE  k = Genesis \/ Height[k] + MinMemoryNodes <= highest + 1
    <3>. DEFINE m == index'[k]
    <3>1. m = index[k] /\ Indexed(k)
      BY <1>10, <2>1
    <3>2. CASE parent[m] = NoNode
      BY <1>4, <3>1, <3>2 DEF WindowInv
    <3>3. CASE k # Genesis /\ parent[m] = index[Parent[k]] /\ parent[m] \in gone
      <4>1. Parent[k] \in Blocks /\ Height[k] = Height[Parent[k]] + 1
        BY <3>3, TreeAssumption
      <4>2. Indexed(Parent[k])
        BY <1>1, <1>9, <3>3 DEF Indexed
      <4>3. Low(Parent[k])
        BY <1>5, <3>3, <4>1, <4>2
      <4>4. Height[Parent[k]] \in Nat
        BY <1>1, <4>1
      <4>. QED
        BY <1>1, <1>13, <4>1, <4>3, <4>4
    <3>. QED
      BY <1>10, <2>1, <3>2, <3>3
  <2>2. ASSUME NEW k \in db, index'[k] = NoNode
        PROVE  Height[k] + MinMemoryNodes <= highest
    <3>1. CASE Indexed(k)
      <4>1. Low(k) /\ Height[k] \in Nat
        BY <1>1, <1>7, <2>2, <3>1
      <4>. QED
        BY <1>1, <1>13, <4>1
    <3>2. CASE ~Indexed(k)
      BY <1>4, <3>2 DEF WindowInv
    <3>. QED
      BY <3>1, <3>2
  <2>3. ASSUME NEW k \in db \ {Genesis}, index'[Parent[k]] # NoNode
        PROVE  index'[k] # NoNode /\ parent'[index'[k]] # NoNode
    <3>1. /\ k \in Blocks /\ Parent[k] \in db /\ Parent[k] \in Blocks
          /\ Height[k] = Height[Parent[k]] + 1
          /\ Height[k] \in Nat /\ Height[Parent[k]] \in Nat
      BY <1>1, Context
    <3>2. Indexed(Parent[k]) /\ ~Low(Parent[k])
      BY <1>7, <2>3, <3>1
    <3>3. Indexed(k) /\ parent[index[k]] # NoNode
      BY <1>4, <3>2 DEF WindowInv
    <3>4. ~Low(k)
      BY <1>1, <1>13, <3>1, <3>2
    <3>5. index'[k] # NoNode
      BY <1>7, <3>1, <3>3, <3>4
    <3>6. index[Parent[k]] \notin gone
      BY <1>5, <3>1, <3>2
    <3>7. index'[k] = index[k]
      BY <1>10, <3>1, <3>5
    <3>. QED
      BY <1>10, <3>1, <3>3, <3>5, <3>6, <3>7
  <2>4. bestChain = index'[best]
    <3>1. bestChain = index[best] /\ best \in Blocks /\ Indexed(best)
      BY <1>1, <1>4, Context DEF WindowInv, CallTypes, Indexed
    <3>2. ~Low(best)
      BY <1>1, <1>13
    <3>. QED
      BY <1>7, <3>1, <3>2
  <2>. QED
    BY <1>2, <1>13, <2>1, <2>2, <2>3, <2>4 DEF WindowInv, Indexed, HashOf
<1>15. WalkInv'
  <2>1. block \in Blocks \ {Genesis} /\ block \notin db /\ ~ForksDeep(block)
        /\ prevNode = index[Parent[block]] /\ prevNode \in Nodes /\ Parent[block] \in Blocks
    BY <1>1, <1>2, TreeAssumption DEF WalkInv, CallInv
  <2>2. ~(Parent[block] \in db /\ Low(Parent[block]))
    <3>1. Parent[block] \in db => Height[Parent[block]] + MinMemoryNodes > highest
      BY <2>1, ForkFacts
    <3>2. Height[Parent[block]] \in Nat
      BY <1>1, <2>1
    <3>. QED
      BY <1>1, <1>13, <3>1, <3>2
  <2>3. prevNode = index'[Parent[block]]
    BY <1>1, <1>7, <2>1, <2>2 DEF Indexed
  <2>4. ~ForksDeep(block)'
    BY <1>2, <2>1 DEF ForksDeep, ForkBlock
  <2>5. \A h \in db : index'[h] # NoNode => Height[h] + MinMemoryNodes > Height[best]
    <3>. SUFFICES ASSUME NEW h \in db, index'[h] # NoNode
                  PROVE  Height[h] + MinMemoryNodes > Height[best]
      OBVIOUS
    <3>1. ~Low(h) /\ Height[h] \in Nat
      BY <1>1, <1>7
    <3>. QED
      BY <1>1, <1>13, <3>1
  <2>. QED
    BY <1>2, <2>3, <2>4, <2>5 DEF WalkInv, Indexed, HashOf
<1>16. MeetInv'
  BY <1>2 DEF MeetInv
<1>. QED
  BY <1>11, <1>12, <1>14, <1>15, <1>16 DEF MemoryInv


\* A new node below the indexed node of the parent.
LEMMA NewNodeMemory ==
  ASSUME Inv, MemoryInv, WalkInv, pc = "recheck", NEW n, n = NewNode(block), NewBlockNode(n)
  PROVE  /\ n \in Nodes /\ HashOf(n) = block /\ n # NoNode /\ ~Made(n, created)
         /\ n \notin inMainChain
         /\ block \in Blocks \ {Genesis} /\ block \notin db /\ ~Indexed(block)
         /\ prevNode = index[Parent[block]] /\ prevNode \in Nodes /\ Parent[block] \in Blocks
         /\ index'[block] = n /\ \A k \in Blocks \ {block} : index'[k] = index[k]
         /\ parent'[n] = prevNode /\ \A m \in Nodes \ {n} : parent'[m] = parent[m]
         /\ LinksInv'
         /\ \A k \in Blocks : index'[k] # NoNode /\ parent'[index'[k]] = NoNode =>
              k = Genesis \/ Height[k] + MinMemoryNodes <= highest + 1
         /\ \A k \in db : index'[k] = NoNode => Height[k] + MinMemoryNodes <= highest
         /\ \A k \in db \ {Genesis} : index'[Parent[k]] # NoNode =>
              index'[k] # NoNode /\ parent'[index'[k]] # NoNode
         /\ bestChain = index'[HashOf(bestChain)]
<1>1. /\ MemTypes /\ NodesInv /\ CallInv /\ db \subseteq Blocks
      /\ \A k \in Blocks : Indexed(k) => index[k] \in Nodes /\ HashOf(index[k]) = k
      /\ NoNode \notin Nodes /\ HashOf(bestChain) \in db
      /\ \A c \in db \ {Genesis} : Parent[c] \in db
  BY Context
<1>2. /\ block \in Blocks \ {Genesis} /\ block \notin db /\ ~Indexed(block)
      /\ prevNode = index[Parent[block]] /\ prevNode \in Nodes /\ Parent[block] \in Blocks
      /\ Parent[block] # block /\ HashOf(prevNode) = Parent[block] /\ Made(prevNode, created)
  BY <1>1, TreeAssumption DEF CallInv, WalkInv
<1>3. /\ n \in Nodes /\ HashOf(n) = block /\ n # NoNode /\ ~Made(n, created)
      /\ index' = [index EXCEPT ![block] = n]
      /\ parent' = [parent EXCEPT ![n] = prevNode]
      /\ children' = [children EXCEPT ![prevNode] = @ \cup {n}]
  BY <1>1, <1>2, NewNodeKeeps
<1>4. parent[n] = NoNode /\ children[n] = {} /\ n \notin inMainChain /\ n # prevNode
  BY <1>1, <1>2, <1>3 DEF NodesInv
<1>5. index'[block] = n /\ \A k \in Blocks \ {block} : index'[k] = index[k]
  BY <1>1, <1>2, <1>3 DEF MemTypes
<1>6. parent'[n] = prevNode /\ \A m \in Nodes \ {n} : parent'[m] = parent[m]
  BY <1>1, <1>3 DEF MemTypes
<1>7. /\ children'[n] = {} /\ children'[prevNode] = children[prevNode] \cup {n}
      /\ \A m \in Nodes : children[m] \subseteq children'[m]
      /\ \A m \in Nodes \ {prevNode} : children'[m] = children[m]
  BY <1>1, <1>2, <1>3, <1>4 DEF MemTypes
<1>8. ASSUME NEW k \in Blocks \ {block}, index'[k] # NoNode
      PROVE  /\ index'[k] = index[k] /\ Indexed(k) /\ index[k] \in Nodes \ {n}
             /\ HashOf(index[k]) = k /\ Linked(index[k]) /\ parent'[index[k]] = parent[index[k]]
  <2>1. index'[k] = index[k] /\ Indexed(k)
    BY <1>5, <1>8 DEF Indexed
  <2>2. index[k] \in Nodes /\ HashOf(index[k]) = k
    BY <1>1, <2>1
  <2>. QED
    BY <1>3, <1>6, <2>1, <2>2 DEF MemoryInv, LinksInv
<1>9. LinksInv'
  <2>. SUFFICES ASSUME NEW k \in Blocks, index'[k] # NoNode, NEW m, m = index'[k]
                PROVE  /\ parent'[m] # NoNode =>
                            parent'[m] = index'[Parent[HashOf(m)]] /\ m \in children'[parent'[m]]
                       /\ \A c \in children'[m] : parent'[c] = m
    BY DEF LinksInv, Linked, Indexed, HashOf
  <2>1. CASE k = block
    BY <1>2, <1>3, <1>5, <1>6, <1>7, <2>1
  <2>2. CASE k # block
    <3>1. /\ m = index[k] /\ m \in Nodes \ {n} /\ HashOf(m) = k /\ Linked(m)
          /\ parent'[m] = parent[m]
      BY <1>8, <2>2
    <3>2. ASSUME parent[m] # NoNode
          PROVE  parent[m] = index'[Parent[HashOf(m)]] /\ m \in children'[parent[m]]
      <4>1. parent[m] = index[Parent[HashOf(m)]] /\ m \in children[parent[m]]
        BY <3>1, <3>2 DEF Linked
      <4>2. parent[m] \in Nodes /\ Parent[HashOf(m)] \in Blocks
        BY <1>1, <3>1, <3>2, ParentIsLower DEF MemTypes, NodesInv
      <4>3. Parent[HashOf(m)] # block
        BY <1>2, <3>2, <4>1 DEF Indexed
      <4>. QED
        BY <1>5, <1>7, <4>1, <4>2, <4>3
    <3>3. ASSUME NEW c \in children'[m] PROVE parent'[c] = m
      <4>1. CASE c = n
        <5>1. m = prevNode
          <6>. SUFFICES ASSUME m # prevNode PROVE FALSE
            OBVIOUS
          <6>1. c \in children[m]
            BY <1>7, <3>1, <3>3
          <6>2. parent[c] = m
            BY <3>1, <6>1 DEF Linked
          <6>. QED
            BY <1>1, <1>4, <3>1, <4>1, <6>2
        <5>. QED
          BY <1>6, <4>1, <5>1
      <4>2. CASE c # n
        <5>1. c \in children[m] /\ c \in Nodes
          BY <1>1, <1>7, <3>1, <3>3, <4>2 DEF MemTypes
        <5>2. parent[c] = m
          BY <3>1, <5>1 DEF Linked
        <5>. QED
          BY <1>6, <4>2, <5>1, <5>2
      <4>. QED
        BY <4>1, <4>2
    <3>. QED
      BY <3>1, <3>2, <3>3
  <2>. QED
    BY <2>1, <2>2
<1>10. ASSUME NEW k \in Blocks, index'[k] # NoNode, parent'[index'[k]] = NoNode
       PROVE  k = Genesis \/ Height[k] + MinMemoryNodes <= highest + 1
  <2>1. k # block
    BY <1>1, <1>2, <1>5, <1>6, <1>10
  <2>2. index'[k] = index[k] /\ Indexed(k) /\ parent'[index[k]] = parent[index[k]]
    BY <1>8, <1>10, <2>1
  <2>. QED
    BY <1>10, <2>2 DEF MemoryInv, WindowInv
<1>11. ASSUME NEW k \in db, index'[k] = NoNode PROVE Height[k] + MinMemoryNodes <= highest
  <2>1. ~Indexed(k)
    BY <1>1, <1>2, <1>5, <1>11 DEF Indexed
  <2>. QED
    BY <2>1 DEF MemoryInv, WindowInv
<1>12. ASSUME NEW k \in db \ {Genesis}, index'[Parent[k]] # NoNode
       PROVE  index'[k] # NoNode /\ parent'[index'[k]] # NoNode
  <2>1. Parent[k] \in db /\ Parent[k] # block /\ k # block /\ k \in Blocks /\ Parent[k] \in Blocks
    BY <1>1, <1>2
  <2>2. Indexed(Parent[k])
    BY <1>5, <1>12, <2>1 DEF Indexed
  <2>3. Indexed(k) /\ parent[index[k]] # NoNode
    BY <2>2 DEF MemoryInv, WindowInv
  <2>4. index'[k] # NoNode
    BY <1>5, <2>1, <2>3 DEF Indexed
  <2>. QED
    BY <1>8, <2>1, <2>3, <2>4
<1>13. bestChain = index'[HashOf(bestChain)]
  BY <1>1, <1>2, <1>5 DEF MemoryInv, WindowInv
<1>. QED
  BY <1>2, <1>3, <1>4, <1>5, <1>6, <1>9, <1>10, <1>11, <1>12, <1>13

LEMMA ExtendsMemory ==
  ASSUME Inv, MemoryInv, WalkInv, ExtendMainChain
  PROVE  MemoryInv' /\ WalkInv' /\ MeetInv'
<1>. DEFINE n == NewNode(block)
<1>1. /\ MemTypes /\ NodesInv /\ bestChain \in Nodes /\ db \subseteq Blocks
      /\ highest \in Nat /\ MinMemoryNodes \in Nat \ {0} /\ Height \in [Blocks -> Nat]
      /\ \A k \in Blocks : Indexed(k) => index[k] \in Nodes /\ HashOf(index[k]) = k
      /\ \A c \in db \ {Genesis} : Parent[c] \in db
      /\ NoNode \notin Nodes
  BY Context DEF CallTypes
<1>2. /\ pc = "recheck" /\ HashOf(prevNode) = HashOf(bestChain) /\ NewBlockNode(n)
      /\ depNodes' = [depNodes EXCEPT ![Parent[block]] = Append(@, n)]
      /\ inMainChain' = inMainChain \cup {n}
      /\ db' = db \cup {block} /\ bestChain' = n /\ highest' = Higher(block) /\ pc' = "idle"
  BY DEF ExtendMainChain, Return
<1>. HIDE DEF n
<1>3. /\ n \in Nodes /\ HashOf(n) = block /\ n # NoNode
      /\ block \in Blocks \ {Genesis} /\ block \notin db /\ ~Indexed(block)
      /\ prevNode = index[Parent[block]] /\ prevNode \in Nodes /\ Parent[block] \in Blocks
      /\ index'[block] = n /\ \A k \in Blocks \ {block} : index'[k] = index[k]
      /\ parent'[n] = prevNode /\ \A m \in Nodes \ {n} : parent'[m] = parent[m]
      /\ LinksInv'
      /\ \A k \in Blocks : index'[k] # NoNode /\ parent'[index'[k]] = NoNode =>
           k = Genesis \/ Height[k] + MinMemoryNodes <= highest + 1
      /\ \A k \in db : index'[k] = NoNode => Height[k] + MinMemoryNodes <= highest
      /\ \A k \in db \ {Genesis} : index'[Parent[k]] # NoNode =>
           index'[k] # NoNode /\ parent'[index'[k]] # NoNode
  BY <1>2, NewNodeMemory DEF n
<1>4. highest' \in Nat /\ highest' >= highest /\ highest' >= Height[block]
  BY <1>1, <1>2, <1>3, LargerOfTwo DEF Higher
<1>5. /\ ToSet(depNodes'[Parent[block]]) = ToSet(depNodes[Parent[block]]) \cup {n}
      /\ \A g \in Blocks \cup {NoBlock} : g # Parent[block] => depNodes'[g] = depNodes[g]
  <2>1. depNodes \in [Blocks \cup {NoBlock} -> Seq(Nodes)]
    BY <1>1 DEF MemTypes
  <2>2. Parent[block] \in Blocks \cup {NoBlock}
    BY <1>3
  <2>. QED
    BY <1>2, <1>3, <2>1, <2>2, AppendedNode
<1>6. MarksInv'
  <2>. SUFFICES ASSUME NEW k \in Blocks, index'[k] # NoNode
                PROVE  /\ index'[k] \in inMainChain' <=> k \in db'
                       /\ k \in db' \ {Genesis} => index'[k] \in ToSet(depNodes'[Parent[k]])
    BY DEF MarksInv, Indexed, ToSet
  <2>1. CASE k = block
    BY <1>2, <1>3, <1>5, <2>1
  <2>2. CASE k # block
    <3>1. index'[k] = index[k] /\ Indexed(k)
      BY <1>3, <2>2 DEF Indexed
    <3>2. /\ index[k] \in inMainChain <=> k \in db
          /\ k \in db \ {Genesis} => index[k] \in ToSet(depNodes[Parent[k]])
      BY <3>1 DEF MemoryInv, MarksInv
    <3>3. index[k] # n
      BY <1>1, <1>3, <2>2, <3>1
    <3>4. ASSUME k \in db \ {Genesis} PROVE index[k] \in ToSet(depNodes'[Parent[k]])
      <4>1. Parent[k] \in Blocks \cup {NoBlock}
        BY <3>4, TreeAssumption
      <4>2. CASE Parent[k] = Parent[block]
        BY <1>5, <3>2, <3>4, <4>2
      <4>3. CASE Parent[k] # Parent[block]
        BY <1>5, <3>2, <3>4, <4>1, <4>3
      <4>. QED
        BY <4>2, <4>3
    <3>. QED
      BY <1>2, <2>2, <3>1, <3>2, <3>3, <3>4
  <2>. QED
    BY <2>1, <2>2
<1>7. WindowInv'
  <2>1. ASSUME NEW k \in Blocks, index'[k] # NoNode, parent'[index'[k]] = NoNode
        PROVE  k = Genesis \/ Height[k] + MinMemoryNodes <= highest' + 1
    <3>1. k = Genesis \/ Height[k] + MinMemoryNodes <= highest + 1
      BY <1>3, <2>1
    <3>2. Height[k] \in Nat
      BY <1>1
    <3>. QED
      BY <1>1, <1>4, <3>1, <3>2
  <2>2. ASSUME NEW k \in db', index'[k] = NoNode
        PROVE  Height[k] + MinMemoryNodes <= highest'
    <3>1. k \in db /\ Height[k] \in Nat
      BY <1>1, <1>2, <1>3, <2>2
    <3>2. Height[k] + MinMemoryNodes <= highest
      BY <1>3, <2>2, <3>1
    <3>. QED
      BY <1>1, <1>4, <3>1, <3>2
  <2>3. ASSUME NEW k \in db' \ {Genesis}, index'[Parent[k]] # NoNode
        PROVE  index'[k] # NoNode /\ parent'[index'[k]] # NoNode
    <3>1. CASE k = block
      BY <1>1, <1>3, <3>1
    <3>2. CASE k # block
      BY <1>2, <1>3, <2>3, <3>2
    <3>. QED
      BY <3>1, <3>2
  <2>4. bestChain' = index'[HashOf(bestChain')] /\ Height[HashOf(bestChain')] <= highest'
    BY <1>2, <1>3, <1>4, <1>1
  <2>. QED
    BY <2>1, <2>2, <2>3, <2>4 DEF WindowInv, Indexed, HashOf
<1>8. WalkInv' /\ MeetInv'
  BY <1>2 DEF WalkInv, MeetInv
<1>. QED
  BY <1>3, <1>6, <1>7, <1>8 DEF MemoryInv

LEMMA AddsSideMemory ==
  ASSUME Inv, MemoryInv, WalkInv, AddSideBlock
  PROVE  MemoryInv' /\ WalkInv' /\ MeetInv'
<1>. DEFINE n == NewNode(block)
<1>1. /\ MemTypes /\ db \subseteq Blocks
      /\ \A k \in Blocks : Indexed(k) => index[k] \in Nodes /\ HashOf(index[k]) = k
  BY Context
<1>2. /\ pc = "recheck" /\ pc' = "compare" /\ NewBlockNode(n)
      /\ UNCHANGED <<db, inMainChain, depNodes, bestChain, block, prevNode, iterNode,
                     reorgVars, highest, deepFork>>
  BY DEF AddSideBlock
<1>. HIDE DEF n
<1>3. /\ n \in Nodes /\ HashOf(n) = block /\ n # NoNode /\ n \notin inMainChain
      /\ block \in Blocks \ {Genesis} /\ block \notin db /\ ~Indexed(block)
      /\ index'[block] = n /\ \A k \in Blocks \ {block} : index'[k] = index[k]
      /\ LinksInv'
      /\ \A k \in Blocks : index'[k] # NoNode /\ parent'[index'[k]] = NoNode =>
           k = Genesis \/ Height[k] + MinMemoryNodes <= highest + 1
      /\ \A k \in db : index'[k] = NoNode => Height[k] + MinMemoryNodes <= highest
      /\ \A k \in db \ {Genesis} : index'[Parent[k]] # NoNode =>
           index'[k] # NoNode /\ parent'[index'[k]] # NoNode
      /\ bestChain = index'[HashOf(bestChain)]
  BY <1>2, NewNodeMemory DEF n
<1>4. MarksInv'
  <2>. SUFFICES ASSUME NEW k \in Blocks, index'[k] # NoNode
                PROVE  /\ index'[k] \in inMainChain <=> k \in db
                       /\ k \in db \ {Genesis} => index'[k] \in ToSet(depNodes[Parent[k]])
    BY <1>2 DEF MarksInv, Indexed, ToSet
  <2>1. CASE k = block
    BY <1>3, <2>1
  <2>2. CASE k # block
    <3>1. index'[k] = index[k] /\ Indexed(k)
      BY <1>3, <2>2 DEF Indexed
    <3>. QED
      BY <3>1 DEF MemoryInv, MarksInv
  <2>. QED
    BY <2>1, <2>2
<1>5. WindowInv'
  <2>1. Height[HashOf(bestChain)] <= highest
    BY DEF MemoryInv, WindowInv
  <2>. QED
    BY <1>2, <1>3, <2>1 DEF WindowInv, Indexed, HashOf
<1>6. WalkInv'
  <2>1. ~ForksDeep(block)
    BY <1>2 DEF WalkInv
  <2>2. ~ForksDeep(block)'
    BY <1>2, <2>1 DEF ForksDeep, ForkBlock
  <2>. QED
    BY <1>2, <2>2 DEF WalkInv
<1>7. MeetInv'
  BY <1>2 DEF MeetInv
<1>. QED
  BY <1>3, <1>4, <1>5, <1>6, <1>7 DEF MemoryInv


LEMMA MemoryStays ==
  ASSUME MemoryInv, UNCHANGED <<db, memVars, bestChain, highest>>
  PROVE  MemoryInv'
BY DEF MemoryInv, LinksInv, MarksInv, WindowInv, Linked, Indexed, HashOf, memVars, ToSet

LEMMA WalksInMemory ==
  ASSUME Inv, MemoryInv, WalkInv, NextCheck \/ RejectBlock \/ LoseNode
  PROVE  MemoryInv' /\ WalkInv' /\ MeetInv'
<1>1. MemoryInv'
  BY MemoryStays DEF NextCheck, RejectBlock, LoseNode
<1>2. MeetInv'
  BY DEF NextCheck, RejectBlock, LoseNode, Return, MeetInv
<1>3. CASE RejectBlock \/ LoseNode
  <2>1. WalkInv'
    BY <1>3 DEF RejectBlock, LoseNode, Return, WalkInv
  <2>. QED
    BY <1>1, <1>2, <2>1
<1>4. CASE NextCheck
  <2>1. /\ pc = "check" /\ pc' = "check" /\ iterNode' = prevNode
        /\ UNCHANGED <<db, created, memVars, bestChain, block, prevNode, highest>>
    BY <1>4 DEF NextCheck
  <2>2. prevNode = index[Parent[block]] /\ ~ForksDeep(block)
    BY <2>1 DEF WalkInv
  <2>3. block \in Blocks \ {Genesis} /\ HashOf(prevNode) = Parent[block] /\ Parent[block] \in Blocks
    BY <2>1, Context, TreeAssumption DEF CallInv
  <2>4. HashOf(prevNode) \in Ancestry[Parent[block]]
    BY <2>3, ChainsAreChains DEF ChainFacts
  <2>5. ~ForksDeep(block)'
    BY <2>1, <2>2 DEF ForksDeep, ForkBlock
  <2>6. WalkInv'
    BY <2>1, <2>2, <2>3, <2>4, <2>5 DEF WalkInv, HashOf, memVars
  <2>. QED
    BY <1>1, <1>2, <2>6
<1>. QED
  BY <1>3, <1>4

LEMMA AcceptsInMemory ==
  ASSUME Inv, MemoryInv, NEW b \in Blocks \ {Genesis}, AcceptBlock(b), ~ForksDeep(b)
  PROVE  MemoryInv' /\ WalkInv' /\ MeetInv'
<1>1. /\ b \notin db /\ Parent[b] \in Blocks
      /\ pc' = "check" /\ block' = b /\ iterNode' = prevNode'
      /\ UNCHANGED <<db, bestChain, highest>>
  BY TreeAssumption DEF AcceptBlock
<1>2. Indexed(Parent[b]) /\ prevNode' = index[Parent[b]] /\ UNCHANGED <<created, memVars>>
  <2>. SUFFICES ASSUME ~Indexed(Parent[b]), LoadBlockNode(Parent[b]) PROVE FALSE
    BY DEF AcceptBlock
  <2>1. Parent[b] \in db
    BY DEF LoadBlockNode, CanLoad
  <2>2. Height[Parent[b]] + MinMemoryNodes <= highest
    BY <2>1 DEF MemoryInv, WindowInv
  <2>3. Height[Parent[b]] + MinMemoryNodes > highest
    BY <1>1, <2>1, ForkFacts
  <2>4. Height[Parent[b]] \in Nat /\ highest \in Nat /\ MinMemoryNodes \in Nat
    BY <1>1, Context
  <2>. QED
    BY <2>2, <2>3, <2>4
<1>3. MemoryInv'
  BY <1>1, <1>2, MemoryStays
<1>4. HashOf(index[Parent[b]]) = Parent[b]
  BY <1>1, <1>2, Context
<1>5. Parent[b] \in Ancestry[Parent[b]]
  BY <1>1, ChainsAreChains DEF ChainFacts
<1>6. ~ForksDeep(block)'
  BY <1>1 DEF ForksDeep, ForkBlock
<1>7. WalkInv'
  BY <1>1, <1>2, <1>4, <1>5, <1>6 DEF WalkInv, HashOf, memVars
<1>8. MeetInv'
  BY <1>1 DEF MeetInv
<1>. QED
  BY <1>3, <1>7, <1>8

LEMMA LooksBackInMemory ==
  ASSUME Inv, MemoryInv, WalkInv, LookBack
  PROVE  MemoryInv' /\ WalkInv' /\ MeetInv'
<1>. DEFINE front == Last(Line(iterNode))
            low == HashOf(front)
            h == Parent[low]
<1>1. /\ MemTypes /\ NodesInv /\ CallInv /\ db \subseteq Blocks
      /\ highest \in Nat /\ MinMemoryNodes \in Nat /\ Height \in [Blocks -> Nat]
      /\ \A k \in Blocks : Indexed(k) => index[k] \in Nodes /\ HashOf(index[k]) = k
      /\ NoNode \notin Nodes
      /\ \A c \in db \ {Genesis} : Parent[c] \in db /\ Height[c] = Height[Parent[c]] + 1
      /\ \A c, d \in db : Height[c] = Height[d] => c = d
  BY Context
<1>2. /\ pc \in {"check", "recheck"} /\ low # Genesis /\ LoadBlockNode(h) /\ iterNode' = NewNode(h)
      /\ UNCHANGED <<db, bestChain, blockCache, pc, block, prevNode, reorgVars, highest, deepFork>>
  BY DEF LookBack
<1>3. /\ block \in Blocks \ {Genesis} /\ block \notin db /\ ~ForksDeep(block)
      /\ prevNode = index[Parent[block]] /\ prevNode \in Nodes /\ Parent[block] \in Blocks
      /\ iterNode \in Nodes /\ iterNode = index[HashOf(iterNode)]
      /\ HashOf(iterNode) \in Ancestry[Parent[block]]
  BY <1>1, <1>2, TreeAssumption DEF CallInv, WalkInv
<1>4. /\ front \in Nodes /\ parent[front] = NoNode /\ front = index[low]
      /\ low \in Ancestry[HashOf(iterNode)] /\ low \in Blocks
  <2>1. /\ front \in Nodes /\ parent[front] = NoNode
        /\ Len(Line(iterNode)) \in Nat \ {0} /\ front = Line(iterNode)[Len(Line(iterNode))]
        /\ low \in Ancestry[HashOf(iterNode)] /\ low \in Blocks
    BY <1>1, <1>3, FrontFacts
  <2>2. Len(Line(iterNode)) \in 1 .. Len(Line(iterNode))
    BY <2>1
  <2>3. Line(iterNode)[Len(Line(iterNode))] = index[HashOf(Line(iterNode)[Len(Line(iterNode))])]
    BY <1>3, <2>2, LineIsIndexed
  <2>. QED
    BY <2>1, <2>3
<1>. HIDE DEF front
<1>5. Indexed(low)
  BY <1>1, <1>4 DEF Indexed
<1>6. low \in Ancestry[Parent[block]]
  BY <1>3, <1>4, ChainMembers
<1>7. low \in Ancestry[block] /\ h \in Ancestry[Parent[block]]
  <2>1. Ancestry[block] = Ancestry[Parent[block]] \cup {block}
    BY <1>3, TreeAssumption
  <2>. QED
    BY <1>2, <1>3, <1>6, <2>1, ChainMembers
<1>8. low \in db
  <2>1. Height[low] + MinMemoryNodes <= highest + 1
    BY <1>2, <1>4, <1>5 DEF MemoryInv, WindowInv
  <2>. QED
    BY <1>3, <1>7, <2>1, ForkFacts
<1>9. h \in db /\ h \in Blocks /\ Height[low] = Height[h] + 1 /\ ~Indexed(h)
  BY <1>1, <1>2, <1>4, <1>8 DEF MemoryInv, WindowInv
<1>10. \A k \in db \ {Genesis} : Parent[k] = h => Indexed(k)
  <2>. SUFFICES ASSUME NEW k \in db \ {Genesis}, Parent[k] = h PROVE k = low
    BY <1>5
  <2>1. Height[k] = Height[low]
    BY <1>1, <1>9
  <2>. QED
    BY <1>1, <1>8, <2>1
<1>11. Creates(h)
  BY <1>2 DEF LoadBlockNode
<1>12. NewNode(h) \in Nodes /\ HashOf(NewNode(h)) = h
  BY <1>1, <1>9, <1>11, MakesNode DEF MemTypes
<1>. HIDE DEF h, low
<1>13. MemoryInv' /\ index' = [index EXCEPT ![h] = NewNode(h)]
  BY <1>2, <1>9, <1>10, LoadsBelow
<1>14. index'[h] = NewNode(h) /\ index'[Parent[block]] = index[Parent[block]]
  <2>1. Parent[block] # h
    BY <1>1, <1>3, <1>9 DEF Indexed
  <2>. QED
    BY <1>1, <1>3, <1>9, <1>13, <2>1 DEF MemTypes
<1>15. ~ForksDeep(block)'
  BY <1>2, <1>3 DEF ForksDeep, ForkBlock
<1>16. WalkInv'
  BY <1>2, <1>3, <1>7, <1>12, <1>14, <1>15 DEF WalkInv, HashOf
<1>17. MeetInv'
  BY <1>2 DEF MeetInv
<1>. QED
  BY <1>13, <1>16, <1>17

LEMMA ReloadsInMemory ==
  ASSUME Inv, MemoryInv, WalkInv, ReloadParent
  PROVE  MemoryInv' /\ WalkInv' /\ MeetInv'
<1>1. pc = "reload" /\ UNCHANGED <<db, bestChain, highest>>
  BY DEF ReloadParent
<1>2. /\ block \in Blocks \ {Genesis} /\ prevNode = index[Parent[block]] /\ prevNode \in Nodes
      /\ HashOf(prevNode) = Parent[block] /\ Parent[block] \in Blocks /\ ~ForksDeep(block)
  BY <1>1, Context, TreeAssumption DEF CallInv, WalkInv
<1>3. Indexed(Parent[block])
  BY <1>2, NodeFacts DEF Indexed
<1>4. /\ pc' = "recheck" /\ iterNode' = index[Parent[block]]
      /\ UNCHANGED <<created, memVars, block, prevNode, reorgVars>>
  BY <1>3 DEF ReloadParent
<1>5. MemoryInv'
  BY <1>1, <1>4, MemoryStays
<1>6. ~ForksDeep(block)'
  BY <1>1, <1>2, <1>4 DEF ForksDeep, ForkBlock
<1>7. Parent[block] \in Ancestry[Parent[block]]
  BY <1>2, ChainsAreChains DEF ChainFacts
<1>8. WalkInv'
  BY <1>2, <1>4, <1>6, <1>7 DEF WalkInv, HashOf, memVars
<1>9. MeetInv'
  BY <1>4 DEF MeetInv
<1>. QED
  BY <1>5, <1>8, <1>9

LEMMA InitInMemory ==
  ASSUME Init
  PROVE  Shallow
<1>. DEFINE n == <<Genesis, 1>>
<1>1. n \in Nodes /\ HashOf(n) = Genesis /\ n # NoNode /\ Genesis \in Blocks
      /\ Height[Genesis] = 0
  BY NodeFacts, IndexAssumption, TreeAssumption
<1>. HIDE DEF n
<1>2. /\ db = {Genesis} /\ parent = [m \in Nodes |-> NoNode]
      /\ children = [m \in Nodes |-> {}] /\ inMainChain = {n}
      /\ index = [h \in Blocks |-> IF h = Genesis THEN n ELSE NoNode]
      /\ bestChain = n /\ highest = 0 /\ pc = "idle"
  BY DEF Init, n
<1>3. \A h \in Blocks : Indexed(h) => h = Genesis /\ index[h] = n
  BY <1>2 DEF Indexed
<1>4. index[Genesis] = n /\ parent[n] = NoNode /\ children[n] = {}
  BY <1>1, <1>2
<1>5. LinksInv
  BY <1>3, <1>4 DEF LinksInv, Linked
<1>6. MarksInv
  BY <1>2, <1>3 DEF MarksInv
<1>7. WindowInv
  BY <1>1, <1>2, <1>3, <1>4 DEF WindowInv, Indexed
<1>8. WalkInv /\ MeetInv
  BY <1>2 DEF WalkInv, MeetInv
<1>. QED
  BY <1>5, <1>6, <1>7, <1>8 DEF Shallow, MemoryInv

LEMMA RestartsInMemory ==
  ASSUME Inv, Restart
  PROVE  Shallow'
<1>. DEFINE tip == Highest(db)
            loaded == {h \in db : Height[h] + MinMemoryNodes >= Height[tip]}
            above(h) == {<<c, 1>> : c \in {d \in loaded : ParentHash(d) = h}}
<1>1. /\ db \subseteq Blocks /\ HashOf(bestChain) \in db /\ Genesis \in db
      /\ db = Ancestry[HashOf(bestChain)]
      /\ MinMemoryNodes \in Nat \ {0} /\ Height \in [Blocks -> Nat]
      /\ \A c \in db \ {Genesis} : Parent[c] \in db /\ Height[c] = Height[Parent[c]] + 1
      /\ NoNode \notin Nodes
  BY Context
<1>2. tip = HashOf(bestChain)
  BY <1>1, HighestOfChain
<1>3. /\ parent' = [m \in Nodes |->
            IF m \in above(ParentHash(HashOf(m))) /\ ParentHash(HashOf(m)) \in loaded
            THEN <<ParentHash(HashOf(m)), 1>> ELSE NoNode]
      /\ children' = [m \in Nodes |-> IF m = <<HashOf(m), 1>> /\ HashOf(m) \in loaded
                                     THEN above(HashOf(m)) ELSE {}]
      /\ inMainChain' = {<<h, 1>> : h \in loaded}
      /\ index' = [h \in Blocks |-> IF h \in loaded THEN <<h, 1>> ELSE NoNode]
      /\ depNodes' = [h \in Blocks \cup {NoBlock} |-> SetToSeq(above(h))]
      /\ bestChain' = <<tip, 1>> /\ pc' = "idle"
      /\ highest' = Height[tip] /\ db' = db
  BY DEF Restart, Return
<1>4. /\ \A h \in db : h \in loaded <=> Height[h] + MinMemoryNodes >= Height[tip]
      /\ loaded \subseteq db /\ tip \in loaded /\ Height[tip] \in Nat
  BY <1>1, <1>2
<1>. HIDE DEF loaded, tip
<1>5. /\ \A h \in Blocks : <<h, 1>> \in Nodes /\ HashOf(<<h, 1>>) = h /\ <<h, 1>> # NoNode
      /\ NoBlock \notin Blocks
  <2>1. 1 \in 1 .. MaxNodes
    BY IndexAssumption
  <2>. QED
    BY <2>1, NodeFacts, IndexAssumption
<1>6. \A g : IsFiniteSet(above(g))
  <2>. TAKE g
  <2>. DEFINE C == {d \in loaded : ParentHash(d) = g}
              T == {<<c, 1>> : c \in C}
              f == [c \in C |-> <<c, 1>>]
  <2>1. IsFiniteSet(C)
    BY <1>1, <1>4, TreeAssumption, FS_Subset
  <2>. HIDE DEF C
  <2>2. f \in Surjection(C, T)
    BY DEF Surjection
  <2>3. IsFiniteSet(T)
    <3>. HIDE DEF T, f
    <3>. QED
      BY <2>1, <2>2, FS_Surjection
  <2>. QED
    BY <2>3 DEF C
<1>7. \A g, m : m \in above(g) <=> \E d \in loaded : ParentHash(d) = g /\ m = <<d, 1>>
  OBVIOUS
<1>. HIDE DEF above
<1>8. \A g \in Blocks \cup {NoBlock} : ToSet(depNodes'[g]) = above(g)
  BY <1>3, <1>6, ListOfSet
<1>9. \A h \in Blocks : /\ index'[h] # NoNode <=> h \in loaded
                        /\ h \in loaded => index'[h] = <<h, 1>>
  BY <1>3, <1>5
<1>10. \A h \in loaded : parent'[<<h, 1>>] =
         IF ParentHash(h) \in loaded THEN <<ParentHash(h), 1>> ELSE NoNode
  <2>. TAKE h \in loaded
  <2>1. <<h, 1>> \in Nodes /\ HashOf(<<h, 1>>) = h
    BY <1>1, <1>4, <1>5
  <2>2. <<h, 1>> \in above(ParentHash(h))
    BY <1>7
  <2>. QED
    BY <1>3, <2>1, <2>2
<1>11. \A h \in loaded : children'[<<h, 1>>] = above(h)
  <2>. TAKE h \in loaded
  <2>1. <<h, 1>> \in Nodes /\ HashOf(<<h, 1>>) = h
    BY <1>1, <1>4, <1>5
  <2>. QED
    BY <1>3, <2>1
<1>12. \A h \in loaded : ParentHash(h) \in loaded => h # Genesis /\ ParentHash(h) = Parent[h]
  BY <1>1, <1>4, <1>5 DEF ParentHash
<1>13. LinksInv'
  <2>. SUFFICES ASSUME NEW h \in Blocks, index'[h] # NoNode, NEW m, m = index'[h]
                PROVE  /\ parent'[m] # NoNode =>
                            parent'[m] = index'[Parent[HashOf(m)]] /\ m \in children'[parent'[m]]
                       /\ \A c \in children'[m] : parent'[c] = m
    BY DEF LinksInv, Linked, Indexed, HashOf
  <2>1. h \in loaded /\ m = <<h, 1>> /\ HashOf(m) = h
    BY <1>5, <1>9
  <2>2. ASSUME parent'[m] # NoNode
        PROVE  parent'[m] = index'[Parent[h]] /\ m \in children'[parent'[m]]
    <3>1. ParentHash(h) \in loaded /\ parent'[m] = <<ParentHash(h), 1>>
      BY <1>10, <2>1, <2>2
    <3>2. ParentHash(h) = Parent[h] /\ Parent[h] \in loaded /\ Parent[h] \in Blocks
      BY <1>1, <1>4, <1>12, <2>1, <3>1
    <3>3. m \in above(Parent[h])
      BY <1>7, <2>1, <3>2
    <3>. QED
      BY <1>9, <1>11, <3>1, <3>2, <3>3
  <2>3. ASSUME NEW c \in children'[m] PROVE parent'[c] = m
    <3>1. PICK d \in loaded : ParentHash(d) = h /\ c = <<d, 1>>
      BY <1>7, <1>11, <2>1, <2>3
    <3>. QED
      BY <1>10, <2>1, <3>1
  <2>. QED
    BY <2>1, <2>2, <2>3
<1>14. MarksInv'
  <2>. SUFFICES ASSUME NEW h \in Blocks, index'[h] # NoNode
                PROVE  /\ index'[h] \in inMainChain' <=> h \in db
                       /\ h \in db \ {Genesis} => index'[h] \in ToSet(depNodes'[Parent[h]])
    BY <1>3 DEF MarksInv, Indexed, ToSet
  <2>1. h \in loaded /\ index'[h] = <<h, 1>> /\ h \in db
    BY <1>4, <1>9
  <2>2. index'[h] \in inMainChain'
    BY <1>3, <2>1
  <2>3. ASSUME h # Genesis PROVE index'[h] \in ToSet(depNodes'[Parent[h]])
    <3>1. Parent[h] \in Blocks \cup {NoBlock} /\ ParentHash(h) = Parent[h]
      BY <1>1, <2>1, <2>3 DEF ParentHash
    <3>2. index'[h] \in above(Parent[h])
      BY <1>7, <2>1, <3>1
    <3>. QED
      BY <1>8, <3>1, <3>2
  <2>. QED
    BY <2>1, <2>2, <2>3
<1>15. WindowInv'
  <2>1. ASSUME NEW h \in Blocks, index'[h] # NoNode, parent'[index'[h]] = NoNode
        PROVE  h = Genesis \/ Height[h] + MinMemoryNodes <= highest' + 1
    <3>. SUFFICES ASSUME h # Genesis PROVE Height[h] + MinMemoryNodes <= highest' + 1
      OBVIOUS
    <3>1. h \in loaded /\ index'[h] = <<h, 1>> /\ h \in db
      BY <1>4, <1>9, <2>1
    <3>2. ParentHash(h) = Parent[h] /\ Parent[h] \in db /\ Height[h] = Height[Parent[h]] + 1
      BY <1>1, <3>1 DEF ParentHash
    <3>3. Parent[h] \notin loaded
      BY <1>1, <1>5, <1>10, <2>1, <3>1, <3>2
    <3>4. Height[Parent[h]] + MinMemoryNodes < Height[tip] /\ Height[Parent[h]] \in Nat
      BY <1>1, <1>4, <3>2, <3>3
    <3>. QED
      BY <1>1, <1>3, <1>4, <3>2, <3>4
  <2>2. ASSUME NEW h \in db, index'[h] = NoNode
        PROVE  Height[h] + MinMemoryNodes <= highest'
    <3>1. h \notin loaded /\ Height[h] \in Nat
      BY <1>1, <1>9, <2>2
    <3>. QED
      BY <1>1, <1>3, <1>4, <3>1
  <2>3. ASSUME NEW h \in db \ {Genesis}, index'[Parent[h]] # NoNode
        PROVE  index'[h] # NoNode /\ parent'[index'[h]] # NoNode
    <3>1. Parent[h] \in loaded /\ Parent[h] \in db /\ Height[h] = Height[Parent[h]] + 1
      BY <1>1, <1>9, <2>3
    <3>2. Height[h] \in Nat /\ Height[Parent[h]] \in Nat
      BY <1>1, <3>1
    <3>3. h \in loaded
      BY <1>1, <1>4, <3>1, <3>2
    <3>4. ParentHash(h) = Parent[h] /\ Parent[h] \in Blocks
      BY <1>1, <3>1 DEF ParentHash
    <3>. QED
      BY <1>1, <1>5, <1>9, <1>10, <3>1, <3>3, <3>4
  <2>4. bestChain' = index'[HashOf(bestChain')] /\ Height[HashOf(bestChain')] <= highest'
    <3>1. tip \in Blocks
      BY <1>1, <1>4
    <3>. QED
      BY <1>3, <1>4, <1>5, <1>9, <3>1
  <2>. QED
    BY <1>3, <2>1, <2>2, <2>3, <2>4 DEF WindowInv, Indexed, HashOf
<1>16. WalkInv' /\ MeetInv'
  BY <1>3 DEF WalkInv, MeetInv
<1>. QED
  BY <1>13, <1>14, <1>15, <1>16 DEF Shallow, MemoryInv


\* The node the first walk stops at.
LEMMA ForkNodeIs ==
  ASSUME NEW n, IsLine(Line(n), n)
  PROVE  ForkNode(n) = Line(n)[Len(Before(Line(n), inMainChain)) + 1]
<1>. DEFINE line == Line(n)
            I == {i \in 1 .. Len(line) : line[i] \in inMainChain \/ parent[line[i]] = NoNode}
            k == Min(I)
<1>1. Len(line) \in Nat \ {0} /\ line \in Seq(Nodes) /\ Len(line) \in I
  BY DEF IsLine
<1>2. SelectInSeq(line, LAMBDA m : m \in inMainChain \/ parent[m] = NoNode) = k
  BY <1>1 DEF SelectInSeq
<1>3. k \in 1 .. Len(line)
  <2>1. I \in SUBSET Nat /\ I # {} /\ I \subseteq 1 .. Len(line)
    BY <1>1
  <2>. HIDE DEF I
  <2>. QED
    BY <2>1, FirstOf
<1>4. Before(line, inMainChain) = SubSeq(line, 1, k - 1) /\ ForkNode(n) = line[k]
  BY <1>2 DEF Before, ForkNode
<1>. HIDE DEF k, I, line
<1>5. Len(SubSeq(line, 1, k - 1)) = k - 1
  BY <1>1, <1>3
<1>6. Len(Before(line, inMainChain)) + 1 = k
  BY <1>1, <1>3, <1>4, <1>5
<1>. QED
  BY <1>4, <1>6 DEF line

(***************************************************************************)
(* The walk from the new node ends at the main chain, and the walk from    *)
(* the end of the main chain at the same node.                             *)
(***************************************************************************)
LEMMA WalksMeet ==
  ASSUME Inv, MemoryInv, WalkInv, pc = "compare"
  PROVE  LET n == index[block]
             s == Before(Line(n), inMainChain)
             d == NodesToDetach(n)
             x == ForkNode(n)
         IN  /\ n \in Nodes /\ HashOf(n) = block
             /\ s \in Seq(Nodes) /\ s # <<>> /\ s[1] = n
             /\ \A i \in 1 .. Len(s) : s[i] = index[HashOf(s[i])] /\ HashOf(s[i]) \in Blocks
             /\ \A i \in 1 .. Len(s) - 1 : Parent[HashOf(s[i])] = HashOf(s[i + 1])
             /\ Parent[HashOf(s[Len(s)])] = HashOf(x)
             /\ d \in Seq(Nodes)
             /\ IF d = <<>> THEN HashOf(bestChain) = HashOf(x)
                ELSE Parent[HashOf(d[Len(d)])] = HashOf(x)
<1>. DEFINE n == index[block]
            s == Before(Line(n), inMainChain)
            x == ForkNode(n)
            stops == {m \in Nodes : HashOf(m) = HashOf(x)}
            line == Line(bestChain)
            d == Before(line, stops)
<1>1. /\ MemTypes /\ NodesInv /\ CallInv /\ db \subseteq Blocks /\ Genesis \in db
      /\ highest \in Nat /\ MinMemoryNodes \in Nat /\ Height \in [Blocks -> Nat]
      /\ \A k \in Blocks : Indexed(k) => index[k] \in Nodes /\ HashOf(index[k]) = k
      /\ NoNode \notin Nodes
  BY Context
<1>2. /\ block \in Blocks \ {Genesis} /\ block \notin db /\ ~ForksDeep(block)
      /\ n \in Nodes \ inMainChain /\ parent[n] # NoNode
  BY <1>1 DEF CallInv, WalkInv
<1>3. HashOf(n) = block /\ n = index[HashOf(n)] /\ Indexed(block)
  BY <1>1, <1>2 DEF Indexed
<1>4. IsLine(Line(n), n) /\ \A i \in 1 .. Len(Line(n)) : Line(n)[i] = index[HashOf(Line(n)[i])]
  BY <1>1, <1>2, <1>3, LineIsIndexed, LineFacts DEF MemTypes, NodesInv
<1>5. x = Line(n)[Len(s) + 1]
  BY <1>4, ForkNodeIs
<1>. HIDE DEF n
<1>6. /\ s \in Seq(Nodes) /\ Len(s) \in 0 .. Len(Line(n)) - 1
      /\ \A i \in 1 .. Len(s) : s[i] = Line(n)[i] /\ s[i] \notin inMainChain /\ parent[s[i]] # NoNode
      /\ x \in inMainChain \/ parent[x] = NoNode
  BY <1>4, <1>5, BeforeFacts
<1>. HIDE DEF s, x
<1>7. /\ Line(n) \in Seq(Nodes) /\ Len(Line(n)) \in Nat \ {0} /\ Line(n)[1] = n
      /\ \A i \in 1 .. Len(Line(n)) - 1 : parent[Line(n)[i]] # NoNode
                                          /\ Line(n)[i + 1] = parent[Line(n)[i]]
      /\ \A i \in 1 .. Len(Line(n)) : HashOf(Line(n)[i]) \in Ancestry[block]
  BY <1>3, <1>4 DEF IsLine
<1>8. Len(s) \in 1 .. Len(Line(n)) - 1 /\ s[1] = n /\ s # <<>>
  <2>1. Len(s) # 0
    <3>. SUFFICES ASSUME Len(s) = 0 PROVE FALSE
      OBVIOUS
    <3>1. x = n
      BY <1>5, <1>7
    <3>. QED
      BY <1>2, <1>6, <3>1
  <2>2. Len(s) \in 1 .. Len(Line(n)) - 1 /\ 1 \in 1 .. Len(s)
    BY <1>6, <1>7, <2>1
  <2>. QED
    BY <1>6, <1>7, <2>1, <2>2
<1>9. \A i \in 1 .. Len(s) : /\ s[i] = index[HashOf(s[i])] /\ HashOf(s[i]) \in Blocks
                             /\ s[i] \in Nodes /\ i \in 1 .. Len(Line(n)) - 1
                             /\ Parent[HashOf(s[i])] = HashOf(Line(n)[i + 1])
  <2>. TAKE i \in 1 .. Len(s)
  <2>1. i \in 1 .. Len(Line(n)) - 1 /\ i \in 1 .. Len(Line(n))
    BY <1>7, <1>8
  <2>2. s[i] = Line(n)[i] /\ s[i] \in Nodes /\ parent[s[i]] # NoNode
    BY <1>6, <1>7, <2>1
  <2>3. HashOf(parent[s[i]]) = Parent[HashOf(s[i])]
    BY <1>1, <2>2 DEF NodesInv, LinksDown
  <2>. QED
    BY <1>4, <1>7, <2>1, <2>2, <2>3, NodeFacts
<1>10. \A i \in 1 .. Len(s) - 1 : Parent[HashOf(s[i])] = HashOf(s[i + 1])
  <2>. TAKE i \in 1 .. Len(s) - 1
  <2>1. i \in 1 .. Len(s) /\ i + 1 \in 1 .. Len(s)
    BY <1>7, <1>8
  <2>. QED
    BY <1>6, <1>9, <2>1
<1>11. Parent[HashOf(s[Len(s)])] = HashOf(x)
  <2>1. Len(s) \in 1 .. Len(s)
    BY <1>7, <1>8
  <2>. QED
    BY <1>5, <1>9, <2>1
<1>12. /\ x \in Nodes /\ x = index[HashOf(x)] /\ HashOf(x) \in Ancestry[block] /\ HashOf(x) \in Blocks
       /\ Indexed(HashOf(x))
  <2>1. Len(s) + 1 \in 1 .. Len(Line(n))
    BY <1>7, <1>8
  <2>2. x \in Nodes /\ x = index[HashOf(x)] /\ HashOf(x) \in Ancestry[block]
    BY <1>4, <1>5, <1>7, <2>1
  <2>. QED
    BY <1>1, <2>2, NodeFacts DEF Indexed
<1>13. HashOf(x) \in db
  <2>1. CASE x \in inMainChain
    BY <1>12, <2>1 DEF MemoryInv, MarksInv
  <2>2. CASE parent[x] = NoNode
    <3>1. HashOf(x) = Genesis \/ Height[HashOf(x)] + MinMemoryNodes <= highest + 1
      BY <1>12, <2>2 DEF MemoryInv, WindowInv
    <3>. QED
      BY <1>1, <1>2, <1>12, <3>1, ForkFacts
  <2>. QED
    BY <1>6, <2>1, <2>2
<1>14. /\ IsLine(line, bestChain)
       /\ \A i \in 1 .. Len(line) : line[i] \in Nodes
       /\ \E i \in 1 .. Len(line) : line[i] = x
  BY <1>12, <1>13, LineIsMainChain
<1>. HIDE DEF line, stops
<1>15. /\ d \in Seq(Nodes) /\ Len(d) \in 0 .. Len(line) - 1
       /\ \A i \in 1 .. Len(d) : d[i] = line[i] /\ d[i] \notin stops /\ parent[d[i]] # NoNode
       /\ line[Len(d) + 1] \in stops \/ parent[line[Len(d) + 1]] = NoNode
  BY <1>14, BeforeFacts
<1>16. d = NodesToDetach(n)
  BY DEF NodesToDetach, stops, line, x
<1>. HIDE DEF d
<1>17. /\ Len(line) \in Nat \ {0} /\ line[1] = bestChain
       /\ \A i \in 1 .. Len(line) - 1 : parent[line[i]] # NoNode /\ line[i + 1] = parent[line[i]]
  BY <1>14 DEF IsLine
<1>18. HashOf(line[Len(d) + 1]) = HashOf(x)
  <2>. DEFINE k == Len(d) + 1
  <2>1. k \in 1 .. Len(line) /\ Len(d) \in Nat
    BY <1>15, <1>17
  <2>2. CASE line[k] \in stops
    BY <2>2 DEF stops
  <2>3. CASE parent[line[k]] = NoNode
    <3>1. k = Len(line)
      BY <1>17, <2>1, <2>3
    <3>2. PICK i \in 1 .. Len(line) : line[i] = x
      BY <1>14
    <3>3. x \in stops
      BY <1>12 DEF stops
    <3>4. i \notin 1 .. Len(d)
      BY <1>15, <3>2, <3>3
    <3>5. i = k
      BY <1>17, <2>1, <3>1, <3>4
    <3>. QED
      BY <3>2, <3>5
  <2>. QED
    BY <1>15, <2>2, <2>3
<1>19. IF d = <<>> THEN HashOf(bestChain) = HashOf(x) ELSE Parent[HashOf(d[Len(d)])] = HashOf(x)
  <2>1. CASE d = <<>>
    <3>1. Len(d) + 1 = 1
      BY <2>1
    <3>. QED
      BY <1>17, <1>18, <2>1, <3>1
  <2>2. CASE d # <<>>
    <3>1. Len(d) \in 1 .. Len(d) /\ Len(d) \in 1 .. Len(line) - 1 /\ Len(d) \in 1 .. Len(line)
      BY <1>15, <1>17, <2>2
    <3>2. d[Len(d)] = line[Len(d)] /\ line[Len(d) + 1] = parent[line[Len(d)]]
          /\ parent[line[Len(d)]] # NoNode /\ line[Len(d)] \in Nodes
      BY <1>14, <1>15, <1>17, <3>1
    <3>3. HashOf(parent[line[Len(d)]]) = Parent[HashOf(line[Len(d)])]
      BY <1>1, <3>2 DEF NodesInv, LinksDown
    <3>. QED
      BY <1>18, <2>2, <3>2, <3>3
  <2>. QED
    BY <2>1, <2>2
<1>20. n \in Nodes /\ HashOf(n) = block
  BY <1>2, <1>3
<1>. QED
  BY <1>6, <1>8, <1>9, <1>10, <1>11, <1>15, <1>16, <1>19, <1>20 DEF n, s, x

LEMMA ComparesInMemory ==
  ASSUME Inv, MemoryInv, WalkInv, CompareWork
  PROVE  MemoryInv' /\ WalkInv' /\ MeetInv'
<1>. DEFINE n == index[block]
            s == Before(Line(n), inMainChain)
            attach == Reverse(s)
            detach == NodesToDetach(n)
            x == ForkNode(n)
<1>1. pc = "compare" /\ UNCHANGED <<db, created, memVars, bestChain, blockCache, highest, deepFork>>
  BY DEF CompareWork
<1>2. MemoryInv'
  BY <1>1, MemoryStays
<1>3. CASE Return
  BY <1>2, <1>3 DEF Return, WalkInv, MeetInv
<1>4. CASE /\ pc' = "reorganize" /\ attachNodes' = attach /\ detachNodes' = detach
           /\ oldTip' = HashOf(bestChain) /\ Work[block] > Work[HashOf(bestChain)]
  <2>1. /\ n \in Nodes /\ HashOf(n) = block
        /\ s \in Seq(Nodes) /\ s # <<>> /\ s[1] = n
        /\ \A i \in 1 .. Len(s) : s[i] = index[HashOf(s[i])] /\ HashOf(s[i]) \in Blocks
        /\ \A i \in 1 .. Len(s) - 1 : Parent[HashOf(s[i])] = HashOf(s[i + 1])
        /\ Parent[HashOf(s[Len(s)])] = HashOf(x)
        /\ detach \in Seq(Nodes)
        /\ IF detach = <<>> THEN HashOf(bestChain) = HashOf(x)
           ELSE Parent[HashOf(detach[Len(detach)])] = HashOf(x)
    BY <1>1, WalksMeet
  <2>. HIDE DEF n, s, x, detach
  <2>2. /\ attach \in Seq(Nodes) /\ Len(attach) = Len(s)
        /\ \A i \in 1 .. Len(s) : Len(s) - i + 1 \in 1 .. Len(s) /\ attach[i] = s[Len(s) - i + 1]
    BY <2>1, ReverseFacts
  <2>3. Len(s) \in Nat \ {0}
    BY <2>1
  <2>. HIDE DEF attach
  <2>4. attach[1] = s[Len(s)] /\ attach[Len(attach)] = n
    <3>1. 1 \in 1 .. Len(s) /\ Len(s) \in 1 .. Len(s) /\ Len(s) - 1 + 1 = Len(s)
          /\ Len(s) - Len(s) + 1 = 1
      BY <2>3
    <3>. QED
      BY <2>1, <2>2, <3>1
  <2>5. \A i \in 1 .. Len(attach) : attach[i] = index[HashOf(attach[i])]
    BY <2>1, <2>2
  <2>6. \A i \in 1 .. Len(attach) - 1 : Parent[HashOf(attach[i + 1])] = HashOf(attach[i])
    <3>. TAKE i \in 1 .. Len(attach) - 1
    <3>. DEFINE j == Len(s) - i
    <3>1. i \in 1 .. Len(s) /\ i + 1 \in 1 .. Len(s) /\ j \in 1 .. Len(s) - 1
          /\ Len(s) - i + 1 = j + 1 /\ Len(s) - (i + 1) + 1 = j
      BY <2>2, <2>3
    <3>2. attach[i] = s[j + 1] /\ attach[i + 1] = s[j]
      BY <2>2, <3>1
    <3>. QED
      BY <2>1, <3>1, <3>2
  <2>7. UNCHANGED <<bestChain, index>>
    BY <1>1 DEF memVars
  <2>8. MeetInv'
    BY <1>4, <2>1, <2>4, <2>5, <2>6, <2>7 DEF MeetInv, HashOf
  <2>9. WalkInv'
    BY <1>4 DEF WalkInv
  <2>. QED
    BY <1>2, <2>8, <2>9
<1>. QED
  BY <1>3, <1>4 DEF CompareWork, NodesToAttach

LEMMA DisconnectsInMemory ==
  ASSUME Inv, MemoryInv, MeetInv, DisconnectBlock
  PROVE  MemoryInv' /\ WalkInv' /\ MeetInv'
<1>. DEFINE n == Head(detachNodes)
            d == detachNodes
            h == HashOf(n)
<1>1. /\ MemTypes /\ CallTypes /\ NodesInv /\ ListsInv /\ db \subseteq Blocks
      /\ highest \in Nat /\ MinMemoryNodes \in Nat /\ Height \in [Blocks -> Nat]
      /\ \A k \in Blocks : Indexed(k) => index[k] \in Nodes /\ HashOf(index[k]) = k
      /\ HashOf(bestChain) \in db
      /\ \A c \in db : Height[c] <= Height[HashOf(bestChain)]
                       /\ \A e \in db : Height[c] = Height[e] => c = e
  BY Context
<1>2. /\ pc = "reorganize" /\ detachNodes # <<>>
      /\ db' = {g \in db : Height[g] < Height[h]}
      /\ inMainChain' = inMainChain \ {n}
      /\ bestChain' = parent[n]
      /\ detachNodes' = Tail(detachNodes)
      /\ UNCHANGED <<created, parent, children, index, depNodes, pc, block, prevNode,
                     iterNode, attachNodes, oldTip, highest, deepFork>>
  BY DEF DisconnectBlock
<1>3. /\ d \in Seq(Nodes) /\ d # <<>> /\ Len(d) \in Nat \ {0} /\ n = d[1] /\ d[1] = bestChain
      /\ \A i \in 1 .. Len(d) : parent[d[i]] # NoNode
      /\ n \in Nodes
  <2>1. d \in Seq(Nodes) /\ d # <<>> /\ d[1] = bestChain /\ \A i \in 1 .. Len(d) : parent[d[i]] # NoNode
    BY <1>1, <1>2 DEF ListsInv, CallTypes
  <2>. QED
    BY <2>1
<1>. HIDE DEF n
<1>4. n = bestChain /\ h \in db /\ h \in Blocks /\ n = index[h] /\ parent[n] # NoNode
  <2>1. 1 \in 1 .. Len(d)
    BY <1>3
  <2>. QED
    BY <1>1, <1>3, <2>1 DEF MemoryInv, WindowInv
<1>5. /\ parent[n] \in Nodes /\ HashOf(parent[n]) = Parent[h] /\ parent[n] = index[Parent[h]]
      /\ Height[h] = Height[Parent[h]] + 1 /\ Parent[h] \in Blocks /\ h # Genesis
  <2>1. Linked(n)
    BY <1>1, <1>3, <1>4, NodeFacts DEF MemoryInv, LinksInv, Indexed, MemTypes
  <2>. QED
    BY <1>1, <1>3, <1>4, <2>1, ParentIsLower DEF MemTypes, NodesInv, Linked
<1>6. db' = db \ {h}
  <2>1. \A g \in db : Height[g] < Height[h] <=> g # h
    <3>. TAKE g \in db
    <3>1. Height[g] \in Nat /\ Height[h] \in Nat /\ Height[g] <= Height[h]
      BY <1>1, <1>4
    <3>. QED
      BY <1>1, <1>4, <3>1
  <2>. QED
    BY <1>2, <2>1
<1>. HIDE DEF h
<1>7. LinksInv'
  BY <1>2 DEF MemoryInv, LinksInv, Linked, Indexed, HashOf
<1>8. MarksInv'
  <2>. SUFFICES ASSUME NEW k \in Blocks, Indexed(k)
                PROVE  /\ index[k] \in inMainChain' <=> k \in db'
                       /\ k \in db' \ {Genesis} => index[k] \in ToSet(depNodes[Parent[k]])
    BY <1>2 DEF MarksInv, Indexed, ToSet
  <2>1. /\ index[k] \in inMainChain <=> k \in db
        /\ k \in db \ {Genesis} => index[k] \in ToSet(depNodes[Parent[k]])
    BY DEF MemoryInv, MarksInv
  <2>2. index[k] = n <=> k = h
    BY <1>1, <1>4 DEF h
  <2>. QED
    BY <1>2, <1>6, <2>1, <2>2
<1>9. WindowInv'
  <2>1. /\ \A k \in Blocks : Indexed(k) /\ parent[index[k]] = NoNode =>
             k = Genesis \/ Height[k] + MinMemoryNodes <= highest + 1
        /\ \A k \in db : ~Indexed(k) => Height[k] + MinMemoryNodes <= highest
        /\ \A k \in db \ {Genesis} : Indexed(Parent[k]) => Indexed(k) /\ parent[index[k]] # NoNode
        /\ Height[HashOf(bestChain)] <= highest
    BY DEF MemoryInv, WindowInv
  <2>2. bestChain' = index[HashOf(bestChain')] /\ Height[HashOf(bestChain')] <= highest
    <3>1. Height[h] <= highest
      BY <1>4, <2>1 DEF h
    <3>2. Height[Parent[h]] \in Nat
      BY <1>1, <1>5
    <3>3. Height[Parent[h]] <= highest
      BY <1>1, <1>5, <3>1, <3>2
    <3>. QED
      BY <1>2, <1>5, <3>3
  <2>. QED
    BY <1>2, <1>6, <2>1, <2>2 DEF WindowInv, Indexed, HashOf
<1>10. WalkInv'
  BY <1>2 DEF WalkInv
<1>11. MeetInv'
  <2>. DEFINE e == Tail(d)
              a == attachNodes
              f == Parent[HashOf(a[1])]
  <2>1. /\ Parent[HashOf(d[Len(d)])] = f
        /\ \A i \in 1 .. Len(a) : a[i] = index[HashOf(a[i])]
        /\ \A i \in 1 .. Len(a) - 1 : Parent[HashOf(a[i + 1])] = HashOf(a[i])
        /\ Work[HashOf(a[Len(a)])] > Work[oldTip]
    BY <1>2 DEF MeetInv
  <2>2. Len(e) = Len(d) - 1 /\ \A i \in 1 .. Len(d) - 1 : e[i] = d[i + 1]
    BY <1>3
  <2>3. e = <<>> => HashOf(bestChain') = f
    <3>. SUFFICES ASSUME e = <<>> PROVE HashOf(bestChain') = f
      OBVIOUS
    <3>1. Len(d) = 1
      BY <1>3, <2>2
    <3>. QED
      BY <1>2, <1>3, <1>5, <2>1, <3>1 DEF h
  <2>4. e # <<>> => Parent[HashOf(e[Len(e)])] = f
    <3>. SUFFICES ASSUME e # <<>> PROVE e[Len(e)] = d[Len(d)]
      BY <2>1
    <3>1. e \in Seq(Nodes)
      BY <1>3
    <3>2. Len(e) \in Nat \ {0}
      BY <3>1
    <3>3. Len(e) \in 1 .. Len(d) - 1 /\ Len(e) + 1 = Len(d)
      BY <1>3, <2>2, <3>2
    <3>. QED
      BY <2>2, <3>3
  <2>. HIDE DEF e, d
  <2>5. detachNodes' = e
    BY <1>2 DEF e, d
  <2>. QED
    BY <1>2, <2>1, <2>3, <2>4, <2>5 DEF MeetInv, HashOf
<1>. QED
  BY <1>7, <1>8, <1>9, <1>10, <1>11 DEF MemoryInv


LEMMA ConnectsInMemory ==
  ASSUME Inv, MemoryInv, MeetInv, ConnectBlock
  PROVE  /\ MemoryInv' /\ WalkInv' /\ MeetInv'
         /\ pc' = "idle" => Work[HashOf(bestChain')] > Work[oldTip]
<1>. DEFINE n == Head(attachNodes)
            a == attachNodes
            h == HashOf(n)
<1>1. /\ MemTypes /\ CallTypes /\ NodesInv /\ ListsInv /\ db \subseteq Blocks
      /\ highest \in Nat /\ MinMemoryNodes \in Nat /\ Height \in [Blocks -> Nat]
      /\ \A k \in Blocks : Indexed(k) => index[k] \in Nodes /\ HashOf(index[k]) = k
      /\ HashOf(bestChain) \in db /\ NoNode \notin Nodes
      /\ \A c \in db \ {Genesis} : Parent[c] \in db
  BY Context
<1>2. pc = "reorganize" /\ detachNodes = <<>>
  BY DEF ConnectBlock
<1>3. /\ a \in Seq(Nodes) /\ a # <<>> /\ Len(a) \in Nat \ {0} /\ n = a[1] /\ n \in Nodes
      /\ parent[n] # NoNode
  <2>1. a \in Seq(Nodes) /\ a # <<>> /\ \A i \in 1 .. Len(a) : parent[a[i]] # NoNode
    BY <1>1, <1>2 DEF ListsInv, CallTypes
  <2>2. Len(a) \in Nat \ {0}
    BY <2>1
  <2>. QED
    BY <2>1, <2>2
<1>4. /\ HashOf(bestChain) = Parent[HashOf(a[1])]
      /\ \A i \in 1 .. Len(a) : a[i] = index[HashOf(a[i])]
      /\ \A i \in 1 .. Len(a) - 1 : Parent[HashOf(a[i + 1])] = HashOf(a[i])
      /\ Work[HashOf(a[Len(a)])] > Work[oldTip]
  BY <1>2 DEF MeetInv
<1>5. /\ h \in Blocks \ {Genesis} /\ Parent[h] \in Blocks /\ Parent[h] = HashOf(bestChain)
      /\ n = index[h] /\ Indexed(h)
  <2>1. 1 \in 1 .. Len(a)
    BY <1>3
  <2>2. n = index[h] /\ Parent[h] = HashOf(bestChain)
    BY <1>3, <1>4, <2>1
  <2>. QED
    BY <1>1, <1>3, <2>2, ParentIsLower DEF MemTypes, NodesInv, Indexed
<1>6. /\ db' = db \cup {h}
      /\ inMainChain' = inMainChain \cup {n}
      /\ index' = [index EXCEPT ![h] = n]
      /\ depNodes' = [depNodes EXCEPT ![Parent[h]] = Append(@, n)]
      /\ bestChain' = n /\ highest' = Higher(h)
      /\ UNCHANGED <<created, parent, children>>
  BY <1>5 DEF ConnectBlock, ExtendsMainChain
<1>7. \/ /\ Len(a) > 1 /\ attachNodes' = Tail(a)
         /\ UNCHANGED <<pc, block, prevNode, iterNode, detachNodes, oldTip>>
      \/ Len(a) = 1 /\ pc' \in {"idle", "panic"}
  <2>1. \/ /\ Len(a) > 1 /\ attachNodes' = Tail(a)
           /\ UNCHANGED <<pc, block, prevNode, iterNode, detachNodes, oldTip>>
        \/ ~(Len(a) > 1) /\ (pc' = "panic" \/ Return)
    BY <1>5 DEF ConnectBlock, ExtendsMainChain
  <2>2. ~(Len(a) > 1) => Len(a) = 1
    <3>1. \A k \in Nat \ {0} : ~(k > 1) => k = 1
      OBVIOUS
    <3>. QED
      BY <1>3, <3>1, Zenon
  <2>3. Return => pc' = "idle"
    BY DEF Return
  <2>. QED
    BY <2>1, <2>2, <2>3
<1>. HIDE DEF n
<1>. HIDE DEF h
<1>8. \A k \in Blocks : index'[k] = index[k]
  BY <1>1, <1>5, <1>6 DEF MemTypes
<1>9. highest' \in Nat /\ highest' >= highest /\ highest' >= Height[h]
  BY <1>1, <1>5, <1>6, LargerOfTwo DEF Higher
<1>10. /\ ToSet(depNodes'[Parent[h]]) = ToSet(depNodes[Parent[h]]) \cup {n}
       /\ \A g \in Blocks \cup {NoBlock} : g # Parent[h] => depNodes'[g] = depNodes[g]
  <2>1. depNodes \in [Blocks \cup {NoBlock} -> Seq(Nodes)]
    BY <1>1 DEF MemTypes
  <2>2. Parent[h] \in Blocks \cup {NoBlock}
    BY <1>5
  <2>. QED
    BY <1>3, <1>6, <2>1, <2>2, AppendedNode
<1>11. LinksInv'
  <2>. SUFFICES ASSUME NEW k \in Blocks, index[k] # NoNode, NEW m, m = index[k]
                PROVE  /\ parent[m] # NoNode =>
                            parent[m] = index'[Parent[HashOf(m)]] /\ m \in children[parent[m]]
                       /\ \A c \in children[m] : parent[c] = m
    BY <1>6, <1>8 DEF LinksInv, Linked, Indexed, HashOf
  <2>1. Linked(m) /\ HashOf(m) = k /\ m \in Nodes
    BY <1>1 DEF MemoryInv, LinksInv, Indexed
  <2>2. parent[m] # NoNode => Parent[HashOf(m)] \in Blocks
    BY <1>1, <2>1, ParentIsLower DEF MemTypes, NodesInv
  <2>. QED
    BY <1>8, <2>1, <2>2 DEF Linked
<1>12. MarksInv'
  <2>. SUFFICES ASSUME NEW k \in Blocks, Indexed(k)
                PROVE  /\ index[k] \in inMainChain' <=> k \in db'
                       /\ k \in db' \ {Genesis} => index[k] \in ToSet(depNodes'[Parent[k]])
    BY <1>8 DEF MarksInv, Indexed, ToSet
  <2>1. /\ index[k] \in inMainChain <=> k \in db
        /\ k \in db \ {Genesis} => index[k] \in ToSet(depNodes[Parent[k]])
    BY DEF MemoryInv, MarksInv
  <2>2. index[k] = n <=> k = h
    BY <1>1, <1>5 DEF h
  <2>3. ASSUME k \in db \ {Genesis} PROVE index[k] \in ToSet(depNodes'[Parent[k]])
    <3>1. Parent[k] \in Blocks \cup {NoBlock}
      BY <2>3, TreeAssumption
    <3>2. CASE Parent[k] = Parent[h]
      BY <1>10, <2>1, <2>3, <3>2
    <3>3. CASE Parent[k] # Parent[h]
      BY <1>10, <2>1, <2>3, <3>1, <3>3
    <3>. QED
      BY <3>2, <3>3
  <2>4. n \in ToSet(depNodes'[Parent[h]])
    BY <1>10
  <2>. QED
    BY <1>5, <1>6, <2>1, <2>2, <2>3, <2>4
<1>13. WindowInv'
  <2>1. /\ \A k \in Blocks : Indexed(k) /\ parent[index[k]] = NoNode =>
             k = Genesis \/ Height[k] + MinMemoryNodes <= highest + 1
        /\ \A k \in db : ~Indexed(k) => Height[k] + MinMemoryNodes <= highest
        /\ \A k \in db \ {Genesis} : Indexed(Parent[k]) => Indexed(k) /\ parent[index[k]] # NoNode
    BY DEF MemoryInv, WindowInv
  <2>2. ASSUME NEW k \in Blocks, index'[k] # NoNode, parent'[index'[k]] = NoNode
        PROVE  k = Genesis \/ Height[k] + MinMemoryNodes <= highest' + 1
    <3>1. k = Genesis \/ Height[k] + MinMemoryNodes <= highest + 1
      BY <1>6, <1>8, <2>1, <2>2 DEF Indexed
    <3>2. Height[k] \in Nat
      BY <1>1
    <3>. QED
      BY <1>1, <1>9, <3>1, <3>2
  <2>3. ASSUME NEW k \in db', index'[k] = NoNode
        PROVE  Height[k] + MinMemoryNodes <= highest'
    <3>1. k \in db /\ ~Indexed(k) /\ Height[k] \in Nat
      BY <1>1, <1>5, <1>6, <1>8, <2>3 DEF Indexed
    <3>2. Height[k] + MinMemoryNodes <= highest
      BY <2>1, <3>1
    <3>. QED
      BY <1>1, <1>9, <3>1, <3>2
  <2>4. ASSUME NEW k \in db' \ {Genesis}, index'[Parent[k]] # NoNode
        PROVE  index'[k] # NoNode /\ parent'[index'[k]] # NoNode
    <3>1. CASE k = h
      BY <1>3, <1>5, <1>6, <1>8, <3>1 DEF Indexed
    <3>2. CASE k # h
      <4>1. k \in db \ {Genesis} /\ k \in Blocks /\ Parent[k] \in Blocks
        BY <1>1, <1>6, <2>4, <3>2
      <4>. QED
        BY <1>6, <1>8, <2>1, <2>4, <4>1 DEF Indexed
    <3>. QED
      BY <3>1, <3>2
  <2>5. bestChain' = index'[HashOf(bestChain')] /\ Height[HashOf(bestChain')] <= highest'
    <3>1. HashOf(bestChain') = h /\ index'[h] = n /\ Height[h] \in Nat
      BY <1>1, <1>5, <1>6, <1>8 DEF h
    <3>. QED
      BY <1>6, <1>9, <3>1
  <2>. QED
    BY <2>2, <2>3, <2>4, <2>5 DEF WindowInv, Indexed, HashOf
<1>14. WalkInv'
  BY <1>2, <1>7 DEF WalkInv
<1>15. MeetInv'
  <2>1. CASE /\ Len(a) > 1 /\ attachNodes' = Tail(a)
             /\ UNCHANGED <<pc, block, prevNode, iterNode, detachNodes, oldTip>>
    <3>. DEFINE e == Tail(a)
    <3>1. e \in Seq(Nodes) /\ Len(e) = Len(a) - 1 /\ \A i \in 1 .. Len(a) - 1 : e[i] = a[i + 1]
      BY <1>3
    <3>2. e[1] = a[2] /\ e[Len(e)] = a[Len(a)] /\ Parent[HashOf(a[2])] = h
      <4>1. 1 \in 1 .. Len(a) - 1 /\ Len(e) \in 1 .. Len(a) - 1 /\ 1 + 1 = 2 /\ Len(e) + 1 = Len(a)
        BY <1>3, <2>1, <3>1
      <4>. QED
        BY <1>3, <1>4, <3>1, <4>1 DEF h
    <3>3. \A i \in 1 .. Len(e) : e[i] = index'[HashOf(e[i])]
      <4>. TAKE i \in 1 .. Len(e)
      <4>1. i \in 1 .. Len(a) - 1 /\ i + 1 \in 1 .. Len(a)
        BY <1>3, <3>1
      <4>2. e[i] = a[i + 1] /\ e[i] \in Nodes /\ a[i + 1] = index[HashOf(a[i + 1])]
        BY <1>4, <3>1, <4>1
      <4>. QED
        BY <1>8, <4>2, NodeFacts
    <3>4. \A i \in 1 .. Len(e) - 1 : Parent[HashOf(e[i + 1])] = HashOf(e[i])
      <4>. TAKE i \in 1 .. Len(e) - 1
      <4>1. i \in 1 .. Len(a) - 1 /\ i + 1 \in 1 .. Len(a) - 1
        BY <1>3, <3>1
      <4>. QED
        BY <1>4, <3>1, <4>1
    <3>. HIDE DEF e
    <3>5. attachNodes' = e /\ detachNodes' = <<>> /\ HashOf(bestChain') = h /\ oldTip' = oldTip
      BY <1>2, <1>6, <2>1 DEF e, h
    <3>. QED
      BY <1>4, <3>2, <3>3, <3>4, <3>5 DEF MeetInv, HashOf
  <2>2. CASE pc' \in {"idle", "panic"}
    BY <2>2 DEF MeetInv
  <2>. QED
    BY <1>7, <2>1, <2>2
<1>16. ASSUME pc' = "idle" PROVE Work[HashOf(bestChain')] > Work[oldTip]
  <2>1. Len(a) = 1
    BY <1>2, <1>7, <1>16
  <2>. QED
    BY <1>3, <1>4, <1>6, <2>1
<1>. QED
  BY <1>11, <1>12, <1>13, <1>14, <1>15, <1>16 DEF MemoryInv

-----------------------------------------------------------------------------
(***************************************************************************)
(* The memory agrees with the database until a fork is deep; a restart     *)
(* makes it agree again.                                                   *)
(***************************************************************************)
MemInv == Inv /\ (deepFork \/ Shallow)

LEMMA ShallowKept ==
  ASSUME MemInv, [Next]_vars
  PROVE  MemInv'
<1>1. Inv /\ Inv'
  BY StepKeeps DEF MemInv
<1>2. CASE Restart
  BY <1>1, <1>2, RestartsInMemory DEF MemInv
<1>3. CASE UNCHANGED vars
  <2>1. UNCHANGED <<db, memVars, bestChain, highest>> /\ UNCHANGED deepFork
    BY <1>3 DEF vars
  <2>2. ASSUME Shallow PROVE WalkInv' /\ MeetInv'
    <3>1. ForksDeep(block)' <=> ForksDeep(block)
      BY <1>3 DEF vars, ForksDeep, ForkBlock
    <3>. QED
      BY <1>3, <2>2, <3>1 DEF Shallow, WalkInv, MeetInv, vars, memVars, reorgVars, Indexed, HashOf
  <2>. QED
    BY <1>1, <2>1, <2>2, MemoryStays DEF MemInv, Shallow
<1>4. ASSUME NEW b \in Blocks \ {Genesis}, AcceptBlock(b) PROVE MemInv'
  <2>1. deepFork' = (deepFork \/ ForksDeep(b))
    BY <1>4 DEF AcceptBlock
  <2>2. CASE deepFork'
    BY <1>1, <2>2 DEF MemInv
  <2>3. CASE ~deepFork'
    <3>1. ~deepFork /\ ~ForksDeep(b)
      BY <2>1, <2>3
    <3>2. MemoryInv
      BY <3>1 DEF MemInv, Shallow
    <3>. QED
      BY <1>1, <1>4, <3>1, <3>2, AcceptsInMemory DEF MemInv, Shallow
  <2>. QED
    BY <2>2, <2>3
<1>5. ASSUME Step PROVE MemInv'
  <2>1. deepFork' = deepFork
    BY <1>5 DEF Step, LookBack, NextCheck, RejectBlock, LoseNode, PruneBlockNodes, ReloadParent,
       ExtendMainChain, AddSideBlock, CompareWork, DisconnectBlock, ConnectBlock
  <2>. SUFFICES ASSUME ~deepFork, MemoryInv, WalkInv, MeetInv
                PROVE  MemoryInv' /\ WalkInv' /\ MeetInv'
    BY <1>1, <2>1 DEF MemInv, Shallow
  <2>. QED
    BY <1>1, <1>5, LooksBackInMemory, WalksInMemory, PrunesMemory, ReloadsInMemory,
       ExtendsMemory, AddsSideMemory, ComparesInMemory, DisconnectsInMemory, ConnectsInMemory
       DEF Step
<1>. QED
  BY <1>2, <1>3, <1>4, <1>5 DEF Next

THEOREM AlwaysMemInv == Spec => []MemInv
<1>1. Init => MemInv
  BY InitHolds, InitInMemory DEF MemInv
<1>2. MemInv /\ [Next]_vars => MemInv'
  BY ShallowKept
<1>. QED
  BY <1>1, <1>2, PTL DEF Spec

LEMMA MemoryAgreed ==
  ASSUME MemInv
  PROVE  MemoryAgrees
<1>1. CASE deepFork
  BY <1>1 DEF MemoryAgrees, NodesLinked, MemoryIsMainChain
<1>2. CASE Shallow
  <2>1. Inv /\ MemoryInv
    BY <1>2 DEF MemInv, Shallow
  <2>2. /\ \A h \in Blocks : Indexed(h) => index[h] \in Nodes /\ HashOf(index[h]) = h
        /\ db \subseteq Blocks /\ HashOf(bestChain) \in db /\ db = Ancestry[HashOf(bestChain)]
    BY <2>1, Context
  <2>3. NodesLinked
    <3>. SUFFICES ASSUME NEW h \in Blocks, Indexed(h)
                  PROVE  LET n == index[h]
                         IN  /\ HashOf(n) = h
                             /\ parent[n] # NoNode =>
                                  parent[n] = index[Parent[h]] /\ n \in children[parent[n]]
                             /\ \A c \in children[n] : parent[c] = n
      BY DEF NodesLinked
    <3>1. HashOf(index[h]) = h /\ Linked(index[h])
      BY <2>1, <2>2 DEF MemoryInv, LinksInv
    <3>. QED
      BY <3>1 DEF Linked
  <2>4. MemoryIsMainChain
    <3>1. HashOf(bestChain) = Highest(db)
      BY <2>2, HighestOfChain
    <3>. DEFINE s == Line(bestChain)
    <3>2. /\ IsLine(s, bestChain)
          /\ \A i \in 1 .. Len(s) : HashOf(s[i]) \in db /\ s[i] = index[HashOf(s[i])]
          /\ \A h \in db : Indexed(h) => \E i \in 1 .. Len(s) : s[i] = index[h]
      BY <2>1, LineIsMainChain
    <3>. HIDE DEF s
    <3>3. DOMAIN s = 1 .. Len(s)
      BY <3>2 DEF IsLine
    <3>4. \A h \in db : Indexed(h) => \E i \in DOMAIN s : HashOf(s[i]) = h
      BY <2>2, <3>2, <3>3
    <3>5. \A h \in Blocks : Indexed(h) => (index[h] \in inMainChain <=> h \in db)
      BY <2>1 DEF MemoryInv, MarksInv
    <3>. QED
      BY <3>1, <3>2, <3>3, <3>4, <3>5 DEF MemoryIsMainChain, s
  <2>. QED
    BY <2>3, <2>4 DEF MemoryAgrees
<1>. QED
  BY <1>1, <1>2 DEF MemInv

\* The nodes in memory agree with each other and with the database, as long as no fork
\* was deep.
THEOREM MemoryRight == Spec => []MemoryAgrees
<1>1. MemInv => MemoryAgrees
  BY MemoryAgreed
<1>. QED
  BY <1>1, AlwaysMemInv, PTL

\* The blocks of a chain within k of its end are at most k.
LEMMA EndIsShort ==
  ASSUME NEW b \in Blocks, NEW k \in Nat \ {0}, NEW S \in SUBSET Ancestry[b],
         \A c \in S : Height[c] + k > Height[b]
  PROVE  IsFiniteSet(S) /\ Cardinality(S) <= k
<1>. DEFINE f == [c \in S |-> Height[b] - Height[c]]
            T == 0 .. k - 1
<1>1. \A c \in S : /\ c \in Blocks /\ Height[c] \in Nat /\ Height[b] \in Nat
                   /\ Height[c] <= Height[b] /\ Height[c] + k > Height[b]
                   /\ \A d \in S : Height[c] = Height[d] => c = d
  BY ChainsAreChains, ChainMembers, TreeAssumption DEF ChainFacts
<1>2. f \in Injection(S, T)
  <2>1. \A c \in S : Height[b] - Height[c] \in T
    BY <1>1
  <2>2. \A c, d \in S : Height[b] - Height[c] = Height[b] - Height[d] => c = d
    <3>. SUFFICES ASSUME NEW c \in S, NEW d \in S, Height[b] - Height[c] = Height[b] - Height[d]
                  PROVE  Height[c] = Height[d]
      BY <1>1
    <3>. QED
      BY <1>1
  <2>. QED
    BY <2>1, <2>2 DEF Injection, IsInjective
<1>3. IsFiniteSet(T) /\ Cardinality(T) = k
  BY FS_Interval
<1>. HIDE DEF f, T
<1>4. IsFiniteSet(S) /\ Cardinality(S) <= Cardinality(T)
  BY <1>2, <1>3, FS_Injection
<1>. QED
  BY <1>3, <1>4

\* The pruning leaves at most MinMemoryNodes nodes of the main chain, as long as no fork
\* was deep.
THEOREM PruningBounds == Spec => []PruningBoundsMemory
<1>1. MemInv => PruningBoundsMemory
  <2>. SUFFICES ASSUME Inv, Shallow, pc = "reload"
                PROVE  Cardinality({h \in db : Indexed(h)}) <= MinMemoryNodes
    BY DEF MemInv, PruningBoundsMemory
  <2>. DEFINE S == {h \in db : Indexed(h)}
  <2>1. /\ HashOf(bestChain) \in Blocks /\ db = Ancestry[HashOf(bestChain)]
        /\ MinMemoryNodes \in Nat \ {0}
    BY Context
  <2>2. \A h \in S : Height[h] + MinMemoryNodes > Height[HashOf(bestChain)]
    BY DEF Shallow, WalkInv
  <2>. QED
    BY <2>1, <2>2, EndIsShort
<1>. QED
  BY <1>1, AlwaysMemInv, PTL

\* A reorganization that ends has gained work, as long as no fork was deep, whatever was
\* pruned and loaded again before.
THEOREM ReorganizationGains == Spec => ShallowReorganizationGainsWork
<1>. DEFINE Gains == pc = "reorganize" /\ pc' = "idle" /\ ~deepFork
                       => Work[HashOf(bestChain')] > Work[oldTip]
<1>1. MemInv /\ [Next]_vars => [Gains]_vars
  <2>. SUFFICES ASSUME MemInv, Next, pc = "reorganize", pc' = "idle", ~deepFork
                PROVE  Work[HashOf(bestChain')] > Work[oldTip]
    OBVIOUS
  <2>1. Inv /\ MemoryInv /\ MeetInv
    BY DEF MemInv, Shallow
  <2>2. ConnectBlock
    BY DEF Next, Step, Restart, AcceptBlock, LookBack, NextCheck, RejectBlock, LoseNode,
       PruneBlockNodes, ReloadParent, ExtendMainChain, AddSideBlock, CompareWork, DisconnectBlock
  <2>. QED
    BY <2>1, <2>2, ConnectsInMemory
<1>. QED
  BY <1>1, AlwaysMemInv, PTL DEF Spec, ShallowReorganizationGainsWork
=============================================================================
