-------------------------- MODULE GeneratorProofs --------------------------
(***************************************************************************)
(* Proofs about the code generator, for all programs and table sizes.      *)
(*                                                                         *)
(* The first sections justify recursion over the nodes of a program: a     *)
(* function that is defined from its values at nodes of smaller rank       *)
(* exists and is what its definition says.                                 *)
(***************************************************************************)
EXTENDS GeneratedCode, SequenceTheorems, FiniteSetTheorems, WellFoundedInduction, TLAPS

-----------------------------------------------------------------------------
(* Induction and recursion, over any set whose elements have a rank.       *)

(* A set of natural numbers has a least one.                               *)
LEMMA LeastNumber ==
  ASSUME NEW U, U \subseteq Nat, U # {}
  PROVE  \E k \in U : \A u \in U : k <= u
  <1> DEFINE R == OpToRel(<, Nat)
  <1>1. \A i, j \in Nat : <<i, j>> \in R <=> i < j
    BY DEF OpToRel
  <1>2. IsWellFoundedOn(R, Nat)
    BY NatLessThanWellFounded
  <1> HIDE DEF R
  <1>3. PICK k \in U : \A u \in U : ~ (<<u, k>> \in R)
    BY <1>2, WFMin
  <1>4. \A u \in U : k <= u
    <2> TAKE u \in U
    <2>1. u \in Nat /\ k \in Nat
      BY <1>3
    <2>2. ~ (u < k)
      BY <1>1, <1>3, <2>1
    <2>. QED  BY <2>1, <2>2
  <1>. QED  BY <1>3, <1>4

(* What passes from the elements of smaller rank to each element holds of  *)
(* all of them; good is the set of those it holds of.                      *)
LEMMA RankInduction ==
  ASSUME NEW S, NEW rank \in [S -> Nat], NEW good,
         \A x \in S : (\A y \in S : rank[y] < rank[x] => y \in good) => x \in good
  PROVE  S \subseteq good
  <1> SUFFICES ASSUME NEW bad \in S, bad \notin good  PROVE FALSE
    OBVIOUS
  <1> DEFINE U == {rank[x] : x \in S \ good}
  <1>1. U \subseteq Nat /\ U # {}
    OBVIOUS
  <1>2. PICK k \in U : \A u \in U : k <= u
    <2> HIDE DEF U
    <2>. QED  BY <1>1, LeastNumber
  <1>3. PICK x \in S \ good : k = rank[x]
    OBVIOUS
  <1>4. \A y \in S : rank[y] < rank[x] => y \in good
    BY <1>2, <1>3
  <1>. QED  BY <1>3, <1>4

(* In particular of the natural numbers.                                   *)
LEMMA StrongInduction ==
  ASSUME NEW good, \A n \in Nat : (\A m \in 0 .. (n - 1) : m \in good) => n \in good
  PROVE  Nat \subseteq good
  <1> DEFINE id == [n \in Nat |-> n]
  <1>1. id \in [Nat -> Nat]
    OBVIOUS
  <1>2. \A n \in Nat : (\A m \in Nat : id[m] < id[n] => m \in good) => n \in good
    OBVIOUS
  <1> HIDE DEF id
  <1>. QED  BY <1>1, <1>2, RankInduction

(* Or of those up to some number, from each to the next one.               *)
LEMMA UpwardInduction ==
  ASSUME NEW a \in Int, NEW b \in Int, NEW good, a \in good,
         \A i \in a .. (b - 1) : i \in good => i + 1 \in good
  PROVE  \A i \in a .. b : i \in good
  <1> DEFINE far == {n \in Nat : a + n \in a .. b => a + n \in good}
  <1>1. ASSUME NEW n \in Nat, \A m \in 0 .. (n - 1) : m \in far  PROVE n \in far
    <2>1. CASE n = 0
      BY <2>1
    <2>2. CASE n # 0
      <3>1. n - 1 \in far
        BY <1>1, <2>2
      <3>2. a + n \in a .. b => a + (n - 1) \in a .. (b - 1) /\ a + (n - 1) \in a .. b
        BY <2>2
      <3>3. (a + (n - 1)) + 1 = a + n
        OBVIOUS
      <3>. QED  BY <3>1, <3>2, <3>3
    <2>. QED  BY <2>1, <2>2
  <1>2. Nat \subseteq far
    <2> HIDE DEF far
    <2>. QED  BY <1>1, StrongInduction
  <1>3. ASSUME NEW i \in a .. b  PROVE i \in good
    <2>1. i - a \in Nat /\ a + (i - a) = i
      OBVIOUS
    <2>. QED  BY <1>2, <2>1
  <1>. QED  BY <1>3

(* What G makes of a function depends, at each element, on its values at   *)
(* smaller ranks only.                                                     *)
Recursive(S, T, rank, G) ==
  /\ T # {} /\ rank \in [S -> Nat]
  /\ G \in [[S -> T] -> [S -> T]]
  /\ \A f, g \in [S -> T] : \A x \in S :
       (\A y \in S : rank[y] < rank[x] => f[y] = g[y]) => G[f][x] = G[g][x]

(* There is a function then that G maps to itself.                         *)
LEMMA RecursionExists ==
  ASSUME NEW S, NEW T, NEW rank, NEW G, Recursive(S, T, rank, G)
  PROVE  \E f \in [S -> T] : f = G[f]
  <1> USE DEF Recursive
  <1> DEFINE Upto(n, f) == \A x \in S : rank[x] < n => f[x] = G[f][x]
             reached == {n \in Nat : \E f \in [S -> T] : Upto(n, f)}
  <1>1. ASSUME NEW n \in Nat, \A m \in 0 .. (n - 1) : m \in reached
        PROVE  n \in reached
    <2>1. CASE n = 0
      <3>1. PICK t \in T : TRUE
        OBVIOUS
      <3>2. [x \in S |-> t] \in [S -> T] /\ Upto(0, [x \in S |-> t])
        OBVIOUS
      <3>. QED  BY <2>1, <3>2
    <2>2. CASE n # 0
      <3>1. n - 1 \in reached
        BY <1>1, <2>2
      <3>2. PICK f \in [S -> T] : Upto(n - 1, f)
        BY <3>1
      <3>3. PICK g : g = G[f]
        OBVIOUS
      <3>4. g \in [S -> T]
        BY <3>3
      <3>5. ASSUME NEW x \in S, rank[x] < n PROVE g[x] = G[g][x]
        <4>1. \A y \in S : rank[y] < rank[x] => f[y] = g[y]
          <5> TAKE y \in S
          <5> HAVE rank[y] < rank[x]
          <5>1. rank[y] < n - 1
            BY <3>5
          <5>. QED  BY <3>2, <3>3, <5>1
        <4>2. G[f][x] = G[g][x]
          BY <3>4, <4>1
        <4>. QED  BY <3>3, <4>2
      <3>6. Upto(n, g)
        BY <3>5
      <3>. QED  BY <3>4, <3>6
    <2>. QED  BY <2>1, <2>2
  <1>2. Nat \subseteq reached
    <2> HIDE DEF reached
    <2>. QED  BY <1>1, StrongInduction
  <1> DEFINE part == [n \in Nat |-> CHOOSE f \in [S -> T] : Upto(n, f)]
  <1>3. \A n \in Nat : part[n] \in [S -> T] /\ Upto(n, part[n])
    <2> TAKE n \in Nat
    <2>1. \E f \in [S -> T] : Upto(n, f)
      BY <1>2
    <2> HIDE DEF Upto
    <2>. QED  BY <2>1
  <1> HIDE DEF part, reached
  <1>4. ASSUME NEW n \in Nat, NEW m \in Nat, n <= m
        PROVE  \A x \in S : rank[x] < n => part[n][x] = part[m][x]
    <2> DEFINE good == {x \in S : rank[x] < n => part[n][x] = part[m][x]}
    <2>1. ASSUME NEW x \in S, \A y \in S : rank[y] < rank[x] => y \in good
          PROVE  x \in good
      <3> SUFFICES ASSUME rank[x] < n PROVE part[n][x] = part[m][x]
        OBVIOUS
      <3>1. \A y \in S : rank[y] < rank[x] => part[n][y] = part[m][y]
        <4> TAKE y \in S
        <4> HAVE rank[y] < rank[x]
        <4>1. y \in good /\ rank[y] < n
          BY <2>1
        <4>. QED  BY <4>1
      <3>2. part[n] \in [S -> T] /\ part[m] \in [S -> T]
        BY <1>3
      <3>3. G[part[n]][x] = G[part[m]][x]
        BY <3>1, <3>2
      <3>4. rank[x] < m
        BY <1>4
      <3>. QED  BY <1>3, <3>3, <3>4
    <2>2. S \subseteq good
      <3> HIDE DEF good
      <3>. QED  BY <2>1, RankInduction
    <2>. QED  BY <2>2
  <1> DEFINE F == [x \in S |-> part[rank[x] + 1][x]]
  <1>5. F \in [S -> T]
    <2>1. \A x \in S : rank[x] + 1 \in Nat
      OBVIOUS
    <2>2. \A x \in S : part[rank[x] + 1] \in [S -> T]
      BY <1>3, <2>1
    <2>. QED  BY <2>2
  <1>6. ASSUME NEW x \in S PROVE F[x] = G[F][x]
    <2> DEFINE p == part[rank[x] + 1]
    <2>1. rank[x] + 1 \in Nat /\ rank[x] < rank[x] + 1
      OBVIOUS
    <2>2. p \in [S -> T] /\ p[x] = G[p][x]
      BY <1>3, <2>1
    <2>3. \A y \in S : rank[y] < rank[x] => p[y] = F[y]
      <3> TAKE y \in S
      <3> HAVE rank[y] < rank[x]
      <3>1. rank[y] + 1 \in Nat /\ rank[y] + 1 <= rank[x] + 1 /\ rank[y] < rank[y] + 1
        OBVIOUS
      <3>2. part[rank[y] + 1][y] = part[rank[x] + 1][y]
        BY <1>4, <2>1, <3>1
      <3>. QED  BY <3>2
    <2>4. F[x] = p[x]
      OBVIOUS
    <2> HIDE DEF p, F
    <2>5. G[p][x] = G[F][x]
      BY <1>5, <2>2, <2>3
    <2>. QED  BY <2>2, <2>4, <2>5
  <1> HIDE DEF F
  <1>7. F = G[F]
    <2>1. G[F] \in [S -> T]
      BY <1>5
    <2>. QED  BY <1>5, <1>6, <2>1
  <1>. QED  BY <1>5, <1>7

-----------------------------------------------------------------------------
(* Nodes.                                                                  *)

Size(x) == Cardinality(NodesOf(x))

(* A node, its car and its cdr: the parts are nodes, and smaller.          *)
LEMMA PairFacts ==
  ASSUME NEW x \in Nodes
  PROVE  /\ x \in NodesOf(x) /\ Size(x) \in Nat
         /\ x.type = "list" => x = List(x.items) /\ x.items \in Seq(Nodes)
         /\ ~IsPair(x) => NodesOf(x) = {x}
         /\ IsPair(x) =>
              /\ NodesOf(x) = {x} \cup NodesOf(Head(x.items)) \cup NodesOf(List(Tail(x.items)))
              /\ \A y \in {Head(x.items), List(Tail(x.items))} :
                   y \in Nodes /\ NodesOf(y) \subseteq NodesOf(x) /\ Size(y) < Size(x)
  <1>1. /\ IsFiniteSet(NodesOf(x)) /\ x \in NodesOf(x)
        /\ x.type = "list" => x = List(x.items) /\ x.items \in Seq(Nodes)
        /\ ~IsPair(x) => NodesOf(x) = {x}
        /\ IsPair(x) =>
             /\ NodesOf(x) = {x} \cup NodesOf(Head(x.items)) \cup NodesOf(List(Tail(x.items)))
             /\ x \notin NodesOf(Head(x.items)) \cup NodesOf(List(Tail(x.items)))
             /\ List(Tail(x.items)) \in Nodes
    BY NodesAssumption
  <1>2. Size(x) \in Nat
    BY <1>1, FS_CardinalityType DEF Size
  <1>3. ASSUME IsPair(x), NEW y \in {Head(x.items), List(Tail(x.items))}
        PROVE  y \in Nodes /\ NodesOf(y) \subseteq NodesOf(x) /\ Size(y) < Size(x)
    <2>1. Head(x.items) \in Nodes
      BY <1>1, <1>3 DEF IsPair
    <2>2. NodesOf(y) \subseteq NodesOf(x) \ {x}
      BY <1>1, <1>3
    <2>3. IsFiniteSet(NodesOf(x) \ {x}) /\ Cardinality(NodesOf(x) \ {x}) = Size(x) - 1
      BY <1>1, FS_RemoveElement DEF Size
    <2>4. Size(y) \in Nat /\ Size(y) <= Size(x) - 1
      BY <2>2, <2>3, FS_Subset, FS_CardinalityType DEF Size
    <2>. QED  BY <1>1, <1>2, <1>3, <2>1, <2>2, <2>4
  <1>. QED  BY <1>1, <1>2, <1>3

(* The ranks for recursion over nodes.                                     *)
Ranks == [x \in Nodes |-> Size(x)]

(* The size of a node is its rank.                                         *)
LEMMA RanksFacts == Ranks \in [Nodes -> Nat] /\ \A x \in Nodes : Ranks[x] = Size(x)
  BY PairFacts DEF Ranks

(* What is in a node brings along all that is in it.                       *)
LEMMA NodesOfNodes ==
  ASSUME NEW x \in Nodes, NEW y \in NodesOf(x)
  PROVE  y \in Nodes /\ NodesOf(y) \subseteq NodesOf(x)
  <1> DEFINE good == {z \in Nodes : \A w \in NodesOf(z) : w \in Nodes /\ NodesOf(w) \subseteq NodesOf(z)}
  <1>1. ASSUME NEW z \in Nodes, \A v \in Nodes : Ranks[v] < Ranks[z] => v \in good
        PROVE  z \in good
    <2> SUFFICES ASSUME NEW w \in NodesOf(z)
                 PROVE  w \in Nodes /\ NodesOf(w) \subseteq NodesOf(z)
      OBVIOUS
    <2>1. CASE w = z
      BY <2>1
    <2>2. CASE w # z
      <3>1. PICK v \in {Head(z.items), List(Tail(z.items))} : IsPair(z) /\ w \in NodesOf(v)
        BY <2>2, PairFacts
      <3>2. v \in Nodes /\ NodesOf(v) \subseteq NodesOf(z) /\ Size(v) < Size(z)
        BY <3>1, PairFacts
      <3>3. v \in good
        BY <1>1, <3>2, RanksFacts
      <3>. QED  BY <3>1, <3>2, <3>3
    <2>. QED  BY <2>1, <2>2
  <1>2. Nodes \subseteq good
    <2> HIDE DEF good
    <2>. QED  BY <1>1, RanksFacts, RankInduction
  <1>. QED  BY <1>2

(* The elements of a list are among its nodes, and smaller.                *)
LEMMA ItemsInside ==
  ASSUME NEW x \in Nodes, x.type = "list", NEW i \in 1 .. Len(x.items)
  PROVE  /\ x.items[i] \in NodesOf(x) /\ x.items[i] \in Nodes
         /\ NodesOf(x.items[i]) \subseteq NodesOf(x)
         /\ Size(x.items[i]) < Size(x)
  <1> DEFINE Inside(z) ==
               z.type = "list" =>
                 \A j \in 1 .. Len(z.items) :
                   z.items[j] \in NodesOf(z) /\ Size(z.items[j]) < Size(z)
             good == {z \in Nodes : Inside(z)}
  <1>1. ASSUME NEW z \in Nodes, \A v \in Nodes : Ranks[v] < Ranks[z] => v \in good
        PROVE  z \in good
    <2> SUFFICES ASSUME z.type = "list", NEW j \in 1 .. Len(z.items)
                 PROVE  z.items[j] \in NodesOf(z) /\ Size(z.items[j]) < Size(z)
      OBVIOUS
    <2>1. z.items \in Seq(Nodes)
      BY PairFacts
    <2>2. IsPair(z)
      BY <2>1 DEF IsPair
    <2> DEFINE t == List(Tail(z.items))
    <2>3. /\ t \in Nodes /\ NodesOf(t) \subseteq NodesOf(z) /\ Size(t) < Size(z)
          /\ Head(z.items) \in Nodes /\ Size(Head(z.items)) < Size(z)
          /\ NodesOf(Head(z.items)) \subseteq NodesOf(z)
      BY <2>2, PairFacts
    <2>4. CASE j = 1
      <3>1. z.items[j] = Head(z.items)
        BY <2>1, <2>4
      <3>. QED  BY <2>3, <3>1, PairFacts
    <2>5. CASE j # 1
      <3>1. t.type = "list" /\ t.items = Tail(z.items)
        BY DEF List
      <3>2. j - 1 \in 1 .. Len(t.items) /\ t.items[j - 1] = z.items[j]
        <4> DEFINE s == z.items
        <4>1. s \in Seq(Nodes) /\ s # <<>> /\ j \in 2 .. Len(s)
          BY <2>1, <2>2, <2>5 DEF IsPair
        <4> HIDE DEF s
        <4>2. j - 1 \in 1 .. Len(Tail(s)) /\ Tail(s)[j - 1] = s[j]
          BY <4>1
        <4>. QED  BY <3>1, <4>2 DEF s
      <3>3. t \in good
        <4> HIDE DEF good, t
        <4>. QED  BY <1>1, <2>3, RanksFacts
      <3>4. z.items[j] \in NodesOf(t) /\ Size(z.items[j]) < Size(t)
        <4> HIDE DEF t
        <4>. QED  BY <3>1, <3>2, <3>3
      <3>5. z.items[j] \in Nodes
        BY <2>1, ElementOfSeq
      <3>. QED  BY <2>3, <3>4, <3>5, PairFacts
    <2>. QED  BY <2>4, <2>5
  <1>2. Nodes \subseteq good
    <2> HIDE DEF good
    <2>. QED  BY <1>1, RanksFacts, RankInduction
  <1>3. x.items[i] \in NodesOf(x) /\ Size(x.items[i]) < Size(x)
    BY <1>2
  <1>. QED  BY <1>3, NodesOfNodes

(* Only a list with elements has a form.                                   *)
LEMMA FormIsPair ==
  ASSUME NEW x \in Nodes, Kind(x) \in Forms \cup {"application"}
  PROVE  /\ x.type = "list" /\ x.items \in Seq(Nodes) /\ x.items # <<>> /\ IsPair(x)
         /\ Length(x) = Len(x.items)
  <1>1. /\ x.type \in {"string", "integer", "numeric", "identifier", "list"}
        /\ x.type = "list" => x = List(x.items) /\ x.items \in Seq(Nodes)
    BY NodesAssumption
  <1>2. x.type # "list" => Kind(x) \in {"null", x.type}
    BY DEF Kind
  <1>3. x.type = "list" /\ x.items = <<>> => Kind(x) = "null"
    BY <1>1 DEF Kind, IsNull
  <1>4. x.type = "list"
    <2>1. \A k \in Forms \cup {"application"} : k \notin {"null", "string", "integer", "numeric", "identifier"}
      BY DEF Forms
    <2> HIDE DEF Forms
    <2>2. CASE x.type # "list"
      <3>1. Kind(x) \in {"null", "string", "integer", "numeric", "identifier"}
        <4>1. x.type \in {"string", "integer", "numeric", "identifier"}
          BY <1>1, <2>2
        <4>2. Kind(x) \in {"null", x.type}
          BY <1>2, <2>2
        <4>. QED  BY <4>1, <4>2, Zenon
      <3>. QED  BY <2>1, <3>1, Zenon
    <2>. QED  BY <2>2
  <1>5. x.items # <<>>
    BY <1>3, <1>4 DEF Forms
  <1>. QED  BY <1>1, <1>4, <1>5 DEF IsPair, Length

(* The elements of a sequence, turned round or not.                        *)
LEMMA Elements ==
  ASSUME NEW S, NEW s \in Seq(S)
  PROVE  /\ \A y : y \in Range(s) <=> \E i \in 1 .. Len(s) : y = s[i]
         /\ Reverse(s) \in Seq(S) /\ Range(Reverse(s)) = Range(s)
         /\ Len(Reverse(s)) = Len(s)
  <1>1. \A y : y \in Range(s) <=> \E i \in 1 .. Len(s) : y = s[i]
    BY DEF Range
  <1>2. /\ Reverse(s) \in Seq(S) /\ Len(Reverse(s)) = Len(s)
        /\ \A i \in 1 .. Len(s) : Reverse(s)[i] = s[Len(s) - i + 1]
    BY DEF Reverse
  <1>3. \A y : y \in Range(Reverse(s)) <=> \E i \in 1 .. Len(s) : y = Reverse(s)[i]
    BY <1>2 DEF Range
  <1>4. ASSUME NEW y PROVE y \in Range(Reverse(s)) <=> y \in Range(s)
    <2>1. ASSUME NEW i \in 1 .. Len(s) PROVE \E j \in 1 .. Len(s) : Reverse(s)[i] = s[j] /\ s[i] = Reverse(s)[j]
      <3>1. Len(s) - i + 1 \in 1 .. Len(s) /\ Len(s) - (Len(s) - i + 1) + 1 = i
        OBVIOUS
      <3>. QED  BY <1>2, <3>1
    <2>2. ASSUME y \in Range(Reverse(s)) PROVE y \in Range(s)
      <3>1. PICK i \in 1 .. Len(s) : y = Reverse(s)[i]  BY <1>3, <2>2
      <3>. QED  BY <1>1, <2>1, <3>1
    <2>3. ASSUME y \in Range(s) PROVE y \in Range(Reverse(s))
      <3>1. PICK i \in 1 .. Len(s) : y = s[i]  BY <1>1, <2>3
      <3>. QED  BY <1>3, <2>1, <3>1
    <2>. QED  BY <2>2, <2>3
  <1>. QED  BY <1>1, <1>2, <1>4

(* A sequence of two elements or more.                                     *)
LEMMA LongSequence ==
  ASSUME NEW S, NEW s \in Seq(S), Len(s) >= 2
  PROVE  /\ s # <<>> /\ Tail(s) \in Seq(S) /\ Tail(s) # <<>>
         /\ Len(Tail(s)) = Len(s) - 1
  <1>1. s # <<>> /\ Tail(s) \in Seq(S) /\ Len(Tail(s)) = Len(s) - 1
    OBVIOUS
  <1>2. PICK t : t = Tail(s)
    OBVIOUS
  <1>3. t \in Seq(S) /\ Len(t) >= 1
    BY <1>1, <1>2
  <1>4. t # <<>>
    BY ONLY <1>3
  <1>. QED  BY <1>1, <1>2, <1>4

(* The parts of an expression are elements of it.                          *)
LEMMA PartsAreItems ==
  ASSUME NEW x \in Nodes, NEW y \in Range(Immediate(x)) \cup Range(BodyParts(x))
  PROVE  x.type = "list" /\ \E i \in 1 .. Len(x.items) : y = x.items[i]
  <1>1. ASSUME NEW S, NEW s \in Seq(S), s # <<>>
        PROVE  /\ Range(Tail(s)) \subseteq Range(s) /\ Tail(s) \in Seq(S) /\ Head(s) \in Range(s)
               /\ \A n \in 0 .. Len(s) : Range(SubSeq(s, 2, n)) \subseteq Range(s)
    <2>1. Tail(s) \in Seq(S) /\ \A i \in 1 .. Len(Tail(s)) : Tail(s)[i] = s[i + 1] /\ i + 1 \in 1 .. Len(s)
      BY <1>1
    <2>2. Head(s) = s[1] /\ 1 \in 1 .. Len(s)
      BY <1>1
    <2>3. Range(Tail(s)) \subseteq Range(s) /\ Head(s) \in Range(s)
      BY <2>1, <2>2 DEF Range
    <2>4. ASSUME NEW n \in 0 .. Len(s)  PROVE Range(SubSeq(s, 2, n)) \subseteq Range(s)
      <3>1. DOMAIN SubSeq(s, 2, n) = 1 .. (IF n < 2 THEN 0 ELSE n - 1)
            /\ \A i \in DOMAIN SubSeq(s, 2, n) : SubSeq(s, 2, n)[i] = s[i + 1] /\ i + 1 \in 1 .. Len(s)
        OBVIOUS
      <3>. QED  BY <3>1 DEF Range
    <2>. QED  BY <2>1, <2>3, <2>4
  <1>2. CASE y \in Range(Immediate(x))
    <2> DEFINE n == Length(x)
    <2>0. Immediate(x) # <<>>
      BY <1>2 DEF Range
    <2>1. Kind(x) \in Forms \cup {"application"}
      BY <2>0 DEF Immediate, Forms
    <2>2. x.type = "list" /\ x.items \in Seq(Nodes) /\ x.items # <<>> /\ n = Len(x.items)
      BY <2>1, FormIsPair
    <2>3. CASE Kind(x) \in {"define", "set!"}
      <3>1. n >= 3 /\ Immediate(x) = <<x.items[3]>>
        BY <2>0, <2>2, <2>3 DEF Immediate
      <3>2. y = x.items[3] /\ 3 \in 1 .. Len(x.items)
        BY <1>2, <2>2, <3>1 DEF Range
      <3>. QED  BY <2>2, <3>2
    <2>4. CASE Kind(x) = "if"
      <3>1. Immediate(x) = SubSeq(x.items, 2, IF n < 4 THEN n ELSE 4)
        BY <2>4 DEF Immediate
      <3>2. (IF n < 4 THEN n ELSE 4) \in 0 .. Len(x.items)
        BY <2>2
      <3>3. y \in Range(x.items)
        BY <1>1, <1>2, <2>2, <3>1, <3>2
      <3>. QED  BY <2>2, <3>3, Elements
    <2>5. CASE Kind(x) = "begin"
      <3>1. Immediate(x) = Tail(x.items)
        BY <2>5 DEF Immediate
      <3>3. y \in Range(x.items)
        BY <1>1, <1>2, <2>2, <3>1
      <3>. QED  BY <2>2, <3>3, Elements
    <2>6. CASE Kind(x) = "application"
      <3>1. Immediate(x) = <<Head(x.items)>> \o Reverse(Tail(x.items))
        BY <2>6 DEF Immediate
      <3>2. PICK r : r = Reverse(Tail(x.items))
        OBVIOUS
      <3>3. r \in Seq(Nodes) /\ Range(r) \subseteq Range(x.items) /\ Head(x.items) \in Range(x.items)
        BY <1>1, <2>2, <3>2, Elements
      <3>4. PICK h : h = Head(x.items)
        OBVIOUS
      <3>5. h \in Nodes
        BY <2>2, <3>4
      <3>6. Range(<<h>> \o r) \subseteq {h} \cup Range(r)
        <4>1. DOMAIN (<<h>> \o r) = 1 .. (Len(r) + 1)
              /\ \A i \in 1 .. (Len(r) + 1) : (<<h>> \o r)[i] = IF i = 1 THEN h ELSE r[i - 1]
          BY <3>3, <3>5
        <4>2. \A i \in 2 .. (Len(r) + 1) : r[i - 1] \in Range(r)
          BY <3>3 DEF Range
        <4>. QED  BY <4>1, <4>2 DEF Range
      <3>7. y \in Range(x.items)
        BY <1>2, <3>1, <3>2, <3>3, <3>4, <3>6
      <3>. QED  BY <2>2, <3>7, Elements
    <2>7. CASE Kind(x) = "lambda"
      BY <2>0, <2>7 DEF Immediate
    <2>. QED  BY <2>1, <2>3, <2>4, <2>5, <2>6, <2>7 DEF Forms
  <1>3. CASE y \in Range(BodyParts(x))
    <2>0. BodyParts(x) # <<>>
      BY <1>3 DEF Range
    <2>1. Kind(x) = "lambda" /\ LambdaFormed(x) /\ BodyParts(x) = Tail(Tail(x.items))
      BY <2>0 DEF BodyParts, BodyOf
    <2>2. x.type = "list" /\ x.items \in Seq(Nodes) /\ x.items # <<>> /\ Len(x.items) >= 2
      BY <2>1, FormIsPair DEF LambdaFormed, Forms
    <2>3. Tail(x.items) \in Seq(Nodes) /\ Tail(x.items) # <<>>
      BY <2>2, LongSequence
    <2>4. y \in Range(x.items)
      BY <1>1, <1>3, <2>1, <2>2, <2>3
    <2>. QED  BY <2>2, <2>4, Elements
  <1>. QED  BY <1>2, <1>3

(* What an expression is made of is smaller than the expression.           *)
LEMMA PartsInside ==
  ASSUME NEW x \in Nodes, NEW y \in Range(Immediate(x)) \cup Range(BodyParts(x))
  PROVE  y \in Nodes /\ y \in NodesOf(x) /\ NodesOf(y) \subseteq NodesOf(x) /\ Size(y) < Size(x)
  BY PartsAreItems, ItemsInside

(* The elements of a form that are its parts.                              *)
LEMMA ItemsAreParts ==
  ASSUME NEW x \in Nodes
  PROVE  /\ Kind(x) \in {"define", "set!"} /\ Length(x) >= 3 => x.items[3] \in Range(Immediate(x))
         /\ Kind(x) = "if" =>
              \A i \in 2 .. 4 : i <= Length(x) => x.items[i] \in Range(Immediate(x))
         /\ Kind(x) = "application" =>
              \A i \in 1 .. Length(x) : x.items[i] \in Range(Immediate(x))
  <1>1. Kind(x) \in Forms \cup {"application"} =>
          /\ x.type = "list" /\ x.items \in Seq(Nodes) /\ x.items # <<>>
          /\ Length(x) = Len(x.items)
    BY FormIsPair
  <1>2. ASSUME Kind(x) \in {"define", "set!"}, Length(x) >= 3
        PROVE  x.items[3] \in Range(Immediate(x))
    <2>1. Length(x) = Len(x.items) /\ x.items \in Seq(Nodes)
      BY <1>1, <1>2 DEF Forms
    <2>2. Immediate(x) = <<x.items[3]>>
      BY <1>2, <2>1 DEF Immediate
    <2>. QED  BY <2>2 DEF Range
  <1>3. ASSUME Kind(x) = "if", NEW i \in 2 .. 4, i <= Length(x)
        PROVE  x.items[i] \in Range(Immediate(x))
    <2>1. PICK s, n : s = x.items /\ n = IF Length(x) < 4 THEN Length(x) ELSE 4
      OBVIOUS
    <2>2. s \in Seq(Nodes) /\ Len(s) = Length(x) /\ n \in 2 .. 4 /\ n <= Len(s) /\ i <= n
      <3>1. s \in Seq(Nodes) /\ Len(s) = Length(x)
        BY <1>1, <1>3, <2>1 DEF Forms
      <3>2. Len(s) \in Nat
        BY <3>1
      <3>. QED  BY <1>3, <2>1, <3>1, <3>2
    <2>3. SubSeq(s, 2, n) \in Seq(Nodes) /\ Len(SubSeq(s, 2, n)) = n - 1
          /\ \A j \in 1 .. (n - 1) : SubSeq(s, 2, n)[j] = s[j + 1]
      BY <2>2
    <2>4. i - 1 \in 1 .. (n - 1) /\ (i - 1) + 1 = i
      BY <2>2
    <2>5. s[i] = SubSeq(s, 2, n)[i - 1] /\ i - 1 \in 1 .. Len(SubSeq(s, 2, n))
      BY <2>3, <2>4
    <2>6. s[i] \in Range(SubSeq(s, 2, n))
      BY <2>3, <2>5, Elements
    <2>7. Immediate(x) = SubSeq(s, 2, n)
      BY <1>3, <2>1 DEF Immediate
    <2>. QED  BY <2>1, <2>6, <2>7
  <1>4. ASSUME Kind(x) = "application", NEW i \in 1 .. Length(x)
        PROVE  x.items[i] \in Range(Immediate(x))
    <2>1. PICK s, h, u, r :
            s = x.items /\ h = Head(s) /\ u = Tail(s) /\ r = Reverse(u)
      OBVIOUS
    <2>2. s \in Seq(Nodes) /\ s # <<>> /\ Len(s) = Length(x) /\ Immediate(x) = <<h>> \o r
      BY <1>1, <1>4, <2>1 DEF Immediate
    <2>3. h = s[1] /\ h \in Nodes /\ u \in Seq(Nodes)
          /\ \A j \in 2 .. Len(s) : s[j] = u[j - 1] /\ j - 1 \in 1 .. Len(u)
      BY <2>1, <2>2
    <2>4. r \in Seq(Nodes) /\ Range(r) = Range(u)
      BY <2>1, <2>3, Elements
    <2>5. Len(<<h>> \o r) = Len(r) + 1 /\ <<h>> \o r \in Seq(Nodes)
          /\ \A j \in 1 .. (Len(r) + 1) : (<<h>> \o r)[j] = IF j = 1 THEN h ELSE r[j - 1]
      BY <2>3, <2>4
    <2>6. CASE i = 1
      <3>1. 1 \in 1 .. Len(<<h>> \o r) /\ (<<h>> \o r)[1] = h
        BY <2>4, <2>5
      <3>2. h \in Range(<<h>> \o r)
        BY <2>5, <3>1, Elements
      <3>. QED  BY <2>1, <2>2, <2>3, <2>6, <3>2
    <2>7. CASE i # 1
      <3>1. i \in 2 .. Len(s)
        BY <1>4, <2>2, <2>7
      <3>2. s[i] \in Range(r)
        BY <2>3, <2>4, <3>1, Elements
      <3>3. PICK j \in 1 .. Len(r) : s[i] = r[j]
        BY <2>4, <3>2, Elements
      <3>4. j + 1 \in 1 .. Len(<<h>> \o r) /\ (<<h>> \o r)[j + 1] = r[j]
        BY <2>4, <2>5
      <3>5. s[i] \in Range(<<h>> \o r)
        BY <2>5, <3>3, <3>4, Elements
      <3>. QED  BY <2>1, <2>2, <3>5
    <2>. QED  BY <2>6, <2>7
  <1>. QED  BY <1>2, <1>3, <1>4

-----------------------------------------------------------------------------
(* The functions over the nodes of a program.                              *)

(* There is a function that G maps to itself, if what G makes of a         *)
(* function depends, at each node, on its values at the smaller nodes in   *)
(* it only.                                                                *)
LEMMA NodeRecursion ==
  ASSUME NEW T, T # {}, NEW G \in [[Nodes -> T] -> [Nodes -> T]],
         \A f, g \in [Nodes -> T] : \A x \in Nodes :
           (\A y \in NodesOf(x) : Size(y) < Size(x) => f[y] = g[y]) => G[f][x] = G[g][x]
  PROVE  \E f \in [Nodes -> T] : f = G[f]
  <1>1. ASSUME NEW f \in [Nodes -> T], NEW g \in [Nodes -> T], NEW x \in Nodes,
               \A y \in Nodes : Ranks[y] < Ranks[x] => f[y] = g[y]
        PROVE  G[f][x] = G[g][x]
    <2>1. \A y \in NodesOf(x) : Size(y) < Size(x) => f[y] = g[y]
      BY <1>1, NodesOfNodes, RanksFacts
    <2>. QED  BY <2>1
  <1>2. \A f, g \in [Nodes -> T] : \A x \in Nodes :
          (\A y \in Nodes : Ranks[y] < Ranks[x] => f[y] = g[y]) => G[f][x] = G[g][x]
    BY <1>1
  <1>3. Recursive(Nodes, T, Ranks, G)
    BY <1>2, RanksFacts DEF Recursive
  <1>. QED  BY <1>3, RecursionExists

(* Two functions that follow the same recursion agree at e.                *)
LEMMA SameAtNode ==
  ASSUME NEW e \in Nodes, NEW f, NEW g,
         \A x \in NodesOf(e) :
           (\A y \in NodesOf(x) : Size(y) < Size(x) => f[y] = g[y]) => f[x] = g[x]
  PROVE  f[e] = g[e]
  <1> DEFINE good == {x \in Nodes : x \in NodesOf(e) => f[x] = g[x]}
  <1>1. ASSUME NEW x \in Nodes, \A y \in Nodes : Ranks[y] < Ranks[x] => y \in good
        PROVE  x \in good
    <2> SUFFICES ASSUME x \in NodesOf(e)  PROVE f[x] = g[x]
      OBVIOUS
    <2>1. \A y \in NodesOf(x) : y \in Nodes /\ y \in NodesOf(e)
      BY NodesOfNodes
    <2>2. \A y \in NodesOf(x) : Size(y) < Size(x) => f[y] = g[y]
      BY <1>1, <2>1, RanksFacts
    <2>. QED  BY <2>2
  <1>2. Nodes \subseteq good
    <2> HIDE DEF good
    <2>. QED  BY <1>1, RanksFacts, RankInduction
  <1>. QED  BY <1>2, PairFacts

(* countDefinitions counts.                                                *)
LEMMA CountDefinitionsFacts ==
  ASSUME NEW e \in Nodes
  PROVE  /\ CountDefinitions(e) \in Nat
         /\ CountDefinitions(e) =
              IF ~IsPair(e) \/ Tagged(e, "lambda") THEN 0
              ELSE IF Tagged(e, "define") THEN 1
              ELSE CountDefinitions(Head(e.items)) + CountDefinitions(List(Tail(e.items)))
  <1> DEFINE Body(v, x) ==
        IF ~IsPair(x) \/ Tagged(x, "lambda") THEN 0
        ELSE IF Tagged(x, "define") THEN 1
        ELSE v[Head(x.items)] + v[List(Tail(x.items))]
      G == [v \in [Nodes -> Nat] |-> [x \in Nodes |-> Body(v, x)]]
  <1>1. G \in [[Nodes -> Nat] -> [Nodes -> Nat]]
    BY PairFacts
  <1>2. ASSUME NEW v, NEW w, NEW x \in Nodes,
               \A y \in NodesOf(x) : Size(y) < Size(x) => v[y] = w[y]
        PROVE  Body(v, x) = Body(w, x)
    BY <1>2, PairFacts
  <1>3. \A v \in [Nodes -> Nat] : \A x \in Nodes : G[v][x] = Body(v, x)
    OBVIOUS
  <1>4. \A v, w \in [Nodes -> Nat] : \A x \in Nodes :
          (\A y \in NodesOf(x) : Size(y) < Size(x) => v[y] = w[y]) => G[v][x] = G[w][x]
    <2> HIDE DEF Body, G
    <2>. QED  BY <1>2, <1>3
  <1> HIDE DEF G
  <1>5. PICK f \in [Nodes -> Nat] : f = G[f]
    BY <1>1, <1>4, NodeRecursion
  <1>6. \A x \in Nodes : f[x] = Body(f, x)
    <2> HIDE DEF Body
    <2>. QED  BY <1>3, <1>5
  <1>7. ASSUME NEW a \in Nodes PROVE CountDefinitions(a) = f[a]
    <2> DEFINE Count(v) == v = [x \in NodesOf(a) |-> Body(v, x)]
               g == CHOOSE v : Count(v)
    <2>1. CountDefinitions(a) = g[a]
      BY DEF CountDefinitions
    <2> HIDE DEF Body
    <2>2. Count(g)
      <3> DEFINE w == [x \in NodesOf(a) |-> f[x]]
      <3>1. ASSUME NEW x \in NodesOf(a) PROVE f[x] = Body(w, x)
        <4>1. x \in Nodes /\ \A y \in NodesOf(x) : y \in NodesOf(a)
          BY NodesOfNodes
        <4>2. \A y \in NodesOf(x) : Size(y) < Size(x) => f[y] = w[y]
          BY <4>1
        <4> HIDE DEF w
        <4>. QED  BY <1>2, <1>6, <4>1, <4>2
      <3>2. Count(w)
        BY <3>1
      <3>. QED  BY <3>2
    <2>3. \A x \in NodesOf(a) : g[x] = Body(g, x)
      <3> HIDE DEF g
      <3>. QED  BY <2>2
    <2> HIDE DEF g
    <2>4. ASSUME NEW x \in NodesOf(a), \A y \in NodesOf(x) : Size(y) < Size(x) => g[y] = f[y]
          PROVE  g[x] = f[x]
      BY <1>2, <1>6, <2>3, <2>4, NodesOfNodes
    <2>5. g[a] = f[a]
      BY <2>4, SameAtNode
    <2>. QED  BY <2>1, <2>5
  <1>8. IsPair(e) => Head(e.items) \in Nodes /\ List(Tail(e.items)) \in Nodes
    BY PairFacts
  <1>. QED  BY <1>5, <1>6, <1>7, <1>8

(* Which expressions may leave no word.                                    *)
LEMMA MayLeaveNoneFacts ==
  ASSUME NEW e \in Nodes
  PROVE  /\ MayLeaveNone(e) \in BOOLEAN
         /\ MayLeaveNone(e) <=>
              \/ Kind(e) \in {"define", "set!"}
              \/ Kind(e) = "if" /\ (Length(e) < 4 \/ MayLeaveNone(e.items[3])
                                                   \/ MayLeaveNone(e.items[4]))
              \/ Kind(e) = "begin" /\ \A y \in Range(Immediate(e)) : MayLeaveNone(y)
  <1> DEFINE Body(v, x) ==
        \/ Kind(x) \in {"define", "set!"}
        \/ Kind(x) = "if" /\ (Length(x) < 4 \/ v[x.items[3]] \/ v[x.items[4]])
        \/ Kind(x) = "begin" /\ \A y \in Range(Immediate(x)) : v[y]
      T == BOOLEAN
      G == [v \in [Nodes -> T] |-> [x \in Nodes |-> Body(v, x)]]
  <1>1. \A v \in [Nodes -> T] : \A x \in Nodes : Body(v, x) \in T
    OBVIOUS
  <1>2. ASSUME NEW v, NEW w, NEW x \in Nodes,
               \A y \in NodesOf(x) : Size(y) < Size(x) => v[y] = w[y]
        PROVE  Body(v, x) = Body(w, x)
    <2>1. ASSUME Kind(x) = "if", ~(Length(x) < 4)
          PROVE  v[x.items[3]] = w[x.items[3]] /\ v[x.items[4]] = w[x.items[4]]
      <3>1. x.type = "list" /\ 3 \in 1 .. Len(x.items) /\ 4 \in 1 .. Len(x.items)
        BY <2>1, FormIsPair DEF Forms
      <3>. QED  BY <1>2, <3>1, ItemsInside
    <2>2. \A y \in Range(Immediate(x)) : v[y] = w[y]
      BY <1>2, PartsInside
    <2>. QED  BY <2>1, <2>2
  <1> HIDE DEF Body
  <1>3. /\ T # {} /\ G \in [[Nodes -> T] -> [Nodes -> T]]
        /\ \A v \in [Nodes -> T] : \A x \in Nodes : G[v][x] = Body(v, x)
    <2>1. T # {}
      OBVIOUS
    <2> HIDE DEF T
    <2>. QED  BY <1>1, <2>1
  <1>4. \A v, w \in [Nodes -> T] : \A x \in Nodes :
          (\A y \in NodesOf(x) : Size(y) < Size(x) => v[y] = w[y]) => G[v][x] = G[w][x]
    <2> HIDE DEF G, T
    <2>. QED  BY <1>2, <1>3
  <1> HIDE DEF G, T
  <1>5. PICK f \in [Nodes -> T] : f = G[f]
    BY <1>3, <1>4, NodeRecursion
  <1>6. \A x \in Nodes : f[x] = Body(f, x)
    BY <1>3, <1>5
  <1>7. ASSUME NEW a \in Nodes PROVE MayLeaveNone(a) = f[a]
    <2> DEFINE Local(v) == v = [x \in NodesOf(a) |-> Body(v, x)]
               g == CHOOSE v : Local(v)
    <2>1. MayLeaveNone(a) = g[a]
      BY DEF MayLeaveNone, Body
    <2>2. Local(g)
      <3> DEFINE w == [x \in NodesOf(a) |-> f[x]]
      <3>1. ASSUME NEW x \in NodesOf(a) PROVE f[x] = Body(w, x)
        <4>1. x \in Nodes /\ \A y \in NodesOf(x) : y \in NodesOf(a)
          BY NodesOfNodes
        <4>2. \A y \in NodesOf(x) : Size(y) < Size(x) => f[y] = w[y]
          BY <4>1
        <4> HIDE DEF w
        <4>. QED  BY <1>2, <1>6, <4>1, <4>2
      <3>2. Local(w)
        BY <3>1
      <3>. QED  BY <3>2
    <2>3. \A x \in NodesOf(a) : g[x] = Body(g, x)
      <3> HIDE DEF g
      <3>. QED  BY <2>2
    <2> HIDE DEF g
    <2>4. ASSUME NEW x \in NodesOf(a), \A y \in NodesOf(x) : Size(y) < Size(x) => g[y] = f[y]
          PROVE  g[x] = f[x]
      BY <1>2, <1>6, <2>3, <2>4, NodesOfNodes
    <2>5. g[a] = f[a]
      BY <2>4, SameAtNode
    <2>. QED  BY <2>1, <2>5
  <1>8. \A y \in Range(Immediate(e)) : y \in Nodes
    BY PartsInside
  <1>9. Kind(e) = "if" /\ ~(Length(e) < 4) => e.items[3] \in Nodes /\ e.items[4] \in Nodes
    <2> HAVE Kind(e) = "if" /\ ~(Length(e) < 4)
    <2>1. e.type = "list" /\ 3 \in 1 .. Len(e.items) /\ 4 \in 1 .. Len(e.items)
      BY FormIsPair DEF Forms
    <2>. QED  BY <2>1, ItemsInside
  <1>10. MayLeaveNone(e) = Body(f, e) /\ MayLeaveNone(e) \in BOOLEAN
    BY <1>5, <1>6, <1>7 DEF T
  <1>11. Kind(e) = "if" /\ ~(Length(e) < 4) =>
           f[e.items[3]] = MayLeaveNone(e.items[3]) /\ f[e.items[4]] = MayLeaveNone(e.items[4])
    BY <1>7, <1>9
  <1>12. \A y \in Range(Immediate(e)) : f[y] = MayLeaveNone(y)
    BY <1>7, <1>8
  <1>. QED  BY <1>10, <1>11, <1>12 DEF Body

(* What an expression is made of.                                          *)
LEMMA ExpressionsOfFacts ==
  ASSUME NEW e \in Nodes
  PROVE  /\ ExpressionsOf(e) \subseteq Nodes
         /\ ExpressionsOf(e) =
              {e} \cup UNION {ExpressionsOf(y) : y \in Range(Immediate(e)) \cup Range(BodyParts(e))}
  <1> DEFINE Body(v, x) ==
        {x} \cup UNION {v[y] : y \in Range(Immediate(x)) \cup Range(BodyParts(x))}
      T == SUBSET Nodes
      G == [v \in [Nodes -> T] |-> [x \in Nodes |-> Body(v, x)]]
  <1>1. \A v \in [Nodes -> T] : \A x \in Nodes : Body(v, x) \in T
    BY PartsInside
  <1>2. ASSUME NEW v, NEW w, NEW x \in Nodes,
               \A y \in NodesOf(x) : Size(y) < Size(x) => v[y] = w[y]
        PROVE  Body(v, x) = Body(w, x)
    BY <1>2, PartsInside
  <1> HIDE DEF Body
  <1>3. /\ T # {} /\ G \in [[Nodes -> T] -> [Nodes -> T]]
        /\ \A v \in [Nodes -> T] : \A x \in Nodes : G[v][x] = Body(v, x)
    <2>1. T # {}
      OBVIOUS
    <2> HIDE DEF T
    <2>. QED  BY <1>1, <2>1
  <1>4. \A v, w \in [Nodes -> T] : \A x \in Nodes :
          (\A y \in NodesOf(x) : Size(y) < Size(x) => v[y] = w[y]) => G[v][x] = G[w][x]
    <2> HIDE DEF G, T
    <2>. QED  BY <1>2, <1>3
  <1> HIDE DEF G, T
  <1>5. PICK f \in [Nodes -> T] : f = G[f]
    BY <1>3, <1>4, NodeRecursion
  <1>6. \A x \in Nodes : f[x] = Body(f, x)
    BY <1>3, <1>5
  <1>7. ASSUME NEW a \in Nodes PROVE ExpressionsOf(a) = f[a]
    <2> DEFINE Local(v) == v = [x \in NodesOf(a) |-> Body(v, x)]
               g == CHOOSE v : Local(v)
    <2>1. ExpressionsOf(a) = g[a]
      BY DEF ExpressionsOf, Body
    <2>2. Local(g)
      <3> DEFINE w == [x \in NodesOf(a) |-> f[x]]
      <3>1. ASSUME NEW x \in NodesOf(a) PROVE f[x] = Body(w, x)
        <4>1. x \in Nodes /\ \A y \in NodesOf(x) : y \in NodesOf(a)
          BY NodesOfNodes
        <4>2. \A y \in NodesOf(x) : Size(y) < Size(x) => f[y] = w[y]
          BY <4>1
        <4> HIDE DEF w
        <4>. QED  BY <1>2, <1>6, <4>1, <4>2
      <3>2. Local(w)
        BY <3>1
      <3>. QED  BY <3>2
    <2>3. \A x \in NodesOf(a) : g[x] = Body(g, x)
      <3> HIDE DEF g
      <3>. QED  BY <2>2
    <2> HIDE DEF g
    <2>4. ASSUME NEW x \in NodesOf(a), \A y \in NodesOf(x) : Size(y) < Size(x) => g[y] = f[y]
          PROVE  g[x] = f[x]
      BY <1>2, <1>6, <2>3, <2>4, NodesOfNodes
    <2>5. g[a] = f[a]
      BY <2>4, SameAtNode
    <2>. QED  BY <2>1, <2>5
  <1>8. \A y \in Range(Immediate(e)) \cup Range(BodyParts(e)) : f[y] = ExpressionsOf(y)
    BY <1>7, PartsInside
  <1>9. ExpressionsOf(e) = Body(f, e) /\ ExpressionsOf(e) \in SUBSET Nodes
    BY <1>5, <1>6, <1>7 DEF T
  <1>. QED  BY <1>8, <1>9 DEF Body

(* What an expression defines.                                             *)
LEMMA DefinitionsFacts ==
  ASSUME NEW e \in Nodes
  PROVE  /\ Definitions(e) \subseteq Nodes
         /\ Definitions(e) =
              (IF Kind(e) = "define" THEN {e} ELSE {})
                \cup UNION {Definitions(y) : y \in Range(Immediate(e))}
  <1> DEFINE Body(v, x) ==
        (IF Kind(x) = "define" THEN {x} ELSE {}) \cup UNION {v[y] : y \in Range(Immediate(x))}
      T == SUBSET Nodes
      G == [v \in [Nodes -> T] |-> [x \in Nodes |-> Body(v, x)]]
  <1>1. \A v \in [Nodes -> T] : \A x \in Nodes : Body(v, x) \in T
    BY PartsInside
  <1>2. ASSUME NEW v, NEW w, NEW x \in Nodes,
               \A y \in NodesOf(x) : Size(y) < Size(x) => v[y] = w[y]
        PROVE  Body(v, x) = Body(w, x)
    BY <1>2, PartsInside
  <1> HIDE DEF Body
  <1>3. /\ T # {} /\ G \in [[Nodes -> T] -> [Nodes -> T]]
        /\ \A v \in [Nodes -> T] : \A x \in Nodes : G[v][x] = Body(v, x)
    <2>1. T # {}
      OBVIOUS
    <2> HIDE DEF T
    <2>. QED  BY <1>1, <2>1
  <1>4. \A v, w \in [Nodes -> T] : \A x \in Nodes :
          (\A y \in NodesOf(x) : Size(y) < Size(x) => v[y] = w[y]) => G[v][x] = G[w][x]
    <2> HIDE DEF G, T
    <2>. QED  BY <1>2, <1>3
  <1> HIDE DEF G, T
  <1>5. PICK f \in [Nodes -> T] : f = G[f]
    BY <1>3, <1>4, NodeRecursion
  <1>6. \A x \in Nodes : f[x] = Body(f, x)
    BY <1>3, <1>5
  <1>7. ASSUME NEW a \in Nodes PROVE Definitions(a) = f[a]
    <2> DEFINE Local(v) == v = [x \in NodesOf(a) |-> Body(v, x)]
               g == CHOOSE v : Local(v)
    <2>1. Definitions(a) = g[a]
      BY DEF Definitions, Body
    <2>2. Local(g)
      <3> DEFINE w == [x \in NodesOf(a) |-> f[x]]
      <3>1. ASSUME NEW x \in NodesOf(a) PROVE f[x] = Body(w, x)
        <4>1. x \in Nodes /\ \A y \in NodesOf(x) : y \in NodesOf(a)
          BY NodesOfNodes
        <4>2. \A y \in NodesOf(x) : Size(y) < Size(x) => f[y] = w[y]
          BY <4>1
        <4> HIDE DEF w
        <4>. QED  BY <1>2, <1>6, <4>1, <4>2
      <3>2. Local(w)
        BY <3>1
      <3>. QED  BY <3>2
    <2>3. \A x \in NodesOf(a) : g[x] = Body(g, x)
      <3> HIDE DEF g
      <3>. QED  BY <2>2
    <2> HIDE DEF g
    <2>4. ASSUME NEW x \in NodesOf(a), \A y \in NodesOf(x) : Size(y) < Size(x) => g[y] = f[y]
          PROVE  g[x] = f[x]
      BY <1>2, <1>6, <2>3, <2>4, NodesOfNodes
    <2>5. g[a] = f[a]
      BY <2>4, SameAtNode
    <2>. QED  BY <2>1, <2>5
  <1>8. \A y \in Range(Immediate(e)) : f[y] = Definitions(y)
    BY <1>7, PartsInside
  <1>9. Definitions(e) = Body(f, e) /\ Definitions(e) \in SUBSET Nodes
    BY <1>5, <1>6, <1>7 DEF T
  <1>. QED  BY <1>8, <1>9 DEF Body

(* The expressions of a program are the parts of its expressions.          *)
LEMMA ExpressionsClosed ==
  ASSUME program \in Nodes
  PROVE  /\ Expressions \subseteq Nodes /\ program \in Expressions
         /\ \A x \in Expressions : Range(Immediate(x)) \cup Range(BodyParts(x)) \subseteq Expressions
  <1> DEFINE good == {x \in Nodes : \A y \in ExpressionsOf(x) : ExpressionsOf(y) \subseteq ExpressionsOf(x)}
  <1>1. ASSUME NEW x \in Nodes, \A v \in Nodes : Ranks[v] < Ranks[x] => v \in good
        PROVE  x \in good
    <2> SUFFICES ASSUME NEW y \in ExpressionsOf(x)
                 PROVE  ExpressionsOf(y) \subseteq ExpressionsOf(x)
      OBVIOUS
    <2>1. CASE y = x
      BY <2>1
    <2>2. CASE y # x
      <3>1. PICK v \in Range(Immediate(x)) \cup Range(BodyParts(x)) : y \in ExpressionsOf(v)
        BY <2>2, ExpressionsOfFacts
      <3>2. v \in Nodes /\ Size(v) < Size(x)
        BY PartsInside
      <3>3. v \in good
        BY <1>1, <3>2, RanksFacts
      <3>4. ExpressionsOf(v) \subseteq ExpressionsOf(x)
        BY ExpressionsOfFacts
      <3>. QED  BY <3>1, <3>3, <3>4
    <2>. QED  BY <2>1, <2>2
  <1>2. Nodes \subseteq good
    <2> HIDE DEF good
    <2>. QED  BY <1>1, RanksFacts, RankInduction
  <1>3. Expressions = ExpressionsOf(program) /\ Expressions \subseteq Nodes /\ program \in Expressions
    BY ExpressionsOfFacts DEF Expressions
  <1>4. ASSUME NEW x \in Expressions, NEW y \in Range(Immediate(x)) \cup Range(BodyParts(x))
        PROVE  y \in Expressions
    <2>1. x \in Nodes
      BY <1>3
    <2>2. y \in Nodes
      BY <2>1, PartsInside
    <2>3. y \in ExpressionsOf(y) /\ ExpressionsOf(y) \subseteq ExpressionsOf(x)
      BY <2>1, <2>2, ExpressionsOfFacts
    <2>4. ExpressionsOf(x) \subseteq ExpressionsOf(program)
      BY <1>2, <1>3
    <2>. QED  BY <1>3, <2>3, <2>4
  <1>. QED  BY <1>3, <1>4

-----------------------------------------------------------------------------
(* Names.                                                                  *)

Identifiers == {x.identifier : x \in Nodes}
NameSets == [used : SUBSET Identifiers, defined : SUBSET Identifiers, closed : SUBSET Identifiers]

(* The names of x, from those of its parts ps and those of its body bs.    *)
Joined(x, ps, bs) ==
  CASE Kind(x) = "identifier" -> Names({x.identifier}, {}, {})
    [] Kind(x) = "define" /\ Length(x) >= 3 ->
         InOrder(ps \o <<Names({}, {x.items[2].identifier}, {})>>)
    [] Kind(x) = "set!" /\ Length(x) >= 3 ->
         InOrder(ps \o <<Names({x.items[2].identifier}, {}, {})>>)
    [] Kind(x) = "lambda" /\ LambdaFormed(x) ->
         Names({}, {}, Free(InOrder(bs)) \ {y.identifier : y \in Range(Parameters(x).items)})
    [] OTHER -> InOrder(ps)

NamesOf(xs) == [i \in 1 .. Len(xs) |-> NamesIn(xs[i])]

(* Names made of identifiers are made of identifiers.                      *)
LEMMA InOrderType ==
  ASSUME NEW ns \in Seq(NameSets)
  PROVE  InOrder(ns) \in NameSets /\ Free(InOrder(ns)) \subseteq Identifiers
  <1>1. /\ Len(ns) \in Nat
        /\ \A i \in 1 .. Len(ns) :
             /\ ns[i].used \subseteq Identifiers /\ ns[i].defined \subseteq Identifiers
             /\ ns[i].closed \subseteq Identifiers
    <2>1. \A i \in 1 .. Len(ns) : ns[i] \in NameSets
      OBVIOUS
    <2>2. Len(ns) \in Nat
      OBVIOUS
    <2>. QED  BY <2>1, <2>2 DEF NameSets
  <1> HIDE DEF Identifiers
  <1> DEFINE n == InOrder(ns)
  <1>2. n.used \subseteq Identifiers /\ n.defined \subseteq Identifiers /\ n.closed \subseteq Identifiers
    BY <1>1 DEF InOrder, Names
  <1>3. n = [used |-> n.used, defined |-> n.defined, closed |-> n.closed]
    BY DEF InOrder, Names
  <1> HIDE DEF n
  <1>4. n \in NameSets
    BY <1>2, <1>3 DEF NameSets
  <1>. QED  BY <1>2, <1>4 DEF n, Free

(* And so are those of an expression, if those of its parts are.           *)
LEMMA JoinedType ==
  ASSUME NEW x \in Nodes, NEW ps \in Seq(NameSets), NEW bs \in Seq(NameSets)
  PROVE  Joined(x, ps, bs) \in NameSets
  <1>1. CASE Kind(x) = "identifier"
    <2>1. x.identifier \in Identifiers
      BY DEF Identifiers
    <2>2. Joined(x, ps, bs) = Names({x.identifier}, {}, {})
      BY <1>1 DEF Joined
    <2>. QED  BY <2>1, <2>2 DEF Names, NameSets
  <1>2. CASE Kind(x) \in {"define", "set!"} /\ Length(x) >= 3
    <2>1. x.type = "list" /\ x.items \in Seq(Nodes) /\ Length(x) = Len(x.items)
      BY <1>2, FormIsPair DEF Forms
    <2>2. 2 \in 1 .. Len(x.items)
      BY <1>2, <2>1
    <2>3. x.items[2] \in Nodes
      BY <2>1, <2>2
    <2>4. PICK v \in Identifiers : v = x.items[2].identifier
      BY <2>3 DEF Identifiers
    <2>5. /\ Names({}, {v}, {}) \in NameSets /\ Names({v}, {}, {}) \in NameSets
      BY <2>4 DEF Names, NameSets
    <2>6. /\ ps \o <<Names({}, {v}, {})>> \in Seq(NameSets)
          /\ ps \o <<Names({v}, {}, {})>> \in Seq(NameSets)
      <3> HIDE DEF NameSets
      <3>. QED  BY <2>5
    <2>7. \/ Joined(x, ps, bs) = InOrder(ps \o <<Names({}, {v}, {})>>)
          \/ Joined(x, ps, bs) = InOrder(ps \o <<Names({v}, {}, {})>>)
      BY <1>2, <2>4 DEF Joined
    <2>. QED  BY <2>6, <2>7, InOrderType
  <1>3. CASE Kind(x) = "lambda" /\ LambdaFormed(x)
    <2>1. PICK c \in SUBSET Identifiers :
            c = Free(InOrder(bs)) \ {y.identifier : y \in Range(Parameters(x).items)}
      BY InOrderType
    <2>2. Joined(x, ps, bs) = Names({}, {}, c)
      BY <1>3, <2>1 DEF Joined
    <2>. QED  BY <2>2 DEF Names, NameSets
  <1>4. CASE /\ Kind(x) # "identifier" /\ ~ (Kind(x) \in {"define", "set!"} /\ Length(x) >= 3)
             /\ ~ (Kind(x) = "lambda" /\ LambdaFormed(x))
    <2>1. Joined(x, ps, bs) = InOrder(ps)
      BY <1>4 DEF Joined
    <2>. QED  BY <2>1, InOrderType
  <1>. QED  BY <1>1, <1>2, <1>3, <1>4

(* The parts of an expression make a sequence of nodes.                    *)
LEMMA PartsSequence ==
  ASSUME NEW x \in Nodes
  PROVE  Immediate(x) \in Seq(Nodes) /\ BodyParts(x) \in Seq(Nodes)
  <1>1. CASE Kind(x) \in Forms \cup {"application"}
    <2>1. x.type = "list" /\ x.items \in Seq(Nodes) /\ x.items # <<>> /\ Length(x) = Len(x.items)
      BY <1>1, FormIsPair
    <2>2. PICK s : s = x.items
      OBVIOUS
    <2>3. /\ s \in Seq(Nodes) /\ s # <<>> /\ Head(s) \in Nodes /\ Tail(s) \in Seq(Nodes)
          /\ Reverse(Tail(s)) \in Seq(Nodes) /\ Len(s) \in Nat
      <3>1. s \in Seq(Nodes) /\ s # <<>>
        BY <2>1, <2>2
      <3>2. Head(s) \in Nodes /\ Tail(s) \in Seq(Nodes) /\ Len(s) \in Nat
        BY <3>1
      <3>. QED  BY <3>1, <3>2, Elements
    <2>4. Kind(x) \in {"define", "set!"} => Immediate(x) \in Seq(Nodes)
      <3>1. Len(s) >= 3 => s[3] \in Nodes
        BY <2>3
      <3>. QED  BY <2>1, <2>2, <2>3, <3>1 DEF Immediate
    <2>5. Kind(x) = "if" => Immediate(x) \in Seq(Nodes)
      <3>1. \A k \in 0 .. Len(s) : SubSeq(s, 2, k) \in Seq(Nodes)
        BY <2>3
      <3>2. (IF Len(s) < 4 THEN Len(s) ELSE 4) \in 0 .. Len(s)
        BY <2>3
      <3>. QED  BY <2>1, <2>2, <3>1, <3>2 DEF Immediate
    <2>6. Kind(x) = "begin" => Immediate(x) \in Seq(Nodes)
      BY <2>2, <2>3 DEF Immediate
    <2>7. Kind(x) = "application" => Immediate(x) \in Seq(Nodes)
      <3>1. PICK h, r : h = Head(s) /\ r = Reverse(Tail(s))
        OBVIOUS
      <3>2. h \in Nodes /\ r \in Seq(Nodes)
        BY <2>3, <3>1
      <3>3. <<h>> \o r \in Seq(Nodes)
        BY ONLY <3>2
      <3>. QED  BY <2>2, <3>1, <3>3 DEF Immediate
    <2>8. Kind(x) = "lambda" => Immediate(x) \in Seq(Nodes)
      BY DEF Immediate
    <2>9. BodyParts(x) \in Seq(Nodes)
      <3>1. CASE Kind(x) = "lambda" /\ LambdaFormed(x)
        <4>1. Len(s) >= 2
          BY <2>1, <2>2, <3>1 DEF LambdaFormed
        <4>2. Tail(s) \in Seq(Nodes) /\ Tail(s) # <<>>
          BY <2>3, <4>1, LongSequence
        <4>3. Tail(Tail(s)) \in Seq(Nodes)
          BY <4>2
        <4>. QED  BY <2>2, <3>1, <4>3 DEF BodyParts, BodyOf
      <3>2. CASE ~ (Kind(x) = "lambda" /\ LambdaFormed(x))
        BY <3>2 DEF BodyParts
      <3>. QED  BY <3>1, <3>2
    <2>. QED  BY <1>1, <2>4, <2>5, <2>6, <2>7, <2>8, <2>9 DEF Forms
  <1>2. CASE ~ (Kind(x) \in Forms \cup {"application"})
    BY <1>2 DEF Immediate, BodyParts, Forms
  <1>. QED  BY <1>1, <1>2

(* What names are in an expression.                                        *)
LEMMA NamesFacts ==
  ASSUME NEW e \in Nodes
  PROVE  /\ NamesIn(e) \in NameSets
         /\ NamesIn(e) = Joined(e, NamesOf(Immediate(e)), NamesOf(BodyParts(e)))
  <1> DEFINE Each(v, xs) == [i \in 1 .. Len(xs) |-> v[xs[i]]]
             Body(v, x) == Joined(x, Each(v, Immediate(x)), Each(v, BodyParts(x)))
             T == NameSets
             G == [v \in [Nodes -> T] |-> [x \in Nodes |-> Body(v, x)]]
  <1>1. \A v \in [Nodes -> T] : \A x \in Nodes : Body(v, x) \in T
    <2> TAKE v \in [Nodes -> T]
    <2> TAKE x \in Nodes
    <2>1. ASSUME NEW xs \in Seq(Nodes) PROVE Each(v, xs) \in Seq(T)
      <3>1. Len(xs) \in Nat /\ \A i \in 1 .. Len(xs) : v[xs[i]] \in T
        OBVIOUS
      <3> HIDE DEF T
      <3>. QED  BY <3>1
    <2>2. Each(v, Immediate(x)) \in Seq(T) /\ Each(v, BodyParts(x)) \in Seq(T)
      BY <2>1, PartsSequence
    <2> HIDE DEF Each
    <2>. QED  BY <2>2, JoinedType
  <1>2. ASSUME NEW v, NEW w, NEW x \in Nodes,
               \A y \in NodesOf(x) : Size(y) < Size(x) => v[y] = w[y]
        PROVE  Body(v, x) = Body(w, x)
    <2>1. ASSUME NEW xs, Range(xs) \subseteq Range(Immediate(x)) \cup Range(BodyParts(x)),
                 xs \in Seq(Nodes)
          PROVE  Each(v, xs) = Each(w, xs)
      <3>1. \A i \in 1 .. Len(xs) : xs[i] \in Range(xs)
        BY <2>1 DEF Range
      <3>2. \A i \in 1 .. Len(xs) : v[xs[i]] = w[xs[i]]
        BY <1>2, <2>1, <3>1, PartsInside
      <3>. QED  BY <3>2
    <2>2. /\ Each(v, Immediate(x)) = Each(w, Immediate(x))
          /\ Each(v, BodyParts(x)) = Each(w, BodyParts(x))
      BY <2>1, PartsSequence
    <2> HIDE DEF Each
    <2>. QED  BY <2>2
  <1> HIDE DEF Body
  <1>3. /\ T # {} /\ G \in [[Nodes -> T] -> [Nodes -> T]]
        /\ \A v \in [Nodes -> T] : \A x \in Nodes : G[v][x] = Body(v, x)
    <2>1. T # {}
      <3>1. [used |-> {}, defined |-> {}, closed |-> {}] \in NameSets
        BY DEF NameSets
      <3>. QED  BY <3>1
    <2> HIDE DEF T
    <2>. QED  BY <1>1, <2>1
  <1>4. \A v, w \in [Nodes -> T] : \A x \in Nodes :
          (\A y \in NodesOf(x) : Size(y) < Size(x) => v[y] = w[y]) => G[v][x] = G[w][x]
    <2> HIDE DEF G, T
    <2>. QED  BY <1>2, <1>3
  <1> HIDE DEF G, T
  <1>5. PICK f \in [Nodes -> T] : f = G[f]
    BY <1>3, <1>4, NodeRecursion
  <1>6. \A x \in Nodes : f[x] = Body(f, x)
    BY <1>3, <1>5
  <1>7. ASSUME NEW a \in Nodes PROVE NamesIn(a) = f[a]
    <2> DEFINE Local(v) == v = [x \in NodesOf(a) |-> Body(v, x)]
               g == CHOOSE v : Local(v)
    <2>1. NamesIn(a) = g[a]
      BY DEF NamesIn, Body, Joined
    <2>2. Local(g)
      <3> DEFINE w == [x \in NodesOf(a) |-> f[x]]
      <3>1. ASSUME NEW x \in NodesOf(a) PROVE f[x] = Body(w, x)
        <4>1. x \in Nodes /\ \A y \in NodesOf(x) : y \in NodesOf(a)
          BY NodesOfNodes
        <4>2. \A y \in NodesOf(x) : Size(y) < Size(x) => f[y] = w[y]
          BY <4>1
        <4> HIDE DEF w
        <4>. QED  BY <1>2, <1>6, <4>1, <4>2
      <3>2. Local(w)
        BY <3>1
      <3>. QED  BY <3>2
    <2>3. \A x \in NodesOf(a) : g[x] = Body(g, x)
      <3> HIDE DEF g
      <3>. QED  BY <2>2
    <2> HIDE DEF g
    <2>4. ASSUME NEW x \in NodesOf(a), \A y \in NodesOf(x) : Size(y) < Size(x) => g[y] = f[y]
          PROVE  g[x] = f[x]
      BY <1>2, <1>6, <2>3, <2>4, NodesOfNodes
    <2>5. g[a] = f[a]
      BY <2>4, SameAtNode
    <2>. QED  BY <2>1, <2>5
  <1>8. ASSUME NEW xs \in Seq(Nodes) PROVE NamesOf(xs) = Each(f, xs)
    <2>1. \A i \in 1 .. Len(xs) : xs[i] \in Nodes
      OBVIOUS
    <2>2. \A i \in 1 .. Len(xs) : NamesIn(xs[i]) = f[xs[i]]
      BY <1>7, <2>1
    <2>. QED  BY <2>2 DEF NamesOf
  <1>9. NamesOf(Immediate(e)) = Each(f, Immediate(e)) /\ NamesOf(BodyParts(e)) = Each(f, BodyParts(e))
    BY <1>8, PartsSequence
  <1>10. NamesIn(e) = Body(f, e) /\ NamesIn(e) \in NameSets
    BY <1>5, <1>6, <1>7 DEF T
  <1> HIDE DEF Each
  <1>. QED  BY <1>9, <1>10 DEF Body

(* A definition in an expression is a node of it.                          *)
LEMMA DefinitionsInside ==
  ASSUME NEW e \in Nodes
  PROVE  Definitions(e) \subseteq NodesOf(e)
  <1> DEFINE good == {x \in Nodes : Definitions(x) \subseteq NodesOf(x)}
  <1>1. ASSUME NEW x \in Nodes, \A y \in Nodes : Ranks[y] < Ranks[x] => y \in good
        PROVE  x \in good
    <2>1. ASSUME NEW y \in Range(Immediate(x)) PROVE Definitions(y) \subseteq NodesOf(x)
      <3>1. y \in Nodes /\ NodesOf(y) \subseteq NodesOf(x) /\ Size(y) < Size(x)
        BY PartsInside
      <3>. QED  BY <1>1, <3>1, RanksFacts
    <2>2. x \in NodesOf(x)
      BY PairFacts
    <2>. QED  BY <2>1, <2>2, DefinitionsFacts
  <1>2. Nodes \subseteq good
    <2> HIDE DEF good
    <2>. QED  BY <1>1, RanksFacts, RankInduction
  <1>. QED  BY <1>2

-----------------------------------------------------------------------------
(* Paths.                                                                  *)
(*                                                                         *)
(* Each element of a sequence leads from a value to a value, as triples in *)
(* R say, and the sequence from the first to the last of them.             *)

Path(R, V, s, a, z) ==
  \E c \in [1 .. (Len(s) + 1) -> V] :
    /\ c[1] = a /\ c[Len(s) + 1] = z
    /\ \A i \in 1 .. Len(s) : <<s[i], c[i], c[i + 1]>> \in R

(* No element leads nowhere else.                                          *)
LEMMA EmptyPath ==
  ASSUME NEW R, NEW V, NEW a \in V, NEW z
  PROVE  Path(R, V, <<>>, a, z) <=> a = z
  <1>1. Len(<<>>) = 0
    OBVIOUS
  <1>2. Path(R, V, <<>>, a, z) => a = z
    BY <1>1 DEF Path
  <1>3. ASSUME a = z PROVE Path(R, V, <<>>, a, z)
    <2>1. PICK n, c : n = 0 /\ c = [i \in 1 .. 1 |-> a]
      OBVIOUS
    <2>2. c \in [1 .. (n + 1) -> V] /\ c[1] = a /\ c[n + 1] = z /\ \A i \in 1 .. n : FALSE
      BY <1>3, <2>1
    <2>. QED  BY <1>1, <2>1, <2>2 DEF Path
  <1>. QED  BY <1>2, <1>3

(* One element is a path.                                                  *)
LEMMA ShortPath ==
  ASSUME NEW R, NEW V, NEW s, NEW a \in V, NEW z \in V, <<s, a, z>> \in R
  PROVE  Path(R, V, <<s>>, a, z)
  <1> DEFINE c == [i \in 1 .. 2 |-> IF i = 1 THEN a ELSE z]
  <1>1. Len(<<s>>) = 1 /\ <<s>>[1] = s
    OBVIOUS
  <1>2. c \in [1 .. (1 + 1) -> V] /\ c[1] = a /\ c[1 + 1] = z
    OBVIOUS
  <1>3. \A i \in 1 .. 1 : <<<<s>>[i], c[i], c[i + 1]>> \in R
    <2>1. \A i \in 1 .. 1 : i = 1
      OBVIOUS
    <2> HIDE DEF c
    <2>. QED  BY <1>1, <1>2, <2>1
  <1> HIDE DEF c
  <1>. QED  BY <1>1, <1>2, <1>3 DEF Path

(* A path goes by where its first element leads.                           *)
LEMMA PathTail ==
  ASSUME NEW R, NEW V, NEW S, NEW s \in Seq(S), s # <<>>, NEW a, NEW z, Path(R, V, s, a, z)
  PROVE  \E b \in V : a \in V /\ <<Head(s), a, b>> \in R /\ Path(R, V, Tail(s), b, z)
  <1>1. PICK n \in Nat : Len(s) = n + 1
    <2>1. Len(s) \in Nat /\ Len(s) # 0
      OBVIOUS
    <2>2. Len(s) - 1 \in Nat
      BY <2>1
    <2>. QED  BY <2>1, <2>2
  <1>2. PICK t : t = Tail(s)
    OBVIOUS
  <1>3. Len(t) = n /\ \A i \in 1 .. n : t[i] = s[i + 1]
    BY <1>1, <1>2
  <1>4. PICK c \in [1 .. (n + 2) -> V] :
          /\ c[1] = a /\ c[n + 2] = z
          /\ \A i \in 1 .. (n + 1) : <<s[i], c[i], c[i + 1]>> \in R
    <2>1. (n + 1) + 1 = n + 2
      OBVIOUS
    <2>. QED  BY <1>1, <2>1 DEF Path
  <1> DEFINE d == [i \in 1 .. (n + 1) |-> c[i + 1]]
  <1>5. /\ d \in [1 .. (n + 1) -> V] /\ d[1] = c[2] /\ d[n + 1] = z
        /\ \A i \in 1 .. n : d[i] = c[i + 1] /\ d[i + 1] = c[i + 2]
    BY <1>4
  <1> HIDE DEF d
  <1>6. \A i \in 1 .. n : <<t[i], d[i], d[i + 1]>> \in R
    <2> TAKE i \in 1 .. n
    <2>1. i + 1 \in 1 .. (n + 1) /\ (i + 1) + 1 = i + 2
      OBVIOUS
    <2>2. <<s[i + 1], c[i + 1], c[i + 2]>> \in R
      BY <1>4, <2>1
    <2>. QED  BY <1>3, <1>5, <2>2
  <1>7. Path(R, V, t, c[2], z)
    BY <1>3, <1>5, <1>6 DEF Path
  <1>8. c[2] \in V /\ a \in V /\ Head(s) = s[1] /\ <<s[1], c[1], c[2]>> \in R
    <2>1. 1 \in 1 .. (n + 1) /\ 1 + 1 = 2 /\ 2 \in 1 .. (n + 2) /\ 1 \in 1 .. (n + 2)
      OBVIOUS
    <2>2. Head(s) = s[1]
      BY <1>1
    <2>. QED  BY <1>4, <2>1, <2>2
  <1>. QED  BY <1>2, <1>4, <1>7, <1>8

(* Paths can be joined.                                                    *)
LEMMA PathsJoin ==
  ASSUME NEW R, NEW V, NEW S, NEW s \in Seq(S), NEW t \in Seq(S), NEW a, NEW b, NEW z,
         Path(R, V, s, a, b), Path(R, V, t, b, z)
  PROVE  Path(R, V, s \o t, a, z)
  <1>1. PICK n \in Nat, m \in Nat : Len(s) = n /\ Len(t) = m
    OBVIOUS
  <1>2. PICK u : u = s \o t
    OBVIOUS
  <1>3. /\ Len(u) = n + m
        /\ \A i \in 1 .. n : u[i] = s[i]
        /\ \A i \in (n + 1) .. (n + m) : u[i] = t[i - n]
    <2>1. s \in Seq(S) /\ t \in Seq(S) /\ n \in Nat /\ m \in Nat
      OBVIOUS
    <2>2. Len(s \o t) = n + m
      BY ONLY <1>1, <2>1
    <2>3. \A i \in 1 .. n : (s \o t)[i] = s[i]
      BY ONLY <1>1, <2>1
    <2>4. ASSUME NEW i \in (n + 1) .. (n + m)  PROVE (s \o t)[i] = t[i - n]
      <3>1. i \in (n + 1) .. (n + m)
        OBVIOUS
      <3>. QED  BY ONLY <1>1, <2>1, <3>1
    <2>. QED  BY <1>2, <2>2, <2>3, <2>4
  <1>4. PICK c \in [1 .. (n + 1) -> V] :
          c[1] = a /\ c[n + 1] = b /\ \A i \in 1 .. n : <<s[i], c[i], c[i + 1]>> \in R
    BY <1>1 DEF Path
  <1>5. PICK d \in [1 .. (m + 1) -> V] :
          d[1] = b /\ d[m + 1] = z /\ \A i \in 1 .. m : <<t[i], d[i], d[i + 1]>> \in R
    BY <1>1 DEF Path
  <1> DEFINE e == [i \in 1 .. (n + m + 1) |-> IF i <= n THEN c[i] ELSE d[i - n]]
  <1>6. /\ e \in [1 .. (n + m + 1) -> V]
        /\ \A i \in 1 .. (n + 1) : e[i] = c[i]
        /\ \A i \in (n + 1) .. (n + m + 1) : e[i] = d[i - n]
    <2>1. ASSUME NEW i \in 1 .. (n + m + 1), ~ (i <= n)  PROVE i - n \in 1 .. (m + 1)
      BY <2>1
    <2>2. ASSUME NEW i \in 1 .. (n + m + 1), i <= n  PROVE i \in 1 .. (n + 1)
      BY <2>2
    <2>3. e \in [1 .. (n + m + 1) -> V]
      BY <2>1, <2>2
    <2>4. ASSUME NEW i \in 1 .. (n + 1)  PROVE e[i] = c[i]
      <3>1. i \in 1 .. (n + m + 1) /\ (i <= n \/ (i = n + 1 /\ i - n = 1))
        OBVIOUS
      <3>. QED  BY <1>4, <1>5, <3>1
    <2>5. ASSUME NEW i \in (n + 1) .. (n + m + 1)  PROVE e[i] = d[i - n]
      BY <2>5
    <2>. QED  BY <2>3, <2>4, <2>5
  <1> HIDE DEF e
  <1>7. ASSUME NEW i \in 1 .. (n + m)  PROVE <<u[i], e[i], e[i + 1]>> \in R
    <2>1. CASE i <= n
      <3>1. i \in 1 .. n /\ i \in 1 .. (n + 1) /\ i + 1 \in 1 .. (n + 1)
        BY <2>1
      <3>. QED  BY <1>3, <1>4, <1>6, <3>1
    <2>2. CASE i > n
      <3>1. /\ i \in (n + 1) .. (n + m) /\ i - n \in 1 .. m
            /\ i \in (n + 1) .. (n + m + 1) /\ i + 1 \in (n + 1) .. (n + m + 1)
            /\ (i + 1) - n = (i - n) + 1
        BY <2>2
      <3>. QED  BY <1>3, <1>5, <1>6, <3>1
    <2>. QED  BY <2>1, <2>2
  <1>8. e[1] = a /\ e[(n + m) + 1] = z
    <2>1. 1 \in 1 .. (n + 1) /\ n + m + 1 \in (n + 1) .. (n + m + 1) /\ (n + m + 1) - n = m + 1
      OBVIOUS
    <2>. QED  BY <1>4, <1>5, <1>6, <2>1
  <1>9. Path(R, V, u, a, z)
    <2>1. (n + m) + 1 = n + m + 1
      OBVIOUS
    <2>. QED  BY <1>3, <1>6, <1>7, <1>8, <2>1 DEF Path
  <1>. QED  BY <1>2, <1>9

-----------------------------------------------------------------------------
(* The invariant.                                                          *)

Values == {0} \cup {x.integer : x \in Nodes}
Labels == {x.string : x \in Nodes}
Variables ==
  Range(PrimitiveProcedureVariables) \cup {x.identifier : x \in Nodes}

PlainOps ==
  {"env", "enter", "scan", "outer", "if", "else", "close", "call", "pushret",
   "return", "exit"}

Lines ==
  [op : PlainOps]
    \cup [op : {"bind", "get", "set", "def", "arg"}, n : Nat]
    \cup [op : {"prim"}, n : Nat, p : Range(PrimitiveProcedureFunctions)]
    \cup [op : {"int"}, n : Values]
    \cup [op : {"str"}, s : Labels]
    \cup [op : {"proc"}, f : Nat]

(* Lines that may stand in any function.                                   *)
Common == {l \in Lines : l.op \notin {"proc", "prim", "bind", "def"}}

(* Lines that may stand in function f: the closures it builds are waiting  *)
(* lambda expressions of its own, and it binds what it has room for.       *)
LinesOf(f) ==
  {l \in Lines :
     /\ l.op = "proc" =>
          l.f - 1 \in 1 .. Len(lambdas) /\ lambdas[l.f - 1].env = f
     /\ l.op \in {"prim", "bind", "def"} => l.n < envs[f].capacity}

Longer(n) == {x \in Nodes : x.type = "list" /\ Len(x.items) >= n}
LambdaNodes == {x \in Longer(1) : Kind(x) = "lambda"}

(* What is to be done while n environments exist.                          *)
Tasks(n) ==
  [do : {"gen"}, exp : Nodes]
    \cup [do : {"bind", "assign"}, exp : Longer(3)]
    \cup [do : {"consequent"}, exp : Longer(2)]
    \cup [do : {"alternative"}, exp : Longer(3)]
    \cup [do : {"scan"}, op : {"get", "set"}, var : Variables, env : 0 .. n]
    \cup [do : {"emit"}, lines : Seq(Common)]

Typed ==
  /\ program \in Programs
  /\ tasks \in Seq(Tasks(Len(envs)))
  /\ envs \in Seq([enclosing : Nat, capacity : Nat, variables : Seq(Variables)])
  /\ lambdas \in Seq([exp : LambdaNodes, env : Nat])
  /\ functions \in Seq([parent : Nat, size : Nat, body : Seq(Lines)])
  /\ status \in {"start", "run", "done", "illegal", "unbound", "unimplemented", "overrun"}

(* A function has the environment of its number, and the parent that its   *)
(* lambda expression was registered with.                                  *)
Matched ==
  /\ status # "start" => Len(functions) > 0
  /\ Len(envs) = Len(functions)
  /\ Len(functions) <= Len(lambdas) + 1
  /\ \A f \in 1 .. Len(functions) :
       /\ envs[f].enclosing \in 0 .. (f - 1)
       /\ functions[f].size = envs[f].capacity
       /\ Len(envs[f].variables) <= envs[f].capacity
       /\ functions[f].body \in Seq(LinesOf(f))
  /\ \A k \in 1 .. Len(lambdas) : lambdas[k].env \in 1 .. Len(functions)
  /\ \A k \in 2 .. Len(functions) : functions[k].parent = lambdas[k - 1].env

Printed ==
  /\ status = "start" => stdout = <<>> /\ functions = <<>> /\ lambdas = <<>>
  /\ status = "done" =>
       /\ stdout = <<"header", "declarations", "functions">>
       /\ Len(functions) > Len(lambdas)
  /\ status \notin {"start", "done"} => stdout = <<"header">>

IInv == Typed /\ Matched /\ Printed

-----------------------------------------------------------------------------
(* Nodes, lines and tasks.                                                 *)

(* What the handler chosen for a node may take for granted.                *)
LEMMA NodeFacts ==
  ASSUME NEW x \in Nodes
  PROVE  /\ x.type = "list" => x.items \in Seq(Nodes)
         /\ Kind(x) \in Kinds
         /\ Kind(x) \in Forms \cup {"application"} => x \in Longer(1)
         /\ Kind(x) = "lambda" => x \in LambdaNodes /\ Tagged(x, "lambda")
         /\ Length(x) \in Nat
         /\ \A n \in 1 .. 4 : Length(x) >= n => x \in Longer(n)
         /\ Kind(x) = "identifier" => x.type = "identifier"
  <1>1. /\ x.type \in {"string", "integer", "numeric", "identifier", "list"}
        /\ x.type = "list" => x = List(x.items) /\ x.items \in Seq(Nodes)
    BY NodesAssumption
  <1>2. x.type # "list" => Kind(x) \in {"null", x.type}
    BY DEF Kind
  <1>3. x.type = "list" /\ x.items = <<>> => Kind(x) = "null"
    BY <1>1 DEF Kind, IsNull
  <1>4. x.type = "list" /\ x.items # <<>> =>
          \/ \E tag \in Forms : Kind(x) = tag /\ Tagged(x, tag)
          \/ Kind(x) \in {"null", "application"}
    <2>1. CASE \E tag \in Forms : Tagged(x, tag)
      <3>1. PICK tag \in Forms : Tagged(x, tag)
        BY <2>1
      <3>2. Head(x.items).identifier = tag
        BY <3>1 DEF Tagged, Identifier
      <3>3. x.type = "list" => Kind(x) \in {"null", tag}
        BY <2>1, <3>2 DEF Kind
      <3>. QED  BY <3>1, <3>3
    <2>2. CASE ~ \E tag \in Forms : Tagged(x, tag)
      BY <2>2 DEF Kind
    <2>. QED  BY <2>1, <2>2
  <1>5. x.type = "list" => Len(x.items) \in Nat /\ (x.items # <<>> => Len(x.items) >= 1)
    BY <1>1
  <1>6. Length(x) = IF x.type = "list" THEN Len(x.items) ELSE 0
    BY DEF Length
  <1>7. Kind(x) \in Forms \cup {"application"} => x \in Longer(1)
    BY <1>1, <1>2, <1>3, <1>5 DEF Longer, Forms
  <1>8. \A n \in 1 .. 4 : Length(x) >= n => x \in Longer(n)
    BY <1>5, <1>6 DEF Longer
  <1>9. Kind(x) = "lambda" => x \in LambdaNodes /\ Tagged(x, "lambda")
    BY <1>1, <1>2, <1>4, <1>3, <1>7 DEF LambdaNodes, Forms
  <1>10. Kind(x) \in Kinds
    BY <1>1, <1>2, <1>3, <1>4 DEF Kinds, Forms
  <1>11. Kind(x) = "identifier" => x.type = "identifier"
    BY <1>1, <1>2, <1>3, <1>4 DEF Forms
  <1>. QED  BY <1>1, <1>5, <1>6, <1>7, <1>8, <1>9, <1>10, <1>11

(* Common lines may stand anywhere.                                        *)
LEMMA CommonFits ==
  ASSUME NEW f, NEW ls \in Seq(Common)
  PROVE  ls \in Seq(LinesOf(f))
  <1>1. Common \subseteq LinesOf(f)
    BY DEF Common, LinesOf
  <1>. QED  BY <1>1, SeqMonotonic, Zenon

(* The lines that handlers print.                                          *)
LEMMA LineFacts ==
  /\ \A op \in PlainOps : Line(op) \in Common
  /\ \A op \in {"get", "set", "arg"}, n \in Nat : Numbered(op, n) \in Common
  /\ \A n \in Values : Numbered("int", n) \in Common
  /\ \A x \in Nodes : [op |-> "str", s |-> x.string] \in Common
  <1>1. \A op \in PlainOps : Line(op) \in [op : PlainOps] /\ Line(op).op = op
    BY DEF Line
  <1>2. \A op \in {"get", "set", "arg"}, n \in Nat :
          /\ Numbered(op, n) \in [op : {"bind", "get", "set", "def", "arg"}, n : Nat]
          /\ Numbered(op, n).op = op
    BY DEF Numbered
  <1>3. \A n \in Values :
          Numbered("int", n) \in [op : {"int"}, n : Values] /\ Numbered("int", n).op = "int"
    BY DEF Numbered
  <1>4. \A x \in Nodes :
          /\ [op |-> "str", s |-> x.string] \in [op : {"str"}, s : Labels]
          /\ [op |-> "str", s |-> x.string].op = "str"
    BY DEF Labels
  <1>5. \A op \in PlainOps : op \notin {"proc", "prim", "bind", "def"}
    BY DEF PlainOps
  <1> HIDE DEF PlainOps
  <1>. QED  BY <1>1, <1>2, <1>3, <1>4, <1>5 DEF Common, Lines

(* A bounded set of numbers has a largest one.                             *)
LEMMA LargestIsMax ==
  ASSUME NEW n \in Nat, NEW S, S \subseteq 0 .. n, S # {}
  PROVE  Max(S) \in S /\ \A i \in S : i <= Max(S)
  <1> DEFINE gaps == {n - i : i \in S}
  <1>1. gaps \subseteq Nat /\ gaps # {}
    OBVIOUS
  <1>2. PICK k \in gaps : \A g \in gaps : k <= g
    <2> HIDE DEF gaps
    <2>. QED  BY <1>1, LeastNumber
  <1>3. PICK m \in S : k = n - m
    OBVIOUS
  <1>4. \A i \in S : i <= m
    <2> TAKE i \in S
    <2>1. n - m <= n - i
      BY <1>2, <1>3
    <2>. QED  BY <2>1
  <1>. QED  BY <1>4 DEF Max

(* An address is 0 or a place among the variables.                         *)
LEMMA AddressFacts ==
  ASSUME NEW var, NEW e, envs[e].variables \in Seq(Variables)
  PROVE  /\ Address(var, e) \in 0 .. Len(envs[e].variables)
  <1> DEFINE vs == envs[e].variables
             found == {0} \cup {i \in 1 .. Len(vs) : vs[i] = var}
  <1>1. Len(vs) \in Nat
    OBVIOUS
  <1>2. found \subseteq 0 .. Len(vs) /\ found # {}
    BY <1>1
  <1>3. Max(found) \in 0 .. Len(vs)
    BY ONLY <1>1, <1>2, LargestIsMax
  <1>. QED  BY <1>3 DEF Address, AddressAmong

(* A line has an op of the machine, and an index if the op needs one.      *)
LEMMA LineOps ==
  ASSUME NEW l \in Lines
  PROVE  l.op \in Ops /\ (l.op \in Indexed => l.n \in Nat)
  BY DEF Lines, PlainOps, Ops, Indexed

(* The lines of a function may stand in it.                                *)
LEMMA BodyLines ==
  ASSUME Typed, Matched, NEW f \in 1 .. Len(functions), NEW l \in Range(functions[f].body)
  PROVE  l \in LinesOf(f) /\ l \in Lines
  <1>1. functions[f].body \in Seq(LinesOf(f))
    BY DEF Matched
  <1>2. l \in LinesOf(f)
    <2> HIDE DEF LinesOf
    <2>. QED  BY <1>1 DEF Range
  <1>. QED  BY <1>2 DEF LinesOf

-----------------------------------------------------------------------------
(* Steps that print lines of the current function.                         *)

(* Printing lines to the current function adds them to its body.           *)
LEMMA Appended ==
  ASSUME Typed, Len(functions) > 0, NEW ls \in Seq(Lines), Write(ls)
  PROVE  /\ functions' \in Seq([parent : Nat, size : Nat, body : Seq(Lines)])
         /\ Len(functions') = Len(functions)
         /\ \A f \in 1 .. Len(functions) :
              /\ functions'[f].parent = functions[f].parent
              /\ functions'[f].size = functions[f].size
              /\ functions'[f].body =
                   IF f = Current THEN functions[f].body \o ls ELSE functions[f].body
  <1> DEFINE F == [parent : Nat, size : Nat, body : Seq(Lines)]
             c == Current
             body == functions[c].body \o ls
             new == [functions[c] EXCEPT !.body = body]
  <1>1. functions \in Seq(F) /\ c \in 1 .. Len(functions) /\ functions[c] \in F
    <2>1. functions \in Seq(F)
      BY DEF Typed
    <2>2. c \in 1 .. Len(functions)
      BY <2>1 DEF Current
    <2>. QED  BY <2>1, <2>2, ElementOfSeq
  <1>2. body \in Seq(Lines)
    <2>1. functions[c].body \in Seq(Lines)
      BY <1>1
    <2> HIDE DEF Lines
    <2>. QED  BY <2>1
  <1>3. new \in F /\ new.body = body /\ new.parent = functions[c].parent
          /\ new.size = functions[c].size
    BY <1>1, <1>2
  <1>4. functions' = [functions EXCEPT ![c] = new]
    BY <1>1 DEF Write
  <1> HIDE DEF F, new, body
  <1>5. functions' \in Seq(F) /\ Len(functions') = Len(functions)
          /\ \A f \in 1 .. Len(functions) :
               functions'[f] = IF f = c THEN new ELSE functions[f]
    BY <1>1, <1>3, <1>4
  <1>. QED  BY <1>3, <1>5 DEF F, body

(* Printing lines to the current function changes nothing else of it.      *)
LEMMA Written ==
  ASSUME Typed, Matched, Len(functions) > 0,
         NEW ls \in Seq(LinesOf(Current)), Write(ls)
  PROVE  /\ functions' \in Seq([parent : Nat, size : Nat, body : Seq(Lines)])
         /\ Len(functions') = Len(functions)
         /\ \A f \in 1 .. Len(functions) :
              /\ functions'[f].parent = functions[f].parent
              /\ functions'[f].size = functions[f].size
              /\ functions'[f].body \in Seq(LinesOf(f))
  <1>1. ls \in Seq(Lines)
    <2>1. LinesOf(Current) \subseteq Lines
      BY DEF LinesOf
    <2>. QED  BY <2>1, SeqMonotonic, Zenon
  <1>2. /\ functions' \in Seq([parent : Nat, size : Nat, body : Seq(Lines)])
        /\ Len(functions') = Len(functions)
        /\ \A f \in 1 .. Len(functions) :
             /\ functions'[f].parent = functions[f].parent
             /\ functions'[f].size = functions[f].size
             /\ functions'[f].body =
                  IF f = Current THEN functions[f].body \o ls ELSE functions[f].body
    BY <1>1, Appended
  <1>3. \A f \in 1 .. Len(functions) : functions[f].body \in Seq(LinesOf(f))
    BY DEF Matched
  <1>4. ASSUME NEW f \in 1 .. Len(functions) PROVE functions'[f].body \in Seq(LinesOf(f))
    <2> HIDE DEF LinesOf
    <2>1. functions[f].body \in Seq(LinesOf(f))
      BY <1>3
    <2>2. CASE f = Current
      <3>1. ls \in Seq(LinesOf(f))
        BY <2>2
      <3>2. functions[f].body \o ls \in Seq(LinesOf(f))
        BY ONLY <2>1, <3>1
      <3>3. functions'[f].body = functions[f].body \o ls
        BY <1>2, <2>2, Zenon
      <3>. QED  BY <3>2, <3>3, Zenon
    <2>3. CASE f # Current
      BY <1>2, <2>1, <2>3
    <2>. QED  BY <2>2, <2>3
  <1>. QED  BY <1>2, <1>4

(* A step that does nothing but to replace a task and to print.            *)
LEMMA OrdinaryStep ==
  ASSUME IInv, status = "run", tasks # <<>>,
         NEW ts \in Seq(Tasks(Len(envs))), Follow(ts),
         UNCHANGED functions \/ \E ls \in Seq(LinesOf(Current)) : Write(ls),
         UNCHANGED <<program, envs, lambdas, stdout, status>>
  PROVE  IInv'
  <1>1. Typed /\ Matched /\ Printed /\ Len(functions) > 0
    BY DEF IInv, Matched
  <1>2. /\ functions' \in Seq([parent : Nat, size : Nat, body : Seq(Lines)])
        /\ Len(functions') = Len(functions)
        /\ \A f \in 1 .. Len(functions) :
              /\ functions'[f].parent = functions[f].parent
              /\ functions'[f].size = functions[f].size
              /\ functions'[f].body \in Seq(LinesOf(f))
    <2>1. CASE UNCHANGED functions
      BY <1>1, <2>1 DEF Typed, Matched
    <2>2. CASE \E ls \in Seq(LinesOf(Current)) : Write(ls)
      BY <1>1, <2>2, Written
    <2>. QED  BY <2>1, <2>2
  <1>3. tasks' \in Seq(Tasks(Len(envs)))
    <2>1. tasks \in Seq(Tasks(Len(envs)))
      BY <1>1 DEF Typed
    <2> HIDE DEF Tasks
    <2>. QED  BY <2>1 DEF Follow
  <1>4. Typed'
    BY <1>1, <1>2, <1>3 DEF Typed
  <1>5. \A f : LinesOf(f)' = LinesOf(f)
    BY Zenon DEF LinesOf
  <1>6. Matched'
    <2>1. \A f \in 1 .. Len(functions) :
            /\ envs[f].enclosing \in 0 .. (f - 1)
            /\ functions'[f].size = envs[f].capacity
            /\ Len(envs[f].variables) <= envs[f].capacity
      BY <1>1, <1>2 DEF Matched
    <2>2. \A f \in 1 .. Len(functions)' : functions'[f].body \in Seq(LinesOf(f)')
      BY <1>2, <1>5, Zenon
    <2>3. \A k \in 2 .. Len(functions) : functions'[k].parent = lambdas[k - 1].env
      <3> TAKE k \in 2 .. Len(functions)
      <3>1. Len(functions) \in Nat /\ k \in 1 .. Len(functions)
        BY <1>1 DEF Typed
      <3>. QED  BY <1>1, <1>2, <3>1 DEF Matched
    <2>4. Len(functions') = Len(functions) /\ envs' = envs /\ lambdas' = lambdas
            /\ status' = status
      BY <1>2
    <2> HIDE DEF LinesOf
    <2>. QED  BY <1>1, <2>1, <2>2, <2>3, <2>4 DEF Matched
  <1>7. Printed'
    BY <1>1 DEF Printed
  <1>. QED  BY <1>4, <1>6, <1>7 DEF IInv

-----------------------------------------------------------------------------
(* What the actions find, and what they leave to do.                       *)

(* The next task has what its action reads.                                *)
LEMMA TodoFacts ==
  ASSUME IInv, NEW do, Doing(do)
  PROVE  /\ Typed /\ Matched /\ Printed
         /\ status = "run" /\ tasks # <<>> /\ Len(functions) > 0
         /\ Current \in 1 .. Len(functions) /\ Current \in 1 .. Len(envs)
         /\ do = "gen" => Exp \in Nodes
         /\ do \in {"bind", "assign", "alternative"} => Exp \in Longer(3)
         /\ do = "consequent" => Exp \in Longer(2)
         /\ do = "scan" => /\ Todo.op \in {"get", "set"} /\ Todo.var \in Variables
                           /\ Todo.env \in 0 .. Len(envs)
         /\ do = "emit" => Todo.lines \in Seq(Common)
  <1>1. Typed /\ Matched /\ Printed /\ status = "run" /\ tasks # <<>> /\ Todo.do = do
    BY DEF IInv, Doing
  <1>2. tasks \in Seq(Tasks(Len(envs)))
    BY <1>1 DEF Typed
  <1>3. Todo \in Tasks(Len(envs))
    <2> HIDE DEF Tasks
    <2>. QED  BY <1>1, <1>2 DEF Todo
  <1>4. Len(functions) \in Nat /\ Len(functions) > 0 /\ Len(envs) = Len(functions)
    BY <1>1 DEF Typed, Matched
  <1>5. Current \in 1 .. Len(functions)
    BY <1>4 DEF Current
  <1>. QED  BY <1>1, <1>3, <1>4, <1>5 DEF Tasks, Exp

(* The elements of a list are nodes.                                       *)
LEMMA ItemFacts ==
  ASSUME NEW n \in 1 .. 4, NEW x \in Longer(n)
  PROVE  /\ x \in Nodes /\ x.items \in Seq(Nodes) /\ x.items # <<>>
         /\ Len(x.items) \in Nat /\ Len(x.items) >= n
         /\ \A i \in 1 .. n : x.items[i] \in Nodes
         /\ Head(x.items) \in Nodes /\ Tail(x.items) \in Seq(Nodes)
         /\ n > 1 => BodyOf(x) \in Seq(Nodes)
  <1>1. x \in Nodes /\ x.items \in Seq(Nodes) /\ Len(x.items) >= n
    BY NodeFacts DEF Longer
  <1>2. Len(x.items) \in Nat /\ x.items # <<>>
    BY <1>1
  <1>3. \A i \in 1 .. n : x.items[i] \in Nodes
    <2> TAKE i \in 1 .. n
    <2>1. i \in 1 .. Len(x.items)
      BY <1>1, <1>2
    <2>. QED  BY <1>1, <2>1, ElementOfSeq
  <1>4. /\ Head(x.items) \in Nodes /\ Tail(x.items) \in Seq(Nodes)
        /\ Len(Tail(x.items)) = Len(x.items) - 1
    BY <1>1, <1>2, HeadTailProperties
  <1>5. n > 1 => BodyOf(x) \in Seq(Nodes)
    <2> DEFINE rest == Tail(x.items)
    <2>0. Len(rest) \in Nat /\ (n > 1 => Len(rest) >= 1)
      <3>1. Len(rest) = Len(x.items) - 1 /\ n \in Int
        BY <1>4
      <3> HIDE DEF rest
      <3>. QED  BY <1>1, <1>2, <3>1
    <2>1. n > 1 => rest # <<>>
      <3> HIDE DEF rest
      <3>1. Len(<<>>) = 0
        OBVIOUS
      <3>. QED  BY <2>0, <3>1
    <2>. QED  BY <1>4, <2>1, HeadTailProperties DEF BodyOf
  <1>. QED  BY <1>1, <1>2, <1>3, <1>4, <1>5

(* The tasks that actions put on the list.                                 *)
LEMMA TaskFacts ==
  ASSUME NEW n \in Nat
  PROVE  /\ \A x \in Nodes : Gen(x) \in Tasks(n)
         /\ \A x \in Longer(3) : /\ Bind(x) \in Tasks(n) /\ Assign(x) \in Tasks(n)
                                 /\ Alternative(x) \in Tasks(n)
         /\ \A x \in Longer(2) : Consequent(x) \in Tasks(n)
         /\ \A ls \in Seq(Common) : Emit(ls) \in Tasks(n)
         /\ \A op \in {"get", "set"}, var \in Variables, e \in 0 .. n :
              Scan(op, var, e) \in Tasks(n)
         /\ \A xs \in Seq(Nodes) : /\ GenAll(xs) \in Seq(Tasks(n))
                                    /\ GenAllReversed(xs) \in Seq(Tasks(n))
  <1>1. \A x \in Nodes : Gen(x) \in Tasks(n)
    BY DEF Gen, Tasks
  <1>2. \A x \in Longer(3) :
          Bind(x) \in Tasks(n) /\ Assign(x) \in Tasks(n) /\ Alternative(x) \in Tasks(n)
    BY DEF Bind, Assign, Alternative, Tasks
  <1>3. \A x \in Longer(2) : Consequent(x) \in Tasks(n)
    BY DEF Consequent, Tasks
  <1>4. \A ls \in Seq(Common) : Emit(ls) \in Tasks(n)
    BY DEF Emit, Tasks
  <1>5. \A op \in {"get", "set"}, var \in Variables, e \in 0 .. n :
          Scan(op, var, e) \in Tasks(n)
    BY DEF Scan, Tasks
  <1>6. ASSUME NEW xs \in Seq(Nodes)
        PROVE  GenAll(xs) \in Seq(Tasks(n)) /\ GenAllReversed(xs) \in Seq(Tasks(n))
    <2>1. Len(xs) \in Nat /\ \A i \in 1 .. Len(xs) : xs[i] \in Nodes
      BY <1>6
    <2>2. \A i \in 1 .. Len(xs) : Len(xs) + 1 - i \in 1 .. Len(xs)
      BY <2>1
    <2>3. \A i \in 1 .. Len(xs) :
            Gen(xs[i]) \in Tasks(n) /\ Gen(xs[Len(xs) + 1 - i]) \in Tasks(n)
      BY <1>1, <2>1, <2>2
    <2> HIDE DEF Tasks
    <2>. QED  BY <2>1, <2>3 DEF GenAll, GenAllReversed
  <1>. QED  BY <1>1, <1>2, <1>3, <1>4, <1>5, <1>6

(* The same, for the environments that there are.                          *)
LEMMA TasksHere ==
  ASSUME IInv
  PROVE  /\ \A x \in Nodes : Gen(x) \in Tasks(Len(envs))
         /\ \A x \in Longer(3) : /\ Bind(x) \in Tasks(Len(envs))
                                 /\ Assign(x) \in Tasks(Len(envs))
                                 /\ Alternative(x) \in Tasks(Len(envs))
         /\ \A x \in Longer(2) : Consequent(x) \in Tasks(Len(envs))
         /\ \A ls \in Seq(Common) : Emit(ls) \in Tasks(Len(envs))
         /\ \A xs \in Seq(Nodes) : /\ GenAll(xs) \in Seq(Tasks(Len(envs)))
                                    /\ GenAllReversed(xs) \in Seq(Tasks(Len(envs)))
  <1>1. Len(envs) \in Nat
    BY DEF IInv, Typed
  <1>. QED  BY <1>1, TaskFacts

(* A binding within the capacity of its environment is a line of it.       *)
LEMMA BindingLine ==
  ASSUME NEW f, NEW n \in Nat, n < envs[f].capacity
  PROVE  <<Numbered("def", n)>> \in Seq(LinesOf(f))
  <1>1. Numbered("def", n) \in LinesOf(f)
    BY DEF Numbered, LinesOf, Lines
  <1> HIDE DEF LinesOf
  <1>. QED  BY <1>1

-----------------------------------------------------------------------------
(* The handlers that leave environments and lambda expressions alone.      *)

(* A handler puts tasks on the list and prints common lines.               *)
LEMMA HandlerStep ==
  ASSUME IInv, NEW do, Doing(do), NEW ts \in Seq(Tasks(Len(envs))), Follow(ts),
         UNCHANGED functions \/ \E ls \in Seq(Common) : Write(ls),
         UNCHANGED <<program, envs, lambdas, stdout, status>>
  PROVE  IInv'
  <1>1. status = "run" /\ tasks # <<>>
    BY TodoFacts
  <1>2. UNCHANGED functions \/ \E ls \in Seq(LinesOf(Current)) : Write(ls)
    BY CommonFits
  <1>. QED  BY <1>1, <1>2, OrdinaryStep

(* A waiting piece of output is printed.                                   *)
LEMMA EmitLinesKeeps == ASSUME IInv, EmitLines PROVE IInv'
  <1>1. Doing("emit") /\ Write(Todo.lines) /\ Follow(<<>>)
        /\ UNCHANGED <<program, envs, lambdas, stdout, status>>
    BY DEF EmitLines, Return
  <1>2. Todo.lines \in Seq(Common)
    BY <1>1, TodoFacts
  <1>3. <<>> \in Seq(Tasks(Len(envs)))
    OBVIOUS
  <1>4. \E ls \in Seq(Common) : Write(ls)
    BY <1>1, <1>2
  <1>. QED  BY <1>1, <1>3, <1>4, HandlerStep

(* A literal is printed.                                                   *)
LEMMA GenLiteralKeeps == ASSUME IInv, GenLiteral PROVE IInv'
  <1>1. PICK kind \in {"null", "integer", "string"} : Generating(kind)
    BY DEF GenLiteral
  <1>2. Doing("gen") /\ Kind(Exp) \in {"null", "integer", "string"} /\ Follow(<<>>)
        /\ UNCHANGED <<program, envs, lambdas, stdout, status>>
    BY <1>1 DEF Generating, GenLiteral, Return
  <1>3. Exp \in Nodes
    BY <1>2, TodoFacts
  <1>4. \E ls \in Seq(Common) : Write(ls)
    <2>1. 0 \in Values /\ Exp.integer \in Values
      BY <1>3 DEF Values
    <2>2. /\ <<Numbered("int", 0)>> \in Seq(Common)
          /\ <<Numbered("int", Exp.integer)>> \in Seq(Common)
          /\ <<[op |-> "str", s |-> Exp.string]>> \in Seq(Common)
      BY <1>3, <2>1, LineFacts
    <2>3. \/ Write(<<Numbered("int", 0)>>)
          \/ Write(<<Numbered("int", Exp.integer)>>)
          \/ Write(<<[op |-> "str", s |-> Exp.string]>>)
      <3> HIDE DEF Write
      <3>1. CASE Kind(Exp) = "null"
        BY <3>1 DEF GenLiteral
      <3>2. CASE Kind(Exp) = "integer"
        BY <3>2 DEF GenLiteral
      <3>3. CASE Kind(Exp) = "string"
        BY <3>3 DEF GenLiteral
      <3>. QED  BY <1>2, <3>1, <3>2, <3>3
    <2>. QED  BY <2>2, <2>3
  <1>5. <<>> \in Seq(Tasks(Len(envs)))
    OBVIOUS
  <1>. QED  BY <1>2, <1>4, <1>5, HandlerStep

(* A scan begins in the current environment.                               *)
LEMMA ScanHereKeeps ==
  ASSUME IInv, NEW do, Doing(do), NEW op \in {"get", "set"}, NEW var \in Variables,
         ScanHere(op, var), UNCHANGED <<program, envs, lambdas, stdout, status>>
  PROVE  IInv'
  <1>1. <<Line("scan")>> \in Seq(Common)
    BY LineFacts DEF PlainOps
  <1>2. Scan(op, var, Current) \in Tasks(Len(envs))
    <2>1. envs \in Seq([enclosing : Nat, capacity : Nat, variables : Seq(Variables)])
            /\ Current \in 1 .. Len(envs)
      BY TodoFacts DEF Typed
    <2>2. Len(envs) \in Nat /\ Current \in 0 .. Len(envs)
      BY <2>1
    <2>. QED  BY <2>2, TaskFacts
  <1>3. \E ls \in Seq(Common) : Write(ls)
    BY <1>1 DEF ScanHere
  <1>4. Follow(<<Scan(op, var, Current)>>)
    BY DEF ScanHere
  <1>5. <<Scan(op, var, Current)>> \in Seq(Tasks(Len(envs)))
    BY <1>2
  <1>. QED  BY <1>3, <1>4, <1>5, HandlerStep

(* A variable is looked up.                                                *)
LEMMA GenVariableKeeps == ASSUME IInv, GenVariable PROVE IInv'
  <1>1. Doing("gen") /\ Kind(Exp) = "identifier" /\ ScanHere("get", Exp.identifier)
        /\ UNCHANGED <<program, envs, lambdas, stdout, status>>
    BY DEF GenVariable, Generating
  <1>2. Exp.identifier \in Variables
    BY <1>1, TodoFacts DEF Variables
  <1>. QED  BY <1>1, <1>2, ScanHereKeeps

(* A name that is defined or assigned to is a variable.                    *)
LEMMA DefinedFacts ==
  ASSUME IInv, NEW do \in {"bind", "assign"}, Doing(do)
  PROVE  Defined \in Variables
  <1>1. Exp \in Longer(3)
    BY TodoFacts
  <1>2. Exp.items[2] \in Nodes
    BY <1>1, ItemFacts
  <1>. QED  BY <1>2 DEF Defined, Variables

(* The variable of an assignment is looked up.                             *)
LEMMA SetVariableKeeps == ASSUME IInv, SetVariable PROVE IInv'
  <1>1. Doing("assign") /\ ScanHere("set", Defined)
        /\ UNCHANGED <<program, envs, lambdas, stdout, status>>
    BY DEF SetVariable
  <1>2. Defined \in Variables
    BY <1>1, DefinedFacts
  <1>. QED  BY <1>1, <1>2, ScanHereKeeps

(* A scan that is not beyond the outermost environment is at one.          *)
LEMMA ScannedFacts ==
  ASSUME IInv, Doing("scan"), Todo.env # 0
  PROVE  /\ Todo.op \in {"get", "set"} /\ Todo.var \in Variables
         /\ Todo.env \in 1 .. Len(envs)
         /\ Len(envs) \in Nat /\ Len(envs) = Len(functions)
  <1>1. Typed /\ Matched /\ Todo.op \in {"get", "set"} /\ Todo.var \in Variables
          /\ Todo.env \in 0 .. Len(envs)
    BY TodoFacts
  <1>2. Len(envs) \in Nat /\ Len(envs) = Len(functions)
    BY <1>1 DEF Typed, Matched
  <1>. QED  BY <1>1, <1>2

(* What is known of an environment.                                        *)
LEMMA EnvFacts ==
  ASSUME IInv, NEW e \in 1 .. Len(envs)
  PROVE  /\ envs[e] \in [enclosing : Nat, capacity : Nat, variables : Seq(Variables)]
         /\ envs[e].capacity \in Nat
         /\ envs[e].variables \in Seq(Variables)
         /\ Len(envs[e].variables) \in Nat
         /\ Len(envs[e].variables) <= envs[e].capacity
  <1> DEFINE E == [enclosing : Nat, capacity : Nat, variables : Seq(Variables)]
  <1>1. envs \in Seq(E) /\ Len(envs) = Len(functions)
    BY DEF IInv, Typed, Matched
  <1>2. envs[e] \in E
    <2> HIDE DEF E
    <2>. QED  BY <1>1, ElementOfSeq
  <1>3. Len(envs[e].variables) <= envs[e].capacity
    BY <1>1 DEF IInv, Matched
  <1>. QED  BY <1>2, <1>3

(* A variable is found, at an address that is no -1.                       *)
LEMMA FoundVariableKeeps == ASSUME IInv, FoundVariable PROVE IInv'
  <1> DEFINE n == Address(Todo.var, Todo.env) - 1
  <1>1. Doing("scan") /\ Todo.env # 0 /\ Address(Todo.var, Todo.env) # 0
        /\ Write(<<Numbered(Todo.op, n)>>) /\ Follow(<<>>)
        /\ UNCHANGED <<program, envs, lambdas, stdout, status>>
    BY DEF FoundVariable, Found, Return
  <1>2. Todo.op \in {"get", "set"} /\ Todo.env \in 1 .. Len(envs)
    BY <1>1, ScannedFacts
  <1>3. envs[Todo.env].variables \in Seq(Variables)
    BY <1>1, <1>2, EnvFacts
  <1>4. n \in Nat
    BY <1>1, <1>3, AddressFacts
  <1>5. <<Numbered(Todo.op, n)>> \in Seq(Common)
    BY <1>2, <1>4, LineFacts
  <1>6. \E ls \in Seq(Common) : Write(ls)
    BY <1>1, <1>5
  <1>7. <<>> \in Seq(Tasks(Len(envs)))
    OBVIOUS
  <1>. QED  BY <1>1, <1>6, <1>7, HandlerStep

(* A scan goes on in the enclosing environment.                            *)
LEMMA ScanOutwardsKeeps == ASSUME IInv, ScanOutwards PROVE IInv'
  <1> DEFINE t == Scan(Todo.op, Todo.var, envs[Todo.env].enclosing)
  <1>1. Doing("scan") /\ Todo.env # 0 /\ Write(<<Line("outer")>>) /\ Follow(<<t>>)
        /\ UNCHANGED <<program, envs, lambdas, stdout, status>>
    BY DEF ScanOutwards
  <1>2. Todo.op \in {"get", "set"} /\ Todo.var \in Variables
        /\ Todo.env \in 1 .. Len(envs) /\ Len(envs) \in Nat /\ Len(envs) = Len(functions)
    BY <1>1, ScannedFacts
  <1>3. envs[Todo.env].enclosing \in 0 .. Len(envs)
    BY <1>1, <1>2, TodoFacts DEF Matched
  <1>4. t \in Tasks(Len(envs))
    BY <1>2, <1>3, TaskFacts
  <1>5. <<t>> \in Seq(Tasks(Len(envs)))
    <2> HIDE DEF t
    <2>. QED  BY <1>4
  <1>6. <<Line("outer")>> \in Seq(Common)
    BY LineFacts DEF PlainOps
  <1>7. \E ls \in Seq(Common) : Write(ls)
    BY <1>1, <1>6
  <1>. QED  BY <1>1, <1>5, <1>7, HandlerStep


(* The handlers of forms with a fixed part find it.                        *)
LEMMA PartsFacts ==
  ASSUME IInv
  PROVE  /\ Doing("gen") /\ Kind(Exp) \in {"define", "set!"} => Exp \in Longer(3)
         /\ Doing("gen") /\ Kind(Exp) = "if" => Exp \in Longer(2)
         /\ Doing("consequent") => Exp \in Longer(3)
  <1>1. ASSUME Doing("gen") PROVE Exp \in Nodes /\ ~ Malformed(Todo) /\ Todo.do = "gen"
    BY <1>1, TodoFacts DEF Doing
  <1>2. ASSUME Doing("gen"), Kind(Exp) \in {"define", "set!"} PROVE Exp \in Longer(3)
    <2>1. ~ (Length(Exp) < 3)
      BY <1>1, <1>2 DEF Malformed, Exp
    <2>. QED  BY <1>1, <1>2, <2>1, NodeFacts
  <1>3. ASSUME Doing("gen"), Kind(Exp) = "if" PROVE Exp \in Longer(2)
    <2>1. ~ (Length(Exp) < 2)
      BY <1>1, <1>3 DEF Malformed, Exp
    <2>. QED  BY <1>1, <1>3, <2>1, NodeFacts
  <1>4. ASSUME Doing("consequent") PROVE Exp \in Longer(3)
    <2>1. Exp \in Longer(2)
      BY <1>4, TodoFacts
    <2>2. Exp \in Nodes
      BY <2>1 DEF Longer
    <2>3. ~ (Length(Exp) < 3)
      BY <1>4 DEF Doing, Malformed, Exp
    <2>. QED  BY <2>2, <2>3, NodeFacts
  <1>. QED  BY <1>2, <1>3, <1>4

(* The value of a definition comes first.                                  *)
LEMMA GenDefinitionKeeps == ASSUME IInv, GenDefinition PROVE IInv'
  <1> DEFINE ts == <<Gen(Exp.items[3]), Bind(Exp)>>
  <1>1. Doing("gen") /\ Kind(Exp) = "define" /\ Follow(ts)
        /\ UNCHANGED <<program, envs, lambdas, functions, stdout, status>>
    BY DEF GenDefinition, Generating
  <1>2. Exp \in Longer(3) /\ Exp.items[3] \in Nodes
    BY <1>1, PartsFacts, ItemFacts
  <1>3. ts \in Seq(Tasks(Len(envs)))
    BY <1>2, TasksHere
  <1>. QED  BY <1>1, <1>3, HandlerStep

(* The value of an assignment comes first.                                 *)
LEMMA GenAssignmentKeeps == ASSUME IInv, GenAssignment PROVE IInv'
  <1> DEFINE ts == <<Gen(Exp.items[3]), Assign(Exp)>>
  <1>1. Doing("gen") /\ Kind(Exp) = "set!" /\ Follow(ts)
        /\ UNCHANGED <<program, envs, lambdas, functions, stdout, status>>
    BY DEF GenAssignment, Generating
  <1>2. Exp \in Longer(3) /\ Exp.items[3] \in Nodes
    BY <1>1, PartsFacts, ItemFacts
  <1>3. ts \in Seq(Tasks(Len(envs)))
    BY <1>2, TasksHere
  <1>. QED  BY <1>1, <1>3, HandlerStep

(* The predicate comes first.                                              *)
LEMMA GenIfKeeps == ASSUME IInv, GenIf PROVE IInv'
  <1> DEFINE ts == <<Gen(Exp.items[2]), Consequent(Exp)>>
  <1>1. Doing("gen") /\ Kind(Exp) = "if" /\ Follow(ts)
        /\ UNCHANGED <<program, envs, lambdas, functions, stdout, status>>
    BY DEF GenIf, Generating
  <1>2. Exp \in Longer(2) /\ Exp.items[2] \in Nodes
    BY <1>1, PartsFacts, ItemFacts
  <1>3. ts \in Seq(Tasks(Len(envs)))
    BY <1>2, TasksHere
  <1>. QED  BY <1>1, <1>3, HandlerStep

(* The consequent is generated between braces.                             *)
LEMMA GenConsequentKeeps == ASSUME IInv, GenConsequent PROVE IInv'
  <1> DEFINE ts == <<Gen(Exp.items[3]), Emit(<<Line("close")>>), Alternative(Exp)>>
  <1>1. Doing("consequent") /\ Write(<<Line("if")>>) /\ Follow(ts)
        /\ UNCHANGED <<program, envs, lambdas, stdout, status>>
    BY DEF GenConsequent
  <1>2. Exp \in Longer(3) /\ Exp.items[3] \in Nodes
    BY <1>1, PartsFacts, ItemFacts
  <1>3. <<Line("close")>> \in Seq(Common) /\ <<Line("if")>> \in Seq(Common)
    BY LineFacts DEF PlainOps
  <1>4. ts \in Seq(Tasks(Len(envs)))
    <2>1. /\ Gen(Exp.items[3]) \in Tasks(Len(envs))
          /\ Emit(<<Line("close")>>) \in Tasks(Len(envs))
          /\ Alternative(Exp) \in Tasks(Len(envs))
      BY <1>2, <1>3, TasksHere
    <2> HIDE DEF Tasks
    <2>. QED  BY <2>1
  <1>5. \E ls \in Seq(Common) : Write(ls)
    BY <1>1, <1>3
  <1>. QED  BY <1>1, <1>4, <1>5, HandlerStep

(* The alternative is generated between braces, if there is one.           *)
LEMMA GenAlternativeKeeps == ASSUME IInv, GenAlternative PROVE IInv'
  <1> DEFINE ts == <<Gen(Exp.items[4]), Emit(<<Line("close")>>)>>
  <1>1. Doing("alternative") /\ UNCHANGED <<program, envs, lambdas, stdout, status>>
    BY DEF GenAlternative
  <1>2. Exp \in Longer(3) /\ Exp \in Nodes
    BY <1>1, TodoFacts DEF Longer
  <1>3. CASE Length(Exp) > 3
    <2>1. Write(<<Line("else")>>) /\ Follow(ts)
      BY <1>3 DEF GenAlternative
    <2>2. Exp \in Longer(4) /\ Exp.items[4] \in Nodes
      BY <1>2, <1>3, NodeFacts, ItemFacts
    <2>3. <<Line("close")>> \in Seq(Common) /\ <<Line("else")>> \in Seq(Common)
      BY LineFacts DEF PlainOps
    <2>4. ts \in Seq(Tasks(Len(envs)))
      <3>1. /\ Gen(Exp.items[4]) \in Tasks(Len(envs))
            /\ Emit(<<Line("close")>>) \in Tasks(Len(envs))
        BY <2>2, <2>3, TasksHere
      <3> HIDE DEF Tasks
      <3>. QED  BY <3>1
    <2>5. \E ls \in Seq(Common) : Write(ls)
      BY <2>1, <2>3
    <2>. QED  BY <1>1, <2>1, <2>4, <2>5, HandlerStep
  <1>4. CASE ~ (Length(Exp) > 3)
    <2>1. Follow(<<>>) /\ UNCHANGED functions
      BY <1>4 DEF GenAlternative, Return
    <2>2. <<>> \in Seq(Tasks(Len(envs)))
      OBVIOUS
    <2>. QED  BY <1>1, <2>1, <2>2, HandlerStep
  <1>. QED  BY <1>3, <1>4

(* The expressions of a begin are generated one after the other.           *)
LEMMA GenBeginKeeps == ASSUME IInv, GenBegin PROVE IInv'
  <1> DEFINE ts == GenAll(Tail(Exp.items))
  <1>1. Doing("gen") /\ Kind(Exp) = "begin" /\ Follow(ts)
        /\ UNCHANGED <<program, envs, lambdas, functions, stdout, status>>
    BY DEF GenBegin, Generating
  <1>2. Tail(Exp.items) \in Seq(Nodes)
    BY <1>1, TodoFacts, NodeFacts, ItemFacts DEF Forms
  <1>3. ts \in Seq(Tasks(Len(envs)))
    BY <1>2, TasksHere
  <1>. QED  BY <1>1, <1>3, HandlerStep

(* Procedure and operands are generated, popped again and called.          *)
LEMMA GenApplicationKeeps == ASSUME IInv, GenApplication PROVE IInv'
  <1> DEFINE operands == Tail(Exp.items)
             pops == [i \in 1 .. Len(operands) |-> Numbered("arg", i - 1)]
             tail == pops \o <<Line("call"), Line("pushret")>>
             ts == <<Gen(Head(Exp.items))>> \o GenAllReversed(operands) \o <<Emit(tail)>>
  <1>1. Doing("gen") /\ Kind(Exp) = "application" /\ Follow(ts)
        /\ UNCHANGED <<program, envs, lambdas, functions, stdout, status>>
    BY DEF GenApplication, Generating
  <1>2. Head(Exp.items) \in Nodes /\ operands \in Seq(Nodes)
    BY <1>1, TodoFacts, NodeFacts, ItemFacts
  <1>3. pops \in Seq(Common)
    <2>1. Len(operands) \in Nat
      BY <1>2
    <2>2. \A i \in 1 .. Len(operands) : Numbered("arg", i - 1) \in Common
      BY <2>1, LineFacts
    <2> HIDE DEF operands
    <2>. QED  BY <2>1, <2>2
  <1>4. <<Line("call"), Line("pushret")>> \in Seq(Common)
    BY LineFacts DEF PlainOps
  <1>5. tail \in Seq(Common)
    <2> HIDE DEF pops
    <2>. QED  BY <1>3, <1>4
  <1>6. /\ Gen(Head(Exp.items)) \in Tasks(Len(envs))
        /\ GenAllReversed(operands) \in Seq(Tasks(Len(envs)))
        /\ Emit(tail) \in Tasks(Len(envs))
    BY <1>2, <1>5, TasksHere
  <1>7. ts \in Seq(Tasks(Len(envs)))
    <2> HIDE DEF tail, operands, Tasks
    <2>. QED  BY <1>6
  <1>. QED  BY <1>1, <1>7, HandlerStep

-----------------------------------------------------------------------------
(* The handlers that bind a name.                                          *)

(* A name that its function has already is bound again.                    *)
LEMMA RebindDefinitionKeeps == ASSUME IInv, RebindDefinition PROVE IInv'
  <1> DEFINE n == Address(Defined, Current) - 1
  <1>1. Doing("bind") /\ Address(Defined, Current) # 0
        /\ Write(<<Numbered("def", n)>>) /\ Follow(<<>>)
        /\ UNCHANGED <<program, envs, lambdas, stdout, status>>
    BY DEF RebindDefinition, Return
  <1>2. Current \in 1 .. Len(envs) /\ status = "run" /\ tasks # <<>>
    BY <1>1, TodoFacts
  <1>3. /\ envs[Current].variables \in Seq(Variables)
        /\ Len(envs[Current].variables) \in Nat /\ envs[Current].capacity \in Nat
        /\ Len(envs[Current].variables) <= envs[Current].capacity
    BY <1>2, EnvFacts
  <1>4. n \in Nat /\ n < envs[Current].capacity
    BY <1>1, <1>3, AddressFacts
  <1>5. <<Numbered("def", n)>> \in Seq(LinesOf(Current))
    BY <1>4, BindingLine
  <1>6. \E ls \in Seq(LinesOf(Current)) : Write(ls)
    BY <1>1, <1>5
  <1>7. <<>> \in Seq(Tasks(Len(envs)))
    OBVIOUS
  <1>. QED  BY <1>1, <1>2, <1>6, <1>7, OrdinaryStep

(* A name that its function has not yet is bound in the first free place.  *)
LEMMA BindDefinitionKeeps == ASSUME IInv, BindDefinition PROVE IInv'
  <1> DEFINE c == Current
             E == [enclosing : Nat, capacity : Nat, variables : Seq(Variables)]
             n == Len(envs[c].variables)
             vs == Append(envs[c].variables, Defined)
             new == [envs[c] EXCEPT !.variables = vs]
             ls == <<Numbered("def", n)>>
  <1>1. Doing("bind") /\ ~ Full /\ Write(ls) /\ tasks' = Tail(tasks)
        /\ envs' = [envs EXCEPT ![c].variables = Append(@, Defined)]
        /\ UNCHANGED <<program, lambdas, stdout, status>>
    <2>1. Follow(<<>>) => tasks' = <<>> \o Tail(tasks)
      BY DEF Follow
    <2>2. Doing("bind") /\ IInv
      BY DEF BindDefinition
    <2>3. tasks \in Seq(Tasks(Len(envs))) /\ tasks # <<>>
      BY <2>2, TodoFacts DEF Typed
    <2>4. Tail(tasks) \in Seq(Tasks(Len(envs)))
      <3> HIDE DEF Tasks
      <3>. QED  BY <2>3
    <2>5. <<>> \o Tail(tasks) = Tail(tasks)
      <3> HIDE DEF Tasks
      <3>. QED  BY <2>4
    <2>. QED  BY <2>1, <2>5 DEF BindDefinition, Return, NumVariables
  <1>2. Typed /\ Matched /\ Printed /\ status = "run" /\ tasks # <<>>
        /\ Len(functions) > 0 /\ c \in 1 .. Len(functions) /\ c \in 1 .. Len(envs)
    BY <1>1, TodoFacts
  <1>3. /\ envs[c] \in E /\ envs[c].variables \in Seq(Variables)
        /\ n \in Nat /\ envs[c].capacity \in Nat
    BY <1>2, EnvFacts
  <1>4. n < envs[c].capacity
    BY <1>1, <1>3 DEF Full
  <1>5. vs \in Seq(Variables) /\ Len(vs) = n + 1
    <2>1. Defined \in Variables
      BY <1>1, DefinedFacts
    <2> HIDE DEF Variables
    <2>. QED  BY <1>3, <2>1
  <1>6. new \in E /\ new.variables = vs /\ new.capacity = envs[c].capacity
          /\ new.enclosing = envs[c].enclosing
    BY <1>3, <1>5
  <1>7. envs \in Seq(E) /\ envs' = [envs EXCEPT ![c] = new]
    BY <1>1, <1>2 DEF Typed
  <1>8. envs' \in Seq(E) /\ Len(envs') = Len(envs)
          /\ \A f \in 1 .. Len(envs) : envs'[f] = IF f = c THEN new ELSE envs[f]
    <2> HIDE DEF E, new
    <2>. QED  BY <1>2, <1>6, <1>7
  <1>9. \A f \in 1 .. Len(envs) :
          envs'[f].capacity = envs[f].capacity /\ envs'[f].enclosing = envs[f].enclosing
    BY <1>6, <1>8
  <1>10. \A f \in 1 .. Len(envs) : Len(envs'[f].variables) <= envs'[f].capacity
    <2> TAKE f \in 1 .. Len(envs)
    <2>1. Len(envs[f].variables) <= envs[f].capacity
      BY <1>2 DEF Matched
    <2>2. CASE f = c
      <3>1. n + 1 <= envs[c].capacity
        BY <1>3, <1>4
      <3>. QED  BY <1>5, <1>6, <1>8, <2>2, <3>1
    <2>3. CASE f # c
      BY <1>8, <2>1, <2>3
    <2>. QED  BY <2>2, <2>3
  <1>11. ls \in Seq(LinesOf(Current))
    BY <1>3, <1>4, BindingLine
  <1>12. /\ functions' \in Seq([parent : Nat, size : Nat, body : Seq(Lines)])
         /\ Len(functions') = Len(functions)
         /\ \A f \in 1 .. Len(functions) :
              /\ functions'[f].parent = functions[f].parent
              /\ functions'[f].size = functions[f].size
              /\ functions'[f].body \in Seq(LinesOf(f))
    <2> HIDE DEF ls, LinesOf
    <2>. QED  BY <1>1, <1>2, <1>11, Written
  <1>13. Len(envs) = Len(functions)
    BY <1>2 DEF Matched
  <1>14. Typed'
    <2>1. tasks' \in Seq(Tasks(Len(envs')))
      <3>1. tasks \in Seq(Tasks(Len(envs)))
        BY <1>2 DEF Typed
      <3> HIDE DEF Tasks
      <3>. QED  BY <1>1, <1>2, <1>8, <3>1
    <2> HIDE DEF Tasks
    <2>. QED  BY <1>1, <1>2, <1>8, <1>12, <2>1 DEF Typed
  <1>15. \A f \in 1 .. Len(functions) : functions'[f].body \in Seq(LinesOf(f)')
    <2> TAKE f \in 1 .. Len(functions)
    <2>1. lambdas' = lambdas /\ envs'[f].capacity = envs[f].capacity
      BY <1>1, <1>9, <1>13
    <2>2. LinesOf(f)' = LinesOf(f)
      BY <2>1, Zenon DEF LinesOf
    <2>. QED  BY <1>12, <2>2, Zenon
  <1>16. Matched'
    <2>1. \A f \in 1 .. Len(functions)' :
            /\ envs'[f].enclosing \in 0 .. (f - 1)
            /\ functions'[f].size = envs'[f].capacity
            /\ Len(envs'[f].variables) <= envs'[f].capacity
      BY <1>2, <1>9, <1>10, <1>12, <1>13 DEF Matched
    <2>2. \A f \in 1 .. Len(functions)' : functions'[f].body \in Seq(LinesOf(f)')
      BY <1>12, <1>15, Zenon
    <2>3. \A k \in 2 .. Len(functions) : functions'[k].parent = lambdas[k - 1].env
      <3> TAKE k \in 2 .. Len(functions)
      <3>1. Len(functions) \in Nat /\ k \in 1 .. Len(functions)
        BY <1>2 DEF Typed
      <3>. QED  BY <1>2, <1>12, <3>1 DEF Matched
    <2>4. Len(functions') = Len(functions) /\ Len(envs') = Len(envs)
            /\ lambdas' = lambdas /\ status' = status
      BY <1>1, <1>8, <1>12
    <2> HIDE DEF LinesOf
    <2>. QED  BY <1>2, <2>1, <2>2, <2>3, <2>4 DEF Matched
  <1>17. Printed'
    BY <1>1, <1>2 DEF Printed
  <1>. QED  BY <1>14, <1>16, <1>17 DEF IInv

-----------------------------------------------------------------------------
(* Lambda expressions.                                                     *)

(* A lambda expression is registered with the current environment.         *)
LEMMA GenProcedureKeeps == ASSUME IInv, GenProcedure PROVE IInv'
  <1> DEFINE L == [exp : LambdaNodes, env : Nat]
             r == Registered(Exp)
             ls == <<[op |-> "proc", f |-> Label]>>
  <1>1. Doing("gen") /\ Kind(Exp) = "lambda" /\ Write(ls) /\ Follow(<<>>)
        /\ lambdas' = Append(lambdas, r)
        /\ UNCHANGED <<program, envs, stdout, status>>
    BY DEF GenProcedure, Generating, Return
  <1>2. Typed /\ Matched /\ Printed /\ status = "run" /\ tasks # <<>>
        /\ Len(functions) > 0 /\ Current \in 1 .. Len(functions) /\ Exp \in Nodes
    BY <1>1, TodoFacts
  <1>c. PICK c \in 1 .. Len(functions) : c = Current
    BY <1>2
  <1>3. Len(lambdas) \in Nat /\ Len(functions) \in Nat /\ lambdas \in Seq(L)
    <2>1. /\ lambdas \in Seq(L)
          /\ functions \in Seq([parent : Nat, size : Nat, body : Seq(Lines)])
      BY <1>2 DEF Typed
    <2> HIDE DEF L
    <2>. QED  BY ONLY <2>1
  <1>4. r \in L /\ r.env = c
    <2>1. Exp \in LambdaNodes /\ c \in Nat
      BY <1>1, <1>2, <1>3, NodeFacts
    <2>. QED  BY <1>c, <2>1 DEF Registered
  <1>5. /\ lambdas' \in Seq(L) /\ Len(lambdas') = Len(lambdas) + 1
        /\ \A k \in 1 .. Len(lambdas) : lambdas'[k] = lambdas[k]
        /\ lambdas'[Len(lambdas) + 1] = r
    <2> HIDE DEF L, r
    <2>. QED  BY <1>1, <1>3, <1>4
  <1>6. \A f : LinesOf(f) \subseteq LinesOf(f)'
    <2> TAKE f
    <2>1. \A l : l.f - 1 \in 1 .. Len(lambdas) =>
            /\ l.f - 1 \in 1 .. Len(lambdas')
            /\ lambdas'[l.f - 1].env = lambdas[l.f - 1].env
      BY <1>3, <1>5
    <2>2. envs' = envs
      BY <1>1
    <2> HIDE DEF Lines
    <2>3. ASSUME NEW l \in LinesOf(f) PROVE l \in LinesOf(f)'
      BY <2>1, <2>2, <2>3 DEF LinesOf
    <2>. QED  BY <2>3
  <1>7. ASSUME NEW f, f = c PROVE ls \in Seq(LinesOf(f)') /\ ls \in Seq(Lines)
    <2> DEFINE l == [op |-> "proc", f |-> Label]
    <2>1. l \in Lines /\ l.op = "proc" /\ l.f - 1 = Len(lambdas) + 1
      BY <1>3 DEF Lines, Label
    <2>2. lambdas'[Len(lambdas) + 1].env = f /\ Len(lambdas) + 1 \in 1 .. Len(lambdas')
      BY <1>3, <1>4, <1>5, <1>7
    <2>3. l \in LinesOf(f)'
      <3> HIDE DEF l
      <3>. QED  BY <2>1, <2>2 DEF LinesOf
    <2>4. ls = <<l>>
      OBVIOUS
    <2> HIDE DEF l, Lines, LinesOf, ls
    <2>. QED  BY <2>1, <2>3, <2>4
  <1>8. ls \in Seq(Lines)
    BY <1>7
  <1>9. \A f \in 1 .. Len(functions) : functions[f].body \in Seq(LinesOf(f)')
    <2> TAKE f \in 1 .. Len(functions)
    <2>1. functions[f].body \in Seq(LinesOf(f))
      BY <1>2 DEF Matched
    <2>. QED  BY <1>6, <2>1, SeqMonotonic, Zenon
  <1>10. /\ functions' \in Seq([parent : Nat, size : Nat, body : Seq(Lines)])
         /\ Len(functions') = Len(functions)
         /\ \A f \in 1 .. Len(functions) :
              /\ functions'[f].parent = functions[f].parent
              /\ functions'[f].size = functions[f].size
              /\ functions'[f].body =
                   IF f = c THEN functions[f].body \o ls ELSE functions[f].body
    BY <1>1, <1>2, <1>c, <1>8, Appended
  <1>11. \A f \in 1 .. Len(functions) : functions'[f].body \in Seq(LinesOf(f)')
    <2> TAKE f \in 1 .. Len(functions)
    <2>1. functions[f].body \in Seq(LinesOf(f)')
      BY <1>9
    <2>2. CASE f = c
      <3>1. ls \in Seq(LinesOf(f)')
        BY <1>7, <2>2
      <3> HIDE DEF LinesOf, ls
      <3>2. functions[f].body \o ls \in Seq(LinesOf(f)')
        BY ONLY <2>1, <3>1
      <3>3. functions'[f].body = functions[f].body \o ls
        BY <1>10, <2>2, Zenon
      <3>. QED  BY <3>2, <3>3, Zenon
    <2>3. CASE f # c
      BY <1>10, <2>1, <2>3
    <2>. QED  BY <2>2, <2>3
  <1>12. Typed'
    <2>1. tasks' \in Seq(Tasks(Len(envs')))
      <3>1. tasks \in Seq(Tasks(Len(envs))) /\ Len(envs') = Len(envs)
        BY <1>1, <1>2 DEF Typed
      <3> HIDE DEF Tasks
      <3>. QED  BY <1>1, <1>2, <3>1 DEF Follow
    <2> HIDE DEF Tasks
    <2>. QED  BY <1>1, <1>2, <1>5, <1>10, <2>1 DEF Typed
  <1>13. Matched'
    <2>1. \A f \in 1 .. Len(functions)' :
            /\ envs'[f].enclosing \in 0 .. (f - 1)
            /\ functions'[f].size = envs'[f].capacity
            /\ Len(envs'[f].variables) <= envs'[f].capacity
      BY <1>1, <1>2, <1>10 DEF Matched
    <2>2. \A f \in 1 .. Len(functions)' : functions'[f].body \in Seq(LinesOf(f)')
      BY <1>10, <1>11, Zenon
    <2>3. \A k \in 1 .. Len(lambdas)' : lambdas'[k].env \in 1 .. Len(functions)
      <3> TAKE k \in 1 .. Len(lambdas)'
      <3>1. CASE k \in 1 .. Len(lambdas)
        BY <1>2, <1>5, <3>1 DEF Matched
      <3>2. CASE k = Len(lambdas) + 1
        BY <1>2, <1>4, <1>5, <3>2
      <3>. QED  BY <1>3, <1>5, <3>1, <3>2
    <2>4. \A k \in 2 .. Len(functions) : functions'[k].parent = lambdas'[k - 1].env
      <3> TAKE k \in 2 .. Len(functions)
      <3>1. k \in 1 .. Len(functions) /\ k - 1 \in 1 .. Len(lambdas)
        BY <1>2, <1>3 DEF Matched
      <3>2. functions[k].parent = lambdas[k - 1].env
        BY <1>2 DEF Matched
      <3>. QED  BY <1>5, <1>10, <3>1, <3>2
    <2>5. /\ Len(functions') = Len(functions) /\ Len(envs') = Len(envs)
          /\ Len(lambdas') = Len(lambdas) + 1 /\ status' = status
      BY <1>1, <1>5, <1>10
    <2>6. Len(functions') <= Len(lambdas') + 1
      BY <1>2, <1>3, <2>5 DEF Matched
    <2>7. Len(envs) = Len(functions)
      BY <1>2 DEF Matched
    <2> HIDE DEF LinesOf
    <2>. QED  BY <1>2, <2>1, <2>2, <2>3, <2>4, <2>5, <2>6, <2>7 DEF Matched
  <1>14. Printed'
    BY <1>1, <1>2 DEF Printed
  <1>. QED  BY <1>12, <1>13, <1>14 DEF IInv

(* A waiting lambda expression has parameters, a body and a capacity.      *)
LEMMA LambdaFacts ==
  ASSUME NEW x \in LambdaNodes, LambdaFormed(x)
  PROVE  /\ BodyOf(x) \in Seq(Nodes)
         /\ Length(Parameters(x)) \in Nat /\ NumBindings(x) \in Nat
         /\ Length(Parameters(x)) <= NumBindings(x)
         /\ [i \in 1 .. Length(Parameters(x)) |-> Parameters(x).items[i].identifier]
              \in Seq(Variables)
  <1>1. x \in Nodes /\ Kind(x) = "lambda"
    BY DEF LambdaNodes, Longer
  <1>2. x \in Longer(2)
    <2>1. Length(x) >= 2
      BY DEF LambdaFormed
    <2>. QED  BY <1>1, <2>1, NodeFacts
  <1>3. BodyOf(x) \in Seq(Nodes) /\ Parameters(x) \in Nodes
    BY <1>2, ItemFacts DEF Parameters
  <1>4. /\ Length(Parameters(x)) \in Nat /\ Parameters(x).type = "list"
        /\ Parameters(x).items \in Seq(Nodes)
        /\ Length(Parameters(x)) = Len(Parameters(x).items)
    BY <1>3, NodeFacts DEF LambdaFormed, Length
  <1>5. CountDefinitions(List(BodyOf(x))) \in Nat
    <2>1. IsPair(x) /\ x.items \in Seq(Nodes) /\ Len(x.items) >= 2
      <3>1. x.type = "list" /\ Len(x.items) >= 2
        BY <1>2 DEF Longer
      <3>2. x.items \in Seq(Nodes)
        BY <1>1, <3>1, NodeFacts
      <3>. QED  BY <3>1, <3>2, LongSequence DEF IsPair
    <2> DEFINE t == List(Tail(x.items))
    <2>2. t \in Nodes /\ t.type = "list" /\ t.items = Tail(x.items)
      BY <1>1, <2>1, PairFacts DEF List
    <2>3. t.items # <<>>
      BY <2>1, <2>2, LongSequence
    <2>4. List(Tail(t.items)) \in Nodes
      <3> HIDE DEF t
      <3>. QED  BY <2>2, <2>3, PairFacts DEF IsPair
    <2>5. List(BodyOf(x)) \in Nodes
      BY <2>2, <2>4 DEF BodyOf
    <2>. QED  BY <2>5, CountDefinitionsFacts
  <1>6. \A i \in 1 .. Length(Parameters(x)) : Parameters(x).items[i].identifier \in Variables
    <2> TAKE i \in 1 .. Length(Parameters(x))
    <2>1. Parameters(x).items[i] \in Nodes
      BY <1>4, ElementOfSeq
    <2>. QED  BY <2>1 DEF Variables
  <1>7. [i \in 1 .. Length(Parameters(x)) |-> Parameters(x).items[i].identifier]
           \in Seq(Variables)
    <2> HIDE DEF Variables
    <2>. QED  BY <1>4, <1>6
  <1>. QED  BY <1>3, <1>4, <1>5, <1>7 DEF NumBindings

(* The body of the next lambda expression becomes a function.              *)
LEMMA GenLambdaKeeps == ASSUME IInv, GenLambda PROVE IInv'
  <1> DEFINE E == [enclosing : Nat, capacity : Nat, variables : Seq(Variables)]
             F == [parent : Nat, size : Nat, body : Seq(Lines)]
             x == NextLambda
             m == Length(Parameters(x))
             params == [i \in 1 .. m |-> Parameters(x).items[i].identifier]
             benv == lambdas[Len(functions)].env
             size == NumBindings(x)
             binds == [i \in 1 .. Len(params) |-> Numbered("bind", i - 1)]
             body == <<Line("enter")>> \o binds \o <<Numbered("int", 0)>>
             env == [enclosing |-> benv, capacity |-> size, variables |-> params]
             fun == [parent |-> benv, size |-> size, body |-> body]
             ts == GenAll(BodyOf(x)) \o <<Emit(<<Line("return")>>)>>
  <1>1. /\ LambdaIsNext /\ LambdaFormed(x)
        /\ envs' = Append(envs, env) /\ functions' = Append(functions, fun) /\ tasks' = ts
        /\ UNCHANGED <<program, lambdas, stdout, status>>
    BY DEF GenLambda
  <1>2. Typed /\ Matched /\ Printed /\ status = "run" /\ Len(functions) <= Len(lambdas)
    BY <1>1 DEF IInv, LambdaIsNext
  <1>3. /\ envs \in Seq(E) /\ functions \in Seq(F)
        /\ lambdas \in Seq([exp : LambdaNodes, env : Nat])
        /\ Len(functions) \in Nat /\ Len(lambdas) \in Nat /\ Len(functions) > 0
        /\ Len(envs) = Len(functions)
    BY <1>2 DEF Typed, Matched
  <1>n. PICK n \in Nat \ {0} : n = Len(functions)
    BY <1>3
  <1>4. x \in LambdaNodes /\ benv \in Nat /\ benv \in 1 .. n
    <2>1. n \in 1 .. Len(lambdas)
      BY <1>2, <1>3, <1>n
    <2>2. lambdas[n] \in [exp : LambdaNodes, env : Nat]
      BY <1>3, <2>1, ElementOfSeq
    <2>3. lambdas[n].env \in 1 .. n
      BY <1>2, <1>n, <2>1 DEF Matched
    <2>. QED  BY <1>n, <2>2, <2>3 DEF NextLambda
  <1>5. /\ BodyOf(x) \in Seq(Nodes) /\ m \in Nat /\ size \in Nat /\ m <= size
        /\ params \in Seq(Variables)
    BY <1>1, <1>4, LambdaFacts
  <1>6. Len(params) = m
    BY <1>5
  <1>7. env \in E /\ env.enclosing = benv /\ env.capacity = size /\ env.variables = params
    <2> HIDE DEF params, size, benv, Variables
    <2>. QED  BY <1>4, <1>5
  <1>8. /\ envs' \in Seq(E) /\ Len(envs') = n + 1
        /\ \A f \in 1 .. n : envs'[f] = envs[f]
        /\ envs'[n + 1] = env
    <2>1. envs' = Append(envs, env) /\ Len(envs) = n /\ n \in Nat
      BY <1>1, <1>3, <1>n
    <2>2. env \in E /\ envs \in Seq(E)
      BY <1>3, <1>7
    <2> HIDE DEF E, env
    <2>. QED  BY ONLY <2>1, <2>2
  <1>9. body \in Seq(LinesOf(n + 1)') /\ body \in Seq(Lines)
    <2> DEFINE Binds == {l \in [op : {"bind", "get", "set", "def", "arg"}, n : Nat] :
                           l.op = "bind" /\ l.n < size}
    <2>1. \A i \in 1 .. m : Numbered("bind", i - 1) \in Binds
      BY <1>5 DEF Numbered
    <2>2. binds \in Seq(Binds)
      <3> HIDE DEF Binds, m, params
      <3>. QED  BY <1>5, <1>6, <2>1
    <2>3. Binds \subseteq LinesOf(n + 1)'
      BY <1>7, <1>8 DEF LinesOf, Lines
    <2>4. Common \subseteq LinesOf(n + 1)'
      BY DEF Common, LinesOf, Lines
    <2>5. Line("enter") \in Common /\ Numbered("int", 0) \in Common
      BY LineFacts DEF PlainOps, Values
    <2>6. body \in Seq(LinesOf(n + 1)')
      <3>1. binds \in Seq(LinesOf(n + 1)')
        BY <2>2, <2>3, SeqMonotonic, Zenon
      <3>2. Line("enter") \in LinesOf(n + 1)' /\ Numbered("int", 0) \in LinesOf(n + 1)'
        BY <2>4, <2>5, Zenon
      <3> HIDE DEF LinesOf, binds
      <3>. QED  BY ONLY <3>1, <3>2
    <2>7. LinesOf(n + 1)' \subseteq Lines
      BY DEF LinesOf, Lines
    <2>. QED  BY <2>6, <2>7, SeqMonotonic, Zenon
  <1>10. fun \in F /\ fun.parent = benv /\ fun.size = size /\ fun.body = body
    <2> HIDE DEF benv, size, body, Lines
    <2>. QED  BY <1>4, <1>5, <1>9
  <1>11. /\ functions' \in Seq(F) /\ Len(functions') = n + 1
         /\ \A f \in 1 .. n : functions'[f] = functions[f]
         /\ functions'[n + 1] = fun
    <2>1. functions' = Append(functions, fun) /\ Len(functions) = n /\ n \in Nat
      BY <1>1, <1>3, <1>n
    <2>2. fun \in F /\ functions \in Seq(F)
      BY <1>3, <1>10
    <2> HIDE DEF F, fun
    <2>. QED  BY ONLY <2>1, <2>2
  <1>12. Typed'
    <2>1. ts \in Seq(Tasks(n + 1))
      <3>1. <<Line("return")>> \in Seq(Common)
        BY LineFacts DEF PlainOps
      <3>2. Emit(<<Line("return")>>) \in Tasks(n + 1) /\ GenAll(BodyOf(x)) \in Seq(Tasks(n + 1))
        <4>1. n + 1 \in Nat
          OBVIOUS
        <4> HIDE DEF x, Tasks
        <4>. QED  BY <1>5, <3>1, <4>1, TaskFacts
      <3> HIDE DEF Tasks, x
      <3>. QED  BY ONLY <3>2
    <2>2. tasks' \in Seq(Tasks(Len(envs')))
      BY <1>1, <1>8, <2>1
    <2> HIDE DEF Tasks, ts
    <2>. QED  BY <1>1, <1>2, <1>8, <1>11, <2>2 DEF Typed
  <1>13. Matched'
    <2>1. ASSUME NEW f \in 1 .. n
          PROVE  /\ envs'[f].enclosing \in 0 .. (f - 1)
                 /\ functions'[f].size = envs'[f].capacity
                 /\ Len(envs'[f].variables) <= envs'[f].capacity
                 /\ functions'[f].body \in Seq(LinesOf(f)')
      <3>1. envs'[f] = envs[f] /\ functions'[f] = functions[f] /\ lambdas' = lambdas
        BY <1>1, <1>8, <1>11
      <3>2. LinesOf(f)' = LinesOf(f)
        BY <3>1, Zenon DEF LinesOf
      <3>3. /\ envs[f].enclosing \in 0 .. (f - 1)
            /\ functions[f].size = envs[f].capacity
            /\ Len(envs[f].variables) <= envs[f].capacity
            /\ functions[f].body \in Seq(LinesOf(f))
        BY <1>2, <1>n DEF Matched
      <3>. QED  BY <3>1, <3>2, <3>3, Zenon
    <2>2. ASSUME NEW f \in 1 .. Len(functions')
          PROVE  /\ envs'[f].enclosing \in 0 .. (f - 1)
                 /\ functions'[f].size = envs'[f].capacity
                 /\ Len(envs'[f].variables) <= envs'[f].capacity
                 /\ functions'[f].body \in Seq(LinesOf(f)')
      <3>1. CASE f \in 1 .. n
        BY <2>1, <3>1
      <3>2. CASE f = n + 1
        <4>1. envs'[f] = env /\ functions'[f] = fun
          BY <1>8, <1>11, <3>2
        <4>2. functions'[f].body \in Seq(LinesOf(f)')
          BY <1>9, <1>10, <3>2, <4>1
        <4>3. benv \in 0 .. (f - 1)
          BY <1>4, <3>2
        <4> HIDE DEF env, fun, benv, size, params
        <4>. QED  BY <1>5, <1>6, <1>7, <1>10, <4>1, <4>2, <4>3
      <3>. QED  BY <1>11, <3>1, <3>2
    <2>3. \A k \in 1 .. Len(lambdas) : lambdas[k].env \in 1 .. (n + 1)
      <3> TAKE k \in 1 .. Len(lambdas)
      <3>1. lambdas[k].env \in 1 .. n
        BY <1>2, <1>n DEF Matched
      <3>. QED  BY <3>1
    <2>4. ASSUME NEW k \in 2 .. (n + 1) PROVE functions'[k].parent = lambdas[k - 1].env
      <3>1. CASE k \in 2 .. n
        <4>1. k \in 2 .. Len(functions) /\ k \in 1 .. n
          BY <1>n, <3>1
        <4>2. functions[k].parent = lambdas[k - 1].env
          BY <1>2, <4>1 DEF Matched
        <4>. QED  BY <1>11, <4>1, <4>2
      <3>2. CASE k = n + 1
        <4>1. functions'[k].parent = benv
          <5> HIDE DEF fun, benv
          <5>. QED  BY <1>10, <1>11, <3>2
        <4>2. k - 1 = Len(functions)
          BY <1>n, <3>2
        <4>. QED  BY <4>1, <4>2
      <3>. QED  BY <3>1, <3>2
    <2>5. /\ Len(functions') = n + 1 /\ Len(envs') = n + 1 /\ n + 1 <= Len(lambdas) + 1
          /\ lambdas' = lambdas /\ status' = status
      BY <1>1, <1>2, <1>3, <1>8, <1>11, <1>n
    <2> HIDE DEF LinesOf
    <2>. QED  BY <2>2, <2>3, <2>4, <2>5 DEF Matched
  <1>14. Printed'
    BY <1>1, <1>2 DEF Printed
  <1>. QED  BY <1>12, <1>13, <1>14 DEF IInv

-----------------------------------------------------------------------------
(* The beginning and the end.                                              *)

(* Nothing is generated at first.                                          *)
LEMMA InitEstablishes == ASSUME Init PROVE IInv
  <1>1. Typed
    BY DEF Init, Typed
  <1>2. Matched
    BY DEF Init, Matched
  <1>3. Printed
    BY DEF Init, Printed
  <1>. QED  BY <1>1, <1>2, <1>3 DEF IInv

(* main is the first function, and defines the primitive procedures.       *)
LEMMA GenMainKeeps == ASSUME IInv, GenMain PROVE IInv'
  <1> DEFINE E == [enclosing : Nat, capacity : Nat, variables : Seq(Variables)]
             F == [parent : Nat, size : Nat, body : Seq(Lines)]
             N == NumPrimitives
             prims == [i \in 1 .. N |->
                         [op |-> "prim", n |-> i - 1, p |-> PrimitiveProcedureFunctions[i]]]
             body == <<Line("env")>> \o prims
             env == [enclosing |-> 0, capacity |-> N, variables |-> PrimitiveProcedureVariables]
             fun == [parent |-> 0, size |-> N, body |-> body]
             ts == <<Gen(program), Emit(<<Line("exit")>>)>>
  <1>1. /\ status = "start" /\ status' = "run" /\ stdout' = <<"header">>
        /\ envs' = <<env>> /\ functions' = <<fun>> /\ tasks' = ts
        /\ UNCHANGED <<program, lambdas>>
    BY DEF GenMain
  <1>2. Typed /\ functions = <<>> /\ lambdas = <<>>
    BY <1>1 DEF IInv, Printed
  <1>3. /\ N = 18 /\ Len(PrimitiveProcedureVariables) = N
        /\ Len(PrimitiveProcedureFunctions) = N
    <2>1. Len(PrimitiveProcedureVariables) = 18
      BY DEF PrimitiveProcedureVariables
    <2>2. Len(PrimitiveProcedureFunctions) = 18
      BY DEF PrimitiveProcedureFunctions
    <2>. QED  BY <2>1, <2>2 DEF NumPrimitives
  <1>4. PrimitiveProcedureVariables \in Seq(Variables)
    <2>1. PrimitiveProcedureVariables \in
            Seq({"+", "-", "*", "/", "remainder", "=", "eq?", ">", ">=", "<", "<=", "not",
                 "string=?", "print", "int->string", "null?", "or", "and"})
      BY DEF PrimitiveProcedureVariables
    <2>2. PrimitiveProcedureVariables \in Seq(Range(PrimitiveProcedureVariables))
      BY <2>1, SeqOfRange, Zenon
    <2>3. Range(PrimitiveProcedureVariables) \subseteq Variables
      BY DEF Variables
    <2>. QED  BY <2>2, <2>3, SeqMonotonic, Zenon
  <1>5. \A i \in 1 .. N : PrimitiveProcedureFunctions[i] \in Range(PrimitiveProcedureFunctions)
    <2>1. DOMAIN PrimitiveProcedureFunctions = 1 .. Len(PrimitiveProcedureFunctions)
      BY DEF PrimitiveProcedureFunctions
    <2> HIDE DEF N
    <2>. QED  BY <1>3, <2>1 DEF Range
  <1>6. env \in E /\ env.enclosing = 0 /\ env.capacity = N
          /\ env.variables = PrimitiveProcedureVariables
    <2> HIDE DEF Variables, N
    <2>. QED  BY <1>3, <1>4
  <1>7. envs' \in Seq(E) /\ Len(envs') = 1 /\ envs'[1] = env
    <2> HIDE DEF E, env
    <2>. QED  BY <1>1, <1>6
  <1>8. body \in Seq(LinesOf(1)') /\ body \in Seq(Lines)
    <2> DEFINE Prims == {l \in [op : {"prim"}, n : Nat, p : Range(PrimitiveProcedureFunctions)] :
                           l.n < N}
    <2>1. \A i \in 1 .. N :
            [op |-> "prim", n |-> i - 1, p |-> PrimitiveProcedureFunctions[i]] \in Prims
      <3> HIDE DEF N
      <3>. QED  BY <1>3, <1>5
    <2>2. prims \in Seq(Prims)
      <3> HIDE DEF Prims, N
      <3>. QED  BY <1>3, <2>1
    <2>3. Prims \subseteq LinesOf(1)'
      <3> HIDE DEF N, env
      <3>. QED  BY <1>6, <1>7 DEF LinesOf, Lines
    <2>4. Line("env") \in LinesOf(1)'
      BY LineFacts DEF PlainOps, Common, LinesOf, Lines
    <2>5. body \in Seq(LinesOf(1)')
      <3>1. prims \in Seq(LinesOf(1)')
        BY <2>2, <2>3, SeqMonotonic, Zenon
      <3> HIDE DEF LinesOf, prims
      <3>. QED  BY ONLY <2>4, <3>1
    <2>6. LinesOf(1)' \subseteq Lines
      BY DEF LinesOf, Lines
    <2>. QED  BY <2>5, <2>6, SeqMonotonic, Zenon
  <1>9. fun \in F /\ fun.size = N /\ fun.body = body
    <2> HIDE DEF body, Lines, N
    <2>. QED  BY <1>3, <1>8
  <1>10. functions' \in Seq(F) /\ Len(functions') = 1 /\ functions'[1] = fun
    <2> HIDE DEF F, fun
    <2>. QED  BY <1>1, <1>9
  <1>11. Typed'
    <2>1. ts \in Seq(Tasks(1))
      <3>1. <<Line("exit")>> \in Seq(Common)
        BY LineFacts DEF PlainOps
      <3>2. program \in Nodes
        BY <1>2, NodesAssumption DEF Typed, Nodes
      <3>3. Gen(program) \in Tasks(1) /\ Emit(<<Line("exit")>>) \in Tasks(1)
        BY <3>1, <3>2, TaskFacts
      <3> HIDE DEF Tasks
      <3>. QED  BY <3>3
    <2>2. tasks' \in Seq(Tasks(Len(envs')))
      BY <1>1, <1>7, <2>1
    <2> HIDE DEF Tasks, ts
    <2>. QED  BY <1>1, <1>2, <1>7, <1>10, <2>2 DEF Typed
  <1>12. Matched'
    <2>1. ASSUME NEW f \in 1 .. Len(functions')
          PROVE  /\ envs'[f].enclosing \in 0 .. (f - 1)
                 /\ functions'[f].size = envs'[f].capacity
                 /\ Len(envs'[f].variables) <= envs'[f].capacity
                 /\ functions'[f].body \in Seq(LinesOf(f)')
      <3>1. f = 1
        BY <1>10
      <3>2. functions'[f].body \in Seq(LinesOf(f)')
        BY <1>8, <1>9, <1>10, <3>1
      <3>3. envs'[f] = env /\ functions'[f] = fun
        BY <1>7, <1>10, <3>1
      <3>4. Len(env.variables) <= env.capacity
        <4>1. Len(env.variables) = N /\ env.capacity = N
          <5> HIDE DEF env, N
          <5>. QED  BY <1>3, <1>6, Zenon
        <4> HIDE DEF env, N
        <4>. QED  BY <1>3, <4>1
      <3>5. env.enclosing \in 0 .. (f - 1) /\ fun.size = env.capacity
        <4> HIDE DEF env, fun
        <4>. QED  BY <1>6, <1>9, <3>1
      <3> HIDE DEF env, fun, LinesOf
      <3>. QED  BY <3>2, <3>3, <3>4, <3>5
    <2>2. Len(functions') = 1 /\ Len(envs') = 1 /\ lambdas' = <<>>
      BY <1>1, <1>2, <1>7, <1>10
    <2> HIDE DEF LinesOf
    <2>. QED  BY <2>1, <2>2 DEF Matched
  <1>13. Printed'
    BY <1>1 DEF Printed
  <1>. QED  BY <1>11, <1>12, <1>13 DEF IInv

(* A step that changes none but stdout and status.                         *)
LEMMA EndingStep ==
  ASSUME IInv, status = "run", UNCHANGED <<program, tasks, envs, lambdas, functions>>,
         status' \in {"run", "done", "illegal", "unbound", "unimplemented", "overrun"},
         Printed'
  PROVE  IInv'
  <1>1. Typed'
    BY DEF IInv, Typed
  <1>2. \A f : LinesOf(f)' = LinesOf(f)
    BY Zenon DEF LinesOf
  <1>3. Matched /\ Len(functions) > 0
    BY DEF IInv, Matched
  <1>4. \A f \in 1 .. Len(functions)' : functions'[f].body \in Seq(LinesOf(f)')
    <2>1. functions' = functions
      OBVIOUS
    <2>. QED  BY <1>2, <1>3, <2>1, Zenon DEF Matched
  <1>5. Matched'
    <2> HIDE DEF LinesOf
    <2>. QED  BY <1>3, <1>4 DEF Matched
  <1>. QED  BY <1>1, <1>5 DEF IInv

(* The functions are appended to the output when all are generated.        *)
LEMMA AppendStreamKeeps == ASSUME IInv, AppendStream PROVE IInv'
  <1>1. /\ status = "run" /\ status' = "done" /\ Len(functions) > Len(lambdas)
        /\ stdout' = stdout \o <<"declarations", "functions">>
        /\ UNCHANGED <<program, tasks, envs, lambdas, functions>>
    BY DEF AppendStream
  <1>2. stdout = <<"header">>
    BY <1>1 DEF IInv, Printed
  <1>3. stdout' = <<"header", "declarations", "functions">>
    <2>1. <<"header">> \o <<"declarations", "functions">>
            = <<"header", "declarations", "functions">>
      <3> DEFINE S == {"header", "declarations", "functions"}
                 s == <<"header">> \o <<"declarations", "functions">>
      <3>1. /\ s \in Seq(S) /\ Len(s) = 3
            /\ s[1] = "header" /\ s[2] = "declarations" /\ s[3] = "functions"
        OBVIOUS
      <3>2. <<"header", "declarations", "functions">> \in Seq(S)
        OBVIOUS
      <3> HIDE DEF s
      <3>3. s = <<"header", "declarations", "functions">>
        BY <3>1, <3>2, SeqEqual
      <3>. QED  BY <3>3 DEF s
    <2>. QED  BY <1>1, <1>2, <2>1, Zenon
  <1>4. Printed'
    BY <1>1, <1>3 DEF Printed
  <1>. QED  BY <1>1, <1>4, EndingStep

(* An error leaves what is written as it is.                               *)
LEMMA FailKeeps ==
  ASSUME IInv, status = "run",
         NEW reason \in {"illegal", "unbound", "unimplemented", "overrun"}, Fail(reason)
  PROVE  IInv'
  <1>1. status' = reason /\ UNCHANGED <<program, tasks, envs, lambdas, functions, stdout>>
    BY DEF Fail
  <1>2. Printed'
    BY <1>1 DEF IInv, Printed
  <1>. QED  BY <1>1, <1>2, EndingStep

(* Every step keeps the invariant.                                         *)
LEMMA NextKeeps == ASSUME IInv, [Next]_vars PROVE IInv'
  <1>1. CASE GenMain  BY <1>1, GenMainKeeps
  <1>2. CASE GenLambda  BY <1>2, GenLambdaKeeps
  <1>3. CASE AppendStream  BY <1>3, AppendStreamKeeps
  <1>4. CASE EmitLines  BY <1>4, EmitLinesKeeps
  <1>5. CASE GenLiteral  BY <1>5, GenLiteralKeeps
  <1>6. CASE GenVariable  BY <1>6, GenVariableKeeps
  <1>7. CASE FoundVariable  BY <1>7, FoundVariableKeeps
  <1>8. CASE ScanOutwards  BY <1>8, ScanOutwardsKeeps
  <1>9. CASE GenDefinition  BY <1>9, GenDefinitionKeeps
  <1>10. CASE RebindDefinition  BY <1>10, RebindDefinitionKeeps
  <1>11. CASE BindDefinition  BY <1>11, BindDefinitionKeeps
  <1>12. CASE GenAssignment  BY <1>12, GenAssignmentKeeps
  <1>13. CASE SetVariable  BY <1>13, SetVariableKeeps
  <1>14. CASE GenIf  BY <1>14, GenIfKeeps
  <1>15. CASE GenConsequent  BY <1>15, GenConsequentKeeps
  <1>16. CASE GenAlternative  BY <1>16, GenAlternativeKeeps
  <1>17. CASE GenProcedure  BY <1>17, GenProcedureKeeps
  <1>18. CASE GenBegin  BY <1>18, GenBeginKeeps
  <1>19. CASE GenApplication  BY <1>19, GenApplicationKeeps
  <1>20. CASE IllegalNodeType
    <2>1. status = "run" /\ Fail("illegal")
      BY <1>20 DEF IllegalNodeType, LambdaIsNext
    <2>. QED  BY <2>1, FailKeeps
  <1>21. CASE UnboundVariable
    <2>1. status = "run" /\ Fail("unbound")
      BY <1>21 DEF UnboundVariable, Doing
    <2>. QED  BY <2>1, FailKeeps
  <1>22. CASE Unimplemented
    <2>1. status = "run" /\ Fail("unimplemented")
      BY <1>22 DEF Unimplemented, Generating, Doing
    <2>. QED  BY <2>1, FailKeeps
  <1>23. CASE Overrun
    <2>1. status = "run" /\ Fail("overrun")
      BY <1>23 DEF Overrun, Generating, Doing
    <2>. QED  BY <2>1, FailKeeps
  <1>24. CASE UNCHANGED vars
    <2>1. UNCHANGED <<program, tasks, envs, lambdas, functions, stdout, status>>
      BY <1>24 DEF vars
    <2>2. Typed'
      BY <2>1 DEF IInv, Typed
    <2>3. Printed'
      BY <2>1 DEF IInv, Printed
    <2>4. \A f : LinesOf(f)' = LinesOf(f)
      BY <2>1, Zenon DEF LinesOf
    <2>5. \A f \in 1 .. Len(functions)' : functions'[f].body \in Seq(LinesOf(f)')
      <3>1. functions' = functions
        BY <2>1
      <3>. QED  BY <2>4, <3>1, Zenon DEF IInv, Matched
    <2>6. Matched'
      <3> HIDE DEF LinesOf
      <3>. QED  BY <2>1, <2>5 DEF IInv, Matched
    <2>. QED  BY <2>2, <2>3, <2>6 DEF IInv
  <1>25. CASE Ended
    BY <1>25, <1>24 DEF Ended
  <1>. QED
    BY <1>1, <1>2, <1>3, <1>4, <1>5, <1>6, <1>7, <1>8, <1>9, <1>10, <1>11, <1>12, <1>13,
       <1>14, <1>15, <1>16, <1>17, <1>18, <1>19, <1>20, <1>21, <1>22, <1>23, <1>24, <1>25
       DEF Next, Step

-----------------------------------------------------------------------------
(* The theorems.                                                           *)

(* Whatever the program, the tables of the generator stay in step: each    *)
(* function has the environment of its number, and each procedure that it  *)
(* builds is a lambda expression that waits with this environment.         *)
THEOREM Invariance == Spec => []IInv
  <1>1. Init => IInv
    BY InitEstablishes
  <1>2. IInv /\ [Next]_vars => IInv'
    BY NextKeeps
  <1>. QED  BY <1>1, <1>2, PTL DEF Spec

(* The variables of the generator keep their types; no line has an index   *)
(* below 0, and no form is taken for one that it is not.                   *)
THEOREM TypeCorrect == Spec => []TypeOK
  <1>1. ASSUME IInv PROVE TypeOK
    <2>1. Typed /\ Matched /\ Printed
      BY <1>1 DEF IInv
    <2>2. ASSUME NEW i \in 1 .. Len(tasks)
          PROVE  \/ tasks[i].do \in {"gen", "bind", "assign", "consequent", "alternative"}
                       /\ Kind(tasks[i].exp) \in Kinds
                 \/ tasks[i].do = "scan" /\ tasks[i].env \in 0 .. Len(envs)
                 \/ tasks[i].do = "emit" /\ \A l \in Range(tasks[i].lines) : l.op \in Ops
      <3>1. tasks[i] \in Tasks(Len(envs))
        <4>1. tasks \in Seq(Tasks(Len(envs)))
          BY <2>1 DEF Typed
        <4> HIDE DEF Tasks
        <4>. QED  BY <4>1, ElementOfSeq
      <3>2. \A n : Longer(n) \subseteq Nodes
        BY DEF Longer
      <3>3. \A x \in Nodes : Kind(x) \in Kinds
        BY NodeFacts
      <3>4. CASE tasks[i].do = "emit"
        <4>1. tasks[i].lines \in Seq(Common)
          BY <3>1, <3>4 DEF Tasks
        <4>2. \A l \in Range(tasks[i].lines) : l \in Common
          <5> HIDE DEF Common
          <5>. QED  BY <4>1 DEF Range
        <4>. QED  BY <3>4, <4>2, LineOps DEF Common
      <3>5. CASE tasks[i].do = "scan"
        BY <3>1, <3>5 DEF Tasks
      <3>6. CASE tasks[i].do \notin {"emit", "scan"}
        BY <3>1, <3>2, <3>3, <3>6 DEF Tasks
      <3>. QED  BY <3>4, <3>5, <3>6
    <2>3. /\ \A e \in 1 .. Len(envs) :
               envs[e].enclosing \in 0 .. (e - 1) /\ envs[e].capacity \in Nat
          /\ Len(envs) = Len(functions)
      BY <1>1, <2>1, EnvFacts DEF Matched
    <2>4. \A k \in 1 .. Len(lambdas) :
            Tagged(lambdas[k].exp, "lambda") /\ lambdas[k].env \in 1 .. Len(envs)
      <3> TAKE k \in 1 .. Len(lambdas)
      <3>1. lambdas[k] \in [exp : LambdaNodes, env : Nat]
        <4> HIDE DEF LambdaNodes
        <4>. QED  BY <2>1, ElementOfSeq DEF Typed
      <3>2. Tagged(lambdas[k].exp, "lambda")
        BY <3>1, NodeFacts DEF LambdaNodes, Longer
      <3>. QED  BY <2>1, <2>3, <3>2 DEF Matched
    <2>5. \A f \in 1 .. Len(functions) : \A l \in Range(functions[f].body) :
            l.op \in Ops /\ (l.op \in Indexed => l.n \in Nat)
      <3> TAKE f \in 1 .. Len(functions)
      <3> TAKE l \in Range(functions[f].body)
      <3>1. l \in Lines
        BY <2>1, BodyLines
      <3>. QED  BY <3>1, LineOps
    <2>6. stdout \in {<<>>, <<"header">>, <<"header", "declarations", "functions">>}
      BY <2>1 DEF Printed
    <2>7. status \in {"start", "run", "done", "illegal", "unbound", "unimplemented", "overrun"}
      BY <2>1 DEF Typed
    <2>. QED  BY <2>2, <2>3, <2>4, <2>5, <2>6, <2>7 DEF TypeOK
  <1>. QED  BY <1>1, Invariance, PTL

(* The environments that the output allocates have room for what its code  *)
(* binds.                                                                  *)
THEOREM RoomForBindings == Spec => []BindingsFit
  <1>1. ASSUME IInv PROVE BindingsFit
    <2> SUFFICES ASSUME NEW f \in 1 .. Len(functions)
                 PROVE  /\ Len(envs[f].variables) <= functions[f].size
                        /\ \A l \in Range(functions[f].body) :
                             l.op \in {"prim", "bind", "def"} => l.n < functions[f].size
      BY DEF BindingsFit
    <2>1. Matched /\ Typed
      BY <1>1 DEF IInv
    <2>2. Len(envs[f].variables) <= envs[f].capacity /\ functions[f].size = envs[f].capacity
      BY <2>1 DEF Matched
    <2>3. \A l \in Range(functions[f].body) : l \in LinesOf(f)
      BY <2>1, BodyLines
    <2>. QED  BY <2>2, <2>3 DEF LinesOf
  <1>. QED  BY <1>1, Invariance, PTL

(* A program that is rejected leaves the header only, and one that is      *)
(* compiled has every function that its code builds a procedure of.        *)
THEOREM WholeOutput == Spec => []OutputWhole
  <1>1. ASSUME IInv PROVE OutputWhole
    <2>1. Typed /\ Matched /\ Printed
      BY <1>1 DEF IInv
    <2>2. status \in {"illegal", "unbound", "unimplemented"} => stdout = <<"header">>
      BY <2>1 DEF Printed
    <2>3. ASSUME status = "done", NEW f \in 1 .. Len(functions),
                 NEW l \in Range(functions[f].body), l.op = "proc"
          PROVE  l.f \in 1 .. Len(functions) /\ functions[l.f].parent = f
      <3>1. l \in LinesOf(f)
        BY <2>1, BodyLines
      <3>2. l \in Lines /\ l.f - 1 \in 1 .. Len(lambdas) /\ lambdas[l.f - 1].env = f
        BY <2>3, <3>1 DEF LinesOf
      <3>3. l.f \in Nat
        BY <2>3, <3>2 DEF Lines, PlainOps
      <3>4. Len(lambdas) \in Nat /\ Len(functions) \in Nat /\ Len(functions) > Len(lambdas)
        <4>1. /\ lambdas \in Seq([exp : LambdaNodes, env : Nat])
              /\ functions \in Seq([parent : Nat, size : Nat, body : Seq(Lines)])
          BY <2>1 DEF Typed
        <4>2. Len(lambdas) \in Nat /\ Len(functions) \in Nat
          BY ONLY <4>1
        <4>. QED  BY <2>1, <2>3, <4>2 DEF Printed
      <3>5. l.f \in 2 .. Len(functions)
        BY <3>2, <3>3, <3>4
      <3>. QED  BY <2>1, <3>2, <3>4, <3>5 DEF Matched
    <2>. QED  BY <2>2, <2>3 DEF OutputWhole
  <1>. QED  BY <1>1, Invariance, PTL

-----------------------------------------------------------------------------
(* Where the tasks come from.                                              *)

(* The expressions that the forms in the tasks and tables belong to.       *)
FormOf ==
  [do \in {"bind", "assign", "consequent", "alternative"} |->
     CASE do = "bind" -> "define" [] do = "assign" -> "set!" [] OTHER -> "if"]

Reaches(s) ==
  /\ s.do \in {"gen", "bind", "assign", "consequent", "alternative"} => s.exp \in Expressions
  /\ s.do \in {"bind", "assign", "consequent", "alternative"} => Kind(s.exp) = FormOf[s.do]

AnyTask == UNION {Tasks(n) : n \in Nat}

(* Tasks that are made of expressions of the program.                      *)
Source == {s \in AnyTask : Reaches(s) /\ s.do # "scan"}

(* All that is generated is part of the program, and one variable is       *)
(* looked up at a time.                                                    *)
Traced ==
  /\ \A k \in 1 .. Len(lambdas) : lambdas[k].exp \in Expressions
  /\ tasks # <<>> => Reaches(Head(tasks)) /\ Tail(tasks) \in Seq(Source)

(* What is known of the program stays as it is.                            *)
LEMMA ProgramKept ==
  ASSUME UNCHANGED program
  PROVE  /\ Expressions' = Expressions /\ Source' = Source
         /\ \A s : Reaches(s)' = Reaches(s)
         /\ FreeNames' = FreeNames
  <1>1. Expressions' = Expressions
    BY DEF Expressions
  <1>2. \A s : Reaches(s)' = Reaches(s)
    BY <1>1 DEF Reaches
  <1>3. Source' = Source
    BY <1>2 DEF Source
  <1>4. FreeNames' = FreeNames
    BY DEF FreeNames
  <1>. QED  BY <1>1, <1>2, <1>3, <1>4

(* The tasks are tasks, and come apart.                                    *)
LEMMA TasksFacts ==
  ASSUME IInv, tasks # <<>>
  PROVE  /\ tasks \in Seq(AnyTask) /\ Todo \in AnyTask /\ Tail(tasks) \in Seq(AnyTask)
         /\ tasks = <<Todo>> \o Tail(tasks)
  <1>1. Len(envs) \in Nat /\ tasks \in Seq(Tasks(Len(envs)))
    BY DEF IInv, Typed
  <1>2. Tasks(Len(envs)) \subseteq AnyTask
    BY <1>1 DEF AnyTask
  <1>3. tasks \in Seq(AnyTask)
    BY <1>1, <1>2, SeqMonotonic, Zenon
  <1>. QED  BY <1>3 DEF Todo

(* A step that follows tasks of the program.                               *)
LEMMA TracedStep ==
  ASSUME IInv, Traced, tasks # <<>>, UNCHANGED <<program, lambdas>>, NEW ts, Follow(ts),
         ts \in Seq(Source) \/ \E s \in AnyTask : s.do = "scan" /\ ts = <<s>>
  PROVE  Traced'
  <1>1. PICK rest : rest = Tail(tasks)
    OBVIOUS
  <1>2. rest \in Seq(Source) /\ tasks' = ts \o rest
    BY <1>1 DEF Traced, Follow
  <1>3. tasks' # <<>> => Reaches(Head(tasks')) /\ Tail(tasks') \in Seq(Source)
    <2>1. CASE ts \in Seq(Source)
      <3>1. PICK u : u = ts \o rest
        OBVIOUS
      <3>2. u \in Seq(Source)
        BY <1>2, <2>1, <3>1
      <3>3. u # <<>> => Head(u) \in Source /\ Tail(u) \in Seq(Source)
        BY <3>2
      <3>. QED  BY <1>2, <3>1, <3>3 DEF Source
    <2>2. CASE \E s \in AnyTask : s.do = "scan" /\ ts = <<s>>
      <3>1. PICK s \in AnyTask : s.do = "scan" /\ ts = <<s>>
        BY <2>2
      <3>2. PICK T : T = Source \cup {s}
        OBVIOUS
      <3>3. rest \in Seq(T) /\ s \in T
        <4>1. Source \subseteq T
          BY <3>2
        <4>. QED  BY <1>2, <3>2, <4>1, SeqMonotonic, Zenon
      <3>4. Head(<<s>> \o rest) = s /\ Tail(<<s>> \o rest) = rest
        BY ONLY <3>3
      <3>5. Reaches(s)
        BY <3>1 DEF Reaches
      <3>. QED  BY <1>2, <3>1, <3>4, <3>5
    <2>. QED  BY <2>1, <2>2
  <1>4. \A k \in 1 .. Len(lambdas) : lambdas[k].exp \in Expressions
    BY DEF Traced
  <1>5. /\ Expressions' = Expressions /\ Source' = Source
        /\ \A s : Reaches(s)' = Reaches(s)
    BY ProgramKept
  <1>6. lambdas' = lambdas
    OBVIOUS
  <1>7. Reaches(Head(tasks))' = Reaches(Head(tasks'))
    BY <1>5 DEF Reaches
  <1>. QED  BY <1>3, <1>4, <1>5, <1>6, <1>7 DEF Traced

(* The expressions of the program are nodes, and so are their parts.       *)
LEMMA ExpressionFacts ==
  ASSUME IInv
  PROVE  /\ program \in Expressions /\ Expressions \subseteq Nodes
         /\ \A x \in Expressions :
              \A y \in Range(Immediate(x)) \cup Range(BodyParts(x)) : y \in Expressions
  <1>1. program \in Nodes
    BY NodesAssumption DEF IInv, Typed
  <1>. QED  BY <1>1, ExpressionsClosed

(* The tasks that are made of them.                                        *)
LEMMA SourceFacts ==
  ASSUME IInv
  PROVE  /\ \A x \in Expressions : Gen(x) \in Source
         /\ \A x \in Expressions :
              /\ x \in Longer(3) /\ Kind(x) = "define" => Bind(x) \in Source
              /\ x \in Longer(3) /\ Kind(x) = "set!" => Assign(x) \in Source
              /\ x \in Longer(3) /\ Kind(x) = "if" => Alternative(x) \in Source
              /\ x \in Longer(2) /\ Kind(x) = "if" => Consequent(x) \in Source
         /\ \A ls \in Seq(Common) : Emit(ls) \in Source
         /\ \A xs \in Seq(Nodes) :
              (\A i \in 1 .. Len(xs) : xs[i] \in Expressions) => GenAll(xs) \in Seq(Source)
  <1>1. \A s \in Tasks(0) : s \in AnyTask
    BY DEF AnyTask
  <1>2. \A x \in Expressions : Gen(x) \in Source
    <2> TAKE x \in Expressions
    <2>1. Gen(x) \in AnyTask
      BY <1>1, ExpressionFacts, TaskFacts
    <2>. QED  BY <2>1 DEF Source, Reaches, Gen
  <1>3. ASSUME NEW x \in Expressions
        PROVE  /\ x \in Longer(3) /\ Kind(x) = "define" => Bind(x) \in Source
               /\ x \in Longer(3) /\ Kind(x) = "set!" => Assign(x) \in Source
               /\ x \in Longer(3) /\ Kind(x) = "if" => Alternative(x) \in Source
               /\ x \in Longer(2) /\ Kind(x) = "if" => Consequent(x) \in Source
    <2>1. /\ x \in Longer(3) => /\ Bind(x) \in AnyTask /\ Assign(x) \in AnyTask
                                 /\ Alternative(x) \in AnyTask
          /\ x \in Longer(2) => Consequent(x) \in AnyTask
      BY <1>1, TaskFacts
    <2>2. /\ Bind(x).do = "bind" /\ Bind(x).exp = x
          /\ Assign(x).do = "assign" /\ Assign(x).exp = x
          /\ Alternative(x).do = "alternative" /\ Alternative(x).exp = x
          /\ Consequent(x).do = "consequent" /\ Consequent(x).exp = x
      BY DEF Bind, Assign, Alternative, Consequent
    <2>3. /\ FormOf["bind"] = "define" /\ FormOf["assign"] = "set!"
          /\ FormOf["consequent"] = "if" /\ FormOf["alternative"] = "if"
      BY DEF FormOf
    <2> HIDE DEF AnyTask
    <2>. QED  BY <2>1, <2>2, <2>3 DEF Source, Reaches
  <1>4. \A ls \in Seq(Common) : Emit(ls) \in Source
    <2> TAKE ls \in Seq(Common)
    <2>1. Emit(ls) \in AnyTask
      BY <1>1, TaskFacts
    <2>. QED  BY <2>1 DEF Source, Reaches, Emit
  <1>5. ASSUME NEW xs \in Seq(Nodes), \A i \in 1 .. Len(xs) : xs[i] \in Expressions
        PROVE  GenAll(xs) \in Seq(Source)
    <2>1. Len(xs) \in Nat /\ \A i \in 1 .. Len(xs) : Gen(xs[i]) \in Source
      BY <1>2, <1>5
    <2> HIDE DEF Source
    <2>. QED  BY <2>1 DEF GenAll
  <1>. QED  BY <1>2, <1>3, <1>4, <1>5

(* What is left of a sequence without its first element.                   *)
LEMMA TailFacts ==
  ASSUME NEW S, NEW s \in Seq(S), s # <<>>
  PROVE  /\ Head(s) = s[1] /\ Head(s) \in S /\ Tail(s) \in Seq(S)
         /\ Len(s) \in Nat /\ Len(Tail(s)) = Len(s) - 1
         /\ \A i \in 1 .. Len(Tail(s)) : Tail(s)[i] = s[i + 1]
  OBVIOUS

-----------------------------------------------------------------------------
(* Counting definitions.                                                   *)

(* What TablesLargeEnough is about.                                        *)
Regular == ~ (NestsDefinitions \/ DefinesInMain \/ FormsAreVariables)

(* At most so many definitions are made where x is generated.              *)
Weight(x) == IF Definitions(x) = {} THEN 0 ELSE CountDefinitions(x)
WeightAt(x, n) == IF Length(x) < n THEN 0 ELSE Weight(x.items[n])

(* countDefinitions of a list is the sum over its elements.                *)
LEMMA CountOfList ==
  ASSUME NEW s \in Seq(Nodes), List(s) \in Nodes, s # <<>>, Head(s) \notin FormNames
  PROVE  /\ Head(s) \in Nodes /\ Tail(s) \in Seq(Nodes) /\ List(Tail(s)) \in Nodes
         /\ CountDefinitions(Head(s)) \in Nat /\ CountDefinitions(List(Tail(s))) \in Nat
         /\ CountDefinitions(List(s)) =
              CountDefinitions(Head(s)) + CountDefinitions(List(Tail(s)))
  <1>1. PICK x : x = List(s)
    OBVIOUS
  <1>2. x \in Nodes /\ x.items = s /\ x.type = "list" /\ IsPair(x)
    BY <1>1 DEF List, IsPair
  <1>3. ~ Tagged(x, "lambda") /\ ~ Tagged(x, "define")
    BY <1>2 DEF Tagged, FormNames
  <1>4. Head(s) \in Nodes /\ Tail(s) \in Seq(Nodes) /\ List(Tail(s)) \in Nodes
    BY <1>2, PairFacts
  <1>5. CountDefinitions(x) =
          CountDefinitions(Head(x.items)) + CountDefinitions(List(Tail(x.items)))
    BY <1>2, <1>3, CountDefinitionsFacts
  <1>. QED  BY <1>1, <1>2, <1>4, <1>5, CountDefinitionsFacts

(* A weight is a number, and 0 for the parts of what defines nothing.      *)
LEMMA WeightFacts ==
  ASSUME NEW x \in Nodes
  PROVE  /\ Weight(x) \in Nat /\ Weight(x) <= CountDefinitions(x)
         /\ CountDefinitions(x) \in Nat
         /\ Definitions(x) = {} => \A y \in Range(Immediate(x)) : Weight(y) = 0
  <1>1. CountDefinitions(x) \in Nat
    BY CountDefinitionsFacts
  <1>2. ASSUME Definitions(x) = {}, NEW y \in Range(Immediate(x))  PROVE Weight(y) = 0
    <2>1. Definitions(y) = {}
      BY <1>2, DefinitionsFacts
    <2>. QED  BY <2>1 DEF Weight
  <1>. QED  BY <1>1, <1>2 DEF Weight

(* a is enough for all elements of xs.                                     *)
Carries(xs, a) ==
  \E c \in [1 .. (Len(xs) + 1) -> 0 .. a] :
    /\ c[1] = a /\ c[Len(xs) + 1] = 0
    /\ \A i \in 1 .. Len(xs) : Weight(xs[i]) + c[i + 1] <= c[i]

(* Nothing is enough for what weighs nothing.                              *)
LEMMA CarriesNone ==
  ASSUME NEW S, NEW xs \in Seq(S), \A i \in 1 .. Len(xs) : Weight(xs[i]) = 0
  PROVE  Carries(xs, 0)
  <1>1. PICK n \in Nat : n = Len(xs)
    OBVIOUS
  <1>2. PICK c : c = [i \in 1 .. (n + 1) |-> 0]
    OBVIOUS
  <1>3. c \in [1 .. (n + 1) -> 0 .. 0] /\ c[1] = 0 /\ c[n + 1] = 0
        /\ \A i \in 1 .. n : c[i] = 0 /\ c[i + 1] = 0
    BY <1>2
  <1>4. \A i \in 1 .. n : Weight(xs[i]) + c[i + 1] <= c[i]
    BY <1>1, <1>3
  <1>. QED  BY <1>1, <1>3, <1>4 DEF Carries

(* One more element takes more.                                            *)
LEMMA CarriesMore ==
  ASSUME NEW S, NEW xs \in Seq(S), NEW a \in Nat, Carries(xs, a),
         NEW x \in S, Weight(x) \in Nat, NEW w \in Nat, Weight(x) <= w
  PROVE  Carries(<<x>> \o xs, w + a)
  <1>1. PICK n \in Nat : n = Len(xs)
    OBVIOUS
  <1>2. PICK c \in [1 .. (n + 1) -> 0 .. a] :
          c[1] = a /\ c[n + 1] = 0 /\ \A i \in 1 .. n : Weight(xs[i]) + c[i + 1] <= c[i]
    BY <1>1 DEF Carries
  <1>3. PICK ys : ys = <<x>> \o xs
    OBVIOUS
  <1>4. Len(ys) = n + 1 /\ ys[1] = x /\ \A i \in 2 .. (n + 1) : ys[i] = xs[i - 1]
    <2>1. Len(<<x>> \o xs) = Len(xs) + 1 /\ (<<x>> \o xs)[1] = x
          /\ \A i \in 2 .. (Len(xs) + 1) : (<<x>> \o xs)[i] = xs[i - 1]
      OBVIOUS
    <2>. QED  BY <1>1, <1>3, <2>1
  <1>5. PICK d : d = [i \in 1 .. (n + 2) |-> IF i = 1 THEN w + a ELSE c[i - 1]]
    OBVIOUS
  <1>6. /\ d \in [1 .. (n + 2) -> 0 .. (w + a)] /\ d[1] = w + a /\ d[2] = a /\ d[n + 2] = 0
        /\ \A i \in 2 .. (n + 1) : d[i] = c[i - 1] /\ d[i + 1] = c[i]
    <2>1. \A i \in 2 .. (n + 2) : i - 1 \in 1 .. (n + 1) /\ c[i - 1] \in 0 .. (w + a)
      BY <1>2
    <2>2. w + a \in 0 .. (w + a)
      OBVIOUS
    <2>. QED  BY <1>2, <1>5, <2>1, <2>2
  <1>7. \A i \in 1 .. (n + 1) : Weight(ys[i]) + d[i + 1] <= d[i]
    <2> TAKE i \in 1 .. (n + 1)
    <2>1. CASE i = 1
      BY <1>4, <1>6, <2>1
    <2>2. CASE i # 1
      <3>1. i \in 2 .. (n + 1) /\ i - 1 \in 1 .. n /\ (i - 1) + 1 = i
        BY <2>2
      <3>. QED  BY <1>2, <1>4, <1>6, <3>1
    <2>. QED  BY <2>1, <2>2
  <1>8. (n + 1) + 1 = n + 2
    OBVIOUS
  <1>9. d \in [1 .. ((n + 1) + 1) -> 0 .. (w + a)] /\ d[(n + 1) + 1] = 0 /\ d[1] = w + a
    BY <1>6, <1>8
  <1>10. Carries(ys, w + a)
    BY <1>4, <1>7, <1>9 DEF Carries
  <1>. QED  BY <1>3, <1>10

(* The order does not matter.                                              *)
LEMMA CarriesReversed ==
  ASSUME NEW S, NEW xs \in Seq(S), NEW a \in Nat, Carries(xs, a),
         \A i \in 1 .. Len(xs) : Weight(xs[i]) \in Nat
  PROVE  Carries(Reverse(xs), a)
  <1>1. PICK n \in Nat : n = Len(xs)
    OBVIOUS
  <1>2. PICK c \in [1 .. (n + 1) -> 0 .. a] :
          c[1] = a /\ c[n + 1] = 0 /\ \A i \in 1 .. n : Weight(xs[i]) + c[i + 1] <= c[i]
    BY <1>1 DEF Carries
  <1>3. PICK ys : ys = Reverse(xs)
    OBVIOUS
  <1>4. Len(ys) = n /\ \A i \in 1 .. n : ys[i] = xs[n + 1 - i]
    <2>1. \A i \in 1 .. n : n - i + 1 = n + 1 - i
      OBVIOUS
    <2>. QED  BY <1>1, <1>3, <2>1 DEF Reverse
  <1>5. PICK d : d = [i \in 1 .. (n + 1) |-> a - c[n + 2 - i]]
    OBVIOUS
  <1>6. /\ d \in [1 .. (n + 1) -> 0 .. a] /\ d[1] = a /\ d[n + 1] = 0
        /\ \A i \in 1 .. n : d[i] = a - c[n + 2 - i] /\ d[i + 1] = a - c[n + 1 - i]
    <2>1. \A i \in 1 .. (n + 1) : n + 2 - i \in 1 .. (n + 1)
      OBVIOUS
    <2>2. ASSUME NEW i \in 1 .. (n + 1)
          PROVE  d[i] = a - c[n + 2 - i] /\ a - c[n + 2 - i] \in 0 .. a
      <3>1. c[n + 2 - i] \in 0 .. a
        BY <1>2, <2>1
      <3>2. \A k \in 0 .. a : a - k \in 0 .. a
        OBVIOUS
      <3>3. a - c[n + 2 - i] \in 0 .. a
        BY <3>1, <3>2
      <3>. QED  BY <1>5, <3>3
    <2>3. d \in [1 .. (n + 1) -> 0 .. a]
      BY <1>5, <2>2
    <2>4. n + 2 - 1 = n + 1 /\ n + 2 - (n + 1) = 1
      OBVIOUS
    <2>5. d[1] = a /\ d[n + 1] = 0
      <3>1. 1 \in 1 .. (n + 1) /\ n + 1 \in 1 .. (n + 1) /\ a - 0 = a /\ a - a = 0
        OBVIOUS
      <3>2. d[1] = a - c[n + 2 - 1] /\ d[n + 1] = a - c[n + 2 - (n + 1)]
        BY <2>2, <3>1
      <3>. QED  BY <1>2, <2>4, <3>1, <3>2
    <2>6. \A i \in 1 .. n : i + 1 \in 1 .. (n + 1) /\ n + 2 - (i + 1) = n + 1 - i
      OBVIOUS
    <2>7. \A i \in 1 .. n : d[i] = a - c[n + 2 - i] /\ d[i + 1] = a - c[n + 1 - i]
      BY <2>2, <2>6
    <2>. QED  BY <2>3, <2>5, <2>7
  <1>7. \A i \in 1 .. n : Weight(ys[i]) + d[i + 1] <= d[i]
    <2> TAKE i \in 1 .. n
    <2>1. PICK j \in 1 .. n : j = n + 1 - i
      OBVIOUS
    <2>2. j + 1 = n + 2 - i /\ j \in 1 .. (n + 1) /\ j + 1 \in 1 .. (n + 1)
      BY <2>1
    <2>3. Weight(xs[j]) + c[j + 1] <= c[j] /\ c[j] \in Nat /\ c[j + 1] \in Nat
      BY <1>2, <2>2
    <2>4. ys[i] = xs[j] /\ d[i] = a - c[j + 1] /\ d[i + 1] = a - c[j]
      BY <1>4, <1>6, <2>1, <2>2
    <2>5. Weight(xs[j]) \in Nat
      BY <1>1
    <2>. QED  BY <2>3, <2>4, <2>5
  <1>8. Carries(ys, a)
    BY <1>4, <1>6, <1>7 DEF Carries
  <1>. QED  BY <1>3, <1>8

(* countDefinitions of a list is enough for its elements.                  *)
LEMMA CarriesList ==
  ASSUME NEW s \in Seq(Nodes), List(s) \in Nodes, \A i \in 1 .. Len(s) : s[i] \notin FormNames
  PROVE  Carries(s, CountDefinitions(List(s)))
  <1> DEFINE Fits(xs) ==
               List(xs) \in Nodes /\ (\A i \in 1 .. Len(xs) : xs[i] \notin FormNames) =>
                 Carries(xs, CountDefinitions(List(xs)))
             good == {n \in Nat : \A xs \in Seq(Nodes) : Len(xs) = n => Fits(xs)}
  <1>1. ASSUME NEW n \in Nat, \A m \in 0 .. (n - 1) : m \in good
        PROVE  n \in good
    <2> SUFFICES ASSUME NEW xs \in Seq(Nodes), Len(xs) = n, List(xs) \in Nodes,
                        \A i \in 1 .. Len(xs) : xs[i] \notin FormNames
                 PROVE  Carries(xs, CountDefinitions(List(xs)))
      OBVIOUS
    <2>1. CASE n = 0
      <3>1. xs = <<>>
        BY <2>1
      <3>2. CountDefinitions(List(xs)) = 0
        <4>1. ~ IsPair(List(xs))
          BY <3>1 DEF IsPair, List
        <4>. QED  BY <4>1, CountDefinitionsFacts
      <3>3. Carries(xs, 0)
        <4>1. \A i \in 1 .. Len(xs) : Weight(xs[i]) = 0
          BY <2>1
        <4>. QED  BY <4>1, CarriesNone
      <3>. QED  BY <3>2, <3>3
    <2>2. CASE n # 0
      <3>1. PICK h, t : h = Head(xs) /\ t = Tail(xs)
        OBVIOUS
      <3>2. /\ xs # <<>> /\ h = xs[1] /\ h \in Nodes /\ t \in Seq(Nodes)
            /\ Len(t) = n - 1 /\ n - 1 \in 0 .. (n - 1)
            /\ \A i \in 1 .. Len(t) : t[i] = xs[i + 1] /\ i + 1 \in 1 .. Len(xs)
        BY <2>2, <3>1
      <3>3. 1 \in 1 .. Len(xs)
        BY <2>2
      <3>4. h \notin FormNames /\ \A i \in 1 .. Len(t) : t[i] \notin FormNames
        BY <3>2, <3>3
      <3>5. /\ List(t) \in Nodes /\ CountDefinitions(List(t)) \in Nat
            /\ CountDefinitions(h) \in Nat
            /\ CountDefinitions(List(xs)) = CountDefinitions(h) + CountDefinitions(List(t))
        BY <3>1, <3>2, <3>4, CountOfList
      <3>6. Carries(t, CountDefinitions(List(t)))
        <4>1. n - 1 \in good
          BY <1>1, <3>2
        <4>. QED  BY <3>2, <3>4, <3>5, <4>1
      <3>7. Carries(<<h>> \o t, CountDefinitions(h) + CountDefinitions(List(t)))
        BY <3>2, <3>5, <3>6, WeightFacts, CarriesMore
      <3>8. xs = <<h>> \o t
        BY <3>1, <3>2
      <3>. QED  BY <3>5, <3>7, <3>8
    <2>. QED  BY <2>1, <2>2
  <1>2. Nat \subseteq good
    <2> HIDE DEF good
    <2>. QED  BY <1>1, StrongInduction
  <1>3. Len(s) \in Nat
    OBVIOUS
  <1>. QED  BY <1>2, <1>3

(* A form begins with its name.                                            *)
LEMMA FormIsTagged ==
  ASSUME NEW x \in Nodes, Kind(x) \in Forms
  PROVE  Tagged(x, Kind(x)) /\ Head(x.items) = Identifier(Kind(x))
  <1>1. x.type = "list" /\ x.items # <<>> /\ IsPair(x)
    BY FormIsPair
  <1>2. ~ IsNull(x)
    BY <1>1 DEF IsNull, List, Identifier
  <1>3. \E tag \in Forms : Tagged(x, tag)
    BY <1>1, <1>2 DEF Kind, Forms
  <1>4. PICK tag \in Forms : Tagged(x, tag)
    BY <1>3
  <1>5. Head(x.items) = Identifier(tag)
    BY <1>4 DEF Tagged
  <1>6. Kind(x) = tag
    BY <1>1, <1>2, <1>3, <1>5 DEF Kind, Identifier
  <1>. QED  BY <1>4, <1>5, <1>6

(* No expression of a regular program is the name of a form.               *)
LEMMA NoFormNames ==
  ASSUME IInv, Regular
  PROVE  /\ \A x \in Expressions : x \notin FormNames
         /\ \A x \in Expressions : Kind(x) = "set!" /\ Length(x) >= 3 => x.items[2] \notin FormNames
         /\ \A x \in Expressions : Kind(x) = "define" => Definitions(x) = {x}
         /\ \A tag \in {"if", "set!", "begin"} : Identifier(tag) \notin FormNames
  <1>1. \A tag \in {"if", "set!", "begin"} : Identifier(tag) \notin FormNames
    BY DEF FormNames, Identifier
  <1>. QED  BY <1>1 DEF Regular, FormsAreVariables, NestsDefinitions

(* The count of a form covers its first elements.                          *)
LEMMA ItemsCounted ==
  ASSUME IInv, Regular, NEW x \in Expressions, Kind(x) \in {"if", "set!"},
         NEW s, s = x.items, NEW n \in 1 .. 4, Len(s) >= n,
         \A i \in 2 .. n : s[i] \notin FormNames
  PROVE  /\ \A i \in 1 .. n : s[i] \in Nodes /\ CountDefinitions(s[i]) \in Nat
         /\ n = 2 => CountDefinitions(s[2]) <= CountDefinitions(x)
         /\ n = 3 => CountDefinitions(s[2]) + CountDefinitions(s[3]) <= CountDefinitions(x)
         /\ n = 4 => CountDefinitions(s[2]) + CountDefinitions(s[3]) + CountDefinitions(s[4])
                       <= CountDefinitions(x)
  <1>1. x \in Nodes
    BY ExpressionFacts
  <1>2. s \in Seq(Nodes) /\ x = List(s) /\ Head(s) = Identifier(Kind(x)) /\ s # <<>>
    BY <1>1, FormIsPair, FormIsTagged, PairFacts DEF Forms
  <1>3. Head(s) \notin FormNames
    BY <1>2, NoFormNames
  <1>4. PICK t : t = Tail(s)
    OBVIOUS
  <1>5. PICK u : u = Tail(t)
    OBVIOUS
  <1>6. PICK v : v = Tail(u)
    OBVIOUS
  <1>7. /\ t \in Seq(Nodes) /\ Len(t) = Len(s) - 1 /\ Len(s) \in Nat
        /\ \A i \in 1 .. Len(t) : t[i] = s[i + 1]
    BY <1>2, <1>4, TailFacts
  <1>8. n >= 2 => /\ t # <<>> /\ Head(t) = s[2]
                  /\ u \in Seq(Nodes) /\ Len(u) = Len(s) - 2
                  /\ \A i \in 1 .. Len(u) : u[i] = s[i + 2]
    <2> HAVE n >= 2
    <2>1. t # <<>> /\ 1 \in 1 .. Len(t) /\ 1 + 1 = 2
      BY <1>7
    <2>2. Head(t) = t[1] /\ u \in Seq(Nodes) /\ Len(u) = Len(t) - 1
            /\ \A i \in 1 .. Len(u) : u[i] = t[i + 1]
      BY <1>5, <1>7, <2>1, TailFacts
    <2>3. \A i \in 1 .. Len(u) : i + 1 \in 1 .. Len(t) /\ (i + 1) + 1 = i + 2
      BY <1>7, <2>2
    <2>4. Len(u) = Len(s) - 2
      BY <1>7, <2>2
    <2>. QED  BY <1>7, <2>1, <2>2, <2>3, <2>4
  <1>9. n >= 3 => /\ u # <<>> /\ Head(u) = s[3]
                  /\ v \in Seq(Nodes) /\ (n >= 4 => v # <<>> /\ Head(v) = s[4])
    <2> HAVE n >= 3
    <2>1. u # <<>> /\ 1 \in 1 .. Len(u) /\ 1 + 2 = 3
      BY <1>7, <1>8
    <2>2. Head(u) = u[1] /\ v \in Seq(Nodes) /\ Len(v) = Len(u) - 1
            /\ \A i \in 1 .. Len(v) : v[i] = u[i + 1]
      BY <1>6, <1>8, <2>1, TailFacts
    <2>3. ASSUME n >= 4 PROVE v # <<>> /\ Head(v) = s[4]
      <3>1. v # <<>> /\ 1 \in 1 .. Len(v) /\ 2 \in 1 .. Len(u) /\ 1 + 1 = 2 /\ 2 + 2 = 4
        BY <1>7, <1>8, <2>2, <2>3
      <3>2. Head(v) = v[1]
        BY <2>2, <3>1, TailFacts
      <3>3. v[1] = u[2] /\ u[2] = s[4]
        BY <1>8, <2>2, <3>1
      <3>. QED  BY <3>1, <3>2, <3>3
    <2>. QED  BY <1>8, <2>1, <2>2, <2>3
  <1>10. /\ List(t) \in Nodes /\ CountDefinitions(List(t)) \in Nat
         /\ CountDefinitions(List(t)) <= CountDefinitions(x)
         /\ CountDefinitions(x) \in Nat
    <2>1. /\ List(t) \in Nodes /\ CountDefinitions(Head(s)) \in Nat
          /\ CountDefinitions(List(t)) \in Nat
          /\ CountDefinitions(x) = CountDefinitions(Head(s)) + CountDefinitions(List(t))
      BY <1>1, <1>2, <1>3, <1>4, CountOfList
    <2>. QED  BY <2>1
  <1>11. n >= 2 =>
           /\ List(u) \in Nodes /\ CountDefinitions(List(u)) \in Nat
           /\ CountDefinitions(List(t)) = CountDefinitions(s[2]) + CountDefinitions(List(u))
    <2> HAVE n >= 2
    <2>1. s[2] \notin FormNames
      OBVIOUS
    <2>. QED  BY <1>5, <1>7, <1>8, <1>10, <2>1, CountOfList
  <1>12. n >= 3 =>
           /\ List(v) \in Nodes /\ CountDefinitions(List(v)) \in Nat
           /\ CountDefinitions(List(u)) = CountDefinitions(s[3]) + CountDefinitions(List(v))
    <2> HAVE n >= 3
    <2>1. s[3] \notin FormNames
      OBVIOUS
    <2>. QED  BY <1>6, <1>8, <1>9, <1>11, <2>1, CountOfList
  <1>13. n >= 4 =>
           /\ CountDefinitions(List(Tail(v))) \in Nat
           /\ CountDefinitions(List(v)) = CountDefinitions(s[4]) + CountDefinitions(List(Tail(v)))
    <2> HAVE n >= 4
    <2>1. s[4] \notin FormNames
      OBVIOUS
    <2>. QED  BY <1>9, <1>12, <2>1, CountOfList
  <1>14. \A i \in 1 .. n : s[i] \in Nodes /\ CountDefinitions(s[i]) \in Nat
    <2> TAKE i \in 1 .. n
    <2>1. s[i] \in Nodes
      BY <1>2
    <2>. QED  BY <2>1, CountDefinitionsFacts
  <1> DEFINE N(y) == CountDefinitions(y)
  <1>15. ASSUME n = 2 PROVE N(s[2]) <= N(x)
    <2>1. N(s[2]) \in Nat
      BY <1>14, <1>15
    <2>. QED  BY <1>10, <1>11, <1>15, <2>1
  <1>16. ASSUME n = 3 PROVE N(s[2]) + N(s[3]) <= N(x)
    <2>1. N(s[2]) \in Nat /\ N(s[3]) \in Nat
      BY <1>14, <1>16
    <2>. QED  BY <1>10, <1>11, <1>12, <1>16, <2>1
  <1>17. ASSUME n = 4 PROVE N(s[2]) + N(s[3]) + N(s[4]) <= N(x)
    <2>1. N(s[2]) \in Nat /\ N(s[3]) \in Nat /\ N(s[4]) \in Nat
      BY <1>14, <1>17
    <2>2. /\ N(List(t)) <= N(x) /\ N(List(t)) = N(s[2]) + N(List(u)) /\ N(x) \in Nat
          /\ N(List(u)) = N(s[3]) + N(List(v)) /\ N(List(u)) \in Nat
          /\ N(List(v)) = N(s[4]) + N(List(Tail(v))) /\ N(List(v)) \in Nat
          /\ N(List(Tail(v))) \in Nat
      BY <1>10, <1>11, <1>12, <1>13, <1>17
    <2> HIDE DEF N
    <2>. QED  BY ONLY <2>1, <2>2
  <1>. QED  BY <1>14, <1>15, <1>16, <1>17

(* The weight of a form covers the weights of its parts.                   *)
LEMMA ItemsWeigh ==
  ASSUME IInv, Regular, NEW x \in Expressions
  PROVE  /\ Kind(x) = "if" =>
              /\ WeightAt(x, 2) \in Nat /\ WeightAt(x, 3) \in Nat /\ WeightAt(x, 4) \in Nat
              /\ WeightAt(x, 2) + (WeightAt(x, 3) + WeightAt(x, 4)) <= Weight(x)
         /\ Kind(x) = "set!" /\ Length(x) >= 3 => Weight(x.items[3]) <= Weight(x)
         /\ Kind(x) = "define" /\ Length(x) >= 3 => Weight(x.items[3]) = 0 /\ Weight(x) = 1
  <1>1. x \in Nodes /\ (Kind(x) \in Forms => x.type = "list" /\ x.items \in Seq(Nodes)
                                               /\ Length(x) = Len(x.items) /\ Len(x.items) \in Nat)
    <2>1. x \in Nodes
      BY ExpressionFacts
    <2>2. Kind(x) \in Forms => x.type = "list" /\ x.items \in Seq(Nodes) /\ Length(x) = Len(x.items)
      BY <2>1, FormIsPair
    <2>3. x.items \in Seq(Nodes) => Len(x.items) \in Nat
      OBVIOUS
    <2>. QED  BY <2>1, <2>2, <2>3
  <1>2. ASSUME Kind(x) = "if"
        PROVE  /\ WeightAt(x, 2) \in Nat /\ WeightAt(x, 3) \in Nat /\ WeightAt(x, 4) \in Nat
               /\ WeightAt(x, 2) + (WeightAt(x, 3) + WeightAt(x, 4)) <= Weight(x)
    <2>1. PICK s : s = x.items
      OBVIOUS
    <2>2. Length(x) = Len(s) /\ Len(s) \in Nat /\ s \in Seq(Nodes)
      BY <1>1, <1>2, <2>1 DEF Forms
    <2>3. \A i \in 2 .. 4 : i <= Len(s) =>
            /\ s[i] \in Range(Immediate(x)) /\ s[i] \in Nodes /\ s[i] \in Expressions
      BY <1>1, <1>2, <2>1, <2>2, ItemsAreParts, ExpressionFacts
    <2>4. \A i \in 2 .. 4 : WeightAt(x, i) = IF Len(s) < i THEN 0 ELSE Weight(s[i])
      BY <2>1, <2>2 DEF WeightAt
    <2>5. \A i \in 2 .. 4 : i <= Len(s) =>
            /\ Weight(s[i]) \in Nat /\ CountDefinitions(s[i]) \in Nat
            /\ Weight(s[i]) <= CountDefinitions(s[i])
      BY <2>3, WeightFacts
    <2>6. \A i \in 2 .. 4 : WeightAt(x, i) \in Nat
      BY <2>2, <2>4, <2>5
    <2>7. Weight(x) \in Nat
      BY <1>1, WeightFacts
    <2>8. CASE Definitions(x) = {}
      <3>1. \A i \in 2 .. 4 : WeightAt(x, i) = 0
        <4> TAKE i \in 2 .. 4
        <4>1. CASE i <= Len(s)
          BY <1>1, <2>3, <2>2, <2>4, <2>8, <4>1, WeightFacts
        <4>2. CASE ~ (i <= Len(s))
          BY <2>2, <2>4, <4>2
        <4>. QED  BY <4>1, <4>2
      <3>. QED  BY <2>6, <2>7, <3>1
    <2>9. CASE Definitions(x) # {}
      <3>1. Weight(x) = CountDefinitions(x)
        BY <2>9 DEF Weight
      <3>2. \A i \in 2 .. 4 : i <= Len(s) => s[i] \notin FormNames
        BY <2>3, NoFormNames
      <3>3. \A n \in 2 .. 4 : Len(s) >= n => \A i \in 2 .. n : s[i] \notin FormNames
        BY <2>2, <3>2
      <3>4. CASE Len(s) < 2
        BY <2>2, <2>4, <2>7, <3>4
      <3>5. CASE Len(s) = 2
        <4>1. CountDefinitions(s[2]) <= CountDefinitions(x)
          BY <1>2, <2>1, <3>3, <3>5, ItemsCounted
        <4>2. WeightAt(x, 2) <= CountDefinitions(s[2]) /\ WeightAt(x, 3) = 0 /\ WeightAt(x, 4) = 0
          BY <2>4, <2>5, <3>5
        <4>. QED  BY <2>5, <2>6, <2>7, <3>1, <3>5, <4>1, <4>2
      <3>6. CASE Len(s) = 3
        <4>1. CountDefinitions(s[2]) + CountDefinitions(s[3]) <= CountDefinitions(x)
          BY <1>2, <2>1, <3>3, <3>6, ItemsCounted
        <4>2. /\ WeightAt(x, 2) <= CountDefinitions(s[2])
              /\ WeightAt(x, 3) <= CountDefinitions(s[3]) /\ WeightAt(x, 4) = 0
          BY <2>4, <2>5, <3>6
        <4>. QED  BY <2>5, <2>6, <2>7, <3>1, <3>6, <4>1, <4>2
      <3>7. CASE Len(s) >= 4
        <4>1. CountDefinitions(s[2]) + CountDefinitions(s[3]) + CountDefinitions(s[4])
                <= CountDefinitions(x)
          BY <1>2, <2>1, <3>3, <3>7, ItemsCounted
        <4>2. /\ WeightAt(x, 2) <= CountDefinitions(s[2])
              /\ WeightAt(x, 3) <= CountDefinitions(s[3])
              /\ WeightAt(x, 4) <= CountDefinitions(s[4])
          BY <2>2, <2>4, <2>5, <3>7
        <4>. QED  BY <2>2, <2>5, <2>6, <2>7, <3>1, <3>7, <4>1, <4>2
      <3>. QED  BY <2>2, <3>4, <3>5, <3>6, <3>7
    <2>. QED  BY <2>6, <2>8, <2>9
  <1>3. ASSUME Kind(x) \in {"set!", "define"}, Length(x) >= 3
        PROVE  /\ x.items[3] \in Range(Immediate(x)) /\ x.items[3] \in Nodes
               /\ x.items[3] \in Expressions /\ x.type = "list" /\ 3 \in 1 .. Len(x.items)
    <2>1. x.items[3] \in Range(Immediate(x))
      BY <1>1, <1>3, ItemsAreParts
    <2>2. x.items[3] \in Expressions /\ x.items[3] \in Nodes
      BY <2>1, ExpressionFacts
    <2>. QED  BY <1>1, <1>3, <2>1, <2>2 DEF Forms
  <1>4. ASSUME Kind(x) = "set!", Length(x) >= 3  PROVE Weight(x.items[3]) <= Weight(x)
    <2>1. PICK s : s = x.items
      OBVIOUS
    <2>2. s[3] \in Nodes /\ s[3] \in Range(Immediate(x)) /\ s[3] \in Expressions
      BY <1>3, <1>4, <2>1
    <2>3. /\ Weight(s[3]) \in Nat /\ CountDefinitions(s[3]) \in Nat /\ Weight(x) \in Nat
          /\ Weight(s[3]) <= CountDefinitions(s[3])
      BY <1>1, <2>2, WeightFacts
    <2>4. CASE Definitions(x) = {}
      BY <1>1, <2>1, <2>2, <2>3, <2>4, WeightFacts
    <2>5. CASE Definitions(x) # {}
      <3>1. Weight(x) = CountDefinitions(x)
        BY <2>5 DEF Weight
      <3>2. Len(s) >= 3
        BY <1>1, <1>4, <2>1 DEF Forms
      <3>3. \A i \in 2 .. 3 : s[i] \notin FormNames
        <4>1. s[2] \notin FormNames /\ s[3] \notin FormNames
          BY <1>4, <2>1, <2>2, NoFormNames
        <4>2. \A i \in 2 .. 3 : i = 2 \/ i = 3
          OBVIOUS
        <4>. QED  BY <4>1, <4>2
      <3>4. /\ CountDefinitions(s[2]) \in Nat
            /\ CountDefinitions(s[2]) + CountDefinitions(s[3]) <= CountDefinitions(x)
        <4>1. PICK n \in 1 .. 4 : n = 3
          OBVIOUS
        <4>2. Kind(x) \in {"if", "set!"} /\ Len(s) >= n /\ \A i \in 2 .. n : s[i] \notin FormNames
          BY <1>4, <3>2, <3>3, <4>1
        <4>3. 2 \in 1 .. n
          BY <4>1
        <4>. QED  BY <2>1, <4>1, <4>2, <4>3, ItemsCounted
      <3>. QED  BY <2>1, <2>3, <3>1, <3>4
    <2>. QED  BY <2>4, <2>5
  <1>5. ASSUME Kind(x) = "define", Length(x) >= 3
        PROVE  Weight(x.items[3]) = 0 /\ Weight(x) = 1
    <2>1. PICK y : y = x.items[3]
      OBVIOUS
    <2>2. y \in Range(Immediate(x)) /\ y \in Nodes /\ Size(y) < Size(x)
      BY <1>1, <1>3, <1>5, <2>1, ItemsInside
    <2>3. Definitions(x) = {x}
      BY <1>5, NoFormNames
    <2>4. Definitions(y) \subseteq {x} /\ Definitions(y) \subseteq NodesOf(y)
      BY <1>1, <2>2, <2>3, DefinitionsFacts, DefinitionsInside
    <2>5. x \notin NodesOf(y)
      <3> SUFFICES ASSUME x \in NodesOf(y) PROVE FALSE
        OBVIOUS
      <3>1. NodesOf(x) \subseteq NodesOf(y)
        BY <2>2, NodesOfNodes
      <3>2. IsFiniteSet(NodesOf(y))
        BY <2>2, NodesAssumption
      <3>3. Size(x) <= Size(y)
        BY <3>1, <3>2, FS_Subset DEF Size
      <3>4. Size(x) \in Nat /\ Size(y) \in Nat
        BY <1>1, <2>2, PairFacts
      <3>. QED  BY <2>2, <3>3, <3>4
    <2>6. Definitions(y) = {}
      BY <2>4, <2>5
    <2>7. CountDefinitions(x) = 1
      <3>1. Tagged(x, "define") /\ Head(x.items) = Identifier("define")
        BY <1>1, <1>5, FormIsTagged DEF Forms
      <3>2. ~ Tagged(x, "lambda") /\ IsPair(x)
        BY <3>1 DEF Tagged, Identifier
      <3>. QED  BY <1>1, <3>1, <3>2, CountDefinitionsFacts
    <2>. QED  BY <2>1, <2>3, <2>6, <2>7 DEF Weight
  <1>. QED  BY <1>2, <1>4, <1>5

(* The weight of a sequence of expressions is enough for them.             *)
LEMMA PartsCarried ==
  ASSUME IInv, Regular, NEW x \in Expressions, Kind(x) \in {"begin", "application"}
  PROVE  \E a \in Nat : a <= Weight(x) /\ Carries(Immediate(x), a)
  <1>1. x \in Nodes /\ x.items \in Seq(Nodes) /\ x.items # <<>> /\ x = List(x.items)
        /\ Immediate(x) \in Seq(Nodes)
    <2>1. x \in Nodes
      BY ExpressionFacts
    <2>2. x.type = "list" /\ x.items \in Seq(Nodes) /\ x.items # <<>>
      BY <2>1, FormIsPair DEF Forms
    <2>. QED  BY <2>1, <2>2, PairFacts, PartsSequence
  <1>2. Weight(x) \in Nat
    BY <1>1, WeightFacts
  <1>3. CASE Definitions(x) = {}
    <2>1. \A i \in 1 .. Len(Immediate(x)) : Weight(Immediate(x)[i]) = 0
      BY <1>1, <1>3, WeightFacts, Elements
    <2>2. Carries(Immediate(x), 0)
      BY <1>1, <2>1, CarriesNone
    <2>. QED  BY <1>2, <2>2
  <1>4. CASE Definitions(x) # {}
    <2>1. PICK s, h, t : s = x.items /\ h = Head(s) /\ t = Tail(s)
      OBVIOUS
    <2>2. /\ s \in Seq(Nodes) /\ s # <<>> /\ x = List(s) /\ h \in Nodes /\ t \in Seq(Nodes)
          /\ List(t) \in Nodes
      <3>1. s \in Seq(Nodes) /\ s # <<>> /\ x = List(s)
        BY <1>1, <2>1
      <3>2. h \in Nodes /\ t \in Seq(Nodes)
        BY <2>1, <3>1, TailFacts
      <3>3. IsPair(x) /\ x.items = s
        BY <1>1, <2>1, <3>1 DEF IsPair, List
      <3>4. List(t) \in Nodes
        BY <1>1, <2>1, <3>3, PairFacts
      <3>. QED  BY <3>1, <3>2, <3>4
    <2>3. Weight(x) = CountDefinitions(x)
      BY <1>4 DEF Weight
    <2>4. Immediate(x) = IF Kind(x) = "begin" THEN t ELSE <<h>> \o Reverse(t)
      BY <2>1 DEF Immediate
    <2>5. h \notin FormNames
      <3>1. CASE Kind(x) = "begin"
        <4>1. h = Identifier("begin")
          BY <1>1, <2>1, <3>1, FormIsTagged DEF Forms
        <4>. QED  BY <4>1, NoFormNames
      <3>2. CASE Kind(x) = "application"
        <4>1. 1 \in 1 .. Length(x) /\ h = x.items[1]
          <5>1. Length(x) = Len(s) /\ Len(s) \in Nat /\ Len(s) # 0
            BY <1>1, <2>1, <2>2, <3>2, FormIsPair
          <5>2. h = s[1]
            BY <2>1, <2>2, TailFacts
          <5>. QED  BY <2>1, <5>1, <5>2
        <4>2. h \in Range(Immediate(x))
          BY <1>1, <3>2, <4>1, ItemsAreParts
        <4>. QED  BY <4>2, ExpressionFacts, NoFormNames
      <3>. QED  BY <3>1, <3>2
    <2>6. \A i \in 1 .. Len(t) : t[i] \notin FormNames
      <3>1. ASSUME NEW i \in 1 .. Len(t)  PROVE t[i] \in Range(Immediate(x))
        <4>1. CASE Kind(x) = "begin"
          BY <2>2, <2>4, <4>1, Elements
        <4>2. CASE Kind(x) = "application"
          <5>1. Length(x) = Len(s) /\ t[i] = s[i + 1] /\ i + 1 \in 1 .. Len(s)
            <6>1. Length(x) = Len(s)
              BY <1>1, <2>1, <4>2, FormIsPair
            <6>2. /\ Len(s) \in Nat /\ Len(t) = Len(s) - 1
                  /\ \A j \in 1 .. Len(t) : t[j] = s[j + 1]
              BY <2>1, <2>2, TailFacts
            <6>. QED  BY <6>1, <6>2
          <5>. QED  BY <1>1, <2>1, <4>2, <5>1, ItemsAreParts
        <4>. QED  BY <4>1, <4>2
      <3>. QED  BY <3>1, ExpressionFacts, NoFormNames
    <2>7. /\ CountDefinitions(h) \in Nat /\ CountDefinitions(List(t)) \in Nat
          /\ CountDefinitions(x) = CountDefinitions(h) + CountDefinitions(List(t))
      <3>1. List(s) \in Nodes /\ s \in Seq(Nodes) /\ s # <<>> /\ Head(s) \notin FormNames
        BY <1>1, <2>1, <2>2, <2>5
      <3>2. /\ CountDefinitions(Head(s)) \in Nat /\ CountDefinitions(List(Tail(s))) \in Nat
            /\ CountDefinitions(List(s)) =
                 CountDefinitions(Head(s)) + CountDefinitions(List(Tail(s)))
        BY <3>1, CountOfList
      <3>. QED  BY <2>1, <2>2, <3>2, Zenon
    <2>8. Carries(t, CountDefinitions(List(t)))
      BY <2>2, <2>6, CarriesList
    <2>9. CASE Kind(x) = "begin"
      BY <2>3, <2>4, <2>7, <2>8, <2>9
    <2>10. CASE Kind(x) = "application"
      <3>1. \A i \in 1 .. Len(t) : Weight(t[i]) \in Nat
        BY <2>2, WeightFacts
      <3>2. Reverse(t) \in Seq(Nodes) /\ Carries(Reverse(t), CountDefinitions(List(t)))
        BY <2>2, <2>7, <2>8, <3>1, CarriesReversed, Elements
      <3>3. Carries(<<h>> \o Reverse(t), CountDefinitions(h) + CountDefinitions(List(t)))
        BY <2>2, <2>7, <3>2, WeightFacts, CarriesMore
      <3>. QED  BY <2>3, <2>4, <2>7, <2>10, <3>3
    <2>. QED  BY <2>9, <2>10
  <1>. QED  BY <1>3, <1>4

(* What countDefinitions counts in a body is enough for the body.          *)
LEMMA BodyCarried ==
  ASSUME IInv, Regular, NEW x \in Expressions, Kind(x) = "lambda", LambdaFormed(x)
  PROVE  /\ CountDefinitions(List(BodyOf(x))) \in Nat
         /\ Carries(BodyOf(x), CountDefinitions(List(BodyOf(x))))
  <1>1. x \in Nodes
    BY ExpressionFacts
  <1>2. PICK s, t : s = x.items /\ t = Tail(s)
    OBVIOUS
  <1>3. /\ x.type = "list" /\ s \in Seq(Nodes) /\ Len(s) >= 2 /\ x = List(s)
        /\ t \in Seq(Nodes) /\ t # <<>> /\ s # <<>>
    <2>1. x.type = "list" /\ s \in Seq(Nodes) /\ Length(x) = Len(s)
      BY <1>1, <1>2, FormIsPair DEF Forms
    <2>2. Len(s) >= 2 /\ x = List(s)
      BY <1>1, <1>2, <2>1, PairFacts DEF LambdaFormed
    <2>. QED  BY <1>2, <2>1, <2>2, LongSequence
  <1>4. List(t) \in Nodes /\ IsPair(x)
    BY <1>1, <1>2, <1>3, PairFacts DEF IsPair
  <1>5. List(Tail(t)) \in Nodes /\ Tail(t) \in Seq(Nodes)
    <2>1. PICK y : y = List(t)
      OBVIOUS
    <2>2. y.items = t /\ IsPair(y) /\ y \in Nodes
      BY <1>3, <1>4, <2>1 DEF List, IsPair
    <2>. QED  BY <1>3, <2>2, PairFacts, TailFacts
  <1>6. BodyOf(x) = Tail(t) /\ BodyParts(x) = Tail(t)
    BY <1>2 DEF BodyOf, BodyParts
  <1>7. \A i \in 1 .. Len(Tail(t)) : Tail(t)[i] \notin FormNames
    BY <1>5, <1>6, ExpressionFacts, Elements, NoFormNames
  <1>. QED  BY <1>5, <1>6, <1>7, CountDefinitionsFacts, CarriesList

-----------------------------------------------------------------------------
(* What is still added to the current environment.                         *)

(* At most so many bindings are added by a task.                           *)
Adds(s) ==
  CASE s.do = "gen"         -> Weight(s.exp)
    [] s.do = "bind"        -> 1
    [] s.do = "consequent"  -> WeightAt(s.exp, 3) + WeightAt(s.exp, 4)
    [] s.do = "alternative" -> WeightAt(s.exp, 4)
    [] OTHER                -> 0

(* A task leads from what is enough for it and its successors to what is   *)
(* enough for them.                                                        *)
Counts == {q \in AnyTask \X Nat \X Nat : Adds(q[1]) + q[3] <= q[2]}

(* n is enough for ts, whatever comes after.                               *)
Loads(ts, n) == \A b \in Nat : \E a \in Nat : a <= n + b /\ Path(Counts, Nat, ts, a, b)

(* The tasks that the handlers make are tasks.                             *)
LEMMA AnyTaskFacts ==
  /\ \A x \in Nodes : Gen(x) \in AnyTask
  /\ \A x \in Longer(3) : Bind(x) \in AnyTask /\ Assign(x) \in AnyTask /\ Alternative(x) \in AnyTask
  /\ \A x \in Longer(2) : Consequent(x) \in AnyTask
  /\ \A ls \in Seq(Common) : Emit(ls) \in AnyTask
  /\ \A xs \in Seq(Nodes) : GenAll(xs) \in Seq(AnyTask) /\ GenAllReversed(xs) \in Seq(AnyTask)
  <1>1. \A s \in Tasks(0) : s \in AnyTask
    BY DEF AnyTask
  <1>2. Tasks(0) \subseteq AnyTask
    BY <1>1
  <1>3. \A ts \in Seq(Tasks(0)) : ts \in Seq(AnyTask)
    BY <1>2, SeqMonotonic, Zenon
  <1> HIDE DEF AnyTask, Tasks, Longer, Common
  <1>. QED  BY <1>1, <1>3, TaskFacts

(* A task adds a number of bindings.                                       *)
LEMMA AddsFacts ==
  ASSUME NEW s \in AnyTask
  PROVE  Adds(s) \in Nat
  <1>1. PICK k \in Nat : s \in Tasks(k)
    BY DEF AnyTask
  <1>2. \A x \in Nodes : Weight(x) \in Nat
    BY WeightFacts
  <1>3. ASSUME NEW x \in Nodes, NEW n \in 3 .. 4  PROVE WeightAt(x, n) \in Nat
    <2>1. Length(x) \in Nat
      BY NodeFacts
    <2>2. CASE Length(x) >= n
      <3>1. x \in Longer(n) /\ n \in 1 .. 4
        BY <2>2, NodeFacts
      <3>2. x.items[n] \in Nodes
        BY <3>1, ItemFacts
      <3>. QED  BY <1>2, <2>1, <2>2, <3>2 DEF WeightAt
    <2>3. CASE ~ (Length(x) >= n)
      BY <2>1, <2>3 DEF WeightAt
    <2>. QED  BY <2>2, <2>3
  <1>4. s.do \in {"gen", "consequent", "alternative"} => s.exp \in Nodes
    BY <1>1 DEF Tasks, Longer
  <1>5. s.do \in {"gen", "consequent", "alternative"} =>
          /\ Weight(s.exp) \in Nat
          /\ WeightAt(s.exp, 3) \in Nat /\ WeightAt(s.exp, 4) \in Nat
    BY <1>2, <1>3, <1>4
  <1>. QED  BY <1>5 DEF Adds

(* Nothing loads nothing.                                                  *)
LEMMA LoadsNone ==
  ASSUME NEW n \in Nat
  PROVE  Loads(<<>>, n)
  <1>1. ASSUME NEW b \in Nat  PROVE b <= n + b /\ Path(Counts, Nat, <<>>, b, b)
    BY EmptyPath
  <1>. QED  BY <1>1 DEF Loads

(* One task loads what it adds.                                            *)
LEMMA LoadsOne ==
  ASSUME NEW s \in AnyTask, NEW n \in Nat, Adds(s) <= n
  PROVE  Loads(<<s>>, n)
  <1>1. ASSUME NEW b \in Nat
        PROVE  n + b \in Nat /\ n + b <= n + b /\ Path(Counts, Nat, <<s>>, n + b, b)
    <2>1. n + b \in Nat /\ Adds(s) + b <= n + b
      BY AddsFacts
    <2>2. <<s, n + b, b>> \in Counts
      <3> HIDE DEF AnyTask
      <3>. QED  BY <2>1 DEF Counts
    <2>. QED  BY <2>1, <2>2, ShortPath
  <1>. QED  BY <1>1 DEF Loads

(* Tasks load together what they load.                                     *)
LEMMA LoadsJoined ==
  ASSUME NEW ts \in Seq(AnyTask), NEW us \in Seq(AnyTask), NEW n \in Nat, NEW m \in Nat,
         Loads(ts, n), Loads(us, m), NEW k \in Nat, n + m <= k
  PROVE  Loads(ts \o us, k)
  <1> SUFFICES ASSUME NEW b \in Nat
               PROVE  \E a \in Nat : a <= k + b /\ Path(Counts, Nat, ts \o us, a, b)
    BY DEF Loads
  <1>1. PICK c \in Nat : c <= m + b /\ Path(Counts, Nat, us, c, b)
    BY DEF Loads
  <1>2. PICK a \in Nat : a <= n + c /\ Path(Counts, Nat, ts, a, c)
    BY DEF Loads
  <1>3. Path(Counts, Nat, ts \o us, a, b)
    <2> HIDE DEF AnyTask
    <2>. QED  BY <1>1, <1>2, PathsJoin
  <1>4. a <= k + b
    BY <1>1, <1>2
  <1>. QED  BY <1>3, <1>4

(* What carries expressions is enough for generating them.                 *)
LEMMA LoadsAll ==
  ASSUME NEW xs \in Seq(Nodes), NEW n \in Nat, Carries(xs, n)
  PROVE  Loads(GenAll(xs), n)
  <1> SUFFICES ASSUME NEW b \in Nat
               PROVE  \E a \in Nat : a <= n + b /\ Path(Counts, Nat, GenAll(xs), a, b)
    BY DEF Loads
  <1>1. PICK k \in Nat : k = Len(xs)
    OBVIOUS
  <1>2. PICK c \in [1 .. (k + 1) -> 0 .. n] :
          c[1] = n /\ c[k + 1] = 0 /\ \A i \in 1 .. k : Weight(xs[i]) + c[i + 1] <= c[i]
    BY <1>1 DEF Carries
  <1>3. PICK ts : ts = GenAll(xs)
    OBVIOUS
  <1>4. Len(ts) = k /\ \A i \in 1 .. k : ts[i] = Gen(xs[i])
    BY <1>1, <1>3 DEF GenAll
  <1>5. PICK d : d = [i \in 1 .. (k + 1) |-> c[i] + b]
    OBVIOUS
  <1>6. d \in [1 .. (k + 1) -> Nat] /\ d[1] = n + b /\ d[k + 1] = b
    <2>1. \A i \in 1 .. (k + 1) : c[i] \in Nat /\ c[i] + b \in Nat
      BY <1>2
    <2>2. 1 \in 1 .. (k + 1) /\ k + 1 \in 1 .. (k + 1)
      OBVIOUS
    <2>. QED  BY <1>2, <1>5, <2>1, <2>2
  <1>7. ASSUME NEW i \in 1 .. k  PROVE <<ts[i], d[i], d[i + 1]>> \in Counts
    <2>1. i \in 1 .. (k + 1) /\ i + 1 \in 1 .. (k + 1)
      OBVIOUS
    <2>2. xs[i] \in Nodes
      BY <1>1
    <2>3. Gen(xs[i]) \in AnyTask /\ Weight(xs[i]) \in Nat /\ Adds(Gen(xs[i])) = Weight(xs[i])
      BY <2>2, AnyTaskFacts, WeightFacts DEF Adds, Gen
    <2>4. c[i] \in Nat /\ c[i + 1] \in Nat /\ Weight(xs[i]) + c[i + 1] <= c[i]
      BY <1>2, <2>1
    <2>5. d[i] = c[i] + b /\ d[i + 1] = c[i + 1] + b
      BY <1>5, <2>1
    <2>6. Adds(ts[i]) + d[i + 1] <= d[i] /\ d[i] \in Nat /\ d[i + 1] \in Nat
      <3>1. Adds(ts[i]) = Weight(xs[i])
        BY <1>4, <2>3, Zenon
      <3>2. Weight(xs[i]) \in Nat
        BY <2>3
      <3>. QED  BY ONLY <2>4, <2>5, <3>1, <3>2, b \in Nat
    <2> HIDE DEF AnyTask
    <2>. QED  BY <1>4, <2>3, <2>6 DEF Counts
  <1>8. Path(Counts, Nat, ts, n + b, b)
    BY <1>4, <1>6, <1>7 DEF Path
  <1>. QED  BY <1>3, <1>8

-----------------------------------------------------------------------------
(* The names in what is still to be generated.                             *)

(* The names of two parts, the first of which has the names a.             *)
Followed(a, b) ==
  Names(a.used \cup (b.used \ a.defined), a.defined \cup b.defined, a.closed \cup b.closed)

NoNames == Names({}, {}, {})

NamesAt(x, n, b) == IF Length(x) < n THEN b ELSE Followed(NamesIn(x.items[n]), b)

(* The names of a task that is followed by what has the names b.           *)
NamesFrom(s, b) ==
  CASE s.do = "gen"         -> Followed(NamesIn(s.exp), b)
    [] s.do = "bind"        -> Followed(Names({}, {s.exp.items[2].identifier}, {}), b)
    [] s.do = "assign"      -> Followed(Names({s.exp.items[2].identifier}, {}, {}), b)
    [] s.do = "consequent"  -> NamesAt(s.exp, 3, NamesAt(s.exp, 4, b))
    [] s.do = "alternative" -> NamesAt(s.exp, 4, b)
    [] OTHER                -> b

Uses == {q \in AnyTask \X NameSets \X NameSets : q[2] = NamesFrom(q[1], q[3])}

(* With ts before it, what has the names b has the names a.                *)
Turns(ts, a, b) == Path(Uses, NameSets, ts, a, b)

(* Names before names are names.                                           *)
LEMMA FollowedFacts ==
  ASSUME NEW a \in NameSets, NEW b \in NameSets
  PROVE  /\ Followed(a, b) \in NameSets
         /\ Followed(NoNames, b) = b /\ Followed(a, NoNames) = a
         /\ NoNames \in NameSets
         /\ Followed(a, b).used = a.used \cup (b.used \ a.defined)
         /\ Followed(a, b).defined = a.defined \cup b.defined
         /\ Followed(a, b).closed = a.closed \cup b.closed
  <1>1. /\ a = [used |-> a.used, defined |-> a.defined, closed |-> a.closed]
        /\ b = [used |-> b.used, defined |-> b.defined, closed |-> b.closed]
        /\ a.used \subseteq Identifiers /\ a.defined \subseteq Identifiers
        /\ a.closed \subseteq Identifiers /\ b.used \subseteq Identifiers
        /\ b.defined \subseteq Identifiers /\ b.closed \subseteq Identifiers
    <2> HIDE DEF Identifiers
    <2>. QED  BY DEF NameSets
  <1>2. \A u, d, c : u \subseteq Identifiers /\ d \subseteq Identifiers /\ c \subseteq Identifiers =>
                       Names(u, d, c) \in NameSets
    <2> HIDE DEF Identifiers
    <2>. QED  BY DEF Names, NameSets
  <1>3. Followed(a, b) \in NameSets
    <2> HIDE DEF Identifiers
    <2>. QED  BY <1>1, <1>2 DEF Followed
  <1>4. NoNames \in NameSets
    BY <1>2 DEF NoNames
  <1>5. Followed(NoNames, b) = b
    <2>1. {} \cup (b.used \ {}) = b.used /\ {} \cup b.defined = b.defined
            /\ {} \cup b.closed = b.closed
      OBVIOUS
    <2>2. NoNames.used = {} /\ NoNames.defined = {} /\ NoNames.closed = {}
      BY DEF NoNames, Names
    <2>. QED  BY <1>1, <2>1, <2>2 DEF Followed, Names
  <1>6. Followed(a, NoNames) = a
    <2>1. a.used \cup ({} \ a.defined) = a.used /\ a.defined \cup {} = a.defined
            /\ a.closed \cup {} = a.closed
      OBVIOUS
    <2>2. NoNames.used = {} /\ NoNames.defined = {} /\ NoNames.closed = {}
      BY DEF NoNames, Names
    <2>. QED  BY <1>1, <2>1, <2>2 DEF Followed, Names
  <1>. QED  BY <1>3, <1>4, <1>5, <1>6 DEF Followed, Names

(* What a task refers to is made of names.                                 *)
LEMMA NamesFromType ==
  ASSUME NEW s \in AnyTask, NEW b \in NameSets
  PROVE  NamesFrom(s, b) \in NameSets
  <1>1. PICK k \in Nat : s \in Tasks(k)
    BY DEF AnyTask
  <1>2. \A x \in Nodes, c \in NameSets : Followed(NamesIn(x), c) \in NameSets
    BY NamesFacts, FollowedFacts
  <1>3. ASSUME NEW x \in Nodes, NEW n \in 3 .. 4, NEW c \in NameSets
        PROVE  NamesAt(x, n, c) \in NameSets
    <2>1. Length(x) \in Nat
      BY NodeFacts
    <2>2. CASE Length(x) >= n
      <3>1. x \in Longer(n) /\ n \in 1 .. 4
        BY <2>2, NodeFacts
      <3>2. x.items[n] \in Nodes
        BY <3>1, ItemFacts
      <3>. QED  BY <1>2, <2>1, <2>2, <3>2 DEF NamesAt
    <2>3. CASE ~ (Length(x) >= n)
      BY <2>1, <2>3 DEF NamesAt
    <2>. QED  BY <2>2, <2>3
  <1>4. /\ s.do \in {"gen", "consequent", "alternative"} => s.exp \in Nodes
        /\ s.do \in {"bind", "assign"} => s.exp \in Longer(3)
    BY <1>1 DEF Tasks, Longer
  <1>5. s.do \in {"bind", "assign"} => s.exp.items[2].identifier \in Identifiers
    BY <1>4, ItemFacts DEF Identifiers
  <1>6. s.do \in {"bind", "assign"} =>
          /\ Names({}, {s.exp.items[2].identifier}, {}) \in NameSets
          /\ Names({s.exp.items[2].identifier}, {}, {}) \in NameSets
    <2> HIDE DEF Identifiers
    <2>. QED  BY <1>5 DEF Names, NameSets
  <1>7. s.do \in {"bind", "assign"} =>
          /\ Followed(Names({}, {s.exp.items[2].identifier}, {}), b) \in NameSets
          /\ Followed(Names({s.exp.items[2].identifier}, {}, {}), b) \in NameSets
    BY <1>6, FollowedFacts
  <1>8. s.do \in {"gen", "consequent", "alternative"} =>
          /\ Followed(NamesIn(s.exp), b) \in NameSets
          /\ NamesAt(s.exp, 3, NamesAt(s.exp, 4, b)) \in NameSets
          /\ NamesAt(s.exp, 4, b) \in NameSets
    BY <1>2, <1>3, <1>4
  <1>. QED  BY <1>7, <1>8 DEF NamesFrom

(* One task turns names as it says.                                        *)
LEMMA TurnsOne ==
  ASSUME NEW s \in AnyTask, NEW b \in NameSets
  PROVE  Turns(<<s>>, NamesFrom(s, b), b)
  <1>1. PICK a \in NameSets : a = NamesFrom(s, b)
    BY NamesFromType
  <1>2. <<s, a, b>> \in Uses
    <2> HIDE DEF AnyTask, NameSets
    <2>. QED  BY <1>1 DEF Uses
  <1>3. Path(Uses, NameSets, <<s>>, a, b)
    BY <1>1, <1>2, ShortPath
  <1>. QED  BY <1>1, <1>3 DEF Turns

(* Tasks turn names one after the other.                                   *)
LEMMA TurnsJoined ==
  ASSUME NEW ts \in Seq(AnyTask), NEW us \in Seq(AnyTask), NEW a, NEW b, NEW c,
         Turns(ts, a, b), Turns(us, b, c)
  PROVE  Turns(ts \o us, a, c)
  <1> HIDE DEF AnyTask
  <1>. QED  BY PathsJoin DEF Turns

(* An emission leaves names as they are, and so does nothing.              *)
LEMMA TurnsNone ==
  ASSUME NEW b \in NameSets
  PROVE  /\ Turns(<<>>, b, b)
         /\ \A ls \in Seq(Common) : Turns(<<Emit(ls)>>, b, b)
  <1>1. Turns(<<>>, b, b)
    BY EmptyPath DEF Turns
  <1>2. ASSUME NEW ls \in Seq(Common)  PROVE Turns(<<Emit(ls)>>, b, b)
    <2>1. Emit(ls) \in AnyTask /\ NamesFrom(Emit(ls), b) = b
      BY AnyTaskFacts DEF NamesFrom, Emit
    <2>. QED  BY <2>1, TurnsOne
  <1>. QED  BY <1>1, <1>2

(* The names of parts in their order are those of each before the others.  *)
LEMMA Folds ==
  ASSUME NEW ns \in Seq(NameSets), NEW b \in NameSets
  PROVE  \E c \in [1 .. (Len(ns) + 1) -> NameSets] :
           /\ c[1] = Followed(InOrder(ns), b) /\ c[Len(ns) + 1] = b
           /\ \A i \in 1 .. Len(ns) : c[i] = Followed(ns[i], c[i + 1])
  <1>1. PICK n \in Nat : n = Len(ns)
    OBVIOUS
  <1>2. \A i \in 1 .. n : /\ ns[i].used \subseteq Identifiers
                          /\ ns[i].defined \subseteq Identifiers
                          /\ ns[i].closed \subseteq Identifiers
    <2>1. \A i \in 1 .. n : ns[i] \in NameSets
      BY <1>1
    <2>. QED  BY <2>1 DEF NameSets
  <1>3. /\ b = [used |-> b.used, defined |-> b.defined, closed |-> b.closed]
        /\ b.used \subseteq Identifiers /\ b.defined \subseteq Identifiers
        /\ b.closed \subseteq Identifiers
    <2> HIDE DEF Identifiers
    <2>. QED  BY DEF NameSets
  <1> DEFINE U(i) == {v \in Identifiers :
                        \/ \E j \in i .. n : /\ v \in ns[j].used
                                             /\ \A k \in i .. (j - 1) : v \notin ns[k].defined
                        \/ v \in b.used /\ \A k \in i .. n : v \notin ns[k].defined}
             D(i) == {v \in Identifiers : v \in b.defined \/ \E j \in i .. n : v \in ns[j].defined}
             C(i) == {v \in Identifiers : v \in b.closed \/ \E j \in i .. n : v \in ns[j].closed}
             N(i) == Names(U(i), D(i), C(i))
             c == [i \in 1 .. (n + 1) |-> N(i)]
  <1> HIDE DEF Identifiers
  <1>4. c \in [1 .. (n + 1) -> NameSets] /\ \A i \in 1 .. (n + 1) : c[i] = N(i)
    <2>1. ASSUME NEW i \in 1 .. (n + 1)  PROVE N(i) \in NameSets
      <3>1. U(i) \subseteq Identifiers /\ D(i) \subseteq Identifiers /\ C(i) \subseteq Identifiers
        OBVIOUS
      <3> HIDE DEF U, D, C
      <3>. QED  BY <3>1 DEF Names, NameSets
    <2> HIDE DEF N
    <2>. QED  BY <2>1
  <1>5. N(n + 1) = b
    <2>1. (n + 1) .. n = {}
      OBVIOUS
    <2>2. U(n + 1) = b.used /\ D(n + 1) = b.defined /\ C(n + 1) = b.closed
      BY <1>3, <2>1, Zenon
    <2> HIDE DEF U, D, C
    <2>. QED  BY <1>3, <2>2 DEF Names
  <1>6. N(1) = Followed(InOrder(ns), b)
    <2> DEFINE o == InOrder(ns)
    <2>1. /\ \A v : v \in o.used <=>
                      \E j \in 1 .. n : /\ v \in ns[j].used
                                        /\ \A k \in 1 .. (j - 1) : v \notin ns[k].defined
          /\ \A v : v \in o.defined <=> \E j \in 1 .. n : v \in ns[j].defined
          /\ \A v : v \in o.closed <=> \E j \in 1 .. n : v \in ns[j].closed
      <3>1. /\ o.used = UNION {ns[i].used \ UNION {ns[j].defined : j \in 1 .. (i - 1)} : i \in 1 .. n}
            /\ o.defined = UNION {ns[i].defined : i \in 1 .. n}
            /\ o.closed = UNION {ns[i].closed : i \in 1 .. n}
        BY <1>1 DEF InOrder, Names
      <3> HIDE DEF o
      <3>2. \A v : v \in o.used <=>
                      \E j \in 1 .. n : /\ v \in ns[j].used
                                        /\ \A k \in 1 .. (j - 1) : v \notin ns[k].defined
        <4>1. \A v : v \in o.used <=>
                \E j \in 1 .. n : v \in ns[j].used \ UNION {ns[k].defined : k \in 1 .. (j - 1)}
          BY ONLY <3>1, Zenon
        <4>2. \A j, v : v \in ns[j].used \ UNION {ns[k].defined : k \in 1 .. (j - 1)} <=>
                /\ v \in ns[j].used /\ \A k \in 1 .. (j - 1) : v \notin ns[k].defined
          BY ONLY Zenon
        <4>. QED  BY ONLY <4>1, <4>2, SMTT(20)
      <3>3. /\ \A v : v \in o.defined <=> \E j \in 1 .. n : v \in ns[j].defined
            /\ \A v : v \in o.closed <=> \E j \in 1 .. n : v \in ns[j].closed
        BY ONLY <3>1, Zenon
      <3>. QED  BY <3>2, <3>3
    <2> HIDE DEF o
    <2>2. U(1) = o.used \cup (b.used \ o.defined)
      BY <1>2, <1>3, <2>1
    <2>3. D(1) = o.defined \cup b.defined
      BY <1>2, <1>3, <2>1
    <2>4. C(1) = o.closed \cup b.closed
      BY <1>2, <1>3, <2>1
    <2> HIDE DEF U, D, C
    <2>. QED  BY <2>2, <2>3, <2>4 DEF Followed, o
  <1>7. ASSUME NEW i \in 1 .. n  PROVE N(i) = Followed(ns[i], N(i + 1))
    <2>1. \A j : j \in i .. n <=> j = i \/ j \in (i + 1) .. n
      OBVIOUS
    <2>2. \A j \in (i + 1) .. n : \A k : k \in i .. (j - 1) <=> k = i \/ k \in (i + 1) .. (j - 1)
      OBVIOUS
    <2>3. \A k : k \notin i .. (i - 1)
      OBVIOUS
    <2>4. U(i) = ns[i].used \cup (U(i + 1) \ ns[i].defined)
      <3>1. \A v \in Identifiers :
              (\E j \in i .. n : /\ v \in ns[j].used
                                 /\ \A k \in i .. (j - 1) : v \notin ns[k].defined)
              <=> \/ v \in ns[i].used
                  \/ /\ v \notin ns[i].defined
                     /\ \E j \in (i + 1) .. n :
                          /\ v \in ns[j].used
                          /\ \A k \in (i + 1) .. (j - 1) : v \notin ns[k].defined
        BY ONLY <2>1, <2>2, <2>3, Zenon
      <3>2. \A v \in Identifiers :
              (\A k \in i .. n : v \notin ns[k].defined)
              <=> v \notin ns[i].defined /\ \A k \in (i + 1) .. n : v \notin ns[k].defined
        BY ONLY <2>1, Zenon
      <3>3. ns[i].used \subseteq Identifiers
        BY <1>2
      <3>. QED  BY <3>1, <3>2, <3>3
    <2>5. D(i) = ns[i].defined \cup D(i + 1)
      <3>1. ns[i].defined \subseteq Identifiers
        BY <1>2
      <3>. QED  BY ONLY <2>1, <3>1, Zenon
    <2>6. C(i) = ns[i].closed \cup C(i + 1)
      <3>1. ns[i].closed \subseteq Identifiers
        BY <1>2
      <3>. QED  BY ONLY <2>1, <3>1, Zenon
    <2> HIDE DEF U, D, C
    <2>. QED  BY <2>4, <2>5, <2>6 DEF Followed, Names
  <1>8. \A i \in 1 .. n : c[i] = Followed(ns[i], c[i + 1])
    <2>1. \A i \in 1 .. n : i \in 1 .. (n + 1) /\ i + 1 \in 1 .. (n + 1)
      OBVIOUS
    <2> HIDE DEF c, N
    <2>. QED  BY <1>4, <1>7, <2>1
  <1>9. c[1] = Followed(InOrder(ns), b) /\ c[n + 1] = b
    <2>1. 1 \in 1 .. (n + 1) /\ n + 1 \in 1 .. (n + 1)
      OBVIOUS
    <2> HIDE DEF c, N
    <2>. QED  BY <1>4, <1>5, <1>6, <2>1
  <1> HIDE DEF c
  <1>. QED  BY <1>1, <1>4, <1>8, <1>9

(* Generating expressions turns names as their names in order do.          *)
LEMMA TurnsAll ==
  ASSUME NEW xs \in Seq(Nodes), NEW b \in NameSets
  PROVE  /\ NamesOf(xs) \in Seq(NameSets) /\ InOrder(NamesOf(xs)) \in NameSets
         /\ Turns(GenAll(xs), Followed(InOrder(NamesOf(xs)), b), b)
  <1>1. PICK n \in Nat : n = Len(xs)
    OBVIOUS
  <1>2. PICK ns, ts : ns = NamesOf(xs) /\ ts = GenAll(xs)
    OBVIOUS
  <1>3. \A i \in 1 .. n : xs[i] \in Nodes
    BY <1>1
  <1>4. /\ Len(ns) = n /\ Len(ts) = n /\ ns \in Seq(NameSets)
        /\ \A i \in 1 .. n : ns[i] = NamesIn(xs[i]) /\ ts[i] = Gen(xs[i])
    <2>1. \A i \in 1 .. n : NamesIn(xs[i]) \in NameSets
      BY <1>3, NamesFacts
    <2> HIDE DEF NameSets
    <2>. QED  BY <1>1, <1>2, <2>1 DEF NamesOf, GenAll
  <1>5. PICK c \in [1 .. (n + 1) -> NameSets] :
          /\ c[1] = Followed(InOrder(ns), b) /\ c[n + 1] = b
          /\ \A i \in 1 .. n : c[i] = Followed(ns[i], c[i + 1])
    <2>1. \E c \in [1 .. (Len(ns) + 1) -> NameSets] :
            /\ c[1] = Followed(InOrder(ns), b) /\ c[Len(ns) + 1] = b
            /\ \A i \in 1 .. Len(ns) : c[i] = Followed(ns[i], c[i + 1])
      <3>1. ns \in Seq(NameSets)
        BY <1>4
      <3>. QED  BY ONLY <3>1, b \in NameSets, Folds
    <2>. QED  BY <1>4, <2>1
  <1>6. ASSUME NEW i \in 1 .. n  PROVE <<ts[i], c[i], c[i + 1]>> \in Uses
    <2>1. i \in 1 .. (n + 1) /\ i + 1 \in 1 .. (n + 1)
      OBVIOUS
    <2>2. c[i] \in NameSets /\ c[i + 1] \in NameSets
      BY <1>5, <2>1
    <2>3. ts[i] \in AnyTask
      BY <1>3, <1>4, AnyTaskFacts
    <2>4. NamesFrom(Gen(xs[i]), c[i + 1]) = Followed(NamesIn(xs[i]), c[i + 1])
      BY DEF NamesFrom, Gen
    <2>5. c[i] = NamesFrom(ts[i], c[i + 1])
      BY <1>4, <1>5, <2>4, Zenon
    <2> HIDE DEF AnyTask, NameSets
    <2>. QED  BY <2>2, <2>3, <2>5 DEF Uses
  <1>7. Turns(ts, Followed(InOrder(ns), b), b)
    BY <1>4, <1>5, <1>6 DEF Turns, Path
  <1>. QED  BY <1>2, <1>4, <1>7, InOrderType

(* Short sequences, by their elements.                                     *)
LEMMA ShortSequences ==
  ASSUME NEW S, NEW p \in S, NEW q \in S
  PROVE  /\ <<p>> \o <<q>> = <<p, q>>
         /\ \A r \in S : <<p>> \o <<q, r>> = <<p, q, r>>
  <1>1. <<p>> \o <<q>> = <<p, q>>
    <2>1. PICK u, v : u = <<p>> \o <<q>> /\ v = <<p, q>>
      OBVIOUS
    <2>2. u \in Seq(S) /\ v \in Seq(S) /\ Len(u) = 2 /\ Len(v) = 2
          /\ u[1] = p /\ u[2] = q /\ v[1] = p /\ v[2] = q
      BY <2>1
    <2>3. \A i \in 1 .. 2 : i = 1 \/ i = 2
      OBVIOUS
    <2>4. u = v
      BY <2>2, <2>3, SeqEqual
    <2>. QED  BY <2>1, <2>4
  <1>2. ASSUME NEW r \in S  PROVE <<p>> \o <<q, r>> = <<p, q, r>>
    <2>1. PICK u, v : u = <<p>> \o <<q, r>> /\ v = <<p, q, r>>
      OBVIOUS
    <2>2. u \in Seq(S) /\ v \in Seq(S) /\ Len(u) = 3 /\ Len(v) = 3
          /\ u[1] = p /\ u[2] = q /\ u[3] = r /\ v[1] = p /\ v[2] = q /\ v[3] = r
      BY <2>1
    <2>3. \A i \in 1 .. 3 : i = 1 \/ i = 2 \/ i = 3
      OBVIOUS
    <2>4. u = v
      BY <2>2, <2>3, SeqEqual
    <2>. QED  BY <2>1, <2>4
  <1>. QED  BY <1>1, <1>2

(* The second element of a sequence and some that follow it.               *)
LEMMA FromTheSecond ==
  ASSUME NEW S, NEW s \in Seq(S), Len(s) >= 2
  PROVE  /\ SubSeq(s, 2, 2) = <<s[2]>>
         /\ Len(s) >= 3 => SubSeq(s, 2, 3) = <<s[2], s[3]>>
         /\ Len(s) >= 4 => SubSeq(s, 2, 4) = <<s[2], s[3], s[4]>>
  <1>1. ASSUME NEW k \in 2 .. 4, Len(s) >= k
        PROVE  /\ SubSeq(s, 2, k) \in Seq(S) /\ Len(SubSeq(s, 2, k)) = k - 1
               /\ \A i \in 1 .. (k - 1) : SubSeq(s, 2, k)[i] = s[i + 1] /\ s[i + 1] \in S
    BY <1>1
  <1>2. SubSeq(s, 2, 2) = <<s[2]>>
    <2>1. PICK u, v : u = SubSeq(s, 2, 2) /\ v = <<s[2]>>
      OBVIOUS
    <2>2. u \in Seq(S) /\ Len(u) = 1 /\ u[1] = s[2] /\ s[2] \in S
      BY <1>1, <2>1
    <2>3. v \in Seq(S) /\ Len(v) = 1 /\ v[1] = s[2]
      BY <2>1, <2>2
    <2>4. \A i \in 1 .. 1 : i = 1
      OBVIOUS
    <2>5. u = v
      BY <2>2, <2>3, <2>4, SeqEqual
    <2>. QED  BY <2>1, <2>5
  <1>3. ASSUME Len(s) >= 3  PROVE SubSeq(s, 2, 3) = <<s[2], s[3]>>
    <2>1. PICK u, v : u = SubSeq(s, 2, 3) /\ v = <<s[2], s[3]>>
      OBVIOUS
    <2>2. /\ u \in Seq(S) /\ Len(u) = 2 /\ u[1] = s[2] /\ u[2] = s[3]
          /\ s[2] \in S /\ s[3] \in S
      BY <1>1, <1>3, <2>1
    <2>3. v \in Seq(S) /\ Len(v) = 2 /\ v[1] = s[2] /\ v[2] = s[3]
      BY <2>1, <2>2
    <2>4. \A i \in 1 .. 2 : i = 1 \/ i = 2
      OBVIOUS
    <2>5. u = v
      BY <2>2, <2>3, <2>4, SeqEqual
    <2>. QED  BY <2>1, <2>5
  <1>4. ASSUME Len(s) >= 4  PROVE SubSeq(s, 2, 4) = <<s[2], s[3], s[4]>>
    <2>1. PICK u, v : u = SubSeq(s, 2, 4) /\ v = <<s[2], s[3], s[4]>>
      OBVIOUS
    <2>2. /\ u \in Seq(S) /\ Len(u) = 3 /\ u[1] = s[2] /\ u[2] = s[3] /\ u[3] = s[4]
          /\ s[2] \in S /\ s[3] \in S /\ s[4] \in S
      BY <1>1, <1>4, <2>1
    <2>3. v \in Seq(S) /\ Len(v) = 3 /\ v[1] = s[2] /\ v[2] = s[3] /\ v[3] = s[4]
      BY <2>1, <2>2
    <2>4. \A i \in 1 .. 3 : i = 1 \/ i = 2 \/ i = 3
      OBVIOUS
    <2>5. u = v
      BY <2>2, <2>3, <2>4, SeqEqual
    <2>. QED  BY <2>1, <2>5
  <1>. QED  BY <1>2, <1>3, <1>4

(* No parts have no names.                                                 *)
LEMMA NothingInOrder == InOrder(<<>>) = NoNames
  <1>1. 1 .. Len(<<>>) = {}
    OBVIOUS
  <1>. QED  BY <1>1 DEF InOrder, NoNames

(* The names of one part.                                                  *)
LEMMA FoldOne ==
  ASSUME NEW a1 \in NameSets, NEW b \in NameSets
  PROVE  Followed(InOrder(<<a1>>), b) = Followed(a1, b)
  <1>1. PICK ns : ns = <<a1>>
    OBVIOUS
  <1>2. ns \in Seq(NameSets) /\ Len(ns) = 1 /\ ns[1] = a1
    <2> HIDE DEF NameSets
    <2>. QED  BY <1>1
  <1>3. PICK c : /\ c[1] = Followed(InOrder(ns), b) /\ c[1 + 1] = b
                 /\ \A i \in 1 .. 1 : c[i] = Followed(ns[i], c[i + 1])
    <2>1. \E c \in [1 .. (Len(ns) + 1) -> NameSets] :
            /\ c[1] = Followed(InOrder(ns), b) /\ c[Len(ns) + 1] = b
            /\ \A i \in 1 .. Len(ns) : c[i] = Followed(ns[i], c[i + 1])
      BY <1>2, Folds
    <2>. QED  BY <1>2, <2>1
  <1>4. c[1] = Followed(ns[1], c[1 + 1])
    BY <1>3
  <1>. QED  BY ONLY <1>1, <1>2, <1>3, <1>4, Zenon

(* The names of two parts, one after the other.                            *)
LEMMA FoldTwo ==
  ASSUME NEW a1 \in NameSets, NEW a2 \in NameSets, NEW b \in NameSets
  PROVE  Followed(InOrder(<<a1, a2>>), b) = Followed(a1, Followed(a2, b))
  <1>1. PICK ns : ns = <<a1, a2>>
    OBVIOUS
  <1>2. ns \in Seq(NameSets) /\ Len(ns) = 2 /\ ns[1] = a1 /\ ns[2] = a2
    <2> HIDE DEF NameSets
    <2>. QED  BY <1>1
  <1>3. PICK c : /\ c[1] = Followed(InOrder(ns), b) /\ c[2 + 1] = b
                 /\ \A i \in 1 .. 2 : c[i] = Followed(ns[i], c[i + 1])
    <2>1. \E c \in [1 .. (Len(ns) + 1) -> NameSets] :
            /\ c[1] = Followed(InOrder(ns), b) /\ c[Len(ns) + 1] = b
            /\ \A i \in 1 .. Len(ns) : c[i] = Followed(ns[i], c[i + 1])
      BY <1>2, Folds
    <2>. QED  BY <1>2, <2>1
  <1>4. /\ c[1] = Followed(ns[1], c[2])
        /\ c[2] = Followed(ns[2], c[2 + 1])
    <2>1. 1 + 1 = 2
      OBVIOUS
    <2>. QED  BY <1>3, <2>1
  <1>. QED  BY ONLY <1>1, <1>2, <1>3, <1>4, Zenon

(* The names of three parts, one after the other.                          *)
LEMMA FoldThree ==
  ASSUME NEW a1 \in NameSets, NEW a2 \in NameSets, NEW a3 \in NameSets, NEW b \in NameSets
  PROVE  Followed(InOrder(<<a1, a2, a3>>), b) = Followed(a1, Followed(a2, Followed(a3, b)))
  <1>1. PICK ns : ns = <<a1, a2, a3>>
    OBVIOUS
  <1>2. ns \in Seq(NameSets) /\ Len(ns) = 3 /\ ns[1] = a1 /\ ns[2] = a2 /\ ns[3] = a3
    <2> HIDE DEF NameSets
    <2>. QED  BY <1>1
  <1>3. PICK c : /\ c[1] = Followed(InOrder(ns), b) /\ c[3 + 1] = b
                 /\ \A i \in 1 .. 3 : c[i] = Followed(ns[i], c[i + 1])
    <2>1. \E c \in [1 .. (Len(ns) + 1) -> NameSets] :
            /\ c[1] = Followed(InOrder(ns), b) /\ c[Len(ns) + 1] = b
            /\ \A i \in 1 .. Len(ns) : c[i] = Followed(ns[i], c[i + 1])
      BY <1>2, Folds
    <2>. QED  BY <1>2, <2>1
  <1>4. /\ c[1] = Followed(ns[1], c[2])
        /\ c[2] = Followed(ns[2], c[3])
        /\ c[3] = Followed(ns[3], c[3 + 1])
    <2>1. 1 + 1 = 2 /\ 2 + 1 = 3
      OBVIOUS
    <2>. QED  BY <1>3, <2>1
  <1>. QED  BY ONLY <1>1, <1>2, <1>3, <1>4, Zenon

(* The names of a form with a fixed part.                                  *)
LEMMA NamesOfForms ==
  ASSUME NEW x \in Nodes, NEW b \in NameSets
  PROVE  /\ Kind(x) \in {"null", "integer", "string"} => Followed(NamesIn(x), b) = b
         /\ Kind(x) = "identifier" => NamesIn(x) = Names({x.identifier}, {}, {})
         /\ Kind(x) = "define" /\ x \in Longer(3) =>
              Followed(NamesIn(x), b) =
                Followed(NamesIn(x.items[3]), NamesFrom(Bind(x), b))
         /\ Kind(x) = "set!" /\ x \in Longer(3) =>
              Followed(NamesIn(x), b) =
                Followed(NamesIn(x.items[3]), NamesFrom(Assign(x), b))
         /\ Kind(x) = "if" /\ x \in Longer(2) =>
              Followed(NamesIn(x), b) =
                Followed(NamesIn(x.items[2]), NamesFrom(Consequent(x), b))
  <1>1. NamesIn(x) = Joined(x, NamesOf(Immediate(x)), NamesOf(BodyParts(x)))
    BY NamesFacts
  <1>2. ASSUME Kind(x) \in {"null", "integer", "string"}
        PROVE  Followed(NamesIn(x), b) = b
    <2>1. Immediate(x) = <<>>
      BY <1>2 DEF Immediate
    <2>2. NamesOf(<<>>) = <<>>
      BY DEF NamesOf
    <2>3. NamesIn(x) = InOrder(<<>>)
      BY <1>1, <1>2, <2>1, <2>2 DEF Joined
    <2>. QED  BY <2>3, NothingInOrder, FollowedFacts
  <1>3. Kind(x) = "identifier" => NamesIn(x) = Names({x.identifier}, {}, {})
    BY <1>1 DEF Joined
  <1>4. \A y \in Nodes : /\ Names({}, {y.identifier}, {}) \in NameSets
                         /\ Names({y.identifier}, {}, {}) \in NameSets
    <2>1. \A y \in Nodes : y.identifier \in Identifiers
      BY DEF Identifiers
    <2> HIDE DEF Identifiers
    <2>. QED  BY <2>1 DEF Names, NameSets
  <1>5. ASSUME Kind(x) \in {"define", "set!"}, x \in Longer(3)
        PROVE  Followed(NamesIn(x), b) =
                 Followed(NamesIn(x.items[3]),
                          IF Kind(x) = "define" THEN NamesFrom(Bind(x), b)
                                                ELSE NamesFrom(Assign(x), b))
    <2>1. PICK y, z : y = x.items[3] /\ z = x.items[2].identifier
      OBVIOUS
    <2>2. y \in Nodes /\ x.items[2] \in Nodes /\ Length(x) >= 3
      <3>1. x.type = "list" /\ Len(x.items) >= 3
        BY <1>5 DEF Longer
      <3>2. Length(x) >= 3
        BY <3>1 DEF Length
      <3>. QED  BY <1>5, <2>1, <3>2, ItemFacts
    <2>3. PICK a \in NameSets : a = IF Kind(x) = "define" THEN Names({}, {z}, {}) ELSE Names({z}, {}, {})
      BY <1>4, <2>1, <2>2
    <2>4. Immediate(x) = <<y>>
      <3>1. Length(x) \in Nat
        BY NodeFacts
      <3>. QED  BY <1>5, <2>1, <2>2, <3>1 DEF Immediate
    <2>5. NamesOf(<<y>>) = <<NamesIn(y)>>
      BY DEF NamesOf
    <2>n. PICK m \in NameSets : m = NamesIn(y)
      BY <2>2, NamesFacts
    <2>6. <<NamesIn(y)>> \o <<a>> = <<NamesIn(y), a>>
      BY <2>n, ShortSequences
    <2>7. NamesIn(x) = InOrder(<<m, a>>)
      <3>1. NamesIn(x) = InOrder(NamesOf(Immediate(x)) \o <<a>>)
        BY <1>1, <1>5, <2>1, <2>2, <2>3 DEF Joined
      <3>. QED  BY <2>4, <2>5, <2>6, <2>n, <3>1
    <2>8. Followed(NamesIn(x), b) = Followed(NamesIn(y), Followed(a, b))
      <3>1. Followed(InOrder(<<m, a>>), b) = Followed(m, Followed(a, b))
        BY FoldTwo
      <3>. QED  BY <2>7, <2>n, <3>1
    <2>9. /\ NamesFrom(Bind(x), b) = Followed(Names({}, {z}, {}), b)
          /\ NamesFrom(Assign(x), b) = Followed(Names({z}, {}, {}), b)
      BY <2>1 DEF NamesFrom, Bind, Assign
    <2>. QED  BY <1>5, <2>1, <2>3, <2>8, <2>9
  <1>6. ASSUME Kind(x) = "if", x \in Longer(2)
        PROVE  Followed(NamesIn(x), b) =
                Followed(NamesIn(x.items[2]), NamesFrom(Consequent(x), b))
    <2>1. PICK s : s = x.items
      OBVIOUS
    <2>2. PICK n : n = Length(x)
      OBVIOUS
    <2>3. s \in Seq(Nodes) /\ n = Len(s) /\ n \in Nat /\ n >= 2
      <3>1. x.type = "list" /\ Len(x.items) >= 2 /\ s \in Seq(Nodes) /\ Len(x.items) \in Nat
        BY <1>6, <2>1, ItemFacts DEF Longer
      <3>. QED  BY <2>1, <2>2, <3>1 DEF Length
    <2>4. /\ s[2] \in Nodes
          /\ n >= 3 => s[3] \in Nodes
          /\ n >= 4 => s[4] \in Nodes
      BY <2>3
    <2>5. \A k \in 2 .. 4 : n >= k => NamesIn(s[k]) \in NameSets
      <3> TAKE k \in 2 .. 4
      <3>1. n >= k => s[k] \in Nodes
        BY <2>3
      <3>. QED  BY <3>1, NamesFacts
    <2>6. NamesIn(x) = InOrder(NamesOf(SubSeq(s, 2, IF n < 4 THEN n ELSE 4)))
      <3>1. Immediate(x) = SubSeq(s, 2, IF n < 4 THEN n ELSE 4)
        BY <1>6, <2>1, <2>2 DEF Immediate
      <3>2. NamesIn(x) = InOrder(NamesOf(Immediate(x)))
        BY <1>1, <1>6 DEF Joined
      <3>. QED  BY <3>1, <3>2
    <2>7. NamesFrom(Consequent(x), b) = NamesAt(x, 3, NamesAt(x, 4, b))
      BY DEF NamesFrom, Consequent
    <2>8. CASE n = 2
      <3>1. SubSeq(s, 2, IF n < 4 THEN n ELSE 4) = <<s[2]>>
        <4>1. (IF n < 4 THEN n ELSE 4) = 2
          BY <2>8
        <4>2. Len(s) >= 2 /\ s \in Seq(Nodes)
          BY <2>3
        <4>3. SubSeq(s, 2, 2) = <<s[2]>>
          BY ONLY <4>2, FromTheSecond
        <4>. QED  BY <4>1, <4>3
      <3>2. NamesOf(<<s[2]>>) = <<NamesIn(s[2])>>
        BY DEF NamesOf
      <3>3. NamesAt(x, 3, NamesAt(x, 4, b)) = b
        BY <2>2, <2>8 DEF NamesAt
      <3>4. Followed(NamesIn(x), b) = Followed(NamesIn(s[2]), b)
        <4>1. PICK m \in NameSets : m = NamesIn(s[2])
          BY <2>5, <2>8
        <4>2. Followed(InOrder(<<m>>), b) = Followed(m, b)
          BY FoldOne
        <4>. QED  BY <2>6, <2>8, <3>1, <3>2, <4>1, <4>2
      <3>. QED  BY <2>1, <2>7, <3>3, <3>4
    <2>9. CASE n = 3
      <3>1. SubSeq(s, 2, IF n < 4 THEN n ELSE 4) = <<s[2], s[3]>>
        <4>1. (IF n < 4 THEN n ELSE 4) = 3
          BY <2>9
        <4>2. Len(s) >= 2 /\ Len(s) >= 3 /\ s \in Seq(Nodes)
          BY <2>3, <2>9
        <4>3. SubSeq(s, 2, 3) = <<s[2], s[3]>>
          BY ONLY <4>2, FromTheSecond
        <4>. QED  BY <4>1, <4>3
      <3>2. NamesOf(<<s[2], s[3]>>) = <<NamesIn(s[2]), NamesIn(s[3])>>
        BY DEF NamesOf
      <3>3. NamesAt(x, 3, NamesAt(x, 4, b)) = Followed(NamesIn(s[3]), b)
        BY <2>1, <2>2, <2>9 DEF NamesAt
      <3>4. NamesIn(s[2]) \in NameSets /\ NamesIn(s[3]) \in NameSets
        BY <2>5, <2>9
      <3>5. Followed(NamesIn(x), b) = Followed(NamesIn(s[2]), Followed(NamesIn(s[3]), b))
        <4>1. PICK m \in NameSets, k \in NameSets : m = NamesIn(s[2]) /\ k = NamesIn(s[3])
          BY <3>4
        <4>2. Followed(InOrder(<<m, k>>), b) = Followed(m, Followed(k, b))
          BY FoldTwo
        <4>. QED  BY <2>6, <3>1, <3>2, <4>1, <4>2
      <3>. QED  BY <2>1, <2>7, <3>3, <3>5
    <2>10. CASE n > 3
      <3>1. SubSeq(s, 2, IF n < 4 THEN n ELSE 4) = <<s[2], s[3], s[4]>>
        <4>1. (IF n < 4 THEN n ELSE 4) = 4 /\ Len(s) >= 4
          BY <2>3, <2>10
        <4>2. SubSeq(s, 2, 4) = <<s[2], s[3], s[4]>>
          BY <2>3, <4>1, FromTheSecond
        <4>. QED  BY <4>1, <4>2
      <3>2. NamesOf(<<s[2], s[3], s[4]>>) = <<NamesIn(s[2]), NamesIn(s[3]), NamesIn(s[4])>>
        BY DEF NamesOf
      <3>3. NamesAt(x, 3, NamesAt(x, 4, b)) = Followed(NamesIn(s[3]), Followed(NamesIn(s[4]), b))
        BY <2>1, <2>2, <2>3, <2>10 DEF NamesAt
      <3>4. NamesIn(s[2]) \in NameSets /\ NamesIn(s[3]) \in NameSets /\ NamesIn(s[4]) \in NameSets
        BY <2>3, <2>5, <2>10
      <3>5. Followed(NamesIn(x), b) =
              Followed(NamesIn(s[2]), Followed(NamesIn(s[3]), Followed(NamesIn(s[4]), b)))
        <4>1. PICK m \in NameSets, k \in NameSets, l \in NameSets :
                m = NamesIn(s[2]) /\ k = NamesIn(s[3]) /\ l = NamesIn(s[4])
          BY <3>4
        <4>2. Followed(InOrder(<<m, k, l>>), b) = Followed(m, Followed(k, Followed(l, b)))
          BY FoldThree
        <4>. QED  BY <2>6, <3>1, <3>2, <4>1, <4>2
      <3>. QED  BY <2>1, <2>7, <3>3, <3>5
    <2>. QED  BY <2>3, <2>8, <2>9, <2>10
  <1>. QED  BY <1>2, <1>3, <1>5, <1>6

(* The names of a sequence and of a lambda expression.                     *)
LEMMA NamesOfSequences ==
  ASSUME NEW x \in Nodes
  PROVE  /\ Kind(x) \in {"begin", "application"} => NamesIn(x) = InOrder(NamesOf(Immediate(x)))
         /\ Kind(x) = "lambda" /\ ~ LambdaFormed(x) => NamesIn(x) = NoNames
         /\ Kind(x) = "lambda" /\ LambdaFormed(x) =>
              NamesIn(x) = Names({}, {}, Free(InOrder(NamesOf(BodyOf(x))))
                                           \ {y.identifier : y \in Range(Parameters(x).items)})
         /\ Kind(x) = "lambda" => NamesIn(x).used = {} /\ NamesIn(x).defined = {}
  <1>1. NamesIn(x) = Joined(x, NamesOf(Immediate(x)), NamesOf(BodyParts(x)))
    BY NamesFacts
  <1>2. Kind(x) \in {"begin", "application"} => NamesIn(x) = InOrder(NamesOf(Immediate(x)))
    BY <1>1 DEF Joined
  <1>3. ASSUME Kind(x) = "lambda", ~ LambdaFormed(x)  PROVE NamesIn(x) = NoNames
    <2>1. Immediate(x) = <<>> /\ NamesOf(<<>>) = <<>>
      BY <1>3 DEF Immediate, NamesOf
    <2>. QED  BY <1>1, <1>3, <2>1, NothingInOrder DEF Joined
  <1>4. ASSUME Kind(x) = "lambda", LambdaFormed(x)
        PROVE  NamesIn(x) = Names({}, {}, Free(InOrder(NamesOf(BodyOf(x))))
                                           \ {y.identifier : y \in Range(Parameters(x).items)})
    <2>1. BodyParts(x) = BodyOf(x)
      BY <1>4 DEF BodyParts
    <2>. QED  BY <1>1, <1>4, <2>1 DEF Joined
  <1>5. Kind(x) = "lambda" => NamesIn(x).used = {} /\ NamesIn(x).defined = {}
    BY <1>3, <1>4 DEF Names, NoNames
  <1>. QED  BY <1>2, <1>3, <1>4, <1>5

-----------------------------------------------------------------------------
(* The handlers that only split their task into others.                    *)

(* ts adds no more than the task that it follows, and has the same names.  *)
Splits(ts) ==
  /\ Follow(ts) /\ ts \in Seq(Source)
  /\ Regular => Loads(ts, Adds(Todo))
  /\ \A b \in NameSets : Turns(ts, NamesFrom(Todo, b), b)

QuietStep ==
  /\ status = "run" /\ tasks # <<>> /\ Todo.do # "scan"
  /\ \E ts : Splits(ts)
  /\ Len(functions') = Len(functions)
  /\ UNCHANGED <<program, envs, lambdas, status>>

(* The handlers' tasks are made of expressions.                            *)
LEMMA DoingFacts ==
  ASSUME IInv, Traced, NEW do, Doing(do)
  PROVE  /\ status = "run" /\ tasks # <<>> /\ Todo.do = do /\ Todo.exp = Exp /\ Todo \in AnyTask
         /\ Adds(Todo) \in Nat
         /\ do \in {"gen", "bind", "assign", "consequent", "alternative"} =>
              Exp \in Expressions /\ Exp \in Nodes
         /\ do \in {"bind", "assign", "consequent", "alternative"} => Kind(Exp) = FormOf[do]
  <1>1. status = "run" /\ tasks # <<>> /\ Todo.do = do /\ Todo.exp = Exp
    BY DEF Doing, Exp
  <1>2. Todo \in AnyTask
    BY <1>1, TasksFacts
  <1>3. Adds(Todo) \in Nat
    BY <1>2, AddsFacts
  <1>4. Reaches(Todo)
    BY <1>1 DEF Traced, Todo
  <1>. QED  BY <1>1, <1>2, <1>3, <1>4, ExpressionFacts DEF Reaches

(* Printing adds no function.                                              *)
LEMMA SameFunctions ==
  ASSUME IInv, NEW do, Doing(do), UNCHANGED functions \/ \E ls : Write(ls)
  PROVE  Len(functions') = Len(functions)
  <1>1. CASE UNCHANGED functions
    BY <1>1
  <1>2. CASE \E ls : Write(ls)
    <2>1. PICK ls : Write(ls)
      BY <1>2
    <2>2. PICK n \in Nat : n = Len(functions) /\ DOMAIN functions = 1 .. n
      BY DEF IInv, Typed
    <2>3. PICK X : functions' = [functions EXCEPT ![Current] = X]
      BY <2>1 DEF Write
    <2>4. \A i \in 1 .. n : functions'[i] \in {functions'[j] : j \in 1 .. n}
      OBVIOUS
    <2>5. functions' = [i \in 1 .. n |-> functions'[i]]
      BY <2>2, <2>3
    <2>6. functions' \in Seq({functions'[j] : j \in 1 .. n}) /\ Len(functions') = n
      BY <2>4, <2>5
    <2>. QED  BY <2>2, <2>6
  <1>. QED  BY <1>1, <1>2

(* Lines that wait are printed.                                            *)
LEMMA EmitLinesQuiet == ASSUME IInv, Traced, EmitLines PROVE QuietStep
  <1>1. Doing("emit") /\ Write(Todo.lines) /\ Follow(<<>>)
        /\ UNCHANGED <<program, envs, lambdas, stdout, status>>
    BY DEF EmitLines, Return
  <1>2. /\ status = "run" /\ tasks # <<>> /\ Todo.do = "emit" /\ Adds(Todo) \in Nat
        /\ Len(functions') = Len(functions)
    BY <1>1, DoingFacts, SameFunctions
  <1>3. Loads(<<>>, Adds(Todo))
    BY <1>2, LoadsNone
  <1>4. \A b \in NameSets : NamesFrom(Todo, b) = b
    BY <1>2 DEF NamesFrom
  <1>5. \A b \in NameSets : Turns(<<>>, NamesFrom(Todo, b), b)
    BY <1>4, TurnsNone
  <1>6. <<>> \in Seq(Source)
    OBVIOUS
  <1>7. Splits(<<>>)
    BY <1>1, <1>3, <1>5, <1>6 DEF Splits
  <1>. QED  BY <1>1, <1>2, <1>7 DEF QuietStep

(* A literal is printed.                                                   *)
LEMMA GenLiteralQuiet == ASSUME IInv, Traced, GenLiteral PROVE QuietStep
  <1>1. PICK kind \in {"null", "integer", "string"} : Generating(kind)
    BY DEF GenLiteral
  <1>2. Doing("gen") /\ Kind(Exp) \in {"null", "integer", "string"} /\ Follow(<<>>)
        /\ UNCHANGED <<program, envs, lambdas, stdout, status>>
        /\ \E ls : Write(ls)
    BY <1>1 DEF Generating, GenLiteral, Return
  <1>3. /\ status = "run" /\ tasks # <<>> /\ Todo.do = "gen" /\ Adds(Todo) \in Nat
        /\ Len(functions') = Len(functions) /\ Exp \in Nodes /\ Todo.exp = Exp
    BY <1>2, DoingFacts, SameFunctions
  <1>4. Loads(<<>>, Adds(Todo))
    BY <1>3, LoadsNone
  <1>5. ASSUME NEW b \in NameSets  PROVE Turns(<<>>, NamesFrom(Todo, b), b)
    <2>1. NamesFrom(Todo, b) = Followed(NamesIn(Exp), b)
      BY <1>3 DEF NamesFrom
    <2>2. Followed(NamesIn(Exp), b) = b
      BY <1>2, <1>3, NamesOfForms
    <2>. QED  BY <2>1, <2>2, TurnsNone
  <1>6. <<>> \in Seq(Source)
    OBVIOUS
  <1>7. Splits(<<>>)
    BY <1>2, <1>4, <1>5, <1>6 DEF Splits
  <1>. QED  BY <1>2, <1>3, <1>7 DEF QuietStep

(* Two tasks load what they add together.                                  *)
LEMMA TwoTasks ==
  ASSUME NEW s \in Source, NEW t \in Source
  PROVE  /\ <<s, t>> \in Seq(Source)
         /\ \A n \in Nat : Adds(s) + Adds(t) <= n => Loads(<<s, t>>, n)
         /\ \A b \in NameSets : Turns(<<s, t>>, NamesFrom(s, NamesFrom(t, b)), b)
  <1>1. s \in AnyTask /\ t \in AnyTask
    BY DEF Source
  <1>2. <<s>> \in Seq(AnyTask) /\ <<t>> \in Seq(AnyTask) /\ <<s>> \o <<t>> = <<s, t>>
    <2>1. <<s>> \o <<t>> = <<s, t>>
      BY <1>1, ShortSequences
    <2> HIDE DEF AnyTask
    <2>. QED  BY <1>1, <2>1
  <1>3. Adds(s) \in Nat /\ Adds(t) \in Nat
    BY <1>1, AddsFacts
  <1>4. ASSUME NEW n \in Nat, Adds(s) + Adds(t) <= n  PROVE Loads(<<s, t>>, n)
    <2>1. Loads(<<s>>, Adds(s)) /\ Loads(<<t>>, Adds(t))
      BY <1>1, <1>3, LoadsOne
    <2>2. Loads(<<s>> \o <<t>>, n)
      BY <1>2, <1>3, <1>4, <2>1, LoadsJoined
    <2>. QED  BY <1>2, <2>2
  <1>5. ASSUME NEW b \in NameSets  PROVE Turns(<<s, t>>, NamesFrom(s, NamesFrom(t, b)), b)
    <2>1. PICK c \in NameSets : c = NamesFrom(t, b)
      BY <1>1, NamesFromType
    <2>2. Turns(<<t>>, c, b) /\ Turns(<<s>>, NamesFrom(s, c), c)
      BY <1>1, <2>1, TurnsOne
    <2>3. Turns(<<s>> \o <<t>>, NamesFrom(s, c), b)
      BY <1>2, <2>2, TurnsJoined
    <2>. QED  BY <1>2, <2>1, <2>3
  <1>6. <<s, t>> \in Seq(Source)
    <2> HIDE DEF Source
    <2>. QED  OBVIOUS
  <1>. QED  BY <1>4, <1>5, <1>6

(* A definition and an assignment generate their value first.              *)
LEMMA ValueQuiet ==
  ASSUME IInv, Traced, GenDefinition \/ GenAssignment
  PROVE  QuietStep
  <1>1. PICK x, y, t : x = Exp /\ y = x.items[3]
                       /\ t = IF Kind(x) = "define" THEN Bind(x) ELSE Assign(x)
    OBVIOUS
  <1>2. Doing("gen") /\ Kind(x) \in {"define", "set!"} /\ Follow(<<Gen(y), t>>)
        /\ UNCHANGED <<program, envs, lambdas, functions, stdout, status>>
    <2>1. CASE GenDefinition
      BY <1>1, <2>1 DEF GenDefinition, Generating
    <2>2. CASE GenAssignment
      BY <1>1, <2>2 DEF GenAssignment, Generating
    <2>. QED  BY <2>1, <2>2
  <1>3. /\ status = "run" /\ tasks # <<>> /\ Todo.do = "gen" /\ Todo.exp = x /\ Adds(Todo) \in Nat
        /\ x \in Nodes /\ x \in Expressions
    BY <1>1, <1>2, DoingFacts
  <1>4. x \in Longer(3) /\ y \in Nodes /\ Length(x) >= 3
    <2>1. x \in Longer(3)
      BY <1>1, <1>2, PartsFacts
    <2>2. x.type = "list" /\ Len(x.items) >= 3
      BY <2>1 DEF Longer
    <2>. QED  BY <1>1, <2>1, <2>2, ItemFacts DEF Length
  <1>5. y \in Expressions
    BY <1>1, <1>2, <1>3, <1>4, ItemsAreParts, ExpressionFacts
  <1>6. Gen(y) \in Source /\ t \in Source
    BY <1>1, <1>2, <1>3, <1>4, <1>5, SourceFacts
  <1>7. ASSUME Regular  PROVE Loads(<<Gen(y), t>>, Adds(Todo))
    <2>1. Adds(Todo) = Weight(x) /\ Adds(Gen(y)) = Weight(y)
      BY <1>3 DEF Adds, Gen
    <2>2. Adds(t) = IF Kind(x) = "define" THEN 1 ELSE 0
      BY <1>1 DEF Adds, Bind, Assign
    <2>3. Weight(x) \in Nat /\ Weight(y) \in Nat
      BY <1>3, <1>4, WeightFacts
    <2>4. /\ Kind(x) = "set!" => Weight(y) <= Weight(x)
          /\ Kind(x) = "define" => Weight(y) = 0 /\ Weight(x) = 1
      BY <1>1, <1>3, <1>4, <1>7, ItemsWeigh
    <2>5. Adds(Gen(y)) + Adds(t) <= Adds(Todo)
      BY <1>2, <2>1, <2>2, <2>3, <2>4
    <2>. QED  BY <1>3, <1>6, <2>5, TwoTasks
  <1>8. ASSUME NEW b \in NameSets  PROVE Turns(<<Gen(y), t>>, NamesFrom(Todo, b), b)
    <2>1. NamesFrom(Todo, b) = Followed(NamesIn(x), b)
      BY <1>3 DEF NamesFrom
    <2>2. NamesFrom(Gen(y), NamesFrom(t, b)) = Followed(NamesIn(y), NamesFrom(t, b))
      BY DEF NamesFrom, Gen
    <2>3. Followed(NamesIn(x), b) = Followed(NamesIn(y), NamesFrom(t, b))
      BY <1>1, <1>2, <1>3, <1>4, NamesOfForms
    <2>. QED  BY <1>6, <2>1, <2>2, <2>3, TwoTasks
  <1>9. Splits(<<Gen(y), t>>)
    BY <1>2, <1>6, <1>7, <1>8, TwoTasks DEF Splits
  <1>. QED  BY <1>2, <1>3, <1>9 DEF QuietStep

(* An if generates its predicate first.                                    *)
LEMMA GenIfQuiet == ASSUME IInv, Traced, GenIf PROVE QuietStep
  <1>1. PICK x, y, t : x = Exp /\ y = x.items[2] /\ t = Consequent(x)
    OBVIOUS
  <1>2. Doing("gen") /\ Kind(x) = "if" /\ Follow(<<Gen(y), t>>)
        /\ UNCHANGED <<program, envs, lambdas, functions, stdout, status>>
    BY <1>1 DEF GenIf, Generating
  <1>3. /\ status = "run" /\ tasks # <<>> /\ Todo.do = "gen" /\ Todo.exp = x /\ Adds(Todo) \in Nat
        /\ x \in Nodes /\ x \in Expressions
    BY <1>1, <1>2, DoingFacts
  <1>4. x \in Longer(2) /\ y \in Nodes /\ Length(x) >= 2 /\ Length(x) \in Nat
    <2>1. x \in Longer(2)
      BY <1>1, <1>2, PartsFacts
    <2>2. x.type = "list" /\ Len(x.items) >= 2
      BY <2>1 DEF Longer
    <2>3. Length(x) \in Nat
      BY <1>3, NodeFacts
    <2>. QED  BY <1>1, <2>1, <2>2, <2>3, ItemFacts DEF Length
  <1>5. y \in Expressions
    <2>1. 2 \in 2 .. 4 /\ 2 <= Length(x)
      BY <1>4
    <2>2. y \in Range(Immediate(x))
      BY <1>1, <1>2, <1>3, <2>1, ItemsAreParts
    <2>. QED  BY <1>3, <2>2, ExpressionFacts
  <1>6. Gen(y) \in Source /\ t \in Source
    BY <1>1, <1>2, <1>3, <1>4, <1>5, SourceFacts
  <1>7. ASSUME Regular  PROVE Loads(<<Gen(y), t>>, Adds(Todo))
    <2>1. Adds(Todo) = Weight(x) /\ Adds(Gen(y)) = Weight(y)
      BY <1>3 DEF Adds, Gen
    <2>2. Adds(t) = WeightAt(x, 3) + WeightAt(x, 4)
      BY <1>1 DEF Adds, Consequent
    <2>3. WeightAt(x, 2) = Weight(y)
      BY <1>1, <1>4 DEF WeightAt
    <2>4. WeightAt(x, 2) + (WeightAt(x, 3) + WeightAt(x, 4)) <= Weight(x)
      BY <1>2, <1>3, <1>7, ItemsWeigh
    <2>5. Adds(Gen(y)) + Adds(t) <= Adds(Todo)
      BY <2>1, <2>2, <2>3, <2>4
    <2>. QED  BY <1>3, <1>6, <2>5, TwoTasks
  <1>8. ASSUME NEW b \in NameSets  PROVE Turns(<<Gen(y), t>>, NamesFrom(Todo, b), b)
    <2>1. NamesFrom(Todo, b) = Followed(NamesIn(x), b)
      BY <1>3 DEF NamesFrom
    <2>2. NamesFrom(Gen(y), NamesFrom(t, b)) = Followed(NamesIn(y), NamesFrom(t, b))
      BY DEF NamesFrom, Gen
    <2>3. Followed(NamesIn(x), b) = Followed(NamesIn(y), NamesFrom(t, b))
      BY <1>1, <1>2, <1>3, <1>4, NamesOfForms
    <2>. QED  BY <1>6, <2>1, <2>2, <2>3, TwoTasks
  <1>9. Splits(<<Gen(y), t>>)
    BY <1>2, <1>6, <1>7, <1>8, TwoTasks DEF Splits
  <1>. QED  BY <1>2, <1>3, <1>9 DEF QuietStep

(* The consequent is generated, then the alternative.                      *)
LEMMA GenConsequentQuiet == ASSUME IInv, Traced, GenConsequent PROVE QuietStep
  <1>1. PICK x, y, t, e : x = Exp /\ y = x.items[3] /\ t = Alternative(x)
                          /\ e = Emit(<<Line("close")>>)
    OBVIOUS
  <1>2. Doing("consequent") /\ Write(<<Line("if")>>) /\ Follow(<<Gen(y), e, t>>)
        /\ UNCHANGED <<program, envs, lambdas, stdout, status>>
    BY <1>1 DEF GenConsequent
  <1>3. /\ status = "run" /\ tasks # <<>> /\ Todo.do = "consequent" /\ Todo.exp = x
        /\ Adds(Todo) \in Nat /\ x \in Nodes /\ x \in Expressions /\ Kind(x) = "if"
        /\ Len(functions') = Len(functions)
    <2>1. Kind(x) = FormOf["consequent"]
      BY <1>1, <1>2, DoingFacts
    <2>2. \E ls : Write(ls)
      BY <1>2
    <2>. QED  BY <1>1, <1>2, <2>1, <2>2, DoingFacts, SameFunctions DEF FormOf
  <1>4. x \in Longer(3) /\ y \in Nodes /\ Length(x) >= 3 /\ Length(x) \in Nat
    <2>1. x \in Longer(3)
      BY <1>1, <1>2, PartsFacts
    <2>2. x.type = "list" /\ Len(x.items) >= 3
      BY <2>1 DEF Longer
    <2>3. Length(x) \in Nat
      BY <1>3, NodeFacts
    <2>. QED  BY <1>1, <2>1, <2>2, <2>3, ItemFacts DEF Length
  <1>5. y \in Expressions
    <2>1. 3 \in 2 .. 4 /\ 3 <= Length(x)
      BY <1>4
    <2>2. y \in Range(Immediate(x))
      BY <1>1, <1>3, <2>1, ItemsAreParts
    <2>. QED  BY <1>3, <2>2, ExpressionFacts
  <1>6. Gen(y) \in Source /\ t \in Source /\ e \in Source
    <2>1. <<Line("close")>> \in Seq(Common)
      BY LineFacts DEF PlainOps
    <2>. QED  BY <1>1, <1>3, <1>4, <1>5, <2>1, SourceFacts
  <1>7. /\ <<Gen(y), e, t>> = <<Gen(y)>> \o <<e, t>> /\ <<Gen(y), e, t>> \in Seq(Source)
        /\ Gen(y) \in AnyTask /\ <<Gen(y)>> \in Seq(AnyTask) /\ <<e, t>> \in Seq(AnyTask)
    <2>1. Source \subseteq AnyTask
      BY DEF Source
    <2>2. <<Gen(y), e, t>> = <<Gen(y)>> \o <<e, t>>
      BY <1>6, ShortSequences
    <2> HIDE DEF Source, AnyTask
    <2>3. Gen(y) \in AnyTask /\ e \in AnyTask /\ t \in AnyTask
      BY <1>6, <2>1
    <2>. QED  BY <1>6, <2>2, <2>3
  <1>8. ASSUME Regular  PROVE Loads(<<Gen(y), e, t>>, Adds(Todo))
    <2>1. Adds(Todo) = Weight(y) + WeightAt(x, 4) /\ Adds(Gen(y)) = Weight(y)
      <3>1. WeightAt(x, 3) = Weight(y)
        BY <1>1, <1>4 DEF WeightAt
      <3>. QED  BY <1>3, <3>1 DEF Adds, Gen
    <2>2. Adds(t) = WeightAt(x, 4) /\ Adds(e) = 0
      BY <1>1 DEF Adds, Alternative, Emit
    <2>3. Weight(y) \in Nat /\ WeightAt(x, 4) \in Nat
      BY <1>3, <1>4, <1>8, WeightFacts, ItemsWeigh
    <2>4. Loads(<<e, t>>, WeightAt(x, 4))
      <3>1. Adds(e) + Adds(t) <= WeightAt(x, 4)
        BY <2>2, <2>3
      <3>. QED  BY <1>6, <2>3, <3>1, TwoTasks
    <2>5. Loads(<<Gen(y)>>, Weight(y))
      <3>1. Adds(Gen(y)) <= Weight(y)
        BY <2>1, <2>3
      <3>. QED  BY <1>7, <2>3, <3>1, LoadsOne
    <2>6. Weight(y) + WeightAt(x, 4) <= Adds(Todo)
      BY <1>3, <2>1
    <2>7. Loads(<<Gen(y)>> \o <<e, t>>, Adds(Todo))
      BY <1>3, <1>7, <2>3, <2>4, <2>5, <2>6, LoadsJoined
    <2>. QED  BY <1>7, <2>7
  <1>9. ASSUME NEW b \in NameSets  PROVE Turns(<<Gen(y), e, t>>, NamesFrom(Todo, b), b)
    <2>1. PICK c \in NameSets : c = NamesFrom(t, b)
      <3>1. t \in AnyTask
        BY <1>6 DEF Source
      <3>. QED  BY <3>1, NamesFromType
    <2>2. NamesFrom(e, c) = c
      BY <1>1 DEF NamesFrom, Emit
    <2>3. Turns(<<e, t>>, c, b)
      BY <1>6, <2>1, <2>2, TwoTasks
    <2>4. Turns(<<Gen(y)>>, NamesFrom(Gen(y), c), c)
      BY <1>7, TurnsOne
    <2>5. c = NamesAt(x, 4, b)
      BY <1>1, <2>1 DEF NamesFrom, Alternative
    <2>6. NamesFrom(Gen(y), c) = Followed(NamesIn(y), c)
      BY DEF NamesFrom, Gen
    <2>7. NamesFrom(Todo, b) = Followed(NamesIn(y), c)
      <3>1. NamesFrom(Todo, b) = NamesAt(x, 3, NamesAt(x, 4, b))
        BY <1>3 DEF NamesFrom
      <3>2. NamesAt(x, 3, c) = Followed(NamesIn(y), c)
        BY <1>1, <1>4 DEF NamesAt
      <3>. QED  BY <2>5, <3>1, <3>2
    <2>8. Turns(<<Gen(y)>> \o <<e, t>>, NamesFrom(Gen(y), c), b)
      BY <1>7, <2>3, <2>4, TurnsJoined
    <2>. QED  BY <1>7, <2>6, <2>7, <2>8
  <1>10. Splits(<<Gen(y), e, t>>)
    BY <1>2, <1>7, <1>8, <1>9 DEF Splits
  <1>. QED  BY <1>2, <1>3, <1>10 DEF QuietStep

(* The alternative is generated, if there is one.                          *)
LEMMA GenAlternativeQuiet == ASSUME IInv, Traced, GenAlternative PROVE QuietStep
  <1>1. PICK x, e : x = Exp /\ e = Emit(<<Line("close")>>)
    OBVIOUS
  <1>2. Doing("alternative") /\ UNCHANGED <<program, envs, lambdas, stdout, status>>
        /\ (UNCHANGED functions \/ \E ls : Write(ls))
    BY DEF GenAlternative
  <1>3. /\ status = "run" /\ tasks # <<>> /\ Todo.do = "alternative" /\ Todo.exp = x
        /\ Adds(Todo) \in Nat /\ x \in Nodes /\ x \in Expressions /\ Kind(x) = "if"
        /\ Len(functions') = Len(functions) /\ Length(x) \in Nat
    <2>1. Kind(x) = FormOf["alternative"]
      BY <1>1, <1>2, DoingFacts
    <2>2. Exp \in Nodes
      BY <1>2, DoingFacts
    <2>. QED  BY <1>1, <1>2, <2>1, <2>2, DoingFacts, SameFunctions, NodeFacts DEF FormOf
  <1>4. CASE ~ (Length(x) > 3)
    <2>1. Follow(<<>>)
      BY <1>1, <1>4 DEF GenAlternative, Return
    <2>2. Loads(<<>>, Adds(Todo))
      BY <1>3, LoadsNone
    <2>3. ASSUME NEW b \in NameSets  PROVE Turns(<<>>, NamesFrom(Todo, b), b)
      <3>1. NamesFrom(Todo, b) = NamesAt(x, 4, b)
        BY <1>3 DEF NamesFrom
      <3>2. NamesAt(x, 4, b) = b
        BY <1>3, <1>4 DEF NamesAt
      <3>. QED  BY <3>1, <3>2, TurnsNone
    <2>4. <<>> \in Seq(Source)
      OBVIOUS
    <2>5. Splits(<<>>)
      BY <2>1, <2>2, <2>3, <2>4 DEF Splits
    <2>. QED  BY <1>2, <1>3, <2>5 DEF QuietStep
  <1>5. CASE Length(x) > 3
    <2>1. PICK y : y = x.items[4]
      OBVIOUS
    <2>2. Follow(<<Gen(y), e>>)
      BY <1>1, <1>5, <2>1 DEF GenAlternative
    <2>3. Length(x) >= 4 /\ 4 \in 2 .. 4 /\ 4 <= Length(x) /\ x \in Longer(4)
      <3>1. Length(x) >= 4 /\ 4 \in 1 .. 4
        BY <1>3, <1>5
      <3>. QED  BY <1>3, <3>1, NodeFacts
    <2>4. y \in Nodes /\ y \in Expressions
      <3>1. y \in Range(Immediate(x))
        BY <1>3, <2>1, <2>3, ItemsAreParts
      <3>. QED  BY <1>3, <3>1, ExpressionFacts
    <2>5. Gen(y) \in Source /\ e \in Source
      <3>1. <<Line("close")>> \in Seq(Common)
        BY LineFacts DEF PlainOps
      <3>. QED  BY <1>1, <2>4, <3>1, SourceFacts
    <2>6. Loads(<<Gen(y), e>>, Adds(Todo))
      <3>1. Adds(Todo) = WeightAt(x, 4) /\ Adds(Gen(y)) = Weight(y)
        BY <1>3 DEF Adds, Gen
      <3>2. WeightAt(x, 4) = Weight(y)
        BY <1>3, <1>5, <2>1 DEF WeightAt
      <3>3. Adds(e) = 0
        BY <1>1 DEF Adds, Emit
      <3>4. Adds(Gen(y)) + Adds(e) <= Adds(Todo)
        BY <1>3, <3>1, <3>2, <3>3
      <3>. QED  BY <1>3, <2>5, <3>4, TwoTasks
    <2>7. ASSUME NEW b \in NameSets  PROVE Turns(<<Gen(y), e>>, NamesFrom(Todo, b), b)
      <3>1. NamesFrom(Todo, b) = NamesAt(x, 4, b)
        BY <1>3 DEF NamesFrom
      <3>2. NamesAt(x, 4, b) = Followed(NamesIn(y), b)
        BY <1>3, <1>5, <2>1 DEF NamesAt
      <3>3. NamesFrom(e, b) = b /\ NamesFrom(Gen(y), b) = Followed(NamesIn(y), b)
        BY <1>1 DEF NamesFrom, Emit, Gen
      <3>. QED  BY <2>5, <3>1, <3>2, <3>3, TwoTasks
    <2>8. Splits(<<Gen(y), e>>)
      BY <2>2, <2>5, <2>6, <2>7, TwoTasks DEF Splits
    <2>. QED  BY <1>2, <1>3, <2>8 DEF QuietStep
  <1>. QED  BY <1>4, <1>5

(* Expressions that are generated backwards.                               *)
LEMMA GenReversed ==
  ASSUME NEW h \in Nodes, NEW xs \in Seq(Nodes)
  PROVE  <<Gen(h)>> \o GenAllReversed(xs) = GenAll(<<h>> \o Reverse(xs))
  <1>1. PICK n \in Nat : n = Len(xs)
    OBVIOUS
  <1>2. PICK r, g : r = Reverse(xs) /\ g = GenAllReversed(xs)
    OBVIOUS
  <1>3. r \in Seq(Nodes) /\ Len(r) = n /\ \A i \in 1 .. n : r[i] = xs[n + 1 - i]
    <2>1. r \in Seq(Nodes) /\ Len(r) = n
      BY <1>1, <1>2, Elements
    <2>2. \A i \in 1 .. n : n - i + 1 = n + 1 - i
      OBVIOUS
    <2>3. \A i \in 1 .. n : r[i] = xs[n + 1 - i]
      BY <1>1, <1>2, <2>2 DEF Reverse
    <2>. QED  BY <2>1, <2>3
  <1>4. g \in Seq(AnyTask) /\ Len(g) = n /\ \A i \in 1 .. n : g[i] = Gen(r[i])
    <2>1. g \in Seq(AnyTask)
      BY <1>2, AnyTaskFacts
    <2>2. Len(g) = n /\ \A i \in 1 .. n : g[i] = Gen(xs[n + 1 - i])
      BY <1>1, <1>2 DEF GenAllReversed
    <2>. QED  BY <1>3, <2>1, <2>2
  <1>5. PICK u, v : u = <<Gen(h)>> \o g /\ v = <<h>> \o r
    OBVIOUS
  <1>6. /\ v \in Seq(Nodes) /\ Len(v) = n + 1 /\ v[1] = h
        /\ \A i \in 2 .. (n + 1) : v[i] = r[i - 1]
    <2>1. /\ Len(<<h>> \o r) = Len(r) + 1 /\ (<<h>> \o r)[1] = h /\ <<h>> \o r \in Seq(Nodes)
          /\ \A i \in 2 .. (Len(r) + 1) : (<<h>> \o r)[i] = r[i - 1]
      BY <1>3
    <2>. QED  BY <1>3, <1>5, <2>1
  <1>7. /\ u \in Seq(AnyTask) /\ Len(u) = n + 1 /\ u[1] = Gen(h)
        /\ \A i \in 2 .. (n + 1) : u[i] = g[i - 1]
    <2>1. PICK s \in AnyTask : s = Gen(h)
      BY AnyTaskFacts
    <2> HIDE DEF AnyTask
    <2>2. /\ Len(<<s>> \o g) = Len(g) + 1 /\ (<<s>> \o g)[1] = s /\ <<s>> \o g \in Seq(AnyTask)
          /\ \A i \in 2 .. (Len(g) + 1) : (<<s>> \o g)[i] = g[i - 1]
      BY <1>4
    <2>. QED  BY <1>4, <1>5, <2>1, <2>2
  <1>8. PICK w : w = GenAll(v)
    OBVIOUS
  <1>9. w \in Seq(AnyTask) /\ Len(w) = n + 1 /\ \A i \in 1 .. (n + 1) : w[i] = Gen(v[i])
    <2>1. w \in Seq(AnyTask)
      BY <1>6, <1>8, AnyTaskFacts
    <2>2. Len(w) = n + 1 /\ \A i \in 1 .. (n + 1) : w[i] = Gen(v[i])
      BY <1>6, <1>8 DEF GenAll
    <2>. QED  BY <2>1, <2>2
  <1>10. ASSUME NEW i \in 1 .. (n + 1)  PROVE u[i] = w[i]
    <2>1. CASE i = 1
      BY <1>6, <1>7, <1>9, <2>1
    <2>2. CASE i # 1
      <3>1. i \in 2 .. (n + 1) /\ i - 1 \in 1 .. n
        BY <2>2
      <3>. QED  BY <1>4, <1>6, <1>7, <1>9, <3>1
    <2>. QED  BY <2>1, <2>2
  <1>11. u = w
    <2> HIDE DEF AnyTask
    <2>. QED  BY <1>7, <1>9, <1>10, SeqEqual
  <1>. QED  BY <1>2, <1>5, <1>8, <1>11

(* Expressions that are generated one after the other.                     *)
LEMMA AllQuiet ==
  ASSUME IInv, Traced, Doing("gen"), NEW x, x = Exp, Kind(x) \in {"begin", "application"}
  PROVE  /\ Immediate(x) \in Seq(Nodes) /\ GenAll(Immediate(x)) \in Seq(Source)
         /\ GenAll(Immediate(x)) \in Seq(AnyTask)
         /\ Regular => Loads(GenAll(Immediate(x)), Adds(Todo))
         /\ \A b \in NameSets : Turns(GenAll(Immediate(x)), NamesFrom(Todo, b), b)
  <1>1. /\ Todo.do = "gen" /\ Todo.exp = x /\ Adds(Todo) \in Nat
        /\ x \in Nodes /\ x \in Expressions
    BY DoingFacts
  <1>2. PICK xs, ts : xs = Immediate(x) /\ ts = GenAll(xs)
    OBVIOUS
  <1>3. xs \in Seq(Nodes)
    BY <1>1, <1>2, PartsSequence
  <1>4. \A i \in 1 .. Len(xs) : xs[i] \in Expressions
    BY <1>1, <1>2, <1>3, Elements, ExpressionFacts
  <1>5. ts \in Seq(Source) /\ ts \in Seq(AnyTask)
    BY <1>2, <1>3, <1>4, SourceFacts, AnyTaskFacts
  <1>6. ASSUME Regular  PROVE Loads(ts, Adds(Todo))
    <2>1. PICK a \in Nat : a <= Weight(x) /\ Carries(xs, a)
      BY <1>1, <1>2, <1>6, PartsCarried
    <2>2. Loads(ts, a)
      BY <1>2, <1>3, <2>1, LoadsAll
    <2>3. Adds(Todo) = Weight(x)
      BY <1>1 DEF Adds
    <2>4. Loads(<<>>, Adds(Todo) - a) /\ Adds(Todo) - a \in Nat
      <3>1. Adds(Todo) - a \in Nat
        BY <1>1, <2>1, <2>3
      <3>. QED  BY <3>1, LoadsNone
    <2>5. Loads(ts \o <<>>, Adds(Todo))
      <3>1. a + (Adds(Todo) - a) <= Adds(Todo) /\ <<>> \in Seq(AnyTask)
        BY <1>1, <2>1
      <3>. QED  BY <1>1, <1>5, <2>2, <2>4, <3>1, LoadsJoined
    <2>6. ts \o <<>> = ts
      <3> HIDE DEF AnyTask
      <3>. QED  BY <1>5
    <2>. QED  BY <2>5, <2>6
  <1>7. ASSUME NEW b \in NameSets  PROVE Turns(ts, NamesFrom(Todo, b), b)
    <2>1. NamesIn(x) = InOrder(NamesOf(xs))
      BY <1>1, <1>2, NamesOfSequences
    <2>2. NamesFrom(Todo, b) = Followed(InOrder(NamesOf(xs)), b)
      BY <1>1, <2>1 DEF NamesFrom
    <2>. QED  BY <1>2, <1>3, <2>2, TurnsAll
  <1>. QED  BY <1>2, <1>3, <1>5, <1>6, <1>7

(* The expressions of a begin follow.                                      *)
LEMMA GenBeginQuiet == ASSUME IInv, Traced, GenBegin PROVE QuietStep
  <1>1. PICK x : x = Exp
    OBVIOUS
  <1>2. Doing("gen") /\ Kind(x) = "begin" /\ Follow(GenAll(Tail(x.items)))
        /\ UNCHANGED <<program, envs, lambdas, functions, stdout, status>>
    BY <1>1 DEF GenBegin, Generating
  <1>3. Immediate(x) = Tail(x.items)
    BY <1>2 DEF Immediate
  <1>4. status = "run" /\ tasks # <<>> /\ Todo.do = "gen"
    BY <1>2, DoingFacts
  <1>5. Splits(GenAll(Tail(x.items)))
    BY <1>1, <1>2, <1>3, AllQuiet DEF Splits
  <1>. QED  BY <1>2, <1>4, <1>5 DEF QuietStep

(* The expressions of an application follow, and what takes their values.  *)
LEMMA GenApplicationQuiet == ASSUME IInv, Traced, GenApplication PROVE QuietStep
  <1>1. PICK x, h, t : x = Exp /\ h = Head(x.items) /\ t = Tail(x.items)
    OBVIOUS
  <1> DEFINE pops == [i \in 1 .. Len(t) |-> Numbered("arg", i - 1)]
             ls == pops \o <<Line("call"), Line("pushret")>>
             e == Emit(ls)
  <1>2. Doing("gen") /\ Kind(x) = "application"
        /\ Follow(<<Gen(h)>> \o GenAllReversed(t) \o <<e>>)
        /\ UNCHANGED <<program, envs, lambdas, functions, stdout, status>>
    BY <1>1 DEF GenApplication, Generating
  <1>3. /\ status = "run" /\ tasks # <<>> /\ Todo.do = "gen" /\ Adds(Todo) \in Nat /\ x \in Nodes
    BY <1>1, <1>2, DoingFacts
  <1>4. h \in Nodes /\ t \in Seq(Nodes)
    BY <1>1, <1>2, <1>3, NodeFacts, ItemFacts
  <1>5. ls \in Seq(Common)
    <2>1. Len(t) \in Nat
      BY <1>4
    <2>2. \A i \in 1 .. Len(t) : Numbered("arg", i - 1) \in Common
      BY <2>1, LineFacts
    <2>3. pops \in Seq(Common)
      BY <2>1, <2>2
    <2>4. <<Line("call"), Line("pushret")>> \in Seq(Common)
      BY LineFacts DEF PlainOps
    <2> HIDE DEF pops
    <2>. QED  BY <2>3, <2>4
  <1> HIDE DEF ls
  <1>6. e \in Source /\ e \in AnyTask /\ e = Emit(ls)
    BY <1>3, <1>5, SourceFacts, AnyTaskFacts
  <1> HIDE DEF e
  <1>7. PICK ts : ts = GenAll(Immediate(x))
    OBVIOUS
  <1>8. /\ ts \in Seq(Source) /\ ts \in Seq(AnyTask)
        /\ Regular => Loads(ts, Adds(Todo))
        /\ \A b \in NameSets : Turns(ts, NamesFrom(Todo, b), b)
    BY <1>1, <1>2, <1>7, AllQuiet
  <1>9. Follow(ts \o <<e>>)
    <2>1. Immediate(x) = <<h>> \o Reverse(t)
      BY <1>1, <1>2 DEF Immediate
    <2>2. <<Gen(h)>> \o GenAllReversed(t) = ts
      BY <1>4, <1>7, <2>1, GenReversed
    <2>. QED  BY <1>2, <2>2
  <1>10. ts \o <<e>> \in Seq(Source) /\ <<e>> \in Seq(AnyTask)
    <2> HIDE DEF Source, AnyTask
    <2>. QED  BY <1>6, <1>8
  <1>11. ASSUME Regular  PROVE Loads(ts \o <<e>>, Adds(Todo))
    <2>1. Adds(e) = 0
      BY <1>6 DEF Adds, Emit
    <2>2. Loads(<<e>>, 0)
      BY <1>6, <2>1, LoadsOne
    <2>3. Adds(Todo) + 0 <= Adds(Todo)
      BY <1>3
    <2>. QED  BY <1>3, <1>8, <1>10, <1>11, <2>2, <2>3, LoadsJoined
  <1>12. ASSUME NEW b \in NameSets  PROVE Turns(ts \o <<e>>, NamesFrom(Todo, b), b)
    <2>1. Turns(<<e>>, b, b)
      BY <1>5, <1>6, TurnsNone
    <2>2. Turns(ts, NamesFrom(Todo, b), b)
      BY <1>8
    <2>. QED  BY <1>8, <1>10, <2>1, <2>2, TurnsJoined
  <1>13. Splits(ts \o <<e>>)
    BY <1>9, <1>10, <1>11, <1>12 DEF Splits
  <1>. QED  BY <1>2, <1>3, <1>13 DEF QuietStep

-----------------------------------------------------------------------------
(* The tables are large enough.                                            *)

(* Where the program is regular, the environment has room for what is      *)
(* still to be defined in it.                                              *)
Sized ==
  /\ Len(lambdas) <= MaxLambdas
  /\ status = "run" /\ Regular =>
       \E a \in Nat : /\ Path(Counts, Nat, tasks, a, 0)
                      /\ Len(envs[Current].variables) + a <= envs[Current].capacity
  /\ TablesLargeEnough

(* Whether a program is regular does not change.                           *)
LEMMA RegularKept ==
  ASSUME UNCHANGED program
  PROVE  Regular' = Regular /\ TablesLargeEnough =
           (status = "overrun" => ~ Regular \/ Len(lambdas) = MaxLambdas)
  <1>1. Expressions' = Expressions
    BY ProgramKept
  <1>2. NestsDefinitions' = NestsDefinitions /\ FormsAreVariables' = FormsAreVariables
    BY <1>1 DEF NestsDefinitions, FormsAreVariables
  <1>3. DefinesInMain' = DefinesInMain
    BY DEF DefinesInMain
  <1>. QED  BY <1>2, <1>3 DEF Regular, TablesLargeEnough

(* After the next task there is room for those that follow it.             *)
LEMMA RoomForTail ==
  ASSUME IInv, Sized, Regular, status = "run", tasks # <<>>
  PROVE  /\ \E b \in Nat : /\ Path(Counts, Nat, Tail(tasks), b, 0)
                           /\ Len(envs[Current].variables) + (Adds(Todo) + b)
                                <= envs[Current].capacity
         /\ Len(envs[Current].variables) \in Nat /\ envs[Current].capacity \in Nat
         /\ Adds(Todo) \in Nat
  <1>1. PICK a \in Nat : /\ Path(Counts, Nat, tasks, a, 0)
                         /\ Len(envs[Current].variables) + a <= envs[Current].capacity
    BY DEF Sized
  <1>2. tasks \in Seq(AnyTask) /\ Adds(Todo) \in Nat
    BY TasksFacts, AddsFacts
  <1>3. PICK b \in Nat : <<Head(tasks), a, b>> \in Counts /\ Path(Counts, Nat, Tail(tasks), b, 0)
    BY <1>1, <1>2, PathTail
  <1>4. Adds(Todo) + b <= a
    <2> HIDE DEF AnyTask
    <2>. QED  BY <1>3 DEF Counts, Todo
  <1>5. Len(envs[Current].variables) \in Nat /\ envs[Current].capacity \in Nat
    <2>1. Current \in 1 .. Len(envs)
      BY DEF IInv, Matched, Typed, Current
    <2>. QED  BY <2>1, EnvFacts
  <1>. QED  BY <1>1, <1>2, <1>3, <1>4, <1>5

(* A step that leaves the environments alone, and tasks that need no more. *)
LEMMA RoomKept ==
  ASSUME IInv, Sized, status = "run", tasks # <<>>, UNCHANGED <<program, envs, status>>,
         Len(functions') = Len(functions), Len(lambdas') <= MaxLambdas,
         NEW ts \in Seq(AnyTask), Follow(ts), Regular => Loads(ts, Adds(Todo))
  PROVE  Sized'
  <1>1. ASSUME Regular
        PROVE  \E a \in Nat : /\ Path(Counts, Nat, tasks', a, 0)
                              /\ Len(envs[Current].variables) + a <= envs[Current].capacity
    <2>1. PICK b \in Nat : /\ Path(Counts, Nat, Tail(tasks), b, 0)
                           /\ Len(envs[Current].variables) + (Adds(Todo) + b)
                                <= envs[Current].capacity
      BY <1>1, RoomForTail
    <2>2. /\ Len(envs[Current].variables) \in Nat /\ envs[Current].capacity \in Nat
          /\ Adds(Todo) \in Nat /\ Tail(tasks) \in Seq(AnyTask)
      BY <1>1, RoomForTail, TasksFacts
    <2>3. PICK a \in Nat : a <= Adds(Todo) + b /\ Path(Counts, Nat, ts, a, b)
      BY <1>1 DEF Loads
    <2>4. Path(Counts, Nat, ts \o Tail(tasks), a, 0)
      <3> HIDE DEF AnyTask
      <3>. QED  BY <2>1, <2>2, <2>3, PathsJoin
    <2>5. Len(envs[Current].variables) + a <= envs[Current].capacity
      BY <2>1, <2>2, <2>3
    <2>. QED  BY <2>4, <2>5 DEF Follow
  <1>2. Regular' = Regular /\ Current' = Current /\ envs' = envs /\ status' = "run"
    BY RegularKept DEF Current
  <1>3. status' = "run" /\ Regular' =>
          \E a \in Nat : /\ Path(Counts, Nat, tasks', a, 0)
                         /\ Len(envs'[Current'].variables) + a <= envs'[Current'].capacity
    BY <1>1, <1>2
  <1>4. TablesLargeEnough'
    BY <1>2 DEF TablesLargeEnough
  <1>. QED  BY <1>3, <1>4 DEF Sized

(* A step that ends the generation.                                        *)
LEMMA EndSized ==
  ASSUME Sized, UNCHANGED <<program, lambdas>>, status' # "run",
         status' = "overrun" /\ Regular => Len(lambdas) = MaxLambdas
  PROVE  Sized'
  <1>1. Regular' = Regular
    BY RegularKept
  <1>2. TablesLargeEnough'
    BY <1>1 DEF TablesLargeEnough, Regular
  <1>. QED  BY <1>2 DEF Sized

(* A step that looks for a variable, or finds one.                         *)
PlainStep ==
  /\ status = "run" /\ tasks # <<>>
  /\ \E ts : /\ Follow(ts)
             /\ ts = <<>> \/ \E s \in AnyTask : s.do = "scan" /\ ts = <<s>>
  /\ Len(functions') = Len(functions)
  /\ UNCHANGED <<program, envs, lambdas, status>>

(* A scan begins.                                                          *)
LEMMA ScanHerePlain ==
  ASSUME IInv, NEW do, Doing(do), NEW op \in {"get", "set"}, NEW var \in Variables,
         ScanHere(op, var), UNCHANGED <<program, envs, lambdas, stdout, status>>
  PROVE  PlainStep
  <1>1. PICK s : s = Scan(op, var, Current)
    OBVIOUS
  <1>2. s \in AnyTask /\ s.do = "scan"
    <2>1. Len(envs) \in Nat /\ Current \in 0 .. Len(envs)
      <3>1. envs \in Seq([enclosing : Nat, capacity : Nat, variables : Seq(Variables)])
              /\ Current \in 1 .. Len(envs)
        BY TodoFacts DEF Typed
      <3>. QED  BY <3>1
    <2>2. s \in Tasks(Len(envs))
      BY <1>1, <2>1, TaskFacts
    <2>. QED  BY <1>1, <2>1, <2>2 DEF AnyTask, Scan
  <1>3. Follow(<<s>>) /\ \E ls : Write(ls)
    BY <1>1 DEF ScanHere
  <1>4. Len(functions') = Len(functions) /\ status = "run" /\ tasks # <<>>
    BY <1>3, SameFunctions, TodoFacts
  <1> HIDE DEF AnyTask
  <1>. QED  BY <1>2, <1>3, <1>4 DEF PlainStep

(* The steps that look for variables.                                      *)
LEMMA LookingIsPlain ==
  ASSUME IInv, GenVariable \/ SetVariable \/ FoundVariable \/ ScanOutwards \/ RebindDefinition
  PROVE  PlainStep
  <1>1. CASE GenVariable
    <2>1. Doing("gen") /\ Kind(Exp) = "identifier" /\ ScanHere("get", Exp.identifier)
          /\ UNCHANGED <<program, envs, lambdas, stdout, status>>
      BY <1>1 DEF GenVariable, Generating
    <2>2. Exp.identifier \in Variables
      BY <2>1, TodoFacts DEF Variables
    <2>. QED  BY <2>1, <2>2, ScanHerePlain
  <1>2. CASE SetVariable
    <2>1. Doing("assign") /\ ScanHere("set", Defined)
          /\ UNCHANGED <<program, envs, lambdas, stdout, status>>
      BY <1>2 DEF SetVariable
    <2>. QED  BY <2>1, DefinedFacts, ScanHerePlain
  <1>3. CASE FoundVariable \/ RebindDefinition
    <2>1. PICK do : Doing(do) /\ Follow(<<>>) /\ (\E ls : Write(ls))
                    /\ UNCHANGED <<program, envs, lambdas, stdout, status>>
      BY <1>3 DEF FoundVariable, RebindDefinition, Return
    <2>2. Len(functions') = Len(functions) /\ status = "run" /\ tasks # <<>>
      BY <2>1, SameFunctions, TodoFacts
    <2>. QED  BY <2>1, <2>2 DEF PlainStep
  <1>4. CASE ScanOutwards
    <2>1. PICK s : s = Scan(Todo.op, Todo.var, envs[Todo.env].enclosing)
      OBVIOUS
    <2>2. Doing("scan") /\ Todo.env # 0 /\ Write(<<Line("outer")>>) /\ Follow(<<s>>)
          /\ UNCHANGED <<program, envs, lambdas, stdout, status>>
      BY <1>4, <2>1 DEF ScanOutwards
    <2>3. Todo.op \in {"get", "set"} /\ Todo.var \in Variables
          /\ Todo.env \in 1 .. Len(envs) /\ Len(envs) \in Nat /\ Len(envs) = Len(functions)
      BY <2>2, ScannedFacts
    <2>4. envs[Todo.env].enclosing \in 0 .. Len(envs)
      BY <2>2, <2>3, TodoFacts DEF Matched
    <2>5. s \in Tasks(Len(envs)) /\ s.do = "scan"
      BY <2>1, <2>3, <2>4, TaskFacts DEF Scan
    <2>6. s \in AnyTask
      BY <2>3, <2>5 DEF AnyTask
    <2>7. \E ls : Write(ls)
      BY <2>2
    <2>8. Len(functions') = Len(functions) /\ status = "run" /\ tasks # <<>>
      BY <2>2, <2>7, SameFunctions, TodoFacts
    <2> HIDE DEF AnyTask
    <2>. QED  BY <2>2, <2>5, <2>6, <2>8 DEF PlainStep
  <1>. QED  BY <1>1, <1>2, <1>3, <1>4

(* The handlers that split their tasks.                                    *)
LEMMA SplittingIsQuiet ==
  ASSUME IInv, Traced,
         \/ EmitLines \/ GenLiteral \/ GenDefinition \/ GenAssignment \/ GenIf
         \/ GenConsequent \/ GenAlternative \/ GenBegin \/ GenApplication
  PROVE  QuietStep
  BY EmitLinesQuiet, GenLiteralQuiet, ValueQuiet, GenIfQuiet, GenConsequentQuiet,
     GenAlternativeQuiet, GenBeginQuiet, GenApplicationQuiet

(* These leave the tables large enough.                                    *)
LEMMA QuietSized ==
  ASSUME IInv, Traced, Sized, QuietStep
  PROVE  Traced' /\ Sized'
  <1>1. PICK ts : Splits(ts)
    BY DEF QuietStep
  <1>2. /\ status = "run" /\ tasks # <<>> /\ Len(functions') = Len(functions)
        /\ UNCHANGED <<program, envs, lambdas, status>>
    BY DEF QuietStep
  <1>3. Follow(ts) /\ ts \in Seq(Source) /\ (Regular => Loads(ts, Adds(Todo)))
    BY <1>1 DEF Splits
  <1>4. ts \in Seq(AnyTask)
    <2>1. Source \subseteq AnyTask
      BY DEF Source
    <2>. QED  BY <1>3, <2>1, SeqMonotonic, Zenon
  <1>5. Traced'
    BY <1>2, <1>3, TracedStep
  <1>6. Len(lambdas') <= MaxLambdas
    BY <1>2 DEF Sized
  <1>7. Sized'
    BY <1>2, <1>3, <1>4, <1>6, RoomKept
  <1>. QED  BY <1>5, <1>7

(* And so do those.                                                        *)
LEMMA PlainSized ==
  ASSUME IInv, Traced, Sized, PlainStep
  PROVE  Traced' /\ Sized'
  <1>1. PICK ts : /\ Follow(ts)
                  /\ ts = <<>> \/ \E s \in AnyTask : s.do = "scan" /\ ts = <<s>>
    BY DEF PlainStep
  <1>2. /\ status = "run" /\ tasks # <<>> /\ Len(functions') = Len(functions)
        /\ UNCHANGED <<program, envs, lambdas, status>>
    BY DEF PlainStep
  <1>3. Adds(Todo) \in Nat
    BY <1>2, TasksFacts, AddsFacts
  <1>4. ts \in Seq(AnyTask) /\ Loads(ts, Adds(Todo))
    <2>1. CASE ts = <<>>
      BY <1>3, <2>1, LoadsNone
    <2>2. CASE \E s \in AnyTask : s.do = "scan" /\ ts = <<s>>
      <3>1. PICK s \in AnyTask : s.do = "scan" /\ ts = <<s>>
        BY <2>2
      <3>2. Adds(s) = 0
        BY <3>1 DEF Adds
      <3>3. Loads(<<s>>, Adds(Todo))
        BY <1>3, <3>2, LoadsOne
      <3> HIDE DEF AnyTask
      <3>. QED  BY <3>1, <3>3
    <2>. QED  BY <1>1, <2>1, <2>2
  <1>5. Traced'
    <2>1. <<>> \in Seq(Source)
      OBVIOUS
    <2>2. ts \in Seq(Source) \/ \E s \in AnyTask : s.do = "scan" /\ ts = <<s>>
      BY <1>1, <2>1, Zenon
    <2>. QED  BY <1>1, <1>2, <2>2, TracedStep
  <1>6. Len(lambdas') <= MaxLambdas
    BY <1>2 DEF Sized
  <1>7. Sized'
    BY <1>1, <1>2, <1>4, <1>6, RoomKept
  <1>. QED  BY <1>5, <1>7

-----------------------------------------------------------------------------
(* What the steps that change the tables do to them.                       *)

(* A definition adds a name to the current environment.                    *)
LEMMA BindFacts ==
  ASSUME IInv, BindDefinition
  PROVE  /\ Doing("bind") /\ Follow(<<>>) /\ Current \in 1 .. Len(envs) /\ ~ Full
         /\ Defined \in Variables /\ Address(Defined, Current) = 0
         /\ Len(functions') = Len(functions) /\ Len(envs') = Len(envs)
         /\ \A e \in 1 .. Len(envs) :
              /\ envs'[e].enclosing = envs[e].enclosing /\ envs'[e].capacity = envs[e].capacity
              /\ envs'[e].variables =
                   IF e = Current THEN Append(envs[e].variables, Defined) ELSE envs[e].variables
         /\ UNCHANGED <<program, lambdas, status>>
  <1>1. /\ Doing("bind") /\ Follow(<<>>) /\ ~ Full /\ Address(Defined, Current) = 0
        /\ envs' = [envs EXCEPT ![Current].variables = Append(@, Defined)]
        /\ UNCHANGED <<program, lambdas, status>> /\ \E ls : Write(ls)
    BY DEF BindDefinition, Return
  <1>2. /\ Current \in 1 .. Len(envs) /\ Defined \in Variables
        /\ Len(functions') = Len(functions) /\ Typed
    BY <1>1, TodoFacts, DefinedFacts, SameFunctions
  <1>3. PICK E : E = [enclosing : Nat, capacity : Nat, variables : Seq(Variables)]
    OBVIOUS
  <1>4. envs \in Seq(E)
    BY <1>2, <1>3 DEF Typed
  <1>5. PICK c \in 1 .. Len(envs) : c = Current
    BY <1>2
  <1>6. PICK vs : vs = Append(envs[c].variables, Defined)
    OBVIOUS
  <1>7. vs \in Seq(Variables) /\ envs[c] \in [enclosing : Nat, capacity : Nat, variables : Seq(Variables)]
    <2>1. envs[c].variables \in Seq(Variables)
      BY EnvFacts
    <2>2. vs \in Seq(Variables)
      <3> HIDE DEF Variables
      <3>. QED  BY <1>2, <1>6, <2>1
    <2>. QED  BY <2>2, EnvFacts
  <1>8. PICK new : new = [envs[c] EXCEPT !.variables = vs]
    OBVIOUS
  <1>9. /\ new \in E /\ new.variables = vs /\ new.enclosing = envs[c].enclosing
        /\ new.capacity = envs[c].capacity
    <2> HIDE DEF Variables
    <2>. QED  BY <1>3, <1>7, <1>8
  <1>10. envs' = [envs EXCEPT ![c] = new]
    BY <1>1, <1>4, <1>5, <1>6, <1>8
  <1>11. Len(envs') = Len(envs) /\ \A e \in 1 .. Len(envs) : envs'[e] = IF e = c THEN new ELSE envs[e]
    BY ONLY <1>4, <1>5, <1>9, <1>10
  <1>12. ASSUME NEW e \in 1 .. Len(envs)
         PROVE  /\ envs'[e].enclosing = envs[e].enclosing /\ envs'[e].capacity = envs[e].capacity
                /\ envs'[e].variables =
                     IF e = Current THEN Append(envs[e].variables, Defined) ELSE envs[e].variables
    <2>1. CASE e = c
      BY <1>5, <1>6, <1>9, <1>11, <2>1
    <2>2. CASE e # c
      BY <1>5, <1>11, <2>2
    <2>. QED  BY <2>1, <2>2
  <1>. QED  BY <1>1, <1>2, <1>11, <1>12

(* A lambda expression is added to those that wait.                        *)
LEMMA ProcedureFacts ==
  ASSUME IInv, GenProcedure
  PROVE  /\ Doing("gen") /\ Kind(Exp) = "lambda" /\ Follow(<<>>) /\ Len(lambdas) < MaxLambdas
         /\ Len(functions') = Len(functions) /\ Len(lambdas) \in Nat
         /\ Len(lambdas') = Len(lambdas) + 1
         /\ \A k \in 1 .. Len(lambdas) : lambdas'[k] = lambdas[k]
         /\ lambdas'[Len(lambdas) + 1].exp = Exp
         /\ lambdas'[Len(lambdas) + 1].env = Current
         /\ UNCHANGED <<program, envs, status>>
  <1>1. /\ Doing("gen") /\ Kind(Exp) = "lambda" /\ Follow(<<>>) /\ Len(lambdas) < MaxLambdas
        /\ UNCHANGED <<program, envs, status>> /\ \E ls : Write(ls)
        /\ lambdas' = Append(lambdas, Registered(Exp))
    BY DEF GenProcedure, Generating, Return
  <1>2. Len(functions') = Len(functions)
    BY <1>1, SameFunctions
  <1>3. PICK L : L = [exp : LambdaNodes, env : Nat]
    OBVIOUS
  <1>4. lambdas \in Seq(L)
    BY <1>3 DEF IInv, Typed
  <1>5. PICK r : r = Registered(Exp)
    OBVIOUS
  <1>6. /\ Len(lambdas) \in Nat /\ Len(lambdas') = Len(lambdas) + 1
        /\ \A k \in 1 .. Len(lambdas) : lambdas'[k] = lambdas[k]
        /\ lambdas'[Len(lambdas) + 1] = r
    BY <1>1, <1>4, <1>5
  <1>7. r.exp = Exp /\ r.env = Current
    BY <1>5 DEF Registered
  <1>. QED  BY <1>1, <1>2, <1>6, <1>7

(* The body of a lambda expression is generated in a new environment.      *)
LEMMA LambdaTaken ==
  ASSUME IInv, GenLambda
  PROVE  \E n \in Nat \ {0}, x \in LambdaNodes, benv \in Nat :
           /\ benv \in 1 .. n
           /\ status = "run" /\ tasks = <<>> /\ Len(functions) = n /\ Len(envs) = n
           /\ Len(lambdas) \in Nat /\ n <= Len(lambdas) /\ lambdas[n].exp = x /\ lambdas[n].env = benv
           /\ LambdaFormed(x)
           /\ tasks' = GenAll(BodyOf(x)) \o <<Emit(<<Line("return")>>)>>
           /\ Len(functions') = n + 1 /\ Len(envs') = n + 1
           /\ \A e \in 1 .. n : envs'[e] = envs[e]
           /\ envs'[n + 1].enclosing = benv /\ envs'[n + 1].capacity = NumBindings(x)
           /\ envs'[n + 1].variables =
                [i \in 1 .. Length(Parameters(x)) |-> Parameters(x).items[i].identifier]
           /\ UNCHANGED <<program, lambdas, status>>
  <1>1. PICK n, x, benv, params :
          /\ n = Len(functions) /\ x = NextLambda /\ benv = lambdas[Len(functions)].env
          /\ params = [i \in 1 .. Length(Parameters(x)) |-> Parameters(x).items[i].identifier]
    OBVIOUS
  <1>2. PICK env, fun :
          /\ env = [enclosing |-> benv, capacity |-> NumBindings(x), variables |-> params]
          /\ envs' = Append(envs, env) /\ functions' = Append(functions, fun)
    BY <1>1 DEF GenLambda
  <1>3. /\ LambdaIsNext /\ LambdaFormed(x)
        /\ tasks' = GenAll(BodyOf(x)) \o <<Emit(<<Line("return")>>)>>
        /\ UNCHANGED <<program, lambdas, status>>
    BY <1>1 DEF GenLambda
  <1>4. Typed /\ Matched /\ status = "run" /\ tasks = <<>> /\ Len(functions) <= Len(lambdas)
    BY <1>3 DEF IInv, LambdaIsNext
  <1>5. PICK E, F : /\ E = [enclosing : Nat, capacity : Nat, variables : Seq(Variables)]
                    /\ F = [parent : Nat, size : Nat, body : Seq(Lines)]
    OBVIOUS
  <1>6. /\ envs \in Seq(E) /\ functions \in Seq(F)
        /\ lambdas \in Seq([exp : LambdaNodes, env : Nat])
    BY <1>4, <1>5 DEF Typed
  <1>7. /\ Len(lambdas) \in Nat /\ n \in Nat \ {0} /\ Len(functions) = n /\ Len(envs) = n
        /\ n <= Len(lambdas) /\ n \in 1 .. Len(lambdas)
    <2>1. Len(lambdas) \in Nat /\ Len(functions) \in Nat
      BY ONLY <1>6
    <2>2. Len(functions) > 0 /\ Len(envs) = Len(functions)
      BY <1>4 DEF Matched
    <2>. QED  BY <1>1, <1>4, <2>1, <2>2
  <1>8. lambdas[n] \in [exp : LambdaNodes, env : Nat] /\ lambdas[n].env \in 1 .. n
    BY <1>4, <1>6, <1>7, ElementOfSeq DEF Matched
  <1>9. x \in LambdaNodes /\ benv \in 1 .. n /\ lambdas[n].exp = x /\ lambdas[n].env = benv
    BY <1>1, <1>8 DEF NextLambda
  <1>10. /\ Len(functions') = n + 1 /\ Len(envs') = n + 1
         /\ \A e \in 1 .. n : envs'[e] = envs[e]
         /\ envs'[n + 1] = env
    BY <1>2, <1>6, <1>7
  <1>11. env.enclosing = benv /\ env.capacity = NumBindings(x) /\ env.variables = params
    BY <1>2
  <1>. n \in Nat \ {0} /\ x \in LambdaNodes /\ benv \in Nat
    BY <1>7, <1>9
  <1> WITNESS n \in Nat \ {0}, x \in LambdaNodes, benv \in Nat
  <1>. QED  BY <1>1, <1>3, <1>4, <1>7, <1>9, <1>10, <1>11

(* main is generated in the environment of the primitive procedures.       *)
LEMMA MainFacts ==
  ASSUME IInv, GenMain
  PROVE  /\ status = "start" /\ status' = "run" /\ lambdas = <<>> /\ UNCHANGED <<program, lambdas>>
         /\ tasks' = <<Gen(program), Emit(<<Line("exit")>>)>>
         /\ Len(functions') = 1 /\ Len(envs') = 1
         /\ envs'[1].enclosing = 0 /\ envs'[1].variables = PrimitiveProcedureVariables
         /\ envs'[1].capacity = Len(PrimitiveProcedureVariables)
         /\ Len(PrimitiveProcedureVariables) \in Nat
  <1>1. PICK env, fun :
          /\ env = [enclosing |-> 0, capacity |-> NumPrimitives,
                    variables |-> PrimitiveProcedureVariables]
          /\ envs' = <<env>> /\ functions' = <<fun>>
    BY DEF GenMain
  <1>2. /\ status = "start" /\ status' = "run" /\ UNCHANGED <<program, lambdas>>
        /\ tasks' = <<Gen(program), Emit(<<Line("exit")>>)>>
    BY DEF GenMain
  <1>3. lambdas = <<>>
    BY <1>2 DEF IInv, Printed
  <1>4. Len(functions') = 1 /\ Len(envs') = 1 /\ envs'[1] = env
    BY <1>1
  <1>5. /\ env.enclosing = 0 /\ env.variables = PrimitiveProcedureVariables
        /\ env.capacity = NumPrimitives
    BY <1>1
  <1>6. Len(PrimitiveProcedureVariables) = 18
    BY DEF PrimitiveProcedureVariables
  <1>. QED  BY <1>2, <1>3, <1>4, <1>5, <1>6 DEF NumPrimitives

-----------------------------------------------------------------------------
(* The tables are large enough after these steps, too.                     *)

(* A task that is done is followed by those behind it.                     *)
LEMMA NothingFollows ==
  ASSUME IInv, tasks # <<>>, Follow(<<>>)
  PROVE  tasks' = Tail(tasks) /\ tasks' \in Seq(AnyTask)
  <1>1. Tail(tasks) \in Seq(AnyTask)
    BY TasksFacts
  <1>2. <<>> \o Tail(tasks) = Tail(tasks)
    <2> HIDE DEF AnyTask
    <2>. QED  BY <1>1
  <1>. QED  BY <1>1, <1>2 DEF Follow

(* Adding a name takes the place that was kept for it.                     *)
LEMMA BindSized ==
  ASSUME IInv, Traced, Sized, BindDefinition
  PROVE  Traced' /\ Sized'
  <1>1. PICK c \in 1 .. Len(envs) : c = Current
    BY BindFacts
  <1>2. /\ Doing("bind") /\ Follow(<<>>) /\ Defined \in Variables
        /\ Len(functions') = Len(functions)
        /\ envs'[c].capacity = envs[c].capacity
        /\ envs'[c].variables = Append(envs[c].variables, Defined)
        /\ UNCHANGED <<program, lambdas, status>>
    BY <1>1, BindFacts
  <1>3. status = "run" /\ tasks # <<>> /\ Todo.do = "bind" /\ Current' = c
    BY <1>1, <1>2, DoingFacts DEF Current
  <1>4. tasks' = Tail(tasks)
    BY <1>2, <1>3, NothingFollows
  <1>5. Traced'
    <2>1. <<>> \in Seq(Source)
      OBVIOUS
    <2>. QED  BY <1>2, <1>3, <2>1, TracedStep
  <1>6. Len(envs'[c].variables) = Len(envs[c].variables) + 1
    <2>1. envs[c].variables \in Seq(Variables)
      BY <1>1, EnvFacts
    <2> HIDE DEF Variables
    <2>. QED  BY <1>2, <2>1
  <1>7. ASSUME Regular
        PROVE  \E b \in Nat : /\ Path(Counts, Nat, tasks', b, 0)
                              /\ Len(envs'[c].variables) + b <= envs'[c].capacity
    <2>1. PICK b \in Nat : /\ Path(Counts, Nat, Tail(tasks), b, 0)
                           /\ Len(envs[c].variables) + (Adds(Todo) + b) <= envs[c].capacity
      BY <1>1, <1>3, <1>7, RoomForTail
    <2>2. Len(envs[c].variables) \in Nat /\ envs[c].capacity \in Nat
      BY <1>1, EnvFacts
    <2>3. Adds(Todo) = 1
      BY <1>3 DEF Adds
    <2>4. Len(envs'[c].variables) + b <= envs'[c].capacity
      <3>1. envs'[c].capacity = envs[c].capacity
        BY <1>2
      <3>2. \A v, w, z \in Nat : v + (1 + b) <= z /\ w = v + 1 => w + b <= z
        OBVIOUS
      <3>3. Len(envs[c].variables) + (1 + b) <= envs[c].capacity
        BY <2>1, <2>3, Zenon
      <3>4. Len(envs[c].variables) + 1 \in Nat
        BY <2>2
      <3>5. Len(envs'[c].variables) \in Nat
        BY <1>6, <3>4, Zenon
      <3>6. Len(envs'[c].variables) + b <= envs[c].capacity
        BY ONLY <1>6, <2>2, <3>2, <3>3, <3>5
      <3>. QED  BY <3>1, <3>6, Zenon
    <2>. QED  BY <1>4, <2>1, <2>4
  <1>8. Regular' = Regular
    BY <1>2, RegularKept
  <1>9. TablesLargeEnough' /\ Len(lambdas') <= MaxLambdas
    BY <1>2, <1>3 DEF TablesLargeEnough, Sized
  <1>. QED  BY <1>3, <1>5, <1>7, <1>8, <1>9 DEF Sized

(* Registering a lambda expression adds no definition.                     *)
LEMMA GenProcedureSized ==
  ASSUME IInv, Traced, Sized, GenProcedure
  PROVE  Traced' /\ Sized'
  <1>1. PICK m \in Nat : m = Len(lambdas)
    BY ProcedureFacts
  <1>2. /\ Doing("gen") /\ Follow(<<>>) /\ m < MaxLambdas
        /\ Len(functions') = Len(functions) /\ Len(lambdas') = m + 1
        /\ \A k \in 1 .. m : lambdas'[k] = lambdas[k]
        /\ lambdas'[m + 1].exp = Exp
        /\ UNCHANGED <<program, envs, status>>
    BY <1>1, ProcedureFacts
  <1>3. /\ status = "run" /\ tasks # <<>> /\ Exp \in Expressions /\ Adds(Todo) \in Nat
    BY <1>2, DoingFacts
  <1>4. tasks' = Tail(tasks)
    BY <1>2, <1>3, NothingFollows
  <1>5. /\ Expressions' = Expressions /\ Source' = Source /\ \A s : Reaches(s)' = Reaches(s)
    BY <1>2, ProgramKept
  <1>6. \A k \in 1 .. Len(lambdas') : lambdas'[k].exp \in Expressions
    <2> TAKE k \in 1 .. Len(lambdas')
    <2>1. CASE k \in 1 .. m
      BY <1>1, <1>2, <2>1 DEF Traced
    <2>2. CASE k = m + 1
      BY <1>2, <1>3, <2>2
    <2>. QED  BY <1>2, <2>1, <2>2
  <1>7. tasks' # <<>> => Reaches(Head(tasks')) /\ Tail(tasks') \in Seq(Source)
    <2>1. tasks' \in Seq(Source)
      BY <1>3, <1>4 DEF Traced
    <2>2. tasks' # <<>> => Head(tasks') \in Source /\ Tail(tasks') \in Seq(Source)
      BY <2>1, TailFacts
    <2>. QED  BY <2>2 DEF Source
  <1>8. Traced'
    <2>1. Reaches(Head(tasks))' = Reaches(Head(tasks'))
      BY <1>5 DEF Reaches
    <2>. QED  BY <1>5, <1>6, <1>7, <2>1 DEF Traced
  <1>9. Len(lambdas') <= MaxLambdas
    BY <1>1, <1>2, NodesAssumption
  <1>10. <<>> \in Seq(AnyTask) /\ Loads(<<>>, Adds(Todo))
    BY <1>3, LoadsNone
  <1>11. Sized'
    BY <1>2, <1>3, <1>9, <1>10, RoomKept
  <1>. QED  BY <1>8, <1>11

(* The environment of a body has room for its parameters and definitions.  *)
LEMMA GenLambdaSized ==
  ASSUME IInv, Traced, Sized, GenLambda
  PROVE  Traced' /\ Sized'
  <1>1. PICK n \in Nat \ {0}, x \in LambdaNodes :
          /\ status = "run" /\ Len(functions) = n /\ Len(lambdas) \in Nat
          /\ n <= Len(lambdas) /\ lambdas[n].exp = x /\ LambdaFormed(x)
          /\ tasks' = GenAll(BodyOf(x)) \o <<Emit(<<Line("return")>>)>>
          /\ Len(functions') = n + 1
          /\ envs'[n + 1].capacity = NumBindings(x)
          /\ envs'[n + 1].variables =
               [i \in 1 .. Length(Parameters(x)) |-> Parameters(x).items[i].identifier]
          /\ UNCHANGED <<program, lambdas, status>>
    BY LambdaTaken
  <1>2. x \in Expressions /\ Kind(x) = "lambda" /\ n \in 1 .. Len(lambdas)
    BY <1>1 DEF Traced, LambdaNodes
  <1>3. PICK body, e, k :
          body = BodyOf(x) /\ e = Emit(<<Line("return")>>) /\ k = Length(Parameters(x))
    OBVIOUS
  <1>4. /\ body \in Seq(Nodes) /\ k \in Nat
        /\ [i \in 1 .. k |-> Parameters(x).items[i].identifier] \in Seq(Variables)
    BY <1>1, <1>3, LambdaFacts
  <1>5. \A i \in 1 .. Len(body) : body[i] \in Expressions
    <2>1. body = BodyParts(x)
      BY <1>1, <1>2, <1>3 DEF BodyParts
    <2>2. \A y \in Range(body) : y \in Expressions
      BY <1>2, <2>1, ExpressionFacts
    <2>. QED  BY <1>4, <2>2, Elements
  <1>6. <<Line("return")>> \in Seq(Common)
    BY LineFacts DEF PlainOps
  <1>7. e \in Source /\ GenAll(body) \in Seq(Source)
    BY <1>3, <1>4, <1>5, <1>6, SourceFacts
  <1>8. tasks' \in Seq(Source)
    <2>1. PICK ts \in Seq(Source) : ts = GenAll(body)
      BY <1>7
    <2>2. ts \o <<e>> \in Seq(Source)
      <3> HIDE DEF Source
      <3>. QED  BY <1>7, <2>1
    <2>. QED  BY <1>1, <1>3, <2>1, <2>2
  <1>9. Traced'
    <2>1. /\ Expressions' = Expressions /\ Source' = Source /\ \A s : Reaches(s)' = Reaches(s)
      BY <1>1, ProgramKept
    <2>2. tasks' # <<>> => Reaches(Head(tasks')) /\ Tail(tasks') \in Seq(Source)
      <3>1. tasks' # <<>> => Head(tasks') \in Source /\ Tail(tasks') \in Seq(Source)
        BY <1>8, TailFacts
      <3>. QED  BY <3>1 DEF Source
    <2>3. Reaches(Head(tasks))' = Reaches(Head(tasks'))
      BY <2>1 DEF Reaches
    <2>4. \A j \in 1 .. Len(lambdas') : lambdas'[j].exp \in Expressions
      BY <1>1 DEF Traced
    <2>. QED  BY <2>1, <2>2, <2>3, <2>4 DEF Traced
  <1>10. ASSUME Regular
         PROVE  \E a \in Nat : /\ Path(Counts, Nat, tasks', a, 0)
                               /\ Len(envs'[n + 1].variables) + a <= envs'[n + 1].capacity
    <2>1. PICK m \in Nat : m = CountDefinitions(List(body)) /\ Carries(body, m)
      BY <1>1, <1>2, <1>3, <1>10, BodyCarried
    <2>2. PICK ts : ts = GenAll(body) /\ ts \in Seq(AnyTask)
      BY <1>4, AnyTaskFacts
    <2>3. e \in AnyTask /\ Adds(e) = 0
      BY <1>3, <1>6, AnyTaskFacts DEF Adds, Emit
    <2>4. <<e>> \in Seq(AnyTask)
      <3> HIDE DEF AnyTask
      <3>. QED  BY <2>3
    <2>5. Loads(ts, m) /\ Loads(<<e>>, 0)
      BY <1>4, <2>1, <2>2, <2>3, LoadsAll, LoadsOne
    <2>6. Loads(ts \o <<e>>, m)
      <3>1. m + 0 <= m
        OBVIOUS
      <3> HIDE DEF AnyTask
      <3>. QED  BY <2>2, <2>4, <2>5, <3>1, LoadsJoined
    <2>7. PICK a \in Nat : a <= m + 0 /\ Path(Counts, Nat, ts \o <<e>>, a, 0)
      BY <2>6 DEF Loads
    <2>8. Len(envs'[n + 1].variables) = k
      BY <1>1, <1>3, <1>4
    <2>9. envs'[n + 1].capacity = k + m
      BY <1>1, <1>3, <2>1 DEF NumBindings
    <2>10. Len(envs'[n + 1].variables) + a <= envs'[n + 1].capacity
      BY <1>4, <2>7, <2>8, <2>9
    <2>. QED  BY <1>1, <1>3, <2>2, <2>7, <2>10
  <1>11. Regular' = Regular /\ Current' = n + 1
    BY <1>1, RegularKept DEF Current
  <1>12. TablesLargeEnough' /\ Len(lambdas') <= MaxLambdas
    BY <1>1 DEF TablesLargeEnough, Sized
  <1>. QED  BY <1>9, <1>10, <1>11, <1>12 DEF Sized

(* A regular program defines nothing in main.                              *)
LEMMA GenMainSized ==
  ASSUME IInv, GenMain
  PROVE  Traced' /\ Sized'
  <1>1. PICK g, e : g = Gen(program) /\ e = Emit(<<Line("exit")>>)
    OBVIOUS
  <1>2. /\ status' = "run" /\ lambdas = <<>> /\ UNCHANGED <<program, lambdas>>
        /\ tasks' = <<g, e>> /\ Len(functions') = 1
        /\ envs'[1].variables = PrimitiveProcedureVariables
        /\ envs'[1].capacity = Len(PrimitiveProcedureVariables)
        /\ Len(PrimitiveProcedureVariables) \in Nat
    BY <1>1, MainFacts
  <1>3. <<Line("exit")>> \in Seq(Common)
    BY LineFacts DEF PlainOps
  <1>4. g \in Source /\ e \in Source
    BY <1>1, <1>3, ExpressionFacts, SourceFacts
  <1>5. <<g, e>> \in Seq(Source)
    BY <1>4, TwoTasks
  <1>6. Traced'
    <2>1. /\ Expressions' = Expressions /\ Source' = Source /\ \A s : Reaches(s)' = Reaches(s)
      BY <1>2, ProgramKept
    <2>2. Head(tasks') = g /\ Tail(tasks') \in Seq(Source)
      <3>1. Head(<<g, e>>) = g /\ Tail(<<g, e>>) \in Seq(Source)
        BY <1>5, TailFacts
      <3>. QED  BY <1>2, <3>1
    <2>3. Reaches(Head(tasks')) = Reaches(Head(tasks))' /\ Reaches(g)
      BY <1>4, <2>1 DEF Source, Reaches
    <2>4. \A j \in 1 .. Len(lambdas') : lambdas'[j].exp \in Expressions
      BY <1>2
    <2>. QED  BY <2>1, <2>2, <2>3, <2>4 DEF Traced
  <1>7. ASSUME Regular
        PROVE  \E a \in Nat : /\ Path(Counts, Nat, tasks', a, 0)
                              /\ Len(envs'[1].variables) + a <= envs'[1].capacity
    <2>1. Definitions(program) = {}
      BY <1>7 DEF Regular, DefinesInMain
    <2>2. Adds(g) = 0 /\ Adds(e) = 0
      BY <1>1, <2>1 DEF Adds, Gen, Emit, Weight
    <2>3. Loads(<<g, e>>, 0)
      BY <1>4, <2>2, TwoTasks
    <2>4. PICK a \in Nat : a <= 0 + 0 /\ Path(Counts, Nat, <<g, e>>, a, 0)
      BY <2>3 DEF Loads
    <2>5. Len(envs'[1].variables) + a <= envs'[1].capacity
      BY <1>2, <2>4
    <2>. QED  BY <1>2, <2>4, <2>5
  <1>8. Regular' = Regular /\ Current' = 1
    BY <1>2, RegularKept DEF Current
  <1>9. TablesLargeEnough' /\ Len(lambdas') <= MaxLambdas
    BY <1>2, NodesAssumption DEF TablesLargeEnough
  <1>. QED  BY <1>2, <1>6, <1>7, <1>8, <1>9 DEF Sized

(* What is not generated ends the generation.                              *)
LEMMA FailSized ==
  ASSUME IInv, Traced, Sized, IllegalNodeType \/ UnboundVariable \/ Unimplemented \/ Overrun
  PROVE  Traced' /\ Sized'
  <1>1. PICK reason : /\ reason \in {"illegal", "unbound", "unimplemented", "overrun"}
                      /\ Fail(reason) /\ (reason = "overrun" => Overrun)
    BY DEF IllegalNodeType, UnboundVariable, Unimplemented, Overrun
  <1>2. status' = reason /\ UNCHANGED <<program, tasks, envs, lambdas, functions>>
    BY <1>1 DEF Fail
  <1>3. Traced'
    <2>1. /\ Expressions' = Expressions /\ Source' = Source /\ \A s : Reaches(s)' = Reaches(s)
      BY <1>2, ProgramKept
    <2>2. Reaches(Head(tasks))' = Reaches(Head(tasks'))
      BY <2>1 DEF Reaches
    <2>3. Reaches(Head(tasks')) = Reaches(Head(tasks))
      BY <1>2
    <2>. QED  BY <1>2, <2>1, <2>2, <2>3 DEF Traced
  <1>4. ASSUME reason = "overrun", Regular  PROVE Len(lambdas) = MaxLambdas
    <2>1. \/ Doing("bind") /\ Full
          \/ Generating("lambda") /\ Len(lambdas) >= MaxLambdas
      BY <1>1, <1>4 DEF Overrun
    <2>2. CASE Doing("bind") /\ Full
      <3>1. status = "run" /\ tasks # <<>> /\ Adds(Todo) = 1
        BY <2>2 DEF Doing, Adds
      <3>2. PICK c : c = Current
        OBVIOUS
      <3>3. PICK b \in Nat : Len(envs[c].variables) + (1 + b) <= envs[c].capacity
        BY <1>4, <3>1, <3>2, RoomForTail
      <3>4. Len(envs[c].variables) \in Nat /\ envs[c].capacity \in Nat
        BY <1>4, <3>1, <3>2, RoomForTail
      <3>5. Len(envs[c].variables) >= envs[c].capacity
        BY <2>2, <3>2 DEF Full
      <3>6. \A v, z \in Nat : v >= z => ~ (v + (1 + b) <= z)
        OBVIOUS
      <3>. QED  BY ONLY <3>3, <3>4, <3>5, <3>6
    <2>3. CASE Generating("lambda") /\ Len(lambdas) >= MaxLambdas
      <3>1. lambdas \in Seq([exp : LambdaNodes, env : Nat])
        BY DEF IInv, Typed
      <3>2. Len(lambdas) \in Nat /\ Len(lambdas) <= MaxLambdas
        BY <3>1 DEF Sized
      <3>. QED  BY <2>3, <3>2, NodesAssumption
    <2>. QED  BY <2>1, <2>2, <2>3
  <1>5. Sized'
    BY <1>1, <1>2, <1>4, EndSized
  <1>. QED  BY <1>3, <1>5

(* Every step keeps the tables large enough.                               *)
LEMMA NextSized == ASSUME IInv, Traced, Sized, [Next]_vars PROVE Traced' /\ Sized'
  <1>1. CASE GenMain  BY <1>1, GenMainSized
  <1>2. CASE GenLambda  BY <1>2, GenLambdaSized
  <1>3. CASE AppendStream
    <2>1. /\ status' = "done" /\ UNCHANGED <<program, tasks, lambdas>>
      BY <1>3 DEF AppendStream
    <2>2. Sized'
      BY <2>1, EndSized
    <2>3. tasks' = <<>>
      BY <1>3 DEF AppendStream
    <2>4. Expressions' = Expressions
      BY <2>1, ProgramKept
    <2>5. Traced'
      BY <2>1, <2>3, <2>4 DEF Traced
    <2>. QED  BY <2>2, <2>5
  <1>4. CASE \/ EmitLines \/ GenLiteral \/ GenDefinition \/ GenAssignment \/ GenIf
             \/ GenConsequent \/ GenAlternative \/ GenBegin \/ GenApplication
    BY <1>4, SplittingIsQuiet, QuietSized
  <1>5. CASE GenVariable \/ SetVariable \/ FoundVariable \/ ScanOutwards \/ RebindDefinition
    BY <1>5, LookingIsPlain, PlainSized
  <1>6. CASE BindDefinition  BY <1>6, BindSized
  <1>7. CASE GenProcedure  BY <1>7, GenProcedureSized
  <1>8. CASE IllegalNodeType \/ UnboundVariable \/ Unimplemented \/ Overrun
    BY <1>8, FailSized
  <1>9. CASE UNCHANGED vars
    <2>1. UNCHANGED <<program, tasks, envs, lambdas, functions, status>>
      BY <1>9 DEF vars
    <2>2. /\ Expressions' = Expressions /\ Source' = Source /\ \A s : Reaches(s)' = Reaches(s)
          /\ Regular' = Regular
      BY <2>1, ProgramKept, RegularKept
    <2>3. Reaches(Head(tasks))' = Reaches(Head(tasks'))
      BY <2>2 DEF Reaches
    <2>4. Reaches(Head(tasks')) = Reaches(Head(tasks))
      BY <2>1
    <2>5. Traced'
      BY <2>1, <2>2, <2>3, <2>4 DEF Traced
    <2>6. Current' = Current
      BY <2>1 DEF Current
    <2>7. TablesLargeEnough'
      BY <2>1, <2>2 DEF TablesLargeEnough, Regular, Sized
    <2>8. Sized'
      BY <2>1, <2>2, <2>6, <2>7 DEF Sized
    <2>. QED  BY <2>5, <2>8
  <1>10. CASE Ended
    BY <1>9, <1>10 DEF Ended
  <1>. QED
    BY <1>1, <1>2, <1>3, <1>4, <1>5, <1>6, <1>7, <1>8, <1>9, <1>10 DEF Next, Step

(* Nothing is to be generated at first.                                    *)
LEMMA InitSized == ASSUME Init PROVE Traced /\ Sized
  <1>1. status = "start" /\ lambdas = <<>> /\ tasks = <<>>
    BY DEF Init
  <1>2. Len(lambdas) <= MaxLambdas
    BY <1>1, NodesAssumption
  <1>. QED  BY <1>1, <1>2 DEF Traced, Sized, TablesLargeEnough

(* Where the tasks come from, for how many definitions there is room, and  *)
(* the rest of the invariant.                                              *)
THEOREM RoomInvariance == Spec => [](IInv /\ Traced /\ Sized)
  <1>1. Init => IInv /\ Traced /\ Sized
    BY InitEstablishes, InitSized
  <1>2. IInv /\ Traced /\ Sized /\ [Next]_vars => IInv' /\ Traced' /\ Sized'
    BY NextKeeps, NextSized
  <1>. QED  BY <1>1, <1>2, PTL DEF Spec

(* What countDefinitions counts before a body is generated is enough for   *)
(* what the handlers then define in it, unless a definition is part of the *)
(* value of another or made in main, or a form's name is a variable; and   *)
(* only MAX_NUM_LAMBDA lambda expressions overrun the other tables.        *)
THEOREM TablesAreLargeEnough == Spec => []TablesLargeEnough
  <1>1. Sized => TablesLargeEnough
    BY DEF Sized
  <1>. QED  BY <1>1, RoomInvariance, PTL

-----------------------------------------------------------------------------
(* Whether every name can still be resolved.                               *)

(* The names that are found in each of n environments, from the outermost  *)
(* on, which is that of main: there are none in the 0-th.                  *)
Scopes(n) == [0 .. n -> SUBSET Variables]

(* w has the names of each environment and of those around it.             *)
Views(es, w) ==
  /\ w[0] = {}
  /\ \A e \in 1 .. Len(es) : w[e] = Range(es[e].variables) \cup w[es[e].enclosing]

(* Names that are found where the names in v are.                          *)
Within(a, v) == a.used \subseteq v /\ a.closed \subseteq v \cup a.defined

(* So are those in the lambda expressions that wait, if the current        *)
(* function goes on to define the names in d.                              *)
Waiting(d, w) ==
  \A k \in Len(functions) .. Len(lambdas) :
    NamesIn(lambdas[k].exp).closed \subseteq
      w[lambdas[k].env] \cup (IF lambdas[k].env = Current THEN d ELSE {})

(* And so is the name that is being looked for.                            *)
LookedFor(w) == tasks # <<>> /\ Todo.do = "scan" => Todo.var \in w[Todo.env]

Resolved(a, w) == Within(a, w[Current]) /\ Waiting(a.defined, w) /\ LookedFor(w)

(* While the names a are still to be met, a program has no free names if   *)
(* and only if all of these are found.                                     *)
Settled(a, w) == Views(envs, w) /\ (FreeNames = {} <=> Resolved(a, w))

Resolving ==
  /\ status = "run" =>
       \E a \in NameSets, w \in Scopes(Len(envs)) : Turns(tasks, a, NoNames) /\ Settled(a, w)
  /\ UnboundExactly

(* A name that is used, defined, or free in a lambda expression comes      *)
(* before other names.                                                     *)
LEMMA WithinFacts ==
  ASSUME NEW b \in NameSets, NEW a \in NameSets, NEW v
  PROVE  /\ \A x : a = Followed(Names({x}, {}, {}), b) =>
              a.defined = b.defined /\ (Within(a, v) <=> x \in v /\ Within(b, v))
         /\ \A x : a = Followed(Names({}, {x}, {}), b) =>
              /\ v \cup a.defined = (v \cup {x}) \cup b.defined
              /\ Within(a, v) <=> Within(b, v \cup {x})
         /\ \A c : a = Followed(Names({}, {}, c), b) =>
              /\ a.defined = b.defined
              /\ Within(a, v) <=> c \subseteq v \cup b.defined /\ Within(b, v)
  <1>1. ASSUME NEW x, a = Followed(Names({x}, {}, {}), b)
        PROVE  a.defined = b.defined /\ (Within(a, v) <=> x \in v /\ Within(b, v))
    <2>1. a.used = {x} \cup b.used /\ a.defined = b.defined /\ a.closed = b.closed
      BY <1>1 DEF Followed, Names
    <2>. QED  BY <2>1 DEF Within
  <1>2. ASSUME NEW x, a = Followed(Names({}, {x}, {}), b)
        PROVE  /\ v \cup a.defined = (v \cup {x}) \cup b.defined
               /\ Within(a, v) <=> Within(b, v \cup {x})
    <2>1. a.used = b.used \ {x} /\ a.defined = {x} \cup b.defined /\ a.closed = b.closed
      BY <1>2 DEF Followed, Names
    <2>2. v \cup a.defined = (v \cup {x}) \cup b.defined
      BY <2>1
    <2>3. a.used \subseteq v <=> b.used \subseteq v \cup {x}
      BY <2>1
    <2>. QED  BY <2>1, <2>2, <2>3 DEF Within
  <1>3. ASSUME NEW c, a = Followed(Names({}, {}, c), b)
        PROVE  /\ a.defined = b.defined
               /\ Within(a, v) <=> c \subseteq v \cup b.defined /\ Within(b, v)
    <2>1. a.used = b.used /\ a.defined = b.defined /\ a.closed = c \cup b.closed
      BY <1>3 DEF Followed, Names
    <2>. QED  BY <2>1 DEF Within
  <1>. QED  BY <1>1, <1>2, <1>3

(* The names that are still to be met are those of the next task and those *)
(* of the others.                                                          *)
LEMMA NamesAhead ==
  ASSUME IInv, Resolving, status = "run", tasks # <<>>
  PROVE  \E a \in NameSets, b \in NameSets, w \in Scopes(Len(envs)) :
           a = NamesFrom(Todo, b) /\ Turns(Tail(tasks), b, NoNames) /\ Settled(a, w)
  <1>1. PICK a \in NameSets, w \in Scopes(Len(envs)) :
          Turns(tasks, a, NoNames) /\ Settled(a, w)
    BY DEF Resolving
  <1>2. tasks \in Seq(AnyTask)
    BY TasksFacts
  <1>3. PICK b \in NameSets :
          <<Head(tasks), a, b>> \in Uses /\ Path(Uses, NameSets, Tail(tasks), b, NoNames)
    <2> HIDE DEF AnyTask, NameSets
    <2>. QED  BY <1>1, <1>2, PathTail DEF Turns
  <1>4. a = NamesFrom(Todo, b)
    <2> HIDE DEF AnyTask, NameSets
    <2>. QED  BY <1>3 DEF Uses, Todo
  <1>. QED  BY <1>1, <1>3, <1>4 DEF Turns

(* Tasks before the others meet their names first.                         *)
LEMMA NamesFollow ==
  ASSUME IInv, tasks # <<>>, NEW ts \in Seq(AnyTask), Follow(ts), NEW a, NEW b,
         Turns(ts, a, b), Turns(Tail(tasks), b, NoNames)
  PROVE  Turns(tasks', a, NoNames)
  <1>1. Tail(tasks) \in Seq(AnyTask)
    BY TasksFacts
  <1>. QED  BY <1>1, TurnsJoined DEF Follow

(* Nothing is looked for unless a task says so.                            *)
LEMMA NothingLookedFor ==
  ASSUME Traced, tasks # <<>>, NEW ts \in Seq(Source), Follow(ts)
  PROVE  \A w : LookedFor(w)'
  <1>1. PICK us : us = ts \o Tail(tasks)
    OBVIOUS
  <1>2. us \in Seq(Source)
    <2>1. Tail(tasks) \in Seq(Source)
      BY DEF Traced
    <2> HIDE DEF Source
    <2>. QED  BY <1>1, <2>1
  <1>3. us # <<>> => Head(us) \in Source
    BY <1>2, TailFacts
  <1>4. us # <<>> => Head(us).do # "scan"
    BY <1>3 DEF Source
  <1>5. tasks' = us
    BY <1>1 DEF Follow
  <1>. QED  BY <1>4, <1>5 DEF LookedFor, Todo

(* What is still waiting.                                                  *)
LEMMA WaitingKept ==
  ASSUME UNCHANGED lambdas, Len(functions') = Len(functions)
  PROVE  \A d, w : Waiting(d, w)' <=> Waiting(d, w)
  <1>1. Current' = Current
    BY DEF Current
  <1>. QED  BY <1>1 DEF Waiting

(* Names that a step settles are settled.                                  *)
LEMMA ResolvingStep ==
  ASSUME UNCHANGED program, status' = "run", NEW a \in NameSets,
         NEW w \in Scopes(Len(envs')),
         Turns(tasks', a, NoNames), Views(envs', w), FreeNames = {} <=> Resolved(a, w)'
  PROVE  Resolving'
  <1>1. FreeNames' = FreeNames
    BY ProgramKept
  <1>2. Settled(a, w)'
    BY <1>1 DEF Settled
  <1>3. UnboundExactly'
    BY DEF UnboundExactly
  <1>. QED  BY <1>2, <1>3 DEF Resolving

(* Splitting a task changes no names.                                      *)
LEMMA QuietResolving ==
  ASSUME IInv, Traced, Resolving, QuietStep
  PROVE  Resolving'
  <1>1. /\ status = "run" /\ tasks # <<>> /\ Todo.do # "scan" /\ Len(functions') = Len(functions)
        /\ UNCHANGED <<program, envs, lambdas, status>>
    BY DEF QuietStep
  <1>2. PICK ts : /\ Follow(ts) /\ ts \in Seq(Source)
                  /\ \A b \in NameSets : Turns(ts, NamesFrom(Todo, b), b)
    BY DEF QuietStep, Splits
  <1>3. PICK a \in NameSets, b \in NameSets, w \in Scopes(Len(envs)) :
          a = NamesFrom(Todo, b) /\ Turns(Tail(tasks), b, NoNames) /\ Settled(a, w)
    BY <1>1, NamesAhead
  <1>4. ts \in Seq(AnyTask)
    <2>1. Source \subseteq AnyTask
      BY DEF Source
    <2>. QED  BY <1>2, <2>1, SeqMonotonic, Zenon
  <1>5. Turns(tasks', a, NoNames)
    <2>1. Turns(ts, a, b)
      BY <1>2, <1>3
    <2>. QED  BY <1>1, <1>2, <1>3, <1>4, <2>1, NamesFollow
  <1>6. LookedFor(w)' /\ LookedFor(w)
    <2>1. LookedFor(w)'
      BY <1>1, <1>2, NothingLookedFor
    <2>2. LookedFor(w)
      BY <1>1 DEF LookedFor
    <2>. QED  BY <2>1, <2>2
  <1>7. Waiting(a.defined, w)' <=> Waiting(a.defined, w)
    <2>1. PICK d : d = a.defined
      OBVIOUS
    <2>2. Waiting(d, w)' <=> Waiting(d, w)
      BY <1>1, WaitingKept
    <2>. QED  BY <2>1, <2>2
  <1>8. Resolved(a, w)' <=> Resolved(a, w)
    <2>1. Current' = Current
      BY <1>1 DEF Current
    <2>. QED  BY <1>6, <1>7, <2>1 DEF Resolved
  <1>9. Views(envs', w)
    BY <1>1, <1>3 DEF Settled
  <1>10. FreeNames = {} <=> Resolved(a, w)'
    BY <1>3, <1>8 DEF Settled
  <1>. QED  BY <1>1, <1>5, <1>9, <1>10, ResolvingStep

(* A task of its own is before the others.                                 *)
LEMMA HeadOfTasks ==
  ASSUME IInv, tasks # <<>>, NEW s \in AnyTask, Follow(<<s>>)
  PROVE  tasks' # <<>> /\ Head(tasks') = s
  <1>1. PICK rest \in Seq(AnyTask) : rest = Tail(tasks)
    BY TasksFacts
  <1>2. <<s>> \o rest # <<>> /\ Head(<<s>> \o rest) = s
    <2> HIDE DEF AnyTask
    <2>. QED  OBVIOUS
  <1>. QED  BY <1>1, <1>2 DEF Follow

(* A variable is looked for before the other names.                        *)
LEMMA ScanBegins ==
  ASSUME IInv, Resolving, NEW do, Doing(do), Todo.do # "scan", NEW op \in {"get", "set"},
         NEW var \in Variables, ScanHere(op, var),
         UNCHANGED <<program, envs, lambdas, status>>,
         \A b \in NameSets : NamesFrom(Todo, b) = Followed(Names({var}, {}, {}), b)
  PROVE  Resolving'
  <1>1. PICK s : s = Scan(op, var, Current)
    OBVIOUS
  <1>2. Follow(<<s>>) /\ \E ls : Write(ls)
    BY <1>1 DEF ScanHere
  <1>3. status = "run" /\ tasks # <<>> /\ Len(functions') = Len(functions) /\ Typed
        /\ Current \in 1 .. Len(envs)
    BY <1>2, SameFunctions, TodoFacts
  <1>4. s \in AnyTask /\ s.do = "scan" /\ s.var = var /\ s.env = Current
    <2>1. Len(envs) \in Nat /\ Current \in 0 .. Len(envs)
      BY <1>3 DEF Typed
    <2>2. s \in Tasks(Len(envs))
      BY <1>1, <2>1, TaskFacts
    <2>. QED  BY <1>1, <2>1, <2>2 DEF AnyTask, Scan
  <1>5. PICK a \in NameSets, b \in NameSets, w \in Scopes(Len(envs)) :
          a = NamesFrom(Todo, b) /\ Turns(Tail(tasks), b, NoNames) /\ Settled(a, w)
    BY <1>3, NamesAhead
  <1>6. Turns(tasks', b, NoNames)
    <2>1. NamesFrom(s, b) = b
      BY <1>4 DEF NamesFrom
    <2>2. Turns(<<s>>, b, b)
      BY <1>4, <2>1, TurnsOne
    <2>3. <<s>> \in Seq(AnyTask)
      <3> HIDE DEF AnyTask
      <3>. QED  BY <1>4
    <2>. QED  BY <1>2, <1>3, <1>5, <2>2, <2>3, NamesFollow
  <1>7. PICK v : v = w[Current]
    OBVIOUS
  <1>8. a.defined = b.defined /\ (Within(a, v) <=> var \in v /\ Within(b, v))
    <2>1. a = Followed(Names({var}, {}, {}), b)
      BY <1>5
    <2>2. \A x : a = Followed(Names({x}, {}, {}), b) =>
            a.defined = b.defined /\ (Within(a, v) <=> x \in v /\ Within(b, v))
      BY <1>5, WithinFacts, Zenon
    <2>. QED  BY <2>1, <2>2, Zenon
  <1>9. LookedFor(w)
    BY DEF LookedFor
  <1>10. LookedFor(w)' <=> var \in v
    <2>1. tasks' # <<>> /\ Head(tasks') = s
      BY <1>2, <1>3, <1>4, HeadOfTasks
    <2>. QED  BY <1>4, <1>7, <2>1 DEF LookedFor, Todo
  <1>11. Waiting(b.defined, w)' <=> Waiting(b.defined, w)
    <2>1. PICK d : d = b.defined
      OBVIOUS
    <2>2. Waiting(d, w)' <=> Waiting(d, w)
      BY <1>3, WaitingKept
    <2>. QED  BY <2>1, <2>2
  <1>12. Resolved(b, w)' <=> Resolved(a, w)
    <2>1. Current' = Current
      BY <1>3 DEF Current
    <2>2. Resolved(a, w) <=> var \in v /\ Within(b, v) /\ Waiting(b.defined, w)
      BY <1>7, <1>8, <1>9 DEF Resolved
    <2>3. Resolved(b, w)' <=> Within(b, v) /\ Waiting(b.defined, w) /\ var \in v
      BY <1>7, <1>10, <1>11, <2>1 DEF Resolved
    <2>. QED  BY <2>2, <2>3
  <1>13. Views(envs', w)
    BY <1>5 DEF Settled
  <1>14. FreeNames = {} <=> Resolved(b, w)'
    BY <1>5, <1>12 DEF Settled
  <1>. QED  BY <1>3, <1>6, <1>13, <1>14, ResolvingStep

(* A reference and an assignment look for their variable.                  *)
LEMMA LookingResolving ==
  ASSUME IInv, Resolving, GenVariable \/ SetVariable
  PROVE  Resolving'
  <1>1. CASE GenVariable
    <2>1. /\ Doing("gen") /\ Kind(Exp) = "identifier" /\ ScanHere("get", Exp.identifier)
          /\ UNCHANGED <<program, envs, lambdas, status>>
      BY <1>1 DEF GenVariable, Generating
    <2>2. Exp \in Nodes /\ Todo.do = "gen" /\ Todo.exp = Exp /\ Exp.identifier \in Variables
      BY <2>1, TodoFacts DEF Doing, Exp, Variables
    <2>3. ASSUME NEW b \in NameSets
          PROVE  NamesFrom(Todo, b) = Followed(Names({Exp.identifier}, {}, {}), b)
      <3>1. NamesIn(Exp) = Names({Exp.identifier}, {}, {})
        BY <2>1, <2>2, NamesOfForms
      <3>. QED  BY <2>2, <3>1 DEF NamesFrom
    <2>. QED  BY <2>1, <2>2, <2>3, ScanBegins
  <1>2. CASE SetVariable
    <2>1. /\ Doing("assign") /\ ScanHere("set", Defined)
          /\ UNCHANGED <<program, envs, lambdas, status>>
      BY <1>2 DEF SetVariable
    <2>2. Defined \in Variables /\ Todo.do = "assign"
      BY <2>1, DefinedFacts DEF Doing
    <2>3. ASSUME NEW b \in NameSets
          PROVE  NamesFrom(Todo, b) = Followed(Names({Defined}, {}, {}), b)
      BY <2>2 DEF NamesFrom, Defined, Exp
    <2>. QED  BY <2>1, <2>2, <2>3, ScanBegins
  <1>. QED  BY <1>1, <1>2

(* An address is one of a variable that is there.                          *)
LEMMA AddressFound ==
  ASSUME NEW var, NEW e, envs[e].variables \in Seq(Variables)
  PROVE  Address(var, e) # 0 <=> var \in Range(envs[e].variables)
  <1>1. PICK vs : vs = envs[e].variables
    OBVIOUS
  <1>2. PICK n \in Nat : n = Len(vs) /\ DOMAIN vs = 1 .. n
    BY <1>1
  <1>3. PICK found : found = {0} \cup {i \in 1 .. n : vs[i] = var}
    OBVIOUS
  <1>4. found \subseteq 0 .. n /\ found # {}
    BY <1>3
  <1>5. Max(found) \in found /\ \A i \in found : i <= Max(found)
    BY ONLY <1>4, n \in Nat, LargestIsMax
  <1>6. PICK m \in found : m = Max(found)
    BY <1>5
  <1>7. m # 0 <=> \E i \in 1 .. n : vs[i] = var
    <2>1. ASSUME m # 0  PROVE \E i \in 1 .. n : vs[i] = var
      BY <1>3, <2>1
    <2>2. ASSUME NEW i \in 1 .. n, vs[i] = var  PROVE m # 0
      <3>1. i \in found
        BY <1>3, <2>2
      <3>2. i <= m /\ m \in 0 .. n
        BY <1>4, <1>5, <1>6, <3>1
      <3>. QED  BY <3>2
    <2>. QED  BY <2>1, <2>2
  <1>8. Address(var, e) = m
    BY <1>1, <1>2, <1>3, <1>6 DEF Address, AddressAmong
  <1>. QED  BY <1>1, <1>2, <1>7, <1>8 DEF Range

(* What is looked for in an environment is found there or around it.       *)
LEMMA ScanResolving ==
  ASSUME IInv, Traced, Resolving, FoundVariable \/ ScanOutwards
  PROVE  Resolving'
  <1>1. /\ Doing("scan") /\ Todo.env # 0 /\ \E ls : Write(ls)
        /\ UNCHANGED <<program, envs, lambdas, status>>
    BY DEF FoundVariable, ScanOutwards
  <1>2. /\ Todo.do = "scan" /\ status = "run" /\ tasks # <<>> /\ Typed /\ Matched
        /\ Len(functions') = Len(functions)
        /\ Todo.op \in {"get", "set"} /\ Todo.var \in Variables
        /\ Todo.env \in 1 .. Len(envs) /\ Len(envs) \in Nat /\ Len(envs) = Len(functions)
    BY <1>1, TodoFacts, ScannedFacts, SameFunctions DEF Doing
  <1>3. PICK v, e : v = Todo.var /\ e = Todo.env
    OBVIOUS
  <1>4. PICK a \in NameSets, b \in NameSets, w \in Scopes(Len(envs)) :
          a = NamesFrom(Todo, b) /\ Turns(Tail(tasks), b, NoNames) /\ Settled(a, w)
    BY <1>2, NamesAhead
  <1>5. a = b
    BY <1>2, <1>4 DEF NamesFrom
  <1>6. Address(v, e) # 0 <=> v \in Range(envs[e].variables)
    BY <1>2, <1>3, EnvFacts, AddressFound
  <1>7. w[e] = Range(envs[e].variables) \cup w[envs[e].enclosing]
    BY <1>2, <1>3, <1>4 DEF Settled, Views
  <1>8. Turns(tasks', b, NoNames) /\ (LookedFor(w)' <=> v \in w[e])
    <2>1. CASE FoundVariable
      <3>1. Follow(<<>>) /\ v \in w[e]
        BY <1>3, <1>6, <1>7, <2>1 DEF FoundVariable, Found, Return
      <3>2. tasks' = Tail(tasks)
        BY <1>2, <3>1, NothingFollows
      <3>3. <<>> \in Seq(Source)
        OBVIOUS
      <3>4. LookedFor(w)'
        BY <1>2, <3>1, <3>3, NothingLookedFor
      <3>. QED  BY <1>4, <3>1, <3>2, <3>4
    <2>2. CASE ScanOutwards
      <3>1. PICK s : s = Scan(Todo.op, v, envs[e].enclosing)
        OBVIOUS
      <3>2. Follow(<<s>>) /\ Address(v, e) = 0
        BY <1>3, <2>2, <3>1 DEF ScanOutwards, Found
      <3>3. envs[e].enclosing \in 0 .. Len(envs)
        BY <1>2, <1>3 DEF Matched
      <3>4. s \in AnyTask /\ s.do = "scan" /\ s.var = v /\ s.env = envs[e].enclosing
        <4>1. s \in Tasks(Len(envs))
          BY <1>2, <1>3, <3>1, <3>3, TaskFacts
        <4>. QED  BY <1>2, <3>1, <4>1 DEF AnyTask, Scan
      <3>5. tasks' # <<>> /\ Head(tasks') = s
        BY <1>2, <3>2, <3>4, HeadOfTasks
      <3>6. LookedFor(w)' <=> v \in w[envs[e].enclosing]
        BY <3>4, <3>5 DEF LookedFor, Todo
      <3>7. v \in w[e] <=> v \in w[envs[e].enclosing]
        BY <1>6, <1>7, <3>2
      <3>8. NamesFrom(s, b) = b
        BY <3>4 DEF NamesFrom
      <3>9. Turns(<<s>>, b, b)
        BY <3>4, <3>8, TurnsOne
      <3>10. <<s>> \in Seq(AnyTask)
        <4> HIDE DEF AnyTask
        <4>. QED  BY <3>4
      <3>11. Turns(tasks', b, NoNames)
        BY <1>2, <1>4, <3>2, <3>9, <3>10, NamesFollow
      <3>. QED  BY <3>6, <3>7, <3>11
    <2>. QED  BY <2>1, <2>2
  <1>9. LookedFor(w) <=> v \in w[e]
    BY <1>2, <1>3 DEF LookedFor
  <1>10. Waiting(b.defined, w)' <=> Waiting(b.defined, w)
    <2>1. PICK d : d = b.defined
      OBVIOUS
    <2>2. Waiting(d, w)' <=> Waiting(d, w)
      BY <1>1, <1>2, WaitingKept
    <2>. QED  BY <2>1, <2>2
  <1>11. Resolved(b, w)' <=> Resolved(a, w)
    <2>1. Current' = Current
      BY <1>2 DEF Current
    <2>. QED  BY <1>5, <1>8, <1>9, <1>10, <2>1 DEF Resolved
  <1>12. Views(envs', w)
    BY <1>1, <1>4 DEF Settled
  <1>13. FreeNames = {} <=> Resolved(b, w)'
    BY <1>4, <1>11 DEF Settled
  <1>14. UNCHANGED program /\ status' = "run" /\ w \in Scopes(Len(envs'))
    BY <1>1, <1>2
  <1>. QED  BY <1>8, <1>12, <1>13, <1>14, ResolvingStep

(* A definition is met by those behind it, and by the lambda expressions   *)
(* that wait.                                                              *)
LEMMA DefinitionResolving ==
  ASSUME IInv, Traced, Resolving, RebindDefinition \/ BindDefinition
  PROVE  Resolving'
  <1>1. PICK c, v : c = Current /\ v = Defined
    OBVIOUS
  <1>2. /\ Doing("bind") /\ Follow(<<>>) /\ UNCHANGED <<program, lambdas, status>>
        /\ Len(functions') = Len(functions)
    <2>1. CASE RebindDefinition
      <3>1. /\ Doing("bind") /\ Follow(<<>>) /\ UNCHANGED <<program, lambdas, status>>
            /\ \E ls : Write(ls)
        BY <2>1 DEF RebindDefinition, Return
      <3>. QED  BY <3>1, SameFunctions
    <2>2. CASE BindDefinition
      BY <2>2, BindFacts
    <2>. QED  BY <2>1, <2>2
  <1>3. /\ status = "run" /\ tasks # <<>> /\ Todo.do = "bind" /\ Matched
        /\ c \in 1 .. Len(envs) /\ Current' = c /\ v \in Variables
    <2>1. Todo.do = "bind"
      BY <1>2 DEF Doing
    <2>2. v \in Variables
      BY <1>1, <1>2, DefinedFacts
    <2>. QED  BY <1>1, <1>2, <2>1, <2>2, TodoFacts DEF Current
  <1>4. PICK a \in NameSets, b \in NameSets, w \in Scopes(Len(envs)) :
          a = NamesFrom(Todo, b) /\ Turns(Tail(tasks), b, NoNames) /\ Settled(a, w)
    BY <1>3, NamesAhead
  <1>5. Turns(tasks', b, NoNames)
    BY <1>2, <1>3, <1>4, NothingFollows
  <1>6. PICK n \in Nat : n = Len(envs)
    BY DEF IInv, Typed
  <1>7. c = n
    BY <1>1, <1>6 DEF Current, IInv, Matched
  <1>8. PICK u : u = [e \in 0 .. n |-> IF e = c THEN w[c] \cup {v} ELSE w[e]]
    OBVIOUS
  <1>9. /\ w[0] = {}
        /\ \A e \in 1 .. n : w[e] = Range(envs[e].variables) \cup w[envs[e].enclosing]
    BY <1>4, <1>6 DEF Settled, Views
  <1>10. \A e \in 1 .. n : envs[e].enclosing \in 0 .. (e - 1)
    BY <1>3, <1>6 DEF Matched
  <1>11. c \in 1 .. n /\ u[c] = w[c] \cup {v} /\ \A e \in 0 .. n : e # c => u[e] = w[e]
    BY <1>3, <1>6, <1>8
  <1>12. Len(envs') = n /\ \A e \in 1 .. n :
           /\ envs'[e].enclosing = envs[e].enclosing
           /\ e # c => envs'[e].variables = envs[e].variables
           /\ e = c => Range(envs'[e].variables) \cup w[envs[e].enclosing] = w[e] \cup {v}
    <2>1. CASE RebindDefinition
      <3>1. Address(v, c) # 0 /\ envs' = envs
        BY <1>1, <2>1 DEF RebindDefinition
      <3>2. v \in Range(envs[c].variables)
        BY <1>3, <3>1, EnvFacts, AddressFound
      <3>. QED  BY <1>6, <1>9, <1>11, <3>1, <3>2
    <2>2. CASE BindDefinition
      <3>1. Len(envs') = Len(envs) /\ \A e \in 1 .. Len(envs) :
              /\ envs'[e].enclosing = envs[e].enclosing
              /\ envs'[e].variables =
                   IF e = c THEN Append(envs[e].variables, v) ELSE envs[e].variables
        BY <1>1, <2>2, BindFacts
      <3>2. PICK vs \in Seq(Variables) : vs = envs[c].variables
        BY <1>3, EnvFacts
      <3>3. Range(Append(vs, v)) = Range(vs) \cup {v}
        <4>1. PICK k \in Nat : k = Len(vs) /\ DOMAIN vs = 1 .. k
          OBVIOUS
        <4>2. /\ DOMAIN Append(vs, v) = 1 .. (k + 1)
              /\ \A i \in 1 .. k : Append(vs, v)[i] = vs[i]
              /\ Append(vs, v)[k + 1] = v
          <5> HIDE DEF Variables
          <5>. QED  BY <1>3, <4>1
        <4>3. \A y : y \in Range(Append(vs, v)) <=> y \in Range(vs) \/ y = v
          <5>1. \A i \in 1 .. (k + 1) : i \in 1 .. k \/ i = k + 1
            OBVIOUS
          <5>2. \A i \in 1 .. k : i \in 1 .. (k + 1)
            OBVIOUS
          <5>3. k + 1 \in 1 .. (k + 1)
            OBVIOUS
          <5> HIDE DEF Variables
          <5>. QED  BY <4>1, <4>2, <5>1, <5>2, <5>3 DEF Range
        <4>. QED  BY <4>3
      <3>4. envs'[c].variables = Append(vs, v)
        BY <1>6, <1>11, <3>1, <3>2
      <3>5. Range(envs'[c].variables) = Range(envs[c].variables) \cup {v}
        BY <3>2, <3>3, <3>4, Zenon
      <3>6. Range(envs'[c].variables) \cup w[envs[c].enclosing] = w[c] \cup {v}
        <4>1. w[c] = Range(envs[c].variables) \cup w[envs[c].enclosing]
          BY <1>9, <1>11
        <4>. QED  BY <3>5, <4>1
      <3>. QED  BY <1>6, <3>1, <3>6
    <2>. QED  BY <2>1, <2>2
  <1>13. Views(envs', u)
    <2>1. 0 \in 0 .. n /\ 0 # c
      BY <1>11
    <2>2. u[0] = {}
      BY <1>9, <1>11, <2>1
    <2>3. ASSUME NEW e \in 1 .. n
          PROVE  u[e] = Range(envs'[e].variables) \cup u[envs'[e].enclosing]
      <3>1. /\ e \in 0 .. n /\ envs'[e].enclosing \in 0 .. n /\ envs'[e].enclosing # c
            /\ envs'[e].enclosing = envs[e].enclosing
        <4>1. envs[e].enclosing \in 0 .. (e - 1) /\ envs'[e].enclosing = envs[e].enclosing
          BY <1>10, <1>12
        <4>. QED  BY <1>7, <4>1
      <3>2. u[envs'[e].enclosing] = w[envs[e].enclosing]
        BY <1>11, <3>1
      <3>3. CASE e = c
        BY <1>11, <1>12, <3>2, <3>3
      <3>4. CASE e # c
        <4>1. u[e] = w[e] /\ envs'[e].variables = envs[e].variables
          BY <1>11, <1>12, <3>1, <3>4
        <4>. QED  BY <1>9, <3>2, <4>1
      <3>. QED  BY <3>3, <3>4
    <2>. QED  BY <1>12, <2>2, <2>3 DEF Views
  <1>14. /\ w[c] \cup a.defined = u[c] \cup b.defined
         /\ Within(a, w[c]) <=> Within(b, u[c])
    <2>1. PICK V : V = w[c]
      OBVIOUS
    <2>2. a = Followed(Names({}, {v}, {}), b)
      BY <1>1, <1>3, <1>4 DEF NamesFrom, Defined, Exp
    <2>3. /\ V \cup a.defined = (V \cup {v}) \cup b.defined
          /\ Within(a, V) <=> Within(b, V \cup {v})
      <3> HIDE DEF NameSets
      <3>1. \A x : a = Followed(Names({}, {x}, {}), b) =>
              /\ V \cup a.defined = (V \cup {x}) \cup b.defined
              /\ Within(a, V) <=> Within(b, V \cup {x})
        BY <1>4, WithinFacts, Zenon
      <3>. QED  BY <2>2, <3>1, Zenon
    <2>. QED  BY <1>11, <2>1, <2>3
  <1>15. Waiting(b.defined, u)' <=> Waiting(a.defined, w)
    <2>1. PICK d, f : d = b.defined /\ f = a.defined
      OBVIOUS
    <2>2. ASSUME NEW k \in Len(functions) .. Len(lambdas)
          PROVE  /\ lambdas[k].env = c => u[c] \cup d = w[c] \cup f
                 /\ lambdas[k].env # c => u[lambdas[k].env] = w[lambdas[k].env]
      <3>1. k \in 1 .. Len(lambdas)
        <4>1. Len(functions) > 0 /\ Len(functions) \in Nat
          BY <1>3 DEF Matched, IInv, Typed
        <4>2. lambdas \in Seq([exp : LambdaNodes, env : Nat])
          BY DEF IInv, Typed
        <4>3. Len(lambdas) \in Nat
          BY <4>2
        <4>. QED  BY <4>1, <4>3
      <3>2. lambdas[k].env \in 0 .. n
        <4>1. lambdas[k].env \in 1 .. Len(functions)
          BY <1>3, <3>1 DEF Matched
        <4>2. Len(functions) = n
          BY <1>3, <1>6 DEF Matched
        <4>. QED  BY <4>1, <4>2
      <3>. QED  BY <1>11, <1>14, <2>1, <3>2
    <2>3. \A k \in Len(functions) .. Len(lambdas) :
            u[lambdas[k].env] \cup (IF lambdas[k].env = c THEN d ELSE {})
              = w[lambdas[k].env] \cup (IF lambdas[k].env = c THEN f ELSE {})
      BY <2>2
    <2>4. Waiting(d, u)' <=> Waiting(f, w)
      BY <1>1, <1>2, <1>3, <2>3 DEF Waiting
    <2>. QED  BY <2>1, <2>4
  <1>16. LookedFor(w) /\ LookedFor(u)'
    <2>1. <<>> \in Seq(Source)
      OBVIOUS
    <2>2. LookedFor(u)'
      BY <1>2, <1>3, <2>1, NothingLookedFor
    <2>3. LookedFor(w)
      BY <1>3 DEF LookedFor
    <2>. QED  BY <2>2, <2>3
  <1>17. Resolved(b, u)' <=> Resolved(a, w)
    BY <1>1, <1>3, <1>14, <1>15, <1>16 DEF Resolved
  <1>18. FreeNames = {} <=> Resolved(b, u)'
    BY <1>4, <1>17 DEF Settled
  <1>19. UNCHANGED program /\ status' = "run" /\ u \in Scopes(Len(envs'))
    <2>1. \A e \in 0 .. n : w[e] \in SUBSET Variables
      BY <1>6 DEF Scopes
    <2>2. \A e \in 0 .. n : u[e] \in SUBSET Variables
      <3> HIDE DEF Variables
      <3>. QED  BY <1>3, <1>11, <2>1
    <2>3. u \in [0 .. n -> SUBSET Variables]
      <3> HIDE DEF Variables
      <3>. QED  BY <1>8, <2>2
    <2>. QED  BY <1>2, <1>3, <1>12, <2>3 DEF Scopes
  <1>. QED  BY <1>5, <1>13, <1>18, <1>19, ResolvingStep

(* The free names of a lambda expression wait with it.                     *)
LEMMA ProcedureResolving ==
  ASSUME IInv, Traced, Resolving, GenProcedure
  PROVE  Resolving'
  <1>1. PICK m \in Nat : m = Len(lambdas)
    BY ProcedureFacts
  <1>2. PICK x, C : x = Exp /\ C = NamesIn(x).closed
    OBVIOUS
  <1>3. /\ Doing("gen") /\ Kind(x) = "lambda" /\ Follow(<<>>)
        /\ Len(functions') = Len(functions) /\ Len(lambdas') = m + 1
        /\ \A k \in 1 .. m : lambdas'[k] = lambdas[k]
        /\ lambdas'[m + 1].exp = x /\ lambdas'[m + 1].env = Current
        /\ UNCHANGED <<program, envs, status>>
    BY <1>1, <1>2, ProcedureFacts
  <1>4. /\ status = "run" /\ tasks # <<>> /\ Todo.do = "gen" /\ Todo.exp = x /\ x \in Nodes
        /\ Matched /\ Typed
    BY <1>2, <1>3, TodoFacts, DoingFacts
  <1>5. PICK a \in NameSets, b \in NameSets, w \in Scopes(Len(envs)) :
          a = NamesFrom(Todo, b) /\ Turns(Tail(tasks), b, NoNames) /\ Settled(a, w)
    BY <1>4, NamesAhead
  <1>6. Turns(tasks', b, NoNames)
    BY <1>3, <1>4, <1>5, NothingFollows
  <1>7. PICK c, V, d :
          /\ c = Current /\ V = w[c] /\ d = b.defined
          /\ c \in Nat /\ c > 0 /\ c = Len(functions)
    <2>1. Len(functions) \in Nat /\ Len(functions) > 0
      BY <1>4 DEF Typed, Matched
    <2>. QED  BY <2>1 DEF Current
  <1>8. a.defined = d /\ (Within(a, V) <=> C \subseteq V \cup d /\ Within(b, V))
    <2>1. NamesIn(x) \in NameSets /\ NamesIn(x).used = {} /\ NamesIn(x).defined = {}
      BY <1>3, <1>4, NamesFacts, NamesOfSequences
    <2>2. NamesIn(x) = Names({}, {}, C)
      <3>1. PICK q \in NameSets : q = NamesIn(x)
        BY <2>1
      <3>2. q = [used |-> q.used, defined |-> q.defined, closed |-> q.closed]
        <4> HIDE DEF Identifiers
        <4>. QED  BY DEF NameSets
      <3>. QED  BY <1>2, <2>1, <3>1, <3>2 DEF Names
    <2>3. a = Followed(NamesIn(x), b)
      BY <1>4, <1>5 DEF NamesFrom
    <2>4. a = Followed(Names({}, {}, C), b)
      BY <2>2, <2>3, Zenon
    <2>5. \A z : a = Followed(Names({}, {}, z), b) =>
            a.defined = b.defined /\ (Within(a, V) <=> z \subseteq V \cup b.defined /\ Within(b, V))
      BY <1>5, WithinFacts, Zenon
    <2>6. a.defined = b.defined /\ (Within(a, V) <=> C \subseteq V \cup b.defined /\ Within(b, V))
      BY <2>4, <2>5, Zenon
    <2>. QED  BY <1>7, <2>6, Zenon
  <1>9. Waiting(d, w)' <=> Waiting(d, w) /\ C \subseteq V \cup d
    <2>1. c \in 1 .. (m + 1)
      BY <1>1, <1>4, <1>7 DEF Matched
    <2>2. Waiting(d, w)' <=>
            \A k \in c .. (m + 1) :
              NamesIn(lambdas'[k].exp).closed \subseteq
                w[lambdas'[k].env] \cup (IF lambdas'[k].env = c THEN d ELSE {})
      BY <1>3, <1>7 DEF Waiting, Current
    <2>3. Waiting(d, w) <=>
            \A k \in c .. m :
              NamesIn(lambdas[k].exp).closed \subseteq
                w[lambdas[k].env] \cup (IF lambdas[k].env = c THEN d ELSE {})
      BY <1>1, <1>7 DEF Waiting
    <2>4. \A k \in c .. m : k \in c .. (m + 1) /\ k \in 1 .. m
      BY <2>1
    <2>5. \A k \in c .. (m + 1) : k \in c .. m \/ k = m + 1
      OBVIOUS
    <2>6. m + 1 \in c .. (m + 1)
      BY <2>1
    <2>7. NamesIn(lambdas'[m + 1].exp).closed = C
            /\ w[lambdas'[m + 1].env] \cup (IF lambdas'[m + 1].env = c THEN d ELSE {}) = V \cup d
      BY <1>2, <1>3, <1>7
    <2>. QED  BY <1>3, <2>2, <2>3, <2>4, <2>5, <2>6, <2>7
  <1>10. LookedFor(w) /\ LookedFor(w)'
    <2>1. <<>> \in Seq(Source)
      OBVIOUS
    <2>2. LookedFor(w)'
      BY <1>3, <1>4, <2>1, NothingLookedFor
    <2>3. LookedFor(w)
      BY <1>4 DEF LookedFor
    <2>. QED  BY <2>2, <2>3
  <1>11. Resolved(b, w)' <=> Resolved(a, w)
    <2>1. Current' = Current
      BY <1>3 DEF Current
    <2>2. Resolved(a, w) <=> Within(a, V) /\ Waiting(d, w)
      BY <1>7, <1>8, <1>10 DEF Resolved
    <2>3. Resolved(b, w)' <=> Within(b, V) /\ Waiting(d, w)'
      BY <1>7, <1>10, <2>1 DEF Resolved
    <2>. QED  BY <1>8, <1>9, <2>2, <2>3
  <1>12. Views(envs', w)
    BY <1>3, <1>5 DEF Settled
  <1>13. FreeNames = {} <=> Resolved(b, w)'
    BY <1>5, <1>11 DEF Settled
  <1>14. UNCHANGED program /\ status' = "run" /\ w \in Scopes(Len(envs'))
    BY <1>3, <1>4
  <1>. QED  BY <1>6, <1>12, <1>13, <1>14, ResolvingStep

(* Nothing is named when nothing is left to do.                            *)
LEMMA NothingAhead ==
  ASSUME Resolving, status = "run", tasks = <<>>
  PROVE  \E w \in Scopes(Len(envs)) : Settled(NoNames, w)
  <1>1. PICK a \in NameSets, w \in Scopes(Len(envs)) :
          Turns(tasks, a, NoNames) /\ Settled(a, w)
    BY DEF Resolving
  <1>2. Turns(<<>>, a, NoNames)
    BY <1>1
  <1>3. a = NoNames
    <2> HIDE DEF NameSets, NoNames
    <2>. QED  BY <1>2, EmptyPath DEF Turns
  <1>. QED  BY <1>1, <1>3

(* Names are free in a lambda expression if they are found neither in its  *)
(* body nor among its parameters.                                          *)
LEMMA FreeWithin ==
  ASSUME NEW a, NEW P, NEW V
  PROVE  Free(a) \ P \subseteq V <=> Within(a, P \cup V)
  BY DEF Free, Within

(* A body finds what its function defines, its parameters, and what its    *)
(* lambda expression finds.                                                *)
LEMMA LambdaResolving ==
  ASSUME IInv, Traced, Resolving, GenLambda
  PROVE  Resolving'
  <1>1. PICK n \in Nat \ {0}, x \in LambdaNodes, benv \in Nat :
          /\ benv \in 1 .. n
          /\ status = "run" /\ tasks = <<>> /\ Len(functions) = n /\ Len(envs) = n
          /\ Len(lambdas) \in Nat /\ n <= Len(lambdas) /\ lambdas[n].exp = x /\ lambdas[n].env = benv
          /\ LambdaFormed(x)
          /\ tasks' = GenAll(BodyOf(x)) \o <<Emit(<<Line("return")>>)>>
          /\ Len(functions') = n + 1 /\ Len(envs') = n + 1
          /\ \A e \in 1 .. n : envs'[e] = envs[e]
          /\ envs'[n + 1].enclosing = benv
          /\ envs'[n + 1].variables =
               [i \in 1 .. Length(Parameters(x)) |-> Parameters(x).items[i].identifier]
          /\ UNCHANGED <<program, lambdas, status>>
    BY LambdaTaken
  <1>2. PICK ps, P, body, l, m :
          /\ ps = Parameters(x).items /\ P = {y.identifier : y \in Range(ps)}
          /\ body = BodyOf(x) /\ l = Emit(<<Line("return")>>) /\ m = Len(lambdas)
    OBVIOUS
  <1>3. /\ x \in Nodes /\ Kind(x) = "lambda" /\ body \in Seq(Nodes) /\ ps \in Seq(Nodes)
        /\ Length(Parameters(x)) = Len(ps)
    <2>1. x \in Nodes /\ Kind(x) = "lambda"
      BY DEF LambdaNodes, Longer
    <2>2. body \in Seq(Nodes)
      BY <1>1, <1>2, LambdaFacts
    <2>3. x \in Longer(2)
      BY <1>1, <2>1, NodeFacts DEF LambdaFormed
    <2>4. Parameters(x) \in Nodes
      BY <2>3, ItemFacts DEF Parameters
    <2>5. Parameters(x).type = "list"
      BY <1>1 DEF LambdaFormed
    <2>6. ps \in Seq(Nodes)
      BY <1>2, <2>4, <2>5, NodeFacts
    <2>. QED  BY <1>2, <2>1, <2>2, <2>5, <2>6 DEF Length
  <1>4. Range(envs'[n + 1].variables) = P
    <2>1. PICK k \in Nat : k = Len(ps) /\ DOMAIN ps = 1 .. k
      BY <1>3
    <2>2. envs'[n + 1].variables = [i \in 1 .. k |-> ps[i].identifier]
      BY <1>1, <1>2, <1>3, <2>1
    <2>3. PICK vs : vs = [i \in 1 .. k |-> ps[i].identifier]
      OBVIOUS
    <2>4. \A y : y \in Range(vs) <=> \E i \in 1 .. k : y = ps[i].identifier
      BY <2>3 DEF Range
    <2>5. \A y : y \in P <=> \E i \in 1 .. k : y = ps[i].identifier
      BY <1>2, <2>1 DEF Range
    <2>. QED  BY <2>2, <2>3, <2>4, <2>5
  <1>5. PICK a \in NameSets : a = InOrder(NamesOf(body))
    <2>1. NamesIn(x) \in NameSets
      BY <1>3, NamesFacts
    <2>2. InOrder(NamesOf(body)) \in NameSets
      BY <1>3, <2>1, TurnsAll
    <2> HIDE DEF NameSets
    <2>. QED  BY <2>2
  <1>6. Turns(tasks', a, NoNames)
    <2>1. NoNames \in NameSets /\ Followed(a, NoNames) = a
      BY <1>5, FollowedFacts
    <2>2. Turns(GenAll(body), Followed(InOrder(NamesOf(body)), NoNames), NoNames)
      BY <1>3, <2>1, TurnsAll
    <2>3. Turns(GenAll(body), a, NoNames)
      BY <1>5, <2>1, <2>2, Zenon
    <2>4. <<Line("return")>> \in Seq(Common)
      BY LineFacts DEF PlainOps
    <2>5. Turns(<<l>>, NoNames, NoNames) /\ l \in AnyTask
      BY <1>2, <2>1, <2>4, TurnsNone, AnyTaskFacts
    <2>6. PICK ts \in Seq(AnyTask) : ts = GenAll(body)
      BY <1>3, AnyTaskFacts
    <2>7. <<l>> \in Seq(AnyTask)
      <3> HIDE DEF AnyTask
      <3>. QED  BY <2>5
    <2>8. Turns(ts \o <<l>>, a, NoNames)
      BY <2>3, <2>5, <2>6, <2>7, TurnsJoined
    <2>. QED  BY <1>1, <1>2, <2>6, <2>8
  <1>7. NamesIn(x) = Names({}, {}, Free(a) \ P)
    <2>1. NamesIn(x) = Names({}, {}, Free(InOrder(NamesOf(BodyOf(x))))
                                       \ {y.identifier : y \in Range(Parameters(x).items)})
      BY <1>1, <1>3, NamesOfSequences
    <2>. QED  BY <1>2, <1>5, <2>1
  <1>8. NamesIn(x).closed = Free(a) \ P
    BY <1>7 DEF Names
  <1>9. PICK w \in Scopes(Len(envs)) : Settled(NoNames, w)
    BY <1>1, NothingAhead
  <1>10. PICK V, u : V = w[benv] /\ u = [e \in 0 .. (n + 1) |-> IF e = n + 1 THEN P \cup V ELSE w[e]]
    OBVIOUS
  <1>11. u[n + 1] = P \cup V /\ \A e \in 0 .. n : u[e] = w[e]
    <2>1. n + 1 \in 0 .. (n + 1) /\ \A e \in 0 .. n : e \in 0 .. (n + 1) /\ e # n + 1
      OBVIOUS
    <2>. QED  BY <1>10, <2>1
  <1>12. Views(envs', u)
    <2>1. /\ w[0] = {}
          /\ \A e \in 1 .. n : w[e] = Range(envs[e].variables) \cup w[envs[e].enclosing]
      BY <1>1, <1>9 DEF Settled, Views
    <2>2. \A e \in 1 .. n : envs[e].enclosing \in 0 .. n
      <3> TAKE e \in 1 .. n
      <3>1. envs[e].enclosing \in 0 .. (e - 1)
        BY <1>1 DEF IInv, Matched
      <3>. QED  BY <3>1
    <2>3. ASSUME NEW e \in 1 .. (n + 1)
          PROVE  u[e] = Range(envs'[e].variables) \cup u[envs'[e].enclosing]
      <3>1. CASE e \in 1 .. n
        <4>1. envs'[e] = envs[e] /\ e \in 0 .. n
          BY <1>1, <3>1
        <4>2. u[e] = w[e] /\ u[envs[e].enclosing] = w[envs[e].enclosing]
          BY <1>11, <2>2, <3>1, <4>1
        <4>. QED  BY <2>1, <3>1, <4>1, <4>2
      <3>2. CASE e = n + 1
        <4>1. u[e] = P \cup V /\ benv \in 0 .. n
          BY <1>1, <1>11, <3>2
        <4>2. u[benv] = V
          BY <1>10, <1>11, <4>1
        <4>. QED  BY <1>1, <1>4, <3>2, <4>1, <4>2
      <3>. QED  BY <3>1, <3>2
    <2>4. 0 \in 0 .. n
      OBVIOUS
    <2>5. u[0] = {}
      BY <1>11, <2>1, <2>4
    <2>. QED  BY <1>1, <2>3, <2>5 DEF Views
  <1>13. PICK d : d = a.defined
    OBVIOUS
  <1>14. m \in Nat /\ n <= m /\ \A k \in n .. m : lambdas[k].env \in 1 .. n
    <2>1. m \in Nat /\ n <= m
      BY <1>1, <1>2
    <2>2. ASSUME NEW k \in n .. m  PROVE lambdas[k].env \in 1 .. n
      <3>1. k \in 1 .. Len(lambdas)
        BY <1>2, <2>1
      <3>. QED  BY <1>1, <3>1 DEF IInv, Matched
    <2>. QED  BY <2>1, <2>2
  <1>15. Waiting({}, w) <=> Free(a) \ P \subseteq V /\ Waiting(d, u)'
    <2>1. Waiting({}, w) <=>
            \A k \in n .. m : NamesIn(lambdas[k].exp).closed \subseteq w[lambdas[k].env]
      <3>1. Waiting({}, w) <=>
              \A k \in n .. m :
                NamesIn(lambdas[k].exp).closed \subseteq
                  w[lambdas[k].env] \cup (IF lambdas[k].env = Current THEN {} ELSE {})
        BY <1>1, <1>2 DEF Waiting
      <3>2. \A s, t : s \cup (IF t THEN {} ELSE {}) = s
        OBVIOUS
      <3>. QED  BY <3>1, <3>2
    <2>2. Waiting(d, u)' <=>
            \A k \in (n + 1) .. m : NamesIn(lambdas[k].exp).closed \subseteq w[lambdas[k].env]
      <3>1. Waiting(d, u)' <=>
              \A k \in (n + 1) .. m :
                NamesIn(lambdas[k].exp).closed \subseteq
                  u[lambdas[k].env] \cup (IF lambdas[k].env = n + 1 THEN d ELSE {})
        BY <1>1, <1>2 DEF Waiting, Current
      <3>2. ASSUME NEW k \in (n + 1) .. m
            PROVE  u[lambdas[k].env] \cup (IF lambdas[k].env = n + 1 THEN d ELSE {})
                     = w[lambdas[k].env]
        <4>1. lambdas[k].env \in 1 .. n
          BY <1>14
        <4>2. lambdas[k].env # n + 1 /\ lambdas[k].env \in 0 .. n
          BY <4>1
        <4>. QED  BY <1>11, <4>2
      <3>. QED  BY <3>1, <3>2
    <2>3. \A k \in n .. m : k = n \/ k \in (n + 1) .. m
      BY <1>14
    <2>4. n \in n .. m /\ \A k \in (n + 1) .. m : k \in n .. m
      BY <1>14
    <2>5. NamesIn(lambdas[n].exp).closed = Free(a) \ P /\ w[lambdas[n].env] = V
      BY <1>1, <1>8, <1>10
    <2>. QED  BY <2>1, <2>2, <2>3, <2>4, <2>5
  <1>16. Free(a) \ P \subseteq V <=> Within(a, P \cup V)
    BY FreeWithin
  <1>17. LookedFor(w) /\ LookedFor(u)'
    <2>1. LookedFor(w)
      BY <1>1 DEF LookedFor
    <2>2. LookedFor(u)'
      <3>1. ASSUME tasks' # <<>>  PROVE Head(tasks').do # "scan"
        <4>1. PICK ts \in Seq(Nodes) : ts = body
          BY <1>3
        <4>2. PICK k \in Nat : k = Len(ts)
          OBVIOUS
        <4>3. PICK gs : gs = GenAll(body)
          OBVIOUS
        <4>4. Len(gs) = k /\ gs \in Seq(AnyTask) /\ \A i \in 1 .. k : gs[i] = Gen(ts[i])
          BY <4>1, <4>2, <4>3, AnyTaskFacts DEF GenAll
        <4>5. Head(gs \o <<l>>) = (gs \o <<l>>)[1]
          <5> HIDE DEF AnyTask
          <5>. QED  BY <1>1, <1>2, <3>1, <4>3, <4>4
        <4>6. (gs \o <<l>>)[1] = IF k = 0 THEN l ELSE gs[1]
          <5> HIDE DEF AnyTask
          <5>. QED  BY <4>4
        <4>7. l.do # "scan" /\ (k # 0 => gs[1].do # "scan")
          BY <1>2, <4>4 DEF Emit, Gen
        <4>. QED  BY <1>1, <1>2, <4>3, <4>5, <4>6, <4>7
      <3>. QED  BY <3>1 DEF LookedFor, Todo
    <2>. QED  BY <2>1, <2>2
  <1>18. Resolved(NoNames, w) <=> Resolved(a, u)'
    <2>1. Resolved(NoNames, w) <=> Waiting({}, w)
      <3>1. NoNames.used = {} /\ NoNames.closed = {} /\ NoNames.defined = {}
        BY DEF NoNames, Names
      <3>. QED  BY <1>17, <3>1 DEF Resolved, Within
    <2>2. Current' = n + 1
      BY <1>1 DEF Current
    <2>3. Resolved(a, u)' <=> Within(a, P \cup V) /\ Waiting(d, u)'
      BY <1>11, <1>13, <1>17, <2>2 DEF Resolved
    <2>. QED  BY <1>15, <1>16, <2>1, <2>3
  <1>19. FreeNames = {} <=> Resolved(a, u)'
    BY <1>9, <1>18 DEF Settled
  <1>20. UNCHANGED program /\ status' = "run" /\ u \in Scopes(Len(envs'))
    <2>1. \A e \in 0 .. n : w[e] \in SUBSET Variables
      BY <1>1 DEF Scopes
    <2>2. P \in SUBSET Variables
      <3>1. \A y \in Range(ps) : y \in Nodes
        BY <1>3 DEF Range
      <3>. QED  BY <1>2, <3>1 DEF Variables
    <2>3. benv \in 0 .. n
      BY <1>1
    <2>4. \A e \in 0 .. (n + 1) : u[e] \in SUBSET Variables
      <3>1. \A e \in 0 .. (n + 1) : e \in 0 .. n \/ e = n + 1
        OBVIOUS
      <3> HIDE DEF Variables
      <3>. QED  BY <1>10, <1>11, <2>1, <2>2, <2>3, <3>1
    <2>5. u \in [0 .. (n + 1) -> SUBSET Variables]
      <3> HIDE DEF Variables
      <3>. QED  BY <1>10, <2>4
    <2>. QED  BY <1>1, <2>5 DEF Scopes
  <1>. QED  BY <1>5, <1>6, <1>12, <1>19, <1>20, ResolvingStep

(* In main, the primitive procedures are found.                            *)
LEMMA MainResolving ==
  ASSUME IInv, GenMain
  PROVE  Resolving'
  <1>1. PICK P, g, l :
          /\ P = Range(PrimitiveProcedureVariables)
          /\ g = Gen(program) /\ l = Emit(<<Line("exit")>>)
    OBVIOUS
  <1>2. /\ status' = "run" /\ lambdas = <<>> /\ UNCHANGED <<program, lambdas>>
        /\ tasks' = <<g, l>> /\ Len(functions') = 1 /\ Len(envs') = 1
        /\ envs'[1].enclosing = 0 /\ Range(envs'[1].variables) = P
    BY <1>1, MainFacts
  <1>3. program \in Nodes
    BY NodesAssumption DEF IInv, Typed
  <1>4. PICK a \in NameSets : a = NamesIn(program)
    BY <1>3, NamesFacts
  <1>5. NoNames \in NameSets /\ Followed(a, NoNames) = a
    BY <1>4, FollowedFacts
  <1>6. <<Line("exit")>> \in Seq(Common)
    BY LineFacts DEF PlainOps
  <1>7. g \in Source /\ l \in Source
    BY <1>1, <1>6, ExpressionFacts, SourceFacts
  <1>8. Turns(tasks', a, NoNames)
    <2>1. NamesFrom(l, NoNames) = NoNames
      BY <1>1 DEF NamesFrom, Emit
    <2>2. NamesFrom(g, NoNames) = Followed(NamesIn(program), NoNames)
      BY <1>1 DEF NamesFrom, Gen
    <2>3. NamesFrom(g, NamesFrom(l, NoNames)) = a
      BY <1>4, <1>5, <2>1, <2>2, Zenon
    <2>4. Turns(<<g, l>>, NamesFrom(g, NamesFrom(l, NoNames)), NoNames)
      BY <1>5, <1>7, TwoTasks
    <2>. QED  BY <1>2, <2>3, <2>4, Zenon
  <1>9. PICK w : w = [e \in 0 .. 1 |-> IF e = 0 THEN {} ELSE P]
    OBVIOUS
  <1>10. w[0] = {} /\ w[1] = P
    BY <1>9
  <1>11. Views(envs', w)
    <2>1. \A e \in 1 .. 1 : e = 1
      OBVIOUS
    <2>. QED  BY <1>2, <1>10, <2>1 DEF Views
  <1>12. Waiting(a.defined, w)'
    <2>1. Len(lambdas') = 0
      BY <1>2
    <2>2. \A k \in 1 .. 0 : FALSE
      OBVIOUS
    <2>. QED  BY <1>2, <2>1, <2>2 DEF Waiting
  <1>13. LookedFor(w)'
    <2>1. Head(<<g, l>>) = g /\ g.do # "scan"
      BY <1>1 DEF Gen
    <2>. QED  BY <1>2, <2>1 DEF LookedFor, Todo
  <1>14. FreeNames = {} <=> Within(a, P)
    <2>1. FreeNames = Free(a) \ P
      BY <1>1, <1>4 DEF FreeNames
    <2>2. Free(a) \ P = {} <=> Within(a, P)
      BY DEF Free, Within
    <2>. QED  BY <2>1, <2>2
  <1>15. Resolved(a, w)' <=> Within(a, P)
    <2>1. Current' = 1
      BY <1>2 DEF Current
    <2>. QED  BY <1>10, <1>12, <1>13, <2>1 DEF Resolved
  <1>16. FreeNames = {} <=> Resolved(a, w)'
    BY <1>14, <1>15
  <1>17. w \in Scopes(Len(envs'))
    <2>1. P \in SUBSET Variables
      BY <1>1 DEF Variables
    <2>2. w \in [0 .. 1 -> SUBSET Variables]
      <3> HIDE DEF Variables
      <3>. QED  BY <1>9, <2>1
    <2>. QED  BY <1>2, <2>2 DEF Scopes
  <1>. QED  BY <1>2, <1>4, <1>8, <1>11, <1>16, <1>17, ResolvingStep

(* When nothing waits, every name was found.                               *)
LEMMA AppendResolving ==
  ASSUME IInv, Resolving, AppendStream
  PROVE  Resolving'
  <1>1. /\ status = "run" /\ tasks = <<>> /\ Len(functions) > Len(lambdas) /\ status' = "done"
        /\ UNCHANGED program
    BY DEF AppendStream
  <1>2. PICK w \in Scopes(Len(envs)) : Settled(NoNames, w)
    BY <1>1, NothingAhead
  <1>3. NoNames.used = {} /\ NoNames.closed = {}
    BY DEF NoNames, Names
  <1>4. Waiting(NoNames.defined, w)
    <2>1. /\ functions \in Seq([parent : Nat, size : Nat, body : Seq(Lines)])
          /\ lambdas \in Seq([exp : LambdaNodes, env : Nat])
      BY DEF IInv, Typed
    <2>2. Len(functions) \in Nat /\ Len(lambdas) \in Nat
      BY ONLY <2>1
    <2>3. \A k \in Len(functions) .. Len(lambdas) : FALSE
      BY <1>1, <2>2
    <2>. QED  BY <2>3 DEF Waiting
  <1>5. LookedFor(w)
    BY <1>1 DEF LookedFor
  <1>6. FreeNames = {}
    BY <1>2, <1>3, <1>4, <1>5 DEF Settled, Resolved, Within
  <1>7. FreeNames' = {}
    BY <1>1, <1>6, ProgramKept
  <1>. QED  BY <1>1, <1>7 DEF Resolving, UnboundExactly

(* A name that is looked for beyond the outermost environment is free.     *)
LEMMA FailResolving ==
  ASSUME IInv, Resolving, IllegalNodeType \/ UnboundVariable \/ Unimplemented \/ Overrun
  PROVE  Resolving'
  <1>1. CASE UnboundVariable
    <2>1. /\ status = "run" /\ tasks # <<>> /\ Todo.do = "scan" /\ Todo.env = 0
          /\ status' = "unbound" /\ UNCHANGED program
      BY <1>1 DEF UnboundVariable, Doing, Fail
    <2>2. PICK a \in NameSets, w \in Scopes(Len(envs)) : Settled(a, w)
      BY <2>1 DEF Resolving
    <2>3. w[0] = {}
      BY <2>2 DEF Settled, Views
    <2>4. ~ LookedFor(w)
      BY <2>1, <2>3 DEF LookedFor
    <2>5. FreeNames # {}
      BY <2>2, <2>4 DEF Settled, Resolved
    <2>6. FreeNames' # {}
      BY <2>1, <2>5, ProgramKept
    <2>. QED  BY <2>1, <2>6 DEF Resolving, UnboundExactly
  <1>2. CASE IllegalNodeType \/ Unimplemented \/ Overrun
    <2>1. status' \in {"illegal", "unimplemented", "overrun"}
      BY <1>2 DEF IllegalNodeType, Unimplemented, Overrun, Fail
    <2>. QED  BY <2>1 DEF Resolving, UnboundExactly
  <1>. QED  BY <1>1, <1>2

(* Every step keeps the names settled.                                     *)
LEMMA NextResolving == ASSUME IInv, Traced, Resolving, [Next]_vars PROVE Resolving'
  <1>1. CASE GenMain  BY <1>1, MainResolving
  <1>2. CASE GenLambda  BY <1>2, LambdaResolving
  <1>3. CASE AppendStream  BY <1>3, AppendResolving
  <1>4. CASE \/ EmitLines \/ GenLiteral \/ GenDefinition \/ GenAssignment \/ GenIf
             \/ GenConsequent \/ GenAlternative \/ GenBegin \/ GenApplication
    BY <1>4, SplittingIsQuiet, QuietResolving
  <1>5. CASE GenVariable \/ SetVariable  BY <1>5, LookingResolving
  <1>6. CASE FoundVariable \/ ScanOutwards  BY <1>6, ScanResolving
  <1>7. CASE RebindDefinition \/ BindDefinition  BY <1>7, DefinitionResolving
  <1>8. CASE GenProcedure  BY <1>8, ProcedureResolving
  <1>9. CASE IllegalNodeType \/ UnboundVariable \/ Unimplemented \/ Overrun
    BY <1>9, FailResolving
  <1>10. CASE UNCHANGED vars
    <2>1. UNCHANGED <<program, tasks, envs, lambdas, functions, status>>
      BY <1>10 DEF vars
    <2>2. FreeNames' = FreeNames
      BY <2>1, ProgramKept
    <2>3. UnboundExactly'
      BY <2>1, <2>2 DEF Resolving, UnboundExactly
    <2>4. ASSUME status = "run"
          PROVE  \E a \in NameSets, w \in Scopes(Len(envs')) :
                   Turns(tasks', a, NoNames) /\ Settled(a, w)'
      <3>1. PICK a \in NameSets, w \in Scopes(Len(envs)) :
          Turns(tasks, a, NoNames) /\ Settled(a, w)
        BY <2>4 DEF Resolving
      <3>2. Turns(tasks', a, NoNames) /\ Views(envs', w) /\ (FreeNames = {} <=> Resolved(a, w))
        BY <2>1, <3>1 DEF Settled
      <3>3. LookedFor(w)' <=> LookedFor(w)
        BY <2>1 DEF LookedFor, Todo
      <3>4. Waiting(a.defined, w)' <=> Waiting(a.defined, w)
        <4>1. PICK d : d = a.defined
          OBVIOUS
        <4>2. Len(functions') = Len(functions) /\ UNCHANGED lambdas
          BY <2>1
        <4>3. Waiting(d, w)' <=> Waiting(d, w)
          BY <4>2, WaitingKept
        <4>. QED  BY <4>1, <4>3
      <3>5. Current' = Current
        BY <2>1 DEF Current
      <3>6. Resolved(a, w)' <=> Resolved(a, w)
        BY <3>3, <3>4, <3>5 DEF Resolved
      <3>7. Settled(a, w)'
        BY <2>2, <3>2, <3>6 DEF Settled
      <3>8. w \in Scopes(Len(envs'))
        BY <2>1
      <3>. QED  BY <3>2, <3>7, <3>8
    <2>. QED  BY <2>1, <2>3, <2>4 DEF Resolving
  <1>11. CASE Ended
    BY <1>10, <1>11 DEF Ended
  <1>. QED
    BY <1>1, <1>2, <1>3, <1>4, <1>5, <1>6, <1>7, <1>8, <1>9, <1>10, <1>11 DEF Next, Step

(* Names are settled from the start to the end of the generation.          *)
THEOREM NamesInvariance == Spec => []Resolving
  <1>1. Init => Resolving
    BY DEF Init, Resolving, UnboundExactly
  <1>2. IInv /\ Traced /\ Sized /\ Resolving /\ [Next]_vars => Resolving'
    BY NextResolving
  <1>. QED  BY <1>1, <1>2, RoomInvariance, PTL DEF Spec

(* A program compiles only if each variable in it is a primitive, or a     *)
(* parameter or a definition of a lambda expression around it, and it is   *)
(* rejected as unbound only if one is not, though the bodies of lambda     *)
(* expressions are generated long after the code around them.              *)
THEOREM UnboundIsExact == Spec => []UnboundExactly
  <1>1. Resolving => UnboundExactly
    BY DEF Resolving
  <1>. QED  BY <1>1, NamesInvariance, PTL

=============================================================================
