---------------------------- MODULE LayoutProofs ----------------------------
(***************************************************************************)
(* The layout of a body: what makes it complete, what its notes then say,  *)
(* and how it grows on the way there, line by line and task by task.       *)
(* Module OutputProofs shows that the code generator goes this way.        *)
(***************************************************************************)
EXTENDS GeneratorProofs

-----------------------------------------------------------------------------
(* The shape of a body.                                                    *)
(*                                                                         *)
(* D[i] words are there at least before line i, for any i up to the end of *)
(* what is written, and h[i] blocks are open behind it.                    *)

Openers == {"if", "else"}

Rise(op) == IF op \in Openers THEN 1 ELSE IF op = "close" THEN -1 ELSE 0

(* Line j closes the block that line i opens.                              *)
Closes(b, h, i, j) ==
  /\ i \in 1 .. j /\ j <= Len(b)
  /\ b[i].op \in Openers
  /\ h[j] = h[i - 1]
  /\ \A k \in i .. (j - 1) : h[k] > h[i - 1]

(* Where control goes from an if that line j closes.                       *)
Past(b, j) == IF j < Len(b) /\ b[j + 1].op = "else" THEN j + 2 ELSE j + 1

LineShape(b, D, h, i) ==
  /\ h[i] = h[i - 1] + Rise(b[i].op)
  /\ b[i].op \in PopOps => D[i] >= 1
  /\ b[i].op # "else" => D[i + 1] <= D[i] + Change(b[i].op)
  /\ b[i].op = "else" =>
       D[i] = 0 /\ \E k \in 1 .. (i - 1) : Closes(b, h, k, i - 1) /\ b[k].op = "if"

BlockShape(b, D, h, i, j) ==
  Closes(b, h, i, j) =>
    /\ b[i].op = "if" => D[Past(b, j)] <= D[i] - 1
    /\ b[i].op = "else" => D[j + 1] <= D[i - 1]

Shape(b, D, h) ==
  /\ D \in [1 .. (Len(b) + 1) -> Nat] /\ D[1] = 0
  /\ h \in [0 .. Len(b) -> Nat] /\ h[0] = 0
  /\ \A i \in 1 .. Len(b) : LineShape(b, D, h, i)
  /\ \A i, j \in 1 .. Len(b) : BlockShape(b, D, h, i, j)

Ends == {"return", "exit"}

(* The body is complete: its last line leaves it, and no other.            *)
Complete(b, h) ==
  /\ Len(b) > 0 /\ h[Len(b)] = 0
  /\ \A i \in 1 .. Len(b) : b[i].op \in Ends <=> i = Len(b)

-----------------------------------------------------------------------------
(* What the shape says of the lines' successors.                           *)

(* The blocks that are open tell how the braces are matched.               *)
LEMMA OpensIsHeight ==
  ASSUME NEW b, Len(b) \in Nat, NEW D, NEW h, Shape(b, D, h),
         NEW i \in 1 .. Len(b), NEW k \in i .. Len(b)
  PROVE  Opens(b, i, k) = h[k] - h[i - 1]
  <1> DEFINE ups(j) == {l \in i .. j : b[l].op \in {"if", "else"}}
             downs(j) == {l \in i .. j : b[l].op = "close"}
             good == {j \in (i - 1) .. Len(b) :
                        /\ IsFiniteSet(ups(j)) /\ IsFiniteSet(downs(j))
                        /\ Cardinality(ups(j)) - Cardinality(downs(j)) = h[j] - h[i - 1]}
  <1>1. i - 1 \in good
    <2>1. ups(i - 1) = {} /\ downs(i - 1) = {}
      OBVIOUS
    <2>2. h[i - 1] \in Nat /\ i - 1 \in (i - 1) .. Len(b)
      BY DEF Shape
    <2>3. IsFiniteSet({}) /\ Cardinality({}) = 0
      BY FS_EmptySet
    <2> HIDE DEF ups, downs
    <2>4. /\ IsFiniteSet(ups(i - 1)) /\ IsFiniteSet(downs(i - 1))
          /\ Cardinality(ups(i - 1)) = 0 /\ Cardinality(downs(i - 1)) = 0
      BY <2>1, <2>3, Zenon
    <2>5. Cardinality(ups(i - 1)) - Cardinality(downs(i - 1)) = h[i - 1] - h[i - 1]
      BY <2>2, <2>4
    <2>. QED  BY <2>2, <2>4, <2>5
  <1>2. ASSUME NEW j \in (i - 1) .. (Len(b) - 1), j \in good  PROVE j + 1 \in good
    <2>0. j + 1 \in i .. Len(b) /\ j + 1 \in 1 .. Len(b) /\ (j + 1) - 1 = j
      OBVIOUS
    <2>1. h[j + 1] = h[j] + Rise(b[j + 1].op) /\ h[j] \in Nat /\ h[i - 1] \in Nat /\ h[j + 1] \in Nat
      <3>1. h \in [0 .. Len(b) -> Nat] /\ LineShape(b, D, h, j + 1)
        BY <2>0 DEF Shape
      <3>2. h[j + 1] = h[(j + 1) - 1] + Rise(b[j + 1].op)
        BY <3>1 DEF LineShape
      <3>3. j \in 0 .. Len(b) /\ i - 1 \in 0 .. Len(b) /\ j + 1 \in 0 .. Len(b)
        BY <2>0
      <3>. QED  BY <2>0, <3>1, <3>2, <3>3
    <2>2. ups(j + 1) = IF b[j + 1].op \in {"if", "else"} THEN ups(j) \cup {j + 1} ELSE ups(j)
      BY <2>0
    <2>3. downs(j + 1) = IF b[j + 1].op = "close" THEN downs(j) \cup {j + 1} ELSE downs(j)
      BY <2>0
    <2>4. j + 1 \notin ups(j) /\ j + 1 \notin downs(j)
      BY <2>0
    <2>5. /\ IsFiniteSet(ups(j)) /\ IsFiniteSet(downs(j))
          /\ Cardinality(ups(j)) - Cardinality(downs(j)) = h[j] - h[i - 1]
      BY <1>2
    <2> HIDE DEF ups, downs
    <2>6. /\ IsFiniteSet(ups(j + 1)) /\ IsFiniteSet(downs(j + 1))
          /\ Cardinality(ups(j)) \in Nat /\ Cardinality(downs(j)) \in Nat
          /\ Cardinality(ups(j + 1)) =
               IF b[j + 1].op \in {"if", "else"} THEN Cardinality(ups(j)) + 1 ELSE Cardinality(ups(j))
          /\ Cardinality(downs(j + 1)) =
               IF b[j + 1].op = "close" THEN Cardinality(downs(j)) + 1 ELSE Cardinality(downs(j))
      BY <2>2, <2>3, <2>4, <2>5, FS_AddElement, FS_CardinalityType
    <2>7. PICK u, d, v, e :
            /\ u = Cardinality(ups(j)) /\ d = Cardinality(downs(j))
            /\ v = Cardinality(ups(j + 1)) /\ e = Cardinality(downs(j + 1))
      OBVIOUS
    <2>8. /\ u \in Nat /\ d \in Nat /\ u - d = h[j] - h[i - 1]
          /\ v = IF b[j + 1].op \in {"if", "else"} THEN u + 1 ELSE u
          /\ e = IF b[j + 1].op = "close" THEN d + 1 ELSE d
      BY <2>5, <2>6, <2>7, Zenon
    <2>9. v - e = h[j + 1] - h[i - 1]
      <3>1. PICK x, y, z, op : x = h[j] /\ y = h[j + 1] /\ z = h[i - 1] /\ op = b[j + 1].op
        OBVIOUS
      <3>2. x \in Nat /\ y \in Nat /\ z \in Nat /\ y = x + Rise(op)
        BY <2>1, <3>1
      <3>3. /\ u \in Nat /\ d \in Nat /\ u - d = x - z
            /\ v = IF op \in {"if", "else"} THEN u + 1 ELSE u
            /\ e = IF op = "close" THEN d + 1 ELSE d
        BY <2>8, <3>1
      <3>4. v - e = y - z
        BY <3>2, <3>3 DEF Rise, Openers
      <3>. QED  BY <3>1, <3>4
    <2>. QED  BY <2>0, <2>6, <2>7, <2>9
  <1>3. k \in good
    <2>1. i - 1 \in Int /\ Len(b) \in Int /\ k \in (i - 1) .. Len(b)
      OBVIOUS
    <2> HIDE DEF good
    <2>. QED  BY <1>1, <1>2, <2>1, UpwardInduction
  <1>. QED  BY <1>3 DEF Opens

(* Every block of a complete body is closed, by the line that the braces   *)
(* say.                                                                    *)
LEMMA MatchCloses ==
  ASSUME NEW b, Len(b) \in Nat, NEW D, NEW h, Shape(b, D, h), Complete(b, h),
         NEW i \in 1 .. Len(b), b[i].op \in Openers
  PROVE  /\ Match(b, i) \in (i + 1) .. (Len(b) - 1) /\ Closes(b, h, i, Match(b, i))
         /\ b[Match(b, i)].op = "close"
  <1> DEFINE n == Len(b)
             low == {k \in i .. n : h[k] <= h[i - 1]}
  <1>1. /\ \A k \in 0 .. n : h[k] \in Nat
        /\ \A k \in 1 .. n : h[k] = h[k - 1] + Rise(b[k].op)
    BY DEF Shape, LineShape
  <1>2. n \in low
    BY <1>1 DEF Complete
  <1>3. PICK j \in low : \A k \in low : j <= k
    <2>1. low \subseteq Nat /\ low # {}
      BY <1>2
    <2> HIDE DEF low
    <2>. QED  BY <2>1, LeastNumber
  <1>4. j # i
    <2>1. h[i] = h[i - 1] + 1
      BY <1>1 DEF Rise
    <2>. QED  BY <1>1, <1>3, <2>1
  <1>5. \A k \in i .. (j - 1) : h[k] > h[i - 1]
    <2> TAKE k \in i .. (j - 1)
    <2>1. k \in i .. n /\ k < j
      BY <1>3
    <2>2. ~ (h[k] <= h[i - 1])
      BY <1>3, <2>1
    <2>. QED  BY <1>1, <2>1, <2>2
  <1>6. h[j] = h[i - 1] /\ b[j].op = "close"
    <2>1. j - 1 \in i .. (j - 1) /\ j \in 1 .. n
      BY <1>3, <1>4
    <2>2. h[j - 1] > h[i - 1] /\ h[j] <= h[i - 1] /\ h[j] = h[j - 1] + Rise(b[j].op)
      BY <1>1, <1>3, <1>5, <2>1
    <2>3. Rise(b[j].op) \in {-1, 0, 1} /\ (Rise(b[j].op) = -1 => b[j].op = "close")
      BY DEF Rise
    <2>4. h[j] \in Nat /\ h[j - 1] \in Nat /\ h[i - 1] \in Nat
      BY <1>1, <1>3, <1>4
    <2>. QED  BY <2>2, <2>3, <2>4
  <1>7. Closes(b, h, i, j) /\ j \in (i + 1) .. n
    BY <1>3, <1>4, <1>5, <1>6 DEF Closes
  <1>8. j # n
    BY <1>6, <1>3 DEF Complete, Ends
  <1>9. Match(b, i) = j
    <2> DEFINE M(l) == Opens(b, i, l) = 0 /\ \A k \in i .. (l - 1) : Opens(b, i, k) # 0
    <2>1. ASSUME NEW l \in i .. n
          PROVE  M(l) <=> h[l] = h[i - 1] /\ \A k \in i .. (l - 1) : h[k] # h[i - 1]
      <3>1. \A k \in i .. l : Opens(b, i, k) = h[k] - h[i - 1] /\ h[k] \in Nat /\ h[i - 1] \in Nat
        BY <1>1, OpensIsHeight
      <3> HIDE DEF Opens
      <3>2. Opens(b, i, l) = 0 <=> h[l] = h[i - 1]
        BY <3>1
      <3>3. \A k \in i .. (l - 1) : Opens(b, i, k) # 0 <=> h[k] # h[i - 1]
        BY <3>1
      <3>. QED  BY <3>2, <3>3
    <2>2. j \in i .. n /\ M(j)
      <3>1. j \in i .. n
        BY <1>7
      <3>2. \A k \in i .. (j - 1) : h[k] # h[i - 1]
        BY <1>1, <1>5, <3>1
      <3>. QED  BY <1>6, <2>1, <3>1, <3>2
    <2>3. Match(b, i) = CHOOSE l \in i .. n : M(l)
      BY DEF Match
    <2>4. PICK l \in i .. n : Match(b, i) = l /\ M(l)
      <3> HIDE DEF M
      <3>. QED  BY <2>2, <2>3
    <2>5. h[l] = h[i - 1] /\ \A k \in i .. (l - 1) : h[k] # h[i - 1]
      BY <2>1, <2>4
    <2>6. ~ (l < j) /\ ~ (j < l)
      <3>1. l < j => l \in i .. (j - 1)
        OBVIOUS
      <3>2. j < l => j \in i .. (l - 1)
        BY <2>2
      <3>. QED  BY <1>1, <1>5, <1>6, <2>5, <3>1, <3>2
    <2>. QED  BY <2>2, <2>4, <2>6
  <1>. QED  BY <1>6, <1>7, <1>8, <1>9

(* Behind the line that closes an if, and behind its else.                 *)
LEMMA AfterIf ==
  ASSUME NEW b, Len(b) \in Nat, NEW D, NEW h, Shape(b, D, h), Complete(b, h),
         NEW i \in 1 .. Len(b), b[i].op = "if"
  PROVE  /\ WhenZero(b, i) \in (i + 1) .. Len(b)
         /\ D[WhenZero(b, i)] <= D[i] - 1
         /\ WhenZero(b, i) = Past(b, Match(b, i))
  <1> DEFINE n == Len(b)
             j == Match(b, i)
  <1>1. j \in (i + 1) .. (n - 1) /\ Closes(b, h, i, j)
    BY MatchCloses DEF Openers
  <1>2. WhenZero(b, i) = IF IsElse(b, j + 1) THEN j + 2 ELSE j + 1
    BY DEF WhenZero
  <1> HIDE DEF j
  <1>3. BlockShape(b, D, h, i, j)
    BY <1>1 DEF Shape
  <1>4. D[Past(b, j)] <= D[i] - 1
    BY <1>1, <1>3 DEF BlockShape
  <1>5. WhenZero(b, i) = Past(b, j)
    BY <1>1, <1>2 DEF Past, IsElse
  <1>6. Past(b, j) \in (i + 1) .. n
    <2>1. b[n].op # "else"
      BY DEF Complete, Ends
    <2>2. CASE b[j + 1].op = "else"
      <3>1. j + 1 # n
        BY <2>1, <2>2
      <3>. QED  BY <1>1, <3>1 DEF Past
    <2>3. CASE b[j + 1].op # "else"
      BY <1>1, <2>3 DEF Past
    <2>. QED  BY <2>2, <2>3
  <1>. QED  BY <1>4, <1>5, <1>6 DEF j

(* Behind the line that closes an else.                                    *)
LEMMA AfterElse ==
  ASSUME NEW b, Len(b) \in Nat, NEW D, NEW h, Shape(b, D, h), Complete(b, h),
         NEW i \in 1 .. Len(b), b[i].op = "else"
  PROVE  /\ Match(b, i) + 1 \in (i + 1) .. Len(b)
         /\ D[Match(b, i) + 1] <= D[i - 1]
  <1> DEFINE j == Match(b, i)
  <1>1. j \in (i + 1) .. (Len(b) - 1) /\ Closes(b, h, i, j)
    BY MatchCloses DEF Openers
  <1> HIDE DEF j
  <1>2. BlockShape(b, D, h, i, j)
    BY <1>1 DEF Shape
  <1>3. D[j + 1] <= D[i - 1]
    BY <1>1, <1>2 DEF BlockShape
  <1>4. j + 1 \in (i + 1) .. Len(b)
    BY <1>1
  <1>. QED  BY <1>3, <1>4 DEF j

(* The lower bounds hold along all ways through a complete body, and all   *)
(* ways lead forward.                                                      *)
LEMMA SuccessorsForward ==
  ASSUME NEW b, Len(b) \in Nat, NEW D, NEW h, Shape(b, D, h), Complete(b, h),
         NEW i \in 1 .. Len(b), NEW j \in Successors(b, i)
  PROVE  /\ j \in (i + 1) .. Len(b)
         /\ D[j] <= D[i] + Change(b[i].op)
         /\ j # i + 1 => b[j - 1].op \in {"close", "else"}
  <1> DEFINE n == Len(b)
  <1>1. LineShape(b, D, h, i)
    BY DEF Shape
  <1>2. D \in [1 .. (n + 1) -> Nat]
    BY DEF Shape
  <1>3. i < n \/ b[i].op \in Ends
    BY DEF Complete
  <1>4. CASE b[i].op \in {"return", "exit", "else"}
    BY <1>4 DEF Successors
  <1>5. CASE b[i].op = "if"
    <2>1. j \in {i + 1, WhenZero(b, i)} /\ Change("if") = -1
      BY <1>5 DEF Successors, Change, PushOps, PopOps
    <2>2. D[i + 1] <= D[i] + Change(b[i].op)
      BY <1>1, <1>5 DEF LineShape
    <2>3. CASE j = i + 1
      BY <1>3, <1>5, <2>2, <2>3 DEF Ends
    <2>4. CASE j = WhenZero(b, i)
      <3>1. j \in (i + 1) .. n /\ D[j] <= D[i] - 1 /\ j = Past(b, Match(b, i))
        BY <1>5, <2>4, AfterIf
      <3>2. b[j - 1].op \in {"close", "else"}
        <4>1. b[Match(b, i)].op = "close" /\ Match(b, i) \in 1 .. n
          BY <1>5, MatchCloses DEF Openers
        <4> HIDE DEF Match
        <4>2. CASE j = Match(b, i) + 1
          BY <4>1, <4>2
        <4>3. CASE j # Match(b, i) + 1
          <5>1. j = Match(b, i) + 2 /\ b[Match(b, i) + 1].op = "else"
            BY <3>1, <4>3 DEF Past
          <5>2. j - 1 = Match(b, i) + 1
            BY <4>1, <5>1
          <5>. QED  BY <5>1, <5>2
        <4>. QED  BY <4>2, <4>3
      <3>. QED  BY <1>2, <1>5, <2>1, <3>1, <3>2
    <2>. QED  BY <2>1, <2>3, <2>4
  <1>6. CASE b[i].op = "close"
    <2>1. j = AfterBlock(b, i) /\ Change("close") = 0
      BY <1>6 DEF Successors, Change, PushOps, PopOps
    <2>2. D[i + 1] <= D[i] + Change(b[i].op)
      BY <1>1, <1>6 DEF LineShape
    <2>3. i < n
      BY <1>3, <1>6 DEF Ends
    <2>4. CASE IsElse(b, i + 1)
      <3>1. j = Match(b, i + 1) + 1 /\ i + 1 \in 1 .. n /\ b[i + 1].op = "else"
        BY <2>1, <2>4 DEF AfterBlock, IsElse
      <3>2. j \in (i + 2) .. n /\ D[j] <= D[i]
        <4>1. Match(b, i + 1) + 1 \in ((i + 1) + 1) .. n /\ D[Match(b, i + 1) + 1] <= D[(i + 1) - 1]
          BY <3>1, AfterElse
        <4> HIDE DEF Match
        <4>. QED  BY <3>1, <4>1
      <3>3. b[j - 1].op = "close"
        <4>1. b[Match(b, i + 1)].op = "close" /\ Match(b, i + 1) \in 1 .. n
          BY <3>1, MatchCloses DEF Openers
        <4>2. j - 1 = Match(b, i + 1)
          <5> HIDE DEF Match
          <5>. QED  BY <3>1, <4>1
        <4>. QED  BY <4>1, <4>2
      <3>. QED  BY <1>2, <1>6, <2>1, <3>2, <3>3
    <2>5. CASE ~ IsElse(b, i + 1)
      <3>1. j = i + 1
        BY <2>1, <2>5 DEF AfterBlock
      <3>. QED  BY <2>2, <2>3, <3>1
    <2>. QED  BY <2>4, <2>5
  <1>7. CASE b[i].op \notin {"return", "exit", "else", "if", "close"}
    <2>1. j = i + 1
      BY <1>7 DEF Successors
    <2>2. D[i + 1] <= D[i] + Change(b[i].op)
      BY <1>1, <1>7 DEF LineShape
    <2>3. i < n
      BY <1>3, <1>7 DEF Ends
    <2>. QED  BY <2>1, <2>2, <2>3
  <1>. QED  BY <1>4, <1>5, <1>6, <1>7

(* A line that relies on words on the stack has one before it.             *)
LEMMA HasPredecessor ==
  ASSUME NEW b, Len(b) \in Nat, NEW D, NEW h, Shape(b, D, h), Complete(b, h),
         NEW j \in 1 .. Len(b), D[j] # 0
  PROVE  \E i \in 1 .. (j - 1) : j \in Successors(b, i)
  <1> DEFINE n == Len(b)
             p == j - 1
  <1>1. p \in 1 .. (j - 1) /\ p \in 1 .. n /\ p + 1 = j /\ p < n
    BY DEF Shape
  <1> HIDE DEF p
  <1>2. b[p].op \notin Ends
    BY <1>1 DEF Complete
  <1>3. b[j].op # "else"
    BY DEF Shape, LineShape
  <1>4. CASE b[p].op = "close"
    <2>1. ~ IsElse(b, p + 1)
      BY <1>1, <1>3 DEF IsElse
    <2>2. Successors(b, p) = {p + 1}
      BY <1>4, <2>1 DEF Successors, AfterBlock
    <2>. QED  BY <1>1, <2>2
  <1>5. CASE b[p].op = "else"
    <2>1. LineShape(b, D, h, p)
      BY <1>1 DEF Shape
    <2>2. PICK k \in 1 .. (p - 1) : Closes(b, h, k, p - 1) /\ b[k].op = "if"
      BY <1>5, <2>1 DEF LineShape
    <2>3. k \in 1 .. n /\ Match(b, k) \in (k + 1) .. (n - 1) /\ Closes(b, h, k, Match(b, k))
      BY <1>1, <2>2, MatchCloses DEF Openers
    <2>4. PICK m : m = Match(b, k)
      OBVIOUS
    <2>5. m = p - 1
      <3>1. \A l \in 0 .. n : h[l] \in Nat
        BY DEF Shape
      <3>2. /\ h[m] = h[k - 1] /\ \A l \in k .. (m - 1) : h[l] > h[k - 1]
            /\ h[p - 1] = h[k - 1] /\ \A l \in k .. (p - 2) : h[l] > h[k - 1]
            /\ m \in k .. n /\ p - 1 \in k .. n /\ k - 1 \in 0 .. n
        BY <1>1, <2>2, <2>3, <2>4 DEF Closes
      <3>3. ~ (m < p - 1) /\ ~ (p - 1 < m)
        <4>1. p \in Int /\ m \in Int /\ k \in Int /\ k <= m /\ k <= p - 1
          BY <1>1, <2>2, <3>2
        <4>2. m < p - 1 => m \in k .. (p - 2)
          BY <4>1
        <4>3. p - 1 < m => p - 1 \in k .. (m - 1)
          BY <4>1
        <4>. QED  BY <3>1, <3>2, <4>2, <4>3
      <3>. QED  BY <1>1, <3>2, <3>3
    <2>6. WhenZero(b, k) = j
      <3>1. WhenZero(b, k) = Past(b, m)
        BY <2>2, <2>3, <2>4, AfterIf
      <3>2. m < n /\ m + 1 = p /\ m + 2 = j
        BY <1>1, <2>2, <2>5
      <3>. QED  BY <1>5, <3>1, <3>2 DEF Past
    <2>7. Successors(b, k) = {k + 1, j}
      BY <2>2, <2>6 DEF Successors
    <2>. QED  BY <1>1, <2>2, <2>7
  <1>6. CASE b[p].op \notin {"close", "else"}
    <2>1. p + 1 \in Successors(b, p)
      BY <1>2, <1>6 DEF Successors, Ends
    <2>. QED  BY <1>1, <2>1
  <1>. QED  BY <1>4, <1>5, <1>6

(* The notes that a complete body's own text gives are never less.         *)
LEMMA DepthNotesFacts ==
  ASSUME NEW b, Len(b) \in Nat, NEW D, NEW h, Shape(b, D, h), Complete(b, h)
  PROVE  /\ DepthNotes(b) \in [1 .. Len(b) -> Nat] /\ DepthNotes(b)[1] = 0
         /\ \A i \in 1 .. Len(b) :
              /\ DepthNotes(b)[i] >= D[i]
              /\ \A j \in Successors(b, i) :
                   DepthNotes(b)[j] <= DepthNotes(b)[i] + Change(b[i].op)
  <1> DEFINE n == Len(b)
             Before(j) == {i \in 1 .. (j - 1) : j \in Successors(b, i)}
             Least_(v, j) == Least({v[i] + Change(b[i].op) : i \in Before(j)})
             E(v, j) == IF Before(j) = {} THEN 0 ELSE Least_(v, j)
             S == 1 .. n
             rank == [j \in S |-> j]
             G == [v \in [S -> Nat] |-> [j \in S |-> IF E(v, j) \in Nat THEN E(v, j) ELSE 0]]
  <1>1. ASSUME NEW v, NEW w, NEW j \in S, \A i \in S : i < j => v[i] = w[i]
        PROVE  E(v, j) = E(w, j)
    <2>1. \A i \in Before(j) : v[i] = w[i]
      BY <1>1
    <2>2. {v[i] + Change(b[i].op) : i \in Before(j)} = {w[i] + Change(b[i].op) : i \in Before(j)}
      <3> HIDE DEF Before
      <3>. QED  BY <2>1
    <2>. QED  BY <2>2
  <1> HIDE DEF E
  <1>2. PICK d \in [S -> Nat] : d = G[d]
    <2>1. Recursive(S, Nat, rank, G)
      <3>1. \A v, w \in [S -> Nat] : \A j \in S :
              (\A i \in S : rank[i] < rank[j] => v[i] = w[i]) => G[v][j] = G[w][j]
        BY <1>1
      <3>2. rank \in [S -> Nat] /\ G \in [[S -> Nat] -> [S -> Nat]]
        OBVIOUS
      <3> HIDE DEF S, rank, G
      <3>. QED  BY <3>1, <3>2 DEF Recursive
    <2> HIDE DEF S, rank, G
    <2>. QED  BY <2>1, RecursionExists
  <1>3. \A j \in S : d[j] = IF E(d, j) \in Nat THEN E(d, j) ELSE 0
    BY <1>2
  <1> HIDE DEF G
  <1>4. \A op : Change(op) \in {-1, 0, 1}
    BY DEF Change
  <1> DEFINE Good(j) ==
        /\ d[j] = E(d, j) /\ d[j] >= D[j]
        /\ \A i \in Before(j) : d[j] <= d[i] + Change(b[i].op)
  <1>5. \A j \in S : Good(j)
    <2> DEFINE good == {j \in Nat : j \in S => Good(j)}
    <2>1. ASSUME NEW j \in Nat, \A m \in 0 .. (j - 1) : m \in good
          PROVE  j \in good
      <3> SUFFICES ASSUME j \in S PROVE Good(j)
        OBVIOUS
      <3>1. D[j] \in Nat
        BY DEF Shape
      <3>2. CASE Before(j) = {}
        <4>1. D[j] = 0
          BY <3>2, HasPredecessor
        <4>2. E(d, j) = 0
          BY <3>2 DEF E
        <4>. QED  BY <1>3, <3>2, <4>1, <4>2
      <3>3. CASE Before(j) # {}
        <4> DEFINE C == {d[i] + Change(b[i].op) : i \in Before(j)}
        <4>1. ASSUME NEW i \in Before(j)
              PROVE  d[i] + Change(b[i].op) \in Nat /\ d[i] + Change(b[i].op) >= D[j]
          <5>1. i \in S /\ i \in 0 .. (j - 1) /\ j \in Successors(b, i)
            OBVIOUS
          <5>2. d[i] >= D[i] /\ d[i] \in Nat
            BY <2>1, <5>1
          <5>3. D[j] <= D[i] + Change(b[i].op) /\ D[i] \in Nat
            <6>1. D[i] \in Nat
              BY <5>1 DEF Shape
            <6>. QED  BY <5>1, <6>1, SuccessorsForward
          <5>4. PICK c : c = Change(b[i].op)
            OBVIOUS
          <5>5. c \in Int
            BY <1>4, <5>4
          <5>. QED  BY <3>1, <5>2, <5>3, <5>4, <5>5
        <4>2. C \subseteq Nat /\ C # {} /\ \A c \in C : c >= D[j]
          <5> HIDE DEF Before
          <5>. QED  BY <3>3, <4>1
        <4>3. Least(C) \in C /\ \A c \in C : Least(C) <= c
          <5> HIDE DEF C
          <5>. QED  BY <4>2, LeastNumber DEF Least
        <4>4. E(d, j) = Least(C)
          <5> HIDE DEF Before
          <5>. QED  BY <3>3 DEF E
        <4>5. \A i \in Before(j) : d[i] + Change(b[i].op) \in C
          <5> HIDE DEF Before
          <5>. QED  OBVIOUS
        <4>6. d[j] = Least(C)
          <5> HIDE DEF C
          <5>. QED  BY <1>3, <4>2, <4>3, <4>4
        <4> HIDE DEF C, Before
        <4>. QED  BY <4>2, <4>3, <4>4, <4>5, <4>6
      <3>. QED  BY <3>2, <3>3
    <2>2. Nat \subseteq good
      <3> HIDE DEF good
      <3>. QED  BY <2>1, StrongInduction
    <2> HIDE DEF Good
    <2>. QED  BY <2>2
  <1>6. DepthNotes(b) = d
    <2> DEFINE Body(v, j) ==
          IF j = 0 THEN <<>>
          ELSE LET u == v[j - 1]
                   before == {i \in 1 .. (j - 1) : j \in Successors(b, i)}
               IN Append(u, IF before = {} THEN 0
                            ELSE Least({u[i] + Change(b[i].op) : i \in before}))
      Local(v) == v = [j \in 0 .. n |-> Body(v, j)]
      g == CHOOSE v : Local(v)
      w == [j \in 0 .. n |-> [i \in 1 .. j |-> d[i]]]
    <2>1. DepthNotes(b) = g[n]
      BY DEF DepthNotes
    <2>2. ASSUME NEW v, NEW j \in 0 .. n, j # 0, v[j - 1] = w[j - 1]
          PROVE  Body(v, j) = w[j]
      <3>1. Body(v, j) = Append(v[j - 1], E(v[j - 1], j))
        BY <2>2 DEF E
      <3>2. w[j - 1] = [i \in 1 .. (j - 1) |-> d[i]] /\ w[j] = [i \in 1 .. j |-> d[i]]
        BY <2>2
      <3>3. E(w[j - 1], j) = E(d, j)
        <4>1. \A i \in S : i < j => w[j - 1][i] = d[i]
          BY <2>2, <3>2
        <4>2. j \in S
          BY <2>2
        <4> HIDE DEF w, S
        <4>. QED  BY <1>1, <4>1, <4>2
      <3>4. d[j] = E(d, j) /\ d[j] \in Nat
        <4>1. j \in S
          BY <2>2
        <4>2. Good(j)
          BY <1>5, <4>1
        <4>. QED  BY <1>2, <4>1, <4>2
      <3>5. Append([i \in 1 .. (j - 1) |-> d[i]], d[j]) = [i \in 1 .. j |-> d[i]]
        <4>1. [i \in 1 .. (j - 1) |-> d[i]] \in Seq(Nat) /\ j - 1 \in Nat
          <5>1. j - 1 \in Nat /\ \A i \in 1 .. (j - 1) : i \in S
            BY <2>2
          <5>2. \A i \in 1 .. (j - 1) : d[i] \in Nat
            BY <1>2, <5>1
          <5>. QED  BY <5>1, <5>2
        <4>. QED  BY <2>2, <3>4, <4>1
      <3> HIDE DEF Body, w
      <3>. QED  BY <2>2, <3>1, <3>2, <3>3, <3>4, <3>5
    <2>3. w[0] = <<>>
      OBVIOUS
    <2>4. Local(g)
      <3>1. ASSUME NEW j \in 0 .. n  PROVE w[j] = Body(w, j)
        <4>1. CASE j = 0
          BY <2>3, <4>1
        <4>2. CASE j # 0
          <5> HIDE DEF w, Body
          <5>. QED  BY <2>2, <4>2
        <4>. QED  BY <4>1, <4>2
      <3>2. w = [j \in 0 .. n |-> w[j]]
        OBVIOUS
      <3>3. Local(w)
        <4> HIDE DEF w, Body
        <4>. QED  BY <3>1, <3>2
      <3> HIDE DEF Local, w
      <3>. QED  BY <3>3
    <2>5. \A j \in 0 .. n : g[j] = Body(g, j)
      <3> HIDE DEF g, Body
      <3>. QED  BY <2>4
    <2> HIDE DEF g
    <2> DEFINE same == {j \in Nat : g[j] = w[j]}
    <2>6. 0 \in same
      <3>1. g[0] = Body(g, 0)
        <4>1. 0 \in 0 .. n
          OBVIOUS
        <4> HIDE DEF Body
        <4>. QED  BY <2>5, <4>1
      <3>2. Body(g, 0) = <<>>
        OBVIOUS
      <3> HIDE DEF Body, w
      <3>. QED  BY <2>3, <3>1, <3>2
    <2>7. ASSUME NEW j \in 0 .. (n - 1), j \in same  PROVE j + 1 \in same
      <3>1. j + 1 \in 0 .. n /\ j + 1 # 0 /\ (j + 1) - 1 = j
        OBVIOUS
      <3>2. g[j + 1] = Body(g, j + 1)
        BY <2>5, <3>1
      <3> HIDE DEF Body, w
      <3>. QED  BY <2>2, <2>7, <3>1, <3>2
    <2>8. n \in same
      <3>1. 0 \in Int /\ n \in Int /\ n \in 0 .. n
        OBVIOUS
      <3> HIDE DEF same, n
      <3>2. \A j \in 0 .. n : j \in same
        BY <2>6, <2>7, <3>1, UpwardInduction
      <3>. QED  BY <3>1, <3>2
    <2>9. w[n] = d
      BY <1>2
    <2>. QED  BY <2>1, <2>8, <2>9
  <1>7. d[1] = 0
    <2>1. 1 \in S
      BY DEF Complete
    <2>2. Before(1) = {}
      OBVIOUS
    <2>3. d[1] = E(d, 1)
      BY <1>5, <2>1
    <2>. QED  BY <2>2, <2>3 DEF E
  <1>8. ASSUME NEW i \in S, NEW j \in Successors(b, i)
        PROVE  d[j] <= d[i] + Change(b[i].op)
    <2>1. j \in (i + 1) .. n
      BY SuccessorsForward
    <2>2. i \in Before(j) /\ j \in S
      BY <2>1
    <2>. QED  BY <1>5, <2>2
  <1>. QED  BY <1>2, <1>5, <1>6, <1>7, <1>8

(* Where r0 points after a line, if it points to o's before it.            *)
After(c, f, o, l) ==
  CASE l.op = "scan"  -> f
    [] l.op = "outer" -> IF o = 0 THEN 0 ELSE c[o].parent
    [] OTHER -> 0

(* The notes on the environments are the ones that go from line to line.   *)
LEMMA OwnerNotesFacts ==
  ASSUME NEW c, NEW f, Len(c[f].body) \in Nat,
         NEW o \in [1 .. Len(c[f].body) -> Nat], Len(c[f].body) > 0 => o[1] = 0,
         \A j \in 2 .. Len(c[f].body) : o[j] = After(c, f, o[j - 1], c[f].body[j - 1])
  PROVE  OwnerNotes(c, f) = o
  <1> DEFINE b == c[f].body
             n == Len(b)
             E(u, j) == IF j = 1 THEN 0 ELSE After(c, f, u[j - 1], b[j - 1])
             Body(v, j) == IF j = 0 THEN <<>> ELSE Append(v[j - 1], E(v[j - 1], j))
             Local(v) == v = [j \in 0 .. n |-> Body(v, j)]
             g == CHOOSE v : Local(v)
             w == [j \in 0 .. n |-> [i \in 1 .. j |-> o[i]]]
  <1>1. OwnerNotes(c, f) = g[n]
    BY DEF OwnerNotes, After
  <1>2. ASSUME NEW v, NEW j \in 0 .. n, j # 0, v[j - 1] = w[j - 1]
        PROVE  Body(v, j) = w[j]
    <2>1. Body(v, j) = Append(v[j - 1], E(v[j - 1], j))
      BY <1>2
    <2>2. w[j - 1] = [i \in 1 .. (j - 1) |-> o[i]] /\ w[j] = [i \in 1 .. j |-> o[i]]
      BY <1>2
    <2>3. E(w[j - 1], j) = o[j]
      <3>1. CASE j = 1
        BY <1>2, <3>1
      <3>2. CASE j # 1
        <4>1. j \in 2 .. n /\ j - 1 \in 1 .. (j - 1)
          BY <1>2, <3>2
        <4>2. w[j - 1][j - 1] = o[j - 1]
          BY <2>2, <4>1
        <4> HIDE DEF w
        <4>. QED  BY <3>2, <4>1, <4>2
      <3>. QED  BY <3>1, <3>2
    <2>4. Append([i \in 1 .. (j - 1) |-> o[i]], o[j]) = [i \in 1 .. j |-> o[i]]
      <3>1. [i \in 1 .. (j - 1) |-> o[i]] \in Seq(Nat) /\ j - 1 \in Nat /\ o[j] \in Nat
        <4>1. j - 1 \in Nat /\ \A i \in 1 .. (j - 1) : i \in 1 .. n
          BY <1>2
        <4>2. \A i \in 1 .. (j - 1) : o[i] \in Nat
          BY <4>1
        <4>3. j \in 1 .. n
          BY <1>2
        <4>4. o[j] \in Nat
          BY <4>3
        <4>. QED  BY <4>1, <4>2, <4>4
      <3>. QED  BY <1>2, <3>1
    <2> HIDE DEF Body, w, E
    <2>. QED  BY <1>2, <2>1, <2>2, <2>3, <2>4
  <1>3. w[0] = <<>>
    OBVIOUS
  <1>4. Local(g)
    <2>1. ASSUME NEW j \in 0 .. n  PROVE w[j] = Body(w, j)
      <3>1. CASE j = 0
        BY <1>3, <3>1
      <3>2. CASE j # 0
        <4> HIDE DEF w, Body
        <4>. QED  BY <1>2, <3>2
      <3>. QED  BY <3>1, <3>2
    <2>2. w = [j \in 0 .. n |-> w[j]]
      OBVIOUS
    <2>3. Local(w)
      <3> HIDE DEF w, Body
      <3>. QED  BY <2>1, <2>2
    <2> HIDE DEF Local, w
    <2>. QED  BY <2>3
  <1>5. \A j \in 0 .. n : g[j] = Body(g, j)
    <2> HIDE DEF g, Body
    <2>. QED  BY <1>4
  <1> HIDE DEF g
  <1> DEFINE same == {j \in Nat : g[j] = w[j]}
  <1>6. 0 \in same
    <2>1. g[0] = Body(g, 0)
      <3>1. 0 \in 0 .. n
        OBVIOUS
      <3> HIDE DEF Body
      <3>. QED  BY <1>5, <3>1
    <2>2. Body(g, 0) = <<>>
      OBVIOUS
    <2> HIDE DEF Body, w
    <2>. QED  BY <1>3, <2>1, <2>2
  <1>7. ASSUME NEW j \in 0 .. (n - 1), j \in same  PROVE j + 1 \in same
    <2>1. j + 1 \in 0 .. n /\ j + 1 # 0 /\ (j + 1) - 1 = j
      OBVIOUS
    <2>2. g[j + 1] = Body(g, j + 1)
      BY <1>5, <2>1
    <2> HIDE DEF Body, w
    <2>. QED  BY <1>2, <1>7, <2>1, <2>2
  <1>8. n \in same
    <2>1. 0 \in Int /\ n \in Int /\ n \in 0 .. n
      OBVIOUS
    <2> HIDE DEF same, n
    <2>2. \A j \in 0 .. n : j \in same
      BY <1>6, <1>7, <2>1, UpwardInduction
    <2>. QED  BY <2>1, <2>2
  <1>9. w[n] = o
    OBVIOUS
  <1>. QED  BY <1>1, <1>8, <1>9

-----------------------------------------------------------------------------
(* How the shape grows, line by line.                                      *)

(* b2 is b with more lines, D2 and h2 say of b's what D and h say.         *)
Grows(b, D, h, b2, D2, h2) ==
  /\ Len(b2) \in Nat /\ Len(b2) >= Len(b)
  /\ D2 \in [1 .. (Len(b2) + 1) -> Nat] /\ D2[1] = 0
  /\ h2 \in [0 .. Len(b2) -> Nat]
  /\ \A i \in 1 .. Len(b) : b2[i] = b[i] /\ D2[i] = D[i]
  /\ \A i \in 0 .. Len(b) : h2[i] = h[i]

(* Behind line n no block is opened or closed.                             *)
Level(h, n, h2, n2) == \A k \in n .. n2 : h2[k] = h[n]

(* A body that has grown and promises no more of its old end than before. *)
GrowsBehind(b, n, D, h, b2, n2, D2, h2) ==
  /\ n \in Nat /\ Len(b) = n /\ Shape(b, D, h)
  /\ n2 \in Nat /\ Len(b2) = n2 /\ n2 > n /\ Grows(b, D, h, b2, D2, h2)
  /\ D2[n + 1] <= D[n + 1]
  /\ b2[n + 1].op = "else" => D2[n + 2] <= D[n + 1]

(* The lines that are there keep their shape, even if less is promised of  *)
(* the end than was, as for an else.                                       *)
LEMMA OldShape ==
  ASSUME NEW b, NEW n, NEW D, NEW h, NEW b2, NEW n2, NEW D2, NEW h2,
         GrowsBehind(b, n, D, h, b2, n2, D2, h2)
  PROVE  /\ \A i, j \in 1 .. n : Closes(b2, h2, i, j) <=> Closes(b, h, i, j)
         /\ \A i \in 1 .. n : LineShape(b2, D2, h2, i)
         /\ \A i, j \in 1 .. n : BlockShape(b2, D2, h2, i, j)
  <1>. USE DEF GrowsBehind
  <1>1. /\ \A i \in 1 .. n : b2[i] = b[i] /\ D2[i] = D[i]
        /\ \A i \in 0 .. n : h2[i] = h[i]
    BY DEF Grows
  <1>2. /\ \A i \in 1 .. (n + 1) : D[i] \in Nat
        /\ \A i \in 1 .. (n2 + 1) : D2[i] \in Nat
        /\ \A i \in 0 .. n : h[i] \in Nat
    BY DEF Grows, Shape
  <1>3. \A i \in 1 .. (n + 1) : D2[i] <= D[i] /\ D2[i] \in Nat /\ D[i] \in Nat
    <2> TAKE i \in 1 .. (n + 1)
    <2>0. i \in 1 .. (n2 + 1)
      OBVIOUS
    <2>1. D2[i] \in Nat /\ D[i] \in Nat
      BY <1>2, <2>0
    <2>2. CASE i = n + 1
      BY <2>1, <2>2
    <2>3. CASE i # n + 1
      <3>1. i \in 1 .. n
        BY <2>3
      <3>2. D2[i] = D[i]
        BY <1>1, <3>1
      <3>. QED  BY <2>1, <3>2
    <2>. QED  BY <2>2, <2>3
  <1>4. /\ \A i \in 1 .. n : LineShape(b, D, h, i)
        /\ \A i, j \in 1 .. n : BlockShape(b, D, h, i, j)
    BY DEF Shape
  <1>5. ASSUME NEW i \in 1 .. n, NEW j \in 1 .. n
        PROVE  Closes(b2, h2, i, j) <=> Closes(b, h, i, j)
    <2>0. j \in 0 .. n /\ i - 1 \in 0 .. n
      OBVIOUS
    <2>1. b2[i] = b[i] /\ h2[j] = h[j] /\ h2[i - 1] = h[i - 1] /\ j <= Len(b) /\ j <= Len(b2)
      BY <1>1, <2>0
    <2>2. \A k \in i .. (j - 1) : h2[k] = h[k]
      <3> TAKE k \in i .. (j - 1)
      <3>1. k \in 0 .. n
        OBVIOUS
      <3>. QED  BY <1>1, <3>1
    <2>. QED  BY <2>1, <2>2 DEF Closes
  <1>6. ASSUME NEW i \in 1 .. n, b[i].op = "else"
        PROVE  i - 1 \in 1 .. n /\ \E k \in 1 .. (i - 1) : Closes(b, h, k, i - 1) /\ b[k].op = "if"
    <2>1. PICK k \in 1 .. (i - 1) : Closes(b, h, k, i - 1) /\ b[k].op = "if"
      BY <1>4, <1>6 DEF LineShape
    <2>. QED  BY <2>1
  <1>7. ASSUME NEW i \in 1 .. n  PROVE LineShape(b2, D2, h2, i)
    <2>0. i \in 0 .. n /\ i - 1 \in 0 .. n /\ i + 1 \in 1 .. (n + 1) /\ i \in 1 .. (n + 1)
      OBVIOUS
    <2>1. LineShape(b, D, h, i)
      BY <1>4
    <2>2. b2[i] = b[i] /\ h2[i] = h[i] /\ h2[i - 1] = h[i - 1] /\ D2[i] = D[i]
      BY <1>1, <2>0
    <2>3. b[i].op # "else" => D2[i + 1] <= D[i] + Change(b[i].op)
      <3> HAVE b[i].op # "else"
      <3>1. D[i + 1] <= D[i] + Change(b[i].op)
        BY <2>1 DEF LineShape
      <3>2. D2[i + 1] <= D[i + 1] /\ D2[i + 1] \in Nat /\ D[i + 1] \in Nat /\ D[i] \in Nat
        BY <1>3, <2>0
      <3>3. PICK c : c = Change(b[i].op) /\ c \in Int
        BY DEF Change
      <3>. QED  BY <3>1, <3>2, <3>3
    <2>4. b[i].op = "else" =>
            \E k \in 1 .. (i - 1) : Closes(b2, h2, k, i - 1) /\ b2[k].op = "if"
      <3> HAVE b[i].op = "else"
      <3>1. PICK k \in 1 .. (i - 1) : Closes(b, h, k, i - 1) /\ b[k].op = "if"
        BY <1>6
      <3>2. k \in 1 .. n /\ i - 1 \in 1 .. n
        BY <3>1
      <3>. QED  BY <1>1, <1>5, <3>1, <3>2
    <2>. QED  BY <2>1, <2>2, <2>3, <2>4 DEF LineShape
  <1>8. ASSUME NEW i \in 1 .. n, NEW j \in 1 .. n  PROVE BlockShape(b2, D2, h2, i, j)
    <2>0. /\ i \in 1 .. (n + 1) /\ j + 1 \in 1 .. (n + 1)
          /\ b2[i] = b[i] /\ D2[i] = D[i] /\ D[i] \in Nat
      BY <1>1, <1>2
    <2>1. BlockShape(b, D, h, i, j) /\ (Closes(b2, h2, i, j) <=> Closes(b, h, i, j))
      BY <1>4, <1>5
    <2>2. D2[j + 1] <= D[j + 1] /\ D2[j + 1] \in Nat /\ D[j + 1] \in Nat
      BY <1>3, <2>0
    <2>3. D2[Past(b2, j)] <= D[Past(b, j)] /\ D2[Past(b2, j)] \in Nat /\ D[Past(b, j)] \in Nat
      <3>1. CASE j = n /\ b2[n + 1].op = "else"
        <4>1. Past(b2, j) = n + 2 /\ Past(b, j) = n + 1
          BY <3>1 DEF Past
        <4>2. n + 2 \in 1 .. (n2 + 1) /\ n + 1 \in 1 .. (n + 1)
          OBVIOUS
        <4>3. D2[n + 2] \in Nat /\ D[n + 1] \in Nat
          BY <1>2, <4>2
        <4>. QED  BY <3>1, <4>1, <4>3
      <3>2. CASE j = n /\ b2[n + 1].op # "else"
        <4>1. Past(b2, j) = n + 1 /\ Past(b, j) = n + 1
          BY <3>2 DEF Past
        <4>. QED  BY <2>2, <3>2, <4>1
      <3>3. CASE j # n
        <4>0. j + 1 \in 1 .. n /\ j < n /\ j < n2
          BY <3>3
        <4>1. b2[j + 1] = b[j + 1]
          BY <1>1, <4>0
        <4>2. Past(b2, j) = Past(b, j) /\ Past(b, j) \in {j + 1, j + 2}
          BY <4>0, <4>1 DEF Past
        <4>3. j + 2 \in 1 .. (n + 1)
          BY <4>0
        <4>4. D2[j + 2] <= D[j + 2] /\ D2[j + 2] \in Nat /\ D[j + 2] \in Nat
          BY <1>3, <4>3
        <4>. QED  BY <2>2, <4>2, <4>4
      <3>. QED  BY <3>1, <3>2, <3>3
    <2>4. b[i].op = "else" => D2[i - 1] = D[i - 1] /\ D[i - 1] \in Nat
      <3> HAVE b[i].op = "else"
      <3>1. i - 1 \in 1 .. n /\ i - 1 \in 1 .. (n + 1)
        BY <1>6
      <3>. QED  BY <1>1, <1>2, <3>1
    <2>5. PICK p, p2, q, q2, e : p = D[Past(b, j)] /\ p2 = D2[Past(b2, j)]
                                 /\ q = D[j + 1] /\ q2 = D2[j + 1] /\ e = D[i - 1]
      OBVIOUS
    <2>6. /\ p2 <= p /\ p2 \in Nat /\ p \in Nat /\ q2 <= q /\ q2 \in Nat /\ q \in Nat
          /\ b[i].op = "else" => D2[i - 1] = e /\ e \in Nat
      BY <2>2, <2>3, <2>4, <2>5
    <2>7. Closes(b, h, i, j) =>
            (b[i].op = "if" => p <= D[i] - 1) /\ (b[i].op = "else" => q <= e)
      BY <2>1, <2>5 DEF BlockShape
    <2>8. Closes(b2, h2, i, j) =>
            (b[i].op = "if" => p2 <= D[i] - 1) /\ (b[i].op = "else" => q2 <= e)
      BY <2>0, <2>1, <2>6, <2>7
    <2>. QED  BY <2>0, <2>5, <2>6, <2>8 DEF BlockShape
  <1>. QED  BY <1>5, <1>7, <1>8

(* The whole has its shape if the new lines do.                            *)
LEMMA GrowShape ==
  ASSUME NEW b, NEW n \in Nat, Len(b) = n, NEW D, NEW h, Shape(b, D, h),
         NEW b2, NEW n2 \in Nat, Len(b2) = n2, NEW D2, NEW h2,
         Grows(b, D, h, b2, D2, h2), n2 > n,
         D2[n + 1] <= D[n + 1],
         b2[n + 1].op = "else" => D2[n + 2] <= D[n + 1],
         \A i \in (n + 1) .. n2 : LineShape(b2, D2, h2, i),
         \A i \in 1 .. n2, j \in (n + 1) .. n2 : BlockShape(b2, D2, h2, i, j)
  PROVE  /\ Shape(b2, D2, h2)
         /\ \A i, j \in 1 .. n : Closes(b2, h2, i, j) <=> Closes(b, h, i, j)
  <1>1. /\ \A i, j \in 1 .. n : Closes(b2, h2, i, j) <=> Closes(b, h, i, j)
        /\ \A i \in 1 .. n : LineShape(b2, D2, h2, i)
        /\ \A i, j \in 1 .. n : BlockShape(b2, D2, h2, i, j)
    <2>1. GrowsBehind(b, n, D, h, b2, n2, D2, h2)
      BY DEF GrowsBehind
    <2>. QED  BY ONLY <2>1, OldShape
  <1>2. \A i \in 1 .. n2 : LineShape(b2, D2, h2, i)
    BY <1>1
  <1>3. \A i, j \in 1 .. n2 : BlockShape(b2, D2, h2, i, j)
    <2> TAKE i, j \in 1 .. n2
    <2>1. CASE i \in 1 .. n /\ j \in 1 .. n
      BY <1>1, <2>1
    <2>2. CASE j \in (n + 1) .. n2
      BY <2>2
    <2>3. CASE j \in 1 .. n /\ i \notin 1 .. n
      <3>1. ~ (i \in 1 .. j)
        BY <2>3
      <3>. QED  BY <3>1 DEF BlockShape, Closes
    <2>. QED  BY <2>1, <2>2, <2>3
  <1>4. D2 \in [1 .. (n2 + 1) -> Nat] /\ D2[1] = 0 /\ h2 \in [0 .. n2 -> Nat]
    BY DEF Grows
  <1>5. h2[0] = 0
    <2>1. 0 \in 0 .. n
      OBVIOUS
    <2>. QED  BY <2>1 DEF Grows, Shape
  <1>. QED  BY <1>1, <1>2, <1>3, <1>4, <1>5 DEF Shape

(* The lines ls open and close no block; e[i] words are there before the   *)
(* i-th of them.                                                           *)
PlainLines(ls, m, e) ==
  /\ Len(ls) = m /\ m \in Nat /\ e \in [1 .. (m + 1) -> Nat]
  /\ \A i \in 1 .. m :
       /\ ls[i].op \notin Openers \cup {"close"}
       /\ ls[i].op \in PopOps => e[i] >= 1
       /\ e[i + 1] <= e[i] + Change(ls[i].op)

(* Such lines keep the shape.                                              *)
LEMMA GrowPlain ==
  ASSUME NEW S, NEW b \in Seq(S), NEW n \in Nat, Len(b) = n, NEW D, NEW h, Shape(b, D, h),
         NEW ls \in Seq(S), NEW m \in Nat, NEW e, PlainLines(ls, m, e), e[1] = D[n + 1]
  PROVE  \E D2, h2 :
           /\ Shape(b \o ls, D2, h2) /\ Grows(b, D, h, b \o ls, D2, h2)
           /\ D2[n + 1] = D[n + 1]
           /\ D2[n + m + 1] = e[m + 1]
           /\ Level(h, n, h2, n + m) /\ Len(b \o ls) = n + m
  <1> DEFINE b2 == b \o ls
             D2 == [i \in 1 .. (n + m + 1) |-> IF i <= n THEN D[i] ELSE e[i - n]]
             h2 == [i \in 0 .. (n + m) |-> IF i <= n THEN h[i] ELSE h[n]]
  <1>0. Len(b) = n /\ Len(ls) = m /\ m \in Nat /\ e \in [1 .. (m + 1) -> Nat]
    BY DEF PlainLines
  <1>1. /\ b2 \in Seq(S) /\ Len(b2) = n + m /\ n + m \in Nat
        /\ \A i \in 1 .. n : b2[i] = b[i]
        /\ \A i \in (n + 1) .. (n + m) : b2[i] = ls[i - n]
    <2>0. b \in Seq(S) /\ ls \in Seq(S) /\ n \in Nat
      OBVIOUS
    <2>1. b2 \in Seq(S) /\ Len(b2) = n + m /\ n + m \in Nat
      BY ONLY <1>0, <2>0
    <2>2. \A i \in 1 .. n : b2[i] = b[i]
      BY ONLY <1>0, <2>0
    <2>3. ASSUME NEW i \in (n + 1) .. (n + m)  PROVE b2[i] = ls[i - n]
      <3>1. /\ i \in (n + 1) .. (n + m) /\ Len(b) = n /\ Len(ls) = m
            /\ b \in Seq(S) /\ ls \in Seq(S) /\ n \in Nat /\ m \in Nat
        BY <1>0
      <3>. QED  BY ONLY <3>1
    <2> HIDE DEF b2
    <2>. QED  BY <2>1, <2>2, <2>3
  <1>2. D \in [1 .. (n + 1) -> Nat] /\ D[1] = 0 /\ h \in [0 .. n -> Nat] /\ h[0] = 0
    BY DEF Shape
  <1>a. h[n] \in Nat /\ \A i \in 1 .. (m + 1) : e[i] \in Nat
    BY <1>0, <1>2
  <1> HIDE DEF b2
  <1>3. /\ \A i \in 1 .. n : D2[i] = D[i]
        /\ \A i \in (n + 1) .. (n + m + 1) : D2[i] = e[i - n]
    <2>1. \A i \in 1 .. n : i \in 1 .. (n + m + 1) /\ i <= n
      OBVIOUS
    <2>2. \A i \in (n + 1) .. (n + m + 1) : i \in 1 .. (n + m + 1) /\ ~ (i <= n)
      OBVIOUS
    <2>3. \A i \in 1 .. (n + m + 1) : D2[i] = IF i <= n THEN D[i] ELSE e[i - n]
      OBVIOUS
    <2> HIDE DEF D2
    <2>. QED  BY <2>1, <2>2, <2>3
  <1>b. D2 \in [1 .. (n + m + 1) -> Nat]
    <2> SUFFICES ASSUME NEW i \in 1 .. (n + m + 1)
                 PROVE  (IF i <= n THEN D[i] ELSE e[i - n]) \in Nat
      OBVIOUS
    <2>1. i > n => i - n \in 1 .. (m + 1)
      OBVIOUS
    <2>2. i <= n => i \in 1 .. (n + 1)
      OBVIOUS
    <2>. QED  BY <1>2, <1>a, <2>1, <2>2
  <1>4. /\ \A i \in 0 .. n : h2[i] = h[i]
        /\ \A i \in n .. (n + m) : h2[i] = h[n]
        /\ h2 \in [0 .. (n + m) -> Nat] /\ h2[0] = 0
    BY <1>2, <1>a
  <1> HIDE DEF D2, h2
  <1>c. D2[n + 1] = D[n + 1] /\ D2[1] = 0
    <2>1. n + 1 \in (n + 1) .. (n + m + 1) /\ (n + 1) - n = 1
      OBVIOUS
    <2>2. D2[n + 1] = e[1]
      BY <1>3, <2>1
    <2>3. n # 0 => 1 \in 1 .. n
      OBVIOUS
    <2>. QED  BY <1>2, <1>3, <2>2, <2>3
  <1>5. Grows(b, D, h, b2, D2, h2)
    <2>1. Len(b2) + 1 = n + m + 1 /\ Len(b2) \in Nat /\ Len(b2) >= Len(b)
      BY <1>1
    <2>2. D2 \in [1 .. (Len(b2) + 1) -> Nat] /\ h2 \in [0 .. Len(b2) -> Nat]
      BY <1>b, <1>1, <1>4, <2>1
    <2>. QED  BY <1>1, <1>c, <1>3, <1>4, <2>1, <2>2 DEF Grows
  <1>6. ASSUME NEW i \in (n + 1) .. (n + m)  PROVE LineShape(b2, D2, h2, i)
    <2>1. i - n \in 1 .. m /\ (i + 1) - n = (i - n) + 1 /\ i + 1 \in (n + 1) .. (n + m + 1)
          /\ i \in (n + 1) .. (n + m + 1) /\ i \in n .. (n + m) /\ i - 1 \in n .. (n + m)
      OBVIOUS
    <2>2. b2[i] = ls[i - n] /\ D2[i] = e[i - n] /\ D2[i + 1] = e[(i - n) + 1]
      <3>1. D2[i + 1] = e[(i + 1) - n]
        BY <1>3, <2>1
      <3>. QED  BY <1>1, <1>3, <2>1, <3>1
    <2>3. ls[i - n].op \notin Openers \cup {"close"}
          /\ (ls[i - n].op \in PopOps => e[i - n] >= 1)
          /\ e[(i - n) + 1] <= e[i - n] + Change(ls[i - n].op)
      BY <2>1 DEF PlainLines
    <2>4. h2[i] = h[n] /\ h2[i - 1] = h[n]
      BY <1>4, <2>1
    <2>5. Rise(b2[i].op) = 0 /\ b2[i].op # "else"
      BY <2>2, <2>3 DEF Rise, Openers
    <2>6. h2[i] = h2[i - 1] + Rise(b2[i].op)
      BY <1>a, <2>4, <2>5
    <2>. QED  BY <2>2, <2>3, <2>5, <2>6 DEF LineShape
  <1>7. ASSUME NEW i \in 1 .. (n + m), NEW j \in (n + 1) .. (n + m)  PROVE ~ Closes(b2, h2, i, j)
    <2> SUFFICES ASSUME Closes(b2, h2, i, j) PROVE FALSE
      OBVIOUS
    <2>1. i <= n
      <3> SUFFICES ASSUME i \in (n + 1) .. (n + m) PROVE FALSE
        OBVIOUS
      <3>1. i - n \in 1 .. m /\ b2[i] = ls[i - n]
        BY <1>1
      <3>2. b2[i].op \notin Openers
        BY <3>1 DEF PlainLines
      <3>. QED  BY <3>2 DEF Closes
    <2>2. j - 1 \in i .. (j - 1) /\ j - 1 \in n .. (n + m) /\ j \in n .. (n + m)
      BY <2>1
    <2>3. h2[j - 1] > h2[i - 1] /\ h2[j] = h2[i - 1]
      BY <2>2 DEF Closes
    <2>4. h2[j - 1] = h[n] /\ h2[j] = h[n]
      BY <1>4, <2>2
    <2>. QED  BY <1>a, <2>3, <2>4
  <1>8. Shape(b2, D2, h2) /\ \A i, j \in 1 .. n : Closes(b2, h2, i, j) <=> Closes(b, h, i, j)
    <2>1. CASE m = 0
      <3>1. b2 = b
        <4>1. b \in Seq(S) /\ ls \in Seq(S) /\ Len(ls) = 0
          BY <1>0, <2>1
        <4>. QED  BY ONLY <4>1 DEF b2
      <3>2. D2 = D
        <4>1. n + m + 1 = n + 1
          BY <2>1
        <4>2. D2 \in [1 .. (n + 1) -> Nat]
          BY <1>b, <4>1
        <4>3. \A i \in 1 .. (n + 1) : D2[i] = D[i]
          BY <1>3, <1>c
        <4>. QED  BY <1>2, <4>2, <4>3
      <3>3. h2 = h
        <4>1. n + m = n
          BY <2>1
        <4>2. h2 \in [0 .. n -> Nat]
          BY <1>4, <4>1
        <4>. QED  BY <1>2, <1>4, <4>2
      <3>. QED  BY <3>1, <3>2, <3>3
    <2>2. CASE m # 0
      <3>1. D2[n + 1] <= D[n + 1] /\ n + m > n
        BY <1>2, <1>c, <2>2
      <3>2. b2[n + 1].op # "else"
        <4>1. n + 1 \in (n + 1) .. (n + m) /\ (n + 1) - n = 1 /\ 1 \in 1 .. m
          BY <2>2
        <4>2. b2[n + 1] = ls[1]
          BY <1>1, <4>1
        <4>. QED  BY <4>1, <4>2 DEF Openers, PlainLines
      <3>3. \A i \in 1 .. (n + m), j \in (n + 1) .. (n + m) : BlockShape(b2, D2, h2, i, j)
        BY <1>7 DEF BlockShape
      <3>. QED  BY <1>1, <1>5, <1>6, <3>1, <3>2, <3>3, GrowShape
    <2>. QED  BY <2>1, <2>2
  <1>9. D2[n + m + 1] = e[m + 1]
    <2>1. n + m + 1 \in (n + 1) .. (n + m + 1) /\ (n + m + 1) - n = m + 1
      OBVIOUS
    <2>. QED  BY <1>3, <2>1
  <1> WITNESS D2, h2
  <1>. QED  BY <1>1, <1>4, <1>5, <1>8, <1>9, <1>c DEF b2, Level

(* The same in two words.                                                  *)
Growable(S, b, n, D, h, ls, m, e) ==
  /\ b \in Seq(S) /\ n \in Nat /\ Len(b) = n /\ Shape(b, D, h)
  /\ ls \in Seq(S) /\ m \in Nat /\ PlainLines(ls, m, e) /\ e[1] = D[n + 1]

GrowsTo(b, n, D, h, ls, m, e) ==
  \E D2, h2 :
    /\ Shape(b \o ls, D2, h2) /\ Grows(b, D, h, b \o ls, D2, h2)
    /\ D2[n + 1] = D[n + 1]
    /\ D2[n + m + 1] = e[m + 1]
    /\ Level(h, n, h2, n + m) /\ Len(b \o ls) = n + m

(* Lines that open and close no block may follow a well-shaped buffer: the
   buffer with them has a shape again, one that agrees with the old one on
   the old lines and stays at the level at which those ended.                *)
LEMMA GrowsPlainly ==
  ASSUME NEW S, NEW b, NEW n, NEW D, NEW h, NEW ls, NEW m, NEW e,
         Growable(S, b, n, D, h, ls, m, e)
  PROVE  GrowsTo(b, n, D, h, ls, m, e)
  <1>1. /\ b \in Seq(S) /\ n \in Nat /\ Len(b) = n /\ Shape(b, D, h)
        /\ ls \in Seq(S) /\ m \in Nat /\ PlainLines(ls, m, e) /\ e[1] = D[n + 1]
    BY DEF Growable
  <1>2. \E D2, h2 :
          /\ Shape(b \o ls, D2, h2) /\ Grows(b, D, h, b \o ls, D2, h2)
          /\ D2[n + 1] = D[n + 1]
          /\ D2[n + m + 1] = e[m + 1]
          /\ Level(h, n, h2, n + m) /\ Len(b \o ls) = n + m
    BY ONLY <1>1, GrowPlain
  <1>. QED  BY <1>2 DEF GrowsTo

(* One line more, with dn words before it, de words and hn blocks behind.  *)
Ready(S, b, n, D, h, l) ==
  b \in Seq(S) /\ n \in Nat /\ Len(b) = n /\ n >= 1 /\ Shape(b, D, h) /\ l \in S

OneMore(S, b, n, D, h, l, dn, de, hn) ==
  Ready(S, b, n, D, h, l) /\ dn \in Nat /\ de \in Nat /\ hn \in Nat

(* There are such numbers for all lines.                                   *)
LEMMA GrowOne ==
  ASSUME NEW S, NEW b, NEW n, NEW D, NEW h, NEW l, NEW dn, NEW de, NEW hn,
         OneMore(S, b, n, D, h, l, dn, de, hn)
  PROVE  \E D2, h2 :
           /\ Grows(b, D, h, b \o <<l>>, D2, h2)
           /\ D2[n + 1] = dn /\ D2[n + 2] = de /\ h2[n + 1] = hn
           /\ Len(b \o <<l>>) = n + 1 /\ (b \o <<l>>)[n + 1] = l
  <1> DEFINE b2 == b \o <<l>>
             D2 == [i \in 1 .. (n + 2) |->
                      IF i <= n THEN D[i] ELSE IF i = n + 1 THEN dn ELSE de]
             h2 == [i \in 0 .. (n + 1) |-> IF i <= n THEN h[i] ELSE hn]
  <1>0. /\ Len(b) = n /\ D \in [1 .. (n + 1) -> Nat] /\ D[1] = 0 /\ h \in [0 .. n -> Nat]
        /\ b \in Seq(S) /\ l \in S /\ n \in Nat /\ n >= 1
        /\ dn \in Nat /\ de \in Nat /\ hn \in Nat
    BY DEF Shape, OneMore, Ready
  <1>1. /\ b2 \in Seq(S) /\ Len(b2) = n + 1 /\ b2[n + 1] = l
        /\ \A i \in 1 .. n : b2[i] = b[i]
    BY ONLY <1>0
  <1> HIDE DEF b2
  <1>2. /\ D2 \in [1 .. (n + 2) -> Nat] /\ D2[n + 1] = dn /\ D2[n + 2] = de
        /\ \A i \in 1 .. n : D2[i] = D[i]
    BY <1>0
  <1>3. h2 \in [0 .. (n + 1) -> Nat] /\ h2[n + 1] = hn /\ \A i \in 0 .. n : h2[i] = h[i]
    BY <1>0
  <1> HIDE DEF D2, h2
  <1>4. D2[1] = 0
    BY <1>0, <1>2
  <1>5. Grows(b, D, h, b2, D2, h2)
    <2>1. Len(b2) + 1 = n + 2 /\ Len(b2) \in Nat /\ Len(b2) >= Len(b)
      BY <1>0, <1>1
    <2>2. D2 \in [1 .. (Len(b2) + 1) -> Nat] /\ h2 \in [0 .. Len(b2) -> Nat]
      BY <1>1, <1>2, <1>3, <2>1
    <2>. QED  BY <1>0, <1>1, <1>2, <1>3, <1>4, <2>1, <2>2 DEF Grows
  <1> WITNESS D2, h2
  <1>. QED  BY <1>1, <1>2, <1>3, <1>5 DEF b2

(* A line that opens a block closes none.                                  *)
LEMMA RisingClosesNone ==
  ASSUME NEW b2, NEW h2, NEW n \in Nat, h2 \in [0 .. (n + 1) -> Nat],
         h2[n + 1] = h2[n] + 1, NEW i \in 1 .. (n + 1)
  PROVE  ~ Closes(b2, h2, i, n + 1)
  <1> SUFFICES ASSUME Closes(b2, h2, i, n + 1)  PROVE FALSE
    OBVIOUS
  <1>1. h2[n + 1] = h2[i - 1] /\ \A k \in i .. n : h2[k] > h2[i - 1]
    BY DEF Closes
  <1>2. h2[n] \in Nat /\ h2[i - 1] \in Nat
    OBVIOUS
  <1>3. CASE i = n + 1
    BY <1>1, <1>2, <1>3
  <1>4. CASE i # n + 1
    <2>1. n \in i .. n
      BY <1>4
    <2>. QED  BY <1>1, <1>2, <2>1
  <1>. QED  BY <1>3, <1>4

(* An if.                                                                  *)
LEMMA GrowIf ==
  ASSUME NEW S, NEW b, NEW n \in Nat, NEW D, NEW h, NEW l, Ready(S, b, n, D, h, l), l.op = "if", D[n + 1] >= 1
  PROVE  \E D2, h2 :
           /\ Shape(b \o <<l>>, D2, h2) /\ Grows(b, D, h, b \o <<l>>, D2, h2)
           /\ D2[n + 1] = D[n + 1] /\ D2[n + 2] = D[n + 1] - 1 /\ h2[n + 1] = h[n] + 1
  <1>0. /\ Len(b) = n /\ D[n + 1] \in Nat /\ h[n] \in Nat
        /\ n \in Nat /\ n >= 1 /\ Shape(b, D, h)
    BY DEF Shape, Ready
  <1> DEFINE b2 == b \o <<l>>
  <1>1. PICK D2, h2 :
           /\ Grows(b, D, h, b2, D2, h2)
           /\ D2[n + 1] = D[n + 1] /\ D2[n + 2] = D[n + 1] - 1 /\ h2[n + 1] = h[n] + 1
           /\ Len(b2) = n + 1 /\ b2[n + 1] = l
    <2>1. OneMore(S, b, n, D, h, l, D[n + 1], D[n + 1] - 1, h[n] + 1)
      BY <1>0 DEF OneMore
    <2>. QED  BY <2>1, GrowOne
  <1> HIDE DEF b2
  <1>2. h2 \in [0 .. (n + 1) -> Nat] /\ h2[n] = h[n]
    BY <1>0, <1>1 DEF Grows
  <1>3. LineShape(b2, D2, h2, n + 1)
    <2>1. h2[n + 1] = h2[(n + 1) - 1] + Rise(b2[n + 1].op)
      BY <1>0, <1>1, <1>2 DEF Rise, Openers
    <2>2. D2[(n + 1) + 1] <= D2[n + 1] + Change(b2[n + 1].op)
      BY <1>0, <1>1 DEF Change, PushOps, PopOps
    <2>. QED  BY <1>1, <2>1, <2>2 DEF LineShape
  <1>4. \A i \in 1 .. (n + 1), j \in (n + 1) .. (n + 1) : BlockShape(b2, D2, h2, i, j)
    <2>1. \A i \in 1 .. (n + 1) : ~ Closes(b2, h2, i, n + 1)
      BY <1>1, <1>2, RisingClosesNone
    <2>. QED  BY <2>1 DEF BlockShape
  <1>5. \A i \in (n + 1) .. (n + 1) : LineShape(b2, D2, h2, i)
    BY <1>3
  <1>6. b2[n + 1].op # "else" /\ D2[n + 1] <= D[n + 1] /\ n + 1 \in Nat /\ n + 1 > n
    BY <1>0, <1>1
  <1>7. Shape(b2, D2, h2)
    BY <1>0, <1>1, <1>4, <1>5, <1>6, GrowShape
  <1>. QED  BY <1>1, <1>7 DEF b2

(* An else, behind the block of an if.                                     *)
LEMMA GrowElse ==
  ASSUME NEW S, NEW b, NEW n \in Nat, NEW D, NEW h, NEW l, Ready(S, b, n, D, h, l), l.op = "else",
         NEW k \in 1 .. n, Closes(b, h, k, n), b[k].op = "if"
  PROVE  \E D2, h2 :
           /\ Shape(b \o <<l>>, D2, h2) /\ Grows(b, D, h, b \o <<l>>, D2, h2)
           /\ D2[n + 2] = D[n + 1] /\ h2[n + 1] = h[n] + 1
  <1>0. /\ Len(b) = n /\ D[n + 1] \in Nat /\ h[n] \in Nat
        /\ n \in Nat /\ n >= 1 /\ Shape(b, D, h)
    BY DEF Shape, Ready
  <1> DEFINE b2 == b \o <<l>>
  <1>1. PICK D2, h2 :
           /\ Grows(b, D, h, b2, D2, h2)
           /\ D2[n + 1] = 0 /\ D2[n + 2] = D[n + 1] /\ h2[n + 1] = h[n] + 1
           /\ Len(b2) = n + 1 /\ b2[n + 1] = l
    <2>1. OneMore(S, b, n, D, h, l, 0, D[n + 1], h[n] + 1)
      BY <1>0 DEF OneMore
    <2>. QED  BY <2>1, GrowOne
  <1> HIDE DEF b2
  <1>2. h2 \in [0 .. (n + 1) -> Nat] /\ (\A i \in 0 .. n : h2[i] = h[i]) /\ \A i \in 1 .. n : b2[i] = b[i]
    BY <1>0, <1>1 DEF Grows
  <1>a. h2[n] = h[n]
    BY <1>2
  <1>3. LineShape(b2, D2, h2, n + 1)
    <2>1. h2[n + 1] = h2[(n + 1) - 1] + Rise(b2[n + 1].op)
      BY <1>0, <1>1, <1>a DEF Rise, Openers
    <2>2. Closes(b2, h2, k, n) /\ b2[k].op = "if"
      <3>1. b2[k] = b[k] /\ h2[k - 1] = h[k - 1] /\ h2[n] = h[n]
        BY <1>2
      <3>2. \A q \in k .. (n - 1) : h2[q] = h[q]
        BY <1>2
      <3>3. n <= Len(b2)
        BY <1>1
      <3>. QED  BY <3>1, <3>2, <3>3 DEF Closes
    <2>3. k \in 1 .. ((n + 1) - 1) /\ (n + 1) - 1 = n
      BY <1>0
    <2>4. b2[n + 1].op \notin PopOps
      BY <1>1 DEF PopOps
    <2>. QED  BY <1>1, <2>1, <2>2, <2>3, <2>4 DEF LineShape
  <1>4. \A i \in 1 .. (n + 1), j \in (n + 1) .. (n + 1) : BlockShape(b2, D2, h2, i, j)
    <2>1. \A i \in 1 .. (n + 1) : ~ Closes(b2, h2, i, n + 1)
      BY <1>1, <1>2, <1>a, RisingClosesNone
    <2>. QED  BY <2>1 DEF BlockShape
  <1>5. \A i \in (n + 1) .. (n + 1) : LineShape(b2, D2, h2, i)
    BY <1>3
  <1>6. D2[n + 1] <= D[n + 1] /\ D2[n + 2] <= D[n + 1] /\ n + 1 \in Nat /\ n + 1 > n
    BY <1>0, <1>1
  <1>7. Shape(b2, D2, h2)
    BY <1>0, <1>1, <1>4, <1>5, <1>6, GrowShape
  <1>. QED  BY <1>1, <1>7 DEF b2

(* The block that line w opens can be closed behind line n with d words    *)
(* left.                                                                   *)
Closable(b, n, D, h, w, d) ==
  /\ w \in 1 .. n /\ b[w].op \in Openers
  /\ h[w - 1] = h[n] - 1 /\ \A k \in w .. n : h[k] > h[w - 1]
  /\ d \in Nat /\ d <= D[n + 1]
  /\ b[w].op = "if" => d <= D[w] - 1
  /\ b[w].op = "else" => d <= D[w - 1]

(* A closing brace.                                                        *)
LEMMA GrowClose ==
  ASSUME NEW S, NEW b, NEW n \in Nat, NEW D, NEW h, NEW l, Ready(S, b, n, D, h, l), l.op = "close",
         NEW w \in 1 .. n, NEW d \in Nat, Closable(b, n, D, h, w, d)
  PROVE  \E D2, h2 :
           /\ Shape(b \o <<l>>, D2, h2) /\ Grows(b, D, h, b \o <<l>>, D2, h2)
           /\ D2[n + 1] = D[n + 1] /\ D2[n + 2] = d /\ h2[n + 1] = h[n] - 1
           /\ Closes(b \o <<l>>, h2, w, n + 1)
  <1>c. /\ b[w].op \in Openers
        /\ h[w - 1] = h[n] - 1 /\ \A k \in w .. n : h[k] > h[w - 1]
        /\ d <= D[n + 1]
        /\ b[w].op = "if" => d <= D[w] - 1
        /\ b[w].op = "else" => d <= D[w - 1]
    BY DEF Closable
  <1>0. /\ Len(b) = n /\ D[n + 1] \in Nat /\ h[n] \in Nat /\ h[n] - 1 \in Nat
        /\ n \in Nat /\ n >= 1 /\ Shape(b, D, h)
        /\ \A i \in 0 .. n : h[i] \in Nat
    <2>0. Len(b) = n /\ n \in Nat /\ n >= 1 /\ Shape(b, D, h)
      BY DEF Ready
    <2>1. h \in [0 .. n -> Nat] /\ D \in [1 .. (n + 1) -> Nat]
      BY <2>0 DEF Shape
    <2>2. w - 1 \in 0 .. n /\ n \in 0 .. n /\ n + 1 \in 1 .. (n + 1)
      BY <2>0
    <2>3. \A i \in 0 .. n : h[i] \in Nat
      BY <2>1
    <2>4. D[n + 1] \in Nat
      BY <2>1, <2>2
    <2>5. h[n] \in Nat /\ h[w - 1] \in Nat
      BY <2>2, <2>3
    <2>6. h[n] - 1 \in Nat
      BY <1>c, <2>5
    <2>. QED  BY <2>0, <2>3, <2>4, <2>5, <2>6
  <1> DEFINE b2 == b \o <<l>>
  <1>1. PICK D2, h2 :
           /\ Grows(b, D, h, b2, D2, h2)
           /\ D2[n + 1] = D[n + 1] /\ D2[n + 2] = d /\ h2[n + 1] = h[n] - 1
           /\ Len(b2) = n + 1 /\ b2[n + 1] = l
    <2>1. OneMore(S, b, n, D, h, l, D[n + 1], d, h[n] - 1)
      BY <1>0 DEF OneMore
    <2>. QED  BY <2>1, GrowOne
  <1> HIDE DEF b2
  <1>2. /\ h2 \in [0 .. (n + 1) -> Nat] /\ (\A i \in 0 .. n : h2[i] = h[i])
        /\ \A i \in 1 .. n : b2[i] = b[i] /\ D2[i] = D[i]
    BY <1>0, <1>1 DEF Grows
  <1>3. LineShape(b2, D2, h2, n + 1)
    <2>0. h2[n] = h[n] /\ (n + 1) - 1 = n
      BY <1>2
    <2>1. h2[n + 1] = h2[(n + 1) - 1] + Rise(b2[n + 1].op)
      BY <1>0, <1>1, <2>0 DEF Rise, Openers
    <2>2. D2[(n + 1) + 1] <= D2[n + 1] + Change(b2[n + 1].op)
      BY <1>c, <1>0, <1>1 DEF Change, PushOps, PopOps
    <2>3. b2[n + 1].op \notin PopOps /\ b2[n + 1].op # "else"
      BY <1>1 DEF PopOps
    <2>. QED  BY <2>1, <2>2, <2>3 DEF LineShape
  <1>4. ASSUME NEW i \in 1 .. (n + 1), Closes(b2, h2, i, n + 1)  PROVE i = w
    <2>1. b2[i].op \in Openers /\ h2[n + 1] = h2[i - 1] /\ \A k \in i .. n : h2[k] > h2[i - 1]
      BY <1>4 DEF Closes
    <2>2. i # n + 1
      BY <1>1, <2>1 DEF Openers
    <2>3. i \in 1 .. n /\ i - 1 \in 0 .. n /\ w - 1 \in 0 .. n
      BY <2>2
    <2>4. h[i - 1] = h[n] - 1
      BY <1>1, <1>2, <2>1, <2>3
    <2>5. ~ (i < w)
      <3> SUFFICES ASSUME i < w PROVE FALSE
        BY <1>0
      <3>1. w - 1 \in i .. n
        BY <2>3
      <3>2. h2[w - 1] > h2[i - 1]
        BY <2>1, <3>1
      <3>3. h[w - 1] > h[i - 1] /\ h[w - 1] \in Nat
        BY <1>0, <1>2, <2>3, <3>2
      <3>. QED  BY <1>c, <1>0, <2>4, <3>3
    <2>6. ~ (w < i)
      <3> SUFFICES ASSUME w < i PROVE FALSE
        BY <1>0
      <3>1. i - 1 \in w .. n
        BY <2>3
      <3>2. h[i - 1] > h[w - 1] /\ h[i - 1] \in Nat
        BY <1>c, <1>0, <2>3, <3>1
      <3>. QED  BY <1>c, <1>0, <2>4, <3>2
    <2>. QED  BY <2>5, <2>6
  <1>5. BlockShape(b2, D2, h2, w, n + 1)
    <2>1. Past(b2, n + 1) = n + 2
      BY <1>1 DEF Past
    <2>2. b2[w] = b[w] /\ D2[w] = D[w] /\ (n + 1) + 1 = n + 2
      BY <1>2
    <2>3. b[w].op = "else" => D2[w - 1] = D[w - 1]
      <3> HAVE b[w].op = "else"
      <3>1. PICK k \in 1 .. (w - 1) : Closes(b, h, k, w - 1)
        BY <1>0 DEF Shape, LineShape
      <3>2. w - 1 \in 1 .. n
        BY <3>1
      <3>. QED  BY <1>2, <3>2
    <2>. QED  BY <1>c, <1>1, <2>1, <2>2, <2>3 DEF BlockShape
  <1>6. \A i \in 1 .. (n + 1), j \in (n + 1) .. (n + 1) : BlockShape(b2, D2, h2, i, j)
    BY <1>4, <1>5 DEF BlockShape
  <1>7. \A i \in (n + 1) .. (n + 1) : LineShape(b2, D2, h2, i)
    BY <1>3
  <1>8. b2[n + 1].op # "else" /\ D2[n + 1] <= D[n + 1] /\ n + 1 \in Nat /\ n + 1 > n
    BY <1>0, <1>1
  <1>9. Shape(b2, D2, h2)
    BY <1>0, <1>1, <1>6, <1>7, <1>8, GrowShape
  <1>10. Closes(b2, h2, w, n + 1)
    <2>1. w - 1 \in 0 .. n /\ b2[w] = b[w] /\ (n + 1) - 1 = n
      BY <1>2
    <2>2. h2[w - 1] = h[w - 1]
      BY <1>2, <2>1
    <2>3. \A k \in w .. n : h2[k] = h[k]
      BY <1>2
    <2>4. w \in 1 .. (n + 1) /\ n + 1 <= Len(b2)
      BY <1>1
    <2>. QED  BY <1>c, <1>1, <2>1, <2>2, <2>3, <2>4 DEF Closes
  <1>. QED  BY <1>1, <1>9, <1>10 DEF b2

-----------------------------------------------------------------------------
(* What is left to do for a body.                                          *)
(*                                                                         *)
(* The tasks are counted from the last, which ends the function: task p    *)
(* finds at least c[p].t words and c[p].g open blocks, and if it closes a  *)
(* block, line c[p].w opened it.                                           *)

At(T, p) == T[Len(T) + 1 - p]

(* The words that the code of x leaves, at least.                          *)
Leaves(x) == IF MayLeaveNone(x) THEN 0 ELSE 1

Ending(f) == Emit(<<Line(IF f = 1 THEN "exit" ELSE "return")>>)

Closing(s) == s = Emit(<<Line("close")>>)

CallLines(k) ==
  [i \in 1 .. k |-> Numbered("arg", i - 1)] \o <<Line("call"), Line("pushret")>>

(* Task s needs no more than a words, and leaves v of them.                *)
Leads(s, a, v) ==
  \/ s.do = "gen" /\ v <= a + Leaves(s.exp)
  \/ s.do \in {"bind", "assign"} /\ a >= 1 /\ v <= a - 1
  \/ s.do = "consequent" /\ a >= 1 /\ v <= a - 1 + Leaves(s.exp)
  \/ s.do = "alternative"
       /\ v <= a + (IF Length(s.exp) > 3 THEN Leaves(s.exp.items[4]) ELSE 0)
  \/ s.do = "scan" /\ s.op = "get" /\ v <= a + 1
  \/ s.do = "scan" /\ s.op = "set" /\ a >= 1 /\ v <= a - 1
  \/ Closing(s) /\ v <= a
  \/ \E k \in 0 .. MaxArgs : s = Emit(CallLines(k)) /\ a >= k + 1 /\ v <= a - k

(* Task p closes the innermost block that is open then; an if goes on with *)
(* an alternative.                                                         *)
BlockPending(b, D, h, T, c, p) ==
  LET w == c[p].w
  IN /\ w \in 1 .. Len(b) /\ b[w].op \in Openers /\ h[w - 1] = c[p - 1].g
     /\ \A k \in w .. Len(b) : h[k] >= c[p].g
     /\ b[w].op = "if" =>
          At(T, p - 1).do = "alternative" /\ c[p - 1].t <= D[w] - 1 /\ c[p - 2].t <= c[p].t
     /\ b[w].op = "else" => At(T, p - 1).do # "alternative" /\ c[p - 1].t <= D[w - 1]

(* An alternative comes right behind the block of the if.                  *)
BehindIf(b, D, h, v) ==
  \E k \in 1 .. Len(b) : Closes(b, h, k, Len(b)) /\ b[k].op = "if" /\ v <= D[Len(b)]

TaskPending(b, D, h, T, c, p) ==
  /\ Leads(At(T, p), c[p].t, c[p - 1].t)
  /\ c[p - 1].g = c[p].g - IF Closing(At(T, p)) THEN 1 ELSE 0
  /\ Closing(At(T, p)) => BlockPending(b, D, h, T, c, p)

FollowsIf(b, D, h, T, c, p) ==
  At(T, p).do = "alternative" =>
    IF p < Len(T) THEN Closing(At(T, p + 1)) ELSE BehindIf(b, D, h, c[p - 1].t)

Certificates(m) == [1 .. m -> [t : Nat, g : Nat, w : Nat]]

Pending(f, b, D, h, T, c) ==
  /\ Len(T) \in Nat \ {0} /\ c \in Certificates(Len(T))
  /\ At(T, 1) = Ending(f) /\ c[1].t >= 1 /\ c[1].g = 0
  /\ c[Len(T)].t <= D[Len(b) + 1] /\ c[Len(T)].g = h[Len(b)]
  /\ \A p \in 2 .. Len(T) : TaskPending(b, D, h, T, c, p) /\ FollowsIf(b, D, h, T, c, p)

(* Blocks are closed one by one.                                           *)
LEMMA HeightsFall ==
  ASSUME NEW f, NEW b, NEW D, NEW h, NEW T, NEW c, Pending(f, b, D, h, T, c),
         NEW p \in 1 .. Len(T), NEW q \in p .. Len(T)
  PROVE  c[p].g <= c[q].g
  <1> DEFINE m == Len(T)
             good == {r \in 1 .. m : c[p].g <= c[r].g}
  <1>1. m \in Nat /\ \A r \in 1 .. m : c[r].g \in Nat /\ c[r].t \in Nat
    BY DEF Pending, Certificates
  <1>2. \A r \in 2 .. m : c[r - 1].g <= c[r].g
    <2> TAKE r \in 2 .. m
    <2>1. c[r - 1].g = c[r].g - IF Closing(At(T, r)) THEN 1 ELSE 0
      BY DEF Pending, TaskPending
    <2>2. r \in 1 .. m /\ r - 1 \in 1 .. m
      OBVIOUS
    <2>3. c[r].g \in Nat /\ c[r - 1].g \in Nat
      BY <1>1, <2>2
    <2> HIDE DEF m
    <2>. QED  BY <2>1, <2>3
  <1> HIDE DEF m
  <1>a. p \in 1 .. m /\ q \in p .. m
    BY DEF m
  <1>3. p \in good
    BY <1>1, <1>a
  <1>4. ASSUME NEW r \in p .. (m - 1), r \in good  PROVE r + 1 \in good
    <2>1. r + 1 \in 2 .. m /\ (r + 1) - 1 = r /\ r \in 1 .. m /\ r + 1 \in 1 .. m
      BY <1>1, <1>a
    <2>2. c[r].g <= c[r + 1].g
      BY <1>2, <2>1
    <2>3. c[p].g \in Nat /\ c[r].g \in Nat /\ c[r + 1].g \in Nat
      BY <1>1, <1>a, <2>1
    <2>. QED  BY <1>4, <2>1, <2>2, <2>3
  <1>5. \A r \in p .. m : r \in good
    <2>1. p \in Int /\ m \in Int
      BY <1>1, <1>a
    <2> HIDE DEF good
    <2>. QED  BY <1>3, <1>4, <2>1, UpwardInduction
  <1>. QED  BY <1>5, <1>a

(* New tasks stand before the ones that wait.                              *)
LEMMA FollowAt ==
  ASSUME NEW S, NEW T \in Seq(S), T # <<>>, NEW ts \in Seq(S)
  PROVE  /\ Len(ts) \in Nat /\ ts \o Tail(T) \in Seq(S)
         /\ Len(ts \o Tail(T)) = Len(T) + Len(ts) - 1
         /\ \A p \in 1 .. (Len(T) - 1) : At(ts \o Tail(T), p) = At(T, p)
         /\ \A p \in Len(T) .. (Len(T) + Len(ts) - 1) :
              At(ts \o Tail(T), p) = ts[Len(T) + Len(ts) - p]
         /\ At(T, Len(T)) = Head(T)
  <1>a. PICK m, q : m = Len(T) /\ q = Len(ts)
    OBVIOUS
  <1>0. T \in Seq(S) /\ T # <<>> /\ Len(T) = m /\ ts \in Seq(S) /\ Len(ts) = q
    BY <1>a
  <1> DEFINE T2 == ts \o Tail(T)
  <1>1. /\ m \in Nat /\ m >= 1 /\ q \in Nat
        /\ Tail(T) \in Seq(S) /\ Len(Tail(T)) = m - 1
        /\ \A i \in 1 .. (m - 1) : Tail(T)[i] = T[i + 1]
    BY ONLY <1>0
  <1>2. PICK v : v = Tail(T)
    OBVIOUS
  <1>3. v \in Seq(S) /\ Len(v) = m - 1
    BY <1>1, <1>2
  <1>4. T2 \in Seq(S) /\ Len(T2) = m + q - 1
    <2>1. ts \o v \in Seq(S) /\ Len(ts \o v) = q + (m - 1)
      BY ONLY <1>0, <1>1, <1>3
    <2>. QED  BY <1>1, <1>2, <2>1
  <1>5. ASSUME NEW p \in 1 .. (m - 1)  PROVE At(T2, p) = At(T, p)
    <2>1. (ts \o v)[m + q - p] = v[m - p]
      <3>1. m + q - p \in (q + 1) .. (q + m - 1) /\ (m + q - p) - q = m - p
        BY <1>1
      <3>2. \A i \in (q + 1) .. (q + (m - 1)) : (ts \o v)[i] = v[i - q]
        BY ONLY <1>0, <1>1, <1>3
      <3>. QED  BY <1>1, <3>1, <3>2
    <2>2. m - p \in 1 .. (m - 1) /\ (m - p) + 1 = m + 1 - p
      BY <1>1
    <2>3. v[m - p] = T[m + 1 - p]
      BY <1>1, <1>2, <2>2
    <2>4. At(T2, p) = T2[m + q - p]
      <3>1. Len(T2) + 1 - p = m + q - p
        BY <1>1, <1>4
      <3>. QED  BY <3>1 DEF At
    <2>5. At(T, p) = T[m + 1 - p]
      BY <1>0 DEF At
    <2>. QED  BY <1>2, <2>1, <2>3, <2>4, <2>5
  <1>6. ASSUME NEW p \in m .. (m + q - 1)  PROVE At(T2, p) = ts[m + q - p]
    <2>1. m + q - p \in 1 .. q
      BY <1>1
    <2>2. \A i \in 1 .. q : (ts \o v)[i] = ts[i]
      BY ONLY <1>0, <1>1, <1>3
    <2>3. At(T2, p) = T2[m + q - p]
      <3>1. Len(T2) + 1 - p = m + q - p
        BY <1>1, <1>4
      <3>. QED  BY <3>1 DEF At
    <2>. QED  BY <1>2, <2>1, <2>2, <2>3
  <1>7. At(T, m) = Head(T)
    <2>1. m + 1 - m = 1 /\ Head(T) = T[1]
      BY <1>0, <1>1
    <2>. QED  BY <1>0, <2>1 DEF At
  <1>. QED  BY <1>0, <1>1, <1>4, <1>5, <1>6, <1>7

(* What is the matter when the first of several tasks is done by writing   *)
(* the lines that make b2 of b.                                            *)
Doable(f, b, n, D, h, T, m, c, b2, n2, D2, h2) ==
  /\ Shape(b, D, h) /\ Len(b) = n /\ n \in Nat
  /\ Pending(f, b, D, h, T, c) /\ Len(T) = m /\ m \in Nat /\ m >= 2
  /\ Grows(b, D, h, b2, D2, h2) /\ Len(b2) = n2

(* And what follows of it.                                                 *)
LEMMA DoableFacts ==
  ASSUME NEW f, NEW b, NEW n, NEW D, NEW h, NEW T, NEW m, NEW c,
         NEW b2, NEW n2, NEW D2, NEW h2, Doable(f, b, n, D, h, T, m, c, b2, n2, D2, h2)
  PROVE  /\ n \in Nat /\ n2 \in Nat /\ n2 >= n /\ m \in Nat /\ m >= 2 /\ h[n] \in Nat
         /\ c \in Certificates(m) /\ T # <<>>
         /\ \A p \in 1 .. m : c[p].t \in Nat /\ c[p].g \in Nat
         /\ c[m].t <= D[n + 1] /\ c[m].g = h[n] /\ D[n + 1] \in Nat
         /\ TaskPending(b, D, h, T, c, m) /\ FollowsIf(b, D, h, T, c, m)
         /\ ~ Closing(At(T, m)) => c[m - 1].g = h[n]
         /\ At(T, m - 1).do = "alternative" => m - 1 \in 2 .. m /\ Closing(At(T, m))
         /\ At(T, 1) = Ending(f) /\ c[1].t >= 1 /\ c[1].g = 0
  <1>1. /\ Shape(b, D, h) /\ Len(b) = n /\ n \in Nat
        /\ Pending(f, b, D, h, T, c) /\ Len(T) = m /\ m \in Nat /\ m >= 2
        /\ Grows(b, D, h, b2, D2, h2) /\ Len(b2) = n2
    BY DEF Doable
  <1>2. n2 \in Nat /\ n2 >= n
    BY <1>1 DEF Grows
  <1>3. h[n] \in Nat /\ D[n + 1] \in Nat
    BY <1>1 DEF Shape
  <1>4. /\ c \in Certificates(m) /\ c[m].t <= D[n + 1] /\ c[m].g = h[n]
        /\ At(T, 1) = Ending(f) /\ c[1].t >= 1 /\ c[1].g = 0
        /\ \A p \in 2 .. m : TaskPending(b, D, h, T, c, p) /\ FollowsIf(b, D, h, T, c, p)
    BY <1>1 DEF Pending
  <1>5. \A p \in 1 .. m : c[p].t \in Nat /\ c[p].g \in Nat
    BY <1>4 DEF Certificates
  <1>6. TaskPending(b, D, h, T, c, m) /\ FollowsIf(b, D, h, T, c, m)
    <2>1. m \in 2 .. m
      BY <1>1
    <2>. QED  BY <1>4, <2>1
  <1>7. ~ Closing(At(T, m)) => c[m - 1].g = h[n]
    BY <1>3, <1>4, <1>6 DEF TaskPending
  <1>8. At(T, m - 1).do = "alternative" => m - 1 \in 2 .. m /\ Closing(At(T, m))
    <2> HAVE At(T, m - 1).do = "alternative"
    <2>1. m - 1 # 1
      BY <1>4 DEF Ending, Emit
    <2>2. m - 1 \in 2 .. m /\ m - 1 < m /\ (m - 1) + 1 = m
      BY <1>1, <2>1
    <2>3. FollowsIf(b, D, h, T, c, m - 1)
      BY <1>4, <2>2
    <2>. QED  BY <1>1, <2>2, <2>3 DEF FollowsIf
  <1>9. T # <<>>
    BY <1>1
  <1>. QED  BY <1>1, <1>2, <1>3, <1>4, <1>5, <1>6, <1>7, <1>8, <1>9

(* The tasks that wait behind the one that is done go on waiting.          *)
Kept(m, T, c, T2, c2) ==
  \A p \in 1 .. (m - 1) : At(T2, p) = At(T, p) /\ c2[p] = c[p]

Above(n, h2, n2, v) == \A k \in (n + 1) .. n2 : h2[k] >= v

(* They keep their certificates.                                           *)
LEMMA OldTasks ==
  ASSUME NEW f, NEW b, NEW n, NEW D, NEW h, NEW T, NEW m, NEW c,
         NEW b2, NEW n2, NEW D2, NEW h2, Doable(f, b, n, D, h, T, m, c, b2, n2, D2, h2),
         Above(n, h2, n2, c[m - 1].g), NEW T2, NEW c2, Kept(m, T, c, T2, c2)
  PROVE  \A p \in 2 .. (m - 1) :
           /\ TaskPending(b2, D2, h2, T2, c2, p)
           /\ p < m - 1 /\ At(T2, p).do = "alternative" => Closing(At(T2, p + 1))
  <1>a. /\ Shape(b, D, h) /\ Len(b) = n /\ n \in Nat
        /\ Pending(f, b, D, h, T, c) /\ Len(T) = m /\ m \in Nat
        /\ Grows(b, D, h, b2, D2, h2) /\ Len(b2) = n2
    BY DEF Doable
  <1>b. n2 \in Nat
    BY <1>a DEF Grows
  <1> TAKE p \in 2 .. (m - 1)
  <1>0. /\ p \in 1 .. (m - 1) /\ p - 1 \in 1 .. (m - 1) /\ p \in 2 .. m /\ p < m
        /\ p \in 1 .. m /\ p - 1 \in 1 .. m /\ m - 1 \in p .. m
    BY <1>a
  <1>1. At(T2, p) = At(T, p) /\ At(T2, p - 1) = At(T, p - 1) /\ c2[p] = c[p] /\ c2[p - 1] = c[p - 1]
    BY <1>0 DEF Kept
  <1>2. TaskPending(b, D, h, T, c, p) /\ FollowsIf(b, D, h, T, c, p)
    BY <1>0, <1>a DEF Pending
  <1>3. ASSUME Closing(At(T, p))  PROVE BlockPending(b2, D2, h2, T2, c2, p)
    <2>1. BlockPending(b, D, h, T, c, p)
      BY <1>2, <1>3 DEF TaskPending
    <2>2. PICK w : w = c[p].w
      OBVIOUS
    <2>3. /\ w \in 1 .. n /\ b[w].op \in Openers /\ h[w - 1] = c[p - 1].g
          /\ \A k \in w .. n : h[k] >= c[p].g
          /\ b[w].op = "if" =>
               At(T, p - 1).do = "alternative" /\ c[p - 1].t <= D[w] - 1 /\ c[p - 2].t <= c[p].t
          /\ b[w].op = "else" => At(T, p - 1).do # "alternative" /\ c[p - 1].t <= D[w - 1]
      BY <1>a, <2>1, <2>2 DEF BlockPending
    <2>4. w \in 1 .. n2 /\ b2[w] = b[w] /\ D2[w] = D[w] /\ h2[w - 1] = h[w - 1]
      <3>1. n2 >= n /\ w - 1 \in 0 .. n
        BY <1>a, <2>3 DEF Grows
      <3>. QED  BY <1>a, <2>3, <3>1 DEF Grows
    <2>5. \A k \in w .. n2 : h2[k] >= c[p].g
      <3> TAKE k \in w .. n2
      <3>1. CASE k <= n
        <4>1. k \in w .. n /\ k \in 0 .. n
          BY <1>a, <1>b, <2>3, <3>1
        <4>. QED  BY <1>a, <2>3, <4>1 DEF Grows
      <3>2. CASE k > n
        <4>1. k \in (n + 1) .. n2
          BY <1>a, <1>b, <2>3, <3>2
        <4>2. h2[k] >= c[m - 1].g /\ c[p].g <= c[m - 1].g
          BY <1>0, <1>a, <4>1, HeightsFall DEF Above
        <4>3. h2[k] \in Nat
          <5>1. k \in 0 .. n2
            BY <1>a, <4>1
          <5>. QED  BY <1>a, <5>1 DEF Grows
        <4>4. c[m - 1].g \in Nat /\ c[p].g \in Nat
          BY <1>0, <1>a DEF Pending, Certificates
        <4>. QED  BY <4>2, <4>3, <4>4
      <3>. QED  BY <1>a, <1>b, <2>3, <3>1, <3>2
    <2>6. b[w].op = "else" => D2[w - 1] = D[w - 1]
      <3> HAVE b[w].op = "else"
      <3>1. PICK k \in 1 .. (w - 1) : Closes(b, h, k, w - 1)
        BY <1>a, <2>3 DEF Shape, LineShape
      <3>2. w - 1 \in 1 .. n
        BY <1>a, <2>3, <3>1
      <3>. QED  BY <1>a, <3>2 DEF Grows
    <2>7. b[w].op = "if" => c2[p - 2] = c[p - 2]
      <3> HAVE b[w].op = "if"
      <3>1. At(T, p - 1).do = "alternative"
        BY <2>3
      <3>2. At(T, 1).do # "alternative"
        BY <1>a DEF Pending, Ending, Emit
      <3>3. p - 2 \in 1 .. (m - 1)
        BY <1>0, <3>1, <3>2
      <3>. QED  BY <3>3 DEF Kept
    <2>8. c2[p].w = w
      BY <1>1, <2>2
    <2>. QED  BY <1>1, <2>3, <2>4, <2>5, <2>6, <2>7, <2>8, <1>a DEF BlockPending
  <1>4. TaskPending(b2, D2, h2, T2, c2, p)
    BY <1>1, <1>2, <1>3 DEF TaskPending
  <1>5. p < m - 1 /\ At(T2, p).do = "alternative" => Closing(At(T2, p + 1))
    <2> HAVE p < m - 1 /\ At(T2, p).do = "alternative"
    <2>1. Closing(At(T, p + 1))
      BY <1>0, <1>a, <1>1, <1>2 DEF FollowsIf
    <2>2. p + 1 \in 1 .. (m - 1)
      BY <1>a
    <2>. QED  BY <2>1, <2>2 DEF Kept
  <1>. QED  BY <1>4, <1>5

(* The tasks ts open and close no block; r[i] words are there before the   *)
(* i-th of them.                                                           *)
PlainTasks(ts, q, r) ==
  /\ Len(ts) = q /\ q \in Nat /\ r \in [1 .. (q + 1) -> Nat]
  /\ \A i \in 1 .. q :
       /\ ~ Closing(ts[i]) /\ ts[i].do # "alternative"
       /\ Leads(ts[i], r[i], r[i + 1])

(* A task is done by plain lines, and leaves plain tasks.                  *)
LEMMA PlainFollows ==
  ASSUME NEW f, NEW b, NEW n, NEW D, NEW h, NEW S, NEW T \in Seq(S), NEW m, NEW c,
         NEW b2, NEW n2, NEW D2, NEW h2, Doable(f, b, n, D, h, T, m, c, b2, n2, D2, h2),
         Level(h, n, h2, n2), ~ Closing(Head(T)),
         NEW ts \in Seq(S), NEW q, NEW r, PlainTasks(ts, q, r),
         r[1] <= D2[n2 + 1], r[q + 1] = c[m - 1].t
  PROVE  \E c2 : Pending(f, b2, D2, h2, ts \o Tail(T), c2)
  <1>1. /\ Shape(b, D, h) /\ Len(b) = n /\ Pending(f, b, D, h, T, c) /\ Len(T) = m
        /\ Grows(b, D, h, b2, D2, h2) /\ Len(b2) = n2
    BY DEF Doable
  <1>2. /\ n \in Nat /\ n2 \in Nat /\ n2 >= n /\ m \in Nat /\ m >= 2 /\ h[n] \in Nat
        /\ c \in Certificates(m) /\ T # <<>>
        /\ \A p \in 1 .. m : c[p].t \in Nat /\ c[p].g \in Nat
        /\ ~ Closing(At(T, m)) => c[m - 1].g = h[n]
        /\ At(T, m - 1).do = "alternative" => m - 1 \in 2 .. m /\ Closing(At(T, m))
        /\ At(T, 1) = Ending(f) /\ c[1].t >= 1 /\ c[1].g = 0
    BY DoableFacts
  <1>0. Len(ts) = q /\ q \in Nat /\ r \in [1 .. (q + 1) -> Nat]
    BY DEF PlainTasks
  <1>a. Len(T) = m /\ Len(ts) = q /\ q \in Nat /\ T \in Seq(S) /\ ts \in Seq(S) /\ T # <<>>
    BY <1>0, <1>1, <1>2
  <1> DEFINE T2 == ts \o Tail(T)
             m2 == m + q - 1
  <1>4. /\ Len(T2) = m2
        /\ \A p \in 1 .. (m - 1) : At(T2, p) = At(T, p)
        /\ \A p \in m .. m2 : At(T2, p) = ts[m + q - p]
        /\ At(T, m) = Head(T)
    <2>1. /\ Len(T2) = Len(T) + Len(ts) - 1
          /\ \A p \in 1 .. (Len(T) - 1) : At(T2, p) = At(T, p)
          /\ \A p \in Len(T) .. (Len(T) + Len(ts) - 1) : At(T2, p) = ts[Len(T) + Len(ts) - p]
          /\ At(T, Len(T)) = Head(T)
      <3>1. Len(T2) = Len(T) + Len(ts) - 1
        BY ONLY <1>a, FollowAt
      <3>2. \A p \in 1 .. (Len(T) - 1) : At(T2, p) = At(T, p)
        BY ONLY <1>a, FollowAt
      <3>3. \A p \in Len(T) .. (Len(T) + Len(ts) - 1) : At(T2, p) = ts[Len(T) + Len(ts) - p]
        BY ONLY <1>a, FollowAt
      <3>4. At(T, Len(T)) = Head(T)
        BY ONLY <1>a, FollowAt
      <3>. QED  BY <3>1, <3>2, <3>3, <3>4
    <2> HIDE DEF T2
    <2>. QED  BY <1>a, <2>1
  <1>5. m2 \in Nat /\ m2 >= m - 1 /\ m2 = m + q - 1 /\ q \in Nat
    BY <1>0, <1>2
  <1> HIDE DEF T2, m2
  <1>n. m2 \in Nat /\ m2 >= m - 1 /\ m2 = m + q - 1 /\ q \in Nat /\ m \in Nat /\ m >= 2
    BY <1>2, <1>5
  <1> DEFINE c2 == [p \in 1 .. m2 |->
                      IF p < m THEN c[p] ELSE [t |-> r[m + q - p], g |-> h[n], w |-> 0]]
  <1>6. /\ \A p \in 1 .. (m - 1) : c2[p] = c[p]
        /\ \A p \in m .. m2 : c2[p] = [t |-> r[m + q - p], g |-> h[n], w |-> 0]
        /\ c2 \in Certificates(m2)
    <2>1. \A p \in 1 .. (m - 1) : p \in 1 .. m2 /\ p < m /\ p \in 1 .. m
      BY ONLY <1>n
    <2>2. \A p \in m .. m2 : p \in 1 .. m2 /\ ~ (p < m) /\ m + q - p \in 1 .. (q + 1)
      BY ONLY <1>n
    <2>3. \A p \in 1 .. m2 :
            (IF p < m THEN c[p] ELSE [t |-> r[m + q - p], g |-> h[n], w |-> 0])
              \in [t : Nat, g : Nat, w : Nat]
      <3> TAKE p \in 1 .. m2
      <3>1. CASE p < m
        <4>1. p \in 1 .. m
          BY <1>2, <1>5, <3>1
        <4>. QED  BY <1>2, <3>1, <4>1 DEF Certificates
      <3>2. CASE ~ (p < m)
        <4>1. m + q - p \in 1 .. (q + 1)
          BY <1>2, <1>5, <3>2
        <4>2. r[m + q - p] \in Nat
          BY <1>0, <4>1
        <4>. QED  BY <1>2, <3>2, <4>2
      <3>. QED  BY <3>1, <3>2
    <2>4. c2 \in Certificates(m2)
      BY <2>3, Zenon DEF Certificates
    <2>. QED  BY <2>1, <2>2, <2>4
  <1> HIDE DEF c2
  <1>8. c[m - 1].g = h[n] /\ ~ Closing(At(T, m)) /\ At(T, m - 1).do # "alternative"
    BY <1>2, <1>4
  <1>9. \A p \in 2 .. (m - 1) :
           /\ TaskPending(b2, D2, h2, T2, c2, p)
           /\ p < m - 1 /\ At(T2, p).do = "alternative" => Closing(At(T2, p + 1))
    <2>1. \A k \in (n + 1) .. n2 : h2[k] >= c[m - 1].g
      <3> TAKE k \in (n + 1) .. n2
      <3>1. k \in n .. n2
        BY <1>2
      <3>. QED  BY <1>2, <1>8, <3>1 DEF Level
    <2>2. Above(n, h2, n2, c[m - 1].g)
      BY <2>1 DEF Above
    <2>3. Kept(m, T, c, T2, c2)
      BY <1>4, <1>6 DEF Kept
    <2>. QED  BY <2>2, <2>3, OldTasks
  <1>b. ASSUME NEW p \in 2 .. (m - 1)
        PROVE  TaskPending(b2, D2, h2, T2, c2, p) /\ FollowsIf(b2, D2, h2, T2, c2, p)
    <2>1. TaskPending(b2, D2, h2, T2, c2, p)
      BY <1>9
    <2>2. At(T2, p).do = "alternative" => p < m - 1
      <3>1. p \in 1 .. (m - 1) /\ p <= m - 1 /\ p \in Int
        BY <1>2
      <3>2. At(T2, p) = At(T, p)
        BY <1>4, <3>1
      <3>3. p = m - 1 => At(T2, p).do # "alternative"
        BY <1>8, <3>2
      <3>. QED  BY <1>2, <3>1, <3>3
    <2>3. p < m - 1 => p < Len(T2)
      BY <1>2, <1>4, <1>5
    <2>. QED  BY <1>9, <2>1, <2>2, <2>3 DEF FollowsIf
  <1>c. ASSUME NEW p \in m .. m2
        PROVE  TaskPending(b2, D2, h2, T2, c2, p) /\ FollowsIf(b2, D2, h2, T2, c2, p)
    <2>1. m + q - p \in 1 .. q /\ (m + q - p) + 1 = m + q - (p - 1)
      BY <1>2, <1>5
    <2>2. At(T2, p) = ts[m + q - p] /\ ~ Closing(ts[m + q - p]) /\ ts[m + q - p].do # "alternative"
      BY <1>4, <2>1 DEF PlainTasks
    <2>3. c2[p].t = r[m + q - p] /\ c2[p].g = h[n]
      <3>1. c2[p] = [t |-> r[m + q - p], g |-> h[n], w |-> 0]
        BY <1>6
      <3>. QED  BY <3>1
    <2>4. c2[p - 1].t = r[m + q - (p - 1)] /\ c2[p - 1].g = h[n]
      <3>1. CASE p = m
        <4>1. p - 1 \in 1 .. (m - 1) /\ m + q - (p - 1) = q + 1 /\ p - 1 = m - 1
          BY ONLY <1>n, <3>1
        <4>2. c2[p - 1] = c[m - 1]
          BY <1>6, <4>1
        <4>. QED  BY <1>8, <4>1, <4>2
      <3>2. CASE p # m
        <4>1. p - 1 \in m .. m2
          BY ONLY <1>n, <3>2, p \in m .. m2
        <4>2. c2[p - 1] = [t |-> r[m + q - (p - 1)], g |-> h[n], w |-> 0]
          BY <1>6, <4>1
        <4>. QED  BY <4>2
      <3>. QED  BY <3>1, <3>2
    <2>5. Leads(ts[m + q - p], r[m + q - p], r[(m + q - p) + 1])
      BY <2>1 DEF PlainTasks
    <2>6. c2[p - 1].g = c2[p].g - 0
      BY <1>2, <2>3, <2>4
    <2>. QED  BY <2>1, <2>2, <2>3, <2>4, <2>5, <2>6 DEF TaskPending, FollowsIf
  <1>d. c2[m2].t <= D2[n2 + 1] /\ c2[m2].g = h2[n2]
    <2>1. h2[n2] = h[n]
      <3>1. n2 \in n .. n2
        BY <1>2
      <3>. QED  BY <3>1 DEF Level
    <2>2. CASE q = 0
      <3>1. m2 = m - 1 /\ m - 1 \in 1 .. (m - 1) /\ q + 1 = 1
        BY <1>2, <1>5, <2>2
      <3>2. c2[m2] = c[m - 1]
        BY <1>6, <3>1
      <3>. QED  BY <1>8, <2>1, <2>2, <3>1, <3>2
    <2>3. CASE q # 0
      <3>1. m2 \in m .. m2 /\ m + q - m2 = 1
        BY ONLY <1>2, <1>5, <2>3
      <3>2. c2[m2] = [t |-> r[1], g |-> h[n], w |-> 0]
        BY <1>6, <3>1
      <3>. QED  BY <2>1, <3>2
    <2>. QED  BY <2>2, <2>3
  <1>e. At(T2, 1) = Ending(f) /\ c2[1].t >= 1 /\ c2[1].g = 0
    <2>1. 1 \in 1 .. (m - 1)
      BY <1>2
    <2>. QED  BY <1>2, <1>4, <1>6, <2>1
  <1>f. m2 \in Nat \ {0}
    BY <1>2, <1>5
  <1>g. \A p \in 2 .. m2 :
          TaskPending(b2, D2, h2, T2, c2, p) /\ FollowsIf(b2, D2, h2, T2, c2, p)
    <2> TAKE p \in 2 .. m2
    <2>1. p \in 2 .. (m - 1) \/ p \in m .. m2
      BY <1>2, <1>5
    <2>. QED  BY <1>b, <1>c, <2>1
  <1>h. Pending(f, b2, D2, h2, T2, c2)
    BY <1>1, <1>4, <1>6, <1>d, <1>e, <1>f, <1>g DEF Pending
  <1>. QED  BY <1>h DEF T2

-----------------------------------------------------------------------------
(* Functions that are being written.                                       *)

(* Function f, with lines b so far and tasks T left, is on its way.        *)
Going(f, b, T) ==
  \E D, h : Shape(b, D, h) /\ \E c : Pending(f, b, D, h, T, c)

(* Task s is done by the plain lines ls and the plain tasks ts.            *)
Does(s, ls, ts) ==
  /\ ~ Closing(s)
  /\ \A a, v \in Nat :
       Leads(s, a, v) =>
         \E e, r :
           /\ PlainLines(ls, Len(ls), e) /\ e[1] = a
           /\ PlainTasks(ts, Len(ts), r) /\ r[1] <= e[Len(ls) + 1] /\ r[Len(ts) + 1] = v

(* More words do no harm.                                                  *)
LEMMA LeadsMore ==
  ASSUME NEW s, NEW a \in Nat, NEW v \in Nat, Leads(s, a, v), NEW x \in Nat, a <= x
  PROVE  Leads(s, x, v)
  <1>1. \A y : Leaves(y) \in Nat
    BY DEF Leaves
  <1>2. CASE \E k \in 0 .. MaxArgs : s = Emit(CallLines(k)) /\ a >= k + 1 /\ v <= a - k
    <2>1. PICK k \in 0 .. MaxArgs : s = Emit(CallLines(k)) /\ a >= k + 1 /\ v <= a - k
      BY <1>2
    <2>2. x >= k + 1 /\ v <= x - k
      BY <2>1
    <2>. QED  BY <2>1, <2>2 DEF Leads
  <1>3. CASE s.do = "gen" /\ v <= a + Leaves(s.exp)
    BY <1>1, <1>3 DEF Leads
  <1>4. CASE s.do = "consequent" /\ a >= 1 /\ v <= a - 1 + Leaves(s.exp)
    BY <1>1, <1>4 DEF Leads
  <1>5. CASE s.do = "alternative"
               /\ v <= a + (IF Length(s.exp) > 3 THEN Leaves(s.exp.items[4]) ELSE 0)
    BY <1>1, <1>5 DEF Leads
  <1>6. CASE s.do \in {"bind", "assign"} /\ a >= 1 /\ v <= a - 1
    BY <1>6 DEF Leads
  <1>7. CASE \/ s.do = "scan" /\ s.op = "get" /\ v <= a + 1
             \/ s.do = "scan" /\ s.op = "set" /\ a >= 1 /\ v <= a - 1
             \/ Closing(s) /\ v <= a
    BY <1>7 DEF Leads
  <1>. QED  BY <1>2, <1>3, <1>4, <1>5, <1>6, <1>7 DEF Leads

(* A function is still on its way when a plain task is done.               *)
LEMMA PlainGoes ==
  ASSUME NEW f, NEW S, NEW b \in Seq(S), NEW R, NEW T \in Seq(R), Len(T) >= 2, Going(f, b, T),
         NEW ls \in Seq(S), NEW ts \in Seq(R), Does(Head(T), ls, ts)
  PROVE  Going(f, b \o ls, ts \o Tail(T))
  <1>1. PICK D, h, c : Shape(b, D, h) /\ Pending(f, b, D, h, T, c)
    BY DEF Going
  <1>2. PICK n, m, k : n = Len(b) /\ m = Len(T) /\ k = Len(ls)
    OBVIOUS
  <1>3. n \in Nat /\ m \in Nat /\ m >= 2 /\ k \in Nat /\ T # <<>>
    BY <1>2
  <1>4. Grows(b, D, h, b, D, h)
    BY <1>1, <1>2, <1>3 DEF Grows, Shape
  <1>5. Doable(f, b, n, D, h, T, m, c, b, n, D, h)
    BY <1>1, <1>2, <1>3, <1>4 DEF Doable
  <1>6. /\ TaskPending(b, D, h, T, c, m) /\ c[m].t <= D[n + 1] /\ D[n + 1] \in Nat
        /\ c[m].t \in Nat /\ c[m - 1].t \in Nat
    <2>1. m \in 1 .. m /\ m - 1 \in 1 .. m
      BY <1>3
    <2>2. TaskPending(b, D, h, T, c, m) /\ c[m].t <= D[n + 1] /\ D[n + 1] \in Nat
      BY <1>5, DoableFacts
    <2>3. \A p \in 1 .. m : c[p].t \in Nat
      BY <1>5, DoableFacts
    <2>. QED  BY <2>1, <2>2, <2>3
  <1>7. At(T, m) = Head(T)
    BY <1>2, <1>3 DEF At
  <1>8. Leads(Head(T), D[n + 1], c[m - 1].t)
    BY <1>6, <1>7, LeadsMore DEF TaskPending
  <1>9. PICK e, r :
           /\ PlainLines(ls, k, e) /\ e[1] = D[n + 1]
           /\ PlainTasks(ts, Len(ts), r) /\ r[1] <= e[k + 1] /\ r[Len(ts) + 1] = c[m - 1].t
    <2>1. PICK a, v : a = D[n + 1] /\ v = c[m - 1].t
      OBVIOUS
    <2>2. a \in Nat /\ v \in Nat /\ Leads(Head(T), a, v)
      BY <1>6, <1>8, <2>1
    <2>3. \E e, r :
           /\ PlainLines(ls, Len(ls), e) /\ e[1] = a
           /\ PlainTasks(ts, Len(ts), r) /\ r[1] <= e[Len(ls) + 1] /\ r[Len(ts) + 1] = v
      BY <2>2 DEF Does
    <2>. QED  BY <1>2, <2>1, <2>3
  <1>10. PICK D2, h2 :
           /\ Shape(b \o ls, D2, h2) /\ Grows(b, D, h, b \o ls, D2, h2)
           /\ D2[n + k + 1] = e[k + 1]
           /\ Level(h, n, h2, n + k) /\ Len(b \o ls) = n + k
    <2>1. n \in Nat /\ Len(b) = n /\ k \in Nat
      BY <1>2, <1>3
    <2>2. Growable(S, b, n, D, h, ls, k, e)
      BY <1>1, <1>9, <2>1 DEF Growable
    <2>3. GrowsTo(b, n, D, h, ls, k, e)
      BY ONLY <2>2, GrowsPlainly
    <2>. QED  BY <2>3 DEF GrowsTo
  <1>11. Doable(f, b, n, D, h, T, m, c, b \o ls, n + k, D2, h2)
    BY <1>1, <1>2, <1>3, <1>10 DEF Doable
  <1>12. r[1] <= D2[(n + k) + 1]
    BY <1>9, <1>10
  <1>13. ~ Closing(Head(T))
    BY DEF Does
  <1>14. \E c2 : Pending(f, b \o ls, D2, h2, ts \o Tail(T), c2)
    BY <1>9, <1>10, <1>11, <1>12, <1>13, PlainFollows
  <1>. QED  BY <1>10, <1>14 DEF Going

(* The tasks T2 are those of T but for the first, and before them new ones *)
(* with good certificates.                                                 *)
Fits(b2, n2, D2, h2, T, m, c, T2, m2, c2) ==
  /\ Len(T2) = m2 /\ m2 \in Nat /\ m2 >= m - 1
  /\ c2 \in Certificates(m2) /\ Kept(m, T, c, T2, c2)
  /\ c2[m2].t <= D2[n2 + 1] /\ c2[m2].g = h2[n2]
  /\ \A p \in m .. m2 :
       TaskPending(b2, D2, h2, T2, c2, p) /\ FollowsIf(b2, D2, h2, T2, c2, p)
  /\ At(T2, m - 1).do = "alternative" => FollowsIf(b2, D2, h2, T2, c2, m - 1)

(* The certificates of new tasks and of the ones that wait make up those   *)
(* of all.                                                                 *)
LEMMA Assembled ==
  ASSUME NEW f, NEW b, NEW n, NEW D, NEW h, NEW T, NEW m, NEW c,
         NEW b2, NEW n2, NEW D2, NEW h2, Doable(f, b, n, D, h, T, m, c, b2, n2, D2, h2),
         Above(n, h2, n2, c[m - 1].g),
         NEW T2, NEW m2, NEW c2, Fits(b2, n2, D2, h2, T, m, c, T2, m2, c2)
  PROVE  Pending(f, b2, D2, h2, T2, c2)
  <1>0. /\ Len(T2) = m2 /\ m2 \in Nat /\ m2 >= m - 1
        /\ c2 \in Certificates(m2) /\ Kept(m, T, c, T2, c2)
        /\ c2[m2].t <= D2[n2 + 1] /\ c2[m2].g = h2[n2]
        /\ \A p \in m .. m2 :
             TaskPending(b2, D2, h2, T2, c2, p) /\ FollowsIf(b2, D2, h2, T2, c2, p)
        /\ At(T2, m - 1).do = "alternative" => FollowsIf(b2, D2, h2, T2, c2, m - 1)
    BY DEF Fits
  <1>1. /\ m \in Nat /\ m >= 2 /\ n2 \in Nat
        /\ At(T, 1) = Ending(f) /\ c[1].t >= 1 /\ c[1].g = 0
    BY DoableFacts
  <1>2. \A p \in 2 .. (m - 1) :
          /\ TaskPending(b2, D2, h2, T2, c2, p)
          /\ p < m - 1 /\ At(T2, p).do = "alternative" => Closing(At(T2, p + 1))
    BY <1>0, OldTasks
  <1>3. ASSUME NEW p \in 2 .. (m - 1)
        PROVE  TaskPending(b2, D2, h2, T2, c2, p) /\ FollowsIf(b2, D2, h2, T2, c2, p)
    <2>1. TaskPending(b2, D2, h2, T2, c2, p)
      BY <1>2
    <2>2. CASE p = m - 1
      BY <1>0, <2>1, <2>2 DEF FollowsIf
    <2>3. CASE p # m - 1
      <3>1. p < m - 1 /\ p < m2
        BY <1>0, <1>1, <2>3
      <3>. QED  BY <1>0, <1>2, <2>1, <3>1 DEF FollowsIf
    <2>. QED  BY <2>2, <2>3
  <1>4. \A p \in 2 .. m2 :
          TaskPending(b2, D2, h2, T2, c2, p) /\ FollowsIf(b2, D2, h2, T2, c2, p)
    <2> TAKE p \in 2 .. m2
    <2>1. p \in 2 .. (m - 1) \/ p \in m .. m2
      BY <1>0, <1>1
    <2>. QED  BY <1>0, <1>3, <2>1
  <1>5. At(T2, 1) = Ending(f) /\ c2[1].t >= 1 /\ c2[1].g = 0
    <2>1. 1 \in 1 .. (m - 1)
      BY <1>1
    <2>. QED  BY <1>0, <1>1, <2>1 DEF Kept
  <1>6. m2 \in Nat \ {0}
    BY <1>0, <1>1
  <1>7. Len(b2) = n2
    BY DEF Doable
  <1>. QED  BY <1>0, <1>4, <1>5, <1>6, <1>7 DEF Pending

(* The block of an if is opened.                                           *)
LEMMA ConsequentGoes ==
  ASSUME NEW f, NEW S, NEW b \in Seq(S), Len(b) >= 1, NEW R, NEW T \in Seq(R), Len(T) >= 2,
         Going(f, b, T), Line("if") \in S,
         NEW x, Head(T) = Consequent(x), NEW y,
         Leaves(x) <= Leaves(y),
         Leaves(x) <= IF Length(x) > 3 THEN Leaves(x.items[4]) ELSE 0,
         <<Gen(y), Emit(<<Line("close")>>), Alternative(x)>> \in Seq(R)
  PROVE  Going(f, b \o <<Line("if")>>,
               <<Gen(y), Emit(<<Line("close")>>), Alternative(x)>> \o Tail(T))
  <1> DEFINE ts == <<Gen(y), Emit(<<Line("close")>>), Alternative(x)>>
             T2 == ts \o Tail(T)
             b2 == b \o <<Line("if")>>
  <1>1. PICK D, h, c : Shape(b, D, h) /\ Pending(f, b, D, h, T, c)
    BY DEF Going
  <1>2. PICK n, m : n = Len(b) /\ m = Len(T)
    OBVIOUS
  <1>3. n \in Nat /\ n >= 1 /\ Len(b) = n /\ m \in Nat /\ m >= 2 /\ Len(T) = m /\ T # <<>>
    BY <1>2
  <1>4. Doable(f, b, n, D, h, T, m, c, b, n, D, h)
    <2>1. Grows(b, D, h, b, D, h)
      BY <1>1, <1>3 DEF Grows, Shape
    <2>. QED  BY <1>1, <1>3, <2>1 DEF Doable
  <1>5. /\ TaskPending(b, D, h, T, c, m) /\ c[m].t <= D[n + 1] /\ D[n + 1] \in Nat
        /\ c \in Certificates(m) /\ h[n] \in Nat
        /\ ~ Closing(At(T, m)) => c[m - 1].g = h[n]
        /\ At(T, m - 1).do = "alternative" => Closing(At(T, m))
    BY <1>4, DoableFacts
  <1>6. c[m].t \in Nat /\ c[m - 1].t \in Nat
    <2>1. m \in 1 .. m /\ m - 1 \in 1 .. m
      BY <1>3
    <2>. QED  BY <1>5, <2>1 DEF Certificates
  <1>7. At(T, m) = Consequent(x)
    BY <1>3 DEF At
  <1>8. ~ Closing(At(T, m)) /\ c[m - 1].g = h[n] /\ At(T, m - 1).do # "alternative"
    BY <1>5, <1>7 DEF Closing, Consequent, Emit
  <1>9. PICK a, v : a = D[n + 1] /\ v = c[m - 1].t
    OBVIOUS
  <1>10. a \in Nat /\ v \in Nat /\ Leads(Consequent(x), a, v)
    BY <1>5, <1>6, <1>7, <1>9, LeadsMore DEF TaskPending
  <1>11. PICK lx, ly, lz : lx = Leaves(x) /\ ly = Leaves(y)
                             /\ lz = IF Length(x) > 3 THEN Leaves(x.items[4]) ELSE 0
    OBVIOUS
  <1>12. a >= 1 /\ v <= a - 1 + lx
    BY <1>10, <1>11 DEF Leads, Consequent, Closing, Emit
  <1>13. lx \in Nat /\ ly \in Nat /\ lz \in Nat /\ lx <= ly /\ lx <= lz
    BY <1>11 DEF Leaves
  <1>14. v <= (a - 1) + ly /\ v <= (a - 1) + lz /\ a - 1 \in Nat /\ (a - 1) + ly \in Nat
    <2>1. a \in Nat /\ v \in Nat /\ a >= 1 /\ v <= a - 1 + lx
          /\ lx \in Nat /\ ly \in Nat /\ lz \in Nat /\ lx <= ly /\ lx <= lz
      BY <1>10, <1>12, <1>13
    <2>. QED  BY ONLY <2>1
  <1>15. PICK D2, h2 :
           /\ Shape(b2, D2, h2) /\ Grows(b, D, h, b2, D2, h2)
           /\ D2[n + 1] = D[n + 1] /\ D2[n + 2] = D[n + 1] - 1 /\ h2[n + 1] = h[n] + 1
    <2>1. Line("if").op = "if" /\ D[n + 1] >= 1
      BY <1>9, <1>12 DEF Line
    <2>2. PICK l : l = Line("if")
      OBVIOUS
    <2>3. \E D2, h2 :
           /\ Shape(b \o <<l>>, D2, h2) /\ Grows(b, D, h, b \o <<l>>, D2, h2)
           /\ D2[n + 1] = D[n + 1] /\ D2[n + 2] = D[n + 1] - 1 /\ h2[n + 1] = h[n] + 1
      <3>1. Ready(S, b, n, D, h, l) /\ n \in Nat /\ l.op = "if" /\ D[n + 1] >= 1
        BY <1>1, <1>3, <2>1, <2>2 DEF Ready
      <3>. QED  BY ONLY <3>1, GrowIf
    <2>. QED  BY <2>2, <2>3
  <1>16. Len(b2) = n + 1 /\ b2[n + 1] = Line("if")
    BY <1>3
  <1>17. /\ Len(T2) = m + 2
         /\ \A p \in 1 .. (m - 1) : At(T2, p) = At(T, p)
         /\ At(T2, m + 2) = Gen(y) /\ At(T2, m + 1) = Emit(<<Line("close")>>)
         /\ At(T2, m) = Alternative(x)
    <2>1. T \in Seq(R) /\ ts \in Seq(R) /\ Len(ts) = 3 /\ T # <<>>
      BY <1>3
    <2> HIDE DEF ts
    <2>2. Len(T2) = Len(T) + Len(ts) - 1
      BY ONLY <2>1, FollowAt
    <2>3. \A p \in 1 .. (Len(T) - 1) : At(T2, p) = At(T, p)
      BY ONLY <2>1, FollowAt
    <2>a. T \in Seq(R) /\ ts \in Seq(R) /\ T # <<>>
      BY <2>1
    <2>4. \A p \in Len(T) .. (Len(T) + Len(ts) - 1) : At(T2, p) = ts[Len(T) + Len(ts) - p]
      BY ONLY <2>a, FollowAt
    <2> HIDE DEF T2
    <2>5. \A p \in m .. (m + 2) : At(T2, p) = ts[m + 3 - p]
      BY <1>3, <2>1, <2>4
    <2>6. /\ m + 2 \in m .. (m + 2) /\ m + 1 \in m .. (m + 2) /\ m \in m .. (m + 2)
          /\ m + 3 - (m + 2) = 1 /\ m + 3 - (m + 1) = 2 /\ m + 3 - m = 3
      BY <1>3
    <2>7. At(T2, m + 2) = ts[1] /\ At(T2, m + 1) = ts[2] /\ At(T2, m) = ts[3]
      BY <2>5, <2>6
    <2>8. ts[1] = Gen(y) /\ ts[2] = Emit(<<Line("close")>>) /\ ts[3] = Alternative(x)
      BY DEF ts
    <2>. QED  BY <1>3, <2>1, <2>2, <2>3, <2>7, <2>8
  <1> HIDE DEF T2, b2, ts
  <1> DEFINE c2 == [p \in 1 .. (m + 2) |->
                      IF p < m THEN c[p]
                      ELSE IF p = m THEN [t |-> a - 1, g |-> h[n], w |-> 0]
                      ELSE IF p = m + 1 THEN [t |-> (a - 1) + ly, g |-> h[n] + 1, w |-> n + 1]
                      ELSE [t |-> a - 1, g |-> h[n] + 1, w |-> 0]]
  <1>18. /\ c2 \in Certificates(m + 2)
         /\ \A p \in 1 .. (m - 1) : c2[p] = c[p]
         /\ c2[m] = [t |-> a - 1, g |-> h[n], w |-> 0]
         /\ c2[m + 1] = [t |-> (a - 1) + ly, g |-> h[n] + 1, w |-> n + 1]
         /\ c2[m + 2] = [t |-> a - 1, g |-> h[n] + 1, w |-> 0]
    <2>1. \A p \in 1 .. (m + 2) : p < m => p \in 1 .. m
      BY <1>3
    <2>a. n + 1 \in Nat /\ 0 \in Nat /\ h[n] + 1 \in Nat
      BY <1>3, <1>5
    <2>b. \A p \in 1 .. (m + 2) : p < m => c[p] \in [t : Nat, g : Nat, w : Nat]
      BY <1>5, <2>1 DEF Certificates
    <2>2. c2 \in Certificates(m + 2)
      BY <1>5, <1>14, <2>a, <2>b DEF Certificates
    <2>3. \A p \in 1 .. (m - 1) : p \in 1 .. (m + 2) /\ p < m
      BY <1>3
    <2>4. /\ m \in 1 .. (m + 2) /\ ~ (m < m)
          /\ m + 1 \in 1 .. (m + 2) /\ ~ (m + 1 < m) /\ m + 1 # m
          /\ m + 2 \in 1 .. (m + 2) /\ ~ (m + 2 < m) /\ m + 2 # m /\ m + 2 # m + 1
      BY <1>3
    <2>. QED  BY <2>2, <2>3, <2>4
  <1> HIDE DEF c2
  <1>19. Kept(m, T, c, T2, c2)
    BY <1>17, <1>18 DEF Kept
  <1>20. h2[n] = h[n]
    <2>1. n \in 0 .. n
      BY <1>3
    <2>. QED  BY <1>3, <1>15, <2>1 DEF Grows
  <1>21. Above(n, h2, n + 1, c[m - 1].g)
    <2>1. h2[n + 1] >= c[m - 1].g
      BY <1>5, <1>8, <1>15
    <2>2. \A k \in (n + 1) .. (n + 1) : k = n + 1
      BY <1>3
    <2>. QED  BY <2>1, <2>2 DEF Above
  <1>22. c2[m - 1] = c[m - 1]
    <2>1. m - 1 \in 1 .. (m - 1)
      BY <1>3
    <2>. QED  BY <1>18, <2>1
  <1>23. TaskPending(b2, D2, h2, T2, c2, m) /\ FollowsIf(b2, D2, h2, T2, c2, m)
    <2>1. At(T2, m) = Alternative(x) /\ ~ Closing(At(T2, m))
      BY <1>17 DEF Closing, Alternative, Emit
    <2>2. Leads(Alternative(x), a - 1, v)
      BY <1>11, <1>14 DEF Leads, Alternative
    <2>3. c2[m].t = a - 1 /\ c2[m].g = h[n] /\ c2[m - 1].t = v /\ c2[m - 1].g = h[n] - 0
      BY <1>5, <1>8, <1>9, <1>18, <1>22
    <2>4. TaskPending(b2, D2, h2, T2, c2, m)
      BY <2>1, <2>2, <2>3 DEF TaskPending
    <2>5. m < Len(T2) /\ Closing(At(T2, m + 1))
      BY <1>3, <1>17 DEF Closing
    <2>. QED  BY <2>4, <2>5 DEF FollowsIf
  <1>24. TaskPending(b2, D2, h2, T2, c2, m + 1) /\ FollowsIf(b2, D2, h2, T2, c2, m + 1)
    <2>1. /\ At(T2, m + 1) = Emit(<<Line("close")>>) /\ Closing(At(T2, m + 1))
          /\ At(T2, m + 1).do # "alternative"
      BY <1>17 DEF Closing, Emit
    <2>2. /\ c2[m + 1].t = (a - 1) + ly /\ c2[m + 1].g = h[n] + 1 /\ c2[m + 1].w = n + 1
          /\ c2[m].t = a - 1 /\ c2[m].g = h[n]
          /\ (m + 1) - 1 = m /\ (m + 1) - 2 = m - 1
      BY <1>3, <1>18
    <2>3. Leads(At(T2, m + 1), c2[m + 1].t, c2[m].t)
      BY <1>10, <1>13, <2>1, <2>2 DEF Leads
    <2>4. c2[m].g = c2[m + 1].g - 1
      BY <1>5, <2>2
    <2>5. BlockPending(b2, D2, h2, T2, c2, m + 1)
      <3>1. n + 1 \in 1 .. (n + 1) /\ (n + 1) - 1 = n /\ \A k \in (n + 1) .. (n + 1) : k = n + 1
        BY <1>3
      <3>2. b2[n + 1].op = "if"
        BY <1>16 DEF Line
      <3>3. h2[n] = c2[m].g /\ h2[n + 1] >= c2[m + 1].g
        BY <1>5, <1>15, <1>20, <2>2
      <3>4. At(T2, m).do = "alternative"
        BY <1>17 DEF Alternative
      <3>5. c2[m].t <= D2[n + 1] - 1 /\ c2[m - 1].t <= c2[m + 1].t
        BY <1>9, <1>10, <1>14, <1>15, <1>22, <2>2
      <3>. QED  BY <1>16, <2>2, <3>1, <3>2, <3>3, <3>4, <3>5 DEF BlockPending, Openers
    <2>. QED  BY <2>1, <2>2, <2>3, <2>4, <2>5 DEF TaskPending, FollowsIf
  <1>25. TaskPending(b2, D2, h2, T2, c2, m + 2) /\ FollowsIf(b2, D2, h2, T2, c2, m + 2)
    <2>1. At(T2, m + 2) = Gen(y) /\ ~ Closing(At(T2, m + 2)) /\ At(T2, m + 2).do # "alternative"
      BY <1>17 DEF Closing, Gen, Emit
    <2>2. /\ c2[m + 2].t = a - 1 /\ c2[m + 2].g = h[n] + 1
          /\ c2[m + 1].t = (a - 1) + ly /\ c2[m + 1].g = (h[n] + 1) - 0 /\ (m + 2) - 1 = m + 1
      BY <1>3, <1>5, <1>18
    <2>3. Leads(Gen(y), a - 1, (a - 1) + ly)
      BY <1>11, <1>14 DEF Leads, Gen
    <2>. QED  BY <2>1, <2>2, <2>3 DEF TaskPending, FollowsIf
  <1>26. \A p \in m .. (m + 2) :
           TaskPending(b2, D2, h2, T2, c2, p) /\ FollowsIf(b2, D2, h2, T2, c2, p)
    <2>1. \A p \in m .. (m + 2) : p = m \/ p = m + 1 \/ p = m + 2
      BY <1>3
    <2>. QED  BY <1>23, <1>24, <1>25, <2>1
  <1>27. c2[m + 2].t <= D2[(n + 1) + 1] /\ c2[m + 2].g = h2[n + 1]
    <2>1. (n + 1) + 1 = n + 2
      BY <1>3
    <2>. QED  BY <1>9, <1>14, <1>15, <1>18, <2>1
  <1>28. At(T2, m - 1).do # "alternative"
    <2>1. m - 1 \in 1 .. (m - 1)
      BY <1>3
    <2>. QED  BY <1>8, <1>17, <2>1
  <1>29. Doable(f, b, n, D, h, T, m, c, b2, n + 1, D2, h2)
    BY <1>1, <1>3, <1>15, <1>16 DEF Doable
  <1>30. m + 2 \in Nat /\ m + 2 >= m - 1
    BY <1>3
  <1>31. Pending(f, b2, D2, h2, T2, c2)
    <2>1. Fits(b2, n + 1, D2, h2, T, m, c, T2, m + 2, c2)
      BY <1>17, <1>18, <1>19, <1>26, <1>27, <1>28, <1>30 DEF Fits
    <2>. QED  BY <1>21, <1>29, <2>1, Assembled
  <1>. QED  BY <1>15, <1>31 DEF Going, T2, b2, ts

(* The block of an else is opened, right behind that of its if.            *)
LEMMA ElseGoes ==
  ASSUME NEW f, NEW S, NEW b \in Seq(S), Len(b) >= 1, NEW R, NEW T \in Seq(R), Len(T) >= 2,
         Going(f, b, T), Line("else") \in S,
         NEW x, Head(T) = Alternative(x), Length(x) > 3, NEW y, y = x.items[4],
         <<Gen(y), Emit(<<Line("close")>>)>> \in Seq(R)
  PROVE  Going(f, b \o <<Line("else")>>, <<Gen(y), Emit(<<Line("close")>>)>> \o Tail(T))
  <1> DEFINE ts == <<Gen(y), Emit(<<Line("close")>>)>>
             T2 == ts \o Tail(T)
             b2 == b \o <<Line("else")>>
  <1>1. PICK D, h, c : Shape(b, D, h) /\ Pending(f, b, D, h, T, c)
    BY DEF Going
  <1>2. PICK n, m : n = Len(b) /\ m = Len(T)
    OBVIOUS
  <1>3. n \in Nat /\ n >= 1 /\ Len(b) = n /\ m \in Nat /\ m >= 2 /\ Len(T) = m /\ T # <<>>
    BY <1>2
  <1>4. Doable(f, b, n, D, h, T, m, c, b, n, D, h)
    <2>1. Grows(b, D, h, b, D, h)
      BY <1>1, <1>3 DEF Grows, Shape
    <2>. QED  BY <1>1, <1>3, <2>1 DEF Doable
  <1>5. /\ TaskPending(b, D, h, T, c, m) /\ FollowsIf(b, D, h, T, c, m)
        /\ c[m].t <= D[n + 1] /\ D[n + 1] \in Nat
        /\ c \in Certificates(m) /\ h[n] \in Nat
        /\ ~ Closing(At(T, m)) => c[m - 1].g = h[n]
        /\ At(T, m - 1).do = "alternative" => Closing(At(T, m))
    BY <1>4, DoableFacts
  <1>6. c[m].t \in Nat /\ c[m - 1].t \in Nat
    <2>1. m \in 1 .. m /\ m - 1 \in 1 .. m
      BY <1>3
    <2>. QED  BY <1>5, <2>1 DEF Certificates
  <1>7. At(T, m) = Alternative(x)
    BY <1>3 DEF At
  <1>8. ~ Closing(At(T, m)) /\ c[m - 1].g = h[n] /\ At(T, m - 1).do # "alternative"
    BY <1>5, <1>7 DEF Closing, Alternative, Emit
  <1>9. PICK a, v, ly : a = D[n + 1] /\ v = c[m - 1].t /\ ly = Leaves(y)
    OBVIOUS
  <1>10. a \in Nat /\ v \in Nat /\ Leads(Alternative(x), a, v)
    BY <1>5, <1>6, <1>7, <1>9, LeadsMore DEF TaskPending
  <1>11. v <= a + ly /\ ly \in Nat /\ a + ly \in Nat
    <2>1. v <= a + ly
      BY <1>9, <1>10 DEF Leads, Alternative, Closing, Emit
    <2>2. ly \in Nat
      BY <1>9 DEF Leaves
    <2>. QED  BY <1>10, <2>1, <2>2
  <1>12. PICK k \in 1 .. n : Closes(b, h, k, n) /\ b[k].op = "if" /\ v <= D[n]
    <2>1. BehindIf(b, D, h, c[m - 1].t)
      BY <1>3, <1>5, <1>7 DEF FollowsIf, Alternative
    <2>. QED  BY <1>3, <1>9, <2>1 DEF BehindIf
  <1>15. PICK D2, h2 :
           /\ Shape(b2, D2, h2) /\ Grows(b, D, h, b2, D2, h2)
           /\ D2[n + 2] = a /\ h2[n + 1] = h[n] + 1
    <2>1. PICK l : l = Line("else")
      OBVIOUS
    <2>2. Ready(S, b, n, D, h, l) /\ n \in Nat /\ l.op = "else"
          /\ k \in 1 .. n /\ Closes(b, h, k, n) /\ b[k].op = "if"
      BY <1>1, <1>3, <1>12, <2>1 DEF Ready, Line
    <2>3. \E D2, h2 :
           /\ Shape(b \o <<l>>, D2, h2) /\ Grows(b, D, h, b \o <<l>>, D2, h2)
           /\ D2[n + 2] = D[n + 1] /\ h2[n + 1] = h[n] + 1
      BY ONLY <2>2, GrowElse
    <2>. QED  BY <1>9, <2>1, <2>3
  <1>16. Len(b2) = n + 1 /\ b2[n + 1] = Line("else")
    BY <1>3
  <1>17. /\ Len(T2) = m + 1
         /\ \A p \in 1 .. (m - 1) : At(T2, p) = At(T, p)
         /\ At(T2, m + 1) = Gen(y) /\ At(T2, m) = Emit(<<Line("close")>>)
    <2>1. T \in Seq(R) /\ ts \in Seq(R) /\ Len(ts) = 2 /\ T # <<>>
      BY <1>3
    <2> HIDE DEF ts
    <2>a. T \in Seq(R) /\ ts \in Seq(R) /\ T # <<>>
      BY <2>1
    <2>2. Len(T2) = Len(T) + Len(ts) - 1
      BY ONLY <2>a, FollowAt
    <2>3. \A p \in 1 .. (Len(T) - 1) : At(T2, p) = At(T, p)
      BY ONLY <2>a, FollowAt
    <2>4. \A p \in Len(T) .. (Len(T) + Len(ts) - 1) : At(T2, p) = ts[Len(T) + Len(ts) - p]
      BY ONLY <2>a, FollowAt
    <2> HIDE DEF T2
    <2>5. \A p \in m .. (m + 1) : At(T2, p) = ts[m + 2 - p]
      BY <1>3, <2>1, <2>4
    <2>6. /\ m + 1 \in m .. (m + 1) /\ m \in m .. (m + 1)
          /\ m + 2 - (m + 1) = 1 /\ m + 2 - m = 2
      BY <1>3
    <2>7. At(T2, m + 1) = ts[1] /\ At(T2, m) = ts[2]
      BY <2>5, <2>6
    <2>8. ts[1] = Gen(y) /\ ts[2] = Emit(<<Line("close")>>)
      BY DEF ts
    <2>. QED  BY <1>3, <2>1, <2>2, <2>3, <2>7, <2>8
  <1> HIDE DEF T2, b2, ts
  <1> DEFINE c2 == [p \in 1 .. (m + 1) |->
                      IF p < m THEN c[p]
                      ELSE IF p = m THEN [t |-> a + ly, g |-> h[n] + 1, w |-> n + 1]
                      ELSE [t |-> a, g |-> h[n] + 1, w |-> 0]]
  <1>18. /\ c2 \in Certificates(m + 1)
         /\ \A p \in 1 .. (m - 1) : c2[p] = c[p]
         /\ c2[m] = [t |-> a + ly, g |-> h[n] + 1, w |-> n + 1]
         /\ c2[m + 1] = [t |-> a, g |-> h[n] + 1, w |-> 0]
    <2>1. \A p \in 1 .. (m + 1) : p < m => p \in 1 .. m
      BY <1>3
    <2>a. n + 1 \in Nat /\ 0 \in Nat /\ h[n] + 1 \in Nat
      BY <1>3, <1>5
    <2>b. \A p \in 1 .. (m + 1) : p < m => c[p] \in [t : Nat, g : Nat, w : Nat]
      BY <1>5, <2>1 DEF Certificates
    <2>2. c2 \in Certificates(m + 1)
      BY <1>5, <1>10, <1>11, <2>a, <2>b DEF Certificates
    <2>3. \A p \in 1 .. (m - 1) : p \in 1 .. (m + 1) /\ p < m
      BY <1>3
    <2>4. /\ m \in 1 .. (m + 1) /\ ~ (m < m)
          /\ m + 1 \in 1 .. (m + 1) /\ ~ (m + 1 < m) /\ m + 1 # m
      BY <1>3
    <2>. QED  BY <2>2, <2>3, <2>4
  <1> HIDE DEF c2
  <1>19. Kept(m, T, c, T2, c2)
    BY <1>17, <1>18 DEF Kept
  <1>20. h2[n] = h[n] /\ D2[n] = D[n]
    <2>1. n \in 0 .. n /\ n \in 1 .. n
      BY <1>3
    <2>. QED  BY <1>3, <1>15, <2>1 DEF Grows
  <1>21. Above(n, h2, n + 1, c[m - 1].g)
    <2>1. h2[n + 1] >= c[m - 1].g
      BY <1>5, <1>8, <1>15
    <2>2. \A i \in (n + 1) .. (n + 1) : i = n + 1
      BY <1>3
    <2>. QED  BY <2>1, <2>2 DEF Above
  <1>22. c2[m - 1] = c[m - 1] /\ At(T2, m - 1).do # "alternative"
    <2>1. m - 1 \in 1 .. (m - 1)
      BY <1>3
    <2>. QED  BY <1>8, <1>17, <1>18, <2>1
  <1>23. TaskPending(b2, D2, h2, T2, c2, m) /\ FollowsIf(b2, D2, h2, T2, c2, m)
    <2>1. /\ At(T2, m) = Emit(<<Line("close")>>) /\ Closing(At(T2, m))
          /\ At(T2, m).do # "alternative"
      BY <1>17 DEF Closing, Emit
    <2>2. /\ c2[m].t = a + ly /\ c2[m].g = h[n] + 1 /\ c2[m].w = n + 1
          /\ c2[m - 1].t = v /\ c2[m - 1].g = h[n]
      BY <1>8, <1>9, <1>18, <1>22
    <2>3. Leads(At(T2, m), c2[m].t, c2[m - 1].t)
      BY <1>11, <2>1, <2>2 DEF Leads
    <2>4. c2[m - 1].g = c2[m].g - 1
      BY <1>5, <2>2
    <2>5. BlockPending(b2, D2, h2, T2, c2, m)
      <3>1. n + 1 \in 1 .. (n + 1) /\ (n + 1) - 1 = n /\ \A i \in (n + 1) .. (n + 1) : i = n + 1
        BY <1>3
      <3>2. b2[n + 1].op = "else"
        BY <1>16 DEF Line
      <3>3. h2[n] = c2[m - 1].g /\ h2[n + 1] >= c2[m].g
        BY <1>5, <1>15, <1>20, <2>2
      <3>5. c2[m - 1].t <= D2[n]
        BY <1>12, <1>20, <2>2
      <3>. QED  BY <1>16, <1>22, <2>2, <3>1, <3>2, <3>3, <3>5 DEF BlockPending, Openers
    <2>. QED  BY <2>1, <2>3, <2>4, <2>5 DEF TaskPending, FollowsIf
  <1>25. TaskPending(b2, D2, h2, T2, c2, m + 1) /\ FollowsIf(b2, D2, h2, T2, c2, m + 1)
    <2>1. At(T2, m + 1) = Gen(y) /\ ~ Closing(At(T2, m + 1)) /\ At(T2, m + 1).do # "alternative"
      BY <1>17 DEF Closing, Gen, Emit
    <2>2. /\ c2[m + 1].t = a /\ c2[m + 1].g = h[n] + 1
          /\ c2[m].t = a + ly /\ c2[m].g = (h[n] + 1) - 0 /\ (m + 1) - 1 = m
      BY <1>3, <1>5, <1>18
    <2>3. Leads(Gen(y), a, a + ly)
      BY <1>9, <1>11 DEF Leads, Gen
    <2>. QED  BY <2>1, <2>2, <2>3 DEF TaskPending, FollowsIf
  <1>26. \A p \in m .. (m + 1) :
           TaskPending(b2, D2, h2, T2, c2, p) /\ FollowsIf(b2, D2, h2, T2, c2, p)
    <2>1. \A p \in m .. (m + 1) : p = m \/ p = m + 1
      BY <1>3
    <2>. QED  BY <1>23, <1>25, <2>1
  <1>27. c2[m + 1].t <= D2[(n + 1) + 1] /\ c2[m + 1].g = h2[n + 1]
    <2>1. (n + 1) + 1 = n + 2
      BY <1>3
    <2>. QED  BY <1>10, <1>15, <1>18, <2>1
  <1>29. Doable(f, b, n, D, h, T, m, c, b2, n + 1, D2, h2)
    BY <1>1, <1>3, <1>15, <1>16 DEF Doable
  <1>30. m + 1 \in Nat /\ m + 1 >= m - 1
    BY <1>3
  <1>31. Pending(f, b2, D2, h2, T2, c2)
    <2>1. Fits(b2, n + 1, D2, h2, T, m, c, T2, m + 1, c2)
      BY <1>17, <1>18, <1>19, <1>22, <1>26, <1>27, <1>30 DEF Fits
    <2>. QED  BY <1>21, <1>29, <2>1, Assembled
  <1>. QED  BY <1>15, <1>31 DEF Going, T2, b2, ts

(* A block is closed.                                                      *)
LEMMA CloseGoes ==
  ASSUME NEW f, NEW S, NEW b \in Seq(S), Len(b) >= 1, NEW R, NEW T \in Seq(R), Len(T) >= 2,
         Going(f, b, T), Line("close") \in S, Closing(Head(T))
  PROVE  Going(f, b \o <<Line("close")>>, Tail(T))
  <1> DEFINE T2 == Tail(T)
             b2 == b \o <<Line("close")>>
  <1>1. PICK D, h, c : Shape(b, D, h) /\ Pending(f, b, D, h, T, c)
    BY DEF Going
  <1>2. PICK n, m : n = Len(b) /\ m = Len(T)
    OBVIOUS
  <1>3. n \in Nat /\ n >= 1 /\ Len(b) = n /\ m \in Nat /\ m >= 2 /\ Len(T) = m /\ T # <<>>
    BY <1>2
  <1>4. Doable(f, b, n, D, h, T, m, c, b, n, D, h)
    <2>1. Grows(b, D, h, b, D, h)
      BY <1>1, <1>3 DEF Grows, Shape
    <2>. QED  BY <1>1, <1>3, <2>1 DEF Doable
  <1>5. /\ TaskPending(b, D, h, T, c, m)
        /\ c[m].t <= D[n + 1] /\ D[n + 1] \in Nat /\ c[m].g = h[n]
        /\ c \in Certificates(m) /\ h[n] \in Nat
        /\ At(T, 1) = Ending(f)
    BY <1>4, DoableFacts
  <1>6. c[m].t \in Nat /\ c[m - 1].t \in Nat /\ c[m - 1].g \in Nat
    <2>1. m \in 1 .. m /\ m - 1 \in 1 .. m
      BY <1>3
    <2>. QED  BY <1>5, <2>1 DEF Certificates
  <1>7. Closing(At(T, m))
    BY <1>3 DEF At
  <1>8. BlockPending(b, D, h, T, c, m) /\ c[m - 1].g = h[n] - 1 /\ c[m - 1].t <= c[m].t
    <2>1. Leads(At(T, m), c[m].t, c[m - 1].t)
      BY <1>5 DEF TaskPending
    <2>2. ~ \E k \in 0 .. MaxArgs : At(T, m) = Emit(CallLines(k))
      <3> SUFFICES ASSUME NEW k \in 0 .. MaxArgs, At(T, m) = Emit(CallLines(k))  PROVE FALSE
        OBVIOUS
      <3>1. Emit(CallLines(k)) = Emit(<<Line("close")>>)
        BY <1>7 DEF Closing
      <3>2. CallLines(k) = <<Line("close")>>
        BY <3>1 DEF Emit
      <3>3. PICK u, z : u = [i \in 1 .. k |-> Numbered("arg", i - 1)]
                          /\ z = <<Line("call"), Line("pushret")>>
        OBVIOUS
      <3>4. k \in Nat
        OBVIOUS
      <3>5. Len(u) = k /\ Len(z) = 2 /\ \E X, Y : u \in Seq(X) /\ z \in Seq(Y)
        <4>1. \E X : u \in Seq(X) /\ Len(u) = k
          <5>1. PICK X : X = {Numbered("arg", i - 1) : i \in 1 .. k}
            OBVIOUS
          <5>2. \A i \in 1 .. k : Numbered("arg", i - 1) \in X
            BY <5>1
          <5>3. u \in [1 .. k -> X]
            BY <3>3, <5>2
          <5>4. Len(u) = k
            BY <3>3, <3>4
          <5>5. u \in Seq(X)
            BY <3>4, <5>3
          <5>. QED  BY <5>4, <5>5
        <4>2. z \in Seq({Line("call"), Line("pushret")}) /\ Len(z) = 2
          BY <3>3
        <4>. QED  BY <4>1, <4>2
      <3>6. Len(u \o z) = k + 2
        <4>1. PICK X, Y : u \in Seq(X) /\ z \in Seq(Y)
          BY <3>5
        <4>2. u \in Seq(X \cup Y) /\ z \in Seq(X \cup Y)
          BY <4>1
        <4>3. Len(u \o z) = Len(u) + Len(z)
          BY ONLY <4>2
        <4>. QED  BY <3>5, <4>3
      <3>7. Len(<<Line("close")>>) = 1
        OBVIOUS
      <3>8. k + 2 = 1
        BY <3>2, <3>3, <3>6, <3>7 DEF CallLines
      <3>. QED  BY <3>4, <3>8
    <2>3. c[m - 1].t <= c[m].t
      BY <1>7, <2>1, <2>2 DEF Leads, Closing, Emit
    <2>. QED  BY <1>5, <1>7, <2>3 DEF TaskPending
  <1>9. PICK w, d : w = c[m].w /\ d = c[m - 1].t
    OBVIOUS
  <1>10. /\ w \in 1 .. n /\ b[w].op \in Openers /\ h[w - 1] = c[m - 1].g
         /\ \A k \in w .. n : h[k] >= h[n]
         /\ b[w].op = "if" => At(T, m - 1).do = "alternative" /\ d <= D[w] - 1 /\ c[m - 2].t <= c[m].t
         /\ b[w].op = "else" => At(T, m - 1).do # "alternative" /\ d <= D[w - 1]
    BY <1>3, <1>5, <1>8, <1>9 DEF BlockPending
  <1>11. h[w - 1] = h[n] - 1 /\ d \in Nat /\ d <= D[n + 1] /\ \A k \in w .. n : h[k] > h[w - 1]
    <2>1. h[w - 1] = h[n] - 1
      BY <1>8, <1>10
    <2>2. \A k \in w .. n : h[k] \in Nat
      BY <1>1, <1>3, <1>10 DEF Shape
    <2>3. d \in Nat /\ d <= D[n + 1]
      BY <1>5, <1>6, <1>8, <1>9
    <2>. QED  BY <1>5, <1>10, <2>1, <2>2, <2>3
  <1>15. PICK D2, h2 :
           /\ Shape(b2, D2, h2) /\ Grows(b, D, h, b2, D2, h2)
           /\ D2[n + 1] = D[n + 1] /\ D2[n + 2] = d /\ h2[n + 1] = h[n] - 1
           /\ Closes(b2, h2, w, n + 1)
    <2>1. PICK l : l = Line("close")
      OBVIOUS
    <2>2. Ready(S, b, n, D, h, l) /\ n \in Nat /\ l.op = "close"
      BY <1>1, <1>3, <2>1 DEF Ready, Line
    <2>3. w \in 1 .. n /\ d \in Nat /\ Closable(b, n, D, h, w, d)
      BY <1>10, <1>11 DEF Closable
    <2>4. \E D2, h2 :
           /\ Shape(b \o <<l>>, D2, h2) /\ Grows(b, D, h, b \o <<l>>, D2, h2)
           /\ D2[n + 1] = D[n + 1] /\ D2[n + 2] = d /\ h2[n + 1] = h[n] - 1
           /\ Closes(b \o <<l>>, h2, w, n + 1)
      BY ONLY <2>2, <2>3, GrowClose
    <2>. QED  BY <2>1, <2>4
  <1>16. Len(b2) = n + 1 /\ b2[n + 1] = Line("close")
    BY <1>3
  <1>17. Len(T2) = m - 1 /\ \A p \in 1 .. (m - 1) : At(T2, p) = At(T, p)
    <2>1. Len(T2) = m - 1 /\ \A i \in 1 .. (m - 1) : T2[i] = T[i + 1]
      BY ONLY T \in Seq(R), <1>3
    <2>2. ASSUME NEW p \in 1 .. (m - 1)  PROVE At(T2, p) = At(T, p)
      <3>1. (m - 1) + 1 - p \in 1 .. (m - 1) /\ ((m - 1) + 1 - p) + 1 = m + 1 - p
        BY <1>3
      <3>. QED  BY <1>3, <2>1, <3>1 DEF At
    <2>. QED  BY <2>1, <2>2
  <1> HIDE DEF T2, b2
  <1> DEFINE c2 == [p \in 1 .. (m - 1) |-> c[p]]
  <1>18. c2 \in Certificates(m - 1) /\ \A p \in 1 .. (m - 1) : c2[p] = c[p]
    <2>1. \A p \in 1 .. (m - 1) : p \in 1 .. m
      BY <1>3
    <2>. QED  BY <1>5, <2>1 DEF Certificates
  <1> HIDE DEF c2
  <1>19. Kept(m, T, c, T2, c2)
    BY <1>17, <1>18 DEF Kept
  <1>21. Above(n, h2, n + 1, c[m - 1].g)
    <2>1. h2[n + 1] >= c[m - 1].g
      BY <1>6, <1>8, <1>15
    <2>2. \A i \in (n + 1) .. (n + 1) : i = n + 1
      BY <1>3
    <2>. QED  BY <2>1, <2>2 DEF Above
  <1>22. c2[m - 1] = c[m - 1] /\ At(T2, m - 1) = At(T, m - 1)
    <2>1. m - 1 \in 1 .. (m - 1)
      BY <1>3
    <2>. QED  BY <1>17, <1>18, <2>1
  <1>23. At(T2, m - 1).do = "alternative" => FollowsIf(b2, D2, h2, T2, c2, m - 1)
    <2> HAVE At(T2, m - 1).do = "alternative"
    <2>1. b[w].op = "if"
      BY <1>10, <1>22 DEF Openers
    <2>2. m - 1 # 1
      BY <1>5, <1>22 DEF Ending, Emit
    <2>3. m - 2 \in 1 .. (m - 1) /\ (m - 1) - 1 = m - 2
      BY <1>3, <2>2
    <2>4. c2[(m - 1) - 1].t = c[m - 2].t
      BY <1>18, <2>3
    <2>5. c[m - 2].t \in Nat /\ c[m - 2].t <= c[m].t
      <3>1. m - 2 \in 1 .. m
        BY <1>3, <2>3
      <3>. QED  BY <1>5, <1>10, <2>1, <3>1 DEF Certificates
    <2>6. c2[(m - 1) - 1].t <= D2[n + 1]
      BY <1>5, <1>6, <1>15, <2>4, <2>5
    <2>7. b2[w].op = "if" /\ w \in 1 .. (n + 1)
      <3>1. b2[w] = b[w]
        BY <1>3, <1>10, <1>15 DEF Grows
      <3>. QED  BY <1>3, <1>10, <2>1, <3>1
    <2>8. BehindIf(b2, D2, h2, c2[(m - 1) - 1].t)
      BY <1>15, <1>16, <2>6, <2>7 DEF BehindIf
    <2>9. ~ (m - 1 < Len(T2))
      BY <1>3, <1>17
    <2>. QED  BY <2>8, <2>9 DEF FollowsIf
  <1>27. c2[m - 1].t <= D2[(n + 1) + 1] /\ c2[m - 1].g = h2[n + 1]
    <2>1. (n + 1) + 1 = n + 2
      BY <1>3
    <2>. QED  BY <1>8, <1>9, <1>11, <1>15, <1>22, <2>1
  <1>29. Doable(f, b, n, D, h, T, m, c, b2, n + 1, D2, h2)
    BY <1>1, <1>3, <1>15, <1>16 DEF Doable
  <1>30. m - 1 \in Nat /\ m - 1 >= m - 1 /\ \A p \in m .. (m - 1) : FALSE
    BY <1>3
  <1>31. Pending(f, b2, D2, h2, T2, c2)
    <2>1. Fits(b2, n + 1, D2, h2, T, m, c, T2, m - 1, c2)
      BY <1>17, <1>18, <1>19, <1>23, <1>27, <1>30 DEF Fits
    <2>. QED  BY <1>21, <1>29, <2>1, Assembled
  <1>. QED  BY <1>15, <1>31 DEF Going, T2, b2

(* The last task ends the function.                                        *)
LEMMA EndGoes ==
  ASSUME NEW f, NEW S, NEW b \in Seq(S), NEW T, Len(T) = 1, Going(f, b, T),
         NEW l \in S, l.op \in Ends,
         \A i \in 1 .. Len(b) : b[i].op \notin Ends
  PROVE  \E D, h : Shape(b \o <<l>>, D, h) /\ Complete(b \o <<l>>, h)
  <1>1. PICK D, h, c : Shape(b, D, h) /\ Pending(f, b, D, h, T, c)
    BY DEF Going
  <1>2. PICK n : n = Len(b)
    OBVIOUS
  <1>3. n \in Nat /\ Len(b) = n
    BY <1>2
  <1>4. h[n] = 0 /\ D[n + 1] \in Nat /\ D[n + 1] >= 1
    <2>1. c[1].t >= 1 /\ c[1].g = 0 /\ c[1].t <= D[n + 1] /\ c[1].g = h[n]
      BY <1>1, <1>3 DEF Pending
    <2>2. c[1].t \in Nat
      BY <1>1 DEF Pending, Certificates
    <2>3. D[n + 1] \in Nat
      BY <1>1, <1>3 DEF Shape
    <2>. QED  BY <2>1, <2>2, <2>3
  <1>5. PICK e : e = [i \in 1 .. 2 |-> IF i = 1 THEN D[n + 1] ELSE D[n + 1] - 1]
    OBVIOUS
  <1>6. PlainLines(<<l>>, 1, e) /\ e[1] = D[n + 1]
    <2>1. Change(l.op) = -1 /\ l.op \notin Openers \cup {"close"}
      BY DEF Change, PushOps, PopOps, Ends, Openers
    <2>2. e \in [1 .. 2 -> Nat] /\ e[1] = D[n + 1] /\ e[2] = D[n + 1] - 1
      BY <1>4, <1>5
    <2>3. Len(<<l>>) = 1 /\ \A i \in 1 .. 1 : i = 1 /\ <<l>>[i] = l
      OBVIOUS
    <2>. QED  BY <1>4, <2>1, <2>2, <2>3 DEF PlainLines
  <1>7. PICK D2, h2 :
          /\ Shape(b \o <<l>>, D2, h2) /\ Level(h, n, h2, n + 1) /\ Len(b \o <<l>>) = n + 1
    <2>0. PICK ls, k : ls = <<l>> /\ k = 1
      OBVIOUS
    <2>1. Growable(S, b, n, D, h, ls, k, e)
      BY <1>1, <1>3, <1>6, <2>0 DEF Growable
    <2>2. GrowsTo(b, n, D, h, ls, k, e)
      BY ONLY <2>1, GrowsPlainly
    <2>. QED  BY <2>0, <2>2 DEF GrowsTo
  <1>8. h2[n + 1] = 0
    <2>1. n + 1 \in n .. (n + 1)
      BY <1>3
    <2>. QED  BY <1>4, <1>7, <2>1 DEF Level
  <1>9. \A i \in 1 .. (n + 1) : (b \o <<l>>)[i].op \in Ends <=> i = n + 1
    <2> TAKE i \in 1 .. (n + 1)
    <2>1. i \in 1 .. n \/ i = n + 1
      BY <1>3
    <2>2. i \in 1 .. n => (b \o <<l>>)[i] = b[i]
      BY <1>3
    <2>3. (b \o <<l>>)[n + 1] = l
      BY <1>3
    <2>. QED  BY <1>3, <2>1, <2>2, <2>3
  <1>. QED  BY <1>3, <1>7, <1>8, <1>9 DEF Complete

=============================================================================
