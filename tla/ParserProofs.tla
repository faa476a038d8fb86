---------------------------- MODULE ParserProofs ----------------------------
(***************************************************************************)
(* Proofs about the parser, for token lists of every length.               *)
(***************************************************************************)
EXTENDS Grammar, FiniteSetTheorems, SequenceTheorems, WellFoundedInduction, TLAPS

-----------------------------------------------------------------------------
(* Counting brackets.                                                      *)

CountOf(ts, n, t) == Cardinality({i \in 1 .. n : ts[i].type = t})

(* Each token adds itself to the count of its type, and to no other.       *)
LEMMA CountStep ==
  ASSUME NEW ts, NEW n \in Nat, NEW t
  PROVE  /\ CountOf(ts, n, t) \in Nat
         /\ ts[n + 1].type = t => CountOf(ts, n + 1, t) = CountOf(ts, n, t) + 1
         /\ ts[n + 1].type # t => CountOf(ts, n + 1, t) = CountOf(ts, n, t)
  <1> DEFINE counted(k) == {i \in 1 .. k : ts[i].type = t}
  <1>1. IsFiniteSet(counted(n))
    <2>1. IsFiniteSet(1 .. n)
      BY FS_Interval
    <2>2. counted(n) \subseteq 1 .. n
      OBVIOUS
    <2> HIDE DEF counted
    <2>. QED  BY <2>1, <2>2, FS_Subset, Zenon
  <1>2. 1 .. (n + 1) = (1 .. n) \cup {n + 1} /\ n + 1 \notin 1 .. n
    OBVIOUS
  <1>3. ts[n + 1].type = t =>
          counted(n + 1) = counted(n) \cup {n + 1} /\ n + 1 \notin counted(n)
    BY <1>2, Zenon
  <1>4. ts[n + 1].type # t => counted(n + 1) = counted(n)
    BY <1>2, Zenon
  <1>5. \A k : CountOf(ts, k, t) = Cardinality(counted(k))
    BY DEF CountOf
  <1> HIDE DEF counted
  <1>6. Cardinality(counted(n)) \in Nat
    BY <1>1, FS_CardinalityType, Zenon
  <1>7. ts[n + 1].type = t => Cardinality(counted(n + 1)) = Cardinality(counted(n)) + 1
    BY <1>1, <1>3, FS_AddElement, Zenon
  <1>. QED  BY <1>4, <1>5, <1>6, <1>7

(* No bracket is open before the first token.                              *)
LEMMA DepthZero ==
  ASSUME NEW ts
  PROVE  Depth(ts, 0) = 0
  <1>1. \A t : {i \in 1 .. 0 : ts[i].type = t} = {}
    <2>1. 1 .. 0 = {}
      OBVIOUS
    <2>. QED  BY <2>1, Zenon
  <1>. QED  BY <1>1, FS_EmptySet DEF Depth

(* A bracket changes the depth by one, another token leaves it alone.      *)
LEMMA DepthStep ==
  ASSUME NEW ts, NEW n \in Nat
  PROVE  /\ Depth(ts, n) \in Int
         /\ ts[n + 1].type = "(" => Depth(ts, n + 1) = Depth(ts, n) + 1
         /\ ts[n + 1].type = ")" => Depth(ts, n + 1) = Depth(ts, n) - 1
         /\ ts[n + 1].type \notin {"(", ")"} => Depth(ts, n + 1) = Depth(ts, n)
  <1>1. \A k : Depth(ts, k) = CountOf(ts, k, "(") - CountOf(ts, k, ")")
    BY DEF Depth, CountOf
  <1>2. /\ CountOf(ts, n, "(") \in Nat
        /\ ts[n + 1].type = "(" => CountOf(ts, n + 1, "(") = CountOf(ts, n, "(") + 1
        /\ ts[n + 1].type # "(" => CountOf(ts, n + 1, "(") = CountOf(ts, n, "(")
    BY CountStep
  <1>3. /\ CountOf(ts, n, ")") \in Nat
        /\ ts[n + 1].type = ")" => CountOf(ts, n + 1, ")") = CountOf(ts, n, ")") + 1
        /\ ts[n + 1].type # ")" => CountOf(ts, n + 1, ")") = CountOf(ts, n, ")")
    BY CountStep
  <1>. QED  BY <1>1, <1>2, <1>3

-----------------------------------------------------------------------------
(* Sequences.                                                              *)

(* The beginning of a sequence.                                            *)
LEMMA Prefix ==
  ASSUME NEW S, NEW s \in Seq(S), NEW n \in Nat, n <= Len(s)
  PROVE  /\ SubSeq(s, 1, n) \in Seq(S) /\ Len(SubSeq(s, 1, n)) = n
         /\ \A i \in 1 .. n : SubSeq(s, 1, n)[i] = s[i]
  <1>1. SubSeq(s, 1, n) \in Seq(S)
    BY SubSeqProperties
  <1>. QED  BY <1>1

(* A sequence is one over its own elements.                                *)
LEMMA OverItsRange ==
  ASSUME NEW S, NEW s \in Seq(S)
  PROVE  s \in Seq(Range(s)) /\ \A i \in 1 .. Len(s) : s[i] \in S /\ s[i] \in Range(s)
  <1>1. Len(s) \in Nat /\ DOMAIN s = 1 .. Len(s) /\ s = [i \in 1 .. Len(s) |-> s[i]]
    OBVIOUS
  <1>2. \A i \in 1 .. Len(s) : s[i] \in Range(s)
    BY <1>1 DEF Range
  <1>. QED  BY <1>1, <1>2

Alphabet == Range(text) \cup {LeftParen, RightParen, Identifier("lambda")}

(* The wrapped tokens, one by one.                                         *)
LEMMA Wrapped ==
  ASSUME text \in Texts
  PROVE  /\ text \in Seq(Alphabet) /\ text # <<>>
         /\ Program \in Seq(Alphabet) /\ Len(Program) = Len(text) - 1
         /\ \A i \in 1 .. Len(Program) : Program[i] = text[i]
         /\ Wrap(text) \in Seq(Alphabet)
         /\ Len(Wrap(text)) = Len(Program) + 8
         /\ Wrap(text)[1] = LeftParen /\ Wrap(text)[2] = LeftParen
         /\ Wrap(text)[3] = Identifier("lambda")
         /\ Wrap(text)[4] = LeftParen /\ Wrap(text)[5] = RightParen
         /\ \A i \in 1 .. Len(Program) : Wrap(text)[5 + i] = Program[i]
         /\ Wrap(text)[Len(Program) + 6] = RightParen
         /\ Wrap(text)[Len(Program) + 7] = RightParen
         /\ Wrap(text)[Len(Program) + 8] = text[Len(text)]
  <1>1. text \in Seq(Range(text)) /\ text # <<>>
    BY TextsAssumption
  <1>2. text \in Seq(Alphabet)
    BY <1>1, OverItsRange DEF Alphabet
  <1>3. LeftParen \in Alphabet /\ RightParen \in Alphabet /\ Identifier("lambda") \in Alphabet
    BY DEF Alphabet
  <1> DEFINE l == Identifier("lambda")
             A == Alphabet
  <1> HIDE DEF l
  <1>4. /\ WrapHead \in Seq(A) /\ Len(WrapHead) = 5
        /\ WrapHead[1] = LeftParen /\ WrapHead[2] = LeftParen /\ WrapHead[3] = l
        /\ WrapHead[4] = LeftParen /\ WrapHead[5] = RightParen
    <2>1. WrapHead = <<LeftParen, LeftParen, l, LeftParen, RightParen>>
      BY DEF WrapHead, l
    <2>2. l \in A
      BY <1>3 DEF l
    <2>. QED  BY <2>1, <2>2, <1>3
  <1>5. /\ WrapTail \in Seq(A) /\ Len(WrapTail) = 2
        /\ WrapTail[1] = RightParen /\ WrapTail[2] = RightParen
    BY <1>3 DEF WrapTail
  <1>6. /\ Program \in Seq(A) /\ Len(Program) = Len(text) - 1
        /\ \A i \in 1 .. Len(Program) : Program[i] = text[i]
    <2>1. Program = SubSeq(text, 1, Len(text) - 1)
      BY DEF Program, Front
    <2>2. PICK n \in Nat : n = Len(text) - 1
      BY <1>1, <1>2, EmptySeq
    <2>3. /\ SubSeq(text, 1, n) \in Seq(A) /\ Len(SubSeq(text, 1, n)) = n
          /\ \A i \in 1 .. n : SubSeq(text, 1, n)[i] = text[i]
      <3>1. n <= Len(text) /\ text \in Seq(A)
        BY <1>2, <2>2
      <3> HIDE DEF A
      <3>. QED  BY ONLY <3>1, Prefix
    <2>4. Program = SubSeq(text, 1, n)
      BY <2>1, <2>2
    <2>. QED  BY <2>2, <2>3, <2>4
  <1>7. Last(text) = text[Len(text)] /\ Last(text) \in A
    BY <1>1, <1>2 DEF Last
  <1>8. Wrap(text) = WrapHead \o Program \o WrapTail \o <<Last(text)>>
    BY DEF Wrap, Program
  <1> DEFINE w == WrapHead \o Program \o WrapTail \o <<Last(text)>>
  <1>9. /\ w \in Seq(A) /\ Len(w) = Len(WrapHead) + Len(Program) + Len(WrapTail) + 1
        /\ \A i \in 1 .. Len(WrapHead) : w[i] = WrapHead[i]
        /\ \A i \in 1 .. Len(Program) : w[Len(WrapHead) + i] = Program[i]
        /\ \A i \in 1 .. Len(WrapTail) : w[Len(WrapHead) + Len(Program) + i] = WrapTail[i]
        /\ w[Len(WrapHead) + Len(Program) + Len(WrapTail) + 1] = Last(text)
    <2>1. /\ WrapHead \in Seq(A) /\ Program \in Seq(A) /\ WrapTail \in Seq(A)
          /\ Last(text) \in A
      BY <1>4, <1>5, <1>6, <1>7
    <2> HIDE DEF A
    <2>. QED  BY ONLY <2>1
  <1>10. Len(Program) \in Nat
    BY <1>6
  <1>11. w = Wrap(text)
    BY <1>8
  <1> HIDE DEF A, w
  <1>12. /\ w \in Seq(A) /\ Len(w) = Len(Program) + 8
         /\ w[1] = LeftParen /\ w[2] = LeftParen /\ w[3] = l
         /\ w[4] = LeftParen /\ w[5] = RightParen
         /\ \A i \in 1 .. Len(Program) : w[5 + i] = Program[i]
         /\ w[Len(Program) + 6] = RightParen /\ w[Len(Program) + 7] = RightParen
         /\ w[Len(Program) + 8] = text[Len(text)]
    BY ONLY <1>4, <1>5, <1>7, <1>9, <1>10
  <1>. QED  BY <1>1, <1>2, <1>6, <1>11, <1>12, Zenon DEF A, l
(* Only the last of the wrapped tokens is an end.                          *)
LEMMA EndIsLast ==
  ASSUME text \in Texts
  PROVE  \A i \in 1 .. Len(Wrap(text)) :
           Wrap(text)[i].type = "eof" <=> i = Len(Wrap(text))
  <1> DEFINE W == Wrap(text)
             L == Len(Program)
  <1>1. L \in Nat /\ Len(W) = L + 8 /\ L = Len(text) - 1
    BY Wrapped
  <1>2. \A i \in 1 .. Len(text) : text[i].type = "eof" <=> i = Len(text)
    BY TextsAssumption
  <1>3. LeftParen.type # "eof" /\ RightParen.type # "eof" /\ Identifier("lambda").type # "eof"
    BY DEF LeftParen, RightParen, Mark, Identifier
  <1>4. \A i \in 1 .. 5 : W[i].type # "eof"
    <2>1. /\ W[1].type # "eof" /\ W[2].type # "eof" /\ W[3].type # "eof"
          /\ W[4].type # "eof" /\ W[5].type # "eof"
      BY <1>3, Wrapped
    <2>2. \A i \in 1 .. 5 : i = 1 \/ i = 2 \/ i = 3 \/ i = 4 \/ i = 5
      OBVIOUS
    <2> HIDE DEF W
    <2>. QED  BY ONLY <2>1, <2>2
  <1>5. \A i \in 1 .. L : W[5 + i].type # "eof"
    <2> TAKE i \in 1 .. L
    <2>1. W[5 + i] = text[i]
      BY Wrapped
    <2>2. i \in 1 .. Len(text) /\ i # Len(text)
      BY <1>1
    <2>. QED  BY <1>2, <2>1, <2>2
  <1>6. W[L + 6].type # "eof" /\ W[L + 7].type # "eof"
    BY <1>3, Wrapped
  <1>7. W[L + 8].type = "eof"
    BY <1>1, <1>2, Wrapped
  <1> HIDE DEF W, L
  <1>8. \A i \in 6 .. L + 5 : W[i].type # "eof"
    <2> TAKE i \in 6 .. L + 5
    <2>1. i - 5 \in 1 .. L /\ 5 + (i - 5) = i
      BY <1>1
    <2>. QED  BY <2>1, <1>5
  <1>9. \A i \in 1 .. Len(W) : W[i].type = "eof" <=> i = Len(W)
    BY <1>1, <1>4, <1>6, <1>7, <1>8
  <1>. QED  BY <1>9 DEF W

(* The depths in what the preprocessor puts before a program.              *)
LEMMA HeadDepths ==
  ASSUME text \in Texts
  PROVE  LET W == Wrap(text)
         IN /\ Depth(W, 0) = 0 /\ Depth(W, 1) = 1 /\ Depth(W, 2) = 2
            /\ Depth(W, 3) = 2 /\ Depth(W, 4) = 3 /\ Depth(W, 5) = 2
  <1> DEFINE W == Wrap(text)
  <1>1. /\ W[0 + 1].type = "(" /\ W[1 + 1].type = "("
        /\ W[2 + 1].type \notin {"(", ")"}
        /\ W[3 + 1].type = "(" /\ W[4 + 1].type = ")"
    BY Wrapped DEF LeftParen, RightParen, Mark, Identifier
  <1> HIDE DEF W
  <1>2. Depth(W, 0) = 0
    BY DepthZero
  <1>3. Depth(W, 0 + 1) = 1
    BY <1>1, <1>2, DepthStep
  <1>4. Depth(W, 1 + 1) = 2
    BY <1>1, <1>3, DepthStep
  <1>5. Depth(W, 2 + 1) = 2
    BY <1>1, <1>4, DepthStep
  <1>6. Depth(W, 3 + 1) = 3
    BY <1>1, <1>5, DepthStep
  <1>7. Depth(W, 4 + 1) = 2
    BY <1>1, <1>6, DepthStep
  <1>. QED  BY <1>2, <1>3, <1>4, <1>5, <1>6, <1>7 DEF W
-----------------------------------------------------------------------------
(* The invariant: how many tokens have been read, and at what depth.       *)

NodeTypes == {"string", "integer", "numeric", "identifier", "list"}

NodeList(xs) == xs \in Seq(Range(xs)) /\ \A x \in Range(xs) : x.type \in NodeTypes

ListsOfNodes(lists) ==
  lists \in Seq(Range(lists)) /\ \A i \in 1 .. Len(lists) : NodeList(lists[i])

ReadSoFar == Len(Wrap(text)) - Len(tokens)

(* The tokens that are left are the last ones of the wrapped list.         *)
TokensLeft ==
  /\ tokens \in Seq(Alphabet) /\ Len(tokens) <= Len(Wrap(text))
  /\ \A i \in 1 .. Len(tokens) : tokens[i] = Wrap(text)[ReadSoFar + i]
  /\ tokens = <<>> <=> status = "done"

(* The lists that are open are the brackets that are.                      *)
OpenDepth ==
  tree = NoTree => /\ Depth(Wrap(text), ReadSoFar) = Len(open)
                   /\ \A m \in 1 .. ReadSoFar : Depth(Wrap(text), m) > 0

(* The tree was read at the first token behind which no bracket is open.   *)
TreeEnd == IF status = "done" THEN ReadSoFar - 1 ELSE ReadSoFar
TreeDepth ==
  tree # NoTree => /\ TreeEnd \in 1 .. Len(Wrap(text)) /\ Depth(Wrap(text), TreeEnd) = 0
                   /\ \A m \in 1 .. (TreeEnd - 1) : Depth(Wrap(text), m) > 0

(* The program is two brackets deeper than it says itself.                 *)
ProgramDepth ==
  \A m \in 5 .. ReadSoFar :
    m <= Len(Program) + 5 => Depth(Wrap(text), m) = 2 + Depth(Program, m - 5)

(* Why the parser stopped.                                                 *)
Stopped ==
  /\ status = "done" => tree # NoTree
  /\ status = "unexpected" =>
       \/ tree = NoTree /\ Current.type = "eof"
       \/ tree = NoTree /\ Current.type = ")" /\ open = <<>>
       \/ tree # NoTree /\ Current.type # "eof"

Reading ==
  /\ TokensLeft /\ OpenDepth /\ TreeDepth /\ ProgramDepth /\ Stopped

IInv ==
  /\ text \in Texts
  /\ status \in {"start", "parse", "done", "unexpected"}
  /\ ListsOfNodes(open)
  /\ tree # NoTree => open = <<>>
  /\ status = "start" => tokens = text /\ tree = NoTree /\ open = <<>>
  /\ status # "start" => Reading

-----------------------------------------------------------------------------
(* Every step keeps it.                                                    *)

(* No list, and so no node, is open at first.                              *)
LEMMA NoNodes == NodeList(<<>>) /\ ListsOfNodes(<<>>)
  <1>1. Range(<<>>) = {}
    BY DEF Range
  <1>2. \A S : <<>> \in Seq(S) /\ Len(<<>>) = 0
    OBVIOUS
  <1>. QED  BY <1>1, <1>2 DEF NodeList, ListsOfNodes

(* What an append makes of the elements.                                   *)
LEMMA Appended ==
  ASSUME NEW s, s \in Seq(Range(s)), NEW x
  PROVE  /\ Append(s, x) \in Seq(Range(Append(s, x)))
         /\ Range(Append(s, x)) \subseteq Range(s) \cup {x}
         /\ Len(Append(s, x)) = Len(s) + 1
         /\ Append(s, x)[Len(s) + 1] = x
         /\ \A i \in 1 .. Len(s) : Append(s, x)[i] = s[i]
  <1> DEFINE S == Range(s) \cup {x}
  <1>1. s \in Seq(S) /\ x \in S /\ Len(s) \in Nat
    BY OverItsRange
  <1> HIDE DEF S
  <1>2. PICK a : a = Append(s, x)
    OBVIOUS
  <1>3. /\ a \in Seq(S) /\ Len(a) = Len(s) + 1 /\ a[Len(s) + 1] = x
        /\ \A i \in 1 .. Len(s) : a[i] = s[i]
    BY <1>1, <1>2
  <1>4. a \in Seq(Range(a)) /\ DOMAIN a = 1 .. Len(a) /\ \A i \in 1 .. Len(a) : a[i] \in S
    BY <1>3, OverItsRange
  <1>5. Range(a) \subseteq S
    BY <1>4 DEF Range
  <1>. QED  BY <1>2, <1>3, <1>4, <1>5 DEF S

(* A node that is delivered to an open list is one of its nodes.           *)
LEMMA DeliveredNode ==
  ASSUME NEW lists, ListsOfNodes(lists), lists # <<>>, NEW node, node.type \in NodeTypes
  PROVE  ListsOfNodes(Delivered(node, lists)) /\ Len(Delivered(node, lists)) = Len(lists)
  <1> DEFINE n == Len(lists)
             new == Append(lists[n], node)
             d == Delivered(node, lists)
             S == Range(lists) \cup {new}
  <1>1. lists \in Seq(Range(lists)) /\ n \in 1 .. n /\ n \in Nat
    BY EmptySeq DEF ListsOfNodes
  <1>2. NodeList(lists[n])
    BY <1>1 DEF ListsOfNodes
  <1>3. new \in Seq(Range(new)) /\ Range(new) \subseteq Range(lists[n]) \cup {node}
    BY <1>2, Appended DEF NodeList
  <1>4. NodeList(new)
    BY <1>2, <1>3 DEF NodeList
  <1>5. lists \in Seq(S) /\ new \in S
    BY <1>1, OverItsRange
  <1>6. d = [lists EXCEPT ![n] = new]
    BY DEF Delivered
  <1> HIDE DEF n, new, d, S
  <1>7. /\ d \in Seq(S) /\ Len(d) = n /\ d[n] = new
        /\ \A i \in 1 .. n : i # n => d[i] = lists[i]
    BY <1>1, <1>5, <1>6 DEF n
  <1>8. d \in Seq(Range(d))
    BY <1>7, OverItsRange
  <1>9. \A i \in 1 .. n : NodeList(d[i])
    BY <1>4, <1>7 DEF n, ListsOfNodes
  <1>. QED  BY <1>7, <1>8, <1>9 DEF d, n, ListsOfNodes
(* Opening a list, and going back to the one around it.                    *)
LEMMA OpenedNodes ==
  ASSUME NEW lists, ListsOfNodes(lists)
  PROVE  /\ ListsOfNodes(Append(lists, <<>>))
         /\ Len(Append(lists, <<>>)) = Len(lists) + 1 /\ Append(lists, <<>>) # <<>>
  <1> DEFINE a == Append(lists, <<>>)
  <1>1. lists \in Seq(Range(lists))
    BY DEF ListsOfNodes
  <1>2. /\ a \in Seq(Range(a)) /\ Len(a) = Len(lists) + 1 /\ a[Len(lists) + 1] = <<>>
        /\ \A i \in 1 .. Len(lists) : a[i] = lists[i]
    BY <1>1, Appended
  <1> HIDE DEF a
  <1>3. \A i \in 1 .. Len(a) : NodeList(a[i])
    BY <1>1, <1>2, NoNodes DEF ListsOfNodes
  <1>4. a # <<>>
    BY <1>1, <1>2
  <1>. QED  BY <1>2, <1>3, <1>4 DEF a, ListsOfNodes

(* The lists around the innermost one.                                     *)
LEMMA OuterNodes ==
  ASSUME NEW lists, ListsOfNodes(lists), lists # <<>>
  PROVE  ListsOfNodes(Front(lists)) /\ Len(Front(lists)) = Len(lists) - 1
  <1>1. lists \in Seq(Range(lists))
    BY DEF ListsOfNodes
  <1>2. PICK n \in Nat : n = Len(lists) - 1
    BY <1>1, EmptySeq
  <1>3. /\ SubSeq(lists, 1, n) \in Seq(Range(lists)) /\ Len(SubSeq(lists, 1, n)) = n
        /\ \A i \in 1 .. n : SubSeq(lists, 1, n)[i] = lists[i]
    <2>1. n <= Len(lists)
      BY <1>1, <1>2
    <2>. QED  BY <1>1, <2>1, Prefix
  <1>4. Front(lists) = SubSeq(lists, 1, n)
    BY <1>2 DEF Front
  <1> DEFINE f == SubSeq(lists, 1, n)
  <1> HIDE DEF f
  <1>5. f \in Seq(Range(f)) /\ Len(f) = n
    BY <1>3, OverItsRange DEF f
  <1>6. \A i \in 1 .. Len(f) : NodeList(f[i])
    <2> TAKE i \in 1 .. Len(f)
    <2>1. i \in 1 .. Len(lists) /\ f[i] = lists[i]
      BY <1>1, <1>2, <1>3, <1>5 DEF f
    <2>. QED  BY <2>1 DEF ListsOfNodes
  <1>. QED  BY <1>2, <1>4, <1>5, <1>6 DEF f, ListsOfNodes

(* What the names of the invariant say after a step that leaves the text.  *)
LEMMA TextStays ==
  ASSUME text' = text
  PROVE  Wrap(text)' = Wrap(text) /\ Alphabet' = Alphabet /\ Program' = Program
  BY DEF Wrap, Alphabet, Program

(* A token of the datum is read.                                           *)
LEMMA Advanced ==
  ASSUME IInv, status = "parse", tree = NoTree, Current.type # "eof",
         AdvanceToken, UNCHANGED <<text, status>>
  PROVE  /\ ReadSoFar \in Nat /\ ReadSoFar' = ReadSoFar + 1
         /\ ReadSoFar + 1 \in 1 .. Len(Wrap(text)) /\ Wrap(text)[ReadSoFar + 1] = Current
         /\ TokensLeft' /\ ProgramDepth'
         /\ Current.type = "(" => Depth(Wrap(text), ReadSoFar + 1) = Len(open) + 1
         /\ Current.type = ")" => Depth(Wrap(text), ReadSoFar + 1) = Len(open) - 1
         /\ Current.type \notin {"(", ")"} => Depth(Wrap(text), ReadSoFar + 1) = Len(open)
  <1> DEFINE W == Wrap(text)
             N == Len(W)
             r == ReadSoFar
  <1>1. text \in Texts /\ TokensLeft /\ OpenDepth /\ ProgramDepth
    BY DEF IInv, Reading
  <1>2. /\ Len(Program) \in Nat /\ N = Len(Program) + 8 /\ W \in Seq(Alphabet)
        /\ \A i \in 1 .. Len(Program) : W[5 + i] = Program[i]
    <2>1. Program \in Seq(Alphabet) /\ Len(W) = Len(Program) + 8 /\ W \in Seq(Alphabet)
      BY <1>1, Wrapped
    <2>2. \A i \in 1 .. Len(Program) : W[5 + i] = Program[i]
      BY <1>1, Wrapped
    <2>3. Len(Program) \in Nat
      BY <2>1
    <2>. QED  BY <2>1, <2>2, <2>3
  <1>3. /\ tokens \in Seq(Alphabet) /\ tokens # <<>> /\ Len(tokens) <= N
        /\ \A i \in 1 .. Len(tokens) : tokens[i] = W[r + i]
        /\ r = N - Len(tokens)
    BY <1>1 DEF TokensLeft, ReadSoFar
  <1>4. W' = W /\ Alphabet' = Alphabet /\ Program' = Program
    BY TextStays
  <1>5. r' = N - Len(tokens')
    BY <1>4 DEF ReadSoFar
  <1>6. tokens' = Tail(tokens) /\ Current = Head(tokens)
    BY DEF AdvanceToken, Current
  <1> HIDE DEF W, N, r
  <1>7. Len(tokens) \in Nat \ {0} /\ N \in Nat
    BY <1>2, <1>3
  <1>8. /\ tokens' \in Seq(Alphabet) /\ Len(tokens') = Len(tokens) - 1
        /\ \A i \in 1 .. Len(tokens') : tokens'[i] = tokens[i + 1]
    BY <1>3, <1>6, HeadTailProperties
  <1>9. r \in Nat /\ r' = r + 1 /\ r + 1 \in 1 .. N
    BY <1>3, <1>5, <1>7, <1>8
  <1>10. Current = W[r + 1]
    BY <1>3, <1>6, <1>7
  <1>11. r + 1 # N
    BY <1>1, <1>9, <1>10, EndIsLast DEF W, N
  <1>12. \A i \in 1 .. Len(tokens') : tokens'[i] = W[r' + i]
    <2> TAKE i \in 1 .. Len(tokens')
    <2>1. i + 1 \in 1 .. Len(tokens)
      BY <1>7, <1>8
    <2>2. r + (i + 1) = r' + i
      BY <1>9
    <2>. QED  BY <1>3, <1>8, <2>1, <2>2
  <1>13. tokens' # <<>>
    BY <1>3, <1>7, <1>8, <1>11
  <1>14. TokensLeft'
    BY <1>4, <1>7, <1>8, <1>3, <1>12, <1>13 DEF TokensLeft, W, N, r
  <1>15. Depth(W, r) = Len(open)
    BY <1>1 DEF OpenDepth, W, r
  <1>16. /\ Current.type = "(" => Depth(W, r + 1) = Len(open) + 1
         /\ Current.type = ")" => Depth(W, r + 1) = Len(open) - 1
         /\ Current.type \notin {"(", ")"} => Depth(W, r + 1) = Len(open)
    BY <1>9, <1>10, <1>15, DepthStep
  <1>17. ASSUME NEW m \in 5 .. (r + 1), m <= Len(Program) + 5
         PROVE  Depth(W, m) = 2 + Depth(Program, m - 5)
    <2>1. CASE m <= r
      BY <1>1, <1>9, <1>17, <2>1 DEF ProgramDepth, W, r
    <2>2. CASE m = r + 1 /\ m = 5
      <3>1. Depth(W, 5) = 2 /\ Depth(Program, 0) = 0
        BY <1>1, HeadDepths, DepthZero DEF W
      <3>. QED  BY <2>2, <3>1
    <2>3. CASE m = r + 1 /\ m # 5
      <3>1. PICK k \in Nat : k = r - 5
        BY <1>9, <2>3
      <3>2. k + 1 \in 1 .. Len(Program) /\ r = k + 5 /\ r + 1 = 5 + (k + 1)
        BY <1>2, <1>9, <1>17, <2>3, <3>1
      <3>3. Depth(W, r) = 2 + Depth(Program, k)
        <4>1. r \in 5 .. r /\ r <= Len(Program) + 5 /\ r - 5 = k
          BY <1>2, <1>9, <3>1, <3>2
        <4>. QED  BY <1>1, <4>1 DEF ProgramDepth, W, r
      <3>4. W[r + 1] = Program[k + 1]
        BY <1>2, <3>2
      <3>5. /\ Depth(W, r) \in Int
            /\ W[r + 1].type = "(" => Depth(W, r + 1) = Depth(W, r) + 1
            /\ W[r + 1].type = ")" => Depth(W, r + 1) = Depth(W, r) - 1
            /\ W[r + 1].type \notin {"(", ")"} => Depth(W, r + 1) = Depth(W, r)
        BY <1>9, DepthStep
      <3>6. /\ Depth(Program, k) \in Int
            /\ Program[k + 1].type = "(" => Depth(Program, k + 1) = Depth(Program, k) + 1
            /\ Program[k + 1].type = ")" => Depth(Program, k + 1) = Depth(Program, k) - 1
            /\ Program[k + 1].type \notin {"(", ")"} => Depth(Program, k + 1) = Depth(Program, k)
        BY DepthStep
      <3>7. Depth(W, r + 1) = 2 + Depth(Program, k + 1)
        BY <3>3, <3>4, <3>5, <3>6
      <3>8. m = r + 1 /\ m - 5 = k + 1
        BY <2>3, <3>2
      <3>. QED  BY <3>7, <3>8
    <2>. QED  BY <1>9, <2>1, <2>2, <2>3
  <1>18. ProgramDepth'
    BY <1>4, <1>9, <1>17 DEF ProgramDepth, W, r
  <1>. QED  BY <1>9, <1>10, <1>14, <1>16, <1>18 DEF W, N, r
(* A node goes to the innermost list, or is the tree.                      *)
LEMMA DeliverKeeps ==
  ASSUME tree = NoTree, NEW lists, ListsOfNodes(lists), NEW node, node.type \in NodeTypes,
         Deliver(node, lists)
  PROVE  /\ ListsOfNodes(open')
         /\ lists = <<>> => tree' # NoTree /\ open' = <<>>
         /\ lists # <<>> => tree' = NoTree /\ Len(open') = Len(lists)
  <1>1. node # NoTree
    BY DEF NodeTypes, NoTree
  <1>2. CASE lists = <<>>
    BY <1>1, <1>2, NoNodes DEF Deliver
  <1>3. CASE lists # <<>>
    <2>1. tree' = tree /\ open' = Delivered(node, lists)
      BY <1>3 DEF Deliver
    <2>. QED  BY <1>3, <2>1, DeliveredNode
  <1>. QED  BY <1>2, <1>3

(* Reading a token that ends a node.                                       *)
LEMMA NodeRead ==
  ASSUME IInv, status = "parse", tree = NoTree, Current.type # "eof",
         AdvanceToken, UNCHANGED <<text, status>>,
         NEW lists, ListsOfNodes(lists), NEW node, node.type \in NodeTypes,
         Deliver(node, lists), Depth(Wrap(text), ReadSoFar + 1) = Len(lists)
  PROVE  IInv'
  <1> DEFINE W == Wrap(text)
             r == ReadSoFar
  <1>1. /\ r \in Nat /\ r' = r + 1 /\ r + 1 \in 1 .. Len(W)
        /\ TokensLeft' /\ ProgramDepth'
    BY Advanced
  <1>2. /\ ListsOfNodes(open')
        /\ lists = <<>> => tree' # NoTree /\ open' = <<>>
        /\ lists # <<>> => tree' = NoTree /\ Len(open') = Len(lists)
    BY DeliverKeeps
  <1>3. W' = W
    BY TextStays
  <1>4. \A m \in 1 .. r : Depth(W, m) > 0
    BY DEF IInv, Reading, OpenDepth
  <1>5. Depth(W, r + 1) = Len(lists)
    OBVIOUS
  <1>6. lists # <<>> => Len(lists) > 0
    <2>1. lists \in Seq(Range(lists))
      BY DEF ListsOfNodes
    <2>. QED  BY <2>1
  <1>7. lists = <<>> => Len(lists) = 0
    OBVIOUS
  <1> HIDE DEF W, r
  <1>8. \A m \in 1 .. (r + 1) : m # r + 1 => m \in 1 .. r
    BY <1>1
  <1>9. OpenDepth'
    <2>1. lists # <<>> => /\ Depth(W', r') = Len(open')
                         /\ \A m \in 1 .. r' : Depth(W', m) > 0
      BY <1>1, <1>2, <1>3, <1>4, <1>5, <1>6, <1>8
    <2>. QED  BY <1>2, <2>1 DEF OpenDepth, W, r
  <1>10. TreeDepth'
    <2>1. TreeEnd' = r'
      BY DEF TreeEnd, r
    <2>2. lists = <<>> => /\ r' \in 1 .. Len(W') /\ Depth(W', r') = 0
                         /\ \A m \in 1 .. (r' - 1) : Depth(W', m) > 0
      BY <1>1, <1>3, <1>4, <1>5, <1>7
    <2>. QED  BY <1>2, <2>1, <2>2 DEF TreeDepth, W
  <1>11. Stopped'
    BY DEF Stopped
  <1>12. text' \in Texts /\ status' = "parse"
    BY DEF IInv
  <1>. QED  BY <1>1, <1>2, <1>9, <1>10, <1>11, <1>12 DEF IInv, Reading

(* The program as the lexer made it.                                       *)
LEMMA InitIInv == Init => IInv
  BY NoNodes DEF Init, IInv

(* The brackets around it.                                                 *)
LEMMA PreprocessKeeps == IInv /\ Preprocess => IInv'
  <1> SUFFICES ASSUME IInv, Preprocess PROVE IInv'
    OBVIOUS
  <1> DEFINE W == Wrap(text)
  <1>1. /\ text \in Texts /\ text' = text /\ tokens' = W /\ status' = "parse"
        /\ tree' = NoTree /\ open' = <<>>
    BY DEF IInv, Preprocess
  <1>2. W \in Seq(Alphabet) /\ Len(W) \in Nat /\ W # <<>>
    BY <1>1, Wrapped
  <1>3. W' = W /\ Alphabet' = Alphabet /\ Program' = Program
    BY <1>1, TextStays
  <1>4. Depth(W, 0) = 0
    BY DepthZero
  <1> HIDE DEF W
  <1>5. ReadSoFar' = 0
    BY <1>1, <1>2, <1>3 DEF ReadSoFar, W
  <1>6. TokensLeft'
    <2>1. \A i \in 1 .. Len(tokens') : tokens'[i] = W'[ReadSoFar' + i]
      BY <1>1, <1>2, <1>3, <1>5
    <2>. QED  BY <1>1, <1>2, <1>3, <2>1 DEF TokensLeft, W
  <1>7. OpenDepth'
    <2>1. Depth(W', ReadSoFar') = Len(open') /\ \A m \in 1 .. ReadSoFar' : Depth(W', m) > 0
      BY <1>1, <1>3, <1>4, <1>5
    <2>. QED  BY <2>1 DEF OpenDepth, W
  <1>8. TreeDepth' /\ Stopped'
    BY <1>1 DEF TreeDepth, Stopped
  <1>9. ProgramDepth'
    BY <1>5 DEF ProgramDepth
  <1>. QED  BY <1>1, <1>6, <1>7, <1>8, <1>9, NoNodes DEF IInv, Reading

(* An atom.                                                                *)
LEMMA ParseAtomKeeps == IInv /\ ParseAtom => IInv'
  <1> SUFFICES ASSUME IInv, ParseAtom PROVE IInv'
    OBVIOUS
  <1>1. /\ status = "parse" /\ tree = NoTree /\ Current.type \in AtomTypes
        /\ Deliver(Atom(Current), open) /\ AdvanceToken /\ UNCHANGED <<text, status>>
    BY DEF ParseAtom, Wanted
  <1>2. Current.type \notin {"(", ")", "eof"}
    BY <1>1 DEF AtomTypes
  <1>3. Atom(Current).type \in NodeTypes
    BY <1>1 DEF Atom, AtomTypes, NodeTypes, List
  <1>4. ListsOfNodes(open)
    BY DEF IInv
  <1>5. Depth(Wrap(text), ReadSoFar + 1) = Len(open)
    BY <1>1, <1>2, Advanced
  <1>. QED  BY <1>1, <1>2, <1>3, <1>4, <1>5, NodeRead

(* The beginning of a list.                                                *)
LEMMA OpenPairKeeps == IInv /\ OpenPair => IInv'
  <1> SUFFICES ASSUME IInv, OpenPair PROVE IInv'
    OBVIOUS
  <1> DEFINE W == Wrap(text)
             r == ReadSoFar
  <1>1. /\ status = "parse" /\ tree = NoTree /\ Current.type = "("
        /\ open' = Append(open, <<>>) /\ AdvanceToken /\ UNCHANGED <<text, tree, status>>
    BY DEF OpenPair, Wanted
  <1>2. /\ r \in Nat /\ r' = r + 1 /\ TokensLeft' /\ ProgramDepth'
        /\ Depth(W, r + 1) = Len(open) + 1
    BY <1>1, Advanced
  <1>3. ListsOfNodes(open') /\ Len(open') = Len(open) + 1 /\ open' # <<>>
    BY <1>1, OpenedNodes DEF IInv
  <1>4. W' = W
    BY <1>1, TextStays
  <1>5. (\A m \in 1 .. r : Depth(W, m) > 0) /\ Len(open) \in Nat
    BY <1>1 DEF IInv, Reading, OpenDepth, ListsOfNodes
  <1> HIDE DEF W, r
  <1>6. \A m \in 1 .. (r + 1) : m # r + 1 => m \in 1 .. r
    BY <1>2
  <1>7. OpenDepth'
    <2>1. Depth(W', r') = Len(open') /\ \A m \in 1 .. r' : Depth(W', m) > 0
      BY <1>2, <1>3, <1>4, <1>5, <1>6
    <2>. QED  BY <2>1 DEF OpenDepth, W, r
  <1>8. TreeDepth' /\ Stopped'
    BY <1>1 DEF TreeDepth, Stopped
  <1>. QED  BY <1>1, <1>2, <1>3, <1>7, <1>8 DEF IInv, Reading

(* The end of a list.                                                      *)
LEMMA ClosePairKeeps == IInv /\ ClosePair => IInv'
  <1> SUFFICES ASSUME IInv, ClosePair PROVE IInv'
    OBVIOUS
  <1>1. /\ status = "parse" /\ tree = NoTree /\ Current.type = ")" /\ open # <<>>
        /\ Deliver(List(Last(open)), Front(open)) /\ AdvanceToken
        /\ UNCHANGED <<text, status>>
    BY DEF ClosePair, Wanted
  <1>2. List(Last(open)).type \in NodeTypes
    BY DEF List, NodeTypes
  <1>3. ListsOfNodes(Front(open)) /\ Len(Front(open)) = Len(open) - 1
    BY <1>1, OuterNodes DEF IInv
  <1>4. Depth(Wrap(text), ReadSoFar + 1) = Len(open) - 1
    BY <1>1, Advanced
  <1>. QED  BY <1>1, <1>2, <1>3, <1>4, NodeRead
(* The end behind the tree.                                                *)
LEMMA ExpectEofKeeps == IInv /\ ExpectEof => IInv'
  <1> SUFFICES ASSUME IInv, ExpectEof PROVE IInv'
    OBVIOUS
  <1> DEFINE W == Wrap(text)
             N == Len(W)
             r == ReadSoFar
  <1>1. /\ status = "parse" /\ tree # NoTree /\ Current.type = "eof"
        /\ tokens' = Tail(tokens) /\ status' = "done" /\ UNCHANGED <<text, open, tree>>
    BY DEF ExpectEof, AdvanceToken
  <1>2. text \in Texts /\ TokensLeft /\ TreeDepth /\ ProgramDepth
    BY <1>1 DEF IInv, Reading
  <1>3. Len(Program) \in Nat /\ N = Len(Program) + 8
    <2>1. Program \in Seq(Alphabet) /\ N = Len(Program) + 8
      BY <1>2, Wrapped
    <2>. QED  BY <2>1
  <1>4. /\ tokens \in Seq(Alphabet) /\ tokens # <<>> /\ Len(tokens) <= N
        /\ \A i \in 1 .. Len(tokens) : tokens[i] = W[r + i]
        /\ r = N - Len(tokens)
    BY <1>1, <1>2 DEF TokensLeft, ReadSoFar
  <1>5. W' = W /\ Alphabet' = Alphabet /\ Program' = Program
    BY <1>1, TextStays
  <1>6. r' = N - Len(tokens')
    BY <1>5 DEF ReadSoFar
  <1>7. /\ TreeEnd = r /\ r \in 1 .. N /\ Depth(W, r) = 0
        /\ \A m \in 1 .. (r - 1) : Depth(W, m) > 0
    BY <1>1, <1>2 DEF TreeDepth, TreeEnd
  <1> HIDE DEF W, N, r
  <1>8. Len(tokens) \in Nat \ {0} /\ Current = tokens[1]
    BY <1>4 DEF Current
  <1>9. r + 1 = N
    <2>1. r + 1 \in 1 .. N /\ W[r + 1].type = "eof"
      BY <1>1, <1>3, <1>4, <1>8
    <2>. QED  BY <1>2, <2>1, EndIsLast DEF W, N
  <1>10. tokens' = <<>> /\ Len(tokens') = 0
    <2>1. Len(tokens) = 1
      <3>1. N \in Nat /\ Len(tokens) \in Nat /\ r = N - Len(tokens) /\ r + 1 = N
        BY <1>3, <1>4, <1>8, <1>9
      <3>. QED  BY ONLY <3>1
    <2>2. Len(Tail(tokens)) = 0 /\ Tail(tokens) \in Seq(Alphabet)
      BY <2>1, <1>4, HeadTailProperties
    <2>. QED  BY <1>1, <2>2, EmptySeq
  <1>11. r' = N /\ TreeEnd' = r
    <2>1. r' = N
      BY <1>3, <1>6, <1>10
    <2>2. TreeEnd' = r' - 1
      BY <1>1 DEF TreeEnd, r
    <2>. QED  BY <1>3, <1>7, <1>9, <2>1, <2>2
  <1>12. TokensLeft'
    <2>1. tokens' \in Seq(Alphabet') /\ Len(tokens') <= Len(W')
      BY <1>3, <1>5, <1>10 DEF N
    <2>2. \A i \in 1 .. Len(tokens') : tokens'[i] = W'[r' + i]
      BY <1>10
    <2>. QED  BY <1>1, <1>10, <2>1, <2>2 DEF TokensLeft, W, r
  <1>13. OpenDepth' /\ Stopped'
    BY <1>1 DEF OpenDepth, Stopped
  <1>14. TreeDepth'
    BY <1>5, <1>7, <1>11 DEF TreeDepth, W, N
  <1>15. ProgramDepth'
    <2>1. \A m \in 5 .. N : m <= Len(Program) + 5 => m \in 5 .. r
      BY <1>3, <1>7, <1>9
    <2>2. \A m \in 5 .. N :
            m <= Len(Program) + 5 => Depth(W, m) = 2 + Depth(Program, m - 5)
      BY <1>2, <2>1 DEF ProgramDepth, W, r
    <2>. QED  BY <1>5, <1>11, <2>2 DEF ProgramDepth, W, r
  <1>16. text' \in Texts /\ ListsOfNodes(open') /\ (tree' # NoTree => open' = <<>>)
    BY <1>1 DEF IInv
  <1>. QED  BY <1>1, <1>12, <1>13, <1>14, <1>15, <1>16 DEF IInv, Reading

(* A token that cannot stand where it does.                                *)
LEMMA UnexpectedTokenKeeps == IInv /\ UnexpectedToken => IInv'
  <1> SUFFICES ASSUME IInv, UnexpectedToken PROVE IInv'
    OBVIOUS
  <1>1. /\ status = "parse" /\ status' = "unexpected"
        /\ UNCHANGED <<text, tokens, open, tree>>
        /\ \/ tree = NoTree /\ Current.type = "eof"
           \/ tree = NoTree /\ Current.type = ")" /\ open = <<>>
           \/ tree # NoTree /\ Current.type # "eof"
    BY DEF UnexpectedToken, Misplaced, Wanted
  <1>2. Reading
    BY <1>1 DEF IInv
  <1>3. /\ Wrap(text)' = Wrap(text) /\ Alphabet' = Alphabet /\ Program' = Program
        /\ ReadSoFar' = ReadSoFar /\ TreeEnd' = TreeEnd
    BY <1>1, TextStays DEF ReadSoFar, TreeEnd
  <1>4. TokensLeft' /\ OpenDepth' /\ TreeDepth' /\ ProgramDepth'
    BY <1>1, <1>2, <1>3 DEF Reading, TokensLeft, OpenDepth, TreeDepth, ProgramDepth
  <1>5. Stopped'
    BY <1>1 DEF Stopped, Current
  <1>. QED  BY <1>1, <1>4, <1>5 DEF IInv, Reading

(* Nothing happens.                                                        *)
LEMMA StutterKeeps == IInv /\ UNCHANGED vars => IInv'
  <1> SUFFICES ASSUME IInv, UNCHANGED vars PROVE IInv'
    OBVIOUS
  <1>1. UNCHANGED <<text, tokens, open, tree, status>>
    BY DEF vars
  <1>2. /\ Wrap(text)' = Wrap(text) /\ Alphabet' = Alphabet /\ Program' = Program
        /\ ReadSoFar' = ReadSoFar /\ TreeEnd' = TreeEnd
    BY <1>1, TextStays DEF ReadSoFar, TreeEnd
  <1>3. Reading => Reading'
    BY <1>1, <1>2 DEF Reading, TokensLeft, OpenDepth, TreeDepth, ProgramDepth, Stopped, Current
  <1>. QED  BY <1>1, <1>3 DEF IInv

(* Every step of the parser keeps the invariant.                           *)
LEMMA NextKeeps == ASSUME IInv, [Next]_vars PROVE IInv'
  BY PreprocessKeeps, ParseAtomKeeps, OpenPairKeeps, ClosePairKeeps, ExpectEofKeeps,
     UnexpectedTokenKeeps, StutterKeeps
     DEF Next, Step, Ended

(* The invariant holds in every state, for every set of token lists.       *)
THEOREM Invariance == Spec => []IInv
  <1>1. IInv /\ [Next]_vars => IInv'
    BY NextKeeps
  <1>. QED  BY InitIInv, <1>1, PTL DEF Spec

-----------------------------------------------------------------------------
(* What it says about the brackets of a program.                           *)

(* The depths behind the program, once the tokens there have been read.    *)
LEMMA TailDepths ==
  ASSUME text \in Texts, ProgramDepth, ReadSoFar \in Nat, ReadSoFar >= Len(Program) + 5
  PROVE  LET W == Wrap(text)
             L == Len(Program)
         IN /\ Depth(Program, L) \in Int
            /\ Depth(W, L + 6) = 1 + Depth(Program, L)
            /\ Depth(W, L + 7) = Depth(Program, L)
            /\ Depth(W, L + 8) = Depth(Program, L)
  <1> DEFINE W == Wrap(text)
             L == Len(Program)
  <1>1. L \in Nat /\ W[L + 6] = RightParen /\ W[L + 7] = RightParen
    <2>1. Program \in Seq(Alphabet)
      BY Wrapped
    <2>. QED  BY <2>1, Wrapped
  <1>2. W[L + 8].type = "eof"
    <2>1. Len(W) = L + 8
      BY Wrapped
    <2>2. L + 8 \in 1 .. Len(W)
      BY <1>1, <2>1
    <2>. QED  BY <2>1, <2>2, EndIsLast
  <1>3. RightParen.type = ")"
    BY DEF RightParen, Mark
  <1>4. Depth(W, L + 5) = 2 + Depth(Program, L)
    <2>1. L + 5 \in 5 .. ReadSoFar /\ L + 5 <= L + 5 /\ (L + 5) - 5 = L
      BY <1>1
    <2>. QED  BY <2>1 DEF ProgramDepth
  <1> HIDE DEF W, L
  <1>5. Depth(Program, L) \in Int
    BY <1>1, DepthStep
  <1>6. Depth(W, (L + 5) + 1) = Depth(W, L + 5) - 1
    <2>1. W[(L + 5) + 1].type = ")"
      BY <1>1, <1>3
    <2>. QED  BY <1>1, <2>1, DepthStep
  <1>7. Depth(W, (L + 6) + 1) = Depth(W, L + 6) - 1
    <2>1. W[(L + 6) + 1].type = ")"
      BY <1>1, <1>3
    <2>. QED  BY <1>1, <2>1, DepthStep
  <1>8. Depth(W, (L + 7) + 1) = Depth(W, L + 7)
    <2>1. W[(L + 7) + 1].type \notin {"(", ")"}
      BY <1>1, <1>2
    <2>. QED  BY <1>1, <2>1, DepthStep
  <1>9. (L + 5) + 1 = L + 6 /\ (L + 6) + 1 = L + 7 /\ (L + 7) + 1 = L + 8
    BY <1>1
  <1>10. /\ Depth(W, L + 6) = 1 + Depth(Program, L)
         /\ Depth(W, L + 7) = Depth(Program, L) /\ Depth(W, L + 8) = Depth(Program, L)
    BY <1>4, <1>5, <1>6, <1>7, <1>8, <1>9
  <1>. QED  BY <1>5, <1>10 DEF W, L
(* Where the parser stopped, and what the depths are up to there.          *)
LEMMA StopsAt ==
  ASSUME IInv, status \in {"done", "unexpected"}
  PROVE  LET N == Len(Wrap(text))
             D(m) == Depth(Wrap(text), m)
         IN /\ status = "done" =>
                 ReadSoFar = N /\ D(N - 1) = 0 /\ \A m \in 1 .. (N - 2) : D(m) > 0
            /\ status = "unexpected" =>
                 \/ /\ ReadSoFar \in 1 .. (N - 2) /\ D(ReadSoFar) = 0
                    /\ \A m \in 1 .. (ReadSoFar - 1) : D(m) > 0
                 \/ ReadSoFar = N - 1 /\ \A m \in 1 .. (N - 1) : D(m) > 0
  <1> DEFINE W == Wrap(text)
             N == Len(W)
             D(m) == Depth(W, m)
             r == ReadSoFar
  <1>1. text \in Texts /\ Reading
    BY DEF IInv
  <1>2. /\ W \in Seq(Alphabet) /\ N \in Nat \ {0} /\ W[1].type = "("
    BY <1>1, Wrapped DEF LeftParen, Mark
  <1>3. /\ tokens \in Seq(Alphabet) /\ Len(tokens) <= N /\ r = N - Len(tokens)
        /\ \A i \in 1 .. Len(tokens) : tokens[i] = W[r + i]
        /\ tokens = <<>> <=> status = "done"
    BY <1>1 DEF Reading, TokensLeft, ReadSoFar
  <1>4. /\ tree = NoTree => D(r) = Len(open) /\ \A m \in 1 .. r : D(m) > 0
        /\ tree # NoTree => /\ TreeEnd \in 1 .. N /\ D(TreeEnd) = 0
                            /\ \A m \in 1 .. (TreeEnd - 1) : D(m) > 0
    BY <1>1 DEF Reading, OpenDepth, TreeDepth
  <1>5. \A i \in 1 .. N : W[i].type = "eof" <=> i = N
    BY <1>1, EndIsLast
  <1> HIDE DEF W, N, D, r
  <1>6. CASE status = "done"
    <2>1. r = N /\ tree # NoTree /\ TreeEnd = r - 1
      BY <1>1, <1>2, <1>3, <1>6 DEF Reading, Stopped, TreeEnd, r
    <2>2. TreeEnd = N - 1 /\ (N - 1) - 1 = N - 2
      BY <1>2, <2>1
    <2>3. D(N - 1) = 0 /\ \A m \in 1 .. (N - 2) : D(m) > 0
      BY <1>4, <2>1, <2>2
    <2>. QED  BY <1>6, <2>1, <2>3 DEF W, N, D, r
  <1>7. CASE status = "unexpected"
    <2>1. Len(tokens) \in Nat \ {0} /\ Current = W[r + 1] /\ r + 1 \in 1 .. N /\ r \in Nat
      BY <1>2, <1>3, <1>7 DEF Current
    <2>2. \/ tree = NoTree /\ Current.type = "eof"
          \/ tree = NoTree /\ Current.type = ")" /\ open = <<>>
          \/ tree # NoTree /\ Current.type # "eof"
      BY <1>1, <1>7 DEF Reading, Stopped
    <2>3. CASE tree # NoTree
      <3>1. r + 1 # N /\ TreeEnd = r
        BY <1>5, <1>7, <2>1, <2>2, <2>3 DEF TreeEnd, r
      <3>2. r \in 1 .. (N - 2) /\ D(r) = 0 /\ \A m \in 1 .. (r - 1) : D(m) > 0
        BY <1>2, <1>4, <2>1, <2>3, <3>1
      <3>. QED  BY <1>7, <3>2 DEF W, N, D, r
    <2>4. CASE tree = NoTree
      <3>1. (\A m \in 1 .. r : D(m) > 0) /\ D(r) = Len(open)
        BY <1>4, <2>4
      <3>2. Current.type = "eof"
        <4>1. ASSUME Current.type # "eof" PROVE FALSE
          <5>1. open = <<>> /\ Current.type = ")"
            BY <2>2, <2>4, <4>1
          <5>2. D(r) = 0
            BY <3>1, <5>1
          <5>3. r = 0
            <6>1. r # 0 => r \in 1 .. r
              BY <2>1
            <6>. QED  BY <3>1, <5>2, <6>1
          <5>4. Current.type = "("
            BY <1>2, <2>1, <5>3
          <5>. QED  BY <5>1, <5>4
        <4>. QED  BY <4>1
      <3>3. r = N - 1
        BY <1>2, <1>5, <2>1, <3>2
      <3>4. \A m \in 1 .. (N - 1) : D(m) > 0
        BY <3>1, <3>3
      <3>. QED  BY <1>7, <3>3, <3>4 DEF W, N, D, r
    <2>. QED  BY <2>3, <2>4
  <1>. QED  BY <1>6, <1>7

(* A program is accepted exactly if its brackets balance, or do but for    *)
(* one closing bracket too many at times.                                  *)
LEMMA AcceptedByIInv == IInv => AcceptedExactly
  <1> SUFFICES ASSUME IInv PROVE AcceptedExactly
    OBVIOUS
  <1> DEFINE L == Len(Program)
             N == Len(Wrap(text))
             D(m) == Depth(Wrap(text), m)
             P(k) == Depth(Program, k)
  <1>1. text \in Texts /\ L \in Nat /\ N = L + 8
    <2>1. text \in Texts
      BY DEF IInv
    <2>2. Program \in Seq(Alphabet) /\ N = L + 8
      BY <2>1, Wrapped
    <2>. QED  BY <2>1, <2>2
  <1>2. \A k \in Nat : P(k) \in Int
    BY DepthStep
  <1>3. D(1) = 1 /\ D(2) = 2 /\ D(3) = 2 /\ D(4) = 3 /\ D(5) = 2
    BY <1>1, HeadDepths
  <1>4. status # "start" =>
          \A m \in 5 .. ReadSoFar : m <= L + 5 => D(m) = 2 + P(m - 5)
    BY DEF IInv, Reading, ProgramDepth
  <1>5. ASSUME status # "start", ReadSoFar \in Nat, ReadSoFar >= L + 5
        PROVE  D(L + 6) = 1 + P(L) /\ D(L + 7) = P(L)
    <2>1. ProgramDepth
      BY <1>5 DEF IInv, Reading
    <2>. QED  BY <1>1, <1>5, <2>1, TailDepths
  <1>6. ClosesAbove(Program, -1) <=> P(L) = 0 /\ \A n \in 1 .. L : P(n) >= -1
    BY DEF ClosesAbove
  <1>7. status = "done" =>
          ReadSoFar = N /\ D(N - 1) = 0 /\ \A m \in 1 .. (N - 2) : D(m) > 0
    BY StopsAt
  <1>8. status = "unexpected" =>
          \/ /\ ReadSoFar \in 1 .. (N - 2) /\ D(ReadSoFar) = 0
             /\ \A m \in 1 .. (ReadSoFar - 1) : D(m) > 0
          \/ ReadSoFar = N - 1 /\ \A m \in 1 .. (N - 1) : D(m) > 0
    BY StopsAt
  <1> HIDE DEF L, N, D, P
  <1>9. status = "done" => ClosesAbove(Program, -1)
    <2> SUFFICES ASSUME status = "done" PROVE P(L) = 0 /\ \A n \in 1 .. L : P(n) >= -1
      BY <1>6
    <2>1. ReadSoFar \in Nat /\ ReadSoFar = L + 8 /\ N - 1 = L + 7 /\ N - 2 = L + 6
      BY <1>1, <1>7
    <2>2. P(L) = 0
      BY <1>1, <1>5, <1>7, <2>1
    <2>3. ASSUME NEW n \in 1 .. L PROVE P(n) >= -1
      <3>1. n + 5 \in 5 .. ReadSoFar /\ n + 5 <= L + 5 /\ n + 5 \in 1 .. (N - 2)
            /\ (n + 5) - 5 = n /\ n \in Nat
        BY <1>1, <2>1
      <3>2. D(n + 5) = 2 + P(n) /\ D(n + 5) > 0
        BY <1>4, <1>7, <3>1
      <3>. QED  BY <1>2, <3>1, <3>2
    <2>. QED  BY <2>2, <2>3
  <1>10. status = "unexpected" => ~ClosesAbove(Program, -1)
    <2> SUFFICES ASSUME status = "unexpected",
                        P(L) = 0, \A n \in 1 .. L : P(n) >= -1
                 PROVE  FALSE
      BY <1>6
    <2>1. CASE ReadSoFar = N - 1 /\ \A m \in 1 .. (N - 1) : D(m) > 0
      <3>1. ReadSoFar \in Nat /\ ReadSoFar >= L + 5 /\ L + 7 \in 1 .. (N - 1)
        BY <1>1, <2>1
      <3>2. D(L + 7) = 0 /\ D(L + 7) > 0
        BY <1>5, <2>1, <3>1
      <3>. QED  BY <3>2
    <2>2. CASE ReadSoFar \in 1 .. (N - 2) /\ D(ReadSoFar) = 0
      <3>1. ReadSoFar \in Nat /\ ReadSoFar > 5
        BY <1>1, <1>3, <2>2
      <3>2. CASE ReadSoFar <= L + 5
        <4>1. PICK k \in 1 .. L : k = ReadSoFar - 5
          BY <1>1, <3>1, <3>2
        <4>2. D(ReadSoFar) = 2 + P(k)
          BY <1>4, <3>1, <3>2, <4>1
        <4>3. P(k) \in Int /\ P(k) >= -1
          BY <1>2, <4>1
        <4>. QED  BY <2>2, <4>2, <4>3
      <3>3. CASE ReadSoFar > L + 5
        <4>1. ReadSoFar = L + 6
          BY <1>1, <2>2, <3>1, <3>3
        <4>2. D(L + 6) = 1
          BY <1>1, <1>5, <3>1, <3>3
        <4>. QED  BY <2>2, <4>1, <4>2
      <3>. QED  BY <1>1, <3>1, <3>2, <3>3
    <2>. QED  BY <1>8, <2>1, <2>2
  <1>. QED  BY <1>9, <1>10 DEF AcceptedExactly
(* The least element of a set is the only one.                             *)
LEMMA LeastIsMin ==
  ASSUME NEW S, S \subseteq Int, NEW m \in S, \A x \in S : m <= x
  PROVE  Min(S) = m
  <1>1. \A n \in S : (\A x \in S : n <= x) => n = m
    <2> TAKE n \in S
    <2>. QED  BY n <= m /\ m <= n => n = m
  <1>. QED  BY <1>1 DEF Min

(* The message shows the token at which the parser stopped.                *)
LEMMA BlamedByIInv == IInv => BlamesFirstMisfit
  <1> SUFFICES ASSUME IInv, status = "unexpected" PROVE BlamesFirstMisfit
    BY DEF BlamesFirstMisfit
  <1> DEFINE W == Wrap(text)
             N == Len(W)
             D(m) == Depth(W, m)
             r == ReadSoFar
             closed == {n \in 1 .. N : D(n) = 0}
  <1>1. text \in Texts /\ Reading
    BY DEF IInv
  <1>2. W \in Seq(Alphabet) /\ N \in Nat /\ N > 5
    <2>1. Program \in Seq(Alphabet) /\ N = Len(Program) + 8 /\ W \in Seq(Alphabet)
      BY <1>1, Wrapped
    <2>. QED  BY <2>1
  <1>3. /\ tokens \in Seq(Alphabet) /\ Len(tokens) <= N /\ r = N - Len(tokens)
        /\ \A i \in 1 .. Len(tokens) : tokens[i] = W[r + i]
    BY <1>1 DEF Reading, TokensLeft, ReadSoFar
  <1>4. \/ r \in 1 .. (N - 2) /\ D(r) = 0 /\ \A m \in 1 .. (r - 1) : D(m) > 0
        \/ r = N - 1 /\ \A m \in 1 .. (N - 1) : D(m) > 0
    BY StopsAt
  <1>5. /\ D(N - 1) \in Int
        /\ W[(N - 1) + 1].type \notin {"(", ")"} => D((N - 1) + 1) = D(N - 1)
    BY <1>2, DepthStep
  <1>6. W[N].type = "eof" /\ (N - 1) + 1 = N
    BY <1>1, <1>2, EndIsLast
  <1> HIDE DEF D, r, N, W
  <1>7. D(N) = D(N - 1)
    BY <1>5, <1>6
  <1> DEFINE S == closed \cup {N - 1}
  <1>8. S \subseteq Int
    BY <1>2
  <1>9. r \in S /\ \A x \in S : r <= x
    <2>1. CASE r \in 1 .. (N - 2) /\ D(r) = 0 /\ \A m \in 1 .. (r - 1) : D(m) > 0
      <3>1. r \in closed
        BY <1>2, <2>1
      <3>2. ASSUME NEW x \in closed PROVE r <= x
        <4>1. x \in 1 .. N /\ D(x) = 0 /\ r \in Int
          BY <2>1
        <4>2. x < r => x \in 1 .. (r - 1)
          BY <4>1
        <4>. QED  BY <2>1, <4>1, <4>2
      <3>3. r <= N - 1
        BY <1>2, <2>1
      <3>. QED  BY <3>1, <3>2, <3>3
    <2>2. CASE r = N - 1 /\ \A m \in 1 .. (N - 1) : D(m) > 0
      <3>1. closed = {}
        <4>1. N - 1 \in 1 .. (N - 1)
          BY <1>2
        <4>2. D(N) > 0
          BY <1>7, <2>2, <4>1
        <4>3. \A n \in 1 .. N : n = N \/ n \in 1 .. (N - 1)
          BY <1>2
        <4>. QED  BY <2>2, <4>2, <4>3
      <3>. QED  BY <1>2, <2>2, <3>1
    <2>. QED  BY <1>4, <2>1, <2>2
  <1>10. Min(S) = r
    BY <1>8, <1>9, LeastIsMin
  <1>11. tokens = SubSeq(W, r + 1, N)
    <2>1. r \in Int /\ N \in Int /\ r + 1 >= 1 /\ Len(tokens) = N - r /\ Len(tokens) \in Nat
      BY <1>2, <1>3
    <2>2. \A i \in (r + 1) .. N : W[i] \in Alphabet
      BY <1>2, <2>1 DEF N
    <2> DEFINE s == SubSeq(W, r + 1, N)
    <2>3. /\ s \in Seq(Alphabet)
          /\ Len(s) = IF r + 1 <= N THEN N - (r + 1) + 1 ELSE 0
          /\ \A i \in 1 .. (N - (r + 1) + 1) : s[i] = W[(r + 1) + i - 1]
      BY <2>1, <2>2, SubSeqProperties
    <2> HIDE DEF s
    <2>4. Len(s) = Len(tokens)
      BY <2>1, <2>3
    <2>5. ASSUME NEW i \in 1 .. Len(s) PROVE s[i] = tokens[i]
      <3>1. i \in 1 .. (N - (r + 1) + 1) /\ (r + 1) + i - 1 = r + i /\ i \in 1 .. Len(tokens)
        BY <2>1, <2>4
      <3>. QED  BY <1>3, <2>3, <3>1
    <2>6. s = tokens
      BY <1>3, <2>3, <2>4, <2>5, SeqEqual
    <2>. QED  BY <2>6 DEF s
  <1>. QED  BY <1>10, <1>11 DEF BlamesFirstMisfit, W, N, D

(* There is a token to look at until the parser is done.                   *)
LEMMA TypedByIInv == IInv => TypeOK
  <1> SUFFICES ASSUME IInv PROVE TypeOK
    OBVIOUS
  <1>1. ASSUME status # "done" PROVE tokens # <<>> /\ Last(tokens).type = "eof"
    <2>1. text \in Texts
      BY DEF IInv
    <2>2. CASE status = "start"
      <3>1. tokens = text /\ text # <<>> /\ text \in Seq(Range(text))
        BY <2>1, <2>2, TextsAssumption DEF IInv
      <3>2. Len(text) \in 1 .. Len(text)
        BY <3>1, EmptySeq
      <3>3. text[Len(text)].type = "eof"
        BY <2>1, <3>2, TextsAssumption
      <3>. QED  BY <3>1, <3>3 DEF Last
    <2>3. CASE status # "start"
      <3> DEFINE W == Wrap(text)
                 N == Len(W)
                 n == Len(tokens)
      <3>1. /\ tokens \in Seq(Alphabet) /\ tokens # <<>> /\ Len(tokens) <= N
            /\ \A i \in 1 .. n : tokens[i] = W[(N - n) + i]
        BY <1>1, <2>3 DEF IInv, Reading, TokensLeft, ReadSoFar
      <3>2. N \in Nat /\ n \in Nat \ {0} /\ (N - n) + n = N /\ n \in 1 .. n /\ N \in 1 .. N
        <4>1. W \in Seq(Alphabet)
          BY <2>1, Wrapped
        <4>2. N \in Nat /\ n \in Nat /\ n # 0
          BY <3>1, <4>1, EmptySeq
        <4>. QED  BY <3>1, <4>2
      <3>3. tokens[n] = W[N]
        BY <3>1, <3>2
      <3>4. W[N].type = "eof"
        BY <2>1, <3>2, EndIsLast
      <3>. QED  BY <3>1, <3>3, <3>4 DEF Last
    <2>. QED  BY <2>2, <2>3
  <1>2. \A i \in 1 .. Len(open) : \A x \in Range(open[i]) :
           x.type \in {"string", "integer", "numeric", "identifier", "list"}
    BY DEF IInv, ListsOfNodes, NodeList, NodeTypes
  <1>. QED  BY <1>1, <1>2 DEF IInv, TypeOK

(* The parser never looks past the last token, and builds nodes only.      *)
THEOREM TypeCorrect == Spec => []TypeOK
  BY Invariance, TypedByIInv, PTL

(* The programs that preprocessor and parser accept are those whose        *)
(* brackets balance, or do but for one closing bracket too many at times.  *)
THEOREM AcceptsExactly == Spec => []AcceptedExactly
  BY Invariance, AcceptedByIInv, PTL

(* An error message shows the first token behind a list that was closed    *)
(* too early, or the end if a list is never closed.                        *)
THEOREM BlamesMisfit == Spec => []BlamesFirstMisfit
  BY Invariance, BlamedByIInv, PTL

-----------------------------------------------------------------------------
(* The data that tokens spell.                                             *)

(* What holds of a number if it holds of all larger ones up to n, holds of *)
(* all numbers up to n.                                                    *)
LEMMA FromTheEnd ==
  ASSUME NEW n \in Nat, NEW good,
         \A i \in 1 .. n : (\A j \in (i + 1) .. n : j \in good) => i \in good
  PROVE  1 .. n \subseteq good
  <1> SUFFICES ASSUME NEW bad \in 1 .. n, bad \notin good  PROVE FALSE
    OBVIOUS
  <1> DEFINE R == OpToRel(<, Nat)
             U == {k \in 0 .. n : n - k \in 1 .. n /\ n - k \notin good}
  <1>1. \A i, j \in Nat : <<i, j>> \in R <=> i < j
    BY DEF OpToRel
  <1>2. IsWellFoundedOn(R, Nat)
    BY NatLessThanWellFounded
  <1>3. n - bad \in U
    <2>1. n - bad \in 0 .. n /\ n - (n - bad) = bad
      OBVIOUS
    <2>. QED  BY <2>1
  <1>4. U \subseteq Nat
    OBVIOUS
  <1> HIDE DEF R
  <1>5. PICK k \in U : \A u \in U : ~ (<<u, k>> \in R)
    <2> HIDE DEF U
    <2>. QED  BY <1>2, <1>3, <1>4, WFMin
  <1>6. k \in 0 .. n /\ n - k \in 1 .. n /\ n - k \notin good
    BY <1>5
  <1>7. ASSUME NEW j \in ((n - k) + 1) .. n  PROVE j \in good
    <2>1. n - j \in Nat /\ n - j < k /\ k \in Nat /\ n - j \in 0 .. n
      BY <1>6
    <2>2. n - j \notin U
      BY <1>1, <1>5, <2>1
    <2>3. n - (n - j) = j /\ j \in 1 .. n
      BY <1>6
    <2>. QED  BY <2>1, <2>2, <2>3
  <1>. QED  BY <1>6, <1>7

(* What is spelled from a place on, if f has what is from all later ones.  *)
SpelledAt(ts, f, i) ==
  IF i > Len(ts) THEN [data |-> <<>>, end |-> Len(ts) + 1]
  ELSE IF ts[i].type = ")" THEN [data |-> <<>>, end |-> i]
  ELSE IF ts[i].type = "("
  THEN [data |-> <<List(f[i + 1].data)>> \o f[f[i + 1].end + 1].data,
        end |-> f[f[i + 1].end + 1].end]
  ELSE [data |-> <<Atom(ts[i])>> \o f[i + 1].data, end |-> f[i + 1].end]

From(ts) == CHOOSE f : f = [i \in 1 .. (Len(ts) + 2) |-> SpelledAt(ts, f, i)]

(* The data of a text are those from its first place on.                   *)
LEMMA SpelledFrom ==
  ASSUME NEW ts
  PROVE  Spelled(ts) = From(ts)[1]
  BY Zenon DEF Spelled, From, SpelledAt

(* A sequence of data, and where it ends: not before it begins.            *)
Rest(ts, r, i) ==
  /\ r.data \in Seq(Range(r.data))
  /\ r.end \in 1 .. (Len(ts) + 1) /\ (r.end >= i \/ r.end = Len(ts) + 1)

(* One more in front of a sequence.                                        *)
LEMMA InFront ==
  ASSUME NEW x, NEW d, d \in Seq(Range(d))
  PROVE  <<x>> \o d \in Seq(Range(<<x>> \o d)) /\ <<x>> \o d # <<>>
  <1> DEFINE S == Range(d) \cup {x}
  <1>1. <<x>> \in Seq(S)
    OBVIOUS
  <1>2. d \in Seq(S)
    <2>1. d = [i \in 1 .. Len(d) |-> d[i]] /\ Len(d) \in Nat
      OBVIOUS
    <2>2. \A i \in 1 .. Len(d) : d[i] \in S
      OBVIOUS
    <2> HIDE DEF S
    <2>. QED  BY <2>1, <2>2
  <1> HIDE DEF S
  <1>3. <<x>> \o d \in Seq(S) /\ Len(<<x>> \o d) = 1 + Len(d)
    BY <1>1, <1>2, ConcatProperties
  <1>4. <<x>> \o d # <<>>
    <2>1. Len(d) \in Nat /\ Len(<<>>) = 0
      OBVIOUS
    <2>. QED  BY <1>3, <2>1
  <1>. QED  BY <1>3, <1>4, OverItsRange

(* What is spelled at a place depends on later places only.                *)
LEMMA SpelledAtFacts ==
  ASSUME NEW ts, Len(ts) \in Nat, NEW f, NEW i \in 1 .. (Len(ts) + 2),
         \A j \in (i + 1) .. (Len(ts) + 2) : Rest(ts, f[j], j)
  PROVE  /\ Rest(ts, SpelledAt(ts, f, i), i)
         /\ \A g : (\A j \in (i + 1) .. (Len(ts) + 2) : f[j] = g[j]) =>
              SpelledAt(ts, f, i) = SpelledAt(ts, g, i)
  <1> DEFINE n == Len(ts) + 2
             r == SpelledAt(ts, f, i)
  <1>1. <<>> \in Seq(Range(<<>>))
    OBVIOUS
  <1>2. CASE i > Len(ts)
    <2>1. r = [data |-> <<>>, end |-> Len(ts) + 1]
      BY <1>2 DEF SpelledAt
    <2>2. r.data = <<>> /\ r.end = Len(ts) + 1
      BY <2>1
    <2>3. Rest(ts, r, i)
      <3> HIDE DEF r
      <3>. QED  BY <1>1, <2>2 DEF Rest
    <2>. QED  BY <1>2, <2>3 DEF SpelledAt
  <1>3. CASE i <= Len(ts) /\ ts[i].type = ")"
    <2>1. r = [data |-> <<>>, end |-> i]
      BY <1>3 DEF SpelledAt
    <2>2. r.data = <<>> /\ r.end = i
      BY <2>1
    <2>3. Rest(ts, r, i)
      <3> HIDE DEF r
      <3>. QED  BY <1>1, <1>3, <2>2 DEF Rest
    <2>. QED  BY <1>3, <2>3 DEF SpelledAt
  <1>4. CASE i <= Len(ts) /\ ts[i].type = "("
    <2>1. i + 1 \in (i + 1) .. n /\ i + 1 <= Len(ts) + 1
      BY <1>4
    <2>2. PICK e : e = f[i + 1].end
      OBVIOUS
    <2>3. e \in (i + 1) .. (Len(ts) + 1) /\ e + 1 \in (i + 1) .. n
      BY <2>1, <2>2 DEF Rest
    <2>4. PICK q : q = f[e + 1]
      OBVIOUS
    <2>5. Rest(ts, q, e + 1)
      BY <2>3, <2>4
    <2>6. r = [data |-> <<List(f[i + 1].data)>> \o q.data, end |-> q.end]
      BY <1>4, <2>2, <2>4 DEF SpelledAt
    <2>7. r.data = <<List(f[i + 1].data)>> \o q.data /\ r.end = q.end
      BY <2>6
    <2>8. q.data \in Seq(Range(q.data)) /\ q.end \in 1 .. (Len(ts) + 1)
      BY <2>5 DEF Rest
    <2>9. q.end >= i
      <3>1. CASE e <= Len(ts)
        BY <2>3, <2>5, <3>1 DEF Rest
      <3>2. CASE e = Len(ts) + 1
        <4>1. q.end \in 1 .. (Len(ts) + 1)
          BY <2>8
        <4>. QED  BY <2>3, <2>5, <3>2, <4>1 DEF Rest
      <3>. QED  BY <2>3, <3>1, <3>2
    <2>10. r.data \in Seq(Range(r.data))
      <3> HIDE DEF r
      <3>. QED  BY <2>7, <2>8, InFront
    <2>11. Rest(ts, r, i)
      <3> HIDE DEF r
      <3>. QED  BY <2>7, <2>8, <2>9, <2>10 DEF Rest
    <2>12. ASSUME NEW g, \A j \in (i + 1) .. n : f[j] = g[j]
           PROVE  r = SpelledAt(ts, g, i)
      <3>1. g[i + 1] = f[i + 1] /\ g[e + 1] = q
        BY <2>1, <2>3, <2>4, <2>12
      <3>. QED  BY <1>4, <2>2, <2>6, <3>1 DEF SpelledAt
    <2>. QED  BY <2>11, <2>12
  <1>5. CASE i <= Len(ts) /\ ts[i].type \notin {"(", ")"}
    <2>1. i + 1 \in (i + 1) .. n /\ i + 1 <= Len(ts) + 1
      BY <1>5
    <2>2. PICK q : q = f[i + 1]
      OBVIOUS
    <2>3. r = [data |-> <<Atom(ts[i])>> \o q.data, end |-> q.end]
      BY <1>5, <2>2 DEF SpelledAt
    <2>4. r.data = <<Atom(ts[i])>> \o q.data /\ r.end = q.end
      BY <2>3
    <2>5. q.data \in Seq(Range(q.data)) /\ q.end \in 1 .. (Len(ts) + 1) /\ q.end >= i
      BY <2>1, <2>2 DEF Rest
    <2>6. r.data \in Seq(Range(r.data))
      <3> HIDE DEF r
      <3>. QED  BY <2>4, <2>5, InFront
    <2>7. Rest(ts, r, i)
      <3> HIDE DEF r
      <3>. QED  BY <2>4, <2>5, <2>6 DEF Rest
    <2>8. ASSUME NEW g, \A j \in (i + 1) .. n : f[j] = g[j]
           PROVE  r = SpelledAt(ts, g, i)
      <3>1. g[i + 1] = q
        BY <2>1, <2>2, <2>8
      <3>. QED  BY <1>5, <2>3, <3>1 DEF SpelledAt
    <2>. QED  BY <2>7, <2>8
  <1>. QED  BY <1>2, <1>3, <1>4, <1>5

(* There is a function that has at each place what is spelled there.       *)
LEMMA FromExists ==
  ASSUME NEW ts, Len(ts) \in Nat
  PROVE  \A i \in 1 .. (Len(ts) + 2) :
           /\ From(ts)[i] = SpelledAt(ts, From(ts), i)
           /\ Rest(ts, From(ts)[i], i)
  <1> DEFINE n == Len(ts) + 2
             D == 1 .. n
             Follows(f, k) ==
               /\ f = [i \in D |-> f[i]]
               /\ \A i \in k .. n : f[i] = SpelledAt(ts, f, i) /\ Rest(ts, f[i], i)
             good == {k \in 1 .. (n + 1) : \E f : Follows(f, k)}
  <1>1. n + 1 \in good
    <2>1. PICK f : f = [i \in D |-> 0]
      OBVIOUS
    <2>2. f = [i \in D |-> f[i]] /\ (n + 1) .. n = {} /\ n + 1 \in 1 .. (n + 1)
      BY <2>1
    <2>. QED  BY <2>2
  <1>2. ASSUME NEW k \in 1 .. n, k + 1 \in good  PROVE k \in good
    <2>1. PICK f : Follows(f, k + 1)
      BY <1>2
    <2>2. PICK v : v = SpelledAt(ts, f, k)
      OBVIOUS
    <2>3. PICK g : g = [i \in D |-> IF i = k THEN v ELSE f[i]]
      OBVIOUS
    <2>4. g = [i \in D |-> g[i]] /\ g[k] = v /\ \A i \in D : i # k => g[i] = f[i]
      BY <2>3
    <2>5. ASSUME NEW i \in k .. n  PROVE g[i] = SpelledAt(ts, g, i) /\ Rest(ts, g[i], i)
      <3>1. i \in D /\ \A j \in (i + 1) .. n : j \in D /\ j # k /\ j \in (k + 1) .. n
        OBVIOUS
      <3>2. \A j \in (i + 1) .. n : f[j] = g[j] /\ Rest(ts, f[j], j)
        BY <2>1, <2>4, <3>1
      <3>3. Rest(ts, SpelledAt(ts, f, i), i) /\ SpelledAt(ts, f, i) = SpelledAt(ts, g, i)
        BY <3>1, <3>2, SpelledAtFacts
      <3>4. CASE i = k
        BY <2>2, <2>4, <3>3, <3>4
      <3>5. CASE i # k
        <4>1. i \in (k + 1) .. n
          BY <3>5
        <4>2. f[i] = SpelledAt(ts, f, i) /\ g[i] = f[i]
          BY <2>1, <2>4, <3>1, <3>5, <4>1
        <4>. QED  BY <3>3, <4>2
      <3>. QED  BY <3>4, <3>5
    <2>6. Follows(g, k) /\ k \in 1 .. (n + 1)
      BY <2>4, <2>5
    <2> HIDE DEF Follows
    <2>. QED  BY <2>6
  <1>3. 1 .. (n + 1) \subseteq good
    <2>1. n + 1 \in Nat
      OBVIOUS
    <2>2. ASSUME NEW i \in 1 .. (n + 1), \A j \in (i + 1) .. (n + 1) : j \in good
          PROVE  i \in good
      <3>1. i = n + 1 \/ (i \in 1 .. n /\ i + 1 \in (i + 1) .. (n + 1))
        OBVIOUS
      <3> HIDE DEF n, good
      <3>. QED  BY <1>1, <1>2, <2>2, <3>1
    <2> HIDE DEF n, good
    <2>. QED  BY <2>1, <2>2, FromTheEnd
  <1>4. PICK f : Follows(f, 1)
    <2>1. 1 \in 1 .. (n + 1)
      OBVIOUS
    <2>. QED  BY <1>3, <2>1
  <1>5. f = [i \in D |-> SpelledAt(ts, f, i)]
    BY <1>4
  <1>6. From(ts) = [i \in D |-> SpelledAt(ts, From(ts), i)]
    BY <1>5 DEF From
  <1>7. \A i \in D : From(ts)[i] = SpelledAt(ts, From(ts), i)
    <2> HIDE DEF n
    <2>. QED  BY <1>6
  <1> DEFINE sound == {i \in D : Rest(ts, From(ts)[i], i)}
  <1>8. D \subseteq sound
    <2>1. ASSUME NEW i \in D, \A j \in (i + 1) .. n : j \in sound  PROVE i \in sound
      <3>1. \A j \in (i + 1) .. n : Rest(ts, From(ts)[j], j)
        BY <2>1
      <3>2. Rest(ts, SpelledAt(ts, From(ts), i), i)
        BY <3>1, SpelledAtFacts
      <3>. QED  BY <1>7, <3>2
    <2>2. n \in Nat
      OBVIOUS
    <2> HIDE DEF n, sound
    <2>. QED  BY <2>1, <2>2, FromTheEnd
  <1>. QED  BY <1>7, <1>8

(* What is spelled at the end, at a closing bracket, at an opening one and *)
(* at another token.                                                       *)
LEMMA FromFacts ==
  ASSUME NEW ts, Len(ts) \in Nat
  PROVE  LET F == From(ts)
         IN /\ \A i \in 1 .. (Len(ts) + 2) : Rest(ts, F[i], i)
            /\ \A i \in {Len(ts) + 1, Len(ts) + 2} :
                 F[i].data = <<>> /\ F[i].end = Len(ts) + 1
            /\ \A i \in 1 .. Len(ts) :
                 /\ ts[i].type = ")" => F[i].data = <<>> /\ F[i].end = i
                 /\ ts[i].type = "(" =>
                      /\ F[i].data = <<List(F[i + 1].data)>> \o F[F[i + 1].end + 1].data
                      /\ F[i].end = F[F[i + 1].end + 1].end
                 /\ ts[i].type \notin {"(", ")"} =>
                      /\ F[i].data = <<Atom(ts[i])>> \o F[i + 1].data
                      /\ F[i].end = F[i + 1].end
  <1>1. PICK f : f = From(ts)
    OBVIOUS
  <1>2. \A i \in 1 .. (Len(ts) + 2) : f[i] = SpelledAt(ts, f, i) /\ Rest(ts, f[i], i)
    BY <1>1, FromExists
  <1>3. ASSUME NEW i \in {Len(ts) + 1, Len(ts) + 2}
        PROVE  f[i].data = <<>> /\ f[i].end = Len(ts) + 1
    <2>1. i \in 1 .. (Len(ts) + 2) /\ i > Len(ts)
      OBVIOUS
    <2>2. f[i] = [data |-> <<>>, end |-> Len(ts) + 1]
      BY <1>2, <2>1 DEF SpelledAt
    <2>. QED  BY <2>2
  <1>4. ASSUME NEW i \in 1 .. Len(ts), ts[i].type = ")"
        PROVE  f[i].data = <<>> /\ f[i].end = i
    <2>1. i \in 1 .. (Len(ts) + 2) /\ ~(i > Len(ts))
      OBVIOUS
    <2>2. f[i] = [data |-> <<>>, end |-> i]
      BY <1>2, <1>4, <2>1 DEF SpelledAt
    <2>. QED  BY <2>2
  <1>5. ASSUME NEW i \in 1 .. Len(ts), ts[i].type = "("
        PROVE  /\ f[i].data = <<List(f[i + 1].data)>> \o f[f[i + 1].end + 1].data
               /\ f[i].end = f[f[i + 1].end + 1].end
    <2>1. i \in 1 .. (Len(ts) + 2) /\ ~(i > Len(ts))
      OBVIOUS
    <2>2. f[i] = [data |-> <<List(f[i + 1].data)>> \o f[f[i + 1].end + 1].data,
                  end |-> f[f[i + 1].end + 1].end]
      BY <1>2, <1>5, <2>1 DEF SpelledAt
    <2>. QED  BY <2>2
  <1>6. ASSUME NEW i \in 1 .. Len(ts), ts[i].type \notin {"(", ")"}
        PROVE  /\ f[i].data = <<Atom(ts[i])>> \o f[i + 1].data
               /\ f[i].end = f[i + 1].end
    <2>1. i \in 1 .. (Len(ts) + 2) /\ ~(i > Len(ts))
      OBVIOUS
    <2>2. f[i] = [data |-> <<Atom(ts[i])>> \o f[i + 1].data, end |-> f[i + 1].end]
      BY <1>2, <1>6, <2>1 DEF SpelledAt
    <2>. QED  BY <2>2
  <1>. QED  BY <1>1, <1>2, <1>3, <1>4, <1>5, <1>6

(* The tokens of a sequence of data never close more lists than they open, *)
(* and behind them is the bracket that closes the list around them.        *)
Nested(ts, i) ==
  LET e == From(ts)[i].end
  IN /\ \A j \in (i - 1) .. (e - 1) : Depth(ts, j) >= Depth(ts, i - 1)
     /\ e <= Len(ts) => ts[e].type = ")" /\ Depth(ts, e - 1) = Depth(ts, i - 1)

(* Wherever the reading of a sequence starts, it ends at such a place.     *)
LEMMA StaysOpen ==
  ASSUME NEW ts, Len(ts) \in Nat
  PROVE  \A i \in 1 .. (Len(ts) + 1) : Nested(ts, i)
  <1> DEFINE n == Len(ts) + 1
             good == {i \in 1 .. n : Nested(ts, i)}
             F == From(ts)
             D(j) == Depth(ts, j)
  <1>1. \A i \in 1 .. (Len(ts) + 2) : F[i].end \in 1 .. n /\ (F[i].end >= i \/ F[i].end = n)
    BY FromFacts DEF Rest
  <1>2. \A j \in Nat : D(j) \in Int
    BY DepthStep
  <1>3. ASSUME NEW i \in 1 .. n, \A j \in (i + 1) .. n : j \in good  PROVE i \in good
    <2>1. PICK e : e = F[i].end
      OBVIOUS
    <2>2. e \in i .. n
      BY <1>1, <2>1
    <2>3. (i - 1) + 1 = i /\ i - 1 \in Nat
      OBVIOUS
    <2>4. /\ ts[i].type = "(" => D(i) = D(i - 1) + 1
          /\ ts[i].type \notin {"(", ")"} => D(i) = D(i - 1)
      BY <2>3, DepthStep
    <2>5. D(i - 1) \in Int /\ D(i) \in Int
      BY <1>2, <2>3
    <2>6. ASSUME \A j \in (i - 1) .. (e - 1) : D(j) >= D(i - 1),
                 e <= Len(ts) => ts[e].type = ")" /\ D(e - 1) = D(i - 1)
          PROVE  i \in good
      BY <2>1, <2>6 DEF Nested
    <2>7. CASE i = n
      <3>1. e = n /\ \A j \in (i - 1) .. (e - 1) : j = i - 1
        BY <2>2, <2>7
      <3>2. \A j \in (i - 1) .. (e - 1) : D(j) >= D(i - 1)
        BY <2>5, <3>1
      <3> HIDE DEF D, good
      <3>. QED  BY <2>6, <3>1, <3>2
    <2>8. CASE i # n /\ ts[i].type = ")"
      <3>1. i \in 1 .. Len(ts)
        BY <2>8
      <3>2. e = i
        BY <2>1, <2>8, <3>1, FromFacts
      <3>3. \A j \in (i - 1) .. (e - 1) : j = i - 1
        BY <3>2
      <3>4. \A j \in (i - 1) .. (e - 1) : D(j) >= D(i - 1)
        BY <2>5, <3>3
      <3>5. ts[e].type = ")" /\ D(e - 1) = D(i - 1)
        BY <2>8, <3>2
      <3> HIDE DEF D, good
      <3>. QED  BY <2>6, <3>4, <3>5
    <2>9. CASE i # n /\ ts[i].type = "("
      <3>1. i \in 1 .. Len(ts) /\ i + 1 \in (i + 1) .. n
        BY <2>9
      <3>2. PICK m : m = F[i + 1].end
        OBVIOUS
      <3>3. e = F[m + 1].end
        BY <2>1, <2>9, <3>1, <3>2, FromFacts
      <3>4. m \in (i + 1) .. n
        BY <1>1, <3>1, <3>2
      <3>5. /\ \A j \in i .. (m - 1) : D(j) >= D(i)
            /\ m <= Len(ts) => ts[m].type = ")" /\ D(m - 1) = D(i)
        <4>1. Nested(ts, i + 1) /\ (i + 1) - 1 = i
          BY <1>3, <3>1
        <4>. QED  BY <3>2, <4>1 DEF Nested
      <3>6. D(i) = D(i - 1) + 1
        BY <2>4, <2>9
      <3>7. CASE m = n
        <4>1. e = n
          <5>1. m + 1 \in {Len(ts) + 1, Len(ts) + 2}
            BY <3>7
          <5>. QED  BY <3>3, <5>1, FromFacts
        <4>2. ASSUME NEW j \in (i - 1) .. (e - 1)  PROVE D(j) >= D(i - 1)
          <5>1. j = i - 1 \/ (j \in i .. (m - 1) /\ j \in Nat)
            BY <3>7, <4>1
          <5>2. CASE j = i - 1
            BY <2>5, <5>2
          <5>3. CASE j \in i .. (m - 1) /\ j \in Nat
            <6>1. D(j) \in Int /\ D(j) >= D(i)
              BY <1>2, <3>5, <5>3
            <6> HIDE DEF D
            <6>. QED  BY <2>5, <3>6, <6>1
          <5>. QED  BY <5>1, <5>2, <5>3
        <4>3. ~(e <= Len(ts))
          BY <4>1
        <4> HIDE DEF D, good
        <4>. QED  BY <2>6, <4>2, <4>3
      <3>8. CASE m # n
        <4>1. m \in 1 .. Len(ts) /\ m + 1 \in (i + 1) .. n /\ (m - 1) + 1 = m /\ m - 1 \in Nat
          BY <3>4, <3>8
        <4>2. D(m) = D(m - 1) - 1
          BY <3>5, <4>1, DepthStep
        <4>3. D(m) = D(i - 1)
          <5> HIDE DEF D
          <5>. QED  BY <2>5, <3>5, <3>6, <4>1, <4>2
        <4>4. /\ \A j \in m .. (e - 1) : D(j) >= D(m)
              /\ e <= Len(ts) => ts[e].type = ")" /\ D(e - 1) = D(m)
          <5>1. Nested(ts, m + 1) /\ (m + 1) - 1 = m
            BY <1>3, <4>1
          <5>. QED  BY <3>3, <5>1 DEF Nested
        <4>5. ASSUME NEW j \in (i - 1) .. (e - 1)  PROVE D(j) >= D(i - 1)
          <5>1. j \in Nat /\ (j = i - 1 \/ j \in i .. (m - 1) \/ j \in m .. (e - 1))
            BY <4>1
          <5>2. CASE j = i - 1
            BY <2>5, <5>2
          <5>3. CASE j \in i .. (m - 1)
            <6>1. D(j) \in Int /\ D(j) >= D(i)
              BY <1>2, <3>5, <5>1, <5>3
            <6> HIDE DEF D
            <6>. QED  BY <2>5, <3>6, <6>1
          <5>4. CASE j \in m .. (e - 1)
            <6> HIDE DEF D
            <6>. QED  BY <4>3, <4>4, <5>4
          <5>. QED  BY <5>1, <5>2, <5>3, <5>4
        <4>6. e <= Len(ts) => ts[e].type = ")" /\ D(e - 1) = D(i - 1)
          BY <4>3, <4>4
        <4> HIDE DEF D, good
        <4>. QED  BY <2>6, <4>5, <4>6
      <3>. QED  BY <3>7, <3>8
    <2>10. CASE i # n /\ ts[i].type \notin {"(", ")"}
      <3>1. i \in 1 .. Len(ts) /\ i + 1 \in (i + 1) .. n
        BY <2>10
      <3>2. e = F[i + 1].end
        BY <2>1, <2>10, <3>1, FromFacts
      <3>3. D(i) = D(i - 1)
        BY <2>4, <2>10
      <3>4. /\ \A j \in i .. (e - 1) : D(j) >= D(i)
            /\ e <= Len(ts) => ts[e].type = ")" /\ D(e - 1) = D(i)
        <4>1. Nested(ts, i + 1) /\ (i + 1) - 1 = i
          BY <1>3, <3>1
        <4>. QED  BY <3>2, <4>1 DEF Nested
      <3>5. ASSUME NEW j \in (i - 1) .. (e - 1)  PROVE D(j) >= D(i - 1)
        <4>1. j = i - 1 \/ j \in i .. (e - 1)
          OBVIOUS
        <4> HIDE DEF D
        <4>. QED  BY <2>5, <3>3, <3>4, <4>1
      <3>6. e <= Len(ts) => ts[e].type = ")" /\ D(e - 1) = D(i - 1)
        BY <3>3, <3>4
      <3> HIDE DEF D, good
      <3>. QED  BY <2>6, <3>5, <3>6
    <2>. QED  BY <2>7, <2>8, <2>9, <2>10
  <1>4. n \in Nat
    OBVIOUS
  <1>5. 1 .. n \subseteq good
    <2> HIDE DEF n, good
    <2>. QED  BY <1>3, <1>4, FromTheEnd
  <1>. QED  BY <1>5

-----------------------------------------------------------------------------
(* The tree that is read is the one that the tokens spell.                 *)

(* The wrapped tokens without the end behind them.                         *)
LEMMA WrappingFacts ==
  ASSUME text \in Texts
  PROVE  /\ Wrapping \in Seq(Alphabet) /\ Len(Program) \in Nat
         /\ Len(Wrapping) = Len(Program) + 7 /\ Len(Wrap(text)) = Len(Wrapping) + 1
         /\ \A i \in 1 .. Len(Wrapping) : Wrapping[i] = Wrap(text)[i]
  <1> DEFINE l == Last(text)
             A == Alphabet \cup {l}
  <1>1. Wrap(text) = Wrapping \o <<l>>
    BY DEF Wrap, Wrapping, WrapTail, Program
  <1>2. Program \in Seq(Alphabet) /\ Len(Wrap(text)) = Len(Program) + 8
    BY Wrapped
  <1>3. Wrapping \in Seq(Alphabet)
    <2>1. LeftParen \in Alphabet /\ RightParen \in Alphabet /\ Identifier("lambda") \in Alphabet
      BY DEF Alphabet
    <2> DEFINE i == Identifier("lambda")
               h == WrapHead
               t == <<RightParen, RightParen>>
    <2>2. h \in Seq(Alphabet)
      <3>1. h = <<LeftParen, LeftParen, i, LeftParen, RightParen>>
        BY DEF WrapHead
      <3> HIDE DEF h, i
      <3>2. i \in Alphabet
        BY <2>1 DEF i
      <3>. QED  BY <2>1, <3>1, <3>2
    <2>3. t \in Seq(Alphabet)
      BY <2>1
    <2>4. Wrapping = (h \o Program) \o t
      BY DEF Wrapping
    <2> HIDE DEF h, t
    <2>5. h \o Program \in Seq(Alphabet)
      BY <1>2, <2>2, ConcatProperties
    <2>. QED  BY <2>3, <2>4, <2>5, ConcatProperties
  <1> HIDE DEF l
  <1>4. Wrapping \in Seq(A) /\ <<l>> \in Seq(A) /\ Len(<<l>>) = 1
    <2>1. l \in A /\ \A i \in 1 .. Len(Wrapping) : Wrapping[i] \in A
      BY <1>3
    <2>2. Wrapping = [i \in 1 .. Len(Wrapping) |-> Wrapping[i]] /\ Len(Wrapping) \in Nat
      BY <1>3
    <2> HIDE DEF A
    <2>. QED  BY <2>1, <2>2
  <1>5. /\ Len(Wrapping \o <<l>>) = Len(Wrapping) + 1
        /\ \A i \in 1 .. Len(Wrapping) : (Wrapping \o <<l>>)[i] = Wrapping[i]
    <2> HIDE DEF A
    <2>1. /\ Len(Wrapping \o <<l>>) = Len(Wrapping) + 1 /\ Len(Wrapping) \in Nat
          /\ \A i \in 1 .. (Len(Wrapping) + 1) : (Wrapping \o <<l>>)[i] =
               IF i <= Len(Wrapping) THEN Wrapping[i] ELSE <<l>>[i - Len(Wrapping)]
      BY <1>4, ConcatProperties
    <2>. QED  BY <2>1
  <1>6. Len(Program) \in Nat /\ Len(Wrapping) \in Nat
    BY <1>2, <1>3
  <1>. QED  BY <1>1, <1>2, <1>3, <1>5, <1>6

(* The elements of a list that is open, or the datum that has been read.   *)
Under(lists, root, k) == IF k = 0 THEN root ELSE lists[k]

(* With the data that are still to come in the innermost list, and where   *)
(* they end, all lists become what is spelled.                             *)
Completes(lists, root, data, end, L, c) ==
  LET F == From(Wrapping)
      m == Len(lists)
  IN /\ L[0] = F[1].data /\ c[0] = F[1].end
     /\ L[m] = Under(lists, root, m) \o data /\ c[m] = end
     /\ \A k \in 0 .. (m - 1) :
          /\ L[k] = Under(lists, root, k) \o (<<List(L[k + 1])>> \o F[c[k + 1] + 1].data)
          /\ c[k] = F[c[k + 1] + 1].end

Root(t) == IF t = NoTree THEN <<>> ELSE <<t>>

Continued ==
  status = "parse" =>
    LET rest == From(Wrapping)[ReadSoFar + 1]
    IN \E L, c : Completes(open, Root(tree), rest.data, rest.end, L, c)

(* One more element at the end of a sequence, or in front of the next.     *)
LEMMA AppendedInFront ==
  ASSUME NEW s, s \in Seq(Range(s)), NEW x, NEW d, d \in Seq(Range(d))
  PROVE  Append(s, x) \o d = s \o (<<x>> \o d)
  <1> DEFINE S == Range(s) \cup {x} \cup Range(d)
  <1>1. x \in S
    OBVIOUS
  <1>2. s \in Seq(S)
    <2>1. s = [i \in 1 .. Len(s) |-> s[i]] /\ Len(s) \in Nat /\ \A i \in 1 .. Len(s) : s[i] \in S
      OBVIOUS
    <2> HIDE DEF S
    <2>. QED  BY <2>1
  <1>3. d \in Seq(S)
    <2>1. d = [i \in 1 .. Len(d) |-> d[i]] /\ Len(d) \in Nat /\ \A i \in 1 .. Len(d) : d[i] \in S
      OBVIOUS
    <2> HIDE DEF S
    <2>. QED  BY <2>1
  <1> HIDE DEF S
  <1>4. Append(s, x) = s \o <<x>>
    BY <1>1, <1>2, AppendIsConcat
  <1>5. <<x>> \in Seq(S)
    BY <1>1
  <1>6. (s \o <<x>>) \o d = s \o (<<x>> \o d)
    BY <1>2, <1>3, <1>5, ConcatAssociative
  <1>. QED  BY <1>4, <1>6

(* A node that has been read is the first of those still to come.          *)
LEMMA DeliveredCompletes ==
  ASSUME NEW lists, ListsOfNodes(lists), NEW x, NEW d, d \in Seq(Range(d)), NEW e,
         NEW L, NEW c, NEW root, Completes(lists, root, <<x>> \o d, e, L, c)
  PROVE  /\ lists = <<>> /\ root = <<>> => Completes(lists, <<x>>, d, e, L, c)
         /\ lists # <<>> => Completes(Delivered(x, lists), root, d, e, L, c)
  <1> DEFINE m == Len(lists)
             F == From(Wrapping)
             S == Range(lists)
  <1>0. lists \in Seq(S) /\ m \in Nat
    BY DEF ListsOfNodes
  <1>1. /\ L[0] = F[1].data /\ c[0] = F[1].end
        /\ L[m] = Under(lists, root, m) \o (<<x>> \o d) /\ c[m] = e
        /\ \A k \in 0 .. (m - 1) :
             /\ L[k] = Under(lists, root, k) \o (<<List(L[k + 1])>> \o F[c[k + 1] + 1].data)
             /\ c[k] = F[c[k + 1] + 1].end
    BY DEF Completes
  <1> HIDE DEF F, S
  <1>2. ASSUME lists = <<>>, root = <<>>  PROVE Completes(lists, <<x>>, d, e, L, c)
    <2>1. m = 0 /\ 0 .. (m - 1) = {}
      BY <1>2
    <2>2. <<x>> \o d \in Seq(Range(<<x>> \o d))
      BY InFront
    <2>3. <<>> \o (<<x>> \o d) = <<x>> \o d
      BY <2>2, ConcatEmptySeq
    <2>4. Under(lists, root, m) = <<>> /\ Under(lists, <<x>>, m) = <<x>>
      BY <1>2, <2>1 DEF Under
    <2>5. L[m] = Under(lists, <<x>>, m) \o d
      BY <1>1, <2>3, <2>4
    <2>. QED  BY <1>1, <2>1, <2>5 DEF Completes, F
  <1>3. ASSUME lists # <<>>  PROVE Completes(Delivered(x, lists), root, d, e, L, c)
    <2> DEFINE new == Delivered(x, lists)
    <2>1. m \in 1 .. m
      BY <1>0, <1>3, EmptySeq
    <2>2. lists[m] \in Seq(Range(lists[m]))
      BY <2>1 DEF ListsOfNodes, NodeList
    <2>3. /\ Len(new) = m /\ new[m] = Append(lists[m], x)
          /\ \A k \in 1 .. (m - 1) : new[k] = lists[k]
      BY <1>0, <2>1 DEF Delivered
    <2> HIDE DEF new
    <2>4. Append(lists[m], x) \o d = lists[m] \o (<<x>> \o d)
      <3>1. PICK s : s = lists[m]
        OBVIOUS
      <3>2. s \in Seq(Range(s))
        BY <2>2, <3>1
      <3>3. Append(s, x) \o d = s \o (<<x>> \o d)
        BY ONLY <3>2, d \in Seq(Range(d)), AppendedInFront
      <3>. QED  BY <3>1, <3>3, Zenon
    <2>5. Under(lists, root, m) = lists[m] /\ Under(new, root, m) = new[m]
      BY <2>1 DEF Under
    <2>6. \A k \in 0 .. (m - 1) : Under(new, root, k) = Under(lists, root, k)
      <3> TAKE k \in 0 .. (m - 1)
      <3>1. k = 0 \/ k \in 1 .. (m - 1)
        OBVIOUS
      <3>. QED  BY <2>3, <3>1 DEF Under
    <2>7. L[m] = Under(new, root, m) \o d
      BY <1>1, <2>3, <2>4, <2>5
    <2> HIDE DEF m
    <2>8. Completes(new, root, d, e, L, c)
      BY <1>1, <2>3, <2>6, <2>7, Zenon DEF Completes, F
    <2>. QED  BY <2>8 DEF new
  <1>. QED  BY <1>2, <1>3

(* A list that is opened has yet to get all that is spelled up to its end. *)
LEMMA OpenedCompletes ==
  ASSUME NEW lists, ListsOfNodes(lists), NEW root, NEW inner, inner.data \in Seq(Range(inner.data)),
         NEW d, d = From(Wrapping)[inner.end + 1], NEW L, NEW c,
         Completes(lists, root, <<List(inner.data)>> \o d.data, d.end, L, c)
  PROVE  \E K, b : Completes(Append(lists, <<>>), root, inner.data, inner.end, K, b)
  <1> DEFINE m == Len(lists)
             F == From(Wrapping)
             new == Append(lists, <<>>)
  <1>1. lists \in Seq(Range(lists)) /\ m \in Nat
    BY DEF ListsOfNodes
  <1>2. Len(new) = m + 1 /\ new[m + 1] = <<>> /\ \A k \in 1 .. m : new[k] = lists[k]
    <2>1. lists = [i \in 1 .. m |-> lists[i]]
      BY <1>1
    <2>. QED  BY <1>1, <2>1
  <1> HIDE DEF new
  <1>3. /\ L[0] = F[1].data /\ c[0] = F[1].end
        /\ L[m] = Under(lists, root, m) \o (<<List(inner.data)>> \o d.data) /\ c[m] = d.end
        /\ \A k \in 0 .. (m - 1) :
             /\ L[k] = Under(lists, root, k) \o (<<List(L[k + 1])>> \o F[c[k + 1] + 1].data)
             /\ c[k] = F[c[k + 1] + 1].end
    BY DEF Completes
  <1>4. PICK K : K = [k \in 0 .. (m + 1) |-> IF k = m + 1 THEN inner.data ELSE L[k]]
    OBVIOUS
  <1>5. PICK b : b = [k \in 0 .. (m + 1) |-> IF k = m + 1 THEN inner.end ELSE c[k]]
    OBVIOUS
  <1>6. /\ K[m + 1] = inner.data /\ b[m + 1] = inner.end
        /\ \A k \in 0 .. m : K[k] = L[k] /\ b[k] = c[k]
    BY <1>1, <1>4, <1>5
  <1>7. d = F[inner.end + 1]
    OBVIOUS
  <1> HIDE DEF F
  <1>8. \A k \in 0 .. m : Under(new, root, k) = Under(lists, root, k)
    <2> TAKE k \in 0 .. m
    <2>1. k = 0 \/ k \in 1 .. m
      OBVIOUS
    <2>. QED  BY <1>2, <2>1 DEF Under
  <1>9. K[m + 1] = Under(new, root, m + 1) \o inner.data
    <2>1. Under(new, root, m + 1) = <<>>
      BY <1>1, <1>2 DEF Under
    <2>2. <<>> \o inner.data = inner.data
      BY ConcatEmptySeq
    <2>. QED  BY <1>6, <2>1, <2>2
  <1>10. ASSUME NEW k \in 0 .. m
         PROVE  /\ K[k] = Under(new, root, k) \o (<<List(K[k + 1])>> \o F[b[k + 1] + 1].data)
                /\ b[k] = F[b[k + 1] + 1].end
    <2>1. CASE k = m
      BY <1>3, <1>6, <1>7, <1>8, <2>1
    <2>2. CASE k # m
      <3>1. k \in 0 .. (m - 1) /\ k + 1 \in 0 .. m
        BY <1>1, <2>2
      <3>. QED  BY <1>3, <1>6, <1>8, <3>1
    <2>. QED  BY <2>1, <2>2
  <1>11. (m + 1) - 1 = m /\ K[0] = F[1].data /\ b[0] = F[1].end
    BY <1>1, <1>3, <1>6
  <1>12. Completes(new, root, inner.data, inner.end, K, b)
    <2> HIDE DEF m
    <2>. QED  BY <1>2, <1>6, <1>9, <1>10, <1>11, Zenon DEF Completes, F
  <1>. QED  BY <1>12 DEF new

(* A list that is closed is the first node still to come around it.        *)
LEMMA ClosedCompletes ==
  ASSUME NEW lists, ListsOfNodes(lists), lists # <<>>, NEW root, NEW e,
         NEW d, d = From(Wrapping)[e + 1], NEW L, NEW c,
         Completes(lists, root, <<>>, e, L, c)
  PROVE  Completes(Front(lists), root, <<List(Last(lists))>> \o d.data, d.end, L, c)
  <1> DEFINE m == Len(lists)
             F == From(Wrapping)
             outer == Front(lists)
  <1>1. lists \in Seq(Range(lists)) /\ m \in Nat \ {0}
    BY EmptySeq DEF ListsOfNodes
  <1>2. Len(outer) = m - 1 /\ \A k \in 1 .. (m - 1) : outer[k] = lists[k]
    <2>1. outer = SubSeq(lists, 1, m - 1)
      BY DEF Front
    <2>2. m - 1 \in Nat /\ m - 1 <= Len(lists)
      BY <1>1
    <2> HIDE DEF outer
    <2>. QED  BY <1>1, <2>1, <2>2, Prefix
  <1> HIDE DEF outer
  <1>3. /\ L[0] = F[1].data /\ c[0] = F[1].end
        /\ L[m] = Under(lists, root, m) \o <<>> /\ c[m] = e
        /\ \A k \in 0 .. (m - 1) :
             /\ L[k] = Under(lists, root, k) \o (<<List(L[k + 1])>> \o F[c[k + 1] + 1].data)
             /\ c[k] = F[c[k + 1] + 1].end
    BY DEF Completes
  <1>4. d = F[e + 1]
    OBVIOUS
  <1> HIDE DEF F
  <1>5. L[m] = Last(lists)
    <2>1. Under(lists, root, m) = lists[m] /\ Last(lists) = lists[m]
      BY <1>1 DEF Under, Last
    <2>2. lists[m] \in Seq(Range(lists[m]))
      BY <1>1 DEF ListsOfNodes, NodeList
    <2>3. lists[m] \o <<>> = lists[m]
      BY <2>2, ConcatEmptySeq
    <2>. QED  BY <1>3, <2>1, <2>3
  <1>6. \A k \in 0 .. (m - 1) : Under(outer, root, k) = Under(lists, root, k)
    <2> TAKE k \in 0 .. (m - 1)
    <2>1. k = 0 \/ k \in 1 .. (m - 1)
      OBVIOUS
    <2>. QED  BY <1>2, <2>1 DEF Under
  <1>7. /\ m - 1 \in 0 .. (m - 1) /\ (m - 1) + 1 = m
        /\ \A k \in 0 .. ((m - 1) - 1) : k \in 0 .. (m - 1)
    BY <1>1
  <1>8. /\ L[m - 1] = Under(outer, root, m - 1) \o (<<List(Last(lists))>> \o d.data)
        /\ c[m - 1] = d.end
    BY <1>3, <1>4, <1>5, <1>6, <1>7
  <1>9. \A k \in 0 .. ((m - 1) - 1) :
          /\ L[k] = Under(outer, root, k) \o (<<List(L[k + 1])>> \o F[c[k + 1] + 1].data)
          /\ c[k] = F[c[k + 1] + 1].end
    <2> HIDE DEF m
    <2>. QED  BY <1>3, <1>6, <1>7
  <1>10. Completes(outer, root, <<List(Last(lists))>> \o d.data, d.end, L, c)
    <2> HIDE DEF m
    <2>. QED  BY <1>2, <1>3, <1>8, <1>9, Zenon DEF Completes, F
  <1>. QED  BY <1>10 DEF outer

(* What is spelled does not change when the text does not.                 *)
LEMMA SpelledStays ==
  ASSUME text' = text
  PROVE  /\ Wrapping' = Wrapping /\ From(Wrapping)' = From(Wrapping)
         /\ (\E L, c : Completes(open, Root(tree), From(Wrapping)[ReadSoFar + 1].data,
                                 From(Wrapping)[ReadSoFar + 1].end, L, c))'
              <=> \E L, c : Completes(open', Root(tree'), From(Wrapping)[ReadSoFar' + 1].data,
                                      From(Wrapping)[ReadSoFar' + 1].end, L, c)
  <1>1. Wrapping' = Wrapping
    BY DEF Wrapping, Program
  <1>2. From(Wrapping)' = From(Wrapping)
    BY <1>1
  <1>. QED  BY <1>1, <1>2 DEF Completes, Under, Root

(* A token of the datum is read: which one it is, and what is to come.     *)
LEMMA NextSpelled ==
  ASSUME IInv, Continued, status = "parse", tree = NoTree, Current.type # "eof",
         AdvanceToken, UNCHANGED <<text, status>>
  PROVE  LET F == From(Wrapping)
             p == ReadSoFar + 1
         IN /\ p \in 1 .. Len(Wrapping) /\ Len(Wrapping) \in Nat
            /\ Wrapping[p] = Current /\ ReadSoFar' + 1 = p + 1
            /\ F[p + 1].data \in Seq(Range(F[p + 1].data))
            /\ ListsOfNodes(open)
            /\ \E L, c : Completes(open, <<>>, F[p].data, F[p].end, L, c)
  <1> DEFINE F == From(Wrapping)
             p == ReadSoFar + 1
             n == Len(Wrapping)
  <1>1. text \in Texts /\ ListsOfNodes(open)
    BY DEF IInv
  <1>2. /\ ReadSoFar \in Nat /\ ReadSoFar' = ReadSoFar + 1
        /\ p \in 1 .. Len(Wrap(text)) /\ Wrap(text)[p] = Current
    BY Advanced
  <1>3. /\ Wrapping \in Seq(Alphabet) /\ Len(Wrap(text)) = n + 1
        /\ \A i \in 1 .. n : Wrapping[i] = Wrap(text)[i]
    BY <1>1, WrappingFacts
  <1>4. n \in Nat
    BY <1>3
  <1>5. p # n + 1
    BY <1>1, <1>2, <1>3, EndIsLast
  <1>6. p \in 1 .. n /\ Wrapping[p] = Current /\ p + 1 \in 1 .. (n + 2)
    <2> HIDE DEF n, p
    <2>. QED  BY <1>2, <1>3, <1>4, <1>5
  <1>7. F[p + 1].data \in Seq(Range(F[p + 1].data))
    BY <1>4, <1>6, FromFacts DEF Rest
  <1>8. \E L, c : Completes(open, <<>>, F[p].data, F[p].end, L, c)
    BY Zenon DEF Continued, Root
  <1>. QED  BY <1>1, <1>2, <1>4, <1>6, <1>7, <1>8

(* A node that has been read goes where it is expected.                    *)
LEMMA DeliverContinues ==
  ASSUME tree = NoTree, text' = text, NEW x, x # NoTree,
         NEW lists, ListsOfNodes(lists), Deliver(x, lists),
         NEW r, r = From(Wrapping)[ReadSoFar' + 1], r.data \in Seq(Range(r.data)),
         NEW L, NEW c, Completes(lists, <<>>, <<x>> \o r.data, r.end, L, c)
  PROVE  Continued'
  <1>1. \E K, b : Completes(open', Root(tree'), r.data, r.end, K, b)
    <2>1. CASE lists = <<>>
      <3>1. tree' = x /\ open' = lists
        BY <2>1 DEF Deliver
      <3>2. Root(tree') = <<x>>
        BY <3>1, Zenon DEF Root
      <3>3. Completes(lists, <<x>>, r.data, r.end, L, c)
        BY <2>1, DeliveredCompletes
      <3>. QED  BY <3>1, <3>2, <3>3, Zenon
    <2>2. CASE lists # <<>>
      <3>1. tree' = NoTree /\ open' = Delivered(x, lists)
        BY <2>2 DEF Deliver
      <3>2. Root(tree') = <<>>
        BY <3>1, Zenon DEF Root
      <3>3. Completes(Delivered(x, lists), <<>>, r.data, r.end, L, c)
        BY <2>2, DeliveredCompletes
      <3>. QED  BY <3>1, <3>2, <3>3, Zenon
    <2>. QED  BY <2>1, <2>2
  <1>. QED  BY <1>1, SpelledStays, Zenon DEF Continued

(* Wrapping the tokens.                                                    *)
LEMMA PreprocessContinues == IInv /\ Preprocess => Continued'
  <1> SUFFICES ASSUME IInv, Preprocess  PROVE Continued'
    OBVIOUS
  <1> DEFINE F == From(Wrapping)
  <1>1. /\ tokens = text /\ tree' = NoTree /\ open' = <<>> /\ text' = text
        /\ tokens' = Wrap(text) /\ text \in Texts
    BY DEF IInv, Preprocess
  <1>2. Wrap(text)' = Wrap(text)
    BY <1>1, TextStays
  <1>3. ReadSoFar' + 1 = 1
    <2>1. Len(Wrap(text)) \in Nat
      BY <1>1, WrappingFacts
    <2>2. ReadSoFar' = Len(Wrap(text)) - Len(Wrap(text))
      BY <1>1, <1>2 DEF ReadSoFar
    <2>. QED  BY <2>1, <2>2
  <1>4. Root(tree') = <<>>
    BY <1>1 DEF Root
  <1>5. PICK f : f = F[1]
    OBVIOUS
  <1>6. f.data \in Seq(Range(f.data))
    <2>1. Len(Wrapping) \in Nat /\ 1 \in 1 .. (Len(Wrapping) + 2)
      BY <1>1, WrappingFacts
    <2>. QED  BY <1>5, <2>1, FromFacts DEF Rest
  <1>7. PICK L : L = [k \in {0} |-> f.data]
    OBVIOUS
  <1>8. PICK c : c = [k \in {0} |-> f.end]
    OBVIOUS
  <1>9. Completes(<<>>, <<>>, f.data, f.end, L, c)
    <2>1. Len(<<>>) = 0 /\ 0 .. (0 - 1) = {} /\ L[0] = f.data /\ c[0] = f.end
      BY <1>7, <1>8
    <2>2. <<>> \o f.data = f.data
      BY <1>6, ConcatEmptySeq
    <2>3. Under(<<>>, <<>>, 0) = <<>>
      BY DEF Under
    <2>4. /\ L[0] = F[1].data /\ c[0] = F[1].end
          /\ L[0] = Under(<<>>, <<>>, 0) \o f.data /\ c[0] = f.end
      BY <1>5, <2>1, <2>2, <2>3
    <2> HIDE DEF F
    <2>. QED  BY <2>1, <2>4 DEF Completes, F
  <1>. QED  BY <1>1, <1>3, <1>4, <1>5, <1>9, SpelledStays, Zenon DEF Continued

(* An atom.                                                                *)
LEMMA ParseAtomContinues == IInv /\ Continued /\ ParseAtom => Continued'
  <1> SUFFICES ASSUME IInv, Continued, ParseAtom  PROVE Continued'
    OBVIOUS
  <1> DEFINE F == From(Wrapping)
             p == ReadSoFar + 1
             x == Atom(Current)
  <1>1. /\ status = "parse" /\ tree = NoTree /\ Current.type \in AtomTypes
        /\ Deliver(x, open) /\ AdvanceToken /\ UNCHANGED <<text, status>>
    BY DEF ParseAtom, Wanted
  <1>2. Current.type \notin {"eof", "(", ")"}
    BY <1>1 DEF AtomTypes
  <1>3. /\ p \in 1 .. Len(Wrapping) /\ Len(Wrapping) \in Nat
        /\ Wrapping[p] = Current /\ ReadSoFar' + 1 = p + 1
        /\ F[p + 1].data \in Seq(Range(F[p + 1].data))
        /\ ListsOfNodes(open)
        /\ \E L, c : Completes(open, <<>>, F[p].data, F[p].end, L, c)
    BY <1>1, <1>2, NextSpelled
  <1>4. PICK r : r = F[p + 1]
    OBVIOUS
  <1>5. F[p].data = <<x>> \o r.data /\ F[p].end = r.end
    <2> HIDE DEF p
    <2>1. p \in 1 .. Len(Wrapping) /\ Wrapping[p].type \notin {"(", ")"}
      BY <1>2, <1>3
    <2>2. F[p].data = <<x>> \o F[p + 1].data /\ F[p].end = F[p + 1].end
      <3>1. x = Atom(Wrapping[p])
        BY <1>3
      <3> HIDE DEF x
      <3>. QED  BY <1>3, <2>1, <3>1, FromFacts
    <2>. QED  BY <1>4, <2>2, Zenon
  <1>6. x # NoTree
    <2>1. NoTree.type = "none" /\ List(<<>>).type = "list" /\ "none" \notin AtomTypes
      BY DEF NoTree, List, AtomTypes
    <2>2. x = List(<<>>) \/ x = Current
      BY DEF Atom
    <2>. QED  BY <1>1, <2>1, <2>2
  <1> HIDE DEF x, F
  <1>7. PICK L, c : Completes(open, <<>>, <<x>> \o r.data, r.end, L, c)
    BY <1>3, <1>5
  <1>8. r = From(Wrapping)[ReadSoFar' + 1] /\ r.data \in Seq(Range(r.data))
    BY <1>3, <1>4 DEF F
  <1>9. text' = text /\ tree = NoTree /\ Deliver(x, open) /\ ListsOfNodes(open)
    BY <1>1, <1>3
  <1>. QED  BY ONLY <1>6, <1>7, <1>8, <1>9, DeliverContinues

(* An opening bracket.                                                     *)
LEMMA OpenPairContinues == IInv /\ Continued /\ OpenPair => Continued'
  <1> SUFFICES ASSUME IInv, Continued, OpenPair  PROVE Continued'
    OBVIOUS
  <1> DEFINE F == From(Wrapping)
             p == ReadSoFar + 1
  <1>1. /\ status = "parse" /\ tree = NoTree /\ Current.type = "(" /\ tree' = tree
        /\ open' = Append(open, <<>>) /\ AdvanceToken /\ UNCHANGED <<text, status>>
    BY DEF OpenPair, Wanted
  <1>2. /\ p \in 1 .. Len(Wrapping) /\ Len(Wrapping) \in Nat
        /\ Wrapping[p] = Current /\ ReadSoFar' + 1 = p + 1
        /\ F[p + 1].data \in Seq(Range(F[p + 1].data))
        /\ ListsOfNodes(open)
        /\ \E L, c : Completes(open, <<>>, F[p].data, F[p].end, L, c)
    BY <1>1, NextSpelled
  <1>3. PICK r : r = F[p + 1]
    OBVIOUS
  <1>4. PICK d : d = F[r.end + 1]
    OBVIOUS
  <1>5. F[p].data = <<List(r.data)>> \o d.data /\ F[p].end = d.end
    <2> HIDE DEF p
    <2>1. p \in 1 .. Len(Wrapping) /\ Wrapping[p].type = "("
      BY <1>1, <1>2
    <2>2. /\ F[p].data = <<List(F[p + 1].data)>> \o F[F[p + 1].end + 1].data
          /\ F[p].end = F[F[p + 1].end + 1].end
      BY <1>2, <2>1, FromFacts
    <2>. QED  BY <1>3, <1>4, <2>2, Zenon
  <1>6. PICK L, c : Completes(open, <<>>, <<List(r.data)>> \o d.data, d.end, L, c)
    BY <1>2, <1>5
  <1>7. ListsOfNodes(open) /\ r.data \in Seq(Range(r.data))
    BY <1>2, <1>3
  <1>8. \E K, b : Completes(Append(open, <<>>), <<>>, r.data, r.end, K, b)
    BY ONLY <1>4, <1>6, <1>7, OpenedCompletes
  <1>9. Root(tree') = <<>>
    BY <1>1, Zenon DEF Root
  <1>10. \E K, b : Completes(open', Root(tree'), F[ReadSoFar' + 1].data,
                             F[ReadSoFar' + 1].end, K, b)
    <2> HIDE DEF F
    <2>. QED  BY <1>1, <1>2, <1>3, <1>8, <1>9, Zenon
  <1>. QED  BY <1>1, <1>10, SpelledStays, Zenon DEF Continued

(* A closing bracket.                                                      *)
LEMMA ClosePairContinues == IInv /\ Continued /\ ClosePair => Continued'
  <1> SUFFICES ASSUME IInv, Continued, ClosePair  PROVE Continued'
    OBVIOUS
  <1> DEFINE F == From(Wrapping)
             p == ReadSoFar + 1
             x == List(Last(open))
             outer == Front(open)
  <1>1. /\ status = "parse" /\ tree = NoTree /\ Current.type = ")" /\ open # <<>>
        /\ Deliver(x, outer) /\ AdvanceToken /\ UNCHANGED <<text, status>>
    BY DEF ClosePair, Wanted
  <1>2. /\ p \in 1 .. Len(Wrapping) /\ Len(Wrapping) \in Nat
        /\ Wrapping[p] = Current /\ ReadSoFar' + 1 = p + 1
        /\ F[p + 1].data \in Seq(Range(F[p + 1].data))
        /\ ListsOfNodes(open)
        /\ \E L, c : Completes(open, <<>>, F[p].data, F[p].end, L, c)
    BY <1>1, NextSpelled
  <1>3. PICK r : r = F[p + 1]
    OBVIOUS
  <1>4. F[p].data = <<>> /\ F[p].end = p
    <2> HIDE DEF p
    <2>. QED  BY <1>1, <1>2, FromFacts
  <1>5. PICK L, c : Completes(open, <<>>, <<>>, p, L, c)
    BY <1>2, <1>4
  <1>6. Completes(outer, <<>>, <<x>> \o r.data, r.end, L, c)
    <2>1. r = From(Wrapping)[p + 1] /\ ListsOfNodes(open) /\ open # <<>>
      BY <1>1, <1>2, <1>3
    <2>2. Completes(Front(open), <<>>, <<List(Last(open))>> \o r.data, r.end, L, c)
      BY ONLY <1>5, <2>1, ClosedCompletes
    <2>. QED  BY <2>2
  <1>7. x # NoTree
    BY DEF NoTree, List
  <1>8. ListsOfNodes(outer)
    BY <1>1, <1>2, OuterNodes
  <1>9. r = From(Wrapping)[ReadSoFar' + 1] /\ r.data \in Seq(Range(r.data))
    BY <1>2, <1>3
  <1>10. text' = text /\ tree = NoTree /\ Deliver(x, outer)
    BY <1>1
  <1> HIDE DEF x, outer
  <1>. QED  BY ONLY <1>6, <1>7, <1>8, <1>9, <1>10, DeliverContinues

(* The end behind the tree.                                                *)
LEMMA ExpectEofSpelled == IInv /\ Continued /\ ExpectEof => TreeOfText'
  <1> SUFFICES ASSUME IInv, Continued, ExpectEof  PROVE TreeOfText'
    OBVIOUS
  <1> DEFINE F == From(Wrapping)
             n == Len(Wrapping)
  <1>1. /\ status = "parse" /\ tree # NoTree /\ Current.type = "eof" /\ tree' = tree
        /\ text' = text
    BY DEF ExpectEof
  <1>2. text \in Texts /\ open = <<>> /\ TokensLeft
    BY <1>1 DEF IInv, Reading
  <1>3. /\ Wrapping \in Seq(Alphabet) /\ Len(Wrap(text)) = n + 1
    BY <1>2, WrappingFacts
  <1>4. n \in Nat
    BY <1>3
  <1>5. ReadSoFar + 1 = n + 1
    <2>1. /\ tokens \in Seq(Alphabet) /\ tokens # <<>> /\ Len(tokens) <= Len(Wrap(text))
          /\ tokens[1] = Wrap(text)[ReadSoFar + 1] /\ ReadSoFar = Len(Wrap(text)) - Len(tokens)
      <3>1. tokens \in Seq(Alphabet) /\ tokens # <<>> /\ Len(tokens) <= Len(Wrap(text))
        BY <1>1, <1>2 DEF TokensLeft
      <3>2. 1 \in 1 .. Len(tokens)
        BY <3>1, EmptySeq
      <3>. QED  BY <1>2, <3>1, <3>2 DEF TokensLeft, ReadSoFar
    <2>2. Current = tokens[1] /\ Len(tokens) \in Nat \ {0}
      BY <2>1, EmptySeq DEF Current
    <2>3. ReadSoFar + 1 \in 1 .. Len(Wrap(text))
      BY <1>3, <1>4, <2>1, <2>2
    <2>4. ReadSoFar + 1 = Len(Wrap(text))
      BY <1>1, <1>2, <2>1, <2>2, <2>3, EndIsLast
    <2>. QED  BY <1>3, <2>4
  <1>6. F[n + 1].data = <<>> /\ F[n + 1].end = n + 1
    BY <1>4, FromFacts
  <1>7. PICK L, c : Completes(<<>>, <<tree>>, <<>>, n + 1, L, c)
    <2>1. Root(tree) = <<tree>>
      BY <1>1 DEF Root
    <2>2. \E L, c : Completes(open, Root(tree), F[n + 1].data, F[n + 1].end, L, c)
      BY <1>1, <1>5 DEF Continued
    <2>. QED  BY <1>2, <1>6, <2>1, <2>2
  <1>8. F[1].data = <<tree>> /\ F[1].end = n + 1
    <2>1. Len(<<>>) = 0 /\ Under(<<>>, <<tree>>, 0) = <<tree>> /\ <<tree>> \o <<>> = <<tree>>
      BY ConcatEmptySeq DEF Under
    <2>2. /\ L[0] = F[1].data /\ c[0] = F[1].end
          /\ L[0] = Under(<<>>, <<tree>>, 0) \o <<>> /\ c[0] = n + 1
      BY <1>7, <2>1 DEF Completes
    <2>. QED  BY <2>1, <2>2
  <1>9. F[1] = [data |-> F[1].data, end |-> F[1].end]
    <2>1. F[1] = SpelledAt(Wrapping, F, 1)
      BY <1>4, FromExists
    <2>2. PICK f : f = F
      OBVIOUS
    <2>3. f[1] = SpelledAt(Wrapping, f, 1)
      BY <2>1, <2>2
    <2>4. \A i : LET q == SpelledAt(Wrapping, f, i) IN q = [data |-> q.data, end |-> q.end]
      <3> TAKE i
      <3>1. CASE i > n
        BY <3>1 DEF SpelledAt
      <3>2. CASE ~(i > n) /\ Wrapping[i].type = ")"
        BY <3>2 DEF SpelledAt
      <3>3. CASE ~(i > n) /\ Wrapping[i].type = "("
        BY <3>3 DEF SpelledAt
      <3>4. CASE ~(i > n) /\ Wrapping[i].type \notin {"(", ")"}
        BY <3>4 DEF SpelledAt
      <3>. QED  BY <3>1, <3>2, <3>3, <3>4
    <2>. QED  BY <2>2, <2>3, <2>4
  <1>10. Spelled(Wrapping) = [data |-> <<tree>>, end |-> n + 1]
    BY <1>8, <1>9, SpelledFrom
  <1>11. Wrapping' = Wrapping
    BY <1>1, SpelledStays
  <1>. QED  BY <1>1, <1>10, <1>11 DEF TreeOfText

(* Before the tokens have been wrapped, nothing is claimed of the tree.    *)
LEMMA SpelledInit == ASSUME Init PROVE Continued /\ TreeOfText
  BY DEF Init, Continued, TreeOfText

(* No step of the parser changes what the tree will be.                    *)
LEMMA SpelledNext ==
  ASSUME IInv, Continued, TreeOfText, [Next]_vars
  PROVE  Continued' /\ TreeOfText'
  <1>1. CASE Preprocess
    <2>1. status' = "parse"
      BY <1>1 DEF Preprocess
    <2>. QED  BY <1>1, <2>1, PreprocessContinues DEF TreeOfText
  <1>2. CASE ParseAtom
    <2>1. status' = "parse"
      BY <1>2 DEF ParseAtom, Wanted
    <2>. QED  BY <1>2, <2>1, ParseAtomContinues DEF TreeOfText
  <1>3. CASE OpenPair
    <2>1. status' = "parse"
      BY <1>3 DEF OpenPair, Wanted
    <2>. QED  BY <1>3, <2>1, OpenPairContinues DEF TreeOfText
  <1>4. CASE ClosePair
    <2>1. status' = "parse"
      BY <1>4 DEF ClosePair, Wanted
    <2>. QED  BY <1>4, <2>1, ClosePairContinues DEF TreeOfText
  <1>5. CASE ExpectEof
    <2>1. status' = "done"
      BY <1>5 DEF ExpectEof
    <2>. QED  BY <1>5, <2>1, ExpectEofSpelled DEF Continued
  <1>6. CASE UnexpectedToken
    <2>1. status' = "unexpected"
      BY <1>6 DEF UnexpectedToken
    <2>. QED  BY <2>1 DEF Continued, TreeOfText
  <1>7. CASE UNCHANGED vars
    <2>1. /\ text' = text /\ tokens' = tokens /\ open' = open /\ tree' = tree
          /\ status' = status
      BY <1>7 DEF vars
    <2>2. Wrapping' = Wrapping /\ Wrap(text)' = Wrap(text)
      BY <2>1, SpelledStays, TextStays
    <2>3. ReadSoFar' = ReadSoFar
      BY <2>1, <2>2 DEF ReadSoFar
    <2>4. Continued'
      BY <2>1, <2>3, SpelledStays, Zenon DEF Continued
    <2>5. TreeOfText'
      BY <2>1, <2>2 DEF TreeOfText
    <2>. QED  BY <2>4, <2>5
  <1>. QED  BY <1>1, <1>2, <1>3, <1>4, <1>5, <1>6, <1>7 DEF Next, Step, Ended

(* With what is still to come in every list that is open, the tree will be *)
(* the one datum that the tokens spell.                                    *)
THEOREM SpelledInvariance == Spec => [](Continued /\ TreeOfText)
  <1>1. Init => Continued /\ TreeOfText
    BY SpelledInit
  <1>2. IInv /\ Continued /\ TreeOfText /\ [Next]_vars => Continued' /\ TreeOfText'
    BY SpelledNext
  <1>. QED  BY <1>1, <1>2, Invariance, PTL DEF Spec

-----------------------------------------------------------------------------
(* What the tree is for a program in balance, and for any other.           *)

(* The first n tokens of b stand behind the first s ones of a; and change  *)
(* the depth there as they do in b.                                        *)
Surrounds(a, s, b, n) == \A i \in 1 .. n : a[s + i] = b[i]
DeeperBy(a, s, b, n) == \A j \in 0 .. n : Depth(a, s + j) = Depth(a, s) + Depth(b, j)

(* Tokens that stand inside others count their brackets from there.        *)
LEMMA PartDepth ==
  ASSUME NEW a, NEW b, NEW n \in Nat, NEW s \in Nat, Surrounds(a, s, b, n)
  PROVE  DeeperBy(a, s, b, n)
  <1> DEFINE Same(j) == Depth(a, s + j) = Depth(a, s) + Depth(b, j)
             good == {i \in 1 .. (n + 1) : Same((n + 1) - i)}
  <1>1. \A j \in Nat : Depth(a, s + j) \in Int /\ Depth(b, j) \in Int
    <2> TAKE j \in Nat
    <2>1. s + j \in Nat
      OBVIOUS
    <2>. QED  BY <2>1, DepthStep
  <1>2. ASSUME NEW i \in 1 .. (n + 1), \A j \in (i + 1) .. (n + 1) : j \in good
        PROVE  i \in good
    <2>1. CASE i = n + 1
      <3>1. (n + 1) - i = 0 /\ s + 0 = s
        BY <2>1
      <3>2. Depth(b, 0) = 0 /\ Depth(a, s) \in Int
        BY DepthZero, DepthStep
      <3>3. Same(0)
        BY <3>1, <3>2
      <3> HIDE DEF Same
      <3>. QED  BY <3>1, <3>3
    <2>2. CASE i # n + 1
      <3>1. PICK k : k = n - i
        OBVIOUS
      <3>2. /\ k \in Nat /\ k + 1 \in 1 .. n /\ i + 1 \in (i + 1) .. (n + 1)
            /\ (n + 1) - (i + 1) = k /\ (n + 1) - i = k + 1
        BY <2>2, <3>1
      <3>3. Same(k)
        <4> HIDE DEF Same
        <4>. QED  BY <1>2, <3>2
      <3>4. a[(s + k) + 1] = b[k + 1] /\ s + k \in Nat /\ (s + k) + 1 = s + (k + 1)
        BY <3>2 DEF Surrounds
      <3>5. PICK t : t = b[k + 1].type
        OBVIOUS
      <3>6. /\ t = "(" => Depth(a, s + (k + 1)) = Depth(a, s + k) + 1
            /\ t = ")" => Depth(a, s + (k + 1)) = Depth(a, s + k) - 1
            /\ t \notin {"(", ")"} => Depth(a, s + (k + 1)) = Depth(a, s + k)
        BY <3>4, <3>5, DepthStep
      <3>7. /\ t = "(" => Depth(b, k + 1) = Depth(b, k) + 1
            /\ t = ")" => Depth(b, k + 1) = Depth(b, k) - 1
            /\ t \notin {"(", ")"} => Depth(b, k + 1) = Depth(b, k)
        BY <3>2, <3>5, DepthStep
      <3>8. /\ Depth(a, s + k) \in Int /\ Depth(b, k) \in Int /\ Depth(a, s) \in Int
            /\ Depth(a, s + (k + 1)) \in Int /\ Depth(b, k + 1) \in Int
        BY <1>1, <3>2, DepthStep
      <3>9. Same(k + 1)
        BY <3>3, <3>6, <3>7, <3>8
      <3> HIDE DEF Same
      <3>. QED  BY <3>2, <3>9
    <2>. QED  BY <2>1, <2>2
  <1>3. 1 .. (n + 1) \subseteq good
    <2>1. n + 1 \in Nat
      OBVIOUS
    <2> HIDE DEF good
    <2>. QED  BY <1>2, <2>1, FromTheEnd
  <1>4. \A j \in 0 .. n : Same(j)
    <2> TAKE j \in 0 .. n
    <2>1. (n + 1) - j \in 1 .. (n + 1) /\ (n + 1) - ((n + 1) - j) = j
      OBVIOUS
    <2> HIDE DEF Same
    <2>. QED  BY <1>3, <2>1
  <1>. QED  BY <1>4 DEF DeeperBy

(* What is spelled at one token.                                           *)
LEMMA AtToken ==
  ASSUME NEW ts, Len(ts) \in Nat, NEW i \in 1 .. Len(ts)
  PROVE  LET F == From(ts)
         IN /\ ts[i].type = ")" => F[i].data = <<>> /\ F[i].end = i
            /\ ts[i].type = "(" =>
                 /\ F[i].data = <<List(F[i + 1].data)>> \o F[F[i + 1].end + 1].data
                 /\ F[i].end = F[F[i + 1].end + 1].end
            /\ ts[i].type \notin {"(", ")"} =>
                 /\ F[i].data = <<Atom(ts[i])>> \o F[i + 1].data
                 /\ F[i].end = F[i + 1].end
  BY FromFacts

(* The program is what stands in the wrapping, two brackets deep.          *)
LEMMA ProgramInside ==
  ASSUME text \in Texts
  PROVE  LET n == Len(Program)
         IN /\ n \in Nat /\ Len(Wrapping) = n + 7
            /\ \A i \in 1 .. n : Wrapping[5 + i] = Program[i]
            /\ Wrapping[1].type = "(" /\ Wrapping[2].type = "("
            /\ Wrapping[3] = Identifier("lambda")
            /\ Wrapping[4].type = "(" /\ Wrapping[5].type = ")"
            /\ Wrapping[n + 6].type = ")" /\ Wrapping[n + 7].type = ")"
            /\ \A j \in 0 .. n : Depth(Wrapping, 5 + j) = 2 + Depth(Program, j)
  <1> DEFINE n == Len(Program)
             W == Wrap(text)
  <1>1. /\ n \in Nat /\ Len(Wrapping) = n + 7
        /\ \A i \in 1 .. (n + 7) : Wrapping[i] = W[i]
    BY WrappingFacts
  <1>2. /\ W[1] = LeftParen /\ W[2] = LeftParen /\ W[3] = Identifier("lambda")
        /\ W[4] = LeftParen /\ W[5] = RightParen
        /\ \A i \in 1 .. n : W[5 + i] = Program[i]
        /\ W[n + 6] = RightParen /\ W[n + 7] = RightParen
    BY Wrapped
  <1>3. LeftParen.type = "(" /\ RightParen.type = ")"
    BY DEF LeftParen, RightParen, Mark
  <1>4. Depth(W, 5) = 2 /\ Depth(W, 0) = 0
    BY HeadDepths
  <1> HIDE DEF n, W
  <1>5. \A i \in 1 .. n : 5 + i \in 1 .. (n + 7)
    BY <1>1
  <1>6. \A i \in 1 .. n : Wrapping[5 + i] = Program[i]
    BY <1>1, <1>2, <1>5
  <1>7. Depth(Wrapping, 5) = 2
    <2>1. Surrounds(W, 0, Wrapping, n + 7)
      BY <1>1 DEF Surrounds
    <2>2. n + 7 \in Nat /\ 0 \in Nat /\ 5 \in 0 .. (n + 7) /\ 0 + 5 = 5
      BY <1>1
    <2>3. Depth(W, 0 + 5) = Depth(W, 0) + Depth(Wrapping, 5)
      <3>1. DeeperBy(W, 0, Wrapping, n + 7)
        BY <2>1, <2>2, PartDepth
      <3>. QED  BY <2>2, <3>1, Zenon DEF DeeperBy
    <2>4. Depth(Wrapping, 5) \in Int
      BY DepthStep
    <2>. QED  BY <1>4, <2>2, <2>3, <2>4
  <1>8. \A j \in 0 .. n : Depth(Wrapping, 5 + j) = 2 + Depth(Program, j)
    <2>1. 5 \in Nat
      OBVIOUS
    <2>2. Surrounds(Wrapping, 5, Program, n)
      BY <1>6 DEF Surrounds
    <2>3. DeeperBy(Wrapping, 5, Program, n)
      BY <1>1, <2>1, <2>2, PartDepth
    <2>. QED  BY <1>7, <2>3 DEF DeeperBy
  <1>9. /\ 1 \in 1 .. (n + 7) /\ 2 \in 1 .. (n + 7) /\ 3 \in 1 .. (n + 7) /\ 4 \in 1 .. (n + 7)
        /\ 5 \in 1 .. (n + 7) /\ n + 6 \in 1 .. (n + 7) /\ n + 7 \in 1 .. (n + 7)
    BY <1>1
  <1>. QED  BY <1>1, <1>2, <1>3, <1>6, <1>8, <1>9 DEF n

(* What a program in balance spells, it spells in the wrapping too.        *)
LEMMA BodySpelled ==
  ASSUME text \in Texts, ClosesAbove(Program, 0)
  PROVE  LET F == From(Wrapping)
             n == Len(Program)
         IN F[6].data = Spelled(Program).data /\ F[6].end = n + 6
  <1> DEFINE F == From(Wrapping)
             G == From(Program)
             n == Len(Program)
             D(j) == Depth(Program, j)
             Same(i) == F[i + 5].data = G[i].data /\ F[i + 5].end = G[i].end + 5
             good == {i \in 1 .. (n + 1) : Same(i)}
  <1>1. /\ n \in Nat /\ Len(Wrapping) = n + 7
        /\ \A i \in 1 .. n : Wrapping[5 + i] = Program[i]
        /\ Wrapping[n + 6].type = ")"
    BY ProgramInside
  <1>2. \A j \in 0 .. n : D(j) \in Int /\ D(j) >= 0
    <2>1. D(0) = 0
      BY DepthZero
    <2>2. \A j \in 0 .. n : j \in Nat /\ (j = 0 \/ j \in 1 .. n)
      BY <1>1
    <2>. QED  BY <2>1, <2>2, DepthStep DEF ClosesAbove
  <1>3. D(n) = 0 /\ D(0) = 0
    BY DepthZero DEF ClosesAbove
  <1>4. \A i \in 1 .. (n + 1) : Nested(Program, i) /\ G[i].end \in i .. (n + 1)
    <2>1. \A i \in 1 .. (n + 1) : Nested(Program, i)
      BY <1>1, StaysOpen
    <2>2. \A i \in 1 .. (n + 2) : G[i].end \in 1 .. (n + 1) /\ (G[i].end >= i \/ G[i].end = n + 1)
      BY <1>1, FromFacts DEF Rest
    <2> HIDE DEF n, G
    <2>. QED  BY <1>1, <2>1, <2>2
  <1>5. ASSUME NEW i \in 1 .. (n + 1), \A j \in (i + 1) .. (n + 1) : j \in good
        PROVE  i \in good
    <2>1. CASE i = n + 1
      <3>1. i + 5 \in 1 .. Len(Wrapping) /\ Wrapping[i + 5].type = ")" /\ i + 5 = n + 6
        BY <1>1, <2>1
      <3>2. F[i + 5].data = <<>> /\ F[i + 5].end = n + 6
        <4>1. PICK k : k = i + 5
          OBVIOUS
        <4>2. Len(Wrapping) \in Nat
          BY <1>1
        <4>3. k \in 1 .. Len(Wrapping) /\ Wrapping[k].type = ")" /\ k = n + 6
          BY <3>1, <4>1
        <4>4. F[k].data = <<>> /\ F[k].end = k
          BY ONLY <4>2, <4>3, AtToken
        <4>. QED  BY <4>1, <4>3, <4>4
      <3>3. G[i].data = <<>> /\ G[i].end = n + 1
        BY <1>1, <2>1, FromFacts
      <3>4. (n + 1) + 5 = n + 6
        BY <1>1
      <3>5. Same(i)
        BY <3>2, <3>3, <3>4
      <3> HIDE DEF Same
      <3>. QED  BY <3>5
    <2>2. CASE i # n + 1
      <3>1. /\ i \in 1 .. n /\ i + 5 \in 1 .. Len(Wrapping) /\ Wrapping[i + 5] = Program[i]
            /\ (i + 5) + 1 = (i + 1) + 5 /\ i + 1 \in (i + 1) .. (n + 1)
        BY <1>1, <2>2
      <3>6. PICK k : k = i + 5
        OBVIOUS
      <3>0. /\ Len(Wrapping) \in Nat /\ k \in 1 .. Len(Wrapping)
            /\ Wrapping[k] = Program[i]
        BY <1>1, <3>1, <3>6
      <3>2. F[k + 1].data = G[i + 1].data /\ F[k + 1].end = G[i + 1].end + 5
        <4>1. i + 1 \in good
          BY <1>5, <3>1
        <4>. QED  BY <3>1, <3>6, <4>1
      <3>3. CASE Program[i].type = ")"
        <4>1. F[k].data = <<>> /\ F[k].end = k
          <5>1. Len(Wrapping) \in Nat /\ k \in 1 .. Len(Wrapping) /\ Wrapping[k].type = ")"
            BY <3>0, <3>3
          <5>. QED  BY ONLY <3>0, <5>1, AtToken
        <4>2. G[i].data = <<>> /\ G[i].end = i
          BY <1>1, <3>1, <3>3, FromFacts
        <4>3. Same(i)
          BY <3>6, <4>1, <4>2
        <4> HIDE DEF Same
        <4>. QED  BY <4>3
      <3>4. CASE Program[i].type = "("
        <4>1. PICK e : e = G[i + 1].end
          OBVIOUS
        <4>2. /\ e \in (i + 1) .. (n + 1) /\ (i + 1) - 1 = i
              /\ \A j \in i .. (e - 1) : D(j) >= D(i)
          <5>1. Nested(Program, i + 1) /\ i + 1 \in 1 .. (n + 1) /\ (i + 1) - 1 = i
            BY <1>1, <1>4, <3>1
          <5>. QED  BY <1>4, <4>1, <5>1 DEF Nested
        <4>3. D(i) = D(i - 1) + 1
          <5>1. i - 1 \in Nat /\ (i - 1) + 1 = i
            BY <3>1
          <5>. QED  BY <3>4, <5>1, DepthStep
        <4>4. e # n + 1
          <5>1. i - 1 \in 0 .. n /\ n \in i .. ((n + 1) - 1)
            BY <1>1, <3>1
          <5>2. D(i - 1) \in Int /\ D(i - 1) >= 0 /\ (e = n + 1 => D(n) >= D(i))
            BY <1>2, <4>2, <5>1
          <5> HIDE DEF D
          <5>. QED  BY <1>3, <4>3, <5>2
        <4>5. e + 1 \in (i + 1) .. (n + 1) /\ (e + 1) + 5 = (e + 5) + 1
          BY <1>1, <4>2, <4>4
        <4>6. F[(e + 5) + 1].data = G[e + 1].data /\ F[(e + 5) + 1].end = G[e + 1].end + 5
          <5>1. e + 1 \in good
            BY <1>5, <4>5
          <5>. QED  BY <4>5, <5>1
        <4>7. /\ F[k].data = <<List(F[k + 1].data)>> \o F[F[k + 1].end + 1].data
              /\ F[k].end = F[F[k + 1].end + 1].end
          <5>1. Len(Wrapping) \in Nat /\ k \in 1 .. Len(Wrapping) /\ Wrapping[k].type = "("
            BY <3>0, <3>4
          <5>. QED  BY ONLY <3>0, <5>1, AtToken
        <4>8. /\ G[i].data = <<List(G[i + 1].data)>> \o G[G[i + 1].end + 1].data
              /\ G[i].end = G[G[i + 1].end + 1].end
          BY <1>1, <3>1, <3>4, FromFacts
        <4>9. Same(i)
          <5> HIDE DEF F, G
          <5>. QED  BY <3>6, <3>2, <4>1, <4>6, <4>7, <4>8
        <4> HIDE DEF Same
        <4>. QED  BY <4>9
      <3>5. CASE Program[i].type \notin {"(", ")"}
        <4>1. /\ F[k].data = <<Atom(Program[i])>> \o F[k + 1].data
              /\ F[k].end = F[k + 1].end
          <5>1. /\ Len(Wrapping) \in Nat /\ k \in 1 .. Len(Wrapping)
                /\ Wrapping[k].type \notin {"(", ")"}
            BY <3>0, <3>5
          <5>2. /\ F[k].data = <<Atom(Wrapping[k])>> \o F[k + 1].data
                /\ F[k].end = F[k + 1].end
            BY ONLY <5>1, AtToken
          <5> HIDE DEF F
          <5>. QED  BY ONLY <3>0, <5>2, Zenon
        <4>2. /\ G[i].data = <<Atom(Program[i])>> \o G[i + 1].data
              /\ G[i].end = G[i + 1].end
          BY <1>1, <3>1, <3>5, FromFacts
        <4>3. Same(i)
          <5> HIDE DEF F, G
          <5>. QED  BY <3>6, <3>2, <4>1, <4>2
        <4> HIDE DEF Same
        <4>. QED  BY <4>3
      <3>. QED  BY <3>3, <3>4, <3>5
    <2>. QED  BY <2>1, <2>2
  <1>6. Same(1)
    <2>1. n + 1 \in Nat /\ 1 \in 1 .. (n + 1)
      BY <1>1
    <2> HIDE DEF Same, n
    <2>2. \A i \in 1 .. (n + 1) : (\A j \in (i + 1) .. (n + 1) : j \in good) => i \in good
      BY <1>5
    <2> HIDE DEF good
    <2>3. 1 .. (n + 1) \subseteq good
      BY <2>1, <2>2, FromTheEnd
    <2>. QED  BY <2>1, <2>3 DEF good
  <1>7. G[1].end = n + 1
    <2>1. PICK e : e = G[1].end
      OBVIOUS
    <2>2. 1 \in 1 .. (n + 1) /\ 1 - 1 = 0
      BY <1>1
    <2>3. e \in 1 .. (n + 1) /\ (e <= n => Program[e].type = ")" /\ D(e - 1) = 0)
      BY <1>3, <1>4, <2>1, <2>2 DEF Nested
    <2>4. ASSUME e # n + 1  PROVE FALSE
      <3>1. e \in 1 .. n /\ e \in 0 .. n /\ e - 1 \in Nat /\ (e - 1) + 1 = e
        BY <1>1, <2>3, <2>4
      <3>2. D(e) = D(e - 1) - 1 /\ D(e - 1) = 0
        BY <2>3, <3>1, DepthStep
      <3>3. D(e) >= 0
        BY <1>2, <3>1
      <3> HIDE DEF D
      <3>. QED  BY <3>2, <3>3
    <2>. QED  BY <2>1, <2>4
  <1>8. F[6].data = G[1].data /\ F[6].end = n + 6
    <2>1. 1 + 5 = 6 /\ (n + 1) + 5 = n + 6
      BY <1>1
    <2> HIDE DEF F, G, n
    <2>. QED  BY <1>6, <1>7, <2>1
  <1>. QED  BY <1>8, SpelledFrom

(* The expression that the preprocessor puts around a program.             *)
LEMMA HeadSpelled ==
  ASSUME text \in Texts
  PROVE  LET F == From(Wrapping)
             e == F[6].end
             body == <<Identifier("lambda"), List(<<>>)>> \o F[6].data
         IN /\ F[1].data = <<List(F[2].data)>> \o F[F[2].end + 1].data
            /\ F[1].end = F[F[2].end + 1].end
            /\ F[2].data = <<List(body)>> \o F[e + 1].data /\ F[2].end = F[e + 1].end
  <1> DEFINE F == From(Wrapping)
             l == Identifier("lambda")
             nil == List(<<>>)
  <1>1. /\ Len(Wrapping) \in Nat
        /\ 1 \in 1 .. Len(Wrapping) /\ 2 \in 1 .. Len(Wrapping) /\ 3 \in 1 .. Len(Wrapping)
        /\ 4 \in 1 .. Len(Wrapping) /\ 5 \in 1 .. Len(Wrapping) /\ 6 \in 1 .. (Len(Wrapping) + 2)
    BY ProgramInside
  <1>2. /\ Wrapping[1].type = "(" /\ Wrapping[2].type = "(" /\ Wrapping[3] = l
        /\ Wrapping[4].type = "(" /\ Wrapping[5].type = ")"
    BY ProgramInside
  <1>3. /\ F[1].data = <<List(F[1 + 1].data)>> \o F[F[1 + 1].end + 1].data
        /\ F[1].end = F[F[1 + 1].end + 1].end
    BY <1>1, <1>2, FromFacts
  <1>4. /\ F[2].data = <<List(F[2 + 1].data)>> \o F[F[2 + 1].end + 1].data
        /\ F[2].end = F[F[2 + 1].end + 1].end
    BY <1>1, <1>2, FromFacts
  <1>5. F[3].data = <<l>> \o F[3 + 1].data /\ F[3].end = F[3 + 1].end
    <2>1. Wrapping[3].type = "identifier" /\ Atom(Wrapping[3]) = l
      BY <1>2 DEF Identifier, Atom
    <2>2. Wrapping[3].type \notin {"(", ")"}
      BY <2>1
    <2>3. F[3].data = <<Atom(Wrapping[3])>> \o F[3 + 1].data /\ F[3].end = F[3 + 1].end
      BY <1>1, <2>2, FromFacts
    <2>. QED  BY <2>1, <2>3, Zenon
  <1>6. /\ F[4].data = <<List(F[4 + 1].data)>> \o F[F[4 + 1].end + 1].data
        /\ F[4].end = F[F[4 + 1].end + 1].end
    BY <1>1, <1>2, FromFacts
  <1>7. F[5].data = <<>> /\ F[5].end = 5
    BY <1>1, <1>2, FromFacts
  <1>8. F[6].data \in Seq(Range(F[6].data))
    BY <1>1, FromFacts DEF Rest
  <1> HIDE DEF F, l, nil
  <1>9. 1 + 1 = 2 /\ 2 + 1 = 3 /\ 3 + 1 = 4 /\ 4 + 1 = 5 /\ 5 + 1 = 6
    OBVIOUS
  <1>10. F[4].data = <<nil>> \o F[6].data /\ F[4].end = F[6].end
    BY <1>6, <1>7, <1>9 DEF nil
  <1>11. <<l>> \o (<<nil>> \o F[6].data) = <<l, nil>> \o F[6].data
    <2>1. <<l>> \in Seq(Range(<<l>>)) /\ Append(<<l>>, nil) = <<l, nil>>
      <3>1. <<l>> \in Seq({l})
        OBVIOUS
      <3>2. <<l>> \in Seq(Range(<<l>>))
        BY ONLY <3>1, OverItsRange
      <3>3. Append(<<l>>, nil) = <<l, nil>>
        <4> DEFINE S == {l, nil}
        <4>1. <<l>> \in Seq(S) /\ Len(<<l>>) = 1 /\ <<l>>[1] = l /\ nil \in S
          OBVIOUS
        <4>2. <<l, nil>> \in Seq(S) /\ Len(<<l, nil>>) = 2 /\ <<l, nil>>[1] = l
                /\ <<l, nil>>[2] = nil
          OBVIOUS
        <4> HIDE DEF S
        <4>3. /\ Append(<<l>>, nil) \in Seq(S) /\ Len(Append(<<l>>, nil)) = 2
              /\ Append(<<l>>, nil)[1] = l /\ Append(<<l>>, nil)[2] = nil
          BY <4>1, AppendProperties
        <4>4. \A i \in 1 .. 2 : i = 1 \/ i = 2
          OBVIOUS
        <4>5. \A i \in 1 .. Len(Append(<<l>>, nil)) : Append(<<l>>, nil)[i] = <<l, nil>>[i]
          BY <4>2, <4>3, <4>4
        <4>. QED  BY <4>2, <4>3, <4>5, SeqEqual
      <3>. QED  BY <3>2, <3>3
    <2>2. PICK d : d = F[6].data
      OBVIOUS
    <2>3. d \in Seq(Range(d))
      BY <1>8, <2>2
    <2>4. Append(<<l>>, nil) \o d = <<l>> \o (<<nil>> \o d)
      BY ONLY <2>1, <2>3, AppendedInFront
    <2>. QED  BY <2>1, <2>2, <2>4
  <1>12. F[3].data = <<l, nil>> \o F[6].data /\ F[3].end = F[6].end
    BY <1>5, <1>9, <1>10, <1>11
  <1>13. /\ F[1].data = <<List(F[2].data)>> \o F[F[2].end + 1].data
         /\ F[1].end = F[F[2].end + 1].end
         /\ F[2].data = <<List(<<l, nil>> \o F[6].data)>> \o F[F[6].end + 1].data
         /\ F[2].end = F[F[6].end + 1].end
    BY <1>3, <1>4, <1>9, <1>12
  <1>. QED  BY <1>13 DEF F, l, nil

(* An element in front of others.                                          *)
LEMMA FrontFacts ==
  ASSUME NEW x, NEW d, d \in Seq(Range(d))
  PROVE  /\ Len(<<x>> \o d) = 1 + Len(d) /\ Len(d) \in Nat /\ (<<x>> \o d)[1] = x
         /\ <<x>> \o <<>> = <<x>>
         /\ \A y : <<x>> \o d = <<y>> => x = y /\ d = <<>>
  <1> DEFINE S == Range(d) \cup {x}
  <1>1. <<x>> \in Seq(S) /\ Len(<<x>>) = 1 /\ <<x>>[1] = x
    OBVIOUS
  <1>2. d \in Seq(S) /\ Len(d) \in Nat
    <2>1. d = [i \in 1 .. Len(d) |-> d[i]] /\ Len(d) \in Nat /\ \A i \in 1 .. Len(d) : d[i] \in S
      OBVIOUS
    <2> HIDE DEF S
    <2>. QED  BY <2>1
  <1> HIDE DEF S
  <1>3. /\ Len(<<x>> \o d) = 1 + Len(d)
        /\ \A i \in 1 .. (1 + Len(d)) :
             (<<x>> \o d)[i] = IF i <= 1 THEN <<x>>[i] ELSE d[i - 1]
    BY <1>1, <1>2, ConcatProperties
  <1>4. 1 \in 1 .. (1 + Len(d))
    BY <1>2
  <1>5. (<<x>> \o d)[1] = x
    BY <1>1, <1>3, <1>4
  <1>6. <<x>> \o <<>> = <<x>>
    BY <1>1, ConcatEmptySeq
  <1>7. ASSUME NEW y, <<x>> \o d = <<y>>  PROVE x = y /\ d = <<>>
    <2>1. Len(<<y>>) = 1 /\ <<y>>[1] = y
      OBVIOUS
    <2>2. Len(d) = 0
      BY <1>2, <1>3, <1>7, <2>1
    <2>. QED  BY <1>2, <1>5, <1>7, <2>1, <2>2, EmptySeq
  <1>. QED  BY <1>2, <1>3, <1>5, <1>6, <1>7

(* The tree of the tokens is a call of the program.                        *)
LEMMA CallByTree == IInv /\ TreeOfText => CallOfProgram
  <1> SUFFICES ASSUME IInv, TreeOfText, status = "done"  PROVE CallOfProgram
    BY DEF CallOfProgram
  <1> DEFINE F == From(Wrapping)
             n == Len(Program)
             N == Len(Wrapping)
             l == Identifier("lambda")
             nil == List(<<>>)
             body == <<l, nil>> \o F[6].data
             D(j) == Depth(Program, j)
  <1>1. text \in Texts
    BY DEF IInv
  <1>2. /\ n \in Nat /\ N = n + 7
        /\ Wrapping[n + 7].type = ")"
        /\ \A j \in 0 .. n : Depth(Wrapping, 5 + j) = 2 + D(j)
    BY <1>1, ProgramInside
  <1>3. F[1].data = <<tree>> /\ F[1].end = N + 1
    BY SpelledFrom DEF TreeOfText
  <1>4. /\ F[1].data = <<List(F[2].data)>> \o F[F[2].end + 1].data
        /\ F[1].end = F[F[2].end + 1].end
        /\ F[2].data = <<List(body)>> \o F[F[6].end + 1].data
        /\ F[2].end = F[F[6].end + 1].end
    BY <1>1, HeadSpelled
  <1>5. \A i \in 1 .. (N + 2) :
          /\ F[i].data \in Seq(Range(F[i].data))
          /\ F[i].end \in 1 .. (N + 1) /\ (F[i].end >= i \/ F[i].end = N + 1)
    BY <1>2, FromFacts DEF Rest
  <1> HIDE DEF body, l, nil
  <1>6. tree = List(F[2].data) /\ F[F[2].end + 1].data = <<>>
    <2>1. PICK d : d = F[F[2].end + 1].data
      OBVIOUS
    <2>2. 2 \in 1 .. (N + 2) /\ F[2].end + 1 \in 1 .. (N + 2)
      BY <1>2, <1>5
    <2>3. d \in Seq(Range(d))
      BY <1>5, <2>1, <2>2
    <2>4. PICK x : x = List(F[2].data)
      OBVIOUS
    <2>5. <<x>> \o d = <<tree>>
      BY <1>3, <1>4, <2>1, <2>4
    <2>6. x = tree /\ d = <<>>
      BY ONLY <2>3, <2>5, FrontFacts
    <2>. QED  BY <2>1, <2>4, <2>6
  <1>7. CASE ClosesAbove(Program, 0)
    <2>1. F[6].data = Spelled(Program).data /\ F[6].end = n + 6
      BY <1>1, <1>7, BodySpelled
    <2>2. F[n + 7].data = <<>>
      <3>1. PICK k : k = n + 7
        OBVIOUS
      <3>2. /\ k \in 1 .. Len(Wrapping) /\ Wrapping[k].type = ")" /\ Len(Wrapping) \in Nat
        BY <1>2, <3>1
      <3>3. F[k].data = <<>>
        BY ONLY <3>2, AtToken
      <3>. QED  BY <3>1, <3>3
    <2>3. (n + 6) + 1 = n + 7
      BY <1>2
    <2>4. F[2].data = <<List(body)>>
      <3>1. <<>> \in Seq(Range(<<>>))
        OBVIOUS
      <3>2. \A x : <<x>> \o <<>> = <<x>>
        BY ONLY <3>1, FrontFacts
      <3> HIDE DEF F, n
      <3>. QED  BY <1>4, <2>1, <2>2, <2>3, <3>2
    <2>5. tree = List(<<List(<<Identifier("lambda"), List(<<>>)>> \o Spelled(Program).data)>>)
      BY <1>6, <2>1, <2>4 DEF body, l, nil
    <2>. QED  BY <1>7, <2>5 DEF CallOfProgram
  <1>8. CASE ~ClosesAbove(Program, 0)
    <2>1. PICK e : e = F[6].end
      OBVIOUS
    <2>2. PICK j0 \in 1 .. n : D(j0) < 0 /\ D(j0) \in Int
      <3>1. ClosesAbove(Program, -1)
        BY AcceptedByIInv DEF AcceptedExactly
      <3>2. D(n) = 0
        BY <3>1 DEF ClosesAbove
      <3>3. PICK j \in 1 .. n : ~(D(j) >= 0)
        BY <1>8, <3>2 DEF ClosesAbove
      <3>4. D(j) \in Int
        BY DepthStep
      <3> HIDE DEF D
      <3>. QED  BY <3>3, <3>4
    <2>3. e \in 6 .. (n + 5)
      <3>1. /\ \A j \in (6 - 1) .. (e - 1) : Depth(Wrapping, j) >= Depth(Wrapping, 6 - 1)
            /\ e \in 6 .. (N + 1)
        <4>1. Nested(Wrapping, 6)
          <5>1. 6 \in 1 .. (N + 1) /\ N \in Nat
            BY <1>2
          <5>. QED  BY <5>1, StaysOpen
        <4>2. e \in 1 .. (N + 1) /\ (e >= 6 \/ e = N + 1) /\ N + 1 >= 6
          <5>1. 6 \in 1 .. (N + 2)
            BY <1>2
          <5> HIDE DEF F
          <5>. QED  BY <1>2, <1>5, <2>1, <5>1
        <4>. QED  BY <2>1, <4>1, <4>2 DEF Nested
      <3>2. Depth(Wrapping, 6 - 1) = 2
        <4>1. 0 \in 0 .. n /\ 5 + 0 = 6 - 1
          BY <1>2
        <4>2. D(0) = 0
          BY DepthZero
        <4>3. Depth(Wrapping, 5 + 0) = 2 + D(0)
          BY <1>2, <4>1
        <4>. QED  BY <4>1, <4>2, <4>3
      <3>3. Depth(Wrapping, 5 + j0) = 2 + D(j0) /\ 5 + j0 \in Int
        <4>1. j0 \in 0 .. n
          BY <2>2
        <4>. QED  BY <1>2, <4>1
      <3>4. ~(5 + j0 \in (6 - 1) .. (e - 1))
        <4> HIDE DEF D
        <4>. QED  BY <2>2, <3>1, <3>2, <3>3
      <3>. QED  BY <1>2, <2>2, <3>1, <3>4
    <2>4. ASSUME NEW i \in 1 .. N, F[i].data = <<>>  PROVE F[i].end = i
      <3>1. Wrapping[i].type = ")"
        <4>1. ASSUME NEW x, NEW j \in 1 .. (N + 2)  PROVE <<x>> \o F[j].data # <<>>
          <5>1. PICK d : d = F[j].data
            OBVIOUS
          <5>2. d \in Seq(Range(d))
            BY <1>5, <5>1
          <5>3. <<x>> \o d # <<>>
            BY ONLY <5>2, InFront
          <5>. QED  BY <5>1, <5>3
        <4>2. i + 1 \in 1 .. (N + 2) /\ F[i + 1].end + 1 \in 1 .. (N + 2) /\ N \in Nat
          BY <1>2, <1>5
        <4>3. /\ Wrapping[i].type = "(" =>
                   F[i].data = <<List(F[i + 1].data)>> \o F[F[i + 1].end + 1].data
              /\ Wrapping[i].type \notin {"(", ")"} =>
                   F[i].data = <<Atom(Wrapping[i])>> \o F[i + 1].data
          BY <4>2, FromFacts
        <4> HIDE DEF F, N
        <4>. QED  BY <2>4, <4>1, <4>2, <4>3
      <3>2. Len(Wrapping) \in Nat /\ i \in 1 .. Len(Wrapping)
        BY <1>2
      <3>. QED  BY ONLY <3>1, <3>2, AtToken
    <2>5. ASSUME F[e + 1].data = <<>>  PROVE FALSE
      <3>1. e + 1 \in 1 .. N /\ e + 2 \in 1 .. N /\ (e + 1) + 1 = e + 2 /\ N \in Nat
        BY <1>2, <2>3
      <3>2. F[e + 1].end = e + 1
        BY <2>4, <2>5, <3>1
      <3>3. F[2].end = e + 1
        BY <1>4, <2>1, <3>2
      <3>4. F[e + 2].data = <<>> /\ F[1].end = F[e + 2].end
        BY <1>4, <1>6, <3>1, <3>3
      <3>5. F[e + 2].end = e + 2
        BY <2>4, <3>1, <3>4
      <3> HIDE DEF F, N
      <3>. QED  BY <1>3, <3>1, <3>4, <3>5
    <2>6. Len(F[2].data) > 1
      <3>1. PICK d : d = F[e + 1].data
        OBVIOUS
      <3>2. e + 1 \in 1 .. (N + 2)
        BY <1>2, <2>3
      <3>3. d \in Seq(Range(d)) /\ d # <<>>
        BY <1>5, <2>5, <3>1, <3>2
      <3>4. PICK x : x = List(body)
        OBVIOUS
      <3>5. F[2].data = <<x>> \o d
        BY <1>4, <2>1, <3>1, <3>4
      <3>6. Len(<<x>> \o d) = 1 + Len(d) /\ Len(d) \in Nat
        BY ONLY <3>3, FrontFacts
      <3>7. Len(d) # 0
        BY <3>3, EmptySeq
      <3> HIDE DEF F
      <3>. QED  BY <3>5, <3>6, <3>7
    <2>7. tree.items = F[2].data
      BY <1>6 DEF List
    <2> HIDE DEF F
    <2>. QED  BY <1>8, <2>6, <2>7 DEF CallOfProgram
  <1>. QED  BY <1>7, <1>8

(* The tree is the one that the tokens spell: nothing is lost, moved or    *)
(* nested elsewhere, however deep the recursion of the parser goes.        *)
THEOREM ReadsTheText == Spec => []TreeOfText
  BY SpelledInvariance, PTL

(* A program in balance becomes the body of one lambda expression that is  *)
(* called at once; of any other that is accepted, what stands behind its   *)
(* bracket too many becomes operands of that call.                         *)
THEOREM CallsTheProgram == Spec => []CallOfProgram
  BY Invariance, SpelledInvariance, CallByTree, PTL

=============================================================================
