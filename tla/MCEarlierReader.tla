-------------------------- MODULE MCEarlierReader --------------------------
(***************************************************************************)
(* The reader of src/old on every short text, against what the present one *)
(* promises, and against the programs that the present one accepts.        *)
(***************************************************************************)
EXTENDS EarlierReader

Alphabet == {"a", "1", "space", "newline", "(", ")", "\"", ";", "nul", "eof"}

MCSources ==
  UNION {[1 .. k -> Alphabet] : k \in 0 .. 4} \cup [1 .. 6 -> {"a", "(", ")"}]

(* The present parser's view of brackets.                                  *)
Brackets == INSTANCE Balance WITH
  Texts <- {}, text <- <<Mark("eof")>>, tree <- List(trees)

(* The tokens of a node, read back from it.                                *)
RECURSIVE Unparse(_)
Unparse(x) ==
  IF x.type = "list"
  THEN <<Mark("(")>> \o FlattenSeq([i \in 1 .. Len(x.items) |-> Unparse(x.items[i])])
         \o <<Mark(")")>>
  ELSE <<x>>

(* What the text says, a zero byte being an opening bracket here.          *)
Written ==
  LET spans == Present!Spans
  IN [i \in 1 .. Len(spans) |->
        IF source[spans[i][1]] = "nul" THEN Mark("(")
        ELSE Present!TokenOf(spans[i])]

-----------------------------------------------------------------------------
(* The nodes spell the text, whatever the chunks, strings and comments on  *)
(* the way; of a text that has none, they may be anything.                 *)
NodesOfText ==
  status = "done" =>
    IF trees = Wild THEN Written = <<>>
    ELSE FlattenSeq([i \in 1 .. Len(trees) |-> Unparse(trees[i])]) = Written

(* What is accepted is a sequence of lists: brackets balance, and nothing  *)
(* stands outside of them.  (So the present parser accepts it as well.)    *)
ListsOnly ==
  LET outside == {n \in 1 .. Len(Written) : Written[n].type \notin {"(", ")"}
                                             /\ Brackets!Depth(Written, n) = 0}
      lists == Brackets!ClosesAbove(Written, 0) /\ outside = {}
  IN (status = "done" => lists) /\ (status = "unexpected" => ~lists)

(* Reading stops short for the reasons that the present lexer has, and for *)
(* a string that leaves no room for its zero.                              *)
StopsForTheSameReasons ==
  /\ Present!StopsForAReason
  /\ status = "overflow" =>
       \E r \in Present!Strings : r[2] - r[1] > MaxStringSize

=============================================================================
