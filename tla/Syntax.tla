------------------------------- MODULE Syntax -------------------------------
(***************************************************************************)
(* The nodes of a parsed program.  The parser builds proper lists only, so *)
(* a list is its sequence of elements: the empty one is the node ND_NULL,  *)
(* a pair is any other, its car the head and its cdr the tail.             *)
(***************************************************************************)
EXTENDS Sequences

Integer(n)    == [type |-> "integer", integer |-> n]
String(s)     == [type |-> "string", string |-> s]
Numeric       == [type |-> "numeric"]
Identifier(v) == [type |-> "identifier", identifier |-> v]
List(items)   == [type |-> "list", items |-> items]

IsPair(x) == x.type = "list" /\ x.items # <<>>
IsNull(x) == x = List(<<>>) \/ x = Identifier("null")

Length(x) == IF x.type = "list" THEN Len(x.items) ELSE 0

Tagged(x, tag) == IsPair(x) /\ Head(x.items) = Identifier(tag)

Forms == {"define", "set!", "if", "lambda", "begin"}

(* The handler that genRecursive chooses.                                  *)
Kind(x) ==
  IF IsNull(x) THEN "null"
  ELSE IF x.type # "list" THEN x.type
  ELSE IF \E tag \in Forms : Tagged(x, tag) THEN Head(x.items).identifier
  ELSE "application"

=============================================================================
