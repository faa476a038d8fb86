------------------------------ MODULE Grammar ------------------------------
(***************************************************************************)
(* What the preprocessor and the parser promise about the tree.            *)
(***************************************************************************)
EXTENDS Balance

-----------------------------------------------------------------------------
(* The data that tokens spell from a place on, up to the bracket that      *)
(* closes the list around them or to the end; and where that is.           *)

Spelled(ts) ==
  LET from[i \in 1 .. (Len(ts) + 2)] ==
        IF i > Len(ts) THEN [data |-> <<>>, end |-> Len(ts) + 1]
        ELSE IF ts[i].type = ")" THEN [data |-> <<>>, end |-> i]
        ELSE IF ts[i].type = "("
        THEN LET inner == from[i + 1]
                 rest  == from[inner.end + 1]
             IN [data |-> <<List(inner.data)>> \o rest.data, end |-> rest.end]
        ELSE LET rest == from[i + 1]
             IN [data |-> <<Atom(ts[i])>> \o rest.data, end |-> rest.end]
  IN from[1]

-----------------------------------------------------------------------------
Wrapping == WrapHead \o Program \o <<RightParen, RightParen>>

(* The tree is the one datum that the tokens spell, to the last of them:   *)
(* nothing is lost, moved or nested elsewhere on the way through the       *)
(* recursion, however deep it is.                                          *)
TreeOfText ==
  status = "done" => Spelled(Wrapping) = [data |-> <<tree>>, end |-> Len(Wrapping) + 1]

(* A program in balance becomes the body of one lambda expression without  *)
(* parameters that is called at once; of any other that is accepted, what  *)
(* stands behind its bracket too many becomes operands of that call.       *)
CallOfProgram ==
  status = "done" =>
    IF ClosesAbove(Program, 0)
    THEN tree = List(<<List(<<Identifier("lambda"), List(<<>>)>> \o Spelled(Program).data)>>)
    ELSE Len(tree.items) > 1

=============================================================================
