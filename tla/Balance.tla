------------------------------ MODULE Balance ------------------------------
(***************************************************************************)
(* What the preprocessor and the parser promise about brackets.            *)
(***************************************************************************)
EXTENDS Parser, FiniteSets

(* The parser has a token to look at until it is done, and is in no list   *)
(* once it has the tree.                                                   *)
TypeOK ==
  /\ status \in {"start", "parse", "done", "unexpected"}
  /\ status # "done" => tokens # <<>> /\ Last(tokens).type = "eof"
  /\ tree # NoTree => open = <<>>
  /\ \A i \in 1 .. Len(open) : \A x \in Range(open[i]) :
       x.type \in {"string", "integer", "numeric", "identifier", "list"}

-----------------------------------------------------------------------------
Program == Front(text)

(* How many brackets are open after the first n tokens.                    *)
Depth(ts, n) ==
  Cardinality({i \in 1 .. n : ts[i].type = "("})
    - Cardinality({i \in 1 .. n : ts[i].type = ")"})

(* Closed at its end, and open by at least low everywhere before.          *)
ClosesAbove(ts, low) ==
  Depth(ts, Len(ts)) = 0 /\ \A n \in 1 .. Len(ts) : Depth(ts, n) >= low

(* A program is accepted if its brackets balance; or if they do but for    *)
(* one closing bracket too many at times, which ends the lambda expression *)
(* of the preprocessor, with an opening one that makes up for it later.    *)
(* Every other program is refused.                                         *)
AcceptedExactly ==
  /\ status = "done" => ClosesAbove(Program, -1)
  /\ status = "unexpected" => ~ClosesAbove(Program, -1)

(* The token that an error message shows is the first one behind a list    *)
(* that was closed too early, or the end if a list is never closed.        *)
BlamesFirstMisfit ==
  status = "unexpected" =>
    LET ts == Wrap(text)
        closed == {n \in 1 .. Len(ts) : Depth(ts, n) = 0}
    IN tokens = SubSeq(ts, Min(closed \cup {Len(ts) - 1}) + 1, Len(ts))

=============================================================================
