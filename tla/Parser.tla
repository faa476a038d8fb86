------------------------------- MODULE Parser -------------------------------
(***************************************************************************)
(* The preprocessor, which wraps the tokens of a program into the call of  *)
(* a lambda expression, and the parser, which reads one datum from them.   *)
(*                                                                         *)
(* parsePairHelper calls itself and parseRecursive; what its activations   *)
(* have read so far of the lists they are in is the variable open.  Tokens *)
(* are those of module Lexer.                                              *)
(***************************************************************************)
EXTENDS Integers, SequencesExt, Syntax

CONSTANT Texts    \* the token lists that the lexer hands over

ASSUME TextsAssumption ==
  \A ts \in Texts :
    /\ ts \in Seq(Range(ts)) /\ ts # <<>>
    /\ \A i \in 1 .. Len(ts) :
         /\ ts[i].type \in {"(", ")", "string", "integer", "numeric", "identifier", "eof"}
         /\ ts[i].type = "eof" <=> i = Len(ts)

VARIABLES
  text,       \* the token list that the lexer made; no step changes it
  tokens,     \* the tokens from curToken on
  open,       \* the elements read of each list that is open, innermost last
  tree,       \* what parse returns, once it has been read
  status      \* "start", "parse", "done" or "unexpected"

vars == <<text, tokens, open, tree, status>>

NoTree == [type |-> "none"]

-----------------------------------------------------------------------------
(* wrapTokenLst.                                                           *)

Mark(type) == [type |-> type]
LeftParen  == Mark("(")
RightParen == Mark(")")

WrapHead == <<LeftParen, LeftParen, Identifier("lambda"), LeftParen, RightParen>>
WrapTailShort == <<RightParen>>
WrapTail == <<RightParen, RightParen>>

WrapEndless(ts) == WrapHead \o Front(ts) \o WrapTail
Wrap(ts) == WrapHead \o Front(ts) \o WrapTail \o <<Last(ts)>>

Init ==
  /\ text \in Texts
  /\ tokens = text
  /\ open = <<>> /\ tree = NoTree /\ status = "start"

Preprocess ==
  /\ status = "start"
  /\ tokens' = Wrap(tokens) /\ status' = "parse"
  /\ UNCHANGED <<text, open, tree>>

-----------------------------------------------------------------------------
(* parse.                                                                  *)

Current == Head(tokens)
AdvanceToken == tokens' = Tail(tokens)

Wanted(types) == status = "parse" /\ tree = NoTree /\ Current.type \in types

AtomTypes == {"string", "integer", "numeric", "identifier"}

(* parseNull, or the parse... function for the token's type.               *)
Atom(token) == IF token = Identifier("null") THEN List(<<>>) ELSE token

(* A node has been read: an element of the innermost open list, or all.    *)
DeliveredFirst(node, lists) ==
  [lists EXCEPT ![Len(lists)] = <<node>> \o @]
Delivered(node, lists) ==
  [lists EXCEPT ![Len(lists)] = Append(@, node)]

Deliver(node, lists) ==
  IF lists = <<>> THEN tree' = node /\ open' = lists
  ELSE tree' = tree /\ open' = Delivered(node, lists)

ParseAtom ==
  /\ Wanted(AtomTypes)
  /\ Deliver(Atom(Current), open) /\ AdvanceToken
  /\ UNCHANGED <<text, status>>

OpenPair ==
  /\ Wanted({"("})
  /\ open' = Append(open, <<>>) /\ AdvanceToken
  /\ UNCHANGED <<text, tree, status>>

(* The ND_NULL at the end of the list, and the conses on the way back.     *)
ClosePair ==
  /\ Wanted({")"}) /\ open # <<>>
  /\ Deliver(List(Last(open)), Front(open)) /\ AdvanceToken
  /\ UNCHANGED <<text, status>>

ExpectEof ==
  /\ status = "parse" /\ tree # NoTree /\ Current.type = "eof"
  /\ AdvanceToken /\ status' = "done"
  /\ UNCHANGED <<text, open, tree>>

Misplaced ==
  \/ Wanted({"eof"})
  \/ Wanted({")"}) /\ open = <<>>
  \/ status = "parse" /\ tree # NoTree /\ Current.type # "eof"

UnexpectedTokenPassed ==
  Misplaced /\ status' = "unexpected" /\ AdvanceToken /\ UNCHANGED <<text, open, tree>>
UnexpectedToken ==
  Misplaced /\ status' = "unexpected" /\ UNCHANGED <<text, tokens, open, tree>>

Ended == status \in {"done", "unexpected"} /\ UNCHANGED vars

Step ==
  \/ Preprocess \/ ParseAtom \/ OpenPair \/ ClosePair \/ ExpectEof \/ UnexpectedToken

Next == Step \/ Ended

Spec == Init /\ [][Next]_vars

=============================================================================
