------------------------------ MODULE Messages ------------------------------
(***************************************************************************)
(* What lispc says of the texts that it refuses.                           *)
(***************************************************************************)
EXTENDS Driver

(* The tokens of a text, as the text itself tells them.                    *)
Spelling == INSTANCE Tokens WITH tokens <- lexed, status <- lexing

TokensWritten ==
  LET spans == Spelling!Spans
  IN [i \in 1 .. Len(spans) |-> Named(Spelling!TokenOf(spans[i]))]

Opened(ts, n) ==
  Cardinality({i \in 1 .. n : ts[i].type = "("}) - Cardinality({i \in 1 .. n : ts[i].type = ")"})

Balanced(ts) == Opened(ts, Len(ts)) = 0 /\ \A n \in 1 .. Len(ts) : Opened(ts, n) >= 0

-----------------------------------------------------------------------------
(* The tokens around a text that make a call of it, and the place behind   *)
(* the bracket that closes the first one, or behind all of them.           *)
Opening == [type |-> "("]
Closing == [type |-> ")"]
Around ==
  <<Opening, Opening, Identifier("lambda"), Opening, Closing>>
    \o TokensWritten \o <<Closing, Closing>>

Beyond(ts) ==
  Min({n + 1 : n \in {m \in 1 .. Len(ts) : Opened(ts, m) = 0}} \cup {Len(ts) + 1})

(* A text is refused for the brackets it has only, and the message shows   *)
(* the first token that no bracket encloses, be it one that was added, or  *)
(* nothing if brackets are left open: though numbers are written anew.     *)
MisfitShown ==
  parsing = "unexpected" =>
    LET ts == Around
        n  == Beyond(ts)
    IN /\ ~Balanced(TokensWritten)
       /\ Complaint = <<"Unexpected token">> \o (IF n > Len(ts) THEN <<>> ELSE Dump(ts[n]))

=============================================================================
