------------------------------ MODULE MCParser ------------------------------
(***************************************************************************)
(* The parser on every short token list.                                   *)
(***************************************************************************)
EXTENDS Grammar

Vocabulary ==
  {LeftParen, RightParen, Identifier("null"), Identifier("x"), Integer(1)}

MCTexts ==
  {ts \o <<Mark("eof")>> : ts \in UNION {[1 .. k -> Vocabulary] : k \in 0 .. 5}}

=============================================================================
