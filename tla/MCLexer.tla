------------------------------ MODULE MCLexer ------------------------------
(***************************************************************************)
(* The lexer on every short text, and on numbers and strings at their      *)
(* limits.                                                                 *)
(***************************************************************************)
EXTENDS Tokens

Alphabet ==
  {"a", "1", "-", ".", "space", "newline", "(", "\"", ";", "nul", "eof"}

Texts(n) == UNION {[1 .. k -> Alphabet] : k \in 0 .. n}

Numbers ==
  {sign \o n \o end :
      sign \in {<<>>, <<"-">>, <<"+">>},
      n \in {<<"1", "2", "7">>, <<"1", "2", "8">>, <<"1", ".", "5">>, <<"0", "0", "9">>,
             <<"1", "1", "1", "1">>, <<"3", "-">>},
      end \in {<<>>, <<"space">>, <<")">>}}

(* Strings that almost fill the buffer, fill it, and overrun it, with the  *)
(* quote at the end and without.                                           *)
Quoted ==
  {before \o <<"\"">> \o text \o end :
      before \in {<<>>, <<"a">>, <<"\"", "a", "\"">>},
      text \in UNION {[1 .. n -> {"a", "space", "nul"}] : n \in 2 .. 5},
      end \in {<<>>, <<"\"">>, <<"\"", "a">>}}

MCSources == Texts(4) \cup Numbers \cup Quoted

=============================================================================
