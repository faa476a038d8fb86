------------------------------- MODULE Tokens -------------------------------
(***************************************************************************)
(* What the lexer promises about its tokens.                               *)
(***************************************************************************)
EXTENDS Lexer

TokenTypes ==
  {"(", ")", "string", "numeric", "integer", "identifier", "eof"}

(* The chunk buffer holds what fits, a comment leaves it empty, and only   *)
(* the last token is an end of input.                                      *)
TypeOK ==
  /\ at \in 1 .. (Len(source) + 1)
  /\ reading \in {"text", "comment", "string"}
  /\ Len(chunk) <= ChunkBufferSize
  /\ reading = "comment" => chunk = <<>>
  /\ \A i \in 1 .. Len(tokens) :
       /\ tokens[i].type \in TokenTypes
       /\ tokens[i].type = "eof" <=> status = "done" /\ i = Len(tokens)
  /\ status \in {"run", "done", "illegal", "overrun", "range"}

-----------------------------------------------------------------------------
(* The tokens of a text, told without a buffer: first which intervals of   *)
(* characters are strings and comments, then which make a token.           *)

Least(S) == CHOOSE m \in S : \A n \in S : m <= n

(* What ends the interval that a quote, a semicolon or an end begins.      *)
Closers(c) ==
  CASE c = "\"" -> {"\""} [] c = ";" -> {"newline", "eof"} [] c = "eof" -> {}

Regions ==
  LET begins(i) == {j \in i .. Len(source) : source[j] \in {"\"", ";", "eof"}}
      closes(i) == {j \in (i + 1) .. Len(source) : source[j] \in Closers(source[i])}
      from[i \in 1 .. (Len(source) + 1)] ==
        IF begins(i) = {} THEN {}
        ELSE LET first == Least(begins(i))
                 last  == Least(closes(first) \cup {Len(source)})
             IN {<<first, last>>} \cup from[last + 1]
  IN from[1]

Strings == {r \in Regions : source[r[1]] = "\""}
Quotes  == {r \in Strings : r[1] # r[2] /\ source[r[2]] = "\""}

Outside == (1 .. Len(source)) \ UNION {r[1] .. r[2] : r \in Regions}

(* The longest runs of ordinary characters, and the brackets.              *)
Runs ==
  LET ordinary == {i \in Outside : source[i] \notin Spaces \cup Reserved}
      lastFrom(i) == Least({j \in i .. Len(source) : j + 1 \notin ordinary})
  IN {<<i, lastFrom(i)>> : i \in {j \in ordinary : j - 1 \notin ordinary}}

Brackets == {<<i, i>> : i \in {j \in Outside : source[j] \in {"(", ")", "nul"}}}

(* A string ends for its readers at its first '\0'.                        *)
Zeros(r) == {i \in r[1] .. r[2] : source[i] = "nul"}

TokenOf(r) ==
  CASE source[r[1]] = "\""       ->
         String(SubSeq(source, r[1] + 1, Least(Zeros(r) \cup {r[2]}) - 1))
    [] source[r[1]] \in {"(", ")"} -> [type |-> source[r[1]]]
    [] source[r[1]] = "nul"      -> Integer(0)
    [] OTHER                     -> Classified(SubSeq(source, r[1], r[2]))

(* All of them, from left to right.                                        *)
Spans ==
  LET spans == Runs \cup Brackets \cup Quotes
      place(r) == Cardinality({q \in spans : q[1] <= r[1]})
  IN [i \in 1 .. Cardinality(spans) |-> CHOOSE r \in spans : place(r) = i]

(* The tokens are those of the text, each cut where the characters around  *)
(* it say: though the buffer is shared by chunks and strings, and a quote, *)
(* a comment or the end may come right behind a chunk.                     *)
TokensOfText ==
  status = "done" =>
    tokens = [i \in 1 .. Len(Spans) |-> TokenOf(Spans[i])] \o <<[type |-> "eof"]>>

(* A text is refused for a string without an end only, and undefined only  *)
(* with a token longer than the buffer or a number above IntMax.           *)
StopsForAReason ==
  /\ status = "illegal" =>
       \E r \in Strings : r \notin Quotes \/ \E i \in r[1] .. r[2] : source[i] = "eof"
  /\ status = "overrun" =>
       \/ \E r \in Runs : r[2] - r[1] >= ChunkBufferSize
       \/ \E r \in Strings : r[2] - r[1] > ChunkBufferSize + (IF r \in Quotes THEN 1 ELSE 0)
  /\ status = "range" =>
       \E r \in Runs : LET s == SubSeq(source, r[1], r[2])
                       IN IsInteger(s) /\ Magnitude(s) > IntMax

(* The lexer comes to the end of every input.                              *)
LexerEnds == <>(status # "run")

=============================================================================
