----------------------------- MODULE LexerProofs -----------------------------
(***************************************************************************)
(* Proofs about the lexer, for all texts and buffer sizes.                 *)
(***************************************************************************)
EXTENDS Tokens, SequenceTheorems, FiniteSetTheorems, WellFoundedInduction, TLAPS

Characters == {"eof"} \cup UNION {Range(s) : s \in Sources}

(* What a lexer can put into the list, before the end of the input.        *)
Chunks == {s \in Seq(Characters) : s # <<>> /\ Len(s) <= ChunkBufferSize}
Copies == {Copied(s) : s \in Seq(Characters)}
Numbers == {s \in Chunks : IsInteger(s) /\ ~ (Magnitude(s) > IntMax)}

Inner ==
  {Numeric, Integer(0), [type |-> "("], [type |-> ")"]}
    \cup {Integer(Value(s)) : s \in Numbers} \cup {Identifier(s) : s \in Chunks}
    \cup {String(s) : s \in Copies}

End == [type |-> "eof"]

Buffers ==
  /\ source \in Seq(Characters)
  /\ at \in 1 .. (Len(source) + 1)
  /\ reading \in {"text", "comment", "string"}
  /\ chunk \in Seq(Characters) /\ Len(chunk) <= ChunkBufferSize
  /\ reading = "comment" => chunk = <<>>
  /\ status \in {"run", "done", "illegal", "overrun", "range"}

Listed ==
  \/ status # "done" /\ tokens \in Seq(Inner)
  \/ status = "done" /\ \E ts \in Seq(Inner) : tokens = Append(ts, End)

IInv == Buffers /\ Listed

(* Every token has its type, and only the end has type "eof".              *)
LEMMA InnerFacts ==
  ASSUME NEW t \in Inner PROVE t.type \in TokenTypes \ {"eof"}
  BY DEF Inner, Numeric, Integer, Identifier, String, TokenTypes

(* Reading on stays within the text and the end behind it.                 *)
LEMMA Consumed ==
  ASSUME Buffers, Consume, UNCHANGED source
  PROVE  at' \in 1 .. (Len(source') + 1)
  BY DEF Buffers, Consume

(* A character is a string of its own.                                     *)
LEMMA CharFacts == ASSUME Buffers PROVE Char \in Characters
  <1>1. CASE at > Len(source)
    <2>1. "eof" \in Characters
      BY DEF Characters
    <2>. QED  BY <1>1, <2>1 DEF Char
  <1>2. CASE ~ (at > Len(source))
    <2>1. at \in 1 .. Len(source) /\ source \in Seq(Characters)
      BY <1>2 DEF Buffers
    <2>. QED  BY <1>2, <2>1 DEF Char
  <1>. QED  BY <1>1, <1>2

(* A chunk becomes one token.                                              *)
LEMMA ChunkedFacts ==
  ASSUME IInv, status = "run", ~ OutOfRange
  PROVE  Chunked \in Seq(Inner)
  <1>1. tokens \in Seq(Inner) /\ chunk \in Seq(Characters) /\ Len(chunk) <= ChunkBufferSize
    BY DEF IInv, Buffers, Listed
  <1>2. CASE chunk = <<>>
    BY <1>1, <1>2 DEF Chunked
  <1>3. CASE chunk # <<>>
    <2>1. chunk \in Chunks
      BY <1>1, <1>3 DEF Chunks
    <2>2. /\ Numeric \in Inner /\ Identifier(chunk) \in Inner
          /\ IsInteger(chunk) => Integer(Value(chunk)) \in Inner
      <3>1. IsInteger(chunk) => chunk \in Numbers
        BY <1>3, <2>1 DEF OutOfRange, Numbers
      <3>. QED  BY <2>1, <3>1 DEF Inner
    <2>3. Classified(chunk) \in Inner
      BY <2>2 DEF Classified
    <2> HIDE DEF Inner
    <2>. QED  BY <1>1, <1>3, <2>3 DEF Chunked
  <1>. QED  BY <1>2, <1>3

(* The buffer is empty again.                                              *)
LEMMA Tokenized ==
  ASSUME IInv, status = "run", NEW more, TokenizeChunk(more)
  PROVE  /\ chunk' = <<>>
         /\ more \in Seq(Inner) => tokens' \in Seq(Inner)
         /\ more = <<End>> => \E ts \in Seq(Inner) : tokens' = Append(ts, End)
         /\ more = <<>> => tokens' = Chunked
         /\ \A t : more = <<t>> => tokens' = Append(Chunked, t)
  <1>2. Chunked \in Seq(Inner)
    BY ChunkedFacts DEF TokenizeChunk
  <1>3. chunk' = <<>> /\ tokens' = Chunked \o more
    BY DEF TokenizeChunk
  <1>4. more \in Seq(Inner) => tokens' \in Seq(Inner)
    <2> HIDE DEF Inner
    <2>. QED  BY <1>2, <1>3
  <1>5. \A t : more = <<t>> => tokens' = Append(Chunked, t)
    <2> HIDE DEF Inner
    <2>. QED  BY <1>2, <1>3
  <1>6. more = <<>> => tokens' = Chunked
    <2> HIDE DEF Inner
    <2>. QED  BY <1>2, <1>3
  <1>. QED  BY <1>2, <1>3, <1>4, <1>5, <1>6

(* A step within the text: what was in the buffer is a token now.          *)
LEMMA TextStep ==
  ASSUME IInv, status = "run", NEW more \in Seq(Inner), TokenizeChunk(more), Consume,
         UNCHANGED <<source, status>>, reading' \in {"text", "comment", "string"}
  PROVE  IInv'
  <1>1. chunk' = <<>> /\ tokens' \in Seq(Inner)
    BY Tokenized
  <1>2. Buffers'
    <2>1. at' \in 1 .. (Len(source') + 1)
      BY Consumed DEF IInv
    <2>2. <<>> \in Seq(Characters) /\ Len(<<>>) = 0 /\ 0 <= ChunkBufferSize
      BY LexerAssumption
    <2>. QED  BY <1>1, <2>1, <2>2 DEF IInv, Buffers
  <1>3. Listed'
    BY <1>1 DEF Listed
  <1>. QED  BY <1>2, <1>3 DEF IInv

(* A step that adds a character to the buffer.                             *)
LEMMA BufferStep ==
  ASSUME IInv, status = "run", reading # "comment", AppendChar,
         UNCHANGED <<source, reading, tokens, status>>
  PROVE  IInv'
  <1>1. Buffers /\ Char \in Characters
    BY CharFacts DEF IInv
  <1>2. Len(chunk) < ChunkBufferSize /\ chunk' = Append(chunk, Char) /\ Consume
    BY DEF AppendChar, Room
  <1>3. chunk' \in Seq(Characters) /\ Len(chunk') <= ChunkBufferSize
    BY <1>1, <1>2, LexerAssumption DEF Buffers
  <1>4. Buffers'
    BY <1>1, <1>2, <1>3, Consumed DEF Buffers
  <1>5. Listed'
    BY DEF IInv, Listed
  <1>. QED  BY <1>4, <1>5 DEF IInv

(* A step that changes neither buffer nor tokens.                          *)
LEMMA QuietStep ==
  ASSUME IInv, status = "run", UNCHANGED <<source, chunk, tokens>>,
         Consume \/ UNCHANGED at, reading' \in {reading, "text"},
         status' \in {"run", "illegal", "overrun", "range"}
  PROVE  IInv'
  <1>1. at' \in 1 .. (Len(source') + 1)
    BY Consumed DEF IInv, Buffers
  <1>2. Buffers'
    BY <1>1 DEF IInv, Buffers
  <1>3. Listed'
    BY DEF IInv, Listed
  <1>. QED  BY <1>2, <1>3 DEF IInv

(* At first nothing is read.                                               *)
LEMMA InitEstablishes == ASSUME Init PROVE IInv
  <1>1. source \in Seq(Characters)
    <2>1. source \in Sources /\ source \in Seq(Range(source))
      BY LexerAssumption DEF Init
    <2>2. Range(source) \subseteq Characters
      BY <2>1 DEF Characters
    <2>. QED  BY <2>1, <2>2, SeqMonotonic, Zenon
  <1>2. Buffers
    BY <1>1, LexerAssumption DEF Init, Buffers
  <1>3. Listed
    BY DEF Init, Listed
  <1>. QED  BY <1>2, <1>3 DEF IInv

(* Every step keeps the invariant.                                         *)
LEMMA NextKeeps == ASSUME IInv, [Next]_vars PROVE IInv'
  <1>0. <<>> \in Seq(Inner)
    OBVIOUS
  <1>1. CASE SkipChar
    <2>1. status = "run" /\ reading = "text" /\ TokenizeChunk(<<>>) /\ Consume
          /\ UNCHANGED <<source, reading, status>>
      BY <1>1 DEF SkipChar, Reads
    <2>. QED  BY <1>0, <2>1, TextStep
  <1>2. CASE ReservedChar
    <2>1. status = "run" /\ reading = "text" /\ TokenizeChunk(<<ReservedToken(Char)>>)
          /\ Consume /\ Char \in {"(", ")", "nul"} /\ UNCHANGED <<source, reading, status>>
      BY <1>2 DEF ReservedChar, Reads
    <2>2. ReservedToken(Char) \in Inner
      BY <2>1 DEF ReservedToken, Inner
    <2>3. <<ReservedToken(Char)>> \in Seq(Inner)
      <3> HIDE DEF Inner
      <3>. QED  BY <2>2
    <2>. QED  BY <2>1, <2>3, TextStep
  <1>3. CASE BeginComment
    <2>1. status = "run" /\ TokenizeChunk(<<>>) /\ Consume /\ reading' = "comment"
          /\ UNCHANGED <<source, status>>
      BY <1>3 DEF BeginComment, Reads
    <2>. QED  BY <1>0, <2>1, TextStep
  <1>4. CASE BeginString
    <2>1. status = "run" /\ TokenizeChunk(<<>>) /\ Consume /\ reading' = "string"
          /\ UNCHANGED <<source, status>>
      BY <1>4 DEF BeginString, Reads
    <2>. QED  BY <1>0, <2>1, TextStep
  <1>5. CASE EndOfInput
    <2>1. status = "run" /\ reading = "text" /\ TokenizeChunk(<<End>>) /\ Consume
          /\ status' = "done" /\ UNCHANGED <<source, reading>>
      BY <1>5 DEF EndOfInput, Reads, End
    <2>2. chunk' = <<>> /\ \E ts \in Seq(Inner) : tokens' = Append(ts, End)
      BY <2>1, Tokenized
    <2>3. <<>> \in Seq(Characters) /\ Len(<<>>) = 0 /\ 0 <= ChunkBufferSize
      BY LexerAssumption
    <2>4. Buffers'
      BY <2>1, <2>2, <2>3, Consumed DEF IInv, Buffers
    <2>5. Listed'
      BY <2>1, <2>2 DEF Listed
    <2>. QED  BY <2>4, <2>5 DEF IInv
  <1>6. CASE ChunkChar
    <2>1. status = "run" /\ reading # "comment" /\ AppendChar
          /\ UNCHANGED <<source, reading, tokens, status>>
      BY <1>6 DEF ChunkChar
    <2>. QED  BY <2>1, BufferStep
  <1>7. CASE StringChar
    <2>1. status = "run" /\ reading # "comment" /\ AppendChar
          /\ UNCHANGED <<source, reading, tokens, status>>
      BY <1>7 DEF StringChar
    <2>. QED  BY <2>1, BufferStep
  <1>8. CASE CommentChar
    <2>1. status = "run" /\ Consume /\ UNCHANGED <<source, reading, chunk, tokens, status>>
      BY <1>8 DEF CommentChar
    <2>. QED  BY <2>1, QuietStep
  <1>9. CASE EndComment
    <2>1. status = "run" /\ Consume /\ reading' = "text"
          /\ UNCHANGED <<source, chunk, tokens, status>>
      BY <1>9 DEF EndComment, Reads, AfterComment
    <2>. QED  BY <2>1, QuietStep
  <1>10. CASE EndString
    <2>1. /\ status = "run" /\ tokens' = Append(tokens, String(Copied(chunk)))
          /\ chunk' = <<>> /\ Consume /\ reading' = "text" /\ UNCHANGED <<source, status>>
      BY <1>10 DEF EndString, Reads, AfterString
    <2>2. tokens \in Seq(Inner) /\ chunk \in Seq(Characters)
      BY <2>1 DEF IInv, Buffers, Listed
    <2>3. String(Copied(chunk)) \in Inner
      BY <2>2 DEF Inner, Copies
    <2>4. tokens' \in Seq(Inner)
      <3> HIDE DEF Inner
      <3>. QED  BY <2>1, <2>2, <2>3
    <2>5. <<>> \in Seq(Characters) /\ Len(<<>>) = 0 /\ 0 <= ChunkBufferSize
      BY LexerAssumption
    <2>6. Buffers'
      BY <2>1, <2>5, Consumed DEF IInv, Buffers
    <2>7. Listed'
      BY <2>1, <2>4 DEF Listed
    <2>. QED  BY <2>6, <2>7 DEF IInv
  <1>11. CASE IllegalString
    <2>1. status = "run" /\ status' = "illegal"
          /\ UNCHANGED <<source, at, reading, chunk, tokens>>
      BY <1>11 DEF IllegalString, Reads
    <2>. QED  BY <2>1, QuietStep
  <1>12. CASE Undefined
    <2>1. status = "run" /\ status' \in {"overrun", "range"}
          /\ UNCHANGED <<source, at, reading, chunk, tokens>>
      BY <1>12 DEF Undefined
    <2>. QED  BY <2>1, QuietStep
  <1>13. CASE UNCHANGED vars
    BY <1>13 DEF vars, IInv, Buffers, Listed
  <1>14. CASE Ended
    BY <1>14, <1>13 DEF Ended
  <1>. QED
    BY <1>1, <1>2, <1>3, <1>4, <1>5, <1>6, <1>7, <1>8, <1>9, <1>10, <1>11, <1>12, <1>13,
       <1>14 DEF Next, Step

(* Whatever the text and the size of the buffer, every token is made of    *)
(* the characters that the buffer holds, and the end comes last.           *)
THEOREM Invariance == Spec => []IInv
  <1>1. Init => IInv
    BY InitEstablishes
  <1>2. IInv /\ [Next]_vars => IInv'
    BY NextKeeps
  <1>. QED  BY <1>1, <1>2, PTL DEF Spec

(* The buffer never holds more than it can, comments find it empty, and    *)
(* the list of tokens ends with the end of the input once it is complete,  *)
(* and has no other end in it.                                             *)
THEOREM TypeCorrect == Spec => []TypeOK
  <1>1. ASSUME IInv PROVE TypeOK
    <2>1. Buffers
      BY <1>1 DEF IInv
    <2>2. ASSUME NEW i \in 1 .. Len(tokens)
          PROVE  /\ tokens[i].type \in TokenTypes
                 /\ tokens[i].type = "eof" <=> status = "done" /\ i = Len(tokens)
      <3>1. CASE status # "done" /\ tokens \in Seq(Inner)
        <4>1. tokens[i] \in Inner
          <5> HIDE DEF Inner
          <5>. QED  BY <3>1, ElementOfSeq
        <4>. QED  BY <3>1, <4>1, InnerFacts
      <3>2. CASE status = "done" /\ \E ts \in Seq(Inner) : tokens = Append(ts, End)
        <4>1. PICK ts \in Seq(Inner) : tokens = Append(ts, End)
          BY <3>2
        <4>2. /\ Len(tokens) = Len(ts) + 1 /\ Len(ts) \in Nat
              /\ i \in 1 .. Len(ts) => tokens[i] \in Inner
              /\ i = Len(ts) + 1 => tokens[i] = End
          <5> HIDE DEF Inner, End
          <5>. QED  BY <4>1
        <4>3. CASE i \in 1 .. Len(ts)
          BY <3>2, <4>2, <4>3, InnerFacts
        <4>4. CASE i = Len(ts) + 1
          BY <3>2, <4>2, <4>4 DEF End, TokenTypes
        <4>. QED  BY <4>2, <4>3, <4>4
      <3>. QED  BY <1>1, <3>1, <3>2 DEF IInv, Listed
    <2>. QED  BY <2>1, <2>2 DEF TypeOK, Buffers
  <1>. QED  BY <1>1, Invariance, PTL

-----------------------------------------------------------------------------
(* The regions of a text.                                                  *)

(* A set of natural numbers has a least one.                               *)
LEMMA LeastNumber ==
  ASSUME NEW U, U \subseteq Nat, U # {}
  PROVE  Least(U) \in U /\ \A u \in U : Least(U) <= u
  <1> DEFINE R == OpToRel(<, Nat)
  <1>1. \A i, j \in Nat : <<i, j>> \in R <=> i < j
    BY DEF OpToRel
  <1>2. IsWellFoundedOn(R, Nat)
    BY NatLessThanWellFounded
  <1> HIDE DEF R
  <1>3. PICK k \in U : \A u \in U : ~ (<<u, k>> \in R)
    BY <1>2, WFMin
  <1>4. \A u \in U : k <= u
    <2> TAKE u \in U
    <2>1. u \in Nat /\ k \in Nat
      BY <1>3
    <2>2. ~ (u < k)
      BY <1>1, <1>3, <2>1
    <2>. QED  BY <2>1, <2>2
  <1>. QED  BY <1>3, <1>4 DEF Least

(* What holds of n, and of each smaller number from m on if of the next,   *)
(* holds of all of them.                                                   *)
LEMMA DownwardInduction ==
  ASSUME NEW m \in Nat, NEW n \in Nat, NEW good, n \in good,
         \A i \in m .. (n - 1) : i + 1 \in good => i \in good
  PROVE  m .. n \subseteq good
  <1> SUFFICES ASSUME NEW bad \in m .. n, bad \notin good  PROVE FALSE
    OBVIOUS
  <1> DEFINE U == {k \in 0 .. (n - m) : n - k \notin good}
  <1>1. n - bad \in U
    <2>1. n - bad \in 0 .. (n - m) /\ n - (n - bad) = bad
      OBVIOUS
    <2>. QED  BY <2>1
  <1>2. U \subseteq Nat /\ U # {}
    <2>1. 0 .. (n - m) \subseteq Nat
      OBVIOUS
    <2>. QED  BY <1>1, <2>1
  <1>3. PICK k \in U : \A u \in U : k <= u
    <2> HIDE DEF U
    <2>. QED  BY <1>2, LeastNumber
  <1>4. k \in 0 .. (n - m) /\ n - k \notin good
    BY <1>3
  <1>5. k # 0
    <2>1. n - 0 = n
      OBVIOUS
    <2>. QED  BY <1>4, <2>1
  <1>6. k - 1 \in 0 .. (n - m) /\ k - 1 < k
    BY <1>4, <1>5
  <1>7. n - (k - 1) \in good
    BY <1>3, <1>6
  <1>8. n - k \in m .. (n - 1) /\ (n - k) + 1 = n - (k - 1)
    BY <1>4, <1>5
  <1>. QED  BY <1>4, <1>7, <1>8

(* The characters that open a region.  A quote and a semicolon get names.  *)
Quote == "\""
Semicolon == ";"
Openers == {Quote, Semicolon, "eof"}

(* The definitions of the spans, with the names.                           *)
LEMMA Named ==
  /\ Quotes = {r \in Regions : source[r[1]] = Quote /\ r[1] # r[2] /\ source[r[2]] = Quote}
  /\ Strings = {r \in Regions : source[r[1]] = Quote}
  /\ Reserved = {"(", ")", "nul"} \cup Openers
  /\ \A c \in Spaces \cup {"(", ")", "nul"} : c \notin Openers
  /\ Quote # Semicolon /\ Quote # "eof" /\ Semicolon # "eof" /\ Quote # "nul"
  /\ Closers(Quote) = {Quote} /\ Closers(Semicolon) = {"newline", "eof"} /\ Closers("eof") = {}
  /\ \A r :
       /\ source[r[1]] = Quote =>
            TokenOf(r) = String(SubSeq(source, r[1] + 1, Least(Zeros(r) \cup {r[2]}) - 1))
       /\ source[r[1]] \notin Reserved => TokenOf(r) = Classified(SubSeq(source, r[1], r[2]))
  <1>1. Quotes = {r \in Regions : source[r[1]] = Quote /\ r[1] # r[2] /\ source[r[2]] = Quote}
    BY Zenon DEF Quotes, Strings, Quote
  <1>2. Strings = {r \in Regions : source[r[1]] = Quote}
    BY Zenon DEF Strings, Quote
  <1>3. Reserved = {"(", ")", "nul"} \cup Openers
    BY Zenon DEF Reserved, Openers, Quote, Semicolon
  <1>4. \A c \in Spaces \cup {"(", ")", "nul"} : c \notin Openers
    BY Zenon DEF Spaces, Openers, Quote, Semicolon
  <1>5. Quote # Semicolon /\ Quote # "eof" /\ Semicolon # "eof" /\ Quote # "nul"
    BY Zenon DEF Quote, Semicolon
  <1>6. Closers(Quote) = {Quote} /\ Closers(Semicolon) = {"newline", "eof"} /\ Closers("eof") = {}
    BY Zenon DEF Closers, Quote, Semicolon
  <1>7. \A r :
       /\ source[r[1]] = Quote =>
            TokenOf(r) = String(SubSeq(source, r[1] + 1, Least(Zeros(r) \cup {r[2]}) - 1))
       /\ source[r[1]] \notin Reserved => TokenOf(r) = Classified(SubSeq(source, r[1], r[2]))
    BY Zenon DEF TokenOf, Quote, Reserved
  <1>. QED  BY <1>1, <1>2, <1>3, <1>4, <1>5, <1>6, <1>7, Zenon

Begins(i) == {j \in i .. Len(source) : source[j] \in Openers}
Closes(i) == {j \in (i + 1) .. Len(source) : source[j] \in Closers(source[i])}
EndOf(i)  == Least(Closes(i) \cup {Len(source)})

(* The regions from i on, if f has those from each later place on.         *)
RegionsAt(f, i) ==
  IF Begins(i) = {} THEN {}
  ELSE {<<Least(Begins(i)), EndOf(Least(Begins(i)))>>} \cup f[EndOf(Least(Begins(i))) + 1]

From == CHOOSE f : f = [i \in 1 .. (Len(source) + 1) |-> RegionsAt(f, i)]

(* The regions of the text are those from its first place on.              *)
LEMMA RegionsFrom == Regions = From[1]
  BY Zenon DEF Regions, From, RegionsAt, EndOf, Begins, Closes, Openers, Quote, Semicolon

(* A text is a sequence of characters.                                     *)
Typed == source \in Seq(Characters) /\ Len(source) \in Nat

(* A region begins and ends within the text.                               *)
LEMMA BeginsFacts ==
  ASSUME Typed, NEW i \in 1 .. (Len(source) + 1), Begins(i) # {}
  PROVE  /\ Least(Begins(i)) \in i .. Len(source) /\ source[Least(Begins(i))] \in Openers
         /\ \A j \in i .. (Least(Begins(i)) - 1) : source[j] \notin Openers
  <1>1. Begins(i) \subseteq Nat
    BY DEF Begins, Typed
  <1>2. Least(Begins(i)) \in Begins(i) /\ \A n \in Begins(i) : Least(Begins(i)) <= n
    BY <1>1, LeastNumber
  <1>3. PICK k : k = Least(Begins(i))
    OBVIOUS
  <1>4. k \in i .. Len(source) /\ source[k] \in Openers
    BY <1>2, <1>3 DEF Begins
  <1>5. ASSUME NEW j \in i .. (k - 1)  PROVE source[j] \notin Openers
    <2>1. j \in i .. Len(source) /\ ~ (k <= j)
      BY <1>4 DEF Typed
    <2>. QED  BY <1>2, <1>3, <2>1 DEF Begins
  <1>. QED  BY <1>3, <1>4, <1>5

(* A region ends at the first character that closes it, or with the text.  *)
LEMMA EndOfFacts ==
  ASSUME Typed, NEW i \in 1 .. Len(source)
  PROVE  /\ EndOf(i) \in i .. Len(source)
         /\ \A j \in (i + 1) .. (EndOf(i) - 1) : source[j] \notin Closers(source[i])
         /\ EndOf(i) = Len(source) \/ (source[EndOf(i)] \in Closers(source[i]) /\ EndOf(i) > i)
         /\ \A j \in (i + 1) .. Len(source) :
              /\ source[j] \in Closers(source[i])
              /\ \A k \in (i + 1) .. (j - 1) : source[k] \notin Closers(source[i])
              => EndOf(i) = j
         /\ (\A j \in (i + 1) .. Len(source) : source[j] \notin Closers(source[i]))
              => EndOf(i) = Len(source)
  <1> DEFINE S == Closes(i) \cup {Len(source)}
  <1>1. S \subseteq Nat /\ S # {} /\ S \subseteq i .. Len(source)
    BY DEF Closes, Typed
  <1>2. PICK e : e = EndOf(i)
    OBVIOUS
  <1>3. e \in S /\ \A n \in S : e <= n
    <2> HIDE DEF S
    <2>1. Least(S) \in S /\ \A n \in S : Least(S) <= n
      BY <1>1, LeastNumber
    <2>2. e = Least(S)
      BY <1>2 DEF EndOf, S
    <2>. QED  BY <2>1, <2>2
  <1>4. e \in i .. Len(source) /\ e \in Nat
    BY <1>1, <1>3
  <1>5. ASSUME NEW j \in (i + 1) .. (e - 1)  PROVE source[j] \notin Closers(source[i])
    <2>1. j \in (i + 1) .. Len(source) /\ ~ (e <= j)
      BY <1>4 DEF Typed
    <2>. QED  BY <1>3, <2>1 DEF Closes
  <1>6. e = Len(source) \/ (source[e] \in Closers(source[i]) /\ e > i)
    BY <1>3 DEF Closes
  <1>7. ASSUME NEW j \in (i + 1) .. Len(source), source[j] \in Closers(source[i]),
               \A k \in (i + 1) .. (j - 1) : source[k] \notin Closers(source[i])
        PROVE  e = j
    <2>1. e <= j
      BY <1>3, <1>7 DEF Closes
    <2>2. e > i
      BY <1>4, <1>6, <1>7 DEF Typed
    <2>3. CASE e < j
      <3>1. e \in (i + 1) .. (j - 1) /\ e # Len(source)
        BY <1>4, <2>2, <2>3 DEF Typed
      <3>. QED  BY <1>6, <1>7, <3>1
    <2>. QED  BY <1>4, <2>1, <2>3 DEF Typed
  <1>8. ASSUME \A j \in (i + 1) .. Len(source) : source[j] \notin Closers(source[i])
        PROVE  e = Len(source)
    <2>1. Closes(i) = {}
      BY <1>8 DEF Closes
    <2>. QED  BY <1>3, <2>1
  <1>. QED  BY <1>2, <1>4, <1>5, <1>6, <1>7, <1>8

(* What RegionsAt makes of a function at a place depends on its values at  *)
(* later places only, so that there is a function that follows it.         *)
LEMMA FromExists ==
  ASSUME Typed
  PROVE  /\ From = [i \in 1 .. (Len(source) + 1) |-> RegionsAt(From, i)]
         /\ \A i \in 1 .. (Len(source) + 1) : From[i] = RegionsAt(From, i)
  <1> DEFINE n == Len(source) + 1
             D == 1 .. n
  <1>1. ASSUME NEW f, NEW g, NEW i \in D, \A j \in (i + 1) .. n : f[j] = g[j]
        PROVE  RegionsAt(f, i) = RegionsAt(g, i)
    <2>1. CASE Begins(i) = {}
      BY <2>1 DEF RegionsAt
    <2>2. CASE Begins(i) # {}
      <3>1. PICK b : b = Least(Begins(i))
        OBVIOUS
      <3>2. b \in i .. Len(source)
        BY <2>2, <3>1, BeginsFacts
      <3>3. EndOf(b) \in b .. Len(source)
        BY <3>2, EndOfFacts DEF Typed
      <3>4. PICK e : e = EndOf(b)
        OBVIOUS
      <3>5. e + 1 \in (i + 1) .. n
        BY <3>2, <3>3, <3>4 DEF Typed
      <3>6. f[e + 1] = g[e + 1]
        BY <1>1, <3>5
      <3>. QED  BY <2>2, <3>1, <3>4, <3>6, Zenon DEF RegionsAt
    <2>. QED  BY <2>1, <2>2
  <1> DEFINE Follows(f, k) ==
               /\ f = [i \in D |-> f[i]]
               /\ \A i \in k .. n : f[i] = RegionsAt(f, i)
             good == {k \in 1 .. (n + 1) : \E f : Follows(f, k)}
  <1>2. n + 1 \in good
    <2>1. [i \in D |-> {}] = [i \in D |-> [j \in D |-> {}][i]]
      OBVIOUS
    <2>2. (n + 1) .. n = {} /\ n + 1 \in 1 .. (n + 1)
      BY DEF Typed
    <2>3. Follows([i \in D |-> {}], n + 1)
      BY <2>1, <2>2
    <2> HIDE DEF Follows
    <2>. QED  BY <2>2, <2>3
  <1>3. ASSUME NEW k \in 1 .. n, k + 1 \in good  PROVE k \in good
    <2>1. PICK f : Follows(f, k + 1)
      BY <1>3
    <2>2. PICK v : v = RegionsAt(f, k)
      OBVIOUS
    <2>3. PICK g : g = [i \in D |-> IF i = k THEN v ELSE f[i]]
      OBVIOUS
    <2>4. g = [i \in D |-> g[i]] /\ g[k] = v /\ \A i \in D : i # k => g[i] = f[i]
      BY <2>3
    <2>5. ASSUME NEW i \in k .. n  PROVE g[i] = RegionsAt(g, i)
      <3>1. i \in D /\ \A j \in (i + 1) .. n : j \in D /\ j # k
        BY DEF Typed
      <3>2. \A j \in (i + 1) .. n : f[j] = g[j]
        BY <2>4, <3>1
      <3>3. RegionsAt(f, i) = RegionsAt(g, i)
        <4> HIDE DEF n, D
        <4>. QED  BY <1>1, <3>1, <3>2
      <3>4. CASE i = k
        BY <2>2, <2>4, <3>3, <3>4
      <3>5. CASE i # k
        <4>1. i \in (k + 1) .. n
          BY <3>5 DEF Typed
        <4>2. f[i] = RegionsAt(f, i)
          BY <2>1, <4>1
        <4>. QED  BY <2>4, <3>1, <3>3, <3>5, <4>2
      <3>. QED  BY <3>4, <3>5
    <2>6. Follows(g, k)
      BY <2>4, <2>5
    <2>7. k \in 1 .. (n + 1)
      BY DEF Typed
    <2> HIDE DEF Follows
    <2>. QED  BY <2>6, <2>7
  <1>4. 1 \in good
    <2>1. 1 \in Nat /\ n + 1 \in Nat /\ (n + 1) - 1 = n /\ 1 \in 1 .. (n + 1)
      BY DEF Typed
    <2> HIDE DEF good, n
    <2>2. \A i \in 1 .. ((n + 1) - 1) : i + 1 \in good => i \in good
      BY <1>3, <2>1
    <2>3. 1 .. (n + 1) \subseteq good
      BY <1>2, <2>1, <2>2, DownwardInduction
    <2>. QED  BY <2>1, <2>3
  <1>5. PICK f : Follows(f, 1)
    BY <1>4
  <1>6. f = [i \in D |-> RegionsAt(f, i)]
    BY <1>5
  <1>7. From = [i \in D |-> RegionsAt(From, i)]
    BY <1>6 DEF From
  <1>8. \A i \in D : From[i] = RegionsAt(From, i)
    <2> HIDE DEF n
    <2>. QED  BY <1>7
  <1>. QED  BY <1>7, <1>8

(* The regions from a place on, told by its character.                     *)
LEMMA FromFacts ==
  ASSUME Typed, NEW i \in 1 .. (Len(source) + 1)
  PROVE  /\ i = Len(source) + 1 => From[i] = {}
         /\ i <= Len(source) /\ source[i] \notin Openers => From[i] = From[i + 1]
         /\ i <= Len(source) /\ source[i] \in Openers =>
              From[i] = {<<i, EndOf(i)>>} \cup From[EndOf(i) + 1]
  <1>1. \A j \in 1 .. (Len(source) + 1) : From[j] = RegionsAt(From, j)
    BY FromExists
  <1>2. ASSUME i = Len(source) + 1  PROVE From[i] = {}
    <2>1. Begins(i) = {}
      BY <1>2 DEF Begins, Typed
    <2>. QED  BY <1>1, <2>1 DEF RegionsAt
  <1>3. ASSUME i <= Len(source), source[i] \notin Openers  PROVE From[i] = From[i + 1]
    <2>1. Begins(i) = Begins(i + 1)
      <3>1. i .. Len(source) = {i} \cup ((i + 1) .. Len(source))
        BY <1>3 DEF Typed
      <3>. QED  BY <1>3, <3>1 DEF Begins
    <2>2. i + 1 \in 1 .. (Len(source) + 1)
      BY <1>3 DEF Typed
    <2>3. RegionsAt(From, i) = RegionsAt(From, i + 1)
      BY <2>1, Zenon DEF RegionsAt
    <2>. QED  BY <1>1, <2>2, <2>3
  <1>4. ASSUME i <= Len(source), source[i] \in Openers
        PROVE  From[i] = {<<i, EndOf(i)>>} \cup From[EndOf(i) + 1]
    <2>1. i \in Begins(i) /\ \A j \in Begins(i) : i <= j
      BY <1>4 DEF Begins, Typed
    <2>2. PICK b : b = Least(Begins(i))
      OBVIOUS
    <2>3. b \in i .. Len(source) /\ \A j \in i .. (b - 1) : source[j] \notin Openers
      BY <2>1, <2>2, BeginsFacts
    <2>4. b = i
      <3>1. b > i => i \in i .. (b - 1)
        BY <2>3 DEF Typed
      <3>. QED  BY <1>4, <2>3, <3>1 DEF Typed
    <2>5. Least(Begins(i)) = i /\ Begins(i) # {}
      BY <2>1, <2>2, <2>4
    <2>. QED  BY <1>1, <2>5, Zenon DEF RegionsAt
  <1>. QED  BY <1>2, <1>3, <1>4

(* These regions lie behind the place.                                     *)
Behind(i, r) ==
  /\ r = <<r[1], r[2]>> /\ r[1] \in i .. Len(source) /\ r[2] \in r[1] .. Len(source)
  /\ source[r[1]] \in Openers

(* All regions from a place on do.                                         *)
LEMMA FromBehind ==
  ASSUME Typed, NEW i \in 1 .. (Len(source) + 1), NEW r \in From[i]
  PROVE  Behind(i, r)
  <1> DEFINE n == Len(source) + 1
             good == {j \in 1 .. n : \A k \in j .. n : \A q \in From[k] : Behind(k, q)}
  <1>1. n \in good
    <2>1. \A k \in n .. n : k = n
      BY DEF Typed
    <2>2. From[n] = {} /\ n \in 1 .. n
      BY FromFacts DEF Typed
    <2>. QED  BY <2>1, <2>2
  <1>2. ASSUME NEW j \in 1 .. (n - 1), j + 1 \in good  PROVE j \in good
    <2>1. ASSUME NEW q \in From[j]  PROVE Behind(j, q)
      <3>1. \A k \in (j + 1) .. n : \A p \in From[k] : Behind(k, p)
        BY <1>2
      <3>2. j \in 1 .. Len(source)
        BY DEF Typed
      <3>3. CASE source[j] \notin Openers
        <4>1. q \in From[j + 1] /\ j + 1 \in (j + 1) .. n
          BY <2>1, <3>2, <3>3, FromFacts DEF Typed
        <4>2. Behind(j + 1, q)
          BY <3>1, <4>1
        <4>. QED  BY <3>2, <4>2 DEF Behind, Typed
      <3>4. CASE source[j] \in Openers
        <4>1. EndOf(j) \in j .. Len(source)
          BY <3>2, EndOfFacts
        <4>2. PICK e : e = EndOf(j)
          OBVIOUS
        <4>3. q = <<j, e>> \/ q \in From[e + 1]
          BY <2>1, <3>2, <3>4, <4>2, FromFacts DEF Typed
        <4>4. CASE q = <<j, e>>
          BY <3>2, <3>4, <4>1, <4>2, <4>4 DEF Behind, Typed
        <4>5. CASE q \in From[e + 1]
          <5>1. e + 1 \in (j + 1) .. n
            BY <4>1, <4>2 DEF Typed
          <5>2. Behind(e + 1, q)
            BY <3>1, <4>5, <5>1
          <5>. QED  BY <3>2, <4>1, <4>2, <5>2 DEF Behind, Typed
        <4>. QED  BY <4>3, <4>4, <4>5
      <3>. QED  BY <3>3, <3>4
    <2>2. ASSUME NEW k \in j .. n  PROVE \A q \in From[k] : Behind(k, q)
      <3>1. k = j \/ k \in (j + 1) .. n
        BY DEF Typed
      <3>. QED  BY <1>2, <2>1, <3>1
    <2>3. j \in 1 .. n
      BY DEF Typed
    <2>. QED  BY <2>2, <2>3
  <1>3. 1 .. n \subseteq good
    <2>1. 1 \in Nat /\ n \in Nat
      BY DEF Typed
    <2> HIDE DEF good, n
    <2>. QED  BY <1>1, <1>2, <2>1, DownwardInduction
  <1>4. i \in i .. n
    BY DEF Typed
  <1>. QED  BY <1>3, <1>4

-----------------------------------------------------------------------------
(* Reading a text from left to right.                                      *)

Ordinary == {i \in Outside : source[i] \notin Spaces \cup Reserved}
LastFrom(i) == Least({j \in i .. Len(source) : j + 1 \notin Ordinary})

AllSpans == Runs \cup Brackets \cup Quotes

(* No region contains both a place before f and one from f on.             *)
Cut(f) ==
  /\ f \in 1 .. (Len(source) + 1)
  /\ From[f] \subseteq Regions
  /\ \A r \in Regions : r[2] < f \/ r \in From[f]

(* ts are the tokens that begin before f.                                  *)
Increasing(ss) == \A i, j \in 1 .. Len(ss) : i < j => ss[i][1] < ss[j][1]
Before(ss, f) == \A r \in AllSpans : r[1] < f <=> \E i \in 1 .. Len(ss) : r = ss[i]

Told(f, ts) ==
  \E ss \in Seq(AllSpans) :
    Increasing(ss) /\ Before(ss, f) /\ ts = [i \in 1 .. Len(ss) |-> TokenOf(ss[i])]

(* Regions and spans are pairs of places.                                  *)
LEMMA RegionFacts ==
  ASSUME Typed, NEW r \in Regions
  PROVE  Behind(1, r)
  BY RegionsFrom, FromBehind DEF Typed

(* A run of ordinary characters goes on to the last of them.               *)
LEMMA OrdinaryFacts ==
  ASSUME Typed, NEW i \in Ordinary
  PROVE  /\ i \in 1 .. Len(source) /\ LastFrom(i) \in i .. Len(source)
         /\ \A g \in i .. Len(source) :
              (\A j \in i .. g : j \in Ordinary) =>
                g <= LastFrom(i) /\ (g + 1 \notin Ordinary => LastFrom(i) = g)
  <1>1. i \in 1 .. Len(source)
    BY DEF Ordinary, Outside
  <1> DEFINE S == {j \in i .. Len(source) : j + 1 \notin Ordinary}
  <1>2. S \subseteq Nat /\ S # {}
    <2>1. Len(source) \in i .. Len(source) /\ Len(source) + 1 \notin Ordinary
      BY <1>1 DEF Ordinary, Outside, Typed
    <2>2. i .. Len(source) \subseteq Nat
      BY <1>1 DEF Typed
    <2>. QED  BY <2>1, <2>2
  <1>3. PICK m : m = LastFrom(i)
    OBVIOUS
  <1>4. m \in S /\ \A n \in S : m <= n
    BY <1>2, <1>3, LeastNumber DEF LastFrom
  <1>5. m \in i .. Len(source) /\ m + 1 \notin Ordinary
    BY <1>4
  <1>6. ASSUME NEW g \in i .. Len(source), \A j \in i .. g : j \in Ordinary  PROVE g <= m
    <2>1. CASE m < g
      <3>1. m + 1 \in i .. g
        BY <1>1, <1>5, <2>1 DEF Typed
      <3>. QED  BY <1>5, <1>6, <3>1
    <2>. QED  BY <1>1, <1>5, <2>1 DEF Typed
  <1>7. ASSUME NEW g \in i .. Len(source), g + 1 \notin Ordinary, \A j \in i .. g : j \in Ordinary
        PROVE  m = g
    <2>1. g \in S
      BY <1>7
    <2>2. m <= g /\ g <= m
      BY <1>4, <1>6, <1>7, <2>1
    <2>. QED  BY <1>1, <1>5, <2>2 DEF Typed
  <1>. QED  BY <1>1, <1>3, <1>5, <1>6, <1>7

(* What begins where.                                                      *)
LEMMA SpanFacts ==
  ASSUME Typed, NEW r \in AllSpans
  PROVE  /\ r = <<r[1], r[2]>> /\ r[1] \in 1 .. Len(source)
         /\ \/ r[1] \in Ordinary /\ r[1] - 1 \notin Ordinary /\ r[2] = LastFrom(r[1])
            \/ r[1] \in Outside /\ source[r[1]] \in {"(", ")", "nul"} /\ r[2] = r[1]
            \/ r \in Regions /\ r \in Quotes
  <1>1. CASE r \in Runs
    <2>1. PICK i \in Ordinary : i - 1 \notin Ordinary /\ r = <<i, LastFrom(i)>>
      BY <1>1 DEF Runs, Ordinary, LastFrom
    <2>. QED  BY <2>1, OrdinaryFacts
  <1>2. CASE r \in Brackets
    <2>1. PICK i \in Outside : r = <<i, i>> /\ source[i] \in {"(", ")", "nul"}
      BY <1>2 DEF Brackets
    <2>. QED  BY <2>1 DEF Outside
  <1>3. CASE r \in Quotes
    <2>1. r \in Regions
      BY <1>3 DEF Quotes, Strings
    <2>2. Behind(1, r)
      BY <2>1, RegionFacts
    <2>. QED  BY <1>3, <2>1, <2>2 DEF Behind
  <1>. QED  BY <1>1, <1>2, <1>3 DEF AllSpans

(* Each run and each bracket outside of the regions is a span.             *)
LEMMA SpansThere ==
  ASSUME Typed
  PROVE  /\ \A i \in Ordinary : i - 1 \notin Ordinary => <<i, LastFrom(i)>> \in Runs
         /\ \A i \in Outside : source[i] \in {"(", ")", "nul"} => <<i, i>> \in Brackets
  BY DEF Runs, Ordinary, LastFrom, Brackets

(* Nothing more has been told, or one more token.                          *)
LEMMA ToldNone ==
  ASSUME Typed, NEW f, NEW g, NEW ts, Told(f, ts),
         \A r \in AllSpans : r[1] < g <=> r[1] < f
  PROVE  Told(g, ts)
  BY DEF Told, Before

(* One more token has been told, of the span that is next.                 *)
LEMMA ToldOne ==
  ASSUME Typed, NEW f \in Nat, NEW g \in Nat, NEW ts, Told(f, ts), NEW q \in AllSpans,
         ~ (q[1] < f), \A r \in AllSpans : r[1] < g <=> r[1] < f \/ r = q
  PROVE  Told(g, Append(ts, TokenOf(q)))
  <1>1. PICK ss \in Seq(AllSpans) :
               Increasing(ss) /\ Before(ss, f) /\ ts = [i \in 1 .. Len(ss) |-> TokenOf(ss[i])]
    BY DEF Told
  <1>2. PICK n, us : n = Len(ss) /\ us = Append(ss, q)
    OBVIOUS
  <1>3. /\ us \in Seq(AllSpans) /\ Len(us) = n + 1 /\ n \in Nat /\ us[n + 1] = q
        /\ \A i \in 1 .. n : us[i] = ss[i] /\ ss[i] \in AllSpans
    BY <1>1, <1>2
  <1>4. q[1] \in Nat /\ \A i \in 1 .. n : ss[i][1] \in Nat /\ ss[i][1] < f
    <2>1. \A r \in AllSpans : r[1] \in Nat
      BY SpanFacts DEF Typed
    <2>. QED  BY <1>1, <1>2, <1>3, <2>1 DEF Before
  <1>5. Increasing(us)
    <2>1. ASSUME NEW i \in 1 .. (n + 1), NEW j \in 1 .. (n + 1), i < j
          PROVE  us[i][1] < us[j][1]
      <3>1. i \in 1 .. n
        BY <1>3, <2>1
      <3>2. CASE j = n + 1
        BY <1>3, <1>4, <3>1, <3>2
      <3>3. CASE j \in 1 .. n
        BY <1>1, <1>2, <1>3, <2>1, <3>1, <3>3 DEF Increasing
      <3>. QED  BY <1>3, <3>2, <3>3
    <2>. QED  BY <1>3, <2>1 DEF Increasing
  <1>6. Before(us, g)
    <2>1. ASSUME NEW r \in AllSpans PROVE r[1] < g <=> \E i \in 1 .. (n + 1) : r = us[i]
      <3>1. r[1] < f <=> \E i \in 1 .. n : r = us[i]
        BY <1>1, <1>2, <1>3 DEF Before
      <3>2. r = q <=> r = us[n + 1]
        BY <1>3
      <3>3. \A i : i \in 1 .. (n + 1) <=> i \in 1 .. n \/ i = n + 1
        BY <1>3
      <3>. QED  BY <3>1, <3>2, <3>3
    <2>. QED  BY <1>3, <2>1 DEF Before
  <1>7. Append(ts, TokenOf(q)) = [i \in 1 .. Len(us) |-> TokenOf(us[i])]
    <2>1. PICK t : t = TokenOf(q)
      OBVIOUS
    <2>2. Len(ts) = n /\ DOMAIN ts = 1 .. n /\ \A i \in 1 .. n : ts[i] = TokenOf(us[i])
      <3>1. ts \in Seq({TokenOf(r) : r \in AllSpans}) /\ Len(ts) = n /\ DOMAIN ts = 1 .. n
        BY <1>1, <1>2, <1>3
      <3>. QED  BY <1>1, <1>2, <1>3, <3>1
    <2>3. Append(ts, t) = [i \in 1 .. (n + 1) |-> IF i = n + 1 THEN t ELSE ts[i]]
      <3>1. PICK T, a : T = {TokenOf(r) : r \in AllSpans} \cup {t} /\ a = Append(ts, t)
        OBVIOUS
      <3>2. \A i \in 1 .. n : ts[i] \in T
        BY <1>3, <2>2, <3>1
      <3>3. ts \in Seq(T) /\ t \in T /\ Len(ts) = n
        BY <1>1, <1>2, <1>3, <2>2, <3>1, <3>2
      <3>4. a \in Seq(T) /\ Len(a) = n + 1 /\ n \in Nat
            /\ \A i \in 1 .. (n + 1) : a[i] = IF i = n + 1 THEN t ELSE ts[i]
        BY ONLY <1>3, <3>1, <3>3
      <3>5. a = [i \in 1 .. (n + 1) |-> a[i]]
        BY ONLY <3>4
      <3>. QED  BY ONLY <3>1, <3>4, <3>5
    <2>4. \A i \in 1 .. (n + 1) : (IF i = n + 1 THEN t ELSE ts[i]) = TokenOf(us[i])
      <3>1. \A i \in 1 .. (n + 1) : i # n + 1 => i \in 1 .. n
        BY <1>3
      <3>. QED  BY <1>3, <2>1, <2>2, <3>1
    <2>. QED  BY <1>3, <2>1, <2>3, <2>4
  <1>. QED  BY <1>3, <1>5, <1>6, <1>7 DEF Told

(* A character that opens no region lies in none, unless a region goes on  *)
(* from what is before it.                                                 *)
LEMMA PlainPlace ==
  ASSUME Typed, NEW g, Cut(g), g <= Len(source), source[g] \notin Openers
  PROVE  Cut(g + 1) /\ g \in Outside
  <1>1. g \in 1 .. Len(source) /\ From[g] = From[g + 1] /\ g + 1 \in 1 .. (Len(source) + 1)
    BY FromFacts DEF Cut, Typed
  <1>2. ASSUME NEW r \in Regions
        PROVE  (r[2] < g + 1 \/ r \in From[g + 1]) /\ g \notin r[1] .. r[2]
    <2>1. r[1] \in Nat /\ r[2] \in Nat
      BY RegionFacts DEF Behind, Typed
    <2>2. CASE r[2] < g
      BY <1>1, <2>1, <2>2
    <2>3. CASE r \in From[g + 1]
      <3>1. Behind(g + 1, r)
        BY <1>1, <2>3, FromBehind
      <3>. QED  BY <1>1, <2>1, <2>3, <3>1 DEF Behind, Typed
    <2>. QED  BY <1>1, <1>2, <2>2, <2>3 DEF Cut
  <1>3. Cut(g + 1)
    BY <1>1, <1>2 DEF Cut
  <1>4. g \in Outside
    BY <1>1, <1>2 DEF Outside
  <1>. QED  BY <1>3, <1>4

(* A run of ordinary characters is a token.                                *)
LEMMA ChunkTold ==
  ASSUME Typed, NEW f \in Nat \ {0}, NEW g \in f .. (Len(source) + 1), NEW ts, Told(f, ts),
         \A i \in f .. (g - 1) : i \in Ordinary, f - 1 \notin Ordinary, g \notin Ordinary
  PROVE  /\ f = g => Told(g, ts)
         /\ f < g => /\ <<f, g - 1>> \in Runs
                     /\ Told(g, Append(ts, Classified(SubSeq(source, f, g - 1))))
  <1> SUFFICES ASSUME f < g
               PROVE  /\ <<f, g - 1>> \in Runs
                      /\ Told(g, Append(ts, Classified(SubSeq(source, f, g - 1))))
    OBVIOUS
  <1>1. /\ f \in Ordinary /\ f \in f .. (g - 1) /\ g - 1 \in f .. Len(source) /\ (g - 1) + 1 = g
        /\ g \in Nat
    BY DEF Typed
  <1>2. LastFrom(f) = g - 1
    BY <1>1, OrdinaryFacts
  <1>3. PICK q : q = <<f, g - 1>>
    OBVIOUS
  <1>4. q \in Runs /\ q \in AllSpans /\ q[1] = f /\ q[2] = g - 1
    BY <1>1, <1>2, <1>3, SpansThere DEF AllSpans
  <1>5. ASSUME NEW r \in AllSpans, f <= r[1], r[1] < g  PROVE r = q
    <2>1. r = <<r[1], r[2]>> /\ r[1] \in 1 .. Len(source)
      BY <1>5, SpanFacts
    <2>2. r[1] \in f .. (g - 1) /\ r[1] \in Ordinary
      BY <1>1, <1>5, <2>1 DEF Typed
    <2>3. source[r[1]] \notin Reserved
      BY <2>2 DEF Ordinary
    <2>4. ~ (source[r[1]] \in {"(", ")", "nul"}) /\ ~ (source[r[1]] \in Openers)
      BY <2>3, Named
    <2>5. r \notin Regions
      BY <2>4, RegionFacts DEF Behind
    <2>6. r[1] - 1 \notin Ordinary /\ r[2] = LastFrom(r[1])
      BY <1>5, <2>4, <2>5, SpanFacts
    <2>7. r[1] = f
      <3>1. r[1] # f => r[1] - 1 \in f .. (g - 1)
        BY <1>1, <2>2
      <3>. QED  BY <2>6, <3>1
    <2>. QED  BY <1>2, <1>3, <2>1, <2>6, <2>7
  <1>6. ASSUME NEW r \in AllSpans PROVE r[1] < g <=> r[1] < f \/ r = q
    <2>1. r[1] \in Nat
      BY SpanFacts DEF Typed
    <2>. QED  BY <1>1, <1>4, <1>5, <2>1
  <1>7. Told(g, Append(ts, TokenOf(q)))
    <2>1. f \in Nat /\ ~ (q[1] < f)
      BY <1>4
    <2>. QED  BY <1>1, <1>4, <1>6, <2>1, ToldOne
  <1>8. TokenOf(q) = Classified(SubSeq(source, f, g - 1))
    <2>1. source[f] \notin Reserved
      BY <1>1 DEF Ordinary
    <2>. QED  BY <1>4, <2>1, Named
  <1>. QED  BY <1>3, <1>4, <1>7, <1>8

(* A space is none, and a bracket is one.                                  *)
LEMMA SpaceTold ==
  ASSUME Typed, NEW g, Cut(g), g <= Len(source), source[g] \in Spaces, NEW ts, Told(g, ts)
  PROVE  Told(g + 1, ts) /\ Cut(g + 1) /\ g \notin Ordinary
  <1>1. g \in 1 .. Len(source)
    BY DEF Cut, Typed
  <1>2. source[g] \notin Openers /\ source[g] \notin {"(", ")", "nul"} /\ g \notin Ordinary
    BY Named DEF Spaces, Ordinary
  <1>3. ASSUME NEW r \in AllSpans PROVE r[1] # g /\ r[1] \in Nat
    <2>1. r \in Regions => source[r[1]] \in Openers
      BY RegionFacts DEF Behind
    <2>. QED  BY <1>2, <2>1, SpanFacts DEF Typed
  <1>4. \A r \in AllSpans : r[1] < g + 1 <=> r[1] < g
    BY <1>1, <1>3
  <1>. QED  BY <1>2, <1>4, ToldNone, PlainPlace

(* A bracket tells itself.                                                 *)
LEMMA BracketTold ==
  ASSUME Typed, NEW g, Cut(g), g <= Len(source), source[g] \in {"(", ")", "nul"},
         NEW ts, Told(g, ts)
  PROVE  /\ Told(g + 1, Append(ts, ReservedToken(source[g]))) /\ Cut(g + 1) /\ g \notin Ordinary
  <1>1. g \in 1 .. Len(source) /\ g \in Nat /\ g + 1 \in Nat
    BY DEF Cut, Typed
  <1>2. source[g] \notin Openers /\ g \notin Ordinary
    BY Named DEF Ordinary
  <1>3. g \in Outside /\ Cut(g + 1)
    BY <1>2, PlainPlace
  <1>4. PICK q : q = <<g, g>>
    OBVIOUS
  <1>5. q \in AllSpans /\ q[1] = g
    BY <1>3, <1>4, SpansThere DEF AllSpans
  <1>6. ASSUME NEW r \in AllSpans PROVE r[1] \in Nat /\ (r[1] = g => r = q)
    <2>1. r \in Regions => source[r[1]] \in Openers
      BY RegionFacts DEF Behind
    <2>. QED  BY <1>2, <1>4, <2>1, SpanFacts DEF Typed
  <1>7. \A r \in AllSpans : r[1] < g + 1 <=> r[1] < g \/ r = q
    BY <1>1, <1>5, <1>6
  <1>8. Told(g + 1, Append(ts, TokenOf(q)))
    <2>1. ~ (q[1] < g)
      BY <1>1, <1>5
    <2>. QED  BY <1>1, <1>5, <1>7, <2>1, ToldOne
  <1>9. TokenOf(q) = ReservedToken(source[g])
    BY <1>5 DEF TokenOf, ReservedToken
  <1>. QED  BY <1>2, <1>3, <1>8, <1>9

(* A region goes from the character that opens it to its end; a quoted     *)
(* text is a token.                                                        *)
LEMMA RegionTaken ==
  ASSUME Typed, NEW q, Cut(q), q <= Len(source), source[q] \in Openers
  PROVE  /\ <<q, EndOf(q)>> \in Regions /\ EndOf(q) \in q .. Len(source)
         /\ Cut(EndOf(q) + 1) /\ EndOf(q) \notin Ordinary /\ q \notin Ordinary
         /\ \A r \in AllSpans :
              r[1] \in q .. EndOf(q) => r = <<q, EndOf(q)>> /\ r \in Quotes
  <1>1. PICK e : e = EndOf(q)
    OBVIOUS
  <1>2. /\ q \in 1 .. Len(source) /\ e \in q .. Len(source) /\ e + 1 \in 1 .. (Len(source) + 1)
        /\ From[q] = {<<q, e>>} \cup From[e + 1]
    <2>1. q \in 1 .. Len(source) /\ q \in 1 .. (Len(source) + 1)
      BY DEF Cut, Typed
    <2>2. e \in q .. Len(source)
      BY <1>1, <2>1, EndOfFacts
    <2>. QED  BY <1>1, <2>1, <2>2, FromFacts DEF Typed
  <1>3. <<q, e>> \in Regions
    BY <1>2 DEF Cut
  <1>4. ASSUME NEW r \in Regions
        PROVE  (r[2] < e + 1 \/ r \in From[e + 1]) /\ (r[1] \in q .. e => r = <<q, e>>)
    <2>1. r[1] \in Nat /\ r[2] \in Nat /\ r[1] <= r[2]
      BY RegionFacts DEF Behind, Typed
    <2>2. CASE r[2] < q
      BY <1>2, <2>1, <2>2 DEF Typed
    <2>3. CASE r = <<q, e>>
      BY <1>2, <2>3 DEF Typed
    <2>4. CASE r \in From[e + 1]
      <3>1. Behind(e + 1, r)
        BY <1>2, <2>4, FromBehind
      <3>. QED  BY <1>2, <2>1, <2>4, <3>1 DEF Behind, Typed
    <2>. QED  BY <1>2, <1>4, <2>2, <2>3, <2>4 DEF Cut
  <1>5. Cut(e + 1)
    BY <1>2, <1>4 DEF Cut
  <1>6. \A i \in q .. e : i \notin Outside
    BY <1>3 DEF Outside
  <1>7. e \notin Ordinary /\ q \notin Ordinary
    <2>1. e \in q .. e /\ q \in q .. e
      BY <1>2
    <2>. QED  BY <1>6, <2>1 DEF Ordinary
  <1>8. ASSUME NEW r \in AllSpans, r[1] \in q .. e  PROVE r = <<q, e>> /\ r \in Quotes
    <2>1. r[1] \notin Outside /\ r[1] \notin Ordinary
      BY <1>6, <1>8 DEF Ordinary
    <2>. QED  BY <1>4, <1>8, <2>1, SpanFacts
  <1>. QED  BY <1>1, <1>2, <1>3, <1>5, <1>7, <1>8

(* strncpy keeps of a text what is before its first '\0'.                  *)
LEMMA CopiedText ==
  ASSUME Typed, NEW q \in 1 .. Len(source), NEW g \in (q + 1) .. Len(source),
         source[q] = Quote, source[g] = Quote, NEW r, r = <<q, g>>
  PROVE  Copied(SubSeq(source, q + 1, g - 1)) =
           SubSeq(source, q + 1, Least(Zeros(r) \cup {g}) - 1)
  <1>1. PICK s, n : s = SubSeq(source, q + 1, g - 1) /\ n = (g - 1) - q
    OBVIOUS
  <1>2. /\ s \in Seq(Characters) /\ Len(s) = n /\ n \in Nat
        /\ \A i \in 1 .. n : s[i] = source[q + i]
    BY <1>1 DEF Typed
  <1> DEFINE I == {i \in 1 .. Len(s) : s[i] = "nul"}
             Z == Zeros(r)
  <1>3. Copied(s) = IF I # {} THEN SubSeq(s, 1, Least(I) - 1) ELSE s
    <2>1. SelectInSeq(s, LAMBDA c : c = "nul") = IF I # {} THEN Least(I) ELSE 0
      BY DEF SelectInSeq, Min, Least
    <2>2. I # {} => Least(I) \in I
      <3>1. I \subseteq Nat
        OBVIOUS
      <3> HIDE DEF I
      <3>. QED  BY <3>1, LeastNumber
    <2>3. \A i \in I : i # 0
      BY <1>2
    <2>4. PICK z : z = SelectInSeq(s, LAMBDA c : c = "nul")
      OBVIOUS
    <2>5. Copied(s) = IF z = 0 THEN s ELSE SubSeq(s, 1, z - 1)
      BY <2>4 DEF Copied
    <2> HIDE DEF I
    <2>. QED  BY <2>1, <2>2, <2>3, <2>4, <2>5
  <1>4. Z = {q + i : i \in I}
    <2>1. Z = {i \in q .. g : source[i] = "nul"}
      BY DEF Zeros
    <2>2. ASSUME NEW i \in I  PROVE q + i \in Z
      <3>1. i \in 1 .. n /\ source[q + i] = "nul"
        BY <1>2, <2>2
      <3>2. q + i \in q .. g
        BY <1>1, <3>1
      <3> HIDE DEF Z
      <3>. QED  BY <2>1, <3>1, <3>2
    <2>3. ASSUME NEW j \in Z  PROVE \E i \in I : j = q + i
      <3>0. j \in q .. g /\ source[j] = "nul" /\ j # q /\ j # g
        <4> HIDE DEF Z
        <4>. QED  BY <2>1, <2>3, Named
      <3>1. j \in (q + 1) .. (g - 1)
        BY <3>0 DEF Typed
      <3>2. j - q \in 1 .. n /\ q + (j - q) = j
        BY <1>1, <3>1
      <3>3. s[j - q] = "nul"
        BY <1>2, <2>1, <2>3, <3>2
      <3>4. j - q \in I
        BY <1>2, <3>2, <3>3
      <3>. QED  BY <3>2, <3>4
    <2> HIDE DEF I, Z
    <2>. QED  BY <2>2, <2>3
  <1>5. CASE I = {}
    <2>1. Z \cup {g} = {g}
      <3> HIDE DEF I, Z
      <3>. QED  BY <1>4, <1>5
    <2>2. Least({g}) = g
      <3>1. {g} \subseteq Nat /\ {g} # {}
        BY DEF Typed
      <3>2. Least({g}) \in {g}
        BY <3>1, LeastNumber
      <3>. QED  BY <3>2
    <2>. QED  BY <1>1, <1>3, <1>5, <2>1, <2>2
  <1>6. CASE I # {}
    <2>1. PICK z : z = Least(I)
      OBVIOUS
    <2>2. z \in I /\ \A i \in I : z <= i
      <3>1. I \subseteq Nat
        OBVIOUS
      <3> HIDE DEF I
      <3>. QED  BY <1>6, <2>1, <3>1, LeastNumber
    <2>3. z \in 1 .. n /\ \A i \in I : i \in 1 .. n
      BY <1>2, <2>2
    <2>4. PICK m : m = Least(Z \cup {g})
      OBVIOUS
    <2>5. m \in Z \cup {g} /\ \A j \in Z \cup {g} : m <= j
      <3>1. Z \cup {g} \subseteq Nat /\ Z \cup {g} # {}
        BY DEF Zeros, Typed
      <3> HIDE DEF Z
      <3>. QED  BY <2>4, <3>1, LeastNumber
    <2>6. m = q + z
      <3>1. m <= q + z /\ q + z < g
        <4>1. q + z \in Z
          <5> HIDE DEF I, Z
          <5>. QED  BY <1>4, <2>2
        <4> HIDE DEF I, Z
        <4>. QED  BY <1>1, <2>3, <2>5, <4>1
      <3>2. PICK i \in I : m = q + i
        <4>1. m # g
          <5> HIDE DEF I, Z
          <5>. QED  BY <2>3, <3>1
        <4> HIDE DEF I, Z
        <4>. QED  BY <1>4, <2>5, <4>1
      <3>3. z <= i /\ i \in 1 .. n
        BY <2>2, <2>3
      <3> HIDE DEF I, Z
      <3>. QED  BY <2>3, <3>1, <3>2, <3>3
    <2>7. SubSeq(s, 1, z - 1) = SubSeq(source, q + 1, (q + z) - 1)
      <3>1. PICK u, v : u = SubSeq(s, 1, z - 1) /\ v = SubSeq(source, q + 1, (q + z) - 1)
        OBVIOUS
      <3>2. u \in Seq(Characters) /\ Len(u) = z - 1 /\ \A i \in 1 .. (z - 1) : u[i] = s[i]
        <4> HIDE DEF I, Z
        <4>. QED  BY <1>2, <2>3, <3>1
      <3>3. v \in Seq(Characters) /\ Len(v) = z - 1 /\ \A i \in 1 .. (z - 1) : v[i] = source[q + i]
        <4>1. q + 1 \in 1 .. Len(source) /\ (q + z) - 1 \in q .. Len(source)
          BY <1>1, <1>2, <2>3 DEF Typed
        <4>2. source \in Seq(Characters)
          BY DEF Typed
        <4> HIDE DEF I, Z
        <4>. QED  BY <2>3, <3>1, <4>1, <4>2
      <3>4. u = v
        <4>1. \A i \in 1 .. (z - 1) : u[i] = v[i]
          <5>1. \A i \in 1 .. (z - 1) : i \in 1 .. n
            BY <1>2, <2>3
          <5>. QED  BY <1>2, <3>2, <3>3, <5>1
        <4>. QED  BY ONLY <3>2, <3>3, <4>1
      <3>. QED  BY <3>1, <3>4
    <2>. QED  BY <1>1, <1>3, <1>6, <2>1, <2>4, <2>6, <2>7
  <1>. QED  BY <1>5, <1>6

(* A comment, and an end within the text, are no token.                    *)
LEMMA CommentTold ==
  ASSUME Typed, NEW q, Cut(q), q <= Len(source), source[q] \in {Semicolon, "eof"},
         NEW ts, Told(q, ts)
  PROVE  Told(EndOf(q) + 1, ts) /\ Cut(EndOf(q) + 1) /\ EndOf(q) \notin Ordinary
  <1>1. source[q] \in Openers /\ source[q] # Quote
    BY Named DEF Openers
  <1>2. PICK e : e = EndOf(q)
    OBVIOUS
  <1>3. /\ e \in q .. Len(source) /\ Cut(e + 1) /\ e \notin Ordinary
        /\ \A r \in AllSpans : r[1] \in q .. e => r = <<q, e>> /\ r \in Quotes
    BY <1>1, <1>2, RegionTaken
  <1>4. <<q, e>> \notin Quotes
    BY <1>1, Named
  <1>5. ASSUME NEW r \in AllSpans PROVE r[1] < e + 1 <=> r[1] < q
    <2>1. r[1] \in Nat /\ q \in Nat /\ e \in Nat /\ q <= e
      BY <1>3, SpanFacts DEF Cut, Typed
    <2>2. ~ (r[1] \in q .. e)
      BY <1>3, <1>4
    <2>. QED  BY <2>1, <2>2
  <1>. QED  BY <1>2, <1>3, <1>5, ToldNone

(* A quoted text is one.                                                   *)
LEMMA QuoteTold ==
  ASSUME Typed, NEW q, Cut(q), source[q] = Quote, q \in 1 .. Len(source),
         NEW g \in (q + 1) .. Len(source), source[g] = Quote,
         \A i \in (q + 1) .. (g - 1) : source[i] # Quote, NEW ts, Told(q, ts)
  PROVE  /\ Told(g + 1, Append(ts, String(Copied(SubSeq(source, q + 1, g - 1)))))
         /\ Cut(g + 1) /\ g \notin Ordinary
  <1>1. source[q] \in Openers /\ q <= Len(source)
    BY DEF Openers, Typed
  <1>2. EndOf(q) = g
    <2>1. Closers(source[q]) = {Quote}
      BY Named
    <2>. QED  BY <2>1, EndOfFacts
  <1>3. PICK r : r = <<q, g>>
    OBVIOUS
  <1>4. /\ r \in Regions /\ Cut(g + 1) /\ g \notin Ordinary
        /\ \A p \in AllSpans : p[1] \in q .. g => p = r
    BY <1>1, <1>2, <1>3, RegionTaken
  <1>5. r[1] = q /\ r[2] = g /\ r \in AllSpans /\ q \in Nat /\ g \in Nat /\ g + 1 \in Nat /\ q < g
    <2>1. r[1] = q /\ r[2] = g /\ q # g /\ q \in Nat /\ g \in Nat /\ g + 1 \in Nat /\ q < g
      BY <1>3 DEF Typed
    <2>2. r \in Quotes
      BY <1>4, <2>1, Named
    <2>. QED  BY <2>1, <2>2 DEF AllSpans
  <1>6. ASSUME NEW p \in AllSpans PROVE p[1] < g + 1 <=> p[1] < q \/ p = r
    <2>1. p[1] \in Nat
      BY SpanFacts DEF Typed
    <2>. QED  BY <1>4, <1>5, <2>1
  <1>7. Told(g + 1, Append(ts, TokenOf(r)))
    <2>1. ~ (r[1] < q)
      BY <1>5
    <2>. QED  BY <1>5, <1>6, <2>1, ToldOne
  <1>8. TokenOf(r) = String(Copied(SubSeq(source, q + 1, g - 1)))
    <2>1. TokenOf(r) = String(SubSeq(source, q + 1, Least(Zeros(r) \cup {g}) - 1))
      BY <1>5, Named
    <2>2. Copied(SubSeq(source, q + 1, g - 1)) = SubSeq(source, q + 1, Least(Zeros(r) \cup {g}) - 1)
      BY <1>3, CopiedText
    <2>. QED  BY <2>1, <2>2
  <1>. QED  BY <1>4, <1>7, <1>8

(* There are only so many places for a span.                               *)
LEMMA SpansCounted ==
  ASSUME Typed
  PROVE  Len(Spans) \in Nat /\ DOMAIN Spans = 1 .. Len(Spans)
  <1> DEFINE places == 1 .. Len(source)
  <1>1. ASSUME NEW r \in AllSpans PROVE r \in places \X places
    <2>1. r = <<r[1], r[2]>> /\ r[1] \in places
      BY SpanFacts
    <2>2. r[2] \in places
      <3>1. CASE r[1] \in Ordinary /\ r[2] = LastFrom(r[1])
        <4>1. r[2] \in r[1] .. Len(source)
          BY <3>1, OrdinaryFacts
        <4>. QED  BY <2>1, <4>1 DEF Typed
      <3>2. CASE r[2] = r[1]
        BY <2>1, <3>2
      <3>3. CASE r \in Regions
        <4>1. r[2] \in r[1] .. Len(source)
          BY <3>3, RegionFacts DEF Behind
        <4>. QED  BY <2>1, <4>1 DEF Typed
      <3>. QED  BY <3>1, <3>2, <3>3, SpanFacts
    <2>. QED  BY <2>1, <2>2
  <1>2. IsFiniteSet(AllSpans)
    <2>1. IsFiniteSet(places)
      BY FS_Interval DEF Typed
    <2> HIDE DEF places
    <2>2. IsFiniteSet(places \X places)
      BY <2>1, FS_Product
    <2>. QED  BY <1>1, <2>2, FS_Subset
  <1>3. PICK n : n = Cardinality(AllSpans)
    OBVIOUS
  <1>4. n \in Nat
    BY <1>2, <1>3, FS_CardinalityType
  <1> DEFINE chosen(i) == CHOOSE r \in AllSpans : Cardinality({q \in AllSpans : q[1] <= r[1]}) = i
  <1>5. Spans = [i \in 1 .. n |-> chosen(i)]
    BY <1>3 DEF Spans, AllSpans
  <1> HIDE DEF chosen
  <1>6. Len(Spans) = n /\ DOMAIN Spans = 1 .. n
    <2>1. Spans \in Seq({chosen(i) : i \in 1 .. n}) /\ DOMAIN Spans = 1 .. n
      BY <1>4, <1>5
    <2>. QED  BY <1>4, <2>1
  <1>. QED  BY <1>4, <1>6

(* Told in increasing order, the spans are in the order of Spans.          *)
LEMMA TextTold ==
  ASSUME Typed, NEW f, NEW ts, Told(f, ts), \A r \in AllSpans : r[1] < f
  PROVE  ts = [i \in 1 .. Len(Spans) |-> TokenOf(Spans[i])]
  <1> DEFINE Place(r) == Cardinality({q \in AllSpans : q[1] <= r[1]})
  <1>1. PICK ss \in Seq(AllSpans) :
               Increasing(ss) /\ Before(ss, f) /\ ts = [i \in 1 .. Len(ss) |-> TokenOf(ss[i])]
    BY DEF Told
  <1>2. PICK n : n = Len(ss)
    OBVIOUS
  <1>3. n \in Nat /\ \A i \in 1 .. n : ss[i] \in AllSpans /\ ss[i][1] \in Nat
    <2>1. \A r \in AllSpans : r[1] \in Nat
      BY SpanFacts DEF Typed
    <2>. QED  BY <1>2, <2>1
  <1>4. \A r \in AllSpans : \E i \in 1 .. n : r = ss[i]
    BY <1>1, <1>2 DEF Before
  <1>5. \A i, j \in 1 .. n : i < j => ss[i][1] < ss[j][1]
    BY <1>1, <1>2 DEF Increasing
  <1>6. \A i, j \in 1 .. n : ss[j][1] <= ss[i][1] <=> j <= i
    BY <1>3, <1>5
  <1>7. ASSUME NEW k \in 0 .. n, NEW S, \A r : r \in S <=> \E j \in 1 .. k : r = ss[j]
        PROVE  Cardinality(S) = k
    <2>1. PICK b : b = [j \in 1 .. k |-> ss[j]]
      OBVIOUS
    <2>2. \A j \in 1 .. k : j \in 1 .. n
      BY <1>3
    <2>3. b \in [1 .. k -> S]
      BY <1>7, <2>1
    <2>4. \A i, j \in 1 .. k : b[i] = b[j] => i = j
      <3>1. ASSUME NEW i \in 1 .. k, NEW j \in 1 .. k, b[i] = b[j]  PROVE i = j
        <4>1. ss[i] = ss[j] /\ i \in 1 .. n /\ j \in 1 .. n
          BY <2>1, <2>2, <3>1
        <4>2. ss[i][1] \in Nat /\ ss[i][1] <= ss[j][1] /\ ss[j][1] <= ss[i][1]
          BY <1>3, <4>1
        <4>3. i <= j /\ j <= i
          BY <1>6, <4>1, <4>2
        <4>. QED  BY <4>3
      <3>. QED  BY <3>1
    <2>5. \A r \in S : \E j \in 1 .. k : b[j] = r
      BY <1>7, <2>1
    <2>6. b \in Bijection(1 .. k, S)
      BY <2>3, <2>4, <2>5 DEF Bijection, Injection, Surjection, IsInjective
    <2>7. ExistsBijection(1 .. k, S) /\ k \in Nat
      BY <2>6 DEF ExistsBijection
    <2>. QED  BY <2>7, FS_CountingElements
  <1>8. Cardinality(AllSpans) = n
    <2>1. n \in 0 .. n
      BY <1>3
    <2>2. \A r : r \in AllSpans <=> \E j \in 1 .. n : r = ss[j]
      BY <1>3, <1>4
    <2>. QED  BY <1>7, <2>1, <2>2
  <1>9. ASSUME NEW k \in 1 .. n  PROVE Place(ss[k]) = k
    <2>1. PICK S : S = {q \in AllSpans : q[1] <= ss[k][1]}
      OBVIOUS
    <2>2. \A r : r \in S <=> \E j \in 1 .. k : r = ss[j]
      <3>1. ASSUME NEW r \in S PROVE \E j \in 1 .. k : r = ss[j]
        <4>1. r \in AllSpans /\ r[1] <= ss[k][1]
          BY <2>1
        <4>2. PICK j \in 1 .. n : r = ss[j]
          BY <1>4, <4>1
        <4>3. j <= k
          BY <1>6, <4>1, <4>2
        <4>. QED  BY <1>3, <4>2, <4>3
      <3>2. ASSUME NEW j \in 1 .. k PROVE ss[j] \in S
        <4>1. j \in 1 .. n /\ j <= k
          BY <1>3
        <4>. QED  BY <1>3, <1>6, <2>1, <4>1
      <3>. QED  BY <3>1, <3>2
    <2>3. k \in 0 .. n
      BY <1>3
    <2>. QED  BY <1>7, <2>1, <2>2, <2>3
  <1>10. Spans = [i \in 1 .. n |-> CHOOSE r \in AllSpans : Place(r) = i]
    BY <1>8 DEF Spans, AllSpans
  <1>11. ASSUME NEW k \in 1 .. n
         PROVE  (CHOOSE r \in AllSpans : Place(r) = k) = ss[k]
    <2>1. ss[k] \in AllSpans /\ Place(ss[k]) = k
      BY <1>3, <1>9
    <2>2. ASSUME NEW r \in AllSpans, Place(r) = k  PROVE r = ss[k]
      <3>1. PICK j \in 1 .. n : r = ss[j]
        BY <1>4
      <3>2. Place(ss[j]) = j
        BY <1>9
      <3> HIDE DEF Place
      <3>. QED  BY <2>2, <3>1, <3>2
    <2> HIDE DEF Place
    <2>. QED  BY <2>1, <2>2
  <1> HIDE DEF Place
  <1>12. Spans = [i \in 1 .. n |-> ss[i]]
    BY <1>10, <1>11
  <1>13. Len(Spans) = n /\ \A i \in 1 .. n : Spans[i] = ss[i]
    <2>1. Spans \in Seq(AllSpans)
      BY <1>3, <1>12
    <2>2. DOMAIN Spans = 1 .. n
      BY <1>12
    <2>. QED  BY <1>3, <1>12, <2>1, <2>2
  <1>. QED  BY <1>1, <1>2, <1>13

-----------------------------------------------------------------------------
(* What has been read of the text, in each of the three loops.             *)

(* In the text: a chunk c from f to g, behind the tokens ts.               *)
TextAt(f, g, c, ts) ==
  /\ f \in Nat \ {0} /\ g \in f .. (Len(source) + 1)
  /\ c = SubSeq(source, f, g - 1)
  /\ Cut(g) /\ Told(f, ts)
  /\ f - 1 \notin Ordinary /\ \A i \in f .. (g - 1) : i \in Ordinary

(* In a string that begins at q.                                           *)
StringAt(q, g, c, ts) ==
  /\ q \in 1 .. Len(source) /\ g \in (q + 1) .. (Len(source) + 1)
  /\ c = SubSeq(source, q + 1, g - 1)
  /\ Cut(q) /\ Told(q, ts)
  /\ source[q] = Quote /\ \A i \in (q + 1) .. (g - 1) : source[i] \notin {Quote, "eof"}

(* In a comment that begins at q.                                          *)
CommentAt(q, g, ts) ==
  /\ q \in 1 .. Len(source) /\ g \in (q + 1) .. (Len(source) + 1)
  /\ Cut(q) /\ Told(q, ts)
  /\ source[q] = Semicolon /\ \A i \in (q + 1) .. (g - 1) : source[i] \notin {"newline", "eof"}

(* Where the lexer stops with the tokens ts, and why.                      *)
WholeText(ts) == ts = [i \in 1 .. Len(Spans) |-> TokenOf(Spans[i])] \o <<End>>
OpenString == \E r \in Strings : r \notin Quotes \/ \E i \in r[1] .. r[2] : source[i] = "eof"
LongToken ==
  \/ \E r \in Runs : r[2] - r[1] >= ChunkBufferSize
  \/ \E r \in Strings : r[2] - r[1] > ChunkBufferSize + (IF r \in Quotes THEN 1 ELSE 0)
LargeNumber ==
  \E r \in Runs : LET s == SubSeq(source, r[1], r[2]) IN IsInteger(s) /\ Magnitude(s) > IntMax

Ends ==
  /\ status = "done" => WholeText(tokens)
  /\ status = "illegal" => OpenString
  /\ status = "overrun" => LongToken
  /\ status = "range" => LargeNumber

Scanned ==
  /\ status = "run" =>
       \E f, g, c, ts :
         /\ g = at /\ c = chunk /\ ts = tokens
         /\ reading = "text" => TextAt(f, g, c, ts)
         /\ reading = "string" => StringAt(f, g, c, ts)
         /\ reading = "comment" => CommentAt(f, g, ts)
  /\ Ends

(* At an end the promises of Tokens are what has to be shown.              *)
LEMMA EndsFacts == Ends <=> TokensOfText /\ StopsForAReason
  BY DEF Ends, WholeText, OpenString, LongToken, LargeNumber, TokensOfText, StopsForAReason, End

(* The text stays as it is.                                                *)
LEMMA SourceKept ==
  ASSUME UNCHANGED source
  PROVE  /\ \A f, g, c, ts : TextAt(f, g, c, ts)' <=> TextAt(f, g, c, ts)
         /\ \A f, g, c, ts : StringAt(f, g, c, ts)' <=> StringAt(f, g, c, ts)
         /\ \A f, g, ts : CommentAt(f, g, ts)' <=> CommentAt(f, g, ts)
         /\ \A ts : WholeText(ts)' <=> WholeText(ts)
         /\ OpenString' <=> OpenString
         /\ LongToken' <=> LongToken
         /\ LargeNumber' <=> LargeNumber
  <1>1. Regions' = Regions
    BY DEF Regions
  <1>2. From' = From
    BY DEF From, RegionsAt, Begins, EndOf, Closes
  <1>3. Outside' = Outside /\ Strings' = Strings
    BY <1>1 DEF Outside, Strings
  <1>4. Ordinary' = Ordinary /\ Runs' = Runs /\ Brackets' = Brackets /\ Quotes' = Quotes
    BY <1>3 DEF Ordinary, Runs, Brackets, Quotes
  <1>5. AllSpans' = AllSpans /\ Spans' = Spans
    BY <1>4 DEF AllSpans, Spans
  <1>6. \A r : TokenOf(r)' = TokenOf(r)
    BY DEF TokenOf, Zeros
  <1>7. \A f, ts : Told(f, ts)' <=> Told(f, ts)
    BY <1>5, <1>6 DEF Told, Before
  <1>8. \A f : Cut(f)' <=> Cut(f)
    BY <1>1, <1>2 DEF Cut
  <1>9. \A f, g, c, ts : TextAt(f, g, c, ts)' <=> TextAt(f, g, c, ts)
    BY <1>4, <1>7, <1>8 DEF TextAt
  <1>10. \A f, g, c, ts : StringAt(f, g, c, ts)' <=> StringAt(f, g, c, ts)
    BY <1>7, <1>8 DEF StringAt
  <1>11. \A f, g, ts : CommentAt(f, g, ts)' <=> CommentAt(f, g, ts)
    BY <1>7, <1>8 DEF CommentAt
  <1>12. \A ts : WholeText(ts)' <=> WholeText(ts)
    BY <1>5, <1>6 DEF WholeText
  <1>13. (OpenString' <=> OpenString) /\ (LongToken' <=> LongToken)
         /\ (LargeNumber' <=> LargeNumber)
    BY <1>3, <1>4 DEF OpenString, LongToken, LargeNumber
  <1>. QED  BY <1>9, <1>10, <1>11, <1>12, <1>13

(* The characters of a chunk.                                              *)
LEMMA TextStarts ==
  ASSUME Typed, NEW g, Cut(g), g - 1 \notin Ordinary, NEW ts, Told(g, ts)
  PROVE  TextAt(g, g, <<>>, ts)
  <1>1. g \in Nat \ {0} /\ g \in g .. (Len(source) + 1)
    BY DEF Cut, Typed
  <1>2. SubSeq(source, g, g - 1) = <<>>
    BY <1>1 DEF Typed
  <1>3. g .. (g - 1) = {}
    BY <1>1
  <1>. QED  BY <1>1, <1>2, <1>3 DEF TextAt

(* One more character is read of an interval.                              *)
LEMMA OneMore ==
  ASSUME Typed, NEW f \in 1 .. (Len(source) + 1), NEW g \in f .. Len(source)
  PROVE  /\ SubSeq(source, f, (g + 1) - 1) = Append(SubSeq(source, f, g - 1), source[g])
         /\ \A i : i \in f .. ((g + 1) - 1) <=> i \in f .. (g - 1) \/ i = g
  <1>1. PICK c, d : c = SubSeq(source, f, g - 1) /\ d = SubSeq(source, f, (g + 1) - 1)
    OBVIOUS
  <1>2. /\ c \in Seq(Characters) /\ Len(c) = g - f
        /\ \A i \in 1 .. (g - f) : c[i] = source[f + i - 1]
    BY <1>1 DEF Typed
  <1>3. /\ d \in Seq(Characters) /\ Len(d) = (g - f) + 1
        /\ \A i \in 1 .. ((g - f) + 1) : d[i] = source[f + i - 1]
    BY <1>1 DEF Typed
  <1>4. d = Append(c, source[g])
    <2>1. PICK x, n : x = source[g] /\ n = g - f
      OBVIOUS
    <2>2. n \in Nat /\ n = g - f /\ x \in Characters /\ f + (n + 1) - 1 = g
      BY <2>1 DEF Typed
    <2>3. /\ Append(c, x) \in Seq(Characters) /\ Len(Append(c, x)) = n + 1
          /\ \A i \in 1 .. (n + 1) : Append(c, x)[i] = IF i = n + 1 THEN x ELSE c[i]
      <3>1. c \in Seq(Characters) /\ Len(c) = n
        BY <1>2, <2>1
      <3>. QED  BY ONLY <2>2, <3>1
    <2>4. \A i \in 1 .. (n + 1) : d[i] = Append(c, x)[i]
      <3>1. \A i \in 1 .. (n + 1) : i # n + 1 => i \in 1 .. n
        BY <2>2
      <3>2. \A i \in 1 .. n : c[i] = d[i]
        <4>1. \A i \in 1 .. n : i \in 1 .. (n + 1)
          BY <2>2
        <4>. QED  BY <1>2, <1>3, <2>1, <4>1
      <3>3. n + 1 \in 1 .. (n + 1) /\ d[n + 1] = x
        BY <1>3, <2>1, <2>2
      <3>. QED  BY <2>3, <3>1, <3>2, <3>3
    <2>5. d \in Seq(Characters) /\ Len(d) = n + 1
      BY <1>3, <2>1
    <2>6. d = Append(c, x)
      BY ONLY <2>3, <2>4, <2>5
    <2>. QED  BY <2>1, <2>6
  <1>5. \A i : i \in f .. ((g + 1) - 1) <=> i \in f .. (g - 1) \/ i = g
    BY DEF Typed
  <1>. QED  BY <1>1, <1>4, <1>5

(* A chunk takes a character, or is too long for the buffer.               *)
LEMMA TextGoesOn ==
  ASSUME Typed, NEW f, NEW g, NEW c, NEW ts, TextAt(f, g, c, ts), g <= Len(source),
         source[g] \notin Spaces \cup Reserved
  PROVE  /\ TextAt(f, g + 1, Append(c, source[g]), ts)
         /\ Len(c) >= ChunkBufferSize => LongToken
  <1>1. /\ f \in 1 .. (Len(source) + 1) /\ g \in f .. Len(source) /\ g \in Nat /\ f \in Nat
        /\ g + 1 \in f .. (Len(source) + 1)
    BY DEF TextAt, Typed
  <1>2. Cut(g + 1) /\ g \in Outside
    <2>1. source[g] \notin Openers
      BY Named
    <2>. QED  BY <2>1, PlainPlace DEF TextAt
  <1>3. g \in Ordinary
    BY <1>2 DEF Ordinary
  <1>4. \A i \in f .. g : i \in Ordinary
    <2>1. \A i \in f .. g : i \in f .. (g - 1) \/ i = g
      BY <1>1
    <2>. QED  BY <1>3, <2>1 DEF TextAt
  <1>5. (g + 1) - 1 = g
    BY <1>1
  <1>6. TextAt(f, g + 1, Append(c, source[g]), ts)
    BY <1>1, <1>2, <1>4, <1>5, OneMore DEF TextAt
  <1>7. ASSUME Len(c) >= ChunkBufferSize  PROVE LongToken
    <2>1. Len(c) = g - f
      BY <1>1 DEF TextAt, Typed
    <2>2. f \in Ordinary /\ f - 1 \notin Ordinary /\ f \in f .. g
      BY <1>1, <1>4 DEF TextAt
    <2>3. <<f, LastFrom(f)>> \in Runs /\ LastFrom(f) \in Nat /\ g <= LastFrom(f)
      BY <1>1, <1>4, <2>2, SpansThere, OrdinaryFacts DEF Typed
    <2>4. LastFrom(f) - f >= ChunkBufferSize
      BY <1>1, <1>7, <2>1, <2>3, LexerAssumption
    <2>5. PICK r : r = <<f, LastFrom(f)>>
      OBVIOUS
    <2>6. r \in Runs /\ r[2] - r[1] >= ChunkBufferSize
      BY <2>3, <2>4, <2>5
    <2>. QED  BY <2>6 DEF LongToken
  <1>. QED  BY <1>6, <1>7

(* What is told when tokenizeChunk is called.                              *)
LEMMA TextEnds ==
  ASSUME Typed, NEW f, NEW g, NEW c, NEW ts, TextAt(f, g, c, ts),
         g <= Len(source) => source[g] \in Spaces \cup Reserved
  PROVE  /\ g \notin Ordinary
         /\ Told(g, IF c = <<>> THEN ts ELSE Append(ts, Classified(c)))
         /\ c # <<>> => \E r \in Runs : c = SubSeq(source, r[1], r[2])
  <1>1. /\ f \in Nat \ {0} /\ g \in f .. (Len(source) + 1) /\ c = SubSeq(source, f, g - 1)
        /\ Told(f, ts) /\ f - 1 \notin Ordinary /\ \A i \in f .. (g - 1) : i \in Ordinary
    BY DEF TextAt
  <1>2. g \notin Ordinary
    BY <1>1 DEF Ordinary, Outside, Typed
  <1>3. Len(c) = g - f /\ c \in Seq(Characters)
    BY <1>1 DEF Typed
  <1>4. CASE f = g
    <2>1. c = <<>>
      BY <1>1, <1>3, <1>4
    <2>. QED  BY <1>1, <1>2, <1>4, <2>1, ChunkTold
  <1>5. CASE f < g
    <2>1. c # <<>>
      BY <1>1, <1>3, <1>5 DEF Typed
    <2>2. <<f, g - 1>> \in Runs /\ Told(g, Append(ts, Classified(c)))
      BY <1>1, <1>2, <1>5, ChunkTold
    <2>3. PICK r : r = <<f, g - 1>>
      OBVIOUS
    <2>4. r \in Runs /\ c = SubSeq(source, r[1], r[2])
      BY <1>1, <2>2, <2>3
    <2>. QED  BY <1>2, <2>1, <2>2, <2>4
  <1>6. f = g \/ f < g
    BY <1>1 DEF Typed
  <1>. QED  BY <1>4, <1>5, <1>6

(* The characters of a string, whose region goes on at least as far.       *)
LEMMA StringRegion ==
  ASSUME Typed, NEW q, NEW g, NEW c, NEW ts, StringAt(q, g, c, ts),
         g <= Len(source) => source[g] # Quote
  PROVE  \E r \in Strings :
           /\ r[1] = q /\ r[2] \in Nat
           /\ g <= Len(source) => g \in q .. r[2]
           /\ r \in Quotes => g < r[2]
  <1>1. /\ q \in 1 .. Len(source) /\ g \in (q + 1) .. (Len(source) + 1) /\ Cut(q)
        /\ source[q] = Quote /\ \A i \in (q + 1) .. (g - 1) : source[i] # Quote
    BY DEF StringAt
  <1>2. PICK e : e = EndOf(q)
    OBVIOUS
  <1>3. <<q, e>> \in Regions /\ e \in q .. Len(source)
    <2>1. q <= Len(source) /\ source[q] \in Openers
      BY <1>1 DEF Openers, Typed
    <2>. QED  BY <1>1, <1>2, <2>1, RegionTaken
  <1>4. e = Len(source) \/ (source[e] = Quote /\ e > q)
    BY <1>1, <1>2, EndOfFacts, Named
  <1>5. PICK r : r = <<q, e>>
    OBVIOUS
  <1>6. r \in Strings /\ r[1] = q /\ r[2] = e /\ r[2] \in Nat
    BY <1>1, <1>3, <1>5, Named DEF Typed
  <1>7. ASSUME source[e] = Quote, e > q  PROVE e > g
    <2>1. e \notin (q + 1) .. (g - 1)
      BY <1>1, <1>7
    <2>2. e # g
      BY <1>3, <1>7 DEF Typed
    <2>. QED  BY <1>1, <1>3, <1>7, <2>1, <2>2 DEF Typed
  <1>8. g <= Len(source) => g \in q .. e
    BY <1>1, <1>3, <1>4, <1>7 DEF Typed
  <1>9. r \in Quotes => g < e
    <2>1. r \in Quotes => source[e] = Quote /\ q # e
      BY <1>6, Named
    <2>. QED  BY <1>1, <1>3, <1>7, <2>1 DEF Typed
  <1>. QED  BY <1>6, <1>8, <1>9

(* A string takes a character, or is too long for the buffer.              *)
LEMMA StringGoesOn ==
  ASSUME Typed, NEW q, NEW g, NEW c, NEW ts, StringAt(q, g, c, ts), g <= Len(source),
         source[g] \notin {Quote, "eof"}
  PROVE  /\ StringAt(q, g + 1, Append(c, source[g]), ts)
         /\ Len(c) >= ChunkBufferSize => LongToken
  <1>1. /\ q \in 1 .. Len(source) /\ q + 1 \in 1 .. (Len(source) + 1)
        /\ g \in (q + 1) .. Len(source) /\ g + 1 \in (q + 1) .. (Len(source) + 1)
        /\ c = SubSeq(source, q + 1, g - 1)
    BY DEF StringAt, Typed
  <1>2. StringAt(q, g + 1, Append(c, source[g]), ts)
    <2>1. \A i \in (q + 1) .. ((g + 1) - 1) : source[i] \notin {Quote, "eof"}
      BY <1>1, OneMore DEF StringAt
    <2>2. SubSeq(source, q + 1, (g + 1) - 1) = Append(c, source[g])
      BY <1>1, OneMore
    <2>. QED  BY <1>1, <2>1, <2>2 DEF StringAt
  <1>3. ASSUME Len(c) >= ChunkBufferSize  PROVE LongToken
    <2>1. PICK r \in Strings : /\ r[1] = q /\ r[2] \in Nat /\ g \in q .. r[2]
                               /\ r \in Quotes => g < r[2]
      BY StringRegion
    <2>2. Len(c) = (g - 1) - q /\ g \in Nat /\ q \in Nat
      BY <1>1 DEF Typed
    <2>3. r[2] - q > ChunkBufferSize + (IF r \in Quotes THEN 1 ELSE 0)
      BY <1>3, <2>1, <2>2, LexerAssumption
    <2>. QED  BY <2>1, <2>3 DEF LongToken
  <1>. QED  BY <1>2, <1>3

(* A string that the end of the text cuts off is not closed.               *)
LEMMA StringStops ==
  ASSUME Typed, NEW q, NEW g, NEW c, NEW ts, StringAt(q, g, c, ts),
         g <= Len(source) => source[g] = "eof"
  PROVE  OpenString
  <1>1. PICK r \in Strings : /\ r[1] = q
                             /\ g <= Len(source) => g \in q .. r[2]
                             /\ r \in Quotes => g < r[2]
    BY StringRegion, Named
  <1>2. CASE g <= Len(source)
    <2>1. g \in r[1] .. r[2] /\ source[g] = "eof"
      BY <1>1, <1>2
    <2>. QED  BY <2>1, Zenon DEF OpenString
  <1>3. CASE ~ (g <= Len(source))
    <2>1. r \in Regions
      BY Named
    <2>2. r[2] \in Nat /\ r[2] <= Len(source) /\ g \in Nat
      BY <2>1, RegionFacts DEF Behind, StringAt, Typed
    <2>3. r \notin Quotes
      BY <1>1, <1>3, <2>2 DEF Typed
    <2>. QED  BY <1>1, <2>3 DEF OpenString
  <1>. QED  BY <1>2, <1>3

(* A quote ends a string, which tells it.                                  *)
LEMMA StringEnds ==
  ASSUME Typed, NEW q, NEW g, NEW c, NEW ts, StringAt(q, g, c, ts), g <= Len(source),
         source[g] = Quote
  PROVE  TextAt(g + 1, g + 1, <<>>, Append(ts, String(Copied(c))))
  <1>1. /\ q \in 1 .. Len(source) /\ g \in (q + 1) .. Len(source)
        /\ c = SubSeq(source, q + 1, g - 1) /\ Cut(q) /\ Told(q, ts)
        /\ source[q] = Quote /\ \A i \in (q + 1) .. (g - 1) : source[i] # Quote
    BY DEF StringAt, Typed
  <1>2. Told(g + 1, Append(ts, String(Copied(c)))) /\ Cut(g + 1) /\ g \notin Ordinary
    BY <1>1, QuoteTold
  <1>3. (g + 1) - 1 = g
    BY <1>1
  <1>. QED  BY <1>2, <1>3, TextStarts

(* A comment goes on to the end of its line, or of the text.               *)
LEMMA CommentGoesOn ==
  ASSUME Typed, NEW q, NEW g, NEW ts, CommentAt(q, g, ts), g <= Len(source),
         source[g] \notin {"newline", "eof"}
  PROVE  CommentAt(q, g + 1, ts)
  <1>1. /\ q + 1 \in 1 .. (Len(source) + 1) /\ g \in (q + 1) .. Len(source)
        /\ g + 1 \in (q + 1) .. (Len(source) + 1)
    BY DEF CommentAt, Typed
  <1>2. \A i \in (q + 1) .. ((g + 1) - 1) : source[i] \notin {"newline", "eof"}
    BY <1>1, OneMore DEF CommentAt
  <1>. QED  BY <1>1, <1>2 DEF CommentAt

(* The end of its line ends a comment, which tells nothing.                *)
LEMMA CommentEnds ==
  ASSUME Typed, NEW q, NEW g, NEW ts, CommentAt(q, g, ts),
         g <= Len(source) => source[g] \in {"newline", "eof"},
         NEW h, h = IF g > Len(source) THEN g ELSE g + 1
  PROVE  TextAt(h, h, <<>>, ts)
  <1>1. /\ q \in 1 .. Len(source) /\ g \in (q + 1) .. (Len(source) + 1) /\ Cut(q) /\ Told(q, ts)
        /\ source[q] = Semicolon
        /\ \A i \in (q + 1) .. (g - 1) : source[i] \notin {"newline", "eof"}
    BY DEF CommentAt
  <1>2. Closers(source[q]) = {"newline", "eof"}
    BY <1>1, Named
  <1>3. EndOf(q) + 1 = h /\ h - 1 = EndOf(q)
    <2>1. CASE g > Len(source)
      <3>1. g = Len(source) + 1 /\ \A i : i \in (q + 1) .. Len(source) => i \in (q + 1) .. (g - 1)
        BY <1>1, <2>1 DEF Typed
      <3>2. EndOf(q) = Len(source)
        BY <1>1, <1>2, <3>1, EndOfFacts
      <3>. QED  BY <2>1, <3>1, <3>2 DEF Typed
    <2>2. CASE ~ (g > Len(source))
      <3>1. g \in (q + 1) .. Len(source) /\ source[g] \in {"newline", "eof"} /\ g \in Nat
        BY <1>1, <2>2 DEF Typed
      <3>2. EndOf(q) = g
        BY <1>1, <1>2, <3>1, EndOfFacts
      <3>. QED  BY <2>2, <3>1, <3>2
    <2>. QED  BY <2>1, <2>2
  <1>4. Told(EndOf(q) + 1, ts) /\ Cut(EndOf(q) + 1) /\ EndOf(q) \notin Ordinary
    <2>1. q <= Len(source) /\ source[q] \in {Semicolon, "eof"}
      BY <1>1 DEF Typed
    <2>. QED  BY <1>1, <2>1, CommentTold
  <1>. QED  BY <1>3, <1>4, TextStarts

(* An end of input is the end of the text, also where it is within.        *)
LEMMA AllTold ==
  ASSUME Typed, NEW g, Cut(g), NEW ts, Told(g, ts), g <= Len(source) => source[g] = "eof"
  PROVE  ts = [i \in 1 .. Len(Spans) |-> TokenOf(Spans[i])]
  <1>1. \A r \in AllSpans : r[1] < Len(source) + 1
    BY SpanFacts DEF Typed
  <1>2. CASE g <= Len(source)
    <2>1. g \in 1 .. Len(source) /\ source[g] = "eof"
      BY <1>2 DEF Cut, Typed
    <2>2. EndOf(g) = Len(source)
      BY <2>1, EndOfFacts, Named
    <2>3. Told(EndOf(g) + 1, ts)
      BY <1>2, <2>1, CommentTold
    <2>4. Told(Len(source) + 1, ts)
      BY <2>2, <2>3
    <2>. QED  BY <1>1, <2>4, TextTold
  <1>3. CASE ~ (g <= Len(source))
    <2>1. g = Len(source) + 1
      BY <1>3 DEF Cut, Typed
    <2>. QED  BY <1>1, <2>1, TextTold
  <1>. QED  BY <1>2, <1>3

-----------------------------------------------------------------------------
(* Every step tells what it reads.                                         *)

(* A step of the lexer that goes on.                                        *)
LEMMA ScannedNext ==
  ASSUME UNCHANGED source, status' = "run", NEW f, NEW g, NEW c, NEW ts,
         g = at', c = chunk', ts = tokens',
         \/ reading' = "text" /\ TextAt(f, g, c, ts)
         \/ reading' = "string" /\ StringAt(f, g, c, ts)
         \/ reading' = "comment" /\ CommentAt(f, g, ts)
  PROVE  Scanned'
  <1>1. /\ reading' = "text" => TextAt(f, g, c, ts)'
        /\ reading' = "string" => StringAt(f, g, c, ts)'
        /\ reading' = "comment" => CommentAt(f, g, ts)'
    BY SourceKept
  <1>2. Ends'
    BY DEF Ends
  <1>. QED  BY <1>1, <1>2 DEF Scanned

(* One that ends it.                                                       *)
LEMMA ScannedAtEnd ==
  ASSUME UNCHANGED source, NEW ts, ts = tokens',
         \/ status' = "done" /\ WholeText(ts)
         \/ status' = "illegal" /\ OpenString
         \/ status' = "overrun" /\ LongToken
         \/ status' = "range" /\ LargeNumber
  PROVE  Scanned'
  <1>1. \/ status' = "done" /\ WholeText(ts)'
        \/ status' = "illegal" /\ OpenString'
        \/ status' = "overrun" /\ LongToken'
        \/ status' = "range" /\ LargeNumber'
    BY SourceKept
  <1>2. Ends'
    BY <1>1 DEF Ends
  <1>. QED  BY <1>1, <1>2 DEF Scanned

(* Where the lexer is, and the character that it reads.                    *)
LEMMA Position ==
  ASSUME IInv, Scanned, status = "run"
  PROVE  /\ Typed /\ at \in 1 .. (Len(source) + 1) /\ at \in Nat
         /\ Char = IF at <= Len(source) THEN source[at] ELSE "eof"
         /\ reading = "comment" => chunk = <<>>
         /\ \E f, g, c, ts : /\ g = at /\ c = chunk /\ ts = tokens
                             /\ reading = "text" => TextAt(f, g, c, ts)
                             /\ reading = "string" => StringAt(f, g, c, ts)
                             /\ reading = "comment" => CommentAt(f, g, ts)
  <1>1. source \in Seq(Characters) /\ at \in 1 .. (Len(source) + 1) /\ Len(source) \in Nat
        /\ (reading = "comment" => chunk = <<>>)
    BY DEF IInv, Buffers
  <1>2. Char = IF at <= Len(source) THEN source[at] ELSE "eof"
    BY <1>1 DEF Char
  <1>. QED  BY <1>1, <1>2 DEF Scanned, Typed

(* A character is consumed, but never one behind the text.                 *)
LEMMA Consumes ==
  ASSUME IInv, Consume
  PROVE  at' = IF at > Len(source) THEN at ELSE at + 1
  BY DEF Consume

(* What has been told when a chunk has become a token.                     *)
LEMMA ChunkEnds ==
  ASSUME IInv, Scanned, status = "run", reading = "text", Char \in Spaces \cup Reserved
  PROVE  \E g, ts : /\ g = at /\ ts = Chunked /\ Cut(g) /\ Told(g, ts) /\ g \notin Ordinary
                    /\ OutOfRange => LargeNumber
  <1>1. PICK f, g, c, ts : g = at /\ c = chunk /\ ts = tokens /\ TextAt(f, g, c, ts)
    BY Position
  <1>2. Typed /\ (g <= Len(source) => source[g] \in Spaces \cup Reserved)
    BY <1>1, Position
  <1>3. /\ g \notin Ordinary /\ Cut(g)
        /\ Told(g, IF c = <<>> THEN ts ELSE Append(ts, Classified(c)))
        /\ c # <<>> => \E r \in Runs : c = SubSeq(source, r[1], r[2])
    BY <1>1, <1>2, TextEnds DEF TextAt
  <1>4. PICK us : us = Chunked
    OBVIOUS
  <1>5. us = IF c = <<>> THEN ts ELSE Append(ts, Classified(c))
    BY <1>1, <1>4 DEF Chunked
  <1>6. OutOfRange => LargeNumber
    BY <1>1, <1>3 DEF OutOfRange, LargeNumber
  <1>. QED  BY <1>1, <1>3, <1>4, <1>5, <1>6

(* Blank characters end a chunk.                                           *)
LEMMA SkipCharTells == ASSUME IInv, Scanned, SkipChar PROVE Scanned'
  <1>1. /\ status = "run" /\ reading = "text" /\ Char \in Spaces /\ TokenizeChunk(<<>>) /\ Consume
        /\ UNCHANGED <<source, reading, status>>
    BY DEF SkipChar, Reads
  <1>2. PICK g, ts : g = at /\ ts = Chunked /\ Cut(g) /\ Told(g, ts)
    BY <1>1, ChunkEnds
  <1>3. Typed /\ g <= Len(source) /\ source[g] \in Spaces /\ at' = g + 1
    <2>1. "eof" \notin Spaces
      BY DEF Spaces
    <2>2. Typed /\ at \in 1 .. (Len(source) + 1)
          /\ Char = IF at <= Len(source) THEN source[at] ELSE "eof"
      BY <1>1, Position
    <2>. QED  BY <1>1, <1>2, <2>1, <2>2, Consumes DEF Typed
  <1>4. Told(g + 1, ts) /\ Cut(g + 1) /\ (g + 1) - 1 \notin Ordinary
    <2>1. (g + 1) - 1 = g
      BY <1>2 DEF Cut, Typed
    <2>. QED  BY <1>2, <1>3, <2>1, SpaceTold
  <1>5. TextAt(g + 1, g + 1, <<>>, ts)
    BY <1>3, <1>4, TextStarts
  <1>6. chunk' = <<>> /\ tokens' = ts
    BY <1>1, <1>2, Tokenized
  <1>. QED  BY <1>1, <1>3, <1>5, <1>6, ScannedNext

(* Brackets end a chunk and are tokens.                                    *)
LEMMA ReservedCharTells == ASSUME IInv, Scanned, ReservedChar PROVE Scanned'
  <1>1. PICK t : t = ReservedToken(Char)
    OBVIOUS
  <1>2. /\ status = "run" /\ reading = "text" /\ Char \in {"(", ")", "nul"}
        /\ TokenizeChunk(<<t>>) /\ Consume /\ UNCHANGED <<source, reading, status>>
    BY <1>1 DEF ReservedChar, Reads
  <1>3. PICK g, ts : g = at /\ ts = Chunked /\ Cut(g) /\ Told(g, ts)
    BY <1>2, ChunkEnds, Named
  <1>4. Typed /\ g <= Len(source) /\ source[g] \in {"(", ")", "nul"}
        /\ Char = source[g] /\ at' = g + 1
    <2>1. Typed /\ at \in 1 .. (Len(source) + 1)
          /\ Char = IF at <= Len(source) THEN source[at] ELSE "eof"
      BY <1>2, Position
    <2>. QED  BY <1>2, <1>3, <2>1, Consumes DEF Typed
  <1>5. Told(g + 1, Append(ts, t)) /\ Cut(g + 1) /\ (g + 1) - 1 \notin Ordinary
    <2>1. (g + 1) - 1 = g
      BY <1>3 DEF Cut, Typed
    <2>. QED  BY <1>1, <1>3, <1>4, <2>1, BracketTold
  <1>6. TextAt(g + 1, g + 1, <<>>, Append(ts, t))
    BY <1>4, <1>5, TextStarts
  <1>7. chunk' = <<>> /\ tokens' = Append(ts, t)
    BY <1>2, <1>3, Tokenized
  <1>. QED  BY <1>2, <1>4, <1>6, <1>7, ScannedNext

(* A quote or a semicolon begins a region here.                            *)
LEMMA RegionBegins ==
  ASSUME IInv, Scanned, status = "run", reading = "text", Char \in {Quote, Semicolon},
         TokenizeChunk(<<>>), Consume
  PROVE  \E g, ts : /\ g = at /\ ts = tokens' /\ chunk' = <<>> /\ at' = g + 1
                    /\ Typed /\ g \in 1 .. Len(source) /\ g + 1 \in (g + 1) .. (Len(source) + 1)
                    /\ source[g] = Char /\ Cut(g) /\ Told(g, ts)
                    /\ SubSeq(source, g + 1, (g + 1) - 1) = <<>>
                    /\ (g + 1) .. ((g + 1) - 1) = {}
  <1>1. Char \in Reserved /\ Char # "eof"
    BY Named DEF Openers
  <1>2. PICK g, ts : g = at /\ ts = Chunked /\ Cut(g) /\ Told(g, ts)
    BY <1>1, ChunkEnds
  <1>3. Typed /\ at \in 1 .. (Len(source) + 1)
        /\ Char = IF at <= Len(source) THEN source[at] ELSE "eof"
    BY Position
  <1>4. /\ g \in 1 .. Len(source) /\ g + 1 \in (g + 1) .. (Len(source) + 1) /\ at' = g + 1
        /\ source[g] = Char
    BY <1>1, <1>2, <1>3, Consumes DEF Typed
  <1>5. SubSeq(source, g + 1, (g + 1) - 1) = <<>> /\ (g + 1) .. ((g + 1) - 1) = {}
    BY <1>3, <1>4 DEF Typed
  <1>6. chunk' = <<>> /\ tokens' = ts
    BY <1>2, Tokenized
  <1>. QED  BY <1>2, <1>3, <1>4, <1>5, <1>6

(* A quote ends a chunk and begins a string.                               *)
LEMMA BeginStringTells == ASSUME IInv, Scanned, BeginString PROVE Scanned'
  <1>1. /\ status = "run" /\ reading = "text" /\ Char = Quote /\ TokenizeChunk(<<>>) /\ Consume
        /\ reading' = "string" /\ UNCHANGED <<source, status>>
    BY Zenon DEF BeginString, Reads, Quote
  <1>2. PICK g, ts : /\ g = at /\ ts = tokens' /\ chunk' = <<>> /\ at' = g + 1
                     /\ Typed /\ g \in 1 .. Len(source) /\ g + 1 \in (g + 1) .. (Len(source) + 1)
                     /\ source[g] = Char /\ Cut(g) /\ Told(g, ts)
                     /\ SubSeq(source, g + 1, (g + 1) - 1) = <<>>
                     /\ (g + 1) .. ((g + 1) - 1) = {}
    BY <1>1, RegionBegins
  <1>3. StringAt(g, g + 1, <<>>, ts)
    BY <1>1, <1>2 DEF StringAt
  <1>. QED  BY <1>1, <1>2, <1>3, ScannedNext

(* A semicolon ends a chunk and begins a comment.                          *)
LEMMA BeginCommentTells == ASSUME IInv, Scanned, BeginComment PROVE Scanned'
  <1>1. /\ status = "run" /\ reading = "text" /\ Char = Semicolon /\ TokenizeChunk(<<>>)
        /\ Consume /\ reading' = "comment" /\ UNCHANGED <<source, status>>
    BY Zenon DEF BeginComment, Reads, Semicolon
  <1>2. PICK g, ts : /\ g = at /\ ts = tokens' /\ chunk' = <<>> /\ at' = g + 1
                     /\ Typed /\ g \in 1 .. Len(source) /\ g + 1 \in (g + 1) .. (Len(source) + 1)
                     /\ source[g] = Char /\ Cut(g) /\ Told(g, ts)
                     /\ SubSeq(source, g + 1, (g + 1) - 1) = <<>>
                     /\ (g + 1) .. ((g + 1) - 1) = {}
    BY <1>1, RegionBegins
  <1>3. CommentAt(g, g + 1, ts)
    BY <1>1, <1>2 DEF CommentAt
  <1>. QED  BY <1>1, <1>2, <1>3, ScannedNext

(* The end of the text ends a chunk and the tokens.                        *)
LEMMA EndOfInputTells == ASSUME IInv, Scanned, EndOfInput PROVE Scanned'
  <1>1. /\ status = "run" /\ reading = "text" /\ Char = "eof" /\ TokenizeChunk(<<End>>)
        /\ status' = "done" /\ UNCHANGED source
    BY DEF EndOfInput, Reads, End
  <1>2. PICK g, ts : g = at /\ ts = Chunked /\ Cut(g) /\ Told(g, ts)
    <2>1. Char \in Reserved
      BY <1>1, Named DEF Openers
    <2>. QED  BY <1>1, <2>1, ChunkEnds
  <1>3. Typed /\ (g <= Len(source) => source[g] = "eof")
    BY <1>1, <1>2, Position
  <1>4. ts = [i \in 1 .. Len(Spans) |-> TokenOf(Spans[i])]
    BY <1>2, <1>3, AllTold
  <1>5. tokens' = Append(ts, End)
    BY <1>1, <1>2, Tokenized
  <1>6. ts \in Seq(Inner)
    BY <1>1, <1>2, ChunkedFacts DEF TokenizeChunk
  <1>7. Append(ts, End) = ts \o <<End>>
    <2> HIDE DEF Inner, End
    <2>. QED  BY <1>6
  <1>8. WholeText(tokens')
    <2>1. PICK us : us = tokens'
      OBVIOUS
    <2>2. us = [i \in 1 .. Len(Spans) |-> TokenOf(Spans[i])] \o <<End>>
      BY <1>4, <1>5, <1>7, <2>1, Zenon
    <2>. QED  BY <2>1, <2>2 DEF WholeText
  <1>. QED  BY <1>1, <1>8, ScannedAtEnd

(* All other characters get into the buffer.                               *)
LEMMA ChunkCharTells == ASSUME IInv, Scanned, ChunkChar PROVE Scanned'
  <1>1. /\ status = "run" /\ reading = "text" /\ Char \notin Spaces \cup Reserved
        /\ chunk' = Append(chunk, Char) /\ Consume /\ UNCHANGED <<source, reading, tokens, status>>
    BY DEF ChunkChar, AppendChar
  <1>2. PICK f, g, c, ts : g = at /\ c = chunk /\ ts = tokens /\ TextAt(f, g, c, ts)
    BY <1>1, Position
  <1>3. Typed /\ g <= Len(source) /\ Char = source[g] /\ at' = g + 1
    <2>1. "eof" \in Reserved
      BY Named DEF Openers
    <2>2. Typed /\ at \in 1 .. (Len(source) + 1)
          /\ Char = IF at <= Len(source) THEN source[at] ELSE "eof"
      BY <1>1, Position
    <2>. QED  BY <1>1, <1>2, <2>1, <2>2, Consumes DEF Typed
  <1>4. TextAt(f, g + 1, Append(c, source[g]), ts)
    BY <1>1, <1>2, <1>3, TextGoesOn
  <1>. QED  BY <1>1, <1>2, <1>3, <1>4, ScannedNext

(* Strings keep all characters but quotes and the end of the text.         *)
LEMMA StringCharTells == ASSUME IInv, Scanned, StringChar PROVE Scanned'
  <1>1. /\ status = "run" /\ reading = "string" /\ Char \notin {Quote, "eof"}
        /\ chunk' = Append(chunk, Char) /\ Consume /\ UNCHANGED <<source, reading, tokens, status>>
    BY Zenon DEF StringChar, AppendChar, Quote
  <1>2. PICK f, g, c, ts : g = at /\ c = chunk /\ ts = tokens /\ StringAt(f, g, c, ts)
    BY <1>1, Position
  <1>3. Typed /\ g <= Len(source) /\ Char = source[g] /\ at' = g + 1
    <2>1. Typed /\ at \in 1 .. (Len(source) + 1)
          /\ Char = IF at <= Len(source) THEN source[at] ELSE "eof"
      BY <1>1, Position
    <2>. QED  BY <1>1, <1>2, <2>1, Consumes DEF Typed
  <1>4. StringAt(f, g + 1, Append(c, source[g]), ts)
    BY <1>1, <1>2, <1>3, StringGoesOn
  <1>. QED  BY <1>1, <1>2, <1>3, <1>4, ScannedNext

(* Comments skip all characters but the end of the line.                   *)
LEMMA CommentCharTells == ASSUME IInv, Scanned, CommentChar PROVE Scanned'
  <1>1. /\ status = "run" /\ reading = "comment" /\ Char \notin {"newline", "eof"} /\ Consume
        /\ UNCHANGED <<source, reading, chunk, tokens, status>>
    BY DEF CommentChar
  <1>2. PICK f, g, c, ts : g = at /\ c = chunk /\ ts = tokens /\ CommentAt(f, g, ts)
    BY <1>1, Position
  <1>3. Typed /\ g <= Len(source) /\ Char = source[g] /\ at' = g + 1
    <2>1. Typed /\ at \in 1 .. (Len(source) + 1)
          /\ Char = IF at <= Len(source) THEN source[at] ELSE "eof"
      BY <1>1, Position
    <2>. QED  BY <1>1, <1>2, <2>1, Consumes DEF Typed
  <1>4. CommentAt(f, g + 1, ts)
    BY <1>1, <1>2, <1>3, CommentGoesOn
  <1>. QED  BY <1>1, <1>2, <1>3, <1>4, ScannedNext

(* The end of the line or of the text ends a comment.                      *)
LEMMA EndCommentTells == ASSUME IInv, Scanned, EndComment PROVE Scanned'
  <1>1. /\ status = "run" /\ reading = "comment" /\ Char \in {"newline", "eof"} /\ Consume
        /\ reading' = "text" /\ UNCHANGED <<source, chunk, tokens, status>>
    BY DEF EndComment, Reads, AfterComment
  <1>2. PICK f, g, c, ts : g = at /\ c = chunk /\ ts = tokens /\ CommentAt(f, g, ts)
    BY <1>1, Position
  <1>3. /\ Typed /\ g <= Len(source) => source[g] \in {"newline", "eof"}
        /\ chunk = <<>> /\ at' = IF g > Len(source) THEN g ELSE g + 1
    BY <1>1, <1>2, Position, Consumes
  <1>4. Typed
    BY <1>1, Position
  <1>5. PICK h : h = at'
    OBVIOUS
  <1>6. TextAt(h, h, <<>>, ts)
    BY <1>2, <1>3, <1>4, <1>5, CommentEnds
  <1>. QED  BY <1>1, <1>2, <1>3, <1>5, <1>6, ScannedNext

(* The next quote ends a string.                                           *)
LEMMA EndStringTells == ASSUME IInv, Scanned, EndString PROVE Scanned'
  <1>1. /\ status = "run" /\ reading = "string" /\ Char = Quote /\ Consume
        /\ tokens' = Append(tokens, String(Copied(chunk))) /\ chunk' = <<>>
        /\ reading' = "text" /\ UNCHANGED <<source, status>>
    BY Zenon DEF EndString, Reads, AfterString, Quote
  <1>2. PICK f, g, c, ts : g = at /\ c = chunk /\ ts = tokens /\ StringAt(f, g, c, ts)
    BY <1>1, Position
  <1>3. Typed /\ g <= Len(source) /\ source[g] = Quote /\ at' = g + 1
    <2>1. Typed /\ at \in 1 .. (Len(source) + 1)
          /\ Char = IF at <= Len(source) THEN source[at] ELSE "eof"
      BY <1>1, Position
    <2>. QED  BY <1>1, <1>2, <2>1, Consumes, Named DEF Typed
  <1>4. TextAt(g + 1, g + 1, <<>>, Append(ts, String(Copied(c))))
    BY <1>2, <1>3, StringEnds
  <1>. QED  BY <1>1, <1>2, <1>3, <1>4, ScannedNext

(* The end of the text in a string is an error.                            *)
LEMMA IllegalStringTells == ASSUME IInv, Scanned, IllegalString PROVE Scanned'
  <1>1. /\ status = "run" /\ reading = "string" /\ Char = "eof" /\ status' = "illegal"
        /\ UNCHANGED source
    BY DEF IllegalString, Reads
  <1>2. PICK f, g, c, ts : g = at /\ c = chunk /\ ts = tokens /\ StringAt(f, g, c, ts)
    BY <1>1, Position
  <1>3. Typed /\ (g <= Len(source) => source[g] = "eof")
    BY <1>1, <1>2, Position
  <1>4. OpenString
    BY <1>2, <1>3, StringStops
  <1>. QED  BY <1>1, <1>4, ScannedAtEnd

(* A number beyond an int, or a character beyond the buffer.               *)
LEMMA UndefinedTells == ASSUME IInv, Scanned, Undefined PROVE Scanned'
  <1>1. status = "run" /\ UNCHANGED source
    BY DEF Undefined
  <1>2. Typed /\ at \in 1 .. (Len(source) + 1)
        /\ Char = IF at <= Len(source) THEN source[at] ELSE "eof"
    BY <1>1, Position
  <1>3. ASSUME ~Room, status' = "overrun",
               Char \notin CASE reading = "text"    -> Spaces \cup Reserved
                             [] reading = "string"  -> {Quote, "eof"}
                             [] reading = "comment" -> {Char}
        PROVE  LongToken
    <2>1. chunk \in Seq(Characters) /\ Len(chunk) \in Nat
      BY DEF IInv, Buffers
    <2>2. Len(chunk) >= ChunkBufferSize
      BY <1>3, <2>1, LexerAssumption DEF Room
    <2>3. CASE reading = "text"
      <3>1. PICK f, g, c, ts : g = at /\ c = chunk /\ ts = tokens /\ TextAt(f, g, c, ts)
        BY <1>1, <2>3, Position
      <3>2. Char \notin Spaces \cup Reserved /\ "eof" \in Reserved
        BY <1>3, <2>3, Named DEF Openers
      <3>3. g <= Len(source) /\ source[g] \notin Spaces \cup Reserved
        BY <1>2, <3>1, <3>2 DEF Typed
      <3>. QED  BY <1>2, <2>2, <3>1, <3>3, TextGoesOn
    <2>4. CASE reading = "string"
      <3>1. PICK f, g, c, ts : g = at /\ c = chunk /\ ts = tokens /\ StringAt(f, g, c, ts)
        BY <1>1, <2>4, Position
      <3>2. Char \notin {Quote, "eof"}
        BY <1>3, <2>4
      <3>3. g <= Len(source) /\ source[g] \notin {Quote, "eof"}
        BY <1>2, <3>1, <3>2 DEF Typed
      <3>. QED  BY <1>2, <2>2, <3>1, <3>3, StringGoesOn
    <2>5. CASE reading = "comment"
      BY <1>3, <2>5
    <2>. QED  BY <2>3, <2>4, <2>5 DEF IInv, Buffers
  <1>4. ASSUME OutOfRange, reading = "text", Char \in Spaces \cup Reserved  PROVE LargeNumber
    BY <1>1, <1>4, ChunkEnds
  <1>5. \/ /\ ~Room /\ status' = "overrun"
           /\ Char \notin CASE reading = "text"    -> Spaces \cup Reserved
                            [] reading = "string"  -> {Quote, "eof"}
                            [] reading = "comment" -> {Char}
        \/ OutOfRange /\ status' = "range" /\ reading = "text" /\ Char \in Spaces \cup Reserved
    BY Zenon DEF Undefined, Quote
  <1>. QED  BY <1>1, <1>3, <1>4, <1>5, ScannedAtEnd

(* All steps together.                                                     *)
LEMMA NextTells == ASSUME IInv, Scanned, [Next]_vars PROVE Scanned'
  <1>1. CASE UNCHANGED vars
    <2>1. UNCHANGED <<source, at, reading, chunk, tokens, status>>
      BY <1>1 DEF vars
    <2>2. Ends'
      <3>1. /\ \A ts : WholeText(ts)' <=> WholeText(ts)
            /\ OpenString' <=> OpenString
            /\ LongToken' <=> LongToken
            /\ LargeNumber' <=> LargeNumber
        BY <2>1, SourceKept
      <3>2. Ends
        BY DEF Scanned
      <3>3. PICK ts : ts = tokens
        OBVIOUS
      <3>4. status = "done" => WholeText(ts)'
        BY <3>1, <3>2, <3>3 DEF Ends
      <3>5. status' = "done" => WholeText(tokens)'
        BY <2>1, <3>3, <3>4 DEF WholeText
      <3>. QED  BY <2>1, <3>1, <3>2, <3>5 DEF Ends
    <2>3. CASE status = "run"
      <3>1. PICK f, g, c, ts : /\ g = at /\ c = chunk /\ ts = tokens
                               /\ reading = "text" => TextAt(f, g, c, ts)
                               /\ reading = "string" => StringAt(f, g, c, ts)
                               /\ reading = "comment" => CommentAt(f, g, ts)
        BY <2>3, Position
      <3>2. reading \in {"text", "comment", "string"}
        BY DEF IInv, Buffers
      <3>. QED  BY <2>1, <2>3, <3>1, <3>2, ScannedNext
    <2>4. CASE status # "run"
      BY <2>1, <2>2, <2>4 DEF Scanned
    <2>. QED  BY <2>3, <2>4
  <1>2. CASE Ended
    BY <1>1, <1>2 DEF Ended
  <1>. QED
    BY <1>1, <1>2, SkipCharTells, ReservedCharTells, BeginCommentTells, BeginStringTells,
       EndOfInputTells, ChunkCharTells, CommentCharTells, EndCommentTells, StringCharTells,
       EndStringTells, IllegalStringTells, UndefinedTells DEF Next, Step

(* At the beginning nothing has been read.                                 *)
LEMMA InitTells == ASSUME Init PROVE Scanned
  <1>1. IInv /\ status = "run" /\ at = 1 /\ reading = "text" /\ chunk = <<>> /\ tokens = <<>>
    BY InitEstablishes DEF Init
  <1>2. Typed
    BY <1>1 DEF IInv, Buffers, Typed
  <1>3. Cut(1)
    BY <1>2, RegionsFrom DEF Cut, Typed
  <1>4. 1 - 1 \notin Ordinary
    BY <1>2 DEF Ordinary, Outside, Typed
  <1>5. Told(1, <<>>)
    <2>1. <<>> \in Seq(AllSpans) /\ Increasing(<<>>)
      BY DEF Increasing
    <2>2. Before(<<>>, 1)
      <3>1. \A r \in AllSpans : ~ (r[1] < 1)
        BY <1>2, SpanFacts DEF Typed
      <3>. QED  BY <3>1 DEF Before
    <2>3. <<>> = [i \in 1 .. Len(<<>>) |-> TokenOf(<<>>[i])]
      OBVIOUS
    <2>. QED  BY <2>1, <2>2, <2>3 DEF Told
  <1>6. TextAt(1, 1, <<>>, <<>>)
    BY <1>2, <1>3, <1>4, <1>5, TextStarts
  <1>7. Ends
    BY <1>1 DEF Ends
  <1>. QED  BY <1>1, <1>6, <1>7 DEF Scanned

(* At each moment the tokens are those that begin before the chunk, string *)
(* or comment that is being read, whatever the text and the buffer's size. *)
THEOREM ReadingInvariance == Spec => [](IInv /\ Scanned)
  <1>1. Init => IInv /\ Scanned
    BY InitEstablishes, InitTells
  <1>2. IInv /\ Scanned /\ [Next]_vars => IInv' /\ Scanned'
    BY NextKeeps, NextTells
  <1>. QED  BY <1>1, <1>2, PTL DEF Spec

(* The tokens of every text are those that the characters themselves mark, *)
(* though chunks, strings and comments share the loop and the buffer.      *)
THEOREM TokensAreOfText == Spec => []TokensOfText
  <1>1. IInv /\ Scanned => TokensOfText
    BY EndsFacts DEF Scanned
  <1>. QED  BY <1>1, ReadingInvariance, PTL

(* Every text that the lexer refuses has a string without an end, and any  *)
(* that it does not survive a token or number that is too long.            *)
THEOREM StopsWithReason == Spec => []StopsForAReason
  <1>1. IInv /\ Scanned => StopsForAReason
    BY EndsFacts DEF Scanned
  <1>. QED  BY <1>1, ReadingInvariance, PTL

=============================================================================
