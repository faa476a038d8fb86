------------------------------- MODULE Lexer -------------------------------
(***************************************************************************)
(* The lexer: characters to tokens, through the chunk buffer in which      *)
(* numbers and identifiers, and the texts of strings, are collected.       *)
(*                                                                         *)
(* Characters are named.  "eof" is the byte 0xFF, which fgetc's result     *)
(* equals to EOF once it is kept in a char; "nul" is the byte 0.  Tokens   *)
(* of numbers, names and texts have the fields of the nodes they become.   *)
(* malloc is taken to give zeroed memory to identifiers and strings, which *)
(* are not terminated: nothing is freed before, so it does.                *)
(***************************************************************************)
EXTENDS Integers, FiniteSets, SequencesExt, Syntax

CONSTANTS
  Sources,          \* the inputs: sequences of characters
  ChunkBufferSize,  \* CHUNK_BUFFER_SIZE
  IntMax            \* the largest long long

ASSUME LexerAssumption ==
  /\ \A s \in Sources : s \in Seq(Range(s))
  /\ ChunkBufferSize \in Nat \ {0} /\ IntMax \in Nat

VARIABLES
  source,     \* the input; no step changes it
  at,         \* the next character's place in it
  reading,    \* the loop that reads it: "text", "comment" or "string"
  chunk,      \* the chunk buffer up to chunkEnd
  tokens,
  status      \* "run", "done", "illegal", or "overrun" and "range", undefined

vars == <<source, at, reading, chunk, tokens, status>>

-----------------------------------------------------------------------------
(* Characters.                                                             *)

Spaces == {"space", "newline"}
Digits == <<"0", "1", "2", "3", "4", "5", "6", "7", "8", "9">>
IsDigit(c) == c \in Range(Digits)
DigitValue(c) == (CHOOSE i \in 1 .. 10 : Digits[i] = c) - 1

Reserved == {"(", ")", "\"", ";", "nul", "eof"}

(* fgetc says EOF at the end of the input, as often as it is asked.        *)
Char == IF at > Len(source) THEN "eof" ELSE source[at]
Consume == at' = IF at > Len(source) THEN at ELSE at + 1

-----------------------------------------------------------------------------
(* Chunks: tokenizeChunk.                                                  *)

Unsigned(s) == IF Head(s) \in {"+", "-"} THEN Tail(s) ELSE s

IsNumeric(s) ==
  LET u == Unsigned(s)
      points == {i \in 1 .. Len(u) : u[i] = "."}
  IN Cardinality(points) = 1 /\ \A i \in (1 .. Len(u)) \ points : IsDigit(u[i])

IsInteger(s) == Unsigned(s) # <<>> /\ \A c \in Range(Unsigned(s)) : IsDigit(c)

Magnitude(s) == FoldLeft(LAMBDA n, c : 10 * n + DigitValue(c), 0, Unsigned(s))
Value(s) == IF Head(s) = "-" THEN -Magnitude(s) ELSE Magnitude(s)

Classified(s) ==
  CASE IsNumeric(s) -> Numeric
    [] IsInteger(s) -> Integer(Value(s))
    [] OTHER        -> Identifier(s)

Chunked == IF chunk = <<>> THEN tokens ELSE Append(tokens, Classified(chunk))

(* The digits add up to more than a long long holds. (So they may in a     *)
(* name that starts with digits, but there the sum is thrown away.)        *)
OutOfRangeEarly == chunk # <<>> /\ IsInteger(chunk) /\ Magnitude(chunk) >= IntMax
OutOfRange == chunk # <<>> /\ IsInteger(chunk) /\ Magnitude(chunk) > IntMax

(* tokenizeChunk is called, and is defined.                                *)
TokenizeChunk(more) == ~OutOfRange /\ tokens' = Chunked \o more /\ chunk' = <<>>

-----------------------------------------------------------------------------
(* tokenize.                                                               *)

Init ==
  /\ source \in Sources
  /\ at = 1 /\ reading = "text" /\ chunk = <<>> /\ tokens = <<>> /\ status = "run"

Reads(loop, c) == status = "run" /\ reading = loop /\ Char = c

SkipChar ==
  /\ \E c \in Spaces : Reads("text", c)
  /\ TokenizeChunk(<<>>) /\ Consume
  /\ UNCHANGED <<source, reading, status>>

(* '(' and ')' are the tokens their places in reservedChars name; so is    *)
(* the '\0' at its end, and its place is that of TK_INTEGER.               *)
ReservedToken(c) == IF c = "nul" THEN Integer(0) ELSE [type |-> c]

ReservedChar ==
  /\ \E c \in {"(", ")", "nul"} : Reads("text", c)
  /\ TokenizeChunk(<<ReservedToken(Char)>>) /\ Consume
  /\ UNCHANGED <<source, reading, status>>

BeginComment ==
  /\ Reads("text", ";")
  /\ TokenizeChunk(<<>>) /\ Consume /\ reading' = "comment"
  /\ UNCHANGED <<source, status>>

BeginString ==
  /\ Reads("text", "\"")
  /\ TokenizeChunk(<<>>) /\ Consume /\ reading' = "string"
  /\ UNCHANGED <<source, status>>

EndOfInput ==
  /\ Reads("text", "eof")
  /\ TokenizeChunk(<<[type |-> "eof"]>>) /\ Consume
  /\ status' = "done"
  /\ UNCHANGED <<source, reading>>

RoomForOneMore == Len(chunk) <= ChunkBufferSize
Room == Len(chunk) < ChunkBufferSize
AppendChar == Room /\ chunk' = Append(chunk, Char) /\ Consume

ChunkChar ==
  /\ status = "run" /\ reading = "text" /\ Char \notin Spaces \cup Reserved
  /\ AppendChar
  /\ UNCHANGED <<source, reading, tokens, status>>

CommentChar ==
  /\ status = "run" /\ reading = "comment" /\ Char \notin {"newline", "eof"}
  /\ Consume
  /\ UNCHANGED <<source, reading, chunk, tokens, status>>

AfterCommentStuck == IF Char = "eof" THEN "comment" ELSE "text"
AfterComment == "text"

EndComment ==
  /\ \E c \in {"newline", "eof"} : Reads("comment", c)
  /\ Consume /\ reading' = AfterComment
  /\ UNCHANGED <<source, chunk, tokens, status>>

StringChar ==
  /\ status = "run" /\ reading = "string" /\ Char \notin {"\"", "eof"}
  /\ AppendChar
  /\ UNCHANGED <<source, reading, tokens, status>>

AfterStringKept == chunk
AfterString == <<>>

(* strncpy copies up to the first '\0'.                                     *)
CopiedShort(s) == SubSeq(s, 1, Len(s) - 1)
Copied(s) ==
  LET zero == SelectInSeq(s, LAMBDA c : c = "nul")
  IN IF zero = 0 THEN s ELSE SubSeq(s, 1, zero - 1)

EndString ==
  /\ Reads("string", "\"")
  /\ tokens' = Append(tokens, String(Copied(chunk))) /\ chunk' = AfterString
  /\ Consume /\ reading' = "text"
  /\ UNCHANGED <<source, status>>

IllegalString ==
  /\ Reads("string", "eof")
  /\ status' = "illegal"
  /\ UNCHANGED <<source, at, reading, chunk, tokens>>

(* A character behind the buffer's end, and a conversion out of range.     *)
Undefined ==
  /\ status = "run"
  /\ \/ /\ ~Room /\ status' = "overrun"
        /\ Char \notin CASE reading = "text"    -> Spaces \cup Reserved
                         [] reading = "string"  -> {"\"", "eof"}
                         [] reading = "comment" -> {Char}
     \/ /\ OutOfRange /\ status' = "range"
        /\ reading = "text" /\ Char \in Spaces \cup Reserved
  /\ UNCHANGED <<source, at, reading, chunk, tokens>>

Ended == status # "run" /\ UNCHANGED vars

Step ==
  \/ SkipChar \/ ReservedChar \/ BeginComment \/ BeginString \/ EndOfInput
  \/ ChunkChar \/ CommentChar \/ EndComment \/ StringChar \/ EndString
  \/ IllegalString \/ Undefined

Next == Step \/ Ended

Spec == Init /\ [][Next]_vars

(* A process that can run goes on running.                                 *)
FairSpec == Spec /\ WF_vars(Step)

=============================================================================
