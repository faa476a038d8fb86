---------------------------- MODULE EarlierReader ----------------------------
(***************************************************************************)
(* The lexer and the parser of src/old, which the present ones replaced:   *)
(* a chunk and a string have buffers of their own, both on the C stack, a  *)
(* program is a sequence of lists, and nothing is wrapped around it.       *)
(*                                                                         *)
(* Characters and tokens are those of the present lexer.  parsePairHelper  *)
(* calls itself: open is what its activations have read of their lists.    *)
(***************************************************************************)
EXTENDS Integers, SequencesExt, Syntax

CONSTANTS
  Sources,        \* the inputs: sequences of characters
  MaxChunkSize,   \* MAX_CHUNK_SIZE
  MaxStringSize,  \* MAX_STRING_BUFFER_SIZE
  IntMax          \* the largest long long

ASSUME EarlierAssumption ==
  MaxChunkSize \in Nat \ {0} /\ MaxStringSize \in Nat \ {0} /\ IntMax \in Nat

VARIABLES
  source,     \* the input; no step changes it
  at,         \* the next character's place in it
  reading,    \* the loop that reads it: "text", "comment" or "string"
  chunk,      \* chunkBegin up to chunkEnd
  buffer,     \* bufferBegin up to bufferEnd
  tokens,     \* those made; once all are, those from curToken on
  open,       \* the elements read of each list that is open, innermost last
  trees,      \* the nodes that follow the ND_TOP_LEVEL one
  status      \* "lex", "parse", "done", "unexpected", or undefined: "crash",
              \* "overrun" of the chunk, "overflow" of the string, "range"

vars == <<source, at, reading, chunk, buffer, tokens, open, trees, status>>

(* The present lexer, for the characters and the promises it makes.        *)
Present == INSTANCE Tokens WITH
  ChunkBufferSize <- MaxChunkSize,
  status <- CASE status = "crash"    -> "illegal"
              [] status = "overflow" -> "run"
              [] OTHER               -> status

Mark(type) == [type |-> type]

-----------------------------------------------------------------------------
(* tokenize.                                                               *)

Init ==
  /\ source \in Sources /\ at = 1
  /\ reading = "text" /\ chunk = <<>> /\ buffer = <<>> /\ tokens = <<>>
  /\ open = <<>> /\ trees = <<>> /\ status = "lex"

Char == IF at > Len(source) THEN "eof" ELSE source[at]
Consume == at' = IF at > Len(source) THEN at ELSE at + 1
Reads(loop) == status = "lex" /\ reading = loop

Reserved == {"(", ")", "\"", ";", "nul"}
EndsChunk(c) == c \in Present!Spaces \cup Reserved \cup {"eof"}

(* isNumeric, then isInteger, then a name.                                 *)
TokenizedChunk == IF chunk = <<>> THEN <<>> ELSE <<Present!Classified(chunk)>>

TokenizeChunkKept(more) ==
  ~Present!OutOfRange /\ tokens' = tokens \o TokenizedChunk \o more /\ chunk' = chunk
TokenizeChunk(more) ==
  ~Present!OutOfRange /\ tokens' = tokens \o TokenizedChunk \o more /\ chunk' = <<>>

(* A token that is neither bracket keeps the type that calloc gives it: 0. *)
ReservedTokenByPlace(c) == IF c = "nul" THEN Integer(0) ELSE Mark(c)
ReservedToken(c) == IF c = ")" THEN Mark(")") ELSE Mark("(")

SkipChar ==
  /\ Reads("text") /\ Char \in Present!Spaces
  /\ TokenizeChunk(<<>>) /\ Consume
  /\ UNCHANGED <<source, reading, buffer, open, trees, status>>

ReservedChar ==
  /\ Reads("text") /\ Char \in {"(", ")", "nul"}
  /\ TokenizeChunk(<<ReservedToken(Char)>>) /\ Consume
  /\ UNCHANGED <<source, reading, buffer, open, trees, status>>

BeginOther ==
  /\ Reads("text") /\ Char \in {";", "\""}
  /\ TokenizeChunk(<<>>) /\ Consume /\ buffer' = <<>>
  /\ reading' = IF Char = ";" THEN "comment" ELSE "string"
  /\ UNCHANGED <<source, open, trees, status>>

ChunkChar ==
  /\ Reads("text") /\ ~EndsChunk(Char) /\ Len(chunk) < MaxChunkSize
  /\ chunk' = Append(chunk, Char) /\ Consume
  /\ UNCHANGED <<source, reading, buffer, tokens, open, trees, status>>

(* The end of the input ends a comment as well, and is then read again.    *)
AfterComment == IF Char \in {"newline", "eof"} THEN "text" ELSE "comment"

CommentChar ==
  /\ Reads("comment") /\ Consume /\ reading' = AfterComment
  /\ UNCHANGED <<source, chunk, buffer, tokens, open, trees, status>>

StringChar ==
  /\ Reads("string") /\ Char \notin {"\"", "eof"} /\ Len(buffer) < MaxStringSize
  /\ buffer' = Append(buffer, Char) /\ Consume
  /\ UNCHANGED <<source, reading, chunk, tokens, open, trees, status>>

(* There is room for the terminating '\0'; strcpy stops at the first one.  *)
RoomForZero == Len(buffer) < MaxStringSize

EndString ==
  /\ Reads("string") /\ Char = "\"" /\ RoomForZero
  /\ tokens' = Append(tokens, String(Present!Copied(buffer)))
  /\ Consume /\ reading' = "text"
  /\ UNCHANGED <<source, chunk, buffer, open, trees, status>>

(* The error message shows curToken, which parse has not set yet.          *)
UnfinishedString ==
  /\ Reads("string") /\ Char = "eof" /\ status' = "crash"
  /\ UNCHANGED <<source, at, reading, chunk, buffer, tokens, open, trees>>

Undefined ==
  /\ \/ /\ Reads("text") /\ ~EndsChunk(Char) /\ Len(chunk) = MaxChunkSize
        /\ status' = "overrun"
     \/ Reads("text") /\ EndsChunk(Char) /\ Present!OutOfRange /\ status' = "range"
     \/ /\ Reads("string") /\ Char # "eof" /\ Len(buffer) = MaxStringSize
        /\ status' = "overflow"
  /\ UNCHANGED <<source, at, reading, chunk, buffer, tokens, open, trees>>

EndOfInput ==
  /\ Reads("text") /\ Char = "eof"
  /\ TokenizeChunk(<<Mark("eof")>>) /\ Consume /\ status' = "parse"
  /\ UNCHANGED <<source, reading, buffer, open, trees>>

-----------------------------------------------------------------------------
(* parse.                                                                  *)

Wanted(types) == status = "parse" /\ Head(tokens).type \in types
AdvanceToken == tokens' = Tail(tokens)

(* An element of the innermost open list, or the next node of the program. *)
Deliver(node, lists) ==
  IF lists = <<>> THEN trees' = Append(trees, node) /\ open' = lists
  ELSE trees' = trees /\ open' = [lists EXCEPT ![Len(lists)] = Append(@, node)]

OpenPair ==
  /\ Wanted({"("}) /\ AdvanceToken
  /\ open' = Append(open, <<>>)
  /\ UNCHANGED <<source, at, reading, chunk, buffer, trees, status>>

ClosePair ==
  /\ Wanted({")"}) /\ open # <<>> /\ AdvanceToken
  /\ Deliver(List(Last(open)), Front(open))
  /\ UNCHANGED <<source, at, reading, chunk, buffer, status>>

InAListOrNot == TRUE
InAList == open # <<>>

ParsePrimitive ==
  /\ Wanted({"string", "integer", "numeric", "identifier"}) /\ InAList
  /\ AdvanceToken /\ Deliver(Head(tokens), open)
  /\ UNCHANGED <<source, at, reading, chunk, buffer, status>>

(* Without a list, next is read of a node that nothing was written to.     *)
Wild == <<Mark("undefined")>>

EndOfTokens ==
  /\ Wanted({"eof"}) /\ open = <<>> /\ status' = "done"
  /\ trees' \in IF trees = <<>> THEN {<<>>, Wild} ELSE {trees}
  /\ UNCHANGED <<source, at, reading, chunk, buffer, tokens, open>>

UnexpectedToken ==
  /\ \/ Wanted({"eof"}) /\ open # <<>>
     \/ Wanted({")", "string", "integer", "numeric", "identifier"}) /\ open = <<>>
  /\ status' = "unexpected"
  /\ UNCHANGED <<source, at, reading, chunk, buffer, tokens, open, trees>>

-----------------------------------------------------------------------------
Ended == status \notin {"lex", "parse"} /\ UNCHANGED vars

Step ==
  \/ SkipChar \/ ReservedChar \/ BeginOther \/ ChunkChar \/ CommentChar
  \/ StringChar \/ EndString \/ UnfinishedString \/ Undefined \/ EndOfInput
  \/ OpenPair \/ ClosePair \/ ParsePrimitive \/ EndOfTokens \/ UnexpectedToken

Next == Step \/ Ended

Spec == Init /\ [][Next]_vars

=============================================================================
