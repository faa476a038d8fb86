---------------------------- MODULE DriverProofs ----------------------------
(***************************************************************************)
(* From the text to the program: what the lexer promises about its tokens  *)
(* (LexerProofs) is what the parser asks of them (ParserProofs), so that   *)
(* the tree that is compiled is the one that the text spells.              *)
(***************************************************************************)
EXTENDS Messages, SequenceTheorems, TLAPS

(* The lexer's proofs, of the state that Driver gives it.                  *)
Scan == INSTANCE LexerProofs WITH tokens <- lexed, status <- lexing

(* The tokens that the lexer can make, with names for identifiers, and the *)
(* end behind them.                                                        *)
Handed == {Append(NamedAll(ts), Scan!End) : ts \in Seq(Scan!Inner)}

(* The parser's proofs, of these token lists.                              *)
Read == INSTANCE ParserProofs WITH Texts <- Handed, status <- parsing

-----------------------------------------------------------------------------
(* The definitions that Driver and the proofs share are the same ones.     *)

(* The lexer starts as its proofs assume.                                  *)
LEMMA SameStart == Lex!Init => Scan!Init
  BY Zenon DEF Lex!Init, Scan!Init

(* It means the same by the value of digits,                               *)
LEMMA SameMagnitude == \A cs : Lex!Magnitude(cs) = Scan!Magnitude(cs)
  BY Zenon
  DEF Lex!Magnitude, Scan!Magnitude, Lex!FoldLeft, Scan!FoldLeft, Lex!DigitValue,
      Scan!DigitValue, Lex!Unsigned, Scan!Unsigned, Lex!MapThenFoldSet,
      Scan!MapThenFoldSet, Lex!Max, Scan!Max, Lex!Digits, Scan!Digits

(* and makes the same token of a chunk.                                    *)
LEMMA SameClassified == \A cs : Lex!Classified(cs) = Scan!Classified(cs)
  BY SameMagnitude, Zenon
    DEF Lex!Classified, Scan!Classified, Lex!IsNumeric, Scan!IsNumeric,
        Lex!Numeric, Scan!Numeric, Lex!IsInteger, Scan!IsInteger, Lex!Integer,
        Scan!Integer, Lex!Value, Scan!Value, Lex!Identifier, Scan!Identifier,
        Lex!Unsigned, Scan!Unsigned, Lex!Cardinality, Scan!Cardinality,
        Lex!IsDigit, Scan!IsDigit, Lex!Range, Scan!Range, Lex!IsFiniteSet,
        Scan!IsFiniteSet, Lex!Digits, Scan!Digits

(* It takes the steps that they are about.                                 *)
LEMMA SameLexing == Lex!Step => Scan!Step
  <1>1. Lex!OutOfRange <=> Scan!OutOfRange
    BY SameMagnitude, Zenon
    DEF Lex!OutOfRange, Scan!OutOfRange, Lex!IsInteger, Scan!IsInteger,
        Lex!Unsigned, Scan!Unsigned, Lex!Range, Scan!Range, Lex!IsDigit,
        Scan!IsDigit, Lex!Digits, Scan!Digits
  <1>2. Lex!Chunked = Scan!Chunked
    BY SameClassified, Zenon DEF Lex!Chunked, Scan!Chunked
  <1>. QED
    BY <1>1, <1>2, Zenon
    DEF Lex!Step, Scan!Step, Lex!SkipChar, Scan!SkipChar, Lex!ReservedChar,
        Scan!ReservedChar, Lex!BeginComment, Scan!BeginComment, Lex!BeginString,
        Scan!BeginString, Lex!EndOfInput, Scan!EndOfInput, Lex!ChunkChar,
        Scan!ChunkChar, Lex!CommentChar, Scan!CommentChar, Lex!EndComment,
        Scan!EndComment, Lex!StringChar, Scan!StringChar, Lex!EndString,
        Scan!EndString, Lex!IllegalString, Scan!IllegalString, Lex!Undefined,
        Scan!Undefined, Lex!Spaces, Scan!Spaces, Lex!Reads, Scan!Reads,
        Lex!TokenizeChunk, Scan!TokenizeChunk, Lex!Consume, Scan!Consume,
        Lex!ReservedToken, Scan!ReservedToken, Lex!Char, Scan!Char, Lex!Reserved,
        Scan!Reserved, Lex!AppendChar, Scan!AppendChar, Lex!AfterComment,
        Scan!AfterComment, Lex!String, Scan!String, Lex!Copied, Scan!Copied,
        Lex!AfterString, Scan!AfterString, Lex!Room, Scan!Room, Lex!Integer,
        Scan!Integer, Lex!SelectInSeq, Scan!SelectInSeq, Lex!Min, Scan!Min

(* It has no step left when it is done.                                    *)
LEMMA DoneLexing == Lex!Step => lexing = "run"
  BY DEF Lex!Step, Lex!SkipChar, Lex!ReservedChar, Lex!BeginComment, Lex!BeginString,
         Lex!EndOfInput, Lex!ChunkChar, Lex!CommentChar, Lex!EndComment, Lex!StringChar,
         Lex!EndString, Lex!IllegalString, Lex!Undefined, Lex!Reads

(* So does the parser.                                                     *)
LEMMA SameParsing == Par!Step => Read!Step
  BY Zenon
  DEF Par!Step, Read!Step, Par!Preprocess, Read!Preprocess, Par!ParseAtom,
      Read!ParseAtom, Par!OpenPair, Read!OpenPair, Par!ClosePair, Read!ClosePair,
      Par!ExpectEof, Read!ExpectEof, Par!UnexpectedToken, Read!UnexpectedToken,
      Par!Wrap, Read!Wrap, Par!Wanted, Read!Wanted, Par!AtomTypes, Read!AtomTypes,
      Par!Deliver, Read!Deliver, Par!Atom, Read!Atom, Par!Current, Read!Current,
      Par!AdvanceToken, Read!AdvanceToken, Par!List, Read!List, Par!Last,
      Read!Last, Par!Front, Read!Front, Par!NoTree, Read!NoTree, Par!Misplaced,
      Read!Misplaced, Par!WrapHead, Read!WrapHead, Par!WrapTail, Read!WrapTail,
      Par!Delivered, Read!Delivered, Par!Identifier, Read!Identifier,
      Par!LeftParen, Read!LeftParen, Par!RightParen, Read!RightParen, Par!Mark,
      Read!Mark

(* It has no step before it starts, or when it is done.                    *)
LEMMA DoneParsing == Par!Step => parsing \in {"start", "parse"} /\ parsing' # "wait"
  BY SMTT(30) DEF Par!Step, Par!Preprocess, Par!ParseAtom, Par!OpenPair, Par!ClosePair,
         Par!ExpectEof, Par!UnexpectedToken, Par!Misplaced, Par!Wanted

(* The text has the same tokens, from the same places to the same ones,    *)
LEMMA SameSpans == Spelling!Spans = Scan!Spans
  BY Zenon
  DEF Spelling!Spans, Scan!Spans, Spelling!Runs, Scan!Runs, Spelling!Brackets,
      Scan!Brackets, Spelling!Quotes, Scan!Quotes, Spelling!Cardinality,
      Scan!Cardinality, Spelling!Outside, Scan!Outside, Spelling!Spaces,
      Scan!Spaces, Spelling!Reserved, Scan!Reserved, Spelling!Least, Scan!Least,
      Spelling!Strings, Scan!Strings, Spelling!IsFiniteSet, Scan!IsFiniteSet,
      Spelling!Regions, Scan!Regions, Spelling!Closers, Scan!Closers

(* of the same digits,                                                     *)
LEMMA SpelledMagnitude == \A cs : Spelling!Magnitude(cs) = Scan!Magnitude(cs)
  BY Zenon
  DEF Spelling!Magnitude, Scan!Magnitude, Spelling!FoldLeft, Scan!FoldLeft,
      Spelling!DigitValue, Scan!DigitValue, Spelling!Unsigned, Scan!Unsigned,
      Spelling!MapThenFoldSet, Scan!MapThenFoldSet, Spelling!Max, Scan!Max,
      Spelling!Digits, Scan!Digits

(* and are the same ones.                                                  *)
LEMMA SameTokens == \A r : Spelling!TokenOf(r) = Scan!TokenOf(r)
  <1>1. \A cs : Spelling!Classified(cs) = Scan!Classified(cs)
    BY SpelledMagnitude, Zenon
    DEF Spelling!Classified, Scan!Classified, Spelling!IsNumeric, Scan!IsNumeric,
        Spelling!Numeric, Scan!Numeric, Spelling!IsInteger, Scan!IsInteger,
        Spelling!Integer, Scan!Integer, Spelling!Value, Scan!Value,
        Spelling!Identifier, Scan!Identifier, Spelling!Unsigned, Scan!Unsigned,
        Spelling!Cardinality, Scan!Cardinality, Spelling!IsDigit, Scan!IsDigit,
        Spelling!Range, Scan!Range, Spelling!IsFiniteSet, Scan!IsFiniteSet,
        Spelling!Digits, Scan!Digits
  <1>. QED
    BY <1>1, Zenon
    DEF Spelling!TokenOf, Scan!TokenOf, Spelling!String, Scan!String,
        Spelling!Least, Scan!Least, Spelling!Zeros, Scan!Zeros, Spelling!Integer,
        Scan!Integer

-----------------------------------------------------------------------------
(* What the lexer hands over is what the parser's proofs assume.           *)

(* They are about every text and every size of the buffer.                 *)
LEMMA SameSource == Scan!LexerAssumption
  BY DriverAssumption, Zenon
  DEF Lex!LexerAssumption, Scan!LexerAssumption, Lex!Range, Scan!Range

(* An identifier is named, and nothing else is changed.                    *)
LEMMA NamedFacts ==
  ASSUME NEW t \in Scan!Inner
  PROVE  Named(t).type \in {"(", ")", "string", "integer", "numeric", "identifier"}
  <1>1. t.type \in Scan!TokenTypes \ {"eof"}
    BY Scan!InnerFacts, SameSource
  <1>2. CASE t.type = "identifier"
    BY <1>2 DEF Named, Identifier
  <1>3. CASE t.type # "identifier"
    BY <1>1, <1>3 DEF Named, Scan!TokenTypes
  <1>. QED  BY <1>2, <1>3

(* The end is behind the named tokens, and nowhere else.                   *)
LEMMA HandedFacts ==
  ASSUME NEW ts \in Seq(Scan!Inner)
  PROVE  LET h == Append(NamedAll(ts), Scan!End)
         IN /\ NamedAll(ts) \in Seq(Range(h)) /\ h \in Seq(Range(h)) /\ h # <<>>
            /\ Len(NamedAll(ts)) = Len(ts) /\ Len(h) = Len(ts) + 1
            /\ \A i \in 1 .. Len(ts) : h[i] = Named(ts[i])
            /\ h[Len(ts) + 1] = Scan!End
  <1> DEFINE S == {Named(t) : t \in Scan!Inner} \cup {Scan!End}
             n == NamedAll(ts)
             h == Append(n, Scan!End)
  <1>1. n \in [1 .. Len(ts) -> S] /\ Len(ts) \in Nat
    BY DEF NamedAll
  <1>2. n \in Seq(S) /\ Len(n) = Len(ts)
    BY <1>1
  <1>3. \A i \in 1 .. Len(ts) : n[i] = Named(ts[i])
    BY DEF NamedAll
  <1> HIDE DEF n
  <1>4. Scan!End \in S
    OBVIOUS
  <1> HIDE DEF S
  <1>5. /\ h \in Seq(S) /\ Len(h) = Len(ts) + 1 /\ h[Len(ts) + 1] = Scan!End
        /\ \A i \in 1 .. Len(ts) : h[i] = n[i]
    BY <1>1, <1>2, <1>4, AppendProperties
  <1> HIDE DEF h
  <1>6. \A i \in 1 .. Len(h) : h[i] \in Range(h)
    BY <1>5 DEF Range
  <1>7. h \in Seq(Range(h))
    <2>1. h = [i \in 1 .. Len(h) |-> h[i]] /\ Len(h) \in Nat
      BY <1>5
    <2>. QED  BY <1>6, <2>1
  <1>8. n \in Seq(Range(h))
    <2>1. n = [i \in 1 .. Len(n) |-> n[i]] /\ Len(n) \in Nat
      BY <1>2
    <2>2. \A i \in 1 .. Len(n) : n[i] \in Range(h)
      BY <1>2, <1>5, <1>6
    <2>. QED  BY <2>1, <2>2
  <1>9. h # <<>>
    BY <1>1, <1>5
  <1>. QED  BY <1>2, <1>3, <1>5, <1>7, <1>8, <1>9 DEF h, n

(* So the parser's theorems are about all that the lexer makes.            *)
LEMMA TextsFit == Read!TextsAssumption
  <1> SUFFICES ASSUME NEW h \in Handed
               PROVE  /\ h \in Seq(Read!Range(h)) /\ h # <<>>
                      /\ \A i \in 1 .. Len(h) :
                           /\ h[i].type \in {"(", ")", "string", "integer", "numeric",
                                            "identifier", "eof"}
                           /\ h[i].type = "eof" <=> i = Len(h)
    BY DEF Read!TextsAssumption
  <1>1. PICK ts \in Seq(Scan!Inner) : h = Append(NamedAll(ts), Scan!End)
    BY DEF Handed
  <1>2. /\ h \in Seq(Range(h)) /\ h # <<>> /\ Len(h) = Len(ts) + 1 /\ Len(ts) \in Nat
        /\ \A i \in 1 .. Len(ts) : h[i] = Named(ts[i])
        /\ h[Len(ts) + 1] = Scan!End
    BY <1>1, HandedFacts
  <1>3. Range(h) = Read!Range(h)
    BY DEF Range, Read!Range
  <1>4. ASSUME NEW i \in 1 .. Len(h)
        PROVE  /\ h[i].type \in {"(", ")", "string", "integer", "numeric", "identifier", "eof"}
               /\ h[i].type = "eof" <=> i = Len(h)
    <2>1. CASE i = Len(h)
      BY <1>2, <2>1 DEF Scan!End
    <2>2. CASE i # Len(h)
      <3>1. i \in 1 .. Len(ts) /\ ts[i] \in Scan!Inner
        BY <1>2, <2>2
      <3>. QED  BY <1>2, <2>2, <3>1, NamedFacts
    <2>. QED  BY <2>1, <2>2
  <1>. QED  BY <1>2, <1>3, <1>4

-----------------------------------------------------------------------------
(* The lexer at work.                                                      *)

(* What Driver does to the lexer's state is what its proofs are about.     *)
THEOREM Tokenizes == Spec => Scan!Spec
  <1>1. Init => Scan!Init
    BY SameStart DEF Init
  <1>2. [Next]_vars => [Scan!Next]_(Scan!vars)
    <2>1. CASE Tokenize
      BY <2>1, SameLexing DEF Tokenize, Scan!Next
    <2>2. CASE UNCHANGED lexer
      BY <2>2 DEF lexer, Scan!vars
    <2>. QED
      BY <2>1, <2>2
      DEF Next, Step, TakeTokens, Parse, Generate, Compile, Start, Run, Ended, vars, lexer
  <1>. QED
    BY <1>1, <1>2, PTL DEF Spec, Scan!Spec

(* So the tokens are those of the text.                                    *)
LEMMA TextTokenized == Spec => [](Scan!IInv /\ Scan!TokensOfText)
  <1>1. Spec => [](Scan!IInv /\ Scan!Scanned)
    BY Tokenizes, Scan!ReadingInvariance, SameSource, PTL
  <1>2. Spec => []Scan!TokensOfText
    BY Tokenizes, Scan!TokensAreOfText, SameSource, PTL
  <1>. QED
    BY <1>1, <1>2, PTL

-----------------------------------------------------------------------------
(* The parser at work.                                                     *)

(* The parser's invariants, in the names of Driver.                        *)
ParserInv == Read!IInv /\ Read!Continued /\ Read!TreeOfText

(* They hold when the parser starts.                                       *)
LEMMA ParserStarts == Read!Init => ParserInv
  <1>1. Read!Init => Read!IInv
    BY Read!InitIInv, TextsFit
  <1>2. Read!Init => Read!Continued /\ Read!TreeOfText
    BY Read!SpelledInit, TextsFit
  <1>. QED  BY <1>1, <1>2 DEF ParserInv

(* The same of the state that a step leads to.                             *)
LEMMA ParserStartsNext == Read!Init' => ParserInv'
  BY ParserStarts, PTL

(* The steps of the parser keep them.                                      *)
LEMMA ParserRuns ==
  ASSUME ParserInv, [Read!Next]_(Read!vars)
  PROVE  ParserInv'
  <1>1. Read!IInv'
    BY Read!NextKeeps, TextsFit DEF ParserInv
  <1>2. Read!Continued' /\ Read!TreeOfText'
    BY Read!SpelledNext, TextsFit DEF ParserInv
  <1>. QED  BY <1>1, <1>2 DEF ParserInv

(* The tokens that are taken are fit to be parsed.                         *)
LEMMA TokensTaken ==
  ASSUME Scan!IInv, lexing = "done"
  PROVE  NamedAll(lexed) \in Handed
  <1>1. PICK ts \in Seq(Scan!Inner) : lexed = Append(ts, Scan!End)
    BY DEF Scan!IInv, Scan!Listed
  <1>2. /\ Len(lexed) = Len(ts) + 1 /\ Len(ts) \in Nat
        /\ \A i \in 1 .. Len(ts) : lexed[i] = ts[i]
        /\ lexed[Len(ts) + 1] = Scan!End
    BY <1>1
  <1>3. Named(Scan!End) = Scan!End
    BY DEF Named, Scan!End
  <1> DEFINE h == Append(NamedAll(ts), Scan!End)
  <1>4. /\ h \in Seq(Range(h)) /\ Len(h) = Len(ts) + 1
        /\ \A i \in 1 .. Len(ts) : h[i] = Named(ts[i])
        /\ h[Len(ts) + 1] = Scan!End
    BY HandedFacts
  <1>5. h \in Handed
    BY DEF Handed
  <1> HIDE DEF h
  <1>6. \A i \in 1 .. (Len(ts) + 1) : h[i] = Named(lexed[i])
    <2> TAKE i \in 1 .. (Len(ts) + 1)
    <2>1. CASE i \in 1 .. Len(ts)
      BY <1>2, <1>4, <2>1
    <2>2. CASE i = Len(ts) + 1
      BY <1>2, <1>3, <1>4, <2>2
    <2>. QED  BY <1>2, <2>1, <2>2
  <1>7. h = [i \in 1 .. (Len(ts) + 1) |-> h[i]]
    BY <1>4
  <1>8. h = NamedAll(lexed)
    BY <1>2, <1>6, <1>7, SMTT(30) DEF NamedAll
  <1>. QED  BY <1>5, <1>8

(* The parser waits for the lexer's tokens and then works on these; the    *)
(* generator waits for the parser's tree and then works on that.           *)
ReadInv ==
  /\ parsing = "wait" => open = <<>> /\ tree = Par!NoTree /\ phase = "wait"
  /\ parsing # "wait" => lexing = "done" /\ text = NamedAll(lexed) /\ ParserInv
  /\ phase # "wait" => parsing = "done" /\ program = tree

(* The generator works on the program that it has been given, and not      *)
(* before that.                                                            *)
LEMMA GeneratorWaits ==
  Compile => phase \in {"start", "run"} /\ UNCHANGED <<program, parser, lexer>>
  BY DEF Compile, Back!Compile, Back!Generator!Step, Back!Generator!GenMain,
      Back!Generator!GenLambda, Back!Generator!AppendStream,
      Back!Generator!EmitLines, Back!Generator!GenLiteral, Back!Generator!GenVariable,
      Back!Generator!FoundVariable, Back!Generator!ScanOutwards,
      Back!Generator!GenDefinition, Back!Generator!RebindDefinition,
      Back!Generator!BindDefinition, Back!Generator!GenAssignment,
      Back!Generator!SetVariable, Back!Generator!GenIf, Back!Generator!GenConsequent,
      Back!Generator!GenAlternative, Back!Generator!GenProcedure,
      Back!Generator!GenBegin, Back!Generator!GenApplication,
      Back!Generator!IllegalNodeType, Back!Generator!UnboundVariable,
      Back!Generator!Unimplemented, Back!Generator!Overrun, Back!Generator!Doing,
      Back!Generator!Generating, Back!Generator!LambdaIsNext,
      Back!Generator!Follow, Back!Generator!Return, Back!Generator!Fail

(* Every step keeps it.                                                    *)
LEMMA ReadNext ==
  ASSUME ReadInv, Scan!IInv, [Next]_vars
  PROVE  ReadInv'
  <1>1. CASE UNCHANGED parser
    <2>1. [Read!Next]_(Read!vars) /\ UNCHANGED <<text, tokens, open, tree, parsing>>
      BY <1>1 DEF parser, Read!vars
    <2>2. ParserInv => ParserInv'
      BY <2>1, ParserRuns
    <2>3. CASE Tokenize
      BY <2>1, <2>2, <2>3, DoneLexing DEF Tokenize, ReadInv, generator
    <2>4. CASE Generate
      BY <2>1, <2>2, <2>4 DEF Generate, ReadInv, lexer
    <2>5. CASE Compile
      BY <2>1, <2>2, <2>5, GeneratorWaits DEF ReadInv, lexer
    <2>6. CASE UNCHANGED <<lexer, program, phase>>
      BY <2>1, <2>2, <2>6 DEF ReadInv, lexer
    <2>7. CASE TakeTokens \/ Parse
      <3>1. UNCHANGED <<lexer, program, phase>>
        BY <2>7 DEF TakeTokens, Parse, generator
      <3>. QED  BY <2>6, <3>1
    <2>8. CASE Start \/ Run \/ Ended \/ UNCHANGED vars
      <3>1. UNCHANGED <<lexer, program, phase>>
        BY <2>8
        DEF Start, Run, Ended, vars, generator, Back!Start, Back!Run, Back!compiler
      <3>. QED  BY <2>6, <3>1
    <2>. QED  BY <2>3, <2>4, <2>5, <2>7, <2>8 DEF Next, Step
  <1>2. CASE TakeTokens
    <2>1. /\ lexing = "done" /\ parsing = "wait" /\ UNCHANGED <<lexing, lexed, program, phase>>
          /\ text' = NamedAll(lexed) /\ tokens' = text' /\ parsing' = "start"
          /\ UNCHANGED <<open, tree>>
      BY <1>2 DEF TakeTokens, lexer, generator
    <2>2. Read!Init'
      <3>1. NamedAll(lexed) \in Handed
        BY <2>1, TokensTaken
      <3>2. Par!NoTree = Read!NoTree
        BY DEF Par!NoTree, Read!NoTree
      <3>. QED  BY <2>1, <3>1, <3>2 DEF Read!Init, ReadInv
    <2>3. ParserInv'
      BY <2>2, ParserStartsNext
    <2>4. NamedAll(lexed)' = NamedAll(lexed)
      BY <2>1 DEF NamedAll
    <2>. QED  BY <2>1, <2>3, <2>4 DEF ReadInv
  <1>3. CASE Parse
    <2>1. /\ UNCHANGED <<lexing, lexed, program, phase>> /\ Par!Step
          /\ parsing \in {"start", "parse"} /\ parsing' # "wait"
      BY <1>3, DoneParsing DEF Parse, lexer, generator
    <2>2. [Read!Next]_(Read!vars)
      BY <2>1, SameParsing DEF Read!Next
    <2>3. ParserInv'
      BY <2>1, <2>2, ParserRuns DEF ReadInv
    <2>4. text' = text
      BY <2>1 DEF Par!Step, Par!Preprocess, Par!ParseAtom, Par!OpenPair, Par!ClosePair,
                  Par!ExpectEof, Par!UnexpectedToken
    <2>5. NamedAll(lexed)' = NamedAll(lexed)
      BY <2>1 DEF NamedAll
    <2>. QED  BY <2>1, <2>3, <2>4, <2>5 DEF ReadInv
  <1>4. \/ UNCHANGED parser \/ TakeTokens \/ Parse
    BY DEF Next, Step, Tokenize, Generate, Compile, Start, Run, Ended, vars
  <1>. QED  BY <1>1, <1>2, <1>3, <1>4

(* It holds from the start.                                                *)
THEOREM ReadInvariance == Spec => []ReadInv
  <1>1. Init => ReadInv
    BY DEF Init, ReadInv
  <1>2. ReadInv /\ Scan!IInv /\ [Next]_vars => ReadInv'
    BY ReadNext
  <1>. QED
    BY <1>1, <1>2, TextTokenized, PTL DEF Spec

-----------------------------------------------------------------------------
(* The program of a text.                                                  *)

(* What the parser has to read are the tokens that the text itself tells,  *)
(* with the end behind them.                                               *)
LEMMA TextWritten ==
  ASSUME ReadInv, Scan!IInv, Scan!TokensOfText, parsing # "wait"
  PROVE  /\ text \in Handed /\ Read!Program = TokensWritten
         /\ text[Len(text)] = Scan!End
  <1>1. lexing = "done" /\ text = NamedAll(lexed) /\ Read!IInv
    BY DEF ReadInv, ParserInv
  <1>2. text \in Handed
    BY <1>1, TokensTaken
  <1>3. PICK n : n = Len(Scan!Spans)
    OBVIOUS
  <1>4. n \in Nat
    <2>1. Scan!Typed
      BY DEF Scan!IInv, Scan!Buffers, Scan!Typed
    <2>. QED  BY <1>3, <2>1, Scan!SpansCounted
  <1> DEFINE told == [i \in 1 .. n |-> Scan!TokenOf(Scan!Spans[i])]
             S == {told[i] : i \in 1 .. n} \cup {Scan!End}
  <1>5. lexed = told \o <<Scan!End>>
    BY <1>1, <1>3 DEF Scan!TokensOfText, Scan!End
  <1>6. Len(lexed) = n + 1 /\ lexed[n + 1] = Scan!End /\ \A i \in 1 .. n : lexed[i] = told[i]
    <2>1. told \in Seq(S) /\ Len(told) = n
      BY <1>4
    <2>2. Scan!End \in S
      OBVIOUS
    <2> HIDE DEF told, S
    <2>3. <<Scan!End>> \in Seq(S) /\ Len(<<Scan!End>>) = 1 /\ <<Scan!End>>[1] = Scan!End
      BY <2>2
    <2>. QED  BY <1>4, <1>5, <2>1, <2>3, ConcatProperties
  <1>7. text = [i \in 1 .. (n + 1) |-> Named(lexed[i])]
    BY <1>1, <1>6 DEF NamedAll
  <1>8. text \in Seq({Named(lexed[i]) : i \in 1 .. (n + 1)})
    BY <1>4, <1>7
  <1>9. Len(text) = n + 1 /\ \A i \in 1 .. (n + 1) : text[i] = Named(lexed[i])
    BY <1>4, <1>7, <1>8
  <1>10. TokensWritten = [i \in 1 .. n |-> Named(told[i])]
    BY <1>3, SameSpans, SameTokens DEF TokensWritten
  <1> HIDE DEF told
  <1>11. Read!Program = TokensWritten
    <2>1. /\ Read!Program \in Seq(Read!Alphabet) /\ Len(Read!Program) = Len(text) - 1
          /\ \A i \in 1 .. Len(Read!Program) : Read!Program[i] = text[i]
      BY <1>2, Read!Wrapped, TextsFit
    <2>2. PICK p : p = Read!Program
      OBVIOUS
    <2>3. Len(p) = n /\ p = [i \in 1 .. n |-> p[i]] /\ \A i \in 1 .. n : p[i] = text[i]
      BY <1>4, <1>9, <2>1, <2>2
    <2>4. \A i \in 1 .. n : p[i] = Named(told[i])
      BY <1>4, <1>6, <1>9, <2>3
    <2>. QED  BY <1>10, <2>2, <2>3, <2>4
  <1>12. Named(Scan!End) = Scan!End
    BY DEF Named, Scan!End
  <1>13. n + 1 \in 1 .. (n + 1)
    BY <1>4
  <1>. QED  BY <1>2, <1>6, <1>9, <1>11, <1>12, <1>13

(* It reads them in the call that they become.                             *)
LEMMA AroundRead == Read!Program = TokensWritten => Read!Wrapping = Around
  BY Zenon
  DEF Read!Wrapping, Read!WrapHead, Read!LeftParen, Read!RightParen, Read!Mark,
      Read!Identifier, Around, Opening, Closing, Identifier

(* Brackets are counted in the same way.                                   *)
LEMMA SameDepth == \A ts, n : Opened(ts, n) = Read!Depth(ts, n)
  BY Zenon
  DEF Opened, Read!Depth, Cardinality, Read!Cardinality, IsFiniteSet, Read!IsFiniteSet

(* The program that is compiled is the one datum that the characters of    *)
(* the text spell, read token by token and bracket by bracket.             *)
ProgramAsWritten ==
  phase # "wait" =>
    Read!Spelled(Around) = [data |-> <<program>>, end |-> Len(Around) + 1]

(* Whatever the text, whatever the size of the buffer: no component loses  *)
(* or moves anything on the way from the characters to the generator.      *)
THEOREM CompilesTheText == Spec => []ProgramAsWritten
  <1>1. ReadInv /\ Scan!IInv /\ Scan!TokensOfText => ProgramAsWritten
    <2> SUFFICES ASSUME ReadInv, Scan!IInv, Scan!TokensOfText, phase # "wait"
                 PROVE  Read!Spelled(Around) = [data |-> <<program>>, end |-> Len(Around) + 1]
      BY DEF ProgramAsWritten
    <2>1. parsing = "done" /\ program = tree /\ Read!TreeOfText
      BY DEF ReadInv, ParserInv
    <2>2. Read!Wrapping = Around
      BY <2>1, TextWritten, AroundRead
    <2>. QED  BY <2>1, <2>2 DEF Read!TreeOfText
  <1>. QED  BY <1>1, ReadInvariance, TextTokenized, PTL

-----------------------------------------------------------------------------
(* The message for a text.                                                 *)

(* The first place behind which no bracket is open is also found without   *)
(* the end of the text.                                                    *)
LEMMA BeyondFacts ==
  ASSUME NEW A \in Nat \ {0}, NEW ts, Len(ts) = A, NEW W, Len(W) = A + 1,
         \A m \in 1 .. A : W[m] = ts[m]
  PROVE  LET closed == {m \in 1 .. Len(W) : Read!Depth(W, m) = 0}
             first  == Read!Min(closed \cup {Len(W) - 1})
         IN first \in 1 .. A /\ Beyond(ts) = first + 1
  <1> DEFINE closed == {m \in 1 .. Len(W) : Read!Depth(W, m) = 0}
             S == closed \cup {Len(W) - 1}
             T == {n + 1 : n \in {m \in 1 .. A : Opened(ts, m) = 0}} \cup {A + 1}
  <1>1. S \subseteq Nat /\ S # {} /\ A \in S
    OBVIOUS
  <1>2. PICK k : k \in S /\ \A n \in S : k <= n
    <2> HIDE DEF S
    <2>. QED  BY ONLY <1>1, Scan!LeastNumber, SameSource, Zenon
  <1>3. k \in 1 .. A
    BY <1>1, <1>2
  <1>4. Read!Min(S) = k
    <2>1. S \subseteq Int /\ k \in S
      BY <1>1, <1>2
    <2> HIDE DEF S
    <2>2. \A n \in S : (\A x \in S : n <= x) => n = k
      <3> TAKE n \in S
      <3>. QED  BY <1>2, <2>1
    <2>. QED  BY <1>2, <2>2 DEF Read!Min
  <1>5. \A m \in 1 .. A : Opened(ts, m) = Read!Depth(W, m)
    <2> TAKE m \in 1 .. A
    <2>1. \A i \in 1 .. m : W[i] = ts[i]
      OBVIOUS
    <2>2. \A t : {i \in 1 .. m : W[i].type = t} = {i \in 1 .. m : ts[i].type = t}
      BY <2>1
    <2>3. Read!Depth(ts, m) = Read!Depth(W, m)
      BY <2>2, Zenon DEF Read!Depth
    <2>. QED  BY <2>3, SameDepth
  <1>6. k + 1 \in T
    <2>1. CASE k = A
      BY <2>1
    <2>2. CASE k # A
      <3>1. k \in closed
        BY <1>2, <2>2
      <3>. QED  BY <1>3, <1>5, <3>1
    <2>. QED  BY <2>1, <2>2
  <1>7. \A n \in T : k + 1 <= n
    <2> TAKE n \in T
    <2>1. CASE n = A + 1
      BY <1>3, <2>1
    <2>2. CASE n # A + 1
      <3>1. PICK m \in 1 .. A : n = m + 1 /\ Opened(ts, m) = 0
        BY <2>2
      <3>2. m \in S
        BY <1>5, <3>1
      <3>. QED  BY <1>2, <1>3, <3>1, <3>2
    <2>. QED  BY <2>1, <2>2
  <1>8. Beyond(ts) = k + 1
    <2>1. T \subseteq Int /\ Beyond(ts) = Min(T)
      BY DEF Beyond
    <2>2. \A n \in T : (\A x \in T : n <= x) => n = k + 1
      <3> HIDE DEF T
      <3> TAKE n \in T
      <3>. QED  BY <1>3, <1>6, <1>7, <2>1
    <2> HIDE DEF T
    <2>3. Min(T) = k + 1
      BY <1>6, <1>7, <2>2 DEF Min
    <2>. QED  BY <2>1, <2>3
  <1>. QED  BY <1>3, <1>4, <1>8

(* A text is refused for its brackets only, and the message shows the      *)
(* first token that no bracket of the text encloses.                       *)
LEMMA Misfits == ReadInv /\ Scan!IInv /\ Scan!TokensOfText => MisfitShown
  <1> SUFFICES ASSUME ReadInv, Scan!IInv, Scan!TokensOfText, parsing = "unexpected"
               PROVE  MisfitShown
    BY DEF MisfitShown
  <1> DEFINE W == Read!Wrap(text)
             N == Len(W)
             A == Len(Around)
             closed == {m \in 1 .. N : Read!Depth(W, m) = 0}
             k == Read!Min(closed \cup {N - 1})
  <1>1. lexing = "done" /\ phase = "wait" /\ Read!IInv
    BY DEF ReadInv, ParserInv
  <1>2. text \in Handed /\ Read!Program = TokensWritten /\ text[Len(text)] = Scan!End
    BY TextWritten
  <1>3. Read!Wrapping = Around
    BY <1>2, AroundRead
  <1>4. /\ Around \in Seq(Read!Alphabet) /\ A \in Nat \ {0} /\ N = A + 1 /\ W \in Seq(Read!Alphabet)
        /\ \A m \in 1 .. A : W[m] = Around[m]
        /\ W[A + 1] = Scan!End
    <2>1. /\ Read!Wrapping \in Seq(Read!Alphabet) /\ Len(Read!Program) \in Nat
          /\ Len(Read!Wrapping) = Len(Read!Program) + 7 /\ N = Len(Read!Wrapping) + 1
          /\ \A i \in 1 .. Len(Read!Wrapping) : Read!Wrapping[i] = W[i]
      BY <1>2, Read!WrappingFacts, TextsFit
    <2>2. W \in Seq(Read!Alphabet) /\ W[Len(Read!Program) + 8] = text[Len(text)]
      BY <1>2, Read!Wrapped, TextsFit
    <2> HIDE DEF W
    <2>. QED  BY <1>2, <1>3, <2>1, <2>2
  <1>5. k \in 1 .. A /\ Beyond(Around) = k + 1
    <2> HIDE DEF W
    <2>. QED  BY <1>4, BeyondFacts
  <1>6. tokens = SubSeq(W, k + 1, N)
    BY <1>1, Read!BlamedByIInv, TextsFit DEF Read!BlamesFirstMisfit
  <1> HIDE DEF W, k
  <1>7. Par!Current = W[k + 1]
    <2>1. k + 1 \in 1 .. N /\ N \in Nat
      BY <1>4, <1>5
    <2>2. tokens[1] = W[k + 1]
      <3>1. \A i \in (k + 1) .. N : W[i] \in Read!Alphabet
        BY <1>4, <2>1
      <3>. QED  BY <1>4, <1>5, <1>6, <2>1, <3>1, SubSeqProperties
    <2>. QED  BY <2>2 DEF Par!Current
  <1>8. Complaint = <<"Unexpected token">> \o Dump(Par!Current)
    BY <1>1 DEF Complaint
  <1>9. Dump(Par!Current) = IF k + 1 > A THEN <<>> ELSE Dump(Around[k + 1])
    <2>1. CASE k + 1 > A
      <3>1. Par!Current = Scan!End
        BY <1>4, <1>5, <1>7, <2>1
      <3>2. Dump(Scan!End) = <<>>
        BY DEF Dump, Scan!End
      <3>. QED  BY <2>1, <3>1, <3>2
    <2>2. CASE ~ (k + 1 > A)
      <3>1. k + 1 \in 1 .. A
        BY <1>4, <1>5, <2>2
      <3>. QED  BY <1>4, <1>7, <2>2, <3>1
    <2>. QED  BY <2>1, <2>2
  <1>10. ~ Balanced(TokensWritten)
    <2>1. ~ Read!ClosesAbove(TokensWritten, -1)
      BY <1>1, <1>2, Read!AcceptedByIInv, TextsFit DEF Read!AcceptedExactly
    <2>2. ASSUME Balanced(TokensWritten) PROVE FALSE
      <3>1. /\ Read!Depth(TokensWritten, Len(TokensWritten)) = 0
            /\ \A m \in 1 .. Len(TokensWritten) : Read!Depth(TokensWritten, m) >= 0
        BY <2>2, SameDepth, Zenon DEF Balanced
      <3>2. \A m \in 1 .. Len(TokensWritten) : Read!Depth(TokensWritten, m) \in Int
        <4>1. Len(TokensWritten) \in Nat
          BY <1>2, Read!WrappingFacts, TextsFit
        <4>. QED  BY <4>1, Read!DepthStep, TextsFit
      <3>3. PICK m \in 1 .. Len(TokensWritten) : ~ (Read!Depth(TokensWritten, m) >= -1)
        BY <2>1, <3>1 DEF Read!ClosesAbove
      <3>4. PICK d \in Int : d = Read!Depth(TokensWritten, m)
        BY <3>2, <3>3
      <3>5. d >= 0 /\ ~ (d >= -1)
        BY <3>1, <3>3, <3>4
      <3>. QED  BY <3>5
    <2>. QED  BY <2>2
  <1>. QED
    BY <1>5, <1>8, <1>9, <1>10 DEF MisfitShown

(* So it is for every text and every size of the lexer's buffer.           *)
THEOREM ShowsTheMisfit == Spec => []MisfitShown
  BY Misfits, ReadInvariance, TextTokenized, PTL

-----------------------------------------------------------------------------
(* The tree, and the compiler.                                             *)

CONSTANT Trees    \* what the parser can build

(* The proofs about compiled programs, of these trees.                     *)
Comp == INSTANCE LispcProofs WITH Programs <- Trees

(* What the trees are: those over the atoms that a text can have and the   *)
(* name that wrapTokenLst adds, and all the compiler's proofs assume.  The *)
(* finite trees over these atoms are like that, when Texts has the texts   *)
(* of the atoms and NodesOf tells the nodes of a tree.                     *)
Atoms ==
  {t \in {Named(u) : u \in Scan!Inner} \cup {Identifier("lambda")} : t.type \in Read!AtomTypes}

TreesAssumption ==
  /\ \A t \in Atoms : Read!Atom(t) \in Trees
  /\ \A items \in Seq(Trees) : List(items) \in Trees
  /\ Comp!LispcAssumption

(* An atom among the tokens is one of those.                               *)
LEMMA AtomsGrow ==
  ASSUME TreesAssumption, text \in Handed, NEW t \in Read!Alphabet, t.type \in Read!AtomTypes
  PROVE  Read!Atom(t) \in Trees
  <1>1. PICK ts \in Seq(Scan!Inner) : text = Append(NamedAll(ts), Scan!End)
    BY SMTT(30) DEF Handed
  <1>2. /\ text \in Seq(Range(text)) /\ Len(text) = Len(ts) + 1 /\ Len(ts) \in Nat
        /\ \A i \in 1 .. Len(ts) : text[i] = Named(ts[i])
        /\ text[Len(ts) + 1] = Scan!End
    BY <1>1, HandedFacts
  <1>3. Range(text) = Read!Range(text)
    BY SMTT(30) DEF Range, Read!Range
  <1>4. Read!Identifier("lambda") = Identifier("lambda")
    BY SMTT(30) DEF Read!Identifier, Identifier
  <1>5. t \notin {Read!LeftParen, Read!RightParen, Scan!End}
    BY SMTT(30) DEF Read!AtomTypes, Read!LeftParen, Read!RightParen, Read!Mark, Scan!End
  <1>6. t \in Range(text) => \E u \in Scan!Inner : t = Named(u)
    <2> SUFFICES ASSUME t \in Range(text) PROVE \E u \in Scan!Inner : t = Named(u)
      BY SMTT(30)
    <2>1. PICK i \in 1 .. Len(text) : t = text[i]
      BY <1>2 DEF Range
    <2>2. i # Len(ts) + 1
      BY <1>2, <1>5, <2>1
    <2>3. i \in 1 .. Len(ts) /\ ts[i] \in Scan!Inner
      BY <1>2, <2>1, <2>2
    <2>. QED  BY <1>2, <2>1, <2>3
  <1>7. t \in Atoms
    BY <1>3, <1>4, <1>5, <1>6 DEF Atoms, Read!Alphabet
  <1>. QED  BY <1>7 DEF TreesAssumption

(* All that the parser holds is built of trees.                            *)
Built == open \in Seq(Seq(Trees)) /\ (tree # Read!NoTree => tree \in Trees)

(* A tree becomes an element of the innermost list, or all.                *)
LEMMA DeliverBuilds ==
  ASSUME NEW lists \in Seq(Seq(Trees)), NEW x \in Trees, tree = Read!NoTree,
         Read!Deliver(x, lists)
  PROVE  Built'
  <1>1. CASE lists = <<>>
    <2>1. tree' = x /\ open' = lists
      BY <1>1 DEF Read!Deliver
    <2>. QED  BY <2>1 DEF Built
  <1>2. CASE lists # <<>>
    <2>1. tree' = tree /\ open' = Read!Delivered(x, lists)
      BY <1>2 DEF Read!Deliver
    <2>2. Len(lists) \in 1 .. Len(lists) /\ lists[Len(lists)] \in Seq(Trees)
      BY <1>2
    <2>3. Append(lists[Len(lists)], x) \in Seq(Trees)
      BY <2>2
    <2>4. Read!Delivered(x, lists) \in Seq(Seq(Trees))
      <3>1. PICK S : S = Seq(Trees)
        BY SMTT(30)
      <3>2. PICK y \in S : y = Append(lists[Len(lists)], x)
        BY <2>3, <3>1, ZenonT(30)
      <3>3. PICK n \in 1 .. Len(lists) : n = Len(lists)
        BY <2>2
      <3>4. lists \in Seq(S)
        BY <3>1
      <3>5. [lists EXCEPT ![n] = y] \in Seq(S)
        BY <3>2, <3>4
      <3>. QED  BY <3>1, <3>2, <3>3, <3>5 DEF Read!Delivered
    <2>5. Read!NoTree' = Read!NoTree
      BY SMTT(30) DEF Read!NoTree
    <2>. QED  BY <2>1, <2>4, <2>5 DEF Built
  <1>. QED  BY <1>1, <1>2

(* The tokens in front of the parser are those of the text.                *)
LEMMA CurrentToken ==
  ASSUME Read!IInv, parsing = "parse"
  PROVE  Read!Current \in Read!Alphabet
  <1>1. tokens \in Seq(Read!Alphabet) /\ tokens # <<>>
    BY SMTT(30) DEF Read!IInv, Read!Reading, Read!TokensLeft
  <1>. QED  BY <1>1 DEF Read!Current

(* Every step of the parser builds trees.                                  *)
LEMMA ParserBuilds ==
  ASSUME TreesAssumption, Read!IInv, Built, Read!Step
  PROVE  Built'
  <1>0. text \in Handed /\ Read!NoTree' = Read!NoTree
    BY SMTT(30) DEF Read!IInv, Read!NoTree
  <1>1. CASE Read!ParseAtom
    <2>1. /\ parsing = "parse" /\ tree = Read!NoTree /\ Read!Current.type \in Read!AtomTypes
          /\ Read!Deliver(Read!Atom(Read!Current), open)
      BY <1>1 DEF Read!ParseAtom, Read!Wanted
    <2>2. Read!Atom(Read!Current) \in Trees
      BY <1>0, <2>1, CurrentToken, AtomsGrow
    <2>. QED  BY <2>1, <2>2, DeliverBuilds DEF Built
  <1>2. CASE Read!OpenPair
    <2>1. open' = Append(open, <<>>) /\ tree' = tree
      BY <1>2 DEF Read!OpenPair
    <2>2. <<>> \in Seq(Trees)
      BY SMTT(30)
    <2>3. open' \in Seq(Seq(Trees))
      <3>1. PICK S : S = Seq(Trees)
        BY SMTT(30)
      <3>2. open \in Seq(S) /\ <<>> \in S
        BY <2>2, <3>1 DEF Built
      <3>. QED  BY <2>1, <3>1, <3>2
    <2>. QED  BY <1>0, <2>1, <2>3 DEF Built
  <1>3. CASE Read!ClosePair
    <2>1. /\ tree = Read!NoTree /\ open # <<>>
          /\ Read!Deliver(Read!List(Read!Last(open)), Read!Front(open))
      BY <1>3 DEF Read!ClosePair, Read!Wanted
    <2>2. Read!Last(open) \in Seq(Trees) /\ Read!Front(open) \in Seq(Seq(Trees))
      <3>1. PICK S : S = Seq(Trees)
        OBVIOUS
      <3>2. open \in Seq(S) /\ open # <<>>
        BY <2>1, <3>1 DEF Built
      <3>3. open[Len(open)] \in S /\ SubSeq(open, 1, Len(open) - 1) \in Seq(S)
        BY <3>2
      <3>. QED  BY <3>1, <3>3 DEF Read!Last, Read!Front
    <2>3. Read!List(Read!Last(open)) \in Trees
      BY <2>2 DEF TreesAssumption, List, Read!List
    <2>. QED  BY <2>1, <2>2, <2>3, DeliverBuilds
  <1>4. CASE Read!Preprocess \/ Read!ExpectEof \/ Read!UnexpectedToken
    <2>1. UNCHANGED <<open, tree>>
      BY <1>4 DEF Read!Preprocess, Read!ExpectEof, Read!UnexpectedToken
    <2>. QED  BY <1>0, <2>1 DEF Built
  <1>. QED  BY <1>1, <1>2, <1>3, <1>4 DEF Read!Step

(* The generator does not wait again.                                      *)
LEMMA CompileGoesOn == Compile => phase' # "wait"
  BY GeneratorWaits, ZenonT(30)
  DEF Compile, Back!Compile, Back!Generator!Step, Back!Generator!GenMain,
      Back!Generator!GenLambda, Back!Generator!AppendStream,
      Back!Generator!EmitLines, Back!Generator!GenLiteral,
      Back!Generator!GenVariable, Back!Generator!FoundVariable,
      Back!Generator!ScanOutwards, Back!Generator!GenDefinition,
      Back!Generator!RebindDefinition, Back!Generator!BindDefinition,
      Back!Generator!GenAssignment, Back!Generator!SetVariable,
      Back!Generator!GenIf, Back!Generator!GenConsequent,
      Back!Generator!GenAlternative, Back!Generator!GenProcedure,
      Back!Generator!GenBegin, Back!Generator!GenApplication,
      Back!Generator!IllegalNodeType, Back!Generator!UnboundVariable,
      Back!Generator!Unimplemented, Back!Generator!Overrun,
      Back!Generator!NumPrimitives, Back!Generator!PrimitiveProcedureVariables,
      Back!Generator!Line, Back!Generator!PrimitiveProcedureFunctions,
      Back!Generator!Gen, Back!Generator!Emit, Back!Generator!LambdaIsNext,
      Back!Generator!LambdaFormed, Back!Generator!NextLambda,
      Back!Generator!Parameters, Back!Generator!NumBindings,
      Back!Generator!Numbered, Back!Generator!GenAll, Back!Generator!BodyOf,
      Back!Generator!Doing, Back!Generator!Write, Back!Generator!Return,
      Back!Generator!Generating, Back!Generator!ScanHere, Back!Generator!Found,
      Back!Generator!Address, Back!Generator!Follow, Back!Generator!Scan,
      Back!Generator!Bind, Back!Generator!Defined, Back!Generator!Current,
      Back!Generator!Full, Back!Generator!NumVariables, Back!Generator!Assign,
      Back!Generator!Consequent, Back!Generator!Alternative, Back!Generator!Label,
      Back!Generator!Registered, Back!Generator!GenAllReversed,
      Back!Generator!Fail, Back!Generator!CountDefinitions,
      Back!Generator!AddressAmong, Back!Generator!Max

(* Driver gives the compiler the steps that its proofs are about,          *)
LEMMA SameCompile == Back!Compile => Comp!Compile
  BY ZenonT(60)
  DEF Back!Compile, Comp!Compile, Back!process, Comp!process, Back!Generator!Step,
      Comp!Generator!Step, Back!Generator!GenMain, Comp!Generator!GenMain,
      Back!Generator!GenLambda, Comp!Generator!GenLambda,
      Back!Generator!AppendStream, Comp!Generator!AppendStream,
      Back!Generator!EmitLines, Comp!Generator!EmitLines,
      Back!Generator!GenLiteral, Comp!Generator!GenLiteral,
      Back!Generator!GenVariable, Comp!Generator!GenVariable,
      Back!Generator!FoundVariable, Comp!Generator!FoundVariable,
      Back!Generator!ScanOutwards, Comp!Generator!ScanOutwards,
      Back!Generator!GenDefinition, Comp!Generator!GenDefinition,
      Back!Generator!RebindDefinition, Comp!Generator!RebindDefinition,
      Back!Generator!BindDefinition, Comp!Generator!BindDefinition,
      Back!Generator!GenAssignment, Comp!Generator!GenAssignment,
      Back!Generator!SetVariable, Comp!Generator!SetVariable, Back!Generator!GenIf,
      Comp!Generator!GenIf, Back!Generator!GenConsequent,
      Comp!Generator!GenConsequent, Back!Generator!GenAlternative,
      Comp!Generator!GenAlternative, Back!Generator!GenProcedure,
      Comp!Generator!GenProcedure, Back!Generator!GenBegin,
      Comp!Generator!GenBegin, Back!Generator!GenApplication,
      Comp!Generator!GenApplication, Back!Generator!IllegalNodeType,
      Comp!Generator!IllegalNodeType, Back!Generator!UnboundVariable,
      Comp!Generator!UnboundVariable, Back!Generator!Unimplemented,
      Comp!Generator!Unimplemented, Back!Generator!Overrun, Comp!Generator!Overrun,
      Back!Generator!NumPrimitives, Comp!Generator!NumPrimitives,
      Back!Generator!PrimitiveProcedureVariables,
      Comp!Generator!PrimitiveProcedureVariables, Back!Generator!Line,
      Comp!Generator!Line, Back!Generator!PrimitiveProcedureFunctions,
      Comp!Generator!PrimitiveProcedureFunctions, Back!Generator!Gen,
      Comp!Generator!Gen, Back!Generator!Emit, Comp!Generator!Emit,
      Back!Generator!LambdaIsNext, Comp!Generator!LambdaIsNext,
      Back!Generator!LambdaFormed, Comp!Generator!LambdaFormed,
      Back!Generator!NextLambda, Comp!Generator!NextLambda, Back!Generator!Length,
      Comp!Generator!Length, Back!Generator!Parameters, Comp!Generator!Parameters,
      Back!Generator!NumBindings, Comp!Generator!NumBindings,
      Back!Generator!Numbered, Comp!Generator!Numbered, Back!Generator!GenAll,
      Comp!Generator!GenAll, Back!Generator!BodyOf, Comp!Generator!BodyOf,
      Back!Generator!Doing, Comp!Generator!Doing, Back!Generator!Write,
      Comp!Generator!Write, Back!Generator!Todo, Comp!Generator!Todo,
      Back!Generator!Return, Comp!Generator!Return, Back!Generator!Generating,
      Comp!Generator!Generating, Back!Generator!Kind, Comp!Generator!Kind,
      Back!Generator!Exp, Comp!Generator!Exp, Back!Generator!ScanHere,
      Comp!Generator!ScanHere, Back!Generator!Found, Comp!Generator!Found,
      Back!Generator!Address, Comp!Generator!Address, Back!Generator!Follow,
      Comp!Generator!Follow, Back!Generator!Scan, Comp!Generator!Scan,
      Back!Generator!Bind, Comp!Generator!Bind, Back!Generator!Defined,
      Comp!Generator!Defined, Back!Generator!Current, Comp!Generator!Current,
      Back!Generator!Full, Comp!Generator!Full, Back!Generator!NumVariables,
      Comp!Generator!NumVariables, Back!Generator!Assign, Comp!Generator!Assign,
      Back!Generator!Consequent, Comp!Generator!Consequent,
      Back!Generator!Alternative, Comp!Generator!Alternative, Back!Generator!Label,
      Comp!Generator!Label, Back!Generator!Registered, Comp!Generator!Registered,
      Back!Generator!GenAllReversed, Comp!Generator!GenAllReversed,
      Back!Generator!Malformed, Comp!Generator!Malformed, Back!Generator!Fail,
      Comp!Generator!Fail, Back!Generator!CountDefinitions,
      Comp!Generator!CountDefinitions, Back!Generator!List, Comp!Generator!List,
      Back!Generator!IsNull, Comp!Generator!IsNull, Back!Generator!Forms,
      Comp!Generator!Forms, Back!Generator!Tagged, Comp!Generator!Tagged,
      Back!Generator!AddressAmong, Comp!Generator!AddressAmong,
      Back!Generator!IsPair, Comp!Generator!IsPair, Back!Generator!Identifier,
      Comp!Generator!Identifier, Back!Generator!Max, Comp!Generator!Max

(* and so it does with the loading of the output.                          *)
LEMMA SameLoad == Back!Start => Comp!Start
  BY ZenonT(60)
  DEF Back!Start, Comp!Start, Back!Loaded, Comp!Loaded, Back!ReadByC, Comp!ReadByC,
      Back!ReadLine, Comp!ReadLine, Back!compiler, Comp!compiler

(* The machine's steps are the same, too.                                  *)
LEMMA SameRun == Back!Run => Comp!Run
  <1> USE DEF Back!Runtime!At, Comp!Runtime!At, Back!Runtime!NewEnvironment,
              Comp!Runtime!NewEnvironment, Back!Runtime!KeepStack, Comp!Runtime!KeepStack,
              Back!Runtime!Advance, Comp!Runtime!Advance, Back!Runtime!EnvWord,
              Comp!Runtime!EnvWord, Back!Runtime!SavedFp, Comp!Runtime!SavedFp,
              Back!Runtime!PrimObj, Comp!Runtime!PrimObj, Back!Runtime!Line,
              Comp!Runtime!Line, Back!Runtime!Store, Comp!Runtime!Store,
              Back!Runtime!Literal, Comp!Runtime!Literal, Back!Runtime!Push,
              Comp!Runtime!Push, Back!Runtime!Outer, Comp!Runtime!Outer, Back!Runtime!Top,
              Comp!Runtime!Top, Back!Runtime!Drop, Comp!Runtime!Drop,
              Back!Runtime!Contents, Comp!Runtime!Contents, Back!Runtime!Goto,
              Comp!Runtime!Goto, Back!Runtime!WhenZero, Comp!Runtime!WhenZero,
              Back!Runtime!Body, Comp!Runtime!Body, Back!Runtime!Rejoin,
              Comp!Runtime!Rejoin, Back!Runtime!CallPrimitive, Comp!Runtime!CallPrimitive,
              Back!Runtime!IntBinary, Comp!Runtime!IntBinary, Back!Runtime!DivTraps,
              Comp!Runtime!DivTraps, Back!Runtime!IntObj, Comp!Runtime!IntObj,
              Back!Runtime!Apply, Comp!Runtime!Apply, Back!Runtime!IntUnary,
              Comp!Runtime!IntUnary, Back!Runtime!Flag, Comp!Runtime!Flag,
              Back!Runtime!StrObj, Comp!Runtime!StrObj, Back!Runtime!SavedEnv,
              Comp!Runtime!SavedEnv, Back!Runtime!Faults, Comp!Runtime!Faults,
              Back!Runtime!Enclosing, Comp!Runtime!Enclosing, Back!Runtime!Unset,
              Comp!Runtime!Unset, Back!Runtime!FpWord, Comp!Runtime!FpWord,
              Back!Runtime!Stored, Comp!Runtime!Stored, Back!Runtime!ProcObj,
              Comp!Runtime!ProcObj, Back!Runtime!Base, Comp!Runtime!Base,
              Back!Runtime!Match, Comp!Runtime!Match, Back!Runtime!IsElse,
              Comp!Runtime!IsElse, Back!Runtime!AfterBlock, Comp!Runtime!AfterBlock,
              Back!Runtime!IntMin, Comp!Runtime!IntMin, Back!Runtime!Wrap,
              Comp!Runtime!Wrap, Back!Runtime!Quotient, Comp!Runtime!Quotient,
              Back!Runtime!Remainder, Comp!Runtime!Remainder, Back!Runtime!Overflows,
              Comp!Runtime!Overflows, Back!Runtime!Underflows, Comp!Runtime!Underflows,
              Back!Runtime!BadFrame, Comp!Runtime!BadFrame, Back!Runtime!NoEnvironment,
              Comp!Runtime!NoEnvironment, Back!Runtime!BadBinding, Comp!Runtime!BadBinding,
              Back!Runtime!BadArgument, Comp!Runtime!BadArgument, Back!Runtime!BadWord,
              Comp!Runtime!BadWord, Back!Runtime!Opens, Comp!Runtime!Opens,
              Back!Runtime!Abs, Comp!Runtime!Abs, Back!Runtime!PushOps,
              Comp!Runtime!PushOps, Back!Runtime!PopOps, Comp!Runtime!PopOps,
              Back!Runtime!Pointed, Comp!Runtime!Pointed, Back!Runtime!IsProcedure,
              Comp!Runtime!IsProcedure, Back!Runtime!Readable, Comp!Runtime!Readable,
              Back!Runtime!IsObject, Comp!Runtime!IsObject, Back!Runtime!Cardinality,
              Comp!Runtime!Cardinality, Back!Runtime!IsFiniteSet, Comp!Runtime!IsFiniteSet
  <1>1. \/ Back!Runtime!Environment \/ Back!Runtime!Enter \/ Back!Runtime!BindPrimitive
        \/ Back!Runtime!BindParameter
        => \/ Comp!Runtime!Environment \/ Comp!Runtime!Enter \/ Comp!Runtime!BindPrimitive
           \/ Comp!Runtime!BindParameter
    BY ZenonT(60)
    DEF Back!Runtime!Environment, Comp!Runtime!Environment, Back!Runtime!Enter,
        Comp!Runtime!Enter, Back!Runtime!BindPrimitive, Comp!Runtime!BindPrimitive,
        Back!Runtime!BindParameter, Comp!Runtime!BindParameter
  <1>2. \/ Back!Runtime!PushLiteral \/ Back!Runtime!ScanFromHere
        \/ Back!Runtime!ScanOutwards \/ Back!Runtime!GetVariable
        \/ Back!Runtime!SetVariable
        => \/ Comp!Runtime!PushLiteral \/ Comp!Runtime!ScanFromHere
           \/ Comp!Runtime!ScanOutwards \/ Comp!Runtime!GetVariable
           \/ Comp!Runtime!SetVariable
    BY ZenonT(60)
    DEF Back!Runtime!PushLiteral, Comp!Runtime!PushLiteral, Back!Runtime!ScanFromHere,
        Comp!Runtime!ScanFromHere, Back!Runtime!ScanOutwards, Comp!Runtime!ScanOutwards,
        Back!Runtime!GetVariable, Comp!Runtime!GetVariable, Back!Runtime!SetVariable,
        Comp!Runtime!SetVariable
  <1>3. \/ Back!Runtime!DefineVariable \/ Back!Runtime!Branch \/ Back!Runtime!CloseBlock
        \/ Back!Runtime!TakeArgument
        => \/ Comp!Runtime!DefineVariable \/ Comp!Runtime!Branch \/ Comp!Runtime!CloseBlock
           \/ Comp!Runtime!TakeArgument
    BY ZenonT(60)
    DEF Back!Runtime!DefineVariable, Comp!Runtime!DefineVariable, Back!Runtime!Branch,
        Comp!Runtime!Branch, Back!Runtime!CloseBlock, Comp!Runtime!CloseBlock,
        Back!Runtime!TakeArgument, Comp!Runtime!TakeArgument
  <1>4. \/ Back!Runtime!CallLambda \/ Back!Runtime!CallIntBinary
        \/ Back!Runtime!CallIntUnary \/ Back!Runtime!CallEqualString
        => \/ Comp!Runtime!CallLambda \/ Comp!Runtime!CallIntBinary
           \/ Comp!Runtime!CallIntUnary \/ Comp!Runtime!CallEqualString
    BY ZenonT(60)
    DEF Back!Runtime!CallLambda, Comp!Runtime!CallLambda, Back!Runtime!CallIntBinary,
        Comp!Runtime!CallIntBinary, Back!Runtime!CallIntUnary, Comp!Runtime!CallIntUnary,
        Back!Runtime!CallEqualString, Comp!Runtime!CallEqualString
  <1>5. \/ Back!Runtime!CallInt2string \/ Back!Runtime!CallPrint \/ Back!Runtime!PushResult
        => \/ Comp!Runtime!CallInt2string \/ Comp!Runtime!CallPrint
           \/ Comp!Runtime!PushResult
    BY ZenonT(60)
    DEF Back!Runtime!CallInt2string, Comp!Runtime!CallInt2string, Back!Runtime!CallPrint,
        Comp!Runtime!CallPrint, Back!Runtime!PushResult, Comp!Runtime!PushResult
  <1>6. \/ Back!Runtime!Return \/ Back!Runtime!Exit \/ Back!Runtime!Undefined
        => \/ Comp!Runtime!Return \/ Comp!Runtime!Exit \/ Comp!Runtime!Undefined
    BY ZenonT(60)
    DEF Back!Runtime!Return, Comp!Runtime!Return, Back!Runtime!Exit, Comp!Runtime!Exit,
        Back!Runtime!Undefined, Comp!Runtime!Undefined
  <1>. QED
    BY <1>1, <1>2, <1>3, <1>4, <1>5, <1>6, ZenonT(60)
    DEF Back!Runtime!Step, Comp!Runtime!Step, Back!Run, Comp!Run, Back!compiler,
        Comp!compiler

-----------------------------------------------------------------------------
(* From the text to the process.                                           *)

(* As long as the generator waits for a tree, the components behind the    *)
(* parser are as they start; and the parser builds trees all the time.     *)
Waiting ==
  /\ phase = "wait" =>
       /\ tasks = <<>> /\ scopes = <<>> /\ lambdas = <<>> /\ functions = <<>> /\ stdout = <<>>
       /\ code = <<>> /\ Back!Runtime!Boot
  /\ Built

(* A compiled process makes no frame fault.                                *)
SafeFromText ==
  Back!Generator!Conventional =>
    status \notin {"underflow", "frame", "environment", "binding", "argument"}

(* It means the same by a convention as its proofs do.                     *)
LEMMA SameConvention == Back!Generator!Conventional <=> Comp!Generator!Conventional
  BY ZenonT(60)
  DEF Back!Generator!Conventional, Comp!Generator!Conventional,
      Back!Generator!MayLeaveNone, Comp!Generator!MayLeaveNone,
      Back!Generator!Expressions, Comp!Generator!Expressions,
      Back!Generator!Operands, Comp!Generator!Operands, Back!Generator!Kind,
      Comp!Generator!Kind, Back!Generator!Length, Comp!Generator!Length,
      Back!Generator!Parameters, Comp!Generator!Parameters, Back!Generator!Range,
      Comp!Generator!Range, Back!Generator!Immediate, Comp!Generator!Immediate,
      Back!Generator!ExpressionsOf, Comp!Generator!ExpressionsOf,
      Back!Generator!IsNull, Comp!Generator!IsNull, Back!Generator!Forms,
      Comp!Generator!Forms, Back!Generator!Tagged, Comp!Generator!Tagged,
      Back!Generator!Reverse, Comp!Generator!Reverse, Back!Generator!BodyParts,
      Comp!Generator!BodyParts, Back!Generator!List, Comp!Generator!List,
      Back!Generator!Identifier, Comp!Generator!Identifier, Back!Generator!IsPair,
      Comp!Generator!IsPair, Back!Generator!LambdaFormed,
      Comp!Generator!LambdaFormed, Back!Generator!BodyOf, Comp!Generator!BodyOf

(* A tree that is handed over is where the compiler's proofs begin.        *)
LEMMA CompilerStarts ==
  ASSUME Waiting, ReadInv, Generate
  PROVE  Comp!Init'
  <1>1. /\ parsing = "done" /\ phase = "wait" /\ program' = tree /\ phase' = "start"
        /\ UNCHANGED <<tasks, scopes, lambdas, functions, stdout, process>>
    BY SMTT(30) DEF Generate
  <1>2. Read!NoTree # tree /\ tree \in Trees
    <2>1. Read!IInv
      BY <1>1 DEF ReadInv, ParserInv
    <2>2. tree # Read!NoTree
      BY <1>1, <2>1 DEF Read!IInv, Read!Reading, Read!Stopped
    <2>. QED  BY <2>2 DEF Waiting, Built
  <1>3. Comp!Generator!Init'
    BY <1>1, <1>2 DEF Waiting, Comp!Generator!Init
  <1>4. code' = <<>> /\ Comp!Runtime!Boot'
    BY <1>1 DEF Waiting, process, Back!Runtime!Boot, Back!Runtime!Null, Comp!Runtime!Boot,
                Comp!Runtime!Null
  <1>. QED  BY <1>3, <1>4 DEF Comp!Init

(* Every step keeps it.                                                    *)
LEMMA WaitingNext ==
  ASSUME TreesAssumption, Waiting, ReadInv, [Next]_vars
  PROVE  Waiting'
  <1>1. Built'
    <2>1. CASE Parse
      <3>1. Read!Step /\ Read!IInv
        BY <2>1, SameParsing, DoneParsing DEF Parse, ReadInv, ParserInv
      <3>. QED  BY <3>1, ParserBuilds DEF Waiting
    <2>2. CASE UNCHANGED <<open, tree>>
      BY <2>2 DEF Waiting, Built, Read!NoTree
    <2>3. \/ Parse \/ UNCHANGED <<open, tree>>
      BY SMTT(30) DEF Next, Step, Tokenize, TakeTokens, Generate, Compile, Start, Run, Ended, vars,
             parser
    <2>. QED  BY <2>1, <2>2, <2>3
  <1>2. CASE UNCHANGED <<generator, process>>
    BY <1>1, <1>2
    DEF Waiting, generator, process, Back!Runtime!Boot, Back!Runtime!Null
  <1>3. CASE phase' # "wait"
    BY <1>1, <1>3 DEF Waiting
  <1>4. CASE Compile \/ Start \/ Run
    <2>1. phase' # "wait"
      <3>1. CASE Compile
        BY <3>1, CompileGoesOn
      <3>2. CASE Start
        BY <3>2 DEF Start, Back!Start, Back!compiler
      <3>3. CASE Run
        BY <3>3 DEF Run, Back!Run, Back!compiler, Waiting
      <3>. QED  BY <1>4, <3>1, <3>2, <3>3
    <2>. QED  BY <1>3, <2>1
  <1>5. CASE Generate
    <2>1. phase' # "wait"
      BY <1>5 DEF Generate
    <2>. QED  BY <1>3, <2>1
  <1>. QED
    BY <1>2, <1>4, <1>5 DEF Next, Step, Tokenize, TakeTokens, Parse, Ended, vars

(* It holds from the start.                                                *)
LEMMA WaitingInvariance == ASSUME TreesAssumption PROVE Spec => []Waiting
  <1>1. Init => Waiting
    <2>1. <<>> \in Seq(Seq(Trees)) /\ Par!NoTree = Read!NoTree
      BY SMTT(30) DEF Par!NoTree, Read!NoTree
    <2>. QED  BY <2>1 DEF Init, Waiting, Built
  <1>2. Waiting /\ ReadInv /\ [Next]_vars => Waiting'
    BY WaitingNext
  <1>. QED  BY <1>1, <1>2, ReadInvariance, PTL DEF Spec

(* After it, the compiler and the process are all that works.              *)
LEMMA CompilerWorks ==
  ASSUME ReadInv, phase # "wait", [Next]_vars
  PROVE  phase' # "wait" /\ [Comp!Next]_(Comp!vars)
  <1>1. parsing = "done" /\ lexing = "done"
    BY SMTT(30) DEF ReadInv
  <1>2. CASE Compile
    BY <1>2, CompileGoesOn, SameCompile DEF Compile, Comp!Next, Comp!Step
  <1>3. CASE Start
    BY <1>3, SameLoad DEF Start, Back!Start, Back!compiler, Comp!Next, Comp!Step
  <1>4. CASE Run
    BY <1>4, SameRun DEF Run, Back!Run, Back!compiler, Comp!Next, Comp!Step
  <1>5. CASE UNCHANGED <<generator, process>>
    BY <1>5 DEF generator, process, Comp!vars, Comp!compiler, Comp!process
  <1>6. UNCHANGED <<generator, process>> \/ Compile \/ Start \/ Run
    BY <1>1, DoneLexing, DoneParsing
    DEF Next, Step, Tokenize, TakeTokens, Parse, Generate, Ended, vars
  <1>. QED  BY <1>2, <1>3, <1>4, <1>5, <1>6

(* Until the parser is done the compiler waits, and then it starts.        *)
LEMMA CompilerWaits ==
  ASSUME Waiting, ReadInv, phase = "wait", [Next]_vars
  PROVE  phase' = "wait" \/ Comp!Init'
  <1> SUFFICES ASSUME phase' # "wait" PROVE Comp!Init'
    BY SMTT(30)
  <1>1. Generate
    BY GeneratorWaits
    DEF Next, Step, Tokenize, TakeTokens, Parse, Start, Run, Ended, vars, generator,
        Back!Start, Back!Run, Back!compiler
  <1>. QED  BY <1>1, CompilerStarts

(* Whatever the text, and whatever it computes: if lispc compiles it, and  *)
(* its operands all have a value, the output pops no empty stack, takes no *)
(* other word for a saved register, follows no NULL environment and stays  *)
(* within its bindings and arguments.                                      *)
THEOREM TextIsSafe == ASSUME TreesAssumption PROVE Spec => []SafeFromText
  <1>1. Comp!Spec => []Comp!CompiledSafely
    BY Comp!CompiledIsSafe DEF TreesAssumption
  <1> DEFINE W == phase = "wait"
  <1>2. Init => W
    BY SMTT(30) DEF Init
  <1>3. Waiting /\ ReadInv /\ W /\ [Next]_vars => W' \/ Comp!Init'
    BY CompilerWaits
  <1>4. ReadInv /\ ~ W /\ [Next]_vars => ~ W' /\ [Comp!Next]_(Comp!vars)
    BY CompilerWorks
  <1>5. Comp!Init => ~ W
    BY SMTT(30) DEF Comp!Init, Comp!Generator!Init
  <1>6. Spec => []Waiting
    BY WaitingInvariance
  <1>7. Waiting /\ (W \/ Comp!CompiledSafely) => SafeFromText
    BY SameConvention DEF Waiting, Back!Runtime!Boot, SafeFromText, Comp!CompiledSafely
  <1> HIDE DEF W
  <1>8. Spec => [](W \/ Comp!CompiledSafely)
    BY <1>1, <1>2, <1>3, <1>4, <1>5, <1>6, ReadInvariance, PTL DEF Spec, Comp!Spec
  <1>. QED  BY <1>6, <1>7, <1>8, PTL

(* Whatever the text, the environments that its process builds nest as its *)
(* lambda expressions do, and the closures it passes around keep theirs.   *)
THEOREM TextIsScoped == ASSUME TreesAssumption PROVE Spec => []Comp!CompiledScope
  <1>1. Comp!Spec => []Comp!CompiledScope
    BY Comp!CompiledIsScoped DEF TreesAssumption
  <1> DEFINE W == phase = "wait"
  <1>2. Init => W
    BY DEF Init
  <1>3. Waiting /\ ReadInv /\ W /\ [Next]_vars => W' \/ Comp!Init'
    BY CompilerWaits
  <1>4. ReadInv /\ ~ W /\ [Next]_vars => ~ W' /\ [Comp!Next]_(Comp!vars)
    BY CompilerWorks
  <1>5. Comp!Init => ~ W
    BY DEF Comp!Init, Comp!Generator!Init
  <1>6. Spec => []Waiting
    BY WaitingInvariance
  <1>7. Waiting /\ W => Comp!CompiledScope
    BY DEF Waiting, Comp!CompiledScope
  <1> HIDE DEF W
  <1>8. Spec => [](W \/ Comp!CompiledScope)
    BY <1>1, <1>2, <1>3, <1>4, <1>5, <1>6, ReadInvariance, PTL DEF Spec, Comp!Spec
  <1>. QED  BY <1>6, <1>7, <1>8, PTL

(* Whatever the text, a return of its process gives the caller back the    *)
(* registers of the call, and no step writes to the operands of callers.   *)
THEOREM TextCallsAreNested == ASSUME TreesAssumption PROVE Spec => Comp!CompiledCalls
  <1>1. Comp!Spec => Comp!CompiledCalls
    BY Comp!CompiledCallsAreNested DEF TreesAssumption
  <1> DEFINE W == phase = "wait"
  <1>2. Init => W
    BY DEF Init
  <1>3. Waiting /\ ReadInv /\ W /\ [Next]_vars => W' \/ Comp!Init'
    BY CompilerWaits
  <1>4. ReadInv /\ ~ W /\ [Next]_vars => ~ W' /\ [Comp!Next]_(Comp!vars)
    BY CompilerWorks
  <1>5. Comp!Init => ~ W
    BY DEF Comp!Init, Comp!Generator!Init
  <1>6. Spec => []Waiting
    BY WaitingInvariance
  <1>7. Waiting /\ W => code = <<>>
    BY SMTT(30) DEF Waiting
  <1> DEFINE A == Comp!Generator!Conventional /\ code # <<>> =>
       /\ Len(calls') < Len(calls) =>
            fp' = Comp!Mach!Caller.fp /\ env' = Comp!Mach!Caller.env /\ sp' = Comp!Mach!Caller.sp
       /\ \A i \in fp .. (StackSize - 1) : stack'[i] = stack[i]
  <1>8. Comp!CompiledCalls <=> [][A]_(Comp!vars)
    BY SMTT(30) DEF Comp!CompiledCalls
  <1>9. code = <<>> => [A]_(Comp!vars)
    BY SMTT(30)
  <1> HIDE DEF W, A
  <1>10. Spec => [][A]_(Comp!vars)
    BY <1>1, <1>2, <1>3, <1>4, <1>5, <1>6, <1>7, <1>8, <1>9, ReadInvariance, PTL
    DEF Spec, Comp!Spec
  <1>. QED  BY <1>8, <1>10, PTL

=============================================================================
