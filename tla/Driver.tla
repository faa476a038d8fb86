------------------------------- MODULE Driver -------------------------------
(***************************************************************************)
(* The whole way of a program: its text goes through the lexer, the        *)
(* parser and the generator, as main's compile calls them; a C compiler    *)
(* reads the output; and the machine runs it.                              *)
(*                                                                         *)
(* Where a component stops, with an error message and exit or undefined,   *)
(* the ones behind it never start.                                         *)
(***************************************************************************)
EXTENDS Code, SequencesExt, Syntax

CONSTANTS Sources, ChunkBufferSize, NodesOf(_), MaxLambdas, StackSize, Addresses, Decimal(_)

VARIABLES
  source, at, reading, chunk, lexed, lexing,                    \* lexer
  text, tokens, open, tree, parsing,                            \* parser
  program, tasks, scopes, lambdas, functions, stdout, phase,    \* generator
  code, fn, pc, calls, stack, sp, fp, args, ret, r0, env, benv, \* the output
  envs, printed, status

lexer  == <<source, at, reading, chunk, lexed, lexing>>
parser == <<text, tokens, open, tree, parsing>>
generator == <<program, tasks, scopes, lambdas, functions, stdout, phase>>
process   == <<code, fn, pc, calls, stack, sp, fp, args, ret, r0, env, benv,
               envs, printed, status>>

Lex  == INSTANCE Lexer WITH tokens <- lexed, status <- lexing
Par  == INSTANCE Parser WITH Texts <- {}, status <- parsing
-----------------------------------------------------------------------------
(* What is between the quotes of a C literal: genString prints a text as   *)
(* it is.                                                                  *)

(* A backslash joins the line it ends with the next one.                   *)
Spliced(cs) ==
  LET read[i \in 1 .. (Len(cs) + 2)] ==
        IF i > Len(cs) THEN <<>>
        ELSE IF i < Len(cs) /\ cs[i] = "\\" /\ cs[i + 1] = "newline" THEN read[i + 2]
        ELSE <<cs[i]>> \o read[i + 1]
  IN read[1]

(* The escapes of C that the texts checked have.                           *)
Escaped(c) ==
  CASE c = "n" -> "newline" [] c = "a" -> "alert" [] c = "0" -> "nul" [] OTHER -> c

(* The characters of a literal; "quote" where a backslash takes its end.   *)
Unescaped(cs) ==
  LET read[i \in 1 .. (Len(cs) + 2)] ==
        IF i > Len(cs) THEN <<>>
        ELSE IF cs[i] # "\\" THEN <<cs[i]>> \o read[i + 1]
        ELSE <<IF i < Len(cs) THEN Escaped(cs[i + 1]) ELSE "quote">> \o read[i + 2]
  IN read[1]

(* A literal ends on the line it begins on.                                *)
IsLiteral(cs) ==
  "newline" \notin Range(Spliced(cs)) /\ "quote" \notin Range(Unescaped(Spliced(cs)))

(* What strcmp and printf take for its text: up to the first '\0'.         *)
Content(cs) == Lex!Copied(Unescaped(Spliced(cs)))

-----------------------------------------------------------------------------
(* The generator, and the process that its output becomes.                 *)

Back == INSTANCE Lispc WITH Programs <- {}

vars == <<lexer, parser, generator, process>>

ASSUME DriverAssumption == Lex!LexerAssumption

-----------------------------------------------------------------------------
(* compile.                                                                *)

Init ==
  /\ Lex!Init
  /\ text = <<>> /\ tokens = <<>> /\ open = <<>> /\ tree = Par!NoTree /\ parsing = "wait"
  /\ program = Par!NoTree /\ tasks = <<>> /\ scopes = <<>> /\ lambdas = <<>>
  /\ functions = <<>> /\ stdout = <<>> /\ phase = "wait"
  /\ code = <<>> /\ Back!Runtime!Boot

Tokenize == Lex!Step /\ UNCHANGED <<parser, generator, process>>

(* The characters of an identifier are a name from here on.                *)
Spelled(cs) == FoldLeft(LAMBDA name, c : name \o c, "", cs)

Named(token) ==
  IF token.type = "identifier" THEN Identifier(Spelled(token.identifier)) ELSE token

NamedAll(ts) == [i \in 1 .. Len(ts) |-> Named(ts[i])]

TakeTokens ==
  /\ lexing = "done" /\ parsing = "wait"
  /\ text' = NamedAll(lexed) /\ tokens' = text' /\ parsing' = "start"
  /\ UNCHANGED <<open, tree, lexer, generator, process>>

Parse == Par!Step /\ UNCHANGED <<lexer, generator, process>>

Generate ==
  /\ parsing = "done" /\ phase = "wait"
  /\ program' = tree /\ phase' = "start"
  /\ UNCHANGED <<tasks, scopes, lambdas, functions, stdout, lexer, parser, process>>

Compile == Back!Compile /\ UNCHANGED <<lexer, parser>>

-----------------------------------------------------------------------------
(* The C compiler: it refuses an output in which a text is no literal.     *)

Literals ==
  UNION {{l.s : l \in {m \in Range(functions[f].body) : m.op = "str"}} : f \in DOMAIN functions}

IsC == \A cs \in Literals : IsLiteral(cs)

Start == IsC /\ Back!Start /\ UNCHANGED <<lexer, parser>>

Run == Back!Run /\ UNCHANGED <<lexer, parser>>

-----------------------------------------------------------------------------
(* error.c, and the other ways to stop.                                    *)

(* dumpToken: nothing for the end; a numeric's value is left out.           *)
Dump(token) ==
  CASE token.type \in {"(", ")"}   -> <<token.type>>
    [] token.type = "string"     -> <<"\"">> \o token.string \o <<"\"">>
    [] token.type = "integer"    -> Decimal(token.integer)
    [] token.type = "identifier" -> <<token.identifier>>
    [] token.type = "numeric"    -> <<"numeric">>
    [] token.type = "eof"        -> <<>>

(* What is on the error stream when lispc exits.                           *)
Complaint ==
  CASE lexing = "illegal"       -> <<"Illegal string">>
    [] parsing = "unexpected"   -> <<"Unexpected token">> \o Dump(Par!Current)
    [] phase = "illegal"        -> <<"Illegal node type">>
    [] phase = "unimplemented"  -> <<"This feature has not been implemented yet">>
    [] phase = "unbound"        -> <<"Unbound variable">>
    [] OTHER                    -> <<>>

Overran == lexing \in {"overrun", "range"} \/ phase = "overrun"

(* gcc refuses the output.                                                 *)
Refused == phase = "done" /\ ~IsC

Ended ==
  /\ Complaint # <<>> \/ Overran \/ Refused \/ status # "run"
  /\ UNCHANGED vars

Step == Tokenize \/ TakeTokens \/ Parse \/ Generate \/ Compile \/ Start \/ Run
Next == Step \/ Ended

Spec == Init /\ [][Next]_vars

(* Compilers and processes that can go on do go on.                        *)
FairSpec == Spec /\ WF_vars(Step)

=============================================================================
