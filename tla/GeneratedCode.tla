--------------------------- MODULE GeneratedCode ---------------------------
(***************************************************************************)
(* What the code generator promises about the code it prints.              *)
(***************************************************************************)
EXTENDS CGenerator, Code

(* What the parser makes nodes of: long longs, and strings.                *)
ASSUME ValuesAssumption ==
  /\ \A x \in Nodes :
       /\ x.type = "integer" => x.integer \in LongLong
       /\ x.type = "string" => x.string \in Texts
  /\ MaxArgs \in Nat /\ IntMax \in Nat

-----------------------------------------------------------------------------
(* The type invariant.                                                     *)

Ops ==
  {"env", "enter", "prim", "bind", "int", "str", "proc", "scan", "outer", "get",
   "set", "def", "if", "else", "close", "arg", "call", "pushret", "return", "exit"}

Kinds ==
  Forms \cup {"null", "integer", "string", "numeric", "identifier", "application"}

Indexed == {"prim", "bind", "get", "set", "def", "arg"}

(* Every line is one that the machine knows, with an index that is none of *)
(* the -1s by which the lookups say that they found nothing.               *)
TypeOK ==
  /\ \A i \in 1 .. Len(tasks) :
       \/ tasks[i].do \in {"gen", "bind", "assign", "consequent", "alternative"}
            /\ Kind(tasks[i].exp) \in Kinds
       \/ tasks[i].do = "scan" /\ tasks[i].env \in 0 .. Len(envs)
       \/ tasks[i].do = "emit" /\ \A l \in Range(tasks[i].lines) : l.op \in Ops
  /\ \A e \in 1 .. Len(envs) :
       envs[e].enclosing \in 0 .. (e - 1) /\ envs[e].capacity \in Nat
  /\ Len(envs) = Len(functions)
  /\ \A k \in 1 .. Len(lambdas) :
       Tagged(lambdas[k].exp, "lambda") /\ lambdas[k].env \in 1 .. Len(envs)
  /\ \A f \in 1 .. Len(functions) : \A l \in Range(functions[f].body) :
       l.op \in Ops /\ (l.op \in Indexed => l.n \in Nat)
  /\ stdout \in {<<>>, <<"header">>, <<"header", "declarations", "functions">>}
  /\ status \in {"start", "run", "done", "illegal", "unbound", "unimplemented", "overrun"}

-----------------------------------------------------------------------------
(* The parts of an expression that are generated in its place, in order.   *)

Immediate(x) ==
  LET n == Length(x)
  IN CASE Kind(x) \in {"define", "set!"} -> IF n < 3 THEN <<>> ELSE <<x.items[3]>>
       [] Kind(x) = "if"          -> SubSeq(x.items, 2, IF n < 4 THEN n ELSE 4)
       [] Kind(x) = "begin"       -> Tail(x.items)
       [] Kind(x) = "application" -> <<Head(x.items)>> \o Reverse(Tail(x.items))
       [] OTHER                   -> <<>>

BodyParts(x) == IF Kind(x) = "lambda" /\ LambdaFormed(x) THEN BodyOf(x) ELSE <<>>

(* Every expression of x, the bodies of its lambdas included.              *)
ExpressionsOf(exp) ==
  LET within[x \in NodesOf(exp)] ==
        {x} \cup UNION {within[y] : y \in Range(Immediate(x)) \cup Range(BodyParts(x))}
  IN within[exp]

Expressions == ExpressionsOf(program)

-----------------------------------------------------------------------------
(* Definitions.                                                            *)

(* The definitions made in the same function as x.                         *)
Definitions(exp) ==
  LET within[x \in NodesOf(exp)] ==
        (IF Kind(x) = "define" THEN {x} ELSE {})
          \cup UNION {within[y] : y \in Range(Immediate(x))}
  IN within[exp]

NestsDefinitions ==
  \E x \in Expressions : Kind(x) = "define" /\ Definitions(x) # {x}

DefinesInMain == Definitions(program) # {}

(* "lambda" or "define" is the name of a variable, so that the operands    *)
(* behind it look like a form to countDefinitions.                         *)
FormNames == {Identifier("lambda"), Identifier("define")}
FormsAreVariables ==
  \E x \in Expressions :
    \/ x \in FormNames
    \/ Kind(x) = "set!" /\ Length(x) >= 3 /\ x.items[2] \in FormNames

(* The arrays of an environment are allocated for what countDefinitions    *)
(* counts before the body is generated, and filled by what the handlers    *)
(* then come across.  Unless a definition is part of the value of another, *)
(* or is made in main, or a form's name is a variable, the two agree; and  *)
(* the lambda expressions fit into their tables as long as there are no    *)
(* more than MAX_NUM_LAMBDA.                                               *)
TablesLargeEnough ==
  status = "overrun" =>
    \/ NestsDefinitions \/ DefinesInMain \/ FormsAreVariables
    \/ Len(lambdas) = MaxLambdas

(* genDefinition's own comment: a definition assigns to a binding of the   *)
(* current environment, or else adds a binding to it.                      *)
DefinitionAddsBinding == status # "overrun"

(* The environment that the output allocates for a procedure has room for  *)
(* every binding that its code makes, though its size is printed before    *)
(* the definitions are met: while the compiler's own array is large        *)
(* enough, so is the output's.                                             *)
BindingsFit ==
  \A f \in 1 .. Len(functions) :
    /\ Len(envs[f].variables) <= functions[f].size
    /\ \A l \in Range(functions[f].body) :
         l.op \in {"prim", "bind", "def"} => l.n < functions[f].size

-----------------------------------------------------------------------------
(* Variables.                                                              *)

(* The names that x reads or assigns before its own function defines them, *)
(* the names it defines, and the names free in the lambda expressions in   *)
(* it, which see whatever the function defines, be it later.               *)
Names(u, d, c) == [used |-> u, defined |-> d, closed |-> c]

(* The names of several parts, each of which sees what those before it     *)
(* define.                                                                 *)
InOrder(ns) ==
  LET Parts == 1 .. Len(ns)
      Before(i) == UNION {ns[j].defined : j \in 1 .. (i - 1)}
  IN Names(UNION {ns[i].used \ Before(i) : i \in Parts},
           UNION {ns[i].defined : i \in Parts},
           UNION {ns[i].closed : i \in Parts})

Free(names) == names.used \cup (names.closed \ names.defined)

NamesIn(exp) ==
  LET in[x \in NodesOf(exp)] ==
        LET Of(xs) == [i \in 1 .. Len(xs) |-> in[xs[i]]]
            parts == Of(Immediate(x))
        IN CASE Kind(x) = "identifier" -> Names({x.identifier}, {}, {})
             [] Kind(x) = "define" /\ Length(x) >= 3 ->
                  InOrder(parts \o <<Names({}, {x.items[2].identifier}, {})>>)
             [] Kind(x) = "set!" /\ Length(x) >= 3 ->
                  InOrder(parts \o <<Names({x.items[2].identifier}, {}, {})>>)
             [] Kind(x) = "lambda" /\ LambdaFormed(x) ->
                  LET params == {y.identifier : y \in Range(Parameters(x).items)}
                  IN Names({}, {}, Free(InOrder(Of(BodyParts(x)))) \ params)
             [] OTHER -> InOrder(parts)
  IN in[exp]

FreeNames == Free(NamesIn(program)) \ Range(PrimitiveProcedureVariables)

(* A program compiles only if every variable in it is a primitive, a       *)
(* parameter or a definition of a lambda expression around it (of its own  *)
(* one: an earlier definition), and is rejected as unbound only if one is  *)
(* not: though definitions are found while the code around them is being   *)
(* generated, and a lambda's body is generated after all of its parent's.  *)
UnboundExactly ==
  /\ status = "done" => FreeNames = {}
  /\ status = "unbound" => FreeNames # {}

-----------------------------------------------------------------------------
(* Layout.                                                                 *)

(* The code of x may leave the stack as it was, without a value.           *)
MayLeaveNone(exp) ==
  LET none[x \in NodesOf(exp)] ==
        \/ Kind(x) \in {"define", "set!"}
        \/ Kind(x) = "if" /\ (Length(x) < 4 \/ none[x.items[3]] \/ none[x.items[4]])
        \/ Kind(x) = "begin" /\ \A y \in Range(Immediate(x)) : none[y]
  IN none[exp]

(* What the lines generated for x pop: each must have left a word.         *)
Operands(x) ==
  CASE Kind(x) \in {"define", "set!", "application"} -> Range(Immediate(x))
    [] Kind(x) = "if" -> {x.items[2]}
    [] OTHER -> {}

Conventional ==
  /\ ~MayLeaveNone(program)
  /\ \A x \in Expressions :
       /\ \A y \in Operands(x) : ~MayLeaveNone(y)
       /\ Kind(x) = "application" => Length(x) - 1 <= MaxArgs
       /\ Kind(x) = "lambda" => Length(Parameters(x)) <= MaxArgs

(* The output for a program whose operands all have a value is laid out as *)
(* the machine needs it: then no line of it underflows the stack, leaves   *)
(* the environments or takes one kind of environment for another (module   *)
(* FrameDiscipline, which assumes exactly this of its programs).           *)
LayoutSound == status = "done" /\ Conventional => WellFormed(Annotate(functions))

-----------------------------------------------------------------------------
(* The output.                                                             *)

(* A program that is rejected leaves the header without the functions, and *)
(* one that is compiled has a function for every procedure that its code   *)
(* builds, enclosed by the function that builds it.                        *)
OutputWhole ==
  /\ status \in {"illegal", "unbound", "unimplemented"} => stdout = <<"header">>
  /\ status = "done" =>
       \A f \in 1 .. Len(functions) : \A l \in Range(functions[f].body) :
         l.op = "proc" => l.f \in 1 .. Len(functions) /\ functions[l.f].parent = f

(* The compiler comes to an end on every program.                          *)
Terminates == <>(status \notin {"start", "run"})

=============================================================================
